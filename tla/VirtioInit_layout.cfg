CONSTANTS
  LowWord <- MCLowWord
  HighWord <- MCHighWord
  Offers <- MCOffers
  MaxSizes <- MCMaxSizes
SPECIFICATION Spec
INVARIANTS
  StandardLayout
CHECK_DEADLOCK FALSE
