CONSTANTS
  LowWord <- MCLowWord
  HighWord <- MCHighWord
  Offers <- MCOffers
  MaxSizes <- MCMaxSizes
SPECIFICATION Spec
INVARIANTS
  StartedIsSetUp
  FailureIsInert
  AgreedFeatures
  IInv
PROPERTIES
  ResultFitsDevice
CHECK_DEADLOCK FALSE
