CONSTANTS
  QSize = 4
  IdxMod = 8
  Lengths <- MCLengths
  NONE = NONE
SPECIFICATION Spec
INVARIANTS
  RingInStep
  IInv
  OrderedReturnsAnswer
PROPERTIES
  ReadReturns
