CONSTANTS
  b1 = b1
  b2 = b2
  d1 = d1
  d2 = d2
  NULL = NULL
  QSize = 4
  IdxMod = 4
  Capacity = 1
  Data <- OneDatum
  Bufs <- OneBuf
  MaxEnv = 1
SPECIFICATION Spec
INVARIANTS
  CompletionIsCurrent
  ChainIntact
  NoLostWakeup
  ClaimCompleted
  StuckLineIgnored
  IInv
PROPERTIES
  OwnedByDevice
