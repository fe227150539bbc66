CONSTANTS
  b1 = b1
  b2 = b2
  d1 = d1
  d2 = d2
  NULL = NULL
  QSize = 3
  IdxMod = 6
  Capacity = 2
  Data <- TwoData
  Bufs <- TwoBufs
  MaxEnv = 0
SPECIFICATION Spec
INVARIANTS
  IndicesInStep
PROPERTIES
  ImplementsSyncDisk
