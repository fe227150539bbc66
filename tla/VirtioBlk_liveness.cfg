CONSTANTS
  b1 = b1
  b2 = b2
  d1 = d1
  d2 = d2
  NULL = NULL
  QSize = 3
  IdxMod = 3
  Capacity = 1
  Data <- OneDatum
  Bufs <- OneBuf
  MaxEnv = 2
SPECIFICATION Spec
PROPERTIES
  RequestReturns
  InterruptServed
  InputEchoed
