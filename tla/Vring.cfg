CONSTANTS
  Buffers <- MCBuffers
  Lengths <- MCLengths
  QSizes <- MCQSizes
SPECIFICATION Spec
INVARIANTS
  AreasInside
  DescClearOfAvail
  SizeSuffices
  EventFieldsFit
CHECK_DEADLOCK FALSE
