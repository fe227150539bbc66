CONSTANTS
  FifoDepth = 2
  Word = 32
  SECTOR = 4
  RNG_CNT = 1
  TEST_CNT = 2
  Machines <- MCMachines
  Sizes <- MCSizes
  MaxEnv = 1
SPECIFICATION Spec
INVARIANTS
  NothingLost
  RangeIsExact
  PassedIsStored
  GoodDiskPasses
  RequestFits
PROPERTIES
  Finishes
CHECK_DEADLOCK FALSE
