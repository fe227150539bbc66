CONSTANTS
  Machines <- MCMachines
  Drivers <- MCDrivers
  BusCount = 2
  DevCount = 4
  Word = 1024
  PAGE = 4
  PCIE0_MMIO = 256
  WindowSize = 256
  NONE = NONE
SPECIFICATION Spec
INVARIANTS
  DevicesDisjoint
  AreasReachable
  ProbeFinds
PROPERTIES
  SetupEnds
CHECK_DEADLOCK FALSE
