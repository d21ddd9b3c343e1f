CONSTANTS
  RamSize = 11
  Region0Addr = 2
  MaxFreeRegions = 3
  C47_NULL = 99
  Claims = {0, 2, 3}
  ProgramSizes = {0, 2, 3}
  DmcpBuild = FALSE
SPECIFICATION Spec
PROPERTY GrownRegionWasProgramMemory
CHECK_DEADLOCK FALSE
