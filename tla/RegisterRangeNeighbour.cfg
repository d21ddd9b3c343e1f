CONSTANTS
  XReg = 4
  LastLettered = 4
  Kinds = {"number", "text", "nan", "matrix"}
  FreeBlocks = {8}
SPECIFICATION Spec
INVARIANT
  SortDependsOnItsRange
CHECK_DEADLOCK FALSE
