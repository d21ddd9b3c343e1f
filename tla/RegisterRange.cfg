CONSTANTS
  XReg = 5
  LastLettered = 5
  Kinds = {"number", "text"}
  FreeBlocks = {1, 4, 8}
SPECIFICATION Spec
INVARIANTS
  TypeOK
  RangesMoveAtOnce
  SortIsStable
  PoolKept
CHECK_DEADLOCK FALSE
