CONSTANTS
  MaxRegions = 3
  MaxRegionSize = 9
  Sizes = {1, 2, 3, 4}
  NumBlocks = 2
  Fraction = 2
SPECIFICATION Spec
INVARIANTS
  YesIsKept
  NoIsJustified
CHECK_DEADLOCK FALSE
