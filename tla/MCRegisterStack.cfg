CONSTANTS
  Top = 2
  Blocks <- MCBlocks
  Values = {"zero", "short"}
  Zero = "zero"
  Junk = "junk"
  Size <- MCSize
  FreeMemory = {0, 5}
  None = None
SPECIFICATION Spec
INVARIANTS
  TypeOK
  Owned
PROPERTIES
  MemoryAccounted
  ImplementsValueStack
VIEW View
CHECK_DEADLOCK FALSE
