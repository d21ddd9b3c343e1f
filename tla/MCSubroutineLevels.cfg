CONSTANTS
  Addr = {1, 2, 3, 4, 5}
  NULL = NULL
  Places <- MCPlaces
  Points = {p1, p2}
  Values = {0, 1}
  Zero = 0
  Sizes = {0, 1, 2}
  MaxLevels = 3
  MaxCount = 4
  MaxEngines = 3
SPECIFICATION Spec
INVARIANTS
  TypeOK
  LevelsOwnMemory
  LevelsLinked
  CallersLevelKept
PROPERTIES
  ImplementsCallStack
VIEW View
SYMMETRY Symmetry
