CONSTANTS
  Texts <- MCTexts
  Global = {"G"}
  Local = {"L"}
  Names = {"V", "W"}
  MaxLoops = 3
  MaxLocals = 6
  LevelWrap = 256
SPECIFICATION Spec
INVARIANTS
  TypeOK
  OpenLoopsKept
PROPERTIES
  NextClosesOwnLoop
VIEW View
