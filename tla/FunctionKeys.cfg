CONSTANTS
  Keys = {38, 42}
  BlockedKeys = {42}
  Screens = {"menu", "equation", "alpha", "timer", "blank", "browser", "show", "key_entry"}
  MaxPresses = 4
SPECIFICATION Spec
INVARIANTS
  TypeOK
PROPERTIES
  RunsWhatWasShown
  TapsRunInOrder
  LadderWhileDown
CHECK_DEADLOCK FALSE
