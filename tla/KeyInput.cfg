CONSTANTS
  BufferSize = 4
  built_for_r47 = TRUE
  Keys = {11, 33, 36, 44}
  MaxEvents = 8
SPECIFICATION Spec
INVARIANTS
  TypeOK
  KeysInOrder
PROPERTIES
  InterruptStopsComputation
  InterruptIsSpent
  TypedAheadKeysArrive
  KeysAreTaken
CHECK_DEADLOCK FALSE
