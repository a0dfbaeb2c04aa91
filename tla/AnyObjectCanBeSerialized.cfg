SPECIFICATION Spec
CONSTANTS
  Base = 4
  MaxObjects = 1
  Object <- ObjectsAtBoundaries
CHECK_DEADLOCK FALSE
INVARIANT AnyObjectCanBeSerialized
