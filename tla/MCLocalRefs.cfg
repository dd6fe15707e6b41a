SPECIFICATION Spec
CONSTANTS
  MaxStack = 4
  MaxCallbacks = 2
  Argcs = {0, 5}
  MaxArgs = 1
  MaxOptions = 1
INVARIANTS TypeOK OnlyResultsLost BuffersReleased
CHECK_DEADLOCK FALSE
