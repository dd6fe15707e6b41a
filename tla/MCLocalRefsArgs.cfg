SPECIFICATION Spec
CONSTANTS
  MaxStack = 2
  MaxCallbacks = 1
  Argcs = {2, 3}
  MaxArgs = 1
  MaxOptions = 1
INVARIANT ArgumentsInRange
CHECK_DEADLOCK FALSE
