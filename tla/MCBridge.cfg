SPECIFICATION Spec
CONSTANTS
  MaxDepth = 3
  MaxCalls = 3
  MaxRaised = 2
INVARIANTS TypeOK OwnErrorsReported ClearedForGood
PROPERTIES ScopesIsolate FunctionErrorsContained
CHECK_DEADLOCK FALSE
