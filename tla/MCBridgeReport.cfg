SPECIFICATION Spec
CONSTANTS
  MaxDepth = 2
  MaxCalls = 2
  MaxRaised = 1
PROPERTY AnyExceptionReportable
CHECK_DEADLOCK FALSE
