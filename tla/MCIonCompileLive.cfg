SPECIFICATION FairSpec
CONSTANTS
  Scripts = {s1, s2}
  NumThreads = 2
  MaxBuilders = 3
  MaxWarmUp = 1
  LazyMax = 1
PROPERTIES EveryCompileFinishes CancelReturns
CHECK_DEADLOCK FALSE
