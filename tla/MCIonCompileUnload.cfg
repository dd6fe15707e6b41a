SPECIFICATION FairSpec
CONSTANTS
  Scripts = {s1, s2, s3}
  NumThreads = 2
  MaxBuilders = 3
  MaxWarmUp = 1
  LazyMax = 1
PROPERTIES UnloadReturns
CHECK_DEADLOCK FALSE
