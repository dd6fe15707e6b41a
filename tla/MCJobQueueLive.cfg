SPECIFICATION FairSpec
CONSTANTS
  Tasks = {t1, t2}
  HelperThreads = {h1, h2}
  NoTask = NoTask
  MaxJobs = 1
  MaxDepth = 2
  MayFail = TRUE
  MayUnload = TRUE
INVARIANTS OutstandingCounts NoLostWakeup
PROPERTIES WaitEnds CallsReturn ShutDownReturns
CHECK_DEADLOCK FALSE
