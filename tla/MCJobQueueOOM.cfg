SPECIFICATION Spec
CONSTANTS
  Tasks = {t1}
  HelperThreads = {h1}
  NoTask = NoTask
  MaxJobs = 1
  MaxDepth = 2
  MayFail = TRUE
  MayUnload = FALSE
INVARIANTS FinishedTasksLive
CHECK_DEADLOCK FALSE
