SPECIFICATION Spec
CONSTANTS
  Tasks = {t1, t2}
  HelperThreads = {h1, h2}
  NoTask = NoTask
  MaxJobs = 3
  MaxDepth = 3
  MayFail = FALSE
  MayUnload = TRUE
INVARIANTS TypeOK OutstandingCounts ListFixedWhenTaken NoLostWakeup QueuedTaskServed OneJobLoop FinishedTasksLive
PROPERTIES JobsInOrder NoJobLeftBehind ImplementsQueue
CHECK_DEADLOCK FALSE
