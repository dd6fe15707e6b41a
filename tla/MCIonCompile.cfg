SPECIFICATION Spec
CONSTANTS
  Scripts = {s1, s2, s3}
  NumThreads = 2
  MaxBuilders = 3
  MaxWarmUp = 1
  LazyMax = 1
SYMMETRY ScriptSymmetry
INVARIANTS TypeOK OneBuilderPerScript ScriptStateAgrees CancelComplete WaitersHaveWakers FinishedNoticed
CHECK_DEADLOCK FALSE
