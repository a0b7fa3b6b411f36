SPECIFICATION FairSpec
CONSTANTS
  w1 = w1
  w2 = w2
  Worker = {w1, w2}
  Task <- TwoTasks
  Common = Common
  NoTask = NoTask
  External = External
  Affinities <- AnyAffinity
  MinimumActiveTaskWorkers = 0
  InactivitySuspends = TRUE
  ResumeOnSuspend = TRUE
  QueueCapacity = 3
  MaxYields = 1
  MaxPending = 1
  ClientFeatures <- Disciplined
INVARIANTS
  AffinityRespected
PROPERTIES
  AwaitReturns
  ServesTaskGraph
