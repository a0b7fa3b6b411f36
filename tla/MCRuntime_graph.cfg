SPECIFICATION Spec
CONSTANTS
  w1 = w1
  w2 = w2
  Worker = {w1, w2}
  Task <- ThreeTasks
  Common = Common
  NoTask = NoTask
  External = External
  Affinities <- CommonOnly
  MinimumActiveTaskWorkers = 1
  InactivitySuspends = FALSE
  ResumeOnSuspend = TRUE
  QueueCapacity = 3
  MaxYields = 1
  MaxPending = 1
  ClientFeatures = {"partialGraph", "force", "toggle"}
SYMMETRY WorkerSymmetry
INVARIANTS
  TypeOK
  OnePlace
  RunsOnlyResumable
  NoTaskLost
  CountIsAccurate
  LeavesNoTaskBehind
  RestsEmpty
PROPERTIES
  ImplementsTaskGraph
