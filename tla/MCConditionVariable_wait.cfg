SPECIFICATION Spec
CONSTANTS
  Task = {t1, t2, t3}
  NoTask = NoTask
  Values = {0, 1}
  Conditions = {{1}}
  Waits = {"wait", "waitPredicate", "waitFor", "waitForPredicate"}
  MaxListed = 4
SYMMETRY TaskSymmetry
INVARIANTS
  SleepersAreListed
  NoLockDeadlock
PROPERTIES
  OnlyTimeoutsDangle
  EveryNotificationArrives
  ReturnsAsPromised
CHECK_DEADLOCK FALSE
