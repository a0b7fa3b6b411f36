SPECIFICATION Spec
CONSTANTS
  Task = {t1, t2, t3}
  NoTask = NoTask
  Values = {0, 1}
  Conditions = {{1}}
  Waits = {"waitFor"}
  MaxListed = 2
PROPERTIES
  NoDeadFlagWritten
CHECK_DEADLOCK FALSE
