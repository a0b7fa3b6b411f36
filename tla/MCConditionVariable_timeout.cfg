SPECIFICATION ExamplesSpec
CONSTANTS
  t1 = t1
  t2 = t2
  Task = {t1, t2}
  Thread1 = t1
  Thread2 = t2
  NoTask = NoTask
  Values <- FourValues
  Conditions <- OneValueEach
  Waits = {"wait", "waitPredicate", "waitForPredicate", "waitFor"}
  MaxListed = 3
PROPERTIES
  NotifiedTaskGoesOn
  WaitsEndAsExpected
  ExamplesEnd
CHECK_DEADLOCK FALSE
