\* Two tasks, one of which may run in sleep mode.
CONSTANTS
  NULL = NULL
  t1 = t1
  t2 = t2
  t3 = t3
  Items <- TwoTasks
  Sleepers = {t1}
  Liberties = {}
SPECIFICATION Spec
CHECK_DEADLOCK TRUE
INVARIANTS
  TasksWait
