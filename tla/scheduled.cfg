\* Three tasks, one of which clients allow to run in sleep mode.
CONSTANTS
  NULL = NULL
  t1 = t1
  t2 = t2
  t3 = t3
  Items <- ThreeTasks
  Sleepers = {t1}
  Liberties = {}
SPECIFICATION FairSpec
CHECK_DEADLOCK TRUE
INVARIANTS
  QueueIntact
  ProcessingStaysOnLiveTasks
  ExecutesOnce
PROPERTIES
  DueTaskRuns
  DueTaskRunsAwake
