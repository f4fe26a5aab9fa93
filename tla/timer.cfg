\* Two timers of any kind, with and without an interval.
CONSTANTS
  NULL = NULL
  t1 = t1
  t2 = t2
  Tasks <- MCTasks
  Intervals = {0, 1}
  Garbage <- MCGarbage
  Liberties = {}
SPECIFICATION FairSpec
CHECK_DEADLOCK TRUE
INVARIANTS
  RunningIsInstalled
PROPERTIES
  CallbackIsAccountedFor
  RunningTimerFires
  LoopSpec
