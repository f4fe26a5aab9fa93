\* Two chains at a time, over two levels of dimming and of darkening.
CONSTANTS
  NULL = NULL
  button = button
  dimTimer = dimTimer
  sleepTimer = sleepTimer
  a1 = a1
  a2 = a2
  a3 = a3
  Asyncs <- MCAsyncs
  Tasks <- MCTasks
  Calls = {"startDimTimer", "dim", "undim", "deactivate"}
  dimBright = 1
  fullBright = 3
SPECIFICATION FairSpec
CHECK_DEADLOCK TRUE
INVARIANTS
  TouchRestores
PROPERTIES
  UntouchedSleeps
