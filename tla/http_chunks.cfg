SPECIFICATION Spec
CONSTANTS
  Clients = {c1, c2}
  Frames = {f1, f2, f3}
  Timers = {t1, t2}
  NULL = NULL
  MaxKicks = 1
  MaxChunks = 2
  NetworkStates = {TRUE, FALSE}
  Liberties = {}
INVARIANT FlagMarksLastData
CHECK_DEADLOCK FALSE
