\* Three task blocks, one of them single-shot, and disciplined clients.
CONSTANTS
  NULL = NULL
  t1 = t1
  t2 = t2
  t3 = t3
  Tasks <- MCTasks
  SingleShot <- MCSingleShot
  Garbage <- MCGarbage
  Liberties = {}
SPECIFICATION FairSpec
CHECK_DEADLOCK TRUE
INVARIANTS
  ListIntact
  PassStaysOnLiveTasks
  IInv
  RemoveRemoves
PROPERTIES
  PassEnds
  InstalledTaskRuns
  QueueSpec
