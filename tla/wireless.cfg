\* Three frames in the hands of clients that delete none of them while it is
\* the last one of a queue.
CONSTANTS
  NULL = NULL
  Items = {f1, f2, f3}
  MaxKicks = 2
  Liberties = {}
SPECIFICATION FairSpec
CHECK_DEADLOCK TRUE
INVARIANTS
  QueuesIntact
  ReadyMeansJoined
PROPERTIES
  OwnAnswer
  RequestIsCompleted
  PipeSpec
