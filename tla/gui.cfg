\* Three views whose clients hide them before they destroy them, and neither
\* while they are touched (until touchEnd) nor in their own repaint().
CONSTANTS
  NULL = NULL
  Items = {v1, v2, v3}
  Liberties = {}
SPECIFICATION FairSpec
CHECK_DEADLOCK TRUE
INVARIANTS
  QueuesIntact
  TouchesPaired
PROPERTIES
  RepaintHappens
