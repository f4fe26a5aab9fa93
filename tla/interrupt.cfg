\* An input with any settings, made while no edge is under way.
CONSTANTS
  EdgeSets = {{"rise"}, {"fall"}, {"rise", "fall"}}
  Reconfigure = FALSE
SPECIFICATION InterruptSpec
CHECK_DEADLOCK TRUE
INVARIANTS
  QuietWhileHandling
  DebounceKeepsAwake
  SleepAllowedAgain
PROPERTIES
  AcceptedEdgeIsHandled
  StableEdgeIsHandled
