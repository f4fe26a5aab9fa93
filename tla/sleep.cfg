\* The user button, scheduled tasks that may ask for the wake-up, and other
\* code that enters sleep mode.
CONSTANTS
  EdgeSets = {{"fall"}}
  Reconfigure = FALSE
SPECIFICATION SleepSpec
CHECK_DEADLOCK TRUE
INVARIANTS
  PowerMatchesPhase
  ButtonReady
PROPERTIES
  PressWakes
