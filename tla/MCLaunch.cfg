SPECIFICATION LaunchSpec
CONSTANTS
  Outside = {"TERM", "STOP", "KILL"}
INVARIANTS
  ReturnedStopped
  LeftBehind
PROPERTIES
  ExecEnds
CHECK_DEADLOCK FALSE
