SPECIFICATION MCSpec
CONSTANTS
  Main = m
  Threads = {m, t1}
  Signals = {"SEGV"}
  Discards = {"STOP", "TRACE"}
  HitStops = {"INT3", "STOP", "BRKPT"}
  MaxDepth = 3
INVARIANTS
  StoppedAccurate
  NoStrayRequest
  StopRequested
  EndIsEnd
PROPERTIES
  SignalsFaithful
  RunEnds
CHECK_DEADLOCK FALSE
