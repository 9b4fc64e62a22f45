SPECIFICATION AttachSpec
CONSTANTS
  a = a
  b = b
  c = c
  d = d
  Main = main
  Threads = {main, a, b, c, d}
  Initial <- MCInitial
  Exits = {main, a, b, c, d}
INVARIANTS
  KnownHeld
  OnlyNewcomersRun
  GroupStopCompletes
PROPERTIES
  AttachEnds
CHECK_DEADLOCK FALSE
