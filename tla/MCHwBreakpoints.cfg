SPECIFICATION MCSpec
CONSTANTS
  t1 = t1
  t2 = t2
  b1 = b1
  b2 = b2
  Threads = {t1, t2}
  Main = t1
  Bps = {b1, b2}
SYMMETRY Symmetry
INVARIANTS
  StepOff
  NoLeftover
  OnlyOneArmed
CHECK_DEADLOCK FALSE
