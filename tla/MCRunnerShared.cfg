SPECIFICATION Spec
CONSTANTS
  Callers = {c1, c2, c3}
  Worker = w
  None = none
  Exclusive = FALSE
SYMMETRY CallersSymmetry
INVARIANTS
  ClosureAlive
  SwitchAssert
CHECK_DEADLOCK FALSE
