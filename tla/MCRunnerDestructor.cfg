SPECIFICATION FairSpec
CONSTANTS
  Callers = {c1}
  Worker = w
  None = none
  Exclusive = TRUE
PROPERTIES
  DestructorJoins
CHECK_DEADLOCK FALSE
