SPECIFICATION FairSpec
CONSTANTS
  Callers = {c1, c2}
  Worker = w
  None = none
  Exclusive = TRUE
INVARIANTS
  OwnOutcome
  MailboxInv
PROPERTIES
  CallReturns
  ImplementsSyncCall
CHECK_DEADLOCK FALSE
