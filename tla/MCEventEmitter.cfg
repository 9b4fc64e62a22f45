SPECIFICATION MCSpec
CONSTANTS
  l1 = l1
  l2 = l2
  l3 = l3
  Listeners = {l1, l2, l3}
  Expiring = {l1, l2, l3}
  Reenters = {"emit"}
  MaxSize = 4
  MaxNest = 3
INVARIANTS
  EmitterTypeOK
  AddedStay
PROPERTIES
  LeavesNoTrace
  ImplementsNotification
