SPECIFICATION FairSpec
CONSTANTS
  a1 = a1
  a2 = a2
  a3 = a3
  op = op
  int3 = int3
  Addrs <- MCAddrs
  Bytes <- MCBytes
  Int3 = int3
  Code <- MCCode
  Shared <- MCShared
  MaxId = 3
  MaxDepth = 2
INVARIANTS
  Shadow
  Rearmed
PROPERTIES
  EventuallyRearmed
CHECK_DEADLOCK FALSE
