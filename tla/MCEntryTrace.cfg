SPECIFICATION ClientSpec
CONSTANTS
  Size = 4
  Outside <- MCOutside
  Images <- MCImages
  Biases = {0, 100}
INVARIANTS
  ClientTypeOK
  EntryAddress
  EntryListed
  SectionsInPlace
  Complete
  Handover
PROPERTIES
  TraceEnds
CHECK_DEADLOCK FALSE
