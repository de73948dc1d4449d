CONSTANTS
  GopMs = 1
  SegmentMs = 1
  Faults = {}
  MaxGops = 9
  Reads = 1
  Drops = TRUE
SPECIFICATION Spec
INVARIANTS PlayerServed RetentionBound
PROPERTIES PlaysInOrder StopEndsOrWaits LiveSpec
CHECK_DEADLOCK FALSE
