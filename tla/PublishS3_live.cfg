SPECIFICATION Spec
CONSTANTS
  Size = 5
  Lengths = {1, 2}
  GopMs = 1
  SegmentMs = 1
  PollMs = 1
  LiveOnly = TRUE
  Sink = "Base"
  Faults = {"Start", "Continue", "End", "Send"}
  MaxGops = 7
CHECK_DEADLOCK FALSE
INVARIANTS
  PopHasGop
  TimeConserved
  PlaylistServable
  RetentionBound
PROPERTY NoGopAfterStop
