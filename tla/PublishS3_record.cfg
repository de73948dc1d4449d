SPECIFICATION Spec
CONSTANTS
  Size = 9
  Lengths = {1, 2, 4}
  GopMs = 2
  SegmentMs = 3
  PollMs = 1
  LiveOnly = FALSE
  Sink = "S3"
  Faults = {"Start", "Send"}
  MaxGops = 6
CHECK_DEADLOCK FALSE
INVARIANTS
  LengthAnnounced
  FinalListsAll
PROPERTIES
  StopEndsUpload
