SPECIFICATION Spec
CONSTANTS
  Size = 5
  Lengths = {1, 2}
  GopMs = 1
  SegmentMs = 1
  PollMs = 1
  LiveOnly = TRUE
  Sink = "S3"
  Faults = {"Continue"}
  MaxGops = 5
CHECK_DEADLOCK FALSE
INVARIANTS
  ErrorWritingExits
