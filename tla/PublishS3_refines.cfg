SPECIFICATION Spec
CONSTANTS
  Size = 5
  Lengths = {2}
  GopMs = 1
  SegmentMs = 1
  PollMs = 1
  LiveOnly = TRUE
  Sink = "S3"
  Faults = {"Start", "Delete"}
  MaxGops = 8
CHECK_DEADLOCK FALSE
PROPERTIES
  LiveSpec
