CONSTANTS
  Outputs = {"rtsp", "hls"}
  Inputs = {1}
  QueueLen = 1
  MaxFrames = 1
  MaxSessions = 2
SPECIFICATION LiveSpec
CHECK_DEADLOCK FALSE
INVARIANTS FreshFrames RegisteredAlive
PROPERTIES HandedToAll Answered AbortHeeded
