CONSTANTS
  Sessions = {s1}
  Tracks = {"video"}
  MaxPlays = 2
  MaxFrames = 1
  SetupFirst = TRUE
  Removal = FALSE
SPECIFICATION Spec
INVARIANT AttachedSaved
CHECK_DEADLOCK FALSE
