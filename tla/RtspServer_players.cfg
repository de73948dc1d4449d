CONSTANTS
  Sessions = {s1, s2}
  Tracks = {"video"}
  MaxPlays = 2
  MaxFrames = 2
  SetupFirst = FALSE
  Removal = TRUE
SPECIFICATION LiveSpec
INVARIANTS SavedUnlessReplaced NothingLeftBehind ContiguousFrames AttachedAlive
PROPERTY Released
CHECK_DEADLOCK FALSE
