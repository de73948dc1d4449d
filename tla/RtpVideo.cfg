CONSTANTS
  FuLen = 3
  Types = {1, 7, 9}
  Sizes = {5, 6, 7}
  MaxNals = 4
  Loss = TRUE
SPECIFICATION LiveSpec
INVARIANTS PacketsInBounds StreamIntact UnitPerFrame
PROPERTY StopJoins
CHECK_DEADLOCK FALSE
