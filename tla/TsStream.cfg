SPECIFICATION StreamSpec
CONSTANTS
  Sizes = {163, 532, 533}
  PtsSteps = {13000}
  PtsLags = {1500}
  BufferSize = 1300
  MaxUnits = 5
  GopSize = 1693
  MaxFrame = 533
CHECK_DEADLOCK FALSE
INVARIANTS
  WholePackets
  TakesUnits
  ClockFollows
  FramesWhole
  FramesInOrder
  SelfContained
