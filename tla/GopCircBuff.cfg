SPECIFICATION Spec
CONSTANTS
  Size = 13
  Lengths = {1, 2, 5, 6}
INVARIANTS
  FreeAssert
  NoOverlap
PROPERTY
  StoreSpec
