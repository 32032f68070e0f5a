SPECIFICATION Spec
CONSTANTS
  Starts <- Below1GiB
  Stretch = 300
  BLOCK_LEN = 65536
  LEN_LIMIT = 16777216
INVARIANTS
  PaddingFitsItsHeader
  PaddingIsCheap
  PaddedIsAFixedPoint
PROPERTIES
  ClassHidesBlocks
  PaddedIsMonotone
CHECK_DEADLOCK FALSE
