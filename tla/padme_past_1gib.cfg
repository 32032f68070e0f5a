SPECIFICATION Spec
CONSTANTS
  Starts <- Past1GiB
  Stretch = 300
  BLOCK_LEN = 65536
  LEN_LIMIT = 16777216
INVARIANT PaddingFitsItsHeader
CHECK_DEADLOCK FALSE
