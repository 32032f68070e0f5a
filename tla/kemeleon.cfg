SPECIFICATION FairSpec
CONSTANTS
  Coefficients = 2
  MAX_R = 24
  Ciphertexts <- MCCiphertexts
  Redrawn <- MCRedrawn
  Masks <- MCMasks
  Strays <- MCStrays
INVARIANTS
  TypeOK
  DecodeUndoesEncode
  DigitsAreRight
  CompressRounds
PROPERTY EveryLoopEnds
CHECK_DEADLOCK FALSE
