SPECIFICATION Spec
CONSTANTS
  Sizes <- MCSizes
  DELTA = 2
INVARIANTS
  TypeOK
  ReadsAreFilled
  BlocksAreRooted
  CostIsPaid
 
CHECK_DEADLOCK FALSE
