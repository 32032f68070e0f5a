SPECIFICATION Spec
CONSTANTS
  Sizes <- MCSizes
  DELTA = 2
PROPERTY NothingIsDiscarded
CHECK_DEADLOCK FALSE
