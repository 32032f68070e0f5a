SPECIFICATION FairSpec
CONSTANTS
  Passphrases = {p1, p2}
  Salts = {salt1, salt2}
  Seed = Seed
  Garbage = Garbage
  Costs <- Every
  Builds = {TRUE, FALSE}
  MAX_MEMORY = 53
  ThreadsMayFail = TRUE
INVARIANTS
  TypeOK
  SubkeysInOrder
  LoadedIsStored
  StoredLoads
PROPERTY EveryCallEnds
CHECK_DEADLOCK FALSE
