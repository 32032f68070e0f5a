SPECIFICATION Spec
CONSTANTS
  Passphrases = {p1, p2}
  Salts = {salt1, salt2}
  Seed = Seed
  Garbage = Garbage
  Costs <- Wrapped
  Builds = {FALSE}
  MAX_MEMORY = 53
  ThreadsMayFail = FALSE
INVARIANT ModifiedIsInvalid
CHECK_DEADLOCK FALSE
