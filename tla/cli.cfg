SPECIFICATION FairSpec
CONSTANTS
  p1 = p1
  p2 = p2
  Procs = {p1, p2}
  Paths <- MCPaths
  Pipe = "-"
  NoPath = "no output"
  InitialFiles <- MCInitialFiles
  InitialMade <- MCInitialMade
  Invocations <- MCInvocations
  MaxRuns = 2
INVARIANTS
  TypeOK
PROPERTIES
  AcceptedWasMade
  OutputOutlivesBadKey
  OutputIsComplete
  CompleteIsAccepted
  OwnInputIsRead
  
  
CHECK_DEADLOCK FALSE
