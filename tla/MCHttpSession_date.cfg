CONSTANTS
  BufSize = 16
  TokenMaxLen = 16
  MaxHeaderCount = 4
  RespLen = 2
  MaxTime = 2
  BufMax = 48
  Reqs <- MCReqs
  Expected <- MCExpected
  Cuts <- MCCuts
  Pipelined = FALSE
  TimeoutsEnabled = TRUE
  SharedThread = FALSE
SPECIFICATION Spec
INVARIANT DateInitialized
