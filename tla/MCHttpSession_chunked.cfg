CONSTANTS
  BufSize = 16
  TokenMaxLen = 16
  MaxHeaderCount = 4
  RespLen = 2
  MaxTime = 2
  BufMax = 64
  Reqs <- ChunkedReqs
  Expected <- ChunkedExpected
  Cuts <- ChunkedCuts
  Pipelined = FALSE
  TimeoutsEnabled = TRUE
  SharedThread = FALSE
SPECIFICATION Spec
INVARIANT ResponsesMatch
