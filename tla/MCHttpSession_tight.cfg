CONSTANTS
  BufSize = 16
  TokenMaxLen = 16
  MaxHeaderCount = 4
  RespLen = 2
  MaxTime = 2
  BufMax = 48
  Reqs <- TightReqs
  Expected <- TightExpected
  Cuts <- TightCuts
  Pipelined = FALSE
  TimeoutsEnabled = TRUE
  SharedThread = FALSE
SPECIFICATION Spec
INVARIANT NoSilentClose
