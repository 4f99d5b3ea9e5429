CONSTANTS
  BufSize = 16
  TokenMaxLen = 16
  MaxHeaderCount = 4
  RespLen = 2
  MaxTime = 2
  BufMax = 48
  Reqs <- PipeReqs
  Expected <- PipeExpected
  Cuts <- WholeCuts
  Pipelined = TRUE
  TimeoutsEnabled = TRUE
  SharedThread = FALSE
SPECIFICATION Spec
PROPERTY RequestsAnswered
