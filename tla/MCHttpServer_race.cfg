\* Two poller threads, no failures: a new session may end on the other thread at once.
CONSTANTS
  Threads = {t1, t2}
  Conns = {c1, c2}
  Listener = L
  NoConn = none
  AllocFailures = FALSE
  SetupFailures = FALSE
  EarlyFailure = FALSE
  BindRuns <- BindsEventually
SPECIFICATION Spec
INVARIANTS NoUseAfterFree
