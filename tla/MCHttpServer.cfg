\* Two poller threads, two connections, every failure of the accept path.
CONSTANTS
  Threads = {t1, t2}
  Conns = {c1, c2}
  Listener = L
  NoConn = none
  AllocFailures = TRUE
  SetupFailures = TRUE
  EarlyFailure = FALSE
  BindRuns <- BindsEventually
SPECIFICATION Spec
INVARIANTS TypeOK RefNeverSeesZero CallbacksWellFormed
PROPERTIES LifetimeRefined ShutdownDisposesServer
