\* A server that answers, echoes and may close at any time; open, key and accept-key failures; some address always connects.
CONSTANTS
  Greeting = hello
  Push = none
  NoMsg = none
  ConnectRuns <- ConnectsEventually
  Failures = TRUE
  PeerFaults = TRUE
  AppMsgs = {}
SPECIFICATION Spec
INVARIANTS TypeOK CallbacksOrdered
PROPERTIES ServerMessagesDelivered WrittenMessagesSent
