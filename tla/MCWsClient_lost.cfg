\* The server pushes a message right after its 101 and never closes.
CONSTANTS
  Greeting = hello
  Push = greet
  NoMsg = none
  ConnectRuns <- ConnectsEventually
  Failures = TRUE
  PeerFaults = TRUE
  AppMsgs = {}
SPECIFICATION Spec

PROPERTIES ServerMessagesDelivered
CONSTRAINT ServerStaysOpen
