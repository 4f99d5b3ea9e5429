\* An application thread writes a message with ws_write_text while the ws is open.
CONSTANTS
  Greeting = hello
  Push = none
  NoMsg = none
  ConnectRuns <- ConnectsEventually
  Failures = FALSE
  PeerFaults = FALSE
  AppMsgs = {later}
SPECIFICATION ThreadsSpec
PROPERTIES WrittenMessagesSent
