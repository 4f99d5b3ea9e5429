------------------------------ MODULE WsClient ------------------------------
(***************************************************************************)
(* The WebSocket client of src/ws/ws.c against an abstract server peer.   *)
(*                                                                         *)
(* ws_open connects, makes the socket non-blocking and registers it with   *)
(* the poller through the direct poller adapter, asking for POLLOUT.       *)
(* Every readiness event then runs _on_poller_adapter_event on the poller  *)
(* thread under ws->mtx, as one step: first the handshake (send the        *)
(* request, then read until the "\r\n\r\n" of the 101 answer), afterwards  *)
(* wslay's send and receive.  A return of -1 makes the poller dispose the  *)
(* task, which runs _on_poller_adapter_dispose in a later step.            *)
(*                                                                         *)
(* Bytes are abstracted to items: the request is two writes' worth,        *)
(* "reqA" "reqB"; the answer is "hsA" (no blank line yet) and "hsB" (the   *)
(* rest, with a valid Sec-WebSocket-Accept) or "hsBad" (an invalid one);   *)
(* a WebSocket message is one item; "EOF" is the peer's close.  The        *)
(* application writes Greeting from on_connected and records what          *)
(* on_message and on_dispose deliver.                                      *)
(***************************************************************************)
EXTENDS Naturals, Sequences

CONSTANTS Greeting,     \* what on_connected writes with ws_write_text
          Push,         \* what the server sends right after its 101, or NoMsg
          NoMsg,
          ConnectRuns,  \* what socket()/connect() do for each address of getaddrinfo
          Failures,     \* allocation, fcntl, setsockopt, wslay, adapter, /dev/urandom
          PeerFaults,   \* the server may answer with a wrong Sec-WebSocket-Accept
          AppMsgs       \* what application threads write with ws_write_text

Msgs == {Greeting} \cup AppMsgs \cup (IF Push = NoMsg THEN {} ELSE {Push})

\* The handshake request of _handshake_output_fill.
Request == <<"reqA", "reqB">>

VARIABLES
  phase,    \* "init", "open", "spin", "closing", "disposed", "failed" or "crashed"
  fd,       \* ws->fd: "none" (-1), "stdin" (0) or "sock"
  closes,   \* the fds _destroy has closed, in order
  cas,      \* ws->dispose_cas
  st,       \* ws->state: subset of {"SEND", "RECV"}
  output,   \* ws->output: the part of the request not yet written
  outq,     \* wslay's queue of messages not yet written
  wrote,    \* the messages given to ws_write_text
  pend,     \* readiness edges not yet delivered: subset of {"IN", "OUT"}
  c2s,      \* items written by the client, not yet read by the server
  s2c,      \* items written by the server, not yet read by the client
  srv,      \* the server: "wait", "respond", "open" or "closed"
  srvSent,  \* messages the server has sent
  calls,    \* application callbacks: "connected", messages, "dispose"
  endBy     \* why the task is disposed: "none", "error" or "remove"

vars == <<phase, fd, closes, cas, st, output, outq, wrote, pend, c2s, s2c, srv,
          srvSent, calls, endBy>>
peerVars == <<c2s, s2c, srv, srvSent>>

AtMost(a, b) == IF a < b THEN a ELSE b

-----------------------------------------------------------------------------
(* ws_open and _destroy                                                    *)

\* _destroy closes ws->fd when it is > -1.
DestroyClosesAny(f) == Append(closes, f)
Destroy(f) == IF f = "none" THEN closes ELSE Append(closes, f)

\* The address loop of _connect, after *out_fd = 0: the fd it leaves in
\* *out_fd.  A failed socket() or connect() goes on to the next address; an
\* unknown family jumps to finish; running out of addresses sets rc.  In
\* both failures *out_fd is still 0.
RECURSIVE ConnectLoop(_)
ConnectLoop(run) ==
  IF run = <<>> \/ Head(run) = "badfamily" THEN "stdin"
  ELSE IF Head(run) = "connected" THEN "sock"
  ELSE ConnectLoop(Tail(run))

\* getaddrinfo failing returns before the loop, with *out_fd = 0.
Connect(run) == IF run = <<"gaifail">> THEN "stdin" ELSE ConnectLoop(run)

\* The end of ws_open for the fd f that _connect left: "early" is a failure
\* before _connect (allocation, URL), "late" one after it (fcntl,
\* setsockopt, wslay, direct_poller_adapter_create).  On failure _destroy
\* closes whatever ws->fd holds; on success the task waits for POLLOUT.
OpenEnd(f, fail) ==
  IF fail = "none" /\ f = "sock"
    THEN phase' = "open" /\ pend' = {"OUT"} /\ fd' = f /\ closes' = closes
    ELSE phase' = "failed" /\ pend' = pend /\ fd' = f /\ closes' = Destroy(f)

WsOpen(run, fail) ==
  /\ phase = "init"
  /\ OpenEnd(IF fail = "early" THEN "none" ELSE Connect(run), fail)
  /\ UNCHANGED <<cas, st, output, outq, wrote, peerVars, calls, endBy>>

-----------------------------------------------------------------------------
(* _on_poller_adapter_event                                                *)

\* The event ends with -1: the poller will dispose the task.
Fail == phase' = "closing" /\ endBy' = "error"

\* ws_write_text inside the event: wslay_event_queue_msg, then
\* poller_arm_events(EPOLLOUT) through ws->poller_adapter, set by the event.
WriteText(m) == outq' = Append(outq, m) /\ wrote' = wrote \cup {m} /\ pend' = {"OUT"}

\* The end of _on_handshake_event without error, with ws->state st2: once
\* RECV is set on_connected runs, and its ws_write_text queues Greeting and
\* arms POLLOUT; the returned mask re-arms pendRet.
HandshakeDoneOnSend(st2, pendRet) ==
  /\ st' = st2
  /\ IF "SEND" \in st2
       THEN calls' = Append(calls, "connected") /\ WriteText(Greeting)
       ELSE UNCHANGED <<calls, outq, wrote>> /\ pend' = pendRet

HandshakeDone(st2, pendRet) ==
  /\ st' = st2
  /\ IF "RECV" \in st2
       THEN calls' = Append(calls, "connected") /\ WriteText(Greeting)
       ELSE UNCHANGED <<calls, outq, wrote>> /\ pend' = pendRet

\* The write loop of the send branch: room items go out, then EAGAIN.  The
\* branch returns EPOLLOUT whether or not the request is complete.
HandshakeWrite(out, room) ==
  /\ c2s' = c2s \o SubSeq(out, 1, AtMost(room, Len(out)))
  /\ output' = SubSeq(out, room + 1, Len(out))
  /\ HandshakeDone(IF room >= Len(out) THEN st \cup {"SEND"} ELSE st, {"OUT"})
  /\ UNCHANGED <<phase, endBy>>

\* The send branch: fill the request if the output is empty (the key comes
\* from /dev/urandom, which may fail), then write it.
HandshakeSend(room, keyOk, wfail) ==
  /\ phase = "open" /\ pend # {}
  /\ "SEND" \notin st
  /\ IF (output = <<>> /\ ~keyOk) \/ wfail
       THEN Fail /\ UNCHANGED <<st, output, outq, wrote, pend, c2s, calls>>
       ELSE HandshakeWrite(IF output = <<>> THEN Request ELSE output, room)
  /\ UNCHANGED <<fd, closes, cas, s2c, srv, srvSent>>

\* The read loop of the receive branch over the unread items.  It reads
\* until EAGAIN; once the blank line is in, RECV is set and later bytes are
\* read and dropped; a read of 0 (EOF) is neither an error nor EAGAIN, so
\* the loop reads 0 again forever.
RECURSIVE HsRead(_, _)
HsRead(items, recv) ==
  IF items = <<>> THEN [recv |-> recv, end |-> "again"]
  ELSE IF Head(items) = "EOF" THEN [recv |-> recv, end |-> "spin"]
  ELSE IF recv THEN HsRead(Tail(items), recv)
  ELSE IF Head(items) = "hsBad" THEN [recv |-> TRUE, end |-> "bad"]
  ELSE HsRead(Tail(items), Head(items) = "hsB")

\* The branch returns EPOLLIN: no edge is pending until new data comes.
HandshakeRecvEnd(r) ==
  /\ s2c' = <<>>
  /\ IF r.end = "again"
       THEN HandshakeDone(IF r.recv THEN st \cup {"RECV"} ELSE st, {})
            /\ UNCHANGED <<phase, endBy>>
       ELSE /\ IF r.end = "spin" THEN phase' = "spin" /\ endBy' = endBy ELSE Fail
            /\ st' = IF r.recv THEN st \cup {"RECV"} ELSE st
            /\ UNCHANGED <<calls, outq, wrote, pend>>

HandshakeRecv ==
  /\ phase = "open" /\ pend # {}
  /\ "SEND" \in st /\ "RECV" \notin st
  /\ HandshakeRecvEnd(HsRead(s2c, FALSE))
  /\ UNCHANGED <<fd, closes, cas, output, c2s, srv, srvSent>>

\* What _wslay_event_send_callback lets through: room items of q, then
\* EAGAIN, which it turns into WOULDBLOCK.
SendWritten(q, room) == SubSeq(q, 1, AtMost(room, Len(q)))

\* How _wslay_event_recv_callback ends wslay_event_recv: read() returning 0
\* becomes -1 with EIO, a callback failure; EAGAIN becomes WOULDBLOCK.
RecvEndEagainFails(items) == "failure"
RecvEnd(items) ==
  IF \E i \in DOMAIN items : items[i] = "EOF" THEN "failure" ELSE "wouldblock"

\* _wslay_event_on_msg_recv_callback: every data message read goes to
\* on_message (messages are non-empty).
Delivered(items) == SelectSeq(items, LAMBDA x : x \in Msgs)

\* The mask without EPOLLOUT for queued messages.
WsRecvNoOut(end) ==
  /\ calls' = calls \o Delivered(s2c)
  /\ s2c' = <<>>
  /\ IF end = "failure"
       THEN Fail /\ pend' = pend
       ELSE pend' = {} /\ UNCHANGED <<phase, endBy>>

\* wslay_event_recv, then the mask: EPOLLIN always (want_read), EPOLLOUT
\* while messages are queued.
WsRecv(end) ==
  /\ calls' = calls \o Delivered(s2c)
  /\ s2c' = <<>>
  /\ IF end = "failure"
       THEN Fail /\ pend' = pend
       ELSE pend' = (IF outq' # <<>> THEN {"OUT"} ELSE {}) /\ UNCHANGED <<phase, endBy>>

\* After the handshake: wslay_event_send writes queued messages; a write
\* error ends the
\* event with -1 before anything is read; then wslay_event_recv.
WsEvent(room, wfail) ==
  /\ phase = "open" /\ pend # {}
  /\ "RECV" \in st
  /\ IF outq # <<>> /\ wfail
       THEN Fail /\ UNCHANGED <<outq, wrote, pend, c2s, s2c, calls>>
       ELSE /\ c2s' = c2s \o SendWritten(outq, room)
            /\ outq' = SubSeq(outq, room + 1, Len(outq))
            /\ wrote' = wrote
            /\ WsRecv(RecvEnd(s2c))
  /\ UNCHANGED <<fd, closes, cas, st, output, srv, srvSent>>

\* One invocation of _on_poller_adapter_event.  A write fails only once the
\* peer has closed.
ClientEvent ==
  \E room \in 0..Len(Request), keyOk \in IF Failures THEN BOOLEAN ELSE {TRUE},
     wfail \in IF srv = "closed" THEN BOOLEAN ELSE {FALSE} :
    \/ HandshakeSend(room, keyOk, wfail)
    \/ HandshakeRecv
    \/ WsEvent(room, wfail)

\* The poller thread reads 0 again in the handshake loop.
HandshakeSpin == phase = "spin" /\ UNCHANGED vars

-----------------------------------------------------------------------------
(* Disposal                                                                *)

\* ws_close (poller_remove) or the poller's timeout removes the task.
WsClose ==
  /\ phase = "open"
  /\ phase' = "closing" /\ endBy' = "remove"
  /\ UNCHANGED <<fd, closes, cas, st, output, outq, wrote, pend, peerVars, calls>>

\* The adapter's _on_dispose runs _on_poller_adapter_dispose: the CAS
\* admits one caller, which sets ws->fd = -1, calls on_dispose and frees
\* everything with _destroy (closing nothing, the poller owns the fd).
Dispose ==
  /\ phase = "closing"
  /\ phase' = "disposed"
  /\ cas' = TRUE
  /\ IF cas THEN UNCHANGED <<fd, closes, calls>>
     ELSE fd' = "none" /\ calls' = Append(calls, "dispose") /\ closes' = Destroy("none")
  /\ UNCHANGED <<st, output, outq, wrote, pend, peerVars, endBy>>

-----------------------------------------------------------------------------
(* Application threads                                                     *)

\* ws_write_text from a thread other than the poller's, between two events:
\* it takes ws->mtx, queues the message in wslay, then arms EPOLLOUT through
\* ws->poller_adapter->poller.  The event sets ws->poller_adapter on entry
\* and resets it to 0 before it unlocks, so outside an event it is NULL and
\* the dereference crashes the process.
AppWriteText(m) ==
  /\ phase = "open" /\ m \notin wrote
  /\ outq' = Append(outq, m) /\ wrote' = wrote \cup {m}
  /\ phase' = "crashed"
  /\ UNCHANGED <<fd, closes, cas, st, output, pend, peerVars, calls, endBy>>

-----------------------------------------------------------------------------
(* The server peer (not in src/): it answers a complete request with a     *)
(* 101 in two parts, echoes every message, may push one message right     *)
(* after the 101 and may close at any time.  New data is a readable edge. *)

SrvRequest ==
  /\ srv = "wait" /\ Len(c2s) >= Len(Request)
  /\ c2s' = SubSeq(c2s, Len(Request) + 1, Len(c2s))
  /\ s2c' = Append(s2c, "hsA") /\ srv' = "respond"
  /\ pend' = pend \cup {"IN"}
  /\ UNCHANGED <<phase, fd, closes, cas, st, output, outq, wrote, srvSent, calls, endBy>>

SrvRespond(ok) ==
  /\ srv = "respond"
  /\ s2c' = Append(s2c, IF ok THEN "hsB" ELSE "hsBad")
            \o (IF Push = NoMsg THEN <<>> ELSE <<Push>>)
  /\ srvSent' = srvSent \cup (IF Push = NoMsg THEN {} ELSE {Push})
  /\ srv' = "open"
  /\ pend' = pend \cup {"IN"}
  /\ UNCHANGED <<phase, fd, closes, cas, st, output, outq, wrote, c2s, calls, endBy>>

SrvEcho ==
  /\ srv = "open" /\ c2s # <<>>
  /\ s2c' = Append(s2c, Head(c2s)) /\ c2s' = Tail(c2s)
  /\ srvSent' = srvSent \cup {Head(c2s)}
  /\ pend' = pend \cup {"IN"}
  /\ UNCHANGED <<phase, fd, closes, cas, st, output, outq, wrote, srv, calls, endBy>>

SrvClose ==
  /\ srv # "closed" /\ phase \notin {"init", "failed"}
  /\ s2c' = Append(s2c, "EOF") /\ srv' = "closed"
  /\ pend' = pend \cup {"IN"}
  /\ UNCHANGED <<phase, fd, closes, cas, st, output, outq, wrote, c2s, srvSent, calls, endBy>>

-----------------------------------------------------------------------------

Init ==
  /\ phase = "init" /\ fd = "none" /\ closes = <<>> /\ cas = FALSE
  /\ st = {} /\ output = <<>> /\ outq = <<>> /\ pend = {}
  /\ wrote = {} /\ c2s = <<>> /\ s2c = <<>> /\ srv = "wait" /\ srvSent = {}
  /\ calls = <<>> /\ endBy = "none"

\* Nothing more happens to a task that failed to open or is freed, or once
\* the process has crashed.
Terminated == phase \in {"failed", "disposed", "crashed"} /\ UNCHANGED vars

Next ==
  \/ \E run \in ConnectRuns, fail \in IF Failures THEN {"none", "early", "late"}
                                                  ELSE {"none"} : WsOpen(run, fail)
  \/ ClientEvent
  \/ HandshakeSpin
  \/ WsClose
  \/ Dispose
  \/ SrvRequest
  \/ \E ok \in IF PeerFaults THEN BOOLEAN ELSE {TRUE} : SrvRespond(ok)
  \/ SrvEcho
  \/ SrvClose
  \/ Terminated

\* The poller thread delivers pending edges and disposes a task whose
\* callback returned -1.  The server and the application need no fairness.
Fairness == WF_vars(ClientEvent) /\ WF_vars(Dispose)

Spec == Init /\ [][Next]_vars /\ Fairness

\* The client together with application threads that call ws_write_text.
ThreadsNext == Next \/ \E m \in AppMsgs : AppWriteText(m)

ThreadsSpec == Init /\ [][ThreadsNext]_vars /\ Fairness

-----------------------------------------------------------------------------
(* Properties                                                              *)

TypeOK ==
  /\ phase \in {"init", "open", "spin", "closing", "disposed", "failed", "crashed"}
  /\ fd \in {"none", "stdin", "sock"}
  /\ closes \in Seq({"stdin", "sock"})
  /\ st \subseteq {"SEND", "RECV"}
  /\ pend \subseteq {"IN", "OUT"}
  /\ srvSent \subseteq Msgs
  /\ wrote \subseteq Msgs
  /\ endBy \in {"none", "error", "remove"}

\* On a failed ws_open, _destroy closes only a socket _connect opened: never
\* the 0 that _connect stores in ws->fd before it has a socket.
WsClosesOwnFd == \A i \in DOMAIN closes : closes[i] = "sock"

\* The callbacks of one ws: on_connected at most once and before any
\* on_message, and on_dispose last, after which nothing is called.
CallbacksOrdered ==
  \A i \in DOMAIN calls :
    /\ calls[i] = "connected" => \A j \in 1..(i - 1) : calls[j] # "connected"
    /\ calls[i] \in Msgs => \E j \in 1..(i - 1) : calls[j] = "connected"
    /\ calls[i] = "dispose" => i = Len(calls)

\* Every message the server sends reaches on_message, unless the
\* application (ws_close) or the timeout removes the task first: the
\* handshake and wslay receive paths lose nothing.
ServerMessagesDelivered ==
  \A m \in Msgs :
    m \in srvSent ~> (\E i \in DOMAIN calls : calls[i] = m) \/ endBy = "remove"

\* Every message given to ws_write_text, by on_connected inside the event or
\* by an application thread, is written to the socket, unless the task ends
\* first with an error or by ws_close/timeout: the EPOLLOUT that
\* ws_write_text arms and the mask the event returns while wslay still has
\* queued messages keep the poller coming back.
WrittenMessagesSent ==
  \A m \in Msgs :
    m \in wrote ~> (\E i \in DOMAIN c2s : c2s[i] = m) \/ m \in srvSent \/ endBy # "none"

\* Once the server has closed, the task is eventually disposed: the poller
\* thread is not kept by this connection.
PeerCloseDisposes == srv = "closed" ~> phase = "disposed"

=============================================================================
