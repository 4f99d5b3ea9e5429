---------------------------- MODULE HttpSession ----------------------------
(***************************************************************************)
(* One HTTP connection of src/http/http_server.c: the session driver      *)
(* (struct client, _client_read, _client_write, the poller callback), the *)
(* response builder it calls, the request handler of the test server      *)
(* src/http/tests/server1.c, the peer at the other end of the socket and  *)
(* the edge-triggered poller that delivers the readiness events.          *)
(*                                                                         *)
(* A poller event runs to completion on the poller thread: the driver     *)
(* reads, parses, calls the handler, which may respond or pull the next   *)
(* chunk (a nested _client_read), and writes.  So one event is one step,  *)
(* computed by the mutually recursive operators below over a record X     *)
(* holding the client and the socket as the event sees them.             *)
(***************************************************************************)
EXTENDS HttpParser

CONSTANTS
  BufSize,         \* spec.request_buf_size
  Reqs,            \* the requests the peer sends, each a byte sequence
  Cuts,            \* the positions of the wire at which a send may end
  Pipelined,       \* whether the peer sends a request before the last is answered
  RespLen,         \* the length of every serialized response, in abstract bytes
  TimeoutsEnabled, \* spec.request_timeout_sec > 0
  SharedThread,    \* other connections are served by the same poller thread
  MaxTime,         \* the last second of the clock
  Expected         \* per request, the [code, body, conn] the spec prescribes

Wire == FlattenSeq(Reqs)
\* The wire position at which request j ends.
End(j) == Len(FlattenSeq(SubSeq(Reqs, 1, j)))

FLAGS == {"KEEP_ALIVE", "STREAMED", "END_SESSION", "AUTOMATIC"}
NoResp == [code |-> 0, body |-> <<>>, clen |-> 0, conn |-> "none", date |-> "none"]

VARIABLES
  client,   \* struct client, with the handler's accumulator `acc`
  sent,     \* how many bytes of Wire the peer has put into the socket
  rd,       \* how many of them the server has read
  peer,     \* "open" or "closed"
  pend,     \* edge-triggered readiness not yet delivered: subset of {"IN","OUT"}
  errno,    \* the poller thread's errno
  got,      \* the complete responses the peer has received, in order
  closedBy, \* "none", "server" (on_event returned -1) or "timeout"
  now,      \* time(), in seconds
  stime     \* server->stime, the second of the cached Date

vars == <<client, sent, rd, peer, pend, errno, got, closedBy, now, stime>>

\* pool calloc of struct client; the state is HTTP_SESSION_INIT.
ClientZero == [state |-> "INIT", flags |-> {}, chunkCb |-> "none", tokens |-> <<>>,
               stream |-> StreamZero, parser |-> ParserZero,
               resp |-> [code |-> 200, body |-> <<>>, len |-> 0], acc |-> <<>>, wresp |-> NoResp]

-----------------------------------------------------------------------------
(* Client helpers                                                          *)

\* _client_init: flags = HTTP_AUTOMATIC, buffers freed, parser zeroed.
ClientInit(c) ==
  [c EXCEPT !.flags = {"AUTOMATIC"}, !.stream = StreamZero, !.tokens = <<>>,
            !.parser = ParserZero, !.chunkCb = "none"]

\* _client_reset: back to INIT with the stream and token buffers freed.
ClientReset(c) == [c EXCEPT !.state = "INIT", !.stream = StreamZero, !.tokens = <<>>]

\* _token_get_string: the first token of the type, null when there is none.
TokenValue(c, type) ==
  LET i == SelectInSeq(c.tokens, LAMBDA t : t.type = type)
  IN IF i = 0 THEN [null |-> TRUE, bytes |-> <<>>]
     ELSE [null |-> FALSE, bytes |-> TokenBytes(c.stream, c.tokens[i])]

\* iwn_http_request_header_get: the value after the first HEADER_KEY token
\* whose length is the length of the name; the bytes are not compared.
HeaderGet(c, name) ==
  LET i == SelectInSeq(c.tokens, LAMBDA t : t.type = "HEADER_KEY" /\ t.len = Len(name))
  IN IF i = 0 \/ i + 1 > Len(c.tokens) THEN <<>>
     ELSE TokenBytes(c.stream, c.tokens[i + 1])

\* A faulty autodetection that only looks for "connection: close".
AutodetectIgnoresVersion(c) ==
  LET v     == TokenValue(c, "VERSION")
      conn  == HeaderGet(c, Chars("connection"))
      close == Len(conn) = 5 /\ [i \in 1 .. 5 |-> Fold(conn[i])] = Chars("close")
  IN IF v.null THEN c
     ELSE [c EXCEPT !.flags = IF close THEN @ \ {"KEEP_ALIVE"} ELSE @ \cup {"KEEP_ALIVE"}]

\* _client_autodetect_keep_alive
AutodetectKeepAlive(c) ==
  LET v      == TokenValue(c, "VERSION")
      http11 == v.bytes # <<>> /\ Last(v.bytes) = "1"
      conn   == HeaderGet(c, Chars("connection"))
      close  == \/ Len(conn) = 5 /\ [i \in 1 .. 5 |-> Fold(conn[i])] = Chars("close")
                \/ Len(conn) = 0 /\ ~http11
  IN IF v.null THEN c
     ELSE [c EXCEPT !.flags = IF close THEN @ \ {"KEEP_ALIVE"} ELSE @ \cup {"KEEP_ALIVE"}]

\* iwn_http_response_body_set: a null or empty body leaves the response alone;
\* otherwise body and body_len are set.
BodySet(x, body) ==
  IF body = <<>> THEN x ELSE [x EXCEPT !.c.resp.body = body, !.c.resp.len = Len(body)]

-----------------------------------------------------------------------------
(* Socket I/O.  X.room is how many bytes the socket accepts in this event; *)
(* a write with no room fails with EAGAIN.                                 *)

\* A faulty read loop that takes EAGAIN (-1) for end of file.
RECURSIVE ReadFillEagainIsEof(_)
ReadFillEagainIsEof(x) ==
  LET st    == x.c.stream
      want  == st.capacity - st.length
      avail == x.sent - x.rd
      bytes == CASE want = 0 -> 0 [] avail > 0 -> IF want < avail THEN want ELSE avail
                 [] x.peer = "closed" -> 0 [] OTHER -> -1
      n     == IF bytes > 0 THEN bytes ELSE 0
      st1   == [st EXCEPT !.buf = SubSeq(@, 1, st.length) \o SubSeq(Wire, x.rd + 1, x.rd + n),
                          !.length = @ + n, !.bytes_total = @ + n]
      full  == st1.length = st1.capacity
      grow  == full /\ st1.capacity # BufMax
      st2   == IF grow
               THEN [st1 EXCEPT !.capacity = IF 2 * @ > BufMax THEN BufMax ELSE 2 * @]
               ELSE st1
      x1    == [x EXCEPT !.c.stream = st2, !.rd = @ + n]
  IN IF bytes > 0 /\ ~(full /\ ~grow) THEN ReadFillEagainIsEof(x1)
     ELSE [x |-> x1, ok |-> bytes > 0]

\* One pass of the do/while loop of _client_read_bytes, repeated while
\* read() returns bytes and the buffer can still grow.
RECURSIVE ReadFill(_)
ReadFill(x) ==
  LET st    == x.c.stream
      want  == st.capacity - st.length
      avail == x.sent - x.rd
      bytes == CASE want = 0          -> 0
                 [] avail > 0         -> IF want < avail THEN want ELSE avail
                 [] x.peer = "closed" -> 0
                 [] OTHER             -> -1
      n     == IF bytes > 0 THEN bytes ELSE 0
      st1   == [st EXCEPT !.buf = SubSeq(@, 1, st.length) \o SubSeq(Wire, x.rd + 1, x.rd + n),
                          !.length = @ + n, !.bytes_total = @ + n]
      full  == st1.length = st1.capacity
      grow  == full /\ st1.capacity # BufMax
      st2   == IF grow
               THEN [st1 EXCEPT !.capacity = IF 2 * @ > BufMax THEN BufMax ELSE 2 * @]
               ELSE st1
      x1    == [x EXCEPT !.c.stream = st2, !.rd = @ + n,
                         !.errno = IF bytes < 0 THEN "EAGAIN" ELSE @]
  IN IF bytes > 0 /\ ~(full /\ ~grow) THEN ReadFill(x1) ELSE [x |-> x1, ok |-> bytes # 0]

\* _client_read_bytes: nothing to do while unparsed bytes remain; a freed
\* buffer is allocated with request_buf_size bytes.
ReadBytes(x) ==
  LET st == x.c.stream
      xa == IF st.capacity = 0
            THEN [x EXCEPT !.c.stream = [st EXCEPT !.length = 0, !.capacity = BufSize]]
            ELSE x
  IN IF st.index < st.length THEN [x |-> x, ok |-> TRUE] ELSE ReadFill(xa)

\* A faulty _client_write_bytes that adds the result of write() to
\* bytes_total even when it is -1.
ClientWriteCountsError(x) ==
  LET st    == x.c.stream
      rest  == st.length - st.bytes_total
      bytes == CASE x.peer = "closed" \/ x.room = 0 -> -1
                 [] OTHER -> IF x.room < rest THEN x.room ELSE rest
      err   == CASE x.peer = "closed" -> "EPIPE" [] x.room = 0 -> "EAGAIN" [] OTHER -> x.errno
      done  == st.bytes_total + bytes = st.length
      x1    == [x EXCEPT !.c.stream.bytes_total = @ + bytes, !.errno = err,
                         !.got = IF bytes > 0 /\ done THEN Append(@, x.c.wresp) ELSE @]
  IN CASE err = "EPIPE" -> [x1 EXCEPT !.c.flags = @ \cup {"END_SESSION"}]
       [] ~done         -> [x1 EXCEPT !.c.state = "WRITE", !.armOut = TRUE]
       [] "KEEP_ALIVE" \in x1.c.flags -> [x1 EXCEPT !.c = ClientReset(@)]
       [] OTHER         -> [x1 EXCEPT !.c.flags = @ \cup {"END_SESSION"}]

ClientWrite(x) ==
  LET st    == x.c.stream
      rest  == st.length - st.bytes_total
      bytes == CASE x.peer = "closed" -> -1
                 [] x.room = 0         -> -1
                 [] OTHER              -> IF x.room < rest THEN x.room ELSE rest
      err   == CASE x.peer = "closed" -> "EPIPE"
                 [] x.room = 0         -> "EAGAIN"
                 [] OTHER              -> x.errno
      n     == IF bytes > 0 THEN bytes ELSE 0
      done  == st.bytes_total + n = st.length
      x1    == [x EXCEPT !.c.stream.bytes_total = @ + n, !.room = @ - n, !.errno = err,
                         !.got = IF n > 0 /\ done THEN Append(@, x.c.wresp) ELSE @]
  IN CASE err = "EPIPE" -> [x1 EXCEPT !.c.flags = @ \cup {"END_SESSION"}]
       [] ~done         -> [x1 EXCEPT !.c.state = "WRITE", !.armOut = TRUE]
       [] "KEEP_ALIVE" \in x1.c.flags -> [x1 EXCEPT !.c = ClientReset(@)]
       [] OTHER         -> [x1 EXCEPT !.c.flags = @ \cup {"END_SESSION"}]

\* _response_data_reset: the pool (the headers) and the body go, the code
\* returns to 200; body_len is left alone.
ResponseDataReset(r) == [code |-> 200, body |-> <<>>, len |-> r.len]

\* _server_time: out_buf is written only when the second has changed, so
\* a second response within one second carries an uninitialized Date.
ServerTime(x) == IF x.stime # x.now THEN "valid" ELSE "uninitialized"

\* iwn_http_response_end with _client_response_headers_write_http and
\* _client_response_write: the response replaces the read stream, the
\* response data is reset, and the write is attempted at once.  The
\* content-length header is response.body_len, which _response_data_reset
\* leaves as it was.
ResponseEnd(x) ==
  LET c1 == IF "AUTOMATIC" \in x.c.flags THEN AutodetectKeepAlive(x.c) ELSE x.c
      wr == [code |-> c1.resp.code, body |-> c1.resp.body, clen |-> c1.resp.len,
             conn |-> IF "KEEP_ALIVE" \in c1.flags THEN "keep-alive" ELSE "close",
             date |-> ServerTime(x)]
      c2 == [c1 EXCEPT !.stream = [StreamZero EXCEPT !.length = RespLen, !.capacity = RespLen],
                       !.state = "WRITE", !.resp = ResponseDataReset(c1.resp),
                       !.wresp = wr]
  IN ClientWrite([x EXCEPT !.c = c2, !.stime = x.now])

\* _client_response_error: iwn_http_response_write_simple(400, "Bad request").
ResponseError(x) ==
  ResponseEnd(BodySet([x EXCEPT !.c.resp.code = 400], Chars("Bad request")))

-----------------------------------------------------------------------------
(* The request handler of server1.c and the driver loop that calls it.     *)

RECURSIVE ClientRead(_)

\* iwn_http_request_chunk_next
ChunkNext(x, cb) == ClientRead([x EXCEPT !.c.chunkCb = cb])

\* A chunk callback that answers with the first chunk instead of pulling
\* the rest of the body.
ChunkReqCbNoNext(x) ==
  LET val == TokenBytes(x.c.stream, Last(x.c.tokens))
  IN ResponseEnd(BodySet([x EXCEPT !.c.acc = <<>>], x.c.acc \o val))

\* _chunk_req_cb: a non-empty chunk is appended and the next one pulled; an
\* empty one makes the accumulated bytes the response body.
ChunkReqCb(x) ==
  LET val == TokenBytes(x.c.stream, Last(x.c.tokens))  \* iwn_http_request_chunk_get
  IN IF Len(val) > 0
     THEN ChunkNext([x EXCEPT !.c.acc = @ \o val], "chunk_req_cb")
     ELSE ResponseEnd(BodySet([x EXCEPT !.c.acc = <<>>], x.c.acc))

\* _request_handler, by target.
RequestHandler(x) ==
  LET target == TokenValue(x.c, "TARGET").bytes
  IN CASE target = Chars("/empty") -> ResponseEnd(x)
       [] target = Chars("/echo")  -> ResponseEnd(BodySet(x, TokenValue(x.c, "BODY").bytes))
       [] target = Chars("/host")  -> ResponseEnd(BodySet(x, HeaderGet(x.c, Chars("Host"))))
       [] target = Chars("/large") -> ChunkNext([x EXCEPT !.c.acc = <<>>], "chunk_req_cb")
       [] OTHER                    -> ResponseEnd(BodySet(x, Chars("Hello!")))

RECURSIVE ReadLoop(_)

\* The condition of the do/while loop of _client_read.
LoopOn(x, tok) == IF tok.type # "NONE" /\ x.c.state = "READ" THEN ReadLoop(x) ELSE x

\* The body of the loop once _token_parse returned t: store the token, then
\* answer ERROR with 400 and hand bodies and chunks to the application.
Dispatch(x, t) ==
  LET x1 == [x EXCEPT !.c.parser = t.p, !.c.stream = t.st,
                      !.c.tokens = IF t.tok.type # "NONE" THEN Append(@, t.tok) ELSE @]
  IN LoopOn(CASE t.tok.type = "ERROR" -> ResponseError(x1)
              [] t.tok.type \in {"BODY", "BODY_STREAM"} ->
                   RequestHandler([x1 EXCEPT !.c.state = "NOP",
                                     !.c.flags = IF t.tok.type = "BODY_STREAM"
                                                 THEN @ \cup {"STREAMED"} ELSE @])
              [] t.tok.type = "CHUNK_BODY" /\ x1.c.chunkCb # "none" ->
                   ChunkReqCb([x1 EXCEPT !.c.state = "NOP"])
              [] t.tok.type = "CHUNK_BODY" -> [x1 EXCEPT !.c.state = "NOP"]
              [] OTHER -> x1,
            t.tok)

ReadLoop(x) == Dispatch(x, TokenParse(x.c.parser, x.c.stream))

\* _client_read
ClientRead(x) ==
  LET r == ReadBytes([x EXCEPT !.c.state = "READ"])
  IN IF r.ok THEN ReadLoop(r.x) ELSE [r.x EXCEPT !.c.flags = @ \cup {"END_SESSION"}]

\* _client_on_poller_adapter_event, without the END_SESSION check.
OnEvent(x) ==
  CASE x.c.state \in {"INIT", "READ"} ->
         ClientRead(IF x.c.state = "INIT" THEN [x EXCEPT !.c = ClientInit(@)] ELSE x)
    [] x.c.state = "WRITE" -> ClientWrite(x)
    [] OTHER               -> x

-----------------------------------------------------------------------------
(* Actions                                                                 *)

Open == closedBy = "none"

Init ==
  /\ client = ClientZero
  /\ sent = 0
  /\ rd = 0
  /\ peer = "open"
  /\ pend = {}
  /\ errno = "none"
  /\ got = <<>>
  /\ closedBy = "none"
  /\ now = 1
  /\ stime = 0  \* the server struct is calloc'ed

\* How far the peer may send: a peer that does not pipeline sends request j
\* only after the answer to request j - 1 has arrived.
SendLimit ==
  IF Pipelined \/ Len(got) >= Len(Reqs) THEN Len(Wire) ELSE End(Len(got) + 1)

\* The peer writes the wire up to cut k; new bytes are a readable edge.
PeerSend(k) ==
  /\ Open /\ peer = "open"
  /\ sent < k /\ k <= SendLimit
  /\ sent' = k
  /\ pend' = pend \cup {"IN"}
  /\ UNCHANGED <<client, rd, peer, errno, got, closedBy, now, stime>>

\* The peer closes its end; end of file is a readable edge.
PeerClose ==
  /\ Open /\ peer = "open"
  /\ peer' = "closed"
  /\ pend' = pend \cup {"IN"}
  /\ UNCHANGED <<client, sent, rd, errno, got, closedBy, now, stime>>

\* The poller thread delivers the pending events to the connection's
\* callback; a return of -1 (END_SESSION) makes the poller close the fd.
\* A POLLOUT edge means the socket has room for at least one byte.
PollerEvent ==
  /\ Open /\ pend # {}
  /\ \E room \in (IF "OUT" \in pend THEN 1 ELSE 0) .. RespLen :
     \E x \in {OnEvent([c |-> client, rd |-> rd, errno |-> errno, got |-> got,
                        stime |-> stime, room |-> room, armOut |-> FALSE,
                        sent |-> sent, peer |-> peer, now |-> now])} :
          /\ client' = x.c
          /\ rd' = x.rd
          /\ errno' = x.errno
          /\ got' = x.got
          /\ stime' = x.stime
          /\ pend' = IF x.armOut THEN {"OUT"} ELSE {}
          /\ closedBy' = IF "END_SESSION" \in x.c.flags THEN "server" ELSE "none"
  /\ UNCHANGED <<sent, peer, now>>

\* The poller's per-fd timeout fires and the connection is disposed.
Timeout ==
  /\ TimeoutsEnabled /\ Open
  /\ closedBy' = "timeout"
  /\ UNCHANGED <<client, sent, rd, peer, pend, errno, got, now, stime>>

\* Another connection served by the same poller thread fails a write with
\* EPIPE, leaving errno set on this thread.
ForeignWrite ==
  /\ SharedThread /\ Open
  /\ errno' = "EPIPE"
  /\ UNCHANGED <<client, sent, rd, peer, pend, got, closedBy, now, stime>>

Tick ==
  /\ now < MaxTime
  /\ now' = now + 1
  /\ UNCHANGED <<client, sent, rd, peer, pend, errno, got, closedBy, stime>>

\* The connection is gone; nothing more happens on it.
Terminated == ~Open /\ UNCHANGED vars

Next ==
  \/ \E k \in Cuts : PeerSend(k)
  \/ PeerClose
  \/ PollerEvent
  \/ Timeout
  \/ ForeignWrite
  \/ Tick
  \/ Terminated

\* The poller thread keeps delivering events: weak fairness of PollerEvent,
\* written out as []<>~ENABLED \/ []<>step.  ENABLED <<PollerEvent>>_vars
\* is Open /\ pend # {}, since every primed variable is given by an
\* equality and a step always changes pend or the write stream.  The peer,
\* the clock and the timeout need no fairness.
PollerFairness == []<>~(Open /\ pend # {}) \/ []<><<PollerEvent>>_vars

Spec == Init /\ [][Next]_vars /\ PollerFairness

-----------------------------------------------------------------------------
(* Properties                                                              *)

TypeOK ==
  /\ client.state \in {"INIT", "READ", "WRITE", "NOP"}
  /\ client.flags \subseteq FLAGS
  /\ client.chunkCb \in {"none", "chunk_req_cb"}
  /\ client.parser.state \in 0 .. BR /\ client.parser.meta \in 0 .. M_ERR
  /\ \A f \in {"index", "length", "capacity", "anchor", "bytes_total"} :
       client.stream[f] \in Nat
  /\ client.stream.tok.type \in TokenTypes
  /\ sent \in 0 .. Len(Wire) /\ rd \in 0 .. sent
  /\ peer \in {"open", "closed"}
  /\ pend \subseteq {"IN", "OUT"}
  /\ errno \in {"none", "EAGAIN", "EPIPE"}
  /\ closedBy \in {"none", "server", "timeout"}
  /\ now \in 1 .. MaxTime /\ stime \in 0 .. MaxTime

\* Spec section 8: while a request is read, anchor <= token.index,
\* token.index + token.len <= length, index <= length <= capacity, and the
\* buffer never grows past request_buf_max_size (_stream_jump,
\* _stream_jumpall, _stream_shift and the growth in _client_read_bytes).
StreamBounds ==
  LET st == client.stream
  IN client.state \in {"READ", "NOP"} =>
       /\ st.index <= st.length
       /\ st.length <= st.capacity
       /\ st.capacity <= BufMax
       /\ st.tok.type # "NONE" => /\ st.anchor <= st.tok.index
                                 /\ st.tok.index + st.tok.len <= st.length

\* The i-th complete response the peer receives answers the i-th request
\* with the status and body the test server gives it: parsing, streaming
\* and the chunk callbacks deliver exactly the bytes sent.
ResponsesMatch ==
  \A i \in DOMAIN got :
    /\ i <= Len(Expected)
    /\ got[i].code = Expected[i].code
    /\ got[i].body = Expected[i].body

\* The connection header of every response follows the keep-alive rule
\* of spec section 4.5 (_client_autodetect_keep_alive).
ConnectionAsSpecified ==
  \A i \in DOMAIN got : got[i].conn = Expected[i].conn

\* The server closes a connection the peer still holds open only after a
\* complete response that announced "connection: close" (_client_write,
\* _client_read_bytes, the END_SESSION check of the poller callback).
NoSilentClose ==
  closedBy = "server" /\ peer = "open" =>
    /\ got # <<>>
    /\ Last(got).conn = "close"
    /\ client.stream.bytes_total = client.stream.length

\* Every request the peer has sent in full is eventually answered, unless
\* the connection is closed first.
RequestsAnswered ==
  \A j \in 1 .. Len(Reqs) : sent >= End(j) ~> (Len(got) >= j \/ ~Open)

\* The content-length of every response is the length of its body: a
\* response without a body, after one with a body on the same keep-alive
\* connection, does not announce the earlier body's length
\* (_client_response_headers_write, _response_data_reset).
ContentLengthMatches == \A i \in DOMAIN got : got[i].clen = Len(got[i].body)

\* Every response carries an initialized Date header (_server_time).
DateInitialized == \A i \in DOMAIN got : got[i].date = "valid"

\* Spec sections 5 and 7: a 400 is the last response and announces
\* "connection: close".
ErrorEndsConnection ==
  \A i \in DOMAIN got : got[i].code = 400 => got[i].conn = "close" /\ i = Len(got)

-----------------------------------------------------------------------------
(* Refinement of the abstract exchange                                     *)

\* The requests the peer has sent in full.
Asked == Cardinality({j \in 1 .. Len(Reqs) : End(j) <= sent})

\* A response as the abstract exchange sees it: its status and body.
Answered(s) == [i \in DOMAIN s |-> [code |-> s[i].code, body |-> s[i].body]]

EX == INSTANCE HttpExchange
        WITH Answers <- Answered(Expected), asked <- Asked,
             answered <- Answered(got), open <- Open

\* The connection implements HttpExchange: every response the peer receives
\* answers the oldest request it has sent in full and not yet had answered,
\* with the status and body the test server gives it; no response comes
\* before its request is complete (a streamed body is pulled to its end by
\* _chunk_req_cb first); responses are never taken back; and while the
\* connection is open every complete request is eventually answered.
ExchangeRefined == EX!Spec

=============================================================================
