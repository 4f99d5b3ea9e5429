# TLA+ models of iwnet's HTTP server and WebSocket client

This directory holds TLA+ models of the HTTP/1.1 server in
`src/http/http_server.c` (one connection, and the listener with its
reference count across a pool of poller threads) and of the WebSocket
client in `src/ws/ws.c`. The session model is driven by the test
application `src/http/tests/server1.c`. Each model is checked with TLC.

## The system

The repository contains these parts (see `PROJECT.json`, `components`):

- **Request parser** (`http_server.c` 132-258, 371-439, 609-791).
  - A character FSM (`_transitions`, 25 states × 12 character classes) and a "meta" FSM (`_meta_transitions`).
  - The meta FSM recognises `content-length` and `transfer-encoding: chunked`, and decides between a small body, a streamed body and a chunked body.
  - A read stream (`struct stream`) with an index, a length, a capacity, an anchor and the current token.
  - `_token_parse` pulls bytes until a token (METHOD, TARGET, VERSION, HEADER_KEY/VAL, BODY, BODY_STREAM, CHUNK_BODY, REQ_END, ERROR) is emitted or the buffered bytes run out.
- **Session driver** (`_client_*`, 461-885).
  - One `struct client` per connection, with the states INIT, READ, WRITE and NOP (paused in the application).
  - The poller callback `_client_on_poller_adapter_event` runs `_client_init`, `_client_read` or `_client_write`, and returns -1 to close when `HTTP_END_SESSION` is set.
  - `_client_read_bytes` fills the stream, doubling it up to `request_buf_max_size`.
  - `_client_read` loops over tokens and calls the application on BODY, BODY_STREAM and CHUNK_BODY.
  - `_client_write` writes the response. It arms POLLOUT on a short write, resets for keep-alive, or ends the session.
- **Request/response API** (965-1345).
  - Token lookups (`_token_get_string`, `iwn_http_request_header_get`).
  - Pulling the next chunk (`iwn_http_request_chunk_next`, a nested `_client_read`).
  - Setting the body.
  - `iwn_http_response_end`, which autodetects keep-alive, serialises the status line, Date and headers, and replaces the read stream with the response.
- **Test application** (`server1.c`): `/empty`, `/echo`, `/host`, `/large` (accumulates the body chunk by chunk via `_chunk_req_cb`) and the default response "Hello!".
- **Direct poller adapter** (`src/poller/direct_poller_adapter.c`): forwards `read`, `write` and readiness events between the poller and the session.
- **The poller** is not in `src/`. It is modelled from the contract in `spec.md`:
  - it delivers edge-triggered POLLIN/POLLOUT;
  - `arm_events` adds POLLOUT;
  - it has a per-fd timeout;
  - returning -1 disposes the fd.
- **Listener and reference count** (`http_server.c` 31-40, 471-489, 892-958, 1351-1557).
  - `iwn_http_server_create` binds over getaddrinfo's list, listens and registers the listening task; any failure runs `_server_destroy`.
  - `_server_on_ready` accepts in a loop; `_client_accept` allocates the client, takes a reference with `_server_ref`, makes the fd non-blocking, registers it through the direct adapter and calls `on_connection`.
  - `_client_destroy` frees the client and calls `_server_unref`; the last unref, and the listener's dispose, run `_server_destroy`.
- **WebSocket client** (`src/ws/ws.c`).
  - `ws_open` parses the URL, connects (`_connect`), sets the socket options, creates the wslay context and registers the socket, asking for POLLOUT.
  - `_on_poller_adapter_event` runs under the recursive `ws->mtx`. Before the handshake is complete it runs `_on_handshake_event`, which first writes the request and then reads until the blank line of the 101 answer and checks `Sec-WebSocket-Accept`. After that it runs `wslay_event_send` and `wslay_event_recv`, whose callbacks read and write through the adapter and hand messages to `on_message`.
  - `_on_poller_adapter_dispose` (guarded by a CAS) calls `on_dispose` and frees the ws. `ws_close` asks the poller to remove the task.
- **Not modelled:**
  - the WebSocket server (`src/ws/ws_server.c`): see "Not modelled" below;
  - `src/utils/iwn_pairs.h` and `src/iwnet.h` (declarations only).

How the parts interact: every readiness event of a connection runs to completion on one poller thread. The driver reads, parses, calls the handler, which may respond or pull the next chunk (re-entering `_client_read`), and writes. Nothing else runs on that connection in between. Connections share only:

- the thread's `errno`;
- the server struct (`stime`, the refcount).

The reference count is shared by every poller thread: the listener holds
one reference, and each accepted client takes one in `_client_accept` and
drops it in `_client_destroy`, which may run on another thread.

The WebSocket client talks to a server it does not share code with. Its
events run on one poller thread. Application code runs inside its
callbacks: `on_connected`, `on_message` and `on_dispose`.

## Modules

| Module | Models |
|---|---|
| `HttpParser.tla` | The parser as pure operators over a parser record and a stream record. Character classes, both FSM tables (checked entry by entry against the C arrays), `_stream_*`, `_meta_trigger`, `_meta_emit_token`, the `MATCH` macro, `_transition` (`Enter` for the code before its switch, `Switch` with one operator per large case) and `_token_parse` (`ParseLoop`, RECURSIVE). Bytes are one-character strings; C index `i` is `buf[i+1]`. |
| `HttpSession.tla` | One connection (details below). |
| `HttpExchange.tla` | The abstract request/response exchange a connection promises: requests answered one by one, in order, each with its prescribed answer and never before it is complete; the connection may close at any time; while it is open a complete request is eventually answered (weak fairness of `Answer`). |
| `MCHttpSession.tla` | The concrete requests (as byte sequences), the expected answers and the send boundaries. |
| `HttpServer.tla` | The listener, the accept path and the reference count, run by a set of poller threads (details below). |
| `ServerLifetime.tla` | The abstract lifetime the reference count promises: created with one holder; a reference is taken only from a live object someone still holds; destroyed once, when nobody holds it. |
| `MCHttpServer.tla` | The address lists the bind loop meets. |
| `WsClient.tla` | The WebSocket client against an abstract server peer (details below). |
| `MCWsClient.tla` | The address lists `_connect` meets; the constraint for the `ws_lost` run. |

`HttpSession.tla` models one connection:

- **State:**
  - `client`: the `struct client`, plus the handler's accumulator `acc` and the response in flight, `wresp`;
  - the socket: `sent`, `rd`, `peer`;
  - the pending edge-triggered events, `pend`;
  - the thread's `errno`;
  - the complete responses the peer received, `got`;
  - `closedBy`;
  - the clock, `now`, and `server->stime`.
- **Actions:**
  - `PeerSend(k)`: the peer writes the wire up to cut `k`.
  - `PeerClose`.
  - `PollerEvent`: one whole callback invocation. It is computed by the recursive operators `OnEvent`, `ClientRead`, `ReadLoop`, `RequestHandler`, `ChunkReqCb`, `ResponseEnd` and `ClientWrite` over a record holding the client and the socket. Every call the C makes inside an event is part of this one step.
  - `Timeout`: the poller's timeout.
  - `ForeignWrite`: another connection on the same thread leaves `errno = EPIPE`.
  - `Tick`: the clock.
  - `Terminated`.
- **Data abstraction:**
  - A serialised response is `RespLen` abstract bytes.
  - Its content is the record `[code, body, clen, conn, date]` that the peer receives once all bytes are written. `clen` is the announced `content-length`, taken from `response.body_len`; `_response_data_reset` (`ResponseDataReset`) clears the body and the code but leaves `body_len`, and `BodySet` leaves both alone for an empty body, as the C does.
  - Request bytes are modelled exactly, because the parser's control flow depends on them.
- **Refinement:** `EX == INSTANCE HttpExchange` maps `asked` to the number of requests whose last byte the peer has sent (`Asked`), `answered` to the code and body of each response in `got`, and `open` to `closedBy = "none"`. `ExchangeRefined == EX!Spec` is checked as a property. A peer send is an `Ask` or a stutter, a poller event that completes a response is an `Answer` (possibly closing), one that closes without an answer is a `Close`, and the abstract `WF_vars(Answer)` is the concrete poller fairness at work. The nested `_client_read` that `iwn_http_request_chunk_next` runs from `_chunk_req_cb` is where an early or doubled answer would come from.

Intermediate results of the recursive operators are passed as operator parameters (`Switch(Enter(...), ...)`, `Dispatch(x, TokenParse(...))`) rather than bound by LET and referenced repeatedly. This keeps TLC's per-expression coverage bookkeeping linear in the size of the model.

`HttpServer.tla` models the server object and every thread of the pool:

- **State:**
  - the server: `phase`, `sfd`, `sockOpen`, `closes`, `refs`, `disposals`;
  - the ghost `hasRef` (which holder owns a unit of `refs`);
  - the listening task `listener`;
  - per connection: `conn`, `task`, `linked`, `freed`;
  - the callbacks the application saw, `calls`;
  - per thread: `pc`, `cur`, `ret`, `local`;
  - `shutdown`.
- **Actions:** `CreateServer` (with `BindLoop`), `Connect(c)`, `ListenerReady(t)`, `ListenerDispose(t)`, `ClientEnd(t, c)` (a session ends on thread `t`), `Shutdown` (`server1.c`), and `Step(t)`.
  - `Step(t)` is one piece of `_client_accept` or `_client_destroy`: `AcceptNext`, `ServerRef`, `Setup`, `OnConnection`, `ClientDestroy`, `Unref` or `UnrefCheck`.
  - Each mutex section is one step. The destroy decision after the unlock (`UnrefCheck`) is a step of its own, because another thread may run in between.
- **Refinement:** `SL == INSTANCE ServerLifetime` maps the server to "new" before creation, "gone" once `_server_destroy` has run, "live" otherwise, and maps the holders to `{h : hasRef[h]}`. `LifetimeRefined == SL!Spec` is checked as a property. Every ServerRef, client destroy and unref is thereby an Acquire, Release or Destroy of the abstract object, or a stutter.

`WsClient.tla` models one `struct ws` and its server peer:

- **State:**
  - the ws: `phase`, `fd`, `closes`, `cas`, `st` (`ws->state`), `output` (`ws->output`);
  - wslay's queue `outq`;
  - the pending readiness edges `pend`;
  - the two directions of the socket, `c2s` and `s2c`;
  - the server: `srv` and `srvSent`;
  - the callbacks delivered, `calls`;
  - the messages given to `ws_write_text`, `wrote`;
  - `endBy`.
- **Actions:**
  - `WsOpen(run, fail)`;
  - `ClientEvent`: one call of `_on_poller_adapter_event`, with the room the socket has and whether a write fails. It is `HandshakeSend`, `HandshakeRecv` or `WsEvent`;
  - `HandshakeSpin`: the handshake loop reading 0 again;
  - `WsClose`: `ws_close` or the poller's timeout;
  - `Dispose`: the poller runs `_on_poller_adapter_dispose` after a -1;
  - the peer's `SrvRequest`, `SrvRespond(ok)`, `SrvEcho` and `SrvClose`;
  - `Terminated`.
- **Application threads:** `AppWriteText(m)` is `ws_write_text` called from a thread other than the poller's, between two events. It takes `ws->mtx`, queues the message and then arms `EPOLLOUT` through `ws->poller_adapter->poller`. The event resets `ws->poller_adapter` to 0 before it unlocks, so this call always dereferences NULL, and the process is `"crashed"`. `ThreadsSpec` is `Spec` with this action added. Only the `ws_thread` run uses it, because no passing behaviour can contain it.
- **Data abstraction:**
  - The request is two items, so it can be written partly.
  - The 101 answer is "hsA" (before the blank line) and "hsB" or "hsBad" (the rest, with a valid or invalid accept key), so it can be read partly.
  - A message is one item; "EOF" is the peer's close.
- **Application:** `on_connected` writes `Greeting` with `ws_write_text` (inside the event, where `ws->poller_adapter` is set).
- **Server:** it answers a complete request, echoes every message, may push one message right after its 101, and may close at any time.

## Runs

The shared constants are `BufSize = 16`, `TokenMaxLen = 16`, `MaxHeaderCount = 4`, `RespLen = 2` and `MaxTime = 2`.

**Passing runs:**

- `session` (`MCHttpSession.cfg`, BufMax 48): checks TypeOK, StreamBounds, ResponsesMatch, ConnectionAsSpecified, RequestsAnswered and ExchangeRefined (the refinement of `HttpExchange` above).
  - Requests: an echo POST (small body), a `/large` POST whose 9-byte body is streamed and read chunk by chunk, and a 1.0 `/empty`.
  - The peer may stop at seven cut points. Those points split heads, bodies and buffer-growth boundaries.
  - It interleaves peer close, timeouts, a foreign EPIPE and the clock.
- `single_thread` (BufMax 48, no foreign EPIPE): checks NoSilentClose, i.e. the server only closes an open connection right after a complete "connection: close" response.
- `server_pool` (`MCHttpServer.cfg`): two poller threads, two connections, every allocation and setup failure of the accept path, bind lists on which some address binds. It checks:
  - `TypeOK`;
  - `RefNeverSeesZero`: `_server_ref` never increments a count that has reached 0;
  - `CallbacksWellFormed`: at most one `on_connection` and one close per connection; after the server's dispose nothing is called;
  - `LifetimeRefined` (the refinement above);
  - `ShutdownDisposesServer`: after shutdown the server is eventually destroyed.
- `ws_client` (`MCWsClient.cfg`): allocation, fcntl, setsockopt, wslay, adapter and key-generation failures; an accept-key mismatch; partial writes; the server closing at any point; `ws_close`/timeout at any point. It checks:
  - `TypeOK`;
  - `CallbacksOrdered`: `on_connected` at most once and before any message, `on_dispose` last;
  - `ServerMessagesDelivered`: every message the server sends reaches `on_message` unless the task was removed;
  - `WrittenMessagesSent`: every message given to `ws_write_text` is eventually written to the socket unless the task ends with an error or is removed. This holds because of the `EPOLLOUT` that `ws_write_text` arms and the mask the event returns while wslay still has queued messages.

**Violation runs.** Each one is a disagreement between the code and `spec.md`, or a plain bug (see `findings`):

| Run | Property | What happens |
|---|---|---|
| `chunked` | ResponsesMatch | `_stream_jump` never advances `index`, so a chunk held whole in the buffer is answered 400. |
| `length` | ContentLengthMatches | `_response_data_reset` never clears `body_len`, so the bodyless `/empty` answered after `/large` on the same keep-alive connection announces `content-length: 9`. |
| `tight` | NoSilentClose | `_stream_can_contain` is off by two. A body one byte too large is read as small, and a zero-length read closes silently. |
| `pipe` | RequestsAnswered | A pipelined request is freed with the stream. |
| `date` | DateInitialized | A second response in one second has an uninitialised Date. |
| `accept_race` | NoUseAfterFree | After the adapter registers a client, another poller thread can end its session and free it before `_client_accept` calls `on_connection` with it. |
| `ws_lost` | ServerMessagesDelivered | The handshake loop keeps reading after the 101 and drops the bytes, so a message the server sends right after its answer never reaches `on_message`. The run's constraint `ServerStaysOpen` keeps the counterexample free of the peer's close. |
| `ws_thread` | WrittenMessagesSent | spec.md says application code may call `ws_write_text` from outside the poller thread. The call dereferences `ws->poller_adapter`, which is NULL outside an event, so the process crashes and the message is never written. |

**Reproductions.** These configurations show further disagreements. They are not runs, and the `hazards` of `PROJECT.json` point to them:

- `MCHttpSession_oversize.cfg` (`RequestsAnswered`): a head larger than the maximum buffer stalls under edge triggering until the timeout.
- `MCHttpSession_bad.cfg` (`ErrorEndsConnection`): a 400 keeps the connection alive.
- `MCHttpSession_errno.cfg` (`NoSilentClose`): errno left at EPIPE by another connection on the same thread ends a session whose write succeeded.
- `MCHttpSession_close.cfg` (`ConnectionAsSpecified`): `header_get` matches by length, so `User-Agent` is taken for `connection`.
- `MCHttpServer_acceptfail.cfg` (`CallbacksPaired`): a failing `_client_accept` reports a close for a connection that was never opened.
- `MCHttpServer_create.cfg` and `MCHttpServer_stale.cfg` (`ServerClosesOwnFd`): a failed `iwn_http_server_create` closes fd 0 or a socket it already closed.
- `MCWsClient_stdin.cfg` (`WsClosesOwnFd`): a failed `_connect` leaves 0 in `ws->fd`, and `_destroy` closes stdin.

`ServerClosesOwnFd` and `WsClosesOwnFd` are checked only by these reproductions. The passing runs leave out the early creation failures and the address lists that never connect, so those invariants would hold there only because the case is excluded.
- `MCWsClient_spin.cfg` (`PeerCloseDisposes`): a peer that closes during the handshake makes the read loop read 0 forever.

Each property of a passing run has a mutant in `PROJECT.json`: a plausible bug in the mapped code that TLC catches under that run's configuration.

## Bounds

- **Buffer sizes:**
  - `BufSize = 16` with `BufMax = 48` gives two doublings (16 → 32 → 48, capped) within one request, and a full buffer at the maximum.
  - `BufMax = 64` is used where a 50-byte request must fit.
- **Body sizes:** the 9-byte `/large` body exceeds what remains of a 48-byte buffer, so it takes the streamed path. It is cut mid-body so that `chunk_next` re-reads.
- **Responses:** `RespLen = 2` allows short writes (room 0 or 1 gives EAGAIN, or a partial write and POLLOUT).
- **Clock:** `MaxTime = 2` gives both same-second and next-second responses.
- **Server pool:** two threads and two connections are enough for every interleaving between one thread's accept and another thread's session end or unref. With three holders (listener plus two clients), the count reaches 0 from each side.
- **WebSocket client:** one greeting, one pushed message, a request of two items and an answer of two items. Writes and reads can stop between any two items, and the peer's close can fall between any two of its items.
- **Cut points:** these are where the hard cases (split tokens, split bodies, a whole request per read) happen. Every other cut produces the same parser states up to the buffer boundaries the chosen cuts already cross.

## Fairness

The poller thread runs events whenever they are pending. That is the only fairness assumed (`PollerFairness`, weak fairness of `PollerEvent`, written out because TLC cannot evaluate `ENABLED` of the recursive step efficiently).

The peer, the timeout and the clock get no fairness: a peer may stop sending, and a connection may time out at any moment. `RequestsAnswered` therefore promises an answer only for requests that were sent in full, or else that the connection is closed.

`HttpServer` assumes weak fairness of each thread's `Step(t)`. A thread inside this code never blocks: its mutex sections are short. It also assumes weak fairness of the listener's dispose and, after shutdown, of a session's end, because the poller disposes every task it holds when it shuts down.

`WsClient` assumes weak fairness of `ClientEvent` (the poller thread delivers pending edges) and of `Dispose` (the poller disposes a task whose callback returned -1). The server, the application and the timeout get none.

## Not modelled

- Chunked responses (`iwn_http_response_chunk_write`/`_end`). Nothing sets `HTTP_CHUNKED_RESPONSE`, so every chunk write repeats the status line and headers and `chunk_cb` is never called; no application in the repository writes a chunked response, so there is no caller to model. This is recorded as a hazard.
- `iwn_http_request_headers_iterate`: it stops only at a BODY token and would read past the tokens of a streamed request. Nothing in the repository calls it. This is recorded as a hazard.
- `src/utils/iwn_pairs.h` and `src/iwnet.h`: declarations only, with no implementation under `src/`.
- Response headers other than `connection`.
- Token-buffer growth and allocation failures.
- Read errors other than EAGAIN.
- Content-Length overflow.
- TLS (the BearSSL adapter is not in `src/`), including the `wss` branch of `ws_open`.
- The WebSocket server (`src/ws/ws_server.c`):
  - it is written against a request API (`iwn_http_req`, `iwn_wf`) that `http_server.c` does not provide, so it cannot be composed with the session model;
  - `_on_response_completed` dereferences `ctx->pa` (line 234) before any event has set it, so an upgrade crashes before its message queue is used.
- `ws_close` called from an application thread while the poller disposes the task. The freed ws it would read is recorded as a hazard. `WsClose` is enabled only while the task is open.
- The WebSocket server's event handler, message queue and `iwn_ws_server_write_text`. They can run only after `_on_response_completed` returns, and that function has already crashed at line 234. So the defects in its message queue (the append at line 203 and the `free` order at line 213) cannot be reached.
- wslay control frames (ping, pong, close) and empty messages.

The `hazards` list in `PROJECT.json` names the ones that matter and why no run covers them yet.

## Plan

1. **Done:**
   - parser, session driver, response path, test application and edge-triggered poller;
   - the listener and reference count across a thread pool, with a refinement of the abstract lifetime;
   - the WebSocket client and its handshake, and application threads calling `ws_write_text`;
   - the abstract request/response exchange `HttpExchange`, refined by `HttpSession` for peers that do not pipeline.
2. **Next:**
   - a `ws_close` from an application thread racing the poller's dispose, once a model of the poller's removal semantics is settled;
   - the refinement of `HttpExchange` for pipelining peers, once the pipelined-request bug (`pipe`) is fixed.
