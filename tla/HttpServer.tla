----------------------------- MODULE HttpServer -----------------------------
(***************************************************************************)
(* The listening side of src/http/http_server.c: iwn_http_server_create,  *)
(* the accept loop (_server_on_ready, _client_accept), client disposal    *)
(* (_client_destroy) and the server reference count (_server_ref,         *)
(* _server_unref, _server_destroy, _server_on_dispose), run by a pool of  *)
(* poller threads.  A session's own traffic is HttpSession's business:    *)
(* here a registered session only ever ends (ClientEnd).                  *)
(*                                                                         *)
(* Each mutex-protected section of _server_ref and _server_unref is one   *)
(* atomic step; the destroy decision after the unlock is a step of its    *)
(* own, as in the code.  Every other step is a stretch of code between    *)
(* two points where another thread's work can matter.                    *)
(***************************************************************************)
EXTENDS Naturals, Sequences, FiniteSets

CONSTANTS Threads,        \* the poller's worker threads
          Conns,          \* client connections (their fds)
          Listener,       \* the listening task, as a holder of a reference
          NoConn,         \* no connection
          AllocFailures,  \* iwpool_create_empty / iwpool_calloc may fail
          SetupFailures,  \* fcntl, the adapter's calloc, poller_add, listen may fail
          EarlyFailure,   \* iwn_http_server_create may fail before binding
          BindRuns        \* outcomes of socket()/bind() over getaddrinfo's list

ASSUME BindRuns \subseteq Seq({"nosock", "nobind", "bound"}) \ {<<>>}

Holders == Conns \cup {Listener}
Idle == "idle"

VARIABLES phase,      \* "init" before iwn_http_server_create, then "up" or "failed"
          sfd,        \* server->fd: "zero" (from calloc), "none" (-1), "sock"
          sockOpen,   \* the socket server->fd names is open
          closes,     \* what _server_destroy passed to close(), in order
          refs,       \* server->refs
          disposals,  \* how many times _server_destroy ran
          hasRef,     \* holder h owns one unit of refs (ghost)
          linked,     \* client->server is set
          listener,   \* the listening task: "none", "idle", "busy", "gone"
          conn,       \* "new", "queued" (in the listen backlog), "accepted", "dropped"
          task,       \* a client's poller task: "none", "idle", "busy", "gone"
          freed,      \* the client's pool is destroyed
          calls,      \* application callbacks, in order
          pc, cur, ret, local, \* per thread: where it is, the client, the caller, refs
          shutdown    \* iwn_poller_shutdown_request was called

life == <<phase, sfd, sockOpen, closes, disposals>>
refVars == <<refs, hasRef>>
cliVars == <<linked, conn, task, freed>>
thrVars == <<pc, cur, ret, local>>
vars == <<life, refVars, listener, cliVars, thrVars, calls, shutdown>>

Callback(ev, c) == [ev |-> ev, c |-> c]

(* What close(server->fd) in _server_destroy hits: server->fd is 0 from   *)
(* iwpool_calloc until the bind loop assigns it, -1 is skipped.           *)
FdClosed(fd, open) ==
  CASE fd = "zero"         -> <<"stdin">>
    [] fd = "sock" /\ open -> <<"listen">>
    [] fd = "sock"         -> <<"stale">>
    [] OTHER               -> <<>>

(* _server_destroy: on_server_dispose, close(server->fd), free.           *)
ServerDestroy(fd, open) ==
  /\ disposals' = disposals + 1
  /\ calls' = Append(calls, Callback("dispose", NoConn))
  /\ closes' = closes \o FdClosed(fd, open)
  /\ sockOpen' = FALSE

(* The bind loop of iwn_http_server_create: server->fd takes each         *)
(* socket() result; a failed bind closes it and moves on.                 *)
RECURSIVE BindLoop(_, _)
BindLoop(run, s) ==
  IF run = <<>> THEN s
  ELSE CASE Head(run) = "nosock" -> BindLoop(Tail(run), [fd |-> "none", open |-> FALSE])
         [] Head(run) = "nobind" -> BindLoop(Tail(run), [fd |-> "sock", open |-> FALSE])
         [] OTHER                -> [fd |-> "sock", open |-> TRUE]

CreateFailed(s) ==
  /\ phase' = "failed"
  /\ sfd' = s.fd
  /\ refs' = 1
  /\ ServerDestroy(s.fd, s.open)
  /\ UNCHANGED <<hasRef, listener, cliVars, thrVars, shutdown>>

CreateListening ==
  /\ phase' = "up"
  /\ sfd' = "sock"
  /\ sockOpen' = TRUE
  /\ refs' = 1
  /\ hasRef' = [hasRef EXCEPT ![Listener] = TRUE]
  /\ listener' = "idle"
  /\ UNCHANGED <<closes, disposals, cliVars, thrVars, calls, shutdown>>

(* iwn_http_server_create.  Every failure reaches finish: and             *)
(* _server_destroy, with server->fd as the code left it.                  *)
CreateServer ==
  /\ phase = "init"
  /\ \/ EarlyFailure /\ CreateFailed([fd |-> "zero", open |-> FALSE])
     \/ \E run \in BindRuns :
          LET s == BindLoop(run, [fd |-> "zero", open |-> FALSE]) IN
          \/ ~s.open /\ CreateFailed(s)
          \/ s.open /\ SetupFailures /\ CreateFailed(s)
          \/ s.open /\ CreateListening

(* A peer connects; it waits in the listen backlog.                       *)
Connect(c) ==
  /\ phase = "up" /\ sockOpen
  /\ conn[c] = "new"
  /\ conn' = [conn EXCEPT ![c] = "queued"]
  /\ UNCHANGED <<life, refVars, listener, linked, task, freed, thrVars, calls, shutdown>>

(* The signal handler of the test server: iwn_poller_shutdown_request.    *)
Shutdown ==
  /\ phase # "init" /\ ~shutdown
  /\ shutdown' = TRUE
  /\ UNCHANGED <<life, refVars, listener, cliVars, thrVars, calls>>

(* The poller runs _server_on_ready on an idle thread.                    *)
ListenerReady(t) ==
  /\ phase = "up" /\ ~shutdown
  /\ pc[t] = Idle /\ listener = "idle"
  /\ \E c \in Conns : conn[c] = "queued"
  /\ listener' = "busy"
  /\ pc' = [pc EXCEPT ![t] = "accept"]
  /\ UNCHANGED <<life, refVars, cliVars, cur, ret, local, calls, shutdown>>

(* _client_accept up to _server_ref: the pool and the client struct.      *)
ClientAlloc(t, c) ==
  \/ /\ AllocFailures
     /\ conn' = [conn EXCEPT ![c] = "dropped"]
     /\ UNCHANGED thrVars
  \/ /\ conn' = [conn EXCEPT ![c] = "accepted"]
     /\ pc' = [pc EXCEPT ![t] = "ref"]
     /\ cur' = [cur EXCEPT ![t] = c]
     /\ ret' = [ret EXCEPT ![t] = "accept"]
     /\ UNCHANGED local

(* One turn of the do-while in _server_on_ready.                          *)
AcceptNext(t) ==
  /\ pc[t] = "accept"
  /\ \/ /\ \A c \in Conns : conn[c] # "queued"
        /\ listener' = "idle"
        /\ pc' = [pc EXCEPT ![t] = Idle]
        /\ UNCHANGED <<conn, cur, ret, local>>
     \/ \E c \in Conns : conn[c] = "queued" /\ ClientAlloc(t, c) /\ UNCHANGED listener
  /\ UNCHANGED <<life, refVars, linked, task, freed, calls, shutdown>>

ServerRefNoIncrement(t) ==
  /\ pc[t] = "ref"
  /\ hasRef' = [hasRef EXCEPT ![cur[t]] = TRUE]
  /\ linked' = [linked EXCEPT ![cur[t]] = TRUE]
  /\ pc' = [pc EXCEPT ![t] = "setup"]
  /\ UNCHANGED <<life, refs, listener, conn, task, freed, cur, ret, local, calls, shutdown>>

(* _server_ref under server->mtx.  At refs = 0 it fails (the assert is    *)
(* compiled out in release builds) and _client_accept goes to finish:.    *)
ServerRef(t) ==
  /\ pc[t] = "ref"
  /\ IF refs = 0
       THEN /\ pc' = [pc EXCEPT ![t] = "destroy"]
            /\ UNCHANGED <<refs, hasRef, linked>>
       ELSE /\ refs' = refs + 1
            /\ hasRef' = [hasRef EXCEPT ![cur[t]] = TRUE]
            /\ linked' = [linked EXCEPT ![cur[t]] = TRUE]
            /\ pc' = [pc EXCEPT ![t] = "setup"]
  /\ UNCHANGED <<life, listener, conn, task, freed, cur, ret, local, calls, shutdown>>

(* An adapter that, when poller_add fails, runs its on_dispose as well as *)
(* freeing itself.                                                        *)
AdapterCreateDisposesTwice(t) ==
  \/ /\ SetupFailures
     /\ calls' = Append(calls, Callback("close", cur[t]))
     /\ refs' = refs - 1
     /\ pc' = [pc EXCEPT ![t] = "destroy"]
     /\ UNCHANGED task
  \/ /\ task' = [task EXCEPT ![cur[t]] = "idle"]
     /\ pc' = [pc EXCEPT ![t] = "on_conn"]
     /\ UNCHANGED <<calls, refs>>

(* iwn_direct_poller_adapter (direct_poller_adapter_create): calloc, then *)
(* poller_add; on failure the adapter frees itself and returns the error. *)
(* Once poller_add succeeds the task is the poller's: any thread may run  *)
(* it.                                                                    *)
AdapterCreate(t) ==
  \/ /\ SetupFailures
     /\ pc' = [pc EXCEPT ![t] = "destroy"]
     /\ UNCHANGED <<task, calls, refs>>
  \/ /\ task' = [task EXCEPT ![cur[t]] = "idle"]
     /\ pc' = [pc EXCEPT ![t] = "on_conn"]
     /\ UNCHANGED <<calls, refs>>

(* fcntl(O_NONBLOCK), then the adapter; any failure goes to finish:.      *)
Setup(t) ==
  /\ pc[t] = "setup"
  /\ \/ /\ SetupFailures
        /\ pc' = [pc EXCEPT ![t] = "destroy"]
        /\ UNCHANGED <<task, calls, refs>>
     \/ AdapterCreate(t)
  /\ UNCHANGED <<life, hasRef, listener, linked, conn, freed, cur, ret, local, shutdown>>

(* on_connection, reached through client->server.                         *)
OnConnection(t) ==
  /\ pc[t] = "on_conn"
  /\ calls' = Append(calls, Callback("open", cur[t]))
  /\ pc' = [pc EXCEPT ![t] = "accept"]
  /\ cur' = [cur EXCEPT ![t] = NoConn]
  /\ UNCHANGED <<life, refVars, listener, cliVars, ret, local, shutdown>>

(* The end of _client_destroy and the return to its caller: the client's *)
(* pool is freed, and a task the poller disposed is gone.                 *)
Finish(t) ==
  /\ freed' = IF cur[t] \in Conns THEN [freed EXCEPT ![cur[t]] = TRUE] ELSE freed
  /\ task' = IF cur[t] \in Conns /\ ret[t] = Idle
               THEN [task EXCEPT ![cur[t]] = "gone"] ELSE task
  /\ pc' = [pc EXCEPT ![t] = ret[t]]
  /\ cur' = [cur EXCEPT ![t] = NoConn]

ClientDestroyLeaks(t) ==
  /\ pc[t] = "destroy"
  /\ IF linked[cur[t]]
       THEN calls' = Append(calls, Callback("close", cur[t]))
       ELSE UNCHANGED calls
  /\ Finish(t)
  /\ UNCHANGED <<life, refVars, listener, linked, conn, ret, local, shutdown>>

(* _client_destroy: on_connection_close and _server_unref if              *)
(* client->server is set, else straight to freeing.                       *)
ClientDestroy(t) ==
  /\ pc[t] = "destroy"
  /\ IF linked[cur[t]]
       THEN /\ calls' = Append(calls, Callback("close", cur[t]))
            /\ pc' = [pc EXCEPT ![t] = "unref"]
            /\ UNCHANGED <<task, freed, cur>>
       ELSE /\ Finish(t)
            /\ UNCHANGED calls
  /\ UNCHANGED <<life, refVars, listener, linked, conn, ret, local, shutdown>>

(* _server_unref, the section under server->mtx: refs = --server->refs.   *)
Unref(t) ==
  /\ pc[t] = "unref"
  /\ refs' = refs - 1
  /\ local' = [local EXCEPT ![t] = refs - 1]
  /\ hasRef' = [hasRef EXCEPT ![cur[t]] = FALSE]
  /\ pc' = [pc EXCEPT ![t] = "check"]
  /\ UNCHANGED <<life, listener, cliVars, cur, ret, calls, shutdown>>

UnrefCheckRereads(t) ==
  /\ pc[t] = "check"
  /\ IF refs < 1
       THEN ServerDestroy(sfd, sockOpen)
       ELSE UNCHANGED <<disposals, calls, closes, sockOpen>>
  /\ Finish(t)
  /\ UNCHANGED <<phase, sfd, refVars, listener, linked, conn, ret, local, shutdown>>

(* _server_unref after the unlock: the thread that took refs below 1      *)
(* destroys the server; then the rest of the caller runs.                 *)
UnrefCheck(t) ==
  /\ pc[t] = "check"
  /\ IF local[t] < 1
       THEN ServerDestroy(sfd, sockOpen)
       ELSE UNCHANGED <<disposals, calls, closes, sockOpen>>
  /\ Finish(t)
  /\ UNCHANGED <<phase, sfd, refVars, listener, linked, conn, ret, local, shutdown>>

(* The poller disposes a client task (on_event returned -1, a timeout,    *)
(* or shutdown): the adapter's _on_dispose calls                          *)
(* _client_on_poller_adapter_dispose, i.e. _client_destroy.               *)
ClientEnd(t, c) ==
  /\ pc[t] = Idle /\ task[c] = "idle"
  /\ task' = [task EXCEPT ![c] = "busy"]
  /\ pc' = [pc EXCEPT ![t] = "destroy"]
  /\ cur' = [cur EXCEPT ![t] = c]
  /\ ret' = [ret EXCEPT ![t] = Idle]
  /\ UNCHANGED <<life, refVars, listener, linked, conn, freed, local, calls, shutdown>>

(* On shutdown the poller disposes the listening task: _server_on_dispose *)
(* drops the listener's reference.                                        *)
ListenerDispose(t) ==
  /\ shutdown /\ pc[t] = Idle /\ listener = "idle"
  /\ listener' = "gone"
  /\ pc' = [pc EXCEPT ![t] = "unref"]
  /\ cur' = [cur EXCEPT ![t] = Listener]
  /\ ret' = [ret EXCEPT ![t] = Idle]
  /\ UNCHANGED <<life, refVars, cliVars, local, calls, shutdown>>

Terminated ==
  /\ shutdown
  /\ \A t \in Threads : pc[t] = Idle
  /\ listener # "idle"
  /\ \A c \in Conns : task[c] # "idle"
  /\ UNCHANGED vars

Init ==
  /\ phase = "init" /\ sfd = "none" /\ sockOpen = FALSE /\ closes = <<>>
  /\ refs = 0 /\ disposals = 0
  /\ hasRef = [h \in Holders |-> FALSE]
  /\ linked = [c \in Conns |-> FALSE]
  /\ listener = "none"
  /\ conn = [c \in Conns |-> "new"]
  /\ task = [c \in Conns |-> "none"]
  /\ freed = [c \in Conns |-> FALSE]
  /\ calls = <<>>
  /\ pc = [t \in Threads |-> Idle]
  /\ cur = [t \in Threads |-> NoConn]
  /\ ret = [t \in Threads |-> Idle]
  /\ local = [t \in Threads |-> 0]
  /\ shutdown = FALSE

(* A thread that is inside the server's code.                             *)
Step(t) ==
  \/ AcceptNext(t)
  \/ ServerRef(t)
  \/ Setup(t)
  \/ OnConnection(t)
  \/ ClientDestroy(t)
  \/ Unref(t)
  \/ UnrefCheck(t)

Next ==
  \/ CreateServer
  \/ Shutdown
  \/ \E c \in Conns : Connect(c)
  \/ \E t \in Threads :
        \/ ListenerReady(t)
        \/ ListenerDispose(t)
        \/ \E c \in Conns : ClientEnd(t, c)
        \/ Step(t)
  \/ Terminated

(* Threads never block inside this code (the mutex sections are short),   *)
(* so a thread in it keeps running; after shutdown the poller disposes    *)
(* every task it still holds.                                             *)
Fairness ==
  /\ \A t \in Threads : WF_vars(Step(t))
  /\ WF_vars(\E t \in Threads : ListenerDispose(t))
  /\ WF_vars(shutdown /\ \E t \in Threads, c \in Conns : ClientEnd(t, c))

Spec == Init /\ [][Next]_vars /\ Fairness

-----------------------------------------------------------------------------
(* Properties *)

TypeOK ==
  /\ phase \in {"init", "up", "failed"}
  /\ sfd \in {"zero", "none", "sock"}
  /\ refs \in 0..Cardinality(Holders)
  /\ disposals \in 0..1
  /\ hasRef \in [Holders -> BOOLEAN]
  /\ listener \in {"none", "idle", "busy", "gone"}
  /\ conn \in [Conns -> {"new", "queued", "accepted", "dropped"}]
  /\ task \in [Conns -> {"none", "idle", "busy", "gone"}]
  /\ pc \in [Threads -> {Idle, "accept", "ref", "setup", "on_conn",
                         "destroy", "unref", "check"}]
  /\ cur \in [Threads -> Holders \cup {NoConn}]

(* _server_ref asserts server->refs: a connection is only accepted while  *)
(* the listening task still holds its reference, whatever the sessions    *)
(* on other threads release meanwhile.                                    *)
RefNeverSeesZero == \A t \in Threads : pc[t] = "ref" => refs > 0

Opens(c) == {i \in DOMAIN calls : calls[i] = Callback("open", c)}
ClosesOf(c) == {i \in DOMAIN calls : calls[i] = Callback("close", c)}

(* Disposal drives on_connection_close at most once per connection, each  *)
(* accept at most one on_connection, and on_server_dispose comes once,    *)
(* after every other callback.                                            *)
CallbacksWellFormed ==
  /\ \A c \in Conns : Cardinality(Opens(c)) <= 1 /\ Cardinality(ClosesOf(c)) <= 1
  /\ \A i \in DOMAIN calls : calls[i].ev = "dispose" => i = Len(calls)

(* on_connection_close is symmetrical to on_connection (spec.md 4.6): it  *)
(* is only called for a connection on_connection announced before.       *)
CallbacksPaired ==
  \A i \in DOMAIN calls :
    calls[i].ev = "close" =>
      \E j \in 1..(i - 1) : calls[j] = Callback("open", calls[i].c)

(* _client_accept reads client->server for on_connection after handing   *)
(* the client to the poller: the client must not have been freed.         *)
NoUseAfterFree == \A t \in Threads : pc[t] = "on_conn" => ~freed[cur[t]]

(* _server_destroy closes only the listening socket the server holds.     *)
ServerClosesOwnFd == \A i \in DOMAIN closes : closes[i] = "listen"

(* The server's lifetime, seen through the reference count, is the one    *)
(* ServerLifetime promises: references are taken only while held, and the *)
(* object is destroyed once, after the last release.                      *)
SL == INSTANCE ServerLifetime WITH
        Owner <- Listener,
        state <- CASE phase = "init" -> "new"
                   [] disposals > 0  -> "gone"
                   [] OTHER          -> "live",
        holders <- {h \in Holders : hasRef[h]}

LifetimeRefined == SL!Spec

(* After a shutdown request the server is eventually destroyed: every     *)
(* session and the listener release their reference.                      *)
ShutdownDisposesServer == shutdown ~> disposals > 0

=============================================================================
