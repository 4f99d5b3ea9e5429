--------------------------- MODULE ServerLifetime ---------------------------
(***************************************************************************)
(* What the reference count of src/http/http_server.c promises (spec.md   *)
(* 4.6): the server object is created holding one reference for its       *)
(* listening task, sessions take a reference only while someone still      *)
(* holds one, and the object is destroyed exactly once, when the last      *)
(* holder has released it.  A failed creation destroys it at once.         *)
(***************************************************************************)
CONSTANTS Holders,   \* everything that may hold a reference
          Owner      \* the listening task, which holds the first one

ASSUME Owner \in Holders

VARIABLES state,     \* "new", "live" or "gone"
          holders    \* who holds a reference now

vars == <<state, holders>>

TypeOK ==
  /\ state \in {"new", "live", "gone"}
  /\ holders \subseteq Holders

Init == state = "new" /\ holders = {}

Create ==
  /\ state = "new"
  /\ state' = "live"
  /\ holders' = {Owner}

CreateFail ==
  /\ state = "new"
  /\ state' = "gone"
  /\ UNCHANGED holders

\* A reference is only ever taken from a live object someone still holds.
Acquire(h) ==
  /\ state = "live"
  /\ holders # {}
  /\ h \notin holders
  /\ holders' = holders \cup {h}
  /\ UNCHANGED state

Release(h) ==
  /\ h \in holders
  /\ holders' = holders \ {h}
  /\ UNCHANGED state

Destroy ==
  /\ state = "live"
  /\ holders = {}
  /\ state' = "gone"
  /\ UNCHANGED holders

Next ==
  \/ Create
  \/ CreateFail
  \/ \E h \in Holders : Acquire(h) \/ Release(h)
  \/ Destroy

\* Once nobody holds it, the object is eventually destroyed.
Spec == Init /\ [][Next]_vars /\ WF_vars(Destroy)

=============================================================================
