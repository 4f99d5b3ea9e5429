---------------------------- MODULE HttpExchange ----------------------------
(***************************************************************************)
(* What one HTTP/1.1 connection promises its peer (spec sections 4 and 5): *)
(* the peer's requests are answered one by one, in the order they were     *)
(* sent, each with the answer its target prescribes, and never before the  *)
(* peer has sent it in full.  The connection may be closed at any moment   *)
(* (a timeout, an error, or "connection: close" with its last answer);     *)
(* while it stays open a request sent in full is eventually answered.      *)
(***************************************************************************)
EXTENDS Naturals, Sequences

CONSTANT Answers   \* the answer to the i-th request of the connection

VARIABLES
  asked,     \* how many requests the peer has sent in full
  answered,  \* the answers the peer has received, in order
  open       \* the connection is still open

vars == <<asked, answered, open>>

Init == asked = 0 /\ answered = <<>> /\ open = TRUE

\* The peer finishes sending its next request.
Ask ==
  /\ open /\ asked < Len(Answers)
  /\ asked' = asked + 1
  /\ UNCHANGED <<answered, open>>

\* The oldest request not yet answered gets its answer; the connection may
\* close with it.
Answer ==
  /\ open /\ Len(answered) < asked
  /\ answered' = Append(answered, Answers[Len(answered) + 1])
  /\ open' \in {TRUE, FALSE}
  /\ UNCHANGED asked

\* The connection closes without an answer.
Close ==
  /\ open
  /\ open' = FALSE
  /\ UNCHANGED <<asked, answered>>

Next == Ask \/ Answer \/ Close

Spec == Init /\ [][Next]_vars /\ WF_vars(Answer)

=============================================================================
