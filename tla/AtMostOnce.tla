----------------------------- MODULE AtMostOnce -----------------------------
(***************************************************************************)
(* What the replay window promises the publication gate, with no mask and  *)
(* no highest: the complete set of admitted sequences is remembered.  A    *)
(* sequence is admitted exactly when it is new and no admitted sequence is *)
(* ahead of it by the window or more.                                      *)
(***************************************************************************)
EXTENDS Integers

CONSTANTS Sequence,     \* the sequence numbers that senders use
          WindowBits    \* how far behind the newest a frame may arrive

VARIABLES admitted,     \* every sequence admitted so far
          verdict       \* the last answer: admitted or refused

vars == <<admitted, verdict>>

Fresh(s) == s \notin admitted /\ \A m \in admitted : m - s < WindowBits

Init == admitted = {} /\ verdict = "none"

Accept(s) ==
  /\ Fresh(s)
  /\ admitted' = admitted \cup {s}
  /\ verdict' = "admitted"

Refuse(s) ==
  /\ ~Fresh(s)
  /\ admitted' = admitted
  /\ verdict' = "refused"

Next == \E s \in Sequence : Accept(s) \/ Refuse(s)

Spec == Init /\ [][Next]_vars

=============================================================================
