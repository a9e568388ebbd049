-------------------------- MODULE OrderedRendition --------------------------
(***************************************************************************)
(* What the audio epoch worker promises of each rendition, with no tasks,  *)
(* no queues and no packager: a group handed to a rendition waits in line  *)
(* until it leaves in a part or is refused.  Parts take groups from the    *)
(* front of the line, in order and without a hole; a group leaves once.    *)
(* Only a part that could not be sent may take with it one group more: the *)
(* one whose discontinuity ended it.                                       *)
(***************************************************************************)
EXTENDS Naturals, Sequences, SequencesExt

CONSTANTS Key,          \* the renditions
          Group         \* the groups, each with an identity of its own

VARIABLES pending,      \* the groups in line, per rendition
          parts,        \* the parts they left in
          refused       \* the groups refused one by one

vars == <<pending, parts, refused>>

Init ==
  /\ pending = [k \in Key |-> <<>>]
  /\ parts = [k \in Key |-> <<>>]
  /\ refused = {}

Accept(k) ==
  /\ UNCHANGED <<parts, refused>>
  /\ Len(pending'[k]) = Len(pending[k]) + 1
  /\ Last(pending'[k]) \in Group
  /\ pending' = [pending EXCEPT ![k] = Append(@, Last(pending'[k]))]

Leave(k, n, sent) ==
  parts' = [parts EXCEPT ![k] =
    Append(@, [units |-> SubSeq(pending[k], 1, n), sent |-> sent])]

Publish(k, n) ==
  /\ UNCHANGED refused
  /\ \E sent \in BOOLEAN : Leave(k, n, sent)
  /\ pending' = [pending EXCEPT ![k] = SubSeq(@, n + 1, Len(@))]

PublishFails(k, n) ==
  /\ n < Len(pending[k])
  /\ Leave(k, n, FALSE)
  /\ refused' = refused \cup {pending[k][n + 1]}
  /\ pending' = [pending EXCEPT ![k] = SubSeq(@, n + 2, Len(@))]

Refuse(k, i) ==
  /\ UNCHANGED parts
  /\ refused' = refused \cup {pending[k][i]}
  /\ pending' = [pending EXCEPT ![k] = RemoveAt(@, i)]

Next ==
  \E k \in Key :
    \/ Accept(k)
    \/ \E n \in DOMAIN pending[k] :
         Publish(k, n) \/ PublishFails(k, n) \/ Refuse(k, n)

Spec == Init /\ [][Next]_vars

=============================================================================
