--------------------------- MODULE SequenceReplay ---------------------------
(***************************************************************************)
(* One stream of frames offered to one replay window: the part of          *)
(* `authorize_strict` that runs under the sequence_windows lock while the  *)
(* window's capability is alive.  PublishIngress composes many of these    *)
(* with expiry and a capacity; here the window is shown to implement the   *)
(* promise AtMostOnce.                                                     *)
(***************************************************************************)
EXTENDS SequenceWindow

CONSTANTS Sequence,     \* the sequence numbers that senders use
          NoWindow      \* no window yet for this stream

ASSUME SequenceAssumption == Sequence \subseteq Nat
ASSUME NoWindowAssumption == NoWindow \notin Window

VARIABLES window,       \* the SequenceWindow, or NoWindow
          verdict,      \* the last answer
          admitted      \* history: every sequence the window admitted

vars == <<window, verdict, admitted>>

Init ==
  /\ window = NoWindow
  /\ verdict = "none"
  /\ admitted = {}

\* Entry::Vacant: the first frame opens the window and is admitted.
Open(s) ==
  /\ window = NoWindow
  /\ window' = First(s)
  /\ verdict' = "admitted"
  /\ admitted' = admitted \cup {s}

\* Entry::Occupied, `admit` answers true.
Accept(s) ==
  /\ window # NoWindow
  /\ Admits(window, s)
  /\ window' = Admit(window, s)
  /\ verdict' = "admitted"
  /\ admitted' = admitted \cup {s}

\* Entry::Occupied, `admit` answers false: FrameReplay.
Refuse(s) ==
  /\ window # NoWindow
  /\ ~Admits(window, s)
  /\ window' = Admit(window, s)
  /\ verdict' = "refused"
  /\ UNCHANGED admitted

Next == \E s \in Sequence : Open(s) \/ Accept(s) \/ Refuse(s)

Spec == Init /\ [][Next]_vars

-----------------------------------------------------------------------------
\* Every variable has its type: the mask never holds a bit past its width.
TypeOK ==
  /\ window \in Window \cup {NoWindow}
  /\ verdict \in {"none", "admitted", "refused"}
  /\ admitted \in SUBSET Sequence

\* The mask is exactly the recent past: `highest` is the newest admitted
\* sequence, and bit d is set when, and only when, highest - d was admitted.
\* After any run of shifts, wide jumps and late frames.
MaskIsHistory ==
  IF window = NoWindow
  THEN admitted = {}
  ELSE /\ window.highest \in admitted
       /\ \A s \in admitted : s <= window.highest
       /\ window.seen = {d \in Distance : window.highest - d \in admitted}

\* The window implements at-most-once delivery: the same verdicts, for the
\* same frames, as if every admitted sequence had been remembered.
Promise == INSTANCE AtMostOnce WITH Sequence <- Sequence, WindowBits <- WindowBits,
                                    admitted <- admitted, verdict <- verdict
ImplementsAtMostOnce == Promise!Spec

=============================================================================
