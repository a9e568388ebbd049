--------------------------- MODULE SequenceWindow ---------------------------
(***************************************************************************)
(* The sliding replay window of the publication gate: `SequenceWindow` of  *)
(* src/ingress_authorization.rs.  A window is the highest sequence it has  *)
(* admitted and a bit mask.  Bit d of the mask says that `highest - d` was *)
(* admitted; here the mask is the set of its one bits.                     *)
(***************************************************************************)
EXTENDS Integers

CONSTANT WindowBits    \* SEQUENCE_WINDOW_BITS, 128 in the program

ASSUME WindowBitsAssumption == WindowBits \in Nat \ {0}

Distance == 0 .. WindowBits - 1

Window == [highest : Nat, seen : SUBSET Distance]

\* The window an unknown stream of frames starts with: only bit 0 is set.
First(sequence) == [highest |-> sequence, seen |-> {0}]

\* Mutants of Slide: a mask one bit too wide; the newest bit never set.
SlideTooWide(seen, shift) ==
  {0} \cup {d + shift : d \in {e \in seen : e + shift <= WindowBits}}
SlideForgetsNewest(seen, shift) ==
  {d + shift : d \in {e \in seen : e + shift < WindowBits}}

\* `(seen << shift) | 1`.  Bits shifted past the mask are lost, all of them
\* when shift >= WindowBits (the code's separate branch).
Slide(seen, shift) ==
  {0} \cup {d + shift : d \in {e \in seen : e + shift < WindowBits}}

\* Mutants of Admits: the far edge of the window is let in; only the next
\* sequence advances it.
AdmitsPastEdge(window, sequence) ==
  \/ sequence > window.highest
  \/ /\ window.highest - sequence <= WindowBits
     /\ window.highest - sequence \notin window.seen
AdmitsContiguous(window, sequence) ==
  \/ sequence = window.highest + 1
  \/ /\ sequence <= window.highest
     /\ window.highest - sequence < WindowBits
     /\ window.highest - sequence \notin window.seen

\* What `admit` answers.
Admits(window, sequence) ==
  \/ sequence > window.highest
  \/ /\ window.highest - sequence < WindowBits
     /\ window.highest - sequence \notin window.seen

\* Mutant of Admit: the bit of a late frame is set before its distance is
\* compared with the width.
AdmitMarksFirst(window, sequence) ==
  IF sequence > window.highest
  THEN [highest |-> sequence,
        seen    |-> Slide(window.seen, sequence - window.highest)]
  ELSE [window EXCEPT !.seen = @ \cup {window.highest - sequence}]

\* What `admit` leaves behind.
Admit(window, sequence) ==
  IF sequence > window.highest
  THEN [highest |-> sequence,
        seen    |-> Slide(window.seen, sequence - window.highest)]
  ELSE IF Admits(window, sequence)
       THEN [window EXCEPT !.seen = @ \cup {window.highest - sequence}]
       ELSE window

\* A sequence that the window will never admit again.
Spent(window, sequence) ==
  /\ sequence <= window.highest
  /\ \/ window.highest - sequence >= WindowBits
     \/ window.highest - sequence \in window.seen

=============================================================================
