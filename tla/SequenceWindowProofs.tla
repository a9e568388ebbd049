------------------------- MODULE SequenceWindowProofs -------------------------
(* Facts about one replay window, for every width: what `admit` answers and *)
(* what it leaves behind.                                                   *)
EXTENDS SequenceWindow, TLAPS

\* Shifting the mask keeps it inside its width.
LEMMA SlideType ==
  ASSUME NEW seen \in SUBSET Distance, NEW shift \in Nat
  PROVE  Slide(seen, shift) \in SUBSET Distance
BY WindowBitsAssumption DEF Slide, Distance

\* A window stays a window, whatever sequence is offered to it.
LEMMA AdmitType ==
  ASSUME NEW w \in Window, NEW s \in Nat
  PROVE  Admit(w, s) \in Window
<1>1. w.highest \in Nat /\ w.seen \in SUBSET Distance
  BY DEF Window
<1>2. CASE s > w.highest
  <2>1. s - w.highest \in Nat
    BY <1>1, <1>2
  <2>2. QED
    BY <1>1, <1>2, <2>1, SlideType DEF Admit, Window
<1>3. CASE ~(s > w.highest) /\ Admits(w, s)
  <2>1. w.highest - s \in Distance
    BY <1>1, <1>3, WindowBitsAssumption DEF Admits, Distance
  <2>2. QED
    BY <1>1, <1>3, <2>1 DEF Admit, Window
<1>4. CASE ~(s > w.highest) /\ ~Admits(w, s)
  BY <1>4 DEF Admit
<1>5. QED
  BY <1>2, <1>3, <1>4

\* The first frame of a stream opens a window in which it is spent.
LEMMA FirstSpends ==
  ASSUME NEW s \in Nat
  PROVE  First(s) \in Window /\ Spent(First(s), s)
BY WindowBitsAssumption DEF First, Window, Distance, Spent

\* `admit` answers true exactly for the sequences that are not spent.
LEMMA AdmitsIffNotSpent ==
  ASSUME NEW w \in Window, NEW s \in Nat
  PROVE  Admits(w, s) <=> ~Spent(w, s)
BY WindowBitsAssumption DEF Admits, Spent, Window

\* An admitted sequence is spent.
LEMMA AdmitSpends ==
  ASSUME NEW w \in Window, NEW s \in Nat
  PROVE  Spent(Admit(w, s), s)
<1>1. w.highest \in Nat /\ w.seen \in SUBSET Distance
  BY DEF Window
<1>2. CASE s > w.highest
  BY <1>1, <1>2 DEF Admit, Spent, Slide
<1>3. CASE ~(s > w.highest) /\ Admits(w, s)
  BY <1>1, <1>3 DEF Admit, Spent, Window
<1>4. CASE ~(s > w.highest) /\ ~Admits(w, s)
  BY <1>4, AdmitsIffNotSpent DEF Admit
<1>5. QED
  BY <1>2, <1>3, <1>4

\* What is spent stays spent: no jump, shift or late frame revives a sequence.
LEMMA SpentForever ==
  ASSUME NEW w \in Window, NEW s \in Nat, NEW t \in Nat, Spent(w, t)
  PROVE  Spent(Admit(w, s), t)
<1>1. w.highest \in Nat /\ w.seen \in SUBSET Distance
  BY DEF Window
<1>2. CASE s > w.highest
  <2>1. Admit(w, s) = [highest |-> s, seen |-> Slide(w.seen, s - w.highest)]
    BY <1>2 DEF Admit
  <2>2. t <= s
    BY <1>1, <1>2 DEF Spent
  <2>3. CASE s - t >= WindowBits
    BY <2>1, <2>2, <2>3 DEF Spent
  <2>4. CASE ~(s - t >= WindowBits)
    <3>1. w.highest - t \in w.seen
      BY <1>1, <1>2, <2>2, <2>4, WindowBitsAssumption DEF Spent
    <3>2. (w.highest - t) + (s - w.highest) = s - t
      BY <1>1
    <3>3. s - t \in Slide(w.seen, s - w.highest)
      BY <1>1, <2>4, <3>1, <3>2, WindowBitsAssumption DEF Slide
    <3>4. QED
      BY <2>1, <2>2, <3>3 DEF Spent
  <2>5. QED
    BY <2>3, <2>4
<1>3. CASE ~(s > w.highest) /\ Admits(w, s)
  <2>1. Admit(w, s) = [w EXCEPT !.seen = @ \cup {w.highest - s}]
    BY <1>3 DEF Admit
  <2>2. QED
    BY <1>1, <2>1 DEF Spent, Window
<1>4. CASE ~(s > w.highest) /\ ~Admits(w, s)
  BY <1>4 DEF Admit
<1>5. QED
  BY <1>2, <1>3, <1>4

=============================================================================
