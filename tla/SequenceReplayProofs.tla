------------------------- MODULE SequenceReplayProofs -------------------------
(* The replay window implements at-most-once admission, for every width and *)
(* every set of sequences.  The inductive invariant is TypeOK together with *)
(* MaskIsHistory: the mask alone determines which recent sequences were     *)
(* admitted, so the verdicts agree with those of the complete history.      *)
EXTENDS SequenceReplay, SequenceWindowProofs

Inv == TypeOK /\ MaskIsHistory

LEMMA WindowFields ==
  ASSUME NEW w \in Window
  PROVE  w.highest \in Nat /\ w.seen \in SUBSET Distance
BY DEF Window

\* A window that mirrors a history admits exactly what the history finds
\* fresh: this is where the mask's width and the promise's bound meet.
LEMMA VerdictsAgree ==
  ASSUME Inv, window # NoWindow, NEW s \in Sequence
  PROVE  Admits(window, s) <=> Promise!Fresh(s)
<1>1. window \in Window /\ s \in Nat /\ admitted \subseteq Nat
  BY SequenceAssumption DEF Inv, TypeOK
<1>2. /\ window.highest \in Nat
      /\ window.highest \in admitted
      /\ \A m \in admitted : m <= window.highest
      /\ window.seen = {d \in Distance : window.highest - d \in admitted}
  BY <1>1, WindowFields DEF Inv, MaskIsHistory
<1>3. CASE s > window.highest
  <2>1. ASSUME NEW m \in admitted PROVE m - s < WindowBits
    <3>1. m \in Nat /\ m <= window.highest /\ WindowBits > 0 /\ WindowBits \in Nat
      BY <1>1, <1>2, WindowBitsAssumption
    <3>2. QED
      BY <1>1, <1>2, <1>3, <3>1
  <2>2. s \notin admitted
    BY <1>1, <1>2, <1>3
  <2>3. QED
    BY <1>3, <2>1, <2>2 DEF Admits, Promise!Fresh
<1>4. CASE ~(s > window.highest) /\ window.highest - s >= WindowBits
  <2>1. ~Admits(window, s)
    BY <1>1, <1>2, <1>4, WindowBitsAssumption DEF Admits
  <2>2. ~Promise!Fresh(s)
    BY <1>1, <1>2, <1>4, WindowBitsAssumption DEF Promise!Fresh
  <2>3. QED
    BY <2>1, <2>2
<1>5. CASE ~(s > window.highest) /\ ~(window.highest - s >= WindowBits)
  <2>1. window.highest - s \in Distance
    BY <1>1, <1>2, <1>5, WindowBitsAssumption DEF Distance
  <2>2. window.highest - (window.highest - s) = s
    BY <1>1, <1>2
  <2>3. window.highest - s \in window.seen <=> s \in admitted
    BY <1>2, <2>1, <2>2
  <2>4. \A m \in admitted : m - s < WindowBits
    BY <1>1, <1>2, <1>5, WindowBitsAssumption
  <2>5. QED
    BY <1>1, <1>2, <1>5, <2>3, <2>4, WindowBitsAssumption
    DEF Admits, Promise!Fresh
<1>6. QED
  BY <1>3, <1>4, <1>5

\* An admitted sequence extends mask and history alike.
LEMMA AdmitMirrors ==
  ASSUME Inv, window # NoWindow, NEW s \in Sequence, Admits(window, s),
         NEW w, w = Admit(window, s),
         NEW H, H = admitted \cup {s}
  PROVE  /\ w.highest \in H
         /\ \A m \in H : m <= w.highest
         /\ w.seen = {d \in Distance : w.highest - d \in H}
<1>1. window \in Window /\ s \in Nat /\ admitted \subseteq Nat
  BY SequenceAssumption DEF Inv, TypeOK
<1>2. /\ window.highest \in Nat
      /\ window.highest \in admitted
      /\ \A m \in admitted : m <= window.highest
      /\ window.seen = {d \in Distance : window.highest - d \in admitted}
  BY <1>1, WindowFields DEF Inv, MaskIsHistory
<1>3. CASE s > window.highest
  <2> DEFINE shift == s - window.highest
  <2>1. w.highest = s /\ w.seen = Slide(window.seen, shift)
    BY <1>3 DEF Admit
  <2>2. shift \in Nat /\ shift > 0
    BY <1>1, <1>2, <1>3
  <2>3. ASSUME NEW d \in Distance
        PROVE  d \in Slide(window.seen, shift) <=> s - d \in H
    <3>1. d \in Nat /\ d < WindowBits
      BY WindowBitsAssumption DEF Distance
    <3>2. CASE d = 0
      BY <1>1, <3>2 DEF Slide
    <3>3. CASE d # 0 /\ d < shift
      <4>1. s - d \notin H
        BY <1>1, <1>2, <3>1, <3>3
      <4>2. d \notin Slide(window.seen, shift)
        BY <1>2, <2>2, <3>1, <3>3 DEF Slide, Distance
      <4>3. QED
        BY <4>1, <4>2
    <3>4. CASE d # 0 /\ ~(d < shift)
      <4>1. d - shift \in Distance
        BY <2>2, <3>1, <3>4, WindowBitsAssumption DEF Distance
      <4>2. window.highest - (d - shift) = s - d /\ s - d # s
        BY <1>1, <1>2, <3>1, <3>4
      <4>3. d - shift \in window.seen <=> s - d \in H
        BY <1>2, <4>1, <4>2
      <4>4. d \in Slide(window.seen, shift) <=> d - shift \in window.seen
        <5>1. ASSUME d \in Slide(window.seen, shift) PROVE d - shift \in window.seen
          BY <1>2, <2>2, <3>1, <3>4, <5>1 DEF Slide, Distance
        <5>2. ASSUME d - shift \in window.seen PROVE d \in Slide(window.seen, shift)
          BY <2>2, <3>1, <4>1, <5>2 DEF Slide, Distance
        <5>3. QED
          BY <5>1, <5>2
      <4>5. QED
        BY <4>3, <4>4
    <3>5. QED
      BY <3>2, <3>3, <3>4
  <2>4. Slide(window.seen, shift) \subseteq Distance
    BY <1>1, <2>2, SlideType, WindowFields
  <2>5. w.seen = {d \in Distance : w.highest - d \in H}
    BY <2>1, <2>3, <2>4
  <2>6. \A m \in H : m <= w.highest
    BY <1>1, <1>2, <1>3, <2>1
  <2>7. QED
    BY <2>1, <2>5, <2>6
<1>4. CASE ~(s > window.highest)
  <2>1. w.highest = window.highest /\ w.seen = window.seen \cup {window.highest - s}
    BY <1>1, <1>4 DEF Admit, Window
  <2>2. window.highest - s \in Distance
    BY <1>1, <1>2, <1>4, WindowBitsAssumption DEF Admits, Distance
  <2>3. ASSUME NEW d \in Distance
        PROVE  d \in w.seen <=> window.highest - d \in H
    <3>1. d \in Nat
      BY DEF Distance
    <3>2. window.highest - d = s <=> d = window.highest - s
      BY <1>1, <1>2, <3>1
    <3>3. QED
      BY <1>2, <2>1, <3>2
  <2>4. w.seen = {d \in Distance : w.highest - d \in H}
    BY <1>2, <2>1, <2>2, <2>3
  <2>5. QED
    BY <1>1, <1>2, <1>4, <2>1, <2>4
<1>5. QED
  BY <1>3, <1>4

\* The first frame of a stream starts both at once.
LEMMA FirstMirrors ==
  ASSUME NEW s \in Sequence
  PROVE  /\ First(s).highest = s
         /\ First(s).seen = {d \in Distance : s - d \in {s}}
<1>1. s \in Nat
  BY SequenceAssumption
<1>2. QED
  BY <1>1, WindowBitsAssumption DEF First, Distance

LEMMA InvStep == Inv /\ [Next]_vars => Inv'
<1> SUFFICES ASSUME Inv, [Next]_vars PROVE Inv'
  OBVIOUS
<1>1. ASSUME NEW s \in Sequence, Open(s) PROVE Inv'
  <2>1. s \in Nat /\ admitted = {}
    BY <1>1, SequenceAssumption DEF Inv, MaskIsHistory, Open
  <2>2. window' = First(s) /\ admitted' = {s}
    BY <1>1, <2>1 DEF Open
  <2>3. First(s) \in Window
    BY <2>1, FirstSpends
  <2>4. TypeOK'
    BY <1>1, <2>2, <2>3 DEF Inv, TypeOK, Open
  <2>5. window' # NoWindow
    BY <2>2, <2>3, NoWindowAssumption
  <2>6. MaskIsHistory'
    BY <2>1, <2>2, <2>5, FirstMirrors DEF MaskIsHistory
  <2>7. QED
    BY <2>4, <2>6 DEF Inv
<1>2. ASSUME NEW s \in Sequence, Accept(s) PROVE Inv'
  <2>1. window \in Window /\ s \in Nat
    BY <1>2, SequenceAssumption DEF Inv, TypeOK, Accept
  <2>2. window' = Admit(window, s) /\ admitted' = admitted \cup {s}
    BY <1>2 DEF Accept
  <2>3. window' \in Window
    BY <2>1, <2>2, AdmitType
  <2>4. TypeOK'
    BY <1>2, <2>3 DEF Inv, TypeOK, Accept
  <2>5. window' # NoWindow
    BY <2>3, NoWindowAssumption
  <2>6. MaskIsHistory'
    BY <1>2, <2>2, <2>5, AdmitMirrors DEF MaskIsHistory, Accept
  <2>7. QED
    BY <2>4, <2>6 DEF Inv
<1>3. ASSUME NEW s \in Sequence, Refuse(s) PROVE Inv'
  <2>1. window' = window /\ admitted' = admitted
    BY <1>3 DEF Refuse, Admit, Admits
  <2>2. QED
    BY <1>3, <2>1 DEF Inv, TypeOK, MaskIsHistory, Refuse
<1>4. CASE UNCHANGED vars
  BY <1>4 DEF Inv, TypeOK, MaskIsHistory, vars
<1>5. QED
  BY <1>1, <1>2, <1>3, <1>4 DEF Next

\* The types, and that the mask is exactly the recent history, in every
\* reachable state.
THEOREM WindowInvariant == Spec => [](TypeOK /\ MaskIsHistory)
<1>1. Init => Inv
  BY DEF Init, Inv, TypeOK, MaskIsHistory
<1>2. Inv => TypeOK /\ MaskIsHistory
  BY DEF Inv
<1>3. QED
  BY <1>1, <1>2, InvStep, PTL DEF Spec

\* Every step of the window is a step of the promise: same frame, same verdict.
THEOREM WindowImplementsPromise == Spec => ImplementsAtMostOnce
<1>1. Init => Promise!Init
  BY DEF Init, Promise!Init
<1>2. Inv /\ [Next]_vars => [Promise!Next]_(Promise!vars)
  <2> SUFFICES ASSUME Inv, [Next]_vars
               PROVE  [Promise!Next]_(Promise!vars)
    OBVIOUS
  <2>1. ASSUME NEW s \in Sequence, Open(s) PROVE Promise!Accept(s)
    BY <2>1 DEF Open, Inv, MaskIsHistory, Promise!Accept, Promise!Fresh
  <2>2. ASSUME NEW s \in Sequence, Accept(s) PROVE Promise!Accept(s)
    BY <2>2, VerdictsAgree DEF Accept, Promise!Accept
  <2>3. ASSUME NEW s \in Sequence, Refuse(s) PROVE Promise!Refuse(s)
    BY <2>3, VerdictsAgree DEF Refuse, Promise!Refuse
  <2>4. CASE UNCHANGED vars
    BY <2>4 DEF vars, Promise!vars
  <2>5. QED
    BY <2>1, <2>2, <2>3, <2>4 DEF Next, Promise!Next
<1>3. Spec => []Inv
  <2>1. Init => Inv
    BY DEF Init, Inv, TypeOK, MaskIsHistory
  <2>2. QED
    BY <2>1, InvStep, PTL DEF Spec
<1>4. QED
  BY <1>1, <1>2, <1>3, PTL DEF Spec, ImplementsAtMostOnce, Promise!Spec

=============================================================================
