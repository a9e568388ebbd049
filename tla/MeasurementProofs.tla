-------------------------- MODULE MeasurementProofs --------------------------
(***************************************************************************)
(* Theorems about what measures the system: the probe's reader, for every  *)
(* size of the window, of the pipeline, of the responses and of what the   *)
(* edge keeps, and the status report with its histograms, for every number *)
(* of tasks, streams, timers, durations and bounds.                        *)
(***************************************************************************)
EXTENDS HlsReader, Telemetry, FiniteSetTheorems, SequenceTheorems, WellFoundedInduction, TLAPS

-----------------------------------------------------------------------------
\* Least elements, and sums over finite sets.

LEMMA LeastOfNaturals ==
  ASSUME NEW S, S \subseteq Nat, S # {}
  PROVE  \E x \in S : \A y \in S : x <= y
<1>1. \E x \in S : \A y \in S : ~ (<<y, x>> \in OpToRel(<, Nat))
  BY NatLessThanWellFounded, WFMin
<1>2. PICK x \in S : \A y \in S : ~ (<<y, x>> \in OpToRel(<, Nat))
  BY <1>1
<1>3. \A y \in S : ~(y < x)
  BY <1>2 DEF OpToRel
<1>4. \A y \in S : x <= y
  BY <1>3
<1>5. QED
  BY <1>4

\* Induction over the subsets of a finite set: some set of a collection has no
\* element without which it is still in the collection.
LEMMA SmallestSet ==
  ASSUME NEW S, IsFiniteSet(S), NEW C, C \subseteq SUBSET S, C # {}
  PROVE  \E T \in C : \A x \in T : T \ {x} \notin C
<1> DEFINE sizes == {Cardinality(T) : T \in C}
<1>1. \A T \in SUBSET S : IsFiniteSet(T) /\ Cardinality(T) \in Nat
  BY FS_Subset, FS_CardinalityType
<1>2. sizes \subseteq Nat /\ sizes # {}
  BY <1>1
<1>3. PICK n \in sizes : \A m \in sizes : n <= m
  <2> HIDE DEF sizes
  <2>1. QED
    BY <1>2, LeastOfNaturals
<1>4. PICK T \in C : Cardinality(T) = n
  BY <1>3
<1>5. ASSUME NEW x \in T, T \ {x} \in C PROVE FALSE
  <2>1. Cardinality(T \ {x}) = Cardinality(T) - 1
    BY <1>1, <1>4, FS_RemoveElement
  <2>2. Cardinality(T \ {x}) \in sizes /\ Cardinality(T) \in Nat
    BY <1>1, <1>4, <1>5
  <2>3. n <= n - 1 /\ n \in Nat
    BY <1>3, <1>4, <2>1, <2>2
  <2>4. QED
    BY <2>3
<1>6. QED
  BY <1>5

Some(s) == CHOOSE x \in s : TRUE

\* The function a sum over S is the value of.
Sums(h, f, S) ==
  h = [s \in SUBSET S |-> IF s = {} THEN 0 ELSE f[Some(s)] + h[s \ {Some(s)}]]

LEMMA SumIs ==
  ASSUME NEW f, NEW S
  PROVE  SumFunctionOnSet(f, S) = (CHOOSE h : Sums(h, f, S))[S]
BY DEF SumFunctionOnSet, FoldFunctionOnSet, MapThenFoldSet, Sums, Some

LEMMA SomeIn ==
  ASSUME NEW s, s # {}
  PROVE  Some(s) \in s
BY DEF Some

\* There is one: the sets of n elements are summed up after those of fewer.
SumsUpTo(h, f, S, n) ==
  \A s \in SUBSET S : Cardinality(s) <= n =>
    h[s] = IF s = {} THEN 0 ELSE f[Some(s)] + h[s \ {Some(s)}]

LEMMA SumsExist ==
  ASSUME NEW f, NEW S, IsFiniteSet(S)
  PROVE  \E h : Sums(h, f, S)
<1> DEFINE Bad == {n \in Nat : ~ \E h : SumsUpTo(h, f, S, n)}
<1>1. \A s \in SUBSET S : IsFiniteSet(s) /\ Cardinality(s) \in Nat
                          /\ Cardinality(s) <= Cardinality(S) /\ (Cardinality(s) = 0 <=> s = {})
  BY FS_Subset, FS_CardinalityType, FS_EmptySet
<1>2. \A s \in SUBSET S : \A x \in s : Cardinality(s \ {x}) = Cardinality(s) - 1
  BY <1>1, FS_RemoveElement
<1>3. ASSUME NEW h, NEW n \in Nat, n = 0 \/ SumsUpTo(h, f, S, n - 1)
      PROVE  \E g : SumsUpTo(g, f, S, n)
  <2> DEFINE g == [s \in SUBSET S |-> IF s = {} THEN 0 ELSE f[Some(s)] + h[s \ {Some(s)}]]
  <2>1. ASSUME NEW s \in SUBSET S, Cardinality(s) <= n, s # {}
        PROVE  g[s] = f[Some(s)] + g[s \ {Some(s)}]
    <3>1. Some(s) \in s
      BY <2>1, SomeIn
    <3>2. PICK t \in SUBSET S : t = s \ {Some(s)}
      OBVIOUS
    <3>3. Cardinality(t) = Cardinality(s) - 1 /\ Cardinality(s) \in Nat /\ Cardinality(s) # 0
      BY <1>1, <1>2, <2>1, <3>1, <3>2
    <3>4. Cardinality(t) <= n - 1 /\ n # 0
      BY <2>1, <3>3
    <3>5. h[t] = IF t = {} THEN 0 ELSE f[Some(t)] + h[t \ {Some(t)}]
      BY <1>3, <3>4 DEF SumsUpTo
    <3>6. g[t] = h[t]
      BY <3>5
    <3>7. g[s] = f[Some(s)] + h[t]
      BY <2>1, <3>2
    <3>8. QED
      BY <3>2, <3>6, <3>7
  <2>2. g[{}] = 0
    OBVIOUS
  <2> HIDE DEF g
  <2>3. SumsUpTo(g, f, S, n)
    BY <2>1, <2>2 DEF SumsUpTo
  <2>4. QED
    BY <2>3
<1>4. Bad = {}
  <2>1. SUFFICES ASSUME Bad # {} PROVE FALSE
    OBVIOUS
  <2>2. PICK n \in Bad : \A m \in Bad : n <= m
    <3>1. Bad \subseteq Nat
      OBVIOUS
    <3> HIDE DEF Bad
    <3>2. QED
      BY <2>1, <3>1, LeastOfNaturals
  <2>3. n \in Nat /\ ~ \E h : SumsUpTo(h, f, S, n)
    OBVIOUS
  <2>4. n # 0
    BY <1>3, <2>3
  <2>5. n - 1 \in Nat /\ n - 1 \notin Bad
    BY <2>2, <2>3, <2>4
  <2>6. PICK h : SumsUpTo(h, f, S, n - 1)
    BY <2>5
  <2>7. QED
    BY <1>3, <2>3, <2>6
<1>5. Cardinality(S) \in Nat
  BY <1>1
<1>6. PICK h : SumsUpTo(h, f, S, Cardinality(S))
  BY <1>4, <1>5
<1> DEFINE g == [s \in SUBSET S |-> h[s]]
<1>7. \A s \in SUBSET S :
        h[s] = IF s = {} THEN 0 ELSE f[Some(s)] + h[s \ {Some(s)}]
  BY <1>1, <1>6 DEF SumsUpTo
<1>8. \A s \in SUBSET S : s \ {Some(s)} \in SUBSET S
  OBVIOUS
<1>9. g = [s \in SUBSET S |-> IF s = {} THEN 0 ELSE f[Some(s)] + g[s \ {Some(s)}]]
  BY <1>7, <1>8
<1>10. QED
  <2> HIDE DEF g
  <2>1. Sums(g, f, S)
    BY <1>9 DEF Sums
  <2>2. QED
    BY <2>1

LEMMA SumsTyped ==
  ASSUME NEW S, IsFiniteSet(S), NEW f, \A x \in S : f[x] \in Nat,
         NEW h, Sums(h, f, S)
  PROVE  /\ h[{}] = 0
         /\ \A T \in SUBSET S : T # {} => h[T] = f[Some(T)] + h[T \ {Some(T)}]
         /\ \A T \in SUBSET S : h[T] \in Nat
<1> DEFINE Bad == {T \in SUBSET S : h[T] \notin Nat}
<1>1. h[{}] = 0
  BY DEF Sums
<1>2. \A T \in SUBSET S : T # {} => h[T] = f[Some(T)] + h[T \ {Some(T)}]
  BY DEF Sums
<1>3. Bad = {}
  <2>1. SUFFICES ASSUME Bad # {} PROVE FALSE
    OBVIOUS
  <2>2. PICK T \in Bad : \A x \in T : T \ {x} \notin Bad
    <3>1. Bad \subseteq SUBSET S
      OBVIOUS
    <3> HIDE DEF Bad
    <3>2. QED
      BY <2>1, <3>1, SmallestSet
  <2>3. T \in SUBSET S /\ h[T] \notin Nat /\ \A x \in T : h[T \ {x}] \in Nat
    BY <2>2
  <2>4. T # {}
    BY <1>1, <2>3
  <2>5. PICK p \in T : p = Some(T)
    BY <2>4, SomeIn
  <2>6. h[T] = f[p] + h[T \ {p}] /\ f[p] \in Nat /\ h[T \ {p}] \in Nat
    BY <1>2, <2>3, <2>4, <2>5
  <2>7. QED
    BY <2>3, <2>6
<1>4. QED
  BY <1>1, <1>2, <1>3

\* The order of the summands does not matter.
LEMMA SumsStep ==
  ASSUME NEW S, IsFiniteSet(S), NEW f, \A x \in S : f[x] \in Nat,
         NEW h, Sums(h, f, S)
  PROVE  \A T \in SUBSET S : \A x \in T : h[T] = f[x] + h[T \ {x}]
<1> DEFINE Good(T) == \A x \in T : h[T] = f[x] + h[T \ {x}]
           Bad == {T \in SUBSET S : ~Good(T)}
<1>1. /\ \A T \in SUBSET S : T # {} => h[T] = f[Some(T)] + h[T \ {Some(T)}]
      /\ \A T \in SUBSET S : h[T] \in Nat
  <2> HIDE DEF Good, Bad
  <2>1. \A T \in SUBSET S : T # {} => h[T] = f[Some(T)] + h[T \ {Some(T)}]
    BY SumsTyped
  <2>2. \A T \in SUBSET S : h[T] \in Nat
    BY SumsTyped
  <2>3. QED
    BY <2>1, <2>2
<1>2. Bad = {}
  <2>1. SUFFICES ASSUME Bad # {} PROVE FALSE
    OBVIOUS
  <2>2. PICK T \in Bad : \A x \in T : T \ {x} \notin Bad
    <3>1. Bad \subseteq SUBSET S
      OBVIOUS
    <3> HIDE DEF Bad
    <3>2. QED
      BY <2>1, <3>1, SmallestSet
  <2>3. T \in SUBSET S /\ ~Good(T) /\ \A x \in T : Good(T \ {x})
    BY <2>2
  <2>4. PICK x \in T : h[T] # f[x] + h[T \ {x}]
    BY <2>3
  <2>5. PICK p \in T : p = Some(T)
    BY SomeIn
  <2>6. h[T] = f[p] + h[T \ {p}] /\ p # x
    BY <1>1, <2>3, <2>4, <2>5
  <2>7. PICK U \in SUBSET S : U = (T \ {p}) \ {x} /\ U = (T \ {x}) \ {p}
    BY <2>3
  <2>8. h[T \ {p}] = f[x] + h[U]
    <3>1. Good(T \ {p}) /\ x \in T \ {p}
      BY <2>3, <2>6
    <3> HIDE DEF Bad
    <3>2. QED
      BY <2>7, <3>1
  <2>9. h[T \ {x}] = f[p] + h[U]
    <3>1. Good(T \ {x}) /\ p \in T \ {x}
      BY <2>3, <2>6
    <3> HIDE DEF Bad
    <3>2. QED
      BY <2>7, <3>1
  <2>10. f[x] \in Nat /\ f[p] \in Nat /\ h[U] \in Nat
    BY <1>1, <2>3
  <2>11. h[T] = f[p] + (f[x] + h[U]) /\ f[x] + h[T \ {x}] = f[x] + (f[p] + h[U])
    BY <2>6, <2>8, <2>9
  <2>12. QED
    <3> HIDE DEF Bad, Good
    <3>1. QED
      BY <2>4, <2>10, <2>11
<1>3. QED
  BY <1>2

\* Nor does it matter of which set the summands are part, or what is summed elsewhere.
LEMMA SumsAgree ==
  ASSUME NEW S, IsFiniteSet(S), NEW f, \A x \in S : f[x] \in Nat, NEW h, Sums(h, f, S),
         NEW T \in SUBSET S, NEW e, \A x \in T : e[x] = f[x], NEW g, Sums(g, e, T)
  PROVE  \A U \in SUBSET T : h[U] = g[U]
<1>1. IsFiniteSet(T) /\ \A x \in T : e[x] \in Nat
  BY FS_Subset
<1>2. ASSUME NEW V \in SUBSET T, NEW y \in V
      PROVE  g[V] = e[y] + g[V \ {y}]
  BY <1>1, SumsStep
<1>3. ASSUME NEW V \in SUBSET S, NEW y \in V
      PROVE  h[V] = f[y] + h[V \ {y}]
  BY SumsStep
<1> DEFINE Bad == {U \in SUBSET T : h[U] # g[U]}
<1>4. h[{}] = 0 /\ g[{}] = 0
  BY <1>1, SumsTyped
<1>5. Bad = {}
  <2>1. SUFFICES ASSUME Bad # {} PROVE FALSE
    OBVIOUS
  <2>2. PICK U \in Bad : \A x \in U : U \ {x} \notin Bad
    <3>1. Bad \subseteq SUBSET T
      OBVIOUS
    <3> HIDE DEF Bad
    <3>2. QED
      BY <1>1, <2>1, <3>1, SmallestSet
  <2>3. U \in SUBSET T /\ h[U] # g[U] /\ \A x \in U : h[U \ {x}] = g[U \ {x}]
    BY <2>2
  <2>4. U # {}
    BY <1>4, <2>3
  <2>5. PICK x \in U : TRUE
    BY <2>4
  <2>6. h[U] = f[x] + h[U \ {x}]
    BY <1>3, <2>3
  <2>7. g[U] = e[x] + g[U \ {x}]
    BY <1>2, <2>3
  <2>8. QED
    BY <2>3, <2>6, <2>7
<1>6. QED
  BY <1>5

\* A sum over a finite set, with one of its elements apart.
LEMMA SumFacts ==
  ASSUME NEW S, IsFiniteSet(S), NEW f, \A x \in S : f[x] \in Nat
  PROVE  /\ SumFunctionOnSet(f, S) \in Nat
         /\ S = {} => SumFunctionOnSet(f, S) = 0
         /\ \A x \in S : SumFunctionOnSet(f, S) = f[x] + SumFunctionOnSet(f, S \ {x})
<1> DEFINE h == CHOOSE g : Sums(g, f, S)
<1>1. Sums(h, f, S) /\ SumFunctionOnSet(f, S) = h[S]
  BY SumsExist, SumIs
<1> HIDE DEF h
<1>2. h[S] \in Nat /\ h[{}] = 0
  BY <1>1, SumsTyped
<1>3. ASSUME NEW x \in S
      PROVE  SumFunctionOnSet(f, S) = f[x] + SumFunctionOnSet(f, S \ {x})
  <2>1. PICK T \in SUBSET S : T = S \ {x}
    OBVIOUS
  <2> DEFINE k == CHOOSE g : Sums(g, f, T)
  <2>2. Sums(k, f, T) /\ SumFunctionOnSet(f, T) = k[T]
    <3>1. IsFiniteSet(T)
      BY FS_Subset
    <3>2. QED
      BY <3>1, SumsExist, SumIs
  <2> HIDE DEF k
  <2>3. h[T] = k[T]
    BY <1>1, <2>2, SumsAgree
  <2>4. h[S] = f[x] + h[S \ {x}]
    BY <1>1, SumsStep
  <2>5. QED
    BY <1>1, <2>1, <2>2, <2>3, <2>4
<1>4. QED
  BY <1>1, <1>2, <1>3

LEMMA SumsSame ==
  ASSUME NEW S, IsFiniteSet(S), NEW f, \A x \in S : f[x] \in Nat,
         NEW e, \A x \in S : e[x] = f[x]
  PROVE  SumFunctionOnSet(e, S) = SumFunctionOnSet(f, S)
<1> DEFINE h == CHOOSE g : Sums(g, f, S)
           k == CHOOSE g : Sums(g, e, S)
<1>1. Sums(h, f, S) /\ SumFunctionOnSet(f, S) = h[S]
  BY SumsExist, SumIs
<1>2. Sums(k, e, S) /\ SumFunctionOnSet(e, S) = k[S]
  BY SumsExist, SumIs
<1> HIDE DEF h, k
<1>3. h[S] = k[S]
  <2>1. S \in SUBSET S
    OBVIOUS
  <2>2. QED
    BY <1>1, <1>2, <2>1, SumsAgree
<1>4. QED
  BY <1>1, <1>2, <1>3

\* One summand more by one.
LEMMA SumGrows ==
  ASSUME NEW S, IsFiniteSet(S), NEW f, \A x \in S : f[x] \in Nat, NEW x \in S,
         NEW e, e[x] = f[x] + 1, \A y \in S \ {x} : e[y] = f[y]
  PROVE  SumFunctionOnSet(e, S) = SumFunctionOnSet(f, S) + 1
<1>1. PICK T \in SUBSET S : T = S \ {x}
  OBVIOUS
<1>2. IsFiniteSet(T)
  BY FS_Subset
<1>3. SumFunctionOnSet(e, T) = SumFunctionOnSet(f, T) /\ SumFunctionOnSet(f, T) \in Nat
  BY <1>1, <1>2, SumsSame, SumFacts
<1>4. SumFunctionOnSet(f, S) = f[x] + SumFunctionOnSet(f, T)
  BY <1>1, SumFacts
<1>5. SumFunctionOnSet(e, S) = e[x] + SumFunctionOnSet(e, T)
  <2>1. \A y \in S : e[y] \in Nat
    <3>1. f[x] + 1 \in Nat
      OBVIOUS
    <3>2. QED
      BY <3>1
  <2>2. QED
    BY <1>1, <2>1, SumFacts
<1>6. f[x] \in Nat
  OBVIOUS
<1>7. QED
  BY <1>3, <1>4, <1>5, <1>6

\* No summand less.
LEMMA SumAtMost ==
  ASSUME NEW S, IsFiniteSet(S), NEW f, \A x \in S : f[x] \in Nat,
         NEW e, \A x \in S : e[x] \in Nat /\ f[x] <= e[x]
  PROVE  SumFunctionOnSet(f, S) <= SumFunctionOnSet(e, S)
<1> DEFINE Bad == {T \in SUBSET S : ~(SumFunctionOnSet(f, T) <= SumFunctionOnSet(e, T))}
<1>1. Bad = {}
  <2>1. SUFFICES ASSUME Bad # {} PROVE FALSE
    OBVIOUS
  <2>2. PICK T \in Bad : \A x \in T : T \ {x} \notin Bad
    <3>1. Bad \subseteq SUBSET S
      OBVIOUS
    <3> HIDE DEF Bad
    <3>2. QED
      BY <2>1, <3>1, SmallestSet
  <2>3. /\ T \in SUBSET S /\ ~(SumFunctionOnSet(f, T) <= SumFunctionOnSet(e, T))
        /\ \A x \in T : SumFunctionOnSet(f, T \ {x}) <= SumFunctionOnSet(e, T \ {x})
    BY <2>2
  <2>4. IsFiniteSet(T) /\ (\A x \in T : f[x] \in Nat) /\ (\A x \in T : e[x] \in Nat)
    BY <2>3, FS_Subset
  <2>5. CASE T = {}
    <3>1. SumFunctionOnSet(f, T) = 0 /\ SumFunctionOnSet(e, T) = 0
      BY <2>4, <2>5, SumFacts
    <3>2. QED
      BY <2>3, <3>1
  <2>6. ASSUME NEW x \in T PROVE FALSE
    <3>1. PICK U \in SUBSET T : U = T \ {x}
      OBVIOUS
    <3>2. IsFiniteSet(U)
      BY <2>4, FS_Subset
    <3>3. SumFunctionOnSet(f, T) = f[x] + SumFunctionOnSet(f, U)
      BY <2>4, <3>1, SumFacts
    <3>4. SumFunctionOnSet(e, T) = e[x] + SumFunctionOnSet(e, U)
      BY <2>4, <3>1, SumFacts
    <3>5. SumFunctionOnSet(f, U) \in Nat /\ SumFunctionOnSet(e, U) \in Nat
      BY <2>4, <3>2, SumFacts
    <3>6. SumFunctionOnSet(f, U) <= SumFunctionOnSet(e, U) /\ f[x] <= e[x]
      BY <2>3, <3>1
    <3>7. f[x] \in Nat /\ e[x] \in Nat
      BY <2>4
    <3> HIDE DEF Bad
    <3>8. QED
      BY <2>3, <3>3, <3>4, <3>5, <3>6, <3>7
  <2>7. QED
    BY <2>5, <2>6
<1>2. QED
  BY <1>1

LEMMA MaxOfTwo ==
  ASSUME NEW a \in Int, NEW b \in Int
  PROVE  Max({a, b}) \in {a, b} /\ Max({a, b}) >= a /\ Max({a, b}) >= b
<1>1. \E x \in {a, b} : \A y \in {a, b} : x >= y
  <2>1. CASE a >= b
    BY <2>1
  <2>2. CASE ~(a >= b)
    BY <2>2
  <2>3. QED
    BY <2>1, <2>2
<1>2. QED
  BY <1>1 DEF Max

LEMMA MinOfNaturals ==
  ASSUME NEW S, S \subseteq Nat, S # {}
  PROVE  Min(S) \in S /\ \A y \in S : Min(S) <= y
<1>1. \E x \in S : \A y \in S : ~ (<<y, x>> \in OpToRel(<, Nat))
  BY NatLessThanWellFounded, WFMin
<1>2. PICK x \in S : \A y \in S : ~ (<<y, x>> \in OpToRel(<, Nat))
  BY <1>1
<1>3. \A y \in S : ~(y < x)
  BY <1>2 DEF OpToRel
<1>4. \A y \in S : x <= y
  BY <1>3
<1>5. QED
  BY <1>4 DEF Min

-----------------------------------------------------------------------------
\* Facts about counting.

-----------------------------------------------------------------------------
\* The probe's reader.

\* The inductive invariant.

Counting == [position : Nat, part : Nat]

ReaderTyped ==
  /\ edge \in [live : BOOLEAN, first : Nat, next : Nat]
  /\ mode \in Mode
  /\ reading \in [at : {"playlist", "media", "refresh", "done", "failed"}, empty : BOOLEAN]
  /\ baseline \in Nat /\ after \in Int /\ nextSequence \in Nat
  /\ rebase \in BOOLEAN /\ begun \in BOOLEAN
  /\ covered \subseteq Counting
  /\ DOMAIN flights \subseteq Nat

\* The baseline moves only while nothing is counted, and the cursor of a reader of
\* one request at a time is not before it.
BaselineSettles ==
  /\ reading.at \in {"playlist", "refresh"} => ~begun
  /\ ~begun => covered = {}
  /\ begun /\ ~Pipelined => after >= baseline

\* A count stands at the place of its part.
Placed(counted, base) ==
  \A c \in counted : c.part = base + c.position /\ c.position \in 0 .. Expected - 1

Counts == samples = Cardinality(covered) /\ Placed(covered, baseline)

\* Every part the pipeline has passed is asked for, as long as none has come; once
\* one has, those of the window are asked for or counted.
AskedFor(asked, base, next) == \A p \in Nat : base <= p /\ p < next => p \in asked
AskedOrCounted(asked, counted, base, next) ==
  \A r \in 0 .. Expected - 1 : base + r < next =>
    base + r \in asked \/ \E c \in counted : c.position = r

NothingLeftOut ==
  reading.at \in {"media", "refresh"} /\ Pipelined =>
    /\ ~begun => AskedFor(DOMAIN flights, baseline, nextSequence)
    /\ AskedOrCounted(DOMAIN flights, covered, baseline, nextSequence)

ReaderInv == ReaderTyped /\ BaselineSettles /\ Counts /\ NothingLeftOut

-----------------------------------------------------------------------------
\* Facts about the least and the greatest.

LEMMA ReaderConstants ==
  /\ Expected \in Nat \ {0} /\ Depth \in Nat \ {0} /\ Aggregate \in Nat \ {0}
  /\ EdgeKeeps \in Nat \ {0}
BY ReaderAssumption

-----------------------------------------------------------------------------
\* Facts about counting.

LEMMA PlacedFinite ==
  ASSUME NEW base \in Nat, NEW C \in SUBSET Counting, Placed(C, base)
  PROVE  IsFiniteSet(C)
<1> DEFINE f == [c \in C |-> c.position]
<1>1. f \in [C -> 0 .. Expected - 1]
  BY DEF Placed
<1>2. \A c, d \in C : f[c] = f[d] => c = d
  BY DEF Placed, Counting
<1>3. f \in Injection(C, 0 .. Expected - 1)
  BY <1>1, <1>2 DEF Injection, IsInjective
<1>4. IsFiniteSet(0 .. Expected - 1)
  BY ReaderConstants, FS_Interval
<1>5. QED
  BY <1>3, <1>4, FS_Injection

LEMMA CountedPlaced ==
  ASSUME NEW base \in Nat, NEW parts \in SUBSET Nat, \A q \in parts : q >= base
  PROVE  Counted(parts, base) \in SUBSET Counting /\ Placed(Counted(parts, base), base)
BY ReaderConstants DEF Counted, Counting, Placed

\* What is inserted is counted once.
LEMMA Inserted ==
  ASSUME NEW base \in Nat, covered \in SUBSET Counting, Placed(covered, base),
         samples = Cardinality(covered),
         NEW C \in SUBSET Counting, Placed(C, base), Insert(C)
  PROVE  /\ covered' \in SUBSET Counting /\ Placed(covered', base)
         /\ samples' = Cardinality(covered')
         /\ covered \subseteq covered'
         /\ \A c \in C : \E d \in covered' : d.position = c.position
<1>1. New(C) \in SUBSET C /\ New(C) \cap covered = {}
  BY DEF New
<1>2. covered' = covered \cup New(C) /\ samples' = samples + Cardinality(New(C))
  BY DEF Insert
<1>3. IsFiniteSet(covered) /\ IsFiniteSet(New(C))
  BY <1>1, PlacedFinite, FS_Subset
<1>4. Cardinality(covered') = Cardinality(covered) + Cardinality(New(C))
  <2>1. /\ Cardinality(covered \cup New(C)) =
             Cardinality(covered) + Cardinality(New(C)) - Cardinality(covered \cap New(C))
    BY <1>3, FS_Union
  <2>2. Cardinality(covered \cap New(C)) = 0
    BY <1>1, FS_EmptySet
  <2>3. Cardinality(covered) \in Nat /\ Cardinality(New(C)) \in Nat
    BY <1>3, FS_CardinalityType
  <2>4. QED
    BY <1>2, <2>1, <2>2, <2>3
<1>5. \A c \in C : \E d \in covered' : d.position = c.position
  BY <1>2 DEF New
<1>6. Placed(covered', base)
  BY <1>1, <1>2 DEF Placed
<1>7. QED
  BY <1>1, <1>2, <1>4, <1>5, <1>6

-----------------------------------------------------------------------------
\* Each step keeps the invariant.

\* A step that counts nothing and moves neither the baseline nor the requests.
LEMMA QuietKeeps ==
  ASSUME ReaderInv, UNCHANGED <<mode, cursor, coverage, nextSequence>>,
         edge' \in [live : BOOLEAN, first : Nat, next : Nat],
         reading' \in [at : {"playlist", "media", "refresh", "done", "failed"},
                       empty : BOOLEAN],
         \/ reading'.at \in {reading.at, "done", "failed"}
         \/ reading.at = "media" /\ reading'.at = "refresh" /\ ~begun,
         DOMAIN flights' = DOMAIN flights
  PROVE  ReaderInv'
<1> USE DEF ReaderInv, cursor, coverage
<1>1. ReaderTyped'
  BY DEF ReaderTyped
<1>2. BaselineSettles'
  BY DEF BaselineSettles, Pipelined
<1>3. Counts'
  BY DEF Counts
<1>4. NothingLeftOut'
  BY DEF NothingLeftOut, Pipelined
<1>5. QED
  BY <1>1, <1>2, <1>3, <1>4

\* Nothing is counted yet: any baseline will do, if all requests from it are made.
LEMMA MovesBaseline ==
  ASSUME ReaderInv, ~begun, UNCHANGED <<edge, mode, begun, coverage>>,
         baseline' \in Nat, nextSequence' \in Nat, after' \in Int, rebase' \in BOOLEAN,
         reading' = [at |-> "media", empty |-> reading.empty],
         DOMAIN flights' \subseteq Nat,
         Pipelined => AskedFor(DOMAIN flights', baseline', nextSequence')
  PROVE  ReaderInv'
<1> USE DEF ReaderInv, coverage
<1>1. ReaderTyped'
  BY DEF ReaderTyped
<1>2. covered = {} /\ covered' = {} /\ samples' = samples /\ begun' = begun
  BY DEF BaselineSettles
<1>3. BaselineSettles'
  BY <1>2 DEF BaselineSettles
<1>4. Counts'
  BY <1>2 DEF Counts, Placed
<1>5. Pipelined => AskedOrCounted(DOMAIN flights', covered', baseline', nextSequence')
  <2>1. SUFFICES ASSUME Pipelined, NEW r \in 0 .. Expected - 1,
                        baseline' + r < nextSequence'
                 PROVE  baseline' + r \in DOMAIN flights'
    BY DEF AskedOrCounted
  <2>2. r \in Nat
    BY ReaderConstants
  <2>3. PICK base \in Nat : base = baseline'
    OBVIOUS
  <2>4. base + r \in Nat /\ base <= base + r
    BY <2>2
  <2>5. QED
    BY <2>1, <2>3, <2>4 DEF AskedFor
<1>6. NothingLeftOut'
  BY <1>5 DEF NothingLeftOut, Pipelined
<1>7. QED
  BY <1>1, <1>3, <1>4, <1>6

\* Parts are counted by a reader of one request at a time.
LEMMA CountsParts ==
  ASSUME ReaderInv, ~Pipelined, UNCHANGED <<edge, mode, reading, nextSequence, flights>>,
         NEW q \in Nat, NEW parts \in SUBSET Nat, \A p \in parts : p >= q,
         q >= IF begun THEN baseline ELSE q,
         baseline' = IF begun THEN baseline ELSE q,
         begun' = TRUE, rebase' = FALSE, after' \in Int, after' >= q,
         reading.at = "media", Insert(Counted(parts, baseline'))
  PROVE  ReaderInv'
<1> USE DEF ReaderInv
<1>1. baseline' \in Nat /\ q >= baseline' /\ after' >= baseline'
  BY DEF ReaderTyped
<1>2. covered \in SUBSET Counting /\ Placed(covered, baseline') /\ samples = Cardinality(covered)
  BY DEF ReaderTyped, BaselineSettles, Counts, Placed
<1>3. PICK base \in Nat : base = baseline'
  BY <1>1
<1>4. \A p \in parts : p >= base
  BY <1>1, <1>3
<1>5. Counted(parts, base) \in SUBSET Counting /\ Placed(Counted(parts, base), base)
  BY <1>4, CountedPlaced
<1>6. covered' \in SUBSET Counting /\ Placed(covered', base) /\ samples' = Cardinality(covered')
  BY <1>2, <1>3, <1>5, Inserted
<1>7. ReaderTyped'
  BY <1>1, <1>6 DEF ReaderTyped
<1>8. BaselineSettles'
  BY <1>1 DEF BaselineSettles
<1>9. Counts'
  BY <1>3, <1>6 DEF Counts
<1>10. NothingLeftOut'
  BY DEF NothingLeftOut, Pipelined
<1>11. QED
  BY <1>7, <1>8, <1>9, <1>10

LEMMA ToFacts ==
  ASSUME ReaderTyped, NEW step \in {"playlist", "media", "refresh", "done", "failed"}, To(step)
  PROVE  /\ reading' = [at |-> step, empty |-> reading.empty] /\ reading'.at = step
         /\ reading' \in [at : {"playlist", "media", "refresh", "done", "failed"},
                          empty : BOOLEAN]
BY DEF To, ReaderTyped

LEMMA GoLiveKeeps == ASSUME ReaderInv, GoLive PROVE ReaderInv'
<1>1. edge' \in [live : BOOLEAN, first : Nat, next : Nat]
  BY DEF GoLive
<1>2. UNCHANGED <<mode, reading, cursor, coverage, nextSequence, flights>>
  BY DEF GoLive
<1>3. reading \in [at : {"playlist", "media", "refresh", "done", "failed"}, empty : BOOLEAN]
  BY DEF ReaderInv, ReaderTyped
<1>4. QED
  BY <1>1, <1>2, <1>3, QuietKeeps

LEMMA PublishPartKeeps == ASSUME ReaderInv, PublishPart PROVE ReaderInv'
<1>1. edge \in [live : BOOLEAN, first : Nat, next : Nat]
  BY DEF ReaderInv, ReaderTyped
<1>2. Max({edge.first, edge.next + 1 - EdgeKeeps}) \in Nat
  <2>1. edge.first \in Int /\ edge.first >= 0 /\ edge.next + 1 - EdgeKeeps \in Int
    BY <1>1, ReaderConstants
  <2>2. PICK a \in Int, b \in Int : a = edge.first /\ b = edge.next + 1 - EdgeKeeps
    BY <2>1
  <2>3. Max({a, b}) \in {a, b} /\ Max({a, b}) >= a
    BY MaxOfTwo
  <2>4. QED
    BY <2>1, <2>2, <2>3
<1>3. edge' \in [live : BOOLEAN, first : Nat, next : Nat]
  <2>1. edge' = [edge EXCEPT !.next = edge.next + 1,
                             !.first = Max({edge.first, edge.next + 1 - EdgeKeeps})]
    BY DEF PublishPart
  <2>2. edge.next + 1 \in Nat
    BY <1>1
  <2>3. QED
    BY <1>1, <1>2, <2>1, <2>2
<1>4. UNCHANGED <<mode, reading, cursor, coverage, nextSequence, flights>>
  BY DEF PublishPart
<1>5. reading \in [at : {"playlist", "media", "refresh", "done", "failed"}, empty : BOOLEAN]
  BY DEF ReaderInv, ReaderTyped
<1>6. QED
  BY <1>3, <1>4, <1>5, QuietKeeps

\* The fate of requests and of the connection.
LEMMA FatesKeep ==
  ASSUME ReaderInv,
         \/ \E q \in DOMAIN flights : Answer(q)
         \/ Break \/ RefreshOnNewConnection \/ UNCHANGED readerVars
  PROVE  ReaderInv'
<1>1. /\ DOMAIN flights' = DOMAIN flights
      /\ UNCHANGED <<edge, mode, reading, cursor, coverage, nextSequence>>
  <2>1. CASE \E q \in DOMAIN flights : Answer(q)
    BY <2>1 DEF Answer
  <2>2. CASE Break
    BY <2>2 DEF Break, Lost
  <2>3. CASE RefreshOnNewConnection
    BY <2>3 DEF RefreshOnNewConnection, Lost
  <2>4. CASE UNCHANGED readerVars
    BY <2>4 DEF readerVars, cursor, coverage
  <2>5. QED
    BY <2>1, <2>2, <2>3, <2>4
<1>2. /\ edge \in [live : BOOLEAN, first : Nat, next : Nat]
      /\ reading \in [at : {"playlist", "media", "refresh", "done", "failed"}, empty : BOOLEAN]
  BY DEF ReaderInv, ReaderTyped
<1>3. QED
  BY <1>1, <1>2, QuietKeeps

\* The probe stops, gives up, or goes back to the playlist.
LEMMA TurnsKeep ==
  ASSUME ReaderInv, Stop \/ NoPartYet \/ GiveUp \/ Finished
  PROVE  ReaderInv'
<1>1. /\ UNCHANGED <<edge, mode, cursor, coverage, nextSequence, flights>>
      /\ \/ To("done") \/ To("failed")
         \/ To("refresh") /\ reading.at = "media" /\ ~begun
  BY DEF Stop, NoPartYet, GiveUp, Finished
<1>2. /\ reading' \in [at : {"playlist", "media", "refresh", "done", "failed"},
                       empty : BOOLEAN]
      /\ \/ reading'.at \in {"done", "failed"}
         \/ reading'.at = "refresh" /\ reading.at = "media" /\ ~begun
  BY <1>1, ToFacts DEF ReaderInv
<1>3. edge \in [live : BOOLEAN, first : Nat, next : Nat]
  BY DEF ReaderInv, ReaderTyped
<1>4. QED
  BY <1>1, <1>2, <1>3, QuietKeeps

LEMMA RefreshedNatural == ASSUME ReaderInv PROVE Refreshed \in Nat /\ Refreshed >= baseline
BY DEF ReaderInv, ReaderTyped, Refreshed, HasParts

LEMMA ReadPlaylistKeeps == ASSUME ReaderInv, ReadPlaylist PROVE ReaderInv'
<1>1. CASE ~edge.live
  <2>1. /\ UNCHANGED <<edge, mode, cursor, coverage, nextSequence, flights>>
        /\ reading' = [reading EXCEPT !.empty = TRUE]
    BY <1>1 DEF ReadPlaylist
  <2>2. /\ edge \in [live : BOOLEAN, first : Nat, next : Nat]
        /\ reading \in [at : {"playlist", "media", "refresh", "done", "failed"}, empty : BOOLEAN]
    BY DEF ReaderInv, ReaderTyped
  <2>3. /\ reading' \in [at : {"playlist", "media", "refresh", "done", "failed"}, empty : BOOLEAN]
        /\ reading'.at = reading.at
    BY <2>1, <2>2
  <2>4. QED
    BY <2>1, <2>2, <2>3, QuietKeeps
<1>2. CASE edge.live
  <2>1. reading.at = "playlist" /\ ~begun
    BY DEF ReadPlaylist, ReaderInv, BaselineSettles
  <2>2. /\ UNCHANGED <<edge, mode, begun, coverage>>
        /\ baseline' \in {edge.first, edge.next} /\ rebase' = ~HasParts
        /\ after' = baseline' - 1 /\ nextSequence' = baseline' + Depth
        /\ flights' = IF Pipelined THEN Burst(baseline') ELSE flights
        /\ To("media")
    BY <1>2 DEF ReadPlaylist
  <2>3. PICK base \in Nat : base = baseline'
    BY <2>2 DEF ReaderInv, ReaderTyped
  <2>4. /\ DOMAIN Burst(base) \subseteq Nat
        /\ AskedFor(DOMAIN Burst(base), base, base + Depth)
    BY ReaderConstants DEF Burst, AskedFor
  <2>5. nextSequence' \in Nat /\ after' \in Int /\ rebase' \in BOOLEAN
    <3>1. nextSequence' = base + Depth /\ after' = base - 1
      BY <2>2, <2>3
    <3>2. base + Depth \in Nat /\ base - 1 \in Int
      BY ReaderConstants
    <3>3. rebase' \in BOOLEAN
      BY <2>2
    <3>4. QED
      BY <3>1, <3>2, <3>3
  <2>6. /\ DOMAIN flights' \subseteq Nat
        /\ Pipelined => AskedFor(DOMAIN flights', baseline', nextSequence')
    BY <2>2, <2>3, <2>4 DEF ReaderInv, ReaderTyped
  <2>7. reading' = [at |-> "media", empty |-> reading.empty]
    BY <2>2, ToFacts DEF ReaderInv
  <2>8. QED
    BY <2>1, <2>2, <2>3, <2>5, <2>6, <2>7, MovesBaseline
<1>3. QED
  BY <1>1, <1>2

LEMMA RefreshBaselineKeeps == ASSUME ReaderInv, RefreshBaseline PROVE ReaderInv'
<1>1. ~Pipelined /\ ~begun
  BY DEF RefreshBaseline, ReaderInv, BaselineSettles
<1>2. /\ UNCHANGED <<edge, mode, begun, coverage, nextSequence, flights>> /\ To("media")
      /\ baseline' \in {Refreshed, baseline} /\ after' \in {Refreshed - 1, after}
      /\ rebase' \in {~HasParts, rebase}
  BY DEF RefreshBaseline
<1>3. baseline' \in Nat /\ after' \in Int /\ rebase' \in BOOLEAN
  <2>1. baseline' \in Nat /\ after' \in Int
    BY <1>2, RefreshedNatural DEF ReaderInv, ReaderTyped
  <2>2. rebase' \in BOOLEAN
    BY <1>2 DEF ReaderInv, ReaderTyped
  <2>3. QED
    BY <2>1, <2>2
<1>4. nextSequence' \in Nat /\ DOMAIN flights' \subseteq Nat
  BY <1>2 DEF ReaderInv, ReaderTyped
<1>5. reading' = [at |-> "media", empty |-> reading.empty]
  BY <1>2, ToFacts DEF ReaderInv
<1>6. QED
  BY <1>1, <1>2, <1>3, <1>4, <1>5, MovesBaseline

LEMMA ReadFailKeeps ==
  ASSUME ReaderInv, To("failed"),
         UNCHANGED <<edge, mode, cursor, coverage, nextSequence, flights>>
  PROVE  ReaderInv'
<1>1. /\ reading' \in [at : {"playlist", "media", "refresh", "done", "failed"}, empty : BOOLEAN]
      /\ reading'.at = "failed"
  BY ToFacts DEF ReaderInv
<1>2. edge \in [live : BOOLEAN, first : Nat, next : Nat]
  BY DEF ReaderInv, ReaderTyped
<1>3. QED
  BY <1>1, <1>2, QuietKeeps

LEMMA ReadPartKeeps == ASSUME ReaderInv, NEW q \in 0 .. MaxPart, ReadPart(q) PROVE ReaderInv'
<1>1. CASE ~begun /\ q # baseline /\ ~rebase
  BY <1>1, ReadFailKeeps DEF ReadPart
<1>2. CASE ~(~begun /\ q # baseline /\ ~rebase)
  <2>1. /\ ~Pipelined /\ reading.at = "media"
        /\ UNCHANGED <<edge, mode, reading, nextSequence, flights>>
        /\ baseline' = IF begun THEN baseline ELSE q
        /\ begun' = TRUE /\ rebase' = FALSE /\ after' = q
        /\ Insert(Counted({q}, baseline'))
    BY <1>2 DEF ReadPart, Follow, Pipelined
  <2>2. q \in Nat
    BY ReaderAssumption
  <2>3. q >= after + 1
    <3>1. PICK a \in Int, b \in Int : a = after + 1 /\ b = edge.first
      BY DEF ReaderInv, ReaderTyped
    <3>2. Max({a, b}) >= a
      BY MaxOfTwo
    <3>3. q = after + 1 \/ q = Max({a, b})
      BY <3>1 DEF ReadPart
    <3>4. QED
      BY <2>2, <3>1, <3>2, <3>3
  <2>4. q >= IF begun THEN baseline ELSE q
    BY <2>1, <2>2, <2>3 DEF ReaderInv, ReaderTyped, BaselineSettles
  <2>5. {q} \in SUBSET Nat /\ \A p \in {q} : p >= q
    BY <2>2
  <2>6. after' \in Int /\ after' >= q
    BY <2>1, <2>2
  <2>7. QED
    BY <2>1, <2>2, <2>4, <2>5, <2>6, CountsParts
<1>3. QED
  BY <1>1, <1>2

LEMMA ReadPartsKeeps ==
  ASSUME ReaderInv, NEW q \in 0 .. MaxPart, ReadParts(q) PROVE ReaderInv'
<1>1. CASE q # after + 1 /\ ~(rebase /\ ~begun)
  BY <1>1, ReadFailKeeps DEF ReadParts
<1>2. CASE ~(q # after + 1 /\ ~(rebase /\ ~begun))
  <2>1. /\ ~Pipelined /\ reading.at = "media"
        /\ UNCHANGED <<edge, mode, reading, nextSequence, flights>>
        /\ baseline' = IF begun THEN baseline ELSE q
        /\ begun' = TRUE /\ rebase' = FALSE /\ after' = q + Aggregate - 1
        /\ Insert(Counted(q .. q + Aggregate - 1, baseline'))
    BY <1>2 DEF ReadParts, Follow, Pipelined
  <2>2. q \in Nat
    BY ReaderAssumption
  <2>3. begun => q = after + 1
    BY <1>2
  <2>4. q >= IF begun THEN baseline ELSE q
    BY <2>1, <2>2, <2>3 DEF ReaderInv, ReaderTyped, BaselineSettles
  <2>5. /\ q .. q + Aggregate - 1 \in SUBSET Nat
        /\ \A p \in q .. q + Aggregate - 1 : p >= q
    BY <2>2, ReaderConstants
  <2>6. after' \in Int /\ after' >= q
    BY <2>1, <2>2, ReaderConstants
  <2>7. QED
    BY <2>1, <2>2, <2>4, <2>5, <2>6, CountsParts
<1>3. QED
  BY <1>1, <1>2

\* What the pipeline asks for next, in the place of q.
LEMMA Scheduled ==
  ASSUME ReaderInv, NEW q, NEW count, NEW from \in Nat, NEW request,
         Schedule(q, count, from, request)
  PROVE  /\ DOMAIN flights' \in SUBSET Nat /\ nextSequence' \in Nat
         /\ (DOMAIN flights) \ {q} \subseteq DOMAIN flights'
         /\ nextSequence' >= from
         /\ \A p \in Nat : from <= p /\ p < nextSequence' => p \in DOMAIN flights'
<1>1. DOMAIN flights \subseteq Nat
  BY DEF ReaderInv, ReaderTyped
<1>2. CASE count < Expected
  <2>1. DOMAIN flights' = ((DOMAIN flights) \ {q}) \cup {from} /\ nextSequence' = from + 1
    BY <1>2 DEF Schedule, With, Forget
  <2>2. QED
    BY <1>1, <2>1
<1>3. CASE ~(count < Expected)
  <2>1. DOMAIN flights' = (DOMAIN flights) \ {q} /\ nextSequence' = from
    BY <1>3 DEF Schedule, Forget
  <2>2. QED
    BY <1>1, <2>1
<1>4. QED
  BY <1>2, <1>3

LEMMA TakeMissingKeeps ==
  ASSUME ReaderInv, NEW q \in DOMAIN flights, TakeMissing(q) PROVE ReaderInv'
<1>1. DOMAIN flights' = DOMAIN flights /\ UNCHANGED <<edge, mode, cursor, coverage, nextSequence>>
  <2>1. CASE begun
    BY <2>1 DEF TakeMissing, With, Forget
  <2>2. CASE ~begun
    BY <2>2 DEF TakeMissing
  <2>3. QED
    BY <2>1, <2>2
<1>2. /\ edge \in [live : BOOLEAN, first : Nat, next : Nat]
      /\ reading \in [at : {"playlist", "media", "refresh", "done", "failed"}, empty : BOOLEAN]
  BY DEF ReaderInv, ReaderTyped
<1>3. CASE begun
  <2>1. reading' = reading
    BY <1>3 DEF TakeMissing
  <2>2. QED
    BY <1>1, <1>2, <2>1, QuietKeeps
<1>4. CASE ~begun
  <2>1. To("refresh") /\ reading.at = "media"
    BY <1>4 DEF TakeMissing, Running
  <2>2. /\ reading' \in [at : {"playlist", "media", "refresh", "done", "failed"}, empty : BOOLEAN]
        /\ reading'.at = "refresh"
    BY <2>1, ToFacts DEF ReaderInv
  <2>3. QED
    BY <1>1, <1>2, <1>4, <2>1, <2>2, QuietKeeps
<1>5. QED
  BY <1>3, <1>4

LEMMA RefreshPipelineKeeps ==
  ASSUME ReaderInv, NEW q \in DOMAIN flights, RefreshPipeline(q) PROVE ReaderInv'
<1>1. Pipelined /\ ~begun /\ UNCHANGED <<edge, mode, rebase, begun, after, coverage>>
  BY DEF RefreshPipeline, ReaderInv, BaselineSettles
<1>2. /\ baseline \in Nat /\ nextSequence \in Nat /\ DOMAIN flights \subseteq Nat
      /\ after \in Int /\ rebase \in BOOLEAN
  BY DEF ReaderInv, ReaderTyped
<1>3. \A p \in Nat : baseline <= p /\ p < nextSequence => p \in DOMAIN flights
  BY <1>1 DEF RefreshPipeline, ReaderInv, NothingLeftOut, AskedFor
<1>4. PICK base \in Nat :
        /\ base >= baseline
        /\ baseline' = base /\ To("media")
        /\ IF q >= base THEN /\ flights' = With(Forget(q), q, Request)
                            /\ nextSequence' = Max({nextSequence, base})
           ELSE Schedule(q, Received, Max({nextSequence, base}), Request)
  <2>1. baseline >= baseline
    BY <1>2
  <2>2. QED
    BY <1>2, <2>1, RefreshedNatural DEF RefreshPipeline
<1>5. PICK next \in Nat : next = nextSequence
  BY <1>2
<1>6. PICK from : from = Max({next, base})
  OBVIOUS
<1>7. from \in Nat /\ (from = next \/ from = base) /\ from >= base
  BY <1>6, MaxOfTwo
<1>8. /\ baseline' = base /\ To("media")
      /\ IF q >= base THEN flights' = With(Forget(q), q, Request) /\ nextSequence' = from
         ELSE Schedule(q, Received, from, Request)
  BY <1>4, <1>5, <1>6
<1>9. /\ DOMAIN flights' \subseteq Nat /\ nextSequence' \in Nat
      /\ AskedFor(DOMAIN flights', base, nextSequence')
  <2>1. CASE q >= base
    <3>1. DOMAIN flights' = DOMAIN flights /\ nextSequence' = from
      BY <1>8, <2>1 DEF With, Forget
    <3>2. QED
      BY <1>2, <1>3, <1>4, <1>5, <1>7, <3>1 DEF AskedFor
  <2>2. CASE ~(q >= base)
    <3>1. PICK count, request : count = Received /\ request = Request
      OBVIOUS
    <3>2. Schedule(q, count, from, request)
      BY <1>8, <2>2, <3>1
    <3>3. /\ DOMAIN flights' \in SUBSET Nat /\ nextSequence' \in Nat
          /\ (DOMAIN flights) \ {q} \subseteq DOMAIN flights'
          /\ \A p \in Nat : from <= p /\ p < nextSequence' => p \in DOMAIN flights'
      BY <1>7, <3>2, Scheduled
    <3>4. \A p \in Nat : base <= p /\ p < nextSequence' => p \in DOMAIN flights'
      <4>1. SUFFICES ASSUME NEW p \in Nat, base <= p, p < nextSequence', p < from
                     PROVE  p \in DOMAIN flights'
        BY <1>7, <3>3
      <4>2. p < next /\ baseline <= p
        BY <1>2, <1>4, <1>7, <4>1
      <4>3. p \in DOMAIN flights /\ p # q
        BY <1>2, <1>3, <1>5, <2>2, <4>1, <4>2
      <4>4. QED
        BY <3>3, <4>3
    <3>5. QED
      BY <3>3, <3>4 DEF AskedFor
  <2>3. QED
    BY <2>1, <2>2
<1>10. reading' = [at |-> "media", empty |-> reading.empty]
  BY <1>8, ToFacts DEF ReaderInv
<1>11. baseline' \in Nat /\ after' \in Int /\ rebase' \in BOOLEAN
  BY <1>1, <1>2, <1>8
<1>12. AskedFor(DOMAIN flights', baseline', nextSequence')
  BY <1>8, <1>9
<1>13. QED
  BY <1>1, <1>9, <1>10, <1>11, <1>12, MovesBaseline

\* A part of the pipeline arrives.
LEMMA TakePartKeeps == ASSUME ReaderInv, NEW q \in DOMAIN flights, TakePart(q) PROVE ReaderInv'
<1>1. /\ Pipelined /\ reading.at = "media" /\ begun' = TRUE
      /\ UNCHANGED <<edge, mode, baseline, rebase, after>>
  BY DEF TakePart, Running
<1>2. PICK base \in Nat : base = baseline /\ base = baseline'
  BY <1>1 DEF ReaderInv, ReaderTyped
<1>3. PICK next \in Nat : next = nextSequence
  BY DEF ReaderInv, ReaderTyped
<1>4. q \in Nat
  BY DEF ReaderInv, ReaderTyped
<1>5. BaselineSettles'
  <2>1. reading'.at \in {"media", "failed"}
    BY ToFacts DEF TakePart, Running, ReaderInv
  <2>2. QED
    BY <1>1, <2>1 DEF BaselineSettles, Pipelined
<1>6. CASE q < base
  <2>1. To("failed") /\ UNCHANGED <<coverage, nextSequence, flights>>
    BY <1>2, <1>6 DEF TakePart
  <2>2. reading'.at = "failed" /\ reading' \in
          [at : {"playlist", "media", "refresh", "done", "failed"}, empty : BOOLEAN]
    BY <2>1, ToFacts DEF ReaderInv
  <2>3. ReaderTyped'
    BY <1>1, <2>1, <2>2 DEF ReaderInv, ReaderTyped, coverage
  <2>4. Counts'
    BY <1>1, <2>1 DEF ReaderInv, Counts, coverage
  <2>5. NothingLeftOut'
    BY <2>2 DEF NothingLeftOut
  <2>6. QED
    BY <1>5, <2>3, <2>4, <2>5 DEF ReaderInv
<1>7. CASE ~(q < base)
  <2>1. /\ Insert(Counted({q}, base))
        /\ \/ /\ reading' = reading
              /\ \E request : Schedule(q, Cardinality(covered'), nextSequence, request)
           \/ To("failed") /\ UNCHANGED <<nextSequence, flights>>
    <3>1. IF q < base THEN TRUE
          ELSE /\ Insert(Counted({q}, base))
               /\ \/ /\ Schedule(q, Cardinality(covered'), nextSequence, Request)
                     /\ reading' = reading
                  \/ /\ Schedule(q, Cardinality(covered'), nextSequence, "sent")
                     /\ reading' = reading
                  \/ To("failed") /\ UNCHANGED <<nextSequence, flights>>
      BY <1>2 DEF TakePart
    <3>2. QED
      BY <1>7, <3>1
  <2>4. /\ covered \in SUBSET Counting /\ Placed(covered, base)
        /\ samples = Cardinality(covered)
    BY <1>2 DEF ReaderInv, ReaderTyped, Counts
  <2>5. /\ Counted({q}, base) \in SUBSET Counting
        /\ Placed(Counted({q}, base), base)
    BY <1>4, <1>7, CountedPlaced
  <2>6. /\ covered' \in SUBSET Counting /\ Placed(covered', base)
        /\ samples' = Cardinality(covered') /\ covered \subseteq covered'
        /\ \A c \in Counted({q}, base) : \E d \in covered' : d.position = c.position
    BY <2>1, <2>4, <2>5, Inserted
  <2>7. Counts'
    BY <1>2, <2>6 DEF Counts
  <2>8. CASE To("failed") /\ UNCHANGED <<nextSequence, flights>>
    <3>1. reading'.at = "failed" /\ reading' \in
            [at : {"playlist", "media", "refresh", "done", "failed"}, empty : BOOLEAN]
      BY <2>8, ToFacts DEF ReaderInv
    <3>2. ReaderTyped'
      BY <1>1, <2>6, <2>8, <3>1 DEF ReaderInv, ReaderTyped
    <3>3. NothingLeftOut'
      BY <3>1 DEF NothingLeftOut
    <3>4. QED
      BY <1>5, <2>7, <3>2, <3>3 DEF ReaderInv
  <2>9. ASSUME reading' = reading, NEW request,
               Schedule(q, Cardinality(covered'), nextSequence, request)
        PROVE  ReaderInv'
    <3>1. PICK count : count = Cardinality(covered')
      OBVIOUS
    <3>2. Schedule(q, count, next, request)
      BY <1>3, <2>9, <3>1
    <3>3. /\ DOMAIN flights' \in SUBSET Nat /\ nextSequence' \in Nat
          /\ (DOMAIN flights) \ {q} \subseteq DOMAIN flights'
          /\ \A p \in Nat : next <= p /\ p < nextSequence' => p \in DOMAIN flights'
      BY <3>2, Scheduled
    <3>4. ReaderTyped'
      BY <1>1, <2>6, <2>9, <3>3 DEF ReaderInv, ReaderTyped
    <3>5. AskedOrCounted(DOMAIN flights', covered', base, nextSequence')
      <4>1. SUFFICES ASSUME NEW r \in 0 .. Expected - 1, base + r < nextSequence'
                     PROVE  \/ base + r \in DOMAIN flights'
                            \/ \E c \in covered' : c.position = r
        BY DEF AskedOrCounted
      <4>2. r \in Nat /\ r < Expected /\ base + r \in Nat
        BY ReaderConstants
      <4>3. CASE next <= base + r
        BY <3>3, <4>1, <4>2, <4>3
      <4>4. CASE base + r < next /\ base + r # q
        <5>1. base + r \in DOMAIN flights \/ \E c \in covered : c.position = r
          BY <1>1, <1>2, <1>3, <4>4 DEF ReaderInv, NothingLeftOut, AskedOrCounted
        <5>2. QED
          BY <2>6, <3>3, <4>4, <5>1
      <4>5. CASE base + r = q
        <5>1. q - base = r
          BY <4>2, <4>5
        <5>2. [position |-> q - base, part |-> q] \in Counted({q}, base)
          BY <4>2, <5>1 DEF Counted
        <5>3. PICK d \in covered' : d.position = q - base
          BY <2>6, <5>2
        <5>4. QED
          BY <5>1, <5>3
      <4>6. QED
        BY <4>2, <4>3, <4>4, <4>5
    <3>6. NothingLeftOut'
      BY <1>1, <1>2, <3>5 DEF NothingLeftOut
    <3>7. QED
      BY <1>5, <2>7, <3>4, <3>6 DEF ReaderInv
  <2>10. QED
    BY <2>1, <2>8, <2>9
<1>8. QED
  BY <1>6, <1>7

\* A new connection asks from the first position that is not counted.
LEMMA TakeFailureKeeps ==
  ASSUME ReaderInv, NEW q \in DOMAIN flights, TakeFailure(q) PROVE ReaderInv'
<1> DEFINE open == {r \in 0 .. Expected : \A c \in covered : c.position # r}
<1>1. /\ Pipelined /\ reading.at = "media"
      /\ UNCHANGED <<edge, mode, reading, cursor, coverage>>
  BY DEF TakeFailure, Running
<1>2. PICK base \in Nat : base = baseline /\ base = baseline'
  BY <1>1 DEF ReaderInv, ReaderTyped, cursor
<1>3. open \subseteq Nat /\ Expected \in open
  BY ReaderConstants DEF ReaderInv, Counts, Placed
<1>4. PICK least \in Nat : least = Min(open) /\ least \in open /\ \A y \in open : least <= y
  BY <1>3, MinOfNaturals
<1>5. RestartFrom = base + least
  BY <1>2, <1>4 DEF RestartFrom
<1>6. /\ nextSequence' = base + least + Depth
      /\ DOMAIN flights' = base + least .. base + least + Depth - 1
  BY <1>5 DEF TakeFailure
<1>7. nextSequence' \in Nat /\ DOMAIN flights' \subseteq Nat
  BY <1>6, ReaderConstants
<1>8. \A r \in 0 .. Expected - 1 : r < least => \E c \in covered : c.position = r
  <2>1. SUFFICES ASSUME NEW r \in 0 .. Expected - 1, r < least
                 PROVE  r \notin open
    BY ReaderConstants
  <2>2. QED
    BY <1>4, <2>1, ReaderConstants
<1>9. \A p \in Nat : base + least <= p /\ p < nextSequence' => p \in DOMAIN flights'
  BY <1>6, ReaderConstants
<1>10. AskedOrCounted(DOMAIN flights', covered', base, nextSequence')
  <2>1. SUFFICES ASSUME NEW r \in 0 .. Expected - 1, base + r < nextSequence'
                 PROVE  base + r \in DOMAIN flights' \/ \E c \in covered : c.position = r
    BY <1>1 DEF AskedOrCounted, coverage
  <2>2. r \in Nat /\ base + r \in Nat
    BY ReaderConstants
  <2>3. CASE r < least
    BY <1>8, <2>3
  <2>4. CASE ~(r < least)
    <3>1. base + least <= base + r
      BY <2>2, <2>4
    <3>2. QED
      BY <1>9, <2>1, <2>2, <3>1
  <2>5. QED
    BY <2>3, <2>4
<1>11. ~begun => AskedFor(DOMAIN flights', base, nextSequence')
  <2>1. SUFFICES ASSUME covered = {} PROVE AskedFor(DOMAIN flights', base, nextSequence')
    BY DEF ReaderInv, BaselineSettles
  <2>2. 0 \in open
    BY <2>1, ReaderConstants
  <2>3. least = 0
    BY <1>4, <2>2
  <2>4. QED
    BY <1>9, <2>3 DEF AskedFor
<1>12. ReaderTyped'
  BY <1>1, <1>7 DEF ReaderInv, ReaderTyped, cursor, coverage
<1>13. BaselineSettles' /\ Counts'
  BY <1>1 DEF ReaderInv, BaselineSettles, Counts, Pipelined, cursor, coverage
<1>14. NothingLeftOut'
  BY <1>1, <1>2, <1>10, <1>11 DEF NothingLeftOut, cursor
<1>15. QED
  BY <1>12, <1>13, <1>14 DEF ReaderInv

-----------------------------------------------------------------------------
\* The theorem.

LEMMA ReaderStarts == ASSUME ReaderInit PROVE ReaderInv
<1>1. DOMAIN flights = {}
  BY DEF ReaderInit
<1>2. ReaderTyped
  <2>1. after \in Int
    BY DEF ReaderInit
  <2>2. /\ edge \in [live : BOOLEAN, first : Nat, next : Nat]
        /\ reading \in [at : {"playlist", "media", "refresh", "done", "failed"}, empty : BOOLEAN]
    BY DEF ReaderInit
  <2>3. /\ mode \in Mode /\ baseline \in Nat /\ nextSequence \in Nat
        /\ rebase \in BOOLEAN /\ begun \in BOOLEAN
        /\ covered \subseteq Counting /\ DOMAIN flights \subseteq Nat
    BY <1>1 DEF ReaderInit
  <2>4. QED
    BY <2>1, <2>2, <2>3 DEF ReaderTyped
<1>3. BaselineSettles /\ NothingLeftOut
  BY DEF ReaderInit, BaselineSettles, NothingLeftOut
<1>4. Counts
  BY FS_EmptySet DEF ReaderInit, Counts, Placed
<1>5. QED
  BY <1>2, <1>3, <1>4 DEF ReaderInv

LEMMA ReaderSteps == ASSUME ReaderInv, [ReaderNext]_readerVars PROVE ReaderInv'
<1>1. CASE GoLive \/ PublishPart
  BY <1>1, GoLiveKeeps, PublishPartKeeps
<1>2. CASE \/ \E q \in DOMAIN flights : Answer(q)
           \/ Break \/ RefreshOnNewConnection \/ UNCHANGED readerVars
  BY <1>2, FatesKeep
<1>3. CASE ReadPlaylist \/ RefreshBaseline
  BY <1>3, ReadPlaylistKeeps, RefreshBaselineKeeps
<1>4. CASE Stop \/ NoPartYet \/ GiveUp \/ Finished
  BY <1>4, TurnsKeep
<1>5. CASE \E q \in 0 .. MaxPart : ReadPart(q) \/ ReadParts(q)
  BY <1>5, ReadPartKeeps, ReadPartsKeeps
<1>6. CASE \E q \in DOMAIN flights :
             TakePart(q) \/ TakeMissing(q) \/ RefreshPipeline(q) \/ TakeFailure(q)
  BY <1>6, TakePartKeeps, TakeMissingKeeps, RefreshPipelineKeeps, TakeFailureKeeps
<1>7. QED
  BY <1>1, <1>2, <1>3, <1>4, <1>5, <1>6 DEF ReaderNext

\* The report of the probe is about the window: each part is counted once and at its
\* own place, and the pipeline leaves none out that it passed, through new baselines,
\* missing parts and new connections (aep1-48k-probe.rs, lines 3170-3475).
THEOREM WindowStaysRead == ReaderSpec => []WindowIsRead
<1>1. ReaderInit => ReaderInv
  BY ReaderStarts
<1>2. ReaderInv /\ [ReaderNext]_readerVars => ReaderInv'
  BY ReaderSteps
<1>3. ReaderInv => WindowIsRead
  BY DEF ReaderInv, Counts, Placed, NothingLeftOut, AskedOrCounted, WindowIsRead, Received
<1>4. QED
  BY <1>1, <1>2, <1>3, PTL DEF ReaderSpec

-----------------------------------------------------------------------------
\* The histograms.

\* Of two sets of tasks that differ in one.
One(p) == IF p THEN 1 ELSE 0

LEMMA OneMoves ==
  ASSUME NEW S, IsFiniteSet(S), NEW A \in SUBSET S, NEW B \in SUBSET S, NEW t,
         \A q \in S \ {t} : q \in A <=> q \in B
  PROVE  /\ Cardinality(A) \in Nat /\ Cardinality(B) \in Nat
         /\ Cardinality(A) + One(t \in B) = Cardinality(B) + One(t \in A)
<1>1. /\ IsFiniteSet(A) /\ IsFiniteSet(B)
      /\ Cardinality(A) \in Nat /\ Cardinality(B) \in Nat
  BY FS_Subset, FS_CardinalityType
<1>2. PICK C \in SUBSET S : C = A \ {t} /\ C = B \ {t}
  <2>1. A \ {t} = B \ {t}
    OBVIOUS
  <2>2. QED
    BY <2>1
<1>3. Cardinality(A \ {t}) = IF t \in A THEN Cardinality(A) - 1 ELSE Cardinality(A)
  BY <1>1, FS_RemoveElement
<1>4. Cardinality(B \ {t}) = IF t \in B THEN Cardinality(B) - 1 ELSE Cardinality(B)
  BY <1>1, FS_RemoveElement
<1>5. PICK a \in Nat, b \in Nat, c \in Int :
        a = Cardinality(A) /\ b = Cardinality(B) /\ c = Cardinality(C)
  BY <1>1, <1>2, <1>3
<1>6. /\ c = IF t \in A THEN a - 1 ELSE a
      /\ c = IF t \in B THEN b - 1 ELSE b
  BY <1>2, <1>3, <1>4, <1>5
<1>7. a + One(t \in B) = b + One(t \in A)
  BY <1>6 DEF One
<1>8. QED
  BY <1>5, <1>7

-----------------------------------------------------------------------------
\* The histogram.

LEMMA WithinAppend ==
  ASSUME NEW s \in Seq(Nat), NEW d \in Nat, NEW limit \in Nat
  PROVE  /\ Within(s, limit) \in Nat
         /\ Within(Append(s, d), limit) = Within(s, limit) + One(d <= limit)
<1> DEFINE n == Len(s)
           last == n + 1
           S == 1 .. last
           A == {i \in DOMAIN s : s[i] <= limit}
           B == {i \in DOMAIN Append(s, d) : Append(s, d)[i] <= limit}
<1>1. /\ n \in Nat /\ DOMAIN s = 1 .. n /\ DOMAIN Append(s, d) = 1 .. n + 1
      /\ \A i \in 1 .. n : Append(s, d)[i] = s[i]
      /\ Append(s, d)[n + 1] = d
  OBVIOUS
<1>2. IsFiniteSet(S)
  <2>1. last \in Int
    BY <1>1
  <2> HIDE DEF last
  <2>2. QED
    BY <2>1, FS_Interval
<1>3. A \in SUBSET S /\ B \in SUBSET S
  BY <1>1
<1>4. \A i \in S \ {last} : i \in A <=> i \in B
  BY <1>1
<1>5. last \notin A /\ (last \in B <=> d <= limit)
  BY <1>1
<1> HIDE DEF A, B, S, last, n
<1>6. /\ Cardinality(A) \in Nat /\ Cardinality(B) \in Nat
      /\ Cardinality(A) + One(last \in B) = Cardinality(B) + One(last \in A)
  BY <1>2, <1>3, <1>4, OneMoves
<1>7. Cardinality(B) = Cardinality(A) + One(d <= limit)
  BY <1>5, <1>6 DEF One
<1>8. QED
  BY <1>6, <1>7 DEF Within, A, B

LEMMA WithinAll ==
  ASSUME NEW s \in Seq(Nat), NEW limit, \A i \in DOMAIN s : s[i] <= limit
  PROVE  Within(s, limit) = Len(s)
<1>1. PICK n \in Nat : n = Len(s) /\ DOMAIN s = 1 .. n
  OBVIOUS
<1>2. {i \in DOMAIN s : s[i] <= limit} = 1 .. n
  BY <1>1
<1>3. Cardinality(1 .. n) = n
  BY FS_Interval
<1>4. QED
  BY <1>1, <1>2, <1>3 DEF Within

TimingType == [step : {"idle", "count", "max", "buckets"}, duration : Nat,
               left : SUBSET Bounds]
HistogramType == [count : Nat, max : Nat, buckets : [Bounds -> Nat]]
SnapshotType == [step : {"idle", "buckets", "done"}, count : Nat, buckets : [Bounds -> Nat],
                 left : SUBSET Bounds, quiet : BOOLEAN, before : Seq(Nat), percentile : Nat]

HistogramTyped ==
  /\ histogram \in HistogramType
  /\ timing \in [Timer -> TimingType]
  /\ started \in Seq(Nat) /\ recorded \in Seq(Nat)
  /\ snapshot \in SnapshotType

\* The buckets a call has left are those its duration is within, until it counts them.
CallsInOrder ==
  \A t \in Timer :
    /\ timing[t].step \in {"count", "max"} =>
         timing[t].left = {b \in Bounds : timing[t].duration <= b}
    /\ timing[t].step = "buckets" =>
         /\ timing[t].left # {} /\ timing[t].duration <= histogram.max
         /\ \A b \in timing[t].left : timing[t].duration <= b

\* The calls that have raised the count, or a bucket, and have not returned.
PastCount(calls) == {t \in Timer : calls[t].step \in {"max", "buckets"}}
PastBucket(calls, b) ==
  {t \in Timer : calls[t].step # "idle" /\ calls[t].duration <= b /\ b \notin calls[t].left}
UnderWay(calls, b) == {t \in Timer : calls[t].step # "idle" /\ calls[t].duration <= b}

\* Every counter is ahead of the calls that have returned by the calls past it.
HistogramCounts ==
  /\ histogram.count = Len(recorded) + Cardinality(PastCount(timing))
  /\ \A b \in Bounds :
       histogram.buckets[b] = Within(recorded, b) + Cardinality(PastBucket(timing, b))
  /\ \A b \in Nat :
       Within(started, b) = Within(recorded, b) + Cardinality(UnderWay(timing, b))
  /\ \A i \in DOMAIN recorded : recorded[i] <= histogram.max

\* What the report has read is not ahead of the histogram; if it began between two
\* calls it is not behind what was recorded before.
SnapshotKeepsUp ==
  snapshot.step # "idle" =>
    /\ \A b \in Bounds \ snapshot.left : snapshot.buckets[b] <= histogram.buckets[b]
    /\ snapshot.quiet =>
         /\ snapshot.count = Len(snapshot.before) /\ snapshot.count <= Len(recorded)
         /\ \A b \in Bounds :
              /\ Within(snapshot.before, b) <= histogram.buckets[b]
              /\ b \notin snapshot.left =>
                   Within(snapshot.before, b) <= snapshot.buckets[b]

HistogramInv ==
  /\ HistogramTyped /\ CallsInOrder /\ HistogramCounts /\ SnapshotKeepsUp
  /\ PercentileIsTrue

LEMMA HistogramConstants ==
  /\ Bounds \subseteq Nat /\ Durations \subseteq Nat /\ IsFiniteSet(Timer)
  /\ Percentile \in 1 .. 100 /\ Percentile \in Nat
BY HistogramAssumption

LEMMA HistogramStarts == HistogramInit => HistogramInv
<1> SUFFICES ASSUME HistogramInit PROVE HistogramInv
  OBVIOUS
<1> USE HistogramConstants
<1>1. HistogramTyped
  BY DEF HistogramInit, HistogramTyped, HistogramType, TimingType, SnapshotType,
         NotTiming, NoSnapshot
<1>2. CallsInOrder
  BY DEF HistogramInit, CallsInOrder, NotTiming
<1>3. HistogramCounts
  <2>1. /\ PastCount(timing) = {} /\ \A b \in Nat : PastBucket(timing, b) = {}
        /\ \A b \in Nat : UnderWay(timing, b) = {}
    BY DEF HistogramInit, NotTiming, PastCount, PastBucket, UnderWay
  <2>2. Len(recorded) = 0 /\ \A b \in Nat : Within(recorded, b) = 0 /\ Within(started, b) = 0
    <3>1. \A b \in Nat : {i \in DOMAIN <<>> : <<>>[i] <= b} = {}
      OBVIOUS
    <3>2. QED
      BY <3>1, FS_EmptySet DEF HistogramInit, Within
  <2>3. Cardinality({}) = 0
    BY FS_EmptySet
  <2>4. recorded = <<>> /\ histogram.count = 0 /\ \A b \in Bounds : histogram.buckets[b] = 0
    BY DEF HistogramInit
  <2>5. \A i \in DOMAIN recorded : recorded[i] <= histogram.max
    BY <2>4
  <2>6. histogram.count = Len(recorded) + Cardinality(PastCount(timing))
    BY <2>1, <2>2, <2>3, <2>4
  <2>7. ASSUME NEW b \in Bounds
        PROVE  histogram.buckets[b] = Within(recorded, b) + Cardinality(PastBucket(timing, b))
    <3>1. PastBucket(timing, b) = {} /\ b \in Nat
      BY <2>1, HistogramConstants
    <3>2. Cardinality(PastBucket(timing, b)) = 0 /\ Within(recorded, b) = 0
      BY <2>2, <2>3, <3>1
    <3>3. histogram.buckets[b] = 0
      BY <2>4
    <3>4. QED
      BY <3>2, <3>3
  <2>8. ASSUME NEW b \in Nat
        PROVE  Within(started, b) = Within(recorded, b) + Cardinality(UnderWay(timing, b))
    <3>1. Cardinality(UnderWay(timing, b)) = 0
      BY <2>1, <2>3
    <3>2. Within(recorded, b) = 0 /\ Within(started, b) = 0
      BY <2>2
    <3>3. QED
      BY <3>1, <3>2
  <2>9. QED
    BY <2>5, <2>6, <2>7, <2>8 DEF HistogramCounts
<1>4. SnapshotKeepsUp /\ PercentileIsTrue
  BY DEF HistogramInit, NoSnapshot, SnapshotKeepsUp, PercentileIsTrue
<1>5. QED
  BY <1>1, <1>2, <1>3, <1>4 DEF HistogramInv

\* What becomes of the sets of calls when one call moves.
Calls == [Timer -> TimingType]
Becomes(calls, t, c, later) == later = [calls EXCEPT ![t] = c]

CountOf(c) == One(c.step \in {"max", "buckets"})
BucketOf(c, b) == One(c.step # "idle" /\ c.duration <= b /\ b \notin c.left)
WayOf(c, b) == One(c.step # "idle" /\ c.duration <= b)

LEMMA PastCountMoves ==
  ASSUME NEW calls \in Calls, NEW t \in Timer, NEW c \in TimingType,
         NEW later, Becomes(calls, t, c, later)
  PROVE  /\ Cardinality(PastCount(calls)) \in Nat /\ Cardinality(PastCount(later)) \in Nat
         /\ Cardinality(PastCount(calls)) + CountOf(c)
              = Cardinality(PastCount(later)) + CountOf(calls[t])
<1> DEFINE A == PastCount(calls)
           B == PastCount(later)
<1>1. later[t] = c /\ \A q \in Timer \ {t} : later[q] = calls[q]
  BY DEF Calls, Becomes
<1>2. /\ A \in SUBSET Timer /\ B \in SUBSET Timer
      /\ \A q \in Timer \ {t} : q \in A <=> q \in B
      /\ t \in A <=> calls[t].step \in {"max", "buckets"}
      /\ t \in B <=> c.step \in {"max", "buckets"}
  BY <1>1 DEF PastCount
<1> HIDE DEF A, B
<1>3. /\ Cardinality(A) \in Nat /\ Cardinality(B) \in Nat
      /\ Cardinality(A) + One(t \in B) = Cardinality(B) + One(t \in A)
  BY <1>2, HistogramConstants, OneMoves
<1>4. One(t \in A) = CountOf(calls[t]) /\ One(t \in B) = CountOf(c)
  BY <1>2 DEF One, CountOf
<1>5. QED
  BY <1>3, <1>4 DEF A, B

LEMMA PastBucketMoves ==
  ASSUME NEW calls \in Calls, NEW t \in Timer, NEW c \in TimingType,
         NEW later, Becomes(calls, t, c, later), NEW b \in Nat
  PROVE  /\ Cardinality(PastBucket(calls, b)) \in Nat
         /\ Cardinality(PastBucket(later, b)) \in Nat
         /\ Cardinality(PastBucket(calls, b)) + BucketOf(c, b)
              = Cardinality(PastBucket(later, b)) + BucketOf(calls[t], b)
<1> DEFINE A == PastBucket(calls, b)
           B == PastBucket(later, b)
<1>1. later[t] = c /\ \A q \in Timer \ {t} : later[q] = calls[q]
  BY DEF Calls, Becomes
<1>2. /\ A \in SUBSET Timer /\ B \in SUBSET Timer
      /\ \A q \in Timer \ {t} : q \in A <=> q \in B
      /\ t \in A <=> (calls[t].step # "idle" /\ calls[t].duration <= b /\ b \notin calls[t].left)
      /\ t \in B <=> (c.step # "idle" /\ c.duration <= b /\ b \notin c.left)
  BY <1>1 DEF PastBucket
<1> HIDE DEF A, B
<1>3. /\ Cardinality(A) \in Nat /\ Cardinality(B) \in Nat
      /\ Cardinality(A) + One(t \in B) = Cardinality(B) + One(t \in A)
  BY <1>2, HistogramConstants, OneMoves
<1>4. One(t \in A) = BucketOf(calls[t], b) /\ One(t \in B) = BucketOf(c, b)
  BY <1>2 DEF One, BucketOf
<1>5. QED
  BY <1>3, <1>4 DEF A, B

LEMMA UnderWayMoves ==
  ASSUME NEW calls \in Calls, NEW t \in Timer, NEW c \in TimingType,
         NEW later, Becomes(calls, t, c, later), NEW b \in Nat
  PROVE  /\ Cardinality(UnderWay(calls, b)) \in Nat
         /\ Cardinality(UnderWay(later, b)) \in Nat
         /\ Cardinality(UnderWay(calls, b)) + WayOf(c, b)
              = Cardinality(UnderWay(later, b)) + WayOf(calls[t], b)
<1> DEFINE A == UnderWay(calls, b)
           B == UnderWay(later, b)
<1>1. later[t] = c /\ \A q \in Timer \ {t} : later[q] = calls[q]
  BY DEF Calls, Becomes
<1>2. /\ A \in SUBSET Timer /\ B \in SUBSET Timer
      /\ \A q \in Timer \ {t} : q \in A <=> q \in B
      /\ t \in A <=> (calls[t].step # "idle" /\ calls[t].duration <= b)
      /\ t \in B <=> (c.step # "idle" /\ c.duration <= b)
  BY <1>1 DEF UnderWay
<1> HIDE DEF A, B
<1>3. /\ Cardinality(A) \in Nat /\ Cardinality(B) \in Nat
      /\ Cardinality(A) + One(t \in B) = Cardinality(B) + One(t \in A)
  BY <1>2, HistogramConstants, OneMoves
<1>4. One(t \in A) = WayOf(calls[t], b) /\ One(t \in B) = WayOf(c, b)
  BY <1>2 DEF One, WayOf
<1>5. QED
  BY <1>3, <1>4 DEF A, B

LEMMA ProductNat ==
  ASSUME NEW a \in Nat, NEW b \in Nat
  PROVE  a * b \in Nat
OBVIOUS

LEMMA WithinNat ==
  ASSUME NEW s \in Seq(Nat), NEW b \in Nat
  PROVE  Within(s, b) \in Nat
<1>1. 0 \in Nat
  OBVIOUS
<1>2. QED
  BY <1>1, WithinAppend

LEMMA OneType ==
  ASSUME NEW p
  PROVE  One(p) \in {0, 1}
BY DEF One

\* How the call of t goes on.
NextCall(t, left) ==
  IF left = {} THEN NotTiming
  ELSE [step |-> "buckets", duration |-> timing[t].duration, left |-> left]

LEMMA CallGoesOn ==
  ASSUME NEW c \in TimingType, NEW left
  PROVE  [c EXCEPT !.step = "buckets", !.left = left]
           = [step |-> "buckets", duration |-> c.duration, left |-> left]
<1>1. PICK x, y, z : c = [step |-> x, duration |-> y, left |-> z]
  BY DEF TimingType
<1>2. c.duration = y
  BY <1>1
<1>3. [[step |-> x, duration |-> y, left |-> z] EXCEPT !.step = "buckets", !.left = left]
        = [step |-> "buckets", duration |-> y, left |-> left]
  <2>1. PICK a : a = [step |-> x, duration |-> y, left |-> z]
    OBVIOUS
  <2>2. PICK d : d = [a EXCEPT !.step = "buckets"]
    OBVIOUS
  <2>3. d = [step |-> "buckets", duration |-> y, left |-> z]
    BY <2>1, <2>2
  <2>4. [d EXCEPT !.left = left] = [step |-> "buckets", duration |-> y, left |-> left]
    BY <2>3
  <2>5. QED
    BY <2>1, <2>2, <2>4
<1>4. QED
  BY <1>1, <1>2, <1>3, Zenon

LEMMA ProceedIs ==
  ASSUME HistogramTyped, NEW t \in Timer, NEW left \in SUBSET Bounds, Proceed(t, left)
  PROVE  /\ NextCall(t, left) \in TimingType
         /\ timing' = [timing EXCEPT ![t] = NextCall(t, left)]
         /\ recorded' = IF left = {} THEN Append(recorded, timing[t].duration) ELSE recorded
<1>1. timing[t] \in TimingType
  BY DEF HistogramTyped
<1>2. NextCall(t, left) \in TimingType
  BY <1>1 DEF NextCall, TimingType, NotTiming
<1>3. CASE left = {}
  BY <1>2, <1>3 DEF Proceed, NextCall
<1>4. CASE left # {}
  <2>1. timing' = [timing EXCEPT ![t] = [timing[t] EXCEPT !.step = "buckets", !.left = left]]
    BY <1>4 DEF Proceed, HistogramTyped
  <2>2. timing' = [timing EXCEPT ![t] = NextCall(t, left)]
    BY <1>1, <1>4, <2>1, CallGoesOn DEF NextCall
  <2>3. QED
    BY <1>2, <1>4, <2>2 DEF Proceed
<1>5. QED
  BY <1>3, <1>4

\* What a call that goes on is counted for.
LEMMA NextCallCounts ==
  ASSUME HistogramTyped, NEW t \in Timer, NEW left \in SUBSET Bounds,
         timing[t].step \in {"max", "buckets"}, NEW b \in Nat
  PROVE  /\ CountOf(timing[t]) = 1 /\ CountOf(NextCall(t, left)) = IF left = {} THEN 0 ELSE 1
         /\ WayOf(timing[t], b) = One(timing[t].duration <= b)
         /\ WayOf(NextCall(t, left), b)
              = IF left = {} THEN 0 ELSE One(timing[t].duration <= b)
         /\ BucketOf(timing[t], b) = One(timing[t].duration <= b /\ b \notin timing[t].left)
         /\ BucketOf(NextCall(t, left), b)
              = IF left = {} THEN 0 ELSE One(timing[t].duration <= b /\ b \notin left)
<1>1. timing[t].step # "idle"
  OBVIOUS
<1>2. CASE left = {}
  BY <1>1, <1>2 DEF NextCall, NotTiming, CountOf, WayOf, BucketOf, One
<1>3. CASE left # {}
  <2>1. /\ NextCall(t, left).step = "buckets"
        /\ NextCall(t, left).duration = timing[t].duration
        /\ NextCall(t, left).left = left
    BY <1>3 DEF NextCall
  <2>2. QED
    BY <1>1, <1>3, <2>1 DEF CountOf, WayOf, BucketOf, One
<1>4. QED
  BY <1>2, <1>3

\* A call that goes on or returns moves from the calls past a counter to those that
\* have returned, which leaves their sum alone but for the bucket it has counted.
LEMMA ProceedCount ==
  ASSUME HistogramTyped, NEW t \in Timer, NEW left \in SUBSET Bounds, Proceed(t, left),
         timing[t].step \in {"max", "buckets"}
  PROVE  /\ timing' \in [Timer -> TimingType] /\ recorded' \in Seq(Nat)
         /\ Len(recorded') \in Nat /\ Len(recorded') >= Len(recorded)
         /\ Len(recorded') + Cardinality(PastCount(timing'))
              = Len(recorded) + Cardinality(PastCount(timing))
<1>1. /\ NextCall(t, left) \in TimingType
      /\ timing' = [timing EXCEPT ![t] = NextCall(t, left)]
      /\ recorded' = IF left = {} THEN Append(recorded, timing[t].duration) ELSE recorded
  BY ProceedIs
<1>2. /\ timing[t].duration \in Nat /\ recorded \in Seq(Nat) /\ timing \in [Timer -> TimingType]
  BY DEF HistogramTyped, TimingType
<1>3. timing' \in [Timer -> TimingType]
  BY <1>1, <1>2
<1>4. /\ recorded' \in Seq(Nat) /\ Len(recorded) \in Nat /\ Len(recorded') \in Nat
      /\ Len(recorded') = IF left = {} THEN Len(recorded) + 1 ELSE Len(recorded)
  BY <1>1, <1>2
<1>5. /\ Cardinality(PastCount(timing)) \in Nat /\ Cardinality(PastCount(timing')) \in Nat
      /\ Cardinality(PastCount(timing)) + CountOf(NextCall(t, left))
           = Cardinality(PastCount(timing')) + CountOf(timing[t])
  <2>1. PICK calls \in Calls, c \in TimingType :
          calls = timing /\ c = NextCall(t, left)
    BY <1>1, <1>2 DEF Calls
  <2>2. PICK later : later = timing'
    OBVIOUS
  <2>3. Becomes(calls, t, c, later)
    BY <1>1, <2>1, <2>2 DEF Becomes
  <2>4. /\ Cardinality(PastCount(calls)) \in Nat /\ Cardinality(PastCount(later)) \in Nat
        /\ Cardinality(PastCount(calls)) + CountOf(c)
             = Cardinality(PastCount(later)) + CountOf(calls[t])
    BY <2>3, PastCountMoves
  <2>5. QED
    BY <2>1, <2>2, <2>4, Zenon
<1>6. CountOf(timing[t]) = 1 /\ CountOf(NextCall(t, left)) = IF left = {} THEN 0 ELSE 1
  <2>1. 0 \in Nat
    OBVIOUS
  <2>2. QED
    BY <2>1, NextCallCounts
<1>7. PICK a \in Nat, c \in Nat, m \in Nat, n \in Nat :
        /\ a = Cardinality(PastCount(timing)) /\ c = Cardinality(PastCount(timing'))
        /\ m = Len(recorded) /\ n = Len(recorded')
  BY <1>4, <1>5
<1>8. n >= m /\ n + c = m + a
  BY <1>4, <1>5, <1>6, <1>7
<1>9. QED
  BY <1>3, <1>4, <1>7, <1>8

LEMMA ProceedWay ==
  ASSUME HistogramTyped, NEW t \in Timer, NEW left \in SUBSET Bounds, Proceed(t, left),
         timing[t].step \in {"max", "buckets"}, NEW b \in Nat
  PROVE  /\ Within(recorded', b) \in Nat /\ Within(recorded', b) >= Within(recorded, b)
         /\ Within(recorded', b) + Cardinality(UnderWay(timing', b))
              = Within(recorded, b) + Cardinality(UnderWay(timing, b))
<1>1. /\ NextCall(t, left) \in TimingType
      /\ timing' = [timing EXCEPT ![t] = NextCall(t, left)]
      /\ recorded' = IF left = {} THEN Append(recorded, timing[t].duration) ELSE recorded
  BY ProceedIs
<1>2. /\ timing[t].duration \in Nat /\ recorded \in Seq(Nat) /\ timing \in [Timer -> TimingType]
  BY DEF HistogramTyped, TimingType
<1>3. PICK x \in {0, 1} : x = One(timing[t].duration <= b)
  BY OneType
<1>4. Within(recorded, b) \in Nat /\ Within(recorded', b) \in Nat
      /\ Within(recorded', b) = IF left = {} THEN Within(recorded, b) + x ELSE Within(recorded, b)
  <2>1. /\ Within(recorded, b) \in Nat
        /\ Within(Append(recorded, timing[t].duration), b)
             = Within(recorded, b) + One(timing[t].duration <= b)
    BY <1>2, WithinAppend
  <2>2. QED
    BY <1>1, <1>3, <2>1
<1>5. /\ Cardinality(UnderWay(timing, b)) \in Nat /\ Cardinality(UnderWay(timing', b)) \in Nat
      /\ Cardinality(UnderWay(timing, b)) + WayOf(NextCall(t, left), b)
           = Cardinality(UnderWay(timing', b)) + WayOf(timing[t], b)
  <2>1. PICK calls \in Calls, c \in TimingType :
          calls = timing /\ c = NextCall(t, left)
    BY <1>1, <1>2 DEF Calls
  <2>2. PICK later : later = timing'
    OBVIOUS
  <2>3. Becomes(calls, t, c, later)
    BY <1>1, <2>1, <2>2 DEF Becomes
  <2>4. /\ Cardinality(UnderWay(calls, b)) \in Nat /\ Cardinality(UnderWay(later, b)) \in Nat
        /\ Cardinality(UnderWay(calls, b)) + WayOf(c, b)
             = Cardinality(UnderWay(later, b)) + WayOf(calls[t], b)
    BY <2>3, UnderWayMoves
  <2>5. QED
    BY <2>1, <2>2, <2>4, Zenon
<1>6. WayOf(timing[t], b) = x /\ WayOf(NextCall(t, left), b) = IF left = {} THEN 0 ELSE x
  BY <1>3, NextCallCounts
<1>7. PICK a \in Nat, c \in Nat, m \in Nat, n \in Nat :
        /\ a = Cardinality(UnderWay(timing, b)) /\ c = Cardinality(UnderWay(timing', b))
        /\ m = Within(recorded, b) /\ n = Within(recorded', b)
  BY <1>4, <1>5
<1>8. n >= m /\ n + c = m + a
  BY <1>3, <1>4, <1>5, <1>6, <1>7
<1>9. QED
  BY <1>7, <1>8

LEMMA ProceedBucket ==
  ASSUME HistogramTyped, NEW t \in Timer, NEW left \in SUBSET Bounds, Proceed(t, left),
         timing[t].step \in {"max", "buckets"}, NEW b \in Nat
  PROVE  /\ Within(recorded, b) + Cardinality(PastBucket(timing, b)) \in Nat
         /\ Within(recorded', b) + Cardinality(PastBucket(timing', b)) \in Nat
         /\ Within(recorded', b) + Cardinality(PastBucket(timing', b))
                  + One(timing[t].duration <= b /\ b \notin timing[t].left)
                = Within(recorded, b) + Cardinality(PastBucket(timing, b))
                  + One(timing[t].duration <= b /\ b \notin left)
<1>1. /\ NextCall(t, left) \in TimingType
      /\ timing' = [timing EXCEPT ![t] = NextCall(t, left)]
      /\ recorded' = IF left = {} THEN Append(recorded, timing[t].duration) ELSE recorded
  BY ProceedIs
<1>2. /\ timing[t].duration \in Nat /\ recorded \in Seq(Nat) /\ timing \in [Timer -> TimingType]
  BY DEF HistogramTyped, TimingType
<1>3. PICK x \in {0, 1} : x = One(timing[t].duration <= b)
  BY OneType
<1>4. Within(recorded, b) \in Nat /\ Within(recorded', b) \in Nat
      /\ Within(recorded', b) = IF left = {} THEN Within(recorded, b) + x ELSE Within(recorded, b)
  <2>1. /\ Within(recorded, b) \in Nat
        /\ Within(Append(recorded, timing[t].duration), b)
             = Within(recorded, b) + One(timing[t].duration <= b)
    BY <1>2, WithinAppend
  <2>2. QED
    BY <1>1, <1>3, <2>1
<1>5. /\ Cardinality(PastBucket(timing, b)) \in Nat
      /\ Cardinality(PastBucket(timing', b)) \in Nat
      /\ Cardinality(PastBucket(timing, b)) + BucketOf(NextCall(t, left), b)
           = Cardinality(PastBucket(timing', b)) + BucketOf(timing[t], b)
  <2>1. PICK calls \in Calls, c \in TimingType :
          calls = timing /\ c = NextCall(t, left)
    BY <1>1, <1>2 DEF Calls
  <2>2. PICK later : later = timing'
    OBVIOUS
  <2>3. Becomes(calls, t, c, later)
    BY <1>1, <2>1, <2>2 DEF Becomes
  <2>4. /\ Cardinality(PastBucket(calls, b)) \in Nat /\ Cardinality(PastBucket(later, b)) \in Nat
        /\ Cardinality(PastBucket(calls, b)) + BucketOf(c, b)
             = Cardinality(PastBucket(later, b)) + BucketOf(calls[t], b)
    BY <2>3, PastBucketMoves
  <2>5. QED
    BY <2>1, <2>2, <2>4, Zenon
<1>6. PICK y \in {0, 1} : y = One(timing[t].duration <= b /\ b \notin timing[t].left)
  BY OneType
<1>7. PICK z \in {0, 1} : z = One(timing[t].duration <= b /\ b \notin left)
  BY OneType
<1>8. /\ BucketOf(timing[t], b) = y /\ BucketOf(NextCall(t, left), b) = IF left = {} THEN 0 ELSE z
      /\ left = {} => z = x
  <2>1. BucketOf(timing[t], b) = y /\ BucketOf(NextCall(t, left), b) = IF left = {} THEN 0 ELSE z
    BY <1>6, <1>7, NextCallCounts
  <2>2. left = {} => z = x
    BY <1>3, <1>7 DEF One
  <2>3. QED
    BY <2>1, <2>2
<1>9. PICK a \in Nat, c \in Nat, m \in Nat, n \in Nat :
        /\ a = Cardinality(PastBucket(timing, b)) /\ c = Cardinality(PastBucket(timing', b))
        /\ m = Within(recorded, b) /\ n = Within(recorded', b)
  BY <1>4, <1>5
<1>10. n + c + y = m + a + z
  BY <1>3, <1>4, <1>5, <1>6, <1>7, <1>8, <1>9
<1>11. m + a \in Nat /\ n + c \in Nat
  OBVIOUS
<1>12. QED
  BY <1>6, <1>7, <1>9, <1>10, <1>11

\* While calls record, no counter falls and no record is forgotten.
Onward ==
  /\ \A b \in Bounds : histogram'.buckets[b] >= histogram.buckets[b]
  /\ Len(recorded') >= Len(recorded)
  /\ \A b \in Nat : Within(started', b) >= Within(started, b)
  /\ snapshot' = snapshot

LEMMA OnwardKeeps ==
  ASSUME HistogramInv, HistogramTyped', Onward
  PROVE  SnapshotKeepsUp' /\ PercentileIsTrue'
<1>1. snapshot \in SnapshotType /\ snapshot' = snapshot
  BY DEF HistogramInv, HistogramTyped, Onward
<1>2. /\ recorded \in Seq(Nat) /\ recorded' \in Seq(Nat)
      /\ started \in Seq(Nat) /\ started' \in Seq(Nat)
      /\ histogram \in HistogramType /\ histogram' \in HistogramType
      /\ snapshot.before \in Seq(Nat) /\ snapshot.percentile \in Nat /\ snapshot.count \in Nat
      /\ snapshot.buckets \in [Bounds -> Nat]
  BY <1>1 DEF HistogramInv, HistogramTyped, SnapshotType
<1>3. ASSUME snapshot.step # "idle" PROVE SnapshotKeepsUp'
  <2>1. SnapshotKeepsUp
    BY DEF HistogramInv
  <2>2. ASSUME NEW b \in Bounds
        PROVE  /\ histogram.buckets[b] \in Nat /\ histogram'.buckets[b] \in Nat
               /\ histogram'.buckets[b] >= histogram.buckets[b]
               /\ snapshot.buckets[b] \in Nat /\ Within(snapshot.before, b) \in Nat
    BY <1>2, HistogramConstants, WithinNat DEF Onward, HistogramType
  <2>3. ASSUME NEW b \in Bounds \ snapshot.left
        PROVE  snapshot.buckets[b] <= histogram'.buckets[b]
    <3>1. snapshot.buckets[b] <= histogram.buckets[b]
      BY <1>3, <2>1 DEF SnapshotKeepsUp
    <3>2. QED
      BY <2>2, <3>1
  <2>4. ASSUME snapshot.quiet
        PROVE  snapshot.count = Len(snapshot.before) /\ snapshot.count <= Len(recorded')
    <3>1. snapshot.count = Len(snapshot.before) /\ snapshot.count <= Len(recorded)
      BY <1>3, <2>1, <2>4 DEF SnapshotKeepsUp
    <3>2. Len(recorded) \in Nat /\ Len(recorded') \in Nat /\ Len(recorded') >= Len(recorded)
      BY <1>2 DEF Onward
    <3>3. QED
      BY <1>2, <3>1, <3>2
  <2>5. ASSUME snapshot.quiet, NEW b \in Bounds
        PROVE  /\ Within(snapshot.before, b) <= histogram'.buckets[b]
               /\ b \notin snapshot.left => Within(snapshot.before, b) <= snapshot.buckets[b]
    <3>1. /\ Within(snapshot.before, b) <= histogram.buckets[b]
          /\ b \notin snapshot.left => Within(snapshot.before, b) <= snapshot.buckets[b]
      BY <1>3, <2>1, <2>5 DEF SnapshotKeepsUp
    <3>2. QED
      BY <2>2, <3>1
  <2>6. QED
    BY <1>1, <2>3, <2>4, <2>5 DEF SnapshotKeepsUp
<1>4. snapshot.step = "idle" => SnapshotKeepsUp'
  BY <1>1 DEF SnapshotKeepsUp
<1>5. ASSUME snapshot.step = "done", snapshot.quiet, snapshot.count > 0
      PROVE  100 * Within(started', snapshot.percentile) >= Percentile * snapshot.count
  <2>1. 100 * Within(started, snapshot.percentile) >= Percentile * snapshot.count
    BY <1>5 DEF HistogramInv, PercentileIsTrue
  <2>2. PICK p \in Nat : p = snapshot.percentile
    BY <1>2
  <2>3. PICK m \in Nat, n \in Nat : m = Within(started, p) /\ n = Within(started', p)
    BY <1>2, <2>2, WithinNat
  <2>4. n >= m
    BY <2>2, <2>3 DEF Onward
  <2>5. PICK q \in Nat : q = Percentile * snapshot.count
    <3>1. Percentile \in Nat /\ snapshot.count \in Nat
      BY <1>2, HistogramConstants
    <3>2. Percentile * snapshot.count \in Nat
      BY <3>1, ProductNat
    <3>3. QED
      BY <3>2
  <2>6. 100 * n >= q
    BY <2>1, <2>2, <2>3, <2>4, <2>5
  <2>7. QED
    BY <2>2, <2>3, <2>5, <2>6
<1>6. PercentileIsTrue'
  <2>1. ASSUME snapshot.step = "done", snapshot.quiet, snapshot.count > 0,
               NEW b \in Bounds, b < snapshot.percentile
        PROVE  100 * Within(snapshot.before, b) < Percentile * snapshot.count
    BY <2>1 DEF HistogramInv, PercentileIsTrue
  <2>2. QED
    BY <1>1, <1>5, <2>1 DEF PercentileIsTrue
<1>7. QED
  BY <1>3, <1>4, <1>6

LEMMA StartTimingKeeps ==
  ASSUME HistogramInv, NEW t \in Timer, NEW d \in Durations, StartTiming(t, d)
  PROVE  HistogramInv'
<1> DEFINE c == [step |-> "count", duration |-> d, left |-> {b \in Bounds : d <= b}]
<1>1. /\ timing[t].step = "idle" /\ timing' = [timing EXCEPT ![t] = c]
      /\ started' = Append(started, d)
      /\ UNCHANGED <<histogram, recorded, snapshot>>
  BY DEF StartTiming
<1>2. d \in Nat /\ c \in TimingType
  BY HistogramConstants DEF TimingType
<1>3. /\ c.step = "count" /\ c.duration = d /\ c.left = {b \in Bounds : d <= b}
  OBVIOUS
<1> HIDE DEF c
<1>4. /\ timing \in Calls /\ started \in Seq(Nat) /\ recorded \in Seq(Nat)
      /\ histogram \in HistogramType
  BY DEF HistogramInv, HistogramTyped, Calls
<1>5. PICK later \in Calls : later = timing' /\ Becomes(timing, t, c, later)
  BY <1>1, <1>2, <1>4 DEF Calls, Becomes
<1>6. HistogramTyped'
  BY <1>1, <1>2, <1>4, <1>5 DEF HistogramInv, HistogramTyped, Calls
<1>7. CallsInOrder'
  BY <1>1, <1>3, <1>4 DEF HistogramInv, CallsInOrder, Calls
<1>8. /\ CountOf(timing[t]) = 0 /\ CountOf(c) = 0
      /\ \A b \in Nat : BucketOf(timing[t], b) = 0 /\ WayOf(timing[t], b) = 0
      /\ \A b \in Bounds : BucketOf(c, b) = 0
      /\ \A b \in Nat : WayOf(c, b) = One(d <= b)
  BY <1>1, <1>3, HistogramConstants DEF CountOf, BucketOf, WayOf, One
<1>9. histogram'.count = Len(recorded') + Cardinality(PastCount(timing'))
  <2>1. /\ Cardinality(PastCount(timing)) \in Nat /\ Cardinality(PastCount(later)) \in Nat
        /\ Cardinality(PastCount(timing)) + CountOf(c)
             = Cardinality(PastCount(later)) + CountOf(timing[t])
    BY <1>2, <1>4, <1>5, PastCountMoves
  <2>2. Cardinality(PastCount(timing)) = Cardinality(PastCount(later))
    BY <1>8, <2>1
  <2>3. histogram.count = Len(recorded) + Cardinality(PastCount(timing))
    BY DEF HistogramInv, HistogramCounts
  <2>4. QED
    BY <1>1, <1>5, <2>2, <2>3
<1>10. ASSUME NEW b \in Bounds
       PROVE  histogram'.buckets[b] = Within(recorded', b) + Cardinality(PastBucket(timing', b))
  <2>1. b \in Nat
    BY HistogramConstants
  <2>2. /\ Cardinality(PastBucket(timing, b)) \in Nat
        /\ Cardinality(PastBucket(later, b)) \in Nat
        /\ Cardinality(PastBucket(timing, b)) + BucketOf(c, b)
             = Cardinality(PastBucket(later, b)) + BucketOf(timing[t], b)
    BY <1>2, <1>4, <1>5, <2>1, PastBucketMoves
  <2>3. Cardinality(PastBucket(timing, b)) = Cardinality(PastBucket(later, b))
    BY <1>8, <2>1, <2>2
  <2>4. histogram.buckets[b] = Within(recorded, b) + Cardinality(PastBucket(timing, b))
    BY DEF HistogramInv, HistogramCounts
  <2>5. QED
    BY <1>1, <1>5, <2>3, <2>4
<1>11. ASSUME NEW b \in Nat
       PROVE  /\ Within(started', b) >= Within(started, b)
              /\ Within(started', b) = Within(recorded', b) + Cardinality(UnderWay(timing', b))
  <2>1. /\ Cardinality(UnderWay(timing, b)) \in Nat
        /\ Cardinality(UnderWay(later, b)) \in Nat
        /\ Cardinality(UnderWay(timing, b)) + WayOf(c, b)
             = Cardinality(UnderWay(later, b)) + WayOf(timing[t], b)
    <3>1. b \in Nat /\ c \in TimingType /\ timing \in Calls /\ Becomes(timing, t, c, later)
      BY <1>2, <1>4, <1>5
    <3>2. QED
      BY <3>1, UnderWayMoves
  <2>2. PICK x \in {0, 1} : x = One(d <= b)
    BY OneType
  <2>3. WayOf(c, b) = x /\ WayOf(timing[t], b) = 0
    BY <1>8, <2>2
  <2>4. /\ Within(started, b) \in Nat
        /\ Within(Append(started, d), b) = Within(started, b) + One(d <= b)
    BY <1>2, <1>4, WithinAppend
  <2>5. Within(recorded, b) \in Nat
    BY <1>4, WithinNat
  <2>6. Within(started, b) = Within(recorded, b) + Cardinality(UnderWay(timing, b))
    BY DEF HistogramInv, HistogramCounts
  <2>7. PICK u \in Nat, v \in Nat, w \in Nat, s \in Nat, z \in Nat :
          /\ u = Cardinality(UnderWay(timing, b)) /\ v = Cardinality(UnderWay(later, b))
          /\ w = Within(recorded, b) /\ s = Within(started, b) /\ z = s + x
    BY <2>1, <2>2, <2>4, <2>5
  <2>8. z = w + v /\ z >= s
    BY <2>1, <2>2, <2>3, <2>6, <2>7
  <2>9. Within(started', b) = z
    BY <1>1, <2>2, <2>4, <2>7
  <2>10. QED
    BY <1>1, <1>5, <2>7, <2>8, <2>9
<1>12. \A i \in DOMAIN recorded' : recorded'[i] <= histogram'.max
  BY <1>1 DEF HistogramInv, HistogramCounts
<1>13. HistogramCounts'
  BY <1>9, <1>10, <1>11, <1>12 DEF HistogramCounts
<1>14. Onward
  BY <1>1, <1>4, <1>11 DEF Onward, HistogramType
<1>15. QED
  BY <1>6, <1>7, <1>13, <1>14, OnwardKeeps DEF HistogramInv

LEMMA CountDurationKeeps ==
  ASSUME HistogramInv, NEW t \in Timer, CountDuration(t)
  PROVE  HistogramInv'
<1> DEFINE c == [step |-> "max", duration |-> timing[t].duration, left |-> timing[t].left]
<1>1. /\ timing[t].step = "count" /\ timing[t] \in TimingType
      /\ histogram' = [histogram EXCEPT !.count = @ + 1]
      /\ UNCHANGED <<started, recorded, snapshot>>
  BY DEF CountDuration, HistogramInv, HistogramTyped
<1>2. c \in TimingType /\ timing' = [timing EXCEPT ![t] = c]
  <2>1. c \in TimingType /\ [timing[t] EXCEPT !.step = "max"] = c
    BY <1>1 DEF TimingType
  <2>2. timing' = [timing EXCEPT ![t] = [timing[t] EXCEPT !.step = "max"]]
    BY DEF CountDuration, HistogramInv, HistogramTyped
  <2>3. QED
    BY <2>1, <2>2
<1>3. c.step = "max" /\ c.duration = timing[t].duration /\ c.left = timing[t].left
  OBVIOUS
<1> HIDE DEF c
<1>4. /\ timing \in Calls /\ started \in Seq(Nat) /\ recorded \in Seq(Nat)
      /\ histogram \in HistogramType
  BY DEF HistogramInv, HistogramTyped, Calls
<1>5. PICK later \in Calls : later = timing' /\ Becomes(timing, t, c, later)
  BY <1>2, <1>4 DEF Calls, Becomes
<1>6. /\ histogram' \in HistogramType /\ histogram'.count = histogram.count + 1
      /\ histogram'.max = histogram.max /\ histogram'.buckets = histogram.buckets
  <2>1. PICK n \in Nat, m \in Nat, table \in [Bounds -> Nat] :
          histogram = [count |-> n, max |-> m, buckets |-> table]
    BY <1>4 DEF HistogramType
  <2>2. histogram' = [count |-> n + 1, max |-> m, buckets |-> table]
    BY <1>1, <2>1
  <2>3. QED
    BY <2>1, <2>2 DEF HistogramType
<1>7. HistogramTyped'
  BY <1>1, <1>4, <1>5, <1>6 DEF HistogramInv, HistogramTyped, Calls
<1>8. CallsInOrder'
  BY <1>1, <1>2, <1>3, <1>4, <1>6 DEF HistogramInv, CallsInOrder, Calls
<1>9. /\ CountOf(timing[t]) = 0 /\ CountOf(c) = 1
      /\ \A b \in Nat : BucketOf(timing[t], b) = BucketOf(c, b)
      /\ \A b \in Nat : WayOf(timing[t], b) = WayOf(c, b)
  BY <1>1, <1>3 DEF CountOf, BucketOf, WayOf, One
<1>10. histogram'.count = Len(recorded') + Cardinality(PastCount(timing'))
  <2>1. /\ Cardinality(PastCount(timing)) \in Nat /\ Cardinality(PastCount(later)) \in Nat
        /\ Cardinality(PastCount(timing)) + CountOf(c)
             = Cardinality(PastCount(later)) + CountOf(timing[t])
    BY <1>2, <1>4, <1>5, PastCountMoves
  <2>2. histogram.count = Len(recorded) + Cardinality(PastCount(timing))
    BY DEF HistogramInv, HistogramCounts
  <2>3. PICK u \in Nat, v \in Nat, n \in Nat :
          /\ u = Cardinality(PastCount(timing)) /\ v = Cardinality(PastCount(later))
          /\ n = Len(recorded)
    BY <1>4, <2>1
  <2>4. histogram.count + 1 = n + v
    BY <1>9, <2>1, <2>2, <2>3
  <2>5. QED
    BY <1>1, <1>5, <1>6, <2>3, <2>4
<1>11. ASSUME NEW b \in Bounds
       PROVE  histogram'.buckets[b] = Within(recorded', b) + Cardinality(PastBucket(timing', b))
  <2>1. b \in Nat
    BY HistogramConstants
  <2>2. /\ Cardinality(PastBucket(timing, b)) \in Nat
        /\ Cardinality(PastBucket(later, b)) \in Nat
        /\ Cardinality(PastBucket(timing, b)) + BucketOf(c, b)
             = Cardinality(PastBucket(later, b)) + BucketOf(timing[t], b)
    <3>1. b \in Nat /\ c \in TimingType /\ timing \in Calls /\ Becomes(timing, t, c, later)
      BY <1>2, <1>4, <1>5, <2>1
    <3>2. QED
      BY <3>1, PastBucketMoves
  <2>3. BucketOf(timing[t], b) = BucketOf(c, b) /\ BucketOf(c, b) \in {0, 1}
    BY <1>9, <2>1, OneType DEF BucketOf
  <2>4. Cardinality(PastBucket(timing, b)) = Cardinality(PastBucket(later, b))
    BY <2>2, <2>3
  <2>5. histogram.buckets[b] = Within(recorded, b) + Cardinality(PastBucket(timing, b))
    BY DEF HistogramInv, HistogramCounts
  <2>6. QED
    BY <1>1, <1>5, <1>6, <2>4, <2>5
<1>12. ASSUME NEW b \in Nat
       PROVE  Within(started', b) = Within(recorded', b) + Cardinality(UnderWay(timing', b))
  <2>1. /\ Cardinality(UnderWay(timing, b)) \in Nat
        /\ Cardinality(UnderWay(later, b)) \in Nat
        /\ Cardinality(UnderWay(timing, b)) + WayOf(c, b)
             = Cardinality(UnderWay(later, b)) + WayOf(timing[t], b)
    <3>1. b \in Nat /\ c \in TimingType /\ timing \in Calls /\ Becomes(timing, t, c, later)
      BY <1>2, <1>4, <1>5
    <3>2. QED
      BY <3>1, UnderWayMoves
  <2>2. WayOf(timing[t], b) = WayOf(c, b) /\ WayOf(c, b) \in {0, 1}
    BY <1>9, OneType DEF WayOf
  <2>3. Cardinality(UnderWay(timing, b)) = Cardinality(UnderWay(later, b))
    BY <2>1, <2>2
  <2>4. Within(started, b) = Within(recorded, b) + Cardinality(UnderWay(timing, b))
    BY DEF HistogramInv, HistogramCounts
  <2>5. QED
    BY <1>1, <1>5, <2>3, <2>4
<1>13. \A i \in DOMAIN recorded' : recorded'[i] <= histogram'.max
  BY <1>1, <1>6 DEF HistogramInv, HistogramCounts
<1>14. HistogramCounts'
  BY <1>10, <1>11, <1>12, <1>13 DEF HistogramCounts
<1>15. Onward
  <2>1. \A b \in Nat : Within(started, b) \in Nat
    BY <1>4, WithinNat
  <2>2. QED
    BY <1>1, <1>4, <1>6, <2>1 DEF Onward, HistogramType
<1>16. QED
  BY <1>7, <1>8, <1>14, <1>15, OnwardKeeps DEF HistogramInv

\* What a call that goes on, or returns, leaves of the counts.
LEMMA ProceedKeeps ==
  ASSUME HistogramInv, NEW t \in Timer, NEW left \in SUBSET Bounds, Proceed(t, left),
         timing[t].step \in {"max", "buckets"}, UNCHANGED <<started, snapshot>>,
         left # {} =>
           timing[t].duration <= histogram'.max /\ \A b \in left : timing[t].duration <= b,
         histogram' \in HistogramType, histogram'.count = histogram.count,
         histogram'.max >= histogram.max, histogram'.max >= timing[t].duration,
         \A b \in Bounds :
           histogram'.buckets[b] + One(timing[t].duration <= b /\ b \notin timing[t].left)
             = histogram.buckets[b] + One(timing[t].duration <= b /\ b \notin left),
         left \subseteq timing[t].left
  PROVE  HistogramInv'
<1>1. /\ NextCall(t, left) \in TimingType /\ timing \in [Timer -> TimingType]
      /\ timing' = [timing EXCEPT ![t] = NextCall(t, left)]
      /\ recorded' = IF left = {} THEN Append(recorded, timing[t].duration) ELSE recorded
  BY ProceedIs DEF HistogramInv, HistogramTyped
<1>2. /\ timing' \in [Timer -> TimingType] /\ recorded' \in Seq(Nat)
      /\ Len(recorded') \in Nat /\ Len(recorded') >= Len(recorded)
      /\ Len(recorded') + Cardinality(PastCount(timing'))
           = Len(recorded) + Cardinality(PastCount(timing))
  BY ProceedCount DEF HistogramInv
<1>3. /\ recorded \in Seq(Nat) /\ started \in Seq(Nat) /\ started' = started
      /\ histogram \in HistogramType /\ timing[t] \in TimingType
  BY DEF HistogramInv, HistogramTyped
<1>4. HistogramTyped'
  BY <1>2, <1>3 DEF HistogramInv, HistogramTyped
<1>5. CallsInOrder'
  <2>1. ASSUME NEW q \in Timer \ {t}
        PROVE  /\ timing'[q].step \in {"count", "max"} =>
                    timing'[q].left = {b \in Bounds : timing'[q].duration <= b}
               /\ timing'[q].step = "buckets" =>
                    /\ timing'[q].left # {} /\ timing'[q].duration <= histogram'.max
                    /\ \A b \in timing'[q].left : timing'[q].duration <= b
    <3>1. timing'[q] = timing[q] /\ timing[q] \in TimingType
      BY <1>1
    <3>2. /\ timing[q].step \in {"count", "max"} =>
               timing[q].left = {b \in Bounds : timing[q].duration <= b}
          /\ timing[q].step = "buckets" =>
               /\ timing[q].left # {} /\ timing[q].duration <= histogram.max
               /\ \A b \in timing[q].left : timing[q].duration <= b
      BY DEF HistogramInv, CallsInOrder
    <3>3. /\ histogram.max \in Nat /\ histogram'.max \in Nat /\ timing[q].duration \in Nat
          /\ histogram'.max >= histogram.max
      BY <1>3, <3>1 DEF HistogramType, TimingType
    <3>4. timing[q].step = "buckets" => timing[q].duration <= histogram'.max
      BY <3>2, <3>3
    <3>5. QED
      BY <3>1, <3>2, <3>4
  <2>2. timing'[t] = NextCall(t, left)
    BY <1>1
  <2>3. left = {} => timing'[t].step = "idle"
    BY <2>2 DEF NextCall, NotTiming
  <2>4. left # {} => /\ timing'[t].step = "buckets" /\ timing'[t].left = left
                     /\ timing'[t].duration = timing[t].duration
    BY <2>2 DEF NextCall
  <2>5. QED
    BY <2>1, <2>3, <2>4 DEF CallsInOrder
<1>6. histogram'.count = Len(recorded') + Cardinality(PastCount(timing'))
  BY <1>2 DEF HistogramInv, HistogramCounts
<1>7. ASSUME NEW b \in Bounds
      PROVE  /\ histogram'.buckets[b] >= histogram.buckets[b]
             /\ histogram'.buckets[b] = Within(recorded', b) + Cardinality(PastBucket(timing', b))
  <2>1. b \in Nat
    BY HistogramConstants
  <2>2. PICK y \in {0, 1} : y = One(timing[t].duration <= b /\ b \notin timing[t].left)
    BY OneType
  <2>3. PICK z \in {0, 1} : z = One(timing[t].duration <= b /\ b \notin left)
    BY OneType
  <2>4. z >= y
    BY <2>2, <2>3 DEF One
  <2>5. PICK m \in Nat, n \in Nat :
          /\ m = Within(recorded, b) + Cardinality(PastBucket(timing, b))
          /\ n = Within(recorded', b) + Cardinality(PastBucket(timing', b))
          /\ n + y = m + z
    BY <2>1, <2>2, <2>3, ProceedBucket DEF HistogramInv
  <2>6. PICK k \in Nat, l \in Nat : k = histogram.buckets[b] /\ l = histogram'.buckets[b]
    BY <1>3 DEF HistogramType
  <2>7. k = m
    BY <2>5, <2>6 DEF HistogramInv, HistogramCounts
  <2>8. l + y = k + z
    BY <2>2, <2>3, <2>6
  <2>9. l = n /\ l >= k
    BY <2>4, <2>5, <2>7, <2>8
  <2>10. QED
    BY <2>5, <2>6, <2>9
<1>8. ASSUME NEW b \in Nat
      PROVE  /\ Within(started', b) >= Within(started, b)
             /\ Within(started', b) = Within(recorded', b) + Cardinality(UnderWay(timing', b))
  <2>1. Within(started, b) = Within(recorded, b) + Cardinality(UnderWay(timing, b))
    BY DEF HistogramInv, HistogramCounts
  <2>2. Within(recorded', b) + Cardinality(UnderWay(timing', b))
          = Within(recorded, b) + Cardinality(UnderWay(timing, b))
    BY ProceedWay DEF HistogramInv
  <2>3. Within(started, b) \in Nat
    BY <1>3, WithinNat
  <2>4. QED
    BY <1>3, <2>1, <2>2, <2>3
<1>9. \A i \in DOMAIN recorded' : recorded'[i] <= histogram'.max
  <2>1. /\ histogram.max \in Nat /\ histogram'.max \in Nat /\ timing[t].duration \in Nat
    BY <1>3 DEF HistogramType, TimingType
  <2>2. \A i \in DOMAIN recorded : recorded[i] <= histogram.max /\ recorded[i] \in Nat
    BY <1>3 DEF HistogramInv, HistogramCounts
  <2>3. \A i \in DOMAIN recorded : recorded[i] <= histogram'.max
    BY <2>1, <2>2
  <2>4. CASE left # {}
    BY <1>1, <2>3, <2>4
  <2>5. CASE left = {}
    <3>1. recorded' = Append(recorded, timing[t].duration)
      BY <1>1, <2>5
    <3>2. PICK n \in Nat : n = Len(recorded) /\ DOMAIN recorded = 1 .. n
      BY <1>3
    <3>3. DOMAIN recorded' = 1 .. n + 1 /\ recorded'[n + 1] = timing[t].duration
          /\ \A i \in 1 .. n : recorded'[i] = recorded[i]
      BY <1>3, <2>1, <3>1, <3>2
    <3>4. QED
      BY <2>3, <3>2, <3>3
  <2>6. QED
    BY <2>4, <2>5
<1>10. HistogramCounts'
  BY <1>6, <1>7, <1>8, <1>9 DEF HistogramCounts
<1>11. Onward
  BY <1>2, <1>7, <1>8 DEF Onward
<1>12. QED
  BY <1>4, <1>5, <1>10, <1>11, OnwardKeeps DEF HistogramInv

LEMMA RaiseMaxKeeps ==
  ASSUME HistogramInv, NEW t \in Timer, RaiseMax(t)
  PROVE  HistogramInv'
<1> DEFINE left == timing[t].left
           raised == Max({histogram.max, timing[t].duration})
<1>1. /\ timing[t].step = "max" /\ Proceed(t, left) /\ UNCHANGED <<started, snapshot>>
      /\ histogram' = [histogram EXCEPT !.max = raised]
  BY DEF RaiseMax
<1>2. /\ timing[t] \in TimingType /\ histogram \in HistogramType
      /\ timing[t].left = {b \in Bounds : timing[t].duration <= b}
  BY <1>1 DEF HistogramInv, HistogramTyped, CallsInOrder
<1>3. histogram.max \in Nat /\ timing[t].duration \in Nat /\ left \in SUBSET Bounds
  BY <1>2 DEF HistogramType, TimingType
<1>4. raised \in Nat /\ raised >= histogram.max /\ raised >= timing[t].duration
  <2>1. PICK m \in Int, d \in Int : m = histogram.max /\ d = timing[t].duration
    BY <1>3
  <2>2. Max({m, d}) \in {m, d} /\ Max({m, d}) >= m /\ Max({m, d}) >= d
    BY MaxOfTwo
  <2>3. QED
    BY <1>3, <2>1, <2>2
<1> HIDE DEF raised
<1>5. /\ histogram' \in HistogramType /\ histogram'.count = histogram.count
      /\ histogram'.max = raised /\ histogram'.buckets = histogram.buckets
  BY <1>1, <1>2, <1>4 DEF HistogramType
<1>6. timing[t].duration <= histogram'.max /\ \A b \in left : timing[t].duration <= b
  BY <1>2, <1>3, <1>4, <1>5
<1>7. QED
  BY <1>1, <1>3, <1>4, <1>5, <1>6, ProceedKeeps

LEMMA CountBucketKeeps ==
  ASSUME HistogramInv, NEW t \in Timer, CountBucket(t)
  PROVE  HistogramInv'
<1> DEFINE least == Min(timing[t].left)
           left == timing[t].left \ {least}
<1>1. /\ timing[t].step = "buckets" /\ Proceed(t, left) /\ UNCHANGED <<started, snapshot>>
      /\ histogram' = [histogram EXCEPT !.buckets[least] = @ + 1]
  BY DEF CountBucket
<1>2. /\ timing[t] \in TimingType /\ histogram \in HistogramType
      /\ timing[t].left # {} /\ timing[t].duration <= histogram.max
      /\ \A b \in timing[t].left : timing[t].duration <= b
  BY <1>1 DEF HistogramInv, HistogramTyped, CallsInOrder
<1>3. /\ histogram.max \in Nat /\ timing[t].duration \in Nat /\ timing[t].left \in SUBSET Bounds
      /\ histogram.buckets \in [Bounds -> Nat]
  BY <1>2 DEF HistogramType, TimingType
<1>4. least \in timing[t].left
  BY <1>2, <1>3, HistogramConstants, MinOfNaturals
<1> HIDE DEF least
<1>5. /\ histogram' \in HistogramType /\ histogram'.count = histogram.count
      /\ histogram'.max = histogram.max
      /\ histogram'.buckets = [histogram.buckets EXCEPT ![least] = @ + 1]
  <2>1. PICK n \in Nat, m \in Nat, table \in [Bounds -> Nat] :
          histogram = [count |-> n, max |-> m, buckets |-> table]
    BY <1>2 DEF HistogramType
  <2>2. histogram' = [count |-> n, max |-> m, buckets |-> [table EXCEPT ![least] = @ + 1]]
    BY <1>1, <1>3, <1>4, <2>1
  <2>3. [table EXCEPT ![least] = @ + 1] \in [Bounds -> Nat]
    BY <1>3, <1>4
  <2>4. QED
    BY <2>1, <2>2, <2>3 DEF HistogramType
<1>6. ASSUME NEW b \in Bounds
      PROVE  histogram'.buckets[b] + One(timing[t].duration <= b /\ b \notin timing[t].left)
               = histogram.buckets[b] + One(timing[t].duration <= b /\ b \notin left)
  <2>1. CASE b = least
    <3>1. /\ One(timing[t].duration <= b /\ b \notin timing[t].left) = 0
          /\ One(timing[t].duration <= b /\ b \notin left) = 1
      BY <1>2, <1>4, <2>1 DEF One
    <3>2. histogram'.buckets[b] = histogram.buckets[b] + 1 /\ histogram.buckets[b] \in Nat
      BY <1>3, <1>5, <2>1
    <3>3. QED
      BY <3>1, <3>2
  <2>2. CASE b # least
    <3>1. One(timing[t].duration <= b /\ b \notin timing[t].left)
            = One(timing[t].duration <= b /\ b \notin left)
      BY <2>2 DEF One
    <3>2. histogram'.buckets[b] = histogram.buckets[b]
      BY <1>3, <1>5, <2>2
    <3>3. QED
      BY <3>1, <3>2
  <2>3. QED
    BY <2>1, <2>2
<1>7. /\ left \in SUBSET Bounds /\ left \subseteq timing[t].left
      /\ left # {} =>
           timing[t].duration <= histogram'.max /\ \A b \in left : timing[t].duration <= b
      /\ histogram'.max >= histogram.max /\ histogram'.max >= timing[t].duration
  BY <1>2, <1>3, <1>5
<1> HIDE DEF left
<1>8. QED
  BY <1>1, <1>5, <1>6, <1>7, ProceedKeeps

\* A step of the report leaves the histogram alone.
LEMMA ReadKeeps ==
  ASSUME HistogramInv, UNCHANGED <<histogram, timing, started, recorded>>,
         snapshot' \in SnapshotType
  PROVE  HistogramTyped' /\ CallsInOrder' /\ HistogramCounts'
<1>1. HistogramTyped'
  BY DEF HistogramInv, HistogramTyped
<1>2. CallsInOrder'
  BY DEF HistogramInv, CallsInOrder
<1>3. PastCount(timing') = PastCount(timing)
  BY DEF PastCount
<1>4. \A b \in Nat : PastBucket(timing', b) = PastBucket(timing, b)
                     /\ UnderWay(timing', b) = UnderWay(timing, b)
  BY DEF PastBucket, UnderWay
<1>5. HistogramCounts'
  BY <1>3, <1>4, HistogramConstants DEF HistogramInv, HistogramCounts
<1>6. QED
  BY <1>1, <1>2, <1>5

LEMMA ReadCountKeeps ==
  ASSUME HistogramInv, ReadCount
  PROVE  HistogramInv'
<1> DEFINE quiet == \A t \in Timer : timing[t].step = "idle"
<1>1. /\ UNCHANGED <<histogram, timing, started, recorded>>
      /\ snapshot' = [NoSnapshot EXCEPT !.step = "buckets", !.count = histogram.count,
                        !.left = Bounds, !.quiet = quiet, !.before = recorded]
  BY DEF ReadCount
<1>2. /\ recorded \in Seq(Nat) /\ histogram.count \in Nat /\ histogram.buckets \in [Bounds -> Nat]
  BY DEF HistogramInv, HistogramTyped, HistogramType
<1>3. PICK q \in BOOLEAN : q = quiet
  OBVIOUS
<1> HIDE DEF quiet
<1>4. snapshot' = [step |-> "buckets", count |-> histogram.count,
                   buckets |-> [b \in Bounds |-> 0], left |-> Bounds, quiet |-> q,
                   before |-> recorded, percentile |-> 0]
  BY <1>1, <1>3 DEF NoSnapshot
<1>5. snapshot' \in SnapshotType
  BY <1>2, <1>4 DEF SnapshotType
<1>6. ASSUME q
      PROVE  /\ histogram.count = Len(recorded)
             /\ \A b \in Bounds : Within(recorded, b) = histogram.buckets[b]
  <2>1. PastCount(timing) = {} /\ \A b \in Nat : PastBucket(timing, b) = {}
    BY <1>3, <1>6 DEF quiet, PastCount, PastBucket
  <2>2. Cardinality({}) = 0
    BY FS_EmptySet
  <2>3. histogram.count = Len(recorded)
    BY <1>2, <2>1, <2>2 DEF HistogramInv, HistogramCounts
  <2>4. ASSUME NEW b \in Bounds PROVE Within(recorded, b) = histogram.buckets[b]
    <3>1. b \in Nat
      BY HistogramConstants
    <3>2. Within(recorded, b) \in Nat
      BY <1>2, <3>1, WithinNat
    <3>3. histogram.buckets[b] = Within(recorded, b) + Cardinality(PastBucket(timing, b))
      BY DEF HistogramInv, HistogramCounts
    <3>4. QED
      BY <2>1, <2>2, <3>1, <3>2, <3>3
  <2>5. QED
    BY <2>3, <2>4
<1>7. SnapshotKeepsUp'
  <2>1. ASSUME q, NEW b \in Bounds
        PROVE  Within(recorded, b) <= histogram.buckets[b]
    BY <1>2, <1>6, <2>1
  <2>2. q => histogram.count <= Len(recorded)
    BY <1>2, <1>6
  <2>3. /\ snapshot'.left = Bounds /\ snapshot'.quiet = q /\ snapshot'.before = recorded
        /\ snapshot'.count = histogram.count
    BY <1>4
  <2>4. QED
    BY <1>1, <1>6, <2>1, <2>2, <2>3 DEF SnapshotKeepsUp
<1>8. PercentileIsTrue'
  <2>1. snapshot'.step # "done"
    BY <1>4
  <2>2. QED
    BY <2>1 DEF PercentileIsTrue
<1>9. QED
  BY <1>1, <1>5, <1>7, <1>8, ReadKeeps DEF HistogramInv

LEMMA ReadBucketKeeps ==
  ASSUME HistogramInv, ReadBucket
  PROVE  HistogramInv'
<1> DEFINE least == Min(snapshot.left)
<1>1. /\ UNCHANGED <<histogram, timing, started, recorded>>
      /\ snapshot.step = "buckets" /\ snapshot.left # {}
      /\ snapshot' = [snapshot EXCEPT !.buckets[least] = histogram.buckets[least],
                                      !.left = @ \ {least}]
  BY DEF ReadBucket
<1>2. /\ snapshot \in SnapshotType /\ histogram.buckets \in [Bounds -> Nat]
  BY DEF HistogramInv, HistogramTyped, HistogramType
<1>3. PICK count \in Nat, table \in [Bounds -> Nat], left \in SUBSET Bounds, quiet \in BOOLEAN,
           before \in Seq(Nat), percentile \in Nat :
        snapshot = [step |-> "buckets", count |-> count, buckets |-> table, left |-> left,
                    quiet |-> quiet, before |-> before, percentile |-> percentile]
  BY <1>1, <1>2 DEF SnapshotType
<1>4. least \in left
  BY <1>1, <1>3, HistogramConstants, MinOfNaturals
<1> HIDE DEF least
<1>5. PICK later \in [Bounds -> Nat] : later = [table EXCEPT ![least] = histogram.buckets[least]]
  BY <1>2, <1>4
<1>6. snapshot' = [step |-> "buckets", count |-> count, buckets |-> later,
                   left |-> left \ {least}, quiet |-> quiet, before |-> before,
                   percentile |-> percentile]
  BY <1>1, <1>3, <1>5
<1>7. snapshot' \in SnapshotType
  BY <1>3, <1>6 DEF SnapshotType
<1>8. /\ \A b \in Bounds \ left : table[b] <= histogram.buckets[b]
      /\ quiet =>
           /\ count = Len(before) /\ count <= Len(recorded)
           /\ \A b \in Bounds :
                /\ Within(before, b) <= histogram.buckets[b]
                /\ b \notin left => Within(before, b) <= table[b]
  BY <1>3 DEF HistogramInv, SnapshotKeepsUp
<1>9. ASSUME NEW b \in Bounds, b \notin left \ {least}
      PROVE  /\ later[b] <= histogram.buckets[b]
             /\ quiet => Within(before, b) <= later[b]
  <2>1. CASE b = least
    BY <1>2, <1>5, <1>8, <2>1
  <2>2. CASE b # least
    BY <1>5, <1>8, <1>9, <2>2
  <2>3. QED
    BY <2>1, <2>2
<1>10. SnapshotKeepsUp'
  <2>1. /\ snapshot'.left = left \ {least} /\ snapshot'.quiet = quiet
        /\ snapshot'.before = before /\ snapshot'.count = count /\ snapshot'.buckets = later
    BY <1>6
  <2>2. \A b \in Bounds \ (left \ {least}) : later[b] <= histogram.buckets[b]
    BY <1>9
  <2>3. ASSUME quiet
        PROVE  /\ count = Len(before) /\ count <= Len(recorded)
               /\ \A b \in Bounds :
                    /\ Within(before, b) <= histogram.buckets[b]
                    /\ b \notin left \ {least} => Within(before, b) <= later[b]
    BY <1>8, <1>9, <2>3
  <2>4. QED
    BY <1>1, <2>1, <2>2, <2>3 DEF SnapshotKeepsUp
<1>11. PercentileIsTrue'
  <2>1. snapshot'.step # "done"
    BY <1>6
  <2>2. QED
    BY <2>1 DEF PercentileIsTrue
<1>12. QED
  BY <1>1, <1>7, <1>10, <1>11, ReadKeeps DEF HistogramInv

\* The rank is the least number that is the percentile of the count.
LEMMA RankIs ==
  ASSUME NEW n \in Nat
  PROVE  /\ Rank(n) \in Nat /\ 100 * Rank(n) >= Percentile * n
         /\ \A m \in Nat : m < Rank(n) => 100 * m < Percentile * n
<1>1. PICK p \in Nat : p = Percentile
  BY HistogramConstants
<1>2. PICK x \in Nat : x = n * p /\ x = p * n
  <2>1. n * p \in Nat /\ n * p = p * n
    BY ProductNat
  <2>2. QED
    BY <2>1
<1>3. PICK r \in Nat : r = (x + 99) \div 100
  OBVIOUS
<1>4. 100 * r >= x /\ 100 * r <= x + 99
  BY <1>3
<1>5. ASSUME NEW m \in Nat, m < r PROVE 100 * m < x
  BY <1>4, <1>5
<1>6. Rank(n) = r
  BY <1>1, <1>2, <1>3 DEF Rank
<1>7. QED
  BY <1>1, <1>2, <1>4, <1>5, <1>6

LEMMA ReadMaxKeeps ==
  ASSUME HistogramInv, ReadMax
  PROVE  HistogramInv'
<1> DEFINE n == snapshot.count
           table == snapshot.buckets
           bound == UpperBound(n, table, histogram.max)
           reached == {b \in Bounds : table[b] >= Rank(n)}
<1>1. /\ UNCHANGED <<histogram, timing, started, recorded>>
      /\ snapshot.step = "buckets" /\ snapshot.left = {}
      /\ snapshot' = [snapshot EXCEPT !.step = "done", !.percentile = bound]
  BY DEF ReadMax
<1>2. /\ n \in Nat /\ table \in [Bounds -> Nat] /\ snapshot \in SnapshotType
      /\ histogram.buckets \in [Bounds -> Nat] /\ histogram.max \in Nat
      /\ started \in Seq(Nat) /\ recorded \in Seq(Nat) /\ snapshot.before \in Seq(Nat)
  BY DEF HistogramInv, HistogramTyped, HistogramType, SnapshotType
<1>3. bound = IF reached = {} THEN histogram.max ELSE Min(reached)
  BY DEF UpperBound
<1>4. reached # {} => Min(reached) \in reached /\ \A b \in reached : Min(reached) <= b
  <2>1. reached \subseteq Nat
    BY HistogramConstants
  <2> HIDE DEF reached
  <2>2. QED
    BY <2>1, MinOfNaturals
<1>5. /\ Rank(n) \in Nat /\ 100 * Rank(n) >= Percentile * n
      /\ \A m \in Nat : m < Rank(n) => 100 * m < Percentile * n
  BY <1>2, RankIs
<1>6. bound \in Nat
  BY <1>2, <1>3, <1>4, HistogramConstants
<1>7. /\ \A b \in Bounds : table[b] <= histogram.buckets[b]
      /\ snapshot.quiet =>
           /\ n <= Len(recorded)
           /\ \A b \in Bounds : Within(snapshot.before, b) <= table[b]
  BY <1>1 DEF HistogramInv, SnapshotKeepsUp
<1> HIDE DEF n, table, bound
<1>8. ASSUME NEW b \in Nat
      PROVE  /\ Within(started, b) \in Nat /\ Within(recorded, b) \in Nat
             /\ Within(started, b) >= Within(recorded, b)
             /\ b \in Bounds => Within(started, b) >= histogram.buckets[b]
  <2>1. Within(started, b) \in Nat /\ Within(recorded, b) \in Nat
    BY <1>2, WithinNat
  <2>2. /\ IsFiniteSet(UnderWay(timing, b)) /\ Cardinality(UnderWay(timing, b)) \in Nat
        /\ Cardinality(PastBucket(timing, b)) <= Cardinality(UnderWay(timing, b))
        /\ Cardinality(PastBucket(timing, b)) \in Nat
    <3>1. UnderWay(timing, b) \subseteq Timer /\ PastBucket(timing, b) \subseteq UnderWay(timing, b)
      BY DEF UnderWay, PastBucket
    <3>2. IsFiniteSet(UnderWay(timing, b)) /\ Cardinality(UnderWay(timing, b)) \in Nat
      BY <3>1, HistogramConstants, FS_Subset, FS_CardinalityType
    <3>3. QED
      BY <3>1, <3>2, FS_Subset, FS_CardinalityType
  <2>3. /\ Within(started, b) = Within(recorded, b) + Cardinality(UnderWay(timing, b))
        /\ b \in Bounds =>
             histogram.buckets[b] = Within(recorded, b) + Cardinality(PastBucket(timing, b))
    BY DEF HistogramInv, HistogramCounts
  <2>4. QED
    BY <2>1, <2>2, <2>3
<1>9. ASSUME snapshot.quiet, n > 0
      PROVE  100 * Within(started, bound) >= Percentile * n
  <2>1. PICK p \in Nat, w \in Nat : p = bound /\ w = Within(started, p)
    BY <1>6, <1>8
  <2>2. PICK x \in Nat : x = Percentile * n
    <3>1. Percentile \in Nat /\ n \in Nat
      BY <1>2, HistogramConstants
    <3>2. Percentile * n \in Nat
      BY <3>1, ProductNat
    <3>3. QED
      BY <3>2
  <2>3. CASE reached # {}
    <3>1. p \in Bounds /\ table[p] >= Rank(n)
      <4>1. p = Min(reached) /\ Min(reached) \in reached
        BY <1>3, <1>4, <2>1, <2>3, Zenon
      <4>2. p \in reached
        BY <4>1, Zenon
      <4>3. QED
        BY <4>2
    <3>2. w >= table[p]
      <4>1. Within(started, p) >= histogram.buckets[p]
        BY <1>8, <3>1
      <4>2. table[p] <= histogram.buckets[p]
        BY <1>7, <3>1
      <4>3. table[p] \in Nat /\ histogram.buckets[p] \in Nat
        BY <1>2, <3>1
      <4>4. QED
        BY <2>1, <4>1, <4>2, <4>3
    <3>3. PICK k \in Nat, r \in Nat : k = table[p] /\ r = Rank(n)
      BY <1>2, <1>5, <3>1
    <3>4. 100 * r >= x /\ k >= r /\ w >= k
      BY <1>5, <2>2, <3>1, <3>2, <3>3
    <3>5. 100 * w >= x
      BY <3>4
    <3>6. QED
      BY <2>1, <2>2, <3>5
  <2>4. CASE reached = {}
    <3>1. p = histogram.max
      BY <1>3, <2>1, <2>4
    <3>2. Within(recorded, p) = Len(recorded)
      BY <1>2, <3>1, WithinAll DEF HistogramInv, HistogramCounts
    <3>3. w >= n /\ n \in Nat
      BY <1>2, <1>7, <1>8, <1>9, <2>1, <3>2
    <3>4. x <= 100 * n
      <4>1. PICK c \in 1 .. 100, m \in Nat : c = Percentile /\ m = n
        BY <1>2, HistogramConstants
      <4>2. c * m <= 100 * m
        OBVIOUS
      <4>3. QED
        BY <2>2, <4>1, <4>2
    <3>5. 100 * w >= x
      BY <3>3, <3>4
    <3>6. QED
      BY <2>1, <2>2, <3>5
  <2>5. QED
    BY <2>3, <2>4
<1>10. ASSUME snapshot.quiet, NEW b \in Bounds, b < bound
       PROVE  100 * Within(snapshot.before, b) < Percentile * n
  <2>1. b \notin reached
    <3>1. CASE reached = {}
      BY <3>1
    <3>2. CASE reached # {}
      <4>1. bound = Min(reached) /\ b \in Nat
        BY <1>3, <3>2, HistogramConstants
      <4>2. b \in reached => bound <= b
        BY <1>4, <3>2, <4>1
      <4>3. QED
        BY <1>6, <1>10, <4>1, <4>2
    <3>3. QED
      BY <3>1, <3>2
  <2>2. table[b] \in Nat /\ ~(table[b] >= Rank(n))
    BY <1>2, <2>1
  <2>3. PICK m \in Nat : m = Within(snapshot.before, b)
    BY <1>2, HistogramConstants, WithinNat
  <2>4. m <= table[b]
    BY <1>7, <1>10, <2>3
  <2>5. m < Rank(n)
    BY <1>5, <2>2, <2>4
  <2>6. QED
    BY <1>5, <2>3, <2>5
<1>11. /\ snapshot'.step = "done" /\ snapshot'.quiet = snapshot.quiet
       /\ snapshot'.before = snapshot.before /\ snapshot'.count = n
       /\ snapshot'.percentile = bound /\ snapshot'.buckets = table
       /\ snapshot'.left = snapshot.left /\ snapshot' \in SnapshotType
  BY <1>1, <1>2, <1>6 DEF SnapshotType, n, table
<1>12. PercentileIsTrue'
  BY <1>1, <1>9, <1>10, <1>11 DEF PercentileIsTrue
<1>13. SnapshotKeepsUp'
  BY <1>1, <1>11 DEF HistogramInv, SnapshotKeepsUp, n, table
<1>14. QED
  BY <1>1, <1>11, <1>12, <1>13, ReadKeeps DEF HistogramInv

LEMMA HistogramSteps ==
  ASSUME HistogramInv, HistogramNext \/ UNCHANGED histogramVars
  PROVE  HistogramInv'
<1>1. CASE \E t \in Timer : \/ \E d \in Durations : StartTiming(t, d)
                            \/ CountDuration(t) \/ RaiseMax(t) \/ CountBucket(t)
  BY <1>1, StartTimingKeeps, CountDurationKeeps, RaiseMaxKeeps, CountBucketKeeps
<1>2. CASE ReadCount \/ ReadBucket \/ ReadMax
  BY <1>2, ReadCountKeeps, ReadBucketKeeps, ReadMaxKeeps
<1>3. CASE UNCHANGED histogramVars
  <2>1. /\ UNCHANGED <<histogram, timing, started, recorded>> /\ snapshot' = snapshot
    BY <1>3 DEF histogramVars
  <2>2. snapshot' \in SnapshotType
    BY <2>1 DEF HistogramInv, HistogramTyped
  <2>3. HistogramTyped' /\ CallsInOrder' /\ HistogramCounts'
    BY <2>1, <2>2, ReadKeeps
  <2>4. SnapshotKeepsUp' /\ PercentileIsTrue'
    BY <2>1 DEF HistogramInv, SnapshotKeepsUp, PercentileIsTrue
  <2>5. QED
    BY <2>3, <2>4 DEF HistogramInv
<1>4. QED
  BY <1>1, <1>2, <1>3 DEF HistogramNext

-----------------------------------------------------------------------------
\* The calls that record, step by step.

\* What a call of a kind may have left to do.
Left(kind) ==
  CASE kind \in Protocol ->
         {<<"count", "stamp", "protocol", "stream">>, <<"stamp", "protocol", "stream">>,
          <<"protocol", "stream">>, <<"stream">>}
    [] kind \in Stamped \ Protocol ->
         {<<"count", "stamp", "stream">>, <<"stamp", "stream">>, <<"stream">>}
    [] kind \in Failure ->
         {<<"count", "stream", "alert">>, <<"stream", "alert">>, <<"alert">>}
    [] kind \in {"mesh", "tracks"} -> {<<"count", "stream">>, <<"stream">>}
    [] kind = "damage" -> {<<"count">>}

\* The step after another, and "done" after the last.
Then(kind, step) ==
  CASE step = "count" -> IF kind = "damage" THEN "done"
                         ELSE IF kind \in Stamped THEN "stamp" ELSE "stream"
    [] step = "stamp" -> IF kind \in Protocol THEN "protocol" ELSE "stream"
    [] step = "protocol" -> "stream"
    [] step = "stream" -> IF kind \in Failure THEN "alert" ELSE "done"
    [] step = "alert" -> "done"

LEMMA StepsLeft ==
  ASSUME NEW kind \in Kind
  PROVE  Steps[kind] \in Left(kind) /\ Head(Steps[kind]) = "count" /\ Steps[kind] # <<>>
BY DEF Steps, Left, Kind, Input, Failure, Protocol, Stamped, RecordRawHttp,
       RecordMediaAccessUnit, RecordMeshForwardSuccess, RecordMeshForwardError,
       RecordMpegTsSlot, RecordMpegTsDamage, RecordRtmpAccessUnit, RecordFmp4Part,
       RecordFmp4Tracks, RecordFmp4PublishError

LEMMA LeftIs ==
  ASSUME NEW kind \in Kind, NEW todo \in Left(kind)
  PROVE  /\ todo # <<>>
         /\ Head(todo) \in {"count", "stamp", "protocol", "stream", "alert"}
         /\ Head(todo) = "stamp" => kind \in Stamped
         /\ Head(todo) = "protocol" => kind \in Protocol
         /\ Head(todo) = "stream" => kind # "damage"
         /\ Head(todo) = "alert" => kind \in Failure
         /\ Len(todo) = 1 <=> Then(kind, Head(todo)) = "done"
         /\ Len(todo) # 1 => /\ Tail(todo) \in Left(kind)
                             /\ Head(Tail(todo)) = Then(kind, Head(todo))
<1>1. \A a, b, c, d :
        /\ Head(<<a>>) = a /\ Len(<<a>>) = 1 /\ <<a>> # <<>>
        /\ Head(<<a, b>>) = a /\ Len(<<a, b>>) = 2 /\ <<a, b>> # <<>>
        /\ Head(<<a, b, c>>) = a /\ Len(<<a, b, c>>) = 3 /\ <<a, b, c>> # <<>>
        /\ Head(<<a, b, c, d>>) = a /\ Len(<<a, b, c, d>>) = 4 /\ <<a, b, c, d>> # <<>>
  OBVIOUS
<1>2. \A a, b, c, d :
        /\ Tail(<<a, b>>) = <<b>>
        /\ Tail(<<a, b, c>>) = <<b, c>>
        /\ Tail(<<a, b, c, d>>) = <<b, c, d>>
  OBVIOUS
<1>3. CASE kind \in Protocol
  <2>1. /\ Left(kind) = {<<"count", "stamp", "protocol", "stream">>,
                         <<"stamp", "protocol", "stream">>,
                         <<"protocol", "stream">>, <<"stream">>}
        /\ kind \in Stamped /\ kind # "damage" /\ kind \notin Failure
    BY <1>3 DEF Left, Input, Failure, Protocol, Stamped
  <2>2. /\ Then(kind, "count") = "stamp" /\ Then(kind, "stamp") = "protocol"
        /\ Then(kind, "protocol") = "stream" /\ Then(kind, "stream") = "done"
    BY <1>3, <2>1 DEF Then
  <2>3. CASE todo = <<"count", "stamp", "protocol", "stream">>
    BY <1>1, <1>2, <1>3, <2>1, <2>2, <2>3
  <2>4. CASE todo = <<"stamp", "protocol", "stream">>
    BY <1>1, <1>2, <1>3, <2>1, <2>2, <2>4
  <2>5. CASE todo = <<"protocol", "stream">>
    BY <1>1, <1>2, <1>3, <2>1, <2>2, <2>5
  <2>6. CASE todo = <<"stream">>
    BY <1>1, <1>2, <1>3, <2>1, <2>2, <2>6
  <2>7. QED
    BY <2>1, <2>3, <2>4, <2>5, <2>6
<1>4. CASE kind \in Stamped \ Protocol
  <2>1. /\ Left(kind) = {<<"count", "stamp", "stream">>, <<"stamp", "stream">>, <<"stream">>}
        /\ kind \in Stamped /\ kind # "damage" /\ kind \notin Failure /\ kind \notin Protocol
    BY <1>4 DEF Left, Input, Failure, Protocol, Stamped
  <2>2. /\ Then(kind, "count") = "stamp" /\ Then(kind, "stamp") = "stream"
        /\ Then(kind, "stream") = "done"
    BY <2>1 DEF Then
  <2>3. CASE todo = <<"count", "stamp", "stream">>
    BY <1>1, <1>2, <2>1, <2>2, <2>3
  <2>4. CASE todo = <<"stamp", "stream">>
    BY <1>1, <1>2, <2>1, <2>2, <2>4
  <2>5. CASE todo = <<"stream">>
    BY <1>1, <1>2, <2>1, <2>2, <2>5
  <2>6. QED
    BY <2>1, <2>3, <2>4, <2>5
<1>5. CASE kind \in Failure
  <2>1. /\ Left(kind) = {<<"count", "stream", "alert">>, <<"stream", "alert">>, <<"alert">>}
        /\ kind \notin Stamped /\ kind # "damage"
    BY <1>5 DEF Left, Input, Failure, Protocol, Stamped
  <2>2. /\ Then(kind, "count") = "stream" /\ Then(kind, "stream") = "alert"
        /\ Then(kind, "alert") = "done"
    BY <1>5, <2>1 DEF Then
  <2>3. CASE todo = <<"count", "stream", "alert">>
    BY <1>1, <1>2, <1>5, <2>1, <2>2, <2>3
  <2>4. CASE todo = <<"stream", "alert">>
    BY <1>1, <1>2, <1>5, <2>1, <2>2, <2>4
  <2>5. CASE todo = <<"alert">>
    BY <1>1, <1>2, <1>5, <2>1, <2>2, <2>5
  <2>6. QED
    BY <2>1, <2>3, <2>4, <2>5
<1>6. CASE kind \in {"mesh", "tracks"}
  <2>1. /\ Left(kind) = {<<"count", "stream">>, <<"stream">>}
        /\ kind \notin Stamped /\ kind # "damage" /\ kind \notin Failure
    BY <1>6 DEF Left, Input, Failure, Protocol, Stamped
  <2>2. Then(kind, "count") = "stream" /\ Then(kind, "stream") = "done"
    BY <2>1 DEF Then
  <2>3. CASE todo = <<"count", "stream">>
    BY <1>1, <1>2, <2>1, <2>2, <2>3
  <2>4. CASE todo = <<"stream">>
    BY <1>1, <1>2, <2>1, <2>2, <2>4
  <2>5. QED
    BY <2>1, <2>3, <2>4
<1>7. CASE kind = "damage"
  BY <1>7 DEF Left, Then, Kind, Input, Failure, Protocol, Stamped
<1>8. QED
  BY <1>3, <1>4, <1>5, <1>6, <1>7 DEF Kind, Input, Failure, Protocol, Stamped

LEMMA StampLeft ==
  ASSUME NEW kind \in Stamped, NEW todo \in Left(kind), Head(todo) \in {"count", "stamp"}
  PROVE  Contains(todo, "stamp")
<1>1. /\ Contains(<<"count", "stamp", "protocol", "stream">>, "stamp")
      /\ Contains(<<"stamp", "protocol", "stream">>, "stamp")
      /\ Contains(<<"count", "stamp", "stream">>, "stamp")
      /\ Contains(<<"stamp", "stream">>, "stamp")
      /\ Head(<<"protocol", "stream">>) = "protocol" /\ Head(<<"stream">>) = "stream"
  BY DEF Contains
<1>2. CASE kind \in Protocol
  <2>1. Left(kind) = {<<"count", "stamp", "protocol", "stream">>,
                      <<"stamp", "protocol", "stream">>, <<"protocol", "stream">>, <<"stream">>}
    BY <1>2 DEF Left, Input, Failure, Protocol, Stamped
  <2>2. todo = <<"count", "stamp", "protocol", "stream">> => Contains(todo, "stamp")
    BY <1>1
  <2>3. todo = <<"stamp", "protocol", "stream">> => Contains(todo, "stamp")
    BY <1>1
  <2>4. todo # <<"protocol", "stream">> /\ todo # <<"stream">>
    BY <1>1
  <2>5. QED
    BY <2>1, <2>2, <2>3, <2>4
<1>3. CASE kind \in Stamped \ Protocol
  <2>1. Left(kind) = {<<"count", "stamp", "stream">>, <<"stamp", "stream">>, <<"stream">>}
    BY <1>3 DEF Left, Input, Failure, Protocol, Stamped
  <2>2. todo = <<"count", "stamp", "stream">> => Contains(todo, "stamp")
    BY <1>1
  <2>3. todo = <<"stamp", "stream">> => Contains(todo, "stamp")
    BY <1>1
  <2>4. todo # <<"stream">>
    BY <1>1
  <2>5. QED
    BY <2>1, <2>2, <2>3, <2>4
<1>4. QED
  BY <1>2, <1>3

LEMMA JoinedSequences ==
  ASSUME NEW T, NEW s \in Seq(T), NEW t \in Seq(T), NEW m \in Nat, NEW n \in Nat,
         Len(s) = m, Len(t) = n
  PROVE  /\ Len(s \o t) = m + n /\ DOMAIN (s \o t) = 1 .. m + n
         /\ \A i \in 1 .. m + n : (s \o t)[i] = IF i <= m THEN s[i] ELSE t[i - m]
<1>1. PICK u : u = s \o t
  OBVIOUS
<1>2. s \o t \in Seq(T) /\ Len(s \o t) = m + n
  BY ConcatProperties
<1>3. DOMAIN u = 1 .. m + n /\ Len(u) = m + n
  <2>1. u \in Seq(T) /\ Len(u) = m + n
    BY <1>1, <1>2, Zenon
  <2>2. QED
    BY <2>1
<1>4. ASSUME NEW i \in 1 .. m + n PROVE (s \o t)[i] = IF i <= m THEN s[i] ELSE t[i - m]
  BY ConcatProperties
<1>5. QED
  BY <1>1, <1>3, <1>4

LEMMA Loads ==
  /\ LoadOrder[1] = Load("protocol", "") /\ LoadOrder[2] = Load("runtime", "")
  /\ Len(LoadOrder) = 18 /\ DOMAIN LoadOrder = 1 .. 18
  /\ \A i \in 3 .. 18 : LoadOrder[i] = Counters[i - 2]
<1>1. /\ Tables[1] = Load("protocol", "") /\ Tables[2] = Load("runtime", "")
      /\ Tables = [i \in 1 .. 2 |-> Tables[i]]
  BY DEF Tables
<1>2. Counters = [i \in 1 .. 16 |-> Counters[i]]
  BY DEF Counters
<1>3. PICK T : (\A i \in 1 .. 2 : Tables[i] \in T) /\ (\A i \in 1 .. 16 : Counters[i] \in T)
  <2> DEFINE U == {Tables[i] : i \in 1 .. 2} \cup {Counters[i] : i \in 1 .. 16}
  <2>1. (\A i \in 1 .. 2 : Tables[i] \in U) /\ (\A i \in 1 .. 16 : Counters[i] \in U)
    OBVIOUS
  <2>2. QED
    BY <2>1
<1>4. PICK s \in Seq(T), t \in Seq(T) :
        s = Tables /\ t = Counters /\ Len(s) = 2 /\ Len(t) = 16
  <2>1. PICK s, t : s = Tables /\ t = Counters
    OBVIOUS
  <2>2. s = [i \in 1 .. 2 |-> s[i]] /\ \A i \in 1 .. 2 : s[i] \in T
    BY <1>1, <1>3, <2>1, Zenon
  <2>3. t = [i \in 1 .. 16 |-> t[i]] /\ \A i \in 1 .. 16 : t[i] \in T
    BY <1>2, <1>3, <2>1, Zenon
  <2>4. s \in Seq(T) /\ Len(s) = 2
    BY <2>2
  <2>5. t \in Seq(T) /\ Len(t) = 16
    BY <2>3
  <2>6. QED
    BY <2>1, <2>4, <2>5
<1>5. PICK order : order = s \o t
  OBVIOUS
<1>6. /\ Len(order) = 18 /\ DOMAIN order = 1 .. 18
      /\ \A i \in 1 .. 18 : order[i] = IF i <= 2 THEN s[i] ELSE t[i - 2]
  <2>1. PICK m \in Nat, n \in Nat : m = 2 /\ n = 16
    OBVIOUS
  <2>2. /\ Len(order) = m + n /\ DOMAIN order = 1 .. m + n
        /\ \A i \in 1 .. m + n : order[i] = IF i <= m THEN s[i] ELSE t[i - m]
    <3>1. /\ Len(s \o t) = m + n /\ DOMAIN (s \o t) = 1 .. m + n
          /\ \A i \in 1 .. m + n : (s \o t)[i] = IF i <= m THEN s[i] ELSE t[i - m]
      <4>1. s \in Seq(T) /\ t \in Seq(T) /\ Len(s) = m /\ Len(t) = n
        BY <1>4, <2>1
      <4>2. QED
        BY <4>1, JoinedSequences
    <3>2. QED
      BY <1>5, <3>1, Zenon
  <2>3. QED
    BY <2>1, <2>2
<1>7. order = LoadOrder
  BY <1>4, <1>5 DEF LoadOrder
<1>8. /\ order[1] = s[1] /\ order[2] = s[2]
      /\ \A i \in 3 .. 18 : order[i] = t[i - 2]
  BY <1>6
<1>9. QED
  BY <1>1, <1>4, <1>6, <1>7, <1>8, Zenon

\* Where the report loads a counter.
Place == [raw |-> 1, media |-> 3, mesh |-> 5, meshError |-> 6, ts |-> 8, damage |-> 10,
          rtmp |-> 11, part |-> 13, partError |-> 14, tracks |-> 16]
StampPlace == [raw |-> 2, media |-> 4, ts |-> 9, rtmp |-> 12, part |-> 15]

LEMMA LoadsCounters ==
  /\ \A i \in 1 .. 16 :
       \/ Counters[i] = Load("impaired", "")
       \/ \E k \in Kind : Counters[i] = Load("count", k)
       \/ \E k \in Stamped : Counters[i] = Load("stamp", k)
  /\ \A k \in Kind : Place[k] \in 1 .. 16 /\ Counters[Place[k]] = Load("count", k)
  /\ \A k \in Stamped : StampPlace[k] \in 1 .. 16 /\ Counters[StampPlace[k]] = Load("stamp", k)
<1>1. /\ Counters[1] = Load("count", "raw") /\ Counters[2] = Load("stamp", "raw")
      /\ Counters[3] = Load("count", "media") /\ Counters[4] = Load("stamp", "media")
      /\ Counters[5] = Load("count", "mesh") /\ Counters[6] = Load("count", "meshError")
      /\ Counters[7] = Load("impaired", "")
      /\ Counters[8] = Load("count", "ts") /\ Counters[9] = Load("stamp", "ts")
      /\ Counters[10] = Load("count", "damage")
      /\ Counters[11] = Load("count", "rtmp") /\ Counters[12] = Load("stamp", "rtmp")
      /\ Counters[13] = Load("count", "part") /\ Counters[14] = Load("count", "partError")
      /\ Counters[15] = Load("stamp", "part") /\ Counters[16] = Load("count", "tracks")
  BY DEF Counters
<1>2. /\ "raw" \in Kind /\ "media" \in Kind /\ "mesh" \in Kind /\ "meshError" \in Kind
      /\ "ts" \in Kind /\ "damage" \in Kind /\ "rtmp" \in Kind /\ "part" \in Kind
      /\ "partError" \in Kind /\ "tracks" \in Kind
      /\ "raw" \in Stamped /\ "media" \in Stamped /\ "ts" \in Stamped /\ "rtmp" \in Stamped
      /\ "part" \in Stamped
  BY DEF Kind, Input, Failure, Stamped
<1>3. ASSUME NEW i \in 1 .. 16
      PROVE  \/ Counters[i] = Load("impaired", "")
             \/ \E k \in Kind : Counters[i] = Load("count", k)
             \/ \E k \in Stamped : Counters[i] = Load("stamp", k)
  <2>1. i \in {1, 3, 5, 6, 8, 10, 11, 13, 14, 16} => \E k \in Kind : Counters[i] = Load("count", k)
    BY <1>1, <1>2
  <2>2. i \in {2, 4, 9, 12, 15} => \E k \in Stamped : Counters[i] = Load("stamp", k)
    BY <1>1, <1>2
  <2>3. i \in {1, 3, 5, 6, 8, 10, 11, 13, 14, 16} \/ i \in {2, 4, 9, 12, 15} \/ i = 7
    OBVIOUS
  <2>4. QED
    BY <1>1, <2>1, <2>2, <2>3
<1>4. /\ Place["raw"] = 1 /\ Place["media"] = 3 /\ Place["mesh"] = 5 /\ Place["meshError"] = 6
      /\ Place["ts"] = 8 /\ Place["damage"] = 10 /\ Place["rtmp"] = 11 /\ Place["part"] = 13
      /\ Place["partError"] = 14 /\ Place["tracks"] = 16
      /\ StampPlace["raw"] = 2 /\ StampPlace["media"] = 4 /\ StampPlace["ts"] = 9
      /\ StampPlace["rtmp"] = 12 /\ StampPlace["part"] = 15
  BY DEF Place, StampPlace
<1>5. ASSUME NEW k \in Kind
      PROVE  Place[k] \in 1 .. 16 /\ Counters[Place[k]] = Load("count", k)
  <2>1. \/ k = "raw" \/ k = "media" \/ k = "mesh" \/ k = "meshError" \/ k = "ts"
        \/ k = "damage" \/ k = "rtmp" \/ k = "part" \/ k = "partError" \/ k = "tracks"
    BY DEF Kind, Input, Failure
  <2>2. PICK p : p = Place[k]
    OBVIOUS
  <2>3. /\ p \in {1, 3, 5, 6, 8, 10, 11, 13, 14, 16}
        /\ Counters[p] = Load("count", k)
    BY <1>1, <1>4, <2>1, <2>2
  <2>4. QED
    BY <2>2, <2>3
<1>6. ASSUME NEW k \in Stamped
      PROVE  StampPlace[k] \in 1 .. 16 /\ Counters[StampPlace[k]] = Load("stamp", k)
  <2>1. k = "raw" \/ k = "media" \/ k = "ts" \/ k = "rtmp" \/ k = "part"
    BY DEF Input, Stamped
  <2>2. PICK p : p = StampPlace[k]
    OBVIOUS
  <2>3. p \in {2, 4, 9, 12, 15} /\ Counters[p] = Load("stamp", k)
    BY <1>1, <1>4, <2>1, <2>2
  <2>4. QED
    BY <2>2, <2>3
<1>7. QED
  BY <1>3, <1>5, <1>6

-----------------------------------------------------------------------------
\* The calls that record.

CallSet ==
  {c \in [kind : Kind, stream : Observed, detail : Nat, n : Nat, now : Nat,
          todo : UNION {Left(k) : k \in Kind}] : c.todo \in Left(c.kind)}

\* The step a call is at.
At(c) == IF c.todo = <<>> THEN "done" ELSE Head(c.todo)

AlertType == [kind : Failure, stream : Observed, detail : Nat, count : Nat]
BeganType == [count : [Kind -> Nat], stamp : [Stamped -> Nat]]
States == {"none", "degraded", "stale", "active", "stalled", "ingesting", "waiting"}
Codes == {"waiting_for_input", "fmp4_output_stale", "fmp4_input_without_output",
          "relay_lane_impaired", "mpeg_ts_input_damage"}
ReportType ==
  [at : Nat, now : Nat, state : States, derived : SUBSET Codes, count : [Kind -> Nat],
   stamp : [Stamped -> Nat], protocol : [Protocol -> Nat],
   runtime : [Observed -> [Fields -> Nat]], impaired : BOOLEAN, began : BeganType]

TelemetryTyped ==
  /\ counters \in [Kind -> Nat] /\ stamp \in [Stamped -> Nat]
  /\ protocols \in [Protocol -> Nat] /\ runtime \in [Observed -> [Fields -> Nat]]
  /\ alerts \in Seq(AlertType)
  /\ recording \in [Recorder -> CallSet \cup {NoCall}]
  /\ report \in ReportType /\ impaired \in BOOLEAN
  /\ reports \in Nat /\ clock \in Nat

LEMMA CallFields ==
  ASSUME NEW c \in CallSet
  PROVE  \E kind \in Kind, stream \in Observed, detail \in Nat, n \in Nat, now \in Nat :
           \E todo \in Left(kind) :
             c = [kind |-> kind, stream |-> stream, detail |-> detail, n |-> n, now |-> now,
                  todo |-> todo]
<1>1. PICK kind \in Kind, stream \in Observed, detail \in Nat, n \in Nat, now \in Nat,
          todo \in UNION {Left(k) : k \in Kind} :
        c = [kind |-> kind, stream |-> stream, detail |-> detail, n |-> n, now |-> now,
             todo |-> todo]
  BY DEF CallSet
<1>2. todo \in Left(kind)
  BY <1>1 DEF CallSet
<1>3. QED
  BY <1>1, <1>2

LEMMA CallMade ==
  ASSUME NEW kind \in Kind, NEW stream \in Observed, NEW detail \in Nat, NEW n \in Nat,
         NEW now \in Nat, NEW todo \in Left(kind),
         NEW c, c = [kind |-> kind, stream |-> stream, detail |-> detail, n |-> n, now |-> now,
                     todo |-> todo]
  PROVE  c \in CallSet
<1>1. todo \in UNION {Left(k) : k \in Kind}
  OBVIOUS
<1>2. QED
  BY <1>1 DEF CallSet

LEMMA AtIs ==
  /\ At(NoCall) = "done"
  /\ \A c \in CallSet :
       /\ At(c) \in {"count", "stamp", "protocol", "stream", "alert"} /\ At(c) = Head(c.todo)
       /\ At(c) = "stamp" => c.kind \in Stamped
       /\ At(c) = "protocol" => c.kind \in Protocol
       /\ At(c) = "stream" => c.kind # "damage"
       /\ At(c) = "alert" => c.kind \in Failure
       /\ c.kind \in Kind /\ c.stream \in Observed /\ c.todo # <<>> /\ c.todo \in Left(c.kind)
       /\ c.detail \in Nat /\ c.n \in Nat /\ c.now \in Nat
<1>1. At(NoCall) = "done"
  BY DEF At, NoCall
<1>2. ASSUME NEW c \in CallSet
      PROVE  /\ At(c) \in {"count", "stamp", "protocol", "stream", "alert"}
             /\ At(c) = Head(c.todo)
             /\ At(c) = "stamp" => c.kind \in Stamped
             /\ At(c) = "protocol" => c.kind \in Protocol
             /\ At(c) = "stream" => c.kind # "damage"
             /\ At(c) = "alert" => c.kind \in Failure
             /\ c.kind \in Kind /\ c.stream \in Observed /\ c.todo # <<>>
             /\ c.todo \in Left(c.kind) /\ c.detail \in Nat /\ c.n \in Nat /\ c.now \in Nat
  <2>1. /\ c.kind \in Kind /\ c.stream \in Observed /\ c.todo \in Left(c.kind)
        /\ c.detail \in Nat /\ c.n \in Nat /\ c.now \in Nat
    BY DEF CallSet
  <2>2. PICK kind \in Kind : kind = c.kind
    BY <2>1
  <2>3. PICK todo \in Left(kind) : todo = c.todo
    BY <2>1, <2>2
  <2>4. /\ todo # <<>>
        /\ Head(todo) \in {"count", "stamp", "protocol", "stream", "alert"}
        /\ Head(todo) = "stamp" => kind \in Stamped
        /\ Head(todo) = "protocol" => kind \in Protocol
        /\ Head(todo) = "stream" => kind # "damage"
        /\ Head(todo) = "alert" => kind \in Failure
    BY LeftIs
  <2>5. QED
    BY <2>1, <2>3, <2>4, <2>2 DEF At
<1>3. QED
  BY <1>1, <1>2

\* What a step of a call leaves of it.
LEMMA RecordIs ==
  ASSUME TelemetryTyped, NEW t \in Recorder, Record(t)
  PROVE  \E c \in CallSet, d \in CallSet \cup {NoCall} :
           /\ c = recording[t] /\ recording' = [recording EXCEPT ![t] = d]
           /\ At(d) = Then(c.kind, At(c))
           /\ At(d) # "done" =>
                /\ d \in CallSet /\ d.kind = c.kind /\ d.stream = c.stream /\ d.now = c.now
                /\ d.detail = c.detail
                /\ d.n = IF At(c) = "count" THEN counters'[c.kind] ELSE c.n
<1>1. recording[t].todo # <<>> /\ recording[t] \in CallSet \cup {NoCall}
  BY DEF Record, TelemetryTyped
<1>2. PICK c \in CallSet : c = recording[t]
  BY <1>1 DEF NoCall
<1>3. PICK kind \in Kind, stream \in Observed, detail \in Nat, n \in Nat, now \in Nat :
        \E todo \in Left(kind) :
          c = [kind |-> kind, stream |-> stream, detail |-> detail, n |-> n, now |-> now,
               todo |-> todo]
  BY CallFields
<1>4. PICK todo \in Left(kind) :
        c = [kind |-> kind, stream |-> stream, detail |-> detail, n |-> n, now |-> now,
             todo |-> todo]
  BY <1>3
<1>5. At(c) = Head(todo) /\ c.kind = kind
  BY <1>4, AtIs
<1>6. PICK m \in Nat : m = IF Head(todo) = "count" THEN counters'[kind] ELSE n
  <2>1. CASE Head(todo) = "count"
    <3>1. counters' = [counters EXCEPT ![kind] = @ + 1]
      BY <1>2, <1>4, <2>1 DEF Record
    <3>2. QED
      BY <2>1, <3>1 DEF TelemetryTyped
  <2>2. CASE Head(todo) # "count"
    BY <2>2
  <2>3. QED
    BY <2>1, <2>2
<1>7. recording' = [recording EXCEPT ![t] =
        IF Len(todo) = 1 THEN NoCall
        ELSE [kind |-> kind, stream |-> stream, detail |-> detail, n |-> m, now |-> now,
              todo |-> Tail(todo)]]
  <2>1. [c EXCEPT !.todo = Tail(@), !.n = IF Head(c.todo) = "count" THEN counters'[c.kind] ELSE @]
          = [kind |-> kind, stream |-> stream, detail |-> detail, n |-> m, now |-> now,
             todo |-> Tail(todo)]
    <3>1. c.todo = todo /\ c.n = n /\ c.kind = kind
      BY <1>4
    <3>2. PICK rest : rest = Tail(todo)
      OBVIOUS
    <3>3. PICK e : e = [c EXCEPT !.todo = rest]
      OBVIOUS
    <3>4. e = [kind |-> kind, stream |-> stream, detail |-> detail, n |-> n, now |-> now,
               todo |-> rest]
      BY <1>4, <3>3
    <3>5. [e EXCEPT !.n = m] = [kind |-> kind, stream |-> stream, detail |-> detail, n |-> m,
                                now |-> now, todo |-> rest]
      BY <3>4
    <3>6. [c EXCEPT !.todo = Tail(@), !.n = IF Head(c.todo) = "count" THEN counters'[c.kind] ELSE @]
            = [e EXCEPT !.n = m]
      BY <1>6, <3>1, <3>2, <3>3
    <3>7. QED
      BY <3>2, <3>5, <3>6
  <2>2. recording' = [recording EXCEPT ![t] =
          IF Len(c.todo) = 1 THEN NoCall
          ELSE [c EXCEPT !.todo = Tail(@),
                         !.n = IF Head(c.todo) = "count" THEN counters'[c.kind] ELSE @]]
    BY <1>2 DEF Record
  <2>3. c.todo = todo
    BY <1>4
  <2>4. QED
    BY <2>1, <2>2, <2>3
<1>8. CASE Len(todo) = 1
  <2>1. Then(kind, Head(todo)) = "done"
    BY <1>8, LeftIs
  <2>2. QED
    BY <1>2, <1>5, <1>7, <1>8, <2>1, AtIs
<1>9. CASE Len(todo) # 1
  <2>1. Tail(todo) \in Left(kind) /\ Head(Tail(todo)) = Then(kind, Head(todo))
    BY <1>9, LeftIs
  <2>2. PICK rest \in Left(kind) : rest = Tail(todo)
    BY <2>1
  <2>3. PICK d : d = [kind |-> kind, stream |-> stream, detail |-> detail, n |-> m, now |-> now,
                      todo |-> rest]
    OBVIOUS
  <2>4. d \in CallSet
    BY <2>3, CallMade
  <2>5. At(d) = Then(kind, Head(todo))
    BY <2>1, <2>2, <2>3, <2>4, AtIs
  <2>6. recording' = [recording EXCEPT ![t] = d]
    BY <1>7, <1>9, <2>2, <2>3
  <2>7. /\ d.kind = kind /\ d.stream = stream /\ d.now = now /\ d.detail = detail /\ d.n = m
        /\ c.kind = kind /\ c.stream = stream /\ c.now = now /\ c.detail = detail /\ c.n = n
    BY <1>4, <2>3
  <2>8. QED
    BY <1>2, <1>5, <1>6, <2>4, <2>5, <2>6, <2>7
<1>10. QED
  BY <1>8, <1>9

-----------------------------------------------------------------------------
\* The totals.

LEMMA TelemetryConstants ==
  /\ IsFiniteSet(Recorder) /\ IsFiniteSet(Observed) /\ AlertLimit \in Nat \ {0}
  /\ StaleAfter \in Nat
BY TelemetryAssumption

LEMMA InputFinite == IsFiniteSet(Input)
<1>1. IsFiniteSet({"raw"}) /\ IsFiniteSet({"media"}) /\ IsFiniteSet({"ts"})
      /\ IsFiniteSet({"rtmp"})
  BY FS_Singleton
<1>2. IsFiniteSet({"raw"} \cup {"media"})
  BY <1>1, FS_Union
<1>3. IsFiniteSet(({"raw"} \cup {"media"}) \cup {"ts"})
  BY <1>1, <1>2, FS_Union
<1>4. IsFiniteSet((({"raw"} \cup {"media"}) \cup {"ts"}) \cup {"rtmp"})
  BY <1>1, <1>3, FS_Union
<1>5. Input = (({"raw"} \cup {"media"}) \cup {"ts"}) \cup {"rtmp"}
  BY DEF Input
<1>6. QED
  BY <1>4, <1>5

LEMMA KindFacts ==
  /\ Input \subseteq Kind /\ Protocol \subseteq Input /\ Stamped \subseteq Kind
  /\ Failure \subseteq Kind /\ "damage" \notin Input /\ "input" \notin Kind /\ "damage" \in Kind
  /\ "damage" \notin Stamped /\ "damage" \notin Failure /\ "part" \in Stamped
  /\ "part" \in Kind /\ Protocol \subseteq Stamped /\ Protocol \subseteq Kind
  /\ Input \subseteq Stamped
  /\ \A k \in Failure : k \notin Stamped /\ k \notin Protocol
BY DEF Kind, Input, Failure, Stamped, Protocol

LEMMA FieldFacts ==
  /\ \A k \in Kind \ {"damage"} : Field(k) \in Fields
  /\ \A f \in Fields : f = "input" \/ (f \in Kind \ Input /\ f # "damage")
  /\ \A k \in Kind : (Field(k) = "input" <=> k \in Input) /\ (k \notin Input => Field(k) = k)
  /\ "input" \in Fields
<1>1. "raw" \in Kind \ {"damage"} /\ "raw" \in Input
  BY DEF Kind, Input
<1>2. QED
  BY <1>1, KindFacts DEF Field, Fields

\* What the counters say of the kinds whose calls raise a field of a stream.
Total(table, f) == IF f = "input" THEN SumFunctionOnSet(table, Input) ELSE table[f]
Streams(table, f) == SumFunctionOnSet([s \in Observed |-> table[s][f]], Observed)

LEMMA TotalType ==
  ASSUME NEW table \in [Kind -> Nat], NEW f \in Fields
  PROVE  Total(table, f) \in Nat
<1>1. \A k \in Input : table[k] \in Nat
  BY KindFacts
<1>2. SumFunctionOnSet(table, Input) \in Nat
  BY <1>1, InputFinite, SumFacts
<1>3. QED
  BY <1>2, FieldFacts DEF Total

CounterTable == [Kind -> Nat]
StreamTable == [Observed -> [Fields -> Nat]]
Raises(table, k, later) == later = [table EXCEPT ![k] = @ + 1]
RaisesIn(table, s, h, later) == later = [table EXCEPT ![s][h] = @ + 1]

LEMMA TotalGrows ==
  ASSUME NEW table \in CounterTable, NEW k \in Kind, NEW later, Raises(table, k, later),
         NEW f \in Fields
  PROVE  Total(later, f) = Total(table, f) + One(Field(k) = f)
<1>1. /\ later[k] = table[k] + 1 /\ \A j \in Kind \ {k} : later[j] = table[j]
      /\ \A j \in Kind : table[j] \in Nat
  BY DEF CounterTable, Raises
<1>2. \A j \in Input : table[j] \in Nat
  BY <1>1, KindFacts
<1>3. CASE f = "input" /\ k \in Input
  <2>1. SumFunctionOnSet(later, Input) = SumFunctionOnSet(table, Input) + 1
    BY <1>1, <1>2, <1>3, InputFinite, KindFacts, SumGrows
  <2>2. One(Field(k) = f) = 1
    BY <1>3 DEF One, Field
  <2>3. QED
    BY <1>3, <2>1, <2>2 DEF Total
<1>4. CASE f = "input" /\ k \notin Input
  <2>1. \A j \in Input : later[j] = table[j]
    BY <1>1, <1>4, KindFacts
  <2>2. SumFunctionOnSet(later, Input) = SumFunctionOnSet(table, Input)
    BY <1>2, <2>1, InputFinite, SumsSame
  <2>3. SumFunctionOnSet(table, Input) \in Nat
    BY <1>2, InputFinite, SumFacts
  <2>4. One(Field(k) = f) = 0
    BY <1>4, FieldFacts DEF One
  <2>5. QED
    BY <1>4, <2>2, <2>3, <2>4 DEF Total
<1>5. CASE f # "input"
  <2>1. f \in Kind \ Input /\ table[f] \in Nat
    BY <1>1, <1>5, FieldFacts
  <2>2. Field(k) = f <=> k = f
    BY <1>5, <2>1, FieldFacts
  <2>3. later[f] = table[f] + One(Field(k) = f)
    BY <1>1, <2>1, <2>2 DEF One
  <2>4. QED
    BY <1>5, <2>3 DEF Total
<1>6. QED
  BY <1>3, <1>4, <1>5

LEMMA TotalAtMost ==
  ASSUME NEW table \in [Kind -> Nat], NEW later \in [Kind -> Nat],
         \A k \in Kind : table[k] <= later[k], NEW f \in Fields
  PROVE  Total(table, f) <= Total(later, f)
<1>1. CASE f = "input"
  <2>1. /\ \A k \in Input : table[k] \in Nat
        /\ \A k \in Input : later[k] \in Nat /\ table[k] <= later[k]
    BY KindFacts
  <2>2. SumFunctionOnSet(table, Input) <= SumFunctionOnSet(later, Input)
    BY <2>1, InputFinite, SumAtMost
  <2>3. QED
    BY <1>1, <2>2 DEF Total
<1>2. CASE f # "input"
  <2>1. f \in Kind
    BY <1>2, FieldFacts
  <2>2. QED
    BY <1>2, <2>1 DEF Total
<1>3. QED
  BY <1>1, <1>2

LEMMA StreamsType ==
  ASSUME NEW table \in [Observed -> [Fields -> Nat]], NEW f \in Fields
  PROVE  Streams(table, f) \in Nat
<1> DEFINE g == [s \in Observed |-> table[s][f]]
<1>1. \A s \in Observed : g[s] \in Nat
  OBVIOUS
<1> HIDE DEF g
<1>2. SumFunctionOnSet(g, Observed) \in Nat
  BY <1>1, TelemetryConstants, SumFacts
<1>3. QED
  BY <1>2 DEF Streams, g

LEMMA StreamsGrow ==
  ASSUME NEW table \in StreamTable, NEW s \in Observed, NEW h \in Fields,
         NEW later, RaisesIn(table, s, h, later), NEW f \in Fields
  PROVE  Streams(later, f) = Streams(table, f) + One(h = f)
<1> DEFINE g == [q \in Observed |-> table[q][f]]
           e == [q \in Observed |-> later[q][f]]
<1>1. /\ \A q \in Observed : g[q] \in Nat
      /\ \A q \in Observed \ {s} : e[q] = g[q]
      /\ h = f => e[s] = g[s] + 1
      /\ h # f => e[s] = g[s]
  BY DEF StreamTable, RaisesIn
<1>2. Streams(table, f) = SumFunctionOnSet(g, Observed)
      /\ Streams(later, f) = SumFunctionOnSet(e, Observed)
  BY DEF Streams
<1> HIDE DEF g, e
<1>3. SumFunctionOnSet(g, Observed) \in Nat
  BY <1>1, TelemetryConstants, SumFacts
<1>4. CASE h = f
  <2>1. SumFunctionOnSet(e, Observed) = SumFunctionOnSet(g, Observed) + 1
    BY <1>1, <1>4, TelemetryConstants, SumGrows
  <2>2. One(h = f) = 1
    BY <1>4 DEF One
  <2>3. QED
    BY <1>2, <2>1, <2>2
<1>5. CASE h # f
  <2>1. \A q \in Observed : e[q] = g[q]
    BY <1>1, <1>5
  <2>2. SumFunctionOnSet(e, Observed) = SumFunctionOnSet(g, Observed)
    BY <1>1, <2>1, TelemetryConstants, SumsSame
  <2>3. One(h = f) = 0
    BY <1>5 DEF One
  <2>4. QED
    BY <1>2, <1>3, <2>2, <2>3
<1>6. QED
  BY <1>4, <1>5

LEMMA StreamsAtMost ==
  ASSUME NEW table \in [Observed -> [Fields -> Nat]],
         NEW later \in [Observed -> [Fields -> Nat]], NEW f \in Fields,
         \A s \in Observed : table[s][f] <= later[s][f]
  PROVE  Streams(table, f) <= Streams(later, f)
<1> DEFINE g == [q \in Observed |-> table[q][f]]
           e == [q \in Observed |-> later[q][f]]
<1>1. /\ \A q \in Observed : g[q] \in Nat
      /\ \A q \in Observed : e[q] \in Nat /\ g[q] <= e[q]
  OBVIOUS
<1>2. Streams(table, f) = SumFunctionOnSet(g, Observed)
      /\ Streams(later, f) = SumFunctionOnSet(e, Observed)
  BY DEF Streams
<1> HIDE DEF g, e
<1>3. SumFunctionOnSet(g, Observed) <= SumFunctionOnSet(e, Observed)
  BY <1>1, TelemetryConstants, SumAtMost
<1>4. QED
  BY <1>2, <1>3

LEMMA SumOfZeros ==
  ASSUME NEW S, IsFiniteSet(S), NEW f, \A x \in S : f[x] = 0
  PROVE  SumFunctionOnSet(f, S) = 0
<1> DEFINE Bad == {T \in SUBSET S : SumFunctionOnSet(f, T) # 0}
<1>1. Bad = {}
  <2>1. SUFFICES ASSUME Bad # {} PROVE FALSE
    OBVIOUS
  <2>2. Bad \subseteq SUBSET S
    OBVIOUS
  <2>3. PICK T \in Bad : \A x \in T : T \ {x} \notin Bad
    <3> HIDE DEF Bad
    <3>1. QED
      BY <2>1, <2>2, SmallestSet
  <2>4. T \subseteq S /\ IsFiniteSet(T) /\ (\A x \in T : f[x] \in Nat /\ f[x] = 0)
    BY <2>2, FS_Subset
  <2>5. /\ T = {} => SumFunctionOnSet(f, T) = 0
        /\ \A x \in T : SumFunctionOnSet(f, T) = f[x] + SumFunctionOnSet(f, T \ {x})
    BY <2>4, SumFacts
  <2>6. SumFunctionOnSet(f, T) # 0
    OBVIOUS
  <2>7. PICK x \in T : TRUE
    BY <2>5, <2>6
  <2>8. SumFunctionOnSet(f, T \ {x}) = 0
    BY <2>3, <2>4, <2>7
  <2>9. QED
    BY <2>4, <2>5, <2>6, <2>7, <2>8
<1>2. QED
  BY <1>1

-----------------------------------------------------------------------------
\* What is counted of a call and not yet recorded with it.

ForProtocol(c, k) == At(c) \in {"stamp", "protocol"} /\ c.kind = k
ForStream(c, f) == At(c) \in {"stamp", "protocol", "stream"} /\ Field(c.kind) = f
ForAlert(c, k) == At(c) \in {"stream", "alert"} /\ c.kind = k
AtProtocol(calls, k) == {t \in Recorder : ForProtocol(calls[t], k)}
AtStream(calls, f) == {t \in Recorder : ForStream(calls[t], f)}
AtAlert(calls, k) == {t \in Recorder : ForAlert(calls[t], k)}

\* Between reading the time and storing it the clock stands; a call past its count
\* knows a count that is not ahead of the counter.
CallsKnow ==
  /\ \A t \in Recorder :
       /\ At(recording[t]) \in {"count", "stamp"} /\ recording[t].kind \in Stamped
            => recording[t].now = clock
       /\ At(recording[t]) \in {"stamp", "protocol", "stream", "alert"}
            => 1 <= recording[t].n /\ recording[t].n <= counters[recording[t].kind]
  /\ \A k \in Stamped : stamp[k] <= clock

CountsAgree ==
  /\ \A k \in Protocol :
       protocols[k] + Cardinality(AtProtocol(recording, k)) = counters[k]
  /\ \A f \in Fields :
       Streams(runtime, f) + Cardinality(AtStream(recording, f)) = Total(counters, f)

AlertsBounded ==
  /\ \A i \in DOMAIN alerts, j \in DOMAIN alerts : Alike(alerts[i], alerts[j]) => i = j
  /\ \A i \in DOMAIN alerts :
       alerts[i].count + Cardinality(AtAlert(recording, alerts[i].kind))
         < counters[alerts[i].kind] + Cardinality(Recorder)

CallerMoves(calls, t, d, later) ==
  later[t] = d /\ \A q \in Recorder \ {t} : later[q] = calls[q]

LEMMA AtProtocolMoves ==
  ASSUME NEW calls, NEW later, NEW t \in Recorder, NEW d, CallerMoves(calls, t, d, later), NEW k
  PROVE  /\ Cardinality(AtProtocol(calls, k)) \in Nat
         /\ Cardinality(AtProtocol(later, k)) \in Nat
         /\ Cardinality(AtProtocol(calls, k)) + One(ForProtocol(d, k))
              = Cardinality(AtProtocol(later, k)) + One(ForProtocol(calls[t], k))
<1> DEFINE A == AtProtocol(calls, k)
           B == AtProtocol(later, k)
<1>1. /\ A \in SUBSET Recorder /\ B \in SUBSET Recorder
      /\ \A q \in Recorder \ {t} : q \in A <=> q \in B
      /\ (t \in A <=> ForProtocol(calls[t], k)) /\ (t \in B <=> ForProtocol(d, k))
  BY DEF CallerMoves, AtProtocol
<1> HIDE DEF A, B
<1>2. /\ Cardinality(A) \in Nat /\ Cardinality(B) \in Nat
      /\ Cardinality(A) + One(t \in B) = Cardinality(B) + One(t \in A)
  BY <1>1, TelemetryConstants, OneMoves
<1>3. One(t \in A) = One(ForProtocol(calls[t], k)) /\ One(t \in B) = One(ForProtocol(d, k))
  BY <1>1 DEF One
<1>4. QED
  BY <1>2, <1>3 DEF A, B

LEMMA AtStreamMoves ==
  ASSUME NEW calls, NEW later, NEW t \in Recorder, NEW d, CallerMoves(calls, t, d, later), NEW f
  PROVE  /\ Cardinality(AtStream(calls, f)) \in Nat
         /\ Cardinality(AtStream(later, f)) \in Nat
         /\ Cardinality(AtStream(calls, f)) + One(ForStream(d, f))
              = Cardinality(AtStream(later, f)) + One(ForStream(calls[t], f))
<1> DEFINE A == AtStream(calls, f)
           B == AtStream(later, f)
<1>1. /\ A \in SUBSET Recorder /\ B \in SUBSET Recorder
      /\ \A q \in Recorder \ {t} : q \in A <=> q \in B
      /\ (t \in A <=> ForStream(calls[t], f)) /\ (t \in B <=> ForStream(d, f))
  BY DEF CallerMoves, AtStream
<1> HIDE DEF A, B
<1>2. /\ Cardinality(A) \in Nat /\ Cardinality(B) \in Nat
      /\ Cardinality(A) + One(t \in B) = Cardinality(B) + One(t \in A)
  BY <1>1, TelemetryConstants, OneMoves
<1>3. One(t \in A) = One(ForStream(calls[t], f)) /\ One(t \in B) = One(ForStream(d, f))
  BY <1>1 DEF One
<1>4. QED
  BY <1>2, <1>3 DEF A, B

LEMMA AtAlertMoves ==
  ASSUME NEW calls, NEW later, NEW t \in Recorder, NEW d, CallerMoves(calls, t, d, later), NEW k
  PROVE  /\ Cardinality(AtAlert(calls, k)) \in Nat
         /\ Cardinality(AtAlert(later, k)) \in Nat
         /\ Cardinality(AtAlert(calls, k)) + One(ForAlert(d, k))
              = Cardinality(AtAlert(later, k)) + One(ForAlert(calls[t], k))
<1> DEFINE A == AtAlert(calls, k)
           B == AtAlert(later, k)
<1>1. /\ A \in SUBSET Recorder /\ B \in SUBSET Recorder
      /\ \A q \in Recorder \ {t} : q \in A <=> q \in B
      /\ (t \in A <=> ForAlert(calls[t], k)) /\ (t \in B <=> ForAlert(d, k))
  BY DEF CallerMoves, AtAlert
<1> HIDE DEF A, B
<1>2. /\ Cardinality(A) \in Nat /\ Cardinality(B) \in Nat
      /\ Cardinality(A) + One(t \in B) = Cardinality(B) + One(t \in A)
  BY <1>1, TelemetryConstants, OneMoves
<1>3. One(t \in A) = One(ForAlert(calls[t], k)) /\ One(t \in B) = One(ForAlert(d, k))
  BY <1>1 DEF One
<1>4. QED
  BY <1>2, <1>3 DEF A, B

\* What each step of a call changes.
LEMMA RecordEffects ==
  ASSUME TelemetryTyped, NEW t \in Recorder, Record(t), NEW c \in CallSet, c = recording[t]
  PROVE  /\ At(c) = "count" => /\ counters' = [counters EXCEPT ![c.kind] = @ + 1]
                               /\ UNCHANGED <<stamp, protocols, runtime, alerts>>
         /\ At(c) = "stamp" => /\ stamp' = [stamp EXCEPT ![c.kind] = c.now]
                               /\ UNCHANGED <<counters, protocols, runtime, alerts>>
         /\ At(c) = "protocol" => /\ protocols' = [protocols EXCEPT ![c.kind] = @ + 1]
                                  /\ UNCHANGED <<counters, stamp, runtime, alerts>>
         /\ At(c) = "stream" =>
              /\ runtime' = [runtime EXCEPT ![c.stream][Field(c.kind)] = @ + 1]
              /\ UNCHANGED <<counters, stamp, protocols, alerts>>
         /\ At(c) = "alert" => /\ alerts' = PushAlert(c)
                               /\ UNCHANGED <<counters, stamp, protocols, runtime>>
         /\ UNCHANGED <<records, impaired, report, reports, clock>>
<1>1. At(c) = Head(c.todo)
  BY AtIs
<1>2. QED
  BY <1>1 DEF Record

LEMMA ProtocolsKeepStep ==
  ASSUME TelemetryTyped, CountsAgree, NEW t \in Recorder, Record(t), NEW k \in Protocol
  PROVE  protocols'[k] + Cardinality(AtProtocol(recording', k)) = counters'[k]
<1>1. PICK c \in CallSet, d \in CallSet \cup {NoCall} :
        /\ c = recording[t] /\ recording' = [recording EXCEPT ![t] = d]
        /\ At(d) = Then(c.kind, At(c))
        /\ At(d) # "done" => d.kind = c.kind
  BY RecordIs
<1>2. PICK later : later = recording' /\ CallerMoves(recording, t, d, later)
  BY <1>1 DEF CallerMoves, TelemetryTyped
<1>3. /\ Cardinality(AtProtocol(recording, k)) \in Nat
      /\ Cardinality(AtProtocol(later, k)) \in Nat
      /\ Cardinality(AtProtocol(recording, k)) + One(ForProtocol(d, k))
           = Cardinality(AtProtocol(later, k)) + One(ForProtocol(c, k))
  BY <1>1, <1>2, AtProtocolMoves
<1>4. /\ counters[k] \in Nat /\ protocols[k] \in Nat /\ c.kind \in Kind
      /\ At(c) \in {"count", "stamp", "protocol", "stream", "alert"}
      /\ At(c) = "protocol" => c.kind \in Protocol
      /\ k \in Kind /\ k # "damage" /\ k \in Stamped /\ k \notin Failure
  BY AtIs, KindFacts DEF TelemetryTyped
<1>5. protocols[k] + Cardinality(AtProtocol(recording, k)) = counters[k]
  BY DEF CountsAgree
<1>6. /\ At(c) = "count" =>
           counters'[k] = counters[k] + One(c.kind = k) /\ protocols'[k] = protocols[k]
      /\ At(c) = "protocol" =>
           protocols'[k] = protocols[k] + One(c.kind = k) /\ counters'[k] = counters[k]
      /\ At(c) \in {"stamp", "stream", "alert"} =>
           protocols'[k] = protocols[k] /\ counters'[k] = counters[k]
  <2>1. CASE At(c) = "count"
    <3>1. counters' = [counters EXCEPT ![c.kind] = @ + 1] /\ protocols' = protocols
      BY <1>1, <2>1, RecordEffects
    <3>2. QED
      BY <1>4, <2>1, <3>1 DEF TelemetryTyped, One
  <2>2. CASE At(c) = "protocol"
    <3>1. protocols' = [protocols EXCEPT ![c.kind] = @ + 1] /\ counters' = counters
      BY <1>1, <2>2, RecordEffects
    <3>2. QED
      BY <1>4, <2>2, <3>1 DEF TelemetryTyped, One
  <2>3. CASE At(c) \in {"stamp", "stream", "alert"}
    <3>1. protocols' = protocols /\ counters' = counters
      BY <1>1, <2>3, RecordEffects
    <3>2. QED
      BY <2>3, <3>1
  <2>4. QED
    BY <1>4, <2>1, <2>2, <2>3
<1>7. /\ At(c) = "count" => One(ForProtocol(c, k)) = 0 /\ One(ForProtocol(d, k)) = One(c.kind = k)
      /\ At(c) = "protocol" => One(ForProtocol(c, k)) = One(c.kind = k) /\ One(ForProtocol(d, k)) = 0
      /\ At(c) \in {"stamp", "stream", "alert"} => One(ForProtocol(c, k)) = One(ForProtocol(d, k))
  <2>1. CASE At(c) = "count"
    <3>1. c.kind = k => At(d) = "stamp"
      BY <1>1, <1>4, <2>1 DEF Then
    <3>2. ForProtocol(d, k) <=> c.kind = k
      BY <1>1, <3>1 DEF ForProtocol
    <3>3. QED
      BY <2>1, <3>2 DEF ForProtocol, One
  <2>2. CASE At(c) = "protocol"
    <3>1. At(d) = "stream"
      BY <1>1, <2>2 DEF Then
    <3>2. QED
      BY <2>2, <3>1 DEF ForProtocol, One
  <2>3. CASE At(c) = "stamp"
    <3>1. /\ c.kind = k => At(d) = "protocol" /\ d.kind = k
          /\ At(d) # "done" /\ d.kind = c.kind
      BY <1>1, <2>3 DEF Then
    <3>2. ForProtocol(d, k) <=> ForProtocol(c, k)
      BY <2>3, <3>1 DEF ForProtocol
    <3>3. QED
      BY <2>3, <3>2 DEF One
  <2>4. CASE At(c) \in {"stream", "alert"}
    <3>1. At(d) \in {"alert", "done"}
      BY <1>1, <2>4 DEF Then
    <3>2. QED
      BY <2>4, <3>1 DEF ForProtocol, One
  <2>5. QED
    BY <1>4, <2>1, <2>2, <2>3, <2>4
<1>8. PICK x \in {0, 1} : x = One(c.kind = k)
  BY OneType
<1>9. PICK y \in {0, 1} : y = One(ForProtocol(c, k))
  BY OneType
<1>10. PICK z \in {0, 1} : z = One(ForProtocol(d, k))
  BY OneType
<1>11. protocols'[k] + Cardinality(AtProtocol(later, k)) = counters'[k]
  <2>1. PICK a \in Nat, b \in Nat, p \in Nat, n \in Nat :
          /\ a = Cardinality(AtProtocol(recording, k)) /\ b = Cardinality(AtProtocol(later, k))
          /\ p = protocols[k] /\ n = counters[k]
    BY <1>3, <1>4
  <2>2. a + z = b + y /\ p + a = n
    BY <1>3, <1>5, <1>9, <1>10, <2>1
  <2>3. CASE At(c) = "count"
    BY <1>6, <1>7, <1>8, <1>9, <1>10, <2>1, <2>2, <2>3
  <2>4. CASE At(c) = "protocol"
    BY <1>6, <1>7, <1>8, <1>9, <1>10, <2>1, <2>2, <2>4
  <2>5. CASE At(c) \in {"stamp", "stream", "alert"}
    BY <1>6, <1>7, <1>8, <1>9, <1>10, <2>1, <2>2, <2>5
  <2>6. QED
    BY <1>4, <2>3, <2>4, <2>5
<1>12. QED
  BY <1>2, <1>11

LEMMA StreamsKeepStep ==
  ASSUME TelemetryTyped, CountsAgree, NEW t \in Recorder, Record(t), NEW f \in Fields
  PROVE  Streams(runtime', f) + Cardinality(AtStream(recording', f)) = Total(counters', f)
<1>1. PICK c \in CallSet, d \in CallSet \cup {NoCall} :
        /\ c = recording[t] /\ recording' = [recording EXCEPT ![t] = d]
        /\ At(d) = Then(c.kind, At(c))
        /\ At(d) # "done" => d.kind = c.kind
  BY RecordIs
<1>2. PICK later : later = recording' /\ CallerMoves(recording, t, d, later)
  BY <1>1 DEF CallerMoves, TelemetryTyped
<1>3. /\ Cardinality(AtStream(recording, f)) \in Nat
      /\ Cardinality(AtStream(later, f)) \in Nat
      /\ Cardinality(AtStream(recording, f)) + One(ForStream(d, f))
           = Cardinality(AtStream(later, f)) + One(ForStream(c, f))
  BY <1>1, <1>2, AtStreamMoves
<1>4. /\ counters \in [Kind -> Nat] /\ runtime \in [Observed -> [Fields -> Nat]]
      /\ c.kind \in Kind /\ c.stream \in Observed
      /\ At(c) \in {"count", "stamp", "protocol", "stream", "alert"}
      /\ At(c) = "stream" => c.kind # "damage"
      /\ At(c) = "stamp" => c.kind # "damage"
      /\ Total(counters, f) \in Nat /\ Streams(runtime, f) \in Nat
  BY AtIs, KindFacts, TotalType, StreamsType DEF TelemetryTyped
<1>5. Streams(runtime, f) + Cardinality(AtStream(recording, f)) = Total(counters, f)
  BY DEF CountsAgree
<1>6. PICK x \in {0, 1} : x = One(Field(c.kind) = f)
  BY OneType
<1>7. /\ At(c) = "count" =>
           Total(counters', f) = Total(counters, f) + x /\ runtime' = runtime
      /\ At(c) = "stream" =>
           Streams(runtime', f) = Streams(runtime, f) + x /\ counters' = counters
      /\ At(c) \in {"stamp", "protocol", "alert"} => runtime' = runtime /\ counters' = counters
  <2>1. CASE At(c) = "count"
    <3>1. counters' = [counters EXCEPT ![c.kind] = @ + 1] /\ runtime' = runtime
      BY <1>1, <2>1, RecordEffects
    <3>2. PICK table \in CounterTable : table = counters
      BY <1>4 DEF CounterTable
    <3>3. PICK k \in Kind : k = c.kind
      BY <1>4
    <3>4. PICK newer : newer = counters'
      OBVIOUS
    <3>5. table = counters /\ newer = counters' /\ k = c.kind
      BY <3>2, <3>3, <3>4
    <3>6. Raises(table, k, newer)
      BY <3>1, <3>5 DEF Raises
    <3>7. Total(newer, f) = Total(table, f) + One(Field(k) = f)
      BY <3>6, TotalGrows
    <3>8. One(Field(k) = f) = x
      BY <1>6, <3>5
    <3>9. QED
      BY <2>1, <3>1, <3>5, <3>7, <3>8
  <2>2. CASE At(c) = "stream"
    <3>1. /\ runtime' = [runtime EXCEPT ![c.stream][Field(c.kind)] = @ + 1]
          /\ counters' = counters
      BY <1>1, <2>2, RecordEffects
    <3>2. Field(c.kind) \in Fields
      BY <1>4, <2>2, FieldFacts
    <3>3. PICK table \in StreamTable : table = runtime
      BY <1>4 DEF StreamTable
    <3>4. PICK s \in Observed : s = c.stream
      BY <1>4
    <3>5. PICK h \in Fields : h = Field(c.kind)
      BY <3>2
    <3>6. PICK newer : newer = runtime'
      OBVIOUS
    <3>7. table = runtime /\ newer = runtime' /\ s = c.stream /\ h = Field(c.kind)
      BY <3>3, <3>4, <3>5, <3>6
    <3>8. RaisesIn(table, s, h, newer)
      BY <3>1, <3>7 DEF RaisesIn
    <3>9. Streams(newer, f) = Streams(table, f) + One(h = f)
      BY <3>8, StreamsGrow
    <3>10. QED
      BY <1>6, <2>2, <3>1, <3>7, <3>9
  <2>3. CASE At(c) \in {"stamp", "protocol", "alert"}
    BY <1>1, <2>3, RecordEffects
  <2>4. QED
    BY <1>4, <2>1, <2>2, <2>3
<1>8. /\ At(c) = "count" => One(ForStream(c, f)) = 0 /\ One(ForStream(d, f)) = x
      /\ At(c) = "stream" => One(ForStream(c, f)) = x /\ One(ForStream(d, f)) = 0
      /\ At(c) \in {"stamp", "protocol", "alert"} => One(ForStream(c, f)) = One(ForStream(d, f))
  <2>1. CASE At(c) = "count"
    <3>1. c.kind # "damage" => At(d) \in {"stamp", "stream"} /\ d.kind = c.kind
      BY <1>1, <2>1 DEF Then
    <3>2. c.kind = "damage" => At(d) = "done" /\ Field(c.kind) # f
      <4>1. c.kind = "damage" => At(d) = "done"
        BY <1>1, <2>1 DEF Then
      <4>2. c.kind = "damage" => Field(c.kind) = "damage"
        BY <1>4, FieldFacts, KindFacts
      <4>3. f # "damage"
        BY FieldFacts
      <4>4. QED
        BY <4>1, <4>2, <4>3
    <3>3. ForStream(d, f) <=> Field(c.kind) = f
      BY <3>1, <3>2 DEF ForStream
    <3>4. ~ForStream(c, f)
      BY <2>1 DEF ForStream
    <3>5. QED
      BY <1>6, <2>1, <3>3, <3>4 DEF One
  <2>2. CASE At(c) = "stream"
    <3>1. At(d) \in {"alert", "done"}
      BY <1>1, <2>2 DEF Then
    <3>2. ~ForStream(d, f) /\ (ForStream(c, f) <=> Field(c.kind) = f)
      BY <2>2, <3>1 DEF ForStream
    <3>3. QED
      BY <1>6, <2>2, <3>2 DEF One
  <2>3. CASE At(c) \in {"stamp", "protocol"}
    <3>1. At(d) \in {"protocol", "stream"} /\ d.kind = c.kind
      BY <1>1, <2>3 DEF Then
    <3>2. ForStream(d, f) <=> ForStream(c, f)
      BY <2>3, <3>1 DEF ForStream
    <3>3. QED
      BY <2>3, <3>2 DEF One
  <2>4. CASE At(c) = "alert"
    <3>1. At(d) = "done"
      BY <1>1, <2>4 DEF Then
    <3>2. ~ForStream(d, f) /\ ~ForStream(c, f)
      BY <2>4, <3>1 DEF ForStream
    <3>3. QED
      BY <2>4, <3>2 DEF One
  <2>5. QED
    BY <1>4, <2>1, <2>2, <2>3, <2>4
<1>9. PICK y \in {0, 1} : y = One(ForStream(c, f))
  BY OneType
<1>10. PICK z \in {0, 1} : z = One(ForStream(d, f))
  BY OneType
<1>11. Streams(runtime', f) + Cardinality(AtStream(later, f)) = Total(counters', f)
  <2>1. PICK a \in Nat, b \in Nat, p \in Nat, n \in Nat :
          /\ a = Cardinality(AtStream(recording, f)) /\ b = Cardinality(AtStream(later, f))
          /\ p = Streams(runtime, f) /\ n = Total(counters, f)
    BY <1>3, <1>4
  <2>2. a + z = b + y /\ p + a = n
    BY <1>3, <1>5, <1>9, <1>10, <2>1
  <2>3. CASE At(c) = "count"
    <3>1. Streams(runtime', f) = p /\ Total(counters', f) = n + x /\ y = 0 /\ z = x
      BY <1>7, <1>8, <1>9, <1>10, <2>1, <2>3
    <3>2. p + b = n + x
      BY <2>2, <3>1
    <3>3. QED
      BY <2>1, <3>1, <3>2
  <2>4. CASE At(c) = "stream"
    <3>1. Streams(runtime', f) = p + x /\ Total(counters', f) = n /\ y = x /\ z = 0
      BY <1>7, <1>8, <1>9, <1>10, <2>1, <2>4
    <3>2. p + x + b = n
      BY <2>2, <3>1
    <3>3. QED
      BY <2>1, <3>1, <3>2
  <2>5. CASE At(c) \in {"stamp", "protocol", "alert"}
    <3>1. Streams(runtime', f) = p /\ Total(counters', f) = n /\ y = z
      BY <1>7, <1>8, <1>9, <1>10, <2>1, <2>5
    <3>2. p + b = n
      BY <2>2, <3>1
    <3>3. QED
      BY <2>1, <3>1, <3>2
  <2>6. QED
    BY <1>4, <2>3, <2>4, <2>5
<1>12. QED
  BY <1>2, <1>11

-----------------------------------------------------------------------------
\* The alerts.

NewAlert(c, new) ==
  /\ new \in AlertType
  /\ new.kind = c.kind /\ new.stream = c.stream /\ new.detail = c.detail
  /\ new.count = IF c.kind = "meshError" THEN c.n ELSE 1

\* An alert that is alike is raised, or a new one stands before those that are kept.
Raised(first, newer) == newer = [alerts EXCEPT ![first].count = @ + 1]

Prepended(new, newer) ==
  /\ newer \in Seq(AlertType) /\ Len(newer) \in 1 .. Len(alerts) + 1
  /\ Len(newer) <= AlertLimit /\ newer[1] = new
  /\ \A i \in 2 .. Len(newer) : newer[i] = alerts[i - 1]

LEMMA MinOfTwo ==
  ASSUME NEW a \in Nat, NEW b \in Nat
  PROVE  Min({a, b}) \in {a, b} /\ Min({a, b}) <= a /\ Min({a, b}) <= b
<1>1. {a, b} \subseteq Nat /\ {a, b} # {}
  OBVIOUS
<1>2. QED
  BY <1>1, MinOfNaturals

LEMMA FirstOf ==
  ASSUME NEW T, NEW s \in Seq(T), NEW n \in 1 .. Len(s)
  PROVE  /\ SubSeq(s, 1, n) \in Seq(T) /\ Len(SubSeq(s, 1, n)) = n
         /\ \A i \in 1 .. n : SubSeq(s, 1, n)[i] = s[i]
OBVIOUS

LEMMA PushAlertIs ==
  ASSUME alerts \in Seq(AlertType), NEW c \in CallSet, c.kind \in Failure,
         NEW newer, newer = PushAlert(c)
  PROVE  \/ \E first \in DOMAIN alerts : Alike(alerts[first], c) /\ Raised(first, newer)
         \/ /\ \A i \in DOMAIN alerts : ~Alike(alerts[i], c)
            /\ \E new : NewAlert(c, new) /\ Prepended(new, newer)
<1>1. CASE \E i \in DOMAIN alerts : Alike(alerts[i], c)
  <2> DEFINE S == {i \in DOMAIN alerts : Alike(alerts[i], c)}
  <2>1. S \subseteq Nat /\ S # {}
    BY <1>1
  <2>2. newer = [alerts EXCEPT ![Min(S)].count = @ + 1]
    BY <1>1 DEF PushAlert
  <2> HIDE DEF S
  <2>3. PICK first \in S : first = Min(S)
    BY <2>1, MinOfNaturals
  <2>4. newer = [alerts EXCEPT ![first].count = @ + 1]
    BY <2>2, <2>3
  <2>5. QED
    BY <2>3, <2>4 DEF S, Raised
<1>2. CASE ~ \E i \in DOMAIN alerts : Alike(alerts[i], c)
  <2>1. PICK new : new = [kind |-> c.kind, stream |-> c.stream, detail |-> c.detail,
                          count |-> IF c.kind = "meshError" THEN c.n ELSE 1]
    OBVIOUS
  <2>2. NewAlert(c, new)
    <3>1. c.stream \in Observed /\ c.detail \in Nat /\ c.n \in Nat
      BY AtIs
    <3>2. PICK m \in Nat : m = IF c.kind = "meshError" THEN c.n ELSE 1
      BY <3>1
    <3>3. new = [kind |-> c.kind, stream |-> c.stream, detail |-> c.detail, count |-> m]
      BY <2>1, <3>2
    <3>4. QED
      BY <3>1, <3>2, <3>3 DEF NewAlert, AlertType
  <2>3. PICK one \in Seq(AlertType) : one = <<new>> /\ Len(one) = 1 /\ one[1] = new
    <3>1. new \in AlertType
      BY <2>2 DEF NewAlert
    <3>2. <<new>> \in Seq(AlertType) /\ Len(<<new>>) = 1 /\ <<new>>[1] = new
      BY <3>1
    <3>3. QED
      BY <3>2
  <2>4. PICK old \in Seq(AlertType), n \in Nat : old = alerts /\ n = Len(old)
    OBVIOUS
  <2>5. PICK all \in Seq(AlertType) :
          /\ all = one \o old /\ Len(all) = n + 1
          /\ \A i \in 1 .. n + 1 : all[i] = IF i <= 1 THEN one[i] ELSE old[i - 1]
    <3>1. PICK m \in Nat : m = 1
      OBVIOUS
    <3>2. Len(one) = m /\ Len(old) = n
      BY <2>3, <2>4, <3>1
    <3>3. /\ Len(one \o old) = m + n
          /\ \A i \in 1 .. m + n : (one \o old)[i] = IF i <= m THEN one[i] ELSE old[i - m]
      BY <3>2, JoinedSequences
    <3>4. PICK all : all = one \o old
      OBVIOUS
    <3>5. one \o old \in Seq(AlertType)
      BY ConcatProperties
    <3>6. /\ all \in Seq(AlertType) /\ Len(all) = m + n
          /\ \A i \in 1 .. m + n : all[i] = IF i <= m THEN one[i] ELSE old[i - m]
      BY <3>3, <3>4, <3>5, Zenon
    <3>7. Len(all) = n + 1 /\ \A i \in 1 .. n + 1 : all[i] = IF i <= 1 THEN one[i] ELSE old[i - 1]
      BY <3>1, <3>6
    <3>8. QED
      BY <3>4, <3>6, <3>7
  <2>6. PICK k \in Nat : k = Min({Len(all), AlertLimit})
    <3>1. Len(all) \in Nat /\ AlertLimit \in Nat
      BY TelemetryConstants
    <3>2. QED
      BY <3>1, MinOfTwo
  <2>7. k \in 1 .. n + 1 /\ k <= AlertLimit
    <3>1. Len(all) \in Nat \ {0} /\ AlertLimit \in Nat \ {0}
      BY <2>4, <2>5, TelemetryConstants
    <3>2. k \in {Len(all), AlertLimit} /\ k <= Len(all) /\ k <= AlertLimit
      BY <2>6, <3>1, MinOfTwo
    <3>3. QED
      BY <2>5, <3>1, <3>2
  <2>8. newer = SubSeq(all, 1, k)
    <3>1. newer = SubSeq(<<new>> \o alerts, 1, Min({Len(<<new>> \o alerts), AlertLimit}))
      BY <1>2, <2>1 DEF PushAlert
    <3>2. <<new>> \o alerts = all
      BY <2>3, <2>4, <2>5
    <3>3. QED
      BY <2>6, <3>1, <3>2
  <2>9. /\ newer \in Seq(AlertType) /\ Len(newer) = k
        /\ \A i \in 1 .. k : newer[i] = all[i]
    <3>1. k \in 1 .. Len(all)
      BY <2>5, <2>7
    <3>2. QED
      BY <2>8, <3>1, FirstOf
  <2>10. newer[1] = new /\ \A i \in 2 .. k : newer[i] = old[i - 1]
    BY <2>3, <2>5, <2>7, <2>9
  <2>11. Prepended(new, newer)
    BY <2>4, <2>7, <2>9, <2>10 DEF Prepended
  <2>12. QED
    BY <1>2, <2>2, <2>11
<1>3. QED
  BY <1>1, <1>2

LEMMA RaisedType ==
  ASSUME alerts \in Seq(AlertType), NEW first \in DOMAIN alerts, NEW newer, Raised(first, newer)
  PROVE  /\ newer \in Seq(AlertType) /\ DOMAIN newer = DOMAIN alerts
         /\ \A i \in DOMAIN alerts :
              /\ newer[i].kind = alerts[i].kind /\ newer[i].stream = alerts[i].stream
              /\ newer[i].detail = alerts[i].detail
              /\ i # first => newer[i].count = alerts[i].count
         /\ newer[first].count = alerts[first].count + 1
<1>1. PICK n \in Nat : DOMAIN alerts = 1 .. n
  OBVIOUS
<1>2. alerts \in [1 .. n -> AlertType]
  BY <1>1
<1>3. PICK a \in AlertType : a = alerts[first]
  BY <1>1, <1>2
<1>4. PICK b : b = [a EXCEPT !.count = @ + 1]
  OBVIOUS
<1>5. /\ b \in AlertType /\ b.kind = a.kind /\ b.stream = a.stream /\ b.detail = a.detail
      /\ b.count = a.count + 1
  <2>1. PICK kind \in Failure, stream \in Observed, detail \in Nat, m \in Nat :
          a = [kind |-> kind, stream |-> stream, detail |-> detail, count |-> m]
    BY DEF AlertType
  <2>2. b = [kind |-> kind, stream |-> stream, detail |-> detail, count |-> m + 1]
    BY <1>4, <2>1
  <2>3. m + 1 \in Nat
    OBVIOUS
  <2>4. QED
    BY <2>1, <2>2, <2>3 DEF AlertType
<1>6. newer = [alerts EXCEPT ![first] = b]
  BY <1>3, <1>4 DEF Raised
<1>7. newer \in [1 .. n -> AlertType] /\ newer[first] = b
      /\ \A i \in DOMAIN alerts : i # first => newer[i] = alerts[i]
  BY <1>1, <1>2, <1>5, <1>6
<1>8. newer \in Seq(AlertType) /\ DOMAIN newer = DOMAIN alerts
  BY <1>1, <1>7
<1>9. ASSUME NEW i \in DOMAIN alerts
      PROVE  /\ newer[i].kind = alerts[i].kind /\ newer[i].stream = alerts[i].stream
             /\ newer[i].detail = alerts[i].detail
             /\ i # first => newer[i].count = alerts[i].count
  <2>1. CASE i = first
    BY <1>3, <1>5, <1>7, <2>1
  <2>2. CASE i # first
    BY <1>7, <2>2
  <2>3. QED
    BY <2>1, <2>2
<1>10. QED
  BY <1>3, <1>5, <1>7, <1>8, <1>9

LEMMA PushedType ==
  ASSUME alerts \in Seq(AlertType), NEW c \in CallSet, c.kind \in Failure
  PROVE  PushAlert(c) \in Seq(AlertType)
<1>1. PICK newer : newer = PushAlert(c)
  OBVIOUS
<1>2. \/ \E first \in DOMAIN alerts : Alike(alerts[first], c) /\ Raised(first, newer)
      \/ \E new : Prepended(new, newer)
  BY <1>1, PushAlertIs
<1>3. newer \in Seq(AlertType)
  BY <1>2, RaisedType DEF Prepended
<1>4. QED
  BY <1>1, <1>3

-----------------------------------------------------------------------------
\* A step of a call.

Grow ==
  /\ \A k \in Kind : counters[k] <= counters'[k]
  /\ \A k \in Stamped : stamp[k] <= stamp'[k]

LEMMA RecordTyped ==
  ASSUME TelemetryTyped, CallsKnow, NEW t \in Recorder, Record(t)
  PROVE  TelemetryTyped' /\ Grow /\ (\A k \in Stamped : stamp'[k] <= clock')
<1>1. PICK c \in CallSet, d \in CallSet \cup {NoCall} :
        c = recording[t] /\ recording' = [recording EXCEPT ![t] = d]
  BY RecordIs
<1>2. /\ At(c) \in {"count", "stamp", "protocol", "stream", "alert"}
      /\ At(c) = "stamp" => c.kind \in Stamped
      /\ At(c) = "protocol" => c.kind \in Protocol
      /\ At(c) = "stream" => c.kind # "damage"
      /\ At(c) = "alert" => c.kind \in Failure
      /\ c.kind \in Kind /\ c.stream \in Observed /\ c.now \in Nat
  BY AtIs
<1>3. /\ counters \in [Kind -> Nat] /\ stamp \in [Stamped -> Nat]
      /\ protocols \in [Protocol -> Nat] /\ runtime \in [Observed -> [Fields -> Nat]]
      /\ alerts \in Seq(AlertType) /\ clock \in Nat
      /\ \A k \in Stamped : stamp[k] <= clock
  BY DEF TelemetryTyped, CallsKnow
<1>4. /\ recording' \in [Recorder -> CallSet \cup {NoCall}]
      /\ UNCHANGED <<records, impaired, report, reports, clock>>
      /\ report' \in ReportType /\ impaired' \in BOOLEAN /\ reports' \in Nat /\ clock' \in Nat
  <2>1. UNCHANGED <<records, impaired, report, reports, clock>>
    BY <1>1, RecordEffects
  <2>2. QED
    BY <1>1, <2>1 DEF TelemetryTyped
<1>5. CASE At(c) = "count"
  <2>1. /\ counters' = [counters EXCEPT ![c.kind] = @ + 1]
        /\ UNCHANGED <<stamp, protocols, runtime, alerts>>
    BY <1>1, <1>5, RecordEffects
  <2>2. counters' \in [Kind -> Nat] /\ \A k \in Kind : counters[k] <= counters'[k]
    BY <1>2, <1>3, <2>1
  <2>3. QED
    BY <1>3, <1>4, <2>1, <2>2 DEF TelemetryTyped, Grow
<1>6. CASE At(c) = "stamp"
  <2>1. /\ stamp' = [stamp EXCEPT ![c.kind] = c.now]
        /\ UNCHANGED <<counters, protocols, runtime, alerts>>
    BY <1>1, <1>6, RecordEffects
  <2>2. c.now = clock
    BY <1>1, <1>2, <1>6 DEF CallsKnow
  <2>3. /\ stamp' \in [Stamped -> Nat]
        /\ \A k \in Stamped : stamp[k] <= stamp'[k] /\ stamp'[k] <= clock
    <3>1. PICK j \in Stamped : j = c.kind
      BY <1>2, <1>6
    <3>2. stamp' = [stamp EXCEPT ![j] = clock]
      BY <2>1, <2>2, <3>1
    <3>3. stamp'[j] = clock /\ \A k \in Stamped \ {j} : stamp'[k] = stamp[k]
      BY <1>3, <3>2
    <3>4. stamp' \in [Stamped -> Nat]
      BY <1>3, <3>2
    <3>5. \A k \in Stamped : stamp[k] \in Nat
      BY <1>3
    <3>6. QED
      BY <1>3, <3>3, <3>4, <3>5
  <2>4. QED
    BY <1>3, <1>4, <2>1, <2>3 DEF TelemetryTyped, Grow
<1>7. CASE At(c) = "protocol"
  <2>1. /\ protocols' = [protocols EXCEPT ![c.kind] = @ + 1]
        /\ UNCHANGED <<counters, stamp, runtime, alerts>>
    BY <1>1, <1>7, RecordEffects
  <2>2. protocols' \in [Protocol -> Nat]
    BY <1>2, <1>3, <1>7, <2>1
  <2>3. QED
    BY <1>3, <1>4, <2>1, <2>2 DEF TelemetryTyped, Grow
<1>8. CASE At(c) = "stream"
  <2>1. /\ runtime' = [runtime EXCEPT ![c.stream][Field(c.kind)] = @ + 1]
        /\ UNCHANGED <<counters, stamp, protocols, alerts>>
    BY <1>1, <1>8, RecordEffects
  <2>2. PICK h \in Fields : h = Field(c.kind)
    BY <1>2, <1>8, FieldFacts
  <2>3. runtime' \in [Observed -> [Fields -> Nat]]
    BY <1>2, <1>3, <2>1, <2>2
  <2>4. QED
    BY <1>3, <1>4, <2>1, <2>3 DEF TelemetryTyped, Grow
<1>9. CASE At(c) = "alert"
  <2>1. alerts' = PushAlert(c) /\ UNCHANGED <<counters, stamp, protocols, runtime>>
    BY <1>1, <1>9, RecordEffects
  <2>2. PushAlert(c) \in Seq(AlertType)
    BY <1>2, <1>3, <1>9, PushedType
  <2>3. QED
    BY <1>3, <1>4, <2>1, <2>2 DEF TelemetryTyped, Grow
<1>10. QED
  BY <1>2, <1>5, <1>6, <1>7, <1>8, <1>9

LEMMA RecordKnows ==
  ASSUME TelemetryTyped, CallsKnow, NEW t \in Recorder, Record(t)
  PROVE  CallsKnow'
<1>1. PICK c \in CallSet, d \in CallSet \cup {NoCall} :
        /\ c = recording[t] /\ recording' = [recording EXCEPT ![t] = d]
        /\ At(d) = Then(c.kind, At(c))
        /\ At(d) # "done" =>
             /\ d \in CallSet /\ d.kind = c.kind /\ d.now = c.now
             /\ d.n = IF At(c) = "count" THEN counters'[c.kind] ELSE c.n
  BY RecordIs
<1>2. /\ TelemetryTyped' /\ Grow /\ \A k \in Stamped : stamp'[k] <= clock'
      /\ clock' = clock
  <2>1. TelemetryTyped' /\ Grow /\ \A k \in Stamped : stamp'[k] <= clock'
    BY RecordTyped
  <2>2. QED
    BY <1>1, <2>1, RecordEffects
<1>3. recording'[t] = d /\ \A q \in Recorder \ {t} : recording'[q] = recording[q]
  BY <1>1 DEF TelemetryTyped
<1>4. /\ At(c) \in {"count", "stamp", "protocol", "stream", "alert"} /\ c.kind \in Kind
      /\ At(c) = "stamp" => c.kind \in Stamped
      /\ counters[c.kind] \in Nat /\ counters'[c.kind] \in Nat /\ c.n \in Nat
      /\ counters[c.kind] <= counters'[c.kind]
  BY <1>2, AtIs DEF TelemetryTyped, Grow
<1>5. /\ At(c) \in {"count", "stamp"} /\ c.kind \in Stamped => c.now = clock
      /\ At(c) \in {"stamp", "protocol", "stream", "alert"} =>
           1 <= c.n /\ c.n <= counters[c.kind]
  BY <1>1 DEF CallsKnow
<1>6. /\ At(d) \in {"count", "stamp"} /\ d.kind \in Stamped => d.now = clock
      /\ At(d) \in {"stamp", "protocol", "stream", "alert"} =>
           1 <= d.n /\ d.n <= counters'[d.kind]
  <2>1. CASE At(d) = "done"
    BY <2>1
  <2>2. CASE At(d) # "done" /\ At(c) = "count"
    <3>1. counters' = [counters EXCEPT ![c.kind] = @ + 1]
      BY <1>1, <2>2, RecordEffects
    <3>2. counters'[c.kind] = counters[c.kind] + 1
      BY <1>4, <3>1 DEF TelemetryTyped
    <3>3. 1 <= d.n /\ d.n <= counters'[d.kind]
      BY <1>1, <1>4, <2>2, <3>2
    <3>4. d.kind \in Stamped => d.now = clock
      BY <1>1, <1>5, <2>2
    <3>5. QED
      BY <3>3, <3>4
  <2>3. CASE At(d) # "done" /\ At(c) # "count"
    <3>1. At(d) \notin {"count", "stamp"}
      BY <1>1, <1>4, <2>3 DEF Then
    <3>2. 1 <= d.n /\ d.n <= counters'[d.kind]
      BY <1>1, <1>4, <1>5, <2>3
    <3>3. QED
      BY <3>1, <3>2
  <2>4. QED
    BY <2>1, <2>2, <2>3
<1>7. ASSUME NEW q \in Recorder
      PROVE  /\ At(recording'[q]) \in {"count", "stamp"} /\ recording'[q].kind \in Stamped
                  => recording'[q].now = clock'
             /\ At(recording'[q]) \in {"stamp", "protocol", "stream", "alert"}
                  => 1 <= recording'[q].n /\ recording'[q].n <= counters'[recording'[q].kind]
  <2>1. CASE q = t
    BY <1>2, <1>3, <1>6, <2>1
  <2>2. CASE q # t
    <3>1. PICK e \in CallSet \cup {NoCall} : e = recording[q] /\ e = recording'[q]
      BY <1>3, <2>2 DEF TelemetryTyped
    <3>2. /\ At(e) \in {"count", "stamp"} /\ e.kind \in Stamped => e.now = clock
          /\ At(e) \in {"stamp", "protocol", "stream", "alert"}
               => 1 <= e.n /\ e.n <= counters[e.kind]
      BY <3>1 DEF CallsKnow
    <3>3. At(e) \in {"stamp", "protocol", "stream", "alert"} =>
            /\ e.n \in Nat /\ counters[e.kind] \in Nat /\ counters'[e.kind] \in Nat
            /\ counters[e.kind] <= counters'[e.kind]
      BY <1>2, AtIs DEF TelemetryTyped, Grow
    <3>4. At(e) \in {"stamp", "protocol", "stream", "alert"} => e.n <= counters'[e.kind]
      BY <3>2, <3>3
    <3>5. QED
      BY <1>2, <3>1, <3>2, <3>4
  <2>3. QED
    BY <2>1, <2>2
<1>8. QED
  BY <1>2, <1>7 DEF CallsKnow

LEMMA RecordCounts ==
  ASSUME TelemetryTyped, CountsAgree, NEW t \in Recorder, Record(t)
  PROVE  CountsAgree'
<1>1. \A k \in Protocol : protocols'[k] + Cardinality(AtProtocol(recording', k)) = counters'[k]
  BY ProtocolsKeepStep
<1>2. \A f \in Fields :
        Streams(runtime', f) + Cardinality(AtStream(recording', f)) = Total(counters', f)
  BY StreamsKeepStep
<1>3. QED
  BY <1>1, <1>2 DEF CountsAgree, AtProtocol, AtStream, Streams, Total

\* How many of the calls that are counted have not raised their alert.
LEMMA AlertRoom ==
  ASSUME TelemetryTyped, NEW t \in Recorder, Record(t), NEW c \in CallSet, c = recording[t],
         NEW k \in Failure
  PROVE  /\ Cardinality(AtAlert(recording, k)) \in Nat
         /\ Cardinality(AtAlert(recording', k)) \in Nat
         /\ counters'[k] + Cardinality(AtAlert(recording, k))
              = counters[k] + Cardinality(AtAlert(recording', k))
                + One(At(c) = "alert" /\ c.kind = k)
         /\ At(c) = "alert" => Cardinality(AtAlert(recording', k)) < Cardinality(Recorder)
<1>1. PICK d \in CallSet \cup {NoCall} :
        /\ recording' = [recording EXCEPT ![t] = d]
        /\ At(d) = Then(c.kind, At(c))
        /\ At(d) # "done" => d.kind = c.kind
  BY RecordIs
<1>2. PICK later : later = recording' /\ CallerMoves(recording, t, d, later)
  BY <1>1 DEF CallerMoves, TelemetryTyped
<1>3. /\ Cardinality(AtAlert(recording, k)) \in Nat
      /\ Cardinality(AtAlert(later, k)) \in Nat
      /\ Cardinality(AtAlert(recording, k)) + One(ForAlert(d, k))
           = Cardinality(AtAlert(later, k)) + One(ForAlert(c, k))
  BY <1>2, AtAlertMoves
<1>4. /\ counters[k] \in Nat /\ c.kind \in Kind
      /\ At(c) \in {"count", "stamp", "protocol", "stream", "alert"}
      /\ At(c) = "stamp" => c.kind \in Stamped
      /\ At(c) = "protocol" => c.kind \in Protocol
      /\ k \in Kind /\ k # "damage" /\ k \notin Stamped /\ k \notin Protocol
  BY AtIs, KindFacts DEF TelemetryTyped
<1>5. /\ At(c) = "count" => counters'[k] = counters[k] + One(c.kind = k)
      /\ At(c) # "count" => counters'[k] = counters[k]
  <2>1. CASE At(c) = "count"
    <3>1. counters' = [counters EXCEPT ![c.kind] = @ + 1]
      BY <2>1, RecordEffects
    <3>2. QED
      BY <1>4, <2>1, <3>1 DEF TelemetryTyped, One
  <2>2. CASE At(c) # "count"
    <3>1. counters' = counters
      BY <1>4, <2>2, RecordEffects
    <3>2. QED
      BY <2>2, <3>1
  <2>3. QED
    BY <2>1, <2>2
<1>6. /\ At(c) = "count" => ~ForAlert(c, k) /\ (ForAlert(d, k) <=> c.kind = k)
      /\ At(c) \in {"stamp", "protocol"} => ~ForAlert(c, k) /\ ~ForAlert(d, k)
      /\ At(c) = "stream" => (ForAlert(c, k) <=> c.kind = k) /\ (ForAlert(d, k) <=> c.kind = k)
      /\ At(c) = "alert" => (ForAlert(c, k) <=> c.kind = k) /\ ~ForAlert(d, k)
  <2>1. CASE At(c) = "count"
    <3>1. c.kind = k => At(d) = "stream" /\ d.kind = k
      BY <1>1, <1>4, <2>1 DEF Then
    <3>2. c.kind # k => ~ForAlert(d, k)
      BY <1>1 DEF ForAlert
    <3>3. QED
      BY <2>1, <3>1, <3>2 DEF ForAlert
  <2>2. CASE At(c) \in {"stamp", "protocol"}
    <3>1. c.kind # k
      BY <1>4, <2>2
    <3>2. ~ForAlert(d, k)
      BY <1>1, <3>1 DEF ForAlert
    <3>3. QED
      BY <2>2, <3>1, <3>2 DEF ForAlert
  <2>3. CASE At(c) = "stream"
    <3>1. c.kind = k => At(d) = "alert" /\ d.kind = k
      BY <1>1, <1>4, <2>3 DEF Then
    <3>2. c.kind # k => ~ForAlert(d, k)
      BY <1>1 DEF ForAlert
    <3>3. QED
      BY <2>3, <3>1, <3>2 DEF ForAlert
  <2>4. CASE At(c) = "alert"
    <3>1. At(d) = "done"
      BY <1>1, <2>4 DEF Then
    <3>2. QED
      BY <2>4, <3>1 DEF ForAlert
  <2>5. QED
    BY <1>4, <2>1, <2>2, <2>3, <2>4
<1>7. counters'[k] + Cardinality(AtAlert(recording, k))
        = counters[k] + Cardinality(AtAlert(later, k)) + One(At(c) = "alert" /\ c.kind = k)
  <2>1. PICK a \in Nat, b \in Nat, n \in Nat :
          /\ a = Cardinality(AtAlert(recording, k)) /\ b = Cardinality(AtAlert(later, k))
          /\ n = counters[k]
    BY <1>3, <1>4
  <2>2. PICK y \in {0, 1} : y = One(ForAlert(c, k))
    BY OneType
  <2>3. PICK z \in {0, 1} : z = One(ForAlert(d, k))
    BY OneType
  <2>4. PICK x \in {0, 1} : x = One(c.kind = k)
    BY OneType
  <2>5. PICK w \in {0, 1} : w = One(At(c) = "alert" /\ c.kind = k)
    BY OneType
  <2>6. a + z = b + y
    BY <1>3, <2>1, <2>2, <2>3
  <2>7. /\ At(c) = "count" => y = 0 /\ z = x /\ w = 0
        /\ At(c) \in {"stamp", "protocol"} => y = 0 /\ z = 0 /\ w = 0
        /\ At(c) = "stream" => y = x /\ z = x /\ w = 0
        /\ At(c) = "alert" => y = x /\ z = 0 /\ w = x
    BY <1>6, <2>2, <2>3, <2>4, <2>5 DEF One
  <2>8. /\ At(c) = "count" => counters'[k] = n + x
        /\ At(c) # "count" => counters'[k] = n
    BY <1>5, <2>1, <2>4
  <2>9. counters'[k] + a = n + b + w
    BY <1>4, <2>6, <2>7, <2>8
  <2>10. QED
    BY <2>1, <2>5, <2>9
<1>8. ASSUME At(c) = "alert" PROVE Cardinality(AtAlert(later, k)) < Cardinality(Recorder)
  <2>1. t \notin AtAlert(later, k)
    BY <1>2, <1>6, <1>8 DEF AtAlert, CallerMoves
  <2>2. AtAlert(later, k) \in SUBSET Recorder
    BY DEF AtAlert
  <2>3. AtAlert(later, k) # Recorder
    BY <2>1
  <2>4. Cardinality(AtAlert(later, k)) <= Cardinality(Recorder)
        /\ Cardinality(AtAlert(later, k)) # Cardinality(Recorder)
        /\ Cardinality(Recorder) \in Nat
    BY <2>2, <2>3, TelemetryConstants, FS_Subset, FS_CardinalityType
  <2>5. QED
    BY <1>3, <2>4
<1>9. QED
  BY <1>2, <1>3, <1>7, <1>8

LEMMA RecordAlerts ==
  ASSUME TelemetryTyped, CallsKnow, AlertsBounded, NEW t \in Recorder, Record(t)
  PROVE  AlertsBounded'
<1>1. PICK c \in CallSet : c = recording[t]
  BY RecordIs
<1> DEFINE a(k) == Cardinality(AtAlert(recording, k))
           b(k) == Cardinality(AtAlert(recording', k))
           all == Cardinality(Recorder)
<1>2. \A k \in Failure :
        /\ a(k) \in Nat /\ b(k) \in Nat /\ counters[k] \in Nat /\ counters'[k] \in Nat
        /\ counters'[k] + a(k) = counters[k] + b(k) + One(At(c) = "alert" /\ c.kind = k)
        /\ At(c) = "alert" => b(k) < all
  <2>1. \A k \in Failure : counters[k] \in Nat /\ counters'[k] \in Nat
    BY RecordTyped, KindFacts DEF TelemetryTyped
  <2>2. QED
    BY <1>1, <2>1, AlertRoom
<1>3. all \in Nat
  BY TelemetryConstants, FS_CardinalityType
<1>4. alerts \in Seq(AlertType)
      /\ \A i \in DOMAIN alerts : alerts[i].kind \in Failure /\ alerts[i].count \in Nat
  <2>1. alerts \in Seq(AlertType)
    BY DEF TelemetryTyped
  <2>2. ASSUME NEW i \in DOMAIN alerts PROVE alerts[i].kind \in Failure /\ alerts[i].count \in Nat
    <3>1. PICK x \in AlertType : x = alerts[i]
      BY <2>1
    <3>2. x.kind \in Failure /\ x.count \in Nat
      BY DEF AlertType
    <3>3. QED
      BY <3>1, <3>2
  <2>3. QED
    BY <2>1, <2>2
<1>5. /\ \A i \in DOMAIN alerts, j \in DOMAIN alerts : Alike(alerts[i], alerts[j]) => i = j
      /\ \A i \in DOMAIN alerts :
           alerts[i].count + a(alerts[i].kind) < counters[alerts[i].kind] + all
  BY DEF AlertsBounded
<1>6. CASE At(c) # "alert"
  <2>1. alerts' = alerts
    BY <1>1, <1>6, AtIs, RecordEffects
  <2>2. ASSUME NEW i \in DOMAIN alerts
        PROVE  alerts[i].count + b(alerts[i].kind) < counters'[alerts[i].kind] + all
    <3>1. PICK k \in Failure : k = alerts[i].kind
      BY <1>4
    <3>2. counters'[k] + a(k) = counters[k] + b(k)
      BY <1>2, <1>6 DEF One
    <3>3. alerts[i].count + a(k) < counters[k] + all /\ alerts[i].count \in Nat
      BY <1>4, <1>5, <3>1
    <3> HIDE DEF a, b, all
    <3>4. alerts[i].count + b(k) < counters'[k] + all
      BY <1>2, <1>3, <3>2, <3>3
    <3>5. QED
      BY <3>1, <3>4
  <2>3. QED
    BY <1>5, <2>1, <2>2 DEF AlertsBounded, Alike, AtAlert
<1>7. CASE At(c) = "alert"
  <2>1. PICK newer : newer = alerts' /\ newer = PushAlert(c) /\ counters' = counters
    BY <1>1, <1>7, RecordEffects
  <2>2. /\ c.kind \in Failure /\ c.n \in Nat /\ 1 <= c.n /\ c.n <= counters[c.kind]
    BY <1>1, <1>7, AtIs DEF CallsKnow
  <2>3. \/ \E first \in DOMAIN alerts : Alike(alerts[first], c) /\ Raised(first, newer)
        \/ /\ \A i \in DOMAIN alerts : ~Alike(alerts[i], c)
           /\ \E new : NewAlert(c, new) /\ Prepended(new, newer)
    BY <1>4, <2>1, <2>2, PushAlertIs
  <2>4. ASSUME NEW k \in Failure
        PROVE  /\ k = c.kind => a(k) = b(k) + 1
               /\ k # c.kind => a(k) = b(k)
               /\ b(k) < all
    <3>1. /\ counters[k] + a(k) = counters[k] + b(k) + One(At(c) = "alert" /\ c.kind = k)
          /\ b(k) < all /\ a(k) \in Nat /\ b(k) \in Nat /\ counters[k] \in Nat
      BY <1>2, <1>7, <2>1
    <3>2. /\ k = c.kind => One(At(c) = "alert" /\ c.kind = k) = 1
          /\ k # c.kind => One(At(c) = "alert" /\ c.kind = k) = 0
      BY <1>7 DEF One
    <3> HIDE DEF a, b, all
    <3>3. QED
      BY <3>1, <3>2
  <2>5. /\ \A i \in DOMAIN newer, j \in DOMAIN newer : Alike(newer[i], newer[j]) => i = j
        /\ \A i \in DOMAIN newer :
             newer[i].count + b(newer[i].kind) < counters[newer[i].kind] + all
    <3>1. CASE \E first \in DOMAIN alerts : Alike(alerts[first], c) /\ Raised(first, newer)
      <4>1. PICK first \in DOMAIN alerts : Alike(alerts[first], c) /\ Raised(first, newer)
        BY <3>1
      <4>2. /\ newer \in Seq(AlertType) /\ DOMAIN newer = DOMAIN alerts
            /\ \A i \in DOMAIN alerts :
                 /\ newer[i].kind = alerts[i].kind /\ newer[i].stream = alerts[i].stream
                 /\ newer[i].detail = alerts[i].detail
                 /\ i # first => newer[i].count = alerts[i].count
            /\ newer[first].count = alerts[first].count + 1
        BY <1>4, <4>1, RaisedType
      <4>3. \A i \in DOMAIN newer, j \in DOMAIN newer : Alike(newer[i], newer[j]) => i = j
        BY <1>5, <4>2 DEF Alike
      <4>4. ASSUME NEW i \in DOMAIN newer
            PROVE  newer[i].count + b(newer[i].kind) < counters[newer[i].kind] + all
        <5>1. PICK k \in Failure : k = alerts[i].kind /\ k = newer[i].kind
          BY <1>4, <4>2
        <5>2. /\ alerts[i].count + a(k) < counters[k] + all /\ alerts[i].count \in Nat
              /\ counters[k] \in Nat /\ a(k) \in Nat /\ b(k) \in Nat
          BY <1>2, <1>4, <1>5, <4>2, <5>1
        <5>3. CASE i = first
          <6>1. k = c.kind
            BY <4>1, <5>1, <5>3 DEF Alike
          <6>2. a(k) = b(k) + 1 /\ newer[i].count = alerts[i].count + 1
            BY <2>4, <4>2, <5>3, <6>1
          <6> HIDE DEF a, b, all
          <6>3. newer[i].count + b(k) < counters[k] + all
            BY <1>3, <5>2, <6>2
          <6>4. QED
            BY <5>1, <6>3
        <5>4. CASE i # first
          <6>1. b(k) <= a(k)
            <7>1. k = c.kind => a(k) = b(k) + 1
              BY <2>4
            <7>2. k # c.kind => a(k) = b(k)
              BY <2>4
            <7> HIDE DEF a, b, all
            <7>3. QED
              BY <5>2, <7>1, <7>2
          <6>2. newer[i].count = alerts[i].count
            BY <4>2, <5>4
          <6> HIDE DEF a, b, all
          <6>3. newer[i].count + b(k) < counters[k] + all
            BY <1>3, <5>2, <6>1, <6>2
          <6>4. QED
            BY <5>1, <6>3
        <5>5. QED
          BY <5>3, <5>4
      <4>5. QED
        BY <4>3, <4>4
    <3>2. CASE /\ \A i \in DOMAIN alerts : ~Alike(alerts[i], c)
               /\ \E new : NewAlert(c, new) /\ Prepended(new, newer)
      <4>1. PICK new : NewAlert(c, new) /\ Prepended(new, newer)
        BY <3>2
      <4>2. /\ newer \in Seq(AlertType) /\ Len(newer) \in 1 .. Len(alerts) + 1
            /\ newer[1] = new /\ \A i \in 2 .. Len(newer) : newer[i] = alerts[i - 1]
        BY <4>1 DEF Prepended
      <4>3. /\ DOMAIN newer = 1 .. Len(newer) /\ DOMAIN alerts = 1 .. Len(alerts)
            /\ Len(alerts) \in Nat /\ Len(newer) \in Nat
        BY <1>4, <4>2
      <4>4. \A i \in DOMAIN newer : i = 1 \/ (i \in 2 .. Len(newer) /\ i - 1 \in DOMAIN alerts)
        BY <4>2, <4>3
      <4>5. /\ new.kind = c.kind /\ new.stream = c.stream /\ new.detail = c.detail
            /\ new.count \in Nat /\ new.count <= c.n
        <5>1. new.count = IF c.kind = "meshError" THEN c.n ELSE 1
          BY <4>1 DEF NewAlert
        <5>2. new.count \in Nat /\ new.count <= c.n
          BY <2>2, <5>1
        <5>3. QED
          BY <4>1, <5>2 DEF NewAlert
      <4>6. \A i \in DOMAIN alerts : ~Alike(alerts[i], new) /\ ~Alike(new, alerts[i])
        BY <3>2, <4>5 DEF Alike
      <4>7. ASSUME NEW i \in DOMAIN newer, NEW j \in DOMAIN newer, Alike(newer[i], newer[j])
            PROVE  i = j
        <5>1. CASE i = 1 /\ j = 1
          BY <5>1
        <5>2. CASE i = 1 /\ j # 1
          BY <4>2, <4>4, <4>6, <4>7, <5>2
        <5>3. CASE i # 1 /\ j = 1
          BY <4>2, <4>4, <4>6, <4>7, <5>3
        <5>4. CASE i # 1 /\ j # 1
          <6>1. /\ i - 1 \in DOMAIN alerts /\ j - 1 \in DOMAIN alerts /\ i \in Nat /\ j \in Nat
                /\ newer[i] = alerts[i - 1] /\ newer[j] = alerts[j - 1]
            BY <4>2, <4>4, <5>4
          <6>2. i - 1 = j - 1
            BY <1>5, <4>7, <6>1
          <6>3. QED
            BY <6>1, <6>2
        <5>5. QED
          BY <5>1, <5>2, <5>3, <5>4
      <4>8. ASSUME NEW i \in DOMAIN newer
            PROVE  newer[i].count + b(newer[i].kind) < counters[newer[i].kind] + all
        <5>1. CASE i = 1
          <6>1. PICK k \in Failure : k = c.kind /\ k = new.kind
            BY <2>2, <4>5
          <6>2. b(k) < all /\ b(k) \in Nat /\ counters[k] \in Nat
            BY <1>2, <2>4
          <6>3. new.count <= counters[k]
            BY <2>2, <4>5, <6>1, <6>2
          <6> HIDE DEF a, b, all
          <6>4. new.count + b(k) < counters[k] + all
            BY <1>3, <4>5, <6>2, <6>3
          <6>5. QED
            BY <4>2, <5>1, <6>1, <6>4
        <5>2. CASE i # 1
          <6>1. PICK j \in DOMAIN alerts : newer[i] = alerts[j]
            BY <4>2, <4>4, <5>2
          <6>2. PICK k \in Failure : k = alerts[j].kind
            BY <1>4
          <6>3. /\ alerts[j].count + a(k) < counters[k] + all /\ alerts[j].count \in Nat
                /\ counters[k] \in Nat /\ a(k) \in Nat /\ b(k) \in Nat
            BY <1>2, <1>4, <1>5, <6>2
          <6>4. b(k) <= a(k)
            <7>1. k = c.kind => a(k) = b(k) + 1
              BY <2>4
            <7>2. k # c.kind => a(k) = b(k)
              BY <2>4
            <7> HIDE DEF a, b, all
            <7>3. QED
              BY <6>3, <7>1, <7>2
          <6> HIDE DEF a, b, all
          <6>5. alerts[j].count + b(k) < counters[k] + all
            BY <1>3, <6>3, <6>4
          <6>6. QED
            BY <6>1, <6>2, <6>5
        <5>3. QED
          BY <5>1, <5>2
      <4>9. QED
        BY <4>7, <4>8
    <3>3. QED
      BY <2>3, <3>1, <3>2
  <2>6. QED
    BY <2>1, <2>5 DEF AlertsBounded, Alike, AtAlert
<1>8. QED
  BY <1>6, <1>7

CallInv == TelemetryTyped /\ CallsKnow /\ CountsAgree /\ AlertsBounded

\* Nothing that is recorded changes.
Unrecorded == UNCHANGED <<counters, stamp, protocols, runtime, alerts>>

LEMMA SameCalls ==
  ASSUME CountsAgree, AlertsBounded, Unrecorded,
         \A t \in Recorder : \A k :
           /\ ForProtocol(recording'[t], k) <=> ForProtocol(recording[t], k)
           /\ ForStream(recording'[t], k) <=> ForStream(recording[t], k)
           /\ ForAlert(recording'[t], k) <=> ForAlert(recording[t], k)
  PROVE  CountsAgree' /\ AlertsBounded'
<1>1. \A k : /\ AtProtocol(recording', k) = AtProtocol(recording, k)
             /\ AtStream(recording', k) = AtStream(recording, k)
             /\ AtAlert(recording', k) = AtAlert(recording, k)
  BY DEF AtProtocol, AtStream, AtAlert
<1>2. /\ counters' = counters /\ protocols' = protocols /\ runtime' = runtime /\ alerts' = alerts
  BY DEF Unrecorded
<1>3. CountsAgree'
  <2>1. \A k \in Protocol : protocols'[k] + Cardinality(AtProtocol(recording', k)) = counters'[k]
    BY <1>1, <1>2 DEF CountsAgree
  <2>2. \A f \in Fields :
          Streams(runtime', f) + Cardinality(AtStream(recording', f)) = Total(counters', f)
    BY <1>1, <1>2 DEF CountsAgree
  <2>3. QED
    BY <2>1, <2>2 DEF CountsAgree, AtProtocol, AtStream, Streams, Total
<1>4. AlertsBounded'
  <2>1. \A i \in DOMAIN alerts', j \in DOMAIN alerts' : Alike(alerts'[i], alerts'[j]) => i = j
    BY <1>2 DEF AlertsBounded, Alike
  <2>2. \A i \in DOMAIN alerts' :
          alerts'[i].count + Cardinality(AtAlert(recording', alerts'[i].kind))
            < counters'[alerts'[i].kind] + Cardinality(Recorder)
    BY <1>1, <1>2 DEF AlertsBounded
  <2>3. QED
    BY <2>1, <2>2 DEF AlertsBounded, AtAlert, Alike
<1>5. QED
  BY <1>3, <1>4

LEMMA BeginCallKeeps ==
  ASSUME CallInv, NEW t \in Recorder, NEW kind \in Kind, NEW stream \in Observed,
         NEW detail \in Nat, BeginCall(t, kind, stream, detail)
  PROVE  CallInv' /\ Grow
<1>1. /\ TelemetryTyped /\ CallsKnow /\ CountsAgree /\ AlertsBounded
      /\ Unrecorded /\ UNCHANGED <<impaired, report, reports, clock>>
      /\ clock \in Nat /\ recording \in [Recorder -> CallSet \cup {NoCall}]
  BY DEF CallInv, BeginCall, TelemetryTyped, Unrecorded
<1>2. recording[t] = NoCall
  BY <1>1, AtIs DEF BeginCall
<1>3. PICK todo \in Left(kind) : todo = Steps[kind] /\ Head(todo) = "count"
  BY StepsLeft
<1>4. PICK n \in Nat : n = 0
  OBVIOUS
<1>5. PICK d : d = [kind |-> kind, stream |-> stream, detail |-> detail, n |-> n, now |-> clock,
                    todo |-> todo]
  OBVIOUS
<1>6. PICK now \in Nat : now = clock
  BY <1>1
<1>7. d \in CallSet
  BY <1>5, <1>6, CallMade
<1>8. At(d) = "count" /\ d.now = clock
  <2>1. d.todo = todo /\ d.now = clock
    BY <1>5
  <2>2. At(d) = Head(d.todo)
    BY <1>7, AtIs
  <2>3. QED
    BY <1>3, <2>1, <2>2
<1>9. recording' = [recording EXCEPT ![t] = d]
  BY <1>3, <1>4, <1>5 DEF BeginCall
<1>10. recording'[t] = d /\ \A q \in Recorder \ {t} : recording'[q] = recording[q]
  BY <1>1, <1>9
<1>11. TelemetryTyped'
  <2>1. recording' \in [Recorder -> CallSet \cup {NoCall}]
    BY <1>1, <1>7, <1>9
  <2>2. QED
    BY <1>1, <2>1 DEF TelemetryTyped, Unrecorded
<1>12. CallsKnow'
  <2>1. ASSUME NEW q \in Recorder
        PROVE  /\ At(recording'[q]) \in {"count", "stamp"} /\ recording'[q].kind \in Stamped
                    => recording'[q].now = clock'
               /\ At(recording'[q]) \in {"stamp", "protocol", "stream", "alert"}
                    => 1 <= recording'[q].n /\ recording'[q].n <= counters'[recording'[q].kind]
    <3>1. CASE q = t
      BY <1>1, <1>8, <1>10, <3>1
    <3>2. CASE q # t
      BY <1>1, <1>10, <3>2 DEF CallsKnow, Unrecorded
    <3>3. QED
      BY <3>1, <3>2
  <2>2. QED
    BY <1>1, <2>1 DEF CallsKnow, Unrecorded
<1>13. CountsAgree' /\ AlertsBounded'
  <2>1. ASSUME NEW q \in Recorder, NEW k
        PROVE  /\ ForProtocol(recording'[q], k) <=> ForProtocol(recording[q], k)
               /\ ForStream(recording'[q], k) <=> ForStream(recording[q], k)
               /\ ForAlert(recording'[q], k) <=> ForAlert(recording[q], k)
    <3>1. CASE q = t
      <4>1. At(recording[q]) = "done" /\ At(recording'[q]) = "count"
        BY <1>2, <1>8, <1>10, <3>1, AtIs
      <4>2. QED
        BY <4>1 DEF ForProtocol, ForStream, ForAlert
    <3>2. CASE q # t
      BY <1>10, <3>2
    <3>3. QED
      BY <3>1, <3>2
  <2>2. QED
    BY <1>1, <2>1, SameCalls
<1>14. Grow
  BY <1>1 DEF Grow, Unrecorded, TelemetryTyped
<1>15. QED
  BY <1>11, <1>12, <1>13, <1>14 DEF CallInv

\* The clock stands while a call is between reading it and storing it.
LEMMA ElapseKeeps ==
  ASSUME CallInv, Elapse
  PROVE  CallInv' /\ Grow
<1>1. /\ TelemetryTyped /\ CallsKnow /\ CountsAgree /\ AlertsBounded
      /\ Unrecorded /\ UNCHANGED <<recording, impaired, report, reports>>
      /\ clock \in Nat /\ clock' = clock + 1
      /\ recording \in [Recorder -> CallSet \cup {NoCall}]
      /\ stamp \in [Stamped -> Nat]
  BY DEF CallInv, Elapse, TelemetryTyped, Unrecorded
<1>2. TelemetryTyped'
  <2>1. clock' \in Nat
    BY <1>1
  <2>2. QED
    BY <1>1, <2>1 DEF TelemetryTyped, Unrecorded
<1>3. CountsAgree' /\ AlertsBounded'
  BY <1>1, SameCalls
<1>4. ASSUME NEW q \in Recorder
      PROVE  ~(At(recording[q]) \in {"count", "stamp"} /\ recording[q].kind \in Stamped)
  <2>1. SUFFICES ASSUME At(recording[q]) \in {"count", "stamp"}, recording[q].kind \in Stamped
                 PROVE  FALSE
    OBVIOUS
  <2>2. PICK c \in CallSet : c = recording[q]
    BY <1>1, <2>1, AtIs
  <2>3. PICK kind \in Stamped : kind = c.kind
    BY <2>1, <2>2
  <2>4. PICK todo \in Left(kind) : todo = c.todo /\ Head(todo) \in {"count", "stamp"}
    BY <2>1, <2>2, <2>3, AtIs
  <2>5. Contains(todo, "stamp")
    BY <2>4, StampLeft
  <2>6. ~Contains(recording[q].todo, "stamp")
    BY DEF Elapse
  <2>7. QED
    BY <2>2, <2>4, <2>5, <2>6
<1>5. CallsKnow'
  <2>1. \A k \in Stamped : stamp'[k] <= clock'
    BY <1>1 DEF CallsKnow, Unrecorded
  <2>2. ASSUME NEW q \in Recorder
        PROVE  /\ ~(At(recording'[q]) \in {"count", "stamp"} /\ recording'[q].kind \in Stamped)
               /\ At(recording'[q]) \in {"stamp", "protocol", "stream", "alert"}
                    => 1 <= recording'[q].n /\ recording'[q].n <= counters'[recording'[q].kind]
    BY <1>1, <1>4 DEF CallsKnow, Unrecorded
  <2>3. QED
    BY <2>1, <2>2 DEF CallsKnow
<1>6. Grow
  BY <1>1 DEF Grow, Unrecorded, TelemetryTyped
<1>7. QED
  BY <1>2, <1>3, <1>5, <1>6 DEF CallInv

\* The steps of the report, and those of the lanes, leave the calls alone.
LEMMA OthersKeep ==
  ASSUME CallInv, Unrecorded, UNCHANGED <<recording, clock>>,
         report' \in ReportType, reports' \in Nat, impaired' \in BOOLEAN
  PROVE  CallInv' /\ Grow
<1>1. /\ TelemetryTyped /\ CallsKnow /\ CountsAgree /\ AlertsBounded
  BY DEF CallInv
<1>2. TelemetryTyped'
  BY <1>1 DEF TelemetryTyped, Unrecorded
<1>3. CountsAgree' /\ AlertsBounded'
  BY <1>1, SameCalls
<1>4. CallsKnow'
  BY <1>1 DEF CallsKnow, Unrecorded
<1>5. Grow
  BY <1>1 DEF Grow, Unrecorded, TelemetryTyped
<1>6. QED
  BY <1>2, <1>3, <1>4, <1>5 DEF CallInv

LEMMA RecordKeeps ==
  ASSUME CallInv, NEW t \in Recorder, Record(t)
  PROVE  CallInv' /\ Grow
<1>1. /\ TelemetryTyped /\ CallsKnow /\ CountsAgree /\ AlertsBounded
  BY DEF CallInv
<1>2. TelemetryTyped' /\ Grow
  BY <1>1, RecordTyped
<1>3. CallsKnow'
  BY <1>1, RecordKnows
<1>4. CountsAgree'
  BY <1>1, RecordCounts
<1>5. AlertsBounded'
  BY <1>1, RecordAlerts
<1>6. QED
  BY <1>2, <1>3, <1>4, <1>5 DEF CallInv

-----------------------------------------------------------------------------
\* The report.

Seen(r, what, k) == \E i \in 1 .. r.at - 1 : LoadOrder[i] = Load(what, k)

\* What a report has read of the counters, and of those it has not yet, what they are.
Ahead(r, table) == [k \in Kind |-> IF Seen(r, "count", k) THEN r.count[k] ELSE table[k]]
Latest(r, times) == [k \in Stamped |-> IF Seen(r, "stamp", k) THEN r.stamp[k] ELSE times[k]]

\* While a report reads, nothing it has read is ahead of what it has read or may
\* still read of the counters.
ReportSound(r, table, times) ==
  /\ r.at \in 0 .. 19
  /\ r.at # 0 =>
       /\ \A k \in Kind : r.count[k] <= table[k] /\ r.began.count[k] <= Ahead(r, table)[k]
       /\ \A k \in Stamped : r.stamp[k] <= times[k] /\ r.began.stamp[k] <= Latest(r, times)[k]
       /\ \A k \in Protocol : r.protocol[k] <= Ahead(r, table)[k]
       /\ \A f \in Fields : Streams(r.runtime, f) <= Total(Ahead(r, table), f)

LEMMA ReportFields ==
  ASSUME NEW r \in ReportType
  PROVE  /\ r.at \in Nat /\ r.now \in Nat /\ r.state \in States /\ r.derived \in SUBSET Codes
         /\ r.count \in [Kind -> Nat] /\ r.stamp \in [Stamped -> Nat]
         /\ r.protocol \in [Protocol -> Nat] /\ r.runtime \in [Observed -> [Fields -> Nat]]
         /\ r.impaired \in BOOLEAN /\ r.began \in BeganType
         /\ r.began.count \in [Kind -> Nat] /\ r.began.stamp \in [Stamped -> Nat]
         /\ r = [at |-> r.at, now |-> r.now, state |-> r.state, derived |-> r.derived,
                 count |-> r.count, stamp |-> r.stamp, protocol |-> r.protocol,
                 runtime |-> r.runtime, impaired |-> r.impaired, began |-> r.began]
<1>1. /\ r.at \in Nat /\ r.now \in Nat /\ r.state \in States /\ r.derived \in SUBSET Codes
      /\ r.count \in [Kind -> Nat] /\ r.stamp \in [Stamped -> Nat]
      /\ r.protocol \in [Protocol -> Nat] /\ r.runtime \in [Observed -> [Fields -> Nat]]
      /\ r.impaired \in BOOLEAN /\ r.began \in BeganType
  BY DEF ReportType
<1>2. r.began.count \in [Kind -> Nat] /\ r.began.stamp \in [Stamped -> Nat]
  BY <1>1 DEF BeganType
<1>3. r = [at |-> r.at, now |-> r.now, state |-> r.state, derived |-> r.derived,
           count |-> r.count, stamp |-> r.stamp, protocol |-> r.protocol,
           runtime |-> r.runtime, impaired |-> r.impaired, began |-> r.began]
  BY DEF ReportType
<1>4. QED
  BY <1>1, <1>2, <1>3

LEMMA AheadType ==
  ASSUME NEW r \in ReportType, NEW table \in [Kind -> Nat], NEW times \in [Stamped -> Nat]
  PROVE  Ahead(r, table) \in [Kind -> Nat] /\ Latest(r, times) \in [Stamped -> Nat]
<1>1. r.count \in [Kind -> Nat] /\ r.stamp \in [Stamped -> Nat]
  BY ReportFields
<1>2. \A k \in Kind : (IF Seen(r, "count", k) THEN r.count[k] ELSE table[k]) \in Nat
  BY <1>1
<1>3. \A k \in Stamped : (IF Seen(r, "stamp", k) THEN r.stamp[k] ELSE times[k]) \in Nat
  BY <1>1
<1>4. QED
  BY <1>2, <1>3 DEF Ahead, Latest

\* It stays so when the counters grow.
LEMMA ReportGrows ==
  ASSUME NEW r \in ReportType, NEW table \in [Kind -> Nat], NEW later \in [Kind -> Nat],
         \A k \in Kind : table[k] <= later[k],
         NEW times \in [Stamped -> Nat], NEW newer \in [Stamped -> Nat],
         \A k \in Stamped : times[k] <= newer[k],
         ReportSound(r, table, times)
  PROVE  ReportSound(r, later, newer)
<1>1. SUFFICES ASSUME r.at # 0 PROVE ReportSound(r, later, newer)
  BY DEF ReportSound
<1>2. /\ \A k \in Kind : r.count[k] \in Nat /\ r.began.count[k] \in Nat
      /\ \A k \in Stamped : r.stamp[k] \in Nat /\ r.began.stamp[k] \in Nat
      /\ \A k \in Protocol : r.protocol[k] \in Nat
      /\ r.runtime \in [Observed -> [Fields -> Nat]]
  BY ReportFields
<1>3. PICK a \in [Kind -> Nat], b \in [Kind -> Nat] :
        a = Ahead(r, table) /\ b = Ahead(r, later)
  BY AheadType
<1>4. PICK x \in [Stamped -> Nat], y \in [Stamped -> Nat] :
        x = Latest(r, times) /\ y = Latest(r, newer)
  BY AheadType
<1>5. \A k \in Kind : a[k] <= b[k]
  BY <1>2, <1>3 DEF Ahead
<1>6. \A k \in Stamped : x[k] <= y[k]
  BY <1>2, <1>4 DEF Latest
<1>7. /\ r.at \in 0 .. 19
      /\ \A k \in Kind : r.count[k] <= table[k] /\ r.began.count[k] <= a[k]
      /\ \A k \in Stamped : r.stamp[k] <= times[k] /\ r.began.stamp[k] <= x[k]
      /\ \A k \in Protocol : r.protocol[k] <= a[k]
      /\ \A f \in Fields : Streams(r.runtime, f) <= Total(a, f)
  BY <1>1, <1>3, <1>4 DEF ReportSound
<1>8. \A k \in Kind : r.count[k] <= later[k] /\ r.began.count[k] <= b[k]
  BY <1>2, <1>5, <1>7
<1>9. \A k \in Stamped : r.stamp[k] <= newer[k] /\ r.began.stamp[k] <= y[k]
  BY <1>2, <1>6, <1>7
<1>10. \A k \in Protocol : r.protocol[k] <= b[k]
  BY <1>2, <1>5, <1>7, KindFacts
<1>11. ASSUME NEW f \in Fields PROVE Streams(r.runtime, f) <= Total(b, f)
  <2>1. Total(a, f) <= Total(b, f)
    BY <1>5, TotalAtMost
  <2>2. Streams(r.runtime, f) \in Nat /\ Total(a, f) \in Nat /\ Total(b, f) \in Nat
    BY <1>2, StreamsType, TotalType
  <2>3. QED
    BY <1>7, <2>1, <2>2
<1>12. QED
  BY <1>3, <1>4, <1>7, <1>8, <1>9, <1>10, <1>11 DEF ReportSound

IsReport(r, at, now, state, derived, count, times, protocol, table, lane, began) ==
  /\ at \in Nat /\ now \in Nat /\ state \in States /\ derived \in SUBSET Codes
  /\ count \in [Kind -> Nat] /\ times \in [Stamped -> Nat]
  /\ protocol \in [Protocol -> Nat] /\ table \in [Observed -> [Fields -> Nat]]
  /\ lane \in BOOLEAN /\ began \in BeganType
  /\ r = [at |-> at, now |-> now, state |-> state, derived |-> derived, count |-> count,
          stamp |-> times, protocol |-> protocol, runtime |-> table, impaired |-> lane,
          began |-> began]

LEMMA ReportMade ==
  ASSUME NEW at, NEW now, NEW state, NEW derived, NEW count, NEW times, NEW protocol,
         NEW table, NEW lane, NEW began, NEW r,
         IsReport(r, at, now, state, derived, count, times, protocol, table, lane, began)
  PROVE  /\ r \in ReportType /\ r.at = at /\ r.now = now /\ r.state = state
         /\ r.derived = derived /\ r.count = count /\ r.stamp = times
         /\ r.protocol = protocol /\ r.runtime = table /\ r.impaired = lane /\ r.began = began
BY DEF ReportType, IsReport

LEMMA BeginReportIs ==
  ASSUME TelemetryTyped, BeginReport
  PROVE  /\ report' \in ReportType /\ report'.at = 1
         /\ report'.count = Zero(Kind) /\ report'.stamp = Zero(Stamped)
         /\ report'.protocol = Zero(Protocol)
         /\ report'.runtime = [s \in Observed |-> Zero(Fields)]
         /\ report'.began.count = counters /\ report'.began.stamp = stamp
<1>1. /\ report \in ReportType /\ clock \in Nat
      /\ counters \in [Kind -> Nat] /\ stamp \in [Stamped -> Nat]
  BY DEF TelemetryTyped
<1>2. report.state \in States /\ report.derived \in SUBSET Codes
  BY <1>1, ReportFields
<1>3. PICK a, b, c, d, e :
        /\ a = [NoReport EXCEPT !.at = 1] /\ b = [a EXCEPT !.now = clock]
        /\ c = [b EXCEPT !.state = report.state] /\ d = [c EXCEPT !.derived = report.derived]
        /\ e = [d EXCEPT !.began = [count |-> counters, stamp |-> stamp]]
  OBVIOUS
<1>4. PICK began \in BeganType : began = [count |-> counters, stamp |-> stamp]
  BY <1>1 DEF BeganType
<1>5. PICK count \in [Kind -> Nat] : count = Zero(Kind)
  BY DEF Zero
<1>6. PICK times \in [Stamped -> Nat] : times = Zero(Stamped)
  BY DEF Zero
<1>7. PICK protocol \in [Protocol -> Nat] : protocol = Zero(Protocol)
  BY DEF Zero
<1>8. PICK table \in [Observed -> [Fields -> Nat]] : table = [s \in Observed |-> Zero(Fields)]
  BY DEF Zero
<1>9. PICK state \in States, derived \in SUBSET Codes, now \in Nat :
        state = report.state /\ derived = report.derived /\ now = clock
  BY <1>1, <1>2
<1>10. NoReport = [at |-> 0, now |-> 0, state |-> "none", derived |-> {}, count |-> count,
                   stamp |-> times, protocol |-> protocol, runtime |-> table,
                   impaired |-> FALSE,
                   began |-> [count |-> Zero(Kind), stamp |-> Zero(Stamped)]]
  BY <1>5, <1>6, <1>7, <1>8 DEF NoReport
<1>11. PICK zero : zero = [count |-> Zero(Kind), stamp |-> Zero(Stamped)]
  OBVIOUS
<1>12. /\ a = [at |-> 1, now |-> 0, state |-> "none", derived |-> {}, count |-> count,
               stamp |-> times, protocol |-> protocol, runtime |-> table,
               impaired |-> FALSE, began |-> zero]
       /\ b = [at |-> 1, now |-> now, state |-> "none", derived |-> {}, count |-> count,
               stamp |-> times, protocol |-> protocol, runtime |-> table,
               impaired |-> FALSE, began |-> zero]
  BY <1>3, <1>9, <1>10, <1>11
<1>13. c = [at |-> 1, now |-> now, state |-> state, derived |-> {}, count |-> count,
            stamp |-> times, protocol |-> protocol, runtime |-> table,
            impaired |-> FALSE, began |-> zero]
  <2>1. c = [b EXCEPT !.state = state]
    BY <1>3, <1>9
  <2>2. QED
    BY <1>12, <2>1
<1>14. d = [at |-> 1, now |-> now, state |-> state, derived |-> derived, count |-> count,
            stamp |-> times, protocol |-> protocol, runtime |-> table,
            impaired |-> FALSE, began |-> zero]
  <2>1. d = [c EXCEPT !.derived = derived]
    BY <1>3, <1>9
  <2>2. QED
    BY <1>13, <2>1
<1>15. e = [at |-> 1, now |-> now, state |-> state, derived |-> derived, count |-> count,
            stamp |-> times, protocol |-> protocol, runtime |-> table,
            impaired |-> FALSE, began |-> began]
  <2>1. e = [d EXCEPT !.began = began]
    BY <1>3, <1>4
  <2>2. QED
    BY <1>14, <2>1
<1>16. report' = e
  BY <1>3 DEF BeginReport
<1>17. PICK one \in Nat, no \in BOOLEAN : one = 1 /\ no = FALSE
  OBVIOUS
<1>18. /\ e \in ReportType /\ e.at = one /\ e.count = count /\ e.stamp = times
       /\ e.protocol = protocol /\ e.runtime = table /\ e.began = began
  <2>1. IsReport(e, one, now, state, derived, count, times, protocol, table, no, began)
    BY <1>15, <1>17 DEF IsReport
  <2>2. QED
    BY <2>1, ReportMade
<1>19. began.count = counters /\ began.stamp = stamp
  BY <1>4
<1>20. QED
  BY <1>5, <1>6, <1>7, <1>8, <1>16, <1>17, <1>18, <1>19

LEMMA BeginReportSound ==
  ASSUME TelemetryTyped, BeginReport
  PROVE  ReportSound(report', counters, stamp)
<1>1. PICK r \in ReportType :
        /\ r = report' /\ r.at = 1 /\ r.count = Zero(Kind) /\ r.stamp = Zero(Stamped)
        /\ r.protocol = Zero(Protocol) /\ r.runtime = [s \in Observed |-> Zero(Fields)]
        /\ r.began.count = counters /\ r.began.stamp = stamp
  BY BeginReportIs
<1>2. counters \in [Kind -> Nat] /\ stamp \in [Stamped -> Nat]
  BY DEF TelemetryTyped
<1>3. \A what, k : ~Seen(r, what, k)
  BY <1>1 DEF Seen
<1>4. PICK a \in [Kind -> Nat] : a = Ahead(r, counters)
  BY <1>2, AheadType
<1>5. \A k \in Kind : a[k] = counters[k] /\ a[k] \in Nat
  BY <1>2, <1>3, <1>4 DEF Ahead
<1>6. \A k \in Stamped : Latest(r, stamp)[k] = stamp[k] /\ stamp[k] \in Nat
  BY <1>2, <1>3 DEF Latest
<1>7. /\ \A k \in Kind : r.count[k] = 0 /\ r.began.count[k] = counters[k]
      /\ \A k \in Stamped : r.stamp[k] = 0 /\ r.began.stamp[k] = stamp[k]
      /\ \A k \in Protocol : r.protocol[k] = 0
  BY <1>1 DEF Zero
<1>8. ASSUME NEW f \in Fields PROVE Streams(r.runtime, f) <= Total(a, f)
  <2> DEFINE g == [s \in Observed |-> r.runtime[s][f]]
  <2>1. \A s \in Observed : g[s] = 0
    BY <1>1 DEF Zero
  <2>2. Streams(r.runtime, f) = SumFunctionOnSet(g, Observed)
    BY DEF Streams
  <2> HIDE DEF g
  <2>3. SumFunctionOnSet(g, Observed) = 0
    BY <2>1, TelemetryConstants, SumOfZeros
  <2>4. Total(a, f) \in Nat
    BY TotalType
  <2>5. QED
    BY <2>2, <2>3, <2>4
<1>9. /\ \A k \in Kind : r.count[k] <= counters[k] /\ r.began.count[k] <= a[k]
      /\ \A k \in Protocol : r.protocol[k] <= a[k]
  BY <1>5, <1>7, KindFacts
<1>10. \A k \in Stamped : r.stamp[k] <= stamp[k] /\ r.began.stamp[k] <= Latest(r, stamp)[k]
  BY <1>6, <1>7
<1>11. r.at \in 0 .. 19
  BY <1>1
<1>12. QED
  BY <1>1, <1>4, <1>8, <1>9, <1>10, <1>11 DEF ReportSound

LEMMA LoadIs ==
  ASSUME NEW a, NEW b, NEW c, NEW d
  PROVE  /\ Load(a, b).what = a /\ Load(a, b).kind = b
         /\ Load(a, b) = Load(c, d) => a = c /\ b = d
BY DEF Load

\* What one load of the report changes.
ReadTable(r, e) ==
  /\ r.at = 1 /\ e.protocol = protocols
  /\ e.count = r.count /\ e.stamp = r.stamp /\ e.runtime = r.runtime

ReadRuntime(r, e) ==
  /\ r.at = 2 /\ e.runtime = runtime
  /\ e.count = r.count /\ e.stamp = r.stamp /\ e.protocol = r.protocol

ReadLanes(r, e) ==
  /\ LoadOrder[r.at] = Load("impaired", "")
  /\ e.count = r.count /\ e.stamp = r.stamp /\ e.protocol = r.protocol /\ e.runtime = r.runtime

ReadCounter(r, e, k) ==
  /\ LoadOrder[r.at] = Load("count", k) /\ e.count = [r.count EXCEPT ![k] = counters[k]]
  /\ e.stamp = r.stamp /\ e.protocol = r.protocol /\ e.runtime = r.runtime

ReadStamp(r, e, k) ==
  /\ LoadOrder[r.at] = Load("stamp", k) /\ e.stamp = [r.stamp EXCEPT ![k] = stamp[k]]
  /\ e.count = r.count /\ e.protocol = r.protocol /\ e.runtime = r.runtime

LEMMA ReadPlace ==
  ASSUME TelemetryTyped, Read
  PROVE  /\ report.at \in 1 .. 18
         /\ \/ report.at = 1 /\ LoadOrder[report.at] = Load("protocol", "")
            \/ report.at = 2 /\ LoadOrder[report.at] = Load("runtime", "")
            \/ LoadOrder[report.at] = Load("impaired", "")
            \/ \E k \in Kind : LoadOrder[report.at] = Load("count", k)
            \/ \E k \in Stamped : LoadOrder[report.at] = Load("stamp", k)
<1>1. PICK i \in 1 .. 18 : i = report.at
  BY Loads DEF Read
<1>2. CASE i \in 3 .. 18
  <2>1. PICK j \in 1 .. 16 : j = i - 2
    BY <1>2
  <2>2. LoadOrder[i] = Counters[j]
    BY <1>2, <2>1, Loads
  <2>3. \/ Counters[j] = Load("impaired", "")
        \/ \E k \in Kind : Counters[j] = Load("count", k)
        \/ \E k \in Stamped : Counters[j] = Load("stamp", k)
    BY LoadsCounters
  <2>4. QED
    BY <1>1, <2>2, <2>3
<1>3. i = 1 \/ i = 2 \/ i \in 3 .. 18
  OBVIOUS
<1>4. QED
  BY <1>1, <1>2, <1>3, Loads

LEMMA ReadIs ==
  ASSUME TelemetryTyped, Read
  PROVE  /\ report' \in ReportType /\ report'.at = report.at + 1 /\ report.at \in 1 .. 18
         /\ report'.began = report.began
         /\ \/ ReadTable(report, report') \/ ReadRuntime(report, report')
            \/ ReadLanes(report, report')
            \/ \E k \in Kind : ReadCounter(report, report', k)
            \/ \E k \in Stamped : ReadStamp(report, report', k)
<1>1. /\ report \in ReportType /\ counters \in [Kind -> Nat] /\ stamp \in [Stamped -> Nat]
      /\ protocols \in [Protocol -> Nat] /\ runtime \in [Observed -> [Fields -> Nat]]
      /\ impaired \in BOOLEAN
  BY DEF TelemetryTyped
<1>2. PICK r \in ReportType : r = report
  BY <1>1
<1>3. PICK at, now, state, derived, count, times, protocol, table, lane, began :
        /\ at = r.at /\ now = r.now /\ state = r.state /\ derived = r.derived /\ count = r.count
        /\ times = r.stamp /\ protocol = r.protocol /\ table = r.runtime /\ lane = r.impaired
        /\ began = r.began
  OBVIOUS
<1>4. IsReport(r, at, now, state, derived, count, times, protocol, table, lane, began)
  BY <1>3, ReportFields DEF IsReport
<1>5. PICK next : next = at + 1
  OBVIOUS
<1>6. at \in 1 .. 18 /\ next \in Nat
  <2>1. at \in 1 .. 18
    BY <1>2, <1>3, ReadPlace
  <2>2. QED
    BY <1>5, <2>1
<1>7. PICK what, k : LoadOrder[at] = Load(what, k)
  BY <1>2, <1>3, ReadPlace
<1>8. LoadOrder[at].what = what /\ LoadOrder[at].kind = k
  BY <1>7, LoadIs
<1>9. PICK e : e = CASE what = "protocol" -> [r EXCEPT !.protocol = protocols]
                     [] what = "runtime"  -> [r EXCEPT !.runtime = runtime]
                     [] what = "impaired" -> [r EXCEPT !.impaired = impaired]
                     [] what = "count"    -> [r EXCEPT !.count[k] = counters[k]]
                     [] what = "stamp"    -> [r EXCEPT !.stamp[k] = stamp[k]]
  OBVIOUS
<1>10. report' = [e EXCEPT !.at = @ + 1]
  BY <1>2, <1>3, <1>8, <1>9 DEF Read
<1>11. ASSUME NEW count2, NEW times2, NEW protocol2, NEW table2, NEW lane2,
              IsReport(e, at, now, state, derived, count2, times2, protocol2, table2, lane2,
                       began)
       PROVE  /\ report' \in ReportType /\ report'.at = next /\ report'.began = began
              /\ report'.count = count2 /\ report'.stamp = times2
              /\ report'.protocol = protocol2 /\ report'.runtime = table2
  <2>1. PICK q : q = [e EXCEPT !.at = next]
    OBVIOUS
  <2>2. e.at = at
    BY <1>11, ReportMade
  <2>3. report' = q
    BY <1>5, <1>10, <2>1, <2>2
  <2>4. IsReport(q, next, now, state, derived, count2, times2, protocol2, table2, lane2, began)
    BY <1>6, <1>11, <2>1 DEF IsReport
  <2>5. /\ q \in ReportType /\ q.at = next /\ q.began = began /\ q.count = count2
        /\ q.stamp = times2 /\ q.protocol = protocol2 /\ q.runtime = table2
    BY <2>4, ReportMade
  <2>6. QED
    BY <2>3, <2>5
<1>12. \/ at = 1 /\ what = "protocol"
       \/ at = 2 /\ what = "runtime"
       \/ what = "impaired" /\ k = ""
       \/ what = "count" /\ k \in Kind
       \/ what = "stamp" /\ k \in Stamped
  <2>1. \/ at = 1 /\ Load(what, k) = Load("protocol", "")
        \/ at = 2 /\ Load(what, k) = Load("runtime", "")
        \/ Load(what, k) = Load("impaired", "")
        \/ \E j \in Kind : Load(what, k) = Load("count", j)
        \/ \E j \in Stamped : Load(what, k) = Load("stamp", j)
    <3>1. report.at = at
      BY <1>2, <1>3
    <3>2. \/ at = 1 /\ LoadOrder[at] = Load("protocol", "")
          \/ at = 2 /\ LoadOrder[at] = Load("runtime", "")
          \/ LoadOrder[at] = Load("impaired", "")
          \/ \E j \in Kind : LoadOrder[at] = Load("count", j)
          \/ \E j \in Stamped : LoadOrder[at] = Load("stamp", j)
      BY <3>1, ReadPlace
    <3>3. QED
      BY <1>7, <3>2
  <2>2. \A c, d : Load(what, k) = Load(c, d) => what = c /\ k = d
    BY LoadIs
  <2>3. QED
    BY <2>1, <2>2
<1>13. CASE at = 1 /\ what = "protocol"
  <2>1. e = [r EXCEPT !.protocol = protocols]
    BY <1>9, <1>13
  <2>2. PICK protocol2 \in [Protocol -> Nat] : protocol2 = protocols
    BY <1>1
  <2>3. IsReport(e, at, now, state, derived, count, times, protocol2, table, lane, began)
    BY <1>4, <2>1, <2>2 DEF IsReport
  <2>4. /\ report' \in ReportType /\ report'.at = next /\ report'.began = began
        /\ report'.count = count /\ report'.stamp = times
        /\ report'.protocol = protocol2 /\ report'.runtime = table
    BY <1>11, <2>3
  <2>5. ReadTable(report, report')
    BY <1>2, <1>3, <1>13, <2>2, <2>4 DEF ReadTable
  <2>6. QED
    BY <1>2, <1>3, <1>5, <1>6, <2>4, <2>5
<1>14. CASE at = 2 /\ what = "runtime"
  <2>1. e = [r EXCEPT !.runtime = runtime]
    BY <1>9, <1>14
  <2>2. PICK table2 \in [Observed -> [Fields -> Nat]] : table2 = runtime
    BY <1>1
  <2>3. IsReport(e, at, now, state, derived, count, times, protocol, table2, lane, began)
    BY <1>4, <2>1, <2>2 DEF IsReport
  <2>4. /\ report' \in ReportType /\ report'.at = next /\ report'.began = began
        /\ report'.count = count /\ report'.stamp = times
        /\ report'.protocol = protocol /\ report'.runtime = table2
    BY <1>11, <2>3
  <2>5. ReadRuntime(report, report')
    BY <1>2, <1>3, <1>14, <2>2, <2>4 DEF ReadRuntime
  <2>6. QED
    BY <1>2, <1>3, <1>5, <1>6, <2>4, <2>5
<1>15. CASE what = "impaired" /\ k = ""
  <2>1. e = [r EXCEPT !.impaired = impaired]
    BY <1>9, <1>15
  <2>2. PICK lane2 \in BOOLEAN : lane2 = impaired
    BY <1>1
  <2>3. IsReport(e, at, now, state, derived, count, times, protocol, table, lane2, began)
    BY <1>4, <2>1, <2>2 DEF IsReport
  <2>4. /\ report' \in ReportType /\ report'.at = next /\ report'.began = began
        /\ report'.count = count /\ report'.stamp = times
        /\ report'.protocol = protocol /\ report'.runtime = table
    BY <1>11, <2>3
  <2>5. ReadLanes(report, report')
    BY <1>2, <1>3, <1>7, <1>15, <2>4 DEF ReadLanes
  <2>6. QED
    BY <1>2, <1>3, <1>5, <1>6, <2>4, <2>5
<1>16. CASE what = "count" /\ k \in Kind
  <2>1. e = [r EXCEPT !.count[k] = counters[k]]
    BY <1>9, <1>16
  <2>2. PICK count2 : count2 = [count EXCEPT ![k] = counters[k]]
    OBVIOUS
  <2>3. count \in [Kind -> Nat] /\ count2 \in [Kind -> Nat]
    BY <1>1, <1>4, <1>16, <2>2 DEF IsReport
  <2>4. e = [r EXCEPT !.count = count2]
    BY <1>3, <2>1, <2>2
  <2>5. IsReport(e, at, now, state, derived, count2, times, protocol, table, lane, began)
    BY <1>4, <2>3, <2>4 DEF IsReport
  <2>6. /\ report' \in ReportType /\ report'.at = next /\ report'.began = began
        /\ report'.count = count2 /\ report'.stamp = times
        /\ report'.protocol = protocol /\ report'.runtime = table
    BY <1>11, <2>5
  <2>7. ReadCounter(report, report', k)
    BY <1>2, <1>3, <1>7, <1>16, <2>2, <2>6 DEF ReadCounter
  <2>8. QED
    BY <1>2, <1>3, <1>5, <1>6, <1>16, <2>6, <2>7
<1>17. CASE what = "stamp" /\ k \in Stamped
  <2>1. e = [r EXCEPT !.stamp[k] = stamp[k]]
    BY <1>9, <1>17
  <2>2. PICK times2 : times2 = [times EXCEPT ![k] = stamp[k]]
    OBVIOUS
  <2>3. times \in [Stamped -> Nat] /\ times2 \in [Stamped -> Nat]
    BY <1>1, <1>4, <1>17, <2>2 DEF IsReport
  <2>4. e = [r EXCEPT !.stamp = times2]
    BY <1>3, <2>1, <2>2
  <2>5. IsReport(e, at, now, state, derived, count, times2, protocol, table, lane, began)
    BY <1>4, <2>3, <2>4 DEF IsReport
  <2>6. /\ report' \in ReportType /\ report'.at = next /\ report'.began = began
        /\ report'.count = count /\ report'.stamp = times2
        /\ report'.protocol = protocol /\ report'.runtime = table
    BY <1>11, <2>5
  <2>7. ReadStamp(report, report', k)
    BY <1>2, <1>3, <1>7, <1>17, <2>2, <2>6 DEF ReadStamp
  <2>8. QED
    BY <1>2, <1>3, <1>5, <1>6, <1>17, <2>6, <2>7
<1>18. QED
  BY <1>12, <1>13, <1>14, <1>15, <1>16, <1>17

LEMMA OtherLoads ==
  ASSUME NEW k
  PROVE  /\ Load("protocol", "") # Load("count", k) /\ Load("protocol", "") # Load("stamp", k)
         /\ Load("runtime", "") # Load("count", k) /\ Load("runtime", "") # Load("stamp", k)
         /\ Load("impaired", "") # Load("count", k) /\ Load("impaired", "") # Load("stamp", k)
<1>1. /\ Load("protocol", "").what = "protocol" /\ Load("runtime", "").what = "runtime"
      /\ Load("impaired", "").what = "impaired"
      /\ Load("count", k).what = "count" /\ Load("stamp", k).what = "stamp"
  BY DEF Load
<1>2. QED
  BY <1>1

LEMMA SeenNext ==
  ASSUME NEW r, NEW e, r.at \in 1 .. 18, e.at = r.at + 1
  PROVE  \A what, k : Seen(e, what, k) <=> Seen(r, what, k) \/ LoadOrder[r.at] = Load(what, k)
<1>1. PICK n \in 1 .. 18 : n = r.at
  OBVIOUS
<1>2. 1 .. e.at - 1 = (1 .. r.at - 1) \cup {n}
  <2>1. 1 .. n + 1 - 1 = (1 .. n - 1) \cup {n}
    OBVIOUS
  <2>2. QED
    BY <1>1, <2>1
<1>3. QED
  BY <1>1, <1>2 DEF Seen

LEMMA ReadSound ==
  ASSUME TelemetryTyped, CountsAgree, ReportSound(report, counters, stamp), Read
  PROVE  ReportSound(report', counters, stamp)
<1>1. PICK r \in ReportType, e \in ReportType :
        /\ r = report /\ e = report' /\ e.at = r.at + 1 /\ r.at \in 1 .. 18
        /\ e.began = r.began
        /\ \/ ReadTable(r, e) \/ ReadRuntime(r, e) \/ ReadLanes(r, e)
           \/ \E k \in Kind : ReadCounter(r, e, k)
           \/ \E k \in Stamped : ReadStamp(r, e, k)
  BY ReadIs DEF TelemetryTyped
<1>2. /\ counters \in [Kind -> Nat] /\ stamp \in [Stamped -> Nat]
      /\ protocols \in [Protocol -> Nat] /\ runtime \in [Observed -> [Fields -> Nat]]
  BY DEF TelemetryTyped
<1>3. /\ r.count \in [Kind -> Nat] /\ r.stamp \in [Stamped -> Nat]
      /\ r.protocol \in [Protocol -> Nat] /\ r.runtime \in [Observed -> [Fields -> Nat]]
      /\ r.began.count \in [Kind -> Nat] /\ r.began.stamp \in [Stamped -> Nat]
  BY ReportFields
<1>4. PICK a \in [Kind -> Nat], b \in [Kind -> Nat] :
        a = Ahead(r, counters) /\ b = Ahead(e, counters)
  BY <1>2, AheadType
<1>5. PICK x \in [Stamped -> Nat], y \in [Stamped -> Nat] :
        x = Latest(r, stamp) /\ y = Latest(e, stamp)
  BY <1>2, AheadType
<1>6. /\ \A k \in Kind : a[k] = IF Seen(r, "count", k) THEN r.count[k] ELSE counters[k]
      /\ \A k \in Kind : b[k] = IF Seen(e, "count", k) THEN e.count[k] ELSE counters[k]
      /\ \A k \in Stamped : x[k] = IF Seen(r, "stamp", k) THEN r.stamp[k] ELSE stamp[k]
      /\ \A k \in Stamped : y[k] = IF Seen(e, "stamp", k) THEN e.stamp[k] ELSE stamp[k]
  BY <1>4, <1>5 DEF Ahead, Latest
<1>7. /\ \A k \in Kind : r.count[k] <= counters[k] /\ r.began.count[k] <= a[k]
      /\ \A k \in Stamped : r.stamp[k] <= stamp[k] /\ r.began.stamp[k] <= x[k]
      /\ \A k \in Protocol : r.protocol[k] <= a[k]
      /\ \A f \in Fields : Streams(r.runtime, f) <= Total(a, f)
  BY <1>1, <1>4, <1>5 DEF ReportSound
<1>8. \A what, k : Seen(e, what, k) <=> Seen(r, what, k) \/ LoadOrder[r.at] = Load(what, k)
  BY <1>1, SeenNext
\* It is enough that what is read of the counters only grows.
<1>9. ASSUME /\ \A k \in Kind : e.count[k] <= counters[k] /\ a[k] <= b[k]
             /\ \A k \in Stamped : e.stamp[k] <= stamp[k] /\ x[k] <= y[k]
             /\ \A k \in Protocol : e.protocol[k] <= b[k]
             /\ \A f \in Fields : Streams(e.runtime, f) <= Total(b, f)
      PROVE  ReportSound(report', counters, stamp)
  <2>1. \A k \in Kind : e.began.count[k] <= b[k]
    BY <1>1, <1>3, <1>7, <1>9
  <2>2. \A k \in Stamped : e.began.stamp[k] <= y[k]
    BY <1>1, <1>3, <1>7, <1>9
  <2>3. e.at \in 0 .. 19
    BY <1>1
  <2>4. QED
    BY <1>1, <1>4, <1>5, <1>9, <2>1, <2>2, <2>3 DEF ReportSound
<1>10. ASSUME NEW f \in Fields, \A k \in Kind : a[k] <= b[k] PROVE Total(a, f) <= Total(b, f)
  BY <1>10, TotalAtMost
<1>11. \A f \in Fields : Streams(r.runtime, f) \in Nat /\ Total(a, f) \in Nat /\ Total(b, f) \in Nat
  BY <1>3, StreamsType, TotalType
<1>12. \A k \in Protocol : k \in Kind
  BY KindFacts
<1>13. ASSUME \A k \in Kind : a[k] <= b[k], e.protocol = r.protocol
       PROVE  \A k \in Protocol : e.protocol[k] <= b[k]
  BY <1>3, <1>7, <1>12, <1>13
<1>14. ASSUME \A k \in Kind : a[k] <= b[k], e.runtime = r.runtime
       PROVE  \A f \in Fields : Streams(e.runtime, f) <= Total(b, f)
  <2>1. ASSUME NEW f \in Fields PROVE Streams(e.runtime, f) <= Total(b, f)
    <3>1. Streams(e.runtime, f) = Streams(r.runtime, f) /\ Total(a, f) <= Total(b, f)
      BY <1>10, <1>14
    <3>2. Streams(r.runtime, f) <= Total(a, f)
      BY <1>7
    <3>3. QED
      BY <1>11, <3>1, <3>2
  <2>2. QED
    BY <2>1
<1>15. ASSUME \A k : LoadOrder[r.at] # Load("count", k) /\ LoadOrder[r.at] # Load("stamp", k),
              e.count = r.count, e.stamp = r.stamp
       PROVE  /\ \A k \in Kind : e.count[k] <= counters[k] /\ a[k] <= b[k] /\ a[k] = b[k]
              /\ \A k \in Stamped : e.stamp[k] <= stamp[k] /\ x[k] <= y[k]
  BY <1>6, <1>7, <1>8, <1>15
<1>16. CASE ReadTable(r, e)
  <2>1. r.at = 1 /\ e.protocol = protocols /\ e.count = r.count /\ e.stamp = r.stamp
        /\ e.runtime = r.runtime
    BY <1>16 DEF ReadTable
  <2>2. \A k : LoadOrder[r.at] # Load("count", k) /\ LoadOrder[r.at] # Load("stamp", k)
    BY <2>1, Loads, OtherLoads
  <2>3. /\ \A k \in Kind : e.count[k] <= counters[k] /\ a[k] <= b[k] /\ a[k] = b[k]
        /\ \A k \in Stamped : e.stamp[k] <= stamp[k] /\ x[k] <= y[k]
    BY <1>15, <2>1, <2>2
  <2>4. \A k : ~Seen(r, "count", k)
    BY <2>1 DEF Seen
  <2>5. ASSUME NEW k \in Protocol PROVE e.protocol[k] <= b[k]
    <3>1. b[k] = counters[k]
      BY <1>6, <1>12, <2>3, <2>4
    <3>2. protocols[k] + Cardinality(AtProtocol(recording, k)) = counters[k]
      BY DEF CountsAgree
    <3>3. Cardinality(AtProtocol(recording, k)) \in Nat
      BY TelemetryConstants, FS_Subset, FS_CardinalityType DEF AtProtocol
    <3>4. protocols[k] \in Nat /\ counters[k] \in Nat
      BY <1>2, <1>12
    <3>5. protocols[k] <= counters[k]
      BY <3>2, <3>3, <3>4
    <3>6. QED
      BY <2>1, <3>1, <3>5
  <2>6. \A f \in Fields : Streams(e.runtime, f) <= Total(b, f)
    BY <1>14, <2>1, <2>3
  <2>7. QED
    BY <1>9, <2>3, <2>5, <2>6
<1>17. CASE ReadRuntime(r, e)
  <2>1. r.at = 2 /\ e.runtime = runtime /\ e.count = r.count /\ e.stamp = r.stamp
        /\ e.protocol = r.protocol
    BY <1>17 DEF ReadRuntime
  <2>2. \A k : LoadOrder[r.at] # Load("count", k) /\ LoadOrder[r.at] # Load("stamp", k)
    BY <2>1, Loads, OtherLoads
  <2>3. /\ \A k \in Kind : e.count[k] <= counters[k] /\ a[k] <= b[k] /\ a[k] = b[k]
        /\ \A k \in Stamped : e.stamp[k] <= stamp[k] /\ x[k] <= y[k]
    BY <1>15, <2>1, <2>2
  <2>4. ASSUME NEW k PROVE ~Seen(r, "count", k)
    <3>1. \A i \in 1 .. r.at - 1 : i = 1
      BY <2>1
    <3>2. LoadOrder[1] # Load("count", k)
      BY Loads, OtherLoads
    <3>3. QED
      BY <3>1, <3>2 DEF Seen
  <2>5. b = counters
    <3>1. \A k \in Kind : b[k] = counters[k]
      BY <1>6, <2>3, <2>4
    <3>2. QED
      BY <1>2, <3>1
  <2>6. ASSUME NEW f \in Fields PROVE Streams(e.runtime, f) <= Total(b, f)
    <3>1. Streams(runtime, f) + Cardinality(AtStream(recording, f)) = Total(counters, f)
      BY DEF CountsAgree
    <3>2. Cardinality(AtStream(recording, f)) \in Nat
      BY TelemetryConstants, FS_Subset, FS_CardinalityType DEF AtStream
    <3>3. Streams(runtime, f) \in Nat /\ Total(counters, f) \in Nat
      BY <1>2, StreamsType, TotalType
    <3>4. Streams(runtime, f) <= Total(counters, f)
      BY <3>1, <3>2, <3>3
    <3>5. QED
      BY <2>1, <2>5, <3>4
  <2>7. \A k \in Protocol : e.protocol[k] <= b[k]
    BY <1>13, <2>1, <2>3
  <2>8. QED
    BY <1>9, <2>3, <2>6, <2>7
<1>18. CASE ReadLanes(r, e)
  <2>1. LoadOrder[r.at] = Load("impaired", "") /\ e.runtime = r.runtime /\ e.count = r.count
        /\ e.stamp = r.stamp /\ e.protocol = r.protocol
    BY <1>18 DEF ReadLanes
  <2>2. \A k : LoadOrder[r.at] # Load("count", k) /\ LoadOrder[r.at] # Load("stamp", k)
    BY <2>1, OtherLoads
  <2>3. /\ \A k \in Kind : e.count[k] <= counters[k] /\ a[k] <= b[k] /\ a[k] = b[k]
        /\ \A k \in Stamped : e.stamp[k] <= stamp[k] /\ x[k] <= y[k]
    BY <1>15, <2>1, <2>2
  <2>4. QED
    BY <1>9, <1>13, <1>14, <2>1, <2>3
<1>19. ASSUME NEW k \in Kind, ReadCounter(r, e, k) PROVE ReportSound(report', counters, stamp)
  <2>1. LoadOrder[r.at] = Load("count", k) /\ e.count = [r.count EXCEPT ![k] = counters[k]]
        /\ e.stamp = r.stamp /\ e.protocol = r.protocol /\ e.runtime = r.runtime
    BY <1>19 DEF ReadCounter
  <2>2. /\ \A j : LoadOrder[r.at] = Load("count", j) <=> j = k
        /\ \A j : LoadOrder[r.at] # Load("stamp", j)
    BY <2>1, LoadIs
  <2>3. e.count[k] = counters[k] /\ \A j \in Kind : j # k => e.count[j] = r.count[j]
    BY <1>3, <2>1
  <2>4. \A j \in Kind : e.count[j] <= counters[j]
    BY <1>2, <1>7, <2>3
  <2>5. ASSUME NEW j \in Kind PROVE a[j] <= b[j]
    <3>1. CASE j = k
      <4>1. b[k] = counters[k]
        BY <1>6, <2>3
      <4>2. a[k] <= counters[k]
        BY <1>2, <1>6, <1>7
      <4>3. QED
        BY <3>1, <4>1, <4>2
    <3>2. CASE j # k
      <4>1. Seen(e, "count", j) <=> Seen(r, "count", j)
        BY <1>8, <2>2, <3>2
      <4>2. a[j] = b[j]
        BY <1>6, <2>3, <3>2, <4>1
      <4>3. QED
        BY <4>2
    <3>3. QED
      BY <3>1, <3>2
  <2>6. \A j \in Stamped : e.stamp[j] <= stamp[j] /\ x[j] <= y[j]
    <3>1. \A j \in Stamped : Seen(e, "stamp", j) <=> Seen(r, "stamp", j)
      BY <1>8, <2>2
    <3>2. \A j \in Stamped : x[j] = y[j]
      BY <1>6, <2>1, <3>1
    <3>3. QED
      BY <1>7, <2>1, <3>2
  <2>7. /\ \A j \in Protocol : e.protocol[j] <= b[j]
        /\ \A f \in Fields : Streams(e.runtime, f) <= Total(b, f)
    BY <1>13, <1>14, <2>1, <2>5
  <2>8. QED
    BY <1>9, <2>4, <2>5, <2>6, <2>7
<1>20. ASSUME NEW k \in Stamped, ReadStamp(r, e, k) PROVE ReportSound(report', counters, stamp)
  <2>1. LoadOrder[r.at] = Load("stamp", k) /\ e.stamp = [r.stamp EXCEPT ![k] = stamp[k]]
        /\ e.count = r.count /\ e.protocol = r.protocol /\ e.runtime = r.runtime
    BY <1>20 DEF ReadStamp
  <2>2. /\ \A j : LoadOrder[r.at] = Load("stamp", j) <=> j = k
        /\ \A j : LoadOrder[r.at] # Load("count", j)
    BY <2>1, LoadIs
  <2>3. e.stamp[k] = stamp[k] /\ \A j \in Stamped : j # k => e.stamp[j] = r.stamp[j]
    BY <1>3, <2>1
  <2>4. \A j \in Stamped : e.stamp[j] <= stamp[j]
    BY <1>2, <1>7, <2>3
  <2>5. ASSUME NEW j \in Stamped PROVE x[j] <= y[j]
    <3>1. CASE j = k
      <4>1. y[k] = stamp[k]
        BY <1>6, <2>3
      <4>2. x[k] <= stamp[k]
        BY <1>2, <1>6, <1>7
      <4>3. QED
        BY <3>1, <4>1, <4>2
    <3>2. CASE j # k
      <4>1. Seen(e, "stamp", j) <=> Seen(r, "stamp", j)
        BY <1>8, <2>2, <3>2
      <4>2. x[j] = y[j]
        BY <1>6, <2>3, <3>2, <4>1
      <4>3. QED
        BY <4>2
    <3>3. QED
      BY <3>1, <3>2
  <2>6. \A j \in Kind : e.count[j] <= counters[j] /\ a[j] <= b[j]
    <3>1. \A j \in Kind : Seen(e, "count", j) <=> Seen(r, "count", j)
      BY <1>8, <2>2
    <3>2. \A j \in Kind : a[j] = b[j]
      BY <1>6, <2>1, <3>1
    <3>3. QED
      BY <1>7, <2>1, <3>2
  <2>7. /\ \A j \in Protocol : e.protocol[j] <= b[j]
        /\ \A f \in Fields : Streams(e.runtime, f) <= Total(b, f)
    BY <1>13, <1>14, <2>1, <2>6
  <2>8. QED
    BY <1>9, <2>4, <2>5, <2>6, <2>7
<1>21. QED
  BY <1>1, <1>16, <1>17, <1>18, <1>19, <1>20

\* The cases of a report's state.
LEMMA HealthCases ==
  ASSUME NEW r
  PROVE  /\ Degraded(r) => Health(r) = "degraded"
         /\ ~Degraded(r) /\ r.count["part"] > 0 /\ Stale(r, {"part"}) => Health(r) = "stale"
         /\ ~Degraded(r) /\ r.count["part"] > 0 /\ ~Stale(r, {"part"}) => Health(r) = "active"
         /\ ~Degraded(r) /\ ~(r.count["part"] > 0) =>
              \/ Health(r) = "stalled" /\ Stale(r, Protocol)
              \/ Health(r) = "ingesting" /\ InputSeen(r)
              \/ Health(r) = "waiting" /\ ~InputSeen(r)
BY DEF Health

LEMMA StaleIs ==
  ASSUME NEW r \in ReportType, NEW kinds, kinds \subseteq Stamped, Stale(r, kinds)
  PROVE  \A k \in kinds : r.stamp[k] + StaleAfter < r.now
<1>1. r.stamp \in [Stamped -> Nat] /\ r.now \in Nat /\ StaleAfter \in Nat
  BY ReportFields, TelemetryConstants
<1>2. PICK j \in kinds : r.stamp[j] # 0 /\ r.now > r.stamp[j] + StaleAfter
  BY DEF Stale
<1>3. ASSUME NEW k \in kinds PROVE r.stamp[k] + StaleAfter < r.now
  <2>1. r.stamp[j] \in Nat /\ r.stamp[k] \in Nat
    BY <1>1
  <2>2. CASE r.stamp[k] = 0
    BY <1>1, <1>2, <2>1, <2>2
  <2>3. CASE r.stamp[k] # 0
    <3>1. r.now > r.stamp[k] + StaleAfter
      BY <2>3 DEF Stale
    <3>2. QED
      BY <1>1, <2>1, <3>1
  <2>4. QED
    BY <2>2, <2>3
<1>4. QED
  BY <1>3

LEMMA HealthIs ==
  ASSUME NEW r \in ReportType
  PROVE  /\ Health(r) \in States
         /\ (\E k \in Failure : r.count[k] > 0) => Health(r) = "degraded"
         /\ Health(r) = "waiting" => \A k \in Input : r.count[k] = 0
         /\ Health(r) \in {"waiting", "ingesting", "stalled"} => r.count["part"] = 0
         /\ Health(r) = "stale" => r.stamp["part"] + StaleAfter < r.now
         /\ Health(r) = "stalled" => \A k \in Protocol : r.stamp[k] + StaleAfter < r.now
         /\ DerivedAlerts(r) \in SUBSET Codes
         /\ "waiting_for_input" \in DerivedAlerts(r) => \A k \in Input : r.count[k] = 0
         /\ r.count["damage"] > 0 => "mpeg_ts_input_damage" \in DerivedAlerts(r)
<1>1. r.count \in [Kind -> Nat] /\ "part" \in Kind /\ Input \subseteq Kind
      /\ "part" \in Stamped /\ Protocol \subseteq Stamped
  BY ReportFields, KindFacts
<1>2. ~InputSeen(r) => \A k \in Input : r.count[k] = 0
  BY <1>1 DEF InputSeen
<1>3. (\E k \in Failure : r.count[k] > 0) => Degraded(r)
  BY DEF Degraded
<1>4. r.count["part"] \in Nat
  BY <1>1
<1>5. Stale(r, {"part"}) => r.stamp["part"] + StaleAfter < r.now
  <2>1. {"part"} \subseteq Stamped
    BY <1>1
  <2>2. QED
    BY <2>1, StaleIs
<1>6. Stale(r, Protocol) => \A k \in Protocol : r.stamp[k] + StaleAfter < r.now
  BY <1>1, StaleIs
<1>7. PICK h : h = Health(r)
  OBVIOUS
<1>8. /\ Degraded(r) => h = "degraded"
      /\ ~Degraded(r) /\ r.count["part"] > 0 /\ Stale(r, {"part"}) => h = "stale"
      /\ ~Degraded(r) /\ r.count["part"] > 0 /\ ~Stale(r, {"part"}) => h = "active"
      /\ ~Degraded(r) /\ ~(r.count["part"] > 0) =>
           \/ h = "stalled" /\ Stale(r, Protocol)
           \/ h = "ingesting" /\ InputSeen(r)
           \/ h = "waiting" /\ ~InputSeen(r)
  BY <1>7, HealthCases
<1>9. /\ h \in States
      /\ (\E k \in Failure : r.count[k] > 0) => h = "degraded"
      /\ h = "waiting" => \A k \in Input : r.count[k] = 0
      /\ h = "stale" => r.stamp["part"] + StaleAfter < r.now
      /\ h = "stalled" => \A k \in Protocol : r.stamp[k] + StaleAfter < r.now
  <2>1. h \in States
    BY <1>8 DEF States
  <2>2. h = "waiting" => ~InputSeen(r)
    BY <1>8
  <2>3. h = "stale" => Stale(r, {"part"})
    BY <1>8
  <2>4. h = "stalled" => Stale(r, Protocol)
    BY <1>8
  <2>5. QED
    BY <1>2, <1>3, <1>5, <1>6, <1>8, <2>1, <2>2, <2>3, <2>4
<1>10. h \in {"waiting", "ingesting", "stalled"} => r.count["part"] = 0
  <2>1. h \in {"waiting", "ingesting", "stalled"} => ~(r.count["part"] > 0)
    BY <1>8
  <2>2. QED
    BY <1>4, <2>1
<1>11. DerivedAlerts(r) \in SUBSET Codes
  BY DEF DerivedAlerts, Codes
<1>12. "waiting_for_input" \in DerivedAlerts(r) => ~InputSeen(r)
  BY DEF DerivedAlerts
<1>13. r.count["damage"] > 0 => "mpeg_ts_input_damage" \in DerivedAlerts(r)
  BY DEF DerivedAlerts
<1>14. QED
  BY <1>2, <1>7, <1>9, <1>10, <1>11, <1>12, <1>13

\* What a whole report has read is ahead of what it began with.
LEMMA WholeReport ==
  ASSUME NEW r \in ReportType, r.at = 19, NEW table \in [Kind -> Nat],
         NEW times \in [Stamped -> Nat], ReportSound(r, table, times)
  PROVE  /\ \A k \in Kind : r.began.count[k] <= r.count[k]
         /\ \A k \in Stamped : r.began.stamp[k] <= r.stamp[k]
         /\ \A k \in Protocol : r.protocol[k] <= r.count[k]
         /\ \A f \in Fields : Streams(r.runtime, f) <= Total(r.count, f)
<1>1. r.count \in [Kind -> Nat] /\ r.stamp \in [Stamped -> Nat]
  BY ReportFields
<1>2. ASSUME NEW k \in Kind PROVE Seen(r, "count", k)
  <2>1. PICK i \in 1 .. 16 : i = Place[k] /\ Counters[i] = Load("count", k)
    BY LoadsCounters
  <2>2. PICK j \in 3 .. 18 : j = i + 2
    OBVIOUS
  <2>3. LoadOrder[j] = Counters[j - 2]
    BY Loads
  <2>4. j - 2 = i /\ j \in 1 .. r.at - 1
    BY <2>2
  <2>5. QED
    BY <2>1, <2>3, <2>4 DEF Seen
<1>3. ASSUME NEW k \in Stamped PROVE Seen(r, "stamp", k)
  <2>1. PICK i \in 1 .. 16 : i = StampPlace[k] /\ Counters[i] = Load("stamp", k)
    BY LoadsCounters
  <2>2. PICK j \in 3 .. 18 : j = i + 2
    OBVIOUS
  <2>3. LoadOrder[j] = Counters[j - 2]
    BY Loads
  <2>4. j - 2 = i /\ j \in 1 .. r.at - 1
    BY <2>2
  <2>5. QED
    BY <2>1, <2>3, <2>4 DEF Seen
<1>4. Ahead(r, table) = r.count
  <2>1. \A k \in Kind : (IF Seen(r, "count", k) THEN r.count[k] ELSE table[k]) = r.count[k]
    BY <1>2
  <2>2. QED
    BY <1>1, <2>1 DEF Ahead
<1>5. Latest(r, times) = r.stamp
  <2>1. \A k \in Stamped : (IF Seen(r, "stamp", k) THEN r.stamp[k] ELSE times[k]) = r.stamp[k]
    BY <1>3
  <2>2. QED
    BY <1>1, <2>1 DEF Latest
<1>6. r.at # 0
  OBVIOUS
<1>7. QED
  BY <1>4, <1>5, <1>6 DEF ReportSound

LEMMA OfStreamsIs ==
  ASSUME NEW r, NEW f
  PROVE  OfStreams(r, f) = Streams(r.runtime, f)
<1>1. DOMAIN [s \in Observed |-> r.runtime[s][f]] = Observed
  OBVIOUS
<1>2. QED
  BY <1>1 DEF OfStreams, Streams, SumFunction, SumFunctionOnSet, FoldFunction

LEMMA FieldOfKind ==
  ASSUME NEW k \in Kind \ (Input \cup {"damage"})
  PROVE  k \in Fields /\ k # "input"
BY FieldFacts, KindFacts

LEMMA MakeReportKeeps ==
  ASSUME TelemetryTyped, ReportSound(report, counters, stamp), MakeReport
  PROVE  /\ report' \in ReportType /\ report'.at = 0
         /\ ReportAddsUp(report') /\ StateIsTrue(report')
<1>1. PICK r \in ReportType : r = report
  BY DEF TelemetryTyped
<1>2. r.at = 19
  <2>1. PICK n \in Nat : n = Len(LoadOrder) /\ n = 18
    BY Loads
  <2>2. r.at = n + 1
    BY <1>1, <2>1 DEF MakeReport
  <2>3. QED
    BY <2>1, <2>2
<1>3. /\ \A k \in Kind : r.began.count[k] <= r.count[k]
      /\ \A k \in Stamped : r.began.stamp[k] <= r.stamp[k]
      /\ \A k \in Protocol : r.protocol[k] <= r.count[k]
      /\ \A f \in Fields : Streams(r.runtime, f) <= Total(r.count, f)
  <2>1. counters \in [Kind -> Nat] /\ stamp \in [Stamped -> Nat]
    BY DEF TelemetryTyped
  <2>2. QED
    BY <1>1, <1>2, <2>1, WholeReport
<1>4. PICK state \in States, derived \in SUBSET Codes :
        state = Health(r) /\ derived = DerivedAlerts(r)
  BY HealthIs
<1>5. PICK now, count, times, protocol, table, lane, began :
        /\ now = r.now /\ count = r.count /\ times = r.stamp /\ protocol = r.protocol
        /\ table = r.runtime /\ lane = r.impaired /\ began = r.began
  OBVIOUS
<1>6. PICK a, b, c : /\ a = [r EXCEPT !.at = 0] /\ b = [a EXCEPT !.state = state]
                     /\ c = [b EXCEPT !.derived = derived]
  OBVIOUS
<1>7. report' = c
  BY <1>1, <1>4, <1>6 DEF MakeReport
<1>8. PICK zero \in Nat : zero = 0
  OBVIOUS
<1>9. PICK at, old, codes : at = r.at /\ old = r.state /\ codes = r.derived
  OBVIOUS
<1>10. IsReport(r, at, now, old, codes, count, times, protocol, table, lane, began)
  BY <1>5, <1>9, ReportFields DEF IsReport
<1>11. IsReport(a, zero, now, old, codes, count, times, protocol, table, lane, began)
  BY <1>6, <1>8, <1>10 DEF IsReport
<1>12. IsReport(b, zero, now, state, codes, count, times, protocol, table, lane, began)
  <2>1. a = [at |-> zero, now |-> now, state |-> old, derived |-> codes, count |-> count,
             stamp |-> times, protocol |-> protocol, runtime |-> table, impaired |-> lane,
             began |-> began]
    BY <1>11 DEF IsReport
  <2>2. b = [a EXCEPT !.state = state]
    BY <1>6
  <2>3. b = [at |-> zero, now |-> now, state |-> state, derived |-> codes, count |-> count,
             stamp |-> times, protocol |-> protocol, runtime |-> table, impaired |-> lane,
             began |-> began]
    BY <2>1, <2>2
  <2>4. QED
    BY <1>11, <2>3 DEF IsReport
<1>13. IsReport(c, zero, now, state, derived, count, times, protocol, table, lane, began)
  <2>1. b = [at |-> zero, now |-> now, state |-> state, derived |-> codes, count |-> count,
             stamp |-> times, protocol |-> protocol, runtime |-> table, impaired |-> lane,
             began |-> began]
    BY <1>12 DEF IsReport
  <2>2. c = [b EXCEPT !.derived = derived]
    BY <1>6
  <2>3. c = [at |-> zero, now |-> now, state |-> state, derived |-> derived, count |-> count,
             stamp |-> times, protocol |-> protocol, runtime |-> table, impaired |-> lane,
             began |-> began]
    BY <2>1, <2>2
  <2>4. QED
    BY <1>12, <2>3 DEF IsReport
<1>14. /\ c \in ReportType /\ c.at = zero /\ c.now = r.now /\ c.state = state
       /\ c.derived = derived /\ c.count = r.count /\ c.stamp = r.stamp
       /\ c.protocol = r.protocol /\ c.runtime = r.runtime /\ c.began = r.began
  <2>1. /\ c \in ReportType /\ c.at = zero /\ c.now = now /\ c.state = state
        /\ c.derived = derived /\ c.count = count /\ c.stamp = times
        /\ c.protocol = protocol /\ c.runtime = table /\ c.began = began
    BY <1>13, ReportMade
  <2>2. QED
    BY <1>5, <2>1
<1>15. ReportAddsUp(c)
  <2>1. OfStreams(c, "input") <= SumFunctionOnSet(c.count, Input)
    <3>1. OfStreams(c, "input") = Streams(r.runtime, "input")
      BY <1>14, OfStreamsIs
    <3>2. Total(r.count, "input") = SumFunctionOnSet(c.count, Input)
      BY <1>14 DEF Total
    <3>3. Streams(r.runtime, "input") <= Total(r.count, "input")
      BY <1>3, FieldFacts
    <3>4. QED
      BY <3>1, <3>2, <3>3
  <2>2. ASSUME NEW k \in Kind \ (Input \cup {"damage"}) PROVE OfStreams(c, k) <= c.count[k]
    <3>1. OfStreams(c, k) = Streams(r.runtime, k)
      BY <1>14, OfStreamsIs
    <3>2. Total(r.count, k) = c.count[k]
      BY <1>14, FieldOfKind DEF Total
    <3>3. Streams(r.runtime, k) <= Total(r.count, k)
      BY <1>3, FieldOfKind
    <3>4. QED
      BY <3>1, <3>2, <3>3
  <2>3. \A k \in Protocol : c.protocol[k] <= c.count[k]
    BY <1>3, <1>14
  <2>4. QED
    BY <2>1, <2>2, <2>3 DEF ReportAddsUp
<1>16. StateIsTrue(c)
  <2>1. /\ r.count \in [Kind -> Nat] /\ r.began.count \in [Kind -> Nat]
        /\ r.stamp \in [Stamped -> Nat] /\ r.began.stamp \in [Stamped -> Nat]
        /\ r.now \in Nat /\ StaleAfter \in Nat
    BY ReportFields, TelemetryConstants
  <2>2. \A k \in Kind : r.count[k] \in Nat /\ r.began.count[k] \in Nat
    BY <2>1
  <2>3. \A k \in Stamped : r.stamp[k] \in Nat /\ r.began.stamp[k] \in Nat
    BY <2>1
  <2>4. /\ \A k \in Kind : c.began.count[k] \in Nat /\ c.began.count[k] <= r.count[k]
        /\ \A k \in Stamped : c.began.stamp[k] \in Nat /\ c.began.stamp[k] <= r.stamp[k]
        /\ c.now = r.now
    BY <1>3, <1>14, <2>2, <2>3
  <2>5. /\ (\E k \in Failure : r.count[k] > 0) => c.state = "degraded"
        /\ c.state = "waiting" => \A k \in Input : r.count[k] = 0
        /\ c.state \in {"waiting", "ingesting", "stalled"} => r.count["part"] = 0
        /\ c.state = "stale" => r.stamp["part"] + StaleAfter < r.now
        /\ c.state = "stalled" => \A k \in Protocol : r.stamp[k] + StaleAfter < r.now
        /\ "waiting_for_input" \in c.derived => \A k \in Input : r.count[k] = 0
        /\ r.count["damage"] > 0 => "mpeg_ts_input_damage" \in c.derived
    <3>1. c.state = Health(r) /\ c.derived = DerivedAlerts(r)
      BY <1>4, <1>14
    <3>2. QED
      BY <3>1, HealthIs
  <2>6. ASSUME NEW k \in Kind, r.count[k] = 0 PROVE c.began.count[k] = 0
    BY <2>2, <2>4, <2>6
  <2>7. ASSUME NEW k \in Kind, c.began.count[k] > 0 PROVE r.count[k] > 0
    BY <2>2, <2>4, <2>7
  <2>8. ASSUME NEW k \in Stamped, r.stamp[k] + StaleAfter < r.now
        PROVE  c.began.stamp[k] + StaleAfter < c.now
    BY <2>1, <2>3, <2>4, <2>8
  <2>9. (\E k \in Failure : c.began.count[k] > 0) => c.state = "degraded"
    BY <2>5, <2>7, KindFacts
  <2>10. c.state = "waiting" => \A k \in Input : c.began.count[k] = 0
    BY <2>5, <2>6, KindFacts
  <2>11. c.state \in {"waiting", "ingesting", "stalled"} => c.began.count["part"] = 0
    BY <2>5, <2>6, KindFacts
  <2>12. c.state = "stale" => c.began.stamp["part"] + StaleAfter < c.now
    BY <2>5, <2>8, KindFacts
  <2>13. "waiting_for_input" \in c.derived => \A k \in Input : c.began.count[k] = 0
    BY <2>5, <2>6, KindFacts
  <2>14. c.began.count["damage"] > 0 => "mpeg_ts_input_damage" \in c.derived
    BY <2>5, <2>7, KindFacts
  <2>15. c.state = "stalled" => \A k \in Protocol : c.began.stamp[k] + StaleAfter < c.now
    BY <2>5, <2>8, KindFacts
  <2>16. QED
    BY <2>9, <2>10, <2>11, <2>12, <2>13, <2>14, <2>15 DEF StateIsTrue
<1>17. QED
  BY <1>7, <1>8, <1>14, <1>15, <1>16

ReportInv ==
  /\ ReportSound(report, counters, stamp)
  /\ report.at = 0 /\ reports > 0 => ReportAddsUp(report) /\ StateIsTrue(report)

TelemetryInv == CallInv /\ ReportInv

LEMMA TelemetryStarts ==
  ASSUME TelemetryInit
  PROVE  TelemetryInv
<1>1. /\ counters = Zero(Kind) /\ stamp = Zero(Stamped) /\ protocols = Zero(Protocol)
      /\ runtime = [s \in Observed |-> Zero(Fields)] /\ alerts = <<>>
      /\ recording = [t \in Recorder |-> NoCall] /\ impaired = FALSE
      /\ report = NoReport /\ reports = 0 /\ clock = 1
  BY DEF TelemetryInit
<1>2. TelemetryTyped /\ report.at = 0
  <2>1. /\ counters \in [Kind -> Nat] /\ stamp \in [Stamped -> Nat]
        /\ protocols \in [Protocol -> Nat] /\ runtime \in [Observed -> [Fields -> Nat]]
    BY <1>1 DEF Zero
  <2>2. alerts \in Seq(AlertType) /\ recording \in [Recorder -> CallSet \cup {NoCall}]
        /\ impaired \in BOOLEAN /\ reports \in Nat /\ clock \in Nat
    <3>1. alerts \in Seq(AlertType)
      BY <1>1
    <3>2. recording \in [Recorder -> CallSet \cup {NoCall}]
      BY <1>1
    <3>3. impaired \in BOOLEAN /\ reports \in Nat /\ clock \in Nat
      BY <1>1
    <3>4. QED
      BY <3>1, <3>2, <3>3
  <2>3. PICK zero \in Nat, state \in States, derived \in SUBSET Codes, lane \in BOOLEAN,
             began \in BeganType :
          /\ zero = 0 /\ state = "none" /\ derived = {} /\ lane = FALSE
          /\ began = [count |-> Zero(Kind), stamp |-> Zero(Stamped)]
    <3>1. "none" \in States /\ {} \in SUBSET Codes /\ FALSE \in BOOLEAN /\ 0 \in Nat
      BY DEF States
    <3>2. [count |-> Zero(Kind), stamp |-> Zero(Stamped)] \in BeganType
      BY <1>1, <2>1 DEF BeganType
    <3>3. QED
      BY <3>1, <3>2
  <2>4. IsReport(NoReport, zero, zero, state, derived, counters, stamp, protocols, runtime, lane,
                 began)
    BY <1>1, <2>1, <2>3 DEF IsReport, NoReport
  <2>5. NoReport \in ReportType /\ NoReport.at = zero
    BY <2>4, ReportMade
  <2>6. QED
    BY <1>1, <2>1, <2>2, <2>3, <2>5 DEF TelemetryTyped
<1>3. \A t \in Recorder : At(recording[t]) = "done"
  BY <1>1, AtIs
<1>4. CallsKnow
  <2>1. \A k \in Stamped : stamp[k] <= clock
    BY <1>1 DEF Zero
  <2>2. QED
    BY <1>3, <2>1 DEF CallsKnow
<1>5. CountsAgree
  <2>1. \A k : AtProtocol(recording, k) = {} /\ AtStream(recording, k) = {}
    BY <1>3 DEF AtProtocol, AtStream, ForProtocol, ForStream
  <2>2. Cardinality({}) = 0
    BY FS_EmptySet
  <2>3. ASSUME NEW k \in Protocol
        PROVE  protocols[k] + Cardinality(AtProtocol(recording, k)) = counters[k]
    <3>1. protocols[k] = 0 /\ counters[k] = 0
      BY <1>1, KindFacts DEF Zero
    <3>2. QED
      BY <2>1, <2>2, <3>1
  <2>4. ASSUME NEW f \in Fields
        PROVE  Streams(runtime, f) + Cardinality(AtStream(recording, f)) = Total(counters, f)
    <3> DEFINE g == [s \in Observed |-> runtime[s][f]]
    <3>1. \A s \in Observed : g[s] = 0
      BY <1>1 DEF Zero
    <3>2. Streams(runtime, f) = SumFunctionOnSet(g, Observed)
      BY DEF Streams
    <3> HIDE DEF g
    <3>3. SumFunctionOnSet(g, Observed) = 0
      BY <3>1, TelemetryConstants, SumOfZeros
    <3>4. \A k \in Kind : counters[k] = 0
      BY <1>1 DEF Zero
    <3>5. SumFunctionOnSet(counters, Input) = 0
      BY <3>4, InputFinite, KindFacts, SumOfZeros
    <3>6. Total(counters, f) = 0
      BY <3>4, <3>5, FieldFacts DEF Total
    <3>7. QED
      BY <2>1, <2>2, <3>2, <3>3, <3>6
  <2>5. QED
    BY <2>3, <2>4 DEF CountsAgree
<1>6. AlertsBounded
  <2>1. DOMAIN alerts = {}
    BY <1>1
  <2>2. QED
    BY <2>1 DEF AlertsBounded
<1>7. ReportInv
  <2>1. report.at \in 0 .. 19 /\ ~(reports > 0)
    BY <1>1, <1>2
  <2>2. QED
    BY <1>2, <2>1 DEF ReportInv, ReportSound
<1>8. QED
  BY <1>2, <1>4, <1>5, <1>6, <1>7 DEF TelemetryInv, CallInv

\* A report is as true when the counters have grown.
LEMMA ReportStays ==
  ASSUME TelemetryTyped, ReportInv, TelemetryTyped', Grow, UNCHANGED <<report, reports>>
  PROVE  ReportInv'
<1>1. PICK r \in ReportType, table \in [Kind -> Nat], later \in [Kind -> Nat],
           times \in [Stamped -> Nat], newer \in [Stamped -> Nat] :
        /\ r = report /\ table = counters /\ later = counters'
        /\ times = stamp /\ newer = stamp'
  BY DEF TelemetryTyped
<1>2. /\ \A k \in Kind : table[k] <= later[k]
      /\ \A k \in Stamped : times[k] <= newer[k]
      /\ ReportSound(r, table, times)
  BY <1>1 DEF Grow, ReportInv
<1>3. ReportSound(r, later, newer)
  BY <1>2, ReportGrows
<1>4. ReportSound(report', counters', stamp')
  BY <1>1, <1>3
<1>5. report'.at = 0 /\ reports' > 0 => ReportAddsUp(report') /\ StateIsTrue(report')
  BY DEF ReportInv
<1>6. QED
  BY <1>4, <1>5 DEF ReportInv, ReportSound, Ahead, Latest, Seen, Streams, Total, ReportAddsUp,
                    StateIsTrue, OfStreams

LEMMA CallsKeepTelemetry ==
  ASSUME TelemetryInv, CallsNext
  PROVE  TelemetryInv'
<1>1. /\ CallInv /\ ReportInv /\ TelemetryTyped /\ CountsAgree
      /\ ReportSound(report, counters, stamp)
      /\ report \in ReportType /\ reports \in Nat /\ impaired \in BOOLEAN
  BY DEF TelemetryInv, CallInv, ReportInv, TelemetryTyped
<1>2. ASSUME CallInv', Grow, UNCHANGED <<report, reports>> PROVE TelemetryInv'
  <2>1. TelemetryTyped'
    BY <1>2 DEF CallInv
  <2>2. ReportInv'
    BY <1>1, <1>2, <2>1, ReportStays
  <2>3. QED
    BY <1>2, <2>2 DEF TelemetryInv
<1>3. ASSUME NEW t \in Recorder, NEW kind \in Kind, NEW stream \in Observed,
             NEW detail \in IF kind = "partError" THEN {1, 2} ELSE {0},
             BeginCall(t, kind, stream, detail)
      PROVE  TelemetryInv'
  <2>1. detail \in Nat
    BY <1>3
  <2>2. CallInv' /\ Grow
    BY <1>1, <1>3, <2>1, BeginCallKeeps
  <2>3. UNCHANGED <<report, reports>>
    BY <1>3 DEF BeginCall
  <2>4. QED
    BY <1>2, <2>2, <2>3
<1>4. ASSUME NEW t \in Recorder, Record(t) PROVE TelemetryInv'
  <2>1. CallInv' /\ Grow
    BY <1>1, <1>4, RecordKeeps
  <2>2. UNCHANGED <<report, reports>>
    BY <1>4 DEF Record
  <2>3. QED
    BY <1>2, <2>1, <2>2
<1>5. CASE Elapse
  <2>1. CallInv' /\ Grow
    BY <1>1, <1>5, ElapseKeeps
  <2>2. UNCHANGED <<report, reports>>
    BY <1>5 DEF Elapse
  <2>3. QED
    BY <1>2, <2>1, <2>2
<1>6. CASE LaneChanges
  <2>1. /\ Unrecorded /\ UNCHANGED <<recording, clock, report, reports>>
        /\ impaired' \in BOOLEAN
    BY <1>1, <1>6 DEF LaneChanges, Unrecorded
  <2>2. CallInv' /\ Grow
    BY <1>1, <2>1, OthersKeep
  <2>3. QED
    BY <1>2, <2>1, <2>2
<1>7. CASE BeginReport
  <2>1. /\ Unrecorded /\ UNCHANGED <<recording, clock, impaired>> /\ reports' \in Nat
        /\ counters' = counters /\ stamp' = stamp
    BY <1>1, <1>7 DEF BeginReport, Unrecorded
  <2>2. report' \in ReportType /\ report'.at = 1
    BY <1>1, <1>7, BeginReportIs
  <2>3. ReportSound(report', counters, stamp)
    BY <1>1, <1>7, BeginReportSound
  <2>4. CallInv'
    BY <1>1, <2>1, <2>2, OthersKeep
  <2>5. ReportSound(report', counters', stamp') /\ report'.at # 0
    BY <2>1, <2>2, <2>3
  <2>6. ReportInv'
    BY <2>5 DEF ReportInv, ReportSound, Ahead, Latest, Seen, Streams, Total
  <2>7. QED
    BY <2>4, <2>6 DEF TelemetryInv
<1>8. CASE Read
  <2>1. /\ Unrecorded /\ UNCHANGED <<recording, clock, impaired, reports>>
        /\ counters' = counters /\ stamp' = stamp
    BY <1>8 DEF Read, Unrecorded
  <2>2. report' \in ReportType /\ report'.at # 0
    <3>1. report' \in ReportType /\ report'.at = report.at + 1 /\ report.at \in 1 .. 18
      BY <1>1, <1>8, ReadIs
    <3>2. QED
      BY <3>1
  <2>3. ReportSound(report', counters, stamp)
    BY <1>1, <1>8, ReadSound
  <2>4. CallInv'
    BY <1>1, <2>1, <2>2, OthersKeep
  <2>5. ReportSound(report', counters', stamp') /\ report'.at # 0
    BY <2>1, <2>2, <2>3
  <2>6. ReportInv'
    BY <2>5 DEF ReportInv, ReportSound, Ahead, Latest, Seen, Streams, Total
  <2>7. QED
    BY <2>4, <2>6 DEF TelemetryInv
<1>9. CASE MakeReport
  <2>1. /\ Unrecorded /\ UNCHANGED <<recording, clock, impaired, reports>>
    BY <1>9 DEF MakeReport, Unrecorded
  <2>2. /\ report' \in ReportType /\ report'.at = 0
        /\ ReportAddsUp(report') /\ StateIsTrue(report')
    BY <1>1, <1>9, MakeReportKeeps
  <2>3. CallInv'
    BY <1>1, <2>1, <2>2, OthersKeep
  <2>4. report'.at \in 0 .. 19
    BY <2>2
  <2>5. ReportInv'
    BY <2>2, <2>4 DEF ReportInv, ReportSound, ReportAddsUp, StateIsTrue, OfStreams
  <2>6. QED
    BY <2>3, <2>5 DEF TelemetryInv
<1>10. QED
  BY <1>3, <1>4, <1>5, <1>6, <1>7, <1>8, <1>9 DEF CallsNext

LEMMA AlertsDoAgree ==
  ASSUME TelemetryInv
  PROVE  AlertsAgree
<1>1. TelemetryTyped /\ AlertsBounded
  BY DEF TelemetryInv, CallInv
<1>2. ASSUME NEW i \in DOMAIN alerts
      PROVE  alerts[i].count < counters[alerts[i].kind] + Cardinality(Recorder)
  <2>1. PICK x \in AlertType : x = alerts[i]
    BY <1>1 DEF TelemetryTyped
  <2>2. x.kind \in Kind /\ x.count \in Nat
    BY KindFacts DEF AlertType
  <2>3. counters[x.kind] \in Nat /\ Cardinality(Recorder) \in Nat
        /\ Cardinality(AtAlert(recording, x.kind)) \in Nat
    BY <1>1, <2>2, TelemetryConstants, FS_Subset, FS_CardinalityType DEF TelemetryTyped, AtAlert
  <2>4. x.count + Cardinality(AtAlert(recording, x.kind))
          < counters[x.kind] + Cardinality(Recorder)
    BY <1>1, <2>1 DEF AlertsBounded
  <2>5. x.count < counters[x.kind] + Cardinality(Recorder)
    BY <2>2, <2>3, <2>4
  <2>6. QED
    BY <2>1, <2>5
<1>3. QED
  BY <1>1, <1>2 DEF AlertsAgree, AlertsBounded

\* A status report stays coherent with the calls that record while it is read, for any
\* number of tasks, streams and timers (av-contrib.rs 3706-3901, 4014-4029, 5396-5555).
THEOREM ReportsStayTrue == TelemetrySpec => []ReportsAreTrue
<1> DEFINE Inv == TelemetryInv /\ HistogramInv
<1>1. TelemetryInit /\ HistogramInit => Inv
  BY TelemetryStarts, HistogramStarts
<1>2. ASSUME Inv, [TelemetryNext]_<<telemetryVars, histogramVars>>
      PROVE  Inv'
  <2>1. CASE CallsNext /\ UNCHANGED histogramVars
    <3>1. TelemetryInv'
      BY <1>2, <2>1, CallsKeepTelemetry
    <3>2. HistogramInv'
      BY <1>2, <2>1, HistogramSteps
    <3>3. QED
      BY <3>1, <3>2
  <2>2. ASSUME UNCHANGED telemetryVars, HistogramNext \/ UNCHANGED histogramVars PROVE Inv'
    <3>1. TelemetryInv'
      <4>1. /\ CallInv /\ ReportInv /\ TelemetryTyped
        BY <1>2 DEF TelemetryInv, CallInv
      <4>2. /\ Unrecorded /\ UNCHANGED <<recording, clock, impaired, report, reports>>
            /\ report' \in ReportType /\ reports' \in Nat /\ impaired' \in BOOLEAN
        BY <2>2, <4>1 DEF telemetryVars, Unrecorded, TelemetryTyped
      <4>3. CallInv' /\ Grow
        BY <4>1, <4>2, OthersKeep
      <4>4. TelemetryTyped'
        BY <4>3 DEF CallInv
      <4>5. ReportInv'
        BY <4>1, <4>2, <4>3, <4>4, ReportStays
      <4>6. QED
        BY <4>3, <4>5 DEF TelemetryInv
    <3>2. HistogramInv'
      BY <1>2, <2>2, HistogramSteps
    <3>3. QED
      BY <3>1, <3>2
  <2>3. QED
    BY <1>2, <2>1, <2>2 DEF TelemetryNext, telemetryVars, histogramVars
<1>3. Inv => ReportsAreTrue
  BY AlertsDoAgree DEF ReportsAreTrue, TelemetryInv, ReportInv, HistogramInv
<1> HIDE DEF Inv
<1>4. QED
  BY <1>1, <1>2, <1>3, PTL DEF TelemetrySpec
==============================================================================
