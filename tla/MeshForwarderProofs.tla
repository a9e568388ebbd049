------------------------ MODULE MeshForwarderProofs ------------------------
(***************************************************************************)
(* Theorems about the two lanes of MeshForwarder.  First the relay session *)
(* publisher, for every set of publishers and deadlines, every number of   *)
(* source and repair symbols and every hold.  Then the byte slots, for     *)
(* every set of callers, sizes and limits and every width of the ids, as   *)
(* long as fewer packets are sent than there are ids.                      *)
(***************************************************************************)
EXTENDS RelayLanes, StreamSlotForwarder, FiniteSetTheorems, TLAPS

(* The relay lanes. *)
-----------------------------------------------------------------------------
\* The inductive invariant.

JobType == [at : {"idle", "check", "encode", "send"}, deadline : Nat,
            left : [Lane -> Seq(Role)], failed : SUBSET Lane,
            carried : [Lane -> Nat]]

EntryType == [said : SUBSET Outcome, tried : SUBSET Lane, carriers : SUBSET Lane,
              at : Nat, late : BOOLEAN, failed : SUBSET Lane]

RelayTyped ==
  /\ now \in Nat \ {0}
  /\ secondary \in BOOLEAN /\ seeds \in BOOLEAN /\ (seeds => secondary)
  /\ job \in [Publisher -> JobType]
  /\ count \in [Outcome -> Nat]
  /\ lastSeen \in [Lane -> [success : Nat, failure : Nat]]
  /\ ledger \in Seq(EntryType)

\* The lanes that are to carry all of the source.
Seeded(l) == l = "primary" \/ (secondary /\ seeds)

\* The source symbols come first in what is left, as many as are not carried yet.
Carries(left, carried) ==
  /\ carried \in 0 .. SourceCount
  /\ SourceCount - carried <= Len(left)
  /\ \A i \in 1 .. Len(left) : left[i] = "source" <=> i <= SourceCount - carried

JobsFollowPlan ==
  \A p \in Publisher :
    /\ job[p].at \in {"idle", "check", "encode"} =>
         job[p].failed = {} /\ job[p].carried = [l \in Lane |-> 0]
    /\ job[p].at = "send" =>
         \A l \in Lane \ job[p].failed :
           Seeded(l) => Carries(job[p].left[l], job[p].carried[l])

EntryTrue(e) ==
  /\ e.said \cap Words # {}
  /\ Cardinality(e.said \cap Words) = 1
       \/ e.said \cap Words = {"allLanesFailed", "expired"}
  /\ ("sent" \in e.said) = ("hit" \in e.said)
  /\ ("expired" \in e.said) = ("miss" \in e.said)
  /\ "sent" \in e.said => e.carriers \cap (Configured \ e.failed) # {} /\ ~e.late

EntriesTrue == \A i \in 1 .. Len(ledger) : EntryTrue(ledger[i])

Saying(L, o) == {i \in 1 .. Len(L) : o \in L[i].said}

CountsTrue ==
  \A o \in Outcome \ {"primaryFallback"} : count[o] = Cardinality(Saying(ledger, o))

\* The clock runs through the ledger, and `lastSeen` is its latest word on a lane.
TimesOrdered ==
  /\ \A i \in 1 .. Len(ledger) : ledger[i].at \in 1 .. now
  /\ \A i, j \in 1 .. Len(ledger) : i <= j => ledger[i].at <= ledger[j].at

Successes(L, l) == {i \in 1 .. Len(L) : l \in L[i].tried /\ l \notin L[i].failed}
Failures(L, l) == {i \in 1 .. Len(L) : l \in L[i].tried /\ l \in L[i].failed}

Latest(L, S, t) ==
  /\ S = {} => t = 0
  /\ S # {} => \E i \in S : L[i].at = t
  /\ \A i \in S : L[i].at <= t

LastSeenTrue ==
  \A l \in Configured :
    /\ Latest(ledger, Successes(ledger, l), lastSeen[l].success)
    /\ Latest(ledger, Failures(ledger, l), lastSeen[l].failure)

RelayInv ==
  /\ RelayTyped /\ JobsFollowPlan /\ EntriesTrue /\ CountsTrue
  /\ TimesOrdered /\ LastSeenTrue

-----------------------------------------------------------------------------
\* Facts about the plan.

LEMMA PlanSeeds ==
  ASSUME NEW l \in Lane, secondary \in BOOLEAN, seeds \in BOOLEAN
  PROVE  Plan[l] \in Seq(Role) /\ (Seeded(l) => Carries(Plan[l], 0))
<1>1. /\ Source \in Seq(Role) /\ Len(Source) = SourceCount
      /\ \A i \in 1 .. SourceCount : Source[i] = "source"
  BY RelayAssumption DEF Source, Role
<1>2. /\ Repair \in Seq(Role) /\ Len(Repair) = RepairCount
      /\ \A i \in 1 .. RepairCount : Repair[i] = "repair"
  BY RelayAssumption DEF Repair, Role
<1>3. SourceCount \in Nat /\ RepairCount \in Nat
  BY RelayAssumption
<1>4. <<>> \in Seq(Role) /\ Len(<<>>) = 0
  OBVIOUS
<1>5. ASSUME NEW t \in Seq(Role), \A i \in 1 .. Len(t) : t[i] = "repair"
      PROVE  Source \o t \in Seq(Role) /\ Carries(Source \o t, 0)
  <2> HIDE DEF Source
  <2>1. /\ Source \o t \in Seq(Role) /\ Len(Source \o t) = SourceCount + Len(t)
        /\ \A i \in 1 .. SourceCount + Len(t) :
             (Source \o t)[i] = IF i <= SourceCount THEN Source[i]
                                ELSE t[i - SourceCount]
    BY <1>1
  <2>2. SourceCount - 0 = SourceCount /\ Len(t) \in Nat
    BY <1>3
  <2>3. ASSUME NEW i \in 1 .. Len(Source \o t)
        PROVE  (Source \o t)[i] = "source" <=> i <= SourceCount
    <3>1. CASE i <= SourceCount
      BY <1>1, <1>3, <2>1, <3>1
    <3>2. CASE ~(i <= SourceCount)
      <4>1. i - SourceCount \in 1 .. Len(t)
        BY <1>3, <2>1, <2>2, <2>3, <3>2
      <4>2. QED
        BY <1>5, <2>1, <2>3, <3>2, <4>1
    <3>3. QED
      BY <3>1, <3>2
  <2>4. QED
    BY <1>3, <2>1, <2>2, <2>3 DEF Carries
<1>6. CASE l = "primary"
  <2>1. CASE secondary
    <3>1. Plan[l] = Source \o <<>>
      BY <1>6, <2>1 DEF Plan
    <3>2. \A i \in 1 .. Len(<<>>) : <<>>[i] = "repair"
      BY <1>4
    <3>3. QED
      BY <1>4, <1>5, <3>1, <3>2
  <2>2. CASE ~secondary
    <3>1. Plan[l] = Source \o Repair
      BY <1>6, <2>2 DEF Plan
    <3>2. QED
      BY <1>2, <1>5, <3>1
  <2>3. QED
    BY <2>1, <2>2
<1>7. CASE l # "primary" /\ secondary /\ seeds
  <2>1. Plan[l] = Source \o Repair
    BY <1>7 DEF Plan
  <2>2. QED
    BY <1>2, <1>5, <2>1
<1>8. CASE l # "primary" /\ ~(secondary /\ seeds)
  <2>1. Plan[l] \in {<<>>, <<>> \o Repair}
    BY <1>8 DEF Plan
  <2>2. <<>> \o Repair \in Seq(Role)
    <3> HIDE DEF Repair
    <3>1. QED
      BY <1>2, <1>4
  <2>3. QED
    BY <1>4, <1>8, <2>1, <2>2 DEF Seeded
<1>9. QED
  BY <1>6, <1>7, <1>8

LEMMA Arithmetic ==
  /\ SourceCount \in Nat \ {0} /\ RepairCount \in Nat /\ Hold \in Nat
  /\ Deadlines \subseteq Nat
BY RelayAssumption

\* A symbol that is sent leaves a lane on its plan.
LEMMA CarriesOn ==
  ASSUME NEW left \in Seq(Role), NEW carried \in Nat, left # <<>>,
         Carries(left, carried)
  PROVE  LET next == carried + (IF Head(left) = "source" THEN 1 ELSE 0)
         IN  Carries(Tail(left), next)
<1> DEFINE next == carried + (IF Head(left) = "source" THEN 1 ELSE 0)
<1>1. /\ Len(left) \in Nat /\ Len(left) > 0 /\ Head(left) = left[1]
      /\ Tail(left) \in Seq(Role) /\ Len(Tail(left)) = Len(left) - 1
      /\ \A i \in 1 .. Len(left) - 1 : Tail(left)[i] = left[i + 1]
  OBVIOUS
<1>2. Head(left) = "source" <=> 1 <= SourceCount - carried
  BY <1>1 DEF Carries
<1>3. next \in 0 .. SourceCount
  BY <1>2, Arithmetic DEF Carries
<1>4. SourceCount - next <= Len(Tail(left))
  BY <1>1, <1>2, Arithmetic DEF Carries
<1>5. ASSUME NEW i \in 1 .. Len(Tail(left))
      PROVE  Tail(left)[i] = "source" <=> i <= SourceCount - next
  <2>1. i + 1 \in 1 .. Len(left) /\ Tail(left)[i] = left[i + 1]
    BY <1>1
  <2>2. Tail(left)[i] = "source" <=> i + 1 <= SourceCount - carried
    BY <2>1 DEF Carries
  <2>3. i + 1 <= SourceCount - carried <=> i <= SourceCount - next
    BY <1>1, <1>2, Arithmetic
  <2>4. QED
    BY <2>2, <2>3
<1>6. QED
  BY <1>3, <1>4, <1>5 DEF Carries

-----------------------------------------------------------------------------
\* An object that is over adds one entry to the ledger.

LEMMA LedgerGrows ==
  ASSUME RelayTyped, NEW e \in EntryType, ledger' = Append(ledger, e)
  PROVE  /\ ledger' \in Seq(EntryType)
         /\ Len(ledger) \in Nat /\ Len(ledger') = Len(ledger) + 1
         /\ \A i \in 1 .. Len(ledger) : ledger'[i] = ledger[i]
         /\ ledger'[Len(ledger) + 1] = e
BY DEF RelayTyped

LEMMA SayingFinite ==
  ASSUME NEW L \in Seq(EntryType), NEW o
  PROVE  IsFiniteSet(Saying(L, o)) /\ Len(L) + 1 \notin Saying(L, o)
<1>1. Len(L) \in Nat
  OBVIOUS
<1>2. IsFiniteSet(1 .. Len(L))
  BY <1>1, FS_Interval
<1>3. QED
  BY <1>1, <1>2, FS_Subset DEF Saying

LEMMA CountsGrow ==
  ASSUME RelayTyped, CountsTrue, NEW e \in EntryType,
         ledger' = Append(ledger, e), Counts(e.said)
  PROVE  CountsTrue' /\ count' \in [Outcome -> Nat]
<1>1. count' \in [Outcome -> Nat]
  BY DEF RelayTyped, Counts
<1>2. ASSUME NEW o \in Outcome \ {"primaryFallback"}
      PROVE  count'[o] = Cardinality(Saying(ledger', o))
  <2>1. IsFiniteSet(Saying(ledger, o)) /\ Len(ledger) + 1 \notin Saying(ledger, o)
    BY SayingFinite DEF RelayTyped
  <2>2. count[o] = Cardinality(Saying(ledger, o))
    BY DEF CountsTrue
  <2>3. CASE o \in e.said
    <3>1. Saying(ledger', o) = Saying(ledger, o) \cup {Len(ledger) + 1}
      BY <2>3, LedgerGrows DEF Saying
    <3>2. Cardinality(Saying(ledger', o)) = Cardinality(Saying(ledger, o)) + 1
      BY <2>1, <3>1, FS_AddElement
    <3>3. QED
      BY <2>2, <2>3, <3>2 DEF Counts
  <2>4. CASE o \notin e.said
    <3>1. Saying(ledger', o) = Saying(ledger, o)
      BY <2>4, LedgerGrows DEF Saying
    <3>2. count'[o] = count[o] + 0
      BY <2>4 DEF Counts
    <3>3. QED
      BY <2>2, <3>1, <3>2 DEF RelayTyped
  <2>5. QED
    BY <2>3, <2>4
<1>3. QED
  BY <1>1, <1>2 DEF CountsTrue

LEMMA EntriesGrow ==
  ASSUME RelayTyped, EntriesTrue, NEW e \in EntryType,
         ledger' = Append(ledger, e), EntryTrue(e), UNCHANGED secondary
  PROVE  EntriesTrue'
<1>1. \A f : EntryTrue(f) => EntryTrue(f)'
  BY DEF EntryTrue, Configured
<1>2. QED
  BY <1>1, LedgerGrows DEF EntriesTrue

\* An object no lane was tried for changes nothing that is said of the lanes.
LEMMA UntriedKept ==
  ASSUME RelayTyped, TimesOrdered, LastSeenTrue, NEW e \in EntryType,
         ledger' = Append(ledger, e), e.tried = {}, e.at = now,
         UNCHANGED <<now, secondary, lastSeen>>
  PROVE  TimesOrdered' /\ LastSeenTrue'
<1>1. TimesOrdered'
  BY LedgerGrows DEF TimesOrdered, RelayTyped
<1>2. ASSUME NEW l \in Lane
      PROVE  /\ Successes(ledger', l) = Successes(ledger, l)
             /\ Failures(ledger', l) = Failures(ledger, l)
  BY LedgerGrows DEF Successes, Failures
<1>3. ASSUME NEW l \in Lane, NEW t, NEW S, S \subseteq 1 .. Len(ledger),
             Latest(ledger, S, t)
      PROVE  Latest(ledger', S, t)
  BY <1>3, LedgerGrows DEF Latest
<1>4. ASSUME NEW l \in Lane
      PROVE  /\ Successes(ledger, l) \subseteq 1 .. Len(ledger)
             /\ Failures(ledger, l) \subseteq 1 .. Len(ledger)
  BY DEF Successes, Failures
<1>5. Configured \subseteq Lane
  BY DEF Configured, Lane
<1>6. QED
  BY <1>1, <1>2, <1>3, <1>4, <1>5 DEF LastSeenTrue, Configured

\* An object that was tried is the latest word on every lane configured.
LEMMA TriedSeen ==
  ASSUME RelayTyped, TimesOrdered, LastSeenTrue, NEW e \in EntryType,
         ledger' = Append(ledger, e), e.tried = Configured, e.at = now,
         UNCHANGED <<now, secondary>>,
         \A l \in Configured :
           /\ l \in e.failed => /\ lastSeen'[l].failure = now
                                /\ lastSeen'[l].success = lastSeen[l].success
           /\ l \notin e.failed => /\ lastSeen'[l].success = now
                                   /\ lastSeen'[l].failure = lastSeen[l].failure
  PROVE  TimesOrdered' /\ LastSeenTrue'
<1>1. TimesOrdered'
  BY LedgerGrows DEF TimesOrdered, RelayTyped
<1>2. ASSUME NEW S, S \subseteq 1 .. Len(ledger)
      PROVE  /\ \A t : Latest(ledger, S, t) => Latest(ledger', S, t)
             /\ Latest(ledger', S \cup {Len(ledger) + 1}, now)
  BY <1>2, LedgerGrows DEF Latest, TimesOrdered, RelayTyped
<1>3. ASSUME NEW l \in Configured
      PROVE  /\ Latest(ledger', Successes(ledger', l), lastSeen'[l].success)
             /\ Latest(ledger', Failures(ledger', l), lastSeen'[l].failure)
  <2>1. /\ Successes(ledger, l) \subseteq 1 .. Len(ledger)
        /\ Failures(ledger, l) \subseteq 1 .. Len(ledger)
    BY DEF Successes, Failures
  <2>2. /\ Latest(ledger, Successes(ledger, l), lastSeen[l].success)
        /\ Latest(ledger, Failures(ledger, l), lastSeen[l].failure)
    BY DEF LastSeenTrue
  <2>3. CASE l \in e.failed
    <3>1. Successes(ledger', l) = Successes(ledger, l)
      BY <2>3, LedgerGrows DEF Successes
    <3>2. Failures(ledger', l) = Failures(ledger, l) \cup {Len(ledger) + 1}
      BY <2>3, LedgerGrows DEF Failures
    <3>3. QED
      BY <1>2, <2>1, <2>2, <2>3, <3>1, <3>2
  <2>4. CASE l \notin e.failed
    <3>1. Successes(ledger', l) = Successes(ledger, l) \cup {Len(ledger) + 1}
      BY <2>4, LedgerGrows DEF Successes
    <3>2. Failures(ledger', l) = Failures(ledger, l)
      BY <2>4, LedgerGrows DEF Failures
    <3>3. QED
      BY <1>2, <2>1, <2>2, <2>4, <3>1, <3>2
  <2>5. QED
    BY <2>3, <2>4
<1>4. QED
  BY <1>1, <1>3 DEF LastSeenTrue, Configured

\* The rows of verdicts.
LEMMA VerdictTrue ==
  ASSUME NEW failed \in SUBSET Lane, NEW late \in BOOLEAN, NEW carriers \in SUBSET Lane,
         RelayTyped,
         Survives(failed) /\ ~late => carriers \cap (Configured \ failed) # {},
         NEW e \in EntryType, e.said = Verdict(failed, late),
         e.carriers = carriers, e.failed = failed, e.late = late
  PROVE  EntryTrue(e)
<1>1. CASE Survives(failed) /\ late
  <2>1. e.said \in {{"expired", "miss"}, {"survivingLane", "expired", "miss"}}
    BY <1>1 DEF Verdict
  <2>2. e.said \cap Words = {"expired"}
    BY <2>1 DEF Words
  <2>3. Cardinality(e.said \cap Words) = 1 /\ e.said \cap Words # {}
    BY <2>2, FS_Singleton
  <2>4. "sent" \notin e.said /\ "hit" \notin e.said /\ "expired" \in e.said /\ "miss" \in e.said
    BY <2>1
  <2>5. QED
    BY <2>3, <2>4 DEF EntryTrue
<1>2. CASE Survives(failed) /\ ~late
  <2>1. e.said \in {{"sent", "hit"}, {"survivingLane", "sent", "hit"}}
    BY <1>2 DEF Verdict
  <2>2. e.said \cap Words = {"sent"}
    BY <2>1 DEF Words
  <2>3. QED
    BY <1>2, <2>1, <2>2, FS_Singleton DEF EntryTrue
<1>3. CASE ~Survives(failed)
  <2>1. e.said \in {{"allLanesFailed"}, {"allLanesFailed", "expired", "miss"}}
    BY <1>3 DEF Verdict
  <2>2. e.said \cap Words \in {{"allLanesFailed"}, {"allLanesFailed", "expired"}}
    BY <2>1 DEF Words
  <2>3. /\ e.said \cap Words # {}
        /\ Cardinality(e.said \cap Words) = 1
             \/ e.said \cap Words = {"allLanesFailed", "expired"}
    BY <2>2, FS_Singleton
  <2>4. /\ "sent" \notin e.said /\ "hit" \notin e.said
        /\ ("expired" \in e.said) = ("miss" \in e.said)
    BY <2>1
  <2>5. QED
    BY <2>3, <2>4 DEF EntryTrue
<1>4. QED
  BY <1>1, <1>2, <1>3

-----------------------------------------------------------------------------
\* Each step keeps the invariant.

\* A step of one publisher that ends nothing.
LEMMA JobsMove ==
  ASSUME RelayInv, NEW p \in Publisher, NEW j \in JobType,
         job' = [job EXCEPT ![p] = j],
         j.at \in {"idle", "check", "encode"} =>
           j.failed = {} /\ j.carried = [l \in Lane |-> 0],
         j.at = "send" =>
           \A l \in Lane \ j.failed : Seeded(l) => Carries(j.left[l], j.carried[l]),
         UNCHANGED <<secondary, seeds>>
  PROVE  JobsFollowPlan' /\ job' \in [Publisher -> JobType]
<1>1. job' \in [Publisher -> JobType]
  BY DEF RelayInv, RelayTyped
<1>2. \A l : Seeded(l)' <=> Seeded(l)
  BY DEF Seeded
<1>3. job'[p] = j /\ \A q \in Publisher \ {p} : job'[q] = job[q]
  BY DEF RelayInv, RelayTyped
<1>4. ASSUME NEW q \in Publisher
      PROVE  /\ job'[q].at \in {"idle", "check", "encode"} =>
                  job'[q].failed = {} /\ job'[q].carried = [l \in Lane |-> 0]
             /\ job'[q].at = "send" =>
                  \A l \in Lane \ job'[q].failed :
                    Seeded(l)' => Carries(job'[q].left[l], job'[q].carried[l])
  <2>1. CASE q = p
    BY <1>2, <1>3, <2>1
  <2>2. CASE q # p
    BY <1>2, <1>3, <2>2 DEF RelayInv, JobsFollowPlan
  <2>3. QED
    BY <2>1, <2>2
<1>5. QED
  BY <1>1, <1>4 DEF JobsFollowPlan

\* What does not touch the ledger keeps what is said of it.
LEMMA LedgerKept ==
  ASSUME RelayInv, UNCHANGED <<secondary, ledger, lastSeen>>, now' \in {now, now + 1},
         \A o \in Outcome \ {"primaryFallback"} : count'[o] = count[o]
  PROVE  EntriesTrue' /\ CountsTrue' /\ TimesOrdered' /\ LastSeenTrue'
<1>1. EntriesTrue'
  BY DEF RelayInv, EntriesTrue, EntryTrue, Configured
<1>2. CountsTrue'
  BY DEF RelayInv, CountsTrue
<1>3. TimesOrdered'
  <2>1. now \in Nat
    BY DEF RelayInv, RelayTyped
  <2>2. \A k \in 1 .. now : k \in 1 .. now'
    BY <2>1
  <2>3. QED
    BY <2>2 DEF RelayInv, TimesOrdered
<1>4. LastSeenTrue'
  BY DEF RelayInv, LastSeenTrue, Configured
<1>5. QED
  BY <1>1, <1>2, <1>3, <1>4

LEMMA TickKeeps ==
  ASSUME RelayInv, RelayTick
  PROVE  RelayInv'
<1>1. UNCHANGED <<secondary, seeds, job, count, lastSeen, ledger>> /\ now' = now + 1
  BY DEF RelayTick, telemetry
<1>2. RelayTyped'
  BY <1>1 DEF RelayInv, RelayTyped
<1>3. JobsFollowPlan'
  BY <1>1 DEF RelayInv, JobsFollowPlan, Seeded
<1>4. QED
  BY <1>1, <1>2, <1>3, LedgerKept DEF RelayInv

LEMMA NoJobTyped ==
  NoJob \in JobType /\ NoJob.at = "idle" /\ NoJob.failed = {}
  /\ NoJob.carried = [l \in Lane |-> 0]
<1>1. <<>> \in Seq(Role)
  OBVIOUS
<1>2. 0 \in Nat
  OBVIOUS
<1>3. [l \in Lane |-> <<>>] \in [Lane -> Seq(Role)]
  BY <1>1
<1>4. QED
  BY <1>2, <1>3 DEF NoJob, JobType

LEMMA SubmitKeeps ==
  ASSUME RelayInv, NEW p \in Publisher, NEW d \in Deadlines, Submit(p, d)
  PROVE  RelayInv'
<1> DEFINE j == [NoJob EXCEPT !.at = "check", !.deadline = d]
<1>1. /\ UNCHANGED <<now, secondary, seeds, count, lastSeen, ledger>>
      /\ job' = [job EXCEPT ![p] = j]
  BY DEF Submit, telemetry
<1>2. /\ j \in JobType /\ j.at = "check" /\ j.failed = {}
      /\ j.carried = [l \in Lane |-> 0]
  BY NoJobTyped, Arithmetic DEF JobType
<1> HIDE DEF j
<1>3. JobsFollowPlan' /\ job' \in [Publisher -> JobType]
  BY <1>1, <1>2, JobsMove
<1>4. RelayTyped'
  BY <1>1, <1>3 DEF RelayInv, RelayTyped
<1>5. now' \in {now, now + 1}
  BY <1>1
<1>6. QED
  BY <1>1, <1>3, <1>4, <1>5, LedgerKept DEF RelayInv

\* An object that is over: the ledger has an entry that says what was counted.
Entry(p, said, tried, carriers) ==
  [said |-> said, tried |-> tried, carriers |-> carriers, at |-> now,
   late |-> Expired(job[p].deadline), failed |-> job[p].failed]

LEMMA OverSays ==
  ASSUME RelayInv, NEW p \in Publisher, NEW said \in SUBSET Outcome,
         NEW tried \in SUBSET Lane, NEW carriers \in SUBSET Lane,
         Counts(said), Over(p, tried, carriers)
  PROVE  /\ Entry(p, said, tried, carriers) \in EntryType
         /\ ledger' = Append(ledger, Entry(p, said, tried, carriers))
<1>1. {o \in Outcome : count'[o] # count[o]} = said
  BY DEF Counts, RelayInv, RelayTyped
<1>2. job[p].failed \in SUBSET Lane /\ now \in Nat
  BY DEF RelayInv, RelayTyped, JobType
<1>3. Expired(job[p].deadline) \in BOOLEAN
  BY DEF Expired
<1>4. Entry(p, said, tried, carriers) \in EntryType
  BY <1>2, <1>3 DEF Entry, EntryType
<1>5. ledger' = Append(ledger, Entry(p, said, tried, carriers))
  BY <1>1 DEF Over, Entry
<1>6. QED
  BY <1>4, <1>5

LEMMA OverKeeps ==
  ASSUME RelayInv, NEW p \in Publisher, NEW e \in EntryType,
         Counts(e.said), ledger' = Append(ledger, e), job' = [job EXCEPT ![p] = NoJob],
         EntryTrue(e), TimesOrdered' /\ LastSeenTrue',
         lastSeen' \in [Lane -> [success : Nat, failure : Nat]],
         UNCHANGED <<now, secondary, seeds>>
  PROVE  RelayInv'
<1>1. JobsFollowPlan' /\ job' \in [Publisher -> JobType]
  BY NoJobTyped, JobsMove
<1>2. EntriesTrue'
  BY EntriesGrow DEF RelayInv
<1>3. CountsTrue' /\ count' \in [Outcome -> Nat]
  BY CountsGrow DEF RelayInv
<1>4. ledger' \in Seq(EntryType)
  BY LedgerGrows DEF RelayInv
<1>5. RelayTyped'
  BY <1>1, <1>3, <1>4 DEF RelayInv, RelayTyped
<1>6. QED
  BY <1>1, <1>2, <1>3, <1>5 DEF RelayInv

\* An object that no lane was tried for: late from the start, or not encoded.
LEMMA UntriedOver ==
  ASSUME RelayInv, NEW p \in Publisher, job[p].at \in {"check", "encode"},
         NEW said \in {{"expired", "miss"}, {"encodeError"}},
         Counts(said), Over(p, {}, {}), UNCHANGED <<now, secondary, seeds, lastSeen>>
  PROVE  RelayInv'
<1>1. said \in SUBSET Outcome
  BY DEF Outcome
<1>2. PICK e \in EntryType :
        /\ ledger' = Append(ledger, e)
        /\ e.said = said /\ e.tried = {} /\ e.at = now
  <2> DEFINE e == Entry(p, said, {}, {})
  <2>1. e \in EntryType /\ ledger' = Append(ledger, e)
    BY <1>1, OverSays
  <2>2. e.said = said /\ e.tried = {} /\ e.at = now
    BY DEF Entry
  <2>3. QED
    BY <2>1, <2>2
<1>3. EntryTrue(e)
  <2>1. e.said \cap Words \in {{"expired"}, {"encodeError"}}
    BY <1>2 DEF Words
  <2>2. Cardinality(e.said \cap Words) = 1 /\ e.said \cap Words # {}
    BY <2>1, FS_Singleton
  <2>3. /\ "sent" \notin e.said /\ "hit" \notin e.said
        /\ ("expired" \in e.said) = ("miss" \in e.said)
    BY <1>2
  <2>4. QED
    BY <2>2, <2>3 DEF EntryTrue
<1>4. TimesOrdered' /\ LastSeenTrue'
  BY <1>2, UntriedKept DEF RelayInv
<1>5. lastSeen' \in [Lane -> [success : Nat, failure : Nat]]
  BY DEF RelayInv, RelayTyped
<1>6. Counts(e.said) /\ job' = [job EXCEPT ![p] = NoJob]
  BY <1>2 DEF Over
<1>7. QED
  BY <1>2, <1>3, <1>4, <1>5, <1>6, OverKeeps

LEMMA CheckDeadlineKeeps ==
  ASSUME RelayInv, NEW p \in Publisher, CheckDeadline(p)
  PROVE  RelayInv'
<1>1. UNCHANGED <<now, secondary, seeds, lastSeen>> /\ job[p].at = "check"
  BY DEF CheckDeadline
<1>2. CASE Expired(job[p].deadline)
  BY <1>1, <1>2, UntriedOver DEF CheckDeadline
<1>3. CASE ~Expired(job[p].deadline)
  <2> DEFINE j == [job[p] EXCEPT !.at = "encode"]
  <2>1. /\ UNCHANGED <<count, ledger>> /\ job' = [job EXCEPT ![p] = j]
    BY <1>3 DEF CheckDeadline
  <2>2. job[p] \in JobType /\ job[p].failed = {} /\ job[p].carried = [l \in Lane |-> 0]
    BY <1>1 DEF RelayInv, RelayTyped, JobsFollowPlan
  <2>3. /\ j \in JobType /\ j.at = "encode" /\ j.failed = {}
        /\ j.carried = [l \in Lane |-> 0]
    BY <2>2 DEF JobType
  <2> HIDE DEF j
  <2>4. JobsFollowPlan' /\ job' \in [Publisher -> JobType]
    BY <1>1, <2>1, <2>3, JobsMove
  <2>5. RelayTyped'
    BY <1>1, <2>1, <2>4 DEF RelayInv, RelayTyped
  <2>6. now' \in {now, now + 1}
    BY <1>1
  <2>7. QED
    BY <1>1, <2>1, <2>4, <2>5, <2>6, LedgerKept DEF RelayInv
<1>4. QED
  BY <1>2, <1>3

LEMMA EncodeKeeps ==
  ASSUME RelayInv, NEW p \in Publisher, NEW ok \in BOOLEAN, Encode(p, ok)
  PROVE  RelayInv'
<1>1. UNCHANGED <<now, secondary, seeds, lastSeen>> /\ job[p].at = "encode"
  BY DEF Encode
<1>2. CASE ~ok
  BY <1>1, <1>2, UntriedOver DEF Encode
<1>3. CASE ok
  <2> DEFINE j == [job[p] EXCEPT !.at = "send", !.left = Plan]
             said == IF ~secondary /\ RepairCount > 0 THEN {"primaryFallback"} ELSE {}
  <2>1. /\ UNCHANGED ledger /\ job' = [job EXCEPT ![p] = j] /\ Counts(said)
    BY <1>3 DEF Encode
  <2>2. job[p] \in JobType /\ job[p].failed = {} /\ job[p].carried = [l \in Lane |-> 0]
    BY <1>1 DEF RelayInv, RelayTyped, JobsFollowPlan
  <2>3. /\ \A l \in Lane : Plan[l] \in Seq(Role) /\ (Seeded(l) => Carries(Plan[l], 0))
        /\ Plan = [l \in Lane |-> Plan[l]]
    <3>1. \A l \in Lane : Plan[l] \in Seq(Role) /\ (Seeded(l) => Carries(Plan[l], 0))
      BY PlanSeeds DEF RelayInv, RelayTyped
    <3>2. Plan = [l \in Lane |-> Plan[l]]
      BY DEF Plan
    <3>3. QED
      BY <3>1, <3>2
  <2>4. Plan \in [Lane -> Seq(Role)]
    <3> HIDE DEF Plan
    <3>1. QED
      BY <2>3
  <2> USE DEF JobType
  <2>5. /\ j \in JobType /\ j.at = "send" /\ j.left = Plan /\ j.failed = {}
        /\ j.carried = [l \in Lane |-> 0]
    BY <2>2, <2>4
  <2> HIDE DEF JobType, j
  <2>6. \A l \in Lane \ j.failed : Seeded(l) => Carries(j.left[l], j.carried[l])
    BY <2>3, <2>5
  <2>7. JobsFollowPlan' /\ job' \in [Publisher -> JobType]
    BY <1>1, <2>1, <2>5, <2>6, JobsMove
  <2>8. /\ count' \in [Outcome -> Nat]
        /\ \A o \in Outcome \ {"primaryFallback"} : count'[o] = count[o]
    BY <2>1 DEF Counts, RelayInv, RelayTyped
  <2>9. RelayTyped'
    BY <1>1, <2>1, <2>7, <2>8 DEF RelayInv, RelayTyped
  <2>10. now' \in {now, now + 1}
    BY <1>1
  <2>11. QED
    BY <1>1, <2>1, <2>7, <2>8, <2>9, <2>10, LedgerKept DEF RelayInv
<1>4. QED
  BY <1>2, <1>3

LEMMA SendSymbolKeeps ==
  ASSUME RelayInv, NEW p \in Publisher, NEW l \in Lane, NEW ok \in BOOLEAN,
         SendSymbol(p, l, ok)
  PROVE  RelayInv'
<1> DEFINE left == job[p].left[l]
           c == job[p].carried[l]
           next == c + (IF Head(left) = "source" THEN 1 ELSE 0)
           j1 == [job[p] EXCEPT !.left[l] = Tail(left), !.carried[l] = next]
           j2 == [job[p] EXCEPT !.left[l] = <<>>, !.failed = job[p].failed \cup {l}]
<1>1. /\ UNCHANGED <<now, secondary, seeds, count, lastSeen, ledger>>
      /\ job[p].at = "send" /\ left # <<>>
  BY DEF SendSymbol
<1>2. \/ job' = [job EXCEPT ![p] = j1]
      \/ job' = [job EXCEPT ![p] = j2]
  BY DEF SendSymbol
<1>3. /\ job[p] \in JobType
      /\ \A k \in Lane \ job[p].failed :
           Seeded(k) => Carries(job[p].left[k], job[p].carried[k])
  BY <1>1 DEF RelayInv, RelayTyped, JobsFollowPlan
<1>4. /\ left \in Seq(Role) /\ c \in Nat /\ next \in Nat
      /\ job[p].left \in [Lane -> Seq(Role)]
      /\ job[p].carried \in [Lane -> Nat]
      /\ job[p].failed \in SUBSET Lane
  BY <1>3 DEF JobType
<1>5. now' \in {now, now + 1}
  BY <1>1
<1>6. ASSUME NEW j \in JobType, job' = [job EXCEPT ![p] = j], j.at = "send",
             \A k \in Lane \ j.failed : Seeded(k) => Carries(j.left[k], j.carried[k])
      PROVE  RelayInv'
  <2>1. JobsFollowPlan' /\ job' \in [Publisher -> JobType]
    BY <1>1, <1>6, JobsMove
  <2>2. RelayTyped'
    BY <1>1, <2>1 DEF RelayInv, RelayTyped
  <2>3. QED
    BY <1>1, <1>5, <2>1, <2>2, LedgerKept DEF RelayInv
<1>7. Tail(left) \in Seq(Role) /\ <<>> \in Seq(Role)
  <2> HIDE DEF left
  <2>1. QED
    BY <1>1, <1>4
<1>8. /\ j1 \in JobType /\ j1.at = "send" /\ j1.failed = job[p].failed
      /\ j1.left[l] = Tail(left) /\ j1.carried[l] = next
      /\ \A k \in Lane \ {l} : j1.left[k] = job[p].left[k] /\ j1.carried[k] = job[p].carried[k]
  <2> HIDE DEF left, next
  <2>1. QED
    BY <1>1, <1>3, <1>4, <1>7 DEF JobType
<1>9. /\ j2 \in JobType /\ j2.at = "send" /\ j2.failed = job[p].failed \cup {l}
      /\ \A k \in Lane \ {l} : j2.left[k] = job[p].left[k] /\ j2.carried[k] = job[p].carried[k]
  BY <1>1, <1>3, <1>4, <1>7 DEF JobType
<1>10. Seeded(l) /\ l \notin job[p].failed => Carries(Tail(left), next)
  <2>1. Seeded(l) /\ l \notin job[p].failed => Carries(left, c)
    BY <1>3
  <2> HIDE DEF left, c
  <2>2. QED
    BY <1>1, <1>4, <2>1, CarriesOn
<1> HIDE DEF left, next, j1, j2
<1>11. CASE job' = [job EXCEPT ![p] = j1]
  BY <1>3, <1>6, <1>8, <1>10, <1>11
<1>12. CASE job' = [job EXCEPT ![p] = j2]
  BY <1>3, <1>6, <1>9, <1>12
<1>13. QED
  BY <1>2, <1>11, <1>12

LEMMA ConcludeKeeps ==
  ASSUME RelayInv, NEW p \in Publisher, Conclude(p)
  PROVE  RelayInv'
<1> DEFINE failed == job[p].failed
           late == Expired(job[p].deadline)
           whole == {l \in Lane : job[p].carried[l] = SourceCount}
           verdict == Verdict(failed, late)
<1>1. /\ UNCHANGED <<now, secondary, seeds>> /\ job[p].at = "send"
      /\ \A l \in Lane : job[p].left[l] = <<>>
      /\ Counts(verdict) /\ Over(p, Configured, whole)
      /\ lastSeen' = [l \in Lane |->
           IF l \notin Configured THEN lastSeen[l]
           ELSE IF l \in failed THEN [lastSeen[l] EXCEPT !.failure = now]
           ELSE [lastSeen[l] EXCEPT !.success = now]]
  BY DEF Conclude
<1>2. failed \in SUBSET Lane /\ late \in BOOLEAN /\ whole \in SUBSET Lane
  BY DEF RelayInv, RelayTyped, JobType, Expired
<1>3. verdict \in SUBSET Outcome
  BY DEF Verdict, Outcome
<1>4. Configured \in SUBSET Lane
  BY DEF Configured, Lane
<1>5. PICK e \in EntryType :
        /\ ledger' = Append(ledger, e)
        /\ e.said = verdict /\ e.tried = Configured /\ e.carriers = whole
        /\ e.at = now /\ e.late = late /\ e.failed = failed
  <2> DEFINE e == Entry(p, verdict, Configured, whole)
  <2>1. e \in EntryType /\ ledger' = Append(ledger, e)
    <3> HIDE DEF whole, verdict
    <3>1. PICK s \in SUBSET Outcome : s = verdict
      BY <1>3
    <3>2. PICK t \in SUBSET Lane : t = Configured
      BY <1>4
    <3>3. PICK c \in SUBSET Lane : c = whole
      BY <1>2
    <3>4. Counts(s) /\ Over(p, t, c)
      BY <1>1, <3>1, <3>2, <3>3
    <3>5. Entry(p, s, t, c) \in EntryType /\ ledger' = Append(ledger, Entry(p, s, t, c))
      BY <3>4, OverSays
    <3>6. QED
      BY <3>1, <3>2, <3>3, <3>5
  <2>2. /\ e.said = verdict /\ e.tried = Configured /\ e.carriers = whole
        /\ e.at = now /\ e.late = late /\ e.failed = failed
    BY DEF Entry
  <2>3. QED
    BY <2>1, <2>2
<1>6. /\ \A l \in Configured :
           /\ l \in e.failed => /\ lastSeen'[l].failure = now
                                /\ lastSeen'[l].success = lastSeen[l].success
           /\ l \notin e.failed => /\ lastSeen'[l].success = now
                                   /\ lastSeen'[l].failure = lastSeen[l].failure
      /\ lastSeen' \in [Lane -> [success : Nat, failure : Nat]]
  <2>1. now \in Nat /\ lastSeen \in [Lane -> [success : Nat, failure : Nat]]
    BY DEF RelayInv, RelayTyped
  <2>2. ASSUME NEW r \in [success : Nat, failure : Nat]
        PROVE  /\ [r EXCEPT !.failure = now] \in [success : Nat, failure : Nat]
               /\ [r EXCEPT !.failure = now].failure = now
               /\ [r EXCEPT !.failure = now].success = r.success
               /\ [r EXCEPT !.success = now] \in [success : Nat, failure : Nat]
               /\ [r EXCEPT !.success = now].success = now
               /\ [r EXCEPT !.success = now].failure = r.failure
    BY <2>1
  <2>3. ASSUME NEW l \in Lane
        PROVE  /\ lastSeen'[l] \in [success : Nat, failure : Nat]
               /\ l \in Configured =>
                    /\ l \in failed => /\ lastSeen'[l].failure = now
                                       /\ lastSeen'[l].success = lastSeen[l].success
                    /\ l \notin failed => /\ lastSeen'[l].success = now
                                          /\ lastSeen'[l].failure = lastSeen[l].failure
    <3>1. PICK r \in [success : Nat, failure : Nat] : r = lastSeen[l]
      BY <2>1
    <3>2. lastSeen'[l] = IF l \notin Configured THEN r
                         ELSE IF l \in failed THEN [r EXCEPT !.failure = now]
                         ELSE [r EXCEPT !.success = now]
      BY <1>1, <3>1
    <3>3. QED
      BY <2>2, <3>1, <3>2
  <2>4. lastSeen' \in [Lane -> [success : Nat, failure : Nat]]
    BY <1>1, <2>3
  <2>5. QED
    BY <1>4, <1>5, <2>3, <2>4
<1>7. TimesOrdered' /\ LastSeenTrue'
  BY <1>1, <1>5, <1>6, TriedSeen DEF RelayInv
<1>8. ASSUME Survives(failed)
      PROVE  whole \cap (Configured \ failed) # {}
  <2>1. PICK l \in Configured \ failed : Seeded(l)
    BY <1>8 DEF Survives, Configured, Lane, Seeded
  <2>2. Carries(<<>>, job[p].carried[l])
    BY <1>1, <1>4, <2>1 DEF RelayInv, JobsFollowPlan
  <2>3. Len(<<>>) = 0
    OBVIOUS
  <2>4. job[p].carried[l] = SourceCount
    BY <2>2, <2>3, Arithmetic DEF Carries
  <2>5. QED
    BY <1>4, <2>1, <2>4
<1>9. EntryTrue(e)
  <2> HIDE DEF whole, failed, late
  <2>1. RelayTyped
    BY DEF RelayInv
  <2>2. QED
    BY <1>2, <1>5, <1>8, <2>1, VerdictTrue
<1>10. Counts(e.said) /\ job' = [job EXCEPT ![p] = NoJob]
  BY <1>1, <1>5 DEF Over
<1>11. QED
  BY <1>1, <1>5, <1>6, <1>7, <1>9, <1>10, OverKeeps

-----------------------------------------------------------------------------
\* The invariant says what the counters and the lanes claim.

LEMMA InvInit ==
  ASSUME RelayInit
  PROVE  RelayInv
<1>1. ledger = <<>> /\ now = 1 /\ count = [o \in Outcome |-> 0]
      /\ lastSeen = [l \in Lane |-> [success |-> 0, failure |-> 0]]
      /\ job = [p \in Publisher |-> NoJob]
      /\ secondary \in BOOLEAN /\ seeds \in BOOLEAN /\ (seeds => secondary)
  BY DEF RelayInit
<1>2. ledger \in Seq(EntryType) /\ Len(ledger) = 0
  BY <1>1
<1>3. 1 .. Len(ledger) = {}
  BY <1>2
<1>4. RelayTyped
  BY <1>1, <1>2, NoJobTyped DEF RelayTyped
<1>5. JobsFollowPlan
  BY <1>1, NoJobTyped DEF JobsFollowPlan
<1>6. EntriesTrue /\ TimesOrdered
  BY <1>3 DEF EntriesTrue, TimesOrdered
<1>7. CountsTrue
  <2>1. \A o : Saying(ledger, o) = {}
    BY <1>3 DEF Saying
  <2>2. QED
    BY <1>1, <2>1, FS_EmptySet DEF CountsTrue
<1>8. LastSeenTrue
  <2>1. \A l : Successes(ledger, l) = {} /\ Failures(ledger, l) = {}
    BY <1>3 DEF Successes, Failures
  <2>2. \A l \in Configured : lastSeen[l].success = 0 /\ lastSeen[l].failure = 0
    BY <1>1 DEF Configured, Lane
  <2>3. QED
    BY <2>1, <2>2 DEF LastSeenTrue, Latest
<1>9. QED
  BY <1>4, <1>5, <1>6, <1>7, <1>8 DEF RelayInv

LEMMA InvNext ==
  ASSUME RelayInv, [RelayNext]_relayVars
  PROVE  RelayInv'
<1>1. CASE RelayTick
  BY <1>1, TickKeeps
<1>2. CASE \E p \in Publisher :
             \/ \E d \in Deadlines : Submit(p, d)
             \/ CheckDeadline(p)
             \/ \E ok \in BOOLEAN :
                  Encode(p, ok) \/ \E l \in Lane : SendSymbol(p, l, ok)
             \/ Conclude(p)
  BY <1>2, SubmitKeeps, CheckDeadlineKeeps, EncodeKeeps, SendSymbolKeeps, ConcludeKeeps
<1>3. CASE UNCHANGED relayVars
  <2>1. UNCHANGED <<now, secondary, seeds, job, count, lastSeen, ledger>>
    BY <1>3 DEF relayVars, telemetry
  <2>2. RelayTyped'
    BY <2>1 DEF RelayInv, RelayTyped
  <2>3. JobsFollowPlan'
    BY <2>1 DEF RelayInv, JobsFollowPlan, Seeded
  <2>4. QED
    BY <2>1, <2>2, <2>3, LedgerKept DEF RelayInv
<1>4. QED
  BY <1>1, <1>2, <1>3 DEF RelayNext

\* The state of a lane is that of the objects it was tried for.
LEMMA InvLanes ==
  ASSUME RelayInv
  PROVE  LanesAreTrue
<1> SUFFICES ASSUME NEW l \in Configured
             PROVE  LET attempts == {i \in DOMAIN ledger : l \in ledger[i].tried}
                        failures == {i \in attempts : l \in ledger[i].failed}
                    IN  /\ (LaneState(l) = "unknown") = (attempts = {})
                        /\ LaneState(l) = "healthy" =>
                             \A i \in failures : now - ledger[i].at >= Hold
                                                /\ \E j \in attempts \ failures : j > i
                        /\ LaneState(l) = "impaired" =>
                             \E i \in failures :
                               now - ledger[i].at < Hold
                               \/ \A j \in attempts \ failures : ledger[j].at <= ledger[i].at
  BY DEF LanesAreTrue
<1> DEFINE attempts == {i \in DOMAIN ledger : l \in ledger[i].tried}
           failures == {i \in attempts : l \in ledger[i].failed}
           F == Failures(ledger, l)
           S == Successes(ledger, l)
           s == lastSeen[l].success
           f == lastSeen[l].failure
<1>1. failures = F /\ attempts \ failures = S /\ attempts = S \cup F
  <2>1. DOMAIN ledger = 1 .. Len(ledger)
    BY DEF RelayInv, RelayTyped
  <2>2. QED
    BY <2>1 DEF Successes, Failures
<1>2. Latest(ledger, S, s) /\ Latest(ledger, F, f)
  BY DEF RelayInv, LastSeenTrue
<1>3. s \in Nat /\ f \in Nat /\ now \in Nat
  BY DEF RelayInv, RelayTyped, Configured, Lane
<1>4. /\ S \subseteq 1 .. Len(ledger) /\ F \subseteq 1 .. Len(ledger)
      /\ \A i \in 1 .. Len(ledger) : ledger[i].at \in 1 .. now
      /\ \A i, j \in 1 .. Len(ledger) : i <= j => ledger[i].at <= ledger[j].at
      /\ Len(ledger) \in Nat
  <2>1. S \subseteq 1 .. Len(ledger) /\ F \subseteq 1 .. Len(ledger)
    BY DEF Successes, Failures
  <2>2. Len(ledger) \in Nat
    BY DEF RelayInv, RelayTyped
  <2>3. /\ \A i \in 1 .. Len(ledger) : ledger[i].at \in 1 .. now
        /\ \A i, j \in 1 .. Len(ledger) : i <= j => ledger[i].at <= ledger[j].at
    BY DEF RelayInv, TimesOrdered
  <2>4. QED
    BY <2>1, <2>2, <2>3
<1>5. LaneState(l) = IF s = 0 /\ f = 0 THEN "unknown"
                     ELSE IF f > 0 /\ (s <= f \/ now - f < Hold) THEN "impaired"
                     ELSE "healthy"
  BY DEF LaneState
<1> HIDE DEF attempts, failures, F, S, s, f
<1>6. (S = {} <=> s = 0) /\ (F = {} <=> f = 0)
  BY <1>2, <1>3, <1>4 DEF Latest
<1>7. (LaneState(l) = "unknown") = (attempts = {})
  BY <1>1, <1>5, <1>6
<1>8. ASSUME LaneState(l) = "healthy", NEW i \in failures
      PROVE  now - ledger[i].at >= Hold /\ \E j \in attempts \ failures : j > i
  <2>1. f > 0 /\ s > f /\ ~(now - f < Hold)
    BY <1>1, <1>3, <1>5, <1>6, <1>8
  <2>2. i \in 1 .. Len(ledger) /\ ledger[i].at <= f /\ ledger[i].at \in 1 .. now
    BY <1>1, <1>2, <1>4, <1>8 DEF Latest
  <2>3. now - ledger[i].at >= Hold
    BY <1>3, <2>1, <2>2, Arithmetic
  <2>4. S # {}
    BY <1>3, <1>6, <2>1
  <2>5. PICK j \in S : ledger[j].at = s
    BY <1>2, <2>4 DEF Latest
  <2>6. j > i
    BY <1>3, <1>4, <2>1, <2>2, <2>5
  <2>7. QED
    BY <1>1, <2>3, <2>5, <2>6
<1>9. ASSUME LaneState(l) = "impaired"
      PROVE  \E i \in failures :
               now - ledger[i].at < Hold
               \/ \A j \in attempts \ failures : ledger[j].at <= ledger[i].at
  <2>1. f > 0 /\ (s <= f \/ now - f < Hold)
    BY <1>5, <1>9
  <2>2. PICK i \in F : ledger[i].at = f
    BY <1>2, <1>6, <2>1 DEF Latest
  <2>3. \A j \in S : ledger[j].at \in Nat /\ ledger[j].at <= s
    BY <1>2, <1>4 DEF Latest
  <2>4. s <= f => \A j \in S : ledger[j].at <= ledger[i].at
    BY <1>3, <2>2, <2>3
  <2>5. QED
    BY <1>1, <2>1, <2>2, <2>4
<1>10. QED
  BY <1>7, <1>8, <1>9 DEF attempts, failures

LEMMA InvVerdicts ==
  ASSUME RelayInv
  PROVE  VerdictsAreTrue
<1>1. DOMAIN ledger = 1 .. Len(ledger)
  BY DEF RelayInv, RelayTyped
<1>2. \A i \in DOMAIN ledger : EntryTrue(ledger[i])
  BY <1>1 DEF RelayInv, EntriesTrue
<1>3. \A o \in Outcome \ {"primaryFallback"} :
        count[o] = Cardinality({i \in DOMAIN ledger : o \in ledger[i].said})
  BY <1>1 DEF RelayInv, CountsTrue, Saying
<1>4. LanesAreTrue
  BY InvLanes
<1>5. QED
  BY <1>2, <1>3, <1>4 DEF VerdictsAreTrue, EntryTrue

\* What the counters say of an object and what is shown of a lane is true, however
\* many publishers overlap, wherever a lane fails and whenever the deadline passes:
\* an object counted as sent was in time and a lane that did not fail carried all of
\* its source, and the counters are the sums of the objects (lines 828-845, 1018-1161).
THEOREM VerdictsStayTrue == RelaySpec => []VerdictsAreTrue
<1>1. RelayInit => RelayInv
  BY InvInit
<1>2. RelayInv /\ [RelayNext]_relayVars => RelayInv'
  BY InvNext
<1>3. RelayInv => VerdictsAreTrue
  BY InvVerdicts
<1>4. QED
  BY <1>1, <1>2, <1>3, PTL DEF RelaySpec

-----------------------------------------------------------------------------
(* The byte slots. *)
-----------------------------------------------------------------------------
\* Facts about remainders.

LEMMA Constants ==
  /\ Sizes \subseteq Nat /\ Limits \subseteq Nat
  /\ SymbolSize \in Nat \ {0} /\ LegacySymbols \in Nat \ {0} /\ IdSpace \in Nat \ {0}
  /\ Overhead \in Nat /\ RepairSymbols \in Nat /\ MaxPayload \in Nat
  /\ MaxDatagrams \in Nat /\ MaxForwarded \in Nat /\ MaxSymbol \in Nat
BY ForwarderAssumption

LEMMA Division ==
  ASSUME NEW n \in Nat \ {0}, NEW a \in Int
  PROVE  a \div n \in Int /\ a % n \in 0 .. n - 1 /\ a = n * (a \div n) + (a % n)
OBVIOUS

LEMMA Quotient ==
  ASSUME NEW n \in Nat \ {0}, NEW a \in Int
  PROVE  \E p \in Int, r \in 0 .. n - 1 : r = a % n /\ a = n * p + r
<1> DEFINE p == a \div n
           r == a % n
<1>1. p \in Int /\ r \in 0 .. n - 1 /\ a = n * p + r
  BY Division
<1> HIDE DEF p, r
<1>2. r = a % n
  BY DEF r
<1>3. QED
  BY <1>1, <1>2

LEMMA OneRemainder ==
  ASSUME NEW n \in Nat \ {0}, NEW p \in Int, NEW q \in Int,
         NEW r \in 0 .. n - 1, NEW s \in 0 .. n - 1, n * p + r = n * q + s
  PROVE  p = q /\ r = s
OBVIOUS

\* Numbers with one remainder are a multiple of the divisor apart.
LEMMA SameRemainder ==
  ASSUME NEW n \in Nat \ {0}, NEW a \in Int, NEW b \in Int, NEW k \in Int, a = b + n * k
  PROVE  a % n = b % n
<1>1. PICK p \in Int, r \in 0 .. n - 1 : r = b % n /\ b = n * p + r
  BY Division
<1>2. PICK q \in Int, s \in 0 .. n - 1 : s = a % n /\ a = n * q + s
  BY Division
<1>3. PICK m \in Int : m = p + k
  OBVIOUS
<1>4. n * m = n * p + n * k
  BY <1>3
<1>5. n * q + s = n * m + r
  <2>1. PICK u \in Int, v \in Int : u = n * p /\ v = n * k
    OBVIOUS
  <2>2. a = u + r + v
    BY <1>1, <2>1
  <2>3. QED
    BY <1>2, <1>4, <2>1, <2>2
<1>6. s = r
  BY <1>5, OneRemainder
<1>7. QED
  BY <1>1, <1>2, <1>6

LEMMA RemainderOfSum ==
  ASSUME NEW n \in Nat \ {0}, NEW a \in Int, NEW b \in Int
  PROVE  ((a % n) + b) % n = (a + b) % n
<1>1. PICK p \in Int, r \in 0 .. n - 1 : r = a % n /\ a = n * p + r
  BY Division
<1>2. PICK x \in Int, y \in Int, m \in Int : x = r + b /\ y = a + b /\ m = -p
  OBVIOUS
<1>3. x = y + n * m
  <2>1. n * m = -(n * p)
    BY <1>2
  <2>2. QED
    BY <1>1, <1>2, <2>1
<1>4. x % n = y % n
  BY <1>3, SameRemainder
<1>5. QED
  BY <1>1, <1>2, <1>4

LEMMA RemainderOfDifference ==
  ASSUME NEW n \in Nat \ {0}, NEW c \in Int, NEW a \in Int, NEW b \in Int
  PROVE  (((c + a) % n) - ((c + b) % n)) % n = (a - b) % n
<1>1. PICK x \in Int, y \in Int : x = c + a /\ y = c + b
  OBVIOUS
<1>2. PICK p \in Int, r \in 0 .. n - 1 : r = x % n /\ x = n * p + r
  BY Division
<1>3. PICK q \in Int, s \in 0 .. n - 1 : s = y % n /\ y = n * q + s
  BY Division
<1>4. PICK m \in Int, d \in Int, e \in Int : m = q - p /\ d = r - s /\ e = a - b
  OBVIOUS
<1>5. d = e + n * m
  <2>1. n * m = n * q - n * p
    BY <1>4
  <2>2. PICK u \in Int, v \in Int : u = n * p /\ v = n * q
    OBVIOUS
  <2>3. c + a = u + r /\ c + b = v + s
    BY <1>1, <1>2, <1>3, <2>2
  <2>4. n * m = v - u
    BY <2>1, <2>2
  <2>5. QED
    BY <1>4, <2>3, <2>4
<1>6. d % n = e % n
  BY <1>5, SameRemainder
<1>7. QED
  BY <1>1, <1>2, <1>3, <1>4, <1>6

\* Closer than the divisor, the remainder tells two numbers apart.
LEMMA RemaindersDiffer ==
  ASSUME NEW n \in Nat \ {0}, NEW c \in Int, NEW a \in 0 .. n - 1, NEW b \in 0 .. n - 1,
         (c + a) % n = (c + b) % n
  PROVE  a = b
<1>1. PICK x \in Int, y \in Int : x = c + a /\ y = c + b
  OBVIOUS
<1>2. PICK p \in Int, r \in 0 .. n - 1 : r = x % n /\ x = n * p + r
  BY Quotient
<1>3. PICK q \in Int : y = n * q + r
  <2>1. PICK q \in Int, s \in 0 .. n - 1 : s = y % n /\ y = n * q + s
    BY Quotient
  <2>2. QED
    BY <1>1, <1>2, <2>1
<1>4. PICK m \in Int : m = p - q
  OBVIOUS
<1>5. n * m = n * p - n * q
  BY <1>4
<1>6. a - b = n * m
  <2>1. PICK u \in Int, v \in Int : u = n * p /\ v = n * q
    OBVIOUS
  <2>2. c + a = u + r /\ c + b = v + r
    BY <1>1, <1>2, <1>3, <2>1
  <2>3. n * m = u - v
    BY <1>5, <2>1
  <2>4. QED
    BY <2>2, <2>3
<1>7. a - b < n /\ b - a < n
  OBVIOUS
<1>8. CASE m >= 1
  <2>1. n * m >= n
    BY <1>8
  <2>2. QED
    BY <1>6, <1>7, <2>1
<1>9. CASE m <= -1
  <2>1. n * m <= -n
    BY <1>9
  <2>2. QED
    BY <1>6, <1>7, <2>1
<1>10. CASE m = 0
  BY <1>6, <1>10
<1>11. QED
  BY <1>8, <1>9, <1>10

LEMMA QuotientNatural ==
  ASSUME NEW a \in Nat, NEW n \in Nat \ {0}
  PROVE  CeilDiv(a, n) \in Nat
<1>1. a + n - 1 \in Nat
  OBVIOUS
<1>2. PICK m \in Nat : m = a + n - 1
  BY <1>1
<1>3. m \div n \in Nat
  OBVIOUS
<1>4. QED
  BY <1>2, <1>3 DEF CeilDiv

LEMMA CountNatural ==
  ASSUME NEW size \in Nat, NEW symbol \in Nat \ {0}
  PROVE  PacketCount(size, symbol) \in Nat /\ Encoded(size, symbol) = PacketCount(size, symbol)
<1>1. LegacySymbols * symbol \in Nat \ {0}
  BY Constants
<1>2. CeilDiv(size, symbol) \in Nat /\ CeilDiv(size, LegacySymbols * symbol) \in Nat
  BY <1>1, QuotientNatural
<1>3. BlockRepair(size, symbol) \in Nat
  BY <1>2, Constants DEF BlockRepair
<1>4. QED
  BY <1>2, <1>3 DEF PacketCount, Encoded

-----------------------------------------------------------------------------
\* Types, and the shape of a slot on its way.

Place == {"idle", "block", "packets", "frame", "encode", "send", "relay"}
Limit == Limits \cup {NoLimit}
Slot == [at : Place, id : Nat, size : Nat, symbol : Nat, limit : Limit, block : Nat,
         first : Nat, sent : Nat, part : Nat \cup {NoPart}, frame : BOOLEAN]
Datagram == [id : Nat, frame : BOOLEAN, block : Nat, index : Nat, packet : Nat, bytes : Nat,
             limit : Limit]
RawPost == [chunks : SUBSET Nat, datagrams : Nat]

Busy(c) == slot[c].at # "idle"

\* A slot has symbols, a slot that goes to the counters fits the geometry, one that
\* is sent keeps its limit.
Shape(s) ==
  /\ s.at # "idle" => s.symbol > 0 /\ s.sent <= PacketCount(s.size, s.symbol)
  /\ s.at = "frame" => s.frame
  /\ s.frame => /\ s.at \in {"frame", "send"}
                /\ s.limit = NoLimit /\ s.part = NoPart /\ s.first = 0
  /\ s.at \in {"block", "packets", "encode", "send"} /\ ~s.frame =>
       PacketCount(s.size, s.symbol) <= MaxDatagrams
  /\ s.at = "send" /\ s.limit # NoLimit => s.symbol + Overhead <= s.limit
  /\ s.at \notin {"send", "relay"} => s.sent = 0

Typed ==
  /\ nextBlock \in 0 .. IdSpace - 1 /\ nextPacket \in 0 .. IdSpace - 1
  /\ nextNumber \in Nat /\ nextFrame \in Nat /\ slots \in 0 .. MaxForwarded
  /\ slot \in [Caller -> Slot]
  /\ wire \in SUBSET Datagram /\ IsFiniteSet(wire)
  /\ post \in [Caller -> RawPost] /\ acknowledged \in SUBSET RawPost
  /\ \A c \in Caller : Shape(slot[c])

LEMMA IdleSlot == Idle \in Slot /\ Shape(Idle) /\ Idle.at = "idle"
BY DEF Idle, Slot, Place, Limit, Shape

LEMMA NoPostTyped == NoPost \in RawPost
BY DEF NoPost, RawPost

\* A caller moves only its own slot and its own request.
Alone(c) ==
  \A d \in Caller \ {c} : slot'[d] = slot[d] /\ post'[d] = post[d]

KeepsSlot(s, t) ==
  /\ t.id = s.id /\ t.size = s.size /\ t.symbol = s.symbol /\ t.limit = s.limit
  /\ t.part = s.part /\ t.frame = s.frame

\* What a step of a caller does to its slot, its request and the wire.
Begins(c) ==
  /\ slot[c].at = "idle" /\ slots' = slots + 1
  /\ UNCHANGED <<wire, acknowledged>>
  /\ \/ slot'[c].at = "idle" /\ post'[c] \in {NoPost, post[c]}
     \/ /\ slot'[c].at \in {"block", "frame", "relay"}
        /\ slot'[c].id = slots + 1 /\ slot'[c].sent = 0
        /\ \/ /\ post'[c] = [post[c] EXCEPT !.chunks = @ \cup {slots + 1}]
              /\ slot'[c].at = "block" /\ slot'[c].limit = NoLimit /\ slot'[c].part = NoPart
           \/ post'[c] = post[c]

GoesOn(c) ==
  /\ Busy(c) /\ slot'[c].at \notin {"idle", "relay"}
  /\ KeepsSlot(slot[c], slot'[c]) /\ slot'[c].sent = 0 /\ slot[c].sent = 0
  /\ post'[c] = post[c]
  /\ UNCHANGED <<slots, wire, acknowledged>>

Sends(c) ==
  /\ slot[c].at = "send" /\ slot'[c].at = "send"
  /\ KeepsSlot(slot[c], slot'[c]) /\ slot'[c].block = slot[c].block
  /\ slot'[c].sent = slot[c].sent + 1
  /\ wire' = wire \cup {[id |-> slot[c].id, frame |-> slot[c].frame, block |-> slot[c].block,
                         index |-> slot[c].sent,
                         packet |-> (slot[c].first + slot[c].sent) % IdSpace,
                         bytes |-> slot[c].symbol + Overhead, limit |-> slot[c].limit]}
  /\ post'[c] = post[c]
  /\ UNCHANGED <<slots, acknowledged>>

Completes(c) ==
  /\ slot[c].at = "send"
  /\ \/ slot'[c].at = "idle"
     \/ /\ slot'[c].at = "relay" /\ slot[c].part # NoPart
        /\ KeepsSlot(slot[c], slot'[c]) /\ slot'[c].block = slot[c].block
        /\ slot'[c].sent = slot[c].sent
  /\ post'[c] = IF slot[c].id \in post[c].chunks
                THEN [post[c] EXCEPT !.datagrams = @ + slot[c].sent] ELSE post[c]
  /\ UNCHANGED <<slots, wire, acknowledged>>

Drops(c) ==
  /\ Busy(c) /\ slot'[c].at = "idle"
  /\ \/ post'[c] = NoPost
     \/ post'[c] = post[c] /\ (slot[c].at = "relay" \/ slot[c].limit # NoLimit)
  /\ UNCHANGED <<slots, wire, acknowledged>>

Acknowledges(c) ==
  /\ slot[c].at = "idle" /\ slot'[c].at = "idle"
  /\ post'[c] = NoPost /\ acknowledged' = acknowledged \cup {post[c]}
  /\ UNCHANGED <<slots, wire>>

Effect(c) == Begins(c) \/ GoesOn(c) \/ Sends(c) \/ Completes(c) \/ Drops(c) \/ Acknowledges(c)

\* What every step lemma shows of a step of c.
Sound(c) == Typed' /\ Alone(c) /\ Effect(c)

\* A slot or a request of c that stays well typed.
LEMMA TypedAgain ==
  ASSUME Typed, NEW c \in Caller, NEW s \in Slot, Shape(s), NEW p \in RawPost,
         slot' = [slot EXCEPT ![c] = s], post' = [post EXCEPT ![c] = p],
         nextBlock' \in 0 .. IdSpace - 1, nextPacket' \in 0 .. IdSpace - 1,
         nextNumber' \in Nat, nextFrame' \in Nat, slots' \in 0 .. MaxForwarded,
         wire' \in SUBSET Datagram, IsFiniteSet(wire'), acknowledged' \in SUBSET RawPost
  PROVE  Typed' /\ Alone(c) /\ slot'[c] = s /\ post'[c] = p
BY DEF Typed, Alone

LEMMA FailsSound ==
  ASSUME Typed, NEW c \in Caller, Fails(c), Busy(c),
         UNCHANGED <<nextBlock, nextPacket, nextFrame, others, nextNumber, slots, wire>>
  PROVE  Sound(c)
<1>1. slot' = [slot EXCEPT ![c] = Idle] /\ post' = [post EXCEPT ![c] = NoPost]
  BY DEF Fails, Ends
<1>2. Typed' /\ Alone(c) /\ slot'[c] = Idle /\ post'[c] = NoPost
  BY <1>1, IdleSlot, NoPostTyped, TypedAgain DEF Typed, others
<1>3. Drops(c)
  BY <1>2, IdleSlot DEF Drops, others
<1>4. QED
  BY <1>2, <1>3 DEF Sound, Effect

LEMMA SymbolTyped ==
  ASSUME NEW limit \in Limit, Accepted(limit)
  PROVE  SymbolFor(limit) \in Nat \ {0}
BY Constants DEF SymbolFor, Limit, Accepted

LEMMA BeginSound ==
  ASSUME Typed, NEW c \in Caller, NEW size \in Sizes, NEW limit \in Limit, Begin(c, size, limit)
  PROVE  Sound(c)
<1>1. PICK symbol : symbol = SymbolFor(limit)
  OBVIOUS
<1>2. symbol \in Nat \ {0} /\ size \in Nat
  BY <1>1, SymbolTyped, Constants DEF Begin
<1>3. PacketCount(size, symbol) \in Nat
  BY <1>2, CountNatural
<1>4. slots' = slots + 1 /\ slots' \in 0 .. MaxForwarded /\ slots + 1 \in Nat
  BY Constants DEF Begin, Typed
<1>5. /\ slot[c].at = "idle"
      /\ UNCHANGED <<nextBlock, nextPacket, nextFrame, nextNumber, wire, acknowledged>>
  BY DEF Begin, others
<1>6. CASE FitsGeometry(size, symbol)
  <2> DEFINE s == [Idle EXCEPT !.at = "block", !.id = slots + 1, !.size = size,
                               !.symbol = symbol, !.limit = limit]
  <2>1. s \in Slot
    BY <1>2, <1>4 DEF Idle, Slot, Place, Limit
  <2>2. Shape(s)
    BY <1>2, <1>3, <1>6 DEF Idle, Shape, FitsGeometry
  <2>3. slot' = [slot EXCEPT ![c] = s]
    BY <1>1, <1>6 DEF Begin
  <2>4. s.at = "block" /\ s.id = slots + 1 /\ s.sent = 0 /\ s.limit = limit /\ s.part = NoPart
    BY DEF Idle
  <2>5. PICK p \in RawPost :
           /\ post' = [post EXCEPT ![c] = p]
           /\ p = IF limit = NoLimit THEN [post[c] EXCEPT !.chunks = @ \cup {slots + 1}]
                  ELSE post[c]
    <3> DEFINE p == IF limit = NoLimit THEN [post[c] EXCEPT !.chunks = @ \cup {slots + 1}]
                    ELSE post[c]
    <3>1. post[c] \in RawPost
      BY DEF Typed
    <3>2. p \in RawPost
      BY <1>4, <3>1 DEF RawPost
    <3>3. post' = [post EXCEPT ![c] = p]
      BY <1>1, <1>6, <3>1 DEF Begin, Typed
    <3>4. QED
      BY <3>2, <3>3
  <2> HIDE DEF s
  <2>6. Typed' /\ Alone(c) /\ slot'[c] = s /\ post'[c] = p
    BY <1>4, <1>5, <2>1, <2>2, <2>3, <2>5, TypedAgain DEF Typed
  <2>7. Begins(c)
    BY <1>4, <1>5, <2>4, <2>5, <2>6 DEF Begins
  <2>8. QED
    BY <2>6, <2>7 DEF Sound, Effect
<1>7. CASE ~FitsGeometry(size, symbol)
  <2>1. slot' = [slot EXCEPT ![c] = Idle] /\ post' = [post EXCEPT ![c] = NoPost]
    BY <1>1, <1>7 DEF Begin, Fails, Ends
  <2>2. Typed' /\ Alone(c) /\ slot'[c] = Idle /\ post'[c] = NoPost
    BY <1>4, <1>5, <2>1, IdleSlot, NoPostTyped, TypedAgain DEF Typed
  <2>3. Begins(c)
    BY <1>4, <1>5, <2>2, IdleSlot DEF Begins
  <2>4. QED
    BY <2>2, <2>3 DEF Sound, Effect
<1>8. QED
  BY <1>6, <1>7

LEMMA BeginPartSound ==
  ASSUME Typed, NEW c \in Caller, NEW size \in Sizes, NEW builds \in BOOLEAN,
         BeginPart(c, size, builds)
  PROVE  Sound(c)
<1>1. size \in Nat /\ PacketCount(size, SymbolSize) \in Nat
  BY Constants, CountNatural
<1>2. slots' = slots + 1 /\ slots' \in 0 .. MaxForwarded /\ slots + 1 \in Nat
  BY Constants DEF BeginPart, Typed
<1>3. /\ slot[c].at = "idle" /\ nextNumber' \in Nat
      /\ UNCHANGED <<nextBlock, nextPacket, nextFrame, wire, acknowledged, post>>
  BY DEF BeginPart, Fails, others, Typed
<1>4. post' = [post EXCEPT ![c] = post[c]] /\ post[c] \in RawPost
  BY <1>3 DEF Typed
<1> DEFINE tooLarge == ~exclusive /\ ~FitsGeometry(size, SymbolSize)
<1>5. CASE ~builds \/ tooLarge
  <2>1. slot' = [slot EXCEPT ![c] = Idle]
    BY <1>5 DEF BeginPart, Fails, Ends
  <2>2. Typed' /\ Alone(c) /\ slot'[c] = Idle /\ post'[c] = post[c]
    BY <1>2, <1>3, <1>4, <2>1, IdleSlot, TypedAgain DEF Typed
  <2>3. Begins(c)
    BY <1>2, <1>3, <2>2, IdleSlot DEF Begins
  <2>4. QED
    BY <2>2, <2>3 DEF Sound, Effect
<1>6. CASE builds /\ ~tooLarge
  <2> DEFINE s == [Idle EXCEPT !.at = IF exclusive THEN "relay" ELSE "block",
                               !.id = slots + 1, !.size = size,
                               !.symbol = SymbolSize, !.part = nextNumber]
  <2>1. s \in Slot
    BY <1>1, <1>2, Constants DEF Idle, Slot, Place, Limit, Typed
  <2>2. Shape(s)
    BY <1>1, <1>6, Constants DEF Idle, Shape, FitsGeometry
  <2>3. slot' = [slot EXCEPT ![c] = s]
    BY <1>6 DEF BeginPart
  <2>4. s.at \in {"block", "relay"} /\ s.id = slots + 1 /\ s.sent = 0
    BY DEF Idle
  <2> HIDE DEF s
  <2>5. Typed' /\ Alone(c) /\ slot'[c] = s /\ post'[c] = post[c]
    BY <1>2, <1>3, <1>4, <2>1, <2>2, <2>3, TypedAgain DEF Typed
  <2>6. Begins(c)
    BY <1>2, <1>3, <2>4, <2>5 DEF Begins
  <2>7. QED
    BY <2>5, <2>6 DEF Sound, Effect
<1>7. QED
  BY <1>5, <1>6

LEMMA BeginFrameSound ==
  ASSUME Typed, NEW c \in Caller, NEW size \in Sizes, BeginFrame(c, size)
  PROVE  Sound(c)
<1>1. size \in Nat /\ PacketCount(size, SymbolSize) \in Nat
  BY Constants, CountNatural
<1>2. slots' = slots + 1 /\ slots' \in 0 .. MaxForwarded /\ slots + 1 \in Nat
  BY Constants DEF BeginFrame, Typed
<1>3. /\ slot[c].at = "idle"
      /\ UNCHANGED <<nextBlock, nextPacket, nextFrame, nextNumber, wire, acknowledged, post>>
  BY DEF BeginFrame, others
<1>4. post' = [post EXCEPT ![c] = post[c]] /\ post[c] \in RawPost
  BY <1>3 DEF Typed
<1> DEFINE s == [Idle EXCEPT !.at = "frame", !.id = slots + 1, !.size = size,
                             !.symbol = SymbolSize, !.frame = TRUE]
<1>5. s \in Slot
  BY <1>1, <1>2, Constants DEF Idle, Slot, Place, Limit
<1>6. Shape(s)
  BY <1>1, Constants DEF Idle, Shape
<1>7. slot' = [slot EXCEPT ![c] = s]
  BY DEF BeginFrame
<1>8. s.at = "frame" /\ s.id = slots + 1 /\ s.sent = 0
  BY DEF Idle
<1> HIDE DEF s
<1>9. Typed' /\ Alone(c) /\ slot'[c] = s /\ post'[c] = post[c]
  BY <1>2, <1>3, <1>4, <1>5, <1>6, <1>7, TypedAgain DEF Typed
<1>10. Begins(c)
  BY <1>2, <1>3, <1>8, <1>9 DEF Begins
<1>11. QED
  BY <1>9, <1>10 DEF Sound, Effect

\* A slot on its way to the socket.
LEMMA GoesOnSound ==
  ASSUME Typed, NEW c \in Caller, NEW s \in Slot, Shape(s), slot' = [slot EXCEPT ![c] = s],
         Busy(c), s.at \notin {"idle", "relay"}, KeepsSlot(slot[c], s),
         slot[c].sent = 0, s.sent = 0,
         nextBlock' \in 0 .. IdSpace - 1, nextPacket' \in 0 .. IdSpace - 1, nextFrame' \in Nat,
         UNCHANGED <<others, nextNumber, slots, wire, post>>
  PROVE  Sound(c)
<1>1. post' = [post EXCEPT ![c] = post[c]] /\ post[c] \in RawPost
  BY DEF Typed
<1>2. Typed' /\ Alone(c) /\ slot'[c] = s /\ post'[c] = post[c]
  BY <1>1, TypedAgain DEF Typed, others
<1>3. GoesOn(c)
  BY <1>2 DEF GoesOn, others
<1>4. QED
  BY <1>2, <1>3 DEF Sound, Effect

LEMMA SlotFacts ==
  ASSUME Typed, NEW c \in Caller
  PROVE  slot[c] \in Slot /\ Shape(slot[c]) /\ post[c] \in RawPost
BY DEF Typed

LEMMA ReserveBlockSound ==
  ASSUME Typed, NEW c \in Caller, ReserveBlock(c)
  PROVE  /\ Sound(c) /\ GoesOn(c) /\ slot'[c].at = "packets" /\ ~slot'[c].frame
         /\ slot'[c].block = nextBlock
<1>1. nextBlock \in Nat /\ nextBlock' \in 0 .. IdSpace - 1
  <2>1. PICK n \in Nat : n = nextBlock + 1
    BY Constants DEF Typed
  <2>2. n % IdSpace \in 0 .. IdSpace - 1
    BY Constants, Division
  <2>3. QED
    BY <2>1, <2>2, Constants DEF ReserveBlock, Typed
<1> DEFINE s == [slot[c] EXCEPT !.at = "packets", !.block = nextBlock]
<1>2. slot[c].at = "block" /\ slot' = [slot EXCEPT ![c] = s]
  BY DEF ReserveBlock, Typed
<1>3. s \in Slot /\ s.at = "packets" /\ s.block = nextBlock /\ KeepsSlot(slot[c], s)
  BY <1>1, SlotFacts DEF Slot, Place, KeepsSlot
<1>4. Shape(s) /\ slot[c].sent = 0 /\ s.sent = 0 /\ ~s.frame
  BY <1>2, SlotFacts DEF Slot, Shape
<1> HIDE DEF s
<1>5. Sound(c)
  BY <1>1, <1>2, <1>3, <1>4, GoesOnSound DEF ReserveBlock, Busy, Typed
<1>6. slot'[c] = s
  BY <1>2 DEF Typed
<1>7. GoesOn(c)
  BY <1>2, <1>3, <1>4, <1>6 DEF GoesOn, Busy, ReserveBlock, others
<1>8. QED
  BY <1>3, <1>4, <1>5, <1>6, <1>7

LEMMA ReservePacketsSound ==
  ASSUME Typed, NEW c \in Caller, ReservePackets(c)
  PROVE  /\ Sound(c) /\ GoesOn(c) /\ slot'[c].at = "encode" /\ ~slot'[c].frame
         /\ slot'[c].block = slot[c].block /\ slot'[c].first = nextPacket
<1>1. PacketCount(slot[c].size, slot[c].symbol) \in Nat
  <2>1. PICK size \in Nat, symbol \in Nat \ {0} : size = slot[c].size /\ symbol = slot[c].symbol
    BY SlotFacts DEF Slot, Shape, ReservePackets
  <2>2. QED
    BY <2>1, CountNatural
<1>2. nextPacket \in Nat /\ nextPacket' \in 0 .. IdSpace - 1
  <2>1. PICK n \in Nat : n = nextPacket + PacketCount(slot[c].size, slot[c].symbol)
    BY <1>1, Constants DEF Typed
  <2>2. n % IdSpace \in 0 .. IdSpace - 1
    BY Constants, Division
  <2>3. QED
    BY <2>1, <2>2, Constants DEF ReservePackets, Typed
<1> DEFINE s == [slot[c] EXCEPT !.at = "encode", !.first = nextPacket]
<1>3. slot[c].at = "packets" /\ slot' = [slot EXCEPT ![c] = s]
  BY DEF ReservePackets, Typed
<1>4. /\ s \in Slot /\ s.at = "encode" /\ s.first = nextPacket /\ s.block = slot[c].block
      /\ KeepsSlot(slot[c], s)
  BY <1>2, SlotFacts DEF Slot, Place, KeepsSlot
<1>5. Shape(s) /\ slot[c].sent = 0 /\ s.sent = 0 /\ ~s.frame
  BY <1>3, SlotFacts DEF Slot, Shape
<1> HIDE DEF s
<1>6. Sound(c)
  BY <1>2, <1>3, <1>4, <1>5, GoesOnSound DEF ReservePackets, Busy, Typed
<1>7. slot'[c] = s
  BY <1>3 DEF Typed
<1>8. GoesOn(c)
  BY <1>3, <1>4, <1>5, <1>7 DEF GoesOn, Busy, ReservePackets, others
<1>9. QED
  BY <1>4, <1>5, <1>6, <1>7, <1>8

\* The slot is encoded and goes to the socket, or ends.
LEMMA EncodeSlotSound ==
  ASSUME Typed, NEW c \in Caller, NEW ok \in BOOLEAN, EncodeSlot(c, ok)
  PROVE  /\ Sound(c)
         /\ \/ slot'[c].at = "idle"
            \/ /\ slot[c].at = "encode" /\ slot'[c].at = "send" /\ ~slot'[c].frame
               /\ GoesOn(c) /\ slot'[c].block = slot[c].block
               /\ slot'[c].first = slot[c].first
<1> DEFINE tooLong == slot[c].limit # NoLimit /\ slot[c].symbol + Overhead > slot[c].limit
           made == ok /\ Encoded(slot[c].size, slot[c].symbol)
                            = PacketCount(slot[c].size, slot[c].symbol)
<1>1. /\ slot[c].at = "encode" /\ Busy(c)
      /\ UNCHANGED <<nextBlock, nextPacket, nextFrame, others, nextNumber, slots, wire>>
  BY DEF EncodeSlot, Busy
<1>2. CASE ~made
  <2>1. Fails(c)
    BY <1>2 DEF EncodeSlot
  <2>2. slot'[c] = Idle
    BY <2>1 DEF Fails, Ends, Typed
  <2>3. QED
    BY <1>1, <2>1, <2>2, FailsSound, IdleSlot
<1>3. CASE made /\ tooLong
  <2>1. slot' = [slot EXCEPT ![c] = Idle] /\ post' = [post EXCEPT ![c] = post[c]]
    BY <1>3, SlotFacts DEF EncodeSlot, Ends, Typed
  <2>2. Typed' /\ Alone(c) /\ slot'[c] = Idle /\ post'[c] = post[c]
    BY <1>1, <2>1, SlotFacts, IdleSlot, TypedAgain DEF Typed, others
  <2>3. Drops(c)
    BY <1>1, <1>3, <2>2, IdleSlot DEF Drops, others
  <2>4. QED
    BY <2>2, <2>3, IdleSlot DEF Sound, Effect
<1>4. CASE made /\ ~tooLong
  <2> DEFINE s == [slot[c] EXCEPT !.at = "send"]
  <2>1. slot' = [slot EXCEPT ![c] = s] /\ UNCHANGED post
    BY <1>4 DEF EncodeSlot, Typed
  <2>2. /\ s \in Slot /\ s.at = "send" /\ s.first = slot[c].first /\ s.block = slot[c].block
        /\ KeepsSlot(slot[c], s)
    BY SlotFacts DEF Slot, Place, KeepsSlot
  <2>3. slot[c].sent = 0 /\ s.sent = 0 /\ ~s.frame
    BY <1>1, SlotFacts DEF Slot, Shape
  <2>4. Shape(s)
    <3>1. s.limit # NoLimit => s.symbol + Overhead <= s.limit
      BY <1>4, SlotFacts, Constants DEF Slot, Limit
    <3>2. QED
      BY <1>1, <2>3, <3>1, SlotFacts DEF Slot, Shape
  <2> HIDE DEF s
  <2>5. Sound(c)
    BY <1>1, <2>1, <2>2, <2>3, <2>4, GoesOnSound DEF Typed
  <2>6. slot'[c] = s
    BY <2>1 DEF Typed
  <2>7. GoesOn(c)
    BY <1>1, <2>1, <2>2, <2>3, <2>6 DEF GoesOn, others
  <2>8. QED
    BY <1>1, <2>2, <2>3, <2>5, <2>6, <2>7
<1>5. QED
  BY <1>2, <1>3, <1>4

LEMMA EncodeFrameSound ==
  ASSUME Typed, NEW c \in Caller, NEW ok \in BOOLEAN, EncodeFrame(c, ok)
  PROVE  /\ Sound(c)
         /\ \/ slot'[c].at = "idle" /\ nextFrame' = nextFrame
            \/ /\ slot'[c].at = "send" /\ slot'[c].frame /\ GoesOn(c)
               /\ slot'[c].block = nextFrame /\ nextFrame' = nextFrame + 1
<1>1. /\ slot[c].at = "frame" /\ Busy(c)
      /\ UNCHANGED <<nextBlock, nextPacket, others, nextNumber, slots, wire>>
  BY DEF EncodeFrame, Busy
<1>2. CASE ~ok
  <2>1. Fails(c) /\ UNCHANGED nextFrame
    BY <1>2 DEF EncodeFrame
  <2>2. slot'[c] = Idle
    BY <2>1 DEF Fails, Ends, Typed
  <2>3. QED
    BY <1>1, <2>1, <2>2, FailsSound, IdleSlot
<1>3. CASE ok
  <2> DEFINE s == [slot[c] EXCEPT !.at = "send", !.block = nextFrame]
  <2>1. slot' = [slot EXCEPT ![c] = s] /\ UNCHANGED post /\ nextFrame' = nextFrame + 1
    BY <1>3 DEF EncodeFrame, Typed
  <2>2. s \in Slot /\ s.at = "send" /\ s.block = nextFrame /\ KeepsSlot(slot[c], s)
    BY SlotFacts DEF Slot, Place, KeepsSlot, Typed
  <2>3. slot[c].sent = 0 /\ s.sent = 0 /\ s.frame = TRUE
    BY <1>1, SlotFacts DEF Slot, Shape
  <2>4. Shape(s)
    BY <1>1, <2>3, SlotFacts DEF Slot, Shape
  <2> HIDE DEF s
  <2>5. Sound(c)
    <3>1. nextFrame + 1 \in Nat
      BY DEF Typed
    <3>2. nextFrame' \in Nat
      BY <2>1, <3>1
    <3>3. QED
      BY <1>1, <2>1, <2>2, <2>3, <2>4, <3>2, GoesOnSound DEF Typed
  <2>6. slot'[c] = s
    BY <2>1 DEF Typed
  <2>7. GoesOn(c)
    BY <1>1, <2>1, <2>2, <2>3, <2>6 DEF GoesOn, others
  <2>8. QED
    BY <1>1, <2>1, <2>2, <2>3, <2>5, <2>6, <2>7
<1>4. QED
  BY <1>2, <1>3

\* The encoder made as many packets as the geometry counted, so that sent never
\* passes the count.
LEMMA SendPacketSound ==
  ASSUME Typed, NEW c \in Caller, SendPacket(c)
  PROVE  /\ Sound(c) /\ Sends(c) /\ slot'[c].first = slot[c].first
         /\ slot[c].sent < PacketCount(slot[c].size, slot[c].symbol)
<1> DEFINE s == [slot[c] EXCEPT !.sent = @ + 1]
<1> DEFINE x == [id |-> slot[c].id, frame |-> slot[c].frame, block |-> slot[c].block,
                 index |-> slot[c].sent,
                 packet |-> (slot[c].first + slot[c].sent) % IdSpace,
                 bytes |-> slot[c].symbol + Overhead, limit |-> slot[c].limit]
<1>1. /\ slot[c].at = "send" /\ slot' = [slot EXCEPT ![c] = s] /\ wire' = wire \cup {x}
      /\ UNCHANGED <<nextBlock, nextPacket, nextFrame, others, nextNumber, slots, post>>
  BY DEF SendPacket, Sending
<1>2. /\ PacketCount(slot[c].size, slot[c].symbol) \in Nat
      /\ slot[c].sent < PacketCount(slot[c].size, slot[c].symbol)
  <2>1. PICK size \in Nat, symbol \in Nat \ {0} : size = slot[c].size /\ symbol = slot[c].symbol
    BY <1>1, SlotFacts DEF Slot, Shape
  <2>2. QED
    BY <2>1, CountNatural DEF SendPacket, Sending
<1>3. /\ s \in Slot /\ s.at = "send" /\ s.sent = slot[c].sent + 1 /\ s.block = slot[c].block
      /\ s.first = slot[c].first /\ KeepsSlot(slot[c], s)
  BY <1>1, SlotFacts DEF Slot, KeepsSlot
<1>4. Shape(s)
  BY <1>1, <1>2, <1>3, SlotFacts DEF Slot, Shape, KeepsSlot
<1>5. x \in Datagram
  <2>1. PICK n \in Nat : n = slot[c].first + slot[c].sent
    BY SlotFacts DEF Slot
  <2>2. n % IdSpace \in Nat
    BY Constants, Division
  <2>3. QED
    BY <2>1, <2>2, SlotFacts, Constants DEF Slot, Datagram
<1> HIDE DEF s, x
<1>6. wire' \in SUBSET Datagram /\ IsFiniteSet(wire')
  BY <1>1, <1>5, FS_AddElement DEF Typed
<1>7. post' = [post EXCEPT ![c] = post[c]] /\ post[c] \in RawPost
  BY <1>1 DEF Typed
<1>8. Typed' /\ Alone(c) /\ slot'[c] = s /\ post'[c] = post[c]
  BY <1>1, <1>3, <1>4, <1>6, <1>7, TypedAgain DEF Typed, others
<1>9. Sends(c)
  BY <1>1, <1>3, <1>8 DEF Sends, others, x
<1>10. QED
  BY <1>2, <1>3, <1>8, <1>9 DEF Sound, Effect

LEMMA SentSound ==
  ASSUME Typed, NEW c \in Caller, Sent(c)
  PROVE  /\ Sound(c) /\ UNCHANGED <<nextBlock, nextPacket, nextFrame, wire, slots>>
         /\ slot'[c].at \in {"idle", "relay"}
<1>1. /\ slot[c].at = "send"
      /\ UNCHANGED <<nextBlock, nextPacket, nextFrame, others, nextNumber, slots, wire>>
  BY DEF Sent
<1> DEFINE p == IF slot[c].id \in post[c].chunks
                THEN [post[c] EXCEPT !.datagrams = @ + slot[c].sent] ELSE post[c]
<1>2. p \in RawPost /\ post' = [post EXCEPT ![c] = p]
  <2>1. post[c] \in RawPost /\ post[c].datagrams + slot[c].sent \in Nat
    BY SlotFacts DEF RawPost, Slot
  <2>2. p \in RawPost
    BY <2>1 DEF RawPost
  <2>3. CASE slot[c].id \in post[c].chunks
    <3>1. p = [post[c] EXCEPT !.datagrams = post[c].datagrams + slot[c].sent]
      BY <2>3
    <3>2. post' = [post EXCEPT ![c].datagrams = post[c].datagrams + slot[c].sent]
      BY <2>3 DEF Sent, Typed
    <3>3. post' = [post EXCEPT ![c] = p]
      BY <3>1, <3>2 DEF Typed
    <3>4. QED
      BY <2>2, <3>3
  <2>4. CASE slot[c].id \notin post[c].chunks
    BY <2>4 DEF Sent, Typed
  <2>5. QED
    BY <2>2, <2>3, <2>4
<1>3. PICK s \in Slot :
        /\ Shape(s) /\ slot' = [slot EXCEPT ![c] = s]
        /\ \/ s.at = "idle"
           \/ /\ s.at = "relay" /\ slot[c].part # NoPart
              /\ KeepsSlot(slot[c], s) /\ s.block = slot[c].block /\ s.sent = slot[c].sent
  <2>1. CASE slot[c].part # NoPart /\ relay /\ ~slot[c].frame
    <3> DEFINE s == [slot[c] EXCEPT !.at = "relay"]
    <3>1. /\ s \in Slot /\ s.at = "relay" /\ KeepsSlot(slot[c], s)
          /\ s.block = slot[c].block /\ s.sent = slot[c].sent
      BY SlotFacts DEF Slot, Place, KeepsSlot
    <3>2. Shape(s)
      BY <1>1, <2>1, SlotFacts DEF Slot, Shape
    <3>3. slot' = [slot EXCEPT ![c] = s]
      BY <2>1 DEF Sent, Typed
    <3> HIDE DEF s
    <3>4. QED
      BY <2>1, <3>1, <3>2, <3>3
  <2>2. CASE ~(slot[c].part # NoPart /\ relay)
    BY <2>2, IdleSlot DEF Sent, Ends
  <2>3. CASE slot[c].frame
    <3>1. slot[c].part = NoPart
      BY <1>1, <2>3, SlotFacts DEF Slot, Shape
    <3>2. QED
      BY <3>1, IdleSlot DEF Sent, Ends
  <2>4. QED
    BY <2>1, <2>2, <2>3
<1> HIDE DEF p
<1>4. Typed' /\ Alone(c) /\ slot'[c] = s /\ post'[c] = p
  BY <1>1, <1>2, <1>3, TypedAgain DEF Typed, others
<1>5. Completes(c)
  BY <1>1, <1>3, <1>4 DEF Completes, others, p
<1>6. QED
  BY <1>1, <1>3, <1>4, <1>5 DEF Sound, Effect

LEMMA RelayedSound ==
  ASSUME Typed, NEW c \in Caller, Relayed(c)
  PROVE  /\ Sound(c) /\ UNCHANGED <<nextBlock, nextPacket, nextFrame, wire, slots>>
         /\ slot'[c].at = "idle"
<1>1. /\ slot[c].at = "relay" /\ Busy(c) /\ slot' = [slot EXCEPT ![c] = Idle]
      /\ UNCHANGED <<nextBlock, nextPacket, nextFrame, others, nextNumber, slots, wire, post>>
  BY DEF Relayed, Ends, Busy
<1>2. post' = [post EXCEPT ![c] = post[c]] /\ post[c] \in RawPost
  BY <1>1 DEF Typed
<1>3. Typed' /\ Alone(c) /\ slot'[c] = Idle /\ post'[c] = post[c]
  BY <1>1, <1>2, IdleSlot, TypedAgain DEF Typed, others
<1>4. Drops(c)
  BY <1>1, <1>3, IdleSlot DEF Drops, others
<1>5. QED
  BY <1>1, <1>3, <1>4, IdleSlot DEF Sound, Effect

LEMMA AcknowledgeSound ==
  ASSUME Typed, NEW c \in Caller, Acknowledge(c)
  PROVE  /\ Sound(c) /\ UNCHANGED <<nextBlock, nextPacket, nextFrame, wire, slots, slot>>
<1>1. /\ slot[c].at = "idle" /\ post' = [post EXCEPT ![c] = NoPost]
      /\ acknowledged' = acknowledged \cup {post[c]}
      /\ UNCHANGED <<nextBlock, nextPacket, nextFrame, nextNumber, slot, slots, wire>>
  BY DEF Acknowledge
<1>2. slot' = [slot EXCEPT ![c] = slot[c]] /\ slot[c] \in Slot /\ Shape(slot[c])
  BY <1>1, SlotFacts DEF Typed
<1>3. acknowledged' \in SUBSET RawPost
  BY <1>1, SlotFacts DEF Typed
<1>4. Typed' /\ Alone(c) /\ slot'[c] = slot[c] /\ post'[c] = NoPost
  BY <1>1, <1>2, <1>3, NoPostTyped, TypedAgain DEF Typed
<1>5. Acknowledges(c)
  BY <1>1, <1>4 DEF Acknowledges
<1>6. QED
  BY <1>1, <1>4, <1>5 DEF Sound, Effect

LEMMA SendPacketFailsSound ==
  ASSUME Typed, NEW c \in Caller, SendPacketFails(c)
  PROVE  /\ Sound(c) /\ UNCHANGED <<nextBlock, nextPacket, nextFrame, wire, slots>>
         /\ slot'[c].at = "idle"
<1>1. /\ Fails(c) /\ Busy(c)
      /\ UNCHANGED <<nextBlock, nextPacket, nextFrame, others, nextNumber, slots, wire>>
  BY DEF SendPacketFails, Sending, Busy
<1>2. slot'[c] = Idle
  BY <1>1 DEF Fails, Ends, Typed
<1>3. QED
  BY <1>1, <1>2, FailsSound, IdleSlot

\* What a step does to the counters.
CountersStay == UNCHANGED <<nextBlock, nextPacket, nextFrame>>

TakesBlock(c) ==
  /\ GoesOn(c) /\ slot[c].at = "block" /\ slot'[c].at = "packets"
  /\ ~slot'[c].frame /\ slot'[c].block = nextBlock
  /\ nextBlock' = (nextBlock + 1) % IdSpace /\ UNCHANGED <<nextPacket, nextFrame>>

TakesPackets(c) ==
  /\ GoesOn(c) /\ slot[c].at = "packets" /\ slot'[c].at = "encode"
  /\ ~slot'[c].frame /\ slot'[c].block = slot[c].block /\ slot'[c].first = nextPacket
  /\ nextPacket' = (nextPacket + PacketCount(slot[c].size, slot[c].symbol)) % IdSpace
  /\ UNCHANGED <<nextBlock, nextFrame>>

TakesFrame(c) ==
  /\ GoesOn(c) /\ slot'[c].at = "send" /\ slot'[c].frame
  /\ slot'[c].block = nextFrame /\ nextFrame' = nextFrame + 1
  /\ UNCHANGED <<nextBlock, nextPacket>>

ToSocket(c) ==
  /\ GoesOn(c) /\ slot[c].at = "encode" /\ slot'[c].at = "send" /\ ~slot'[c].frame
  /\ slot'[c].block = slot[c].block /\ slot'[c].first = slot[c].first
  /\ CountersStay

ToWire(c) ==
  /\ Sends(c) /\ slot'[c].first = slot[c].first
  /\ slot[c].sent < PacketCount(slot[c].size, slot[c].symbol)
  /\ CountersStay

Elsewhere(c) ==
  /\ CountersStay /\ wire' = wire /\ slots' \in {slots, slots + 1}
  /\ \/ Begins(c)
     \/ slot'[c].at \in {"idle", "relay"}

Kind(c) ==
  TakesBlock(c) \/ TakesPackets(c) \/ TakesFrame(c) \/ ToSocket(c) \/ ToWire(c) \/ Elsewhere(c)

\* Every step is sound, and of one of these kinds.
LEMMA StepSound == ASSUME Typed, ForwarderNext PROVE \E c \in Caller : Sound(c) /\ Kind(c)
<1>1. PICK c \in Caller :
        \/ \E size \in Sizes :
             \/ \E limit \in Limits \cup {NoLimit} : Begin(c, size, limit)
             \/ \E builds \in BOOLEAN : BeginPart(c, size, builds)
             \/ BeginFrame(c, size)
        \/ ReserveBlock(c) \/ ReservePackets(c)
        \/ \E ok \in BOOLEAN : EncodeSlot(c, ok) \/ EncodeFrame(c, ok)
        \/ SendPacket(c) \/ SendPacketFails(c) \/ Sent(c) \/ Relayed(c)
        \/ Acknowledge(c)
  BY DEF ForwarderNext
<1> USE DEF Kind, CountersStay
<1>2. ASSUME NEW size \in Sizes, NEW limit \in Limit, Begin(c, size, limit)
      PROVE  Sound(c) /\ Kind(c)
  <2>1. Sound(c) /\ slot[c].at = "idle" /\ slots' = slots + 1
    BY <1>2, BeginSound DEF Begin
  <2>2. slots + 1 # slots
    BY Constants DEF Typed
  <2>3. CountersStay /\ wire' = wire
    BY <1>2 DEF Begin
  <2>4. Elsewhere(c)
    BY <2>1, <2>2, <2>3
       DEF Elsewhere, Sound, Effect, GoesOn, Sends, Completes, Drops, Acknowledges, Busy
  <2>5. QED
    BY <2>1, <2>4
<1>3. ASSUME NEW size \in Sizes, NEW builds \in BOOLEAN, BeginPart(c, size, builds)
      PROVE  Sound(c) /\ Kind(c)
  <2>1. Sound(c) /\ slot[c].at = "idle" /\ slots' = slots + 1
    BY <1>3, BeginPartSound DEF BeginPart
  <2>2. slots + 1 # slots
    BY Constants DEF Typed
  <2>3. CountersStay /\ wire' = wire
    BY <1>3 DEF BeginPart
  <2>4. Elsewhere(c)
    BY <2>1, <2>2, <2>3
       DEF Elsewhere, Sound, Effect, GoesOn, Sends, Completes, Drops, Acknowledges, Busy
  <2>5. QED
    BY <2>1, <2>4
<1>4. ASSUME NEW size \in Sizes, BeginFrame(c, size) PROVE Sound(c) /\ Kind(c)
  <2>1. Sound(c) /\ slot[c].at = "idle" /\ slots' = slots + 1
    BY <1>4, BeginFrameSound DEF BeginFrame
  <2>2. slots + 1 # slots
    BY Constants DEF Typed
  <2>3. CountersStay /\ wire' = wire
    BY <1>4 DEF BeginFrame
  <2>4. Elsewhere(c)
    BY <2>1, <2>2, <2>3
       DEF Elsewhere, Sound, Effect, GoesOn, Sends, Completes, Drops, Acknowledges, Busy
  <2>5. QED
    BY <2>1, <2>4
<1>5. CASE ReserveBlock(c)
  <2>1. TakesBlock(c)
    BY <1>5, ReserveBlockSound DEF TakesBlock, ReserveBlock
  <2>2. QED
    BY <1>5, <2>1, ReserveBlockSound
<1>6. CASE ReservePackets(c)
  <2>1. TakesPackets(c)
    BY <1>6, ReservePacketsSound DEF TakesPackets, ReservePackets
  <2>2. QED
    BY <1>6, <2>1, ReservePacketsSound
<1>7. ASSUME NEW ok \in BOOLEAN, EncodeSlot(c, ok) PROVE Sound(c) /\ Kind(c)
  <2>1. CountersStay /\ wire' = wire /\ slots' = slots
    BY <1>7 DEF EncodeSlot
  <2>2. Sound(c) /\ (slot'[c].at = "idle" \/ ToSocket(c))
    BY <1>7, <2>1, EncodeSlotSound DEF ToSocket
  <2>3. slot'[c].at = "idle" => Elsewhere(c)
    BY <2>1 DEF Elsewhere
  <2>4. QED
    BY <2>2, <2>3
<1>8. ASSUME NEW ok \in BOOLEAN, EncodeFrame(c, ok) PROVE Sound(c) /\ Kind(c)
  <2>1. UNCHANGED <<nextBlock, nextPacket>> /\ wire' = wire /\ slots' = slots
    BY <1>8 DEF EncodeFrame
  <2>2. /\ Sound(c)
        /\ \/ slot'[c].at = "idle" /\ nextFrame' = nextFrame
           \/ /\ slot'[c].at = "send" /\ slot'[c].frame /\ GoesOn(c)
              /\ slot'[c].block = nextFrame /\ nextFrame' = nextFrame + 1
    BY <1>8, EncodeFrameSound
  <2>3. CASE slot'[c].at = "idle" /\ nextFrame' = nextFrame
    BY <2>1, <2>2, <2>3 DEF Elsewhere
  <2>4. CASE /\ slot'[c].at = "send" /\ slot'[c].frame /\ GoesOn(c)
             /\ slot'[c].block = nextFrame /\ nextFrame' = nextFrame + 1
    BY <2>1, <2>2, <2>4 DEF TakesFrame
  <2>5. QED
    BY <2>2, <2>3, <2>4
<1>9. CASE SendPacket(c)
  <2>1. ToWire(c)
    BY <1>9, SendPacketSound DEF ToWire, SendPacket
  <2>2. QED
    BY <1>9, <2>1, SendPacketSound
<1>10. CASE SendPacketFails(c) \/ Sent(c) \/ Relayed(c) \/ Acknowledge(c)
  <2>1. Sound(c) /\ CountersStay /\ wire' = wire /\ slots' = slots
    BY <1>10, SendPacketFailsSound, SentSound, RelayedSound, AcknowledgeSound
  <2>2. slot'[c].at \in {"idle", "relay"}
    BY <1>10, SendPacketFailsSound, SentSound, RelayedSound DEF Acknowledge
  <2>3. QED
    BY <2>1, <2>2 DEF Elsewhere
<1>11. QED
  BY <1>1, <1>2, <1>3, <1>4, <1>5, <1>6, <1>7, <1>8, <1>9, <1>10 DEF Limit

-----------------------------------------------------------------------------
\* Which slots there are, and what of them is on the wire.

\* A slot has its number to itself.
Ids ==
  /\ \A c \in Caller : Busy(c) => slot[c].id \in 1 .. slots
  /\ \A c, d \in Caller : Busy(c) /\ Busy(d) /\ slot[c].id = slot[d].id => c = d
  /\ \A x \in wire : x.id \in 1 .. slots
  /\ \A c \in Caller : post[c].chunks \subseteq 1 .. slots
  /\ \A p \in acknowledged : p.chunks \subseteq 1 .. slots

OfSlot(x, s) ==
  /\ x.frame = s.frame /\ x.block = s.block /\ x.limit = s.limit
  /\ x.bytes = s.symbol + Overhead /\ x.index < s.sent

OneSlot(x, y) ==
  x.frame = y.frame /\ x.block = y.block /\ x.limit = y.limit /\ x.bytes = y.bytes

\* The packets of a slot are alike, and like it while it is on its way.
Alike ==
  /\ \A x \in wire : x.limit # NoLimit => x.bytes <= x.limit
  /\ \A c \in Caller, x \in wire : Busy(c) /\ x.id = slot[c].id => OfSlot(x, slot[c])
  /\ \A x, y \in wire : x.id = y.id => OneSlot(x, y)

\* A chunk of a raw request is a slot of its own caller, which has no limit and does
\* not go to the relay; a request that was acknowledged has no slot on its way.
Chunks ==
  /\ \A c, d \in Caller : Busy(c) /\ slot[c].id \in post[d].chunks =>
       c = d /\ slot[c].at # "relay" /\ slot[c].limit = NoLimit /\ slot[c].part = NoPart
  /\ \A c \in Caller, p \in acknowledged : Busy(c) => slot[c].id \notin p.chunks

LEMMA IdsStep == ASSUME Typed, Ids, NEW c \in Caller, Sound(c) PROVE Ids'
<1> USE DEF Ids, Busy
<1>1. Alone(c) /\ Typed' /\ slots \in Nat
  BY Constants DEF Sound, Typed
<1>2. CASE Begins(c)
  <2>1. /\ slots' = slots + 1 /\ wire' = wire /\ acknowledged' = acknowledged
        /\ slot[c].at = "idle"
        /\ slot'[c].at # "idle" => slot'[c].id = slots + 1
        /\ \/ post'[c] \in {NoPost, post[c]}
           \/ post'[c] = [post[c] EXCEPT !.chunks = @ \cup {slots + 1}]
    BY <1>2 DEF Begins
  <2>2. post'[c].chunks \subseteq post[c].chunks \cup {slots + 1}
    BY <2>1, SlotFacts DEF NoPost, RawPost
  <2>3. 1 .. slots \subseteq 1 .. slots' /\ slots + 1 \in 1 .. slots' /\ slots + 1 \notin 1 .. slots
    BY <1>1, <2>1
  <2>4. \A d \in Caller : Busy(d)' => slot'[d].id \in 1 .. slots'
    BY <1>1, <2>1, <2>3 DEF Alone
  <2>5. \A d, e \in Caller : Busy(d)' /\ Busy(e)' /\ slot'[d].id = slot'[e].id => d = e
    BY <1>1, <2>1, <2>3 DEF Alone
  <2>6. \A d \in Caller : post'[d].chunks \subseteq 1 .. slots'
    BY <1>1, <2>2, <2>3 DEF Alone
  <2>7. QED
    BY <2>1, <2>3, <2>4, <2>5, <2>6
<1>3. CASE GoesOn(c) \/ Sends(c) \/ Completes(c) \/ Drops(c) \/ Acknowledges(c)
  <2>1. /\ slots' = slots
        /\ slot'[c].at # "idle" => slot[c].at # "idle" /\ slot'[c].id = slot[c].id
    BY <1>3 DEF GoesOn, Sends, Completes, Drops, Acknowledges, KeepsSlot
  <2>2. post'[c].chunks \in {{}, post[c].chunks}
    BY <1>3, SlotFacts DEF GoesOn, Sends, Completes, Drops, Acknowledges, NoPost, RawPost
  <2>3. \A x \in wire' : x.id \in 1 .. slots
    BY <1>3 DEF GoesOn, Sends, Completes, Drops, Acknowledges
  <2>4. acknowledged' \subseteq acknowledged \cup {post[c]}
    BY <1>3 DEF GoesOn, Sends, Completes, Drops, Acknowledges
  <2>5. \A d \in Caller : Busy(d)' => Busy(d) /\ slot'[d].id = slot[d].id
    BY <1>1, <2>1 DEF Alone
  <2>6. \A d \in Caller : post'[d].chunks \subseteq 1 .. slots'
    BY <1>1, <2>1, <2>2 DEF Alone
  <2>7. QED
    BY <2>1, <2>3, <2>4, <2>5, <2>6
<1>4. QED
  BY <1>2, <1>3 DEF Sound, Effect

LEMMA AlikeStep == ASSUME Typed, Ids, Alike, NEW c \in Caller, Sound(c) PROVE Alike'
<1> USE DEF Alike, Busy
<1>1. Alone(c) /\ slots \in Nat
  BY Constants DEF Sound, Typed
<1>2. CASE Begins(c)
  <2>1. wire' = wire /\ (slot'[c].at # "idle" => slot'[c].id = slots + 1)
    BY <1>2 DEF Begins
  <2>2. \A x \in wire : x.id # slots + 1
    BY <1>1 DEF Ids
  <2>3. \A d \in Caller, x \in wire : Busy(d)' /\ x.id = slot'[d].id => OfSlot(x, slot'[d])
    BY <1>1, <2>1, <2>2 DEF Alone
  <2>4. QED
    BY <2>1, <2>3
<1>3. CASE GoesOn(c)
  <2>1. wire' = wire /\ slot[c].at # "idle" /\ slot'[c].id = slot[c].id /\ slot[c].sent = 0
    BY <1>3 DEF GoesOn, KeepsSlot
  <2>2. \A x \in wire : x.id # slot[c].id
    <3>1. SUFFICES ASSUME NEW x \in wire, x.id = slot[c].id PROVE FALSE
      OBVIOUS
    <3>2. x.index < 0 /\ x.index \in Nat
      BY <2>1, <3>1 DEF OfSlot, Typed, Datagram
    <3>3. QED
      BY <3>2
  <2>3. \A d \in Caller, x \in wire : Busy(d)' /\ x.id = slot'[d].id => OfSlot(x, slot'[d])
    BY <1>1, <2>1, <2>2 DEF Alone
  <2>4. QED
    BY <2>1, <2>3
<1>4. CASE Sends(c)
  <2>1. PICK x \in Datagram :
          /\ wire' = wire \cup {x} /\ x.id = slot[c].id /\ OfSlot(x, slot'[c])
          /\ x.frame = slot[c].frame /\ x.block = slot[c].block /\ x.limit = slot[c].limit
          /\ x.bytes = slot[c].symbol + Overhead
    <3> DEFINE x == [id |-> slot[c].id, frame |-> slot[c].frame, block |-> slot[c].block,
                     index |-> slot[c].sent,
                     packet |-> (slot[c].first + slot[c].sent) % IdSpace,
                     bytes |-> slot[c].symbol + Overhead, limit |-> slot[c].limit]
    <3>1. wire' = wire \cup {x}
      BY <1>4 DEF Sends
    <3>2. x \in Datagram
      BY <3>1 DEF Sound, Typed
    <3>3. OfSlot(x, slot'[c])
      BY <1>4, SlotFacts DEF Sends, KeepsSlot, OfSlot, Slot
    <3>4. QED
      BY <3>1, <3>2, <3>3
  <2>2. /\ slot[c].at = "send" /\ slot'[c].id = slot[c].id /\ KeepsSlot(slot[c], slot'[c])
        /\ slot'[c].block = slot[c].block /\ slot'[c].sent = slot[c].sent + 1
    BY <1>4 DEF Sends, KeepsSlot
  <2>3. x.limit # NoLimit => x.bytes <= x.limit
    BY <2>1, <2>2, SlotFacts DEF Shape
  <2>4. \A y \in wire : y.id = x.id => OfSlot(y, slot[c])
    BY <2>1, <2>2
  <2>5. \A y \in wire : y.id = x.id => OneSlot(x, y) /\ OneSlot(y, x)
    BY <2>1, <2>4 DEF OfSlot, OneSlot
  <2>6. \A y \in wire : y.id = x.id => OfSlot(y, slot'[c])
    <3>1. SUFFICES ASSUME NEW y \in wire, y.id = x.id PROVE OfSlot(y, slot'[c])
      OBVIOUS
    <3>2. y.index \in Nat /\ slot[c].sent \in Nat
      BY SlotFacts DEF Typed, Datagram, Slot
    <3>3. y.index < slot'[c].sent
      BY <2>2, <2>4, <3>1, <3>2 DEF OfSlot
    <3>4. QED
      BY <2>2, <2>4, <3>1, <3>3 DEF OfSlot, KeepsSlot
  <2>7. \A d \in Caller \ {c} : Busy(d) => slot[d].id # x.id
    BY <2>1, <2>2 DEF Ids
  <2>8. \A d \in Caller, y \in wire' : Busy(d)' /\ y.id = slot'[d].id => OfSlot(y, slot'[d])
    <3>1. SUFFICES ASSUME NEW d \in Caller, NEW y \in wire', Busy(d)', y.id = slot'[d].id
                   PROVE  OfSlot(y, slot'[d])
      OBVIOUS
    <3>2. CASE d = c
      BY <2>1, <2>2, <2>6, <3>1, <3>2
    <3>3. CASE d # c
      BY <1>1, <2>1, <2>7, <3>1, <3>3 DEF Alone
    <3>4. QED
      BY <3>2, <3>3
  <2>9. \A y, z \in wire' : y.id = z.id => OneSlot(y, z)
    BY <2>1, <2>5 DEF OneSlot
  <2>10. QED
    BY <2>1, <2>3, <2>8, <2>9
<1>5. CASE Completes(c) \/ Drops(c) \/ Acknowledges(c)
  <2>1. /\ wire' = wire
        /\ slot'[c].at # "idle" =>
             /\ slot[c].at # "idle" /\ KeepsSlot(slot[c], slot'[c])
             /\ slot'[c].block = slot[c].block /\ slot'[c].sent = slot[c].sent
    BY <1>5 DEF Completes, Drops, Acknowledges
  <2>2. \A d \in Caller, x \in wire : Busy(d)' /\ x.id = slot'[d].id => OfSlot(x, slot'[d])
    BY <1>1, <2>1 DEF Alone, KeepsSlot, OfSlot
  <2>3. QED
    BY <2>1, <2>2
<1>6. QED
  BY <1>2, <1>3, <1>4, <1>5 DEF Sound, Effect

LEMMA ChunksStep == ASSUME Typed, Ids, Chunks, NEW c \in Caller, Sound(c) PROVE Chunks'
<1> USE DEF Chunks, Busy
<1>1. Alone(c) /\ slots \in Nat
  BY Constants DEF Sound, Typed
<1>2. CASE Begins(c)
  <2>1. /\ wire' = wire /\ acknowledged' = acknowledged /\ slot[c].at = "idle"
        /\ slot'[c].at # "idle" => slot'[c].id = slots + 1
    BY <1>2 DEF Begins
  <2>2. \A d \in Caller : slots + 1 \notin post[d].chunks
    BY <1>1 DEF Ids
  <2>3. \A p \in acknowledged : slots + 1 \notin p.chunks
    BY <1>1 DEF Ids
  <2>4. \A d \in Caller : Busy(d) => slot[d].id # slots + 1
    BY <1>1 DEF Ids
  <2>5. CASE post'[c] \in {NoPost, post[c]}
    <3>1. \A d \in Caller : post'[d].chunks \subseteq post[d].chunks
      BY <1>1, <2>5 DEF Alone, NoPost
    <3>2. QED
      BY <1>1, <2>1, <2>2, <2>3, <3>1 DEF Alone
  <2>6. CASE /\ post'[c] = [post[c] EXCEPT !.chunks = @ \cup {slots + 1}]
             /\ slot'[c].at = "block" /\ slot'[c].limit = NoLimit /\ slot'[c].part = NoPart
    <3>1. post'[c].chunks = post[c].chunks \cup {slots + 1}
      BY <2>6, SlotFacts DEF RawPost
    <3>2. \A d \in Caller \ {c} : post'[d] = post[d] /\ slot'[d] = slot[d]
      BY <1>1 DEF Alone
    <3>3. \A d, e \in Caller : Busy(d)' /\ slot'[d].id \in post'[e].chunks =>
            d = e /\ slot'[d].at # "relay" /\ slot'[d].limit = NoLimit /\ slot'[d].part = NoPart
      <4>1. SUFFICES ASSUME NEW d \in Caller, NEW e \in Caller, Busy(d)',
                            slot'[d].id \in post'[e].chunks
                     PROVE  /\ d = e /\ slot'[d].at # "relay"
                            /\ slot'[d].limit = NoLimit /\ slot'[d].part = NoPart
        OBVIOUS
      <4>2. CASE d = c
        BY <2>1, <2>2, <2>6, <3>2, <4>1, <4>2
      <4>3. CASE d # c
        <5>1. slot[d].id \in post[e].chunks
          BY <2>4, <3>1, <3>2, <4>1, <4>3
        <5>2. QED
          BY <3>2, <4>1, <4>3, <5>1
      <4>4. QED
        BY <4>2, <4>3
    <3>4. QED
      BY <2>1, <2>3, <3>2, <3>3
  <2>7. QED
    BY <1>2, <2>5, <2>6, <2>1, <2>2, <2>3 DEF Begins
<1>3. CASE GoesOn(c) \/ Sends(c) \/ Drops(c) \/ Completes(c)
  <2>1. acknowledged' = acknowledged /\ slot[c].at # "idle"
    BY <1>3 DEF GoesOn, Sends, Drops, Completes, Busy
  <2>2. post'[c].chunks \in {{}, post[c].chunks}
    BY <1>3, SlotFacts DEF GoesOn, Sends, Drops, Completes, NoPost, RawPost
  <2>3. \A d \in Caller : post'[d].chunks \subseteq post[d].chunks
    BY <1>1, <2>2 DEF Alone
  <2>4. slot'[c].at # "idle" =>
          /\ KeepsSlot(slot[c], slot'[c])
          /\ slot'[c].at = "relay" => slot[c].part # NoPart
    BY <1>3 DEF GoesOn, Sends, Drops, Completes
  <2>5. QED
    BY <1>1, <2>1, <2>3, <2>4 DEF Alone, KeepsSlot
<1>4. CASE Acknowledges(c)
  <2>1. /\ slot[c].at = "idle" /\ slot'[c].at = "idle" /\ post'[c].chunks = {}
        /\ acknowledged' = acknowledged \cup {post[c]}
    BY <1>4 DEF Acknowledges, NoPost
  <2>2. \A d \in Caller : Busy(d)' => d # c /\ slot'[d] = slot[d] /\ Busy(d)
    BY <1>1, <2>1 DEF Alone
  <2>3. \A d \in Caller : post'[d].chunks \subseteq post[d].chunks
    BY <1>1, <2>1 DEF Alone
  <2>4. \A d \in Caller, p \in acknowledged' : Busy(d)' => slot'[d].id \notin p.chunks
    BY <2>1, <2>2
  <2>5. QED
    BY <2>2, <2>3, <2>4
<1>5. QED
  BY <1>2, <1>3, <1>4 DEF Sound, Effect

-----------------------------------------------------------------------------
\* How many packets of a slot, and of a request, are on the wire.

Of(W, ids) == {x \in W : x.id \in ids}
Open(c) == IF Busy(c) THEN {slot[c].id} ELSE {}

Counted ==
  /\ \A c \in Caller : Busy(c) => Cardinality(Of(wire, {slot[c].id})) = slot[c].sent
  /\ \A c \in Caller : post[c].datagrams = Cardinality(Of(wire, post[c].chunks \ Open(c)))
  /\ \A p \in acknowledged : p.datagrams = Cardinality(Of(wire, p.chunks))

LEMMA OfNone ==
  ASSUME NEW W, NEW ids, \A x \in W : x.id \notin ids
  PROVE  Cardinality(Of(W, ids)) = 0
<1>1. Of(W, ids) = {}
  BY DEF Of
<1>2. QED
  BY <1>1, FS_EmptySet

LEMMA OfApart ==
  ASSUME NEW W, IsFiniteSet(W), NEW S, NEW T, S \cap T = {}
  PROVE  Cardinality(Of(W, S \cup T)) = Cardinality(Of(W, S)) + Cardinality(Of(W, T))
<1>1. PICK A, B : A = Of(W, S) /\ B = Of(W, T)
  OBVIOUS
<1>2. A \subseteq W /\ B \subseteq W /\ A \cap B = {} /\ Of(W, S \cup T) = A \cup B
  BY <1>1 DEF Of
<1>3. IsFiniteSet(A) /\ IsFiniteSet(B)
  BY <1>2, FS_Subset
<1>4. Cardinality(A \cup B) = Cardinality(A) + Cardinality(B) - Cardinality(A \cap B)
  BY <1>3, FS_Union
<1>5. Cardinality(A \cap B) = 0 /\ Cardinality(A) \in Nat /\ Cardinality(B) \in Nat
  BY <1>2, <1>3, FS_EmptySet, FS_CardinalityType
<1>6. Cardinality(A \cup B) = Cardinality(A) + Cardinality(B)
  BY <1>4, <1>5
<1>7. QED
  BY <1>1, <1>2, <1>6

LEMMA OfMore ==
  ASSUME NEW W, IsFiniteSet(W), NEW x, x \notin W, NEW ids
  PROVE  /\ x.id \notin ids => Of(W \cup {x}, ids) = Of(W, ids)
         /\ x.id \in ids => Cardinality(Of(W \cup {x}, ids)) = Cardinality(Of(W, ids)) + 1
<1>1. CASE x.id \notin ids
  BY <1>1 DEF Of
<1>2. CASE x.id \in ids
  <2>1. PICK A : A = Of(W, ids)
    OBVIOUS
  <2>2. A \subseteq W /\ Of(W \cup {x}, ids) = A \cup {x} /\ x \notin A
    BY <1>2, <2>1 DEF Of
  <2>3. IsFiniteSet(A)
    BY <2>2, FS_Subset
  <2>4. Cardinality(A \cup {x}) = Cardinality(A) + 1
    BY <2>2, <2>3, FS_AddElement
  <2>5. QED
    BY <1>2, <2>1, <2>2, <2>4
<1>3. QED
  BY <1>1, <1>2

\* What a step without a packet must keep.
LEMMA CountedAgain ==
  ASSUME Typed, Counted, NEW c \in Caller, Alone(c), wire' = wire,
         Busy(c)' => Cardinality(Of(wire, {slot'[c].id})) = slot'[c].sent,
         post'[c].datagrams = Cardinality(Of(wire, post'[c].chunks \ Open(c)')),
         \A p \in acknowledged' \ acknowledged : p.datagrams = Cardinality(Of(wire, p.chunks))
  PROVE  Counted'
<1>1. \A d \in Caller \ {c} : slot'[d] = slot[d] /\ post'[d] = post[d]
  BY DEF Alone
<1>2. \A d \in Caller \ {c} : (Busy(d)' <=> Busy(d)) /\ Open(d)' = Open(d)
  BY <1>1 DEF Busy, Open
<1>3. \A d \in Caller : Busy(d)' => Cardinality(Of(wire', {slot'[d].id})) = slot'[d].sent
  BY <1>1, <1>2 DEF Counted
<1>4. \A d \in Caller :
        post'[d].datagrams = Cardinality(Of(wire', post'[d].chunks \ Open(d)'))
  BY <1>1, <1>2 DEF Counted
<1>5. \A p \in acknowledged' : p.datagrams = Cardinality(Of(wire', p.chunks))
  BY DEF Counted
<1>6. QED
  BY <1>3, <1>4, <1>5 DEF Counted

\* The rest of a step that keeps the request, or lets go of it.
LEMMA RequestKept ==
  ASSUME Typed, Counted, NEW c \in Caller, post'[c] = post[c],
         post[c].chunks \ Open(c)' = post[c].chunks \ Open(c)
  PROVE  post'[c].datagrams = Cardinality(Of(wire, post'[c].chunks \ Open(c)'))
BY DEF Counted

LEMMA RequestDropped ==
  ASSUME NEW c \in Caller, post'[c] = NoPost
  PROVE  post'[c].datagrams = Cardinality(Of(wire, post'[c].chunks \ Open(c)'))
<1>1. post'[c].datagrams = 0 /\ post'[c].chunks \ Open(c)' = {}
  BY DEF NoPost
<1>2. Cardinality(Of(wire, {})) = 0
  BY OfNone
<1>3. QED
  BY <1>1, <1>2

LEMMA CountedStep ==
  ASSUME Typed, Ids, Alike, Chunks, Counted, NEW c \in Caller, Sound(c)
  PROVE  Counted'
<1>1. Alone(c) /\ slots \in Nat /\ IsFiniteSet(wire)
  BY Constants DEF Sound, Typed
<1>2. CASE Begins(c)
  <2>1. /\ wire' = wire /\ acknowledged' = acknowledged /\ slot[c].at = "idle"
        /\ slot'[c].at # "idle" => slot'[c].id = slots + 1 /\ slot'[c].sent = 0
    BY <1>2 DEF Begins
  <2>2. slots + 1 \notin post[c].chunks /\ \A x \in wire : x.id \notin {slots + 1}
    BY <1>1 DEF Ids
  <2>3. Busy(c)' => Cardinality(Of(wire, {slot'[c].id})) = slot'[c].sent
    BY <2>1, <2>2, OfNone DEF Busy
  <2>4. Open(c) = {} /\ Open(c)' \subseteq {slots + 1}
    BY <2>1 DEF Open, Busy
  <2>5. CASE post'[c] = NoPost
    BY <1>1, <2>1, <2>3, <2>5, RequestDropped, CountedAgain
  <2>6. CASE post'[c] = post[c]
    <3>1. post[c].chunks \ Open(c)' = post[c].chunks \ Open(c)
      BY <2>2, <2>4
    <3>2. QED
      BY <1>1, <2>1, <2>3, <2>6, <3>1, RequestKept, CountedAgain
  <2>7. CASE /\ post'[c] = [post[c] EXCEPT !.chunks = @ \cup {slots + 1}]
             /\ slot'[c].at # "idle"
    <3>1. /\ post'[c].chunks = post[c].chunks \cup {slots + 1}
          /\ post'[c].datagrams = post[c].datagrams
      BY <2>7, SlotFacts DEF RawPost
    <3>2. Open(c)' = {slots + 1}
      BY <2>1, <2>7 DEF Open, Busy
    <3>3. post'[c].chunks \ Open(c)' = post[c].chunks \ Open(c)
      BY <2>2, <2>4, <3>1, <3>2
    <3>4. post'[c].datagrams = Cardinality(Of(wire, post'[c].chunks \ Open(c)'))
      BY <3>1, <3>3 DEF Counted
    <3>5. QED
      BY <1>1, <2>1, <2>3, <3>4, CountedAgain
  <2>8. QED
    BY <1>2, <2>5, <2>6, <2>7 DEF Begins
<1>3. CASE GoesOn(c)
  <2>1. /\ wire' = wire /\ acknowledged' = acknowledged /\ Busy(c) /\ Busy(c)'
        /\ slot'[c].id = slot[c].id /\ slot'[c].sent = slot[c].sent /\ post'[c] = post[c]
    BY <1>3 DEF GoesOn, KeepsSlot, Busy
  <2>2. Open(c)' = Open(c)
    BY <2>1 DEF Open
  <2>3. Cardinality(Of(wire, {slot'[c].id})) = slot'[c].sent
    BY <2>1 DEF Counted
  <2>4. QED
    BY <1>1, <2>1, <2>2, <2>3, RequestKept, CountedAgain
<1>4. CASE Completes(c)
  <2>1. /\ wire' = wire /\ acknowledged' = acknowledged /\ Busy(c)
        /\ Busy(c)' => /\ slot'[c].id = slot[c].id /\ slot'[c].sent = slot[c].sent
                       /\ slot[c].part # NoPart
    BY <1>4 DEF Completes, KeepsSlot, Busy
  <2>2. Busy(c)' => Cardinality(Of(wire, {slot'[c].id})) = slot'[c].sent
    BY <2>1 DEF Counted
  <2>3. CASE slot[c].id \notin post[c].chunks
    <3>1. post'[c] = post[c] /\ post[c].chunks \ Open(c)' = post[c].chunks \ Open(c)
      BY <1>4, <2>1, <2>3 DEF Completes, Open
    <3>2. QED
      BY <1>1, <2>1, <2>2, <3>1, RequestKept, CountedAgain
  <2>4. CASE slot[c].id \in post[c].chunks
    <3>1. ~Busy(c)' /\ Open(c)' = {} /\ Open(c) = {slot[c].id}
      BY <2>1, <2>4 DEF Chunks, Open
    <3>2. /\ post'[c].chunks = post[c].chunks
          /\ post'[c].datagrams = post[c].datagrams + slot[c].sent
      BY <1>4, <2>4, SlotFacts DEF Completes, RawPost
    <3>3. PICK S, T : S = post[c].chunks \ {slot[c].id} /\ T = {slot[c].id}
      OBVIOUS
    <3>4. S \cap T = {} /\ S \cup T = post[c].chunks
      BY <2>4, <3>3
    <3>5. Cardinality(Of(wire, S \cup T)) = Cardinality(Of(wire, S)) + Cardinality(Of(wire, T))
      BY <1>1, <3>4, OfApart
    <3>6. Cardinality(Of(wire, S)) = post[c].datagrams /\ Cardinality(Of(wire, T)) = slot[c].sent
      BY <2>1, <3>1, <3>3 DEF Counted
    <3>7. post'[c].datagrams = Cardinality(Of(wire, post'[c].chunks \ Open(c)'))
      BY <3>1, <3>2, <3>4, <3>5, <3>6
    <3>8. QED
      BY <1>1, <2>1, <2>2, <3>7, CountedAgain
  <2>5. QED
    BY <2>3, <2>4
<1>5. CASE Drops(c)
  <2>1. wire' = wire /\ acknowledged' = acknowledged /\ Busy(c) /\ ~Busy(c)'
    BY <1>5 DEF Drops, Busy
  <2>2. CASE post'[c] = NoPost
    BY <1>1, <2>1, <2>2, RequestDropped, CountedAgain
  <2>3. CASE post'[c] = post[c] /\ (slot[c].at = "relay" \/ slot[c].limit # NoLimit)
    <3>1. slot[c].id \notin post[c].chunks
      BY <2>1, <2>3 DEF Chunks
    <3>2. post[c].chunks \ Open(c)' = post[c].chunks \ Open(c)
      BY <2>1, <3>1 DEF Open
    <3>3. QED
      BY <1>1, <2>1, <2>3, <3>2, RequestKept, CountedAgain
  <2>4. QED
    BY <1>5, <2>2, <2>3 DEF Drops
<1>6. CASE Acknowledges(c)
  <2>1. /\ wire' = wire /\ acknowledged' = acknowledged \cup {post[c]} /\ post'[c] = NoPost
        /\ ~Busy(c) /\ ~Busy(c)'
    BY <1>6 DEF Acknowledges, Busy
  <2>2. post[c].chunks \ Open(c) = post[c].chunks
    BY <2>1 DEF Open
  <2>3. post[c].datagrams = Cardinality(Of(wire, post[c].chunks))
    BY <2>2 DEF Counted
  <2>4. QED
    BY <1>1, <2>1, <2>3, RequestDropped, CountedAgain
<1>7. CASE Sends(c)
  <2>1. PICK x \in Datagram : /\ wire' = wire \cup {x} /\ x.id = slot[c].id
                              /\ x.index = slot[c].sent
    <3> DEFINE x == [id |-> slot[c].id, frame |-> slot[c].frame, block |-> slot[c].block,
                     index |-> slot[c].sent,
                     packet |-> (slot[c].first + slot[c].sent) % IdSpace,
                     bytes |-> slot[c].symbol + Overhead, limit |-> slot[c].limit]
    <3>1. wire' = wire \cup {x}
      BY <1>7 DEF Sends
    <3>2. x \in Datagram
      BY <3>1 DEF Sound, Typed
    <3>3. QED
      BY <3>1, <3>2
  <2>2. /\ Busy(c) /\ Busy(c)' /\ slot'[c].id = slot[c].id /\ slot'[c].sent = slot[c].sent + 1
        /\ post'[c] = post[c] /\ acknowledged' = acknowledged
    BY <1>7 DEF Sends, KeepsSlot, Busy
  <2>3. x \notin wire
    <3>1. SUFFICES ASSUME x \in wire PROVE FALSE
      OBVIOUS
    <3>2. x.index < slot[c].sent
      BY <2>1, <2>2, <3>1 DEF Alike, OfSlot
    <3>3. QED
      BY <2>1, <3>2, SlotFacts DEF Slot
  <2>4. \A d \in Caller : /\ post'[d] = post[d] /\ Open(d)' = Open(d)
                          /\ (Busy(d)' <=> Busy(d)) /\ slot'[d].id = slot[d].id
                          /\ d # c => slot'[d].sent = slot[d].sent
    BY <1>1, <2>2 DEF Alone, Open, Busy
  <2>5. \A d \in Caller : Busy(d)' => Cardinality(Of(wire', {slot'[d].id})) = slot'[d].sent
    <3>1. SUFFICES ASSUME NEW d \in Caller, Busy(d)
                   PROVE  Cardinality(Of(wire', {slot[d].id})) = slot'[d].sent
      BY <2>4
    <3>2. PICK ids : ids = {slot[d].id}
      OBVIOUS
    <3>3. Cardinality(Of(wire, ids)) = slot[d].sent
      BY <3>1, <3>2 DEF Counted
    <3>4. CASE d = c
      BY <1>1, <2>1, <2>2, <2>3, <3>2, <3>3, <3>4, OfMore
    <3>5. CASE d # c
      <4>1. x.id \notin ids
        BY <2>1, <2>2, <3>1, <3>2, <3>5 DEF Ids
      <4>2. QED
        BY <1>1, <2>1, <2>3, <2>4, <3>2, <3>3, <3>5, <4>1, OfMore
    <3>6. QED
      BY <3>4, <3>5
  <2>6. \A d \in Caller :
          post'[d].datagrams = Cardinality(Of(wire', post'[d].chunks \ Open(d)'))
    <3>1. SUFFICES ASSUME NEW d \in Caller
                   PROVE  post[d].datagrams = Cardinality(Of(wire', post[d].chunks \ Open(d)))
      BY <2>4
    <3>2. PICK ids : ids = post[d].chunks \ Open(d)
      OBVIOUS
    <3>3. x.id \notin ids
      BY <2>1, <2>2, <3>2 DEF Chunks, Open
    <3>4. Of(wire', ids) = Of(wire, ids)
      BY <1>1, <2>1, <2>3, <3>3, OfMore
    <3>5. QED
      BY <3>2, <3>4 DEF Counted
  <2>7. \A p \in acknowledged : p.datagrams = Cardinality(Of(wire', p.chunks))
    <3>1. SUFFICES ASSUME NEW p \in acknowledged
                   PROVE  p.datagrams = Cardinality(Of(wire', p.chunks))
      OBVIOUS
    <3>2. x.id \notin p.chunks
      BY <2>1, <2>2 DEF Chunks
    <3>3. Of(wire', p.chunks) = Of(wire, p.chunks)
      BY <1>1, <2>1, <2>3, <3>2, OfMore
    <3>4. QED
      BY <3>3 DEF Counted
  <2>8. QED
    BY <2>2, <2>5, <2>6, <2>7 DEF Counted
<1>8. QED
  BY <1>2, <1>3, <1>4, <1>5, <1>6, <1>7 DEF Sound, Effect

-----------------------------------------------------------------------------
\* The frames of the media encoder, which numbers them itself.

SendsFrame(c) == slot[c].at = "send" /\ slot[c].frame

Frames ==
  /\ \A x \in wire : x.frame => x.block < nextFrame /\ x.packet = x.index % IdSpace
  /\ \A x, y \in wire : x.frame /\ y.frame /\ x.block = y.block => x.id = y.id
  /\ \A c \in Caller : SendsFrame(c) => slot[c].block < nextFrame
  /\ \A c, d \in Caller :
       SendsFrame(c) /\ SendsFrame(d) /\ slot[c].block = slot[d].block => c = d
  /\ \A c \in Caller, x \in wire :
       SendsFrame(c) /\ x.frame /\ x.block = slot[c].block => x.id = slot[c].id

LEMMA FramesStep ==
  ASSUME Typed, Frames, NEW c \in Caller, Sound(c), Kind(c)
  PROVE  Frames'
<1>1. Alone(c) /\ nextFrame \in Nat /\ \A x \in wire : x.block \in Nat
  BY DEF Sound, Typed, Datagram
<1>2. CASE TakesFrame(c)
  <2>1. /\ wire' = wire /\ nextFrame' = nextFrame + 1
        /\ SendsFrame(c)' /\ slot'[c].block = nextFrame
    BY <1>2 DEF TakesFrame, GoesOn, SendsFrame
  <2>2. \A d \in Caller \ {c} : slot'[d] = slot[d] /\ (SendsFrame(d)' <=> SendsFrame(d))
    BY <1>1 DEF Alone, SendsFrame
  <2>3. \A d \in Caller : slot[d].block \in Nat
    BY SlotFacts DEF Slot
  <2>4. \A x \in wire : x.frame => x.block < nextFrame' /\ x.block # nextFrame
    BY <1>1, <2>1 DEF Frames
  <2>5. \A d \in Caller \ {c} : SendsFrame(d) => slot[d].block < nextFrame'
                                                  /\ slot[d].block # nextFrame
    BY <1>1, <2>1, <2>3 DEF Frames
  <2>6. QED
    BY <1>1, <2>1, <2>2, <2>4, <2>5 DEF Frames
<1>3. CASE ToWire(c)
  <2>1. PICK x \in Datagram :
          /\ wire' = wire \cup {x} /\ x.id = slot[c].id /\ x.block = slot[c].block
          /\ x.frame = slot[c].frame /\ x.index = slot[c].sent
          /\ x.packet = (slot[c].first + slot[c].sent) % IdSpace
    <3> DEFINE x == [id |-> slot[c].id, frame |-> slot[c].frame, block |-> slot[c].block,
                     index |-> slot[c].sent,
                     packet |-> (slot[c].first + slot[c].sent) % IdSpace,
                     bytes |-> slot[c].symbol + Overhead, limit |-> slot[c].limit]
    <3>1. wire' = wire \cup {x}
      BY <1>3 DEF ToWire, Sends
    <3>2. x \in Datagram
      BY <3>1 DEF Sound, Typed
    <3>3. QED
      BY <3>1, <3>2
  <2>2. /\ slot[c].at = "send" /\ slot'[c].at = "send" /\ slot'[c].frame = slot[c].frame
        /\ slot'[c].id = slot[c].id /\ slot'[c].block = slot[c].block /\ nextFrame' = nextFrame
    BY <1>3 DEF ToWire, Sends, KeepsSlot, CountersStay
  <2>3. x.frame => SendsFrame(c) /\ x.packet = x.index % IdSpace
    <3>1. slot[c].sent \in Nat /\ (slot[c].frame => slot[c].first = 0)
      BY SlotFacts DEF Slot, Shape
    <3>2. slot[c].frame => slot[c].first + slot[c].sent = slot[c].sent
      BY <3>1
    <3>3. QED
      BY <2>1, <2>2, <3>2 DEF SendsFrame
  <2>4. \A d \in Caller : /\ SendsFrame(d)' <=> SendsFrame(d)
                          /\ slot'[d].block = slot[d].block /\ slot'[d].id = slot[d].id
    BY <1>1, <2>2 DEF Alone, SendsFrame
  <2>5. \A y \in wire' : y.frame => y.block < nextFrame /\ y.packet = y.index % IdSpace
    BY <2>1, <2>3 DEF Frames
  <2>6. \A y, z \in wire' : y.frame /\ z.frame /\ y.block = z.block => y.id = z.id
    BY <2>1, <2>3 DEF Frames
  <2>7. \A d \in Caller, y \in wire' :
          SendsFrame(d) /\ y.frame /\ y.block = slot[d].block => y.id = slot[d].id
    BY <2>1, <2>3 DEF Frames
  <2>8. QED
    BY <2>2, <2>4, <2>5, <2>6, <2>7 DEF Frames
<1>4. CASE TakesBlock(c) \/ TakesPackets(c) \/ ToSocket(c) \/ Elsewhere(c)
  <2>1. wire' = wire /\ nextFrame' = nextFrame /\ ~SendsFrame(c)'
    BY <1>4 DEF TakesBlock, TakesPackets, ToSocket, Elsewhere, GoesOn, Begins, SendsFrame,
                CountersStay
  <2>2. \A d \in Caller : SendsFrame(d)' => SendsFrame(d) /\ slot'[d] = slot[d]
    BY <1>1, <2>1 DEF Alone, SendsFrame
  <2>3. QED
    BY <2>1, <2>2 DEF Frames
<1>5. QED
  BY <1>2, <1>3, <1>4 DEF Kind

-----------------------------------------------------------------------------
\* The ledger of a counter: where each slot's numbers begin, counted from the start
\* without wrapping, and how many it took.  No variable of the program holds it.

LedgerSet == [base : Nat, of : SUBSET Nat, at : [Nat -> Nat], width : [Nat -> Nat],
              total : Nat]

Ledger(L, counter, most) ==
  /\ L \in LedgerSet /\ IsFiniteSet(L.of)
  /\ \A i \in L.of : L.at[i] + L.width[i] <= L.total
  /\ \A i, j \in L.of : i # j =>
       L.at[i] + L.width[i] <= L.at[j] \/ L.at[j] + L.width[j] <= L.at[i]
  /\ counter = (L.base + L.total) % IdSpace
  /\ L.total <= Cardinality(L.of) * most

Entered(L, i, w) ==
  [base |-> L.base, of |-> L.of \cup {i}, at |-> [L.at EXCEPT ![i] = L.total],
   width |-> [L.width EXCEPT ![i] = w], total |-> L.total + w]

LEMMA NumbersTaken ==
  ASSUME NEW L, NEW counter, NEW most \in Nat, Ledger(L, counter, most),
         NEW i \in Nat, i \notin L.of, NEW w \in Nat, w <= most
  PROVE  Ledger(Entered(L, i, w), (counter + w) % IdSpace, most)
<1> DEFINE E == Entered(L, i, w)
<1>1. /\ L.base \in Nat /\ L.of \in SUBSET Nat /\ L.at \in [Nat -> Nat]
      /\ L.width \in [Nat -> Nat] /\ L.total \in Nat /\ IsFiniteSet(L.of)
  BY DEF Ledger, LedgerSet
<1>2. /\ E.base = L.base /\ E.of = L.of \cup {i} /\ E.total = L.total + w
      /\ E.at[i] = L.total /\ E.width[i] = w
      /\ \A j \in L.of : E.at[j] = L.at[j] /\ E.width[j] = L.width[j]
  BY <1>1 DEF Entered
<1>3. E \in LedgerSet
  BY <1>1 DEF Entered, LedgerSet
<1>4. IsFiniteSet(E.of)
  BY <1>1, <1>2, FS_AddElement
<1>5. \A j \in L.of : /\ L.at[j] \in Nat /\ L.width[j] \in Nat
                      /\ L.at[j] + L.width[j] <= L.total
  BY <1>1 DEF Ledger
<1> HIDE DEF E
<1>6. \A j \in E.of : E.at[j] + E.width[j] <= E.total
  BY <1>1, <1>2, <1>5
<1>7. \A j, k \in E.of : j # k =>
        E.at[j] + E.width[j] <= E.at[k] \/ E.at[k] + E.width[k] <= E.at[j]
  <2>1. \A j, k \in L.of : j # k =>
          E.at[j] + E.width[j] <= E.at[k] \/ E.at[k] + E.width[k] <= E.at[j]
    BY <1>2 DEF Ledger
  <2>2. \A j \in L.of : E.at[j] + E.width[j] <= E.at[i]
    BY <1>2, <1>5
  <2>3. QED
    BY <1>2, <2>1, <2>2
<1>8. (counter + w) % IdSpace = (E.base + E.total) % IdSpace
  <2>1. PICK a \in Int : a = L.base + L.total
    BY <1>1
  <2>2. ((a % IdSpace) + w) % IdSpace = (a + w) % IdSpace
    <3>1. PICK n \in Nat \ {0}, b \in Int : n = IdSpace /\ b = w
      BY Constants
    <3>2. ((a % n) + b) % n = (a + b) % n
      BY RemainderOfSum
    <3>3. QED
      BY <3>1, <3>2
  <2>3. counter = a % IdSpace
    BY <2>1 DEF Ledger
  <2>4. a + w = E.base + E.total
    BY <1>1, <1>2, <2>1
  <2>5. QED
    BY <2>2, <2>3, <2>4
<1>9. E.total <= Cardinality(E.of) * most
  <2>1. PICK n \in Nat : n = Cardinality(L.of)
    BY <1>1, FS_CardinalityType
  <2>2. Cardinality(E.of) = n + 1
    <3>1. PICK D : D = L.of
      OBVIOUS
    <3>2. IsFiniteSet(D) /\ i \notin D
      BY <1>1, <3>1
    <3>3. Cardinality(D \cup {i}) = Cardinality(D) + 1
      BY <3>2, FS_AddElement
    <3>4. QED
      BY <1>2, <2>1, <3>1, <3>3
  <2>3. L.total <= n * most
    BY <2>1 DEF Ledger
  <2>4. (n + 1) * most = n * most + most
    OBVIOUS
  <2>5. QED
    BY <1>1, <1>2, <2>2, <2>3, <2>4
<1>10. QED
  BY <1>3, <1>4, <1>6, <1>7, <1>8, <1>9 DEF Ledger, E

\* With one entry for each of so many slots, the numbers do not come round again.
LEMMA LedgerBounded ==
  ASSUME NEW L, NEW counter, NEW most \in Nat, Ledger(L, counter, most),
         NEW m \in Nat, m <= MaxForwarded, L.of \subseteq 1 .. m,
         MaxForwarded * most <= IdSpace
  PROVE  L.total <= IdSpace
<1>1. PICK n \in Nat : n = Cardinality(L.of)
  BY FS_CardinalityType DEF Ledger
<1>2. IsFiniteSet(1 .. m) /\ Cardinality(1 .. m) = m
  BY FS_Interval
<1>3. n <= m
  BY <1>1, <1>2, FS_Subset
<1>4. n <= MaxForwarded
  BY <1>3, Constants
<1>5. n * most <= MaxForwarded * most
  BY <1>4, Constants
<1>6. L.total <= n * most /\ L.total \in Nat
  BY <1>1 DEF Ledger, LedgerSet
<1>7. QED
  BY <1>5, <1>6, Constants

-----------------------------------------------------------------------------
\* Every slot past a reservation, and every packet on the wire, is entered in the
\* ledgers of the two counters, B of the blocks and P of the packets.

BookedSlot(B, P, s) ==
  /\ s.at = "block" => s.id \notin B.of
  /\ s.at \in {"block", "packets"} => s.id \notin P.of
  /\ s.at \in {"packets", "encode", "send"} /\ ~s.frame =>
       s.id \in B.of /\ s.block = (B.base + B.at[s.id]) % IdSpace
  /\ s.at \in {"encode", "send"} /\ ~s.frame =>
       /\ s.id \in P.of /\ s.first = (P.base + P.at[s.id]) % IdSpace
       /\ P.width[s.id] = PacketCount(s.size, s.symbol)

BookedPacket(B, P, x) ==
  /\ x.id \in B.of /\ x.block = (B.base + B.at[x.id]) % IdSpace
  /\ x.id \in P.of /\ x.index < P.width[x.id]
  /\ x.packet = (P.base + P.at[x.id] + x.index) % IdSpace

Booked(B, P) ==
  /\ Ledger(B, nextBlock, 1) /\ Ledger(P, nextPacket, MaxDatagrams)
  /\ \A i \in B.of : B.width[i] = 1
  /\ B.of \subseteq 1 .. slots /\ P.of \subseteq 1 .. slots
  /\ \A c \in Caller : BookedSlot(B, P, slot[c])
  /\ \A x \in wire : ~x.frame => BookedPacket(B, P, x)

LEMMA EntryKeepsOthers ==
  ASSUME NEW L \in LedgerSet, NEW i \in Nat, NEW w
  PROVE  /\ Entered(L, i, w).base = L.base /\ Entered(L, i, w).of = L.of \cup {i}
         /\ Entered(L, i, w).at[i] = L.total /\ Entered(L, i, w).width[i] = w
         /\ \A j \in L.of \ {i} : /\ Entered(L, i, w).at[j] = L.at[j]
                                  /\ Entered(L, i, w).width[j] = L.width[j]
BY DEF Entered, LedgerSet

LEMMA BooksStay ==
  ASSUME Typed, Ids, NEW c \in Caller, Sound(c),
         ToSocket(c) \/ TakesFrame(c) \/ ToWire(c) \/ Elsewhere(c),
         NEW B, NEW P, Booked(B, P)
  PROVE  Booked(B, P)'
<1>1. /\ Alone(c) /\ slots \in Nat
      /\ nextBlock' = nextBlock /\ nextPacket' = nextPacket /\ slots' \in {slots, slots + 1}
  BY Constants DEF Sound, Typed, ToSocket, TakesFrame, ToWire, Elsewhere, CountersStay, GoesOn,
                   Sends
<1>2. BookedSlot(B, P, slot[c]) /\ B \in LedgerSet /\ P \in LedgerSet
  BY DEF Booked, Ledger
<1>3. B.of \subseteq 1 .. slots' /\ P.of \subseteq 1 .. slots'
  BY <1>1 DEF Booked
<1>4. BookedSlot(B, P, slot'[c])
  <2>1. CASE ToSocket(c)
    BY <1>2, <2>1 DEF ToSocket, GoesOn, KeepsSlot, BookedSlot
  <2>2. CASE TakesFrame(c)
    BY <2>2 DEF TakesFrame, BookedSlot
  <2>3. CASE ToWire(c)
    BY <1>2, <2>3 DEF ToWire, Sends, KeepsSlot, BookedSlot
  <2>4. CASE slot'[c].at \in {"idle", "relay"}
    BY <2>4 DEF BookedSlot
  <2>5. CASE Begins(c)
    <3>1. CASE slot'[c].at = "idle"
      BY <3>1 DEF BookedSlot
    <3>2. CASE slot'[c].at \in {"block", "frame", "relay"} /\ slot'[c].id = slots + 1
      <4>1. slots + 1 \notin B.of /\ slots + 1 \notin P.of
        BY <1>1 DEF Booked
      <4>2. QED
        BY <3>2, <4>1 DEF BookedSlot
    <3>3. QED
      BY <2>5, <3>1, <3>2 DEF Begins
  <2>6. QED
    BY <2>1, <2>2, <2>3, <2>4, <2>5 DEF Elsewhere
<1>5. \A d \in Caller : BookedSlot(B, P, slot'[d])
  BY <1>1, <1>4 DEF Booked, Alone
<1>6. \A x \in wire' : ~x.frame => BookedPacket(B, P, x)
  <2>1. CASE wire' = wire
    BY <2>1 DEF Booked
  <2>2. CASE ToWire(c)
    <3>1. PICK x \in Datagram :
            /\ wire' = wire \cup {x} /\ x.id = slot[c].id /\ x.block = slot[c].block
            /\ x.frame = slot[c].frame /\ x.index = slot[c].sent
            /\ x.packet = (slot[c].first + slot[c].sent) % IdSpace
      <4> DEFINE x == [id |-> slot[c].id, frame |-> slot[c].frame, block |-> slot[c].block,
                       index |-> slot[c].sent,
                       packet |-> (slot[c].first + slot[c].sent) % IdSpace,
                       bytes |-> slot[c].symbol + Overhead, limit |-> slot[c].limit]
      <4>1. wire' = wire \cup {x}
        BY <2>2 DEF ToWire, Sends
      <4>2. x \in Datagram
        BY <4>1 DEF Sound, Typed
      <4>3. QED
        BY <4>1, <4>2
    <3>2. ASSUME ~x.frame PROVE BookedPacket(B, P, x)
      <4>1. /\ x.id \in B.of /\ x.block = (B.base + B.at[x.id]) % IdSpace
            /\ x.id \in P.of /\ slot[c].first = (P.base + P.at[x.id]) % IdSpace
            /\ x.index < P.width[x.id]
        BY <1>2, <2>2, <3>1, <3>2 DEF ToWire, Sends, BookedSlot
      <4>2. PICK n \in Nat \ {0}, a \in Int, b \in Int :
              n = IdSpace /\ a = P.base + P.at[x.id] /\ b = x.index
        <5>1. P.base \in Nat /\ P.at[x.id] \in Nat
          BY <1>2, <3>1 DEF LedgerSet, Datagram
        <5>2. QED
          BY <3>1, <5>1, Constants DEF Datagram
      <4>3. ((a % n) + b) % n = (a + b) % n
        BY RemainderOfSum
      <4>4. QED
        BY <3>1, <4>1, <4>2, <4>3 DEF BookedPacket
    <3>3. QED
      BY <3>1, <3>2 DEF Booked
  <2>3. QED
    BY <2>1, <2>2 DEF ToSocket, TakesFrame, Elsewhere, GoesOn
<1>7. QED
  BY <1>1, <1>3, <1>5, <1>6 DEF Booked

LEMMA BlockBooked ==
  ASSUME Typed, Ids, NEW c \in Caller, Sound(c), TakesBlock(c), NEW B, NEW P, Booked(B, P)
  PROVE  \E E \in LedgerSet : Booked(E, P)'
<1>1. /\ Alone(c) /\ Busy(c) /\ slots' = slots /\ wire' = wire /\ slot[c].at = "block"
      /\ nextBlock' = (nextBlock + 1) % IdSpace /\ nextPacket' = nextPacket
      /\ slot'[c].at = "packets" /\ ~slot'[c].frame /\ KeepsSlot(slot[c], slot'[c])
      /\ slot'[c].block = nextBlock
  BY DEF Sound, TakesBlock, GoesOn
<1>2. PICK i \in Nat : i = slot[c].id /\ i \in 1 .. slots
  BY <1>1, SlotFacts DEF Ids, Slot
<1>3. /\ B \in LedgerSet /\ i \notin B.of /\ i \notin P.of /\ Ledger(B, nextBlock, 1)
      /\ nextBlock = (B.base + B.total) % IdSpace
  BY <1>1, <1>2 DEF Booked, BookedSlot, Ledger
<1>4. PICK n : n = nextBlock
  OBVIOUS
<1>5. PICK E : E = Entered(B, i, 1)
  OBVIOUS
<1>6. Ledger(E, (n + 1) % IdSpace, 1) /\ E \in LedgerSet
  BY <1>3, <1>4, <1>5, NumbersTaken DEF Ledger
<1>7. /\ E.base = B.base /\ E.of = B.of \cup {i} /\ E.at[i] = B.total /\ E.width[i] = 1
      /\ \A j \in B.of : E.at[j] = B.at[j] /\ E.width[j] = B.width[j]
  BY <1>3, <1>5, EntryKeepsOthers
<1>8. BookedSlot(E, P, slot'[c])
  BY <1>1, <1>2, <1>3, <1>7 DEF BookedSlot, KeepsSlot
<1>9. ASSUME NEW d \in Caller \ {c} PROVE BookedSlot(E, P, slot'[d])
  <2>1. slot'[d] = slot[d] /\ BookedSlot(B, P, slot[d])
    BY <1>1 DEF Alone, Booked
  <2>2. slot[d].at # "idle" => slot[d].id # i
    BY <1>1, <1>2 DEF Ids, Busy
  <2>3. QED
    BY <1>7, <2>1, <2>2 DEF BookedSlot
<1>10. \A x \in wire' : ~x.frame => BookedPacket(E, P, x)
  BY <1>1, <1>7 DEF Booked, BookedPacket
<1>11. Booked(E, P)'
  BY <1>1, <1>2, <1>4, <1>6, <1>7, <1>8, <1>9, <1>10 DEF Booked
<1>12. QED
  BY <1>6, <1>11

LEMMA PacketsBooked ==
  ASSUME Typed, Ids, NEW c \in Caller, Sound(c), TakesPackets(c), NEW B, NEW P, Booked(B, P)
  PROVE  \E E \in LedgerSet : Booked(B, E)'
<1>1. /\ Alone(c) /\ Busy(c) /\ slots' = slots /\ wire' = wire /\ slot[c].at = "packets"
      /\ nextPacket' = (nextPacket + PacketCount(slot[c].size, slot[c].symbol)) % IdSpace
      /\ nextBlock' = nextBlock
      /\ slot'[c].at = "encode" /\ ~slot'[c].frame /\ KeepsSlot(slot[c], slot'[c])
      /\ slot'[c].block = slot[c].block /\ slot'[c].first = nextPacket
  BY DEF Sound, TakesPackets, GoesOn
<1>2. PICK i \in Nat : i = slot[c].id /\ i \in 1 .. slots
  BY <1>1, SlotFacts DEF Ids, Slot
<1>3. PICK w \in Nat : w = PacketCount(slot[c].size, slot[c].symbol) /\ w <= MaxDatagrams
  <2>1. PICK size \in Nat, symbol \in Nat \ {0} : size = slot[c].size /\ symbol = slot[c].symbol
    BY <1>1, SlotFacts DEF Slot, Shape
  <2>2. PacketCount(size, symbol) \in Nat
    BY CountNatural
  <2>3. PacketCount(size, symbol) <= MaxDatagrams
    BY <1>1, <2>1, SlotFacts DEF Shape, KeepsSlot
  <2>4. QED
    BY <2>1, <2>2, <2>3
<1>4. /\ P \in LedgerSet /\ i \notin P.of /\ i \in B.of /\ Ledger(P, nextPacket, MaxDatagrams)
      /\ nextPacket = (P.base + P.total) % IdSpace
      /\ slot[c].block = (B.base + B.at[i]) % IdSpace
  BY <1>1, <1>2 DEF Booked, BookedSlot, Ledger, KeepsSlot
<1>5. PICK n : n = nextPacket
  OBVIOUS
<1>6. PICK E : E = Entered(P, i, w)
  OBVIOUS
<1>7. Ledger(E, (n + w) % IdSpace, MaxDatagrams) /\ E \in LedgerSet
  <2>1. PICK most \in Nat : most = MaxDatagrams
    BY Constants
  <2>2. Ledger(E, (n + w) % IdSpace, most)
    BY <1>3, <1>4, <1>5, <1>6, <2>1, NumbersTaken
  <2>3. QED
    BY <2>1, <2>2 DEF Ledger
<1>8. /\ E.base = P.base /\ E.of = P.of \cup {i} /\ E.at[i] = P.total /\ E.width[i] = w
      /\ \A j \in P.of : E.at[j] = P.at[j] /\ E.width[j] = P.width[j]
  BY <1>4, <1>6, EntryKeepsOthers
<1>9. BookedSlot(B, E, slot'[c])
  BY <1>1, <1>2, <1>3, <1>4, <1>8 DEF BookedSlot, KeepsSlot
<1>10. ASSUME NEW d \in Caller \ {c} PROVE BookedSlot(B, E, slot'[d])
  <2>1. slot'[d] = slot[d] /\ BookedSlot(B, P, slot[d])
    BY <1>1 DEF Alone, Booked
  <2>2. slot[d].at # "idle" => slot[d].id # i
    BY <1>1, <1>2 DEF Ids, Busy
  <2>3. QED
    BY <1>8, <2>1, <2>2 DEF BookedSlot
<1>11. \A x \in wire' : ~x.frame => BookedPacket(B, E, x)
  BY <1>1, <1>8 DEF Booked, BookedPacket
<1>12. Booked(B, E)'
  BY <1>1, <1>2, <1>3, <1>5, <1>7, <1>8, <1>9, <1>10, <1>11 DEF Booked
<1>13. QED
  BY <1>7, <1>12

-----------------------------------------------------------------------------
\* The inductive invariant.

ForwarderInv ==
  Typed /\ Ids /\ Alike /\ Chunks /\ Counted /\ Frames /\ \E B, P \in LedgerSet : Booked(B, P)

\* A counter before anything is taken from it.
NoEntries(start) ==
  [base |-> start, of |-> {}, at |-> [i \in Nat |-> 0], width |-> [i \in Nat |-> 0], total |-> 0]

LEMMA EmptyLedger ==
  ASSUME NEW start \in 0 .. IdSpace - 1, NEW most \in Nat
  PROVE  NoEntries(start) \in LedgerSet /\ Ledger(NoEntries(start), start, most)
<1>1. PICK n \in Nat \ {0}, a \in Nat : n = IdSpace /\ a = start /\ a < n
  BY Constants
<1>2. (a + 0) % n = a
  BY <1>1
<1>3. NoEntries(start) \in LedgerSet
  BY <1>1 DEF NoEntries, LedgerSet
<1>4. IsFiniteSet({}) /\ Cardinality({}) = 0
  BY FS_EmptySet
<1>5. start = (NoEntries(start).base + NoEntries(start).total) % IdSpace
  BY <1>1, <1>2 DEF NoEntries
<1>6. NoEntries(start).total <= Cardinality(NoEntries(start).of) * most
  BY <1>4 DEF NoEntries
<1>7. NoEntries(start).of = {}
  BY DEF NoEntries
<1>8. QED
  BY <1>3, <1>4, <1>5, <1>6, <1>7 DEF Ledger

LEMMA InitHolds == ForwarderInit => ForwarderInv
<1> SUFFICES ASSUME ForwarderInit PROVE ForwarderInv
  OBVIOUS
<1>1. /\ \A c \in Caller : slot[c] = Idle /\ post[c] = NoPost
      /\ wire = {} /\ acknowledged = {} /\ slots = 0 /\ nextFrame = 0 /\ nextNumber = 0
      /\ slot = [c \in Caller |-> Idle] /\ post = [c \in Caller |-> NoPost]
  BY DEF ForwarderInit
<1>2. nextBlock \in 0 .. IdSpace - 1 /\ nextPacket \in 0 .. IdSpace - 1
  BY Constants DEF ForwarderInit
<1>3. IsFiniteSet({}) /\ Cardinality({}) = 0
  BY FS_EmptySet
<1>4. \A c \in Caller : ~Busy(c)
  BY <1>1, IdleSlot DEF Busy
<1>5. Typed
  BY <1>1, <1>2, <1>3, IdleSlot, NoPostTyped, Constants DEF Typed
<1>6. Ids /\ Chunks
  BY <1>1, <1>4 DEF Ids, Chunks, NoPost
<1>7. Alike
  BY <1>1 DEF Alike
<1>8. Counted
  <2>1. \A S : Of({}, S) = {}
    BY DEF Of
  <2>2. \A c \in Caller : post[c].datagrams = 0
    BY <1>1 DEF NoPost
  <2>3. QED
    BY <1>1, <1>3, <1>4, <2>1, <2>2 DEF Counted
<1>9. Frames
  BY <1>1, IdleSlot DEF Frames, SendsFrame
<1>10. \E B, P \in LedgerSet : Booked(B, P)
  <2>1. PICK B \in LedgerSet : B = NoEntries(nextBlock) /\ Ledger(B, nextBlock, 1)
    BY <1>2, EmptyLedger
  <2>2. PICK P \in LedgerSet : P = NoEntries(nextPacket) /\ Ledger(P, nextPacket, MaxDatagrams)
    BY <1>2, EmptyLedger, Constants
  <2>3. B.of = {} /\ P.of = {}
    BY <2>1, <2>2 DEF NoEntries
  <2>4. \A c \in Caller : BookedSlot(B, P, slot[c])
    BY <1>1, IdleSlot DEF BookedSlot
  <2>5. Booked(B, P)
    BY <1>1, <2>1, <2>2, <2>3, <2>4 DEF Booked
  <2>6. QED
    BY <2>5
<1>11. QED
  BY <1>5, <1>6, <1>7, <1>8, <1>9, <1>10 DEF ForwarderInv

LEMMA NextHolds == ASSUME ForwarderInv, ForwarderNext PROVE ForwarderInv'
<1>1. Typed /\ Ids /\ Alike /\ Chunks /\ Counted /\ Frames
  BY DEF ForwarderInv
<1>2. PICK c \in Caller : Sound(c) /\ Kind(c)
  BY <1>1, StepSound
<1>3. Typed' /\ Ids' /\ Alike' /\ Chunks' /\ Counted' /\ Frames'
  BY <1>1, <1>2, IdsStep, AlikeStep, ChunksStep, CountedStep, FramesStep DEF Sound
<1>4. PICK B \in LedgerSet, P \in LedgerSet : Booked(B, P)
  BY DEF ForwarderInv
<1>5. \E D, Q \in LedgerSet : Booked(D, Q)'
  <2>1. CASE TakesBlock(c)
    BY <1>1, <1>2, <1>4, <2>1, BlockBooked
  <2>2. CASE TakesPackets(c)
    BY <1>1, <1>2, <1>4, <2>2, PacketsBooked
  <2>3. CASE ToSocket(c) \/ TakesFrame(c) \/ ToWire(c) \/ Elsewhere(c)
    BY <1>1, <1>2, <1>4, <2>3, BooksStay
  <2>4. QED
    BY <1>2, <2>1, <2>2, <2>3 DEF Kind
<1>6. QED
  BY <1>3, <1>5 DEF ForwarderInv

LEMMA StutterHolds == ASSUME ForwarderInv, UNCHANGED forwarderVars PROVE ForwarderInv'
<1> USE DEF forwarderVars, others, results
<1>1. Typed' /\ Ids' /\ Chunks'
  BY DEF ForwarderInv, Typed, Ids, Chunks, Busy
<1>2. Alike' /\ Frames'
  BY DEF ForwarderInv, Alike, Frames, SendsFrame, Busy
<1>3. Counted'
  BY DEF ForwarderInv, Counted, Open, Busy
<1>4. (\E B, P \in LedgerSet : Booked(B, P))'
  BY DEF ForwarderInv, Booked
<1>5. QED
  BY <1>1, <1>2, <1>3, <1>4 DEF ForwarderInv

-----------------------------------------------------------------------------
\* Names on the wire, while the counters have not come round.

FewerThanIds == MaxDatagrams > 0 /\ MaxForwarded * MaxDatagrams <= IdSpace

LEMMA BothBounded ==
  ASSUME FewerThanIds, Typed, NEW B, NEW P, Booked(B, P)
  PROVE  B.total <= IdSpace /\ P.total <= IdSpace
<1>1. PICK m \in Nat, d \in Nat, f \in Nat : m = slots /\ d = MaxDatagrams /\ f = MaxForwarded
  BY Constants DEF Typed
<1>2. m <= f /\ d >= 1 /\ f * d <= IdSpace
  BY <1>1, Constants DEF Typed, FewerThanIds
<1>3. f <= f * d
  BY <1>2
<1>4. f * 1 <= IdSpace
  BY <1>1, <1>2, <1>3, Constants
<1>5. Ledger(B, nextBlock, 1) /\ B.of \subseteq 1 .. m
  BY <1>1 DEF Booked
<1>6. Ledger(P, nextPacket, d) /\ P.of \subseteq 1 .. m
  BY <1>1 DEF Booked
<1>7. QED
  BY <1>1, <1>2, <1>4, <1>5, <1>6, LedgerBounded

\* Two places of a ledger within the ids have the same number only if they are one.
LEMMA OnePlace ==
  ASSUME NEW L \in LedgerSet, NEW counter, NEW most, Ledger(L, counter, most),
         L.total <= IdSpace, NEW i \in L.of, NEW j \in L.of, NEW u \in Nat, NEW v \in Nat,
         u < L.width[i], v < L.width[j],
         (L.base + L.at[i] + u) % IdSpace = (L.base + L.at[j] + v) % IdSpace
  PROVE  i = j /\ u = v
<1>0. /\ i \in Nat /\ j \in Nat /\ L.at[i] \in Nat /\ L.at[j] \in Nat
      /\ L.width[i] \in Nat /\ L.width[j] \in Nat /\ L.base \in Nat /\ L.total \in Nat
  BY DEF LedgerSet
<1>1. PICK n \in Nat \ {0}, a \in Nat, b \in Nat, x \in Nat, y \in Nat, t \in Nat :
        /\ n = IdSpace /\ a = L.at[i] /\ b = L.at[j] /\ x = L.width[i] /\ y = L.width[j]
        /\ t = L.total
  BY <1>0, Constants
<1> PICK base \in Int : base = L.base
  BY <1>0
<1>2. a + x <= t /\ b + y <= t /\ t <= n /\ u < x /\ v < y
  BY <1>1 DEF Ledger
<1>3. a + u \in 0 .. n - 1 /\ b + v \in 0 .. n - 1
  BY <1>2
<1>4. PICK p \in Nat, q \in Nat : p = a + u /\ q = b + v
  OBVIOUS
<1>5. base + a + u = base + p /\ base + b + v = base + q
  BY <1>4
<1>6. (base + p) % n = (base + q) % n
  BY <1>1, <1>5
<1>7. p \in 0 .. n - 1 /\ q \in 0 .. n - 1
  BY <1>3, <1>4
<1>8. p = q
  BY <1>6, <1>7, RemaindersDiffer
<1>9. i = j
  <2>1. i # j => a + x <= b \/ b + y <= a
    BY <1>1 DEF Ledger
  <2>2. QED
    BY <1>2, <1>4, <1>8, <2>1
<1>10. QED
  BY <1>1, <1>4, <1>8, <1>9

LEMMA NamesFollow == ASSUME FewerThanIds, ForwarderInv PROVE WireNamesOneSlot
<1>1. Typed /\ Alike /\ Counted /\ Frames
  BY DEF ForwarderInv
<1>2. PICK B \in LedgerSet, P \in LedgerSet : Booked(B, P)
  BY DEF ForwarderInv
<1>3. /\ B.total <= IdSpace /\ P.total <= IdSpace
      /\ Ledger(B, nextBlock, 1) /\ Ledger(P, nextPacket, MaxDatagrams)
  BY <1>1, <1>2, BothBounded DEF Booked
<1>4. ASSUME NEW x \in wire, NEW y \in wire, x.frame = y.frame
      PROVE  /\ ~x.frame /\ x.packet = y.packet => x = y
             /\ (x.block = y.block) = (x.id = y.id)
             /\ x.id = y.id => (x.packet - y.packet) % IdSpace = (x.index - y.index) % IdSpace
             /\ x.limit # NoLimit => x.bytes <= x.limit
  <2>1. x \in Datagram /\ y \in Datagram
    BY <1>1 DEF Typed
  <2>2. x.id = y.id => OneSlot(x, y)
    BY <1>1 DEF Alike
  <2>3. ~x.frame => BookedPacket(B, P, x) /\ BookedPacket(B, P, y)
    BY <1>2, <1>4 DEF Booked
  <2>4. ASSUME ~x.frame, x.packet = y.packet PROVE x = y
    <3>1. x.id = y.id /\ x.index = y.index
      <4>1. PICK i \in P.of, j \in P.of, u \in Nat, v \in Nat :
              i = x.id /\ j = y.id /\ u = x.index /\ v = y.index
        BY <2>1, <2>3, <2>4 DEF BookedPacket, Datagram
      <4>2. /\ u < P.width[i] /\ v < P.width[j]
            /\ (P.base + P.at[i] + u) % IdSpace = (P.base + P.at[j] + v) % IdSpace
        BY <2>3, <2>4, <4>1 DEF BookedPacket
      <4>3. QED
        BY <1>3, <4>1, <4>2, OnePlace
    <3>2. QED
      BY <2>1, <2>2, <2>4, <3>1 DEF OneSlot, Datagram
  <2>5. (x.block = y.block) = (x.id = y.id)
    <3>1. x.id = y.id => x.block = y.block
      BY <2>2 DEF OneSlot
    <3>2. ASSUME x.block = y.block PROVE x.id = y.id
      <4>1. CASE x.frame
        BY <1>1, <1>4, <3>2, <4>1 DEF Frames
      <4>2. CASE ~x.frame
        <5>1. PICK i \in B.of, j \in B.of : i = x.id /\ j = y.id
          BY <2>3, <4>2 DEF BookedPacket
        <5>2. B.width[i] = 1 /\ B.width[j] = 1
          BY <1>2 DEF Booked
        <5>3. B.base \in Nat /\ B.at[i] \in Nat /\ B.at[j] \in Nat
          BY <2>1, <5>1 DEF LedgerSet, Datagram
        <5>4. (B.base + B.at[i] + 0) % IdSpace = (B.base + B.at[j] + 0) % IdSpace
          <6>1. B.base + B.at[i] + 0 = B.base + B.at[i] /\ B.base + B.at[j] + 0 = B.base + B.at[j]
            BY <5>3
          <6>2. (B.base + B.at[i]) % IdSpace = (B.base + B.at[j]) % IdSpace
            BY <2>3, <3>2, <4>2, <5>1 DEF BookedPacket
          <6>3. QED
            BY <6>1, <6>2
        <5>5. 0 < B.width[i] /\ 0 < B.width[j]
          BY <5>2
        <5>6. i = j
          BY <1>3, <5>4, <5>5, OnePlace
        <5>7. QED
          BY <5>1, <5>6
      <4>3. QED
        BY <4>1, <4>2
    <3>3. QED
      BY <3>1, <3>2
  <2>6. ASSUME x.id = y.id
        PROVE  (x.packet - y.packet) % IdSpace = (x.index - y.index) % IdSpace
    <3>1. PICK c \in Int : /\ x.packet = (c + x.index) % IdSpace
                           /\ y.packet = (c + y.index) % IdSpace
      <4>1. CASE x.frame
        <5>1. x.packet = x.index % IdSpace /\ y.packet = y.index % IdSpace
          BY <1>1, <1>4, <4>1 DEF Frames
        <5>2. 0 + x.index = x.index /\ 0 + y.index = y.index
          BY <2>1 DEF Datagram
        <5>3. QED
          BY <5>1, <5>2
      <4>2. CASE ~x.frame
        <5>1. P.base \in Nat /\ P.at[x.id] \in Nat
          BY <2>1 DEF LedgerSet, Datagram
        <5>2. /\ x.packet = (P.base + P.at[x.id] + x.index) % IdSpace
              /\ y.packet = (P.base + P.at[x.id] + y.index) % IdSpace
          BY <2>3, <2>6, <4>2 DEF BookedPacket
        <5>3. PICK c \in Nat : c = P.base + P.at[x.id]
          BY <5>1
        <5>4. QED
          BY <5>2, <5>3
      <4>3. QED
        BY <4>1, <4>2
    <3>2. PICK n \in Nat \ {0}, a \in Int, b \in Int :
            n = IdSpace /\ a = x.index /\ b = y.index
      BY <2>1, Constants DEF Datagram
    <3>3. (((c + a) % n) - ((c + b) % n)) % n = (a - b) % n
      BY RemainderOfDifference
    <3>4. QED
      BY <3>1, <3>2, <3>3
  <2>7. x.limit # NoLimit => x.bytes <= x.limit
    BY <1>1 DEF Alike
  <2>8. QED
    BY <2>4, <2>5, <2>6, <2>7
<1>5. \A p \in acknowledged : p.datagrams = Cardinality({x \in wire : x.id \in p.chunks})
  BY <1>1 DEF Counted, Of
<1>6. QED
  BY <1>4, <1>5 DEF WireNamesOneSlot

\* However slots, frames, parts and raw requests overlap between the two reservations
\* of their ids, the encoder and the socket, and wherever the counters wrap: no packet
\* number is used twice, a block is one slot, its packets are numbered without a hole,
\* no datagram exceeds the limit of its lease, and a raw request is acknowledged for
\* exactly the datagrams of its chunks (av-contrib.rs 1461-1580, 7402-7495,
\* 6461-6497); for fewer packets than there are ids, without which a number would come
\* round again.
THEOREM SlotsKeepTheirNames == ASSUME FewerThanIds PROVE ForwarderSpec => []WireNamesOneSlot
<1>1. ForwarderInit => ForwarderInv
  BY InitHolds
<1>2. ForwarderInv /\ [ForwarderNext]_forwarderVars => ForwarderInv'
  BY NextHolds, StutterHolds
<1>3. ForwarderInv => WireNamesOneSlot
  BY NamesFollow
<1>4. QED
  BY <1>1, <1>2, <1>3, PTL DEF ForwarderSpec

=============================================================================
