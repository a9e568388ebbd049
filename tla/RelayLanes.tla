----------------------------- MODULE RelayLanes -----------------------------
(***************************************************************************)
(* RelaySessionPublisher (av-contrib.rs): a canonical object is protected  *)
(* with repair symbols and sent before its deadline over one carrier lane  *)
(* or two, side by side.  The primary lane carries the source symbols; the *)
(* secondary one the repair symbols and, if it seeds, the source symbols   *)
(* before them; without a secondary lane the primary carries both.  A lane *)
(* ends at its first symbol that fails.  Objects are published by several  *)
(* tasks at once; the counters are shared.                                 *)
(*                                                                         *)
(* External: the encoder and the carriers, which may fail any object and   *)
(* any symbol.  Abstracted: bytes, durations, and the clock, which stands  *)
(* still while one object is accounted for.                                *)
(***************************************************************************)
EXTENDS Naturals, Sequences, FiniteSets, SequencesExt, Functions

CONSTANTS
  Publisher,     \* the tasks that publish
  SourceCount, RepairCount,   \* the symbols of an object
  Deadlines,     \* the deadlines of objects
  MaxTime,       \* bound: the last instant
  Hold,          \* RELAY_LANE_IMPAIRED_HOLD_MS
  MaxObjects     \* bound: objects published

ASSUME RelayAssumption ==
  /\ SourceCount \in Nat \ {0} /\ RepairCount \in Nat
  /\ Deadlines \subseteq Nat /\ MaxTime \in Nat /\ Hold \in Nat
  /\ MaxObjects \in Nat

Lane == {"primary", "secondary"}
Role == {"source", "repair"}
\* What becomes of an object, as the counters name it.
Outcome == {"sent", "hit", "expired", "miss", "encodeError", "allLanesFailed",
            "survivingLane", "primaryFallback"}

VARIABLES
  now,
  secondary,     \* a secondary lane is configured
  seeds,         \* secondary_seed_source
  job,           \* the object each publisher is at
  count,         \* the counters of outcomes
  laneObjects,   \* per lane, objects that succeeded and that failed
  symbols,       \* per role, symbols sent and symbols in error
  lastSeen,      \* per lane, when an object last succeeded and failed
  ledger         \* history: every object that is over

telemetry == <<count, laneObjects, symbols, lastSeen>>
relayVars == <<now, secondary, seeds, job, telemetry, ledger>>

Configured == IF secondary THEN Lane ELSE {"primary"}

\* left: the symbols a lane has still to send; failed: the lanes that ended
\* early; carried: history, the source symbols each lane has sent.
NoJob == [at |-> "idle", deadline |-> 0, left |-> [l \in Lane |-> <<>>],
          failed |-> {}, carried |-> [l \in Lane |-> 0]]

\* RelaySessionPublisher::new accepts only a secondary that seeds.
RelayInit ==
  /\ now = 1
  /\ secondary \in BOOLEAN
  /\ seeds \in BOOLEAN /\ (seeds => secondary)
  /\ job = [p \in Publisher |-> NoJob]
  /\ count = [o \in Outcome |-> 0]
  /\ laneObjects = [l \in Lane |-> [ok |-> 0, failed |-> 0]]
  /\ symbols = [r \in Role |-> [sent |-> 0, error |-> 0]]
  /\ lastSeen = [l \in Lane |-> [success |-> 0, failure |-> 0]]
  /\ ledger = <<>>

Expired(deadline) == now >= deadline

Counts(outcomes) ==
  count' = [o \in Outcome |-> count[o] + (IF o \in outcomes THEN 1 ELSE 0)]

\* History: what the counters said of an object, when, which lanes were tried and
\* which had carried all of its source by then.
Over(p, tried, carriers) ==
  /\ job' = [job EXCEPT ![p] = NoJob]
  /\ ledger' = Append(ledger, [said |-> {o \in Outcome : count'[o] # count[o]},
                               tried |-> tried, carriers |-> carriers, at |-> now,
                               late |-> Expired(job[p].deadline), failed |-> job[p].failed])

-----------------------------------------------------------------------------
\* publish_object_inner.

\* An object without a canonical deadline is refused and counted nowhere.
Submit(p, deadline) ==
  /\ job[p].at = "idle"
  /\ Len(ledger) + Cardinality({q \in Publisher : job[q].at # "idle"}) < MaxObjects
  /\ job' = [job EXCEPT ![p] = [NoJob EXCEPT !.at = "check", !.deadline = deadline]]
  /\ UNCHANGED <<now, secondary, seeds, telemetry, ledger>>

CheckDeadline(p) ==
  /\ job[p].at = "check"
  /\ IF Expired(job[p].deadline)
     THEN Counts({"expired", "miss"}) /\ Over(p, {}, {})
     ELSE /\ job' = [job EXCEPT ![p].at = "encode"]
          /\ UNCHANGED <<count, ledger>>
  /\ UNCHANGED <<now, secondary, seeds, laneObjects, symbols, lastSeen>>

Source == [i \in 1 .. SourceCount |-> "source"]
Repair == [i \in 1 .. RepairCount |-> "repair"]

\* What each lane is to send.
Plan ==
  [l \in Lane |->
     IF l = "primary" THEN Source \o (IF secondary THEN <<>> ELSE Repair)
     ELSE IF ~secondary THEN <<>>
     ELSE (IF seeds THEN Source ELSE <<>>) \o Repair]

\* Under the lock of the encoder, which no await holds up.
Encode(p, ok) ==
  /\ job[p].at = "encode"
  /\ IF ok
     THEN /\ job' = [job EXCEPT ![p].at = "send", ![p].left = Plan]
          /\ Counts(IF ~secondary /\ RepairCount > 0 THEN {"primaryFallback"} ELSE {})
          /\ UNCHANGED ledger
     ELSE Counts({"encodeError"}) /\ Over(p, {}, {})
  /\ UNCHANGED <<now, secondary, seeds, laneObjects, symbols, lastSeen>>

\* send_symbol: the next symbol of a lane, unless it has expired.
SendSymbol(p, l, ok) ==
  LET left == job[p].left[l]
      role == Head(left)
      sent == ok /\ ~Expired(job[p].deadline)
  IN  /\ job[p].at = "send" /\ left # <<>>
      /\ ok \/ ~Expired(job[p].deadline)
      /\ IF sent
         THEN /\ job' = [job EXCEPT ![p].left[l] = Tail(left),
                           ![p].carried[l] = @ + (IF role = "source" THEN 1 ELSE 0)]
              /\ symbols' = [symbols EXCEPT ![role].sent = @ + 1]
         ELSE /\ job' = [job EXCEPT ![p].left[l] = <<>>,
                                    ![p].failed = @ \cup {l}]
              /\ symbols' = [symbols EXCEPT ![role].error = @ + 1]
      /\ UNCHANGED <<now, secondary, seeds, count, laneObjects, lastSeen, ledger>>

\* resolve_relay_lane_results: whether the object got through.
\* Mutant: the secondary lane counts, whatever it carries.
SurvivesOnAnyLane(failed) == Configured \ failed # {}

Survives(failed) ==
  "primary" \notin failed \/ (secondary /\ seeds /\ "secondary" \notin failed)

Verdict(failed, late) ==
  IF Survives(failed)
  THEN (IF failed = {} THEN {} ELSE {"survivingLane"})
       \cup (IF late THEN {"expired", "miss"} ELSE {"sent", "hit"})
  ELSE {"allLanesFailed"} \cup (IF late THEN {"expired", "miss"} ELSE {})

\* Both lanes are over: each is recorded, then the object.
Conclude(p) ==
  LET failed == job[p].failed
      late == Expired(job[p].deadline)
  IN  /\ job[p].at = "send" /\ \A l \in Lane : job[p].left[l] = <<>>
      /\ laneObjects' = [l \in Lane |->
           IF l \notin Configured THEN laneObjects[l]
           ELSE IF l \in failed THEN [laneObjects[l] EXCEPT !.failed = @ + 1]
           ELSE [laneObjects[l] EXCEPT !.ok = @ + 1]]
      /\ lastSeen' = [l \in Lane |->
           IF l \notin Configured THEN lastSeen[l]
           ELSE IF l \in failed THEN [lastSeen[l] EXCEPT !.failure = now]
           ELSE [lastSeen[l] EXCEPT !.success = now]]
      /\ Counts(Verdict(failed, late))
      /\ Over(p, Configured, {l \in Lane : job[p].carried[l] = SourceCount})
      /\ UNCHANGED <<now, secondary, seeds, symbols>>

RelayTick ==
  /\ now < MaxTime
  /\ now' = now + 1
  /\ UNCHANGED <<secondary, seeds, job, telemetry, ledger>>

RelayNext ==
  \/ RelayTick
  \/ \E p \in Publisher :
       \/ \E d \in Deadlines : Submit(p, d)
       \/ CheckDeadline(p)
       \/ \E ok \in BOOLEAN :
            Encode(p, ok) \/ \E l \in Lane : SendSymbol(p, l, ok)
       \/ Conclude(p)

RelaySpec == RelayInit /\ [][RelayNext]_relayVars

-----------------------------------------------------------------------------
\* relay_lane_state: how a lane is shown.
LaneState(l) ==
  LET success == lastSeen[l].success
      failure == lastSeen[l].failure
  IN  IF success = 0 /\ failure = 0 THEN "unknown"
      ELSE IF failure > 0 /\ (success <= failure \/ now - failure < Hold)
      THEN "impaired"
      ELSE "healthy"

\* Types.
RelayTypeOK ==
  /\ now \in 1 .. MaxTime
  /\ \A p \in Publisher :
       /\ job[p].at \in {"idle", "check", "encode", "send"}
       /\ job[p].failed \subseteq Configured
       /\ job[p].carried \in [Lane -> 0 .. SourceCount]
  /\ count \in [Outcome -> 0 .. MaxObjects]
  /\ \A l \in Lane : LaneState(l) \in {"unknown", "impaired", "healthy"}

\* The last word on an object: sent, expired, lost on all lanes or not encoded.
Words == {"sent", "expired", "allLanesFailed", "encodeError"}

\* A lane is shown healthy only if the last object it was tried for got through and
\* none failed on it within the hold, and unknown only if there was none.
LanesAreTrue ==
  \A l \in Configured :
    LET attempts == {i \in DOMAIN ledger : l \in ledger[i].tried}
        failures == {i \in attempts : l \in ledger[i].failed}
    IN  /\ (LaneState(l) = "unknown") = (attempts = {})
        /\ LaneState(l) = "healthy" =>
             \A i \in failures : now - ledger[i].at >= Hold /\ \E j \in attempts \ failures : j > i
        /\ LaneState(l) = "impaired" =>
             \E i \in failures : now - ledger[i].at < Hold
                                \/ \A j \in attempts \ failures : ledger[j].at <= ledger[i].at

\* What the counters say of an object is true, however publishers overlap and
\* wherever a lane fails or the deadline passes.  Each object that is over has
\* one last word, but for one both lost and late, which has two, and the
\* counters are the sums of these.  One that is counted as sent can be put
\* together again: a lane that did not fail carried all of its source symbols,
\* and it was still in time when it was counted; repair symbols alone do not
\* save an object (lines 845, 1018-1161).  The state of a lane is that of the objects
\* it was tried for (lines 828-843).
VerdictsAreTrue ==
  /\ \A i \in DOMAIN ledger :
       LET said == ledger[i].said
       IN  /\ said \cap Words # {}
           /\ Cardinality(said \cap Words) = 1
                \/ said \cap Words = {"allLanesFailed", "expired"}
           /\ ("sent" \in said) = ("hit" \in said)
           /\ ("expired" \in said) = ("miss" \in said)
           /\ "sent" \in said =>
                /\ ledger[i].carriers \cap (Configured \ ledger[i].failed) # {}
                /\ ~ledger[i].late
  /\ \A o \in Outcome \ {"primaryFallback"} :
       count[o] = Cardinality({i \in DOMAIN ledger : o \in ledger[i].said})
  /\ LanesAreTrue

=============================================================================
