------------------------- MODULE PublishIngressProofs -------------------------
(* Theorems about the publication gate, for every set of requests,          *)
(* capabilities, coordinates, identities and frames, every window width,    *)
(* capacity, skew and clock bound, and both modes.                          *)
EXTENDS PublishIngress, SequenceWindowProofs, FiniteSetTheorems

-----------------------------------------------------------------------------
\* Type correctness.

TasksTyped ==
  /\ phase \in [Request -> Phase]
  /\ code \in [Request -> Code]
  /\ metrics \in [admitted : Nat, enforced : Nat, observed : Nat]

LEMMA RejectType ==
  ASSUME TypeOK, NEW r \in Request, NEW why \in Code, NEW next \in Phase,
         Reject(r, why, next)
  PROVE  TasksTyped'
<1>1. metrics' \in [admitted : Nat, enforced : Nat, observed : Nat]
  BY DEF TypeOK, Reject
<1>2. "rejected" \in Phase
  BY DEF Phase
<1>3. phase' \in [Request -> Phase] /\ code' \in [Request -> Code]
  BY <1>2 DEF TypeOK, Reject
<1>4. QED
  BY <1>1, <1>3 DEF TasksTyped

LEMMA ProceedType ==
  ASSUME TypeOK, NEW r \in Request, NEW next \in Phase, Proceed(r, next)
  PROVE  TasksTyped'
BY DEF TypeOK, Proceed, TasksTyped

\* A purged table has the type of the table.
LEMMA PurgeType ==
  ASSUME TypeOK, NEW now \in Nat
  PROVE  /\ LiveAdmissions(now) \in [Capability -> Admission \cup {None}]
         /\ LiveWindows(now) \in [Capability \X Key -> SequenceAdmission \cup {None}]
BY DEF TypeOK, LiveAdmissions, LiveWindows, Retained

LEMMA ResolutionIsCode ==
  ASSUME NEW k \in Key
  PROVE  Resolution(k) \in Code
BY DEF Resolution, Code

LEMMA TypeStep ==
  ASSUME TypeOK, TaskOrder, [Next]_vars
  PROVE  TypeOK'
<1> USE DEF tables, task
<1>1. ASSUME NEW r \in Request, NEW f \in Offered, Arrive(r, f) PROVE TypeOK'
  <2>1. f \in Frame
    BY InputAssumption
  <2>2. TasksTyped'
    BY <1>1, ProceedType DEF Arrive, Phase
  <2>3. QED
    BY <1>1, <2>1, <2>2 DEF TypeOK, TasksTyped, Arrive
<1>2. ASSUME NEW r \in Request, EnterUnauthorized(r) PROVE TypeOK'
  <2>1. TasksTyped'
    BY <1>2, RejectType DEF EnterUnauthorized, Phase, Code
  <2>2. QED
    BY <1>2, <2>1 DEF TypeOK, TasksTyped, EnterUnauthorized
<1>3. ASSUME NEW r \in Request, Resolve(r) PROVE TypeOK'
  <2>1. frame[r] \in Frame
    BY <1>3 DEF TypeOK, TaskOrder, Resolve
  <2>2. frame[r].key \in Key
    BY <2>1 DEF Frame
  <2>3. TasksTyped'
    BY <1>3, <2>2, RejectType, ProceedType, ResolutionIsCode
       DEF Resolve, Phase, Code
  <2>4. bound' \in [Request -> Registered \cup {None}]
    BY <1>3, <2>2 DEF TypeOK, Resolve, Resolution
  <2>5. QED
    BY <1>3, <2>3, <2>4 DEF TypeOK, TasksTyped, Resolve
<1>4. ASSUME NEW r \in Request, VerifierRefuses(r) PROVE TypeOK'
  <2>1. TasksTyped'
    BY <1>4, RejectType DEF VerifierRefuses, Phase, Code
  <2>2. QED
    BY <1>4, <2>1 DEF TypeOK, TasksTyped, VerifierRefuses
<1>5. ASSUME NEW r \in Request, Verify(r) PROVE TypeOK'
  <2>1. frame[r] \in Frame /\ bound[r] \in Registered /\ arrived[r] \in Nat
    BY <1>5 DEF TypeOK, TaskOrder, Verify
  <2>2. /\ frame[r].key \in Key
        /\ frame[r].capability \in Capability
        /\ bound[r].identity \in Identity
    BY <2>1 DEF Frame, Registered
  <2>3. TasksTyped'
    BY <1>5, RejectType, ProceedType DEF Verify, Phase, Code
  <2>4. LiveAdmissions(arrived[r]) \in [Capability -> Admission \cup {None}]
    BY <2>1, PurgeType
  <2>5. [fingerprint |-> [key |-> frame[r].key, identity |-> bound[r].identity],
         expires |-> ExpiresAt[frame[r].capability]] \in Admission
    BY <2>2, ClaimsAssumption DEF Admission, Fingerprint
  <2>6. admissions' \in [Capability -> Admission \cup {None}]
    BY <1>5, <2>4, <2>5 DEF Verify
  <2>7. QED
    BY <1>5, <2>3, <2>6 DEF TypeOK, TasksTyped, Verify
<1>6. ASSUME NEW r \in Request, Sequence(r) PROVE TypeOK'
  <2> DEFINE w == <<frame[r].capability, frame[r].key>>
             live == LiveWindows(arrived[r])
             s == frame[r].sequence
             after == IF live[w] = None THEN First(s) ELSE Admit(live[w].window, s)
  <2>1. frame[r] \in Frame /\ arrived[r] \in Nat
    BY <1>6 DEF TypeOK, TaskOrder, Sequence
  <2>2. /\ w \in Capability \X Key
        /\ frame[r].capability \in Capability
        /\ s \in Nat
    BY <2>1 DEF Frame
  <2>3. live \in [Capability \X Key -> SequenceAdmission \cup {None}]
    BY <2>1, PurgeType
  <2>4. after \in Window
    <3>1. CASE live[w] = None
      BY <2>2, <3>1, FirstSpends
    <3>2. CASE live[w] # None
      <4>1. live[w].window \in Window
        BY <2>2, <2>3, <3>2 DEF SequenceAdmission
      <4>2. QED
        BY <2>2, <3>2, <4>1, AdmitType
    <3>3. QED
      BY <3>1, <3>2
  <2>5. [window |-> after, expires |-> ExpiresAt[frame[r].capability]]
          \in SequenceAdmission
    BY <2>2, <2>4, ClaimsAssumption DEF SequenceAdmission
  <2>6. windows' \in [Capability \X Key -> SequenceAdmission \cup {None}]
    BY <1>6, <2>2, <2>3, <2>5 DEF Sequence
  <2>7. TasksTyped' /\ leased' \in [Request -> BOOLEAN]
    <3>1. ASSUME NEW why \in Code, Reject(r, why, "body"), UNCHANGED leased
          PROVE  TasksTyped' /\ leased' \in [Request -> BOOLEAN]
      BY <3>1, RejectType DEF TypeOK, Phase
    <3>2. ASSUME Grant(r)
          PROVE  TasksTyped' /\ leased' \in [Request -> BOOLEAN]
      <4>1. /\ metrics.admitted + 1 \in Nat
            /\ metrics.enforced + 1 \in Nat
            /\ metrics.observed \in Nat
        BY DEF TypeOK
      <4>2. metrics' \in [admitted : Nat, enforced : Nat, observed : Nat]
        BY <3>2, <4>1 DEF Grant, TypeOK
      <4>3. QED
        BY <3>2, <4>2 DEF Grant, TypeOK, TasksTyped, Phase, Code
    <3>3. QED
      BY <1>6, <3>1, <3>2 DEF Sequence, Code
  <2>8. QED
    BY <1>6, <2>6, <2>7 DEF TypeOK, TasksTyped, Sequence
<1>7. ASSUME NEW r \in Request, AbortBody(r) PROVE TypeOK'
  <2>1. TasksTyped'
    BY <1>7, ProceedType DEF AbortBody, Phase
  <2>2. QED
    BY <1>7, <2>1 DEF TypeOK, TasksTyped, AbortBody
<1>8. ASSUME NEW r \in Request, EndBody(r) PROVE TypeOK'
  <2>1. TasksTyped'
    BY <1>8, RejectType, ProceedType DEF EndBody, LeaseExpired, Phase, Code
  <2>2. QED
    BY <1>8, <2>1 DEF TypeOK, TasksTyped, EndBody, LeaseExpired
<1>9. ASSUME NEW r \in Request, Recheck(r) PROVE TypeOK'
  <2>1. Resolution(frame[r].key) \in Code
    BY DEF Resolution, Code
  <2>2. TasksTyped'
    BY <1>9, <2>1, RejectType, ProceedType DEF Recheck, Phase, Code
  <2>3. QED
    BY <1>9, <2>2 DEF TypeOK, TasksTyped, Recheck
<1>10. ASSUME NEW r \in Request, Forward(r) PROVE TypeOK'
  <2>1. TasksTyped'
    BY <1>10, RejectType, ProceedType DEF Forward, Phase, Code
  <2>2. QED
    BY <1>10, <2>1 DEF TypeOK, TasksTyped, Forward
<1>11. ASSUME NEW b \in Candidate, Install(b) PROVE TypeOK'
  <2>1. b \in Binding
    BY InputAssumption
  <2>2. [identity |-> b.identity, stream |-> b.stream,
         revision |-> nextRevision + 1, active |-> TRUE] \in Registered
    BY <2>1 DEF Binding, Registered, TypeOK
  <2>3. nextRevision + 1 \in Nat
    BY DEF TypeOK
  <2>4. b.key \in Key
    BY <2>1 DEF Binding
  <2>5. QED
    BY <1>11, <2>2, <2>3, <2>4 DEF TypeOK, Install
<1>12. ASSUME NEW k \in Revocable, Invalidate(k) PROVE TypeOK'
  <2>1. k \in Key
    BY InputAssumption
  <2>2. bindings[k] \in Registered /\ nextRevision \in Nat
    BY <1>12, <2>1 DEF TypeOK, Invalidate
  <2>3. [identity |-> bindings[k].identity, stream |-> bindings[k].stream,
         revision |-> nextRevision + 1, active |-> FALSE] \in Registered
    BY <2>2 DEF Registered
  <2>4. nextRevision + 1 \in Nat
    BY <2>2
  <2>5. QED
    BY <1>12, <2>1, <2>3, <2>4 DEF TypeOK, Invalidate
<1>13. ASSUME Tick PROVE TypeOK'
  BY <1>13 DEF TypeOK, Tick
<1>14. CASE UNCHANGED vars
  BY <1>14 DEF TypeOK, vars
<1>15. QED
  BY <1>1, <1>2, <1>3, <1>4, <1>5, <1>6, <1>7, <1>8, <1>9, <1>10, <1>11,
     <1>12, <1>13, <1>14 DEF Next, Handle

-----------------------------------------------------------------------------
\* The inductive invariant, part by part.

\* The registry only grows, and a revoked entry never changes again.
RegistryStep ==
  \A k \in Key : bindings[k] # None =>
    /\ bindings'[k] # None
    /\ bindings'[k].identity = bindings[k].identity
    /\ bindings'[k].stream = bindings[k].stream
    /\ ~bindings[k].active => bindings'[k] = bindings[k]

LEMMA RegistryStable ==
  ASSUME TypeOK, [Next]_vars
  PROVE  RegistryStep
<1> USE DEF tables, task
<1>1. CASE UNCHANGED bindings
  BY <1>1 DEF RegistryStep
<1>2. ASSUME NEW b \in Candidate, Install(b) PROVE RegistryStep
  BY <1>2 DEF Install, TypeOK, RegistryStep
<1>3. ASSUME NEW k \in Revocable, Invalidate(k) PROVE RegistryStep
  <2>1. k \in Key
    BY InputAssumption
  <2>2. bindings[k] \in Registered /\ nextRevision + 1 \in Nat
    BY <1>3, <2>1 DEF TypeOK, Invalidate
  <2>3. [identity |-> bindings[k].identity, stream |-> bindings[k].stream,
         revision |-> nextRevision + 1, active |-> FALSE] \in Registered
    BY <2>2 DEF Registered
  <2>4. QED
    BY <1>3, <2>1, <2>3, NoneAssumption DEF TypeOK, Invalidate, RegistryStep
<1>4. QED
  BY <1>1, <1>2, <1>3
  DEF Next, Handle, vars, Arrive, EnterUnauthorized, Resolve, VerifierRefuses, Verify,
      Sequence, AbortBody, EndBody, LeaseExpired, Recheck, Forward, Tick

\* Tasks go through their phases in order.
LEMMA TaskOrderStep ==
  ASSUME TypeOK, TaskOrder, [Next]_vars
  PROVE  TaskOrder'
<1> USE DEF tables, task
<1>1. ASSUME NEW r \in Request, NEW f \in Offered, Arrive(r, f) PROVE TaskOrder'
  BY <1>1, InputAssumption, NoneAssumption
     DEF TypeOK, TaskOrder, Arrive, Proceed
<1>2. ASSUME NEW r \in Request, EnterUnauthorized(r) PROVE TaskOrder'
  BY <1>2, InputAssumption, NoneAssumption
     DEF TypeOK, TaskOrder, EnterUnauthorized, Reject
<1>3. ASSUME NEW r \in Request, Resolve(r) PROVE TaskOrder'
  <2>1. Resolution(frame[r].key) = "ok" => bindings[frame[r].key] # None
    BY DEF Resolution
  <2>2. QED
    BY <1>3, <2>1 DEF TypeOK, TaskOrder, Resolve, Reject, Proceed
<1>4. ASSUME NEW r \in Request, VerifierRefuses(r) PROVE TaskOrder'
  BY <1>4, InputAssumption, NoneAssumption
     DEF TypeOK, TaskOrder, VerifierRefuses, Reject
<1>5. ASSUME NEW r \in Request, Verify(r) PROVE TaskOrder'
  BY <1>5, InputAssumption, NoneAssumption
     DEF TypeOK, TaskOrder, Verify, Reject, Proceed
<1>6. ASSUME NEW r \in Request, Sequence(r) PROVE TaskOrder'
  BY <1>6, InputAssumption, NoneAssumption
     DEF TypeOK, TaskOrder, Sequence, Grant, Reject, Proceed
<1>7. ASSUME NEW r \in Request, AbortBody(r) PROVE TaskOrder'
  BY <1>7, InputAssumption, NoneAssumption
     DEF TypeOK, TaskOrder, AbortBody, Proceed
<1>8. ASSUME NEW r \in Request, EndBody(r) PROVE TaskOrder'
  BY <1>8, InputAssumption, NoneAssumption
     DEF TypeOK, TaskOrder, EndBody, LeaseExpired, Reject, Proceed
<1>9. ASSUME NEW r \in Request, Recheck(r) PROVE TaskOrder'
  BY <1>9, InputAssumption, NoneAssumption
     DEF TypeOK, TaskOrder, Recheck, Reject, Proceed
<1>10. ASSUME NEW r \in Request, Forward(r) PROVE TaskOrder'
  BY <1>10, InputAssumption, NoneAssumption
     DEF TypeOK, TaskOrder, Forward, Reject, Proceed
<1>11. ASSUME NEW b \in Candidate, Install(b) PROVE TaskOrder'
  BY <1>11, InputAssumption, NoneAssumption DEF TypeOK, TaskOrder, Install
<1>12. ASSUME NEW k \in Revocable, Invalidate(k) PROVE TaskOrder'
  BY <1>12, InputAssumption, NoneAssumption DEF TypeOK, TaskOrder, Invalidate
<1>13. ASSUME Tick PROVE TaskOrder'
  BY <1>13, InputAssumption, NoneAssumption DEF TypeOK, TaskOrder, Tick
<1>14. CASE UNCHANGED vars
  BY <1>14 DEF TaskOrder, vars
<1>15. QED
  BY <1>1, <1>2, <1>3, <1>4, <1>5, <1>6, <1>7, <1>8, <1>9, <1>10, <1>11,
     <1>12, <1>13, <1>14
     DEF Next, Handle

\* An installed binding keeps its identity and stream, so a task's copy stays
\* true to the registry.
LEMMA BoundIsRegisteredStep ==
  ASSUME TypeOK, TaskOrder, BoundIsRegistered, [Next]_vars
  PROVE  BoundIsRegistered'
<1> USE DEF tables, task
<1>1. ASSUME NEW r \in Request, NEW f \in Offered, Arrive(r, f) PROVE BoundIsRegistered'
  BY <1>1, InputAssumption
     DEF TypeOK, TaskOrder, BoundIsRegistered, Arrive, Proceed
<1>2. ASSUME NEW r \in Request, EnterUnauthorized(r) PROVE BoundIsRegistered'
  BY <1>2, InputAssumption
     DEF TypeOK, TaskOrder, BoundIsRegistered, EnterUnauthorized, Reject
<1>3. ASSUME NEW r \in Request, Resolve(r) PROVE BoundIsRegistered'
  <2>1. Resolution(frame[r].key) = "ok" => bindings[frame[r].key] # None
    BY DEF Resolution
  <2>2. ASSUME NEW q \in Request, q # r,
               leased'[q] \/ phase'[q] \in {"verify", "sequence"}
        PROVE  LET b == bindings'[frame'[q].key]
               IN  b # None /\ b.identity = bound'[q].identity /\ b.stream = frame'[q].stream
    BY <1>3, <2>2 DEF TypeOK, BoundIsRegistered, Resolve, Reject, Proceed
  <2>3. ASSUME leased'[r] \/ phase'[r] \in {"verify", "sequence"}
        PROVE  LET b == bindings'[frame'[r].key]
               IN  b # None /\ b.identity = bound'[r].identity /\ b.stream = frame'[r].stream
    BY <1>3, <2>1, <2>3 DEF TypeOK, TaskOrder, Resolve, Reject, Proceed
  <2>4. QED
    BY <2>2, <2>3 DEF BoundIsRegistered
<1>4. ASSUME NEW r \in Request, VerifierRefuses(r) PROVE BoundIsRegistered'
  BY <1>4, InputAssumption
     DEF TypeOK, TaskOrder, BoundIsRegistered, VerifierRefuses, Reject
<1>5. ASSUME NEW r \in Request, Verify(r) PROVE BoundIsRegistered'
  BY <1>5, InputAssumption
     DEF TypeOK, TaskOrder, BoundIsRegistered, Verify, Reject, Proceed
<1>6. ASSUME NEW r \in Request, Sequence(r) PROVE BoundIsRegistered'
  BY <1>6, InputAssumption
     DEF TypeOK, TaskOrder, BoundIsRegistered, Sequence, Grant, Reject,
         Proceed
<1>7. ASSUME NEW r \in Request, AbortBody(r) PROVE BoundIsRegistered'
  BY <1>7, InputAssumption
     DEF TypeOK, TaskOrder, BoundIsRegistered, AbortBody, Proceed
<1>8. ASSUME NEW r \in Request, EndBody(r) PROVE BoundIsRegistered'
  BY <1>8, InputAssumption
     DEF TypeOK, TaskOrder, BoundIsRegistered, EndBody, LeaseExpired, Reject,
         Proceed
<1>9. ASSUME NEW r \in Request, Recheck(r) PROVE BoundIsRegistered'
  BY <1>9, InputAssumption
     DEF TypeOK, TaskOrder, BoundIsRegistered, Recheck, Reject, Proceed
<1>10. ASSUME NEW r \in Request, Forward(r) PROVE BoundIsRegistered'
  BY <1>10, InputAssumption
     DEF TypeOK, TaskOrder, BoundIsRegistered, Forward, Reject, Proceed
<1>11. ASSUME NEW b \in Candidate, Install(b) PROVE BoundIsRegistered'
  BY <1>11, InputAssumption DEF TypeOK, TaskOrder, BoundIsRegistered, Install
<1>12. ASSUME NEW k \in Revocable, Invalidate(k) PROVE BoundIsRegistered'
  BY <1>12, RegistryStable
     DEF TypeOK, TaskOrder, BoundIsRegistered, RegistryStep,
     Invalidate, Frame
<1>13. ASSUME Tick PROVE BoundIsRegistered'
  BY <1>13, InputAssumption DEF TypeOK, TaskOrder, BoundIsRegistered, Tick
<1>14. CASE UNCHANGED vars
  BY <1>14 DEF TaskOrder, BoundIsRegistered, vars
<1>15. QED
  BY <1>1, <1>2, <1>3, <1>4, <1>5, <1>6, <1>7, <1>8, <1>9, <1>10, <1>11,
     <1>12, <1>13, <1>14
     DEF Next, Handle

\* `install` refuses a second identity on a carrier stream.
LEMMA StreamsConsistentStep ==
  ASSUME TypeOK, StreamsConsistent, [Next]_vars
  PROVE  StreamsConsistent'
<1> USE DEF tables, task
<1>1. ASSUME NEW r \in Request, NEW f \in Offered, Arrive(r, f) PROVE StreamsConsistent'
  BY <1>1, InputAssumption
     DEF TypeOK, StreamsConsistent, StreamTaken, Binding, Arrive, Proceed
<1>2. ASSUME NEW r \in Request, EnterUnauthorized(r) PROVE StreamsConsistent'
  BY <1>2, InputAssumption
     DEF TypeOK, StreamsConsistent, StreamTaken, Binding, EnterUnauthorized, Reject
<1>3. ASSUME NEW r \in Request, Resolve(r) PROVE StreamsConsistent'
  BY <1>3, InputAssumption
     DEF TypeOK, StreamsConsistent, StreamTaken, Binding, Resolve, Reject,
         Proceed
<1>4. ASSUME NEW r \in Request, VerifierRefuses(r) PROVE StreamsConsistent'
  BY <1>4, InputAssumption
     DEF TypeOK, StreamsConsistent, StreamTaken, Binding, VerifierRefuses,
         Reject
<1>5. ASSUME NEW r \in Request, Verify(r) PROVE StreamsConsistent'
  BY <1>5, InputAssumption
     DEF TypeOK, StreamsConsistent, StreamTaken, Binding, Verify, Reject,
         Proceed
<1>6. ASSUME NEW r \in Request, Sequence(r) PROVE StreamsConsistent'
  BY <1>6, InputAssumption
     DEF TypeOK, StreamsConsistent, StreamTaken, Binding, Sequence, Grant,
         Reject, Proceed
<1>7. ASSUME NEW r \in Request, AbortBody(r) PROVE StreamsConsistent'
  BY <1>7, InputAssumption
     DEF TypeOK, StreamsConsistent, StreamTaken, Binding, AbortBody, Proceed
<1>8. ASSUME NEW r \in Request, EndBody(r) PROVE StreamsConsistent'
  BY <1>8, InputAssumption
     DEF TypeOK, StreamsConsistent, StreamTaken, Binding, EndBody,
         LeaseExpired, Reject, Proceed
<1>9. ASSUME NEW r \in Request, Recheck(r) PROVE StreamsConsistent'
  BY <1>9, InputAssumption
     DEF TypeOK, StreamsConsistent, StreamTaken, Binding, Recheck, Reject,
         Proceed
<1>10. ASSUME NEW r \in Request, Forward(r) PROVE StreamsConsistent'
  BY <1>10, InputAssumption
     DEF TypeOK, StreamsConsistent, StreamTaken, Binding, Forward, Reject,
         Proceed
<1>11. ASSUME NEW b \in Candidate, Install(b) PROVE StreamsConsistent'
  BY <1>11, InputAssumption
     DEF TypeOK, StreamsConsistent, StreamTaken, Binding, Install
<1>12. ASSUME NEW k \in Revocable, Invalidate(k) PROVE StreamsConsistent'
  BY <1>12, InputAssumption
     DEF TypeOK, StreamsConsistent, StreamTaken, Binding, Invalidate
<1>13. ASSUME Tick PROVE StreamsConsistent'
  BY <1>13, InputAssumption
     DEF TypeOK, StreamsConsistent, StreamTaken, Binding, Tick
<1>14. CASE UNCHANGED vars
  BY <1>14 DEF StreamsConsistent, StreamTaken, Binding, vars
<1>15. QED
  BY <1>1, <1>2, <1>3, <1>4, <1>5, <1>6, <1>7, <1>8, <1>9, <1>10, <1>11,
     <1>12, <1>13, <1>14
     DEF Next, Handle

\* Both tables hold the expiry claim of the capability.
LEMMA EntriesCarryClaimsStep ==
  ASSUME TypeOK, TaskOrder, EntriesCarryClaims, [Next]_vars
  PROVE  EntriesCarryClaims'
<1> USE DEF tables, task
<1>1. ASSUME NEW r \in Request, NEW f \in Offered, Arrive(r, f) PROVE EntriesCarryClaims'
  BY <1>1, InputAssumption
     DEF TypeOK, TaskOrder, EntriesCarryClaims, LiveAdmissions, LiveWindows,
         Retained, Frame, Arrive, Proceed
<1>2. ASSUME NEW r \in Request, EnterUnauthorized(r) PROVE EntriesCarryClaims'
  BY <1>2, InputAssumption
     DEF TypeOK, TaskOrder, EntriesCarryClaims, LiveAdmissions, LiveWindows,
         Retained, Frame, EnterUnauthorized, Reject
<1>3. ASSUME NEW r \in Request, Resolve(r) PROVE EntriesCarryClaims'
  BY <1>3, InputAssumption
     DEF TypeOK, TaskOrder, EntriesCarryClaims, LiveAdmissions, LiveWindows,
         Retained, Frame, Resolve, Reject, Proceed
<1>4. ASSUME NEW r \in Request, VerifierRefuses(r) PROVE EntriesCarryClaims'
  BY <1>4, InputAssumption
     DEF TypeOK, TaskOrder, EntriesCarryClaims, LiveAdmissions, LiveWindows,
         Retained, Frame, VerifierRefuses, Reject
<1>5. ASSUME NEW r \in Request, Verify(r) PROVE EntriesCarryClaims'
  BY <1>5, InputAssumption
     DEF TypeOK, TaskOrder, EntriesCarryClaims, LiveAdmissions, LiveWindows,
         Retained, Frame, Verify, Reject, Proceed
<1>6. ASSUME NEW r \in Request, Sequence(r) PROVE EntriesCarryClaims'
  <2> DEFINE w == <<frame[r].capability, frame[r].key>>
             live == LiveWindows(arrived[r])
  <2>1. frame[r] \in Frame /\ arrived[r] \in Nat
    BY <1>6 DEF TypeOK, TaskOrder, Sequence
  <2>2. w \in Capability \X Key /\ w[1] = frame[r].capability
    BY <2>1 DEF Frame
  <2>3. \A x \in Capability \X Key : live[x] # None => live[x] = windows[x]
    BY DEF LiveWindows, Retained
  <2>4. live \in [Capability \X Key -> SequenceAdmission \cup {None}]
    BY <2>1, PurgeType
  <2>5. ASSUME NEW x \in Capability \X Key, windows'[x] # None
        PROVE  windows'[x].expires = ExpiresAt[x[1]]
    BY <1>6, <2>2, <2>3, <2>4, <2>5 DEF Sequence, EntriesCarryClaims
  <2>6. QED
    BY <1>6, <2>5 DEF EntriesCarryClaims, Sequence
<1>7. ASSUME NEW r \in Request, AbortBody(r) PROVE EntriesCarryClaims'
  BY <1>7, InputAssumption
     DEF TypeOK, TaskOrder, EntriesCarryClaims, LiveAdmissions, LiveWindows,
         Retained, Frame, AbortBody, Proceed
<1>8. ASSUME NEW r \in Request, EndBody(r) PROVE EntriesCarryClaims'
  BY <1>8, InputAssumption
     DEF TypeOK, TaskOrder, EntriesCarryClaims, LiveAdmissions, LiveWindows,
         Retained, Frame, EndBody, LeaseExpired, Reject, Proceed
<1>9. ASSUME NEW r \in Request, Recheck(r) PROVE EntriesCarryClaims'
  BY <1>9, InputAssumption
     DEF TypeOK, TaskOrder, EntriesCarryClaims, LiveAdmissions, LiveWindows,
         Retained, Frame, Recheck, Reject, Proceed
<1>10. ASSUME NEW r \in Request, Forward(r) PROVE EntriesCarryClaims'
  BY <1>10, InputAssumption
     DEF TypeOK, TaskOrder, EntriesCarryClaims, LiveAdmissions, LiveWindows,
         Retained, Frame, Forward, Reject, Proceed
<1>11. ASSUME NEW b \in Candidate, Install(b) PROVE EntriesCarryClaims'
  BY <1>11, InputAssumption
     DEF TypeOK, TaskOrder, EntriesCarryClaims, LiveAdmissions, LiveWindows,
         Retained, Frame, Install
<1>12. ASSUME NEW k \in Revocable, Invalidate(k) PROVE EntriesCarryClaims'
  BY <1>12, InputAssumption
     DEF TypeOK, TaskOrder, EntriesCarryClaims, LiveAdmissions, LiveWindows,
         Retained, Frame, Invalidate
<1>13. ASSUME Tick PROVE EntriesCarryClaims'
  BY <1>13, InputAssumption
     DEF TypeOK, TaskOrder, EntriesCarryClaims, LiveAdmissions, LiveWindows,
         Retained, Frame, Tick
<1>14. CASE UNCHANGED vars
  BY <1>14
     DEF TaskOrder, EntriesCarryClaims, LiveAdmissions, LiveWindows, Retained,
         Frame, vars
<1>15. QED
  BY <1>1, <1>2, <1>3, <1>4, <1>5, <1>6, <1>7, <1>8, <1>9, <1>10, <1>11,
     <1>12, <1>13, <1>14
     DEF Next, Handle

\* A purge at some request's own, earlier time keeps every entry that is alive
\* now, and the guard never rebinds a live entry.
LEMMA LiveAdmissionTrackedStep ==
  ASSUME TypeOK, TaskOrder, EntriesCarryClaims, LiveAdmissionTracked, [Next]_vars
  PROVE  LiveAdmissionTracked'
<1> USE DEF tables, task
<1>1. ASSUME NEW r \in Request, NEW f \in Offered, Arrive(r, f) PROVE LiveAdmissionTracked'
  BY <1>1, InputAssumption
     DEF TypeOK, TaskOrder, LiveAdmissionTracked, Frame, Arrive, Proceed
<1>2. ASSUME NEW r \in Request, EnterUnauthorized(r) PROVE LiveAdmissionTracked'
  BY <1>2, InputAssumption
     DEF TypeOK, TaskOrder, LiveAdmissionTracked, Frame, EnterUnauthorized, Reject
<1>3. ASSUME NEW r \in Request, Resolve(r) PROVE LiveAdmissionTracked'
  BY <1>3, InputAssumption
     DEF TypeOK, TaskOrder, LiveAdmissionTracked, Frame, Resolve, Reject,
         Proceed
<1>4. ASSUME NEW r \in Request, VerifierRefuses(r) PROVE LiveAdmissionTracked'
  BY <1>4, InputAssumption
     DEF TypeOK, TaskOrder, LiveAdmissionTracked, Frame, VerifierRefuses,
         Reject
<1>5. ASSUME NEW r \in Request, Verify(r) PROVE LiveAdmissionTracked'
  <2> DEFINE c == frame[r].capability
             live == LiveAdmissions(arrived[r])
             fingerprint == [key |-> frame[r].key, identity |-> bound[r].identity]
             answer == GuardAnswer(live, c, fingerprint)
  <2>1. frame[r] \in Frame /\ arrived[r] \in Nat /\ clock \in Nat /\ arrived[r] <= clock
    BY <1>5 DEF TypeOK, TaskOrder, Verify
  <2>2. c \in Capability
    BY <2>1 DEF Frame
  <2>3. UNCHANGED <<clock, frame, leased>>
    BY <1>5 DEF Verify
  <2>4. /\ r \in Request /\ phase[r] = "verify" /\ ~leased[r]
        /\ \A q \in Request : q # r => phase'[q] = phase[q]
        /\ phase'[r] = "sequence" => answer = "ok"
    BY <1>5 DEF Verify, Reject, Proceed, TypeOK, TaskOrder
  <2>5. admissions' = IF answer = "ok"
                      THEN [live EXCEPT ![c] = [fingerprint |-> fingerprint,
                                                expires |-> ExpiresAt[c]]]
                      ELSE live
    BY <1>5 DEF Verify
  <2>6. live \in [Capability -> Admission \cup {None}]
    BY <2>1, PurgeType
  <2>7. fingerprint.key = frame[r].key
    OBVIOUS
  <2>8. ASSUME phase'[r] = "sequence"
        PROVE  admissions'[c] = [fingerprint |-> fingerprint, expires |-> ExpiresAt[c]]
    BY <2>2, <2>4, <2>5, <2>6, <2>8
  <2>9. [fingerprint |-> fingerprint, expires |-> ExpiresAt[c]] # None
    <3>1. frame[r].key \in Key /\ bound[r].identity \in Identity
      BY <1>5, <2>1 DEF Frame, TypeOK, TaskOrder, Registered, Verify
    <3>2. [fingerprint |-> fingerprint, expires |-> ExpiresAt[c]] \in Admission
      BY <2>2, <3>1, ClaimsAssumption DEF Admission, Fingerprint
    <3>3. QED
      BY <3>2, NoneAssumption
  <2>10. ASSUME NEW q \in Request, q # r, leased[q] \/ phase[q] = "sequence",
               clock < ExpiresAt[frame[q].capability]
        PROVE  /\ admissions'[frame[q].capability] # None
               /\ admissions'[frame[q].capability].fingerprint.key = frame[q].key
    <3> DEFINE cq == frame[q].capability
    <3>1. frame[q] \in Frame
      BY <2>10 DEF TypeOK, TaskOrder
    <3>2. cq \in Capability /\ ExpiresAt[cq] \in Nat
      BY <3>1, ClaimsAssumption DEF Frame
    <3>3. /\ admissions[cq] # None
          /\ admissions[cq].fingerprint.key = frame[q].key
          /\ admissions[cq].expires = ExpiresAt[cq]
      BY <2>10, <3>2 DEF LiveAdmissionTracked, EntriesCarryClaims
    <3>4. live[cq] = admissions[cq]
      BY <2>1, <2>10, <3>2, <3>3 DEF LiveAdmissions, Retained
    <3>5. CASE answer = "ok" /\ cq = c
      <4>1. live[c].fingerprint = fingerprint
        BY <3>3, <3>4, <3>5 DEF GuardAnswer
      <4>2. admissions'[c] = [fingerprint |-> fingerprint, expires |-> ExpiresAt[c]]
        BY <2>2, <2>5, <2>6, <3>5
      <4>3. QED
        BY <3>3, <3>4, <3>5, <4>1, <4>2, <2>7, <2>9
    <3>6. CASE ~(answer = "ok" /\ cq = c)
      BY <2>2, <2>5, <2>6, <3>2, <3>3, <3>4, <3>6
    <3>7. QED
      BY <3>5, <3>6
  <2>11. ASSUME NEW q \in Request, leased'[q] \/ phase'[q] = "sequence",
                clock' < ExpiresAt[frame'[q].capability]
         PROVE  /\ admissions'[frame'[q].capability] # None
                /\ admissions'[frame'[q].capability].fingerprint.key = frame'[q].key
    <3>1. CASE q = r
      BY <2>3, <2>4, <2>7, <2>8, <2>9, <2>11, <3>1
    <3>2. CASE q # r
      BY <2>3, <2>4, <2>10, <2>11, <3>2
    <3>3. QED
      BY <3>1, <3>2
  <2>12. QED
    BY <2>11 DEF LiveAdmissionTracked
<1>6. ASSUME NEW r \in Request, Sequence(r) PROVE LiveAdmissionTracked'
  BY <1>6, InputAssumption
     DEF TypeOK, TaskOrder, LiveAdmissionTracked, Frame, Sequence, Grant,
         Reject, Proceed
<1>7. ASSUME NEW r \in Request, AbortBody(r) PROVE LiveAdmissionTracked'
  BY <1>7, InputAssumption
     DEF TypeOK, TaskOrder, LiveAdmissionTracked, Frame, AbortBody, Proceed
<1>8. ASSUME NEW r \in Request, EndBody(r) PROVE LiveAdmissionTracked'
  BY <1>8, InputAssumption
     DEF TypeOK, TaskOrder, LiveAdmissionTracked, Frame, EndBody,
         LeaseExpired, Reject, Proceed
<1>9. ASSUME NEW r \in Request, Recheck(r) PROVE LiveAdmissionTracked'
  BY <1>9, InputAssumption
     DEF TypeOK, TaskOrder, LiveAdmissionTracked, Frame, Recheck, Reject,
         Proceed
<1>10. ASSUME NEW r \in Request, Forward(r) PROVE LiveAdmissionTracked'
  BY <1>10, InputAssumption
     DEF TypeOK, TaskOrder, LiveAdmissionTracked, Frame, Forward, Reject,
         Proceed
<1>11. ASSUME NEW b \in Candidate, Install(b) PROVE LiveAdmissionTracked'
  BY <1>11, InputAssumption
     DEF TypeOK, TaskOrder, LiveAdmissionTracked, Frame, Install
<1>12. ASSUME NEW k \in Revocable, Invalidate(k) PROVE LiveAdmissionTracked'
  BY <1>12, InputAssumption
     DEF TypeOK, TaskOrder, LiveAdmissionTracked, Frame, Invalidate
<1>13. ASSUME Tick PROVE LiveAdmissionTracked'
  BY <1>13, ClaimsAssumption
     DEF TypeOK, TaskOrder, LiveAdmissionTracked, Tick, Frame
<1>14. CASE UNCHANGED vars
  BY <1>14 DEF TaskOrder, LiveAdmissionTracked, Frame, vars
<1>15. QED
  BY <1>1, <1>2, <1>3, <1>4, <1>5, <1>6, <1>7, <1>8, <1>9, <1>10, <1>11,
     <1>12, <1>13, <1>14
     DEF Next, Handle

\* What a step of the sequence windows does: the request's own stream moves on
\* to a window in which its frame is spent, every live window is kept.
LEMMA SequenceEffect ==
  ASSUME TypeOK, TaskOrder, EntriesCarryClaims, NEW r \in Request, Sequence(r),
         NEW x \in Capability \X Key, NEW t \in Nat,
         clock < ExpiresAt[x[1]], windows[x] # None, Spent(windows[x].window, t)
  PROVE  /\ windows'[x] # None
         /\ Spent(windows'[x].window, t)
         /\ leased'[r] /\ x = <<frame[r].capability, frame[r].key>>
              => t # frame[r].sequence
<1> DEFINE w == <<frame[r].capability, frame[r].key>>
           live == LiveWindows(arrived[r])
           s == frame[r].sequence
           full == live[w] = None /\ Full(live)
           after == IF live[w] = None THEN First(s) ELSE Admit(live[w].window, s)
           entry == [window |-> after, expires |-> ExpiresAt[frame[r].capability]]
<1>1. /\ frame[r] \in Frame /\ ~leased[r]
      /\ arrived[r] \in Nat /\ clock \in Nat /\ arrived[r] <= clock
  BY DEF TypeOK, TaskOrder, Sequence
<1>2. w \in Capability \X Key /\ s \in Nat /\ frame[r].capability \in Capability
  BY <1>1 DEF Frame
<1>3. live \in [Capability \X Key -> SequenceAdmission \cup {None}]
  BY <1>1, PurgeType
<1>4. live[x] = windows[x]
  <2>1. windows[x].expires = ExpiresAt[x[1]] /\ ExpiresAt[x[1]] \in Nat
    BY ClaimsAssumption DEF EntriesCarryClaims
  <2>2. QED
    BY <1>1, <2>1 DEF LiveWindows, Retained
<1>5. live[x].window \in Window
  BY <1>3, <1>4 DEF SequenceAdmission
<1>6. windows' = IF full THEN live ELSE [live EXCEPT ![w] = entry]
  BY DEF Sequence
<1>7. leased'[r] => ~full /\ (live[w] # None => Admits(live[w].window, s))
  BY <1>1 DEF Sequence
<1>8. CASE x # w
  BY <1>2, <1>3, <1>4, <1>6, <1>8
<1>9. CASE x = w
  <2>1. ~full
    BY <1>4, <1>9
  <2>2. after = Admit(live[w].window, s)
    BY <1>4, <1>9
  <2>3. Spent(after, t)
    BY <1>2, <1>4, <1>5, <1>9, <2>2, SpentForever
  <2>4. windows'[x] = entry
    BY <1>2, <1>3, <1>6, <1>9, <2>1
  <2>5. entry \in SequenceAdmission
    BY <1>2, <1>5, <1>9, <2>2, AdmitType, ClaimsAssumption DEF SequenceAdmission
  <2>6. leased'[r] => t # s
    BY <1>2, <1>4, <1>5, <1>7, <1>9, AdmitsIffNotSpent
  <2>7. QED
    BY <2>3, <2>4, <2>5, <2>6, NoneAssumption
<1>10. QED
  BY <1>8, <1>9

\* A request that obtains a lease finds its own frame spent.
LEMMA GrantSpends ==
  ASSUME TypeOK, TaskOrder, NEW r \in Request, Sequence(r), leased'[r]
  PROVE  LET w == <<frame[r].capability, frame[r].key>>
         IN  windows'[w] # None /\ Spent(windows'[w].window, frame[r].sequence)
<1> DEFINE w == <<frame[r].capability, frame[r].key>>
           live == LiveWindows(arrived[r])
           s == frame[r].sequence
           full == live[w] = None /\ Full(live)
           after == IF live[w] = None THEN First(s) ELSE Admit(live[w].window, s)
           entry == [window |-> after, expires |-> ExpiresAt[frame[r].capability]]
<1>1. frame[r] \in Frame /\ ~leased[r] /\ arrived[r] \in Nat
  BY DEF TypeOK, TaskOrder, Sequence
<1>2. w \in Capability \X Key /\ s \in Nat /\ frame[r].capability \in Capability
  BY <1>1 DEF Frame
<1>3. live \in [Capability \X Key -> SequenceAdmission \cup {None}]
  BY <1>1, PurgeType
<1>4. windows' = IF full THEN live ELSE [live EXCEPT ![w] = entry]
  BY DEF Sequence
<1>5. ~full
  BY <1>1 DEF Sequence
<1>6. windows'[w] = entry
  BY <1>2, <1>3, <1>4, <1>5
<1>7. after \in Window /\ Spent(after, s)
  <2>1. CASE live[w] = None
    BY <1>2, <2>1, FirstSpends
  <2>2. CASE live[w] # None
    <3>1. live[w].window \in Window
      BY <1>2, <1>3, <2>2 DEF SequenceAdmission
    <3>2. QED
      BY <1>2, <2>2, <3>1, AdmitType, AdmitSpends
  <2>3. QED
    BY <2>1, <2>2
<1>8. entry \in SequenceAdmission
  BY <1>2, <1>7, ClaimsAssumption DEF SequenceAdmission
<1>9. QED
  BY <1>6, <1>7, <1>8, NoneAssumption

\* No purge, capacity refusal, jump or late frame frees a live lease's sequence.
LEMMA LiveLeaseTrackedStep ==
  ASSUME TypeOK, TaskOrder, EntriesCarryClaims, LiveLeaseTracked, [Next]_vars
  PROVE  LiveLeaseTracked'
<1> USE DEF tables, task
<1>1. ASSUME NEW r \in Request, NEW f \in Offered, Arrive(r, f) PROVE LiveLeaseTracked'
  BY <1>1, InputAssumption
     DEF TypeOK, TaskOrder, LiveLeaseTracked, Frame, Arrive, Proceed
<1>2. ASSUME NEW r \in Request, EnterUnauthorized(r) PROVE LiveLeaseTracked'
  BY <1>2, InputAssumption
     DEF TypeOK, TaskOrder, LiveLeaseTracked, Frame, EnterUnauthorized, Reject
<1>3. ASSUME NEW r \in Request, Resolve(r) PROVE LiveLeaseTracked'
  BY <1>3, InputAssumption
     DEF TypeOK, TaskOrder, LiveLeaseTracked, Frame, Resolve, Reject, Proceed
<1>4. ASSUME NEW r \in Request, VerifierRefuses(r) PROVE LiveLeaseTracked'
  BY <1>4, InputAssumption
     DEF TypeOK, TaskOrder, LiveLeaseTracked, Frame, VerifierRefuses, Reject
<1>5. ASSUME NEW r \in Request, Verify(r) PROVE LiveLeaseTracked'
  BY <1>5, InputAssumption
     DEF TypeOK, TaskOrder, LiveLeaseTracked, Frame, Verify, Reject, Proceed
<1>6. ASSUME NEW r \in Request, Sequence(r) PROVE LiveLeaseTracked'
  <2>1. UNCHANGED <<clock, frame>> /\ \A q \in Request : q # r => leased'[q] = leased[q]
    BY <1>6 DEF Sequence, Reject, Grant, TypeOK
  <2>2. ASSUME NEW q \in Request, q # r, leased[q],
               clock < ExpiresAt[frame[q].capability]
        PROVE  LET w == <<frame[q].capability, frame[q].key>>
               IN  windows'[w] # None /\ Spent(windows'[w].window, frame[q].sequence)
    <3> DEFINE w == <<frame[q].capability, frame[q].key>>
    <3>1. frame[q] \in Frame
      BY <2>2 DEF TypeOK, TaskOrder
    <3>2. /\ w \in Capability \X Key
          /\ w[1] = frame[q].capability
          /\ frame[q].sequence \in Nat
      BY <3>1 DEF Frame
    <3>3. windows[w] # None /\ Spent(windows[w].window, frame[q].sequence)
      BY <2>2 DEF LiveLeaseTracked
    <3>4. QED
      BY <1>6, <2>2, <3>2, <3>3, SequenceEffect
  <2>3. ASSUME leased'[r]
        PROVE  LET w == <<frame[r].capability, frame[r].key>>
               IN  windows'[w] # None /\ Spent(windows'[w].window, frame[r].sequence)
    BY <1>6, <2>3, GrantSpends
  <2>4. QED
    BY <2>1, <2>2, <2>3 DEF LiveLeaseTracked
<1>7. ASSUME NEW r \in Request, AbortBody(r) PROVE LiveLeaseTracked'
  BY <1>7, InputAssumption
     DEF TypeOK, TaskOrder, LiveLeaseTracked, Frame, AbortBody, Proceed
<1>8. ASSUME NEW r \in Request, EndBody(r) PROVE LiveLeaseTracked'
  BY <1>8, InputAssumption
     DEF TypeOK, TaskOrder, LiveLeaseTracked, Frame, EndBody, LeaseExpired,
         Reject, Proceed
<1>9. ASSUME NEW r \in Request, Recheck(r) PROVE LiveLeaseTracked'
  BY <1>9, InputAssumption
     DEF TypeOK, TaskOrder, LiveLeaseTracked, Frame, Recheck, Reject, Proceed
<1>10. ASSUME NEW r \in Request, Forward(r) PROVE LiveLeaseTracked'
  BY <1>10, InputAssumption
     DEF TypeOK, TaskOrder, LiveLeaseTracked, Frame, Forward, Reject, Proceed
<1>11. ASSUME NEW b \in Candidate, Install(b) PROVE LiveLeaseTracked'
  BY <1>11, InputAssumption
     DEF TypeOK, TaskOrder, LiveLeaseTracked, Frame, Install
<1>12. ASSUME NEW k \in Revocable, Invalidate(k) PROVE LiveLeaseTracked'
  BY <1>12, InputAssumption
     DEF TypeOK, TaskOrder, LiveLeaseTracked, Frame, Invalidate
<1>13. ASSUME Tick PROVE LiveLeaseTracked'
  BY <1>13, ClaimsAssumption
     DEF TypeOK, TaskOrder, LiveLeaseTracked, Tick, Frame
<1>14. CASE UNCHANGED vars
  BY <1>14 DEF TaskOrder, LiveLeaseTracked, Frame, vars
<1>15. QED
  BY <1>1, <1>2, <1>3, <1>4, <1>5, <1>6, <1>7, <1>8, <1>9, <1>10, <1>11,
     <1>12, <1>13, <1>14
     DEF Next, Handle

\* A frame with a live lease is refused a second one.
LEMMA LiveLeasesDistinctStep ==
  ASSUME TypeOK, TaskOrder, EntriesCarryClaims, LiveLeaseTracked,
         LiveLeasesDistinct, [Next]_vars
  PROVE  LiveLeasesDistinct'
<1> USE DEF tables, task
<1>1. ASSUME NEW r \in Request, NEW f \in Offered, Arrive(r, f) PROVE LiveLeasesDistinct'
  BY <1>1, InputAssumption
     DEF TypeOK, TaskOrder, LiveLeasesDistinct, SameFrame, Frame, Arrive,
         Proceed
<1>2. ASSUME NEW r \in Request, EnterUnauthorized(r) PROVE LiveLeasesDistinct'
  BY <1>2, InputAssumption
     DEF TypeOK, TaskOrder, LiveLeasesDistinct, SameFrame, Frame, EnterUnauthorized,
         Reject
<1>3. ASSUME NEW r \in Request, Resolve(r) PROVE LiveLeasesDistinct'
  BY <1>3, InputAssumption
     DEF TypeOK, TaskOrder, LiveLeasesDistinct, SameFrame, Frame, Resolve,
         Reject, Proceed
<1>4. ASSUME NEW r \in Request, VerifierRefuses(r) PROVE LiveLeasesDistinct'
  BY <1>4, InputAssumption
     DEF TypeOK, TaskOrder, LiveLeasesDistinct, SameFrame, Frame,
         VerifierRefuses, Reject
<1>5. ASSUME NEW r \in Request, Verify(r) PROVE LiveLeasesDistinct'
  BY <1>5, InputAssumption
     DEF TypeOK, TaskOrder, LiveLeasesDistinct, SameFrame, Frame, Verify,
         Reject, Proceed
<1>6. ASSUME NEW r \in Request, Sequence(r) PROVE LiveLeasesDistinct'
  <2>1. UNCHANGED <<clock, frame>> /\ \A q \in Request : q # r => leased'[q] = leased[q]
    BY <1>6 DEF Sequence, Reject, Grant, TypeOK
  <2>2. ASSUME NEW q \in Request, q # r, leased[q], leased'[r], SameFrame(q, r),
               clock < ExpiresAt[frame[q].capability]
        PROVE  FALSE
    <3> DEFINE w == <<frame[q].capability, frame[q].key>>
    <3>1. frame[q] \in Frame
      BY <2>2 DEF TypeOK, TaskOrder
    <3>2. /\ w \in Capability \X Key
          /\ w[1] = frame[q].capability
          /\ frame[q].sequence \in Nat
      BY <3>1 DEF Frame
    <3>3. windows[w] # None /\ Spent(windows[w].window, frame[q].sequence)
      BY <2>2 DEF LiveLeaseTracked
    <3>4. QED
      BY <1>6, <2>2, <3>2, <3>3, SequenceEffect DEF SameFrame
  <2>3. QED
    BY <2>1, <2>2 DEF LiveLeasesDistinct, SameFrame
<1>7. ASSUME NEW r \in Request, AbortBody(r) PROVE LiveLeasesDistinct'
  BY <1>7, InputAssumption
     DEF TypeOK, TaskOrder, LiveLeasesDistinct, SameFrame, Frame, AbortBody,
         Proceed
<1>8. ASSUME NEW r \in Request, EndBody(r) PROVE LiveLeasesDistinct'
  BY <1>8, InputAssumption
     DEF TypeOK, TaskOrder, LiveLeasesDistinct, SameFrame, Frame, EndBody,
         LeaseExpired, Reject, Proceed
<1>9. ASSUME NEW r \in Request, Recheck(r) PROVE LiveLeasesDistinct'
  BY <1>9, InputAssumption
     DEF TypeOK, TaskOrder, LiveLeasesDistinct, SameFrame, Frame, Recheck,
         Reject, Proceed
<1>10. ASSUME NEW r \in Request, Forward(r) PROVE LiveLeasesDistinct'
  BY <1>10, InputAssumption
     DEF TypeOK, TaskOrder, LiveLeasesDistinct, SameFrame, Frame, Forward,
         Reject, Proceed
<1>11. ASSUME NEW b \in Candidate, Install(b) PROVE LiveLeasesDistinct'
  BY <1>11, InputAssumption
     DEF TypeOK, TaskOrder, LiveLeasesDistinct, SameFrame, Frame, Install
<1>12. ASSUME NEW k \in Revocable, Invalidate(k) PROVE LiveLeasesDistinct'
  BY <1>12, InputAssumption
     DEF TypeOK, TaskOrder, LiveLeasesDistinct, SameFrame, Frame, Invalidate
<1>13. ASSUME Tick PROVE LiveLeasesDistinct'
  BY <1>13, ClaimsAssumption
     DEF TypeOK, TaskOrder, LiveLeasesDistinct, SameFrame, Tick, Frame
<1>14. CASE UNCHANGED vars
  BY <1>14 DEF TaskOrder, LiveLeasesDistinct, SameFrame, Frame, vars
<1>15. QED
  BY <1>1, <1>2, <1>3, <1>4, <1>5, <1>6, <1>7, <1>8, <1>9, <1>10, <1>11,
     <1>12, <1>13, <1>14
     DEF Next, Handle

\* Only a live lease passes the expiry check, so a frame passes it once.
LEMMA PassedDistinctStep ==
  ASSUME TypeOK, TaskOrder, LiveLeasesDistinct, PassedDistinct, [Next]_vars
  PROVE  PassedDistinct'
<1> USE DEF tables, task
<1>1. ASSUME NEW r \in Request, NEW f \in Offered, Arrive(r, f) PROVE PassedDistinct'
  BY <1>1, InputAssumption
     DEF TypeOK, TaskOrder, PassedDistinct, Passed, SameFrame, Arrive, Proceed
<1>2. ASSUME NEW r \in Request, EnterUnauthorized(r) PROVE PassedDistinct'
  BY <1>2, InputAssumption
     DEF TypeOK, TaskOrder, PassedDistinct, Passed, SameFrame, EnterUnauthorized,
         Reject
<1>3. ASSUME NEW r \in Request, Resolve(r) PROVE PassedDistinct'
  BY <1>3, InputAssumption
     DEF TypeOK, TaskOrder, PassedDistinct, Passed, SameFrame, Resolve,
         Reject, Proceed
<1>4. ASSUME NEW r \in Request, VerifierRefuses(r) PROVE PassedDistinct'
  BY <1>4, InputAssumption
     DEF TypeOK, TaskOrder, PassedDistinct, Passed, SameFrame,
         VerifierRefuses, Reject
<1>5. ASSUME NEW r \in Request, Verify(r) PROVE PassedDistinct'
  BY <1>5, InputAssumption
     DEF TypeOK, TaskOrder, PassedDistinct, Passed, SameFrame, Verify, Reject,
         Proceed
<1>6. ASSUME NEW r \in Request, Sequence(r) PROVE PassedDistinct'
  BY <1>6, InputAssumption
     DEF TypeOK, TaskOrder, PassedDistinct, Passed, SameFrame, Sequence,
         Grant, Reject, Proceed
<1>7. ASSUME NEW r \in Request, AbortBody(r) PROVE PassedDistinct'
  BY <1>7, InputAssumption
     DEF TypeOK, TaskOrder, PassedDistinct, Passed, SameFrame, AbortBody,
         Proceed
<1>8. ASSUME NEW r \in Request, EndBody(r) PROVE PassedDistinct'
  <2>1. UNCHANGED <<clock, frame, leased>>
    BY <1>8 DEF EndBody, LeaseExpired
  <2>2. ASSUME NEW q \in Request, Passed(q)', ~Passed(q)
        PROVE  q = r /\ leased[r] /\ clock < ExpiresAt[frame[r].capability]
    <3>1. q = r /\ leased[r] /\ ~LeaseExpired(r)
      BY <1>8, <2>2 DEF TypeOK, TaskOrder, EndBody, Reject, Proceed, Passed
    <3>2. frame[r] \in Frame
      BY <3>1 DEF TypeOK, TaskOrder
    <3>3. clock \in Nat /\ ExpiresAt[frame[r].capability] \in Nat
      BY <3>2, ClaimsAssumption DEF TypeOK, Frame
    <3>4. QED
      BY <3>1, <3>3 DEF LeaseExpired
  <2>3. ASSUME NEW q \in Request, Passed(q)'
        PROVE  leased[q]
    BY <2>1, <2>3 DEF Passed
  <2>4. ASSUME NEW q \in Request, NEW t \in Request, Passed(q)', Passed(t)',
               SameFrame(q, t)
        PROVE  q = t
    BY <2>2, <2>3, <2>4 DEF LiveLeasesDistinct, PassedDistinct, SameFrame
  <2>5. QED
    BY <2>1, <2>4 DEF PassedDistinct, SameFrame
<1>9. ASSUME NEW r \in Request, Recheck(r) PROVE PassedDistinct'
  BY <1>9, InputAssumption
     DEF TypeOK, TaskOrder, PassedDistinct, Passed, SameFrame, Recheck,
         Reject, Proceed
<1>10. ASSUME NEW r \in Request, Forward(r) PROVE PassedDistinct'
  <2>1. /\ leased' = leased /\ frame' = frame
        /\ \/ code' = code
           \/ code' = [code EXCEPT ![r] = "datagram_limit"]
        /\ phase[r] = "forward"
        /\ \A q \in Request \ {r} : phase'[q] = phase[q]
    BY <1>10 DEF Forward, Reject, Proceed, TypeOK
  <2>2. ASSUME NEW q \in Request, Passed(q)' PROVE Passed(q)
    <3>1. leased[q] /\ code[q] = "ok"
      BY <2>1, <2>2 DEF Passed, TypeOK
    <3>2. phase[q] \in {"recheck", "forward", "sent", "failed"}
      BY <2>1, <2>2 DEF Passed
    <3>3. QED
      BY <3>1, <3>2 DEF Passed
  <2>3. QED
    BY <2>1, <2>2 DEF PassedDistinct, SameFrame
<1>11. ASSUME NEW b \in Candidate, Install(b) PROVE PassedDistinct'
  BY <1>11, InputAssumption
     DEF TypeOK, TaskOrder, PassedDistinct, Passed, SameFrame, Install
<1>12. ASSUME NEW k \in Revocable, Invalidate(k) PROVE PassedDistinct'
  BY <1>12, InputAssumption
     DEF TypeOK, TaskOrder, PassedDistinct, Passed, SameFrame, Invalidate
<1>13. ASSUME Tick PROVE PassedDistinct'
  BY <1>13, InputAssumption
     DEF TypeOK, TaskOrder, PassedDistinct, Passed, SameFrame, Tick
<1>14. CASE UNCHANGED vars
  BY <1>14 DEF TaskOrder, PassedDistinct, Passed, SameFrame, vars
<1>15. QED
  BY <1>1, <1>2, <1>3, <1>4, <1>5, <1>6, <1>7, <1>8, <1>9, <1>10, <1>11,
     <1>12, <1>13, <1>14
     DEF Next, Handle

\* The admission a live lease rests on names its coordinates.
LEMMA PassedOneBindingStep ==
  ASSUME TypeOK, TaskOrder, LiveAdmissionTracked, PassedOneBinding, [Next]_vars
  PROVE  PassedOneBinding'
<1> USE DEF tables, task
<1>1. ASSUME NEW r \in Request, NEW f \in Offered, Arrive(r, f) PROVE PassedOneBinding'
  BY <1>1, InputAssumption
     DEF TypeOK, TaskOrder, PassedOneBinding, Passed, Arrive, Proceed
<1>2. ASSUME NEW r \in Request, EnterUnauthorized(r) PROVE PassedOneBinding'
  BY <1>2, InputAssumption
     DEF TypeOK, TaskOrder, PassedOneBinding, Passed, EnterUnauthorized, Reject
<1>3. ASSUME NEW r \in Request, Resolve(r) PROVE PassedOneBinding'
  BY <1>3, InputAssumption
     DEF TypeOK, TaskOrder, PassedOneBinding, Passed, Resolve, Reject, Proceed
<1>4. ASSUME NEW r \in Request, VerifierRefuses(r) PROVE PassedOneBinding'
  BY <1>4, InputAssumption
     DEF TypeOK, TaskOrder, PassedOneBinding, Passed, VerifierRefuses, Reject
<1>5. ASSUME NEW r \in Request, Verify(r) PROVE PassedOneBinding'
  BY <1>5, InputAssumption
     DEF TypeOK, TaskOrder, PassedOneBinding, Passed, Verify, Reject, Proceed
<1>6. ASSUME NEW r \in Request, Sequence(r) PROVE PassedOneBinding'
  BY <1>6, InputAssumption
     DEF TypeOK, TaskOrder, PassedOneBinding, Passed, Sequence, Grant, Reject,
         Proceed
<1>7. ASSUME NEW r \in Request, AbortBody(r) PROVE PassedOneBinding'
  BY <1>7, InputAssumption
     DEF TypeOK, TaskOrder, PassedOneBinding, Passed, AbortBody, Proceed
<1>8. ASSUME NEW r \in Request, EndBody(r) PROVE PassedOneBinding'
  <2>1. UNCHANGED <<clock, frame, leased, admissions>>
    BY <1>8 DEF EndBody, LeaseExpired
  <2>2. ASSUME NEW q \in Request, Passed(q)', ~Passed(q)
        PROVE  q = r /\ leased[r] /\ clock < ExpiresAt[frame[r].capability]
    <3>1. q = r /\ leased[r] /\ ~LeaseExpired(r)
      BY <1>8, <2>2 DEF TypeOK, TaskOrder, EndBody, Reject, Proceed, Passed
    <3>2. frame[r] \in Frame
      BY <3>1 DEF TypeOK, TaskOrder
    <3>3. clock \in Nat /\ ExpiresAt[frame[r].capability] \in Nat
      BY <3>2, ClaimsAssumption DEF TypeOK, Frame
    <3>4. QED
      BY <3>1, <3>3 DEF LeaseExpired
  <2>3. ASSUME NEW q \in Request, Passed(q)'
        PROVE  leased[q]
    BY <2>1, <2>3 DEF Passed
  <2>4. ASSUME NEW q \in Request, NEW t \in Request, Passed(q)', Passed(t)',
               frame[q].capability = frame[t].capability
        PROVE  frame[q].key = frame[t].key
    <3>1. CASE Passed(q) /\ Passed(t)
      BY <2>4, <3>1 DEF PassedOneBinding
    <3>2. CASE ~(Passed(q) /\ Passed(t))
      <4>1. clock < ExpiresAt[frame[q].capability]
        BY <2>2, <2>4, <3>2
      <4>2. QED
        BY <2>3, <2>4, <4>1 DEF LiveAdmissionTracked
    <3>3. QED
      BY <3>1, <3>2
  <2>5. QED
    BY <2>1, <2>4 DEF PassedOneBinding
<1>9. ASSUME NEW r \in Request, Recheck(r) PROVE PassedOneBinding'
  BY <1>9, InputAssumption
     DEF TypeOK, TaskOrder, PassedOneBinding, Passed, Recheck, Reject, Proceed
<1>10. ASSUME NEW r \in Request, Forward(r) PROVE PassedOneBinding'
  BY <1>10, InputAssumption
     DEF TypeOK, TaskOrder, PassedOneBinding, Passed, Forward, Reject, Proceed
<1>11. ASSUME NEW b \in Candidate, Install(b) PROVE PassedOneBinding'
  BY <1>11, InputAssumption
     DEF TypeOK, TaskOrder, PassedOneBinding, Passed, Install
<1>12. ASSUME NEW k \in Revocable, Invalidate(k) PROVE PassedOneBinding'
  BY <1>12, InputAssumption
     DEF TypeOK, TaskOrder, PassedOneBinding, Passed, Invalidate
<1>13. ASSUME Tick PROVE PassedOneBinding'
  BY <1>13, InputAssumption
     DEF TypeOK, TaskOrder, PassedOneBinding, Passed, Tick
<1>14. CASE UNCHANGED vars
  BY <1>14 DEF TaskOrder, PassedOneBinding, Passed, vars
<1>15. QED
  BY <1>1, <1>2, <1>3, <1>4, <1>5, <1>6, <1>7, <1>8, <1>9, <1>10, <1>11,
     <1>12, <1>13, <1>14
     DEF Next, Handle

-----------------------------------------------------------------------------
\* The theorems.

Inv == TypeOK /\ ReleaseInv

LEMMA InvInit == Init => Inv
<1> SUFFICES ASSUME Init PROVE Inv
  OBVIOUS
<1>1. TypeOK
  BY DEF Init, TypeOK, Phase, Code
<1>2. TaskOrder /\ BoundIsRegistered /\ StreamsConsistent /\ EntriesCarryClaims
  BY DEF Init, TaskOrder, BoundIsRegistered, StreamsConsistent, EntriesCarryClaims
<1>3. LiveAdmissionTracked /\ LiveLeaseTracked /\ LiveLeasesDistinct
  BY DEF Init, LiveAdmissionTracked, LiveLeaseTracked, LiveLeasesDistinct
<1>4. PassedDistinct /\ PassedOneBinding
  BY DEF Init, PassedDistinct, PassedOneBinding, Passed
<1>5. QED
  BY <1>1, <1>2, <1>3, <1>4 DEF Inv, ReleaseInv

LEMMA InvStep == Inv /\ [Next]_vars => Inv'
<1> SUFFICES ASSUME Inv, [Next]_vars PROVE Inv'
  OBVIOUS
<1> USE DEF Inv, ReleaseInv
<1>1. TypeOK'
  BY TypeStep
<1>2. TaskOrder' /\ BoundIsRegistered'
  BY TaskOrderStep, BoundIsRegisteredStep
<1>3. StreamsConsistent' /\ EntriesCarryClaims'
  BY StreamsConsistentStep, EntriesCarryClaimsStep
<1>4. LiveAdmissionTracked' /\ LiveLeaseTracked' /\ LiveLeasesDistinct'
  BY LiveAdmissionTrackedStep, LiveLeaseTrackedStep, LiveLeasesDistinctStep
<1>5. PassedDistinct' /\ PassedOneBinding'
  BY PassedDistinctStep, PassedOneBindingStep
<1>6. QED
  BY <1>1, <1>2, <1>3, <1>4, <1>5

LEMMA InvAlways == Spec => []Inv
BY InvInit, InvStep, PTL DEF Spec

\* Every table and every task keeps its type.
THEOREM TypeCorrect == Spec => []TypeOK
<1>1. Inv => TypeOK
  BY DEF Inv
<1>2. QED
  BY <1>1, InvAlways, PTL

\* The inductive invariant that the runs check holds for all constants.
THEOREM ReleaseInvariant == Spec => []ReleaseInv
<1>1. Inv => ReleaseInv
  BY DEF Inv
<1>2. QED
  BY <1>1, InvAlways, PTL

\* No frame of a capability is released twice: revoke, purge, refuse and
\* interleave as you like, as long as the clock does not run backwards and a
\* capability keeps its one expiry.
THEOREM ReleasedOnce == Spec => []AtMostOneRelease
<1>1. Inv => AtMostOneRelease
  BY DEF Inv, ReleaseInv, PassedDistinct, Passed, Released, AtMostOneRelease
<1>2. QED
  BY <1>1, InvAlways, PTL

\* A capability is released under one set of exact coordinates only.
THEOREM ReleasedUnderOneBinding == Spec => []OneBindingPerCapability
<1>1. Inv => OneBindingPerCapability
  BY DEF Inv, ReleaseInv, PassedOneBinding, Passed, Released, OneBindingPerCapability
<1>2. QED
  BY <1>1, InvAlways, PTL

\* A carrier stream carries one identity for the life of the process.
THEOREM StreamKeepsIdentity == Spec => []OneIdentityPerStream
<1>1. Inv => OneIdentityPerStream
  <2> SUFFICES ASSUME Inv, NEW r \in Request, NEW q \in Request,
                      Released(r), Released(q), frame[r].stream = frame[q].stream
               PROVE  bound[r].identity = bound[q].identity
    BY DEF OneIdentityPerStream
  <2>1. leased[r] /\ leased[q]
    BY DEF Released
  <2>2. frame[r] \in Frame /\ frame[q] \in Frame
    BY <2>1 DEF Inv, ReleaseInv, TypeOK, TaskOrder
  <2>3. frame[r].key \in Key /\ frame[q].key \in Key
    BY <2>2 DEF Frame
  <2>4. QED
    BY <2>1, <2>3 DEF Inv, ReleaseInv, BoundIsRegistered, StreamsConsistent
<1>2. QED
  BY <1>1, InvAlways, PTL

\* Revoked coordinates are never revived, installed ones never changed.
THEOREM RevocationFinal == Spec => RevocationIsFinal
<1>1. Inv /\ [Next]_vars => RegistryStep
  BY RegistryStable DEF Inv
<1>2. QED
  BY <1>1, InvAlways, PTL DEF Spec, RevocationIsFinal, RegistryStep

\* The recheck of the request is not over, or it did not answer "ok".
Denied(r) ==
  /\ phase[r] # "idle"
  /\ phase[r] \in {"forward", "sent", "failed"} => ~(leased[r] /\ code[r] = "ok")

\* The request can no longer be released: its binding is revoked, and it has
\* either not passed its recheck or left it without a verdict of "ok".
Fenced(r) ==
  /\ frame[r] # None
  /\ bindings[frame[r].key] # None
  /\ ~bindings[frame[r].key].active
  /\ Denied(r)

LEMMA FencedStep ==
  ASSUME Inv, [Next]_vars, NEW r \in Request, Fenced(r)
  PROVE  Fenced(r)'
<1> USE DEF tables, task
<1>1. frame[r] \in Frame
  BY DEF Inv, TypeOK, Fenced
<1>2. frame[r].key \in Key
  BY <1>1 DEF Frame
<1>3. bindings'[frame[r].key] = bindings[frame[r].key]
  BY <1>2, RegistryStable DEF Inv, RegistryStep, Fenced
<1>4. frame'[r] = frame[r]
  <2>1. ASSUME NEW q \in Request, NEW f \in Offered, Arrive(q, f)
        PROVE  frame'[r] = frame[r]
    BY <2>1 DEF Inv, TypeOK, Arrive, Fenced, Denied
  <2>2. ASSUME NEW q \in Request, Handle(q), \A f \in Offered : ~Arrive(q, f)
        PROVE  frame' = frame
    BY <2>2 DEF Handle, EnterUnauthorized, Resolve, VerifierRefuses, Verify, Sequence,
                AbortBody, EndBody, LeaseExpired, Recheck, Forward
  <2>3. QED
    BY <2>1, <2>2 DEF Next, vars, Install, Invalidate, Tick
<1>5. Denied(r)'
  <2> SUFFICES ASSUME Next PROVE Denied(r)'
    BY DEF vars, Fenced, Denied
  <2> USE DEF Inv, ReleaseInv, TypeOK, TaskOrder, Fenced, Denied
  <2>1. ASSUME NEW q \in Request, NEW f \in Offered, Arrive(q, f) PROVE Denied(r)'
    BY <2>1 DEF Arrive, Proceed
  <2>2. ASSUME NEW q \in Request, EnterUnauthorized(q) PROVE Denied(r)'
    BY <2>2 DEF EnterUnauthorized, Reject
  <2>3. ASSUME NEW q \in Request, Resolve(q) PROVE Denied(r)'
    BY <2>3 DEF Resolve, Reject, Proceed
  <2>4. ASSUME NEW q \in Request, VerifierRefuses(q) PROVE Denied(r)'
    BY <2>4 DEF VerifierRefuses, Reject
  <2>5. ASSUME NEW q \in Request, Verify(q) PROVE Denied(r)'
    BY <2>5 DEF Verify, Reject, Proceed
  <2>6. ASSUME NEW q \in Request, Sequence(q) PROVE Denied(r)'
    BY <2>6 DEF Sequence, Grant, Reject
  <2>7. ASSUME NEW q \in Request, AbortBody(q) PROVE Denied(r)'
    BY <2>7 DEF AbortBody, Proceed
  <2>8. ASSUME NEW q \in Request, EndBody(q) PROVE Denied(r)'
    BY <2>8 DEF EndBody, LeaseExpired, Reject, Proceed
  <2>9. ASSUME NEW q \in Request, Recheck(q) PROVE Denied(r)'
    <3>1. CASE q = r
      <4>1. Resolution(frame[r].key) = "revoked_binding"
        BY DEF Resolution
      <4>2. QED
        BY <2>9, <3>1, <4>1 DEF Recheck, Reject, Proceed
    <3>2. CASE q # r
      BY <2>9, <3>2 DEF Recheck, Reject, Proceed
    <3>3. QED
      BY <3>1, <3>2
  <2>10. ASSUME NEW q \in Request, Forward(q) PROVE Denied(r)'
    BY <2>10 DEF Forward, Reject, Proceed
  <2>11. ASSUME UNCHANGED task PROVE Denied(r)'
    BY <2>11
  <2>12. QED
    BY <2>1, <2>2, <2>3, <2>4, <2>5, <2>6, <2>7, <2>8, <2>9, <2>10, <2>11
    DEF Next, Handle, Install, Invalidate, Tick
<1>6. QED
  BY <1>3, <1>4, <1>5 DEF Fenced

\* A request that has not passed its recheck when its binding is revoked is
\* never released.
THEOREM RevokedRequestFenced == Spec => RevokedNeverReleased
<1> SUFFICES ASSUME NEW r \in Request
             PROVE  Spec => [](RevokedBefore(r) => []~Released(r))
  BY DEF RevokedNeverReleased
<1>1. RevokedBefore(r) => Fenced(r)
  BY DEF RevokedBefore, Fenced, Denied
<1>2. Inv /\ [Next]_vars /\ Fenced(r) => Fenced(r)'
  BY FencedStep
<1>3. Fenced(r) => ~Released(r)
  BY DEF Fenced, Denied, Released
<1>4. QED
  BY <1>1, <1>2, <1>3, InvAlways, PTL DEF Spec

-----------------------------------------------------------------------------
\* What is counted, and when: every request is rejected once, granted once.

\* A verdict other than "ok" is the last: an enforcing gate has answered the
\* client, an observing one lets the request on with no lease to lose, or past
\* the end of its body.
VerdictsFinal ==
  \A r \in Request : code[r] # "ok" =>
    \/ Mode = "enforce" /\ phase[r] = "rejected"
    \/ Mode = "observe" /\ phase[r] = "body" /\ ~leased[r]
    \/ Mode = "observe" /\ phase[r] \in {"forward", "sent", "failed", "aborted"}

LEMMA VerdictsFinalStep ==
  ASSUME TypeOK, TaskOrder, VerdictsFinal, [Next]_vars
  PROVE  VerdictsFinal'
<1> USE ModeAssumption DEF tables, task
<1>1. ASSUME NEW r \in Request, NEW f \in Offered, Arrive(r, f) PROVE VerdictsFinal'
  BY <1>1 DEF TypeOK, VerdictsFinal, Arrive, Proceed
<1>2. ASSUME NEW r \in Request, EnterUnauthorized(r) PROVE VerdictsFinal'
  BY <1>2 DEF TypeOK, TaskOrder, VerdictsFinal, EnterUnauthorized, Reject
<1>3. ASSUME NEW r \in Request, Resolve(r) PROVE VerdictsFinal'
  BY <1>3 DEF TypeOK, TaskOrder, VerdictsFinal, Resolve, Reject, Proceed
<1>4. ASSUME NEW r \in Request, VerifierRefuses(r) PROVE VerdictsFinal'
  BY <1>4 DEF TypeOK, TaskOrder, VerdictsFinal, VerifierRefuses, Reject
<1>5. ASSUME NEW r \in Request, Verify(r) PROVE VerdictsFinal'
  BY <1>5 DEF TypeOK, TaskOrder, VerdictsFinal, Verify, Reject, Proceed
<1>6. ASSUME NEW r \in Request, Sequence(r) PROVE VerdictsFinal'
  <2>1. phase[r] = "sequence" /\ ~leased[r]
    BY <1>6 DEF TaskOrder, Sequence
  <2>2. \A q \in Request \ {r} :
          code'[q] = code[q] /\ phase'[q] = phase[q] /\ leased'[q] = leased[q]
    BY <1>6 DEF TypeOK, Sequence, Grant, Reject
  <2>3. code'[r] # "ok" =>
          \/ Mode = "enforce" /\ phase'[r] = "rejected"
          \/ Mode = "observe" /\ phase'[r] = "body" /\ ~leased'[r]
    <3>1. CASE Grant(r)
      BY <2>1, <3>1 DEF TypeOK, VerdictsFinal, Grant
    <3>2. CASE /\ \E why \in Code : Reject(r, why, "body")
               /\ leased' = leased
      BY <2>1, <3>2 DEF TypeOK, Reject
    <3>3. QED
      BY <1>6, <3>1, <3>2 DEF Sequence, Code
  <2>4. QED
    BY <2>2, <2>3 DEF VerdictsFinal
<1>7. ASSUME NEW r \in Request, AbortBody(r) PROVE VerdictsFinal'
  BY <1>7 DEF TypeOK, VerdictsFinal, AbortBody, Proceed
<1>8. ASSUME NEW r \in Request, EndBody(r) PROVE VerdictsFinal'
  BY <1>8 DEF TypeOK, VerdictsFinal, EndBody, LeaseExpired, Reject, Proceed
<1>9. ASSUME NEW r \in Request, Recheck(r) PROVE VerdictsFinal'
  BY <1>9 DEF TypeOK, VerdictsFinal, Recheck, Reject, Proceed
<1>10. ASSUME NEW r \in Request, Forward(r) PROVE VerdictsFinal'
  BY <1>10 DEF TypeOK, VerdictsFinal, Forward, Reject, Proceed
<1>11. CASE UNCHANGED <<phase, leased, code>>
  BY <1>11 DEF VerdictsFinal
<1>12. QED
  BY <1>1, <1>2, <1>3, <1>4, <1>5, <1>6, <1>7, <1>8, <1>9, <1>10, <1>11
     DEF Next, Handle, Install, Invalidate, Tick, vars

Leased == {r \in Request : leased[r]}
Rejected == {r \in Request : phase[r] = "rejected"}
Mismatched == {r \in Request : code[r] # "ok"}

LEMMA CountsAre ==
  MetricsAgree <=>
    /\ metrics.admitted = Cardinality(Leased)
    /\ metrics.enforced = Cardinality(Rejected)
    /\ metrics.enforced + metrics.observed = Cardinality(Mismatched)
BY DEF MetricsAgree, Leased, Rejected, Mismatched

LEMMA CountsAreNext ==
  MetricsAgree' <=>
    /\ metrics'.admitted = Cardinality(Leased')
    /\ metrics'.enforced = Cardinality(Rejected')
    /\ metrics'.enforced + metrics'.observed = Cardinality(Mismatched')
BY DEF MetricsAgree, Leased, Rejected, Mismatched

LEMMA OneMore ==
  ASSUME NEW S \in SUBSET Request, NEW r \in Request \ S
  PROVE  Cardinality(S \cup {r}) = Cardinality(S) + 1
BY RequestAssumption, FS_Subset, FS_AddElement

LEMMA QuietCounts ==
  ASSUME MetricsAgree, UNCHANGED <<metrics, leased, code>>, Rejected' = Rejected
  PROVE  MetricsAgree'
<1>1. Leased' = Leased /\ Mismatched' = Mismatched
  BY DEF Leased, Mismatched
<1>2. QED
  BY <1>1, CountsAre, CountsAreNext

LEMMA ProceedCounts ==
  ASSUME TypeOK, MetricsAgree, NEW r \in Request, NEW next,
         phase[r] # "rejected", next # "rejected", Proceed(r, next),
         UNCHANGED leased
  PROVE  MetricsAgree'
<1>1. Rejected' = Rejected
  BY DEF TypeOK, Proceed, Rejected
<1>2. QED
  BY <1>1, QuietCounts DEF Proceed

LEMMA RejectCounts ==
  ASSUME TypeOK, VerdictsFinal, MetricsAgree, NEW r \in Request, NEW why,
         NEW next, why # "ok", code[r] = "ok", phase[r] # "rejected",
         Mode = "enforce" \/ next # "rejected",
         Reject(r, why, next), UNCHANGED leased
  PROVE  MetricsAgree'
<1>1. /\ metrics \in [admitted : Nat, enforced : Nat, observed : Nat]
      /\ r \notin Mismatched /\ r \notin Rejected
      /\ Mismatched \subseteq Request /\ Rejected \subseteq Request
  BY DEF TypeOK, Mismatched, Rejected
<1>2. Leased' = Leased /\ Mismatched' = Mismatched \cup {r}
  BY DEF TypeOK, Reject, Leased, Mismatched
<1>3. Cardinality(Mismatched') = Cardinality(Mismatched) + 1
  BY <1>1, <1>2, OneMore
<1>4. CASE Mode = "enforce"
  <2>1. Rejected' = Rejected \cup {r}
    BY <1>4 DEF TypeOK, Reject, Rejected
  <2>2. Cardinality(Rejected') = Cardinality(Rejected) + 1
    BY <1>1, <2>1, OneMore
  <2>3. /\ metrics'.admitted = metrics.admitted
        /\ metrics'.enforced = metrics.enforced + 1
        /\ metrics'.observed = metrics.observed
    BY <1>1, <1>4 DEF Reject
  <2>4. metrics'.enforced + metrics'.observed = Cardinality(Mismatched')
    BY <1>1, <1>3, <2>3, CountsAre
  <2>5. QED
    BY <1>2, <2>2, <2>3, <2>4, CountsAre, CountsAreNext
<1>5. CASE Mode # "enforce"
  <2>1. Rejected' = Rejected
    BY <1>5 DEF TypeOK, Reject, Rejected
  <2>2. /\ metrics'.admitted = metrics.admitted
        /\ metrics'.enforced = metrics.enforced
        /\ metrics'.observed = metrics.observed + 1
    BY <1>1, <1>5 DEF Reject
  <2>3. metrics'.enforced + metrics'.observed = Cardinality(Mismatched')
    BY <1>1, <1>3, <2>2, CountsAre
  <2>4. QED
    BY <1>2, <2>1, <2>2, <2>3, CountsAre, CountsAreNext
<1>6. QED
  BY <1>4, <1>5

LEMMA GrantCounts ==
  ASSUME TypeOK, VerdictsFinal, MetricsAgree, NEW r \in Request,
         ~leased[r], code[r] = "ok", phase[r] # "rejected", Grant(r)
  PROVE  MetricsAgree'
<1>1. /\ metrics \in [admitted : Nat, enforced : Nat, observed : Nat]
      /\ r \notin Leased /\ r \notin Mismatched /\ r \notin Rejected
      /\ Leased \subseteq Request /\ Mismatched \subseteq Request
      /\ Rejected \subseteq Request
  BY DEF TypeOK, Leased, Mismatched, Rejected
<1>2. Leased' = Leased \cup {r}
  BY DEF TypeOK, Grant, Leased
<1>3. Cardinality(Leased') = Cardinality(Leased) + 1
  BY <1>1, <1>2, OneMore
<1>4. CASE phase' = [phase EXCEPT ![r] = "body"]
  <2>1. /\ UNCHANGED code
        /\ metrics' = [metrics EXCEPT !.admitted = metrics.admitted + 1]
    BY <1>4 DEF Grant, TypeOK
  <2>2. Mismatched' = Mismatched /\ Rejected' = Rejected
    BY <1>4, <2>1 DEF TypeOK, Mismatched, Rejected
  <2>3. /\ metrics'.admitted = metrics.admitted + 1
        /\ metrics'.enforced = metrics.enforced
        /\ metrics'.observed = metrics.observed
    BY <1>1, <2>1
  <2>4. QED
    BY <1>3, <2>2, <2>3, CountsAre, CountsAreNext
<1>5. CASE ~(phase' = [phase EXCEPT ![r] = "body"])
  <2>1. /\ phase' = [phase EXCEPT ![r] = "rejected"]
        /\ code' = [code EXCEPT ![r] = "ack_metadata"]
        /\ metrics' = [admitted |-> metrics.admitted + 1,
                       enforced |-> metrics.enforced + 1,
                       observed |-> metrics.observed]
    BY <1>5 DEF Grant
  <2>2. Mismatched' = Mismatched \cup {r} /\ Rejected' = Rejected \cup {r}
    BY <2>1 DEF TypeOK, Mismatched, Rejected
  <2>3. /\ Cardinality(Mismatched') = Cardinality(Mismatched) + 1
        /\ Cardinality(Rejected') = Cardinality(Rejected) + 1
    BY <1>1, <2>2, OneMore
  <2>4. /\ metrics'.admitted = metrics.admitted + 1
        /\ metrics'.enforced = metrics.enforced + 1
        /\ metrics'.observed = metrics.observed
    BY <2>1
  <2>5. metrics'.enforced + metrics'.observed = Cardinality(Mismatched')
    BY <1>1, <2>3, <2>4, CountsAre
  <2>6. QED
    BY <1>3, <2>3, <2>4, <2>5, CountsAre, CountsAreNext
<1>6. QED
  BY <1>4, <1>5

LEMMA MetricsStep ==
  ASSUME TypeOK, TaskOrder, VerdictsFinal, MetricsAgree, [Next]_vars
  PROVE  MetricsAgree'
<1> USE ModeAssumption DEF tables, task
<1>1. ASSUME NEW r \in Request, NEW f \in Offered, Arrive(r, f) PROVE MetricsAgree'
  BY <1>1, ProceedCounts DEF Arrive
<1>2. ASSUME NEW r \in Request, EnterUnauthorized(r) PROVE MetricsAgree'
  BY <1>2, RejectCounts DEF EnterUnauthorized, VerdictsFinal
<1>3. ASSUME NEW r \in Request, Resolve(r) PROVE MetricsAgree'
  BY <1>3, RejectCounts, ProceedCounts DEF Resolve, VerdictsFinal
<1>4. ASSUME NEW r \in Request, VerifierRefuses(r) PROVE MetricsAgree'
  BY <1>4, RejectCounts DEF VerifierRefuses, VerdictsFinal
<1>5. ASSUME NEW r \in Request, Verify(r) PROVE MetricsAgree'
  BY <1>5, RejectCounts, ProceedCounts DEF Verify, VerdictsFinal
<1>6. ASSUME NEW r \in Request, Sequence(r) PROVE MetricsAgree'
  BY <1>6, RejectCounts, GrantCounts DEF Sequence, VerdictsFinal, TaskOrder
<1>7. ASSUME NEW r \in Request, AbortBody(r) PROVE MetricsAgree'
  BY <1>7, ProceedCounts DEF AbortBody
<1>8. ASSUME NEW r \in Request, EndBody(r) PROVE MetricsAgree'
  BY <1>8, RejectCounts, ProceedCounts DEF EndBody, VerdictsFinal
<1>9. ASSUME NEW r \in Request, Recheck(r) PROVE MetricsAgree'
  BY <1>9, RejectCounts, ProceedCounts DEF Recheck, VerdictsFinal
<1>10. ASSUME NEW r \in Request, Forward(r) PROVE MetricsAgree'
  BY <1>10, RejectCounts, ProceedCounts DEF Forward, VerdictsFinal
<1>11. CASE UNCHANGED <<phase, leased, code, metrics>>
  BY <1>11, QuietCounts DEF Rejected
<1>12. QED
  BY <1>1, <1>2, <1>3, <1>4, <1>5, <1>6, <1>7, <1>8, <1>9, <1>10, <1>11
     DEF Next, Handle, Install, Invalidate, Tick, vars

LEMMA CountsAlways == Spec => [](VerdictsFinal /\ MetricsAgree)
<1>1. Init => VerdictsFinal /\ MetricsAgree
  <2> SUFFICES ASSUME Init PROVE VerdictsFinal /\ MetricsAgree
    OBVIOUS
  <2>1. Leased = {} /\ Rejected = {} /\ Mismatched = {}
    BY DEF Init, Leased, Rejected, Mismatched
  <2>2. Cardinality({}) = 0
    BY FS_EmptySet
  <2>3. QED
    BY <2>1, <2>2, CountsAre DEF Init, VerdictsFinal
<1>2. Inv /\ VerdictsFinal /\ MetricsAgree /\ [Next]_vars
        => VerdictsFinal' /\ MetricsAgree'
  BY VerdictsFinalStep, MetricsStep DEF Inv, ReleaseInv
<1>3. QED
  BY <1>1, <1>2, InvAlways, PTL DEF Spec

\* However the requests interleave, every lease is counted once and every
\* mismatch once, in the counter of the gate's mode.
THEOREM MetricsAreTrue == Spec => []MetricsAgree
BY CountsAlways, PTL

-----------------------------------------------------------------------------
\* A window holds nothing spent that no lease accounts for.

\* Among the leases L of the frames F there is one of the sequence s in the
\* stream x, or of one a window ahead of it.
Accounted(L, F, x, s) ==
  \E q \in Request :
    /\ L[q] /\ F[q].capability = x[1] /\ F[q].key = x[2]
    /\ F[q].sequence = s \/ F[q].sequence - s >= WindowBits

WindowsJustified ==
  \A x \in Capability \X Key : windows[x] # None =>
    \A s \in Nat : Spent(windows[x].window, s) => Accounted(leased, frame, x, s)

RepliesJustified ==
  \A r \in Request : code[r] = "frame_replay" =>
    /\ ~leased[r] /\ frame[r] # None
    /\ Accounted(leased, frame, <<frame[r].capability, frame[r].key>>,
                 frame[r].sequence)

\* What a first or an admitted frame makes spent: what was, itself, and what
\* lies a whole window behind it.
LEMMA FirstSpendsOnly ==
  ASSUME NEW s \in Nat, NEW t \in Nat, Spent(First(s), t)
  PROVE  t = s \/ s - t >= WindowBits
BY WindowBitsAssumption DEF First, Spent

LEMMA AdmitSpendsOnly ==
  ASSUME NEW w \in Window, NEW s \in Nat, NEW t \in Nat, Spent(Admit(w, s), t)
  PROVE  Spent(w, t) \/ (Admits(w, s) /\ (t = s \/ s - t >= WindowBits))
<1>1. w.highest \in Nat /\ w.seen \in SUBSET Distance
  BY DEF Window
<1>2. CASE s > w.highest
  <2>1. Admits(w, s)
    BY <1>2 DEF Admits
  <2>2. Admit(w, s) = [highest |-> s, seen |-> Slide(w.seen, s - w.highest)]
    BY <1>2 DEF Admit
  <2>3. CASE s - t >= WindowBits
    BY <2>1, <2>3
  <2>4. CASE s - t \in Slide(w.seen, s - w.highest)
    <3>1. CASE s - t = 0
      BY <2>1, <3>1
    <3>2. CASE s - t # 0
      <4>1. PICK d \in w.seen : s - t = d + (s - w.highest)
        BY <2>4, <3>2 DEF Slide
      <4>2. d \in Nat
        BY <1>1 DEF Distance
      <4>3. w.highest - t = d /\ t <= w.highest
        BY <1>1, <4>1, <4>2
      <4>4. QED
        BY <4>1, <4>3 DEF Spent
    <3>3. QED
      BY <3>1, <3>2
  <2>5. QED
    BY <2>2, <2>3, <2>4 DEF Spent
<1>3. CASE ~(s > w.highest) /\ Admits(w, s)
  <2>1. Admit(w, s) = [w EXCEPT !.seen = w.seen \cup {w.highest - s}]
    BY <1>3 DEF Admit
  <2>2. /\ Admit(w, s).highest = w.highest
        /\ Admit(w, s).seen = w.seen \cup {w.highest - s}
    BY <1>1, <2>1 DEF Window
  <2>3. w.highest - t = w.highest - s => t = s
    BY <1>1
  <2>4. QED
    BY <1>3, <2>2, <2>3 DEF Spent
<1>4. CASE ~(s > w.highest) /\ ~Admits(w, s)
  BY <1>4 DEF Admit
<1>5. QED
  BY <1>2, <1>3, <1>4

\* From its arrival a task keeps its frame, and a lease it has.
LEMMA FrameStays ==
  ASSUME TypeOK, [Next]_vars, NEW q \in Request, phase[q] # "idle"
  PROVE  /\ frame'[q] = frame[q]
         /\ leased[q] => leased'[q]
         /\ phase[q] # "sequence" => leased'[q] = leased[q]
<1> DEFINE Stays == /\ frame'[q] = frame[q]
                    /\ leased[q] => leased'[q]
                    /\ phase[q] # "sequence" => leased'[q] = leased[q]
<1> USE DEF tables, task
<1>1. ASSUME NEW r \in Request, Handle(r) PROVE Stays
  <2>1. ASSUME NEW f \in Offered, Arrive(r, f) PROVE Stays
    BY <2>1 DEF TypeOK, Arrive
  <2>2. CASE EnterUnauthorized(r)
    BY <2>2 DEF TypeOK, EnterUnauthorized
  <2>3. CASE Resolve(r)
    BY <2>3 DEF TypeOK, Resolve
  <2>4. CASE VerifierRefuses(r)
    BY <2>4 DEF TypeOK, VerifierRefuses
  <2>5. CASE Verify(r)
    BY <2>5 DEF TypeOK, Verify
  <2>6. CASE Sequence(r)
    BY <2>6 DEF TypeOK, Sequence, Grant
  <2>7. CASE AbortBody(r)
    BY <2>7 DEF TypeOK, AbortBody
  <2>8. CASE EndBody(r)
    BY <2>8 DEF TypeOK, EndBody
  <2>9. CASE Recheck(r)
    BY <2>9 DEF TypeOK, Recheck
  <2>10. CASE Forward(r)
    BY <2>10 DEF TypeOK, Forward
  <2>11. QED
    BY <1>1, <2>1, <2>2, <2>3, <2>4, <2>5, <2>6, <2>7, <2>8, <2>9, <2>10 DEF Handle
<1>2. ASSUME NEW b \in Candidate, Install(b) PROVE Stays
  BY <1>2 DEF Install
<1>3. ASSUME NEW k \in Revocable, Invalidate(k) PROVE Stays
  BY <1>3 DEF Invalidate
<1>4. CASE Tick
  BY <1>4 DEF Tick
<1>5. CASE UNCHANGED vars
  BY <1>5 DEF vars
<1>6. QED
  BY <1>1, <1>2, <1>3, <1>4, <1>5 DEF Next

\* A lease and the frame under it are for good, so what it accounts for is too.
LEMMA AccountsStay ==
  ASSUME TypeOK, TaskOrder, [Next]_vars, NEW x, NEW s, Accounted(leased, frame, x, s)
  PROVE  Accounted(leased', frame', x, s)
<1> USE DEF tables, task
<1>1. PICK q \in Request :
        /\ leased[q] /\ frame[q].capability = x[1] /\ frame[q].key = x[2]
        /\ frame[q].sequence = s \/ frame[q].sequence - s >= WindowBits
  BY DEF Accounted
<1>2. leased'[q] /\ frame'[q] = frame[q]
  <2>1. phase[q] # "idle"
    BY <1>1 DEF TaskOrder
  <2>2. QED
    BY <1>1, <2>1, FrameStays
<1>3. QED
  BY <1>1, <1>2 DEF Accounted

LEMMA SequenceJustified ==
  ASSUME TypeOK, TaskOrder, WindowsJustified, [Next]_vars,
         NEW r \in Request, Sequence(r)
  PROVE  WindowsJustified'
<1> DEFINE w == <<frame[r].capability, frame[r].key>>
           live == LiveWindows(arrived[r])
           s == frame[r].sequence
           full == live[w] = None /\ Full(live)
           admits == live[w] # None => Admits(live[w].window, s)
           after == IF live[w] = None THEN First(s) ELSE Admit(live[w].window, s)
           entry == [window |-> after, expires |-> ExpiresAt[frame[r].capability]]
<1>1. frame[r] \in Frame /\ arrived[r] \in Nat /\ phase[r] = "sequence"
  BY DEF TypeOK, TaskOrder, Sequence
<1>2. w \in Capability \X Key /\ s \in Nat
  BY <1>1 DEF Frame
<1>3. live \in [Capability \X Key -> SequenceAdmission \cup {None}]
  BY <1>1, PurgeType
<1>4. /\ windows' = IF full THEN live ELSE [live EXCEPT ![w] = entry]
      /\ frame' = frame
      /\ ~full /\ admits => leased'[r]
  BY DEF Sequence, Grant, TypeOK
<1>5. \A x \in Capability \X Key : live[x] # None => live[x] = windows[x]
  BY DEF LiveWindows, Retained
<1>6. ASSUME NEW x \in Capability \X Key, live[x] # None, NEW t \in Nat,
             Spent(live[x].window, t)
      PROVE  Accounted(leased', frame', x, t)
  <2>1. Accounted(leased, frame, x, t)
    BY <1>5, <1>6 DEF WindowsJustified
  <2>2. QED
    BY <2>1, AccountsStay
<1>7. ASSUME ~full, NEW t \in Nat, Spent(after, t)
      PROVE  Accounted(leased', frame', w, t)
  <2>1. CASE live[w] # None /\ Spent(live[w].window, t)
    BY <1>2, <1>6, <2>1
  <2>2. CASE admits /\ (t = s \/ s - t >= WindowBits)
    <3>1. leased'[r] /\ frame'[r] = frame[r]
      BY <1>4, <1>7, <2>2
    <3>2. QED
      BY <2>2, <3>1 DEF Accounted
  <2>3. CASE live[w] = None
    <3>1. t = s \/ s - t >= WindowBits
      BY <1>2, <1>7, <2>3, FirstSpendsOnly
    <3>2. QED
      BY <2>2, <2>3, <3>1
  <2>4. CASE live[w] # None
    <3>1. live[w].window \in Window
      BY <1>2, <1>3, <2>4 DEF SequenceAdmission
    <3>2. Spent(live[w].window, t)
            \/ (Admits(live[w].window, s) /\ (t = s \/ s - t >= WindowBits))
      BY <1>2, <1>7, <2>4, <3>1, AdmitSpendsOnly
    <3>3. QED
      BY <2>1, <2>2, <2>4, <3>2
  <2>5. QED
    BY <2>3, <2>4
<1>8. ASSUME NEW x \in Capability \X Key, windows'[x] # None, NEW t \in Nat,
             Spent(windows'[x].window, t)
      PROVE  Accounted(leased', frame', x, t)
  <2>1. CASE full \/ x # w
    <3>1. windows'[x] = live[x]
      BY <1>2, <1>3, <1>4, <2>1
    <3>2. QED
      BY <1>6, <1>8, <3>1
  <2>2. CASE ~full /\ x = w
    <3>1. windows'[x].window = after
      BY <1>2, <1>3, <1>4, <2>2
    <3>2. QED
      BY <1>7, <1>8, <2>2, <3>1
  <2>3. QED
    BY <2>1, <2>2
<1>9. QED
  BY <1>8 DEF WindowsJustified

LEMMA WindowsJustifiedStep ==
  ASSUME TypeOK, TaskOrder, WindowsJustified, [Next]_vars
  PROVE  WindowsJustified'
<1> USE DEF tables, task
<1>1. ASSUME NEW r \in Request, Sequence(r) PROVE WindowsJustified'
  BY <1>1, SequenceJustified
<1>2. CASE UNCHANGED windows
  <2>1. \A x, s : Accounted(leased, frame, x, s) => Accounted(leased', frame', x, s)
    BY AccountsStay
  <2>2. QED
    BY <1>2, <2>1 DEF WindowsJustified
<1>3. QED
  BY <1>1, <1>2
     DEF Next, Handle, vars, Arrive, EnterUnauthorized, Resolve, VerifierRefuses,
         Verify, AbortBody, EndBody, Recheck, Forward, Install, Invalidate, Tick

\* The verdict is given where the frame is found spent, and stays with its frame.
LEMMA RefusedIsAccounted ==
  ASSUME TypeOK, TaskOrder, WindowsJustified, NEW r \in Request, Sequence(r),
         code[r] = "ok", code'[r] = "frame_replay"
  PROVE  /\ leased' = leased /\ ~leased[r] /\ frame[r] # None
         /\ Accounted(leased, frame, <<frame[r].capability, frame[r].key>>,
                      frame[r].sequence)
<1> DEFINE w == <<frame[r].capability, frame[r].key>>
           live == LiveWindows(arrived[r])
           s == frame[r].sequence
<1>1. frame[r] \in Frame /\ frame[r] # None /\ arrived[r] \in Nat /\ ~leased[r]
  BY DEF TypeOK, TaskOrder, Sequence
<1>2. w \in Capability \X Key /\ s \in Nat
  BY <1>1 DEF Frame
<1>3. live[w] # None /\ ~Admits(live[w].window, s) /\ leased' = leased
  BY DEF Sequence, Reject, Grant, TypeOK
<1>4. live[w] = windows[w] /\ windows[w].window \in Window
  BY <1>2, <1>3 DEF LiveWindows, Retained, TypeOK, SequenceAdmission
<1>5. Spent(windows[w].window, s)
  BY <1>2, <1>3, <1>4, AdmitsIffNotSpent
<1>6. Accounted(leased, frame, w, s)
  BY <1>2, <1>3, <1>4, <1>5 DEF WindowsJustified
<1>7. QED
  BY <1>1, <1>3, <1>6

LEMMA RepliesJustifiedStep ==
  ASSUME TypeOK, TaskOrder, VerdictsFinal, WindowsJustified, RepliesJustified,
         [Next]_vars
  PROVE  RepliesJustified'
<1> USE DEF tables, task
<1>1. ASSUME NEW r \in Request, code'[r] = "frame_replay", code[r] = "frame_replay"
      PROVE  leased'[r] = leased[r] /\ frame'[r] = frame[r]
  <2>1. phase[r] \notin {"idle", "sequence"}
    BY <1>1 DEF VerdictsFinal
  <2>2. QED
    BY <2>1, FrameStays
<1>2. ASSUME NEW r \in Request, code'[r] = "frame_replay", code[r] # "frame_replay"
      PROVE  Sequence(r) /\ code[r] = "ok"
  <2>1. ASSUME NEW q \in Request, q # r, Handle(q)
        PROVE  code'[r] = code[r]
    BY <2>1
       DEF TypeOK, Handle, Arrive, EnterUnauthorized, Resolve, VerifierRefuses,
           Verify, Sequence, Grant, AbortBody, EndBody, Recheck, Forward, Reject,
           Proceed
  <2>2. Handle(r)
    BY <1>2, <2>1 DEF Next, Install, Invalidate, Tick, vars
  <2>3. Resolution(frame[r].key) # "frame_replay"
    BY DEF Resolution
  <2>4. Sequence(r)
    BY <1>2, <2>2, <2>3
       DEF TypeOK, Handle, Arrive, EnterUnauthorized, Resolve, VerifierRefuses,
           Verify, AbortBody, EndBody, Recheck, Forward, Reject, Proceed
  <2>5. code[r] = "ok"
    BY <2>4 DEF Sequence, VerdictsFinal
  <2>6. QED
    BY <2>4, <2>5
<1>3. ASSUME NEW r \in Request, code'[r] = "frame_replay"
      PROVE  /\ ~leased'[r] /\ frame'[r] = frame[r] /\ frame[r] # None
             /\ Accounted(leased, frame, <<frame[r].capability, frame[r].key>>,
                          frame[r].sequence)
  <2>1. CASE code[r] = "frame_replay"
    BY <1>1, <1>3, <2>1 DEF RepliesJustified
  <2>2. CASE code[r] # "frame_replay"
    <3>1. Sequence(r) /\ code[r] = "ok" /\ frame' = frame
      BY <1>2, <1>3, <2>2 DEF Sequence
    <3>2. QED
      BY <1>3, <3>1, RefusedIsAccounted
  <2>3. QED
    BY <2>1, <2>2
<1>4. ASSUME NEW r \in Request, code'[r] = "frame_replay"
      PROVE  Accounted(leased', frame', <<frame'[r].capability, frame'[r].key>>,
                       frame'[r].sequence)
  BY <1>3, <1>4, AccountsStay
<1>5. QED
  BY <1>3, <1>4 DEF RepliesJustified

LEMMA RepliesAlways == Spec => [](WindowsJustified /\ RepliesJustified)
<1>1. Init => WindowsJustified /\ RepliesJustified
  BY DEF Init, WindowsJustified, RepliesJustified
<1>2. Inv /\ VerdictsFinal /\ WindowsJustified /\ RepliesJustified /\ [Next]_vars
        => WindowsJustified' /\ RepliesJustified'
  BY WindowsJustifiedStep, RepliesJustifiedStep DEF Inv, ReleaseInv
<1>3. QED
  BY <1>1, <1>2, InvAlways, CountsAlways, PTL DEF Spec

\* A request is told of a replay only when another holds a lease for its
\* sequence, or for one a whole window ahead, of its capability and coordinates:
\* windows re-opened, purged or refused for want of room bring about no other.
THEOREM ReplaysAreReal == Spec => []ReplayIsJustified
<1>1. RepliesJustified => ReplayIsJustified
  <2> SUFFICES ASSUME RepliesJustified, NEW r \in Request, code[r] = "frame_replay"
               PROVE  \E q \in Request \ {r} :
                        /\ leased[q]
                        /\ frame[q].capability = frame[r].capability
                        /\ frame[q].key = frame[r].key
                        /\ \/ frame[q].sequence = frame[r].sequence
                           \/ frame[q].sequence - frame[r].sequence >= WindowBits
    BY DEF ReplayIsJustified
  <2>1. /\ ~leased[r]
        /\ Accounted(leased, frame, <<frame[r].capability, frame[r].key>>,
                     frame[r].sequence)
    BY DEF RepliesJustified
  <2>2. QED
    BY <2>1 DEF Accounted
<1>2. QED
  BY <1>1, RepliesAlways, PTL

=============================================================================
