--------------------------- MODULE PublishIngress ---------------------------
(***************************************************************************)
(* The publication gate and the media handler that drives it.              *)
(*                                                                         *)
(* A POST /media/access-unit is one task.  It collects its headers and the *)
(* time of day, asks the gate for a lease (registry, then the capability   *)
(* admissions, then the sequence windows, each under its own lock, none    *)
(* held across the next), reads its body, asks the gate to revalidate the  *)
(* lease and forwards the object.  Tasks interleave at every one of these  *)
(* points, with each other, with the control plane that installs and       *)
(* revokes bindings, and with the clock.                                   *)
(*                                                                         *)
(* What is abstracted: a binding is the identity it authorises and its     *)
(* carrier stream; the capability claims are the expiry and the identities *)
(* in scope (the external verifier may also refuse for any other reason);  *)
(* envelope, limit and metadata checks that read no shared state may pass  *)
(* or fail.  An expiry is a claim of its capability: one capability id is  *)
(* signed with one expiry.  Mode "off" never calls the gate and is left    *)
(* out.  The clock does not run backwards.                                 *)
(***************************************************************************)
EXTENDS SequenceWindow, FiniteSets

CONSTANTS
  Request,       \* the HTTP requests, one task each
  Capability,    \* capability ids
  Key,           \* exact coordinates: generation, configuration ref, epoch
  Identity,      \* canonical media identities
  Stream,        \* legacy carrier stream ids
  Offered,       \* the frames that clients may present
  Candidate,     \* the bindings that the control plane may install
  Revocable,     \* the coordinates that the control plane may revoke
  ExpiresAt,     \* the expiry claim of each capability
  Scope,         \* the identities each capability authorises
  Skew,          \* clock_skew_seconds, tolerated by the verifier only
  MaxLeases,     \* MAX_ACTIVE_PUBLISH_LEASES
  Mode,          \* "observe" or "enforce"
  MaxTime,       \* bound: the clock stops here
  None           \* an absent entry

Frame == [capability : Capability, key : Key, sequence : Nat, stream : Stream]
Binding == [key : Key, identity : Identity, stream : Stream]

ASSUME RequestAssumption == IsFiniteSet(Request)
ASSUME ModeAssumption == Mode \in {"observe", "enforce"}
ASSUME ClaimsAssumption ==
  /\ ExpiresAt \in [Capability -> Nat]
  /\ Scope \in [Capability -> SUBSET Identity]
  /\ Skew \in Nat
ASSUME InputAssumption ==
  Offered \subseteq Frame /\ Candidate \subseteq Binding /\ Revocable \subseteq Key
ASSUME BoundAssumption == MaxLeases \in Nat \ {0} /\ MaxTime \in Nat

Code == {"ok", "header", "legacy_path", "unknown_binding", "revoked_binding",
         "configuration_mismatch", "stream_mismatch", "capability_refused",
         "capability_replay", "capability_expired", "limit",
         "admission_capacity", "frame_replay", "ack_metadata",
         "payload_length_mismatch", "datagram_limit"}

Phase == {"idle", "resolve", "verify", "sequence", "body", "recheck",
          "forward", "sent", "failed", "aborted", "rejected"}

Registered == [identity : Identity, stream : Stream, revision : Nat,
               active : BOOLEAN]
Fingerprint == [key : Key, identity : Identity]
Admission == [fingerprint : Fingerprint, expires : Nat]
SequenceAdmission == [window : Window, expires : Nat]

ASSUME NoneAssumption ==
  None \notin Registered \cup Admission \cup SequenceAdmission \cup Frame

VARIABLES
  clock,         \* SystemTime, in seconds
  bindings,      \* BindingRegistryState.bindings
  nextRevision,  \* BindingRegistryState.next_revision
  admissions,    \* capability_admissions
  windows,       \* sequence_windows, by capability and coordinates
  metrics,       \* GateMetrics
  phase,         \* where each task stands
  frame,         \* its capability, envelope and stream id
  arrived,       \* its now_unix_seconds
  bound,         \* the RegisteredBinding it resolved
  leased,        \* its PublishAdmission carries a lease
  code           \* the gate's verdict on it

tables == <<bindings, nextRevision, admissions, windows>>
task == <<phase, frame, arrived, bound, leased, code>>
vars == <<clock, tables, metrics, task>>

Init ==
  /\ clock = 0
  /\ bindings = [k \in Key |-> None]
  /\ nextRevision = 0
  /\ admissions = [c \in Capability |-> None]
  /\ windows = [w \in Capability \X Key |-> None]
  /\ metrics = [admitted |-> 0, enforced |-> 0, observed |-> 0]
  /\ phase = [r \in Request |-> "idle"]
  /\ frame = [r \in Request |-> None]
  /\ arrived = [r \in Request |-> 0]
  /\ bound = [r \in Request |-> None]
  /\ leased = [r \in Request |-> FALSE]
  /\ code = [r \in Request |-> "ok"]

-----------------------------------------------------------------------------
\* The control plane: PublishBindingRegistry, under its write lock.

\* Mutant of StreamTaken: a revoked binding gives its stream away.
StreamTakenWhileActive(b) ==
  \E k \in Key : /\ bindings[k] # None
                 /\ bindings[k].active
                 /\ bindings[k].stream = b.stream
                 /\ bindings[k].identity # b.identity

\* Another identity already owns the binding's carrier stream.
StreamTaken(b) ==
  \E k \in Key : /\ bindings[k] # None
                 /\ bindings[k].stream = b.stream
                 /\ bindings[k].identity # b.identity

\* Mutant of Install: a delayed install revives revoked coordinates.
InstallRevives(b) ==
  /\ ~StreamTaken(b)
  /\ bindings[b.key] # None => ~bindings[b.key].active
  /\ nextRevision' = nextRevision + 1
  /\ bindings' = [bindings EXCEPT ![b.key] =
                    [identity |-> b.identity, stream |-> b.stream,
                     revision |-> nextRevision + 1, active |-> TRUE]]
  /\ UNCHANGED <<clock, admissions, windows, metrics, task>>

Install(b) ==
  /\ ~StreamTaken(b)
  /\ bindings[b.key] = None
  /\ nextRevision' = nextRevision + 1
  /\ bindings' = [bindings EXCEPT ![b.key] =
                    [identity |-> b.identity, stream |-> b.stream,
                     revision |-> nextRevision + 1, active |-> TRUE]]
  /\ UNCHANGED <<clock, admissions, windows, metrics, task>>

Invalidate(k) ==
  /\ bindings[k] # None
  /\ bindings[k].active
  /\ nextRevision' = nextRevision + 1
  /\ bindings' = [bindings EXCEPT ![k] =
                    [identity |-> @.identity, stream |-> @.stream,
                     revision |-> nextRevision + 1, active |-> FALSE]]
  /\ UNCHANGED <<clock, admissions, windows, metrics, task>>

Tick ==
  /\ clock < MaxTime
  /\ clock' = clock + 1
  /\ UNCHANGED <<tables, metrics, task>>

-----------------------------------------------------------------------------
\* The handler's two ways on: to its next phase, or through a rejection.

Proceed(r, next) ==
  /\ phase' = [phase EXCEPT ![r] = next]
  /\ UNCHANGED <<code, metrics>>

\* Mutant of Reject: observe rejects.
RejectAlways(r, why, next) ==
  /\ code' = [code EXCEPT ![r] = why]
  /\ phase' = [phase EXCEPT ![r] = "rejected"]
  /\ metrics' = IF Mode = "enforce" THEN [metrics EXCEPT !.enforced = @ + 1]
                                    ELSE [metrics EXCEPT !.observed = @ + 1]

\* record_rejection: enforce answers the client, observe lets the request on.
Reject(r, why, next) ==
  /\ code' = [code EXCEPT ![r] = why]
  /\ phase' = [phase EXCEPT ![r] = IF Mode = "enforce" THEN "rejected" ELSE next]
  /\ metrics' = IF Mode = "enforce" THEN [metrics EXCEPT !.enforced = @ + 1]
                                    ELSE [metrics EXCEPT !.observed = @ + 1]

Arrive(r, f) ==
  /\ phase[r] = "idle"
  /\ frame' = [frame EXCEPT ![r] = f]
  /\ arrived' = [arrived EXCEPT ![r] = clock]
  /\ Proceed(r, "resolve")
  /\ UNCHANGED <<clock, tables, bound, leased>>

\* A header is missing or malformed; or the request took a path that presents
\* no capability (authorize_legacy_path).
EnterUnauthorized(r) ==
  /\ phase[r] = "idle"
  /\ \E why \in {"header", "legacy_path"} : Reject(r, why, "body")
  /\ UNCHANGED <<clock, tables, frame, arrived, bound, leased>>

\* Mutant of Resolution: a revoked entry resolves like an active one.
ResolutionIgnoresRevocation(k) ==
  IF bindings[k] = None THEN "unknown_binding" ELSE "ok"

\* What `resolve` answers for the coordinates k: "ok" or a rejection code.
Resolution(k) ==
  CASE bindings[k] = None -> "unknown_binding"
    [] bindings[k] # None /\ ~bindings[k].active -> "revoked_binding"
    [] OTHER -> "ok"

Resolve(r) ==
  LET k == frame[r].key
      found == Resolution(k)
  IN  /\ phase[r] = "resolve"
      /\ UNCHANGED <<clock, tables, frame, arrived, leased>>
      /\ \/ /\ found # "ok"
            /\ Reject(r, found, "body")
            /\ UNCHANGED bound
         \/ /\ found = "ok"
            /\ Reject(r, "configuration_mismatch", "body")
            /\ UNCHANGED bound
         \/ /\ found = "ok"
            /\ bindings[k].stream # frame[r].stream
            /\ Reject(r, "stream_mismatch", "body")
            /\ UNCHANGED bound
         \/ /\ found = "ok"
            /\ bindings[k].stream = frame[r].stream
            /\ bound' = [bound EXCEPT ![r] = bindings[k]]
            /\ Proceed(r, "verify")

-----------------------------------------------------------------------------
\* The capability admissions: the verifier and, inside it, AdmissionGuard.

\* Mutant of Retained: an entry purged ahead of its expiry, by the skew.
RetainedLessSkew(entry, now) ==
  IF entry # None /\ entry.expires > now + Skew THEN entry ELSE None

\* `retain`: what is left of a table at the request's own time.
Retained(entry, now) ==
  IF entry # None /\ entry.expires > now THEN entry ELSE None

LiveAdmissions(now) == [c \in Capability |-> Retained(admissions[c], now)]
LiveWindows(now) == [w \in Capability \X Key |-> Retained(windows[w], now)]

Full(table) == Cardinality({x \in DOMAIN table : table[x] # None}) >= MaxLeases

\* Mutant of GuardAnswer: a known capability is admitted for any coordinates.
GuardAnswersKnown(live, c, fingerprint) ==
  IF live[c] = None /\ Full(live) THEN "capacity" ELSE "ok"

\* check_and_admit in the table it has just purged.
GuardAnswer(live, c, fingerprint) ==
  CASE live[c] = None /\ Full(live) -> "capacity"
    [] live[c] # None /\ live[c].fingerprint # fingerprint -> "replay"
    [] OTHER -> "ok"

\* External: signature, claims, scope, and expiry with the allowed skew.
VerifierMayAccept(r) ==
  /\ bound[r].identity \in Scope[frame[r].capability]
  /\ arrived[r] < ExpiresAt[frame[r].capability] + Skew

VerifierRefuses(r) ==
  /\ phase[r] = "verify"
  /\ Reject(r, "capability_refused", "body")
  /\ UNCHANGED <<clock, tables, frame, arrived, bound, leased>>

Verify(r) ==
  LET c == frame[r].capability
      live == LiveAdmissions(arrived[r])
      fingerprint == [key |-> frame[r].key, identity |-> bound[r].identity]
      answer == GuardAnswer(live, c, fingerprint)
  IN  /\ phase[r] = "verify"
      /\ VerifierMayAccept(r)
      /\ admissions' =
           IF answer = "ok"
           THEN [live EXCEPT ![c] = [fingerprint |-> fingerprint,
                                     expires |-> ExpiresAt[c]]]
           ELSE live
      /\ UNCHANGED <<clock, bindings, nextRevision, windows>>
      /\ UNCHANGED <<frame, arrived, bound, leased>>
      /\ \/ answer # "ok" /\ Reject(r, "capability_replay", "body")
         \/ /\ answer = "ok"
            /\ arrived[r] >= ExpiresAt[c]
            /\ Reject(r, "capability_expired", "body")
         \/ /\ answer = "ok"
            /\ arrived[r] < ExpiresAt[c]
            /\ Reject(r, "limit", "body")
         \/ /\ answer = "ok"
            /\ arrived[r] < ExpiresAt[c]
            /\ Proceed(r, "sequence")

-----------------------------------------------------------------------------
\* The sequence windows, and the lease.

Grant(r) ==
  /\ leased' = [leased EXCEPT ![r] = TRUE]
  /\ \/ /\ phase' = [phase EXCEPT ![r] = "body"]
        /\ metrics' = [metrics EXCEPT !.admitted = @ + 1]
        /\ UNCHANGED code
     \* The query parameters contradict the lease: rejected, after the
     \* sequence was consumed.
     \/ /\ Mode = "enforce"
        /\ phase' = [phase EXCEPT ![r] = "rejected"]
        /\ code' = [code EXCEPT ![r] = "ack_metadata"]
        /\ metrics' = [admitted |-> metrics.admitted + 1,
                       enforced |-> metrics.enforced + 1,
                       observed |-> metrics.observed]

Sequence(r) ==
  LET c == frame[r].capability
      s == frame[r].sequence
      w == <<c, frame[r].key>>
      live == LiveWindows(arrived[r])
      full == live[w] = None /\ Full(live)
      admits == live[w] # None => Admits(live[w].window, s)
      after == IF live[w] = None THEN First(s) ELSE Admit(live[w].window, s)
  IN  /\ phase[r] = "sequence"
      /\ windows' =
           IF full THEN live
           ELSE [live EXCEPT ![w] = [window |-> after, expires |-> ExpiresAt[c]]]
      /\ UNCHANGED <<clock, bindings, nextRevision, admissions>>
      /\ UNCHANGED <<frame, arrived, bound>>
      /\ \/ full /\ Reject(r, "admission_capacity", "body") /\ UNCHANGED leased
         \/ /\ ~full /\ ~admits
            /\ Reject(r, "frame_replay", "body")
            /\ UNCHANGED leased
         \/ ~full /\ admits /\ Grant(r)

-----------------------------------------------------------------------------
\* The body, the revalidation, the forward.

\* The body is too long for its limit, or its stream fails.
AbortBody(r) ==
  /\ phase[r] = "body"
  /\ Proceed(r, "aborted")
  /\ UNCHANGED <<clock, tables, frame, arrived, bound, leased>>

\* Mutant of LeaseExpired: the time of day the request arrived at, not the
\* time its body ended at.
LeaseExpiredOnArrival(r) == arrived[r] >= ExpiresAt[frame[r].capability]

LeaseExpired(r) == clock >= ExpiresAt[frame[r].capability]

\* The body is complete; revalidate_strict compares expiry and length.
EndBody(r) ==
  /\ phase[r] = "body"
  /\ UNCHANGED <<clock, tables, frame, arrived, bound, leased>>
  /\ \/ ~leased[r] /\ Proceed(r, "forward")
     \/ /\ leased[r]
        /\ LeaseExpired(r)
        /\ Reject(r, "capability_expired", "forward")
     \/ /\ leased[r]
        /\ ~LeaseExpired(r)
        /\ \/ Reject(r, "payload_length_mismatch", "forward")
           \/ Proceed(r, "recheck")

\* registry.revalidate: still active, at the revision the lease was cut from.
Recheck(r) ==
  LET k == frame[r].key
      found == Resolution(k)
      same == found = "ok" /\ bindings[k].revision = bound[r].revision
  IN  /\ phase[r] = "recheck"
      /\ UNCHANGED <<clock, tables, frame, arrived, bound, leased>>
      /\ \/ same /\ Proceed(r, "forward")
         \/ found # "ok" /\ Reject(r, found, "forward")
         \/ /\ found = "ok" /\ ~same
            /\ Reject(r, "revoked_binding", "forward")

Forward(r) ==
  /\ phase[r] = "forward"
  /\ UNCHANGED <<clock, tables, frame, arrived, bound, leased>>
  /\ \/ \E outcome \in {"sent", "failed"} : Proceed(r, outcome)
     \* A canonical object that is not allowed, or too large a datagram.
     \/ Mode = "enforce" /\ Reject(r, "datagram_limit", "rejected")

Handle(r) ==
  \/ \E f \in Offered : Arrive(r, f)
  \/ EnterUnauthorized(r)
  \/ Resolve(r)
  \/ VerifierRefuses(r)
  \/ Verify(r)
  \/ Sequence(r)
  \/ AbortBody(r)
  \/ EndBody(r)
  \/ Recheck(r)
  \/ Forward(r)

Next ==
  \/ \E r \in Request : Handle(r)
  \/ \E b \in Candidate : Install(b)
  \/ \E k \in Revocable : Invalidate(k)
  \/ Tick

Spec == Init /\ [][Next]_vars

-----------------------------------------------------------------------------
\* Every table and every task has its type.
TypeOK ==
  /\ clock \in Nat
  /\ bindings \in [Key -> Registered \cup {None}]
  /\ nextRevision \in Nat
  /\ admissions \in [Capability -> Admission \cup {None}]
  /\ windows \in [Capability \X Key -> SequenceAdmission \cup {None}]
  /\ metrics \in [admitted : Nat, enforced : Nat, observed : Nat]
  /\ phase \in [Request -> Phase]
  /\ frame \in [Request -> Frame \cup {None}]
  /\ arrived \in [Request -> Nat]
  /\ bound \in [Request -> Registered \cup {None}]
  /\ leased \in [Request -> BOOLEAN]
  /\ code \in [Request -> Code]

\* The gate let the request's object out to the carrier.
Released(r) ==
  leased[r] /\ code[r] = "ok" /\ phase[r] \in {"forward", "sent", "failed"}

SameFrame(r, q) ==
  /\ frame[r].capability = frame[q].capability
  /\ frame[r].key = frame[q].key
  /\ frame[r].sequence = frame[q].sequence

\* No frame of a capability is released twice, whatever the tables forget:
\* a purge at expiry may re-open a window that a slow request still counts on.
AtMostOneRelease ==
  \A r, q \in Request :
    Released(r) /\ Released(q) /\ SameFrame(r, q) => r = q

\* A capability publishes under the exact coordinates it was first used for.
OneBindingPerCapability ==
  \A r, q \in Request :
    /\ Released(r) /\ Released(q)
    /\ frame[r].capability = frame[q].capability
    => frame[r].key = frame[q].key

\* A carrier stream never mixes two identities, across reconfigurations,
\* revocations and requests that outlive them.
OneIdentityPerStream ==
  \A r, q \in Request :
    /\ Released(r) /\ Released(q)
    /\ frame[r].stream = frame[q].stream
    => bound[r].identity = bound[q].identity

\* A FrameReplay answer is never given to a frame nobody consumed: another
\* request took that sequence, or one a whole window ahead.
ReplayIsJustified ==
  \A r \in Request : code[r] = "frame_replay" =>
    \E q \in Request \ {r} :
      /\ leased[q]
      /\ frame[q].capability = frame[r].capability
      /\ frame[q].key = frame[r].key
      /\ \/ frame[q].sequence = frame[r].sequence
         \/ frame[q].sequence - frame[r].sequence >= WindowBits

\* A capacity refusal or a purge never costs a live lease its window: while a
\* granted capability is alive, its window exists and holds its sequence spent.
LiveLeaseTracked ==
  \A r \in Request :
    leased[r] /\ clock < ExpiresAt[frame[r].capability] =>
      LET w == <<frame[r].capability, frame[r].key>>
      IN  windows[w] # None /\ Spent(windows[w].window, frame[r].sequence)

\* The metrics count each lease once and each rejected (or, observing, each
\* mismatched) request once, in the mode's own counter.
MetricsAgree ==
  /\ metrics.admitted = Cardinality({r \in Request : leased[r]})
  /\ metrics.enforced = Cardinality({r \in Request : phase[r] = "rejected"})
  /\ metrics.enforced + metrics.observed =
       Cardinality({r \in Request : code[r] # "ok"})

\* Revoked coordinates are never revived, and an installed binding never
\* changes its content: a delayed control event cannot undo a revocation.
RevocationIsFinal ==
  [][\A k \in Key : bindings[k] # None =>
       /\ bindings'[k] # None
       /\ bindings'[k].identity = bindings[k].identity
       /\ bindings'[k].stream = bindings[k].stream
       /\ ~bindings[k].active => bindings'[k] = bindings[k]]_vars

\* A request that has not passed its recheck when its binding is revoked is
\* never released, however its steps and later installs interleave.
RevokedBefore(r) ==
  /\ phase[r] \in {"resolve", "verify", "sequence", "body", "recheck"}
  /\ frame[r] # None
  /\ bindings[frame[r].key] # None
  /\ ~bindings[frame[r].key].active
RevokedNeverReleased ==
  \A r \in Request : [](RevokedBefore(r) => []~Released(r))

-----------------------------------------------------------------------------
\* The inductive invariant behind the release properties.

\* The lease survived the expiry check that ends its body.
Passed(r) ==
  /\ leased[r] /\ code[r] = "ok"
  /\ phase[r] \in {"recheck", "forward", "sent", "failed"}

TaskOrder ==
  \A r \in Request :
    /\ arrived[r] <= clock
    /\ phase[r] \in {"resolve", "verify", "sequence"} => frame[r] # None
    /\ phase[r] \in {"verify", "sequence"} => bound[r] # None
    /\ phase[r] \in {"idle", "resolve", "verify", "sequence"} => ~leased[r]
    /\ leased[r] => frame[r] # None /\ bound[r] # None

\* A task's binding is the one still registered for its coordinates.
BoundIsRegistered ==
  \A r \in Request :
    leased[r] \/ phase[r] \in {"verify", "sequence"} =>
      LET b == bindings[frame[r].key]
      IN  b # None /\ b.identity = bound[r].identity /\ b.stream = frame[r].stream

StreamsConsistent ==
  \A k, l \in Key :
    /\ bindings[k] # None /\ bindings[l] # None
    /\ bindings[k].stream = bindings[l].stream
    => bindings[k].identity = bindings[l].identity

EntriesCarryClaims ==
  /\ \A c \in Capability :
       admissions[c] # None => admissions[c].expires = ExpiresAt[c]
  /\ \A w \in Capability \X Key :
       windows[w] # None => windows[w].expires = ExpiresAt[w[1]]

\* While a capability is alive, its admission pins it to its coordinates.
LiveAdmissionTracked ==
  \A r \in Request :
    /\ leased[r] \/ phase[r] = "sequence"
    /\ clock < ExpiresAt[frame[r].capability]
    => LET a == admissions[frame[r].capability]
       IN  a # None /\ a.fingerprint.key = frame[r].key

LiveLeasesDistinct ==
  \A r, q \in Request :
    /\ leased[r] /\ leased[q] /\ SameFrame(r, q)
    /\ clock < ExpiresAt[frame[r].capability]
    => r = q

PassedDistinct ==
  \A r, q \in Request :
    Passed(r) /\ Passed(q) /\ SameFrame(r, q) => r = q

PassedOneBinding ==
  \A r, q \in Request :
    Passed(r) /\ Passed(q) /\ frame[r].capability = frame[q].capability
    => frame[r].key = frame[q].key

ReleaseInv ==
  /\ TaskOrder
  /\ BoundIsRegistered
  /\ StreamsConsistent
  /\ EntriesCarryClaims
  /\ LiveAdmissionTracked
  /\ LiveLeaseTracked
  /\ LiveLeasesDistinct
  /\ PassedDistinct
  /\ PassedOneBinding

=============================================================================
