-------------------------- MODULE DurationHistogram --------------------------
(***************************************************************************)
(* AtomicDurationHistogram (av-contrib.rs): tasks count durations in       *)
(* cumulative buckets, one atomic counter after the other, while a report  *)
(* reads them, one after the other, and derives a percentile from them.    *)
(* Abstracted: the sum of the durations.                                   *)
(***************************************************************************)
EXTENDS Naturals, Sequences, FiniteSets, FiniteSetsExt

CONSTANTS
  Timer,      \* tasks that record durations
  Durations,  \* the durations
  Bounds,     \* DURATION_HISTOGRAM_BUCKETS_US
  Percentile, \* the percentile reported, 95
  MaxTimed    \* bound: durations recorded

ASSUME HistogramAssumption ==
  /\ Durations \cup Bounds \subseteq Nat /\ Bounds # {}
  /\ IsFiniteSet(Timer) /\ IsFiniteSet(Bounds)
  /\ Percentile \in 1 .. 100 /\ MaxTimed \in Nat

VARIABLES
  histogram, \* the count, the greatest duration and the buckets
  timing,    \* per task, the call in progress
  started,   \* history: durations whose recording began
  recorded,  \* history: durations recorded
  snapshot   \* what the report has read of the histogram

histogramVars == <<histogram, timing, started, recorded, snapshot>>

NotTiming == [step |-> "idle", duration |-> 0, left |-> {}]
NoSnapshot == [step |-> "idle", count |-> 0, buckets |-> [b \in Bounds |-> 0], left |-> {},
               quiet |-> FALSE, before |-> <<>>, percentile |-> 0]

HistogramInit ==
  /\ histogram = [count |-> 0, max |-> 0, buckets |-> [b \in Bounds |-> 0]]
  /\ timing = [t \in Timer |-> NotTiming]
  /\ started = <<>> /\ recorded = <<>>
  /\ snapshot = NoSnapshot

-----------------------------------------------------------------------------
\* record: the count, the greatest duration, then every bucket the duration is
\* within, from the least bound.

StartTiming(t, d) ==
  /\ timing[t].step = "idle" /\ Len(started) < MaxTimed
  /\ timing' = [timing EXCEPT ![t] =
       [step |-> "count", duration |-> d, left |-> {b \in Bounds : d <= b}]]
  /\ started' = Append(started, d)
  /\ UNCHANGED <<histogram, recorded, snapshot>>

\* The call goes on with the buckets left, or returns.
Proceed(t, left) ==
  IF left = {}
  THEN /\ timing' = [timing EXCEPT ![t] = NotTiming]
       /\ recorded' = Append(recorded, timing[t].duration)
  ELSE /\ timing' = [timing EXCEPT ![t].step = "buckets", ![t].left = left]
       /\ UNCHANGED recorded

CountDuration(t) ==
  /\ timing[t].step = "count"
  /\ histogram' = [histogram EXCEPT !.count = @ + 1]
  /\ timing' = [timing EXCEPT ![t].step = "max"]
  /\ UNCHANGED <<started, recorded, snapshot>>

RaiseMax(t) ==
  /\ timing[t].step = "max"
  /\ histogram' = [histogram EXCEPT !.max = Max({@, timing[t].duration})]
  /\ Proceed(t, timing[t].left)
  /\ UNCHANGED <<started, snapshot>>

CountBucket(t) ==
  LET b == Min(timing[t].left)
  IN  /\ timing[t].step = "buckets"
      /\ histogram' = [histogram EXCEPT !.buckets[b] = @ + 1]
      /\ Proceed(t, timing[t].left \ {b})
      /\ UNCHANGED <<started, snapshot>>

-----------------------------------------------------------------------------
\* snapshot: the count, the buckets from the least bound, the greatest duration.

ReadCount ==
  /\ snapshot.step = "idle"
  /\ snapshot' = [NoSnapshot EXCEPT !.step = "buckets", !.count = histogram.count,
                    !.left = Bounds, !.quiet = \A t \in Timer : timing[t].step = "idle",
                    !.before = recorded]
  /\ UNCHANGED <<histogram, timing, started, recorded>>

ReadBucket ==
  LET b == Min(snapshot.left)
  IN  /\ snapshot.step = "buckets" /\ snapshot.left # {}
      /\ snapshot' = [snapshot EXCEPT !.buckets[b] = histogram.buckets[b], !.left = @ \ {b}]
      /\ UNCHANGED <<histogram, timing, started, recorded>>

\* Mutant of Rank: rounded down.
RankRoundedDown(n) == (n * Percentile) \div 100
Rank(n) == (n * Percentile + 99) \div 100

\* histogram_percentile_upper_bound_us, of a count that is not zero.
UpperBound(n, buckets, max) ==
  LET within == {b \in Bounds : buckets[b] >= Rank(n)}
  IN  IF within = {} THEN max ELSE Min(within)

ReadMax ==
  /\ snapshot.step = "buckets" /\ snapshot.left = {}
  /\ snapshot' = [snapshot EXCEPT !.step = "done",
                    !.percentile = UpperBound(snapshot.count, snapshot.buckets, histogram.max)]
  /\ UNCHANGED <<histogram, timing, started, recorded>>

HistogramNext ==
  \/ \E t \in Timer : \/ \E d \in Durations : StartTiming(t, d)
                      \/ CountDuration(t) \/ RaiseMax(t) \/ CountBucket(t)
  \/ ReadCount \/ ReadBucket \/ ReadMax

-----------------------------------------------------------------------------
Within(durations, limit) == Cardinality({i \in DOMAIN durations : durations[i] <= limit})

\* The percentile of a report that began between two calls is one: as many of the
\* durations are within it as it says, and within no lesser bound, though calls
\* record while the buckets are read (av-contrib.rs 2889-2939).  Of a report that
\* began in the middle of a call it may be neither.
PercentileIsTrue ==
  snapshot.step = "done" /\ snapshot.quiet /\ snapshot.count > 0 =>
    /\ 100 * Within(started, snapshot.percentile) >= Percentile * snapshot.count
    /\ \A b \in Bounds : b < snapshot.percentile =>
         100 * Within(snapshot.before, b) < Percentile * snapshot.count
=============================================================================
