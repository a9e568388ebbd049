------------------------------ MODULE Telemetry ------------------------------
(***************************************************************************)
(* IngestTelemetry and the status report (av-contrib.rs): the tasks that   *)
(* record go through atomic counters and locked tables one step at a time, *)
(* and the report reads them one step at a time while they do.  Durations  *)
(* go to histograms, which share no state with the rest.                   *)
(*                                                                         *)
(* Abstracted: bytes, datagrams and dimensions, which are recorded beside  *)
(* the counts; the activity list; the ingest sessions (see IngestSessions); *)
(* the relay's lanes (see RelayLanes), of which the report reads whether   *)
(* one is impaired.  "ts" stands for RIST and SRT.                         *)
(***************************************************************************)
EXTENDS DurationHistogram, SequencesExt

CONSTANTS
  Recorder,        \* tasks that record
  Observed,        \* streams they record of
  StaleAfter,      \* stale_threshold_ms
  AlertLimit,      \* alerts kept
  MaxRecords,      \* bound: calls that record
  MaxReports,      \* bound: reports
  MaxClock         \* bound: time

ASSUME TelemetryAssumption ==
  /\ IsFiniteSet(Recorder) /\ IsFiniteSet(Observed)
  /\ AlertLimit \in Nat \ {0}
  /\ {StaleAfter, MaxRecords, MaxReports, MaxClock} \subseteq Nat

Input == {"raw", "media", "ts", "rtmp"}
Failure == {"meshError", "partError"}
Kind == Input \cup Failure \cup {"mesh", "part", "tracks", "damage"}
Stamped == Input \cup {"part"}
Protocol == {"ts", "rtmp"}

\* The field of a stream's record that a call of a kind raises.
Field(kind) == IF kind \in Input THEN "input" ELSE kind
Fields == {Field(k) : k \in Kind \ {"damage"}}

VARIABLES
  counters,  \* the counter of each kind
  stamp,     \* when the last of a kind was recorded, 0 for never
  protocols,  \* protocol_runtime
  runtime,   \* stream_runtime
  alerts,    \* recent_alerts, the newest first
  recording, \* per task, the call in progress
  records,   \* history: the calls begun
  impaired,  \* a lane of the relay is impaired (external)
  report,    \* the report being read and what it has read
  reports,   \* history: the reports made
  clock

telemetryVars == <<counters, stamp, protocols, runtime, alerts, recording, records, impaired,
                   report, reports, clock>>

NoCall == [kind |-> "none", stream |-> "none", detail |-> 0, n |-> 0, now |-> 0, todo |-> <<>>]
Zero(S) == [k \in S |-> 0]

\* state is that of the last report made.
NoReport == [at |-> 0, now |-> 0, state |-> "none", derived |-> {}, count |-> Zero(Kind),
             stamp |-> Zero(Stamped), protocol |-> Zero(Protocol),
             runtime |-> [s \in Observed |-> Zero(Fields)], impaired |-> FALSE,
             began |-> [count |-> Zero(Kind), stamp |-> Zero(Stamped)]]

TelemetryInit ==
  /\ counters = Zero(Kind) /\ stamp = Zero(Stamped)
  /\ protocols = Zero(Protocol) /\ runtime = [s \in Observed |-> Zero(Fields)]
  /\ alerts = <<>>
  /\ recording = [t \in Recorder |-> NoCall] /\ records = 0
  /\ impaired = FALSE
  /\ report = NoReport /\ reports = 0
  /\ clock = 1

-----------------------------------------------------------------------------
\* The record_ functions: the steps of each, in the order of the code.

RecordRawHttp == <<"count", "stamp", "stream">>
RecordMediaAccessUnit == <<"count", "stamp", "stream">>
RecordMeshForwardSuccess == <<"count", "stream">>
RecordMeshForwardError == <<"count", "stream", "alert">>
RecordMpegTsSlot == <<"count", "stamp", "protocol", "stream">>
RecordMpegTsDamage == <<"count">>
RecordRtmpAccessUnit == <<"count", "stamp", "protocol", "stream">>
RecordFmp4Part == <<"count", "stamp", "stream">>
RecordFmp4Tracks == <<"count", "stream">>
RecordFmp4PublishError == <<"count", "stream", "alert">>

Steps ==
  [raw |-> RecordRawHttp, media |-> RecordMediaAccessUnit, mesh |-> RecordMeshForwardSuccess,
   meshError |-> RecordMeshForwardError, ts |-> RecordMpegTsSlot, damage |-> RecordMpegTsDamage,
   rtmp |-> RecordRtmpAccessUnit, part |-> RecordFmp4Part,
   tracks |-> RecordFmp4Tracks, partError |-> RecordFmp4PublishError]

BeginCall(t, kind, stream, detail) ==
  /\ recording[t].todo = <<>> /\ records < MaxRecords
  /\ recording' = [recording EXCEPT ![t] =
       [kind |-> kind, stream |-> stream, detail |-> detail, n |-> 0, now |-> clock,
        todo |-> Steps[kind]]]
  /\ records' = records + 1
  /\ UNCHANGED <<counters, stamp, protocols, runtime, alerts, impaired, report, reports, clock>>

\* push_alert: an alert that is alike is counted again, where it stands.  The
\* message of a part names its sequence, which is the call's detail.
Alike(alert, call) ==
  alert.kind = call.kind /\ alert.stream = call.stream /\ alert.detail = call.detail

PushAlert(call) ==
  IF \E i \in DOMAIN alerts : Alike(alerts[i], call)
  THEN LET first == Min({i \in DOMAIN alerts : Alike(alerts[i], call)})
       IN  [alerts EXCEPT ![first].count = @ + 1]
  ELSE LET alert == [kind |-> call.kind, stream |-> call.stream, detail |-> call.detail,
                     count |-> IF call.kind = "meshError" THEN call.n ELSE 1]
           all == <<alert>> \o alerts
       IN  SubSeq(all, 1, Min({Len(all), AlertLimit}))

Record(t) ==
  LET call == recording[t]
      step == Head(call.todo)
      kind == call.kind
  IN  /\ call.todo # <<>>
      /\ counters' = IF step = "count" THEN [counters EXCEPT ![kind] = @ + 1] ELSE counters
      /\ stamp' = IF step = "stamp" THEN [stamp EXCEPT ![kind] = call.now] ELSE stamp
      /\ protocols' = IF step = "protocol" THEN [protocols EXCEPT ![kind] = @ + 1] ELSE protocols
      /\ runtime' = IF step = "stream"
                    THEN [runtime EXCEPT ![call.stream][Field(kind)] = @ + 1] ELSE runtime
      /\ alerts' = IF step = "alert" THEN PushAlert(call) ELSE alerts
      /\ recording' = [recording EXCEPT ![t] =
           IF Len(call.todo) = 1 THEN NoCall
           ELSE [call EXCEPT !.todo = Tail(@), !.n = IF step = "count" THEN counters'[kind] ELSE @]]
      /\ UNCHANGED <<records, impaired, report, reports, clock>>

\* Between reading the time and storing it no unit of it passes.
Elapse ==
  /\ clock < MaxClock
  /\ \A t \in Recorder : ~Contains(recording[t].todo, "stamp")
  /\ clock' = clock + 1
  /\ UNCHANGED <<counters, stamp, protocols, runtime, alerts, recording, records, impaired,
                 report, reports>>

LaneChanges ==
  /\ impaired' = ~impaired
  /\ UNCHANGED <<counters, stamp, protocols, runtime, alerts, recording, records, report,
                 reports, clock>>

-----------------------------------------------------------------------------
\* ContribStatusConfig::snapshot: the tables first, then counter by counter.

Load(what, kind) == [what |-> what, kind |-> kind]
Tables == <<Load("protocol", ""), Load("runtime", "")>>
Counters ==
  <<Load("count", "raw"), Load("stamp", "raw"), Load("count", "media"), Load("stamp", "media"),
    Load("count", "mesh"), Load("count", "meshError"), Load("impaired", ""),
    Load("count", "ts"), Load("stamp", "ts"), Load("count", "damage"),
    Load("count", "rtmp"), Load("stamp", "rtmp"),
    Load("count", "part"), Load("count", "partError"), Load("stamp", "part"),
    Load("count", "tracks")>>

\* Mutant of LoadOrder: the counters first.
LoadOrderCountersFirst == Counters \o Tables
LoadOrder == Tables \o Counters

BeginReport ==
  /\ report.at = 0 /\ reports < MaxReports
  /\ report' = [NoReport EXCEPT !.at = 1, !.now = clock, !.state = report.state,
                               !.derived = report.derived,
                               !.began = [count |-> counters, stamp |-> stamp]]
  /\ reports' = reports + 1
  /\ UNCHANGED <<counters, stamp, protocols, runtime, alerts, recording, records, impaired, clock>>

Read ==
  LET what == LoadOrder[report.at].what
      k == LoadOrder[report.at].kind
      read == CASE what = "protocol" -> [report EXCEPT !.protocol = protocols]
                [] what = "runtime"  -> [report EXCEPT !.runtime = runtime]
                [] what = "impaired" -> [report EXCEPT !.impaired = impaired]
                [] what = "count"    -> [report EXCEPT !.count[k] = counters[k]]
                [] what = "stamp"    -> [report EXCEPT !.stamp[k] = stamp[k]]
  IN  /\ report.at \in DOMAIN LoadOrder
      /\ report' = [read EXCEPT !.at = @ + 1]
      /\ UNCHANGED <<counters, stamp, protocols, runtime, alerts, recording, records, impaired,
                     reports, clock>>

\* derive_contrib_health.
Stale(r, kinds) ==
  LET seen == {k \in kinds : r.stamp[k] # 0}
  IN  seen # {} /\ \A k \in seen : r.now > r.stamp[k] + StaleAfter

InputSeen(r) == \E k \in Input : r.count[k] > 0
Degraded(r) == r.impaired \/ \E k \in Failure : r.count[k] > 0

Health(r) ==
  LET output == r.count["part"] > 0
      fmp4Input == \E k \in Protocol : r.count[k] > 0
  IN  CASE Degraded(r)                                        -> "degraded"
        [] ~Degraded(r) /\ output /\ Stale(r, {"part"})       -> "stale"
        [] ~Degraded(r) /\ output /\ ~Stale(r, {"part"})      -> "active"
        [] ~Degraded(r) /\ ~output /\ fmp4Input /\ Stale(r, Protocol) -> "stalled"
        [] OTHER -> IF InputSeen(r) THEN "ingesting" ELSE "waiting"

\* derive_contrib_alerts: its alerts, by their codes.
DerivedAlerts(r) ==
  {code \in {"waiting_for_input", "fmp4_output_stale", "fmp4_input_without_output",
             "relay_lane_impaired", "mpeg_ts_input_damage"} :
     \/ code = "waiting_for_input" /\ ~InputSeen(r)
     \/ code = "fmp4_output_stale" /\ Health(r) = "stale"
     \/ code = "fmp4_input_without_output" /\ Health(r) = "stalled"
     \/ code = "relay_lane_impaired" /\ r.impaired
     \/ code = "mpeg_ts_input_damage" /\ r.count["damage"] > 0}

MakeReport ==
  /\ report.at = Len(LoadOrder) + 1
  /\ report' = [report EXCEPT !.at = 0, !.state = Health(report),
                              !.derived = DerivedAlerts(report)]
  /\ UNCHANGED <<counters, stamp, protocols, runtime, alerts, recording, records, impaired,
                 reports, clock>>

CallsNext ==
  \/ \E t \in Recorder :
       \/ \E kind \in Kind, stream \in Observed :
            \E detail \in IF kind = "partError" THEN {1, 2} ELSE {0} :
              BeginCall(t, kind, stream, detail)
       \/ Record(t)
  \/ Elapse \/ LaneChanges
  \/ BeginReport \/ Read \/ MakeReport

TelemetryNext ==
  \/ CallsNext /\ UNCHANGED histogramVars
  \/ HistogramNext /\ UNCHANGED telemetryVars

TelemetrySpec ==
  TelemetryInit /\ HistogramInit /\ [][TelemetryNext]_<<telemetryVars, histogramVars>>

-----------------------------------------------------------------------------
\* Types.
TelemetryTypeOK ==
  /\ report.at \in 0 .. Len(LoadOrder) + 1
  /\ report.state \in {"none", "degraded", "stale", "active", "stalled", "ingesting", "waiting"}
  /\ Len(alerts) <= AlertLimit
  /\ \A k \in Kind : counters[k] <= records

OfStreams(r, field) == SumFunction([s \in Observed |-> r.runtime[s][field]])

\* What a report says of the streams and of the protocols is in its totals, though
\* calls record while it reads.
ReportAddsUp(r) ==
  /\ OfStreams(r, "input") <= SumFunctionOnSet(r.count, Input)
  /\ \A k \in Kind \ (Input \cup {"damage"}) : OfStreams(r, k) <= r.count[k]
  /\ \A k \in Protocol : r.protocol[k] <= r.count[k]

\* A report's state does not contradict what had been recorded before it began:
\* an error is in every later report, input is not forgotten, and output is stale
\* or missing only if none was published that recently, or none at all.
StateIsTrue(r) ==
  /\ (\E k \in Failure : r.began.count[k] > 0) => r.state = "degraded"
  /\ r.state = "waiting" => \A k \in Input : r.began.count[k] = 0
  /\ r.state \in {"waiting", "ingesting", "stalled"} => r.began.count["part"] = 0
  /\ r.state = "stale" => r.began.stamp["part"] + StaleAfter < r.now
  /\ "waiting_for_input" \in r.derived => \A k \in Input : r.began.count[k] = 0
  /\ r.began.count["damage"] > 0 => "mpeg_ts_input_damage" \in r.derived
  /\ r.state = "stalled" => \A k \in Protocol : r.began.stamp[k] + StaleAfter < r.now

\* Two alerts are never alike, and the one of the forwarder's errors counts no more
\* than there were, but for the calls that were counting at the same time.
AlertsAgree ==
  /\ \A i \in DOMAIN alerts, j \in DOMAIN alerts : Alike(alerts[i], alerts[j]) => i = j
  /\ \A i \in DOMAIN alerts :
       alerts[i].count < counters[alerts[i].kind] + Cardinality(Recorder)

\* The status report stays coherent with the calls that record while it is read
\* (av-contrib.rs 3706-3901, 4014-4029, 5396-5555).
ReportsAreTrue ==
  /\ report.at = 0 /\ reports > 0 => ReportAddsUp(report) /\ StateIsTrue(report)
  /\ AlertsAgree
  /\ PercentileIsTrue
=============================================================================
