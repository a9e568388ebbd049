------------------------------ MODULE HlsReader ------------------------------
(***************************************************************************)
(* receive_hls (aep1-48k-probe.rs): the probe that qualifies a stream reads *)
(* a window of its parts and reports which of them it received.  It reads  *)
(* the tail or the parts one after the other, responses that aggregate     *)
(* several parts, or, over HTTP/3, keeps several requests in flight and    *)
(* starts again on a new connection.                                       *)
(*                                                                         *)
(* External: the edge, which keeps the last parts; the connection.         *)
(* Abstracted: the content of a part and its latencies; the clock is past  *)
(* the start of the session.                                               *)
(***************************************************************************)
EXTENDS Integers, FiniteSets, FiniteSetsExt

CONSTANTS
  Expected,       \* parts of the window to qualify
  Depth,          \* H3_PART_PIPELINE_DEPTH
  ReconnectLimit, \* H3_REQUEST_RECONNECT_LIMIT
  Aggregate,      \* parts of an aggregated response
  EdgeKeeps,      \* parts the edge keeps
  MaxPart         \* bound: parts published

ASSUME ReaderAssumption ==
  /\ {Expected, Depth, Aggregate, EdgeKeeps} \subseteq Nat \ {0}
  /\ Expected % Aggregate = 0
  /\ {ReconnectLimit, MaxPart} \subseteq Nat

VARIABLES
  edge,        \* the parts the edge has: first .. next - 1 (external)
  mode,        \* how the probe reads, fixed
  reading,     \* what the probe is doing
  baseline,    \* object_sequence_baseline
  rebase,      \* allow_initial_object_rebase
  begun,       \* object_sequence_started
  after,       \* after_sequence, or the one before the baseline
  covered,     \* part_coverage: positions, with the object that was counted
  samples,     \* history: parts counted
  nextSequence, \* next_sequence
  flights,     \* in_flight: the requests and their fate
  connection   \* the connection is broken, and how often it was replaced

readerVars == <<edge, mode, reading, baseline, rebase, begun, after, covered, samples,
                nextSequence, flights, connection>>
coverage == <<covered, samples>>
cursor == <<baseline, rebase, begun, after>>

Mode == {"tail", "direct", "aggregated", "pipeline", "shared"}
Pipelined == mode \in {"pipeline", "shared"}

ReaderInit ==
  /\ edge = [live |-> FALSE, first |-> 0, next |-> 0]
  /\ mode \in Mode
  /\ reading = [at |-> "playlist", empty |-> FALSE]
  /\ baseline = 0 /\ rebase = FALSE /\ begun = FALSE /\ after = -1
  /\ covered = {} /\ samples = 0
  /\ nextSequence = 0 /\ flights = [q \in {} |-> "sent"]
  /\ connection = [broken |-> FALSE, replaced |-> 0]

To(step) == reading' = [at |-> step, empty |-> reading.empty]
Received == Cardinality(covered)

-----------------------------------------------------------------------------
\* The edge and the connection (external).

HasParts == edge.first < edge.next
Available == edge.first .. edge.next - 1

\* The stream's playlist appears, at any part.
GoLive ==
  /\ ~edge.live
  /\ \E q \in 0 .. 1 : edge' = [live |-> TRUE, first |-> q, next |-> q]
  /\ UNCHANGED <<mode, reading, cursor, coverage, nextSequence, flights, connection>>

PublishPart ==
  /\ edge.live /\ edge.next < MaxPart
  /\ edge' = [edge EXCEPT !.next = @ + 1, !.first = Max({@, edge.next + 1 - EdgeKeeps})]
  /\ UNCHANGED <<mode, reading, cursor, coverage, nextSequence, flights, connection>>

Answer(q) ==
  /\ q \in DOMAIN flights /\ flights[q] = "sent"
  /\ flights' = [flights EXCEPT ![q] = IF q \in Available THEN "ok" ELSE "missing"]
  /\ UNCHANGED <<edge, mode, reading, cursor, coverage, nextSequence, connection>>

\* Requests that are not answered yet fail with the connection.
Lost(requests) == [q \in DOMAIN requests |-> IF requests[q] = "sent" THEN "failed" ELSE requests[q]]

Break ==
  /\ Pipelined /\ reading.at \in {"media", "refresh"} /\ ~connection.broken
  /\ connection' = [connection EXCEPT !.broken = TRUE]
  /\ flights' = Lost(flights)
  /\ UNCHANGED <<edge, mode, reading, cursor, coverage, nextSequence>>

-----------------------------------------------------------------------------
\* The playlist, and the window.

Request == IF connection.broken THEN "failed" ELSE "sent"
Burst(from) == [q \in from .. from + Depth - 1 |-> Request]

\* The initial playlist: from its first part if it was seen empty, else from the
\* next one.
ReadPlaylist ==
  /\ reading.at = "playlist"
  /\ IF ~edge.live
     THEN /\ reading' = [reading EXCEPT !.empty = TRUE]
          /\ UNCHANGED <<cursor, nextSequence, flights>>
     ELSE /\ baseline' = IF reading.empty /\ HasParts THEN edge.first ELSE edge.next
          /\ rebase' = ~HasParts
          /\ after' = baseline' - 1
          /\ nextSequence' = baseline' + Depth
          /\ flights' = IF Pipelined THEN Burst(baseline') ELSE flights
          /\ To("media")
          /\ UNCHANGED begun
  /\ UNCHANGED <<edge, mode, coverage, connection>>

\* The time is over, or the playlist never came.
Stop ==
  /\ reading.at = "playlist" \/ (reading.at = "media" /\ Received < Expected)
  /\ To(IF reading.at = "media" THEN "done" ELSE "failed")
  /\ UNCHANGED <<edge, mode, cursor, coverage, nextSequence, flights, connection>>

\* The baseline that the playlist moves to.
Refreshed ==
  IF HasParts /\ baseline < edge.first THEN edge.first
  ELSE IF ~HasParts /\ baseline < edge.next THEN edge.next
  ELSE baseline

\* The position of a part in the window; a part is counted once.
Counted(parts, base) ==
  {[position |-> q - base, part |-> q] : q \in {p \in parts : p - base < Expected}}
New(counted) == {c \in counted : \A d \in covered : d.position # c.position}
Insert(counted) ==
  /\ covered' = covered \cup New(counted)
  /\ samples' = samples + Cardinality(New(counted))

-----------------------------------------------------------------------------
\* One request at a time.

Follow(q) == /\ begun' = TRUE /\ rebase' = FALSE /\ after' = q

\* The tail answers with the part asked for or, that one being gone, a later one;
\* a part route with the part itself.
ReadPart(q) ==
  /\ reading.at = "media" /\ mode \in {"tail", "direct"} /\ Received < Expected
  /\ q \in Available
  /\ IF mode = "direct" THEN q = after + 1 ELSE q = Max({after + 1, edge.first})
  /\ IF ~begun /\ q # baseline /\ ~rebase
     THEN To("failed") /\ UNCHANGED <<cursor, coverage>>
     ELSE /\ baseline' = IF begun THEN baseline ELSE q
          /\ Follow(q)
          /\ Insert(Counted({q}, baseline'))
          /\ UNCHANGED reading
  /\ UNCHANGED <<edge, mode, nextSequence, flights, connection>>

NoPartYet ==
  /\ reading.at = "media" /\ mode \in {"tail", "direct"} /\ Received < Expected
  /\ IF mode = "direct" THEN after + 1 \notin Available ELSE after + 1 >= edge.next
  /\ ~begun /\ To("refresh")
  /\ UNCHANGED <<edge, mode, cursor, coverage, nextSequence, flights, connection>>

\* An answer that is no playlist leaves the baseline where it is.
RefreshBaseline ==
  /\ reading.at = "refresh" /\ ~Pipelined
  /\ To("media")
  /\ \/ /\ Refreshed # baseline
        /\ baseline' = Refreshed /\ after' = Refreshed - 1 /\ rebase' = ~HasParts
     \/ UNCHANGED <<baseline, after, rebase>>
  /\ UNCHANGED <<edge, mode, begun, coverage, nextSequence, flights, connection>>

\* A response of several parts, which must follow the last one.
ReadParts(q) ==
  LET parts == q .. q + Aggregate - 1
  IN  /\ reading.at = "media" /\ mode = "aggregated" /\ Received < Expected
      /\ parts \subseteq Available /\ q = Max({after + 1, edge.first})
      /\ IF q # after + 1 /\ ~(rebase /\ ~begun)
         THEN To("failed") /\ UNCHANGED <<cursor, coverage>>
         ELSE /\ baseline' = IF begun THEN baseline ELSE q
              /\ Follow(q + Aggregate - 1)
              /\ Insert(Counted(parts, baseline'))
              /\ UNCHANGED reading
      /\ UNCHANGED <<edge, mode, nextSequence, flights, connection>>

-----------------------------------------------------------------------------
\* The pipeline.

Forget(q) == [p \in DOMAIN flights \ {q} |-> flights[p]]
With(requests, q, request) ==
  [p \in DOMAIN requests \cup {q} |-> IF p = q THEN request ELSE requests[p]]

\* The next request, in the place of q, while parts are missing; counted is how many
\* have been received.
Schedule(q, counted, from, request) ==
  IF counted < Expected
  THEN flights' = With(Forget(q), from, request) /\ nextSequence' = from + 1
  ELSE flights' = Forget(q) /\ nextSequence' = from

Running == reading.at = "media" /\ Pipelined /\ Received < Expected

\* The connection is replaced, which fails what is in flight on the old one.
Replace ==
  /\ mode = "pipeline" /\ connection.replaced < ReconnectLimit
  /\ connection' = [broken |-> FALSE, replaced |-> connection.replaced + 1]

\* Once a part is counted, init.mp4 is read while the codec is unknown.  Over a broken
\* connection its request replaces the connection by itself, or fails for good.
TakePart(q) ==
  /\ Running /\ q \in DOMAIN flights /\ flights[q] = "ok"
  /\ begun' = TRUE
  /\ IF q < baseline
     THEN To("failed") /\ UNCHANGED <<coverage, nextSequence, flights, connection>>
     ELSE /\ Insert(Counted({q}, baseline))
          /\ \/ /\ Schedule(q, Cardinality(covered'), nextSequence, Request)
                /\ UNCHANGED <<reading, connection>>
             \/ /\ connection.broken /\ Replace
                /\ Schedule(q, Cardinality(covered'), nextSequence, "sent")
                /\ UNCHANGED reading
             \/ /\ connection.broken /\ To("failed")
                /\ UNCHANGED <<nextSequence, flights, connection>>
  /\ UNCHANGED <<edge, mode, baseline, rebase, after>>

\* A part that is not there is asked for again; before the first part the playlist
\* is read before.
TakeMissing(q) ==
  /\ Running /\ q \in DOMAIN flights /\ flights[q] = "missing"
  /\ IF begun
     THEN flights' = With(Forget(q), q, Request) /\ UNCHANGED reading
     ELSE To("refresh") /\ UNCHANGED flights
  /\ UNCHANGED <<edge, mode, cursor, coverage, nextSequence, connection>>

\* The playlist's request replaces a broken connection by itself.
RefreshOnNewConnection ==
  /\ reading.at = "refresh" /\ Pipelined /\ connection.broken
  /\ Replace /\ flights' = Lost(flights)
  /\ UNCHANGED <<edge, mode, reading, cursor, coverage, nextSequence>>

\* q is the missing part that led to the playlist.
RefreshPipeline(q) ==
  \E base \in {baseline, Refreshed} : LET from == Max({nextSequence, base}) IN
    /\ reading.at = "refresh" /\ Pipelined /\ ~connection.broken
    /\ q \in DOMAIN flights /\ flights[q] = "missing"
    /\ To("media")
    /\ baseline' = base
    /\ IF q >= base THEN flights' = With(Forget(q), q, Request) /\ nextSequence' = from
       ELSE Schedule(q, Received, from, Request)
    /\ UNCHANGED <<edge, mode, rebase, begun, after, coverage, connection>>

\* The first position that has not been received.
\* Mutant of RestartFrom: after the last one that has.
RestartFromLast == baseline + Received
RestartFrom ==
  baseline + Min({r \in 0 .. Expected : \A c \in covered : c.position # r})

TakeFailure(q) ==
  /\ Running /\ q \in DOMAIN flights /\ flights[q] = "failed"
  /\ Replace
  /\ nextSequence' = RestartFrom + Depth
  /\ flights' = [p \in RestartFrom .. RestartFrom + Depth - 1 |-> "sent"]
  /\ UNCHANGED <<edge, mode, reading, cursor, coverage>>

\* No connection replaces the broken one, any more or at all.
GiveUp ==
  /\ \/ Running /\ \E q \in DOMAIN flights : flights[q] = "failed"
     \/ reading.at = "refresh" /\ connection.broken
  /\ To("failed")
  /\ UNCHANGED <<edge, mode, cursor, coverage, nextSequence, flights, connection>>

Finished ==
  /\ reading.at = "media" /\ Received = Expected
  /\ To("done")
  /\ UNCHANGED <<edge, mode, cursor, coverage, nextSequence, flights, connection>>

ReaderNext ==
  \/ GoLive \/ PublishPart \/ Break
  \/ ReadPlaylist \/ Stop \/ NoPartYet \/ RefreshBaseline
  \/ \E q \in 0 .. MaxPart : ReadPart(q) \/ ReadParts(q)
  \/ \E q \in DOMAIN flights :
       Answer(q) \/ TakePart(q) \/ TakeMissing(q) \/ RefreshPipeline(q) \/ TakeFailure(q)
  \/ RefreshOnNewConnection \/ GiveUp \/ Finished

ReaderSpec == ReaderInit /\ [][ReaderNext]_readerVars

-----------------------------------------------------------------------------
\* Types.
ReaderTypeOK ==
  /\ reading.at \in {"playlist", "media", "refresh", "done", "failed"}
  /\ Cardinality(DOMAIN flights) <= Depth
  /\ \A q \in DOMAIN flights : flights[q] \in {"sent", "ok", "missing", "failed"}
  /\ connection.replaced <= ReconnectLimit

\* The report is about the window: each position was received at most once, as the
\* part at that place after the baseline, however the baseline moved before the
\* first one and however often a part was asked for.  While the pipeline runs,
\* every part of the window that it has passed was received or is asked for: no
\* new connection and no new baseline leaves one out (lines 3170-3475).
WindowIsRead ==
  /\ samples = Received
  /\ \A c \in covered : c.part = baseline + c.position /\ c.position \in 0 .. Expected - 1
  /\ reading.at = "media" /\ Pipelined =>
       \A r \in 0 .. Expected - 1 : baseline + r < nextSequence =>
         baseline + r \in DOMAIN flights \/ \E c \in covered : c.position = r
=============================================================================
