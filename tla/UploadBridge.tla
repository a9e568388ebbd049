---------------------------- MODULE UploadBridge ----------------------------
(***************************************************************************)
(* The bridge tasks of av-contrib.rs: run_upload_response_ts_bridge polls  *)
(* the upload service for requests (RIST or SRT) and reads their slots,    *)
(* run_rtmp_hls_bridge takes events from a channel.  Each request gets a   *)
(* packager that feeds a playlist, and a session; both tasks share the     *)
(* playlists and the table of `IngestSessions`.                            *)
(*                                                                         *)
(* External: the upload service, whose requests appear under an id of      *)
(* their own, gain slots, end or are abandoned, and lose slots that were   *)
(* read too late; the RTMP listener.  Abstracted: what slots carry, and    *)
(* the packager (see Fmp4Publication): one is there or not.                *)
(***************************************************************************)
EXTENDS IngestSessions

CONSTANTS
  UploadRequest, \* request ids of the upload service
  RtmpStream,    \* ids of RTMP streams
  ZeroStream,    \* the RTMP stream id 0
  ConfiguredOutput, RtmpOutput,  \* the configured output streams
  MaxSlots,      \* bound: slots of a request
  MaxStarted     \* bound: no RTMP stream starts a session beyond it

ASSUME BridgeAssumption ==
  /\ MaxSlots \in Nat \ {0} /\ MaxStarted \in Nat
  /\ ConfiguredOutput # RtmpOutput
  /\ {ConfiguredOutput, RtmpOutput} \cap (UploadRequest \cup RtmpStream) = {}
  /\ NoOutput \notin {ConfiguredOutput, RtmpOutput} \cup UploadRequest \cup RtmpStream

Output == {ConfiguredOutput, RtmpOutput} \cup UploadRequest \cup RtmpStream
Slot == {"headers", "body", "end"}
Policy == {"FixedConfigured", "ConcurrentFallback"}

VARIABLES
  stopping,      \* the shutdown signal was sent
  policy,        \* the output policy: of RIST, or of SRT
  request,       \* the upload service: each request's life and slots
  bridges,       \* bridges: the state kept of each request
  poll,          \* where the upload task is
  segmenters,    \* the RTMP task's segmenters: their outputs
  rtmp,          \* the RTMP task runs
  open           \* playlists that took media since they were last finished

bridgeVars == <<stopping, policy, request, bridges, poll, segmenters, rtmp, open,
                sessionVars>>

\* What one poll has still to do: the bridges of requests that are gone, the
\* streams of its snapshot, then the slots of one stream up to `last`.
Resting == [at |-> "tick", stale |-> {}, streams |-> {}, of |-> NoOutput,
            slot |-> 0, last |-> 0, finished |-> NoOutput]

BridgeInit ==
  /\ SessionsInit
  /\ stopping = FALSE
  /\ policy \in Policy
  /\ request = [r \in UploadRequest |-> [life |-> "none", slots |-> <<>>]]
  /\ bridges = [r \in {} |-> 0]
  /\ poll = Resting
  /\ segmenters = [s \in {} |-> 0]
  /\ rtmp = TRUE
  /\ open = [o \in Output |-> FALSE]

-----------------------------------------------------------------------------
\* The upload service.

Appear(r) ==
  /\ request[r].life = "none" /\ ~stopping
  /\ request' = [request EXCEPT ![r].life = "active"]
  /\ UNCHANGED <<stopping, policy, bridges, poll, segmenters, rtmp, open, sessionVars>>

Gain(r, slot) ==
  /\ request[r].life = "active" /\ Len(request[r].slots) < MaxSlots
  /\ (slot = "headers") = (request[r].slots = <<>>)
  /\ request[r].slots # <<>> => Last(request[r].slots) # "end"
  /\ request' = [request EXCEPT ![r].slots = Append(@, slot)]
  /\ UNCHANGED <<stopping, policy, bridges, poll, segmenters, rtmp, open, sessionVars>>

Depart(r) ==
  /\ request[r].life = "active"
  /\ request' = [request EXCEPT ![r].life = "gone"]
  /\ UNCHANGED <<stopping, policy, bridges, poll, segmenters, rtmp, open, sessionVars>>

StopBridges ==
  /\ ~stopping
  /\ stopping' = TRUE
  /\ UNCHANGED <<policy, request, bridges, poll, segmenters, rtmp, open, sessionVars>>

-----------------------------------------------------------------------------
\* One tick of the upload task.

NewBridge == [output |-> NoOutput, seen |-> 0, packager |-> FALSE, ended |-> FALSE]

Without(r) == [q \in DOMAIN bridges \ {r} |-> bridges[q]]

\* upload_output_has_active_successor.  Mutant: a request that has ended
\* counts as well.
SuccessorEvenEnded(table, r, output) ==
  \E q \in DOMAIN table : q # r /\ table[q].output = output

HasSuccessor(table, r, output) ==
  \E q \in DOMAIN table :
    q # r /\ ~table[q].ended /\ table[q].output = output

\* playlists.fin, unless another request feeds the playlist.
FinUnlessFed(table, r, output) ==
  open' = IF output = NoOutput \/ HasSuccessor(table, r, output) THEN open
          ELSE [open EXCEPT ![output] = FALSE]

Poll ==
  LET active == {r \in UploadRequest : request[r].life = "active"}
  IN  /\ poll.at = "tick"
      /\ active \cup DOMAIN bridges # {}
      /\ poll' = [Resting EXCEPT !.at = "retire",
                    !.stale = DOMAIN bridges \ active,
                    !.streams = {<<r, Len(request[r].slots)>> : r \in active}]
      /\ UNCHANGED <<stopping, policy, request, bridges, segmenters, rtmp, open,
                     sessionVars>>

\* Mutant of RetireStale: a request that has ended is only forgotten.
RetireStaleUnended(r) ==
  /\ poll.at = "retire" /\ r \in poll.stale
  /\ poll' = [poll EXCEPT !.stale = @ \ {r}]
  /\ bridges' = Without(r)
  /\ IF bridges[r].packager THEN FinUnlessFed(Without(r), r, bridges[r].output)
     ELSE UNCHANGED open
  /\ UNCHANGED <<stopping, policy, request, segmenters, rtmp, sessionVars>>

RetireStale(r) ==
  /\ poll.at = "retire" /\ r \in poll.stale
  /\ poll' = [poll EXCEPT !.stale = @ \ {r}]
  /\ bridges' = Without(r)
  /\ FinUnlessFed(Without(r), r, bridges[r].output)
  /\ End("upload", r)
  /\ UNCHANGED <<stopping, policy, request, segmenters, rtmp>>

\* The next stream of the snapshot: tracked from now on, and read if it has
\* slots that were not seen.
Visit(r, last) ==
  LET known == r \in DOMAIN bridges
      b == IF known THEN bridges[r] ELSE NewBridge
      rest == poll.streams \ {<<r, last>>}
  IN  /\ poll.at = "retire" /\ poll.stale = {} /\ <<r, last>> \in poll.streams
      /\ bridges' = [q \in DOMAIN bridges \cup {r} |->
                       IF q = r THEN b ELSE bridges[q]]
      /\ IF known THEN UNCHANGED sessionVars ELSE Ensure("upload", r, NoOutput)
      /\ poll' = IF b.ended \/ last <= b.seen THEN [poll EXCEPT !.streams = rest]
                 ELSE [poll EXCEPT !.at = "slots", !.streams = rest, !.of = r,
                                   !.slot = b.seen + 1, !.last = last]
      /\ UNCHANGED <<stopping, policy, request, segmenters, rtmp, open>>

\* select_upload_ts_output_stream_id.
OutputFor(r) ==
  IF /\ policy = "ConcurrentFallback"
     /\ \E q \in DOMAIN bridges : q # r /\ bridges[q].packager /\ ~bridges[q].ended
  THEN r ELSE ConfiguredOutput

Reading == poll.at = "slots" /\ poll.slot <= poll.last
Advance == poll' = [poll EXCEPT !.slot = @ + 1]

ReadHeaders ==
  /\ Reading /\ request[poll.of].slots[poll.slot] = "headers"
  /\ Advance
  /\ Ensure("upload", poll.of, bridges[poll.of].output)
  /\ UNCHANGED <<stopping, policy, request, bridges, segmenters, rtmp, open>>

ReadBody ==
  LET r == poll.of
      output == IF bridges[r].packager THEN bridges[r].output ELSE OutputFor(r)
  IN  /\ Reading /\ request[r].slots[poll.slot] = "body"
      /\ Advance
      /\ bridges' = [bridges EXCEPT ![r].output = output, ![r].packager = TRUE]
      /\ open' = [open EXCEPT ![output] = TRUE]
      /\ Ensure("upload", r, IF bridges[r].packager THEN NoOutput ELSE output)
      /\ UNCHANGED <<stopping, policy, request, segmenters, rtmp>>

\* The end of a request finishes its packager and its session; its playlist is
\* left for when the slots are done.
ReadEnd ==
  LET r == poll.of
  IN  /\ Reading /\ request[r].slots[poll.slot] = "end"
      /\ poll' = [poll EXCEPT !.slot = @ + 1, !.finished = bridges[r].output]
      /\ bridges' = [bridges EXCEPT ![r].ended = TRUE]
      /\ End("upload", r)
      /\ UNCHANGED <<stopping, policy, request, segmenters, rtmp, open>>

\* A slot that is no longer there; a control slot is passed over as well.
PassSlot ==
  /\ Reading
  /\ Advance
  /\ UNCHANGED <<stopping, policy, request, bridges, segmenters, rtmp, open, sessionVars>>

\* Mutant of Settle: the next slot counts as seen.
SettlePastLast ==
  /\ poll.at = "slots" /\ poll.slot > poll.last
  /\ bridges' = [bridges EXCEPT ![poll.of].seen = poll.last + 1]
  /\ FinUnlessFed(bridges, poll.of, poll.finished)
  /\ poll' = [Resting EXCEPT !.at = "retire", !.streams = poll.streams]
  /\ UNCHANGED <<stopping, policy, request, segmenters, rtmp, sessionVars>>

Settle ==
  /\ poll.at = "slots" /\ poll.slot > poll.last
  /\ bridges' = [bridges EXCEPT ![poll.of].seen = poll.last]
  /\ FinUnlessFed(bridges, poll.of, poll.finished)
  /\ poll' = [Resting EXCEPT !.at = "retire", !.streams = poll.streams]
  /\ UNCHANGED <<stopping, policy, request, segmenters, rtmp, sessionVars>>

EndPoll ==
  /\ poll.at = "retire" /\ poll.stale = {} /\ poll.streams = {}
  /\ poll' = Resting
  /\ UNCHANGED <<stopping, policy, request, bridges, segmenters, rtmp, open, sessionVars>>

\* Every packager is finished and every session ended; no playlist is.
StopUpload ==
  /\ poll.at = "tick" /\ stopping
  /\ poll' = [Resting EXCEPT !.at = "stopped"]
  /\ bridges' = [r \in {} |-> 0]
  /\ EndAll("upload", DOMAIN bridges)
  /\ UNCHANGED <<stopping, policy, request, segmenters, rtmp, open>>

-----------------------------------------------------------------------------
\* The RTMP task.

\* rtmp_output_stream_id.
RtmpOutputFor(s) ==
  IF DOMAIN segmenters = {} \/ s = ZeroStream THEN RtmpOutput ELSE s

RtmpAccessUnit(s) ==
  LET output == IF s \in DOMAIN segmenters THEN segmenters[s] ELSE RtmpOutputFor(s)
  IN  /\ rtmp
      /\ s \in DOMAIN segmenters \/ sessionsStarted < MaxStarted
      /\ segmenters' = [q \in DOMAIN segmenters \cup {s} |->
                          IF q = s THEN output ELSE segmenters[q]]
      /\ open' = [open EXCEPT ![output] = TRUE]
      /\ Ensure("rtmp", s, IF s \in DOMAIN segmenters THEN NoOutput ELSE output)
      /\ UNCHANGED <<stopping, policy, request, bridges, poll, rtmp>>

RtmpEnd(s) ==
  /\ rtmp
  /\ segmenters' = [q \in DOMAIN segmenters \ {s} |-> segmenters[q]]
  /\ open' = IF s \in DOMAIN segmenters
             THEN [open EXCEPT ![segmenters[s]] = FALSE] ELSE open
  /\ End("rtmp", s)
  /\ UNCHANGED <<stopping, policy, request, bridges, poll, rtmp>>

\* The listener is gone and the channel closed: the loop ends and the segmenters are
\* dropped with it, unfinished.  No session is ended and no playlist finished.
RtmpClosed ==
  /\ rtmp /\ stopping
  /\ rtmp' = FALSE
  /\ segmenters' = [s \in {} |-> 0]
  /\ UNCHANGED <<stopping, policy, request, bridges, poll, open, sessionVars>>

-----------------------------------------------------------------------------
UploadTaskStep ==
  \/ Poll \/ EndPoll \/ StopUpload
  \/ \E r \in UploadRequest :
       \/ RetireStale(r)
       \/ \E last \in 0 .. MaxSlots : Visit(r, last)
  \/ ReadHeaders \/ ReadBody \/ ReadEnd \/ PassSlot \/ Settle

BridgeNext ==
  \/ UploadTaskStep
  \/ \E r \in UploadRequest :
       Appear(r) \/ Depart(r) \/ \E slot \in Slot : Gain(r, slot)
  \/ \E s \in RtmpStream : RtmpAccessUnit(s) \/ RtmpEnd(s)
  \/ RtmpClosed \/ StopBridges

BridgeSpec == BridgeInit /\ [][BridgeNext]_bridgeVars

-----------------------------------------------------------------------------
\* Types.
BridgeTypeOK ==
  /\ SessionsTypeOK
  /\ DOMAIN bridges \subseteq UploadRequest
  /\ poll.at \in {"tick", "retire", "slots", "stopped"}
  /\ \A r \in DOMAIN bridges :
       /\ bridges[r].output \in Output \cup {NoOutput}
       /\ bridges[r].seen \in 0 .. Len(request[r].slots)
       /\ bridges[r].packager = (bridges[r].output # NoOutput)
  /\ \A s \in DOMAIN segmenters : segmenters[s] \in Output

Feeds(r, output) == bridges[r].output = output /\ ~bridges[r].ended

\* Between polls a playlist of the upload task is open exactly while a request
\* that has not ended feeds it: none is finished under an overlapping request,
\* and none stays open once the last one has ended or gone, in whatever order
\* they do, with their end read, lost or never sent (lines 2442-2478,
\* 2701-2718).  And concurrent SRT requests never feed one playlist (lines
\* 2291-2314).
PlaylistsFollowRequests ==
  /\ poll.at = "tick" =>
       \A o \in {ConfiguredOutput} \cup UploadRequest :
         open[o] <=> \E r \in DOMAIN bridges : Feeds(r, o)
  /\ policy = "ConcurrentFallback" =>
       \A r, q \in DOMAIN bridges :
         Feeds(r, bridges[r].output) /\ Feeds(q, bridges[r].output)
           /\ bridges[r].packager => r = q

\* The sessions shown as active are the requests under way: those of the
\* upload task's table that have not ended, and none when it has stopped; those
\* of the RTMP task's segmenters, for as long as it runs.  The upload task ends its
\* sessions when it stops (av-contrib.rs 2412-2424), the RTMP task does not
\* (2737-2821): they stay active without a segmenter.
SessionsFollowRequests ==
  /\ ActiveSessionsKept
  /\ ActiveStreams("upload") = {r \in DOMAIN bridges : ~bridges[r].ended}
  /\ rtmp => ActiveStreams("rtmp") = DOMAIN segmenters

\* Every request that departs is let go of: its session ends and its state is
\* dropped, whatever it left unread.
DepartedAreDropped ==
  \A r \in UploadRequest :
    request[r].life = "gone" ~>
      r \notin DOMAIN bridges /\ r \notin ActiveStreams("upload")

=============================================================================
