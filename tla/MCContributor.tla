--------------------------- MODULE MCContributor ----------------------------
(* The parts of the process that share no state with the publication path, *)
(* and the probe, each an instance of its own, chosen by the initial state: *)
(*  - "relay": RelayLanes, two publishers;                                 *)
(*  - "slots": StreamSlotForwarder, two callers;                           *)
(*  - "window": SequenceReplay, a window of three bits and nine sequences: *)
(*    jumps inside the window, to its edge, past it, and late frames on    *)
(*    either side of its far edge;                                         *)
(*  - "ladder": QuadraPipeline, two rungs;                                 *)
(*  - "demux": MpegTsDemux, a video and an audio stream;                   *)
(*  - the keys of Recorded: Telemetry, two tasks that record some kinds;   *)
(*  - "histogram": Telemetry, two tasks that record durations;             *)
(*  - "reader": HlsReader.                                                 *)
EXTENDS RelayLanes, StreamSlotForwarder, SequenceReplay, QuadraPipeline,
        MpegTsDemux, Telemetry, HlsReader

VARIABLE part

MCSequence == 0 .. 8

mcVars == <<relayVars, forwarderVars, vars, quadraVars, demuxVars, telemetryVars,
            histogramVars, readerVars, part>>

\* The kinds that the tasks record in each instance of Telemetry.
Recorded ==
  [output |-> {"ts", "part"}, input |-> {"rtmp", "tracks"}, failure |-> {"partError"},
   forward |-> {"raw", "meshError"}, access |-> {"media", "damage"}, other |-> {"mesh"}]

MCInit ==
  /\ RelayInit /\ ForwarderInit /\ Init /\ QuadraInit
  /\ DemuxInit /\ TelemetryInit /\ HistogramInit /\ ReaderInit
  /\ part \in {"relay", "slots", "window", "ladder", "demux", "histogram", "reader"}
                \cup DOMAIN Recorded
  \* A part that stands still has one initial state.
  /\ part # "relay" => ~secondary
  /\ part # "slots" => ~relay /\ nextBlock = 0 /\ nextPacket = 0
  \* With both outputs a demultiplexer can do all that it can with one.
  /\ bridge.sink /\ bridge.publish_source
  /\ part # "reader" => mode = "direct"

\* A counter that no task records is read at once, which no other step can see.
\* Time matters for what may be stale.  The lane changes only in the instance
\* that has no other errors.
Unmoved ==
  report.at \in DOMAIN LoadOrder /\ LoadOrder[report.at].what \in {"count", "stamp"}
    /\ LoadOrder[report.at].kind \notin Recorded[part]
TelemetryStep ==
  /\ CallsNext
  /\ Unmoved => report' # report
  /\ \A t \in Recorder : recording'[t].kind \in Recorded[part] \cup {"none"}
  /\ clock' = clock \/ Recorded[part] \cap {"ts", "rtmp", "part"} # {}
  /\ impaired' = impaired \/ (part = "other" /\ ~impaired)

reportVars == <<telemetryVars, histogramVars>>

Part(p) == part = p /\ part' = part
RelayPart ==
  /\ RelayNext
  /\ UNCHANGED <<forwarderVars, vars, quadraVars, demuxVars, reportVars, readerVars>>
SlotsPart ==
  /\ ForwarderNext
  /\ UNCHANGED <<relayVars, vars, quadraVars, demuxVars, reportVars, readerVars>>
WindowPart ==
  /\ Next
  /\ UNCHANGED <<relayVars, forwarderVars, quadraVars, demuxVars, reportVars, readerVars>>
LadderPart ==
  /\ QuadraNext
  /\ UNCHANGED <<relayVars, forwarderVars, vars, demuxVars, reportVars, readerVars>>
DemuxPart ==
  /\ DemuxNext
  /\ UNCHANGED <<relayVars, forwarderVars, vars, quadraVars, reportVars, readerVars>>
TelemetryPart ==
  /\ TelemetryStep
  /\ UNCHANGED <<relayVars, forwarderVars, vars, quadraVars, demuxVars, histogramVars,
                 readerVars>>
HistogramPart ==
  /\ HistogramNext
  /\ UNCHANGED <<relayVars, forwarderVars, vars, quadraVars, demuxVars, telemetryVars,
                 readerVars>>
ReaderPart ==
  /\ ReaderNext
  /\ UNCHANGED <<relayVars, forwarderVars, vars, quadraVars, demuxVars, reportVars>>

MCNext ==
  \/ Part("relay") /\ RelayPart
  \/ Part("slots") /\ SlotsPart
  \/ Part("window") /\ WindowPart
  \/ Part("ladder") /\ LadderPart
  \/ Part("demux") /\ DemuxPart
  \/ \E p \in DOMAIN Recorded : Part(p) /\ TelemetryPart
  \/ Part("histogram") /\ HistogramPart
  \/ Part("reader") /\ ReaderPart

MCSpec == MCInit /\ [][MCNext]_mcVars

ContributorTypeOK ==
  /\ RelayTypeOK /\ ForwarderTypeOK /\ TypeOK /\ QuadraTypeOK
  /\ DemuxTypeOK /\ TelemetryTypeOK /\ ReaderTypeOK
=============================================================================
