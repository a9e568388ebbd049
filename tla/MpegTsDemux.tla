----------------------------- MODULE MpegTsDemux -----------------------------
(***************************************************************************)
(* TsFmp4Bridge and its ElementaryStreamConsumers (fmp4_bridge.rs): the    *)
(* packets of a transport stream become access units, which go to a        *)
(* rendition sink and to the segmenter.                                    *)
(*                                                                         *)
(* External: the multiplexer, whose packets may be lost; the reader of the *)
(* packets, which reports a lost packet and then ignores the stream up to  *)
(* the next start of a payload; and the parsers of NAL units and of ADTS   *)
(* frames.  Abstracted: a packet carries one chunk, which is one frame of  *)
(* an ADTS payload.                                                        *)
(***************************************************************************)
EXTENDS Naturals, Sequences, SequencesExt, FiniteSetsExt

CONSTANTS
  ElementaryStream, \* the streams of the program, named by their kind
  PesLimit,         \* MAX_PES_PAYLOAD_BYTES, in chunks
  FrameTicks,       \* duration of an ADTS frame
  MaxPackets        \* bound: packets the multiplexer sends

ASSUME DemuxAssumption ==
  /\ ElementaryStream \subseteq {"h264", "adts", "private"}
  /\ PesLimit \in Nat \ {0} /\ FrameTicks \in Nat /\ MaxPackets \in Nat

VARIABLES
  mux,        \* per stream, the payloads sent: their chunks and timestamps (external)
  reader,     \* per stream, the state of its packet reader (external)
  consumer,   \* per stream, accumulated_payload and the timestamp
  demuxed,    \* the units of the push in progress, in order
  phase,      \* what the bridge is doing
  damage,     \* what the observer was told
  bridge,     \* which outputs the bridge has, fixed
  toSink,     \* history: units offered to the sink, and whether it took them
  toSegmenter \* history: units the segmenter took

demuxVars ==
  <<mux, reader, consumer, demuxed, phase, damage, bridge, toSink, toSegmenter>>
outputs == <<bridge, toSink, toSegmenter>>

NewConsumer == [payload |-> <<>>, time |-> 0]

DemuxInit ==
  /\ mux = [s \in ElementaryStream |-> <<>>]
  /\ reader = [s \in ElementaryStream |-> [state |-> "begin", seen |-> FALSE, gap |-> FALSE]]
  /\ consumer = [s \in ElementaryStream |-> NewConsumer]
  /\ demuxed = <<>> /\ phase = "demux"
  /\ damage = [continuity |-> 0, dropped |-> 0]
  /\ bridge \in {b \in [sink : BOOLEAN, publish_source : BOOLEAN] : b.sink \/ b.publish_source}
  /\ toSink = <<>> /\ toSegmenter = <<>>

-----------------------------------------------------------------------------
\* The multiplexer (external): the next packet of a stream starts a payload, with
\* a timestamp or without one, or goes on with the last payload.

Spacing == 10

PacketsSent == MapThenSumSet(LAMBDA s : FoldLeft(LAMBDA n, p : n + p.length, 0, mux[s]),
                      ElementaryStream)

SendStart(s, stamped) ==
  /\ PacketsSent < MaxPackets
  /\ mux' = [mux EXCEPT ![s] =
       Append(@, [length |-> 1, stamp |-> IF stamped THEN Spacing * (Len(@) + 1) ELSE 0])]

SendMore(s) ==
  /\ PacketsSent < MaxPackets /\ mux[s] # <<>>
  /\ mux' = [mux EXCEPT ![s][Len(mux[s])].length = @ + 1]

\* The packet of this step.
Chunk(s) == [pes |-> Len(mux'[s]), index |-> Last(mux'[s]).length]

\* The packet never arrives; the next one that does shows the loss.
Lose(s, Send) ==
  /\ phase = "demux" /\ Send
  /\ reader' = [reader EXCEPT ![s].gap = reader[s].seen]
  /\ UNCHANGED <<consumer, demuxed, phase, damage, outputs>>

-----------------------------------------------------------------------------
\* ElementaryStreamConsumer.

\* Mutant of Oversized: the limit is checked before the chunk is added.
OversizedPastLimit(c) == Len(c.payload) > PesLimit
\* A payload over the limit is dropped, and what follows of it is kept.
Oversized(c) == Len(c.payload) + 1 > PesLimit
AppendPayload(c, chunk) ==
  [c EXCEPT !.payload = IF Oversized(c) THEN <<>> ELSE Append(@, chunk)]

\* A payload without a timestamp keeps the one before.
BeginPacket(c, chunk, timestamp) ==
  AppendPayload([c EXCEPT !.time = IF timestamp = 0 THEN @ ELSE timestamp], chunk)

\* What a payload gives: ADTS one unit for each frame, the others one unit.
Units(s, c) ==
  IF s = "adts"
  THEN [i \in DOMAIN c.payload |->
          [stream |-> s, chunks |-> <<c.payload[i]>>, pts |-> c.time + (i - 1) * FrameTicks]]
  ELSE IF c.payload = <<>> THEN <<>>
  ELSE <<[stream |-> s, chunks |-> c.payload, pts |-> c.time]>>

\* "none": no NAL unit of the payload is kept, or its ADTS frames are malformed.
Outcomes(s) == IF s = "private" THEN {"parsed"} ELSE {"parsed", "none"}
EndPacket(s, c, outcome) == IF outcome = "none" THEN <<>> ELSE Units(s, c)
Malformed(s, c, outcome) ==
  IF s = "adts" /\ c.payload # <<>> /\ outcome = "none" THEN 1 ELSE 0

\* Mutant of AfterLoss: the partial payload is counted and kept.
AfterLossKept(c) == c
AfterLoss(c) == [c EXCEPT !.payload = <<>>]

-----------------------------------------------------------------------------
\* The reader (external) and what it calls for a packet that arrives.

\* The consumer and the reader's state once a loss has been reported.
Arrived(s) == IF reader[s].gap THEN AfterLoss(consumer[s]) ELSE consumer[s]
Follows(s) == ~reader[s].gap /\ reader[s].state = "started"

Deliver(s, state, c, units, drops) ==
  /\ phase = "demux"
  /\ reader' = [reader EXCEPT ![s] = [state |-> state, seen |-> TRUE, gap |-> FALSE]]
  /\ consumer' = [consumer EXCEPT ![s] = c]
  /\ demuxed' = demuxed \o units
  /\ damage' = [continuity |-> damage.continuity + (IF reader[s].gap THEN 1 ELSE 0),
                dropped |-> damage.dropped + drops]
  /\ UNCHANGED <<phase, outputs>>

\* A start ends the payload before it, unless there was a loss.
StartPayload(s, stamped, outcome) ==
  LET ended == Arrived(s)
      fresh == IF Follows(s) THEN [ended EXCEPT !.payload = <<>>] ELSE ended
  IN  /\ SendStart(s, stamped)
      /\ Deliver(s, "started", BeginPacket(fresh, Chunk(s), Last(mux'[s]).stamp),
                 IF Follows(s) THEN EndPacket(s, ended, outcome) ELSE <<>>,
                 IF Follows(s) THEN Malformed(s, ended, outcome) ELSE 0)

More(s) ==
  /\ SendMore(s)
  /\ IF Follows(s)
     THEN Deliver(s, "started", AppendPayload(consumer[s], Chunk(s)), <<>>,
                  IF Oversized(consumer[s]) THEN 1 ELSE 0)
     ELSE Deliver(s, IF reader[s].gap THEN "ignore" ELSE reader[s].state, Arrived(s), <<>>, 0)

\* The program's table changes: the stream gets a new reader and a new consumer.
Reregister(s) ==
  /\ phase = "demux" /\ reader[s].seen
  /\ reader' = [reader EXCEPT ![s] = [state |-> "begin", seen |-> FALSE, gap |-> FALSE]]
  /\ consumer' = [consumer EXCEPT ![s] = NewConsumer]
  /\ UNCHANGED <<mux, demuxed, phase, damage, outputs>>

-----------------------------------------------------------------------------
\* TsFmp4Bridge.

\* reset, between two pushes: a new demultiplexer.
Reset ==
  /\ phase = "demux" /\ demuxed = <<>> /\ \E s \in ElementaryStream : reader[s].seen
  /\ reader' = [s \in ElementaryStream |-> [state |-> "begin", seen |-> FALSE, gap |-> FALSE]]
  /\ consumer' = [s \in ElementaryStream |-> NewConsumer]
  /\ UNCHANGED <<mux, demuxed, phase, damage, outputs>>

\* push_ts: a chunk has been demultiplexed, its units are dispatched.
EndPush ==
  /\ phase = "demux" /\ demuxed # <<>>
  /\ phase' = "dispatch"
  /\ UNCHANGED <<mux, reader, consumer, demuxed, damage, outputs>>

\* finish: the payloads in progress end, in some order of the streams.
Orders == SetToSeqs(ElementaryStream)
Flushed(s, outcome) ==
  IF reader[s].state = "started" THEN EndPacket(s, consumer[s], outcome) ELSE <<>>

Finish ==
  /\ phase = "demux" /\ demuxed = <<>>
  /\ phase' = "final"
  /\ consumer' = [s \in ElementaryStream |-> [consumer[s] EXCEPT !.payload = <<>>]]
  /\ \E order \in Orders, parsed \in SUBSET ElementaryStream :
       /\ \A s \in ElementaryStream \ parsed : "none" \in Outcomes(s)
       /\ demuxed' = FoldLeft(LAMBDA all, s :
                        all \o Flushed(s, IF s \in parsed THEN "parsed" ELSE "none"), <<>>, order)
  /\ UNCHANGED <<mux, reader, damage, outputs>>

\* Mutant of Dispatch: an error of the sink ends the dispatch of the unit.
DispatchUnlessRejected(accepted) ==
  /\ phase \in {"dispatch", "final"} /\ demuxed # <<>>
  /\ ~accepted => bridge.sink
  /\ toSink' = IF bridge.sink THEN Append(toSink, [unit |-> Head(demuxed), taken |-> accepted])
               ELSE toSink
  /\ toSegmenter' = IF bridge.publish_source /\ accepted
                    THEN Append(toSegmenter, Head(demuxed)) ELSE toSegmenter
  /\ demuxed' = Tail(demuxed)
  /\ UNCHANGED <<mux, reader, consumer, phase, damage, bridge>>

\* dispatch_access_unit: an error of the sink is logged and the unit goes on to the
\* segmenter.
Dispatch(accepted) ==
  /\ phase \in {"dispatch", "final"} /\ demuxed # <<>>
  /\ ~accepted => bridge.sink
  /\ toSink' = IF bridge.sink THEN Append(toSink, [unit |-> Head(demuxed), taken |-> accepted])
               ELSE toSink
  /\ toSegmenter' = IF bridge.publish_source THEN Append(toSegmenter, Head(demuxed))
                    ELSE toSegmenter
  /\ demuxed' = Tail(demuxed)
  /\ UNCHANGED <<mux, reader, consumer, phase, damage, bridge>>

EndDispatch ==
  /\ phase \in {"dispatch", "final"} /\ demuxed = <<>>
  /\ phase' = IF phase = "final" THEN "finished" ELSE "demux"
  /\ UNCHANGED <<mux, reader, consumer, demuxed, damage, outputs>>

DemuxNext ==
  \/ \E s \in ElementaryStream :
       \/ \E stamped \in BOOLEAN :
            \/ \E outcome \in Outcomes(s) : StartPayload(s, stamped, outcome)
            \/ Lose(s, SendStart(s, stamped))
       \/ More(s) \/ Lose(s, SendMore(s))
       \/ Reregister(s)
  \/ Reset \/ Finish
  \/ EndPush \/ EndDispatch
  \/ \E accepted \in BOOLEAN : Dispatch(accepted)

-----------------------------------------------------------------------------
\* Types.
DemuxTypeOK ==
  /\ phase \in {"demux", "dispatch", "final", "finished"}
  /\ \A s \in ElementaryStream :
       Len(consumer[s].payload) <= PesLimit /\ consumer[s].time \in 0 .. Spacing * MaxPackets
  /\ phase \in {"demux", "dispatch"} \/ \A s \in ElementaryStream : consumer[s].payload = <<>>

\* The chunks of a unit are of one payload, without a hole up to the last one
\* that the payload has.
\* Of a payload over the limit only the tail is left; the last one is cut by a
\* loss that nothing after it has shown.
Whole(unit) ==
  LET s == unit.stream
      first == Head(unit.chunks)
      sent == mux[s][first.pes]
  IN  /\ \A i \in DOMAIN unit.chunks :
           unit.chunks[i] = [pes |-> first.pes, index |-> first.index + i - 1]
      /\ s # "adts" => /\ first.index = 1 \/ sent.length > PesLimit
                       /\ \/ first.pes = Len(mux[s]) \/ Last(unit.chunks).index = sent.length
                          \/ phase \in {"final", "finished"} /\ reader[s].gap

\* A unit has the timestamp of its payload, moved by the frames before it in the
\* payload; without one it has an earlier timestamp of the stream.
Timed(unit) ==
  LET first == Head(unit.chunks)
      sent == mux[unit.stream][first.pes].stamp
      frames == IF unit.stream = "adts" THEN (first.index - 1) * FrameTicks ELSE 0
  IN  IF sent = 0 THEN unit.pts < Spacing * first.pes + frames
      ELSE \/ unit.pts = sent + frames
           \/ mux[unit.stream][first.pes].length > PesLimit

Before(a, b) ==
  \/ Head(a.chunks).pes < Head(b.chunks).pes
  \/ Head(a.chunks).pes = Head(b.chunks).pes /\ Last(a.chunks).index < Head(b.chunks).index

OfStream(s, units) == SelectSeq(units, LAMBDA u : u.stream = s)

\* Whatever is lost and wherever the stream is registered again, what the
\* segmenter and the sink are given is whole, timed and in the order of each
\* stream; a sink that fails costs the segmenter nothing: it is given every unit
\* that the sink was offered, refused ones too, and in that order (fmp4_bridge.rs
\* 260-352, 2462-2625).
UnitsAreWhole ==
  LET units == toSegmenter \o (IF phase \in {"dispatch", "final"} THEN demuxed ELSE <<>>)
      offered == [i \in DOMAIN toSink |-> toSink[i].unit]
  IN  /\ \A given \in {units, offered} :
           /\ \A i \in DOMAIN given : Whole(given[i]) /\ Timed(given[i])
           /\ \A s \in ElementaryStream : LET own == OfStream(s, given) IN
                \A i \in DOMAIN own, j \in DOMAIN own : i < j => Before(own[i], own[j])
      /\ bridge.sink /\ bridge.publish_source => toSegmenter = offered
=============================================================================
