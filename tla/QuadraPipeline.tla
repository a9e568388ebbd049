--------------------------- MODULE QuadraPipeline ---------------------------
(***************************************************************************)
(* start_quadra_rendition_pipeline (quadra_renditions.rs): a sink, a       *)
(* worker thread that decodes, scales and encodes each frame for every     *)
(* rung of the ladder, and a task that packages what it is sent.  Audio    *)
(* waits in the worker until every rung has emitted its video up to it.    *)
(*                                                                         *)
(* External: the source, whose units come in the order of their timestamps, *)
(* and the hardware, which keeps that order, may hold frames back and may  *)
(* fail at any frame.  Abstracted: the pictures and the packaging itself   *)
(* (see Fmp4Segmenter).                                                    *)
(***************************************************************************)
EXTENDS Naturals, Sequences, SequencesExt, FiniteSetsExt

CONSTANTS
  Rungs,         \* renditions of the ladder
  InputCapacity, \* queue_capacity
  MaxUnits,      \* bound: access units of the source
  NoFrame        \* no frame is being encoded

ASSUME QuadraAssumption == {Rungs, InputCapacity} \subseteq Nat \ {0} /\ MaxUnits \in Nat

Rung == 1 .. Rungs
EventCapacity == 2 * InputCapacity

VARIABLES
  offered,       \* history: the units the source has pushed
  input,         \* the channel of the sink
  sink,          \* the sink is held by the caller
  decoder,       \* the frames inside the decoder
  pendingVideo,  \* the timings of frames not yet decoded
  pendingAudio,
  worker,        \* where the worker is in a frame
  encoder,       \* per rung, the timings inside its encoder
  events,        \* the channel to the packager
  packaged,      \* per rung, what its segmenter was pushed
  finished       \* the segmenters are finished

quadraVars == <<offered, input, sink, decoder, pendingVideo, pendingAudio, worker,
                encoder, events, packaged, finished>>
source == <<offered, sink>>
packager == <<packaged, finished>>

At(step) == [at |-> step, rung |-> 0, timing |-> NoFrame, emitted |-> {}, all |-> FALSE]

QuadraInit ==
  /\ offered = <<>> /\ input = <<>> /\ sink = TRUE
  /\ decoder = <<>> /\ pendingVideo = <<>> /\ pendingAudio = <<>>
  /\ worker = At("starting")
  /\ encoder = [r \in Rung |-> <<>>]
  /\ events = <<>>
  /\ packaged = [r \in Rung |-> <<>>]
  /\ finished = FALSE

Stopped == worker.at = "stopped"
Video(units) == SelectSeq(units, LAMBDA u : u.kind = "video")
Audio(units) == SelectSeq(units, LAMBDA u : u.kind = "audio")

-----------------------------------------------------------------------------
\* The source; a push that finds the channel full waits, one that finds the
\* worker stopped fails.

Push(unit) ==
  /\ sink /\ worker.at \notin {"starting", "stopped"}
  /\ Len(input) < InputCapacity /\ Len(offered) < MaxUnits
  /\ offered' = Append(offered, unit)
  /\ input' = Append(input, unit)
  /\ UNCHANGED <<sink, decoder, pendingVideo, pendingAudio, worker, encoder, events,
                 packager>>

\* The next frame, or audio that is level with it or one behind; audio does not
\* go back.
Offer(kind, behind) ==
  LET next == Len(Video(offered)) + 1
  IN  /\ kind = "video" => behind = 0
      /\ Audio(offered) # <<>> /\ kind = "audio" => next - behind >= Last(Audio(offered)).pts
      /\ Push([kind |-> kind, pts |-> next - behind])

DropSink ==
  /\ sink /\ worker.at # "starting"
  /\ sink' = FALSE
  /\ UNCHANGED <<offered, input, decoder, pendingVideo, pendingAudio, worker, encoder,
                 events, packager>>

-----------------------------------------------------------------------------
\* The worker.

\* The hardware opens, or the caller gets an error in place of the sink.
Start(ok) ==
  /\ worker.at = "starting"
  /\ worker' = At(IF ok THEN "recv" ELSE "stopped")
  /\ sink' = ok
  /\ UNCHANGED <<offered, input, decoder, pendingVideo, pendingAudio, encoder, events,
                 packager>>

\* Audio waits; at the bound the oldest is dropped.
TakeAudio ==
  /\ worker.at = "recv" /\ input # <<>> /\ Head(input).kind = "audio"
  /\ input' = Tail(input)
  /\ pendingAudio' =
       Append(IF Len(pendingAudio) >= InputCapacity THEN Tail(pendingAudio) ELSE pendingAudio,
              Head(input))
  /\ UNCHANGED <<source, decoder, pendingVideo, worker, encoder, events, packager>>

\* A frame goes in; the decoder gives the oldest it holds, none, or an error.
TakeVideo(result) ==
  LET frames == Append(decoder, Head(input))
      timings == Append(pendingVideo, Head(input))
  IN  /\ worker.at = "recv" /\ input # <<>> /\ Head(input).kind = "video"
      /\ input' = Tail(input)
      /\ decoder' = IF result = "frame" THEN Tail(frames) ELSE frames
      /\ pendingVideo' = IF result = "frame" THEN Tail(timings) ELSE timings
      /\ worker' = CASE result = "none"  -> worker
                     [] result = "error" -> At("stopped")
                     [] result = "frame" -> [At("rungs") EXCEPT !.rung = 1,
                                                                !.timing = Head(timings)]
      /\ UNCHANGED <<source, pendingAudio, encoder, events, packager>>

\* One rung scales and encodes the frame; what its encoder gives is sent.
EncodeRung(result) ==
  LET r == worker.rung
      held == Append(encoder[r], worker.timing)
      emitted == worker.emitted \cup (IF result = "frame" THEN {<<r, Head(held).pts>>} ELSE {})
  IN  /\ worker.at = "rungs"
      /\ result = "frame" => Len(events) < EventCapacity
      /\ encoder' = [encoder EXCEPT ![r] = IF result = "frame" THEN Tail(held) ELSE held]
      /\ events' = IF result = "frame" THEN Append(events, [to |-> {r}, unit |-> Head(held)])
                   ELSE events
      /\ worker' = IF result = "error" THEN At("stopped")
                   ELSE [worker EXCEPT !.emitted = emitted, !.rung = @ + 1,
                           !.at = IF r = Rungs THEN "audio" ELSE "rungs",
                           !.all = Cardinality(emitted) = Rungs]
      /\ UNCHANGED <<source, input, decoder, pendingVideo, pendingAudio, packager>>

\* The audio that may follow what the rungs have emitted of this frame.
\* Mutant of Cutoff: up to the rung that is furthest.
CutoffFurthest(emitted) == Max({e[2] : e \in emitted})
Cutoff(emitted) == Min({e[2] : e \in emitted})

ReleasesAudio ==
  worker.all /\ pendingAudio # <<>> /\ Head(pendingAudio).pts <= Cutoff(worker.emitted)

SendAudio ==
  /\ worker.at = "audio" /\ ReleasesAudio
  /\ Len(events) < EventCapacity
  /\ events' = Append(events, [to |-> Rung, unit |-> Head(pendingAudio)])
  /\ pendingAudio' = Tail(pendingAudio)
  /\ UNCHANGED <<source, input, decoder, pendingVideo, worker, encoder, packager>>

EndFrame ==
  /\ worker.at = "audio" /\ ~ReleasesAudio
  /\ worker' = At("recv")
  /\ UNCHANGED <<source, input, decoder, pendingVideo, pendingAudio, encoder, events,
                 packager>>

\* The sink is gone and the channel empty: nothing that waits is flushed.
EndOfInput ==
  /\ worker.at = "recv" /\ ~sink /\ input = <<>>
  /\ worker' = At("stopped")
  /\ UNCHANGED <<source, input, decoder, pendingVideo, pendingAudio, encoder, events,
                 packager>>

-----------------------------------------------------------------------------
\* The packager.

Package ==
  LET event == Head(events)
  IN  /\ events # <<>>
      /\ events' = Tail(events)
      /\ packaged' = [r \in Rung |-> IF r \in event.to THEN Append(packaged[r], event.unit)
                                     ELSE packaged[r]]
      /\ UNCHANGED <<source, input, decoder, pendingVideo, pendingAudio, worker, encoder,
                     finished>>

FinishRungs ==
  /\ Stopped /\ events = <<>> /\ ~finished
  /\ finished' = TRUE
  /\ UNCHANGED <<source, input, decoder, pendingVideo, pendingAudio, worker, encoder,
                 events, packaged>>

HardwareResult == {"frame", "none", "error"}

QuadraNext ==
  \/ \E kind \in {"video", "audio"}, behind \in {0, 1} : Offer(kind, behind)
  \/ DropSink
  \/ \E ok \in BOOLEAN : Start(ok)
  \/ TakeAudio
  \/ \E result \in HardwareResult : TakeVideo(result) \/ EncodeRung(result)
  \/ SendAudio \/ EndFrame \/ EndOfInput
  \/ Package \/ FinishRungs

-----------------------------------------------------------------------------
\* Types.
QuadraTypeOK ==
  /\ Len(input) <= InputCapacity /\ Len(events) <= EventCapacity
  /\ Len(pendingAudio) <= InputCapacity
  /\ worker.at \in {"starting", "recv", "rungs", "audio", "stopped"}
  /\ finished => Stopped /\ events = <<>>

\* What a rung has been sent, packaged or still in the channel.
Sequenced(r) ==
  packaged[r] \o [i \in DOMAIN SelectSeq(events, LAMBDA e : r \in e.to) |->
                    SelectSeq(events, LAMBDA e : r \in e.to)[i].unit]

\* Whatever the decoder and the encoders hold back, and wherever one of them
\* fails: each rung carries the source's video without a hole, under its own
\* timings; its audio keeps its order and never overtakes video, which on every
\* rung is there up to the audio's timestamp before the audio and beyond it
\* after (lines 365-432).
LadderInStep ==
  \A r \in Rung :
    LET units == Sequenced(r)
    IN  /\ IsPrefix(Video(units), Video(offered))
        /\ \A i \in DOMAIN units : units[i].kind = "audio" =>
             /\ \E j \in 1 .. i - 1 : units[j].kind = "video" /\ units[j].pts >= units[i].pts
             /\ \A j \in i + 1 .. Len(units) :
                  IF units[j].kind = "video" THEN units[j].pts > units[i].pts
                  ELSE units[j].pts >= units[i].pts

=============================================================================
