--------------------------- MODULE Fmp4Segmenter ---------------------------
(***************************************************************************)
(* One `Fmp4Segmenter` of src/fmp4_bridge.rs: access units in, fMP4 parts  *)
(* out.  Fmp4Publication follows the parts; here it is what they are made  *)
(* of, and in what state of the H.264 configuration.                       *)
(*                                                                         *)
(* `push_access_unit` takes the segmenter by &mut and awaits publications, *)
(* so a call is one step.  It is written as a function on the segmenter's  *)
(* state: a call may flush up to two parts before and after it buffers its *)
(* unit, and a timestamp reset flushes and restarts it midway.             *)
(*                                                                         *)
(* Abstracted: a unit is its key flag, the parameter sets it carries, and  *)
(* whether it holds a slice; samples keep the configuration they were      *)
(* pushed under.  Video time is a choice ("a part is due", "time went      *)
(* backwards"); audio time is a count of units.                            *)
(***************************************************************************)
EXTENDS Naturals, Sequences, Functions

CONSTANTS
  Config,       \* H.264 parameter sets
  Resolution,   \* the dimensions each of them decodes to
  AudioSig,     \* audio configurations
  Timed,        \* those whose units carry their duration
  AudioTarget,  \* min_part_ms, in audio units
  MaxPending,   \* MAX_PENDING_AUS_WITHOUT_CONFIG
  MaxUnits,     \* bound: units of each medium in one part
  None

ASSUME SegmenterAssumption ==
  /\ None \notin Config \cup AudioSig
  /\ Config = DOMAIN Resolution
  /\ Timed \subseteq AudioSig
  /\ {AudioTarget, MaxPending, MaxUnits} \subseteq Nat \ {0}

VideoUnit == [key : BOOLEAN, config : Config \cup {None}, slice : BOOLEAN]
VideoSample == [key : BOOLEAN, config : Config \cup {None}, era : BOOLEAN,
                opens : BOOLEAN]
AudioSample == [sig : AudioSig \cup {None}, era : BOOLEAN]
Signature == [video : Config \cup {None}, audio : AudioSig \cup {None}]

\* What becomes of a part: published, refused by the publisher, or lost before
\* it got there (boxed empty, or the local cache did not take it).
Outcome == {"published", "failed", "lost"}

VARIABLES
  seg,   \* the segmenter
  out    \* the parts its last call gave to the publisher

vars == <<seg, out>>

Fresh(explicit, era) ==
  [config |-> None,       \* config, config_signature, sps and pps
   explicit |-> explicit, \* audio_config, kept by a reset
   audio |-> None,        \* known_audio_signature
   last |-> None,         \* last_init_signature
   force |-> TRUE,        \* force_next_init
   seenVideo |-> FALSE,
   started |-> FALSE,     \* started_video
   based |-> FALSE,       \* timestamp_base_input is set
   video |-> <<>>,        \* video_buf
   sounds |-> <<>>,       \* audio_buf
   era |-> era]           \* history: flips with every reset

\* A call under way: the segmenter so far, the parts given out so far.
Call == [seg |-> seg, out |-> <<>>]
Return(x) == seg' = x.seg /\ out' = x.out

Init == seg = Fresh(None, FALSE) /\ out = <<>>

-----------------------------------------------------------------------------
\* Buffers.

Empty(g) == g.video = <<>> /\ g.sounds = <<>>
Cleared(x) == [x EXCEPT !.seg.video = <<>>, !.seg.sounds = <<>>]

\* Mutant of Bounded: pending audio does not count.
BoundsVideoOnly(x) ==
  IF Len(x.seg.video) > MaxPending THEN Cleared(x) ELSE x

\* drop_pending_without_config_if_needed
Bounded(x) ==
  IF Len(x.seg.video) + Len(x.seg.sounds) > MaxPending THEN Cleared(x) ELSE x

Pushed(x, unit) ==
  LET sample == [key |-> unit.key, config |-> x.seg.config, era |-> x.seg.era,
                 opens |-> x.seg.config # None /\ ~x.seg.started]
  IN  [x EXCEPT !.seg.video = Append(@, sample)]

Sounded(x, sig) ==
  [x EXCEPT !.seg.sounds = Append(@, [sig |-> sig, era |-> x.seg.era])]

\* The buffered audio has a known duration (audio_buffered_duration_ms).
AllTimed(g) == \A i \in DOMAIN g.sounds : g.sounds[i].sig \in Timed
Reached(g) == Len(g.sounds) >= AudioTarget

-----------------------------------------------------------------------------
\* flush_with_next_dts.

CurrentSignature(g) == [video |-> g.config, audio |-> g.audio]
IncludesInit(g) == g.force \/ g.last # CurrentSignature(g)

\* Waiting for SPS/PPS before publishing fMP4.
Unconfigured(g) == g.config = None /\ g.seenVideo

Flushed(x, outcome) ==
  LET g == x.seg
      init == IncludesInit(g)
      ok == outcome = "published"
      given == [signature |-> CurrentSignature(g), init |-> init, ok |-> ok,
                video |-> g.video, sounds |-> g.sounds]
  IN  IF Empty(g) THEN x
      ELSE IF Unconfigured(g) \/ outcome = "lost" THEN Cleared(x)
      ELSE [seg |-> [g EXCEPT
                       !.video = <<>>, !.sounds = <<>>,
                       !.last = IF init /\ ok THEN CurrentSignature(g) ELSE @,
                       !.force = IF init THEN ~ok ELSE @],
            out |-> Append(x.out, given)]

-----------------------------------------------------------------------------
\* push_video.

\* Mutants of Installed: pending media stays buffered; the signature goes to
\* the other track.
InstalledOverPending(x, c) ==
  [x EXCEPT !.seg.config = c, !.seg.force = TRUE, !.seg.started = FALSE]

InstalledAsAudio(x, c) ==
  [Cleared(x) EXCEPT !.seg.audio = c, !.seg.force = TRUE,
                     !.seg.started = FALSE]

Installed(x, c) ==
  [Cleared(x) EXCEPT !.seg.config = c, !.seg.force = TRUE,
                     !.seg.started = FALSE]

Changes(g, unit) == unit.config # None /\ unit.config # g.config

\* A non-key unit never changes a configuration that is already there: it is
\* dropped when the dimensions differ, kept without its parameter sets when not.
Dropped(g, unit) ==
  /\ Changes(g, unit) /\ g.config # None /\ ~unit.key
  /\ Resolution[g.config] # Resolution[unit.config]

Configures(g, unit) == Changes(g, unit) /\ (g.config = None \/ unit.key)

Configured(x, unit, outcome) ==
  IF ~Configures(x.seg, unit) THEN x
  ELSE LET cut == IF x.seg.config = None THEN x ELSE Flushed(x, outcome)
       IN  Installed(cut, unit.config)

\* Pushing a sample of a configured track; "due" is flush_reason_before.
Appended(x, unit, due, outcome) ==
  LET flushed == IF due /\ x.seg.video # <<>> THEN Flushed(x, outcome) ELSE x
  IN  [Pushed(flushed, unit) EXCEPT !.seg.started = TRUE]

PushVideo(x, unit, due, outcome) ==
  LET y == Configured(x, unit, outcome)
  IN  IF Dropped(x.seg, unit) \/ ~unit.slice THEN y
      ELSE IF y.seg.config = None THEN Bounded(Pushed(y, unit))
      ELSE IF Configures(x.seg, unit) /\ ~unit.key THEN y
      ELSE Appended(y, unit, due, outcome)

\* push_access_unit, H.264, when the DTS is before the base.
Restarted(x, outcome) ==
  LET finished == Flushed(x, outcome)
  IN  [finished EXCEPT !.seg = Fresh(@.explicit, ~@.era)]

\* reset, by a caller that restarts the continuity segment.
Reset == Return([Call EXCEPT !.seg = Fresh(@.explicit, ~@.era)])

SeenVideo(x) == [x EXCEPT !.seg.seenVideo = TRUE]
\* Absolute timestamps set no base; theirs never go backwards.
Based(x) == [x EXCEPT !.seg.based = TRUE]

VideoUnitArrives(unit, backwards, due, outcome) ==
  LET seen == SeenVideo(Call)
      x == IF backwards THEN Restarted(seen, outcome) ELSE seen
  IN  /\ seg.explicit = None
      /\ backwards => seg.based
      /\ due => unit.slice /\ ~backwards /\ seg.video # <<>>
      /\ Len(x.seg.video) < MaxUnits \/ due
      /\ Return(PushVideo(Based(x), unit, due, outcome))

\* ensure_h264_length_prefixed refuses it, after it was seen.
MalformedVideoArrives == Return(SeenVideo(Call))

-----------------------------------------------------------------------------
\* push_audio.

\* Mutant of Heard: a unit without a header forgets the signature.
HeardWithoutHeader(x, sig) ==
  IF sig = x.seg.audio THEN x
  ELSE [x EXCEPT !.seg.audio = sig, !.seg.force = TRUE]

Heard(x, sig) ==
  IF sig = None \/ sig = x.seg.audio THEN x
  ELSE [x EXCEPT !.seg.audio = sig, !.seg.force = TRUE]

WaitsForVideo(g) == g.seenVideo /\ (g.config = None \/ ~g.started)

\* should_flush_audio_only_before
DueEarly(g) == g.video = <<>> /\ ~AllTimed(g) /\ Reached(g)

PushAudio(x, sig, before, afterwards) ==
  LET y == Heard(x, sig)
      z == Sounded(IF DueEarly(y.seg) THEN Flushed(y, before) ELSE y, sig)
      full == ~z.seg.seenVideo /\ AllTimed(z.seg) /\ Reached(z.seg)
  IN  IF WaitsForVideo(y.seg) THEN Bounded(Sounded(y, sig))
      ELSE IF full THEN Flushed(z, afterwards)
      ELSE z

AudioUnitArrives(sig, before, afterwards) ==
  LET known == IF seg.explicit # None THEN seg.explicit ELSE sig
  IN  /\ Len(seg.sounds) < MaxUnits \/ WaitsForVideo(seg) \/ DueEarly(seg)
      /\ Return(PushAudio(Based(Call), known, before, afterwards))

\* set_audio_track_config, after the caller finished the current segment: only
\* the packagers of audio streams call it.
SetAudioTrack(sig) ==
  /\ ~seg.seenVideo /\ seg.config = None
  /\ Empty(seg)
  /\ sig # seg.explicit
  /\ Return([Call EXCEPT !.seg.explicit = sig, !.seg.last = None,
                          !.seg.force = TRUE])

Finish(outcome) == Return(Flushed(Call, outcome))

Next ==
  \/ \E unit \in VideoUnit, backwards, due \in BOOLEAN, outcome \in Outcome :
       VideoUnitArrives(unit, backwards, due, outcome)
  \/ seg.explicit = None /\ MalformedVideoArrives
  \/ Reset
  \/ \E sig \in AudioSig \cup {None}, before, afterwards \in Outcome :
       AudioUnitArrives(sig, before, afterwards)
  \/ \E sig \in AudioSig : SetAudioTrack(sig)
  \/ \E outcome \in Outcome : Finish(outcome)

Spec == Init /\ [][Next]_vars

-----------------------------------------------------------------------------
\* The segmenter and the parts it gives out have their types.
TypeOK ==
  /\ seg \in [config : Config \cup {None}, explicit : AudioSig \cup {None},
              audio : AudioSig \cup {None}, last : Signature \cup {None},
              force : BOOLEAN, seenVideo : BOOLEAN, started : BOOLEAN,
              based : BOOLEAN, era : BOOLEAN,
              video : Seq(VideoSample), sounds : Seq(AudioSample)]
  /\ out \in Seq([signature : Signature, init : BOOLEAN, ok : BOOLEAN,
                  video : Seq(VideoSample), sounds : Seq(AudioSample)])

\* A part never mixes: its video samples were all pushed under the
\* configuration it is boxed with, and none of its samples is from before a
\* timestamp reset that others are from after.
PartsDoNotMix ==
  \A i \in DOMAIN out :
    LET video == Range(out[i].video)
        sounds == Range(out[i].sounds)
    IN  /\ \A v \in video : v.config = out[i].signature.video
        /\ \A x, y \in video \cup sounds : x.era = y.era

\* A call that leaves the segmenter waiting for parameter sets or for a first
\* sample, and holding more than before, leaves it holding at most
\* MAX_PENDING_AUS_WITHOUT_CONFIG units of both media together.
Held(g) == Len(g.video) + Len(g.sounds)

PendingBounded ==
  [][WaitsForVideo(seg') /\ Held(seg') > Held(seg)
       => Held(seg') <= MaxPending]_vars

\* Without a reset or a new parameter set the audio track never leaves the
\* init: a player that has the combined init keeps it.
AudioStaysInInit ==
  [][seg.last # None /\ seg'.last # None /\ seg.last.audio # None
       /\ seg.era = seg'.era
     => seg'.last.audio # None]_vars

\* "until first keyframe after H.264 config": the first sample of a
\* configuration is a keyframe.
OpensOnKeyframe ==
  \A i \in DOMAIN seg.video : seg.video[i].opens => seg.video[i].key

\* "waiting for H.264 SPS/PPS before publishing fMP4": no part with video is
\* given out before the parameter sets are known.
ConfiguredBeforePublish ==
  \A i \in DOMAIN out : out[i].video # <<>> => out[i].signature.video # None

=============================================================================
