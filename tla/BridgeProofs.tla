---------------------------- MODULE BridgeProofs ----------------------------
(***************************************************************************)
(* Theorems about the bridges, in two parts.                               *)
(*                                                                         *)
(* The segmenter a bridge feeds: for every set of parameter sets and audio *)
(* signatures and every target and limit.                                  *)
(*                                                                         *)
(* The bridge tasks, which give each request an output: for every set of   *)
(* requests and streams and every number of slots.  The argument follows   *)
(* what a poll owes: the end of a playlist, from the slot that ends its    *)
(* request until the slots are read.                                       *)
(***************************************************************************)
EXTENDS Fmp4Segmenter, UploadBridge, TLAPS


-----------------------------------------------------------------------------
\* A call under way.

SegmentType ==
  [config : Config \cup {None}, explicit : AudioSig \cup {None},
   audio : AudioSig \cup {None}, last : Signature \cup {None},
   force : BOOLEAN, seenVideo : BOOLEAN, started : BOOLEAN,
   based : BOOLEAN, era : BOOLEAN,
   video : Seq(VideoSample), sounds : Seq(AudioSample)]

PartType == [signature : Signature, init : BOOLEAN, ok : BOOLEAN,
             video : Seq(VideoSample), sounds : Seq(AudioSample)]

CallType == [seg : SegmentType, out : Seq(PartType)]

\* What is buffered was pushed under the current configuration and since the
\* last reset.
Uniform(g) ==
  /\ \A i \in DOMAIN g.video : g.video[i].config = g.config /\ g.video[i].era = g.era
  /\ \A i \in DOMAIN g.sounds : g.sounds[i].era = g.era

\* The audio track of the last init is still known.
KnowsAudio(g) == g.last # None /\ g.last.audio # None => g.audio # None

Whole(p) ==
  /\ \A v \in Range(p.video) : v.config = p.signature.video
  /\ \A x, y \in Range(p.video) \cup Range(p.sounds) : x.era = y.era

Sound(x) ==
  /\ x \in CallType
  /\ Uniform(x.seg) /\ KnowsAudio(x.seg)
  /\ \A i \in DOMAIN x.out : Whole(x.out[i])

\* What the steps of a call keep: nothing forgets an audio track, in the
\* segmenter or in an init, but a reset.
Later(g, h) ==
  /\ h.era = g.era
  /\ g.audio # None => h.audio # None
  /\ h.last = g.last \/ (g.audio # None => h.last.audio # None)

LEMMA LaterTransitive ==
  ASSUME NEW g, NEW h, NEW k, Later(g, h), Later(h, k)
  PROVE  Later(g, k)
BY DEF Later

LEMMA HeldIsNat == ASSUME NEW g \in SegmentType PROVE Held(g) \in Nat
BY DEF SegmentType, Held

-----------------------------------------------------------------------------
\* Buffers.

LEMMA Rebuffered ==
  ASSUME NEW g \in SegmentType,
         NEW video \in Seq(VideoSample), NEW sounds \in Seq(AudioSample)
  PROVE  [g EXCEPT !.video = video, !.sounds = sounds] \in SegmentType
BY DEF SegmentType

LEMMA ClearedFacts ==
  ASSUME NEW x, Sound(x)
  PROVE  /\ Sound(Cleared(x))
         /\ Cleared(x).seg = [x.seg EXCEPT !.video = <<>>, !.sounds = <<>>]
         /\ Cleared(x).out = x.out
         /\ Later(x.seg, Cleared(x).seg) /\ Held(Cleared(x).seg) = 0
<1>1. x \in CallType
  BY DEF Sound
<1>2. Cleared(x) = [x EXCEPT !.seg = [x.seg EXCEPT !.video = <<>>, !.sounds = <<>>]]
  BY <1>1 DEF Cleared, CallType, SegmentType
<1>3. /\ Cleared(x).seg = [x.seg EXCEPT !.video = <<>>, !.sounds = <<>>]
      /\ Cleared(x).out = x.out
  BY <1>1, <1>2 DEF CallType
<1>4. Cleared(x).seg \in SegmentType /\ Cleared(x) \in CallType
  <2>1. x.seg \in SegmentType
    BY <1>1 DEF CallType
  <2>2. <<>> \in Seq(VideoSample) /\ <<>> \in Seq(AudioSample)
    OBVIOUS
  <2>3. [x.seg EXCEPT !.video = <<>>, !.sounds = <<>>] \in SegmentType
    BY <2>1, <2>2, Rebuffered
  <2>4. QED
    BY <1>1, <1>2, <1>3, <2>3 DEF CallType
<1>5. /\ Cleared(x).seg.video = <<>> /\ Cleared(x).seg.sounds = <<>>
      /\ Cleared(x).seg.era = x.seg.era /\ Cleared(x).seg.audio = x.seg.audio
      /\ Cleared(x).seg.last = x.seg.last
  BY <1>1, <1>3 DEF CallType, SegmentType
<1>6. QED
  BY <1>3, <1>4, <1>5 DEF Sound, Uniform, KnowsAudio, Later, Held

LEMMA BoundedFacts ==
  ASSUME NEW x, Sound(x)
  PROVE  /\ Sound(Bounded(x)) /\ Later(x.seg, Bounded(x).seg)
         /\ Held(Bounded(x).seg) <= MaxPending
<1>1. x.seg \in SegmentType /\ MaxPending \in Nat
  BY SegmenterAssumption DEF Sound, CallType
<1>2. CASE Held(x.seg) > MaxPending
  <2>1. Bounded(x) = Cleared(x)
    BY <1>2 DEF Bounded, Held
  <2>2. /\ Sound(Cleared(x)) /\ Later(x.seg, Cleared(x).seg)
        /\ Held(Cleared(x).seg) = 0
    BY ClearedFacts
  <2>3. QED
    BY <1>1, <2>1, <2>2
<1>3. CASE ~(Held(x.seg) > MaxPending)
  <2>1. Bounded(x) = x
    BY <1>3 DEF Bounded, Held
  <2>2. Held(x.seg) \in Nat
    BY <1>1, HeldIsNat
  <2>3. QED
    BY <1>1, <1>3, <2>1, <2>2 DEF Later
<1>4. QED
  BY <1>2, <1>3

LEMMA PushedFacts ==
  ASSUME NEW x, Sound(x), NEW unit \in VideoUnit
  PROVE  /\ Sound(Pushed(x, unit)) /\ Later(x.seg, Pushed(x, unit).seg)
         /\ Pushed(x, unit).seg.config = x.seg.config
<1> DEFINE g == x.seg
           sample == [key |-> unit.key, config |-> g.config, era |-> g.era,
                      opens |-> g.config # None /\ ~g.started]
           h == [g EXCEPT !.video = Append(g.video, sample), !.sounds = g.sounds]
<1>1. x \in CallType /\ g \in SegmentType
  BY DEF Sound, CallType
<1>2. sample \in VideoSample
  BY <1>1 DEF SegmentType, VideoUnit, VideoSample
<1>3. Pushed(x, unit) = [x EXCEPT !.seg = h]
  BY <1>1 DEF Pushed, CallType, SegmentType
<1>4. h \in SegmentType
  <2>1. g.video \in Seq(VideoSample) /\ g.sounds \in Seq(AudioSample)
    BY <1>1 DEF SegmentType
  <2>2. Append(g.video, sample) \in Seq(VideoSample)
    BY <1>2, <2>1
  <2>3. QED
    BY <1>1, <2>1, <2>2, Rebuffered
<1>5. /\ h.video = Append(g.video, sample) /\ h.sounds = g.sounds
      /\ h.config = g.config /\ h.era = g.era /\ h.audio = g.audio /\ h.last = g.last
  BY <1>1 DEF SegmentType
<1>6. /\ Pushed(x, unit) \in CallType /\ Pushed(x, unit).seg = h
      /\ Pushed(x, unit).out = x.out
  BY <1>1, <1>3, <1>4 DEF CallType
<1>7. Uniform(h)
  <2>1. ASSUME NEW i \in DOMAIN h.video
        PROVE  h.video[i].config = h.config /\ h.video[i].era = h.era
    <3>1. g.video \in Seq(VideoSample)
      BY <1>1 DEF SegmentType
    <3>2. h.video[i] = sample \/ (i \in DOMAIN g.video /\ h.video[i] = g.video[i])
      BY <1>5, <2>1, <3>1
    <3>3. QED
      BY <1>5, <3>2 DEF Sound, Uniform
  <2>2. QED
    BY <1>5, <2>1 DEF Sound, Uniform
<1>8. QED
  BY <1>5, <1>6, <1>7 DEF Sound, KnowsAudio, Later

LEMMA SoundedFacts ==
  ASSUME NEW x, Sound(x), NEW sig \in AudioSig \cup {None}
  PROVE  /\ Sound(Sounded(x, sig)) /\ Later(x.seg, Sounded(x, sig).seg)
         /\ Sounded(x, sig).seg.seenVideo = x.seg.seenVideo
         /\ Sounded(x, sig).seg.config = x.seg.config
         /\ Sounded(x, sig).seg.started = x.seg.started
<1> DEFINE g == x.seg
           sample == [sig |-> sig, era |-> g.era]
           h == [g EXCEPT !.video = g.video, !.sounds = Append(g.sounds, sample)]
<1>1. x \in CallType /\ g \in SegmentType
  BY DEF Sound, CallType
<1>2. sample \in AudioSample
  BY <1>1 DEF SegmentType, AudioSample
<1>3. Sounded(x, sig) = [x EXCEPT !.seg = h]
  BY <1>1 DEF Sounded, CallType, SegmentType
<1>4. h \in SegmentType
  <2>1. g.video \in Seq(VideoSample) /\ g.sounds \in Seq(AudioSample)
    BY <1>1 DEF SegmentType
  <2>2. Append(g.sounds, sample) \in Seq(AudioSample)
    BY <1>2, <2>1
  <2>3. QED
    BY <1>1, <2>1, <2>2, Rebuffered
<1>5. /\ h.sounds = Append(g.sounds, sample) /\ h.video = g.video
      /\ h.config = g.config /\ h.era = g.era /\ h.audio = g.audio /\ h.last = g.last
      /\ h.seenVideo = g.seenVideo /\ h.started = g.started
  BY <1>1 DEF SegmentType
<1>6. /\ Sounded(x, sig) \in CallType /\ Sounded(x, sig).seg = h
      /\ Sounded(x, sig).out = x.out
  BY <1>1, <1>3, <1>4 DEF CallType
<1>7. Uniform(h)
  <2>1. ASSUME NEW i \in DOMAIN h.sounds PROVE h.sounds[i].era = h.era
    <3>1. g.sounds \in Seq(AudioSample)
      BY <1>1 DEF SegmentType
    <3>2. h.sounds[i] = sample \/ (i \in DOMAIN g.sounds /\ h.sounds[i] = g.sounds[i])
      BY <1>5, <2>1, <3>1
    <3>3. QED
      BY <1>5, <3>2 DEF Sound, Uniform
  <2>2. QED
    BY <1>5, <2>1 DEF Sound, Uniform
<1>8. QED
  BY <1>5, <1>6, <1>7 DEF Sound, KnowsAudio, Later

-----------------------------------------------------------------------------
\* A flush keeps what the segmenter knows of its tracks, and gives out what it
\* held as one part, or loses it.
LEMMA FlushedFacts ==
  ASSUME NEW x, Sound(x), NEW outcome \in Outcome
  PROVE  LET y == Flushed(x, outcome)
         IN  /\ Sound(y) /\ Later(x.seg, y.seg)
             /\ y.seg.seenVideo = x.seg.seenVideo /\ y.seg.config = x.seg.config
             /\ y.seg.started = x.seg.started
             /\ Held(y.seg) <= Held(x.seg)
<1> DEFINE g == x.seg
           y == Flushed(x, outcome)
           init == IncludesInit(g)
           ok == outcome = "published"
           given == [signature |-> CurrentSignature(g), init |-> init, ok |-> ok,
                     video |-> g.video, sounds |-> g.sounds]
           h == [g EXCEPT !.video = <<>>, !.sounds = <<>>,
                          !.last = IF init /\ ok THEN CurrentSignature(g) ELSE @,
                          !.force = IF init THEN ~ok ELSE @]
<1>1. x \in CallType /\ g \in SegmentType
  BY DEF Sound, CallType
<1>2. CASE Empty(g)
  BY <1>1, <1>2, HeldIsNat DEF Flushed, Later
<1>3. CASE ~Empty(g) /\ (Unconfigured(g) \/ outcome = "lost")
  <2>1. y = Cleared(x)
    BY <1>3 DEF Flushed
  <2>2. /\ Sound(Cleared(x)) /\ Later(g, Cleared(x).seg)
        /\ Cleared(x).seg = [g EXCEPT !.video = <<>>, !.sounds = <<>>]
        /\ Held(Cleared(x).seg) = 0
    BY ClearedFacts
  <2>3. Held(g) \in Nat
    BY <1>1, HeldIsNat
  <2>4. QED
    BY <1>1, <2>1, <2>2, <2>3 DEF SegmentType
<1>4. CASE ~Empty(g) /\ ~(Unconfigured(g) \/ outcome = "lost")
  <2>1. y = [seg |-> h, out |-> Append(x.out, given)]
    BY <1>4 DEF Flushed
  <2>2. CurrentSignature(g) \in Signature /\ init \in BOOLEAN /\ ok \in BOOLEAN
    BY <1>1 DEF SegmentType, CurrentSignature, Signature, IncludesInit
  <2>3. given \in PartType
    BY <1>1, <2>2 DEF PartType, SegmentType
  <2>4. h \in SegmentType
    <3>1. <<>> \in Seq(VideoSample) /\ <<>> \in Seq(AudioSample)
      OBVIOUS
    <3>2. [g EXCEPT !.video = <<>>, !.sounds = <<>>] \in SegmentType
      BY <1>1, <3>1, Rebuffered
    <3>3. (IF init /\ ok THEN CurrentSignature(g) ELSE g.last) \in Signature \cup {None}
      BY <1>1, <2>2 DEF SegmentType
    <3>4. (IF init THEN ~ok ELSE g.force) \in BOOLEAN
      BY <1>1, <2>2 DEF SegmentType
    <3>5. PICK e \in SegmentType : e = [g EXCEPT !.video = <<>>, !.sounds = <<>>]
      BY <3>2
    <3>6. PICK last \in Signature \cup {None} :
            last = IF init /\ ok THEN CurrentSignature(g) ELSE g.last
      BY <3>3
    <3>7. PICK force \in BOOLEAN : force = IF init THEN ~ok ELSE g.force
      BY <3>4
    <3>8. [e EXCEPT !.last = last, !.force = force] \in SegmentType
      BY <3>5 DEF SegmentType
    <3>9. h = [[g EXCEPT !.video = <<>>, !.sounds = <<>>] EXCEPT !.last = last, !.force = force]
      BY <1>1, <3>6, <3>7 DEF SegmentType
    <3>10. QED
      BY <3>5, <3>8, <3>9
  <2>5. /\ h.video = <<>> /\ h.sounds = <<>> /\ h.era = g.era /\ h.audio = g.audio
        /\ h.last = g.last \/ h.last = CurrentSignature(g)
        /\ h.seenVideo = g.seenVideo /\ h.config = g.config /\ h.started = g.started
    BY <1>1 DEF SegmentType
  <2>6. CurrentSignature(g).audio = g.audio /\ CurrentSignature(g).video = g.config
    BY DEF CurrentSignature
  <2>7. Whole(given)
    <3>1. \A v \in Range(g.video) : v.config = g.config /\ v.era = g.era
      BY DEF Sound, Uniform, Range
    <3>2. \A v \in Range(g.sounds) : v.era = g.era
      BY DEF Sound, Uniform, Range
    <3>3. QED
      BY <2>6, <3>1, <3>2 DEF Whole
  <2>8. \A i \in DOMAIN Append(x.out, given) : Whole(Append(x.out, given)[i])
    <3>1. x.out \in Seq(PartType)
      BY <1>1 DEF CallType
    <3>2. ASSUME NEW i \in DOMAIN Append(x.out, given)
          PROVE  \/ Append(x.out, given)[i] = given
                 \/ i \in DOMAIN x.out /\ Append(x.out, given)[i] = x.out[i]
      BY <3>1, <3>2
    <3>3. QED
      BY <2>7, <3>2 DEF Sound
  <2>9. y \in CallType
    BY <1>1, <2>1, <2>3, <2>4 DEF CallType
  <2>10. Uniform(h) /\ KnowsAudio(h) /\ Later(g, h)
    BY <2>5, <2>6 DEF Uniform, KnowsAudio, Sound, Later
  <2>11. Held(h) = 0
    BY <2>5 DEF Held
  <2>12. Held(g) \in Nat
    BY <1>1, HeldIsNat
  <2>13. y.seg = h /\ y.out = Append(x.out, given)
    BY <2>1
  <2>14. Sound(y)
    BY <2>8, <2>9, <2>10, <2>13 DEF Sound
  <2>15. QED
    BY <2>5, <2>10, <2>11, <2>12, <2>13, <2>14
<1>5. QED
  BY <1>2, <1>3, <1>4

-----------------------------------------------------------------------------
\* Every other assignment to the segmenter leaves its buffers as they are, or
\* empty.
LEMMA Reseated ==
  ASSUME NEW x, Sound(x), NEW h \in SegmentType, Uniform(h),
         h.era = x.seg.era, h.last = x.seg.last,
         h.audio = x.seg.audio \/ h.audio # None
  PROVE  /\ Sound([x EXCEPT !.seg = h]) /\ Later(x.seg, h)
         /\ [x EXCEPT !.seg = h].seg = h
<1>1. x \in CallType
  BY DEF Sound
<1>2. /\ [x EXCEPT !.seg = h] \in CallType
      /\ [x EXCEPT !.seg = h].seg = h /\ [x EXCEPT !.seg = h].out = x.out
  BY <1>1 DEF CallType
<1>3. KnowsAudio(h)
  BY DEF Sound, KnowsAudio
<1>4. QED
  BY <1>2, <1>3 DEF Sound, Later

LEMMA InstalledFacts ==
  ASSUME NEW x, Sound(x), NEW c \in Config
  PROVE  LET y == Installed(x, c)
         IN  /\ Sound(y) /\ Later(x.seg, y.seg) /\ Held(y.seg) = 0
             /\ y.seg.config = c
<1> DEFINE z == Cleared(x)
           h == [z.seg EXCEPT !.config = c, !.force = TRUE, !.started = FALSE]
<1>1. /\ Sound(z) /\ Later(x.seg, z.seg)
      /\ z.seg = [x.seg EXCEPT !.video = <<>>, !.sounds = <<>>]
  BY ClearedFacts
<1>2. z \in CallType /\ z.seg \in SegmentType /\ x.seg \in SegmentType
  BY <1>1 DEF Sound, CallType
<1>3. Installed(x, c) = [z EXCEPT !.seg = h]
  BY <1>2 DEF Installed, CallType, SegmentType
<1>4. h \in SegmentType
  BY <1>2 DEF SegmentType
<1>5. /\ h.video = <<>> /\ h.sounds = <<>> /\ h.config = c
      /\ h.era = z.seg.era /\ h.last = z.seg.last /\ h.audio = z.seg.audio
  BY <1>1, <1>2 DEF SegmentType
<1> HIDE DEF h
<1>6. Uniform(h) /\ Held(h) = 0
  BY <1>5 DEF Uniform, Held
<1>7. /\ Sound(Installed(x, c)) /\ Installed(x, c).seg = h /\ Later(z.seg, h)
  <2> HIDE DEF z
  <2>1. /\ Sound([z EXCEPT !.seg = h]) /\ Later(z.seg, h)
        /\ [z EXCEPT !.seg = h].seg = h
    BY <1>1, <1>4, <1>5, <1>6, Reseated
  <2>2. QED
    BY <1>3, <2>1
<1>8. QED
  BY <1>1, <1>5, <1>6, <1>7, LaterTransitive

LEMMA StartedFacts ==
  ASSUME NEW x, Sound(x)
  PROVE  LET y == [x EXCEPT !.seg.started = TRUE]
         IN  /\ Sound(y) /\ Later(x.seg, y.seg)
             /\ y.seg.started /\ y.seg.config = x.seg.config
<1> DEFINE h == [x.seg EXCEPT !.started = TRUE]
<1>1. x \in CallType /\ x.seg \in SegmentType
  BY DEF Sound, CallType
<1>2. [x EXCEPT !.seg.started = TRUE] = [x EXCEPT !.seg = h]
  BY <1>1 DEF CallType, SegmentType
<1>3. h \in SegmentType
  BY <1>1 DEF SegmentType
<1>4. /\ h.video = x.seg.video /\ h.sounds = x.seg.sounds /\ h.config = x.seg.config
      /\ h.era = x.seg.era /\ h.last = x.seg.last /\ h.audio = x.seg.audio
      /\ h.started
  BY <1>1 DEF SegmentType
<1> HIDE DEF h
<1>5. Uniform(h)
  BY <1>4 DEF Sound, Uniform
<1>6. QED
  BY <1>2, <1>3, <1>4, <1>5, Reseated

\* The first steps of a call: the unit is seen, and the base is there.
LEMMA SeenFacts ==
  ASSUME NEW x, Sound(x)
  PROVE  LET y == SeenVideo(x)
         IN  Sound(y) /\ Later(x.seg, y.seg) /\ Held(y.seg) = Held(x.seg)
<1> DEFINE h == [x.seg EXCEPT !.seenVideo = TRUE]
<1>1. x \in CallType /\ x.seg \in SegmentType
  BY DEF Sound, CallType
<1>2. SeenVideo(x) = [x EXCEPT !.seg = h]
  BY <1>1 DEF SeenVideo, CallType, SegmentType
<1>3. h \in SegmentType
  BY <1>1 DEF SegmentType
<1>4. /\ h.video = x.seg.video /\ h.sounds = x.seg.sounds /\ h.config = x.seg.config
      /\ h.era = x.seg.era /\ h.last = x.seg.last /\ h.audio = x.seg.audio
  BY <1>1 DEF SegmentType
<1> HIDE DEF h
<1>5. Uniform(h) /\ Held(h) = Held(x.seg)
  BY <1>4 DEF Sound, Uniform, Held
<1>6. QED
  BY <1>2, <1>3, <1>4, <1>5, Reseated

LEMMA BasedFacts ==
  ASSUME NEW x, Sound(x)
  PROVE  LET y == Based(x)
         IN  Sound(y) /\ Later(x.seg, y.seg) /\ Held(y.seg) = Held(x.seg)
<1> DEFINE h == [x.seg EXCEPT !.based = TRUE]
<1>1. x \in CallType /\ x.seg \in SegmentType
  BY DEF Sound, CallType
<1>2. Based(x) = [x EXCEPT !.seg = h]
  BY <1>1 DEF Based, CallType, SegmentType
<1>3. h \in SegmentType
  BY <1>1 DEF SegmentType
<1>4. /\ h.video = x.seg.video /\ h.sounds = x.seg.sounds /\ h.config = x.seg.config
      /\ h.era = x.seg.era /\ h.last = x.seg.last /\ h.audio = x.seg.audio
  BY <1>1 DEF SegmentType
<1> HIDE DEF h
<1>5. Uniform(h) /\ Held(h) = Held(x.seg)
  BY <1>4 DEF Sound, Uniform, Held
<1>6. QED
  BY <1>2, <1>3, <1>4, <1>5, Reseated

LEMMA HeardFacts ==
  ASSUME NEW x, Sound(x), NEW sig \in AudioSig \cup {None}
  PROVE  LET y == Heard(x, sig)
         IN  Sound(y) /\ Later(x.seg, y.seg) /\ Held(y.seg) = Held(x.seg)
<1> DEFINE h == [x.seg EXCEPT !.audio = sig, !.force = TRUE]
<1>1. x \in CallType /\ x.seg \in SegmentType
  BY DEF Sound, CallType
<1>2. CASE sig = None \/ sig = x.seg.audio
  BY <1>2 DEF Heard, Later
<1>3. CASE ~(sig = None \/ sig = x.seg.audio)
  <2>1. Heard(x, sig) = [x EXCEPT !.seg = h]
    BY <1>1, <1>3 DEF Heard, CallType, SegmentType
  <2>2. h \in SegmentType
    BY <1>1 DEF SegmentType
  <2>3. /\ h.video = x.seg.video /\ h.sounds = x.seg.sounds
        /\ h.config = x.seg.config /\ h.era = x.seg.era /\ h.last = x.seg.last
        /\ h.audio = sig
    BY <1>1 DEF SegmentType
  <2> HIDE DEF h
  <2>4. Uniform(h) /\ Held(h) = Held(x.seg)
    BY <2>3 DEF Sound, Uniform, Held
  <2>5. QED
    BY <1>3, <2>1, <2>2, <2>3, <2>4, Reseated
<1>4. QED
  BY <1>2, <1>3

\* A restart: nothing is left of the call but the parts given out and the era
\* it is not.
LEMMA RestartedFacts ==
  ASSUME NEW x, Sound(x), NEW explicit \in AudioSig \cup {None}
  PROVE  LET y == [x EXCEPT !.seg = Fresh(explicit, ~x.seg.era)]
         IN  /\ Sound(y) /\ y.seg.era # x.seg.era /\ Held(y.seg) = 0
             /\ y.seg.last = None
<1> DEFINE h == Fresh(explicit, ~x.seg.era)
           y == [x EXCEPT !.seg = h]
<1>1. x \in CallType /\ x.seg \in SegmentType /\ x.seg.era \in BOOLEAN
  BY DEF Sound, CallType, SegmentType
<1>2. <<>> \in Seq(VideoSample) /\ <<>> \in Seq(AudioSample)
  OBVIOUS
<1>3. h \in SegmentType
  BY <1>1, <1>2 DEF SegmentType, Fresh
<1>4. /\ h.video = <<>> /\ h.sounds = <<>> /\ h.last = None /\ h.era = ~x.seg.era
  BY DEF Fresh
<1>5. y \in CallType /\ y.seg = h /\ y.out = x.out
  BY <1>1, <1>3 DEF CallType
<1> HIDE DEF h
<1>6. Uniform(h) /\ KnowsAudio(h) /\ Held(h) = 0
  BY <1>4 DEF Uniform, KnowsAudio, Held
<1>7. /\ Sound(y) /\ y.seg.era # x.seg.era /\ Held(y.seg) = 0
      /\ y.seg.last = None
  BY <1>1, <1>4, <1>5, <1>6 DEF Sound
<1>8. QED
  BY <1>7 DEF h

-----------------------------------------------------------------------------
\* What a call may leave behind: media that waits for parameter sets is either
\* no more than before or within the limit.
Within(g, h) ==
  WaitsForVideo(h) => Held(h) <= Held(g) \/ Held(h) <= MaxPending

LEMMA ConfiguredFacts ==
  ASSUME NEW x, Sound(x), NEW unit \in VideoUnit, NEW outcome \in Outcome
  PROVE  LET y == Configured(x, unit, outcome)
         IN  /\ Sound(y) /\ Later(x.seg, y.seg) /\ Held(y.seg) <= Held(x.seg)
             /\ Configures(x.seg, unit) => Held(y.seg) = 0
<1> DEFINE cut == IF x.seg.config = None THEN x ELSE Flushed(x, outcome)
<1>1. x.seg \in SegmentType /\ Held(x.seg) \in Nat
  BY HeldIsNat DEF Sound, CallType
<1>2. CASE ~Configures(x.seg, unit)
  BY <1>1, <1>2 DEF Configured, Later
<1>3. CASE Configures(x.seg, unit)
  <2>1. Configured(x, unit, outcome) = Installed(cut, unit.config)
    BY <1>3 DEF Configured
  <2>2. unit.config \in Config
    BY <1>3 DEF Configures, Changes, VideoUnit
  <2>3. Sound(cut) /\ Later(x.seg, cut.seg)
    <3>1. CASE x.seg.config = None
      BY <3>1 DEF Later
    <3>2. CASE x.seg.config # None
      BY <3>2, FlushedFacts
    <3>3. QED
      BY <3>1, <3>2
  <2>4. LET y == Installed(cut, unit.config)
        IN  Sound(y) /\ Later(cut.seg, y.seg) /\ Held(y.seg) = 0
    BY <2>2, <2>3, InstalledFacts
  <2>5. QED
    BY <1>1, <2>1, <2>3, <2>4, LaterTransitive
<1>4. QED
  BY <1>2, <1>3

LEMMA AppendedFacts ==
  ASSUME NEW x, Sound(x), x.seg.config # None,
         NEW unit \in VideoUnit, NEW due \in BOOLEAN, NEW outcome \in Outcome
  PROVE  LET y == Appended(x, unit, due, outcome)
         IN  Sound(y) /\ Later(x.seg, y.seg) /\ ~WaitsForVideo(y.seg)
<1> DEFINE z == IF due /\ x.seg.video # <<>> THEN Flushed(x, outcome) ELSE x
           y == [Pushed(z, unit) EXCEPT !.seg.started = TRUE]
<1>1. Sound(z) /\ Later(x.seg, z.seg) /\ z.seg.config = x.seg.config
  <2>1. CASE due /\ x.seg.video # <<>>
    BY <2>1, FlushedFacts
  <2>2. CASE ~(due /\ x.seg.video # <<>>)
    BY <2>2 DEF Later
  <2>3. QED
    BY <2>1, <2>2
<1>2. LET p == Pushed(z, unit)
      IN  Sound(p) /\ Later(z.seg, p.seg) /\ p.seg.config = z.seg.config
  BY <1>1, PushedFacts
<1>3. /\ Sound(y) /\ Later(Pushed(z, unit).seg, y.seg)
      /\ y.seg.started /\ y.seg.config = Pushed(z, unit).seg.config
  BY <1>2, StartedFacts
<1>4. Appended(x, unit, due, outcome) = y
  BY DEF Appended
<1>5. ~WaitsForVideo(y.seg)
  BY <1>1, <1>2, <1>3 DEF WaitsForVideo
<1>6. Later(x.seg, y.seg)
  BY <1>1, <1>2, <1>3, LaterTransitive
<1>7. QED
  BY <1>3, <1>4, <1>5, <1>6

LEMMA PushVideoFacts ==
  ASSUME NEW x, Sound(x),
         NEW unit \in VideoUnit, NEW due \in BOOLEAN, NEW outcome \in Outcome
  PROVE  LET y == PushVideo(x, unit, due, outcome)
         IN  Sound(y) /\ Later(x.seg, y.seg) /\ Within(x.seg, y.seg)
<1> DEFINE y == Configured(x, unit, outcome)
           z == PushVideo(x, unit, due, outcome)
<1>1. x.seg \in SegmentType /\ Held(x.seg) \in Nat
  BY HeldIsNat DEF Sound, CallType
<1>2. /\ Sound(y) /\ Later(x.seg, y.seg) /\ Held(y.seg) <= Held(x.seg)
      /\ Configures(x.seg, unit) => Held(y.seg) = 0
  BY ConfiguredFacts
<1>3. CASE z = y
  BY <1>2, <1>3 DEF Within
<1>4. CASE z = Bounded(Pushed(y, unit))
  <2>1. Sound(Pushed(y, unit)) /\ Later(y.seg, Pushed(y, unit).seg)
    BY <1>2, PushedFacts
  <2>2. /\ Sound(z) /\ Later(Pushed(y, unit).seg, z.seg)
        /\ Held(z.seg) <= MaxPending
    BY <1>4, <2>1, BoundedFacts
  <2>3. Later(x.seg, z.seg)
    BY <1>2, <2>1, <2>2, LaterTransitive
  <2>4. QED
    BY <2>2, <2>3 DEF Within
<1>5. CASE z = Appended(y, unit, due, outcome) /\ y.seg.config # None
  <2>1. Sound(z) /\ Later(y.seg, z.seg) /\ ~WaitsForVideo(z.seg)
    BY <1>2, <1>5, AppendedFacts
  <2>2. Later(x.seg, z.seg)
    BY <1>2, <2>1, LaterTransitive
  <2>3. QED
    BY <2>1, <2>2 DEF Within
<1>6. QED
  BY <1>3, <1>4, <1>5 DEF PushVideo

LEMMA PushAudioFacts ==
  ASSUME NEW x, Sound(x), NEW sig \in AudioSig \cup {None},
         NEW before \in Outcome, NEW afterwards \in Outcome
  PROVE  LET y == PushAudio(x, sig, before, afterwards)
         IN  Sound(y) /\ Later(x.seg, y.seg) /\ Within(x.seg, y.seg)
<1> DEFINE y == Heard(x, sig)
           f == IF DueEarly(y.seg) THEN Flushed(y, before) ELSE y
           z == Sounded(f, sig)
           r == PushAudio(x, sig, before, afterwards)
<1>1. Sound(y) /\ Later(x.seg, y.seg)
  BY HeardFacts
<1>2. CASE WaitsForVideo(y.seg)
  <2>1. r = Bounded(Sounded(y, sig))
    BY <1>2 DEF PushAudio
  <2>2. Sound(Sounded(y, sig)) /\ Later(y.seg, Sounded(y, sig).seg)
    BY <1>1, SoundedFacts
  <2>3. /\ Sound(r) /\ Later(Sounded(y, sig).seg, r.seg)
        /\ Held(r.seg) <= MaxPending
    BY <2>1, <2>2, BoundedFacts
  <2>4. Later(x.seg, r.seg)
    BY <1>1, <2>2, <2>3, LaterTransitive
  <2>5. QED
    BY <2>3, <2>4 DEF Within
<1>3. CASE ~WaitsForVideo(y.seg)
  <2>1. /\ Sound(f) /\ Later(y.seg, f.seg) /\ f.seg.seenVideo = y.seg.seenVideo
        /\ f.seg.config = y.seg.config /\ f.seg.started = y.seg.started
    <3>1. CASE DueEarly(y.seg)
      BY <1>1, <3>1, FlushedFacts
    <3>2. CASE ~DueEarly(y.seg)
      BY <1>1, <3>2 DEF Later
    <3>3. QED
      BY <3>1, <3>2
  <2>2. /\ Sound(z) /\ Later(f.seg, z.seg) /\ z.seg.seenVideo = f.seg.seenVideo
        /\ z.seg.config = f.seg.config /\ z.seg.started = f.seg.started
    BY <2>1, SoundedFacts
  <2>3. Later(x.seg, z.seg) /\ ~WaitsForVideo(z.seg)
    BY <1>1, <1>3, <2>1, <2>2, LaterTransitive DEF WaitsForVideo
  <2>4. r = z \/ r = Flushed(z, afterwards)
    BY <1>3 DEF PushAudio
  <2>5. LET w == Flushed(z, afterwards)
        IN  Sound(w) /\ Later(x.seg, w.seg) /\ ~WaitsForVideo(w.seg)
    BY <2>2, <2>3, FlushedFacts, LaterTransitive DEF WaitsForVideo
  <2>6. QED
    BY <2>2, <2>3, <2>4, <2>5 DEF Within
<1>4. QED
  BY <1>2, <1>3

-----------------------------------------------------------------------------
\* The inductive invariant, and what a call does to the segmenter.

SegmenterInv == TypeOK /\ Uniform(seg) /\ KnowsAudio(seg) /\ PartsDoNotMix

\* The answer of a call: a sound one, that keeps the audio track of the last
\* init unless it starts over or has none, and what waits within the limit.
Answers(y) ==
  /\ Sound(y) /\ Return(y)
  /\ Later(seg, y.seg) \/ y.seg.era # seg.era \/ y.seg.last = None
  /\ Within(seg, y.seg)

LEMMA SoundCall ==
  ASSUME SegmenterInv
  PROVE  Sound(Call) /\ Call.seg = seg /\ Held(seg) \in Nat
<1>1. seg \in SegmentType
  BY DEF SegmenterInv, TypeOK, SegmentType
<1>2. Call \in CallType /\ Call.seg = seg /\ Call.out = <<>>
  BY <1>1 DEF Call, CallType
<1>3. QED
  BY <1>1, <1>2, HeldIsNat DEF SegmenterInv, Sound

\* A timestamp that steps back: what is held is flushed, and the segmenter
\* starts afresh.
LEMMA BackwardsFacts ==
  ASSUME NEW x, Sound(x), NEW outcome \in Outcome
  PROVE  LET y == Restarted(x, outcome)
         IN  Sound(y) /\ y.seg.era # x.seg.era /\ Held(y.seg) = 0
<1> DEFINE f == Flushed(x, outcome)
<1>1. Sound(f) /\ f.seg.era = x.seg.era
  BY FlushedFacts DEF Later
<1>2. f \in CallType /\ f.seg \in SegmentType /\ f.seg.explicit \in AudioSig \cup {None}
  BY <1>1 DEF Sound, CallType, SegmentType
<1>3. Restarted(x, outcome) = [f EXCEPT !.seg = Fresh(f.seg.explicit, ~f.seg.era)]
  BY <1>2 DEF Restarted, CallType
<1> HIDE DEF f
<1>4. QED
  BY <1>1, <1>2, <1>3, RestartedFacts

LEMMA VideoAnswers ==
  ASSUME SegmenterInv, NEW unit \in VideoUnit, NEW backwards \in BOOLEAN,
         NEW due \in BOOLEAN, NEW outcome \in Outcome,
         VideoUnitArrives(unit, backwards, due, outcome)
  PROVE  \E y : Answers(y)
<1> DEFINE seen == SeenVideo(Call)
           x == IF backwards THEN Restarted(seen, outcome) ELSE seen
           b == Based(x)
           y == PushVideo(b, unit, due, outcome)
<1>1. Sound(Call) /\ Call.seg = seg /\ Held(seg) \in Nat
  BY SoundCall
<1>2. Sound(seen) /\ Later(seg, seen.seg) /\ Held(seen.seg) = Held(seg)
  BY <1>1, SeenFacts
<1>3. /\ Sound(x) /\ Held(x.seg) <= Held(seg)
      /\ Later(seg, x.seg) \/ x.seg.era # seg.era
  <2>1. CASE backwards
    <3>1. LET r == Restarted(seen, outcome)
          IN  Sound(r) /\ r.seg.era # seen.seg.era /\ Held(r.seg) = 0
      BY <1>2, BackwardsFacts
    <3>2. seen.seg.era = seg.era
      BY <1>2 DEF Later
    <3>3. x = Restarted(seen, outcome)
      BY <2>1
    <3> HIDE DEF x, seen
    <3>4. QED
      BY <1>1, <3>1, <3>2, <3>3
  <2>2. CASE ~backwards
    <3>1. x = seen
      BY <2>2
    <3> HIDE DEF x, seen
    <3>2. QED
      BY <1>1, <1>2, <3>1
  <2>3. QED
    BY <2>1, <2>2
<1>4. Return(y)
  BY DEF VideoUnitArrives
<1> HIDE DEF x
<1>5. Sound(b) /\ Later(x.seg, b.seg) /\ Held(b.seg) = Held(x.seg)
  BY <1>3, BasedFacts
<1> HIDE DEF b
<1>6. Sound(y) /\ Later(b.seg, y.seg) /\ Within(b.seg, y.seg)
  BY <1>5, PushVideoFacts
<1> HIDE DEF y
<1>7. Later(seg, y.seg) \/ y.seg.era # seg.era
  <2>1. CASE Later(seg, x.seg)
    BY <1>5, <1>6, <2>1, LaterTransitive
  <2>2. CASE x.seg.era # seg.era
    BY <1>5, <1>6, <2>2 DEF Later
  <2>3. QED
    BY <1>3, <2>1, <2>2
<1>8. Within(seg, y.seg)
  <2>1. x.seg \in SegmentType /\ y.seg \in SegmentType
    BY <1>3, <1>6 DEF Sound, CallType
  <2>2. Held(x.seg) \in Nat /\ Held(y.seg) \in Nat
    BY <2>1, HeldIsNat
  <2>3. QED
    BY <1>1, <1>3, <1>5, <1>6, <2>2 DEF Within
<1>9. QED
  BY <1>4, <1>6, <1>7, <1>8 DEF Answers

LEMMA AudioAnswers ==
  ASSUME SegmenterInv, NEW sig \in AudioSig \cup {None},
         NEW before \in Outcome, NEW afterwards \in Outcome,
         AudioUnitArrives(sig, before, afterwards)
  PROVE  \E y : Answers(y)
<1> DEFINE known == IF seg.explicit # None THEN seg.explicit ELSE sig
           b == Based(Call)
           y == PushAudio(b, known, before, afterwards)
<1>1. Sound(Call) /\ Call.seg = seg /\ Held(seg) \in Nat
  BY SoundCall
<1>2. known \in AudioSig \cup {None}
  BY DEF SegmenterInv, TypeOK
<1>3. Return(y)
  BY DEF AudioUnitArrives
<1> HIDE DEF known
<1>4. Sound(b) /\ Later(seg, b.seg) /\ Held(b.seg) = Held(seg)
  BY <1>1, BasedFacts
<1> HIDE DEF b
<1>5. Sound(y) /\ Later(b.seg, y.seg) /\ Within(b.seg, y.seg)
  BY <1>2, <1>4, PushAudioFacts
<1> HIDE DEF y
<1>6. Later(seg, y.seg) /\ Within(seg, y.seg)
  BY <1>4, <1>5, LaterTransitive DEF Within
<1>7. QED
  BY <1>3, <1>5, <1>6 DEF Answers

LEMMA SetAudioTrackAnswers ==
  ASSUME SegmenterInv, NEW sig \in AudioSig, SetAudioTrack(sig)
  PROVE  \E y : Answers(y)
<1> DEFINE h == [seg EXCEPT !.explicit = sig, !.last = None, !.force = TRUE]
           y == [Call EXCEPT !.seg = h]
<1>1. Sound(Call) /\ Call.seg = seg /\ Held(seg) \in Nat
  BY SoundCall
<1>2. Call \in CallType /\ seg \in SegmentType
  BY <1>1 DEF Sound, CallType
<1>3. [Call EXCEPT !.seg.explicit = sig, !.seg.last = None, !.seg.force = TRUE] = y
  BY <1>2 DEF CallType, SegmentType, Call
<1>4. h \in SegmentType
  BY <1>2 DEF SegmentType
<1>5. /\ h.video = seg.video /\ h.sounds = seg.sounds /\ h.config = seg.config
      /\ h.era = seg.era /\ h.last = None
  BY <1>2 DEF SegmentType
<1> HIDE DEF h
<1>6. Uniform(h) /\ KnowsAudio(h) /\ Held(h) = Held(seg)
  BY <1>5 DEF SegmenterInv, Uniform, KnowsAudio, Held
<1>7. y \in CallType /\ y.seg = h /\ y.out = Call.out
  BY <1>2, <1>4 DEF CallType
<1>8. Sound(y) /\ y.seg.last = None /\ Within(seg, y.seg)
  BY <1>1, <1>5, <1>6, <1>7 DEF Sound, Within
<1>9. Return(y)
  BY <1>3 DEF SetAudioTrack
<1>10. QED
  BY <1>8, <1>9 DEF Answers

LEMMA EveryCallAnswers ==
  ASSUME SegmenterInv, Next
  PROVE  \E y : Answers(y)
<1>1. Sound(Call) /\ Call.seg = seg /\ Held(seg) \in Nat
  BY SoundCall
<1>2. ASSUME MalformedVideoArrives PROVE \E y : Answers(y)
  <2>1. Sound(SeenVideo(Call)) /\ Later(seg, SeenVideo(Call).seg)
        /\ Held(SeenVideo(Call).seg) = Held(seg)
    BY <1>1, SeenFacts
  <2>2. Answers(SeenVideo(Call))
    BY <1>1, <1>2, <2>1 DEF MalformedVideoArrives, Answers, Within
  <2>3. QED
    BY <2>2
<1>3. ASSUME Reset PROVE \E y : Answers(y)
  <2> DEFINE y == [Call EXCEPT !.seg = Fresh(seg.explicit, ~seg.era)]
  <2>1. Return(y)
    BY <1>3 DEF Reset, Call
  <2>2. seg.explicit \in AudioSig \cup {None}
    BY DEF SegmenterInv, TypeOK
  <2>3. Sound(y) /\ y.seg.era # seg.era /\ Held(y.seg) = 0
    BY <1>1, <2>2, RestartedFacts
  <2> HIDE DEF y
  <2>4. Within(seg, y.seg)
    BY <1>1, <2>3 DEF Within
  <2>5. QED
    BY <2>1, <2>3, <2>4 DEF Answers
<1>4. ASSUME NEW outcome \in Outcome, Finish(outcome) PROVE \E y : Answers(y)
  <2>1. LET y == Flushed(Call, outcome)
        IN  Sound(y) /\ Later(seg, y.seg) /\ Held(y.seg) <= Held(seg)
    BY <1>1, FlushedFacts
  <2>2. Answers(Flushed(Call, outcome))
    BY <1>4, <2>1 DEF Finish, Answers, Within
  <2>3. QED
    BY <2>2
<1>5. QED
  BY <1>2, <1>3, <1>4, VideoAnswers, AudioAnswers, SetAudioTrackAnswers DEF Next

LEMMA SegmenterStep ==
  ASSUME SegmenterInv, [Next]_vars
  PROVE  SegmenterInv'
<1>1. ASSUME NEW y, Answers(y) PROVE SegmenterInv'
  <2>1. seg' = y.seg /\ out' = y.out /\ Sound(y)
    BY <1>1 DEF Answers, Return
  <2>2. seg' \in SegmentType /\ out' \in Seq(PartType)
    BY <2>1 DEF Sound, CallType
  <2>3. TypeOK'
    BY <2>2 DEF TypeOK, SegmentType, PartType
  <2>4. Uniform(seg)' /\ KnowsAudio(seg)'
    BY <2>1 DEF Sound, Uniform, KnowsAudio
  <2>5. PartsDoNotMix'
    BY <2>1 DEF Sound, Whole, PartsDoNotMix
  <2>6. QED
    BY <2>3, <2>4, <2>5 DEF SegmenterInv
<1>2. CASE UNCHANGED vars
  BY <1>2 DEF SegmenterInv, TypeOK, Uniform, KnowsAudio, PartsDoNotMix, vars
<1>3. QED
  BY <1>1, <1>2, EveryCallAnswers

LEMMA SegmenterInvariance == Spec => []SegmenterInv
<1>1. Init => SegmenterInv
  <2> SUFFICES ASSUME Init PROVE SegmenterInv
    OBVIOUS
  <2>1. /\ seg.video = <<>> /\ seg.sounds = <<>> /\ seg.last = None
        /\ out = <<>>
    BY DEF Init, Fresh
  <2>2. <<>> \in Seq(VideoSample) /\ <<>> \in Seq(AudioSample)
    OBVIOUS
  <2>3. seg \in SegmentType
    BY <2>2 DEF Init, Fresh, SegmentType
  <2>4. TypeOK
    BY <2>1, <2>3 DEF TypeOK, SegmentType
  <2>5. QED
    BY <2>1, <2>4 DEF SegmenterInv, Uniform, KnowsAudio, PartsDoNotMix
<1>2. SegmenterInv /\ [Next]_vars => SegmenterInv'
  BY SegmenterStep
<1>3. QED
  BY <1>1, <1>2, PTL DEF Spec

\* The segmenter and the parts it gives out keep their types through every call,
\* a reset or a failed publication in the middle of one included.
THEOREM TypeCorrect == Spec => []TypeOK
<1>1. SegmenterInv => TypeOK
  BY DEF SegmenterInv
<1>2. QED
  BY <1>1, SegmenterInvariance, PTL

\* No part mixes the samples of two configurations, or of the two sides of a
\* timestamp reset: what is buffered always belongs to the current ones.
THEOREM NoPartMixes == Spec => []PartsDoNotMix
<1>1. SegmenterInv => PartsDoNotMix
  BY DEF SegmenterInv
<1>2. QED
  BY <1>1, SegmenterInvariance, PTL

\* A call that leaves more media waiting for parameter sets than it found leaves
\* no more than MAX_PENDING_AUS_WITHOUT_CONFIG units.
THEOREM WaitingMediaBounded == Spec => PendingBounded
<1>1. ASSUME SegmenterInv, [Next]_vars
      PROVE  [WaitsForVideo(seg') /\ Held(seg') > Held(seg)
                => Held(seg') <= MaxPending]_vars
  <2>1. ASSUME NEW y, Answers(y), WaitsForVideo(seg'), Held(seg') > Held(seg)
        PROVE  Held(seg') <= MaxPending
    <3>1. seg' = y.seg /\ Within(seg, y.seg) /\ y.seg \in SegmentType
      BY <2>1 DEF Answers, Return, Sound, CallType
    <3>2. Held(seg) \in Nat /\ Held(seg') \in Nat
      BY <1>1, <3>1, SoundCall, HeldIsNat
    <3>3. QED
      BY <2>1, <3>1, <3>2 DEF Within
  <2>2. QED
    BY <1>1, <2>1, EveryCallAnswers
<1>2. QED
  BY <1>1, SegmenterInvariance, PTL DEF Spec, PendingBounded

\* Once an init carried the audio track, the inits of that continuity segment go
\* on carrying it, unless an explicit track replaces it.
THEOREM AudioTrackKept == Spec => AudioStaysInInit
<1>1. ASSUME SegmenterInv, [Next]_vars
      PROVE  [seg.last # None /\ seg'.last # None /\ seg.last.audio # None
                /\ seg.era = seg'.era
              => seg'.last.audio # None]_vars
  <2>1. ASSUME NEW y, Answers(y), seg.last # None, seg'.last # None,
               seg.last.audio # None, seg.era = seg'.era
        PROVE  seg'.last.audio # None
    <3>1. seg' = y.seg /\ Later(seg, y.seg)
      BY <2>1 DEF Answers, Return
    <3>2. seg.audio # None
      BY <1>1, <2>1 DEF SegmenterInv, KnowsAudio
    <3>3. QED
      BY <2>1, <3>1, <3>2 DEF Later
  <2>2. QED
    BY <1>1, <2>1, EveryCallAnswers
<1>2. QED
  BY <1>1, SegmenterInvariance, PTL DEF Spec, AudioStaysInInit

-----------------------------------------------------------------------------
\* The upload task.

\* The playlists of the upload task.
Playlist == {ConfiguredOutput} \cup UploadRequest

\* No request of the upload service has the id of an RTMP stream.
OwnIds == UploadRequest \cap RtmpStream = {}

Tracked == [output : Playlist \cup {NoOutput}, seen : Nat, packager : BOOLEAN, ended : BOOLEAN]

BridgesTyped ==
  /\ bridges \in [DOMAIN bridges -> Tracked] /\ DOMAIN bridges \subseteq UploadRequest
  /\ \A r \in DOMAIN bridges :
       /\ bridges[r].output \in {NoOutput, ConfiguredOutput, r}
       /\ bridges[r].packager <=> bridges[r].output # NoOutput
  /\ open \in [Output -> BOOLEAN]
  /\ \A s \in DOMAIN segmenters : segmenters[s] \in {RtmpOutput} \cup RtmpStream

ServiceRequest == [life : {"none", "active", "gone"}, slots : Seq(Slot)]

\* Nothing follows the end of a request.
SlotsEnd ==
  /\ request \in [UploadRequest -> ServiceRequest]
  /\ \A r \in UploadRequest : \A i \in 1 .. Len(request[r].slots) :
       request[r].slots[i] = "end" => i = Len(request[r].slots)

PollTyped ==
  poll \in [at : {"tick", "retire", "slots", "stopped"}, stale : SUBSET UploadRequest,
            streams : SUBSET (UploadRequest \X Nat), of : UploadRequest \cup {NoOutput},
            slot : Nat, last : Nat, finished : Playlist \cup {NoOutput}]

\* A poll works on requests that are tracked and slots that are there, reads on only
\* of a request that has not ended, and owes a playlist its end only after that.
PollInStep ==
  /\ poll.stale \subseteq DOMAIN bridges
  /\ \A visit \in poll.streams : visit[2] <= Len(request[visit[1]].slots)
  /\ poll.at = "slots" =>
       /\ poll.stale = {} /\ poll.of \in DOMAIN bridges
       /\ poll.slot > 0 /\ poll.last <= Len(request[poll.of].slots)
       /\ poll.slot <= poll.last => ~bridges[poll.of].ended /\ poll.finished = NoOutput
  /\ poll.finished # NoOutput =>
       /\ poll.at = "slots"
       /\ bridges[poll.of].ended /\ bridges[poll.of].output = poll.finished

\* A playlist is open while a request feeds it, and until it is given the end it is owed.
Fed(o) == \E r \in DOMAIN bridges : Feeds(r, o)

OpenWhileFed ==
  poll.at # "stopped" => \A o \in Playlist : open[o] <=> (Fed(o) \/ poll.finished = o)

\* Concurrent requests have outputs of their own.
OneFeeder ==
  policy = "ConcurrentFallback" =>
    \A r, q \in DOMAIN bridges :
      ~bridges[r].ended /\ ~bridges[q].ended /\ bridges[r].output # NoOutput
        /\ bridges[q].output = bridges[r].output => r = q

UploadInv ==
  BridgesTyped /\ SlotsEnd /\ PollTyped /\ PollInStep /\ OpenWhileFed /\ OneFeeder

LEMMA Names ==
  /\ NoOutput \notin Playlist /\ RtmpOutput \notin Playlist /\ Playlist \subseteq Output
  /\ ConfiguredOutput \notin UploadRequest /\ RtmpOutput \in Output /\ RtmpStream \subseteq Output
  /\ ConfiguredOutput \notin RtmpStream /\ MaxSlots \in Nat
BY BridgeAssumption DEF Playlist, Output

LEMMA RestingTyped ==
  /\ Resting \in [at : {"tick"}, stale : {{}}, streams : {{}}, of : {NoOutput}, slot : {0},
                  last : {0}, finished : {NoOutput}]
BY DEF Resting

LEMMA UploadInit == BridgeInit => UploadInv
<1> SUFFICES ASSUME BridgeInit PROVE UploadInv
  OBVIOUS
<1>1. DOMAIN bridges = {} /\ bridges = [r \in {} |-> 0] /\ DOMAIN segmenters = {}
  BY DEF BridgeInit
<1>2. BridgesTyped
  BY <1>1 DEF BridgeInit, BridgesTyped
<1>3. SlotsEnd
  <2>1. PICK e \in ServiceRequest : e = [life |-> "none", slots |-> <<>>] /\ Len(e.slots) = 0
    <3>1. <<>> \in Seq(Slot) /\ Len(<<>>) = 0
      OBVIOUS
    <3>2. [life |-> "none", slots |-> <<>>] \in ServiceRequest
      BY <3>1 DEF ServiceRequest
    <3>3. QED
      BY <3>1, <3>2
  <2>2. \A r \in UploadRequest : request[r] = e
    BY <2>1 DEF BridgeInit
  <2>3. request \in [UploadRequest -> ServiceRequest]
    BY <2>1 DEF BridgeInit
  <2>4. QED
    BY <2>1, <2>2, <2>3 DEF SlotsEnd
<1>4. PollTyped
  BY DEF BridgeInit, PollTyped, Resting
<1>5. PollInStep
  BY <1>1 DEF BridgeInit, PollInStep, Resting
<1>6. OpenWhileFed
  BY <1>1, Names DEF BridgeInit, OpenWhileFed, Resting, Fed
<1>7. OneFeeder
  BY <1>1 DEF OneFeeder
<1>8. QED
  BY <1>2, <1>3, <1>4, <1>5, <1>6, <1>7 DEF UploadInv

LEMMA NothingTracked ==
  ASSUME UploadInv, UNCHANGED <<bridges, poll, open, segmenters, policy>>
  PROVE  BridgesTyped' /\ PollTyped' /\ OpenWhileFed' /\ OneFeeder'
<1> USE DEF UploadInv
<1>1. BridgesTyped'
  BY DEF BridgesTyped
<1>2. PollTyped'
  BY DEF PollTyped
<1>3. \A o : Fed(o)' <=> Fed(o)
  BY DEF Fed, Feeds
<1>4. OpenWhileFed'
  BY <1>3 DEF OpenWhileFed
<1>5. OneFeeder'
  BY DEF OneFeeder
<1>6. QED
  BY <1>1, <1>2, <1>4, <1>5

\* Steps that leave the requests that are tracked alone.
LEMMA ServiceStep ==
  ASSUME UploadInv, UNCHANGED <<bridges, poll, open, segmenters, policy>>,
         NEW r \in UploadRequest,
         \/ Appear(r) \/ Depart(r)
         \/ \E slot \in Slot : Gain(r, slot)
  PROVE  UploadInv'
<1> USE DEF UploadInv
<1>1. PICK e \in ServiceRequest : e = request[r]
  BY DEF SlotsEnd
<1>a. e.slots \in Seq(Slot)
  BY DEF ServiceRequest
<1>2. CASE Appear(r) \/ Depart(r)
  <2>0. PICK life \in {"active", "gone"} :
          request' = [request EXCEPT ![r] = [request[r] EXCEPT !.life = life]]
    BY <1>2 DEF Appear, Depart
  <2>a. [e EXCEPT !.life = life] \in ServiceRequest /\ [e EXCEPT !.life = life].slots = e.slots
    BY DEF ServiceRequest
  <2>1. /\ request' \in [UploadRequest -> ServiceRequest]
        /\ \A q \in UploadRequest : request'[q].slots = request[q].slots
    BY <1>1, <2>0, <2>a DEF SlotsEnd
  <2>2. SlotsEnd'
    BY <2>1 DEF SlotsEnd
  <2>3. \A visit \in poll.streams : visit[1] \in UploadRequest
    BY DEF PollTyped
  <2>4. poll.at = "slots" => poll.of \in UploadRequest
    BY DEF PollInStep, BridgesTyped
  <2>5. PollInStep'
    BY <2>1, <2>3, <2>4 DEF PollInStep
  <2>6. QED
    BY <2>2, <2>5, NothingTracked
<1>3. CASE \E slot \in Slot : Gain(r, slot)
  <2>1. PICK slot \in Slot : Gain(r, slot)
    BY <1>3
  <2>2. PICK s \in Seq(Slot) : s = request[r].slots
    BY <1>1, <1>a
  <2>3. /\ Append(s, slot) \in Seq(Slot) /\ Len(Append(s, slot)) = Len(s) + 1 /\ Len(s) \in Nat
        /\ \A i \in 1 .. Len(s) : Append(s, slot)[i] = s[i]
    OBVIOUS
  <2>4. \A i \in 1 .. Len(s) : s[i] # "end"
    <3>1. SUFFICES ASSUME NEW i \in 1 .. Len(s), s[i] = "end" PROVE FALSE
      OBVIOUS
    <3>2. i = Len(s) /\ s # <<>>
      BY <2>2, <3>1 DEF SlotsEnd
    <3>3. Last(s) # "end"
      BY <2>1, <2>2, <3>2 DEF Gain
    <3>4. QED
      BY <3>1, <3>2, <3>3 DEF Last
  <2>a. [e EXCEPT !.slots = Append(s, slot)] \in ServiceRequest
        /\ [e EXCEPT !.slots = Append(s, slot)].slots = Append(s, slot)
    BY <2>3 DEF ServiceRequest
  <2>b. request' = [request EXCEPT ![r] = [request[r] EXCEPT !.slots = Append(s, slot)]]
    BY <2>1, <2>2 DEF Gain
  <2>5. /\ request' \in [UploadRequest -> ServiceRequest]
        /\ request'[r].slots = Append(s, slot)
        /\ \A q \in UploadRequest \ {r} : request'[q].slots = request[q].slots
    BY <1>1, <2>a, <2>b DEF SlotsEnd
  <2>6. SlotsEnd'
    <3>1. \A i \in 1 .. Len(request'[r].slots) :
            request'[r].slots[i] = "end" => i = Len(request'[r].slots)
      BY <2>3, <2>4, <2>5
    <3>2. \A q \in UploadRequest \ {r} : \A i \in 1 .. Len(request'[q].slots) :
            request'[q].slots[i] = "end" => i = Len(request'[q].slots)
      BY <2>5 DEF SlotsEnd
    <3>3. QED
      BY <2>5, <3>1, <3>2 DEF SlotsEnd
  <2>7. \A q \in UploadRequest : /\ Len(request[q].slots) \in Nat /\ Len(request'[q].slots) \in Nat
                                 /\ Len(request[q].slots) <= Len(request'[q].slots)
    <3>1. SUFFICES ASSUME NEW q \in UploadRequest
                   PROVE  /\ Len(request[q].slots) \in Nat /\ Len(request'[q].slots) \in Nat
                          /\ Len(request[q].slots) <= Len(request'[q].slots)
      OBVIOUS
    <3>2. PICK f \in ServiceRequest : f = request[q]
      BY DEF SlotsEnd
    <3>3. f.slots \in Seq(Slot)
      BY DEF ServiceRequest
    <3>4. Len(f.slots) \in Nat
      BY <3>3
    <3>5. CASE q = r
      BY <2>2, <2>3, <2>5, <3>5
    <3>6. CASE q # r
      BY <2>5, <3>2, <3>4, <3>6
    <3>7. QED
      BY <3>5, <3>6
  <2>8. PollInStep'
    <3>1. \A visit \in poll.streams : visit[1] \in UploadRequest /\ visit[2] \in Nat
      BY DEF PollTyped
    <3>2. \A visit \in poll.streams : visit[2] <= Len(request'[visit[1]].slots)
      BY <2>7, <3>1 DEF PollInStep
    <3>3. poll.at = "slots" => poll.last <= Len(request'[poll.of].slots)
      <4>1. SUFFICES ASSUME poll.at = "slots" PROVE poll.last <= Len(request'[poll.of].slots)
        OBVIOUS
      <4>2. poll.of \in UploadRequest /\ poll.last \in Nat
        BY <4>1 DEF PollInStep, BridgesTyped, PollTyped
      <4>3. poll.last <= Len(request[poll.of].slots)
        BY <4>1 DEF PollInStep
      <4>4. QED
        BY <2>7, <4>2, <4>3
    <3>4. QED
      BY <3>2, <3>3 DEF PollInStep
  <2>9. QED
    BY <2>6, <2>8, NothingTracked
<1>4. QED
  BY <1>2, <1>3

\* Steps that change neither what is tracked nor the slots.
LEMMA QuietStep ==
  ASSUME UploadInv, UNCHANGED <<bridges, poll, open, request, segmenters, policy>>
  PROVE  UploadInv'
<1> USE DEF UploadInv
<1>1. SlotsEnd'
  BY DEF SlotsEnd
<1>2. PollInStep'
  BY DEF PollInStep
<1>3. QED
  BY <1>1, <1>2, NothingTracked

\* What holds of the requests and of a poll by their types.
LEMMA Kept ==
  ASSUME UploadInv
  PROVE  /\ \A r \in DOMAIN bridges :
              /\ r \in UploadRequest /\ bridges[r] \in Tracked
              /\ bridges[r].output \in {NoOutput, ConfiguredOutput, r}
              /\ bridges[r].output \in Playlist \cup {NoOutput}
              /\ bridges[r].seen \in Nat
              /\ bridges[r].packager <=> bridges[r].output # NoOutput
         /\ \A r \in UploadRequest : Len(request[r].slots) \in Nat
         /\ poll.at # "slots" => poll.finished = NoOutput
         /\ poll.stale \subseteq UploadRequest /\ poll.streams \subseteq UploadRequest \X Nat
         /\ poll.slot \in Nat /\ poll.last \in Nat
         /\ poll.of \in UploadRequest \cup {NoOutput}
         /\ poll.finished \in Playlist \cup {NoOutput}
<1> USE DEF UploadInv
<1>1. \A r \in DOMAIN bridges :
        /\ r \in UploadRequest /\ bridges[r] \in Tracked
        /\ bridges[r].output \in {NoOutput, ConfiguredOutput, r}
        /\ bridges[r].packager <=> bridges[r].output # NoOutput
  BY DEF BridgesTyped
<1>2. \A r \in DOMAIN bridges : /\ bridges[r].output \in Playlist \cup {NoOutput}
                                /\ bridges[r].seen \in Nat
  BY <1>1 DEF Tracked
<1>3. \A r \in UploadRequest : Len(request[r].slots) \in Nat
  <2>1. SUFFICES ASSUME NEW r \in UploadRequest PROVE Len(request[r].slots) \in Nat
    OBVIOUS
  <2>2. PICK e \in ServiceRequest : e = request[r]
    BY DEF SlotsEnd
  <2>3. e.slots \in Seq(Slot)
    BY DEF ServiceRequest
  <2>4. QED
    BY <2>2, <2>3
<1>4. poll.at # "slots" => poll.finished = NoOutput
  BY DEF PollInStep
<1>5. /\ poll.stale \subseteq UploadRequest /\ poll.streams \subseteq UploadRequest \X Nat
      /\ poll.slot \in Nat /\ poll.last \in Nat
      /\ poll.of \in UploadRequest \cup {NoOutput}
      /\ poll.finished \in Playlist \cup {NoOutput}
  BY DEF PollTyped
<1>6. QED
  BY <1>1, <1>2, <1>3, <1>4, <1>5

\* A poll starts from what is there, and ends when nothing is left of it.
LEMMA PollStep ==
  ASSUME UploadInv, Poll \/ EndPoll
  PROVE  UploadInv'
<1> USE DEF UploadInv
<1>1. /\ UNCHANGED <<bridges, open, request, segmenters, policy>>
      /\ poll.at # "slots" /\ poll.at # "stopped" /\ poll.finished = NoOutput
  BY Kept DEF Poll, EndPoll
<1>2. /\ poll'.at \in {"tick", "retire"} /\ poll'.finished = NoOutput
      /\ poll'.stale \subseteq DOMAIN bridges
      /\ \A visit \in poll'.streams : visit[2] <= Len(request[visit[1]].slots)
      /\ PollTyped'
  <2>1. CASE EndPoll
    BY <2>1 DEF EndPoll, PollTyped, Resting
  <2>2. CASE Poll
    <3>1. PICK stale \in SUBSET UploadRequest, streams \in SUBSET (UploadRequest \X Nat) :
            /\ poll' = [Resting EXCEPT !.at = "retire", !.stale = stale, !.streams = streams]
            /\ stale \subseteq DOMAIN bridges
            /\ \A visit \in streams : visit[2] = Len(request[visit[1]].slots)
      <4> DEFINE Active == {r \in UploadRequest : request[r].life = "active"}
                 Streams == {<<r, Len(request[r].slots)>> : r \in Active}
      <4>1. DOMAIN bridges \ Active \in SUBSET UploadRequest
        BY Kept
      <4>2. Streams \in SUBSET (UploadRequest \X Nat)
        BY Kept
      <4>3. \A visit \in Streams : visit[2] = Len(request[visit[1]].slots)
        OBVIOUS
      <4>4. poll' = [Resting EXCEPT !.at = "retire", !.stale = DOMAIN bridges \ Active,
                                    !.streams = Streams]
        BY <2>2 DEF Poll
      <4> HIDE DEF Active, Streams
      <4>5. QED
        BY <4>1, <4>2, <4>3, <4>4
    <3>2. /\ poll'.at = "retire" /\ poll'.finished = NoOutput
          /\ poll'.stale = stale /\ poll'.streams = streams
      BY <3>1 DEF Resting
    <3>3. PollTyped'
      BY <3>1 DEF PollTyped, Resting
    <3>4. \A visit \in streams : visit[2] \in Nat
      BY <3>1
    <3>5. \A visit \in streams : visit[2] <= Len(request[visit[1]].slots)
      BY <3>1, <3>4
    <3>6. QED
      BY <3>1, <3>2, <3>3, <3>5
  <2>3. QED
    BY <2>1, <2>2
<1>3. BridgesTyped' /\ SlotsEnd' /\ OneFeeder'
  BY <1>1 DEF BridgesTyped, SlotsEnd, OneFeeder
<1>4. PollInStep'
  BY <1>1, <1>2 DEF PollInStep
<1>5. OpenWhileFed'
  <2>1. \A o : Fed(o)' <=> Fed(o)
    BY <1>1 DEF Fed, Feeds
  <2>2. QED
    BY <1>1, <1>2, <2>1, Names DEF OpenWhileFed
<1>6. QED
  BY <1>2, <1>3, <1>4, <1>5

\* A request that is gone no longer feeds its playlist.
LEMMA RetireStep ==
  ASSUME UploadInv, NEW r \in UploadRequest, RetireStale(r)
  PROVE  UploadInv'
<1> USE DEF UploadInv
<1>0. PICK output : output = bridges[r].output
  OBVIOUS
<1>1. /\ UNCHANGED <<request, segmenters, policy>>
      /\ poll.at = "retire" /\ poll.finished = NoOutput /\ r \in DOMAIN bridges
      /\ DOMAIN bridges' = DOMAIN bridges \ {r}
      /\ \A q \in DOMAIN bridges' : bridges'[q] = bridges[q]
      /\ bridges' = [q \in DOMAIN bridges' |-> bridges'[q]]
      /\ output \in Playlist \cup {NoOutput}
  BY <1>0, Kept DEF RetireStale, PollInStep, Without
<1>2. /\ poll'.at = "retire" /\ poll'.finished = NoOutput
      /\ poll'.stale = poll.stale \ {r} /\ poll'.streams = poll.streams /\ PollTyped'
  BY <1>1 DEF RetireStale, PollTyped
<1>3. open' = IF output = NoOutput \/ Fed(output)' THEN open ELSE [open EXCEPT ![output] = FALSE]
  BY <1>0, <1>1 DEF RetireStale, FinUnlessFed, HasSuccessor, Fed, Feeds, Without
<1>4. \A o : Fed(o) <=> (Fed(o)' \/ Feeds(r, o))
  BY <1>1 DEF Fed, Feeds
<1>5. BridgesTyped'
  <2>1. bridges' \in [DOMAIN bridges' -> Tracked]
    BY <1>1, Kept
  <2>2. open' \in [Output -> BOOLEAN]
    BY <1>1, <1>3, Names DEF BridgesTyped
  <2>3. QED
    BY <1>1, <2>1, <2>2, Kept DEF BridgesTyped
<1>6. SlotsEnd'
  BY <1>1 DEF SlotsEnd
<1>7. PollInStep'
  BY <1>1, <1>2 DEF PollInStep
<1>8. OpenWhileFed'
  <2>1. SUFFICES ASSUME NEW o \in Playlist PROVE open'[o] <=> Fed(o)'
    BY <1>2, Names DEF OpenWhileFed
  <2>2. open[o] <=> Fed(o)
    BY <1>1, Names DEF OpenWhileFed
  <2>a. open \in [Output -> BOOLEAN] /\ o \in Output /\ o # NoOutput
    BY Names DEF BridgesTyped
  <2>3. CASE output = o /\ Fed(o)'
    BY <1>3, <1>4, <2>2, <2>3
  <2>b. CASE output = o /\ ~Fed(o)'
    BY <1>3, <2>a, <2>b
  <2>4. CASE output # o
    <3>1. open'[o] <=> open[o]
      BY <1>3, <2>a, <2>4
    <3>2. ~Feeds(r, o)
      BY <1>0, <2>4 DEF Feeds
    <3>3. QED
      BY <1>4, <2>2, <3>1, <3>2
  <2>5. QED
    BY <2>3, <2>b, <2>4
<1>9. OneFeeder'
  BY <1>1 DEF OneFeeder
<1>10. QED
  BY <1>2, <1>5, <1>6, <1>7, <1>8, <1>9

\* A request that is visited is tracked, and its new slots are read.
LEMMA VisitStep ==
  ASSUME UploadInv, NEW r \in UploadRequest, NEW last \in 0 .. MaxSlots, Visit(r, last)
  PROVE  UploadInv'
<1> USE DEF UploadInv
<1>1. PICK b : b = IF r \in DOMAIN bridges THEN bridges[r] ELSE NewBridge
  OBVIOUS
<1>2. /\ b \in Tracked /\ b.output \in {NoOutput, ConfiguredOutput, r} /\ b.seen \in Nat
      /\ b.packager <=> b.output # NoOutput
      /\ r \notin DOMAIN bridges => b.output = NoOutput
  BY <1>1, Kept DEF NewBridge, Tracked
<1>3. /\ UNCHANGED <<request, segmenters, policy, open>>
      /\ poll.at = "retire" /\ poll.stale = {} /\ poll.finished = NoOutput
      /\ <<r, last>> \in poll.streams
      /\ bridges' = [q \in DOMAIN bridges \cup {r} |-> IF q = r THEN b ELSE bridges[q]]
      /\ poll' = IF b.ended \/ last <= b.seen
                 THEN [poll EXCEPT !.streams = poll.streams \ {<<r, last>>}]
                 ELSE [poll EXCEPT !.at = "slots", !.streams = poll.streams \ {<<r, last>>},
                                   !.of = r, !.slot = b.seen + 1, !.last = last]
  BY <1>1, Kept DEF Visit
<1>4. /\ DOMAIN bridges' = DOMAIN bridges \cup {r} /\ bridges'[r] = b
      /\ \A q \in DOMAIN bridges : bridges'[q] = bridges[q]
  BY <1>1, <1>3
<1>5. last \in Nat /\ last <= Len(request[r].slots)
  BY <1>3, Names DEF PollInStep
<1>6. /\ poll'.stale = {} /\ poll'.finished = NoOutput
      /\ poll'.streams = poll.streams \ {<<r, last>>}
      /\ poll'.at \in {"retire", "slots"}
      /\ poll'.at = "slots" => /\ poll'.of = r /\ poll'.slot = b.seen + 1 /\ poll'.last = last
                              /\ ~b.ended
  BY <1>3 DEF PollTyped
<1>7. PollTyped'
  <2>1. poll.streams \ {<<r, last>>} \in SUBSET (UploadRequest \X Nat) /\ b.seen + 1 \in Nat
    BY <1>2, Kept
  <2>2. CASE b.ended \/ last <= b.seen
    BY <1>3, <2>1, <2>2 DEF PollTyped
  <2>3. CASE ~(b.ended \/ last <= b.seen)
    BY <1>3, <1>5, <2>1, <2>3 DEF PollTyped
  <2>4. QED
    BY <2>2, <2>3
<1>8. BridgesTyped'
  <2>1. bridges' \in [DOMAIN bridges' -> Tracked]
    BY <1>2, <1>3, Kept
  <2>2. QED
    BY <1>2, <1>3, <1>4, <2>1, Kept DEF BridgesTyped
<1>9. SlotsEnd'
  BY <1>3 DEF SlotsEnd
<1>10. PollInStep'
  <2>1. poll'.at = "slots" => poll'.slot > 0
    BY <1>2, <1>6
  <2>2. QED
    BY <1>3, <1>4, <1>5, <1>6, <2>1 DEF PollInStep
<1>11. OpenWhileFed'
  <2>1. \A o \in Playlist : Fed(o)' <=> Fed(o)
    BY <1>1, <1>2, <1>4, Names DEF Fed, Feeds
  <2>2. QED
    BY <1>3, <1>6, <2>1, Names DEF OpenWhileFed
<1>12. OneFeeder'
  <2>1. SUFFICES ASSUME policy = "ConcurrentFallback", NEW p \in DOMAIN bridges',
                        NEW q \in DOMAIN bridges', ~bridges'[p].ended, ~bridges'[q].ended,
                        bridges'[p].output # NoOutput, bridges'[q].output = bridges'[p].output
                 PROVE  p = q
    <3>1. policy' = policy
      BY <1>3
    <3>2. QED
      BY <3>1 DEF OneFeeder
  <2>2. p \in DOMAIN bridges /\ q \in DOMAIN bridges
    BY <1>2, <1>4, <2>1
  <2>3. QED
    BY <1>4, <2>1, <2>2 DEF OneFeeder
<1>13. QED
  BY <1>7, <1>8, <1>9, <1>10, <1>11, <1>12

\* Slots that change nothing of what is tracked.
LEMMA PassStep ==
  ASSUME UploadInv, ReadHeaders \/ PassSlot
  PROVE  UploadInv'
<1> USE DEF UploadInv
<1>1. /\ UNCHANGED <<bridges, open, request, segmenters, policy>>
      /\ poll.at = "slots" /\ poll.slot <= poll.last
      /\ poll' = [poll EXCEPT !.slot = poll.slot + 1]
  BY DEF ReadHeaders, PassSlot, Reading, Advance
<1>2. poll.slot \in Nat /\ poll.slot + 1 \in Nat /\ poll.slot + 1 > 0
  BY Kept
<1>3. PollTyped'
  BY <1>1, <1>2 DEF PollTyped
<1>4. /\ poll'.slot = poll.slot + 1 /\ poll'.at = poll.at /\ poll'.stale = poll.stale
      /\ poll'.streams = poll.streams /\ poll'.of = poll.of /\ poll'.last = poll.last
      /\ poll'.finished = poll.finished
  BY <1>1 DEF PollTyped
<1>5. PollInStep'
  BY <1>1, <1>2, <1>4 DEF PollInStep
<1>6. BridgesTyped' /\ SlotsEnd' /\ OneFeeder'
  BY <1>1 DEF BridgesTyped, SlotsEnd, OneFeeder
<1>7. OpenWhileFed'
  <2>1. \A o : Fed(o)' <=> Fed(o)
    BY <1>1 DEF Fed, Feeds
  <2>2. QED
    BY <1>1, <1>4, <2>1 DEF OpenWhileFed
<1>8. QED
  BY <1>3, <1>5, <1>6, <1>7

\* A request that sends media feeds its playlist, and no other request does.
LEMMA BodyStep ==
  ASSUME UploadInv, ReadBody
  PROVE  UploadInv'
<1> USE DEF UploadInv
<1>1. PICK r : r = poll.of
  OBVIOUS
<1>2. /\ poll.at = "slots" /\ poll.slot <= poll.last /\ r \in DOMAIN bridges
      /\ ~bridges[r].ended /\ poll.finished = NoOutput /\ r \in UploadRequest
  BY <1>1, Kept DEF ReadBody, Reading, PollInStep
<1>3. PICK output : output = IF bridges[r].packager THEN bridges[r].output ELSE OutputFor(r)
  OBVIOUS
<1>4. PICK b \in Tracked : b = bridges[r]
  BY <1>2, Kept
<1>5. PICK c : c = [b EXCEPT !.output = output, !.packager = TRUE]
  OBVIOUS
<1>6. /\ UNCHANGED <<request, segmenters, policy>>
      /\ bridges' = [bridges EXCEPT ![r] = c]
      /\ open' = [open EXCEPT ![output] = TRUE]
      /\ poll' = [poll EXCEPT !.slot = poll.slot + 1]
  BY <1>1, <1>3, <1>4, <1>5 DEF ReadBody, Advance
<1>7. output \in {ConfiguredOutput, r} /\ output \in Playlist /\ output \in Output
  <2>1. output \in {ConfiguredOutput, r}
    BY <1>2, <1>3, Kept DEF OutputFor
  <2>2. QED
    BY <1>2, <2>1, Names DEF Playlist, Output
<1>8. /\ c \in Tracked /\ c.output = output /\ c.packager /\ ~c.ended
  BY <1>2, <1>4, <1>5, <1>7 DEF Tracked
<1>9. /\ DOMAIN bridges' = DOMAIN bridges /\ bridges'[r] = c
      /\ \A q \in DOMAIN bridges \ {r} : bridges'[q] = bridges[q]
  BY <1>2, <1>6 DEF BridgesTyped
<1>10. BridgesTyped'
  <2>1. bridges' \in [DOMAIN bridges' -> Tracked]
    BY <1>2, <1>6, <1>8, <1>9 DEF BridgesTyped
  <2>2. open' \in [Output -> BOOLEAN]
    BY <1>6, <1>7 DEF BridgesTyped
  <2>3. \A q \in DOMAIN bridges' :
          /\ bridges'[q].output \in {NoOutput, ConfiguredOutput, q}
          /\ bridges'[q].packager <=> bridges'[q].output # NoOutput
    BY <1>7, <1>8, <1>9, Kept, Names
  <2>4. QED
    BY <1>6, <1>9, <2>1, <2>2, <2>3 DEF BridgesTyped
<1>11. /\ poll'.slot = poll.slot + 1 /\ poll'.at = poll.at /\ poll'.stale = poll.stale
       /\ poll'.streams = poll.streams /\ poll'.of = poll.of /\ poll'.last = poll.last
       /\ poll'.finished = poll.finished /\ PollTyped'
  <2>1. poll.slot + 1 \in Nat
    BY Kept
  <2>2. QED
    BY <1>6, <2>1 DEF PollTyped
<1>12. SlotsEnd'
  BY <1>6 DEF SlotsEnd
<1>13. PollInStep'
  <2>1. poll.slot + 1 > 0 /\ ~bridges'[r].ended
    BY Kept, <1>8, <1>9
  <2>2. QED
    BY <1>1, <1>2, <1>6, <1>9, <1>11, <2>1 DEF PollInStep
<1>14. b.packager => output = b.output
  BY <1>3, <1>4
<1>15. ~b.packager => b.output = NoOutput
  BY <1>2, <1>4, Kept
<1>16. OpenWhileFed'
  <2>1. SUFFICES ASSUME NEW o \in Playlist PROVE open'[o] <=> Fed(o)'
    BY <1>2, <1>11, Names DEF OpenWhileFed
  <2>2. open[o] <=> Fed(o)
    BY <1>2, Names DEF OpenWhileFed
  <2>3. CASE o = output
    <3>1. open'[o]
      BY <1>6, <1>7, <2>3 DEF BridgesTyped
    <3>2. Fed(o)'
      BY <1>2, <1>8, <1>9, <2>3 DEF Fed, Feeds
    <3>3. QED
      BY <3>1, <3>2
  <2>4. CASE o # output
    <3>1. open'[o] <=> open[o]
      BY <1>6, <2>4, Names DEF BridgesTyped
    <3>2. ~Feeds(r, o) /\ ~Feeds(r, o)'
      BY <1>4, <1>8, <1>9, <1>14, <1>15, <2>4, Names DEF Feeds
    <3>3. Fed(o)' <=> Fed(o)
      BY <1>9, <3>2 DEF Fed, Feeds
    <3>4. QED
      BY <2>2, <3>1, <3>3
  <2>5. QED
    BY <2>3, <2>4
<1>17. OneFeeder'
  <2>1. SUFFICES ASSUME policy = "ConcurrentFallback", NEW p \in DOMAIN bridges,
                        NEW q \in DOMAIN bridges, ~bridges'[p].ended, ~bridges'[q].ended,
                        bridges'[p].output # NoOutput, bridges'[q].output = bridges'[p].output
                 PROVE  p = q
    <3>1. policy' = policy /\ DOMAIN bridges' = DOMAIN bridges
      BY <1>6, <1>9
    <3>2. QED
      BY <3>1 DEF OneFeeder
  <2>2. CASE b.packager
    <3>1. \A x \in DOMAIN bridges : /\ bridges'[x].output = bridges[x].output
                                    /\ bridges'[x].ended <=> bridges[x].ended
      BY <1>2, <1>4, <1>8, <1>9, <1>14, <2>2
    <3>2. QED
      BY <2>1, <3>1 DEF OneFeeder
  <2>3. CASE ~b.packager
    <3>1. \A x \in DOMAIN bridges \ {r} : ~bridges[x].ended => bridges[x].output # output
      <4>1. SUFFICES ASSUME NEW x \in DOMAIN bridges \ {r}, ~bridges[x].ended,
                            bridges[x].output = output
                     PROVE  FALSE
        OBVIOUS
      <4>2. bridges[x].packager
        BY <1>7, <4>1, Kept, Names
      <4>3. output = r
        BY <1>3, <1>4, <2>1, <2>3, <4>1, <4>2 DEF OutputFor
      <4>4. r # NoOutput /\ r # ConfiguredOutput
        BY <1>2, Names DEF Playlist
      <4>5. QED
        BY <4>1, <4>3, <4>4, Kept
    <3>2. CASE p = r
      BY <1>8, <1>9, <2>1, <3>1, <3>2
    <3>3. CASE q = r
      BY <1>8, <1>9, <2>1, <3>1, <3>3
    <3>4. CASE p # r /\ q # r
      BY <1>9, <2>1, <3>4 DEF OneFeeder
    <3>5. QED
      BY <3>2, <3>3, <3>4
  <2>4. QED
    BY <2>2, <2>3
<1>18. QED
  BY <1>10, <1>11, <1>12, <1>13, <1>16, <1>17

\* The end of a request is its last slot; its playlist is owed an end.
LEMMA EndStep ==
  ASSUME UploadInv, ReadEnd
  PROVE  UploadInv'
<1> USE DEF UploadInv
<1>1. PICK r : r = poll.of
  OBVIOUS
<1>2. /\ poll.at = "slots" /\ poll.slot <= poll.last /\ r \in DOMAIN bridges
      /\ poll.last <= Len(request[r].slots) /\ poll.slot > 0
      /\ ~bridges[r].ended /\ poll.finished = NoOutput /\ r \in UploadRequest
  BY <1>1, Kept DEF ReadEnd, Reading, PollInStep
<1>3. PICK b \in Tracked : b = bridges[r]
  BY <1>2, Kept
<1>4. PICK c : c = [b EXCEPT !.ended = TRUE]
  OBVIOUS
<1>5. /\ UNCHANGED <<request, segmenters, policy, open>>
      /\ bridges' = [bridges EXCEPT ![r] = c]
      /\ poll' = [poll EXCEPT !.slot = poll.slot + 1, !.finished = b.output]
  BY <1>1, <1>3, <1>4 DEF ReadEnd
<1>6. poll.slot + 1 > poll.last
  <2>1. poll.slot \in Nat /\ poll.last \in Nat /\ Len(request[r].slots) \in Nat
    BY <1>2, Kept
  <2>2. poll.slot \in 1 .. Len(request[r].slots)
    BY <1>2, <2>1
  <2>3. poll.slot = Len(request[r].slots)
    BY <1>1, <1>2, <2>2 DEF SlotsEnd, ReadEnd
  <2>4. QED
    BY <1>2, <2>1, <2>3
<1>7. c \in Tracked /\ c.ended /\ c.output = b.output /\ c.packager = b.packager
  BY <1>3, <1>4 DEF Tracked
<1>8. /\ DOMAIN bridges' = DOMAIN bridges /\ bridges'[r] = c
      /\ \A q \in DOMAIN bridges \ {r} : bridges'[q] = bridges[q]
  BY <1>2, <1>5 DEF BridgesTyped
<1>9. BridgesTyped'
  <2>1. bridges' \in [DOMAIN bridges' -> Tracked]
    BY <1>2, <1>5, <1>7, <1>8 DEF BridgesTyped
  <2>2. \A q \in DOMAIN bridges' :
          /\ bridges'[q].output \in {NoOutput, ConfiguredOutput, q}
          /\ bridges'[q].packager <=> bridges'[q].output # NoOutput
    BY <1>2, <1>3, <1>7, <1>8, Kept
  <2>3. QED
    BY <1>5, <1>8, <2>1, <2>2 DEF BridgesTyped
<1>10. /\ poll'.slot = poll.slot + 1 /\ poll'.at = poll.at /\ poll'.stale = poll.stale
       /\ poll'.streams = poll.streams /\ poll'.of = poll.of /\ poll'.last = poll.last
       /\ poll'.finished = b.output /\ PollTyped'
  <2>1. poll.slot + 1 \in Nat /\ b.output \in Playlist \cup {NoOutput}
    BY <1>2, <1>3, Kept
  <2>2. QED
    BY <1>5, <2>1 DEF PollTyped
<1>11. SlotsEnd'
  BY <1>5 DEF SlotsEnd
<1>12. PollInStep'
  <2>1. /\ poll'.stale = {} /\ poll'.of \in DOMAIN bridges' /\ poll'.slot > 0
        /\ poll'.last <= Len(request'[poll'.of].slots) /\ ~(poll'.slot <= poll'.last)
    <3>1. /\ poll'.stale = {} /\ poll'.of \in DOMAIN bridges'
          /\ poll'.last <= Len(request'[poll'.of].slots)
      BY <1>1, <1>2, <1>5, <1>8, <1>10 DEF PollInStep
    <3>2. poll.slot \in Nat /\ poll.last \in Nat
      BY Kept
    <3>3. poll'.slot > 0 /\ ~(poll'.slot <= poll'.last)
      BY <1>6, <1>10, <3>2
    <3>4. QED
      BY <3>1, <3>3
  <2>2. bridges'[poll'.of].ended /\ bridges'[poll'.of].output = poll'.finished
    BY <1>1, <1>7, <1>8, <1>10
  <2>3. /\ poll'.stale \subseteq DOMAIN bridges'
        /\ \A visit \in poll'.streams : visit[2] <= Len(request'[visit[1]].slots)
    BY <1>5, <1>8, <1>10 DEF PollInStep
  <2>4. QED
    BY <1>2, <1>10, <2>1, <2>2, <2>3 DEF PollInStep
<1>13. OpenWhileFed'
  <2>1. SUFFICES ASSUME NEW o \in Playlist PROVE open'[o] <=> (Fed(o)' \/ b.output = o)
    BY <1>2, <1>10 DEF OpenWhileFed
  <2>2. open'[o] <=> Fed(o)
    BY <1>2, <1>5, Names DEF OpenWhileFed
  <2>3. Fed(o) <=> (Fed(o)' \/ b.output = o)
    BY <1>2, <1>3, <1>7, <1>8 DEF Fed, Feeds
  <2>4. QED
    BY <2>2, <2>3
<1>14. OneFeeder'
  <2>1. \A x \in DOMAIN bridges : /\ bridges'[x].output = bridges[x].output
                                  /\ bridges[x].ended => bridges'[x].ended
    BY <1>2, <1>3, <1>7, <1>8
  <2>2. policy' = policy /\ DOMAIN bridges' = DOMAIN bridges
    BY <1>5, <1>8
  <2>3. QED
    BY <2>1, <2>2 DEF OneFeeder
<1>15. QED
  BY <1>9, <1>10, <1>11, <1>12, <1>13, <1>14

\* Once the slots are read the playlist that is owed an end gets it, unless another
\* request feeds it by then.
LEMMA SettleStep ==
  ASSUME UploadInv, Settle
  PROVE  UploadInv'
<1> USE DEF UploadInv
<1>1. PICK r, output : r = poll.of /\ output = poll.finished
  OBVIOUS
<1>2. /\ poll.at = "slots" /\ poll.slot > poll.last /\ r \in DOMAIN bridges
      /\ r \in UploadRequest /\ poll.last \in Nat
      /\ output \in Playlist \cup {NoOutput}
      /\ output # NoOutput => bridges[r].ended /\ bridges[r].output = output
  BY <1>1, Kept DEF Settle, PollInStep
<1>3. PICK b \in Tracked : b = bridges[r]
  BY <1>2, Kept
<1>4. PICK c : c = [b EXCEPT !.seen = poll.last]
  OBVIOUS
<1>5. /\ UNCHANGED <<request, segmenters, policy>>
      /\ bridges' = [bridges EXCEPT ![r] = c]
      /\ poll' = [Resting EXCEPT !.at = "retire", !.streams = poll.streams]
  BY <1>1, <1>3, <1>4 DEF Settle
<1>6. c \in Tracked /\ c.ended = b.ended /\ c.output = b.output /\ c.packager = b.packager
  BY <1>2, <1>4 DEF Tracked
<1>7. /\ DOMAIN bridges' = DOMAIN bridges /\ bridges'[r] = c
      /\ \A q \in DOMAIN bridges \ {r} : bridges'[q] = bridges[q]
  BY <1>2, <1>5 DEF BridgesTyped
<1>8. \A o : /\ Fed(o)' <=> Fed(o)
             /\ output # NoOutput /\ o = output => (HasSuccessor(bridges, r, o) <=> Fed(o))
  BY <1>2, <1>3, <1>6, <1>7 DEF Fed, Feeds, HasSuccessor
<1>9. open' = IF output = NoOutput \/ HasSuccessor(bridges, r, output) THEN open
              ELSE [open EXCEPT ![output] = FALSE]
  BY <1>1 DEF Settle, FinUnlessFed
<1>10. BridgesTyped'
  <2>1. bridges' \in [DOMAIN bridges' -> Tracked]
    BY <1>2, <1>5, <1>6, <1>7 DEF BridgesTyped
  <2>2. \A q \in DOMAIN bridges' :
          /\ bridges'[q].output \in {NoOutput, ConfiguredOutput, q}
          /\ bridges'[q].packager <=> bridges'[q].output # NoOutput
    BY <1>2, <1>3, <1>6, <1>7, Kept
  <2>3. open' \in [Output -> BOOLEAN]
    BY <1>2, <1>9, Names DEF BridgesTyped
  <2>4. QED
    BY <1>5, <1>7, <2>1, <2>2, <2>3 DEF BridgesTyped
<1>11. /\ poll'.at = "retire" /\ poll'.stale = {} /\ poll'.streams = poll.streams
       /\ poll'.finished = NoOutput /\ PollTyped'
  BY <1>5 DEF PollTyped, Resting
<1>12. SlotsEnd'
  BY <1>5 DEF SlotsEnd
<1>13. PollInStep'
  BY <1>5, <1>7, <1>11 DEF PollInStep
<1>14. OpenWhileFed'
  <2>1. SUFFICES ASSUME NEW o \in Playlist PROVE open'[o] <=> Fed(o)'
    BY <1>11, Names DEF OpenWhileFed
  <2>2. open[o] <=> (Fed(o) \/ output = o)
    BY <1>1, <1>2 DEF OpenWhileFed
  <2>3. open \in [Output -> BOOLEAN] /\ o \in Output /\ o # NoOutput
    BY Names DEF BridgesTyped
  <2>4. CASE output = o /\ Fed(o)
    BY <1>8, <1>9, <2>2, <2>3, <2>4
  <2>5. CASE output = o /\ ~Fed(o)
    BY <1>8, <1>9, <2>3, <2>5
  <2>6. CASE output # o
    <3>1. open'[o] <=> open[o]
      BY <1>9, <2>3, <2>6
    <3>2. QED
      BY <1>8, <2>2, <2>6, <3>1
  <2>7. QED
    BY <2>4, <2>5, <2>6
<1>15. OneFeeder'
  <2>1. \A x \in DOMAIN bridges : /\ bridges'[x].output = bridges[x].output
                                  /\ bridges'[x].ended = bridges[x].ended
    BY <1>2, <1>3, <1>6, <1>7
  <2>2. policy' = policy /\ DOMAIN bridges' = DOMAIN bridges
    BY <1>5, <1>7
  <2>3. QED
    BY <2>1, <2>2 DEF OneFeeder
<1>16. QED
  BY <1>10, <1>11, <1>12, <1>13, <1>14, <1>15

\* The task stops: nothing is tracked any more.
LEMMA StopStep ==
  ASSUME UploadInv, StopUpload
  PROVE  UploadInv'
<1> USE DEF UploadInv
<1>1. /\ UNCHANGED <<request, segmenters, policy, open>>
      /\ bridges' = [r \in {} |-> 0] /\ poll' = [Resting EXCEPT !.at = "stopped"]
  BY DEF StopUpload
<1>2. DOMAIN bridges' = {}
  BY <1>1
<1>3. BridgesTyped'
  BY <1>1, <1>2 DEF BridgesTyped
<1>4. PollTyped'
  BY <1>1 DEF PollTyped, Resting
<1>5. PollInStep'
  BY <1>1 DEF PollInStep, Resting
<1>6. OpenWhileFed'
  BY <1>1 DEF OpenWhileFed, Resting
<1>7. SlotsEnd' /\ OneFeeder'
  BY <1>1, <1>2 DEF SlotsEnd, OneFeeder
<1>8. QED
  BY <1>3, <1>4, <1>5, <1>6, <1>7

\* The RTMP task has playlists of its own, and drops its segmenters when it ends.
LEMMA RtmpStep ==
  ASSUME OwnIds, UploadInv,
         \/ \E s \in RtmpStream : RtmpAccessUnit(s) \/ RtmpEnd(s)
         \/ RtmpClosed
  PROVE  UploadInv'
<1> USE DEF UploadInv
<1>1. UNCHANGED <<request, bridges, poll, policy>>
  BY DEF RtmpAccessUnit, RtmpEnd, RtmpClosed
<1>2. \A o \in {RtmpOutput} \cup RtmpStream : o \notin Playlist /\ o \in Output
  BY Names DEF OwnIds, Playlist
<1>3. /\ \A q \in DOMAIN segmenters' : segmenters'[q] \in {RtmpOutput} \cup RtmpStream
      /\ \/ open' = open
         \/ \E o \in {RtmpOutput} \cup RtmpStream, value \in BOOLEAN :
              open' = [open EXCEPT ![o] = value]
  <2>1. CASE \E s \in RtmpStream : RtmpAccessUnit(s)
    <3>0. PICK s \in RtmpStream : RtmpAccessUnit(s)
      BY <2>1
    <3>1. PICK o : /\ o = IF s \in DOMAIN segmenters THEN segmenters[s] ELSE RtmpOutputFor(s)
                   /\ o \in {RtmpOutput} \cup RtmpStream
      BY DEF RtmpOutputFor, BridgesTyped
    <3>2. /\ segmenters' = [q \in DOMAIN segmenters \cup {s} |->
                              IF q = s THEN o ELSE segmenters[q]]
          /\ open' = [open EXCEPT ![o] = TRUE]
      BY <3>0, <3>1 DEF RtmpAccessUnit
    <3>3. QED
      BY <3>1, <3>2 DEF BridgesTyped
  <2>2. CASE \E s \in RtmpStream : RtmpEnd(s)
    BY <2>2 DEF RtmpEnd, BridgesTyped
  <2>3. CASE RtmpClosed
    BY <2>3 DEF RtmpClosed
  <2>4. QED
    BY <2>1, <2>2, <2>3
<1>4. open' \in [Output -> BOOLEAN] /\ \A o \in Playlist : open'[o] <=> open[o]
  BY <1>2, <1>3, Names DEF BridgesTyped
<1>5. BridgesTyped'
  BY <1>1, <1>3, <1>4 DEF BridgesTyped
<1>6. SlotsEnd' /\ PollTyped' /\ PollInStep' /\ OneFeeder'
  BY <1>1 DEF SlotsEnd, PollTyped, PollInStep, OneFeeder
<1>7. OpenWhileFed'
  <2>1. \A o : Fed(o)' <=> Fed(o)
    BY <1>1 DEF Fed, Feeds
  <2>2. QED
    BY <1>1, <1>4, <2>1 DEF OpenWhileFed
<1>8. QED
  BY <1>5, <1>6, <1>7

LEMMA UploadNext ==
  ASSUME OwnIds, UploadInv, [BridgeNext]_bridgeVars
  PROVE  UploadInv'
<1>1. CASE UploadTaskStep
  BY <1>1, PollStep, StopStep, RetireStep, VisitStep, PassStep, BodyStep, EndStep, SettleStep
     DEF UploadTaskStep
<1>2. CASE \E r \in UploadRequest :
             Appear(r) \/ Depart(r) \/ \E slot \in Slot : Gain(r, slot)
  BY <1>2, ServiceStep DEF Appear, Depart, Gain
<1>3. CASE (\E s \in RtmpStream : RtmpAccessUnit(s) \/ RtmpEnd(s)) \/ RtmpClosed
  BY <1>3, RtmpStep
<1>4. CASE StopBridges
  BY <1>4, QuietStep DEF StopBridges
<1>5. CASE UNCHANGED bridgeVars
  BY <1>5, QuietStep DEF bridgeVars
<1>6. QED
  BY <1>1, <1>2, <1>3, <1>4, <1>5 DEF BridgeNext

LEMMA UploadInvFollows ==
  ASSUME UploadInv
  PROVE  PlaylistsFollowRequests
<1> USE DEF UploadInv
<1>1. poll.at = "tick" => \A o \in Playlist : open[o] <=> \E r \in DOMAIN bridges : Feeds(r, o)
  BY Kept, Names DEF OpenWhileFed, Fed
<1>2. policy = "ConcurrentFallback" =>
        \A r, q \in DOMAIN bridges :
          Feeds(r, bridges[r].output) /\ Feeds(q, bridges[r].output)
            /\ bridges[r].packager => r = q
  BY Kept DEF OneFeeder, Feeds
<1>3. QED
  BY <1>1, <1>2 DEF PlaylistsFollowRequests, Playlist

\* Whatever the number of requests, slots and streams, and however requests appear,
\* end, depart and are polled: between polls a playlist of the upload task is open
\* exactly while a request feeds it, and under the fallback policy one request does.
THEOREM PlaylistsFollow ==
  ASSUME OwnIds
  PROVE  BridgeSpec => []PlaylistsFollowRequests
<1>1. BridgeInit => UploadInv
  BY UploadInit
<1>2. UploadInv /\ [BridgeNext]_bridgeVars => UploadInv'
  BY UploadNext
<1>3. UploadInv => PlaylistsFollowRequests
  BY UploadInvFollows
<1>4. QED
  BY <1>1, <1>2, <1>3, PTL DEF BridgeSpec

=============================================================================
