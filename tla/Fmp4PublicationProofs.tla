----------------------- MODULE Fmp4PublicationProofs -----------------------
(***************************************************************************)
(* Theorems about the publication of fMP4 parts, for every set of          *)
(* segmenters, tasks and configurations and every order of lanes.          *)
(***************************************************************************)
EXTENDS Fmp4Publication, TLAPS

-----------------------------------------------------------------------------
\* Where a publication stands, and what its part is by then.

Publishing == {"number", "sendInit", "indexKey", "indexPayload", "readKey",
               "readPayload", "sendMedia"}
Numbered == Publishing \ {"number"}
Depending == {"indexPayload", "readPayload", "sendMedia"}

\* A part under way was boxed for a configuration; a lane is only counted while
\* something is sent; what was indexed or read is an initialization.
PartsTyped ==
  \A s \in Segmenter :
    /\ phase[s] \in Publishing => part[s].config \in Config
    /\ phase[s] \in Publishing \ {"sendInit", "sendMedia"} => part[s].lane = 1
    /\ phase[s] \in Depending => part[s].dependency \in Config
    /\ phase[s] = "sendMedia" => part[s].bundle \in Config

TypeInv == TypeOK /\ PartsTyped

Part == [config : Config \cup {None}, init : BOOLEAN, sequence : Nat,
         lane : 1 .. Len(Lanes), dependency : Config \cup {None},
         bundle : Config \cup {None}]

LEMMA LanesFacts ==
  /\ Len(Lanes) \in Nat /\ Len(Lanes) >= 1
  /\ DOMAIN Lanes = 1 .. Len(Lanes)
  /\ \A i \in 1 .. Len(Lanes) : Lanes[i] \in Lane
BY LanesAssumption DEF Lane

LEMMA PartIsTyped == TypeOK => part \in [Segmenter -> Part]
BY DEF TypeOK, Part

LEMMA NoPartType == NoPart \in Part
BY LanesFacts DEF NoPart, Part

\* What an event leaves of a segmenter is typed.
SegmenterTyped ==
  /\ phase \in [Segmenter -> Phase]
  /\ config \in [Segmenter -> Config \cup {None}]
  /\ last \in [Segmenter -> Config \cup {None}]
  /\ force \in [Segmenter -> BOOLEAN]

LEMMA SettleType ==
  ASSUME TypeOK, NEW s \in Segmenter, NEW event \in Event, Settle(s, event)
  PROVE  SegmenterTyped'
<1>1. phase' \in [Segmenter -> Phase]
  BY DEF TypeOK, Settle, Become, Phase
<1>2. QED
  BY <1>1 DEF TypeOK, Settle, segmenter, SegmenterTyped

LEMMA ConcludedType ==
  ASSUME TypeOK, NEW s \in Segmenter, NEW ok \in BOOLEAN, Concluded(s, ok)
  PROVE  SegmenterTyped' /\ part' = part /\ after' = after
BY DEF TypeOK, Concluded, Become, SegmenterTyped, Phase

\* The last lane is never passed.
LEMMA NextLaneType ==
  ASSUME TypeOK, NEW s \in Segmenter, NEW next \in Phase, NextLane(s, next)
  PROVE  /\ phase' \in [Segmenter -> Phase]
         /\ part' \in [Segmenter -> Part]
<1>1. part[s].lane \in 1 .. Len(Lanes) /\ 1 \in 1 .. Len(Lanes)
  BY LanesFacts DEF TypeOK
<1>2. CASE part[s].lane < Len(Lanes)
  <2>1. part[s].lane + 1 \in 1 .. Len(Lanes)
    BY <1>1, <1>2, LanesFacts
  <2>2. part' = [part EXCEPT ![s].lane = @ + 1] /\ phase' = phase
    BY <1>2 DEF NextLane
  <2>3. PICK r \in Part : r = part[s]
    BY PartIsTyped
  <2>4. [r EXCEPT !.lane = @ + 1] \in Part
    BY <2>1, <2>3 DEF Part
  <2>5. part' = [part EXCEPT ![s] = [r EXCEPT !.lane = @ + 1]]
    BY <2>2, <2>3
  <2>6. QED
    BY <2>2, <2>4, <2>5, PartIsTyped DEF TypeOK
<1>3. CASE ~(part[s].lane < Len(Lanes))
  <2>1. [part[s] EXCEPT !.lane = 1] \in Part
    BY <1>1 DEF TypeOK, Part
  <2>2. /\ part' = [part EXCEPT ![s] = [part[s] EXCEPT !.lane = 1]]
        /\ phase' = [phase EXCEPT ![s] = next]
    BY <1>3 DEF NextLane, Become
  <2>3. QED
    BY <2>1, <2>2, PartIsTyped DEF TypeOK
<1>4. QED
  BY <1>2, <1>3

LEMMA TypeStep ==
  ASSUME TypeInv, [Next]_vars
  PROVE  TypeOK'
<1> USE DEF TypeInv, shared
<1>1. ASSUME NEW s \in Segmenter, Start(s) PROVE TypeOK'
  BY <1>1 DEF TypeOK, Start, Become, Phase, segmenter
<1>2. ASSUME NEW s \in Segmenter, NEW event \in Event, Package(s, event)
      PROVE  TypeOK'
  <2>1. [NoPart EXCEPT !.config = config[s], !.init = IncludesInit(s)] \in Part
    BY NoPartType DEF TypeOK, Part, IncludesInit
  <2>2. part' \in [Segmenter -> Part]
    BY <1>2, <2>1 DEF TypeOK, Package, Part
  <2>3. QED
    BY <1>2, <2>2 DEF TypeOK, Package, Become, Phase, segmenter, Part
<1>3. ASSUME NEW s \in Segmenter, NEW event \in Event, Apply(s, event)
      PROVE  TypeOK'
  <2>1. SegmenterTyped'
    BY <1>3, SettleType DEF Apply
  <2>2. QED
    BY <1>3, <2>1 DEF TypeOK, Apply, SegmenterTyped
<1>4. ASSUME NEW s \in Segmenter, Number(s) PROVE TypeOK'
  <2>1. [part[s] EXCEPT !.sequence = nextSequence] \in Part
    BY DEF TypeOK, Part
  <2>2. part' \in [Segmenter -> Part] /\ nextSequence' \in Nat
    BY <1>4, <2>1 DEF TypeOK, Number, Part
  <2>3. QED
    BY <1>4, <2>2 DEF TypeOK, Number, Become, Phase, segmenter, Part
<1>5. ASSUME NEW s \in Segmenter, BuildFails(s) PROVE TypeOK'
  <2>1. SegmenterTyped' /\ part' = part /\ after' = after
    BY <1>5, ConcludedType DEF BuildFails
  <2>2. QED
    BY <1>5, <2>1 DEF TypeOK, BuildFails, SegmenterTyped
<1>6. ASSUME NEW s \in Segmenter, SendInit(s) PROVE TypeOK'
  <2>1. part[s].lane \in 1 .. Len(Lanes) /\ part[s].config \in Config
    BY <1>6 DEF TypeOK, PartsTyped, SendInit, Publishing
  <2>2. InitOf(s) \in InitObject
    BY <2>1, LanesFacts DEF InitOf, InitObject
  <2>3. sentInit' \subseteq InitObject
    BY <1>6, <2>2 DEF TypeOK, SendInit
  <2>4. CASE NextLane(s, "indexKey") /\ UNCHANGED <<segmenter, after>>
    <3>1. phase' \in [Segmenter -> Phase] /\ part' \in [Segmenter -> Part]
      BY <2>4, NextLaneType DEF Phase
    <3>2. QED
      BY <1>6, <2>3, <2>4, <3>1 DEF TypeOK, SendInit, segmenter, Part
  <2>5. CASE Concluded(s, FALSE)
    <3>1. SegmenterTyped' /\ part' = part /\ after' = after
      BY <2>5, ConcludedType
    <3>2. QED
      BY <1>6, <2>3, <3>1 DEF TypeOK, SendInit, SegmenterTyped
  <2>6. QED
    BY <1>6, <2>4, <2>5 DEF SendInit
<1>7. ASSUME NEW s \in Segmenter, IndexKey(s) PROVE TypeOK'
  <2>1. [part[s] EXCEPT !.dependency = part[s].config] \in Part
    BY DEF TypeOK, Part
  <2>2. /\ part' = [part EXCEPT ![s] = [part[s] EXCEPT !.dependency = part[s].config]]
        /\ part[s].config \in Config
    BY <1>7 DEF IndexKey, PartsTyped, Publishing
  <2>3. part' \in [Segmenter -> Part]
    BY <2>1, <2>2, PartIsTyped
  <2>4. phase' \in [Segmenter -> Phase]
    BY <1>7 DEF TypeOK, IndexKey, Become, Phase
  <2>5. QED
    BY <1>7, <2>2, <2>3, <2>4 DEF TypeOK, IndexKey, segmenter, Part
<1>8. ASSUME NEW s \in Segmenter, IndexPayload(s) PROVE TypeOK'
  <2>1. [part[s] EXCEPT !.bundle = part[s].config] \in Part
    BY DEF TypeOK, Part
  <2>2. /\ part' = [part EXCEPT ![s] = [part[s] EXCEPT !.bundle = part[s].config]]
        /\ part[s].config \in Config
    BY <1>8 DEF IndexPayload, PartsTyped, Publishing
  <2>3. part' \in [Segmenter -> Part]
    BY <2>1, <2>2, PartIsTyped
  <2>4. phase' \in [Segmenter -> Phase]
    BY <1>8 DEF TypeOK, IndexPayload, Become, Phase
  <2>5. QED
    BY <1>8, <2>2, <2>3, <2>4 DEF TypeOK, IndexPayload, segmenter, Part
<1>9. ASSUME NEW s \in Segmenter, ReadKey(s) PROVE TypeOK'
  <2>1. CASE Concluded(s, FALSE)
    <3>1. SegmenterTyped' /\ part' = part /\ after' = after
      BY <2>1, ConcludedType
    <3>2. QED
      BY <1>9, <3>1 DEF TypeOK, ReadKey, SegmenterTyped
  <2>2. CASE /\ part' = [part EXCEPT ![s].dependency = initKey]
             /\ Become(s, "readPayload")
             /\ UNCHANGED <<segmenter, after>>
    <3>1. [part[s] EXCEPT !.dependency = initKey] \in Part
      BY DEF TypeOK, Part
    <3>2. part' \in [Segmenter -> Part]
      BY <2>2, <3>1 DEF TypeOK, Part
    <3>3. QED
      BY <1>9, <2>2, <3>2 DEF TypeOK, ReadKey, Become, Phase, segmenter, Part
  <2>3. QED
    BY <1>9, <2>1, <2>2 DEF ReadKey
<1>10. ASSUME NEW s \in Segmenter, ReadPayload(s) PROVE TypeOK'
  <2>1. CASE Concluded(s, FALSE)
    <3>1. SegmenterTyped' /\ part' = part /\ after' = after
      BY <2>1, ConcludedType
    <3>2. QED
      BY <1>10, <3>1 DEF TypeOK, ReadPayload, SegmenterTyped
  <2>2. CASE /\ part' = [part EXCEPT ![s].bundle = initPayload]
             /\ Become(s, "sendMedia")
             /\ UNCHANGED <<segmenter, after>>
    <3>1. [part[s] EXCEPT !.bundle = initPayload] \in Part
      BY DEF TypeOK, Part
    <3>2. part' \in [Segmenter -> Part]
      BY <2>2, <3>1 DEF TypeOK, Part
    <3>3. QED
      BY <1>10, <2>2, <3>2 DEF TypeOK, ReadPayload, Become, Phase, segmenter, Part
  <2>3. QED
    BY <1>10, <2>1, <2>2 DEF ReadPayload
<1>11. ASSUME NEW s \in Segmenter, SendMedia(s) PROVE TypeOK'
  <2>1. /\ part[s].lane \in 1 .. Len(Lanes) /\ part[s].sequence \in Nat
        /\ part[s].config \in Config /\ part[s].dependency \in Config
        /\ part[s].bundle \in Config
    BY <1>11 DEF TypeOK, PartsTyped, SendMedia, Publishing, Depending
  <2>2. MediaOf(s) \in MediaObject
    BY <2>1, LanesFacts DEF MediaOf, MediaObject
  <2>3. sentMedia' \subseteq MediaObject
    BY <1>11, <2>2 DEF TypeOK, SendMedia
  <2>4. CASE NextLane(s, "settle") /\ UNCHANGED <<segmenter, after>>
    <3>1. phase' \in [Segmenter -> Phase] /\ part' \in [Segmenter -> Part]
      BY <2>4, NextLaneType DEF Phase
    <3>2. QED
      BY <1>11, <2>3, <2>4, <3>1 DEF TypeOK, SendMedia, segmenter, Part
  <2>5. CASE \E ok \in BOOLEAN : Concluded(s, ok)
    <3>1. SegmenterTyped' /\ part' = part /\ after' = after
      BY <2>5, ConcludedType
    <3>2. QED
      BY <1>11, <2>3, <3>1 DEF TypeOK, SendMedia, SegmenterTyped
  <2>6. QED
    BY <1>11, <2>4, <2>5 DEF SendMedia
<1>12. ASSUME NEW s \in Segmenter, Resume(s) PROVE TypeOK'
  <2>1. after[s] \in Event /\ "cut" \in Event
    BY <1>12 DEF TypeOK, Event
  <2>2. SegmenterTyped'
    BY <1>12, <2>1, SettleType DEF Resume
  <2>3. part' \in [Segmenter -> Part] /\ after' \in [Segmenter -> Event]
    BY <1>12, <2>1, NoPartType DEF TypeOK, Resume, Part
  <2>4. QED
    BY <1>12, <2>2, <2>3 DEF TypeOK, Resume, SegmenterTyped, Part
<1>13. CASE UNCHANGED vars
  BY <1>13 DEF TypeOK, vars, segmenter
<1>14. QED
  BY <1>1, <1>2, <1>3, <1>4, <1>5, <1>6, <1>7, <1>8, <1>9, <1>10, <1>11, <1>12,
     <1>13 DEF Next, Publish

-----------------------------------------------------------------------------
\* One segmenter acts at a time.

Acts(s) ==
  \/ Start(s)
  \/ \E event \in Event : Package(s, event) \/ Apply(s, event)
  \/ Publish(s)
  \/ Resume(s)

LEMMA NextActs == Next <=> \E s \in Segmenter : Acts(s)
BY DEF Next, Acts

\* The end of a publication, whatever its outcome.
LEMMA ConcludedFacts ==
  ASSUME TypeOK, NEW s \in Segmenter, NEW ok \in BOOLEAN, Concluded(s, ok)
  PROVE  /\ phase'[s] = "settle"
         /\ last'[s] = IF part[s].init /\ ok THEN part[s].config ELSE last[s]
         /\ force'[s] = IF part[s].init THEN ~ok ELSE force[s]
         /\ \A q \in Segmenter \ {s} : /\ phase'[q] = phase[q]
                                       /\ last'[q] = last[q] /\ force'[q] = force[q]
         /\ config' = config /\ part' = part
BY DEF TypeOK, Concluded, Become

LEMMA SettleFacts ==
  ASSUME TypeOK, NEW s \in Segmenter, NEW event \in Event, Settle(s, event)
  PROVE  /\ phase'[s] \in {"idle", "ended"}
         /\ force'[s] \/ (force'[s] = force[s] /\ last'[s] = last[s])
         /\ \A q \in Segmenter \ {s} : /\ phase'[q] = phase[q]
                                       /\ last'[q] = last[q] /\ force'[q] = force[q]
BY DEF TypeOK, Settle, Become, segmenter

\* The part of the lane an object goes to next, or of the first lane again.
LEMMA NextLaneFacts ==
  ASSUME TypeOK, NEW s \in Segmenter, NEW next \in Phase, NextLane(s, next)
  PROVE  /\ \/ /\ part[s].lane < Len(Lanes)
               /\ part'[s] = [part[s] EXCEPT !.lane = part[s].lane + 1]
               /\ phase'[s] = phase[s]
            \/ /\ part[s].lane = Len(Lanes)
               /\ part'[s] = [part[s] EXCEPT !.lane = 1]
               /\ phase'[s] = next
         /\ \A q \in Segmenter \ {s} : phase'[q] = phase[q] /\ part'[q] = part[q]
<1>1. part[s].lane \in 1 .. Len(Lanes) /\ Len(Lanes) \in Nat
  BY LanesFacts DEF TypeOK
<1>2. CASE part[s].lane < Len(Lanes)
  BY <1>2 DEF TypeOK, NextLane
<1>3. CASE ~(part[s].lane < Len(Lanes))
  BY <1>1, <1>3 DEF TypeOK, NextLane, Become
<1>4. QED
  BY <1>2, <1>3

\* Of the part, a lane more or the first again changes nothing else.
LEMMA NextLaneKeeps ==
  ASSUME TypeOK, NEW s \in Segmenter, NEW next \in Phase, NextLane(s, next)
  PROVE  /\ part'[s].config = part[s].config
         /\ part'[s].dependency = part[s].dependency
         /\ part'[s].bundle = part[s].bundle
         /\ \/ phase'[s] = phase[s]
            \/ phase'[s] = next /\ part'[s].lane = 1
<1>1. PICK r \in Part : r = part[s]
  BY PartIsTyped
<1>2. CASE /\ part'[s] = [part[s] EXCEPT !.lane = part[s].lane + 1]
           /\ phase'[s] = phase[s]
  <2>1. part'[s] = [r EXCEPT !.lane = r.lane + 1]
    BY <1>1, <1>2
  <2>2. part'[s].config = r.config /\ part'[s].dependency = r.dependency
        /\ part'[s].bundle = r.bundle
    BY <2>1 DEF Part
  <2>3. QED
    BY <1>1, <1>2, <2>2
<1>3. CASE /\ part'[s] = [part[s] EXCEPT !.lane = 1]
           /\ phase'[s] = next
  <2>1. part'[s] = [r EXCEPT !.lane = 1]
    BY <1>1, <1>3
  <2>2. part'[s].config = r.config /\ part'[s].dependency = r.dependency
        /\ part'[s].bundle = r.bundle /\ part'[s].lane = 1
    BY <2>1 DEF Part
  <2>3. QED
    BY <1>1, <1>3, <2>2
<1>4. QED
  BY <1>2, <1>3, NextLaneFacts

\* What a segmenter does leaves what the others are doing alone.
Same(q) ==
  /\ phase'[q] = phase[q] /\ part'[q] = part[q]
  /\ last'[q] = last[q] /\ force'[q] = force[q]

LEMMA OthersStay ==
  ASSUME TypeOK, NEW s \in Segmenter, Acts(s), NEW q \in Segmenter, q # s
  PROVE  Same(q)
<1> USE DEF Same
<1>1. CASE Start(s)
  BY <1>1 DEF TypeOK, Start, Become, segmenter
<1>2. ASSUME NEW event \in Event, Package(s, event) PROVE Same(q)
  BY <1>2 DEF TypeOK, Package, Become, segmenter
<1>3. ASSUME NEW event \in Event, Apply(s, event) PROVE Same(q)
  BY <1>3, SettleFacts DEF Apply
<1>4. CASE Number(s)
  BY <1>4 DEF TypeOK, Number, Become, segmenter
<1>5. CASE BuildFails(s)
  BY <1>5, ConcludedFacts DEF BuildFails
<1>6. CASE SendInit(s)
  BY <1>6, ConcludedFacts, NextLaneFacts DEF SendInit, segmenter, Phase
<1>7. CASE IndexKey(s)
  BY <1>7 DEF TypeOK, IndexKey, Become, segmenter
<1>8. CASE IndexPayload(s)
  BY <1>8 DEF TypeOK, IndexPayload, Become, segmenter
<1>9. CASE ReadKey(s)
  BY <1>9, ConcludedFacts DEF TypeOK, ReadKey, Become, segmenter
<1>10. CASE ReadPayload(s)
  BY <1>10, ConcludedFacts DEF TypeOK, ReadPayload, Become, segmenter
<1>11. CASE SendMedia(s)
  BY <1>11, ConcludedFacts, NextLaneFacts DEF SendMedia, segmenter, Phase
<1>12. CASE Resume(s)
  <2>1. after[s] \in Event
    BY DEF TypeOK
  <2>2. part'[q] = part[q]
    BY <1>12 DEF TypeOK, Resume
  <2>3. QED
    BY <1>12, <2>1, <2>2, SettleFacts DEF Resume
<1>13. QED
  BY <1>1, <1>2, <1>3, <1>4, <1>5, <1>6, <1>7, <1>8, <1>9, <1>10, <1>11, <1>12
     DEF Acts, Publish

LEMMA PartsTypedStep ==
  ASSUME TypeInv, [Next]_vars
  PROVE  PartsTyped'
<1> USE DEF TypeInv, Publishing, Depending
<1> DEFINE Typed(s) ==
      /\ phase[s] \in Publishing => part[s].config \in Config
      /\ phase[s] \in Publishing \ {"sendInit", "sendMedia"} => part[s].lane = 1
      /\ phase[s] \in Depending => part[s].dependency \in Config
      /\ phase[s] = "sendMedia" => part[s].bundle \in Config
<1>a. \A s \in Segmenter : Typed(s)
  BY DEF PartsTyped
<1>b. \A s \in Segmenter : part[s] \in Part
  BY DEF TypeOK, Part
<1>1. ASSUME NEW s \in Segmenter, Acts(s) PROVE Typed(s)'
  <2> USE <1>a, <1>b
  <2>1. CASE Start(s)
    BY <2>1 DEF TypeOK, Start, Become
  <2>2. ASSUME NEW event \in Event, Package(s, event) PROVE Typed(s)'
    <3>1. /\ phase'[s] = "number" /\ config[s] \in Config
          /\ part'[s] = [NoPart EXCEPT !.config = config[s], !.init = IncludesInit(s)]
      BY <2>2 DEF TypeOK, Package, Become
    <3>2. part'[s].config = config[s] /\ part'[s].lane = 1
      BY <3>1 DEF NoPart
    <3>3. QED
      BY <3>1, <3>2
  <2>3. ASSUME NEW event \in Event, Apply(s, event) PROVE Typed(s)'
    <3>1. phase'[s] \in {"idle", "ended"}
      BY <2>3, SettleFacts DEF Apply
    <3>2. QED
      BY <3>1
  <2>4. CASE Number(s)
    <3>1. /\ phase'[s] \in {"sendInit", "readKey"}
          /\ part'[s] = [part[s] EXCEPT !.sequence = nextSequence]
      BY <2>4 DEF TypeOK, Number, Become
    <3>2. part'[s].config = part[s].config /\ part'[s].lane = part[s].lane
      BY <3>1 DEF Part
    <3>3. QED
      BY <2>4, <3>1, <3>2 DEF Number
  <2>5. CASE \E ok \in BOOLEAN : Concluded(s, ok)
    <3>1. phase'[s] = "settle"
      BY <2>5, ConcludedFacts
    <3>2. QED
      BY <3>1
  <2>6. CASE BuildFails(s)
    BY <2>5, <2>6 DEF BuildFails
  <2>7. CASE SendInit(s) /\ NextLane(s, "indexKey")
    <3>1. /\ part'[s].config = part[s].config
          /\ \/ phase'[s] = "sendInit"
             \/ phase'[s] = "indexKey" /\ part'[s].lane = 1
      <4>1. "indexKey" \in Phase /\ phase[s] = "sendInit"
        BY <2>7 DEF SendInit, Phase
      <4>2. QED
        BY <2>7, <4>1, NextLaneKeeps
    <3>2. QED
      BY <2>7, <3>1 DEF SendInit
  <2>8. CASE IndexKey(s)
    <3>1. /\ phase'[s] = "indexPayload"
          /\ part'[s] = [part[s] EXCEPT !.dependency = part[s].config]
      BY <2>8 DEF TypeOK, IndexKey, Become
    <3>2. /\ part'[s].config = part[s].config /\ part'[s].lane = part[s].lane
          /\ part'[s].dependency = part[s].config
      BY <3>1 DEF Part
    <3>3. QED
      BY <2>8, <3>1, <3>2 DEF IndexKey
  <2>9. CASE IndexPayload(s)
    <3>1. /\ phase'[s] = "sendMedia"
          /\ part'[s] = [part[s] EXCEPT !.bundle = part[s].config]
      BY <2>9 DEF TypeOK, IndexPayload, Become
    <3>2. /\ part'[s].config = part[s].config /\ part'[s].bundle = part[s].config
          /\ part'[s].dependency = part[s].dependency
      BY <3>1 DEF Part
    <3>3. QED
      BY <2>9, <3>1, <3>2 DEF IndexPayload
  <2>10. CASE ReadKey(s) /\ ~Concluded(s, FALSE)
    <3>1. /\ phase'[s] = "readPayload" /\ initKey # None
          /\ part'[s] = [part[s] EXCEPT !.dependency = initKey]
      BY <2>10 DEF TypeOK, ReadKey, Become
    <3>2. /\ part'[s].config = part[s].config /\ part'[s].lane = part[s].lane
          /\ part'[s].dependency = initKey
      BY <3>1 DEF Part
    <3>3. QED
      BY <2>10, <3>1, <3>2 DEF ReadKey, TypeOK
  <2>11. CASE ReadPayload(s) /\ ~Concluded(s, FALSE)
    <3>1. /\ phase'[s] = "sendMedia" /\ initPayload # None
          /\ part'[s] = [part[s] EXCEPT !.bundle = initPayload]
      BY <2>11 DEF TypeOK, ReadPayload, Become
    <3>2. /\ part'[s].config = part[s].config /\ part'[s].bundle = initPayload
          /\ part'[s].dependency = part[s].dependency
      BY <3>1 DEF Part
    <3>3. QED
      BY <2>11, <3>1, <3>2 DEF ReadPayload, TypeOK
  <2>12. CASE SendMedia(s) /\ NextLane(s, "settle")
    <3>1. /\ part'[s].config = part[s].config /\ part'[s].bundle = part[s].bundle
          /\ part'[s].dependency = part[s].dependency
          /\ phase'[s] \in {"sendMedia", "settle"}
      <4>1. "settle" \in Phase /\ phase[s] = "sendMedia"
        BY <2>12 DEF SendMedia, Phase
      <4>2. QED
        BY <2>12, <4>1, NextLaneKeeps
    <3>2. QED
      BY <2>12, <3>1 DEF SendMedia
  <2>13. CASE Resume(s)
    <3>1. phase'[s] \in {"idle", "ended"}
      BY <2>13, SettleFacts DEF Resume, TypeOK
    <3>2. QED
      BY <3>1
  <2>14. QED
    BY <1>1, <2>1, <2>2, <2>3, <2>4, <2>5, <2>6, <2>7, <2>8, <2>9, <2>10, <2>11,
       <2>12, <2>13 DEF Acts, Publish, SendInit, SendMedia, ReadKey, ReadPayload
<1>2. ASSUME NEW s \in Segmenter, Acts(s) PROVE PartsTyped'
  <2>1. ASSUME NEW q \in Segmenter PROVE Typed(q)'
    BY <1>1, <1>2, <1>a, OthersStay DEF Same
  <2>2. QED
    BY <2>1 DEF PartsTyped
<1>3. CASE UNCHANGED vars
  BY <1>3 DEF PartsTyped, vars
<1>4. QED
  BY <1>2, <1>3, NextActs

LEMMA TypeInvariance == Spec => []TypeInv
<1>1. Init => TypeInv
  <2>1. "idle" \in Phase /\ "off" \in Phase /\ "cut" \in Event
    BY DEF Phase, Event
  <2>2. ASSUME Init PROVE TypeOK
    <3>1. part \in [Segmenter -> Part]
      BY <2>2, NoPartType DEF Init
    <3>2. /\ phase \in [Segmenter -> Phase] /\ after \in [Segmenter -> Event]
          /\ config \in [Segmenter -> Config \cup {None}]
          /\ last \in [Segmenter -> Config \cup {None}]
          /\ force \in [Segmenter -> BOOLEAN]
      BY <2>1, <2>2 DEF Init
    <3>3. QED
      BY <2>2, <3>1, <3>2 DEF Init, TypeOK, Part
  <2>3. Init => PartsTyped
    BY DEF Init, PartsTyped, Publishing, Depending
  <2>4. QED
    BY <2>2, <2>3 DEF TypeInv
<1>2. TypeInv /\ [Next]_vars => TypeInv'
  BY TypeStep, PartsTypedStep DEF TypeInv
<1>3. QED
  BY <1>1, <1>2, PTL DEF Spec

\* Every table, every object sent and every part has its type, whatever fails:
\* no object is sent for a configuration, a dependency or a bundle that is none.
THEOREM TypeCorrect == Spec => []TypeOK
<1>1. TypeInv => TypeOK
  BY DEF TypeInv
<1>2. QED
  BY <1>1, TypeInvariance, PTL

-----------------------------------------------------------------------------
\* The inductive invariant of the sequences: a number is given to one part, and
\* what was sent under the number of a part under way is that part's.

Below == \A m \in sentMedia : m.sequence < nextSequence

PartsBelow ==
  \A s \in Segmenter : phase[s] \in Numbered => part[s].sequence < nextSequence

PartsApart ==
  \A s, q \in Segmenter :
    phase[s] \in Numbered /\ phase[q] \in Numbered /\ s # q =>
      part[s].sequence # part[q].sequence

SentByOwner ==
  \A m \in sentMedia, s \in Segmenter :
    phase[s] \in Numbered /\ m.sequence = part[s].sequence =>
      phase[s] = "sendMedia" /\ m = [MediaOf(s) EXCEPT !.lane = m.lane]

SequenceInv == Below /\ PartsBelow /\ PartsApart /\ SentByOwner /\ SequenceNamesOnePart

-----------------------------------------------------------------------------
\* What one step does to the numbers and to the media sent.

LEMMA NumbersStep ==
  ASSUME TypeInv, NEW s \in Segmenter, Acts(s)
  PROVE  \/ /\ phase[s] = "number"
            /\ nextSequence' = nextSequence + 1
            /\ part'[s].sequence = nextSequence
            /\ phase'[s] \in {"sendInit", "readKey"}
            /\ sentMedia' = sentMedia
         \/ /\ nextSequence' = nextSequence
            /\ phase'[s] \in Numbered =>
                 phase[s] \in Numbered /\ part'[s].sequence = part[s].sequence
<1> USE DEF TypeInv, Numbered, Publishing, shared
<1> DEFINE Kept == /\ nextSequence' = nextSequence
                   /\ phase'[s] \in Numbered =>
                        phase[s] \in Numbered /\ part'[s].sequence = part[s].sequence
<1>a. part[s] \in Part
  BY DEF TypeOK, Part
<1>1. CASE Start(s)
  BY <1>1 DEF TypeOK, Start, Become
<1>2. ASSUME NEW event \in Event, Package(s, event) PROVE Kept
  BY <1>2 DEF TypeOK, Package, Become
<1>3. ASSUME NEW event \in Event, Apply(s, event) PROVE Kept
  BY <1>3, SettleFacts DEF Apply
<1>4. CASE Number(s)
  <2>1. part'[s] = [part[s] EXCEPT !.sequence = nextSequence]
    BY <1>4 DEF TypeOK, Number
  <2>2. part'[s].sequence = nextSequence
    BY <1>a, <2>1 DEF Part
  <2>3. QED
    BY <1>4, <2>2 DEF TypeOK, Number, Become
<1>5. CASE (\E ok \in BOOLEAN : Concluded(s, ok)) /\ nextSequence' = nextSequence
  BY <1>5, ConcludedFacts
<1>6. CASE BuildFails(s)
  BY <1>5, <1>6 DEF BuildFails
<1>7. CASE SendInit(s) /\ NextLane(s, "indexKey")
  <2>1. part'[s].sequence = part[s].sequence
    BY <1>a, <1>7, NextLaneFacts DEF Part, Phase
  <2>2. QED
    BY <1>7, <2>1 DEF SendInit
<1>8. CASE IndexKey(s)
  <2>1. part'[s] = [part[s] EXCEPT !.dependency = part[s].config]
    BY <1>8 DEF TypeOK, IndexKey
  <2>2. part'[s].sequence = part[s].sequence
    BY <1>a, <2>1 DEF Part
  <2>3. QED
    BY <1>8, <2>2 DEF IndexKey
<1>9. CASE IndexPayload(s)
  <2>1. part'[s] = [part[s] EXCEPT !.bundle = part[s].config]
    BY <1>9 DEF TypeOK, IndexPayload
  <2>2. part'[s].sequence = part[s].sequence
    BY <1>a, <2>1 DEF Part
  <2>3. QED
    BY <1>9, <2>2 DEF IndexPayload
<1>10. CASE ReadKey(s) /\ ~Concluded(s, FALSE)
  <2>1. part'[s] = [part[s] EXCEPT !.dependency = initKey]
    BY <1>10 DEF TypeOK, ReadKey
  <2>2. part'[s].sequence = part[s].sequence
    BY <1>a, <2>1 DEF Part
  <2>3. QED
    BY <1>10, <2>2 DEF ReadKey
<1>11. CASE ReadPayload(s) /\ ~Concluded(s, FALSE)
  <2>1. part'[s] = [part[s] EXCEPT !.bundle = initPayload]
    BY <1>11 DEF TypeOK, ReadPayload
  <2>2. part'[s].sequence = part[s].sequence
    BY <1>a, <2>1 DEF Part
  <2>3. QED
    BY <1>11, <2>2 DEF ReadPayload
<1>12. CASE SendMedia(s) /\ NextLane(s, "settle")
  <2>1. part'[s].sequence = part[s].sequence
    BY <1>a, <1>12, NextLaneFacts DEF Part, Phase
  <2>2. QED
    BY <1>12, <2>1 DEF SendMedia
<1>13. CASE Resume(s)
  BY <1>13, SettleFacts DEF Resume, TypeOK
<1>14. QED
  BY <1>1, <1>2, <1>3, <1>4, <1>5, <1>6, <1>7, <1>8, <1>9, <1>10, <1>11, <1>12,
     <1>13 DEF Acts, Publish, SendInit, SendMedia, ReadKey, ReadPayload

\* Media is sent by SendMedia alone, one object at a time, and a part whose media
\* is being sent goes on being sent or is over.
LEMMA MediaStep ==
  ASSUME TypeInv, NEW s \in Segmenter, Acts(s)
  PROVE  /\ sentMedia \subseteq sentMedia'
         /\ sentMedia' # sentMedia => phase[s] = "sendMedia"
         /\ sentMedia' \subseteq sentMedia \cup {MediaOf(s)}
         /\ phase[s] = "sendMedia" =>
              \/ phase'[s] = "settle"
              \/ /\ phase'[s] = "sendMedia"
                 /\ part'[s] = [part[s] EXCEPT !.lane = part[s].lane + 1]
<1> USE DEF TypeInv, shared
<1>1. CASE SendMedia(s)
  <2>1. /\ phase[s] = "sendMedia" /\ sentMedia \subseteq sentMedia'
        /\ sentMedia' \subseteq sentMedia \cup {MediaOf(s)}
    BY <1>1 DEF SendMedia
  <2>2. CASE NextLane(s, "settle")
    BY <2>1, <2>2, NextLaneFacts DEF Phase
  <2>3. CASE \E ok \in BOOLEAN : Concluded(s, ok)
    BY <2>1, <2>3, ConcludedFacts
  <2>4. QED
    BY <1>1, <2>2, <2>3 DEF SendMedia
<1>2. CASE BuildFails(s)
  BY <1>2, ConcludedFacts DEF BuildFails
<1>3. CASE phase[s] # "sendMedia" /\ sentMedia' = sentMedia
  BY <1>3
<1>4. QED
  BY <1>1, <1>2, <1>3 DEF Acts, Publish, Start, Package, Apply, Number, SendInit,
     IndexKey, IndexPayload, ReadKey, ReadPayload, Resume

\* Two objects are of one part when they differ in their lanes at most.
SamePart(m, n) ==
  /\ m.sequence = n.sequence /\ m.source = n.source /\ m.config = n.config
  /\ m.dependency = n.dependency /\ m.bundle = n.bundle

LEMMA SamePartIsUpToLane ==
  ASSUME NEW m \in MediaObject, NEW n \in MediaObject
  PROVE  /\ [m EXCEPT !.lane = n.lane] = n <=> SamePart(m, n)
         /\ m = [n EXCEPT !.lane = m.lane] <=> SamePart(m, n)
BY DEF MediaObject, SamePart

LEMMA MediaOfType ==
  ASSUME TypeInv, NEW s \in Segmenter, phase[s] = "sendMedia"
  PROVE  MediaOf(s) \in MediaObject
<1>1. /\ part[s].lane \in 1 .. Len(Lanes) /\ part[s].sequence \in Nat
      /\ part[s].config \in Config /\ part[s].dependency \in Config
      /\ part[s].bundle \in Config
  BY DEF TypeInv, TypeOK, PartsTyped, Publishing, Depending
<1>2. QED
  BY <1>1, LanesFacts DEF MediaOf, MediaObject

LEMMA SequenceStep ==
  ASSUME TypeInv, SequenceInv, [Next]_vars
  PROVE  SequenceInv'
<1>a. nextSequence \in Nat /\ sentMedia \subseteq MediaObject
  BY DEF TypeInv, TypeOK
<1>b. \A m \in MediaObject : m.sequence \in Nat
  BY DEF MediaObject
<1>c. \A s \in Segmenter : part[s] \in Part /\ part[s].sequence \in Nat
  BY DEF TypeInv, TypeOK, Part
<1>1. ASSUME NEW s \in Segmenter, Acts(s) PROVE SequenceInv'
  <2>a. \A q \in Segmenter \ {s} : phase'[q] = phase[q] /\ part'[q] = part[q]
    BY <1>1, OthersStay DEF TypeInv, Same
  <2>b. \A m \in sentMedia' :
           m \in sentMedia \/ (phase[s] = "sendMedia" /\ m = MediaOf(s))
    BY <1>1, MediaStep
  <2>c. MediaOf(s).sequence = part[s].sequence
    BY DEF MediaOf
  <2>1. Below'
    <3>1. phase[s] = "sendMedia" => part[s].sequence < nextSequence
      BY DEF SequenceInv, PartsBelow, Numbered, Publishing
    <3>2. nextSequence' = nextSequence \/ nextSequence' = nextSequence + 1
      BY <1>1, NumbersStep
    <3>3. QED
      BY <1>a, <1>b, <1>c, <2>b, <2>c, <3>1, <3>2 DEF SequenceInv, Below
  <2>2. PartsBelow'
    <3>1. ASSUME NEW q \in Segmenter, phase'[q] \in Numbered
          PROVE  part'[q].sequence < nextSequence'
      BY <1>1, <1>a, <1>c, <2>a, <3>1, NumbersStep DEF SequenceInv, PartsBelow
    <3>2. QED
      BY <3>1 DEF PartsBelow
  <2>3. PartsApart'
    <3>1. ASSUME NEW q \in Segmenter \ {s}, phase'[q] \in Numbered, phase'[s] \in Numbered
          PROVE  part'[q].sequence # part'[s].sequence
      <4>1. phase[q] \in Numbered /\ part'[q].sequence = part[q].sequence
        BY <2>a, <3>1
      <4>2. part[q].sequence < nextSequence
        BY <4>1 DEF SequenceInv, PartsBelow
      <4>3. CASE part'[s].sequence = nextSequence
        BY <1>a, <1>c, <4>1, <4>2, <4>3
      <4>4. CASE phase[s] \in Numbered /\ part'[s].sequence = part[s].sequence
        BY <4>1, <4>4 DEF SequenceInv, PartsApart
      <4>5. QED
        BY <1>1, <3>1, <4>3, <4>4, NumbersStep
    <3>2. QED
      BY <2>a, <3>1 DEF SequenceInv, PartsApart
  <2>4. SentByOwner'
    <3> SUFFICES ASSUME NEW m \in sentMedia', NEW q \in Segmenter,
                        phase'[q] \in Numbered, m.sequence = part'[q].sequence
                 PROVE  phase'[q] = "sendMedia" /\ m = [MediaOf(q) EXCEPT !.lane = m.lane]'
      BY DEF SentByOwner
    <3>1. CASE q # s
      <4>1. phase[q] \in Numbered /\ m.sequence = part[q].sequence
        BY <2>a, <3>1
      <4>2. MediaOf(q)' = MediaOf(q)
        BY <2>a, <3>1 DEF MediaOf
      <4>3. m \in sentMedia
        <5>1. ~(phase[s] = "sendMedia" /\ m = MediaOf(s))
          BY <2>c, <3>1, <4>1 DEF SequenceInv, PartsApart, Numbered, Publishing
        <5>2. QED
          BY <2>b, <5>1
      <4>4. phase[q] = "sendMedia" /\ m = [MediaOf(q) EXCEPT !.lane = m.lane]
        BY <4>1, <4>3 DEF SequenceInv, SentByOwner
      <4>5. QED
        BY <2>a, <3>1, <4>2, <4>4
    <3>2. CASE q = s
      <4>1. phase[s] \in Numbered /\ part'[s].sequence = part[s].sequence
        <5>1. CASE part'[s].sequence = nextSequence /\ phase[s] = "number"
          <6>1. m \in sentMedia
            BY <2>b, <5>1
          <6>2. m.sequence < nextSequence
            BY <6>1 DEF SequenceInv, Below
          <6>3. QED
            BY <1>a, <1>b, <3>2, <5>1, <6>1, <6>2
        <5>2. QED
          BY <1>1, <3>2, <5>1, NumbersStep
      <4>2. phase[s] = "sendMedia"
        BY <2>b, <3>2, <4>1 DEF SequenceInv, SentByOwner
      <4>3. /\ phase'[s] = "sendMedia"
            /\ part'[s] = [part[s] EXCEPT !.lane = part[s].lane + 1]
        BY <1>1, <3>2, <4>2, MediaStep DEF Numbered, Publishing
      <4>4. MediaOf(s) \in MediaObject
        BY <4>2, MediaOfType
      <4>5. m \in MediaObject /\ SamePart(m, MediaOf(s))
        <5>1. CASE m = MediaOf(s)
          BY <4>4, <5>1 DEF SamePart
        <5>2. CASE m \in sentMedia
          <6>1. m = [MediaOf(s) EXCEPT !.lane = m.lane]
            BY <3>2, <4>1, <5>2 DEF SequenceInv, SentByOwner
          <6>2. QED
            BY <1>a, <4>4, <5>2, <6>1, SamePartIsUpToLane
        <5>3. QED
          BY <2>b, <5>1, <5>2
      <4>6. /\ part'[s].sequence = part[s].sequence /\ part'[s].config = part[s].config
            /\ part'[s].dependency = part[s].dependency /\ part'[s].bundle = part[s].bundle
        BY <1>c, <4>3 DEF Part
      <4>7. MediaOf(s)' = [MediaOf(s) EXCEPT !.lane = Lanes[part'[s].lane]]
        BY <4>6 DEF MediaOf
      <4>8. [MediaOf(s)' EXCEPT !.lane = m.lane] = [MediaOf(s) EXCEPT !.lane = m.lane]
        BY <4>6 DEF MediaOf
      <4>9. m = [MediaOf(s) EXCEPT !.lane = m.lane]
        BY <4>4, <4>5, SamePartIsUpToLane
      <4>10. QED
        BY <3>2, <4>3, <4>8, <4>9
    <3>3. QED
      BY <3>1, <3>2
  <2>5. SequenceNamesOnePart'
    <3> SUFFICES ASSUME NEW m \in sentMedia', NEW n \in sentMedia',
                        m.sequence = n.sequence
                 PROVE  [m EXCEPT !.lane = n.lane] = n
      BY DEF SequenceNamesOnePart
    <3>1. m \in MediaObject /\ n \in MediaObject
      BY <1>a, <2>b, MediaOfType
    <3>2. ASSUME NEW a \in sentMedia, phase[s] = "sendMedia",
                 a.sequence = MediaOf(s).sequence
          PROVE  SamePart(a, MediaOf(s))
      <4>1. a = [MediaOf(s) EXCEPT !.lane = a.lane]
        BY <2>c, <3>2 DEF SequenceInv, SentByOwner, Numbered, Publishing
      <4>2. QED
        BY <1>a, <3>2, <4>1, MediaOfType, SamePartIsUpToLane
    <3>3. SamePart(m, n)
      <4>1. CASE m \in sentMedia /\ n \in sentMedia
        <5>1. [m EXCEPT !.lane = n.lane] = n
          BY <4>1 DEF SequenceInv, SequenceNamesOnePart
        <5>2. QED
          BY <3>1, <5>1, SamePartIsUpToLane
      <4>2. QED
        BY <2>b, <3>2, <4>1 DEF SamePart
    <3>4. QED
      BY <3>1, <3>3, SamePartIsUpToLane
  <2>6. QED
    BY <2>1, <2>2, <2>3, <2>4, <2>5 DEF SequenceInv
<1>2. CASE UNCHANGED vars
  BY <1>2 DEF SequenceInv, Below, PartsBelow, PartsApart, SentByOwner,
     SequenceNamesOnePart, MediaOf, vars, shared
<1>3. QED
  BY <1>1, <1>2, NextActs

LEMMA SequenceInvariance == Spec => []SequenceInv
<1>1. Init => SequenceInv
  BY DEF Init, SequenceInv, Below, PartsBelow, PartsApart, SentByOwner,
     SequenceNamesOnePart, Numbered, Publishing
<1>2. TypeInv /\ SequenceInv /\ [Next]_vars => SequenceInv'
  BY SequenceStep
<1>3. QED
  BY <1>1, <1>2, TypeInvariance, PTL DEF Spec

\* No two parts of a stream are ever sent under one sequence, whatever tasks and
\* segmenters publish at once and whatever sends fail.
THEOREM OnePartPerSequence == Spec => []SequenceNamesOnePart
<1>1. SequenceInv => SequenceNamesOnePart
  BY DEF SequenceInv
<1>2. QED
  BY <1>1, SequenceInvariance, PTL

-----------------------------------------------------------------------------
\* The initialization that parts depend on: it was sent before them, it is the one
\* they were boxed for, and the bytes bundled with them are those of its key.

\* What a segmenter may do, as seen from its phase, the part it publishes, what
\* it remembers and the tables.

TablesStay == UNCHANGED <<initKey, initPayload, sentInit, overlapped>>
IndexesStay == UNCHANGED <<initKey, initPayload, overlapped>>
Remembers(s) == last'[s] = last[s] /\ force'[s] = force[s]
Carries(s) == part'[s].config = part[s].config /\ part'[s].init = part[s].init

Begins(s) ==
  /\ phase[s] = "off" /\ phase'[s] = "idle"
  /\ TaskFree(s)
  /\ overlapped' = (overlapped \/ Live # {})
  /\ UNCHANGED <<initKey, initPayload, sentInit>>
  /\ Remembers(s)

Boxes(s) ==
  /\ phase[s] = "idle" /\ phase'[s] = "number"
  /\ TaskFree(s)
  /\ part'[s].config = config[s] /\ part'[s].init = IncludesInit(s)
  /\ Remembers(s) /\ TablesStay

Settles(s) ==
  /\ phase[s] \in {"idle", "settle"} /\ phase'[s] \in {"idle", "ended"}
  /\ force'[s] \/ Remembers(s)
  /\ TablesStay

Numbers(s) ==
  /\ phase[s] = "number"
  /\ phase'[s] = IF part[s].init THEN "sendInit" ELSE "readKey"
  /\ part'[s].lane = part[s].lane /\ Carries(s)
  /\ Remembers(s) /\ TablesStay

Concludes(s, ok) ==
  /\ phase[s] \in {"sendInit", "readKey", "readPayload", "sendMedia"}
  /\ phase'[s] = "settle"
  /\ ok => phase[s] = "sendMedia"
  /\ last'[s] = IF part[s].init /\ ok THEN part[s].config ELSE last[s]
  /\ force'[s] = IF part[s].init THEN ~ok ELSE force[s]
  /\ sentInit \subseteq sentInit' /\ IndexesStay

SendsInit(s) ==
  /\ phase[s] = "sendInit"
  /\ sentInit' = sentInit \cup {InitOf(s)}
  /\ \/ phase'[s] = "sendInit" /\ part'[s].lane = part[s].lane + 1
     \/ phase'[s] = "indexKey" /\ part[s].lane = Len(Lanes)
  /\ Carries(s) /\ Remembers(s) /\ IndexesStay

IndexesKey(s) ==
  /\ phase[s] = "indexKey" /\ phase'[s] = "indexPayload"
  /\ initKey' = part[s].config /\ part'[s].dependency = part[s].config
  /\ Carries(s) /\ Remembers(s)
  /\ UNCHANGED <<initPayload, sentInit, overlapped>>

IndexesPayload(s) ==
  /\ phase[s] = "indexPayload" /\ phase'[s] = "sendMedia"
  /\ initPayload' = part[s].config /\ part'[s].bundle = part[s].config
  /\ part'[s].dependency = part[s].dependency
  /\ Carries(s) /\ Remembers(s)
  /\ UNCHANGED <<initKey, sentInit, overlapped>>

ReadsKey(s) ==
  /\ phase[s] = "readKey" /\ phase'[s] = "readPayload"
  /\ initKey # None /\ part'[s].dependency = initKey
  /\ Carries(s) /\ Remembers(s) /\ TablesStay

ReadsPayload(s) ==
  /\ phase[s] = "readPayload" /\ phase'[s] = "sendMedia"
  /\ part'[s].bundle = initPayload
  /\ part'[s].dependency = part[s].dependency
  /\ Carries(s) /\ Remembers(s) /\ TablesStay

SendsOn(s) ==
  /\ phase[s] = "sendMedia" /\ phase'[s] = "sendMedia"
  /\ part'[s].dependency = part[s].dependency /\ part'[s].bundle = part[s].bundle
  /\ Carries(s) /\ Remembers(s) /\ TablesStay

Moves(s) ==
  \/ Begins(s) \/ Boxes(s) \/ Settles(s) \/ Numbers(s)
  \/ SendsInit(s) \/ IndexesKey(s) \/ IndexesPayload(s)
  \/ ReadsKey(s) \/ ReadsPayload(s) \/ SendsOn(s)
  \/ \E ok \in BOOLEAN : Concludes(s, ok)

LEMMA EveryMove ==
  ASSUME TypeInv, NEW s \in Segmenter, Acts(s)
  PROVE  Moves(s)
<1> USE DEF TypeInv, shared, Remembers, TablesStay, IndexesStay, Carries
<1>a. part[s] \in Part
  BY DEF TypeOK, Part
<1>1. CASE Start(s)
  <2>1. Begins(s)
    BY <1>1 DEF TypeOK, Start, Become, Begins, segmenter
  <2>2. QED
    BY <2>1 DEF Moves
<1>2. ASSUME NEW event \in Event, Package(s, event) PROVE Moves(s)
  <2>1. part'[s] = [NoPart EXCEPT !.config = config[s], !.init = IncludesInit(s)]
    BY <1>2 DEF TypeOK, Package
  <2>2. part'[s].config = config[s] /\ part'[s].init = IncludesInit(s)
    BY <2>1 DEF NoPart
  <2>3. Boxes(s)
    BY <1>2, <2>2 DEF TypeOK, Package, Become, Boxes, segmenter
  <2>4. QED
    BY <2>3 DEF Moves
<1>3. ASSUME NEW event \in Event, Apply(s, event) PROVE Moves(s)
  <2>1. Settles(s)
    BY <1>3, SettleFacts DEF Apply, Settles
  <2>2. QED
    BY <2>1 DEF Moves
<1>4. CASE Number(s)
  <2>1. part'[s] = [part[s] EXCEPT !.sequence = nextSequence]
    BY <1>4 DEF TypeOK, Number
  <2>2. part'[s].lane = part[s].lane /\ Carries(s)
    BY <1>a, <2>1 DEF Part
  <2>3. Numbers(s)
    BY <1>4, <2>2 DEF TypeOK, Number, Become, Numbers, segmenter
  <2>4. QED
    BY <2>3 DEF Moves
<1>5. CASE BuildFails(s)
  <2>1. Concludes(s, FALSE)
    BY <1>5, ConcludedFacts DEF BuildFails, Concludes, Numbered, Publishing
  <2>2. QED
    BY <2>1 DEF Moves
<1>6. CASE SendInit(s)
  <2>1. CASE Concluded(s, FALSE)
    <3>1. Concludes(s, FALSE)
      BY <1>6, <2>1, ConcludedFacts DEF SendInit, Concludes, Numbered, Publishing
    <3>2. QED
      BY <3>1 DEF Moves
  <2>2. CASE /\ sentInit' = sentInit \cup {InitOf(s)}
             /\ NextLane(s, "indexKey") /\ UNCHANGED segmenter
    <3>1. "indexKey" \in Phase
      BY DEF Phase
    <3>2. /\ \/ /\ part'[s] = [part[s] EXCEPT !.lane = part[s].lane + 1]
                /\ phase'[s] = phase[s]
             \/ /\ part[s].lane = Len(Lanes)
                /\ part'[s] = [part[s] EXCEPT !.lane = 1]
                /\ phase'[s] = "indexKey"
      BY <2>2, <3>1, NextLaneFacts
    <3>3. /\ \/ part'[s].lane = part[s].lane + 1 /\ phase'[s] = phase[s]
             \/ part[s].lane = Len(Lanes) /\ phase'[s] = "indexKey"
          /\ Carries(s)
      BY <1>a, <3>2 DEF Part
    <3>4. SendsInit(s)
      BY <1>6, <2>2, <3>3 DEF SendInit, SendsInit, segmenter
    <3>5. QED
      BY <3>4 DEF Moves
  <2>3. QED
    BY <1>6, <2>1, <2>2 DEF SendInit
<1>7. CASE IndexKey(s)
  <2>1. part'[s] = [part[s] EXCEPT !.dependency = part[s].config]
    BY <1>7 DEF TypeOK, IndexKey
  <2>2. part'[s].dependency = part[s].config /\ Carries(s)
    BY <1>a, <2>1 DEF Part
  <2>3. IndexesKey(s)
    BY <1>7, <2>2 DEF TypeOK, IndexKey, Become, IndexesKey, segmenter
  <2>4. QED
    BY <2>3 DEF Moves
<1>8. CASE IndexPayload(s)
  <2>1. part'[s] = [part[s] EXCEPT !.bundle = part[s].config]
    BY <1>8 DEF TypeOK, IndexPayload
  <2>2. /\ part'[s].bundle = part[s].config /\ Carries(s)
        /\ part'[s].dependency = part[s].dependency
    BY <1>a, <2>1 DEF Part
  <2>3. IndexesPayload(s)
    BY <1>8, <2>2 DEF TypeOK, IndexPayload, Become, IndexesPayload, segmenter
  <2>4. QED
    BY <2>3 DEF Moves
<1>9. CASE ReadKey(s)
  <2>1. CASE Concluded(s, FALSE)
    <3>1. Concludes(s, FALSE)
      BY <1>9, <2>1, ConcludedFacts DEF ReadKey, Concludes, Numbered, Publishing
    <3>2. QED
      BY <3>1 DEF Moves
  <2>2. CASE /\ initKey # None
             /\ part' = [part EXCEPT ![s].dependency = initKey]
             /\ Become(s, "readPayload") /\ UNCHANGED segmenter
    <3>1. part'[s] = [part[s] EXCEPT !.dependency = initKey]
      BY <2>2 DEF TypeOK
    <3>2. part'[s].dependency = initKey /\ Carries(s)
      BY <1>a, <3>1 DEF Part
    <3>3. ReadsKey(s)
      BY <1>9, <2>2, <3>2 DEF TypeOK, ReadKey, Become, ReadsKey, segmenter
    <3>4. QED
      BY <3>3 DEF Moves
  <2>3. QED
    BY <1>9, <2>1, <2>2 DEF ReadKey
<1>10. CASE ReadPayload(s)
  <2>1. CASE Concluded(s, FALSE)
    <3>1. Concludes(s, FALSE)
      BY <1>10, <2>1, ConcludedFacts
         DEF ReadPayload, Concludes, Numbered, Publishing
    <3>2. QED
      BY <3>1 DEF Moves
  <2>2. CASE /\ part' = [part EXCEPT ![s].bundle = initPayload]
             /\ Become(s, "sendMedia") /\ UNCHANGED segmenter
    <3>1. part'[s] = [part[s] EXCEPT !.bundle = initPayload]
      BY <2>2 DEF TypeOK
    <3>2. /\ part'[s].bundle = initPayload /\ Carries(s)
          /\ part'[s].dependency = part[s].dependency
      BY <1>a, <3>1 DEF Part
    <3>3. ReadsPayload(s)
      BY <1>10, <2>2, <3>2 DEF TypeOK, ReadPayload, Become, ReadsPayload, segmenter
    <3>4. QED
      BY <3>3 DEF Moves
  <2>3. QED
    BY <1>10, <2>1, <2>2 DEF ReadPayload
<1>11. CASE SendMedia(s)
  <2>1. CASE \E ok \in BOOLEAN : Concluded(s, ok)
    <3>1. PICK ok \in BOOLEAN : Concluded(s, ok)
      BY <2>1
    <3>2. Concludes(s, ok)
      BY <1>11, <3>1, ConcludedFacts DEF SendMedia, Concludes, Numbered, Publishing
    <3>3. QED
      BY <3>2 DEF Moves
  <2>2. CASE /\ part[s].lane < Len(Lanes)
             /\ NextLane(s, "settle") /\ UNCHANGED segmenter
    <3>1. /\ part'[s] = [part[s] EXCEPT !.lane = part[s].lane + 1]
          /\ phase'[s] = phase[s]
      BY <2>2 DEF TypeOK, NextLane
    <3>2. /\ Carries(s) /\ part'[s].dependency = part[s].dependency
          /\ part'[s].bundle = part[s].bundle
      BY <1>a, <3>1 DEF Part
    <3>3. SendsOn(s)
      BY <1>11, <2>2, <3>1, <3>2 DEF SendMedia, SendsOn, segmenter
    <3>4. QED
      BY <3>3 DEF Moves
  <2>3. QED
    BY <1>11, <2>1, <2>2 DEF SendMedia
<1>12. CASE Resume(s)
  <2>1. after[s] \in Event
    BY DEF TypeOK
  <2>2. Settles(s)
    BY <1>12, <2>1, SettleFacts DEF Resume, Settles
  <2>3. QED
    BY <2>2 DEF Moves
<1>13. QED
  BY <1>1, <1>2, <1>3, <1>4, <1>5, <1>6, <1>7, <1>8, <1>9, <1>10, <1>11, <1>12
     DEF Acts, Publish

-----------------------------------------------------------------------------
\* The inductive invariant of the dependencies: what is indexed, and what a part
\* under way depends on, was sent on every lane.

SentOn(sent, lane, c) == [lane |-> lane, config |-> c] \in sent
SentOnAll(sent, c) == \A lane \in Lane : SentOn(sent, lane, c)

KeySent == initKey # None => SentOnAll(sentInit, initKey)

InitsSent ==
  \A s \in Segmenter :
    /\ phase[s] = "sendInit" =>
         \A i \in 1 .. part[s].lane - 1 : SentOn(sentInit, Lanes[i], part[s].config)
    /\ phase[s] = "indexKey" => SentOnAll(sentInit, part[s].config)

PartDependenciesSent ==
  \A s \in Segmenter : phase[s] \in Depending => SentOnAll(sentInit, part[s].dependency)

DependencyInv == KeySent /\ InitsSent /\ PartDependenciesSent /\ DependencySentFirst

-----------------------------------------------------------------------------
\* The inductive invariant of segmenters that follow one another: what the one
\* alive remembers of the initialization it published last is what is indexed.

CarriesInit ==
  \A s \in Segmenter :
    /\ phase[s] \in {"sendInit", "indexKey", "indexPayload"} => part[s].init
    /\ phase[s] \in {"readKey", "readPayload"} => ~part[s].init

StartsAfresh == \A s \in Segmenter : phase[s] = "off" => force[s]

Alone == \A s, q \in Live : s = q

Indexed(s) == part[s].init /\ phase[s] \in {"indexPayload", "sendMedia"}

RemembersKey ==
  \A s \in Live :
    /\ ~force[s] => initKey = last[s] \/ Indexed(s)
    /\ Indexed(s) => initKey = part[s].config
    /\ phase[s] \in {"number", "readKey"} /\ ~part[s].init => initKey = part[s].config
    /\ phase[s] \in Depending => part[s].dependency = part[s].config

SuccessionInv ==
  /\ CarriesInit /\ StartsAfresh
  /\ ~overlapped => Alone /\ RemembersKey /\ OwnInitialization

-----------------------------------------------------------------------------
\* The inductive invariant of a stream that one task publishes: one publication
\* at a time, whose number is the last one given, and the two indexes agree
\* whenever no publication is between them.

OnlyTask == \A s, q \in Segmenter : TaskOf[s] = TaskOf[q]

Busy(s) == phase[s] \notin {"off", "idle", "ended"}

OneBusy == \A s, q \in Segmenter : Busy(s) /\ Busy(q) => s = q

IndexesAgree ==
  (\A s \in Segmenter : phase[s] # "indexPayload") => initPayload = initKey

NewestNumber ==
  \A s \in Segmenter : phase[s] \in Numbered => part[s].sequence + 1 = nextSequence

BundlesAgree ==
  \A s \in Segmenter :
    /\ phase[s] = "indexPayload" =>
         initKey = part[s].config /\ part[s].dependency = part[s].config
    /\ phase[s] = "readPayload" => part[s].dependency = initKey
    /\ phase[s] = "sendMedia" => part[s].bundle = part[s].dependency

OneTaskInv ==
  OneBusy /\ IndexesAgree /\ NewestNumber /\ BundlesAgree /\ BundleIsDependency

-----------------------------------------------------------------------------
LEMMA DependencyStep ==
  ASSUME TypeInv, DependencyInv, [Next]_vars
  PROVE  DependencyInv'
<1> USE DEF DependencyInv
<1>1. ASSUME NEW s \in Segmenter, Acts(s) PROVE DependencyInv'
  <2>a. \A q \in Segmenter \ {s} : phase'[q] = phase[q] /\ part'[q] = part[q]
    BY <1>1, OthersStay DEF TypeInv, Same
  <2>b. Moves(s)
    BY <1>1, EveryMove
  <2>c. sentInit \subseteq sentInit'
    BY <2>b DEF Moves, Begins, Boxes, Settles, Numbers, SendsInit, IndexesKey,
       IndexesPayload, ReadsKey, ReadsPayload, SendsOn, Concludes, TablesStay
  <2>d. \A c : SentOnAll(sentInit, c) => SentOnAll(sentInit', c)
    BY <2>c DEF SentOnAll, SentOn
  <2>e. part[s].lane \in 1 .. Len(Lanes)
    BY DEF TypeInv, TypeOK
  <2>1. KeySent'
    <3>1. CASE IndexesKey(s)
      <4>1. SentOnAll(sentInit', part[s].config) /\ initKey' = part[s].config
        BY <2>d, <3>1 DEF IndexesKey, InitsSent
      <4>2. QED
        BY <4>1 DEF KeySent, SentOnAll, SentOn
    <3>2. CASE initKey' = initKey
      BY <2>d, <3>2 DEF KeySent, SentOnAll, SentOn
    <3>3. QED
      BY <2>b, <3>1, <3>2 DEF Moves, Begins, Boxes, Settles, Numbers, SendsInit,
         IndexesPayload, ReadsKey, ReadsPayload, SendsOn, Concludes, TablesStay,
         IndexesStay
  <2>2. InitsSent'
    <3> DEFINE Sent(q) ==
          /\ phase[q] = "sendInit" =>
               \A i \in 1 .. part[q].lane - 1 : SentOn(sentInit, Lanes[i], part[q].config)
          /\ phase[q] = "indexKey" => SentOnAll(sentInit, part[q].config)
    <3>1. ASSUME NEW q \in Segmenter \ {s} PROVE Sent(q)'
      <4>1. Sent(q)
        BY DEF InitsSent
      <4>2. QED
        BY <2>a, <2>c, <4>1 DEF SentOnAll, SentOn
    <3>2. ASSUME SendsInit(s) PROVE Sent(s)'
      <4>1. \A i \in 1 .. part[s].lane : SentOn(sentInit', Lanes[i], part[s].config)
        <5>1. \A i \in 1 .. part[s].lane - 1 : SentOn(sentInit, Lanes[i], part[s].config)
          BY <3>2 DEF SendsInit, InitsSent
        <5>2. SentOn(sentInit', Lanes[part[s].lane], part[s].config)
          BY <3>2 DEF SendsInit, SentOn, InitOf
        <5>3. \A i \in 1 .. part[s].lane : i \in 1 .. part[s].lane - 1 \/ i = part[s].lane
          BY <2>e
        <5>4. QED
          BY <2>c, <5>1, <5>2, <5>3 DEF SentOn
      <4>2. CASE phase'[s] = "sendInit" /\ part'[s].lane = part[s].lane + 1
        BY <2>e, <3>2, <4>1, <4>2 DEF SendsInit, Carries, SentOn
      <4>3. CASE phase'[s] = "indexKey" /\ part[s].lane = Len(Lanes)
        <5>1. \A lane \in Lane : \E i \in 1 .. Len(Lanes) : lane = Lanes[i]
          BY LanesFacts DEF Lane
        <5>2. \A lane \in Lane : SentOn(sentInit', lane, part[s].config)
          BY <4>1, <4>3, <5>1 DEF SentOn
        <5>3. QED
          BY <3>2, <4>3, <5>2 DEF SendsInit, Carries, SentOnAll, SentOn
      <4>4. QED
        BY <3>2, <4>2, <4>3 DEF SendsInit
    <3>3. ASSUME Numbers(s) PROVE Sent(s)'
      <4>1. phase'[s] \in {"sendInit", "readKey"} /\ part'[s].lane = 1
        BY <3>3 DEF Numbers, TypeInv, PartsTyped, Publishing
      <4>2. QED
        BY <4>1
    <3>4. phase'[s] \notin {"sendInit", "indexKey"} => Sent(s)'
      OBVIOUS
    <3>5. Sent(s)'
      BY <2>b, <3>2, <3>3, <3>4 DEF Moves, Begins, Boxes, Settles, IndexesKey,
         IndexesPayload, ReadsKey, ReadsPayload, SendsOn, Concludes
    <3>6. QED
      BY <3>1, <3>5 DEF InitsSent
  <2>3. PartDependenciesSent'
    <3>1. ASSUME NEW q \in Segmenter, phase'[q] \in Depending
          PROVE  SentOnAll(sentInit, part'[q].dependency)
      <4>1. CASE q # s
        BY <2>a, <3>1, <4>1 DEF PartDependenciesSent
      <4>2. CASE q = s /\ IndexesKey(s)
        BY <4>2 DEF IndexesKey, InitsSent
      <4>3. CASE q = s /\ ReadsKey(s)
        BY <4>3 DEF ReadsKey, KeySent
      <4>4. CASE q = s /\ (IndexesPayload(s) \/ ReadsPayload(s) \/ SendsOn(s))
        BY <4>4 DEF IndexesPayload, ReadsPayload, SendsOn, PartDependenciesSent,
           Depending
      <4>5. QED
        BY <2>b, <3>1, <4>1, <4>2, <4>3, <4>4 DEF Moves, Begins, Boxes, Settles,
           Numbers, SendsInit, Concludes, Depending
    <3>2. QED
      BY <2>c, <3>1 DEF PartDependenciesSent, SentOnAll, SentOn
  <2>4. DependencySentFirst'
    <3>1. ASSUME NEW m \in sentMedia'
          PROVE  [lane |-> m.lane, config |-> m.dependency] \in sentInit
      <4>1. CASE m \in sentMedia
        BY <4>1 DEF DependencySentFirst
      <4>2. CASE phase[s] = "sendMedia" /\ m = MediaOf(s)
        <5>1. SentOnAll(sentInit, part[s].dependency)
          BY <4>2 DEF PartDependenciesSent, Depending
        <5>2. Lanes[part[s].lane] \in Lane
          BY <2>e, LanesFacts
        <5>3. QED
          BY <4>2, <5>1, <5>2 DEF SentOnAll, SentOn, MediaOf
      <4>3. QED
        BY <1>1, <4>1, <4>2, MediaStep
    <3>2. QED
      BY <2>c, <3>1 DEF DependencySentFirst
  <2>5. QED
    BY <2>1, <2>2, <2>3, <2>4
<1>2. CASE UNCHANGED vars
  BY <1>2 DEF KeySent, InitsSent, PartDependenciesSent, DependencySentFirst,
     SentOnAll, SentOn, vars, shared
<1>3. QED
  BY <1>1, <1>2, NextActs

\* No media object is handed to a lane before the initialization it depends on
\* was handed to that lane, whichever segmenter indexed it and whatever failed.
THEOREM InitializationFirst == Spec => []DependencySentFirst
<1>1. Init => DependencyInv
  BY DEF Init, DependencyInv, KeySent, InitsSent, PartDependenciesSent,
     DependencySentFirst, Depending
<1>2. TypeInv /\ DependencyInv /\ [Next]_vars => DependencyInv'
  BY DependencyStep
<1>3. DependencyInv => DependencySentFirst
  BY DEF DependencyInv
<1>4. QED
  BY <1>1, <1>2, <1>3, TypeInvariance, PTL DEF Spec

-----------------------------------------------------------------------------
LEMMA SuccessionStep ==
  ASSUME TypeInv, SuccessionInv, [Next]_vars
  PROVE  SuccessionInv'
<1>1. ASSUME NEW s \in Segmenter, Acts(s) PROVE SuccessionInv'
  <2>a. \A q \in Segmenter \ {s} : Same(q)
    BY <1>1, OthersStay DEF TypeInv
  <2>b. Moves(s)
    BY <1>1, EveryMove
  <2>1. CarriesInit'
    <3> DEFINE Carried(q) ==
          /\ phase[q] \in {"sendInit", "indexKey", "indexPayload"} => part[q].init
          /\ phase[q] \in {"readKey", "readPayload"} => ~part[q].init
    <3>1. \A q \in Segmenter : Carried(q)
      BY DEF SuccessionInv, CarriesInit
    <3>2. Carried(s)'
      BY <2>b, <3>1 DEF Moves, Begins, Boxes, Settles, Numbers, SendsInit,
         IndexesKey, IndexesPayload, ReadsKey, ReadsPayload, SendsOn, Concludes,
         Carries
    <3>3. \A q \in Segmenter \ {s} : Carried(q)'
      BY <2>a, <3>1 DEF Same
    <3>4. QED
      BY <3>2, <3>3 DEF CarriesInit
  <2>2. StartsAfresh'
    <3>1. phase'[s] # "off"
      BY <2>b DEF Moves, Begins, Boxes, Settles, Numbers, SendsInit, IndexesKey,
         IndexesPayload, ReadsKey, ReadsPayload, SendsOn, Concludes
    <3>2. QED
      BY <2>a, <3>1 DEF SuccessionInv, StartsAfresh, Same
  <2>3. ASSUME ~overlapped' PROVE Alone' /\ RemembersKey' /\ OwnInitialization'
    <3>1. ~overlapped /\ (Begins(s) => Live = {})
      <4>1. Begins(s) => ~overlapped /\ Live = {}
        BY <2>3 DEF Begins
      <4>2. Begins(s) \/ overlapped' = overlapped
        BY <2>b DEF Moves, Boxes, Settles, Numbers, SendsInit, IndexesKey,
           IndexesPayload, ReadsKey, ReadsPayload, SendsOn, Concludes,
           TablesStay, IndexesStay
      <4>3. QED
        BY <2>3, <4>1, <4>2
    <3>2. Alone /\ RemembersKey /\ OwnInitialization
      BY <3>1 DEF SuccessionInv
    <3>3. s \in Live \/ Begins(s)
      BY <2>b DEF Moves, Boxes, Settles, Numbers, SendsInit, IndexesKey,
         IndexesPayload, ReadsKey, ReadsPayload, SendsOn, Concludes, Live,
         Numbered, Publishing
    <3>4. Live' \subseteq {s}
      <4>1. \A q \in Live' : q = s \/ q \in Live
        BY <2>a DEF Live, Same
      <4>2. QED
        BY <3>1, <3>2, <3>3, <4>1 DEF Alone
    <3>5. Alone'
      BY <3>4 DEF Alone
    <3> DEFINE Key(q) ==
          /\ ~force[q] => initKey = last[q] \/ Indexed(q)
          /\ Indexed(q) => initKey = part[q].config
          /\ phase[q] \in {"number", "readKey"} /\ ~part[q].init =>
               initKey = part[q].config
          /\ phase[q] \in Depending => part[q].dependency = part[q].config
    <3>6. s \in Live => Key(s)
      BY <3>2 DEF RemembersKey
    <3>7. Key(s)'
      <4> USE DEF Indexed, Depending, Remembers, TablesStay, IndexesStay, Carries
      <4>1. CASE Begins(s)
        BY <4>1 DEF Begins, SuccessionInv, StartsAfresh
      <4>2. CASE Boxes(s)
        BY <3>3, <3>6, <4>2 DEF Boxes, Begins, IncludesInit
      <4>3. CASE Settles(s)
        BY <3>3, <3>6, <4>3 DEF Settles, Begins
      <4>4. CASE Numbers(s)
        BY <3>3, <3>6, <4>4 DEF Numbers, Begins
      <4>5. CASE SendsInit(s)
        BY <3>3, <3>6, <4>5 DEF SendsInit, Begins
      <4>6. CASE IndexesKey(s)
        BY <4>6 DEF IndexesKey, SuccessionInv, CarriesInit
      <4>7. CASE IndexesPayload(s)
        BY <3>3, <3>6, <4>7 DEF IndexesPayload, Begins
      <4>8. CASE ReadsKey(s)
        BY <3>3, <3>6, <4>8 DEF ReadsKey, Begins, SuccessionInv, CarriesInit
      <4>9. CASE ReadsPayload(s)
        BY <3>3, <3>6, <4>9 DEF ReadsPayload, Begins, SuccessionInv, CarriesInit
      <4>10. CASE SendsOn(s)
        BY <3>3, <3>6, <4>10 DEF SendsOn, Begins
      <4>11. ASSUME NEW ok \in BOOLEAN, Concludes(s, ok) PROVE Key(s)'
        <5>1. Key(s)
          BY <3>3, <3>6, <4>11 DEF Concludes, Begins, Numbered, Publishing
        <5>2. CASE part[s].init /\ ok
          BY <4>11, <5>1, <5>2 DEF Concludes
        <5>3. CASE part[s].init /\ ~ok
          BY <4>11, <5>3 DEF Concludes
        <5>4. CASE ~part[s].init
          BY <4>11, <5>1, <5>4 DEF Concludes
        <5>5. part[s].init \in BOOLEAN
          BY DEF TypeInv, TypeOK
        <5>6. QED
          BY <5>2, <5>3, <5>4, <5>5
      <4>12. QED
        BY <2>b, <4>1, <4>2, <4>3, <4>4, <4>5, <4>6, <4>7, <4>8, <4>9, <4>10,
           <4>11 DEF Moves
    <3>8. RemembersKey'
      BY <3>4, <3>7 DEF RemembersKey
    <3>9. ASSUME NEW m \in sentMedia' PROVE m.dependency = m.config
      <4>1. CASE m \in sentMedia
        BY <3>2, <4>1 DEF OwnInitialization
      <4>2. CASE phase[s] = "sendMedia" /\ m = MediaOf(s)
        BY <3>3, <3>6, <4>2 DEF Begins, Depending, MediaOf
      <4>3. QED
        BY <1>1, <4>1, <4>2, MediaStep
    <3>10. QED
      BY <3>5, <3>8, <3>9 DEF OwnInitialization
  <2>4. QED
    BY <2>1, <2>2, <2>3 DEF SuccessionInv
<1>2. CASE UNCHANGED vars
  BY <1>2 DEF SuccessionInv, CarriesInit, StartsAfresh, Alone, RemembersKey,
     Indexed, OwnInitialization, Live, vars, shared, segmenter
<1>3. QED
  BY <1>1, <1>2, NextActs

\* While the requests of a stream follow one another, a part depends on the
\* initialization its media was boxed for, whatever sends fail and whatever the
\* source reconfigures, resets or undoes in between: what a segmenter remembers
\* of its last initialization is what the shared index holds.
THEOREM BoxedForItsInitialization == Spec => []OwnInitializationInSuccession
<1>1. Init => SuccessionInv
  BY DEF Init, SuccessionInv, CarriesInit, StartsAfresh, Alone, RemembersKey,
     Indexed, OwnInitialization, Live, Depending
<1>2. TypeInv /\ SuccessionInv /\ [Next]_vars => SuccessionInv'
  BY SuccessionStep
<1>3. SuccessionInv => OwnInitializationInSuccession
  BY DEF SuccessionInv, OwnInitializationInSuccession
<1>4. QED
  BY <1>1, <1>2, <1>3, TypeInvariance, PTL DEF Spec

-----------------------------------------------------------------------------
LEMMA OneTaskStep ==
  ASSUME OnlyTask, TypeInv, SequenceInv, OneTaskInv, [Next]_vars
  PROVE  OneTaskInv'
<1>1. ASSUME NEW s \in Segmenter, Acts(s) PROVE OneTaskInv'
  <2>a. \A q \in Segmenter \ {s} : Same(q)
    BY <1>1, OthersStay DEF TypeInv
  <2>b. Moves(s)
    BY <1>1, EveryMove
  <2>c. OneBusy /\ IndexesAgree /\ NewestNumber /\ BundlesAgree /\ BundleIsDependency
    BY DEF OneTaskInv
  <2>d. TaskFree(s) => \A q \in Segmenter : ~Busy(q)
    BY DEF TaskFree, OnlyTask, Live, Busy
  <2>e. Busy(s)' => TaskFree(s) \/ Busy(s)
    BY <2>b DEF Moves, Begins, Boxes, Settles, Numbers, SendsInit, IndexesKey,
       IndexesPayload, ReadsKey, ReadsPayload, SendsOn, Concludes, Busy
  <2>f. \A q \in Segmenter \ {s} : Busy(q)' <=> Busy(q)
    BY <2>a DEF Same, Busy
  <2>g. Begins(s) \/ Boxes(s) => TaskFree(s)
    BY DEF Begins, Boxes
  <2>h. ASSUME NEW q \in Segmenter \ {s}, Busy(q) PROVE UNCHANGED <<initKey, initPayload>>
    <3>1. ~Busy(s)
      BY <2>c, <2>h DEF OneBusy
    <3>2. Begins(s) \/ Boxes(s) \/ Settles(s)
      BY <2>b, <3>1 DEF Moves, Numbers, SendsInit, IndexesKey, IndexesPayload,
         ReadsKey, ReadsPayload, SendsOn, Concludes, Busy
    <3>3. QED
      BY <3>2 DEF Begins, Boxes, Settles, TablesStay
  <2>1. OneBusy'
    <3>1. ASSUME NEW q \in Segmenter \ {s}, Busy(q)' PROVE ~Busy(s)'
      BY <2>c, <2>d, <2>e, <2>f, <3>1 DEF OneBusy
    <3>2. ASSUME NEW q \in Segmenter \ {s}, NEW r \in Segmenter \ {s}, Busy(q)', Busy(r)'
          PROVE  q = r
      BY <2>c, <2>f, <3>2 DEF OneBusy
    <3>3. QED
      BY <3>1, <3>2 DEF OneBusy
  <2>2. IndexesAgree'
    <3> SUFFICES ASSUME \A q \in Segmenter : phase'[q] # "indexPayload"
                 PROVE  initPayload' = initKey'
      BY DEF IndexesAgree
    <3>1. CASE IndexesPayload(s)
      BY <2>c, <3>1 DEF IndexesPayload, BundlesAgree
    <3>2. CASE ~IndexesPayload(s)
      <4>1. phase[s] # "indexPayload"
        BY <2>b, <3>2 DEF Moves, Begins, Boxes, Settles, Numbers, SendsInit,
           IndexesKey, ReadsKey, ReadsPayload, SendsOn, Concludes
      <4>2. \A q \in Segmenter : phase[q] # "indexPayload"
        BY <2>a, <4>1 DEF Same
      <4>3. ~IndexesKey(s)
        BY DEF IndexesKey
      <4>4. UNCHANGED <<initKey, initPayload>>
        BY <2>b, <3>2, <4>3 DEF Moves, Begins, Boxes, Settles, Numbers, SendsInit,
           ReadsKey, ReadsPayload, SendsOn, Concludes, TablesStay, IndexesStay
      <4>5. QED
        BY <2>c, <4>2, <4>4 DEF IndexesAgree
    <3>3. QED
      BY <3>1, <3>2
  <2>3. NewestNumber'
    <3> SUFFICES ASSUME NEW q \in Segmenter, phase'[q] \in Numbered
                 PROVE  part'[q].sequence + 1 = nextSequence'
      BY DEF NewestNumber
    <3>1. CASE q # s
      <4>1. phase[q] \in Numbered /\ Busy(q) /\ part'[q].sequence = part[q].sequence
        BY <2>a, <3>1 DEF Same, Numbered, Publishing, Busy
      <4>2. phase[s] # "number"
        BY <2>c, <3>1, <4>1 DEF OneBusy, Busy
      <4>3. nextSequence' = nextSequence
        BY <1>1, <4>2, NumbersStep
      <4>4. QED
        BY <2>c, <4>1, <4>3 DEF NewestNumber
    <3>2. CASE q = s
      BY <1>1, <2>c, <3>2, NumbersStep DEF NewestNumber
    <3>3. QED
      BY <3>1, <3>2
  <2>4. BundlesAgree'
    <3> DEFINE Agrees(q) ==
          /\ phase[q] = "indexPayload" =>
               initKey = part[q].config /\ part[q].dependency = part[q].config
          /\ phase[q] = "readPayload" => part[q].dependency = initKey
          /\ phase[q] = "sendMedia" => part[q].bundle = part[q].dependency
    <3>1. \A q \in Segmenter : Agrees(q)
      BY <2>c DEF BundlesAgree
    <3>2. ASSUME NEW q \in Segmenter \ {s} PROVE Agrees(q)'
      <4>1. CASE Busy(q)
        BY <2>a, <2>h, <3>1, <4>1 DEF Same
      <4>2. CASE ~Busy(q)
        BY <2>a, <4>2 DEF Same, Busy
      <4>3. QED
        BY <4>1, <4>2
    <3>3. Agrees(s)'
      <4>1. ASSUME ReadsPayload(s) PROVE Agrees(s)'
        <5>1. \A q \in Segmenter : phase[q] # "indexPayload"
          BY <2>c, <4>1 DEF ReadsPayload, OneBusy, Busy
        <5>2. initPayload = initKey
          BY <2>c, <5>1 DEF IndexesAgree
        <5>3. QED
          BY <3>1, <4>1, <5>2 DEF ReadsPayload
      <4>2. ASSUME IndexesPayload(s) PROVE Agrees(s)'
        BY <3>1, <4>2 DEF IndexesPayload
      <4>3. ASSUME IndexesKey(s) \/ ReadsKey(s) \/ SendsOn(s) PROVE Agrees(s)'
        BY <3>1, <4>3 DEF IndexesKey, ReadsKey, SendsOn, TablesStay, Carries
      <4>4. QED
        BY <2>b, <4>1, <4>2, <4>3 DEF Moves, Begins, Boxes, Settles, Numbers,
           SendsInit, Concludes
    <3>4. QED
      BY <3>2, <3>3 DEF BundlesAgree
  <2>5. BundleIsDependency'
    <3>1. ASSUME NEW m \in sentMedia' PROVE m.bundle = m.dependency
      <4>1. CASE m \in sentMedia
        BY <2>c, <4>1 DEF BundleIsDependency
      <4>2. CASE phase[s] = "sendMedia" /\ m = MediaOf(s)
        BY <2>c, <4>2 DEF BundlesAgree, MediaOf
      <4>3. QED
        BY <1>1, <4>1, <4>2, MediaStep
    <3>2. QED
      BY <3>1 DEF BundleIsDependency
  <2>6. QED
    BY <2>1, <2>2, <2>3, <2>4, <2>5 DEF OneTaskInv
<1>2. CASE UNCHANGED vars
  BY <1>2 DEF OneTaskInv, OneBusy, Busy, IndexesAgree, NewestNumber, BundlesAgree,
     BundleIsDependency, vars, shared
<1>3. QED
  BY <1>1, <1>2, NextActs

LEMMA OneTaskInvariance ==
  ASSUME OnlyTask
  PROVE  Spec => []OneTaskInv
<1>1. Init => OneTaskInv
  BY DEF Init, OneTaskInv, OneBusy, Busy, IndexesAgree, NewestNumber, BundlesAgree,
     BundleIsDependency, Numbered, Publishing
<1>2. TypeInv /\ SequenceInv /\ OneTaskInv /\ [Next]_vars => OneTaskInv'
  BY OneTaskStep
<1>3. QED
  BY <1>1, <1>2, TypeInvariance, SequenceInvariance, PTL DEF Spec

\* Where one task publishes a stream, as a bridge does its own, the bytes bundled
\* with a part are those of the key it declares, though the two are written and
\* read under two locks: nothing publishes between the two.
THEOREM BundleOfTheDependency ==
  ASSUME OnlyTask
  PROVE  Spec => []BundleIsDependency
<1>1. OneTaskInv => BundleIsDependency
  BY DEF OneTaskInv
<1>2. QED
  BY <1>1, OneTaskInvariance, PTL

\* There a lane is handed the stream's parts in the order of their sequences,
\* each of them once.
THEOREM PartsInSequence ==
  ASSUME OnlyTask
  PROVE  Spec => InSequence
<1> DEFINE Later ==
      \A m \in sentMedia' \ sentMedia : \A n \in sentMedia :
        n.lane = m.lane => n.sequence < m.sequence
<1>1. ASSUME TypeInv, SequenceInv, OneTaskInv, [Next]_vars PROVE [Later]_vars
  <2> SUFFICES ASSUME NEW m \in sentMedia' \ sentMedia, NEW n \in sentMedia,
                      n.lane = m.lane
               PROVE  n.sequence < m.sequence
    OBVIOUS
  <2>1. PICK s \in Segmenter : Acts(s)
    BY <1>1, NextActs DEF vars, shared
  <2>2. phase[s] = "sendMedia" /\ m = MediaOf(s)
    BY <1>1, <2>1, MediaStep
  <2>3. m.sequence = part[s].sequence
    BY <2>2 DEF MediaOf
  <2>4. m.sequence + 1 = nextSequence
    BY <1>1, <2>2, <2>3 DEF OneTaskInv, NewestNumber, Numbered, Publishing
  <2>5. n.sequence < nextSequence
    BY <1>1 DEF SequenceInv, Below
  <2>6. n \in MediaObject /\ m \in MediaObject
    BY <1>1, <2>2, MediaOfType DEF TypeInv, TypeOK
  <2>7. n.sequence # m.sequence
    <3> SUFFICES ASSUME n.sequence = m.sequence PROVE FALSE
      OBVIOUS
    <3>1. n = [MediaOf(s) EXCEPT !.lane = n.lane]
      BY <1>1, <2>2, <2>3 DEF SequenceInv, SentByOwner, Numbered, Publishing
    <3>2. n = m
      BY <2>2, <2>6, <3>1 DEF MediaObject
    <3>3. QED
      BY <3>2
  <2>8. n.sequence \in Nat /\ m.sequence \in Nat /\ nextSequence \in Nat
    BY <1>1, <2>6 DEF MediaObject, TypeInv, TypeOK
  <2>9. QED
    BY <2>4, <2>5, <2>7, <2>8
<1>2. QED
  BY <1>1, TypeInvariance, SequenceInvariance, OneTaskInvariance, PTL
     DEF Spec, InSequence
=============================================================================
