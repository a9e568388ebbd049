-------------------------- MODULE Fmp4Publication --------------------------
(***************************************************************************)
(* How fMP4 parts of one output stream reach the mesh: the segmenters that *)
(* package them (`Fmp4Segmenter`, its initialization state only), the      *)
(* shared publisher that numbers them (`TelemetryFmp4Publisher`) and the   *)
(* forwarder that sends them with their initialization object              *)
(* (`MeshForwarder::publish_fmp4_part`).                                   *)
(*                                                                         *)
(* A segmenter lives for one ingest request or connection; an ingest task  *)
(* feeds its segmenters one access unit at a time and awaits each part's   *)
(* publication.  A new request may start before the previous one ended:    *)
(* then two segmenters feed one output stream.  Every await of a           *)
(* publication is a step of its own; each may fail.                        *)
(*                                                                         *)
(* Abstracted: a configuration stands for an InitSignature, for the        *)
(* initialization bytes boxed from it and for the ObjectKey hashed from    *)
(* those bytes.  All tables are keyed by stream and source epoch, so one   *)
(* stream under one epoch is the whole of what its parts can see.          *)
(***************************************************************************)
EXTENDS Naturals, Sequences, FiniteSets

CONSTANTS
  Segmenter,   \* the segmenters, one per ingest request
  Task,        \* the ingest tasks: RIST, SRT and RTMP bridges
  TaskOf,      \* the task that feeds each segmenter
  Config,      \* initialization signatures
  Lanes,       \* what an object is sent on, in order: byte slots, relay
  MaxLive,     \* bound: segmenters alive at once
  MaxParts,    \* bound: parts numbered
  None         \* no configuration, no initialization

ASSUME TaskAssumption == TaskOf \in [Segmenter -> Task]
ASSUME LanesAssumption == Lanes \in Seq({"slot", "relay"}) /\ Lanes # <<>>
ASSUME NoneAssumption == None \notin Config
ASSUME PartBoundAssumption == MaxLive \in Nat /\ MaxParts \in Nat

\* What a segmenter is asked to do between parts: cut one, take a new
\* configuration, restart on a timestamp reset, end.
Event == {"cut", "reset", "end"} \cup Config
ASSUME EventAssumption == Config \cap {"cut", "reset", "end"} = {}

Phase == {"off", "idle", "number", "sendInit", "indexKey", "indexPayload",
          "readKey", "readPayload", "sendMedia", "settle", "ended"}

Lane == {Lanes[i] : i \in DOMAIN Lanes}
InitObject == [lane : Lane, config : Config]
MediaObject == [lane : Lane, sequence : Nat, source : Segmenter,
                config : Config, dependency : Config, bundle : Config]

VARIABLES
  nextSequence,  \* canonical_sequences, of this stream
  initKey,       \* fmp4_initializations: the key parts depend on
  initPayload,   \* fmp4_initialization_payloads: the bytes they bundle
  sentInit,      \* initialization objects handed to a lane
  sentMedia,     \* media objects handed to a lane
  overlapped,    \* history: two segmenters were alive at once
  phase,         \* where each segmenter's publication stands
  config,        \* its current InitSignature
  last,          \* last_init_signature
  force,         \* force_next_init
  part,          \* the part it is publishing
  after          \* what it does when that is over

shared ==
  <<nextSequence, initKey, initPayload, sentInit, sentMedia, overlapped>>
segmenter == <<config, last, force>>
vars == <<shared, phase, segmenter, part, after>>

NoPart == [config |-> None, init |-> FALSE, sequence |-> 0, lane |-> 1,
           dependency |-> None, bundle |-> None]

Init ==
  /\ nextSequence = 0
  /\ initKey = None /\ initPayload = None
  /\ sentInit = {} /\ sentMedia = {}
  /\ overlapped = FALSE
  /\ phase = [s \in Segmenter |-> "off"]
  /\ config = [s \in Segmenter |-> None]
  /\ last = [s \in Segmenter |-> None]
  /\ force = [s \in Segmenter |-> TRUE]
  /\ part = [s \in Segmenter |-> NoPart]
  /\ after = [s \in Segmenter |-> "cut"]

-----------------------------------------------------------------------------
\* The segmenter.

Live == {s \in Segmenter : phase[s] \notin {"off", "ended"}}

\* Nothing the task feeds is waiting for a publication.
TaskFree(s) ==
  \A q \in Live : TaskOf[q] = TaskOf[s] => phase[q] = "idle"

Become(s, next) == phase' = [phase EXCEPT ![s] = next]

Start(s) ==
  /\ phase[s] = "off"
  /\ TaskFree(s)
  /\ Cardinality(Live) < MaxLive
  /\ Become(s, "idle")
  /\ overlapped' = (overlapped \/ Live # {})
  /\ UNCHANGED <<nextSequence, initKey, initPayload, sentInit, sentMedia>>
  /\ UNCHANGED <<segmenter, part, after>>

\* install_h264_config (or a new audio signature), reset, the end of the
\* request; "cut" asks for nothing more.
Settle(s, event) ==
  /\ Become(s, IF event = "end" THEN "ended" ELSE "idle")
  /\ \/ /\ event \in Config
        /\ config' = [config EXCEPT ![s] = event]
        /\ force' = [force EXCEPT ![s] = TRUE]
        /\ UNCHANGED last
     \/ /\ event = "reset"
        /\ config' = [config EXCEPT ![s] = None]
        /\ last' = [last EXCEPT ![s] = None]
        /\ force' = [force EXCEPT ![s] = TRUE]
     \/ /\ event \in {"cut", "end"}
        /\ UNCHANGED segmenter

\* Mutant of IncludesInit: force_next_init is not asked.
IncludesInitUnlessSame(s) == last[s] # config[s]

\* flush_with_next_dts: the init goes with the part unless the last one
\* published is still the current one.
IncludesInit(s) == force[s] \/ last[s] # config[s]

\* A configuration is installed when it differs from the current one.
Changes(s, event) == event \in Config => event # config[s]

\* An access unit, a timestamp reset or the end of the request, with media
\* buffered: the part is boxed before the event takes effect.
Package(s, event) ==
  /\ phase[s] = "idle"
  /\ TaskFree(s)
  /\ config[s] # None
  /\ Changes(s, event)
  /\ nextSequence + Cardinality({q \in Live : phase[q] = "number"}) < MaxParts
  /\ part' = [part EXCEPT ![s] = [NoPart EXCEPT !.config = config[s],
                                               !.init = IncludesInit(s)]]
  /\ after' = [after EXCEPT ![s] = event]
  /\ Become(s, "number")
  /\ UNCHANGED <<shared, segmenter>>

\* The same with nothing buffered.
Apply(s, event) ==
  /\ phase[s] = "idle"
  /\ TaskFree(s)
  /\ event # "cut"
  /\ Changes(s, event)
  /\ Settle(s, event)
  /\ UNCHANGED <<shared, part, after>>

\* The publication returned: what the segmenter remembers of the init.
Concluded(s, ok) ==
  /\ last' =
       [last EXCEPT ![s] = IF part[s].init /\ ok THEN part[s].config ELSE @]
  /\ force' = [force EXCEPT ![s] = IF part[s].init THEN ~ok ELSE @]
  /\ Become(s, "settle")
  /\ UNCHANGED <<config, part, after>>

Resume(s) ==
  /\ phase[s] = "settle"
  /\ Settle(s, after[s])
  /\ part' = [part EXCEPT ![s] = NoPart]
  /\ after' = [after EXCEPT ![s] = "cut"]
  /\ UNCHANGED shared

-----------------------------------------------------------------------------
\* The shared publisher and the forwarder.

\* Mutant of Number: a part that carries an init takes no number.
NumberMediaOnly(s) ==
  /\ phase[s] = "number"
  /\ part' = [part EXCEPT ![s].sequence = nextSequence]
  /\ nextSequence' = IF part[s].init THEN nextSequence ELSE nextSequence + 1
  /\ Become(s, IF part[s].init THEN "sendInit" ELSE "readKey")
  /\ UNCHANGED <<overlapped, initKey, initPayload, sentInit, sentMedia>>
  /\ UNCHANGED <<segmenter, after>>

\* TelemetryFmp4Publisher, under the canonical_sequences lock.
Number(s) ==
  /\ phase[s] = "number"
  /\ part' = [part EXCEPT ![s].sequence = nextSequence]
  /\ nextSequence' = nextSequence + 1
  /\ Become(s, IF part[s].init THEN "sendInit" ELSE "readKey")
  /\ UNCHANGED <<overlapped, initKey, initPayload, sentInit, sentMedia>>
  /\ UNCHANGED <<segmenter, after>>

\* An object that cannot be built or encoded is not sent at all.
BuildFails(s) ==
  /\ phase[s] \in {"sendInit", "sendMedia"}
  /\ part[s].lane = 1
  /\ Concluded(s, FALSE)
  /\ UNCHANGED shared

\* Mutant of NextLane: one lane too many.
NextLanePastLast(s, next) ==
  IF part[s].lane <= Len(Lanes)
  THEN part' = [part EXCEPT ![s].lane = @ + 1] /\ UNCHANGED phase
  ELSE part' = [part EXCEPT ![s].lane = 1] /\ Become(s, next)

\* On to the next lane, or to the next phase after the last one.
NextLane(s, next) ==
  IF part[s].lane < Len(Lanes)
  THEN part' = [part EXCEPT ![s].lane = @ + 1] /\ UNCHANGED phase
  ELSE part' = [part EXCEPT ![s].lane = 1] /\ Become(s, next)

InitOf(s) == [lane |-> Lanes[part[s].lane], config |-> part[s].config]

\* Mutant of SendInit: a failed send does not end the publication.
SendInitUnchecked(s) ==
  /\ phase[s] = "sendInit"
  /\ \E delivered \in SUBSET {InitOf(s)} : sentInit' = sentInit \cup delivered
  /\ NextLane(s, "indexKey")
  /\ UNCHANGED <<overlapped, nextSequence, initKey, initPayload, sentMedia>>
  /\ UNCHANGED <<segmenter, after>>

\* A send that fails may have delivered the object before it failed.
SendInit(s) ==
  /\ phase[s] = "sendInit"
  /\ \/ /\ sentInit' = sentInit \cup {InitOf(s)}
        /\ NextLane(s, "indexKey")
        /\ UNCHANGED <<segmenter, after>>
     \/ /\ \E delivered \in SUBSET {InitOf(s)} :
             sentInit' = sentInit \cup delivered
        /\ Concluded(s, FALSE)
  /\ UNCHANGED <<overlapped, nextSequence, initKey, initPayload, sentMedia>>

\* The two indexes have a lock each.
IndexKey(s) ==
  /\ phase[s] = "indexKey"
  /\ initKey' = part[s].config
  /\ part' = [part EXCEPT ![s].dependency = part[s].config]
  /\ Become(s, "indexPayload")
  /\ UNCHANGED <<overlapped, nextSequence, initPayload, sentInit, sentMedia>>
  /\ UNCHANGED <<segmenter, after>>

\* Mutant of IndexPayload: the first payload of the epoch stays.
IndexPayloadOnce(s) ==
  /\ phase[s] = "indexPayload"
  /\ initPayload' = IF initPayload = None THEN part[s].config ELSE initPayload
  /\ part' = [part EXCEPT ![s].bundle = part[s].config]
  /\ Become(s, "sendMedia")
  /\ UNCHANGED <<overlapped, nextSequence, initKey, sentInit, sentMedia>>
  /\ UNCHANGED <<segmenter, after>>

IndexPayload(s) ==
  /\ phase[s] = "indexPayload"
  /\ initPayload' = part[s].config
  /\ part' = [part EXCEPT ![s].bundle = part[s].config]
  /\ Become(s, "sendMedia")
  /\ UNCHANGED <<overlapped, nextSequence, initKey, sentInit, sentMedia>>
  /\ UNCHANGED <<segmenter, after>>

\* A part without an init depends on the indexed one, if there is one.
ReadKey(s) ==
  /\ phase[s] = "readKey"
  /\ \/ /\ initKey # None
        /\ part' = [part EXCEPT ![s].dependency = initKey]
        /\ Become(s, "readPayload")
        /\ UNCHANGED <<segmenter, after>>
     \/ initKey = None /\ Concluded(s, FALSE)
  /\ UNCHANGED shared

ReadPayload(s) ==
  /\ phase[s] = "readPayload"
  /\ \/ /\ initPayload # None
        /\ part' = [part EXCEPT ![s].bundle = initPayload]
        /\ Become(s, "sendMedia")
        /\ UNCHANGED <<segmenter, after>>
     \/ initPayload = None /\ Concluded(s, FALSE)
  /\ UNCHANGED shared

MediaOf(s) ==
  [lane |-> Lanes[part[s].lane], sequence |-> part[s].sequence, source |-> s,
   config |-> part[s].config, dependency |-> part[s].dependency,
   bundle |-> part[s].bundle]

SendMedia(s) ==
  /\ phase[s] = "sendMedia"
  /\ \/ /\ sentMedia' = sentMedia \cup {MediaOf(s)}
        /\ part[s].lane < Len(Lanes)
        /\ NextLane(s, "settle")
        /\ UNCHANGED <<segmenter, after>>
     \/ /\ sentMedia' = sentMedia \cup {MediaOf(s)}
        /\ part[s].lane = Len(Lanes)
        /\ Concluded(s, TRUE)
     \/ /\ \E delivered \in SUBSET {MediaOf(s)} :
             sentMedia' = sentMedia \cup delivered
        /\ Concluded(s, FALSE)
  /\ UNCHANGED <<overlapped, nextSequence, initKey, initPayload, sentInit>>

Publish(s) ==
  \/ Number(s) \/ BuildFails(s)
  \/ SendInit(s) \/ IndexKey(s) \/ IndexPayload(s)
  \/ ReadKey(s) \/ ReadPayload(s)
  \/ SendMedia(s)

Next ==
  \E s \in Segmenter :
    \/ Start(s)
    \/ \E event \in Event : Package(s, event) \/ Apply(s, event)
    \/ Publish(s)
    \/ Resume(s)

Spec == Init /\ [][Next]_vars

-----------------------------------------------------------------------------
\* Every table, every object sent and every part has its type.
TypeOK ==
  /\ nextSequence \in Nat
  /\ initKey \in Config \cup {None}
  /\ initPayload \in Config \cup {None}
  /\ sentInit \subseteq InitObject
  /\ sentMedia \subseteq MediaObject
  /\ phase \in [Segmenter -> Phase]
  /\ config \in [Segmenter -> Config \cup {None}]
  /\ last \in [Segmenter -> Config \cup {None}]
  /\ force \in [Segmenter -> BOOLEAN]
  /\ overlapped \in BOOLEAN
  /\ part \in [Segmenter ->
       [config : Config \cup {None}, init : BOOLEAN, sequence : Nat,
        lane : 1 .. Len(Lanes), dependency : Config \cup {None},
        bundle : Config \cup {None}]]
  /\ after \in [Segmenter -> Event]

\* An object key names one object: no two parts share a sequence, not even
\* parts of two segmenters, of two tasks or of a request that reconnected.
SequenceNamesOnePart ==
  \A m, n \in sentMedia :
    m.sequence = n.sequence => [m EXCEPT !.lane = n.lane] = n

\* A receiver never waits for an initialization nobody sent: before a media
\* object is handed to a lane, its dependency was handed to that lane,
\* whichever segmenter indexed it and whatever failed in between.
DependencySentFirst ==
  \A m \in sentMedia : [lane |-> m.lane, config |-> m.dependency] \in sentInit

\* The media a part carries was boxed for the initialization it depends on.
OwnInitialization ==
  \A m \in sentMedia : m.dependency = m.config

\* The same while the segmenters of the stream follow one another, as they do
\* when a request ends before the next one starts: whatever sends fail, and
\* whatever the source reconfigures, resets or undoes meanwhile.
OwnInitializationInSuccession == ~overlapped => OwnInitialization

\* The initialization bytes bundled into the slot are those of the key the
\* object declares, though key and bytes are read under two locks.
BundleIsDependency ==
  \A m \in sentMedia : m.bundle = m.dependency

\* A lane sees a stream's parts in the order of their sequences.
InSequence ==
  [][\A m \in sentMedia' \ sentMedia : \A n \in sentMedia :
       n.lane = m.lane => n.sequence < m.sequence]_vars

=============================================================================
