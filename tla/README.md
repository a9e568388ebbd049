# Formal models of av-contrib

`av-contrib` is a media contributor. It takes contribution streams (RIST, SRT,
RTMP, HTTP, AEP1 audio datagrams), repackages them and sends the result into a
mesh as FEC-protected objects. This directory holds TLA+ models of the parts of
it whose correctness depends on order: interleaved requests, revocations,
expiries, failing sends, configuration changes, overlapping segmenters, full
queues, retiring workers, lost packets and shutdowns. TLC checks them on small
instances, and TLAPS proves most of the safety properties, the action properties and
both refinements for every value of the constants.

Source abbreviations below: **IA** is `src/src/ingress_authorization.rs`, **AC**
`src/src/bin/av-contrib.rs`, **FB** `src/src/fmp4_bridge.rs`, **AE**
`src/src/audio_epoch_hls.rs`, **QR** `src/src/quadra_renditions.rs`, **PR**
`src/src/bin/aep1-48k-probe.rs`.

## Inventory

| Component | State | Operations | Interacts with | What is hard | What makes it correct |
|---|---|---|---|---|---|
| Replay window (IA 534-575) | `highest`, 128-bit mask | `first`, `admit` | gate | shifts past the width, late frames at the edge | a sequence is admitted at most once, and only a spent one is refused |
| Binding registry (IA 300-421) | bindings by exact coordinates, revision counter (`RwLock`) | `install`, `invalidate`, `resolve`, `revalidate` | control plane, gate | delayed control events, readers that act on what they read | a revocation is final; a carrier stream has one identity |
| Publication gate (IA 498-531, 763-1127) | capability admissions, sequence windows (a `Mutex` each), metrics | `authorize`, `revalidate_before_forward`, `handle_integration_error` | registry, external verifier, handler | three critical sections, purging at each request's own time | no frame is released twice; a revoked request is fenced; counters agree |
| Media handler (AC 6500-6697) | one task per request | headers, lease, body, revalidation, forward | gate, forwarder | everything may happen while a body is read | every exit is one decision |
| fMP4 segmenter (FB 396-1178) | media buffers, H.264 and audio configuration, initialization bookkeeping | `push_access_unit`, `finish`, `reset`, `set_audio_track_config` | bridges, publisher | configuration changes and timestamp resets with media pending; failed publications | a part never mixes configurations; pending media is bounded |
| Shared publisher (AC 2162-2237) | one sequence counter per stream | number a part, publish it, record it | segmenters, forwarder | several segmenters and tasks per stream | a sequence names one part |
| Mesh part publication (AC 2002-2160) | two indexes of initializations (a `Mutex` each) | publish an init and a media object on each lane | publisher, both lanes | partial failure, indexes shared by segmenters | a part's dependency was sent first, and is its own |
| Byte-slot forwarder (AC 1336-1739, 6446-6497, 7402-7495) | two atomic wire-id counters, media encoder | forward a slot, an access unit, an opaque part, a raw body | UDP, relay session | separate counters, wrap-around, geometry computed ahead of the encoder | wire ids never collide; an acknowledgement is about what went out |
| RelaySession publisher (AC 798-1209) | lane errors and successes, outcome counters, FEC state | `publish_object`, `send_symbol` | two carriers | one lane failing, deadlines between symbols | one object has one outcome, and "sent" means decodable in time |
| RIST/SRT bridge (AC 2281-2722) | request table of one task | poll slots, create bridge, finish, reap | upload service, segmenters, playlists, sessions | overlapping requests on one output, skipped and unread slots, requests that leave | an output ends when its last request does; what departs is let go of |
| RTMP bridge (AC 2724-2821) | segmenter table of one task | access unit, end | segmenters, playlists, sessions | two connections on one output | as above |
| Audio epoch ingest (AC 1741-1998) and HLS worker (AE 1-870) | bounded queues, receivers, renditions, continuity per group | hand off, dispatch, package, retire, stop | UDP, fMP4 segmenter, publisher | full queues, retirement with messages queued, discontinuities, shutdown | what is accepted is packaged in order or counted as dropped |
| Needletail AEP1 handler (AC 6337-6445) | one active-stream flag | authorise, read frames, hand off | audio ingest | cancellation | one stream at a time |
| Quadra pipeline (QR) | bounded channels, pending audio and video | push, scale, encode | segmenters | drop policies, rungs at different delays | video without a hole on every rung, audio never ahead of it |
| MPEG-TS demultiplexer (FB 158-360, 2367-2624) | per stream: the PES payload under assembly, its time, the last time | packet start, continuation, end, loss, finish | packet reader, segmenter, access-unit sink | losses, oversized payloads, re-registration | units are whole, timed and in order |
| Sessions, telemetry, health (AC 2870-5555) | counters, histograms, session table, alerts | record, snapshot, prune | everything | pruning; a report reads counter by counter while tasks record | a report agrees with what was recorded; active sessions are kept |
| Probe (PR 2640-3470) | coverage, baseline, requests in flight | read playlist, parts, reconnect | the edge | the window moves before it starts; answers out of order | the report is about the window |
| Synchronized stems, talkback, parameters, bootstrap, start-up | none | pure validation, wiring | gate | none | not modelled |
| Test senders | own processes | - | - | - | not modelled |

`PROJECT.json` lists each component with its status, and every hazard with the
line where it bites and the property that would catch it.

## What is modelled

### `SequenceWindow`, `SequenceReplay`, `AtMostOnce`: the replay window

`SequenceWindow` holds the pure operators: the mask is the set of its one bits,
`Slide` is `(seen << shift) | 1` with both branches of the code, `Admits` and
`Admit` are what `admit` answers and leaves behind. `SequenceReplay` is one
window under the `sequence_windows` lock (open, accept, refuse). `AtMostOnce`
says what that promises with no mask at all: the complete set of admitted
sequences is remembered, and a sequence is admitted exactly when it is new and
nothing admitted is a window or more ahead of it. `ImplementsAtMostOnce` is the
refinement.

### `PublishIngress`: registry, gate and media handler

One task per request walks through `idle`, `resolve`, `verify`, `sequence`,
`body`, `recheck`, `forward` and an end. Each action is one critical section of
the code or one point where the handler awaits:

| Action | Code |
|---|---|
| `Arrive`, `EnterUnauthorized` | header extraction, `now_unix_seconds` captured (AC 6521-6547); raw paths that present no capability (IA 861-874) |
| `Resolve` | `registry.resolve`, envelope and stream checks, in their order (IA 946-1000) |
| `VerifierRefuses`, `Verify` | verifier and `AdmissionGuard` under the admissions lock, then the stateless limits (IA 1002-1072) |
| `Sequence`, `Grant` | purge, capacity, window, lease (IA 1074-1113), admission metric and acknowledgement check (IA 829-852, AC 6548-6561) |
| `AbortBody`, `EndBody` | body, then the expiry and length checks with a new look at the clock (AC 6563-6590, IA 897-915) |
| `Recheck` | `registry.revalidate` (IA 412-421) |
| `Forward` | the canonical object and its send (AC 6600-6670) |
| `Install`, `Invalidate` | the registry's write lock (IA 329-393) |
| `Tick` | the clock |

`Reject` is `record_rejection` together with what the mode makes of it: enforcing
answers the client, observing lets the request go on. `Released` says that the
gate let the request's object out. The purge is part of `Verify` and `Sequence`
and uses the time the request arrived at, as in the code, so an early request may
run after a later one purged.

Abstracted: a binding is its identity and its carrier stream; the verifier is
external and may refuse anything; checks that read only the request may pass or
fail.

### `Fmp4Publication`: parts on their way to the mesh

Segmenters (only what they remember of initializations), ingest tasks that feed
them, the numbering publisher and `publish_fmp4_part`. Each await of a
publication is a step: number, init object on each lane, key indexed, payload
indexed (or both read), media on each lane, and the segmenter's conclusion
(`last_init_signature`, `force_next_init`). Any build or send may fail, and a
failed send may have delivered its object. A task waits for the publication of
whatever it feeds (`TaskFree`); several tasks run at once. `Start` while another
segmenter is alive is an overlapping request.

A configuration stands for the signature, the bytes boxed from it and the key
hashed from those bytes: they are functions of each other (FB 971-990, AC
208-256).

### `Fmp4Segmenter`: what the parts are made of

The whole of `push_access_unit` for one segmenter, as a function on its state: a
call takes `&mut self` and awaits, so no other call interleaves with it.
`PushVideo` follows the order of `push_video` (parameter sets, drop or install,
strip, buffer or drop, flush when due, buffer), `PushAudio` that of `push_audio`,
`Flushed` that of `flush_with_next_dts`, with its outcome as an input:
published, failed, or lost (boxed empty, or refused by the local cache, which
return before the bookkeeping). `out` is what the last call gave to the
publisher. Time is a choice: a part may be due, a DTS may be before the base.
Only the packagers of audio streams call `set_audio_track_config` (AE 724), so no
video is pushed to a segmenter that has one.

### `AudioEpochIngress`, `AudioEpochHls`, `AudioEpochPlane`, `OrderedRendition`: the audio plane

`AudioEpochHls` is the worker of AE: the ingress queue, the dispatcher (`select`,
`Receive`, which leaves in `todo` the groups a datagram completes, and `Dispatch`
of each in turn, which awaits a full rendition queue; `Skip` is a group of a
rendition that is not configured), retirement of idle receivers and workers (`Sweep`), one task per
rendition (`Begin`, `Push`, `Finish`: discontinuity check, then buffering, then a
part when it is long enough), and the two-step end (`SeeShutdown`, `EndDrain`,
`Close`, `Join`). A task of the model is one spawned task: a rendition that is
started again has another one. `AudioEpochIngress` holds the UDP task, the
Needletail requests with their one-stream guard, the mesh worker and the order in
which `main` awaits them. `AudioEpochPlane` composes the two over the shared queue
and the shutdown signal.

`OrderedRendition` says what a rendition promises, without tasks or queues: groups
wait in line and leave from its front in parts, or are refused one by one; only a
part whose publication fails may take one group more with it. `KeepsOrder` is the
refinement, under the mapping `Pending` (buffered, held and queued groups of the
one live task of the rendition).

Properties of the code that the model keeps and a reader may not expect: the
discontinuity test moves `expected_pts` before the group is validated, so a group
refused by the conversion leaves a gap *inside* a part without a discontinuity (AE
684-689; the one gap that `PartsAreContinuous` allows); the fMP4 packager keeps a
failed publication to itself, the opaque one reports it; `recv` never returns `None`
because the router that `main` holds keeps a sender; a failing UDP socket ends the
UDP ingest silently.

### `RelayLanes`: one object on two carriers

Two publishers share the counters and the lane times. `CheckDeadline`, `Encode`
(which plans source and repair symbols, with repair moved to the primary when it is
alone), `SendSymbol` per lane and symbol, each of which may fail or find the object
expired, and `Conclude` with `resolve_relay_lane_results`. The ledger is history:
what the counters said of each object, and which lanes had carried all its source.
A lane that ends reads the clock and stores it in one step. Expired symbols are counted
by the code as well (`relay_expired_symbols`); no verdict depends on that count and the
model has no such counter.

### `StreamSlotForwarder`: wire ids

Callers are raw requests (chunk by chunk, acknowledged at the end), authorised
requests with a datagram limit, opaque parts and media access units, which have an
encoder and a socket of their own. `ReserveBlock` and
`ReservePackets` are the two `fetch_add`s, modulo the width, which `ForwarderInit`
also lets stand just before their wrap. `PacketCount` is `stream_fec_geometry`,
`Encoded` what the encoder produces, and `EncodeSlot` compares the two, as
`encode_stream_fec_payload` does. A slot whose geometry does not fit (its payload, its
source symbols, its datagrams) fails with an error that is counted; a limit that
leaves no room for a symbol, or more than a `u16` holds, is refused before anything
is counted (`Accepted`).

### `UploadBridge` (with `IngestSessions`): requests, outputs, playlists

`run_upload_response_ts_bridge` poll by poll: retire what is stale, visit each
active request, read headers, body slots and the end, skip slots that cannot be
read, settle; the output policies of RIST and SRT; the RTMP segmenter table; the
shutdown of both. They end differently: the upload task ends the session of each of
its bridges, the RTMP task drops its segmenter table and ends nothing (`RtmpClosed`).
So of RTMP, `SessionsFollowRequests` speaks while its task runs. The upload service is external: requests appear, gain slots, end
or leave. `IngestSessions` is the session table: ensure, end one or all, prune.

### `QuadraPipeline`: the rendition ladder

The sink's channel, the worker with pending audio and the frames inside decoder and
encoders, audio released up to the least advanced rung, the packaging task and the
end of input. The hardware may hold frames back, emit late and fail.

### `MpegTsDemux`: from packets to access units

Per elementary stream a consumer assembles the payload of PES packets from chunks;
`BeginPacket`, continuation, `EndPacket` (one unit, or one per ADTS frame), `AfterLoss`,
re-registration of the stream, `Finish`, `Reset`, then the dispatch to the sink and
the segmenter. The sink may take or reject each unit; `toSink` remembers every unit it
was offered, in order, and `UnitsAreWhole` asks that the segmenter of a bridge that
publishes its source gets the same ones. Each stream's packets may be lost at any point; the packet reader
that reports the loss is external, and it does not report a loss that nothing
follows.

### `Telemetry` and `DurationHistogram`: reports under way

Each `record_` function is its sequence of steps on atomic counters and locked
tables; a report reads the tables, then counter by counter, and derives health and
alerts, while two tasks record. `DurationHistogram` does the same for a histogram
and the percentile derived from its snapshot.

### `HlsReader`: the probe

`receive_hls` in its five ways of reading: tail, part by part, aggregated
responses, an HTTP/3 pipeline on a connection of its own, and on a shared one. The
edge keeps the last parts only; answers come in any order; the connection may break
once or more and is replaced up to a limit. A request made outside the pipeline (the
playlist, and `init.mp4` once a part is counted) replaces a broken connection by
itself and uses up one of the reconnects, or fails for good. A refresh whose answer is
no playlist leaves the baseline where it was.

## What each run checks

| Run | Instance | What it shows |
|---|---|---|
| `publish_replay` | 3 interchangeable requests, 2 capabilities, 2 coordinates, window 2, enforce | `AtMostOneRelease`, `OneBindingPerCapability`, `ReplayIsJustified`, `TypeOK`, and the inductive `ReleaseInv` |
| `publish_revocation` | 2 requests, tables of 1 entry, installs and revocations on one and two streams | `OneIdentityPerStream`, `RevocationIsFinal`, `RevokedNeverReleased` |
| `publish_observe` | as `publish_replay` with 2 requests and revocations, observe | `MetricsAgree`: the two modes count the same decisions (`ReleasedOnce` below is a theorem for both) |
| `fmp4_bridge` | 1 task, 2 segmenters, 2 configurations, both lanes, 3 parts | `OwnInitializationInSuccession`, `BundleIsDependency`, `InSequence`, `TypeOK` |
| `fmp4_tasks` | 2 tasks with a segmenter each, 3 parts | `SequenceNamesOnePart`, `DependencySentFirst` |
| `segmenter` | 3 parameter sets of 2 resolutions, parts of 2 units, pending limit 2 | `PartsDoNotMix`, `PendingBounded`, `AudioStaysInInit`, `TypeOK` |
| `audio_epoch` | four instances in one run: continuity (the worker alone, three groups of one rendition with a gap, a fault, a format change or a flag, both packagings), retirement (two renditions that fall idle and start again at any moment), shutdown (the whole plane with one group that UDP brought, a shutdown at any moment), streams (the plane with two requests besides UDP, a shutdown at any moment); queues of 1 | `KeepsOrder` (refinement), `PartsAreContinuous`, `OneTaskPerRendition`, `GaugesAgree`, `OneStreamAtATime`, `ShutdownLosesNothing`, `PlaneShutdownCompletes` (liveness), `PlaneTypeOK` |
| `bridges` | two instances: overlap (two upload requests on one output), table (one upload request, two RTMP streams and the shutdown over a full session table) | `PlaylistsFollowRequests`, `SessionsFollowRequests`, `DepartedAreDropped` (liveness), `BridgeTypeOK` |
| `contributor` | the other models that share no state, side by side, one of them moving per behaviour | `MaskIsHistory` and the refinement `ImplementsAtMostOnce` (replay window), `VerdictsAreTrue` (relay), `WireNamesOneSlot` (slots), `LadderInStep` (ladder), `UnitsAreWhole` (demultiplexer), `ReportsAreTrue` (telemetry, histogram), `WindowIsRead` (probe), `ContributorTypeOK` |
| `fmp4_foreign_init`, `segmenter_keyframe`, `segmenter_unconfigured` | the instances above | the three disagreements under *Findings* |

`MCContributor`, `MCBridges` and `MCAudioEpoch` choose the part that moves in their
initial state. The parts of `MCContributor` have no variable in common, so a
behaviour of one is a behaviour of the process as far as that part can see.

Some reductions keep the instances small; none hides a state that a property speaks
of. A part that stands still has one initial state. The upload service moves between
polls only, because a poll works on the snapshot it starts from; in `table`, one
upload request at a time shares the full session table with two RTMP streams, and
`overlap` has the two overlapping ones without RTMP. The telemetry tasks record from
a menu of kinds per instance, because a kind touches its own counters and the
properties compare a kind with itself or with the failures; a counter that no task
of the menu records is read in the order of the code but without interleaving; the
clock moves where something may go stale. The lane changes in the instance without
other errors, where it alone decides the state. A demultiplexer has both outputs, for
with one it does less. In `MCAudioEpoch` each instance is offered the groups that its
question needs, and the worker alone is never asked about the ingress.

### Fairness

Safety needs none. Two properties are about progress:

- `PlaneShutdownCompletes`: after a shutdown `main` returns. Assumed: tokio runs a
  task that can run (weak fairness of each task's steps); `select!` picks among
  ready branches at random, so the UDP task does not overlook a shutdown forever
  while datagrams keep coming (strong fairness of `UdpStop`); the HTTP server ends
  its requests once it is shut down (strong fairness of `Leave` after the
  shutdown). Publications and sends return, with success or failure. Nothing is
  assumed of the peers.
- `DepartedAreDropped`: weak fairness of the upload task's steps, which its
  interval timer justifies. Nothing is assumed of the service or of the requests.

No other run states liveness: an HTTP client may stop sending its body and a media
source may fall silent, so nothing obliges a task to end. `CHECK_DEADLOCK FALSE`
stands where every request, part or unit of the bound is used up, or where the
program has stopped.

### Bounds, and why they are enough

- A window of 2 or 3 bits has all the distances that matter: 0, inside, at the
  edge, past it; sequences 0..8 (part `window` of `contributor`) jump to each of
  them twice. 128 is covered by the
  proofs.
- In `publish_replay`, three requests are one that is released, one that purges
  and one that replays. `c1` expires at 1 and the clock stops at 1, so every
  purge, every expired lease and the verifier's tolerated second occur.
- `publish_revocation` makes the tables hold one entry (`MaxLeases = 1`), so that
  two capabilities compete for it.
- `MaxParts = 3` is the shortest history in which an init goes out, another one
  fails or is indexed by someone else, and a part without an init follows.
- `MaxUnits = MaxPending = AudioTarget = 2`: one unit more than one of each, so
  limits are hit by video alone, audio alone and both.
- `audio_epoch`: queues of capacity 1 are full after one message and make every
  sender wait or drop; three groups are a part, what ends it and what follows;
  three tasks are two renditions of which one retires and starts again. A shutdown
  meets one group, which may then be in either queue, in a task's queue, in hand or
  in a packager; two requests are one that streams and one that is refused.
  Capacities only enter the code as "full" or "not full".
- Relay: two source and one repair symbol, so that a lane may fail before, between
  and after its source; the clock stops at 3 with a hold of 2, so that a lane is
  held as failing after it succeeded again, and released.
- Slots: two slots of 3 and 5 bytes with symbols of 1 and 2, ids modulo 16, the
  counters at 0 or just before their wrap. Two slots at once send fewer packets
  than there are ids, as on the wire.
- Bridges: two requests with up to three slots, started three times in all; a
  session table of one entry, always full.
- Ladder: two rungs, four units, channels of 2. Demultiplexer: H.264 and ADTS, four
  packets in all, payloads that run over their limit of 2.
- Telemetry: two tasks and two calls, one report; an alert list of one. Histogram:
  two tasks, three durations below, on and above two bounds, the median instead of
  the 95th percentile, which needs twenty durations to differ from the greatest.
- Probe: a window of 4 of 5 parts, a pipeline of 2, an edge that keeps 2, two
  reconnects.

### Mutants

Each checked property has an operator beside the definition it mutates (named in
`PROJECT.json`): a purge ahead of expiry, a revived binding, a window a bit too
wide, an index that keeps its first payload, and so on. TLC finds the property
violated under each.

## What is proved

Everything below is proved by TLAPS for all values of the constants, under the named
assumptions of the modules and the hypotheses named here. Each proof follows one
argument: the property is not inductive by itself, so an invariant is strengthened
until every action keeps it (TLC checked it on a run's instance first, for the byte
slots without its ledgers), one lemma per action shows that, and a temporal step
concludes.

**Replay window** (`SequenceWindowProofs`, `SequenceReplayProofs`).
`WindowInvariant`: the mask is the recent past, for every width.
`WindowImplementsPromise`: the window refines `AtMostOnce`; the step compares
`Admits` with `Fresh` through the mask (`VerdictsAgree`).

**Publication gate** (`PublishIngressProofs`).

- `TypeCorrect`, and `ReleaseInvariant`: `ReleaseInv` is invariant. It is needed
  because tables forget entries at expiry, by the clock of whichever request runs.
  Its heart is `LiveLeaseTracked` (while a lease's capability is alive, its window
  exists and holds its sequence spent) and `LiveAdmissionTracked` (its admission
  pins its coordinates); a purge at an arrival time never after the clock cannot
  remove a live entry (`EntriesCarryClaims`, `TaskOrder`), and a spent sequence stays
  spent (`SpentForever`). Hence live leases are distinct, and because a lease is
  looked at once more at the end of its body, those that pass stay distinct after
  their expiry as well (`PassedDistinct`, `PassedOneBinding`).
- `ReleasedOnce`, `ReleasedUnderOneBinding`, `StreamKeepsIdentity`: from it.
- `RevocationFinal`, `RevokedRequestFenced`: an action property, and a property of
  the future of each request, from the stability of the registry and a fence
  (`Denied`) that no later step leaves.
- `MetricsAreTrue`: each counter is the number of requests at the places that it
  counts. The proof moves one request from one such set to another at a time; it
  needs the set of requests to be finite (`RequestAssumption`).
- `ReplaysAreReal`: a refusal for replay is justified by a frame of the same stream
  and capability that was admitted. A verdict is never withdrawn (`VerdictsFinal`),
  what a window holds spent has a witness among the requests (`WindowsJustified`),
  and so has each refusal (`RepliesJustified`).

**fMP4 publication** (`Fmp4PublicationProofs`), for any segmenters, tasks,
configurations and order of lanes.

- `TypeCorrect`, with the shape of a part at each place of its publication
  (`TypeInv`).
- `OnePartPerSequence`: numbers under way are apart from each other and below the
  counter, and what was sent under a number is what its owner still holds
  (`SequenceInv`).
- `InitializationFirst`: a configuration that is indexed, or taken from the index by
  a publication, was sent on every lane that the publication is still to use
  (`DependencyInv`).
- `BoxedForItsInitialization`: as long as no two segmenters of a stream were alive
  together, the one alive remembers the initialization that is indexed, through
  failed sends and reconfigurations (`SuccessionInv`).
- `BundleOfTheDependency`, `PartsInSequence`: under the hypothesis `OnlyTask` (one
  task publishes the stream, as a bridge does its own), the two indexes agree
  whenever no publication stands between them (`OneTaskInv`), and parts go out in
  the order of their numbers. Without it both are false (see the limits below).

**fMP4 segmenter** (`BridgeProofs`, first part): `TypeCorrect`, `NoPartMixes`,
`WaitingMediaBounded`, `AudioTrackKept`, from `SegmenterInv`: what is buffered is of
the current configuration and era (`Uniform`), and what was announced of the audio
track is known (`KnowsAudio`). A call is a composition of operators, so each operator
has a lemma saying what it preserves.

**Bridge tasks** (`BridgeProofs`, second part): `PlaylistsFollow`, from `UploadInv`.
During a poll the promise does not hold: a request has ended and its playlist is
still open. `OpenWhileFed` therefore says that a playlist is open exactly while it is
fed or is owed its end (`poll.finished`), and `PollInStep` that only the request under
way owes one, after its last slot (`SlotsEnd`: nothing follows an end). `OneFeeder`
is inductive because an output is given once (`BridgesTyped`), and the configured one
only when no other request that is alive has an output. The theorem's hypothesis
`OwnIds`: no upload request has the id of an RTMP stream, whose task finishes the
playlists of its own ids. The session table plays no part in it.

**Audio plane** (`AudioEpochProofs`), the worker alone (`HlsSpec`) and in the plane
(`PlaneSpec`).

- `WorkerTypeCorrect`, `PlaneTypeCorrect`: types, and the bounds of the four queues.
- `OneTask`: who runs is in the table or awaited, who is awaited is closed and out of
  the table, and the dispatcher awaits only when it has dispatched everything
  (`LifeInv`: `TypeInv`, `ClosedInv`, `AwaitedInv`, `PlaceInv`).
- `GaugesCount`: `GaugeInv`, a count of the table and of those awaited, which are
  disjoint sets by `LifeInv`.
- `NoPartSpansAGap`: `Continuous`, of the buffered groups, the group in hand and the
  parts together with the expected timestamp that a discontinuity is measured by.
- `LeavesNothing`: a dispatcher that has returned leaves nothing in any queue.
- `WorkerKeepsOrder`, `PlaneKeepsOrder`: the refinement of `OrderedRendition`.
  `Pending`, the line of a rendition, is put together from the buffer, the hand and
  the queue of its one live task; each step is a step of the promise or leaves every
  line as it was.
- `PlaneKeepsPromises`: the plane inherits what holds of the worker, for it only
  offers datagrams and sends the signal.
- `OneStream` (`RequestInv`) and `ShutdownKeepsAll` (`HlsOwed`, `MeshOwed`: what a
  shutdown found queued is the head of the queue, and shrinks only as it is handled).

**MeshForwarder** (`MeshForwarderProofs`).

- `VerdictsStayTrue`, of the relay: the symbols still to send of a job and those
  carried add up to its source (`JobsFollowPlan`), an entry of the ledger is true
  when made and stays so (`EntriesTrue`), the counters are counts of the ledger
  (`CountsTrue`), and the times of a lane are those of its last entries
  (`TimesOrdered`, `LastSeenTrue`); `RelayInv` is their conjunction.
- `SlotsKeepTheirNames`, of the byte slots: the two counters wrap, so that what is
  taken from them cannot be compared by its value. The invariant (`ForwarderInv`)
  says that for each counter there is a *ledger* - where each slot's numbers begin,
  counted from the start without wrapping, and how many it took - whose entries do
  not overlap, whose end is the counter up to wrapping, and in which each slot past
  its reservation and each packet on the wire is found (`Booked`). No variable holds
  the ledgers: they are an existential of the invariant, and a reservation enters a
  slot. The theorem's hypothesis `FewerThanIds` (the slots of the bound times
  `MaxDatagrams` are no more than the ids) is what keeps a number from coming round
  again; in the code the ids are 2^32. The acknowledgement of a raw request is a
  count of packets, which `Counted` keeps for each slot and each request.

**Probe** (`MeasurementProofs`, first part): `WindowStaysRead`, from `ReaderInv`: the baseline
moves only before anything was counted (`BaselineSettles`), the coverage is the set
of counted parts at their places (`Counts`), and in the pipeline whatever lies below
the next request was asked for or counted (`NothingLeftOut`).

**Telemetry** (`MeasurementProofs`, second part): `ReportsStayTrue`, of the record
functions, the status report and the histograms together (`TelemetrySpec`), from
`TelemetryInv` and `HistogramInv`. A call raises a counter, its tables, the time and
the alert in separate steps, so at no moment need they agree. What holds throughout is
that they differ by what the calls under way still owe:

- `CountsAgree`: each counter is the sum of its table and of what the calls that
  have passed the counter have yet to enter there. `AlertsBounded`: the count of an
  alert and the calls that have yet to raise it stay below the counter and the tasks;
  `CallsKnow`: the count in the hand of a call is not ahead of its counter.
- `ReportSound`: the report reads the tables before the counters, so what it has read
  of a table is not ahead of the counter it has read or will read; and what was
  recorded before it began is not ahead of that either, from which its state follows.
- `HistogramInv`: the count and each bucket are those of the durations recorded and of
  the calls that have raised them already (`HistogramCounts`), and a report that began
  between two calls reads no less than was recorded before (`SnapshotKeepsUp`).

The sums run over finite sets of streams, tasks and timers. The lemmas about them (one
term changed, one taken out, one sum below another) are induction over subsets, had
without the library's induction theorems: a collection of finite sets has a smallest
member (`SmallestSet`), and the smallest set on which a lemma fails is none.

### Assumptions

- Gate: the clock does not run backwards (`SystemTime` may), and a capability id is
  signed with one expiry. With either broken, a purged window can be opened again for
  a frame that is still alive. Revisions are natural numbers; the code's saturate at
  2^64-1.
- `NoneAssumption` in the modules with an absent value: it is none of the values it
  stands beside. `OfferedAssumption`: the timestamps of offered groups are natural
  numbers and their flag is one bit, as in `OrderedAudioGroup`.
- Bridges: the configured output and the RTMP output are different, and neither is
  the id of a request or a stream (`BridgeAssumption`); the code's ids are numbers
  that the configuration and the senders choose.
- Telemetry: tasks, streams, timers and bucket bounds are finite sets
  (`TelemetryAssumption`, `HistogramAssumption`).
- The bounds (`MaxParts`, `MaxWorkers`, `MaxForwarded`, ...) are arbitrary.

### Only model-checked

- `PlaneShutdownCompletes` and `DepartedAreDropped`: liveness under fairness, and
  `ENABLED` with it, are out of the prover's reach.
- `SessionsFollowRequests`, `LadderInStep` and `UnitsAreWhole`:
  they speak of folds and selections over sequences (sessions pruned in the order
  they were seen, units per rung, units cut from payloads). What those compute for every input needs induction over data, whose
  theorems take an operator that no installed prover instantiates.
- `BridgeTypeOK` (it includes the session table) and `ContributorTypeOK`: type invariants of modules of which nothing
  else is proved, or, for the relay, slots, window and probe, part of the inductive
  invariants above.

## Findings

Three statements of the repository that the code does not keep; each is a run
whose counterexample TLC prints.

1. `fmp4_foreign_init`. README 208-211 says a media object depends on its
   initialization's key, kept consistent across later parts of the same
   configuration. `publish_fmp4_part` takes the key last indexed for the stream
   and epoch (AC 2058-2070). RIST gives every request the same output (AC
   2298-2314) and expects overlapping ones (AC 2703-2716), so a part of the older
   request is published depending on, and bundled with, its successor's init.
   When requests follow one another the statement holds
   (`OwnInitializationInSuccession`).
2. `segmenter_keyframe`. FB 740-748 drops non-key units "until first keyframe
   after H.264 config", but only in the call that installed the configuration.
3. `segmenter_unconfigured`. FB 960-970 waits for SPS/PPS "before publishing
   fMP4", but asks `seen_video`, which a timestamp reset clears (FB 632) after
   `push_access_unit` set it (FB 555) for the very unit it then buffers.

Limits that are no disagreement with a statement of the repository, met while
modelling:

- With two tasks on one output, parts may be sent out of sequence order and the
  bundle may be of another init than the key (`InSequence` and `BundleIsDependency`
  are therefore checked for one task).
- Audio units without a duration are held without a limit after a timestamp reset
  with video pending.
- What an ingress enqueues while the audio workers are already being joined, or
  after the last `try_recv` of the drain, is counted as handed over and dropped with
  the receiver; `ShutdownLosesNothing` speaks of what was queued at the shutdown.
- When the RTMP task ends at a shutdown, its sessions stay active although no segmenter
  is left (AC 2820-2821), where the upload task ends its own (AC 2412-2424); no
  playlist is finished by either.
- The session id is not part of the rendition's stream id (AE 773-787), and a
  Needletail session is authorised once, at its start.
- A histogram snapshot taken in the middle of a `record` may report a percentile
  that is none: the count is read first and a bucket may not have been raised yet.
  `PercentileIsTrue` speaks of reports that begin between two calls.
- The count of an alert may exceed the errors by the calls in flight (AC 3290,
  4017). A time stamp may go back when a recorder is preempted between reading and
  storing it; in the model no unit of time passes between the two.
- The probe takes a late 200 for a part below a moved baseline as a failure (PR
  3256-3280), a playlist or `init.mp4` request on a broken connection uses up one of
  the reconnects, and the aggregated mode never refreshes its baseline.
- ADTS frames that span two PES packets are dropped, and sixteen packets lost in a
  row are not noticed by the four-bit continuity counter (the model loses fewer).
- At the end of its input the ladder drops the audio still pending.

## Not modelled, and why

Pure parsing and rendering (header and bundle parsing, MPEG-TS packets, NAL units,
MP4 boxes, JSON, the Prometheus text, the activity list), argument checks and
start-up wiring, the FEC codec and the sockets, the external capability verifier
beyond its verdict, the stem and talkback validations, which are functions of one
input with no state; the probe's latency statistics and load generator, and the
three send tools, which run straight through.
Streams of MPEG-TS private data are in `MpegTsDemux` but not in its instance.
Panics of worker tasks are not modelled.

## Plan

Done: replay window and its promise, gate, registry and handler, both with proofs;
`Fmp4Publication`; `Fmp4Segmenter`; the audio plane with its abstract specification;
relay lanes, byte slots, upload and RTMP bridges with the session table, ladder,
demultiplexer, telemetry and the probe's reader.

Next: `UploadBridge` over `Fmp4Publication` in one composition; two demultiplexers
feeding one output; a clock that steps back, as an environment of `PublishIngress`.
