--------------------------- MODULE AudioEpochHls ---------------------------
(***************************************************************************)
(* The audio epoch worker (audio_epoch_hls.rs): one dispatcher takes AEP1  *)
(* datagrams from a bounded queue, gives each to the FEC receiver of its   *)
(* peer, and hands every completed group to the task of its rendition over *)
(* a bounded queue that it waits for.  A rendition task packages groups    *)
(* into parts: opaque ones, or fMP4 by way of a segmenter.  Idle receivers *)
(* and idle rendition tasks are retired; a shutdown drains the queue and   *)
(* stops the tasks.                                                        *)
(*                                                                         *)
(* External: the FEC receiver, whose answer to a datagram is any choice of *)
(* groups or an error, and the publisher, which may fail any part.         *)
(* A group is one unit of time long: frame_count = 1 and one group lasts   *)
(* one part tick; MinUnits is min_part_ms in groups.                       *)
(***************************************************************************)
EXTENDS Naturals, Sequences, FiniteSets, SequencesExt

CONSTANTS
  Peer,          \* the sources of datagrams
  Key,           \* renditions: session, group and payload kind
  Configured,    \* those whose payload kind is configured
  Offered,       \* what groups may carry: key, pts, format, flag, fault
  Completions,   \* the groups one datagram may complete
  QueueCapacity, \* of the dispatcher's queue
  WorkerQueueCapacity,  \* RENDITION_WORKER_QUEUE_CAPACITY
  MinUnits,      \* groups that make a part long enough
  MaxGroups,     \* bound: groups completed
  MaxWorkers,    \* bound: rendition tasks started
  None           \* no expected timestamp, no group in hand, no rendition

ASSUME ConfiguredAssumption == Configured \subseteq Key
ASSUME CompletionsAssumption == Completions \subseteq Seq(Offered)
ASSUME CapacityAssumption ==
  /\ QueueCapacity \in Nat \ {0}
  /\ WorkerQueueCapacity \in Nat \ {0}
  /\ MinUnits \in Nat \ {0}
  /\ MaxGroups \in Nat
  /\ MaxWorkers \in Nat \ {0}

\* A worker number; 0 where the dispatcher has no worker for a key.
Worker == 1 .. MaxWorkers
Group == [id : 1 .. MaxGroups, what : Offered]
Rendition == [format : {o.format : o \in Offered}, expected : Nat \cup {None},
              units : Seq(Group)]
Packaging == {"opaque", "fmp4"}

ASSUME OfferedAssumption ==
  \A o \in Offered : o.pts \in Nat /\ o.flag \in BOOLEAN
ASSUME NoneAssumption ==
  None \notin Key /\ None \notin Nat /\ None \notin Group /\ None \notin Rendition

VARIABLES
  shutdown,      \* the shutdown signal was sent
  hlsQueue,      \* the peers of the datagrams queued for the dispatcher
  packaging,     \* config.packaging
  pc,            \* where the dispatcher waits
  todo,          \* completed groups it still has to dispatch
  receivers,     \* receivers: idle or not
  workers,       \* rendition_workers: the task of each key
  idle,          \* keys whose worker was last seen too long ago
  joining,       \* the tasks whose end it waits for
  task,          \* the rendition tasks
  completed,     \* groups completed so far
  activeReceivers, activeWorkers,  \* ACTIVE_RECEIVERS, _RENDITION_WORKERS
  parts,         \* history: the parts of each key, sent or failed
  refused        \* history: the groups that package_group refused

dispatcher == <<pc, todo, receivers, workers, idle, joining, completed,
                activeReceivers, activeWorkers>>
output == <<parts, refused>>
vars == <<shutdown, hlsQueue, packaging, dispatcher, task, output>>

\* select: in the loop's select!; drain: in the loop over what is left;
\* retire and stop: waiting for tasks to end; stopped: returned.
Place == {"select", "drain", "retire", "stop", "stopped"}

NoTask == [key |-> None, queue |-> <<>>, closed |-> FALSE, held |-> None,
           rendition |-> None, done |-> FALSE]

Init ==
  /\ shutdown = FALSE
  /\ hlsQueue = <<>>
  /\ packaging \in Packaging
  /\ pc = "select"
  /\ todo = <<>>
  /\ receivers = [p \in {} |-> TRUE]
  /\ workers = [k \in Key |-> 0]
  /\ idle = {}
  /\ joining = {}
  /\ task = [w \in Worker |-> NoTask]
  /\ completed = 0
  /\ activeReceivers = 0 /\ activeWorkers = 0
  /\ parts = [k \in Key |-> <<>>]
  /\ refused = {}

-----------------------------------------------------------------------------
\* The world around it.

\* The queue accepts while the dispatcher holds its end.
Accepts == pc # "stopped" /\ Len(hlsQueue) < QueueCapacity

Offer(p) ==
  /\ Accepts
  /\ hlsQueue' = Append(hlsQueue, p)
  /\ UNCHANGED <<shutdown, packaging, dispatcher, task, output>>

Shutdown ==
  /\ ~shutdown
  /\ shutdown' = TRUE
  /\ UNCHANGED <<hlsQueue, packaging, dispatcher, task, output>>

\* AUDIO_EPOCH_IDLE_TIMEOUT goes by with nothing new.
Elapse ==
  /\ receivers' = [p \in DOMAIN receivers |-> TRUE]
  /\ idle' = {k \in Key : workers[k] # 0}
  /\ <<receivers, idle>>' # <<receivers, idle>>
  /\ UNCHANGED <<shutdown, hlsQueue, packaging, pc, todo, workers, joining,
                 task, completed, activeReceivers, activeWorkers, output>>

-----------------------------------------------------------------------------
\* The dispatcher.

Ready == pc \in {"select", "drain"} /\ todo = <<>>

\* A datagram that is no AEP1 payload is dropped before any receiver sees it.
ReceiveInvalid ==
  /\ Ready /\ hlsQueue # <<>>
  /\ hlsQueue' = Tail(hlsQueue)
  /\ UNCHANGED <<shutdown, packaging, dispatcher, task, output>>

\* The receiver of its peer takes it and completes some groups, or fails.
Receive(contents) ==
  LET p == Head(hlsQueue)
      groups == [i \in DOMAIN contents |->
                   [id |-> completed + i, what |-> contents[i]]]
      known == p \in DOMAIN receivers
  IN  /\ Ready /\ hlsQueue # <<>>
      /\ completed + Len(contents) <= MaxGroups
      /\ hlsQueue' = Tail(hlsQueue)
      /\ receivers' = [q \in DOMAIN receivers \cup {p} |->
                         IF q = p THEN FALSE ELSE receivers[q]]
      /\ activeReceivers' = activeReceivers + (IF known THEN 0 ELSE 1)
      /\ completed' = completed + Len(contents)
      /\ todo' = groups
      /\ UNCHANGED <<shutdown, packaging, pc, workers, idle, joining, task,
                     activeWorkers, output>>

\* dispatch_group_to_rendition_worker: the task of the group's key, started
\* when there is none, and a send that waits for room in its queue.
Unused == {w \in Worker : task[w].key = None}

\* A group of a kind that is not configured is passed over.
Skip ==
  /\ todo # <<>> /\ Head(todo).what.key \notin Configured
  /\ todo' = Tail(todo)
  /\ UNCHANGED <<shutdown, hlsQueue, packaging, pc, receivers, workers, idle,
                 joining, completed, activeReceivers, activeWorkers, task,
                 output>>

\* The task of a key, or the next unused one.
Takes(w, k) ==
  \/ workers[k] # 0 /\ w = workers[k]
  \/ workers[k] = 0 /\ w \in Unused /\ \A v \in Unused : w <= v

Dispatch ==
  LET g == Head(todo)
      k == g.what.key
  IN  /\ todo # <<>> /\ k \in Configured
      /\ \E w \in Worker :
           /\ Takes(w, k)
           /\ Len(task[w].queue) < WorkerQueueCapacity
           /\ workers' = [workers EXCEPT ![k] = w]
           /\ task' = [task EXCEPT ![w].key = k, ![w].queue = Append(@, g)]
      /\ todo' = Tail(todo)
      /\ idle' = idle \ {k}
      /\ activeWorkers' = activeWorkers + (IF workers[k] # 0 THEN 0 ELSE 1)
      /\ UNCHANGED <<shutdown, hlsQueue, packaging, pc, receivers, joining,
                     completed, activeReceivers, output>>

\* Mutant of Close: the senders are kept, so that the tasks wait for more.
CloseKeepsSenders(W) ==
  /\ UNCHANGED task
  /\ joining' = W

\* stop_rendition_workers drops the senders of a set of tasks, then awaits
\* their handles.
Close(W) ==
  /\ task' = [w \in Worker |-> [task[w] EXCEPT !.closed = @ \/ w \in W]]
  /\ joining' = W

\* The bound on tasks leaves one for every key that may still need it.
CanStartAgain(retired) ==
  LET without == {k \in Configured : workers[k] = 0 \/ k \in retired}
  IN  Cardinality(Unused) >= Cardinality(without) \/ retired = {}

\* Mutant of Sweep: the retired tasks are not awaited.
SweepDetached ==
  LET stale == {p \in DOMAIN receivers : receivers[p]}
  IN  /\ pc = "select" /\ todo = <<>>
      /\ stale # {} \/ idle # {}
      /\ CanStartAgain(idle)
      /\ receivers' = [p \in DOMAIN receivers \ stale |-> FALSE]
      /\ activeReceivers' = activeReceivers - Cardinality(stale)
      /\ activeWorkers' = activeWorkers - Cardinality(idle)
      /\ task' = [w \in Worker |-> [task[w] EXCEPT
                    !.closed = @ \/ \E k \in idle : workers[k] = w]]
      /\ workers' = [k \in Key |-> IF k \in idle THEN 0 ELSE workers[k]]
      /\ idle' = {}
      /\ UNCHANGED <<shutdown, hlsQueue, packaging, pc, todo, joining,
                     completed, output>>

\* The idle sweep: receivers at once, tasks when they have ended.
Sweep ==
  LET stale == {p \in DOMAIN receivers : receivers[p]}
  IN  /\ pc = "select" /\ todo = <<>>
      /\ stale # {} \/ idle # {}
      /\ CanStartAgain(idle)
      /\ receivers' = [p \in DOMAIN receivers \ stale |-> FALSE]
      /\ activeReceivers' = activeReceivers - Cardinality(stale)
      /\ Close({workers[k] : k \in idle})
      /\ workers' = [k \in Key |-> IF k \in idle THEN 0 ELSE workers[k]]
      /\ idle' = {}
      /\ pc' = IF idle = {} THEN "select" ELSE "retire"
      /\ UNCHANGED <<shutdown, hlsQueue, packaging, todo, completed,
                     activeWorkers, output>>

SeeShutdown ==
  /\ pc = "select" /\ todo = <<>>
  /\ shutdown
  /\ pc' = "drain"
  /\ UNCHANGED <<shutdown, hlsQueue, packaging, todo, receivers, workers, idle,
                 joining, completed, activeReceivers, activeWorkers, task,
                 output>>

\* Nothing is left to drain.
EndDrain ==
  /\ pc = "drain" /\ todo = <<>> /\ hlsQueue = <<>>
  /\ pc' = "stop"
  /\ activeReceivers' = activeReceivers - Cardinality(DOMAIN receivers)
  /\ receivers' = [p \in {} |-> TRUE]
  /\ Close({workers[k] : k \in Key} \ {0})
  /\ workers' = [k \in Key |-> 0]
  /\ idle' = {}
  /\ UNCHANGED <<shutdown, hlsQueue, packaging, todo, completed,
                 activeWorkers, output>>

\* Mutant of Join: the gauge of the tasks is not given back.
JoinKeepsGauge ==
  /\ pc \in {"retire", "stop"}
  /\ \A w \in joining : task[w].done
  /\ pc' = IF pc = "retire" THEN "select" ELSE "stopped"
  /\ joining' = {}
  /\ UNCHANGED <<shutdown, hlsQueue, packaging, todo, receivers, workers, idle,
                 completed, activeReceivers, activeWorkers, task, output>>

Join ==
  /\ pc \in {"retire", "stop"}
  /\ \A w \in joining : task[w].done
  /\ pc' = IF pc = "retire" THEN "select" ELSE "stopped"
  /\ activeWorkers' = activeWorkers - Cardinality(joining)
  /\ joining' = {}
  /\ UNCHANGED <<shutdown, hlsQueue, packaging, todo, receivers, workers, idle,
                 completed, activeReceivers, task, output>>

-----------------------------------------------------------------------------
\* A rendition task: package_group, in the two stretches between its awaits.

\* What the next group finds: the continuity segment under way, whose units
\* the packager holds.
NewRendition(g) == [format |-> g.what.format, expected |-> None, units |-> <<>>]

\* Mutant of Discontinuous: a gap in time is not one.
DiscontinuousByFormat(r, g) ==
  r.format # g.what.format \/ g.what.flag

Discontinuous(r, g) ==
  \/ r.format # g.what.format
  \/ r.expected # None /\ r.expected # g.what.pts
  \/ g.what.flag

\* An explicit erasure, an empty payload or impossible dimensions.
Unpackable(g) == g.what.fault = "erasure"

Emit(k, units, sent) ==
  parts' = IF units = <<>> THEN parts
           ELSE [parts EXCEPT ![k] =
                   Append(@, [units |-> units, sent |-> sent])]

\* An empty packager has nothing that can fail.  The fMP4 segmenter keeps the
\* failure of a part to itself.
Propagates(units, sent) == units # <<>> /\ ~sent /\ packaging = "opaque"

Become(w, queue, held, rendition) ==
  task' = [task EXCEPT ![w].queue = queue, ![w].held = held,
                       ![w].rendition = rendition]

Refuse(g) == refused' = refused \cup {g}

RefuseUnpackable(w) ==
  LET g == Head(task[w].queue)
  IN  /\ task[w].held = None /\ task[w].queue # <<>>
      /\ Unpackable(g)
      /\ Become(w, Tail(task[w].queue), None, task[w].rendition)
      /\ Refuse(g)
      /\ UNCHANGED <<shutdown, hlsQueue, packaging, dispatcher, parts>>

\* Up to `expected_pts_samples = ...`: a discontinuity finishes and resets the
\* packager; if that fails the group is lost and everything else stays.
Begin(w, sent) ==
  LET g == Head(task[w].queue)
      rest == Tail(task[w].queue)
      r == IF task[w].rendition = None THEN NewRendition(g)
           ELSE task[w].rendition
      units == IF Discontinuous(r, g) THEN r.units ELSE <<>>
      fails == Propagates(units, sent)
  IN  /\ task[w].held = None /\ task[w].queue # <<>>
      /\ ~Unpackable(g)
      /\ sent \/ units # <<>>
      /\ Emit(task[w].key, units, sent)
      /\ IF fails
         THEN Become(w, rest, None, [r EXCEPT !.units = <<>>]) /\ Refuse(g)
         ELSE /\ IF Discontinuous(r, g)
                 THEN Become(w, rest, g, [r EXCEPT !.format = g.what.format,
                                                   !.units = <<>>])
                 ELSE Become(w, rest, g, r)
              /\ UNCHANGED refused
      /\ UNCHANGED <<shutdown, hlsQueue, packaging, dispatcher>>

\* From there: the timestamp is taken, then a group that cannot be converted
\* is refused, any other is pushed and ends a part that is long enough.
Push(w, sent) ==
  LET g == task[w].held
      r == [task[w].rendition EXCEPT !.expected = g.what.pts + 1]
      units == Append(r.units, g)
      full == Len(units) >= MinUnits
  IN  /\ g # None
      /\ IF g.what.fault = "conversion"
         THEN /\ sent
              /\ Become(w, task[w].queue, None, r)
              /\ Refuse(g)
              /\ UNCHANGED parts
         ELSE /\ sent \/ full
              /\ Become(w, task[w].queue, None,
                        [r EXCEPT !.units = IF full THEN <<>> ELSE units])
              /\ Emit(task[w].key, IF full THEN units ELSE <<>>, sent)
              /\ UNCHANGED refused
      /\ UNCHANGED <<shutdown, hlsQueue, packaging, dispatcher>>

\* Mutant of Finish: what is buffered is dropped.
FinishWithoutFlush(w, sent) ==
  /\ task[w].closed /\ ~task[w].done
  /\ task[w].held = None /\ task[w].queue = <<>>
  /\ sent
  /\ task' = [task EXCEPT ![w].done = TRUE, ![w].rendition = None]
  /\ UNCHANGED <<shutdown, hlsQueue, packaging, dispatcher, output>>

\* The queue is empty and closed: flush what is buffered and end.
Finish(w, sent) ==
  LET r == task[w].rendition
      units == IF r = None THEN <<>> ELSE r.units
  IN  /\ task[w].closed /\ ~task[w].done
      /\ task[w].held = None /\ task[w].queue = <<>>
      /\ sent \/ units # <<>>
      /\ Emit(task[w].key, units, sent)
      /\ task' = [task EXCEPT ![w].done = TRUE, ![w].rendition = None]
      /\ UNCHANGED <<shutdown, hlsQueue, packaging, dispatcher, refused>>

-----------------------------------------------------------------------------
TaskStep(w) ==
  \/ RefuseUnpackable(w)
  \/ \E sent \in BOOLEAN : Begin(w, sent) \/ Push(w, sent) \/ Finish(w, sent)

DispatcherStep ==
  \/ ReceiveInvalid
  \/ \E contents \in Completions : Receive(contents)
  \/ Skip
  \/ Dispatch
  \/ Sweep
  \/ SeeShutdown
  \/ EndDrain
  \/ Join

Next ==
  \/ \E p \in Peer : Offer(p)
  \/ Shutdown
  \/ Elapse
  \/ DispatcherStep
  \/ \E w \in Worker : TaskStep(w)

\* The worker in an environment that offers what it likes.
HlsSpec == Init /\ [][Next]_vars

-----------------------------------------------------------------------------
\* Properties.

\* The dispatcher, its queues and its tables have their types; the bounded
\* queues never hold more than they may.
TypeOK ==
  /\ pc \in Place
  /\ Len(hlsQueue) <= QueueCapacity /\ ToSet(hlsQueue) \subseteq Peer
  /\ ToSet(todo) \subseteq Group
  /\ DOMAIN receivers \subseteq Peer
  /\ workers \in [Key -> 0 .. MaxWorkers]
  /\ idle \subseteq {k \in Key : workers[k] # 0}
  /\ joining \subseteq Worker
  /\ completed \in 0 .. MaxGroups
  /\ refused \subseteq Group
  /\ \A w \in Worker :
       /\ Len(task[w].queue) <= WorkerQueueCapacity
       /\ task[w].held \in Group \cup {None}

Live(w) == task[w].key # None /\ ~task[w].done

\* Across retirements and restarts a rendition has one task: the dispatcher
\* waits for a retired one to end before it can start another (lines 492-521,
\* 556-570), or the two would publish one stream together.
OneTaskPerRendition ==
  \A v, w \in Worker :
    Live(v) /\ Live(w) /\ task[v].key = task[w].key => v = w

\* Where the dispatcher rests, ACTIVE_RECEIVERS and ACTIVE_RENDITION_WORKERS
\* are the sizes of its tables, and zero once it has stopped: every retirement
\* and the shutdown give back what they took.
GaugesAgree ==
  pc \in {"select", "drain", "stopped"} =>
    /\ activeReceivers = Cardinality(DOMAIN receivers)
    /\ activeWorkers = Cardinality({k \in Key : workers[k] # 0})
    /\ activeWorkers = Cardinality({w \in Worker : Live(w)})

\* The time between two groups of a part is that of groups refused for what
\* they carry: a part never spans a lost group, an erasure, a format change or
\* a flagged discontinuity (package_group, lines 672-689).
Refusable(pts, k) ==
  \E g \in refused :
    g.what.key = k /\ g.what.pts = pts /\ g.what.fault = "conversion"

Joined(g, h) ==
  /\ h.what.pts > g.what.pts
  /\ h.what.format = g.what.format
  /\ ~h.what.flag
  /\ \A pts \in g.what.pts + 1 .. h.what.pts - 1 : Refusable(pts, g.what.key)

PartsAreContinuous ==
  \A k \in Key : \A i \in DOMAIN parts[k] :
    LET units == parts[k][i].units
    IN  \A j \in 1 .. Len(units) - 1 : Joined(units[j], units[j + 1])

\* Groups of a key that have been dispatched and have not left.
InLine(w) ==
  LET t == task[w]
      buffered == IF t.rendition = None THEN <<>> ELSE t.rendition.units
      held == IF t.held = None THEN <<>> ELSE <<t.held>>
  IN  buffered \o held \o t.queue

Pending ==
  [k \in Key |->
     LET live == {w \in Worker : Live(w) /\ task[w].key = k}
     IN  IF live = {} THEN <<>>
         ELSE InLine(CHOOSE w \in live : \A v \in live : v <= w)]

\* Every rendition leaves its groups in order, once, whole parts at a time, or
\* refuses them: through the queues, the retirements and the shutdown drain.
Promise == INSTANCE OrderedRendition WITH pending <- Pending
KeepsOrder == Promise!Spec

\* What a stopped dispatcher has left behind in queues and packagers: nothing.
NothingLeftBehind ==
  pc = "stopped" => todo = <<>> /\ \A k \in Key : Pending[k] = <<>>

=============================================================================
