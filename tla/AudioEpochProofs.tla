-------------------------- MODULE AudioEpochProofs --------------------------
(***************************************************************************)
(* Theorems about the audio epoch plane, for every set of peers, renditions*)
(* and groups, every capacity and every part length: of the worker alone   *)
(* first, then of the plane it is part of.                                 *)
(***************************************************************************)
EXTENDS AudioEpochPlane, FiniteSetTheorems, SequenceTheorems, TLAPS

-----------------------------------------------------------------------------
\* Type correctness.

TaskType == [key : Key \cup {None}, queue : Seq(Group), closed : BOOLEAN,
             held : Group \cup {None}, rendition : Rendition \cup {None},
             done : BOOLEAN]

PartType == [units : Seq(Group), sent : BOOLEAN]

TasksTyped ==
  /\ task \in [Worker -> TaskType]
  /\ \A w \in Worker : Len(task[w].queue) <= WorkerQueueCapacity

TablesTyped ==
  /\ pc \in Place
  /\ workers \in [Key -> 0 .. MaxWorkers]
  /\ idle \subseteq {k \in Key : workers[k] # 0}
  /\ joining \subseteq Worker
  /\ DOMAIN receivers \subseteq Peer

QueuesTyped ==
  /\ todo \in Seq(Group)
  /\ hlsQueue \in Seq(Peer) /\ Len(hlsQueue) <= QueueCapacity
  /\ completed \in 0 .. MaxGroups

OutputTyped ==
  /\ parts \in [Key -> Seq(PartType)]
  /\ refused \subseteq Group

\* A task that packages has a key; one with a group in hand has a rendition.
TasksFormed ==
  \A w \in Worker :
    /\ task[w].key = None => task[w] = NoTask
    /\ task[w].held # None => task[w].rendition # None

\* The table holds a key's task under that key.
TableNamed ==
  \A k \in Key : workers[k] # 0 => task[workers[k]].key = k

TypeInv ==
  /\ TasksTyped /\ TablesTyped /\ QueuesTyped /\ OutputTyped
  /\ TasksFormed /\ TableNamed

LEMMA BoundFacts ==
  /\ QueueCapacity \in Nat \ {0} /\ WorkerQueueCapacity \in Nat \ {0}
  /\ MinUnits \in Nat \ {0} /\ MaxGroups \in Nat /\ MaxWorkers \in Nat \ {0}
  /\ Worker = 1 .. MaxWorkers /\ Worker \subseteq Nat /\ 0 \notin Worker
BY CapacityAssumption DEF Worker

LEMMA GroupFacts ==
  ASSUME NEW g \in Group
  PROVE  /\ g # None /\ g.what \in Offered /\ g.what.pts \in Nat
         /\ g.what.flag \in BOOLEAN
         /\ g.what.pts + 1 \in Nat \cup {None}
         /\ NewRendition(g) \in Rendition
<1>1. g # None /\ g.what \in Offered
  BY NoneAssumption DEF Group
<1>2. g.what.pts \in Nat /\ g.what.flag \in BOOLEAN
  BY <1>1, OfferedAssumption
<1>3. <<>> \in Seq(Group)
  OBVIOUS
<1>4. QED
  BY <1>1, <1>2, <1>3 DEF NewRendition, Rendition

-----------------------------------------------------------------------------
\* What the moves of a rendition task do to it, field by field.

OthersStay(w) == \A v \in Worker \ {w} : task'[v] = task[v]

Remains(w) ==
  /\ task' \in [Worker -> TaskType]
  /\ task'[w].key = task[w].key /\ task'[w].closed = task[w].closed
  /\ task'[w].done = task[w].done
  /\ OthersStay(w)

LEMMA BecomeFacts ==
  ASSUME TasksTyped, NEW w \in Worker, NEW queue \in Seq(Group),
         NEW held \in Group \cup {None}, NEW r \in Rendition \cup {None},
         Become(w, queue, held, r)
  PROVE  /\ Remains(w)
         /\ task'[w].queue = queue /\ task'[w].held = held
         /\ task'[w].rendition = r
<1>1. task[w] \in TaskType
  BY DEF TasksTyped
<1>2. [task[w] EXCEPT !.queue = queue, !.held = held, !.rendition = r] \in TaskType
  BY <1>1 DEF TaskType
<1>3. task' = [task EXCEPT ![w] =
                 [task[w] EXCEPT !.queue = queue, !.held = held, !.rendition = r]]
  BY DEF TasksTyped, Become
<1>4. /\ task' \in [Worker -> TaskType] /\ OthersStay(w)
      /\ task'[w] = [task[w] EXCEPT !.queue = queue, !.held = held,
                                    !.rendition = r]
  BY <1>2, <1>3 DEF TasksTyped, OthersStay
<1>5. QED
  BY <1>1, <1>4 DEF TaskType, Remains

LEMMA EmitFacts ==
  ASSUME OutputTyped, NEW k \in Key, NEW units \in Seq(Group),
         NEW sent \in BOOLEAN, Emit(k, units, sent)
  PROVE  /\ parts' \in [Key -> Seq(PartType)]
         /\ parts'[k] = IF units = <<>> THEN parts[k]
                        ELSE Append(parts[k], [units |-> units, sent |-> sent])
         /\ \A j \in Key \ {k} : parts'[j] = parts[j]
<1>1. [units |-> units, sent |-> sent] \in PartType
  BY DEF PartType
<1>2. Append(parts[k], [units |-> units, sent |-> sent]) \in Seq(PartType)
  BY <1>1 DEF OutputTyped
<1>3. QED
  BY <1>2 DEF OutputTyped, Emit

\* The next group of a task's queue.
LEMMA NextGroup ==
  ASSUME TasksTyped, NEW w \in Worker, task[w].queue # <<>>
  PROVE  /\ Head(task[w].queue) \in Group /\ Tail(task[w].queue) \in Seq(Group)
         /\ Len(Tail(task[w].queue)) <= WorkerQueueCapacity
         /\ task[w].queue = <<Head(task[w].queue)>> \o Tail(task[w].queue)
<1>1. task[w].queue \in Seq(Group) /\ Len(task[w].queue) <= WorkerQueueCapacity
  BY DEF TasksTyped, TaskType
<1>2. QED
  BY <1>1, BoundFacts

\* A task takes the next group of its queue and refuses it, or takes it in hand;
\* the group in hand is refused or pushed; a task of an ended queue ends.
Gone(w) == Head(task[w].queue)

\* The rendition the next group finds.
Found(w) == IF task[w].rendition = None THEN NewRendition(Gone(w))
            ELSE task[w].rendition

Draws(w) ==
  /\ task[w].held = None /\ task[w].queue # <<>>
  /\ task'[w].queue = Tail(task[w].queue)
  /\ Remains(w)

Passes(w) ==
  /\ Draws(w)
  /\ task'[w].held = None /\ task'[w].rendition = task[w].rendition
  /\ refused' = refused \cup {Gone(w)} /\ parts' = parts

\* The part that a discontinuity ends cannot be sent: the group is lost with it.
Loses(w, sent) ==
  /\ Draws(w)
  /\ ~sent /\ Found(w).units # <<>>
  /\ task'[w].held = None
  /\ task'[w].rendition = [Found(w) EXCEPT !.units = <<>>]
  /\ refused' = refused \cup {Gone(w)}
  /\ Emit(task[w].key, Found(w).units, sent)

Breaks(w, sent) ==
  /\ Draws(w)
  /\ task'[w].held = Gone(w)
  /\ task'[w].rendition =
       [Found(w) EXCEPT !.format = Gone(w).what.format, !.units = <<>>]
  /\ refused' = refused
  /\ Emit(task[w].key, Found(w).units, sent)

Continues(w) ==
  /\ Draws(w)
  /\ ~Discontinuous(Found(w), Gone(w))
  /\ task'[w].held = Gone(w)
  /\ task'[w].rendition = Found(w)
  /\ refused' = refused /\ parts' = parts

InHand(w) == task[w].held
After(w) == [task[w].rendition EXCEPT !.expected = InHand(w).what.pts + 1]

Holds(w) ==
  /\ task[w].held # None
  /\ task'[w].queue = task[w].queue /\ task'[w].held = None
  /\ Remains(w)

CannotConvert(w) ==
  /\ Holds(w)
  /\ InHand(w).what.fault = "conversion"
  /\ task'[w].rendition = After(w)
  /\ refused' = refused \cup {InHand(w)} /\ parts' = parts

Buffers(w) ==
  /\ Holds(w)
  /\ task'[w].rendition =
       [After(w) EXCEPT !.units = Append(After(w).units, InHand(w))]
  /\ refused' = refused /\ parts' = parts

Fills(w, sent) ==
  /\ Holds(w)
  /\ task'[w].rendition = [After(w) EXCEPT !.units = <<>>]
  /\ refused' = refused
  /\ Emit(task[w].key, Append(After(w).units, InHand(w)), sent)

Ends(w, sent) ==
  /\ task' \in [Worker -> TaskType]
  /\ task[w].closed /\ ~task[w].done
  /\ task[w].held = None /\ task[w].queue = <<>>
  /\ task'[w].key = task[w].key /\ task'[w].closed = task[w].closed
  /\ task'[w].done = TRUE /\ task'[w].queue = <<>>
  /\ task'[w].held = None /\ task'[w].rendition = None
  /\ OthersStay(w)
  /\ refused' = refused
  /\ Emit(task[w].key,
          IF task[w].rendition = None THEN <<>> ELSE task[w].rendition.units, sent)

Moves(w) ==
  \/ Passes(w) \/ Continues(w) \/ CannotConvert(w) \/ Buffers(w)
  \/ \E sent \in BOOLEAN :
       Loses(w, sent) \/ Breaks(w, sent) \/ Fills(w, sent) \/ Ends(w, sent)

\* What a task finds and makes of it is typed.
LEMMA FoundType ==
  ASSUME TypeInv, NEW w \in Worker, task[w].queue # <<>>
  PROVE  /\ Gone(w) \in Group /\ Found(w) \in Rendition
         /\ Found(w).units \in Seq(Group)
         /\ [Found(w) EXCEPT !.units = <<>>] \in Rendition
         /\ [Found(w) EXCEPT !.format = Gone(w).what.format, !.units = <<>>]
              \in Rendition
<1>1. Gone(w) \in Group
  BY NextGroup DEF TypeInv, Gone
<1>2. Found(w) \in Rendition
  BY <1>1, GroupFacts DEF TypeInv, TasksTyped, TaskType, Found
<1>3. <<>> \in Seq(Group) /\ Gone(w).what.format \in {o.format : o \in Offered}
  BY <1>1, GroupFacts
<1>4. QED
  BY <1>1, <1>2, <1>3 DEF Rendition

LEMMA AfterType ==
  ASSUME TypeInv, NEW w \in Worker, task[w].held # None
  PROVE  /\ InHand(w) \in Group /\ task[w].rendition \in Rendition
         /\ After(w) \in Rendition /\ After(w).units = task[w].rendition.units
         /\ After(w).format = task[w].rendition.format
         /\ After(w).expected = InHand(w).what.pts + 1
         /\ Append(After(w).units, InHand(w)) \in Seq(Group)
         /\ [After(w) EXCEPT !.units = <<>>] \in Rendition
         /\ [After(w) EXCEPT !.units = Append(After(w).units, InHand(w))] \in Rendition
<1>1. InHand(w) \in Group /\ task[w].rendition \in Rendition
  BY DEF TypeInv, TasksTyped, TaskType, TasksFormed, InHand
<1>2. InHand(w).what.pts + 1 \in Nat \cup {None}
  BY <1>1, GroupFacts
<1>3. /\ After(w) \in Rendition /\ After(w).units = task[w].rendition.units
      /\ After(w).format = task[w].rendition.format
      /\ After(w).expected = InHand(w).what.pts + 1
  BY <1>1, <1>2 DEF Rendition, After
<1>4. <<>> \in Seq(Group) /\ Append(After(w).units, InHand(w)) \in Seq(Group)
  BY <1>1, <1>3 DEF Rendition
<1>5. QED
  BY <1>1, <1>3, <1>4 DEF Rendition

\* A task that can move has a key.
LEMMA MoverHasKey ==
  ASSUME TypeInv, NEW w \in Worker,
         task[w].queue # <<>> \/ task[w].held # None \/ task[w].closed
  PROVE  task[w].key \in Key
BY DEF TypeInv, TasksTyped, TaskType, TasksFormed, NoTask

LEMMA TypedTasks == TypeInv => TasksTyped
BY DEF TypeInv

LEMMA RefusalMoves ==
  ASSUME TypeInv, NEW w \in Worker, RefuseUnpackable(w)
  PROVE  Moves(w)
<1>1. Tail(task[w].queue) \in Seq(Group) /\ task[w].queue # <<>>
  BY NextGroup DEF RefuseUnpackable, TypeInv
<1>2. task[w].rendition \in Rendition \cup {None}
  BY DEF TypeInv, TasksTyped, TaskType
<1>3. Become(w, Tail(task[w].queue), None, task[w].rendition)
  BY DEF RefuseUnpackable
<1>4. /\ task'[w].queue = Tail(task[w].queue) /\ Remains(w)
      /\ task'[w].held = None /\ task'[w].rendition = task[w].rendition
  <2> DEFINE r == task[w].rendition
             rest == Tail(task[w].queue)
  <2>1. rest \in Seq(Group) /\ r \in Rendition \cup {None} /\ Become(w, rest, None, r)
    BY <1>1, <1>2, <1>3
  <2>2. task'[w].queue = rest /\ Remains(w) /\ task'[w].held = None /\ task'[w].rendition = r
    <3> HIDE DEF r, rest
    <3>1. QED
      BY <2>1, TypedTasks, BecomeFacts
  <2>3. QED
    BY <2>2
<1>5. Passes(w)
  BY <1>4 DEF RefuseUnpackable, Refuse, Passes, Draws, Gone
<1>6. QED
  BY <1>5 DEF Moves

LEMMA BeginMoves ==
  ASSUME TypeInv, NEW w \in Worker, NEW sent \in BOOLEAN, Begin(w, sent)
  PROVE  Moves(w)
<1> DEFINE g == Gone(w)
           rest == Tail(task[w].queue)
           r == Found(w)
           units == IF Discontinuous(r, g) THEN r.units ELSE <<>>
<1>1. task[w].held = None /\ task[w].queue # <<>>
  BY DEF Begin
<1>2. /\ g \in Group /\ rest \in Seq(Group)
      /\ r \in Rendition /\ [r EXCEPT !.units = <<>>] \in Rendition
      /\ [r EXCEPT !.format = g.what.format, !.units = <<>>] \in Rendition
  BY <1>1, FoundType, NextGroup DEF TypeInv
<1>3. /\ Emit(task[w].key, units, sent)
      /\ IF Propagates(units, sent)
         THEN Become(w, rest, None, [r EXCEPT !.units = <<>>]) /\ Refuse(g)
         ELSE /\ IF Discontinuous(r, g)
                 THEN Become(w, rest, g, [r EXCEPT !.format = g.what.format,
                                                   !.units = <<>>])
                 ELSE Become(w, rest, g, r)
              /\ UNCHANGED refused
  BY DEF Begin, Gone, Found
<1>4. CASE Propagates(units, sent)
  <2>1. Become(w, rest, None, [r EXCEPT !.units = <<>>]) /\ Refuse(g)
    BY <1>3, <1>4
  <2>2. /\ task'[w].queue = rest /\ Remains(w) /\ task'[w].held = None
        /\ task'[w].rendition = [r EXCEPT !.units = <<>>]
    <3> HIDE DEF g, rest, r
    <3>1. QED
      BY <1>2, <2>1, TypedTasks, BecomeFacts
  <2>3. units # <<>> /\ ~sent /\ units = r.units
    BY <1>4 DEF Propagates
  <2>4. Loses(w, sent)
    BY <1>1, <1>3, <2>1, <2>2, <2>3 DEF Loses, Draws, Refuse
  <2>5. QED
    BY <2>4 DEF Moves
<1>5. CASE ~Propagates(units, sent) /\ Discontinuous(r, g)
  <2>1. /\ Become(w, rest, g, [r EXCEPT !.format = g.what.format, !.units = <<>>])
        /\ refused' = refused
    BY <1>3, <1>5
  <2>2. /\ task'[w].queue = rest /\ Remains(w) /\ task'[w].held = g
        /\ task'[w].rendition = [r EXCEPT !.format = g.what.format, !.units = <<>>]
    <3> HIDE DEF g, rest, r
    <3>1. QED
      BY <1>2, <2>1, TypedTasks, BecomeFacts
  <2>3. Breaks(w, sent)
    BY <1>1, <1>3, <1>5, <2>1, <2>2 DEF Breaks, Draws
  <2>4. QED
    BY <2>3 DEF Moves
<1>6. CASE ~Propagates(units, sent) /\ ~Discontinuous(r, g)
  <2>1. Become(w, rest, g, r) /\ refused' = refused
    BY <1>3, <1>6
  <2>2. /\ task'[w].queue = rest /\ Remains(w) /\ task'[w].held = g
        /\ task'[w].rendition = r
    <3> HIDE DEF g, rest, r
    <3>1. QED
      BY <1>2, <2>1, TypedTasks, BecomeFacts
  <2>3. parts' = parts
    BY <1>3, <1>6 DEF Emit
  <2>4. Continues(w)
    BY <1>1, <1>6, <2>1, <2>2, <2>3 DEF Continues, Draws
  <2>5. QED
    BY <2>4 DEF Moves
<1>7. QED
  BY <1>4, <1>5, <1>6

LEMMA PushMoves ==
  ASSUME TypeInv, NEW w \in Worker, NEW sent \in BOOLEAN, Push(w, sent)
  PROVE  Moves(w)
<1> DEFINE g == InHand(w)
           r == After(w)
           units == Append(r.units, g)
           full == Len(units) >= MinUnits
<1>1. task[w].held # None
  BY DEF Push
<1>2. /\ g \in Group /\ r \in Rendition /\ units \in Seq(Group)
      /\ [r EXCEPT !.units = <<>>] \in Rendition
      /\ [r EXCEPT !.units = units] \in Rendition
  BY <1>1, AfterType
<1>3. task[w].queue \in Seq(Group)
  BY DEF TypeInv, TasksTyped, TaskType
<1>4. IF g.what.fault = "conversion"
      THEN /\ Become(w, task[w].queue, None, r)
           /\ Refuse(g)
           /\ parts' = parts
      ELSE /\ Become(w, task[w].queue, None,
                     [r EXCEPT !.units = IF full THEN <<>> ELSE units])
           /\ Emit(task[w].key, IF full THEN units ELSE <<>>, sent)
           /\ refused' = refused
  BY DEF Push, After, InHand
<1>5. ASSUME NEW after \in Rendition, Become(w, task[w].queue, None, after)
      PROVE  Holds(w) /\ task'[w].rendition = after
  BY <1>1, <1>3, <1>5, TypedTasks, BecomeFacts DEF Holds
<1>6. CASE g.what.fault = "conversion"
  <2>1. Holds(w) /\ task'[w].rendition = r
    BY <1>2, <1>4, <1>5, <1>6
  <2>2. CannotConvert(w)
    BY <1>4, <1>6, <2>1 DEF CannotConvert, Refuse
  <2>3. QED
    BY <2>2 DEF Moves
<1>7. CASE g.what.fault # "conversion" /\ full
  <2>1. /\ Become(w, task[w].queue, None, [r EXCEPT !.units = <<>>])
        /\ Emit(task[w].key, units, sent) /\ refused' = refused
    BY <1>4, <1>7
  <2>2. Holds(w) /\ task'[w].rendition = [r EXCEPT !.units = <<>>]
    BY <1>2, <1>5, <2>1
  <2>3. Fills(w, sent)
    BY <2>1, <2>2 DEF Fills
  <2>4. QED
    BY <2>3 DEF Moves
<1>8. CASE g.what.fault # "conversion" /\ ~full
  <2>1. /\ Become(w, task[w].queue, None, [r EXCEPT !.units = units])
        /\ parts' = parts /\ refused' = refused
    BY <1>4, <1>8 DEF Emit
  <2>2. Holds(w) /\ task'[w].rendition = [r EXCEPT !.units = units]
    BY <1>2, <1>5, <2>1
  <2>3. Buffers(w)
    BY <2>1, <2>2 DEF Buffers
  <2>4. QED
    BY <2>3 DEF Moves
<1>9. QED
  BY <1>6, <1>7, <1>8

LEMMA FinishMoves ==
  ASSUME TypeInv, NEW w \in Worker, NEW sent \in BOOLEAN, Finish(w, sent)
  PROVE  Moves(w)
<1>1. task[w] \in TaskType
  BY DEF TypeInv, TasksTyped
<1>2. [task[w] EXCEPT !.done = TRUE, !.rendition = None] \in TaskType
  BY <1>1 DEF TaskType
<1>3. task' = [task EXCEPT ![w] = [task[w] EXCEPT !.done = TRUE,
                                                  !.rendition = None]]
  BY DEF Finish, TypeInv, TasksTyped
<1>4. /\ task'[w] = [task[w] EXCEPT !.done = TRUE, !.rendition = None]
      /\ task' \in [Worker -> TaskType] /\ OthersStay(w)
  BY <1>2, <1>3 DEF TypeInv, TasksTyped, OthersStay
<1>5. Ends(w, sent)
  BY <1>1, <1>4 DEF Finish, Ends, TaskType
<1>6. QED
  BY <1>4, <1>5 DEF Moves

LEMMA EveryTaskMove ==
  ASSUME TypeInv, NEW w \in Worker, TaskStep(w)
  PROVE  /\ Moves(w) /\ task[w].key \in Key
         /\ UNCHANGED <<shutdown, hlsQueue, packaging, dispatcher>>
<1>1. Moves(w)
  BY RefusalMoves, BeginMoves, PushMoves, FinishMoves DEF TaskStep
<1>2. task[w].key \in Key
  BY MoverHasKey DEF TaskStep, RefuseUnpackable, Begin, Push, Finish
<1>3. UNCHANGED <<shutdown, hlsQueue, packaging, dispatcher>>
  BY DEF TaskStep, RefuseUnpackable, Begin, Push, Finish
<1>4. QED
  BY <1>1, <1>2, <1>3

-----------------------------------------------------------------------------
\* Types are kept by the moves of a task.

\* What a move of a task appends to the output is typed.
LEMMA MoveOutput ==
  ASSUME TypeInv, NEW w \in Worker, task[w].key \in Key, Moves(w)
  PROVE  OutputTyped'
<1>1. ASSUME NEW units \in Seq(Group), NEW sent \in BOOLEAN,
             Emit(task[w].key, units, sent)
      PROVE  parts' \in [Key -> Seq(PartType)]
  BY <1>1, EmitFacts DEF TypeInv
<1>2. CASE Passes(w)
  BY <1>2, FoundType DEF TypeInv, OutputTyped, Passes, Draws
<1>3. CASE Continues(w)
  BY <1>3 DEF TypeInv, OutputTyped, Continues
<1>4. CASE CannotConvert(w)
  BY <1>4, AfterType DEF TypeInv, OutputTyped, CannotConvert, Holds
<1>5. CASE Buffers(w)
  BY <1>5 DEF TypeInv, OutputTyped, Buffers
<1>6. ASSUME NEW sent \in BOOLEAN, Loses(w, sent)
      PROVE  OutputTyped'
  <2>1. Gone(w) \in Group /\ Found(w).units \in Seq(Group)
    BY <1>6, FoundType DEF Loses, Draws
  <2>2. parts' \in [Key -> Seq(PartType)]
    BY <1>1, <1>6, <2>1 DEF Loses
  <2>3. QED
    BY <1>6, <2>1, <2>2 DEF TypeInv, OutputTyped, Loses
<1>7. ASSUME NEW sent \in BOOLEAN, Breaks(w, sent)
      PROVE  OutputTyped'
  <2>1. Found(w).units \in Seq(Group)
    BY <1>7, FoundType DEF Breaks, Draws
  <2>2. parts' \in [Key -> Seq(PartType)]
    BY <1>1, <1>7, <2>1 DEF Breaks
  <2>3. QED
    BY <1>7, <2>2 DEF TypeInv, OutputTyped, Breaks
<1>8. ASSUME NEW sent \in BOOLEAN, Fills(w, sent)
      PROVE  OutputTyped'
  <2>1. Append(After(w).units, InHand(w)) \in Seq(Group)
    BY <1>8, AfterType DEF Fills, Holds
  <2>2. parts' \in [Key -> Seq(PartType)]
    BY <1>1, <1>8, <2>1 DEF Fills
  <2>3. QED
    BY <1>8, <2>2 DEF TypeInv, OutputTyped, Fills
<1>9. ASSUME NEW sent \in BOOLEAN, Ends(w, sent)
      PROVE  OutputTyped'
  <2> DEFINE units == IF task[w].rendition = None THEN <<>>
                      ELSE task[w].rendition.units
  <2>1. <<>> \in Seq(Group)
    OBVIOUS
  <2>2. units \in Seq(Group)
    BY <2>1 DEF TypeInv, TasksTyped, TaskType, Rendition
  <2>3. Emit(task[w].key, units, sent) /\ refused' = refused
    BY <1>9 DEF Ends
  <2>4. parts' \in [Key -> Seq(PartType)]
    <3> HIDE DEF units
    <3>1. QED
      BY <1>1, <2>2, <2>3
  <2>5. QED
    BY <2>3, <2>4 DEF TypeInv, OutputTyped
<1>10. QED
  BY <1>2, <1>3, <1>4, <1>5, <1>6, <1>7, <1>8, <1>9 DEF Moves

\* A move keeps the task's key, and fills its queue no further.
LEMMA MoveShape ==
  ASSUME TypeInv, NEW w \in Worker, Moves(w)
  PROVE  /\ task' \in [Worker -> TaskType] /\ OthersStay(w)
         /\ task'[w].key = task[w].key /\ task'[w].closed = task[w].closed
         /\ Len(task'[w].queue) <= WorkerQueueCapacity
         /\ task'[w].held # None => task'[w].rendition # None
<1>1. Len(task[w].queue) <= WorkerQueueCapacity /\ WorkerQueueCapacity \in Nat
  BY BoundFacts DEF TypeInv, TasksTyped
<1>2. ASSUME Draws(w)
      PROVE  /\ task' \in [Worker -> TaskType] /\ OthersStay(w)
             /\ task'[w].key = task[w].key /\ task'[w].closed = task[w].closed
             /\ Len(task'[w].queue) <= WorkerQueueCapacity
             /\ Found(w) \in Rendition
             /\ [Found(w) EXCEPT !.format = Gone(w).what.format, !.units = <<>>]
                  \in Rendition
  BY <1>2, NextGroup, FoundType DEF TypeInv, Draws, Remains
<1>3. CASE Passes(w)
  BY <1>2, <1>3 DEF Passes
<1>4. CASE Continues(w)
  BY <1>2, <1>4, NoneAssumption DEF Continues
<1>5. ASSUME NEW sent \in BOOLEAN, Loses(w, sent)
      PROVE  /\ task' \in [Worker -> TaskType] /\ OthersStay(w)
             /\ task'[w].key = task[w].key /\ task'[w].closed = task[w].closed
             /\ Len(task'[w].queue) <= WorkerQueueCapacity
             /\ task'[w].held = None
  BY <1>2, <1>5 DEF Loses
<1>6. ASSUME NEW sent \in BOOLEAN, Breaks(w, sent)
      PROVE  /\ task' \in [Worker -> TaskType] /\ OthersStay(w)
             /\ task'[w].key = task[w].key /\ task'[w].closed = task[w].closed
             /\ Len(task'[w].queue) <= WorkerQueueCapacity
             /\ task'[w].rendition # None
  <2>1. Draws(w) /\ task'[w].rendition =
          [Found(w) EXCEPT !.format = Gone(w).what.format, !.units = <<>>]
    BY <1>6 DEF Breaks
  <2>2. QED
    BY <1>2, <2>1, NoneAssumption
<1>7. ASSUME Holds(w)
      PROVE  /\ task' \in [Worker -> TaskType] /\ OthersStay(w)
             /\ task'[w].key = task[w].key /\ task'[w].closed = task[w].closed
             /\ Len(task'[w].queue) <= WorkerQueueCapacity
             /\ task'[w].held = None
  BY <1>1, <1>7 DEF Holds, Remains
<1>8. CASE CannotConvert(w) \/ Buffers(w) \/ \E sent \in BOOLEAN : Fills(w, sent)
  <2>1. Holds(w)
    BY <1>8 DEF CannotConvert, Buffers, Fills
  <2>2. QED
    BY <1>7, <2>1
<1>9. ASSUME NEW sent \in BOOLEAN, Ends(w, sent)
      PROVE  /\ task' \in [Worker -> TaskType] /\ OthersStay(w)
             /\ task'[w].key = task[w].key /\ task'[w].closed = task[w].closed
             /\ Len(task'[w].queue) <= WorkerQueueCapacity
             /\ task'[w].held = None
  BY <1>1, <1>9 DEF Ends
<1>10. QED
  BY <1>3, <1>4, <1>5, <1>6, <1>8, <1>9 DEF Moves

LEMMA TaskMoveTypes ==
  ASSUME TypeInv, NEW w \in Worker, TaskStep(w)
  PROVE  TypeInv'
<1>1. /\ Moves(w) /\ task[w].key \in Key
      /\ UNCHANGED <<shutdown, hlsQueue, packaging, dispatcher>>
  BY EveryTaskMove
<1>2. /\ task' \in [Worker -> TaskType] /\ OthersStay(w)
      /\ task'[w].key = task[w].key
      /\ Len(task'[w].queue) <= WorkerQueueCapacity
      /\ task'[w].held # None => task'[w].rendition # None
  BY <1>1, MoveShape
<1>3. \A v \in Worker : v = w \/ task'[v] = task[v]
  BY <1>2 DEF OthersStay
<1>4. TasksTyped'
  BY <1>2, <1>3 DEF TypeInv, TasksTyped
<1>5. OutputTyped'
  BY <1>1, MoveOutput
<1>6. TasksFormed'
  BY <1>1, <1>2, <1>3, NoneAssumption DEF TypeInv, TasksFormed
<1>7. TablesTyped' /\ QueuesTyped'
  BY <1>1 DEF TypeInv, TablesTyped, QueuesTyped, dispatcher
<1>8. TableNamed'
  <2>1. workers' = workers
    BY <1>1 DEF dispatcher
  <2>2. \A v \in Worker : task'[v].key = task[v].key
    BY <1>2, <1>3
  <2>3. \A k \in Key : workers[k] # 0 => workers[k] \in Worker
    BY BoundFacts DEF TypeInv, TablesTyped
  <2>4. QED
    BY <2>1, <2>2, <2>3 DEF TypeInv, TableNamed
<1>9. QED
  BY <1>4, <1>5, <1>6, <1>7, <1>8 DEF TypeInv

-----------------------------------------------------------------------------
\* Types are kept by the dispatcher and its environment.

LEMMA InitTypes == Init => TypeInv
<1> SUFFICES ASSUME Init
             PROVE  TypeInv
  OBVIOUS
<1>1. <<>> \in Seq(Group) /\ <<>> \in Seq(PartType) /\ <<>> \in Seq(Peer)
  OBVIOUS
<1>2. NoTask \in TaskType /\ NoTask.queue = <<>> /\ NoTask.held = None
  BY <1>1 DEF NoTask, TaskType
<1>3. TasksTyped /\ TasksFormed
  <2>1. \A w \in Worker : task[w] = NoTask
    BY DEF Init
  <2>2. task \in [Worker -> TaskType]
    BY <1>2 DEF Init
  <2>3. QED
    BY <1>2, <2>1, <2>2, BoundFacts DEF TasksTyped, TasksFormed
<1>4. TablesTyped /\ TableNamed
  BY BoundFacts DEF Init, TablesTyped, TableNamed, Place
<1>5. QueuesTyped
  BY <1>1, BoundFacts DEF Init, QueuesTyped
<1>6. OutputTyped
  BY <1>1 DEF Init, OutputTyped
<1>7. QED
  BY <1>3, <1>4, <1>5, <1>6 DEF TypeInv

\* A step that leaves the tasks, the table and the output alone.
LEMMA QuietTypes ==
  ASSUME TypeInv, UNCHANGED <<task, workers, joining, output>>,
         QueuesTyped', pc' \in Place, DOMAIN receivers' \subseteq Peer,
         idle' \subseteq {k \in Key : workers[k] # 0}
  PROVE  TypeInv'
<1>1. TasksTyped' /\ TasksFormed' /\ TableNamed' /\ OutputTyped'
  BY DEF TypeInv, TasksTyped, TasksFormed, TableNamed, OutputTyped, output
<1>2. TablesTyped'
  BY DEF TypeInv, TablesTyped
<1>3. QED
  BY <1>1, <1>2 DEF TypeInv

LEMMA HeadOfQueue ==
  ASSUME QueuesTyped, hlsQueue # <<>>
  PROVE  /\ Head(hlsQueue) \in Peer /\ Tail(hlsQueue) \in Seq(Peer)
         /\ Len(Tail(hlsQueue)) <= QueueCapacity
         /\ Len(Tail(hlsQueue)) = Len(hlsQueue) - 1
BY BoundFacts DEF QueuesTyped

LEMMA HeadOfTodo ==
  ASSUME QueuesTyped, todo # <<>>
  PROVE  /\ Head(todo) \in Group /\ Tail(todo) \in Seq(Group)
BY DEF QueuesTyped

LEMMA ReceiveTypes ==
  ASSUME TypeInv, NEW contents \in Completions, Receive(contents)
  PROVE  TypeInv'
<1> DEFINE groups == [i \in DOMAIN contents |->
                        [id |-> completed + i, what |-> contents[i]]]
<1>1. contents \in Seq(Offered)
  BY CompletionsAssumption
<1>2. /\ hlsQueue # <<>> /\ hlsQueue' = Tail(hlsQueue)
      /\ completed + Len(contents) <= MaxGroups
      /\ completed' = completed + Len(contents) /\ todo' = groups
      /\ receivers' = [q \in DOMAIN receivers \cup {Head(hlsQueue)} |->
                         IF q = Head(hlsQueue) THEN FALSE ELSE receivers[q]]
      /\ UNCHANGED <<pc, workers, idle, joining, task, output>>
  BY DEF Receive
<1>3. completed \in Nat /\ Len(contents) \in Nat /\ MaxGroups \in Nat
  BY <1>1, BoundFacts DEF TypeInv, QueuesTyped
<1>4. \A i \in 1 .. Len(contents) :
        [id |-> completed + i, what |-> contents[i]] \in Group
  BY <1>1, <1>2, <1>3 DEF Group
<1>5. groups \in Seq(Group)
  BY <1>1, <1>4
<1>6. QueuesTyped'
  BY <1>2, <1>3, <1>5, HeadOfQueue DEF TypeInv, QueuesTyped
<1>7. DOMAIN receivers' \subseteq Peer
  BY <1>2, HeadOfQueue DEF TypeInv, TablesTyped
<1>8. QED
  BY <1>2, <1>6, <1>7, QuietTypes DEF TypeInv, TablesTyped

\* The worker that takes a group is one of the set, and has no other key.
LEMMA TakerFacts ==
  ASSUME TypeInv, NEW k \in Key, NEW w \in Worker, Takes(w, k)
  PROVE  /\ \A j \in Key \ {k} : workers[j] # w
         /\ task[w].key \in {k, None}
         /\ workers[k] = 0 => task[w] = NoTask
<1>1. workers[k] # 0 => w = workers[k] /\ task[w].key = k
  BY DEF TypeInv, TableNamed, Takes
<1>2. workers[k] = 0 => task[w].key = None /\ task[w] = NoTask
  BY DEF TypeInv, TasksFormed, Takes, Unused
<1>3. \A j \in Key : workers[j] = w => task[w].key = j
  BY BoundFacts DEF TypeInv, TableNamed
<1>4. QED
  BY <1>1, <1>2, <1>3, NoneAssumption

\* What Dispatch does to the task that takes the group.
Given(w, k, g) == task' = [task EXCEPT ![w].key = k, ![w].queue = Append(@, g)]

LEMMA GivenFacts ==
  ASSUME TasksTyped, NEW k \in Key, NEW g \in Group, NEW w \in Worker, Given(w, k, g)
  PROVE  /\ task' \in [Worker -> TaskType] /\ OthersStay(w)
         /\ task'[w].key = k /\ task'[w].queue = Append(task[w].queue, g)
         /\ task'[w].closed = task[w].closed /\ task'[w].done = task[w].done
         /\ task'[w].held = task[w].held
         /\ task'[w].rendition = task[w].rendition
<1>1. task[w] \in TaskType /\ Append(task[w].queue, g) \in Seq(Group)
  BY DEF TasksTyped, TaskType
<1>2. [task[w] EXCEPT !.key = k, !.queue = Append(task[w].queue, g)] \in TaskType
  BY <1>1 DEF TaskType
<1>3. task' = [task EXCEPT ![w] = [task[w] EXCEPT !.key = k,
                                     !.queue = Append(task[w].queue, g)]]
  BY <1>1 DEF Given, TasksTyped, TaskType
<1>4. /\ task' \in [Worker -> TaskType] /\ OthersStay(w)
      /\ task'[w] = [task[w] EXCEPT !.key = k, !.queue = Append(task[w].queue, g)]
  BY <1>2, <1>3 DEF TasksTyped, OthersStay
<1>5. QED
  BY <1>1, <1>4 DEF TaskType

LEMMA DispatchTypes ==
  ASSUME TypeInv, Dispatch
  PROVE  TypeInv'
<1> DEFINE g == Head(todo)
           k == g.what.key
<1>1. todo # <<>> /\ k \in Configured
  BY DEF Dispatch
<1>2. g \in Group /\ k \in Key /\ Tail(todo) \in Seq(Group)
  BY <1>1, ConfiguredAssumption, HeadOfTodo DEF TypeInv
<1>3. PICK w \in Worker :
        /\ Takes(w, k)
        /\ Len(task[w].queue) < WorkerQueueCapacity
        /\ workers' = [workers EXCEPT ![k] = w]
        /\ task' = [task EXCEPT ![w].key = k, ![w].queue = Append(@, g)]
  BY DEF Dispatch
<1>4. /\ todo' = Tail(todo) /\ idle' = idle \ {k}
      /\ UNCHANGED <<hlsQueue, pc, receivers, joining, completed, output>>
  BY DEF Dispatch
<1>5. /\ task' \in [Worker -> TaskType] /\ OthersStay(w)
      /\ task'[w].key = k /\ task'[w].queue = Append(task[w].queue, g)
      /\ task'[w].held = task[w].held
      /\ task'[w].rendition = task[w].rendition
  <2> HIDE DEF g, k
  <2>1. Given(w, k, g) /\ TasksTyped
    BY <1>3, TypedTasks DEF Given
  <2>2. QED
    BY <1>2, <1>3, <2>1, GivenFacts
<1>6. \A v \in Worker : v = w \/ task'[v] = task[v]
  BY <1>5 DEF OthersStay
<1>7. TasksTyped'
  <2>1. task[w].queue \in Seq(Group)
    BY DEF TypeInv, TasksTyped, TaskType
  <2>2. Len(task'[w].queue) <= WorkerQueueCapacity
    BY <1>3, <1>5, <2>1, BoundFacts
  <2>3. QED
    BY <1>5, <1>6, <2>2 DEF TypeInv, TasksTyped
<1>8. TasksFormed'
  BY <1>2, <1>5, <1>6, NoneAssumption DEF TypeInv, TasksFormed
<1>9. /\ \A j \in Key \ {k} : workers[j] # w
      /\ w # 0 /\ w \in 0 .. MaxWorkers
  BY <1>2, <1>3, TakerFacts, BoundFacts
<1>10. /\ workers \in [Key -> 0 .. MaxWorkers] /\ workers' \in [Key -> 0 .. MaxWorkers]
       /\ workers'[k] = w /\ \A j \in Key \ {k} : workers'[j] = workers[j]
  BY <1>2, <1>3, <1>9 DEF TypeInv, TablesTyped
<1>11. TablesTyped'
  BY <1>4, <1>9, <1>10 DEF TypeInv, TablesTyped
<1>12. TableNamed'
  <2>1. \A j \in Key \ {k} : workers[j] # 0 =>
          workers[j] \in Worker /\ task'[workers[j]] = task[workers[j]]
    BY <1>6, <1>9, <1>10, BoundFacts
  <2>2. QED
    BY <1>5, <1>10, <2>1 DEF TypeInv, TableNamed
<1>13. QueuesTyped' /\ OutputTyped'
  BY <1>2, <1>4 DEF TypeInv, QueuesTyped, OutputTyped, output
<1>14. QED
  BY <1>7, <1>8, <1>11, <1>12, <1>13 DEF TypeInv

\* What Close does to the tasks.
LEMMA CloseFacts ==
  ASSUME TasksTyped, NEW W, Close(W)
  PROVE  /\ task' \in [Worker -> TaskType]
         /\ \A w \in Worker :
              /\ task'[w].key = task[w].key /\ task'[w].queue = task[w].queue
              /\ task'[w].held = task[w].held /\ task'[w].done = task[w].done
              /\ task'[w].rendition = task[w].rendition
              /\ task'[w].closed = (task[w].closed \/ w \in W)
              /\ w \notin W => task'[w] = task[w]
<1>1. ASSUME NEW w \in Worker
      PROVE  /\ task[w] \in TaskType
             /\ task'[w] = [task[w] EXCEPT !.closed = task[w].closed \/ w \in W]
  BY <1>1 DEF TasksTyped, TaskType, Close
<1>2. ASSUME NEW w \in Worker
      PROVE  /\ task'[w] \in TaskType
             /\ task'[w].key = task[w].key /\ task'[w].queue = task[w].queue
             /\ task'[w].held = task[w].held /\ task'[w].done = task[w].done
             /\ task'[w].rendition = task[w].rendition
             /\ task'[w].closed = (task[w].closed \/ w \in W)
  <2>1. PICK t \in TaskType, c \in BOOLEAN : t = task[w] /\ c = (task[w].closed \/ w \in W)
    BY <1>1
  <2>2. task'[w] = [t EXCEPT !.closed = c]
    BY <1>1, <2>1
  <2>3. /\ [t EXCEPT !.closed = c] \in TaskType
        /\ [t EXCEPT !.closed = c].key = t.key /\ [t EXCEPT !.closed = c].queue = t.queue
        /\ [t EXCEPT !.closed = c].held = t.held /\ [t EXCEPT !.closed = c].done = t.done
        /\ [t EXCEPT !.closed = c].rendition = t.rendition
        /\ [t EXCEPT !.closed = c].closed = c
    BY DEF TaskType
  <2>4. QED
    BY <2>1, <2>2, <2>3
<1>3. ASSUME NEW w \in Worker, w \notin W
      PROVE  task'[w] = task[w]
  <2>1. (task[w].closed \/ w \in W) = task[w].closed
    BY <1>1, <1>3 DEF TaskType
  <2>2. [task[w] EXCEPT !.closed = task[w].closed] = task[w]
    BY <1>1 DEF TaskType
  <2>3. QED
    BY <1>1, <2>1, <2>2
<1>4. task' \in [Worker -> TaskType]
  BY <1>2 DEF Close
<1>5. QED
  BY <1>2, <1>3, <1>4

\* The tasks of the table: those an idle sweep and the end of the drain close.
Closable(W) == W \subseteq {workers[k] : k \in Key} \ {0}

LEMMA ClosableFacts ==
  ASSUME TypeInv, NEW W, Closable(W)
  PROVE  /\ W \subseteq Worker
         /\ \A w \in W : task[w].key \in Key /\ workers[task[w].key] = w
BY BoundFacts DEF TypeInv, TablesTyped, TableNamed, Closable

LEMMA CloseTypes ==
  ASSUME TypeInv, NEW W, Closable(W), Close(W),
         workers' \in [Key -> 0 .. MaxWorkers],
         \A k \in Key : workers'[k] \in {0, workers[k]},
         pc' \in Place, idle' = {}, DOMAIN receivers' \subseteq Peer,
         UNCHANGED <<todo, hlsQueue, completed, output>>
  PROVE  TypeInv'
<1>1. /\ W \subseteq Worker
      /\ \A w \in W : task[w].key \in Key
  BY ClosableFacts
<1>2. /\ task' \in [Worker -> TaskType]
      /\ \A w \in Worker :
           /\ task'[w].key = task[w].key /\ task'[w].queue = task[w].queue
           /\ task'[w].held = task[w].held
           /\ task'[w].rendition = task[w].rendition
           /\ w \notin W => task'[w] = task[w]
  BY TypedTasks, CloseFacts
<1>3. TasksTyped' /\ QueuesTyped' /\ OutputTyped'
  BY <1>2 DEF TypeInv, TasksTyped, QueuesTyped, OutputTyped, output
<1>4. TasksFormed'
  BY <1>1, <1>2, NoneAssumption DEF TypeInv, TasksFormed
<1>5. TablesTyped'
  BY <1>1 DEF TypeInv, TablesTyped, Close
<1>6. TableNamed'
  <2>1. \A k \in Key : workers[k] # 0 => workers[k] \in Worker
    BY BoundFacts DEF TypeInv, TablesTyped
  <2>2. QED
    BY <1>2, <2>1 DEF TypeInv, TableNamed
<1>7. QED
  BY <1>3, <1>4, <1>5, <1>6 DEF TypeInv

\* The two steps that close tasks.
LEMMA SweepCloses ==
  ASSUME TypeInv, Sweep
  PROVE  Closable({workers[k] : k \in idle})
BY DEF TypeInv, TablesTyped, Sweep, Closable

LEMMA DispatcherTypes ==
  ASSUME TypeInv, DispatcherStep
  PROVE  TypeInv'
<1>1. CASE ReceiveInvalid
  BY <1>1, HeadOfQueue, QuietTypes
     DEF ReceiveInvalid, dispatcher, TypeInv, QueuesTyped, TablesTyped
<1>2. ASSUME NEW contents \in Completions, Receive(contents)
      PROVE  TypeInv'
  BY <1>2, ReceiveTypes
<1>3. CASE Skip
  BY <1>3, HeadOfTodo, QuietTypes DEF Skip, TypeInv, QueuesTyped, TablesTyped
<1>4. CASE Dispatch
  BY <1>4, DispatchTypes
<1>5. CASE Sweep
  <2>1. Closable({workers[k] : k \in idle})
    BY <1>5, SweepCloses
  <2>2. /\ workers' \in [Key -> 0 .. MaxWorkers]
        /\ \A k \in Key : workers'[k] \in {0, workers[k]}
    <3>1. workers' = [k \in Key |-> IF k \in idle THEN 0 ELSE workers[k]]
      BY <1>5 DEF Sweep
    <3>2. workers \in [Key -> 0 .. MaxWorkers] /\ 0 \in 0 .. MaxWorkers
      BY BoundFacts DEF TypeInv, TablesTyped
    <3>3. QED
      BY <3>1, <3>2
  <2>3. /\ pc' \in Place /\ idle' = {} /\ DOMAIN receivers' \subseteq Peer
        /\ UNCHANGED <<todo, hlsQueue, completed, output>>
        /\ Close({workers[k] : k \in idle})
    BY <1>5 DEF Sweep, TypeInv, TablesTyped, Place
  <2>4. QED
    BY <2>1, <2>2, <2>3, CloseTypes
<1>6. CASE SeeShutdown
  BY <1>6, QuietTypes DEF SeeShutdown, TypeInv, QueuesTyped, TablesTyped, Place
<1>7. CASE EndDrain
  <2>1. Closable({workers[k] : k \in Key} \ {0})
    BY DEF Closable
  <2>2. /\ workers' \in [Key -> 0 .. MaxWorkers]
        /\ \A k \in Key : workers'[k] \in {0, workers[k]}
    BY <1>7, BoundFacts DEF EndDrain
  <2>3. /\ pc' \in Place /\ idle' = {} /\ DOMAIN receivers' \subseteq Peer
        /\ UNCHANGED <<todo, hlsQueue, completed, output>>
        /\ Close({workers[k] : k \in Key} \ {0})
    BY <1>7 DEF EndDrain, Place
  <2>4. QED
    BY <2>1, <2>2, <2>3, CloseTypes
<1>8. CASE Join
  <2>1. /\ TasksTyped' /\ TasksFormed' /\ TableNamed' /\ QueuesTyped' /\ OutputTyped'
    BY <1>8 DEF Join, TypeInv, TasksTyped, TasksFormed, TableNamed, QueuesTyped,
                OutputTyped, output
  <2>2. TablesTyped'
    BY <1>8 DEF Join, TypeInv, TablesTyped, Place
  <2>3. QED
    BY <2>1, <2>2 DEF TypeInv
<1>9. QED
  BY <1>1, <1>2, <1>3, <1>4, <1>5, <1>6, <1>7, <1>8 DEF DispatcherStep

LEMMA TypesKept == TypeInv /\ [Next]_vars => TypeInv'
<1> SUFFICES ASSUME TypeInv, [Next]_vars
             PROVE  TypeInv'
  OBVIOUS
<1>1. ASSUME NEW p \in Peer, Offer(p)
      PROVE  TypeInv'
  BY <1>1, QuietTypes, BoundFacts
     DEF Offer, Accepts, dispatcher, TypeInv, QueuesTyped, TablesTyped
<1>2. CASE Shutdown
  BY <1>2, QuietTypes DEF Shutdown, dispatcher, TypeInv, QueuesTyped, TablesTyped
<1>3. CASE Elapse
  BY <1>3, QuietTypes DEF Elapse, TypeInv, QueuesTyped, TablesTyped
<1>4. CASE DispatcherStep
  BY <1>4, DispatcherTypes
<1>5. ASSUME NEW w \in Worker, TaskStep(w)
      PROVE  TypeInv'
  BY <1>5, TaskMoveTypes
<1>6. CASE UNCHANGED vars
  BY <1>6, QuietTypes DEF vars, dispatcher, TypeInv, QueuesTyped, TablesTyped
<1>7. QED
  BY <1>1, <1>2, <1>3, <1>4, <1>5, <1>6 DEF Next

-----------------------------------------------------------------------------
\* The life of a task: it is in the table, then awaited, then done.

\* A task is closed only once it is out of the table, done only when closed,
\* and nothing of a done one is left.
ClosedInv ==
  /\ \A k \in Key : workers[k] # 0 => ~task[workers[k]].closed
  /\ \A w \in Worker : task[w].done =>
       task[w].closed /\ task[w].queue = <<>> /\ task[w].held = None
         /\ task[w].rendition = None

\* Who still runs is in the table or awaited; the awaited are closed, out of
\* the table, and each of another rendition.
AwaitedInv ==
  /\ \A w \in Worker : Live(w) => workers[task[w].key] = w \/ w \in joining
  /\ \A w \in joining : task[w].key \in Key /\ task[w].closed
                          /\ workers[task[w].key] = 0
  /\ \A v, w \in joining : task[v].key = task[w].key => v = w

\* The dispatcher awaits tasks only where it has dispatched everything, and
\* empties its tables on the way out.
PlaceInv ==
  /\ joining # {} => pc \in {"retire", "stop"}
  /\ pc \in {"retire", "stop", "stopped"} => todo = <<>>
  /\ pc \in {"stop", "stopped"} =>
       DOMAIN receivers = {} /\ \A k \in Key : workers[k] = 0

LifeInv == TypeInv /\ ClosedInv /\ AwaitedInv /\ PlaceInv

LEMMA InitLife == Init => LifeInv
<1> SUFFICES ASSUME Init
             PROVE  LifeInv
  OBVIOUS
<1>1. \A w \in Worker : task[w] = NoTask
  BY DEF Init
<1>2. ClosedInv /\ AwaitedInv
  BY <1>1 DEF Init, ClosedInv, AwaitedInv, Live, NoTask
<1>3. PlaceInv
  BY DEF Init, PlaceInv
<1>4. QED
  BY <1>2, <1>3, InitTypes DEF LifeInv

LEMMA TableWorkers ==
  ASSUME TypeInv, NEW k \in Key, workers[k] # 0
  PROVE  workers[k] \in Worker /\ task[workers[k]].key = k
BY BoundFacts DEF TypeInv, TablesTyped, TableNamed

LEMMA LiveKey ==
  ASSUME TypeInv, NEW w \in Worker, Live(w)
  PROVE  task[w].key \in Key
BY DEF TypeInv, TasksTyped, TaskType, Live

\* A step that leaves the tasks, the table and the awaited alone.
LEMMA QuietLife ==
  ASSUME LifeInv, TypeInv', UNCHANGED <<task, workers, joining>>, PlaceInv'
  PROVE  LifeInv'
BY DEF LifeInv, ClosedInv, AwaitedInv, Live

LEMMA MoveLife ==
  ASSUME LifeInv, NEW w \in Worker, TaskStep(w)
  PROVE  LifeInv'
<1>1. TypeInv /\ TypeInv'
  BY TaskMoveTypes DEF LifeInv
<1>2. Moves(w) /\ UNCHANGED <<pc, todo, receivers, workers, joining>>
  BY <1>1, EveryTaskMove DEF dispatcher
<1>3. \A v \in Worker : /\ v # w => task'[v] = task[v]
                        /\ task'[v].key = task[v].key
                        /\ task'[v].closed = task[v].closed
  BY <1>1, <1>2, MoveShape DEF OthersStay
<1>4. PlaceInv'
  BY <1>2 DEF LifeInv, PlaceInv
<1>5. task'[w].done =>
        /\ task[w].closed /\ task'[w].queue = <<>> /\ task'[w].held = None
        /\ task'[w].rendition = None
  <2>1. CASE \E sent \in BOOLEAN : Ends(w, sent)
    BY <2>1 DEF Ends
  <2>2. CASE Holds(w)
    BY <2>2 DEF LifeInv, ClosedInv, Holds, Remains
  <2>3. CASE Draws(w)
    BY <2>3 DEF LifeInv, ClosedInv, Draws, Remains
  <2>4. QED
    BY <1>2, <2>1, <2>2, <2>3 DEF Moves, Passes, Continues, CannotConvert,
          Buffers, Loses, Breaks, Fills
<1>6. task[w].done => task'[w].done
  BY <1>2 DEF LifeInv, ClosedInv, Moves, Passes, Continues, CannotConvert,
              Buffers, Loses, Breaks, Fills, Ends, Draws, Holds, Remains
<1>7. ClosedInv'
  <2>1. \A k \in Key : workers[k] # 0 => workers[k] \in Worker
    BY <1>1, TableWorkers
  <2>2. QED
    BY <1>2, <1>3, <1>5, <2>1 DEF LifeInv, ClosedInv
<1>8. AwaitedInv'
  <2>1. \A v \in Worker : Live(v)' => Live(v)
    BY <1>3, <1>6 DEF Live
  <2>2. joining \subseteq Worker
    BY <1>1 DEF TypeInv, TablesTyped
  <2>3. QED
    BY <1>2, <1>3, <2>1, <2>2 DEF LifeInv, AwaitedInv
<1>9. QED
  BY <1>1, <1>4, <1>7, <1>8 DEF LifeInv

LEMMA DispatchLife ==
  ASSUME LifeInv, Dispatch
  PROVE  LifeInv'
<1> DEFINE g == Head(todo)
           k == g.what.key
<1>1. TypeInv /\ TypeInv'
  BY DispatchTypes DEF LifeInv
<1>2. todo # <<>> /\ k \in Configured
  BY DEF Dispatch
<1>3. g \in Group /\ k \in Key
  BY <1>1, <1>2, ConfiguredAssumption, HeadOfTodo DEF TypeInv
<1>4. PICK w \in Worker :
        /\ Takes(w, k)
        /\ workers' = [workers EXCEPT ![k] = w]
        /\ task' = [task EXCEPT ![w].key = k, ![w].queue = Append(@, g)]
  BY DEF Dispatch
<1>5. UNCHANGED <<pc, receivers, joining>> /\ todo' = Tail(todo)
  BY DEF Dispatch
<1>6. /\ task'[w].key = k
      /\ task'[w].closed = task[w].closed /\ task'[w].done = task[w].done
      /\ \A v \in Worker : v # w => task'[v] = task[v]
  <2> HIDE DEF g, k
  <2>1. Given(w, k, g) /\ TasksTyped
    BY <1>1, <1>4, TypedTasks DEF Given
  <2>2. QED
    BY <1>1, <1>3, <1>4, <2>1, GivenFacts DEF OthersStay
<1>7. /\ workers'[k] = w /\ w # 0
      /\ \A j \in Key \ {k} : workers'[j] = workers[j] /\ workers[j] # w
  BY <1>1, <1>3, <1>4, TakerFacts, BoundFacts DEF TypeInv, TablesTyped
<1>8. pc \in {"select", "drain"} /\ joining = {}
  BY <1>1, <1>2 DEF LifeInv, PlaceInv, TypeInv, TablesTyped, Place
<1>9. PlaceInv'
  BY <1>5, <1>8 DEF PlaceInv
<1>10. ~task[w].closed /\ ~task[w].done
  <2>1. CASE workers[k] = 0
    <3>1. task[w] = NoTask
      BY <1>1, <1>3, <1>4, <2>1, TakerFacts
    <3>2. QED
      BY <3>1 DEF NoTask
  <2>2. CASE workers[k] # 0
    BY <1>3, <1>4, <2>2 DEF Takes, LifeInv, ClosedInv
  <2>3. QED
    BY <2>1, <2>2
<1>11. ClosedInv'
  <2>1. \A j \in Key \ {k} : workers[j] # 0 =>
          workers[j] \in Worker /\ task'[workers[j]] = task[workers[j]]
    BY <1>1, <1>6, <1>7, TableWorkers
  <2>2. QED
    BY <1>6, <1>7, <1>10, <2>1 DEF LifeInv, ClosedInv
<1>12. AwaitedInv'
  <2>1. ASSUME NEW v \in Worker, Live(v)', v # w
        PROVE  workers'[task'[v].key] = v
    <3>1. Live(v) /\ task'[v].key = task[v].key
      BY <1>6, <2>1 DEF Live
    <3>2. task[v].key \in Key /\ workers[task[v].key] = v
      BY <1>1, <1>8, <3>1, LiveKey DEF LifeInv, AwaitedInv
    <3>3. task[v].key # k
      <4>1. SUFFICES ASSUME task[v].key = k
                     PROVE  FALSE
        OBVIOUS
      <4>2. workers[k] = v /\ v # 0
        BY <3>2, <4>1, BoundFacts
      <4>3. QED
        BY <1>4, <2>1, <4>2 DEF Takes
    <3>4. QED
      BY <1>7, <3>1, <3>2, <3>3
  <2>2. QED
    BY <1>5, <1>6, <1>7, <1>8, <2>1 DEF AwaitedInv
<1>13. QED
  BY <1>1, <1>9, <1>11, <1>12 DEF LifeInv

\* The closing of some tasks of the table, which leave it.
LEMMA CloseLife ==
  ASSUME LifeInv, TypeInv', NEW W, Closable(W), Close(W), joining = {},
         \A k \in Key : workers'[k] = IF workers[k] \in W THEN 0 ELSE workers[k],
         PlaceInv'
  PROVE  LifeInv'
<1>1. TypeInv
  BY DEF LifeInv
<1>2. /\ W \subseteq Worker
      /\ \A w \in W : task[w].key \in Key /\ workers[task[w].key] = w
  BY <1>1, ClosableFacts
<1>3. \A w \in Worker :
        /\ task'[w].key = task[w].key /\ task'[w].queue = task[w].queue
        /\ task'[w].held = task[w].held /\ task'[w].done = task[w].done
        /\ task'[w].rendition = task[w].rendition
        /\ task'[w].closed = (task[w].closed \/ w \in W)
  BY <1>1, TypedTasks, CloseFacts
<1>4. joining' = W
  BY DEF Close
<1>5. \A k \in Key : workers[k] # 0 => workers[k] \in Worker /\ task[workers[k]].key = k
  BY <1>1, TableWorkers
<1>6. ClosedInv'
  <2>1. ASSUME NEW k \in Key, workers'[k] # 0
        PROVE  ~task'[workers'[k]].closed
    <3>1. workers'[k] = workers[k] /\ workers[k] \notin W /\ workers[k] # 0
      BY <2>1
    <3>2. workers[k] \in Worker /\ ~task[workers[k]].closed
      BY <1>5, <3>1 DEF LifeInv, ClosedInv
    <3>3. QED
      BY <1>3, <3>1, <3>2
  <2>2. \A w \in Worker : task'[w].done =>
          task'[w].closed /\ task'[w].queue = <<>> /\ task'[w].held = None
            /\ task'[w].rendition = None
    <3>1. SUFFICES ASSUME NEW w \in Worker, task'[w].done
                   PROVE  task'[w].closed /\ task'[w].queue = <<>> /\ task'[w].held = None
                            /\ task'[w].rendition = None
      OBVIOUS
    <3>2. task[w].done
      BY <1>3, <3>1
    <3>3. /\ task[w].closed /\ task[w].queue = <<>> /\ task[w].held = None
          /\ task[w].rendition = None
      BY <3>2 DEF LifeInv, ClosedInv
    <3>4. QED
      BY <1>3, <3>3
  <2>3. QED
    BY <2>1, <2>2 DEF ClosedInv
<1>7. AwaitedInv'
  <2>1. ASSUME NEW w \in Worker, Live(w)'
        PROVE  workers'[task'[w].key] = w \/ w \in joining'
    <3>1. Live(w) /\ task'[w].key = task[w].key
      BY <1>3, <2>1 DEF Live
    <3>2. task[w].key \in Key /\ workers[task[w].key] = w
      BY <1>1, <3>1, LiveKey DEF LifeInv, AwaitedInv
    <3>3. PICK k \in Key : k = task[w].key /\ workers[k] = w
      BY <3>2
    <3>4. CASE w \in W
      BY <1>4, <3>4
    <3>5. CASE w \notin W
      BY <3>1, <3>3, <3>5
    <3>6. QED
      BY <3>4, <3>5
  <2>2. ASSUME NEW w \in W
        PROVE  task'[w].key \in Key /\ task'[w].closed /\ workers'[task'[w].key] = 0
    <3>1. /\ w \in Worker /\ task[w].key \in Key /\ workers[task[w].key] = w
          /\ task'[w].key = task[w].key /\ task'[w].closed
      BY <1>2, <1>3
    <3>2. PICK k \in Key : k = task[w].key /\ workers[k] = w
      BY <3>1
    <3>3. workers'[k] = 0
      BY <3>2
    <3>4. QED
      BY <3>1, <3>2, <3>3
  <2>3. \A v, w \in W : task'[v].key = task'[w].key => v = w
    BY <1>2, <1>3
  <2>4. QED
    BY <1>4, <2>1, <2>2, <2>3 DEF AwaitedInv
<1>8. QED
  BY <1>6, <1>7 DEF LifeInv

LEMMA SweepLife ==
  ASSUME LifeInv, Sweep
  PROVE  LifeInv'
<1> DEFINE W == {workers[k] : k \in idle}
<1>1. TypeInv /\ TypeInv'
  BY DispatcherTypes DEF LifeInv, DispatcherStep
<1>2. Closable(W) /\ Close(W)
  BY <1>1, SweepCloses DEF Sweep
<1>3. /\ workers' = [k \in Key |-> IF k \in idle THEN 0 ELSE workers[k]]
      /\ pc = "select" /\ todo = <<>> /\ todo' = todo
      /\ pc' = IF idle = {} THEN "select" ELSE "retire"
  BY DEF Sweep
<1>4. joining = {} /\ idle \subseteq Key
  BY <1>1, <1>3 DEF LifeInv, PlaceInv, TypeInv, TablesTyped
<1>5. \A k \in Key : workers[k] # 0 => task[workers[k]].key = k
  BY <1>1 DEF TypeInv, TableNamed
<1>6. \A k \in Key : workers[k] \in W <=> k \in idle
  <2>1. \A k \in idle : workers[k] # 0
    BY <1>1 DEF TypeInv, TablesTyped
  <2>2. QED
    BY <1>4, <1>5, <2>1
<1>7. \A k \in Key : workers'[k] = IF workers[k] \in W THEN 0 ELSE workers[k]
  BY <1>3, <1>6
<1>8. PlaceInv'
  BY <1>2, <1>3 DEF PlaceInv, Close
<1>9. QED
  <2> HIDE DEF W
  <2>1. QED
    BY <1>1, <1>2, <1>4, <1>7, <1>8, CloseLife

LEMMA EndDrainLife ==
  ASSUME LifeInv, EndDrain
  PROVE  LifeInv'
<1> DEFINE W == {workers[k] : k \in Key} \ {0}
<1>1. TypeInv /\ TypeInv'
  BY DispatcherTypes DEF LifeInv, DispatcherStep
<1>2. Closable(W) /\ Close(W)
  BY DEF EndDrain, Closable
<1>3. /\ workers' = [k \in Key |-> 0] /\ receivers' = [p \in {} |-> TRUE]
      /\ pc = "drain" /\ todo = <<>> /\ todo' = todo /\ pc' = "stop"
  BY DEF EndDrain
<1>4. joining = {}
  BY <1>3 DEF LifeInv, PlaceInv
<1>5. \A k \in Key : workers'[k] = IF workers[k] \in W THEN 0 ELSE workers[k]
  BY <1>3
<1>6. PlaceInv'
  BY <1>3 DEF PlaceInv
<1>7. QED
  <2> HIDE DEF W
  <2>1. QED
    BY <1>1, <1>2, <1>4, <1>5, <1>6, CloseLife

LEMMA JoinLife ==
  ASSUME LifeInv, Join
  PROVE  LifeInv'
<1>1. TypeInv'
  BY DispatcherTypes DEF LifeInv, DispatcherStep
<1>2. /\ pc \in {"retire", "stop"} /\ \A w \in joining : task[w].done
      /\ pc' = (IF pc = "retire" THEN "select" ELSE "stopped") /\ joining' = {}
      /\ UNCHANGED <<task, workers, todo, receivers>>
  BY DEF Join
<1>3. ClosedInv'
  BY <1>2 DEF LifeInv, ClosedInv
<1>4. AwaitedInv'
  BY <1>2 DEF LifeInv, AwaitedInv, Live
<1>5. PlaceInv'
  BY <1>2 DEF LifeInv, PlaceInv
<1>6. QED
  BY <1>1, <1>3, <1>4, <1>5 DEF LifeInv

LEMMA LifeKept == LifeInv /\ [Next]_vars => LifeInv'
<1> SUFFICES ASSUME LifeInv, [Next]_vars
             PROVE  LifeInv'
  OBVIOUS
<1>1. TypeInv /\ TypeInv'
  BY TypesKept DEF LifeInv
<1>2. ASSUME NEW p \in Peer, Offer(p)
      PROVE  LifeInv'
  BY <1>1, <1>2, QuietLife DEF Offer, dispatcher, LifeInv, PlaceInv
<1>3. CASE Shutdown \/ UNCHANGED vars \/ ReceiveInvalid
  BY <1>1, <1>3, QuietLife
     DEF Shutdown, vars, ReceiveInvalid, dispatcher, LifeInv, PlaceInv
<1>4. CASE Elapse
  BY <1>1, <1>4, QuietLife DEF Elapse, LifeInv, PlaceInv
<1>5. ASSUME NEW contents \in Completions, Receive(contents)
      PROVE  LifeInv'
  BY <1>1, <1>5, QuietLife DEF Receive, Ready, LifeInv, PlaceInv
<1>6. CASE Skip
  BY <1>1, <1>6, QuietLife DEF Skip, LifeInv, PlaceInv
<1>7. CASE SeeShutdown
  BY <1>1, <1>7, QuietLife DEF SeeShutdown, LifeInv, PlaceInv
<1>8. CASE Dispatch \/ Sweep \/ EndDrain \/ Join
  BY <1>8, DispatchLife, SweepLife, EndDrainLife, JoinLife
<1>9. ASSUME NEW w \in Worker, TaskStep(w)
      PROVE  LifeInv'
  BY <1>9, MoveLife
<1>10. QED
  BY <1>2, <1>3, <1>4, <1>5, <1>6, <1>7, <1>8, <1>9 DEF Next, DispatcherStep

\* Two tasks of a rendition that both run are one task.
LEMMA LifeIsOne == LifeInv => OneTaskPerRendition
<1> SUFFICES ASSUME LifeInv, NEW v \in Worker, NEW w \in Worker,
                    Live(v), Live(w), task[v].key = task[w].key
             PROVE  v = w
  BY DEF OneTaskPerRendition
<1>1. workers[task[v].key] = v \/ v \in joining
  BY DEF LifeInv, AwaitedInv
<1>2. workers[task[w].key] = w \/ w \in joining
  BY DEF LifeInv, AwaitedInv
<1>3. v # 0 /\ w # 0
  BY BoundFacts
<1>4. QED
  BY <1>1, <1>2, <1>3 DEF LifeInv, AwaitedInv

\* A stopped dispatcher has no task that runs, and nothing left to dispatch.
LEMMA StoppedIsEmpty == LifeInv => NothingLeftBehind
<1> SUFFICES ASSUME LifeInv, pc = "stopped"
             PROVE  todo = <<>> /\ \A k \in Key : Pending[k] = <<>>
  BY DEF NothingLeftBehind
<1>1. joining = {} /\ todo = <<>> /\ \A k \in Key : workers[k] = 0
  BY DEF LifeInv, PlaceInv
<1>2. ASSUME NEW w \in Worker, Live(w)
      PROVE  FALSE
  <2>1. task[w].key \in Key /\ workers[task[w].key] = w
    BY <1>1, <1>2, LiveKey DEF LifeInv, AwaitedInv
  <2>2. QED
    BY <1>1, <2>1, BoundFacts
<1>3. \A k \in Key : {w \in Worker : Live(w) /\ task[w].key = k} = {}
  BY <1>2
<1>4. QED
  BY <1>1, <1>3 DEF Pending

-----------------------------------------------------------------------------
\* The gauges count the receivers, and the tasks of the table and those awaited.

Table == {workers[k] : k \in Key} \ {0}

GaugeInv ==
  /\ IsFiniteSet(DOMAIN receivers)
  /\ activeReceivers = Cardinality(DOMAIN receivers)
  /\ activeWorkers = Cardinality(Table) + Cardinality(joining)

LEMMA WorkersFinite ==
  /\ IsFiniteSet(Worker)
  /\ \A S \in SUBSET Worker : IsFiniteSet(S) /\ Cardinality(S) \in Nat
<1>1. IsFiniteSet(Worker)
  BY BoundFacts, FS_Interval
<1>2. QED
  BY <1>1, FS_Subset, FS_CardinalityType

LEMMA TableFacts ==
  ASSUME TypeInv
  PROVE  /\ Table \subseteq Worker /\ joining \subseteq Worker
         /\ Cardinality(Table) \in Nat /\ Cardinality(joining) \in Nat
         /\ IsFiniteSet(Table) /\ IsFiniteSet(joining)
<1>1. Table \subseteq Worker /\ joining \subseteq Worker
  BY BoundFacts DEF TypeInv, TablesTyped, Table
<1>2. QED
  BY <1>1, WorkersFinite

LEMMA InitGauges == Init => GaugeInv
<1> SUFFICES ASSUME Init
             PROVE  GaugeInv
  OBVIOUS
<1>1. DOMAIN receivers = {} /\ Table = {} /\ joining = {}
  BY DEF Init, Table
<1>2. QED
  BY <1>1, FS_EmptySet DEF Init, GaugeInv

\* A step that changes no table's domain.
LEMMA QuietGauges ==
  ASSUME GaugeInv, UNCHANGED <<workers, joining, activeReceivers, activeWorkers>>,
         DOMAIN receivers' = DOMAIN receivers
  PROVE  GaugeInv'
BY DEF GaugeInv, Table

LEMMA ReceiveGauges ==
  ASSUME GaugeInv, NEW contents, Receive(contents)
  PROVE  GaugeInv'
<1> DEFINE p == Head(hlsQueue)
<1>1. /\ receivers' = [q \in DOMAIN receivers \cup {p} |->
                         IF q = p THEN FALSE ELSE receivers[q]]
      /\ activeReceivers' =
           activeReceivers + (IF p \in DOMAIN receivers THEN 0 ELSE 1)
      /\ UNCHANGED <<workers, joining, activeWorkers>>
  BY DEF Receive
<1>2. DOMAIN receivers' = DOMAIN receivers \cup {p}
  BY <1>1
<1>3. Cardinality(DOMAIN receivers) \in Nat
  BY FS_CardinalityType DEF GaugeInv
<1>4. /\ IsFiniteSet(DOMAIN receivers \cup {p})
      /\ Cardinality(DOMAIN receivers \cup {p}) =
           IF p \in DOMAIN receivers THEN Cardinality(DOMAIN receivers)
           ELSE Cardinality(DOMAIN receivers) + 1
  BY FS_AddElement DEF GaugeInv
<1>5. QED
  BY <1>1, <1>2, <1>3, <1>4 DEF GaugeInv, Table

LEMMA DispatchGauges ==
  ASSUME TypeInv, GaugeInv, Dispatch
  PROVE  GaugeInv'
<1> DEFINE k == Head(todo).what.key
<1>1. k \in Key
  BY ConfiguredAssumption DEF Dispatch
<1>2. PICK w \in Worker :
        Takes(w, k) /\ workers' = [workers EXCEPT ![k] = w]
  BY DEF Dispatch
<1>3. /\ activeWorkers' = activeWorkers + (IF workers[k] # 0 THEN 0 ELSE 1)
      /\ UNCHANGED <<joining, receivers, activeReceivers>>
  BY DEF Dispatch
<1>4. /\ workers'[k] = w /\ w # 0
      /\ \A j \in Key \ {k} : workers'[j] = workers[j] /\ workers[j] # w
  BY <1>1, <1>2, TakerFacts, BoundFacts DEF TypeInv, TablesTyped
<1>5. workers[k] # 0 => workers[k] = w
  BY <1>2 DEF Takes
<1>6. Table' = Table \cup {w}
  BY <1>1, <1>4, <1>5 DEF Table
<1>7. w \in Table <=> workers[k] # 0
  BY <1>1, <1>4, <1>5 DEF Table
<1>8. /\ IsFiniteSet(Table) /\ Cardinality(Table) \in Nat
      /\ Cardinality(joining) \in Nat
  BY TableFacts
<1>9. Cardinality(Table \cup {w}) =
        IF w \in Table THEN Cardinality(Table) ELSE Cardinality(Table) + 1
  BY <1>8, FS_AddElement
<1>10. QED
  BY <1>3, <1>6, <1>7, <1>8, <1>9 DEF GaugeInv

\* What is closed moves from the table to the awaited.
LEMMA CloseGauges ==
  ASSUME TypeInv, GaugeInv, joining = {}, NEW W, Closable(W), Close(W),
         \A k \in Key : workers'[k] = IF workers[k] \in W THEN 0 ELSE workers[k]
  PROVE  Cardinality(Table) + Cardinality(joining)
           = Cardinality(Table') + Cardinality(joining')
<1>1. W \subseteq Table /\ joining' = W
  BY DEF Closable, Table, Close
<1>2. Table' = Table \ W
  BY <1>1 DEF Table
<1>3. IsFiniteSet(Table) /\ Cardinality(Table) \in Nat
  BY TableFacts
<1>4. IsFiniteSet(W) /\ Cardinality(W) \in Nat
  BY <1>1, <1>3, FS_Subset, FS_CardinalityType
<1>5. Cardinality(Table \ W) = Cardinality(Table) - Cardinality(W)
  <2>1. Table \cap W = W
    BY <1>1
  <2>2. QED
    BY <1>3, <2>1, FS_Difference
<1>6. Cardinality(joining) = 0
  BY FS_EmptySet
<1>7. QED
  BY <1>1, <1>2, <1>3, <1>4, <1>5, <1>6

LEMMA SweepTable ==
  ASSUME TypeInv, Sweep, NEW k \in Key
  PROVE  workers'[k] = IF workers[k] \in {workers[j] : j \in idle} THEN 0
                       ELSE workers[k]
<1>1. /\ idle \subseteq Key /\ \A j \in idle : workers[j] # 0
      /\ \A j \in Key : workers[j] # 0 => task[workers[j]].key = j
  BY DEF TypeInv, TablesTyped, TableNamed
<1>2. workers[k] \in {workers[j] : j \in idle} <=> k \in idle
  BY <1>1
<1>3. workers'[k] = IF k \in idle THEN 0 ELSE workers[k]
  BY DEF Sweep
<1>4. QED
  BY <1>2, <1>3

LEMMA SweepGauges ==
  ASSUME LifeInv, GaugeInv, Sweep
  PROVE  GaugeInv'
<1> DEFINE stale == {p \in DOMAIN receivers : receivers[p]}
           W == {workers[k] : k \in idle}
<1>1. TypeInv /\ joining = {}
  BY DEF LifeInv, PlaceInv, Sweep
<1>2. /\ receivers' = [p \in DOMAIN receivers \ stale |-> FALSE]
      /\ activeReceivers' = activeReceivers - Cardinality(stale)
      /\ Close(W) /\ activeWorkers' = activeWorkers
  BY DEF Sweep
<1>3. /\ IsFiniteSet(DOMAIN receivers \ stale)
      /\ Cardinality(DOMAIN receivers \ stale) =
           Cardinality(DOMAIN receivers) - Cardinality(stale)
  <2>1. DOMAIN receivers \cap stale = stale
    OBVIOUS
  <2>2. QED
    BY <2>1, FS_Difference DEF GaugeInv
<1>4. DOMAIN receivers' = DOMAIN receivers \ stale
  BY <1>2
<1>5. Cardinality(Table) + Cardinality(joining)
        = Cardinality(Table') + Cardinality(joining')
  <2>1. Closable(W)
    BY <1>1, SweepCloses
  <2>2. \A k \in Key : workers'[k] = IF workers[k] \in W THEN 0 ELSE workers[k]
    BY <1>1, SweepTable
  <2> HIDE DEF W
  <2>3. QED
    BY <1>1, <1>2, <2>1, <2>2, CloseGauges
<1>6. QED
  BY <1>2, <1>3, <1>4, <1>5 DEF GaugeInv

LEMMA EndDrainGauges ==
  ASSUME LifeInv, GaugeInv, EndDrain
  PROVE  GaugeInv'
<1> DEFINE W == {workers[k] : k \in Key} \ {0}
<1>1. TypeInv /\ joining = {}
  BY DEF LifeInv, PlaceInv, EndDrain
<1>2. /\ DOMAIN receivers' = {}
      /\ activeReceivers' = activeReceivers - Cardinality(DOMAIN receivers)
      /\ Close(W) /\ activeWorkers' = activeWorkers
      /\ workers' = [k \in Key |-> 0]
  BY DEF EndDrain
<1>3. Cardinality(DOMAIN receivers) \in Nat
  BY FS_CardinalityType DEF GaugeInv
<1>4. activeReceivers' = 0
  BY <1>2, <1>3 DEF GaugeInv
<1>5. Cardinality(Table) + Cardinality(joining)
        = Cardinality(Table') + Cardinality(joining')
  <2>1. Closable(W)
    BY DEF Closable
  <2>2. \A k \in Key : workers'[k] = IF workers[k] \in W THEN 0 ELSE workers[k]
    BY <1>2
  <2> HIDE DEF W
  <2>3. QED
    BY <1>1, <1>2, <2>1, <2>2, CloseGauges
<1>6. QED
  BY <1>2, <1>4, <1>5, FS_EmptySet DEF GaugeInv

LEMMA JoinGauges ==
  ASSUME TypeInv, GaugeInv, Join
  PROVE  GaugeInv'
<1>1. /\ activeWorkers' = activeWorkers - Cardinality(joining) /\ joining' = {}
      /\ UNCHANGED <<workers, receivers, activeReceivers>>
  BY DEF Join
<1>2. Cardinality(Table) \in Nat /\ Cardinality(joining) \in Nat
  BY TableFacts
<1>3. Table' = Table /\ Cardinality({}) = 0
  BY <1>1, FS_EmptySet DEF Table
<1>4. QED
  BY <1>1, <1>2, <1>3 DEF GaugeInv

LEMMA GaugesKept == LifeInv /\ GaugeInv /\ [Next]_vars => GaugeInv'
<1> SUFFICES ASSUME LifeInv, GaugeInv, [Next]_vars
             PROVE  GaugeInv'
  OBVIOUS
<1>1. TypeInv
  BY DEF LifeInv
<1>2. CASE Dispatch \/ Sweep \/ EndDrain \/ Join
  BY <1>1, <1>2, DispatchGauges, SweepGauges, EndDrainGauges, JoinGauges
<1>3. ASSUME NEW contents \in Completions, Receive(contents)
      PROVE  GaugeInv'
  BY <1>3, ReceiveGauges
<1>4. CASE Elapse
  BY <1>4, QuietGauges DEF Elapse
<1>5. CASE \/ Shutdown \/ ReceiveInvalid \/ Skip \/ SeeShutdown \/ UNCHANGED vars
           \/ \E p \in Peer : Offer(p)
  BY <1>5, QuietGauges
     DEF Shutdown, ReceiveInvalid, Skip, SeeShutdown, vars, Offer, dispatcher
<1>6. ASSUME NEW w \in Worker, TaskStep(w)
      PROVE  GaugeInv'
  BY <1>1, <1>6, EveryTaskMove, QuietGauges DEF dispatcher
<1>7. QED
  BY <1>2, <1>3, <1>4, <1>5, <1>6 DEF Next, DispatcherStep

LEMMA GaugesAreTrue == LifeInv /\ GaugeInv => GaugesAgree
<1> SUFFICES ASSUME LifeInv, GaugeInv, pc \in {"select", "drain", "stopped"}
             PROVE  /\ activeReceivers = Cardinality(DOMAIN receivers)
                    /\ activeWorkers = Cardinality({k \in Key : workers[k] # 0})
                    /\ activeWorkers = Cardinality({w \in Worker : Live(w)})
  BY DEF GaugesAgree
<1> DEFINE keys == {k \in Key : workers[k] # 0}
           f == [w \in Table |-> task[w].key]
<1>1. TypeInv /\ joining = {}
  BY DEF LifeInv, PlaceInv
<1>2. IsFiniteSet(Table) /\ Cardinality(Table) \in Nat
  BY <1>1, TableFacts
<1>3. activeWorkers = Cardinality(Table)
  BY <1>1, <1>2, FS_EmptySet DEF GaugeInv
<1>4. \A k \in keys : workers[k] \in Table /\ task[workers[k]].key = k
  BY <1>1 DEF Table, TypeInv, TableNamed
<1>5. \A w \in Table : task[w].key \in keys /\ workers[task[w].key] = w
  BY <1>1 DEF Table, TypeInv, TableNamed
<1>6. Cardinality(keys) = Cardinality(Table)
  <2>1. f \in [Table -> keys]
    BY <1>5
  <2>2. \A v, w \in Table : f[v] = f[w] => v = w
    BY <1>5
  <2>3. \A k \in keys : \E w \in Table : f[w] = k
    BY <1>4
  <2>4. f \in Bijection(Table, keys)
    BY <2>1, <2>2, <2>3 DEF Bijection, Injection, Surjection, IsInjective
  <2>5. ExistsBijection(Table, keys)
    BY <2>4 DEF ExistsBijection
  <2>6. QED
    BY <1>2, <2>5, FS_Bijection
<1>7. {w \in Worker : Live(w)} = Table
  <2>1. ASSUME NEW w \in Worker, Live(w)
        PROVE  w \in Table
    <3>1. task[w].key \in Key /\ workers[task[w].key] = w
      BY <1>1, <2>1, LiveKey DEF LifeInv, AwaitedInv
    <3>2. QED
      BY <3>1, BoundFacts DEF Table
  <2>2. ASSUME NEW w \in Table
        PROVE  w \in Worker /\ Live(w)
    <3>1. w \in Worker /\ task[w].key \in Key /\ workers[task[w].key] = w
      BY <1>1, <1>5, TableFacts
    <3>2. w # 0
      BY DEF Table
    <3>3. ~task[w].closed
      BY <3>1, <3>2 DEF LifeInv, ClosedInv
    <3>4. ~task[w].done
      BY <3>1, <3>3 DEF LifeInv, ClosedInv
    <3>5. QED
      BY <3>1, <3>4, NoneAssumption DEF Live
  <2>3. QED
    BY <2>1, <2>2
<1>8. QED
  BY <1>3, <1>6, <1>7 DEF GaugeInv

-----------------------------------------------------------------------------
\* Continuity.  The predicates of `PartsAreContinuous` with the refused groups
\* as a parameter: what holds of some refused groups holds of more.

RefusableIn(R, pts, k) ==
  \E g \in R : g.what.key = k /\ g.what.pts = pts /\ g.what.fault = "conversion"

GapRefused(R, g, upTo) ==
  \A pts \in g.what.pts + 1 .. upTo - 1 : RefusableIn(R, pts, g.what.key)

JoinedIn(R, g, h) ==
  /\ h.what.pts > g.what.pts
  /\ h.what.format = g.what.format
  /\ ~h.what.flag
  /\ GapRefused(R, g, h.what.pts)

ChainIn(R, units) ==
  \A j \in 1 .. Len(units) - 1 : JoinedIn(R, units[j], units[j + 1])

LastOf(units) == units[Len(units)]

\* The groups of a task are of its rendition; what it has buffered is
\* continuous, and goes on with the group in hand or at the expected time.
GoesOn(R, t) ==
  LET r == t.rendition
      u == r.units
  IN  /\ \A i \in 1 .. Len(u) : u[i].what.key = t.key
      /\ ChainIn(R, u)
      /\ u # <<>> /\ t.held # None => JoinedIn(R, LastOf(u), t.held)
      /\ u # <<>> /\ t.held = None =>
           /\ r.format = LastOf(u).what.format
           /\ r.expected \in Nat /\ r.expected > LastOf(u).what.pts
           /\ GapRefused(R, LastOf(u), r.expected)

TaskContinuous(R, t) ==
  /\ \A i \in 1 .. Len(t.queue) : t.queue[i].what.key = t.key
  /\ t.held # None => t.held.what.key = t.key
                        /\ t.rendition.format = t.held.what.format
  /\ t.rendition # None => GoesOn(R, t)

PartsContinuous(R, P) ==
  \A k \in Key : \A i \in 1 .. Len(P[k]) : ChainIn(R, P[k][i].units)

Continuous ==
  /\ \A w \in Worker : TaskContinuous(refused, task[w])
  /\ PartsContinuous(refused, parts)

LEMMA JoinedGrows ==
  ASSUME NEW R, NEW S, R \subseteq S, NEW g, NEW h, JoinedIn(R, g, h)
  PROVE  JoinedIn(S, g, h)
BY DEF JoinedIn, GapRefused, RefusableIn

LEMMA ChainGrows ==
  ASSUME NEW R, NEW S, R \subseteq S, NEW u, ChainIn(R, u)
  PROVE  ChainIn(S, u)
BY JoinedGrows DEF ChainIn

LEMMA TaskGrows ==
  ASSUME NEW R, NEW S, R \subseteq S, NEW t, TaskContinuous(R, t)
  PROVE  TaskContinuous(S, t)
<1>1. GoesOn(R, t) => GoesOn(S, t)
  <2>1. \A g, upTo : GapRefused(R, g, upTo) => GapRefused(S, g, upTo)
    BY DEF GapRefused, RefusableIn
  <2>2. QED
    BY <2>1, ChainGrows, JoinedGrows DEF GoesOn
<1>2. QED
  BY <1>1 DEF TaskContinuous

LEMMA ChainAppends ==
  ASSUME NEW R, NEW u \in Seq(Group), NEW g \in Group, ChainIn(R, u),
         u # <<>> => JoinedIn(R, LastOf(u), g)
  PROVE  ChainIn(R, Append(u, g)) /\ LastOf(Append(u, g)) = g
<1> DEFINE v == Append(u, g)
<1>1. /\ Len(v) = Len(u) + 1 /\ v[Len(u) + 1] = g /\ Len(u) \in Nat
      /\ \A j \in 1 .. Len(u) : v[j] = u[j]
  OBVIOUS
<1>2. ASSUME NEW j \in 1 .. Len(v) - 1
      PROVE  JoinedIn(R, v[j], v[j + 1])
  <2>1. CASE j = Len(u)
    <3>1. u # <<>> /\ v[j] = LastOf(u) /\ v[j + 1] = g
      BY <1>1, <2>1 DEF LastOf
    <3>2. QED
      BY <3>1
  <2>2. CASE j # Len(u)
    <3>1. j \in 1 .. Len(u) - 1 /\ v[j] = u[j] /\ v[j + 1] = u[j + 1]
      BY <1>1, <1>2, <2>2
    <3>2. QED
      BY <3>1 DEF ChainIn
  <2>3. QED
    BY <2>1, <2>2
<1>3. QED
  BY <1>1, <1>2 DEF ChainIn, LastOf

LEMMA EmptyChain ==
  ASSUME NEW R
  PROVE  ChainIn(R, <<>>)
BY DEF ChainIn

\* An emitted part that is continuous leaves all parts so.
LEMMA EmitContinuous ==
  ASSUME OutputTyped, NEW R, PartsContinuous(R, parts),
         NEW k \in Key, NEW units \in Seq(Group), NEW sent \in BOOLEAN,
         ChainIn(R, units), Emit(k, units, sent)
  PROVE  PartsContinuous(R, parts')
<1> DEFINE part == [units |-> units, sent |-> sent]
<1>1. /\ parts'[k] = IF units = <<>> THEN parts[k] ELSE Append(parts[k], part)
      /\ \A j \in Key \ {k} : parts'[j] = parts[j]
  BY EmitFacts
<1>2. parts[k] \in Seq(PartType)
  BY DEF OutputTyped
<1>3. part \in PartType /\ part.units = units
  BY DEF PartType
<1>4. \A i \in 1 .. Len(parts'[k]) : ChainIn(R, parts'[k][i].units)
  <2>1. CASE units = <<>>
    BY <1>1, <2>1 DEF PartsContinuous
  <2>2. CASE units # <<>>
    <3> HIDE DEF part
    <3>1. \A i \in 1 .. Len(parts'[k]) :
            \/ i \in 1 .. Len(parts[k]) /\ parts'[k][i] = parts[k][i]
            \/ parts'[k][i] = part
      BY <1>1, <1>2, <1>3, <2>2
    <3>2. QED
      BY <1>3, <3>1 DEF PartsContinuous
  <2>3. QED
    BY <2>1, <2>2
<1>5. QED
  BY <1>1, <1>4 DEF PartsContinuous

LEMMA PartsGrow ==
  ASSUME NEW R, NEW S, R \subseteq S, NEW P, PartsContinuous(R, P)
  PROVE  PartsContinuous(S, P)
BY ChainGrows DEF PartsContinuous

-----------------------------------------------------------------------------
\* Every move of a task keeps it continuous, and what it emits is.

\* What the next group finds, when the task has taken it from its queue.
LEMMA FoundContinuous ==
  ASSUME TypeInv, NEW w \in Worker, Draws(w), TaskContinuous(refused, task[w])
  PROVE  /\ Gone(w) \in Group /\ Gone(w).what.key = task[w].key
         /\ \A i \in 1 .. Len(Tail(task[w].queue)) :
              Tail(task[w].queue)[i].what.key = task[w].key
         /\ Found(w) \in Rendition /\ Found(w).units \in Seq(Group)
         /\ \A i \in 1 .. Len(Found(w).units) :
              Found(w).units[i].what.key = task[w].key
         /\ ChainIn(refused, Found(w).units)
         /\ Found(w).units # <<>> =>
              /\ Found(w).format = LastOf(Found(w).units).what.format
              /\ Found(w).expected \in Nat
              /\ Found(w).expected > LastOf(Found(w).units).what.pts
              /\ GapRefused(refused, LastOf(Found(w).units), Found(w).expected)
<1>1. task[w].queue \in Seq(Group) /\ task[w].queue # <<>> /\ task[w].held = None
  BY DEF TypeInv, TasksTyped, TaskType, Draws
<1>2. /\ Gone(w) \in Group /\ Found(w) \in Rendition
      /\ Found(w).units \in Seq(Group)
  BY <1>1, FoundType
<1>3. /\ Gone(w).what.key = task[w].key
      /\ \A i \in 1 .. Len(Tail(task[w].queue)) :
           Tail(task[w].queue)[i].what.key = task[w].key
  BY <1>1 DEF TaskContinuous, Gone
<1>4. CASE task[w].rendition = None
  <2>1. Found(w).units = <<>>
    BY <1>4 DEF Found, NewRendition
  <2>2. QED
    BY <1>2, <1>3, <2>1, EmptyChain
<1>5. CASE task[w].rendition # None
  <2>1. Found(w) = task[w].rendition
    BY <1>5 DEF Found
  <2>2. GoesOn(refused, task[w])
    BY <1>5 DEF TaskContinuous
  <2>3. QED
    BY <1>1, <1>2, <1>3, <2>1, <2>2 DEF GoesOn
<1>6. QED
  BY <1>4, <1>5

LEMMA PassContinuous ==
  ASSUME TypeInv, Continuous, NEW w \in Worker, Passes(w)
  PROVE  TaskContinuous(refused', task'[w]) /\ PartsContinuous(refused', parts')
<1>1. /\ Draws(w) /\ task'[w].held = None
      /\ task'[w].rendition = task[w].rendition
      /\ refused' = refused \cup {Gone(w)} /\ parts' = parts
  BY DEF Passes
<1>2. /\ task'[w].key = task[w].key /\ task[w].held = None
      /\ task'[w].queue = Tail(task[w].queue)
  BY <1>1 DEF Draws, Remains
<1>3. TaskContinuous(refused, task[w])
  BY DEF Continuous
<1>4. \A i \in 1 .. Len(task'[w].queue) : task'[w].queue[i].what.key = task'[w].key
  BY <1>1, <1>2, <1>3, FoundContinuous
<1>5. task'[w].rendition # None => GoesOn(refused, task'[w])
  BY <1>1, <1>2, <1>3 DEF TaskContinuous, GoesOn
<1>6. TaskContinuous(refused, task'[w])
  BY <1>1, <1>4, <1>5 DEF TaskContinuous
<1>7. QED
  BY <1>1, <1>6, TaskGrows, PartsGrow DEF Continuous

LEMMA BreakContinuous ==
  ASSUME TypeInv, Continuous, NEW w \in Worker, task[w].key \in Key,
         NEW sent \in BOOLEAN, Loses(w, sent) \/ Breaks(w, sent)
  PROVE  TaskContinuous(refused', task'[w]) /\ PartsContinuous(refused', parts')
<1>1. Draws(w) /\ Emit(task[w].key, Found(w).units, sent) /\ refused \subseteq refused'
  BY DEF Loses, Breaks
<1>2. /\ task'[w].key = task[w].key
      /\ task'[w].queue = Tail(task[w].queue)
  BY <1>1 DEF Draws, Remains
<1>3. TaskContinuous(refused, task[w])
  BY DEF Continuous
<1>4. /\ Gone(w) \in Group /\ Gone(w).what.key = task[w].key
      /\ \A i \in 1 .. Len(task'[w].queue) : task'[w].queue[i].what.key = task'[w].key
      /\ Found(w) \in Rendition /\ Found(w).units \in Seq(Group)
      /\ ChainIn(refused, Found(w).units)
  BY <1>1, <1>2, <1>3, FoundContinuous
<1>5. PartsContinuous(refused', parts')
  <2>1. PartsContinuous(refused, parts')
    BY <1>1, <1>4, EmitContinuous DEF Continuous, TypeInv
  <2>2. QED
    BY <1>1, <2>1, PartsGrow
<1>6. task'[w].rendition.units = <<>>
  BY <1>4 DEF Loses, Breaks, Rendition
<1>7. task'[w].held # None =>
        /\ task'[w].held.what.key = task'[w].key
        /\ task'[w].rendition.format = task'[w].held.what.format
  BY <1>2, <1>4 DEF Loses, Breaks, Rendition
<1>8. GoesOn(refused', task'[w])
  BY <1>6, EmptyChain DEF GoesOn
<1>9. QED
  BY <1>4, <1>5, <1>7, <1>8 DEF TaskContinuous

LEMMA ContinueContinuous ==
  ASSUME TypeInv, Continuous, NEW w \in Worker, Continues(w)
  PROVE  TaskContinuous(refused', task'[w]) /\ PartsContinuous(refused', parts')
<1>1. /\ Draws(w) /\ ~Discontinuous(Found(w), Gone(w))
      /\ task'[w].held = Gone(w) /\ task'[w].rendition = Found(w)
      /\ refused' = refused /\ parts' = parts
  BY DEF Continues
<1>2. /\ task'[w].key = task[w].key
      /\ task'[w].queue = Tail(task[w].queue)
  BY <1>1 DEF Draws, Remains
<1>3. TaskContinuous(refused, task[w])
  BY DEF Continuous
<1>4. /\ Gone(w) \in Group /\ Gone(w).what.key = task[w].key
      /\ \A i \in 1 .. Len(task'[w].queue) : task'[w].queue[i].what.key = task'[w].key
      /\ Found(w) \in Rendition
      /\ \A i \in 1 .. Len(Found(w).units) :
           Found(w).units[i].what.key = task[w].key
      /\ ChainIn(refused, Found(w).units)
      /\ Found(w).units # <<>> =>
           /\ Found(w).format = LastOf(Found(w).units).what.format
           /\ Found(w).expected \in Nat
           /\ Found(w).expected > LastOf(Found(w).units).what.pts
           /\ GapRefused(refused, LastOf(Found(w).units), Found(w).expected)
  BY <1>1, <1>2, <1>3, FoundContinuous
<1>5. /\ Found(w).format = Gone(w).what.format /\ ~Gone(w).what.flag
      /\ Found(w).expected # None => Found(w).expected = Gone(w).what.pts
  BY <1>1 DEF Discontinuous
<1>6. Found(w).units # <<>> =>
        JoinedIn(refused, LastOf(Found(w).units), Gone(w))
  BY <1>4, <1>5, NoneAssumption DEF JoinedIn
<1>7. Gone(w) # None /\ Found(w) # None
  BY <1>4, NoneAssumption
<1>8. GoesOn(refused, task'[w])
  BY <1>1, <1>2, <1>4, <1>6, <1>7 DEF GoesOn
<1>9. TaskContinuous(refused, task'[w])
  BY <1>1, <1>2, <1>4, <1>5, <1>8 DEF TaskContinuous
<1>10. QED
  BY <1>1, <1>9 DEF Continuous

\* What a task with a group in hand has.
LEMMA InHandContinuous ==
  ASSUME TypeInv, NEW w \in Worker, Holds(w), TaskContinuous(refused, task[w])
  PROVE  /\ InHand(w) \in Group /\ InHand(w).what.key = task[w].key
         /\ InHand(w).what.pts \in Nat
         /\ After(w) \in Rendition /\ After(w).units \in Seq(Group)
         /\ After(w).expected = InHand(w).what.pts + 1
         /\ After(w).format = InHand(w).what.format
         /\ \A i \in 1 .. Len(After(w).units) :
              After(w).units[i].what.key = task[w].key
         /\ ChainIn(refused, After(w).units)
         /\ After(w).units # <<>> =>
              JoinedIn(refused, LastOf(After(w).units), InHand(w))
<1>1. task[w].held # None
  BY DEF Holds
<1>2. /\ InHand(w) \in Group /\ task[w].rendition \in Rendition
      /\ After(w) \in Rendition /\ After(w).units = task[w].rendition.units
      /\ After(w).format = task[w].rendition.format
      /\ After(w).expected = InHand(w).what.pts + 1
  BY <1>1, AfterType
<1>3. After(w).units \in Seq(Group) /\ InHand(w).what.pts \in Nat
  BY <1>2, GroupFacts DEF Rendition
<1>4. GoesOn(refused, task[w])
  BY <1>2, NoneAssumption DEF TaskContinuous
<1>5. InHand(w).what.key = task[w].key /\ After(w).format = InHand(w).what.format
  BY <1>1, <1>2 DEF TaskContinuous, InHand
<1>6. /\ \A i \in 1 .. Len(After(w).units) :
           After(w).units[i].what.key = task[w].key
      /\ ChainIn(refused, After(w).units)
      /\ After(w).units # <<>> =>
           JoinedIn(refused, LastOf(After(w).units), InHand(w))
  BY <1>1, <1>2, <1>4 DEF GoesOn, InHand
<1>7. QED
  BY <1>2, <1>3, <1>5, <1>6

LEMMA HeldMoves ==
  ASSUME TypeInv, NEW w \in Worker, Holds(w), TaskContinuous(refused, task[w]),
         NEW R, task'[w].rendition # None => GoesOn(R, task'[w])
  PROVE  TaskContinuous(R, task'[w])
BY DEF Holds, Remains, TaskContinuous

LEMMA CannotConvertContinuous ==
  ASSUME TypeInv, Continuous, NEW w \in Worker, CannotConvert(w)
  PROVE  TaskContinuous(refused', task'[w]) /\ PartsContinuous(refused', parts')
<1> DEFINE u == After(w).units
           h == InHand(w)
<1>1. /\ Holds(w) /\ h.what.fault = "conversion"
      /\ task'[w].rendition = After(w)
      /\ refused' = refused \cup {h} /\ parts' = parts
  BY DEF CannotConvert
<1>2. task'[w].key = task[w].key /\ task'[w].held = None
  BY <1>1 DEF Holds, Remains
<1>3. TaskContinuous(refused, task[w])
  BY DEF Continuous
<1>4. /\ h \in Group /\ h.what.key = task[w].key /\ h.what.pts \in Nat
      /\ After(w).expected = h.what.pts + 1 /\ After(w).format = h.what.format
      /\ u \in Seq(Group)
      /\ \A i \in 1 .. Len(u) : u[i].what.key = task[w].key
      /\ ChainIn(refused, u)
      /\ u # <<>> => JoinedIn(refused, LastOf(u), h)
  BY <1>1, <1>3, InHandContinuous
<1>5. ASSUME u # <<>>
      PROVE  /\ After(w).format = LastOf(u).what.format
             /\ After(w).expected > LastOf(u).what.pts
             /\ GapRefused(refused', LastOf(u), After(w).expected)
  <2> DEFINE l == LastOf(u)
  <2>1. l \in Group /\ l.what.key = task[w].key /\ l.what.pts \in Nat
    <3>1. Len(u) \in 1 .. Len(u)
      BY <1>4, <1>5
    <3>2. l \in Group /\ l.what.key = task[w].key
      BY <1>4, <3>1 DEF LastOf
    <3>3. QED
      BY <3>2, GroupFacts
  <2>2. JoinedIn(refused, l, h)
    BY <1>4, <1>5
  <2>3. After(w).format = l.what.format /\ After(w).expected > l.what.pts
    BY <1>4, <2>1, <2>2 DEF JoinedIn
  <2>4. RefusableIn(refused', h.what.pts, l.what.key)
    BY <1>1, <1>4, <2>1 DEF RefusableIn
  <2>5. ASSUME NEW pts \in l.what.pts + 1 .. After(w).expected - 1
        PROVE  RefusableIn(refused', pts, l.what.key)
    <3>1. CASE pts = h.what.pts
      BY <2>4, <3>1
    <3>2. CASE pts # h.what.pts
      <4>1. pts \in l.what.pts + 1 .. h.what.pts - 1
        <5> HIDE DEF l, h
        <5>1. QED
          BY <1>4, <2>1, <2>5, <3>2
      <4>2. QED
        BY <1>1, <2>2, <4>1 DEF JoinedIn, GapRefused, RefusableIn
    <3>3. QED
      BY <3>1, <3>2
  <2>6. QED
    BY <2>3, <2>5 DEF GapRefused
<1>6. GoesOn(refused', task'[w])
  <2>1. ChainIn(refused', u)
    BY <1>1, <1>4, ChainGrows
  <2>2. task'[w].rendition.units = u
    BY <1>1
  <2>3. After(w).expected \in Nat
    BY <1>4
  <2> HIDE DEF u, h
  <2>4. QED
    BY <1>1, <1>2, <1>4, <1>5, <2>1, <2>2, <2>3 DEF GoesOn
<1>7. QED
  BY <1>1, <1>3, <1>6, HeldMoves, PartsGrow DEF Continuous

LEMMA BufferContinuous ==
  ASSUME TypeInv, Continuous, NEW w \in Worker, Buffers(w)
  PROVE  TaskContinuous(refused', task'[w]) /\ PartsContinuous(refused', parts')
<1> DEFINE u == After(w).units
           h == InHand(w)
           v == Append(u, h)
<1>1. /\ Holds(w) /\ task'[w].rendition = [After(w) EXCEPT !.units = v]
      /\ refused' = refused /\ parts' = parts
  BY DEF Buffers
<1>2. task'[w].key = task[w].key /\ task'[w].held = None
  BY <1>1 DEF Holds, Remains
<1>3. TaskContinuous(refused, task[w])
  BY DEF Continuous
<1>4. /\ h \in Group /\ h.what.key = task[w].key /\ h.what.pts \in Nat
      /\ After(w) \in Rendition
      /\ After(w).expected = h.what.pts + 1 /\ After(w).format = h.what.format
      /\ u \in Seq(Group)
      /\ \A i \in 1 .. Len(u) : u[i].what.key = task[w].key
      /\ ChainIn(refused, u)
      /\ u # <<>> => JoinedIn(refused, LastOf(u), h)
  BY <1>1, <1>3, InHandContinuous
<1>5. /\ task'[w].rendition.units = v
      /\ task'[w].rendition.format = h.what.format
      /\ task'[w].rendition.expected = h.what.pts + 1
  BY <1>1, <1>4 DEF Rendition
<1>6. ChainIn(refused, v) /\ LastOf(v) = h
  <2> HIDE DEF u, h
  <2>1. QED
    BY <1>4, ChainAppends
<1>7. \A i \in 1 .. Len(v) : v[i].what.key = task[w].key
  <2> HIDE DEF u, h
  <2>1. QED
    BY <1>4
<1>8. GapRefused(refused, h, h.what.pts + 1)
  <2> HIDE DEF h
  <2>1. QED
    BY <1>4 DEF GapRefused
<1>9. GoesOn(refused', task'[w])
  <2>1. h.what.pts + 1 \in Nat /\ h.what.pts + 1 > h.what.pts
    <3> HIDE DEF h
    <3>1. QED
      BY <1>4
  <2> HIDE DEF u, h, v
  <2>2. QED
    BY <1>1, <1>2, <1>5, <1>6, <1>7, <1>8, <2>1 DEF GoesOn
<1>10. QED
  BY <1>1, <1>3, <1>9, HeldMoves DEF Continuous

LEMMA FillContinuous ==
  ASSUME TypeInv, Continuous, NEW w \in Worker, task[w].key \in Key,
         NEW sent \in BOOLEAN, Fills(w, sent)
  PROVE  TaskContinuous(refused', task'[w]) /\ PartsContinuous(refused', parts')
<1> DEFINE u == After(w).units
           h == InHand(w)
           v == Append(u, h)
<1>1. /\ Holds(w) /\ task'[w].rendition = [After(w) EXCEPT !.units = <<>>]
      /\ refused' = refused /\ Emit(task[w].key, v, sent)
  BY DEF Fills
<1>2. TaskContinuous(refused, task[w])
  BY DEF Continuous
<1>3. /\ h \in Group /\ After(w) \in Rendition /\ u \in Seq(Group)
      /\ ChainIn(refused, u)
      /\ u # <<>> => JoinedIn(refused, LastOf(u), h)
  BY <1>1, <1>2, InHandContinuous
<1>4. v \in Seq(Group) /\ ChainIn(refused, v)
  <2> HIDE DEF u, h
  <2>1. QED
    BY <1>3, ChainAppends
<1>5. PartsContinuous(refused, parts')
  <2> HIDE DEF v
  <2>1. QED
    BY <1>1, <1>4, EmitContinuous DEF Continuous, TypeInv
<1>6. task'[w].rendition.units = <<>>
  BY <1>1, <1>3 DEF Rendition
<1>7. GoesOn(refused', task'[w])
  BY <1>6, EmptyChain DEF GoesOn
<1>8. QED
  BY <1>1, <1>2, <1>5, <1>7, HeldMoves

LEMMA EndContinuous ==
  ASSUME TypeInv, Continuous, NEW w \in Worker, task[w].key \in Key,
         NEW sent \in BOOLEAN, Ends(w, sent)
  PROVE  TaskContinuous(refused', task'[w]) /\ PartsContinuous(refused', parts')
<1> DEFINE u == IF task[w].rendition = None THEN <<>> ELSE task[w].rendition.units
<1>1. /\ task'[w].queue = <<>> /\ task'[w].held = None
      /\ task'[w].rendition = None
      /\ refused' = refused /\ Emit(task[w].key, u, sent)
  BY DEF Ends
<1>2. <<>> \in Seq(Group)
  OBVIOUS
<1>3. u \in Seq(Group)
  BY <1>2 DEF TypeInv, TasksTyped, TaskType, Rendition
<1>4. ChainIn(refused, u)
  BY EmptyChain DEF Continuous, TaskContinuous, GoesOn
<1>5. PartsContinuous(refused, parts')
  <2> HIDE DEF u
  <2>1. QED
    BY <1>1, <1>3, <1>4, EmitContinuous DEF Continuous, TypeInv
<1>6. TaskContinuous(refused', task'[w])
  BY <1>1 DEF TaskContinuous
<1>7. QED
  BY <1>1, <1>5, <1>6

LEMMA InitContinuous == Init => Continuous
<1> SUFFICES ASSUME Init
             PROVE  Continuous
  OBVIOUS
<1>1. \A w \in Worker : task[w] = NoTask
  BY DEF Init
<1>2. \A w \in Worker : TaskContinuous(refused, task[w])
  BY <1>1 DEF NoTask, TaskContinuous
<1>3. PartsContinuous(refused, parts)
  BY DEF Init, PartsContinuous
<1>4. QED
  BY <1>2, <1>3 DEF Continuous

LEMMA QuietContinuous ==
  ASSUME Continuous, UNCHANGED <<task, output>>
  PROVE  Continuous'
BY DEF Continuous, PartsContinuous, output

LEMMA MoveContinuous ==
  ASSUME TypeInv, Continuous, NEW w \in Worker, TaskStep(w)
  PROVE  Continuous'
<1>1. Moves(w) /\ task[w].key \in Key
  BY EveryTaskMove
<1>2. TaskContinuous(refused', task'[w]) /\ PartsContinuous(refused', parts')
  BY <1>1, PassContinuous, BreakContinuous, ContinueContinuous,
     CannotConvertContinuous, BufferContinuous, FillContinuous, EndContinuous
     DEF Moves
<1>3. refused \subseteq refused'
  BY <1>1 DEF Moves, Passes, Continues, CannotConvert, Buffers, Loses, Breaks,
              Fills, Ends
<1>4. \A v \in Worker \ {w} : task'[v] = task[v]
  BY <1>1, MoveShape DEF OthersStay
<1>5. \A v \in Worker : TaskContinuous(refused', task'[v])
  BY <1>2, <1>3, <1>4, TaskGrows DEF Continuous
<1>6. QED
  BY <1>2, <1>5 DEF Continuous

LEMMA DispatchContinuous ==
  ASSUME TypeInv, Continuous, Dispatch
  PROVE  Continuous'
<1> DEFINE g == Head(todo)
           k == g.what.key
<1>1. todo # <<>> /\ k \in Configured
  BY DEF Dispatch
<1>2. g \in Group /\ k \in Key
  BY <1>1, ConfiguredAssumption, HeadOfTodo DEF TypeInv
<1>3. PICK w \in Worker :
        /\ Takes(w, k)
        /\ task' = [task EXCEPT ![w].key = k, ![w].queue = Append(@, g)]
  BY DEF Dispatch
<1>4. UNCHANGED <<parts, refused>>
  BY DEF Dispatch, output
<1>5. /\ task'[w].key = k /\ task'[w].queue = Append(task[w].queue, g)
      /\ task'[w].held = task[w].held /\ task'[w].rendition = task[w].rendition
      /\ \A v \in Worker \ {w} : task'[v] = task[v]
  <2> HIDE DEF g, k
  <2>1. Given(w, k, g) /\ TasksTyped
    BY <1>3, TypedTasks DEF Given
  <2>2. QED
    BY <1>2, <1>3, <2>1, GivenFacts DEF OthersStay
<1>6. task[w].key = k \/ task[w] = NoTask
  BY <1>2, <1>3, TakerFacts DEF TypeInv, TasksFormed
<1>7. task[w].queue \in Seq(Group) /\ TaskContinuous(refused, task[w])
  BY DEF TypeInv, TasksTyped, TaskType, Continuous
<1>8. \A i \in 1 .. Len(task'[w].queue) : task'[w].queue[i].what.key = k
  <2>1. \A i \in 1 .. Len(task[w].queue) : task[w].queue[i].what.key = k
    <3>1. CASE task[w].key = k
      BY <1>7, <3>1 DEF TaskContinuous
    <3>2. CASE task[w] = NoTask
      BY <3>2 DEF NoTask
    <3>3. QED
      BY <1>6, <3>1, <3>2
  <2>2. g.what.key = k
    OBVIOUS
  <2> HIDE DEF g, k
  <2>3. QED
    BY <1>2, <1>5, <1>7, <2>1, <2>2
<1>9. TaskContinuous(refused, task'[w])
  <2>1. CASE task[w].key = k
    BY <1>5, <1>7, <1>8, <2>1 DEF TaskContinuous, GoesOn
  <2>2. CASE task[w] = NoTask
    BY <1>5, <1>8, <2>2 DEF TaskContinuous, NoTask
  <2>3. QED
    BY <1>6, <2>1, <2>2
<1>10. QED
  BY <1>4, <1>5, <1>9 DEF Continuous

LEMMA CloseContinuous ==
  ASSUME TypeInv, Continuous, NEW W, Close(W), UNCHANGED output
  PROVE  Continuous'
<1>1. \A w \in Worker :
        /\ task'[w].key = task[w].key /\ task'[w].queue = task[w].queue
        /\ task'[w].held = task[w].held
        /\ task'[w].rendition = task[w].rendition
  BY TypedTasks, CloseFacts
<1>2. \A w \in Worker : TaskContinuous(refused, task'[w])
  <2>1. SUFFICES ASSUME NEW w \in Worker
                 PROVE  TaskContinuous(refused, task'[w])
    OBVIOUS
  <2>2. TaskContinuous(refused, task[w])
    BY DEF Continuous
  <2>3. QED
    BY <1>1, <2>2 DEF TaskContinuous, GoesOn
<1>3. QED
  BY <1>2 DEF Continuous, output

LEMMA ContinuityKept == TypeInv /\ Continuous /\ [Next]_vars => Continuous'
<1> SUFFICES ASSUME TypeInv, Continuous, [Next]_vars
             PROVE  Continuous'
  OBVIOUS
<1>1. CASE Dispatch
  BY <1>1, DispatchContinuous
<1>2. CASE Sweep
  BY <1>2, CloseContinuous DEF Sweep
<1>3. CASE EndDrain
  BY <1>3, CloseContinuous DEF EndDrain
<1>4. ASSUME NEW w \in Worker, TaskStep(w)
      PROVE  Continuous'
  BY <1>4, MoveContinuous
<1>5. CASE \/ Shutdown \/ Elapse \/ ReceiveInvalid \/ Skip \/ SeeShutdown \/ Join
           \/ UNCHANGED vars \/ \E p \in Peer : Offer(p)
           \/ \E contents \in Completions : Receive(contents)
  BY <1>5, QuietContinuous
     DEF Shutdown, Elapse, ReceiveInvalid, Skip, SeeShutdown, Join, vars, Offer,
         Receive
<1>6. QED
  BY <1>1, <1>2, <1>3, <1>4, <1>5 DEF Next, DispatcherStep

LEMMA ContinuityHolds == TypeInv /\ Continuous => PartsAreContinuous
<1> SUFFICES ASSUME TypeInv, Continuous, NEW k \in Key, NEW i \in DOMAIN parts[k],
                    NEW j \in 1 .. Len(parts[k][i].units) - 1
             PROVE  Joined(parts[k][i].units[j], parts[k][i].units[j + 1])
  BY DEF PartsAreContinuous
<1>1. parts[k] \in Seq(PartType)
  BY DEF TypeInv, OutputTyped
<1>2. i \in 1 .. Len(parts[k])
  BY <1>1
<1>3. JoinedIn(refused, parts[k][i].units[j], parts[k][i].units[j + 1])
  BY <1>2 DEF Continuous, PartsContinuous, ChainIn
<1>4. QED
  BY <1>3 DEF JoinedIn, GapRefused, RefusableIn, Joined, Refusable

-----------------------------------------------------------------------------
\* The worker, in an environment that offers what it likes.

LEMMA WorkerInvariants == HlsSpec => [](LifeInv /\ GaugeInv /\ Continuous)
<1>1. Init => LifeInv /\ GaugeInv /\ Continuous
  BY InitLife, InitGauges, InitContinuous
<1>2. LifeInv /\ GaugeInv /\ Continuous /\ [Next]_vars
        => (LifeInv /\ GaugeInv /\ Continuous)'
  BY LifeKept, GaugesKept, ContinuityKept DEF LifeInv
<1>3. QED
  BY <1>1, <1>2, PTL DEF HlsSpec

LEMMA TypesHold == TypeInv => TypeOK
<1> SUFFICES ASSUME TypeInv
             PROVE  TypeOK
  OBVIOUS
<1>1. ToSet(hlsQueue) \subseteq Peer /\ ToSet(todo) \subseteq Group
  BY DEF TypeInv, QueuesTyped, ToSet
<1>2. QED
  BY <1>1 DEF TypeInv, TasksTyped, TaskType, TablesTyped, QueuesTyped,
              OutputTyped, TypeOK

\* The dispatcher and the tasks have their types, and the bounded queues keep to
\* their bounds, whatever is offered (AE 318-425).
THEOREM WorkerTypeCorrect == HlsSpec => []TypeOK
BY WorkerInvariants, TypesHold, PTL DEF LifeInv

\* Across retirements and restarts a rendition never has two tasks that run
\* (AE 437-463, 492-521).
THEOREM OneTask == HlsSpec => []OneTaskPerRendition
BY WorkerInvariants, LifeIsOne, PTL

\* At rest both gauges are the sizes of the dispatcher's tables (AE 466-521).
THEOREM GaugesCount == HlsSpec => []GaugesAgree
BY WorkerInvariants, GaugesAreTrue, PTL

\* No part spans a lost group, an erasure or a discontinuity (AE 672-731).
THEOREM NoPartSpansAGap == HlsSpec => []PartsAreContinuous
BY WorkerInvariants, ContinuityHolds, PTL DEF LifeInv

\* A dispatcher that has returned leaves no group in a queue or a packager
\* (AE 388-425, 523-554).
THEOREM LeavesNothing == HlsSpec => []NothingLeftBehind
BY WorkerInvariants, StoppedIsEmpty, PTL

-----------------------------------------------------------------------------
\* The plane: its steps are steps of the worker in such an environment.

LEMMA IngressOffers ==
  ASSUME IngressStep
  PROVE  /\ UNCHANGED worker
         /\ \/ hlsQueue' = hlsQueue /\ shutdown' \in {shutdown, TRUE}
            \/ \E p \in Peer : Accepts /\ hlsQueue' = Append(hlsQueue, p)
                                 /\ shutdown' = shutdown
<1>1. ASSUME NEW p \in UdpPeer \cup {LocalPeer}, Ingress!HandHls(p)
      PROVE  \/ hlsQueue' = hlsQueue
             \/ \E q \in Peer : Accepts /\ hlsQueue' = Append(hlsQueue, q)
  BY <1>1, PeerAssumption DEF Ingress!HandHls, Accepts
<1>2. CASE \E p \in UdpPeer : Ingress!UdpReceive(p)
  <2>1. PICK p \in UdpPeer : Ingress!UdpReceive(p)
    BY <1>2
  <2>2. Ingress!HandHls(p) /\ shutdown' = shutdown
    BY <2>1 DEF Ingress!UdpReceive
  <2>3. QED
    BY <1>1, <2>2 DEF IngressStep
<1>3. CASE \E r \in Request : Ingress!FrameReceived(r)
  <2>1. Ingress!HandHls(LocalPeer) /\ shutdown' = shutdown
    BY <1>3 DEF Ingress!FrameReceived
  <2>2. QED
    BY <1>1, <2>1 DEF IngressStep
<1>4. CASE Ingress!CtrlC
  BY <1>4 DEF Ingress!CtrlC, IngressStep
<1>5. CASE \/ Ingress!UdpForwards \/ Ingress!UdpStop \/ Ingress!UdpFail
           \/ Ingress!MeshStep \/ Ingress!MainAwaits
           \/ \E r \in Request :
                Ingress!Arrive(r) \/ Ingress!FrameForwards(r) \/ Ingress!Leave(r)
  BY <1>5 DEF Ingress!UdpForwards, Ingress!UdpStop, Ingress!UdpFail,
              Ingress!MeshStep, Ingress!MeshTake, Ingress!MeshSent,
              Ingress!MeshSeesShutdown, Ingress!MeshStop, Ingress!MainAwaits,
              Ingress!Arrive, Ingress!FrameForwards, Ingress!Leave, IngressStep
<1>6. QED
  BY <1>2, <1>3, <1>4, <1>5
     DEF IngressStep, Ingress!IngressNext, Ingress!UdpStep, Ingress!RequestStep

SignalTyped == shutdown \in BOOLEAN

LEMMA WorkerLeavesSignal == WorkerStep => shutdown' = shutdown
<1>1. CASE ReceiveInvalid \/ Skip \/ Sweep \/ SeeShutdown \/ EndDrain \/ Join
  BY <1>1 DEF ReceiveInvalid, Skip, Sweep, SeeShutdown, EndDrain, Join
<1>2. CASE \E contents \in Completions : Receive(contents)
  BY <1>2 DEF Receive
<1>3. CASE Dispatch
  BY <1>3 DEF Dispatch
<1>4. ASSUME NEW w \in Worker, TaskStep(w) PROVE shutdown' = shutdown
  <2>1. CASE RefuseUnpackable(w)
    BY <2>1 DEF RefuseUnpackable
  <2>2. ASSUME NEW sent \in BOOLEAN, Begin(w, sent) PROVE shutdown' = shutdown
    BY <2>2 DEF Begin
  <2>3. ASSUME NEW sent \in BOOLEAN, Push(w, sent) PROVE shutdown' = shutdown
    BY <2>3 DEF Push
  <2>4. ASSUME NEW sent \in BOOLEAN, Finish(w, sent) PROVE shutdown' = shutdown
    BY <2>4 DEF Finish
  <2>5. QED
    BY <1>4, <2>1, <2>2, <2>3, <2>4 DEF TaskStep
<1>5. QED
  BY <1>1, <1>2, <1>3, <1>4 DEF WorkerStep, DispatcherStep

LEMMA PlaneStepIsWorkers ==
  ASSUME SignalTyped, [PlaneNext]_planeVars
  PROVE  [Next]_vars /\ SignalTyped'
<1> USE DEF SignalTyped
<1>1. CASE IngressStep
  <2>1. UNCHANGED <<packaging, dispatcher, task, output>>
    BY <1>1, IngressOffers DEF worker
  <2>2. CASE hlsQueue' = hlsQueue /\ shutdown' \in {shutdown, TRUE}
    <3>1. CASE shutdown' = shutdown
      BY <2>1, <2>2, <3>1 DEF vars
    <3>2. CASE shutdown' # shutdown
      BY <2>1, <2>2, <3>2 DEF Next, Shutdown
    <3>3. QED
      BY <3>1, <3>2, <2>2
  <2>3. CASE \E p \in Peer : Accepts /\ hlsQueue' = Append(hlsQueue, p)
                               /\ shutdown' = shutdown
    BY <2>1, <2>3 DEF Next, Offer
  <2>4. QED
    BY <1>1, <2>2, <2>3, IngressOffers
<1>2. CASE WorkerStep
  <2>1. DispatcherStep \/ \E w \in Worker : TaskStep(w)
    BY <1>2 DEF WorkerStep
  <2>2. shutdown' = shutdown
    BY <1>2, WorkerLeavesSignal
  <2>3. QED
    BY <2>1, <2>2 DEF Next
<1>3. CASE Elapse
  BY <1>3 DEF Next, Elapse
<1>4. CASE UNCHANGED planeVars
  BY <1>4 DEF planeVars, vars
<1>5. QED
  BY <1>1, <1>2, <1>3, <1>4 DEF PlaneNext, PlaneStep

LEMMA PlaneIsWorkers == PlaneSpec => HlsSpec
<1>1. PlaneInit => Init /\ SignalTyped
  BY DEF PlaneInit, Init, SignalTyped
<1>2. SignalTyped /\ [PlaneNext]_planeVars => [Next]_vars /\ SignalTyped'
  BY PlaneStepIsWorkers
<1>3. PlaneSpec => PlaneInit /\ [][PlaneNext]_planeVars
  BY DEF PlaneSpec
<1>4. QED
  BY <1>1, <1>2, <1>3, PTL DEF HlsSpec

-----------------------------------------------------------------------------
\* The requests and the types of the ingress.

MeshPlace == {"select", "send", "drain", "drainSend", "stopped"}
MainPlace == {"run", "server", "daw", "hls", "mesh", "done"}

IngressInv ==
  /\ meshQueue \in Seq(Peer) /\ Len(meshQueue) <= MeshCapacity
  /\ udp \in {"listen", "ended"} \cup UdpPeer
  /\ mesh \in MeshPlace
  /\ main \in MainPlace

RequestInv ==
  /\ request \in [Request -> {"idle", "body", "frame"}]
  /\ active \in BOOLEAN
  /\ \A r, s \in Request : request[r] # "idle" /\ request[s] # "idle" => r = s
  /\ active = TRUE => \E r \in Request : request[r] # "idle"
  /\ (\E r \in Request : request[r] # "idle") => active = TRUE

LEMMA InitIngressInv == PlaneInit => IngressInv /\ RequestInv
<1>1. <<>> \in Seq(Peer) /\ MeshCapacity \in Nat
  BY MeshCapacityAssumption
<1>2. ASSUME PlaneInit
      PROVE  IngressInv
  BY <1>1, <1>2, MeshCapacityAssumption
     DEF PlaneInit, Ingress!IngressInit, IngressInv, MeshPlace, MainPlace
<1>3. ASSUME PlaneInit
      PROVE  RequestInv
  BY <1>3 DEF PlaneInit, Ingress!IngressInit, RequestInv
<1>4. QED
  BY <1>2, <1>3

LEMMA MeshGiven ==
  ASSUME IngressInv, NEW p \in Peer, Ingress!HandMesh(p)
  PROVE  meshQueue' \in Seq(Peer) /\ Len(meshQueue') <= MeshCapacity
BY MeshCapacityAssumption DEF IngressInv, Ingress!HandMesh

LEMMA IngressKept ==
  ASSUME IngressInv, [PlaneNext]_planeVars
  PROVE  IngressInv'
<1>1. CASE Ingress!UdpStep
  <2>1. CASE Ingress!UdpForwards
    <3>1. udp \in Peer
      BY <2>1, PeerAssumption DEF Ingress!UdpForwards
    <3>2. QED
      BY <2>1, <3>1, MeshGiven DEF Ingress!UdpForwards, IngressInv
  <2>2. CASE Ingress!UdpStop \/ Ingress!UdpFail \/ \E p \in UdpPeer : Ingress!UdpReceive(p)
    BY <2>2 DEF Ingress!UdpStop, Ingress!UdpFail, Ingress!UdpReceive, IngressInv
  <2>3. QED
    BY <1>1, <2>1, <2>2 DEF Ingress!UdpStep
<1>2. ASSUME NEW r \in Request, Ingress!RequestStep(r)
      PROVE  IngressInv'
  <2>1. CASE Ingress!FrameForwards(r)
    BY <2>1, MeshGiven, PeerAssumption DEF Ingress!FrameForwards, IngressInv
  <2>2. CASE Ingress!Arrive(r) \/ Ingress!FrameReceived(r) \/ Ingress!Leave(r)
    BY <2>2 DEF Ingress!Arrive, Ingress!FrameReceived, Ingress!Leave, IngressInv
  <2>3. QED
    BY <1>2, <2>1, <2>2 DEF Ingress!RequestStep
<1>3. CASE Ingress!MeshStep
  BY <1>3, MeshCapacityAssumption
     DEF Ingress!MeshStep, Ingress!MeshTake, Ingress!MeshSent,
         Ingress!MeshSeesShutdown, Ingress!MeshStop, IngressInv, MeshPlace
<1>4. CASE Ingress!CtrlC
  BY <1>4 DEF Ingress!CtrlC, IngressInv, MainPlace
<1>5. CASE Ingress!MainAwaits
  <2>1. main \in {"server", "daw", "hls", "mesh"}
    BY <1>5 DEF Ingress!MainAwaits, Ingress!Ended
  <2>2. main' \in MainPlace
    BY <1>5, <2>1 DEF Ingress!MainAwaits, Ingress!Following, MainPlace
  <2>3. QED
    BY <1>5, <2>2 DEF Ingress!MainAwaits, IngressInv
<1>6. CASE UNCHANGED ingress
  BY <1>6 DEF ingress, IngressInv
<1>7. QED
  BY <1>1, <1>2, <1>3, <1>4, <1>5, <1>6
     DEF PlaneNext, PlaneStep, IngressStep, WorkerStep, planeVars,
         Ingress!IngressNext

LEMMA RequestsKept ==
  ASSUME RequestInv, [PlaneNext]_planeVars
  PROVE  RequestInv'
<1>1. ASSUME NEW r \in Request, Ingress!Arrive(r)
      PROVE  RequestInv'
  <2>1. /\ request[r] = "idle" /\ active' = TRUE
        /\ request' = [request EXCEPT ![r] = IF active THEN "idle" ELSE "body"]
    BY <1>1 DEF Ingress!Arrive
  <2>2. CASE active = TRUE
    <3>1. request' = request
      BY <2>1, <2>2 DEF RequestInv
    <3>2. QED
      BY <2>1, <2>2, <3>1 DEF RequestInv
  <2>3. CASE active = FALSE
    <3>1. request' = [request EXCEPT ![r] = "body"]
      BY <2>1, <2>3
    <3>2. \A s \in Request : request[s] = "idle"
      BY <2>3 DEF RequestInv
    <3>3. QED
      BY <2>1, <3>1, <3>2 DEF RequestInv
  <2>4. QED
    BY <2>2, <2>3 DEF RequestInv
<1>2. ASSUME NEW r \in Request,
             Ingress!FrameReceived(r) \/ Ingress!FrameForwards(r)
      PROVE  RequestInv'
  <2>1. /\ request[r] # "idle" /\ active' = active
        /\ \/ request' = [request EXCEPT ![r] = "frame"]
           \/ request' = [request EXCEPT ![r] = "body"]
    BY <1>2 DEF Ingress!FrameReceived, Ingress!FrameForwards
  <2>2. QED
    BY <2>1 DEF RequestInv
<1>3. ASSUME NEW r \in Request, Ingress!Leave(r)
      PROVE  RequestInv'
  <2>1. /\ request[r] = "body" /\ active' = FALSE
        /\ request' = [request EXCEPT ![r] = "idle"]
    BY <1>3 DEF Ingress!Leave
  <2>2. QED
    BY <2>1 DEF RequestInv
<1>4. CASE UNCHANGED <<request, active>>
  BY <1>4 DEF RequestInv
<1>5. CASE Ingress!UdpStep \/ Ingress!MeshStep \/ Ingress!CtrlC \/ Ingress!MainAwaits
  BY <1>4, <1>5
     DEF Ingress!UdpStep, Ingress!UdpForwards, Ingress!UdpStop, Ingress!UdpFail,
         Ingress!UdpReceive, Ingress!MeshStep, Ingress!MeshTake, Ingress!MeshSent,
         Ingress!MeshSeesShutdown, Ingress!MeshStop, Ingress!CtrlC,
         Ingress!MainAwaits
<1>6. CASE UNCHANGED ingress
  BY <1>4, <1>6 DEF ingress
<1>7. QED
  BY <1>1, <1>2, <1>3, <1>5, <1>6
     DEF PlaneNext, PlaneStep, IngressStep, WorkerStep, planeVars,
         Ingress!IngressNext, Ingress!RequestStep

-----------------------------------------------------------------------------
\* What a shutdown found queued, and how much of it is left.

HlsOwed ==
  /\ owed.hls \in Nat /\ owed.hls <= Len(hlsQueue)
  /\ pc \in {"drain", "stop", "stopped"} => shutdown
  /\ pc \in {"stop", "stopped"} => owed.hls = 0

MeshOwed ==
  /\ owed.mesh \in Nat /\ owed.mesh <= Len(meshQueue)
  /\ mesh \in {"drain", "drainSend", "stopped"} => shutdown
  /\ mesh = "stopped" => owed.mesh = 0

\* A queue loses only what is at its head, and what is owed of it with that.
LEMMA LeftFacts ==
  ASSUME NEW before \in Seq(Peer), NEW n \in Nat, n <= Len(before), NEW now,
         \/ now = before
         \/ \E p \in Peer : now = Append(before, p)
         \/ before # <<>> /\ now = Tail(before)
  PROVE  /\ Left(before, now, n) \in Nat /\ Left(before, now, n) <= Len(now)
         /\ shutdown /\ n = 0 => Left(before, now, n) = 0
<1>1. now \in Seq(Peer) /\ Len(now) \in Nat /\ Len(before) \in Nat
  OBVIOUS
<1>2. n > Len(now) => n > 0 /\ n - 1 <= Len(now) /\ Len(now) < Len(before)
  OBVIOUS
<1>3. CASE ~shutdown /\ shutdown'
  BY <1>1, <1>3 DEF Left
<1>4. CASE shutdown \/ ~shutdown'
  <2>1. CASE Len(now) < Len(before) /\ n > 0
    <3>1. Left(before, now, n) = n - 1
      BY <1>4, <2>1 DEF Left
    <3>2. n - 1 \in Nat /\ n - 1 <= Len(now)
      BY <1>1, <2>1
    <3>3. QED
      BY <2>1, <3>1, <3>2
  <2>2. CASE ~(Len(now) < Len(before) /\ n > 0)
    <3>1. Left(before, now, n) = n
      BY <1>4, <2>2 DEF Left
    <3>2. QED
      BY <1>1, <1>2, <2>2, <3>1
  <2>3. QED
    BY <2>1, <2>2
<1>5. QED
  BY <1>3, <1>4

LEMMA HlsQueueMoves ==
  ASSUME WorkerStep
  PROVE  /\ hlsQueue' = hlsQueue \/ (hlsQueue # <<>> /\ hlsQueue' = Tail(hlsQueue))
         /\ shutdown' = shutdown
         /\ \/ pc' = pc
            \/ pc' \in {"select", "retire"}
            \/ pc' = "drain" /\ shutdown
            \/ pc = "drain" /\ pc' = "stop" /\ hlsQueue' = <<>> /\ hlsQueue = <<>>
            \/ pc = "stop" /\ pc' = "stopped"
<1>1. CASE Join
  BY <1>1 DEF Join
<1>2. CASE DispatcherStep /\ ~Join
  BY <1>2 DEF DispatcherStep, ReceiveInvalid, Receive, Skip, Dispatch, Sweep,
              SeeShutdown, EndDrain, dispatcher
<1>3. ASSUME NEW w \in Worker, TaskStep(w) PROVE pc' = pc /\ hlsQueue' = hlsQueue
  <2>1. CASE RefuseUnpackable(w)
    BY <2>1 DEF RefuseUnpackable, dispatcher
  <2>2. ASSUME NEW sent \in BOOLEAN, Begin(w, sent) PROVE pc' = pc /\ hlsQueue' = hlsQueue
    BY <2>2 DEF Begin, dispatcher
  <2>3. ASSUME NEW sent \in BOOLEAN, Push(w, sent) PROVE pc' = pc /\ hlsQueue' = hlsQueue
    BY <2>3 DEF Push, dispatcher
  <2>4. ASSUME NEW sent \in BOOLEAN, Finish(w, sent) PROVE pc' = pc /\ hlsQueue' = hlsQueue
    BY <2>4 DEF Finish, dispatcher
  <2>5. QED
    BY <1>3, <2>1, <2>2, <2>3, <2>4 DEF TaskStep
<1>4. QED
  BY <1>1, <1>2, <1>3, WorkerLeavesSignal DEF WorkerStep

\* The ingress never touches what the worker alone writes, nor the worker the
\* mesh queue.
LEMMA SignalStays ==
  ASSUME IngressStep \/ WorkerStep
  PROVE  shutdown => shutdown'
BY IngressOffers, HlsQueueMoves

LEMMA HlsOwedKept ==
  ASSUME QueuesTyped, HlsOwed, [PlaneNext]_planeVars
  PROVE  HlsOwed'
<1>1. hlsQueue \in Seq(Peer)
  BY DEF QueuesTyped
<1>2. CASE PlaneStep
  <2>1. owed'.hls = Left(hlsQueue, hlsQueue', owed.hls)
    BY <1>2 DEF PlaneStep, IngressStep, WorkerStep, Remember
  <2>2. \/ hlsQueue' = hlsQueue
        \/ \E p \in Peer : hlsQueue' = Append(hlsQueue, p)
        \/ hlsQueue # <<>> /\ hlsQueue' = Tail(hlsQueue)
    BY <1>2, IngressOffers, HlsQueueMoves DEF PlaneStep
  <2>3. /\ owed'.hls \in Nat /\ owed'.hls <= Len(hlsQueue')
        /\ shutdown /\ owed.hls = 0 => owed'.hls = 0
    BY <1>1, <2>1, <2>2, LeftFacts DEF HlsOwed
  <2>4. shutdown => shutdown'
    BY <1>2, SignalStays DEF PlaneStep
  <2>5. CASE IngressStep
    <3>1. pc' = pc
      BY <2>5, IngressOffers DEF worker, dispatcher
    <3>2. QED
      BY <2>3, <2>4, <3>1 DEF HlsOwed
  <2>6. CASE WorkerStep
    <3>1. pc' \in {"drain", "stop", "stopped"} => shutdown
      BY <2>6, HlsQueueMoves DEF HlsOwed
    <3>2. CASE pc = "drain" /\ pc' = "stop" /\ hlsQueue' = <<>>
      <4>1. owed'.hls = 0
        BY <2>3, <3>2
      <4>2. QED
        BY <2>3, <2>4, <3>1, <4>1 DEF HlsOwed
    <3>3. CASE ~(pc = "drain" /\ pc' = "stop" /\ hlsQueue' = <<>>)
      <4>1. pc' \in {"stop", "stopped"} => pc \in {"stop", "stopped"}
        BY <2>6, <3>3, HlsQueueMoves
      <4>2. QED
        BY <2>3, <2>4, <3>1, <4>1 DEF HlsOwed
    <3>4. QED
      BY <3>2, <3>3
  <2>7. QED
    BY <1>2, <2>5, <2>6 DEF PlaneStep
<1>3. CASE (Elapse /\ UNCHANGED <<ingress, owed>>) \/ UNCHANGED planeVars
  BY <1>3 DEF Elapse, planeVars, vars, dispatcher, HlsOwed
<1>4. QED
  BY <1>2, <1>3 DEF PlaneNext

LEMMA MeshQueueMoves ==
  ASSUME PlaneStep
  PROVE  /\ \/ meshQueue' = meshQueue
            \/ \E p \in Peer : meshQueue' = Append(meshQueue, p)
            \/ meshQueue # <<>> /\ meshQueue' = Tail(meshQueue)
         /\ \/ mesh' = mesh
            \/ mesh' \in {"select", "send"}
            \/ mesh' = "drain" /\ shutdown
            \/ mesh = "drain" /\ mesh' = "drainSend"
            \/ mesh = "drainSend" /\ mesh' = "drain"
            \/ mesh = "drain" /\ mesh' = "stopped" /\ meshQueue' = <<>>
<1>1. ASSUME NEW p \in UdpPeer \cup {LocalPeer}, Ingress!HandMesh(p)
      PROVE  \/ meshQueue' = meshQueue
             \/ \E q \in Peer : meshQueue' = Append(meshQueue, q)
  BY <1>1, PeerAssumption DEF Ingress!HandMesh
<1>2. CASE Ingress!UdpForwards
  BY <1>1, <1>2 DEF Ingress!UdpForwards
<1>3. CASE \E r \in Request : Ingress!FrameForwards(r)
  BY <1>1, <1>3 DEF Ingress!FrameForwards
<1>4. CASE Ingress!MeshStep
  BY <1>4 DEF Ingress!MeshStep, Ingress!MeshTake, Ingress!MeshSent,
              Ingress!MeshSeesShutdown, Ingress!MeshStop
<1>5. CASE \/ Ingress!UdpStop \/ Ingress!UdpFail \/ Ingress!CtrlC
           \/ Ingress!MainAwaits
           \/ \E p \in UdpPeer : Ingress!UdpReceive(p)
           \/ \E r \in Request : \/ Ingress!Arrive(r) \/ Ingress!FrameReceived(r)
                                 \/ Ingress!Leave(r)
  BY <1>5 DEF Ingress!UdpStop, Ingress!UdpFail, Ingress!CtrlC, Ingress!MainAwaits,
              Ingress!UdpReceive, Ingress!Arrive, Ingress!FrameReceived,
              Ingress!Leave
<1>6. CASE WorkerStep
  BY <1>6 DEF WorkerStep, ingress
<1>7. QED
  BY <1>2, <1>3, <1>4, <1>5, <1>6
     DEF PlaneStep, IngressStep, Ingress!IngressNext, Ingress!UdpStep,
         Ingress!RequestStep

LEMMA MeshOwedKept ==
  ASSUME IngressInv, MeshOwed, [PlaneNext]_planeVars
  PROVE  MeshOwed'
<1>1. meshQueue \in Seq(Peer)
  BY DEF IngressInv
<1>2. CASE PlaneStep
  <2>1. owed'.mesh = Left(meshQueue, meshQueue', owed.mesh)
    BY <1>2 DEF PlaneStep, IngressStep, WorkerStep, Remember
  <2>2. /\ owed'.mesh \in Nat /\ owed'.mesh <= Len(meshQueue')
        /\ shutdown /\ owed.mesh = 0 => owed'.mesh = 0
    BY <1>1, <1>2, <2>1, MeshQueueMoves, LeftFacts DEF MeshOwed
  <2>3. shutdown => shutdown'
    BY <1>2, SignalStays DEF PlaneStep
  <2>4. mesh' \in {"drain", "drainSend", "stopped"} => shutdown
    BY <1>2, MeshQueueMoves DEF MeshOwed
  <2>5. mesh' = "stopped" => owed'.mesh = 0
    <3>1. mesh' = "stopped" => mesh = "stopped" \/ meshQueue' = <<>>
      BY <1>2, MeshQueueMoves
    <3>2. meshQueue' = <<>> => owed'.mesh = 0
      BY <2>2
    <3>3. QED
      BY <2>2, <2>4, <3>1, <3>2 DEF MeshOwed
  <2>6. QED
    BY <2>2, <2>3, <2>4, <2>5 DEF MeshOwed
<1>3. CASE (Elapse /\ UNCHANGED <<ingress, owed>>) \/ UNCHANGED planeVars
  BY <1>3 DEF Elapse, planeVars, vars, ingress, MeshOwed
<1>4. QED
  BY <1>2, <1>3 DEF PlaneNext

LEMMA InitOwed == PlaneInit => HlsOwed /\ MeshOwed
BY DEF PlaneInit, Init, Ingress!IngressInit, HlsOwed, MeshOwed

-----------------------------------------------------------------------------
\* The plane's theorems.

LEMMA PlaneInvariants ==
  PlaneSpec => [](LifeInv /\ GaugeInv /\ Continuous /\ IngressInv /\ RequestInv
                    /\ HlsOwed /\ MeshOwed)
<1>1. PlaneSpec => [](LifeInv /\ GaugeInv /\ Continuous)
  BY PlaneIsWorkers, WorkerInvariants, PTL
<1>2. PlaneSpec => PlaneInit /\ [][PlaneNext]_planeVars
  BY DEF PlaneSpec
<1>3. PlaneInit => IngressInv /\ RequestInv /\ HlsOwed /\ MeshOwed
  BY InitIngressInv, InitOwed
<1>4. LifeInv /\ IngressInv /\ RequestInv /\ HlsOwed /\ MeshOwed
        /\ [PlaneNext]_planeVars
        => IngressInv' /\ RequestInv' /\ HlsOwed' /\ MeshOwed'
  BY IngressKept, RequestsKept, HlsOwedKept, MeshOwedKept DEF LifeInv, TypeInv
<1>5. QED
  BY <1>1, <1>2, <1>3, <1>4, PTL

\* Dispatcher, tasks, requests and mesh worker have their types, and the four
\* bounded queues keep to their bounds (AE 318-425, AC 1840-1890, 6340-6420).
THEOREM PlaneTypeCorrect == PlaneSpec => []PlaneTypeOK
<1>1. TypeInv /\ IngressInv /\ RequestInv => PlaneTypeOK
  BY TypesHold DEF PlaneTypeOK, IngressInv, RequestInv, Ingress!IngressTypeOK,
                   MeshPlace, MainPlace
<1>2. QED
  BY <1>1, PlaneInvariants, PTL DEF LifeInv

\* One request at a time feeds the plane, and the flag is taken exactly while
\* one does, whatever is answered CONFLICT (AC 6377-6384, 6207-6213).
THEOREM OneStream == PlaneSpec => []OneStreamAtATime
<1>1. RequestInv => OneStreamAtATime
  BY DEF RequestInv, OneStreamAtATime, Ingress!OneStreamAtATime
<1>2. QED
  BY <1>1, PlaneInvariants, PTL

\* What holds of the worker holds of it in the plane, for the ingress only offers
\* datagrams and sends the signal: one task to a rendition, gauges that agree,
\* parts that are continuous (AE 437-521, 672-731).
THEOREM PlaneKeepsPromises ==
  PlaneSpec => [](OneTaskPerRendition /\ GaugesAgree /\ PartsAreContinuous)
<1>1. LifeInv /\ GaugeInv /\ Continuous
        => OneTaskPerRendition /\ GaugesAgree /\ PartsAreContinuous
  BY LifeIsOne, GaugesAreTrue, ContinuityHolds DEF LifeInv
<1>2. QED
  BY <1>1, PlaneInvariants, PTL

\* A shutdown loses nothing it found queued, in either queue, a task's queue or
\* a packager (AE 388-425, 523-554; AC 1866-1884).
THEOREM ShutdownKeepsAll == PlaneSpec => []ShutdownLosesNothing
<1>1. LifeInv /\ HlsOwed /\ MeshOwed => ShutdownLosesNothing
  BY StoppedIsEmpty DEF HlsOwed, MeshOwed, ShutdownLosesNothing
<1>2. QED
  BY <1>1, PlaneInvariants, PTL

-----------------------------------------------------------------------------
\* The worker keeps the promise of `OrderedRendition`.  First the algebra of
\* lines: taking from the front of one, and one out of its middle.

LEMMA FrontOfLine ==
  ASSUME NEW b \in Seq(Group), NEW t \in Seq(Group)
  PROVE  /\ SubSeq(b \o t, 1, Len(b)) = b
         /\ SubSeq(b \o t, Len(b) + 1, Len(b \o t)) = t
<1>1. /\ b \o t \in Seq(Group) /\ Len(b \o t) = Len(b) + Len(t)
      /\ Len(b) \in Nat /\ Len(t) \in Nat
      /\ \A i \in 1 .. Len(b) + Len(t) :
           (b \o t)[i] = IF i <= Len(b) THEN b[i] ELSE t[i - Len(b)]
  BY ConcatProperties, LenProperties
<1>2. SubSeq(b \o t, 1, Len(b)) = b
  <2>1. \A i \in 1 .. Len(b) : (b \o t)[i] \in Group
    BY <1>1
  <2>2. /\ SubSeq(b \o t, 1, Len(b)) \in Seq(Group)
        /\ Len(SubSeq(b \o t, 1, Len(b))) = Len(b)
        /\ \A i \in 1 .. Len(b) : SubSeq(b \o t, 1, Len(b))[i] = (b \o t)[i]
    BY <1>1, <2>1, SubSeqProperties
  <2>3. QED
    BY <1>1, <2>2, SeqEqual
<1>3. SubSeq(b \o t, Len(b) + 1, Len(b \o t)) = t
  <2> DEFINE m == Len(b) + 1
             n == Len(b) + Len(t)
             whole == b \o t
             s == SubSeq(whole, m, n)
  <2>1. \A i \in m .. n : whole[i] \in Group
    BY <1>1
  <2>2. m \in Int /\ n \in Int
    BY <1>1
  <2>3. /\ s \in Seq(Group)
        /\ Len(s) = IF m <= n THEN n - m + 1 ELSE 0
        /\ \A i \in 1 .. n - m + 1 : s[i] = whole[m + i - 1]
    <3> HIDE DEF m, n, whole
    <3>1. QED
      BY <2>1, <2>2, SubSeqProperties
  <2>4. Len(s) = Len(t)
    BY <1>1, <2>3
  <2>5. \A i \in 1 .. Len(t) : s[i] = t[i]
    BY <1>1, <2>3
  <2>6. s = t
    BY <2>3, <2>4, <2>5, SeqEqual
  <2>7. QED
    BY <1>1, <2>6
<1>4. QED
  BY <1>2, <1>3

LEMMA MiddleOfLine ==
  ASSUME NEW b \in Seq(Group), NEW g \in Group, NEW t \in Seq(Group),
         NEW line, line = b \o (<<g>> \o t)
  PROVE  /\ line \in Seq(Group) /\ Len(b) + 1 \in 1 .. Len(line)
         /\ line[Len(b) + 1] = g
         /\ RemoveAt(line, Len(b) + 1) = b \o t
         /\ SubSeq(line, 1, Len(b)) = b
         /\ SubSeq(line, Len(b) + 2, Len(line)) = t
         /\ line = Append(b, g) \o t
<1> DEFINE r == <<g>> \o t
           s == b \o r
<1>1. <<g>> \in Seq(Group) /\ Len(<<g>>) = 1 /\ <<g>>[1] = g
  OBVIOUS
<1>2. /\ r \in Seq(Group) /\ Len(r) = Len(t) + 1 /\ r[1] = g
      /\ Len(b) \in Nat /\ Len(t) \in Nat
  BY <1>1
<1>3. s \in Seq(Group) /\ Len(s) = Len(b) + Len(t) + 1 /\ s[Len(b) + 1] = g
  <2> HIDE DEF r
  <2>1. /\ s \in Seq(Group) /\ Len(s) = Len(b) + Len(r)
        /\ \A i \in 1 .. Len(b) + Len(r) :
             s[i] = IF i <= Len(b) THEN b[i] ELSE r[i - Len(b)]
    BY <1>2, ConcatProperties
  <2>2. /\ Len(b) + 1 \in 1 .. Len(b) + Len(r) /\ ~(Len(b) + 1 <= Len(b))
        /\ (Len(b) + 1) - Len(b) = 1 /\ Len(b) + Len(r) = Len(b) + Len(t) + 1
    BY <1>2
  <2> HIDE DEF s
  <2>3. s[Len(b) + 1] = r[1]
    BY <2>1, <2>2
  <2>4. QED
    BY <1>2, <2>1, <2>2, <2>3
<1>4. SubSeq(s, 1, Len(b)) = b
  <2> HIDE DEF r
  <2>1. QED
    BY <1>2, FrontOfLine
<1>5. s = Append(b, g) \o t
  <2>1. Append(b, g) = b \o <<g>>
    BY AppendIsConcat
  <2>2. (b \o <<g>>) \o t = b \o (<<g>> \o t)
    BY <1>1, ConcatAssociative
  <2>3. QED
    BY <2>1, <2>2
<1>6. SubSeq(s, Len(b) + 2, Len(s)) = t
  <2> DEFINE c == Append(b, g)
  <2>1. c \in Seq(Group) /\ Len(c) = Len(b) + 1
    BY AppendProperties
  <2>2. SubSeq(c \o t, Len(c) + 1, Len(c \o t)) = t
    <3> HIDE DEF c
    <3>1. QED
      BY <2>1, FrontOfLine
  <2>3. Len(c) + 1 = Len(b) + 2
    BY <1>2, <2>1
  <2>4. QED
    BY <1>5, <2>2, <2>3
<1>7. RemoveAt(s, Len(b) + 1) = b \o t
  <2>1. RemoveAt(s, Len(b) + 1)
          = SubSeq(s, 1, (Len(b) + 1) - 1) \o SubSeq(s, (Len(b) + 1) + 1, Len(s))
    BY DEF RemoveAt
  <2>2. (Len(b) + 1) - 1 = Len(b) /\ (Len(b) + 1) + 1 = Len(b) + 2
    BY <1>2
  <2>3. QED
    BY <1>4, <1>6, <2>1, <2>2
<1>8. Len(b) + 1 \in 1 .. Len(s)
  BY <1>2, <1>3
<1>9. line = s
  OBVIOUS
<1> HIDE DEF r, s
<1>10. QED
  BY <1>3, <1>4, <1>5, <1>6, <1>7, <1>8, <1>9

-----------------------------------------------------------------------------
\* `Pending` with the tasks as a parameter.

LiveIn(T, w) == T[w].key # None /\ ~T[w].done

Buffered(t) == IF t.rendition = None THEN <<>> ELSE t.rendition.units
HeldOf(t) == IF t.held = None THEN <<>> ELSE <<t.held>>
LineOf(t) == Buffered(t) \o HeldOf(t) \o t.queue

TasksOf(T, k) == {w \in Worker : LiveIn(T, w) /\ T[w].key = k}

PendingIn(T) ==
  [k \in Key |->
     IF TasksOf(T, k) = {} THEN <<>>
     ELSE LineOf(T[CHOOSE w \in TasksOf(T, k) : \A v \in TasksOf(T, k) : v <= w])]

OneIn(T) ==
  \A v, w \in Worker : LiveIn(T, v) /\ LiveIn(T, w) /\ T[v].key = T[w].key => v = w

LEMMA PendingIsIn ==
  /\ Pending = PendingIn(task) /\ Pending' = PendingIn(task')
  /\ OneTaskPerRendition <=> OneIn(task)
  /\ OneTaskPerRendition' <=> OneIn(task')
<1>1. Pending = PendingIn(task)
  BY DEF Pending, PendingIn, TasksOf, LiveIn, Live, InLine, LineOf, Buffered, HeldOf
<1>2. Pending' = PendingIn(task')
  BY DEF Pending, PendingIn, TasksOf, LiveIn, Live, InLine, LineOf, Buffered, HeldOf
<1>3. OneTaskPerRendition <=> OneIn(task)
  BY DEF OneTaskPerRendition, OneIn, LiveIn, Live
<1>4. OneTaskPerRendition' <=> OneIn(task')
  BY DEF OneTaskPerRendition, OneIn, LiveIn, Live
<1>5. QED
  BY <1>1, <1>2, <1>3, <1>4

LEMMA PendingOf ==
  ASSUME NEW T, OneIn(T), NEW w \in Worker, LiveIn(T, w), T[w].key \in Key
  PROVE  PendingIn(T)[T[w].key] = LineOf(T[w])
<1>1. TasksOf(T, T[w].key) = {w}
  BY DEF TasksOf, OneIn
<1>2. w <= w
  BY BoundFacts
<1>3. (CHOOSE x \in {w} : \A v \in {w} : v <= x) = w
  BY <1>2
<1>4. QED
  BY <1>1, <1>3 DEF PendingIn

LEMMA NothingPending ==
  ASSUME NEW T, NEW k \in Key, \A w \in Worker : ~(LiveIn(T, w) /\ T[w].key = k)
  PROVE  PendingIn(T)[k] = <<>>
BY DEF PendingIn, TasksOf

\* The line of a rendition whose tasks are the same, each with the same line.
LEMMA PendingStays ==
  ASSUME NEW T, NEW U, OneIn(T), OneIn(U), NEW k \in Key,
         \A w \in Worker :
           /\ LiveIn(T, w) /\ T[w].key = k <=> LiveIn(U, w) /\ U[w].key = k
           /\ LiveIn(T, w) /\ T[w].key = k => LineOf(U[w]) = LineOf(T[w])
  PROVE  PendingIn(U)[k] = PendingIn(T)[k]
<1>1. CASE \E w \in Worker : LiveIn(T, w) /\ T[w].key = k
  <2>1. PICK w \in Worker : LiveIn(T, w) /\ T[w].key = k
    BY <1>1
  <2>2. /\ LiveIn(U, w) /\ U[w].key = k
        /\ LineOf(U[w]) = LineOf(T[w])
    BY <2>1
  <2>3. PendingIn(T)[k] = LineOf(T[w])
    BY <2>1, PendingOf
  <2>4. PendingIn(U)[k] = LineOf(U[w])
    BY <2>2, PendingOf
  <2>5. QED
    BY <2>2, <2>3, <2>4
<1>2. CASE ~\E w \in Worker : LiveIn(T, w) /\ T[w].key = k
  BY <1>2, NothingPending
<1>3. QED
  BY <1>1, <1>2

LEMMA PendingExcept ==
  ASSUME NEW T, NEW U, NEW k \in Key, NEW line, PendingIn(U)[k] = line,
         \A j \in Key \ {k} : PendingIn(U)[j] = PendingIn(T)[j]
  PROVE  PendingIn(U) = [PendingIn(T) EXCEPT ![k] = line]
<1>1. /\ PendingIn(T) = [j \in Key |-> PendingIn(T)[j]]
      /\ PendingIn(U) = [j \in Key |-> PendingIn(U)[j]]
  BY DEF PendingIn
<1>2. [PendingIn(T) EXCEPT ![k] = line]
        = [j \in Key |-> IF j = k THEN line ELSE PendingIn(T)[j]]
  BY <1>1
<1>3. \A j \in Key : PendingIn(U)[j] = IF j = k THEN line ELSE PendingIn(T)[j]
  OBVIOUS
<1>4. QED
  BY <1>1, <1>2, <1>3

\* A move of a task changes the line of its rendition only.
LEMMA MovePending ==
  ASSUME LifeInv, OneTaskPerRendition, OneTaskPerRendition',
         NEW w \in Worker, TaskStep(w)
  PROVE  /\ task[w].key \in Key /\ Pending[task[w].key] = LineOf(task[w])
         /\ Pending' = [Pending EXCEPT ![task[w].key] =
                          IF task'[w].done THEN <<>> ELSE LineOf(task'[w])]
<1> DEFINE k == task[w].key
           line == IF task'[w].done THEN <<>> ELSE LineOf(task'[w])
<1>1. TypeInv /\ OneIn(task) /\ OneIn(task')
  BY PendingIsIn DEF LifeInv
<1>2. Moves(w) /\ k \in Key /\ k # None
  BY <1>1, EveryTaskMove, NoneAssumption
<1>3. task'[w].key = k /\ \A v \in Worker \ {w} : task'[v] = task[v]
  BY <1>1, <1>2, MoveShape DEF OthersStay
<1>4. ~task[w].done
  BY <1>2 DEF LifeInv, ClosedInv, Moves, Passes, Continues, CannotConvert,
              Buffers, Loses, Breaks, Fills, Ends, Draws, Holds
<1>5. PendingIn(task)[k] = LineOf(task[w])
  BY <1>1, <1>2, <1>4, PendingOf DEF LiveIn
<1>6. PendingIn(task')[k] = line
  <2>1. CASE task'[w].done
    <3>1. \A v \in Worker : ~(LiveIn(task', v) /\ task'[v].key = k)
      BY <1>1, <1>2, <1>3, <1>4, <2>1 DEF LiveIn, OneIn
    <3>2. QED
      BY <1>2, <2>1, <3>1, NothingPending
  <2>2. CASE ~task'[w].done
    BY <1>1, <1>2, <1>3, <2>2, PendingOf DEF LiveIn
  <2>3. QED
    BY <2>1, <2>2
<1>7. ASSUME NEW j \in Key \ {k}
      PROVE  PendingIn(task')[j] = PendingIn(task)[j]
  <2>1. \A v \in Worker :
          /\ LiveIn(task, v) /\ task[v].key = j <=> LiveIn(task', v) /\ task'[v].key = j
          /\ LiveIn(task, v) /\ task[v].key = j => LineOf(task'[v]) = LineOf(task[v])
    BY <1>3 DEF LiveIn
  <2>2. QED
    BY <1>1, <2>1, PendingStays
<1>8. PendingIn(task') = [PendingIn(task) EXCEPT ![k] = line]
  <2> HIDE DEF k, line
  <2>1. QED
    BY <1>2, <1>6, <1>7, PendingExcept
<1>9. QED
  BY <1>2, <1>5, <1>8, PendingIsIn

\* The line of a task that takes a group from its queue, or has one in hand.
LEMMA LineBefore ==
  ASSUME TypeInv, NEW w \in Worker
  PROVE  /\ Buffered(task[w]) \in Seq(Group) /\ task[w].queue \in Seq(Group)
         /\ Draws(w) =>
              /\ LineOf(task[w]) =
                   Buffered(task[w]) \o (<<Gone(w)>> \o Tail(task[w].queue))
              /\ Gone(w) \in Group /\ Tail(task[w].queue) \in Seq(Group)
              /\ Found(w) \in Rendition /\ Found(w).units = Buffered(task[w])
         /\ Holds(w) =>
              /\ LineOf(task[w]) =
                   Buffered(task[w]) \o (<<InHand(w)>> \o task[w].queue)
              /\ InHand(w) \in Group
              /\ After(w) \in Rendition /\ After(w).units = Buffered(task[w])
<1> DEFINE b == Buffered(task[w])
           q == task[w].queue
<1>1. <<>> \in Seq(Group)
  OBVIOUS
<1>2. b \in Seq(Group) /\ q \in Seq(Group)
  BY <1>1 DEF TypeInv, TasksTyped, TaskType, Rendition, Buffered
<1>3. ASSUME Draws(w)
      PROVE  /\ LineOf(task[w]) = b \o (<<Gone(w)>> \o Tail(q))
             /\ Gone(w) \in Group /\ Tail(q) \in Seq(Group)
             /\ Found(w) \in Rendition /\ Found(w).units = b
  <2>1. task[w].held = None /\ q # <<>>
    BY <1>3 DEF Draws
  <2>2. /\ Gone(w) \in Group /\ Tail(q) \in Seq(Group)
        /\ q = <<Gone(w)>> \o Tail(q)
    BY <2>1, TypedTasks, NextGroup DEF Gone
  <2>3. HeldOf(task[w]) = <<>>
    BY <2>1 DEF HeldOf
  <2>4. LineOf(task[w]) = b \o q
    <3>1. b \o <<>> = b
      <4> HIDE DEF b
      <4>1. QED
        BY <1>2, ConcatEmptySeq
    <3>2. QED
      BY <2>3, <3>1 DEF LineOf
  <2>5. Found(w) \in Rendition
    BY <2>1, FoundType
  <2>6. Found(w).units = b
    BY DEF Found, NewRendition, Buffered
  <2>7. QED
    BY <2>2, <2>4, <2>5, <2>6
<1>4. ASSUME Holds(w)
      PROVE  /\ LineOf(task[w]) = b \o (<<InHand(w)>> \o q)
             /\ InHand(w) \in Group
             /\ After(w) \in Rendition /\ After(w).units = b
  <2>1. task[w].held # None
    BY <1>4 DEF Holds
  <2>2. /\ InHand(w) \in Group /\ task[w].rendition \in Rendition
        /\ After(w) \in Rendition /\ After(w).units = task[w].rendition.units
    BY <2>1, AfterType
  <2>3. b = task[w].rendition.units
    BY <2>2, NoneAssumption DEF Buffered
  <2>4. HeldOf(task[w]) = <<InHand(w)>> /\ <<InHand(w)>> \in Seq(Group)
    BY <2>1, <2>2 DEF HeldOf, InHand
  <2>5. (b \o <<InHand(w)>>) \o q = b \o (<<InHand(w)>> \o q)
    <3> HIDE DEF b, q
    <3>1. QED
      BY <1>2, <2>4, ConcatAssociative
  <2>6. QED
    BY <2>2, <2>3, <2>4, <2>5 DEF LineOf
<1>5. QED
  BY <1>2, <1>3, <1>4

\* And the line of what it makes of it.
LEMMA LineAfter ==
  ASSUME NEW t, NEW q \in Seq(Group), t.queue = q
  PROVE  /\ \A b \in Seq(Group) :
              Buffered(t) = b /\ t.held = None => LineOf(t) = b \o q
         /\ Buffered(t) = <<>> /\ t.held = None => LineOf(t) = q
         /\ \A b \in Seq(Group), g \in Group :
              Buffered(t) = b /\ t.held = g => LineOf(t) = b \o (<<g>> \o q)
<1>1. ASSUME NEW b \in Seq(Group), Buffered(t) = b, t.held = None
      PROVE  LineOf(t) = b \o q
  <2>1. b \o <<>> = b
    BY ConcatEmptySeq
  <2>2. QED
    BY <1>1, <2>1 DEF LineOf, HeldOf
<1>2. ASSUME Buffered(t) = <<>>, t.held = None
      PROVE  LineOf(t) = q
  <2>1. <<>> \o <<>> = <<>> /\ <<>> \o q = q
    BY ConcatEmptySeq
  <2>2. QED
    BY <1>2, <2>1 DEF LineOf, HeldOf
<1>3. ASSUME NEW b \in Seq(Group), NEW g \in Group, Buffered(t) = b, t.held = g
      PROVE  LineOf(t) = b \o (<<g>> \o q)
  <2>1. g # None /\ <<g>> \in Seq(Group)
    BY GroupFacts
  <2>2. (b \o <<g>>) \o q = b \o (<<g>> \o q)
    BY <2>1, ConcatAssociative
  <2>3. QED
    BY <1>3, <2>1, <2>2 DEF LineOf, HeldOf
<1>4. QED
  BY <1>1, <1>2, <1>3

-----------------------------------------------------------------------------
\* The steps of the promise, with the line as it is before and after.

LEMMA OnlyRest ==
  ASSUME NEW b \in Seq(Group), NEW g \in Group, NEW t \in Seq(Group)
  PROVE  b \o (<<g>> \o t) = Append(b, g) \o t
<1>1. Append(b, g) = b \o <<g>> /\ <<g>> \in Seq(Group)
  BY AppendIsConcat
<1>2. (b \o <<g>>) \o t = b \o (<<g>> \o t)
  BY <1>1, ConcatAssociative
<1>3. QED
  BY <1>1, <1>2

LEMMA Publishes ==
  ASSUME NEW k \in Key, NEW b \in Seq(Group), b # <<>>, NEW t \in Seq(Group),
         NEW sent \in BOOLEAN, Pending[k] = b \o t,
         Pending' = [Pending EXCEPT ![k] = t],
         refused' = refused, Emit(k, b, sent)
  PROVE  Promise!Next
<1> DEFINE n == Len(b)
<1>1. n \in DOMAIN (b \o t)
  <2>1. b \o t \in Seq(Group) /\ Len(b \o t) = n + Len(t) /\ n \in Nat /\ n > 0
          /\ Len(t) \in Nat
    BY ConcatProperties, LenProperties, EmptySeq
  <2>2. DOMAIN (b \o t) = 1 .. Len(b \o t)
    BY <2>1, LenProperties
  <2>3. QED
    BY <2>1, <2>2
<1>2. /\ SubSeq(Pending[k], 1, n) = b
      /\ SubSeq(Pending[k], n + 1, Len(Pending[k])) = t
  BY FrontOfLine
<1>3. Promise!Leave(k, n, sent)
  BY <1>2 DEF Promise!Leave, Emit
<1>4. Pending' = [Pending EXCEPT ![k] = SubSeq(@, n + 1, Len(@))]
  BY <1>2
<1>5. Promise!Publish(k, n)
  BY <1>3, <1>4 DEF Promise!Publish
<1>6. QED
  BY <1>1, <1>5 DEF Promise!Next

LEMMA PublishesInVain ==
  ASSUME NEW k \in Key, NEW b \in Seq(Group), b # <<>>, NEW g \in Group,
         NEW t \in Seq(Group), Pending[k] = b \o (<<g>> \o t),
         Pending' = [Pending EXCEPT ![k] = t],
         refused' = refused \cup {g}, Emit(k, b, FALSE)
  PROVE  Promise!Next
<1> DEFINE n == Len(b)
           s == b \o (<<g>> \o t)
<1>1. /\ s \in Seq(Group) /\ n + 1 \in 1 .. Len(s) /\ s[n + 1] = g
      /\ SubSeq(s, 1, n) = b /\ SubSeq(s, n + 2, Len(s)) = t
  <2> HIDE DEF s
  <2>1. s = b \o (<<g>> \o t)
    BY DEF s
  <2>2. QED
    BY <2>1, MiddleOfLine, SMTT(30)
<1>2. n \in Nat /\ n > 0
  BY LenProperties, EmptySeq
<1>3. n \in DOMAIN Pending[k] /\ n < Len(Pending[k])
  <2> HIDE DEF n, s
  <2>1. DOMAIN s = 1 .. Len(s) /\ Len(s) \in Nat
    BY <1>1, LenProperties
  <2>2. Pending[k] = s
    BY DEF s
  <2>3. QED
    BY <1>1, <1>2, <2>1, <2>2
<1>4. Promise!Leave(k, n, FALSE)
  BY <1>1 DEF Promise!Leave, Emit
<1>5. Pending' = [Pending EXCEPT ![k] = SubSeq(@, n + 2, Len(@))]
  BY <1>1
<1>6. refused' = refused \cup {Pending[k][n + 1]}
  BY <1>1
<1>7. Promise!PublishFails(k, n)
  BY <1>3, <1>4, <1>5, <1>6 DEF Promise!PublishFails
<1>8. QED
  BY <1>3, <1>7 DEF Promise!Next

LEMMA Refuses ==
  ASSUME NEW k \in Key, NEW b \in Seq(Group), NEW g \in Group,
         NEW t \in Seq(Group), Pending[k] = b \o (<<g>> \o t),
         Pending' = [Pending EXCEPT ![k] = b \o t],
         refused' = refused \cup {g}, parts' = parts
  PROVE  Promise!Next
<1> DEFINE i == Len(b) + 1
           s == b \o (<<g>> \o t)
<1>1. /\ s \in Seq(Group) /\ i \in 1 .. Len(s) /\ s[i] = g
      /\ RemoveAt(s, i) = b \o t
  <2> HIDE DEF s
  <2>1. s = b \o (<<g>> \o t)
    BY DEF s
  <2>2. s \in Seq(Group) /\ i \in 1 .. Len(s) /\ s[i] = g
    BY <2>1, MiddleOfLine
  <2>3. RemoveAt(s, i) = b \o t
    <3>1. RemoveAt(s, i) = SubSeq(s, 1, i - 1) \o SubSeq(s, i + 1, Len(s))
      BY DEF RemoveAt
    <3>2. i - 1 = Len(b) /\ i + 1 = Len(b) + 2
      BY LenProperties
    <3>3. SubSeq(s, 1, Len(b)) = b /\ SubSeq(s, Len(b) + 2, Len(s)) = t
      BY <2>1, MiddleOfLine
    <3> HIDE DEF i
    <3>4. QED
      BY <3>1, <3>2, <3>3
  <2>4. QED
    BY <2>2, <2>3
<1>2. i \in DOMAIN Pending[k]
  <2> HIDE DEF s
  <2>1. DOMAIN s = 1 .. Len(s)
    BY <1>1, LenProperties
  <2>2. QED
    BY <1>1, <2>1 DEF s
<1>3. /\ refused' = refused \cup {Pending[k][i]}
      /\ Pending' = [Pending EXCEPT ![k] = RemoveAt(@, i)]
  BY <1>1
<1>4. Promise!Refuse(k, i)
  <2> HIDE DEF i
  <2>1. QED
    BY <1>3 DEF Promise!Refuse, Promise!RemoveAt, RemoveAt
<1>5. QED
  BY <1>2, <1>4 DEF Promise!Next

LEMMA PendingSame ==
  ASSUME NEW k \in Key, Pending' = [Pending EXCEPT ![k] = Pending[k]]
  PROVE  Pending' = Pending
BY DEF Pending

\* Each move of a task is one of these, or changes nothing they speak of.
LEMMA MoveKeepsPromise ==
  ASSUME LifeInv, OneTaskPerRendition, OneTaskPerRendition',
         NEW w \in Worker, TaskStep(w)
  PROVE  Promise!Next \/ UNCHANGED <<Pending, parts, refused>>
<1> DEFINE k == task[w].key
           b == Buffered(task[w])
           q == task[w].queue
           t == task'[w]
           line == IF t.done THEN <<>> ELSE LineOf(t)
<1>1. TypeInv /\ Moves(w)
  BY EveryTaskMove DEF LifeInv
<1>2. /\ k \in Key /\ Pending[k] = LineOf(task[w])
      /\ Pending' = [Pending EXCEPT ![k] = line]
  BY MovePending
<1>3. b \in Seq(Group) /\ q \in Seq(Group)
  BY <1>1, LineBefore
<1>5. ASSUME Draws(w)
      PROVE  /\ Pending[k] = b \o (<<Gone(w)>> \o Tail(q))
             /\ Gone(w) \in Group /\ Tail(q) \in Seq(Group)
             /\ Found(w) \in Rendition /\ Found(w).units = b
             /\ t.queue = Tail(q) /\ ~t.done
  <2>1. ~task[w].done
    BY <1>5 DEF Draws, LifeInv, ClosedInv
  <2>2. task'[w].queue = Tail(q) /\ task'[w].done = task[w].done
    BY <1>5 DEF Draws, Remains
  <2>3. QED
    BY <1>1, <1>2, <1>5, <2>1, <2>2, LineBefore
<1>6. ASSUME Holds(w)
      PROVE  /\ Pending[k] = b \o (<<InHand(w)>> \o q)
             /\ InHand(w) \in Group
             /\ After(w) \in Rendition /\ After(w).units = b
             /\ t.queue = q /\ t.held = None /\ ~t.done
  <2>1. ~task[w].done
    BY <1>6 DEF Holds, LifeInv, ClosedInv
  <2>2. /\ task'[w].queue = q /\ task'[w].done = task[w].done
        /\ task'[w].held = None
    BY <1>6 DEF Holds, Remains
  <2>3. QED
    BY <1>1, <1>2, <1>6, <2>1, <2>2, LineBefore
<1>7. \A r \in Rendition : t.rendition = r => Buffered(t) = r.units
  BY NoneAssumption DEF Buffered
<1>8. CASE Passes(w)
  <2>1. /\ Draws(w) /\ t.held = None /\ t.rendition = task[w].rendition
        /\ refused' = refused \cup {Gone(w)} /\ parts' = parts
    BY <1>8 DEF Passes
  <2>2. Buffered(t) = b
    BY <2>1 DEF Buffered
  <2>3. LineOf(t) = b \o Tail(q)
    <3> HIDE DEF b, q, t
    <3>1. QED
      BY <1>3, <1>5, <2>1, <2>2, LineAfter
  <2>4. Pending' = [Pending EXCEPT ![k] = b \o Tail(q)]
    BY <1>2, <1>5, <2>1, <2>3
  <2>5. QED
    <3> HIDE DEF k, b, q, t, line
    <3>1. QED
      BY <1>2, <1>3, <1>5, <2>1, <2>4, Refuses
<1>9. CASE Continues(w)
  <2>1. /\ Draws(w) /\ t.held = Gone(w) /\ t.rendition = Found(w)
        /\ refused' = refused /\ parts' = parts
    BY <1>9 DEF Continues
  <2>2. Buffered(t) = b
    BY <1>5, <1>7, <2>1
  <2>3. LineOf(t) = b \o (<<Gone(w)>> \o Tail(q))
    <3> HIDE DEF b, q, t
    <3>1. PICK g \in Group, rest \in Seq(Group), h \in Seq(Group) :
            g = Gone(w) /\ rest = Tail(q) /\ h = b
      BY <1>3, <1>5, <2>1
    <3>2. t.queue = rest /\ Buffered(t) = h /\ t.held = g
      BY <1>5, <2>1, <2>2, <3>1
    <3>3. LineOf(t) = h \o (<<g>> \o rest)
      BY <3>2, LineAfter
    <3>4. QED
      BY <3>1, <3>3
  <2>4. Pending' = [Pending EXCEPT ![k] = Pending[k]]
    BY <1>2, <1>5, <2>1, <2>3
  <2>5. QED
    BY <1>2, <2>1, <2>4, PendingSame
<1>10. ASSUME NEW sent \in BOOLEAN, Loses(w, sent)
       PROVE  Promise!Next
  <2>1. /\ Draws(w) /\ t.held = None /\ ~sent /\ Found(w).units # <<>>
        /\ t.rendition = [Found(w) EXCEPT !.units = <<>>]
        /\ refused' = refused \cup {Gone(w)} /\ Emit(k, Found(w).units, sent)
    BY <1>10 DEF Loses
  <2>2. b # <<>> /\ Emit(k, b, FALSE)
    <3>1. sent = FALSE
      BY <2>1
    <3>2. QED
      BY <1>5, <2>1, <3>1
  <2>3. Buffered(t) = <<>>
    BY <1>5, <2>1 DEF Buffered, Rendition
  <2>4. LineOf(t) = Tail(q)
    <3> HIDE DEF b, q, t
    <3>1. QED
      BY <1>5, <2>1, <2>3, LineAfter
  <2>5. Pending' = [Pending EXCEPT ![k] = Tail(q)]
    BY <1>2, <1>5, <2>1, <2>4
  <2>6. QED
    <3> HIDE DEF k, b, q, t, line
    <3>1. QED
      BY <1>2, <1>3, <1>5, <2>1, <2>2, <2>5, PublishesInVain
<1>11. ASSUME NEW sent \in BOOLEAN, Breaks(w, sent)
       PROVE  Promise!Next \/ UNCHANGED <<Pending, parts, refused>>
  <2> DEFINE rest == <<Gone(w)>> \o Tail(q)
  <2>1. /\ Draws(w) /\ t.held = Gone(w)
        /\ t.rendition = [Found(w) EXCEPT !.format = Gone(w).what.format,
                                          !.units = <<>>]
        /\ refused' = refused /\ Emit(k, b, sent)
    <3>1. /\ Draws(w) /\ t.held = Gone(w) /\ refused' = refused
          /\ t.rendition = [Found(w) EXCEPT !.format = Gone(w).what.format,
                                            !.units = <<>>]
          /\ Emit(k, Found(w).units, sent)
      BY <1>11 DEF Breaks
    <3>2. Found(w).units = b
      BY <1>5, <3>1
    <3>3. Emit(k, b, sent)
      BY <3>1, <3>2
    <3>4. QED
      BY <3>1, <3>3
  <2>2. Buffered(t) = <<>> /\ <<>> \in Seq(Group)
    <3>1. PICK r \in Rendition : r = Found(w)
      BY <1>5, <2>1
    <3>2. \A f : [r EXCEPT !.format = f, !.units = <<>>].units = <<>>
      BY DEF Rendition
    <3>3. t.rendition.units = <<>>
      BY <2>1, <3>1, <3>2
    <3>4. QED
      BY <3>3 DEF Buffered
  <2>3. rest \in Seq(Group) /\ <<>> \o rest = rest
    <3>1. <<Gone(w)>> \in Seq(Group)
      BY <1>5, <2>1
    <3>2. rest \in Seq(Group)
      BY <1>5, <2>1, <3>1, ConcatProperties
    <3>3. QED
      BY <3>2, ConcatEmptySeq
  <2>4. LineOf(t) = <<>> \o rest
    <3> HIDE DEF b, q, t
    <3>1. QED
      BY <1>5, <2>1, <2>2, LineAfter
  <2>5. Pending' = [Pending EXCEPT ![k] = rest]
    BY <1>2, <1>5, <2>1, <2>3, <2>4
  <2>6. Pending[k] = b \o rest
    BY <1>5, <2>1
  <2>7. CASE b = <<>>
    <3>1. parts' = parts
      BY <2>1, <2>7 DEF Emit
    <3>2. Pending' = Pending
      BY <1>2, <2>3, <2>5, <2>6, <2>7, PendingSame
    <3>3. QED
      BY <2>1, <3>1, <3>2
  <2>8. CASE b # <<>>
    <3>1. refused' = refused /\ Emit(k, b, sent) /\ sent \in BOOLEAN
      BY <2>1, <1>11
    <3>2. k \in Key
      BY <1>2
    <3> HIDE DEF k, b, rest, t, q, line
    <3>3. Promise!Next
      BY <3>1, <3>2, <1>3, <2>3, <2>5, <2>6, <2>8, Publishes
    <3>4. QED
      BY <3>3
  <2>9. QED
    BY <2>7, <2>8
<1>12. CASE CannotConvert(w)
  <2>1. /\ Holds(w) /\ t.rendition = After(w)
        /\ refused' = refused \cup {InHand(w)} /\ parts' = parts
    BY <1>12 DEF CannotConvert
  <2>2. Buffered(t) = b
    BY <1>6, <1>7, <2>1
  <2>3. LineOf(t) = b \o q
    <3> HIDE DEF b, q, t
    <3>1. QED
      BY <1>3, <1>6, <2>1, <2>2, LineAfter
  <2>4. Pending' = [Pending EXCEPT ![k] = b \o q]
    BY <1>2, <1>6, <2>1, <2>3
  <2>5. QED
    <3> HIDE DEF k, b, q, t, line
    <3>1. QED
      BY <1>2, <1>3, <1>6, <2>1, <2>4, Refuses
<1>13. CASE Buffers(w)
  <2>1. /\ Holds(w) /\ refused' = refused /\ parts' = parts
        /\ t.rendition = [After(w) EXCEPT !.units = Append(b, InHand(w))]
    BY <1>6, <1>13 DEF Buffers, Holds
  <2>2. Append(b, InHand(w)) \in Seq(Group)
    BY <1>3, <1>6, <2>1
  <2>3. Buffered(t) = Append(b, InHand(w))
    <3>1. [After(w) EXCEPT !.units = Append(b, InHand(w))] \in Rendition
      BY <1>6, <2>1, <2>2 DEF Rendition
    <3>2. [After(w) EXCEPT !.units = Append(b, InHand(w))].units = Append(b, InHand(w))
      BY <1>6, <2>1 DEF Rendition
    <3>3. PICK r \in Rendition : t.rendition = r /\ r.units = Append(b, InHand(w))
      BY <2>1, <3>1, <3>2
    <3>4. QED
      BY <1>7, <3>3
  <2>4. LineOf(t) = Append(b, InHand(w)) \o q
    <3> HIDE DEF b, q, t
    <3>1. QED
      BY <1>3, <1>6, <2>1, <2>2, <2>3, LineAfter, ZenonT(40)
  <2>5. LineOf(t) = b \o (<<InHand(w)>> \o q)
    <3>1. InHand(w) \in Group
      BY <1>6, <2>1
    <3> HIDE DEF b, q, t
    <3>2. QED
      BY <1>3, <3>1, <2>4, OnlyRest
  <2>6. Pending' = [Pending EXCEPT ![k] = Pending[k]]
    BY <1>2, <1>6, <2>1, <2>5
  <2>7. QED
    BY <1>2, <2>1, <2>6, PendingSame
<1>14. ASSUME NEW sent \in BOOLEAN, Fills(w, sent)
       PROVE  Promise!Next
  <2> DEFINE units == Append(b, InHand(w))
  <2>1. /\ Holds(w) /\ refused' = refused /\ Emit(k, units, sent)
        /\ t.rendition = [After(w) EXCEPT !.units = <<>>]
    BY <1>6, <1>14 DEF Fills
  <2>2. units \in Seq(Group) /\ units # <<>>
    BY <1>3, <1>6, <2>1, AppendProperties
  <2>3. Buffered(t) = <<>>
    BY <1>6, <2>1 DEF Buffered, Rendition
  <2>4. LineOf(t) = q
    <3> HIDE DEF b, q, t
    <3>1. QED
      BY <1>3, <1>6, <2>1, <2>3, LineAfter
  <2>5. Pending' = [Pending EXCEPT ![k] = q]
    BY <1>2, <1>6, <2>1, <2>4
  <2>6. Pending[k] = units \o q
    <3>1. InHand(w) \in Group /\ Pending[k] = b \o (<<InHand(w)>> \o q)
      BY <1>6, <2>1
    <3> HIDE DEF b, q, k
    <3>2. QED
      BY <1>3, <3>1, OnlyRest
  <2>7. QED
    <3>1. refused' = refused /\ Emit(k, units, sent) /\ sent \in BOOLEAN
      BY <2>1, <1>14
    <3>2. k \in Key
      BY <1>2
    <3> HIDE DEF k, b, q, units, t, line
    <3>3. QED
      BY <3>1, <3>2, <1>3, <2>2, <2>5, <2>6, Publishes
<1>15. ASSUME NEW sent \in BOOLEAN, Ends(w, sent)
       PROVE  Promise!Next \/ UNCHANGED <<Pending, parts, refused>>
  <2>1. /\ task[w].held = None /\ q = <<>> /\ t.done
        /\ refused' = refused /\ Emit(k, b, sent)
    BY <1>15 DEF Ends, Buffered
  <2>2. Pending' = [Pending EXCEPT ![k] = <<>>]
    BY <1>2, <2>1
  <2>3. Pending[k] = b \o <<>> /\ b \o <<>> = b /\ <<>> \in Seq(Group)
    <3>1. HeldOf(task[w]) = <<>> /\ b \o <<>> = b
      <4>1. HeldOf(task[w]) = <<>>
        BY <2>1 DEF HeldOf
      <4>2. b \o <<>> = b
        <5> HIDE DEF b
        <5>1. QED
          BY <1>3, ConcatEmptySeq
      <4>3. QED
        BY <4>1, <4>2
    <3>2. LineOf(task[w]) = b \o <<>>
      BY <2>1, <3>1 DEF LineOf
    <3>3. QED
      BY <1>2, <3>1, <3>2
  <2>4. CASE b = <<>>
    <3>1. parts' = parts
      BY <2>1, <2>4 DEF Emit
    <3>2. Pending[k] = <<>>
      BY <2>3, <2>4
    <3>3. Pending' = Pending
      BY <1>2, <2>2, <3>2, PendingSame
    <3>4. QED
      BY <2>1, <3>1, <3>3
  <2>5. CASE b # <<>>
    <3>1. refused' = refused /\ Emit(k, b, sent) /\ sent \in BOOLEAN
      BY <2>1, <1>15
    <3>2. k \in Key
      BY <1>2
    <3> HIDE DEF k, b, q, t, line
    <3>3. Promise!Next
      BY <3>1, <3>2, <1>3, <2>2, <2>3, <2>5, Publishes
    <3>4. QED
      BY <3>3
  <2>6. QED
    BY <2>4, <2>5
<1>16. QED
  BY <1>1, <1>8, <1>9, <1>10, <1>11, <1>12, <1>13, <1>14, <1>15 DEF Moves

-----------------------------------------------------------------------------
\* The steps of the dispatcher: Dispatch lengthens one line, the others none.

LEMMA JoinsLine ==
  ASSUME NEW k \in Key, NEW s \in Seq(Group), NEW g \in Group, Pending[k] = s,
         Pending' = [Pending EXCEPT ![k] = Append(s, g)],
         UNCHANGED <<parts, refused>>
  PROVE  Promise!Next
<1> DEFINE longer == Append(s, g)
<1>1. Len(longer) = Len(s) + 1 /\ longer[Len(longer)] = g
  <2>1. /\ Len(longer) = Len(s) + 1 /\ longer[Len(s) + 1] = g
    BY AppendProperties
  <2>2. QED
    BY <2>1
<1>2. Pending'[k] = longer
  BY DEF Pending
<1>3. Pending' = [Pending EXCEPT ![k] = Append(@, g)]
  OBVIOUS
<1>4. Promise!Accept(k)
  <2> HIDE DEF longer
  <2>1. Promise!Last(Pending'[k]) = g
    BY <1>1, <1>2 DEF Promise!Last
  <2>2. QED
    BY <1>1, <1>2, <1>3, <2>1 DEF Promise!Accept
<1>5. QED
  BY <1>4 DEF Promise!Next

LEMMA LineGrows ==
  ASSUME NEW t \in TaskType, NEW u, NEW g \in Group,
         u.queue = Append(t.queue, g), u.held = t.held, u.rendition = t.rendition
  PROVE  LineOf(t) \in Seq(Group) /\ LineOf(u) = Append(LineOf(t), g)
<1> DEFINE x == Buffered(t) \o HeldOf(t)
           q == t.queue
<1>1. q \in Seq(Group) /\ <<>> \in Seq(Group) /\ <<g>> \in Seq(Group)
  BY DEF TaskType
<1>2. Buffered(t) \in Seq(Group)
  BY <1>1 DEF TaskType, Rendition, Buffered
<1>3. HeldOf(t) \in Seq(Group)
  <2>1. CASE t.held = None
    BY <1>1, <2>1 DEF HeldOf
  <2>2. CASE t.held # None
    <3>1. t.held \in Group
      BY <2>2 DEF TaskType
    <3>2. <<t.held>> \in Seq(Group)
      BY <3>1
    <3>3. QED
      BY <2>2, <3>2 DEF HeldOf
  <2>3. QED
    BY <2>1, <2>2
<1>4. x \in Seq(Group)
  BY <1>2, <1>3, ConcatProperties
<1>5. LineOf(t) = x \o q /\ LineOf(u) = x \o Append(q, g)
  BY DEF LineOf, Buffered, HeldOf
<1>6. x \o q \in Seq(Group) /\ x \o Append(q, g) = Append(x \o q, g)
  <2> HIDE DEF x, q
  <2>1. x \o q \in Seq(Group)
    BY <1>1, <1>4, ConcatProperties
  <2>2. Append(q, g) = q \o <<g>> /\ Append(x \o q, g) = (x \o q) \o <<g>>
    BY <1>1, <2>1, AppendIsConcat
  <2>3. (x \o q) \o <<g>> = x \o (q \o <<g>>)
    BY <1>1, <1>4, ConcatAssociative, SMTT(30)
  <2>4. QED
    BY <2>1, <2>2, <2>3
<1>7. QED
  BY <1>5, <1>6

LEMMA EmptyLine == LineOf(NoTask) = <<>>
<1>1. <<>> \o <<>> = <<>>
  BY ConcatEmptySeq
<1>2. Buffered(NoTask) = <<>> /\ HeldOf(NoTask) = <<>> /\ NoTask.queue = <<>>
  BY DEF Buffered, HeldOf, NoTask
<1>3. QED
  BY <1>1, <1>2 DEF LineOf

LEMMA DispatchAccepts ==
  ASSUME LifeInv, OneTaskPerRendition, OneTaskPerRendition', Dispatch
  PROVE  Promise!Next
<1> DEFINE g == Head(todo)
           k == g.what.key
<1>1. TypeInv /\ OneIn(task) /\ OneIn(task')
  BY PendingIsIn DEF LifeInv
<1>2. todo # <<>> /\ k \in Configured
  BY DEF Dispatch
<1>3. g \in Group /\ k \in Key
  BY <1>1, <1>2, ConfiguredAssumption, HeadOfTodo DEF TypeInv
<1>4. PICK w \in Worker :
        /\ Takes(w, k)
        /\ task' = [task EXCEPT ![w].key = k, ![w].queue = Append(@, g)]
  BY DEF Dispatch
<1>5. /\ OthersStay(w)
      /\ task'[w].key = k /\ task'[w].queue = Append(task[w].queue, g)
      /\ task'[w].closed = task[w].closed /\ task'[w].done = task[w].done
      /\ task'[w].held = task[w].held
      /\ task'[w].rendition = task[w].rendition
  <2> HIDE DEF g, k
  <2>1. Given(w, k, g) /\ TasksTyped
    BY <1>1, <1>4, TypedTasks DEF Given
  <2>2. QED
    BY <1>1, <1>3, <1>4, <2>1, GivenFacts
<1>6. k # None /\ task[w] \in TaskType /\ joining = {}
  BY <1>1, <1>2, <1>3, NoneAssumption
     DEF TypeInv, TasksTyped, TablesTyped, Place, LifeInv, PlaceInv
<1>7. ~task[w].done /\ PendingIn(task)[k] = LineOf(task[w])
  <2>1. CASE workers[k] = 0
    <3>1. task[w] = NoTask
      BY <1>1, <1>3, <1>4, <2>1, TakerFacts
    <3>2. \A v \in Worker : ~(LiveIn(task, v) /\ task[v].key = k)
      BY <1>6, <2>1, BoundFacts DEF LifeInv, AwaitedInv, Live, LiveIn
    <3>3. PendingIn(task)[k] = <<>>
      <4> HIDE DEF k
      <4>1. QED
        BY <1>3, <3>2, NothingPending
    <3>4. QED
      BY <3>1, <3>3, EmptyLine DEF NoTask
  <2>2. CASE workers[k] # 0
    <3>1. w = workers[k] /\ task[w].key = k
      BY <1>1, <1>3, <1>4, <2>2 DEF Takes, TypeInv, TableNamed
    <3>2. ~task[w].done
      BY <1>3, <2>2, <3>1 DEF LifeInv, ClosedInv
    <3>3. LiveIn(task, w)
      BY <1>6, <3>1, <3>2 DEF LiveIn
    <3>4. QED
      <4> HIDE DEF k
      <4>1. QED
        BY <1>1, <1>3, <3>1, <3>2, <3>3, PendingOf
  <2>3. QED
    BY <2>1, <2>2
<1>8. PendingIn(task')[k] = LineOf(task'[w])
  <2>1. LiveIn(task', w)
    BY <1>5, <1>6, <1>7 DEF LiveIn
  <2>2. QED
    <3> HIDE DEF k
    <3>1. QED
      BY <1>1, <1>3, <1>5, <2>1, PendingOf
<1>9. /\ LineOf(task[w]) \in Seq(Group)
      /\ LineOf(task'[w]) = Append(LineOf(task[w]), g)
  <2> HIDE DEF g
  <2>1. QED
    BY <1>3, <1>5, <1>6, LineGrows
<1>10. ASSUME NEW j \in Key \ {k}
       PROVE  PendingIn(task')[j] = PendingIn(task)[j]
  <2>1. task[w].key # j
    BY <1>1, <1>3, <1>4, TakerFacts, NoneAssumption
  <2>2. \A v \in Worker :
          /\ LiveIn(task, v) /\ task[v].key = j <=> LiveIn(task', v) /\ task'[v].key = j
          /\ LiveIn(task, v) /\ task[v].key = j => LineOf(task'[v]) = LineOf(task[v])
    BY <1>5, <2>1 DEF LiveIn, OthersStay
  <2>3. QED
    BY <1>1, <2>2, PendingStays
<1>11. Pending[k] = LineOf(task[w])
       /\ Pending' = [Pending EXCEPT ![k] = Append(LineOf(task[w]), g)]
  <2> HIDE DEF k, g
  <2>1. PendingIn(task') = [PendingIn(task) EXCEPT ![k] = LineOf(task'[w])]
    BY <1>3, <1>8, <1>10, PendingExcept
  <2>2. QED
    BY <1>7, <1>9, <2>1, PendingIsIn
<1>12. UNCHANGED <<parts, refused>>
  BY DEF Dispatch, output
<1>13. QED
  <2> HIDE DEF k, g
  <2>1. QED
    BY <1>3, <1>9, <1>11, <1>12, JoinsLine

\* Closing its queue takes nothing out of a task.
LEMMA CloseKeepsLines ==
  ASSUME LifeInv, OneTaskPerRendition, OneTaskPerRendition', NEW W, Close(W)
  PROVE  Pending' = Pending
<1>1. OneIn(task) /\ OneIn(task') /\ TasksTyped
  BY PendingIsIn, TypedTasks DEF LifeInv
<1>2. \A w \in Worker :
        /\ task'[w].key = task[w].key /\ task'[w].queue = task[w].queue
        /\ task'[w].held = task[w].held /\ task'[w].done = task[w].done
        /\ task'[w].rendition = task[w].rendition
  BY <1>1, CloseFacts
<1>3. ASSUME NEW k \in Key
      PROVE  PendingIn(task')[k] = PendingIn(task)[k]
  <2>1. \A w \in Worker :
          /\ LiveIn(task, w) /\ task[w].key = k <=> LiveIn(task', w) /\ task'[w].key = k
          /\ LiveIn(task, w) /\ task[w].key = k => LineOf(task'[w]) = LineOf(task[w])
    BY <1>2 DEF LiveIn, LineOf, Buffered, HeldOf
  <2>2. QED
    BY <1>1, <2>1, PendingStays
<1>4. PendingIn(task') = PendingIn(task)
  BY <1>3 DEF PendingIn
<1>5. QED
  BY <1>4, PendingIsIn

LEMMA StartsInOrder == Init => Promise!Init
<1> SUFFICES ASSUME Init
             PROVE  Promise!Init
  OBVIOUS
<1>1. \A w \in Worker : ~Live(w)
  BY DEF Init, Live, NoTask
<1>2. \A k \in Key : {w \in Worker : Live(w) /\ task[w].key = k} = {}
  BY <1>1
<1>3. Pending = [k \in Key |-> <<>>]
  BY <1>2 DEF Pending
<1>4. QED
  BY <1>3 DEF Init, Promise!Init

LEMMA StepKeepsOrder ==
  LifeInv /\ OneTaskPerRendition /\ OneTaskPerRendition' /\ [Next]_vars
    => [Promise!Next]_(Promise!vars)
<1> SUFFICES ASSUME LifeInv, OneTaskPerRendition, OneTaskPerRendition', [Next]_vars
             PROVE  Promise!Next \/ UNCHANGED <<Pending, parts, refused>>
  BY DEF Promise!vars
<1>1. CASE Dispatch
  BY <1>1, DispatchAccepts
<1>2. CASE Sweep
  BY <1>2, CloseKeepsLines DEF Sweep, output
<1>3. CASE EndDrain
  BY <1>3, CloseKeepsLines DEF EndDrain, output
<1>4. ASSUME NEW w \in Worker, TaskStep(w)
      PROVE  Promise!Next \/ UNCHANGED <<Pending, parts, refused>>
  BY <1>4, MoveKeepsPromise
<1>5. CASE \/ Shutdown \/ Elapse \/ ReceiveInvalid \/ Skip \/ SeeShutdown \/ Join
           \/ UNCHANGED vars \/ \E p \in Peer : Offer(p)
           \/ \E contents \in Completions : Receive(contents)
  <2>1. UNCHANGED <<task, output>>
    BY <1>5 DEF Shutdown, Elapse, ReceiveInvalid, Skip, SeeShutdown, Join, vars,
                Offer, Receive
  <2>2. Pending' = Pending
    BY <2>1, PendingIsIn
  <2>3. QED
    BY <2>1, <2>2 DEF output
<1>6. QED
  BY <1>1, <1>2, <1>3, <1>4, <1>5 DEF Next, DispatcherStep

\* Through the dispatcher, the queues, the retirements and the drain a rendition's
\* groups leave in order, once, whole parts at a time, or are refused one by one:
\* the worker implements `OrderedRendition` (AE 437-463, 492-554, 639-731).
THEOREM WorkerKeepsOrder == HlsSpec => KeepsOrder
<1>1. HlsSpec => [](LifeInv /\ OneTaskPerRendition)
  BY WorkerInvariants, LifeIsOne, PTL
<1>2. LifeInv /\ OneTaskPerRendition /\ (LifeInv /\ OneTaskPerRendition)'
        /\ [Next]_vars => [Promise!Next]_(Promise!vars)
  BY StepKeepsOrder
<1>3. QED
  BY <1>1, <1>2, StartsInOrder, PTL DEF HlsSpec, KeepsOrder, Promise!Spec

\* And so does the plane, the run's composition of it with the ingress.
THEOREM PlaneKeepsOrder == PlaneSpec => KeepsOrder
BY PlaneIsWorkers, WorkerKeepsOrder
=============================================================================
