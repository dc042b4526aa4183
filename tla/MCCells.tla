------------------------------ MODULE MCCells ------------------------------
(***************************************************************************)
(* The cells over a core of their own: coordination, queue and topic; the  *)
(* timed cores: sources, rate shaping, resilience, deadlines; the          *)
(* statechart; the keyed family and the reconciled list; the containers of *)
(* the graph and the blob transport.  They do not act on each other: a     *)
(* behaviour runs one while the others stay in their initial states, so    *)
(* the state spaces add up instead of multiplying.                         *)
(***************************************************************************)
EXTENDS Coordination, QueueCell, TopicCell, TemporalSources, RateShape, Resilience,
        Deadlines, Statechart, KeyedFamily, KeyedReconcile, GraphContainers, BlobTransport, TLC

VARIABLE part   \* the cell this behaviour runs

reactiveVars == <<coordinationVars, queueVars, topicVars>>
timedVars == <<temporalVars, shapeVars, resilienceVars, deadlineVars>>
keyedVars == <<chartVars, familyVars, reconcileVars>>
storageVars == <<containerVars, blobVars>>
cellsVars == <<part, reactiveVars, timedVars, keyedVars, storageVars>>

CellParts ==
  {"coordination", "queue", "topic", "temporal", "shape", "resilience", "deadlines",
   "chart", "family", "reconcile", "edges", "pending", "blobs"}

\* Choices that a part makes as it starts are fixed where another part runs.
CellsInit ==
  /\ part \in CellParts
  /\ CoordinationInit /\ TopicInit /\ StatechartInit /\ FamilyInit /\ ReconcileInit
  /\ ContainersInit /\ BlobInit
  /\ QueueInit /\ (part # "queue" => queueReader = "len")
  /\ TemporalInit /\ (part # "temporal" => fire_at = 1 /\ period = 1 /\ cycle = 1 /\ offsets = {})
  /\ ShapeInit /\ (part # "shape" => shaper = "debounce")
  /\ ResilienceInit /\ (part # "resilience" => guard = "breaker")
  /\ DeadlinesInit /\ (part # "deadlines" => wait = New("timer", 0, 1))

ReactiveNext ==
  \/ part = "coordination" /\ CoordinationNext /\ UNCHANGED <<queueVars, topicVars>>
  \/ part = "queue" /\ QueueNext /\ UNCHANGED <<coordinationVars, topicVars>>
  \/ part = "topic" /\ TopicNext /\ UNCHANGED <<coordinationVars, queueVars>>

TimedNext ==
  \/ part = "temporal" /\ TemporalNext /\ UNCHANGED <<shapeVars, resilienceVars, deadlineVars>>
  \/ part = "shape" /\ ShapeNext /\ UNCHANGED <<temporalVars, resilienceVars, deadlineVars>>
  \/ part = "resilience" /\ ResilienceNext /\ UNCHANGED <<temporalVars, shapeVars, deadlineVars>>
  \/ part = "deadlines" /\ DeadlinesNext /\ UNCHANGED <<temporalVars, shapeVars, resilienceVars>>

KeyedNext ==
  \/ part = "chart" /\ StatechartNext /\ UNCHANGED <<familyVars, reconcileVars>>
  \/ part = "family" /\ FamilyNext /\ UNCHANGED <<chartVars, reconcileVars>>
  \/ part = "reconcile" /\ ReconcileNext /\ UNCHANGED <<chartVars, familyVars>>

StorageNext ==
  \/ part = "edges" /\ EdgesNext /\ UNCHANGED blobVars
  \/ part = "pending" /\ PendingNext /\ UNCHANGED blobVars
  \/ part = "blobs" /\ BlobNext /\ UNCHANGED containerVars

CellsNext ==
  \/ ReactiveNext /\ UNCHANGED <<part, timedVars, keyedVars, storageVars>>
  \/ TimedNext /\ UNCHANGED <<part, reactiveVars, keyedVars, storageVars>>
  \/ KeyedNext /\ UNCHANGED <<part, reactiveVars, timedVars, storageVars>>
  \/ StorageNext /\ UNCHANGED <<part, reactiveVars, timedVars, keyedVars>>

CellsSpec == CellsInit /\ [][CellsNext]_cellsVars

-----------------------------------------------------------------------------
(* The instances.                                                          *)

(* The chart that runs:                                                    *)
(* root: off | main (deep history) | side (shallow history)                *)
(*   main: work (parallel: left a b, right c d) | idle                     *)
(*   side: one (compound: x y) | two                                       *)
HomeOrder == <<"root", "off", "main", "deep", "work", "left", "a", "b", "right", "c", "d",
               "idle", "side", "shallow", "one", "x", "y", "two">>
HomeParent ==
  [s \in Range(HomeOrder) |->
     CASE s = "root" -> NoState
       [] s \in {"off", "main", "side"} -> "root"
       [] s \in {"deep", "work", "idle"} -> "main"
       [] s \in {"left", "right"} -> "work"
       [] s \in {"a", "b"} -> "left"
       [] s \in {"c", "d"} -> "right"
       [] s \in {"shallow", "one", "two"} -> "side"
       [] s \in {"x", "y"} -> "one"]
HomeKind ==
  [s \in Range(HomeOrder) |->
     CASE s \in {"root", "main", "left", "right", "side", "one"} -> "Compound"
       [] s = "work" -> "Parallel"
       [] s = "deep" -> "HistoryDeep"
       [] s = "shallow" -> "HistoryShallow"
       [] s = "two" -> "Final"
       [] OTHER -> "Atomic"]
HomeInitial ==
  [s \in Range(HomeOrder) |->
     CASE s = "root" -> "off" [] s = "main" -> "work" [] s = "left" -> "a"
       [] s = "right" -> "c" [] s = "side" -> "one" [] s = "one" -> "x" [] OTHER -> NoState]
HomeDefault == [s \in Range(HomeOrder) |-> IF s = "deep" THEN "idle" ELSE NoState]
on(from, event, target) ==
  [from |-> from, event |-> event, target |-> target, guard |-> NoGuard, internal |-> FALSE]
HomeTransitions ==
  {on("off", "start", "main"), on("off", "resume", "deep"), on("off", "aside", "shallow"),
   on("main", "stop", "off"), on("side", "stop", "off"),
   on("a", "step", "b"), [on("b", "step", "a") EXCEPT !.guard = "g"],
   on("c", "step", "d"), on("d", "step", "c"),
   on("work", "swap", "idle"), on("idle", "swap", "work"), on("a", "swap", "b"),
   on("x", "step", "y"), on("one", "swap", "two"), on("two", "swap", "y"),
   [on("right", "reset", "c") EXCEPT !.internal = TRUE],
   on("main", "reset", "main"), on("one", "reset", "one"), on("side", "resume", "shallow")}

(* Two keys are there before the threads of the family start.              *)
FamilySeed == <<1, 2>>

(* Hashes that collide and run over the end of the smallest index, apart   *)
(* from each other once it has doubled.                                    *)
HomeSlots == <<6, 14, 7, 7, 15>>

(* Two large payloads that length and checksum do not tell apart.          *)
BlobLens == [s |-> 1, x |-> 3, y |-> 3]
BlobSums == [s |-> 1, x |-> 2, y |-> 2]
BlobMail == {<<"x", "s", "y">>}

\* These threads and subscribers only occur in sets, functions and equalities.
CellsSymmetry ==
  Permutations(TopicThreads) \cup Permutations(Subscribers) \cup Permutations(FamilyThreads)

-----------------------------------------------------------------------------
(* What the parts keep, each stated of the behaviours that run it.         *)

\* Readers catch up, in whatever order the threads clear them: those of the
\* queue show its length, emptiness, fullness and closedness once its threads
\* are done; the stream of every id of a topic shows the log from its cursor on
\* unless gc has cut it off, and a connected subscriber has a reader unless an
\* overtaken disconnect took it (StreamsCurrent); the queue keeps its capacity
\* and gc takes nothing a durable subscriber has not read.
ReadersSound ==
  /\ part = "queue" => QueueTypeOK /\ QueueReadersCurrent
  /\ part = "topic" => TopicTypeOK /\ DurableRetained /\ StreamsCurrent

\* Timed cores, whatever the clock does: a clock that jumps loses no boundary
\* and counts none twice; a shaper keeps its rate and windows partition the
\* inputs; breaker, deadline and bulkhead keep their limits, and a retry waits
\* what its policy says, at the edges of a word too; and all callers of a timer,
\* timeout or revision barrier hear one verdict.
TimedSound ==
  /\ part = "temporal" => NoBoundaryLost
  /\ part = "shape" => RatesKept /\ WindowsPartition
  /\ part = "resilience" => GuardsHold /\ DelaysExact
  /\ part = "deadlines" => VerdictsStand

\* The active states are a legal configuration of the chart after every event,
\* and a history state restores what was active when its region was left.
ChartSound == part = "chart" => ConfigurationLegal /\ HistoryRestores

\* Keyed collections: the readers of a shared family see its keys when no call
\* is under way, a key hands out one handle, and a move puts the key where it
\* was asked to; the index of a list finds every child, and a reconciled list
\* has the new keys and values.
KeyedSound ==
  /\ part = "family" => FamilyReadersCurrent /\ HandlesStable /\ MovesLand
  /\ part = "reconcile" => IndexFindsChildren /\ ReconciledContent

\* What is stored is found again and nothing else is: edges and pending effects
\* through indices that swap, pop, tombstone and rehash, payloads through
\* descriptors that two backends, an epoch and a full region tell apart.
StorageSound ==
  /\ part = "edges" => EdgesExact
  /\ part = "pending" => PendingExact
  /\ part = "blobs" => BlobsResolve

=============================================================================
