-------------------------- MODULE GraphContainers --------------------------
(***************************************************************************)
(* The two containers of the graph engine: the edge set of a node          *)
(* (EdgeSet), which scans while it is small and keeps an open-addressing   *)
(* index of positions when it is wide, and the queue of pending effects    *)
(* (PendingQueue), whose index holds absolute positions so that a pop      *)
(* moves none.  Both remove by putting the last element into the hole.     *)
(***************************************************************************)
EXTENDS Integers, SequencesExt, FiniteSetsExt, Functions, TLC

CONSTANTS
  EdgeIds,         \* the ids that become edges
  EdgeHome,        \* mix: the hash of an id
  edge_promote,    \* LAZILY_EDGE_INDEX_PROMOTE
  edge_demote,     \* LAZILY_EDGE_INDEX_DEMOTE
  first_slots,     \* the slots of the smallest index
  QueueIds,        \* the effects that are queued
  queue_promote,   \* PendingQueue::kPromote
  queue_demote,    \* PendingQueue::kDemote
  MaxPops,         \* bound on base_
  Unindexed        \* index_ is null

ASSUME ContainersAssumption ==
  /\ EdgeHome \in [EdgeIds -> Nat]
  /\ edge_demote \in Nat /\ edge_promote \in Nat /\ edge_demote <= edge_promote
  /\ first_slots \in Nat \ {0} /\ queue_promote \in Nat /\ queue_demote \in Nat
  /\ MaxPops \in Nat

VARIABLES
  edgeSet,   \* [edges, index]: edges_ and index_ of one EdgeSet
  members,   \* history: the ids inserted and not removed
  effects,   \* [q, base, index] of the PendingQueue
  waiting    \* history: the ids pushed and neither popped nor erased

edgeVars == <<edgeSet, members>>
queuedVars == <<effects, waiting>>
containerVars == <<edgeVars, queuedVars>>

Empty == 0    \* a slot never used
Tomb == -1    \* a slot whose id has left
NPos == -1

-----------------------------------------------------------------------------
(* The index: slots[i] is Empty, Tomb, or the position of an edge.         *)

Capacity(slots) == Cardinality(DOMAIN slots)

\* The k-th slot that is looked at for id, wrapping around.
SlotAt(slots, id, k) == (EdgeHome[id] + k) % Capacity(slots)

\* The first slot on the path of id that holds one of stops.  A path without
\* one would be walked for ever; EdgesExact states that there is always one.
FirstOn(slots, id, stops) ==
  LET ends == {k \in 0 .. Capacity(slots) - 1 : slots[SlotAt(slots, id, k)] \in stops}
  IN SlotAt(slots, id, Min(ends))

probe(edges, slots, id) ==
  LET i == FirstOn(slots, id, {Empty} \cup {n \in DOMAIN edges : edges[n] = id})
  IN IF slots[i] = Empty THEN NPos ELSE i

place(index, id, pos) ==
  LET i == FirstOn(index.slots, id, {Empty, Tomb})
  IN [index EXCEPT !.slots[i] = pos,
                   !.tomb = IF index.slots[i] = Tomb THEN @ - 1 ELSE @]

needs_rehash(index) ==
  \/ (index.live + index.tomb) * 2 >= Capacity(index.slots)
  \/ index.tomb * 4 >= Capacity(index.slots)

\* Doubled from first_slots until four slots are there for every edge.
SlotsFor(n) ==
  LET grown[c \in Nat] == IF c < n * 4 THEN grown[2 * c] ELSE c IN grown[first_slots]

rebuild_index(edges) ==
  LET bare == [slots |-> [i \in 0 .. SlotsFor(Len(edges)) - 1 |-> Empty],
               live |-> Len(edges), tomb |-> 0]
      placed[n \in 0 .. Len(edges)] ==
        IF n = 0 THEN bare ELSE place(placed[n - 1], edges[n], n)
  IN placed[Len(edges)]

\* Mutant: a slot is emptied instead of tombstoned, which cuts the paths that
\* run over it.
Vacated == Empty

\* What a slot holds once its id has left.
Departed == Tomb

-----------------------------------------------------------------------------
(* EdgeSet.                                                                *)

\* The element at pos goes, the last one takes its place.
SwapOut(s, pos) == Front([s EXCEPT ![pos] = Last(s)])

insert(s, id) ==
  IF s.index = Unindexed
  THEN IF id \in Range(s.edges) THEN s
       ELSE LET edges == Append(s.edges, id)
            IN [edges |-> edges,
                index |-> IF Len(edges) >= edge_promote THEN rebuild_index(edges)
                          ELSE Unindexed]
  ELSE IF probe(s.edges, s.index.slots, id) # NPos THEN s
       ELSE LET edges == Append(s.edges, id)
                index == place([s.index EXCEPT !.live = @ + 1], id, Len(edges))
            IN [edges |-> edges,
                index |-> IF needs_rehash(index) THEN rebuild_index(edges) ELSE index]

\* The departing slot is marked before the last edge moves into its position:
\* afterwards both slots would compare equal to the moved id.
RemoveIndexed(s, id) ==
  LET slot == probe(s.edges, s.index.slots, id)
      pos == s.index.slots[slot]
      left == [s.index EXCEPT !.slots[slot] = Departed, !.live = @ - 1, !.tomb = @ + 1]
      moved == Last(s.edges)
      filled == [s.edges EXCEPT ![pos] = moved]
      moved_slot == probe(filled, left.slots, moved)
      index == IF pos # Len(s.edges) /\ moved_slot # NPos
               THEN [left EXCEPT !.slots[moved_slot] = pos] ELSE left
      edges == Front(filled)
  IN IF slot = NPos THEN s
     ELSE [edges |-> edges,
           index |-> IF Len(edges) <= edge_demote THEN Unindexed
                     ELSE IF needs_rehash(index) THEN rebuild_index(edges)
                     ELSE index]

remove(s, id) ==
  IF s.index # Unindexed THEN RemoveIndexed(s, id)
  ELSE IF id \in Range(s.edges)
       THEN [s EXCEPT !.edges = SwapOut(@, SelectInSeq(@, LAMBDA e : e = id))]
       ELSE s

EdgeInsert(id) ==
  /\ edgeSet' = insert(edgeSet, id)
  /\ members' = members \cup {id}
  /\ UNCHANGED queuedVars

EdgeRemove(id) ==
  /\ edgeSet' = remove(edgeSet, id)
  /\ members' = members \ {id}
  /\ UNCHANGED queuedVars

EdgeClear ==
  /\ edgeSet' = [edges |-> <<>>, index |-> Unindexed]
  /\ members' = {}
  /\ UNCHANGED queuedVars

\* A copy takes the edges over and builds an index of its own.
EdgeCopy ==
  /\ edgeSet.index # Unindexed
  /\ edgeSet' = [edgeSet EXCEPT !.index = rebuild_index(edgeSet.edges)]
  /\ UNCHANGED <<members, queuedVars>>

-----------------------------------------------------------------------------
(* PendingQueue.                                                           *)

Positions(q, base) ==
  [id \in Range(q) |-> base + SelectInSeq(q, LAMBDA e : e = id) - 1]

\* The scheduler pushes an effect that is not scheduled yet.
PushBack(id) ==
  /\ id \notin Range(effects.q)
  /\ LET q == Append(effects.q, id)
     IN effects' =
          [effects EXCEPT !.q = q,
                          !.index = IF @ = Unindexed THEN @
                                    ELSE (id :> effects.base + Len(q) - 1) @@ @]
  /\ waiting' = waiting \cup {id}
  /\ UNCHANGED edgeVars

Demoted(q, index) == IF Len(q) <= queue_demote THEN Unindexed ELSE index

PopFront ==
  /\ effects.q # <<>> /\ effects.base < MaxPops
  /\ LET id == Head(effects.q)
         q == Tail(effects.q)
     IN /\ effects' =
             [q |-> q, base |-> effects.base + 1,
              index |-> IF effects.index = Unindexed THEN Unindexed
                        ELSE Demoted(q, Restrict(effects.index, DOMAIN effects.index \ {id}))]
        /\ waiting' = waiting \ {id}
  /\ UNCHANGED edgeVars

\* The position is looked up, the last element moves there, both by index.
EraseIndexed(p, id) ==
  LET abs == p.index[id]
      last == Last(p.q)
      index == IF abs # p.base + Len(p.q) - 1 THEN [p.index EXCEPT ![last] = abs] ELSE p.index
      q == SwapOut(p.q, abs - p.base + 1)
  IN IF id \notin DOMAIN p.index THEN p
     ELSE [p EXCEPT !.q = q, !.index = Demoted(q, Restrict(index, DOMAIN index \ {id}))]

erase(p, id) ==
  IF p.index # Unindexed THEN EraseIndexed(p, id)
  ELSE IF Len(p.q) >= queue_promote
       THEN EraseIndexed([p EXCEPT !.index = Positions(p.q, p.base)], id)
  ELSE IF id \in Range(p.q)
       THEN [p EXCEPT !.q = SwapOut(@, SelectInSeq(@, LAMBDA e : e = id))]
       ELSE p

Erase(id) ==
  /\ effects' = erase(effects, id)
  /\ waiting' = waiting \ {id}
  /\ UNCHANGED edgeVars

-----------------------------------------------------------------------------
ContainersInit ==
  /\ edgeSet = [edges |-> <<>>, index |-> Unindexed] /\ members = {}
  /\ effects = [q |-> <<>>, base |-> 0, index |-> Unindexed] /\ waiting = {}

EdgesNext ==
  \/ \E id \in EdgeIds : EdgeInsert(id) \/ EdgeRemove(id)
  \/ EdgeClear \/ EdgeCopy

PendingNext ==
  \/ \E id \in QueueIds : PushBack(id) \/ Erase(id)
  \/ PopFront

-----------------------------------------------------------------------------
\* The set holds every id once, whatever was inserted and removed in whichever
\* order; its index finds each at its position and no other id, its counts are
\* those of its slots, and an empty slot is left, so that every probe ends.
EdgesExact ==
  LET edges == edgeSet.edges
      index == edgeSet.index
  IN /\ IsInjective(edges) /\ Range(edges) = members
     /\ index = Unindexed => Len(edges) < edge_promote
     /\ index # Unindexed =>
          /\ \E i \in DOMAIN index.slots : index.slots[i] = Empty
          /\ index.live = Cardinality({i \in DOMAIN index.slots : index.slots[i] > 0})
          /\ index.tomb = Cardinality({i \in DOMAIN index.slots : index.slots[i] = Tomb})
          /\ \A n \in DOMAIN edges : LET slot == probe(edges, index.slots, edges[n])
                                     IN slot # NPos /\ index.slots[slot] = n
          /\ \A id \in EdgeIds \ members : probe(edges, index.slots, id) = NPos

\* The queue holds every waiting effect once, and while it has an index, that
\* is where the queue says, however many pops and swaps lie in between.
PendingExact ==
  /\ IsInjective(effects.q) /\ Range(effects.q) = waiting
  /\ effects.index # Unindexed => effects.index = Positions(effects.q, effects.base)

=============================================================================
