---------------------------- MODULE TextReplicas ----------------------------
(***************************************************************************)
(* Replicas of a TextCrdt: local inserts and deletes that splice the cache *)
(* of the visible order, forks, merges of whole replicas, deltas against a *)
(* version vector that travel late and may be lost or repeated, and the    *)
(* collection of tombstones.  Characters are left out: an element is its   *)
(* OpId, <<counter, peer>>.                                                *)
(***************************************************************************)
EXTENDS TextCrdt

CONSTANTS
  Writers,        \* peer ids, numbers; the first to write is the least
  MaxTextOps,     \* bound: local operations of all replicas
  MaxDeltas       \* bound: deltas sent

VARIABLES
  started,        \* the peers that have a replica
  counter,        \* counter_
  elems,          \* elems_, a set of elements; by_origin_ follows from it
  visible_order,  \* the cache and whether it is valid
  deltas,         \* deltas underway, each [to, ops]
  textOps, sentDeltas

textVars == <<started, counter, elems, visible_order, deltas, textOps, sentDeltas>>

Invalid == [valid |-> FALSE, order |-> <<>>]

TextInit ==
  /\ started = {Min(Writers)}
  /\ counter = [p \in Writers |-> 0]
  /\ elems = [p \in Writers |-> {}]
  /\ visible_order = [p \in Writers |-> Invalid]
  /\ deltas = {}
  /\ textOps = 0
  /\ sentDeltas = 0

\* The cache after ensure_visible.
Visible(p) ==
  IF visible_order[p].valid THEN visible_order[p].order ELSE traverse(elems[p], NoOp)

(* Local operations. *)

next_id(p) == <<counter[p] + 1, p>>

find_origin(order, index) == IF index = 0 THEN NoOp ELSE order[index]

\* insert before the index-th visible element, counted from 0.
InsertText(p) ==
  \E index \in 0..Len(Visible(p)) :
    /\ p \in started /\ textOps < MaxTextOps
    /\ textOps' = textOps + 1
    /\ counter' = [counter EXCEPT ![p] = @ + 1]
    /\ elems' = [elems EXCEPT ![p] = @ \cup
         {[id |-> next_id(p), origin |-> find_origin(Visible(p), index), deleted |-> NoOp]}]
    /\ visible_order' = [visible_order EXCEPT ![p] =
         [valid |-> TRUE, order |-> InsertAt(Visible(p), index + 1, next_id(p))]]
    /\ UNCHANGED <<started, deltas, sentDeltas>>

DeleteText(p) ==
  \E index \in 1..Len(Visible(p)) :
    LET target == Elem(elems[p], Visible(p)[index])
    IN /\ p \in started /\ textOps < MaxTextOps
       /\ textOps' = textOps + 1
       /\ counter' = [counter EXCEPT ![p] = @ + 1]
       /\ elems' = [elems EXCEPT ![p] =
            (@ \ {target}) \cup {[target EXCEPT !.deleted = next_id(p)]}]
       /\ visible_order' = [visible_order EXCEPT ![p] =
            [valid |-> TRUE, order |-> RemoveAt(Visible(p), index)]]
       /\ UNCHANGED <<started, deltas, sentDeltas>>

\* fork under another peer id: elements and counter are copied, the cache not.
ForkText(p, q) ==
  /\ p \in started /\ q \notin started
  /\ started' = started \cup {q}
  /\ counter' = [counter EXCEPT ![q] = counter[p]]
  /\ elems' = [elems EXCEPT ![q] = elems[p]]
  /\ UNCHANGED <<visible_order, deltas, textOps, sentDeltas>>

(* Remote operations. *)

Absorb(p, ops) ==
  /\ elems' = [elems EXCEPT ![p] = Joined(@, ops)]
  /\ counter' = [counter EXCEPT ![p] = Advanced(@, elems[p], ops)]
  /\ visible_order' = [visible_order EXCEPT ![p] = Invalid]

MergeText(p, q) ==
  /\ {p, q} \subseteq started /\ p # q
  /\ elems[q] # elems[p]
  /\ Absorb(p, elems[q])
  /\ UNCHANGED <<started, deltas, textOps, sentDeltas>>

\* The delete ids and element ids of peer q that es shows, as counters.
Stamps(es, q) ==
  {e.id[1] : e \in {f \in es : f.id[2] = q}}
    \cup {e.deleted[1] : e \in {f \in es : f.deleted # NoOp /\ f.deleted[2] = q}}

version_vector(es) == [q \in Writers |-> Max({0} \cup Stamps(es, q))]

delta_since(es, vv) ==
  {e \in es : \/ e.id[1] > vv[e.id[2]]
              \/ e.deleted # NoOp /\ e.deleted[1] > vv[e.deleted[2]]}

\* q computes a delta for the version vector that p sent.
SendDelta(p, q) ==
  /\ {p, q} \subseteq started /\ p # q /\ sentDeltas < MaxDeltas
  /\ sentDeltas' = sentDeltas + 1
  /\ deltas' = deltas \cup {[to |-> p, ops |-> delta_since(elems[q], version_vector(elems[p]))]}
  /\ UNCHANGED <<started, counter, elems, visible_order, textOps>>

\* A delta comes in; it stays underway, as it may be repeated.
ApplyDelta ==
  \E d \in deltas :
    /\ Absorb(d.to, d.ops)
    /\ UNCHANGED <<started, deltas, textOps, sentDeltas>>

\* gc_with, called when all replicas agree and nothing is underway, so that
\* every delete is stable.
GcText(p) ==
  LET referenced == {e.origin : e \in elems[p]}
  IN /\ \A q \in Writers : elems[q] = elems[p]
     /\ deltas = {}
     /\ elems' = [elems EXCEPT ![p] = {e \in @ : e.deleted = NoOp \/ e.id \in referenced}]
     /\ visible_order' = [visible_order EXCEPT ![p] = Invalid]
     /\ UNCHANGED <<started, counter, deltas, textOps, sentDeltas>>

TextNext ==
  \/ \E p \in Writers : InsertText(p) \/ DeleteText(p) \/ GcText(p)
  \/ \E p, q \in Writers : ForkText(p, q) \/ MergeText(p, q) \/ SendDelta(p, q)
  \/ ApplyDelta

TextSpec == TextInit /\ [][TextNext]_textVars

-----------------------------------------------------------------------------

Text(p) == traverse(elems[p], NoOp)

\* Every replica shows each element that it holds and nobody deleted; what two
\* replicas both show is in the same order on both, so replicas that heard the
\* same show the same text; and a splice into the cache of the visible order
\* puts the new element where the traversal would.
TextAgrees ==
  /\ \A p \in Writers :
       /\ ToSet(Text(p)) = {e.id : e \in {f \in elems[p] : f.deleted = NoOp}}
       /\ visible_order[p].valid => visible_order[p].order = Text(p)
  /\ \A p, q \in Writers :
       LET both == ToSet(Text(p)) \cap ToSet(Text(q))
           common(id) == id \in both
       IN SelectSeq(Text(p), common) = SelectSeq(Text(q), common)

\* A delta against a replica's version vector brings it all that a merge would:
\* the vector leaves nothing out that the replica has not seen.
DeltaIsMerge ==
  \A p, q \in started :
    LET live(es) == {e.id : e \in {f \in es : f.deleted = NoOp}}
        delta == delta_since(elems[q], version_vector(elems[p]))
    IN live(Joined(elems[p], delta)) = live(Joined(elems[p], elems[q]))

=============================================================================
