------------------------------ MODULE TextCrdt ------------------------------
(***************************************************************************)
(* The elements of a TextCrdt: a set of records with an OpId               *)
(* <<counter, peer>>, the OpId they were typed after and the OpId that     *)
(* deleted them.  by_origin_ follows from the set.                         *)
(***************************************************************************)
EXTENDS Integers, Sequences, SequencesExt, FiniteSets, FiniteSetsExt

CONSTANT NoOp   \* stands for no OpId: an origin at the root, not deleted

(* OpId and the visible order. *)

OpBefore(a, b) == a[1] < b[1] \/ (a[1] = b[1] /\ a[2] < b[2])

Ids(es) == {e.id : e \in es}

Elem(es, id) == CHOOSE e \in es : e.id = id

Children(es, origin) ==
  SetToSortSeq({e.id : e \in {f \in es : f.origin = origin}}, LAMBDA a, b : OpBefore(b, a))

\* Depth first from an origin; an OpId in front of what was typed after it.
traverse(es, origin) ==
  LET visible(id) == IF Elem(es, id).deleted = NoOp THEN <<id>> ELSE <<>>
      below[o \in Ids(es) \cup {NoOp}] ==
        LET kids == Children(es, o)
        IN FlattenSeq([i \in 1..Len(kids) |-> visible(kids[i]) \o below[kids[i]]])
  IN below[origin]

(* What merge and apply_delta share. *)

\* Sticky tombstones: of two delete ids the smaller stays.
JoinDeleted(a, b) ==
  IF a = NoOp THEN b ELSE IF b = NoOp THEN a ELSE IF OpBefore(b, a) THEN b ELSE a

JoinElem(mine, e) == [mine EXCEPT !.deleted = JoinDeleted(@, e.deleted)]

\* The loop over the elements that come in, for elements ops.
Joined(es, ops) ==
  {IF e.id \in Ids(ops) THEN JoinElem(e, Elem(ops, e.id)) ELSE e : e \in es}
    \cup {e \in ops : e.id \notin Ids(es)}

\* Mutant: the counter follows what was inserted only under another id.
CounterKept(n, es, ops) == n

\* counter_ passes the id of a new element, or the delete id of a known one.
Advanced(n, es, ops) ==
  Max({n} \cup {IF e.id \notin Ids(es) THEN e.id[1]
                ELSE IF e.deleted = NoOp THEN 0 ELSE e.deleted[1] : e \in ops})

=============================================================================
