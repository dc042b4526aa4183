--------------------------- MODULE KeyedReconcile ---------------------------
(***************************************************************************)
(* collections.hpp: the difference between two keyed sequences as removes, *)
(* inserts, moves and updates, the keys of a longest increasing            *)
(* subsequence staying where they are, and its application to a SourceTree *)
(* node, whose children, child index and reactive order are three          *)
(* structures.  A sequence is one of keys; the values are a function.      *)
(***************************************************************************)
EXTENDS KeyedOrder, Integers, FiniteSets

CONSTANTS
  TreeKeys, TreeValues,
  NoIndex,          \* SIZE_MAX: no predecessor
  MaxTreeCalls      \* bound on the calls of a behaviour

VARIABLES
  treeChildren,   \* children: the child nodes, [key, value]
  treeIndex,      \* child_index: key -> index, a partial function
  treeOrder,      \* order: the key order of the SourceMap that child_ids reads
  treeGoal,       \* the sequence the last call was a reconciliation to
  treeCalls       \* calls made

reconcileVars == <<treeChildren, treeIndex, treeOrder, treeGoal, treeCalls>>

NoGoal == <<NoIndex>>

----------------------------------------------------------------------------
(* longest_increasing_subsequence: tails[j] is the index of the least last *)
(* element of an increasing subsequence of length j, and prev links each   *)
(* element to the one before it.                                           *)

LisStep(state, i, seq) ==
  LET lo == Cardinality({j \in DOMAIN state.tails : seq[state.tails[j]] < seq[i]}) IN
  [tails |-> IF lo = Len(state.tails) THEN Append(state.tails, i)
             ELSE [state.tails EXCEPT ![lo + 1] = i],
   prev  |-> Append(state.prev, IF lo = 0 THEN NoIndex ELSE state.tails[lo])]

LisTable(seq) ==
  FoldLeft(LAMBDA state, i : LisStep(state, i, seq),
           [tails |-> << >>, prev |-> << >>], [i \in DOMAIN seq |-> i])

longest_increasing_subsequence(seq) ==
  LET table == LisTable(seq)
      chain[i \in DOMAIN seq] ==
        {i} \cup (IF table.prev[i] = NoIndex THEN {} ELSE chain[table.prev[i]]) IN
  IF seq = << >> THEN {} ELSE chain[Last(table.tails)]

(* reconcile: the keys to remove, then for every index of the new sequence *)
(* an insert, a move or nothing, then the updates.                         *)
CommonIndices(old, new) == SelectSeq([i \in DOMAIN new |-> i], LAMBDA i : contains(old, new[i]))

StableIndices(old, new) ==
  LET common == CommonIndices(old, new) IN
  {common[j] : j \in longest_increasing_subsequence(
                       [i \in DOMAIN common |-> position(old, new[common[i]])])}

Op(kind, k, index) == [kind |-> kind, key |-> k, index |-> index]

reconcile(old, new) ==
  LET stable == StableIndices(old, new)
      gone == SelectSeq(old, LAMBDA k : ~contains(new, k))
      placed == SelectSeq([i \in DOMAIN new |-> i], LAMBDA i : i \notin stable)
      kept == SelectSeq(new, LAMBDA k : contains(old, k)) IN
  [i \in DOMAIN gone |-> Op("Remove", gone[i], 0)]
  \o [i \in DOMAIN placed |->
        Op(IF contains(old, new[placed[i]]) THEN "Move" ELSE "Insert",
           new[placed[i]], placed[i] - 1)]
  \o [i \in DOMAIN kept |-> Op("Update", kept[i], 0)]

----------------------------------------------------------------------------
(* The tree node: insert_child, remove_child, move_child.                  *)

Tree(children, index, order) == [children |-> children, index |-> index, order |-> order]

Child(k, v) == [key |-> k, value |-> v]

insert_child(tree, k, v) ==
  IF k \in DOMAIN tree.index THEN tree
  ELSE Tree(Append(tree.children, Child(k, v)),
            [j \in DOMAIN tree.index \cup {k} |->
               IF j = k THEN Len(tree.children) ELSE tree.index[j]],
            inserted(tree.order, k))

remove_child(tree, k) ==
  IF k \notin DOMAIN tree.index THEN tree
  ELSE LET at == tree.index[k] IN
       Tree(RemoveAt(tree.children, at + 1),
            [j \in DOMAIN tree.index \ {k} |->
               IF tree.index[j] > at THEN tree.index[j] - 1 ELSE tree.index[j]],
            removed(tree.order, k))

(* The index of a child when the one at from moved to to.                  *)
ShiftedIndex(v, from, to) ==
  CASE v = from -> to
    [] from < to /\ v > from /\ v <= to -> v - 1
    [] from >= to /\ v >= to /\ v < from -> v + 1
    [] OTHER -> v

move_child(tree, k, index) ==
  IF k \notin DOMAIN tree.index THEN tree
  ELSE LET from == tree.index[k]
           to == ClampedIndex(tree.children, index) IN
       Tree(rotate_within(tree.children, from, to),
            [j \in DOMAIN tree.index |-> ShiftedIndex(tree.index[j], from, to)],
            move_to(tree.order, k, to))

(* Update: the child the index names is set.                               *)
set_child(tree, k, v) ==
  IF k \in DOMAIN tree.index
  THEN [tree EXCEPT !.children[tree.index[k] + 1].value = v] ELSE tree

ApplyOp(tree, op, values) ==
  CASE op.kind = "Remove" -> remove_child(tree, op.key)
    [] op.kind = "Insert" ->
         move_child(insert_child(tree, op.key, values[op.key]), op.key, op.index)
    [] op.kind = "Move" -> move_child(tree, op.key, op.index)
    [] op.kind = "Update" -> set_child(tree, op.key, values[op.key])

apply_to_tree(tree, ops, values) ==
  FoldLeft(LAMBDA t, op : ApplyOp(t, op, values), tree, ops)

----------------------------------------------------------------------------

Current == Tree(treeChildren, treeIndex, treeOrder)

Becomes(tree, goal) ==
  /\ treeCalls < MaxTreeCalls
  /\ treeChildren' = tree.children
  /\ treeIndex' = tree.index
  /\ treeOrder' = tree.order
  /\ treeGoal' = goal
  /\ treeCalls' = treeCalls + 1

ReconcileInit ==
  /\ treeChildren = << >>
  /\ treeIndex = [k \in {} |-> 0]
  /\ treeOrder = << >>
  /\ treeGoal = NoGoal
  /\ treeCalls = 0

InsertChild == \E k \in TreeKeys, v \in TreeValues : Becomes(insert_child(Current, k, v), NoGoal)

RemoveChild == \E k \in TreeKeys : Becomes(remove_child(Current, k), NoGoal)

MoveChild ==
  \E k \in TreeKeys, i \in 0..Len(treeChildren) : Becomes(move_child(Current, k, i), NoGoal)

Goals == {s \in SeqOf(TreeKeys, Cardinality(TreeKeys)) : IsInjective(s)}

Reconcile ==
  \E goal \in Goals, v \in TreeValues :
    LET values == [k \in TreeKeys |-> v] IN
    Becomes(apply_to_tree(Current, reconcile(treeOrder, goal), values),
            [i \in DOMAIN goal |-> Child(goal[i], values[goal[i]])])

ReconcileNext == InsertChild \/ RemoveChild \/ MoveChild \/ Reconcile

ReconcileSpec == ReconcileInit /\ [][ReconcileNext]_reconcileVars

----------------------------------------------------------------------------
(* Properties.                                                             *)

\* The three structures of a node agree after every call: the reactive order
\* lists the children in their order, and the index finds each of them
\* (insert_child, remove_child, move_child).
IndexFindsChildren ==
  /\ treeOrder = [i \in DOMAIN treeChildren |-> treeChildren[i].key]
  /\ DOMAIN treeIndex = Range(treeOrder)
  /\ \A k \in DOMAIN treeIndex : treeChildren[treeIndex[k] + 1].key = k

\* A reconciliation leaves the keys and values of the new sequence, and moves
\* as few keys as an increasing subsequence of the greatest length allows
\* (reconcile, longest_increasing_subsequence).
ReconciledContent ==
  /\ treeGoal # NoGoal => Range(treeChildren) = Range(treeGoal)
  /\ \A goal \in Goals :
       LET stays == StableIndices(treeOrder, goal)
           ascends(S) == \A i, j \in S :
              i < j => position(treeOrder, goal[i]) < position(treeOrder, goal[j]) IN
       /\ ascends(stays)
       /\ \A S \in SUBSET {i \in DOMAIN goal : contains(treeOrder, goal[i])} :
            ascends(S) => Cardinality(S) <= Cardinality(stays)

\* A reconciliation leaves the children in the order of the new sequence
\* (reconcile, apply_to_tree, apply_to_map).
ReconciledOrder == treeGoal # NoGoal => treeChildren = treeGoal

=============================================================================
