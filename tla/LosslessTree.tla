----------------------------- MODULE LosslessTree -----------------------------
(***************************************************************************)
(* Replicas of a LosslessTreeCrdt: a tree whose leaves hold texts, edited  *)
(* by operations that are logged and handed on.  A frontier of dots tells  *)
(* which operations a replica has, one that arrives before what it needs   *)
(* is buffered and retried.  Any part of a replica's log may come in at    *)
(* another, at any time and repeatedly, so updates may be lost, late,      *)
(* reordered or doubled.  The root is not in nodes; nobody edits it.       *)
(***************************************************************************)
EXTENDS TextCrdt, ReplicaOrder

CONSTANTS
  TreePeers,      \* peer ids, numbers
  TreeMay,        \* the local operations callers use
  MaxTreeOps,     \* bound: local operations of all replicas
  MaxBuffered     \* bound: operations that wait at a replica

\* A fork shares the text objects of its origin (shared_ptr<TextCrdt>) until one
\* of the two edits, splits or merges the leaf.  A third replica's edit, applied at the one, would
\* show at the other; with two the sharing has ended before an edit comes in.
ASSUME TwoReplicas == Cardinality(TreePeers) <= 2

VARIABLES
  treePeers,      \* the peers that have a replica
  trees,          \* the replicas
  treeOps

treeVars == <<treePeers, trees, treeOps>>

kTreeRoot == <<0, 0>>

\* counter_, nodes_ (with children_: its order is the order of arrival), log_,
\* frontier_ and buffered_.
EmptyTree ==
  [counter |-> 0, nodes |-> <<>>, log |-> <<>>, buffered |-> <<>>,
   frontier |-> [p \in TreePeers |-> [contiguous |-> 0, sparse |-> {}]]]

TreeInit ==
  /\ treePeers = {Min(TreePeers)}
  /\ trees = [p \in TreePeers |-> EmptyTree]
  /\ treeOps = 0

(* The frontier. *)

HasDot(frontier, id) ==
  LET range == frontier[id[2]]
  IN id[1] <= range.contiguous \/ id[1] \in range.sparse

ObserveDot(range, n) ==
  LET seen == range.sparse \cup {n}
      runs == {c \in seen : (range.contiguous + 1)..c \subseteq seen}
      top == Max({range.contiguous} \cup runs)
  IN IF n <= range.contiguous THEN range
     ELSE [contiguous |-> top, sparse |-> {c \in seen : c > top}]

Record(t, op) ==
  [t EXCEPT !.frontier[op.id[2]] = ObserveDot(@, op.id[1]), !.log = Append(@, op)]

(* Texts of leaves: [peer, counter, elems], a character is the operation   *)
(* that typed it.                                                          *)

\* insert_str into an empty TextCrdt of the peer.
SeedText(peer, chars) ==
  [peer |-> peer, counter |-> Len(chars),
   elems |-> {[id |-> <<i, peer>>, origin |-> IF i = 1 THEN NoOp ELSE <<i - 1, peer>>,
               deleted |-> NoOp, ch |-> chars[i]] : i \in 1..Len(chars)}]

Shown(text) == traverse(text.elems, NoOp)

Chars(text) == [i \in DOMAIN Shown(text) |-> Elem(text.elems, Shown(text)[i]).ch]

Typed(text, at, ch) ==
  [text EXCEPT !.counter = @ + 1,
     !.elems = @ \cup {[id |-> <<text.counter + 1, text.peer>>, deleted |-> NoOp, ch |-> ch,
                        origin |-> IF at = 0 THEN NoOp ELSE Shown(text)[at]]}]

DeletedAt(text, at) ==
  LET e == Elem(text.elems, Shown(text)[at])
  IN [text EXCEPT !.counter = @ + 1,
        !.elems = (@ \ {e}) \cup {[e EXCEPT !.deleted = <<text.counter + 1, text.peer>>]}]

(* Nodes. *)

Nodes(t) == Range(t.nodes)

NodeIds(t) == {n.id : n \in Nodes(t)}

NodeAt(t, id) == CHOOSE n \in Nodes(t) : n.id = id

SetNode(t, id, n) == [t EXCEPT !.nodes = [i \in DOMAIN @ |-> IF @[i].id = id THEN n ELSE @[i]]]

Element(id, parent, sort) ==
  [id |-> id, parent |-> parent, sort |-> sort, sort_stamp |-> id, tomb |-> NoOp, is_leaf |-> FALSE]

Leaf(id, parent, sort, text) ==
  [id |-> id, parent |-> parent, sort |-> sort, sort_stamp |-> id, tomb |-> NoOp,
   is_leaf |-> TRUE, text |-> text, text_head |-> id]

Seeded(op) ==
  IF op.seed = "element" THEN Element(op.id, op.parent, op.sort)
  ELSE Leaf(op.id, op.parent, op.sort, SeedText(op.id[2], <<op.id, op.id>>))

Leaves(t) == {n \in Nodes(t) : n.is_leaf}

LiveChildren(t, parent) == SelectSeq(t.nodes, LAMBDA n : n.parent = parent /\ n.tomb = NoOp)

tree_key_between(lo, hi) == key_between(lo, hi)

\* The next in the order of arrival, whatever its key; none if after is gone.
find_right_sibling(t, parent, after) ==
  LET kids == LiveChildren(t, parent)
      at == IF after = NoOp THEN {0} ELSE {i \in DOMAIN kids : kids[i].id = after}
  IN IF \E i \in at : i < Len(kids) THEN kids[Min(at) + 1].sort.frac ELSE <<>>

SortAfter(t, p, parent, after) ==
  [frac |-> tree_key_between(IF after = NoOp THEN <<>> ELSE NodeAt(t, after).sort.frac,
                             find_right_sibling(t, parent, after)),
   peer |-> p]

(* Local operations.  next_id is <<counter + 1, peer>>. *)

Stamp(t, p) == <<t.counter + 1, p>>

LocalTreeOp(p, kind, t, op) ==
  /\ p \in treePeers /\ kind \in TreeMay /\ treeOps < MaxTreeOps
  /\ treeOps' = treeOps + 1
  /\ trees' = [trees EXCEPT ![p] = Record([t EXCEPT !.counter = Max({@, op.id[1]})], op)]
  /\ UNCHANGED treePeers

Siblings(t, parent) == {NoOp} \cup {n.id : n \in Range(LiveChildren(t, parent))}

create_node(p, seed) ==
  LET t == trees[p]
  IN \E parent \in {kTreeRoot} \cup NodeIds(t) : \E after \in Siblings(t, parent) :
       LET op == [id |-> Stamp(t, p), kind |-> "create", parent |-> parent, seed |-> seed,
                  sort |-> SortAfter(t, p, parent, after)]
       IN LocalTreeOp(p, "create", [t EXCEPT !.nodes = Append(@, Seeded(op))], op)

\* A node deleted before gets the new id: tomb is never before the node's own.
tombstone_node(p, n) ==
  LET t == trees[p]
      op == [id |-> Stamp(t, p), kind |-> "tombstone", node |-> n.id]
  IN /\ ~(n.tomb # NoOp /\ OpBefore(n.tomb, n.id))
     /\ LocalTreeOp(p, "tombstone", SetNode(t, n.id, [n EXCEPT !.tomb = op.id]), op)

reorder_child(p, n) ==
  LET t == trees[p]
  IN \E after \in Siblings(t, n.parent) :
       LET op == [id |-> Stamp(t, p), kind |-> "reorder", node |-> n.id,
                  sort |-> SortAfter(t, p, n.parent, after)]
       IN LocalTreeOp(p, "reorder",
            SetNode(t, n.id, [n EXCEPT !.sort = op.sort, !.sort_stamp = op.id]), op)

\* Deletes or types one character; the text is first forked under this peer.
edit_leaf(p, n) ==
  LET t == trees[p]
      own == [n.text EXCEPT !.peer = p]
      edited(text) ==
        LET op == [id |-> Stamp(t, p), kind |-> "edit", node |-> n.id, prev |-> n.text_head,
                   ops |-> text.elems]
        IN LocalTreeOp(p, "edit",
             SetNode(t, n.id, [n EXCEPT !.text = text, !.text_head = op.id]), op)
  IN /\ n.is_leaf
     /\ \/ \E at \in DOMAIN Shown(own) : edited(DeletedAt(own, at))
        \/ \E at \in 0..Len(Shown(own)) : edited(Typed(own, at, Stamp(t, p)))

HeadOf(chars, at) == SubSeq(chars, 1, at)
TailOf(chars, at) == SubSeq(chars, at + 1, Len(chars))

\* The head is reseeded under this peer, the tail under the peer of its id.
split_leaf(p, n) ==
  LET t == trees[p]
  IN /\ n.is_leaf
     /\ \E at \in 0..Len(Chars(n.text)) :
          LET op == [id |-> Stamp(t, p), kind |-> "split", node |-> n.id, at |-> at,
                     sort |-> [frac |-> tree_key_between(n.sort.frac, <<>>), peer |-> p],
                     prev |-> n.text_head]
              head == [n EXCEPT !.text = SeedText(p, HeadOf(Chars(n.text), at)), !.text_head = op.id]
              tail == Leaf(op.id, n.parent, op.sort, SeedText(p, TailOf(Chars(n.text), at)))
          IN LocalTreeOp(p, "split",
               [SetNode(t, n.id, head) EXCEPT !.nodes = Append(@, tail)], op)

\* Left is reseeded under this peer; a second id that no operation carries is
\* the tomb of right.
merge_adjacent_leaves(p, left, right) ==
  LET t == trees[p]
      op == [id |-> Stamp(t, p), kind |-> "merge", left |-> left.id, right |-> right.id,
             prev_left |-> left.text_head, prev_right |-> right.text_head]
      merged == SeedText(p, Chars(left.text) \o Chars(right.text))
      second == <<t.counter + 2, p>>
  IN /\ left.is_leaf /\ right.is_leaf /\ left.id # right.id
     /\ LocalTreeOp(p, "merge",
          [SetNode(SetNode(t, left.id, [left EXCEPT !.text = merged, !.text_head = op.id]),
                   right.id, [right EXCEPT !.tomb = second])
             EXCEPT !.counter = second[1]], op)

(* Anti-entropy. *)

dependencies_ready(t, op) ==
  CASE op.kind = "create" -> op.parent \in {kTreeRoot} \cup NodeIds(t)
    [] op.kind \in {"tombstone", "reorder"} -> op.node \in NodeIds(t)
    [] op.kind \in {"edit", "split"} -> op.node \in NodeIds(t) /\ HasDot(t.frontier, op.prev)
    [] op.kind = "merge" -> /\ {op.left, op.right} \subseteq NodeIds(t)
                            /\ HasDot(t.frontier, op.prev_left)
                            /\ HasDot(t.frontier, op.prev_right)

ApplyCreate(t, op) ==
  IF op.id \in NodeIds(t) THEN t ELSE [t EXCEPT !.nodes = Append(@, Seeded(op))]

ApplyTombstone(t, op) ==
  LET n == NodeAt(t, op.node)
  IN IF n.tomb = NoOp \/ OpBefore(op.id, n.tomb)
     THEN SetNode(t, n.id, [n EXCEPT !.tomb = op.id]) ELSE t

\* Mutant: the last reorder to arrive wins.
ReorderArrived(t, op) ==
  SetNode(t, op.node, [NodeAt(t, op.node) EXCEPT !.sort = op.sort, !.sort_stamp = op.id])

ApplyReorder(t, op) ==
  LET n == NodeAt(t, op.node)
  IN IF OpBefore(n.sort_stamp, op.id)
     THEN SetNode(t, n.id, [n EXCEPT !.sort = op.sort, !.sort_stamp = op.id]) ELSE t

ApplyEdit(t, op) ==
  LET n == NodeAt(t, op.node)
      text == [n.text EXCEPT !.elems = Joined(@, op.ops),
                             !.counter = Advanced(@, n.text.elems, op.ops)]
  IN SetNode(t, n.id, [n EXCEPT !.text = text, !.text_head = op.id])

\* The head is reseeded under the peer that created the node.
ApplySplit(t, op) ==
  LET n == NodeAt(t, op.node)
      at == Min({op.at, Len(Chars(n.text))})
      head == [n EXCEPT !.text = SeedText(n.id[2], HeadOf(Chars(n.text), at)), !.text_head = op.id]
      tail == Leaf(op.id, n.parent, op.sort, SeedText(op.id[2], TailOf(Chars(n.text), at)))
  IN [SetNode(t, n.id, head) EXCEPT !.nodes = Append(@, tail)]

\* Left is reseeded under the peer of this replica.
ApplyMerge(t, p, op) ==
  LET left == NodeAt(t, op.left)
      right == NodeAt(t, op.right)
      text == SeedText(p, Chars(left.text) \o Chars(right.text))
  IN SetNode(SetNode(t, left.id, [left EXCEPT !.text = text, !.text_head = op.id]),
             right.id, [right EXCEPT !.tomb = op.id])

Targets(op) ==
  CASE op.kind = "create" -> {}
    [] op.kind = "merge" -> {op.left, op.right}
    [] OTHER -> {op.node}

ApplyKind(t, p, op) ==
  CASE op.kind = "create" -> ApplyCreate(t, op)
    [] op.kind = "tombstone" -> ApplyTombstone(t, op)
    [] op.kind = "reorder" -> ApplyReorder(t, op)
    [] op.kind = "edit" -> ApplyEdit(t, op)
    [] op.kind = "split" -> ApplySplit(t, op)
    [] op.kind = "merge" -> ApplyMerge(t, p, op)

\* An operation on a node that is not there is dropped.
apply_op(t, p, op) == IF Targets(op) \subseteq NodeIds(t) THEN ApplyKind(t, p, op) ELSE t

\* One pass over the buffer.
DrainPass(t, p) ==
  FoldLeft(LAMBDA u, op :
             IF HasDot(u.frontier, op.id) THEN u
             ELSE IF dependencies_ready(u, op) THEN Record(apply_op(u, p, op), op)
             ELSE [u EXCEPT !.buffered = Append(@, op)],
           [t EXCEPT !.buffered = <<>>], t.buffered)

\* Passes until one applies nothing.  Every pass before it takes an operation
\* out of the buffer, and one that follows it changes nothing.
drain_buffered(t, p) ==
  LET passes == Len(t.buffered) + 1
      drained[n \in 0..passes] == IF n = 0 THEN t ELSE DrainPass(drained[n - 1], p)
  IN drained[passes]

apply_update(t, p, ops) ==
  drain_buffered(
    [t EXCEPT !.counter = Max({@} \cup {op.id[1] : op \in Range(ops)}),
              !.buffered = @ \o SelectSeq(ops, LAMBDA op : ~HasDot(t.frontier, op.id))], p)

OpsInOrder(ops) == SetToSortSeq(ops, LAMBDA a, b : OpBefore(a.id, b.id))

diff(t, frontier) == OpsInOrder({op \in Range(t.log) : ~HasDot(frontier, op.id)})

\* A part of q's log comes in at p.
ApplyUpdate(p, q) ==
  /\ {p, q} \subseteq treePeers /\ p # q
  /\ \E ops \in SUBSET Range(trees[q].log) :
       trees' = [trees EXCEPT ![p] = apply_update(@, p, OpsInOrder(ops))]
  /\ Len(trees'[p].buffered) <= MaxBuffered
  /\ UNCHANGED <<treePeers, treeOps>>

ForkTree(p, q) ==
  /\ p \in treePeers /\ q \notin treePeers
  /\ treePeers' = treePeers \cup {q}
  /\ trees' = [trees EXCEPT ![q] = trees[p]]
  /\ UNCHANGED treeOps

TreeNext ==
  \/ \E p \in TreePeers, seed \in {"element", "leaf"} : create_node(p, seed)
  \/ \E p \in TreePeers : \E n \in Nodes(trees[p]) :
       tombstone_node(p, n) \/ reorder_child(p, n) \/ edit_leaf(p, n) \/ split_leaf(p, n)
  \/ \E p \in TreePeers : \E left, right \in Nodes(trees[p]) :
       merge_adjacent_leaves(p, left, right)
  \/ \E p, q \in TreePeers : ApplyUpdate(p, q) \/ ForkTree(p, q)

TreeSpec == TreeInit /\ [][TreeNext]_treeVars

-----------------------------------------------------------------------------

LogIds(t) == {op.id : op \in Range(t.log)}

\* A replica's frontier contains exactly the operations of its log, each of
\* them once, though they arrive with gaps: what it is said to have can be
\* handed on, and what it lacks is asked for.
FrontierIsLog ==
  \A p \in treePeers :
    /\ Len(trees[p].log) = Cardinality(LogIds(trees[p]))
    /\ \A n \in 1..(2 * MaxTreeOps), q \in TreePeers :
         HasDot(trees[p].frontier, <<n, q>>) <=> <<n, q>> \in LogIds(trees[p])

\* The difference to another replica's frontier brings it up to that replica:
\* nothing of it waits, or is dropped, whatever had come in before.
DiffClosesGaps ==
  \A p, q \in treePeers :
    LET t == apply_update(trees[p], p, diff(trees[q], trees[p].frontier))
    IN LogIds(trees[q]) \subseteq LogIds(t) /\ NodeIds(trees[q]) \subseteq NodeIds(t)

Shape(t) == {<<n.id, n.parent, n.sort, n.is_leaf, n.tomb = NoOp>> : n \in Nodes(t)}

LeafTexts(t) == {<<n.id, Chars(n.text)>> : n \in Leaves(t)}

SameLogs(p, q) == LogIds(trees[p]) = LogIds(trees[q])

(* What is rendered. *)

SortLess(a, b) == KeyLess(a.frac, b.frac) \/ (a.frac = b.frac /\ a.peer < b.peer)

\* The sort of render_node: by sort key.  Equal keys stay in the order of
\* arrival, as std::sort leaves them among the few siblings there are here.
SortedChildren(t, parent) ==
  LET kids == LiveChildren(t, parent)
      order == SetToSortSeq(DOMAIN kids, LAMBDA i, j :
                 \/ SortLess(kids[i].sort, kids[j].sort)
                 \/ ~SortLess(kids[j].sort, kids[i].sort) /\ i < j)
  IN [i \in DOMAIN kids |-> kids[order[i]]]

\* The leaves in the order render visits them; it does not look below a leaf.
RenderedLeaves(t) ==
  LET below[id \in {kTreeRoot} \cup NodeIds(t)] ==
        LET kids == SortedChildren(t, id)
        IN FlattenSeq([i \in DOMAIN kids |->
             IF kids[i].is_leaf THEN <<kids[i].id>> ELSE below[kids[i].id]])
  IN below[kTreeRoot]

render(t) ==
  LET leaves == RenderedLeaves(t)
  IN FlattenSeq([i \in DOMAIN leaves |-> Chars(NodeAt(t, leaves[i]).text)])

\* Two live siblings with one sort key: created one after the other at the same
\* place, since the right sibling of a place is sought in the order of arrival.
KeysTie(t) ==
  \E m, n \in Nodes(t) :
    m.id # n.id /\ m.parent = n.parent /\ m.tomb = NoOp /\ n.tomb = NoOp /\ m.sort = n.sort

\* Replicas that have the same operations, in whatever order they came, have the
\* same nodes under the same parents with the same sort keys and tombstones; the
\* same texts, if no leaf was split or merged (LeafTextsAgree); and they show
\* their leaves in the same order, if no two live siblings have one sort key
\* (RenderingsAgree).
TreesAgree ==
  \A p, q \in treePeers :
    SameLogs(p, q) =>
      /\ Shape(trees[p]) = Shape(trees[q])
      /\ \/ \E op \in Range(trees[p].log) : op.kind \in {"split", "merge"}
         \/ LeafTexts(trees[p]) = LeafTexts(trees[q])
      /\ KeysTie(trees[p]) \/ RenderedLeaves(trees[p]) = RenderedLeaves(trees[q])

\* Replicas that have the same operations have the same texts.
LeafTextsAgree ==
  \A p, q \in treePeers : SameLogs(p, q) => LeafTexts(trees[p]) = LeafTexts(trees[q])

\* Replicas that have the same operations render the same text, which is what
\* the conformance test of the tree asks of replicas that converged.  It does not
\* hold where sort keys tie: of two leaves with one key, each replica shows first
\* the one it received first.
RenderingsAgree ==
  \A p, q \in treePeers : SameLogs(p, q) => render(trees[p]) = render(trees[q])

=============================================================================
