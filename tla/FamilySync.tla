----------------------------- MODULE FamilySync -----------------------------
(***************************************************************************)
(* The last-writer-wins families of CrdtPlaneRuntime: a keyed entry is set *)
(* locally, its operation is broadcast, and a replica that does not know   *)
(* the key materialises the entry when it ingests the operation.  A frame  *)
(* of several operations is a run of frames of one; frames may be late,    *)
(* lost or repeated.  Node ids count from kFamilyNodeBase on every replica, *)
(* so two replicas that create entries use the same ids for them.          *)
(***************************************************************************)
EXTENDS ReplicaOrder, FiniteSets

CONSTANTS
  Replicas,       \* peer ids, numbers
  FamilySuffixes,       \* keys of the family
  FamilyWalls,    \* now_micros, as callers read it
  MaxWrites,      \* bound: calls of family_set_lww
  NoNode          \* stands for a key that is not known, a node without a winner

FamilyNodes == 0..(MaxWrites * Cardinality(Replicas))

FamilyStamps == [wall : Nat, logical : Nat, peer : Replicas]

FamilyOps == [node : FamilyNodes, key : FamilySuffixes, stamp : FamilyStamps, state : BOOLEAN]

\* Peer ids and wall times are unsigned, and NoNode is no node and no operation.
ASSUME FamilySyncAssumption ==
  /\ Replicas \subseteq Nat /\ IsFiniteSet(Replicas)
  /\ FamilyWalls \subseteq Nat /\ MaxWrites \in Nat
  /\ NoNode \notin Nat /\ NoNode \notin FamilyOps

VARIABLES
  clock,          \* hlc_
  ops,            \* log_ and ops_log_
  key_to_node, node_to_key,
  winning,        \* winning_, by node
  presentKeys,    \* family_members_, the keys that materialised
  family_epoch,
  next_node,      \* next_family_node_
  stamp_frontier, \* frontier_ and membership_: the stamp of each peer heard of
  writes

familySyncVars ==
  <<clock, ops, key_to_node, node_to_key, winning, presentKeys, family_epoch, next_node,
    stamp_frontier, writes>>

Heard(p, q) == stamp_frontier[p][q] # NoNode

FamilySyncInit ==
  /\ clock = [p \in Replicas |-> [wall |-> 0, logical |-> 0, peer |-> p]]
  /\ ops = [p \in Replicas |-> {}]
  /\ key_to_node = [p \in Replicas |-> [k \in FamilySuffixes |-> NoNode]]
  /\ node_to_key = [p \in Replicas |-> [n \in FamilyNodes |-> NoNode]]
  /\ winning = [p \in Replicas |-> [n \in FamilyNodes |-> NoNode]]
  /\ presentKeys = [p \in Replicas |-> {}]
  /\ family_epoch = [p \in Replicas |-> 0]
  /\ next_node = [p \in Replicas |-> 0]
  /\ stamp_frontier = [p \in Replicas |-> [q \in Replicas |-> NoNode]]
  /\ writes = 0

\* The first id from next_family_node_ on that no operation has.
mint_family_node(p) == Min({n \in FamilyNodes : n >= next_node[p] /\ winning[p][n] = NoNode})

\* StampFrontier::observe.
ObserveStamp(known, s) == IF known = NoNode \/ StampLess(known, s) THEN s ELSE known

\* Mutant: the operation that arrives last wins.
LastArrived(won, op) == op

\* The winner of a node after an operation.
Winner(won, op) == IF won = NoNode \/ StampLess(won.stamp, op.stamp) THEN op ELSE won

\* What family_set_lww and ingest_ops do with an operation that is new.
Log(p, op) ==
  /\ ops' = [ops EXCEPT ![p] = @ \cup {op}]
  /\ stamp_frontier' = [stamp_frontier EXCEPT ![p][op.stamp.peer] = ObserveStamp(@, op.stamp)]
  /\ winning' = [winning EXCEPT ![p][op.node] = Winner(@, op)]
  /\ presentKeys' = [presentKeys EXCEPT ![p] = @ \cup {op.key}]
  /\ family_epoch' = [family_epoch EXCEPT ![p] = @ + (IF op.key \in presentKeys[p] THEN 0 ELSE 1)]

family_set_lww(p, k, v, now) ==
  LET fresh == key_to_node[p][k] = NoNode
      node == IF fresh THEN mint_family_node(p) ELSE key_to_node[p][k]
  IN /\ writes < MaxWrites
     /\ writes' = writes + 1
     /\ clock' = [clock EXCEPT ![p] = Ticked(@, now)]
     /\ Log(p, [node |-> node, key |-> k, stamp |-> clock'[p], state |-> v])
     /\ next_node' = [next_node EXCEPT ![p] = IF fresh THEN node + 1 ELSE @]
     /\ key_to_node' = [key_to_node EXCEPT ![p][k] = node]
     /\ node_to_key' = [node_to_key EXCEPT ![p][node] = IF fresh THEN k ELSE @]

\* ingest of a frame with one of q's operations.  The clock does not observe it.
ingest_ops(p, q) ==
  \E op \in ops[q] \ ops[p] :
    /\ Log(p, op)
    /\ key_to_node' = [key_to_node EXCEPT ![p][op.key] = op.node]
    /\ node_to_key' = [node_to_key EXCEPT ![p][op.node] = op.key]
    /\ UNCHANGED <<clock, next_node, writes>>

\* ingest of a frame whose operations were held back: its frontier only.
ingest_frontier(p, q) ==
  /\ stamp_frontier' = [stamp_frontier EXCEPT ![p] =
       [r \in Replicas |-> IF Heard(q, r) THEN ObserveStamp(@[r], stamp_frontier[q][r]) ELSE @[r]]]
  /\ stamp_frontier' # stamp_frontier
  /\ UNCHANGED <<clock, ops, key_to_node, node_to_key, winning, presentKeys, family_epoch, next_node,
                 writes>>

FamilySyncNext ==
  \/ \E p \in Replicas, k \in FamilySuffixes, v \in BOOLEAN, now \in FamilyWalls :
       family_set_lww(p, k, v, now)
  \/ \E p, q \in Replicas : ingest_ops(p, q) \/ ingest_frontier(p, q)

FamilySyncSpec == FamilySyncInit /\ [][FamilySyncNext]_familySyncVars

-----------------------------------------------------------------------------

family_value_lww(p, k) ==
  IF key_to_node[p][k] = NoNode \/ winning[p][key_to_node[p][k]] = NoNode THEN NoNode
  ELSE winning[p][key_to_node[p][k]].state

OpsOf(p, k) == {op \in ops[p] : op.key = k}

\* Only one replica has created the key, as far as p knows.
OneNode(p, k) == \A a, b \in OpsOf(p, k) : a.node = b.node

\* And the node it was given stands for no other key.
OwnNode(p, k) == \A a \in OpsOf(p, k), b \in ops[p] : b.node = a.node <=> b.key = k

\* Replicas that have the same operations agree on the keys that are present,
\* on the epoch, on the winner of every node, and on the value of every key
\* that one replica created, in whatever order the operations came.  A key
\* that two replicas created may show different values for good: the mapping
\* follows the operation that came last (ingest_ops).
FamiliesConverge ==
  \A p, q \in Replicas :
    ops[p] = ops[q] =>
      /\ presentKeys[p] = presentKeys[q] /\ family_epoch[p] = family_epoch[q]
      /\ winning[p] = winning[q]
      /\ \A k \in FamilySuffixes : OneNode(p, k) => family_value_lww(p, k) = family_value_lww(q, k)

\* An entry whose node is its own shows the last write that the replica has
\* heard of, under skewed walls and late frames.  Where ids collide it shows
\* the last write of either key (mint_family_node, family_value_lww).
EntriesShowLastWrite ==
  \A p \in Replicas, k \in FamilySuffixes : \A a \in OpsOf(p, k) :
    OwnNode(p, k) /\ (\A b \in OpsOf(p, k) : ~StampLess(a.stamp, b.stamp)) =>
      family_value_lww(p, k) = a.state

=============================================================================
