----------------------------- MODULE SeqReplicas -----------------------------
(***************************************************************************)
(* Replicas of a SeqCrdt: entries of three last-writer-wins registers      *)
(* (value, position, deleted), stamped by a hybrid logical clock while the *)
(* callers' wall clocks are skewed; local operations, forks and merges of  *)
(* whole replicas.  An entry's position is a fractional key and the peer   *)
(* that chose it.                                                          *)
(***************************************************************************)
EXTENDS ReplicaOrder, SequencesExt, FiniteSets

CONSTANTS
  SeqPeers,      \* peer ids, numbers; the first replica is the least
  SeqIds,        \* ids of entries
  SeqValues,     \* values of entries
  Walls,         \* now_micros, as the callers read it: any, at any call
  MaxSeqOps,     \* bound: local operations of all replicas
  MaxMerges,     \* bound: merges
  NoSeqEntry     \* stands for an id without an entry

VARIABLES
  seqPeers,      \* the peers that have a replica
  hlc,           \* hlc_: the last wall time and logical count, and the peer
  entries,       \* entries_
  accepted,      \* what the last local write on an entry returned
  seqOps, seqMerges

seqVars == <<seqPeers, hlc, entries, accepted, seqOps, seqMerges>>

SeqInit ==
  /\ seqPeers = {Min(SeqPeers)}
  /\ hlc = [p \in SeqPeers |-> [wall |-> 0, logical |-> 0, peer |-> p]]
  /\ entries = [p \in SeqPeers |-> [i \in SeqIds |-> NoSeqEntry]]
  /\ accepted = TRUE
  /\ seqOps = 0
  /\ seqMerges = 0

(* LwwRegister. *)

Reg(v, s) == [value |-> v, stamp |-> s]

SetReg(r, v, s) == IF StampLess(r.stamp, s) THEN Reg(v, s) ELSE r

MergeReg(r, other) == SetReg(r, other.value, other.stamp)

(* Positions. *)

PositionLess(a, b) == KeyLess(a.frac, b.frac) \/ (a.frac = b.frac /\ a.peer < b.peer)

Known(p) == {i \in SeqIds : entries[p][i] # NoSeqEntry}

Live(p) == {i \in Known(p) : ~entries[p][i].deleted.value}

PositionOf(p, i) == entries[p][i].position.value

\* What order() may return: live entries sorted by position.  Entries of equal
\* position come in either order, the sort is unstable and the map unordered.
live_order(p) ==
  {s \in SetToSeqs(Live(p)) :
     \A i, j \in 1..Len(s) : i < j => ~PositionLess(PositionOf(p, s[j]), PositionOf(p, s[i]))}

\* The neighbours of a place: none, or an entry, deleted or not.
Sides(p) == {<<>>} \cup {<<i>> : i \in Known(p)}

FracOf(p, side) == IF side = <<>> THEN <<>> ELSE PositionOf(p, side[1]).frac

PlaceBetween(p, left, right) ==
  [frac |-> key_between(FracOf(p, left), FracOf(p, right)), peer |-> p]

(* Local operations. *)

LocalOp(p, now) ==
  /\ p \in seqPeers /\ seqOps < MaxSeqOps
  /\ seqOps' = seqOps + 1
  /\ hlc' = [hlc EXCEPT ![p] = Ticked(@, now)]
  /\ UNCHANGED <<seqPeers, seqMerges>>

SeqEntry(v, pos, s) == [value |-> Reg(v, s), position |-> Reg(pos, s), deleted |-> Reg(FALSE, s)]

\* emplace: an id that has an entry, even a deleted one, keeps it.
InsertAtPlace(p, i, v, left, right, now) ==
  /\ LocalOp(p, now)
  /\ entries' = [entries EXCEPT ![p][i] =
       IF @ = NoSeqEntry THEN SeqEntry(v, PlaceBetween(p, left, right), hlc'[p]) ELSE @]
  /\ UNCHANGED accepted

insert_between(p, i, v, now) ==
  \E left, right \in Sides(p) : InsertAtPlace(p, i, v, left, right, now)

insert_back(p, i, v, now) ==
  \E s \in live_order(p) :
    InsertAtPlace(p, i, v, IF s = <<>> THEN <<>> ELSE <<Last(s)>>, <<>>, now)

insert_front(p, i, v, now) ==
  \E s \in live_order(p) :
    InsertAtPlace(p, i, v, <<>>, IF s = <<>> THEN <<>> ELSE <<Head(s)>>, now)

\* set_value, move_between and remove: one register of an entry that exists.
WriteReg(p, i, field, v, now) ==
  /\ LocalOp(p, now)
  /\ entries[p][i] # NoSeqEntry
  /\ accepted' = StampLess(entries[p][i][field].stamp, hlc'[p])
  /\ entries' = [entries EXCEPT ![p][i][field] = SetReg(@, v, hlc'[p])]

set_value(p, i, v, now) == WriteReg(p, i, "value", v, now)

move_between(p, i, now) ==
  \E left, right \in Sides(p) :
    WriteReg(p, i, "position", PlaceBetween(p, left, right), now)

remove(p, i, now) == WriteReg(p, i, "deleted", TRUE, now)

(* Replication. *)

\* max_stamp of an entry.
EntryStamp(e) == MaxStamp(MaxStamp(e.value.stamp, e.position.stamp), e.deleted.stamp)

MergeEntry(e, other) ==
  IF other = NoSeqEntry THEN e
  ELSE IF e = NoSeqEntry THEN other
  ELSE [f \in {"value", "position", "deleted"} |-> MergeReg(e[f], other[f])]

MergeEntries(es, others) == [i \in SeqIds |-> MergeEntry(es[i], others[i])]

\* The clock observes one stamp per entry, in the order of an unordered map.
ObserveAll(c, es, ids, now) == FoldLeft(LAMBDA d, i : Observed(d, EntryStamp(es[i]), now), c, ids)

MergeSeq(p, q, now) ==
  /\ {p, q} \subseteq seqPeers /\ p # q
  /\ seqMerges < MaxMerges
  /\ seqMerges' = seqMerges + 1
  /\ \E ids \in SetToSeqs(Known(q)) :
       hlc' = [hlc EXCEPT ![p] = ObserveAll(@, entries[q], ids, now)]
  /\ entries' = [entries EXCEPT ![p] = MergeEntries(@, entries[q])]
  /\ UNCHANGED <<seqPeers, accepted, seqOps>>

ForkSeq(p, q) ==
  /\ p \in seqPeers /\ q \notin seqPeers
  /\ seqPeers' = seqPeers \cup {q}
  /\ hlc' = [hlc EXCEPT ![q] = Forked(hlc[p], q)]
  /\ entries' = [entries EXCEPT ![q] = entries[p]]
  /\ UNCHANGED <<accepted, seqOps, seqMerges>>

SeqNext ==
  \/ \E p \in SeqPeers, i \in SeqIds, v \in SeqValues, now \in Walls :
       \/ insert_between(p, i, v, now)
       \/ insert_back(p, i, v, now)
       \/ insert_front(p, i, v, now)
       \/ set_value(p, i, v, now)
  \/ \E p \in SeqPeers, i \in SeqIds, now \in Walls :
       move_between(p, i, now) \/ remove(p, i, now)
  \/ \E p, q \in SeqPeers, now \in Walls : MergeSeq(p, q, now)
  \/ \E p, q \in SeqPeers : ForkSeq(p, q)

SeqSpec == SeqInit /\ [][SeqNext]_seqVars

-----------------------------------------------------------------------------

\* No local write is dropped: whatever the skew of the wall clocks, a replica
\* stamps past everything it holds, also what it merged or was forked with.
OwnWritesLand == accepted

\* Replicas converge: two of them merge to the same entries whichever takes the
\* other's state, since no stamp was given to two writes.
SeqMergesAgree ==
  \A p, q \in seqPeers : MergeEntries(entries[p], entries[q]) = MergeEntries(entries[q], entries[p])

=============================================================================
