----------------------------- MODULE KeyedOrder -----------------------------
(***************************************************************************)
(* keyed_order.hpp: the present keys of a keyed collection in their        *)
(* authoritative order, and the algebra that moves one of them.  Indices   *)
(* count from 0, as in the code; a sequence counts from 1.                 *)
(***************************************************************************)
EXTENDS Naturals, Sequences, SequencesExt

contains(keys, k) == k \in Range(keys)

position(keys, k) == CHOOSE i \in 0..(Len(keys) - 1) : keys[i + 1] = k

(* rotate_within: the element at one index moves to another.               *)
rotate_within(keys, from, to) == InsertAt(RemoveAt(keys, from + 1), to + 1, keys[from + 1])

inserted(keys, k) == IF contains(keys, k) THEN keys ELSE Append(keys, k)

removed(keys, k) == SelectSeq(keys, LAMBDA x : x # k)

(* The index is clamped to the last one; a missing key moves nothing.      *)
ClampedIndex(keys, index) == IF index < Len(keys) THEN index ELSE Len(keys) - 1

move_to(keys, k, index) ==
  IF contains(keys, k)
  THEN rotate_within(keys, position(keys, k), ClampedIndex(keys, index)) ELSE keys

(* Lifting a key that precedes the anchor shifts the anchor to the left.   *)
BeforeIndex(keys, k, anchor) ==
  LET a == position(keys, anchor) IN IF position(keys, k) < a THEN a - 1 ELSE a

AfterIndex(keys, k, anchor) ==
  LET a == position(keys, anchor) IN IF position(keys, k) <= a THEN a ELSE a + 1

move_before(keys, k, anchor) ==
  IF contains(keys, k) /\ contains(keys, anchor)
  THEN move_to(keys, k, BeforeIndex(keys, k, anchor)) ELSE keys

move_after(keys, k, anchor) ==
  IF contains(keys, k) /\ contains(keys, anchor)
  THEN move_to(keys, k, AfterIndex(keys, k, anchor)) ELSE keys

=============================================================================
