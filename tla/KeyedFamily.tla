---------------------------- MODULE KeyedFamily ----------------------------
(***************************************************************************)
(* thread_safe_reactive_family.hpp (and its async twin): threads share a   *)
(* keyed collection of input cells.  The map lock covers each look-up,     *)
(* insertion, removal, move and version increment, and is released around  *)
(* every call into the graph, so the calls interleave between those steps. *)
(* A derived node that reads keys() or len() computes under the graph      *)
(* lock, and is cached until the order or the membership cell is set.      *)
(***************************************************************************)
EXTENDS KeyedOrder, FiniteSets

CONSTANTS
  FamilyThreads, FamilyKeys, FamilyValues,
  FamilyCalls,      \* the calls the threads make: "get", "set", "remove", "move"
  MintedBefore,     \* the keys minted, in this order, before the threads start
  NoCell,           \* no handle
  NotCached,        \* a reader without a value
  MaxFamilyCalls    \* bound on the calls of a behaviour

VARIABLES
  familyOrder,     \* keyed.order_
  familyEntries,   \* keyed.entries_: key -> handle, or NoCell
  familyCells,     \* the minted cells: handle -> value
  versions,        \* version and order_version
  signals,         \* the values of the membership and the order_signal cell
  familyReaders,   \* cached values of a keys() and a len() reader
  famCall,         \* per thread: the call under way
  famCalls,        \* calls made
  givenOut         \* per key: the handles given out since it was last removed

familyVars == <<familyOrder, familyEntries, familyCells, versions, signals, familyReaders,
                famCall, famCalls, givenOut>>

(* The value observe_dependency's factory returns.                         *)
Unavailable == 0

NoFamCall == [at |-> "idle"]

FamilyInit ==
  /\ familyOrder = MintedBefore
  /\ familyEntries = [k \in FamilyKeys |-> IF contains(MintedBefore, k)
                                           THEN position(MintedBefore, k) + 1 ELSE NoCell]
  /\ familyCells = [i \in DOMAIN MintedBefore |-> Unavailable]
  /\ versions = [membership |-> Len(MintedBefore), order |-> Len(MintedBefore)]
  /\ signals = versions
  /\ familyReaders = [keys |-> NotCached, len |-> NotCached]
  /\ famCall = [t \in FamilyThreads |-> NoFamCall]
  /\ famCalls = 0
  /\ givenOut = [k \in FamilyKeys |-> {}]

Goto(t, at) == famCall' = [famCall EXCEPT ![t].at = at]

mapVars == <<familyOrder, familyEntries>>
graphVars == <<signals, familyReaders>>

----------------------------------------------------------------------------
(* A call starts.  A "set" is alone until another call writes or removes   *)
(* its key; a "get" mints the cell with the value a factory returns.       *)

InputsOf(call) == IF call = "set" THEN FamilyValues ELSE {Unavailable}

StartCall(t, call, k, v) ==
  /\ famCall[t].at = "idle"
  /\ famCalls < MaxFamilyCalls
  /\ famCalls' = famCalls + 1
  /\ famCall' = [famCall EXCEPT ![t] = [at |-> call, call |-> call, key |-> k, value |-> v,
                                        handle |-> NoCell, next |-> 0, alone |-> TRUE]]
  /\ UNCHANGED <<mapVars, familyCells, versions, graphVars, givenOut>>

(* set: the look-up of the handle, under the lock, decides how to write.   *)
SetLooksUp(t) ==
  /\ famCall[t].at = "set"
  /\ famCall' = [famCall EXCEPT ![t].handle = familyEntries[famCall[t].key],
                                ![t].at = IF familyEntries[famCall[t].key] = NoCell
                                          THEN "get" ELSE "write"]
  /\ UNCHANGED <<mapVars, familyCells, versions, graphVars, famCalls, givenOut>>

Disturbed(t, k) ==
  [u \in FamilyThreads |->
     IF u # t /\ famCall[u].at # "idle" /\ famCall[u].key = k
     THEN [famCall[u] EXCEPT !.alone = FALSE] ELSE famCall[u]]

SetWrites(t) ==
  /\ famCall[t].at = "write"
  /\ familyCells' = [familyCells EXCEPT ![famCall[t].handle] = famCall[t].value]
  /\ famCall' = [Disturbed(t, famCall[t].key) EXCEPT ![t].at = "return"]
  /\ UNCHANGED <<mapVars, versions, graphVars, famCalls, givenOut>>

(* mint_with: a warm key returns its handle; else a node is made with no   *)
(* lock held.                                                              *)
GiveOut(k, h) == givenOut' = [givenOut EXCEPT ![k] = @ \cup {h}]

MintWarm(t) ==
  /\ famCall[t].at = "get"
  /\ familyEntries[famCall[t].key] # NoCell
  /\ GiveOut(famCall[t].key, familyEntries[famCall[t].key])
  /\ Goto(t, "return")
  /\ UNCHANGED <<mapVars, familyCells, versions, graphVars, famCalls>>

MintMaterializes(t) ==
  /\ famCall[t].at = "get"
  /\ familyEntries[famCall[t].key] = NoCell
  /\ familyCells' = Append(familyCells, famCall[t].value)
  /\ famCall' = [famCall EXCEPT ![t].at = "insert", ![t].handle = Len(familyCells')]
  /\ UNCHANGED <<mapVars, versions, graphVars, famCalls, givenOut>>

(* Mutant: the last writer wins. *)
LastWriter(k, h) == h

(* The first writer wins: the handle of a key that is present by now stays. *)
StoredHandle(k, h) == IF familyEntries[k] = NoCell THEN h ELSE familyEntries[k]

MintInserts(t) ==
  LET k == famCall[t].key
      h == StoredHandle(k, famCall[t].handle) IN
  /\ famCall[t].at = "insert"
  /\ familyEntries' = [familyEntries EXCEPT ![k] = h]
  /\ familyOrder' = inserted(familyOrder, k)
  /\ GiveOut(k, h)
  /\ famCall' = [(IF famCall[t].call = "set" /\ familyEntries[k] = NoCell
                  THEN Disturbed(t, k) ELSE famCall)
                 EXCEPT ![t].at = IF familyEntries[k] = NoCell THEN "membership" ELSE "return"]
  /\ UNCHANGED <<familyCells, versions, graphVars, famCalls>>

----------------------------------------------------------------------------
(* remove and move.                                                        *)

RemoveKey(t) ==
  LET k == famCall[t].key IN
  /\ famCall[t].at = "remove"
  /\ familyEntries' = [familyEntries EXCEPT ![k] = NoCell]
  /\ familyOrder' = removed(familyOrder, k)
  /\ givenOut' = [givenOut EXCEPT ![k] = {}]
  /\ famCall' = [Disturbed(t, k) EXCEPT
                   ![t].at = IF familyEntries[k] = NoCell THEN "return" ELSE "clear"]
  /\ UNCHANGED <<familyCells, versions, graphVars, famCalls>>

(* clear_dependents of the handle taken out, before the bump.  It empties  *)
(* the caches of nodes that read the entry's value, of which the model has *)
(* none: the two readers read the version cells only.  The code reaches    *)
(* the graph through context(), without its lock; here the step is whole.  *)
ClearDependents(t) ==
  /\ famCall[t].at = "clear"
  /\ Goto(t, "membership")
  /\ UNCHANGED <<mapVars, familyCells, versions, graphVars, famCalls, givenOut>>

Moves(keys, k) ==
  {move_to(keys, k, i) : i \in 0..Len(keys)}
  \cup {move_before(keys, k, a) : a \in FamilyKeys}
  \cup {move_after(keys, k, a) : a \in FamilyKeys}

(* A move that changes nothing bumps nothing.                              *)
MoveKey(t) ==
  /\ famCall[t].at = "move"
  /\ familyOrder' \in Moves(familyOrder, famCall[t].key)
  /\ Goto(t, IF familyOrder' = familyOrder THEN "return" ELSE "order")
  /\ UNCHANGED <<familyEntries, familyCells, versions, graphVars, famCalls, givenOut>>

----------------------------------------------------------------------------
(* bump_membership, which ends in bump_order: the version grows under the  *)
(* map lock, the cell is set after it is released.                         *)

Bump(t, which) ==
  /\ famCall[t].at = which
  /\ versions' = [versions EXCEPT ![which] = @ + 1]
  /\ famCall' = [famCall EXCEPT ![t].next = versions[which] + 1,
                                ![t].at = IF which = "order" THEN "set order"
                                          ELSE "set membership"]
  /\ UNCHANGED <<mapVars, familyCells, graphVars, famCalls, givenOut>>

(* A cell that is set to the value it has invalidates nobody.              *)
Invalidated(which, next) ==
  IF signals[which] = next THEN familyReaders
  ELSE IF which = "membership" THEN [familyReaders EXCEPT !.len = NotCached]
  ELSE [familyReaders EXCEPT !.keys = NotCached]

SetSignal(t, which) ==
  /\ famCall[t].at = (IF which = "order" THEN "set order" ELSE "set membership")
  /\ familyReaders' = Invalidated(which, famCall[t].next)
  /\ signals' = [signals EXCEPT ![which] = famCall[t].next]
  /\ Goto(t, IF which = "membership" THEN "order" ELSE "return")
  /\ UNCHANGED <<mapVars, familyCells, versions, famCalls, givenOut>>

Return(t) ==
  /\ famCall[t].at = "return"
  /\ famCall' = [famCall EXCEPT ![t] = NoFamCall]
  /\ UNCHANGED <<mapVars, familyCells, versions, graphVars, famCalls, givenOut>>

(* keys() and len() of a derived node.                                     *)
ReadFamily ==
  /\ familyReaders' \in {[familyReaders EXCEPT !.keys = familyOrder],
                         [familyReaders EXCEPT !.len = Len(familyOrder)]}
  /\ \A r \in DOMAIN familyReaders :
       familyReaders'[r] # familyReaders[r] => familyReaders[r] = NotCached
  /\ UNCHANGED <<mapVars, familyCells, versions, signals, famCall, famCalls, givenOut>>

FamilyStep(t) ==
  \/ \E call \in FamilyCalls, k \in FamilyKeys : \E v \in InputsOf(call) : StartCall(t, call, k, v)
  \/ SetLooksUp(t) \/ SetWrites(t)
  \/ MintWarm(t) \/ MintMaterializes(t) \/ MintInserts(t)
  \/ RemoveKey(t) \/ ClearDependents(t) \/ MoveKey(t)
  \/ \E which \in {"membership", "order"} : Bump(t, which) \/ SetSignal(t, which)
  \/ Return(t)

FamilyNext == ReadFamily \/ \E t \in FamilyThreads : FamilyStep(t)

FamilySpec == FamilyInit /\ [][FamilyNext]_familyVars

----------------------------------------------------------------------------
(* Properties.                                                             *)

\* Once no call is under way, a cached keys() or len() reader shows the map as
\* it is, in whatever order the threads set the version cells after they
\* released the map lock (bump_membership, bump_order).
FamilyReadersCurrent ==
  (\A t \in FamilyThreads : famCall[t].at \in {"idle", "return"}) =>
    /\ familyReaders.keys \in {NotCached, familyOrder}
    /\ familyReaders.len \in {NotCached, Len(familyOrder)}

\* All callers that were given a handle for a key since it was last removed
\* hold the same one, the one in the map, though their insertions raced; and
\* the order lists each present key once (mint_with, KeyedOrder).
HandlesStable ==
  /\ \A k \in FamilyKeys : givenOut[k] \subseteq {familyEntries[k]} \ {NoCell}
  /\ IsInjective(familyOrder)
  /\ Range(familyOrder) = {k \in FamilyKeys : familyEntries[k] # NoCell}

\* Moving a key next to an anchor puts it there and leaves the order of the
\* other keys alone, from wherever it came (move_before, move_after).
MovesLand ==
  \A k, a \in Range(familyOrder) :
    LET rest == removed(familyOrder, k)
        before == move_before(familyOrder, k, a)
        after == move_after(familyOrder, k, a) IN
    k # a =>
      /\ removed(before, k) = rest /\ removed(after, k) = rest
      /\ position(before, k) + 1 = position(before, a)
      /\ position(after, k) = position(after, a) + 1

\* A set that returns, and met no other writer or remover of its key, left its
\* value in the entry (ThreadSafeSourceMap::set, publish).
SetLands ==
  \A t \in FamilyThreads :
    famCall[t].at = "return" /\ famCall[t].call = "set" /\ famCall[t].alone =>
      familyCells[familyEntries[famCall[t].key]] = famCall[t].value

=============================================================================
