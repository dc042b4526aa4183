-------------------------- MODULE WorkQueueProofs --------------------------
(***************************************************************************)
(* The work queue accounts for every item and its readers show the queue,  *)
(* for any number of workers, callers and items, any lease length and any  *)
(* delivery limit.                                                         *)
(***************************************************************************)
EXTENDS WorkQueue, FiniteSetTheorems, SequenceTheorems, TLAPS

\* No place holds an item twice.
ItemsOnce ==
  /\ \A p, q \in DOMAIN pending : pending[p].item = pending[q].item => p = q
  /\ \A d, e \in in_flight : d.item = e.item => d = e
  /\ \A p, q \in DOMAIN dead_letters : dead_letters[p].item = dead_letters[q].item => p = q

\* No two places hold the same item.
PlacesApart ==
  /\ \A p \in DOMAIN pending : /\ \A d \in in_flight : d.item # pending[p].item
                               /\ \A q \in DOMAIN dead_letters : dead_letters[q].item # pending[p].item
                               /\ pending[p].item \notin acked
  /\ \A d \in in_flight : /\ \A q \in DOMAIN dead_letters : dead_letters[q].item # d.item
                          /\ d.item \notin acked
  /\ \A q \in DOMAIN dead_letters : dead_letters[q].item \notin acked

\* Some place holds each item.
ItemsSomewhere ==
  \A i \in Items :
    \/ \E p \in DOMAIN pending : pending[p].item = i
    \/ \E d \in in_flight : d.item = i
    \/ \E q \in DOMAIN dead_letters : dead_letters[q].item = i
    \/ i \in acked

\* A live lease is one of the claims, and the ids of claims are below the next.
LeasesHanded ==
  /\ IsFiniteSet(in_flight) /\ IsFiniteSet(handed)
  /\ \A h \in handed : h.id < next_delivery_id
  /\ \A d \in in_flight : /\ [id |-> d.id, item |-> d.item, worker |-> d.worker] \in handed
                          /\ d.attempt <= max_deliveries

\* The inductive invariant: places instead of cardinalities, and what the
\* claims and the leases have to do with each other.
WorkInv ==
  /\ WorkTypeOK /\ ItemsOnce /\ PlacesApart /\ ItemsSomewhere
  /\ LeasesHanded /\ ClaimsCounted

-----------------------------------------------------------------------------
(* Lemmas about sequences and sets *)

\* An element of a sequence.
LEMMA ElementAt ==
  ASSUME NEW S, NEW s \in Seq(S), NEW i \in DOMAIN s
  PROVE  s[i] \in S
  OBVIOUS

\* Appending one element to a sequence.
LEMMA AppendAt ==
  ASSUME NEW S, NEW s \in Seq(S), NEW e \in S
  PROVE  /\ Append(s, e) \in Seq(S)
         /\ DOMAIN Append(s, e) = DOMAIN s \cup {Len(s) + 1}
         /\ Len(s) + 1 \notin DOMAIN s
         /\ Append(s, e)[Len(s) + 1] = e
         /\ \A i \in DOMAIN s : Append(s, e)[i] = s[i]
  OBVIOUS

\* Removing the first element of a sequence.
LEMMA TailAt ==
  ASSUME NEW S, NEW s \in Seq(S), s # << >>
  PROVE  /\ Tail(s) \in Seq(S) /\ Head(s) = s[1] /\ 1 \in DOMAIN s
         /\ \A i \in DOMAIN Tail(s) : i + 1 \in DOMAIN s /\ i + 1 # 1 /\ Tail(s)[i] = s[i + 1]
         /\ \A i \in DOMAIN s : i # 1 => i - 1 \in DOMAIN Tail(s) /\ Tail(s)[i - 1] = s[i]
         /\ DOMAIN Tail(s) \subseteq Int
  OBVIOUS

\* Appending a sequence given as a function on an interval.
LEMMA ConcatAt ==
  ASSUME NEW S, NEW s \in Seq(S), NEW n \in Nat, NEW t \in [1..n -> S]
  PROVE  /\ s \o t \in Seq(S)
         /\ \A i \in DOMAIN s : i \in DOMAIN (s \o t) /\ (s \o t)[i] = s[i]
         /\ \A i \in 1..n : Len(s) + i \in DOMAIN (s \o t) /\ (s \o t)[Len(s) + i] = t[i]
         /\ \A i \in DOMAIN (s \o t) : 
              i \in DOMAIN s \/ (i - Len(s) \in 1..n /\ i = Len(s) + (i - Len(s)))
  OBVIOUS

\* Only items that were pushed are queued or given up.
LEMMA PlacesTyped ==
  ASSUME WorkTypeOK
  PROVE  /\ \A p \in DOMAIN pending : pending[p] \in [item : Items, attempts : Nat]
         /\ \A q \in DOMAIN dead_letters :
              dead_letters[q] \in [item : Items, attempts : Nat, reason : {"nack", "expired"}]
<1>1. /\ pending \in Seq([item : Items, attempts : Nat])
      /\ dead_letters \in Seq([item : Items, attempts : Nat, reason : {"nack", "expired"}])
  BY DEF WorkTypeOK
<1> QED BY <1>1, ElementAt

-----------------------------------------------------------------------------
(* The invariant, operation by operation *)

\* An empty queue satisfies the invariant.
LEMMA WorkInvInit == WorkInit => WorkInv
<1> SUFFICES ASSUME WorkInit PROVE WorkInv
  OBVIOUS
<1>1. Items = {}
  BY DEF WorkInit, Items
<1>2. WorkTypeOK
  BY DEF WorkInit, WorkTypeOK
<1>3. ItemsOnce /\ PlacesApart /\ ItemsSomewhere
  BY <1>1 DEF WorkInit, ItemsOnce, PlacesApart, ItemsSomewhere
<1>4. LeasesHanded /\ ClaimsCounted
  BY <1>1, FS_EmptySet DEF WorkInit, LeasesHanded, ClaimsCounted
<1> QED BY <1>2, <1>3, <1>4 DEF WorkInv

\* push gives the item an id no place holds.
LEMMA PushKeeps ==
  ASSUME WorkInv, NEW c \in Callers, PushWork(c)
  PROVE  WorkInv'
<1>0. PICK n \in Nat : n = next_item_id
  BY DEF WorkInv, WorkTypeOK
<1> DEFINE e == [item |-> n, attempts |-> 0]
           S == [item : Items', attempts : Nat]
<1>1. /\ pending' = Append(pending, e) /\ next_item_id' = n + 1
      /\ UNCHANGED <<in_flight, dead_letters, next_delivery_id, acked, handed>>
  BY <1>0 DEF PushWork, NewItemId
<1>2. Items' = Items \cup {n} /\ n \notin Items
  BY <1>0, <1>1 DEF WorkInv, WorkTypeOK, Items
<1>3. pending \in Seq(S) /\ e \in S /\ e.item = n /\ e.attempts = 0
  <2>1. [item : Items, attempts : Nat] \subseteq S
    BY <1>2
  <2>2. pending \in Seq([item : Items, attempts : Nat])
    BY DEF WorkInv, WorkTypeOK
  <2>3. pending \in Seq(S)
    BY <2>1, <2>2, SeqMonotonic
  <2> QED BY <1>2, <2>3
<1>4. /\ pending' \in Seq(S)
      /\ DOMAIN pending' = DOMAIN pending \cup {Len(pending) + 1}
      /\ Len(pending) + 1 \notin DOMAIN pending
      /\ pending'[Len(pending) + 1] = e
      /\ \A p \in DOMAIN pending : pending'[p] = pending[p]
  BY <1>1, <1>3, AppendAt
<1>5. WorkTypeOK'
  <2> DEFINE D(I) == [item : I, attempts : Nat, reason : {"nack", "expired"}]
  <2>1. D(Items) \subseteq D(Items')
    BY <1>2
  <2>2. dead_letters \in Seq(D(Items)) /\ dead_letters' = dead_letters
    BY <1>1 DEF WorkInv, WorkTypeOK
  <2> HIDE DEF D
  <2>3. dead_letters' \in Seq(D(Items'))
    BY <2>1, <2>2, SeqMonotonic
  <2> USE DEF D
  <2> QED BY <1>0, <1>1, <1>2, <1>4, <2>3 DEF WorkInv, WorkTypeOK
<1>6. /\ \A p \in DOMAIN pending : pending[p].item # n
      /\ \A q \in DOMAIN dead_letters : dead_letters[q].item # n
      /\ \A d \in in_flight : d.item # n
      /\ n \notin acked
      /\ \A h \in handed : h.item # n
  BY <1>2, PlacesTyped DEF WorkInv, WorkTypeOK
<1> HIDE DEF e
<1>7. ItemsOnce'
  BY <1>1, <1>3, <1>4, <1>6 DEF WorkInv, ItemsOnce
<1>8. PlacesApart'
  BY <1>1, <1>3, <1>4, <1>6 DEF WorkInv, PlacesApart
<1>9. ItemsSomewhere'
  BY <1>1, <1>2, <1>3, <1>4 DEF WorkInv, ItemsSomewhere
<1>10. LeasesHanded'
  BY <1>1 DEF WorkInv, LeasesHanded
<1>11. ClaimsCounted'
  <2>1. \A i : Deliveries(i)' = Deliveries(i) /\ Leases(i)' = Leases(i) /\ Dead(i)' = Dead(i)
    BY <1>1 DEF Deliveries, Leases, Dead
  <2>2. /\ Queued(n)' = {Len(pending) + 1}
        /\ \A i \in Items : Queued(i)' = Queued(i)
    BY <1>1, <1>2, <1>3, <1>4, <1>6 DEF Queued
  <2>3. Deliveries(n) = {} /\ Leases(n) = {} /\ Dead(n) = {}
    BY <1>6 DEF Deliveries, Leases, Dead
  <2>4. Cardinality(Deliveries(n)) = 0
    BY <2>3, FS_EmptySet
  <2>5. \A i \in Items : \A p \in Queued(i) : pending'[p] = pending[p]
    BY <1>4 DEF Queued
  <2>6. \A g, h \in handed' : g.id = h.id => g = h
    BY <1>1 DEF WorkInv, ClaimsCounted
  <2> SUFFICES ASSUME NEW j \in Items'
               PROVE  /\ \A p \in Queued(j)' : /\ pending'[p].attempts = Cardinality(Deliveries(j)')
                                               /\ pending'[p].attempts < max_deliveries
                      /\ \A p \in Dead(j)' : Cardinality(Deliveries(j)') = max_deliveries
                      /\ \A d \in Leases(j)' : /\ d.attempt = Cardinality(Deliveries(j)')
                                               /\ \A g \in Deliveries(j)' : g.id <= d.id
    BY <2>6 DEF ClaimsCounted
  <2>7. CASE j = n
    <3>1. Queued(j)' = {Len(pending) + 1} /\ Dead(j)' = {} /\ Leases(j)' = {}
      BY <2>1, <2>2, <2>3, <2>7
    <3>2. Cardinality(Deliveries(j)') = 0
      BY <2>1, <2>4, <2>7
    <3> QED BY <1>3, <1>4, <3>1, <3>2, WorkQueueAssumption
  <2>8. CASE j \in Items
    BY <2>1, <2>2, <2>5, <2>8 DEF WorkInv, ClaimsCounted
  <2> QED BY <1>2, <2>7, <2>8
<1> QED BY <1>5, <1>7, <1>8, <1>9, <1>10, <1>11 DEF WorkInv

\* claim moves the head of the queue under a lease with a fresh id.
LEMMA ClaimKeeps ==
  ASSUME WorkInv, NEW c \in Callers, NEW w \in Workers, Claim(c, w)
  PROVE  WorkInv'
<1>0. PICK i : i = pending[1].item
  OBVIOUS
<1> DEFINE d == [id |-> next_delivery_id, item |-> i, worker |-> w,
                 attempt |-> pending[1].attempts + 1, left |-> visibility_timeout]
           h == [id |-> next_delivery_id, item |-> i, worker |-> w]
           S == [item : Items, attempts : Nat]
<1>1. /\ pending \in Seq(S) /\ pending # << >> /\ pending' = Tail(pending)
      /\ UNCHANGED <<dead_letters, next_item_id, acked>>
      /\ next_delivery_id' = next_delivery_id + 1
  BY DEF Claim, WorkInv, WorkTypeOK
<1>2. /\ pending' \in Seq(S) /\ Head(pending) = pending[1] /\ 1 \in DOMAIN pending
      /\ \A p \in DOMAIN pending' : p + 1 \in DOMAIN pending /\ p + 1 # 1 /\ pending'[p] = pending[p + 1]
      /\ \A p \in DOMAIN pending : p # 1 => p - 1 \in DOMAIN pending' /\ pending'[p - 1] = pending[p]
      /\ DOMAIN pending' \subseteq Int
  BY <1>1, TailAt
<1>3. in_flight' = in_flight \cup {d} /\ handed' = handed \cup {h}
  BY <1>0, <1>2 DEF Claim, NewDeliveryId
<1>4. Items' = Items /\ i \in Items /\ pending[1].attempts \in Nat /\ next_delivery_id \in Nat
  <2>1. pending[1] \in S
    BY <1>1, <1>2, ElementAt
  <2> QED BY <1>0, <1>1, <2>1 DEF Items, WorkInv, WorkTypeOK
<1>5. /\ d.id = next_delivery_id /\ d.item = i /\ d.worker = w /\ d.attempt = pending[1].attempts + 1
      /\ h.id = next_delivery_id /\ h.item = i /\ h.worker = w
      /\ h = [id |-> d.id, item |-> d.item, worker |-> d.worker]
      /\ d \in [id : Nat, item : Items, worker : Workers, attempt : Nat, left : Int]
      /\ h \in [id : Nat, item : Items, worker : Workers]
  BY <1>4, WorkQueueAssumption
<1> HIDE DEF d, h
<1>6. WorkTypeOK'
  BY <1>1, <1>2, <1>3, <1>4, <1>5 DEF WorkInv, WorkTypeOK
<1>7. /\ \A e \in in_flight : e.item # i
      /\ \A q \in DOMAIN dead_letters : dead_letters[q].item # i
      /\ i \notin acked
      /\ \A p \in DOMAIN pending' : pending'[p].item # i
  BY <1>0, <1>2 DEF WorkInv, PlacesApart, ItemsOnce
<1>8. ItemsOnce'
  <2>1. \A p, q \in DOMAIN pending' : pending'[p].item = pending'[q].item => p = q
    <3> SUFFICES ASSUME NEW p \in DOMAIN pending', NEW q \in DOMAIN pending',
                        pending'[p].item = pending'[q].item
                 PROVE  p = q
      OBVIOUS
    <3>1. p + 1 = q + 1
      BY <1>2 DEF WorkInv, ItemsOnce
    <3> QED BY <1>2, <3>1
  <2>2. \A a, b \in in_flight' : a.item = b.item => a = b
    BY <1>3, <1>5, <1>7 DEF WorkInv, ItemsOnce
  <2> QED BY <1>1, <2>1, <2>2 DEF WorkInv, ItemsOnce
<1>9. PlacesApart'
  BY <1>1, <1>2, <1>3, <1>5, <1>7 DEF WorkInv, PlacesApart
<1>10. ItemsSomewhere'
  <2> SUFFICES ASSUME NEW j \in Items
               PROVE  \/ \E p \in DOMAIN pending' : pending'[p].item = j
                      \/ \E e \in in_flight' : e.item = j
                      \/ \E q \in DOMAIN dead_letters' : dead_letters'[q].item = j
                      \/ j \in acked'
    BY <1>4 DEF ItemsSomewhere
  <2>1. CASE \E p \in DOMAIN pending : pending[p].item = j
    BY <1>0, <1>2, <1>3, <1>5, <2>1
  <2>2. CASE ~ \E p \in DOMAIN pending : pending[p].item = j
    BY <1>1, <1>3, <2>2 DEF WorkInv, ItemsSomewhere
  <2> QED BY <2>1, <2>2
<1>11. h \notin handed /\ \A g \in handed : g.id # next_delivery_id /\ g.id <= next_delivery_id
  BY <1>4, <1>5 DEF WorkInv, WorkTypeOK, LeasesHanded
<1>12. 1 \in Queued(i)
  BY <1>0, <1>2 DEF Queued
<1>13. pending[1].attempts = Cardinality(Deliveries(i)) /\ pending[1].attempts < max_deliveries
  BY <1>4, <1>12 DEF WorkInv, ClaimsCounted
<1>14. LeasesHanded'
  <2>1. IsFiniteSet(in_flight') /\ IsFiniteSet(handed')
    BY <1>3, FS_AddElement DEF WorkInv, LeasesHanded
  <2>2. d.attempt <= max_deliveries
    BY <1>4, <1>5, <1>13, WorkQueueAssumption
  <2>3. \A g \in handed' : g.id < next_delivery_id'
    BY <1>1, <1>3, <1>4, <1>5 DEF WorkInv, WorkTypeOK, LeasesHanded
  <2> QED BY <1>3, <1>5, <2>1, <2>2, <2>3 DEF WorkInv, LeasesHanded
<1>15. ClaimsCounted'
  <2>1. Deliveries(i)' = Deliveries(i) \cup {h} /\ h \notin Deliveries(i)
    BY <1>3, <1>5, <1>11 DEF Deliveries
  <2>2. Cardinality(Deliveries(i)') = Cardinality(Deliveries(i)) + 1
    <3>1. IsFiniteSet(Deliveries(i))
      BY FS_Subset DEF WorkInv, LeasesHanded, Deliveries
    <3> QED BY <2>1, <3>1, FS_AddElement
  <2>3. \A j \in Items : j # i => Deliveries(j)' = Deliveries(j)
    BY <1>3, <1>5 DEF Deliveries
  <2>4. \A g, k \in handed' : g.id = k.id => g = k
    BY <1>3, <1>5, <1>11 DEF WorkInv, ClaimsCounted
  <2> SUFFICES ASSUME NEW j \in Items
               PROVE  /\ \A p \in Queued(j)' : /\ pending'[p].attempts = Cardinality(Deliveries(j)')
                                               /\ pending'[p].attempts < max_deliveries
                      /\ \A p \in Dead(j)' : Cardinality(Deliveries(j)') = max_deliveries
                      /\ \A e \in Leases(j)' : /\ e.attempt = Cardinality(Deliveries(j)')
                                               /\ \A g \in Deliveries(j)' : g.id <= e.id
    BY <1>4, <2>4 DEF ClaimsCounted
  <2>5. CASE j = i
    <3>1. Queued(j)' = {} /\ Dead(j)' = {} /\ Leases(j)' = {d}
      BY <1>1, <1>3, <1>5, <1>7, <2>5 DEF Queued, Dead, Leases
    <3>2. d.attempt = Cardinality(Deliveries(j)')
      BY <1>5, <1>13, <2>2, <2>5
    <3>3. \A g \in Deliveries(j)' : g.id <= d.id
      BY <1>3, <1>4, <1>5, <1>11 DEF Deliveries
    <3> QED BY <3>1, <3>2, <3>3
  <2>6. CASE j # i
    <3>1. /\ \A p \in Queued(j)' : p + 1 \in Queued(j) /\ pending'[p] = pending[p + 1]
          /\ Dead(j)' = Dead(j) /\ Leases(j)' = Leases(j)
      BY <1>1, <1>2, <1>3, <1>5, <2>6 DEF Queued, Dead, Leases
    <3> QED BY <2>3, <2>6, <3>1 DEF WorkInv, ClaimsCounted
  <2> QED BY <2>5, <2>6
<1> QED BY <1>6, <1>8, <1>9, <1>10, <1>14, <1>15 DEF WorkInv


\* The order in which leases are failed names each of them once.
LEMMA IdOrderOnce ==
  ASSUME NEW D, IsFiniteSet(D), NEW s \in InIdOrder(D),
         \A d \in D : d.id \in Nat
  PROVE  /\ Cardinality(D) \in Nat
         /\ s \in [1..Cardinality(D) -> D] /\ DOMAIN s = 1..Cardinality(D)
         /\ \A i, j \in DOMAIN s : s[i] = s[j] => i = j
         /\ \A d \in D : \E i \in DOMAIN s : s[i] = d
<1>1. Cardinality(D) \in Nat
  BY FS_CardinalityType
<1>2. /\ s \in [1..Cardinality(D) -> D] /\ DOMAIN s = 1..Cardinality(D)
      /\ \A i, j \in DOMAIN s : i < j => s[i].id < s[j].id
      /\ \A d \in D : \E i \in DOMAIN s : s[i] = d
  BY DEF InIdOrder
<1>3. ASSUME NEW i \in DOMAIN s, NEW j \in DOMAIN s, s[i] = s[j]
      PROVE  i = j
  <2>1. s[i].id \in Nat /\ i \in Nat /\ j \in Nat
    BY <1>1, <1>2
  <2>2. ~(i < j) /\ ~(j < i)
    BY <1>2, <1>3, <2>1
  <2> QED BY <2>1, <2>2
<1> QED BY <1>1, <1>2, <1>3

\* The leases D, whose items are not in the sequence s of items without
\* repetition, are given as the sequence t in the order of their ids.
LeasesToAppend(S, s, D, order, t) ==
  /\ s \in Seq(S) /\ IsFiniteSet(D) /\ order \in InIdOrder(D)
  /\ t \in [1..Cardinality(D) -> S]
  /\ \A i \in 1..Cardinality(D) : t[i].item = order[i].item
  /\ \A d \in D : d.id \in Nat
  /\ \A d, e \in D : d.item = e.item => d = e
  /\ \A i, j \in DOMAIN s : s[i].item = s[j].item => i = j
  /\ \A i \in DOMAIN s, d \in D : s[i].item # d.item

\* The sequence u has s as its beginning, holds the items of D after it, and
\* is again without repetition.
LeasesAppended(S, s, D, order, t, u) ==
  /\ u \in Seq(S)
  /\ \A i \in DOMAIN s : i \in DOMAIN u /\ u[i] = s[i]
  /\ \A i \in DOMAIN u :
       i \in DOMAIN s \/ \E k \in 1..Cardinality(D) : order[k] \in D /\ u[i] = t[k]
  /\ \A d \in D : \E i \in DOMAIN u : u[i].item = d.item
  /\ \A i, j \in DOMAIN u : u[i].item = u[j].item => i = j

\* A sequence of items without repetition stays one when leases of other
\* items are appended in the order of their ids.
LEMMA AppendLeases ==
  ASSUME NEW S, NEW s, NEW D, NEW order, NEW t, LeasesToAppend(S, s, D, order, t)
  PROVE  LeasesAppended(S, s, D, order, t, s \o t)
<1> USE DEF LeasesToAppend
<1>1. /\ Cardinality(D) \in Nat /\ order \in [1..Cardinality(D) -> D] /\ DOMAIN order = 1..Cardinality(D)
      /\ \A i, j \in DOMAIN order : order[i] = order[j] => i = j
      /\ \A d \in D : \E i \in DOMAIN order : order[i] = d
  BY IdOrderOnce
<1>2. PICK n \in Nat : n = Cardinality(D)
  BY <1>1
<1>3. PICK u : u = s \o t
  OBVIOUS
<1>0. t \in [1..n -> S]
  BY <1>2
<1>4. /\ u \in Seq(S)
      /\ \A i \in DOMAIN s : i \in DOMAIN u /\ u[i] = s[i]
      /\ \A i \in 1..n : Len(s) + i \in DOMAIN u /\ u[Len(s) + i] = t[i]
      /\ \A i \in DOMAIN u : i \in DOMAIN s \/ (i - Len(s) \in 1..n /\ i = Len(s) + (i - Len(s)))
  <2>1. s \in Seq(S)
    OBVIOUS
  <2> QED BY ONLY <1>0, <1>3, <2>1, n \in Nat, ConcatAt
<1>5. \A k \in 1..n : order[k] \in D /\ t[k].item = order[k].item
  BY <1>1, <1>2
<1>6. \A i \in DOMAIN u :
        i \in DOMAIN s \/ \E k \in 1..n : i = Len(s) + k /\ u[i] = t[k]
  BY <1>4
<1>7. \A d \in D : \E i \in DOMAIN u : u[i].item = d.item
  <2> SUFFICES ASSUME NEW d \in D PROVE \E i \in DOMAIN u : u[i].item = d.item
    OBVIOUS
  <2>1. PICK k \in 1..n : order[k] = d
    BY <1>1, <1>2
  <2>2. Len(s) + k \in DOMAIN u /\ u[Len(s) + k] = t[k]
    BY <1>4
  <2>3. t[k].item = d.item
    BY <1>5, <2>1
  <2> QED BY <2>2, <2>3
<1>8. ASSUME NEW i \in DOMAIN u, NEW j \in DOMAIN u, u[i].item = u[j].item
      PROVE  i = j
  <2>1. CASE i \in DOMAIN s /\ j \in DOMAIN s
    BY <1>4, <1>8, <2>1
  <2>2. CASE i \in DOMAIN s /\ j \notin DOMAIN s
    <3>1. PICK k \in 1..n : u[j] = t[k]
      BY <1>6, <2>2
    <3>2. u[j].item = order[k].item /\ order[k] \in D /\ u[i] = s[i]
      BY <1>4, <1>5, <2>2, <3>1
    <3> QED BY <1>8, <2>2, <3>2
  <2>3. CASE i \notin DOMAIN s /\ j \in DOMAIN s
    <3>1. PICK k \in 1..n : u[i] = t[k]
      BY <1>6, <2>3
    <3>2. u[i].item = order[k].item /\ order[k] \in D /\ u[j] = s[j]
      BY <1>4, <1>5, <2>3, <3>1
    <3> QED BY <1>8, <2>3, <3>2
  <2>4. CASE i \notin DOMAIN s /\ j \notin DOMAIN s
    <3>1. PICK k \in 1..n, l \in 1..n : /\ i = Len(s) + k /\ u[i] = t[k]
                                        /\ j = Len(s) + l /\ u[j] = t[l]
      BY <1>6, <2>4
    <3>2. order[k] = order[l]
      BY <1>5, <1>8, <3>1
    <3> QED BY <1>1, <1>2, <3>1, <3>2
  <2> QED BY <2>1, <2>2, <2>3, <2>4
<1>9. \A i \in DOMAIN u : i \in DOMAIN s \/ \E k \in 1..n : order[k] \in D /\ u[i] = t[k]
  BY <1>5, <1>6
<1> QED BY <1>2, <1>3, <1>4, <1>7, <1>8, <1>9 DEF LeasesAppended

\* The leases in D have moved to the tail of the queue or to the dead letters,
\* each of them once, and nothing else was taken away.
FailMoved(D) ==
  /\ pending' \in Seq([item : Items, attempts : Nat])
  /\ \A p \in DOMAIN pending : p \in DOMAIN pending' /\ pending'[p] = pending[p]
  /\ \A p \in DOMAIN pending' :
       \/ p \in DOMAIN pending
       \/ \E d \in D : ~Exhausted(d) /\ pending'[p].item = d.item /\ pending'[p].attempts = d.attempt
  /\ \A d \in D : ~Exhausted(d) => \E p \in DOMAIN pending' : pending'[p].item = d.item
  /\ \A p, q \in DOMAIN pending' : pending'[p].item = pending'[q].item => p = q
  /\ dead_letters' \in Seq([item : Items, attempts : Nat, reason : {"nack", "expired"}])
  /\ \A q \in DOMAIN dead_letters :
       q \in DOMAIN dead_letters' /\ dead_letters'[q] = dead_letters[q]
  /\ \A q \in DOMAIN dead_letters' :
       \/ q \in DOMAIN dead_letters
       \/ \E d \in D : Exhausted(d) /\ dead_letters'[q].item = d.item
  /\ \A d \in D : Exhausted(d) => \E q \in DOMAIN dead_letters' : dead_letters'[q].item = d.item
  /\ \A p, q \in DOMAIN dead_letters' : dead_letters'[p].item = dead_letters'[q].item => p = q

\* fail_locked moves the leases in D to the tail of the queue or to the dead
\* letters, each of them once, and takes nothing else away.
LEMMA FailMoves ==
  ASSUME WorkInv, NEW D \in SUBSET in_flight, NEW reason \in {"nack", "expired"},
         FailLocked(D, reason)
  PROVE  FailMoved(D)
<1>0. PICK A, G, T, U : /\ A = {d \in D : ~Exhausted(d)}
                        /\ G = {d \in D : Exhausted(d)}
                        /\ T = [item : Items, attempts : Nat]
                        /\ U = [item : Items, attempts : Nat, reason : {"nack", "expired"}]
  OBVIOUS
<1>1. PICK again \in InIdOrder(A) :
        pending' = pending \o [i \in DOMAIN again |-> [item |-> again[i].item, attempts |-> again[i].attempt]]
  BY <1>0 DEF FailLocked
<1>2. PICK gone \in InIdOrder(G) :
        dead_letters' = dead_letters \o
          [i \in DOMAIN gone |-> [item |-> gone[i].item, attempts |-> gone[i].attempt, reason |-> reason]]
  BY <1>0 DEF FailLocked
<1>3. IsFiniteSet(A) /\ IsFiniteSet(G)
  BY <1>0, FS_Subset DEF WorkInv, LeasesHanded
<1>4. \A d \in D : d.id \in Nat /\ d.item \in Items /\ d.attempt \in Nat
  BY DEF WorkInv, WorkTypeOK
<1>5. again \in [1..Cardinality(A) -> A] /\ DOMAIN again = 1..Cardinality(A)
  BY DEF InIdOrder
<1>6. gone \in [1..Cardinality(G) -> G] /\ DOMAIN gone = 1..Cardinality(G)
  BY DEF InIdOrder
<1>7. PICK s : s = [i \in 1..Cardinality(A) |-> [item |-> again[i].item, attempts |-> again[i].attempt]]
  OBVIOUS
<1>8. PICK t : t = [i \in 1..Cardinality(G) |->
                      [item |-> gone[i].item, attempts |-> gone[i].attempt, reason |-> reason]]
  OBVIOUS
<1>9. /\ s \in [1..Cardinality(A) -> T]
      /\ \A i \in 1..Cardinality(A) : s[i].item = again[i].item /\ s[i].attempts = again[i].attempt
  BY <1>0, <1>4, <1>5, <1>7
<1>10. /\ t \in [1..Cardinality(G) -> U]
       /\ \A i \in 1..Cardinality(G) : t[i].item = gone[i].item
  BY <1>0, <1>4, <1>6, <1>8
<1>11. pending \in Seq(T) /\ dead_letters \in Seq(U)
  BY <1>0 DEF WorkInv, WorkTypeOK
<1>12. pending' = pending \o s /\ dead_letters' = dead_letters \o t
  BY <1>1, <1>2, <1>5, <1>6, <1>7, <1>8
<1>13. /\ \A d \in A \cup G : d.id \in Nat
       /\ \A d, e \in A \cup G : d.item = e.item => d = e
       /\ \A p \in DOMAIN pending, d \in A : pending[p].item # d.item
       /\ \A q \in DOMAIN dead_letters, d \in G : dead_letters[q].item # d.item
       /\ \A i, j \in DOMAIN pending : pending[i].item = pending[j].item => i = j
       /\ \A i, j \in DOMAIN dead_letters : dead_letters[i].item = dead_letters[j].item => i = j
  BY <1>0, <1>4 DEF WorkInv, PlacesApart, ItemsOnce
<1>14. LeasesAppended(T, pending, A, again, s, pending')
  <2>1. LeasesToAppend(T, pending, A, again, s)
    BY <1>1, <1>3, <1>9, <1>11, <1>13 DEF LeasesToAppend
  <2> QED BY <1>12, <2>1, AppendLeases
<1>15. LeasesAppended(U, dead_letters, G, gone, t, dead_letters')
  <2>1. LeasesToAppend(U, dead_letters, G, gone, t)
    BY <1>2, <1>3, <1>10, <1>11, <1>13 DEF LeasesToAppend
  <2> QED BY <1>12, <2>1, AppendLeases
<1>16. \A p \in DOMAIN pending' :
         \/ p \in DOMAIN pending
         \/ \E d \in D : ~Exhausted(d) /\ pending'[p].item = d.item /\ pending'[p].attempts = d.attempt
  <2> SUFFICES ASSUME NEW p \in DOMAIN pending', p \notin DOMAIN pending
               PROVE  \E d \in D : /\ ~Exhausted(d) /\ pending'[p].item = d.item
                                   /\ pending'[p].attempts = d.attempt
    OBVIOUS
  <2>1. PICK k \in 1..Cardinality(A) : again[k] \in A /\ pending'[p] = s[k]
    BY <1>14 DEF LeasesAppended
  <2>2. again[k] \in D /\ ~Exhausted(again[k])
    BY <1>0, <2>1
  <2>3. pending'[p].item = again[k].item /\ pending'[p].attempts = again[k].attempt
    BY <1>9, <2>1
  <2> QED BY <2>2, <2>3
<1>17. \A q \in DOMAIN dead_letters' :
         \/ q \in DOMAIN dead_letters
         \/ \E d \in D : Exhausted(d) /\ dead_letters'[q].item = d.item
  BY <1>0, <1>10, <1>15 DEF LeasesAppended
<1>18. /\ \A d \in D : ~Exhausted(d) => \E p \in DOMAIN pending' : pending'[p].item = d.item
       /\ \A d \in D : Exhausted(d) => \E q \in DOMAIN dead_letters' : dead_letters'[q].item = d.item
  BY <1>0, <1>14, <1>15 DEF LeasesAppended
<1> QED BY <1>0, <1>14, <1>15, <1>16, <1>17, <1>18 DEF LeasesAppended, FailMoved


\* fail_locked keeps the invariant: what it requeues was claimed less than
\* max_deliveries times, what it gives up exactly that often.
LEMMA FailKeeps ==
  ASSUME WorkInv, NEW D \in SUBSET in_flight, NEW reason \in {"nack", "expired"},
         FailLocked(D, reason)
  PROVE  WorkInv'
<1>0. FailMoved(D)
  BY FailMoves
<1>1. /\ in_flight' = in_flight \ D
      /\ UNCHANGED <<next_item_id, next_delivery_id, acked, handed>> /\ Items' = Items
  BY DEF FailLocked, Erased, Items
<1>2. /\ pending' \in Seq([item : Items, attempts : Nat])
      /\ \A p \in DOMAIN pending : p \in DOMAIN pending' /\ pending'[p] = pending[p]
      /\ \A p \in DOMAIN pending' :
           \/ p \in DOMAIN pending
           \/ \E d \in D : ~Exhausted(d) /\ pending'[p].item = d.item /\ pending'[p].attempts = d.attempt
      /\ \A d \in D : ~Exhausted(d) => \E p \in DOMAIN pending' : pending'[p].item = d.item
      /\ \A p, q \in DOMAIN pending' : pending'[p].item = pending'[q].item => p = q
  BY <1>0 DEF FailMoved
<1>3. /\ dead_letters' \in Seq([item : Items, attempts : Nat, reason : {"nack", "expired"}])
      /\ \A q \in DOMAIN dead_letters :
           q \in DOMAIN dead_letters' /\ dead_letters'[q] = dead_letters[q]
      /\ \A q \in DOMAIN dead_letters' :
           \/ q \in DOMAIN dead_letters
           \/ \E d \in D : Exhausted(d) /\ dead_letters'[q].item = d.item
      /\ \A d \in D : Exhausted(d) => \E q \in DOMAIN dead_letters' : dead_letters'[q].item = d.item
      /\ \A p, q \in DOMAIN dead_letters' : dead_letters'[p].item = dead_letters'[q].item => p = q
  BY <1>0 DEF FailMoved
<1>4. WorkTypeOK'
  BY <1>1, <1>2, <1>3 DEF WorkInv, WorkTypeOK
<1>5. ItemsOnce'
  BY <1>1, <1>2, <1>3 DEF WorkInv, ItemsOnce
<1>6. PlacesApart'
  <2>1. \A d, e \in in_flight : d.item = e.item => d = e
    BY DEF WorkInv, ItemsOnce
  <2>2. \A p \in DOMAIN pending', e \in in_flight' : e.item # pending'[p].item
    BY <1>1, <1>2, <2>1 DEF WorkInv, PlacesApart
  <2>3. \A q \in DOMAIN dead_letters', e \in in_flight' : dead_letters'[q].item # e.item
    BY <1>1, <1>3, <2>1 DEF WorkInv, PlacesApart
  <2>4. /\ \A p \in DOMAIN pending' : pending'[p].item \notin acked'
        /\ \A q \in DOMAIN dead_letters' : dead_letters'[q].item \notin acked'
        /\ \A e \in in_flight' : e.item \notin acked'
    <3>1. \A p \in DOMAIN pending' : pending'[p].item \notin acked'
      BY <1>1, <1>2 DEF WorkInv, PlacesApart
    <3>2. \A q \in DOMAIN dead_letters' : dead_letters'[q].item \notin acked'
      BY <1>1, <1>3 DEF WorkInv, PlacesApart
    <3>3. \A e \in in_flight' : e.item \notin acked'
      BY <1>1 DEF WorkInv, PlacesApart
    <3> QED BY <3>1, <3>2, <3>3
  <2>5. ASSUME NEW p \in DOMAIN pending', NEW q \in DOMAIN dead_letters'
        PROVE  dead_letters'[q].item # pending'[p].item
    <3>1. CASE p \in DOMAIN pending /\ q \in DOMAIN dead_letters
      BY <1>2, <1>3, <3>1 DEF WorkInv, PlacesApart
    <3>2. CASE p \in DOMAIN pending /\ q \notin DOMAIN dead_letters
      BY <1>2, <1>3, <3>2 DEF WorkInv, PlacesApart
    <3>3. CASE p \notin DOMAIN pending /\ q \in DOMAIN dead_letters
      BY <1>2, <1>3, <3>3 DEF WorkInv, PlacesApart
    <3>4. CASE p \notin DOMAIN pending /\ q \notin DOMAIN dead_letters
      BY <1>2, <1>3, <2>1, <3>4
    <3> QED BY <3>1, <3>2, <3>3, <3>4
  <2> QED BY <2>2, <2>3, <2>4, <2>5 DEF PlacesApart
<1>7. ItemsSomewhere'
  <2> SUFFICES ASSUME NEW j \in Items
               PROVE  \/ \E p \in DOMAIN pending' : pending'[p].item = j
                      \/ \E e \in in_flight' : e.item = j
                      \/ \E q \in DOMAIN dead_letters' : dead_letters'[q].item = j
                      \/ j \in acked'
    BY <1>1 DEF ItemsSomewhere
  <2>1. CASE \E p \in DOMAIN pending : pending[p].item = j
    BY <1>2, <2>1
  <2>2. CASE \E q \in DOMAIN dead_letters : dead_letters[q].item = j
    BY <1>3, <2>2
  <2>3. CASE \E d \in in_flight : d.item = j
    BY <1>1, <1>2, <1>3, <2>3
  <2> QED BY <1>1, <2>1, <2>2, <2>3 DEF WorkInv, ItemsSomewhere
<1>8. LeasesHanded'
  <2>1. IsFiniteSet(in_flight')
    BY <1>1, FS_Difference DEF WorkInv, LeasesHanded
  <2> QED BY <1>1, <2>1 DEF WorkInv, LeasesHanded
<1>9. ClaimsCounted'
  <2>1. \A i : Deliveries(i)' = Deliveries(i)
    BY <1>1 DEF Deliveries
  <2>2. \A g, h \in handed' : g.id = h.id => g = h
    BY <1>1 DEF WorkInv, ClaimsCounted
  <2> SUFFICES ASSUME NEW j \in Items
               PROVE  /\ \A p \in Queued(j)' : /\ pending'[p].attempts = Cardinality(Deliveries(j))
                                               /\ pending'[p].attempts < max_deliveries
                      /\ \A p \in Dead(j)' : Cardinality(Deliveries(j)) = max_deliveries
                      /\ \A e \in Leases(j)' : /\ e.attempt = Cardinality(Deliveries(j))
                                               /\ \A g \in Deliveries(j) : g.id <= e.id
    BY <1>1, <2>1, <2>2 DEF ClaimsCounted
  <2>3. /\ \A p \in Queued(j) : /\ pending[p].attempts = Cardinality(Deliveries(j))
                                /\ pending[p].attempts < max_deliveries
        /\ \A p \in Dead(j) : Cardinality(Deliveries(j)) = max_deliveries
        /\ \A e \in Leases(j) : /\ e.attempt = Cardinality(Deliveries(j))
                                /\ \A g \in Deliveries(j) : g.id <= e.id
    BY DEF WorkInv, ClaimsCounted
  <2>4. \A d \in D : d.item = j => d.attempt = Cardinality(Deliveries(j))
    BY <2>3 DEF Leases
  <2>5. \A d \in D : d.attempt \in Nat /\ d.attempt <= max_deliveries
    BY DEF WorkInv, WorkTypeOK, LeasesHanded
  <2>6. ASSUME NEW p \in Queued(j)'
        PROVE  pending'[p].attempts = Cardinality(Deliveries(j)) /\ pending'[p].attempts < max_deliveries
    <3>1. CASE p \in DOMAIN pending
      BY <1>2, <2>3, <3>1 DEF Queued
    <3>2. CASE p \notin DOMAIN pending
      BY <1>2, <2>4, <2>5, <3>2, WorkQueueAssumption DEF Queued, Exhausted
    <3> QED BY <3>1, <3>2
  <2>7. ASSUME NEW p \in Dead(j)'
        PROVE  Cardinality(Deliveries(j)) = max_deliveries
    <3>1. CASE p \in DOMAIN dead_letters
      BY <1>3, <2>3, <3>1 DEF Dead
    <3>2. CASE p \notin DOMAIN dead_letters
      BY <1>3, <2>4, <2>5, <3>2, WorkQueueAssumption DEF Dead, Exhausted
    <3> QED BY <3>1, <3>2
  <2>8. Leases(j)' \subseteq Leases(j)
    BY <1>1 DEF Leases
  <2> QED BY <2>3, <2>6, <2>7, <2>8
<1> QED BY <1>4, <1>5, <1>6, <1>7, <1>8, <1>9 DEF WorkInv

\* ack finishes the item of the one lease it erases.
LEMMA AckKeeps ==
  ASSUME WorkInv, NEW c \in Callers, NEW w \in Workers, NEW id, Ack(c, w, id)
  PROVE  WorkInv'
<1>1. PICK D \in SUBSET in_flight : D = Leased(w, id)
  BY DEF Leased
<1>2. /\ in_flight' = in_flight \ D /\ acked' = acked \cup {d.item : d \in D}
      /\ UNCHANGED <<pending, dead_letters, next_item_id, next_delivery_id, handed>>
      /\ Items' = Items
  BY <1>1 DEF Ack, Erased, Items
<1>3. WorkTypeOK'
  BY <1>2 DEF WorkInv, WorkTypeOK
<1>4. ItemsOnce'
  BY <1>2 DEF WorkInv, ItemsOnce
<1>5. PlacesApart'
  BY <1>2 DEF WorkInv, PlacesApart, ItemsOnce
<1>6. ItemsSomewhere'
  BY <1>2 DEF WorkInv, ItemsSomewhere
<1>7. LeasesHanded'
  <2>1. IsFiniteSet(in_flight')
    BY <1>2, FS_Difference DEF WorkInv, LeasesHanded
  <2> QED BY <1>2, <2>1 DEF WorkInv, LeasesHanded
<1>8. ClaimsCounted'
  <2>1. \A i : /\ Deliveries(i)' = Deliveries(i) /\ Queued(i)' = Queued(i)
               /\ Dead(i)' = Dead(i) /\ Leases(i)' \subseteq Leases(i)
    BY <1>2 DEF Deliveries, Queued, Dead, Leases
  <2> QED BY <1>2, <2>1 DEF WorkInv, ClaimsCounted
<1> QED BY <1>3, <1>4, <1>5, <1>6, <1>7, <1>8 DEF WorkInv

\* A tick shortens leases and changes nothing else about them; in particular
\* their number is the same.
LEMMA TickShortens ==
  ASSUME WorkInv, Tick
  PROVE  /\ \A e \in in_flight' : \E d \in in_flight :
              /\ e.id = d.id /\ e.item = d.item /\ e.worker = d.worker /\ e.attempt = d.attempt
              /\ e \in [id : Nat, item : Items, worker : Workers, attempt : Nat, left : Int]
         /\ \A d \in in_flight : \E e \in in_flight' : e.item = d.item
         /\ \A d, e \in in_flight' : d.item = e.item => d = e
         /\ IsFiniteSet(in_flight') /\ Cardinality(in_flight') = Cardinality(in_flight)
<1> DEFINE L == [id : Nat, item : Items, worker : Workers, attempt : Nat, left : Int]
           Sh(d) == [d EXCEPT !.left = IF @ < 0 THEN @ ELSE @ - 1]
<1>1. in_flight' = {Sh(d) : d \in in_flight} /\ in_flight \subseteq L
  BY DEF Tick, WorkInv, WorkTypeOK
<1>2. \A d \in L : /\ Sh(d) \in L /\ Sh(d).id = d.id /\ Sh(d).item = d.item
                   /\ Sh(d).worker = d.worker /\ Sh(d).attempt = d.attempt
  OBVIOUS
<1> HIDE DEF Sh, L
<1>3. \A d, e \in in_flight : d.item = e.item => d = e
  BY DEF WorkInv, ItemsOnce
<1>4. PICK f : f = [d \in in_flight |-> Sh(d)]
  OBVIOUS
<1>5. f \in [in_flight -> in_flight'] /\ \A d \in in_flight : f[d] = Sh(d)
  BY <1>1, <1>4
<1>6. f \in Surjection(in_flight, in_flight')
  BY <1>1, <1>5 DEF Surjection
<1>7. f \in Injection(in_flight, in_flight')
  <2>1. \A a, b \in in_flight : f[a] = f[b] => a = b
    BY <1>1, <1>2, <1>3, <1>5
  <2> QED BY <1>5, <2>1 DEF Injection, IsInjective
<1>8. IsFiniteSet(in_flight') /\ Cardinality(in_flight') = Cardinality(in_flight)
  BY <1>6, <1>7, FS_Surjection DEF WorkInv, LeasesHanded
<1>9. \A d, e \in in_flight' : d.item = e.item => d = e
  BY <1>1, <1>2, <1>3
<1> QED BY <1>1, <1>2, <1>8, <1>9 DEF L

\* The clock keeps the invariant.
LEMMA TickKeeps ==
  ASSUME WorkInv, Tick
  PROVE  WorkInv'
<1>1. /\ UNCHANGED <<pending, dead_letters, next_item_id, next_delivery_id, acked, handed>>
      /\ Items' = Items
  BY DEF Tick, Items
<1>2. /\ \A e \in in_flight' : \E d \in in_flight :
           /\ e.id = d.id /\ e.item = d.item /\ e.worker = d.worker /\ e.attempt = d.attempt
           /\ e \in [id : Nat, item : Items, worker : Workers, attempt : Nat, left : Int]
      /\ \A d \in in_flight : \E e \in in_flight' : e.item = d.item
      /\ \A d, e \in in_flight' : d.item = e.item => d = e
      /\ IsFiniteSet(in_flight')
  BY TickShortens
<1>3. WorkTypeOK'
  BY <1>1, <1>2 DEF WorkInv, WorkTypeOK
<1>4. ItemsOnce' /\ PlacesApart' /\ ItemsSomewhere'
  BY <1>1, <1>2 DEF WorkInv, ItemsOnce, PlacesApart, ItemsSomewhere
<1>5. LeasesHanded'
  BY <1>1, <1>2 DEF WorkInv, LeasesHanded
<1>6. ClaimsCounted'
  <2>1. \A i : /\ Deliveries(i)' = Deliveries(i) /\ Queued(i)' = Queued(i) /\ Dead(i)' = Dead(i)
               /\ \A e \in Leases(i)' : \E d \in Leases(i) : e.id = d.id /\ e.attempt = d.attempt
    BY <1>1, <1>2 DEF Deliveries, Queued, Dead, Leases
  <2> QED BY <1>1, <2>1 DEF WorkInv, ClaimsCounted
<1> QED BY <1>3, <1>4, <1>5, <1>6 DEF WorkInv

\* Clearing and reading a reader does not touch the queue.
LEMMA ReadingKeeps ==
  ASSUME WorkInv, UNCHANGED work
  PROVE  WorkInv'
<1>1. /\ UNCHANGED <<pending, in_flight, dead_letters, next_item_id, next_delivery_id, acked, handed>>
      /\ Items' = Items
  BY DEF work, Items
<1>2. WorkTypeOK' /\ LeasesHanded'
  BY <1>1 DEF WorkInv, WorkTypeOK, LeasesHanded
<1>3. ItemsOnce' /\ PlacesApart' /\ ItemsSomewhere'
  BY <1>1 DEF WorkInv, ItemsOnce, PlacesApart, ItemsSomewhere
<1>4. ClaimsCounted'
  BY <1>1 DEF WorkInv, ClaimsCounted, Queued, Leases, Dead, Deliveries
<1> QED BY <1>2, <1>3, <1>4 DEF WorkInv

\* Every step keeps the invariant.
LEMMA WorkInvStep == WorkInv /\ [WorkNext]_workVars => WorkInv'
<1> SUFFICES ASSUME WorkInv, [WorkNext]_workVars PROVE WorkInv'
  OBVIOUS
<1>1. ASSUME NEW c \in Callers, PushWork(c) PROVE WorkInv'
  BY <1>1, PushKeeps
<1>2. ASSUME NEW c \in Callers, reap_expired(c) PROVE WorkInv'
  <2>1. Expired \in SUBSET in_flight /\ FailLocked(Expired, "expired")
    BY <1>2 DEF reap_expired, Expired
  <2> QED BY <2>1, FailKeeps
<1>3. ASSUME NEW c \in Callers, NEW w \in Workers, Claim(c, w) PROVE WorkInv'
  BY <1>3, ClaimKeeps
<1>4. ASSUME NEW c \in Callers, NEW w \in Workers, Answer(c, w) PROVE WorkInv'
  <2>1. PICK h \in handed : Ack(c, w, h.id) \/ Nack(c, w, h.id)
    BY <1>4 DEF Answer
  <2>2. CASE Ack(c, w, h.id)
    BY <2>2, AckKeeps
  <2>3. CASE Nack(c, w, h.id)
    <3>1. Leased(w, h.id) \in SUBSET in_flight /\ FailLocked(Leased(w, h.id), "nack")
      BY <2>3 DEF Nack, Leased
    <3> QED BY <3>1, FailKeeps
  <2> QED BY <2>1, <2>2, <2>3
<1>5. CASE Tick
  BY <1>5, TickKeeps
<1>6. CASE (\E c \in Callers : ClearReader(c)) \/ ReadWork \/ UNCHANGED workVars
  <2>1. UNCHANGED work
    BY <1>6 DEF ClearReader, ReadWork, workVars
  <2> QED BY <2>1, ReadingKeeps
<1> QED BY <1>1, <1>2, <1>3, <1>4, <1>5, <1>6 DEF WorkNext


-----------------------------------------------------------------------------
(* What the invariant means for the items *)

\* A set with at most one element counts one or nothing.
LEMMA AtMostOne ==
  ASSUME NEW S, \A x, y \in S : x = y
  PROVE  Cardinality(S) = IF S = {} THEN 0 ELSE 1
<1>1. CASE S = {}
  BY <1>1, FS_EmptySet
<1>2. CASE S # {}
  <2>1. PICK x : S = {x}
    BY <1>2
  <2> QED BY <1>2, <2>1, FS_Singleton
<1> QED BY <1>1, <1>2

\* An item that some place holds, no place twice and no two places, is counted
\* once.
LEMMA PlacesCount == WorkInv => ItemsConserved
<1> SUFFICES ASSUME WorkInv, NEW i \in Items
             PROVE  Cardinality(Queued(i)) + Cardinality(Leases(i)) + Cardinality(Dead(i))
                      + (IF i \in acked THEN 1 ELSE 0) = 1
  BY DEF ItemsConserved
<1>1. /\ \A x, y \in Queued(i) : x = y
      /\ \A x, y \in Leases(i) : x = y
      /\ \A x, y \in Dead(i) : x = y
  BY DEF WorkInv, ItemsOnce, Queued, Leases, Dead
<1>2. /\ Cardinality(Queued(i)) = IF Queued(i) = {} THEN 0 ELSE 1
      /\ Cardinality(Leases(i)) = IF Leases(i) = {} THEN 0 ELSE 1
      /\ Cardinality(Dead(i)) = IF Dead(i) = {} THEN 0 ELSE 1
  BY <1>1, AtMostOne
<1>3. Queued(i) # {} \/ Leases(i) # {} \/ Dead(i) # {} \/ i \in acked
  BY DEF WorkInv, ItemsSomewhere, Queued, Leases, Dead
<1>4. /\ Queued(i) # {} => Leases(i) = {} /\ Dead(i) = {} /\ i \notin acked
      /\ Leases(i) # {} => Dead(i) = {} /\ i \notin acked
      /\ Dead(i) # {} => i \notin acked
  BY DEF WorkInv, PlacesApart, Queued, Leases, Dead
<1> QED BY <1>2, <1>3, <1>4

\* work_queue.hpp: whatever the workers answer, and however late, an item that
\* was pushed is queued, leased, given up or finished, in exactly one of these
\* ways and once; a delivery id names one claim, a live lease is the last claim
\* of its item, and no item is claimed more than max_deliveries times.
THEOREM ItemsAreAccounted == WorkSpec => []ItemsAccounted
<1>1. WorkInit => WorkInv
  BY WorkInvInit
<1>2. WorkInv /\ [WorkNext]_workVars => WorkInv'
  BY WorkInvStep
<1>3. WorkInv => ItemsAccounted
  BY PlacesCount DEF WorkInv, ItemsAccounted
<1> QED BY <1>1, <1>2, <1>3, PTL DEF WorkSpec

-----------------------------------------------------------------------------
(* The readers *)

\* A step keeps a reader current: a commit that changes its value makes its
\* thread owe the clear, and a tick changes the deadline of leases only.
LEMMA ReadersStep ==
  WorkInv /\ WorkReadersCurrent /\ [WorkNext]_workVars => WorkReadersCurrent'
<1> SUFFICES ASSUME WorkInv, WorkReadersCurrent, [WorkNext]_workVars, workOwed' = {}
             PROVE  workShown' \in {Unread, counts_locked'[reader']}
  BY DEF WorkReadersCurrent
<1>1. ASSUME NEW c \in Callers, Committed(c)
      PROVE  workShown' \in {Unread, counts_locked'[reader']}
  <2>1. /\ workOwed = {} /\ UNCHANGED <<reader, workShown>>
        /\ counts_locked'[reader] = counts_locked[reader]
    BY <1>1 DEF Committed, Changed
  <2> QED BY <2>1 DEF WorkReadersCurrent
<1>2. CASE \E c \in Callers : ClearReader(c)
  BY <1>2 DEF ClearReader
<1>3. CASE ReadWork \/ UNCHANGED workVars
  <2>1. counts_locked' = counts_locked /\ reader' = reader /\ workOwed' = workOwed
    BY <1>3 DEF ReadWork, workVars, work, counts_locked
  <2> QED BY <1>3, <2>1 DEF WorkReadersCurrent, ReadWork, workVars
<1>4. CASE Tick
  <2>1. Cardinality(in_flight') = Cardinality(in_flight)
    BY <1>4, TickShortens
  <2>2. counts_locked' = counts_locked /\ UNCHANGED <<reader, workShown, workOwed>>
    BY <1>4, <2>1 DEF Tick, counts_locked
  <2> QED BY <2>2 DEF WorkReadersCurrent
<1> QED BY <1>1, <1>2, <1>3, <1>4
        DEF WorkNext, PushWork, reap_expired, Claim, Answer, Ack, Nack

\* work_queue.hpp commits under its mutex and invalidates afterwards: once no
\* thread is between the two, a reader that holds a value holds the present one.
THEOREM ReadersAreCurrent == WorkSpec => []WorkReadersCurrent
<1>1. WorkInit => WorkInv /\ WorkReadersCurrent
  BY WorkInvInit DEF WorkInit, WorkReadersCurrent
<1>2. WorkInv /\ [WorkNext]_workVars => WorkInv'
  BY WorkInvStep
<1>3. WorkInv /\ WorkReadersCurrent /\ [WorkNext]_workVars => WorkReadersCurrent'
  BY ReadersStep
<1> QED BY <1>1, <1>2, <1>3, PTL DEF WorkSpec

=============================================================================
