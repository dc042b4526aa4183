----------------------------- MODULE WorkQueue -----------------------------
(***************************************************************************)
(* BasicWorkQueueCell (work_queue.hpp): a queue of items that workers      *)
(* claim under a lease.  Items that are refused or whose lease expires go  *)
(* back to the tail until they were delivered max_deliveries times.        *)
(*                                                                         *)
(* A mutation commits under inner_->mutex and clears the readers it        *)
(* changed later, in a batch of the owner context: two steps of the        *)
(* calling thread.  The readers do not influence each other, so a          *)
(* behaviour follows one of them.  Time only matters through what is left  *)
(* of a lease: a delivery keeps its ticks to the deadline instead of the   *)
(* deadline.                                                               *)
(***************************************************************************)
EXTENDS Integers, Sequences, FiniteSets

CONSTANTS
  Workers,             \* names that claim
  Callers,             \* threads that call the queue
  visibility_timeout,  \* ticks a lease lasts
  max_deliveries,      \* deliveries before an item is given up
  MaxItems,            \* bound: items pushed
  Unread               \* a reader that holds no cached value

ASSUME WorkQueueAssumption ==
  visibility_timeout \in Nat \ {0} /\ max_deliveries \in Nat \ {0} /\ MaxItems \in Nat

VARIABLES
  pending,           \* sequence of [item, attempts]
  in_flight,         \* live leases: [id, item, worker, attempt, left]
  dead_letters,      \* sequence of [item, attempts, reason]
  next_item_id,
  next_delivery_id,
  acked,             \* history: items some worker finished
  handed,            \* history: every delivery claim returned
  reader,            \* the reader this behaviour follows
  workShown,         \* its cached value
  workOwed           \* callers that have changed it and not cleared it yet

work == <<pending, in_flight, dead_letters, next_item_id, next_delivery_id, acked, handed>>
workVars == <<work, reader, workShown, workOwed>>

Readers == {"pending_len", "is_empty", "in_flight_len", "dead_letter_len"}

WorkInit ==
  /\ pending = << >> /\ in_flight = {} /\ dead_letters = << >>
  /\ next_item_id = 0 /\ next_delivery_id = 0
  /\ acked = {} /\ handed = {}
  /\ reader \in Readers /\ workShown = Unread /\ workOwed = {}

-----------------------------------------------------------------------------
(* Readers *)

\* What each reader computes from the queue.
counts_locked ==
  [pending_len |-> Len(pending), is_empty |-> pending = << >>,
   in_flight_len |-> Cardinality(in_flight), dead_letter_len |-> Len(dead_letters)]

\* Mutant: is_empty is taken to follow from pending_len and is not cleared.
ChangedLengths(before, after) == before[reader] # after[reader] /\ reader # "is_empty"

\* Whether invalidate() clears the reader.
Changed(before, after) == before[reader] # after[reader]

\* A thread that has committed leaves the mutex with its readers to clear.
Committed(c) ==
  /\ c \notin workOwed
  /\ workOwed' = IF Changed(counts_locked, counts_locked') THEN workOwed \cup {c} ELSE workOwed
  /\ UNCHANGED <<reader, workShown>>

ClearReader(c) ==
  /\ c \in workOwed
  /\ workShown' = Unread /\ workOwed' = workOwed \ {c}
  /\ UNCHANGED <<work, reader>>

\* pending_len, is_empty, in_flight_len, dead_letter_len.
ReadWork ==
  /\ workShown = Unread
  /\ workShown' = counts_locked[reader]
  /\ UNCHANGED <<work, reader, workOwed>>

-----------------------------------------------------------------------------
(* Operations *)

NewItemId == next_item_id

PushWork(c) ==
  /\ next_item_id < MaxItems
  /\ pending' = Append(pending, [item |-> NewItemId, attempts |-> 0])
  /\ next_item_id' = next_item_id + 1
  /\ UNCHANGED <<in_flight, dead_letters, next_delivery_id, acked, handed>>
  /\ Committed(c)

NewDeliveryId == next_delivery_id

Claim(c, w) ==
  /\ pending # << >>
  /\ LET d == [id |-> NewDeliveryId, item |-> Head(pending).item, worker |-> w,
               attempt |-> Head(pending).attempts + 1, left |-> visibility_timeout] IN
     /\ in_flight' = in_flight \cup {d}
     /\ handed' = handed \cup {[id |-> d.id, item |-> d.item, worker |-> w]}
  /\ pending' = Tail(pending)
  /\ next_delivery_id' = next_delivery_id + 1
  /\ UNCHANGED <<dead_letters, next_item_id, acked>>
  /\ Committed(c)

\* The lease a worker's answer settles: by delivery id, and only its own.
Leased(w, id) == {d \in in_flight : d.id = id /\ d.worker = w}

\* Mutant: a lease that expired is requeued and not erased.
LiveErased(D) == in_flight \ {d \in D : d.left >= 0}

\* The leases after those in D were settled.
Erased(D) == in_flight \ D

Ack(c, w, id) ==
  /\ Leased(w, id) # {}
  /\ in_flight' = Erased(Leased(w, id))
  /\ acked' = acked \cup {d.item : d \in Leased(w, id)}
  /\ UNCHANGED <<pending, dead_letters, next_item_id, next_delivery_id, handed>>
  /\ Committed(c)

Exhausted(d) == d.attempt >= max_deliveries

\* Deliveries in the order of their ids.
InIdOrder(D) ==
  {s \in [1..Cardinality(D) -> D] :
     /\ \A i, j \in DOMAIN s : i < j => s[i].id < s[j].id
     /\ \A d \in D : \E i \in DOMAIN s : s[i] = d}

\* fail_locked for each of the leases in D, in id order: to the tail of the
\* queue with its attempts, or to the dead letters once it had its deliveries.
FailLocked(D, reason) ==
  /\ in_flight' = Erased(D)
  /\ \E again \in InIdOrder({d \in D : ~Exhausted(d)}) :
       pending' = pending \o
         [i \in DOMAIN again |-> [item |-> again[i].item, attempts |-> again[i].attempt]]
  /\ \E gone \in InIdOrder({d \in D : Exhausted(d)}) :
       dead_letters' = dead_letters \o
         [i \in DOMAIN gone |->
            [item |-> gone[i].item, attempts |-> gone[i].attempt, reason |-> reason]]
  /\ UNCHANGED <<next_item_id, next_delivery_id, acked, handed>>

Nack(c, w, id) ==
  /\ Leased(w, id) # {}
  /\ FailLocked(Leased(w, id), "nack")
  /\ Committed(c)

\* Mutant: only leases whose item can be retried are reaped.
ExpiredRetries == {d \in in_flight : d.left < 0 /\ ~Exhausted(d)}

\* A lease is live at its deadline and expired after it.
Expired == {d \in in_flight : d.left < 0}

reap_expired(c) ==
  /\ Expired # {}
  /\ FailLocked(Expired, "expired")
  /\ Committed(c)

\* The clock that callers pass to claim and reap_expired.
Tick ==
  /\ \E d \in in_flight : d.left >= 0
  /\ in_flight' = {[d EXCEPT !.left = IF @ < 0 THEN @ ELSE @ - 1] : d \in in_flight}
  /\ UNCHANGED <<pending, dead_letters, next_item_id, next_delivery_id, acked, handed>>
  /\ UNCHANGED <<reader, workShown, workOwed>>

-----------------------------------------------------------------------------

\* A worker answers a delivery it was handed, at once or long after.
Answer(c, w) ==
  \E h \in handed : h.worker = w /\ (Ack(c, w, h.id) \/ Nack(c, w, h.id))

WorkNext ==
  \/ \E c \in Callers : PushWork(c) \/ reap_expired(c) \/ ClearReader(c)
  \/ \E c \in Callers, w \in Workers : Claim(c, w) \/ Answer(c, w)
  \/ ReadWork \/ Tick

WorkSpec == WorkInit /\ [][WorkNext]_workVars

\* Workers keep claiming, the host keeps reaping with a clock that advances,
\* threads finish their calls; nothing is assumed of the workers' answers.
WorkFairness ==
  /\ WF_workVars(\E c \in Callers, w \in Workers : Claim(c, w))
  /\ WF_workVars(\E c \in Callers : reap_expired(c))
  /\ WF_workVars(\E c \in Callers : ClearReader(c))
  /\ WF_workVars(Tick)

-----------------------------------------------------------------------------

Items == 0 .. next_item_id - 1

\* The queue's variables have their types, and only items that were pushed
\* occur in them.
WorkTypeOK ==
  /\ next_item_id \in Nat /\ next_delivery_id \in Nat
  /\ pending \in Seq([item : Items, attempts : Nat])
  /\ in_flight \subseteq [id : Nat, item : Items, worker : Workers, attempt : Nat, left : Int]
  /\ dead_letters \in Seq([item : Items, attempts : Nat, reason : {"nack", "expired"}])
  /\ acked \subseteq Items
  /\ handed \subseteq [id : Nat, item : Items, worker : Workers]

Queued(i) == {p \in DOMAIN pending : pending[p].item = i}
Leases(i) == {d \in in_flight : d.item = i}
Dead(i)   == {p \in DOMAIN dead_letters : dead_letters[p].item = i}

\* Nothing is lost and nothing is delivered to two workers at a time: through
\* retries, expiries and answers that come too late, every item pushed is
\* queued, leased, given up or finished, in exactly one of these ways, once.
ItemsConserved ==
  \A i \in Items :
    Cardinality(Queued(i)) + Cardinality(Leases(i)) + Cardinality(Dead(i))
      + (IF i \in acked THEN 1 ELSE 0) = 1

Deliveries(i) == {h \in handed : h.item = i}

\* A delivery id names one claim, a live lease is the last claim of its item
\* (so an answer to an earlier claim of it finds nothing), and attempts count
\* the claims: an item is queued after fewer than max_deliveries of them and
\* given up after exactly that many.
ClaimsCounted ==
  /\ \A g, h \in handed : g.id = h.id => g = h
  /\ \A i \in Items :
       /\ \A p \in Queued(i) : /\ pending[p].attempts = Cardinality(Deliveries(i))
                               /\ pending[p].attempts < max_deliveries
       /\ \A p \in Dead(i) : Cardinality(Deliveries(i)) = max_deliveries
       /\ \A d \in Leases(i) : /\ d.attempt = Cardinality(Deliveries(i))
                               /\ \A h \in Deliveries(i) : h.id <= d.id

\* Types, conservation and counting together: through claims, expiries,
\* answers and late answers no item is lost, doubled or delivered more often
\* than the limit allows (WorkQueueStorage).
ItemsAccounted == WorkTypeOK /\ ItemsConserved /\ ClaimsCounted

\* When no thread is between its commit and its clears, a reader that holds a
\* value holds the queue's present one.
WorkReadersCurrent ==
  workOwed = {} => workShown \in {Unread, counts_locked[reader]}

\* Every item pushed is eventually finished or given up, whatever the workers
\* answer or fail to answer.
EveryItemSettles ==
  <>[](\A i \in 0 .. next_item_id - 1 :
         i \in acked \/ \E p \in DOMAIN dead_letters : dead_letters[p].item = i)

=============================================================================
