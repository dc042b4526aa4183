----------------------------- MODULE QueueCell -----------------------------
(***************************************************************************)
(* BasicQueueCell over a bounded VecDequeStorage (queue.hpp).  A mutation  *)
(* commits under inner_->mutex, decides from the lengths before and after  *)
(* it which of the memoised readers changed, and clears those later, in a  *)
(* batch of the owner context.  The readers do not influence each other,   *)
(* so a behaviour follows one of them.                                     *)
(*                                                                         *)
(* close does not batch: it sets the closed source on the graph that a     *)
(* ThreadSafeContext guards without taking its lock.  What that can do to  *)
(* the graph itself is not told here, where the set is one atomic step.    *)
(***************************************************************************)
EXTENDS Integers, Sequences

CONSTANTS
  QueueThreads,    \* threads that push, pop and close
  queue_capacity,  \* capacity_
  MaxPushes,       \* bound: elements pushed
  Uncached         \* a memoised reader that holds no value

ASSUME QueueCellAssumption == queue_capacity \in Nat /\ MaxPushes \in Nat

VARIABLES
  elements,     \* elements_: the numbers of the pushes, oldest first
  closed_,
  pushes,       \* elements pushed so far
  queueReader,  \* the reader this behaviour follows
  queueShown,   \* what it holds
  queueOwed     \* threads that committed a change of it and have not cleared it

queueVars == <<elements, closed_, pushes, queueReader, queueShown, queueOwed>>

QueueReaders == {"head", "len", "is_empty", "is_full", "closed"}

QueueInit ==
  /\ elements = << >> /\ closed_ = FALSE /\ pushes = 0 /\ queueOwed = {}
  /\ queueReader \in QueueReaders
  /\ queueShown = IF queueReader = "closed" THEN FALSE ELSE Uncached

-----------------------------------------------------------------------------

\* What each reader shows of a storage; the head of an empty one is nullopt.
Shows(e, c) ==
  [head |-> IF e = << >> THEN 0 ELSE e[1], len |-> Len(e), is_empty |-> e = << >>,
   is_full |-> Len(e) >= queue_capacity, closed |-> c]

\* Mutant: fullness is only looked at when the queue fills.
ClearedOnFill(before, after, head_changed) ==
  [head |-> head_changed, len |-> TRUE, is_empty |-> (before = 0) # (after = 0),
   is_full |-> after >= queue_capacity, closed |-> FALSE]

\* invalidate_readers: the readers a change of length clears.
invalidate_readers(before, after, head_changed) ==
  [head |-> head_changed, len |-> TRUE, is_empty |-> (before = 0) # (after = 0),
   is_full |-> (before >= queue_capacity) # (after >= queue_capacity), closed |-> FALSE]

Owes(t, clears) ==
  /\ t \notin queueOwed
  /\ queueOwed' = IF clears[queueReader] THEN queueOwed \cup {t} ELSE queueOwed
  /\ UNCHANGED <<queueReader, queueShown>>

TryPush(t) ==
  /\ ~closed_ /\ Len(elements) < queue_capacity
  /\ pushes < MaxPushes /\ pushes' = pushes + 1
  /\ elements' = Append(elements, pushes')
  /\ Owes(t, invalidate_readers(Len(elements), Len(elements) + 1, elements = << >>))
  /\ UNCHANGED closed_

TryPop(t) ==
  /\ elements # << >>
  /\ elements' = Tail(elements)
  /\ Owes(t, invalidate_readers(Len(elements), Len(elements) - 1, TRUE))
  /\ UNCHANGED <<closed_, pushes>>

Close(t) ==
  /\ ~closed_ /\ closed_' = TRUE
  /\ Owes(t, [r \in QueueReaders |-> r = "closed"])
  /\ UNCHANGED <<elements, pushes>>

\* The batch of clears; closed is a source and is set instead.
ClearQueueReaders(t) ==
  /\ t \in queueOwed /\ queueOwed' = queueOwed \ {t}
  /\ queueShown' = IF queueReader = "closed" THEN TRUE ELSE Uncached
  /\ UNCHANGED <<elements, closed_, pushes, queueReader>>

\* head, len, is_empty, is_full.
ReadQueue ==
  /\ queueShown = Uncached
  /\ queueShown' = Shows(elements, closed_)[queueReader]
  /\ UNCHANGED <<elements, closed_, pushes, queueReader, queueOwed>>

QueueNext ==
  \/ \E t \in QueueThreads : TryPush(t) \/ TryPop(t) \/ Close(t) \/ ClearQueueReaders(t)
  \/ ReadQueue

QueueSpec == QueueInit /\ [][QueueNext]_queueVars

-----------------------------------------------------------------------------

\* The variables have their types and the storage its bound.
QueueTypeOK ==
  /\ elements \in Seq(1 .. MaxPushes) /\ Len(elements) <= queue_capacity
  /\ closed_ \in BOOLEAN /\ pushes \in 0 .. MaxPushes
  /\ queueReader \in QueueReaders /\ queueOwed \subseteq QueueThreads

\* Clearing only what the lengths say changed is enough: once every thread has
\* finished its call, a reader that holds a value holds what the storage would
\* give now, whichever reads came between the commits and the clears.
QueueReadersCurrent ==
  queueOwed = {} => queueShown \in {Uncached, Shows(elements, closed_)[queueReader]}

=============================================================================
