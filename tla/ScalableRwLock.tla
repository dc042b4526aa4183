--------------------------- MODULE ScalableRwLock ---------------------------
(***************************************************************************)
(* The reader-scalable read/write lock of thread_safe.hpp.  A reader marks *)
(* its own slot and then looks at the writer flag; a writer raises the     *)
(* flag and then walks the slots, waiting for each to be clear.  All four  *)
(* coordination operations are seq_cst, so the interleaving of single      *)
(* loads and stores below is the order the hardware gives them.            *)
(*                                                                         *)
(* A thread is the number it drew from the process-wide slot counter: the  *)
(* counter is never given back, so Threads is the set of those of its      *)
(* numbers whose threads are alive.                                        *)
(***************************************************************************)
EXTENDS Integers

CONSTANTS
  Threads,   \* numbers drawn from my_slot's counter by the live threads
  kPool,     \* slots of the pool (128 in the code)
  NoThread   \* writer_mx_ has no owner

ASSUME ThreadsAssumption == Threads \subseteq Nat /\ NoThread \notin Threads
ASSUME PoolAssumption == kPool \in Nat \ {0}

VARIABLES
  active,          \* readers_[s].active
  writer_waiting,  \* writer_waiting_
  writer_mx,       \* owner of writer_mx_, or NoThread
  scan,            \* slot the draining writer looks at (i of lock())
  pc               \* where each thread is inside the lock's four operations

lockVars == <<active, writer_waiting, writer_mx, scan, pc>>

Slots == 0 .. kPool - 1

my_slot(t) == t % kPool

\* Whether every thread has a slot of its own: true until kPool + 1 threads of
\* the process have touched a lock of this kind.
OwnSlots == \A t, u \in Threads : t # u => my_slot(t) # my_slot(u)

\* idle, then marked (active stored, flag not yet read), backing (flag seen,
\* active not yet cleared), spinning (waiting for the flag to drop), retrying
\* (seen down, active not yet stored again), reading; or raising (mutex held,
\* flag not yet stored), draining, locked, and unlocking (flag cleared, mutex
\* still held).
Readers == {"marked", "backing", "spinning", "retrying", "reading"}
Holding == {"raising", "draining", "locked", "unlocking"}
Places == {"idle"} \cup Readers \cup Holding

LockInit ==
  /\ active = [s \in Slots |-> 0]
  /\ writer_waiting = FALSE
  /\ writer_mx = NoThread
  /\ scan = 0
  /\ pc = [t \in Threads |-> "idle"]

-----------------------------------------------------------------------------
(* lock_shared, unlock_shared *)

\* Mutant: the flag is not looked at.
FlagIgnored == TRUE

\* A reader's last look before entering: the flag is down.
FlagDown == ~writer_waiting

Mark(t) ==
  /\ pc[t] \in {"idle", "retrying"}
  /\ active' = [active EXCEPT ![my_slot(t)] = 1]
  /\ pc' = [pc EXCEPT ![t] = "marked"]
  /\ UNCHANGED <<writer_waiting, writer_mx, scan>>

Enter(t) ==
  /\ pc[t] = "marked" /\ FlagDown
  /\ pc' = [pc EXCEPT ![t] = "reading"]
  /\ UNCHANGED <<active, writer_waiting, writer_mx, scan>>

SeeWriter(t) ==
  /\ pc[t] = "marked" /\ writer_waiting
  /\ pc' = [pc EXCEPT ![t] = "backing"]
  /\ UNCHANGED <<active, writer_waiting, writer_mx, scan>>

\* Mutant: the reader keeps its slot marked while it waits for the writer.
BackOffMarked(t) ==
  /\ pc[t] = "backing"
  /\ pc' = [pc EXCEPT ![t] = "spinning"]
  /\ UNCHANGED <<active, writer_waiting, writer_mx, scan>>

\* The slot is given up before the wait for the writer.
BackOff(t) ==
  /\ pc[t] = "backing"
  /\ active' = [active EXCEPT ![my_slot(t)] = 0]
  /\ pc' = [pc EXCEPT ![t] = "spinning"]
  /\ UNCHANGED <<writer_waiting, writer_mx, scan>>

\* The flag is seen down; the slot is marked again only in the next step.
StopSpin(t) ==
  /\ pc[t] = "spinning" /\ ~writer_waiting
  /\ pc' = [pc EXCEPT ![t] = "retrying"]
  /\ UNCHANGED <<active, writer_waiting, writer_mx, scan>>

UnlockShared(t) ==
  /\ pc[t] = "reading"
  /\ active' = [active EXCEPT ![my_slot(t)] = 0]
  /\ pc' = [pc EXCEPT ![t] = "idle"]
  /\ UNCHANGED <<writer_waiting, writer_mx, scan>>

-----------------------------------------------------------------------------
(* lock, unlock *)

TakeMutex(t) ==
  /\ pc[t] = "idle" /\ writer_mx = NoThread
  /\ writer_mx' = t
  /\ pc' = [pc EXCEPT ![t] = "raising"]
  /\ UNCHANGED <<active, writer_waiting, scan>>

Raise(t) ==
  /\ pc[t] = "raising"
  /\ writer_waiting' = TRUE
  /\ scan' = 0
  /\ pc' = [pc EXCEPT ![t] = "draining"]
  /\ UNCHANGED <<active, writer_mx>>

Drain(t) ==
  /\ pc[t] = "draining" /\ scan < kPool /\ active[scan] = 0
  /\ scan' = scan + 1
  /\ UNCHANGED <<active, writer_waiting, writer_mx, pc>>

Drained(t) ==
  /\ pc[t] = "draining" /\ scan = kPool
  /\ pc' = [pc EXCEPT ![t] = "locked"]
  /\ UNCHANGED <<active, writer_waiting, writer_mx, scan>>

Lower(t) ==
  /\ pc[t] = "locked"
  /\ writer_waiting' = FALSE
  /\ pc' = [pc EXCEPT ![t] = "unlocking"]
  /\ UNCHANGED <<active, writer_mx, scan>>

GiveMutex(t) ==
  /\ pc[t] = "unlocking"
  /\ writer_mx' = NoThread
  /\ pc' = [pc EXCEPT ![t] = "idle"]
  /\ UNCHANGED <<active, writer_waiting, scan>>

-----------------------------------------------------------------------------

\* The steps inside a lock operation that has begun.
LockInside(t) ==
  Enter(t) \/ SeeWriter(t) \/ BackOff(t) \/ StopSpin(t) \/ (pc[t] = "retrying" /\ Mark(t))
  \/ Raise(t) \/ Drain(t) \/ Drained(t) \/ GiveMutex(t)

LockNext ==
  \E t \in Threads :
    \/ Mark(t) \/ Enter(t) \/ SeeWriter(t) \/ BackOff(t) \/ StopSpin(t) \/ UnlockShared(t)
    \/ TakeMutex(t) \/ Raise(t) \/ Drain(t) \/ Drained(t) \/ Lower(t) \/ GiveMutex(t)

LockSpec == LockInit /\ [][LockNext]_lockVars

-----------------------------------------------------------------------------

\* The lock's variables have their types.
LockTypeOK ==
  /\ active \in [Slots -> {0, 1}]
  /\ writer_waiting \in BOOLEAN
  /\ writer_mx \in Threads \cup {NoThread}
  /\ scan \in 0 .. kPool
  /\ pc \in [Threads -> Places]

\* The two-phase handshake: while a thread is between lock() returning and
\* unlock(), no reader is inside its critical section and no other thread is
\* between lock() and unlock().
MutualExclusion ==
  \A t, u \in Threads :
    t # u /\ pc[t] = "locked" => pc[u] \notin {"reading", "locked"}

\* The strengthening that is inductive when every thread has its own slot: a
\* reader from its store of active to its clearing of it is seen in its slot,
\* the mutex names the one writer, the flag is up from the drain to unlock(),
\* and a draining writer has no reader in the slots it has passed.
MarkSeen == \A t \in Threads : pc[t] \in {"marked", "backing", "reading"} => active[my_slot(t)] = 1
MutexNamesWriter == \A t \in Threads : pc[t] \in Holding <=> writer_mx = t
FlagCoversWriter == \A t \in Threads : pc[t] \in {"draining", "locked"} => writer_waiting
PassedEmpty ==
  \A t, u \in Threads :
    /\ pc[t] = "draining" /\ pc[u] = "reading" => scan <= my_slot(u)
    /\ pc[t] = "locked" => pc[u] # "reading"

LockInv == LockTypeOK /\ MarkSeen /\ MutexNamesWriter /\ FlagCoversWriter /\ PassedEmpty

=============================================================================
