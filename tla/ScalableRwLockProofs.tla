------------------------ MODULE ScalableRwLockProofs ------------------------
(***************************************************************************)
(* Mutual exclusion of ScalableRwLock for any number of threads and any    *)
(* pool size, as long as no two threads share a slot, and its transfer to  *)
(* the context that is built on the lock.                                  *)
(***************************************************************************)
EXTENDS ThreadSafeContext, TLAPS

\* The slot of a thread is a slot of the pool.
LEMMA SlotInPool ==
  ASSUME NEW t \in Threads
  PROVE  my_slot(t) \in Slots
  BY ThreadsAssumption, PoolAssumption DEF my_slot, Slots

\* Every step of a lock operation keeps the handshake's inductive invariant.
LEMMA LockStepKeepsInv ==
  ASSUME OwnSlots, LockInv, NEW t \in Threads,
         \/ Mark(t) \/ Enter(t) \/ SeeWriter(t) \/ BackOff(t) \/ StopSpin(t) \/ UnlockShared(t)
         \/ TakeMutex(t) \/ Raise(t) \/ Drain(t) \/ Drained(t) \/ Lower(t) \/ GiveMutex(t)
  PROVE  LockInv'
<1> USE SlotInPool, ThreadsAssumption, PoolAssumption
<1> my_slot(t) \in Slots
  OBVIOUS
<1> USE DEF LockInv, LockTypeOK, Places, Readers, Holding
<1>1. CASE Mark(t)
  <2>1. LockTypeOK'
    BY <1>1 DEF Mark
  <2>2. MarkSeen'
    BY <1>1 DEF Mark, MarkSeen, Slots
  <2>3. MutexNamesWriter'
    BY <1>1 DEF Mark, MutexNamesWriter
  <2>4. FlagCoversWriter'
    BY <1>1 DEF Mark, FlagCoversWriter
  <2>5. PassedEmpty'
    BY <1>1 DEF Mark, PassedEmpty
  <2> QED BY <2>1, <2>2, <2>3, <2>4, <2>5
<1>2. CASE Enter(t)
  <2>1. LockTypeOK'
    BY <1>2 DEF Enter
  <2>2. MarkSeen'
    BY <1>2 DEF Enter, MarkSeen
  <2>3. MutexNamesWriter'
    BY <1>2 DEF Enter, MutexNamesWriter
  <2>4. FlagCoversWriter'
    BY <1>2 DEF Enter, FlagCoversWriter
  <2>5. PassedEmpty'
    BY <1>2 DEF Enter, FlagDown, FlagCoversWriter, PassedEmpty
  <2> QED BY <2>1, <2>2, <2>3, <2>4, <2>5
<1>3. CASE SeeWriter(t)
  BY <1>3 DEF SeeWriter, MarkSeen, MutexNamesWriter, FlagCoversWriter, PassedEmpty
<1>4. CASE BackOff(t)
  <2>1. LockTypeOK'
    BY <1>4 DEF BackOff
  <2>2. MarkSeen'
    <3> SUFFICES ASSUME NEW u \in Threads, pc'[u] \in {"marked", "backing", "reading"}
                 PROVE  active'[my_slot(u)] = 1
      BY DEF MarkSeen
    <3>1. u # t
      BY <1>4 DEF BackOff
    <3>2. my_slot(u) # my_slot(t) /\ my_slot(u) \in Slots
      BY <3>1 DEF OwnSlots
    <3> QED BY <1>4, <3>1, <3>2 DEF BackOff, MarkSeen
  <2>3. MutexNamesWriter'
    BY <1>4 DEF BackOff, MutexNamesWriter
  <2>4. FlagCoversWriter'
    BY <1>4 DEF BackOff, FlagCoversWriter
  <2>5. PassedEmpty'
    BY <1>4 DEF BackOff, PassedEmpty
  <2> QED BY <2>1, <2>2, <2>3, <2>4, <2>5
<1>5. CASE StopSpin(t)
  BY <1>5 DEF StopSpin, MarkSeen, MutexNamesWriter, FlagCoversWriter, PassedEmpty
<1>6. CASE UnlockShared(t)
  <2>1. LockTypeOK'
    BY <1>6 DEF UnlockShared
  <2>2. MarkSeen'
    <3> SUFFICES ASSUME NEW u \in Threads, pc'[u] \in {"marked", "backing", "reading"}
                 PROVE  active'[my_slot(u)] = 1
      BY DEF MarkSeen
    <3>1. u # t
      BY <1>6 DEF UnlockShared
    <3>2. my_slot(u) # my_slot(t) /\ my_slot(u) \in Slots
      BY <3>1 DEF OwnSlots
    <3> QED BY <1>6, <3>1, <3>2 DEF UnlockShared, MarkSeen
  <2>3. MutexNamesWriter'
    BY <1>6 DEF UnlockShared, MutexNamesWriter
  <2>4. FlagCoversWriter'
    BY <1>6 DEF UnlockShared, FlagCoversWriter
  <2>5. PassedEmpty'
    BY <1>6 DEF UnlockShared, PassedEmpty
  <2> QED BY <2>1, <2>2, <2>3, <2>4, <2>5
<1>7. CASE TakeMutex(t)
  BY <1>7 DEF TakeMutex, MarkSeen, MutexNamesWriter, FlagCoversWriter, PassedEmpty
<1>8. CASE Raise(t)
  <2>1. LockTypeOK'
    BY <1>8 DEF Raise
  <2>2. MarkSeen' /\ MutexNamesWriter' /\ FlagCoversWriter'
    BY <1>8 DEF Raise, MarkSeen, MutexNamesWriter, FlagCoversWriter
  <2>3. PassedEmpty'
    BY <1>8 DEF Raise, MutexNamesWriter, PassedEmpty, Slots
  <2> QED BY <2>1, <2>2, <2>3
<1>9. CASE Drain(t)
  <2>1. LockTypeOK'
    BY <1>9 DEF Drain
  <2>2. MarkSeen' /\ MutexNamesWriter' /\ FlagCoversWriter'
    BY <1>9 DEF Drain, MarkSeen, MutexNamesWriter, FlagCoversWriter
  <2>3. PassedEmpty'
    \* No reader is in the slot the writer leaves behind: its mark would show.
    <3> SUFFICES ASSUME NEW u \in Threads, pc[u] = "reading"
                 PROVE  scan + 1 <= my_slot(u)
      BY <1>9 DEF Drain, PassedEmpty, MutexNamesWriter
    <3>1. scan <= my_slot(u)
      BY <1>9 DEF Drain, PassedEmpty
    <3>2. my_slot(u) # scan
      BY <1>9 DEF Drain, MarkSeen
    <3> QED BY <3>1, <3>2 DEF Slots
  <2> QED BY <2>1, <2>2, <2>3
<1>10. CASE Drained(t)
  <2>1. LockTypeOK'
    BY <1>10 DEF Drained
  <2>2. MarkSeen' /\ MutexNamesWriter' /\ FlagCoversWriter'
    BY <1>10 DEF Drained, MarkSeen, MutexNamesWriter, FlagCoversWriter
  <2>3. PassedEmpty'
    BY <1>10 DEF Drained, MutexNamesWriter, PassedEmpty, Slots
  <2> QED BY <2>1, <2>2, <2>3
<1>11. CASE Lower(t)
  BY <1>11 DEF Lower, MarkSeen, MutexNamesWriter, FlagCoversWriter, PassedEmpty
<1>12. CASE GiveMutex(t)
  BY <1>12 DEF GiveMutex, MarkSeen, MutexNamesWriter, FlagCoversWriter, PassedEmpty
<1> QED BY <1>1, <1>2, <1>3, <1>4, <1>5, <1>6, <1>7, <1>8, <1>9, <1>10, <1>11, <1>12

\* Stuttering of the lock keeps the invariant.
LEMMA LockStutterKeepsInv ==
  ASSUME LockInv, UNCHANGED lockVars
  PROVE  LockInv'
  BY DEF LockInv, LockTypeOK, MarkSeen, MutexNamesWriter, FlagCoversWriter, PassedEmpty, lockVars

\* Nobody reads and nobody writes before the first call.
LEMMA LockInvInit == LockInit => LockInv
<1> SUFFICES ASSUME LockInit PROVE LockInv
  OBVIOUS
<1> USE DEF LockInit
<1>1. LockTypeOK
  <2>1. active \in [Slots -> {0, 1}]
    OBVIOUS
  <2>2. pc \in [Threads -> Places]
    BY DEF Places
  <2>3. scan \in 0 .. kPool
    BY PoolAssumption
  <2> QED BY <2>1, <2>2, <2>3 DEF LockTypeOK
<1>2. MarkSeen /\ FlagCoversWriter /\ PassedEmpty
  BY DEF MarkSeen, FlagCoversWriter, PassedEmpty
<1>3. MutexNamesWriter
  BY ThreadsAssumption DEF MutexNamesWriter, Holding
<1> QED BY <1>1, <1>2, <1>3 DEF LockInv

\* The invariant gives mutual exclusion.
LEMMA LockInvExcludes == LockInv => MutualExclusion
  BY DEF LockInv, MutexNamesWriter, PassedEmpty, MutualExclusion, Holding

\* Lock users of any kind: as long as the live threads drew different slots, no
\* reader overlaps a writer and no two writers overlap.
THEOREM LockExcludes == OwnSlots => (LockSpec => []MutualExclusion)
<1> SUFFICES ASSUME OwnSlots PROVE LockSpec => []MutualExclusion
  OBVIOUS
<1>1. LockInit => LockInv
  BY LockInvInit
<1>2. LockInv /\ [LockNext]_lockVars => LockInv'
  BY LockStepKeepsInv, LockStutterKeepsInv DEF LockNext
<1>3. LockInv => MutualExclusion
  BY LockInvExcludes
<1> QED BY <1>1, <1>2, <1>3, PTL DEF LockSpec

-----------------------------------------------------------------------------
(* The context on top of the lock *)

\* Every step of the context is a step of the lock or leaves it alone.
LEMMA ContextUsesLock == Next => [LockNext]_lockVars
  BY DEF Next, Progress, Call, Return, ReadGuard, EndReadGuard, WriteGuard, Publish, ClearToken,
         Unlock, LockStep, LockInside, Peek, TryGetCached, Recompute, Store, Invalidate, Flush,
         CtxGet, LockNext

\* The numbers of values are natural numbers; nothing has been returned that
\* was not stored.
Numbers ==
  /\ source \in Nat /\ known \in Nat /\ known <= source
  /\ op \in [Threads -> Ops]
  /\ got \in [Threads -> Nat] /\ floor \in [Threads -> Nat]
  /\ \A t \in Threads : got[t] <= source /\ floor[t] <= source

\* The writer in the middle of its set is the one the token names, and only
\* such a writer leaves the cache out of step with the source.  A call whose
\* guard is gone is not named.
CacheInStep ==
  /\ \A t \in Threads : /\ op[t] \in {"mark", "flush"} => writer_token = t
                        /\ op[t] = "left" => writer_token # t
  /\ cached = None \/ cached = source \/ \E t \in Threads : op[t] = "mark"

ContextInv == LockInv /\ TokenNamesHolder /\ Numbers /\ CacheInStep /\ ReadsNeverGoBack

\* A context nobody has called satisfies its invariant.
LEMMA ContextInvInit == Init => ContextInv
<1> SUFFICES ASSUME Init PROVE ContextInv
  OBVIOUS
<1>1. LockInv
  BY LockInvInit DEF Init
<1>2. TokenNamesHolder /\ Numbers /\ CacheInStep /\ ReadsNeverGoBack
  BY ThreadsAssumption DEF Init, TokenNamesHolder, am_writer, Numbers, Ops, CacheInStep, ReadsNeverGoBack
<1> QED BY <1>1, <1>2 DEF ContextInv

\* The token keeps naming a thread that holds the lock.
LEMMA TokenKeeps ==
  ASSUME ContextInv, NEW t \in Threads, Call(t) \/ Progress(t)
  PROVE  TokenNamesHolder'
<1> USE ThreadsAssumption DEF ContextInv, TokenNamesHolder, am_writer, LockInv, LockTypeOK
<1>1. CASE ClearToken(t) \/ Publish(t)
  BY <1>1 DEF ClearToken, Publish, TokenCleared, lockVars
<1>2. CASE ReadGuard(t) \/ EndReadGuard(t) \/ WriteGuard(t) \/ Unlock(t) \/ LockStep(t)
  BY <1>2 DEF CacheInStep, ReadGuard, EndReadGuard, WriteGuard, Unlock, LockStep, LockInside, ctxVars, Mark, Enter,
              SeeWriter, BackOff, StopSpin, UnlockShared, TakeMutex, Raise, Drain, Drained, Lower, GiveMutex
<1>3. CASE Call(t) \/ Return(t) \/ Peek(t) \/ TryGetCached(t) \/ Recompute(t) \/ Store(t) \/ Invalidate(t) \/ Flush(t)
  BY <1>3 DEF Call, Return, Peek, TryGetCached, Recompute, Store, Invalidate, Flush, lockVars
<1> QED BY <1>1, <1>2, <1>3 DEF Progress

\* A thread inside its shared section, or one the token names that is not in
\* the middle of a set, sees a cache that is empty or in step.
LEMMA CacheCurrent ==
  ASSUME ContextInv, NEW t \in Threads, op[t] # "mark", pc[t] = "reading" \/ writer_token = t
  PROVE  cached = None \/ cached = source
<1> SUFFICES ASSUME NEW u \in Threads, op[u] = "mark" PROVE FALSE
  BY DEF ContextInv, CacheInStep
<1>1. writer_token = u /\ pc[u] = "locked"
  BY DEF ContextInv, CacheInStep, TokenNamesHolder, am_writer
<1>2. pc[t] = "reading" /\ t # u
  BY <1>1
<1> QED BY <1>1, <1>2 DEF ContextInv, LockInv, PassedEmpty

\* The context's own invariants are kept by each of its steps.
LEMMA DataKeeps ==
  ASSUME ContextInv, NEW t \in Threads, Call(t) \/ Progress(t)
  PROVE  Numbers' /\ CacheInStep' /\ ReadsNeverGoBack'
<1> USE DEF ContextInv, Numbers, CacheInStep, ReadsNeverGoBack, Ops
<1>1. CASE Call(t)
  BY <1>1 DEF Call
<1>2. CASE Return(t)
  BY <1>2 DEF Return, TheLarger
<1>3. CASE ReadGuard(t) \/ EndReadGuard(t) \/ WriteGuard(t) \/ Unlock(t) \/ LockStep(t)
  BY <1>3 DEF ReadGuard, EndReadGuard, WriteGuard, Unlock, LockStep, ctxVars
<1>4. CASE Publish(t)
  \* The lock is this thread's, so no other thread is in the middle of a set.
  <2>1. \A u \in Threads : op[u] \notin {"mark", "flush"}
    <3> SUFFICES ASSUME NEW u \in Threads, op[u] \in {"mark", "flush"} PROVE FALSE
      OBVIOUS
    <3>1. writer_token = u /\ pc[u] = "locked"
      BY DEF TokenNamesHolder, am_writer
    <3> QED BY <1>4, <3>1, LockInvExcludes DEF Publish, MutualExclusion
  <2> QED BY <1>4, <2>1 DEF Publish
<1>5. CASE ClearToken(t)
  BY <1>5, ThreadsAssumption DEF ClearToken, TokenCleared, am_writer
<1>6. CASE Peek(t)
  BY <1>6 DEF Peek
<1>7. CASE TryGetCached(t)
  BY <1>7, CacheCurrent DEF TryGetCached
<1>8. CASE Recompute(t)
  BY <1>8, CacheCurrent DEF Recompute, CtxGet, am_writer
<1>9. CASE Store(t)
  BY <1>9 DEF Store, am_writer
<1>10. CASE Invalidate(t)
  BY <1>10 DEF Invalidate
<1>11. CASE Flush(t)
  BY <1>11, CacheCurrent DEF Flush, CtxGet, am_writer
<1> QED BY <1>1, <1>2, <1>3, <1>4, <1>5, <1>6, <1>7, <1>8, <1>9, <1>10, <1>11 DEF Progress

\* A step of the context keeps its whole invariant.
LEMMA ContextInvNext ==
  ASSUME OwnSlots, ContextInv, [Next]_vars
  PROVE  ContextInv'
<1>1. CASE Next
  <2>1. LockInv'
    BY <1>1, ContextUsesLock, LockStepKeepsInv, LockStutterKeepsInv DEF ContextInv, LockNext
  <2> QED BY <1>1, <2>1, TokenKeeps, DataKeeps DEF Next, ContextInv
<1>2. CASE UNCHANGED vars
  BY <1>2, LockStutterKeepsInv
  DEF vars, ctxVars, lockVars, ContextInv, TokenNamesHolder, am_writer, Numbers, CacheInStep, ReadsNeverGoBack
<1> QED BY <1>1, <1>2

\* The context's invariant holds in every state.
LEMMA ContextInvariant == OwnSlots => (Spec => []ContextInv)
<1> SUFFICES ASSUME OwnSlots PROVE Spec => []ContextInv
  OBVIOUS
<1>1. Init => ContextInv
  BY ContextInvInit
<1>2. ContextInv /\ [Next]_vars => ContextInv'
  BY ContextInvNext
<1> QED BY <1>1, <1>2, PTL DEF Spec

\* Threads that call get and set on a shared context never overlap a write
\* with anything else, whatever their number and the pool's size.
THEOREM ContextExcludes == OwnSlots => (Spec => []MutualExclusion)
<1>1. ContextInv => MutualExclusion
  BY LockInvExcludes DEF ContextInv
<1> QED BY <1>1, ContextInvariant, PTL

\* The re-entrant fast path is taken only by the thread that holds the lock.
THEOREM ReentryIsOwned == OwnSlots => (Spec => []TokenNamesHolder)
<1>1. ContextInv => TokenNamesHolder
  BY DEF ContextInv
<1> QED BY <1>1, ContextInvariant, PTL

\* No get returns a value older than what a call finished before it began had
\* stored or seen, for any number of threads and sets.
THEOREM GetsNeverGoBack == OwnSlots => (Spec => []ReadsNeverGoBack)
<1>1. ContextInv => ReadsNeverGoBack
  BY DEF ContextInv
<1> QED BY <1>1, ContextInvariant, PTL

=============================================================================
