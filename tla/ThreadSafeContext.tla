-------------------------- MODULE ThreadSafeContext --------------------------
(***************************************************************************)
(* BasicThreadSafeContext<ScalableRwLockPolicy>: several threads call      *)
(* get(Source), get(Computed) and set on one reactive context behind the   *)
(* lock of ScalableRwLock.  The context is reduced to what its locking     *)
(* must protect: one source, whose values are numbered in the order they   *)
(* are stored, and one computed node that caches a number.  A set stores   *)
(* the value, invalidates the cache, then runs an effect that calls get on *)
(* the same context from inside the write.                                 *)
(***************************************************************************)
EXTENDS ScalableRwLock, FiniteSets

CONSTANTS
  None,         \* the computed node has no valid cached value
  MaxVersion    \* bound: sets performed

VARIABLES
  source,        \* number of the source's current value
  cached,        \* number the computed node caches, or None
  writer_token,  \* writer_token_: the thread inside a write, or NoThread
  op,            \* what each thread's current call does next
  got,           \* value the current call will return
  floor,         \* greatest number any finished call had stored or returned
                 \*   when this thread's call began
  known          \* greatest number any finished call has stored or returned

ctxVars == <<source, cached, writer_token, op, got, floor, known>>
vars == <<lockVars, ctxVars>>

\* peek: get(Source) before its read; get: get(Computed) before its cached
\* read; miss: get(Computed) that found no cached value; set, mark, flush: the
\* three parts of a set; done: the call has its result; left: its write guard
\* has cleared the token.
Ops == {"none", "peek", "get", "miss", "set", "mark", "flush", "done", "left"}

Versions == 0 .. MaxVersion

TheLarger(a, b) == IF a < b THEN b ELSE a

Init ==
  /\ LockInit
  /\ source = 0 /\ cached = None
  /\ writer_token = NoThread
  /\ op = [t \in Threads |-> "none"]
  /\ got = [t \in Threads |-> 0]
  /\ floor = [t \in Threads |-> 0]
  /\ known = 0

\* Mutant: a thread does not recognise itself as the writer.
NeverWriter(t) == FALSE

am_writer(t) == writer_token = t

\* Mutant: the guard leaves its token behind.
TokenKept == writer_token

TokenCleared == NoThread

-----------------------------------------------------------------------------
(* Calls and returns *)

Call(t) ==
  /\ pc[t] = "idle" /\ op[t] = "none"
  /\ \E o \in {"peek", "get", "set"} :
       /\ o = "set" => source + Cardinality({u \in Threads : op[u] = "set"}) < MaxVersion
       /\ op' = [op EXCEPT ![t] = o]
  /\ floor' = [floor EXCEPT ![t] = known]
  /\ UNCHANGED <<lockVars, source, cached, writer_token, got, known>>

Return(t) ==
  /\ pc[t] = "idle" /\ op[t] \in {"done", "left"}
  /\ op' = [op EXCEPT ![t] = "none"]
  /\ known' = TheLarger(known, got[t])
  /\ got' = [got EXCEPT ![t] = 0] /\ floor' = [floor EXCEPT ![t] = 0]
  /\ UNCHANGED <<lockVars, source, cached, writer_token>>

-----------------------------------------------------------------------------
(* The guards *)

\* read_guard of a call that has not yet read.
ReadGuard(t) ==
  /\ op[t] \in {"peek", "get"} /\ pc[t] = "idle" /\ ~am_writer(t)
  /\ Mark(t)
  /\ UNCHANGED ctxVars

EndReadGuard(t) ==
  /\ op[t] \in {"done", "miss"}
  /\ UnlockShared(t)
  /\ UNCHANGED ctxVars

\* write_guard of a set, or of a get that missed.
WriteGuard(t) ==
  /\ op[t] \in {"set", "miss"} /\ ~am_writer(t)
  /\ TakeMutex(t)
  /\ UNCHANGED ctxVars

Publish(t) ==
  /\ pc[t] = "locked" /\ op[t] \in {"set", "miss"} /\ writer_token # t
  /\ writer_token' = t
  /\ UNCHANGED <<lockVars, source, cached, op, got, floor, known>>

\* ~write_guard: the token is cleared in the destructor's body, the lock
\* released when its member is destroyed.
ClearToken(t) ==
  /\ pc[t] = "locked" /\ op[t] = "done" /\ am_writer(t)
  /\ writer_token' = TokenCleared
  /\ op' = [op EXCEPT ![t] = "left"]
  /\ UNCHANGED <<lockVars, source, cached, got, floor, known>>

Unlock(t) ==
  /\ op[t] = "left"
  /\ Lower(t)
  /\ UNCHANGED ctxVars

\* The remaining steps inside the lock's own loops.
LockStep(t) == LockInside(t) /\ UNCHANGED ctxVars

-----------------------------------------------------------------------------
(* What runs under the guards *)

\* peek_cell under the read guard (or as the writer).
Peek(t) ==
  /\ op[t] = "peek" /\ (pc[t] = "reading" \/ am_writer(t))
  /\ got' = [got EXCEPT ![t] = source]
  /\ op' = [op EXCEPT ![t] = "done"]
  /\ UNCHANGED <<lockVars, source, cached, writer_token, floor, known>>

\* try_get_cached under the read guard.
TryGetCached(t) ==
  /\ op[t] = "get" /\ pc[t] = "reading"
  /\ IF cached # None
     THEN /\ got' = [got EXCEPT ![t] = cached]
          /\ op' = [op EXCEPT ![t] = "done"]
     ELSE /\ op' = [op EXCEPT ![t] = "miss"]
          /\ UNCHANGED got
  /\ UNCHANGED <<lockVars, source, cached, writer_token, floor, known>>

\* Context::get(Computed): the cached value, recomputed if there is none.  The
\* node is looked at again under the write guard.
CtxGet(t) ==
  LET v == IF cached # None THEN cached ELSE source
  IN  cached' = v /\ got' = [got EXCEPT ![t] = v]

\* The slow path of get, after its miss.
Recompute(t) ==
  /\ op[t] = "miss" /\ am_writer(t)
  /\ CtxGet(t)
  /\ op' = [op EXCEPT ![t] = "done"]
  /\ UNCHANGED <<lockVars, source, writer_token, floor, known>>

Store(t) ==
  /\ op[t] = "set" /\ am_writer(t)
  /\ source' = source + 1
  /\ op' = [op EXCEPT ![t] = "mark"]
  /\ UNCHANGED <<lockVars, cached, writer_token, got, floor, known>>

\* Mutant: the value is stored but the computed node keeps its cache.
InvalidateForgotten(t) ==
  /\ op[t] = "mark"
  /\ op' = [op EXCEPT ![t] = "flush"]
  /\ UNCHANGED <<lockVars, source, cached, writer_token, got, floor, known>>

Invalidate(t) ==
  /\ op[t] = "mark"
  /\ cached' = None
  /\ op' = [op EXCEPT ![t] = "flush"]
  /\ UNCHANGED <<lockVars, source, writer_token, got, floor, known>>

\* The flush runs an effect that calls get on this context: the owner goes
\* straight to the graph.  A thread that did not know itself for the writer
\* would wait here for the flag it raised itself.
Flush(t) ==
  /\ op[t] = "flush" /\ am_writer(t)
  /\ CtxGet(t)
  /\ op' = [op EXCEPT ![t] = "done"]
  /\ UNCHANGED <<lockVars, source, writer_token, floor, known>>

-----------------------------------------------------------------------------

\* Steps of a call that has begun.
Progress(t) ==
  \/ Return(t) \/ ReadGuard(t) \/ EndReadGuard(t) \/ WriteGuard(t) \/ Publish(t)
  \/ ClearToken(t) \/ Unlock(t) \/ LockStep(t) \/ Peek(t) \/ TryGetCached(t)
  \/ Recompute(t) \/ Store(t) \/ Invalidate(t) \/ Flush(t)

Next == \E t \in Threads : Call(t) \/ Progress(t)

Spec == Init /\ [][Next]_vars

\* Every runnable thread is eventually scheduled, and writer_mx_ is eventually
\* given to a thread that waits for it whenever it keeps being released.
FairSpec ==
  /\ Spec
  /\ \A t \in Threads : WF_vars(Progress(t)) /\ SF_vars(WriteGuard(t))

-----------------------------------------------------------------------------

TypeOK ==
  /\ LockTypeOK
  /\ source \in Versions /\ cached \in Versions \cup {None}
  /\ writer_token \in Threads \cup {NoThread}
  /\ op \in [Threads -> Ops]
  /\ got \in [Threads -> Versions] /\ floor \in [Threads -> Versions]
  /\ known \in Versions

\* am_writer() bypasses the lock, so the token may name a thread only while
\* that thread holds the lock exclusively.
TokenNamesHolder ==
  \A t \in Threads : am_writer(t) => pc[t] = "locked"

\* A call returns no value older than one that a call finished before it began
\* had stored or returned: the cache read under the shared lock and the second
\* look after the upgrade never go back in time.
ReadsNeverGoBack ==
  \A t \in Threads : op[t] \in {"done", "left"} => got[t] >= floor[t]

\* A writer that has raised its flag gets the lock: a reader arriving after it
\* backs off, and clears its slot before it waits.
DrainEnds ==
  \A t \in Threads : pc[t] = "draining" ~> pc[t] = "locked"

\* A call on the context returns, effects that call back into it included.
\* Only finitely many sets happen, so no reader is overtaken for ever.
CallsReturn ==
  \A t \in Threads : op[t] # "none" ~> op[t] = "none"

=============================================================================
