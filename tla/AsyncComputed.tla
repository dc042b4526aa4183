---------------------------- MODULE AsyncComputed ----------------------------
(***************************************************************************)
(* AsyncComputed<T>: one computed node whose get_async calls each run the  *)
(* closure on a thread of their own (include/lazily/async_context.hpp).    *)
(* The node is a plain struct shared by those threads and the owner, so    *)
(* every member is loaded and stored on its own and the threads interleave *)
(* between any two of those accesses.                                      *)
(*                                                                         *)
(* The closure reads one source, which the owner sets; it throws on Bad.   *)
(***************************************************************************)
EXTENDS Integers

CONSTANTS
  Flights,    \* bound: the get_async calls of a run
  Values,     \* values of the source
  Bad,        \* the value on which the closure throws
  None,       \* an empty std::optional
  Guarded     \* whether the node has an equality guard

VARIABLES
  source,     \* the source the closure reads
  value,      \* AsyncComputedNode::value
  state,      \* AsyncComputedNode::state
  revision,   \* AsyncComputedNode::revision
  at,         \* what each get_async thread does next
  local,      \* its local: the loaded revision, then the closure's result
  reads,      \* history: how many closures have read the source
  nth,        \* history: which of those reads was this thread's
  storedBy    \* history: the read behind the value the node holds

vars == <<source, value, state, revision, at, local, reads, nth, storedBy>>

States == {"Empty", "Computing", "Resolved", "Error"}

Init ==
  /\ source \in Values /\ value = None /\ state = "Empty" /\ revision = 0
  /\ at = [f \in Flights |-> "new"] /\ local = [f \in Flights |-> None]
  /\ reads = 0 /\ nth = [f \in Flights |-> 0] /\ storedBy = 0

\* AsyncSource::set by the owner.
Set(v) ==
  /\ v # source /\ source' = v
  /\ UNCHANGED <<value, state, revision, at, local, reads, nth, storedBy>>

\* AsyncComputed::clear_dependents by the owner.
ClearDependents ==
  /\ value' = None /\ state' = "Empty" /\ storedBy' = 0
  /\ UNCHANGED <<source, revision, at, local, reads, nth>>

-----------------------------------------------------------------------------
(* The thread of get_async *)

Go(f, from, to) == at[f] = from /\ at' = [at EXCEPT ![f] = to]

\* state = Computing; revision is loaded to be incremented.
Begin(f) ==
  /\ Go(f, "new", "counting")
  /\ state' = "Computing"
  /\ local' = [local EXCEPT ![f] = revision]
  /\ UNCHANGED <<source, value, revision, reads, nth, storedBy>>

Count(f) ==
  /\ Go(f, "counting", "computing")
  /\ revision' = local[f] + 1
  /\ UNCHANGED <<source, value, state, local, reads, nth, storedBy>>

\* The closure reads the source; its result waits in a local.
Compute(f) ==
  /\ source # Bad
  /\ Go(f, "computing", "storing")
  /\ local' = [local EXCEPT ![f] = source]
  /\ reads' = reads + 1 /\ nth' = [nth EXCEPT ![f] = reads + 1]
  /\ UNCHANGED <<source, value, state, revision, storedBy>>

Throw(f) ==
  /\ source = Bad
  /\ Go(f, "computing", "done")
  /\ state' = "Error"
  /\ UNCHANGED <<source, value, revision, local, reads, nth, storedBy>>

\* An equal value is suppressed; the revision is not looked at again.
Store(f) ==
  /\ Go(f, "storing", "resolving")
  /\ IF Guarded /\ value = local[f]
     THEN UNCHANGED <<value, storedBy>>
     ELSE value' = local[f] /\ storedBy' = nth[f]
  /\ UNCHANGED <<source, state, revision, local, reads, nth>>

Resolve(f) ==
  /\ Go(f, "resolving", "done")
  /\ state' = "Resolved"
  /\ UNCHANGED <<source, value, revision, local, reads, nth, storedBy>>

Next ==
  \/ \E v \in Values : Set(v)
  \/ ClearDependents
  \/ \E f \in Flights : Begin(f) \/ Count(f) \/ Compute(f) \/ Throw(f) \/ Store(f) \/ Resolve(f)

Spec == Init /\ [][Next]_vars

-----------------------------------------------------------------------------

\* Stale-completion discard: the completion of a run that read the source
\* earlier never replaces the value of a run that read it later.
StaleCompletionDiscarded ==
  [][storedBy' # 0 => storedBy' >= storedBy]_vars

=============================================================================
