------------------------- MODULE LatestDurableShell -------------------------
(***************************************************************************)
(* BasicLatestDurableProjection over a ThreadSafeContext: the reactive     *)
(* shell around the core (include/lazily/latest_durable_projection.hpp).   *)
(*                                                                         *)
(* A mutation commits under core_mutex, looks its reader up under          *)
(* reader_mutex, and clears the reader's cached entry under the lock of    *)
(* the graph: three critical sections, between which other threads run.    *)
(* A read that misses its cache takes the graph lock, and inside it        *)
(* core_mutex for the snapshot it will cache.                              *)
(***************************************************************************)
EXTENDS LatestDurableProjection

CONSTANTS Threads

ASSUME ThreadsAssumption == None \notin Threads

(* One reader per key, and the reader of the generation. *)
Generation == "generation"
Readers == Keys \cup {Generation}

VARIABLES
  readers,  \* ProjectionInner::readers, and the generation reader
  cache,    \* the cached value of each reader's computed cell
  graph,    \* owner of the ThreadSafeContext lock
  at        \* what each thread has left to do

shell == <<readers, cache, graph, at>>
allVars == <<vars, shell>>

Idle == [do |-> "idle", of |-> {}, saw |-> None]
(* snapshot(key), and generation(). *)
Shown(r) == IF r = Generation THEN <<generation>> ELSE <<desired[r], inflight[r], through[r]>>

ShellInit ==
  /\ Init
  /\ readers = {Generation} /\ cache = [r \in Readers |-> None]
  /\ graph = None /\ at = [t \in Threads |-> Idle]

(* mutate and reconnect up to the unlock of core_mutex: what changed. *)
Mutate(t) ==
  /\ at[t] = Idle /\ CoreStep
  /\ at' = [at EXCEPT ![t] = [Idle EXCEPT !.do = "changed", !.of = {r \in Readers : Shown(r)' # Shown(r)}]]
  /\ UNCHANGED <<readers, cache, graph>>

(* Under reader_mutex: the readers to clear. *)
Lookup(t) ==
  /\ at[t].do = "changed"
  /\ at' = [at EXCEPT ![t] = IF at[t].of \cap readers = {} THEN Idle
                             ELSE [Idle EXCEPT !.do = "roots", !.of = at[t].of \cap readers]]
  /\ UNCHANGED <<vars, readers, cache, graph>>

(* invalidate: batch and clear_slot, under the lock of the graph. *)
GraphUnlocked == TRUE
GraphFree == graph = None
Invalidate(t) ==
  /\ at[t].do = "roots" /\ GraphFree
  /\ cache' = [r \in Readers |-> IF r \in at[t].of THEN None ELSE cache[r]]
  /\ at' = [at EXCEPT ![t] = Idle]
  /\ UNCHANGED <<vars, readers, graph>>

(* entry_handle: the reader of a key is created on first use.  The code     *)
(* makes the node between two sections under reader_mutex, and without the *)
(* lock of the graph it makes it in.  A node nobody has a handle of shows  *)
(* nothing, and the first emplaced one stays, so it is one step here, and  *)
(* the allocation is taken to be as safe as if the lock were held.         *)
EntryHandle(k) ==
  /\ k \notin readers /\ readers' = readers \cup {k}
  /\ UNCHANGED <<vars, cache, graph, at>>

(* entry / generation on a reader without a cached value: the closure's    *)
(* snapshot under core_mutex, then the store, both under the graph lock.   *)
BeginRead(t, r) ==
  /\ at[t] = Idle /\ r \in readers /\ cache[r] = None /\ graph = None
  /\ graph' = t
  /\ at' = [at EXCEPT ![t] = [do |-> "store", of |-> {r}, saw |-> Shown(r)]]
  /\ UNCHANGED <<vars, readers, cache>>
EndRead(t) ==
  /\ at[t].do = "store"
  /\ cache' = [r \in Readers |-> IF r \in at[t].of THEN at[t].saw ELSE cache[r]]
  /\ graph' = None /\ at' = [at EXCEPT ![t] = Idle]
  /\ UNCHANGED <<vars, readers>>

Finish(t) == Lookup(t) \/ Invalidate(t) \/ EndRead(t)
ShellNext ==
  \/ \E t \in Threads : Mutate(t) \/ Finish(t) \/ \E r \in Readers : BeginRead(t, r)
  \/ \E k \in Keys : EntryHandle(k)
  \/ SinkStep /\ UNCHANGED shell
ShellSpec == ShellInit /\ [][ShellNext]_allVars

(* Threads finish what they began; the application's per-key lane claims   *)
(* what is pending and the sink applies and answers what it is sent often  *)
(* enough.                                                                 *)
OnSomeThread(A) == \E t \in Threads :
  /\ at[t] = Idle /\ A
  /\ at' = [at EXCEPT ![t] = [Idle EXCEPT !.do = "changed", !.of = {r \in Readers : Shown(r)' # Shown(r)}]]
  /\ UNCHANGED <<readers, cache, graph>>
Fairness ==
  /\ \A t \in Threads : SF_allVars(Finish(t))
  /\ \A k \in Keys : SF_allVars(OnSomeThread(Claim(k, generation)))
  /\ SF_allVars(SinkStep /\ UNCHANGED shell)
  /\ \A k \in Keys : SF_allVars(OnSomeThread(\E a \in attempts : a.key = k /\ DeliverAck(a)))
FairShellSpec == ShellSpec /\ Fairness

(* At rest a cached entry shows the core: once every mutation has finished  *)
(* its invalidation, no reader is left on a value computed before it,       *)
(* however reads and mutations interleaved.                                 *)
CachesShowCore ==
  (\A t \in Threads : at[t] = Idle) =>
    \A r \in Readers : cache[r] # None => cache[r] = Shown(r)
=============================================================================
