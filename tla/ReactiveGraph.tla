--------------------------- MODULE ReactiveGraph ---------------------------
(***************************************************************************)
(* The reactive graph engine of lazily: ContextImpl, its node arena, its   *)
(* lazy refresh / recompute, its invalidation walk and its effect          *)
(* scheduler (include/lazily/context.hpp).                                 *)
(*                                                                         *)
(* The engine is sequential but re-entrant: a read recurses into           *)
(* refreshes, a refresh runs user closures, an effect closure may write,   *)
(* create and dispose nodes while the flush that runs it is half done, and *)
(* any closure may throw.  The C++ call stack is therefore part of the     *)
(* state: `stack' holds one frame per engine activation that is waiting    *)
(* for user code, and everything between two pieces of user code is one    *)
(* atomic step.                                                            *)
(*                                                                         *)
(* The application is a parameter.  Plan lists the nodes the program       *)
(* creates, in order; Body(k, log) is the next operation of the closure of *)
(* node k when `log' are the results of the operations it has done so far. *)
(* A closure names other nodes by their position in Plan, that is by the   *)
(* handle the program was given for them.                                  *)
(***************************************************************************)
EXTENDS Integers, Sequences, FiniteSets

CONSTANTS
  Plan,        \* sequence of [kind, init] records: the nodes to create
  Body(_, _),  \* Body(k, log): the next operation of the closure of node k
  Same(_, _, _), \* Same(k, old, new): k's guard suppresses the ripple
  HostMay,     \* the operations the program issues outside closures
  Values,      \* values of cells and computed cells
  None,        \* "no value", "no handle"
  Setup,       \* how many nodes the program creates before anything else
  MaxId,       \* bound: size of the arena
  MaxGen,      \* bound: occupants of one arena entry
  MaxBatch,    \* bound: nesting depth of batches
  MaxLog       \* bound: operations of one closure run

Items == 1..Len(Plan)
Ids   == 0..(MaxId - 1)
(* The puller attached to computed cell k by make_eager is an effect whose *)
(* closure reads k; it is numbered after the nodes of the plan.            *)
Puller(k) == Len(Plan) + k
Codes == 1..(2 * Len(Plan))
Kinds == {"cell", "slot", "effect"}

Ops == [do : {"get", "dispose"}, of : Items]
         \cup [do : {"set"}, of : Items, to : Values]
         \cup [do : {"return"}, to : Values]
         \cup [do : {"make", "throw", "dispose_self"}]
Logs == UNION {[1..n -> Values \cup {None}] : n \in 0..MaxLog}

ASSUME PlanAssumption ==
  /\ Plan \in Seq([kind : Kinds, init : Values])
  /\ Setup \in Nat /\ MaxId \in Nat \ {0} /\ MaxGen \in Nat /\ MaxBatch \in Nat /\ MaxLog \in Nat
  /\ None \notin Values

ASSUME BodyAssumption ==
  /\ \A k \in Items : \A log \in Logs : Body(k, log) \in Ops
  /\ \A k \in Items : \A old, new \in Values : Same(k, old, new) \in BOOLEAN

VARIABLES
  kind,       \* nodes_: the variant alternative of each arena entry
  code,       \* whose closure the entry holds (0 when empty)
  val,        \* cached or stored value
  dirty,      \* SlotNode::dirty
  force,      \* SlotNode::force_recompute / EffectNode::force_run
  busy,       \* SlotNode::in_progress
  eager,      \* SlotNode::eager
  eagerBy,    \* eager_by_: puller handle per computed cell id
  armed,      \* EffectNode::cleanup: which closure's cleanup is stored
  deps,       \* forward edges
  dpts,       \* reverse edges
  gen,        \* generations_
  free,       \* free_ids_
  nextId,     \* next_id_
  pending,    \* pending_effects_
  scheduled,  \* effect_scheduled_
  flushing,   \* flushing_effects_
  batchDepth, \* batch_depth_
  batched,    \* batched_cells_, batched_cell_clears_, batched_slots_
  stack,      \* activations of the engine, innermost first; << >>: terminated
  made,       \* the handles the program holds
  nmade,      \* how much of Plan has been created
  seen        \* history: log of the last completed run of each effect closure

arena   == <<kind, code, gen, free, nextId>>
flags   == <<val, dirty, force, busy>>
eagers  == <<eager, eagerBy>>
edges   == <<deps, dpts>>
sched   == <<pending, scheduled, flushing>>
batches == <<batchDepth, batched>>
handles == <<made, nmade>>
vars == <<arena, flags, eagers, armed, edges, sched, batches, stack, handles, seen>>

Handle == [id : Ids, gen : Nat]
ASSUME NoneAssumption == None \notin Handle
Frame == [op : {"host", "flush", "should", "effect", "refresh", "compute", "made", "attach"},
          id : Ids, gen : Nat, code : Codes \cup {0}, log : Logs,
          todo : SUBSET Ids, chg : BOOLEAN, pulled : BOOLEAN, due : BOOLEAN]

Host == [op |-> "host", id |-> 0, gen |-> 0, code |-> 0, log |-> << >>,
         todo |-> {}, chg |-> FALSE, pulled |-> FALSE, due |-> FALSE]
(* An activation of the engine on arena entry i. *)
Activation(op, i) == [Host EXCEPT !.op = op, !.id = i, !.gen = gen[i], !.code = code[i]]
Push(f, s) == <<f>> \o s
Top  == Head(stack)
Rest == Tail(stack)

Init ==
  /\ kind = [i \in Ids |-> "empty"]     /\ code = [i \in Ids |-> 0]
  /\ val = [i \in Ids |-> None]         /\ dirty = [i \in Ids |-> FALSE]
  /\ force = [i \in Ids |-> FALSE]      /\ busy = [i \in Ids |-> FALSE]
  /\ eager = [i \in Ids |-> FALSE]      /\ eagerBy = [i \in Ids |-> None]
  /\ armed = [i \in Ids |-> 0]
  /\ deps = [i \in Ids |-> {}]          /\ dpts = [i \in Ids |-> {}]
  /\ gen = [i \in Ids |-> 0]            /\ free = << >>      /\ nextId = 0
  /\ pending = << >> /\ scheduled = {}  /\ flushing = FALSE
  /\ batchDepth = 0  /\ batched = [cells |-> {}, clears |-> {}, slots |-> {}]
  /\ stack = <<Host>>
  /\ made = [k \in Items |-> None]      /\ nmade = 0
  /\ seen = [c \in Codes |-> None]

----------------------------------------------------------------------------
(* Invalidation walks.                                                     *)

IsSlot(i) == kind[i] = "slot"
(* The fast path of refresh_slot: a cache hit needs no walk. *)
Clean(i) == IsSlot(i) /\ val[i] # None /\ ~dirty[i] /\ ~force[i]

(* What a walk from `roots' visits when it goes on below the nodes in `thru'. *)
Visited(roots, thru) ==
  {n \in Ids : \A S \in SUBSET Ids :
     (roots \subseteq S /\ \A m \in S \cap thru : dpts[m] \subseteq S) => n \in S}

(* mark_frontier_locked: a slot already dirty stops the walk, unless it is *)
(* a root that was not yet forced.  d and f are the flags the walk starts  *)
(* from.                                                                   *)
MarkedRootsOnly(roots, d, f) == roots
Marked(roots, d, f) ==
  Visited(roots, {n \in Ids : IsSlot(n) /\ (~d[n] \/ (n \in roots /\ ~f[n]))})
MarkDirty(marked, d) == [n \in Ids |-> d[n] \/ (n \in marked /\ IsSlot(n))]
MarkForce(roots, f)  == [n \in Ids |-> f[n] \/ (n \in roots /\ IsSlot(n))]

(* clear_frontier_locked: forget cached values instead of marking them. *)
Cleared(roots, d) ==
  Visited(roots, {n \in Ids : IsSlot(n) /\ (val[n] # None \/ d[n])})

Effects(S) == {n \in S : kind[n] = "effect"}

(* The order in which a walk reaches effects follows edge-set order, which *)
(* the model leaves open.                                                  *)
Orders(S) == {s \in [1..Cardinality(S) -> S] : \A i, j \in DOMAIN s : s[i] = s[j] => i = j}

(* schedule_effect for a set of effects, those in `forced' with force. *)
Schedule(E) ==
  /\ \E order \in Orders(E \ scheduled) : pending' = pending \o order
  /\ scheduled' = scheduled \cup E
ForceForgotten(E, f) == f
Forced(E, f) == [n \in Ids |-> f[n] \/ n \in E]

(* PendingQueue::erase swaps the last entry into the hole. *)
Erase(q, i) ==
  IF \E p \in 1..Len(q) : q[p] = i
  THEN LET p == CHOOSE p \in 1..Len(q) : q[p] = i
       IN [j \in 1..(Len(q) - 1) |-> IF j = p THEN q[Len(q)] ELSE q[j]]
  ELSE q

(* flush_effects: a nested flush returns at once.  `noexcept' flushes run  *)
(* inside the destructor of a batch guard.                                 *)
FlushOn(s, noexcept) ==
  /\ flushing' = TRUE
  /\ stack' = IF flushing THEN s ELSE Push([Host EXCEPT !.op = "flush", !.chg = noexcept], s)

(* Deliver the result of refresh_slot to the activation that asked for it. *)
Deliver(s, changed) ==
  IF Head(s).op \in {"refresh", "should"}
  THEN Push([Head(s) EXCEPT !.chg = @ \/ changed], Tail(s)) ELSE s

(* refresh_slot on a slot that is not clean: enter_refresh, then a snapshot *)
(* of its dependencies.  Entering a slot twice is the circular-dependency   *)
(* assertion.                                                               *)
EnterRefresh(i, s) ==
  IF busy[i] THEN /\ stack' = << >> /\ UNCHANGED busy
  ELSE /\ busy' = [busy EXCEPT ![i] = TRUE]
       /\ stack' = Push([Activation("refresh", i) EXCEPT !.todo = deps[i]], s)

(* An exception unwinds to the program, which catches it.  RefreshGuard    *)
(* resets in_progress; nothing resets flushing_effects_.  Out of the       *)
(* destructor of a batch guard it terminates the process.                  *)
Unwind ==
  /\ busy' = [i \in Ids |-> busy[i] /\ ~\E f \in 1..Len(stack) :
                               stack[f].id = i /\ stack[f].op \in {"refresh", "compute"} /\ IsSlot(i)]
  /\ stack' = IF \E f \in 1..Len(stack) : stack[f].op = "flush" /\ stack[f].chg
              THEN << >> ELSE <<Host>>

(* Give up every forward edge of i, and the reverse edges that match. *)
Detach(i) ==
  /\ dpts' = [a \in Ids |-> IF a \in deps[i] THEN dpts[a] \ {i} ELSE dpts[a]]
  /\ deps' = [deps EXCEPT ![i] = {}]

(* Compute::track / register_dependency: no edge once the running node was *)
(* disposed; a forward edge even when the target names nothing.            *)
Track(i, f) ==
  IF gen[f.id] # f.gen \/ i = f.id THEN UNCHANGED edges
  ELSE /\ dpts' = IF kind[i] \in {"cell", "slot"}
                  THEN [dpts EXCEPT ![i] = @ \cup {f.id}] ELSE dpts
       /\ deps' = IF kind[f.id] \in {"slot", "effect"}
                  THEN [deps EXCEPT ![f.id] = @ \cup {i}] ELSE deps

----------------------------------------------------------------------------
(* User code: closures and the program around them.                        *)

Code(c, log) ==
  IF c \in Items THEN Body(c, log)
  ELSE IF log = << >> THEN [do |-> "get", of |-> c - Len(Plan)]
                      ELSE [do |-> "return", to |-> log[1]]

InClosure == stack # << >> /\ Top.op \in {"compute", "effect"} /\ Len(Top.log) < MaxLog
Asks(op)  == InClosure /\ Code(Top.code, Top.log) = op
HostIdle  == stack = <<Host>>
HostCalls(do) == HostIdle /\ do \in HostMay /\ (nmade >= Setup \/ do = "make")
Issued(op) == Asks(op) \/ HostCalls(op.do)
(* The caller's activation once the operation it asked for has returned r. *)
Resume(r) == IF InClosure
             THEN Push([Top EXCEPT !.log = Append(@, r), !.pulled = FALSE], Rest)
             ELSE stack

(* Compute::get: track, refresh, read by id alone.  The read of a computed *)
(* cell happens after its refresh has run (pulled).                        *)
ClosureGet == \E k \in Items :
  /\ Asks([do |-> "get", of |-> k]) /\ made[k] # None
  /\ LET i == made[k].id IN
     IF ~Top.pulled THEN
       /\ Track(i, Top)
       /\ CASE IsSlot(i) /\ Plan[k].kind = "slot" /\ ~Clean(i) ->
                 EnterRefresh(i, Push([Top EXCEPT !.pulled = TRUE], Rest))
            [] kind[i] = Plan[k].kind /\ (IsSlot(i) => Clean(i)) ->
                 stack' = Resume(val[i]) /\ UNCHANGED busy
            [] OTHER -> Unwind
     ELSE /\ IF IsSlot(i) THEN stack' = Resume(val[i]) /\ UNCHANGED busy ELSE Unwind
          /\ UNCHANGED edges
  /\ UNCHANGED <<arena, val, dirty, force, eagers, armed, sched, batches, handles, seen>>

(* ContextImpl::get from the program: registers no edge. *)
HostGet == \E k \in Items :
  /\ HostCalls("get") /\ made[k] # None
  /\ LET i == made[k].id IN Plan[k].kind = "slot" /\ IsSlot(i) /\ ~Clean(i) /\ EnterRefresh(i, stack)
  /\ UNCHANGED <<arena, val, dirty, force, eagers, armed, edges, sched, batches, handles, seen>>

ClosureThrow ==
  /\ Asks([do |-> "throw"]) /\ Unwind
  /\ UNCHANGED <<arena, val, dirty, force, eagers, armed, edges, sched, batches, handles, seen>>

BatchingIgnored == FALSE
Batching == batchDepth > 0

(* write_cell: an equal write is dropped; in a batch only the id is noted. *)
EqualWriteMissed(i, v) == FALSE
EqualWrite(i, v) == val[i] = v
Set == \E k \in Items, v \in Values :
  /\ Issued([do |-> "set", of |-> k, to |-> v]) /\ made[k] # None
  /\ LET i == made[k].id
         reached == Marked(dpts[i], dirty, force) IN
     /\ kind[i] = "cell" /\ Plan[k].kind = "cell"
     /\ val' = [val EXCEPT ![i] = v]
     /\ IF EqualWrite(i, v) THEN stack' = Resume(None) /\ UNCHANGED <<dirty, force, sched, batched>>
        ELSE IF Batching
        THEN /\ batched' = [batched EXCEPT !.cells = @ \cup {i}]
             /\ stack' = Resume(None) /\ UNCHANGED <<dirty, force, sched>>
        ELSE /\ dirty' = MarkDirty(reached, dirty)
             /\ force' = Forced(Effects(dpts[i]), MarkForce(dpts[i], force))
             /\ Schedule(Effects(reached))
             /\ IF Effects(reached) = {} THEN stack' = Resume(None) /\ UNCHANGED flushing
                ELSE FlushOn(Resume(None), FALSE)
             /\ UNCHANGED batched
  /\ UNCHANGED <<arena, busy, eagers, armed, edges, batchDepth, handles, seen>>

----------------------------------------------------------------------------
(* Creation.                                                               *)

(* alloc_id takes the most recently freed id. *)
NewId == IF free # << >> THEN free[Len(free)] ELSE nextId
FreeLeft == IF free # << >> THEN SubSeq(free, 1, Len(free) - 1) ELSE free
Alloc(k, c) ==
  /\ NewId \in Ids
  /\ free' = FreeLeft
  /\ nextId' = IF free # << >> THEN nextId ELSE nextId + 1
  /\ kind' = [kind EXCEPT ![NewId] = k] /\ code' = [code EXCEPT ![NewId] = c]
  /\ UNCHANGED gen

(* Insert an effect node, schedule it and flush; `waiting' is the rest of  *)
(* the caller, which runs after the flush.                                 *)
NewEffect(c, waiting) ==
  /\ Alloc("effect", c)
  /\ force' = [force EXCEPT ![NewId] = TRUE]
  /\ pending' = Append(pending, NewId) /\ scheduled' = scheduled \cup {NewId}
  /\ FlushOn(Push(waiting, Resume(None)), FALSE)

Make ==
  /\ Issued([do |-> "make"]) /\ nmade < Len(Plan)
  /\ nmade' = nmade + 1
  /\ LET k == nmade + 1 IN
     IF Plan[k].kind = "effect"
     THEN /\ NewEffect(k, [Host EXCEPT !.op = "made", !.id = NewId, !.code = k])
          /\ UNCHANGED <<val, made>>
     ELSE /\ Alloc(Plan[k].kind, k)
          /\ val' = [val EXCEPT ![NewId] = IF Plan[k].kind = "cell" THEN Plan[k].init ELSE None]
          /\ made' = [made EXCEPT ![k] = [id |-> NewId, gen |-> gen[NewId]]]
          /\ stack' = Resume(None) /\ UNCHANGED <<force, sched>>
  /\ UNCHANGED <<dirty, busy, eagers, armed, edges, batches, seen>>

(* effect() stamps its handle with the generation it finds after the flush. *)
StepMade ==
  /\ stack # << >> /\ Top.op = "made" /\ stack' = Rest
  /\ made' = [made EXCEPT ![Top.code] = [id |-> Top.id, gen |-> gen[Top.id]]]
  /\ UNCHANGED <<arena, flags, eagers, armed, edges, sched, batches, nmade, seen>>

(* make_eager, by id. *)
Eager == \E k \in Items :
  /\ HostCalls("eager") /\ made[k] # None
  /\ IsSlot(made[k].id) /\ ~eager[made[k].id] /\ NewId \in Ids /\ gen[NewId] < MaxGen
  /\ NewEffect(Puller(k), [Host EXCEPT !.op = "attach", !.id = NewId, !.code = k])
  /\ UNCHANGED <<val, dirty, busy, eagers, armed, edges, batches, handles, seen>>
StepAttach ==
  /\ stack # << >> /\ Top.op = "attach" /\ stack' = Rest
  /\ LET s == made[Top.code].id IN
     /\ eager' = [eager EXCEPT ![s] = IsSlot(s)]
     /\ eagerBy' = [eagerBy EXCEPT ![s] = [id |-> Top.id, gen |-> gen[Top.id]]]
  /\ UNCHANGED <<arena, flags, armed, edges, sched, batches, handles, seen>>

----------------------------------------------------------------------------
(* Disposal.                                                               *)

(* The effect a handle of eager_by_ still names: dispose_effect's guard. *)
Named(h) == IF h # None /\ gen[h.id] = h.gen /\ kind[h.id] = "effect" THEN {h.id} ELSE {}

(* The edges that survive: remove_dependent_edge from the dependencies of  *)
(* a disposed node, remove_dependency_edge from its dependents.            *)
DependentsKept(gone) == [a \in Ids |-> IF a \in gone THEN {} ELSE dpts[a]]
DependentsLeft(gone) ==
  [a \in Ids |-> IF a \in gone THEN {} ELSE {b \in dpts[a] : ~(b \in gone /\ a \in deps[b])}]
DependenciesLeft(gone) ==
  [b \in Ids |-> IF b \in gone THEN {} ELSE {a \in deps[b] : ~(a \in gone /\ b \in dpts[a])}]

(* Tear down the nodes in `gone', freed in `order': detach both edge       *)
(* directions, dirty the surviving cone below `roots' without scheduling   *)
(* its effects (invalidate_disposed_dependents), bump the generations.     *)
Tear(gone, order, roots) ==
  LET cone == Visited(roots, {n \in Ids \ gone : IsSlot(n) /\ (~dirty[n] \/ (n \in roots /\ ~force[n]))})
      reset(v, g) == [n \in Ids |-> IF n \in gone THEN v ELSE g[n]] IN
  /\ dpts' = DependentsLeft(gone) /\ deps' = DependenciesLeft(gone)
  /\ dirty' = reset(FALSE, MarkDirty(cone, dirty))
  /\ force' = reset(FALSE, MarkForce(roots, force))
  /\ val' = reset(None, val) /\ busy' = reset(FALSE, busy)
  /\ kind' = reset("empty", kind) /\ code' = reset(0, code)
  /\ armed' = reset(0, armed)
  /\ pending' = IF Effects(gone) = {} THEN pending
                ELSE Erase(pending, CHOOSE n \in Effects(gone) : TRUE)
  /\ scheduled' = scheduled \ Effects(gone)
  /\ gen' = [n \in Ids |-> IF n \in gone THEN gen[n] + 1 ELSE gen[n]]
  /\ free' = free \o order
  /\ UNCHANGED nextId

(* The dependents whose cone the disposal dirties. *)
NoOrphans(i) == {}
Orphans(i) == dpts[i]

(* dispose_effect / dispose_slot_id / dispose_cell_id on the live node i:  *)
(* the puller of an eager computed cell goes first.                        *)
TearNode(i) ==
  LET puller == IF IsSlot(i) /\ eager[i] THEN Named(eagerBy[i]) ELSE {}
      first == IF puller = {} THEN << >> ELSE <<CHOOSE p \in puller : TRUE>> IN
  /\ Tear({i} \cup puller, first \o <<i>>, Orphans(i))
  /\ eagerBy' = [eagerBy EXCEPT ![i] = IF IsSlot(i) /\ eager[i] THEN None ELSE @]
  /\ eager' = [eager EXCEPT ![i] = FALSE]

(* dispose_cell / dispose_slot / dispose_effect, fenced by generation and  *)
(* kind.  A stale handle is a no-op.                                       *)
KindFenced(k, h) == kind[h.id] = Plan[k].kind
Fenced(k, h) == gen[h.id] = h.gen /\ kind[h.id] = Plan[k].kind
DisposeItem(k) ==
  /\ Issued([do |-> "dispose", of |-> k]) /\ made[k] # None
  /\ IF Fenced(k, made[k]) THEN TearNode(made[k].id)
     ELSE UNCHANGED <<arena, flags, eagers, armed, edges, pending, scheduled>>
  /\ stack' = Resume(None)
  /\ UNCHANGED <<flushing, batches, handles, seen>>
Dispose == \E k \in Items : DisposeItem(k)
(* dispose_id(cx.node()): by id, whatever lives there now. *)
DisposeSelf ==
  /\ Asks([do |-> "dispose_self"])
  /\ IF kind[Top.id] # "empty" THEN TearNode(Top.id)
     ELSE UNCHANGED <<arena, flags, eagers, armed, edges, pending, scheduled>>
  /\ stack' = Resume(None)
  /\ UNCHANGED <<flushing, batches, handles, seen>>

(* make_lazy, by id. *)
Lazy == \E k \in Items :
  /\ HostCalls("lazy") /\ made[k] # None
  /\ LET i == made[k].id IN
     /\ eagerBy[i] # None
     /\ eagerBy' = [eagerBy EXCEPT ![i] = None] /\ eager' = [eager EXCEPT ![i] = FALSE]
     /\ LET gone == Named(eagerBy[i]) IN
        IF gone = {} THEN UNCHANGED <<arena, flags, armed, edges, pending, scheduled>>
        ELSE Tear(gone, <<eagerBy[i].id>>, {})
  /\ UNCHANGED <<flushing, batches, stack, handles, seen>>

----------------------------------------------------------------------------
(* Clearing and batches.                                                   *)

(* Forget the caches below `roots' and force the effects reached, starting *)
(* from the flags d and f; then flush.                                     *)
ClearFrom(roots, d, f, more, noexcept) ==
  LET hit == Cleared(roots, d) IN
  /\ val' = [n \in Ids |-> IF n \in hit /\ IsSlot(n) THEN None ELSE val[n]]
  /\ dirty' = [n \in Ids |-> d[n] /\ ~(n \in hit /\ IsSlot(n))]
  /\ force' = Forced(Effects(hit), [n \in Ids |-> f[n] /\ ~(n \in hit /\ IsSlot(n))])
  /\ Schedule(more \cup Effects(hit))
  /\ FlushOn(stack, noexcept)

(* Computed::clear and Source::clear_dependents. *)
Clear == \E k \in Items :
  /\ HostCalls("clear") /\ made[k] # None
  /\ LET i == made[k].id IN
     CASE Plan[k].kind = "slot" /\ Batching ->
            /\ batched' = [batched EXCEPT !.slots = @ \cup {i}]
            /\ UNCHANGED <<val, dirty, force, sched, stack>>
       [] Plan[k].kind = "slot" /\ ~Batching ->
            ClearFrom({i}, dirty, force, {}, FALSE) /\ UNCHANGED batched
       [] Plan[k].kind = "cell" /\ Batching ->
            /\ batched' = [batched EXCEPT !.clears = @ \cup {i}]
            /\ UNCHANGED <<val, dirty, force, sched, stack>>
       [] Plan[k].kind = "cell" /\ ~Batching ->
            /\ ClearFrom(IF kind[i] = "cell" THEN dpts[i] ELSE {}, dirty, force, {}, FALSE)
            /\ UNCHANGED batched
       [] OTHER -> FALSE
  /\ UNCHANGED <<arena, busy, eagers, armed, edges, batchDepth, handles, seen>>

BatchBegin ==
  /\ HostCalls("batch") /\ batchDepth < MaxBatch
  /\ batchDepth' = batchDepth + 1
  /\ UNCHANGED <<arena, flags, eagers, armed, edges, sched, batched, stack, handles, seen>>

(* finish_batch: at depth 0 the noted cells invalidate, then the noted     *)
(* clears clear, then one flush runs inside the guard's destructor.        *)
BatchOpen == batchDepth > 0
BatchEnd ==
  /\ HostIdle /\ BatchOpen
  /\ batchDepth' = batchDepth - 1
  /\ IF batchDepth > 1 THEN UNCHANGED <<val, dirty, force, sched, batched, stack>>
     ELSE LET roots  == UNION {dpts[i] : i \in batched.cells}
              marked == Marked(roots, dirty, force)
              cells  == {i \in batched.clears : kind[i] = "cell"} IN
          /\ ClearFrom((UNION {dpts[i] : i \in cells}) \cup batched.slots,
                       MarkDirty(marked, dirty),
                       Forced(Effects(roots), MarkForce(roots, force)),
                       Effects(marked), TRUE)
          /\ batched' = [cells |-> {}, clears |-> {}, slots |-> {}]
  /\ UNCHANGED <<arena, busy, eagers, armed, edges, handles, seen>>

----------------------------------------------------------------------------
(* The engine's own steps.                                                 *)

(* effect_should_run(i) as it starts: force_run is read here, once.        *)
Check(i) == [Activation("should", i) EXCEPT !.todo = deps[i], !.due = force[i]]

(* flush_effects: take the next pending effect; done when there is none. *)
StepFlush ==
  /\ stack # << >> /\ Top.op = "flush"
  /\ IF pending = << >>
     THEN flushing' = FALSE /\ stack' = Rest /\ UNCHANGED <<pending, scheduled>>
     ELSE LET i == Head(pending) IN
          /\ pending' = Tail(pending) /\ scheduled' = scheduled \ {i}
          /\ stack' = IF kind[i] = "effect"
                      THEN Push(Check(i), stack) ELSE stack
          /\ UNCHANGED flushing
  /\ UNCHANGED <<arena, flags, eagers, armed, edges, batches, handles, seen>>

(* effect_should_run and refresh_slot both refresh the dependencies that   *)
(* are computed cells, one by one.                                         *)
Walking == stack # << >> /\ Top.op \in {"should", "refresh"}
EffectDue == Top.op = "should" /\ (Top.due \/ Top.chg)
StepDependency == \E d \in Ids :
  /\ Walking /\ d \in Top.todo /\ ~EffectDue
  /\ (Top.op = "should" => kind[Top.id] = "effect")
  /\ LET s == Push([Top EXCEPT !.todo = @ \ {d}], Rest) IN
     IF IsSlot(d) /\ ~Clean(d) THEN EnterRefresh(d, s) ELSE stack' = s /\ UNCHANGED busy
  /\ UNCHANGED <<arena, val, dirty, force, eagers, armed, edges, sched, batches, handles, seen>>

(* effect_should_run says no. *)
StepSkip ==
  /\ Walking /\ Top.op = "should"
  /\ kind[Top.id] # "effect" \/ (Top.todo = {} /\ ~EffectDue)
  /\ stack' = Rest
  /\ UNCHANGED <<arena, flags, eagers, armed, edges, sched, batches, handles, seen>>

(* run_effect up to the closure: out of the queue, edges given up, the     *)
(* previous cleanup run.                                                   *)
StartEffect ==
  /\ Walking /\ EffectDue /\ kind[Top.id] = "effect"
  /\ LET i == Top.id IN
     /\ pending' = IF i \in scheduled THEN Erase(pending, i) ELSE pending
     /\ scheduled' = scheduled \ {i}
     /\ Detach(i)
     /\ force' = [force EXCEPT ![i] = FALSE] /\ armed' = [armed EXCEPT ![i] = 0]
     /\ stack' = Push(Activation("effect", i), Rest)
  /\ UNCHANGED <<arena, val, dirty, busy, eagers, flushing, batches, handles, seen>>

(* run_effect after the closure: keep the new cleanup, or run it at once   *)
(* when the entry no longer holds an effect.                               *)
FinishEffect ==
  /\ stack # << >> /\ Top.op = "effect" /\ Code(Top.code, Top.log).do = "return"
  /\ armed' = IF kind[Top.id] = "effect" THEN [armed EXCEPT ![Top.id] = Top.code] ELSE armed
  /\ seen' = [seen EXCEPT ![Top.code] = Top.log]
  /\ stack' = Rest
  /\ UNCHANGED <<arena, flags, eagers, edges, sched, batches, handles>>

(* refresh_slot once its dependencies are fresh. *)
Stale(i) == val[i] = None \/ force[i] \/ Top.chg
EndRefresh ==
  /\ Walking /\ Top.op = "refresh" /\ Top.todo = {} /\ ~(IsSlot(Top.id) /\ Stale(Top.id))
  /\ LET i == Top.id IN
     /\ dirty' = [dirty EXCEPT ![i] = @ /\ ~IsSlot(i)]
     /\ busy' = [busy EXCEPT ![i] = @ /\ ~IsSlot(i)]
     /\ stack' = Deliver(Rest, FALSE)
  /\ UNCHANGED <<arena, val, force, eagers, armed, edges, sched, batches, handles, seen>>
StartCompute ==
  /\ Walking /\ Top.op = "refresh" /\ Top.todo = {} /\ IsSlot(Top.id) /\ Stale(Top.id)
  /\ Detach(Top.id)
  /\ stack' = Push(Activation("compute", Top.id), Rest)
  /\ UNCHANGED <<arena, flags, eagers, armed, sched, batches, handles, seen>>

(* recompute_slot_now after the closure: an equal value is not stored and  *)
(* does not ripple; a first value does not ripple either.                  *)
FinishCompute ==
  /\ stack # << >> /\ Top.op = "compute" /\ Code(Top.code, Top.log).do = "return"
  /\ LET i == Top.id
         v == Code(Top.code, Top.log).to
         same == val[i] # None /\ Same(code[i], val[i], v)
         changed == val[i] # None /\ ~same
         d0 == [dirty EXCEPT ![i] = FALSE]
         f0 == [force EXCEPT ![i] = FALSE]
         roots == IF changed THEN dpts[i] ELSE {}
         marked == Marked(roots, d0, f0) IN
     IF ~IsSlot(i)
     THEN stack' = Deliver(Rest, FALSE) /\ UNCHANGED <<flags, pending, scheduled>>
     ELSE /\ val' = [val EXCEPT ![i] = IF same THEN @ ELSE v]
          /\ dirty' = MarkDirty(marked, d0)
          /\ force' = Forced(Effects(roots), MarkForce(roots, f0))
          /\ Schedule(Effects(marked))
          /\ busy' = [busy EXCEPT ![i] = FALSE]
          /\ stack' = Deliver(Rest, changed)
  /\ UNCHANGED <<arena, eagers, armed, edges, flushing, batches, handles, seen>>

----------------------------------------------------------------------------
Closures == ClosureGet \/ ClosureThrow \/ DisposeSelf
Engine == StepMade \/ StepAttach \/ StepFlush \/ StepDependency \/ StepSkip \/ StartEffect
            \/ FinishEffect \/ EndRefresh \/ StartCompute \/ FinishCompute
Calls == HostGet \/ Set \/ Make \/ Eager \/ Lazy \/ Dispose \/ Clear \/ BatchBegin \/ BatchEnd
Next == Closures \/ Engine \/ Calls
Spec == Init /\ [][Next]_vars

(* The engine is sequential code: once it has control it keeps running.    *)
Running == stack # << >> /\ ~HostIdle
Fairness == WF_vars(Running /\ Next)
FairSpec == Spec /\ Fairness
----------------------------------------------------------------------------
(* Properties.                                                             *)

(* Every variable of ContextImpl holds a value of its C++ type. *)
TypeOK ==
  /\ kind \in [Ids -> Kinds \cup {"empty"}] /\ code \in [Ids -> Codes \cup {0}]
  /\ val \in [Ids -> Values \cup {None}]    /\ dirty \in [Ids -> BOOLEAN]
  /\ force \in [Ids -> BOOLEAN]             /\ busy \in [Ids -> BOOLEAN]
  /\ eager \in [Ids -> BOOLEAN]             /\ eagerBy \in [Ids -> Handle \cup {None}]
  /\ armed \in [Ids -> Codes \cup {0}]
  /\ deps \in [Ids -> SUBSET Ids]           /\ dpts \in [Ids -> SUBSET Ids]
  /\ gen \in [Ids -> Nat] /\ free \in Seq(Ids) /\ nextId \in Nat
  /\ pending \in Seq(Ids) /\ scheduled \in SUBSET Ids /\ flushing \in BOOLEAN
  /\ batchDepth \in Nat
  /\ batched \in [cells : SUBSET Ids, clears : SUBSET Ids, slots : SUBSET Ids]
  /\ stack \in Seq(Frame)
  /\ made \in [Items -> Handle \cup {None}] /\ nmade \in 0..Len(Plan)
  /\ seen \in [Codes -> Logs \cup {None}]

(* A reverse edge is never dangling: a dependent listed by a node is a live *)
(* computed cell or effect that lists the node as a dependency, and only    *)
(* live cells and computed cells have dependents.  Invalidation walks, and  *)
(* the degree counts the disposal contract is written against, rely on it.  *)
EdgesMatch ==
  \A a \in Ids : \A b \in dpts[a] :
    /\ kind[a] \in {"cell", "slot"} /\ kind[b] \in {"slot", "effect"}
    /\ a \in deps[b]

(* The pending queue and the effect_scheduled_ bits agree, the queue holds  *)
(* an effect once, and only live effects: an id disposed while queued is    *)
(* gone from both, so its successor enters clean.                           *)
QueueMatchesMarks ==
  /\ {pending[p] : p \in DOMAIN pending} = scheduled
  /\ \A p, q \in DOMAIN pending : pending[p] = pending[q] => p = q
  /\ \A i \in scheduled : kind[i] = "effect"

(* An arena entry is empty exactly when it is on the free list or was never *)
(* handed out, and is on the free list once: alloc_id never hands out an    *)
(* entry that is occupied.                                                  *)
FreeIdsSound ==
  /\ \A p, q \in DOMAIN free : free[p] = free[q] => p = q
  /\ \A i \in Ids : kind[i] = "empty" <=> (i >= nextId \/ \E p \in DOMAIN free : free[p] = i)

(* The arena is sound whatever was disposed, recycled or thrown: types,    *)
(* edges, the effect queue and the free list together.                     *)
ArenaSound == TypeOK /\ EdgesMatch /\ QueueMatchesMarks /\ FreeIdsSound

(* What a read of item k means: a cell is its stored value, a computed cell *)
(* what the closure of the node its id names returns on what the items it   *)
(* reads mean; None when the read throws or there is nothing to read.  The  *)
(* computed cells of a program checked with it only read.                   *)
GetsFrom(c, log, meaning) ==
  /\ Body(c, log).do = "return"
  /\ \A n \in DOMAIN log :
       LET op == Body(c, SubSeq(log, 1, n - 1)) IN
       IF op.do = "get" THEN log[n] = meaning[op.of] /\ log[n] # None ELSE log[n] = None
Run(c, meaning) ==
  LET Result[log \in Logs] ==
        LET op == Body(c, log) IN
        IF op.do = "return" THEN op.to
        ELSE IF op.do = "get" /\ meaning[op.of] # None /\ Len(log) < MaxLog
             THEN Result[Append(log, meaning[op.of])] ELSE None IN
  Result[<< >>]
MeaningFrom(k, meaning) ==
  IF made[k] = None \/ kind[made[k].id] # Plan[k].kind \/ Plan[k].kind = "effect" THEN None
  ELSE IF Plan[k].kind = "cell" THEN val[made[k].id] ELSE Run(code[made[k].id], meaning)
Meaning[k \in Items] == MeaningFrom(k, Meaning)

(* A cached value that a read would return without refreshing is the value  *)
(* the computed cell means now, whatever the invalidation, the dynamic      *)
(* dependencies and the interrupted flushes before it.  Inside a batch the  *)
(* invalidation is deferred, so caches may lag.                             *)
CacheCoherent ==
  batchDepth = 0 =>
    \A k \in Items :
      (Plan[k].kind = "slot" /\ made[k] # None /\ Clean(made[k].id)) =>
        val[made[k].id] = Meaning[k]

(* Glitch freedom at rest: when control is back with the program outside a  *)
(* batch, the last run of every effect saw exactly what the items it reads  *)
(* mean now, so no invalidation was lost and no effect is owed a run.       *)
EffectsCurrent ==
  (HostIdle /\ batchDepth = 0) =>
    \A k \in Items :
      (Plan[k].kind = "effect" /\ made[k] # None) => GetsFrom(k, seen[k], Meaning)

(* An eager computed cell is materialized whenever control is back with the *)
(* program outside a batch.                                                 *)
EagerFresh ==
  (HostIdle /\ batchDepth = 0) => \A i \in Ids : eager[i] => Clean(i)

(* At rest nothing is owed: effects have seen, and eager cells hold, what   *)
(* the graph means now.                                                     *)
ReactionsCurrent == EffectsCurrent /\ EagerFresh

(* A batch is one transaction to effects: an effect that has already run    *)
(* does not rerun while one is open.                                        *)
NoRerunInsideBatch ==
  [][StartEffect => (batchDepth = 0 \/ armed[Top.id] = 0)]_vars

(* Disposal through a handle destroys only the node the handle was given    *)
(* for, and the puller of that node: a stale handle whose id was recycled   *)
(* never destroys the new occupant.                                         *)
DisposeHitsOwn ==
  [][\A k \in Items : DisposeItem(k) =>
       \A i \in Ids : gen'[i] # gen[i] =>
         code[i] = k \/ (code[made[k].id] = k /\ i \in Named(eagerBy[made[k].id]))]_vars

(* The engine always gives control back to the program. *)
ControlReturns == []<>~Running
=============================================================================
