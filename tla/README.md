# lazily-cpp: a TLA+ verification project

This directory holds TLA+ models of lazily-cpp, the TLC configurations that
model-check them, and TLAPS proofs about them. `PROJECT.json` is the index: it
lists the components, the runs, the source lines behind every definition, the
hazards the properties are aimed at, one mutant per checked property, the
findings, and the theorems.

Run a model check with `tlc -config <cfg> <module>` and the proofs with
`tlapm <module>Proofs.tla`.

## The system

lazily-cpp is a header-only reactive library. Everything is built around one
engine; the rest are state machines ("cores", with no graph and no I/O) wrapped
in thin reactive shells that publish the core's state on a graph.

| component | state | operations | interacts with | what makes it correct |
|---|---|---|---|---|
| reactive graph engine (`context.hpp`, `cell.hpp`) | node arena with free list and generations, forward and reverse edges, dirty/force flags, pending-effect queue, batch sets | get, set, clear, create, eager/lazy, dispose, batch, flush | runs user closures that call back into it | a clean cache is current; every effect has seen the present; edges, queue and arena agree; a stale handle harms nobody |
| thread-safe context (`thread_safe.hpp`) | one engine, a read/write lock, the writer's token | get, set, read, write, batch | threads | writer excludes all; re-entry only by the owner; reads do not go back in time |
| async context (`async_context.hpp`) | per computed node: value, state, revision; per effect: three flags and a cleanup | get_async, set, effect, dispose | detached threads | the last inputs win; a cleanup runs once |
| latest-durable projection (`latest_durable_projection*.hpp`) | per key: pending, in-flight, durable frontier; a generation | upsert, claim, ack, fail, reconnect, read | an external sink, a graph | the newest value is never lost; the frontier names what the sink holds |
| reliable sync (`reliable_sync.hpp`) | outbox and its store, coordinator, replay and ack flags; OR-set, LWW register | enqueue, tick, on_reconnect | a connection that breaks, a store that survives | each event folded once, in order; nothing leaves the outbox too early; everything arrives |
| work queue (`work_queue.hpp`) | pending items, leases, attempts, dead letters, four readers | push, claim, ack, nack, reap_expired | workers, clock, a graph | an item is in one place; a late answer settles nothing; every item comes out; readers catch up |
| coordination (`coordination.hpp`) | lease with fencing token, election, lock, semaphore, barrier | acquire, renew, release, tick | peers, clock, a graph | an overtaken token no longer validates |
| queues and topics (`queue.hpp`) | a bounded deque and five readers; a log, cursors and a map of readers | push, pop, close; subscribe, disconnect, publish, advance, gc | threads, a graph | readers catch up; gc takes nothing from a subscriber |
| ingress (`ingress.hpp`) | per scope: generation, expected sequence, reorder buffer, merged window, health, receipts; readers | open, admit, drain, suspend, reconnect, close, fail, tick | producers of several generations, threads, a graph | a generation is released in order and without a hole; readers catch up |
| relay (`relay.hpp`) | keyed shards with windows, rate tokens, frames, priority storage, inbox credits, spill pages and cursors | send, drain, tick, poll, receive, consume, spill, deliver, ack, replay | a crash of the egress | nothing accepted is lost or delivered past an unacknowledged page; everything is delivered |
| membership, presence, discovery (`membership.hpp`, `presence.hpp`, `service.hpp`) | per peer: state, heartbeat history, deadline; present and registered peers | join, heartbeat, leave, tick, evict | consumers that only hear events | the events tell the states; a silent peer goes |
| command and receipt projections (`command.hpp`, `receipt.hpp`) | per command: phase, generation, verdict, receipts; keyed LWW families | submit, cancel, observe, ingest, family_set | authorities of several generations | one verdict; a fold depends on what was seen, not on its order |
| durable client (`durable_client.hpp`) | seen message ids, projection, buffered updates | observe, apply | a broker that repeats | the projection is a prefix of the source |
| text, sequence and tree CRDTs (`crdt.hpp`, `hlc.hpp`, `lossless_tree_crdt.hpp`) | elements with ids and tombstones; registers and positions; nodes, log, frontier, buffer | insert, delete, merge, delta, gc; set, move; create, edit, split, merge, reorder, tombstone, diff | replicas over an unreliable network | replicas with the same operations agree; a delta carries all that is missing |
| signaling room (`signaling.hpp`) | connections, peers, allowlist, outbound queues | connect, join, forward, drain, disconnect | servers and clients | all views of the room are its roster |
| statecharts (`statechart.hpp`) | active configuration, history | send | a host that evaluates guards | the configuration is legal; history restores |
| timing cores (`temporal.hpp`, `rateshape.hpp`, `windowing.hpp`, `resilience.hpp`, `stdlib.hpp`) | next boundary, held value, window, breaker state, permits, verdict | tick, input, call, answer, observe, poll | a clock that jumps | no boundary lost; rates, windows and limits hold; one verdict |
| keyed collections (`keyed_order.hpp`, `*_reactive_family.hpp`, `collections.hpp`) | keys in order, cells, version signals; children, index and order | get, set, remove, move, reconcile | threads, a graph | readers catch up; handles are stable; the list becomes what was asked |
| blob transport (`transport.hpp`, arena of `ipc.hpp`) | entries; a shared region with atomic counters; a router | spill, write, resolve, advance_epoch | processes that share memory | a descriptor resolves to what was written or to nothing |
| codecs, small containers and erasure, FFI, replay digests, alignment, simulation kit | bytes and memory | encode, decode | | not modelled, see below |

What is hard here: user code runs in the middle of almost every engine
operation and may write, create, dispose or throw; ids are recycled; the lock is
hand-made; answers from the sink and from workers come late, twice or never;
connections break between any two messages; messages of old generations arrive
after those of new ones; async completions overtake each other; almost every
cell commits under one lock and clears its readers later under another. The
`hazards` of `PROJECT.json` list these at their lines.

## Modules

### The graph and its locks

* **ReactiveGraph** models `ContextImpl`. One array per node field, indexed by
  arena id, and the C++ call stack as a variable: a frame per engine activation
  that is waiting for user code. Everything between two pieces of user code is
  one step, because the engine is sequential. Closures are parameters:
  `Body(k, log)` is the next operation of node k's closure after the results
  `log`. Actions: `ClosureGet`, `HostGet`, `Set`, `Make`, `Eager`, `Lazy`,
  `Dispose`, `DisposeSelf`, `Clear`, `BatchBegin`, `BatchEnd`, `ClosureThrow` for
  the calls; `StepFlush`, `StepDependency`, `StepSkip`, `StartEffect`,
  `FinishEffect`, `EndRefresh`, `StartCompute`, `FinishCompute`, `StepMade`,
  `StepAttach` for the engine. The order in which a walk meets effects follows
  container order in the code and is left open. The circular-dependency
  assertion, and an exception leaving a batch guard's destructor, end the
  process (empty stack). **MCReactiveGraph** has the programs the runs use.
* **GraphContainers** is what the engine's edges and pending effects are kept in:
  `EdgeSet` with its open-addressing index (`insert`, `remove`, promotion,
  tombstones, rehash, demotion, copy) and `PendingQueue` with its absolute
  positions. The hash is a constant function.
* **ScalableRwLock** has one action per atomic access of `lock_shared`, `lock`
  and their counterparts. A thread is the number it drew from the process-wide
  slot counter. **ThreadSafeContext** runs get and set on top of it, with one
  source and one computed node, the writer token, the upgrade of a missed read
  and an effect that calls back into the context inside a write.
* **AsyncComputed** has the member accesses of overlapping `get_async` threads.

### Durable state and delivery

* **DurableRegister** is what a latest-durable projection promises.
  **LatestDurableProjection** is the core with an external sink that may apply
  late or never and whose answers may be repeated, reordered or lost.
  **LatestDurableShell** adds the threads, the two mutexes, the graph lock and
  the memoized readers. A mutation is three critical sections.
* **WorkQueue** is `BasicWorkQueueCell`: `PushWork`, `Claim`, `Ack`, `Nack` and
  `reap_expired` commit under the mutex, `ClearReader` is the batch that follows.
  A delivery keeps the ticks to its deadline instead of the deadline, so time
  needs no bound.
* **ReliableSync** is two `SyncDriver`s over one connection, with data in one
  direction. The sender's `tick` is split where the connection may break:
  `BeginTick`, `ReplayOne`, `DrainOne`, `ReceiveControl` and the ends of these
  loops; the receiver has `ReceiveData` and `Advertise`. `Break` loses a suffix of
  what is under way, `Reconnect` is `on_reconnect` on both sides once both reads
  have failed, `StopSender` restarts the sender from its store. A message is its
  kind and its epochs. The cursor the sender advertises in turn acknowledges
  nothing, since the receiver has no outbox entries, and is left out.
* **RelayLink** composes the relay from end to end: shards under the four
  overflow policies, drained by a window policy when the rate policy has a
  token, frames, priority storage, the inbox with its credits, and the spill
  store from which an egress delivers, acknowledges and, after `CrashEgress`, replays.
  The merge is concatenation, so a window shows what was folded into it.
* **BlobTransport** is `spill` of a message into the arena or into the shared
  region, one action per atomic access of `ShmBackend::write`, the two
  `advance_epoch`, and resolution through the router. A payload is a name with a
  length and a checksum that another may share.
* **PeerPlane** is the membership with a consumer of its events that keeps a
  presence map and a discovery registry. The phi formula is a choice between
  the bounds it gives (`SurelySuspect`); times are kept as what has elapsed or
  is left, cut off where it no longer matters.

### Folds and replicas

* **Ingress** is one scope of the ingress cell: admission by generation and
  sequence with reorder buffer, overflow policies and receipts, and the
  invalidations that threads apply after they released the core mutex. One
  reader of the cell is watched at a time (`ingressReader`: the scope's value,
  its authority, its retry record, a receipt channel...), with what it has
  cached and which callers have still to clear it.
* **CommandPlane** is one command as an observer folds it, with receipts and
  projection images; **FamilySync** the last-writer-wins families of
  `CrdtPlaneRuntime`; **DurableClient** the deduplicator and the buffered
  projection. All three are fed by a transport that delays, reorders, repeats
  and loses.
* **TextCrdt** has the elements, their visible order and their merge;
  **TextReplicas** the replicas, with spliced cache, deltas against version
  vectors, forks and gc. **SeqReplicas** has the three registers of every
  `SeqCrdt` entry, over **ReplicaOrder** (the hybrid logical clock with skewed
  walls, and the byte keys that order siblings). **LosslessTree** has the
  six operations of the tree, dependency buffering, frontier, diff and rendering,
  over the same **TextCrdt**. `fork` shares the text objects of the original
  (`shared_ptr<TextCrdt>`) where the model copies them: with two replicas
  (`TwoReplicas`) the sharing has ended before an edit comes in, with three an
  edit applied at one fork would show at another, and that is not modelled.
* **SignalingRoom** has connections, joins, forwards and outbound queues; a
  client acts on the roster it was told.

### Cells and cores

* **Coordination** is `LeaseCore` with the cells over it, the semaphore and the
  barrier. `tokens` records what every peer was last told.
* **QueueCell** and **TopicCell** are the two reactive cells of `queue.hpp`. A
  topic call is three steps (`core_mutex`, `reader_mutex`, the batch), so that
  readers are found, made and removed between other calls' commits; a reader that
  is not found is made between two sections of `reader_mutex` (`FindReaders`,
  `EmplaceReader`), and `ReaderHandle` makes one before there is a subscription.
  Readers are numbered: clearing one that was removed does nothing to its
  successor. `overtaken` is a history variable: the ids whose reader a disconnect
  took after another thread had subscribed them again.
* **TemporalSources**, **RateShape**, **Resilience** are the cores of
  `temporal.hpp`, `rateshape.hpp` with `windowing.hpp`, and `resilience.hpp`;
  each behaviour runs one core. **Deadlines** is `Timer`, `Timeout` and
  `RevisionBarrier`, whose `observe` is two steps around `cancellation()`. Retry
  delays and deadlines are computed on words, scaled to few bits.
* **Statechart** interprets a constant chart: selection of transitions with
  conflicts, exit and entry sets, history.
* **KeyedOrder** is the order algebra; **KeyedFamily** the thread-safe family,
  split where the map lock is released around the graph; **KeyedReconcile** the
  diff by longest increasing subsequence and its application to a source tree.

### Composition

**MCPlanes** (work queue, sync, relay, peers: the ones with liveness),
**MCCells** and **MCReplicas** model-check parts that do not act on each other:
the initial state chooses which of them moves, so state spaces add up. They
hold the instances, and one property per kind of promise that says, part by
part, which named invariants of the component modules hold.

**ScalableRwLockProofs**, **LatestDurableProofs**, **WorkQueueProofs**,
**ReactiveGraphProofs** (arena and caches), **ReactionsProofs** (effects),
**PlanesProofs** (peer plane, relay link and reliable sync), **CellsProofs**
(lease, queue, topic, deadlines) and **ReplicasProofs** (command plane, durable
client, families, room, ingress) hold theorems.

In the component modules an operator whose comment calls it a mutant, or whose
name says what a bug would do (`MarkedRootsOnly`, `DependentsKept`,
`RequeuedAlways`...), is not used by the specification: it is the faulty form
of the operator after it, and shows that the property aimed at it can fail.

## Runs

| run | question | bounds |
|---|---|---|
| `graph_live` | Are caches, effects and eager cells current, does nothing rerun inside a batch, and does control return, under dynamic dependencies, writes from effects, clears and nested batches? | 6 nodes and a puller, three values per cell, batch depth 2 |
| `graph_churn` | Do edges, queue, free list, caches and handles survive disposal from everywhere, recycled ids and exceptions? | 6 nodes in an arena that must recycle |
| `latest_durable` | Is the newest value kept and the register implemented, do values settle, and do the readers catch up, with two threads? | 1 key, 2 values, 2 epochs, 1 reconnect, 2 threads |
| `shared_context` | Exclusion, ownership of re-entry, freshness, progress of writers and of calls | 3 threads with own slots, 1 set |
| `planes` | Work items, synced events, relayed operations and peers: is nothing lost, applied twice or told wrongly, and is everything dealt with in the end? | 2 items, 2 workers, 2 callers, 2 deliveries; 3 events in deltas of up to 2, 1 break, 1 stop; 2 relay keys, 2 operations each, 4 overflow policies, 2 spill modes, 1 crash; 1 peer, 2 revivals |
| `cells` | Are overtaken tokens fenced; do readers catch up; do timed cores keep rates, windows, limits and verdicts; is the configuration legal; do keyed collections keep their handles, order and content; is what is stored found again? | 3 peers, 4 grants; 3 queue threads, capacity 2; 2 subscribers, 2 topic threads; clocks to 7; words of 4 bits; a chart of 18 states; 2 family threads, 3 calls; lists over 4 keys; 5 edges, promote 2, demote 1, 8 slots; 3 senders, room for 2 blobs |
| `replicas` | Do ingress, replicas, projections, client and room give the same answer whatever came late, twice, out of order or from an old generation? | 2 generations, 2 sequences, window 1; 2 writers and 4 text operations; 3 sequence and 3 tree operations; 2 family replicas that both create, 2 keys, 3 writes; 4 messages per fold; 3 connections |
| `throw_in_flush`, `stale_completion`, `lost_resync`, `topic_gc`, `reconcile_order` | disagreements between the code and its own words, see below | smallest program that shows each |

Why the bounds are enough to be interesting. `graph_live`: the diamond makes one
cell reach an effect on two paths, the dynamic branch drops and takes up an
edge, and effect 6 writes during a flush that still has effect 5 queued.
`graph_churn`: the arena is smaller than what the program creates, so ids come
back while old handles, queued entries and edges exist. `latest_durable`: two
epochs let a newer value arrive while an older one is in flight, one reconnect
makes every earlier answer stale, two threads let a read fall between a
mutation's sections; the proofs cover any number of keys. `shared_context`:
three threads give a writer, a reader that enters and one that backs off, and
the misses after the set make further writers.

`planes`: with two deliveries an item is retried once and then given up, two
workers make an expired lease and its successor be held by different ones, and
two callers can clear in the other order than they committed; a delta of two
events lets a replay overlap a snapshot, and one break and one stop suffice for
a lost request, a torn replay and a lost enqueue. In the relay two operations of
one key fill a window above its high-water mark, one key is urgent, and one
crash replays a page that was delivered and not acknowledged. Pages that compact
on write are run under the policy that blocks, the other spill mode under all. A
peer that is
revived twice is suspected, refuted, lost and found again.

`cells`: four grants let a lease return to a peer that held it before; capacity
2 separates "filled" from "no longer empty"; two subscribers let one's cursor
hold what the other has read, and two readers per subscriber let a removed one
have a successor. Seven ticks pass several boundaries at once and all residues
of a period. The chart has nested parallel regions, both kinds of history,
internal transitions, a guard and transitions that conflict across regions. Four
keys are the fewest that show an order that goes wrong. The hashes of the edge
set collide and wrap around in the smallest index and part when it doubles; with
five ids it is promoted, rehashed for tombstones, grown and demoted. Room for
exactly two blobs makes the fit exact and the third write throw in the middle
of a message.

`replicas`: two generations make the first stale, a reorder window of one is
exceeded by two sequences; four text operations are enough for concurrent
insertions at one origin, a deletion and a later insertion behind it; two walls
let a write follow one from the future; three tree operations let a split or
reorder arrive before what it depends on, and give two siblings one sort key;
three family writes let two replicas create one key, or different keys under one
node id, with one write to spare.

Fairness. `graph_live` assumes the engine keeps running once it has control: it
is sequential code on one thread. `latest_durable` assumes that threads finish
what they began, that the application claims pending values, and that a sink
that is tried again and again eventually applies and answers; nothing is assumed
of failure reports or reconnects. `planes` assumes that workers keep claiming,
the host keeps reaping with a clock that advances and calls finish, and nothing
of acks and nacks; that hosts keep ticking both drivers and, when a connection
stays broken, eventually open a new one (strong fairness of `Reconnect`, which
waits for a moment when the sender is between ticks); that the relay's host
keeps ticking windows and rate, draining, polling and consuming (weak fairness
of `WindowTick`, `DrainShard`, `RateTick`, `Poll`, `ReceiveOp`, `Consume`,
`DeliverPage`: the library has no thread of its own, its documented driver calls
these), and nothing of sends, crashes or acknowledgements; that time passes, the
membership is ticked and its events are handled (strong fairness of time and
ticks: the bound on unhandled events may hold one back for a while). `cells` and `replicas` check
safety only. `shared_context` assumes every runnable thread is scheduled and
that `writer_mx_` eventually goes to a thread that waits for it (strong fairness
of that acquisition). `DrainEnds` then shows that a writer with its flag raised
is not starved by readers, although the comment on the lock fears it: an
arriving reader backs off and clears its slot before it waits. Readers, not
writers, can be overtaken for ever, by writers that keep coming; the run has
finitely many sets, which is why `CallsReturn` holds.

`CHECK_DEADLOCK FALSE` is used where the bounded program really may stop.

## Findings

1. An exception out of a flush leaves `flushing_effects_` set; no effect of the
   context runs again (`throw_in_flush`; reproduced against the headers).
2. `get_async` counts revisions but discards no stale completion
   (`stale_completion`).
3. A `ResyncRequest` that is lost with its connection is not sent again:
   `resyncing_` survives `on_reconnect` and suppresses every further request, so
   the receiver stays behind its gap (`lost_resync`). The gap itself comes from
   a sender that stopped with a frame enqueued and not appended.
4. `TopicCell::gc` leaves a lagging connected ephemeral subscriber with a cursor
   below the log; its next read underflows (`topic_gc`).
5. `reconcile` gives moves and inserts the index of the finished list and they
   are applied one after the other: (a, b, c) reconciled to (b, c, d, a) gives
   b, d, c, a (`reconcile_order`).

What was met besides, without a run of its own. Some are formulas of the modules
that do not hold; the runs check what holds beside them.

* After a disposal dirtied a computed cell, a write to another dependency stops
  at the dirty cell and the effect below it is not run, against the comment on
  `invalidate_disposed_dependents` (`context.hpp`; reproduced against the
  headers). `ReactionsCurrent` is checked and proved of programs that dispose of
  no node.
* Slots of the scalable lock are shared by threads 128 apart and hold a flag,
  not a count, so a writer can enter beside a reader. The counter is never given
  back: it is the threads ever started that count. `MutualExclusion` is checked
  and proved under `OwnSlots`.
* `open` at a newer generation keeps the merged window of the old one
  (`WindowOfOneGeneration` in Ingress).
* The ingress cell does not always report what it changes (`StaleOnlyByGaps` in
  Ingress says, and a theorem confirms, that these are the only kinds of call):
  `open` at a newer generation turns the readiness of a live scope from Ready to
  Warming, and its retry record, but reports the authority alone; `reconnect` of
  a closed scope at its generation changes the authority, and `open` of one that
  had errors its retry record, unreported; a receipt that evicts the oldest
  receipt of another channel leaves that channel's reader stale; and where
  `reorder_window` or `high_water` is zero, a handoff whose envelope is refused
  has already moved the fence and emptied the window, and reports nothing. So
  currency of the readers (`IngressReadersCurrent`) is checked and proved for the
  merged window, under policies that leave room for an envelope.
* A split or merge of leaves reseeds the text from what the replica shows at
  that moment, so replicas may differ in those leaves (`LeafTextsAgree` in
  LosslessTree).
* `ReceiptProjection`'s `terminal_for` returns the latest receipt, which a late
  Observed may be (`TerminalForIsTerminal` in CommandPlane).
* A family `set` that loses the race to mint its key drops its value (`SetLands`
  in KeyedFamily).
* A topic subscriber may be left without a reader. `disconnect` of an ephemeral
  subscription commits (`queue.hpp:495`), another thread subscribes the same id,
  durably even, finds the old reader in the map (`queue.hpp:477`), and the
  disconnect then takes that reader out (`queue.hpp:505`). From then on
  `read_stream` of a connected subscriber is empty (`queue.hpp:543`) until
  something makes a reader again, although the repository's README
  (`README.md:385-387`) says that `ThreadSafeTopicCell` preserves the
  per-subscriber contract. `SubscribersHear` in TopicCell states it; with
  one subscriber, two threads, one element and two readers TLC refutes it in 11
  states. `StreamsCurrent` asks for the reader of every other subscriber.
* Replicas of a tree with the same operations may render different texts.
  `find_right_sibling` (`lossless_tree_crdt.hpp:529`) looks for the place after a
  sibling in order of arrival, so nodes n1, n2, n3 created one after the other at
  the front give n2 and n3 one sort key, and `render_node` (`:565`) leaves ties as
  they arrived: a replica that gets n3 before n2 shows them the other way round.
  The conformance test takes equal rendered text as convergence
  (`tests/test_lossless_tree_conformance.cpp:5-8`, `:167-171`). `RenderingsAgree`
  in LosslessTree states it; two peers that create three nodes refute it in 7
  states. `TreesAgree` asks for equal rendering order wherever no keys tie, and
  for equal nodes, keys and texts also where they do.
* Node ids of a keyed family are minted locally and travel in operations, where
  the comments say that keyed operations resolve by key and never by raw node id
  (`command.hpp:318-321`) and that values and aggregates converge (`:443-450`). If
  two replicas create one key, replicas with the same operations may show
  different values of it for good, since the mapping follows the operation that
  came last (7 states with two replicas and keys); if they create two keys under
  one id, an entry shows the other's write (4 states). `FamiliesConverge` and
  `EntriesShowLastWrite` in FamilySync hold for everything else: they exempt the
  value of a key with several creators, or of a node with several keys, and
  nothing more.
* A half-open breaker lets every call through until one has answered, where its
  comment (`resilience.hpp:33`) speaks of a single probe; the calls of a half-open
  breaker are not bounded in `GuardsHold`.
* `RetryPolicyCore::delay` gives the cap from attempt 64 on for a base of 0 too,
  where the formula of its comment, min(cap, base * 2^attempt)
  (`resilience.hpp:141`), gives 0. `DelaysExact` states what the code gives.
* Live entries of a sequence with equal positions (two `insert_between` of one
  peer at the same neighbours) come in either order from `order()`, whose sort
  is unstable over an unordered map, so replicas that agree may list them
  differently. `SeqSound` is about the entries and their registers.
* Four shells reach into the graph of a `ThreadSafeContext` without its lock:
  `entry_handle` (`latest_durable_projection.hpp:122`) and `ensure_reader`
  (`queue.hpp:659`) make a node, `close` of a queue sets its closed source
  (`queue.hpp:291`), and `clear_dependents` of a removed family entry clears it
  (`thread_safe_reactive_family.hpp:65`, `:85`). Beside a locked writer that is a
  data race on the arena. The models make each of these one atomic step of its
  own, so what they show of those cells is what the code promises if the graph
  survives; the race itself is not modelled.
* Spill pages that compact on write go on growing after they were delivered or
  acknowledged: what such a page takes in then is delivered by no replay from the
  cursor, and reclaimed with the page, although the comments of `SpillStore` call
  the tail lossless in both modes. Order and completeness of what is still under
  way are checked and proved in both modes, delivery (`SpillLossless`,
  `RelayDelivers`) where pages are sealed.
* `spill` moves a payload out of its message before the backend accepts it; when
  the region is full the exception leaves that site empty. `BlobsResolve` says
  that it is the only one.
* A process that stops in the middle of a journal write leaves a torn record
  behind which nothing that is appended later is read back.

## Proofs

* **ScalableRwLockProofs**, for every set of threads and every pool size.
  Assumption: no two live threads share a slot (`OwnSlots`), which the
  shared slots above show to be necessary. Mutual exclusion is not inductive.
  `LockInv` adds that a marked or reading thread shows in its slot, that the mutex names the one
  writer, that the flag is up from the drain to unlock, and that no reader is in
  a slot the draining writer has passed. Leaving a slot uses that a reader there
  would show; entering uses that the flag is down, so nobody drains.
  `ContextExcludes` carries this over to the context, whose steps are lock steps
  or leave the lock alone. `ReentryIsOwned` and `GetsNeverGoBack` rest on
  `ContextInv`: only the thread the token names leaves the cache out of step
  with the source, and only between its store and its invalidation.
* **LatestDurableProofs**, for every set of keys and values and any bounds. The
  inductive invariant is the conjunction of the type invariant, the epoch order,
  `NewestKept`, `NothingBeforeUpsert` and `EpochNamesValue`: an acknowledgement of
  an old attempt makes the present one durable only because an epoch names one
  value, which in turn holds because an admitted epoch is newer than every
  attempt. `CoreImplementsRegister` is the refinement: upserts map to Accept,
  acknowledgements to Persist, everything else to stuttering, since what the
  register shows is the epoch of the last accepted value.
  The shell: `ShellImplementsCore` maps the first critical section of a call to
  the step of the core and everything else to stuttering, so the core's theorems
  hold for any number of threads. `CachesShowCore` speaks of the moment when every
  thread is done; the invariant under it, `ShellInv`, says of every moment that a
  cached value which is not the core's is one some thread has still to clear
  (`StaleIsOwed`), that a thread about to store what it computed saw the present
  value or leaves one that is still to be cleared (`StoresAreOwed`), and that an
  absent reader has nothing cached.
* **WorkQueueProofs**, for all workers, callers, lease lengths and numbers of
  attempts. `ItemsAccounted` counts; the invariant `WorkInv` says it by places: the
  queue, the leases, the dead letters and the finished items are apart, hold each
  item once and all of them together (`PlacesApart`, `ItemsOnce`,
  `ItemsSomewhere`), and every lease is the last claim of its item, whose attempts
  are the claims made (`LeasesHanded`, `ClaimsCounted`). That is why a late ack
  settles nothing. `ReadersAreCurrent` needs only what each caller has still to
  clear.
* **PlanesProofs**, reliable sync, for any number of events, spans of a delta, breaks and
  stops. `SyncInv` adds to the two promises where frames can be: what is sent,
  enqueued, stored or replayed was accepted, an epoch names one frame, deltas are
  enqueued in order, a snapshot on its way is not behind the receiver nor behind a
  frame sent before it, and what is acknowledged was reached. The last but one is
  what makes `ReceiverNeverGoesBack` true: `ingest_snapshot` overwrites the
  receiver's epoch without comparing it, and only the order of one connection and
  the loss of everything on a break keep it from going back.
* **ReactiveGraphProofs**, for every plan of nodes, every closure `Body`, every
  comparison `Same` and every size of the arena. Assumptions: the plan is a
  sequence of node descriptions, `Body` answers operations, `Same` Booleans.
  `ArenaSound` is proved from `GraphInv`, which adds to it what the free list may
  hold, that queue and marks agree without repetition, and that a frame of the
  C++ stack which names a node names one with dependencies for as long as the
  generation lasts: user code in the middle of an activation may have disposed
  the node and recycled its id, and the frame then does nothing to the new one.
  `ValueDisposalsHitOwn` is an action property of the fences in `dispose_cell` and
  `dispose_slot`.

  Caches. `CacheCoherent` compares a clean cell with a recomputation from
  scratch, which no step can be checked against; the invariant `CacheInv` says it
  locally. `HeldSound`: a value held is what the closure returns on the values its
  dependencies hold now (or, for a source cell written in the open batch, held).
  `CleanBelow`: below a clean node everything is clean, which is why a walk that
  stops at a dirty node misses nothing. `FramesHold`: an activation in the middle
  of refreshing or computing has so far read what its nodes still hold, and it is
  known which of them the activation above it is about to change. `PlanKept`:
  nodes are what the plan says. Hypotheses, none of them on the engine:
  `PureSlots`, closures of computed cells get, return or throw, and a guard
  suppresses only equal values. `CachesAreLocallyCurrent` is that invariant, for
  every such program, ids recycled as they may be. `FreshCachesAreCoherent` takes
  the step to the recomputation, by induction along the plan, under two more:
  `Layered`, a closure reads items created before its own (it captures their
  handles), and `HandlesCurrent`, no handle to a computed cell names an id
  another occupant has taken, since reads through such a handle could be
  circular. The last is a condition on the state, which `graph_live` and the
  throwing program meet throughout and `graph_churn` breaks.
* **ReactionsProofs.** `ReactionsStayCurrent` states `ReactionsCurrent`, with no condition
  on the state, for programs that are `PureSlots`, `Layered` and `Undisturbed`: no
  closure throws, nothing is disposed of by name (`make_lazy` still tears its
  puller down), and no closure reads an effect. The program of `graph_live` is one
  (TLC evaluated the three on it); the first finding above is why exceptions are
  excluded, and the disposal that hides a later write is why disposals are. The
  invariant `ReactInv` has four parts. `StackKept`: an effect has its turn, from
  the check to the end of its closure, above the only flush and one at a time,
  `flushing` is that flush, and outside a batch nothing is queued without it.
  `EffectsSound`: an effect that is neither forced nor running has seen what its
  nodes hold now (or held, for a cell written in the open batch); a forced effect
  is queued or about to be checked; and an effect with a dependency that is not
  fresh is owed a run. The last is what makes re-entrance safe: with `CleanBelow`,
  a walk that stops at a dirty node leaves no effect behind it unowed.
  `TurnsHold`: the effect in its turn has gone through nodes that are fresh, or is
  queued again by whatever dirtied them, and one that is forced after it was
  asked whether it should run (`force_run` is read once) is queued again too.
  `ProgramLive`: without disposals a handle
  names its node, a node is the only one of its closure, and a puller belongs to
  the eager cell that names it. At rest nothing is owed, so every effect has seen
  fresh values, which `CoherentUpTo` equates with what the program means.
  `NoneAssumption` says that "no handle" is not a handle. TLC checked `ReactInv`
  on the program of `graph_live` before it was proved.
* **PlanesProofs**, peer plane, for every set of peers and all thresholds. What a
  consumer will know of a peer is what it was told, overridden by each event it
  has not handled; the invariant says that this is the peer's state and that no
  event tells what is known by then. A tick emits several events, in the order of
  the keys: each belongs to another peer, so their order does not matter.
* **PlanesProofs**, relay link, for all keys, overflow policies, windows, rates,
  frame sizes, credits, page sizes and crashes. Assumptions: counts are naturals,
  window, frame and page sizes at least 1 (the code's clamps). The operations of
  a key are in five stages: pages not acknowledged, inbox, ranked windows, frames,
  shard. `RelayInv` says per key that each stage is in order and wholly before the
  next, that the numbers under way reach up to the last one sent without a hole
  if the policy is lossless, and that what the egress cursor has passed is
  downstream. Every action then moves windows across the border of two stages.
  The delicate ones: the priority storage takes a window from the middle, but no
  window of the same key is before it (`BestIsFirst`); an acknowledgement drops
  pages, but only delivered ones, and they are the first in line.
* **CellsProofs.** The lease, for every set of peers and lifetimes: `TokensFence`
  alone is not inductive: a grant makes all earlier tokens stale only because none
  of them is above the fence (`TokensPast`), and a renewal hands out the current
  fence only because its holder already has it. The queue cell, for all threads
  and capacities: a memoized reader shows the present value or is owed a clear;
  the closed reader is set instead of cleared, so whoever owes it must have closed
  (`ClosedOwed`). The topic, for all threads and subscribers: every reader
  that is in the map shows the stream of its id, shows nothing, or some call under
  way has found it or will find it (`StreamOwed`), whether its subscriber is
  durable, ephemeral, away or not there yet; every connected subscriber has a
  reader, or a subscribe is under way that will see to it, or a disconnect that it
  overtook took the reader (`ReaderOwed`); and gc stops at the least
  cursor, so what a durable subscriber has not read stays. Both together are `ReadersCatchUp`. Deadlines, for every clock and
  revision: `VerdictsStandAlways` needs that callers were told what is latched now
  (`DeadlineInv`); `VerdictsAreFinal` is the action property. The theorems are of
  the specification the run `cells` checks, whose other parts move or stutter.
* **ReplicasProofs**, for every set of authorities, replicas, peers, callers and
  messages, and every bound. Each part has an invariant of its own. Commands and
  receipts (`CommandInv`): until an image replaces it, the entry is a function of
  the set of messages counted, so late, repeated and reordered messages change
  nothing; the verdict is among those told, and there is a conflict exactly if two
  were. The durable client (`ClientInv`): for some n everything up to n is
  applied, everything waiting is beyond n, and n + 1 was not told; an update that
  closes the gap moves n over the whole run behind it. Families (`FamilyInv`):
  the winner of a node is the greatest stamp of the operations a
  replica has of it, stamps name one operation because a clock stays ahead of its
  own, and the node a key is mapped to is that of an operation with the key, so
  with one creator it is that creator's. There is no hypothesis on who creates
  what. The room (`RoomInv`): folding its welcome and its queue in order, a
  client gets exactly the roster, since a peer is in the room under one
  connection. Ingress (`IngressInv`): the scope is `ScopeSound` through the
  admission of an envelope (handoff, reorder buffer, release of a run, overflow
  policy), and a call that changes the merged window reports its reader, under
  `RoomToAdmit`: a policy with `reorder_window` or `high_water` zero breaks it.
  `ReadersGoStaleByGaps` needs no such hypothesis and covers every reader.

Only model-checked, and why:

* liveness (`ControlReturns`, `Settles`, `DrainEnds`, `CallsReturn`,
  `EveryItemSettles`, `EventsArrive`, `RelayDelivers`, `SilentPeersGo`): the prover
  handles neither fairness nor ENABLED;
* what recursive functions compute: the visible order of a text, fractional keys,
  the longest increasing subsequence, chart selection, the index of the edge set
  (`TextSound`, `SeqSound`, `TreeSound`, `ChartSound`, part of `KeyedSound` and
  `StorageSound`). TextCrdt and LosslessTree declare RECURSIVE operators, which
  the prover does not take at all;
* disposal through the handle of an effect (`EffectHandle` made by `effect()` is
  stamped with the generation found after its first flush, so it may name a
  successor) and `NoRerunInsideBatch` (a disposal dirties a cone without
  scheduling it; a later get in the batch schedules an effect without a flush, and
  a flush inside the batch runs it): true of the instances' programs, not of every
  one;
* the counts of `TimedSound` other than `VerdictsStand`.

## Not modelled

* Engine: batches opened inside closures, `TeardownScope`, what cleanups do, and
  the container-level undefined behaviour of a dependency set that changes while
  it is walked. Computed cells made with `computed_ripple_when` are outside
  `CacheCoherent`, since their guard keeps old values on purpose. The graph uses
  sets where the code uses the containers of GraphContainers, which are checked
  by themselves.
* Thread-safe context: the policies that delegate to standard locks, and nested
  reads by one thread. Weak memory orders other than seq_cst occur only where a
  stale read changes nothing (the spin and the token of another thread).
* Async effects: a data race on a `std::function`.
* Reliable sync: the journal bytes of `FileOutboxStore`, a snapshot provider that
  lags behind what was enqueued, data in both directions at once, `OrSet` and
  `WireLwwRegister`.
* Topic: restoring it from a snapshot, and handles a caller keeps of a reader
  the map has dropped. Reads through the handle of a disposed cell follow the
  code (by id alone) and no property is stated of them.
* Ingress: the in-process transport, pump and schedule cells. Relay: merge
  policies other than append. CRDTs: `MvRegister`, `PnCounter` and the facade
  `crdt_tree.hpp`. Statecharts: the flat `state_machine.hpp`. Service plane:
  health and routing. Signaling: the allowlist of signal kinds. Collections: the
  async family, which repeats the code over an unlocked graph. Blob transport:
  opening and mapping the region, payload bytes.
* Not at all: the codecs and wire types (`codec.hpp`, `json_codec.hpp`, most of
  `ipc.hpp`), which translate bytes and keep no state; small vectors, functions
  and reference counts, which are about object lifetimes; the C ABI and the
  interop peer (I/O); replay equivalence (digests of bytes), alignment and the
  semantic tree (floating-point and string scores); the simulation kit, which is
  test code.

## Plan

What is left is proofs, in this order:

1. the storage: `PendingExact` of GraphContainers, `BlobsResolve` of the blob
   region with `SlotsApart` under it;
2. the resilience guards (`GuardsHold`) and the keyed family
   (`HandlesStable`, `FamilyReadersCurrent`), whose readers are cleared outside the
   lock like those of the topic;
3. `OwnWritesLand` of the sequence, from the monotone clock.
