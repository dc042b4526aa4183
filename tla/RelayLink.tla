----------------------------- MODULE RelayLink -----------------------------
(***************************************************************************)
(* A relay link end to end: KeyedRelay shards on the sending side, drained *)
(* when their WindowPolicy says so and RatePolicy has a token, a           *)
(* FramedTransport, a PriorityStorage, the Inbox with its credits, and a   *)
(* SpillStore from which an egress delivers, acknowledges and, after a     *)
(* crash, replays.  The merge is concatenation, the free associative       *)
(* merge, so a window is the sequence of the operations folded into it.    *)
(***************************************************************************)
EXTENDS Integers, Sequences, SequencesExt, FiniteSets

CONSTANTS
  RelayKeys, UrgentKeys,  \* the shards, and those sent with priority 1
  MaxSent,                \* bound: operations sent per key
  relay_high_water, RelayOverflows,    \* BackpressurePolicy
  window_ops,                          \* WindowPolicy
  rate_capacity, refill_per_tick,      \* RatePolicy
  frame_size, max_credits,             \* FramedTransport, Inbox
  SpillModes, page_size,               \* SpillStore
  MaxCrashes              \* bound: crashes of the egress

ASSUME RelayLinkAssumption ==
  /\ {MaxSent, relay_high_water, rate_capacity, refill_per_tick, max_credits, MaxCrashes}
       \subseteq Nat
  /\ {window_ops, frame_size, page_size} \subseteq Nat \ {0}
  /\ SpillModes \subseteq {"AppendCompact", "CompactOnWrite"}

VARIABLES
  relayConfig, \* the overflow policy and the spill mode of this behaviour
  sent,        \* the number of operations sent, per key
  shards,      \* KeyedRelay::shards_, each with its WindowPolicy
  tokens,      \* RatePolicy::tokens_
  frames,      \* FramedTransport::buf_
  ranked,      \* PriorityStorage::items_, in the order of seq
  inbox,       \* the head of the inbox's relay
  credits,     \* Inbox::credits_
  spill,       \* SpillStore: pages_, open_fill_ and acked_
  egressCursor,      \* how many live pages this egress has delivered
  downstream,  \* the operations the egress has delivered, ever
  crashes

relayVars == <<relayConfig, sent, shards, tokens, frames, ranked, inbox, credits,
               spill, egressCursor, downstream, crashes>>

RelayInit ==
  /\ relayConfig \in [overflow : RelayOverflows, mode : SpillModes]
  /\ sent = [k \in RelayKeys |-> 0]
  /\ shards = [k \in RelayKeys |-> [head |-> <<>>, pending |-> 0, windowed |-> 0, due |-> FALSE]]
  /\ tokens = rate_capacity
  /\ frames = <<>>
  /\ ranked = <<>>
  /\ inbox = <<>>
  /\ credits = max_credits
  /\ spill = [pages |-> <<>>, open_fill |-> 0, acked |-> 0]
  /\ egressCursor = 0
  /\ downstream = {}
  /\ crashes = 0

(* The sending side. *)

read_full(r) == r.pending >= relay_high_water

\* RelayCell::ingress of an operation that is not refused.
Ingested(r, op) ==
  CASE read_full(r) /\ relayConfig.overflow = "DropNewest" -> r
    [] read_full(r) /\ relayConfig.overflow = "DropOldest" ->
         [r EXCEPT !.head = <<op>>, !.pending = 1]
    [] OTHER -> [r EXCEPT !.head = Append(@, op), !.pending = @ + 1]

\* Mutant: a window that is full starts anew and is not flushed.
WindowRestarts(r) == [r EXCEPT !.windowed = IF @ + 1 >= window_ops THEN 0 ELSE @ + 1]

\* WindowPolicy::on_ingress.
Windowed(r) ==
  IF r.windowed + 1 >= window_ops THEN [r EXCEPT !.windowed = 0, !.due = TRUE]
  ELSE [r EXCEPT !.windowed = @ + 1]

\* A producer whose operation is Blocked keeps it and tries again.
SendOp(k) ==
  /\ sent[k] < MaxSent
  /\ ~(read_full(shards[k]) /\ relayConfig.overflow = "Block")
  /\ sent' = [sent EXCEPT ![k] = @ + 1]
  /\ shards' = [shards EXCEPT ![k] = Windowed(Ingested(@, <<k, sent[k] + 1>>))]
  /\ UNCHANGED <<relayConfig, tokens, frames, ranked, inbox, credits, spill, egressCursor,
                 downstream, crashes>>

\* WindowPolicy::tick: the interval elapsed.
WindowTick(k) ==
  /\ shards[k].windowed > 0
  /\ shards' = [shards EXCEPT ![k].windowed = 0, ![k].due = TRUE]
  /\ UNCHANGED <<relayConfig, sent, tokens, frames, ranked, inbox, credits, spill, egressCursor,
                 downstream, crashes>>

\* try_egress takes a token, then the window is drained and handed over.
DrainShard(k) ==
  /\ shards[k].due /\ tokens > 0
  /\ tokens' = tokens - 1
  /\ shards' = [shards EXCEPT ![k].head = <<>>, ![k].pending = 0, ![k].due = FALSE]
  /\ frames' = IF shards[k].head = <<>> THEN frames
               ELSE Append(frames, [key |-> k, ops |-> shards[k].head])
  /\ UNCHANGED <<relayConfig, sent, ranked, inbox, credits, spill, egressCursor, downstream, crashes>>

RateTick ==
  /\ tokens < rate_capacity
  /\ tokens' = IF tokens + refill_per_tick < rate_capacity
               THEN tokens + refill_per_tick ELSE rate_capacity
  /\ UNCHANGED <<relayConfig, sent, shards, frames, ranked, inbox, credits, spill, egressCursor,
                 downstream, crashes>>

(* The receiving side. *)

\* One frame of the transport, pushed with the priority of each window's key.
Poll ==
  LET n == IF frame_size < Len(frames) THEN frame_size ELSE Len(frames)
  IN /\ n > 0
     /\ ranked' = ranked \o SubSeq(frames, 1, n)
     /\ frames' = SubSeq(frames, n + 1, Len(frames))
     /\ UNCHANGED <<relayConfig, sent, shards, tokens, inbox, credits, spill, egressCursor,
                    downstream, crashes>>

priority(w) == IF w.key \in UrgentKeys THEN 1 ELSE 0

\* The index PriorityStorage::pop takes: highest priority, then first pushed.
Best(items) ==
  CHOOSE i \in 1..Len(items) :
    /\ \A j \in 1..Len(items) : priority(items[j]) <= priority(items[i])
    /\ \A j \in 1..(i - 1) : priority(items[j]) < priority(items[i])

\* The transport delivers when ready(); the inbox conflates, its default.
ReceiveOp ==
  /\ credits > 0
  /\ ranked # <<>>
  /\ credits' = credits - 1
  /\ inbox' = inbox \o ranked[Best(ranked)].ops
  /\ ranked' = RemoveAt(ranked, Best(ranked))
  /\ UNCHANGED <<relayConfig, sent, shards, tokens, frames, spill, egressCursor, downstream, crashes>>

push_page(s, window) == [s EXCEPT !.pages = Append(@, window)]

Spilled(s, window) ==
  IF relayConfig.mode = "AppendCompact" THEN push_page(s, window)
  ELSE IF s.open_fill >= page_size \/ s.pages = <<>>
  THEN [push_page(s, window) EXCEPT !.open_fill = 1]
  ELSE [s EXCEPT !.pages[Len(s.pages)] = @ \o window, !.open_fill = @ + 1]

Replenished(n) == IF credits + n < max_credits THEN credits + n ELSE max_credits

\* The application consumes the window, gives back n credits and spills it.
Consume ==
  \E n \in 1..max_credits :
    /\ inbox # <<>> \/ credits < max_credits
    /\ inbox' = <<>>
    /\ credits' = Replenished(n)
    /\ spill' = IF inbox = <<>> THEN spill ELSE Spilled(spill, inbox)
    /\ UNCHANGED <<relayConfig, sent, shards, tokens, frames, ranked, egressCursor, downstream, crashes>>

(* The egress of the spilled pages. *)

DeliverPage ==
  /\ egressCursor < Len(spill.pages)
  /\ downstream' = downstream \cup ToSet(spill.pages[egressCursor + 1])
  /\ egressCursor' = egressCursor + 1
  /\ UNCHANGED <<relayConfig, sent, shards, tokens, frames, ranked, inbox, credits, spill, crashes>>

\* Mutant: the acknowledgement takes in the page after the one named.
AckedPast(n) == IF n < Len(spill.pages) THEN n + 1 ELSE n

\* How many pages ack_through of the n-th page acknowledges.
AckedThrough(n) == n

AckPages ==
  /\ spill.acked < egressCursor
  /\ spill' = [spill EXCEPT !.acked = AckedThrough(egressCursor)]
  /\ UNCHANGED <<relayConfig, sent, shards, tokens, frames, ranked, inbox, credits, egressCursor,
                 downstream, crashes>>

Reclaim ==
  /\ spill.acked > 0
  /\ spill' = [spill EXCEPT !.pages = SubSeq(@, spill.acked + 1, Len(@)), !.acked = 0]
  /\ egressCursor' = IF egressCursor > spill.acked THEN egressCursor - spill.acked ELSE 0
  /\ UNCHANGED <<relayConfig, sent, shards, tokens, frames, ranked, inbox, credits, downstream,
                 crashes>>

\* The egress restarts and replays from the ack egressCursor.
CrashEgress ==
  /\ crashes < MaxCrashes
  /\ crashes' = crashes + 1
  /\ egressCursor' = spill.acked
  /\ UNCHANGED <<relayConfig, sent, shards, tokens, frames, ranked, inbox, credits, spill,
                 downstream>>

RelayNext ==
  \/ \E k \in RelayKeys : SendOp(k) \/ WindowTick(k) \/ DrainShard(k)
  \/ RateTick \/ Poll \/ ReceiveOp \/ Consume
  \/ DeliverPage \/ AckPages \/ Reclaim \/ CrashEgress

\* Timers go on, the transport is polled, the application consumes and the
\* egress goes on delivering.
RelayFairness ==
  /\ \A k \in RelayKeys : WF_relayVars(WindowTick(k)) /\ WF_relayVars(DrainShard(k))
  /\ WF_relayVars(RateTick) /\ WF_relayVars(Poll) /\ WF_relayVars(ReceiveOp)
  /\ WF_relayVars(Consume) /\ WF_relayVars(DeliverPage)

RelaySpec == RelayInit /\ [][RelayNext]_relayVars /\ RelayFairness

-----------------------------------------------------------------------------

Lossless == relayConfig.overflow \in {"Block", "Conflate", "Spill"}

Ops(windows) == [i \in 1..Len(windows) |-> windows[i].ops]

\* Where the operations of key k are that are neither acknowledged nor lost, the
\* stage that delivers first at the front, each stage as its windows.
Stages(k) ==
  <<SubSeq(spill.pages, spill.acked + 1, Len(spill.pages)), <<inbox>>,
    Ops(ranked), Ops(frames), <<shards[k].head>>>>

NumbersIn(k, windows) ==
  {n \in 1..MaxSent : \E i \in DOMAIN windows : \E x \in DOMAIN windows[i] : windows[i][x] = <<k, n>>}

Underway(k) == UNION {NumbersIn(k, Stages(k)[s]) : s \in 1..5}

\* The operations of key k come out of these windows in the order they were sent.
InOrder(k, windows) ==
  \A i, j \in DOMAIN windows : \A x \in DOMAIN windows[i], y \in DOMAIN windows[j] :
    LET op == windows[i][x]
        later == windows[j][y]
    IN op[1] = k /\ later[1] = k /\ (i < j \/ (i = j /\ x < y)) => op[2] < later[2]

\* However the stages flush, frame, rank and spill, the operations of a key
\* keep their order and none is doubled; where the overflow policy loses
\* nothing, they are a run without a hole up to the last one sent.
RelayInOrder ==
  \A k \in RelayKeys :
    /\ \A s \in 1..5 : InOrder(k, Stages(k)[s])
    /\ \A s, t \in 1..5 : s < t =>
         \A m \in NumbersIn(k, Stages(k)[s]), n \in NumbersIn(k, Stages(k)[t]) : m < n
    /\ Underway(k) \subseteq 1..sent[k]
    /\ Lossless => \A n \in Underway(k) : n..sent[k] \subseteq Underway(k)

\* With CompactOnWrite an open page goes on growing after the egress delivered or
\* acknowledged it, and what it takes in then is delivered by no replay from the
\* cursor: only pages of one window each are a lossless tail.
PagesSealed == relayConfig.mode = "AppendCompact"

\* What was accepted is delivered downstream or will still be: a page is
\* acknowledged, and reclaimed, only after the egress delivered all of it, so
\* a replay after a crash gives back everything that is missing.
SpillLossless ==
  Lossless /\ PagesSealed => \A k \in RelayKeys : \A n \in 1..sent[k] :
                               <<k, n>> \in downstream \/ n \in Underway(k)

\* A link keeps what it accepted, in order: both of the above, whatever the
\* overflow policy, the windows and the crashes (KeyedRelay, SpillStore).
RelayKeeps == RelayInOrder /\ SpillLossless

\* Credits, tokens and windows never keep the link from delivering what a
\* lossless sender sent, crashes of the egress included.
RelayDelivers ==
  <>[](Lossless /\ PagesSealed =>
         \A k \in RelayKeys : \A n \in 1..sent[k] : <<k, n>> \in downstream)

=============================================================================
