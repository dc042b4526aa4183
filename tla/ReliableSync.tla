---------------------------- MODULE ReliableSync ----------------------------
(***************************************************************************)
(* Two SyncDrivers of reliable_sync.hpp over one connection: the sender    *)
(* has a StoredOutbox, the receiver a ResyncCoordinator; data flows one    *)
(* way, acknowledgements and resync requests the other.  The connection is *)
(* FIFO; when it breaks, what was handed to it and not yet read may be     *)
(* lost, sends fail, and after the reads have failed too the hosts open a  *)
(* new one and call on_reconnect on both drivers.  A sender that stops     *)
(* loses what it had enqueued and not appended; its store survives.        *)
(*                                                                         *)
(* The sender's events are numbered.  A delta from epoch b to epoch e      *)
(* carries the events b + 1 .. e, a snapshot at epoch e stands for 1 .. e. *)
(***************************************************************************)
EXTENDS Integers, Sequences, FiniteSets

CONSTANTS
  MaxEpoch,   \* bound: events the sender accepts
  MaxSpan,    \* bound: events in one delta
  MaxBreaks,  \* bound: times the connection breaks
  MaxStops    \* bound: times a driver is stopped and started again

ASSUME ReliableSyncAssumption ==
  MaxEpoch \in Nat /\ MaxSpan \in Nat \ {0} /\ MaxBreaks \in Nat /\ MaxStops \in Nat

VARIABLES
  epoch,               \* events the sender's host has enqueued
  enqueued,            \* pending_ of the sender
  stored,              \* entries of the outbox store
  cursor,              \* the store's saved cursor
  acked_through,       \* acked_through_ of the outbox handle
  peer_acked_through,  \* peer_acked_through_
  replay_pending,      \* replay_pending_
  replaying,           \* the frames the replay in tick() still has to send
  stalled,             \* stalled_since_ of the sender is set
  phase,               \* where the sender is in tick()
  last_epoch,          \* last_epoch_ of the receiver's coordinator
  resyncing,           \* resyncing_
  ack_owed,            \* ack_owed_ of the receiver
  folded,              \* the events the receiver's projection has folded
  connected, toReceiver, toSender,
  breaks, stops,
  appended             \* history: the frames the outbox was given

outbox == <<stored, cursor, acked_through>>
sender == <<epoch, enqueued, outbox, peer_acked_through, replay_pending, replaying, stalled, phase>>
receiver == <<last_epoch, resyncing, ack_owed, folded>>
network == <<connected, toReceiver, toSender, breaks>>
syncVars == <<sender, receiver, network, stops, appended>>

Epochs == 0 .. MaxEpoch
Delta(b, e) == [kind |-> "delta", base |-> b, epoch |-> e]
Snapshot(e) == [kind |-> "snapshot", base |-> 0, epoch |-> e]
Frames == [kind : {"delta", "snapshot"}, base : Epochs, epoch : Epochs]
Controls == [kind : {"ack", "request"}, epoch : Epochs]

TheLargest(a, b, c) == IF a >= b /\ a >= c THEN a ELSE IF b >= c THEN b ELSE c

SyncInit ==
  /\ epoch = 0 /\ enqueued = << >>
  /\ stored = {} /\ cursor = 0 /\ acked_through = 0
  /\ peer_acked_through = 0 /\ replay_pending = FALSE /\ replaying = << >> /\ stalled = FALSE /\ phase = "idle"
  /\ last_epoch = 0 /\ resyncing = FALSE /\ ack_owed = FALSE /\ folded = << >>
  /\ connected = TRUE /\ toReceiver = << >> /\ toSender = << >> /\ breaks = 0 /\ stops = 0
  /\ appended = {}

-----------------------------------------------------------------------------
(* The outbox *)

\* Mutant: the replay starts one frame too late.
ReplayPast(c) ==
  LET above == {f \in stored : f.epoch > TheLargest(c, acked_through, cursor) + 1}
      rank(f) == Cardinality({g \in above : g.epoch <= f.epoch}) IN
  [i \in 1 .. Cardinality(above) |-> CHOOSE f \in above : rank(f) = i]

\* replay_from: the frames above every cursor, oldest first.
ReplayFrom(c) ==
  LET above == {f \in stored : f.epoch > TheLargest(c, acked_through, cursor)}
      rank(f) == Cardinality({g \in above : g.epoch <= f.epoch}) IN
  [i \in 1 .. Cardinality(above) |-> CHOOSE f \in above : rank(f) = i]

Deleted(c) == {f \in stored : f.epoch <= c}

\* ack_through: cursors never go back, frames up to the target are deleted.
AckThrough(e) ==
  LET target == TheLargest(acked_through, e, cursor) IN
  /\ cursor' = IF target > acked_through THEN target ELSE cursor
  /\ acked_through' = target
  /\ stored' = stored \ Deleted(target)

-----------------------------------------------------------------------------
(* The sender *)

\* The host accepts events and enqueues one delta for them.
Enqueue(n) ==
  /\ phase = "idle" /\ epoch + n <= MaxEpoch
  /\ epoch' = epoch + n
  /\ enqueued' = Append(enqueued, Delta(epoch, epoch + n))
  /\ UNCHANGED <<outbox, peer_acked_through, replay_pending, replaying, stalled, phase, receiver, network, stops, appended>>

\* tick 1: replay the frames that are not acknowledged; a failed send leaves
\* the rest to the tick after the next reconnect.
BeginTick ==
  /\ phase = "idle" /\ phase' = "replay"
  /\ replaying' = IF replay_pending THEN ReplayFrom(peer_acked_through) ELSE << >>
  /\ replay_pending' = FALSE
  /\ UNCHANGED <<epoch, enqueued, outbox, peer_acked_through, stalled, receiver, network, stops, appended>>

ReplayOne ==
  /\ phase = "replay" /\ replaying # << >>
  /\ IF connected
     THEN /\ toReceiver' = Append(toReceiver, Head(replaying))
          /\ replaying' = Tail(replaying)
          /\ UNCHANGED <<replay_pending, stalled>>
     ELSE /\ replaying' = << >> /\ replay_pending' = TRUE /\ stalled' = TRUE
          /\ UNCHANGED toReceiver
  /\ UNCHANGED <<epoch, enqueued, outbox, peer_acked_through, phase, receiver, connected, toSender,
                 breaks, stops, appended>>

EndReplay ==
  /\ phase = "replay" /\ replaying = << >>
  /\ phase' = "drain"
  /\ UNCHANGED <<epoch, enqueued, outbox, peer_acked_through, replay_pending, replaying, stalled,
                 receiver, network, stops, appended>>

\* tick 2: append, then send; a failed send stalls the drain.
DrainOne ==
  /\ phase = "drain" /\ ~stalled /\ enqueued # << >>
  /\ stored' = stored \cup {Head(enqueued)} /\ appended' = appended \cup {Head(enqueued)}
  /\ enqueued' = Tail(enqueued)
  /\ toReceiver' = IF connected THEN Append(toReceiver, Head(enqueued)) ELSE toReceiver
  /\ stalled' = ~connected
  /\ UNCHANGED <<epoch, cursor, acked_through, peer_acked_through, replay_pending, replaying, phase, receiver,
                 connected, toSender, breaks, stops>>

EndDrain ==
  /\ phase = "drain" /\ (stalled \/ enqueued = << >>)
  /\ phase' = "receive"
  /\ UNCHANGED <<epoch, enqueued, outbox, peer_acked_through, replay_pending, replaying, stalled, receiver,
                 network, stops, appended>>

\* tick 3: acknowledgements prune the outbox, requests are answered by the
\* provider with a snapshot of everything enqueued so far.
ReceiveControl ==
  /\ phase = "receive" /\ toSender # << >>
  /\ LET m == Head(toSender) IN
     \/ /\ m.kind = "ack"
        /\ peer_acked_through' = IF m.epoch > peer_acked_through THEN m.epoch ELSE peer_acked_through
        /\ AckThrough(m.epoch)
        /\ UNCHANGED <<toReceiver, stalled>>
     \/ /\ m.kind = "request"
        /\ IF connected THEN toReceiver' = Append(toReceiver, Snapshot(epoch)) /\ UNCHANGED stalled
                        ELSE stalled' = TRUE /\ UNCHANGED toReceiver
        /\ UNCHANGED <<outbox, peer_acked_through>>
  /\ toSender' = Tail(toSender)
  /\ UNCHANGED <<epoch, enqueued, replay_pending, replaying, phase, receiver, connected, breaks, stops, appended>>

\* The source is exhausted, or its read fails.
EndTick ==
  /\ phase = "receive" /\ toSender = << >>
  /\ phase' = "idle"
  /\ UNCHANGED <<epoch, enqueued, outbox, peer_acked_through, replay_pending, replaying, stalled, receiver,
                 network, stops, appended>>

-----------------------------------------------------------------------------
(* The receiver *)

\* Mutant: a delta that is already applied is applied again.
AppliesAgain(f) == f.base <= last_epoch /\ f.epoch >= f.base + 1

\* ingest_delta applies a delta that starts where the receiver is.
Applies(f) == f.base = last_epoch /\ f.epoch >= f.base + 1

ReceiveData ==
  /\ toReceiver # << >>
  /\ LET f == Head(toReceiver) IN
     \/ /\ f.kind = "snapshot"
        /\ folded' = [i \in 1 .. f.epoch |-> i]
        /\ last_epoch' = f.epoch /\ resyncing' = FALSE /\ ack_owed' = TRUE
        /\ UNCHANGED toSender
     \/ /\ f.kind = "delta" /\ Applies(f)
        /\ folded' = folded \o [i \in 1 .. f.epoch - f.base |-> f.base + i]
        /\ last_epoch' = f.epoch /\ resyncing' = FALSE /\ ack_owed' = TRUE
        /\ UNCHANGED toSender
     \/ /\ f.kind = "delta" /\ ~Applies(f) /\ (f.base <= last_epoch \/ resyncing)
        /\ UNCHANGED <<receiver, toSender>>
     \/ /\ f.kind = "delta" /\ f.base > last_epoch /\ ~resyncing
        /\ resyncing' = TRUE
        /\ toSender' = IF connected THEN Append(toSender, [kind |-> "request", epoch |-> last_epoch])
                       ELSE toSender
        /\ UNCHANGED <<last_epoch, ack_owed, folded>>
  /\ toReceiver' = Tail(toReceiver)
  /\ UNCHANGED <<sender, connected, breaks, stops, appended>>

\* tick 4, reached when the source is exhausted and not broken.
Advertise ==
  /\ toReceiver = << >> /\ connected /\ ack_owed
  /\ toSender' = Append(toSender, [kind |-> "ack", epoch |-> last_epoch])
  /\ ack_owed' = FALSE
  /\ UNCHANGED <<sender, last_epoch, resyncing, folded, connected, toReceiver, breaks, stops, appended>>

-----------------------------------------------------------------------------
(* The connection and the hosts *)

\* What has not been read is lost from some point on.
Break ==
  /\ connected /\ breaks < MaxBreaks
  /\ connected' = FALSE /\ breaks' = breaks + 1
  /\ \E n \in 0 .. Len(toReceiver), m \in 0 .. Len(toSender) :
       toReceiver' = SubSeq(toReceiver, 1, n) /\ toSender' = SubSeq(toSender, 1, m)
  /\ UNCHANGED <<sender, receiver, stops, appended>>

\* Both reads have failed; on_reconnect on both drivers.
Reconnect ==
  /\ ~connected /\ toReceiver = << >> /\ toSender = << >> /\ phase = "idle"
  /\ connected' = TRUE
  /\ replay_pending' = TRUE /\ stalled' = FALSE /\ ack_owed' = TRUE
  /\ UNCHANGED <<epoch, enqueued, outbox, peer_acked_through, replaying, phase, last_epoch,
                 resyncing, folded, toReceiver, toSender, breaks, stops, appended>>

\* The sending process stops; its host comes back with the store and with its
\* own state, and opens a connection with a new driver.
StopSender ==
  /\ stops < MaxStops /\ stops' = stops + 1
  /\ enqueued' = << >> /\ acked_through' = cursor
  /\ peer_acked_through' = 0 /\ replay_pending' = FALSE /\ replaying' = << >>
  /\ stalled' = FALSE /\ phase' = "idle"
  /\ connected' = FALSE /\ toSender' = << >>
  /\ \E n \in 0 .. Len(toReceiver) : toReceiver' = SubSeq(toReceiver, 1, n)
  /\ UNCHANGED <<epoch, stored, cursor, receiver, breaks, appended>>

-----------------------------------------------------------------------------

SyncNext ==
  \/ \E n \in 1 .. MaxSpan : Enqueue(n)
  \/ BeginTick \/ ReplayOne \/ EndReplay \/ DrainOne \/ EndDrain \/ ReceiveControl \/ EndTick
  \/ ReceiveData \/ Advertise
  \/ Break \/ Reconnect \/ StopSender

SyncSpec == SyncInit /\ [][SyncNext]_syncVars

\* The hosts tick their drivers and reconnect a broken connection.
SenderTicks ==
  BeginTick \/ ReplayOne \/ EndReplay \/ DrainOne \/ EndDrain \/ ReceiveControl \/ EndTick
SyncFairness ==
  /\ WF_syncVars(SenderTicks) /\ WF_syncVars(ReceiveData \/ Advertise)
  /\ SF_syncVars(Reconnect)

FairSyncSpec == SyncSpec /\ SyncFairness

-----------------------------------------------------------------------------

\* The drivers' variables have their types.
SyncTypeOK ==
  /\ epoch \in Epochs /\ enqueued \in Seq(Frames) /\ stored \subseteq Frames
  /\ cursor \in Epochs /\ acked_through \in Epochs /\ peer_acked_through \in Epochs
  /\ replay_pending \in BOOLEAN /\ stalled \in BOOLEAN /\ phase \in {"idle", "replay", "drain", "receive"}
  /\ replaying \in Seq(Frames)
  /\ last_epoch \in Epochs /\ resyncing \in BOOLEAN /\ ack_owed \in BOOLEAN
  /\ folded \in Seq(1 .. MaxEpoch)
  /\ connected \in BOOLEAN /\ toReceiver \in Seq(Frames) /\ toSender \in Seq(Controls)

\* Exactly-once effect: across replays, snapshots, breaks and restarts the
\* projection has folded each event up to last_epoch once, in order.
FoldedOnce == folded = [i \in 1 .. last_epoch |-> i]

\* At-least-once delivery: a frame given to the outbox stays there until the
\* receiver has reached its epoch, also when the sender is stopped in between.
RetainedUntilApplied == \A f \in appended : f.epoch > last_epoch => f \in stored

\* Both of the above, and the types: replays, snapshots, breaks and restarts
\* neither lose nor repeat an event of the journal (StoredOutbox,
\* SyncDriver, ResyncCoordinator).
SyncExact == SyncTypeOK /\ FoldedOnce /\ RetainedUntilApplied

\* As long as the sender is not stopped, every event it accepts reaches the
\* projection.
EventsArrive ==
  <>[](stops = 0 => last_epoch >= epoch)

\* A receiver that has detected a gap gets out of it.
GapRecovered == resyncing ~> ~resyncing

=============================================================================
