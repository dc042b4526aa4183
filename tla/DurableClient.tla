--------------------------- MODULE DurableClient ---------------------------
(***************************************************************************)
(* DurableClient::observe with its DurableDeduplicator and                 *)
(* DurableProjectionClient, for one projection.  The broker delivers       *)
(* envelopes late, again and in any order; the host sends an update again  *)
(* under a new message id after a failover, and may contradict itself.     *)
(***************************************************************************)
EXTENDS Integers, Sequences, FiniteSets, FiniteSetsExt

CONSTANTS
  MaxPosition,    \* bound: source positions are 1..MaxPosition
  Attempts,       \* the message ids under which one position is sent
  Fingerprints    \* what an update may say at its position

\* Positions are unsigned.
ASSUME ClientAssumption == MaxPosition \in Nat

VARIABLES
  seenMessages,   \* DurableDeduplicator::seen_
  fingerprints,   \* OwnerState::fingerprints, a set of pairs
  pendingUpdates, \* OwnerState::pending
  applied,        \* OwnerState::applied_positions
  firstTold       \* what each position said when an update for it first came in

clientVars == <<seenMessages, fingerprints, pendingUpdates, applied, firstTold>>

\* An update carries its position as projection_version, as a host that counts
\* its versions does.  A faulty one is not CompleteHistory, or has no id.
ClientMessages ==
  [position : 1..MaxPosition, attempt : Attempts, fingerprint : Fingerprints,
   fault : {"none", "envelope", "update"}]

MessageId(m) == <<m.position, m.attempt>>

source_position == Len(applied)

ClientInit ==
  /\ seenMessages = {}
  /\ fingerprints = {}
  /\ pendingUpdates = {}
  /\ applied = <<>>
  /\ firstTold = {}

KnownAt(pairs, position) == \E p \in pairs : p[1] = position

\* The position that is reached when position is applied and what was
\* buffered behind it without a gap follows.
Through(position) ==
  Max({n \in position..MaxPosition :
         \A i \in (position + 1)..n : KnownAt(pendingUpdates, i)})

\* DurableProjectionClient::apply.
AdmitUpdate(position, fingerprint) ==
  IF KnownAt(fingerprints, position) \/ KnownAt(pendingUpdates, position)
  THEN UNCHANGED <<fingerprints, pendingUpdates, applied>>   \* Duplicate, IdentityConflict
  ELSE IF position > source_position + 1
  THEN /\ pendingUpdates' = pendingUpdates \cup {<<position, fingerprint>>}
       /\ UNCHANGED <<fingerprints, applied>>
  ELSE LET last == Through(position)
           flushed == {p \in pendingUpdates : p[1] \in (position + 1)..last}
       IN /\ fingerprints' = fingerprints \cup flushed \cup {<<position, fingerprint>>}
          /\ pendingUpdates' = pendingUpdates \ flushed
          /\ applied' = applied \o [i \in 1..(last - position + 1) |-> position + i - 1]

\* observe: validation, then the message id, then the projection.
Observe(m) ==
  /\ m.fault # "envelope"
  /\ ~\E s \in seenMessages : MessageId(s) = MessageId(m)   \* else Duplicate or Conflict
  /\ seenMessages' = seenMessages \cup {m}
  /\ IF m.fault = "update"
     THEN UNCHANGED <<fingerprints, pendingUpdates, applied, firstTold>>
     ELSE /\ AdmitUpdate(m.position, m.fingerprint)
          /\ firstTold' = IF KnownAt(firstTold, m.position) THEN firstTold
                          ELSE firstTold \cup {<<m.position, m.fingerprint>>}

ClientNext == \E m \in ClientMessages : Observe(m)

ClientSpec == ClientInit /\ [][ClientNext]_clientVars

-----------------------------------------------------------------------------

\* The projection is the longest prefix without a gap of the updates that came
\* in, each applied once and in order with what its position first said,
\* however the broker repeats and reorders them and the host sends them again.
ProjectionIsPrefix ==
  /\ applied = [i \in 1..Len(applied) |-> i]
  /\ fingerprints = {p \in firstTold : p[1] <= source_position}
  /\ ~KnownAt(firstTold, source_position + 1)

=============================================================================
