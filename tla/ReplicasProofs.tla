---------------------------- MODULE ReplicasProofs ----------------------------
(***************************************************************************)
(* The parts that admit, fold or replicate what comes from elsewhere, for  *)
(* every set of replicas, peers and messages and every bound.  They run    *)
(* apart in ReplicasSpec, so that each has an inductive invariant of its   *)
(* own, kept by the steps of its component alone.                          *)
(***************************************************************************)
EXTENDS MCReplicas, FiniteSetTheorems, SequenceTheorems, TLAPS

-----------------------------------------------------------------------------
(* Greatest elements *)

\* A set of naturals with a member and a bound has a greatest member, and Max
\* finds it.
LEMMA MaxOfBounded ==
  ASSUME NEW S, S \subseteq Nat, S # {}, NEW b \in Nat, \A x \in S : x <= b
  PROVE  Max(S) \in S /\ \A y \in S : y <= Max(S)
<1> DEFINE Gaps == {b - x : x \in S}
<1>1. Gaps \subseteq Nat /\ Gaps # {}
  <2>1. \A x \in S : b - x \in Nat
    <3> SUFFICES ASSUME NEW x \in S PROVE b - x \in Nat OBVIOUS
    <3>1. x \in Nat /\ x <= b OBVIOUS
    <3> QED BY <3>1
  <2> QED BY <2>1
<1>2. PICK g \in Gaps : \A h \in Gaps : ~ (<<h, g>> \in OpToRel(<, Nat))
  <2> HIDE DEF Gaps
  <2> QED BY <1>1, WFMin, NatLessThanWellFounded
<1>3. PICK x \in S : g = b - x BY <1>2
<1>4. \A y \in S : y <= x
  <2> SUFFICES ASSUME NEW y \in S PROVE y <= x OBVIOUS
  <2>1. b - y \in Gaps BY DEF Gaps
  <2>2. ~ (b - y < b - x) BY <1>1, <1>2, <1>3, <2>1 DEF OpToRel
  <2> QED BY <2>2
<1>5. \E z \in S : \A y \in S : z >= y
  <2>1. \A y \in S : x >= y BY <1>4
  <2> QED BY <2>1
<1>6. Max(S) \in S /\ \A y \in S : Max(S) >= y BY <1>5 DEF Max
<1> QED BY <1>6

\* A set of naturals with a member has a least one, and Min finds it.
LEMMA MinOfNaturals ==
  ASSUME NEW S, S \subseteq Nat, S # {}
  PROVE  Min(S) \in S /\ \A y \in S : Min(S) <= y
<1>1. PICK x \in S : \A y \in S : ~ (<<y, x>> \in OpToRel(<, Nat))
  BY WFMin, NatLessThanWellFounded
<1>2. \A y \in S : x <= y
  <2> SUFFICES ASSUME NEW y \in S PROVE x <= y OBVIOUS
  <2>1. x \in Nat /\ y \in Nat OBVIOUS
  <2>2. ~ (y < x) BY <1>1, <2>1 DEF OpToRel
  <2> QED BY <2>1, <2>2
<1> QED BY <1>2 DEF Min

-----------------------------------------------------------------------------
(* The command and its receipts *)

\* The outcomes that the counted messages of a set name.
Verdicts(msgs) == {terminal_status_of(m) : m \in {r \in msgs \cap Receipts : is_terminal(r)}}

\* How far the events of a set say that the command got.
ToldRanks(msgs) == {phase_rank("Submitted")} \cup {Rank(m) : m \in msgs \cap Events}

\* Two authorities contradict each other.
Split(verdicts) == \E a, b \in verdicts : a # b

CommandTypes ==
  /\ entry \in CommandEntries \cup {NoEntry}
  /\ \A i \in images : i.entry \in CommandEntries
  /\ conflict \in BOOLEAN
  /\ receipts_by_id \subseteq Receipts
  /\ terminal \in {NoEntry, "Applied", "Rejected"}

\* What was counted before an image came determines the entry.
EntryFolds ==
  /\ entry = NoEntry => seen = {} /\ ~conflict
  /\ entry # NoEntry /\ ~imaged =>
       /\ conflict <=> Split(Verdicts(seen))
       /\ entry.terminal <=> Verdicts(seen) # {}
       /\ Verdicts(seen) # {} => entry.status \in Verdicts(seen)
       /\ Verdicts(seen) = {} => /\ entry.status \notin Terminals
                                 /\ phase_rank(entry.status) \in ToldRanks(seen)
                                 /\ \A n \in ToldRanks(seen) : n <= phase_rank(entry.status)

CommandInv == CommandTypes /\ EntryFolds /\ OneVerdict

\* A message is a receipt or an event, never both.
LEMMA MessagesApart ==
  /\ \A m \in Receipts : m.type = "receipt" /\ m \notin Events
  /\ \A m \in Events : m.type = "event" /\ m \notin Receipts
BY DEF Receipts, Events

\* A terminal receipt names a terminal status.
LEMMA VerdictOfReceipt ==
  ASSUME NEW m \in Receipts, is_terminal(m)
  PROVE  terminal_status_of(m) \in Terminals
BY DEF Receipts, is_terminal, terminal_status_of, Terminals

LEMMA VerdictsTerminal == \A msgs : Verdicts(msgs) \subseteq Terminals
BY VerdictOfReceipt DEF Verdicts

\* What a counted receipt adds to the verdicts, and an event to the ranks.
LEMMA ReceiptAdds ==
  ASSUME NEW msgs, NEW m \in Receipts
  PROVE  /\ ToldRanks(msgs \cup {m}) = ToldRanks(msgs)
         /\ is_terminal(m) => Verdicts(msgs \cup {m}) = Verdicts(msgs) \cup {terminal_status_of(m)}
         /\ ~is_terminal(m) => Verdicts(msgs \cup {m}) = Verdicts(msgs)
<1>1. ToldRanks(msgs \cup {m}) = ToldRanks(msgs) BY MessagesApart DEF ToldRanks
<1>2. ASSUME is_terminal(m)
      PROVE  Verdicts(msgs \cup {m}) = Verdicts(msgs) \cup {terminal_status_of(m)}
  BY <1>2 DEF Verdicts
<1>3. ASSUME ~is_terminal(m) PROVE Verdicts(msgs \cup {m}) = Verdicts(msgs)
  BY <1>3 DEF Verdicts
<1> QED BY <1>1, <1>2, <1>3

LEMMA EventAdds ==
  ASSUME NEW msgs, NEW m \in Events
  PROVE  /\ ToldRanks(msgs \cup {m}) = ToldRanks(msgs) \cup {Rank(m)}
         /\ Verdicts(msgs \cup {m}) = Verdicts(msgs)
BY MessagesApart DEF Verdicts, ToldRanks

\* The ranks of the phases.
LEMMA PhaseRanks ==
  /\ phase_rank("Submitted") = 0 /\ phase_rank("Accepted") = 1 /\ phase_rank("Running") = 2
  /\ \A s \in Terminals : phase_rank(s) = 3
BY DEF phase_rank, Terminals

\* A rank that was told is a number.
LEMMA EventRanks == \A m \in Events : Rank(m) \in {0, 1, 2}
<1> SUFFICES ASSUME NEW m \in Events PROVE Rank(m) \in {0, 1, 2} OBVIOUS
<1>1. progress_status_of(m.kind) \in {"Submitted", "Accepted", "Running"}
  BY DEF Events, progress_status_of
<1> QED BY <1>1, PhaseRanks DEF Rank

\* More than one verdict are two that differ.
LEMMA SplitIsMany ==
  ASSUME NEW msgs
  PROVE  Cardinality(Verdicts(msgs)) > 1 <=> Split(Verdicts(msgs))
<1> DEFINE V == Verdicts(msgs)
<1>1. V \subseteq Terminals BY VerdictsTerminal
<1>2. IsFiniteSet(Terminals)
  <2>1. Terminals = ({"Applied"} \cup {"Rejected"}) \cup {"Cancelled"} BY DEF Terminals
  <2> QED BY <2>1, FS_Singleton, FS_Union
<1>3. IsFiniteSet(V) BY <1>1, <1>2, FS_Subset
<1> HIDE DEF V
<1>4. ASSUME NEW a \in V, NEW b \in V, a # b PROVE Cardinality(V) > 1
  <2>1. IsFiniteSet({a}) /\ Cardinality({a}) = 1 BY FS_Singleton
  <2>2. Cardinality({a} \cup {b}) = 2 BY <2>1, <1>4, FS_AddElement
  <2>3. {a} \cup {b} \subseteq V BY <1>4
  <2>4. Cardinality({a} \cup {b}) <= Cardinality(V) BY <2>3, <1>3, FS_Subset
  <2>5. Cardinality(V) \in Nat BY <1>3, FS_CardinalityType
  <2> QED BY <2>2, <2>4, <2>5
<1>5. ASSUME \A a, b \in V : a = b PROVE ~(Cardinality(V) > 1)
  <2>1. CASE V = {} BY <2>1, FS_EmptySet
  <2>2. CASE V # {}
    <3>1. PICK a \in V : V = {a} BY <2>2, <1>5
    <3> QED BY <3>1, FS_Singleton
  <2> QED BY <2>1, <2>2
<1> QED BY <1>4, <1>5 DEF Split, V

LEMMA CommandInvInit == CommandInit => CommandInv
BY DEF CommandInit, CommandInv, CommandTypes, EntryFolds, OneVerdict

\* The invariant says what the run checks.
LEMMA CommandInvImplies == CommandInv => CommandFoldsSeen /\ OneVerdict
<1> SUFFICES ASSUME CommandInv, entry # NoEntry, ~imaged PROVE CommandFoldsSeen
  BY DEF CommandInv, CommandFoldsSeen
<1> QED BY SplitIsMany DEF CommandInv, EntryFolds, CommandFoldsSeen, Verdicts, ToldRanks

\* An event moves the entry to the furthest phase told, unless it is terminal.
LEMMA EventFolds ==
  ASSUME CommandInv, NEW m \in Events, ApplyEvent(m)
  PROVE  EntryFolds' /\ entry' \in CommandEntries
<1> DEFINE status == progress_status_of(m.kind)
<1>1. entry \in CommandEntries /\ entry # NoEntry
  BY DEF CommandInv, CommandTypes, ApplyEvent
<1>2. status \in {"Submitted", "Accepted", "Running"} /\ Rank(m) = phase_rank(status)
  BY DEF Events, progress_status_of, Rank
<1>3. Rank(m) \in {0, 1, 2} /\ (status = "Submitted" => Rank(m) = 0)
  BY <1>2, PhaseRanks
<1>4. /\ ToldRanks(seen') = ToldRanks(seen) \cup {Rank(m)}
      /\ Verdicts(seen') = Verdicts(seen)
  BY EventAdds DEF ApplyEvent
<1>5. 0 \in ToldRanks(seen) BY PhaseRanks DEF ToldRanks
<1>6. phase_rank(entry.status) \in {0, 1, 2, 3}
  BY <1>1, PhaseRanks DEF CommandEntries
<1>7. entry.status \notin Terminals => phase_rank(entry.status) \in {0, 1, 2}
  BY <1>1, PhaseRanks DEF CommandEntries
<1> HIDE DEF status
<1>8. CASE /\ ~entry.terminal /\ status # "Submitted"
           /\ phase_rank(status) >= phase_rank(entry.status)
  <2>1. entry' = [entry EXCEPT !.status = status]
    BY <1>8 DEF ApplyEvent, Progressed, status
  <2>2. entry' \in CommandEntries /\ entry' # NoEntry
    BY <1>1, <1>2, <2>1, CommandAssumption DEF CommandEntries
  <2>3. entry'.status = status /\ entry'.terminal = entry.terminal
    BY <1>1, <2>1 DEF CommandEntries
  <2>4. status \notin Terminals BY <1>2 DEF Terminals
  <2>5. ASSUME ~imaged
        PROVE  Verdicts(seen) = {} /\ \A n \in ToldRanks(seen) : n <= phase_rank(entry.status)
    BY <2>5, <1>1, <1>8 DEF CommandInv, EntryFolds
  <2>6. ASSUME ~imaged, NEW n \in ToldRanks(seen') PROVE n <= phase_rank(status)
    <3>1. CASE n = Rank(m) BY <3>1, <1>2, <1>3
    <3>2. CASE n \in ToldRanks(seen)
      <4>1. n <= phase_rank(entry.status) BY <3>2, <2>5, <2>6
      <4>2. n \in Int
        BY <3>2, PhaseRanks, EventRanks DEF ToldRanks
      <4> QED BY <4>1, <4>2, <1>2, <1>3, <1>6, <1>8
    <3> QED BY <3>1, <3>2, <2>6, <1>4
  <2>7. imaged' = imaged /\ conflict' = conflict BY DEF ApplyEvent
  <2> QED BY <2>2, <2>3, <2>4, <2>5, <2>6, <2>7, <1>1, <1>2, <1>4 DEF CommandInv, EntryFolds
<1>9. CASE ~(/\ ~entry.terminal /\ status # "Submitted"
             /\ phase_rank(status) >= phase_rank(entry.status))
  <2>1. entry' = entry BY <1>9 DEF ApplyEvent, Progressed, status
  <2>2. imaged' = imaged /\ conflict' = conflict BY DEF ApplyEvent
  <2>3. ASSUME ~imaged, Verdicts(seen) = {} PROVE Rank(m) <= phase_rank(entry.status)
    <3>1. ~entry.terminal /\ entry.status \notin Terminals
      BY <2>3, <1>1 DEF CommandInv, EntryFolds
    <3> QED BY <3>1, <1>2, <1>3, <1>7, <1>9
  <2> QED BY <2>1, <2>2, <2>3, <1>1, <1>4 DEF CommandInv, EntryFolds
<1> QED BY <1>8, <1>9

\* The first terminal receipt decides the entry; one that contradicts it is
\* flagged and changes nothing else.
LEMMA ReceiptFolds ==
  ASSUME CommandInv, NEW m \in Receipts, ObserveReceipt(m), imaged' = imaged
  PROVE  EntryFolds' /\ entry' \in CommandEntries \cup {NoEntry} /\ conflict' \in BOOLEAN
<1>1. CASE UNCHANGED <<seen, entry, conflict>>
  BY <1>1 DEF CommandInv, CommandTypes, EntryFolds
<1>2. CASE ~(entry = NoEntry \/ m \in seen \/ m.generation # entry.generation)
  <2>1. entry \in CommandEntries /\ entry # NoEntry /\ conflict \in BOOLEAN
    BY <1>2 DEF CommandInv, CommandTypes
  <2>2. seen' = seen \cup {m} BY <1>2 DEF ObserveReceipt
  <2>3. ToldRanks(seen') = ToldRanks(seen) BY <2>2, ReceiptAdds
  <2>4. CASE ~is_terminal(m)
    <3>1. UNCHANGED <<entry, conflict>> BY <1>2, <2>4 DEF ObserveReceipt
    <3>2. Verdicts(seen') = Verdicts(seen) BY <2>2, <2>4, ReceiptAdds
    <3> QED BY <3>1, <3>2, <2>1, <2>3 DEF CommandInv, CommandTypes, EntryFolds
  <2>5. CASE is_terminal(m)
    <3> DEFINE v == terminal_status_of(m)
    <3>1. v \in Terminals BY <2>5, VerdictOfReceipt
    <3>2. Verdicts(seen') = Verdicts(seen) \cup {v} BY <2>2, <2>5, ReceiptAdds
    <3>3. Verdicts(seen) \subseteq Terminals BY VerdictsTerminal
    <3> HIDE DEF v
    <3>4. CASE entry.status \in Terminals /\ entry.status # v
      <4>1. conflict' = TRUE /\ entry' = entry
        BY <1>2, <2>5, <3>4 DEF ObserveReceipt, v
      <4>2. ASSUME ~imaged PROVE Verdicts(seen) # {} /\ entry.status \in Verdicts(seen)
        BY <4>2, <2>1, <3>4 DEF CommandInv, EntryFolds
      <4>3. ~imaged => Split(Verdicts(seen')) BY <4>2, <3>2, <3>4 DEF Split
      <4> QED BY <4>1, <4>2, <4>3, <2>1, <3>2 DEF CommandInv, EntryFolds
    <3>5. CASE ~(entry.status \in Terminals /\ entry.status # v)
      <4>1. entry' = [entry EXCEPT !.status = v, !.terminal = TRUE] /\ conflict' = conflict
        BY <1>2, <2>5, <3>5 DEF ObserveReceipt, v
      <4>2. entry' = [status |-> v, terminal |-> TRUE, generation |-> entry.generation]
        BY <4>1, <2>1 DEF CommandEntries
      <4>3. entry' \in CommandEntries /\ entry' # NoEntry
        <5>1. entry.generation \in Generations BY <2>1 DEF CommandEntries
        <5>2. entry' \in CommandEntries BY <4>2, <3>1, <5>1 DEF CommandEntries
        <5> QED BY <5>2, CommandAssumption
      <4>4. ASSUME ~imaged PROVE Split(Verdicts(seen')) <=> Split(Verdicts(seen))
        <5>1. Verdicts(seen) # {} => entry.status \in Verdicts(seen)
          BY <4>4, <2>1 DEF CommandInv, EntryFolds
        <5>2. Verdicts(seen) = {} \/ v \in Verdicts(seen) BY <5>1, <3>3, <3>5
        <5> QED BY <5>2, <3>2 DEF Split
      <4>5. entry'.status = v /\ entry'.terminal = TRUE BY <4>2
      <4> QED BY <4>1, <4>3, <4>4, <4>5, <2>1, <3>2 DEF CommandInv, EntryFolds
    <3> QED BY <3>4, <3>5
  <2> QED BY <2>4, <2>5
<1> QED BY <1>1, <1>2 DEF ObserveReceipt

\* A receipt is recorded only if no other verdict is.
LEMMA RecordKeepsVerdict ==
  ASSUME CommandInv, NEW m \in Receipts, RecordReceipt(m)
  PROVE  /\ OneVerdict' /\ receipts_by_id' \subseteq Receipts
         /\ terminal' \in {NoEntry, "Applied", "Rejected"}
<1> USE DEF CommandInv, CommandTypes, OneVerdict
<1>1. CASE UNCHANGED <<receipts_by_id, terminal>> BY <1>1
<1>2. CASE /\ ~ContradictsTerminal(m)
           /\ receipts_by_id' = receipts_by_id \cup {m}
           /\ terminal' = IF is_terminal(m) /\ terminal = NoEntry THEN m.outcome ELSE terminal
  <2>1. is_terminal(m) => m.outcome \in {"Applied", "Rejected"} /\ terminal' = m.outcome
    BY <1>2 DEF ContradictsTerminal, is_terminal
  <2>2. ASSUME NEW r \in receipts_by_id, is_terminal(r) PROVE r.outcome = terminal'
    <3>1. r.outcome = terminal /\ r.outcome # NoEntry
      BY <2>2, CommandAssumption DEF is_terminal
    <3> QED BY <3>1, <1>2
  <2> QED BY <1>2, <2>1, <2>2
<1> QED BY <1>1, <1>2 DEF RecordReceipt

\* Every handler of command.hpp and receipt.hpp keeps the invariant.
LEMMA CommandStep == CommandInv /\ [CommandNext]_commandVars => CommandInv'
<1> SUFFICES ASSUME CommandInv, [CommandNext]_commandVars PROVE CommandInv' OBVIOUS
<1>1. ASSUME NEW m \in Submits, Submit(m) PROVE CommandInv'
  <2>1. entry' = [status |-> "Submitted", terminal |-> FALSE, generation |-> m.generation]
    BY <1>1 DEF Submit
  <2>2. entry' \in CommandEntries /\ entry' # NoEntry
    <3>1. m.generation \in Generations BY DEF Submits
    <3>2. entry' \in CommandEntries BY <2>1, <3>1 DEF CommandEntries
    <3> QED BY <3>2, CommandAssumption
  <2>3. seen' = {} /\ ~conflict' BY <1>1 DEF CommandInv, EntryFolds, Submit
  <2>4. Verdicts(seen') = {} /\ ToldRanks(seen') = {0}
    BY <2>3, PhaseRanks DEF Verdicts, ToldRanks
  <2>5. EntryFolds' BY <2>1, <2>2, <2>3, <2>4, PhaseRanks DEF EntryFolds, Split, Terminals
  <2> QED BY <1>1, <2>2, <2>5 DEF CommandInv, CommandTypes, OneVerdict, Submit
<1>2. ASSUME NEW m \in Submits, Cancel(m) PROVE CommandInv'
  BY <1>2 DEF Cancel, commandVars, CommandInv, CommandTypes, EntryFolds, OneVerdict
<1>3. ASSUME NEW m \in Events, ApplyEvent(m) PROVE CommandInv'
  BY <1>3, EventFolds DEF ApplyEvent, CommandInv, CommandTypes, OneVerdict
<1>4. ASSUME NEW m \in Receipts, TakeReceipt(m) PROVE CommandInv'
  BY <1>4, ReceiptFolds, RecordKeepsVerdict DEF TakeReceipt, CommandInv, CommandTypes
<1>5. CASE TakeImage
  <2>1. \A i \in images' : i.entry \in CommandEntries
    BY <1>5 DEF TakeImage, CommandInv, CommandTypes
  <2> QED BY <1>5, <2>1 DEF TakeImage, CommandInv, CommandTypes, EntryFolds, OneVerdict
<1>6. CASE ApplyProjection
  BY <1>6, CommandAssumption
     DEF ApplyProjection, CommandInv, CommandTypes, EntryFolds, OneVerdict
<1>7. CASE UNCHANGED commandVars
  BY <1>7 DEF commandVars, CommandInv, CommandTypes, EntryFolds, OneVerdict
<1> QED BY <1>1, <1>2, <1>3, <1>4, <1>5, <1>6, <1>7 DEF CommandNext
-----------------------------------------------------------------------------
(* The durable client *)

\* Positions 1..n.
Counted(n) == [i \in 1..n |-> i]

\* Every update is either applied, at or below the source position, or waits
\* beyond the first position of which nothing was told; and each position
\* below was told.
ClientInv ==
  /\ firstTold \subseteq (1..MaxPosition) \X Fingerprints
  /\ \E n \in 0..MaxPosition :
       /\ applied = Counted(n)
       /\ fingerprints = {p \in firstTold : p[1] <= n}
       /\ pendingUpdates = {p \in firstTold : p[1] > n}
       /\ ~KnownAt(firstTold, n + 1)
       /\ \A i \in 1..n : KnownAt(firstTold, i)

LEMMA CountedLen == \A n \in Nat : Len(Counted(n)) = n /\ Counted(n) \in Seq(Nat)
<1> SUFFICES ASSUME NEW n \in Nat PROVE Len(Counted(n)) = n /\ Counted(n) \in Seq(Nat) OBVIOUS
<1>1. Counted(n) \in [1..n -> Nat] BY DEF Counted
<1> QED BY <1>1, LenProperties DEF Counted

\* What follows 1..n up to last makes it 1..last.
LEMMA CountedOn ==
  ASSUME NEW n \in Nat, NEW last \in Nat, n < last
  PROVE  Counted(n) \o [i \in 1..(last - (n + 1) + 1) |-> (n + 1) + i - 1] = Counted(last)
<1> DEFINE s == [i \in 1..(last - (n + 1) + 1) |-> (n + 1) + i - 1]
<1>1. last - (n + 1) + 1 = last - n /\ last - n \in Nat OBVIOUS
<1>2. s \in [1..(last - n) -> Nat] BY <1>1
<1>3. s \in Seq(Nat) /\ Len(s) = last - n BY <1>1, <1>2, LenProperties
<1>4. \A i \in 1..(last - n) : s[i] = n + i BY <1>1
<1>5. Counted(n) \in Seq(Nat) /\ Len(Counted(n)) = n BY CountedLen
<1>6. Counted(last) \in Seq(Nat) /\ Len(Counted(last)) = last BY CountedLen
<1>7. Counted(n) \o s \in Seq(Nat) /\ Len(Counted(n) \o s) = last
  <2> HIDE DEF s
  <2>1. Len(Counted(n) \o s) = n + (last - n) /\ Counted(n) \o s \in Seq(Nat)
    BY <1>3, <1>5, ConcatProperties
  <2> QED BY <2>1
<1>8. ASSUME NEW i \in 1..last PROVE (Counted(n) \o s)[i] = Counted(last)[i]
  <2>1. Counted(last)[i] = i BY DEF Counted
  <2>2. CASE i <= n
    <3>1. Counted(n)[i] = i BY <2>2 DEF Counted
    <3> HIDE DEF s
    <3> QED BY <2>1, <2>2, <3>1, <1>3, <1>5, ConcatProperties
  <2>3. CASE ~(i <= n)
    <3>1. s[i - n] = i BY <2>3, <1>4
    <3> HIDE DEF s
    <3>2. (Counted(n) \o s)[i] = s[i - n] BY <2>3, <1>3, <1>5, ConcatProperties
    <3> QED BY <2>1, <3>1, <3>2
  <2> HIDE DEF s
  <2> QED BY <2>2, <2>3
<1> HIDE DEF s
<1>9. Counted(n) \o s = Counted(last) BY <1>6, <1>7, <1>8, SeqEqual
<1> QED BY <1>9 DEF s

LEMMA ClientInvInit == ClientInit => ClientInv
<1> SUFFICES ASSUME ClientInit PROVE ClientInv OBVIOUS
<1>1. applied = Counted(0) BY DEF ClientInit, Counted
<1>2. 0 \in 0..MaxPosition BY ClientAssumption
<1> QED BY <1>1, <1>2 DEF ClientInit, ClientInv, KnownAt

LEMMA ClientInvImplies == ClientInv => ProjectionIsPrefix
<1> SUFFICES ASSUME ClientInv PROVE ProjectionIsPrefix OBVIOUS
<1>1. PICK n \in 0..MaxPosition :
       /\ applied = Counted(n)
       /\ fingerprints = {p \in firstTold : p[1] <= n}
       /\ ~KnownAt(firstTold, n + 1)
  BY DEF ClientInv
<1>2. n \in Nat BY ClientAssumption
<1>3. source_position = n BY <1>1, <1>2, CountedLen DEF source_position
<1> QED BY <1>1, <1>3 DEF ProjectionIsPrefix, Counted, source_position

\* The flush stops in front of the first position that is not buffered.
LEMMA ThroughStops ==
  ASSUME NEW position \in 1..MaxPosition,
         \A p \in pendingUpdates : p[1] \in 1..MaxPosition
  PROVE  /\ Through(position) \in position..MaxPosition
         /\ \A i \in (position + 1)..Through(position) : KnownAt(pendingUpdates, i)
         /\ ~KnownAt(pendingUpdates, Through(position) + 1)
<1> DEFINE S == {n \in position..MaxPosition :
                   \A i \in (position + 1)..n : KnownAt(pendingUpdates, i)}
<1>1. S \subseteq Nat /\ \A x \in S : x <= MaxPosition BY ClientAssumption
<1>2. position \in S BY ClientAssumption
<1>3. Max(S) \in S /\ \A y \in S : y <= Max(S)
  <2> HIDE DEF S
  <2> QED BY <1>1, <1>2, ClientAssumption, MaxOfBounded
<1>4. Through(position) = Max(S) BY DEF Through
<1>5. PICK m : m = Max(S) OBVIOUS
<1>6. m \in position..MaxPosition /\ \A i \in (position + 1)..m : KnownAt(pendingUpdates, i)
  BY <1>3, <1>5
<1>7. ASSUME KnownAt(pendingUpdates, m + 1) PROVE FALSE
  <2>1. m + 1 \in position..MaxPosition BY <1>6, <1>7, ClientAssumption DEF KnownAt
  <2>2. \A i \in (position + 1)..(m + 1) : KnownAt(pendingUpdates, i)
    BY <1>6, <1>7, ClientAssumption
  <2>3. m + 1 \in S BY <2>1, <2>2
  <2>4. m + 1 <= m BY <2>3, <1>3, <1>5
  <2> QED BY <2>4, <1>6, ClientAssumption
<1> QED BY <1>4, <1>5, <1>6, <1>7
\* observe: what is new at its position is buffered, or applied with all that
\* followed without a gap.
LEMMA ObserveKeepsClient ==
  ASSUME ClientInv, NEW position \in 1..MaxPosition, NEW fingerprint \in Fingerprints,
         AdmitUpdate(position, fingerprint),
         firstTold' = IF KnownAt(firstTold, position) THEN firstTold
                      ELSE firstTold \cup {<<position, fingerprint>>}
  PROVE  ClientInv'
<1> DEFINE told == <<position, fingerprint>>
<1>1. PICK n \in 0..MaxPosition :
       /\ applied = Counted(n)
       /\ fingerprints = {p \in firstTold : p[1] <= n}
       /\ pendingUpdates = {p \in firstTold : p[1] > n}
       /\ ~KnownAt(firstTold, n + 1)
       /\ \A i \in 1..n : KnownAt(firstTold, i)
  BY DEF ClientInv
<1>2. n \in Nat /\ MaxPosition \in Nat BY ClientAssumption
<1>3. source_position = n BY <1>1, <1>2, CountedLen DEF source_position
<1>4. \A p \in firstTold : p[1] \in 1..MaxPosition BY DEF ClientInv
<1>5. KnownAt(firstTold, position)
        <=> KnownAt(fingerprints, position) \/ KnownAt(pendingUpdates, position)
  BY <1>1, <1>2 DEF KnownAt
<1>6. firstTold' \subseteq (1..MaxPosition) \X Fingerprints BY DEF ClientInv
<1>7. told[1] = position OBVIOUS
<1>8. CASE KnownAt(firstTold, position)
  BY <1>5, <1>8 DEF AdmitUpdate, ClientInv
<1>9. CASE ~KnownAt(firstTold, position) /\ position > n + 1
  <2>1. /\ pendingUpdates' = pendingUpdates \cup {told}
        /\ UNCHANGED <<fingerprints, applied>> /\ firstTold' = firstTold \cup {told}
    BY <1>3, <1>5, <1>9 DEF AdmitUpdate
  <2> HIDE DEF told
  <2>2. fingerprints' = {p \in firstTold' : p[1] <= n} BY <2>1, <1>1, <1>2, <1>7, <1>9
  <2>3. pendingUpdates' = {p \in firstTold' : p[1] > n} BY <2>1, <1>1, <1>2, <1>7, <1>9
  <2>4. ~KnownAt(firstTold', n + 1) BY <2>1, <1>1, <1>2, <1>7, <1>9 DEF KnownAt
  <2>5. \A i \in 1..n : KnownAt(firstTold', i) BY <2>1, <1>1 DEF KnownAt
  <2> QED BY <2>1, <2>2, <2>3, <2>4, <2>5, <1>1, <1>6 DEF ClientInv
<1>10. CASE ~KnownAt(firstTold, position) /\ ~(position > n + 1)
  <2>1. position = n + 1 BY <1>1, <1>2, <1>10
  <2>2. PICK last : last = Through(position) OBVIOUS
  <2>3. PICK flushed : flushed = {p \in pendingUpdates : p[1] \in (position + 1)..last} OBVIOUS
  <2>4. \A p \in pendingUpdates : p[1] \in 1..MaxPosition BY <1>1, <1>4
  <2>5. /\ last \in position..MaxPosition
        /\ \A i \in (position + 1)..last : KnownAt(pendingUpdates, i)
        /\ ~KnownAt(pendingUpdates, last + 1)
    BY <2>2, <2>4, ThroughStops
  <2>6. last \in Nat /\ n < last /\ last \in 0..MaxPosition BY <2>1, <2>5, <1>2
  <2>7. /\ fingerprints' = fingerprints \cup flushed \cup {told}
        /\ pendingUpdates' = pendingUpdates \ flushed
        /\ applied' = applied \o [i \in 1..(last - position + 1) |-> position + i - 1]
        /\ firstTold' = firstTold \cup {told}
    BY <2>2, <2>3, <1>3, <1>5, <1>10 DEF AdmitUpdate
  <2>8. applied' = Counted(last)
    BY <2>1, <2>6, <2>7, <1>1, <1>2, CountedOn
  <2> HIDE DEF told
  <2>9. ASSUME NEW p PROVE p \in fingerprints' <=> p \in firstTold' /\ p[1] <= last
    <3>1. CASE p = told BY <3>1, <2>1, <2>6, <2>7, <1>2, <1>7
    <3>2. CASE p # told
      <4>1. p \in fingerprints' <=> p \in fingerprints \/ p \in flushed BY <3>2, <2>7
      <4>2. p \in firstTold' <=> p \in firstTold BY <3>2, <2>7
      <4>3. p \in flushed <=> p \in firstTold /\ p[1] > n /\ p[1] \in (position + 1)..last
        BY <2>3, <1>1
      <4>4. p \in firstTold => p[1] \in Nat /\ p[1] # position
        BY <1>4, <1>10 DEF KnownAt
      <4> QED BY <4>1, <4>2, <4>3, <4>4, <2>1, <2>6, <1>1, <1>2
    <3> QED BY <3>1, <3>2
  <2>10. ASSUME NEW p PROVE p \in pendingUpdates' <=> p \in firstTold' /\ p[1] > last
    <3>1. CASE p = told
      <4>1. p \notin firstTold BY <3>1, <1>7, <1>10 DEF KnownAt
      <4>2. p \notin pendingUpdates BY <4>1, <1>1
      <4> QED BY <3>1, <4>2, <2>1, <2>6, <2>7, <1>2, <1>7
    <3>2. CASE p # told
      <4>1. p \in pendingUpdates' <=> p \in pendingUpdates /\ p \notin flushed BY <2>7
      <4>2. p \in firstTold' <=> p \in firstTold BY <3>2, <2>7
      <4>3. p \in flushed <=> p \in pendingUpdates /\ p[1] \in (position + 1)..last
        BY <2>3
      <4>4. p \in firstTold => p[1] \in Nat /\ p[1] # position
        BY <1>4, <1>10 DEF KnownAt
      <4> QED BY <4>1, <4>2, <4>3, <4>4, <2>1, <2>6, <1>1, <1>2
    <3> QED BY <3>1, <3>2
  <2>11. ~KnownAt(firstTold', last + 1)
    BY <2>1, <2>5, <2>6, <2>7, <1>1, <1>2, <1>7 DEF KnownAt
  <2>12. ASSUME NEW i \in 1..last PROVE KnownAt(firstTold', i)
    <3>1. CASE i <= n
      <4>1. KnownAt(firstTold, i) BY <3>1, <1>1, <1>2, <2>6
      <4> QED BY <4>1, <2>7 DEF KnownAt
    <3>2. CASE i = position BY <3>2, <2>7, <1>7 DEF KnownAt
    <3>3. CASE i > position
      <4>1. KnownAt(pendingUpdates, i) BY <3>3, <2>1, <2>5, <2>6, <1>2
      <4> QED BY <4>1, <2>7, <1>1 DEF KnownAt
    <3> QED BY <3>1, <3>2, <3>3, <2>1, <1>2
  <2>13. fingerprints' = {p \in firstTold' : p[1] <= last} BY <2>9
  <2>14. pendingUpdates' = {p \in firstTold' : p[1] > last} BY <2>10
  <2> QED BY <2>6, <2>8, <2>11, <2>12, <2>13, <2>14, <1>6 DEF ClientInv
<1> QED BY <1>8, <1>9, <1>10

LEMMA ClientStep == ClientInv /\ [ClientNext]_clientVars => ClientInv'
<1> SUFFICES ASSUME ClientInv, [ClientNext]_clientVars PROVE ClientInv' OBVIOUS
<1>1. ASSUME NEW m \in ClientMessages, Observe(m) PROVE ClientInv'
  <2>1. m.position \in 1..MaxPosition /\ m.fingerprint \in Fingerprints BY DEF ClientMessages
  <2>2. CASE m.fault = "update" BY <1>1, <2>2 DEF Observe, ClientInv
  <2>3. CASE m.fault # "update" BY <1>1, <2>1, <2>3, ObserveKeepsClient DEF Observe
  <2> QED BY <2>2, <2>3
<1>2. CASE UNCHANGED clientVars BY <1>2 DEF clientVars, ClientInv
<1> QED BY <1>1, <1>2 DEF ClientNext

-----------------------------------------------------------------------------
(* The keyed families *)

AllOps == UNION {ops[p] : p \in Replicas}

\* won is the operation of s at node n with the greatest stamp, if there is one.
Greatest(won, s, n) ==
  /\ (\A op \in s : op.node # n) => won = NoNode
  /\ (\E op \in s : op.node = n) =>
       /\ won \in s /\ won.node = n
       /\ \A op \in s : op.node = n => ~StampLess(won.stamp, op.stamp)

KeysOf(s) == {op.key : op \in s}

FamilyTypes ==
  /\ clock \in [Replicas -> FamilyStamps]
  /\ ops \in [Replicas -> SUBSET FamilyOps]
  /\ key_to_node \in [Replicas -> [FamilySuffixes -> FamilyNodes \cup {NoNode}]]
  /\ winning \in [Replicas -> [FamilyNodes -> FamilyOps \cup {NoNode}]]
  /\ presentKeys \in [Replicas -> SUBSET FamilySuffixes]
  /\ family_epoch \in [Replicas -> Nat]
  /\ next_node \in [Replicas -> Nat]
  /\ writes \in Nat

\* What a replica derives from its operations.
FoldOfOps ==
  \A p \in Replicas :
    /\ \A n \in FamilyNodes : Greatest(winning[p][n], ops[p], n)
    /\ presentKeys[p] = KeysOf(ops[p])
    /\ IsFiniteSet(presentKeys[p]) /\ family_epoch[p] = Cardinality(presentKeys[p])

\* A clock has its peer's number, and no operation of the peer is ahead of it.
ClocksAhead ==
  /\ \A p \in Replicas : clock[p].peer = p
  /\ \A op \in AllOps : \/ op.stamp = clock[op.stamp.peer]
                         \/ StampLess(op.stamp, clock[op.stamp.peer])

\* So a stamp names one operation.
StampsUnique == \A a, b \in AllOps : a.stamp = b.stamp => a = b

\* A replica knows a node for the keys it has operations of, the node of one
\* of them, and for no others.
NodesKnown ==
  \A p \in Replicas, k \in FamilySuffixes :
    /\ OpsOf(p, k) = {} => key_to_node[p][k] = NoNode
    /\ OpsOf(p, k) # {} => \E op \in OpsOf(p, k) : op.node = key_to_node[p][k]

\* Every node was minted by a write of some replica: a replica that mints has
\* a node left.
NodesBounded ==
  /\ \A op \in AllOps : op.node < writes
  /\ \A p \in Replicas : next_node[p] <= writes

FamilyInv ==
  /\ FamilyTypes /\ FoldOfOps /\ ClocksAhead /\ StampsUnique
  /\ NodesKnown /\ NodesBounded

(* FamilyStamps *)

LEMMA StampsOrdered ==
  /\ \A a \in FamilyStamps : ~StampLess(a, a)
  /\ \A a, b, c \in FamilyStamps : StampLess(a, b) /\ StampLess(b, c) => StampLess(a, c)
  /\ \A a, b \in FamilyStamps : ~StampLess(a, b) /\ ~StampLess(b, a) => a = b
<1> USE FamilySyncAssumption
<1>1. \A a \in FamilyStamps : a.wall \in Nat /\ a.logical \in Nat /\ a.peer \in Nat
  BY DEF FamilyStamps
<1>2. ASSUME NEW a \in FamilyStamps PROVE ~StampLess(a, a) BY <1>1 DEF StampLess
<1>3. ASSUME NEW a \in FamilyStamps, NEW b \in FamilyStamps, NEW c \in FamilyStamps,
             StampLess(a, b), StampLess(b, c)
      PROVE  StampLess(a, c)
  BY <1>1, <1>3 DEF StampLess
<1>4. ASSUME NEW a \in FamilyStamps, NEW b \in FamilyStamps, ~StampLess(a, b), ~StampLess(b, a)
      PROVE  a = b
  <2>1. a.wall = b.wall /\ a.logical = b.logical /\ a.peer = b.peer
    BY <1>1, <1>4 DEF StampLess
  <2> QED BY <2>1 DEF FamilyStamps
<1> QED BY <1>2, <1>3, <1>4

\* Hlc::tick gives a stamp that passes the clock, under the same peer.
LEMMA TickPasses ==
  ASSUME NEW c \in FamilyStamps, NEW now \in Nat
  PROVE  Ticked(c, now) \in FamilyStamps /\ Ticked(c, now).peer = c.peer /\ StampLess(c, Ticked(c, now))
<1>1. c.wall \in Nat /\ c.logical \in Nat /\ c.peer \in Replicas BY DEF FamilyStamps
<1>2. CASE now > c.wall
  <2>1. Ticked(c, now) = [wall |-> now, logical |-> 0, peer |-> c.peer]
    BY <1>2 DEF Ticked, FamilyStamps
  <2>2. [wall |-> now, logical |-> 0, peer |-> c.peer] \in FamilyStamps BY <1>1 DEF FamilyStamps
  <2> QED BY <1>1, <1>2, <2>1, <2>2 DEF StampLess
<1>3. CASE ~(now > c.wall)
  <2>1. Ticked(c, now) = [wall |-> c.wall, logical |-> c.logical + 1, peer |-> c.peer]
    BY <1>3 DEF Ticked, FamilyStamps
  <2>2. [wall |-> c.wall, logical |-> c.logical + 1, peer |-> c.peer] \in FamilyStamps
    BY <1>1 DEF FamilyStamps
  <2> QED BY <1>1, <2>1, <2>2 DEF StampLess
<1> QED BY <1>2, <1>3

(* The fold of operations *)

LEMMA WinnerGreatest ==
  ASSUME NEW s \in SUBSET FamilyOps, NEW op \in FamilyOps, NEW won,
         Greatest(won, s, op.node)
  PROVE  Greatest(Winner(won, op), s \cup {op}, op.node)
<1>1. \A a \in FamilyOps : a.stamp \in FamilyStamps BY DEF FamilyOps
<1>2. CASE \A a \in s : a.node # op.node
  <2>1. Winner(won, op) = op BY <1>2 DEF Greatest, Winner
  <2>2. ~StampLess(op.stamp, op.stamp) BY <1>1, StampsOrdered
  <2> QED BY <1>2, <2>1, <2>2 DEF Greatest
<1>3. CASE \E a \in s : a.node = op.node
  <2>1. /\ won \in s /\ won.node = op.node
        /\ \A a \in s : a.node = op.node => ~StampLess(won.stamp, a.stamp)
    BY <1>3 DEF Greatest
  <2>2. won # NoNode BY <2>1, FamilySyncAssumption
  <2>3. CASE StampLess(won.stamp, op.stamp)
    <3>1. Winner(won, op) = op BY <2>3 DEF Winner
    <3>2. ASSUME NEW a \in s, a.node = op.node PROVE ~StampLess(op.stamp, a.stamp)
      BY <2>1, <2>3, <3>2, <1>1, StampsOrdered
    <3>3. ~StampLess(op.stamp, op.stamp) BY <1>1, StampsOrdered
    <3> QED BY <3>1, <3>2, <3>3 DEF Greatest
  <2>4. CASE ~StampLess(won.stamp, op.stamp)
    <3>1. Winner(won, op) = won BY <2>2, <2>4 DEF Winner
    <3> QED BY <3>1, <2>1, <2>4 DEF Greatest
  <2> QED BY <2>3, <2>4
<1> QED BY <1>2, <1>3

\* What Log makes of one replica, and of the others.
LEMMA LogKeepsFold ==
  ASSUME FamilyTypes, FoldOfOps, NEW p \in Replicas, NEW op \in FamilyOps, Log(p, op)
  PROVE  /\ FoldOfOps'
         /\ ops' \in [Replicas -> SUBSET FamilyOps]
         /\ winning' \in [Replicas -> [FamilyNodes -> FamilyOps \cup {NoNode}]]
         /\ presentKeys' \in [Replicas -> SUBSET FamilySuffixes]
         /\ family_epoch' \in [Replicas -> Nat]
         /\ \A q \in Replicas : ops'[q] = IF q = p THEN ops[p] \cup {op} ELSE ops[q]
<1>1. op.node \in FamilyNodes /\ op.key \in FamilySuffixes BY DEF FamilyOps
<1>2. \A q \in Replicas : ops'[q] = IF q = p THEN ops[p] \cup {op} ELSE ops[q]
  BY DEF Log, FamilyTypes
<1>3. ops' \in [Replicas -> SUBSET FamilyOps] BY DEF Log, FamilyTypes
<1>4. \A q \in Replicas :
        presentKeys'[q] = IF q = p THEN presentKeys[p] \cup {op.key} ELSE presentKeys[q]
  BY DEF Log, FamilyTypes
<1>5. presentKeys' \in [Replicas -> SUBSET FamilySuffixes] BY <1>1 DEF Log, FamilyTypes
<1>6. \A q \in Replicas :
        family_epoch'[q] = IF q = p THEN family_epoch[p] + (IF op.key \in presentKeys[p] THEN 0 ELSE 1)
                           ELSE family_epoch[q]
  BY DEF Log, FamilyTypes
<1>7. family_epoch' \in [Replicas -> Nat] BY DEF Log, FamilyTypes
<1>8. Winner(winning[p][op.node], op) \in FamilyOps \cup {NoNode}
  BY <1>1 DEF Winner, FamilyTypes
<1>9. \A q \in Replicas : \A n \in FamilyNodes :
        winning'[q][n] = IF q = p /\ n = op.node THEN Winner(winning[p][n], op) ELSE winning[q][n]
  BY <1>1 DEF Log, FamilyTypes
<1>10. winning' \in [Replicas -> [FamilyNodes -> FamilyOps \cup {NoNode}]]
  BY <1>1, <1>8 DEF Log, FamilyTypes
<1>11. ASSUME NEW q \in Replicas, NEW n \in FamilyNodes
       PROVE  Greatest(winning'[q][n], ops'[q], n)
  <2>1. Greatest(winning[q][n], ops[q], n) /\ ops[q] \in SUBSET FamilyOps
    BY DEF FoldOfOps, FamilyTypes
  <2>2. CASE q # p BY <2>1, <2>2, <1>2, <1>9
  <2>3. CASE q = p /\ n = op.node
    <3>1. Greatest(Winner(winning[q][n], op), ops[q] \cup {op}, n)
      BY <2>1, <2>3, WinnerGreatest
    <3> QED BY <3>1, <2>3, <1>2, <1>9
  <2>4. CASE q = p /\ n # op.node
    <3>1. winning'[q][n] = winning[q][n] /\ ops'[q] = ops[q] \cup {op} BY <2>4, <1>2, <1>9
    <3> QED BY <3>1, <2>1, <2>4 DEF Greatest
  <2> QED BY <2>2, <2>3, <2>4
<1>12. ASSUME NEW q \in Replicas
       PROVE  /\ presentKeys'[q] = KeysOf(ops'[q])
              /\ IsFiniteSet(presentKeys'[q]) /\ family_epoch'[q] = Cardinality(presentKeys'[q])
  <2>1. /\ presentKeys[q] = KeysOf(ops[q])
        /\ IsFiniteSet(presentKeys[q]) /\ family_epoch[q] = Cardinality(presentKeys[q])
    BY DEF FoldOfOps
  <2>2. CASE q # p BY <2>1, <2>2, <1>2, <1>4, <1>6
  <2>3. CASE q = p
    <3>1. KeysOf(ops[q] \cup {op}) = KeysOf(ops[q]) \cup {op.key} BY DEF KeysOf
    <3>2. /\ IsFiniteSet(presentKeys[q] \cup {op.key})
          /\ Cardinality(presentKeys[q] \cup {op.key})
               = IF op.key \in presentKeys[q] THEN Cardinality(presentKeys[q])
                 ELSE Cardinality(presentKeys[q]) + 1
      BY <2>1, FS_AddElement
    <3>3. family_epoch[q] \in Nat BY DEF FamilyTypes
    <3>4. presentKeys'[q] = presentKeys[q] \cup {op.key} BY <2>3, <1>4
    <3>5. presentKeys'[q] = KeysOf(ops'[q]) BY <2>1, <2>3, <3>1, <3>4, <1>2
    <3>6. family_epoch'[q] = family_epoch[q] + (IF op.key \in presentKeys[q] THEN 0 ELSE 1)
      BY <2>3, <1>6
    <3>7. family_epoch'[q] = Cardinality(presentKeys[q] \cup {op.key})
      BY <3>2, <3>3, <3>6, <2>1
    <3> QED BY <3>2, <3>4, <3>5, <3>7
  <2> QED BY <2>2, <2>3
<1> QED BY <1>2, <1>3, <1>5, <1>7, <1>10, <1>11, <1>12 DEF FoldOfOps

\* Initially no replica has an operation.
LEMMA FamilyInvInit == FamilySyncInit => FamilyInv
<1> SUFFICES ASSUME FamilySyncInit PROVE FamilyInv OBVIOUS
<1> USE FamilySyncAssumption DEF FamilySyncInit
<1>1. AllOps = {} BY DEF AllOps
<1>2. \A p \in Replicas : [wall |-> 0, logical |-> 0, peer |-> p] \in FamilyStamps BY DEF FamilyStamps
<1>3. FamilyTypes BY <1>2 DEF FamilyTypes
<1>4. FoldOfOps
  <2>1. \A p \in Replicas : \A n \in FamilyNodes : Greatest(winning[p][n], ops[p], n)
    BY DEF Greatest
  <2>2. \A p \in Replicas : presentKeys[p] = KeysOf(ops[p]) BY DEF KeysOf
  <2> QED BY <2>1, <2>2, FS_EmptySet DEF FoldOfOps
<1>5. ClocksAhead BY <1>1 DEF ClocksAhead
<1> QED BY <1>1, <1>3, <1>4, <1>5
        DEF FamilyInv, StampsUnique, NodesKnown, NodesBounded, OpsOf

\* A replica that mints finds a node that none of its operations has.
LEMMA MintIsBounded ==
  ASSUME FamilyInv, NEW p \in Replicas, writes < MaxWrites
  PROVE  mint_family_node(p) \in FamilyNodes /\ mint_family_node(p) <= writes
<1> USE FamilySyncAssumption
<1>1. next_node[p] \in Nat /\ next_node[p] <= writes /\ writes \in Nat
  BY DEF FamilyInv, FamilyTypes, NodesBounded
<1>2. Cardinality(Replicas) \in Nat /\ Cardinality(Replicas) # 0
  BY FS_CardinalityType, FS_EmptySet
<1>3. MaxWrites <= MaxWrites * Cardinality(Replicas)
  <2>1. \A c \in Nat : c # 0 => MaxWrites <= MaxWrites * c BY SMT
  <2> QED BY <2>1, <1>2
<1>4. MaxWrites * Cardinality(Replicas) \in Nat
  <2>1. \A c \in Nat : MaxWrites * c \in Nat BY SMT
  <2> QED BY <2>1, <1>2
<1>5. writes \in FamilyNodes BY <1>1, <1>3, <1>4 DEF FamilyNodes
<1>6. winning[p][writes] = NoNode
  <2>1. \A op \in ops[p] : op \in AllOps /\ op \in FamilyOps
    BY DEF AllOps, FamilyInv, FamilyTypes
  <2>2. \A op \in ops[p] : op.node \in Nat /\ op.node < writes
    BY <2>1 DEF FamilyInv, NodesBounded, FamilyOps, FamilyNodes
  <2>3. \A op \in ops[p] : op.node # writes BY <2>2, <1>1
  <2>4. Greatest(winning[p][writes], ops[p], writes) BY <1>5 DEF FamilyInv, FoldOfOps
  <2> QED BY <2>3, <2>4 DEF Greatest
<1> DEFINE T == {n \in FamilyNodes : n >= next_node[p] /\ winning[p][n] = NoNode}
<1>7. T \subseteq Nat /\ T \subseteq FamilyNodes BY <1>4 DEF FamilyNodes
<1>8. writes \in T BY <1>1, <1>5, <1>6
<1>9. mint_family_node(p) = Min(T) BY DEF mint_family_node
<1> HIDE DEF T
<1>10. Min(T) \in T /\ \A y \in T : Min(T) <= y BY <1>7, <1>8, MinOfNaturals
<1> QED BY <1>7, <1>8, <1>9, <1>10

\* An operation that is logged brings its key the node it names.
LEMMA LoggedNodesKnown ==
  ASSUME NodesKnown, NEW p \in Replicas, NEW op,
         \A q \in Replicas : ops'[q] = IF q = p THEN ops[p] \cup {op} ELSE ops[q],
         \A q \in Replicas : \A j \in FamilySuffixes :
           key_to_node'[q][j] = IF q = p /\ j = op.key THEN op.node ELSE key_to_node[q][j]
  PROVE  NodesKnown'
<1> SUFFICES ASSUME NEW q \in Replicas, NEW j \in FamilySuffixes
             PROVE  /\ OpsOf(q, j)' = {} => key_to_node'[q][j] = NoNode
                    /\ OpsOf(q, j)' # {} => \E a \in OpsOf(q, j)' : a.node = key_to_node'[q][j]
  BY DEF NodesKnown, OpsOf
<1>1. CASE q = p /\ j = op.key
  <2>1. op \in OpsOf(q, j)' BY <1>1 DEF OpsOf
  <2>2. key_to_node'[q][j] = op.node BY <1>1
  <2> QED BY <2>1, <2>2
<1>2. CASE ~(q = p /\ j = op.key)
  <2>1. OpsOf(q, j)' = OpsOf(q, j) BY <1>2 DEF OpsOf
  <2>2. key_to_node'[q][j] = key_to_node[q][j] BY <1>2
  <2> QED BY <2>1, <2>2 DEF NodesKnown
<1> QED BY <1>1, <1>2

\* family_set_lww at a key, with the node it settles on.
LEMMA SetKeepsFamily ==
  ASSUME FamilyInv, NEW p \in Replicas, NEW k \in FamilySuffixes,
         NEW v \in BOOLEAN, NEW now \in FamilyWalls, family_set_lww(p, k, v, now)
  PROVE  FamilyInv'
<1> USE FamilySyncAssumption
<1>1. PICK fresh \in BOOLEAN : fresh <=> key_to_node[p][k] = NoNode OBVIOUS
<1>2. PICK node : node = IF fresh THEN mint_family_node(p) ELSE key_to_node[p][k] OBVIOUS
<1>3. PICK stamp : stamp = Ticked(clock[p], now) OBVIOUS
<1>4. PICK op : op = [node |-> node, key |-> k, stamp |-> stamp, state |-> v] OBVIOUS
<1>5. clock[p] \in FamilyStamps /\ clock[p].peer = p BY DEF FamilyInv, FamilyTypes, ClocksAhead
<1>6. stamp \in FamilyStamps /\ stamp.peer = p /\ StampLess(clock[p], stamp)
  BY <1>3, <1>5, TickPasses
<1>7. clock' = [clock EXCEPT ![p] = stamp] /\ clock'[p] = stamp
  BY <1>3 DEF family_set_lww, FamilyInv, FamilyTypes
<1>8. writes < MaxWrites /\ writes' = writes + 1 BY DEF family_set_lww
<1>9. Log(p, op) BY <1>1, <1>2, <1>4, <1>7 DEF family_set_lww
<1>10. /\ next_node' = [next_node EXCEPT ![p] = IF fresh THEN node + 1 ELSE @]
       /\ key_to_node' = [key_to_node EXCEPT ![p][k] = node]
  BY <1>1, <1>2 DEF family_set_lww
<1>11. fresh => node \in FamilyNodes /\ node <= writes BY <1>2, <1>8, MintIsBounded
<1>12. \A a \in FamilyOps : a.stamp \in FamilyStamps /\ a.node \in Nat /\ a.stamp.peer \in Replicas
  BY DEF FamilyOps, FamilyStamps, FamilyNodes
<1>13. AllOps \subseteq FamilyOps BY DEF AllOps, FamilyInv, FamilyTypes
<1>14. ~fresh => \E a \in ops[p] : a.key = k /\ a.node = node
  BY <1>1, <1>2 DEF FamilyInv, NodesKnown, OpsOf
<1>15. node \in FamilyNodes
  BY <1>11, <1>12, <1>13, <1>14 DEF AllOps, FamilyInv, FamilyTypes, FamilyOps
<1>16. op \in FamilyOps BY <1>4, <1>6, <1>15 DEF FamilyOps
<1>17. /\ FoldOfOps'
       /\ ops' \in [Replicas -> SUBSET FamilyOps]
       /\ winning' \in [Replicas -> [FamilyNodes -> FamilyOps \cup {NoNode}]]
       /\ presentKeys' \in [Replicas -> SUBSET FamilySuffixes]
       /\ family_epoch' \in [Replicas -> Nat]
       /\ \A q \in Replicas : ops'[q] = IF q = p THEN ops[p] \cup {op} ELSE ops[q]
  BY <1>9, <1>16, LogKeepsFold DEF FamilyInv
<1>18. AllOps' = AllOps \cup {op}
  <2>1. \A a : a \in AllOps' <=> \E q \in Replicas : a \in ops'[q] BY DEF AllOps
  <2>2. \A a : a \in AllOps <=> \E q \in Replicas : a \in ops[q] BY DEF AllOps
  <2>3. \A a : a \in AllOps' <=> a \in AllOps \/ a = op BY <2>1, <2>2, <1>17
  <2> QED BY <2>3
<1>19. op.stamp = stamp /\ op.key = k /\ op.node = node BY <1>4
<1>20. node \in Nat BY <1>15, <1>12, <1>16, <1>19
<1>21. FamilyTypes'
  <2>1. clock' \in [Replicas -> FamilyStamps] BY <1>6, <1>7 DEF FamilyInv, FamilyTypes
  <2>2. key_to_node' \in [Replicas -> [FamilySuffixes -> FamilyNodes \cup {NoNode}]]
    BY <1>10, <1>15 DEF FamilyInv, FamilyTypes
  <2>3. next_node' \in [Replicas -> Nat] BY <1>10, <1>20 DEF FamilyInv, FamilyTypes
  <2>4. writes' \in Nat BY <1>8 DEF FamilyInv, FamilyTypes
  <2> QED BY <2>1, <2>2, <2>3, <2>4, <1>17 DEF FamilyTypes
<1>22. \A q \in Replicas : clock'[q] = IF q = p THEN stamp ELSE clock[q]
  BY <1>7 DEF FamilyInv, FamilyTypes
<1>23. \A a \in AllOps : a.stamp.peer = p => StampLess(a.stamp, stamp)
  <2> SUFFICES ASSUME NEW a \in AllOps, a.stamp.peer = p PROVE StampLess(a.stamp, stamp) OBVIOUS
  <2>1. a.stamp = clock[p] \/ StampLess(a.stamp, clock[p]) BY DEF FamilyInv, ClocksAhead
  <2>2. a.stamp \in FamilyStamps BY <1>12, <1>13
  <2> QED BY <2>1, <2>2, <1>5, <1>6, StampsOrdered
<1>24. ClocksAhead'
  <2>1. \A q \in Replicas : clock'[q].peer = q
    BY <1>6, <1>22 DEF FamilyInv, ClocksAhead
  <2>2. ASSUME NEW a \in AllOps'
        PROVE  a.stamp = clock'[a.stamp.peer] \/ StampLess(a.stamp, clock'[a.stamp.peer])
    <3>1. CASE a = op BY <3>1, <1>6, <1>19, <1>22
    <3>2. CASE a \in AllOps /\ a.stamp.peer = p BY <3>2, <1>22, <1>23
    <3>3. CASE a \in AllOps /\ a.stamp.peer # p
      BY <3>3, <1>12, <1>13, <1>22 DEF FamilyInv, ClocksAhead
    <3> QED BY <3>1, <3>2, <3>3, <1>18
  <2> QED BY <2>1, <2>2 DEF ClocksAhead
<1>25. StampsUnique'
  <2>1. \A a \in AllOps : a.stamp # stamp
    <3> SUFFICES ASSUME NEW a \in AllOps, a.stamp = stamp PROVE FALSE OBVIOUS
    <3>1. StampLess(stamp, stamp) BY <1>6, <1>23
    <3> QED BY <3>1, <1>6, StampsOrdered
  <2> QED BY <2>1, <1>18, <1>19 DEF FamilyInv, StampsUnique
<1>26. \A q \in Replicas : \A j \in FamilySuffixes :
         key_to_node'[q][j] = IF q = p /\ j = k THEN node ELSE key_to_node[q][j]
  BY <1>10 DEF FamilyInv, FamilyTypes
<1>27. NodesKnown' BY <1>17, <1>19, <1>26, LoggedNodesKnown DEF FamilyInv
<1>28. next_node[p] \in Nat /\ writes \in Nat /\ next_node[p] <= writes /\ node < writes'
  <2>1. writes \in Nat BY DEF FamilyInv, FamilyTypes
  <2>2. ~fresh => node < writes
    BY <1>14 DEF AllOps, FamilyInv, NodesBounded
  <2> QED BY <2>1, <2>2, <1>8, <1>11, <1>20 DEF FamilyInv, FamilyTypes, NodesBounded
<1>29. NodesBounded'
  <2>1. ASSUME NEW a \in AllOps' PROVE a.node < writes'
    <3>1. CASE a = op BY <3>1, <1>19, <1>28
    <3>2. CASE a \in AllOps
      <4>1. a.node \in Nat /\ a.node < writes BY <3>2, <1>12, <1>13 DEF FamilyInv, NodesBounded
      <4> QED BY <4>1, <1>8, <1>28
    <3> QED BY <3>1, <3>2, <1>18
  <2>2. ASSUME NEW q \in Replicas PROVE next_node'[q] <= writes'
    <3>1. next_node'[q] = IF q = p /\ fresh THEN node + 1 ELSE next_node[q]
      BY <1>10 DEF FamilyInv, FamilyTypes
    <3>2. next_node[q] \in Nat /\ next_node[q] <= writes
      BY DEF FamilyInv, FamilyTypes, NodesBounded
    <3> QED BY <3>1, <3>2, <1>8, <1>11, <1>20, <1>28
  <2> QED BY <2>1, <2>2 DEF NodesBounded
<1> QED BY <1>17, <1>21, <1>24, <1>25, <1>27, <1>29 DEF FamilyInv

\* ingest_ops: an operation of another replica brings its key and its node.
LEMMA IngestKeepsFamily ==
  ASSUME FamilyInv, NEW p \in Replicas, NEW q \in Replicas, ingest_ops(p, q)
  PROVE  FamilyInv'
<1> USE FamilySyncAssumption
<1>1. PICK op \in ops[q] \ ops[p] :
        /\ Log(p, op)
        /\ key_to_node' = [key_to_node EXCEPT ![p][op.key] = op.node]
        /\ UNCHANGED <<clock, next_node, writes>>
  BY DEF ingest_ops
<1>2. op \in FamilyOps /\ op \in AllOps BY DEF AllOps, FamilyInv, FamilyTypes
<1>3. op.key \in FamilySuffixes /\ op.node \in FamilyNodes BY <1>2 DEF FamilyOps
<1>4. /\ FoldOfOps'
      /\ ops' \in [Replicas -> SUBSET FamilyOps]
      /\ winning' \in [Replicas -> [FamilyNodes -> FamilyOps \cup {NoNode}]]
      /\ presentKeys' \in [Replicas -> SUBSET FamilySuffixes]
      /\ family_epoch' \in [Replicas -> Nat]
      /\ \A r \in Replicas : ops'[r] = IF r = p THEN ops[p] \cup {op} ELSE ops[r]
  BY <1>1, <1>2, LogKeepsFold DEF FamilyInv
<1>5. AllOps' = AllOps
  <2>1. \A a : a \in AllOps' <=> \E r \in Replicas : a \in ops'[r] BY DEF AllOps
  <2>2. \A a : a \in AllOps <=> \E r \in Replicas : a \in ops[r] BY DEF AllOps
  <2>3. \A a : a \in AllOps' <=> a \in AllOps \/ a = op BY <2>1, <2>2, <1>4
  <2> QED BY <2>3, <1>2
<1>6. \A r \in Replicas : \A j \in FamilySuffixes :
        key_to_node'[r][j] = IF r = p /\ j = op.key THEN op.node ELSE key_to_node[r][j]
  BY <1>1, <1>3 DEF FamilyInv, FamilyTypes
<1>7. FamilyTypes'
  <2>1. key_to_node' \in [Replicas -> [FamilySuffixes -> FamilyNodes \cup {NoNode}]]
    BY <1>1, <1>3 DEF FamilyInv, FamilyTypes
  <2> QED BY <2>1, <1>1, <1>4 DEF FamilyInv, FamilyTypes
<1>8. ClocksAhead' BY <1>1, <1>5 DEF FamilyInv, ClocksAhead
<1>9. StampsUnique' BY <1>5 DEF FamilyInv, StampsUnique
<1>10. NodesKnown'
  <2>1. NodesKnown BY DEF FamilyInv
  <2>2. \A r \in Replicas : ops'[r] = IF r = p THEN ops[p] \cup {op} ELSE ops[r] BY <1>4
  <2> QED BY ONLY <2>1, <2>2, <1>6, LoggedNodesKnown, p \in Replicas
<1>11. NodesBounded' BY <1>1, <1>5 DEF FamilyInv, NodesBounded
<1> QED BY <1>4, <1>7, <1>8, <1>9, <1>10, <1>11 DEF FamilyInv

LEMMA FamilyUnchanged ==
  FamilyInv /\ UNCHANGED <<clock, ops, key_to_node, winning, presentKeys, family_epoch,
                           next_node, writes>> => FamilyInv'
<1> SUFFICES ASSUME FamilyInv,
                    UNCHANGED <<clock, ops, key_to_node, winning, presentKeys, family_epoch,
                                next_node, writes>>
             PROVE  FamilyInv'
  OBVIOUS
<1>1. AllOps' = AllOps BY DEF AllOps
<1>2. FamilyTypes' /\ FoldOfOps' BY DEF FamilyInv, FamilyTypes, FoldOfOps
<1>3. ClocksAhead' BY <1>1 DEF FamilyInv, ClocksAhead
<1>4. StampsUnique' /\ NodesKnown' BY <1>1 DEF FamilyInv, StampsUnique, NodesKnown, OpsOf
<1>5. NodesBounded' BY <1>1 DEF FamilyInv, NodesBounded
<1> QED BY <1>2, <1>3, <1>4, <1>5 DEF FamilyInv

LEMMA FamilyStep == FamilyInv /\ [FamilySyncNext]_familySyncVars => FamilyInv'
<1> SUFFICES ASSUME FamilyInv, [FamilySyncNext]_familySyncVars PROVE FamilyInv' OBVIOUS
<1>1. ASSUME NEW p \in Replicas, NEW q \in Replicas, ingest_frontier(p, q) PROVE FamilyInv'
  BY <1>1, FamilyUnchanged DEF ingest_frontier
<1>2. CASE UNCHANGED familySyncVars BY <1>2, FamilyUnchanged DEF familySyncVars
<1> QED BY <1>1, <1>2, SetKeepsFamily, IngestKeepsFamily DEF FamilySyncNext

\* Two operations of a node that are both the greatest are the same.
LEMMA GreatestUnique ==
  ASSUME FamilyInv, NEW s \in SUBSET AllOps, NEW n, NEW b, NEW c,
         Greatest(b, s, n), Greatest(c, s, n)
  PROVE  b = c
<1>1. CASE \A op \in s : op.node # n BY <1>1 DEF Greatest
<1>2. CASE \E op \in s : op.node = n
  <2>1. /\ b \in s /\ c \in s
        /\ ~StampLess(b.stamp, c.stamp) /\ ~StampLess(c.stamp, b.stamp)
    BY <1>2 DEF Greatest
  <2>2. b.stamp \in FamilyStamps /\ c.stamp \in FamilyStamps
    BY <2>1 DEF AllOps, FamilyInv, FamilyTypes, FamilyOps
  <2>3. b.stamp = c.stamp BY <2>1, <2>2, StampsOrdered
  <2> QED BY <2>1, <2>3 DEF FamilyInv, StampsUnique
<1> QED BY <1>1, <1>2

\* The fold of a set of operations does not depend on who has it.
LEMMA FamiliesFollow == FamilyInv => FamiliesConverge
<1> SUFFICES ASSUME FamilyInv, NEW p \in Replicas, NEW q \in Replicas, ops[p] = ops[q]
             PROVE  /\ presentKeys[p] = presentKeys[q] /\ family_epoch[p] = family_epoch[q]
                    /\ winning[p] = winning[q]
                    /\ \A k \in FamilySuffixes :
                         OneNode(p, k) => family_value_lww(p, k) = family_value_lww(q, k)
  BY DEF FamiliesConverge
<1>1. presentKeys[p] = presentKeys[q] /\ family_epoch[p] = family_epoch[q]
  BY DEF FamilyInv, FoldOfOps
<1>2. ops[p] \in SUBSET AllOps BY DEF AllOps
<1>3. \A n \in FamilyNodes : winning[p][n] = winning[q][n]
  <2> SUFFICES ASSUME NEW n \in FamilyNodes PROVE winning[p][n] = winning[q][n] OBVIOUS
  <2>1. Greatest(winning[p][n], ops[p], n) /\ Greatest(winning[q][n], ops[p], n)
    BY DEF FamilyInv, FoldOfOps
  <2> QED BY <2>1, <1>2, GreatestUnique
<1>4. winning[p] = winning[q] BY <1>3 DEF FamilyInv, FamilyTypes
<1>5. ASSUME NEW k \in FamilySuffixes, OneNode(p, k)
      PROVE  family_value_lww(p, k) = family_value_lww(q, k)
  <2>1. OpsOf(p, k) = OpsOf(q, k) BY DEF OpsOf
  <2>2. key_to_node[p][k] = key_to_node[q][k]
    BY <2>1, <1>5 DEF FamilyInv, NodesKnown, OneNode
  <2> QED BY <2>2, <1>4 DEF family_value_lww
<1> QED BY <1>1, <1>4, <1>5

\* The winner of a node of its own is the last write of its key.
LEMMA EntriesFollow == FamilyInv => EntriesShowLastWrite
<1> SUFFICES ASSUME FamilyInv, NEW p \in Replicas, NEW k \in FamilySuffixes,
                    NEW a \in OpsOf(p, k), OwnNode(p, k),
                    \A b \in OpsOf(p, k) : ~StampLess(a.stamp, b.stamp)
             PROVE  family_value_lww(p, k) = a.state
  BY DEF EntriesShowLastWrite
<1>1. a \in ops[p] /\ a.key = k BY DEF OpsOf
<1>2. ops[p] \in SUBSET AllOps /\ a \in FamilyOps BY <1>1 DEF AllOps, FamilyInv, FamilyTypes
<1>3. a.node \in FamilyNodes /\ a.node # NoNode
  BY <1>2, FamilySyncAssumption DEF FamilyOps, FamilyNodes
<1>4. key_to_node[p][k] = a.node
  <2>1. PICK b \in OpsOf(p, k) : b.node = key_to_node[p][k] BY DEF FamilyInv, NodesKnown
  <2>2. b \in ops[p] /\ b.key = k BY DEF OpsOf
  <2> QED BY <2>1, <2>2 DEF OwnNode
<1>5. Greatest(winning[p][a.node], ops[p], a.node) BY <1>3 DEF FamilyInv, FoldOfOps
<1>6. Greatest(a, ops[p], a.node)
  <2>1. \A b \in ops[p] : b.node = a.node => b \in OpsOf(p, k) BY DEF OwnNode, OpsOf
  <2> QED BY <1>1, <2>1 DEF Greatest
<1>7. winning[p][a.node] = a BY <1>2, <1>5, <1>6, GreatestUnique
<1>8. a # NoNode BY <1>2, FamilySyncAssumption
<1> QED BY <1>3, <1>4, <1>7, <1>8 DEF family_value_lww

-----------------------------------------------------------------------------
(* The signaling room *)

RoomMessages == [type : {"joined", "left", "signal"}, peer : RoomPeers]

RoomConns == [peer : RoomPeers \cup {NoPeerYet}, outbound : Seq(RoomMessages)]

RoomTypes ==
  /\ DOMAIN conns \subseteq 1..(next_conn_id - 1) /\ next_conn_id \in 1..(MaxConns + 1)
  /\ conns \in [DOMAIN conns -> RoomConns]
  /\ view \in [Conns -> SUBSET RoomPeers]

\* Nothing is queued for a connection before it joins.
QuietBeforeJoin == \A c \in DOMAIN conns : conns[c].peer = NoPeerYet => conns[c].outbound = <<>>

\* A peer is in the room under one connection.
OnePeerEach ==
  \A c, d \in DOMAIN conns : IsJoined(c) /\ conns[c].peer = conns[d].peer => c = d

RoomInv ==
  RoomTypes /\ QuietBeforeJoin /\ OnePeerEach /\ RosterViewsAgree /\ SignalsFromKnownPeers

(* What a queue tells *)

\* One message more changes what is known of its peer, and of nobody else.
LEMMA ToldOneMore ==
  ASSUME NEW peers, NEW msgs \in Seq(RoomMessages), NEW m \in RoomMessages,
         NEW p \in RoomPeers
  PROVE  p \in Told(peers, Append(msgs, m), Len(msgs) + 1)
           <=> IF m.type # "signal" /\ m.peer = p THEN m.type = "joined"
               ELSE p \in Told(peers, msgs, Len(msgs))
<1> DEFINE n == Len(msgs)
           longer == Append(msgs, m)
<1>1. n \in Nat /\ (\A i \in 1..n : longer[i] = msgs[i]) /\ longer[n + 1] = m
  BY AppendProperties
<1> HIDE DEF n, longer
<1>2. \A i : i \in About(longer, n + 1, p)
               <=> i \in About(msgs, n, p) \/ (i = n + 1 /\ m.type # "signal" /\ m.peer = p)
  BY <1>1 DEF About
<1>3. \A i \in About(msgs, n, p) : i \in 1..n BY DEF About
<1>4. CASE m.type # "signal" /\ m.peer = p
  <2>1. n + 1 \in About(longer, n + 1, p) BY <1>2, <1>4
  <2>2. \A i \in About(longer, n + 1, p) : i <= n + 1 BY <1>1, <1>2, <1>3
  <2>3. \A i \in About(longer, n + 1, p) : n + 1 <= i => i = n + 1 BY <1>1, <1>2, <1>3
  <2> QED BY <1>1, <1>4, <2>1, <2>2, <2>3 DEF Told, n, longer
<1>5. CASE ~(m.type # "signal" /\ m.peer = p)
  <2>1. About(longer, n + 1, p) = About(msgs, n, p) BY <1>2, <1>5
  <2>2. \A i \in About(msgs, n, p) : longer[i] = msgs[i] BY <1>1, <1>3
  <2>3. p \in Told(peers, longer, n + 1) <=> p \in Told(peers, msgs, n)
    BY <2>1, <2>2 DEF Told
  <2> QED BY <2>3, <1>5 DEF n, longer
<1> QED BY <1>4, <1>5

\* What the first messages tell does not depend on those that follow.
LEMMA ToldSoFar ==
  ASSUME NEW peers, NEW msgs \in Seq(RoomMessages), NEW m, NEW k \in 0..Len(msgs)
  PROVE  Told(peers, Append(msgs, m), k) = Told(peers, msgs, k)
<1>1. \A i \in 1..k : Append(msgs, m)[i] = msgs[i]
  <2>1. \A i \in 1..Len(msgs) : Append(msgs, m)[i] = msgs[i] BY AppendProperties
  <2>2. Len(msgs) \in Nat OBVIOUS
  <2> QED BY <2>1, <2>2
<1> DEFINE longer == Append(msgs, m)
<1> HIDE DEF longer
<1>2. \A i \in 1..k : longer[i] = msgs[i] BY <1>1 DEF longer
<1>3. \A p : About(longer, k, p) = About(msgs, k, p) BY <1>2 DEF About
<1>4. \A p : \A i \in About(msgs, k, p) : longer[i] = msgs[i] BY <1>2 DEF About
<1>5. Told(peers, longer, k) = Told(peers, msgs, k) BY <1>3, <1>4 DEF Told
<1> QED BY <1>5 DEF longer

LEMMA ToldNothing ==
  ASSUME NEW peers \in SUBSET RoomPeers, NEW msgs PROVE Told(peers, msgs, 0) = peers
<1>1. \A p : About(msgs, 0, p) = {} BY DEF About
<1> QED BY <1>1 DEF Told

\* What was queued keeps its meaning when a message is queued behind it.
LEMMA NotifiedConns ==
  ASSUME NEW cs, cs \in [DOMAIN cs -> RoomConns], NEW to, NEW m \in RoomMessages
  PROVE  /\ DOMAIN Notified(cs, to, m) = DOMAIN cs
         /\ Notified(cs, to, m) \in [DOMAIN cs -> RoomConns]
         /\ \A c \in DOMAIN cs :
              /\ Notified(cs, to, m)[c].peer = cs[c].peer
              /\ Notified(cs, to, m)[c].outbound =
                   IF c \in to THEN Append(cs[c].outbound, m) ELSE cs[c].outbound
<1>1. ASSUME NEW c \in DOMAIN cs
      PROVE  LET d == IF c \in to THEN [cs[c] EXCEPT !.outbound = Append(@, m)] ELSE cs[c]
             IN /\ d \in RoomConns /\ d.peer = cs[c].peer
                /\ d.outbound = IF c \in to THEN Append(cs[c].outbound, m) ELSE cs[c].outbound
  <2>1. cs[c] \in RoomConns /\ cs[c].outbound \in Seq(RoomMessages) BY DEF RoomConns
  <2>2. Append(cs[c].outbound, m) \in Seq(RoomMessages) BY <2>1, AppendProperties
  <2> QED BY <2>1, <2>2 DEF RoomConns
<1> QED BY <1>1 DEF Notified

LEMMA RoomInvInit == RoomInit => RoomInv
<1> SUFFICES ASSUME RoomInit PROVE RoomInv OBVIOUS
<1>1. DOMAIN conns = {} BY DEF RoomInit
<1>2. conns \in [{} -> RoomConns] BY DEF RoomInit
<1>3. RoomTypes BY <1>1, <1>2, RoomAssumption DEF RoomInit, RoomTypes
<1> QED BY <1>1, <1>3
        DEF RoomInit, RoomInv, QuietBeforeJoin, OnePeerEach, RosterViewsAgree, SignalsFromKnownPeers

\* Every signal in a queue comes from a peer told of before it, or from self.
SignalsKnown(peers, msgs, self) ==
  \A i \in 1..Len(msgs) :
    msgs[i].type = "signal" => msgs[i].peer \in Told(peers, msgs, i - 1) \cup {self}

LEMMA SignalsOneMore ==
  ASSUME NEW peers, NEW msgs \in Seq(RoomMessages), NEW m \in RoomMessages, NEW self,
         SignalsKnown(peers, msgs, self),
         m.type = "signal" => m.peer \in Told(peers, msgs, Len(msgs)) \cup {self}
  PROVE  SignalsKnown(peers, Append(msgs, m), self)
<1> DEFINE longer == Append(msgs, m)
           n == Len(msgs)
<1>1. /\ n \in Nat /\ Len(longer) = n + 1 /\ longer[n + 1] = m
      /\ \A i \in 1..n : longer[i] = msgs[i]
  BY AppendProperties
<1>2. \A k \in 0..n : Told(peers, longer, k) = Told(peers, msgs, k) BY ToldSoFar
<1> HIDE DEF longer
<1>3. ASSUME NEW i \in 1..(n + 1), longer[i].type = "signal"
      PROVE  longer[i].peer \in Told(peers, longer, i - 1) \cup {self}
  <2>1. i - 1 \in 0..n BY <1>1
  <2>2. CASE i = n + 1
    <3>1. i - 1 = n BY <2>2, <1>1
    <3>2. Told(peers, longer, i - 1) = Told(peers, msgs, Len(msgs)) BY <2>1, <3>1, <1>2
    <3> QED BY <3>2, <2>2, <1>1, <1>3
  <2>3. CASE i \in 1..n
    <3>1. Told(peers, longer, i - 1) = Told(peers, msgs, i - 1) BY <2>1, <1>2
    <3> QED BY <3>1, <2>3, <1>1, <1>3 DEF SignalsKnown
  <2> QED BY <2>2, <2>3, <1>1
<1>4. SignalsKnown(peers, longer, self) BY <1>1, <1>3 DEF SignalsKnown
<1> QED BY <1>4 DEF longer

\* The invariant, connection by connection.
LEMMA RoomInvParts ==
  RoomInv =>
    /\ \A c \in DOMAIN conns :
         /\ c \in Conns /\ view[c] \in SUBSET RoomPeers
         /\ conns[c] \in RoomConns /\ conns[c].outbound \in Seq(RoomMessages)
         /\ conns[c].peer \in RoomPeers \cup {NoPeerYet}
         /\ SignalsKnown(view[c], conns[c].outbound, conns[c].peer)
    /\ \A c \in DOMAIN conns : IsJoined(c) =>
         Told(view[c], conns[c].outbound, Len(conns[c].outbound)) = roster \ {conns[c].peer}
    /\ roster \subseteq RoomPeers
    /\ \A p \in RoomPeers :
         p \in roster <=> \E c \in DOMAIN conns : conns[c].peer = p
<1> SUFFICES ASSUME RoomInv
             PROVE  /\ \A c \in DOMAIN conns :
                         /\ c \in Conns /\ view[c] \in SUBSET RoomPeers
                         /\ conns[c] \in RoomConns /\ conns[c].outbound \in Seq(RoomMessages)
                         /\ conns[c].peer \in RoomPeers \cup {NoPeerYet}
                         /\ SignalsKnown(view[c], conns[c].outbound, conns[c].peer)
                    /\ \A c \in DOMAIN conns : IsJoined(c) =>
                         Told(view[c], conns[c].outbound, Len(conns[c].outbound))
                           = roster \ {conns[c].peer}
                    /\ roster \subseteq RoomPeers
                    /\ \A p \in RoomPeers :
                         p \in roster <=> \E c \in DOMAIN conns : conns[c].peer = p
  OBVIOUS
<1>1. ASSUME NEW c \in DOMAIN conns
      PROVE  /\ c \in Conns /\ view[c] \in SUBSET RoomPeers
             /\ conns[c] \in RoomConns /\ conns[c].outbound \in Seq(RoomMessages)
             /\ conns[c].peer \in RoomPeers \cup {NoPeerYet}
  <2>1. c \in Conns BY RoomAssumption DEF RoomInv, RoomTypes, Conns
  <2>2. view[c] \in SUBSET RoomPeers BY <2>1 DEF RoomInv, RoomTypes
  <2>3. conns[c] \in RoomConns BY DEF RoomInv, RoomTypes
  <2> QED BY <2>1, <2>2, <2>3 DEF RoomConns
<1>2. ASSUME NEW c \in DOMAIN conns
      PROVE  SignalsKnown(view[c], conns[c].outbound, conns[c].peer)
  BY DEF RoomInv, SignalsFromKnownPeers, SignalsKnown, KnownBy
<1>3. \A c \in DOMAIN conns : IsJoined(c) =>
        Told(view[c], conns[c].outbound, Len(conns[c].outbound)) = roster \ {conns[c].peer}
  BY DEF RoomInv, RosterViewsAgree, KnownBy
<1>4. /\ roster \subseteq RoomPeers
      /\ \A p \in RoomPeers : p \in roster <=> \E c \in DOMAIN conns : conns[c].peer = p
  BY <1>1, RoomAssumption DEF roster, IsJoined
<1> QED BY <1>1, <1>2, <1>3, <1>4

\* And back: what a step has to show for each connection.
LEMMA RoomInvFromParts ==
  ASSUME RoomTypes', QuietBeforeJoin', OnePeerEach',
         peer_to_conn' = {<<conns[c].peer, c>> : c \in {d \in DOMAIN conns : IsJoined(d)}}',
         \A c \in DOMAIN conns' :
           SignalsKnown(view'[c], conns'[c].outbound, conns'[c].peer),
         \A c \in DOMAIN conns' : conns'[c].peer # NoPeerYet =>
           Told(view'[c], conns'[c].outbound, Len(conns'[c].outbound))
             = roster' \ {conns'[c].peer}
  PROVE  RoomInv'
BY DEF RoomInv, RosterViewsAgree, SignalsFromKnownPeers, SignalsKnown, KnownBy, IsJoined

\* connect: nobody is told, and nobody asks.
LEMMA ConnectKeepsRoom == ASSUME RoomInv, Connect PROVE RoomInv'
<1> DEFINE fresh == [peer |-> NoPeerYet, outbound |-> <<>>]
<1>1. /\ next_conn_id <= MaxConns /\ next_conn_id' = next_conn_id + 1
      /\ UNCHANGED <<peer_to_conn, view>>
  BY DEF Connect
<1>2. next_conn_id \in Nat /\ \A c \in DOMAIN conns : c \in 1..(next_conn_id - 1)
  BY DEF RoomInv, RoomTypes
<1>3. next_conn_id \notin DOMAIN conns BY <1>2
<1>4. /\ DOMAIN conns' = DOMAIN conns \cup {next_conn_id}
      /\ \A c \in DOMAIN conns : conns'[c] = conns[c]
      /\ conns'[next_conn_id] = fresh
      /\ conns' = [c \in DOMAIN conns' |-> conns'[c]]
  BY <1>3 DEF Connect
<1>5. fresh \in RoomConns BY DEF RoomConns
<1>6. RoomTypes'
  <2>1. DOMAIN conns' \subseteq 1..(next_conn_id' - 1) BY <1>1, <1>2, <1>4 DEF RoomInv, RoomTypes
  <2>2. next_conn_id' \in 1..(MaxConns + 1) BY <1>1, RoomAssumption DEF RoomInv, RoomTypes
  <2>3. \A c \in DOMAIN conns' : conns'[c] \in RoomConns BY <1>4, <1>5, RoomInvParts
  <2>4. conns' \in [DOMAIN conns' -> RoomConns] BY <2>3, <1>4
  <2> QED BY <2>1, <2>2, <2>4, <1>1 DEF RoomInv, RoomTypes
<1>7. QuietBeforeJoin' BY <1>4 DEF RoomInv, QuietBeforeJoin
<1>8. \A c : IsJoined(c)' <=> IsJoined(c) BY <1>3, <1>4 DEF IsJoined
<1>9. OnePeerEach'
  BY <1>3, <1>4, <1>8 DEF RoomInv, OnePeerEach, IsJoined
<1>10. {d \in DOMAIN conns : IsJoined(d)}' = {d \in DOMAIN conns : IsJoined(d)}
  BY <1>3, <1>4, <1>8 DEF IsJoined
<1>11. peer_to_conn' = {<<conns[c].peer, c>> : c \in {d \in DOMAIN conns : IsJoined(d)}}'
  BY <1>1, <1>4, <1>10 DEF RoomInv, RosterViewsAgree
<1>12. roster' = roster BY <1>4, <1>10 DEF roster
<1>13. ASSUME NEW c \in DOMAIN conns'
       PROVE  SignalsKnown(view'[c], conns'[c].outbound, conns'[c].peer)
  <2>1. CASE c \in DOMAIN conns BY <2>1, <1>1, <1>4, RoomInvParts
  <2>2. CASE c = next_conn_id BY <2>2, <1>4 DEF SignalsKnown
  <2> QED BY <2>1, <2>2, <1>4
<1>14. ASSUME NEW c \in DOMAIN conns', conns'[c].peer # NoPeerYet
       PROVE  Told(view'[c], conns'[c].outbound, Len(conns'[c].outbound))
                = roster' \ {conns'[c].peer}
  <2>1. c \in DOMAIN conns /\ conns'[c] = conns[c] /\ IsJoined(c)
    BY <1>4, <1>14 DEF IsJoined
  <2> QED BY <2>1, <1>1, <1>12, RoomInvParts
<1> HIDE DEF fresh
<1> QED BY <1>6, <1>7, <1>9, <1>11, <1>13, <1>14, RoomInvFromParts

\* The whole of a queue, with one message more.
LEMMA ToldAll ==
  ASSUME NEW peers, NEW msgs \in Seq(RoomMessages), NEW m \in RoomMessages
  PROVE  /\ m.type = "joined" =>
              Told(peers, Append(msgs, m), Len(Append(msgs, m)))
                = Told(peers, msgs, Len(msgs)) \cup {m.peer}
         /\ m.type = "left" =>
              Told(peers, Append(msgs, m), Len(Append(msgs, m)))
                = Told(peers, msgs, Len(msgs)) \ {m.peer}
         /\ m.type = "signal" =>
              Told(peers, Append(msgs, m), Len(Append(msgs, m))) = Told(peers, msgs, Len(msgs))
<1> DEFINE before == Told(peers, msgs, Len(msgs))
           after == Told(peers, Append(msgs, m), Len(msgs) + 1)
<1>1. Len(Append(msgs, m)) = Len(msgs) + 1 BY AppendProperties
<1>2. \A p \in RoomPeers :
        p \in after <=> IF m.type # "signal" /\ m.peer = p THEN m.type = "joined" ELSE p \in before
  BY ToldOneMore
<1>3. before \subseteq RoomPeers /\ after \subseteq RoomPeers BY DEF Told
<1>4. m.type \in {"joined", "left", "signal"} /\ m.peer \in RoomPeers BY DEF RoomMessages
<1> HIDE DEF before, after
<1>5. CASE m.type = "joined"
  <2>1. after = before \cup {m.peer} BY <1>2, <1>3, <1>4, <1>5
  <2> QED BY <2>1, <1>1, <1>5 DEF before, after
<1>6. CASE m.type = "left"
  <2>1. after = before \ {m.peer} BY <1>2, <1>3, <1>4, <1>6
  <2> QED BY <2>1, <1>1, <1>6 DEF before, after
<1>7. CASE m.type = "signal"
  <2>1. after = before BY <1>2, <1>3, <1>4, <1>7
  <2> QED BY <2>1, <1>1, <1>7 DEF before, after
<1> QED BY <1>4, <1>5, <1>6, <1>7

\* disconnect: those who stay are told, and the peer leaves the index.
LEMMA CloseKeepsRoom == ASSUME RoomInv, NEW c \in Conns, CloseConn(c) PROVE RoomInv'
<1>1. c \in DOMAIN conns /\ next_conn_id' = next_conn_id /\ view' = [view EXCEPT ![c] = {}]
  BY DEF CloseConn
<1>2. PICK p : p = conns[c].peer OBVIOUS
<1>3. PICK left : left = [type |-> "left", peer |-> p] OBVIOUS
<1>4. p \in RoomPeers \cup {NoPeerYet} BY <1>1, <1>2, RoomInvParts
<1>5. IsJoined(c) <=> p # NoPeerYet BY <1>1, <1>2 DEF IsJoined
<1>6. p # NoPeerYet => left \in RoomMessages BY <1>3, <1>4 DEF RoomMessages
<1>7. PICK cs : cs = IF IsJoined(c) THEN LeftTold(conns, p) ELSE conns OBVIOUS
<1>8. conns \in [DOMAIN conns -> RoomConns] BY DEF RoomInv, RoomTypes
<1>9. /\ DOMAIN cs = DOMAIN conns
      /\ \A d \in DOMAIN conns :
           /\ cs[d] \in RoomConns /\ cs[d].peer = conns[d].peer
           /\ cs[d].outbound = IF IsJoined(c) /\ d \in Others(p)
                               THEN Append(conns[d].outbound, left) ELSE conns[d].outbound
  <2>1. CASE ~IsJoined(c) BY <2>1, <1>7, <1>8
  <2>2. CASE IsJoined(c)
    <3>1. cs = Notified(conns, Others(p), left) BY <2>2, <1>3, <1>7 DEF LeftTold
    <3>2. left \in RoomMessages BY <2>2, <1>5, <1>6
    <3>3. /\ DOMAIN cs = DOMAIN conns /\ cs \in [DOMAIN conns -> RoomConns]
          /\ \A d \in DOMAIN conns :
               /\ cs[d].peer = conns[d].peer
               /\ cs[d].outbound = IF d \in Others(p) THEN Append(conns[d].outbound, left)
                                   ELSE conns[d].outbound
      BY <3>1, <3>2, <1>8, NotifiedConns
    <3> QED BY <3>3, <2>2
  <2> QED BY <2>1, <2>2
<1>10. conns' = WithoutConn(cs, c) BY <1>2, <1>7 DEF CloseConn
<1>11. /\ DOMAIN conns' = DOMAIN conns \ {c}
       /\ \A d \in DOMAIN conns' : conns'[d] = cs[d]
       /\ conns' \in [DOMAIN conns' -> RoomConns]
  BY <1>9, <1>10 DEF WithoutConn
<1>12. \A d \in DOMAIN conns' : d \in DOMAIN conns /\ d # c /\ conns'[d].peer = conns[d].peer
  BY <1>9, <1>11
<1>13. \A d \in DOMAIN conns' : view'[d] = view[d]
  BY <1>1, <1>12, RoomInvParts DEF RoomInv, RoomTypes
<1>14. RoomTypes' BY <1>1, <1>11 DEF RoomInv, RoomTypes
<1>15. \A d : IsJoined(d)' <=> IsJoined(d) /\ d # c
  BY <1>11, <1>12 DEF IsJoined
<1>16. \A d \in DOMAIN conns' : ~IsJoined(d) => conns'[d].outbound = conns[d].outbound
  BY <1>9, <1>11, <1>12 DEF Others
<1>17. QuietBeforeJoin'
  <2> SUFFICES ASSUME NEW d \in DOMAIN conns', conns'[d].peer = NoPeerYet
               PROVE  conns'[d].outbound = <<>>
    BY DEF QuietBeforeJoin
  <2>1. ~IsJoined(d) /\ conns[d].outbound = <<>>
    BY <1>12 DEF IsJoined, RoomInv, QuietBeforeJoin
  <2> QED BY <2>1, <1>16
<1>18. OnePeerEach' BY <1>12, <1>15 DEF RoomInv, OnePeerEach
<1>19. \A d \in DOMAIN conns : IsJoined(d) /\ conns[d].peer = p => d = c
  BY <1>1, <1>2 DEF RoomInv, OnePeerEach
<1>20. peer_to_conn' = {<<conns[d].peer, d>> : d \in {b \in DOMAIN conns : IsJoined(b)}}'
  <2>1. {<<conns[d].peer, d>> : d \in {b \in DOMAIN conns : IsJoined(b)}}'
          = {<<conns'[d].peer, d>> : d \in {b \in DOMAIN conns : IsJoined(b) /\ b # c}}
    BY <1>11, <1>12, <1>15
  <2>2. {<<conns'[d].peer, d>> : d \in {b \in DOMAIN conns : IsJoined(b) /\ b # c}}
          = {<<conns[d].peer, d>> : d \in {b \in DOMAIN conns : IsJoined(b) /\ b # c}}
    BY <1>11, <1>12
  <2>3. peer_to_conn = {<<conns[d].peer, d>> : d \in {b \in DOMAIN conns : IsJoined(b)}}
    BY DEF RoomInv, RosterViewsAgree
  <2>4. CASE IsJoined(c)
    <3>1. peer_to_conn' = {e \in peer_to_conn : e[1] # p} BY <2>4, <1>2 DEF CloseConn
    <3>2. {e \in peer_to_conn : e[1] # p}
            = {<<conns[d].peer, d>> : d \in {b \in DOMAIN conns : IsJoined(b) /\ b # c}}
      BY <2>3, <1>2, <1>19
    <3> QED BY <3>1, <3>2, <2>1, <2>2
  <2>5. CASE ~IsJoined(c)
    <3>1. peer_to_conn' = peer_to_conn BY <2>5 DEF CloseConn
    <3>2. {b \in DOMAIN conns : IsJoined(b) /\ b # c} = {b \in DOMAIN conns : IsJoined(b)}
      BY <2>5
    <3> QED BY <3>1, <3>2, <2>1, <2>2, <2>3
  <2> QED BY <2>4, <2>5
<1>21. roster' = IF IsJoined(c) THEN roster \ {p} ELSE roster
  <2>1. roster' = {conns[d].peer : d \in {b \in DOMAIN conns : IsJoined(b) /\ b # c}}
    BY <1>11, <1>12, <1>15 DEF roster
  <2>2. CASE IsJoined(c) BY <2>1, <2>2, <1>2, <1>19 DEF roster
  <2>3. CASE ~IsJoined(c)
    <3>1. {b \in DOMAIN conns : IsJoined(b) /\ b # c} = {b \in DOMAIN conns : IsJoined(b)}
      BY <2>3
    <3> QED BY <3>1, <2>1, <2>3 DEF roster
  <2> QED BY <2>2, <2>3
<1>22. ASSUME NEW d \in DOMAIN conns'
       PROVE  SignalsKnown(view'[d], conns'[d].outbound, conns'[d].peer)
  <2>1. /\ SignalsKnown(view[d], conns[d].outbound, conns[d].peer)
        /\ conns[d].outbound \in Seq(RoomMessages)
    BY <1>12, RoomInvParts
  <2>2. CASE conns'[d].outbound = conns[d].outbound BY <2>1, <2>2, <1>12, <1>13
  <2>3. CASE IsJoined(c) /\ conns'[d].outbound = Append(conns[d].outbound, left)
    <3>1. left \in RoomMessages /\ left.type # "signal" BY <2>3, <1>3, <1>5, <1>6
    <3>2. SignalsKnown(view[d], Append(conns[d].outbound, left), conns[d].peer)
      BY <2>1, <3>1, SignalsOneMore
    <3> QED BY <3>2, <2>3, <1>12, <1>13
  <2> QED BY <2>2, <2>3, <1>9, <1>11, <1>12
<1>23. ASSUME NEW d \in DOMAIN conns', conns'[d].peer # NoPeerYet
       PROVE  Told(view'[d], conns'[d].outbound, Len(conns'[d].outbound))
                = roster' \ {conns'[d].peer}
  <2>1. IsJoined(d) /\ d # c /\ d \in DOMAIN conns BY <1>12, <1>23 DEF IsJoined
  <2>2. /\ Told(view[d], conns[d].outbound, Len(conns[d].outbound)) = roster \ {conns[d].peer}
        /\ conns[d].outbound \in Seq(RoomMessages)
    BY <2>1, RoomInvParts
  <2>3. CASE ~IsJoined(c)
    <3>1. conns'[d].outbound = conns[d].outbound BY <2>1, <2>3, <1>9, <1>11
    <3> QED BY <3>1, <2>2, <2>3, <1>12, <1>13, <1>21
  <2>4. CASE IsJoined(c)
    <3>1. d \in Others(p) BY <2>1, <1>19 DEF Others
    <3>2. conns'[d].outbound = Append(conns[d].outbound, left) BY <3>1, <2>1, <2>4, <1>9, <1>11
    <3>3. left \in RoomMessages /\ left.type = "left" /\ left.peer = p
      BY <2>4, <1>3, <1>5, <1>6
    <3>4. Told(view[d], Append(conns[d].outbound, left), Len(Append(conns[d].outbound, left)))
            = Told(view[d], conns[d].outbound, Len(conns[d].outbound)) \ {p}
      <4>1. PICK v, q : v = view[d] /\ q = conns[d].outbound OBVIOUS
      <4>2. q \in Seq(RoomMessages) BY <2>2, <4>1
      <4>3. Told(v, Append(q, left), Len(Append(q, left))) = Told(v, q, Len(q)) \ {left.peer}
        BY <3>3, <4>2, ToldAll
      <4> QED BY <4>1, <4>3, <3>3
    <3> QED BY <3>2, <3>4, <2>2, <2>4, <1>12, <1>13, <1>21
  <2> QED BY <2>3, <2>4
<1> QED BY <1>14, <1>17, <1>18, <1>20, <1>22, <1>23, RoomInvFromParts

\* A join: the others are told of the peer, which takes the roster as it stands.
LEMMA JoinKeepsRoom ==
  ASSUME RoomInv, NEW c \in Conns, NEW p \in RoomPeers, Join(c, p)
  PROVE  RoomInv'
<1>1. /\ c \in DOMAIN conns /\ conns[c].peer = NoPeerYet /\ next_conn_id' = next_conn_id
      /\ view' = [view EXCEPT ![c] = roster \ {p}]
      /\ peer_to_conn' = peer_to_conn \cup {<<p, c>>}
      /\ ~\E e \in peer_to_conn : e[1] = p
  BY DEF Join, MayJoin
<1>2. PICK joined : joined = [type |-> "joined", peer |-> p] OBVIOUS
<1>3. joined \in RoomMessages /\ joined.type = "joined" /\ joined.peer = p
  BY <1>2 DEF RoomMessages
<1>4. conns \in [DOMAIN conns -> RoomConns] BY DEF RoomInv, RoomTypes
<1>5. PICK cs : cs = Notified(conns, Others(p), joined) OBVIOUS
<1>6. /\ DOMAIN cs = DOMAIN conns /\ cs \in [DOMAIN conns -> RoomConns]
      /\ \A d \in DOMAIN conns :
           /\ cs[d].peer = conns[d].peer
           /\ cs[d].outbound = IF d \in Others(p) THEN Append(conns[d].outbound, joined)
                               ELSE conns[d].outbound
  BY <1>3, <1>4, <1>5, NotifiedConns
<1>7. p # NoPeerYet BY RoomAssumption
<1>8. conns' = [cs EXCEPT ![c].peer = p] BY <1>2, <1>5 DEF Join
<1>9. /\ DOMAIN conns' = DOMAIN conns
      /\ \A d \in DOMAIN conns : d # c => conns'[d] = cs[d]
      /\ conns'[c] = [cs[c] EXCEPT !.peer = p]
  BY <1>1, <1>6, <1>8
<1>10. cs[c] \in RoomConns BY <1>1, <1>6
<1>11. conns'[c] \in RoomConns /\ conns'[c].peer = p /\ conns'[c].outbound = cs[c].outbound
  BY <1>9, <1>10 DEF RoomConns
<1>12. ~IsJoined(c) /\ c \notin Others(p) /\ conns'[c].outbound = <<>>
  BY <1>1, <1>6, <1>11 DEF IsJoined, Others, RoomInv, QuietBeforeJoin
<1>13. \A d \in DOMAIN conns : IsJoined(d) => conns[d].peer # p
  <2> SUFFICES ASSUME NEW d \in DOMAIN conns, IsJoined(d), conns[d].peer = p PROVE FALSE
    OBVIOUS
  <2>1. <<p, d>> \in peer_to_conn BY DEF RoomInv, RosterViewsAgree
  <2>2. <<p, d>>[1] = p OBVIOUS
  <2> QED BY <2>1, <2>2, <1>1
<1>14. \A d \in DOMAIN conns' :
         /\ conns'[d].peer = IF d = c THEN p ELSE conns[d].peer
         /\ view'[d] = IF d = c THEN roster \ {p} ELSE view[d]
  BY <1>1, <1>6, <1>9, <1>11, RoomInvParts DEF RoomInv, RoomTypes
<1>15. \A d : IsJoined(d)' <=> IsJoined(d) \/ d = c
  BY <1>1, <1>7, <1>9, <1>14 DEF IsJoined
<1>16. RoomTypes'
  <2>1. roster \ {p} \in SUBSET RoomPeers BY RoomInvParts
  <2>2. view' \in [Conns -> SUBSET RoomPeers] BY <2>1, <1>1 DEF RoomInv, RoomTypes
  <2>3. \A d \in DOMAIN conns' : conns'[d] \in RoomConns BY <1>6, <1>9, <1>11
  <2>4. conns' \in [DOMAIN conns' -> RoomConns] BY <2>3, <1>6, <1>8, <1>9
  <2> QED BY <2>2, <2>4, <1>1, <1>9 DEF RoomInv, RoomTypes
<1>17. QuietBeforeJoin'
  <2> SUFFICES ASSUME NEW d \in DOMAIN conns', conns'[d].peer = NoPeerYet
               PROVE  conns'[d].outbound = <<>>
    BY DEF QuietBeforeJoin
  <2>1. d # c /\ conns[d].peer = NoPeerYet /\ d \in DOMAIN conns BY <1>7, <1>9, <1>14
  <2>2. d \notin Others(p) BY <2>1 DEF Others, IsJoined
  <2> QED BY <2>1, <2>2, <1>6, <1>9 DEF RoomInv, QuietBeforeJoin
<1>18. OnePeerEach'
  <2> SUFFICES ASSUME NEW d \in DOMAIN conns', NEW b \in DOMAIN conns',
                      IsJoined(d)', conns'[d].peer = conns'[b].peer
               PROVE  d = b
    BY DEF OnePeerEach
  <2>1. IsJoined(b)' BY DEF IsJoined
  <2> QED BY <2>1, <1>9, <1>13, <1>14, <1>15 DEF RoomInv, OnePeerEach
<1>19. peer_to_conn' = {<<conns[d].peer, d>> : d \in {b \in DOMAIN conns : IsJoined(b)}}'
  <2>1. {<<conns[d].peer, d>> : d \in {b \in DOMAIN conns : IsJoined(b)}}'
          = {<<conns'[d].peer, d>> : d \in {b \in DOMAIN conns : IsJoined(b) \/ b = c}}
    BY <1>9, <1>15
  <2>2. {<<conns'[d].peer, d>> : d \in {b \in DOMAIN conns : IsJoined(b) \/ b = c}}
          = {<<conns[d].peer, d>> : d \in {b \in DOMAIN conns : IsJoined(b)}} \cup {<<p, c>>}
    BY <1>1, <1>9, <1>12, <1>14
  <2>3. peer_to_conn = {<<conns[d].peer, d>> : d \in {b \in DOMAIN conns : IsJoined(b)}}
    BY DEF RoomInv, RosterViewsAgree
  <2> QED BY <2>1, <2>2, <2>3, <1>1
<1>20. roster' = roster \cup {p} /\ p \notin roster
  <2>1. roster' = {conns'[d].peer : d \in {b \in DOMAIN conns : IsJoined(b) \/ b = c}}
    BY <1>9, <1>15 DEF roster
  <2>2. {conns'[d].peer : d \in {b \in DOMAIN conns : IsJoined(b) \/ b = c}}
          = {conns[d].peer : d \in {b \in DOMAIN conns : IsJoined(b)}} \cup {p}
    BY <1>1, <1>9, <1>12, <1>14
  <2>3. p \notin roster BY <1>13 DEF roster
  <2> QED BY <2>1, <2>2, <2>3 DEF roster
<1>21. ASSUME NEW d \in DOMAIN conns'
       PROVE  SignalsKnown(view'[d], conns'[d].outbound, conns'[d].peer)
  <2>1. CASE d = c BY <2>1, <1>12 DEF SignalsKnown
  <2>2. CASE d # c
    <3>1. /\ SignalsKnown(view[d], conns[d].outbound, conns[d].peer)
          /\ conns[d].outbound \in Seq(RoomMessages) /\ d \in DOMAIN conns
      BY <1>9, RoomInvParts
    <3>2. SignalsKnown(view[d], Append(conns[d].outbound, joined), conns[d].peer)
      BY <3>1, <1>3, SignalsOneMore
    <3> QED BY <3>1, <3>2, <2>2, <1>6, <1>9, <1>14
  <2> QED BY <2>1, <2>2
<1>22. ASSUME NEW d \in DOMAIN conns', conns'[d].peer # NoPeerYet
       PROVE  Told(view'[d], conns'[d].outbound, Len(conns'[d].outbound))
                = roster' \ {conns'[d].peer}
  <2>1. CASE d = c
    <3>1. Len(conns'[d].outbound) = 0 /\ view'[d] = roster \ {p} /\ conns'[d].peer = p
      BY <2>1, <1>9, <1>12, <1>14
    <3>2. roster \ {p} \in SUBSET RoomPeers BY RoomInvParts
    <3>3. Told(roster \ {p}, conns'[d].outbound, 0) = roster \ {p} BY <3>2, ToldNothing
    <3> QED BY <3>1, <3>3, <1>20
  <2>2. CASE d # c
    <3>1. IsJoined(d) /\ d \in DOMAIN conns BY <2>2, <1>9, <1>14, <1>22 DEF IsJoined
    <3>2. conns[d].peer # p /\ d \in Others(p) BY <3>1, <1>13 DEF Others
    <3>3. conns'[d].outbound = Append(conns[d].outbound, joined) BY <2>2, <3>1, <3>2, <1>6, <1>9
    <3>4. /\ Told(view[d], conns[d].outbound, Len(conns[d].outbound)) = roster \ {conns[d].peer}
          /\ conns[d].outbound \in Seq(RoomMessages)
      BY <3>1, RoomInvParts
    <3>5. Told(view[d], Append(conns[d].outbound, joined), Len(Append(conns[d].outbound, joined)))
            = Told(view[d], conns[d].outbound, Len(conns[d].outbound)) \cup {p}
      BY <3>4, <1>3, ToldAll
    <3> QED BY <2>2, <3>2, <3>3, <3>4, <3>5, <1>14, <1>20
  <2> QED BY <2>1, <2>2
<1> QED BY <1>16, <1>17, <1>18, <1>19, <1>21, <1>22, RoomInvFromParts

\* An offer, an answer, a candidate or a relay to the connection of a peer.
LEMMA ForwardKeepsRoom ==
  ASSUME RoomInv, NEW c \in Conns, NEW to \in RoomPeers, Forward(c, to)
  PROVE  RoomInv'
<1>1. /\ c \in DOMAIN conns /\ conns[c].peer # NoPeerYet
      /\ UNCHANGED <<next_conn_id, peer_to_conn, view>>
  BY DEF Forward, IsJoined
<1>2. PICK from : from = conns[c].peer OBVIOUS
<1>3. PICK signal : signal = [type |-> "signal", peer |-> from] OBVIOUS
<1>4. from \in RoomPeers /\ from \in roster BY <1>1, <1>2, RoomInvParts
<1>5. signal \in RoomMessages /\ signal.type = "signal" /\ signal.peer = from
  BY <1>3, <1>4 DEF RoomMessages
<1>6. PICK at : at = {e[2] : e \in {f \in peer_to_conn : f[1] = to}} OBVIOUS
<1>7. conns \in [DOMAIN conns -> RoomConns] BY DEF RoomInv, RoomTypes
<1>8. conns' = Notified(conns, at, signal) BY <1>2, <1>3, <1>6 DEF Forward
<1>9. /\ DOMAIN conns' = DOMAIN conns /\ conns' \in [DOMAIN conns -> RoomConns]
      /\ \A d \in DOMAIN conns :
           /\ conns'[d].peer = conns[d].peer
           /\ conns'[d].outbound = IF d \in at THEN Append(conns[d].outbound, signal)
                                   ELSE conns[d].outbound
  BY <1>5, <1>7, <1>8, NotifiedConns
<1>10. \A d \in at : IsJoined(d)
  <2> SUFFICES ASSUME NEW f \in peer_to_conn PROVE IsJoined(f[2]) BY <1>6
  <2>1. PICK b \in DOMAIN conns : IsJoined(b) /\ f = <<conns[b].peer, b>>
    BY DEF RoomInv, RosterViewsAgree
  <2> QED BY <2>1
<1>11. RoomTypes' BY <1>1, <1>9 DEF RoomInv, RoomTypes
<1>12. \A d : IsJoined(d)' <=> IsJoined(d) BY <1>9 DEF IsJoined
<1>13. QuietBeforeJoin'
  BY <1>9, <1>10 DEF RoomInv, QuietBeforeJoin, IsJoined
<1>14. OnePeerEach' BY <1>9, <1>12 DEF RoomInv, OnePeerEach
<1>15. {b \in DOMAIN conns : IsJoined(b)}' = {b \in DOMAIN conns : IsJoined(b)}
  BY <1>9, <1>12
<1>16. roster' = roster BY <1>9, <1>15 DEF roster
<1>17. peer_to_conn' = {<<conns[d].peer, d>> : d \in {b \in DOMAIN conns : IsJoined(b)}}'
  <2>1. peer_to_conn = {<<conns[d].peer, d>> : d \in {b \in DOMAIN conns : IsJoined(b)}}
    BY DEF RoomInv, RosterViewsAgree
  <2> QED BY <2>1, <1>1, <1>9, <1>15
<1>18. ASSUME NEW d \in DOMAIN conns'
       PROVE  SignalsKnown(view'[d], conns'[d].outbound, conns'[d].peer)
  <2>1. /\ SignalsKnown(view[d], conns[d].outbound, conns[d].peer)
        /\ conns[d].outbound \in Seq(RoomMessages) /\ d \in DOMAIN conns
    BY <1>9, RoomInvParts
  <2>2. CASE d \notin at BY <2>1, <2>2, <1>1, <1>9
  <2>3. CASE d \in at
    <3>1. Told(view[d], conns[d].outbound, Len(conns[d].outbound)) = roster \ {conns[d].peer}
      BY <2>1, <2>3, <1>10, RoomInvParts
    <3>2. SignalsKnown(view[d], Append(conns[d].outbound, signal), conns[d].peer)
      BY <2>1, <3>1, <1>4, <1>5, SignalsOneMore
    <3> QED BY <2>1, <2>3, <3>2, <1>1, <1>9
  <2> QED BY <2>2, <2>3
<1>19. ASSUME NEW d \in DOMAIN conns', conns'[d].peer # NoPeerYet
       PROVE  Told(view'[d], conns'[d].outbound, Len(conns'[d].outbound))
                = roster' \ {conns'[d].peer}
  <2>1. IsJoined(d) /\ d \in DOMAIN conns BY <1>9, <1>19 DEF IsJoined
  <2>2. /\ Told(view[d], conns[d].outbound, Len(conns[d].outbound)) = roster \ {conns[d].peer}
        /\ conns[d].outbound \in Seq(RoomMessages)
    BY <2>1, RoomInvParts
  <2>3. Told(view[d], Append(conns[d].outbound, signal), Len(Append(conns[d].outbound, signal)))
          = Told(view[d], conns[d].outbound, Len(conns[d].outbound))
    BY <2>2, <1>5, ToldAll
  <2> QED BY <2>1, <2>2, <2>3, <1>1, <1>9, <1>16
<1> QED BY <1>11, <1>13, <1>14, <1>17, <1>18, <1>19, RoomInvFromParts

\* drain: what the client knows then is what its queue told.
LEMMA DrainKeepsRoom == ASSUME RoomInv, NEW c \in Conns, DrainOutbound(c) PROVE RoomInv'
<1>1. PICK known : known = Told(view[c], conns[c].outbound, Len(conns[c].outbound)) OBVIOUS
<1>2. /\ c \in DOMAIN conns /\ conns[c].outbound # <<>>
      /\ view' = [view EXCEPT ![c] = known]
      /\ conns' = [conns EXCEPT ![c].outbound = <<>>]
      /\ UNCHANGED <<next_conn_id, peer_to_conn>>
  BY <1>1 DEF DrainOutbound, KnownBy
<1>3. known \in SUBSET RoomPeers BY <1>1 DEF Told
<1>4. conns[c] \in RoomConns BY <1>2, RoomInvParts
<1>5. /\ DOMAIN conns' = DOMAIN conns
      /\ \A d \in DOMAIN conns : d # c => conns'[d] = conns[d]
      /\ conns'[c] = [conns[c] EXCEPT !.outbound = <<>>]
  BY <1>2 DEF RoomInv, RoomTypes
<1>6. conns'[c] \in RoomConns /\ conns'[c].peer = conns[c].peer /\ conns'[c].outbound = <<>>
  <2>1. <<>> \in Seq(RoomMessages) OBVIOUS
  <2> QED BY <2>1, <1>4, <1>5 DEF RoomConns
<1>7. \A d \in DOMAIN conns : conns'[d].peer = conns[d].peer
  BY <1>5, <1>6
<1>8. \A d \in DOMAIN conns : view'[d] = IF d = c THEN known ELSE view[d]
  BY <1>2, RoomInvParts DEF RoomInv, RoomTypes
<1>9. RoomTypes'
  <2>1. view' \in [Conns -> SUBSET RoomPeers] BY <1>2, <1>3 DEF RoomInv, RoomTypes
  <2>2. \A d \in DOMAIN conns' : conns'[d] \in RoomConns BY <1>5, <1>6, RoomInvParts
  <2>3. conns' \in [DOMAIN conns' -> RoomConns] BY <2>2, <1>2, <1>5 DEF RoomInv, RoomTypes
  <2> QED BY <2>1, <2>3, <1>2, <1>5 DEF RoomInv, RoomTypes
<1>10. \A d : IsJoined(d)' <=> IsJoined(d) BY <1>5, <1>7 DEF IsJoined
<1>11. QuietBeforeJoin' BY <1>5, <1>6, <1>7 DEF RoomInv, QuietBeforeJoin
<1>12. OnePeerEach' BY <1>5, <1>7, <1>10 DEF RoomInv, OnePeerEach
<1>13. {b \in DOMAIN conns : IsJoined(b)}' = {b \in DOMAIN conns : IsJoined(b)}
  BY <1>5, <1>10
<1>14. roster' = roster BY <1>7, <1>13 DEF roster
<1>15. peer_to_conn' = {<<conns[d].peer, d>> : d \in {b \in DOMAIN conns : IsJoined(b)}}'
  <2>1. peer_to_conn = {<<conns[d].peer, d>> : d \in {b \in DOMAIN conns : IsJoined(b)}}
    BY DEF RoomInv, RosterViewsAgree
  <2> QED BY <2>1, <1>2, <1>7, <1>13
<1>16. ASSUME NEW d \in DOMAIN conns'
       PROVE  SignalsKnown(view'[d], conns'[d].outbound, conns'[d].peer)
  <2>1. CASE d = c BY <2>1, <1>6 DEF SignalsKnown
  <2>2. CASE d # c BY <2>2, <1>5, <1>8, RoomInvParts
  <2> QED BY <2>1, <2>2
<1>17. ASSUME NEW d \in DOMAIN conns', conns'[d].peer # NoPeerYet
       PROVE  Told(view'[d], conns'[d].outbound, Len(conns'[d].outbound))
                = roster' \ {conns'[d].peer}
  <2>1. IsJoined(d) /\ d \in DOMAIN conns BY <1>5, <1>7, <1>17 DEF IsJoined
  <2>2. Told(view[d], conns[d].outbound, Len(conns[d].outbound)) = roster \ {conns[d].peer}
    BY <2>1, RoomInvParts
  <2>3. CASE d = c
    <3>1. Len(conns'[d].outbound) = 0 BY <2>3, <1>6
    <3>2. Told(known, conns'[d].outbound, 0) = known BY <1>3, ToldNothing
    <3> QED BY <2>1, <2>2, <2>3, <3>1, <3>2, <1>1, <1>7, <1>8, <1>14
  <2>4. CASE d # c BY <2>1, <2>2, <2>4, <1>5, <1>8, <1>14
  <2> QED BY <2>3, <2>4
<1> QED BY <1>9, <1>11, <1>12, <1>15, <1>16, <1>17, RoomInvFromParts

LEMMA RoomUnchanged ==
  RoomInv /\ UNCHANGED <<conns, next_conn_id, peer_to_conn, view>> => RoomInv'
<1> SUFFICES ASSUME RoomInv, UNCHANGED <<conns, next_conn_id, peer_to_conn, view>>
             PROVE  RoomInv'
  OBVIOUS
<1>1. conns' = conns /\ next_conn_id' = next_conn_id /\ peer_to_conn' = peer_to_conn /\ view' = view
  OBVIOUS
<1>2. \A d : IsJoined(d)' <=> IsJoined(d) BY <1>1 DEF IsJoined
<1>3. RoomTypes' BY <1>1 DEF RoomInv, RoomTypes
<1>4. QuietBeforeJoin' BY <1>1 DEF RoomInv, QuietBeforeJoin
<1>5. OnePeerEach' BY <1>1, <1>2 DEF RoomInv, OnePeerEach
<1>6. {b \in DOMAIN conns : IsJoined(b)}' = {b \in DOMAIN conns : IsJoined(b)}
  BY <1>1, <1>2
<1>7. roster' = roster BY <1>1, <1>6 DEF roster
<1>8. peer_to_conn' = {<<conns[d].peer, d>> : d \in {b \in DOMAIN conns : IsJoined(b)}}'
  <2>1. peer_to_conn = {<<conns[d].peer, d>> : d \in {b \in DOMAIN conns : IsJoined(b)}}
    BY DEF RoomInv, RosterViewsAgree
  <2> QED BY <2>1, <1>1, <1>6
<1>9. ASSUME NEW d \in DOMAIN conns'
      PROVE  SignalsKnown(view'[d], conns'[d].outbound, conns'[d].peer)
  BY <1>1, RoomInvParts
<1>10. ASSUME NEW d \in DOMAIN conns', conns'[d].peer # NoPeerYet
       PROVE  Told(view'[d], conns'[d].outbound, Len(conns'[d].outbound))
                = roster' \ {conns'[d].peer}
  <2>1. IsJoined(d) /\ d \in DOMAIN conns BY <1>1, <1>10 DEF IsJoined
  <2> QED BY <2>1, <1>1, <1>7, RoomInvParts
<1> QED BY <1>3, <1>4, <1>5, <1>8, <1>9, <1>10, RoomInvFromParts

\* Every call of signaling.hpp keeps the invariant.
LEMMA RoomStep == RoomInv /\ [RoomNext]_roomVars => RoomInv'
<1> SUFFICES ASSUME RoomInv, [RoomNext]_roomVars PROVE RoomInv' OBVIOUS
<1>1. ASSUME NEW p \in RoomPeers, AllowJoin(p) PROVE RoomInv'
  BY <1>1, RoomUnchanged DEF AllowJoin
<1>2. CASE UNCHANGED roomVars BY <1>2, RoomUnchanged DEF roomVars
<1> QED BY <1>1, <1>2, ConnectKeepsRoom, CloseKeepsRoom, DrainKeepsRoom, JoinKeepsRoom,
           ForwardKeepsRoom
        DEF RoomNext

-----------------------------------------------------------------------------
(* The scope of the ingress cell *)

Follows(a, b) == (a[1] = b[1] /\ b[2] = a[2] + 1) \/ a[1] < b[1]

\* A merged window is a fold in order, and ends with the last delivery: what an
\* earlier generation left in it has a lower fence.
WindowFolds(s) ==
  /\ \A i \in 1..(Len(s.window) - 1) : Follows(s.window[i], s.window[i + 1])
  /\ \A i \in 1..Len(s.window) :
       s.window[i][1] <= s.generation /\ (~Delivered(s) => s.window[i][1] < s.generation)
  /\ s.window # <<>> /\ Delivered(s) =>
       s.window[Len(s.window)] = <<s.generation, s.next - 1>>

Bounded(o) == o \notin {"Conflate", "Spill"}

ScopeSound(o, s) ==
  /\ s \in IngressScopes
  /\ IsFiniteSet(s.pending) /\ Cardinality(s.pending) <= reorder_window
  /\ Bounded(o) => Len(s.window) <= Max({high_water, 1}) + reorder_window
  /\ WindowFolds(s)
  /\ \A p \in s.pending : p.sequence > s.next
  /\ s.lifecycle = "Closed" => s.window = <<>>

LEMMA HighWater ==
  /\ Max({high_water, 1}) \in Nat
  /\ Max({high_water, 1}) >= 1 /\ Max({high_water, 1}) >= high_water
<1>1. high_water \in Nat BY IngressAssumption
<1>2. PICK hs : hs = {high_water, 1} OBVIOUS
<1>3. hs \subseteq Nat /\ hs # {} /\ \A x \in hs : x <= high_water + 1 BY <1>1, <1>2
<1>4. high_water + 1 \in Nat BY <1>1
<1>5. Max(hs) \in hs /\ \A y \in hs : y <= Max(hs) BY <1>3, <1>4, MaxOfBounded
<1>6. PICK m : m = Max(hs) OBVIOUS
<1> QED BY <1>1, <1>2, <1>5

\* A scope as it is created.
LEMMA FreshScope ==
  ASSUME NEW o, NEW g \in 0..MaxGeneration
  PROVE  /\ ScopeSound(o, Scope(g)) /\ Scope(g).lifecycle = "Opening"
         /\ Scope(g).generation = g /\ Scope(g).next = 0 /\ Scope(g).window = <<>>
         /\ Scope(g).errors = 0 /\ Scope(g).pending = {} /\ Scope(g).stamped_at = 0
<1> DEFINE s == Scope(g)
<1>1. /\ s.lifecycle = "Opening" /\ s.generation = g /\ s.next = 0 /\ s.window = <<>>
      /\ s.errors = 0 /\ s.pending = {} /\ s.stamped_at = 0
  BY DEF Scope
<1>2. s \in IngressScopes
  <2>1. <<>> \in Seq((0..MaxGeneration) \X (0..MaxSequence)) OBVIOUS
  <2>2. 0 \in 0..(MaxSequence + 1) /\ 0 \in 0..MaxNow /\ 0 \in 0..MaxErrors
    BY IngressAssumption
  <2>3. s = [lifecycle |-> "Opening", generation |-> g, next |-> 0, stamped_at |-> 0,
             pending |-> {}, window |-> <<>>, errors |-> 0]
    BY DEF Scope
  <2> HIDE DEF s
  <2> QED BY <2>1, <2>2, <2>3 DEF IngressScopes
<1>3. IsFiniteSet(s.pending) /\ Cardinality(s.pending) = 0 BY <1>1, FS_EmptySet
<1>4. Len(s.window) = 0 BY <1>1
<1> HIDE DEF s
<1>5. ScopeSound(o, s)
  BY <1>1, <1>2, <1>3, <1>4, HighWater, IngressAssumption DEF ScopeSound, WindowFolds
<1> QED BY <1>1, <1>5 DEF s

\* Another lifecycle, but for a close.
LEMMA LifecycleSet ==
  ASSUME NEW o, NEW s, ScopeSound(o, s), NEW l \in {"Opening", "Live", "Suspended"},
         NEW t, t = [s EXCEPT !.lifecycle = l]
  PROVE  /\ ScopeSound(o, t) /\ t.lifecycle = l /\ t.errors = s.errors
         /\ t.generation = s.generation /\ t.next = s.next /\ t.window = s.window
         /\ t.pending = s.pending /\ t.stamped_at = s.stamped_at
<1>1. s \in IngressScopes BY DEF ScopeSound
<1>2. /\ t \in IngressScopes /\ t.lifecycle = l /\ t.errors = s.errors
      /\ t.generation = s.generation /\ t.next = s.next /\ t.window = s.window
      /\ t.pending = s.pending /\ t.stamped_at = s.stamped_at
  BY <1>1 DEF IngressScopes
<1>3. ScopeSound(o, t) BY <1>2 DEF ScopeSound, WindowFolds, Delivered
<1> QED BY <1>2, <1>3

\* Another count of errors.
LEMMA ErrorsSet ==
  ASSUME NEW o, NEW s, ScopeSound(o, s), NEW n \in 0..MaxErrors,
         NEW t, t = [s EXCEPT !.errors = n]
  PROVE  /\ ScopeSound(o, t) /\ t.lifecycle = s.lifecycle /\ t.errors = n
         /\ t.generation = s.generation /\ t.next = s.next /\ t.window = s.window
         /\ t.pending = s.pending /\ t.stamped_at = s.stamped_at
<1>1. s \in IngressScopes BY DEF ScopeSound
<1>2. /\ t \in IngressScopes /\ t.lifecycle = s.lifecycle /\ t.errors = n
      /\ t.generation = s.generation /\ t.next = s.next /\ t.window = s.window
      /\ t.pending = s.pending /\ t.stamped_at = s.stamped_at
  BY <1>1 DEF IngressScopes
<1>3. ScopeSound(o, t) BY <1>2 DEF ScopeSound, WindowFolds, Delivered
<1> QED BY <1>2, <1>3

\* A later generation that keeps what is merged: all of it has a lower fence now.
LEMMA RefencedKeeps ==
  ASSUME NEW o, NEW s, ScopeSound(o, s), NEW g \in 0..MaxGeneration, g > s.generation
  PROVE  LET t == Refenced(s, g)
         IN /\ ScopeSound(o, t) /\ t.lifecycle = s.lifecycle /\ t.errors = s.errors
            /\ t.generation = g /\ t.next = 0 /\ t.window = s.window
            /\ t.pending = {} /\ t.stamped_at = s.stamped_at
<1> DEFINE t == Refenced(s, g)
<1>1. s \in IngressScopes BY DEF ScopeSound
<1>2. /\ t.lifecycle = s.lifecycle /\ t.errors = s.errors
      /\ t.generation = g /\ t.next = 0 /\ t.window = s.window
      /\ t.pending = {} /\ t.stamped_at = s.stamped_at
  BY <1>1 DEF IngressScopes, Refenced
<1>3. t \in IngressScopes
  <2>1. 0 \in 0..(MaxSequence + 1) BY IngressAssumption
  <2>2. {} \in SUBSET [sequence : 0..MaxSequence, stamped_at : 0..MaxNow] OBVIOUS
  <2>3. PICK u : u = [s EXCEPT !.generation = g] OBVIOUS
  <2>4. u \in IngressScopes BY <1>1, <2>3 DEF IngressScopes
  <2>5. PICK v : v = [u EXCEPT !.next = 0] OBVIOUS
  <2>6. v \in IngressScopes BY <2>1, <2>4, <2>5 DEF IngressScopes
  <2>7. t = [v EXCEPT !.pending = {}] BY <2>3, <2>5 DEF Refenced
  <2> HIDE DEF t
  <2> QED BY <2>2, <2>6, <2>7 DEF IngressScopes
<1>4. IsFiniteSet(t.pending) /\ Cardinality(t.pending) = 0 BY <1>2, FS_EmptySet
<1> HIDE DEF t
<1>5. s.window \in Seq((0..MaxGeneration) \X (0..MaxSequence)) /\ s.generation \in Nat
  BY <1>1 DEF IngressScopes
<1>6. WindowFolds(t)
  <2>1. \A i \in 1..(Len(t.window) - 1) : Follows(t.window[i], t.window[i + 1])
    BY <1>2 DEF ScopeSound, WindowFolds
  <2>2. \A i \in 1..Len(t.window) : t.window[i][1] < t.generation
    <3> SUFFICES ASSUME NEW i \in 1..Len(s.window) PROVE s.window[i][1] < g BY <1>2
    <3>1. s.window[i][1] <= s.generation BY DEF ScopeSound, WindowFolds
    <3>2. s.window[i][1] \in Nat BY <1>5
    <3> QED BY <3>1, <3>2, <1>5
  <2>3. \A i \in 1..Len(t.window) : t.window[i][1] \in Nat BY <1>2, <1>5
  <2> QED BY <2>1, <2>2, <2>3, <1>2 DEF WindowFolds, Delivered
<1>7. ScopeSound(o, t)
  BY <1>2, <1>3, <1>4, <1>6, IngressAssumption DEF ScopeSound
<1> QED BY <1>2, <1>7 DEF t

\* The merged window taken out.
LEMMA WindowTaken ==
  ASSUME NEW o, NEW s, ScopeSound(o, s)
  PROVE  LET t == [s EXCEPT !.window = <<>>]
         IN /\ ScopeSound(o, t) /\ t.lifecycle = s.lifecycle /\ t.errors = s.errors
            /\ t.generation = s.generation /\ t.next = s.next /\ t.window = <<>>
            /\ t.pending = s.pending /\ t.stamped_at = s.stamped_at
<1> DEFINE t == [s EXCEPT !.window = <<>>]
<1>1. s \in IngressScopes BY DEF ScopeSound
<1>2. <<>> \in Seq((0..MaxGeneration) \X (0..MaxSequence)) OBVIOUS
<1>3. /\ t \in IngressScopes /\ t.lifecycle = s.lifecycle /\ t.errors = s.errors
      /\ t.generation = s.generation /\ t.next = s.next /\ t.window = <<>>
      /\ t.pending = s.pending /\ t.stamped_at = s.stamped_at
  BY <1>1, <1>2 DEF IngressScopes
<1> HIDE DEF t
<1>4. Len(t.window) = 0 BY <1>3
<1>5. ScopeSound(o, t)
  BY <1>3, <1>4, HighWater, IngressAssumption DEF ScopeSound, WindowFolds
<1> QED BY <1>3, <1>5 DEF t

\* A handoff that discards the window.
LEMMA HandedOffKeeps ==
  ASSUME NEW o, NEW s, ScopeSound(o, s), NEW g \in 0..MaxGeneration, g > s.generation
  PROVE  LET t == HandedOff(s, g)
         IN /\ ScopeSound(o, t) /\ t.lifecycle = s.lifecycle /\ t.errors = s.errors
            /\ t.generation = g /\ t.next = 0 /\ t.window = <<>>
            /\ t.pending = {} /\ t.stamped_at = s.stamped_at
<1> DEFINE u == Refenced(s, g)
<1>1. /\ ScopeSound(o, u) /\ u.lifecycle = s.lifecycle /\ u.errors = s.errors
      /\ u.generation = g /\ u.next = 0 /\ u.window = s.window
      /\ u.pending = {} /\ u.stamped_at = s.stamped_at
  BY RefencedKeeps
<1>2. HandedOff(s, g) = [u EXCEPT !.window = <<>>] BY DEF HandedOff
<1> HIDE DEF u
<1> QED BY <1>1, <1>2, WindowTaken

\* A close.
LEMMA ClosedKeeps ==
  ASSUME NEW o, NEW s, ScopeSound(o, s)
  PROVE  LET t == Closed(s)
         IN /\ ScopeSound(o, t) /\ t.lifecycle = "Closed" /\ t.errors = 0
            /\ t.generation = s.generation /\ t.next = s.next /\ t.window = <<>>
            /\ t.pending = {} /\ t.stamped_at = s.stamped_at
<1> DEFINE t == Closed(s)
<1>1. s \in IngressScopes BY DEF ScopeSound
<1>2. /\ t.lifecycle = "Closed" /\ t.errors = 0
      /\ t.generation = s.generation /\ t.next = s.next /\ t.window = <<>>
      /\ t.pending = {} /\ t.stamped_at = s.stamped_at
  BY <1>1 DEF IngressScopes, Closed
<1>3. t \in IngressScopes
  <2>1. <<>> \in Seq((0..MaxGeneration) \X (0..MaxSequence)) /\ 0 \in 0..MaxErrors
    BY IngressAssumption
  <2>2. {} \in SUBSET [sequence : 0..MaxSequence, stamped_at : 0..MaxNow] OBVIOUS
  <2>3. PICK u : u = [s EXCEPT !.lifecycle = "Closed"] OBVIOUS
  <2>4. u \in IngressScopes BY <1>1, <2>3 DEF IngressScopes
  <2>5. PICK v : v = [u EXCEPT !.pending = {}] OBVIOUS
  <2>6. v \in IngressScopes BY <2>2, <2>4, <2>5 DEF IngressScopes
  <2>7. PICK w : w = [v EXCEPT !.window = <<>>] OBVIOUS
  <2>8. w \in IngressScopes BY <2>1, <2>6, <2>7 DEF IngressScopes
  <2>9. t = [w EXCEPT !.errors = 0] BY <2>3, <2>5, <2>7 DEF Closed
  <2> HIDE DEF t
  <2> QED BY <2>1, <2>8, <2>9 DEF IngressScopes
<1>4. IsFiniteSet(t.pending) /\ Cardinality(t.pending) = 0 BY <1>2, FS_EmptySet
<1> HIDE DEF t
<1>5. Len(t.window) = 0 BY <1>2
<1>6. ScopeSound(o, t)
  BY <1>2, <1>3, <1>4, <1>5, HighWater, IngressAssumption DEF ScopeSound, WindowFolds
<1> QED BY <1>2, <1>6 DEF t

\* How far a delivery in order releases what is buffered: to the first gap.
LEMMA FlushEnds ==
  ASSUME NEW o, NEW s, ScopeSound(o, s), NEW e \in Envelopes, e.sequence = s.next
  PROVE  LET last == FlushedThrough(s, e)
         IN /\ last \in e.sequence..MaxSequence
            /\ \A i \in (e.sequence + 1)..last : \E p \in s.pending : p.sequence = i
            /\ \A p \in s.pending : p.sequence # last + 1
<1> DEFINE Reach == {n \in e.sequence..MaxSequence :
                       \A i \in (e.sequence + 1)..n : \E p \in s.pending : p.sequence = i}
<1>1. MaxSequence \in Nat /\ e.sequence \in 0..MaxSequence
  BY IngressAssumption DEF Envelopes
<1>2. e.sequence \in Reach
  <2>1. \A i \in (e.sequence + 1)..e.sequence : FALSE BY <1>1
  <2> QED BY <2>1, <1>1
<1>3. Reach \subseteq Nat /\ \A x \in Reach : x <= MaxSequence BY <1>1
<1>4. PICK last : last = Max(Reach) OBVIOUS
<1>5. FlushedThrough(s, e) = last BY <1>4 DEF FlushedThrough
<1>6. last \in Reach /\ \A y \in Reach : y <= last
  <2> HIDE DEF Reach
  <2> QED BY <1>1, <1>2, <1>3, <1>4, MaxOfBounded
<1>7. \A p \in s.pending : p.sequence \in 0..MaxSequence
  BY DEF ScopeSound, IngressScopes
<1>8. \A p \in s.pending : p.sequence # last + 1
  <2> SUFFICES ASSUME NEW p \in s.pending, p.sequence = last + 1 PROVE FALSE OBVIOUS
  <2>1. last \in Nat /\ last >= e.sequence BY <1>1, <1>6
  <2>2. last + 1 \in e.sequence..MaxSequence BY <1>1, <1>7, <2>1
  <2>3. \A i \in (e.sequence + 1)..(last + 1) : i = last + 1 \/ i \in (e.sequence + 1)..last
    BY <1>1, <2>1
  <2>4. last + 1 \in Reach BY <1>6, <2>2, <2>3
  <2> QED BY <1>6, <2>1, <2>4
<1> QED BY <1>5, <1>6, <1>8

\* What is released one after the other: i - 1 sequences after the delivery.
Released(g, from, last) == [i \in 1..(last - from + 1) |-> <<g, from + i - 1>>]

\* A window that the generation g may go on with from a sequence.
FoldsBefore(w, g, from) ==
  /\ w \in Seq((0..MaxGeneration) \X (0..MaxSequence))
  /\ \A i \in 1..(Len(w) - 1) : Follows(w[i], w[i + 1])
  /\ \A i \in 1..Len(w) : w[i][1] <= g
  /\ w # <<>> => Follows(w[Len(w)], <<g, from>>)

\* A window of n payloads that ends with a sequence of g.
FoldsUpTo(w, n, g, last) ==
  /\ w \in Seq((0..MaxGeneration) \X (0..MaxSequence)) /\ Len(w) = n
  /\ \A i \in 1..(Len(w) - 1) : Follows(w[i], w[i + 1])
  /\ \A i \in 1..Len(w) : w[i][1] <= g
  /\ w # <<>> /\ w[Len(w)] = <<g, last>>

\* A fold goes on where it stopped.
LEMMA FoldGoesOn ==
  ASSUME NEW w, NEW g \in 0..MaxGeneration, NEW from \in 0..MaxSequence,
         NEW last \in from..MaxSequence, FoldsBefore(w, g, from)
  PROVE  FoldsUpTo(w \o Released(g, from, last), Len(w) + (last - from + 1), g, last)
<1> DEFINE r == Released(g, from, last)
           x == w \o r
           n == last - from + 1
<1>0. w \in Seq((0..MaxGeneration) \X (0..MaxSequence)) BY DEF FoldsBefore
<1>1. MaxSequence \in Nat /\ MaxGeneration \in Nat BY IngressAssumption
<1>2. n \in Nat /\ n >= 1 /\ from \in Nat /\ last \in Nat /\ g \in Nat BY <1>1
<1>3. r \in Seq((0..MaxGeneration) \X (0..MaxSequence)) /\ Len(r) = n
      /\ \A i \in 1..n : r[i] = <<g, from + i - 1>>
  <2>1. \A i \in 1..n : from + i - 1 \in 0..MaxSequence BY <1>1, <1>2
  <2> HIDE DEF n
  <2>2. r = [i \in 1..n |-> <<g, from + i - 1>>] BY DEF Released, n
  <2>3. \A i \in 1..n : <<g, from + i - 1>> \in (0..MaxGeneration) \X (0..MaxSequence)
    BY <2>1
  <2>4. r \in [1..n -> (0..MaxGeneration) \X (0..MaxSequence)] BY <2>2, <2>3
  <2>5. r \in Seq((0..MaxGeneration) \X (0..MaxSequence)) BY <2>4, <1>2
  <2>6. Len(r) = n BY <2>2, <2>5, <1>2
  <2> QED BY <2>2, <2>5, <2>6
<1> HIDE DEF r, n
<1>4. /\ x \in Seq((0..MaxGeneration) \X (0..MaxSequence)) /\ Len(x) = Len(w) + n
      /\ \A i \in 1..(Len(w) + n) : x[i] = IF i <= Len(w) THEN w[i] ELSE r[i - Len(w)]
  BY <1>0, <1>3, ConcatProperties
<1>5. Len(w) \in Nat BY <1>0
<1> HIDE DEF x
<1>6. \A i \in 1..Len(w) : x[i] = w[i]
  <2> SUFFICES ASSUME NEW i \in 1..Len(w) PROVE x[i] = w[i] OBVIOUS
  <2>1. i \in 1..(Len(w) + n) /\ i <= Len(w) BY <1>2, <1>5
  <2> QED BY <1>4, <2>1
<1>7. \A i \in 1..n : x[Len(w) + i] = <<g, from + i - 1>>
  <2> SUFFICES ASSUME NEW i \in 1..n PROVE x[Len(w) + i] = <<g, from + i - 1>> OBVIOUS
  <2>1. Len(w) + i \in 1..(Len(w) + n) /\ ~(Len(w) + i <= Len(w)) /\ Len(w) + i - Len(w) = i
    BY <1>2, <1>5
  <2>2. PICK k : k = Len(w) + i OBVIOUS
  <2>3. k \in 1..(Len(w) + n) /\ ~(k <= Len(w)) /\ k - Len(w) = i BY <2>1, <2>2
  <2>4. x[k] = r[i] BY <1>4, <2>3
  <2> QED BY <1>3, <2>2, <2>4
<1>8. \A i \in 1..(Len(x) - 1) : Follows(x[i], x[i + 1])
  <2> SUFFICES ASSUME NEW i \in 1..(Len(x) - 1) PROVE Follows(x[i], x[i + 1]) OBVIOUS
  <2>1. i \in Nat /\ i >= 1 /\ i <= Len(w) + n - 1 BY <1>2, <1>4, <1>5
  <2>2. CASE i < Len(w)
    <3>1. i \in 1..Len(w) /\ i + 1 \in 1..Len(w) /\ i \in 1..(Len(w) - 1) BY <2>1, <2>2, <1>5
    <3> QED BY <3>1, <1>6 DEF FoldsBefore
  <2>3. CASE i = Len(w)
    <3>1. x[i] = w[Len(w)] BY <2>1, <2>3, <1>5, <1>6
    <3>2. x[i + 1] = <<g, from>> BY <2>3, <1>2, <1>7
    <3>3. w # <<>> BY <2>1, <2>3
    <3> QED BY <3>1, <3>2, <3>3 DEF FoldsBefore
  <2>4. CASE i > Len(w)
    <3>1. PICK j \in 1..n : i = Len(w) + j /\ j + 1 \in 1..n
      <4>1. i - Len(w) \in 1..n /\ i = Len(w) + (i - Len(w)) /\ i - Len(w) + 1 \in 1..n
        BY <2>1, <2>4, <1>2, <1>5
      <4> QED BY <4>1
    <3>2. x[i] = <<g, from + j - 1>> BY <3>1, <1>7
    <3>3. x[i + 1] = <<g, from + (j + 1) - 1>>
      <4>1. i + 1 = Len(w) + (j + 1) BY <3>1, <1>5
      <4> QED BY <4>1, <3>1, <1>7
    <3>4. from + (j + 1) - 1 = from + j - 1 + 1 BY <3>1, <1>2
    <3> QED BY <3>2, <3>3, <3>4 DEF Follows
  <2> QED BY <2>1, <2>2, <2>3, <2>4, <1>5
<1>9. \A i \in 1..Len(x) : x[i][1] <= g
  <2> SUFFICES ASSUME NEW i \in 1..Len(x) PROVE x[i][1] <= g OBVIOUS
  <2>1. CASE i <= Len(w)
    <3>1. i \in 1..Len(w) BY <2>1, <1>2, <1>4, <1>5
    <3> QED BY <3>1, <1>6 DEF FoldsBefore
  <2>2. CASE ~(i <= Len(w))
    <3>1. i - Len(w) \in 1..n /\ i = Len(w) + (i - Len(w)) BY <2>2, <1>2, <1>4, <1>5
    <3>2. x[i] = <<g, from + (i - Len(w)) - 1>> BY <3>1, <1>7
    <3> QED BY <3>2, <1>2
  <2> QED BY <2>1, <2>2
<1>10. x # <<>> /\ x[Len(x)] = <<g, last>>
  <2>1. n \in 1..n BY <1>2
  <2>4. x[Len(w) + n] = <<g, from + n - 1>> BY <2>1, <1>7
  <2>2. from + n - 1 = last BY <1>2 DEF n
  <2>3. Len(x) >= 1 BY <1>2, <1>4, <1>5
  <2> QED BY <2>2, <2>3, <2>4, <1>4
<1>11. Len(x) = Len(w) + (last - from + 1) BY <1>4 DEF n
<1>12. FoldsUpTo(x, Len(w) + (last - from + 1), g, last)
  BY <1>4, <1>8, <1>9, <1>10, <1>11 DEF FoldsUpTo
<1> QED BY <1>12 DEF x, r

\* A scope with six of its parts set.
ScopeWith(s, w, a, p, n, l, k) ==
  [s EXCEPT !.window = w, !.stamped_at = a, !.pending = p, !.next = n, !.lifecycle = l,
            !.errors = k]

SetTo(t, s, w, a, p, n, l, k) ==
  /\ t \in IngressScopes /\ t.window = w /\ t.stamped_at = a /\ t.pending = p
  /\ t.next = n /\ t.lifecycle = l /\ t.errors = k /\ t.generation = s.generation

LEMMA SetScope ==
  ASSUME NEW s \in IngressScopes,
         NEW w \in Seq((0..MaxGeneration) \X (0..MaxSequence)), NEW a \in 0..MaxNow,
         NEW p \in SUBSET [sequence : 0..MaxSequence, stamped_at : 0..MaxNow],
         NEW n \in 0..(MaxSequence + 1), NEW l \in {"Opening", "Live", "Suspended", "Closed"},
         NEW k \in 0..MaxErrors
  PROVE  SetTo(ScopeWith(s, w, a, p, n, l, k), s, w, a, p, n, l, k)
<1> DEFINE t == ScopeWith(s, w, a, p, n, l, k)
<1>1. PICK t1 : t1 = [s EXCEPT !.window = w] OBVIOUS
<1>2. t1 \in IngressScopes /\ t1.window = w /\ t1.generation = s.generation
  BY <1>1 DEF IngressScopes
<1>3. PICK t2 : t2 = [t1 EXCEPT !.stamped_at = a] OBVIOUS
<1>4. t2 \in IngressScopes /\ t2.window = w /\ t2.generation = s.generation
      /\ t2.stamped_at = a
  BY <1>2, <1>3 DEF IngressScopes
<1>5. PICK t3 : t3 = [t2 EXCEPT !.pending = p] OBVIOUS
<1>6. t3 \in IngressScopes /\ t3.window = w /\ t3.generation = s.generation
      /\ t3.stamped_at = a /\ t3.pending = p
  BY <1>4, <1>5 DEF IngressScopes
<1>7. PICK t4 : t4 = [t3 EXCEPT !.next = n] OBVIOUS
<1>8. t4 \in IngressScopes /\ t4.window = w /\ t4.generation = s.generation
      /\ t4.stamped_at = a /\ t4.pending = p /\ t4.next = n
  BY <1>6, <1>7 DEF IngressScopes
<1>9. PICK t5 : t5 = [t4 EXCEPT !.lifecycle = l] OBVIOUS
<1>10. t5 \in IngressScopes /\ t5.window = w /\ t5.generation = s.generation
       /\ t5.stamped_at = a /\ t5.pending = p /\ t5.next = n /\ t5.lifecycle = l
  BY <1>8, <1>9 DEF IngressScopes
<1>11. t = [t5 EXCEPT !.errors = k] BY <1>1, <1>3, <1>5, <1>7, <1>9 DEF ScopeWith
<1> HIDE DEF t
<1>12. t \in IngressScopes /\ t.window = w /\ t.generation = s.generation
       /\ t.stamped_at = a /\ t.pending = p /\ t.next = n /\ t.lifecycle = l /\ t.errors = k
  BY <1>10, <1>11 DEF IngressScopes
<1>13. SetTo(t, s, w, a, p, n, l, k) BY <1>12 DEF SetTo
<1> QED BY <1>13 DEF t

\* A delivery in order: the window goes on up to the first gap, and no further.
LEMMA MergedKeeps ==
  ASSUME NEW o, NEW s, ScopeSound(o, s), NEW e \in Envelopes, e.sequence = s.next,
         Bounded(o) => Len(s.window) < Max({high_water, 1})
  PROVE  ScopeSound(o, Merged(s, e)) /\ Merged(s, e).generation = s.generation
<1> DEFINE flushed(l) == {p \in s.pending : p.sequence \in (e.sequence + 1)..l}
           stamps(l) == {s.stamped_at, e.stamped_at} \cup {p.stamped_at : p \in flushed(l)}
<1>1. PICK last : last = FlushedThrough(s, e) OBVIOUS
<1>2. /\ last \in e.sequence..MaxSequence
      /\ \A i \in (e.sequence + 1)..last : \E p \in s.pending : p.sequence = i
      /\ \A p \in s.pending : p.sequence # last + 1
  BY <1>1, FlushEnds
<1>3. /\ s \in IngressScopes /\ s.generation \in 0..MaxGeneration /\ s.next \in 0..(MaxSequence + 1)
      /\ s.stamped_at \in 0..MaxNow
      /\ s.pending \in SUBSET [sequence : 0..MaxSequence, stamped_at : 0..MaxNow]
      /\ s.window \in Seq((0..MaxGeneration) \X (0..MaxSequence))
  BY DEF ScopeSound, IngressScopes
<1>4. /\ MaxSequence \in Nat /\ MaxNow \in Nat /\ e.sequence \in 0..MaxSequence
      /\ e.stamped_at \in 0..MaxNow /\ 0 \in 0..MaxErrors
  BY IngressAssumption DEF Envelopes
<1>5. PICK f : f = flushed(last) OBVIOUS
<1>6. f \subseteq s.pending BY <1>5
<1>7. PICK st : st = stamps(last) OBVIOUS
<1>8. Max(st) \in 0..MaxNow
  <2>1. st = {s.stamped_at, e.stamped_at} \cup {p.stamped_at : p \in f} BY <1>5, <1>7
  <2>2. st \subseteq 0..MaxNow BY <2>1, <1>3, <1>4, <1>6
  <2>3. \A x \in st : x \in Nat /\ x <= MaxNow BY <2>2, <1>4
  <2>4. st # {} BY <2>1
  <2>5. st \subseteq Nat BY <2>3
  <2>6. Max(st) \in st BY <2>3, <2>4, <2>5, <1>4, MaxOfBounded
  <2> QED BY <2>2, <2>6
<1>9. PICK w : w = s.window \o Released(s.generation, e.sequence, last) OBVIOUS
<1>10. /\ w \in Seq((0..MaxGeneration) \X (0..MaxSequence))
       /\ Len(w) = Len(s.window) + (last - e.sequence + 1)
       /\ \A i \in 1..(Len(w) - 1) : Follows(w[i], w[i + 1])
       /\ \A i \in 1..Len(w) : w[i][1] <= s.generation
       /\ w # <<>> /\ w[Len(w)] = <<s.generation, last>>
  <2>1. \A i \in 1..(Len(s.window) - 1) : Follows(s.window[i], s.window[i + 1])
    BY DEF ScopeSound, WindowFolds
  <2>2. \A i \in 1..Len(s.window) : s.window[i][1] <= s.generation
    BY DEF ScopeSound, WindowFolds
  <2>3. s.window # <<>> => Follows(s.window[Len(s.window)], <<s.generation, e.sequence>>)
    <3> SUFFICES ASSUME s.window # <<>>
                 PROVE  Follows(s.window[Len(s.window)], <<s.generation, e.sequence>>)
      OBVIOUS
    <3>1. Len(s.window) \in 1..Len(s.window) BY <1>3, EmptySeq
    <3>2. CASE Delivered(s)
      <4>1. s.window[Len(s.window)] = <<s.generation, s.next - 1>>
        BY <3>2 DEF ScopeSound, WindowFolds
      <4>2. e.sequence = s.next - 1 + 1 BY <1>4
      <4> QED BY <4>1, <4>2 DEF Follows
    <3>3. CASE ~Delivered(s)
      <4>1. s.window[Len(s.window)][1] < s.generation
        BY <3>1, <3>3 DEF ScopeSound, WindowFolds
      <4> QED BY <4>1 DEF Follows
    <3> QED BY <3>2, <3>3
  <2>4. PICK v, g, from : v = s.window /\ g = s.generation /\ from = e.sequence OBVIOUS
  <2>5. FoldsBefore(v, g, from)
    BY <2>1, <2>2, <2>3, <2>4, <1>3 DEF FoldsBefore
  <2>6. g \in 0..MaxGeneration /\ from \in 0..MaxSequence /\ last \in from..MaxSequence
    BY <2>4, <1>2, <1>3, <1>4
  <2>7. FoldsUpTo(v \o Released(g, from, last), Len(v) + (last - from + 1), g, last)
    BY <2>5, <2>6, FoldGoesOn
  <2>8. FoldsUpTo(w, Len(v) + (last - from + 1), g, last) BY <2>4, <2>7, <1>9
  <2> QED BY <2>4, <2>8 DEF FoldsUpTo
<1>11. PICK t : t = ScopeWith(s, w, Max(st), s.pending \ f, last + 1, "Live", 0) OBVIOUS
<1>12. Merged(s, e) = t
  BY <1>1, <1>3, <1>5, <1>7, <1>9, <1>11 DEF Merged, Released, ScopeWith, IngressScopes
<1>13. /\ t \in IngressScopes /\ t.window = w /\ t.pending = s.pending \ f /\ t.next = last + 1
       /\ t.lifecycle = "Live" /\ t.generation = s.generation
  <2>1. s.pending \ f \in SUBSET [sequence : 0..MaxSequence, stamped_at : 0..MaxNow] BY <1>3
  <2>2. last + 1 \in 0..(MaxSequence + 1) BY <1>2, <1>4
  <2>3. PICK a, p, n : a = Max(st) /\ p = s.pending \ f /\ n = last + 1 OBVIOUS
  <2>4. t = ScopeWith(s, w, a, p, n, "Live", 0)
    BY <2>3, <1>11
  <2>5. /\ t \in IngressScopes /\ t.window = w /\ t.pending = p /\ t.next = n
        /\ t.lifecycle = "Live" /\ t.generation = s.generation
    <3>1. /\ a \in 0..MaxNow /\ n \in 0..(MaxSequence + 1) /\ "Live" \in {"Opening", "Live", "Suspended", "Closed"}
          /\ p \in SUBSET [sequence : 0..MaxSequence, stamped_at : 0..MaxNow]
      BY <2>1, <2>2, <2>3, <1>8
    <3>2. PICK l, k : l = "Live" /\ k = 0 OBVIOUS
    <3>3. l \in {"Opening", "Live", "Suspended", "Closed"} /\ k \in 0..MaxErrors
      BY <3>1, <3>2, <1>4
    <3>4. SetTo(ScopeWith(s, w, a, p, n, l, k), s, w, a, p, n, l, k)
      BY <3>1, <3>3, <1>3, <1>10, SetScope
    <3>5. SetTo(t, s, w, a, p, n, l, k) BY <3>2, <3>4, <2>4
    <3> QED BY <3>2, <3>5 DEF SetTo
  <2> QED BY <2>3, <2>5
<1>14. IsFiniteSet(t.pending) /\ Cardinality(t.pending) <= reorder_window
  <2>1. IsFiniteSet(s.pending) /\ Cardinality(s.pending) <= reorder_window BY DEF ScopeSound
  <2>2. IsFiniteSet(s.pending \ f) /\ Cardinality(s.pending \ f) <= Cardinality(s.pending)
    BY <2>1, FS_Subset
  <2>3. Cardinality(s.pending) \in Nat /\ Cardinality(s.pending \ f) \in Nat
    BY <2>1, <2>2, FS_CardinalityType
  <2> QED BY <2>1, <2>2, <2>3, <1>13, IngressAssumption
<1>15. Bounded(o) => Len(t.window) <= Max({high_water, 1}) + reorder_window
  <2> SUFFICES ASSUME Bounded(o)
               PROVE  Len(t.window) <= Max({high_water, 1}) + reorder_window
    OBVIOUS
  <2>1. last - e.sequence <= reorder_window
    <3>1. PICK S : S = {p.sequence : p \in s.pending} OBVIOUS
    <3>2. IsFiniteSet(s.pending) /\ Cardinality(s.pending) <= reorder_window BY DEF ScopeSound
    <3>3. IsFiniteSet(S) /\ Cardinality(S) <= Cardinality(s.pending)
      <4>1. PICK h : h = [p \in s.pending |-> p.sequence] OBVIOUS
      <4>2. h \in Surjection(s.pending, S) BY <4>1, <3>1 DEF Surjection
      <4> QED BY <4>2, <3>2, FS_Surjection
    <3>4. (e.sequence + 1)..last \subseteq S BY <1>2, <3>1
    <3>5. Cardinality((e.sequence + 1)..last) <= Cardinality(S) BY <3>3, <3>4, FS_Subset
    <3>6. e.sequence + 1 \in Int /\ last \in Int BY <1>2, <1>4
    <3>7. Cardinality((e.sequence + 1)..last)
            = IF e.sequence + 1 > last THEN 0 ELSE last - (e.sequence + 1) + 1
      BY <3>6, FS_Interval
    <3>8. Cardinality(S) \in Nat /\ Cardinality(s.pending) \in Nat
      BY <3>2, <3>3, FS_CardinalityType
    <3> QED BY <3>2, <3>3, <3>5, <3>7, <3>8, <1>2, <1>4, IngressAssumption
  <2>2. Len(s.window) < Max({high_water, 1}) OBVIOUS
  <2>3. PICK m : m = Max({high_water, 1}) OBVIOUS
  <2>4. m \in Nat BY <2>3, HighWater
  <2>5. Len(s.window) \in Nat /\ Len(t.window) = Len(s.window) + (last - e.sequence + 1)
    BY <1>3, <1>10, <1>13
  <2> QED BY <2>1, <2>2, <2>3, <2>4, <2>5, <1>2, <1>4, IngressAssumption
<1>16. WindowFolds(t)
  <2>1. Delivered(t) BY <1>2, <1>4, <1>13 DEF Delivered
  <2>2. t.next - 1 = last BY <1>2, <1>4, <1>13
  <2> QED BY <2>1, <2>2, <1>10, <1>13 DEF WindowFolds
<1>17. \A p \in t.pending : p.sequence > t.next
  <2> SUFFICES ASSUME NEW p \in s.pending, p \notin f PROVE p.sequence > last + 1
    BY <1>13
  <2>1. p.sequence > s.next BY DEF ScopeSound
  <2>2. p.sequence \in Nat BY <1>3
  <2>3. ~(p.sequence \in (e.sequence + 1)..last) BY <1>5
  <2>4. p.sequence # last + 1 BY <1>2
  <2> QED BY <2>1, <2>2, <2>3, <2>4, <1>2, <1>4
<1> QED BY <1>12, <1>13, <1>14, <1>15, <1>16, <1>17 DEF ScopeSound

\* An envelope beyond a gap, for which the reorder buffer has room.
LEMMA BufferedKeeps ==
  ASSUME NEW o, NEW s, ScopeSound(o, s), NEW e \in Envelopes,
         e.sequence > s.next, ~Buffers(s, e), Cardinality(s.pending) < reorder_window
  PROVE  LET t == [s EXCEPT !.pending = @ \cup {[sequence |-> e.sequence,
                                                 stamped_at |-> e.stamped_at]}]
         IN /\ ScopeSound(o, t) /\ t.lifecycle = s.lifecycle /\ t.errors = s.errors
            /\ t.generation = s.generation /\ t.next = s.next /\ t.window = s.window
            /\ t.stamped_at = s.stamped_at
<1> DEFINE t == [s EXCEPT !.pending = @ \cup {[sequence |-> e.sequence,
                                               stamped_at |-> e.stamped_at]}]
<1>1. s \in IngressScopes BY DEF ScopeSound
<1>2. PICK p : p = [sequence |-> e.sequence, stamped_at |-> e.stamped_at] OBVIOUS
<1>3. p \in [sequence : 0..MaxSequence, stamped_at : 0..MaxNow] /\ p.sequence = e.sequence
  BY <1>2 DEF Envelopes
<1>4. PICK ps : ps = s.pending \cup {p} OBVIOUS
<1>5. ps \in SUBSET [sequence : 0..MaxSequence, stamped_at : 0..MaxNow]
  BY <1>1, <1>3, <1>4 DEF IngressScopes
<1>6. t = [s EXCEPT !.pending = ps] BY <1>2, <1>4
<1> HIDE DEF t
<1>7. /\ t \in IngressScopes /\ t.lifecycle = s.lifecycle /\ t.errors = s.errors
      /\ t.generation = s.generation /\ t.next = s.next /\ t.window = s.window
      /\ t.stamped_at = s.stamped_at /\ t.pending = ps
  BY <1>1, <1>5, <1>6 DEF IngressScopes
<1>8. IsFiniteSet(ps) /\ Cardinality(ps) <= reorder_window
  <2>1. p \notin s.pending BY <1>3 DEF Buffers
  <2>2. IsFiniteSet(s.pending) BY DEF ScopeSound
  <2>3. IsFiniteSet(ps) /\ Cardinality(ps) = Cardinality(s.pending) + 1
    BY <2>1, <2>2, <1>4, FS_AddElement
  <2>4. Cardinality(s.pending) \in Nat BY <2>2, FS_CardinalityType
  <2> QED BY <2>3, <2>4, IngressAssumption
<1>9. \A q \in ps : q.sequence > s.next BY <1>3, <1>4 DEF ScopeSound
<1>10. ScopeSound(o, t)
  BY <1>7, <1>8, <1>9 DEF ScopeSound, WindowFolds, Delivered
<1> QED BY <1>7, <1>10 DEF t

\* What the policy must leave room for, so that a handoff is never refused.
RoomToAdmit == reorder_window > 0 /\ high_water > 0

\* The same to every reader.
SameView(s, t) ==
  /\ t.lifecycle = s.lifecycle /\ t.generation = s.generation /\ t.next = s.next
  /\ t.stamped_at = s.stamped_at /\ t.window = s.window /\ t.errors = s.errors

Decided(s, e, d) ==
  /\ ScopeSound(overflow, d.scope)
  /\ d.kind \in {"Delivered", "Buffered", "Refuse", "Block"}
  /\ d.scope.generation = s.generation \/ d.scope.generation > s.generation
  /\ e.generation <= s.generation => d.scope.generation = s.generation
  /\ d.kind = "Buffered" =>
       SameView(s, d.scope) \/ (d.scope.window = <<>> /\ d.scope.generation > s.generation)
  /\ d.kind \in {"Refuse", "Block"} =>
       d.scope = s \/ (~RoomToAdmit /\ d.scope.generation > s.generation)

\* The decision on a scope with the generation of the envelope.
Inside(f, e) ==
  IF InOrder(f, e) THEN Admitted(f, e)
  ELSE IF \/ e.sequence < f.next
          \/ Buffers(f, e)
          \/ Cardinality(f.pending) >= reorder_window
  THEN [kind |-> "Refuse", scope |-> f]
  ELSE [kind |-> "Buffered",
        scope |-> [f EXCEPT !.pending = @ \cup {[sequence |-> e.sequence,
                                                 stamped_at |-> e.stamped_at]}]]

InsideDecided(f, d) ==
  /\ ScopeSound(overflow, d.scope) /\ d.scope.generation = f.generation
  /\ d.kind \in {"Delivered", "Buffered", "Refuse", "Block"}
  /\ d.kind = "Buffered" => SameView(f, d.scope)
  /\ d.kind \in {"Refuse", "Block"} =>
       /\ d.scope = f
       /\ f.window = <<>> /\ f.pending = {} /\ f.next = 0 => ~RoomToAdmit

LEMMA DecideInside ==
  ASSUME NEW f, ScopeSound(overflow, f), NEW e \in Envelopes,
         overflow \in {"Block", "DropNewest", "DropOldest", "Conflate", "Spill"}
  PROVE  InsideDecided(f, Inside(f, e))
<1>0. PICK d : d = Inside(f, e) OBVIOUS
<1> SUFFICES /\ ScopeSound(overflow, d.scope) /\ d.scope.generation = f.generation
             /\ d.kind \in {"Delivered", "Buffered", "Refuse", "Block"}
             /\ d.kind = "Buffered" => SameView(f, d.scope)
             /\ d.kind \in {"Refuse", "Block"} =>
                  /\ d.scope = f
                  /\ f.window = <<>> /\ f.pending = {} /\ f.next = 0 => ~RoomToAdmit
  BY <1>0 DEF InsideDecided
<1>1. f \in IngressScopes BY DEF ScopeSound
<1>2. /\ f.next \in Nat /\ f.window \in Seq((0..MaxGeneration) \X (0..MaxSequence))
      /\ e.sequence \in Nat /\ MaxSequence \in Nat /\ high_water \in Nat /\ reorder_window \in Nat
  BY <1>1, IngressAssumption DEF IngressScopes, Envelopes
<1>3. CASE InOrder(f, e)
  <2>1. d = Admitted(f, e) /\ e.sequence = f.next BY <1>0, <1>3 DEF InOrder, Inside
  <2>2. PICK m : m = Max({high_water, 1}) OBVIOUS
  <2>3. m \in Nat /\ m >= 1 /\ m >= high_water BY <2>2, HighWater
  <2>4. Len(f.window) \in Nat BY <1>2
  <2>5. CASE Len(f.window) < high_water
    <3>1. d = [kind |-> "Delivered", scope |-> Merged(f, e)] BY <2>1, <2>5 DEF Admitted
    <3>2. Len(f.window) < Max({high_water, 1}) BY <2>2, <2>3, <2>4, <2>5, <1>2
    <3>3. ScopeSound(overflow, Merged(f, e)) /\ Merged(f, e).generation = f.generation
      BY <3>2, <2>1, MergedKeeps
    <3> QED BY <3>1, <3>3
  <2>6. CASE ~(Len(f.window) < high_water)
    <3>1. f.window = <<>> => ~RoomToAdmit
      <4> SUFFICES ASSUME f.window = <<>> PROVE ~RoomToAdmit OBVIOUS
      <4>1. Len(f.window) = 0 OBVIOUS
      <4> QED BY <4>1, <2>6, <1>2 DEF RoomToAdmit
    <3>2. CASE overflow = "Block"
      <4>1. d = [kind |-> "Block", scope |-> f] BY <2>1, <2>6, <3>2 DEF Admitted
      <4> QED BY <4>1, <3>1
    <3>3. CASE overflow = "DropNewest"
      <4>1. d = [kind |-> "Refuse", scope |-> f] BY <2>1, <2>6, <3>3 DEF Admitted
      <4> QED BY <4>1, <3>1
    <3>4. CASE overflow = "DropOldest"
      <4>1. PICK g : g = [f EXCEPT !.window = <<>>] OBVIOUS
      <4>2. ScopeSound(overflow, g) /\ g.next = f.next /\ g.generation = f.generation
            /\ g.window = <<>>
        BY <4>1, WindowTaken
      <4>3. d = [kind |-> "Delivered", scope |-> Merged(g, e)]
        BY <2>1, <2>6, <3>4, <4>1 DEF Admitted
      <4>4. Len(g.window) < Max({high_water, 1})
        <5>1. Len(g.window) = 0 BY <4>2
        <5> QED BY <5>1, <2>2, <2>3
      <4>5. ScopeSound(overflow, Merged(g, e)) /\ Merged(g, e).generation = g.generation
        BY <4>2, <4>4, <2>1, MergedKeeps
      <4> QED BY <4>2, <4>3, <4>5
    <3>5. CASE overflow \in {"Conflate", "Spill"}
      <4>1. d = [kind |-> "Delivered", scope |-> Merged(f, e)]
        BY <2>1, <2>6, <3>5 DEF Admitted
      <4>2. ~Bounded(overflow) BY <3>5 DEF Bounded
      <4>3. ScopeSound(overflow, Merged(f, e)) /\ Merged(f, e).generation = f.generation
        BY <4>2, <2>1, MergedKeeps
      <4> QED BY <4>1, <4>3
    <3> QED BY <3>2, <3>3, <3>4, <3>5
  <2> QED BY <2>5, <2>6
<1>4. CASE ~InOrder(f, e) /\ (e.sequence < f.next \/ Buffers(f, e)
                               \/ Cardinality(f.pending) >= reorder_window)
  <2>1. d = [kind |-> "Refuse", scope |-> f] BY <1>0, <1>4 DEF Inside
  <2>2. f.pending = {} /\ f.next = 0 => ~RoomToAdmit
    <3> SUFFICES ASSUME f.pending = {}, f.next = 0 PROVE ~RoomToAdmit OBVIOUS
    <3>1. Cardinality(f.pending) = 0 BY FS_EmptySet
    <3>2. ~Buffers(f, e) BY DEF Buffers
    <3> QED BY <3>1, <3>2, <1>2, <1>4 DEF RoomToAdmit
  <2> QED BY <2>1, <2>2
<1>5. CASE ~InOrder(f, e) /\ ~(e.sequence < f.next \/ Buffers(f, e)
                                \/ Cardinality(f.pending) >= reorder_window)
  <2>1. PICK t : t = [f EXCEPT !.pending = @ \cup {[sequence |-> e.sequence,
                                                    stamped_at |-> e.stamped_at]}]
    OBVIOUS
  <2>2. d = [kind |-> "Buffered", scope |-> t] BY <2>1, <1>0, <1>5 DEF Inside
  <2>3. e.sequence > f.next BY <1>2, <1>5 DEF InOrder
  <2>4. Cardinality(f.pending) < reorder_window
    <3>1. IsFiniteSet(f.pending) BY DEF ScopeSound
    <3>2. Cardinality(f.pending) \in Nat BY <3>1, FS_CardinalityType
    <3> QED BY <3>2, <1>2, <1>5
  <2>5. ScopeSound(overflow, t) /\ SameView(f, t)
    BY <2>1, <2>3, <2>4, <1>5, BufferedKeeps DEF SameView
  <2>6. d.kind = "Buffered" /\ d.scope = t BY <2>2
  <2> QED BY <2>5, <2>6 DEF SameView
<1> QED BY <1>3, <1>4, <1>5

LEMMA DecideKeeps ==
  ASSUME NEW s, ScopeSound(overflow, s), NEW e \in Envelopes,
         overflow \in {"Block", "DropNewest", "DropOldest", "Conflate", "Spill"}
  PROVE  Decided(s, e, decide(s, e))
<1>1. PICK d : d = decide(s, e) OBVIOUS
<1>2. s.generation \in Nat /\ e.generation \in Nat /\ e.generation \in 0..MaxGeneration
  BY IngressAssumption DEF ScopeSound, IngressScopes, Envelopes
<1>3. CASE s.lifecycle = "Closed" \/ e.generation < s.generation \/ Expired(observed_now, e)
  <2>1. d = [kind |-> "Refuse", scope |-> s] BY <1>1, <1>3 DEF decide
  <2> QED BY <2>1, <1>1 DEF Decided
<1>4. CASE ~(s.lifecycle = "Closed" \/ e.generation < s.generation \/ Expired(observed_now, e))
  <2>1. PICK f : f = IF e.generation > s.generation THEN HandedOff(s, e.generation) ELSE s
    OBVIOUS
  <2>2. ScopeSound(overflow, f) BY <2>1, <1>2, HandedOffKeeps
  <2>3. d = Inside(f, e) BY <2>1, <1>1, <1>4 DEF decide, Inside
  <2>4. /\ ScopeSound(overflow, d.scope) /\ d.scope.generation = f.generation
        /\ d.kind \in {"Delivered", "Buffered", "Refuse", "Block"}
        /\ d.kind = "Buffered" => SameView(f, d.scope)
        /\ d.kind \in {"Refuse", "Block"} =>
             /\ d.scope = f
             /\ f.window = <<>> /\ f.pending = {} /\ f.next = 0 => ~RoomToAdmit
    BY <2>2, <2>3, DecideInside DEF InsideDecided
  <2>5. CASE e.generation > s.generation
    <3>1. f.generation = e.generation /\ f.next = 0 /\ f.window = <<>> /\ f.pending = {}
      BY <2>1, <2>5, <1>2, HandedOffKeeps
    <3>2. ~(e.generation <= s.generation) BY <2>5, <1>2
    <3> QED BY <3>1, <3>2, <2>4, <2>5, <1>1 DEF Decided, SameView
  <2>6. CASE ~(e.generation > s.generation)
    <3>1. f = s BY <2>1, <2>6
    <3> QED BY <3>1, <2>4, <1>1 DEF Decided
  <2> QED BY <2>5, <2>6
<1> QED BY <1>3, <1>4

-----------------------------------------------------------------------------
(* What the calls of the ingress cell report *)

\* What each reader shows is determined by a few parts of the scope.
LEMMA ViewsSame ==
  ASSUME NEW s \in IngressScopes, NEW t \in IngressScopes, NEW now
  PROVE  /\ t.window = s.window => ScopeView("value", s, now) = ScopeView("value", t, now)
         /\ t.lifecycle = s.lifecycle /\ t.next = s.next /\ t.stamped_at = s.stamped_at =>
              ScopeView("readiness", s, now) = ScopeView("readiness", t, now)
         /\ (t.lifecycle = "Closed" <=> s.lifecycle = "Closed") /\ t.generation = s.generation
              /\ t.next = s.next /\ t.stamped_at = s.stamped_at =>
              ScopeView("authority", s, now) = ScopeView("authority", t, now)
         /\ t.errors = s.errors /\ t.next = s.next =>
              ScopeView("retry", s, now) = ScopeView("retry", t, now)
<1>1. s # NoScope /\ t # NoScope BY IngressAssumption
<1>2. ASSUME t.window = s.window
      PROVE  ScopeView("value", s, now) = ScopeView("value", t, now)
  BY <1>1, <1>2 DEF ScopeView, peek
<1>3. ASSUME t.lifecycle = s.lifecycle, t.next = s.next, t.stamped_at = s.stamped_at
      PROVE  ScopeView("readiness", s, now) = ScopeView("readiness", t, now)
  <2>1. readiness(s, now) = readiness(t, now) BY <1>1, <1>3 DEF readiness, Delivered, Age
  <2> QED BY <2>1 DEF ScopeView
<1>4. ASSUME t.lifecycle = "Closed" <=> s.lifecycle = "Closed", t.generation = s.generation,
             t.next = s.next, t.stamped_at = s.stamped_at
      PROVE  ScopeView("authority", s, now) = ScopeView("authority", t, now)
  <2>1. authority(s) = authority(t) BY <1>1, <1>4 DEF authority
  <2> QED BY <2>1 DEF ScopeView
<1>5. ASSUME t.errors = s.errors, t.next = s.next
      PROVE  ScopeView("retry", s, now) = ScopeView("retry", t, now)
  <2>1. retry(s) = retry(t) BY <1>1, <1>5 DEF retry
  <2> QED BY <2>1 DEF ScopeView
<1> QED BY <1>2, <1>3, <1>4, <1>5

\* A call that leaves readers stale without a report.
Gap(s) == scope # NoScope /\ (s.generation > scope.generation \/ scope.lifecycle = "Closed")

\* What a call makes of the scope is sound, and it reports what it changes.
Reports(s, now, pushed, marks) ==
  /\ s = NoScope \/ ScopeSound(overflow, s)
  /\ now \in 0..MaxNow /\ pushed \subseteq ReceiptChannels
  /\ RoomToAdmit /\ "value" \notin marks => peek(s) = peek(scope)
  /\ \/ Gap(s)
     \/ \A r \in ScopeReaders \ marks : ScopeView(r, scope, observed_now) = ScopeView(r, s, now)

IngressInv ==
  /\ scope = NoScope \/ ScopeSound(overflow, scope)
  /\ observed_now \in 0..MaxNow
  /\ overflow \in {"Block", "DropNewest", "DropOldest", "Conflate", "Spill"}
  /\ receipts \in Seq(ReceiptChannels) /\ Len(receipts) <= receipt_capacity
  /\ ingressOwes \subseteq IngressThreads
  /\ ingressReader \in ScopeReaders \cup ReceiptChannels
  /\ RoomToAdmit /\ ingressReader = "value" /\ ingressShown = "stale" => ingressOwes # {}

\* A key that had no scope has one without payloads and errors.
LEMMA CreationReports ==
  ASSUME IngressInv, scope = NoScope, NEW s \in IngressScopes, ScopeSound(overflow, s),
         s.window = <<>>, s.errors = 0
  PROVE  Reports(s, observed_now, {}, creation)
<1>1. s # NoScope BY IngressAssumption
<1>2. peek(s) = peek(scope) BY <1>1 DEF peek
<1>3. retry(s) = retry(scope) BY <1>1 DEF retry
<1>4. ASSUME NEW r \in ScopeReaders \ creation
      PROVE  ScopeView(r, scope, observed_now) = ScopeView(r, s, observed_now)
  <2>1. r = "value" \/ r = "retry" BY <1>4 DEF ScopeReaders, creation
  <2> QED BY <2>1, <1>2, <1>3 DEF ScopeView
<1> QED BY <1>2, <1>4 DEF Reports, IngressInv

LEMMA OpenReports ==
  ASSUME IngressInv, NEW g \in 0..MaxGeneration
  PROVE  Reports(Opened(scope, g), observed_now, {}, OpenMarks(scope, Opened(scope, g)))
<1>1. PICK s : s = Opened(scope, g) OBVIOUS
<1>2. PICK marks : marks = OpenMarks(scope, s) OBVIOUS
<1>3. CASE scope = NoScope
  <2>1. s = Scope(g) /\ marks = creation BY <1>1, <1>2, <1>3 DEF Opened, OpenMarks
  <2>2. ScopeSound(overflow, s) /\ s.window = <<>> /\ s.errors = 0 BY <2>1, FreshScope
  <2>3. Reports(s, observed_now, {}, creation)
    BY <2>2, <1>3, CreationReports DEF ScopeSound
  <2> QED BY <2>1, <2>3, <1>1, <1>2
<1>4. CASE scope # NoScope /\ scope.lifecycle = "Closed"
  <2>1. s = Scope(g) BY <1>1, <1>4 DEF Opened
  <2>2. ScopeSound(overflow, s) /\ s.window = <<>> BY <2>1, FreshScope
  <2>3. scope.window = <<>> BY <1>4 DEF IngressInv, ScopeSound
  <2>4. s # NoScope BY <2>2, IngressAssumption DEF ScopeSound
  <2>5. peek(s) = peek(scope) BY <2>2, <2>3, <2>4, <1>4 DEF peek
  <2>6. Gap(s) BY <1>4 DEF Gap
  <2>7. Reports(s, observed_now, {}, marks) BY <2>2, <2>5, <2>6 DEF Reports, IngressInv
  <2> QED BY <2>7, <1>1, <1>2
<1>5. CASE scope # NoScope /\ scope.lifecycle # "Closed"
  <2>1. ScopeSound(overflow, scope) /\ scope \in IngressScopes BY <1>5 DEF IngressInv, ScopeSound
  <2>2. PICK l : l = live_or_opening(scope) OBVIOUS
  <2>3. l \in {"Opening", "Live", "Suspended"}
    BY <2>2 DEF live_or_opening
  <2>4. PICK u : u = [scope EXCEPT !.lifecycle = l] OBVIOUS
  <2>5. /\ ScopeSound(overflow, u) /\ u.lifecycle = l /\ u.errors = scope.errors
        /\ u.generation = scope.generation /\ u.next = scope.next /\ u.window = scope.window
        /\ u.stamped_at = scope.stamped_at
    BY <2>1, <2>3, <2>4, LifecycleSet
  <2>6. s = IF g > scope.generation THEN Refenced(u, g) ELSE u
    BY <1>1, <1>5, <2>2, <2>4 DEF Opened
  <2>7. CASE g > scope.generation
    <3>1. ScopeSound(overflow, s) /\ s.generation = g /\ s.window = scope.window
      BY <2>5, <2>6, <2>7, RefencedKeeps
    <3>2. s # NoScope BY <3>1, IngressAssumption DEF ScopeSound
    <3>3. peek(s) = peek(scope) BY <3>1, <3>2, <1>5 DEF peek
    <3>4. Gap(s) BY <3>1, <2>7, <1>5 DEF Gap
    <3>5. Reports(s, observed_now, {}, marks) BY <3>1, <3>3, <3>4 DEF Reports, IngressInv
    <3> QED BY <3>5, <1>1, <1>2
  <2>8. CASE ~(g > scope.generation)
    <3>1. s = u /\ s \in IngressScopes BY <2>5, <2>6, <2>8 DEF ScopeSound
    <3>2. s # NoScope BY <3>1, IngressAssumption
    <3>3. peek(s) = peek(scope) BY <3>1, <3>2, <2>5, <1>5 DEF peek
    <3>4. s.lifecycle # scope.lifecycle => "readiness" \in marks
      BY <1>2, <1>5 DEF OpenMarks, Marked
    <3>5. ASSUME NEW r \in ScopeReaders \ marks
          PROVE  ScopeView(r, scope, observed_now) = ScopeView(r, s, observed_now)
      <4>1. r \in {"value", "readiness", "authority", "retry"} BY <3>5 DEF ScopeReaders
      <4>2. r = "readiness" => s.lifecycle = scope.lifecycle BY <3>4, <3>5
      <4> QED BY <4>1, <4>2, <3>1, <2>1, <2>3, <2>5, <1>5, ViewsSame
    <3>6. Reports(s, observed_now, {}, marks) BY <3>1, <3>3, <3>5, <2>5 DEF Reports, IngressInv
    <3> QED BY <3>6, <1>1, <1>2
  <2> QED BY <2>7, <2>8
<1> QED BY <1>3, <1>4, <1>5

LEMMA SuspendReports ==
  ASSUME IngressInv, scope # NoScope, scope.lifecycle \notin {"Suspended", "Closed"}
  PROVE  Reports([scope EXCEPT !.lifecycle = "Suspended"], observed_now, {}, {"readiness"})
<1>1. ScopeSound(overflow, scope) /\ scope \in IngressScopes BY DEF IngressInv, ScopeSound
<1>2. PICK s : s = [scope EXCEPT !.lifecycle = "Suspended"] OBVIOUS
<1>3. /\ ScopeSound(overflow, s) /\ s.lifecycle = "Suspended" /\ s.errors = scope.errors
      /\ s.generation = scope.generation /\ s.next = scope.next /\ s.window = scope.window
      /\ s.stamped_at = scope.stamped_at
  BY <1>1, <1>2, LifecycleSet
<1>4. s \in IngressScopes /\ s # NoScope BY <1>3, IngressAssumption DEF ScopeSound
<1>5. peek(s) = peek(scope) BY <1>3, <1>4 DEF peek
<1>6. ASSUME NEW r \in ScopeReaders \ {"readiness"}
      PROVE  ScopeView(r, scope, observed_now) = ScopeView(r, s, observed_now)
  <2>1. r \in {"value", "authority", "retry"} BY <1>6 DEF ScopeReaders
  <2> QED BY <2>1, <1>1, <1>3, <1>4, ViewsSame
<1>7. Reports(s, observed_now, {}, {"readiness"}) BY <1>3, <1>5, <1>6 DEF Reports, IngressInv
<1> QED BY <1>2, <1>7

LEMMA ReconnectReports ==
  ASSUME IngressInv, NEW g \in 0..MaxGeneration
  PROVE  Reports(Reconnected(scope, g), observed_now, {},
                 ReconnectMarks(scope, Reconnected(scope, g)))
<1>1. PICK s : s = Reconnected(scope, g) OBVIOUS
<1>2. PICK marks : marks = ReconnectMarks(scope, s) OBVIOUS
<1>3. PICK known : known = IF scope = NoScope THEN Scope(g) ELSE scope OBVIOUS
<1>4. ScopeSound(overflow, known) BY <1>3, FreshScope DEF IngressInv
<1>5. PICK f : f = IF g > known.generation THEN HandedOff(known, g) ELSE known OBVIOUS
<1>6. ScopeSound(overflow, f) BY <1>4, <1>5, HandedOffKeeps
<1>7. PICK l : l = live_or_opening(f) OBVIOUS
<1>8. l \in {"Opening", "Live", "Suspended"}
  BY <1>7 DEF live_or_opening
<1>9. PICK u : u = [f EXCEPT !.lifecycle = l] OBVIOUS
<1>10. s = [u EXCEPT !.errors = 0] BY <1>1, <1>3, <1>5, <1>7, <1>9 DEF Reconnected
<1>11. /\ ScopeSound(overflow, u) /\ u.lifecycle = l
       /\ u.generation = f.generation /\ u.next = f.next /\ u.window = f.window
       /\ u.stamped_at = f.stamped_at
  BY <1>6, <1>8, <1>9, LifecycleSet
<1>12. /\ ScopeSound(overflow, s) /\ s.lifecycle = l /\ s.errors = 0
       /\ s.generation = f.generation /\ s.next = f.next /\ s.window = f.window
       /\ s.stamped_at = f.stamped_at
  <2>1. 0 \in 0..MaxErrors BY IngressAssumption
  <2> QED BY <2>1, <1>10, <1>11, ErrorsSet
<1>13. s \in IngressScopes /\ s # NoScope BY <1>12, IngressAssumption DEF ScopeSound
<1>14. CASE scope = NoScope
  <2>1. known.generation = g /\ known.window = <<>> BY <1>3, <1>14, FreshScope
  <2>2. f = known
    <3>1. ~(g > g) BY IngressAssumption
    <3> QED BY <3>1, <2>1, <1>5
  <2>3. s.window = <<>> BY <2>1, <2>2, <1>12
  <2>4. marks = creation BY <1>2, <1>14 DEF ReconnectMarks
  <2>5. Reports(s, observed_now, {}, creation)
    BY <2>3, <1>12, <1>13, <1>14, CreationReports
  <2> QED BY <2>4, <2>5, <1>1, <1>2
<1>15. CASE scope # NoScope /\ g > scope.generation
  <2>1. f.generation = g /\ f.window = <<>> BY <1>3, <1>4, <1>5, <1>15, HandedOffKeeps
  <2>2. scope.window # <<>> => "value" \in marks
    BY <2>1, <1>2, <1>12, <1>15 DEF ReconnectMarks, Marked
  <2>3. "value" \notin marks => peek(s) = peek(scope)
    BY <2>1, <2>2, <1>12, <1>13, <1>15 DEF peek
  <2>4. Gap(s) BY <2>1, <1>12, <1>15 DEF Gap
  <2>5. Reports(s, observed_now, {}, marks) BY <2>3, <2>4, <1>12 DEF Reports, IngressInv
  <2> QED BY <2>5, <1>1, <1>2
<1>16. CASE scope # NoScope /\ ~(g > scope.generation)
  <2>1. f = scope /\ scope \in IngressScopes
    BY <1>3, <1>5, <1>16 DEF IngressInv, ScopeSound
  <2>2. peek(s) = peek(scope) BY <2>1, <1>12, <1>13, <1>16 DEF peek
  <2>3. CASE scope.lifecycle = "Closed"
    <3>1. Gap(s) BY <2>3, <1>16 DEF Gap
    <3>2. Reports(s, observed_now, {}, marks) BY <2>2, <3>1, <1>12 DEF Reports, IngressInv
    <3> QED BY <3>2, <1>1, <1>2
  <2>4. CASE scope.lifecycle # "Closed"
    <3>1. s.lifecycle # scope.lifecycle => "readiness" \in marks
      BY <1>2, <1>16 DEF ReconnectMarks, Marked
    <3>2. scope.errors # 0 => "retry" \in marks
      <4>1. scope.errors \in Nat BY <2>1, IngressAssumption DEF IngressScopes
      <4>2. scope.errors # 0 => scope.errors > 0 BY <4>1
      <4> QED BY <4>2, <1>2, <1>16 DEF ReconnectMarks, Marked
    <3>3. ASSUME NEW r \in ScopeReaders \ marks
          PROVE  ScopeView(r, scope, observed_now) = ScopeView(r, s, observed_now)
      <4>1. r \in {"value", "readiness", "authority", "retry"} BY <3>3 DEF ScopeReaders
      <4>2. r = "readiness" => s.lifecycle = scope.lifecycle BY <3>1, <3>3
      <4>3. r = "retry" => s.errors = scope.errors BY <3>2, <3>3, <1>12
      <4> QED BY <4>1, <4>2, <4>3, <2>1, <2>4, <1>8, <1>12, <1>13, ViewsSame
    <3>4. Reports(s, observed_now, {}, marks) BY <2>2, <3>3, <1>12 DEF Reports, IngressInv
    <3> QED BY <3>4, <1>1, <1>2
  <2> QED BY <2>3, <2>4
<1> QED BY <1>14, <1>15, <1>16

LEMMA CloseReports ==
  ASSUME IngressInv, scope # NoScope, scope.lifecycle # "Closed"
  PROVE  Reports(Closed(scope), observed_now, {}, CloseMarks(scope))
<1>1. ScopeSound(overflow, scope) /\ scope \in IngressScopes BY DEF IngressInv, ScopeSound
<1>2. PICK s : s = Closed(scope) OBVIOUS
<1>3. PICK marks : marks = CloseMarks(scope) OBVIOUS
<1>4. /\ ScopeSound(overflow, s) /\ s.errors = 0 /\ s.next = scope.next /\ s.window = <<>>
  BY <1>1, <1>2, ClosedKeeps
<1>5. s \in IngressScopes /\ s # NoScope BY <1>4, IngressAssumption DEF ScopeSound
<1>6. /\ scope.window # <<>> => "value" \in marks
      /\ scope.errors > 0 => "retry" \in marks
      /\ {"readiness", "authority"} \subseteq marks
  BY <1>3 DEF CloseMarks, Marked
<1>7. scope.errors \in Nat BY <1>1, IngressAssumption DEF IngressScopes
<1>8. "value" \notin marks => peek(s) = peek(scope) BY <1>4, <1>5, <1>6 DEF peek
<1>9. ASSUME NEW r \in ScopeReaders \ marks
      PROVE  ScopeView(r, scope, observed_now) = ScopeView(r, s, observed_now)
  <2>1. r = "value" \/ r = "retry" BY <1>6, <1>9 DEF ScopeReaders
  <2>2. CASE r = "value" BY <2>2, <1>8, <1>9 DEF ScopeView
  <2>3. CASE r = "retry"
    <3>1. ~(scope.errors > 0) BY <2>3, <1>6, <1>9
    <3>2. s.errors = scope.errors BY <3>1, <1>4, <1>7
    <3> QED BY <3>2, <2>3, <1>1, <1>4, <1>5, ViewsSame
  <2> QED BY <2>1, <2>2, <2>3
<1>10. Reports(s, observed_now, {}, marks) BY <1>4, <1>8, <1>9 DEF Reports, IngressInv
<1> QED BY <1>2, <1>3, <1>10

LEMMA TickReports ==
  ASSUME IngressInv, NEW now, observed_now < MaxNow, now = observed_now + 1
  PROVE  Reports(scope, now, {},
                 Marked("readiness", readiness(scope, observed_now) # readiness(scope, now)))
<1>1. PICK marks : marks = Marked("readiness", readiness(scope, observed_now)
                                                  # readiness(scope, now)) OBVIOUS
<1>2. now \in 0..MaxNow BY IngressAssumption DEF IngressInv
<1>3. ASSUME NEW r \in ScopeReaders \ marks
      PROVE  ScopeView(r, scope, observed_now) = ScopeView(r, scope, now)
  <2>1. r \in {"value", "readiness", "authority", "retry"} BY <1>3 DEF ScopeReaders
  <2>2. r = "readiness" => readiness(scope, observed_now) = readiness(scope, now)
    BY <1>1, <1>3 DEF Marked
  <2> QED BY <2>1, <2>2 DEF ScopeView
<1>4. Reports(scope, now, {}, marks) BY <1>2, <1>3 DEF Reports, IngressInv
<1> QED BY <1>1, <1>4

LEMMA FailReports ==
  ASSUME IngressInv, NEW known, known = IF scope = NoScope THEN Scope(0) ELSE scope,
         known.errors < MaxErrors
  PROVE  Reports([known EXCEPT !.errors = @ + 1], observed_now, {"errors"},
                 {"retry"} \cup Marked("readiness", scope = NoScope)
                           \cup Marked("authority", scope = NoScope))
<1>1. PICK marks : marks = {"retry"} \cup Marked("readiness", scope = NoScope)
                                     \cup Marked("authority", scope = NoScope)
  OBVIOUS
<1>2. 0 \in 0..MaxGeneration BY IngressAssumption
<1>3. ScopeSound(overflow, known) /\ known \in IngressScopes
  BY <1>2, FreshScope DEF IngressInv, ScopeSound
<1>4. PICK n : n = known.errors + 1 OBVIOUS
<1>5. n \in 0..MaxErrors BY <1>3, <1>4, IngressAssumption DEF IngressScopes
<1>6. PICK s : s = [known EXCEPT !.errors = n] OBVIOUS
<1>7. /\ ScopeSound(overflow, s) /\ s.lifecycle = known.lifecycle
      /\ s.generation = known.generation /\ s.next = known.next /\ s.window = known.window
      /\ s.stamped_at = known.stamped_at
  BY <1>3, <1>5, <1>6, ErrorsSet
<1>8. s \in IngressScopes /\ s # NoScope BY <1>7, IngressAssumption DEF ScopeSound
<1>9. "errors" \in ReceiptChannels BY DEF ReceiptChannels
<1>10. CASE scope = NoScope
  <2>1. marks = {"retry", "readiness", "authority"} BY <1>1, <1>10 DEF Marked
  <2>2. s.window = <<>> BY <1>2, <1>7, <1>10, FreshScope
  <2>3. peek(s) = peek(scope) BY <2>2, <1>8, <1>10 DEF peek
  <2>4. ASSUME NEW r \in ScopeReaders \ marks
        PROVE  ScopeView(r, scope, observed_now) = ScopeView(r, s, observed_now)
    <3>1. r = "value" BY <2>1, <2>4 DEF ScopeReaders
    <3> QED BY <3>1, <2>3 DEF ScopeView
  <2>5. Reports(s, observed_now, {"errors"}, marks)
    BY <2>3, <2>4, <1>7, <1>9 DEF Reports, IngressInv
  <2> QED BY <2>5, <1>1, <1>4, <1>6
<1>11. CASE scope # NoScope
  <2>1. "retry" \in marks BY <1>1
  <2>2. known = scope BY <1>11
  <2>3. peek(s) = peek(scope) BY <2>2, <1>7, <1>8, <1>11 DEF peek
  <2>4. ASSUME NEW r \in ScopeReaders \ marks
        PROVE  ScopeView(r, scope, observed_now) = ScopeView(r, s, observed_now)
    <3>1. r \in {"value", "readiness", "authority"} BY <2>1, <2>4 DEF ScopeReaders
    <3> QED BY <3>1, <2>2, <1>3, <1>7, <1>8, ViewsSame
  <2>5. Reports(s, observed_now, {"errors"}, marks)
    BY <2>3, <2>4, <1>7, <1>9 DEF Reports, IngressInv
  <2> QED BY <2>5, <1>1, <1>4, <1>6
<1> QED BY <1>10, <1>11

LEMMA DrainReports ==
  ASSUME IngressInv, scope # NoScope, scope.window # <<>>
  PROVE  Reports([scope EXCEPT !.window = <<>>], observed_now, {}, {"value"})
<1>1. ScopeSound(overflow, scope) /\ scope \in IngressScopes BY DEF IngressInv, ScopeSound
<1>2. PICK s : s = [scope EXCEPT !.window = <<>>] OBVIOUS
<1>3. /\ ScopeSound(overflow, s) /\ s.lifecycle = scope.lifecycle /\ s.errors = scope.errors
      /\ s.generation = scope.generation /\ s.next = scope.next
      /\ s.stamped_at = scope.stamped_at
  BY <1>1, <1>2, WindowTaken
<1>4. s \in IngressScopes BY <1>3 DEF ScopeSound
<1>5. ASSUME NEW r \in ScopeReaders \ {"value"}
      PROVE  ScopeView(r, scope, observed_now) = ScopeView(r, s, observed_now)
  <2>1. r \in {"readiness", "authority", "retry"} BY <1>5 DEF ScopeReaders
  <2> QED BY <2>1, <1>1, <1>3, <1>4, ViewsSame
<1>6. Reports(s, observed_now, {}, {"value"}) BY <1>3, <1>5 DEF Reports, IngressInv
<1> QED BY <1>2, <1>6

\* What an envelope makes of a key.
Taken(d) == d.kind \in {"Buffered", "Delivered"}

AdmittedScope(d) == IF scope = NoScope /\ ~Taken(d) THEN NoScope ELSE d.scope

AdmitReceipts(d) ==
  CASE d.kind = "Delivered" -> {"accepted"}
    [] d.kind \in {"Refuse", "Block"} -> {"dropped"}
    [] d.kind = "Buffered" -> {}

LEMMA AdmitReports ==
  ASSUME IngressInv, NEW e \in Envelopes, NEW known,
         known = IF scope = NoScope THEN Scope(e.generation) ELSE scope,
         NEW d, d = decide(known, e)
  PROVE  Reports(AdmittedScope(d), observed_now, AdmitReceipts(d), AdmitMarks(scope, d))
<1>1. PICK s, pushed, marks : /\ s = AdmittedScope(d) /\ pushed = AdmitReceipts(d)
                              /\ marks = AdmitMarks(scope, d)
  OBVIOUS
<1>2. e.generation \in 0..MaxGeneration /\ e.generation \in Nat
  BY IngressAssumption DEF Envelopes
<1>3. ScopeSound(overflow, known) /\ known \in IngressScopes
  BY <1>2, FreshScope DEF IngressInv, ScopeSound
<1>4. Decided(known, e, d) BY <1>3, DecideKeeps DEF IngressInv
<1>5. /\ ScopeSound(overflow, d.scope)
      /\ d.kind \in {"Delivered", "Buffered", "Refuse", "Block"}
  BY <1>4 DEF Decided
<1>6. d.scope \in IngressScopes /\ d.scope # NoScope
  BY <1>5, IngressAssumption DEF ScopeSound
<1>7. /\ s = NoScope \/ ScopeSound(overflow, s)
      /\ pushed \subseteq ReceiptChannels /\ observed_now \in 0..MaxNow
  BY <1>1, <1>5 DEF AdmittedScope, AdmitReceipts, ReceiptChannels, IngressInv
<1>8. CASE d.kind = "Delivered"
  <2>1. marks = ScopeReaders BY <1>1, <1>8 DEF AdmitMarks
  <2>2. Reports(s, observed_now, pushed, marks)
    BY <2>1, <1>7 DEF Reports, ScopeReaders
  <2> QED BY <2>2, <1>1
<1>9. CASE d.kind = "Buffered" /\ scope = NoScope
  <2>1. s = d.scope /\ pushed = {} /\ marks = creation
    BY <1>1, <1>9 DEF AdmittedScope, Taken, AdmitReceipts, AdmitMarks, BufferMarks
  <2>2. known.generation = e.generation /\ known.window = <<>> /\ known.errors = 0
    BY <1>2, <1>9, FreshScope
  <2>3. s.generation = e.generation BY <2>1, <2>2, <1>2, <1>4 DEF Decided
  <2>4. SameView(known, s)
    BY <2>1, <2>2, <2>3, <1>2, <1>4, <1>9 DEF Decided
  <2>5. s.window = <<>> /\ s.errors = 0 BY <2>2, <2>4 DEF SameView
  <2>6. Reports(s, observed_now, {}, creation)
    BY <2>1, <2>5, <1>5, <1>6, <1>9, CreationReports
  <2> QED BY <2>1, <2>6, <1>1
<1>10. CASE d.kind = "Buffered" /\ scope # NoScope
  <2>1. /\ s = d.scope /\ pushed = {} /\ known = scope
        /\ marks = BufferMarks(scope, s)
    BY <1>1, <1>10 DEF AdmittedScope, Taken, AdmitReceipts, AdmitMarks
  <2>2. SameView(scope, s) \/ (s.window = <<>> /\ s.generation > scope.generation)
    BY <2>1, <1>4, <1>10 DEF Decided
  <2>3. CASE SameView(scope, s)
    <3>1. peek(s) = peek(scope) BY <2>1, <2>3, <1>6, <1>10 DEF SameView, peek
    <3>2. ASSUME NEW r \in ScopeReaders
          PROVE  ScopeView(r, scope, observed_now) = ScopeView(r, s, observed_now)
      <4>1. r \in {"value", "readiness", "authority", "retry"} BY <3>2 DEF ScopeReaders
      <4> QED BY <4>1, <2>1, <2>3, <1>3, <1>6, ViewsSame DEF SameView
    <3>3. Reports(s, observed_now, pushed, marks) BY <3>1, <3>2, <1>7 DEF Reports
    <3> QED BY <3>3, <1>1
  <2>4. CASE s.window = <<>> /\ s.generation > scope.generation
    <3>1. scope.window # <<>> => "value" \in marks
      BY <2>1, <2>4, <1>10 DEF BufferMarks, Marked
    <3>2. "value" \notin marks => peek(s) = peek(scope)
      BY <3>1, <2>1, <2>4, <1>6, <1>10 DEF peek
    <3>3. Gap(s) BY <2>4, <1>10 DEF Gap
    <3>4. Reports(s, observed_now, pushed, marks) BY <3>2, <3>3, <1>7 DEF Reports
    <3> QED BY <3>4, <1>1
  <2> QED BY <2>2, <2>3, <2>4
<1>11. CASE d.kind \in {"Refuse", "Block"}
  <2>1. CASE s = scope
    <3>1. Reports(s, observed_now, pushed, marks) BY <2>1, <1>7 DEF Reports
    <3> QED BY <3>1, <1>1
  <2>2. CASE s # scope
    <3>1. scope # NoScope /\ s = d.scope
      BY <2>2, <1>1, <1>11 DEF AdmittedScope, Taken
    <3>2. ~RoomToAdmit /\ s.generation > scope.generation
      BY <3>1, <2>2, <1>4, <1>11 DEF Decided
    <3>3. Gap(s) BY <3>1, <3>2 DEF Gap
    <3>4. Reports(s, observed_now, pushed, marks) BY <3>2, <3>3, <1>7 DEF Reports
    <3> QED BY <3>4, <1>1
  <2> QED BY <2>1, <2>2
<1> QED BY <1>5, <1>8, <1>9, <1>10, <1>11

LEMMA LoggedKeeps ==
  ASSUME IngressInv, NEW c \in ReceiptChannels
  PROVE  Logged(c) \in Seq(ReceiptChannels) /\ Len(Logged(c)) <= receipt_capacity
<1>1. receipts \in Seq(ReceiptChannels) /\ Len(receipts) <= receipt_capacity
  BY DEF IngressInv
<1>2. receipt_capacity \in Nat \ {0} BY IngressAssumption
<1>3. PICK log : log = Append(receipts, c) OBVIOUS
<1>4. log \in Seq(ReceiptChannels) /\ Len(log) = Len(receipts) + 1 BY <1>1, <1>3
<1>5. Logged(c) = IF Len(log) > receipt_capacity THEN Tail(log) ELSE log
  BY <1>3 DEF Logged
<1>6. CASE Len(log) > receipt_capacity
  <2>1. log # <<>> BY <1>4, <1>1
  <2>2. Tail(log) \in Seq(ReceiptChannels) /\ Len(Tail(log)) = Len(log) - 1
    BY <2>1, <1>4, HeadTailProperties
  <2> QED BY <2>2, <1>1, <1>2, <1>4, <1>5, <1>6
<1>7. CASE ~(Len(log) > receipt_capacity)
  <2>1. Len(log) <= receipt_capacity BY <1>1, <1>2, <1>4, <1>7
  <2> QED BY <2>1, <1>4, <1>5, <1>7
<1> QED BY <1>6, <1>7

\* The kinds of step that leave a reader stale without a report.
StaleGap ==
  \/ scope # NoScope /\ scope'.generation > scope.generation
  \/ scope # NoScope /\ scope.lifecycle = "Closed"
  \/ ingressReader \in ReceiptChannels /\ Len(receipts) = receipt_capacity

\* A commit that reports what it changes.
LEMMA CommitKeeps ==
  ASSUME IngressInv, NEW t \in IngressThreads, NEW s, NEW now, NEW pushed, NEW marks,
         Reports(s, now, pushed, marks), Commit(t, s, now, pushed, marks)
  PROVE  IngressInv' /\ (UnreportedChange => StaleGap)
<1> DEFINE log == IF pushed = {} THEN receipts ELSE Logged(CHOOSE c \in pushed : TRUE)
           evicted == IF pushed # {} /\ Len(receipts) = receipt_capacity
                      THEN {Head(receipts)} ELSE {}
           changed == IF ingressReader \in ScopeReaders
                      THEN ScopeView(ingressReader, scope, observed_now)
                             # ScopeView(ingressReader, s, now)
                      ELSE ingressReader \in pushed \cup evicted
<1>1. /\ t \notin ingressOwes /\ scope' = s /\ observed_now' = now /\ receipts' = log
      /\ ingressOwes' = IF ingressReader \in marks \cup pushed
                        THEN ingressOwes \cup {t} ELSE ingressOwes
      /\ ingressShown' = IF ingressShown = "current" /\ changed THEN "stale" ELSE ingressShown
      /\ UNCHANGED <<overflow, ingressReader>>
  BY DEF Commit
<1>2. /\ s = NoScope \/ ScopeSound(overflow, s)
      /\ now \in 0..MaxNow /\ pushed \subseteq ReceiptChannels
      /\ RoomToAdmit /\ "value" \notin marks => peek(s) = peek(scope)
      /\ \/ Gap(s)
         \/ \A r \in ScopeReaders \ marks :
              ScopeView(r, scope, observed_now) = ScopeView(r, s, now)
  BY DEF Reports
<1>3. receipts' \in Seq(ReceiptChannels) /\ Len(receipts') <= receipt_capacity
  <2>1. CASE pushed = {} BY <2>1, <1>1 DEF IngressInv
  <2>2. CASE pushed # {}
    <3>1. PICK c : c = CHOOSE x \in pushed : TRUE OBVIOUS
    <3>2. c \in ReceiptChannels BY <3>1, <2>2, <1>2
    <3>3. receipts' = Logged(c) BY <3>1, <2>2, <1>1
    <3> QED BY <3>2, <3>3, LoggedKeeps
  <2> QED BY <2>1, <2>2
<1>4. changed /\ ingressReader = "value" => peek(s) # peek(scope)
  BY DEF ScopeReaders, ScopeView
<1>5. changed /\ ~(ingressReader \in marks \cup pushed) =>
        Gap(s) \/ (ingressReader \in ReceiptChannels /\ Len(receipts) = receipt_capacity)
  <2> SUFFICES ASSUME changed, ingressReader \notin marks, ingressReader \notin pushed
               PROVE  Gap(s) \/ (ingressReader \in ReceiptChannels
                                  /\ Len(receipts) = receipt_capacity)
    OBVIOUS
  <2>1. CASE ingressReader \in ScopeReaders BY <2>1, <1>2
  <2>2. CASE ingressReader \notin ScopeReaders
    <3>1. ingressReader \in evicted BY <2>2
    <3>2. Len(receipts) = receipt_capacity BY <3>1
    <3>3. ingressReader \in ReceiptChannels BY <2>2 DEF IngressInv
    <3> QED BY <3>2, <3>3
  <2> QED BY <2>1, <2>2
<1> HIDE DEF changed, log
<1>6. RoomToAdmit /\ ingressReader = "value" /\ ingressShown' = "stale" => ingressOwes' # {}
  <2> SUFFICES ASSUME RoomToAdmit, ingressReader = "value", ingressShown' = "stale"
               PROVE  ingressOwes' # {}
    OBVIOUS
  <2>1. CASE ingressShown = "stale"
    <3>1. ingressOwes # {} BY <2>1 DEF IngressInv
    <3> QED BY <3>1, <1>1
  <2>2. CASE ingressShown # "stale"
    <3>1. changed BY <2>2, <1>1
    <3>2. "value" \in marks BY <3>1, <1>2, <1>4
    <3> QED BY <3>2, <1>1
  <2> QED BY <2>1, <2>2
<1>7. ASSUME UnreportedChange PROVE StaleGap
  <2>1. changed BY <1>1, <1>7 DEF UnreportedChange
  <2>2. ~(ingressReader \in marks \cup pushed) BY <1>1, <1>7 DEF UnreportedChange
  <2> QED BY <2>1, <2>2, <1>1, <1>5 DEF Gap, StaleGap
<1>8. ingressOwes' \subseteq IngressThreads BY <1>1 DEF IngressInv
<1>9. IngressInv' BY <1>1, <1>2, <1>3, <1>6, <1>8 DEF IngressInv
<1> QED BY <1>7, <1>9

LEMMA IngressInvInit ==
  ASSUME IngressInit
  PROVE  IngressInv
<1>1. 0 \in 0..MaxNow /\ Len(<<>>) <= receipt_capacity BY IngressAssumption
<1>2. <<>> \in Seq(ReceiptChannels) OBVIOUS
<1> QED BY <1>1, <1>2, IngressAssumption DEF IngressInit, IngressInv

\* The step: every call reports what it changes, but for the gaps.
LEMMA IngressStep ==
  ASSUME IngressInv, [IngressNext]_ingressVars
  PROVE  IngressInv' /\ (UnreportedChange => StaleGap)
<1>1. ASSUME NEW t \in IngressThreads, Open(t)
      PROVE  IngressInv' /\ (UnreportedChange => StaleGap)
  <2>1. PICK g \in 0..MaxGeneration :
          LET s == Opened(scope, g) IN Commit(t, s, observed_now, {}, OpenMarks(scope, s))
    BY <1>1 DEF Open
  <2>2. PICK s, marks : s = Opened(scope, g) /\ marks = OpenMarks(scope, s) OBVIOUS
  <2>3. Reports(s, observed_now, {}, marks) BY <2>2, OpenReports
  <2>4. Commit(t, s, observed_now, {}, marks) BY <2>1, <2>2
  <2> QED BY <2>3, <2>4, CommitKeeps
<1>2. ASSUME NEW t \in IngressThreads, Suspend(t)
      PROVE  IngressInv' /\ (UnreportedChange => StaleGap)
  <2>1. PICK s, marks : s = [scope EXCEPT !.lifecycle = "Suspended"] /\ marks = {"readiness"}
    OBVIOUS
  <2>2. scope # NoScope /\ scope.lifecycle \notin {"Suspended", "Closed"} BY <1>2 DEF Suspend
  <2>3. Reports(s, observed_now, {}, marks) BY <2>1, <2>2, SuspendReports
  <2>4. Commit(t, s, observed_now, {}, marks) BY <2>1, <1>2 DEF Suspend
  <2> QED BY <2>3, <2>4, CommitKeeps
<1>3. ASSUME NEW t \in IngressThreads, ReconnectScope(t)
      PROVE  IngressInv' /\ (UnreportedChange => StaleGap)
  <2>1. PICK g \in 0..MaxGeneration :
          LET s == Reconnected(scope, g)
          IN Commit(t, s, observed_now, {}, ReconnectMarks(scope, s))
    BY <1>3 DEF ReconnectScope
  <2>2. PICK s, marks : s = Reconnected(scope, g) /\ marks = ReconnectMarks(scope, s) OBVIOUS
  <2>3. Reports(s, observed_now, {}, marks) BY <2>2, ReconnectReports
  <2>4. Commit(t, s, observed_now, {}, marks) BY <2>1, <2>2
  <2> QED BY <2>3, <2>4, CommitKeeps
<1>4. ASSUME NEW t \in IngressThreads, CloseScope(t)
      PROVE  IngressInv' /\ (UnreportedChange => StaleGap)
  <2>1. PICK s, marks : s = Closed(scope) /\ marks = CloseMarks(scope) OBVIOUS
  <2>2. scope # NoScope /\ scope.lifecycle # "Closed" BY <1>4 DEF CloseScope
  <2>3. Reports(s, observed_now, {}, marks) BY <2>1, <2>2, CloseReports
  <2>4. Commit(t, s, observed_now, {}, marks) BY <2>1, <1>4 DEF CloseScope
  <2> QED BY <2>3, <2>4, CommitKeeps
<1>5. ASSUME NEW t \in IngressThreads, TickScope(t)
      PROVE  IngressInv' /\ (UnreportedChange => StaleGap)
  <2>1. PICK now, marks :
          /\ now = observed_now + 1
          /\ marks = Marked("readiness", readiness(scope, observed_now) # readiness(scope, now))
    OBVIOUS
  <2>2. observed_now < MaxNow BY <1>5 DEF TickScope
  <2>3. Reports(scope, now, {}, marks) BY <2>1, <2>2, TickReports
  <2>4. Commit(t, scope, now, {}, marks) BY <2>1, <1>5 DEF TickScope
  <2> QED BY <2>3, <2>4, CommitKeeps
<1>6. ASSUME NEW t \in IngressThreads, Fail(t)
      PROVE  IngressInv' /\ (UnreportedChange => StaleGap)
  <2>1. PICK known : known = IF scope = NoScope THEN Scope(0) ELSE scope OBVIOUS
  <2>2. PICK s, marks : /\ s = [known EXCEPT !.errors = @ + 1]
                        /\ marks = {"retry"} \cup Marked("readiness", scope = NoScope)
                                             \cup Marked("authority", scope = NoScope)
    OBVIOUS
  <2>3. known.errors < MaxErrors BY <2>1, <1>6 DEF Fail
  <2>4. Reports(s, observed_now, {"errors"}, marks) BY <2>1, <2>2, <2>3, FailReports
  <2>5. Commit(t, s, observed_now, {"errors"}, marks) BY <2>1, <2>2, <1>6 DEF Fail
  <2> QED BY <2>4, <2>5, CommitKeeps
<1>7. ASSUME NEW t \in IngressThreads, Drain(t)
      PROVE  IngressInv' /\ (UnreportedChange => StaleGap)
  <2>1. PICK s, marks : s = [scope EXCEPT !.window = <<>>] /\ marks = {"value"} OBVIOUS
  <2>2. scope # NoScope /\ scope.window # <<>> BY <1>7 DEF Drain
  <2>3. Reports(s, observed_now, {}, marks) BY <2>1, <2>2, DrainReports
  <2>4. Commit(t, s, observed_now, {}, marks) BY <2>1, <1>7 DEF Drain
  <2> QED BY <2>3, <2>4, CommitKeeps
<1>8. ASSUME NEW t \in IngressThreads, Admit(t)
      PROVE  IngressInv' /\ (UnreportedChange => StaleGap)
  <2>1. PICK e \in Envelopes :
          LET known == IF scope = NoScope THEN Scope(e.generation) ELSE scope
              d == decide(known, e)
              taken == d.kind \in {"Buffered", "Delivered"}
          IN Commit(t, IF scope = NoScope /\ ~taken THEN NoScope ELSE d.scope, observed_now,
                    CASE d.kind = "Delivered" -> {"accepted"}
                      [] d.kind \in {"Refuse", "Block"} -> {"dropped"}
                      [] d.kind = "Buffered" -> {},
                    AdmitMarks(scope, d))
    BY <1>8 DEF Admit
  <2>2. PICK known : known = IF scope = NoScope THEN Scope(e.generation) ELSE scope OBVIOUS
  <2>3. PICK d : d = decide(known, e) OBVIOUS
  <2>4. PICK s, pushed, marks : /\ s = AdmittedScope(d) /\ pushed = AdmitReceipts(d)
                                /\ marks = AdmitMarks(scope, d)
    OBVIOUS
  <2>5. Reports(s, observed_now, pushed, marks) BY <2>2, <2>3, <2>4, AdmitReports
  <2>6. Commit(t, s, observed_now, pushed, marks)
    BY <2>1, <2>2, <2>3, <2>4 DEF AdmittedScope, AdmitReceipts, Taken
  <2> QED BY <2>5, <2>6, CommitKeeps
<1>9. ASSUME NEW t \in IngressThreads, ApplyMarks(t)
      PROVE  IngressInv' /\ (UnreportedChange => StaleGap)
  BY <1>9 DEF ApplyMarks, IngressInv, UnreportedChange
<1>10. ASSUME ReadIngress
       PROVE  IngressInv' /\ (UnreportedChange => StaleGap)
  BY <1>10 DEF ReadIngress, IngressInv, UnreportedChange
<1>11. ASSUME UNCHANGED ingressVars
       PROVE  IngressInv' /\ (UnreportedChange => StaleGap)
  BY <1>11 DEF ingressVars, IngressInv, UnreportedChange
<1> QED
  BY <1>1, <1>2, <1>3, <1>4, <1>5, <1>6, <1>7, <1>8, <1>9, <1>10, <1>11 DEF IngressNext

LEMMA IngressInvImplies ==
  ASSUME IngressInv
  PROVE  IngressTypeOK /\ WindowInOrder /\ (RoomToAdmit => WindowReaderCurrent)
<1>1. IngressTypeOK
  <2>1. scope \in IngressScopes \cup {NoScope} BY DEF IngressInv, ScopeSound
  <2> QED BY <2>1 DEF IngressInv, IngressTypeOK, ScopeSound, Bounded
<1>2. WindowInOrder
  <2> SUFFICES ASSUME scope # NoScope
               PROVE  /\ \A i \in 1..(Len(scope.window) - 1) :
                           LET a == scope.window[i]
                               b == scope.window[i + 1]
                           IN (a[1] = b[1] /\ b[2] = a[2] + 1) \/ a[1] < b[1]
                      /\ scope.window # <<>> /\ Delivered(scope) =>
                           scope.window[Len(scope.window)] = <<scope.generation, scope.next - 1>>
                      /\ \A p \in scope.pending : p.sequence > scope.next
    BY DEF WindowInOrder
  <2>1. ScopeSound(overflow, scope) BY DEF IngressInv
  <2> QED BY <2>1 DEF ScopeSound, WindowFolds, Follows
<1>3. RoomToAdmit => WindowReaderCurrent
  BY DEF IngressInv, WindowReaderCurrent, IngressReadersCurrent
<1> QED BY <1>1, <1>2, <1>3

-----------------------------------------------------------------------------
(* The parts together *)

\* A step of ReplicasSpec is a step of each part or leaves it alone.
LEMMA ReplicasStepParts ==
  [ReplicasNext]_replicasVars =>
    /\ [SeqNext]_seqVars /\ [FamilySyncNext]_familySyncVars
    /\ [IngressNext]_ingressVars /\ [CommandNext]_commandVars
    /\ [ClientNext]_clientVars /\ [RoomNext]_roomVars /\ part' = part
<1> SUFFICES ASSUME [ReplicasNext]_replicasVars
             PROVE  /\ [SeqNext]_seqVars /\ [FamilySyncNext]_familySyncVars
                    /\ [IngressNext]_ingressVars /\ [CommandNext]_commandVars
                    /\ [ClientNext]_clientVars /\ [RoomNext]_roomVars /\ part' = part
  OBVIOUS
<1>1. CASE CrdtNext /\ UNCHANGED <<part, foldVars>> BY <1>1 DEF CrdtNext, foldVars
<1>2. CASE FoldNext /\ UNCHANGED <<part, crdtVars>> BY <1>2 DEF FoldNext, crdtVars
<1>3. CASE UNCHANGED replicasVars BY <1>3 DEF replicasVars, crdtVars, foldVars
<1> QED BY <1>1, <1>2, <1>3 DEF ReplicasNext

\* FoldsSound for every set of generations, authorities and messages, every
\* number of positions and every way the transport repeats and reorders them:
\* CommandProjection and ReceiptProjection (command.hpp, receipt.hpp) are
\* functions of what was counted and keep one verdict, and what the durable
\* client (durable_client.hpp) has applied is the gap-free prefix of what came.
THEOREM FoldsAreSound == ReplicasSpec => []FoldsSound
<1> DEFINE FoldsInv == CommandInv /\ ClientInv
<1>1. ReplicasInit => FoldsInv
  BY CommandInvInit, ClientInvInit DEF ReplicasInit
<1>2. FoldsInv /\ [ReplicasNext]_replicasVars => FoldsInv'
  BY ReplicasStepParts, CommandStep, ClientStep
<1>3. FoldsInv => FoldsSound
  BY CommandInvImplies, ClientInvImplies DEF FoldsSound
<1> HIDE DEF FoldsInv
<1> QED BY <1>1, <1>2, <1>3, PTL DEF ReplicasSpec

\* FamiliesAgree for every set of replicas and keys, whichever of them create
\* entries, every reading of the wall clocks and every order, loss and
\* repetition of frames: the members, the epoch and the winners of
\* CrdtPlaneRuntime (command.hpp) are functions of the set of operations that
\* came in, the value of a key is one as long as one replica created the key,
\* and it is the last write as long as the node stands for no other key.
THEOREM FamiliesStayAgreed == ReplicasSpec => []FamiliesAgree
<1>1. ReplicasInit => FamilyInv BY FamilyInvInit DEF ReplicasInit
<1>2. FamilyInv /\ [ReplicasNext]_replicasVars => FamilyInv'
  BY ReplicasStepParts, FamilyStep
<1>3. FamilyInv => FamiliesAgree BY FamiliesFollow, EntriesFollow DEF FamiliesAgree
<1> QED BY <1>1, <1>2, <1>3, PTL DEF ReplicasSpec

\* RoomSound for every set of peers, every number of connections and every
\* mode: a client of signaling.hpp that folds its welcome and its queue knows
\* exactly who else is in the room, through every order of joins, departures
\* and rejoins, and no signal reaches it from somebody it was not told of.
THEOREM RoomIsSound == ReplicasSpec => []RoomSound
<1>1. ReplicasInit => RoomInv BY RoomInvInit DEF ReplicasInit
<1>2. RoomInv /\ [ReplicasNext]_replicasVars => RoomInv'
  BY ReplicasStepParts, RoomStep
<1>3. RoomInv => RoomSound BY DEF RoomInv, RoomSound
<1> QED BY <1>1, <1>2, <1>3, PTL DEF ReplicasSpec

\* IngressSound for every number of callers, every policy that leaves room and
\* every order, repetition and delay of envelopes: the merged window of
\* IngressCore (ingress.hpp) is a fold in order of each generation's payloads,
\* within its bound, and a cached window is the latest one once every caller
\* has cleared what it owes.  A policy that buffers nothing or merges nothing
\* may take a handoff over and refuse its envelope: that reports nothing.
THEOREM IngressIsSound ==
  ASSUME RoomToAdmit
  PROVE  ReplicasSpec => []IngressSound
<1>1. ReplicasInit => IngressInv BY IngressInvInit DEF ReplicasInit
<1>2. IngressInv /\ [ReplicasNext]_replicasVars => IngressInv'
  BY ReplicasStepParts, IngressStep
<1>3. IngressInv => IngressSound BY IngressInvImplies DEF IngressSound
<1> QED BY <1>1, <1>2, <1>3, PTL DEF ReplicasSpec

\* Every call of the ingress cell reports every reader that it changes, under
\* any policy, but for three kinds of call: a handoff of a live scope, the
\* revival of a closed one, and a receipt that evicts another channel's oldest.
THEOREM ReadersGoStaleByGaps == ReplicasSpec => StaleOnlyByGaps
<1>1. ReplicasInit => IngressInv BY IngressInvInit DEF ReplicasInit
<1>2. IngressInv /\ [ReplicasNext]_replicasVars => IngressInv'
  BY ReplicasStepParts, IngressStep
<1>3. IngressInv /\ [ReplicasNext]_replicasVars =>
        [UnreportedChange =>
           \/ scope # NoScope /\ scope'.generation > scope.generation
           \/ scope # NoScope /\ scope.lifecycle = "Closed"
           \/ ingressReader \in ReceiptChannels /\ Len(receipts) = receipt_capacity]_ingressVars
  BY ReplicasStepParts, IngressStep DEF StaleGap
<1> QED BY <1>1, <1>2, <1>3, PTL DEF ReplicasSpec, StaleOnlyByGaps

=============================================================================
