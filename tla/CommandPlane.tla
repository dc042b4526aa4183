---------------------------- MODULE CommandPlane ----------------------------
(***************************************************************************)
(* One command as an observer folds it: CommandProjection and              *)
(* ReceiptProjection, fed by a transport that delays, reorders, repeats    *)
(* and loses submits, cancels, events, receipts and projection images.     *)
(* Authorities of several generations speak about the command, and within  *)
(* a generation two of them may contradict each other.                     *)
(***************************************************************************)
EXTENDS Integers, FiniteSets

CONSTANTS
  Generations,       \* authority generations
  MaxImages,         \* bound: images taken
  MaxMessages,       \* bound: events and receipts that were counted
  NoEntry            \* stands for a command or receipt that is not known

Terminals == {"Applied", "Rejected", "Cancelled"}

phase_rank(s) ==
  CASE s = "Submitted" -> 0
    [] s = "Accepted" -> 1
    [] s = "Running" -> 2
    [] s \in Terminals -> 3

\* The messages that may be underway.  An id names one message: events and
\* receipts are known by kind and generation.
Submits == [type : {"submit", "cancel"}, generation : Generations]
Events == [type : {"event"}, kind : {"Accepted", "Started", "TimedOut"}, generation : Generations]
Receipts == [type : {"receipt"}, outcome : {"Accepted", "Applied", "Rejected"},
             reason : {"none", "cancelled"}, generation : Generations]

\* What entries_ may hold of the command.
CommandEntries ==
  [status : {"Submitted", "Accepted", "Running"} \cup Terminals, terminal : BOOLEAN,
   generation : Generations]

\* Generations are unsigned, and an unknown command is no entry and no outcome.
ASSUME CommandAssumption ==
  /\ Generations \subseteq Nat
  /\ NoEntry \notin CommandEntries
  /\ NoEntry \notin {"Applied", "Rejected"}

VARIABLES
  generation,    \* CommandProjection::generation_
  entry,         \* CommandProjection::entries_ at the command
  seen,          \* seen_event_ids_ and seen_receipt_ids_
  conflict,      \* whether conflicts_ holds the command
  receipts_by_id, \* ReceiptProjection::receipts_by_id_ of the command
  stale,         \* ReceiptProjection::stale_receipt_ids_
  latest,        \* ReceiptProjection::latest_by_causation_
  terminal,      \* ReceiptProjection::terminal_by_causation_
  images,        \* the images underway
  imaged         \* whether an image has replaced the entry

commandVars == <<generation, entry, seen, conflict, receipts_by_id, stale, latest, terminal, images, imaged>>

CommandInit ==
  /\ generation = 0
  /\ entry = NoEntry
  /\ seen = {}
  /\ conflict = FALSE
  /\ receipts_by_id = {}
  /\ stale = {}
  /\ latest = NoEntry
  /\ terminal = NoEntry
  /\ images = {}
  /\ imaged = FALSE

MaxOf(a, b) == IF a > b THEN a ELSE b

\* The events and receipts that count so far stay within the bound.
WithinBound(m) == Cardinality(seen \cup receipts_by_id \cup stale \cup {m}) <= MaxMessages

\* submit: the first one makes the entry, every other is a duplicate.
Submit(m) ==
  /\ m.type = "submit"
  /\ entry = NoEntry
  /\ generation' = MaxOf(generation, m.generation)
  /\ entry' = [status |-> "Submitted", terminal |-> FALSE, generation |-> m.generation]
  /\ UNCHANGED <<seen, conflict, receipts_by_id, stale, latest, terminal, images, imaged>>

\* cancel answers with a status and changes nothing.
Cancel(m) ==
  /\ m.type = "cancel"
  /\ UNCHANGED commandVars

progress_status_of(kind) ==
  CASE kind = "Accepted" -> "Accepted"
    [] kind = "Started" -> "Running"
    [] kind = "TimedOut" -> "Submitted"

\* Mutant: an event that comes late puts the status back.
ProgressAsTold(e, kind) ==
  IF ~e.terminal /\ progress_status_of(kind) # "Submitted"
  THEN [e EXCEPT !.status = progress_status_of(kind)] ELSE e

Progressed(e, kind) ==
  LET status == progress_status_of(kind)
  IN IF ~e.terminal /\ status # "Submitted" /\ phase_rank(status) >= phase_rank(e.status)
     THEN [e EXCEPT !.status = status] ELSE e

\* apply_events, one event; the events of a frame are folded one by one.
ApplyEvent(m) ==
  /\ m.type = "event" /\ WithinBound(m)
  /\ entry # NoEntry /\ m \notin seen /\ m.generation = entry.generation
  /\ seen' = seen \cup {m}
  /\ entry' = Progressed(entry, m.kind)
  /\ UNCHANGED <<generation, conflict, receipts_by_id, stale, latest, terminal, images, imaged>>

is_terminal(m) == m.outcome \in {"Applied", "Rejected"}

terminal_status_of(m) ==
  CASE m.outcome = "Applied" -> "Applied"
    [] m.outcome = "Rejected" /\ m.reason = "cancelled" -> "Cancelled"
    [] m.outcome = "Rejected" /\ m.reason = "none" -> "Rejected"

\* CommandProjection::observe_receipt.
ObserveReceipt(m) ==
  IF entry = NoEntry \/ m \in seen \/ m.generation # entry.generation
  THEN UNCHANGED <<seen, entry, conflict>>
  ELSE /\ seen' = seen \cup {m}
       /\ LET contradicts == /\ entry.status \in Terminals
                             /\ entry.status # terminal_status_of(m)
          IN IF ~is_terminal(m) THEN UNCHANGED <<entry, conflict>>
             ELSE IF contradicts
             THEN conflict' = TRUE /\ UNCHANGED entry
             ELSE /\ entry' = [entry EXCEPT !.status = terminal_status_of(m), !.terminal = TRUE]
                  /\ UNCHANGED conflict

ContradictsTerminal(m) ==
  is_terminal(m) /\ terminal # NoEntry /\ terminal # m.outcome

\* ReceiptProjection::observe, with the generation the caller holds current.
RecordReceipt(m) ==
  LET current == generation
  IN IF m \in receipts_by_id \cup stale THEN UNCHANGED <<receipts_by_id, stale, latest, terminal>>
     ELSE IF current > 0 /\ m.generation # current
     THEN stale' = stale \cup {m} /\ UNCHANGED <<receipts_by_id, latest, terminal>>
     ELSE IF ContradictsTerminal(m) THEN UNCHANGED <<receipts_by_id, stale, latest, terminal>>
     ELSE /\ receipts_by_id' = receipts_by_id \cup {m}
          /\ latest' = m
          /\ terminal' = IF is_terminal(m) /\ terminal = NoEntry THEN m.outcome ELSE terminal
          /\ UNCHANGED stale

TakeReceipt(m) ==
  /\ m.type = "receipt" /\ WithinBound(m)
  /\ m.outcome # "Rejected" => m.reason = "none"
  /\ ObserveReceipt(m)
  /\ RecordReceipt(m)
  /\ UNCHANGED <<generation, images, imaged>>

\* to_image of an observer, put on the wire.
TakeImage ==
  /\ entry # NoEntry
  /\ Cardinality(images) < MaxImages
  /\ images' = images \cup {[generation |-> generation, entry |-> entry]}
  /\ UNCHANGED <<generation, entry, seen, conflict, receipts_by_id, stale, latest, terminal, imaged>>

\* apply_projection: the entry of the image replaces the one at hand.
ApplyProjection ==
  \E i \in images :
    /\ generation' = MaxOf(generation, i.generation)
    /\ entry' = i.entry
    /\ imaged' = TRUE
    /\ UNCHANGED <<seen, conflict, receipts_by_id, stale, latest, terminal, images>>

CommandNext ==
  \/ \E m \in Submits : Submit(m) \/ Cancel(m)
  \/ \E m \in Events : ApplyEvent(m)
  \/ \E m \in Receipts : TakeReceipt(m)
  \/ TakeImage \/ ApplyProjection

CommandSpec == CommandInit /\ [][CommandNext]_commandVars

-----------------------------------------------------------------------------

Rank(e) == phase_rank(progress_status_of(e.kind))

\* The fold does not depend on the order of delivery.  While no image was put
\* in its place, the entry is what the set of counted messages says: a
\* contradiction is flagged exactly when two terminal receipts disagree, a
\* terminal receipt beats all progress, and progress is the furthest told.
CommandFoldsSeen ==
  entry # NoEntry /\ ~imaged =>
    LET verdicts == {terminal_status_of(m) : m \in {r \in seen \cap Receipts : is_terminal(r)}}
        told == {phase_rank("Submitted")} \cup {Rank(m) : m \in seen \cap Events}
    IN /\ conflict <=> Cardinality(verdicts) > 1
       /\ entry.terminal <=> verdicts # {}
       /\ verdicts # {} => entry.status \in verdicts
       /\ verdicts = {} => phase_rank(entry.status) \in told
                          /\ \A n \in told : n <= phase_rank(entry.status)

\* The receipts kept for a command hold one verdict, however many authorities
\* answered and in whatever order: terminal_by_causation_ is the outcome of
\* every terminal receipt recorded.
OneVerdict == \A m \in receipts_by_id : is_terminal(m) => m.outcome = terminal

\* terminal_for answers with the receipt that closed the command: it returns
\* the latest receipt once a terminal outcome is known.
TerminalForIsTerminal == terminal # NoEntry => is_terminal(latest)

=============================================================================
