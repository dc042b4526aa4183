----------------------------- MODULE Deadlines -----------------------------
(***************************************************************************)
(* The waits of stdlib.hpp: Timer, Timeout and RevisionBarrier.  Each      *)
(* latches one terminal verdict under its mutex, whatever clock its        *)
(* callers read.  RevisionBarrier::observe lets the mutex go around the    *)
(* caller's cancellation(), so it is two steps; every other call is one.   *)
(***************************************************************************)
EXTENDS Integers, FiniteSets

CONSTANTS
  Waiters,             \* the threads that call
  max_word,            \* the largest clock value
  Durations,           \* the durations a wait is started with
  required_revision,
  MaxRevision,         \* bound on the revisions that are announced
  NoDeadline,          \* no deadline: a barrier without one, or an overflow
  Open                 \* terminal_ is empty

Outcomes ==
  {"fired", "timed_out", "completed", "satisfied", "cancelled", "disposed", "unavailable"}

ASSUME DeadlinesAssumption ==
  /\ max_word \in Nat /\ Durations \subseteq 0 .. max_word
  /\ required_revision \in Nat /\ MaxRevision \in Nat
  /\ NoDeadline \notin 0 .. max_word
  /\ Open \notin [outcome : Outcomes, at : 0 .. max_word]

VARIABLES
  wait,      \* the object: kind, deadline, last_now, terminal, revision, generation
  asking,    \* the threads inside cancellation(), the mutex released
  verdicts   \* history: the terminal observations callers were given

deadlineVars == <<wait, asking, verdicts>>

Moments == 0 .. max_word
Never == -1   \* last_now_ of a barrier that was not observed yet
Cancellations == {"pending", "cancelled", "unavailable"}
Operations == {"pending", "completed", "unavailable"}

-----------------------------------------------------------------------------
\* The deadline, unless it does not fit in a word.
checked_deadline(now, duration) ==
  IF duration > max_word - now THEN NoDeadline ELSE now + duration

New(kind, now, deadline) ==
  [kind |-> kind, deadline |-> deadline, last_now |-> now,
   terminal |-> Open, revision |-> 0, generation |-> 0]

\* start hands out no object when the deadline overflows.
Started ==
  {New(kind, now, checked_deadline(now, d)) :
     kind \in {"timer", "timeout"}, now \in Moments, d \in Durations}

DeadlinesInit ==
  /\ \/ wait \in {w \in Started : w.deadline # NoDeadline}
     \/ wait \in {New("barrier", Never, d) : d \in Moments \cup {NoDeadline}}
  /\ asking = {} /\ verdicts = {}

\* The call returns: a caller is told of the verdict, if there is one.
Told(w) ==
  /\ wait' = w
  /\ verdicts' = IF w.terminal = Open THEN verdicts
                 ELSE verdicts \cup {[verdict |-> w.terminal, revision |-> w.revision,
                                      generation |-> w.generation]}

latch(w, outcome, at) == [w EXCEPT !.terminal = [outcome |-> outcome, at |-> at]]

Reached(w, now) == w.deadline # NoDeadline /\ now >= w.deadline

-----------------------------------------------------------------------------
\* A timer that has fired keeps saying when; a clock that goes back is refused
\* and latches nothing.
Observe(now) ==
  /\ wait.kind = "timer"
  /\ Told(IF wait.terminal # Open \/ now < wait.last_now THEN wait
          ELSE LET seen == [wait EXCEPT !.last_now = now]
               IN IF Reached(seen, now) THEN latch(seen, "fired", now) ELSE seen)
  /\ UNCHANGED asking

\* Before the deadline the operation is asked first, then the cancellation;
\* both are called with the mutex held.
Outcome(op, cancel) ==
  IF op # "pending" THEN op ELSE cancel

PollTimeout(now, op, cancel) ==
  /\ wait.kind = "timeout"
  /\ Told(IF wait.terminal # Open THEN wait
          ELSE IF now < wait.last_now THEN latch(wait, "unavailable", 0)
          ELSE LET seen == [wait EXCEPT !.last_now = now]
               IN IF Reached(seen, now) THEN latch(seen, "timed_out", 0)
                  ELSE IF Outcome(op, cancel) = "pending" THEN seen
                  ELSE latch(seen, Outcome(op, cancel), 0))
  /\ UNCHANGED asking

-----------------------------------------------------------------------------
(* RevisionBarrier.                                                        *)

accept_revision(w, revision) ==
  IF revision > w.revision
  THEN [w EXCEPT !.revision = revision, !.generation = @ + 1] ELSE w

\* accept_now and the deadline, in this order; open when neither ends the wait.
TimeChecked(w, now) ==
  IF now < w.last_now THEN latch(w, "unavailable", 0)
  ELSE LET seen == [w EXCEPT !.last_now = now]
       IN IF Reached(seen, now) THEN latch(seen, "timed_out", 0) ELSE seen

Satisfied(w, predicate) ==
  IF predicate /\ w.revision >= required_revision THEN latch(w, "satisfied", 0) ELSE w

\* The first half of observe: up to the unlock, or to the verdict.
ObserveBarrier(t, now, predicate) ==
  /\ wait.kind = "barrier" /\ t \notin asking
  /\ LET checked == TimeChecked(wait, now)
         w == IF wait.terminal # Open THEN wait
              ELSE IF checked.terminal # Open THEN checked
              ELSE Satisfied(checked, predicate)
     IN /\ Told(w)
        /\ asking' = IF w.terminal = Open THEN asking \cup {t} ELSE asking

\* The second half: a verdict that came meanwhile stands.
AnswerCancellation(t, cancel) ==
  /\ t \in asking
  /\ asking' = asking \ {t}
  /\ Told(IF wait.terminal # Open \/ cancel = "pending" THEN wait ELSE latch(wait, cancel, 0))

RegisterRecheck(t, now, revision, predicate) ==
  /\ wait.kind = "barrier" /\ t \notin asking
  /\ LET checked == TimeChecked(wait, now)
     IN Told(IF wait.terminal # Open THEN wait
             ELSE IF checked.terminal # Open THEN checked
             ELSE Satisfied(accept_revision(checked, revision), predicate))
  /\ UNCHANGED asking

AdvanceRevision(t, revision, predicate) ==
  /\ wait.kind = "barrier" /\ t \notin asking
  /\ Told(IF wait.terminal # Open THEN wait
          ELSE Satisfied(accept_revision(wait, revision), predicate))
  /\ UNCHANGED asking

Dispose(t) ==
  /\ wait.kind = "barrier" /\ t \notin asking
  /\ Told(IF wait.terminal # Open THEN wait ELSE latch(wait, "disposed", 0))
  /\ UNCHANGED asking

\* receipt only reports.
Receipt(t) ==
  /\ wait.kind = "barrier" /\ t \notin asking
  /\ Told(wait) /\ UNCHANGED asking

DeadlinesNext ==
  \/ \E now \in Moments :
       \/ Observe(now)
       \/ \E op \in Operations, cancel \in Cancellations : PollTimeout(now, op, cancel)
       \/ \E t \in Waiters, predicate \in BOOLEAN :
            \/ ObserveBarrier(t, now, predicate)
            \/ \E r \in 0 .. MaxRevision : RegisterRecheck(t, now, r, predicate)
  \/ \E t \in Waiters :
       \/ \E cancel \in Cancellations : AnswerCancellation(t, cancel)
       \/ \E r \in 0 .. MaxRevision, predicate \in BOOLEAN : AdvanceRevision(t, r, predicate)
       \/ Dispose(t) \/ Receipt(t)

-----------------------------------------------------------------------------
\* Whoever asks, in whatever order and by whatever clock, and however late an
\* answer of cancellation() comes: all callers hear one verdict, with one
\* revision and generation; a wait ends by time only when an accepted clock
\* reached the deadline, and in no other way once one has; a barrier is
\* satisfied only at its revision.
VerdictsStand ==
  /\ Cardinality(verdicts) <= 1
  /\ \A v \in verdicts : v.verdict = wait.terminal /\ v.revision = wait.revision
  /\ wait.terminal # Open =>
       /\ wait.terminal.outcome \in {"fired", "timed_out"} => Reached(wait, wait.last_now)
       /\ wait.terminal.outcome \in {"completed", "satisfied", "cancelled", "disposed"} =>
            ~Reached(wait, wait.last_now)
       /\ wait.terminal.outcome = "fired" => wait.terminal.at = wait.last_now
       /\ wait.terminal.outcome = "satisfied" => wait.revision >= required_revision
  /\ wait.generation <= wait.revision /\ (wait.generation = 0 <=> wait.revision = 0)

=============================================================================
