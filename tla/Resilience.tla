----------------------------- MODULE Resilience -----------------------------
(***************************************************************************)
(* The resilience cells: a circuit breaker whose calls answer late and in  *)
(* any order, a deadline that is armed again while an old one runs, a      *)
(* bulkhead, and the delays of a retry policy on words of word_bits bits.  *)
(* A behaviour runs one of them.                                           *)
(***************************************************************************)
EXTENDS Integers, Sequences, SequencesExt, FiniteSets, FiniteSetsExt

CONSTANTS
  window, failure_threshold, reset_timeout,   \* of the breaker
  BreakerCalls,       \* calls, each made once
  bulkhead_capacity,
  BulkheadUsers,      \* callers that hold a permit at most once
  Timeouts,           \* what a deadline may be armed with
  word_bits,          \* 64 in the code
  MaxMoment           \* bound: the latest time

ASSUME ResilienceAssumption ==
  /\ window \in Nat \ {0} /\ failure_threshold \in Nat \ {0} /\ bulkhead_capacity \in Nat

VARIABLES
  guard,           \* the cell that runs
  moment,          \* now
  breaker,         \* BreakerState
  outcomes,        \* outcomes_, TRUE is a success
  open_until,
  breakerCell,     \* the source of the breaker's cell
  pending,         \* calls that were let through and have not answered
  since_closed,    \* the last outcomes recorded since the breaker closed
  deadline, armed, timed_out, timeoutCell,
  edges,           \* edges that tick reported since arm
  users, in_use, bulkheadCell,
  base, cap, attempt, delayCell

breakerVars == <<breaker, outcomes, open_until, breakerCell, pending, since_closed>>
timeoutVars == <<deadline, armed, timed_out, timeoutCell, edges>>
bulkheadVars == <<users, in_use, bulkheadCell>>
retryVars == <<base, cap, attempt, delayCell>>
resilienceVars == <<guard, moment, breakerVars, timeoutVars, bulkheadVars, retryVars>>

Words == 0..(2 ^ word_bits - 1)

ResilienceInit ==
  /\ guard \in {"breaker", "timeout", "bulkhead", "retry"}
  /\ moment = 0
  /\ breaker = "Closed" /\ outcomes = <<>> /\ open_until = 0 /\ breakerCell = "Closed"
  /\ pending = {} /\ since_closed = <<>>
  /\ deadline = 0 /\ armed = FALSE /\ timed_out = FALSE /\ timeoutCell = FALSE /\ edges = 0
  /\ users = {} /\ in_use = 0 /\ bulkheadCell = 0
  /\ base \in (IF guard = "retry" THEN Words ELSE {0})
  /\ cap \in (IF guard = "retry" THEN Words ELSE {0})
  /\ attempt = 0 /\ delayCell = 0

(* The breaker. *)

failures(seq) == Len(SelectSeq(seq, LAMBDA ok : ~ok))

LastOf(seq, n) == IF Len(seq) > n THEN SubSeq(seq, Len(seq) - n + 1, Len(seq)) ELSE seq

Allowed == breaker # "Open" \/ moment >= open_until

\* allow: a call is let through, or told to fail, and nothing else changes.
AllowCall(c) ==
  /\ c \notin pending
  /\ Allowed
  /\ breaker' = IF breaker = "Open" THEN "HalfOpen" ELSE breaker
  /\ breakerCell' = breaker'
  /\ pending' = pending \cup {c}
  /\ UNCHANGED <<outcomes, open_until, since_closed>>

RecordHalfOpen(ok) ==
  /\ breaker = "HalfOpen"
  /\ breaker' = IF ok THEN "Closed" ELSE "Open"
  /\ outcomes' = IF ok THEN <<>> ELSE outcomes
  /\ since_closed' = IF ok THEN <<>> ELSE since_closed
  /\ open_until' = IF ok THEN open_until ELSE moment + reset_timeout

RecordClosed(ok) ==
  LET seen == LastOf(Append(outcomes, ok), window)
      trips == failures(seen) >= failure_threshold
  IN /\ breaker = "Closed"
     /\ outcomes' = seen
     /\ since_closed' = LastOf(Append(since_closed, ok), window)
     /\ breaker' = IF trips THEN "Open" ELSE "Closed"
     /\ open_until' = IF trips THEN moment + reset_timeout ELSE open_until

RecordOpen(ok) == breaker = "Open" /\ UNCHANGED <<breaker, outcomes, open_until, since_closed>>

\* record: whichever call it is that answers.
RecordCall(c, ok) ==
  /\ c \in pending
  /\ RecordHalfOpen(ok) \/ RecordClosed(ok) \/ RecordOpen(ok)
  /\ breakerCell' = breaker'
  /\ pending' = pending \ {c}

(* The deadline. *)

Arm(t) ==
  /\ deadline' = moment + t
  /\ armed' = TRUE /\ timed_out' = FALSE /\ timeoutCell' = FALSE
  /\ edges' = 0

TimeoutTick ==
  LET edge == armed /\ ~timed_out /\ moment >= deadline
  IN /\ timed_out' = (timed_out \/ edge)
     /\ timeoutCell' = timed_out'
     /\ edges' = IF edge THEN edges + 1 ELSE edges
     /\ UNCHANGED <<deadline, armed>>

(* The bulkhead. *)

EnterBulkhead(u) ==
  /\ u \notin users
  /\ in_use' = IF in_use < bulkhead_capacity THEN in_use + 1 ELSE in_use
  /\ users' = IF in_use < bulkhead_capacity THEN users \cup {u} ELSE users
  /\ bulkheadCell' = in_use'

LeaveBulkhead(u) ==
  /\ u \in users
  /\ in_use' = IF in_use > 0 THEN in_use - 1 ELSE in_use
  /\ users' = users \ {u}
  /\ bulkheadCell' = in_use'

(* The retry policy. *)

ShiftLeft(n, k) == (n * 2 ^ k) % 2 ^ word_bits

delay(b, c, k) ==
  IF k >= word_bits \/ ShiftLeft(b, k) \div 2 ^ k # b THEN c ELSE Min({ShiftLeft(b, k), c})

\* The attempt counter saturates; here after the shift does.
next_delay ==
  /\ delayCell' = delay(base, cap, attempt)
  /\ attempt' = Min({attempt + 1, word_bits + 1})
  /\ UNCHANGED <<base, cap>>

ResetRetry == attempt' = 0 /\ delayCell' = 0 /\ UNCHANGED <<base, cap>>

PassTime ==
  /\ guard \in {"breaker", "timeout"} /\ moment < MaxMoment
  /\ moment' = moment + 1
  /\ UNCHANGED <<guard, breakerVars, timeoutVars, bulkheadVars, retryVars>>

ResilienceNext ==
  \/ /\ guard = "breaker"
     /\ \E c \in BreakerCalls : AllowCall(c) \/ \E ok \in BOOLEAN : RecordCall(c, ok)
     /\ UNCHANGED <<guard, moment, timeoutVars, bulkheadVars, retryVars>>
  \/ /\ guard = "timeout"
     /\ TimeoutTick \/ \E t \in Timeouts : Arm(t)
     /\ UNCHANGED <<guard, moment, breakerVars, bulkheadVars, retryVars>>
  \/ /\ guard = "bulkhead"
     /\ \E u \in BulkheadUsers : EnterBulkhead(u) \/ LeaveBulkhead(u)
     /\ UNCHANGED <<guard, moment, breakerVars, timeoutVars, retryVars>>
  \/ /\ guard = "retry"
     /\ next_delay \/ ResetRetry
     /\ UNCHANGED <<guard, moment, breakerVars, timeoutVars, bulkheadVars>>
  \/ PassTime

ResilienceSpec == ResilienceInit /\ [][ResilienceNext]_resilienceVars

-----------------------------------------------------------------------------

\* Guards keep what they promise while calls overlap: a closed breaker has seen
\* fewer failures than its threshold among its last outcomes since it closed; a
\* deadline reports one edge after each arm, not before its time; the bulkhead
\* counts its holders and admits no more than its capacity.  How many calls a
\* half-open breaker lets through is not bounded by the code: every caller that
\* asks before one has answered is let through, where the comment of HalfOpen
\* speaks of a single probe.
GuardsHold ==
  /\ breaker = "Closed" => failures(since_closed) < failure_threshold
  /\ breakerCell = breaker
  /\ edges = (IF timed_out THEN 1 ELSE 0) /\ (timed_out => moment >= deadline)
  /\ in_use = Cardinality(users) /\ in_use <= bulkhead_capacity /\ bulkheadCell = in_use

\* The delay of an attempt is the base doubled so many times, up to the cap,
\* though the shift overflows the word.  A shift by the whole word gives the cap
\* whatever the base is, also to a base of 0, which the formula of the class
\* comment, min(cap, base * 2^attempt), would leave at 0.
DelaysExact ==
  delay(base, cap, attempt) =
    IF base = 0 /\ attempt >= word_bits THEN cap ELSE Min({cap, base * 2 ^ attempt})

=============================================================================
