------------------------------ MODULE Ingress ------------------------------
(***************************************************************************)
(* One keyed scope of BasicIngressCell: the admission algebra of           *)
(* IngressCore and the shell that clears readers from what the core        *)
(* reports.  A call commits under core_mutex and clears readers in one     *)
(* batch after it released the mutex, so other threads' calls come in      *)
(* between.  A payload is the generation and the sequence it was sent      *)
(* with, and the merged window the sequence of its payloads, so the window *)
(* shows what was folded and in which order.                               *)
(***************************************************************************)
EXTENDS Integers, Sequences, FiniteSets, FiniteSetsExt

CONSTANTS
  IngressThreads,     \* callers of the cell
  MaxGeneration,      \* bound: generations are 0..MaxGeneration
  MaxSequence,        \* bound: sequences are 0..MaxSequence
  MaxNow,             \* bound: stamps and clock are 0..MaxNow
  MaxErrors,          \* bound: errors in a row that are recorded
  reorder_window, freshness_horizon, high_water, receipt_capacity,  \* IngressPolicy
  Overflows,          \* the overflow policies the cell may be built with
  WatchedReaders,     \* the readers whose cache is followed
  NoScope             \* stands for a key without a scope

ScopeReaders == {"value", "readiness", "authority", "retry"}
ReceiptChannels == {"accepted", "dropped", "errors"}

\* What a scope may be: a buffered envelope has its sequence and its stamp, a
\* merged one its generation and its sequence.
IngressScopes ==
  [lifecycle : {"Opening", "Live", "Suspended", "Closed"}, generation : 0..MaxGeneration,
   next : 0..(MaxSequence + 1), stamped_at : 0..MaxNow,
   pending : SUBSET [sequence : 0..MaxSequence, stamped_at : 0..MaxNow],
   window : Seq((0..MaxGeneration) \X (0..MaxSequence)), errors : 0..MaxErrors]

\* The parameters are unsigned, some receipt is kept, and NoScope is no scope.
ASSUME IngressAssumption ==
  /\ {MaxGeneration, MaxSequence, MaxNow, MaxErrors} \subseteq Nat
  /\ {reorder_window, freshness_horizon, high_water} \subseteq Nat
  /\ receipt_capacity \in Nat \ {0}
  /\ Overflows \subseteq {"Block", "DropNewest", "DropOldest", "Conflate", "Spill"}
  /\ WatchedReaders \subseteq ScopeReaders \cup ReceiptChannels
  /\ NoScope \notin IngressScopes

VARIABLES
  scope,         \* IngressCore::scopes_ at the key
  observed_now,  \* IngressCore::observed_now_
  receipts,      \* IngressCore::receipts_, as the channels of its receipts
  overflow,      \* IngressPolicy::overflow
  ingressReader, \* the reader this behaviour watches
  ingressShown,  \* its cache: "absent", "current", or "stale"
  ingressOwes    \* threads that committed and have yet to clear that reader

ingressVars == <<scope, observed_now, receipts, overflow, ingressReader,
                 ingressShown, ingressOwes>>

Scope(generation) ==
  [lifecycle |-> "Opening", generation |-> generation, next |-> 0,
   stamped_at |-> 0, pending |-> {}, window |-> <<>>, errors |-> 0]

\* next is delivered_through + 1, and 0 while nothing is delivered.
Delivered(s) == s.next > 0

live_or_opening(s) == IF Delivered(s) THEN "Live" ELSE "Opening"

IngressInit ==
  /\ scope = NoScope
  /\ observed_now = 0
  /\ receipts = <<>>
  /\ overflow \in Overflows
  /\ ingressReader \in WatchedReaders
  /\ ingressShown = "absent"
  /\ ingressOwes = {}

(* The derived values of IngressScopeView. *)

Age(now, stamp) == IF now > stamp THEN now - stamp ELSE 0

readiness(s, now) ==
  CASE s = NoScope -> "Unknown"
    [] s # NoScope /\ s.lifecycle \in {"Closed", "Suspended"} -> s.lifecycle
    [] s # NoScope /\ s.lifecycle \in {"Opening", "Live"} ->
         IF s.lifecycle = "Opening" \/ ~Delivered(s) THEN "Warming"
         ELSE IF Age(now, s.stamped_at) <= freshness_horizon THEN "Ready" ELSE "Stale"

authority(s) ==
  IF s = NoScope \/ s.lifecycle = "Closed" THEN NoScope
  ELSE <<s.generation, s.next, s.stamped_at>>

retry(s) ==
  IF s = NoScope \/ s.errors = 0 THEN NoScope ELSE <<s.errors, s.next>>

peek(s) == IF s = NoScope THEN <<>> ELSE s.window

ScopeView(r, s, now) ==
  CASE r = "value"     -> peek(s)
    [] r = "readiness" -> readiness(s, now)
    [] r = "authority" -> authority(s)
    [] r = "retry"     -> retry(s)

(* The calls: what each makes of the scope, and which readers it reports. *)

creation == {"readiness", "authority"}

Marked(r, condition) == IF condition THEN {r} ELSE {}

\* A handoff to a later generation that keeps what is merged.
Refenced(s, generation) ==
  [s EXCEPT !.generation = generation, !.next = 0, !.pending = {}]

\* The handoff of reconnect and admit: the merged window goes too.
HandedOff(s, generation) == [Refenced(s, generation) EXCEPT !.window = <<>>]

Opened(s, generation) ==
  IF s = NoScope \/ s.lifecycle = "Closed" THEN Scope(generation)
  ELSE LET revived == [s EXCEPT !.lifecycle = live_or_opening(s)]
       IN IF generation > s.generation THEN Refenced(revived, generation) ELSE revived

OpenMarks(s, t) ==
  IF s = NoScope THEN creation
  ELSE IF <<s.lifecycle, s.generation, s.next>> = <<t.lifecycle, t.generation, t.next>> THEN {}
  ELSE {"authority"} \cup Marked("readiness", s.lifecycle # t.lifecycle)

Reconnected(s, generation) ==
  LET known == IF s = NoScope THEN Scope(generation) ELSE s
      fenced == IF generation > known.generation THEN HandedOff(known, generation) ELSE known
  IN [fenced EXCEPT !.lifecycle = live_or_opening(fenced), !.errors = 0]

ReconnectMarks(s, t) ==
  IF s = NoScope THEN creation
  ELSE Marked("value", t.generation > s.generation /\ s.window # <<>>)
       \cup Marked("readiness", s.lifecycle # t.lifecycle)
       \cup Marked("authority", t.generation > s.generation)
       \cup Marked("retry", s.errors > 0)

Closed(s) ==
  [s EXCEPT !.lifecycle = "Closed", !.pending = {}, !.window = <<>>, !.errors = 0]

CloseMarks(s) ==
  {"readiness", "authority"} \cup Marked("value", s.window # <<>>)
                             \cup Marked("retry", s.errors > 0)

Expired(now, e) == Age(now, e.stamped_at) > freshness_horizon

Buffers(s, e) == \E p \in s.pending : p.sequence = e.sequence

\* The last sequence that can be delivered now that e is: e, and the buffered
\* envelopes that follow it without a gap.
FlushedThrough(s, e) ==
  Max({n \in e.sequence..MaxSequence :
         \A i \in (e.sequence + 1)..n : \E p \in s.pending : p.sequence = i})

\* merge_into for e and for each buffered successor, in the order of sequences.
Merged(s, e) ==
  LET last == FlushedThrough(s, e)
      flushed == {p \in s.pending : p.sequence \in (e.sequence + 1)..last}
  IN [s EXCEPT !.window = @ \o [i \in 1..(last - e.sequence + 1) |->
                                  <<s.generation, e.sequence + i - 1>>],
               !.stamped_at = Max({@, e.stamped_at} \cup {p.stamped_at : p \in flushed}),
               !.pending = @ \ flushed,
               !.next = last + 1,
               !.lifecycle = "Live",
               !.errors = 0]

\* What the overflow policy does to an envelope that is next in order.
Admitted(s, e) ==
  IF Len(s.window) < high_water THEN [kind |-> "Delivered", scope |-> Merged(s, e)]
  ELSE CASE overflow = "Block" -> [kind |-> "Block", scope |-> s]
         [] overflow = "DropNewest" -> [kind |-> "Refuse", scope |-> s]
         [] overflow = "DropOldest" ->
              [kind |-> "Delivered", scope |-> Merged([s EXCEPT !.window = <<>>], e)]
         [] overflow \in {"Conflate", "Spill"} ->
              [kind |-> "Delivered", scope |-> Merged(s, e)]

\* Mutant: a sequence that was delivered is taken once more.
InOrderOrBefore(s, e) == e.sequence <= s.next

InOrder(s, e) == e.sequence = s.next

\* decide: lifecycle, fence, freshness, handoff, dedupe, ordering, backpressure.
decide(s, e) ==
  IF \/ s.lifecycle = "Closed"
     \/ e.generation < s.generation
     \/ Expired(observed_now, e)
  THEN [kind |-> "Refuse", scope |-> s]
  ELSE LET f == IF e.generation > s.generation THEN HandedOff(s, e.generation) ELSE s
       IN IF InOrder(f, e) THEN Admitted(f, e)
          ELSE IF \/ e.sequence < f.next
                  \/ Buffers(f, e)
                  \/ Cardinality(f.pending) >= reorder_window
          THEN [kind |-> "Refuse", scope |-> f]
          ELSE [kind |-> "Buffered",
                scope |-> [f EXCEPT !.pending = @ \cup {[sequence |-> e.sequence,
                                                         stamped_at |-> e.stamped_at]}]]

\* The diff of the two stamps that admit takes around a buffered envelope.
BufferMarks(s, t) ==
  IF s = NoScope THEN creation
  ELSE Marked("value", (s.window = <<>>) # (t.window = <<>>))
       \cup Marked("readiness", s.lifecycle # t.lifecycle \/ Delivered(s) # Delivered(t))
       \cup Marked("authority", s.generation # t.generation \/ s.next # t.next)

AdmitMarks(s, d) ==
  CASE d.kind = "Delivered" -> ScopeReaders
    [] d.kind = "Buffered" -> BufferMarks(s, d.scope)
    [] d.kind \in {"Refuse", "Block"} -> {}

\* push_receipt: the oldest receipt makes room, whatever its channel.
Logged(channel) ==
  LET log == Append(receipts, channel)
  IN IF Len(log) > receipt_capacity THEN Tail(log) ELSE log

\* The commit of a call by thread t: the scope becomes s, the clock now, the
\* channels in pushed (one at most) get a receipt, and marks are the scope
\* readers reported.  The watched reader goes stale when what it shows changes.
Commit(t, s, now, pushed, marks) ==
  LET log == IF pushed = {} THEN receipts ELSE Logged(CHOOSE c \in pushed : TRUE)
      evicted == IF pushed # {} /\ Len(receipts) = receipt_capacity
                 THEN {Head(receipts)} ELSE {}
      changed == IF ingressReader \in ScopeReaders
                 THEN ScopeView(ingressReader, scope, observed_now)
                        # ScopeView(ingressReader, s, now)
                 ELSE ingressReader \in pushed \cup evicted
  IN /\ t \notin ingressOwes
     /\ scope' = s
     /\ observed_now' = now
     /\ receipts' = log
     /\ ingressOwes' = IF ingressReader \in marks \cup pushed
                       THEN ingressOwes \cup {t} ELSE ingressOwes
     /\ ingressShown' = IF ingressShown = "current" /\ changed THEN "stale" ELSE ingressShown
     /\ UNCHANGED <<overflow, ingressReader>>

Open(t) ==
  \E g \in 0..MaxGeneration :
    LET s == Opened(scope, g) IN Commit(t, s, observed_now, {}, OpenMarks(scope, s))

Suspend(t) ==
  /\ scope # NoScope /\ scope.lifecycle \notin {"Suspended", "Closed"}
  /\ Commit(t, [scope EXCEPT !.lifecycle = "Suspended"], observed_now, {}, {"readiness"})

ReconnectScope(t) ==
  \E g \in 0..MaxGeneration :
    LET s == Reconnected(scope, g)
    IN Commit(t, s, observed_now, {}, ReconnectMarks(scope, s))

CloseScope(t) ==
  /\ scope # NoScope /\ scope.lifecycle # "Closed"
  /\ Commit(t, Closed(scope), observed_now, {}, CloseMarks(scope))

\* Time goes forward in the callers' clock; tick only compares for equality.
TickScope(t) ==
  /\ observed_now < MaxNow
  /\ LET now == observed_now + 1
     IN Commit(t, scope, now, {},
               Marked("readiness", readiness(scope, observed_now) # readiness(scope, now)))

Fail(t) ==
  LET known == IF scope = NoScope THEN Scope(0) ELSE scope
  IN /\ known.errors < MaxErrors
     /\ Commit(t, [known EXCEPT !.errors = @ + 1], observed_now, {"errors"},
               {"retry"} \cup Marked("readiness", scope = NoScope)
                         \cup Marked("authority", scope = NoScope))

Drain(t) ==
  /\ scope # NoScope /\ scope.window # <<>>
  /\ Commit(t, [scope EXCEPT !.window = <<>>], observed_now, {}, {"value"})

Envelopes ==
  [generation : 0..MaxGeneration, sequence : 0..MaxSequence, stamped_at : 0..MaxNow]

Admit(t) ==
  \E e \in Envelopes :
    LET known == IF scope = NoScope THEN Scope(e.generation) ELSE scope
        d == decide(known, e)
        taken == d.kind \in {"Buffered", "Delivered"}
    IN Commit(t, IF scope = NoScope /\ ~taken THEN NoScope ELSE d.scope, observed_now,
              CASE d.kind = "Delivered" -> {"accepted"}
                [] d.kind \in {"Refuse", "Block"} -> {"dropped"}
                [] d.kind = "Buffered" -> {},
              AdmitMarks(scope, d))

\* The batch of apply, after the commit of t.
ApplyMarks(t) ==
  /\ t \in ingressOwes
  /\ ingressOwes' = ingressOwes \ {t}
  /\ ingressShown' = "absent"
  /\ UNCHANGED <<scope, observed_now, receipts, overflow, ingressReader>>

\* A read fills the cache; it returns what the cache holds, current or not.
ReadIngress ==
  /\ ingressShown = "absent"
  /\ ingressShown' = "current"
  /\ UNCHANGED <<scope, observed_now, receipts, overflow, ingressReader, ingressOwes>>

IngressNext ==
  \/ \E t \in IngressThreads :
       \/ Open(t) \/ Suspend(t) \/ ReconnectScope(t) \/ CloseScope(t) \/ TickScope(t)
       \/ Fail(t) \/ Drain(t) \/ Admit(t) \/ ApplyMarks(t)
  \/ ReadIngress

IngressSpec == IngressInit /\ [][IngressNext]_ingressVars

-----------------------------------------------------------------------------

\* The variables have their types, and buffers and logs keep their bounds: the
\* reorder buffer its window, the merged window high_water and one flush, unless
\* it may conflate.
IngressTypeOK ==
  /\ scope \in IngressScopes \cup {NoScope}
  /\ scope # NoScope =>
       /\ Cardinality(scope.pending) <= reorder_window
       /\ overflow \notin {"Conflate", "Spill"} =>
            Len(scope.window) <= Max({high_water, 1}) + reorder_window
  /\ observed_now \in 0..MaxNow
  /\ receipts \in Seq(ReceiptChannels) /\ Len(receipts) <= receipt_capacity
  /\ ingressOwes \subseteq IngressThreads

\* The merged window is a fold of envelopes in order, each of them once and
\* none skipped, whatever was delivered late, twice or out of order, handed
\* over to another generation or dropped for room; what is buffered lies
\* beyond a gap.
WindowInOrder ==
  scope # NoScope =>
    /\ \A i \in 1..(Len(scope.window) - 1) :
         LET a == scope.window[i]
             b == scope.window[i + 1]
         IN (a[1] = b[1] /\ b[2] = a[2] + 1) \/ a[1] < b[1]
    /\ scope.window # <<>> /\ Delivered(scope) =>
         scope.window[Len(scope.window)] = <<scope.generation, scope.next - 1>>
    /\ \A p \in scope.pending : p.sequence > scope.next

\* With no clear outstanding, the watched reader does not show what no longer
\* holds.
IngressReadersCurrent == ingressOwes = {} => ingressShown # "stale"

\* A cached merged window is the window, unless a call that changed it is still
\* to clear it: the core reports every change of the window, in a delivery, a
\* drain, a close, and a handoff that only buffers.
WindowReaderCurrent == ingressReader = "value" => IngressReadersCurrent

\* A call makes what the watched reader shows out of date and does not report it.
UnreportedChange ==
  /\ ingressShown = "current" /\ ingressShown' = "stale"
  /\ ingressOwes' = ingressOwes

\* The other readers are reported too, but for three kinds of call: one that
\* takes a live scope over to a later generation, one that revives a closed
\* scope, and one whose receipt pushes the oldest out of another channel.
StaleOnlyByGaps ==
  [][UnreportedChange =>
       \/ scope # NoScope /\ scope'.generation > scope.generation
       \/ scope # NoScope /\ scope.lifecycle = "Closed"
       \/ ingressReader \in ReceiptChannels /\ Len(receipts) = receipt_capacity]_ingressVars

\* Everything in the merged window comes from the generation of the fence: a
\* superseded payload is never folded into the new producer's baseline.
WindowOfOneGeneration ==
  scope # NoScope => \A i \in 1..Len(scope.window) : scope.window[i][1] = scope.generation

=============================================================================
