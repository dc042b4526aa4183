------------------------------ MODULE RateShape ------------------------------
(***************************************************************************)
(* The rate-shaping operators and the stream windows: a core that holds or *)
(* emits, fed by inputs and by ticks of a monotone clock.  A behaviour     *)
(* runs one of them.  Inputs are numbered as they come; a window's merge   *)
(* is concatenation, so its aggregate tells its elements and their order.  *)
(***************************************************************************)
EXTENDS Integers, Sequences, SequencesExt, FiniteSetsExt

CONSTANTS
  Shapers,        \* the operators to run
  span,           \* quiet, window, period, gap, n or size of the operator
  slide,          \* the slide of a sliding window
  MaxInputs,      \* bound: inputs
  MaxTime         \* bound: the latest time

VARIABLES
  shaper,         \* the operator that runs
  time,
  inputs,         \* the times of the inputs; input i has number i
  held,           \* pending_, held_, acc_ or buffer_: input numbers, in order
  mark,           \* fire_at_, window_end_, window_start_, next_ or last_; -1 is none
  tally,          \* counter_, count_ or since_
  emits           \* what was emitted and when; output is the last

shapeVars == <<shaper, time, inputs, held, mark, tally, emits>>

NoMark == -1

ShapeInit ==
  /\ shaper \in Shapers
  /\ time = 0
  /\ inputs = <<>> /\ held = <<>> /\ tally = 0 /\ emits = <<>>
  /\ mark = IF shaper \in {"sampleTime", "tumblingTime"} THEN span ELSE NoMark

Emit(v) == emits' = Append(emits, [at |-> time, value |-> v])

Silent == UNCHANGED emits

(* Inputs: v is the number of the input. *)

DebounceInput(v) == held' = <<v>> /\ mark' = time + span /\ Silent /\ UNCHANGED tally

LeadingInput(v) ==
  /\ IF mark # NoMark /\ time < mark THEN Silent /\ UNCHANGED mark
     ELSE Emit(<<v>>) /\ mark' = time + span
  /\ UNCHANGED <<held, tally>>

TrailingInput(v) ==
  /\ mark' = IF mark = NoMark THEN time ELSE mark
  /\ held' = <<v>> /\ Silent /\ UNCHANGED tally

SampleCountInput(v) ==
  /\ tally' = tally + 1
  /\ IF tally' % span = 0 THEN Emit(<<v>>) ELSE Silent
  /\ UNCHANGED <<held, mark>>

SampleTimeInput(v) == held' = <<v>> /\ Silent /\ UNCHANGED <<mark, tally>>

TumblingCountPush(v) ==
  LET acc == Append(held, v)
      full == tally + 1 >= span
  IN /\ tally' = IF full THEN 0 ELSE tally + 1
     /\ held' = IF full THEN <<>> ELSE acc
     /\ IF full THEN Emit(acc) ELSE Silent
     /\ UNCHANGED mark

TumblingTimePush(v) == held' = Append(held, v) /\ Silent /\ UNCHANGED <<mark, tally>>

SlidingPush(v) ==
  LET buffer == Append(held, v)
  IN /\ held' = IF Len(buffer) > span THEN Tail(buffer) ELSE buffer
     /\ tally' = IF tally + 1 >= slide THEN 0 ELSE tally + 1
     /\ IF tally + 1 >= slide THEN Emit(held') ELSE Silent
     /\ UNCHANGED mark

\* Mutant: a gap of exactly the allowed length closes the session.
IdleAtGap == mark # NoMark /\ time - mark >= span

idle == mark # NoMark /\ time - mark > span

SessionPush(v) ==
  /\ IF idle /\ held # <<>> THEN Emit(held) /\ held' = <<v>>
     ELSE Silent /\ held' = Append(held, v)
  /\ mark' = time /\ UNCHANGED tally

Input ==
  LET v == Len(inputs) + 1
  IN /\ v <= MaxInputs
     /\ inputs' = Append(inputs, time)
     /\ \/ shaper = "debounce" /\ DebounceInput(v)
        \/ shaper = "leading" /\ LeadingInput(v)
        \/ shaper = "trailing" /\ TrailingInput(v)
        \/ shaper = "sampleCount" /\ SampleCountInput(v)
        \/ shaper = "sampleTime" /\ SampleTimeInput(v)
        \/ shaper = "tumblingCount" /\ TumblingCountPush(v)
        \/ shaper = "tumblingTime" /\ TumblingTimePush(v)
        \/ shaper = "sliding" /\ SlidingPush(v)
        \/ shaper = "session" /\ SessionPush(v)
     /\ UNCHANGED <<shaper, time>>

(* Ticks. *)

DebounceDue == held # <<>> /\ mark <= time

DebounceTick == DebounceDue /\ Emit(held) /\ held' = <<>> /\ UNCHANGED mark

TrailingTick ==
  /\ mark # NoMark /\ time >= mark + span /\ held # <<>>
  /\ Emit(held) /\ held' = <<>> /\ mark' = NoMark

\* The first boundary after now; what was held is emitted once, and stays.
SampleTimeTick ==
  /\ time >= mark
  /\ mark' = mark + ((time - mark) \div span + 1) * span
  /\ IF held = <<>> THEN Silent ELSE Emit(held)
  /\ UNCHANGED held

TumblingTimeTick ==
  /\ time >= mark
  /\ mark' = mark + ((time - mark) \div span + 1) * span
  /\ IF held = <<>> THEN Silent ELSE Emit(held)
  /\ held' = <<>>

SessionFlush == idle /\ held # <<>> /\ Emit(held) /\ held' = <<>> /\ UNCHANGED mark

ShapeTick ==
  /\ \/ shaper = "debounce" /\ DebounceTick
     \/ shaper = "trailing" /\ TrailingTick
     \/ shaper = "sampleTime" /\ SampleTimeTick
     \/ shaper = "tumblingTime" /\ TumblingTimeTick
     \/ shaper = "session" /\ SessionFlush
  /\ UNCHANGED <<shaper, time, inputs, tally>>

\* Time passes; nothing ticks by itself.
ShapeWait == time < MaxTime /\ time' = time + 1 /\ UNCHANGED <<shaper, inputs, held, mark, tally, emits>>

ShapeNext == Input \/ ShapeTick \/ ShapeWait

ShapeSpec == ShapeInit /\ [][ShapeNext]_shapeVars

-----------------------------------------------------------------------------

Emitted(i) == emits[i].value[1]

Apart(i) == i > 1 => emits[i].at - emits[i - 1].at >= span

\* Debounce emits an input at most once, and only after a quiet span without
\* another; a throttle emits once per window, and the trailing one the latest
\* input; samplers take the n-th input, or the latest one of each period.
RatesKept ==
  \A i \in DOMAIN emits :
    CASE shaper = "debounce" ->
           /\ i > 1 => Emitted(i) > Emitted(i - 1)
           /\ emits[i].at >= inputs[Emitted(i)] + span
           /\ \A j \in DOMAIN inputs :
                inputs[j] < inputs[Emitted(i)] + span => j <= Emitted(i)
      [] shaper = "leading" -> Apart(i) /\ inputs[Emitted(i)] = emits[i].at
      [] shaper = "trailing" ->
           /\ Apart(i)
           /\ \A j \in DOMAIN inputs : inputs[j] < emits[i].at => j <= Emitted(i)
      [] shaper = "sampleCount" -> Emitted(i) = i * span
      [] shaper = "sampleTime" ->
           /\ \A j \in DOMAIN inputs : inputs[j] < emits[i].at => j <= Emitted(i)
           /\ i > 1 => emits[i].at \div span > emits[i - 1].at \div span
      [] OTHER -> TRUE

Aggregates == [i \in DOMAIN emits |-> emits[i].value]

Numbers == [i \in DOMAIN inputs |-> i]

\* Every input is in one tumbling window or session, in order, and none is
\* lost when a window closes; a session has no gap longer than allowed inside
\* and one before the next; a sliding window holds the last inputs.
WindowsPartition ==
  /\ shaper \in {"tumblingCount", "tumblingTime", "session"} =>
       FlattenSeq(Aggregates) \o held = Numbers
  /\ shaper = "tumblingCount" => \A i \in DOMAIN emits : Len(emits[i].value) = span
  /\ shaper = "session" =>
       \A w \in Range(Aggregates) \cup {held} : \A i \in DOMAIN w :
         i > 1 => inputs[w[i]] - inputs[w[i - 1]] <= span
  /\ shaper = "session" =>
       \A i \in DOMAIN emits :
         LET last == Last(emits[i].value)
         IN last < Len(inputs) => inputs[last + 1] - inputs[last] > span
  /\ shaper = "sliding" =>
       \A i \in DOMAIN emits :
         emits[i].value = SubSeq(Numbers, Max({1, i * slide - span + 1}), i * slide)

=============================================================================
