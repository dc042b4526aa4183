--------------------------- MODULE TemporalSources ---------------------------
(***************************************************************************)
(* The temporal sources over a manual clock: a timer (and the deadline,    *)
(* which is one), an interval and a cron pattern, each a core and the cell *)
(* its fire edges are projected on.  The driver advances the clock by any  *)
(* amount, and may ask it to go back.                                      *)
(***************************************************************************)
EXTENDS Integers, FiniteSets, FiniteSetsExt, SequencesExt

CONSTANT MaxTicks   \* bound: the latest time; also the largest parameter

Times == 0..MaxTicks

VARIABLES
  now,             \* ManualClock::now_
  fire_at, fired,  \* TimerCore
  period, next, count,              \* IntervalCore
  cycle, offsets, cursor, cronCount,\* CronCore
  firedCell, countCell, cronCell    \* the sources of the cells

temporalVars ==
  <<now, fire_at, fired, period, next, count, cycle, offsets, cursor, cronCount,
    firedCell, countCell, cronCell>>

AtLeastOne(n) == Max({n, 1})

\* The constructors clamp periods to 1 and reduce offsets modulo the cycle.
TemporalInit ==
  /\ now = 0
  /\ fire_at \in Times /\ fired = FALSE
  /\ \E p \in 0..3 : period = AtLeastOne(p)
  /\ next = period /\ count = 0
  /\ \E c \in 0..3, os \in SUBSET (0..3) : cycle = AtLeastOne(c) /\ offsets = {o % cycle : o \in os}
  /\ cursor = 0 /\ cronCount = 0
  /\ firedCell = FALSE /\ countCell = 0 /\ cronCell = 0

advance(n) == Max({now, n})

TimerTick(t) ==
  LET edge == ~fired /\ t >= fire_at
  IN /\ fired' = (fired \/ edge)
     /\ firedCell' = (firedCell \/ edge)

fires_this_tick(t) == IF t < next THEN 0 ELSE (t - next) \div period + 1

IntervalTick(t) ==
  LET fires == fires_this_tick(t)
  IN /\ count' = count + fires
     /\ next' = next + fires * period
     /\ countCell' = IF fires = 0 THEN countCell ELSE count'

\* The m in 1..n with m mod c = o, by arithmetic.
cron_count_upto(n, o, c) ==
  IF o = 0 THEN n \div c ELSE IF o <= n THEN (n - o) \div c + 1 ELSE 0

matches_in(lo, hi) ==
  MapThenSumSet(LAMBDA o : cron_count_upto(hi, o, cycle) - cron_count_upto(lo, o, cycle), offsets)

CronTick(t) ==
  LET fires == IF t <= cursor THEN 0 ELSE matches_in(cursor, t)
  IN /\ cursor' = Max({cursor, t})
     /\ cronCount' = cronCount + fires
     /\ cronCell' = IF fires = 0 THEN cronCell ELSE cronCount'

\* The first candidate, in this cycle or the next one.
CronNextFire ==
  LET start == cursor + 1
      base == (start \div cycle) * cycle
      candidates == {base + o : o \in offsets} \cup {base + cycle + o : o \in offsets}
  IN Min({c \in candidates : c >= start})

\* The driver asks the clock for time n and ticks every source with what it says.
Tick(n) ==
  /\ now' = advance(n)
  /\ TimerTick(now') /\ IntervalTick(now') /\ CronTick(now')
  /\ UNCHANGED <<fire_at, period, cycle, offsets>>

TemporalNext == \E n \in Times : Tick(n)

TemporalSpec == TemporalInit /\ [][TemporalNext]_temporalVars

-----------------------------------------------------------------------------

Due == {m \in 1..now : m % cycle \in offsets}

\* However far the clock jumps, the counts are those of a driver that went
\* through every tick: the boundaries up to now, none lost, none twice; the
\* next fire is the first one after now; and the cells show the counts.
NoBoundaryLost ==
  /\ count = Cardinality({m \in 1..now : m % period = 0})
  /\ next = Min({m \in (now + 1)..(now + period) : m % period = 0})
  /\ cronCount = Cardinality(Due)
  /\ offsets # {} =>
       CronNextFire = Min({m \in (now + 1)..(now + cycle) : m % cycle \in offsets})
  /\ <<firedCell, countCell, cronCell>> = <<fired, count, cronCount>>

=============================================================================
