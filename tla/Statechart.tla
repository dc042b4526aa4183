----------------------------- MODULE Statechart -----------------------------
(***************************************************************************)
(* statechart.hpp: a chart of atomic, compound, parallel, final and        *)
(* history states, and the engine that turns an event into states to       *)
(* leave, states to enter and actions to run.  The chart is a constant:    *)
(* what ChartBuilder::build accepted.  A guard is a name; the host says    *)
(* with every send which guards hold.                                      *)
(***************************************************************************)
EXTENDS Integers, FiniteSets, FiniteSetsExt, Sequences, SequencesExt

CONSTANTS
  ChartOrder,        \* the declared state ids, in declaration order
  ChartKind,         \* [state -> "Atomic", "Compound", "Parallel", "Final", ...]
  ChartParent,       \* [state -> its parent, or NoState for the root]
  ChartInitial,      \* [state -> the initial child of a compound state, or NoState]
  ChartDefault,      \* [state -> the default child of a history state, or NoState]
  ChartTransitions,  \* set of [from, event, target, guard, internal]
  NoState, NoGuard

ChartStates == Range(ChartOrder)

(* from_states: distinct ids, one root, and no reference to a state that   *)
(* was never declared.                                                     *)
ASSUME ChartBuilt ==
  /\ IsInjective(ChartOrder)
  /\ Cardinality({s \in ChartStates : ChartParent[s] = NoState}) = 1
  /\ \A s \in ChartStates :
       {ChartParent[s], ChartInitial[s], ChartDefault[s]} \subseteq ChartStates \cup {NoState}
  /\ \A t \in ChartTransitions : t.from \in ChartStates /\ t.target \in ChartStates

ChartEvents == {t.event : t \in ChartTransitions}
ChartGuards == {t.guard : t \in ChartTransitions} \ {NoGuard}

VARIABLES
  chartConfig,    \* config_: the active states
  chartHistory,   \* history_: history state -> recorded child or configuration
  lastActions,    \* last_actions_: the entry and exit actions of the last send
  activities,     \* what a host that follows the actions has running
  leftAs          \* per history state: what was active in its region when it was left

chartVars == <<chartConfig, chartHistory, lastActions, activities, leftAs>>

----------------------------------------------------------------------------
(* The chart: ancestors, depth, children.                                  *)

RootState == CHOOSE s \in ChartStates : ChartParent[s] = NoState

ancestors_inclusive[s \in ChartStates] ==
  IF ChartParent[s] = NoState THEN <<s>> ELSE <<s>> \o ancestors_inclusive[ChartParent[s]]

ancestors == [s \in ChartStates |-> Range(ancestors_inclusive[s])]

descendants == [s \in ChartStates |-> {d \in ChartStates \ {s} : s \in ancestors[d]}]

is_proper_descendant(desc, anc) == desc \in descendants[anc]

depth == [s \in ChartStates |-> Len(ancestors_inclusive[s]) - 1]

chart_order == [s \in ChartStates |-> CHOOSE i \in DOMAIN ChartOrder : ChartOrder[i] = s]

children_of(s) == {c \in ChartStates : ChartParent[c] = s}

is_leaf_kind(s) == ChartKind[s] \in {"Atomic", "Final"}

is_history_kind(s) == ChartKind[s] \in {"HistoryShallow", "HistoryDeep"}

(* The innermost common ancestor.                                          *)
lca(a, b) ==
  LET common == ancestors[a] \cap ancestors[b] IN
  CHOOSE s \in common : \A c \in common : depth[c] <= depth[s]

(* path_below: the target and its ancestors, up to but without the state.  *)
path_below(top, target) ==
  ancestors[target] \cap descendants[top]

Below(s, config) == config \cap descendants[s]

----------------------------------------------------------------------------
(* Entering and leaving.                                                   *)

(* A state entered with its parent: the initial child of a compound state, *)
(* every child of a parallel one.                                          *)
EnteredWithParent(c) ==
  LET p == ChartParent[c] IN
  \/ ChartKind[p] = "Compound" /\ ChartInitial[p] = c
  \/ ChartKind[p] = "Parallel"

(* enter_subtree: the states reached from the given one by such steps.     *)
enter_subtree(s) ==
  {s} \cup {d \in descendants[s] : \A c \in path_below(s, d) : EnteredWithParent(c)}

(* history_child_of: the first history child in declaration order.         *)
history_children(region) == {h \in children_of(region) : is_history_kind(h)}

history_child_of(region) ==
  CHOOSE h \in history_children(region) :
    \A g \in history_children(region) : chart_order[h] <= chart_order[g]

(* record_region, for a shallow and for a deep history state.  A region    *)
(* without an active child leaves the shallow record as it was.            *)
recorded(region, h, config, old) ==
  LET kids == {c \in children_of(region) \cap config : ~is_history_kind(c)} IN
  IF ChartKind[h] = "HistoryDeep" THEN Below(region, config)
  ELSE IF kids = {} THEN old
  ELSE {CHOOSE c \in kids : \A d \in kids : chart_order[c] <= chart_order[d]}

record_regions(history, exits, config) ==
  LET regions == {s \in exits : history_children(s) # {}}
      regionOf(h) == ChartParent[h] IN
  [h \in DOMAIN history |->
     IF regionOf(h) \in regions /\ h = history_child_of(regionOf(h))
     THEN recorded(regionOf(h), h, config, history[h]) ELSE history[h]]

(* restore_via_history: what was recorded, or else the default child of    *)
(* the history state, or else the initial child of its region.             *)
NeverRecorded == {NoState}

restore_via_history(history, h, region) ==
  LET start == IF ChartDefault[h] # NoState THEN ChartDefault[h] ELSE ChartInitial[region] IN
  IF history[h] = NeverRecorded
  THEN IF start = NoState THEN {} ELSE path_below(region, start) \cup enter_subtree(start)
  ELSE IF ChartKind[h] = "HistoryShallow" THEN UNION {enter_subtree(c) : c \in history[h]}
  ELSE history[h]

(* compute_exit_enter: a transition taken on behalf of an active leaf      *)
(* leaves everything below the innermost common ancestor of the leaf (of   *)
(* the source, for an internal one) and the target.                        *)
TransitionTop(t, leaf) ==
  IF t.internal /\ (t.target = t.from \/ is_proper_descendant(t.target, t.from))
  THEN t.from ELSE lca(leaf, t.target)

ExitSet(t, leaf, config) == Below(TransitionTop(t, leaf), config)

EnterSet(t, leaf, history) ==
  LET top == TransitionTop(t, leaf) IN
  IF is_history_kind(t.target)
  THEN path_below(top, ChartParent[t.target])
       \cup restore_via_history(history, t.target, ChartParent[t.target])
  ELSE path_below(top, t.target) \cup enter_subtree(t.target)

----------------------------------------------------------------------------
(* engine_send.                                                            *)

guard_passes(t, guards) == t.guard = NoGuard \/ t.guard \in guards

Enabled(event, guards) ==
  {t \in ChartTransitions : t.event = event /\ guard_passes(t, guards)}

(* std::sort: the element with i - 1 others before it comes i-th.          *)
Sorted(set, before(_, _)) ==
  [i \in 1..Cardinality(set) |->
     CHOOSE x \in set : Cardinality({y \in set : before(y, x)}) = i - 1]

(* One candidate per active leaf: the transition of its innermost ancestor *)
(* that has one for the event and whose guard passes.                      *)
Candidates(config, event, guards) ==
  LET leaves  == {s \in config : is_leaf_kind(s)}
      enabled == Enabled(event, guards) IN
  {cand \in [leaf : leaves, t : enabled] :
     /\ cand.t.from \in ancestors[cand.leaf]
     /\ ~\E u \in enabled : u.from \in path_below(cand.t.from, cand.leaf)}

(* The sources deepest first, then in declaration order.  Candidates of    *)
(* one source keep the order of the set, which is that of the leaf ids.    *)
CandidateBefore(a, b) ==
  \/ depth[a.t.from] > depth[b.t.from]
  \/ /\ depth[a.t.from] = depth[b.t.from]
     /\ \/ chart_order[a.t.from] < chart_order[b.t.from]
        \/ a.t.from = b.t.from /\ chart_order[a.leaf] < chart_order[b.leaf]

(* Mutant: every candidate is taken. *)
NeverConflicts(cand, taken, config) == FALSE

(* A candidate that would leave a state an earlier one already leaves is   *)
(* dropped.                                                                *)
Conflicts(cand, taken, config) ==
  ExitSet(cand.t, cand.leaf, config)
    \cap UNION {ExitSet(c.t, c.leaf, config) : c \in taken} # {}

TakeIfFree(taken, cand, config) ==
  IF Conflicts(cand, taken, config) THEN taken ELSE taken \cup {cand}

TakenOf(config, event, guards) ==
  FoldLeft(LAMBDA taken, cand : TakeIfFree(taken, cand, config), {},
           Sorted(Candidates(config, event, guards), CandidateBefore))

(* Exit actions run from the inside out, entry actions from the outside in. *)
Inner(a, b) ==
  \/ depth[a] > depth[b]
  \/ depth[a] = depth[b] /\ chart_order[a] < chart_order[b]

Outer(a, b) ==
  \/ depth[a] < depth[b]
  \/ depth[a] = depth[b] /\ chart_order[a] < chart_order[b]

ActionsFor(exits, enters) ==
  LET left == Sorted(exits, Inner)
      entered == Sorted(enters, Outer) IN
  [i \in DOMAIN left |-> [run |-> "exit", of |-> left[i]]]
  \o [i \in DOMAIN entered |-> [run |-> "entry", of |-> entered[i]]]

NewConfig(config, exits, enters) == (config \ exits) \cup enters

----------------------------------------------------------------------------
(* A host that starts something on an entry action and stops it on the     *)
(* exit action.  An entry action of what already runs restarts it: the     *)
(* target of a transition to itself or to an ancestor is entered without   *)
(* being left.  The host breaks when it is told to start what has no       *)
(* running parent, or to stop what does not run or has something running   *)
(* below.                                                                  *)

HostDoes(running, action) ==
  LET s == action.of IN
  IF action.run = "entry"
  THEN IF ChartParent[s] # NoState /\ ChartParent[s] \notin running
       THEN {NoState} ELSE running \cup {s}
  ELSE IF s \notin running \/ Below(s, running) # {}
       THEN {NoState} ELSE running \ {s}

HostFollows(running, actions) == FoldLeft(HostDoes, running, actions)

----------------------------------------------------------------------------
(* The constructor enters the root; send runs the engine.                  *)

StatechartInit ==
  LET enters == enter_subtree(RootState) IN
  /\ chartConfig = enters
  /\ chartHistory = [h \in {s \in ChartStates : is_history_kind(s)} |-> NeverRecorded]
  /\ lastActions = ActionsFor({}, enters)
  /\ activities = HostFollows({}, ActionsFor({}, enters))
  /\ leftAs = [h \in DOMAIN chartHistory |-> {}]

(* A send nothing answers only clears the list of actions.                 *)
SendIgnored(event, guards) ==
  /\ TakenOf(chartConfig, event, guards) = {}
  /\ lastActions' = << >>
  /\ UNCHANGED <<chartConfig, chartHistory, activities, leftAs>>

SendTaken(event, guards) ==
  LET taken  == TakenOf(chartConfig, event, guards)
      exits  == UNION {ExitSet(c.t, c.leaf, chartConfig) : c \in taken}
      enters == UNION {EnterSet(c.t, c.leaf, chartHistory) : c \in taken} IN
  /\ taken # {}
  /\ chartHistory' = record_regions(chartHistory, exits, chartConfig)
  /\ lastActions' = ActionsFor(exits, enters)
  /\ chartConfig' = NewConfig(chartConfig, exits, enters)
  /\ activities' = HostFollows(activities, ActionsFor(exits, enters))
  /\ leftAs' = [h \in DOMAIN leftAs |->
                  IF ChartParent[h] \in exits THEN Below(ChartParent[h], chartConfig)
                  ELSE leftAs[h]]

StatechartNext ==
  \E event \in ChartEvents, guards \in SUBSET ChartGuards :
    SendIgnored(event, guards) \/ SendTaken(event, guards)

StatechartSpec == StatechartInit /\ [][StatechartNext]_chartVars

----------------------------------------------------------------------------
(* Properties.                                                             *)

\* Whatever events arrive, the configuration is one a chart can be in: the
\* root is active, an active state's parent is active, an active compound
\* state has exactly one active child and an active parallel state has all
\* its regions active; and a host that follows the entry and exit actions of
\* every send runs exactly the active states (engine_send).
ConfigurationLegal ==
  /\ RootState \in chartConfig
  /\ \A s \in chartConfig \ {RootState} : ChartParent[s] \in chartConfig
  /\ \A s \in chartConfig :
       /\ ChartKind[s] = "Compound" => Cardinality(children_of(s) \cap chartConfig) = 1
       /\ ChartKind[s] = "Parallel" => children_of(s) \subseteq chartConfig
  /\ activities = chartConfig

\* What a transition into a history state restores is what was active when
\* its region was last left: the whole configuration for a deep one, the
\* active child for a shallow one (record_region, restore_via_history).
HistoryRestores ==
  \A h \in DOMAIN chartHistory :
    LET region == ChartParent[h]
        kept == IF ChartKind[h] = "HistoryDeep" THEN ChartStates ELSE children_of(region) IN
    leftAs[h] # {} =>
      restore_via_history(chartHistory, h, region) \cap kept = leftAs[h] \cap kept

=============================================================================
