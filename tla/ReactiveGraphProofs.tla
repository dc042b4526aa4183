------------------------ MODULE ReactiveGraphProofs ------------------------
(***************************************************************************)
(* The arena of the reactive graph is sound for every program: any plan of *)
(* nodes, any closures, any values and any size of the arena.  Its caches  *)
(* are coherent for every program whose computed cells only read.          *)
(***************************************************************************)
EXTENDS ReactiveGraph, FiniteSetTheorems, SequenceTheorems, TLAPS

Results == Values \cup {None}

\* The entries of the arena and the free list.  An id on the free list has
\* been handed out before, and the closure of a computed cell is an item's.
ArenaKept ==
  /\ kind \in [Ids -> Kinds \cup {"empty"}] /\ code \in [Ids -> Codes \cup {0}]
  /\ gen \in [Ids -> Nat] /\ free \in Seq(Ids) /\ nextId \in Nat
  /\ FreeIdsSound
  /\ \A p \in DOMAIN free : free[p] < nextId
  /\ \A i \in Ids : kind[i] = "slot" => code[i] \in Items

FlagsTyped ==
  /\ val \in [Ids -> Results] /\ dirty \in [Ids -> BOOLEAN] /\ force \in [Ids -> BOOLEAN]
  /\ busy \in [Ids -> BOOLEAN] /\ armed \in [Ids -> Codes \cup {0}]

RestTyped ==
  /\ eager \in [Ids -> BOOLEAN]             /\ eagerBy \in [Ids -> Handle \cup {None}]
  /\ flushing \in BOOLEAN                   /\ batchDepth \in Nat
  /\ batched \in [cells : SUBSET Ids, clears : SUBSET Ids, slots : SUBSET Ids]
  /\ made \in [Items -> Handle \cup {None}] /\ nmade \in 0..Len(Plan)
  /\ seen \in [Codes -> Logs \cup {None}]

EdgesKept ==
  /\ deps \in [Ids -> SUBSET Ids] /\ dpts \in [Ids -> SUBSET Ids]
  /\ EdgesMatch

\* The effect queue q and the marks m, with the arena's kinds k.
QueueSound(q, m, k) ==
  /\ q \in Seq(Ids) /\ m \in SUBSET Ids
  /\ \A p \in DOMAIN q : q[p] \in m
  /\ \A i \in m : \E p \in DOMAIN q : q[p] = i
  /\ \A p, r \in DOMAIN q : q[p] = q[r] => p = r
  /\ \A i \in m : k[i] = "effect"

\* An activation that runs a closure names, while the generation it was started
\* with lasts, a node that has dependencies; effects are made in two steps.
FrameSound(f, g, k) ==
  /\ f.op \in {"compute", "effect"} =>
       /\ f.gen <= g[f.id]
       /\ f.gen = g[f.id] => k[f.id] = IF f.op = "compute" THEN "slot" ELSE "effect"
  /\ f.op = "compute" => f.code \in Items
  /\ f.op = "made" => f.code \in Items /\ Plan[f.code].kind = "effect"

\* The program is at the bottom of every stack.
StackSound(s, g, k) ==
  /\ s \in Seq(Frame)
  /\ s # << >> => s[Len(s)] = Host
  /\ \A p \in 1..Len(s) : FrameSound(s[p], g, k)

\* The inductive invariant.
GraphInv ==
  /\ ArenaKept /\ FlagsTyped /\ RestTyped /\ EdgesKept
  /\ QueueSound(pending, scheduled, kind)
  /\ StackSound(stack, gen, kind)

-----------------------------------------------------------------------------
(* Logs and frames *)

LEMMA IdsFinite == IsFiniteSet(Ids) /\ 0 \in Ids /\ Ids \subseteq Nat
  <1>1. MaxId \in Nat /\ MaxId # 0
    BY PlanAssumption
  <1> QED BY <1>1, FS_Interval DEF Ids

LEMMA PlanTyped ==
  /\ Len(Plan) \in Nat /\ Items \subseteq Codes /\ 0 \notin Items
  /\ \A k \in Items : Plan[k].kind \in Kinds /\ Plan[k].init \in Values
  /\ \A k \in Items : Puller(k) \in Codes /\ Puller(k) \notin Items
  <1>1. Plan \in Seq([kind : Kinds, init : Values])
    BY PlanAssumption
  <1>2. Len(Plan) \in Nat /\ DOMAIN Plan = Items
    BY <1>1, LenProperties DEF Items
  <1>3. \A k \in Items : Plan[k] \in [kind : Kinds, init : Values]
    BY <1>1, <1>2, ElementOfSeq DEF Items
  <1>4. \A k \in Items : Plan[k].kind \in Kinds /\ Plan[k].init \in Values
    BY <1>3
  <1> QED BY <1>2, <1>4 DEF Items, Codes, Puller

\* A log is a sequence of results of bounded length.
LEMMA LogsAreSequences ==
  /\ << >> \in Logs
  /\ \A log \in Logs : log \in Seq(Results) /\ Len(log) <= MaxLog
  /\ \A log \in Seq(Results) : Len(log) <= MaxLog => log \in Logs
  <1>0. MaxLog \in Nat
    BY PlanAssumption
  <1>1. ASSUME NEW log \in Logs PROVE log \in Seq(Results) /\ Len(log) <= MaxLog
    <2>1. PICK n \in 0..MaxLog : log \in [1..n -> Results]
      BY DEF Logs, Results
    <2>2. log \in Seq(Results)
      BY <2>1, <1>0, IsASeq
    <2>3. Len(log) = n
      BY <2>1, <2>2, <1>0, LenProperties
    <2> QED BY <2>2, <2>3, <2>1, <1>0
  <1>2. ASSUME NEW log \in Seq(Results), Len(log) <= MaxLog PROVE log \in Logs
    <2>1. log \in [1..Len(log) -> Results] /\ Len(log) \in 0..MaxLog
      BY <1>2, <1>0, LenProperties
    <2> QED BY <2>1 DEF Logs, Results
  <1>3. << >> \in Logs
    <2>1. << >> \in Seq(Results) /\ Len(<< >>) = 0
      OBVIOUS
    <2>2. Len(<< >>) <= MaxLog
      BY <2>1, <1>0
    <2> QED BY <2>1, <2>2, <1>2
  <1> QED BY <1>1, <1>2, <1>3

LEMMA LogGrows ==
  ASSUME NEW log \in Logs, Len(log) < MaxLog, NEW r \in Results
  PROVE  Append(log, r) \in Logs
  <1>1. log \in Seq(Results) /\ MaxLog \in Nat
    BY LogsAreSequences, PlanAssumption
  <1>2. Append(log, r) \in Seq(Results) /\ Len(Append(log, r)) = Len(log) + 1
    BY <1>1, AppendProperties
  <1>3. Len(log) \in Nat
    BY <1>1, LenProperties
  <1>4. Len(Append(log, r)) <= MaxLog
    BY <1>1, <1>2, <1>3
  <1> QED BY <1>2, <1>4, LogsAreSequences

-----------------------------------------------------------------------------
(* Stacks *)

LEMMA HostSound ==
  ASSUME NEW g, NEW k
  PROVE  Host \in Frame /\ StackSound(<<Host>>, g, k)
  <1>1. Host \in Frame
    BY IdsFinite, LogsAreSequences DEF Host, Frame
  <1>2. FrameSound(Host, g, k)
    BY DEF FrameSound, Host
  <1>3. <<Host>> \in Seq(Frame) /\ Len(<<Host>>) = 1 /\ <<Host>>[1] = Host
    BY <1>1
  <1> QED BY <1>1, <1>2, <1>3 DEF StackSound

LEMMA PushSound ==
  ASSUME NEW g, NEW k, NEW s, StackSound(s, g, k), s # << >>,
         NEW f \in Frame, FrameSound(f, g, k)
  PROVE  StackSound(Push(f, s), g, k) /\ Push(f, s) # << >>
  <1>1. s \in Seq(Frame) /\ Len(s) \in Nat /\ Len(s) # 0
    BY LenProperties, EmptySeq DEF StackSound
  <1>2. Push(f, s) \in Seq(Frame) /\ Len(Push(f, s)) = Len(s) + 1
    BY <1>1 DEF Push
  <1>3. \A p \in 1..Len(s) + 1 : Push(f, s)[p] = IF p = 1 THEN f ELSE s[p - 1]
    BY <1>1 DEF Push
  <1>4. Push(f, s)[Len(Push(f, s))] = Host
    BY <1>1, <1>2, <1>3 DEF StackSound
  <1>5. ASSUME NEW p \in 1..Len(Push(f, s)) PROVE FrameSound(Push(f, s)[p], g, k)
    <2>1. CASE p = 1 BY <2>1, <1>1, <1>2, <1>3
    <2>2. CASE p # 1
      <3>1. p - 1 \in 1..Len(s)
        BY <2>2, <1>1, <1>2
      <3> QED BY <3>1, <2>2, <1>1, <1>2, <1>3 DEF StackSound
    <2> QED BY <2>1, <2>2
  <1> QED BY <1>1, <1>2, <1>4, <1>5 DEF StackSound

LEMMA TopSound ==
  ASSUME NEW g, NEW k, NEW s, StackSound(s, g, k), s # << >>
  PROVE  /\ Head(s) \in Frame /\ FrameSound(Head(s), g, k)
         /\ Head(s).op # "host" => StackSound(Tail(s), g, k) /\ Tail(s) # << >>
  <1>1. s \in Seq(Frame) /\ Len(s) \in Nat /\ Len(s) # 0
    BY LenProperties, EmptySeq DEF StackSound
  <1>2. Head(s) = s[1] /\ Head(s) \in Frame
    BY <1>1
  <1>3. FrameSound(Head(s), g, k)
    BY <1>1, <1>2 DEF StackSound
  <1>4. ASSUME Head(s).op # "host" PROVE StackSound(Tail(s), g, k) /\ Tail(s) # << >>
    <2>1. Len(s) # 1
      BY <1>4, <1>1, <1>2 DEF StackSound, Host
    <2>2. Tail(s) \in Seq(Frame) /\ Len(Tail(s)) = Len(s) - 1
      BY <1>1
    <2>3. \A p \in 1..Len(Tail(s)) : Tail(s)[p] = s[p + 1] /\ p + 1 \in 1..Len(s)
      BY <1>1, <2>2
    <2>4. Tail(s)[Len(Tail(s))] = s[Len(s)]
      BY <1>1, <2>1, <2>2, <2>3
    <2>5. \A p \in 1..Len(Tail(s)) : FrameSound(Tail(s)[p], g, k)
      BY <2>3 DEF StackSound
    <2>6. s[Len(s)] = Host
      BY <1>1 DEF StackSound
    <2>7. Tail(s) # << >>
      BY <1>1, <2>1, <2>2
    <2> QED BY <2>2, <2>4, <2>5, <2>6, <2>7 DEF StackSound
  <1> QED BY <1>2, <1>3, <1>4

\* A stack stays sound when the arena moves on: generations grow, and an entry
\* changes its kind only from empty or with its generation.
Advanced(g, k, g2, k2) ==
  \A i \in Ids : /\ g[i] \in Nat /\ g2[i] \in Nat /\ g[i] <= g2[i]
                 /\ (g2[i] = g[i] /\ k[i] # "empty") => k2[i] = k[i]

LEMMA StackAdvances ==
  ASSUME NEW g, NEW k, NEW g2, NEW k2, Advanced(g, k, g2, k2), NEW s, StackSound(s, g, k)
  PROVE  StackSound(s, g2, k2)
  <1>1. ASSUME NEW f \in Frame, FrameSound(f, g, k) PROVE FrameSound(f, g2, k2)
    <2>1. f.id \in Ids /\ f.gen \in Nat
      BY DEF Frame
    <2> QED BY <1>1, <2>1 DEF FrameSound, Advanced
  <1>2. \A p \in 1..Len(s) : s[p] \in Frame
    BY ElementOfSeq DEF StackSound
  <1> QED BY <1>1, <1>2 DEF StackSound

LEMMA ActivationSound ==
  ASSUME ArenaKept, NEW i \in Ids,
         NEW op \in {"flush", "should", "effect", "refresh", "compute", "made", "attach"}
  PROVE  /\ Activation(op, i) \in Frame
         /\ Activation(op, i).op = op /\ Activation(op, i).id = i
         /\ Activation(op, i).gen = gen[i] /\ Activation(op, i).code = code[i]
  <1>1. Host \in Frame
    BY HostSound
  <1> QED BY <1>1 DEF Activation, Frame, Host, ArenaKept

\* An activation with other dependencies left to refresh.
LEMMA TodoSound ==
  ASSUME NEW f \in Frame, NEW S \in SUBSET Ids
  PROVE  /\ [f EXCEPT !.todo = S] \in Frame
         /\ [f EXCEPT !.todo = S].op = f.op
  BY DEF Frame

LEMMA CheckSound ==
  ASSUME ArenaKept, EdgesKept, FlagsTyped, NEW i \in Ids
  PROVE  /\ Check(i) \in Frame /\ Check(i).op = "should" /\ Check(i).id = i
         /\ Check(i).gen = gen[i] /\ Check(i).code = code[i]
         /\ Check(i).todo = deps[i] /\ Check(i).due = force[i]
  <1>1. /\ Activation("should", i) \in Frame /\ Activation("should", i).op = "should"
        /\ Activation("should", i).id = i
        /\ Activation("should", i).gen = gen[i] /\ Activation("should", i).code = code[i]
    BY ActivationSound
  <1>2. deps[i] \in SUBSET Ids /\ force[i] \in BOOLEAN
    BY DEF EdgesKept, FlagsTyped
  <1> QED BY <1>1, <1>2 DEF Check, Frame

LEMMA ResumeSound ==
  ASSUME StackSound(stack, gen, kind), NEW r \in Results
  PROVE  StackSound(Resume(r), gen, kind) /\ (stack # << >> => Resume(r) # << >>)
  <1>1. CASE ~InClosure
    BY <1>1 DEF Resume
  <1>2. CASE InClosure
    <2>1. stack # << >> /\ Top.op # "host" /\ Len(Top.log) < MaxLog
      BY <1>2 DEF InClosure
    <2>2. /\ Top \in Frame /\ FrameSound(Top, gen, kind)
          /\ StackSound(Rest, gen, kind) /\ Rest # << >>
      BY <2>1, TopSound DEF Top, Rest
    <2> DEFINE f == [Top EXCEPT !.log = Append(@, r), !.pulled = FALSE]
    <2>3. Append(Top.log, r) \in Logs
      BY <2>1, <2>2, LogGrows DEF Frame
    <2>4. f \in Frame /\ f.op = Top.op /\ f.id = Top.id /\ f.gen = Top.gen /\ f.code = Top.code
      BY <2>2, <2>3 DEF Frame
    <2>5. FrameSound(f, gen, kind)
      BY <2>2, <2>4 DEF FrameSound
    <2> HIDE DEF f
    <2>6. StackSound(Push(f, Rest), gen, kind) /\ Push(f, Rest) # << >>
      BY <2>2, <2>4, <2>5, PushSound
    <2> QED BY <2>6, <1>2 DEF Resume, f
  <1> QED BY <1>1, <1>2

LEMMA FlushOnSound ==
  ASSUME NEW s, StackSound(s, gen, kind), s # << >>, NEW b \in BOOLEAN, FlushOn(s, b)
  PROVE  StackSound(stack', gen, kind) /\ flushing' \in BOOLEAN
  <1> DEFINE f == [Host EXCEPT !.op = "flush", !.chg = b]
  <1>1. f \in Frame /\ f.op = "flush"
    BY HostSound DEF Frame, Host
  <1>2. FrameSound(f, gen, kind)
    BY <1>1 DEF FrameSound
  <1> HIDE DEF f
  <1>3. StackSound(Push(f, s), gen, kind)
    BY <1>1, <1>2, PushSound
  <1> QED BY <1>3 DEF FlushOn, f

LEMMA DeliverSound ==
  ASSUME NEW s, StackSound(s, gen, kind), s # << >>, NEW b \in BOOLEAN
  PROVE  StackSound(Deliver(s, b), gen, kind)
  <1>1. CASE Head(s).op \in {"refresh", "should"}
    <2> DEFINE f == [Head(s) EXCEPT !.chg = @ \/ b]
    <2>1. /\ Head(s) \in Frame
          /\ StackSound(Tail(s), gen, kind) /\ Tail(s) # << >>
      BY <1>1, TopSound
    <2>2. (Head(s).chg \/ b) \in BOOLEAN
      OBVIOUS
    <2>3. f \in Frame /\ f.op = Head(s).op
      BY <2>1, <2>2 DEF Frame
    <2>4. FrameSound(f, gen, kind)
      BY <1>1, <2>3 DEF FrameSound
    <2> HIDE DEF f
    <2>5. StackSound(Push(f, Tail(s)), gen, kind)
      BY <2>1, <2>3, <2>4, PushSound
    <2> QED BY <2>5, <1>1 DEF Deliver, f
  <1>2. CASE Head(s).op \notin {"refresh", "should"}
    BY <1>2 DEF Deliver
  <1> QED BY <1>1, <1>2

LEMMA EnterRefreshSound ==
  ASSUME ArenaKept, EdgesKept, busy \in [Ids -> BOOLEAN], NEW i \in Ids,
         NEW s, StackSound(s, gen, kind), s # << >>, EnterRefresh(i, s)
  PROVE  StackSound(stack', gen, kind) /\ busy' \in [Ids -> BOOLEAN]
  <1>1. CASE busy[i]
    <2>1. stack' = << >> /\ busy' = busy
      BY <1>1 DEF EnterRefresh
    <2>2. StackSound(<< >>, gen, kind)
      BY EmptySeq DEF StackSound
    <2> QED BY <2>1, <2>2
  <1>2. CASE ~busy[i]
    <2> DEFINE f == [Activation("refresh", i) EXCEPT !.todo = deps[i]]
    <2>0. deps[i] \in SUBSET Ids
      BY DEF EdgesKept
    <2>1. f \in Frame /\ f.op = "refresh"
      <3>1. Activation("refresh", i) \in Frame /\ Activation("refresh", i).op = "refresh"
        BY ActivationSound
      <3> QED BY <2>0, <3>1, TodoSound
    <2>2. FrameSound(f, gen, kind)
      BY <2>1 DEF FrameSound
    <2>3. stack' = Push(f, s) /\ busy' = [busy EXCEPT ![i] = TRUE]
      BY <1>2 DEF EnterRefresh
    <2> HIDE DEF f
    <2>4. StackSound(Push(f, s), gen, kind)
      BY <2>1, <2>2, PushSound
    <2> QED BY <2>3, <2>4
  <1> QED BY <1>1, <1>2

LEMMA UnwindSound ==
  ASSUME busy \in [Ids -> BOOLEAN], Unwind
  PROVE  StackSound(stack', gen, kind) /\ busy' \in [Ids -> BOOLEAN]
  <1>1. StackSound(<< >>, gen, kind) /\ StackSound(<<Host>>, gen, kind)
    BY EmptySeq, HostSound DEF StackSound
  <1>2. stack' = << >> \/ stack' = <<Host>>
    BY DEF Unwind
  <1>3. busy' \in [Ids -> BOOLEAN]
    BY DEF Unwind
  <1> QED BY <1>1, <1>2, <1>3

\* The closure of a computed cell returns a value.
LEMMA ComputeReturns ==
  ASSUME NEW c \in Items, NEW log \in Logs, Code(c, log).do = "return"
  PROVE  Code(c, log).to \in Values
  <1>1. Code(c, log) \in Ops
    BY BodyAssumption DEF Code
  <1> QED BY <1>1 DEF Ops

-----------------------------------------------------------------------------
(* The effect queue *)

LEMMA OrdersCover ==
  ASSUME NEW S \in SUBSET Ids, NEW o \in Orders(S)
  PROVE  /\ o \in Seq(S)
         /\ \A i, j \in DOMAIN o : o[i] = o[j] => i = j
         /\ \A x \in S : \E i \in DOMAIN o : o[i] = x
  <1>1. IsFiniteSet(S) /\ Cardinality(S) \in Nat
    BY IdsFinite, FS_Subset, FS_CardinalityType
  <1>2. /\ o \in [1..Cardinality(S) -> S]
        /\ \A i, j \in DOMAIN o : o[i] = o[j] => i = j
    BY DEF Orders
  <1>3. o \in Injection(1..Cardinality(S), S)
    BY <1>2 DEF Injection, IsInjective
  <1>4. IsFiniteSet(1..Cardinality(S)) /\ Cardinality(1..Cardinality(S)) = Cardinality(S)
    BY <1>1, FS_Interval
  <1>5. o \in Surjection(1..Cardinality(S), S)
    BY <1>1, <1>3, <1>4, FS_Injection
  <1>6. \A x \in S : \E i \in DOMAIN o : o[i] = x
    BY <1>2, <1>5 DEF Surjection
  <1>7. o \in Seq(S)
    BY <1>1, <1>2
  <1> QED BY <1>2, <1>6, <1>7

LEMMA ScheduleSound ==
  ASSUME NEW E \in SUBSET Ids, \A i \in E : kind[i] = "effect",
         QueueSound(pending, scheduled, kind), Schedule(E)
  PROVE  QueueSound(pending', scheduled', kind)
  <1> DEFINE S == E \ scheduled
  <1>1. PICK o \in Orders(S) : pending' = pending \o o
    BY DEF Schedule
  <1>2. /\ o \in Seq(S)
        /\ \A i, j \in DOMAIN o : o[i] = o[j] => i = j
        /\ \A x \in S : \E i \in DOMAIN o : o[i] = x
    BY <1>1, OrdersCover
  <1>3. o \in Seq(Ids) /\ pending \in Seq(Ids) /\ scheduled \in SUBSET Ids
    BY <1>2 DEF QueueSound
  <1>4. /\ Len(o) \in Nat /\ DOMAIN o = 1..Len(o)
        /\ Len(pending) \in Nat /\ DOMAIN pending = 1..Len(pending)
    BY <1>3, LenProperties
  <1>5. pending' \in Seq(Ids) /\ DOMAIN pending' = 1..Len(pending) + Len(o)
    BY <1>1, <1>3, ConcatProperties, LenProperties
  <1>6. \A i \in DOMAIN pending' :
          pending'[i] = IF i <= Len(pending) THEN pending[i] ELSE o[i - Len(pending)]
    BY <1>1, <1>3, <1>5, ConcatProperties
  <1>7. \A i \in DOMAIN o : o[i] \in S
    BY <1>2, <1>4
  <1>8. scheduled' = scheduled \cup S
    BY DEF Schedule
  <1>9. \A i \in DOMAIN pending' : pending'[i] \in scheduled'
    BY <1>4, <1>5, <1>6, <1>7, <1>8 DEF QueueSound
  <1>10. \A x \in scheduled' : \E i \in DOMAIN pending' : pending'[i] = x
    <2> SUFFICES ASSUME NEW x \in scheduled' PROVE \E i \in DOMAIN pending' : pending'[i] = x
      OBVIOUS
    <2>1. CASE x \in scheduled
      <3>1. PICK i \in DOMAIN pending : pending[i] = x
        BY <2>1 DEF QueueSound
      <3>2. i \in DOMAIN pending' /\ pending'[i] = x
        BY <3>1, <1>4, <1>5, <1>6
      <3> QED BY <3>2
    <2>2. CASE x \in S
      <3>1. PICK i \in DOMAIN o : o[i] = x
        BY <2>2, <1>2
      <3>2. Len(pending) + i \in DOMAIN pending' /\ pending'[Len(pending) + i] = x
        BY <3>1, <1>4, <1>5, <1>6
      <3> QED BY <3>2
    <2> QED BY <2>1, <2>2, <1>8
  <1>11. \A i, j \in DOMAIN pending' : pending'[i] = pending'[j] => i = j
    <2> SUFFICES ASSUME NEW i \in DOMAIN pending', NEW j \in DOMAIN pending',
                        pending'[i] = pending'[j], i < j
                 PROVE  FALSE
      BY <1>4, <1>5
    <2>1. CASE j <= Len(pending)
      BY <2>1, <1>4, <1>5, <1>6 DEF QueueSound
    <2>2. CASE i <= Len(pending) /\ j > Len(pending)
      <3>1. pending'[i] \in scheduled
        BY <2>2, <1>4, <1>5, <1>6 DEF QueueSound
      <3>2. pending'[j] \in S
        BY <2>2, <1>4, <1>5, <1>6, <1>7
      <3> QED BY <3>1, <3>2
    <2>3. CASE i > Len(pending)
      <3>1. i - Len(pending) \in DOMAIN o /\ j - Len(pending) \in DOMAIN o
        BY <2>3, <1>4, <1>5
      <3>2. o[i - Len(pending)] = o[j - Len(pending)]
        BY <2>3, <1>4, <1>5, <1>6
      <3>3. i - Len(pending) = j - Len(pending)
        BY <3>1, <3>2, <1>2
      <3> QED BY <3>3, <1>4, <1>5
    <2> QED BY <2>1, <2>2, <2>3, <1>4, <1>5
  <1>12. scheduled' \in SUBSET Ids /\ \A i \in scheduled' : kind[i] = "effect"
    BY <1>3, <1>8 DEF QueueSound
  <1> QED BY <1>5, <1>9, <1>10, <1>11, <1>12 DEF QueueSound


LEMMA EraseSound ==
  ASSUME NEW q, NEW m, NEW k, QueueSound(q, m, k), NEW x
  PROVE  QueueSound(Erase(q, x), m \ {x}, k)
  <1>1. q \in Seq(Ids) /\ Len(q) \in Nat /\ DOMAIN q = 1..Len(q)
    BY LenProperties DEF QueueSound
  <1>2. CASE ~\E p \in 1..Len(q) : q[p] = x
    <2>1. Erase(q, x) = q
      BY <1>2 DEF Erase
    <2>2. m \ {x} = m
      BY <1>1, <1>2 DEF QueueSound
    <2> QED BY <2>1, <2>2
  <1>3. CASE \E p \in 1..Len(q) : q[p] = x
    <2>1. PICK p \in 1..Len(q) : /\ q[p] = x
                                 /\ p = CHOOSE r \in 1..Len(q) : q[r] = x
      BY <1>3
    <2> DEFINE n == Len(q) - 1
               e == [j \in 1..n |-> IF j = p THEN q[Len(q)] ELSE q[j]]
    <2>2. Erase(q, x) = e
      BY <1>3, <2>1 DEF Erase
    <2>3. n \in Nat /\ Len(q) = n + 1
      BY <1>1, <2>1
    <2>4. \A j \in 1..n : e[j] \in Ids
      BY <1>1, <2>1, <2>3, ElementOfSeq
    <2>5. e \in Seq(Ids) /\ DOMAIN e = 1..n
      BY <2>3, <2>4, IsASeq
    <2>6. \A j \in 1..n : e[j] = IF j = p THEN q[n + 1] ELSE q[j]
      BY <2>3
    <2> HIDE DEF e, n
    <2>7. \A i, j \in 1..n + 1 : q[i] = q[j] => i = j
      BY <1>1, <2>3 DEF QueueSound
    <2>8. \A j \in DOMAIN e : e[j] \in m \ {x}
      <3> SUFFICES ASSUME NEW j \in 1..n PROVE e[j] \in m \ {x}
        BY <2>5
      <3>1. q[j] \in m /\ q[n + 1] \in m
        BY <1>1, <2>3 DEF QueueSound
      <3>2. CASE j = p
        BY <3>1, <3>2, <2>1, <2>3, <2>6, <2>7
      <3>3. CASE j # p
        BY <3>1, <3>3, <2>1, <2>3, <2>6, <2>7
      <3> QED BY <3>2, <3>3
    <2>9. \A y \in m \ {x} : \E j \in DOMAIN e : e[j] = y
      <3> SUFFICES ASSUME NEW y \in m, y # x PROVE \E j \in 1..n : e[j] = y
        BY <2>5
      <3>1. PICK i \in 1..n + 1 : q[i] = y
        BY <1>1, <2>3 DEF QueueSound
      <3>2. i # p
        BY <3>1, <2>1
      <3>3. CASE i = n + 1
        <4>1. p \in 1..n /\ e[p] = y
          BY <3>1, <3>2, <3>3, <2>1, <2>3, <2>6
        <4> QED BY <4>1
      <3>4. CASE i # n + 1
        <4>1. i \in 1..n /\ e[i] = y
          BY <3>1, <3>2, <3>4, <2>3, <2>6
        <4> QED BY <4>1
      <3> QED BY <3>3, <3>4
    <2>10. \A i, j \in DOMAIN e : e[i] = e[j] => i = j
      <3> SUFFICES ASSUME NEW i \in 1..n, NEW j \in 1..n, e[i] = e[j] PROVE i = j
        BY <2>5
      <3>1. n + 1 \in 1..n + 1 /\ i \in 1..n + 1 /\ j \in 1..n + 1 /\ i # n + 1 /\ j # n + 1
        BY <2>3
      <3> QED BY <3>1, <2>6, <2>7
    <2>11. m \ {x} \in SUBSET Ids /\ \A i \in m \ {x} : k[i] = "effect"
      BY DEF QueueSound
    <2> QED BY <2>2, <2>5, <2>8, <2>9, <2>10, <2>11 DEF QueueSound
  <1> QED BY <1>2, <1>3

\* The flush takes the oldest entry.
LEMMA TakeSound ==
  ASSUME NEW q, NEW m, NEW k, QueueSound(q, m, k), q # << >>
  PROVE  Head(q) \in Ids /\ QueueSound(Tail(q), m \ {Head(q)}, k)
  <1>1. q \in Seq(Ids) /\ Len(q) \in Nat /\ Len(q) # 0 /\ DOMAIN q = 1..Len(q)
    BY LenProperties, EmptySeq DEF QueueSound
  <1>2. /\ Head(q) = q[1] /\ Head(q) \in Ids
        /\ Tail(q) \in Seq(Ids) /\ DOMAIN Tail(q) = 1..Len(q) - 1
    BY <1>1
  <1>3. \A p \in 1..Len(q) - 1 : Tail(q)[p] = q[p + 1]
    BY <1>1
  <1>4. \A p, r \in 1..Len(q) : q[p] = q[r] => p = r
    BY <1>1 DEF QueueSound
  <1>5. \A p \in DOMAIN Tail(q) : Tail(q)[p] \in m \ {Head(q)}
    <2> SUFFICES ASSUME NEW p \in 1..Len(q) - 1 PROVE q[p + 1] \in m \ {q[1]}
      BY <1>2, <1>3
    <2>1. p + 1 \in 1..Len(q) /\ 1 \in 1..Len(q) /\ p + 1 # 1
      BY <1>1
    <2> QED BY <2>1, <1>1, <1>4 DEF QueueSound
  <1>6. \A i \in m \ {Head(q)} : \E p \in DOMAIN Tail(q) : Tail(q)[p] = i
    <2> SUFFICES ASSUME NEW i \in m, i # q[1] PROVE \E p \in 1..Len(q) - 1 : Tail(q)[p] = i
      BY <1>2
    <2>1. PICK p \in 1..Len(q) : q[p] = i
      BY <1>1 DEF QueueSound
    <2>2. p - 1 \in 1..Len(q) - 1 /\ Tail(q)[p - 1] = i
      BY <2>1, <1>1, <1>3
    <2> QED BY <2>2
  <1>7. \A p, r \in DOMAIN Tail(q) : Tail(q)[p] = Tail(q)[r] => p = r
    <2> SUFFICES ASSUME NEW p \in 1..Len(q) - 1, NEW r \in 1..Len(q) - 1, q[p + 1] = q[r + 1]
                 PROVE  p = r
      BY <1>2, <1>3
    <2>1. p + 1 \in 1..Len(q) /\ r + 1 \in 1..Len(q)
      BY <1>1
    <2>2. p + 1 = r + 1
      BY <2>1, <1>4
    <2> QED BY <2>2, <1>1
  <1> QED BY <1>2, <1>5, <1>6, <1>7 DEF QueueSound

\* A new effect goes to the end.
LEMMA AppendSound ==
  ASSUME NEW q, NEW m, NEW k, QueueSound(q, m, k), NEW x \in Ids, x \notin m,
         k \in [Ids -> Kinds \cup {"empty"}]
  PROVE  QueueSound(Append(q, x), m \cup {x}, [k EXCEPT ![x] = "effect"])
  <1>1. q \in Seq(Ids) /\ Len(q) \in Nat /\ DOMAIN q = 1..Len(q)
    BY LenProperties DEF QueueSound
  <1>2. /\ Append(q, x) \in Seq(Ids) /\ DOMAIN Append(q, x) = 1..Len(q) + 1
        /\ \A p \in 1..Len(q) : Append(q, x)[p] = q[p]
        /\ Append(q, x)[Len(q) + 1] = x
    BY <1>1
  <1>3. \A p \in DOMAIN Append(q, x) : Append(q, x)[p] \in m \cup {x}
    BY <1>1, <1>2 DEF QueueSound
  <1>4. \A i \in m \cup {x} : \E p \in DOMAIN Append(q, x) : Append(q, x)[p] = i
    <2> SUFFICES ASSUME NEW i \in m \cup {x}
                 PROVE  \E p \in 1..Len(q) + 1 : Append(q, x)[p] = i
      BY <1>2
    <2>1. CASE i = x
      <3>1. Len(q) + 1 \in 1..Len(q) + 1
        BY <1>1
      <3> QED BY <3>1, <2>1, <1>2
    <2>2. CASE i \in m
      <3>1. PICK p \in 1..Len(q) : q[p] = i
        BY <2>2, <1>1 DEF QueueSound
      <3>2. p \in 1..Len(q) + 1
        BY <1>1
      <3> QED BY <3>1, <3>2, <1>2
    <2> QED BY <2>1, <2>2
  <1>5. \A p, r \in DOMAIN Append(q, x) : Append(q, x)[p] = Append(q, x)[r] => p = r
    <2>1. \A p \in 1..Len(q) : q[p] # x
      BY <1>1 DEF QueueSound
    <2>2. \A p \in 1..Len(q) + 1 : p = Len(q) + 1 \/ p \in 1..Len(q)
      BY <1>1
    <2> QED BY <2>1, <2>2, <1>1, <1>2 DEF QueueSound
  <1>6. \A i \in m \cup {x} : [k EXCEPT ![x] = "effect"][i] = "effect"
    BY DEF QueueSound
  <1> QED BY <1>2, <1>3, <1>4, <1>5, <1>6 DEF QueueSound

\* The queue only sees the kinds of the entries it holds.
LEMMA QueueKinds ==
  ASSUME NEW q, NEW m, NEW k, NEW k2, QueueSound(q, m, k), \A i \in m : k2[i] = k[i]
  PROVE  QueueSound(q, m, k2)
  BY DEF QueueSound

-----------------------------------------------------------------------------
(* The arena and its edges *)

\* alloc_id hands out an empty entry, and takes it off the free list.
LEMMA AllocSound ==
  ASSUME ArenaKept, NEW k \in Kinds, NEW c \in Codes, k = "slot" => c \in Items, Alloc(k, c)
  PROVE  /\ ArenaKept' /\ NewId \in Ids /\ kind[NewId] = "empty"
         /\ Advanced(gen, kind, gen', kind')
         /\ kind' = [kind EXCEPT ![NewId] = k] /\ code' = [code EXCEPT ![NewId] = c]
         /\ gen' = gen
         /\ \A i \in Ids : kind[i] # "empty" => kind'[i] = kind[i] /\ code'[i] = code[i]
  <1>1. /\ kind \in [Ids -> Kinds \cup {"empty"}] /\ code \in [Ids -> Codes \cup {0}]
        /\ gen \in [Ids -> Nat] /\ free \in Seq(Ids) /\ nextId \in Nat
        /\ Len(free) \in Nat /\ DOMAIN free = 1..Len(free)
    BY LenProperties DEF ArenaKept
  <1>2. /\ NewId \in Ids /\ UNCHANGED gen
        /\ kind' = [kind EXCEPT ![NewId] = k] /\ code' = [code EXCEPT ![NewId] = c]
        /\ free' = FreeLeft
        /\ nextId' = IF free # << >> THEN nextId ELSE nextId + 1
    BY DEF Alloc
  <1>3. PICK n \in Ids : n = NewId
    BY <1>2
  <1>4. k # "empty" /\ Ids \subseteq Nat
    BY IdsFinite DEF Kinds
  <1>5. CASE free # << >>
    <2>1. Len(free) \in 1..Len(free)
      BY <1>1, <1>5, EmptySeq
    <2>2. n = free[Len(free)] /\ nextId' = nextId
      BY <1>2, <1>3, <1>5 DEF NewId
    <2>3. /\ free' \in Seq(Ids) /\ DOMAIN free' = 1..Len(free) - 1
          /\ \A p \in 1..Len(free) - 1 : free'[p] = free[p]
      <3>1. free' = SubSeq(free, 1, Len(free) - 1)
        BY <1>2, <1>5 DEF FreeLeft
      <3> QED BY <3>1, <2>1, <1>1
    <2>0. Len(free) \in Nat
      BY <1>1
    <2>4. \A p \in 1..Len(free) - 1 : p \in 1..Len(free) /\ p # Len(free)
      BY ONLY <2>0
    <2>5. \A p \in 1..Len(free) : p = Len(free) \/ p \in 1..Len(free) - 1
      BY ONLY <2>0
    <2>6. \A p, q \in DOMAIN free : free[p] = free[q] => p = q
      BY DEF ArenaKept, FreeIdsSound
    <2>7. \A p, q \in DOMAIN free' : free'[p] = free'[q] => p = q
      BY <1>1, <2>3, <2>4, <2>6
    <2>8. \A p \in DOMAIN free' : free'[p] < nextId' /\ free'[p] # n
      <3>1. \A p \in DOMAIN free : free[p] < nextId
        BY DEF ArenaKept
      <3> QED BY <3>1, <1>1, <2>1, <2>2, <2>3, <2>4, <2>6
    <2>9. kind[n] = "empty" /\ n < nextId
      BY <1>1, <2>1, <2>2 DEF ArenaKept, FreeIdsSound
    <2>10. \A i \in Ids : i # n =>
             ((\E p \in DOMAIN free' : free'[p] = i) <=> (\E p \in DOMAIN free : free[p] = i))
      BY <1>1, <2>2, <2>3, <2>4, <2>5
    <2>11. \A i \in Ids : kind'[i] = "empty"
             <=> (i >= nextId' \/ \E p \in DOMAIN free' : free'[p] = i)
      <3> SUFFICES ASSUME NEW i \in Ids
                   PROVE  kind'[i] = "empty"
                            <=> (i >= nextId' \/ \E p \in DOMAIN free' : free'[p] = i)
        OBVIOUS
      <3>1. CASE i = n
        BY <3>1, <1>1, <1>2, <1>3, <1>4, <2>2, <2>8, <2>9
      <3>2. CASE i # n
        <4>1. kind'[i] = kind[i]
          BY <3>2, <1>1, <1>2, <1>3
        <4> QED BY <4>1, <3>2, <2>2, <2>10 DEF ArenaKept, FreeIdsSound
      <3> QED BY <3>1, <3>2
    <2> QED BY <1>1, <1>2, <2>2, <2>3, <2>7, <2>8, <2>9, <2>11, <1>3
        DEF ArenaKept, FreeIdsSound, Advanced
  <1>6. CASE free = << >>
    <2>1. n = nextId /\ nextId' = nextId + 1 /\ free' = free
      BY <1>2, <1>3, <1>6 DEF NewId, FreeLeft
    <2>2. DOMAIN free = {}
      BY <1>6
    <2>3. \A i \in Ids : kind[i] = "empty" <=> i >= nextId
      BY <2>2 DEF ArenaKept, FreeIdsSound
    <2>4. \A i \in Ids : kind'[i] = "empty" <=> i >= nextId'
      BY <1>1, <1>2, <1>3, <1>4, <2>1, <2>3
    <2>5. kind[n] = "empty"
      BY <1>1, <2>1, <2>3
    <2> QED BY <1>1, <1>2, <1>3, <2>1, <2>2, <2>4, <2>5 DEF ArenaKept, FreeIdsSound, Advanced
  <1> QED BY <1>5, <1>6

\* Edges survive what leaves occupied entries alone.
LEMMA EdgesStay ==
  ASSUME EdgesKept, UNCHANGED edges, ArenaKept, \A i \in Ids : kind[i] # "empty" => kind'[i] = kind[i]
  PROVE  EdgesKept'
  <1>1. deps' = deps /\ dpts' = dpts
    BY DEF edges
  <1>2. EdgesMatch'
    <2> SUFFICES ASSUME NEW a \in Ids, NEW b \in dpts[a]
                 PROVE  /\ kind'[a] \in {"cell", "slot"} /\ kind'[b] \in {"slot", "effect"}
                        /\ a \in deps[b]
      BY <1>1 DEF EdgesMatch
    <2>1. b \in Ids
      BY DEF EdgesKept
    <2> QED BY <2>1 DEF EdgesKept, EdgesMatch
  <1> QED BY <1>1, <1>2 DEF EdgesKept

LEMMA DetachSound ==
  ASSUME EdgesKept, NEW i \in Ids, Detach(i), UNCHANGED kind
  PROVE  EdgesKept'
  <1>1. deps \in [Ids -> SUBSET Ids] /\ dpts \in [Ids -> SUBSET Ids] /\ EdgesMatch
    BY DEF EdgesKept
  <1>2. /\ dpts' = [a \in Ids |-> IF a \in deps[i] THEN dpts[a] \ {i} ELSE dpts[a]]
        /\ deps' = [deps EXCEPT ![i] = {}]
    BY DEF Detach
  <1>3. deps' \in [Ids -> SUBSET Ids] /\ dpts' \in [Ids -> SUBSET Ids]
    BY <1>1, <1>2
  <1>4. ASSUME NEW a \in Ids, NEW b \in dpts'[a]
        PROVE  /\ kind[a] \in {"cell", "slot"} /\ kind[b] \in {"slot", "effect"}
               /\ a \in deps'[b]
    <2>1. b \in dpts[a] /\ b \in Ids
      BY <1>1, <1>2, <1>3
    <2>2. b # i
      BY <2>1, <1>1, <1>2 DEF EdgesMatch
    <2> QED BY <2>1, <2>2, <1>1, <1>2 DEF EdgesMatch
  <1> QED BY <1>3, <1>4 DEF EdgesKept, EdgesMatch

LEMMA TrackSound ==
  ASSUME ArenaKept, EdgesKept, NEW i \in Ids, NEW f \in Frame, FrameSound(f, gen, kind),
         f.op \in {"compute", "effect"}, Track(i, f), UNCHANGED kind
  PROVE  EdgesKept'
  <1>1. deps \in [Ids -> SUBSET Ids] /\ dpts \in [Ids -> SUBSET Ids] /\ EdgesMatch
    BY DEF EdgesKept
  <1>2. CASE gen[f.id] # f.gen \/ i = f.id
    BY <1>2, EdgesStay DEF Track
  <1>3. CASE ~(gen[f.id] # f.gen \/ i = f.id)
    <2>1. PICK n \in Ids : n = f.id /\ kind[n] \in {"slot", "effect"}
      BY <1>3 DEF FrameSound, Frame
    <2>2. /\ dpts' = IF kind[i] \in {"cell", "slot"} THEN [dpts EXCEPT ![i] = dpts[i] \cup {n}] ELSE dpts
          /\ deps' = [deps EXCEPT ![n] = deps[n] \cup {i}]
      BY <1>1, <1>3, <2>1 DEF Track
    <2>3. deps' \in [Ids -> SUBSET Ids] /\ dpts' \in [Ids -> SUBSET Ids]
      BY <1>1, <2>2
    <2>4. ASSUME NEW a \in Ids, NEW b \in dpts'[a]
          PROVE  /\ kind[a] \in {"cell", "slot"} /\ kind[b] \in {"slot", "effect"}
                 /\ a \in deps'[b]
      <3>1. b \in Ids
        BY <2>3
      <3>2. b \in dpts[a] \/ (a = i /\ b = n /\ kind[i] \in {"cell", "slot"})
        BY <1>1, <2>2
      <3> QED BY <3>1, <3>2, <1>1, <2>1, <2>2 DEF EdgesMatch
    <2> QED BY <2>3, <2>4 DEF EdgesKept, EdgesMatch
  <1> QED BY <1>2, <1>3

\* The nodes a disposal may take, and the order it frees them in.
MayGo(gone, order) ==
  /\ gone \in SUBSET Ids /\ \A i \in gone : kind[i] # "empty"
  /\ order \in Seq(gone)
  /\ \A p, q \in DOMAIN order : order[p] = order[q] => p = q
  /\ \A i \in gone : \E p \in DOMAIN order : order[p] = i
  /\ \A i, j \in Effects(gone) : i = j

\* What becomes of the arena: the entries in `gone' are empty in their next
\* generation, the others are as they were.
Emptied(gone) ==
  /\ kind' = [n \in Ids |-> IF n \in gone THEN "empty" ELSE kind[n]]
  /\ code' = [n \in Ids |-> IF n \in gone THEN 0 ELSE code[n]]
  /\ gen' = [n \in Ids |-> IF n \in gone THEN gen[n] + 1 ELSE gen[n]]

LEMMA TearFrees ==
  ASSUME ArenaKept, NEW gone, NEW order, MayGo(gone, order), Emptied(gone),
         free' = free \o order, UNCHANGED nextId
  PROVE  ArenaKept' /\ Advanced(gen, kind, gen', kind')
  <1>1. /\ kind \in [Ids -> Kinds \cup {"empty"}] /\ code \in [Ids -> Codes \cup {0}]
        /\ gen \in [Ids -> Nat] /\ free \in Seq(Ids) /\ nextId \in Nat
        /\ gone \subseteq Ids /\ order \in Seq(gone)
    BY DEF ArenaKept, MayGo
  <1>2. /\ kind' \in [Ids -> Kinds \cup {"empty"}] /\ code' \in [Ids -> Codes \cup {0}]
        /\ gen' \in [Ids -> Nat]
        /\ \A i \in Ids : kind'[i] = "slot" => code'[i] \in Items
    BY <1>1 DEF Emptied, ArenaKept
  <1>3. Advanced(gen, kind, gen', kind')
    BY <1>1 DEF Emptied, Advanced
  <1>4. order \in Seq(Ids)
    BY <1>1
  <1>5. /\ Len(order) \in Nat /\ DOMAIN order = 1..Len(order)
        /\ Len(free) \in Nat /\ DOMAIN free = 1..Len(free)
    BY <1>1, <1>4, LenProperties
  <1>6. free' \in Seq(Ids) /\ DOMAIN free' = 1..Len(free) + Len(order)
    BY <1>1, <1>4, ConcatProperties, LenProperties
  <1>7. \A i \in DOMAIN free' :
          free'[i] = IF i <= Len(free) THEN free[i] ELSE order[i - Len(free)]
    BY <1>1, <1>4, <1>6, ConcatProperties
  <1>8. \A i \in DOMAIN order : order[i] \in gone
    BY <1>1, <1>5
  <1>9. \A i \in gone : i < nextId /\ \A p \in DOMAIN free : free[p] # i
    <2>1. Ids \subseteq Nat
      BY IdsFinite
    <2> QED BY <2>1, <1>1 DEF ArenaKept, FreeIdsSound, MayGo
  <1>10. \A p \in DOMAIN free' : free'[p] < nextId
    <2>1. \A p \in DOMAIN free : free[p] < nextId
      BY DEF ArenaKept
    <2> QED BY <2>1, <1>5, <1>6, <1>7, <1>8, <1>9
  <1>11. \A i, j \in DOMAIN free' : free'[i] = free'[j] => i = j
    <2> SUFFICES ASSUME NEW i \in DOMAIN free', NEW j \in DOMAIN free',
                        free'[i] = free'[j], i < j
                 PROVE  FALSE
      BY <1>5, <1>6
    <2>1. CASE j <= Len(free)
      BY <2>1, <1>5, <1>6, <1>7 DEF ArenaKept, FreeIdsSound
    <2>2. CASE i <= Len(free) /\ j > Len(free)
      BY <2>2, <1>5, <1>6, <1>7, <1>8, <1>9
    <2>3. CASE i > Len(free)
      <3>1. i - Len(free) \in DOMAIN order /\ j - Len(free) \in DOMAIN order
        BY <2>3, <1>5, <1>6
      <3>2. order[i - Len(free)] = order[j - Len(free)]
        BY <2>3, <1>5, <1>6, <1>7
      <3>3. i - Len(free) = j - Len(free)
        BY <3>1, <3>2 DEF MayGo
      <3> QED BY <3>3, <1>5, <1>6
    <2> QED BY <2>1, <2>2, <2>3, <1>5, <1>6
  <1>12. \A i \in Ids : (\E p \in DOMAIN free' : free'[p] = i)
                          <=> (i \in gone \/ \E p \in DOMAIN free : free[p] = i)
    <2> SUFFICES ASSUME NEW i \in Ids
                 PROVE  (\E p \in DOMAIN free' : free'[p] = i)
                          <=> (i \in gone \/ \E p \in DOMAIN free : free[p] = i)
      OBVIOUS
    <2>1. ASSUME NEW p \in DOMAIN free', free'[p] = i
          PROVE  i \in gone \/ \E q \in DOMAIN free : free[q] = i
      BY <2>1, <1>5, <1>6, <1>7, <1>8
    <2>2. ASSUME i \in gone PROVE \E p \in DOMAIN free' : free'[p] = i
      <3>1. PICK p \in DOMAIN order : order[p] = i
        BY <2>2 DEF MayGo
      <3>2. Len(free) + p \in DOMAIN free' /\ free'[Len(free) + p] = i
        BY <3>1, <1>5, <1>6, <1>7
      <3> QED BY <3>2
    <2>3. ASSUME NEW p \in DOMAIN free, free[p] = i PROVE \E q \in DOMAIN free' : free'[q] = i
      <3>1. p \in DOMAIN free' /\ free'[p] = i
        BY <2>3, <1>5, <1>6, <1>7
      <3> QED BY <3>1
    <2> QED BY <2>1, <2>2, <2>3
  <1>13. \A i \in Ids : kind'[i] = "empty" <=> (i >= nextId \/ \E p \in DOMAIN free' : free'[p] = i)
    <2> SUFFICES ASSUME NEW i \in Ids
                 PROVE  kind'[i] = "empty"
                          <=> (i >= nextId \/ \E p \in DOMAIN free' : free'[p] = i)
      OBVIOUS
    <2>1. kind'[i] = "empty" <=> (i \in gone \/ kind[i] = "empty")
      BY <1>1 DEF Emptied
    <2>2. kind[i] = "empty" <=> (i >= nextId \/ \E p \in DOMAIN free : free[p] = i)
      BY DEF ArenaKept, FreeIdsSound
    <2> QED BY <2>1, <2>2, <1>12
  <1> QED BY <1>1, <1>2, <1>3, <1>6, <1>10, <1>11, <1>13 DEF ArenaKept, FreeIdsSound

LEMMA TearUnlinks ==
  ASSUME EdgesKept, ArenaKept, NEW gone \in SUBSET Ids, Emptied(gone),
         dpts' = DependentsLeft(gone), deps' = DependenciesLeft(gone)
  PROVE  EdgesKept'
  <1>1. deps \in [Ids -> SUBSET Ids] /\ dpts \in [Ids -> SUBSET Ids] /\ EdgesMatch
    BY DEF EdgesKept
  <1>2. deps' \in [Ids -> SUBSET Ids] /\ dpts' \in [Ids -> SUBSET Ids]
    BY <1>1 DEF DependentsLeft, DependenciesLeft
  <1>3. ASSUME NEW a \in Ids, NEW b \in dpts'[a]
        PROVE  /\ kind'[a] \in {"cell", "slot"} /\ kind'[b] \in {"slot", "effect"}
               /\ a \in deps'[b]
    <2>1. b \in Ids /\ a \notin gone /\ b \in dpts[a]
      BY <1>1, <1>2 DEF DependentsLeft
    <2>2. a \in deps[b] /\ kind[a] \in {"cell", "slot"} /\ kind[b] \in {"slot", "effect"}
      BY <2>1, <1>1 DEF EdgesMatch
    <2>3. b \notin gone
      BY <2>1, <2>2 DEF DependentsLeft
    <2>4. a \in deps'[b]
      BY <2>1, <2>2, <2>3 DEF DependenciesLeft
    <2> QED BY <2>1, <2>2, <2>3, <2>4 DEF Emptied
  <1> QED BY <1>2, <1>3 DEF EdgesKept, EdgesMatch

LEMMA TearDequeues ==
  ASSUME QueueSound(pending, scheduled, kind), NEW gone, NEW order, MayGo(gone, order), Emptied(gone),
         pending' = IF Effects(gone) = {} THEN pending
                    ELSE Erase(pending, CHOOSE n \in Effects(gone) : TRUE),
         scheduled' = scheduled \ Effects(gone)
  PROVE  QueueSound(pending', scheduled', kind')
  <1>1. gone \subseteq Ids /\ scheduled \subseteq Ids
    BY DEF MayGo, QueueSound
  <1>2. QueueSound(pending', scheduled', kind)
    <2>1. CASE Effects(gone) = {}
      <3>1. pending' = pending /\ scheduled' = scheduled
        BY <2>1
      <3> QED BY <3>1
    <2>2. CASE Effects(gone) # {}
      <3>1. PICK x \in Effects(gone) : x = CHOOSE n \in Effects(gone) : TRUE
        BY <2>2
      <3>2. Effects(gone) = {x}
        BY <3>1 DEF MayGo
      <3>3. pending' = Erase(pending, x) /\ scheduled' = scheduled \ {x}
        BY <2>2, <3>1, <3>2
      <3> QED BY <3>3, EraseSound
    <2> QED BY <2>1, <2>2
  <1>3. \A i \in scheduled' : kind[i] = "effect" /\ i \in Ids /\ i \notin Effects(gone)
    BY <1>1 DEF QueueSound
  <1>4. \A i \in scheduled' : i \notin gone
    BY <1>3 DEF Effects
  <1>5. \A i \in scheduled' : kind'[i] = kind[i]
    BY <1>3, <1>4 DEF Emptied
  <1> QED BY <1>2, <1>5, QueueKinds

LEMMA TearSound ==
  ASSUME ArenaKept, EdgesKept, QueueSound(pending, scheduled, kind), FlagsTyped,
         NEW gone, NEW order, NEW roots, MayGo(gone, order), Tear(gone, order, roots)
  PROVE  /\ ArenaKept' /\ EdgesKept' /\ QueueSound(pending', scheduled', kind') /\ FlagsTyped'
         /\ Advanced(gen, kind, gen', kind') /\ Emptied(gone)
  <1>1. Emptied(gone) /\ gone \in SUBSET Ids
    BY DEF Tear, Emptied, MayGo
  <1>2. ArenaKept' /\ Advanced(gen, kind, gen', kind')
    BY <1>1, TearFrees DEF Tear
  <1>3. EdgesKept'
    BY <1>1, TearUnlinks DEF Tear
  <1>4. QueueSound(pending', scheduled', kind')
    BY <1>1, TearDequeues DEF Tear
  <1>5. FlagsTyped'
    <2>1. val' \in [Ids -> Results]
      BY DEF Tear, FlagsTyped, Results
    <2>2. dirty' \in [Ids -> BOOLEAN] /\ force' \in [Ids -> BOOLEAN] /\ busy' \in [Ids -> BOOLEAN]
      BY DEF Tear, FlagsTyped, MarkDirty, MarkForce
    <2>3. armed' \in [Ids -> Codes \cup {0}]
      BY DEF Tear, FlagsTyped
    <2> QED BY <2>1, <2>2, <2>3 DEF FlagsTyped
  <1> QED BY <1>1, <1>2, <1>3, <1>4, <1>5

-----------------------------------------------------------------------------
(* What several actions share *)

LEMMA RetopSound ==
  ASSUME StackSound(stack, gen, kind), stack # << >>, Top.op # "host", NEW f \in Frame,
         f.op = Top.op, f.id = Top.id, f.gen = Top.gen, f.code = Top.code
  PROVE  StackSound(Push(f, Rest), gen, kind) /\ Push(f, Rest) # << >>
  <1>1. FrameSound(Top, gen, kind) /\ StackSound(Rest, gen, kind) /\ Rest # << >>
    BY TopSound DEF Top, Rest
  <1>2. FrameSound(f, gen, kind)
    BY <1>1 DEF FrameSound
  <1> QED BY <1>1, <1>2, PushSound

LEMMA EffectsTyped ==
  ASSUME NEW S \in SUBSET Ids
  PROVE  Effects(S) \in SUBSET Ids /\ \A i \in Effects(S) : kind[i] = "effect"
  BY DEF Effects

LEMMA WalksInside ==
  ASSUME NEW roots, NEW d, NEW f
  PROVE  Marked(roots, d, f) \in SUBSET Ids /\ Cleared(roots, d) \in SUBSET Ids
  BY DEF Marked, Cleared, Visited

LEMMA MarksTyped ==
  ASSUME NEW S, NEW d \in [Ids -> BOOLEAN]
  PROVE  /\ MarkDirty(S, d) \in [Ids -> BOOLEAN] /\ MarkForce(S, d) \in [Ids -> BOOLEAN]
         /\ Forced(S, d) \in [Ids -> BOOLEAN]
  BY DEF MarkDirty, MarkForce, Forced

LEMMA ClearFromSound ==
  ASSUME ArenaKept, FlagsTyped, QueueSound(pending, scheduled, kind),
         StackSound(stack, gen, kind), stack # << >>,
         NEW roots, NEW d \in [Ids -> BOOLEAN], NEW f \in [Ids -> BOOLEAN],
         NEW more \in SUBSET Ids, \A i \in more : kind[i] = "effect", NEW b \in BOOLEAN,
         ClearFrom(roots, d, f, more, b)
  PROVE  /\ val' \in [Ids -> Results] /\ dirty' \in [Ids -> BOOLEAN] /\ force' \in [Ids -> BOOLEAN]
         /\ QueueSound(pending', scheduled', kind)
         /\ StackSound(stack', gen, kind) /\ flushing' \in BOOLEAN
  <1> DEFINE hit == Cleared(roots, d)
             g == [n \in Ids |-> f[n] /\ ~(n \in hit /\ IsSlot(n))]
  <1>1. /\ val' = [n \in Ids |-> IF n \in hit /\ IsSlot(n) THEN None ELSE val[n]]
        /\ dirty' = [n \in Ids |-> d[n] /\ ~(n \in hit /\ IsSlot(n))]
        /\ force' = Forced(Effects(hit), g)
        /\ Schedule(more \cup Effects(hit))
        /\ FlushOn(stack, b)
    BY DEF ClearFrom
  <1>2. hit \in SUBSET Ids /\ g \in [Ids -> BOOLEAN]
    BY WalksInside
  <1> HIDE DEF hit, g
  <1>3. val' \in [Ids -> Results]
    BY <1>1 DEF FlagsTyped, Results
  <1>4. dirty' \in [Ids -> BOOLEAN]
    BY <1>1
  <1>5. force' \in [Ids -> BOOLEAN]
    BY <1>1, <1>2, MarksTyped
  <1>6. more \cup Effects(hit) \in SUBSET Ids /\ \A i \in more \cup Effects(hit) : kind[i] = "effect"
    BY <1>2, EffectsTyped
  <1>7. QueueSound(pending', scheduled', kind)
    BY <1>1, <1>6, ScheduleSound
  <1>8. StackSound(stack', gen, kind) /\ flushing' \in BOOLEAN
    BY <1>1, FlushOnSound
  <1> QED BY <1>3, <1>4, <1>5, <1>7, <1>8

\* The orders in which one node, or a puller and its node, are freed.
LEMMA FreedOne ==
  ASSUME NEW i
  PROVE  << >> \o <<i>> \in Seq({i}) /\ DOMAIN (<< >> \o <<i>>) = {1} /\ (<< >> \o <<i>>)[1] = i
  <1>1. << >> \in Seq({i}) /\ <<i>> \in Seq({i}) /\ Len(<< >>) = 0 /\ Len(<<i>>) = 1 /\ <<i>>[1] = i
    OBVIOUS
  <1>2. << >> \o <<i>> \in Seq({i}) /\ Len(<< >> \o <<i>>) = 1 /\ (<< >> \o <<i>>)[1] = i
    BY <1>1, ConcatProperties
  <1> QED BY <1>2, LenProperties

LEMMA FreedTwo ==
  ASSUME NEW i, NEW p
  PROVE  /\ <<p>> \o <<i>> \in Seq({i, p}) /\ DOMAIN (<<p>> \o <<i>>) = {1, 2}
         /\ (<<p>> \o <<i>>)[1] = p /\ (<<p>> \o <<i>>)[2] = i
  <1>1. /\ <<p>> \in Seq({i, p}) /\ Len(<<p>>) = 1 /\ <<p>>[1] = p
        /\ <<i>> \in Seq({i, p}) /\ Len(<<i>>) = 1 /\ <<i>>[1] = i
    OBVIOUS
  <1>2. /\ <<p>> \o <<i>> \in Seq({i, p}) /\ Len(<<p>> \o <<i>>) = 2
        /\ (<<p>> \o <<i>>)[1] = p /\ (<<p>> \o <<i>>)[2] = i
    BY <1>1, ConcatProperties
  <1> QED BY <1>2, LenProperties

\* A disposal takes the node and the puller its handle still names.
LEMMA TearNodeSound ==
  ASSUME ArenaKept, EdgesKept, QueueSound(pending, scheduled, kind), FlagsTyped, RestTyped,
         NEW i \in Ids, kind[i] # "empty", TearNode(i)
  PROVE  /\ ArenaKept' /\ EdgesKept' /\ QueueSound(pending', scheduled', kind') /\ FlagsTyped'
         /\ Advanced(gen, kind, gen', kind')
         /\ eager' \in [Ids -> BOOLEAN] /\ eagerBy' \in [Ids -> Handle \cup {None}]
         /\ \E gone \in SUBSET Ids : /\ Emptied(gone) /\ i \in gone
                                     /\ gone \subseteq {i} \cup Named(eagerBy[i])
  <1> DEFINE puller == IF IsSlot(i) /\ eager[i] THEN Named(eagerBy[i]) ELSE {}
             first == IF puller = {} THEN << >> ELSE <<CHOOSE p \in puller : TRUE>>
             gone == {i} \cup puller
             order == first \o <<i>>
  <1>1. /\ Tear(gone, order, Orphans(i))
        /\ eagerBy' = [eagerBy EXCEPT ![i] = IF IsSlot(i) /\ eager[i] THEN None ELSE eagerBy[i]]
        /\ eager' = [eager EXCEPT ![i] = FALSE]
    BY DEF TearNode, RestTyped
  <1>2. eager' \in [Ids -> BOOLEAN] /\ eagerBy' \in [Ids -> Handle \cup {None}]
    BY <1>1 DEF RestTyped
  <1>3. \A p \in Named(eagerBy[i]) : p \in Ids /\ kind[p] = "effect"
    BY DEF Named, RestTyped, Handle
  <1>4. \A p, q \in Named(eagerBy[i]) : p = q
    BY DEF Named
  <1>5. gone \in SUBSET Ids /\ (\A j \in gone : kind[j] # "empty") /\ gone \subseteq {i} \cup Named(eagerBy[i])
    BY <1>3
  <1>6. \A p \in puller : p # i /\ kind[i] = "slot"
    BY <1>3 DEF IsSlot
  <1>7. \A j, m \in Effects(gone) : j = m
    BY <1>4, <1>6 DEF Effects
  <1>8. /\ order \in Seq(gone)
        /\ \A p, q \in DOMAIN order : order[p] = order[q] => p = q
        /\ \A j \in gone : \E p \in DOMAIN order : order[p] = j
    <2>1. CASE puller = {}
      <3>1. order = << >> \o <<i>> /\ gone = {i}
        BY <2>1
      <3> HIDE DEF order, gone, puller, first
      <3> QED BY <3>1, FreedOne
    <2>2. CASE puller # {}
      <3>1. PICK p \in puller : first = <<p>>
        BY <2>2
      <3>2. puller = {p} /\ p # i
        BY <1>4, <1>6
      <3>3. order = <<p>> \o <<i>> /\ gone = {i, p}
        BY <3>1, <3>2
      <3> HIDE DEF order, gone, puller, first
      <3> QED BY <3>2, <3>3, FreedTwo
    <2> QED BY <2>1, <2>2
  <1>9. MayGo(gone, order)
    BY <1>5, <1>7, <1>8 DEF MayGo
  <1>10. i \in gone
    OBVIOUS
  <1> HIDE DEF gone, order, puller
  <1>11. /\ ArenaKept' /\ EdgesKept' /\ QueueSound(pending', scheduled', kind') /\ FlagsTyped'
         /\ Advanced(gen, kind, gen', kind') /\ Emptied(gone)
    BY <1>1, <1>9, TearSound
  <1> QED BY <1>2, <1>5, <1>10, <1>11

\* The handle an item is held by.
LEMMA MadeTyped ==
  ASSUME RestTyped, NEW k \in Items, made[k] # None
  PROVE  made[k] \in Handle /\ made[k].id \in Ids /\ made[k].gen \in Nat
  BY DEF RestTyped, Handle

\* What a step that leaves a group of variables alone keeps.
LEMMA ArenaStays ==
  ASSUME ArenaKept, UNCHANGED arena
  PROVE  ArenaKept'
  BY DEF ArenaKept, FreeIdsSound, arena

LEMMA QueueStays ==
  ASSUME QueueSound(pending, scheduled, kind), UNCHANGED <<kind, pending, scheduled>>
  PROVE  QueueSound(pending', scheduled', kind')
  OBVIOUS

-----------------------------------------------------------------------------
(* Closures *)

LEMMA ClosureGetKeeps ==
  ASSUME GraphInv, ClosureGet
  PROVE  GraphInv'
  <1>0. /\ ArenaKept /\ FlagsTyped /\ RestTyped /\ EdgesKept
        /\ QueueSound(pending, scheduled, kind) /\ StackSound(stack, gen, kind)
    BY DEF GraphInv
  <1>1. PICK k \in Items :
          /\ Asks([do |-> "get", of |-> k]) /\ made[k] # None
          /\ LET i == made[k].id IN
             IF ~Top.pulled THEN
               /\ Track(i, Top)
               /\ CASE IsSlot(i) /\ Plan[k].kind = "slot" /\ ~Clean(i) ->
                         EnterRefresh(i, Push([Top EXCEPT !.pulled = TRUE], Rest))
                    [] kind[i] = Plan[k].kind /\ (IsSlot(i) => Clean(i)) ->
                         stack' = Resume(val[i]) /\ UNCHANGED busy
                    [] OTHER -> Unwind
             ELSE /\ IF IsSlot(i) THEN stack' = Resume(val[i]) /\ UNCHANGED busy ELSE Unwind
                  /\ UNCHANGED edges
          /\ UNCHANGED <<arena, val, dirty, force, eagers, armed, sched, batches, handles, seen>>
    BY DEF ClosureGet
  <1>2. PICK i \in Ids : i = made[k].id
    BY <1>0, <1>1, MadeTyped
  <1>3. stack # << >> /\ Top.op \in {"compute", "effect"} /\ Top.op # "host"
    BY <1>1 DEF Asks, InClosure
  <1>4. Top \in Frame /\ FrameSound(Top, gen, kind)
    BY <1>0, <1>3, TopSound DEF Top
  <1>5. ArenaKept' /\ UNCHANGED <<kind, gen, pending, scheduled>>
    BY <1>0, <1>1, ArenaStays DEF arena, sched
  <1>6. EdgesKept'
    <2>1. Track(i, Top) \/ UNCHANGED edges
      BY <1>1, <1>2
    <2>2. CASE Track(i, Top)
      BY <2>2, <1>0, <1>3, <1>4, <1>5, TrackSound
    <2>3. CASE UNCHANGED edges
      BY <2>3, <1>0, <1>5, EdgesStay
    <2> QED BY <2>1, <2>2, <2>3
  <1>7. StackSound(stack', gen, kind) /\ busy' \in [Ids -> BOOLEAN]
    <2> DEFINE f == [Top EXCEPT !.pulled = TRUE]
    <2>1. \/ EnterRefresh(i, Push(f, Rest))
          \/ stack' = Resume(val[i]) /\ UNCHANGED busy
          \/ Unwind
      BY <1>1, <1>2
    <2>2. busy \in [Ids -> BOOLEAN] /\ val[i] \in Results
      BY <1>0 DEF FlagsTyped
    <2>3. CASE EnterRefresh(i, Push(f, Rest))
      <3>1. f \in Frame /\ f.op = Top.op /\ f.id = Top.id /\ f.gen = Top.gen /\ f.code = Top.code
        BY <1>4 DEF Frame
      <3> HIDE DEF f
      <3>2. StackSound(Push(f, Rest), gen, kind) /\ Push(f, Rest) # << >>
        BY <3>1, <1>0, <1>3, RetopSound
      <3> QED BY <3>2, <2>2, <2>3, <1>0, EnterRefreshSound
    <2>4. CASE stack' = Resume(val[i]) /\ UNCHANGED busy
      BY <2>2, <2>4, <1>0, ResumeSound
    <2>5. CASE Unwind
      BY <2>2, <2>5, UnwindSound
    <2> QED BY <2>1, <2>3, <2>4, <2>5
  <1>8. FlagsTyped' /\ RestTyped'
    BY <1>0, <1>1, <1>7 DEF FlagsTyped, RestTyped, eagers, sched, batches, handles
  <1> QED BY <1>0, <1>5, <1>6, <1>7, <1>8, QueueStays DEF GraphInv

LEMMA ThrowAndGetKeep ==
  ASSUME GraphInv, ClosureThrow \/ HostGet
  PROVE  GraphInv'
  <1>0. /\ ArenaKept /\ FlagsTyped /\ RestTyped /\ EdgesKept
        /\ QueueSound(pending, scheduled, kind) /\ StackSound(stack, gen, kind)
    BY DEF GraphInv
  <1>1. UNCHANGED <<arena, val, dirty, force, eagers, armed, edges, sched, batches, handles, seen>>
    BY DEF ClosureThrow, HostGet
  <1>2. StackSound(stack', gen, kind) /\ busy' \in [Ids -> BOOLEAN]
    <2>1. busy \in [Ids -> BOOLEAN]
      BY <1>0 DEF FlagsTyped
    <2>2. CASE ClosureThrow
      BY <2>1, <2>2, UnwindSound DEF ClosureThrow
    <2>3. CASE HostGet
      <3>1. PICK k \in Items : HostIdle /\ made[k] # None /\ EnterRefresh(made[k].id, stack)
        BY <2>3 DEF HostGet, HostCalls
      <3>2. made[k].id \in Ids /\ stack # << >>
        BY <3>1, <1>0, MadeTyped DEF HostIdle
      <3> QED BY <2>1, <3>1, <3>2, <1>0, EnterRefreshSound
    <2> QED BY <2>2, <2>3
  <1>3. ArenaKept' /\ UNCHANGED <<kind, gen, pending, scheduled>>
    BY <1>0, <1>1, ArenaStays DEF arena, sched
  <1>4. EdgesKept'
    BY <1>0, <1>1, <1>3, EdgesStay
  <1>5. FlagsTyped' /\ RestTyped'
    BY <1>0, <1>1, <1>2 DEF FlagsTyped, RestTyped, eagers, sched, batches, handles
  <1> QED BY <1>0, <1>2, <1>3, <1>4, <1>5, QueueStays DEF GraphInv

\* A disposal through a handle, by id out of a closure, or of nothing.
LEMMA DisposalKeeps ==
  ASSUME GraphInv, stack' = Resume(None), UNCHANGED <<flushing, batches, handles, seen>>,
         NEW i \in Ids,
         \/ kind[i] # "empty" /\ TearNode(i)
         \/ UNCHANGED <<arena, flags, eagers, armed, edges, pending, scheduled>>
  PROVE  GraphInv'
  <1>0. /\ ArenaKept /\ FlagsTyped /\ RestTyped /\ EdgesKept
        /\ QueueSound(pending, scheduled, kind) /\ StackSound(stack, gen, kind)
    BY DEF GraphInv
  <1>1. StackSound(stack', gen, kind)
    BY <1>0, ResumeSound DEF Results
  <1>2. CASE kind[i] # "empty" /\ TearNode(i)
    <2>1. /\ ArenaKept' /\ EdgesKept' /\ QueueSound(pending', scheduled', kind') /\ FlagsTyped'
          /\ Advanced(gen, kind, gen', kind')
          /\ eager' \in [Ids -> BOOLEAN] /\ eagerBy' \in [Ids -> Handle \cup {None}]
      BY <1>0, <1>2, TearNodeSound
    <2>2. StackSound(stack', gen', kind')
      BY <1>1, <2>1, StackAdvances
    <2>3. RestTyped'
      BY <1>0, <2>1 DEF RestTyped, batches, handles
    <2> QED BY <2>1, <2>2, <2>3 DEF GraphInv
  <1>3. CASE UNCHANGED <<arena, flags, eagers, armed, edges, pending, scheduled>>
    <2>1. ArenaKept' /\ UNCHANGED <<kind, gen, pending, scheduled>>
      BY <1>0, <1>3, ArenaStays DEF arena
    <2>2. EdgesKept'
      BY <1>0, <1>3, <2>1, EdgesStay
    <2>3. FlagsTyped' /\ RestTyped'
      BY <1>0, <1>3 DEF FlagsTyped, RestTyped, flags, eagers, batches, handles
    <2> QED BY <1>0, <1>1, <2>1, <2>2, <2>3, QueueStays DEF GraphInv
  <1> QED BY <1>2, <1>3

LEMMA DisposeKeeps ==
  ASSUME GraphInv, DisposeSelf \/ Dispose
  PROVE  GraphInv'
  <1>0. RestTyped /\ StackSound(stack, gen, kind)
    BY DEF GraphInv
  <1>1. CASE DisposeSelf
    <2>1. stack # << >>
      BY <1>1 DEF DisposeSelf, Asks, InClosure
    <2>2. Top.id \in Ids
      BY <2>1, <1>0, TopSound DEF Top, Frame
    <2> QED BY <1>1, <2>2, DisposalKeeps DEF DisposeSelf
  <1>2. CASE Dispose
    <2>1. PICK k \in Items : DisposeItem(k)
      BY <1>2 DEF Dispose
    <2>2. made[k].id \in Ids /\ Plan[k].kind # "empty"
      BY <2>1, <1>0, MadeTyped, PlanTyped DEF DisposeItem, Kinds
    <2>3. Fenced(k, made[k]) => kind[made[k].id] # "empty"
      BY <2>2 DEF Fenced
    <2> QED BY <2>1, <2>2, <2>3, DisposalKeeps DEF DisposeItem
  <1> QED BY <1>1, <1>2

LEMMA LazyKeeps ==
  ASSUME GraphInv, Lazy
  PROVE  GraphInv'
  <1>0. /\ ArenaKept /\ FlagsTyped /\ RestTyped /\ EdgesKept
        /\ QueueSound(pending, scheduled, kind) /\ StackSound(stack, gen, kind)
    BY DEF GraphInv
  <1>1. PICK k \in Items :
          /\ made[k] # None
          /\ eagerBy[made[k].id] # None
          /\ eagerBy' = [eagerBy EXCEPT ![made[k].id] = None]
          /\ eager' = [eager EXCEPT ![made[k].id] = FALSE]
          /\ IF Named(eagerBy[made[k].id]) = {}
             THEN UNCHANGED <<arena, flags, armed, edges, pending, scheduled>>
             ELSE Tear(Named(eagerBy[made[k].id]), <<eagerBy[made[k].id].id>>, {})
    BY DEF Lazy
  <1>2. UNCHANGED <<flushing, batches, stack, handles, seen>>
    BY DEF Lazy
  <1>3. PICK h \in Handle : h = eagerBy[made[k].id]
    BY <1>0, <1>1, MadeTyped DEF RestTyped
  <1>4. RestTyped'
    <2>1. eager' \in [Ids -> BOOLEAN] /\ eagerBy' \in [Ids -> Handle \cup {None}]
      BY <1>0, <1>1 DEF RestTyped
    <2> QED BY <1>0, <1>2, <2>1 DEF RestTyped, batches, handles
  <1>5. CASE Named(h) = {}
    <2>1. UNCHANGED <<arena, flags, armed, edges, pending, scheduled>>
      BY <1>1, <1>3, <1>5
    <2>2. ArenaKept' /\ UNCHANGED <<kind, gen, pending, scheduled>>
      BY <1>0, <2>1, ArenaStays DEF arena
    <2>3. EdgesKept'
      BY <1>0, <2>1, <2>2, EdgesStay
    <2>4. FlagsTyped'
      BY <1>0, <2>1 DEF FlagsTyped, flags
    <2> QED BY <1>0, <1>2, <1>4, <2>2, <2>3, <2>4, QueueStays DEF GraphInv
  <1>6. CASE Named(h) # {}
    <2>1. Tear({h.id}, <<h.id>>, {}) /\ kind[h.id] = "effect" /\ h.id \in Ids
      <3>1. Named(h) = {h.id} /\ kind[h.id] = "effect" /\ h.id \in Ids
        BY <1>6 DEF Named, Handle
      <3> QED BY <1>1, <1>3, <1>6, <3>1
    <2>2. PICK n \in Ids : n = h.id
      BY <2>1
    <2>3. MayGo({n}, <<n>>)
      BY <2>1, <2>2 DEF MayGo, Effects
    <2>4. /\ ArenaKept' /\ EdgesKept' /\ QueueSound(pending', scheduled', kind') /\ FlagsTyped'
          /\ Advanced(gen, kind, gen', kind')
      BY <1>0, <2>1, <2>2, <2>3, TearSound
    <2>5. StackSound(stack', gen', kind')
      BY <1>0, <1>2, <2>4, StackAdvances
    <2> QED BY <1>4, <2>4, <2>5 DEF GraphInv
  <1> QED BY <1>5, <1>6

-----------------------------------------------------------------------------
(* Writes, clears and batches *)

\* An operation is issued by an activation.
LEMMA IssuedInside ==
  ASSUME StackSound(stack, gen, kind), NEW op, Issued(op)
  PROVE  stack # << >> /\ StackSound(Resume(None), gen, kind) /\ Resume(None) # << >>
  <1>1. stack # << >>
    BY DEF Issued, Asks, InClosure, HostCalls, HostIdle
  <1>2. None \in Results
    BY DEF Results
  <1> QED BY <1>1, <1>2, ResumeSound

\* A step that writes flags, queue and batches only.
LEMMA FlagStepKeeps ==
  ASSUME GraphInv, UNCHANGED <<arena, eagers, edges, handles>>,
         FlagsTyped', QueueSound(pending', scheduled', kind), flushing' \in BOOLEAN,
         batchDepth' \in Nat,
         batched' \in [cells : SUBSET Ids, clears : SUBSET Ids, slots : SUBSET Ids],
         seen' \in [Codes -> Logs \cup {None}],
         StackSound(stack', gen, kind)
  PROVE  GraphInv'
  <1>0. ArenaKept /\ RestTyped /\ EdgesKept
    BY DEF GraphInv
  <1>1. ArenaKept' /\ UNCHANGED <<kind, gen>>
    BY <1>0, ArenaStays DEF arena
  <1>2. EdgesKept'
    BY <1>0, <1>1, EdgesStay
  <1>3. RestTyped'
    BY <1>0 DEF RestTyped, eagers, handles
  <1>4. QueueSound(pending', scheduled', kind') /\ StackSound(stack', gen', kind')
    BY <1>1
  <1> QED BY <1>1, <1>2, <1>3, <1>4 DEF GraphInv

LEMMA SetKeeps ==
  ASSUME GraphInv, Set
  PROVE  GraphInv'
  <1>0. /\ ArenaKept /\ FlagsTyped /\ RestTyped /\ EdgesKept
        /\ QueueSound(pending, scheduled, kind) /\ StackSound(stack, gen, kind)
    BY DEF GraphInv
  <1>1. PICK k \in Items, v \in Values :
          /\ Issued([do |-> "set", of |-> k, to |-> v]) /\ made[k] # None
          /\ LET i == made[k].id
                 reached == Marked(dpts[i], dirty, force) IN
             /\ val' = [val EXCEPT ![i] = v]
             /\ IF EqualWrite(i, v) THEN stack' = Resume(None) /\ UNCHANGED <<dirty, force, sched, batched>>
                ELSE IF Batching
                THEN /\ batched' = [batched EXCEPT !.cells = @ \cup {i}]
                     /\ stack' = Resume(None) /\ UNCHANGED <<dirty, force, sched>>
                ELSE /\ dirty' = MarkDirty(reached, dirty)
                     /\ force' = Forced(Effects(dpts[i]), MarkForce(dpts[i], force))
                     /\ Schedule(Effects(reached))
                     /\ IF Effects(reached) = {} THEN stack' = Resume(None) /\ UNCHANGED flushing
                        ELSE FlushOn(Resume(None), FALSE)
                     /\ UNCHANGED batched
          /\ UNCHANGED <<arena, busy, eagers, armed, edges, batchDepth, handles, seen>>
    BY DEF Set
  <1>2. PICK i \in Ids : i = made[k].id
    BY <1>0, <1>1, MadeTyped
  <1>3. StackSound(Resume(None), gen, kind) /\ Resume(None) # << >>
    BY <1>0, <1>1, IssuedInside
  <1>4. val' \in [Ids -> Results]
    BY <1>0, <1>1, <1>2 DEF FlagsTyped, Results
  <1> DEFINE reached == Marked(dpts[i], dirty, force)
             Quiet == stack' = Resume(None) /\ UNCHANGED <<dirty, force, sched>>
             Rippling == /\ dirty' = MarkDirty(reached, dirty)
                         /\ force' = Forced(Effects(dpts[i]), MarkForce(dpts[i], force))
                         /\ Schedule(Effects(reached))
                         /\ \/ stack' = Resume(None) /\ UNCHANGED flushing
                            \/ FlushOn(Resume(None), FALSE)
  <1>5. Quiet \/ Rippling
    BY <1>1, <1>2
  <1>6. batched' \in [cells : SUBSET Ids, clears : SUBSET Ids, slots : SUBSET Ids]
    <2>1. batched \in [cells : SUBSET Ids, clears : SUBSET Ids, slots : SUBSET Ids]
      BY <1>0 DEF RestTyped
    <2>2. UNCHANGED batched \/ batched' = [batched EXCEPT !.cells = batched.cells \cup {i}]
      BY <1>1, <1>2
    <2> QED BY <2>1, <2>2
  <1>7. CASE Quiet
    <2>1. FlagsTyped'
      BY <1>0, <1>1, <1>4, <1>7 DEF FlagsTyped
    <2>2. /\ QueueSound(pending', scheduled', kind) /\ flushing' \in BOOLEAN
          /\ batchDepth' \in Nat /\ seen' \in [Codes -> Logs \cup {None}]
      BY <1>0, <1>1, <1>7 DEF sched, RestTyped
    <2> QED BY <1>1, <1>3, <1>6, <1>7, <2>1, <2>2, FlagStepKeeps
  <1>8. CASE Rippling
    <2>1. dirty \in [Ids -> BOOLEAN] /\ force \in [Ids -> BOOLEAN]
      BY <1>0 DEF FlagsTyped
    <2>2. dirty' \in [Ids -> BOOLEAN] /\ force' \in [Ids -> BOOLEAN]
      BY <1>8, <2>1, MarksTyped
    <2>3. FlagsTyped'
      BY <1>0, <1>1, <1>4, <2>2 DEF FlagsTyped
    <2>4. reached \in SUBSET Ids
      BY WalksInside
    <2> HIDE DEF reached
    <2>5. QueueSound(pending', scheduled', kind)
      BY <1>0, <1>8, <2>4, EffectsTyped, ScheduleSound
    <2>6. StackSound(stack', gen, kind) /\ flushing' \in BOOLEAN
      BY <1>0, <1>3, <1>8, FlushOnSound DEF RestTyped
    <2>7. batchDepth' \in Nat /\ seen' \in [Codes -> Logs \cup {None}]
      BY <1>0, <1>1 DEF RestTyped
    <2> QED BY <1>1, <1>6, <2>3, <2>5, <2>6, <2>7, FlagStepKeeps
  <1> QED BY <1>5, <1>7, <1>8

LEMMA ClearKeeps ==
  ASSUME GraphInv, Clear
  PROVE  GraphInv'
  <1>0. /\ ArenaKept /\ FlagsTyped /\ RestTyped /\ EdgesKept
        /\ QueueSound(pending, scheduled, kind) /\ StackSound(stack, gen, kind)
    BY DEF GraphInv
  <1> DEFINE Deferred(i) ==
               /\ \/ batched' = [batched EXCEPT !.slots = @ \cup {i}]
                  \/ batched' = [batched EXCEPT !.clears = @ \cup {i}]
               /\ UNCHANGED <<val, dirty, force, sched, stack>>
             Cleaned == /\ \E roots : ClearFrom(roots, dirty, force, {}, FALSE)
                        /\ UNCHANGED batched
  <1>1. PICK k \in Items :
          /\ HostCalls("clear") /\ made[k] # None
          /\ Deferred(made[k].id) \/ Cleaned
          /\ UNCHANGED <<arena, busy, eagers, armed, edges, batchDepth, handles, seen>>
    BY DEF Clear
  <1>2. PICK i \in Ids : i = made[k].id
    BY <1>0, <1>1, MadeTyped
  <1>3. stack # << >> /\ batchDepth' \in Nat /\ seen' \in [Codes -> Logs \cup {None}]
    BY <1>0, <1>1 DEF HostCalls, HostIdle, RestTyped
  <1>4. CASE Deferred(i)
    <2>1. FlagsTyped' /\ flushing' \in BOOLEAN
      BY <1>0, <1>1, <1>4 DEF FlagsTyped, sched, RestTyped
    <2>2. QueueSound(pending', scheduled', kind) /\ StackSound(stack', gen, kind)
      BY <1>0, <1>4 DEF sched
    <2>3. batched \in [cells : SUBSET Ids, clears : SUBSET Ids, slots : SUBSET Ids]
      BY <1>0 DEF RestTyped
    <2>4. batched' \in [cells : SUBSET Ids, clears : SUBSET Ids, slots : SUBSET Ids]
      BY <1>4, <2>3
    <2> QED BY <1>1, <1>3, <2>1, <2>2, <2>4, FlagStepKeeps
  <1>5. CASE Cleaned
    <2>1. PICK roots : ClearFrom(roots, dirty, force, {}, FALSE)
      BY <1>5
    <2>2. dirty \in [Ids -> BOOLEAN] /\ force \in [Ids -> BOOLEAN]
      BY <1>0 DEF FlagsTyped
    <2>3. /\ val' \in [Ids -> Results] /\ dirty' \in [Ids -> BOOLEAN] /\ force' \in [Ids -> BOOLEAN]
          /\ QueueSound(pending', scheduled', kind)
          /\ StackSound(stack', gen, kind) /\ flushing' \in BOOLEAN
      BY <1>0, <1>3, <2>1, <2>2, ClearFromSound
    <2>4. FlagsTyped'
      BY <1>0, <1>1, <2>3 DEF FlagsTyped
    <2>5. batched' \in [cells : SUBSET Ids, clears : SUBSET Ids, slots : SUBSET Ids]
      BY <1>0, <1>5 DEF RestTyped
    <2> QED BY <1>1, <1>3, <2>3, <2>4, <2>5, FlagStepKeeps
  <1> QED BY <1>1, <1>2, <1>4, <1>5

LEMMA BatchKeeps ==
  ASSUME GraphInv, BatchBegin \/ BatchEnd
  PROVE  GraphInv'
  <1>0. /\ ArenaKept /\ FlagsTyped /\ RestTyped /\ EdgesKept
        /\ QueueSound(pending, scheduled, kind) /\ StackSound(stack, gen, kind)
    BY DEF GraphInv
  <1>1. UNCHANGED <<arena, eagers, edges, handles>> /\ seen' \in [Codes -> Logs \cup {None}]
    BY <1>0 DEF BatchBegin, BatchEnd, RestTyped
  <1> DEFINE Silent == UNCHANGED <<val, dirty, force, busy, armed, sched, batched, stack>>
  <1>2. batchDepth' \in Nat
    <2>1. batchDepth \in Nat
      BY <1>0 DEF RestTyped
    <2>2. batchDepth' = batchDepth + 1 \/ (batchDepth > 0 /\ batchDepth' = batchDepth - 1)
      BY DEF BatchBegin, BatchEnd, BatchOpen
    <2> QED BY ONLY <2>1, <2>2
  <1>3. CASE Silent
    <2>1. FlagsTyped' /\ flushing' \in BOOLEAN
      BY <1>0, <1>3 DEF FlagsTyped, sched, RestTyped
    <2>2. QueueSound(pending', scheduled', kind) /\ StackSound(stack', gen, kind)
      BY <1>0, <1>3 DEF sched
    <2>3. batched' \in [cells : SUBSET Ids, clears : SUBSET Ids, slots : SUBSET Ids]
      BY <1>0, <1>3 DEF RestTyped
    <2> QED BY <1>1, <1>2, <2>1, <2>2, <2>3, FlagStepKeeps
  <1>4. CASE ~Silent
    <2> DEFINE roots  == UNION {dpts[i] : i \in batched.cells}
               marked == Marked(roots, dirty, force)
               cells  == {i \in batched.clears : kind[i] = "cell"}
               below  == (UNION {dpts[i] : i \in cells}) \cup batched.slots
               d      == MarkDirty(marked, dirty)
               f      == Forced(Effects(roots), MarkForce(roots, force))
               more   == Effects(marked)
    <2>1. BatchEnd /\ stack # << >> /\ UNCHANGED <<busy, armed>>
      <3>1. ~BatchBegin
        BY <1>4 DEF BatchBegin, flags
      <3>2. BatchEnd
        BY <3>1
      <3> QED BY <3>2 DEF BatchEnd, HostIdle
    <2>2. ClearFrom(below, d, f, more, TRUE) /\ batched' = [cells |-> {}, clears |-> {}, slots |-> {}]
      BY <1>4, <2>1 DEF BatchEnd
    <2>3. dirty \in [Ids -> BOOLEAN] /\ force \in [Ids -> BOOLEAN]
      BY <1>0 DEF FlagsTyped
    <2>4. d \in [Ids -> BOOLEAN] /\ f \in [Ids -> BOOLEAN]
      BY <2>3, MarksTyped
    <2>5. marked \in SUBSET Ids
      BY WalksInside
    <2>6. more \in SUBSET Ids /\ \A i \in more : kind[i] = "effect"
      BY <2>5, EffectsTyped
    <2> HIDE DEF roots, marked, cells, below, d, f, more
    <2>7. /\ val' \in [Ids -> Results] /\ dirty' \in [Ids -> BOOLEAN] /\ force' \in [Ids -> BOOLEAN]
          /\ QueueSound(pending', scheduled', kind)
          /\ StackSound(stack', gen, kind) /\ flushing' \in BOOLEAN
      BY <1>0, <2>1, <2>2, <2>4, <2>6, ClearFromSound
    <2>8. FlagsTyped'
      BY <1>0, <2>1, <2>7 DEF FlagsTyped
    <2>9. batched' \in [cells : SUBSET Ids, clears : SUBSET Ids, slots : SUBSET Ids]
      BY <2>2
    <2> QED BY <1>1, <1>2, <2>7, <2>8, <2>9, FlagStepKeeps
  <1> QED BY <1>3, <1>4

-----------------------------------------------------------------------------
(* Creation *)

LEMMA NewEffectKeeps ==
  ASSUME GraphInv, NEW c \in Codes, NEW waiting \in Frame, waiting.op \in {"made", "attach"},
         waiting.op = "made" => waiting.code \in Items /\ Plan[waiting.code].kind = "effect",
         NEW op, Issued(op), NewEffect(c, waiting),
         UNCHANGED <<val, dirty, busy, eagers, armed, edges, batches, made, seen>>,
         nmade' \in 0..Len(Plan)
  PROVE  GraphInv'
  <1>0. /\ ArenaKept /\ FlagsTyped /\ RestTyped /\ EdgesKept
        /\ QueueSound(pending, scheduled, kind) /\ StackSound(stack, gen, kind)
    BY DEF GraphInv
  <1>1. /\ Alloc("effect", c)
        /\ force' = [force EXCEPT ![NewId] = TRUE]
        /\ pending' = Append(pending, NewId) /\ scheduled' = scheduled \cup {NewId}
        /\ FlushOn(Push(waiting, Resume(None)), FALSE)
    BY DEF NewEffect
  <1>2. "effect" \in Kinds
    BY DEF Kinds
  <1>3. /\ ArenaKept' /\ NewId \in Ids /\ kind[NewId] = "empty"
        /\ Advanced(gen, kind, gen', kind')
        /\ kind' = [kind EXCEPT ![NewId] = "effect"]
        /\ \A i \in Ids : kind[i] # "empty" => kind'[i] = kind[i]
    BY <1>0, <1>1, <1>2, AllocSound
  <1>4. PICK n \in Ids : n = NewId
    BY <1>3
  <1>5. QueueSound(pending', scheduled', kind')
    <2>1. n \notin scheduled /\ kind \in [Ids -> Kinds \cup {"empty"}]
      BY <1>0, <1>3, <1>4 DEF QueueSound, ArenaKept
    <2>2. pending' = Append(pending, n) /\ scheduled' = scheduled \cup {n}
            /\ kind' = [kind EXCEPT ![n] = "effect"]
      BY <1>1, <1>3, <1>4
    <2> QED BY <1>0, <2>1, <2>2, AppendSound
  <1>6. EdgesKept'
    BY <1>0, <1>3, EdgesStay
  <1>7. FlagsTyped'
    BY <1>0, <1>1 DEF FlagsTyped
  <1>8. StackSound(Resume(None), gen, kind) /\ Resume(None) # << >>
    BY <1>0, IssuedInside
  <1>9. FrameSound(waiting, gen, kind)
    BY DEF FrameSound
  <1>10. StackSound(Push(waiting, Resume(None)), gen, kind) /\ Push(waiting, Resume(None)) # << >>
    BY <1>8, <1>9, PushSound
  <1>11. StackSound(stack', gen, kind) /\ flushing' \in BOOLEAN
    BY <1>1, <1>10, FlushOnSound
  <1>12. StackSound(stack', gen', kind')
    BY <1>3, <1>11, StackAdvances
  <1>13. RestTyped'
    BY <1>0, <1>11 DEF RestTyped, eagers, batches
  <1> QED BY <1>3, <1>5, <1>6, <1>7, <1>12, <1>13 DEF GraphInv

\* The rest of a caller that waits for the first flush of a new effect.
LEMMA WaitingTyped ==
  ASSUME NEW op \in {"made", "attach"}, NEW i \in Ids, NEW c \in Items
  PROVE  /\ [Host EXCEPT !.op = op, !.id = i, !.code = c] \in Frame
         /\ [Host EXCEPT !.op = op, !.id = i, !.code = c].op = op
         /\ [Host EXCEPT !.op = op, !.id = i, !.code = c].code = c
         /\ [Host EXCEPT !.op = op, !.id = i, !.code = c].id = i
  BY HostSound, PlanTyped DEF Host, Frame

LEMMA MakeKeeps ==
  ASSUME GraphInv, Make
  PROVE  GraphInv'
  <1>0. /\ ArenaKept /\ FlagsTyped /\ RestTyped /\ EdgesKept
        /\ QueueSound(pending, scheduled, kind) /\ StackSound(stack, gen, kind)
    BY DEF GraphInv
  <1>1. PICK k : k = nmade + 1
    OBVIOUS
  <1>2. /\ Issued([do |-> "make"]) /\ nmade < Len(Plan) /\ nmade' = k
        /\ IF Plan[k].kind = "effect"
           THEN /\ NewEffect(k, [Host EXCEPT !.op = "made", !.id = NewId, !.code = k])
                /\ UNCHANGED <<val, made>>
           ELSE /\ Alloc(Plan[k].kind, k)
                /\ val' = [val EXCEPT ![NewId] = IF Plan[k].kind = "cell" THEN Plan[k].init ELSE None]
                /\ made' = [made EXCEPT ![k] = [id |-> NewId, gen |-> gen[NewId]]]
                /\ stack' = Resume(None) /\ UNCHANGED <<force, sched>>
        /\ UNCHANGED <<dirty, busy, eagers, armed, edges, batches, seen>>
    BY <1>1 DEF Make
  <1>3. k \in Items /\ nmade' \in 0..Len(Plan)
    BY <1>0, <1>1, <1>2, PlanTyped DEF RestTyped, Items
  <1>4. k \in Codes /\ Plan[k].kind \in Kinds /\ Plan[k].init \in Values
    BY <1>3, PlanTyped
  <1>5. CASE Plan[k].kind = "effect"
    <2> DEFINE waiting == [Host EXCEPT !.op = "made", !.id = NewId, !.code = k]
    <2>1. NewEffect(k, waiting)
      BY <1>2, <1>5
    <2>2. NewId \in Ids
      BY <2>1 DEF NewEffect, Alloc
    <2>3. waiting \in Frame /\ waiting.op = "made" /\ waiting.code = k
      BY <2>2, <1>3, WaitingTyped
    <2>4. UNCHANGED <<val, dirty, busy, eagers, armed, edges, batches, made, seen>>
      BY <1>2, <1>5
    <2> HIDE DEF waiting
    <2> QED BY <1>2, <1>3, <1>4, <1>5, <2>1, <2>3, <2>4, NewEffectKeeps
  <1>6. CASE Plan[k].kind # "effect"
    <2>1. /\ ArenaKept' /\ NewId \in Ids /\ kind[NewId] = "empty"
          /\ Advanced(gen, kind, gen', kind')
          /\ \A i \in Ids : kind[i] # "empty" => kind'[i] = kind[i]
      BY <1>0, <1>2, <1>3, <1>4, <1>6, AllocSound
    <2>2. \A i \in scheduled : kind'[i] = kind[i]
      BY <1>0, <2>1 DEF QueueSound
    <2>3. QueueSound(pending', scheduled', kind')
      <3>1. UNCHANGED <<pending, scheduled>>
        BY <1>2, <1>6 DEF sched
      <3> QED BY <1>0, <2>2, <3>1, QueueKinds
    <2>4. EdgesKept'
      BY <1>0, <1>2, <2>1, EdgesStay
    <2>5. FlagsTyped'
      BY <1>0, <1>2, <1>4, <1>6 DEF FlagsTyped, Results
    <2>6. StackSound(Resume(None), gen, kind)
      BY <1>0, <1>2, IssuedInside
    <2>7. StackSound(stack', gen', kind')
      BY <1>2, <1>6, <2>1, <2>6, StackAdvances
    <2>8. made' \in [Items -> Handle \cup {None}]
      <3>1. PICK h \in Handle : h = [id |-> NewId, gen |-> gen[NewId]]
        BY <1>0, <2>1 DEF ArenaKept, Handle
      <3>2. made' = [made EXCEPT ![k] = h]
        BY <1>2, <1>6, <3>1
      <3> QED BY <1>0, <3>2 DEF RestTyped
    <2>9. RestTyped'
      BY <1>0, <1>2, <1>3, <1>6, <2>8 DEF RestTyped, eagers, batches, sched
    <2> QED BY <2>1, <2>3, <2>4, <2>5, <2>7, <2>9 DEF GraphInv
  <1> QED BY <1>5, <1>6

LEMMA EagerKeeps ==
  ASSUME GraphInv, Eager
  PROVE  GraphInv'
  <1>0. RestTyped
    BY DEF GraphInv
  <1>1. PICK k \in Items :
          /\ HostCalls("eager") /\ NewId \in Ids
          /\ NewEffect(Puller(k), [Host EXCEPT !.op = "attach", !.id = NewId, !.code = k])
          /\ UNCHANGED <<val, dirty, busy, eagers, armed, edges, batches, handles, seen>>
    BY DEF Eager
  <1>2. Issued([do |-> "eager"])
    BY <1>1 DEF Issued
  <1> DEFINE waiting == [Host EXCEPT !.op = "attach", !.id = NewId, !.code = k]
  <1>3. waiting \in Frame /\ waiting.op = "attach"
    BY <1>1, WaitingTyped
  <1>4. Puller(k) \in Codes
    BY PlanTyped
  <1>5. UNCHANGED made /\ nmade' \in 0..Len(Plan)
    BY <1>0, <1>1 DEF RestTyped, handles
  <1> HIDE DEF waiting
  <1>6. NewEffect(Puller(k), waiting)
    BY <1>1 DEF waiting
  <1> QED BY <1>1, <1>2, <1>3, <1>4, <1>5, <1>6, NewEffectKeeps

LEMMA StepMadeKeeps ==
  ASSUME GraphInv, StepMade \/ StepAttach
  PROVE  GraphInv'
  <1>0. /\ ArenaKept /\ FlagsTyped /\ RestTyped /\ EdgesKept
        /\ QueueSound(pending, scheduled, kind) /\ StackSound(stack, gen, kind)
    BY DEF GraphInv
  <1>1. /\ stack # << >> /\ Top.op # "host" /\ stack' = Rest
        /\ UNCHANGED <<arena, flags, armed, edges, sched, batches, seen>>
    BY DEF StepMade, StepAttach
  <1>2. Top \in Frame /\ StackSound(stack', gen, kind)
    BY <1>0, <1>1, TopSound DEF Top, Rest
  <1>3. ArenaKept' /\ UNCHANGED <<kind, gen, pending, scheduled>>
    BY <1>0, <1>1, ArenaStays DEF arena, sched
  <1>4. EdgesKept' /\ FlagsTyped'
    BY <1>0, <1>1, <1>3, EdgesStay DEF FlagsTyped, flags
  <1>5. PICK h \in Handle : h = [id |-> Top.id, gen |-> gen[Top.id]]
    BY <1>0, <1>2 DEF Frame, Handle, ArenaKept
  <1>6. CASE StepMade
    <2>1. made' = [made EXCEPT ![Top.code] = h] /\ UNCHANGED <<eagers, nmade>>
      BY <1>5, <1>6 DEF StepMade
    <2>2. made' \in [Items -> Handle \cup {None}]
      BY <1>0, <2>1 DEF RestTyped
    <2> QED BY <1>0, <1>1, <1>2, <1>3, <1>4, <2>1, <2>2, QueueStays
        DEF GraphInv, RestTyped, eagers, sched, batches
  <1>7. CASE StepAttach
    <2>1. PICK s : s = made[Top.code].id
      OBVIOUS
    <2>2. /\ eager' = [eager EXCEPT ![s] = (kind[s] = "slot")]
          /\ eagerBy' = [eagerBy EXCEPT ![s] = h] /\ UNCHANGED handles
      BY <1>5, <1>7, <2>1 DEF StepAttach, IsSlot
    <2>3. eager' \in [Ids -> BOOLEAN] /\ eagerBy' \in [Ids -> Handle \cup {None}]
      BY <1>0, <2>2 DEF RestTyped
    <2> QED BY <1>0, <1>1, <1>2, <1>3, <1>4, <2>2, <2>3, QueueStays
        DEF GraphInv, RestTyped, handles, sched, batches
  <1> QED BY <1>6, <1>7

-----------------------------------------------------------------------------
(* The engine's own steps *)

LEMMA StepFlushKeeps ==
  ASSUME GraphInv, StepFlush
  PROVE  GraphInv'
  <1>0. /\ ArenaKept /\ FlagsTyped /\ RestTyped /\ EdgesKept
        /\ QueueSound(pending, scheduled, kind) /\ StackSound(stack, gen, kind)
    BY DEF GraphInv
  <1>1. /\ stack # << >> /\ Top.op # "host"
        /\ UNCHANGED <<arena, flags, eagers, armed, edges, batches, handles, seen>>
    BY DEF StepFlush
  <1>2. /\ FlagsTyped' /\ batchDepth' \in Nat /\ seen' \in [Codes -> Logs \cup {None}]
        /\ batched' \in [cells : SUBSET Ids, clears : SUBSET Ids, slots : SUBSET Ids]
    BY <1>0, <1>1 DEF FlagsTyped, RestTyped, flags, batches
  <1>3. CASE pending = << >>
    <2>1. flushing' = FALSE /\ stack' = Rest /\ UNCHANGED <<pending, scheduled>>
      BY <1>3 DEF StepFlush
    <2>2. StackSound(stack', gen, kind)
      BY <1>0, <1>1, <2>1, TopSound DEF Top, Rest
    <2>3. QueueSound(pending', scheduled', kind) /\ flushing' \in BOOLEAN
      BY <1>0, <2>1
    <2> QED BY <1>1, <1>2, <2>2, <2>3, FlagStepKeeps
  <1>4. CASE pending # << >>
    <2>1. /\ pending' = Tail(pending) /\ scheduled' = scheduled \ {Head(pending)}
          /\ \/ stack' = stack
             \/ stack' = Push(Check(Head(pending)), stack)
          /\ UNCHANGED flushing
      BY <1>4 DEF StepFlush
    <2>2. Head(pending) \in Ids /\ QueueSound(pending', scheduled', kind)
      BY <1>0, <1>4, <2>1, TakeSound
    <2>3. PICK i \in Ids : i = Head(pending)
      BY <2>2
    <2> DEFINE f == Check(i)
    <2>6. f \in Frame /\ f.op = "should"
      BY <1>0, CheckSound
    <2> HIDE DEF f
    <2>7. FrameSound(f, gen, kind)
      BY <2>6 DEF FrameSound
    <2>8. StackSound(Push(f, stack), gen, kind)
      BY <1>0, <1>1, <2>6, <2>7, PushSound
    <2>9. StackSound(stack', gen, kind)
      BY <1>0, <2>1, <2>3, <2>8 DEF f
    <2>10. flushing' \in BOOLEAN
      BY <1>0, <2>1 DEF RestTyped
    <2> QED BY <1>1, <1>2, <2>2, <2>9, <2>10, FlagStepKeeps
  <1> QED BY <1>3, <1>4

LEMMA StepDependencyKeeps ==
  ASSUME GraphInv, StepDependency
  PROVE  GraphInv'
  <1>0. /\ ArenaKept /\ FlagsTyped /\ RestTyped /\ EdgesKept
        /\ QueueSound(pending, scheduled, kind) /\ StackSound(stack, gen, kind)
    BY DEF GraphInv
  <1>1. PICK d \in Ids :
          /\ Walking
          /\ LET s == Push([Top EXCEPT !.todo = @ \ {d}], Rest) IN
             IF IsSlot(d) /\ ~Clean(d) THEN EnterRefresh(d, s) ELSE stack' = s /\ UNCHANGED busy
          /\ UNCHANGED <<arena, val, dirty, force, eagers, armed, edges, sched, batches, handles, seen>>
    BY DEF StepDependency
  <1>2. stack # << >> /\ Top.op # "host"
    BY <1>1 DEF Walking
  <1>3. Top \in Frame
    BY <1>0, <1>2, TopSound DEF Top
  <1> DEFINE f == [Top EXCEPT !.todo = Top.todo \ {d}]
  <1>4. f \in Frame /\ f.op = Top.op /\ f.id = Top.id /\ f.gen = Top.gen /\ f.code = Top.code
    BY <1>3 DEF Frame
  <1>5. EnterRefresh(d, Push(f, Rest)) \/ (stack' = Push(f, Rest) /\ UNCHANGED busy)
    BY <1>1
  <1> HIDE DEF f
  <1>6. StackSound(Push(f, Rest), gen, kind) /\ Push(f, Rest) # << >>
    BY <1>0, <1>2, <1>4, RetopSound
  <1>7. StackSound(stack', gen, kind) /\ busy' \in [Ids -> BOOLEAN]
    <2>1. busy \in [Ids -> BOOLEAN]
      BY <1>0 DEF FlagsTyped
    <2> QED BY <1>0, <1>5, <1>6, <2>1, EnterRefreshSound
  <1>8. FlagsTyped' /\ QueueSound(pending', scheduled', kind)
    BY <1>0, <1>1, <1>7 DEF FlagsTyped, sched
  <1>9. /\ flushing' \in BOOLEAN /\ batchDepth' \in Nat /\ seen' \in [Codes -> Logs \cup {None}]
        /\ batched' \in [cells : SUBSET Ids, clears : SUBSET Ids, slots : SUBSET Ids]
    BY <1>0, <1>1 DEF RestTyped, sched, batches
  <1> QED BY <1>1, <1>7, <1>8, <1>9, FlagStepKeeps

\* Steps that only take the top off the stack, or finish the closure of it.
LEMMA PopKeeps ==
  ASSUME GraphInv, StepSkip \/ FinishEffect
  PROVE  GraphInv'
  <1>0. /\ ArenaKept /\ FlagsTyped /\ RestTyped /\ EdgesKept
        /\ QueueSound(pending, scheduled, kind) /\ StackSound(stack, gen, kind)
    BY DEF GraphInv
  <1>1. /\ stack # << >> /\ Top.op # "host" /\ stack' = Rest
        /\ UNCHANGED <<arena, flags, eagers, edges, sched, batches, handles>>
    BY DEF StepSkip, FinishEffect, Walking
  <1>2. Top \in Frame /\ StackSound(stack', gen, kind)
    BY <1>0, <1>1, TopSound DEF Top, Rest
  <1>3. armed' \in [Ids -> Codes \cup {0}] /\ seen' \in [Codes -> Logs \cup {None}]
    <2>1. armed \in [Ids -> Codes \cup {0}] /\ seen \in [Codes -> Logs \cup {None}]
      BY <1>0 DEF FlagsTyped, RestTyped
    <2>2. CASE StepSkip
      BY <2>1, <2>2 DEF StepSkip
    <2>3. CASE FinishEffect
      <3>1. Top.code \in Codes \cup {0} /\ Top.log \in Logs
        BY <1>2 DEF Frame
      <3> QED BY <2>1, <2>3, <3>1 DEF FinishEffect
    <2> QED BY <2>2, <2>3
  <1>4. FlagsTyped' /\ QueueSound(pending', scheduled', kind)
    BY <1>0, <1>1, <1>3 DEF FlagsTyped, flags, sched
  <1>5. /\ flushing' \in BOOLEAN /\ batchDepth' \in Nat
        /\ batched' \in [cells : SUBSET Ids, clears : SUBSET Ids, slots : SUBSET Ids]
    BY <1>0, <1>1 DEF RestTyped, sched, batches
  <1> QED BY <1>1, <1>2, <1>3, <1>4, <1>5, FlagStepKeeps

\* The activation of a closure of the live node i.
LEMMA ClosureStarts ==
  ASSUME ArenaKept, StackSound(stack, gen, kind), stack # << >>, Top.op # "host",
         NEW i \in Ids, NEW op \in {"compute", "effect"},
         kind[i] = IF op = "compute" THEN "slot" ELSE "effect"
  PROVE  StackSound(Push(Activation(op, i), Rest), gen, kind)
  <1>1. StackSound(Rest, gen, kind) /\ Rest # << >>
    BY TopSound DEF Top, Rest
  <1>2. /\ Activation(op, i) \in Frame /\ Activation(op, i).op = op /\ Activation(op, i).id = i
        /\ Activation(op, i).gen = gen[i] /\ Activation(op, i).code = code[i]
    BY ActivationSound
  <1>3. gen[i] \in Nat /\ (kind[i] = "slot" => code[i] \in Items)
    BY DEF ArenaKept
  <1>4. FrameSound(Activation(op, i), gen, kind)
    BY <1>2, <1>3 DEF FrameSound
  <1> QED BY <1>1, <1>2, <1>4, PushSound

LEMMA StartKeeps ==
  ASSUME GraphInv, StartEffect \/ StartCompute
  PROVE  GraphInv'
  <1>0. /\ ArenaKept /\ FlagsTyped /\ RestTyped /\ EdgesKept
        /\ QueueSound(pending, scheduled, kind) /\ StackSound(stack, gen, kind)
    BY DEF GraphInv
  <1>1. /\ stack # << >> /\ Top.op # "host" /\ Detach(Top.id)
        /\ UNCHANGED <<arena, val, dirty, busy, eagers, flushing, batches, handles, seen>>
    BY DEF StartEffect, StartCompute, Walking, flags, sched
  <1>2. PICK i \in Ids : i = Top.id
    BY <1>0, <1>1, TopSound DEF Top, Frame
  <1>3. ArenaKept' /\ UNCHANGED <<kind, gen>>
    BY <1>0, <1>1, ArenaStays DEF arena
  <1>4. EdgesKept'
    BY <1>0, <1>1, <1>2, <1>3, DetachSound
  <1>5. StackSound(stack', gen, kind)
    <2>1. CASE StartEffect
      <3>1. kind[i] = "effect" /\ stack' = Push(Activation("effect", i), Rest)
        BY <1>2, <2>1 DEF StartEffect
      <3> QED BY <1>0, <1>1, <3>1, ClosureStarts
    <2>2. CASE StartCompute
      <3>1. kind[i] = "slot" /\ stack' = Push(Activation("compute", i), Rest)
        BY <1>2, <2>2 DEF StartCompute, IsSlot
      <3> QED BY <1>0, <1>1, <3>1, ClosureStarts
    <2> QED BY <2>1, <2>2
  <1>6. FlagsTyped' /\ QueueSound(pending', scheduled', kind)
    <2>1. CASE StartEffect
      <3>1. /\ pending' = IF i \in scheduled THEN Erase(pending, i) ELSE pending
            /\ scheduled' = scheduled \ {i}
            /\ force' = [force EXCEPT ![i] = FALSE] /\ armed' = [armed EXCEPT ![i] = 0]
        BY <1>2, <2>1 DEF StartEffect
      <3>2. FlagsTyped'
        BY <1>0, <1>1, <3>1 DEF FlagsTyped
      <3>3. CASE i \in scheduled
        BY <1>0, <3>1, <3>2, <3>3, EraseSound
      <3>4. CASE i \notin scheduled
        <4>1. pending' = pending /\ scheduled' = scheduled
          BY <3>1, <3>4
        <4> QED BY <1>0, <3>2, <4>1
      <3> QED BY <3>2, <3>3, <3>4
    <2>2. CASE StartCompute
      BY <1>0, <2>2 DEF StartCompute, FlagsTyped, flags, sched
    <2> QED BY <2>1, <2>2
  <1>7. RestTyped'
    BY <1>0, <1>1 DEF RestTyped, eagers, batches, handles
  <1> QED BY <1>3, <1>4, <1>5, <1>6, <1>7 DEF GraphInv

LEMMA EndRefreshKeeps ==
  ASSUME GraphInv, EndRefresh
  PROVE  GraphInv'
  <1>0. /\ ArenaKept /\ FlagsTyped /\ RestTyped /\ EdgesKept
        /\ QueueSound(pending, scheduled, kind) /\ StackSound(stack, gen, kind)
    BY DEF GraphInv
  <1>1. /\ stack # << >> /\ Top.op # "host" /\ stack' = Deliver(Rest, FALSE)
        /\ UNCHANGED <<arena, val, force, eagers, armed, edges, sched, batches, handles, seen>>
    BY DEF EndRefresh, Walking
  <1>2. StackSound(Rest, gen, kind) /\ Rest # << >>
    BY <1>0, <1>1, TopSound DEF Top, Rest
  <1>3. StackSound(stack', gen, kind)
    BY <1>1, <1>2, DeliverSound
  <1>4. dirty' \in [Ids -> BOOLEAN] /\ busy' \in [Ids -> BOOLEAN]
    BY <1>0 DEF EndRefresh, FlagsTyped
  <1>5. FlagsTyped' /\ QueueSound(pending', scheduled', kind)
    BY <1>0, <1>1, <1>4 DEF FlagsTyped, sched
  <1>6. /\ flushing' \in BOOLEAN /\ batchDepth' \in Nat /\ seen' \in [Codes -> Logs \cup {None}]
        /\ batched' \in [cells : SUBSET Ids, clears : SUBSET Ids, slots : SUBSET Ids]
    BY <1>0, <1>1 DEF RestTyped, sched, batches
  <1> QED BY <1>1, <1>3, <1>5, <1>6, FlagStepKeeps

LEMMA FinishComputeKeeps ==
  ASSUME GraphInv, FinishCompute
  PROVE  GraphInv'
  <1>0. /\ ArenaKept /\ FlagsTyped /\ RestTyped /\ EdgesKept
        /\ QueueSound(pending, scheduled, kind) /\ StackSound(stack, gen, kind)
    BY DEF GraphInv
  <1>1. /\ stack # << >> /\ Top.op = "compute" /\ Code(Top.code, Top.log).do = "return"
        /\ UNCHANGED <<arena, eagers, armed, edges, flushing, batches, handles, seen>>
    BY DEF FinishCompute
  <1>2. Top \in Frame /\ FrameSound(Top, gen, kind) /\ StackSound(Rest, gen, kind) /\ Rest # << >>
    BY <1>0, <1>1, TopSound DEF Top, Rest
  <1>3. PICK i \in Ids, v \in Values : i = Top.id /\ v = Code(Top.code, Top.log).to
    BY <1>1, <1>2, ComputeReturns DEF FrameSound, Frame
  <1> DEFINE same == val[i] # None /\ Same(code[i], val[i], v)
             changed == val[i] # None /\ ~same
             d0 == [dirty EXCEPT ![i] = FALSE]
             f0 == [force EXCEPT ![i] = FALSE]
             roots == IF changed THEN dpts[i] ELSE {}
             marked == Marked(roots, d0, f0)
  <1>4. \/ stack' = Deliver(Rest, FALSE) /\ UNCHANGED <<flags, pending, scheduled>>
        \/ /\ val' = [val EXCEPT ![i] = IF same THEN val[i] ELSE v]
           /\ dirty' = MarkDirty(marked, d0)
           /\ force' = Forced(Effects(roots), MarkForce(roots, f0))
           /\ Schedule(Effects(marked))
           /\ busy' = [busy EXCEPT ![i] = FALSE]
           /\ stack' = Deliver(Rest, changed)
    BY <1>0, <1>3 DEF FinishCompute, FlagsTyped
  <1>5. StackSound(stack', gen, kind)
    <2>1. changed \in BOOLEAN
      OBVIOUS
    <2> HIDE DEF changed
    <2>2. StackSound(Deliver(Rest, FALSE), gen, kind) /\ StackSound(Deliver(Rest, changed), gen, kind)
      BY <1>2, <2>1, DeliverSound
    <2> QED BY <1>4, <2>2
  <1>6. FlagsTyped' /\ QueueSound(pending', scheduled', kind)
    <2>1. CASE UNCHANGED <<flags, pending, scheduled>>
      BY <1>0, <1>1, <2>1 DEF FlagsTyped, flags
    <2>2. CASE /\ val' = [val EXCEPT ![i] = IF same THEN val[i] ELSE v]
               /\ dirty' = MarkDirty(marked, d0)
               /\ force' = Forced(Effects(roots), MarkForce(roots, f0))
               /\ Schedule(Effects(marked))
               /\ busy' = [busy EXCEPT ![i] = FALSE]
      <3>1. d0 \in [Ids -> BOOLEAN] /\ f0 \in [Ids -> BOOLEAN] /\ busy' \in [Ids -> BOOLEAN]
        BY <1>0, <2>2 DEF FlagsTyped
      <3>2. val' \in [Ids -> Results]
        BY <1>0, <2>2 DEF FlagsTyped, Results
      <3>3. marked \in SUBSET Ids
        BY WalksInside
      <3> HIDE DEF same, changed, d0, f0, roots, marked
      <3>4. dirty' \in [Ids -> BOOLEAN] /\ force' \in [Ids -> BOOLEAN]
        BY <2>2, <3>1, MarksTyped
      <3>5. QueueSound(pending', scheduled', kind)
        BY <1>0, <2>2, <3>3, EffectsTyped, ScheduleSound
      <3>6. FlagsTyped'
        BY <1>0, <1>1, <3>1, <3>2, <3>4 DEF FlagsTyped
      <3> QED BY <3>5, <3>6
    <2> QED BY <1>4, <2>1, <2>2
  <1>7. /\ flushing' \in BOOLEAN /\ batchDepth' \in Nat /\ seen' \in [Codes -> Logs \cup {None}]
        /\ batched' \in [cells : SUBSET Ids, clears : SUBSET Ids, slots : SUBSET Ids]
    BY <1>0, <1>1 DEF RestTyped, batches
  <1> QED BY <1>1, <1>5, <1>6, <1>7, FlagStepKeeps

-----------------------------------------------------------------------------
(* Theorems *)

LEMMA GraphInvStarts == Init => GraphInv
  <1> SUFFICES ASSUME Init PROVE GraphInv
    OBVIOUS
  <1>1. Len(Plan) \in Nat
    BY PlanTyped
  <1>2. ArenaKept
    BY IdsFinite, EmptySeq DEF Init, ArenaKept, FreeIdsSound
  <1>3. FlagsTyped
    BY DEF Init, FlagsTyped, Results
  <1>4. RestTyped
    <2>1. /\ eager \in [Ids -> BOOLEAN] /\ eagerBy \in [Ids -> Handle \cup {None}]
          /\ flushing \in BOOLEAN /\ batchDepth \in Nat
      BY DEF Init
    <2>2. batched \in [cells : SUBSET Ids, clears : SUBSET Ids, slots : SUBSET Ids]
      BY DEF Init
    <2>3. /\ made \in [Items -> Handle \cup {None}]
          /\ seen \in [Codes -> Logs \cup {None}]
      BY DEF Init
    <2>4. nmade \in 0..Len(Plan)
      BY <1>1 DEF Init
    <2> QED BY <2>1, <2>2, <2>3, <2>4 DEF RestTyped
  <1>5. EdgesKept
    BY DEF Init, EdgesKept, EdgesMatch
  <1>6. QueueSound(pending, scheduled, kind)
    BY EmptySeq DEF Init, QueueSound
  <1>7. StackSound(stack, gen, kind)
    BY HostSound DEF Init
  <1> QED BY <1>2, <1>3, <1>4, <1>5, <1>6, <1>7 DEF GraphInv

LEMMA GraphInvStutters ==
  ASSUME GraphInv, UNCHANGED vars
  PROVE  GraphInv'
  <1>0. /\ ArenaKept /\ FlagsTyped /\ RestTyped /\ EdgesKept
        /\ QueueSound(pending, scheduled, kind) /\ StackSound(stack, gen, kind)
    BY DEF GraphInv
  <1>1. /\ UNCHANGED <<arena, eagers, edges, handles>>
        /\ UNCHANGED <<flags, armed, sched, batches, stack, seen>>
    BY DEF vars
  <1>2. FlagsTyped' /\ QueueSound(pending', scheduled', kind) /\ StackSound(stack', gen, kind)
    BY <1>0, <1>1 DEF FlagsTyped, flags, sched
  <1>3. /\ flushing' \in BOOLEAN /\ batchDepth' \in Nat /\ seen' \in [Codes -> Logs \cup {None}]
        /\ batched' \in [cells : SUBSET Ids, clears : SUBSET Ids, slots : SUBSET Ids]
    BY <1>0, <1>1 DEF RestTyped, sched, batches
  <1> QED BY <1>1, <1>2, <1>3, FlagStepKeeps

LEMMA GraphInvHolds == GraphInv /\ [Next]_vars => GraphInv'
  <1> SUFFICES ASSUME GraphInv, [Next]_vars PROVE GraphInv'
    OBVIOUS
  <1>1. CASE Closures
    BY <1>1, ClosureGetKeeps, ThrowAndGetKeep, DisposeKeeps DEF Closures
  <1>2. CASE Engine
    BY <1>2, StepMadeKeeps, StepFlushKeeps, StepDependencyKeeps, PopKeeps, StartKeeps,
       EndRefreshKeeps, FinishComputeKeeps DEF Engine
  <1>3. CASE Calls
    BY <1>3, ThrowAndGetKeep, SetKeeps, MakeKeeps, EagerKeeps, LazyKeeps, DisposeKeeps,
       ClearKeeps, BatchKeeps DEF Calls
  <1>4. CASE UNCHANGED vars
    BY <1>4, GraphInvStutters
  <1> QED BY <1>1, <1>2, <1>3, <1>4 DEF Next

LEMMA GraphInvSuffices == GraphInv => ArenaSound
  <1> SUFFICES ASSUME GraphInv PROVE ArenaSound
    OBVIOUS
  <1>1. TypeOK
    BY DEF GraphInv, TypeOK, ArenaKept, FlagsTyped, RestTyped, EdgesKept, QueueSound, StackSound,
       Results
  <1>2. EdgesMatch /\ FreeIdsSound
    BY DEF GraphInv, ArenaKept, EdgesKept
  <1>3. QueueMatchesMarks
    BY DEF GraphInv, QueueSound, QueueMatchesMarks
  <1> QED BY <1>1, <1>2, <1>3 DEF ArenaSound

\* Whatever the program creates, reads, writes, disposes, recycles or throws,
\* inside closures and outside: every reverse edge of context.hpp's arena has
\* its forward edge and joins live nodes, the effect queue and the
\* effect_scheduled_ bits agree and hold live effects once, and alloc_id never
\* hands out an occupied entry.
THEOREM ArenaStaysSound == Spec => []ArenaSound
  <1>1. Spec => []GraphInv
    BY GraphInvStarts, GraphInvHolds, PTL DEF Spec
  <1> QED BY <1>1, GraphInvSuffices, PTL

-----------------------------------------------------------------------------
(* Handles of cells and computed cells *)

\* The handle of item k names, while its generation lasts, the node of item k.
Owned(h, k) == h.gen <= gen[h.id] /\ (h.gen = gen[h.id] => code[h.id] = k)

\* An empty entry holds no closure, and the handles of cells and computed cells
\* are theirs.  The handle of an effect is stamped after the flush that runs it
\* for the first time, and may by then name another node.
HandlesOwn ==
  /\ \A i \in Ids : kind[i] = "empty" => code[i] = 0
  /\ \A k \in Items : (Plan[k].kind # "effect" /\ made[k] # None) => Owned(made[k], k)

\* What the arena does to handles: an entry changes its closure only when it is
\* empty, or with its generation.
LEMMA HandlesAdvance ==
  ASSUME GraphInv, HandlesOwn, UNCHANGED made,
         \A i \in Ids : kind'[i] = "empty" => code'[i] = 0,
         \A i \in Ids : gen'[i] \in Nat /\ gen[i] <= gen'[i],
         \A i \in Ids : (gen'[i] = gen[i] /\ code[i] # 0) => code'[i] = code[i]
  PROVE  HandlesOwn'
  <1>0. ArenaKept /\ RestTyped
    BY DEF GraphInv
  <1>1. ASSUME NEW k \in Items, Plan[k].kind # "effect", made[k] # None
        PROVE  Owned(made[k], k)'
    <2>1. /\ made[k].id \in Ids /\ made[k].gen \in Nat /\ gen[made[k].id] \in Nat
          /\ k # 0
      BY <1>0, <1>1, MadeTyped, PlanTyped DEF ArenaKept
    <2>2. Owned(made[k], k)
      BY <1>1 DEF HandlesOwn
    <2> QED BY <2>1, <2>2 DEF Owned
  <1> QED BY <1>1 DEF HandlesOwn

LEMMA HandlesAfterTear ==
  ASSUME GraphInv, HandlesOwn, UNCHANGED made, NEW gone \in SUBSET Ids, Emptied(gone)
  PROVE  HandlesOwn'
  <1>1. gen \in [Ids -> Nat]
    BY DEF GraphInv, ArenaKept
  <1>2. \A i \in Ids : kind'[i] = "empty" => code'[i] = 0
    BY DEF Emptied, HandlesOwn
  <1>3. \A i \in Ids : gen'[i] \in Nat /\ gen[i] <= gen'[i]
    BY <1>1 DEF Emptied
  <1>4. \A i \in Ids : (gen'[i] = gen[i] /\ code[i] # 0) => code'[i] = code[i]
    BY <1>1 DEF Emptied
  <1> QED BY <1>2, <1>3, <1>4, HandlesAdvance

\* Any entry alloc_id hands out was empty, so no handle names it yet.
LEMMA HandlesAfterAlloc ==
  ASSUME GraphInv, HandlesOwn, NEW k \in Kinds, NEW c \in Codes, k = "slot" => c \in Items, Alloc(k, c)
  PROVE  /\ NewId \in Ids /\ gen' = gen /\ code'[NewId] = c
         /\ \A i \in Ids : kind'[i] = "empty" => code'[i] = 0
         /\ \A i \in Ids : gen'[i] \in Nat /\ gen[i] <= gen'[i]
         /\ \A i \in Ids : (gen'[i] = gen[i] /\ code[i] # 0) => code'[i] = code[i]
  <1>0. ArenaKept
    BY DEF GraphInv
  <1>1. /\ NewId \in Ids /\ kind[NewId] = "empty" /\ gen' = gen
        /\ kind' = [kind EXCEPT ![NewId] = k] /\ code' = [code EXCEPT ![NewId] = c]
    BY <1>0, AllocSound
  <1>2. PICK n \in Ids : n = NewId
    BY <1>1
  <1>3. code[n] = 0 /\ k # "empty"
    BY <1>1, <1>2 DEF HandlesOwn, Kinds
  <1>4. gen \in [Ids -> Nat] /\ kind \in [Ids -> Kinds \cup {"empty"}] /\ code \in [Ids -> Codes \cup {0}]
    BY <1>0 DEF ArenaKept
  <1>5. kind' = [kind EXCEPT ![n] = k] /\ code' = [code EXCEPT ![n] = c]
    BY <1>1, <1>2
  <1> QED BY <1>1, <1>2, <1>3, <1>4, <1>5 DEF HandlesOwn

LEMMA HandlesAfterMake ==
  ASSUME GraphInv, HandlesOwn, Make \/ Eager
  PROVE  HandlesOwn'
  <1>0. ArenaKept /\ RestTyped
    BY DEF GraphInv
  <1>1. CASE Eager
    <2>1. PICK k \in Items : Alloc("effect", Puller(k)) /\ UNCHANGED made
      BY <1>1 DEF Eager, NewEffect, handles
    <2>2. Puller(k) \in Codes /\ "effect" \in Kinds
      BY PlanTyped DEF Kinds
    <2> QED BY <2>1, <2>2, HandlesAfterAlloc, HandlesAdvance
  <1>2. CASE Make
    <2>1. PICK k : k = nmade + 1
      OBVIOUS
    <2>2. /\ nmade < Len(Plan)
          /\ \/ Plan[k].kind = "effect" /\ Alloc("effect", k) /\ UNCHANGED made
             \/ /\ Plan[k].kind # "effect" /\ Alloc(Plan[k].kind, k)
                /\ made' = [made EXCEPT ![k] = [id |-> NewId, gen |-> gen[NewId]]]
      BY <1>2, <2>1 DEF Make, NewEffect
    <2>3. k \in Items /\ k \in Codes /\ Plan[k].kind \in Kinds
      BY <1>0, <2>1, <2>2, PlanTyped DEF RestTyped, Items
    <2>4. Alloc(Plan[k].kind, k)
      BY <2>2
    <2>5. /\ NewId \in Ids /\ gen' = gen /\ code'[NewId] = k
          /\ \A i \in Ids : kind'[i] = "empty" => code'[i] = 0
          /\ \A i \in Ids : gen'[i] \in Nat /\ gen[i] <= gen'[i]
          /\ \A i \in Ids : (gen'[i] = gen[i] /\ code[i] # 0) => code'[i] = code[i]
      BY <2>3, <2>4, HandlesAfterAlloc
    <2>6. CASE UNCHANGED made
      BY <2>5, <2>6, HandlesAdvance
    <2>7. CASE made' = [made EXCEPT ![k] = [id |-> NewId, gen |-> gen[NewId]]]
      <3> SUFFICES ASSUME NEW m \in Items, Plan[m].kind # "effect", made'[m] # None
                   PROVE  made'[m].gen <= gen'[made'[m].id]
                            /\ (made'[m].gen = gen'[made'[m].id] => code'[made'[m].id] = m)
        BY <2>5 DEF HandlesOwn, Owned
      <3>0. made \in [Items -> Handle \cup {None}] /\ gen \in [Ids -> Nat]
        BY <1>0 DEF RestTyped, ArenaKept
      <3>1. CASE m = k
        <4>1. made'[m] = [id |-> NewId, gen |-> gen[NewId]]
          BY <2>3, <2>7, <3>0, <3>1
        <4>2. made'[m].id = NewId /\ made'[m].gen = gen[NewId]
          BY <4>1
        <4>3. gen[NewId] <= gen'[NewId]
          BY <2>5
        <4> QED BY <2>5, <3>1, <4>2, <4>3
      <3>2. CASE m # k
        <4>1. made'[m] = made[m]
          BY <2>3, <2>7, <3>0, <3>2
        <4>2. Owned(made[m], m) /\ made[m].id \in Ids /\ m # 0
          BY <1>0, <4>1, MadeTyped, PlanTyped DEF HandlesOwn
        <4> QED BY <2>5, <4>1, <4>2 DEF Owned
      <3> QED BY <3>1, <3>2
    <2> QED BY <2>2, <2>6, <2>7
  <1> QED BY <1>1, <1>2

LEMMA HandlesAfterMade ==
  ASSUME GraphInv, HandlesOwn, StepMade
  PROVE  HandlesOwn'
  <1>0. RestTyped /\ StackSound(stack, gen, kind) /\ stack # << >>
    BY DEF GraphInv, StepMade
  <1>1. /\ Top.op = "made" /\ UNCHANGED <<kind, code, gen>>
        /\ made' = [made EXCEPT ![Top.code] = [id |-> Top.id, gen |-> gen[Top.id]]]
    BY DEF StepMade, arena
  <1>2. Plan[Top.code].kind = "effect"
    BY <1>0, <1>1, TopSound DEF FrameSound, Top
  <1>3. \A k \in Items : Plan[k].kind # "effect" => made'[k] = made[k]
    BY <1>0, <1>1, <1>2 DEF RestTyped
  <1> QED BY <1>1, <1>3 DEF HandlesOwn, Owned

LEMMA HandlesAfterDisposal ==
  ASSUME GraphInv, HandlesOwn, Dispose \/ DisposeSelf \/ Lazy
  PROVE  HandlesOwn'
  <1>0. /\ ArenaKept /\ FlagsTyped /\ RestTyped /\ EdgesKept
        /\ QueueSound(pending, scheduled, kind) /\ StackSound(stack, gen, kind)
    BY DEF GraphInv
  <1>1. UNCHANGED made
    BY DEF Dispose, DisposeItem, DisposeSelf, Lazy, handles
  <1>2. CASE UNCHANGED arena
    BY <1>1, <1>2 DEF HandlesOwn, Owned, arena
  <1>3. ASSUME NEW i \in Ids, kind[i] # "empty", TearNode(i)
        PROVE  HandlesOwn'
    <2>1. PICK gone \in SUBSET Ids : Emptied(gone)
      BY <1>0, <1>3, TearNodeSound
    <2> QED BY <1>1, <2>1, HandlesAfterTear
  <1>4. CASE Dispose /\ ~UNCHANGED arena
    <2>1. PICK k \in Items : DisposeItem(k)
      BY <1>4 DEF Dispose
    <2>2. made[k].id \in Ids /\ Plan[k].kind # "empty"
      BY <2>1, <1>0, MadeTyped, PlanTyped DEF DisposeItem, Kinds
    <2>3. Fenced(k, made[k]) /\ TearNode(made[k].id)
      BY <1>4, <2>1 DEF DisposeItem
    <2>4. kind[made[k].id] # "empty"
      BY <2>2, <2>3 DEF Fenced
    <2> QED BY <1>3, <2>2, <2>3, <2>4
  <1>5. CASE DisposeSelf /\ ~UNCHANGED arena
    <2>1. stack # << >> /\ kind[Top.id] # "empty" /\ TearNode(Top.id)
      BY <1>5 DEF DisposeSelf, Asks, InClosure
    <2>2. Top.id \in Ids
      BY <2>1, <1>0, TopSound DEF Top, Frame
    <2> QED BY <1>3, <2>1, <2>2
  <1>6. CASE Lazy /\ ~UNCHANGED arena
    <2>1. PICK k \in Items : /\ made[k] # None /\ eagerBy[made[k].id] # None
                             /\ Tear(Named(eagerBy[made[k].id]), <<eagerBy[made[k].id].id>>, {})
      BY <1>6 DEF Lazy
    <2>2. Named(eagerBy[made[k].id]) \in SUBSET Ids
      BY <1>0, <2>1, MadeTyped DEF RestTyped, Named, Handle
    <2>3. PICK gone \in SUBSET Ids : gone = Named(eagerBy[made[k].id])
      BY <2>2
    <2>4. Emptied(gone)
      BY <2>1, <2>3 DEF Tear, Emptied
    <2> QED BY <1>1, <2>4, HandlesAfterTear
  <1> QED BY <1>2, <1>4, <1>5, <1>6

LEMMA HandlesOwnHolds == GraphInv /\ HandlesOwn /\ [Next]_vars => HandlesOwn'
  <1> SUFFICES ASSUME GraphInv, HandlesOwn, [Next]_vars PROVE HandlesOwn'
    OBVIOUS
  <1>1. CASE UNCHANGED <<kind, code, gen, made>>
    BY <1>1 DEF HandlesOwn, Owned
  <1>2. CASE Closures
    <2>1. UNCHANGED <<kind, code, gen, made>> \/ DisposeSelf
      BY <1>2 DEF Closures, ClosureGet, ClosureThrow, arena, handles
    <2> QED BY <1>1, <2>1, HandlesAfterDisposal
  <1>3. CASE Engine
    <2>1. UNCHANGED <<kind, code, gen, made>> \/ StepMade
      BY <1>3 DEF Engine, StepAttach, StepFlush, StepDependency, StepSkip, StartEffect, FinishEffect,
         EndRefresh, StartCompute, FinishCompute, arena, handles
    <2> QED BY <1>1, <2>1, HandlesAfterMade
  <1>4. CASE Calls
    <2>1. \/ UNCHANGED <<kind, code, gen, made>>
          \/ Make \/ Eager \/ Lazy \/ Dispose
      BY <1>4 DEF Calls, HostGet, Set, Clear, BatchBegin, BatchEnd, arena, handles
    <2> QED BY <1>1, <2>1, HandlesAfterMake, HandlesAfterDisposal
  <1>5. CASE UNCHANGED vars
    BY <1>1, <1>5 DEF vars, arena, handles
  <1> QED BY <1>2, <1>3, <1>4, <1>5 DEF Next

\* What DisposeHitsOwn says of the step that disposes item k.
HitsOwn(k) ==
  \A i \in Ids : gen'[i] # gen[i] =>
    code[i] = k \/ (code[made[k].id] = k /\ i \in Named(eagerBy[made[k].id]))

LEMMA ValueDisposal ==
  ASSUME GraphInv, HandlesOwn, NEW k \in Items, Plan[k].kind # "effect", DisposeItem(k)
  PROVE  HitsOwn(k)
  <1>0. /\ ArenaKept /\ FlagsTyped /\ RestTyped /\ EdgesKept
        /\ QueueSound(pending, scheduled, kind)
    BY DEF GraphInv
  <1>1. made[k] # None
    BY DEF DisposeItem
  <1>2. made[k].id \in Ids /\ Plan[k].kind # "empty"
    BY <1>0, <1>1, MadeTyped, PlanTyped DEF Kinds
  <1>3. CASE ~Fenced(k, made[k])
    <2>1. UNCHANGED gen
      BY <1>3 DEF DisposeItem, arena
    <2> QED BY <2>1 DEF HitsOwn
  <1>4. CASE Fenced(k, made[k])
    <2>1. /\ TearNode(made[k].id) /\ kind[made[k].id] # "empty"
          /\ gen[made[k].id] = made[k].gen
      BY <1>2, <1>4 DEF DisposeItem, Fenced
    <2>2. code[made[k].id] = k
      BY <1>1, <2>1 DEF HandlesOwn, Owned
    <2>3. PICK n \in Ids : n = made[k].id
      BY <1>2
    <2>4. PICK gone \in SUBSET Ids : Emptied(gone) /\ gone \subseteq {n} \cup Named(eagerBy[n])
      BY <1>0, <2>1, <2>3, TearNodeSound
    <2>5. \A i \in Ids : gen'[i] # gen[i] => i \in gone
      BY <2>4 DEF Emptied
    <2> QED BY <2>2, <2>3, <2>4, <2>5 DEF HitsOwn
  <1> QED BY <1>3, <1>4

\* Disposing a cell or a computed cell through its handle destroys that node,
\* and the puller attached to it, and nothing else, however often ids have been
\* recycled: dispose_cell and dispose_slot fence by generation and kind, and a
\* handle is stamped in the same step that allocates its node.
THEOREM ValueDisposalsHitOwn ==
  Spec => [][\A k \in Items : (Plan[k].kind # "effect" /\ DisposeItem(k)) => HitsOwn(k)]_vars
  <1>1. Init => HandlesOwn
    BY DEF Init, HandlesOwn
  <1>2. Spec => [](GraphInv /\ HandlesOwn)
    BY <1>1, GraphInvStarts, GraphInvHolds, HandlesOwnHolds, PTL DEF Spec
  <1>3. GraphInv /\ HandlesOwn =>
          [\A k \in Items : (Plan[k].kind # "effect" /\ DisposeItem(k)) => HitsOwn(k)]_vars
    BY ValueDisposal
  <1> QED BY <1>2, <1>3, PTL

-----------------------------------------------------------------------------
(* The inductive invariant of the caches.  That a fresh value is current   *)
(* is not inductive: a dirty value may prove unchanged when its            *)
(* dependencies are refreshed, so every value that is not forced must be   *)
(* one its closure returns on what its dependencies hold (HeldSound), a    *)
(* fresh value must rest on fresh ones (CleanBelow), and a recomputation   *)
(* that is suspended while it refreshes what it reads must find that what  *)
(* it has been through stays fresh (FramesHold).                           *)

\* A computed cell that is not forced holds a value it will keep if the nodes it
\* read prove unchanged.
Held(i) == IsSlot(i) /\ val[i] # None /\ ~force[i]

\* Operation n of `log', a log of the closure of node i, is a read: the handle
\* names a node of its kind that lists i as a dependent and holds the value read,
\* unless the write that changed it is in `late', for the end of the batch.
ReadOp(i, log, n) == Body(code[i], SubSeq(log, 1, n - 1))
ReadOf(i, log, n) == made[ReadOp(i, log, n).of]
ReadFrom(i, log, n, late) ==
  /\ ReadOp(i, log, n).do = "get" /\ ReadOf(i, log, n) # None
  /\ kind[ReadOf(i, log, n).id] = Plan[ReadOp(i, log, n).of].kind
  /\ i \in dpts[ReadOf(i, log, n).id]
  /\ log[n] # None
  /\ log[n] = val[ReadOf(i, log, n).id] \/ ReadOf(i, log, n).id \in late
Returns(i, log, v) == Body(code[i], log).do = "return" /\ Body(code[i], log).to = v

\* Below a fresh value there are only fresh values.
CleanBelow == \A m \in Ids : IsSlot(m) => \A n \in dpts[m] : Clean(n) => Clean(m)

\* A value held is one the closure returns on the values its dependencies hold.
HeldFrom(i, late) ==
  /\ \E log \in Logs : Returns(i, log, val[i]) /\ \A n \in 1..Len(log) : ReadFrom(i, log, n, late)
  /\ \A m \in deps[i] : i \in dpts[m] /\ (IsSlot(m) => val[m] # None)
HeldSound == \A i \in Ids : Held(i) => HeldFrom(i, batched.cells)

\* The nodes are what the plan says, and nothing is noted outside a batch.
PlanKept ==
  /\ \A i \in Ids : IsSlot(i) => Plan[code[i]].kind = "slot"
  /\ \A i \in Ids : kind[i] = "cell" => val[i] # None
  /\ \A k \in Items : k > nmade /\ Plan[k].kind # "effect" => made[k] = None
  /\ batchDepth = 0 => batched.cells = {}

\* The activation f of refresh_slot: what it has been through is fresh, but for
\* the nodes in `above', which the activation above it refreshes.
RefreshHolds(f, above) ==
  /\ f.todo \subseteq deps[f.id] /\ above \subseteq deps[f.id]
  /\ f.chg => ~Held(f.id)
  /\ \A m \in deps[f.id] \ f.todo : IsSlot(m) => Clean(m) \/ m \in above

\* The activation f of a closure of a computed cell: so too what it has read.
Pulled(f) == Body(f.code, f.log)
ComputeHolds(f, above) ==
  /\ ~Held(f.id)
  /\ \A n \in 1..Len(f.log) :
       /\ ReadFrom(f.id, f.log, n, {})
       /\ IsSlot(ReadOf(f.id, f.log, n).id) => Clean(ReadOf(f.id, f.log, n).id)
  /\ \A m \in deps[f.id] : f.id \in dpts[m] /\ (IsSlot(m) => Clean(m) \/ m \in above)
  /\ f.pulled => /\ Pulled(f).do = "get" /\ Plan[Pulled(f).of].kind = "slot"
                 /\ made[Pulled(f).of] # None /\ IsSlot(made[Pulled(f).of].id)
                 /\ made[Pulled(f).of].id \in deps[f.id]

Recomputing(f) == f.op \in {"refresh", "compute"}
FrameHolds(f, above) ==
  /\ IsSlot(f.id) /\ gen[f.id] = f.gen /\ code[f.id] = f.code /\ busy[f.id] /\ ~Clean(f.id)
  /\ f.op = "refresh" => RefreshHolds(f, above)
  /\ f.op = "compute" => ComputeHolds(f, above)

\* Above a recomputation there are only recomputations of other nodes.
AboveOf(s, p, top) == IF p = 1 THEN top ELSE {s[p - 1].id}
FramesHold(s, top) ==
  \A p \in 1..Len(s) : Recomputing(s[p]) =>
    /\ FrameHolds(s[p], AboveOf(s, p, top))
    /\ \A q \in 1..(p - 1) : Recomputing(s[q]) /\ s[q].id # s[p].id

CacheInv == PlanKept /\ CleanBelow /\ HeldSound /\ FramesHold(stack, {})

-----------------------------------------------------------------------------
(* Walks and activations *)

LEMMA WalkCovers ==
  ASSUME EdgesKept, NEW roots \in SUBSET Ids, NEW thru
  PROVE  /\ roots \subseteq Visited(roots, thru)
         /\ \A m \in Visited(roots, thru) : m \in thru => dpts[m] \subseteq Visited(roots, thru)
  <1>1. roots \subseteq Visited(roots, thru)
    BY DEF Visited
  <1>2. ASSUME NEW m \in Visited(roots, thru), m \in thru, NEW n \in dpts[m]
        PROVE  n \in Visited(roots, thru)
    <2>1. m \in Ids /\ n \in Ids
      BY <1>2 DEF Visited, EdgesKept
    <2>2. ASSUME NEW S \in SUBSET Ids, roots \subseteq S, \A a \in S \cap thru : dpts[a] \subseteq S
          PROVE  n \in S
      <3>1. m \in S
        BY <2>2 DEF Visited
      <3> QED BY <3>1, <2>2, <1>2
    <2> QED BY <2>1, <2>2 DEF Visited
  <1> QED BY <1>1, <1>2

LEMMA WalkStops ==
  ASSUME NEW roots, NEW thru, NEW S \in SUBSET Ids, roots \subseteq S,
         \A m \in S \cap thru : dpts[m] \subseteq S
  PROVE  Visited(roots, thru) \subseteq S
  BY DEF Visited

\* No activation on the stack s recomputes a cell.
NoneRecomputing(s) == \A p \in 1..Len(s) : ~Recomputing(s[p])

LEMMA QuietFramesHold ==
  ASSUME NEW s, NoneRecomputing(s), NEW top
  PROVE  FramesHold(s, top)
  BY DEF NoneRecomputing, FramesHold

LEMMA QuietBelow ==
  ASSUME NEW s \in Seq(Frame), s # << >>, NEW T, FramesHold(s, T), ~Recomputing(Head(s))
  PROVE  NoneRecomputing(s)
  <1>1. Len(s) \in Nat /\ Len(s) # 0 /\ Head(s) = s[1]
    BY LenProperties, EmptySeq
  <1>2. ASSUME NEW p \in 1..Len(s), Recomputing(s[p]) PROVE FALSE
    <2>1. CASE p = 1 BY <2>1, <1>1, <1>2
    <2>2. CASE p # 1
      <3>1. 1 \in 1..(p - 1)
        BY <2>2, <1>1
      <3> QED BY <3>1, <1>1, <1>2 DEF FramesHold
    <2> QED BY <2>1, <2>2
  <1> QED BY <1>2 DEF NoneRecomputing

LEMMA QuietPush ==
  ASSUME NEW s \in Seq(Frame), NoneRecomputing(s), NEW f \in Frame, ~Recomputing(f)
  PROVE  Push(f, s) \in Seq(Frame) /\ NoneRecomputing(Push(f, s))
  <1>1. Push(f, s) \in Seq(Frame) /\ Len(Push(f, s)) = Len(s) + 1 /\ Len(s) \in Nat
    BY LenProperties DEF Push
  <1>2. \A p \in 1..Len(s) + 1 : Push(f, s)[p] = IF p = 1 THEN f ELSE s[p - 1]
    BY DEF Push
  <1>3. ASSUME NEW p \in 1..Len(Push(f, s)) PROVE ~Recomputing(Push(f, s)[p])
    <2>1. CASE p = 1 BY <2>1, <1>1, <1>2
    <2>2. CASE p # 1
      <3>1. p - 1 \in 1..Len(s)
        BY <2>2, <1>1
      <3> QED BY <3>1, <2>2, <1>1, <1>2 DEF NoneRecomputing
    <2> QED BY <2>1, <2>2
  <1> QED BY <1>1, <1>3 DEF NoneRecomputing

LEMMA QuietTail ==
  ASSUME NEW s \in Seq(Frame), s # << >>, NoneRecomputing(s)
  PROVE  Tail(s) \in Seq(Frame) /\ NoneRecomputing(Tail(s)) /\ Head(s) \in Frame /\ ~Recomputing(Head(s))
  <1>1. Len(s) \in Nat /\ Len(s) # 0 /\ Head(s) = s[1] /\ Head(s) \in Frame
    BY LenProperties, EmptySeq
  <1>2. Tail(s) \in Seq(Frame) /\ Len(Tail(s)) = Len(s) - 1
    BY <1>1
  <1>3. \A p \in 1..Len(Tail(s)) : Tail(s)[p] = s[p + 1] /\ p + 1 \in 1..Len(s)
    BY <1>1, <1>2
  <1>4. 1 \in 1..Len(s)
    BY <1>1
  <1> QED BY <1>1, <1>2, <1>3, <1>4 DEF NoneRecomputing

LEMMA QuietHost == NoneRecomputing(<<Host>>) /\ NoneRecomputing(<< >>)
  <1>1. Len(<<Host>>) = 1 /\ <<Host>>[1] = Host /\ Len(<< >>) = 0
    OBVIOUS
  <1>2. ~Recomputing(Host)
    BY DEF Recomputing, Host
  <1>3. \A p \in 1..1 : p = 1
    OBVIOUS
  <1> QED BY <1>1, <1>2, <1>3 DEF NoneRecomputing

LEMMA QuietResume ==
  ASSUME stack \in Seq(Frame), NoneRecomputing(stack), NEW r \in Results
  PROVE  Resume(r) \in Seq(Frame) /\ NoneRecomputing(Resume(r))
  <1>1. CASE ~InClosure
    BY <1>1 DEF Resume
  <1>2. CASE InClosure
    <2>1. stack # << >> /\ Len(Top.log) < MaxLog
      BY <1>2 DEF InClosure
    <2>2. Top \in Frame /\ ~Recomputing(Top) /\ Rest \in Seq(Frame) /\ NoneRecomputing(Rest)
      BY <2>1, QuietTail DEF Top, Rest
    <2> DEFINE f == [Top EXCEPT !.log = Append(@, r), !.pulled = FALSE]
    <2>3. Append(Top.log, r) \in Logs
      BY <2>1, <2>2, LogGrows DEF Frame
    <2>4. f \in Frame /\ f.op = Top.op
      BY <2>2, <2>3 DEF Frame
    <2>5. ~Recomputing(f)
      BY <2>2, <2>4 DEF Recomputing
    <2> HIDE DEF f
    <2> QED BY <2>2, <2>4, <2>5, QuietPush, <1>2 DEF Resume, f
  <1> QED BY <1>1, <1>2

LEMMA QuietFlush ==
  ASSUME NEW s \in Seq(Frame), NoneRecomputing(s), NEW b \in BOOLEAN, FlushOn(s, b)
  PROVE  NoneRecomputing(stack')
  <1> DEFINE f == [Host EXCEPT !.op = "flush", !.chg = b]
  <1>1. f \in Frame /\ f.op = "flush"
    BY HostSound DEF Frame, Host
  <1>2. ~Recomputing(f)
    BY <1>1 DEF Recomputing
  <1> HIDE DEF f
  <1>3. NoneRecomputing(Push(f, s))
    BY <1>1, <1>2, QuietPush
  <1> QED BY <1>3 DEF FlushOn, f

LEMMA FramesPush ==
  ASSUME NEW s \in Seq(Frame), NEW f \in Frame, Recomputing(f), NEW T, FrameHolds(f, T)',
         FramesHold(s, {f.id})', \A p \in 1..Len(s) : Recomputing(s[p]) => s[p].id # f.id
  PROVE  FramesHold(Push(f, s), T)'
  <1>1. Push(f, s) \in Seq(Frame) /\ Len(Push(f, s)) = Len(s) + 1 /\ Len(s) \in Nat
    BY LenProperties DEF Push
  <1>2. \A p \in 1..Len(s) + 1 : Push(f, s)[p] = IF p = 1 THEN f ELSE s[p - 1]
    BY DEF Push
  <1> DEFINE t == Push(f, s)
  <1> HIDE DEF t
  <1>3. Len(t) = Len(s) + 1 /\ \A p \in 1..Len(t) : t[p] = IF p = 1 THEN f ELSE s[p - 1]
    BY <1>1, <1>2 DEF t
  <1>4. ASSUME NEW p \in 1..Len(t), Recomputing(t[p])
        PROVE  /\ FrameHolds(t[p], AboveOf(t, p, T))'
               /\ \A q \in 1..(p - 1) : Recomputing(t[q]) /\ t[q].id # t[p].id
    <2>1. CASE p = 1
      BY <2>1, <1>3 DEF AboveOf
    <2>2. CASE p # 1
      <3>1. PICK o \in 1..Len(s) : p = o + 1
        BY <2>2, <1>1, <1>3
      <3>2. t[p] = s[o]
        BY <3>1, <1>1, <1>3
      <3>3. /\ FrameHolds(s[o], AboveOf(s, o, {f.id}))'
            /\ \A q \in 1..(o - 1) : Recomputing(s[q]) /\ s[q].id # s[o].id
        BY <3>2, <1>4 DEF FramesHold
      <3>4. AboveOf(t, p, T) = AboveOf(s, o, {f.id})
        <4>1. t[o] = IF o = 1 THEN f ELSE s[o - 1]
          BY <3>1, <1>1, <1>3
        <4>2. p # 1 /\ p - 1 = o
          BY <3>1, <2>2, <1>1
        <4>3. AboveOf(t, p, T) = {t[o].id}
          BY <4>2 DEF AboveOf
        <4>4. CASE o = 1
          BY <4>1, <4>3, <4>4 DEF AboveOf
        <4>5. CASE o # 1
          BY <4>1, <4>3, <4>5 DEF AboveOf
        <4> QED BY <4>4, <4>5
      <3>5. ASSUME NEW q \in 1..(p - 1) PROVE Recomputing(t[q]) /\ t[q].id # t[p].id
        <4>1. CASE q = 1
          BY <4>1, <3>1, <3>2, <1>1, <1>3, <1>4
        <4>2. CASE q # 1
          <5>1. t[q] = s[q - 1] /\ q - 1 \in 1..(o - 1)
            BY <4>2, <3>1, <1>1, <1>3
          <5> QED BY <5>1, <3>2, <3>3
        <4> QED BY <4>1, <4>2
      <3> QED BY <3>2, <3>3, <3>4, <3>5
    <2> QED BY <2>1, <2>2
  <1> QED BY <1>4 DEF FramesHold, t

LEMMA FramesPop ==
  ASSUME NEW s \in Seq(Frame), s # << >>, NEW T, FramesHold(s, T), Recomputing(Head(s))
  PROVE  /\ Tail(s) \in Seq(Frame) /\ Head(s) \in Frame /\ FrameHolds(Head(s), T)
         /\ FramesHold(Tail(s), {Head(s).id})
         /\ \A p \in 1..Len(Tail(s)) : Recomputing(Tail(s)[p]) => Tail(s)[p].id # Head(s).id
  <1>1. Len(s) \in Nat /\ Len(s) # 0 /\ Head(s) = s[1] /\ Head(s) \in Frame
    BY LenProperties, EmptySeq
  <1> DEFINE t == Tail(s)
  <1>2. t \in Seq(Frame) /\ Len(t) = Len(s) - 1
    BY <1>1
  <1>3. \A p \in 1..Len(t) : t[p] = s[p + 1] /\ p + 1 \in 1..Len(s)
    BY <1>1, <1>2
  <1> HIDE DEF t
  <1>4. FrameHolds(s[1], T)
    <2>1. 1 \in 1..Len(s)
      BY <1>1
    <2> QED BY <2>1, <1>1 DEF FramesHold, AboveOf
  <1>5. ASSUME NEW p \in 1..Len(t), Recomputing(t[p])
        PROVE  /\ FrameHolds(t[p], AboveOf(t, p, {s[1].id}))
               /\ \A q \in 1..(p - 1) : Recomputing(t[q]) /\ t[q].id # t[p].id
               /\ t[p].id # s[1].id
    <2>1. t[p] = s[p + 1] /\ p + 1 \in 1..Len(s) /\ p + 1 # 1
      BY <1>3, <1>1, <1>2
    <2>2. /\ FrameHolds(s[p + 1], AboveOf(s, p + 1, T))
          /\ \A q \in 1..p : Recomputing(s[q]) /\ s[q].id # s[p + 1].id
      BY <2>1, <1>5 DEF FramesHold
    <2>3. AboveOf(s, p + 1, T) = {s[p].id}
      BY <2>1, <1>1, <1>2 DEF AboveOf
    <2>4. AboveOf(t, p, {s[1].id}) = {s[p].id}
      <3>1. CASE p = 1 BY <3>1 DEF AboveOf
      <3>2. CASE p # 1
        <4>1. t[p - 1] = s[p]
          BY <3>2, <1>1, <1>2, <1>3
        <4> QED BY <4>1, <3>2 DEF AboveOf
      <3> QED BY <3>1, <3>2
    <2>5. 1 \in 1..p
      BY <1>1, <1>2
    <2>6. ASSUME NEW q \in 1..(p - 1) PROVE Recomputing(t[q]) /\ t[q].id # t[p].id
      <3>1. t[q] = s[q + 1] /\ q + 1 \in 1..p
        BY <1>1, <1>2, <1>3
      <3> QED BY <3>1, <2>1, <2>2
    <2> QED BY <2>1, <2>2, <2>3, <2>4, <2>5, <2>6
  <1>6. FramesHold(t, {s[1].id})
    BY <1>5 DEF FramesHold
  <1> QED BY <1>1, <1>2, <1>4, <1>5, <1>6 DEF t

\* Activations outlast a step that they each outlast, when node x, which none of
\* them is on, may have become fresh.
LEMMA FramesMove ==
  ASSUME NEW s \in Seq(Frame), NEW T, NEW x, NEW D, D \subseteq {x}, FramesHold(s, T),
         \A p \in 1..Len(s) : Recomputing(s[p]) => s[p].id # x,
         \A f \in Frame : \A A : (Recomputing(f) /\ f.id # x /\ FrameHolds(f, A)) => FrameHolds(f, A \ D)'
  PROVE  FramesHold(s, T \ D)'
  <1>1. Len(s) \in Nat /\ \A p \in 1..Len(s) : s[p] \in Frame
    BY LenProperties, ElementOfSeq
  <1>2. ASSUME NEW p \in 1..Len(s), Recomputing(s[p])
        PROVE  FrameHolds(s[p], AboveOf(s, p, T \ D))'
    <2>1. /\ FrameHolds(s[p], AboveOf(s, p, T))
          /\ \A q \in 1..(p - 1) : Recomputing(s[q])
      BY <1>2 DEF FramesHold
    <2>2. AboveOf(s, p, T) \ D = AboveOf(s, p, T \ D)
      <3>1. CASE p = 1 BY <3>1 DEF AboveOf
      <3>2. CASE p # 1
        <4>1. p - 1 \in 1..(p - 1) /\ p - 1 \in 1..Len(s)
          BY <3>2, <1>1
        <4>2. s[p - 1].id \notin D
          BY <4>1, <2>1
        <4> QED BY <4>2, <3>2 DEF AboveOf
      <3> QED BY <3>1, <3>2
    <2>3. PICK A : A = AboveOf(s, p, T)
      OBVIOUS
    <2>4. FrameHolds(s[p], A \ D)'
      BY <2>1, <2>3, <1>1, <1>2
    <2>5. PICK B : B = A \ D /\ B = AboveOf(s, p, T \ D)
      BY <2>2, <2>3
    <2>6. FrameHolds(s[p], B)'
      BY <2>4, <2>5
    <2> QED BY <2>5, <2>6 DEF AboveOf
  <1> QED BY <1>2 DEF FramesHold

-----------------------------------------------------------------------------
(* What a node holds *)

LEMMA LogPrefix ==
  ASSUME NEW log \in Logs, NEW n \in 1..Len(log)
  PROVE  SubSeq(log, 1, n - 1) \in Logs
  <1>1. log \in Seq(Results) /\ Len(log) <= MaxLog /\ Len(log) \in Nat /\ MaxLog \in Nat
    BY LogsAreSequences, LenProperties, PlanAssumption
  <1>2. \A j \in 1..(n - 1) : log[j] \in Results
    BY <1>1, ElementOfSeq
  <1>3. SubSeq(log, 1, n - 1) \in Seq(Results) /\ Len(SubSeq(log, 1, n - 1)) = n - 1
    BY <1>1, <1>2, SubSeqProperties
  <1>4. n - 1 <= MaxLog
    BY <1>1
  <1> QED BY <1>3, <1>4, LogsAreSequences

LEMMA OpsTyped ==
  ASSUME NEW c \in Items, NEW log \in Logs
  PROVE  /\ Body(c, log).do \in {"get", "set", "return", "make", "throw", "dispose", "dispose_self"}
         /\ Body(c, log).do = "get" => Body(c, log).of \in Items
         /\ Body(c, log).do = "return" => Body(c, log).to \in Values
  <1>1. Body(c, log) \in Ops
    BY BodyAssumption
  <1> QED BY <1>1 DEF Ops

\* The node a closure read.
LEMMA ReadNode ==
  ASSUME EdgesKept, RestTyped, NEW i \in Ids, code[i] \in Items,
         NEW log \in Logs, NEW n \in 1..Len(log), NEW late, ReadFrom(i, log, n, late)
  PROVE  /\ ReadOp(i, log, n).of \in Items /\ Plan[ReadOp(i, log, n).of].kind \in {"cell", "slot"}
         /\ ReadOf(i, log, n).id \in Ids /\ ReadOf(i, log, n).id \in deps[i]
         /\ kind[ReadOf(i, log, n).id] \in {"cell", "slot"}
  <1>1. ReadOp(i, log, n).of \in Items
    BY LogPrefix, OpsTyped DEF ReadFrom, ReadOp
  <1>2. ReadOf(i, log, n).id \in Ids
    BY <1>1, MadeTyped DEF ReadFrom, ReadOf
  <1> QED BY <1>1, <1>2 DEF ReadFrom, EdgesKept, EdgesMatch

\* Node i keeps what it holds when a step leaves its closure, its value and its
\* dependencies what they were.
DependencyKept(i, d) ==
  /\ kind'[d] = kind[d] /\ i \in dpts'[d]
  /\ IsSlot(d) /\ val[d] # None => val'[d] # None
  /\ d \in batched'.cells \/ (val'[d] = val[d] /\ d \notin batched.cells)
NodeKept(i) ==
  /\ code'[i] = code[i] /\ val'[i] = val[i] /\ deps'[i] \subseteq deps[i]
  /\ \A d \in Ids : i \in dpts[d] => DependencyKept(i, d)
HandlesKept == \A k \in Items : made[k] # None /\ Plan[k].kind # "effect" => made'[k] = made[k]

LEMMA HeldKept ==
  ASSUME GraphInv, NEW i \in Ids, IsSlot(i), HeldFrom(i, batched.cells), NodeKept(i), HandlesKept
  PROVE  HeldFrom(i, batched.cells)'
  <1>1. EdgesKept /\ RestTyped /\ code[i] \in Items /\ code'[i] = code[i] /\ val'[i] = val[i]
    BY DEF GraphInv, ArenaKept, IsSlot, NodeKept
  <1>2. PICK log \in Logs : /\ Returns(i, log, val[i])
                            /\ \A n \in 1..Len(log) : ReadFrom(i, log, n, batched.cells)
    BY DEF HeldFrom
  <1>3. Returns(i, log, val[i])'
    BY <1>1, <1>2 DEF Returns
  <1>4. ASSUME NEW n \in 1..Len(log) PROVE ReadFrom(i, log, n, batched.cells)'
    <2>1. ReadFrom(i, log, n, batched.cells)
      BY <1>2
    <2>2. PICK op : op = ReadOp(i, log, n)
      OBVIOUS
    <2>3. PICK d : d = made[op.of].id
      OBVIOUS
    <2>4. op.of \in Items /\ Plan[op.of].kind \in {"cell", "slot"} /\ d \in Ids
      BY <1>1, <2>1, <2>2, <2>3, ReadNode DEF ReadOf
    <2>5. /\ op.do = "get" /\ made[op.of] # None /\ kind[d] = Plan[op.of].kind /\ i \in dpts[d]
          /\ log[n] # None /\ (log[n] = val[d] \/ d \in batched.cells)
      BY <2>1, <2>2, <2>3 DEF ReadFrom, ReadOf
    <2>6. made'[op.of] = made[op.of]
      BY <2>4, <2>5 DEF HandlesKept
    <2>7. DependencyKept(i, d)
      BY <2>4, <2>5 DEF NodeKept
    <2>8. ReadOp(i, log, n)' = op
      BY <1>1, <2>2 DEF ReadOp
    <2>9. made'[op.of].id = d
      BY <2>3, <2>6
    <2> QED BY <2>5, <2>6, <2>7, <2>8, <2>9 DEF ReadFrom, ReadOf, DependencyKept
  <1>5. ASSUME NEW m \in deps'[i] PROVE i \in dpts'[m] /\ (IsSlot(m)' => val'[m] # None)
    <2>1. m \in deps[i] /\ m \in Ids
      BY <1>1, <1>5 DEF NodeKept, EdgesKept
    <2>2. i \in dpts[m] /\ (IsSlot(m) => val[m] # None)
      BY <2>1 DEF HeldFrom
    <2> QED BY <2>1, <2>2 DEF NodeKept, DependencyKept, IsSlot
  <1> QED BY <1>2, <1>3, <1>4, <1>5 DEF HeldFrom

\* An activation on another node than x outlasts a step after which the nodes in
\* D, among others, are fresh.
OthersKept(x, D) ==
  /\ UNCHANGED <<arena, made>>
  /\ \A m \in Ids : Clean(m) => Clean(m)' /\ val'[m] = val[m]
  /\ \A m \in Ids : kind[m] = "cell" => val'[m] = val[m]
  /\ \A m \in D : Clean(m)'
  /\ \A i \in Ids \ {x} :
       /\ busy[i] => busy'[i]
       /\ deps'[i] = deps[i] /\ \A d \in Ids : i \in dpts[d] => i \in dpts'[d]
       /\ Held(i)' => Held(i)
       /\ Clean(i)' => Clean(i)

LEMMA FrameOutlasts ==
  ASSUME GraphInv, NEW f \in Frame, Recomputing(f), NEW x, f.id # x, NEW D, OthersKept(x, D),
         NEW A, FrameHolds(f, A)
  PROVE  FrameHolds(f, A \ D)'
  <1> DEFINE i == f.id
  <1>1. i \in Ids \ {x} /\ f.log \in Logs
    BY DEF Frame
  <1>2. /\ kind' = kind /\ code' = code /\ gen' = gen /\ made' = made
    BY DEF OthersKept, arena
  <1>3. EdgesKept /\ RestTyped /\ deps[i] \in SUBSET Ids
    BY <1>1 DEF GraphInv, EdgesKept
  <1>4. IsSlot(i) /\ gen[i] = f.gen /\ code[i] = f.code /\ busy[i] /\ ~Clean(i)
    BY DEF FrameHolds
  <1>5. code[i] \in Items
    BY <1>1, <1>4 DEF GraphInv, ArenaKept, IsSlot
  <1>6. (IsSlot(i) /\ gen[i] = f.gen /\ code[i] = f.code /\ busy[i] /\ ~Clean(i))'
    BY <1>1, <1>2, <1>4 DEF OthersKept, IsSlot
  <1>7. \A m \in Ids : (IsSlot(m) => Clean(m) \/ m \in A) => (IsSlot(m) => Clean(m) \/ m \in A \ D)'
    BY <1>2 DEF OthersKept, IsSlot
  <1>8. ASSUME f.op = "refresh" PROVE RefreshHolds(f, A \ D)'
    <2>1. RefreshHolds(f, A)
      BY <1>8 DEF FrameHolds
    <2> QED BY <2>1, <1>1, <1>3, <1>7 DEF RefreshHolds, OthersKept
  <1>9. ASSUME f.op = "compute" PROVE ComputeHolds(f, A \ D)'
    <2>1. ComputeHolds(f, A)
      BY <1>9 DEF FrameHolds
    <2>2. ~Held(i)'
      BY <2>1, <1>1 DEF ComputeHolds, OthersKept
    <2>3. ASSUME NEW n \in 1..Len(f.log)
          PROVE  /\ ReadFrom(i, f.log, n, {})'
                 /\ (IsSlot(ReadOf(i, f.log, n).id) => Clean(ReadOf(i, f.log, n).id))'
      <3>1. /\ ReadFrom(i, f.log, n, {})
            /\ IsSlot(ReadOf(i, f.log, n).id) => Clean(ReadOf(i, f.log, n).id)
        BY <2>1 DEF ComputeHolds
      <3>2. PICK d : d = ReadOf(i, f.log, n).id
        OBVIOUS
      <3>3. d \in Ids /\ kind[d] \in {"cell", "slot"}
        BY <1>1, <1>3, <1>5, <3>1, <3>2, ReadNode
      <3>4. val'[d] = val[d] /\ (IsSlot(d)' => Clean(d)')
        BY <3>1, <3>2, <3>3, <1>2 DEF OthersKept, IsSlot
      <3>5. i \in dpts'[d]
        BY <3>1, <3>2, <3>3, <1>1 DEF ReadFrom, OthersKept
      <3>6. ReadOp(i, f.log, n)' = ReadOp(i, f.log, n) /\ ReadOf(i, f.log, n)' = ReadOf(i, f.log, n)
        BY <1>2 DEF ReadOp, ReadOf
      <3>7. ReadFrom(i, f.log, n, {})'
        BY <3>1, <3>2, <3>4, <3>5, <3>6, <1>2 DEF ReadFrom
      <3>8. PICK e : e = ReadOf(i, f.log, n)' /\ e = ReadOf(i, f.log, n)
        BY <3>6
      <3>9. (IsSlot(ReadOf(i, f.log, n).id) => Clean(ReadOf(i, f.log, n).id))'
        BY <3>2, <3>4, <3>8 DEF IsSlot, Clean
      <3> QED BY <3>7, <3>9
    <2>4. (\A m \in deps[i] : i \in dpts[m] /\ (IsSlot(m) => Clean(m) \/ m \in A \ D))'
      <3> SUFFICES ASSUME NEW m \in deps[i]
                   PROVE  i \in dpts'[m] /\ (IsSlot(m) => Clean(m) \/ m \in A \ D)'
        BY <1>1 DEF OthersKept
      <3>1. i \in dpts[m] /\ (IsSlot(m) => Clean(m) \/ m \in A)
        BY <2>1 DEF ComputeHolds
      <3> QED BY <3>1, <1>1, <1>3, <1>7 DEF OthersKept
    <2>5. f.pulled => (/\ Pulled(f).do = "get" /\ Plan[Pulled(f).of].kind = "slot"
                       /\ made[Pulled(f).of] # None /\ IsSlot(made[Pulled(f).of].id)
                       /\ made[Pulled(f).of].id \in deps[i])'
      BY <2>1, <1>1, <1>2 DEF ComputeHolds, OthersKept, Pulled, IsSlot
    <2> QED BY <2>2, <2>3, <2>4, <2>5 DEF ComputeHolds
  <1> QED BY <1>6, <1>8, <1>9 DEF FrameHolds

\* So a stack of activations none of which is on x.
LEMMA FramesOutlast ==
  ASSUME GraphInv, NEW s \in Seq(Frame), NEW T, NEW x, NEW D, D \subseteq {x}, FramesHold(s, T),
         \A p \in 1..Len(s) : Recomputing(s[p]) => s[p].id # x, OthersKept(x, D)
  PROVE  FramesHold(s, T \ D)'
  <1>1. \A f \in Frame : \A A : (Recomputing(f) /\ f.id # x /\ FrameHolds(f, A)) => FrameHolds(f, A \ D)'
    BY FrameOutlasts
  <1> QED BY <1>1, FramesMove

-----------------------------------------------------------------------------
(* Steps that leave what the computed cells hold alone *)

\* The closures of computed cells read cells and computed cells, return or throw,
\* and a guard suppresses no ripple of a value that differs.
PureSlots ==
  \A k \in Items : Plan[k].kind = "slot" =>
    /\ \A log \in Logs : /\ Body(k, log).do \in {"get", "return", "throw"}
                         /\ Body(k, log).do = "get" => Plan[Body(k, log).of].kind # "effect"
    /\ \A old, new \in Values : Same(k, old, new) => old = new

LEMMA CacheInvParts ==
  ASSUME GraphInv, CacheInv
  PROVE  /\ ArenaKept /\ FlagsTyped /\ RestTyped /\ EdgesKept /\ StackSound(stack, gen, kind)
         /\ stack \in Seq(Frame) /\ deps \in [Ids -> SUBSET Ids] /\ dpts \in [Ids -> SUBSET Ids] /\ EdgesMatch
         /\ PlanKept /\ CleanBelow /\ HeldSound /\ FramesHold(stack, {})
  BY DEF GraphInv, CacheInv, StackSound, EdgesKept

\* Whoever writes, creates, clears or disposes is not recomputing a cell.
LEMMA WritersAlone ==
  ASSUME PureSlots, GraphInv, CacheInv, NEW op, Issued(op),
         op.do \in {"set", "make", "dispose", "dispose_self", "clear", "batch", "eager", "lazy"}
  PROVE  NoneRecomputing(stack) /\ stack # << >> /\ stack \in Seq(Frame)
  <1>0. stack \in Seq(Frame) /\ FramesHold(stack, {})
    BY CacheInvParts
  <1>1. CASE stack = <<Host>>
    BY <1>0, <1>1, QuietHost
  <1>2. CASE stack # <<Host>>
    <2>1. Asks(op)
      BY <1>2 DEF Issued, HostCalls, HostIdle
    <2>2. stack # << >> /\ Code(Top.code, Top.log) = op
      BY <2>1 DEF Asks, InClosure
    <2>3. ASSUME Recomputing(Head(stack)) PROVE FALSE
      <3>1. Top \in Frame /\ FrameHolds(Top, {})
        BY <2>2, <2>3, <1>0, FramesPop DEF Top
      <3>2. Top.id \in Ids /\ Top.log \in Logs /\ IsSlot(Top.id) /\ code[Top.id] = Top.code
        BY <3>1 DEF FrameHolds, Frame
      <3>3. Top.code \in Items /\ Plan[Top.code].kind = "slot"
        BY <3>2, CacheInvParts DEF ArenaKept, PlanKept, IsSlot
      <3>4. Body(Top.code, Top.log).do \in {"get", "return", "throw"}
        BY <3>2, <3>3 DEF PureSlots
      <3> QED BY <3>3, <3>4, <2>2 DEF Code
    <2> QED BY <2>2, <2>3, <1>0, QuietBelow
  <1> QED BY <1>1, <1>2

\* The nodes that hold values, and the nodes they depend on, are as they were.
Quietly ==
  /\ HandlesKept /\ batched'.cells = batched.cells
  /\ \A i \in Ids : IsSlot(i)' /\ val'[i] # None =>
       /\ IsSlot(i) /\ code'[i] = code[i] /\ val'[i] = val[i]
       /\ dirty'[i] = dirty[i] /\ force'[i] = force[i] /\ deps'[i] = deps[i]
       /\ \A m \in Ids : i \in dpts[m] =>
            /\ i \in dpts'[m] /\ kind'[m] = kind[m] /\ val'[m] = val[m]
            /\ IsSlot(m) => dirty'[m] = dirty[m] /\ force'[m] = force[m]
       /\ \A m \in Ids : i \in dpts'[m] /\ IsSlot(m)' => i \in dpts[m]

LEMMA QuietlyHolds ==
  ASSUME GraphInv, GraphInv', CacheInv, Quietly
  PROVE  CleanBelow' /\ HeldSound'
  <1>1. CleanBelow'
    <2> SUFFICES ASSUME NEW m \in Ids, IsSlot(m)', NEW n \in dpts'[m], Clean(n)'
                 PROVE  Clean(m)'
      BY DEF CleanBelow
    <2>1. n \in Ids
      BY DEF GraphInv, EdgesKept
    <2>2. IsSlot(n)' /\ val'[n] # None
      BY DEF Clean
    <2>3. n \in dpts[m] /\ Clean(n) /\ IsSlot(m)
      <3>1. n \in dpts[m]
        BY <2>1, <2>2 DEF Quietly
      <3>2. kind'[m] = kind[m]
        BY <2>1, <2>2, <3>1 DEF Quietly
      <3>3. /\ IsSlot(n) /\ val'[n] = val[n]
            /\ dirty'[n] = dirty[n] /\ force'[n] = force[n]
        BY <2>1, <2>2 DEF Quietly
      <3> QED BY <3>1, <3>2, <3>3 DEF IsSlot, Clean
    <2>4. Clean(m)
      BY <2>3 DEF CacheInv, CleanBelow
    <2>5. val'[m] = val[m] /\ dirty'[m] = dirty[m] /\ force'[m] = force[m]
      BY <2>1, <2>2, <2>3 DEF Quietly
    <2> QED BY <2>4, <2>5 DEF Clean
  <1>2. HeldSound'
    <2> SUFFICES ASSUME NEW i \in Ids, Held(i)'
                 PROVE  HeldFrom(i, batched.cells)'
      BY DEF HeldSound
    <2>1. IsSlot(i)' /\ val'[i] # None /\ ~force'[i]
      BY DEF Held
    <2>2. Held(i) /\ IsSlot(i)
      BY <2>1 DEF Quietly, Held
    <2>3. HeldFrom(i, batched.cells)
      BY <2>2 DEF CacheInv, HeldSound
    <2>4. NodeKept(i)
      <3>1. code'[i] = code[i] /\ val'[i] = val[i] /\ deps'[i] = deps[i]
        BY <2>1 DEF Quietly
      <3>2. ASSUME NEW d \in Ids, i \in dpts[d] PROVE DependencyKept(i, d)
        <4>1. i \in dpts'[d] /\ kind'[d] = kind[d] /\ val'[d] = val[d]
          BY <2>1, <3>2 DEF Quietly
        <4>2. batched'.cells = batched.cells
          BY DEF Quietly
        <4> QED BY <4>1, <4>2 DEF DependencyKept
      <3> QED BY <3>1, <3>2 DEF NodeKept
    <2>5. HandlesKept
      BY DEF Quietly
    <2> QED BY <2>2, <2>3, <2>4, <2>5, HeldKept
  <1> QED BY <1>1, <1>2

LEMMA QuietlyKeeps ==
  ASSUME GraphInv, GraphInv', CacheInv, Quietly, PlanKept', NoneRecomputing(stack')
  PROVE  CacheInv'
  <1>1. CleanBelow' /\ HeldSound'
    BY QuietlyHolds
  <1>2. FramesHold(stack, {})'
    BY DEF FramesHold, NoneRecomputing
  <1> QED BY <1>1, <1>2 DEF CacheInv

\* Nothing but the queue, the history and the stack moves.
LEMMA StillKeeps ==
  ASSUME GraphInv, GraphInv', CacheInv, NoneRecomputing(stack'),
         UNCHANGED <<arena, val, dirty, force, edges, batched, nmade>>,
         batchDepth' = batchDepth \/ batchDepth' = batchDepth + 1,
         \A k \in Items : Plan[k].kind # "effect" => made'[k] = made[k]
  PROVE  CacheInv'
  <1>1. /\ kind' = kind /\ code' = code /\ val' = val /\ dirty' = dirty /\ force' = force
        /\ deps' = deps /\ dpts' = dpts /\ batched' = batched /\ nmade' = nmade
    BY DEF arena, edges
  <1>2. Quietly
    BY <1>1 DEF Quietly, HandlesKept, IsSlot
  <1>3. PlanKept'
    <2>1. PlanKept /\ batchDepth \in Nat
      BY DEF CacheInv, GraphInv, RestTyped
    <2> QED BY <2>1, <1>1 DEF PlanKept, IsSlot
  <1> QED BY <1>2, <1>3, QuietlyKeeps

LEMMA UnwindQuiet ==
  ASSUME Unwind
  PROVE  NoneRecomputing(stack')
  BY QuietHost DEF Unwind

\* The top of the stack is taken off, or an effect asks to be run.
LEMMA StackStepsKeepCaches ==
  ASSUME GraphInv, GraphInv', CacheInv,
         StepFlush \/ StepSkip \/ FinishEffect \/ StepAttach \/ StepMade \/ ClosureThrow
  PROVE  CacheInv'
  <1>0. stack \in Seq(Frame) /\ FramesHold(stack, {}) /\ ArenaKept /\ EdgesKept
    BY CacheInvParts
  <1>1. CASE ClosureThrow
    <2>1. NoneRecomputing(stack')
      BY <1>1, UnwindQuiet DEF ClosureThrow
    <2> QED BY <1>1, <2>1, StillKeeps DEF ClosureThrow, batches, handles
  <1>2. CASE StepFlush \/ StepSkip \/ FinishEffect \/ StepAttach \/ StepMade
    <2>1. stack # << >> /\ ~Recomputing(Top)
      BY <1>2 DEF StepFlush, StepSkip, FinishEffect, StepAttach, StepMade, Walking, Recomputing
    <2>2. /\ NoneRecomputing(stack) /\ Rest \in Seq(Frame) /\ NoneRecomputing(Rest)
          /\ Top \in Frame /\ FrameSound(Top, gen, kind)
      <3>1. NoneRecomputing(stack)
        BY <1>0, <2>1, QuietBelow DEF Top
      <3> QED BY <3>1, <2>1, <1>0, QuietTail, CacheInvParts, TopSound DEF Top, Rest
    <2>3. CASE stack' = Rest \/ stack' = stack
      <3>1. NoneRecomputing(stack')
        BY <2>2, <2>3
      <3>2. UNCHANGED <<arena, val, dirty, force, edges, batched, nmade>> /\ batchDepth' = batchDepth
        BY <1>2 DEF StepFlush, StepSkip, FinishEffect, StepAttach, StepMade, flags, batches, handles
      <3>3. \A k \in Items : Plan[k].kind # "effect" => made'[k] = made[k]
        <4>1. CASE StepMade
          <5>1. Plan[Top.code].kind = "effect" /\ Top.code \in Items
            BY <2>2, <4>1 DEF FrameSound, StepMade
          <5>2. PICK h : made' = [made EXCEPT ![Top.code] = h]
            BY <4>1 DEF StepMade
          <5>3. made \in [Items -> Handle \cup {None}]
            BY CacheInvParts DEF RestTyped
          <5> QED BY <5>1, <5>2, <5>3
        <4>2. CASE StepFlush \/ StepSkip \/ FinishEffect \/ StepAttach
          BY <4>2 DEF StepFlush, StepSkip, FinishEffect, StepAttach, handles
        <4> QED BY <4>1, <4>2, <1>2
      <3> QED BY <3>1, <3>2, <3>3, StillKeeps
    <2>4. CASE stack' # Rest /\ stack' # stack
      <3>1. StepFlush /\ pending # << >>
        BY <1>2, <2>4 DEF StepFlush, StepSkip, FinishEffect, StepAttach, StepMade
      <3>2. Head(pending) \in Ids
        BY <3>1, TakeSound DEF GraphInv
      <3>3. PICK i \in Ids : i = Head(pending)
        BY <3>2
      <3> DEFINE f == Check(i)
      <3>4. stack' = Push(f, stack)
        BY <3>1, <3>3, <2>4 DEF StepFlush
      <3>5. f \in Frame /\ f.op = "should"
        BY <1>0, <3>3, CheckSound DEF GraphInv
      <3> HIDE DEF f
      <3>6. NoneRecomputing(stack')
        BY <3>4, <3>5, <2>2, <1>0, QuietPush DEF Recomputing
      <3>7. /\ UNCHANGED <<arena, val, dirty, force, edges, batched, nmade>> /\ batchDepth' = batchDepth
            /\ \A k \in Items : Plan[k].kind # "effect" => made'[k] = made[k]
        BY <3>1 DEF StepFlush, flags, batches, handles
      <3> QED BY <3>6, <3>7, StillKeeps
    <2> QED BY <2>3, <2>4
  <1> QED BY <1>1, <1>2

LEMMA BatchBeginKeepsCaches ==
  ASSUME GraphInv, GraphInv', CacheInv, BatchBegin
  PROVE  CacheInv'
  <1>1. stack' = <<Host>>
    BY DEF BatchBegin, HostCalls, HostIdle
  <1>2. NoneRecomputing(stack')
    BY <1>1, QuietHost
  <1> QED BY <1>2, StillKeeps DEF BatchBegin, flags, handles

LEMMA StartEffectKeepsCaches ==
  ASSUME GraphInv, GraphInv', CacheInv, StartEffect
  PROVE  CacheInv'
  <1>0. /\ stack \in Seq(Frame) /\ FramesHold(stack, {}) /\ ArenaKept /\ EdgesKept /\ FlagsTyped
        /\ deps \in [Ids -> SUBSET Ids] /\ dpts \in [Ids -> SUBSET Ids] /\ EdgesMatch
    BY CacheInvParts
  <1>1. stack # << >> /\ ~Recomputing(Top)
    BY DEF StartEffect, Walking, EffectDue, Recomputing
  <1>2. Rest \in Seq(Frame) /\ NoneRecomputing(Rest) /\ Top \in Frame
    <2>1. NoneRecomputing(stack)
      BY <1>0, <1>1, QuietBelow DEF Top
    <2> QED BY <2>1, <1>1, <1>0, QuietTail DEF Top, Rest
  <1>3. PICK i \in Ids : i = Top.id
    BY <1>2 DEF Frame
  <1>4. /\ kind[i] = "effect" /\ Detach(i) /\ force' = [force EXCEPT ![i] = FALSE]
        /\ stack' = Push(Activation("effect", i), Rest)
        /\ UNCHANGED <<arena, val, dirty, batches, handles>>
    BY <1>3 DEF StartEffect
  <1>5. NoneRecomputing(stack')
    <2>1. Activation("effect", i) \in Frame /\ Activation("effect", i).op = "effect"
      BY <1>0, ActivationSound
    <2> QED BY <2>1, <1>2, <1>4, QuietPush DEF Recomputing
  <1>6. /\ kind' = kind /\ code' = code /\ val' = val /\ dirty' = dirty /\ batched' = batched
        /\ made' = made /\ nmade' = nmade /\ batchDepth' = batchDepth
        /\ \A n \in Ids \ {i} : force'[n] = force[n] /\ deps'[n] = deps[n]
        /\ \A a \in Ids : \A n \in Ids \ {i} : n \in dpts'[a] <=> n \in dpts[a]
    <2>1. \A n \in Ids \ {i} : force'[n] = force[n] /\ deps'[n] = deps[n]
      BY <1>0, <1>4 DEF FlagsTyped, Detach
    <2>2. \A a \in Ids : \A n \in Ids \ {i} : n \in dpts'[a] <=> n \in dpts[a]
      BY <1>0, <1>4 DEF Detach
    <2> QED BY <2>1, <2>2, <1>4 DEF arena, batches, handles
  <1>7. Quietly
    <2>1. \A n \in Ids : IsSlot(n) => n # i
      BY <1>4 DEF IsSlot
    <2> QED BY <2>1, <1>6 DEF Quietly, HandlesKept, IsSlot
  <1>8. PlanKept'
    BY <1>6 DEF CacheInv, PlanKept, IsSlot
  <1> QED BY <1>5, <1>7, <1>8, <1>6, QuietlyKeeps DEF GraphInv, RestTyped

-----------------------------------------------------------------------------
(* Creation *)

\* A new entry, which nothing depends on, holds no value of a closure.
LEMMA AllocKeepsCaches ==
  ASSUME GraphInv, GraphInv', CacheInv, PlanKept', NoneRecomputing(stack'), HandlesKept,
         NEW n \in Ids, kind[n] = "empty", NEW k, NEW c,
         kind' = [kind EXCEPT ![n] = k], code' = [code EXCEPT ![n] = c], k = "slot" => val'[n] = None,
         \A i \in Ids \ {n} : val'[i] = val[i] /\ force'[i] = force[i],
         UNCHANGED <<dirty, edges, batched>>
  PROVE  CacheInv'
  <1>0. ArenaKept /\ EdgesKept /\ EdgesMatch
    BY CacheInvParts
  <1>1. /\ dirty' = dirty /\ deps' = deps /\ dpts' = dpts /\ batched' = batched
        /\ \A i \in Ids \ {n} : kind'[i] = kind[i] /\ code'[i] = code[i]
        /\ kind'[n] = k
    BY <1>0 DEF edges, ArenaKept
  <1>2. \A m \in Ids : \A i \in dpts[m] : m # n
    BY <1>0 DEF EdgesMatch
  <1>3. Quietly
    BY <1>1, <1>2 DEF Quietly, IsSlot
  <1> QED BY <1>3, QuietlyKeeps

LEMMA NewEffectKeepsCaches ==
  ASSUME PureSlots, GraphInv, GraphInv', CacheInv, NEW c \in Codes, NEW waiting \in Frame,
         waiting.op \in {"made", "attach"}, NEW op, Issued(op), op.do \in {"make", "eager"},
         NewEffect(c, waiting), UNCHANGED <<val, dirty, edges, batches, made>>,
         nmade' = nmade \/ nmade' = nmade + 1
  PROVE  CacheInv'
  <1>0. ArenaKept /\ FlagsTyped /\ RestTyped
    BY CacheInvParts
  <1>1. /\ Alloc("effect", c) /\ force' = [force EXCEPT ![NewId] = TRUE]
        /\ FlushOn(Push(waiting, Resume(None)), FALSE)
    BY DEF NewEffect
  <1>2. "effect" \in Kinds
    BY DEF Kinds
  <1>3. /\ NewId \in Ids /\ kind[NewId] = "empty"
        /\ kind' = [kind EXCEPT ![NewId] = "effect"] /\ code' = [code EXCEPT ![NewId] = c]
    BY <1>0, <1>1, <1>2, AllocSound
  <1>4. PICK n \in Ids : n = NewId
    BY <1>3
  <1>5. NoneRecomputing(stack')
    <2>1. Resume(None) \in Seq(Frame) /\ NoneRecomputing(Resume(None))
      BY WritersAlone, QuietResume DEF Results
    <2>2. Push(waiting, Resume(None)) \in Seq(Frame) /\ NoneRecomputing(Push(waiting, Resume(None)))
      BY <2>1, QuietPush DEF Recomputing
    <2> QED BY <2>2, <1>1, QuietFlush
  <1>6. kind' = [kind EXCEPT ![n] = "effect"] /\ code' = [code EXCEPT ![n] = c] /\ kind[n] = "empty"
    BY <1>3, <1>4
  <1>7. \A i \in Ids \ {n} : val'[i] = val[i] /\ force'[i] = force[i]
    BY <1>0, <1>1, <1>4 DEF FlagsTyped
  <1>8. PlanKept'
    <2>1. PlanKept
      BY CacheInvParts
    <2>2. kind \in [Ids -> Kinds \cup {"empty"}] /\ code \in [Ids -> Codes \cup {0}] /\ nmade \in Nat
      BY <1>0, PlanTyped DEF ArenaKept, RestTyped
    <2>3. \A i \in Ids : i # n => kind'[i] = kind[i] /\ code'[i] = code[i]
      BY <1>6, <2>2
    <2>4. kind'[n] = "effect"
      BY <1>6, <2>2
    <2>5. /\ \A i \in Ids : IsSlot(i)' => Plan[code'[i]].kind = "slot"
          /\ \A i \in Ids : kind'[i] = "cell" => val'[i] # None
      BY <2>1, <2>3, <2>4 DEF PlanKept, IsSlot
    <2>6. \A k \in Items : k > nmade' => k > nmade
      BY <2>2 DEF Items
    <2> QED BY <2>1, <2>5, <2>6 DEF PlanKept, batches
  <1>9. HandlesKept
    BY DEF HandlesKept
  <1> QED BY <1>5, <1>6, <1>7, <1>8, <1>9, AllocKeepsCaches DEF batches

LEMMA MakeKeepsCaches ==
  ASSUME PureSlots, GraphInv, GraphInv', CacheInv, Make
  PROVE  CacheInv'
  <1>0. ArenaKept /\ FlagsTyped /\ RestTyped /\ PlanKept
    BY CacheInvParts
  <1>1. PICK k : k = nmade + 1
    OBVIOUS
  <1>2. /\ Issued([do |-> "make"]) /\ nmade < Len(Plan) /\ nmade' = k
        /\ IF Plan[k].kind = "effect"
           THEN /\ NewEffect(k, [Host EXCEPT !.op = "made", !.id = NewId, !.code = k])
                /\ UNCHANGED <<val, made>>
           ELSE /\ Alloc(Plan[k].kind, k)
                /\ val' = [val EXCEPT ![NewId] = IF Plan[k].kind = "cell" THEN Plan[k].init ELSE None]
                /\ made' = [made EXCEPT ![k] = [id |-> NewId, gen |-> gen[NewId]]]
                /\ stack' = Resume(None) /\ UNCHANGED <<force, sched>>
        /\ UNCHANGED <<dirty, busy, eagers, armed, edges, batches, seen>>
    BY <1>1 DEF Make
  <1>3. k \in Items
    BY <1>0, <1>1, <1>2, PlanTyped DEF RestTyped, Items
  <1>4. k \in Codes /\ Plan[k].kind \in Kinds /\ Plan[k].init \in Values
    BY <1>3, PlanTyped
  <1>5. CASE Plan[k].kind = "effect"
    <2> DEFINE waiting == [Host EXCEPT !.op = "made", !.id = NewId, !.code = k]
    <2>1. NewEffect(k, waiting)
      BY <1>2, <1>5
    <2>2. NewId \in Ids
      BY <2>1 DEF NewEffect, Alloc
    <2>3. waiting \in Frame /\ waiting.op = "made"
      BY <2>2, <1>3, WaitingTyped
    <2>4. UNCHANGED <<val, dirty, edges, batches, made>> /\ nmade' = nmade + 1
      BY <1>1, <1>2, <1>5
    <2> HIDE DEF waiting
    <2>5. PICK op : op = [do |-> "make"]
      OBVIOUS
    <2>6. Issued(op) /\ op.do = "make"
      BY <1>2, <2>5
    <2> QED BY <1>4, <2>1, <2>3, <2>4, <2>6, NewEffectKeepsCaches
  <1>6. CASE Plan[k].kind # "effect"
    <2>1. /\ NewId \in Ids /\ kind[NewId] = "empty"
          /\ kind' = [kind EXCEPT ![NewId] = Plan[k].kind] /\ code' = [code EXCEPT ![NewId] = k]
      BY <1>0, <1>2, <1>3, <1>4, <1>6, AllocSound
    <2>2. PICK n \in Ids : n = NewId
      BY <2>1
    <2>3. /\ kind' = [kind EXCEPT ![n] = Plan[k].kind] /\ code' = [code EXCEPT ![n] = k] /\ kind[n] = "empty"
          /\ val' = [val EXCEPT ![n] = IF Plan[k].kind = "cell" THEN Plan[k].init ELSE None]
      BY <1>2, <1>6, <2>1, <2>2
    <2>4. \A i \in Ids \ {n} : val'[i] = val[i] /\ force'[i] = force[i]
      BY <1>0, <1>2, <1>6, <2>3 DEF FlagsTyped
    <2>5. NoneRecomputing(stack')
      <3>1. PICK op : op = [do |-> "make"]
        OBVIOUS
      <3>2. Issued(op) /\ op.do = "make"
        BY <1>2, <3>1
      <3>3. stack \in Seq(Frame) /\ NoneRecomputing(stack)
        BY <3>2, WritersAlone
      <3>4. None \in Results
        BY DEF Results
      <3>5. NoneRecomputing(Resume(None))
        BY <3>3, <3>4, QuietResume
      <3> QED BY <3>5, <1>2, <1>6
    <2>6. PICK h : made' = [made EXCEPT ![k] = h]
      BY <1>2, <1>6
    <2>7. \A o \in Items : o # k => made'[o] = made[o]
      BY <1>0, <2>6 DEF RestTyped
    <2>8. HandlesKept
      <3>1. nmade \in Nat /\ k > nmade
        BY <1>0, <1>1, PlanTyped DEF RestTyped
      <3>2. made[k] = None
        BY <1>0, <1>3, <1>6, <3>1 DEF PlanKept
      <3> QED BY <2>7, <3>2 DEF HandlesKept
    <2>9. PlanKept'
      <3>1. kind \in [Ids -> Kinds \cup {"empty"}] /\ code \in [Ids -> Codes \cup {0}] /\ nmade \in Nat
        BY <1>0, PlanTyped DEF ArenaKept, RestTyped
      <3>2. \A i \in Ids : i # n => kind'[i] = kind[i] /\ code'[i] = code[i] /\ val'[i] = val[i]
        BY <2>3, <2>4, <3>1
      <3>3. kind'[n] = Plan[k].kind /\ code'[n] = k
        BY <2>3, <3>1
      <3>4. Plan[k].kind = "cell" => val'[n] # None
        BY <1>0, <1>4, <2>3, PlanAssumption DEF FlagsTyped
      <3>5. /\ \A i \in Ids : IsSlot(i)' => Plan[code'[i]].kind = "slot"
            /\ \A i \in Ids : kind'[i] = "cell" => val'[i] # None
        BY <1>0, <3>2, <3>3, <3>4 DEF PlanKept, IsSlot
      <3>6. \A o \in Items : o > nmade' => o > nmade /\ o # k
        BY <1>1, <1>2, <3>1 DEF Items
      <3> QED BY <1>0, <1>2, <2>7, <3>5, <3>6 DEF PlanKept, batches
    <2>10. Plan[k].kind = "slot" => val'[n] = None
      BY <1>0, <2>3 DEF FlagsTyped
    <2> QED BY <1>2, <2>3, <2>4, <2>5, <2>8, <2>9, <2>10, AllocKeepsCaches DEF batches
  <1> QED BY <1>5, <1>6

LEMMA EagerKeepsCaches ==
  ASSUME PureSlots, GraphInv, GraphInv', CacheInv, Eager
  PROVE  CacheInv'
  <1>1. PICK k \in Items :
          /\ HostCalls("eager") /\ NewId \in Ids
          /\ NewEffect(Puller(k), [Host EXCEPT !.op = "attach", !.id = NewId, !.code = k])
          /\ UNCHANGED <<val, dirty, busy, eagers, armed, edges, batches, handles, seen>>
    BY DEF Eager
  <1> DEFINE waiting == [Host EXCEPT !.op = "attach", !.id = NewId, !.code = k]
  <1>2. waiting \in Frame /\ waiting.op = "attach"
    BY <1>1, WaitingTyped
  <1>3. Puller(k) \in Codes
    BY PlanTyped
  <1>4. UNCHANGED <<val, dirty, edges, batches, made>> /\ nmade' = nmade
    BY <1>1 DEF handles
  <1> HIDE DEF waiting
  <1>5. NewEffect(Puller(k), waiting)
    BY <1>1 DEF waiting
  <1>6. PICK op : op = [do |-> "eager"]
    OBVIOUS
  <1>7. Issued(op) /\ op.do = "eager"
    BY <1>1, <1>6 DEF Issued
  <1> QED BY <1>2, <1>3, <1>4, <1>5, <1>7, NewEffectKeepsCaches

-----------------------------------------------------------------------------
(* Invalidation *)

\* The step dirties the nodes M, forces R among them and forgets the values of H.
Invalidated(M, R, H) ==
  \A n \in Ids :
    IF IsSlot(n)
    THEN /\ n \in H => val'[n] = None
         /\ n \notin H => /\ val'[n] = val[n]
                          /\ dirty[n] \/ n \in M => dirty'[n]
                          /\ force[n] \/ n \in R => force'[n]
                          /\ dirty'[n] => dirty[n] \/ n \in M
                          /\ force'[n] => force[n] \/ n \in R
    ELSE val'[n] = val[n] \/ n \in batched'.cells \/ dpts[n] \subseteq R

LEMMA InvalidationKeepsCaches ==
  ASSUME GraphInv, GraphInv', CacheInv, PlanKept', NoneRecomputing(stack'),
         UNCHANGED <<arena, edges, handles>>,
         NEW M \in SUBSET Ids, NEW R, R \subseteq M, NEW H \in SUBSET Ids, Invalidated(M, R, H),
         \A m \in M : IsSlot(m) /\ ~dirty[m] => dpts[m] \subseteq M,
         \A m \in H : IsSlot(m) /\ val[m] # None => dpts[m] \subseteq H,
         \A d \in Ids : d \in batched.cells => d \in batched'.cells \/ dpts[d] \subseteq R
  PROVE  CacheInv'
  <1>0. /\ kind' = kind /\ code' = code /\ deps' = deps /\ dpts' = dpts /\ made' = made
        /\ EdgesKept /\ CleanBelow /\ HeldSound
    BY CacheInvParts DEF arena, edges, handles
  <1>1. CleanBelow'
    <2> SUFFICES ASSUME NEW m \in Ids, IsSlot(m), NEW n \in dpts[m], Clean(n)'
                 PROVE  Clean(m)'
      BY <1>0 DEF CleanBelow, IsSlot
    <2>1. n \in Ids
      BY <1>0 DEF EdgesKept
    <2>2. n \notin H /\ n \notin M /\ n \notin R /\ Clean(n)
      BY <1>0, <2>1 DEF Clean, IsSlot, Invalidated
    <2>3. Clean(m)
      BY <1>0, <2>2 DEF CleanBelow
    <2>4. m \notin M /\ m \notin H
      BY <2>2, <2>3 DEF Clean
    <2> QED BY <1>0, <2>3, <2>4 DEF Clean, IsSlot, Invalidated
  <1>2. HeldSound'
    <2> SUFFICES ASSUME NEW i \in Ids, Held(i)'
                 PROVE  HeldFrom(i, batched.cells)'
      BY DEF HeldSound
    <2>1. IsSlot(i) /\ i \notin H /\ i \notin R /\ val'[i] = val[i] /\ Held(i)
      BY <1>0 DEF Held, IsSlot, Invalidated
    <2>2. HeldFrom(i, batched.cells)
      BY <1>0, <2>1 DEF HeldSound
    <2>3. ASSUME NEW d \in Ids, i \in dpts[d] PROVE DependencyKept(i, d)
      <3>1. IsSlot(d) => val[d] # None
        BY <1>0, <2>2, <2>3 DEF HeldFrom, EdgesKept, EdgesMatch
      <3>2. IsSlot(d) => d \notin H
        BY <2>1, <2>3, <3>1
      <3>3. ~(dpts[d] \subseteq R)
        BY <2>1, <2>3
      <3>4. val'[d] = val[d] \/ (d \in batched'.cells /\ ~IsSlot(d))
        BY <3>2, <3>3 DEF Invalidated
      <3> QED BY <1>0, <2>3, <3>3, <3>4 DEF DependencyKept
    <2>4. NodeKept(i)
      BY <1>0, <2>1, <2>3 DEF NodeKept
    <2>5. HandlesKept
      BY <1>0 DEF HandlesKept
    <2> QED BY <2>1, <2>2, <2>4, <2>5, HeldKept
  <1>3. FramesHold(stack, {})'
    BY DEF FramesHold, NoneRecomputing
  <1> QED BY <1>1, <1>2, <1>3 DEF CacheInv

\* The marks of a walk.
LEMMA MarkedWalk ==
  ASSUME EdgesKept, NEW roots \in SUBSET Ids, NEW d, NEW f
  PROVE  /\ Marked(roots, d, f) \in SUBSET Ids /\ roots \subseteq Marked(roots, d, f)
         /\ \A m \in Marked(roots, d, f) : IsSlot(m) /\ ~d[m] => dpts[m] \subseteq Marked(roots, d, f)
  <1> DEFINE thru == {n \in Ids : IsSlot(n) /\ (~d[n] \/ (n \in roots /\ ~f[n]))}
  <1>1. Marked(roots, d, f) = Visited(roots, thru)
    BY DEF Marked
  <1>2. \A m \in Ids : IsSlot(m) /\ ~d[m] => m \in thru
    OBVIOUS
  <1>3. Marked(roots, d, f) \in SUBSET Ids
    BY WalksInside
  <1> HIDE DEF thru
  <1> QED BY <1>1, <1>2, <1>3, WalkCovers

LEMMA ClearedWalk ==
  ASSUME EdgesKept, NEW roots \in SUBSET Ids, NEW d
  PROVE  /\ Cleared(roots, d) \in SUBSET Ids
         /\ \A m \in Cleared(roots, d) : IsSlot(m) /\ val[m] # None => dpts[m] \subseteq Cleared(roots, d)
  <1> DEFINE thru == {n \in Ids : IsSlot(n) /\ (val[n] # None \/ d[n])}
  <1>1. Cleared(roots, d) = Visited(roots, thru) /\ Cleared(roots, d) \in SUBSET Ids
    BY WalksInside DEF Cleared
  <1>2. \A m \in Ids : IsSlot(m) /\ val[m] # None => m \in thru
    OBVIOUS
  <1> HIDE DEF thru
  <1> QED BY <1>1, <1>2, WalkCovers

\* What marking leaves of the flags of a computed cell.
LEMMA MarksOfSlots ==
  ASSUME NEW M, NEW R, NEW E, NEW d, NEW f, NEW n \in Ids, IsSlot(n)
  PROVE  /\ MarkDirty(M, d)[n] <=> d[n] \/ n \in M
         /\ Forced(Effects(E), MarkForce(R, f))[n] <=> f[n] \/ n \in R
  BY DEF MarkDirty, MarkForce, Forced, Effects, IsSlot

\* A write is noted, or it invalidates at once.
LEMMA SetKeepsCaches ==
  ASSUME PureSlots, GraphInv, GraphInv', CacheInv, Set
  PROVE  CacheInv'
  <1>0. FlagsTyped /\ RestTyped /\ EdgesKept /\ PlanKept /\ batched \in [cells : SUBSET Ids, clears : SUBSET Ids, slots : SUBSET Ids]
    BY CacheInvParts DEF RestTyped
  <1>1. PICK k \in Items, v \in Values :
          /\ Issued([do |-> "set", of |-> k, to |-> v]) /\ made[k] # None
          /\ LET i == made[k].id
                 reached == Marked(dpts[i], dirty, force) IN
             /\ kind[i] = "cell"
             /\ val' = [val EXCEPT ![i] = v]
             /\ IF EqualWrite(i, v) THEN stack' = Resume(None) /\ UNCHANGED <<dirty, force, sched, batched>>
                ELSE IF Batching
                THEN /\ batched' = [batched EXCEPT !.cells = @ \cup {i}]
                     /\ stack' = Resume(None) /\ UNCHANGED <<dirty, force, sched>>
                ELSE /\ dirty' = MarkDirty(reached, dirty)
                     /\ force' = Forced(Effects(dpts[i]), MarkForce(dpts[i], force))
                     /\ Schedule(Effects(reached))
                     /\ IF Effects(reached) = {} THEN stack' = Resume(None) /\ UNCHANGED flushing
                        ELSE FlushOn(Resume(None), FALSE)
                     /\ UNCHANGED batched
          /\ UNCHANGED <<arena, busy, eagers, armed, edges, batchDepth, handles, seen>>
    BY DEF Set
  <1>2. PICK i \in Ids : i = made[k].id
    BY <1>0, <1>1, MadeTyped
  <1>3. Resume(None) \in Seq(Frame) /\ NoneRecomputing(Resume(None))
    <2>1. PICK op : op = [do |-> "set", of |-> k, to |-> v]
      OBVIOUS
    <2>2. Issued(op) /\ op.do = "set"
      BY <1>1, <2>1
    <2>3. stack \in Seq(Frame) /\ NoneRecomputing(stack)
      BY <2>2, WritersAlone
    <2> QED BY <2>3, QuietResume DEF Results
  <1>4. NoneRecomputing(stack')
    <2>1. stack' = Resume(None) \/ FlushOn(Resume(None), FALSE)
      BY <1>1, <1>2
    <2> QED BY <2>1, <1>3, QuietFlush
  <1>5. kind[i] = "cell" /\ val'[i] = v /\ \A n \in Ids : n # i => val'[n] = val[n]
    BY <1>0, <1>1, <1>2 DEF FlagsTyped
  <1>6. dpts[i] \in SUBSET Ids
    BY <1>0 DEF EdgesKept
  <1>7. batched' = batched \/ (Batching /\ batched' = [batched EXCEPT !.cells = batched.cells \cup {i}])
    BY <1>1, <1>2
  <1>8. PlanKept'
    <2>1. \A n \in Ids : kind'[n] = "cell" => val'[n] # None
      BY <1>0, <1>1, <1>5, PlanAssumption DEF PlanKept, arena
    <2>2. batchDepth' = 0 => batched'.cells = {}
      BY <1>0, <1>1, <1>7 DEF PlanKept, Batching
    <2> QED BY <2>1, <2>2, <1>0, <1>1 DEF PlanKept, arena, handles, IsSlot
  <1>9. CASE EqualWrite(i, v) \/ Batching
    <2>0. UNCHANGED <<dirty, force>>
      BY <1>1, <1>2, <1>9
    <2>1. i \in batched'.cells \/ val'[i] = val[i]
      <3>1. CASE EqualWrite(i, v)
        BY <1>5, <3>1 DEF EqualWrite
      <3>2. CASE ~EqualWrite(i, v)
        <4>1. batched' = [batched EXCEPT !.cells = batched.cells \cup {i}]
          BY <1>1, <1>2, <1>9, <3>2
        <4> QED BY <1>0, <4>1
      <3> QED BY <3>1, <3>2
    <2>2. Invalidated({}, {}, {})
      BY <1>5, <2>0, <2>1 DEF Invalidated, IsSlot
    <2>3. \A d \in Ids : d \in batched.cells => d \in batched'.cells
      BY <1>0, <1>7
    <2> QED BY <1>1, <1>4, <1>8, <2>2, <2>3, InvalidationKeepsCaches
  <1>10. CASE ~(EqualWrite(i, v) \/ Batching)
    <2>1. /\ dirty' = MarkDirty(Marked(dpts[i], dirty, force), dirty)
          /\ force' = Forced(Effects(dpts[i]), MarkForce(dpts[i], force))
          /\ batched' = batched
      BY <1>1, <1>2, <1>10
    <2>2. PICK M \in SUBSET Ids, R \in SUBSET Ids : M = Marked(dpts[i], dirty, force) /\ R = dpts[i]
      BY <1>6, WalksInside
    <2>3. R \subseteq M /\ \A m \in M : IsSlot(m) /\ ~dirty[m] => dpts[m] \subseteq M
      BY <1>0, <1>6, <2>2, MarkedWalk
    <2>4. Invalidated(M, R, {})
      BY <1>5, <2>1, <2>2, MarksOfSlots DEF Invalidated, IsSlot
    <2> QED BY <1>1, <1>4, <1>8, <2>1, <2>3, <2>4, InvalidationKeepsCaches
  <1> QED BY <1>9, <1>10

\* ClearFrom forgets the values of H and leaves other computed cells the flags it
\* starts from.
Forgot(H, d, f) ==
  /\ H \in SUBSET Ids
  /\ \A m \in H : IsSlot(m) /\ val[m] # None => dpts[m] \subseteq H
  /\ \A n \in Ids : IsSlot(n) /\ n \in H => val'[n] = None
  /\ \A n \in Ids : IsSlot(n) /\ n \notin H =>
       val'[n] = val[n] /\ (dirty'[n] <=> d[n]) /\ (force'[n] <=> f[n])
  /\ \A n \in Ids : ~IsSlot(n) => val'[n] = val[n]

LEMMA ClearFromForgets ==
  ASSUME EdgesKept, stack \in Seq(Frame), NoneRecomputing(stack), NEW roots \in SUBSET Ids,
         NEW d, NEW f, NEW more, NEW b \in BOOLEAN, ClearFrom(roots, d, f, more, b)
  PROVE  Forgot(Cleared(roots, d), d, f) /\ NoneRecomputing(stack')
  <1>0. PICK H : H = Cleared(roots, d)
    OBVIOUS
  <1>1. H \in SUBSET Ids /\ \A m \in H : IsSlot(m) /\ val[m] # None => dpts[m] \subseteq H
    BY <1>0, ClearedWalk
  <1>2. /\ val' = [n \in Ids |-> IF n \in H /\ IsSlot(n) THEN None ELSE val[n]]
        /\ dirty' = [n \in Ids |-> d[n] /\ ~(n \in H /\ IsSlot(n))]
        /\ force' = Forced(Effects(H), [n \in Ids |-> f[n] /\ ~(n \in H /\ IsSlot(n))])
        /\ FlushOn(stack, b)
    BY <1>0 DEF ClearFrom
  <1>3. \A n \in Ids : IsSlot(n) => n \notin Effects(H)
    BY DEF Effects, IsSlot
  <1>4. \A n \in Ids : IsSlot(n) /\ n \notin H => (force'[n] <=> f[n])
    BY <1>2, <1>3 DEF Forced
  <1>5. NoneRecomputing(stack')
    BY <1>2, QuietFlush
  <1>6. Forgot(H, d, f)
    BY <1>1, <1>2, <1>4 DEF Forgot
  <1> QED BY <1>0, <1>5, <1>6

\* A step that writes no cell and leaves the plan alone keeps to it.
LEMMA PlanStays ==
  ASSUME CacheInv, UNCHANGED <<arena, handles>>, \A n \in Ids : kind[n] = "cell" => val'[n] = val[n],
         batchDepth' = 0 => batched'.cells = {}
  PROVE  PlanKept'
  BY DEF CacheInv, PlanKept, arena, handles, IsSlot

\* A clear is noted, or it forgets at once.
LEMMA ClearKeepsCaches ==
  ASSUME GraphInv, GraphInv', CacheInv, Clear
  PROVE  CacheInv'
  <1>0. /\ FlagsTyped /\ RestTyped /\ EdgesKept /\ PlanKept
        /\ batched \in [cells : SUBSET Ids, clears : SUBSET Ids, slots : SUBSET Ids]
    BY CacheInvParts DEF RestTyped
  <1> DEFINE Deferred(i) ==
               /\ \/ batched' = [batched EXCEPT !.slots = @ \cup {i}]
                  \/ batched' = [batched EXCEPT !.clears = @ \cup {i}]
               /\ UNCHANGED <<val, dirty, force, sched, stack>>
             Cleaned(i) == /\ \/ ClearFrom({i}, dirty, force, {}, FALSE)
                              \/ ClearFrom(IF kind[i] = "cell" THEN dpts[i] ELSE {}, dirty, force, {}, FALSE)
                           /\ UNCHANGED batched
  <1>1. PICK k \in Items :
          /\ HostCalls("clear") /\ made[k] # None
          /\ Deferred(made[k].id) \/ Cleaned(made[k].id)
          /\ UNCHANGED <<arena, busy, eagers, armed, edges, batchDepth, handles, seen>>
    BY DEF Clear
  <1>2. PICK i \in Ids : i = made[k].id
    BY <1>0, <1>1, MadeTyped
  <1>3. stack \in Seq(Frame) /\ NoneRecomputing(stack)
    BY <1>1, CacheInvParts, QuietHost DEF HostCalls, HostIdle
  <1>4. CASE Deferred(i)
    <2>1. batched'.cells = batched.cells
      BY <1>0, <1>4
    <2>2. PlanKept'
      BY <1>0, <1>1, <1>4, <2>1, PlanStays DEF PlanKept
    <2>3. Invalidated({}, {}, {})
      BY <1>4 DEF Invalidated
    <2> QED BY <1>1, <1>3, <1>4, <2>1, <2>2, <2>3, InvalidationKeepsCaches
  <1>5. CASE Cleaned(i)
    <2>1. PICK roots \in SUBSET Ids : ClearFrom(roots, dirty, force, {}, FALSE)
      <3>1. {i} \in SUBSET Ids /\ (IF kind[i] = "cell" THEN dpts[i] ELSE {}) \in SUBSET Ids
        BY <1>0 DEF EdgesKept
      <3> QED BY <3>1, <1>5
    <2>2. PICK H : H = Cleared(roots, dirty)
      OBVIOUS
    <2>3. Forgot(H, dirty, force) /\ NoneRecomputing(stack')
      BY <1>0, <1>3, <2>1, <2>2, ClearFromForgets
    <2>4. PlanKept'
      <3>1. \A n \in Ids : kind[n] = "cell" => val'[n] = val[n]
        BY <2>3 DEF Forgot, IsSlot
      <3> QED BY <1>0, <1>1, <1>5, <3>1, PlanStays DEF PlanKept
    <2>5. Invalidated({}, {}, H)
      BY <2>3 DEF Forgot, Invalidated
    <2> QED BY <1>1, <1>5, <2>3, <2>4, <2>5, InvalidationKeepsCaches DEF Forgot
  <1> QED BY <1>1, <1>2, <1>4, <1>5

\* The end of a batch marks what depends on the cells written in it, then clears.
LEMMA BatchEndKeepsCaches ==
  ASSUME GraphInv, GraphInv', CacheInv, BatchEnd
  PROVE  CacheInv'
  <1>0. /\ FlagsTyped /\ RestTyped /\ EdgesKept /\ PlanKept
        /\ batched \in [cells : SUBSET Ids, clears : SUBSET Ids, slots : SUBSET Ids]
        /\ batchDepth \in Nat
    BY CacheInvParts DEF RestTyped
  <1>1. /\ batchDepth > 0 /\ batchDepth' = batchDepth - 1
        /\ UNCHANGED <<arena, edges, handles>>
    BY DEF BatchEnd, BatchOpen
  <1>2. stack \in Seq(Frame) /\ NoneRecomputing(stack)
    BY CacheInvParts, QuietHost DEF BatchEnd, HostIdle
  <1>3. CASE batchDepth > 1
    <2>1. UNCHANGED <<val, dirty, force, batched, stack>>
      BY <1>3 DEF BatchEnd
    <2>2. batchDepth' # 0
      BY <1>0, <1>1, <1>3
    <2>3. PlanKept'
      BY <1>1, <2>1, <2>2, PlanStays
    <2>4. Invalidated({}, {}, {})
      BY <2>1 DEF Invalidated
    <2> QED BY <1>1, <1>2, <2>1, <2>3, <2>4, InvalidationKeepsCaches
  <1>4. CASE ~(batchDepth > 1)
    <2> DEFINE roots  == UNION {dpts[i] : i \in batched.cells}
               marked == Marked(roots, dirty, force)
               cells  == {i \in batched.clears : kind[i] = "cell"}
               below  == (UNION {dpts[i] : i \in cells}) \cup batched.slots
               d      == MarkDirty(marked, dirty)
               f      == Forced(Effects(roots), MarkForce(roots, force))
    <2>1. /\ ClearFrom(below, d, f, Effects(marked), TRUE)
          /\ batched' = [cells |-> {}, clears |-> {}, slots |-> {}]
      BY <1>4 DEF BatchEnd
    <2>2. roots \in SUBSET Ids /\ below \in SUBSET Ids
      <3>1. batched.cells \in SUBSET Ids /\ batched.clears \in SUBSET Ids /\ batched.slots \in SUBSET Ids
        BY <1>0
      <3>2. \A i \in Ids : dpts[i] \in SUBSET Ids
        BY <1>0 DEF EdgesKept
      <3>3. ASSUME NEW S \in SUBSET Ids PROVE UNION {dpts[i] : i \in S} \in SUBSET Ids
        BY <3>2
      <3>4. cells \in SUBSET Ids
        BY <3>1
      <3> HIDE DEF cells
      <3>5. UNION {dpts[i] : i \in batched.cells} \in SUBSET Ids /\ UNION {dpts[i] : i \in cells} \in SUBSET Ids
        BY <3>1, <3>3, <3>4
      <3>6. roots \in SUBSET Ids
        BY <3>5
      <3>7. \A A, B \in SUBSET Ids : A \cup B \in SUBSET Ids
        OBVIOUS
      <3> DEFINE left == UNION {dpts[i] : i \in cells}
                 right == batched.slots
      <3>8. left \in SUBSET Ids /\ right \in SUBSET Ids /\ below = left \cup right
        BY <3>1, <3>5
      <3> HIDE DEF left, right, below
      <3>9. left \cup right \in SUBSET Ids
        BY <3>7, <3>8
      <3>10. below \in SUBSET Ids
        BY <3>8, <3>9
      <3> QED BY <3>6, <3>10
    <2>3. \A i \in batched.cells : dpts[i] \subseteq roots
      OBVIOUS
    <2>4. PICK R \in SUBSET Ids : R = roots
      BY <2>2
    <2>5. PICK M \in SUBSET Ids : M = marked
      BY WalksInside
    <2>6. R \subseteq M /\ \A m \in M : IsSlot(m) /\ ~dirty[m] => dpts[m] \subseteq M
      BY <1>0, <2>4, <2>5, MarkedWalk
    <2>7. batched'.cells = {}
      BY <2>1
    <2> HIDE DEF roots, marked, cells, below
    <2>8. \A n \in Ids : IsSlot(n) => (d[n] <=> dirty[n] \/ n \in M) /\ (f[n] <=> force[n] \/ n \in R)
      BY <2>4, <2>5, MarksOfSlots
    <2> HIDE DEF d, f
    <2>9. PICK H : H = Cleared(below, d)
      OBVIOUS
    <2>10. Forgot(H, d, f) /\ NoneRecomputing(stack')
      BY <1>0, <1>2, <2>1, <2>2, <2>9, ClearFromForgets
    <2>11. PlanKept'
      <3>1. \A n \in Ids : kind[n] = "cell" => val'[n] = val[n]
        BY <2>10 DEF Forgot, IsSlot
      <3> QED BY <1>1, <2>7, <3>1, PlanStays
    <2>12. Invalidated(M, R, H)
      BY <2>8, <2>10 DEF Forgot, Invalidated
    <2>13. \A i \in Ids : i \in batched.cells => dpts[i] \subseteq R
      BY <2>3, <2>4
    <2> QED BY <1>1, <2>6, <2>10, <2>11, <2>12, <2>13, InvalidationKeepsCaches DEF Forgot
  <1> QED BY <1>3, <1>4

-----------------------------------------------------------------------------
(* Disposal *)

\* The survivors of a disposal that dirties the cone of every dependent.
LEMMA TearKeepsCaches ==
  ASSUME GraphInv, GraphInv', CacheInv, NEW gone \in SUBSET Ids, NEW order, NEW roots \in SUBSET Ids,
         Tear(gone, order, roots), \A g \in gone : dpts[g] \subseteq roots,
         NoneRecomputing(stack'), UNCHANGED <<batches, handles>>
  PROVE  CacheInv'
  <1>0. /\ EdgesKept /\ EdgesMatch /\ PlanKept /\ CleanBelow /\ HeldSound
        /\ deps \in [Ids -> SUBSET Ids] /\ dpts \in [Ids -> SUBSET Ids]
    BY CacheInvParts
  <1> DEFINE cone == Visited(roots, {n \in Ids \ gone : IsSlot(n) /\ (~dirty[n] \/ (n \in roots /\ ~force[n]))})
  <1>1. /\ roots \subseteq cone
        /\ \A m \in cone : m \in Ids \ gone /\ IsSlot(m) /\ ~dirty[m] => dpts[m] \subseteq cone
    <2> DEFINE thru == {n \in Ids \ gone : IsSlot(n) /\ (~dirty[n] \/ (n \in roots /\ ~force[n]))}
    <2>1. \A m \in Ids \ gone : IsSlot(m) /\ ~dirty[m] => m \in thru
      OBVIOUS
    <2>2. roots \subseteq Visited(roots, thru)
      BY <1>0, WalkCovers
    <2>3. \A m \in Visited(roots, thru) : m \in thru => dpts[m] \subseteq Visited(roots, thru)
      BY <1>0, WalkCovers
    <2> QED BY <2>1, <2>2, <2>3
  <1>2. /\ dpts' = DependentsLeft(gone) /\ deps' = DependenciesLeft(gone)
        /\ dirty' = [n \in Ids |-> IF n \in gone THEN FALSE ELSE MarkDirty(cone, dirty)[n]]
        /\ force' = [n \in Ids |-> IF n \in gone THEN FALSE ELSE MarkForce(roots, force)[n]]
        /\ val' = [n \in Ids |-> IF n \in gone THEN None ELSE val[n]]
        /\ kind' = [n \in Ids |-> IF n \in gone THEN "empty" ELSE kind[n]]
        /\ code' = [n \in Ids |-> IF n \in gone THEN 0 ELSE code[n]]
    BY DEF Tear
  <1> HIDE DEF cone
  <1>3. \A n \in gone : kind'[n] = "empty"
    BY <1>2
  <1>4. \A n \in Ids \ gone :
          /\ kind'[n] = kind[n] /\ code'[n] = code[n] /\ val'[n] = val[n]
          /\ IsSlot(n) => (dirty'[n] <=> dirty[n] \/ n \in cone) /\ (force'[n] <=> force[n] \/ n \in roots)
          /\ deps'[n] \subseteq deps[n]
    BY <1>2 DEF MarkDirty, MarkForce, DependenciesLeft
  <1>5. \A m, n \in Ids : n \in dpts'[m] => n \in dpts[m]
    BY <1>2 DEF DependentsLeft
  <1>6. \A m, n \in Ids \ gone : n \in dpts[m] => n \in dpts'[m]
    BY <1>2 DEF DependentsLeft
  <1>7. batched' = batched /\ batchDepth' = batchDepth /\ made' = made /\ nmade' = nmade
    BY DEF batches, handles
  <1>8. PlanKept'
    <2>1. \A i \in Ids : IsSlot(i)' => Plan[code'[i]].kind = "slot"
      BY <1>0, <1>3, <1>4 DEF PlanKept, IsSlot
    <2>2. \A i \in Ids : kind'[i] = "cell" => val'[i] # None
      BY <1>0, <1>3, <1>4 DEF PlanKept
    <2> QED BY <1>0, <1>7, <2>1, <2>2 DEF PlanKept
  <1>9. CleanBelow'
    <2> SUFFICES ASSUME NEW m \in Ids, IsSlot(m)', NEW n \in dpts'[m], Clean(n)'
                 PROVE  Clean(m)'
      BY DEF CleanBelow
    <2>1. n \in Ids \ gone /\ m \in Ids \ gone
      BY <1>3 DEF GraphInv, EdgesKept, Clean, IsSlot
    <2>2. IsSlot(n) /\ IsSlot(m) /\ n \in dpts[m]
      BY <1>4, <1>5, <2>1 DEF Clean, IsSlot
    <2>3. Clean(n) /\ n \notin cone
      BY <1>4, <2>1, <2>2 DEF Clean
    <2>4. Clean(m)
      BY <1>0, <2>2, <2>3 DEF CleanBelow
    <2>5. m \notin cone /\ m \notin roots
      BY <1>1, <2>1, <2>2, <2>3, <2>4 DEF Clean
    <2> QED BY <1>4, <2>1, <2>2, <2>4, <2>5 DEF Clean, IsSlot
  <1>10. HeldSound'
    <2> SUFFICES ASSUME NEW i \in Ids, Held(i)'
                 PROVE  HeldFrom(i, batched.cells)'
      BY DEF HeldSound
    <2>1. i \in Ids \ gone
      BY <1>3 DEF Held, IsSlot
    <2>2. IsSlot(i) /\ Held(i) /\ i \notin roots
      BY <1>4, <2>1 DEF Held, IsSlot
    <2>3. HeldFrom(i, batched.cells)
      BY <1>0, <2>2 DEF HeldSound
    <2>4. ASSUME NEW d \in Ids, i \in dpts[d] PROVE d \in Ids \ gone
      BY <2>2, <2>4
    <2>5. ASSUME NEW d \in Ids, i \in dpts[d] PROVE DependencyKept(i, d)
      <3>1. i \in dpts'[d] /\ kind'[d] = kind[d] /\ val'[d] = val[d]
        BY <1>4, <1>6, <2>1, <2>4, <2>5
      <3>2. d \in batched.cells => d \in batched'.cells
        BY <1>7
      <3> QED BY <3>1, <3>2 DEF DependencyKept
    <2>6. NodeKept(i)
      BY <1>4, <2>1, <2>5 DEF NodeKept
    <2>7. HandlesKept
      BY <1>7 DEF HandlesKept
    <2> QED BY <2>2, <2>3, <2>6, <2>7, HeldKept
  <1>11. FramesHold(stack, {})'
    BY DEF FramesHold, NoneRecomputing
  <1> QED BY <1>8, <1>9, <1>10, <1>11 DEF CacheInv

\* A node goes with the puller its handle still names, on which nothing depends.
LEMMA TearNodeKeepsCaches ==
  ASSUME GraphInv, GraphInv', CacheInv, NEW i \in Ids, TearNode(i),
         NoneRecomputing(stack'), UNCHANGED <<batches, handles>>
  PROVE  CacheInv'
  <1>0. EdgesKept /\ EdgesMatch /\ RestTyped
    BY CacheInvParts
  <1> DEFINE puller == IF IsSlot(i) /\ eager[i] THEN Named(eagerBy[i]) ELSE {}
             first == IF puller = {} THEN << >> ELSE <<CHOOSE p \in puller : TRUE>>
             gone == {i} \cup puller
  <1>1. Tear(gone, first \o <<i>>, dpts[i])
    BY DEF TearNode, Orphans
  <1>2. \A p \in Named(eagerBy[i]) : p \in Ids /\ kind[p] = "effect"
    BY <1>0 DEF Named, RestTyped, Handle
  <1>3. gone \in SUBSET Ids /\ dpts[i] \in SUBSET Ids
    BY <1>0, <1>2 DEF EdgesKept
  <1>4. \A g \in gone : dpts[g] \subseteq dpts[i]
    BY <1>0, <1>2 DEF EdgesMatch
  <1>5. PICK order : order = first \o <<i>>
    OBVIOUS
  <1> HIDE DEF gone, first, puller
  <1> QED BY <1>1, <1>3, <1>4, <1>5, TearKeepsCaches

LEMMA DisposalKeepsCaches ==
  ASSUME PureSlots, GraphInv, GraphInv', CacheInv, NEW op, Issued(op), op.do \in {"dispose", "dispose_self"},
         stack' = Resume(None), UNCHANGED <<flushing, batches, handles, seen>>, NEW i \in Ids,
         TearNode(i) \/ UNCHANGED <<arena, flags, eagers, armed, edges, pending, scheduled>>
  PROVE  CacheInv'
  <1>1. NoneRecomputing(stack')
    <2>1. stack \in Seq(Frame) /\ NoneRecomputing(stack)
      BY WritersAlone
    <2> QED BY <2>1, QuietResume DEF Results
  <1>2. CASE TearNode(i)
    BY <1>1, <1>2, TearNodeKeepsCaches
  <1>3. CASE UNCHANGED <<arena, flags, eagers, armed, edges, pending, scheduled>>
    BY <1>1, <1>3, StillKeeps DEF flags, batches, handles
  <1> QED BY <1>2, <1>3

LEMMA DisposeKeepsCaches ==
  ASSUME PureSlots, GraphInv, GraphInv', CacheInv, DisposeSelf \/ Dispose
  PROVE  CacheInv'
  <1>0. RestTyped /\ StackSound(stack, gen, kind)
    BY CacheInvParts
  <1>1. CASE DisposeSelf
    <2>1. stack # << >> /\ Issued([do |-> "dispose_self"])
      BY <1>1 DEF DisposeSelf, Asks, InClosure, Issued
    <2>2. Top.id \in Ids
      BY <2>1, <1>0, TopSound DEF Top, Frame
    <2>3. PICK i \in Ids : i = Top.id
      BY <2>2
    <2>4. PICK op : op = [do |-> "dispose_self"]
      OBVIOUS
    <2>5. Issued(op) /\ op.do = "dispose_self"
      BY <2>1, <2>4
    <2>6. /\ stack' = Resume(None) /\ UNCHANGED <<flushing, batches, handles, seen>>
          /\ TearNode(i) \/ UNCHANGED <<arena, flags, eagers, armed, edges, pending, scheduled>>
      BY <1>1, <2>3 DEF DisposeSelf
    <2> QED BY <2>5, <2>6, DisposalKeepsCaches
  <1>2. CASE Dispose
    <2>1. PICK k \in Items : DisposeItem(k)
      BY <1>2 DEF Dispose
    <2>2. PICK i \in Ids : i = made[k].id
      BY <2>1, <1>0, MadeTyped DEF DisposeItem
    <2>3. PICK op : op = [do |-> "dispose", of |-> k]
      OBVIOUS
    <2>4. Issued(op) /\ op.do = "dispose"
      BY <2>1, <2>3 DEF DisposeItem
    <2>5. /\ stack' = Resume(None) /\ UNCHANGED <<flushing, batches, handles, seen>>
          /\ TearNode(i) \/ UNCHANGED <<arena, flags, eagers, armed, edges, pending, scheduled>>
      BY <2>1, <2>2 DEF DisposeItem
    <2> QED BY <2>4, <2>5, DisposalKeepsCaches
  <1> QED BY <1>1, <1>2

LEMMA LazyKeepsCaches ==
  ASSUME GraphInv, GraphInv', CacheInv, Lazy
  PROVE  CacheInv'
  <1>0. EdgesKept /\ EdgesMatch /\ RestTyped
    BY CacheInvParts
  <1>1. PICK k \in Items :
          /\ HostCalls("lazy") /\ made[k] # None
          /\ eagerBy[made[k].id] # None
          /\ IF Named(eagerBy[made[k].id]) = {}
             THEN UNCHANGED <<arena, flags, armed, edges, pending, scheduled>>
             ELSE Tear(Named(eagerBy[made[k].id]), <<eagerBy[made[k].id].id>>, {})
          /\ UNCHANGED <<flushing, batches, stack, handles, seen>>
    BY DEF Lazy
  <1>2. NoneRecomputing(stack')
    BY <1>1, QuietHost DEF HostCalls, HostIdle
  <1>3. PICK h \in Handle : h = eagerBy[made[k].id]
    BY <1>0, <1>1, MadeTyped DEF RestTyped
  <1>4. \A p \in Named(h) : p \in Ids /\ kind[p] = "effect"
    BY DEF Named, Handle
  <1>5. CASE Named(h) = {}
    <2>1. UNCHANGED <<arena, flags, armed, edges, pending, scheduled>>
      BY <1>1, <1>3, <1>5
    <2> QED BY <1>1, <1>2, <2>1, StillKeeps DEF flags, batches, handles
  <1>6. CASE Named(h) # {}
    <2>1. PICK gone \in SUBSET Ids : gone = Named(h)
      BY <1>4
    <2>2. \A g \in gone : dpts[g] \subseteq {}
      BY <1>0, <1>4, <2>1 DEF EdgesMatch
    <2>3. PICK order : Tear(gone, order, {})
      BY <1>1, <1>3, <1>6, <2>1
    <2> QED BY <1>1, <1>2, <2>2, <2>3, TearKeepsCaches
  <1> QED BY <1>5, <1>6

-----------------------------------------------------------------------------
(* Recomputation *)

LEMMA StackIs ==
  ASSUME NEW t, FramesHold(t, {})', stack' = t
  PROVE  FramesHold(stack, {})'
  BY DEF FramesHold, AboveOf

LEMMA StackQuiet ==
  ASSUME NoneRecomputing(stack')
  PROVE  FramesHold(stack, {})'
  BY DEF FramesHold, NoneRecomputing

\* Only the dependencies of nodes that hold no value move.
EdgesOfHeldKept ==
  \A j \in Ids : Held(j) => /\ deps'[j] = deps[j]
                            /\ \A d \in Ids : j \in dpts'[d] <=> j \in dpts[d]

LEMMA EdgesHold ==
  ASSUME GraphInv, GraphInv', CacheInv, UNCHANGED <<arena, val, dirty, force, batches, handles>>,
         EdgesOfHeldKept
  PROVE  PlanKept' /\ CleanBelow' /\ HeldSound'
  <1>0. /\ kind' = kind /\ code' = code /\ made' = made /\ nmade' = nmade
        /\ batched' = batched /\ batchDepth' = batchDepth
        /\ PlanKept /\ CleanBelow /\ HeldSound /\ EdgesKept
    BY CacheInvParts DEF arena, batches, handles
  <1>1. PlanKept'
    BY <1>0 DEF PlanKept, IsSlot
  <1>2. CleanBelow'
    <2> SUFFICES ASSUME NEW m \in Ids, IsSlot(m), NEW n \in dpts'[m], Clean(n)
                 PROVE  Clean(m)
      BY <1>0 DEF CleanBelow, Clean, IsSlot
    <2>1. n \in Ids
      BY DEF GraphInv, EdgesKept
    <2>2. n \in dpts[m]
      BY <2>1 DEF EdgesOfHeldKept, Clean, Held
    <2> QED BY <1>0, <2>2 DEF CleanBelow
  <1>3. HeldSound'
    <2> SUFFICES ASSUME NEW i \in Ids, Held(i)'
                 PROVE  HeldFrom(i, batched.cells)'
      BY DEF HeldSound
    <2>1. Held(i) /\ IsSlot(i)
      BY <1>0 DEF Held, IsSlot
    <2>2. HeldFrom(i, batched.cells)
      BY <1>0, <2>1 DEF HeldSound
    <2>3. ASSUME NEW d \in Ids, i \in dpts[d] PROVE DependencyKept(i, d)
      BY <1>0, <2>1, <2>3 DEF DependencyKept, EdgesOfHeldKept
    <2>4. NodeKept(i)
      BY <1>0, <2>1, <2>3 DEF NodeKept, EdgesOfHeldKept
    <2>5. HandlesKept
      BY <1>0 DEF HandlesKept
    <2> QED BY <2>1, <2>2, <2>4, <2>5, HeldKept
  <1> QED BY <1>1, <1>2, <1>3

\* Every recomputation on the stack s has its node marked in progress.
BusyOn(s) == \A p \in 1..Len(s) : Recomputing(s[p]) => busy[s[p].id]

LEMMA BusyBelow ==
  ASSUME NEW s, NEW T, FramesHold(s, T)
  PROVE  BusyOn(s)
  BY DEF FramesHold, FrameHolds, BusyOn

LEMMA BusyPush ==
  ASSUME NEW s \in Seq(Frame), BusyOn(s), NEW f \in Frame, Recomputing(f) => busy[f.id]
  PROVE  BusyOn(Push(f, s))
  <1>1. Push(f, s) \in Seq(Frame) /\ Len(Push(f, s)) = Len(s) + 1 /\ Len(s) \in Nat
    BY LenProperties DEF Push
  <1>2. \A p \in 1..Len(s) + 1 : Push(f, s)[p] = IF p = 1 THEN f ELSE s[p - 1]
    BY DEF Push
  <1>3. ASSUME NEW p \in 1..Len(Push(f, s)), Recomputing(Push(f, s)[p]) PROVE busy[Push(f, s)[p].id]
    <2>1. CASE p = 1 BY <2>1, <1>1, <1>2, <1>3
    <2>2. CASE p # 1
      <3>1. p - 1 \in 1..Len(s)
        BY <2>2, <1>1
      <3> QED BY <3>1, <2>2, <1>1, <1>2, <1>3 DEF BusyOn
    <2> QED BY <2>1, <2>2
  <1> QED BY <1>3 DEF BusyOn

\* A node asked to be fresh is put on the stack, or is on it and the program ends.
LEMMA EnterHolds ==
  ASSUME GraphInv, GraphInv', UNCHANGED <<arena, val, dirty, force, made>>,
         NEW s \in Seq(Frame), NEW i \in Ids, IsSlot(i), ~Clean(i), deps'[i] = deps[i],
         FramesHold(s, {i})', BusyOn(s), EnterRefresh(i, s)
  PROVE  FramesHold(stack, {})'
  <1>0. /\ ArenaKept /\ busy \in [Ids -> BOOLEAN] /\ deps[i] \in SUBSET Ids
        /\ kind' = kind /\ code' = code /\ gen' = gen
    BY DEF GraphInv, EdgesKept, FlagsTyped, arena
  <1>1. CASE busy[i]
    <2>1. stack' = << >>
      BY <1>1 DEF EnterRefresh
    <2> QED BY <2>1, QuietHost, StackQuiet
  <1>2. CASE ~busy[i]
    <2>1. PICK a \in Frame : /\ a = Activation("refresh", i) /\ a.op = "refresh" /\ a.id = i
                             /\ a.gen = gen[i] /\ a.code = code[i] /\ a.chg = FALSE
      <3>1. Activation("refresh", i).chg = FALSE
        BY DEF Activation, Host
      <3> QED BY <1>0, <3>1, ActivationSound
    <2>2. PICK f : f = [a EXCEPT !.todo = deps[i]]
      OBVIOUS
    <2>3. /\ f \in Frame /\ f.op = "refresh" /\ f.id = i /\ f.gen = gen[i] /\ f.code = code[i]
          /\ f.chg = FALSE /\ f.todo = deps[i]
      BY <1>0, <2>1, <2>2 DEF Frame
    <2>4. stack' = Push(f, s) /\ busy' = [busy EXCEPT ![i] = TRUE]
      BY <1>2, <2>1, <2>2 DEF EnterRefresh
    <2>5. RefreshHolds(f, {})'
      BY <2>3 DEF RefreshHolds
    <2>6. (IsSlot(i) /\ gen[i] = f.gen /\ code[i] = f.code /\ busy[i] /\ ~Clean(i))'
      BY <1>0, <2>3, <2>4 DEF IsSlot, Clean
    <2>7. FrameHolds(f, {})'
      BY <2>3, <2>5, <2>6 DEF FrameHolds
    <2>8. \A p \in 1..Len(s) : Recomputing(s[p]) => s[p].id # f.id
      BY <1>2, <2>3 DEF BusyOn
    <2>9. FramesHold(s, {f.id})'
      BY <2>3
    <2>10. FramesHold(Push(f, s), {})'
      BY <2>3, <2>7, <2>8, <2>9, FramesPush DEF Recomputing
    <2>11. PICK t : t = Push(f, s)
      OBVIOUS
    <2> QED BY <2>4, <2>10, <2>11, StackIs
  <1> QED BY <1>1, <1>2

\* The activation on top goes on with its closure or its dependencies.
LEMMA TopGoesOn ==
  ASSUME GraphInv, CacheInv, stack # << >>, Recomputing(Top), OthersKept(Top.id, {}),
         NEW f \in Frame, Recomputing(f), f.id = Top.id, NEW T, FrameHolds(f, T)'
  PROVE  /\ Push(f, Rest) \in Seq(Frame) /\ BusyOn(Push(f, Rest))
         /\ \A t : t = Push(f, Rest) => FramesHold(t, T)'
  <1>0. stack \in Seq(Frame) /\ FramesHold(stack, {})
    BY CacheInvParts
  <1>1. PICK x : x = Top.id
    OBVIOUS
  <1>2. PICK r : r = Rest
    OBVIOUS
  <1>3. /\ r \in Seq(Frame) /\ FrameHolds(Top, {}) /\ FramesHold(r, {x})
        /\ \A p \in 1..Len(r) : Recomputing(r[p]) => r[p].id # x
    BY <1>0, <1>1, <1>2, FramesPop DEF Top, Rest
  <1>4. OthersKept(x, {})
    BY <1>1
  <1>5. PICK S : S = {x}
    OBVIOUS
  <1>6. FramesHold(r, S \ {})'
    BY <1>3, <1>4, <1>5, FramesOutlast
  <1>7. S \ {} = {f.id}
    BY <1>1, <1>5
  <1>8. FramesHold(r, {f.id})'
    BY <1>6, <1>7
  <1>9. FramesHold(Push(f, r), T)'
    BY <1>1, <1>3, <1>8, FramesPush
  <1>10. Push(f, r) \in Seq(Frame)
    BY <1>3 DEF Push
  <1>11. BusyOn(Push(f, r))
    <2>1. BusyOn(r)
      BY <1>3, BusyBelow
    <2>2. busy[f.id]
      BY <1>1, <1>3 DEF FrameHolds
    <2> QED BY <1>3, <2>1, <2>2, BusyPush
  <1> QED BY <1>2, <1>9, <1>10, <1>11

\* The activation on top is over: its node is fresh, and what asked for it is told
\* whether the value changed.
LEMMA TopReturns ==
  ASSUME GraphInv, CacheInv, stack # << >>, Recomputing(Top), OthersKept(Top.id, {Top.id}),
         NEW b \in BOOLEAN, b => \A j \in Ids \ {Top.id} : Top.id \in deps[j] => ~Held(j)'
  PROVE  \A t : t = Deliver(Rest, b) => FramesHold(t, {})'
  <1>0. stack \in Seq(Frame) /\ FramesHold(stack, {})
    BY CacheInvParts
  <1>1. PICK x : x = Top.id
    OBVIOUS
  <1>2. PICK r : r = Rest
    OBVIOUS
  <1>3. /\ r \in Seq(Frame) /\ FramesHold(r, {x})
        /\ \A p \in 1..Len(r) : Recomputing(r[p]) => r[p].id # x
    BY <1>0, <1>1, <1>2, FramesPop DEF Top, Rest
  <1>4. OthersKept(x, {x}) /\ {x} \ {x} = {}
    BY <1>1
  <1>5. r # << >>
    <2>1. Top.op # "host"
      BY DEF Recomputing
    <2> QED BY <2>1, <1>2, CacheInvParts, TopSound DEF Top, Rest
  <1>6. CASE Head(r).op \notin {"refresh", "should"}
    <2>1. FramesHold(r, {x} \ {x})'
      BY <1>3, <1>4, FramesOutlast
    <2>2. FramesHold(r, {})'
      BY <1>4, <2>1
    <2>3. Deliver(r, b) = r
      BY <1>6 DEF Deliver
    <2> QED BY <1>2, <2>2, <2>3
  <1>7. CASE Head(r).op \in {"refresh", "should"}
    <2>0. Head(r) \in Frame /\ Tail(r) \in Seq(Frame)
      BY <1>3, <1>5
    <2>1. PICK h : h = Head(r)
      OBVIOUS
    <2>2. PICK u : u = Tail(r)
      OBVIOUS
    <2>3. h \in Frame /\ u \in Seq(Frame) /\ h.op = Head(r).op
      BY <2>0, <2>1, <2>2
    <2>4. PICK f : f = [h EXCEPT !.chg = @ \/ b]
      OBVIOUS
    <2>5. /\ f \in Frame /\ f.op = h.op /\ f.id = h.id /\ f.gen = h.gen /\ f.code = h.code
          /\ f.todo = h.todo /\ f.chg = (h.chg \/ b)
      BY <2>3, <2>4 DEF Frame
    <2>6. Deliver(r, b) = Push(f, u)
      BY <1>7, <2>1, <2>2, <2>4 DEF Deliver
    <2>7. CASE h.op = "should"
      <3>1. NoneRecomputing(r)
        BY <1>3, <1>5, <2>1, <2>7, QuietBelow DEF Recomputing
      <3>2. NoneRecomputing(u)
        BY <1>3, <1>5, <2>2, <3>1, QuietTail
      <3>3. NoneRecomputing(Push(f, u))
        BY <2>3, <2>5, <2>7, <3>2, QuietPush DEF Recomputing
      <3>4. PICK t : t = Push(f, u)
        OBVIOUS
      <3>5. FramesHold(t, {})'
        BY <3>3, <3>4 DEF FramesHold, NoneRecomputing
      <3> QED BY <1>2, <2>6, <3>4, <3>5
    <2>8. CASE h.op = "refresh"
      <3>1. /\ FrameHolds(h, {x}) /\ FramesHold(u, {h.id})
            /\ \A p \in 1..Len(u) : Recomputing(u[p]) => u[p].id # h.id
        BY <1>3, <1>5, <2>1, <2>2, <2>8, FramesPop DEF Recomputing
      <3>2. Recomputing(h) /\ h.id # x
        <4>1. Len(r) \in Nat /\ Len(r) # 0 /\ h = r[1]
          BY <1>3, <1>5, <2>1, LenProperties, EmptySeq
        <4>2. 1 \in 1..Len(r) /\ Recomputing(h)
          BY <4>1, <2>8 DEF Recomputing
        <4> QED BY <4>1, <4>2, <1>3
      <3>3. FrameHolds(h, {x} \ {x})'
        BY <1>4, <2>3, <3>1, <3>2, FrameOutlasts
      <3>4. FrameHolds(h, {})'
        BY <1>4, <3>3
      <3>5. b => ~Held(h.id)'
        <4>1. x \in deps[h.id] /\ h.id \in Ids
          BY <2>3, <2>8, <3>1 DEF FrameHolds, RefreshHolds, Frame
        <4> QED BY <4>1, <3>2, <1>1
      <3>6. FrameHolds(f, {})'
        BY <2>5, <2>8, <3>4, <3>5 DEF FrameHolds, RefreshHolds
      <3>7. \A p \in 1..Len(u) : Recomputing(u[p]) => u[p].id # x
        <4>1. Len(r) \in Nat /\ Len(r) # 0 /\ Len(u) = Len(r) - 1
          BY <1>3, <1>5, <2>2, LenProperties, EmptySeq
        <4>2. \A p \in 1..Len(u) : u[p] = r[p + 1] /\ p + 1 \in 1..Len(r)
          BY <1>3, <1>5, <2>2, <4>1
        <4> QED BY <4>2, <1>3
      <3>8. PICK S : S = {h.id}
        OBVIOUS
      <3>9. FramesHold(u, S \ {x})'
        BY <1>4, <2>3, <3>1, <3>7, <3>8, FramesOutlast
      <3>10. S \ {x} = {f.id}
        BY <2>5, <3>2, <3>8
      <3>11. FramesHold(u, {f.id})'
        BY <3>9, <3>10
      <3>12. FramesHold(Push(f, u), {})'
        BY <2>3, <2>5, <3>1, <3>2, <3>6, <3>11, FramesPush DEF Recomputing
      <3> QED BY <1>2, <2>6, <3>12
    <2> QED BY <1>7, <2>3, <2>7, <2>8
  <1> QED BY <1>6, <1>7

LEMMA CacheInvFrom ==
  ASSUME PlanKept', CleanBelow', HeldSound', FramesHold(stack, {})'
  PROVE  CacheInv'
  BY DEF CacheInv

LEMMA HostGetKeepsCaches ==
  ASSUME GraphInv, GraphInv', CacheInv, HostGet
  PROVE  CacheInv'
  <1>1. PICK k \in Items : /\ HostCalls("get") /\ made[k] # None
                           /\ IsSlot(made[k].id) /\ ~Clean(made[k].id) /\ EnterRefresh(made[k].id, stack)
    BY DEF HostGet
  <1>2. UNCHANGED <<arena, val, dirty, force, edges, batches, handles>>
    BY DEF HostGet
  <1>3. PICK i \in Ids : i = made[k].id
    BY <1>1, CacheInvParts, MadeTyped
  <1>4. PICK s \in Seq(Frame) : s = stack /\ NoneRecomputing(s)
    BY <1>1, CacheInvParts, QuietHost DEF HostCalls, HostIdle
  <1>5. PlanKept' /\ CleanBelow' /\ HeldSound'
    BY <1>2, EdgesHold DEF EdgesOfHeldKept, edges
  <1>6. FramesHold(s, {i})' /\ BusyOn(s)
    BY <1>4 DEF FramesHold, NoneRecomputing, BusyOn
  <1>7. EnterRefresh(i, s)
    BY <1>1, <1>3, <1>4
  <1>8. FramesHold(stack, {})'
    BY <1>1, <1>2, <1>3, <1>6, <1>7, EnterHolds DEF edges, handles
  <1> QED BY <1>5, <1>8, CacheInvFrom

\* The next dependency: fresh, or refreshed first.
LEMMA StepDependencyKeepsCaches ==
  ASSUME GraphInv, GraphInv', CacheInv, StepDependency
  PROVE  CacheInv'
  <1>0. stack \in Seq(Frame) /\ FramesHold(stack, {}) /\ busy \in [Ids -> BOOLEAN]
    BY CacheInvParts DEF FlagsTyped
  <1>1. PICK d \in Ids :
          /\ Walking /\ d \in Top.todo
          /\ LET s == Push([Top EXCEPT !.todo = @ \ {d}], Rest) IN
             IF IsSlot(d) /\ ~Clean(d) THEN EnterRefresh(d, s) ELSE stack' = s /\ UNCHANGED busy
    BY DEF StepDependency
  <1>2. UNCHANGED <<arena, val, dirty, force, edges, batches, handles>>
    BY DEF StepDependency
  <1>3. PlanKept' /\ CleanBelow' /\ HeldSound'
    BY <1>2, EdgesHold DEF EdgesOfHeldKept, edges
  <1>4. stack # << >> /\ Top.op \in {"should", "refresh"} /\ Top \in Frame
    BY <1>1, CacheInvParts, TopSound DEF Walking, Top
  <1>5. PICK f \in Frame : /\ f = [Top EXCEPT !.todo = @ \ {d}] /\ f.todo = Top.todo \ {d}
                           /\ f.op = Top.op /\ f.id = Top.id /\ f.gen = Top.gen /\ f.code = Top.code
                           /\ f.chg = Top.chg
    <2>1. PICK f : f = [Top EXCEPT !.todo = @ \ {d}]
      OBVIOUS
    <2>2. f \in Frame
      BY <1>4, <2>1 DEF Frame
    <2>3. /\ f.todo = Top.todo \ {d} /\ f.op = Top.op /\ f.id = Top.id /\ f.gen = Top.gen
          /\ f.code = Top.code /\ f.chg = Top.chg
      BY <1>4, <2>1 DEF Frame
    <2> QED BY <2>1, <2>2, <2>3
  <1>6. PICK s : s = Push(f, Rest)
    OBVIOUS
  <1>7. IF IsSlot(d) /\ ~Clean(d) THEN EnterRefresh(d, s) ELSE stack' = s /\ UNCHANGED busy
    BY <1>1, <1>5, <1>6
  <1>8. \A i \in Ids : busy[i] => busy'[i]
    BY <1>0, <1>7 DEF EnterRefresh
  <1>5a. PICK T : T = IF IsSlot(d) /\ ~Clean(d) THEN {d} ELSE {}
    OBVIOUS
  <1>9. s \in Seq(Frame) /\ BusyOn(s) /\ FramesHold(s, T)'
    <2>1. CASE Top.op = "should"
      <3>1. NoneRecomputing(stack)
        BY <1>0, <1>4, <2>1, QuietBelow DEF Top, Recomputing
      <3>2. Rest \in Seq(Frame) /\ NoneRecomputing(Rest)
        BY <1>0, <1>4, <3>1, QuietTail DEF Rest
      <3>3. s \in Seq(Frame) /\ NoneRecomputing(s)
        BY <1>5, <1>6, <2>1, <3>2, QuietPush DEF Recomputing
      <3> QED BY <3>3 DEF FramesHold, NoneRecomputing, BusyOn
    <2>2. CASE Top.op = "refresh"
      <3>1. Recomputing(Top) /\ Recomputing(f)
        BY <1>5, <2>2 DEF Recomputing
      <3>2. FrameHolds(Top, {})
        BY <1>0, <1>4, <3>1, FramesPop DEF Top
      <3>3. OthersKept(Top.id, {})
        BY <1>2, <1>8 DEF OthersKept, edges, handles, arena, Clean, Held, IsSlot
      <3>4. Top.id \in Ids
        BY <1>4 DEF Frame
      <3>5. RefreshHolds(f, T)'
        <4>1. RefreshHolds(Top, {})
          BY <2>2, <3>2 DEF FrameHolds
        <4>2. kind' = kind /\ val' = val /\ dirty' = dirty /\ force' = force /\ deps' = deps
          BY <1>2 DEF arena, edges
        <4>3. f.todo \subseteq deps[f.id] /\ T \subseteq deps[f.id] /\ (f.chg => ~Held(f.id))
          BY <1>1, <1>5a, <1>5, <4>1 DEF RefreshHolds
        <4>4. \A m \in deps[f.id] \ f.todo : IsSlot(m) => Clean(m) \/ m \in T
          BY <1>1, <1>5a, <1>5, <4>1 DEF RefreshHolds
        <4> QED BY <4>2, <4>3, <4>4 DEF RefreshHolds, Held, Clean, IsSlot
      <3>7. (IsSlot(f.id) /\ gen[f.id] = f.gen /\ code[f.id] = f.code /\ busy[f.id] /\ ~Clean(f.id))'
        BY <1>2, <1>5, <1>8, <3>2, <3>4 DEF FrameHolds, IsSlot, Clean, arena
      <3>8. FrameHolds(f, T)'
        BY <1>5, <2>2, <3>5, <3>7 DEF FrameHolds
      <3>9. s \in Seq(Frame) /\ BusyOn(s) /\ FramesHold(s, T)'
        BY <1>4, <1>5, <1>6, <3>1, <3>3, <3>8, TopGoesOn
      <3> QED BY <3>9
    <2> QED BY <1>4, <2>1, <2>2
  <1>10. FramesHold(stack, {})'
    <2>1. CASE IsSlot(d) /\ ~Clean(d)
      <3>1. FramesHold(s, {d})'
        BY <1>9, <1>5a, <2>1
      <3> QED BY <1>2, <1>7, <1>9, <2>1, <3>1, EnterHolds DEF edges, handles
    <2>2. CASE ~(IsSlot(d) /\ ~Clean(d))
      <3>1. FramesHold(s, {})'
        BY <1>9, <1>5a, <2>2
      <3> QED BY <1>7, <2>2, <3>1, StackIs
    <2> QED BY <2>1, <2>2
  <1> QED BY <1>3, <1>10, CacheInvFrom

\* Nothing it depends on has changed: what it holds is fresh again.
LEMMA EndRefreshKeepsCaches ==
  ASSUME GraphInv, GraphInv', CacheInv, EndRefresh
  PROVE  CacheInv'
  <1>0. /\ stack \in Seq(Frame) /\ FramesHold(stack, {}) /\ FlagsTyped /\ EdgesKept /\ EdgesMatch
        /\ PlanKept /\ CleanBelow /\ HeldSound
    BY CacheInvParts
  <1>1. stack # << >> /\ Top.op = "refresh" /\ Recomputing(Top)
    BY DEF EndRefresh, Walking, Recomputing
  <1>2. Top \in Frame /\ FrameHolds(Top, {})
    BY <1>0, <1>1, FramesPop DEF Top
  <1>3. PICK i \in Ids : i = Top.id
    BY <1>2 DEF Frame
  <1>4. IsSlot(i) /\ ~Stale(i) /\ Top.todo = {}
    BY <1>2, <1>3 DEF EndRefresh, FrameHolds
  <1>5. Held(i) /\ \A m \in deps[i] : IsSlot(m) => Clean(m)
    BY <1>1, <1>2, <1>3, <1>4 DEF Stale, Held, FrameHolds, RefreshHolds
  <1>6. /\ dirty' = [dirty EXCEPT ![i] = FALSE] /\ busy' = [busy EXCEPT ![i] = FALSE]
        /\ stack' = Deliver(Rest, FALSE)
    <2>1. /\ dirty' = [dirty EXCEPT ![i] = dirty[i] /\ ~IsSlot(i)]
          /\ busy' = [busy EXCEPT ![i] = busy[i] /\ ~IsSlot(i)]
          /\ stack' = Deliver(Rest, FALSE)
      BY <1>3 DEF EndRefresh
    <2>2. (dirty[i] /\ ~IsSlot(i)) = FALSE /\ (busy[i] /\ ~IsSlot(i)) = FALSE
      BY <1>4
    <2> QED BY <2>1, <2>2
  <1>7. /\ UNCHANGED <<arena, val, force, edges, batches, handles>>
        /\ kind' = kind /\ code' = code /\ val' = val /\ force' = force /\ deps' = deps /\ dpts' = dpts
        /\ made' = made /\ nmade' = nmade /\ batched' = batched /\ batchDepth' = batchDepth
    BY DEF EndRefresh, arena, edges, batches, handles
  <1>8. \A m \in Ids : Clean(m)' <=> Clean(m) \/ m = i
    BY <1>0, <1>4, <1>5, <1>6, <1>7 DEF Clean, Held, IsSlot, FlagsTyped
  <1>9. \A m \in Ids : Held(m)' <=> Held(m)
    BY <1>7 DEF Held, IsSlot
  <1>10. PlanKept'
    BY <1>0, <1>7 DEF PlanKept, IsSlot
  <1>11. CleanBelow'
    <2> SUFFICES ASSUME NEW m \in Ids, IsSlot(m), NEW n \in dpts[m], Clean(n)'
                 PROVE  Clean(m)
      BY <1>7, <1>8 DEF CleanBelow, IsSlot
    <2>1. n \in Ids /\ m \in deps[n]
      BY <1>0 DEF EdgesKept, EdgesMatch
    <2> QED BY <1>0, <1>5, <1>8, <2>1 DEF CleanBelow
  <1>12. HeldSound'
    <2> SUFFICES ASSUME NEW j \in Ids, Held(j)
                 PROVE  HeldFrom(j, batched.cells)'
      BY <1>9 DEF HeldSound
    <2>1. HeldFrom(j, batched.cells) /\ IsSlot(j)
      BY <1>0 DEF HeldSound, Held
    <2>2. NodeKept(j) /\ HandlesKept
      BY <1>7 DEF NodeKept, DependencyKept, HandlesKept
    <2> QED BY <2>1, <2>2, HeldKept
  <1>13. FramesHold(stack, {})'
    <2>1. OthersKept(i, {i})
      BY <1>0, <1>6, <1>7, <1>8, <1>9 DEF OthersKept, FlagsTyped
    <2>2. OthersKept(Top.id, {Top.id})
      BY <1>3, <2>1
    <2>3. PICK t : t = Deliver(Rest, FALSE)
      OBVIOUS
    <2>4. FramesHold(t, {})'
      BY <1>1, <2>2, <2>3, TopReturns
    <2> QED BY <1>6, <2>3, <2>4, StackIs
  <1> QED BY <1>10, <1>11, <1>12, <1>13, CacheInvFrom

\* What it held is not what it is now, and its dependencies are given up.
LEMMA StartComputeKeepsCaches ==
  ASSUME GraphInv, GraphInv', CacheInv, StartCompute
  PROVE  CacheInv'
  <1>0. /\ stack \in Seq(Frame) /\ FramesHold(stack, {}) /\ ArenaKept
        /\ deps \in [Ids -> SUBSET Ids] /\ dpts \in [Ids -> SUBSET Ids]
    BY CacheInvParts
  <1>1. stack # << >> /\ Top.op = "refresh" /\ Recomputing(Top)
    BY DEF StartCompute, Walking, Recomputing
  <1>2. Top \in Frame /\ FrameHolds(Top, {})
    BY <1>0, <1>1, FramesPop DEF Top
  <1>3. PICK i \in Ids : i = Top.id
    BY <1>2 DEF Frame
  <1>4. IsSlot(i) /\ ~Held(i) /\ ~Clean(i) /\ busy[i]
    BY <1>1, <1>2, <1>3 DEF StartCompute, Stale, Held, FrameHolds, RefreshHolds
  <1>5. Detach(i) /\ stack' = Push(Activation("compute", i), Rest)
    BY <1>3 DEF StartCompute
  <1>6. /\ UNCHANGED <<arena, val, dirty, force, batches, handles>> /\ busy' = busy
        /\ kind' = kind /\ code' = code /\ gen' = gen /\ made' = made
        /\ val' = val /\ dirty' = dirty /\ force' = force
    BY DEF StartCompute, flags, arena, handles
  <1>7. /\ \A j \in Ids \ {i} : deps'[j] = deps[j] /\ \A d \in Ids : j \in dpts'[d] <=> j \in dpts[d]
        /\ deps'[i] = {}
    BY <1>0, <1>5 DEF Detach
  <1>8. PlanKept' /\ CleanBelow' /\ HeldSound'
    <2>1. EdgesOfHeldKept
      BY <1>4, <1>7 DEF EdgesOfHeldKept
    <2> QED BY <1>6, <2>1, EdgesHold
  <1>9. OthersKept(Top.id, {})
    <2>1. OthersKept(i, {})
      BY <1>6, <1>7 DEF OthersKept, Clean, Held, IsSlot
    <2> QED BY <1>3, <2>1
  <1>10. PICK f \in Frame : /\ f = Activation("compute", i) /\ f.op = "compute" /\ f.id = i
                            /\ f.gen = gen[i] /\ f.code = code[i] /\ f.log = << >> /\ f.pulled = FALSE
    <2>1. Activation("compute", i).log = << >> /\ Activation("compute", i).pulled = FALSE
      BY DEF Activation, Host
    <2> QED BY <1>0, <2>1, ActivationSound
  <1>11. ComputeHolds(f, {})'
    <2>1. Len(f.log) = 0
      BY <1>10
    <2>2. ~Held(i)'
      BY <1>4, <1>6 DEF Held, IsSlot
    <2> QED BY <1>7, <1>10, <2>1, <2>2 DEF ComputeHolds
  <1>12. FrameHolds(f, {})'
    BY <1>4, <1>6, <1>10, <1>11 DEF FrameHolds, IsSlot, Clean
  <1>13. PICK t : t = Push(f, Rest)
    OBVIOUS
  <1>14. FramesHold(t, {})'
    BY <1>1, <1>3, <1>9, <1>10, <1>12, <1>13, TopGoesOn DEF Recomputing
  <1>15. FramesHold(stack, {})'
    BY <1>5, <1>10, <1>13, <1>14, StackIs
  <1> QED BY <1>8, <1>15, CacheInvFrom

\* The walk from a node that was not fresh finds neither a fresh node nor it.
LEMMA WalkSparesFresh ==
  ASSUME EdgesKept, CleanBelow, NEW i \in Ids, IsSlot(i), ~Clean(i),
         \A m \in deps[i] : IsSlot(m) => Clean(m),
         NEW roots \in SUBSET dpts[i], NEW d, NEW f
  PROVE  /\ roots \subseteq Marked(roots, d, f)
         /\ \A n \in Marked(roots, d, f) : n # i /\ ~Clean(n)
  <1> DEFINE S == {n \in Ids : n # i /\ ~Clean(n)}
             thru == {n \in Ids : IsSlot(n) /\ (~d[n] \/ (n \in roots /\ ~f[n]))}
  <1>1. EdgesMatch /\ \A m \in Ids : dpts[m] \in SUBSET Ids
    BY DEF EdgesKept
  <1>2. \A n \in dpts[i] : n \in S
    <2>1. ASSUME NEW n \in dpts[i] PROVE n # i /\ ~Clean(n)
      BY <1>1 DEF EdgesMatch, CleanBelow
    <2> QED BY <1>1, <2>1
  <1>3. ASSUME NEW m \in S \cap thru, NEW n \in dpts[m] PROVE n \in S
    <2>1. IsSlot(m) /\ ~Clean(m) /\ m \in Ids
      BY <1>3
    <2>2. ~Clean(n) /\ m \in deps[n]
      BY <1>1, <2>1 DEF EdgesMatch, CleanBelow
    <2>3. n # i
      BY <2>1, <2>2
    <2> QED BY <1>1, <2>1, <2>2, <2>3
  <1>4. S \in SUBSET Ids /\ roots \subseteq S /\ \A m \in S \cap thru : dpts[m] \subseteq S
    BY <1>2, <1>3
  <1>5. Marked(roots, d, f) = Visited(roots, thru)
    BY DEF Marked
  <1>6. \A n \in S : n # i /\ ~Clean(n)
    OBVIOUS
  <1>7. roots \in SUBSET Ids
    BY <1>1
  <1> HIDE DEF S, thru
  <1>8. Visited(roots, thru) \subseteq S
    BY <1>4, WalkStops
  <1>9. roots \subseteq Visited(roots, thru)
    BY <1>7, WalkCovers
  <1> QED BY <1>5, <1>6, <1>8, <1>9

\* A step that makes node i fresh with the value v, when it told those that read
\* it that the value changed.
Stored(i, v) ==
  /\ val' = [val EXCEPT ![i] = v] /\ Clean(i)'
  /\ \A n \in Ids \ {i} : /\ dirty[n] => dirty'[n]
                          /\ force[n] => force'[n]
                          /\ Clean(n) => Clean(n)'
  /\ val[i] = None \/ val[i] = v \/ \A j \in dpts[i] : IsSlot(j) => force'[j]

LEMMA StoreHolds ==
  ASSUME GraphInv, GraphInv', CacheInv, UNCHANGED <<arena, edges, batches, handles>>,
         NEW i \in Ids, IsSlot(i), NEW log \in Logs, NEW v \in Values, Stored(i, v), Returns(i, log, v),
         \A n \in 1..Len(log) : ReadFrom(i, log, n, {}), i \notin deps[i],
         \A m \in deps[i] : i \in dpts[m] /\ (IsSlot(m) => Clean(m))
  PROVE  /\ PlanKept' /\ CleanBelow' /\ HeldSound'
         /\ \A n \in Ids \ {i} : Held(n)' => Held(n)
         /\ \A n \in Ids \ {i} : Clean(n)' => Clean(n)
  <1>0. /\ FlagsTyped /\ EdgesKept /\ EdgesMatch /\ PlanKept /\ CleanBelow /\ HeldSound
        /\ RestTyped /\ ArenaKept
        /\ kind' = kind /\ code' = code /\ deps' = deps /\ dpts' = dpts
        /\ made' = made /\ nmade' = nmade /\ batched' = batched /\ batchDepth' = batchDepth
        /\ None \notin Values
    BY CacheInvParts, PlanAssumption DEF arena, edges, batches, handles
  <1>1. val'[i] = v /\ \A n \in Ids \ {i} : val'[n] = val[n]
    BY <1>0 DEF Stored, FlagsTyped
  <1>2. \A n \in Ids \ {i} : Held(n)' => Held(n)
    BY <1>0, <1>1 DEF Stored, Held, IsSlot
  <1>3. \A n \in Ids \ {i} : Clean(n)' => Clean(n)
    BY <1>0, <1>1 DEF Stored, Clean, IsSlot
  <1>4. PlanKept'
    BY <1>0, <1>1 DEF PlanKept, IsSlot
  <1>5. CleanBelow'
    <2> SUFFICES ASSUME NEW m \in Ids, IsSlot(m), NEW n \in dpts[m], Clean(n)'
                 PROVE  Clean(m)'
      BY <1>0 DEF CleanBelow, IsSlot
    <2>1. n \in Ids /\ m \in deps[n]
      BY <1>0 DEF EdgesKept, EdgesMatch
    <2>2. CASE m = i BY <2>2 DEF Stored
    <2>3. CASE m # i /\ n = i BY <2>1, <2>3 DEF Stored
    <2>4. CASE m # i /\ n # i
      <3>1. Clean(m)
        BY <1>0, <1>3, <2>1, <2>4 DEF CleanBelow
      <3> QED BY <3>1, <2>4 DEF Stored
    <2> QED BY <2>2, <2>3, <2>4
  <1>6. ASSUME NEW j \in Ids \ {i}, Held(j)' PROVE HeldFrom(j, batched.cells)'
    <2>1. Held(j) /\ HeldFrom(j, batched.cells) /\ IsSlot(j) /\ ~force'[j]
      BY <1>0, <1>2, <1>6 DEF HeldSound, Held
    <2>2. ASSUME NEW d \in Ids, j \in dpts[d] PROVE DependencyKept(j, d)
      <3>1. CASE d # i
        BY <1>0, <1>1, <2>2, <3>1 DEF DependencyKept
      <3>2. CASE d = i
        <4>1. val[i] # None
          BY <1>0, <2>1, <2>2, <3>2 DEF HeldFrom, EdgesMatch
        <4>2. val[i] = v
          BY <2>1, <2>2, <3>2, <4>1 DEF Stored
        <4> QED BY <1>0, <1>1, <2>2, <3>2, <4>1, <4>2 DEF DependencyKept
      <3> QED BY <3>1, <3>2
    <2>3. NodeKept(j)
      BY <1>0, <1>1, <2>2 DEF NodeKept
    <2>4. HandlesKept
      BY <1>0 DEF HandlesKept
    <2> QED BY <2>1, <2>3, <2>4, HeldKept
  <1>7. HeldFrom(i, batched.cells)'
    <2>1. Returns(i, log, val[i])'
      BY <1>0, <1>1 DEF Returns
    <2>2. ASSUME NEW n \in 1..Len(log) PROVE ReadFrom(i, log, n, batched.cells)'
      <3>1. ReadFrom(i, log, n, {})
        OBVIOUS
      <3>2. code[i] \in Items
        BY <1>0 DEF ArenaKept, IsSlot
      <3>3. PICK d : d = ReadOf(i, log, n).id
        OBVIOUS
      <3>4. d \in Ids /\ d \in deps[i]
        BY <1>0, <3>1, <3>2, <3>3, ReadNode
      <3>5. val'[d] = val[d]
        BY <1>1, <3>4
      <3>6. ReadOp(i, log, n)' = ReadOp(i, log, n) /\ ReadOf(i, log, n)' = ReadOf(i, log, n)
        BY <1>0 DEF ReadOp, ReadOf
      <3> QED BY <1>0, <3>1, <3>3, <3>5, <3>6 DEF ReadFrom
    <2>3. ASSUME NEW m \in deps'[i] PROVE i \in dpts'[m] /\ (IsSlot(m)' => val'[m] # None)
      <3>1. m \in deps[i] /\ m \in Ids /\ m # i
        BY <1>0, <2>3 DEF EdgesKept
      <3> QED BY <1>0, <1>1, <3>1 DEF Clean, IsSlot
    <2> QED BY <2>1, <2>2, <2>3 DEF HeldFrom
  <1>8. HeldSound'
    BY <1>6, <1>7 DEF HeldSound
  <1> QED BY <1>2, <1>3, <1>4, <1>5, <1>8

\* The closure of a computed cell returns: what it returned on what it read, all of
\* it fresh, is what the cell holds.
LEMMA FinishComputeKeepsCaches ==
  ASSUME PureSlots, GraphInv, GraphInv', CacheInv, FinishCompute
  PROVE  CacheInv'
  <1>0. /\ stack \in Seq(Frame) /\ FramesHold(stack, {}) /\ FlagsTyped /\ EdgesKept /\ EdgesMatch
        /\ PlanKept /\ CleanBelow /\ HeldSound /\ ArenaKept
    BY CacheInvParts
  <1>1. stack # << >> /\ Top.op = "compute" /\ Recomputing(Top)
    BY DEF FinishCompute, Recomputing
  <1>2. Top \in Frame /\ FrameHolds(Top, {}) /\ ComputeHolds(Top, {})
    <2>1. Top \in Frame /\ FrameHolds(Top, {})
      BY <1>0, <1>1, FramesPop DEF Top
    <2> QED BY <1>1, <2>1 DEF FrameHolds
  <1>3. PICK i \in Ids : i = Top.id
    BY <1>2 DEF Frame
  <1>4. PICK log \in Logs : log = Top.log
    BY <1>2 DEF Frame
  <1>5. /\ IsSlot(i) /\ ~Clean(i) /\ ~Held(i) /\ Top.code = code[i]
        /\ \A n \in 1..Len(log) : ReadFrom(i, log, n, {})
        /\ \A m \in deps[i] : i \in dpts[m] /\ (IsSlot(m) => Clean(m))
    BY <1>2, <1>3, <1>4 DEF FrameHolds, ComputeHolds
  <1>6. i \notin deps[i]
    BY <1>5
  <1>7. code[i] \in Items /\ Plan[code[i]].kind = "slot"
    BY <1>0, <1>5 DEF ArenaKept, PlanKept, IsSlot
  <1>8. PICK v \in Values : v = Body(code[i], log).to /\ Returns(i, log, v)
    <2>1. Code(Top.code, Top.log) = Body(code[i], log)
      BY <1>4, <1>5, <1>7 DEF Code
    <2>2. Body(code[i], log).do = "return"
      BY <2>1 DEF FinishCompute
    <2> QED BY <2>2, <1>7, OpsTyped DEF Returns
  <1>9. PICK same \in BOOLEAN : same = (val[i] # None /\ Same(code[i], val[i], v))
    OBVIOUS
  <1>10. PICK changed \in BOOLEAN : changed = (val[i] # None /\ ~same)
    OBVIOUS
  <1>11. same => val[i] = v
    BY <1>0, <1>7, <1>9 DEF PureSlots, FlagsTyped, Results
  <1>12. PICK roots : roots = IF changed THEN dpts[i] ELSE {}
    OBVIOUS
  <1>13. PICK d : d = [dirty EXCEPT ![i] = FALSE]
    OBVIOUS
  <1>14. PICK f : f = [force EXCEPT ![i] = FALSE]
    OBVIOUS
  <1>15. PICK M : M = Marked(roots, d, f)
    OBVIOUS
  <1>16. /\ val' = [val EXCEPT ![i] = IF same THEN val[i] ELSE v]
         /\ dirty' = MarkDirty(M, d)
         /\ force' = Forced(Effects(roots), MarkForce(roots, f))
         /\ busy' = [busy EXCEPT ![i] = FALSE]
         /\ stack' = Deliver(Rest, changed)
    <2>1. Code(Top.code, Top.log).to = v
      BY <1>4, <1>5, <1>7, <1>8 DEF Code
    <2> QED BY <2>1, <1>3, <1>5, <1>9, <1>10, <1>12, <1>13, <1>14, <1>15 DEF FinishCompute
  <1>17. /\ UNCHANGED <<arena, edges, batches, handles>>
         /\ kind' = kind /\ deps' = deps /\ dpts' = dpts
    BY DEF FinishCompute, arena, edges
  <1>18. val' = [val EXCEPT ![i] = v]
    BY <1>11, <1>16
  <1>19. roots \subseteq M /\ \A n \in M : n # i /\ ~Clean(n)
    <2>1. roots \in SUBSET dpts[i] /\ \A m \in deps[i] : IsSlot(m) => Clean(m)
      BY <1>5, <1>12
    <2> QED BY <1>0, <1>5, <1>15, <2>1, WalkSparesFresh
  <1>20. \A n \in Ids : IsSlot(n) => /\ dirty'[n] <=> d[n] \/ n \in M
                                     /\ force'[n] <=> f[n] \/ n \in roots
    BY <1>16, MarksOfSlots
  <1>21. d[i] = FALSE /\ f[i] = FALSE /\ \A n \in Ids \ {i} : d[n] = dirty[n] /\ f[n] = force[n]
    BY <1>0, <1>13, <1>14 DEF FlagsTyped
  <1>22. val'[i] = v /\ v # None /\ \A n \in Ids \ {i} : val'[n] = val[n]
    BY <1>0, <1>18, PlanAssumption DEF FlagsTyped
  <1>23. Clean(i)' /\ \A n \in Ids : Clean(n) => Clean(n)'
    <2>1. Clean(i)'
      BY <1>5, <1>17, <1>19, <1>20, <1>21, <1>22 DEF Clean, IsSlot
    <2>2. ASSUME NEW n \in Ids \ {i}, Clean(n) PROVE Clean(n)'
      BY <2>2, <1>17, <1>19, <1>20, <1>21, <1>22 DEF Clean, IsSlot
    <2> QED BY <2>1, <2>2
  <1>24. Stored(i, v)
    <2>1. \A n \in Ids \ {i} : (dirty[n] => dirty'[n]) /\ (force[n] => force'[n])
      BY <1>16, <1>21 DEF MarkDirty, MarkForce, Forced
    <2>2. val[i] = None \/ val[i] = v \/ \A j \in dpts[i] : IsSlot(j) => force'[j]
      <3>1. CASE same BY <3>1, <1>11
      <3>2. CASE val[i] = None BY <3>2
      <3>3. CASE ~same /\ val[i] # None
        <4>1. roots = dpts[i]
          BY <3>3, <1>10, <1>12
        <4>2. dpts[i] \in SUBSET Ids
          BY <1>0 DEF EdgesKept
        <4> QED BY <4>1, <4>2, <1>20
      <3> QED BY <3>1, <3>2, <3>3
    <2> QED BY <1>18, <1>23, <2>1, <2>2 DEF Stored
  <1>25. /\ PlanKept' /\ CleanBelow' /\ HeldSound'
         /\ \A n \in Ids \ {i} : Held(n)' => Held(n)
         /\ \A n \in Ids \ {i} : Clean(n)' => Clean(n)
    BY <1>5, <1>6, <1>8, <1>17, <1>24, StoreHolds
  <1>26. OthersKept(Top.id, {Top.id})
    <2>1. \A m \in Ids : Clean(m) => val'[m] = val[m]
      BY <1>5, <1>22
    <2>2. \A m \in Ids : kind[m] = "cell" => val'[m] = val[m]
      BY <1>5, <1>22 DEF IsSlot
    <2>3. \A m \in Ids \ {i} : busy[m] => busy'[m]
      BY <1>0, <1>16 DEF FlagsTyped
    <2>4. OthersKept(i, {i})
      BY <1>17, <1>23, <1>25, <2>1, <2>2, <2>3 DEF OthersKept, handles
    <2> QED BY <1>3, <2>4
  <1>27. changed => \A j \in Ids \ {Top.id} : Top.id \in deps[j] => ~Held(j)'
    <2> SUFFICES ASSUME changed, NEW j \in Ids \ {i}, i \in deps[j], Held(j)'
                 PROVE  FALSE
      BY <1>3
    <2>1. Held(j) /\ HeldFrom(j, batched.cells) /\ IsSlot(j) /\ ~force'[j]
      BY <1>0, <1>25 DEF HeldSound, Held
    <2>2. j \in roots
      BY <1>12, <2>1 DEF HeldFrom
    <2> QED BY <1>20, <2>1, <2>2
  <1>28. FramesHold(stack, {})'
    <2>1. PICK t : t = Deliver(Rest, changed)
      OBVIOUS
    <2>2. FramesHold(t, {})'
      BY <1>1, <1>26, <1>27, <2>1, TopReturns
    <2> QED BY <1>16, <2>1, <2>2, StackIs
  <1> QED BY <1>25, <1>28, CacheInvFrom

\* A log one result longer.
LEMMA LogNext ==
  ASSUME NEW log \in Logs, NEW r \in Results, NEW next, next = Append(log, r)
  PROVE  /\ Len(log) \in Nat /\ Len(next) = Len(log) + 1 /\ next[Len(log) + 1] = r
         /\ SubSeq(next, 1, Len(log)) = log
         /\ \A n \in 1..Len(log) : next[n] = log[n] /\ SubSeq(next, 1, n - 1) = SubSeq(log, 1, n - 1)
  <1>1. log \in Seq(Results) /\ Len(log) \in Nat
    BY LogsAreSequences, LenProperties
  <1>2. /\ next \in Seq(Results) /\ Len(next) = Len(log) + 1 /\ next[Len(log) + 1] = r
        /\ \A n \in 1..Len(log) : next[n] = log[n]
    BY <1>1, AppendProperties
  <1>3. ASSUME NEW n \in 0..Len(log)
        PROVE  /\ SubSeq(next, 1, n) \in Seq(Results) /\ Len(SubSeq(next, 1, n)) = n
               /\ \A j \in 1..n : SubSeq(next, 1, n)[j] = log[j]
               /\ SubSeq(log, 1, n) \in Seq(Results) /\ Len(SubSeq(log, 1, n)) = n
               /\ \A j \in 1..n : SubSeq(log, 1, n)[j] = log[j]
    <2>1. \A j \in 1..n : next[j] = log[j] /\ next[j] \in Results /\ log[j] \in Results
      BY <1>1, <1>2, ElementOfSeq
    <2>2. /\ SubSeq(next, 1, n) \in Seq(Results) /\ Len(SubSeq(next, 1, n)) = n
          /\ \A j \in 1..n : SubSeq(next, 1, n)[j] = next[j]
      BY <1>1, <2>1, SubSeqProperties
    <2>3. /\ SubSeq(log, 1, n) \in Seq(Results) /\ Len(SubSeq(log, 1, n)) = n
          /\ \A j \in 1..n : SubSeq(log, 1, n)[j] = log[j]
      BY <1>1, <2>1, SubSeqProperties
    <2> QED BY <2>1, <2>2, <2>3
  <1>4. \A n \in 0..Len(log) : SubSeq(next, 1, n) = SubSeq(log, 1, n)
    BY <1>3, SeqEqual
  <1>5. SubSeq(next, 1, Len(log)) = log
    <2>1. Len(log) \in 0..Len(log)
      BY <1>1
    <2> QED BY <1>1, <1>3, <2>1, SeqEqual
  <1>6. \A n \in 1..Len(log) : n - 1 \in 0..Len(log)
    BY <1>1
  <1> QED BY <1>1, <1>2, <1>4, <1>5, <1>6

\* The edge a read of node i puts down for the closure of node c.
Tracked(c, i) ==
  /\ deps'[c] = deps[c] \cup {i} /\ c \in dpts'[i]
  /\ \A d \in Ids : c \in dpts[d] => c \in dpts'[d]

LEMMA TrackOnly ==
  ASSUME EdgesKept, NEW i \in Ids, NEW f \in Frame, Track(i, f)
  PROVE  /\ \A j \in Ids \ {f.id} : deps'[j] = deps[j] /\ \A d \in Ids : j \in dpts'[d] <=> j \in dpts[d]
         /\ deps'[i] = deps[i]
         /\ gen[f.id] # f.gen => UNCHANGED edges
         /\ gen[f.id] = f.gen /\ i # f.id /\ kind[i] \in {"cell", "slot"} /\ IsSlot(f.id) => Tracked(f.id, i)
  <1>1. deps \in [Ids -> SUBSET Ids] /\ dpts \in [Ids -> SUBSET Ids] /\ f.id \in Ids
    BY DEF EdgesKept, Frame
  <1>2. CASE gen[f.id] # f.gen \/ i = f.id
    BY <1>2 DEF Track, edges
  <1>3. CASE ~(gen[f.id] # f.gen \/ i = f.id)
    <2>1. /\ dpts' = IF kind[i] \in {"cell", "slot"} THEN [dpts EXCEPT ![i] = dpts[i] \cup {f.id}] ELSE dpts
          /\ deps' = IF kind[f.id] \in {"slot", "effect"} THEN [deps EXCEPT ![f.id] = deps[f.id] \cup {i}] ELSE deps
      BY <1>3 DEF Track
    <2> QED BY <1>1, <1>3, <2>1 DEF Tracked, IsSlot
  <1> QED BY <1>2, <1>3

\* Reading node i, a cell or a fresh computed cell.
LEMMA ReadAdvances ==
  ASSUME GraphInv, CacheInv, NEW f \in Frame, f.op = "compute", FrameHolds(f, {}),
         NEW k \in Items, Pulled(f).do = "get", Pulled(f).of = k, made[k] # None,
         NEW i \in Ids, i = made[k].id, kind[i] = Plan[k].kind, kind[i] \in {"cell", "slot"},
         IsSlot(i) => Clean(i),
         UNCHANGED <<arena, val, dirty, force, busy, made>>, Tracked(f.id, i),
         NEW g \in Frame, g.op = f.op, g.id = f.id, g.gen = f.gen, g.code = f.code,
         g.log = Append(f.log, val[i]), g.pulled = FALSE
  PROVE  FrameHolds(g, {})'
  <1>0. /\ PlanKept /\ FlagsTyped /\ EdgesKept /\ ArenaKept /\ RestTyped /\ f.log \in Logs /\ f.id \in Ids
        /\ kind' = kind /\ code' = code /\ gen' = gen /\ val' = val /\ dirty' = dirty
        /\ force' = force /\ busy' = busy /\ made' = made
    BY CacheInvParts DEF arena, Frame
  <1>1. PICK c \in Ids : c = f.id
    BY <1>0
  <1>2. /\ IsSlot(c) /\ gen[c] = f.gen /\ code[c] = f.code /\ busy[c] /\ ~Clean(c) /\ ~Held(c)
        /\ \A n \in 1..Len(f.log) : /\ ReadFrom(c, f.log, n, {})
                                    /\ IsSlot(ReadOf(c, f.log, n).id) => Clean(ReadOf(c, f.log, n).id)
        /\ \A m \in deps[c] : c \in dpts[m] /\ (IsSlot(m) => Clean(m))
    BY <1>1 DEF FrameHolds, ComputeHolds
  <1>3. code[c] \in Items
    BY <1>0, <1>2 DEF ArenaKept, IsSlot
  <1>4. val[i] # None /\ val[i] \in Results
    BY <1>0 DEF PlanKept, FlagsTyped, IsSlot, Clean
  <1>5. /\ Len(f.log) \in Nat /\ Len(g.log) = Len(f.log) + 1 /\ g.log[Len(f.log) + 1] = val[i]
        /\ SubSeq(g.log, 1, Len(f.log)) = f.log
        /\ \A n \in 1..Len(f.log) : /\ g.log[n] = f.log[n]
                                    /\ SubSeq(g.log, 1, n - 1) = SubSeq(f.log, 1, n - 1)
    BY <1>0, <1>4, LogNext
  <1>6. /\ deps'[c] = deps[c] \cup {i} /\ c \in dpts'[i]
        /\ \A d \in Ids : c \in dpts[d] => c \in dpts'[d]
    BY <1>1 DEF Tracked
  <1>7. \A n : Clean(n)' <=> Clean(n)
    BY <1>0 DEF Clean, IsSlot
  <1>8. ASSUME NEW n \in 1..Len(g.log)
        PROVE  /\ ReadFrom(c, g.log, n, {})'
               /\ (IsSlot(ReadOf(c, g.log, n).id) => Clean(ReadOf(c, g.log, n).id))'
    <2>1. CASE n \in 1..Len(f.log)
      <3>1. ReadFrom(c, f.log, n, {}) /\ (IsSlot(ReadOf(c, f.log, n).id) => Clean(ReadOf(c, f.log, n).id))
        BY <1>2, <2>1
      <3>2. PICK op : op = ReadOp(c, f.log, n)
        OBVIOUS
      <3>3. PICK h : h = ReadOf(c, f.log, n)
        OBVIOUS
      <3>4. h.id \in Ids
        BY <1>0, <1>3, <2>1, <3>1, <3>3, ReadNode
      <3>5. ReadOp(c, g.log, n)' = op /\ ReadOf(c, g.log, n)' = h
        BY <1>0, <1>5, <2>1, <3>2, <3>3 DEF ReadOp, ReadOf
      <3>6. ReadFrom(c, g.log, n, {})'
        BY <1>0, <1>5, <1>6, <2>1, <3>1, <3>2, <3>3, <3>4, <3>5 DEF ReadFrom
      <3> QED BY <1>0, <1>7, <3>1, <3>3, <3>5, <3>6 DEF IsSlot
    <2>2. CASE n = Len(f.log) + 1
      <3>1. SubSeq(g.log, 1, n - 1) = f.log
        BY <1>5, <2>2
      <3>2. PICK op : op = Pulled(f)
        OBVIOUS
      <3>3. ReadOp(c, g.log, n)' = op /\ op.do = "get" /\ op.of = k
        BY <1>0, <1>2, <3>1, <3>2 DEF ReadOp, Pulled
      <3>4. PICK h : h = made[k]
        OBVIOUS
      <3>5. ReadOf(c, g.log, n)' = h /\ h # None /\ h.id = i
        BY <1>0, <3>3, <3>4 DEF ReadOf
      <3>6. ReadFrom(c, g.log, n, {})'
        BY <1>0, <1>4, <1>5, <1>6, <2>2, <3>3, <3>5 DEF ReadFrom
      <3> QED BY <1>0, <1>7, <3>5, <3>6 DEF IsSlot
    <2> QED BY <1>5, <2>1, <2>2
  <1>9. \A m \in deps'[c] : c \in dpts'[m] /\ (IsSlot(m)' => Clean(m)')
    <2> SUFFICES ASSUME NEW m \in deps'[c] PROVE c \in dpts'[m] /\ (IsSlot(m) => Clean(m))
      BY <1>0, <1>7 DEF IsSlot
    <2>1. CASE m = i BY <1>6, <2>1
    <2>2. CASE m \in deps[c]
      <3>1. m \in Ids
        BY <1>0, <2>2 DEF EdgesKept
      <3> QED BY <1>2, <1>6, <2>2, <3>1
    <2> QED BY <1>6, <2>1, <2>2
  <1>10. ComputeHolds(g, {})'
    <2>1. ~Held(c)'
      BY <1>0, <1>2 DEF Held, IsSlot
    <2> QED BY <1>1, <1>8, <1>9, <2>1 DEF ComputeHolds
  <1> QED BY <1>0, <1>1, <1>2, <1>7, <1>10 DEF FrameHolds, IsSlot

\* A closure reads: the node is fresh, or it is refreshed before the read.
LEMMA ClosureGetKeepsCaches ==
  ASSUME PureSlots, GraphInv, GraphInv', CacheInv, ClosureGet
  PROVE  CacheInv'
  <1>0. /\ stack \in Seq(Frame) /\ FramesHold(stack, {}) /\ ArenaKept /\ RestTyped /\ EdgesKept /\ FlagsTyped
        /\ StackSound(stack, gen, kind) /\ busy \in [Ids -> BOOLEAN] /\ PlanKept
    BY CacheInvParts DEF FlagsTyped
  <1> DEFINE asked == [Top EXCEPT !.pulled = TRUE]
  <1>1. PICK k \in Items :
          /\ Asks([do |-> "get", of |-> k]) /\ made[k] # None
          /\ LET i == made[k].id IN
             IF ~Top.pulled THEN
               /\ Track(i, Top)
               /\ CASE IsSlot(i) /\ Plan[k].kind = "slot" /\ ~Clean(i) -> EnterRefresh(i, Push(asked, Rest))
                    [] kind[i] = Plan[k].kind /\ (IsSlot(i) => Clean(i)) ->
                         stack' = Resume(val[i]) /\ UNCHANGED busy
                    [] OTHER -> Unwind
             ELSE /\ IF IsSlot(i) THEN stack' = Resume(val[i]) /\ UNCHANGED busy ELSE Unwind
                  /\ UNCHANGED edges
    BY DEF ClosureGet
  <1>2. /\ UNCHANGED <<arena, val, dirty, force, batches, handles>>
        /\ kind' = kind /\ code' = code /\ gen' = gen /\ val' = val /\ dirty' = dirty /\ force' = force
        /\ made' = made
    BY DEF ClosureGet, arena, handles
  <1>3. PICK i \in Ids : i = made[k].id
    BY <1>0, <1>1, MadeTyped
  <1>4. /\ stack # << >> /\ Top.op \in {"compute", "effect"} /\ Len(Top.log) < MaxLog /\ InClosure
        /\ Code(Top.code, Top.log) = [do |-> "get", of |-> k]
    BY <1>1 DEF Asks, InClosure
  <1>5. Top \in Frame /\ FrameSound(Top, gen, kind)
    BY <1>0, <1>4, TopSound DEF Top
  <1>6. PICK c \in Ids : c = Top.id
    BY <1>5 DEF Frame
  <1>7. Top.op = "compute" => FrameHolds(Top, {}) /\ ComputeHolds(Top, {})
    <2>1. ASSUME Top.op = "compute" PROVE FrameHolds(Top, {})
      BY <1>0, <1>4, <2>1, FramesPop DEF Top, Recomputing
    <2> QED BY <2>1 DEF FrameHolds
  <1>8. Track(i, Top) \/ UNCHANGED edges
    BY <1>1, <1>3
  <1>9. /\ \A j \in Ids \ {c} : deps'[j] = deps[j] /\ \A d \in Ids : j \in dpts'[d] <=> j \in dpts[d]
        /\ deps'[i] = deps[i]
        /\ gen[c] # Top.gen => UNCHANGED edges
        /\ \A d \in Ids : c \in dpts[d] => c \in dpts'[d]
    <2>1. CASE UNCHANGED edges BY <2>1 DEF edges
    <2>2. CASE Track(i, Top)
      <3>1. /\ \A j \in Ids \ {c} : deps'[j] = deps[j] /\ \A d \in Ids : j \in dpts'[d] <=> j \in dpts[d]
            /\ deps'[i] = deps[i]
            /\ gen[c] # Top.gen => UNCHANGED edges
        BY <1>0, <1>5, <1>6, <2>2, TrackOnly
      <3>2. \A d \in Ids : c \in dpts[d] => c \in dpts'[d]
        BY <1>0, <1>6, <2>2 DEF Track, EdgesKept, edges
      <3> QED BY <3>1, <3>2
    <2> QED BY <1>8, <2>1, <2>2
  <1>10. UNCHANGED edges \/ ~Held(c)
    <2>1. CASE Top.op = "compute"
      BY <1>6, <1>7, <2>1 DEF ComputeHolds
    <2>2. CASE Top.op = "effect"
      <3>1. CASE gen[c] = Top.gen
        BY <1>5, <1>6, <2>2, <3>1 DEF FrameSound, Held, IsSlot
      <3>2. CASE gen[c] # Top.gen
        BY <1>9, <3>2
      <3> QED BY <3>1, <3>2
    <2> QED BY <1>4, <2>1, <2>2
  <1>11. PlanKept' /\ CleanBelow' /\ HeldSound'
    <2>1. EdgesOfHeldKept
      BY <1>9, <1>10 DEF EdgesOfHeldKept, edges
    <2> QED BY <1>2, <2>1, EdgesHold
  <1> DEFINE Entered == IsSlot(i) /\ Plan[k].kind = "slot" /\ ~Clean(i) /\ Track(i, Top)
                          /\ EnterRefresh(i, Push(asked, Rest))
             Read    == /\ stack' = Resume(val[i]) /\ UNCHANGED busy
                        /\ \/ Track(i, Top) /\ kind[i] = Plan[k].kind /\ (IsSlot(i) => Clean(i))
                           \/ Top.pulled /\ IsSlot(i) /\ UNCHANGED edges
  <1>12. Entered \/ Read \/ Unwind
    BY <1>1, <1>3
  <1>13. FramesHold(stack, {})'
    <2>1. CASE Unwind
      BY <2>1, UnwindQuiet, StackQuiet
    <2>2. CASE Top.op = "effect" /\ Read
      <3>1. NoneRecomputing(stack) /\ val[i] \in Results
        BY <1>0, <1>4, <2>2, QuietBelow DEF Top, Recomputing, FlagsTyped
      <3> QED BY <1>0, <2>2, <3>1, QuietResume, StackQuiet
    <2>3. PICK f : f = asked
      OBVIOUS
    <2>4. /\ f \in Frame /\ f.op = Top.op /\ f.id = Top.id /\ f.gen = Top.gen /\ f.code = Top.code
          /\ f.log = Top.log /\ f.pulled = TRUE
      BY <1>5, <2>3 DEF Frame
    <2>5. PICK s : s = Push(f, Rest)
      OBVIOUS
    <2>6. CASE Top.op = "effect" /\ Entered
      <3>1. NoneRecomputing(stack)
        BY <1>0, <1>4, <2>6, QuietBelow DEF Top, Recomputing
      <3>2. Rest \in Seq(Frame) /\ NoneRecomputing(Rest)
        BY <1>0, <1>4, <3>1, QuietTail DEF Rest
      <3>3. s \in Seq(Frame) /\ NoneRecomputing(s)
        BY <2>4, <2>5, <2>6, <3>2, QuietPush DEF Recomputing
      <3>4. FramesHold(s, {i})' /\ BusyOn(s)
        BY <3>3 DEF FramesHold, NoneRecomputing, BusyOn
      <3>5. EnterRefresh(i, s)
        BY <2>3, <2>5, <2>6
      <3> QED BY <1>2, <1>9, <2>6, <3>3, <3>4, <3>5, EnterHolds
    <2>7. CASE Top.op = "compute"
      <3>1. /\ IsSlot(c) /\ gen[c] = Top.gen /\ code[c] = Top.code /\ busy[c] /\ ~Clean(c) /\ ~Held(c)
            /\ Top.log \in Logs
        BY <1>5, <1>6, <1>7, <2>7 DEF FrameHolds, ComputeHolds, Frame
      <3>2. code[c] \in Items /\ Plan[code[c]].kind = "slot"
        BY <1>0, <3>1 DEF ArenaKept, PlanKept, IsSlot
      <3>3. Pulled(Top).do = "get" /\ Pulled(Top).of = k /\ Plan[k].kind # "effect"
        <4>1. Pulled(Top) = [do |-> "get", of |-> k]
          BY <1>4, <3>1, <3>2 DEF Pulled, Code
        <4>2. Pulled(Top).do = "get" => Plan[Pulled(Top).of].kind # "effect"
          BY <3>1, <3>2 DEF Pulled, PureSlots
        <4> QED BY <4>1, <4>2
      <3>4. Plan[k].kind \in {"cell", "slot"}
        BY <3>3, PlanTyped DEF Kinds
      <3>5. \A n : Clean(n)' <=> Clean(n)
        BY <1>2 DEF Clean, IsSlot
      <3>6. (\A n \in Ids : busy[n] => busy'[n]) => OthersKept(Top.id, {})
        <4>1. (\A n \in Ids : busy[n] => busy'[n]) => OthersKept(c, {})
          BY <1>2, <1>9, <3>5 DEF OthersKept, Held, IsSlot
        <4> QED BY <1>6, <4>1
      <3>7. CASE Entered
        <4>1. CASE i = c
          <5>1. stack' = << >>
            BY <3>1, <3>7, <4>1 DEF EnterRefresh
          <5> QED BY <5>1, QuietHost, StackQuiet
        <4>2. CASE i # c
          <5>1. EnterRefresh(i, s)
            BY <2>3, <2>5, <3>7
          <5>2. \A n \in Ids : busy[n] => busy'[n]
            BY <1>0, <5>1 DEF EnterRefresh
          <5>3. Tracked(c, i)
            BY <1>0, <1>5, <1>6, <3>1, <3>7, <4>2, TrackOnly DEF IsSlot
          <5>4. /\ deps'[c] = deps[c] \cup {i} /\ c \in dpts'[i]
                /\ \A d \in Ids : c \in dpts[d] => c \in dpts'[d]
            BY <5>3 DEF Tracked
          <5>5. ComputeHolds(f, {i})'
            <6>1. ~Held(c)'
              BY <1>2, <3>1 DEF Held, IsSlot
            <6>2. ASSUME NEW n \in 1..Len(f.log)
                  PROVE  /\ ReadFrom(c, f.log, n, {})'
                         /\ (IsSlot(ReadOf(c, f.log, n).id) => Clean(ReadOf(c, f.log, n).id))'
              <7>1. /\ ReadFrom(c, f.log, n, {})
                    /\ IsSlot(ReadOf(c, f.log, n).id) => Clean(ReadOf(c, f.log, n).id)
                BY <1>6, <1>7, <2>4, <2>7 DEF ComputeHolds
              <7>2. PICK h : h = ReadOf(c, f.log, n)
                OBVIOUS
              <7>3. h.id \in Ids
                BY <1>0, <2>4, <3>1, <3>2, <7>1, <7>2, ReadNode
              <7>4. ReadOp(c, f.log, n)' = ReadOp(c, f.log, n) /\ ReadOf(c, f.log, n)' = h
                BY <1>2, <7>2 DEF ReadOp, ReadOf
              <7>5. ReadFrom(c, f.log, n, {})'
                BY <1>2, <5>4, <7>1, <7>2, <7>3, <7>4 DEF ReadFrom
              <7> QED BY <1>2, <3>5, <7>1, <7>2, <7>4, <7>5 DEF IsSlot
            <6>3. ASSUME NEW m \in deps'[c]
                  PROVE  c \in dpts'[m] /\ (IsSlot(m)' => Clean(m)' \/ m \in {i})
              <7>1. CASE m = i BY <5>4, <7>1
              <7>2. CASE m \in deps[c]
                <8>1. m \in Ids
                  BY <1>0, <7>2 DEF EdgesKept
                <8>2. c \in dpts[m] /\ (IsSlot(m) => Clean(m))
                  BY <1>6, <1>7, <2>7, <7>2 DEF ComputeHolds
                <8> QED BY <1>2, <3>5, <5>4, <8>1, <8>2 DEF IsSlot
              <7> QED BY <5>4, <6>3, <7>1, <7>2
            <6>4. Pulled(f) = Pulled(Top)
              BY <2>4 DEF Pulled
            <6>5. (/\ Pulled(f).do = "get" /\ Plan[Pulled(f).of].kind = "slot"
                   /\ made[Pulled(f).of] # None /\ IsSlot(made[Pulled(f).of].id)
                   /\ made[Pulled(f).of].id \in deps[c])'
              BY <1>1, <1>2, <1>3, <3>3, <3>7, <5>4, <6>4 DEF IsSlot, Pulled
            <6> QED BY <1>6, <2>4, <6>1, <6>2, <6>3, <6>5 DEF ComputeHolds
          <5>6. FrameHolds(f, {i})'
            <6>1. (IsSlot(c) /\ gen[c] = f.gen /\ code[c] = f.code /\ busy[c] /\ ~Clean(c))'
              BY <1>2, <2>4, <3>1, <3>5, <5>2 DEF IsSlot
            <6> QED BY <1>6, <2>4, <2>7, <5>5, <6>1 DEF FrameHolds
          <5>7. s \in Seq(Frame) /\ BusyOn(s) /\ FramesHold(s, {i})'
            <6>1. Recomputing(Top) /\ Recomputing(f) /\ OthersKept(Top.id, {})
              BY <2>4, <2>7, <3>6, <5>2 DEF Recomputing
            <6>2. PICK T : T = {i}
              OBVIOUS
            <6>3. FrameHolds(f, T)'
              BY <5>6, <6>2
            <6>4. s \in Seq(Frame) /\ BusyOn(s) /\ FramesHold(s, T)'
              BY <1>4, <2>4, <2>5, <6>1, <6>3, TopGoesOn
            <6> QED BY <6>2, <6>4
          <5> QED BY <1>2, <1>9, <3>7, <5>1, <5>7, EnterHolds
        <4> QED BY <4>1, <4>2
      <3>8. CASE Read
        <4>1. /\ stack' = Resume(val[i]) /\ busy' = busy
              /\ \/ Track(i, Top) /\ kind[i] = Plan[k].kind /\ (IsSlot(i) => Clean(i))
                 \/ Top.pulled /\ IsSlot(i) /\ UNCHANGED edges
          BY <3>8
        <4>2. Tracked(c, i) /\ kind[i] = Plan[k].kind /\ (IsSlot(i) => Clean(i))
          <5>1. CASE Track(i, Top) /\ kind[i] = Plan[k].kind /\ (IsSlot(i) => Clean(i))
            <6>1. i # c
              BY <3>1, <5>1
            <6> QED BY <1>0, <1>5, <1>6, <3>1, <3>4, <5>1, <6>1, TrackOnly
          <5>2. CASE Top.pulled /\ IsSlot(i) /\ UNCHANGED edges
            <6>1. Plan[k].kind = "slot" /\ i \in deps[c]
              BY <1>3, <1>6, <1>7, <2>7, <3>3, <5>2 DEF ComputeHolds
            <6>2. c \in dpts[i] /\ Clean(i)
              BY <1>6, <1>7, <2>7, <5>2, <6>1 DEF ComputeHolds
            <6>3. deps[c] \cup {i} = deps[c]
              BY <6>1
            <6> QED BY <5>2, <6>1, <6>2, <6>3 DEF Tracked, edges, IsSlot
          <5> QED BY <4>1, <5>1, <5>2
        <4>3. val[i] \in Results
          BY <1>0 DEF FlagsTyped
        <4>4. Append(Top.log, val[i]) \in Logs
          BY <1>4, <3>1, <4>3, LogGrows
        <4>5. PICK g : g = [Top EXCEPT !.log = Append(@, val[i]), !.pulled = FALSE]
          OBVIOUS
        <4>6. g \in Frame /\ g.op = Top.op /\ g.id = Top.id /\ g.gen = Top.gen /\ g.code = Top.code
              /\ g.log = Append(Top.log, val[i]) /\ g.pulled = FALSE
          BY <1>5, <4>4, <4>5 DEF Frame
        <4>7. UNCHANGED <<arena, val, dirty, force, busy, made>>
          BY <1>2, <4>1
        <4>8. FrameHolds(g, {})'
          <5>1. PICK t \in Frame : t = Top
            BY <1>5
          <5>2. t.op = "compute" /\ FrameHolds(t, {})
            BY <1>7, <2>7, <5>1
          <5>3. Pulled(t).do = "get" /\ Pulled(t).of = k
            BY <3>3, <5>1
          <5>4. Tracked(t.id, i)
            BY <1>6, <4>2, <5>1
          <5>5. /\ g.op = t.op /\ g.id = t.id /\ g.gen = t.gen /\ g.code = t.code
                /\ g.log = Append(t.log, val[i])
            BY <4>6, <5>1
          <5>6. kind[i] \in {"cell", "slot"}
            BY <3>4, <4>2
          <5> QED BY <1>1, <1>3, <4>2, <4>6, <4>7, <5>2, <5>3, <5>4, <5>5, <5>6, ReadAdvances
        <4>9. PICK t : t = Push(g, Rest)
          OBVIOUS
        <4>10. FramesHold(t, {})'
          <5>1. Recomputing(Top) /\ Recomputing(g) /\ OthersKept(Top.id, {})
            BY <2>7, <3>6, <4>1, <4>6 DEF Recomputing
          <5> QED BY <1>4, <4>6, <4>8, <4>9, <5>1, TopGoesOn
        <4>11. stack' = t
          BY <1>4, <4>1, <4>5, <4>9 DEF Resume
        <4> QED BY <4>10, <4>11, StackIs
      <3> QED BY <1>12, <2>1, <3>7, <3>8
    <2> QED BY <1>4, <1>12, <2>1, <2>2, <2>6, <2>7
  <1> QED BY <1>11, <1>13, CacheInvFrom

LEMMA CacheInvStarts == Init => CacheInv
  <1> SUFFICES ASSUME Init PROVE CacheInv
    OBVIOUS
  <1>1. \A i \in Ids : kind[i] = "empty" /\ dpts[i] = {}
    BY DEF Init
  <1>2. PlanKept /\ CleanBelow /\ HeldSound
    BY <1>1 DEF Init, PlanKept, CleanBelow, HeldSound, Held, IsSlot
  <1>3. FramesHold(stack, {})
    BY QuietHost, QuietFramesHold DEF Init
  <1> QED BY <1>2, <1>3 DEF CacheInv

LEMMA CacheInvHolds ==
  ASSUME PureSlots, GraphInv, CacheInv, [Next]_vars
  PROVE  CacheInv'
  <1>0. GraphInv'
    BY GraphInvHolds
  <1>1. CASE UNCHANGED vars
    <2>1. /\ kind' = kind /\ code' = code /\ gen' = gen /\ val' = val /\ dirty' = dirty /\ force' = force
          /\ busy' = busy /\ deps' = deps /\ dpts' = dpts /\ made' = made /\ nmade' = nmade
          /\ batched' = batched /\ batchDepth' = batchDepth /\ stack' = stack
      BY <1>1 DEF vars, arena, flags, edges, batches, handles
    <2>2. PlanKept' /\ CleanBelow' /\ HeldSound'
      <3>1. EdgesOfHeldKept
        BY <2>1 DEF EdgesOfHeldKept
      <3> QED BY <1>0, <1>1, <3>1, EdgesHold DEF vars, flags
    <2>3. FramesHold(stack, {})'
      <3>1. \A f \in Frame : \A A : (Recomputing(f) /\ f.id # MaxId /\ FrameHolds(f, A)) => FrameHolds(f, A \ {})'
        <4>1. OthersKept(MaxId, {})
          <5>1. UNCHANGED <<arena, made>>
            BY <1>1 DEF vars, handles
          <5>2. \A m \in Ids : (Clean(m)' <=> Clean(m)) /\ (Held(m)' <=> Held(m))
            BY <2>1 DEF Clean, Held, IsSlot
          <5> QED BY <2>1, <5>1, <5>2 DEF OthersKept
        <4> QED BY <4>1, FrameOutlasts
      <3>2. PICK s \in Seq(Frame) : s = stack
        BY CacheInvParts
      <3>3. FramesHold(s, {})
        BY <3>2, CacheInvParts
      <3>4. \A p \in 1..Len(s) : Recomputing(s[p]) => s[p].id # MaxId
        <4>1. \A p \in 1..Len(s) : s[p].id \in Ids
          <5>1. ASSUME NEW p \in 1..Len(s) PROVE s[p].id \in Ids
            <6>1. s[p] \in Frame
              BY <3>2, ElementOfSeq
            <6> QED BY <6>1 DEF Frame
          <5> QED BY <5>1
        <4> QED BY <4>1, PlanAssumption DEF Ids
      <3>5. FramesHold(s, {} \ {})'
        BY <3>1, <3>3, <3>4, FramesMove
      <3>6. FramesHold(s, {})'
        BY <3>5
      <3> QED BY <2>1, <3>2, <3>6, StackIs
    <2> QED BY <2>2, <2>3, CacheInvFrom
  <1>2. CASE Closures
    BY <1>0, <1>2, ClosureGetKeepsCaches, StackStepsKeepCaches, DisposeKeepsCaches DEF Closures
  <1>3. CASE Engine
    BY <1>0, <1>3, StackStepsKeepCaches, StepDependencyKeepsCaches, StartEffectKeepsCaches,
       EndRefreshKeepsCaches, StartComputeKeepsCaches, FinishComputeKeepsCaches DEF Engine
  <1>4. CASE Calls
    BY <1>0, <1>4, HostGetKeepsCaches, SetKeepsCaches, MakeKeepsCaches, EagerKeepsCaches, LazyKeepsCaches,
       DisposeKeepsCaches, ClearKeepsCaches, BatchBeginKeepsCaches, BatchEndKeepsCaches DEF Calls
  <1> QED BY <1>1, <1>2, <1>3, <1>4 DEF Next

-----------------------------------------------------------------------------
(* What a computed cell means *)

\* A set that holds 0, and n + 1 with every n, holds every natural.
LEMMA CountUp ==
  ASSUME NEW S, 0 \in S, \A n \in Nat : n \in S => n + 1 \in S
  PROVE  \A n \in Nat : n \in S
  <1> DEFINE U == {n \in Nat : n \notin S}
  <1>1. SUFFICES ASSUME U # {} PROVE FALSE
    OBVIOUS
  <1>2. U \in SUBSET Nat
    OBVIOUS
  <1>3. PICK m \in U : \A n \in U : ~ (<<n, m>> \in OpToRel(<, Nat))
    <2> HIDE DEF U
    <2> QED BY <1>1, <1>2, WFMin, NatLessThanWellFounded
  <1>4. m \in Nat /\ m # 0 /\ m - 1 \in Nat /\ m - 1 < m
    <2>1. m \in Nat /\ m # 0
      OBVIOUS
    <2> QED BY <2>1
  <1>5. m - 1 \notin U
    BY <1>2, <1>3, <1>4 DEF OpToRel
  <1>6. m - 1 + 1 = m
    BY <1>4
  <1> QED BY <1>4, <1>5, <1>6

\* The run of closure c, read as an equation on what its logs lead to.
RunStep(c, meaning, R, log) ==
  LET op == Body(c, log) IN
  IF op.do = "return" THEN op.to
  ELSE IF op.do = "get" /\ meaning[op.of] # None /\ Len(log) < MaxLog
       THEN R[Append(log, meaning[op.of])] ELSE None
RunOf(c, meaning, R) == R = [log \in Logs |-> RunStep(c, meaning, R, log)]

\* The reads of closure c have results, the same in both.
Known(c, meaning) == \A log \in Logs : Body(c, log).do = "get" => meaning[Body(c, log).of] \in Results
AgreeFor(c, m1, m2) == \A log \in Logs : Body(c, log).do = "get" => m1[Body(c, log).of] = m2[Body(c, log).of]

LEMMA RunDef ==
  ASSUME NEW c, NEW meaning
  PROVE  Run(c, meaning) = (CHOOSE R : RunOf(c, meaning, R))[<< >>]
  BY Zenon DEF Run, RunOf, RunStep

LEMMA LongerLog ==
  ASSUME NEW log \in Logs, NEW r \in Results, Len(log) < MaxLog
  PROVE  /\ Append(log, r) \in Logs /\ Len(Append(log, r)) = Len(log) + 1
  <1>1. log \in Seq(Results)
    BY LogsAreSequences
  <1> QED BY <1>1, LogGrows, AppendProperties

LEMMA LogLength ==
  ASSUME NEW log \in Logs
  PROVE  Len(log) \in Nat /\ MaxLog \in Nat /\ MaxLog - Len(log) \in Nat
  <1>1. Len(log) \in Nat /\ MaxLog \in Nat /\ Len(log) <= MaxLog
    BY LogsAreSequences, LenProperties, PlanAssumption
  <1> QED BY <1>1

LEMMA RunStepTyped ==
  ASSUME NEW c \in Items, NEW meaning, Known(c, meaning), NEW R, NEW log \in Logs,
         \A next \in Logs : R[next] \in Results
  PROVE  RunStep(c, meaning, R, log) \in Results
  <1>1. Body(c, log).do = "return" => Body(c, log).to \in Results
    BY OpsTyped DEF Results
  <1>2. ASSUME Body(c, log).do = "get", Len(log) < MaxLog
        PROVE  R[Append(log, meaning[Body(c, log).of])] \in Results
    <2>1. meaning[Body(c, log).of] \in Results
      BY <1>2 DEF Known
    <2> QED BY <1>2, <2>1, LongerLog
  <1>3. None \in Results
    BY DEF Results
  <1> QED BY <1>1, <1>2, <1>3 DEF RunStep

LEMMA RunStepLocal ==
  ASSUME NEW c, NEW m1, Known(c, m1), NEW m2, AgreeFor(c, m1, m2), NEW R1, NEW R2, NEW log \in Logs,
         \A next \in Logs : Len(next) = Len(log) + 1 => R1[next] = R2[next]
  PROVE  RunStep(c, m1, R1, log) = RunStep(c, m2, R2, log)
  <1>1. ASSUME Body(c, log).do = "get" PROVE m1[Body(c, log).of] = m2[Body(c, log).of]
    BY <1>1 DEF AgreeFor
  <1>2. ASSUME Body(c, log).do = "get", Len(log) < MaxLog
        PROVE  R1[Append(log, m1[Body(c, log).of])] = R2[Append(log, m2[Body(c, log).of])]
    <2>1. PICK r \in Results : r = m1[Body(c, log).of] /\ r = m2[Body(c, log).of]
      BY <1>1, <1>2 DEF Known
    <2>2. R1[Append(log, r)] = R2[Append(log, r)]
      BY <1>2, LongerLog
    <2> QED BY <2>1, <2>2
  <1> QED BY <1>1, <1>2 DEF RunStep

\* The equation has a solution.
LEMMA RunExists ==
  ASSUME NEW c \in Items, NEW meaning, Known(c, meaning)
  PROVE  \E R \in [Logs -> Results] : RunOf(c, meaning, R)
  <1> DEFINE Settled(R, n) == \A log \in Logs : MaxLog - Len(log) < n => R[log] = RunStep(c, meaning, R, log)
             S == {n \in Nat : \E R \in [Logs -> Results] : Settled(R, n)}
  <1>0. AgreeFor(c, meaning, meaning)
    BY DEF AgreeFor
  <1>1. 0 \in S
    <2>1. [log \in Logs |-> None] \in [Logs -> Results]
      BY DEF Results
    <2>2. \A R : Settled(R, 0)
      <3>1. \A log \in Logs : ~(MaxLog - Len(log) < 0)
        BY LogLength
      <3> QED BY <3>1
    <2> QED BY <2>1, <2>2
  <1>2. ASSUME NEW n \in Nat, n \in S PROVE n + 1 \in S
    <2>1. PICK R \in [Logs -> Results] : Settled(R, n)
      BY <1>2
    <2> DEFINE T == [log \in Logs |-> IF MaxLog - Len(log) = n THEN RunStep(c, meaning, R, log) ELSE R[log]]
    <2>2. T \in [Logs -> Results]
      <3>1. \A next \in Logs : R[next] \in Results
        OBVIOUS
      <3>2. \A log \in Logs : RunStep(c, meaning, R, log) \in Results
        BY <3>1, RunStepTyped
      <3> QED BY <3>2
    <2>3. ASSUME NEW log \in Logs, MaxLog - Len(log) < n + 1
          PROVE  T[log] = RunStep(c, meaning, T, log)
      <3>1. Len(log) \in Nat /\ MaxLog \in Nat
        BY LogLength
      <3>2. \A next \in Logs : Len(next) = Len(log) + 1 => R[next] = T[next]
        BY <2>3, <3>1
      <3> HIDE DEF T
      <3>3. RunStep(c, meaning, R, log) = RunStep(c, meaning, T, log)
        BY <1>0, <3>2, RunStepLocal
      <3>4. T[log] = RunStep(c, meaning, R, log)
        <4>1. CASE MaxLog - Len(log) = n
          BY <4>1 DEF T
        <4>2. CASE MaxLog - Len(log) # n
          <5>1. MaxLog - Len(log) < n
            BY <2>3, <3>1, <4>2
          <5>2. R[log] = RunStep(c, meaning, R, log)
            BY <2>1, <5>1
          <5> QED BY <4>2, <5>2 DEF T
        <4> QED BY <4>1, <4>2
      <3> QED BY <3>3, <3>4
    <2> HIDE DEF T
    <2>4. Settled(T, n + 1)
      BY <2>3
    <2>5. n + 1 \in Nat
      OBVIOUS
    <2> QED BY <2>2, <2>4, <2>5
  <1> HIDE DEF S
  <1>3. \A n \in Nat : n \in S
    BY <1>1, <1>2, CountUp
  <1>4. MaxLog + 1 \in Nat
    BY PlanAssumption
  <1>5. PICK R \in [Logs -> Results] : Settled(R, MaxLog + 1)
    BY <1>3, <1>4 DEF S
  <1>6. \A log \in Logs : R[log] = RunStep(c, meaning, R, log)
    <2>1. \A log \in Logs : MaxLog - Len(log) < MaxLog + 1
      BY LogLength
    <2> QED BY <1>5, <2>1
  <1>7. RunOf(c, meaning, R)
    BY <1>6 DEF RunOf
  <1> QED BY <1>7

\* Two solutions agree, of the same equation or for meanings that agree.
LEMMA RunsAgree ==
  ASSUME NEW c, NEW m1, Known(c, m1), NEW m2, AgreeFor(c, m1, m2),
         NEW R1, RunOf(c, m1, R1), NEW R2, RunOf(c, m2, R2)
  PROVE  \A log \in Logs : R1[log] = R2[log]
  <1> DEFINE S == {n \in Nat : \A log \in Logs : MaxLog - Len(log) < n => R1[log] = R2[log]}
  <1>1. 0 \in S
    <2>1. \A log \in Logs : ~(MaxLog - Len(log) < 0)
      BY LogLength
    <2> QED BY <2>1
  <1>2. ASSUME NEW n \in Nat, n \in S PROVE n + 1 \in S
    <2>1. ASSUME NEW log \in Logs, MaxLog - Len(log) < n + 1 PROVE R1[log] = R2[log]
      <3>1. Len(log) \in Nat /\ MaxLog \in Nat
        BY LogLength
      <3>2. \A next \in Logs : Len(next) = Len(log) + 1 => R1[next] = R2[next]
        BY <1>2, <2>1, <3>1
      <3>3. RunStep(c, m1, R1, log) = RunStep(c, m2, R2, log)
        BY <3>2, RunStepLocal
      <3>4. R1[log] = RunStep(c, m1, R1, log) /\ R2[log] = RunStep(c, m2, R2, log)
        BY DEF RunOf
      <3> QED BY <3>3, <3>4
    <2>2. n + 1 \in Nat
      OBVIOUS
    <2> QED BY <2>1, <2>2
  <1> HIDE DEF S
  <1>3. \A n \in Nat : n \in S
    BY <1>1, <1>2, CountUp
  <1>4. MaxLog + 1 \in S
    BY <1>3, PlanAssumption
  <1>5. \A log \in Logs : MaxLog - Len(log) < MaxLog + 1
    BY LogLength
  <1> QED BY <1>4, <1>5 DEF S

LEMMA RunIs ==
  ASSUME NEW c \in Items, NEW meaning, Known(c, meaning)
  PROVE  \E R : /\ RunOf(c, meaning, R) /\ \A log \in Logs : R[log] \in Results
                /\ Run(c, meaning) = R[<< >>]
  <1>1. PICK T \in [Logs -> Results] : RunOf(c, meaning, T)
    BY RunExists
  <1>2. PICK R : R = CHOOSE Q : RunOf(c, meaning, Q)
    OBVIOUS
  <1>3. RunOf(c, meaning, R)
    BY <1>1, <1>2
  <1>4. AgreeFor(c, meaning, meaning)
    BY DEF AgreeFor
  <1>5. \A log \in Logs : R[log] = T[log]
    BY <1>1, <1>3, <1>4, RunsAgree
  <1>6. Run(c, meaning) = R[<< >>]
    BY <1>2, RunDef
  <1> QED BY <1>3, <1>5, <1>6

LEMMA RunSame ==
  ASSUME NEW c \in Items, NEW m1, Known(c, m1), NEW m2, AgreeFor(c, m1, m2)
  PROVE  Run(c, m1) = Run(c, m2) /\ Run(c, m1) \in Results
  <1>1. Known(c, m2)
    BY DEF Known, AgreeFor
  <1>2. PICK R1 : RunOf(c, m1, R1) /\ (\A log \in Logs : R1[log] \in Results) /\ Run(c, m1) = R1[<< >>]
    BY RunIs
  <1>3. PICK R2 : RunOf(c, m2, R2) /\ Run(c, m2) = R2[<< >>]
    BY <1>1, RunIs
  <1> QED BY <1>2, <1>3, RunsAgree, LogsAreSequences

\* A log of reads that each found what its item means leads to what the run is.
LEMMA RunReads ==
  ASSUME NEW c \in Items, NEW meaning, Known(c, meaning), NEW log \in Logs,
         \A n \in 1..Len(log) : LET op == Body(c, SubSeq(log, 1, n - 1)) IN
           op.do = "get" /\ log[n] = meaning[op.of] /\ log[n] # None,
         Body(c, log).do = "return"
  PROVE  Run(c, meaning) = Body(c, log).to
  <1>0. log \in Seq(Results) /\ Len(log) \in Nat /\ Len(log) <= MaxLog /\ MaxLog \in Nat
    BY LogsAreSequences, LenProperties, PlanAssumption
  <1>1. PICK R : RunOf(c, meaning, R) /\ Run(c, meaning) = R[<< >>]
    BY RunIs
  <1>2. \A l \in Logs : R[l] = RunStep(c, meaning, R, l)
    BY <1>1 DEF RunOf
  <1>3. ASSUME NEW n \in 0..Len(log)
        PROVE  SubSeq(log, 1, n) \in Logs /\ Len(SubSeq(log, 1, n)) = n
    <2>1. \A j \in 1..n : log[j] \in Results
      BY <1>0, ElementOfSeq
    <2>2. SubSeq(log, 1, n) \in Seq(Results) /\ Len(SubSeq(log, 1, n)) = n
      BY <1>0, <2>1, SubSeqProperties
    <2>3. n <= MaxLog
      BY <1>0
    <2> QED BY <2>2, <2>3, LogsAreSequences
  <1> DEFINE S == {n \in Nat : n <= Len(log) => R[SubSeq(log, 1, n)] = R[<< >>]}
  <1>4. 0 \in S
    <2>1. SubSeq(log, 1, 0) = << >>
      BY <1>0
    <2> QED BY <2>1
  <1>5. ASSUME NEW n \in Nat, n \in S PROVE n + 1 \in S
    <2>1. ASSUME n + 1 <= Len(log) PROVE R[SubSeq(log, 1, n + 1)] = R[<< >>]
      <3>1. n \in 0..Len(log) /\ n < MaxLog /\ n + 1 \in 1..Len(log) /\ n <= Len(log)
        BY <1>0, <2>1
      <3>2. PICK l \in Logs : l = SubSeq(log, 1, n) /\ Len(l) = n
        BY <1>3, <3>1
      <3>3. /\ Body(c, l).do = "get" /\ log[n + 1] = meaning[Body(c, l).of]
            /\ log[n + 1] # None
        <4>1. n + 1 - 1 = n
          OBVIOUS
        <4> QED BY <3>1, <3>2, <4>1
      <3>4. R[l] = R[Append(l, log[n + 1])]
        BY <1>2, <3>1, <3>2, <3>3 DEF RunStep
      <3>5. SubSeq(log, 1, n + 1) = Append(l, log[n + 1])
        BY <1>0, <3>1, <3>2, SubSeqRecursiveSecond
      <3> QED BY <1>5, <3>1, <3>2, <3>4, <3>5
    <2>2. n + 1 \in Nat
      OBVIOUS
    <2> QED BY <2>1, <2>2
  <1> HIDE DEF S
  <1>6. \A n \in Nat : n \in S
    BY <1>4, <1>5, CountUp
  <1>7. R[SubSeq(log, 1, Len(log))] = R[<< >>]
    BY <1>0, <1>6 DEF S
  <1>8. SubSeq(log, 1, Len(log)) = log
    BY <1>0, SubSeqFull
  <1>9. R[log] = Body(c, log).to
    BY <1>2 DEF RunStep
  <1> QED BY <1>1, <1>7, <1>8, <1>9

\* The closures of computed cells read items created before theirs: a closure
\* captures handles, and a handle exists once its node does.
Layered ==
  \A k \in Items : Plan[k].kind = "slot" =>
    \A log \in Logs : Body(k, log).do = "get" => Body(k, log).of < k

\* No handle to a computed cell names an id that another occupant has taken.
HandlesCurrent ==
  \A k \in Items : (Plan[k].kind = "slot" /\ made[k] # None /\ IsSlot(made[k].id)) =>
    gen[made[k].id] = made[k].gen

LEMMA HandleNamesOwn ==
  ASSUME GraphInv, HandlesOwn, HandlesCurrent, NEW k \in Items,
         Plan[k].kind = "slot", made[k] # None, IsSlot(made[k].id)
  PROVE  made[k].id \in Ids /\ code[made[k].id] = k
  <1>1. made[k].id \in Ids
    BY MadeTyped DEF GraphInv
  <1> QED BY <1>1 DEF HandlesOwn, Owned, HandlesCurrent

\* What an item means depends on what the items before it mean.
LEMMA MeaningLocal ==
  ASSUME Layered, GraphInv, HandlesOwn, HandlesCurrent, NEW k \in Items, NEW m1, NEW m2,
         \A j \in Items : j < k => m1[j] = m2[j] /\ m1[j] \in Results
  PROVE  MeaningFrom(k, m1) = MeaningFrom(k, m2) /\ MeaningFrom(k, m1) \in Results
  <1>0. None \in Results
    BY DEF Results
  <1>1. CASE made[k] = None \/ kind[made[k].id] # Plan[k].kind \/ Plan[k].kind = "effect"
    BY <1>0, <1>1 DEF MeaningFrom
  <1>2. CASE made[k] # None /\ kind[made[k].id] = Plan[k].kind /\ Plan[k].kind = "cell"
    <2>1. val \in [Ids -> Results] /\ made[k].id \in Ids
      BY <1>2, MadeTyped DEF GraphInv, FlagsTyped, Results
    <2> QED BY <1>2, <2>1 DEF MeaningFrom
  <1>3. CASE made[k] # None /\ kind[made[k].id] = Plan[k].kind /\ Plan[k].kind = "slot"
    <2>1. code[made[k].id] = k
      BY <1>3, HandleNamesOwn DEF IsSlot
    <2>2. \A log \in Logs : Body(k, log).do = "get" => Body(k, log).of \in Items /\ Body(k, log).of < k
      BY <1>3, OpsTyped DEF Layered
    <2>3. Known(k, m1) /\ AgreeFor(k, m1, m2)
      BY <2>2 DEF Known, AgreeFor
    <2>4. Run(k, m1) = Run(k, m2) /\ Run(k, m1) \in Results
      BY <2>3, RunSame
    <2> QED BY <1>3, <2>1, <2>4 DEF MeaningFrom
  <1>4. Plan[k].kind \in {"cell", "slot", "effect"}
    BY PlanTyped DEF Kinds
  <1> QED BY <1>1, <1>2, <1>3, <1>4

\* The meaning of the program is the solution of its equations.
MeaningOf(m) == m = [k \in Items |-> MeaningFrom(k, m)]

LEMMA MeaningExists ==
  ASSUME Layered, GraphInv, HandlesOwn, HandlesCurrent
  PROVE  \E m : MeaningOf(m)
  <1> DEFINE Upto(m, n) == \A k \in Items : k <= n => m[k] = MeaningFrom(k, m)
             S == {n \in Nat : \E m \in [Items -> Results] : Upto(m, n)}
  <1>0. Items \subseteq Nat \ {0} /\ \A k \in Items : k <= Len(Plan)
    BY PlanAssumption DEF Items
  <1>1. 0 \in S
    <2>1. [k \in Items |-> None] \in [Items -> Results]
      BY DEF Results
    <2>2. \A k \in Items : ~(k <= 0)
      BY <1>0
    <2> QED BY <2>1, <2>2
  <1>2. ASSUME NEW n \in Nat, n \in S PROVE n + 1 \in S
    <2>1. PICK m \in [Items -> Results] : Upto(m, n)
      BY <1>2
    <2>2. CASE n + 1 \in Items
      <3>1. PICK r : r = MeaningFrom(n + 1, m)
        OBVIOUS
      <3>2. PICK q : q = [m EXCEPT ![n + 1] = r]
        OBVIOUS
      <3>3. \A j \in Items : j # n + 1 => q[j] = m[j]
        BY <3>2
      <3>4. q[n + 1] = r
        BY <2>2, <3>2
      <3>5. ASSUME NEW k \in Items, k <= n + 1
            PROVE  MeaningFrom(k, m) = MeaningFrom(k, q) /\ MeaningFrom(k, m) \in Results
        <4>1. \A j \in Items : j < k => m[j] = q[j] /\ m[j] \in Results
          <5>1. ASSUME NEW j \in Items, j < k PROVE m[j] = q[j] /\ m[j] \in Results
            <6>1. j # n + 1
              BY <1>0, <3>5, <5>1
            <6> QED BY <3>3, <6>1
          <5> QED BY <5>1
        <4> QED BY <4>1, MeaningLocal
      <3>6. r \in Results
        <4>1. n + 1 <= n + 1
          OBVIOUS
        <4> QED BY <2>2, <3>1, <3>5, <4>1
      <3>7. q \in [Items -> Results]
        BY <3>2, <3>6
      <3>8. ASSUME NEW k \in Items, k <= n + 1 PROVE q[k] = MeaningFrom(k, q)
        <4>1. CASE k = n + 1
          BY <3>1, <3>4, <3>5, <3>8, <4>1
        <4>2. CASE k # n + 1
          <5>1. k <= n
            BY <1>0, <3>8, <4>2
          <5>2. m[k] = MeaningFrom(k, m)
            BY <2>1, <5>1
          <5> QED BY <3>3, <3>5, <3>8, <4>2, <5>2
        <4> QED BY <4>1, <4>2
      <3>9. Upto(q, n + 1)
        BY <3>8
      <3> QED BY <3>7, <3>9
    <2>3. CASE n + 1 \notin Items
      <3>1. \A k \in Items : k <= n + 1 => k <= n
        BY <1>0, <2>3
      <3>2. Upto(m, n + 1)
        BY <2>1, <3>1
      <3> QED BY <3>2
    <2> QED BY <2>2, <2>3
  <1> HIDE DEF S
  <1>3. \A n \in Nat : n \in S
    BY <1>1, <1>2, CountUp
  <1>4. Len(Plan) \in Nat
    BY PlanAssumption
  <1>5. PICK m \in [Items -> Results] : Upto(m, Len(Plan))
    BY <1>3, <1>4 DEF S
  <1>6. \A k \in Items : m[k] = MeaningFrom(k, m)
    BY <1>0, <1>5
  <1>7. MeaningOf(m)
    BY <1>6 DEF MeaningOf
  <1> QED BY <1>7

LEMMA MeaningIs ==
  ASSUME Layered, GraphInv, HandlesOwn, HandlesCurrent
  PROVE  \A k \in Items : Meaning[k] = MeaningFrom(k, Meaning) /\ Meaning[k] \in Results
  <1>1. Meaning = CHOOSE m : MeaningOf(m)
    BY Zenon DEF Meaning, MeaningOf
  <1>2. MeaningOf(Meaning)
    BY <1>1, MeaningExists
  <1>3. PICK m : m = Meaning
    OBVIOUS
  <1>4. m = [k \in Items |-> MeaningFrom(k, m)]
    BY <1>2, <1>3 DEF MeaningOf
  <1>5. \A k \in Items : m[k] = MeaningFrom(k, m)
    BY <1>4
  <1>6. Items \subseteq Nat \ {0}
    BY PlanAssumption DEF Items
  <1> DEFINE S == {n \in Nat : \A k \in Items : k <= n => m[k] \in Results}
  <1>7. 0 \in S
    BY <1>6
  <1>8. ASSUME NEW n \in Nat, n \in S PROVE n + 1 \in S
    <2>1. ASSUME NEW k \in Items, k <= n + 1 PROVE m[k] \in Results
      <3>1. \A j \in Items : j < k => m[j] = m[j] /\ m[j] \in Results
        <4>1. \A j \in Items : j < k => j <= n
          BY <1>6, <2>1
        <4> QED BY <1>8, <4>1
      <3>2. MeaningFrom(k, m) \in Results
        BY <3>1, MeaningLocal
      <3> QED BY <1>5, <3>2
    <2> QED BY <2>1
  <1> HIDE DEF S
  <1>9. \A n \in Nat : n \in S
    BY <1>7, <1>8, CountUp
  <1>10. \A k \in Items : m[k] \in Results
    BY <1>6, <1>9 DEF S
  <1> QED BY <1>3, <1>5, <1>10

\* Along the plan, every fresh value is what its item means.
LEMMA CoherentUpTo ==
  ASSUME Layered, GraphInv, HandlesOwn, HandlesCurrent, CacheInv, batchDepth = 0
  PROVE  \A k \in Items : (Plan[k].kind = "slot" /\ made[k] # None /\ Clean(made[k].id)) =>
           val[made[k].id] = Meaning[k]
  <1> DEFINE Fine(k) == (Plan[k].kind = "slot" /\ made[k] # None /\ Clean(made[k].id)) =>
                           val[made[k].id] = Meaning[k]
             S == {n \in Nat : \A k \in Items : k <= n => Fine(k)}
  <1>0. /\ Items \subseteq Nat \ {0} /\ batched.cells = {}
        /\ CleanBelow /\ HeldSound /\ EdgesKept /\ RestTyped
    BY PlanAssumption DEF Items, CacheInv, PlanKept, GraphInv
  <1>1. 0 \in S
    BY <1>0
  <1>2. ASSUME NEW n \in Nat, n \in S PROVE n + 1 \in S
    <2>1. ASSUME NEW k \in Items, k <= n + 1,
                 Plan[k].kind = "slot", made[k] # None, Clean(made[k].id)
          PROVE  val[made[k].id] = Meaning[k]
      <3>1. PICK i : i = made[k].id
        OBVIOUS
      <3>2. i \in Ids /\ code[i] = k /\ Clean(i) /\ IsSlot(i) /\ Held(i)
        BY <2>1, <3>1, HandleNamesOwn DEF Clean, Held
      <3>3. HeldFrom(i, {})
        BY <1>0, <3>2 DEF HeldSound
      <3>4. PICK log \in Logs : /\ Body(k, log).do = "return" /\ Body(k, log).to = val[i]
                                /\ \A p \in 1..Len(log) : ReadFrom(i, log, p, {})
        BY <3>2, <3>3 DEF HeldFrom, Returns
      <3>5. \A j \in Items : Meaning[j] = MeaningFrom(j, Meaning) /\ Meaning[j] \in Results
        BY MeaningIs
      <3>6. \A l \in Logs : Body(k, l).do = "get" => Body(k, l).of \in Items /\ Body(k, l).of < k
        BY <2>1, OpsTyped DEF Layered
      <3>7. Known(k, Meaning)
        BY <3>5, <3>6 DEF Known
      <3>8. ASSUME NEW p \in 1..Len(log)
            PROVE  LET op == Body(k, SubSeq(log, 1, p - 1)) IN
                     op.do = "get" /\ log[p] = Meaning[op.of] /\ log[p] # None
        <4>1. PICK op : op = Body(k, SubSeq(log, 1, p - 1))
          OBVIOUS
        <4>2. ReadOp(i, log, p) = op /\ ReadOf(i, log, p) = made[op.of] /\ ReadFrom(i, log, p, {})
          BY <3>2, <3>4, <4>1 DEF ReadOp, ReadOf
        <4>3. /\ op.do = "get" /\ made[op.of] # None /\ log[p] # None
              /\ kind[made[op.of].id] = Plan[op.of].kind /\ i \in dpts[made[op.of].id]
              /\ log[p] = val[made[op.of].id]
          BY <4>2 DEF ReadFrom
        <4>4. op.of \in Items /\ op.of < k
          BY <3>4, <3>6, <4>1, <4>3, LogPrefix
        <4>5. Plan[op.of].kind \in {"cell", "slot"} /\ made[op.of].id \in Ids
          BY <1>0, <3>2, <3>4, <4>2, ReadNode
        <4>6. CASE Plan[op.of].kind = "cell"
          <5>1. Meaning[op.of] = val[made[op.of].id]
            BY <3>5, <4>3, <4>4, <4>6 DEF MeaningFrom
          <5> QED BY <4>1, <4>3, <5>1
        <4>7. CASE Plan[op.of].kind = "slot"
          <5>1. Clean(made[op.of].id)
            BY <1>0, <3>2, <4>3, <4>5, <4>7 DEF CleanBelow, IsSlot
          <5>2. op.of <= n
            <6>1. \A j \in Items : j < k => j <= n
              BY <1>0, <2>1
            <6> QED BY <4>4, <6>1
          <5>3. Fine(op.of)
            BY <1>2, <4>4, <5>2
          <5>4. val[made[op.of].id] = Meaning[op.of]
            BY <4>3, <4>7, <5>1, <5>3
          <5> QED BY <4>1, <4>3, <5>4
        <4> QED BY <4>5, <4>6, <4>7
      <3>9. Run(k, Meaning) = val[i]
        BY <3>4, <3>7, <3>8, RunReads
      <3>10. Meaning[k] = Run(k, Meaning)
        BY <2>1, <3>1, <3>2, <3>5 DEF MeaningFrom, IsSlot
      <3> QED BY <3>1, <3>9, <3>10
    <2>2. \A k \in Items : k <= n + 1 => Fine(k)
      BY <2>1
    <2> QED BY <2>2
  <1> HIDE DEF S
  <1>3. \A n \in Nat : n \in S
    BY <1>1, <1>2, CountUp
  <1> QED BY <1>0, <1>3 DEF S

\* What an operation of a closure reads now: a stored value, or a computed cell's
\* cached value when that is fresh.
ReadNow(op) ==
  IF op.do = "get" /\ made[op.of] # None /\ kind[made[op.of].id] = Plan[op.of].kind
     /\ (IsSlot(made[op.of].id) => Clean(made[op.of].id))
  THEN val[made[op.of].id] ELSE None

\* A fresh value is what its closure returns on what the nodes it reads hold now,
\* and those are fresh as well.
CachesFollowReads ==
  batchDepth = 0 =>
    \A i \in Ids : Clean(i) =>
      \E log \in Logs :
        /\ Returns(i, log, val[i])
        /\ \A n \in 1..Len(log) : log[n] = ReadNow(ReadOp(i, log, n)) /\ log[n] # None

LEMMA FollowsReads ==
  ASSUME GraphInv, CacheInv
  PROVE  CachesFollowReads
  <1> SUFFICES ASSUME batchDepth = 0, NEW i \in Ids, Clean(i)
               PROVE  \E log \in Logs :
                        /\ Returns(i, log, val[i])
                        /\ \A n \in 1..Len(log) : log[n] = ReadNow(ReadOp(i, log, n)) /\ log[n] # None
    BY DEF CachesFollowReads
  <1>0. /\ batched.cells = {} /\ CleanBelow /\ HeldSound /\ EdgesKept /\ RestTyped /\ ArenaKept
    BY DEF CacheInv, PlanKept, GraphInv
  <1>1. Held(i) /\ IsSlot(i)
    BY DEF Clean, Held
  <1>2. code[i] \in Items
    BY <1>0, <1>1 DEF ArenaKept, IsSlot
  <1>3. HeldFrom(i, {})
    BY <1>0, <1>1 DEF HeldSound
  <1>4. PICK log \in Logs : Returns(i, log, val[i]) /\ \A n \in 1..Len(log) : ReadFrom(i, log, n, {})
    BY <1>3 DEF HeldFrom
  <1>5. ASSUME NEW n \in 1..Len(log)
        PROVE  log[n] = ReadNow(ReadOp(i, log, n)) /\ log[n] # None
    <2>1. PICK op : op = ReadOp(i, log, n)
      OBVIOUS
    <2>2. /\ op.do = "get" /\ made[op.of] # None /\ log[n] # None
          /\ kind[made[op.of].id] = Plan[op.of].kind /\ i \in dpts[made[op.of].id]
          /\ log[n] = val[made[op.of].id] /\ ReadOf(i, log, n) = made[op.of]
      BY <1>4, <2>1 DEF ReadFrom, ReadOf
    <2>3. made[op.of].id \in Ids
      BY <1>0, <1>2, <1>4, <2>2, ReadNode
    <2>4. IsSlot(made[op.of].id) => Clean(made[op.of].id)
      BY <1>0, <2>2, <2>3 DEF CleanBelow
    <2> QED BY <2>1, <2>2, <2>4 DEF ReadNow
  <1> QED BY <1>4, <1>5

\* Cache consistency of the engine, with no condition on handles: outside a batch,
\* a value that get would return without refreshing is what the cell's closure
\* returns on the values its dependencies hold now, each fresh too, whatever was
\* written, cleared, disposed, recycled or thrown before.
THEOREM CachesAreLocallyCurrent ==
  ASSUME PureSlots
  PROVE  Spec => []CachesFollowReads
  <1>1. GraphInv /\ CacheInv /\ [Next]_vars => CacheInv'
    BY CacheInvHolds
  <1>2. GraphInv /\ CacheInv => CachesFollowReads
    BY FollowsReads
  <1> QED BY <1>1, <1>2, GraphInvStarts, GraphInvHolds, CacheInvStarts, PTL DEF Spec

\* Cache coherence: outside a batch, a fresh value is what the program's closures
\* compute from the cells, for a program whose computed cells only read, and read
\* items created before them, as long as no handle to one is stale.
THEOREM FreshCachesAreCoherent ==
  ASSUME PureSlots, Layered
  PROVE  Spec => [](HandlesCurrent => CacheCoherent)
  <1>1. GraphInv /\ CacheInv /\ [Next]_vars => CacheInv'
    BY CacheInvHolds
  <1>2. Init => HandlesOwn
    BY DEF Init, HandlesOwn
  <1>3. GraphInv /\ HandlesOwn /\ CacheInv => (HandlesCurrent => CacheCoherent)
    <2> SUFFICES ASSUME GraphInv, HandlesOwn, CacheInv, HandlesCurrent PROVE CacheCoherent
      OBVIOUS
    <2> QED BY CoherentUpTo DEF CacheCoherent
  <1> QED BY <1>1, <1>2, <1>3, GraphInvStarts, GraphInvHolds, HandlesOwnHolds, CacheInvStarts, PTL DEF Spec

=============================================================================
