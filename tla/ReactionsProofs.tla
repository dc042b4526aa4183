--------------------------- MODULE ReactionsProofs ---------------------------
(***************************************************************************)
(* The effects of the reactive graph are current at rest, and its eager    *)
(* cells fresh, for every program whose computed cells only read and that  *)
(* neither throws nor disposes of nodes: the flush owes nothing when it    *)
(* returns.                                                                *)
(***************************************************************************)
EXTENDS ReactiveGraphProofs, FiniteSetTheorems, SequenceTheorems, TLAPS

-----------------------------------------------------------------------------
(* Reactions.  An effect that is owed no run has dependencies that are all  *)
(* fresh: with CleanBelow, nothing below a value that is not fresh rests,   *)
(* so a walk that stops at a dirty node leaves no effect behind it.         *)

\* Nothing is disposed and nothing throws: closures get values, set cells, make
\* nodes and return.
Undisturbed ==
  /\ "dispose" \notin HostMay
  /\ \A k \in Items : Plan[k].kind # "cell" => \A log \in Logs :
       /\ Body(k, log).do \in {"get", "set", "make", "return"}
       /\ Body(k, log).do = "get" => Plan[Body(k, log).of].kind # "effect"

IsEffect(e) == kind[e] = "effect"
FramesOf(s) == {s[p] : p \in 1..Len(s)}

\* The turn of an effect in the flush, from the check whether it is due to the
\* end of its closure.
Turning(f) == f.op \in {"should", "effect"}
Turn(s, op, e) == \E f \in FramesOf(s) : f.op = op /\ f.id = e
RunOn(s, e) == Turn(s, "effect", e)
CheckOn(s, e) == Turn(s, "should", e)
Owed(e) == e \in scheduled \/ CheckOn(stack, e) \/ RunOn(stack, e)

\* A turn is above the flush, which is the only one and has one turn at a time;
\* one call waits to attach.
Fits(f, below) ==
  /\ Turning(f) => (\E g \in below : g.op = "flush") /\ \A g \in below : ~Turning(g)
  /\ f.op \in {"flush", "attach"} => \A g \in below : g.op # f.op
StackForm(s) == \A p \in 1..Len(s) : Fits(s[p], {s[q] : q \in (p + 1)..Len(s)})
Flushes(s) == \E f \in FramesOf(s) : f.op = "flush"
BusyShown(s) == \A m \in Ids : busy[m] => \E f \in FramesOf(s) : Recomputing(f) /\ f.id = m
StackKept ==
  /\ StackForm(stack)
  /\ flushing <=> Flushes(stack)
  /\ batchDepth = 0 /\ ~flushing => scheduled = {}
  /\ BusyShown(stack)

\* Entry n of `log', a log of closure c of effect e, is what the node read holds
\* now, unless the write that changed it is in `late'.
EntryOp(c, log, n) == Code(c, SubSeq(log, 1, n - 1))
EntryOf(c, log, n) == made[EntryOp(c, log, n).of]
EntryHolds(e, c, log, n, late) ==
  IF EntryOp(c, log, n).do = "get"
  THEN /\ EntryOf(c, log, n) # None /\ log[n] # None
       /\ e \in dpts[EntryOf(c, log, n).id]
       /\ log[n] = val[EntryOf(c, log, n).id] \/ EntryOf(c, log, n).id \in late
  ELSE log[n] = None
LogHolds(e, c, log, late) == \A n \in 1..Len(log) : EntryHolds(e, c, log, n, late)

\* An effect that is not forced has seen what it reads; one that is forced, or
\* reads a value that is not fresh, is owed a run.
SeenHolds(e) ==
  /\ seen[code[e]] \in Logs /\ Code(code[e], seen[code[e]]).do = "return"
  /\ LogHolds(e, code[e], seen[code[e]], batched.cells)
EffectSound(e) ==
  /\ ~force[e] /\ ~RunOn(stack, e) => SeenHolds(e)
  /\ force[e] => e \in scheduled \/ CheckOn(stack, e)
  /\ \A m \in Ids : IsSlot(m) /\ e \in dpts[m] => Clean(m) \/ Owed(e)

\* What the turn f has been through is fresh, or about to be.
Fresh(m) == Clean(m) \/ busy[m]
ShouldHolds(f) ==
  /\ \A m \in Ids : IsSlot(m) /\ f.id \in dpts[m] => Fresh(m) \/ m \in f.todo
  /\ force[f.id] => f.due \/ f.id \in scheduled
PulledHolds(f) ==
  LET op == Code(f.code, f.log) IN
  /\ op.do = "get" /\ op.of \in Items /\ Plan[op.of].kind = "slot" /\ made[op.of] # None
  /\ f.id \in dpts[made[op.of].id] /\ Fresh(made[op.of].id)
RunHolds(f) ==
  /\ f.id \notin scheduled => \A m \in Ids : IsSlot(m) /\ f.id \in dpts[m] => Fresh(m)
  /\ ~force[f.id] => LogHolds(f.id, f.code, f.log, batched.cells)
  /\ f.pulled => PulledHolds(f)
TurnHolds(f) ==
  Turning(f) =>
    /\ IsEffect(f.id) /\ gen[f.id] = f.gen /\ code[f.id] = f.code
    /\ f.op = "should" => ShouldHolds(f)
    /\ f.op = "effect" => RunHolds(f)

\* What a call that made an effect is waiting to do.
WaitHolds(f) ==
  /\ f.op = "made" =>
       /\ f.code \in Items /\ Plan[f.code].kind = "effect" /\ f.code <= nmade
       /\ IsEffect(f.id) /\ code[f.id] = f.code
  /\ f.op = "attach" =>
       /\ f.code \in Items /\ Plan[f.code].kind = "slot" /\ made[f.code] # None
       /\ IsEffect(f.id) /\ code[f.id] = Puller(f.code) /\ ~eager[made[f.code].id]

\* Without disposals a handle names its node, and a node is the only one of its
\* closure.
HandlesLive ==
  \A k \in Items : made[k] # None =>
    /\ k <= nmade /\ kind[made[k].id] = Plan[k].kind
    /\ code[made[k].id] = k /\ gen[made[k].id] = made[k].gen
NodesLive ==
  /\ \A i \in Ids : kind[i] = "empty" => code[i] = 0
  /\ \A i \in Ids : code[i] \in Items => code[i] <= nmade /\ kind[i] = Plan[code[i]].kind
  /\ \A i, j \in Ids : code[i] = code[j] /\ code[i] # 0 => i = j
  /\ \A k \in Items : k <= nmade /\ Plan[k].kind = "effect" => \E e \in Ids : IsEffect(e) /\ code[e] = k
Attaching(s, p, k) == \E f \in FramesOf(s) : f.op = "attach" /\ f.id = p /\ f.code = k
Pulls(p, k) ==
  \/ \E i \in Ids : eagerBy[i] # None /\ eagerBy[i].id = p /\ code[i] = k
  \/ Attaching(stack, p, k)
PullersLive ==
  /\ \A i \in Ids : eager[i] <=> eagerBy[i] # None
  /\ \A i \in Ids : eagerBy[i] # None =>
       /\ IsSlot(i) /\ made[code[i]] # None
       /\ gen[eagerBy[i].id] = eagerBy[i].gen
       /\ IsEffect(eagerBy[i].id) /\ code[eagerBy[i].id] = Puller(code[i])
  /\ \A p \in Ids : kind[p] # "empty" /\ code[p] \notin Items =>
       \E k \in Items : code[p] = Puller(k) /\ Plan[k].kind = "slot" /\ made[k] # None /\ Pulls(p, k)

ProgramLive == HandlesLive /\ NodesLive /\ PullersLive
EffectsSound == \A e \in Ids : IsEffect(e) => EffectSound(e)
TurnsHold == \A f \in FramesOf(stack) : TurnHolds(f) /\ WaitHolds(f)
ReactParts == StackKept /\ ProgramLive /\ EffectsSound /\ TurnsHold
ReactInv == stack # << >> => ReactParts

\* g is the activation f, but for what it was told by the refresh above it.
Alike(f, g) ==
  /\ g.op = f.op /\ g.id = f.id /\ g.gen = f.gen /\ g.code = f.code
  /\ g.log = f.log /\ g.todo = f.todo /\ g.pulled = f.pulled /\ g.due = f.due

\* Every activation of t that outlasts user code and effects is one of s.
Kept(f) == f.op \in {"flush", "should", "effect", "made", "attach"}
Kin(s, t) == \A g \in FramesOf(t) : Kept(g) => \E f \in FramesOf(s) : Alike(f, g)

LEMMA FramesOfPush ==
  ASSUME NEW s \in Seq(Frame), NEW f \in Frame
  PROVE  FramesOf(Push(f, s)) = {f} \cup FramesOf(s)
  <1> DEFINE t == Push(f, s)
  <1>1. Len(t) = Len(s) + 1 /\ Len(s) \in Nat
    BY LenProperties DEF Push
  <1>2. \A p \in 1..Len(s) + 1 : t[p] = IF p = 1 THEN f ELSE s[p - 1]
    BY DEF Push
  <1> HIDE DEF t
  <1>3. ASSUME NEW g \in FramesOf(t) PROVE g \in {f} \cup FramesOf(s)
    <2>1. PICK p \in 1..Len(t) : g = t[p]
      BY <1>3 DEF FramesOf
    <2>2. CASE p = 1 BY <2>1, <2>2, <1>1, <1>2
    <2>3. CASE p # 1
      <3>1. p - 1 \in 1..Len(s) /\ g = s[p - 1]
        BY <2>1, <2>3, <1>1, <1>2
      <3> QED BY <3>1 DEF FramesOf
    <2> QED BY <2>2, <2>3
  <1>4. f \in FramesOf(t)
    <2>1. 1 \in 1..Len(t) /\ t[1] = f
      BY <1>1, <1>2
    <2> QED BY <2>1 DEF FramesOf
  <1>5. ASSUME NEW g \in FramesOf(s) PROVE g \in FramesOf(t)
    <2>1. PICK p \in 1..Len(s) : g = s[p]
      BY <1>5 DEF FramesOf
    <2>2. p + 1 \in 1..Len(t) /\ t[p + 1] = g
      BY <2>1, <1>1, <1>2
    <2> QED BY <2>2 DEF FramesOf
  <1>6. FramesOf(t) = {f} \cup FramesOf(s)
    BY <1>3, <1>4, <1>5
  <1> QED BY <1>6 DEF t

LEMMA FormOfPush ==
  ASSUME NEW s \in Seq(Frame), NEW f \in Frame
  PROVE  StackForm(Push(f, s)) <=> Fits(f, FramesOf(s)) /\ StackForm(s)
  <1> DEFINE t == Push(f, s)
             Under(u, p) == {u[q] : q \in (p + 1)..Len(u)}
  <1>1. Len(t) = Len(s) + 1 /\ Len(s) \in Nat
    BY LenProperties DEF Push
  <1>2. \A p \in 1..Len(s) + 1 : t[p] = IF p = 1 THEN f ELSE s[p - 1]
    BY DEF Push
  <1> HIDE DEF t
  <1>3. \A p \in 0..Len(s) : Under(t, p + 1) = Under(s, p)
    <2> SUFFICES ASSUME NEW p \in 0..Len(s) PROVE Under(t, p + 1) = Under(s, p)
      OBVIOUS
    <2>1. ASSUME NEW g \in Under(t, p + 1) PROVE g \in Under(s, p)
      <3>1. PICK q \in (p + 2)..Len(t) : g = t[q]
        BY <2>1
      <3>2. q - 1 \in (p + 1)..Len(s) /\ g = s[q - 1]
        BY <3>1, <1>1, <1>2
      <3> QED BY <3>2
    <2>2. ASSUME NEW g \in Under(s, p) PROVE g \in Under(t, p + 1)
      <3>1. PICK q \in (p + 1)..Len(s) : g = s[q]
        BY <2>2
      <3>2. q + 1 \in (p + 2)..Len(t) /\ g = t[q + 1]
        BY <3>1, <1>1, <1>2
      <3> QED BY <3>2
    <2> QED BY <2>1, <2>2
  <1>4. Under(s, 0) = FramesOf(s)
    BY DEF FramesOf
  <1> HIDE DEF Under
  <1>5. StackForm(t) <=> \A p \in 1..Len(t) : Fits(t[p], Under(t, p))
    BY DEF StackForm, Under
  <1>6. StackForm(s) <=> \A p \in 1..Len(s) : Fits(s[p], Under(s, p))
    BY DEF StackForm, Under
  <1>7. ASSUME StackForm(t) PROVE Fits(f, FramesOf(s)) /\ StackForm(s)
    <2>1. 1 \in 1..Len(t) /\ 0 \in 0..Len(s) /\ t[1] = f /\ Under(t, 1) = Under(s, 0)
      BY <1>1, <1>2, <1>3
    <2>2. ASSUME NEW p \in 1..Len(s) PROVE Fits(s[p], Under(s, p))
      <3>1. p + 1 \in 1..Len(t) /\ t[p + 1] = s[p] /\ Under(t, p + 1) = Under(s, p)
        BY <1>1, <1>2, <1>3
      <3>2. Fits(t[p + 1], Under(t, p + 1))
        BY <3>1, <1>5, <1>7
      <3> QED BY <3>1, <3>2
    <2>3. Fits(t[1], Under(t, 1))
      BY <2>1, <1>5, <1>7
    <2> QED BY <2>1, <2>2, <2>3, <1>4, <1>6
  <1>8. ASSUME Fits(f, FramesOf(s)), StackForm(s) PROVE StackForm(t)
    <2> SUFFICES ASSUME NEW p \in 1..Len(t) PROVE Fits(t[p], Under(t, p))
      BY <1>5
    <2>1. CASE p = 1
      <3>1. 0 \in 0..Len(s) /\ 1 \in 1..(Len(s) + 1) /\ 0 + 1 = 1
        BY <1>1
      <3>2. t[1] = f /\ Under(t, 1) = Under(s, 0)
        BY <3>1, <1>2, <1>3
      <3> QED BY <3>2, <2>1, <1>4, <1>8
    <2>2. CASE p # 1
      <3>1. PICK q \in 1..Len(s) : p = q + 1
        <4>1. p - 1 \in 1..Len(s) /\ p = (p - 1) + 1
          BY <2>2, <1>1
        <4> QED BY <4>1
      <3>2. t[p] = s[q] /\ Under(t, p) = Under(s, q)
        BY <3>1, <1>1, <1>2, <1>3
      <3> QED BY <3>2, <1>6, <1>8
    <2> QED BY <2>1, <2>2
  <1> QED BY <1>7, <1>8 DEF t

\* A stack is its innermost activation on the others.
LEMMA StackSplits ==
  ASSUME NEW s \in Seq(Frame), s # << >>
  PROVE  /\ Head(s) \in Frame /\ Tail(s) \in Seq(Frame) /\ s = Push(Head(s), Tail(s))
         /\ FramesOf(s) = {Head(s)} \cup FramesOf(Tail(s))
         /\ StackForm(s) <=> Fits(Head(s), FramesOf(Tail(s))) /\ StackForm(Tail(s))
  <1>1. Head(s) \in Frame /\ Tail(s) \in Seq(Frame)
    BY EmptySeq
  <1> DEFINE t == Push(Head(s), Tail(s))
  <1>2. t = s
    <2>1. Len(s) \in Nat /\ Len(s) # 0 /\ Head(s) = s[1] /\ Len(Tail(s)) = Len(s) - 1
      BY LenProperties, EmptySeq
    <2>2. t \in Seq(Frame) /\ Len(t) = Len(s)
      BY <1>1, <2>1 DEF Push
    <2>3. \A p \in 1..Len(s) : t[p] = s[p]
      BY <1>1, <2>1 DEF Push
    <2> HIDE DEF t
    <2> QED BY <2>2, <2>3, SeqEqual
  <1>3. FramesOf(t) = {Head(s)} \cup FramesOf(Tail(s))
    BY <1>1, FramesOfPush
  <1>4. StackForm(t) <=> Fits(Head(s), FramesOf(Tail(s))) /\ StackForm(Tail(s))
    BY <1>1, FormOfPush
  <1> QED BY <1>1, <1>2, <1>3, <1>4

\* Effects take their turns one at a time, inside the flush.
LEMMA OneTurn ==
  ASSUME NEW s \in Seq(Frame), StackForm(s), NEW f \in FramesOf(s), NEW g \in FramesOf(s),
         Turning(f), Turning(g)
  PROVE  f = g /\ Flushes(s)
  <1>1. PICK p \in 1..Len(s) : f = s[p]
    BY DEF FramesOf
  <1>2. PICK q \in 1..Len(s) : g = s[q]
    BY DEF FramesOf
  <1>3. Len(s) \in Nat
    BY LenProperties
  <1>4. Fits(f, {s[r] : r \in (p + 1)..Len(s)}) /\ Fits(g, {s[r] : r \in (q + 1)..Len(s)})
    BY <1>1, <1>2 DEF StackForm
  <1>5. Flushes(s)
    <2>1. PICK r \in (p + 1)..Len(s) : s[r].op = "flush"
      BY <1>4 DEF Fits
    <2>2. r \in 1..Len(s)
      BY <1>1, <1>3, <2>1
    <2> QED BY <2>1, <2>2 DEF Flushes, FramesOf
  <1>6. CASE p < q
    <2>1. q \in (p + 1)..Len(s)
      BY <1>3, <1>6
    <2> QED BY <2>1, <1>2, <1>4 DEF Fits
  <1>7. CASE q < p
    <2>1. p \in (q + 1)..Len(s)
      BY <1>3, <1>7
    <2> QED BY <2>1, <1>1, <1>4 DEF Fits
  <1>8. CASE p = q BY <1>1, <1>2, <1>5, <1>8
  <1> QED BY <1>3, <1>6, <1>7, <1>8

\* Another innermost activation of the same sort.
LEMMA RetopForm ==
  ASSUME NEW s \in Seq(Frame), s # << >>, StackForm(s), NEW f \in Frame,
         f.op = Head(s).op \/ (Turning(f) /\ Turning(Head(s))) \/ ~Kept(f)
  PROVE  /\ Push(f, Tail(s)) \in Seq(Frame) /\ Push(f, Tail(s)) # << >>
         /\ StackForm(Push(f, Tail(s))) /\ FramesOf(Push(f, Tail(s))) = {f} \cup FramesOf(Tail(s))
  <1>1. /\ Head(s) \in Frame /\ Tail(s) \in Seq(Frame)
        /\ Fits(Head(s), FramesOf(Tail(s))) /\ StackForm(Tail(s))
    BY StackSplits
  <1>2. Fits(f, FramesOf(Tail(s)))
    BY <1>1 DEF Fits, Turning, Kept
  <1>3. Push(f, Tail(s)) \in Seq(Frame) /\ Push(f, Tail(s)) # << >>
    BY <1>1 DEF Push
  <1> QED BY <1>1, <1>2, <1>3, FormOfPush, FramesOfPush

\* Activations of s that recompute are activations of t that recompute the same.
Shows(s, t) == \A f \in FramesOf(s) : Recomputing(f) =>
                 \E g \in FramesOf(t) : Recomputing(g) /\ g.id = f.id

LEMMA RetopKin ==
  ASSUME NEW s \in Seq(Frame), s # << >>, NEW f \in Frame, Alike(Head(s), f), StackForm(s)
  PROVE  /\ Push(f, Tail(s)) \in Seq(Frame) /\ Push(f, Tail(s)) # << >>
         /\ StackForm(Push(f, Tail(s)))
         /\ Kin(s, Push(f, Tail(s))) /\ Kin(Push(f, Tail(s)), s) /\ Shows(s, Push(f, Tail(s)))
  <1>1. f.op = Head(s).op /\ f.id = Head(s).id
    BY DEF Alike
  <1>2. /\ Push(f, Tail(s)) \in Seq(Frame) /\ Push(f, Tail(s)) # << >>
        /\ StackForm(Push(f, Tail(s))) /\ FramesOf(Push(f, Tail(s))) = {f} \cup FramesOf(Tail(s))
    BY <1>1, RetopForm
  <1>3. FramesOf(s) = {Head(s)} \cup FramesOf(Tail(s))
    BY StackSplits
  <1>4. \A g : Alike(g, g)
    BY DEF Alike
  <1>5. Alike(f, Head(s))
    BY DEF Alike
  <1>6. Kin(s, Push(f, Tail(s))) /\ Kin(Push(f, Tail(s)), s)
    BY <1>2, <1>3, <1>4, <1>5 DEF Kin
  <1>7. Shows(s, Push(f, Tail(s)))
    BY <1>1, <1>2, <1>3 DEF Shows, Recomputing
  <1> QED BY <1>2, <1>6, <1>7

LEMMA KinSame ==
  ASSUME NEW s
  PROVE  Kin(s, s) /\ Shows(s, s)
  <1>1. \A g : Alike(g, g)
    BY DEF Alike
  <1> QED BY <1>1 DEF Kin, Shows

LEMMA DeliverForm ==
  ASSUME NEW s \in Seq(Frame), s # << >>, StackForm(s), NEW b \in BOOLEAN, NEW t, t = Deliver(s, b)
  PROVE  /\ t \in Seq(Frame) /\ t # << >> /\ StackForm(t)
         /\ Kin(s, t) /\ Kin(t, s) /\ Shows(s, t)
  <1>1. CASE Head(s).op \notin {"refresh", "should"}
    BY <1>1, KinSame DEF Deliver
  <1>2. CASE Head(s).op \in {"refresh", "should"}
    <2>1. Head(s) \in Frame
      BY StackSplits
    <2>2. PICK f : f = [Head(s) EXCEPT !.chg = @ \/ b]
      OBVIOUS
    <2>3. f \in Frame /\ Alike(Head(s), f)
      BY <2>1, <2>2 DEF Frame, Alike
    <2>4. t = Push(f, Tail(s))
      BY <1>2, <2>2 DEF Deliver
    <2> QED BY <2>3, <2>4, RetopKin
  <1> QED BY <1>1, <1>2

LEMMA PushPlain ==
  ASSUME NEW s \in Seq(Frame), StackForm(s), NEW f \in Frame, ~Kept(f)
  PROVE  /\ Push(f, s) \in Seq(Frame) /\ Push(f, s) # << >> /\ StackForm(Push(f, s))
         /\ FramesOf(Push(f, s)) = {f} \cup FramesOf(s)
         /\ Kin(s, Push(f, s)) /\ Kin(Push(f, s), s) /\ Shows(s, Push(f, s))
  <1>1. Fits(f, FramesOf(s))
    BY DEF Fits, Kept, Turning
  <1>2. FramesOf(Push(f, s)) = {f} \cup FramesOf(s)
    BY FramesOfPush
  <1>3. Push(f, s) \in Seq(Frame) /\ Push(f, s) # << >>
    BY DEF Push
  <1>4. \A g : Alike(g, g)
    BY DEF Alike
  <1>5. Kin(s, Push(f, s)) /\ Kin(Push(f, s), s) /\ Shows(s, Push(f, s))
    BY <1>2, <1>4 DEF Kin, Shows
  <1> QED BY <1>1, <1>2, <1>3, <1>5, FormOfPush

\* What the caller goes on with.
LEMMA ResumeIs ==
  ASSUME stack \in Seq(Frame), InClosure, NEW r \in Results
  PROVE  \E f \in Frame : /\ Resume(r) = Push(f, Rest)
                          /\ f.op = Top.op /\ f.id = Top.id /\ f.gen = Top.gen /\ f.code = Top.code
                          /\ f.log = Append(Top.log, r) /\ f.pulled = FALSE
  <1>1. stack # << >> /\ Len(Top.log) < MaxLog
    BY DEF InClosure
  <1>2. Top \in Frame
    BY <1>1, StackSplits DEF Top
  <1>3. Append(Top.log, r) \in Logs
    BY <1>1, <1>2, LogGrows DEF Frame
  <1>4. PICK f : f = [Top EXCEPT !.log = Append(@, r), !.pulled = FALSE]
    OBVIOUS
  <1>5. f \in Frame /\ f.op = Top.op /\ f.id = Top.id /\ f.gen = Top.gen /\ f.code = Top.code
        /\ f.log = Append(Top.log, r) /\ f.pulled = FALSE
    BY <1>2, <1>3, <1>4 DEF Frame
  <1>6. Resume(r) = Push(f, Rest)
    BY <1>4 DEF Resume
  <1> QED BY <1>5, <1>6

LEMMA FlushForm ==
  ASSUME NEW s \in Seq(Frame), StackForm(s), flushing <=> Flushes(s), flushing \in BOOLEAN,
         NEW b \in BOOLEAN, FlushOn(s, b)
  PROVE  /\ stack' \in Seq(Frame) /\ StackForm(stack)' /\ (flushing <=> Flushes(stack))' /\ flushing'
         /\ FramesOf(s) \subseteq FramesOf(stack')
         /\ \A f \in FramesOf(stack') : f \in FramesOf(s) \/ f.op = "flush"
  <1>1. CASE flushing
    BY <1>1 DEF FlushOn
  <1>2. CASE ~flushing
    <2>1. PICK f : f = [Host EXCEPT !.op = "flush", !.chg = b]
      OBVIOUS
    <2>2. f \in Frame /\ f.op = "flush"
      BY <2>1, HostSound DEF Frame, Host
    <2>3. stack' = Push(f, s) /\ flushing'
      BY <1>2, <2>1 DEF FlushOn
    <2>4. Fits(f, FramesOf(s))
      BY <1>2, <2>2 DEF Fits, Turning, Flushes
    <2>5. Push(f, s) \in Seq(Frame)
      BY <2>2 DEF Push
    <2>6. StackForm(Push(f, s)) /\ FramesOf(Push(f, s)) = {f} \cup FramesOf(s)
      BY <2>2, <2>4, FormOfPush, FramesOfPush
    <2>7. Flushes(Push(f, s))
      BY <2>2, <2>6 DEF Flushes
    <2> QED BY <2>2, <2>3, <2>5, <2>6, <2>7
  <1> QED BY <1>1, <1>2

LEMMA HostFrames == FramesOf(<<Host>>) = {Host} /\ Host.op = "host" /\ ~Kept(Host) /\ ~Recomputing(Host)
  <1>1. Len(<<Host>>) = 1 /\ <<Host>>[1] = Host
    OBVIOUS
  <1>2. FramesOf(<<Host>>) = {<<Host>>[p] : p \in 1..1}
    BY <1>1 DEF FramesOf
  <1>3. 1..1 = {1}
    OBVIOUS
  <1>4. FramesOf(<<Host>>) = {Host}
    BY <1>1, <1>2, <1>3
  <1>5. Host.op = "host"
    BY DEF Host
  <1> QED BY <1>4, <1>5 DEF Kept, Recomputing

(* What the closures of effects do *)

LEMMA CodesOfEffects ==
  ASSUME GraphInv, NodesLive, PullersLive, NEW e \in Ids, IsEffect(e)
  PROVE  \/ code[e] \in Items /\ Plan[code[e]].kind = "effect"
         \/ \E k \in Items : code[e] = Puller(k) /\ Plan[k].kind = "slot"
  <1>1. kind[e] = "effect"
    BY DEF IsEffect
  <1> QED BY <1>1 DEF NodesLive, PullersLive

\* The closures of effects get values, set cells, make nodes and return.
EffectCode(c) ==
  \A log \in Logs : /\ Code(c, log).do \in {"get", "set", "make", "return"}
                    /\ Code(c, log).do = "get" => /\ Code(c, log).of \in Items
                                                  /\ Plan[Code(c, log).of].kind # "effect"

LEMMA EffectsGet ==
  ASSUME Undisturbed, GraphInv, NodesLive, PullersLive, NEW e \in Ids, IsEffect(e)
  PROVE  EffectCode(code[e]) /\ code[e] \in Codes
  <1>1. CASE code[e] \in Items /\ Plan[code[e]].kind = "effect"
    <2>1. \A log \in Logs : Code(code[e], log) = Body(code[e], log)
      BY <1>1 DEF Code
    <2>2. \A log \in Logs : /\ Body(code[e], log).do \in {"get", "set", "make", "return"}
                            /\ Body(code[e], log).do = "get" => Plan[Body(code[e], log).of].kind # "effect"
      BY <1>1 DEF Undisturbed
    <2>3. \A log \in Logs : Body(code[e], log).do = "get" => Body(code[e], log).of \in Items
      BY <1>1, OpsTyped
    <2> QED BY <1>1, <2>1, <2>2, <2>3, PlanTyped DEF EffectCode
  <1>2. CASE \E k \in Items : code[e] = Puller(k) /\ Plan[k].kind = "slot"
    <2>1. PICK k \in Items : code[e] = Puller(k) /\ Plan[k].kind = "slot"
      BY <1>2
    <2>2. Puller(k) \notin Items /\ Puller(k) \in Codes
      BY PlanTyped
    <2>3. Puller(k) - Len(Plan) = k
      BY PlanTyped DEF Puller, Items
    <2>4. \A log \in Logs : Code(code[e], log) = IF log = << >> THEN [do |-> "get", of |-> k]
                                                 ELSE [do |-> "return", to |-> log[1]]
      BY <2>1, <2>2, <2>3 DEF Code
    <2> QED BY <2>1, <2>2, <2>4 DEF EffectCode
  <1> QED BY <1>1, <1>2, CodesOfEffects

-----------------------------------------------------------------------------
(* What a step that leaves an effect alone leaves of what is said of it *)

\* A step leaves what effect e knows of node m.
ReadKept(e, m) ==
  \/ m \in batched'.cells
  \/ m \notin batched.cells /\ (val[m] # None => val'[m] = val[m])

EffectStays(e) ==
  /\ kind'[e] = kind[e] /\ code'[e] = code[e] /\ gen'[e] = gen[e]
  /\ \A m \in Ids : e \in dpts'[m] <=> e \in dpts[m]
  /\ \A m \in Ids : e \in dpts[m] => kind'[m] = kind[m]
  /\ force[e] => force'[e]
  /\ force'[e] \/ \A m \in Ids : e \in dpts[m] => ReadKept(e, m)
  /\ e \in scheduled => e \in scheduled'
  /\ force'[e] => force[e] \/ e \in scheduled'

FreshStays(e) ==
  \A m \in Ids : IsSlot(m) /\ e \in dpts[m] => /\ Clean(m) => Clean(m)'
                                               /\ Fresh(m) => Fresh(m)'

LEMMA LogStays ==
  ASSUME GraphInv, HandlesKept, NEW e \in Ids, NEW c, EffectCode(c), NEW log \in Logs,
         LogHolds(e, c, log, batched.cells),
         \A m \in Ids : e \in dpts[m] => e \in dpts'[m] /\ ReadKept(e, m)
  PROVE  LogHolds(e, c, log, batched.cells)'
  <1> SUFFICES ASSUME NEW n \in 1..Len(log) PROVE EntryHolds(e, c, log, n, batched.cells)'
    BY DEF LogHolds
  <1>1. EntryHolds(e, c, log, n, batched.cells)
    BY DEF LogHolds
  <1>2. PICK op : op = EntryOp(c, log, n)
    OBVIOUS
  <1>3. EntryOp(c, log, n)' = op
    BY <1>2 DEF EntryOp
  <1>4. CASE op.do # "get"
    BY <1>1, <1>2, <1>3, <1>4 DEF EntryHolds
  <1>5. CASE op.do = "get"
    <2>1. op.of \in Items /\ Plan[op.of].kind # "effect"
      <3>1. SubSeq(log, 1, n - 1) \in Logs
        BY LogPrefix
      <3> QED BY <3>1, <1>2, <1>5 DEF EffectCode, EntryOp
    <2>2. PICK d : d = made[op.of].id
      OBVIOUS
    <2>3. /\ made[op.of] # None /\ log[n] # None /\ e \in dpts[d]
          /\ log[n] = val[d] \/ d \in batched.cells
      BY <1>1, <1>2, <1>5, <2>2 DEF EntryHolds, EntryOf
    <2>4. d \in Ids
      BY <2>1, <2>2, <2>3, MadeTyped DEF GraphInv
    <2>5. made'[op.of] = made[op.of]
      BY <2>1, <2>3 DEF HandlesKept
    <2>6. e \in dpts'[d] /\ ReadKept(e, d)
      BY <2>3, <2>4
    <2>7. log[n] = val'[d] \/ d \in batched'.cells
      BY <2>3, <2>6 DEF ReadKept
    <2>8. made'[op.of] # None /\ made'[op.of].id = d
      BY <2>2, <2>3, <2>5
    <2> QED BY <1>3, <1>5, <2>3, <2>6, <2>7, <2>8 DEF EntryHolds, EntryOf
  <1> QED BY <1>4, <1>5

\* An effect whose turns go on is as sound after the step.
LEMMA EffectGoesOn ==
  ASSUME GraphInv, HandlesKept, NEW e \in Ids, IsEffect(e), EffectCode(code[e]), EffectSound(e),
         EffectStays(e), seen'[code[e]] = seen[code[e]],
         CheckOn(stack, e) <=> CheckOn(stack, e)', RunOn(stack, e) <=> RunOn(stack, e)',
         \A m \in Ids : IsSlot(m) /\ e \in dpts[m] /\ Clean(m) => Clean(m)' \/ e \in scheduled'
  PROVE  EffectSound(e)'
  <1>1. (~force[e] /\ ~RunOn(stack, e) => SeenHolds(e))'
    <2> SUFFICES ASSUME ~force'[e], ~RunOn(stack, e)' PROVE SeenHolds(e)'
      OBVIOUS
    <2>1. ~force[e] /\ ~RunOn(stack, e) /\ code'[e] = code[e]
      BY DEF EffectStays
    <2>2. SeenHolds(e)
      BY <2>1 DEF EffectSound
    <2>3. \A m \in Ids : e \in dpts[m] => e \in dpts'[m] /\ ReadKept(e, m)
      BY DEF EffectStays
    <2>4. PICK c, log : c = code[e] /\ log = seen[code[e]]
      OBVIOUS
    <2>5. log \in Logs /\ LogHolds(e, c, log, batched.cells) /\ Code(c, log).do = "return"
      BY <2>2, <2>4 DEF SeenHolds
    <2>6. LogHolds(e, c, log, batched.cells)'
      BY <2>3, <2>4, <2>5, LogStays
    <2>7. code'[e] = c /\ seen'[c] = log
      BY <2>1, <2>4
    <2> QED BY <2>5, <2>6, <2>7 DEF SeenHolds
  <1>2. (force[e] => e \in scheduled \/ CheckOn(stack, e))'
    BY DEF EffectStays, EffectSound
  <1>3. ASSUME NEW m \in Ids, IsSlot(m)', e \in dpts'[m] PROVE Clean(m)' \/ Owed(e)'
    <2>1. e \in dpts[m] /\ IsSlot(m)
      BY <1>3 DEF EffectStays, IsSlot
    <2>2. Clean(m) \/ Owed(e)
      BY <2>1 DEF EffectSound
    <2>3. Owed(e) => Owed(e)'
      BY DEF Owed, EffectStays
    <2>4. e \in scheduled' => Owed(e)'
      BY DEF Owed
    <2> QED BY <2>1, <2>2, <2>3, <2>4
  <1> QED BY <1>1, <1>2, <1>3 DEF EffectSound

LEMMA TurnStays ==
  ASSUME GraphInv, HandlesLive, HandlesKept, NEW f \in Frame, NEW g, Alike(f, g), TurnHolds(f),
         Turning(f) => EffectCode(f.code) /\ EffectStays(f.id) /\ FreshStays(f.id)
  PROVE  TurnHolds(g)'
  <1> SUFFICES ASSUME Turning(g) PROVE TurnHolds(g)'
    BY DEF TurnHolds
  <1>1. /\ g.op = f.op /\ g.id = f.id /\ g.gen = f.gen /\ g.code = f.code
        /\ g.log = f.log /\ g.todo = f.todo /\ g.pulled = f.pulled /\ g.due = f.due
    BY DEF Alike
  <1>2. Turning(f) /\ f.id \in Ids /\ f.log \in Logs
    BY <1>1 DEF Turning, Frame
  <1>3. IsEffect(f.id) /\ gen[f.id] = f.gen /\ code[f.id] = f.code
    BY <1>2 DEF TurnHolds
  <1>4. (IsEffect(g.id) /\ gen[g.id] = g.gen /\ code[g.id] = g.code)'
    BY <1>1, <1>2, <1>3 DEF EffectStays, IsEffect
  <1>5. \A m \in Ids : IsSlot(m)' /\ f.id \in dpts'[m] => IsSlot(m) /\ f.id \in dpts[m]
    BY <1>2 DEF EffectStays, IsSlot
  <1>6. \A m \in Ids : IsSlot(m)' /\ f.id \in dpts'[m] /\ Fresh(m) => Fresh(m)'
    BY <1>2, <1>5 DEF FreshStays
  <1>7. ASSUME g.op = "should" PROVE ShouldHolds(g)'
    <2>1. ShouldHolds(f)
      BY <1>1, <1>2, <1>7 DEF TurnHolds
    <2> QED BY <2>1, <1>1, <1>2, <1>5, <1>6 DEF ShouldHolds, EffectStays
  <1>8. ASSUME g.op = "effect" PROVE RunHolds(g)'
    <2>1. RunHolds(f)
      BY <1>1, <1>2, <1>8 DEF TurnHolds
    <2>2. (g.id \notin scheduled => \A m \in Ids : IsSlot(m) /\ g.id \in dpts[m] => Fresh(m))'
      BY <2>1, <1>1, <1>2, <1>5, <1>6 DEF RunHolds, EffectStays
    <2>3. ASSUME ~force'[f.id] PROVE LogHolds(f.id, f.code, f.log, batched.cells)'
      <3>1. LogHolds(f.id, f.code, f.log, batched.cells)
        BY <2>1, <2>3, <1>2 DEF RunHolds, EffectStays
      <3>2. \A m \in Ids : f.id \in dpts[m] => f.id \in dpts'[m] /\ ReadKept(f.id, m)
        BY <2>3, <1>2 DEF EffectStays
      <3> QED BY <3>1, <3>2, <1>2, LogStays
    <2>4. ASSUME f.pulled PROVE PulledHolds(f)'
      <3>1. PulledHolds(f)
        BY <2>1, <2>4 DEF RunHolds
      <3>2. PICK op : op = Code(f.code, f.log)
        OBVIOUS
      <3>3. PICK d : d = made[op.of].id
        OBVIOUS
      <3>4. /\ op.do = "get" /\ op.of \in Items /\ Plan[op.of].kind = "slot" /\ made[op.of] # None
            /\ f.id \in dpts[d] /\ Fresh(d)
        BY <3>1, <3>2, <3>3 DEF PulledHolds
      <3>5. made'[op.of] = made[op.of] /\ d \in Ids
        BY <3>3, <3>4, MadeTyped DEF HandlesKept, GraphInv
      <3>6. IsSlot(d)
        BY <3>3, <3>4 DEF HandlesLive, IsSlot
      <3>7. f.id \in dpts'[d] /\ Fresh(d)'
        BY <3>4, <3>5, <3>6, <1>2 DEF EffectStays, FreshStays
      <3>8. made'[op.of] # None /\ made'[op.of].id = d
        BY <3>3, <3>4, <3>5
      <3> QED BY <3>2, <3>4, <3>7, <3>8 DEF PulledHolds
    <2>5. PulledHolds(f)' => PulledHolds(g)'
      BY <1>1 DEF PulledHolds
    <2>6. LogHolds(f.id, f.code, f.log, batched.cells)' => LogHolds(g.id, g.code, g.log, batched.cells)'
      BY <1>1
    <2> QED BY <2>2, <2>3, <2>4, <2>5, <2>6, <1>1 DEF RunHolds
  <1> QED BY <1>4, <1>7, <1>8 DEF TurnHolds

LEMMA WaitStays ==
  ASSUME NEW f, NEW g, Alike(f, g), WaitHolds(f), UNCHANGED <<kind, code, eager, made>>, nmade <= nmade',
         nmade \in Nat, nmade' \in Nat
  PROVE  WaitHolds(g)'
  <1>1. g.op = f.op /\ g.id = f.id /\ g.code = f.code
    BY DEF Alike
  <1>2. ASSUME f.op = "made"
        PROVE  (/\ f.code \in Items /\ Plan[f.code].kind = "effect" /\ f.code <= nmade
                /\ IsEffect(f.id) /\ code[f.id] = f.code)'
    <2>1. /\ f.code \in Items /\ Plan[f.code].kind = "effect" /\ f.code <= nmade
          /\ IsEffect(f.id) /\ code[f.id] = f.code
      BY <1>2 DEF WaitHolds
    <2>2. f.code \in Nat
      BY <2>1, PlanTyped DEF Items
    <2>3. f.code <= nmade'
      BY <2>1, <2>2
    <2> QED BY <2>1, <2>3 DEF IsEffect
  <1>3. ASSUME f.op = "attach"
        PROVE  (/\ f.code \in Items /\ Plan[f.code].kind = "slot" /\ made[f.code] # None
                /\ IsEffect(f.id) /\ code[f.id] = Puller(f.code) /\ ~eager[made[f.code].id])'
    BY <1>3 DEF WaitHolds, IsEffect
  <1> QED BY <1>1, <1>2, <1>3 DEF WaitHolds

\* What waits to attach goes on waiting.
AttachStays == \A f \in FramesOf(stack) : f.op = "attach" => \E g \in FramesOf(stack') : Alike(g, f)

LEMMA PullsStay ==
  ASSUME AttachStays, UNCHANGED <<code, eagerBy>>
  PROVE  \A p, k : Pulls(p, k) => Pulls(p, k)'
  <1> SUFFICES ASSUME NEW p, NEW k, Pulls(p, k) PROVE Pulls(p, k)'
    OBVIOUS
  <1>1. CASE \E i \in Ids : eagerBy[i] # None /\ eagerBy[i].id = p /\ code[i] = k
    BY <1>1 DEF Pulls
  <1>2. CASE Attaching(stack, p, k)
    <2>1. PICK f \in FramesOf(stack) : f.op = "attach" /\ f.id = p /\ f.code = k
      BY <1>2 DEF Attaching
    <2>2. PICK g \in FramesOf(stack') : Alike(g, f)
      BY <2>1 DEF AttachStays
    <2>3. Attaching(stack', p, k)
      BY <2>1, <2>2 DEF Attaching, Alike
    <2> QED BY <2>3 DEF Pulls, Attaching
  <1> QED BY <1>1, <1>2 DEF Pulls

\* A step that makes nothing leaves the nodes, the handles and the pullers.
LEMMA ProgramStays ==
  ASSUME ProgramLive, UNCHANGED <<kind, code, gen, made, nmade, eager, eagerBy>>, AttachStays
  PROVE  ProgramLive'
  <1>1. HandlesLive'
    BY DEF ProgramLive, HandlesLive
  <1>2. NodesLive'
    BY DEF ProgramLive, NodesLive, IsEffect
  <1>3. \A p, k : Pulls(p, k) => Pulls(p, k)'
    BY PullsStay
  <1>4. PullersLive'
    BY <1>3 DEF ProgramLive, PullersLive, IsEffect, IsSlot
  <1> QED BY <1>1, <1>2, <1>4 DEF ProgramLive

\* Nothing that matters to effects happens: what their dependents hold stays, or
\* forces them, and what is fresh stays fresh.
Calmly ==
  /\ UNCHANGED <<kind, code, gen, made, nmade, eager, eagerBy, seen>>
  /\ \A e \in Ids : IsEffect(e) =>
       /\ EffectStays(e) /\ FreshStays(e)

LEMMA KinTurns ==
  ASSUME Kin(stack, stack'), Kin(stack', stack), NEW e
  PROVE  /\ CheckOn(stack, e) <=> CheckOn(stack, e)'
         /\ RunOn(stack, e) <=> RunOn(stack, e)'
  BY DEF Kin, Kept, CheckOn, RunOn, Turn, Alike

LEMMA CalmKeeps ==
  ASSUME Undisturbed, GraphInv, GraphInv', ReactParts, Calmly, StackKept',
         Kin(stack, stack'), Kin(stack', stack)
  PROVE  ReactParts'
  <1>1. ProgramLive' /\ ProgramLive /\ HandlesLive /\ NodesLive /\ PullersLive
    <2>1. AttachStays
      BY DEF AttachStays, Kin, Kept
    <2> QED BY <2>1, ProgramStays DEF ReactParts, ProgramLive, Calmly
  <1>2. HandlesKept
    BY DEF Calmly, HandlesKept
  <1>3. \A e \in Ids : IsEffect(e) => EffectCode(code[e]) /\ EffectStays(e) /\ FreshStays(e)
    BY <1>1, EffectsGet DEF Calmly
  <1>4. ASSUME NEW e \in Ids, IsEffect(e)' PROVE EffectSound(e)'
    <2>1. IsEffect(e) /\ EffectSound(e) /\ seen'[code[e]] = seen[code[e]]
      BY <1>4 DEF Calmly, IsEffect, ReactParts, EffectsSound
    <2>2. \A m \in Ids : IsSlot(m) /\ e \in dpts[m] /\ Clean(m) => Clean(m)' \/ e \in scheduled'
      BY <2>1, <1>3 DEF FreshStays
    <2> QED BY <2>1, <2>2, <1>2, <1>3, KinTurns, EffectGoesOn
  <1>5. ASSUME NEW g \in FramesOf(stack)' PROVE TurnHolds(g)' /\ WaitHolds(g)'
    <2>1. CASE ~Kept(g)
      BY <2>1 DEF Kept, TurnHolds, Turning, WaitHolds
    <2>2. CASE Kept(g)
      <3>1. PICK f \in FramesOf(stack) : Alike(f, g)
        BY <2>2 DEF Kin, FramesOf
      <3>2. TurnHolds(f) /\ WaitHolds(f)
        BY DEF ReactParts, TurnsHold
      <3>3. f \in Frame
        <4>1. stack \in Seq(Frame)
          BY DEF GraphInv, StackSound
        <4>2. PICK p \in 1..Len(stack) : f = stack[p]
          BY DEF FramesOf
        <4> QED BY <4>1, <4>2, ElementOfSeq
      <3>4. Turning(f) => EffectCode(f.code) /\ EffectStays(f.id) /\ FreshStays(f.id)
        <4> SUFFICES ASSUME Turning(f) PROVE EffectCode(f.code) /\ EffectStays(f.id) /\ FreshStays(f.id)
          OBVIOUS
        <4>1. f.id \in Ids
          BY <3>3 DEF Frame
        <4> QED BY <3>2, <4>1, <1>3 DEF TurnHolds
      <3>5. TurnHolds(g)'
        BY <3>1, <3>2, <3>3, <3>4, <1>1, <1>2, TurnStays
      <3>6. nmade \in Nat /\ nmade' = nmade /\ UNCHANGED <<kind, code, eager, made>>
        BY DEF Calmly, GraphInv, RestTyped
      <3>7. WaitHolds(g)'
        BY <3>1, <3>2, <3>6, WaitStays
      <3> QED BY <3>5, <3>7
    <2> QED BY <2>1, <2>2
  <1> QED BY <1>1, <1>4, <1>5 DEF ReactParts, EffectsSound, TurnsHold

-----------------------------------------------------------------------------
(* Steps of the engine that effects do not notice *)

LEMMA StackGoesOn ==
  ASSUME StackKept, Kin(stack, stack'), Kin(stack', stack), StackForm(stack)', UNCHANGED flushing,
         BusyShown(stack)', (batchDepth = 0 /\ ~flushing => scheduled = {})'
  PROVE  StackKept'
  <1>1. Flushes(stack) <=> Flushes(stack)'
    BY DEF Flushes, Kin, Kept, Alike
  <1> QED BY <1>1 DEF StackKept

LEMMA CalmWhen ==
  ASSUME UNCHANGED <<arena, val, force, eagers, scheduled, batched, handles, seen>>,
         \A e \in Ids : IsEffect(e) => \A m \in Ids : e \in dpts'[m] <=> e \in dpts[m],
         \A m \in Ids : IsSlot(m) => /\ Clean(m) => Clean(m)'
                                     /\ Fresh(m) => Fresh(m)'
  PROVE  Calmly
  <1>1. \A e \in Ids : IsEffect(e) => EffectStays(e)
    BY DEF EffectStays, ReadKept, arena
  <1>2. \A e \in Ids : IsEffect(e) => FreshStays(e)
    BY DEF FreshStays
  <1> QED BY <1>1, <1>2 DEF Calmly, arena, eagers, handles

LEMMA BusyMoves ==
  ASSUME NEW s, NEW t, BusyShown(s), Shows(s, t)
  PROVE  BusyShown(t)
  BY DEF BusyShown, Shows

\* What enter_refresh leaves.
LEMMA EnterForm ==
  ASSUME ArenaKept, EdgesKept, busy \in [Ids -> BOOLEAN], NEW i \in Ids, NEW s \in Seq(Frame), StackForm(s),
         BusyShown(s), EnterRefresh(i, s), stack' # << >>
  PROVE  /\ StackForm(stack)' /\ BusyShown(stack)'
         /\ Kin(s, stack') /\ Kin(stack', s)
         /\ busy'[i] /\ \A m \in Ids : busy[m] => busy'[m]
         /\ \E f \in Frame : f.op = "refresh" /\ FramesOf(stack') = {f} \cup FramesOf(s)
  <1>1. ~busy[i] /\ busy' = [busy EXCEPT ![i] = TRUE]
    BY DEF EnterRefresh
  <1>2. PICK f : f = [Activation("refresh", i) EXCEPT !.todo = deps[i]]
    OBVIOUS
  <1>3. stack' = Push(f, s)
    BY <1>1, <1>2 DEF EnterRefresh
  <1>4. f \in Frame /\ f.op = "refresh" /\ f.id = i
    <2>1. Activation("refresh", i) \in Frame /\ Activation("refresh", i).op = "refresh" /\ Activation("refresh", i).id = i
      BY ActivationSound
    <2> QED BY <2>1, <1>2 DEF Frame, EdgesKept
  <1>5. ~Kept(f) /\ Recomputing(f)
    BY <1>4 DEF Kept, Recomputing
  <1>6. /\ StackForm(Push(f, s)) /\ FramesOf(Push(f, s)) = {f} \cup FramesOf(s)
        /\ Kin(s, Push(f, s)) /\ Kin(Push(f, s), s) /\ Shows(s, Push(f, s))
    BY <1>4, <1>5, PushPlain
  <1>7. BusyShown(stack)'
    <2> SUFFICES ASSUME NEW m \in Ids, busy'[m] PROVE \E g \in FramesOf(stack') : Recomputing(g) /\ g.id = m
      BY DEF BusyShown
    <2>1. CASE m = i
      BY <2>1, <1>3, <1>4, <1>5, <1>6
    <2>2. CASE m # i
      BY <2>2, <1>1, <1>3, <1>6 DEF BusyShown
    <2> QED BY <2>1, <2>2
  <1>8. busy'[i] /\ \A m \in Ids : busy[m] => busy'[m]
    BY <1>1
  <1> QED BY <1>3, <1>4, <1>6, <1>7, <1>8

LEMMA StackHas ==
  ASSUME GraphInv
  PROVE  stack \in Seq(Frame) /\ \A f \in FramesOf(stack) : f \in Frame
  <1>1. stack \in Seq(Frame)
    BY DEF GraphInv, StackSound
  <1> QED BY <1>1, ElementOfSeq DEF FramesOf

LEMMA HostGetReacts ==
  ASSUME Undisturbed, GraphInv, GraphInv', ReactParts, HostGet, stack' # << >>
  PROVE  ReactParts'
  <1>1. PICK k \in Items : made[k] # None /\ EnterRefresh(made[k].id, stack)
    BY DEF HostGet
  <1>2. made[k].id \in Ids
    BY <1>1, MadeTyped DEF GraphInv
  <1>3. /\ StackForm(stack)' /\ BusyShown(stack)' /\ Kin(stack, stack') /\ Kin(stack', stack)
        /\ \A m \in Ids : busy[m] => busy'[m]
    <2>1. ArenaKept /\ EdgesKept /\ busy \in [Ids -> BOOLEAN] /\ StackForm(stack) /\ BusyShown(stack)
      BY DEF GraphInv, FlagsTyped, ReactParts, StackKept
    <2>2. stack \in Seq(Frame)
      BY StackHas
    <2> QED BY <2>1, <2>2, <1>1, <1>2, EnterForm
  <1>4. Calmly
    <2>1. UNCHANGED <<arena, val, dirty, force, eagers, scheduled, batched, handles, seen, dpts>>
      BY DEF HostGet, edges, sched, batches
    <2>2. \A m \in Ids : (Clean(m) => Clean(m)') /\ (Fresh(m) => Fresh(m)')
      BY <2>1, <1>3 DEF Clean, Fresh, IsSlot, arena
    <2> QED BY <2>1, <2>2, CalmWhen
  <1>5. StackKept'
    <2>1. StackKept /\ UNCHANGED <<flushing, batchDepth, scheduled>>
      BY DEF ReactParts, HostGet, sched, batches
    <2>2. (batchDepth = 0 /\ ~flushing => scheduled = {})'
      BY <2>1 DEF StackKept
    <2> QED BY <2>1, <2>2, <1>3, StackGoesOn
  <1> QED BY <1>3, <1>4, <1>5, CalmKeeps

LEMMA BatchBeginReacts ==
  ASSUME Undisturbed, GraphInv, GraphInv', ReactParts, BatchBegin
  PROVE  ReactParts'
  <1>1. /\ UNCHANGED <<arena, val, dirty, force, busy, eagers, dpts, scheduled, flushing, batched, stack, handles, seen>>
        /\ batchDepth' = batchDepth + 1
    BY DEF BatchBegin, flags, edges, sched
  <1>2. Calmly
    <2>1. \A m \in Ids : (Clean(m) => Clean(m)') /\ (Fresh(m) => Fresh(m)')
      BY <1>1 DEF Clean, Fresh, IsSlot, arena
    <2> QED BY <2>1, <1>1, CalmWhen
  <1>3. Kin(stack, stack') /\ Kin(stack', stack)
    BY <1>1, KinSame
  <1>4. StackKept'
    <2>1. batchDepth' # 0
      BY <1>1 DEF GraphInv, RestTyped
    <2>2. BusyShown(stack)' /\ StackForm(stack)' /\ (flushing <=> Flushes(stack))'
      BY <1>1 DEF ReactParts, StackKept, BusyShown, StackForm, Flushes
    <2> QED BY <2>1, <2>2 DEF StackKept
  <1> QED BY <1>2, <1>3, <1>4, CalmKeeps

LEMMA KinThrough ==
  ASSUME NEW s, NEW t, NEW u, Kin(s, t), Kin(t, u)
  PROVE  Kin(s, u)
  <1> SUFFICES ASSUME NEW g \in FramesOf(u), Kept(g) PROVE \E f \in FramesOf(s) : Alike(f, g)
    BY DEF Kin
  <1>1. PICK h \in FramesOf(t) : Alike(h, g)
    BY DEF Kin
  <1>2. Kept(h)
    BY <1>1 DEF Kept, Alike
  <1>3. PICK f \in FramesOf(s) : Alike(f, h)
    BY <1>2 DEF Kin
  <1>4. Alike(f, g)
    BY <1>1, <1>3 DEF Alike
  <1> QED BY <1>4

\* A refresh or a recomputation returns to what asked for it.
LEMMA PopForm ==
  ASSUME GraphInv, StackForm(stack), stack # << >>, Recomputing(Top), NEW b \in BOOLEAN, stack' = Deliver(Rest, b),
         BusyShown(stack), ~busy'[Top.id], \A m \in Ids : busy'[m] => busy[m]
  PROVE  /\ StackForm(stack)' /\ Kin(stack, stack') /\ Kin(stack', stack) /\ BusyShown(stack)'
         /\ stack' # << >>
  <1>1. /\ stack \in Seq(Frame) /\ Rest \in Seq(Frame) /\ StackForm(Rest)
        /\ FramesOf(stack) = {Top} \cup FramesOf(Rest)
    BY StackHas, StackSplits DEF Top, Rest
  <1>2. Rest # << >>
    <2>1. Top.op # "host" /\ StackSound(stack, gen, kind)
      BY DEF Recomputing, GraphInv
    <2> QED BY <2>1, TopSound DEF Top, Rest
  <1>3. PICK t : t = Deliver(Rest, b)
    OBVIOUS
  <1>4. t # << >> /\ StackForm(t) /\ Kin(Rest, t) /\ Kin(t, Rest) /\ Shows(Rest, t)
    BY <1>1, <1>2, <1>3, DeliverForm
  <1>5. Kin(stack, Rest) /\ Kin(Rest, stack)
    <2>1. ~Kept(Top)
      BY DEF Recomputing, Kept
    <2>2. \A g : Alike(g, g)
      BY DEF Alike
    <2> QED BY <1>1, <2>1, <2>2 DEF Kin
  <1>6. Kin(stack, t) /\ Kin(t, stack)
    BY <1>4, <1>5, KinThrough
  <1>7. BusyShown(stack)'
    <2> SUFFICES ASSUME NEW m \in Ids, busy'[m] PROVE \E g \in FramesOf(t) : Recomputing(g) /\ g.id = m
      BY <1>3 DEF BusyShown
    <2>1. PICK f \in FramesOf(stack) : Recomputing(f) /\ f.id = m
      BY DEF BusyShown
    <2>2. f # Top
      BY <2>1
    <2> QED BY <1>1, <1>4, <2>1, <2>2 DEF Shows
  <1> QED BY <1>3, <1>4, <1>6, <1>7

LEMMA EndRefreshReacts ==
  ASSUME Undisturbed, GraphInv, GraphInv', CacheInv, ReactParts, EndRefresh
  PROVE  ReactParts'
  <1>0. stack \in Seq(Frame) /\ FramesHold(stack, {}) /\ FlagsTyped
    BY CacheInvParts
  <1>1. stack # << >> /\ Top.op = "refresh" /\ Recomputing(Top)
    BY DEF EndRefresh, Walking, Recomputing
  <1>2. Top \in Frame /\ FrameHolds(Top, {})
    BY <1>0, <1>1, FramesPop DEF Top
  <1>3. PICK i \in Ids : i = Top.id
    BY <1>2 DEF Frame
  <1>4. IsSlot(i) /\ ~Stale(i)
    BY <1>2, <1>3 DEF EndRefresh, FrameHolds
  <1>5. /\ dirty' = [dirty EXCEPT ![i] = FALSE] /\ busy' = [busy EXCEPT ![i] = FALSE]
        /\ stack' = Deliver(Rest, FALSE)
    <2>1. /\ dirty' = [dirty EXCEPT ![i] = dirty[i] /\ ~IsSlot(i)]
          /\ busy' = [busy EXCEPT ![i] = busy[i] /\ ~IsSlot(i)]
          /\ stack' = Deliver(Rest, FALSE)
      BY <1>3 DEF EndRefresh
    <2>2. (dirty[i] /\ ~IsSlot(i)) = FALSE /\ (busy[i] /\ ~IsSlot(i)) = FALSE
      BY <1>4
    <2> QED BY <2>1, <2>2
  <1>6. UNCHANGED <<arena, val, force, eagers, dpts, scheduled, flushing, batchDepth, batched, handles, seen>>
    BY DEF EndRefresh, edges, sched, batches
  <1>7. Clean(i)' /\ \A m \in Ids \ {i} : (Clean(m) <=> Clean(m)') /\ (busy[m] <=> busy'[m])
    BY <1>0, <1>4, <1>5, <1>6 DEF Clean, IsSlot, FlagsTyped, Stale, arena
  <1>8. Calmly
    <2>1. \A m \in Ids : (Clean(m) => Clean(m)') /\ (Fresh(m) => Fresh(m)')
      BY <1>7 DEF Fresh
    <2> QED BY <2>1, <1>6, CalmWhen
  <1>9. StackForm(stack)' /\ Kin(stack, stack') /\ Kin(stack', stack) /\ BusyShown(stack)'
    <2>1. ~busy'[Top.id] /\ \A m \in Ids : busy'[m] => busy[m]
      BY <1>0, <1>3, <1>5 DEF FlagsTyped
    <2>2. StackForm(stack) /\ BusyShown(stack)
      BY DEF ReactParts, StackKept
    <2> QED BY <2>1, <2>2, <1>1, <1>5, PopForm
  <1>10. StackKept'
    BY <1>6, <1>9, StackGoesOn DEF ReactParts, StackKept
  <1> QED BY <1>8, <1>9, <1>10, CalmKeeps

LEMMA StartComputeReacts ==
  ASSUME Undisturbed, GraphInv, GraphInv', CacheInv, ReactParts, StartCompute
  PROVE  ReactParts'
  <1>0. stack \in Seq(Frame) /\ FramesHold(stack, {}) /\ EdgesKept /\ ArenaKept
        /\ StackForm(stack) /\ BusyShown(stack) /\ StackKept
    BY CacheInvParts DEF ReactParts, StackKept
  <1>1. stack # << >> /\ Top.op = "refresh" /\ Recomputing(Top)
    BY DEF StartCompute, Walking, Recomputing
  <1>2. Top \in Frame /\ FrameHolds(Top, {})
    BY <1>0, <1>1, FramesPop DEF Top
  <1>3. PICK i \in Ids : i = Top.id
    BY <1>2 DEF Frame
  <1>4. IsSlot(i) /\ Detach(i) /\ stack' = Push(Activation("compute", i), Rest)
    BY <1>3 DEF StartCompute
  <1>5. UNCHANGED <<arena, val, dirty, force, busy, eagers, scheduled, flushing, batchDepth, batched, handles, seen>>
    BY DEF StartCompute, flags, sched, batches
  <1>6. Calmly
    <2>1. \A e \in Ids : IsEffect(e) => \A m \in Ids : e \in dpts'[m] <=> e \in dpts[m]
      BY <1>0, <1>4 DEF Detach, EdgesKept, IsEffect, IsSlot
    <2>2. \A m \in Ids : (Clean(m) => Clean(m)') /\ (Fresh(m) => Fresh(m)')
      BY <1>5 DEF Clean, Fresh, IsSlot, arena
    <2> QED BY <2>1, <2>2, <1>5, CalmWhen
  <1>7. PICK f \in Frame : f = Activation("compute", i) /\ f.op = "compute" /\ f.id = i
    BY <1>0, ActivationSound
  <1>8. ~Kept(f) /\ ~Kept(Top) /\ Recomputing(f)
    BY <1>1, <1>7 DEF Kept, Recomputing
  <1>9. PICK t : t = Push(f, Rest)
    OBVIOUS
  <1>10. StackForm(t) /\ FramesOf(t) = {f} \cup FramesOf(Rest) /\ FramesOf(stack) = {Top} \cup FramesOf(Rest)
    BY <1>0, <1>1, <1>8, <1>9, RetopForm, StackSplits DEF Top, Rest
  <1>11. \A g : Alike(g, g)
    BY DEF Alike
  <1>12. Kin(stack, t) /\ Kin(t, stack)
    BY <1>8, <1>10, <1>11 DEF Kin
  <1>13. Shows(stack, t)
    BY <1>3, <1>7, <1>8, <1>10 DEF Shows
  <1>14. stack' = t /\ busy' = busy
    BY <1>4, <1>5, <1>7, <1>9
  <1>15. StackForm(stack)' /\ BusyShown(stack)' /\ Kin(stack, stack') /\ Kin(stack', stack)
    <2>1. BusyShown(t)
      BY <1>0, <1>13, BusyMoves
    <2> QED BY <2>1, <1>10, <1>12, <1>14 DEF BusyShown
  <1>16. StackKept'
    BY <1>0, <1>5, <1>15, StackGoesOn DEF StackKept
  <1> QED BY <1>6, <1>15, <1>16, CalmKeeps

\* At rest no effect is owed a run, so effects read what is fresh.
LEMMA NoneOwed ==
  ASSUME GraphInv, ReactParts, ~flushing, scheduled = {}
  PROVE  /\ \A f \in FramesOf(stack) : ~Turning(f)
         /\ \A e \in Ids : ~Owed(e)
         /\ \A e \in Ids, m \in Ids : IsEffect(e) /\ IsSlot(m) /\ e \in dpts[m] => Clean(m)
  <1>1. StackForm(stack) /\ ~Flushes(stack) /\ EffectsSound /\ stack \in Seq(Frame)
    BY StackHas DEF ReactParts, StackKept
  <1>2. \A f \in FramesOf(stack) : ~Turning(f)
    BY <1>1, OneTurn
  <1>3. \A e \in Ids : ~Owed(e)
    BY <1>2 DEF Owed, CheckOn, RunOn, Turn, Turning
  <1>4. \A e \in Ids, m \in Ids : IsEffect(e) /\ IsSlot(m) /\ e \in dpts[m] => Clean(m)
    BY <1>1, <1>3 DEF EffectsSound, EffectSound
  <1> QED BY <1>2, <1>3, <1>4

LEMMA FinishComputeReacts ==
  ASSUME PureSlots, Undisturbed, GraphInv, GraphInv', CacheInv, ReactParts, FinishCompute
  PROVE  ReactParts'
  <1>0. /\ stack \in Seq(Frame) /\ FramesHold(stack, {}) /\ FlagsTyped /\ EdgesKept /\ EdgesMatch
        /\ PlanKept /\ CleanBelow /\ HeldSound /\ ArenaKept
        /\ StackForm(stack) /\ BusyShown(stack) /\ StackKept
    BY CacheInvParts DEF ReactParts, StackKept
  <1>1. stack # << >> /\ Top.op = "compute" /\ Recomputing(Top)
    BY DEF FinishCompute, Recomputing
  <1>2. Top \in Frame /\ FrameHolds(Top, {}) /\ ComputeHolds(Top, {})
    <2>1. Top \in Frame /\ FrameHolds(Top, {})
      BY <1>0, <1>1, FramesPop DEF Top
    <2> QED BY <1>1, <2>1 DEF FrameHolds
  <1>3. PICK i \in Ids : i = Top.id
    BY <1>2 DEF Frame
  <1>4. PICK log \in Logs : log = Top.log
    BY <1>2 DEF Frame
  <1>5. /\ IsSlot(i) /\ ~Clean(i) /\ Top.code = code[i]
        /\ \A m \in deps[i] : i \in dpts[m] /\ (IsSlot(m) => Clean(m))
    BY <1>2, <1>3, <1>4 DEF FrameHolds, ComputeHolds
  <1>7. code[i] \in Items /\ Plan[code[i]].kind = "slot"
    BY <1>0, <1>5 DEF ArenaKept, PlanKept, IsSlot
  <1>8. PICK v \in Values : v = Body(code[i], log).to
    <2>1. Code(Top.code, Top.log) = Body(code[i], log)
      BY <1>4, <1>5, <1>7 DEF Code
    <2>2. Body(code[i], log).do = "return"
      BY <2>1 DEF FinishCompute
    <2> QED BY <2>2, <1>7, OpsTyped
  <1>9. PICK same \in BOOLEAN : same = (val[i] # None /\ Same(code[i], val[i], v))
    OBVIOUS
  <1>10. PICK changed \in BOOLEAN : changed = (val[i] # None /\ ~same)
    OBVIOUS
  <1>11. same => val[i] = v
    BY <1>0, <1>7, <1>9 DEF PureSlots, FlagsTyped, Results
  <1>12. PICK roots : roots = IF changed THEN dpts[i] ELSE {}
    OBVIOUS
  <1>13. PICK d : d = [dirty EXCEPT ![i] = FALSE]
    OBVIOUS
  <1>14. PICK f : f = [force EXCEPT ![i] = FALSE]
    OBVIOUS
  <1>15. PICK M : M = Marked(roots, d, f)
    OBVIOUS
  <1>16. /\ val' = [val EXCEPT ![i] = IF same THEN val[i] ELSE v]
         /\ dirty' = MarkDirty(M, d)
         /\ force' = Forced(Effects(roots), MarkForce(roots, f))
         /\ busy' = [busy EXCEPT ![i] = FALSE]
         /\ scheduled' = scheduled \cup Effects(M)
         /\ stack' = Deliver(Rest, changed)
    <2>1. Code(Top.code, Top.log).to = v
      BY <1>4, <1>5, <1>7, <1>8 DEF Code
    <2> QED BY <2>1, <1>3, <1>5, <1>9, <1>10, <1>12, <1>13, <1>14, <1>15 DEF FinishCompute, Schedule
  <1>17. UNCHANGED <<arena, eagers, dpts, flushing, batchDepth, batched, handles, seen>> /\ kind' = kind
    BY DEF FinishCompute, arena, edges, batches
  <1>18. val' = [val EXCEPT ![i] = v]
    BY <1>11, <1>16
  <1>19. roots \subseteq M /\ \A n \in M : n # i /\ ~Clean(n)
    <2>1. roots \in SUBSET dpts[i] /\ \A m \in deps[i] : IsSlot(m) => Clean(m)
      BY <1>5, <1>12
    <2> QED BY <1>0, <1>5, <1>15, <2>1, WalkSparesFresh
  <1>20. \A n \in Ids : IsSlot(n) => /\ dirty'[n] <=> d[n] \/ n \in M
                                     /\ force'[n] <=> f[n] \/ n \in roots
    BY <1>16, MarksOfSlots
  <1>21. d[i] = FALSE /\ f[i] = FALSE /\ \A n \in Ids \ {i} : d[n] = dirty[n] /\ f[n] = force[n]
    BY <1>0, <1>13, <1>14 DEF FlagsTyped
  <1>22. val'[i] = v /\ v # None /\ \A n \in Ids \ {i} : val'[n] = val[n]
    BY <1>0, <1>18, PlanAssumption DEF FlagsTyped
  <1>23. Clean(i)' /\ \A n \in Ids : Clean(n) => Clean(n)'
    <2>1. Clean(i)'
      BY <1>5, <1>17, <1>19, <1>20, <1>21, <1>22 DEF Clean, IsSlot
    <2>2. ASSUME NEW n \in Ids \ {i}, Clean(n) PROVE Clean(n)'
      BY <2>2, <1>17, <1>19, <1>20, <1>21, <1>22 DEF Clean, IsSlot
    <2> QED BY <2>1, <2>2
  <1>24. \A n \in Ids \ {i} : busy'[n] = busy[n]
    BY <1>0, <1>16 DEF FlagsTyped
  <1>25. ASSUME NEW e \in Ids, IsEffect(e) PROVE EffectStays(e) /\ FreshStays(e)
    <2>1. e # i /\ (force'[e] <=> force[e] \/ e \in Effects(roots))
      <3>1. e # i /\ ~IsSlot(e) /\ f[e] = force[e]
        BY <1>5, <1>21, <1>25 DEF IsEffect, IsSlot
      <3> QED BY <3>1, <1>16 DEF Forced, MarkForce
    <2>2. Effects(roots) \subseteq scheduled'
      BY <1>16, <1>19 DEF Effects
    <2>3. ASSUME NEW m \in Ids, e \in dpts[m], ~force'[e] PROVE ReadKept(e, m)
      <3>1. m = i /\ val[i] # None => val'[i] = val[i]
        <4> SUFFICES ASSUME m = i, val[i] # None PROVE val[i] = v
          BY <1>22
        <4>1. e \notin roots
          BY <2>1, <2>3, <1>25 DEF Effects, IsEffect
        <4> QED BY <4>1, <2>3, <1>10, <1>11, <1>12
      <3> QED BY <3>1, <1>17, <1>22 DEF ReadKept
    <2>4. EffectStays(e)
      BY <2>1, <2>2, <2>3, <1>16, <1>17 DEF EffectStays, arena
    <2>5. FreshStays(e)
      BY <1>23, <1>24 DEF FreshStays, Fresh
    <2> QED BY <2>4, <2>5
  <1>26. Calmly
    BY <1>17, <1>25 DEF Calmly, arena, eagers, handles
  <1>27. StackForm(stack)' /\ Kin(stack, stack') /\ Kin(stack', stack) /\ BusyShown(stack)'
    <2>1. ~busy'[Top.id] /\ \A m \in Ids : busy'[m] => busy[m]
      BY <1>0, <1>3, <1>16, <1>24 DEF FlagsTyped
    <2> QED BY <2>1, <1>0, <1>1, <1>16, PopForm
  <1>28. (batchDepth = 0 /\ ~flushing => scheduled = {})'
    <2> SUFFICES ASSUME batchDepth = 0, ~flushing PROVE Effects(M) = {} /\ scheduled = {}
      BY <1>16, <1>17
    <2>1. scheduled = {}
      BY <1>0 DEF StackKept
    <2>2. \A e \in Ids, m \in Ids : IsEffect(e) /\ IsSlot(m) /\ e \in dpts[m] => Clean(m)
      BY <2>1, NoneOwed
    <2>3. PICK S : S = {n \in Ids : n # i /\ ~Clean(n) /\ ~IsEffect(n)}
      OBVIOUS
    <2>4. PICK thru : thru = {n \in Ids : IsSlot(n) /\ (~d[n] \/ (n \in roots /\ ~f[n]))}
      OBVIOUS
    <2>5. M = Visited(roots, thru)
      BY <1>15, <2>4 DEF Marked
    <2>6. roots \subseteq S
      BY <1>0, <1>5, <1>12, <1>19, <2>2, <2>3 DEF EdgesKept
    <2>7. \A m \in S \cap thru : dpts[m] \subseteq S
      <3> SUFFICES ASSUME NEW m \in S \cap thru, NEW n \in dpts[m] PROVE n \in S
        OBVIOUS
      <3>1. m \in Ids /\ IsSlot(m) /\ ~Clean(m) /\ n \in Ids
        BY <1>0, <2>3, <2>4 DEF EdgesKept
      <3>2. ~Clean(n) /\ m \in deps[n]
        BY <1>0, <3>1 DEF EdgesMatch, CleanBelow
      <3>3. n # i
        BY <1>5, <3>1, <3>2
      <3> QED BY <2>2, <2>3, <3>1, <3>2, <3>3
    <2>8. M \subseteq S
      <3>1. S \in SUBSET Ids
        BY <2>3
      <3> QED BY <3>1, <2>5, <2>6, <2>7, WalkStops
    <2>9. Effects(M) = {}
      BY <2>3, <2>8 DEF Effects, IsEffect
    <2> QED BY <2>1, <2>9
  <1>29. StackKept'
    BY <1>0, <1>17, <1>27, <1>28, StackGoesOn
  <1> QED BY <1>26, <1>27, <1>29, CalmKeeps

-----------------------------------------------------------------------------
(* Steps of the turns of an effect *)

\* A step and effect e have nothing to do with each other.
EffectSame(e) ==
  /\ IsEffect(e) /\ EffectStays(e) /\ seen'[code[e]] = seen[code[e]]
  /\ CheckOn(stack, e) <=> CheckOn(stack, e)'
  /\ RunOn(stack, e) <=> RunOn(stack, e)'
  /\ \A m \in Ids : IsSlot(m) /\ e \in dpts[m] /\ Clean(m) => Clean(m)' \/ e \in scheduled'
\* A step and the activation f of a turn have nothing to do with each other.
FrameStays(f) ==
  /\ Turning(f) => EffectStays(f.id) /\ FreshStays(f.id)
  /\ WaitHolds(f)'
\* The activation g after a step is as it should be.
FrameReacts(g) ==
  \/ ~Kept(g)
  \/ TurnHolds(g)' /\ WaitHolds(g)'
  \/ \E f \in FramesOf(stack) : Alike(f, g) /\ FrameStays(f)

LEMMA ReactsWhen ==
  ASSUME Undisturbed, GraphInv, ReactParts, HandlesKept, ProgramLive', StackKept',
         \A e \in Ids : IsEffect(e)' => EffectSound(e)' \/ EffectSame(e),
         \A g \in FramesOf(stack') : FrameReacts(g)
  PROVE  ReactParts'
  <1>1. ProgramLive /\ HandlesLive /\ NodesLive /\ PullersLive /\ EffectsSound /\ TurnsHold
    BY DEF ReactParts, ProgramLive
  <1>2. ASSUME NEW e \in Ids, IsEffect(e)' PROVE EffectSound(e)'
    <2>1. CASE EffectSame(e)
      <3>1. EffectCode(code[e]) /\ EffectSound(e) /\ IsEffect(e)
        BY <1>1, <2>1, EffectsGet DEF EffectSame, EffectsSound
      <3> QED BY <2>1, <3>1, EffectGoesOn DEF EffectSame
    <2> QED BY <1>2, <2>1
  <1>3. ASSUME NEW g \in FramesOf(stack') PROVE TurnHolds(g)' /\ WaitHolds(g)'
    <2>1. CASE ~Kept(g)
      BY <2>1 DEF Kept, TurnHolds, Turning, WaitHolds
    <2>2. CASE \E f \in FramesOf(stack) : Alike(f, g) /\ FrameStays(f)
      <3>1. PICK f \in FramesOf(stack) : Alike(f, g) /\ FrameStays(f)
        BY <2>2
      <3>2. TurnHolds(f) /\ f \in Frame
        BY <1>1, StackHas DEF TurnsHold
      <3>3. Turning(f) => EffectCode(f.code) /\ EffectStays(f.id) /\ FreshStays(f.id)
        <4> SUFFICES ASSUME Turning(f) PROVE EffectCode(f.code) /\ EffectStays(f.id) /\ FreshStays(f.id)
          OBVIOUS
        <4>1. f.id \in Ids /\ IsEffect(f.id) /\ code[f.id] = f.code
          BY <3>2 DEF Frame, TurnHolds
        <4> QED BY <3>1, <4>1, <1>1, EffectsGet DEF FrameStays
      <3>4. TurnHolds(g)'
        BY <1>1, <3>1, <3>2, <3>3, TurnStays
      <3>5. WaitHolds(g)'
        <4>1. g.op = f.op /\ g.id = f.id /\ g.code = f.code
          BY <3>1 DEF Alike
        <4> QED BY <3>1, <4>1 DEF FrameStays, WaitHolds
      <3> QED BY <3>4, <3>5
    <2> QED BY <1>3, <2>1, <2>2 DEF FrameReacts
  <1> QED BY <1>2, <1>3 DEF ReactParts, EffectsSound, TurnsHold

\* What waits, when no node or handle is made.
LEMMA WaitsOn ==
  ASSUME GraphInv, ReactParts, UNCHANGED <<kind, code, eager, made>>, nmade' = nmade
  PROVE  \A f \in FramesOf(stack) : WaitHolds(f)'
  <1> SUFFICES ASSUME NEW f \in FramesOf(stack) PROVE WaitHolds(f)'
    OBVIOUS
  <1>1. WaitHolds(f) /\ Alike(f, f)
    BY DEF ReactParts, TurnsHold, Alike
  <1>2. nmade \in Nat
    BY DEF GraphInv, RestTyped
  <1> QED BY <1>1, <1>2, WaitStays

\* Refreshing one more of the dependencies: `s' is the stack it is done on.
LEMMA RefreshOne ==
  ASSUME ArenaKept, EdgesKept, busy \in [Ids -> BOOLEAN], NEW i \in Ids, NEW s \in Seq(Frame), s # << >>, StackForm(s),
         BusyShown(s), IF IsSlot(i) /\ ~Clean(i) THEN EnterRefresh(i, s) ELSE stack' = s /\ UNCHANGED busy,
         stack' # << >>, UNCHANGED <<kind, val, dirty, force>>
  PROVE  /\ StackForm(stack)' /\ BusyShown(stack)'
         /\ Kin(s, stack') /\ Kin(stack', s)
         /\ \A m \in Ids : (Clean(m) => Clean(m)') /\ (Fresh(m) => Fresh(m)')
         /\ IsSlot(i) => Fresh(i)'
  <1>1. \A m \in Ids : Clean(m) <=> Clean(m)'
    BY DEF Clean, IsSlot
  <1>2. CASE IsSlot(i) /\ ~Clean(i)
    <2>1. EnterRefresh(i, s)
      BY <1>2
    <2>2. /\ StackForm(stack)' /\ BusyShown(stack)' /\ Kin(s, stack') /\ Kin(stack', s)
          /\ busy'[i] /\ \A m \in Ids : busy[m] => busy'[m]
      BY <2>1, EnterForm
    <2> QED BY <1>1, <2>2 DEF Fresh
  <1>3. CASE ~(IsSlot(i) /\ ~Clean(i))
    <2>1. stack' = s /\ busy' = busy
      BY <1>3
    <2>2. StackForm(stack)' /\ BusyShown(stack)' /\ Kin(s, stack') /\ Kin(stack', s)
      BY <2>1, KinSame DEF BusyShown, StackForm
    <2> QED BY <1>1, <1>3, <2>1, <2>2 DEF Fresh
  <1> QED BY <1>2, <1>3

LEMMA StepDependencyReacts ==
  ASSUME Undisturbed, GraphInv, GraphInv', CacheInv, ReactParts, StepDependency, stack' # << >>
  PROVE  ReactParts'
  <1>0. /\ stack \in Seq(Frame) /\ FlagsTyped /\ EdgesKept /\ ArenaKept /\ busy \in [Ids -> BOOLEAN]
        /\ StackForm(stack) /\ BusyShown(stack) /\ StackKept
    BY CacheInvParts DEF ReactParts, StackKept, FlagsTyped
  <1>1. PICK d \in Ids : /\ Walking /\ d \in Top.todo
                         /\ LET s == Push([Top EXCEPT !.todo = @ \ {d}], Rest) IN
                            IF IsSlot(d) /\ ~Clean(d) THEN EnterRefresh(d, s) ELSE stack' = s /\ UNCHANGED busy
    BY DEF StepDependency
  <1>2. UNCHANGED <<arena, val, dirty, force, eagers, dpts, scheduled, flushing, batchDepth, batched, handles, seen>>
    BY DEF StepDependency, edges, sched, batches
  <1>3. Top \in Frame /\ stack # << >> /\ Top.op \in {"should", "refresh"} /\ Rest \in Seq(Frame)
        /\ FramesOf(stack) = {Top} \cup FramesOf(Rest)
    BY <1>0, <1>1, StackSplits DEF Walking, Top, Rest
  <1>4. PICK f : f = [Top EXCEPT !.todo = @ \ {d}]
    OBVIOUS
  <1>5. f \in Frame /\ f.op = Top.op /\ f.id = Top.id /\ f.gen = Top.gen /\ f.code = Top.code
        /\ f.todo = Top.todo \ {d} /\ f.due = Top.due
    BY <1>3, <1>4 DEF Frame
  <1>6. PICK s : s = Push(f, Rest)
    OBVIOUS
  <1>7. s \in Seq(Frame) /\ s # << >> /\ StackForm(s) /\ FramesOf(s) = {f} \cup FramesOf(Rest)
    BY <1>0, <1>3, <1>5, <1>6, RetopForm DEF Top, Rest
  <1>8. IF IsSlot(d) /\ ~Clean(d) THEN EnterRefresh(d, s) ELSE stack' = s /\ UNCHANGED busy
    BY <1>1, <1>4, <1>6
  <1>9. BusyShown(s)
    <2>1. Shows(stack, s)
      BY <1>3, <1>5, <1>7 DEF Shows, Recomputing
    <2> QED BY <2>1, <1>0, BusyMoves
  <1>10. /\ StackForm(stack)' /\ BusyShown(stack)' /\ Kin(s, stack') /\ Kin(stack', s)
         /\ \A m \in Ids : (Clean(m) => Clean(m)') /\ (Fresh(m) => Fresh(m)')
         /\ IsSlot(d) => Fresh(d)'
    <2>1. UNCHANGED <<kind, val, dirty, force>>
      BY <1>2 DEF arena
    <2> QED BY <2>1, <1>0, <1>7, <1>8, <1>9, RefreshOne
  <1>11. Calmly
    BY <1>2, <1>10, CalmWhen
  <1>12. \A g : Alike(g, g)
    BY DEF Alike
  <1>13. Flushes(stack) <=> Flushes(stack)'
    <2>1. Flushes(stack) <=> Flushes(s)
      BY <1>3, <1>5, <1>7 DEF Flushes
    <2>2. Flushes(s) <=> Flushes(stack)'
      BY <1>10 DEF Flushes, Kin, Kept, Alike
    <2> QED BY <2>1, <2>2
  <1>14. StackKept'
    BY <1>0, <1>2, <1>10, <1>13 DEF StackKept
  <1>15. ProgramLive'
    <2>1. AttachStays
      <3> SUFFICES ASSUME NEW g \in FramesOf(stack), g.op = "attach" PROVE \E h \in FramesOf(stack') : Alike(h, g)
        BY DEF AttachStays
      <3>1. g \in FramesOf(s) /\ Kept(g)
        BY <1>3, <1>7 DEF Kept
      <3> QED BY <3>1, <1>10 DEF Kin
    <2>2. UNCHANGED <<kind, code, gen, made, nmade, eager, eagerBy>>
      BY <1>2 DEF arena, eagers, handles
    <2> QED BY <2>1, <2>2, ProgramStays DEF ReactParts
  <1>16. \A e : (CheckOn(stack, e) <=> CheckOn(stack, e)') /\ (RunOn(stack, e) <=> RunOn(stack, e)')
    <2>1. \A e : (CheckOn(stack, e) <=> CheckOn(s, e)) /\ (RunOn(stack, e) <=> RunOn(s, e))
      BY <1>3, <1>5, <1>7 DEF CheckOn, RunOn, Turn
    <2>2. \A e : (CheckOn(s, e) <=> CheckOn(stack, e)') /\ (RunOn(s, e) <=> RunOn(stack, e)')
      BY <1>10 DEF CheckOn, RunOn, Turn, Kin, Kept, Alike
    <2> QED BY <2>1, <2>2
  <1>17. ASSUME NEW e \in Ids, IsEffect(e)' PROVE EffectSame(e)
    <2>1. IsEffect(e)
      BY <1>17, <1>2 DEF IsEffect, arena
    <2> QED BY <2>1, <1>11, <1>16 DEF EffectSame, Calmly, FreshStays
  <1>18. \A g \in FramesOf(stack) : WaitHolds(g)'
    BY <1>2, WaitsOn DEF arena, eagers, handles
  <1>19. ASSUME NEW g \in FramesOf(stack), Turning(g) PROVE EffectStays(g.id) /\ FreshStays(g.id)
    <2>1. g.id \in Ids /\ TurnHolds(g)
      BY StackHas DEF ReactParts, TurnsHold, Frame
    <2> QED BY <2>1, <1>11, <1>19 DEF TurnHolds, Calmly
  <1>20. TurnHolds(f)'
    <2> SUFFICES ASSUME f.op = "should" PROVE TurnHolds(f)'
      BY <1>3, <1>5 DEF TurnHolds, Turning
    <2>1. Turning(Top) /\ TurnHolds(Top) /\ f.id \in Ids
      BY <1>3, <1>5 DEF ReactParts, TurnsHold, Turning, Frame
    <2>2. IsEffect(f.id) /\ gen[f.id] = f.gen /\ code[f.id] = f.code /\ ShouldHolds(Top)
      BY <2>1, <1>5 DEF TurnHolds
    <2>3. ShouldHolds(f)'
      <3>0. force'[f.id] => f.due \/ f.id \in scheduled'
        BY <2>1, <2>2, <1>2, <1>5 DEF ShouldHolds
      <3> SUFFICES ASSUME NEW m \in Ids, IsSlot(m)', f.id \in dpts'[m], m \notin f.todo PROVE Fresh(m)'
        BY <3>0 DEF ShouldHolds
      <3>1. IsSlot(m) /\ Top.id \in dpts[m]
        BY <1>2, <1>5 DEF IsSlot, arena
      <3>2. Fresh(m) \/ m = d
        BY <3>1, <2>2, <1>5 DEF ShouldHolds
      <3> QED BY <3>1, <3>2, <1>10
    <2> QED BY <2>2, <2>3, <1>2 DEF TurnHolds, IsEffect, arena
  <1>21. WaitHolds(f)'
    BY <1>3, <1>5 DEF WaitHolds
  <1>22. ASSUME NEW g \in FramesOf(stack') PROVE FrameReacts(g)
    <2> SUFFICES ASSUME Kept(g) PROVE FrameReacts(g)
      BY DEF FrameReacts
    <2>1. PICK h \in FramesOf(s) : Alike(h, g)
      BY <1>10 DEF Kin
    <2>2. CASE h = f
      <3>1. TurnHolds(g)' /\ WaitHolds(g)'
        <4>1. /\ g.op = f.op /\ g.id = f.id /\ g.gen = f.gen /\ g.code = f.code
              /\ g.log = f.log /\ g.todo = f.todo /\ g.pulled = f.pulled /\ g.due = f.due
          BY <2>1, <2>2 DEF Alike
        <4>2. f.op # "effect"
          BY <1>3, <1>5
        <4> QED BY <4>1, <4>2, <1>20, <1>21 DEF TurnHolds, WaitHolds, Turning, ShouldHolds
      <3> QED BY <3>1 DEF FrameReacts
    <2>3. CASE h # f
      <3>1. h \in FramesOf(stack)
        BY <1>3, <1>7, <2>1, <2>3
      <3> QED BY <3>1, <2>1, <1>18, <1>19 DEF FrameReacts, FrameStays
    <2> QED BY <2>2, <2>3
  <1>23. HandlesKept
    BY <1>2 DEF HandlesKept, handles
  <1> QED BY <1>14, <1>15, <1>17, <1>22, <1>23, ReactsWhen

\* While nothing is recomputed no cell is busy.
LEMMA NoneBusy ==
  ASSUME GraphInv, ReactParts, NoneRecomputing(stack)
  PROVE  \A m \in Ids : ~busy[m] /\ (Fresh(m) => Clean(m))
  <1>1. \A f \in FramesOf(stack) : ~Recomputing(f)
    BY DEF NoneRecomputing, FramesOf
  <1>2. BusyShown(stack)
    BY DEF ReactParts, StackKept
  <1> QED BY <1>1, <1>2 DEF BusyShown, Fresh

\* An activation returns to the one below.
LEMMA Popped ==
  ASSUME GraphInv, CacheInv, ReactParts, stack # << >>, ~Recomputing(Top), Top.op # "host",
         stack' = Rest, busy' = busy
  PROVE  /\ Top \in Frame /\ Top \in FramesOf(stack) /\ FramesOf(stack) = {Top} \cup FramesOf(stack')
         /\ StackForm(stack)' /\ BusyShown(stack)'
         /\ \A m \in Ids : ~busy[m] /\ (Fresh(m) => Clean(m))
         /\ Top.op = "flush" => ~Flushes(stack)' /\ \A g \in FramesOf(stack) : ~Turning(g)
         /\ Top.op # "flush" => (Flushes(stack) <=> Flushes(stack)')
         /\ Turning(Top) => \A g \in FramesOf(stack') : ~Turning(g)
  <1>1. stack \in Seq(Frame) /\ FramesHold(stack, {}) /\ StackForm(stack)
    BY CacheInvParts DEF ReactParts, StackKept
  <1>2. /\ Top \in Frame /\ Rest \in Seq(Frame) /\ FramesOf(stack) = {Top} \cup FramesOf(Rest)
        /\ StackForm(Rest) /\ Fits(Top, FramesOf(Rest))
    BY <1>1, StackSplits DEF Top, Rest
  <1>3. NoneRecomputing(stack)
    BY <1>1, QuietBelow DEF Top
  <1>4. \A m \in Ids : ~busy[m] /\ (Fresh(m) => Clean(m))
    BY <1>3, NoneBusy
  <1>5. FramesOf(stack)' = FramesOf(Rest) /\ (StackForm(stack)' <=> StackForm(Rest))
    BY DEF FramesOf, StackForm
  <1>6. BusyShown(stack)'
    BY <1>4 DEF BusyShown
  <1>7. Top.op = "flush" => ~Flushes(Rest)
    BY <1>2 DEF Fits, Flushes
  <1>8. ASSUME Top.op = "flush", NEW g \in FramesOf(stack) PROVE ~Turning(g)
    <2>1. g = Top => ~Turning(g)
      BY <1>8 DEF Turning
    <2>2. g \in FramesOf(Rest) => ~Turning(g)
      BY <1>2, <1>7, <1>8, OneTurn
    <2> QED BY <2>1, <2>2, <1>2
  <1>9. Top.op # "flush" => (Flushes(stack) <=> Flushes(Rest))
    BY <1>2 DEF Flushes
  <1>10. Turning(Top) => \A g \in FramesOf(Rest) : ~Turning(g)
    BY <1>2 DEF Fits
  <1>11. Flushes(stack)' <=> Flushes(Rest)
    BY <1>5 DEF Flushes
  <1> QED BY <1>2, <1>4, <1>5, <1>6, <1>7, <1>8, <1>9, <1>10, <1>11

\* The only turn is that of effect e, or there is none.
LEMMA TurnsOf ==
  ASSUME NEW s, NEW e, \A g \in FramesOf(s) : Turning(g) => g.id = e
  PROVE  \A x : x # e => ~CheckOn(s, x) /\ ~RunOn(s, x)
  BY DEF CheckOn, RunOn, Turn, Turning

\* The edges, the values and the nodes stay: so does an effect that is not queued
\* or taken off the queue.
LEMMA EffectSettled ==
  ASSUME UNCHANGED <<kind, code, gen, val, dpts, batched>>, NEW e \in Ids, e \in scheduled => e \in scheduled',
         force'[e] <=> force[e]
  PROVE  EffectStays(e)
  BY DEF EffectStays, ReadKept

LEMMA StepSkipReacts ==
  ASSUME Undisturbed, GraphInv, GraphInv', CacheInv, ReactParts, StepSkip
  PROVE  ReactParts'
  <1>1. stack # << >> /\ Top.op = "should" /\ stack' = Rest
    BY DEF StepSkip, Walking
  <1>2. UNCHANGED <<arena, val, dirty, force, busy, eagers, dpts, scheduled, flushing, batchDepth, batched, handles, seen>>
    BY DEF StepSkip, flags, edges, sched, batches
  <1>3. ~Recomputing(Top) /\ Turning(Top)
    BY <1>1 DEF Recomputing, Turning
  <1>4. /\ Top \in Frame /\ Top \in FramesOf(stack) /\ FramesOf(stack) = {Top} \cup FramesOf(stack')
        /\ StackForm(stack)' /\ BusyShown(stack)'
        /\ \A m \in Ids : Fresh(m) => Clean(m)
        /\ Flushes(stack) <=> Flushes(stack)'
        /\ \A g \in FramesOf(stack') : ~Turning(g)
    BY <1>1, <1>2, <1>3, Popped
  <1>5. PICK e \in Ids : e = Top.id
    BY <1>4 DEF Frame
  <1>6. IsEffect(e) /\ ShouldHolds(Top) /\ EffectSound(e)
    <2>1. TurnHolds(Top)
      BY <1>4 DEF ReactParts, TurnsHold
    <2> QED BY <2>1, <1>1, <1>3, <1>5 DEF TurnHolds, ReactParts, EffectsSound
  <1>7. Top.todo = {} /\ (force[e] => e \in scheduled)
    BY <1>1, <1>5, <1>6 DEF StepSkip, EffectDue, IsEffect, ShouldHolds
  <1>8. /\ \A x : x # e => ~CheckOn(stack, x) /\ ~RunOn(stack, x)
        /\ \A x : ~CheckOn(stack, x)' /\ ~RunOn(stack, x)'
        /\ ~RunOn(stack, e)
    <2>1. \A g \in FramesOf(stack) : Turning(g) => g.id = e
      BY <1>4, <1>5
    <2>2. \A x : ~CheckOn(stack, x)' /\ ~RunOn(stack, x)'
      BY <1>4 DEF CheckOn, RunOn, Turn, Turning, FramesOf
    <2>3. ~RunOn(stack, e)
      BY <1>1, <1>4 DEF RunOn, Turn, Turning
    <2> QED BY <2>1, <2>2, <2>3, TurnsOf
  <1>9. EffectSound(e)'
    <2>1. ~force[e] => SeenHolds(e)
      BY <1>6, <1>8 DEF EffectSound
    <2>2. SeenHolds(e) => SeenHolds(e)'
      BY <1>2 DEF SeenHolds, LogHolds, EntryHolds, EntryOf, EntryOp, arena, handles
    <2>3. \A m \in Ids : IsSlot(m) /\ e \in dpts[m] => Clean(m)
      BY <1>4, <1>5, <1>6, <1>7 DEF ShouldHolds
    <2> QED BY <2>1, <2>2, <2>3, <1>2, <1>7 DEF EffectSound, Clean, IsSlot, arena
  <1>10. ASSUME NEW x \in Ids, IsEffect(x)' PROVE EffectSound(x)' \/ EffectSame(x)
    <2> SUFFICES ASSUME x # e PROVE EffectSame(x)
      BY <1>9
    <2>1. IsEffect(x)
      BY <1>10, <1>2 DEF IsEffect, arena
    <2>2. EffectStays(x)
      BY <1>2, EffectSettled DEF arena
    <2> QED BY <2>1, <2>2, <1>2, <1>8 DEF EffectSame, Clean, IsSlot, arena
  <1>11. \A g \in FramesOf(stack) : WaitHolds(g)'
    BY <1>2, WaitsOn DEF arena, eagers, handles
  <1>12. \A g \in FramesOf(stack') : FrameReacts(g)
    <2>1. \A g : Alike(g, g)
      BY DEF Alike
    <2> QED BY <2>1, <1>4, <1>11 DEF FrameReacts, FrameStays
  <1>13. ProgramLive'
    <2>1. AttachStays
      BY <1>1, <1>4 DEF AttachStays, Alike
    <2> QED BY <2>1, <1>2, ProgramStays DEF ReactParts, arena, eagers, handles
  <1>14. StackKept'
    BY <1>2, <1>4 DEF ReactParts, StackKept
  <1>15. HandlesKept
    BY <1>2 DEF HandlesKept, handles
  <1> QED BY <1>10, <1>12, <1>13, <1>14, <1>15, ReactsWhen

\* A run of an effect that ends has seen what its dependencies hold.
LEMMA FinishEffectReacts ==
  ASSUME Undisturbed, GraphInv, GraphInv', CacheInv, ReactParts, FinishEffect
  PROVE  ReactParts'
  <1>1. stack # << >> /\ Top.op = "effect" /\ stack' = Rest /\ Code(Top.code, Top.log).do = "return"
        /\ seen' = [seen EXCEPT ![Top.code] = Top.log]
    BY DEF FinishEffect
  <1>2. UNCHANGED <<arena, val, dirty, force, busy, eagers, dpts, scheduled, flushing, batchDepth, batched, handles>>
    BY DEF FinishEffect, flags, edges, sched, batches
  <1>3. ~Recomputing(Top) /\ Turning(Top)
    BY <1>1 DEF Recomputing, Turning
  <1>4. /\ Top \in Frame /\ Top \in FramesOf(stack) /\ FramesOf(stack) = {Top} \cup FramesOf(stack')
        /\ StackForm(stack)' /\ BusyShown(stack)'
        /\ \A m \in Ids : Fresh(m) => Clean(m)
        /\ Flushes(stack) <=> Flushes(stack)'
        /\ \A g \in FramesOf(stack') : ~Turning(g)
    BY <1>1, <1>2, <1>3, Popped
  <1>5. PICK e \in Ids : e = Top.id
    BY <1>4 DEF Frame
  <1>6. IsEffect(e) /\ code[e] = Top.code /\ RunHolds(Top) /\ EffectSound(e)
    <2>1. TurnHolds(Top)
      BY <1>4 DEF ReactParts, TurnsHold
    <2> QED BY <2>1, <1>1, <1>3, <1>5 DEF TurnHolds, ReactParts, EffectsSound
  <1>7. code[e] \in Codes /\ Top.log \in Logs /\ NodesLive
    BY <1>4, <1>6, EffectsGet DEF ReactParts, ProgramLive, Frame
  <1>8. /\ \A x : x # e => ~CheckOn(stack, x) /\ ~RunOn(stack, x)
        /\ \A x : ~CheckOn(stack, x)' /\ ~RunOn(stack, x)'
        /\ ~CheckOn(stack, e)
    <2>1. \A g \in FramesOf(stack) : Turning(g) => g.id = e
      BY <1>4, <1>5
    <2>2. \A x : ~CheckOn(stack, x)' /\ ~RunOn(stack, x)'
      BY <1>4 DEF CheckOn, RunOn, Turn, Turning, FramesOf
    <2>3. ~CheckOn(stack, e)
      BY <1>1, <1>4 DEF CheckOn, Turn, Turning
    <2> QED BY <2>1, <2>2, <2>3, TurnsOf
  <1>9. EffectSound(e)'
    <2>1. ASSUME ~force[e] PROVE SeenHolds(e)'
      <3>1. LogHolds(e, Top.code, Top.log, batched.cells)
        BY <1>5, <1>6, <2>1 DEF RunHolds
      <3>2. PICK c, log : c = Top.code /\ log = Top.log
        OBVIOUS
      <3>3. LogHolds(e, c, log, batched.cells)'
        BY <3>1, <3>2, <1>2 DEF LogHolds, EntryHolds, EntryOf, EntryOp, arena, handles
      <3>4. code'[e] = c /\ seen'[c] = log
        <4>1. seen \in [Codes -> Logs \cup {None}]
          BY DEF GraphInv, RestTyped
        <4> QED BY <4>1, <3>2, <1>1, <1>2, <1>6, <1>7 DEF arena
      <3> QED BY <3>2, <3>3, <3>4, <1>1, <1>7 DEF SeenHolds
    <2>2. force[e] => e \in scheduled
      BY <1>6, <1>8 DEF EffectSound
    <2>3. \A m \in Ids : IsSlot(m) /\ e \in dpts[m] => Clean(m) \/ e \in scheduled
      BY <1>4, <1>5, <1>6 DEF RunHolds
    <2> QED BY <2>1, <2>2, <2>3, <1>2 DEF EffectSound, Owed, Clean, IsSlot, arena
  <1>10. ASSUME NEW x \in Ids, IsEffect(x)' PROVE EffectSound(x)' \/ EffectSame(x)
    <2> SUFFICES ASSUME x # e PROVE EffectSame(x)
      BY <1>9
    <2>1. IsEffect(x)
      BY <1>10, <1>2 DEF IsEffect, arena
    <2>2. EffectStays(x)
      BY <1>2, EffectSettled DEF arena
    <2>3. seen'[code[x]] = seen[code[x]]
      <3>1. code[x] # code[e] /\ code[x] \in Codes
        <4>1. code[x] \in Codes
          BY <2>1, EffectsGet DEF ReactParts, ProgramLive
        <4>2. code[x] # 0
          BY <4>1, PlanTyped DEF Codes
        <4>3. code[x] = code[e] /\ code[x] # 0 => x = e
          BY <1>7 DEF NodesLive
        <4> QED BY <4>1, <4>2, <4>3
      <3>2. seen \in [Codes -> Logs \cup {None}]
        BY DEF GraphInv, RestTyped
      <3> QED BY <3>1, <3>2, <1>1, <1>6
    <2> QED BY <2>1, <2>2, <2>3, <1>2, <1>8 DEF EffectSame, Clean, IsSlot, arena
  <1>11. \A g \in FramesOf(stack) : WaitHolds(g)'
    BY <1>2, WaitsOn DEF arena, eagers, handles
  <1>12. \A g \in FramesOf(stack') : FrameReacts(g)
    <2>1. \A g : Alike(g, g)
      BY DEF Alike
    <2> QED BY <2>1, <1>4, <1>11 DEF FrameReacts, FrameStays
  <1>13. ProgramLive'
    <2>1. AttachStays
      BY <1>1, <1>4 DEF AttachStays, Alike
    <2> QED BY <2>1, <1>2, ProgramStays DEF ReactParts, arena, eagers, handles
  <1>14. StackKept'
    BY <1>2, <1>4 DEF ReactParts, StackKept
  <1>15. HandlesKept
    BY <1>2 DEF HandlesKept, handles
  <1> QED BY <1>10, <1>12, <1>13, <1>14, <1>15, ReactsWhen

\* A run of an effect that starts has no edges and no log yet.
LEMMA StartEffectReacts ==
  ASSUME Undisturbed, GraphInv, GraphInv', CacheInv, ReactParts, StartEffect
  PROVE  ReactParts'
  <1>0. /\ stack \in Seq(Frame) /\ FlagsTyped /\ EdgesKept /\ EdgesMatch /\ ArenaKept
        /\ StackForm(stack) /\ BusyShown(stack) /\ StackKept /\ dpts \in [Ids -> SUBSET Ids]
    BY CacheInvParts DEF ReactParts, StackKept, EdgesKept
  <1>1. stack # << >> /\ Top.op = "should"
    BY DEF StartEffect, Walking, EffectDue
  <1>2. Top \in Frame /\ Top \in FramesOf(stack) /\ FramesOf(stack) = {Top} \cup FramesOf(Rest)
        /\ Fits(Top, FramesOf(Rest)) /\ Turning(Top)
    BY <1>0, <1>1, StackSplits DEF Top, Rest, Turning
  <1>3. PICK e \in Ids : e = Top.id
    BY <1>2 DEF Frame
  <1>4. /\ scheduled' = scheduled \ {e} /\ Detach(e) /\ force' = [force EXCEPT ![e] = FALSE]
        /\ stack' = Push(Activation("effect", e), Rest)
        /\ UNCHANGED <<arena, val, dirty, busy, eagers, flushing, batchDepth, batched, handles, seen>>
    BY <1>3 DEF StartEffect, batches
  <1>5. IsEffect(e) /\ gen[e] = Top.gen /\ code[e] = Top.code
    BY <1>2, <1>3 DEF ReactParts, TurnsHold, TurnHolds
  <1>6. PICK f \in Frame : f = Activation("effect", e) /\ f.op = "effect" /\ f.id = e /\ f.gen = gen[e] /\ f.code = code[e]
    BY <1>0, ActivationSound
  <1>7. f.log = << >> /\ f.pulled = FALSE
    BY <1>6 DEF Activation, Host
  <1>8. PICK s : s = Push(f, Rest)
    OBVIOUS
  <1>9. StackForm(s) /\ FramesOf(s) = {f} \cup FramesOf(Rest)
    BY <1>0, <1>1, <1>2, <1>6, <1>8, RetopForm DEF Top, Rest, Turning
  <1>10. stack' = s /\ FramesOf(stack)' = {f} \cup FramesOf(Rest) /\ StackForm(stack)'
    <2>1. stack' = s
      BY <1>4, <1>6, <1>8
    <2>2. FramesOf(stack)' = FramesOf(s) /\ (StackForm(stack)' <=> StackForm(s))
      BY <2>1 DEF FramesOf, StackForm
    <2> QED BY <2>1, <2>2, <1>9
  <1>11. \A g \in FramesOf(Rest) : ~Turning(g)
    BY <1>2 DEF Fits
  <1>12. /\ \A x : x # e => ~CheckOn(stack, x) /\ ~RunOn(stack, x)
         /\ \A x : x # e => ~CheckOn(stack, x)' /\ ~RunOn(stack, x)'
         /\ RunOn(stack, e)'
    <2>1. \A g \in FramesOf(stack) : Turning(g) => g.id = e
      BY <1>2, <1>3, <1>11
    <2>2. \A g \in FramesOf(s) : Turning(g) => g.id = e
      BY <1>6, <1>9, <1>11
    <2>3. \A x : x # e => ~CheckOn(s, x) /\ ~RunOn(s, x)
      BY <2>2, TurnsOf
    <2>4. RunOn(s, e)
      BY <1>6, <1>9 DEF RunOn, Turn
    <2> QED BY <2>1, <2>3, <2>4, <1>10, TurnsOf DEF CheckOn, RunOn, Turn
  <1>13. /\ \A m \in Ids : e \notin dpts'[m]
         /\ \A x \in Ids \ {e}, m \in Ids : x \in dpts'[m] <=> x \in dpts[m]
    BY <1>0, <1>4 DEF Detach, EdgesMatch
  <1>14. force'[e] = FALSE /\ \A x \in Ids \ {e} : force'[x] = force[x]
    BY <1>0, <1>4 DEF FlagsTyped
  <1>15. EffectSound(e)'
    BY <1>12, <1>13, <1>14 DEF EffectSound
  <1>16. \A m \in Ids : IsSlot(m) => (Clean(m) <=> Clean(m)')
    <2>1. \A m \in Ids : IsSlot(m) => m # e
      BY <1>5 DEF IsSlot, IsEffect
    <2> QED BY <2>1, <1>4, <1>14 DEF Clean, IsSlot, arena
  <1>17. ASSUME NEW x \in Ids, IsEffect(x)' PROVE EffectSound(x)' \/ EffectSame(x)
    <2> SUFFICES ASSUME x # e PROVE EffectSame(x)
      BY <1>15
    <2>1. IsEffect(x)
      BY <1>17, <1>4 DEF IsEffect, arena
    <2>2. EffectStays(x)
      BY <1>4, <1>13, <1>14 DEF EffectStays, ReadKept, arena
    <2> QED BY <2>1, <2>2, <1>4, <1>12, <1>16 DEF EffectSame
  <1>18. TurnHolds(f)' /\ WaitHolds(f)'
    <2>1. (IsEffect(f.id) /\ gen[f.id] = f.gen /\ code[f.id] = f.code)'
      BY <1>4, <1>5, <1>6 DEF IsEffect, arena
    <2>2. \A m \in Ids : f.id \notin dpts'[m]
      BY <1>6, <1>13
    <2>3. LogHolds(f.id, f.code, f.log, batched.cells)'
      <3>1. Len(f.log) = 0
        BY <1>7
      <3> QED BY <3>1 DEF LogHolds
    <2>4. RunHolds(f)'
      BY <2>2, <2>3, <1>7 DEF RunHolds
    <2> QED BY <2>1, <2>4, <1>6 DEF TurnHolds, WaitHolds
  <1>19. \A g \in FramesOf(stack) : WaitHolds(g)'
    <2>1. UNCHANGED <<kind, code, eager, made>> /\ nmade' = nmade
      BY <1>4 DEF arena, eagers, handles
    <2> QED BY <2>1, WaitsOn
  <1>20. \A g \in FramesOf(stack') : FrameReacts(g)
    <2>1. \A g : Alike(g, g)
      BY DEF Alike
    <2> QED BY <2>1, <1>2, <1>10, <1>11, <1>18, <1>19 DEF FrameReacts, FrameStays
  <1>21. ProgramLive'
    <2>1. AttachStays
      BY <1>1, <1>2, <1>10 DEF AttachStays, Alike
    <2> QED BY <2>1, <1>4, ProgramStays DEF ReactParts, arena, eagers, handles
  <1>22. StackKept'
    <2>1. Flushes(stack) <=> Flushes(stack)'
      BY <1>1, <1>2, <1>6, <1>10 DEF Flushes
    <2>2. BusyShown(stack)'
      <3>1. ~Recomputing(Top)
        BY <1>1 DEF Recomputing
      <3> QED BY <3>1, <1>0, <1>2, <1>4, <1>10 DEF BusyShown
    <2> QED BY <2>1, <2>2, <1>0, <1>4, <1>10 DEF StackKept
  <1>23. HandlesKept
    BY <1>4 DEF HandlesKept, handles
  <1> QED BY <1>17, <1>20, <1>21, <1>22, <1>23, ReactsWhen

\* The flush ends, or takes the next effect off the queue.
LEMMA StepFlushReacts ==
  ASSUME Undisturbed, GraphInv, GraphInv', CacheInv, ReactParts, StepFlush
  PROVE  ReactParts'
  <1>0. /\ stack \in Seq(Frame) /\ FramesHold(stack, {}) /\ EdgesKept /\ EdgesMatch /\ ArenaKept
        /\ StackForm(stack) /\ BusyShown(stack) /\ StackKept /\ ProgramLive
        /\ QueueSound(pending, scheduled, kind)
    BY CacheInvParts DEF ReactParts, StackKept, GraphInv
  <1>1. stack # << >> /\ Top.op = "flush"
    BY DEF StepFlush
  <1>2. UNCHANGED <<arena, val, dirty, force, busy, eagers, dpts, batchDepth, batched, handles, seen>>
    BY DEF StepFlush, flags, edges, batches
  <1>3. /\ Top \in Frame /\ Top \in FramesOf(stack) /\ FramesOf(stack) = {Top} \cup FramesOf(Rest)
        /\ Rest \in Seq(Frame) /\ StackForm(Rest) /\ Fits(Top, FramesOf(Rest))
    BY <1>0, <1>1, StackSplits DEF Top, Rest
  <1>4. ~Flushes(Rest) /\ \A g \in FramesOf(stack) : ~Turning(g)
    <2>1. ~Flushes(Rest)
      BY <1>1, <1>3 DEF Fits, Flushes
    <2>2. \A g \in FramesOf(Rest) : ~Turning(g)
      BY <2>1, <1>3, OneTurn
    <2>3. ~Turning(Top)
      BY <1>1 DEF Turning
    <2> QED BY <2>1, <2>2, <2>3, <1>3
  <1>5. \A x : ~CheckOn(stack, x) /\ ~RunOn(stack, x)
    BY <1>4 DEF CheckOn, RunOn, Turn, Turning
  <1>6. \A g \in FramesOf(stack) : WaitHolds(g)'
    BY <1>2, WaitsOn DEF arena, eagers, handles
  <1>7. \A g : Alike(g, g)
    BY DEF Alike
  <1>8. HandlesKept
    BY <1>2 DEF HandlesKept, handles
  <1>9. \A m \in Ids : ~busy[m] /\ (Clean(m) <=> Clean(m)')
    <2>1. ~Recomputing(Top)
      BY <1>1 DEF Recomputing
    <2>2. NoneRecomputing(stack)
      BY <2>1, <1>0, <1>1, QuietBelow DEF Top
    <2>3. \A m \in Ids : ~busy[m]
      BY <2>2, NoneBusy
    <2> QED BY <2>3, <1>2 DEF Clean, IsSlot, arena
  <1>10. CASE pending = << >>
    <2>1. scheduled = {} /\ ~flushing' /\ stack' = Rest /\ scheduled' = scheduled
      <3>1. \A p \in DOMAIN pending : FALSE
        BY <1>10
      <3> QED BY <3>1, <1>0, <1>10 DEF StepFlush, QueueSound
    <2>2. FramesOf(stack)' = FramesOf(Rest) /\ StackForm(stack)'
      <3>1. FramesOf(stack)' = FramesOf(Rest) /\ (StackForm(stack)' <=> StackForm(Rest))
        BY <2>1 DEF FramesOf, StackForm
      <3> QED BY <3>1, <1>3
    <2>3. StackKept'
      BY <1>4, <1>9, <1>2, <2>1, <2>2 DEF StackKept, Flushes, BusyShown
    <2>4. \A x : ~CheckOn(stack, x)' /\ ~RunOn(stack, x)'
      BY <1>3, <1>4, <2>2 DEF CheckOn, RunOn, Turn, Turning
    <2>5. ASSUME NEW x \in Ids, IsEffect(x)' PROVE EffectSame(x)
      <3>1. IsEffect(x) /\ EffectStays(x)
        BY <1>2, <2>1, <2>5, EffectSettled DEF IsEffect, arena
      <3> QED BY <3>1, <1>2, <1>5, <1>9, <2>4 DEF EffectSame
    <2>6. \A g \in FramesOf(stack') : FrameReacts(g)
      BY <1>3, <1>4, <1>6, <1>7, <2>2 DEF FrameReacts, FrameStays
    <2>7. ProgramLive'
      <3>1. AttachStays
        BY <1>1, <1>3, <1>7, <2>2 DEF AttachStays
      <3> QED BY <3>1, <1>0, <1>2, ProgramStays DEF arena, eagers, handles
    <2> QED BY <2>3, <2>5, <2>6, <2>7, <1>8, ReactsWhen
  <1>11. CASE pending # << >>
    <2>1. PICK i \in Ids : i = Head(pending) /\ i \in scheduled /\ IsEffect(i)
      <3>1. Head(pending) \in Ids
        BY <1>0, <1>11, TakeSound
      <3>2. pending \in Seq(Ids) /\ Len(pending) \in Nat /\ Len(pending) # 0
        BY <1>0, <1>11, LenProperties, EmptySeq DEF QueueSound
      <3>3. 1 \in DOMAIN pending /\ pending[1] = Head(pending)
        BY <3>2
      <3> QED BY <3>1, <3>3, <1>0 DEF QueueSound, IsEffect
    <2>2. PICK f : f = Check(i)
      OBVIOUS
    <2>3. /\ f \in Frame /\ f.op = "should" /\ f.id = i /\ f.gen = gen[i] /\ f.code = code[i]
          /\ f.todo = deps[i] /\ f.due = force[i]
      BY <1>0, <2>1, <2>2, CheckSound DEF GraphInv
    <2>4. scheduled' = scheduled \ {i} /\ stack' = Push(f, stack) /\ flushing' = flushing
      BY <1>11, <2>1, <2>2 DEF StepFlush, IsEffect
    <2>5. PICK s : s = Push(f, stack)
      OBVIOUS
    <2>6. StackForm(s) /\ FramesOf(s) = {f} \cup FramesOf(stack)
      <3>1. Fits(f, FramesOf(stack))
        BY <1>1, <1>3, <1>4, <2>3 DEF Fits
      <3> QED BY <3>1, <1>0, <2>3, <2>5, FormOfPush, FramesOfPush
    <2>7. FramesOf(stack)' = {f} \cup FramesOf(stack) /\ StackForm(stack)'
      <3>1. stack' = s
        BY <2>4, <2>5
      <3>2. FramesOf(stack)' = FramesOf(s) /\ (StackForm(stack)' <=> StackForm(s))
        BY <3>1 DEF FramesOf, StackForm
      <3> QED BY <3>2, <2>6
    <2>8. StackKept'
      <3>1. Flushes(stack) /\ Flushes(stack)'
        BY <1>1, <1>3, <2>7 DEF Flushes
      <3> QED BY <3>1, <1>0, <1>9, <1>2, <2>4, <2>7 DEF StackKept, BusyShown
    <2>9. /\ \A x : x # i => ~CheckOn(stack, x)' /\ ~RunOn(stack, x)'
          /\ CheckOn(stack, i)' /\ ~RunOn(stack, i)'
      <3>1. \A x : x # i => ~CheckOn(s, x) /\ ~RunOn(s, x)
        BY <1>4, <2>3, <2>6 DEF CheckOn, RunOn, Turn, Turning
      <3>2. CheckOn(s, i) /\ ~RunOn(s, i)
        BY <1>4, <2>3, <2>6 DEF CheckOn, RunOn, Turn, Turning
      <3> QED BY <3>1, <3>2, <2>4, <2>5 DEF CheckOn, RunOn, Turn
    <2>10. EffectSound(i)'
      <3>1. EffectSound(i)
        BY <2>1 DEF ReactParts, EffectsSound
      <3>2. ~force[i] => SeenHolds(i)
        BY <3>1, <1>5 DEF EffectSound
      <3>3. SeenHolds(i) => SeenHolds(i)'
        BY <1>2 DEF SeenHolds, LogHolds, EntryHolds, EntryOf, EntryOp, arena, handles
      <3> QED BY <3>2, <3>3, <1>2, <2>9 DEF EffectSound, Owed
    <2>11. ASSUME NEW x \in Ids, IsEffect(x)' PROVE EffectSound(x)' \/ EffectSame(x)
      <3> SUFFICES ASSUME x # i PROVE EffectSame(x)
        BY <2>10
      <3>1. IsEffect(x) /\ EffectStays(x)
        BY <1>2, <2>4, <2>11, EffectSettled DEF IsEffect, arena
      <3> QED BY <3>1, <1>2, <1>5, <1>9, <2>9 DEF EffectSame
    <2>12. TurnHolds(f)' /\ WaitHolds(f)'
      <3>1. (IsEffect(f.id) /\ gen[f.id] = f.gen /\ code[f.id] = f.code)'
        BY <1>2, <2>1, <2>3 DEF IsEffect, arena
      <3>2. ShouldHolds(f)'
        <4>1. \A m \in Ids : i \in dpts[m] => m \in deps[i]
          BY <1>0 DEF EdgesMatch
        <4> QED BY <4>1, <2>3, <1>2 DEF ShouldHolds
      <3> QED BY <3>1, <3>2, <2>3 DEF TurnHolds, WaitHolds
    <2>13. \A g \in FramesOf(stack') : FrameReacts(g)
      BY <1>4, <1>6, <1>7, <2>7, <2>12 DEF FrameReacts, FrameStays
    <2>14. ProgramLive'
      <3>1. AttachStays
        BY <1>7, <2>7 DEF AttachStays
      <3> QED BY <3>1, <1>0, <1>2, ProgramStays DEF arena, eagers, handles
    <2> QED BY <2>8, <2>11, <2>13, <2>14, <1>8, ReactsWhen
  <1> QED BY <1>10, <1>11

\* A call that waited goes on: no effect notices, as the nodes, the edges and the
\* queue are what they were and no turn is on.
LEMMA PopWaiting ==
  ASSUME Undisturbed, GraphInv, CacheInv, ReactParts, stack # << >>, Top.op \in {"made", "attach"},
         stack' = Rest,
         UNCHANGED <<arena, val, dirty, force, busy, dpts, scheduled, flushing, batchDepth, batched, seen>>,
         HandlesKept, ProgramLive', \A g \in FramesOf(Rest) : WaitHolds(g)'
  PROVE  ReactParts'
  <1>1. ~Recomputing(Top) /\ ~Turning(Top)
    BY DEF Recomputing, Turning
  <1>2. /\ Top \in Frame /\ Top \in FramesOf(stack) /\ FramesOf(stack) = {Top} \cup FramesOf(stack')
        /\ StackForm(stack)' /\ BusyShown(stack)'
        /\ \A m \in Ids : ~busy[m]
        /\ Flushes(stack) <=> Flushes(stack)'
    BY <1>1, Popped
  <1>3. StackKept'
    BY <1>2 DEF ReactParts, StackKept
  <1>4. /\ \A x : (CheckOn(stack, x) <=> CheckOn(stack, x)') /\ (RunOn(stack, x) <=> RunOn(stack, x)')
    BY <1>1, <1>2 DEF CheckOn, RunOn, Turn, Turning, FramesOf
  <1>5. \A m \in Ids : Clean(m) <=> Clean(m)'
    BY DEF Clean, IsSlot, arena
  <1>6. ASSUME NEW x \in Ids, IsEffect(x) PROVE EffectStays(x) /\ EffectSame(x) /\ FreshStays(x)
    <2>1. EffectStays(x)
      BY EffectSettled DEF arena
    <2> QED BY <2>1, <1>4, <1>5, <1>6 DEF EffectSame, FreshStays, Fresh
  <1>7. \A x \in Ids : IsEffect(x)' => EffectSame(x)
    BY <1>6 DEF IsEffect, arena
  <1>8. ASSUME NEW g \in FramesOf(stack') PROVE FrameReacts(g)
    <2>1. g \in FramesOf(stack) /\ WaitHolds(g)' /\ Alike(g, g)
      BY <1>2, <1>8 DEF FramesOf, Alike
    <2>2. Turning(g) => EffectStays(g.id) /\ FreshStays(g.id)
      <3> SUFFICES ASSUME Turning(g) PROVE EffectStays(g.id) /\ FreshStays(g.id)
        OBVIOUS
      <3>1. g.id \in Ids /\ IsEffect(g.id)
        BY <2>1, StackHas DEF ReactParts, TurnsHold, TurnHolds, Frame
      <3> QED BY <3>1, <1>6
    <2> QED BY <2>1, <2>2 DEF FrameReacts, FrameStays
  <1> QED BY <1>3, <1>7, <1>8, ReactsWhen

LEMMA StepMadeReacts ==
  ASSUME Undisturbed, GraphInv, GraphInv', CacheInv, ReactParts, StepMade
  PROVE  ReactParts'
  <1>1. /\ stack # << >> /\ Top.op = "made" /\ stack' = Rest
        /\ UNCHANGED <<arena, flags, eagers, edges, sched, batches, nmade, seen>>
        /\ made' = [made EXCEPT ![Top.code] = [id |-> Top.id, gen |-> gen[Top.id]]]
    BY DEF StepMade
  <1>2. /\ Top \in FramesOf(stack) /\ FramesOf(stack) = {Top} \cup FramesOf(Rest) /\ ProgramLive
    BY <1>1, StackHas, StackSplits DEF Top, Rest, ReactParts
  <1>3. PICK k \in Items : k = Top.code /\ Plan[k].kind = "effect" /\ k <= nmade
                           /\ IsEffect(Top.id) /\ code[Top.id] = k
    BY <1>1, <1>2 DEF ReactParts, TurnsHold, WaitHolds
  <1>4. \A j \in Items : j # k => made'[j] = made[j]
    BY <1>1, <1>3 DEF GraphInv, RestTyped
  <1>5. HandlesKept
    BY <1>3, <1>4 DEF HandlesKept
  <1>6. \A g \in FramesOf(Rest) : WaitHolds(g)'
    <2> SUFFICES ASSUME NEW g \in FramesOf(Rest) PROVE WaitHolds(g)'
      OBVIOUS
    <2>1. WaitHolds(g)
      BY <1>2 DEF ReactParts, TurnsHold
    <2>2. g.op = "attach" => made'[g.code] = made[g.code]
      BY <2>1, <1>3, <1>4 DEF WaitHolds
    <2> QED BY <1>1, <2>1, <2>2 DEF WaitHolds, IsEffect, arena, eagers
  <1>7. HandlesLive'
    <2> SUFFICES ASSUME NEW j \in Items, made'[j] # None
                 PROVE  (/\ j <= nmade /\ kind[made[j].id] = Plan[j].kind
                         /\ code[made[j].id] = j /\ gen[made[j].id] = made[j].gen)'
      BY DEF HandlesLive
    <2>1. CASE j = k
      <3>1. PICK h : h = [id |-> Top.id, gen |-> gen[Top.id]]
        OBVIOUS
      <3>2. h.id = Top.id /\ h.gen = gen[Top.id]
        BY <3>1
      <3>3. made'[k] = h
        BY <3>1, <1>1, <1>3 DEF GraphInv, RestTyped
      <3> QED BY <3>2, <3>3, <2>1, <1>1, <1>3 DEF IsEffect, arena
    <2>2. CASE j # k
      BY <1>1, <1>2, <1>4, <2>2 DEF ProgramLive, HandlesLive, arena
    <2> QED BY <2>1, <2>2
  <1>8. NodesLive'
    BY <1>1, <1>2 DEF ProgramLive, NodesLive, IsEffect, arena
  <1>9. PullersLive'
    <2>1. AttachStays
      <3>1. FramesOf(stack)' = FramesOf(Rest) /\ \A g : Alike(g, g)
        BY <1>1 DEF FramesOf, Alike
      <3> QED BY <3>1, <1>1, <1>2 DEF AttachStays
    <2>2. UNCHANGED <<kind, code, gen, eager, eagerBy>>
      BY <1>1 DEF arena, eagers
    <2>3. \A p, j : Pulls(p, j) => Pulls(p, j)'
      BY <2>1, <2>2, PullsStay
    <2>4. \A i \in Ids : IsSlot(i) => code[i] # k /\ code[i] \in Items
      BY <1>2, <1>3 DEF ProgramLive, NodesLive, IsSlot, GraphInv, ArenaKept
    <2>5. \A i \in Ids : eagerBy[i] # None =>
            /\ IsSlot(i) /\ made'[code[i]] # None
            /\ gen[eagerBy[i].id] = eagerBy[i].gen
            /\ IsEffect(eagerBy[i].id) /\ code[eagerBy[i].id] = Puller(code[i])
      BY <1>2, <1>4, <2>4 DEF ProgramLive, PullersLive
    <2>6. \A p \in Ids : kind[p] # "empty" /\ code[p] \notin Items =>
            \E j \in Items : code[p] = Puller(j) /\ Plan[j].kind = "slot" /\ made'[j] # None /\ Pulls(p, j)
      <3> SUFFICES ASSUME NEW p \in Ids, kind[p] # "empty", code[p] \notin Items
                   PROVE  \E j \in Items : code[p] = Puller(j) /\ Plan[j].kind = "slot" /\ made'[j] # None /\ Pulls(p, j)
        OBVIOUS
      <3>1. PICK j \in Items : code[p] = Puller(j) /\ Plan[j].kind = "slot" /\ made[j] # None /\ Pulls(p, j)
        BY <1>2 DEF ProgramLive, PullersLive
      <3> QED BY <3>1, <1>3, <1>4
    <2>7. \A i \in Ids : eager[i] <=> eagerBy[i] # None
      BY <1>2 DEF ProgramLive, PullersLive
    <2> QED BY <2>2, <2>3, <2>5, <2>6, <2>7 DEF PullersLive, IsSlot, IsEffect
  <1>10. UNCHANGED <<arena, val, dirty, force, busy, dpts, scheduled, flushing, batchDepth, batched, seen>>
    BY <1>1 DEF flags, edges, sched, batches
  <1>11. ProgramLive'
    BY <1>7, <1>8, <1>9 DEF ProgramLive
  <1> QED BY <1>1, <1>5, <1>6, <1>10, <1>11, PopWaiting

LEMMA StepAttachReacts ==
  ASSUME Undisturbed, GraphInv, GraphInv', CacheInv, ReactParts, StepAttach
  PROVE  ReactParts'
  <1>1. /\ stack # << >> /\ Top.op = "attach" /\ stack' = Rest
        /\ UNCHANGED <<arena, flags, edges, sched, batches, handles, seen>>
    BY DEF StepAttach
  <1>2. /\ Top \in Frame /\ Top \in FramesOf(stack) /\ FramesOf(stack) = {Top} \cup FramesOf(Rest)
        /\ Fits(Top, FramesOf(Rest)) /\ ProgramLive
    BY <1>1, StackHas, StackSplits DEF Top, Rest, ReactParts, StackKept
  <1>3. PICK k \in Items : k = Top.code
    BY <1>1, <1>2 DEF ReactParts, TurnsHold, WaitHolds
  <1>4. PICK p \in Ids : p = Top.id
    BY <1>2 DEF Frame
  <1>5. /\ Plan[k].kind = "slot" /\ made[k] # None
        /\ IsEffect(p) /\ code[p] = Puller(k) /\ ~eager[made[k].id]
    BY <1>1, <1>2, <1>3, <1>4 DEF ReactParts, TurnsHold, WaitHolds
  <1>6. PICK s \in Ids : s = made[k].id /\ IsSlot(s) /\ code[s] = k
    BY <1>2, <1>5, MadeTyped DEF ProgramLive, HandlesLive, IsSlot, GraphInv
  <1>7. PICK h : h = [id |-> p, gen |-> gen[p]]
    OBVIOUS
  <1>8. h # None /\ h.id = p /\ h.gen = gen[p]
    <2>1. h \in Handle
      BY <1>7 DEF Handle, GraphInv, ArenaKept
    <2> QED BY <2>1, <1>7, NoneAssumption
  <1>9. eager'[s] /\ eagerBy'[s] = h /\ \A i \in Ids \ {s} : eager'[i] = eager[i] /\ eagerBy'[i] = eagerBy[i]
    <2>1. eager' = [eager EXCEPT ![s] = IsSlot(s)] /\ eagerBy' = [eagerBy EXCEPT ![s] = h]
      BY <1>3, <1>4, <1>6, <1>7 DEF StepAttach
    <2> QED BY <2>1, <1>6 DEF GraphInv, RestTyped
  <1>10. \A g \in FramesOf(Rest) : WaitHolds(g)'
    <2> SUFFICES ASSUME NEW g \in FramesOf(Rest) PROVE WaitHolds(g)'
      OBVIOUS
    <2>1. WaitHolds(g) /\ g.op # "attach"
      BY <1>1, <1>2 DEF ReactParts, TurnsHold, Fits
    <2> QED BY <1>1, <2>1 DEF WaitHolds, handles, arena, IsEffect
  <1>11. UNCHANGED <<kind, code, gen, made, nmade>>
    BY <1>1 DEF arena, handles
  <1>12. HandlesLive' /\ NodesLive'
    BY <1>2, <1>11 DEF ProgramLive, HandlesLive, NodesLive, IsEffect
  <1>13. PullersLive'
    <2>1. \A i \in Ids : eager'[i] <=> eagerBy'[i] # None
      BY <1>2, <1>8, <1>9 DEF ProgramLive, PullersLive
    <2>2. \A i \in Ids : eagerBy'[i] # None =>
            /\ IsSlot(i) /\ made[code[i]] # None
            /\ gen[eagerBy'[i].id] = eagerBy'[i].gen
            /\ IsEffect(eagerBy'[i].id) /\ code[eagerBy'[i].id] = Puller(code[i])
      BY <1>2, <1>5, <1>6, <1>8, <1>9 DEF ProgramLive, PullersLive
    <2>3. ASSUME NEW q, NEW j, Pulls(q, j) PROVE Pulls(q, j)'
      <3>1. CASE \E i \in Ids : eagerBy[i] # None /\ eagerBy[i].id = q /\ code[i] = j
        <4>1. PICK i \in Ids : eagerBy[i] # None /\ eagerBy[i].id = q /\ code[i] = j
          BY <3>1
        <4>2. i # s
          BY <4>1, <1>2, <1>5, <1>6 DEF ProgramLive, PullersLive
        <4>3. eagerBy'[i] # None /\ eagerBy'[i].id = q /\ code'[i] = j
          BY <4>1, <4>2, <1>9, <1>11
        <4> QED BY <4>3 DEF Pulls
      <3>2. CASE Attaching(stack, q, j)
        <4>1. PICK g \in FramesOf(stack) : g.op = "attach" /\ g.id = q /\ g.code = j
          BY <3>2 DEF Attaching
        <4>2. g = Top
          BY <4>1, <1>1, <1>2 DEF Fits
        <4>3. eagerBy'[s] # None /\ eagerBy'[s].id = q /\ code'[s] = j
          BY <4>1, <4>2, <1>3, <1>4, <1>6, <1>8, <1>9, <1>11
        <4> QED BY <4>3 DEF Pulls
      <3> QED BY <2>3, <3>1, <3>2 DEF Pulls
    <2>4. \A q \in Ids : kind[q] # "empty" /\ code[q] \notin Items =>
            \E j \in Items : code[q] = Puller(j) /\ Plan[j].kind = "slot" /\ made[j] # None /\ Pulls(q, j)'
      BY <1>2, <2>3 DEF ProgramLive, PullersLive
    <2> QED BY <2>1, <2>2, <2>4, <1>11 DEF PullersLive, IsSlot, IsEffect
  <1>14. UNCHANGED <<arena, val, dirty, force, busy, dpts, scheduled, flushing, batchDepth, batched, seen>>
    BY <1>1 DEF flags, edges, sched, batches
  <1>15. ProgramLive' /\ HandlesKept
    BY <1>11, <1>12, <1>13 DEF ProgramLive, HandlesKept
  <1> QED BY <1>1, <1>10, <1>14, <1>15, PopWaiting

\* What is known of a log when the closure is told r for its next operation.
NextHolds(e, c, log, r, late) ==
  IF Code(c, log).do = "get"
  THEN /\ made[Code(c, log).of] # None /\ r # None
       /\ e \in dpts[made[Code(c, log).of].id]
       /\ r = val[made[Code(c, log).of].id] \/ made[Code(c, log).of].id \in late
  ELSE r = None

LEMMA LogExtends ==
  ASSUME NEW e, NEW c, NEW log \in Logs, NEW r \in Results, NEW next, next = Append(log, r),
         LogHolds(e, c, log, batched.cells)', NextHolds(e, c, log, r, batched.cells)'
  PROVE  LogHolds(e, c, next, batched.cells)'
  <1>1. /\ Len(log) \in Nat /\ Len(next) = Len(log) + 1 /\ next[Len(log) + 1] = r
        /\ SubSeq(next, 1, Len(log)) = log
        /\ \A n \in 1..Len(log) : next[n] = log[n] /\ SubSeq(next, 1, n - 1) = SubSeq(log, 1, n - 1)
    BY LogNext
  <1> SUFFICES ASSUME NEW n \in 1..Len(next) PROVE EntryHolds(e, c, next, n, batched.cells)'
    BY DEF LogHolds
  <1>2. CASE n <= Len(log)
    <2>1. n \in 1..Len(log)
      BY <1>1, <1>2
    <2>2. EntryHolds(e, c, log, n, batched.cells)'
      BY <2>1 DEF LogHolds
    <2>3. next[n] = log[n] /\ EntryOp(c, next, n) = EntryOp(c, log, n)
      BY <1>1, <2>1 DEF EntryOp
    <2> QED BY <2>2, <2>3 DEF EntryHolds, EntryOf, EntryOp
  <1>3. CASE n > Len(log)
    <2>1. n = Len(log) + 1 /\ n - 1 = Len(log)
      BY <1>1, <1>3
    <2>2. EntryOp(c, next, n) = Code(c, log) /\ next[n] = r
      BY <1>1, <2>1 DEF EntryOp
    <2> QED BY <2>2 DEF EntryHolds, EntryOf, EntryOp, NextHolds
  <1> QED BY <1>1, <1>2, <1>3

\* An effect reads: f is how its run goes on, under what refreshes for it.
LEMMA RunGoesOn ==
  ASSUME Undisturbed, GraphInv, CacheInv, ReactParts, stack # << >>, Top.op = "effect",
         NEW f \in Frame, f.op = "effect", f.id = Top.id, f.gen = Top.gen, f.code = Top.code,
         NEW s, s = Push(f, Rest), Kin(s, stack'), Kin(stack', s), StackForm(stack)', BusyShown(stack)',
         UNCHANGED <<arena, val, dirty, force, eagers, scheduled, flushing, batchDepth, batched, handles, seen>>,
         \A x \in Ids \ {Top.id} : \A m \in Ids : x \in dpts'[m] <=> x \in dpts[m],
         RunHolds(f)'
  PROVE  ReactParts'
  <1>0. /\ stack \in Seq(Frame) /\ FramesHold(stack, {}) /\ StackForm(stack) /\ StackKept
    BY CacheInvParts DEF ReactParts, StackKept
  <1>1. /\ Top \in FramesOf(stack) /\ FramesOf(stack) = {Top} \cup FramesOf(Rest)
        /\ Fits(Top, FramesOf(Rest)) /\ Turning(Top) /\ ~Recomputing(Top)
    BY <1>0, StackSplits DEF Top, Rest, Turning, Recomputing
  <1>2. FramesOf(s) = {f} \cup FramesOf(Rest) /\ StackForm(s)
    BY <1>0, RetopForm DEF Top, Rest
  <1>3. PICK e \in Ids : e = Top.id
    BY DEF Frame
  <1>4. IsEffect(e) /\ gen[e] = Top.gen /\ code[e] = Top.code /\ EffectSound(e)
    BY <1>1, <1>3 DEF ReactParts, TurnsHold, TurnHolds, EffectsSound
  <1>5. \A g \in FramesOf(Rest) : ~Turning(g)
    BY <1>1 DEF Fits
  <1>6. \A m \in Ids : ~busy[m] /\ (Clean(m) <=> Clean(m)')
    <2>1. NoneRecomputing(stack)
      BY <1>0, <1>1, QuietBelow DEF Top
    <2> QED BY <2>1, NoneBusy DEF Clean, IsSlot, arena
  <1>7. /\ \A x : (CheckOn(stack, x) <=> CheckOn(stack, x)') /\ (RunOn(stack, x) <=> RunOn(stack, x)')
        /\ ~CheckOn(stack, e) /\ RunOn(stack, e)
    <2>1. \A x : (CheckOn(stack, x) <=> CheckOn(s, x)) /\ (RunOn(stack, x) <=> RunOn(s, x))
      BY <1>1, <1>2 DEF CheckOn, RunOn, Turn
    <2>2. \A x : (CheckOn(s, x) <=> CheckOn(stack, x)') /\ (RunOn(s, x) <=> RunOn(stack, x)')
      BY DEF CheckOn, RunOn, Turn, Kin, Kept, Alike
    <2>3. ~CheckOn(stack, e) /\ RunOn(stack, e)
      BY <1>1, <1>3, <1>5 DEF CheckOn, RunOn, Turn, Turning
    <2> QED BY <2>1, <2>2, <2>3
  <1>8. EffectSound(e)'
    <2>1. force[e] => e \in scheduled
      BY <1>4, <1>7 DEF EffectSound
    <2> QED BY <2>1, <1>7 DEF EffectSound, Owed
  <1>9. ASSUME NEW x \in Ids, IsEffect(x)' PROVE EffectSound(x)' \/ EffectSame(x)
    <2> SUFFICES ASSUME x # e PROVE EffectSame(x)
      BY <1>8
    <2>1. IsEffect(x)
      BY <1>9 DEF IsEffect, arena
    <2>2. EffectStays(x)
      BY <1>3 DEF EffectStays, ReadKept, arena
    <2> QED BY <2>1, <2>2, <1>6, <1>7 DEF EffectSame
  <1>10. TurnHolds(f)' /\ WaitHolds(f)'
    <2>1. (IsEffect(f.id) /\ gen[f.id] = f.gen /\ code[f.id] = f.code)'
      BY <1>3, <1>4 DEF IsEffect, arena
    <2> QED BY <2>1 DEF TurnHolds, WaitHolds
  <1>11. \A g \in FramesOf(stack) : WaitHolds(g)'
    BY WaitsOn DEF arena, eagers, handles
  <1>12. ASSUME NEW g \in FramesOf(stack') PROVE FrameReacts(g)
    <2> SUFFICES ASSUME Kept(g) PROVE FrameReacts(g)
      BY DEF FrameReacts
    <2>1. PICK h \in FramesOf(s) : Alike(h, g)
      BY <1>12 DEF Kin
    <2>2. CASE h = f
      <3>1. /\ g.op = f.op /\ g.id = f.id /\ g.gen = f.gen /\ g.code = f.code
            /\ g.log = f.log /\ g.todo = f.todo /\ g.pulled = f.pulled /\ g.due = f.due
        BY <2>1, <2>2 DEF Alike
      <3>2. TurnHolds(g)' /\ WaitHolds(g)'
        BY <3>1, <1>10 DEF TurnHolds, WaitHolds, Turning, RunHolds, PulledHolds
      <3> QED BY <3>2 DEF FrameReacts
    <2>3. CASE h # f
      <3>1. h \in FramesOf(stack) /\ ~Turning(h)
        BY <1>1, <1>2, <1>5, <2>1, <2>3
      <3> QED BY <3>1, <2>1, <1>11 DEF FrameReacts, FrameStays
    <2> QED BY <2>2, <2>3
  <1>13. ProgramLive'
    <2>1. AttachStays
      <3> SUFFICES ASSUME NEW g \in FramesOf(stack), g.op = "attach" PROVE \E h \in FramesOf(stack') : Alike(h, g)
        BY DEF AttachStays
      <3>1. g \in FramesOf(s) /\ Kept(g)
        BY <1>1, <1>2 DEF Kept
      <3> QED BY <3>1 DEF Kin
    <2> QED BY <2>1, ProgramStays DEF ReactParts, arena, eagers, handles
  <1>14. StackKept'
    <2>1. Flushes(stack) <=> Flushes(s)
      BY <1>1, <1>2 DEF Flushes
    <2>2. Flushes(s) <=> Flushes(stack)'
      BY DEF Flushes, Kin, Kept, Alike
    <2> QED BY <2>1, <2>2, <1>0 DEF StackKept
  <1>15. HandlesKept
    BY DEF HandlesKept, handles
  <1> QED BY <1>9, <1>12, <1>13, <1>14, <1>15, ReactsWhen

\* A read of node i goes down to its refresh, or reads at once, or reads what was
\* refreshed for it.
GetEnters(i) == /\ ~Top.pulled /\ Track(i, Top) /\ IsSlot(i) /\ ~Clean(i)
                /\ EnterRefresh(i, Push([Top EXCEPT !.pulled = TRUE], Rest))
GetReads(i)  == /\ ~Top.pulled /\ Track(i, Top) /\ (IsSlot(i) => Clean(i))
                /\ stack' = Resume(val[i]) /\ UNCHANGED busy
GetReturns(i) == /\ Top.pulled /\ IsSlot(i)
                 /\ stack' = Resume(val[i]) /\ UNCHANGED busy /\ UNCHANGED edges
GetOf(k, i) ==
  /\ InClosure /\ Code(Top.code, Top.log).do = "get" /\ Code(Top.code, Top.log).of = k
  /\ made[k] # None /\ i = made[k].id /\ kind[i] = Plan[k].kind /\ Plan[k].kind \in {"cell", "slot"}
  /\ GetEnters(i) \/ GetReads(i) \/ GetReturns(i)

LEMMA TopTurn ==
  ASSUME GraphInv, CacheInv, ReactParts, stack # << >>
  PROVE  /\ Top \in Frame /\ Top \in FramesOf(stack)
         /\ Top.op = "effect" => IsEffect(Top.id) /\ gen[Top.id] = Top.gen /\ code[Top.id] = Top.code /\ RunHolds(Top)
         /\ Top.op = "compute" => FrameHolds(Top, {}) /\ ComputeHolds(Top, {})
  <1>0. stack \in Seq(Frame) /\ FramesHold(stack, {})
    BY CacheInvParts
  <1>1. Top \in Frame /\ Top \in FramesOf(stack)
    BY <1>0, StackSplits DEF Top
  <1>2. ASSUME Top.op = "effect" PROVE IsEffect(Top.id) /\ gen[Top.id] = Top.gen /\ code[Top.id] = Top.code /\ RunHolds(Top)
    BY <1>1, <1>2 DEF ReactParts, TurnsHold, TurnHolds, Turning
  <1>3. ASSUME Top.op = "compute" PROVE FrameHolds(Top, {}) /\ ComputeHolds(Top, {})
    <2>1. FrameHolds(Top, {})
      BY <1>0, <1>3, FramesPop DEF Top, Recomputing
    <2> QED BY <2>1, <1>3 DEF FrameHolds
  <1> QED BY <1>1, <1>2, <1>3

\* A closure that runs gets values of cells and computed cells.
LEMMA GetIs ==
  ASSUME PureSlots, Undisturbed, GraphInv, CacheInv, ReactParts, ClosureGet
  PROVE  \E k \in Items, i \in Ids : GetOf(k, i)
  <1> DEFINE asked == [Top EXCEPT !.pulled = TRUE]
  <1>1. PICK k \in Items :
          /\ Asks([do |-> "get", of |-> k]) /\ made[k] # None
          /\ LET i == made[k].id IN
             IF ~Top.pulled THEN
               /\ Track(i, Top)
               /\ CASE IsSlot(i) /\ Plan[k].kind = "slot" /\ ~Clean(i) -> EnterRefresh(i, Push(asked, Rest))
                    [] kind[i] = Plan[k].kind /\ (IsSlot(i) => Clean(i)) ->
                         stack' = Resume(val[i]) /\ UNCHANGED busy
                    [] OTHER -> Unwind
             ELSE /\ IF IsSlot(i) THEN stack' = Resume(val[i]) /\ UNCHANGED busy ELSE Unwind
                  /\ UNCHANGED edges
    BY DEF ClosureGet
  <1>2. PICK i \in Ids : i = made[k].id
    BY <1>1, MadeTyped DEF GraphInv
  <1>3. /\ stack # << >> /\ Top.op \in {"compute", "effect"} /\ InClosure
        /\ Code(Top.code, Top.log).do = "get" /\ Code(Top.code, Top.log).of = k
    BY <1>1 DEF Asks, InClosure
  <1>4. /\ Top \in Frame /\ Top \in FramesOf(stack)
        /\ Top.op = "effect" => IsEffect(Top.id) /\ gen[Top.id] = Top.gen /\ code[Top.id] = Top.code /\ RunHolds(Top)
        /\ Top.op = "compute" => FrameHolds(Top, {}) /\ ComputeHolds(Top, {})
    BY <1>3, TopTurn
  <1>5. Top.log \in Logs /\ Top.id \in Ids
    BY <1>4 DEF Frame
  <1>6. Plan[k].kind # "effect"
    <2>1. CASE Top.op = "effect"
      <3>1. EffectCode(Top.code)
        BY <2>1, <1>4, <1>5, EffectsGet DEF ReactParts, ProgramLive
      <3> QED BY <3>1, <1>3, <1>5 DEF EffectCode
    <2>2. CASE Top.op = "compute"
      <3>1. IsSlot(Top.id) /\ code[Top.id] = Top.code
        BY <2>2, <1>4 DEF FrameHolds
      <3>2. Top.code \in Items /\ Plan[Top.code].kind = "slot"
        BY <3>1, <1>5, CacheInvParts DEF PlanKept, ArenaKept, IsSlot
      <3>3. Body(Top.code, Top.log).do = "get" /\ Body(Top.code, Top.log).of = k
        BY <3>2, <1>3 DEF Code
      <3> QED BY <3>2, <3>3, <1>5 DEF PureSlots
    <2> QED BY <1>3, <2>1, <2>2
  <1>7. Plan[k].kind \in {"cell", "slot"}
    BY <1>6, PlanTyped DEF Kinds
  <1>8. kind[i] = Plan[k].kind
    BY <1>1, <1>2, <1>6 DEF ReactParts, ProgramLive, HandlesLive
  <1>9. CASE ~Top.pulled
    <2>1. Track(i, Top)
      BY <1>1, <1>2, <1>9
    <2>2. CASE IsSlot(i) /\ ~Clean(i)
      <3>1. EnterRefresh(i, Push(asked, Rest))
        BY <2>2, <1>1, <1>2, <1>8, <1>9 DEF IsSlot
      <3> QED BY <3>1, <2>1, <2>2, <1>1, <1>2, <1>3, <1>7, <1>8, <1>9 DEF GetOf, GetEnters
    <2>3. CASE ~(IsSlot(i) /\ ~Clean(i))
      <3>1. stack' = Resume(val[i]) /\ UNCHANGED busy
        BY <2>3, <1>1, <1>2, <1>8, <1>9
      <3> QED BY <3>1, <2>1, <2>3, <1>1, <1>2, <1>3, <1>7, <1>8, <1>9 DEF GetOf, GetReads
    <2> QED BY <2>2, <2>3
  <1>10. CASE Top.pulled
    <2>1. IsSlot(i)
      <3>1. CASE Top.op = "effect"
        <4>1. PulledHolds(Top)
          BY <3>1, <1>4, <1>10 DEF RunHolds
        <4>2. Plan[k].kind = "slot"
          BY <4>1, <1>3 DEF PulledHolds
        <4> QED BY <4>2, <1>8 DEF IsSlot
      <3>2. CASE Top.op = "compute"
        <4>1. Plan[Pulled(Top).of].kind = "slot" /\ Top.code \in Items
          BY <3>2, <1>4, <1>10, TopSound DEF ComputeHolds, FrameHolds, GraphInv, ArenaKept, IsSlot, Frame
        <4>2. Pulled(Top).of = k
          BY <4>1, <1>3 DEF Pulled, Code
        <4> QED BY <4>1, <4>2, <1>8 DEF IsSlot
      <3> QED BY <1>3, <3>1, <3>2
    <2>2. stack' = Resume(val[i]) /\ UNCHANGED busy /\ UNCHANGED edges
      BY <2>1, <1>1, <1>2, <1>10
    <2> QED BY <2>1, <2>2, <1>1, <1>2, <1>3, <1>7, <1>8, <1>10 DEF GetOf, GetReturns
  <1> QED BY <1>9, <1>10

LEMMA TopGoes ==
  ASSUME stack \in Seq(Frame), stack # << >>, StackForm(stack), BusyShown(stack),
         NEW f \in Frame, f.op = Top.op, f.id = Top.id, NEW s, s = Push(f, Rest)
  PROVE  /\ s \in Seq(Frame) /\ s # << >> /\ StackForm(s) /\ FramesOf(s) = {f} \cup FramesOf(Rest)
         /\ BusyShown(s)
         /\ Top.op = "compute" => Kin(stack, s) /\ Kin(s, stack)
  <1>1. s \in Seq(Frame) /\ s # << >> /\ StackForm(s) /\ FramesOf(s) = {f} \cup FramesOf(Rest)
    BY RetopForm DEF Top, Rest
  <1>2. FramesOf(stack) = {Top} \cup FramesOf(Rest)
    BY StackSplits DEF Top, Rest
  <1>3. Shows(stack, s)
    BY <1>1, <1>2 DEF Shows, Recomputing
  <1>4. ASSUME Top.op = "compute" PROVE Kin(stack, s) /\ Kin(s, stack)
    <2>1. ~Kept(f) /\ ~Kept(Top)
      BY <1>4 DEF Kept
    <2>2. \A g : Alike(g, g)
      BY DEF Alike
    <2> QED BY <1>1, <1>2, <2>1, <2>2 DEF Kin
  <1> QED BY <1>1, <1>3, <1>4, BusyMoves

LEMMA ClosureGetReacts ==
  ASSUME PureSlots, Undisturbed, GraphInv, GraphInv', CacheInv, ReactParts, ClosureGet, stack' # << >>
  PROVE  ReactParts'
  <1>0. /\ stack \in Seq(Frame) /\ FramesHold(stack, {}) /\ EdgesKept /\ ArenaKept /\ FlagsTyped /\ PlanKept
        /\ busy \in [Ids -> BOOLEAN] /\ StackForm(stack) /\ BusyShown(stack) /\ StackKept
        /\ dpts \in [Ids -> SUBSET Ids]
    BY CacheInvParts DEF ReactParts, StackKept, FlagsTyped
  <1>1. PICK k \in Items, i \in Ids : GetOf(k, i)
    BY GetIs
  <1>2. UNCHANGED <<arena, val, dirty, force, eagers, scheduled, flushing, batchDepth, batched, handles, seen>>
    BY DEF ClosureGet, sched, batches
  <1>3. /\ stack # << >> /\ Top.op \in {"compute", "effect"} /\ InClosure
        /\ Code(Top.code, Top.log).do = "get" /\ Code(Top.code, Top.log).of = k
        /\ made[k] # None /\ i = made[k].id /\ kind[i] = Plan[k].kind /\ kind[i] \in {"cell", "slot"}
    BY <1>1 DEF GetOf, InClosure
  <1>4. /\ Top \in Frame /\ Top \in FramesOf(stack)
        /\ Top.op = "effect" => IsEffect(Top.id) /\ gen[Top.id] = Top.gen /\ code[Top.id] = Top.code /\ RunHolds(Top)
        /\ Top.op = "compute" => FrameHolds(Top, {}) /\ ComputeHolds(Top, {})
    BY <1>3, TopTurn
  <1>5. PICK c \in Ids : c = Top.id
    BY <1>4 DEF Frame
  <1>6. /\ \A j \in Ids \ {c} : \A d \in Ids : j \in dpts'[d] <=> j \in dpts[d]
        /\ \A d \in Ids : d # i => dpts'[d] = dpts[d]
        /\ \A d \in Ids : c \in dpts[d] => c \in dpts'[d]
    <2>1. CASE Track(i, Top)
      <3>1. \A j \in Ids \ {c} : \A d \in Ids : j \in dpts'[d] <=> j \in dpts[d]
        BY <1>0, <1>4, <1>5, <2>1, TrackOnly
      <3>2. \A d \in Ids : (d # i => dpts'[d] = dpts[d]) /\ (c \in dpts[d] => c \in dpts'[d])
        BY <1>0, <1>5, <2>1 DEF Track, edges
      <3> QED BY <3>1, <3>2
    <2>2. CASE UNCHANGED edges
      BY <2>2 DEF edges
    <2> QED BY <1>1, <2>1, <2>2 DEF GetOf, GetEnters, GetReads, GetReturns
  <1>7. PICK asked : asked = [Top EXCEPT !.pulled = TRUE]
    OBVIOUS
  <1>8. /\ asked \in Frame /\ asked.op = Top.op /\ asked.id = Top.id /\ asked.gen = Top.gen
        /\ asked.code = Top.code /\ asked.log = Top.log /\ asked.pulled = TRUE
    BY <1>4, <1>7 DEF Frame
  <1>9. val[i] \in Results
    BY <1>0 DEF FlagsTyped, Results
  <1>10. PICK next \in Frame : /\ Resume(val[i]) = Push(next, Rest)
                               /\ next.op = Top.op /\ next.id = Top.id /\ next.gen = Top.gen /\ next.code = Top.code
                               /\ next.log = Append(Top.log, val[i]) /\ next.pulled = FALSE
    BY <1>0, <1>3, <1>9, ResumeIs
  <1>11. PICK f \in Frame : f = IF GetEnters(i) THEN asked ELSE next
    BY <1>8, <1>10
  <1>12. PICK s : s = Push(f, Rest)
    OBVIOUS
  <1>13. f.op = Top.op /\ f.id = Top.id /\ f.gen = Top.gen /\ f.code = Top.code
    BY <1>8, <1>10, <1>11
  <1>14. /\ s \in Seq(Frame) /\ s # << >> /\ StackForm(s) /\ FramesOf(s) = {f} \cup FramesOf(Rest)
         /\ BusyShown(s)
         /\ Top.op = "compute" => Kin(stack, s) /\ Kin(s, stack)
    BY <1>0, <1>3, <1>11, <1>12, <1>13, TopGoes
  <1>15. \A m \in Ids : Clean(m) <=> Clean(m)'
    BY <1>2 DEF Clean, IsSlot, arena
  <1>16. /\ StackForm(stack)' /\ BusyShown(stack)' /\ Kin(s, stack') /\ Kin(stack', s)
         /\ \A m \in Ids : busy[m] => busy'[m]
         /\ GetEnters(i) => busy'[i]
    <2>1. CASE GetEnters(i)
      <3>1. EnterRefresh(i, s)
        BY <2>1, <1>7, <1>11, <1>12 DEF GetEnters
      <3>2. /\ StackForm(stack)' /\ BusyShown(stack)' /\ Kin(s, stack') /\ Kin(stack', s)
            /\ busy'[i] /\ \A m \in Ids : busy[m] => busy'[m]
        <4>1. /\ ArenaKept /\ EdgesKept /\ busy \in [Ids -> BOOLEAN] /\ s \in Seq(Frame) /\ StackForm(s)
              /\ BusyShown(s)
          BY <1>0, <1>14
        <4> QED BY <4>1, <3>1, EnterForm
      <3> QED BY <3>2
    <2>2. CASE ~GetEnters(i)
      <3>1. stack' = s /\ busy' = busy
        BY <2>2, <1>1, <1>10, <1>11, <1>12 DEF GetOf, GetReads, GetReturns
      <3>2. FramesOf(stack)' = FramesOf(s) /\ (StackForm(stack)' <=> StackForm(s))
        BY <3>1 DEF FramesOf, StackForm
      <3>3. BusyShown(stack)' <=> BusyShown(s)
        BY <3>1, <3>2 DEF BusyShown, FramesOf
      <3>4. Kin(s, s)
        BY KinSame
      <3>5. Kin(s, stack') /\ Kin(stack', s)
        BY <3>1, <3>4
      <3> QED BY <2>2, <3>1, <3>2, <3>3, <3>5, <1>14
    <2> QED BY <2>1, <2>2
  <1>17. CASE Top.op = "compute"
    <2>1. IsSlot(c)
      BY <1>4, <1>5, <1>17 DEF FrameHolds
    <2>2. Calmly
      <3>1. \A e \in Ids : IsEffect(e) => \A m \in Ids : e \in dpts'[m] <=> e \in dpts[m]
        BY <2>1, <1>6 DEF IsEffect, IsSlot
      <3> QED BY <3>1, <1>2, <1>15, <1>16, CalmWhen DEF Fresh
    <2>3. Kin(stack, stack') /\ Kin(stack', stack)
      <3>1. PICK t : t = stack'
        OBVIOUS
      <3>2. Kin(stack, s) /\ Kin(s, stack) /\ Kin(s, t) /\ Kin(t, s)
        BY <3>1, <1>14, <1>16, <1>17
      <3>3. Kin(stack, t) /\ Kin(t, stack)
        BY <3>2, KinThrough
      <3> QED BY <3>1, <3>3
    <2>4. StackKept'
      BY <2>3, <1>0, <1>2, <1>16, StackGoesOn DEF StackKept
    <2> QED BY <2>2, <2>3, <2>4, CalmKeeps
  <1>18. CASE Top.op = "effect"
    <2>1. IsEffect(c) /\ gen[c] = Top.gen /\ c # i /\ RunHolds(Top) /\ code[c] = Top.code
      BY <1>3, <1>4, <1>5, <1>18 DEF IsEffect
    <2>2. NoneRecomputing(stack)
      BY <1>0, <1>3, <1>18, QuietBelow DEF Top, Recomputing
    <2>3. \A m \in Ids : Fresh(m) => Clean(m)
      BY <2>2, NoneBusy
    <2>4. c \in dpts'[i]
      <3>1. CASE Track(i, Top)
        BY <1>0, <1>3, <1>5, <2>1, <3>1 DEF Track
      <3>2. CASE GetReturns(i)
        <4>1. PulledHolds(Top)
          BY <2>1, <3>2 DEF RunHolds, GetReturns
        <4> QED BY <4>1, <1>3, <1>5, <1>6 DEF PulledHolds
      <3> QED BY <1>1, <3>1, <3>2 DEF GetOf, GetEnters, GetReads
    <2>5. IsSlot(i) => Fresh(i)'
      <3>1. CASE GetEnters(i)
        BY <3>1, <1>16 DEF Fresh
      <3>2. CASE GetReads(i)
        BY <3>2, <1>15 DEF GetReads, Fresh
      <3>3. CASE GetReturns(i)
        <4>1. PulledHolds(Top)
          BY <2>1, <3>3 DEF RunHolds, GetReturns
        <4> QED BY <4>1, <2>3, <1>3, <1>15 DEF PulledHolds, Fresh
      <3> QED BY <1>1, <3>1, <3>2, <3>3 DEF GetOf
    <2>6. RunHolds(f)'
      <3>1. c \notin scheduled => \A m \in Ids : IsSlot(m) /\ c \in dpts'[m] => Fresh(m)'
        <4> SUFFICES ASSUME c \notin scheduled, NEW m \in Ids, IsSlot(m), c \in dpts'[m], m # i PROVE Fresh(m)'
          BY <2>5
        <4>1. c \in dpts[m]
          BY <1>6
        <4>2. Fresh(m)
          BY <4>1, <2>1, <1>5 DEF RunHolds
        <4> QED BY <4>2, <1>15, <1>16 DEF Fresh
      <3>2. ASSUME ~force[c] PROVE LogHolds(c, f.code, f.log, batched.cells)'
        <4>1. LogHolds(c, Top.code, Top.log, batched.cells)
          BY <3>2, <2>1, <1>5 DEF RunHolds
        <4>2. PICK k0, log : k0 = Top.code /\ log = Top.log /\ log \in Logs
          BY <1>4 DEF Frame
        <4>3. LogHolds(c, k0, log, batched.cells)'
          <5>1. EffectCode(k0) /\ LogHolds(c, k0, log, batched.cells)
            BY <4>1, <4>2, <2>1, EffectsGet DEF ReactParts, ProgramLive
          <5>2. \A m \in Ids : c \in dpts[m] => c \in dpts'[m] /\ ReadKept(c, m)
            BY <1>2, <1>6 DEF ReadKept
          <5>3. HandlesKept
            BY <1>2 DEF HandlesKept, handles
          <5> QED BY <5>1, <5>2, <5>3, <4>2, LogStays
        <4>4. CASE GetEnters(i)
          BY <4>2, <4>3, <4>4, <1>8, <1>11
        <4>5. CASE ~GetEnters(i)
          <5>1. PICK v \in Results : v = val[i]
            BY <1>9
          <5>2. f.log = Append(log, v) /\ f.code = k0
            BY <4>2, <4>5, <5>1, <1>10, <1>11
          <5>3. v # None
            <6>1. IsSlot(i) => Clean(i)
              BY <2>3, <2>5, <1>15, <4>5, <1>1 DEF GetOf, GetReads, GetReturns, Fresh
            <6>2. ~IsSlot(i) => kind[i] = "cell"
              BY <1>3 DEF IsSlot
            <6> QED BY <6>1, <6>2, <5>1, <1>0 DEF Clean, PlanKept
          <5>4. NextHolds(c, k0, log, v, batched.cells)'
            <6>1. Code(k0, log).do = "get" /\ Code(k0, log).of = k
              BY <4>2, <1>3
            <6>2. made'[k] # None /\ made'[k].id = i /\ val'[i] = v
              BY <1>2, <1>3, <5>1 DEF handles
            <6> QED BY <6>1, <6>2, <5>3, <2>4 DEF NextHolds
          <5>5. PICK next2 : next2 = Append(log, v)
            OBVIOUS
          <5>6. LogHolds(c, k0, next2, batched.cells)'
            BY <4>2, <4>3, <5>4, <5>5, LogExtends
          <5> QED BY <5>2, <5>5, <5>6
        <4> QED BY <4>4, <4>5
      <3>3. ASSUME f.pulled PROVE PulledHolds(f)'
        <4>1. GetEnters(i)
          BY <3>3, <1>10, <1>11
        <4>2. Code(f.code, f.log).do = "get" /\ Code(f.code, f.log).of = k /\ IsSlot(i) /\ f.id = c
          BY <4>1, <1>3, <1>5, <1>8, <1>11 DEF GetEnters
        <4>3. Plan[k].kind = "slot" /\ made'[k] # None /\ made'[k].id = i
          BY <4>2, <1>2, <1>3 DEF IsSlot, handles
        <4> QED BY <4>2, <4>3, <2>4, <2>5 DEF PulledHolds
      <3>4. scheduled' = scheduled /\ force' = force /\ f.id = c /\ \A m \in Ids : IsSlot(m)' <=> IsSlot(m)
        BY <1>2, <1>5, <1>13 DEF arena, IsSlot
      <3> QED BY <3>1, <3>2, <3>3, <3>4 DEF RunHolds
    <2> QED BY <2>6, <1>2, <1>3, <1>5, <1>6, <1>12, <1>13, <1>16, <1>18, RunGoesOn
  <1> QED BY <1>3, <1>17, <1>18

-----------------------------------------------------------------------------
(* Calls that change the graph *)

\* s is the stack once a call that is no read has returned to its caller.
GoesOn(g) ==
  /\ stack # << >> /\ Top.op = "effect" /\ Code(Top.code, Top.log).do # "get"
  /\ g \in Frame /\ g.op = Top.op /\ g.id = Top.id /\ g.gen = Top.gen /\ g.code = Top.code
  /\ g.log = Append(Top.log, None) /\ g.pulled = FALSE
Called(s) ==
  /\ s \in Seq(Frame) /\ s # << >> /\ StackForm(s) /\ (Flushes(s) <=> Flushes(stack))
  /\ \A g \in FramesOf(s) : GoesOn(g) \/ (g \in FramesOf(stack) /\ ~Turning(g))
  /\ \A x : (CheckOn(s, x) <=> CheckOn(stack, x)) /\ (RunOn(s, x) <=> RunOn(stack, x))
  /\ \A g \in FramesOf(stack) : g.op = "attach" => g \in FramesOf(s)

LEMMA CallGoes ==
  ASSUME PureSlots, GraphInv, CacheInv, ReactParts, NEW op, Issued(op),
         op.do \in {"set", "make", "clear", "batch", "eager", "lazy"}
  PROVE  NoneRecomputing(stack) /\ Called(Resume(None))
  <1>0. stack \in Seq(Frame) /\ stack # << >> /\ NoneRecomputing(stack) /\ StackForm(stack)
    BY WritersAlone DEF ReactParts, StackKept
  <1>1. CASE stack = <<Host>>
    <2>1. Top = Host
      BY <1>1 DEF Top
    <2>2. ~InClosure
      BY <2>1, HostFrames DEF InClosure
    <2>3. Resume(None) = stack
      BY <2>2 DEF Resume
    <2>4. \A g \in FramesOf(stack) : ~Turning(g)
      BY <1>1, HostFrames DEF Turning
    <2> QED BY <2>3, <2>4, <1>0 DEF Called
  <1>2. CASE stack # <<Host>>
    <2>1. Asks(op)
      BY <1>2 DEF Issued, HostCalls, HostIdle
    <2>2. InClosure /\ Code(Top.code, Top.log).do # "get" /\ Top.op \in {"compute", "effect"}
      BY <2>1 DEF Asks, InClosure
    <2>3. Top \in FramesOf(stack) /\ FramesOf(stack) = {Top} \cup FramesOf(Rest) /\ Fits(Top, FramesOf(Rest))
      BY <1>0, StackSplits DEF Top, Rest
    <2>4. Top.op = "effect" /\ Turning(Top)
      BY <1>0, <2>2, <2>3 DEF NoneRecomputing, Recomputing, FramesOf, Turning
    <2>5. None \in Results
      BY DEF Results
    <2>6. PICK f \in Frame : /\ Resume(None) = Push(f, Rest)
                             /\ f.op = Top.op /\ f.id = Top.id /\ f.gen = Top.gen /\ f.code = Top.code
                             /\ f.log = Append(Top.log, None) /\ f.pulled = FALSE
      BY <1>0, <2>2, <2>5, ResumeIs
    <2>7. PICK s : s = Push(f, Rest)
      OBVIOUS
    <2>8. s \in Seq(Frame) /\ s # << >> /\ StackForm(s) /\ FramesOf(s) = {f} \cup FramesOf(Rest)
      BY <1>0, <2>6, <2>7, RetopForm DEF Top, Rest
    <2>9. GoesOn(f)
      BY <1>0, <2>2, <2>4, <2>6 DEF GoesOn
    <2>10. \A g \in FramesOf(Rest) : ~Turning(g)
      BY <2>3, <2>4 DEF Fits
    <2>11. \A g \in FramesOf(s) : GoesOn(g) \/ (g \in FramesOf(stack) /\ ~Turning(g))
      BY <2>3, <2>8, <2>9, <2>10
    <2>12. \A x : (CheckOn(s, x) <=> CheckOn(stack, x)) /\ (RunOn(s, x) <=> RunOn(stack, x))
      BY <2>3, <2>6, <2>8 DEF CheckOn, RunOn, Turn
    <2>13. Flushes(s) <=> Flushes(stack)
      BY <2>3, <2>6, <2>8 DEF Flushes
    <2>14. \A g \in FramesOf(stack) : g.op = "attach" => g \in FramesOf(s)
      BY <2>3, <2>4, <2>8
    <2> QED BY <1>0, <2>6, <2>7, <2>8, <2>11, <2>12, <2>13, <2>14 DEF Called
  <1> QED BY <1>1, <1>2

\* An effect the call leaves as it is, or queues.
Remains(e) ==
  /\ EffectStays(e) /\ seen'[code[e]] = seen[code[e]]
  /\ \A m \in Ids : IsSlot(m) /\ e \in dpts[m] /\ Clean(m) => Clean(m)' \/ e \in scheduled'

\* The run of the effect that called goes on.
LEMMA CallerReacts ==
  ASSUME Undisturbed, GraphInv, CacheInv, ReactParts, NoneRecomputing(stack), HandlesKept,
         NEW g, GoesOn(g), Remains(g.id)
  PROVE  TurnHolds(g)'
  <1>1. /\ Top \in Frame
        /\ IsEffect(Top.id) /\ gen[Top.id] = Top.gen /\ code[Top.id] = Top.code /\ RunHolds(Top)
    BY TopTurn DEF GoesOn
  <1>2. PICK e \in Ids, c \in Codes \cup {0}, log \in Logs : e = Top.id /\ c = Top.code /\ log = Top.log
    BY <1>1 DEF Frame
  <1>3. /\ g.op = "effect" /\ g.id = e /\ g.gen = gen[e] /\ g.code = c /\ code[e] = c
        /\ g.log = Append(log, None) /\ ~g.pulled /\ Code(c, log).do # "get" /\ IsEffect(e)
    BY <1>1, <1>2 DEF GoesOn
  <1>4. EffectStays(e) /\ Remains(e)
    BY <1>3 DEF Remains
  <1>5. (IsEffect(g.id) /\ gen[g.id] = g.gen /\ code[g.id] = g.code)'
    BY <1>3, <1>4 DEF EffectStays, IsEffect
  <1>6. e \notin scheduled' => \A m \in Ids : IsSlot(m)' /\ e \in dpts'[m] => Fresh(m)'
    <2> SUFFICES ASSUME e \notin scheduled', NEW m \in Ids, IsSlot(m)', e \in dpts'[m] PROVE Fresh(m)'
      OBVIOUS
    <2>1. e \notin scheduled /\ IsSlot(m) /\ e \in dpts[m]
      BY <1>4 DEF EffectStays, IsSlot
    <2>2. Fresh(m)
      BY <2>1, <1>1, <1>2 DEF RunHolds
    <2>3. Clean(m)
      BY <2>2, NoneBusy
    <2> QED BY <2>1, <2>3, <1>4 DEF Remains, Fresh
  <1>7. ASSUME ~force'[e] PROVE LogHolds(e, c, g.log, batched.cells)'
    <2>1. LogHolds(e, c, log, batched.cells) /\ EffectCode(c)
      <3>1. ~force[e]
        BY <1>4, <1>7 DEF EffectStays
      <3>2. EffectCode(c)
        BY <1>3, EffectsGet DEF ReactParts, ProgramLive
      <3> QED BY <3>1, <3>2, <1>1, <1>2 DEF RunHolds
    <2>2. \A m \in Ids : e \in dpts[m] => e \in dpts'[m] /\ ReadKept(e, m)
      BY <1>4, <1>7 DEF EffectStays
    <2>3. LogHolds(e, c, log, batched.cells)'
      BY <2>1, <2>2, LogStays
    <2>4. PICK r \in Results : r = None
      BY DEF Results
    <2>5. NextHolds(e, c, log, r, batched.cells)'
      BY <1>3, <2>4 DEF NextHolds
    <2>6. PICK next : next = Append(log, r)
      OBVIOUS
    <2>7. LogHolds(e, c, next, batched.cells)'
      BY <2>3, <2>5, <2>6, LogExtends
    <2> QED BY <2>4, <2>6, <2>7, <1>3
  <1>8. RunHolds(g)'
    BY <1>3, <1>6, <1>7 DEF RunHolds
  <1> QED BY <1>3, <1>5, <1>8 DEF TurnHolds

\* The stack after the call has s and may have activations that are no turns.
OnTop(s) ==
  /\ FramesOf(s) \subseteq FramesOf(stack')
  /\ \A g \in FramesOf(stack') : g \in FramesOf(s) \/ ~Turning(g)

LEMMA CallReacts ==
  ASSUME Undisturbed, GraphInv, CacheInv, ReactParts, NoneRecomputing(stack), HandlesKept,
         NEW s, Called(s), OnTop(s), ProgramLive', StackKept',
         \A e \in Ids : IsEffect(e) => Remains(e),
         \A e \in Ids : IsEffect(e)' => EffectSound(e)' \/ IsEffect(e),
         \A g \in FramesOf(stack') : ~Turning(g) => WaitHolds(g)'
  PROVE  ReactParts'
  <1>1. \A x : (CheckOn(stack, x) <=> CheckOn(stack, x)') /\ (RunOn(stack, x) <=> RunOn(stack, x)')
    <2>1. \A x : (CheckOn(s, x) <=> CheckOn(stack, x)') /\ (RunOn(s, x) <=> RunOn(stack, x)')
      BY DEF OnTop, CheckOn, RunOn, Turn, Turning
    <2> QED BY <2>1 DEF Called
  <1>2. ASSUME NEW e \in Ids, IsEffect(e)' PROVE EffectSound(e)' \/ EffectSame(e)
    BY <1>1, <1>2 DEF Remains, EffectSame
  <1>3. ASSUME NEW g \in FramesOf(stack') PROVE FrameReacts(g)
    <2>1. CASE ~Turning(g)
      BY <2>1, <1>3 DEF FrameReacts, TurnHolds
    <2>2. CASE Turning(g)
      <3>1. GoesOn(g)
        BY <2>2, <1>3 DEF OnTop, Called
      <3>2. Remains(g.id)
        <4>1. g.id = Top.id /\ Top \in Frame /\ IsEffect(Top.id)
          BY <3>1, TopTurn DEF GoesOn
        <4> QED BY <4>1 DEF Frame
      <3>3. TurnHolds(g)' /\ g.op = "effect"
        BY <3>1, <3>2, CallerReacts DEF GoesOn
      <3> QED BY <3>3 DEF FrameReacts, WaitHolds
    <2> QED BY <2>1, <2>2
  <1> QED BY <1>2, <1>3, ReactsWhen

\* The stack after the call is s, under a flush if any.
FlushedOn(s) ==
  /\ FramesOf(s) \subseteq FramesOf(stack')
  /\ \A g \in FramesOf(stack') : g \in FramesOf(s) \/ g.op = "flush"

\* The call returns at once, or it flushes.
LEMMA CallStack ==
  ASSUME GraphInv, ReactParts, NoneRecomputing(stack), NEW s \in Seq(Frame), StackForm(s), Flushes(s) <=> Flushes(stack),
         busy' = busy,
         \/ stack' = s /\ UNCHANGED <<flushing, scheduled>> /\ (batchDepth' = 0 => batchDepth = 0)
         \/ FlushOn(s, TRUE)
         \/ FlushOn(s, FALSE)
  PROVE  StackKept' /\ FlushedOn(s)
  <1>1. BusyShown(stack)'
    BY NoneBusy DEF BusyShown
  <1>2. StackKept /\ flushing \in BOOLEAN
    BY DEF ReactParts, GraphInv, RestTyped
  <1>3. CASE stack' = s /\ UNCHANGED <<flushing, scheduled>> /\ (batchDepth' = 0 => batchDepth = 0)
    <2>1. FramesOf(stack)' = FramesOf(s) /\ (StackForm(stack)' <=> StackForm(s))
      BY <1>3 DEF FramesOf, StackForm
    <2>2. Flushes(stack)' <=> Flushes(s)
      BY <2>1 DEF Flushes
    <2> QED BY <2>1, <2>2, <1>1, <1>2, <1>3 DEF StackKept, FlushedOn, FramesOf
  <1>4. CASE \E b \in BOOLEAN : FlushOn(s, b)
    <2>1. PICK b \in BOOLEAN : FlushOn(s, b)
      BY <1>4
    <2>2. /\ StackForm(stack)' /\ (flushing <=> Flushes(stack))' /\ flushing'
          /\ FramesOf(s) \subseteq FramesOf(stack')
          /\ \A f \in FramesOf(stack') : f \in FramesOf(s) \/ f.op = "flush"
      <3>1. flushing <=> Flushes(s)
        BY <1>2 DEF StackKept
      <3> QED BY <1>2, <2>1, <3>1, FlushForm
    <2> QED BY <2>2, <1>1 DEF StackKept, FlushedOn
  <1> QED BY <1>3, <1>4

\* No node is made: what waits goes on waiting, and a flush waits for nothing.
LEMMA CallWaits ==
  ASSUME GraphInv, ReactParts, UNCHANGED <<kind, code, gen, made, nmade, eager, eagerBy>>, NEW s, Called(s),
         FlushedOn(s)
  PROVE  OnTop(s) /\ ProgramLive' /\ HandlesKept /\ \A g \in FramesOf(stack') : ~Turning(g) => WaitHolds(g)'
  <1>1. \A g \in FramesOf(stack') : ~Turning(g) => WaitHolds(g)'
    <2>1. \A g \in FramesOf(stack) : WaitHolds(g)'
      BY WaitsOn
    <2>2. \A g : g.op = "flush" => WaitHolds(g)'
      BY DEF WaitHolds
    <2> QED BY <2>1, <2>2 DEF Called, GoesOn, Turning, FlushedOn
  <1>2. ProgramLive'
    <2>1. AttachStays
      BY DEF AttachStays, Called, Alike, FlushedOn
    <2> QED BY <2>1, ProgramStays DEF ReactParts
  <1>3. HandlesKept
    BY DEF HandlesKept
  <1>4. OnTop(s)
    BY DEF OnTop, FlushedOn, Turning
  <1> QED BY <1>1, <1>2, <1>3, <1>4

\* The step forces the effects in R and H, and queues those in M and H.
Queues(M, R, H) ==
  /\ \A e \in Ids : IsEffect(e) => (force'[e] <=> force[e] \/ e \in R \/ e \in H)
  /\ \A e \in Ids : IsEffect(e) /\ (e \in scheduled \/ e \in M \/ e \in H) => e \in scheduled'

LEMMA InvalidationRemains ==
  ASSUME GraphInv, UNCHANGED <<arena, dpts, seen>>,
         NEW M \in SUBSET Ids, NEW R, R \subseteq M, NEW H \in SUBSET Ids, Invalidated(M, R, H), Queues(M, R, H),
         \A m \in M : IsSlot(m) /\ ~dirty[m] => dpts[m] \subseteq M,
         \A m \in H : IsSlot(m) /\ val[m] # None => dpts[m] \subseteq H,
         \A d \in Ids : d \in batched.cells => d \in batched'.cells \/ dpts[d] \subseteq R,
         NEW e \in Ids, IsEffect(e)
  PROVE  Remains(e)
  <1>1. UNCHANGED <<kind, code, gen>>
    BY DEF arena
  <1>2. /\ force'[e] <=> force[e] \/ e \in R \/ e \in H
        /\ e \in scheduled \/ e \in M \/ e \in H => e \in scheduled'
    BY DEF Queues
  <1>3. ASSUME NEW m \in Ids, e \in dpts[m], ~force'[e] PROVE ReadKept(e, m)
    <2>1. e \notin R /\ e \notin H
      BY <1>2, <1>3
    <2>2. m \in batched.cells => m \in batched'.cells
      BY <1>3, <2>1
    <2>3. IsSlot(m) /\ val[m] # None => val'[m] = val[m]
      BY <1>3, <2>1 DEF Invalidated
    <2>4. ~IsSlot(m) => val'[m] = val[m] \/ m \in batched'.cells
      BY <1>3, <2>1 DEF Invalidated
    <2> QED BY <2>2, <2>3, <2>4 DEF ReadKept
  <1>4. EffectStays(e)
    BY <1>1, <1>2, <1>3 DEF EffectStays
  <1>5. ASSUME NEW m \in Ids, IsSlot(m), e \in dpts[m], Clean(m), e \notin scheduled' PROVE Clean(m)'
    <2>1. e \notin M /\ e \notin H
      BY <1>2, <1>5
    <2>2. m \notin M /\ m \notin H
      BY <1>5, <2>1 DEF Clean
    <2> QED BY <1>1, <1>5, <2>2 DEF Clean, IsSlot, Invalidated
  <1> QED BY <1>4, <1>5 DEF Remains

LEMMA MarksOfEffects ==
  ASSUME NEW R, NEW E, NEW f, NEW e \in Ids, IsEffect(e)
  PROVE  Forced(Effects(E), MarkForce(R, f))[e] <=> f[e] \/ e \in E
  BY DEF MarkForce, Forced, Effects, IsSlot, IsEffect

LEMMA SetReacts ==
  ASSUME PureSlots, Undisturbed, GraphInv, GraphInv', CacheInv, ReactParts, Set
  PROVE  ReactParts'
  <1>0. FlagsTyped /\ RestTyped /\ EdgesKept /\ PlanKept /\ batched \in [cells : SUBSET Ids, clears : SUBSET Ids, slots : SUBSET Ids]
    BY CacheInvParts DEF RestTyped
  <1>1. PICK k \in Items, v \in Values :
          /\ Issued([do |-> "set", of |-> k, to |-> v]) /\ made[k] # None
          /\ LET i == made[k].id
                 reached == Marked(dpts[i], dirty, force) IN
             /\ kind[i] = "cell"
             /\ val' = [val EXCEPT ![i] = v]
             /\ IF EqualWrite(i, v) THEN stack' = Resume(None) /\ UNCHANGED <<dirty, force, sched, batched>>
                ELSE IF Batching
                THEN /\ batched' = [batched EXCEPT !.cells = @ \cup {i}]
                     /\ stack' = Resume(None) /\ UNCHANGED <<dirty, force, sched>>
                ELSE /\ dirty' = MarkDirty(reached, dirty)
                     /\ force' = Forced(Effects(dpts[i]), MarkForce(dpts[i], force))
                     /\ Schedule(Effects(reached))
                     /\ IF Effects(reached) = {} THEN stack' = Resume(None) /\ UNCHANGED flushing
                        ELSE FlushOn(Resume(None), FALSE)
                     /\ UNCHANGED batched
          /\ UNCHANGED <<arena, busy, eagers, armed, edges, batchDepth, handles, seen>>
    BY DEF Set
  <1>2. PICK i \in Ids : i = made[k].id
    BY <1>0, <1>1, MadeTyped
  <1>3. PICK s : s = Resume(None)
    OBVIOUS
  <1>4. NoneRecomputing(stack) /\ Called(s)
    <2>1. PICK op : op = [do |-> "set", of |-> k, to |-> v]
      OBVIOUS
    <2>2. Issued(op) /\ op.do = "set"
      BY <1>1, <2>1
    <2> QED BY <2>2, <1>3, CallGoes
  <1>5. kind[i] = "cell" /\ val'[i] = v /\ \A n \in Ids : n # i => val'[n] = val[n]
    BY <1>0, <1>1, <1>2 DEF FlagsTyped
  <1>6. dpts[i] \in SUBSET Ids
    BY <1>0 DEF EdgesKept
  <1>7. UNCHANGED <<arena, busy, eagers, dpts, batchDepth, handles, seen>>
    BY <1>1 DEF edges
  <1>8. StackKept' /\ FlushedOn(s)
    <2>1. \/ stack' = s /\ UNCHANGED <<flushing, scheduled>> /\ (batchDepth' = 0 => batchDepth = 0)
          \/ FlushOn(s, FALSE)
      <3>1. CASE EqualWrite(i, v) \/ Batching
        BY <3>1, <1>1, <1>2, <1>3, <1>7 DEF sched
      <3>2. CASE ~(EqualWrite(i, v) \/ Batching)
        <4>1. /\ Schedule(Effects(Marked(dpts[i], dirty, force)))
              /\ \/ Effects(Marked(dpts[i], dirty, force)) = {} /\ stack' = s /\ UNCHANGED flushing
                 \/ FlushOn(s, FALSE)
          BY <3>2, <1>1, <1>2, <1>3
        <4>2. Effects(Marked(dpts[i], dirty, force)) = {} => scheduled' = scheduled
          BY <4>1 DEF Schedule
        <4> QED BY <4>1, <4>2, <1>7
      <3> QED BY <3>1, <3>2
    <2> QED BY <2>1, <1>4, <1>7, CallStack DEF Called
  <1>9. OnTop(s) /\ ProgramLive' /\ HandlesKept /\ \A g \in FramesOf(stack') : ~Turning(g) => WaitHolds(g)'
    BY <1>4, <1>7, <1>8, CallWaits DEF arena, eagers, handles
  <1>10. ASSUME NEW e \in Ids, IsEffect(e) PROVE Remains(e)
    <2>1. CASE EqualWrite(i, v) \/ Batching
      <3>0. UNCHANGED <<dirty, force, scheduled>>
        BY <1>1, <1>2, <2>1 DEF sched
      <3>1. i \in batched'.cells \/ val'[i] = val[i]
        <4>1. CASE EqualWrite(i, v)
          BY <1>5, <4>1 DEF EqualWrite
        <4>2. CASE ~EqualWrite(i, v)
          <5>1. batched' = [batched EXCEPT !.cells = batched.cells \cup {i}]
            BY <1>1, <1>2, <2>1, <4>2
          <5> QED BY <1>0, <5>1
        <4> QED BY <4>1, <4>2
      <3>2. Invalidated({}, {}, {}) /\ Queues({}, {}, {})
        BY <1>5, <3>0, <3>1 DEF Invalidated, IsSlot, Queues
      <3>3. \A d \in Ids : d \in batched.cells => d \in batched'.cells
        <4>1. batched' = batched \/ batched' = [batched EXCEPT !.cells = batched.cells \cup {i}]
          BY <1>1, <1>2, <2>1
        <4> QED BY <1>0, <4>1
      <3> QED BY <1>7, <1>10, <3>2, <3>3, InvalidationRemains
    <2>2. CASE ~(EqualWrite(i, v) \/ Batching)
      <3>1. /\ dirty' = MarkDirty(Marked(dpts[i], dirty, force), dirty)
            /\ force' = Forced(Effects(dpts[i]), MarkForce(dpts[i], force))
            /\ scheduled' = scheduled \cup Effects(Marked(dpts[i], dirty, force))
            /\ batched' = batched
        BY <1>1, <1>2, <2>2 DEF Schedule
      <3>2. PICK M \in SUBSET Ids, R \in SUBSET Ids : M = Marked(dpts[i], dirty, force) /\ R = dpts[i]
        BY <1>6, WalksInside
      <3>3. R \subseteq M /\ \A m \in M : IsSlot(m) /\ ~dirty[m] => dpts[m] \subseteq M
        BY <1>0, <1>6, <3>2, MarkedWalk
      <3>4. Invalidated(M, R, {})
        BY <1>5, <3>1, <3>2, MarksOfSlots DEF Invalidated, IsSlot
      <3>5. Queues(M, R, {})
        <4>1. \A x \in Ids : IsEffect(x) => (force'[x] <=> force[x] \/ x \in R)
          BY <3>1, <3>2, MarksOfEffects
        <4>2. \A x \in Ids : IsEffect(x) /\ (x \in scheduled \/ x \in M) => x \in scheduled'
          BY <3>1, <3>2 DEF Effects, IsEffect
        <4> QED BY <4>1, <4>2 DEF Queues
      <3> QED BY <1>7, <1>10, <3>1, <3>3, <3>4, <3>5, InvalidationRemains
    <2> QED BY <2>1, <2>2
  <1>11. \A e \in Ids : IsEffect(e)' => IsEffect(e)
    BY <1>7 DEF IsEffect, arena
  <1> QED BY <1>4, <1>8, <1>9, <1>10, <1>11, CallReacts

LEMMA HostGoes ==
  ASSUME GraphInv, ReactParts, HostIdle
  PROVE  /\ NoneRecomputing(stack) /\ Called(stack) /\ stack \in Seq(Frame)
         /\ \A g \in FramesOf(stack) : ~Turning(g) /\ g.op # "attach" /\ g.op # "made"
  <1>1. stack \in Seq(Frame) /\ stack = <<Host>> /\ NoneRecomputing(stack) /\ StackForm(stack)
    BY StackHas, QuietHost DEF HostIdle, ReactParts, StackKept
  <1>2. \A g \in FramesOf(stack) : ~Turning(g) /\ g.op # "attach" /\ g.op # "made"
    BY <1>1, HostFrames DEF Turning
  <1> QED BY <1>1, <1>2 DEF Called

\* ClearFrom forces and queues the effects it reaches.
Reached(H, f, more, b) ==
  /\ \A e \in Ids : IsEffect(e) => (force'[e] <=> f[e] \/ e \in H)
  /\ scheduled' = scheduled \cup (more \cup Effects(H))
  /\ FlushOn(stack, b)

LEMMA ClearFromQueues ==
  ASSUME NEW roots, NEW d, NEW f, NEW more, NEW b \in BOOLEAN, ClearFrom(roots, d, f, more, b)
  PROVE  Reached(Cleared(roots, d), f, more, b)
  <1>0. PICK H : H = Cleared(roots, d)
    OBVIOUS
  <1>1. /\ force' = Forced(Effects(H), [n \in Ids |-> f[n] /\ ~(n \in H /\ IsSlot(n))])
        /\ scheduled' = scheduled \cup (more \cup Effects(H))
        /\ FlushOn(stack, b)
    BY <1>0 DEF ClearFrom, Schedule
  <1>2. \A e \in Ids : IsEffect(e) => (force'[e] <=> f[e] \/ e \in H)
    BY <1>1 DEF Forced, Effects, IsEffect, IsSlot
  <1>3. Reached(H, f, more, b)
    BY <1>1, <1>2 DEF Reached
  <1> QED BY <1>0, <1>3

LEMMA ClearReacts ==
  ASSUME Undisturbed, GraphInv, GraphInv', CacheInv, ReactParts, Clear
  PROVE  ReactParts'
  <1>0. /\ FlagsTyped /\ RestTyped /\ EdgesKept /\ PlanKept
        /\ batched \in [cells : SUBSET Ids, clears : SUBSET Ids, slots : SUBSET Ids]
    BY CacheInvParts DEF RestTyped
  <1> DEFINE Deferred(i) ==
               /\ \/ batched' = [batched EXCEPT !.slots = @ \cup {i}]
                  \/ batched' = [batched EXCEPT !.clears = @ \cup {i}]
               /\ UNCHANGED <<val, dirty, force, sched, stack>>
             Cleaned(i) == /\ \/ ClearFrom({i}, dirty, force, {}, FALSE)
                              \/ ClearFrom(IF kind[i] = "cell" THEN dpts[i] ELSE {}, dirty, force, {}, FALSE)
                           /\ UNCHANGED batched
  <1>1. PICK k \in Items :
          /\ HostIdle /\ made[k] # None
          /\ Deferred(made[k].id) \/ Cleaned(made[k].id)
          /\ UNCHANGED <<arena, busy, eagers, armed, edges, batchDepth, handles, seen>>
    BY DEF Clear, HostCalls
  <1>2. PICK i \in Ids : i = made[k].id
    BY <1>0, <1>1, MadeTyped
  <1>3. NoneRecomputing(stack) /\ Called(stack) /\ stack \in Seq(Frame)
    BY <1>1, HostGoes
  <1>4. UNCHANGED <<arena, busy, eagers, dpts, batchDepth, handles, seen>>
    BY <1>1 DEF edges
  <1>5. CASE Deferred(i)
    <2>1. batched'.cells = batched.cells
      BY <1>0, <1>5
    <2>2. PICK s : s = stack
      OBVIOUS
    <2>3. stack' = s /\ UNCHANGED <<val, dirty, force, flushing, scheduled>>
      BY <1>5, <2>2 DEF sched
    <2>4. Invalidated({}, {}, {}) /\ Queues({}, {}, {})
      BY <2>3 DEF Invalidated, Queues
    <2>5. \A e \in Ids : IsEffect(e) => Remains(e)
      BY <1>4, <2>1, <2>4, InvalidationRemains
    <2>6. StackKept' /\ FlushedOn(s)
      BY <1>3, <1>4, <2>2, <2>3, CallStack DEF Called
    <2>7. OnTop(s) /\ ProgramLive' /\ HandlesKept /\ \A g \in FramesOf(stack') : ~Turning(g) => WaitHolds(g)'
      BY <1>3, <1>4, <2>2, <2>6, CallWaits DEF arena, eagers, handles
    <2>8. \A e \in Ids : IsEffect(e)' => IsEffect(e)
      BY <1>4 DEF IsEffect, arena
    <2> QED BY <1>3, <2>2, <2>5, <2>6, <2>7, <2>8, CallReacts
  <1>6. CASE Cleaned(i)
    <2>1. PICK roots \in SUBSET Ids : ClearFrom(roots, dirty, force, {}, FALSE)
      <3>1. {i} \in SUBSET Ids /\ (IF kind[i] = "cell" THEN dpts[i] ELSE {}) \in SUBSET Ids
        BY <1>0 DEF EdgesKept
      <3> QED BY <3>1, <1>6
    <2>2. PICK H : H = Cleared(roots, dirty)
      OBVIOUS
    <2>3. Forgot(H, dirty, force)
      BY <1>0, <1>3, <2>1, <2>2, ClearFromForgets
    <2>4. Reached(H, force, {}, FALSE)
      BY <2>1, <2>2, ClearFromQueues
    <2>5. Invalidated({}, {}, H) /\ Queues({}, {}, H)
      BY <2>3, <2>4 DEF Forgot, Invalidated, Queues, Effects, IsEffect, Reached
    <2>6. batched' = batched
      BY <1>6
    <2>7. \A e \in Ids : IsEffect(e) => Remains(e)
      BY <1>4, <2>3, <2>5, <2>6, InvalidationRemains DEF Forgot
    <2>8. PICK s : s = stack
      OBVIOUS
    <2>9. StackKept' /\ FlushedOn(s)
      BY <1>3, <1>4, <2>4, <2>8, CallStack DEF Called, Reached
    <2>10. OnTop(s) /\ ProgramLive' /\ HandlesKept /\ \A g \in FramesOf(stack') : ~Turning(g) => WaitHolds(g)'
      BY <1>3, <1>4, <2>8, <2>9, CallWaits DEF arena, eagers, handles
    <2>11. \A e \in Ids : IsEffect(e)' => IsEffect(e)
      BY <1>4 DEF IsEffect, arena
    <2> QED BY <1>3, <2>7, <2>8, <2>9, <2>10, <2>11, CallReacts
  <1> QED BY <1>1, <1>2, <1>5, <1>6

LEMMA BatchEndReacts ==
  ASSUME Undisturbed, GraphInv, GraphInv', CacheInv, ReactParts, BatchEnd
  PROVE  ReactParts'
  <1>0. /\ FlagsTyped /\ RestTyped /\ EdgesKept /\ PlanKept
        /\ batched \in [cells : SUBSET Ids, clears : SUBSET Ids, slots : SUBSET Ids]
        /\ batchDepth \in Nat
    BY CacheInvParts DEF RestTyped
  <1>1. /\ batchDepth > 0 /\ batchDepth' = batchDepth - 1
        /\ UNCHANGED <<arena, busy, eagers, dpts, handles, seen>>
    BY DEF BatchEnd, BatchOpen, edges
  <1>2. NoneRecomputing(stack) /\ Called(stack) /\ stack \in Seq(Frame)
    BY HostGoes DEF BatchEnd
  <1>3. PICK s : s = stack
    OBVIOUS
  <1>4. (StackKept' /\ FlushedOn(s)) /\ \A e \in Ids : IsEffect(e) => Remains(e)
    <2>1. CASE batchDepth > 1
      <3>1. UNCHANGED <<val, dirty, force, batched, stack, flushing, scheduled>>
        BY <2>1 DEF BatchEnd, sched
      <3>2. batchDepth' # 0
        BY <1>0, <1>1, <2>1
      <3>3. Invalidated({}, {}, {}) /\ Queues({}, {}, {})
        BY <3>1 DEF Invalidated, Queues
      <3>4. \A e \in Ids : IsEffect(e) => Remains(e)
        BY <1>1, <3>1, <3>3, InvalidationRemains
      <3>5. StackKept' /\ FlushedOn(s)
        BY <1>1, <1>2, <1>3, <3>1, <3>2, CallStack DEF Called
      <3> QED BY <3>4, <3>5
    <2>2. CASE ~(batchDepth > 1)
      <3> DEFINE roots  == UNION {dpts[i] : i \in batched.cells}
                 marked == Marked(roots, dirty, force)
                 cells  == {i \in batched.clears : kind[i] = "cell"}
                 below  == (UNION {dpts[i] : i \in cells}) \cup batched.slots
                 d      == MarkDirty(marked, dirty)
                 f      == Forced(Effects(roots), MarkForce(roots, force))
      <3>1. /\ ClearFrom(below, d, f, Effects(marked), TRUE)
            /\ batched' = [cells |-> {}, clears |-> {}, slots |-> {}]
        BY <2>2 DEF BatchEnd
      <3>2. roots \in SUBSET Ids /\ below \in SUBSET Ids
        <4>1. batched.cells \in SUBSET Ids /\ batched.clears \in SUBSET Ids /\ batched.slots \in SUBSET Ids
          BY <1>0
        <4>2. \A i \in Ids : dpts[i] \in SUBSET Ids
          BY <1>0 DEF EdgesKept
        <4>3. ASSUME NEW S \in SUBSET Ids PROVE UNION {dpts[i] : i \in S} \in SUBSET Ids
          BY <4>2
        <4>4. cells \in SUBSET Ids
          BY <4>1
        <4> HIDE DEF cells
        <4>5. UNION {dpts[i] : i \in batched.cells} \in SUBSET Ids /\ UNION {dpts[i] : i \in cells} \in SUBSET Ids
          BY <4>1, <4>3, <4>4
        <4>6. roots \in SUBSET Ids
          BY <4>5
        <4>7. \A A, B \in SUBSET Ids : A \cup B \in SUBSET Ids
          OBVIOUS
        <4> DEFINE left == UNION {dpts[i] : i \in cells}
                   right == batched.slots
        <4>8. left \in SUBSET Ids /\ right \in SUBSET Ids /\ below = left \cup right
          BY <4>1, <4>5
        <4> HIDE DEF left, right, below
        <4>9. left \cup right \in SUBSET Ids
          BY <4>7, <4>8
        <4>10. below \in SUBSET Ids
          BY <4>8, <4>9
        <4> QED BY <4>6, <4>10
      <3>3. \A i \in batched.cells : dpts[i] \subseteq roots
        OBVIOUS
      <3>4. PICK R \in SUBSET Ids : R = roots
        BY <3>2
      <3>5. PICK M \in SUBSET Ids : M = marked
        BY WalksInside
      <3>6. R \subseteq M /\ \A m \in M : IsSlot(m) /\ ~dirty[m] => dpts[m] \subseteq M
        BY <1>0, <3>4, <3>5, MarkedWalk
      <3>7. batched'.cells = {}
        BY <3>1
      <3> HIDE DEF roots, marked, cells, below
      <3>8. \A n \in Ids : IsSlot(n) => (d[n] <=> dirty[n] \/ n \in M) /\ (f[n] <=> force[n] \/ n \in R)
        BY <3>4, <3>5, MarksOfSlots
      <3>9. \A e \in Ids : IsEffect(e) => (f[e] <=> force[e] \/ e \in R)
        BY <3>4, MarksOfEffects
      <3> HIDE DEF d, f
      <3>10. PICK H : H = Cleared(below, d)
        OBVIOUS
      <3>11. Forgot(H, d, f)
        BY <1>0, <1>2, <3>1, <3>2, <3>10, ClearFromForgets
      <3>12. Reached(H, f, Effects(M), TRUE)
        <4>1. Effects(M) = Effects(marked)
          BY <3>5
        <4> QED BY <4>1, <3>1, <3>10, ClearFromQueues
      <3>13. Invalidated(M, R, H) /\ Queues(M, R, H)
        <4>1. Invalidated(M, R, H)
          BY <3>8, <3>11 DEF Forgot, Invalidated
        <4>2. Queues(M, R, H)
          BY <3>9, <3>12 DEF Queues, Effects, IsEffect, Reached
        <4> QED BY <4>1, <4>2
      <3>14. \A i \in Ids : i \in batched.cells => dpts[i] \subseteq R
        BY <3>3, <3>4
      <3>15. \A e \in Ids : IsEffect(e) => Remains(e)
        BY <1>1, <3>6, <3>11, <3>13, <3>14, InvalidationRemains DEF Forgot
      <3>16. StackKept' /\ FlushedOn(s)
        BY <1>1, <1>2, <1>3, <3>12, CallStack DEF Called, Reached
      <3> QED BY <3>15, <3>16
    <2> QED BY <2>1, <2>2
  <1>5. OnTop(s) /\ ProgramLive' /\ HandlesKept /\ \A g \in FramesOf(stack') : ~Turning(g) => WaitHolds(g)'
    BY <1>1, <1>2, <1>3, <1>4, CallWaits DEF arena, eagers, handles
  <1>6. \A e \in Ids : IsEffect(e)' => IsEffect(e)
    BY <1>1 DEF IsEffect, arena
  <1> QED BY <1>2, <1>3, <1>4, <1>5, <1>6, CallReacts

-----------------------------------------------------------------------------
(* Creation *)

\* The step puts a node of kind kd, with the closure c, into the empty entry n.
Enters(n, kd, c) ==
  /\ n \in Ids /\ kind[n] = "empty" /\ kd \in Kinds /\ c \in Codes
  /\ kind'[n] = kd /\ code'[n] = c
  /\ \A i \in Ids : i # n => kind'[i] = kind[i] /\ code'[i] = code[i]
  /\ gen' = gen

LEMMA EntersWhen ==
  ASSUME ArenaKept, NEW kd \in Kinds, NEW c \in Codes, kd = "slot" => c \in Items, Alloc(kd, c)
  PROVE  Enters(NewId, kd, c)
  <1>1. /\ NewId \in Ids /\ kind[NewId] = "empty" /\ gen' = gen
        /\ kind' = [kind EXCEPT ![NewId] = kd] /\ code' = [code EXCEPT ![NewId] = c]
    BY AllocSound
  <1>2. PICK n \in Ids : n = NewId
    BY <1>1
  <1>3. kind' = [kind EXCEPT ![n] = kd] /\ code' = [code EXCEPT ![n] = c]
    BY <1>1, <1>2
  <1>4. Enters(n, kd, c)
    BY <1>1, <1>2, <1>3 DEF Enters, ArenaKept
  <1> QED BY <1>2, <1>4

\* The closure of the new node is the next of the plan, or the puller of a computed
\* cell that waits for it.
Grows(n, kd, c) ==
  /\ \A i \in Ids : code[i] # c
  /\ c \in Items => c = nmade + 1 /\ nmade' = c /\ kd = Plan[c].kind
  /\ c \notin Items =>
       /\ kd = "effect" /\ nmade' = nmade
       /\ \E k \in Items : c = Puller(k) /\ Plan[k].kind = "slot" /\ made[k] # None /\ Attaching(stack', n, k)
  /\ \A k \in Items : made[k] # None => made'[k] = made[k]
  /\ \A k \in Items : made'[k] # None /\ made[k] = None =>
       k = c /\ made'[k].id = n /\ made'[k].gen = gen[n]

LEMMA ProgramGrows ==
  ASSUME GraphInv, ProgramLive, NEW n, NEW kd, NEW c, Enters(n, kd, c), Grows(n, kd, c),
         UNCHANGED <<eager, eagerBy>>, AttachStays
  PROVE  ProgramLive'
  <1>0. HandlesLive /\ NodesLive /\ PullersLive /\ nmade \in Nat /\ RestTyped
    BY PlanTyped DEF ProgramLive, GraphInv, RestTyped
  <1>1. /\ n \in Ids /\ kind[n] = "empty" /\ kd \in Kinds /\ c \in Codes /\ c # 0 /\ kd # "empty"
        /\ kind'[n] = kd /\ code'[n] = c /\ gen' = gen
    BY PlanTyped DEF Enters, Kinds, Codes
  <1>2. \A i \in Ids : i # n => kind'[i] = kind[i] /\ code'[i] = code[i]
    BY DEF Enters
  <1>3. \A i \in Ids : kind[i] # "empty" => i # n
    BY <1>1
  <1>4. nmade' \in Nat /\ nmade <= nmade'
    BY <1>0, PlanTyped DEF Grows, Items
  <1>5. \A k \in Items : k \in Nat
    BY DEF Items
  <1>6. HandlesLive'
    <2> SUFFICES ASSUME NEW k \in Items, made'[k] # None
                 PROVE  (/\ k <= nmade /\ kind[made[k].id] = Plan[k].kind
                         /\ code[made[k].id] = k /\ gen[made[k].id] = made[k].gen)'
      BY DEF HandlesLive
    <2>1. CASE made[k] # None
      <3>1. made'[k] = made[k] /\ made[k].id \in Ids
        BY <1>0, <2>1, MadeTyped DEF Grows
      <3>2. /\ k <= nmade /\ kind[made[k].id] = Plan[k].kind
            /\ code[made[k].id] = k /\ gen[made[k].id] = made[k].gen
        BY <1>0, <2>1 DEF HandlesLive
      <3>3. k <= nmade'
        BY <3>2, <1>0, <1>4, <1>5
      <3>4. made[k].id # n
        BY <3>2, <1>1, PlanTyped DEF Kinds
      <3> QED BY <3>1, <3>2, <3>3, <3>4, <1>1, <1>2
    <2>2. CASE made[k] = None
      <3>1. k = c /\ made'[k].id = n /\ made'[k].gen = gen[n]
        BY <2>2 DEF Grows
      <3>2. kd = Plan[k].kind /\ nmade' = k
        BY <3>1 DEF Grows
      <3> QED BY <3>1, <3>2, <1>1, <1>4
    <2> QED BY <2>1, <2>2
  <1>7. NodesLive'
    <2>1. \A i \in Ids : kind'[i] = "empty" => code'[i] = 0
      BY <1>0, <1>1, <1>2 DEF NodesLive
    <2>2. ASSUME NEW i \in Ids, code'[i] \in Items PROVE code'[i] <= nmade' /\ kind'[i] = Plan[code'[i]].kind
      <3>1. CASE i = n
        BY <2>2, <3>1, <1>1, <1>4 DEF Grows
      <3>2. CASE i # n
        BY <2>2, <3>2, <1>0, <1>2, <1>4, <1>5 DEF NodesLive
      <3> QED BY <3>1, <3>2
    <2>3. \A i, j \in Ids : code'[i] = code'[j] /\ code'[i] # 0 => i = j
      BY <1>0, <1>1, <1>2 DEF NodesLive, Grows
    <2>4. ASSUME NEW k \in Items, k <= nmade', Plan[k].kind = "effect" PROVE \E e \in Ids : kind'[e] = "effect" /\ code'[e] = k
      <3>1. CASE k <= nmade
        <4>1. PICK e \in Ids : kind[e] = "effect" /\ code[e] = k
          BY <3>1, <2>4, <1>0 DEF NodesLive, IsEffect
        <4>2. e # n
          BY <4>1, <1>1
        <4> QED BY <4>1, <4>2, <1>2
      <3>2. CASE ~(k <= nmade)
        <4>1. k = c
          BY <3>2, <2>4, <1>0, <1>4, <1>5, PlanTyped DEF Grows
        <4> QED BY <4>1, <2>4, <1>1 DEF Grows
      <3> QED BY <3>1, <3>2
    <2> QED BY <2>1, <2>2, <2>3, <2>4 DEF NodesLive, IsEffect
  <1>8. PullersLive'
    <2>1. \A i \in Ids : eager'[i] <=> eagerBy'[i] # None
      BY <1>0 DEF PullersLive
    <2>2. ASSUME NEW i \in Ids, eagerBy'[i] # None
          PROVE  (/\ IsSlot(i) /\ made[code[i]] # None
                  /\ gen[eagerBy[i].id] = eagerBy[i].gen
                  /\ IsEffect(eagerBy[i].id) /\ code[eagerBy[i].id] = Puller(code[i]))'
      <3>1. /\ eagerBy' = eagerBy /\ IsSlot(i) /\ made[code[i]] # None
            /\ gen[eagerBy[i].id] = eagerBy[i].gen
            /\ IsEffect(eagerBy[i].id) /\ code[eagerBy[i].id] = Puller(code[i])
        BY <2>2, <1>0 DEF PullersLive
      <3>2. eagerBy[i].id \in Ids /\ code[i] \in Items
        <4>1. eagerBy[i] \in Handle
          BY <2>2, <3>1, <1>0 DEF RestTyped
        <4>2. code[i] \in Items
          BY <3>1 DEF GraphInv, ArenaKept, IsSlot
        <4> QED BY <4>1, <4>2 DEF Handle
      <3>3. i # n /\ eagerBy[i].id # n
        BY <3>1, <1>1 DEF IsSlot, IsEffect
      <3>4. made'[code[i]] = made[code[i]]
        BY <3>1, <3>2 DEF Grows
      <3> QED BY <3>1, <3>2, <3>3, <3>4, <1>1, <1>2 DEF IsSlot, IsEffect
    <2>3. ASSUME NEW p, NEW k, Pulls(p, k) PROVE Pulls(p, k)'
      <3>1. CASE \E i \in Ids : eagerBy[i] # None /\ eagerBy[i].id = p /\ code[i] = k
        <4>1. PICK i \in Ids : eagerBy[i] # None /\ eagerBy[i].id = p /\ code[i] = k
          BY <3>1
        <4>2. i # n
          BY <4>1, <1>0, <1>1 DEF PullersLive, IsSlot
        <4> QED BY <4>1, <4>2, <1>2 DEF Pulls
      <3>2. CASE Attaching(stack, p, k)
        <4>1. PICK f \in FramesOf(stack) : f.op = "attach" /\ f.id = p /\ f.code = k
          BY <3>2 DEF Attaching
        <4>2. PICK g \in FramesOf(stack') : Alike(g, f)
          BY <4>1 DEF AttachStays
        <4>3. Attaching(stack', p, k)
          BY <4>1, <4>2 DEF Attaching, Alike
        <4> QED BY <4>3 DEF Pulls, Attaching
      <3> QED BY <2>3, <3>1, <3>2 DEF Pulls
    <2>4. ASSUME NEW p \in Ids, kind'[p] # "empty", code'[p] \notin Items
          PROVE  \E k \in Items : code'[p] = Puller(k) /\ Plan[k].kind = "slot" /\ made'[k] # None /\ Pulls(p, k)'
      <3>1. CASE p = n
        <4>1. PICK k \in Items : c = Puller(k) /\ Plan[k].kind = "slot" /\ made[k] # None /\ Attaching(stack', n, k)
          BY <2>4, <3>1, <1>1 DEF Grows
        <4>2. Pulls(n, k)'
          BY <4>1 DEF Pulls, Attaching
        <4>3. made'[k] # None
          BY <4>1 DEF Grows
        <4> QED BY <4>1, <4>2, <4>3, <3>1, <1>1
      <3>2. CASE p # n
        <4>1. PICK k \in Items : code[p] = Puller(k) /\ Plan[k].kind = "slot" /\ made[k] # None /\ Pulls(p, k)
          BY <2>4, <3>2, <1>0, <1>2 DEF PullersLive
        <4>2. made'[k] # None
          BY <4>1 DEF Grows
        <4> QED BY <4>1, <4>2, <2>3, <3>2, <1>2
      <3> QED BY <3>1, <3>2
    <2> QED BY <2>1, <2>2, <2>4 DEF PullersLive
  <1> QED BY <1>6, <1>7, <1>8 DEF ProgramLive

\* What waits, when a node is made.
LEMMA WaitsGrow ==
  ASSUME GraphInv, ReactParts, NEW n, NEW kd, NEW c, Enters(n, kd, c), Grows(n, kd, c), eager' = eager
  PROVE  \A f \in FramesOf(stack) : WaitHolds(f)'
  <1> SUFFICES ASSUME NEW f \in FramesOf(stack) PROVE WaitHolds(f)'
    OBVIOUS
  <1>1. WaitHolds(f) /\ f.id \in Ids
    BY StackHas DEF ReactParts, TurnsHold, Frame
  <1>2. ASSUME f.op = "made"
        PROVE  (/\ f.code \in Items /\ Plan[f.code].kind = "effect" /\ f.code <= nmade
                /\ IsEffect(f.id) /\ code[f.id] = f.code)'
    <2>1. /\ f.code \in Items /\ Plan[f.code].kind = "effect" /\ f.code <= nmade
          /\ IsEffect(f.id) /\ code[f.id] = f.code
      BY <1>1, <1>2 DEF WaitHolds
    <2>2. nmade \in Nat /\ (nmade' = nmade \/ nmade' = nmade + 1)
      BY DEF GraphInv, RestTyped, Grows
    <2>3. f.code <= nmade'
      BY <2>1, <2>2 DEF Items
    <2>4. f.id # n
      BY <2>1 DEF Enters, IsEffect
    <2> QED BY <1>1, <2>1, <2>3, <2>4 DEF Enters, IsEffect
  <1>3. ASSUME f.op = "attach"
        PROVE  (/\ f.code \in Items /\ Plan[f.code].kind = "slot" /\ made[f.code] # None
                /\ IsEffect(f.id) /\ code[f.id] = Puller(f.code) /\ ~eager[made[f.code].id])'
    <2>1. /\ f.code \in Items /\ Plan[f.code].kind = "slot" /\ made[f.code] # None
          /\ IsEffect(f.id) /\ code[f.id] = Puller(f.code) /\ ~eager[made[f.code].id]
      BY <1>1, <1>3 DEF WaitHolds
    <2>2. made'[f.code] = made[f.code] /\ f.id # n
      BY <2>1 DEF Grows, Enters, IsEffect
    <2> QED BY <1>1, <2>1, <2>2 DEF Enters, IsEffect
  <1> QED BY <1>2, <1>3 DEF WaitHolds

\* A node is made: an effect among them is forced and queued.
LEMMA EntersReacts ==
  ASSUME Undisturbed, GraphInv, GraphInv', CacheInv, ReactParts, NoneRecomputing(stack),
         NEW n, NEW kd, NEW c, Enters(n, kd, c), Grows(n, kd, c),
         \A i \in Ids \ {n} : val'[i] = val[i] /\ force'[i] = force[i],
         UNCHANGED <<dirty, eagers, dpts, batched, seen>>,
         scheduled \subseteq scheduled', kd = "effect" => force'[n] /\ n \in scheduled',
         NEW s, Called(s), OnTop(s), StackKept', AttachStays,
         \A g \in FramesOf(stack') : g \in FramesOf(s) \/ g.op = "flush" \/ (g.op # "effect" /\ WaitHolds(g)')
  PROVE  ReactParts'
  <1>1. /\ n \in Ids /\ kind[n] = "empty" /\ kind'[n] = kd /\ gen' = gen
        /\ \A i \in Ids : i # n => kind'[i] = kind[i] /\ code'[i] = code[i]
    BY DEF Enters
  <1>2. ProgramLive'
    BY ProgramGrows DEF ReactParts, eagers
  <1>3. HandlesKept
    BY DEF HandlesKept, Grows
  <1>4. ASSUME NEW e \in Ids, IsEffect(e) PROVE Remains(e)
    <2>1. e # n
      BY <1>1, <1>4 DEF IsEffect
    <2>2. \A m \in Ids : e \in dpts[m] => m # n
      BY <1>1 DEF GraphInv, EdgesKept, EdgesMatch
    <2>3. \A m \in Ids : e \in dpts[m] => kind'[m] = kind[m] /\ val'[m] = val[m] /\ force'[m] = force[m]
      BY <2>2, <1>1
    <2>4. EffectStays(e)
      BY <2>1, <2>3, <1>1 DEF EffectStays, ReadKept
    <2>5. \A m \in Ids : IsSlot(m) /\ e \in dpts[m] /\ Clean(m) => Clean(m)'
      BY <2>3 DEF Clean, IsSlot
    <2> QED BY <2>4, <2>5 DEF Remains
  <1>5. ASSUME NEW e \in Ids, IsEffect(e)', ~IsEffect(e) PROVE EffectSound(e)'
    <2>1. e = n /\ kd = "effect"
      BY <1>1, <1>5 DEF IsEffect
    <2> QED BY <2>1 DEF EffectSound, Owed
  <1>6. ASSUME NEW g \in FramesOf(stack'), ~Turning(g) PROVE WaitHolds(g)'
    <2>1. \A f \in FramesOf(stack) : WaitHolds(f)'
      BY WaitsGrow DEF eagers
    <2>2. g.op = "flush" => WaitHolds(g)'
      BY DEF WaitHolds
    <2>3. g \in FramesOf(s) => g \in FramesOf(stack)
      BY <1>6 DEF Called, GoesOn, Turning
    <2> QED BY <2>1, <2>2, <2>3, <1>6
  <1>7. \A e \in Ids : IsEffect(e)' => EffectSound(e)' \/ IsEffect(e)
    BY <1>5
  <1> QED BY <1>2, <1>3, <1>4, <1>6, <1>7, CallReacts

\* The new effect w waits for runs first.
NextOfPlan(c, w) == c = nmade + 1 /\ Plan[c].kind = "effect" /\ w.code = c /\ nmade' = c
PullerOf(c, w) ==
  /\ HostIdle /\ w.code \in Items /\ c = Puller(w.code) /\ nmade' = nmade
  /\ Plan[w.code].kind = "slot" /\ made[w.code] # None
  /\ IsSlot(made[w.code].id) /\ ~eager[made[w.code].id]

\* No node has the closure of the next node, or of the puller to be.
LEMMA NewCode ==
  ASSUME GraphInv, ReactParts, NEW k \in Items,
         k = nmade + 1
  PROVE  \A i \in Ids : code[i] # k
  <1>1. nmade \in Nat /\ NodesLive
    BY PlanTyped DEF GraphInv, RestTyped, ReactParts, ProgramLive
  <1> QED BY <1>1 DEF NodesLive

LEMMA NewPuller ==
  ASSUME GraphInv, ReactParts, HostIdle, NEW k \in Items, made[k] # None, IsSlot(made[k].id), ~eager[made[k].id],
         Plan[k].kind = "slot"
  PROVE  \A i \in Ids : code[i] # Puller(k)
  <1>0. HandlesLive /\ NodesLive /\ PullersLive /\ RestTyped /\ Puller(k) \notin Items /\ Puller(k) # 0
    BY PlanTyped DEF ReactParts, ProgramLive, GraphInv, Codes
  <1> SUFFICES ASSUME NEW p \in Ids, code[p] = Puller(k) PROVE FALSE
    OBVIOUS
  <1>1. kind[p] # "empty"
    BY <1>0 DEF NodesLive
  <1>2. PICK j \in Items : code[p] = Puller(j) /\ Pulls(p, j)
    BY <1>0, <1>1 DEF PullersLive
  <1>3. j = k
    BY <1>2, PlanTyped DEF Puller, Items
  <1>4. ~Attaching(stack, p, k)
    BY HostGoes DEF Attaching
  <1>5. PICK i \in Ids : eagerBy[i] # None /\ code[i] = k
    BY <1>2, <1>3, <1>4 DEF Pulls
  <1>6. made[k].id \in Ids /\ code[made[k].id] = k /\ k # 0
    BY <1>0, MadeTyped, PlanTyped DEF HandlesLive
  <1>7. i = made[k].id
    BY <1>0, <1>5, <1>6 DEF NodesLive
  <1> QED BY <1>0, <1>5, <1>7 DEF PullersLive

LEMMA NewEffectReacts ==
  ASSUME PureSlots, Undisturbed, GraphInv, GraphInv', CacheInv, ReactParts, NEW c \in Codes, NEW w \in Frame,
         w.id = NewId,
         (w.op = "made" /\ c \in Items /\ NextOfPlan(c, w)) \/ (w.op = "attach" /\ PullerOf(c, w)),
         NEW op, Issued(op), op.do \in {"make", "eager"},
         NewEffect(c, w), UNCHANGED <<val, dirty, busy, eagers, edges, batches, made, seen>>
  PROVE  ReactParts'
  <1>0. ArenaKept /\ FlagsTyped /\ RestTyped
    BY CacheInvParts
  <1>1. /\ Alloc("effect", c) /\ force' = [force EXCEPT ![NewId] = TRUE]
        /\ scheduled' = scheduled \cup {NewId}
        /\ FlushOn(Push(w, Resume(None)), FALSE)
    BY DEF NewEffect
  <1>2. "effect" \in Kinds /\ "effect" # "slot"
    BY DEF Kinds
  <1>3. Enters(NewId, "effect", c)
    BY <1>0, <1>1, <1>2, EntersWhen
  <1>4. PICK n \in Ids : n = NewId
    BY <1>3 DEF Enters
  <1>5. Enters(n, "effect", c) /\ w.id = n /\ force'[n] /\ n \in scheduled' /\ scheduled \subseteq scheduled'
        /\ \A i \in Ids \ {n} : val'[i] = val[i] /\ force'[i] = force[i]
    <2>1. force' = [force EXCEPT ![n] = TRUE]
      BY <1>1, <1>4
    <2> QED BY <2>1, <1>0, <1>1, <1>3, <1>4 DEF FlagsTyped
  <1>6. PICK s : s = Resume(None)
    OBVIOUS
  <1>7. NoneRecomputing(stack) /\ Called(s)
    BY <1>6, CallGoes
  <1>8. Fits(w, FramesOf(s))
    <2>1. ASSUME w.op = "attach", NEW g \in FramesOf(s) PROVE g.op # "attach"
      <3>1. HostIdle
        BY <2>1 DEF PullerOf
      <3>2. \A h \in FramesOf(stack) : h.op # "attach"
        BY <3>1, HostGoes
      <3> QED BY <3>2, <1>7 DEF Called, GoesOn
    <2> QED BY <2>1 DEF Fits, Turning
  <1>9. PICK t : t = Push(w, s)
    OBVIOUS
  <1>10. /\ t \in Seq(Frame) /\ StackForm(t) /\ FramesOf(t) = {w} \cup FramesOf(s)
         /\ Flushes(t) <=> Flushes(stack)
    <2>1. s \in Seq(Frame) /\ StackForm(s) /\ (Flushes(s) <=> Flushes(stack))
      BY <1>7 DEF Called
    <2>2. t \in Seq(Frame)
      BY <2>1, <1>9 DEF Push
    <2>3. StackForm(t) /\ FramesOf(t) = {w} \cup FramesOf(s)
      BY <2>1, <1>8, <1>9, FormOfPush, FramesOfPush
    <2> QED BY <2>1, <2>2, <2>3 DEF Flushes
  <1>11. StackKept' /\ FlushedOn(t)
    <2>1. FlushOn(t, FALSE) /\ busy' = busy
      BY <1>1, <1>6, <1>9
    <2> QED BY <2>1, <1>7, <1>10, CallStack
  <1>12. /\ w \in FramesOf(stack') /\ FramesOf(s) \subseteq FramesOf(stack')
         /\ \A g \in FramesOf(stack') : g = w \/ g \in FramesOf(s) \/ g.op = "flush"
    BY <1>10, <1>11 DEF FlushedOn
  <1>13. OnTop(s)
    BY <1>12 DEF OnTop, Turning
  <1>14. AttachStays
    BY <1>7, <1>12 DEF AttachStays, Called, Alike
  <1>15. Grows(n, "effect", c)
    <2>1. \A k \in Items : made'[k] = made[k]
      OBVIOUS
    <2>2. CASE w.op = "made"
      <3>1. c \in Items /\ c = nmade + 1 /\ Plan[c].kind = "effect" /\ nmade' = c
        BY <2>2 DEF NextOfPlan
      <3>2. \A i \in Ids : code[i] # c
        BY <3>1, NewCode
      <3> QED BY <2>1, <3>1, <3>2 DEF Grows
    <2>3. CASE w.op = "attach"
      <3>1. PICK k \in Items : k = w.code
        BY <2>3 DEF PullerOf
      <3>2. /\ HostIdle /\ c = Puller(k) /\ nmade' = nmade /\ Plan[k].kind = "slot" /\ made[k] # None
            /\ IsSlot(made[k].id) /\ ~eager[made[k].id]
        BY <2>3, <3>1 DEF PullerOf
      <3>3. \A i \in Ids : code[i] # c
        BY <3>2, NewPuller
      <3>4. Attaching(stack', n, k)
        BY <2>3, <3>1, <1>5, <1>12 DEF Attaching
      <3>5. c \notin Items
        BY <3>2, PlanTyped
      <3> QED BY <2>1, <3>2, <3>3, <3>4, <3>5 DEF Grows
    <2> QED BY <2>2, <2>3
  <1>16. w.op # "effect" /\ WaitHolds(w)'
    <2>1. CASE w.op = "made"
      <3>1. c \in Items /\ c \in Nat
        BY <2>1 DEF Items, NextOfPlan
      <3>2. IsEffect(n)' /\ code'[n] = c
        BY <1>5 DEF Enters, IsEffect
      <3> QED BY <2>1, <3>1, <3>2, <1>5 DEF WaitHolds, NextOfPlan
    <2>2. CASE w.op = "attach"
      <3>1. IsEffect(n)' /\ code'[n] = c
        BY <1>5 DEF Enters, IsEffect
      <3>2. eager' = eager /\ made' = made
        BY DEF eagers
      <3> QED BY <2>2, <3>1, <3>2, <1>5 DEF WaitHolds, PullerOf
    <2> QED BY <2>1, <2>2
  <1>17. UNCHANGED <<dirty, eagers, dpts, batched, seen>>
    BY DEF edges, batches
  <1>18. \A g \in FramesOf(stack') : g \in FramesOf(s) \/ g.op = "flush" \/ (g.op # "effect" /\ WaitHolds(g)')
    BY <1>12, <1>16
  <1> QED BY <1>5, <1>7, <1>11, <1>13, <1>14, <1>15, <1>17, <1>18, EntersReacts

LEMMA MakeReacts ==
  ASSUME PureSlots, Undisturbed, GraphInv, GraphInv', CacheInv, ReactParts, Make
  PROVE  ReactParts'
  <1>0. ArenaKept /\ FlagsTyped /\ RestTyped /\ PlanKept /\ nmade \in Nat
    BY CacheInvParts, PlanTyped DEF RestTyped
  <1>1. PICK k : k = nmade + 1
    OBVIOUS
  <1>2. /\ Issued([do |-> "make"]) /\ nmade < Len(Plan) /\ nmade' = k
        /\ IF Plan[k].kind = "effect"
           THEN /\ NewEffect(k, [Host EXCEPT !.op = "made", !.id = NewId, !.code = k])
                /\ UNCHANGED <<val, made>>
           ELSE /\ Alloc(Plan[k].kind, k)
                /\ val' = [val EXCEPT ![NewId] = IF Plan[k].kind = "cell" THEN Plan[k].init ELSE None]
                /\ made' = [made EXCEPT ![k] = [id |-> NewId, gen |-> gen[NewId]]]
                /\ stack' = Resume(None) /\ UNCHANGED <<force, sched>>
        /\ UNCHANGED <<dirty, busy, eagers, armed, edges, batches, seen>>
    BY <1>1 DEF Make
  <1>3. k \in Items /\ k \in Codes /\ Plan[k].kind \in Kinds
    BY <1>0, <1>1, <1>2, PlanTyped DEF RestTyped, Items
  <1>4. PICK op : op = [do |-> "make"]
    OBVIOUS
  <1>5. Issued(op) /\ op.do = "make"
    BY <1>2, <1>4
  <1>6. CASE Plan[k].kind = "effect"
    <2> DEFINE waiting == [Host EXCEPT !.op = "made", !.id = NewId, !.code = k]
    <2>1. NewEffect(k, waiting)
      BY <1>2, <1>6
    <2>2. NewId \in Ids
      BY <2>1 DEF NewEffect, Alloc
    <2>3. waiting \in Frame /\ waiting.op = "made" /\ waiting.code = k /\ waiting.id = NewId
      BY <2>2, <1>3, WaitingTyped
    <2>4. UNCHANGED <<val, dirty, busy, eagers, edges, batches, made, seen>>
      BY <1>2, <1>6
    <2> HIDE DEF waiting
    <2>5. NextOfPlan(k, waiting)
      BY <2>3, <1>1, <1>2, <1>6 DEF NextOfPlan
    <2> QED BY <1>3, <1>5, <2>1, <2>3, <2>4, <2>5, NewEffectReacts
  <1>7. CASE Plan[k].kind # "effect"
    <2>1. Enters(NewId, Plan[k].kind, k)
      BY <1>0, <1>2, <1>3, <1>7, EntersWhen
    <2>2. PICK n \in Ids : n = NewId
      BY <2>1 DEF Enters
    <2>3. PICK kd : kd = Plan[k].kind
      OBVIOUS
    <2>4. Enters(n, kd, k) /\ kd # "effect"
      BY <2>1, <2>2, <2>3, <1>7
    <2>5. PICK v, h : /\ val' = [val EXCEPT ![n] = v]
                      /\ made' = [made EXCEPT ![k] = h] /\ h = [id |-> n, gen |-> gen[n]]
      BY <2>2, <1>2, <1>7
    <2>6. \A i \in Ids \ {n} : val'[i] = val[i] /\ force'[i] = force[i]
      BY <2>5, <1>0, <1>2, <1>7 DEF FlagsTyped
    <2>7. made'[k] = h /\ h.id = n /\ h.gen = gen[n] /\ \A o \in Items : o # k => made'[o] = made[o]
      BY <2>5, <1>0, <1>3 DEF RestTyped
    <2>8. made[k] = None
      <3>1. k > nmade
        BY <1>0, <1>1
      <3> QED BY <3>1, <1>0, <1>3, <1>7 DEF PlanKept
    <2>9. Grows(n, kd, k)
      <3>1. \A i \in Ids : code[i] # k
        BY <1>1, <1>3, NewCode
      <3> QED BY <3>1, <2>3, <2>7, <2>8, <1>1, <1>2, <1>3 DEF Grows
    <2>10. PICK s : s = Resume(None)
      OBVIOUS
    <2>11. NoneRecomputing(stack) /\ Called(s)
      BY <1>5, <2>10, CallGoes
    <2>12. stack' = s /\ UNCHANGED <<flushing, scheduled, busy, batchDepth>>
      BY <2>10, <1>2, <1>7 DEF sched, batches
    <2>13. StackKept' /\ FlushedOn(s)
      BY <2>11, <2>12, CallStack DEF Called
    <2>14. OnTop(s) /\ AttachStays
           /\ \A g \in FramesOf(stack') : g \in FramesOf(s) \/ g.op = "flush"
      BY <2>11, <2>13 DEF FlushedOn, OnTop, Turning, AttachStays, Called, Alike
    <2>15. UNCHANGED <<dirty, eagers, dpts, batched, seen>>
      BY <1>2 DEF edges, batches
    <2> QED BY <2>4, <2>6, <2>9, <2>11, <2>12, <2>13, <2>14, <2>15, EntersReacts
  <1> QED BY <1>6, <1>7

LEMMA EagerReacts ==
  ASSUME PureSlots, Undisturbed, GraphInv, GraphInv', CacheInv, ReactParts, Eager
  PROVE  ReactParts'
  <1>1. PICK k \in Items :
          /\ HostCalls("eager") /\ made[k] # None
          /\ IsSlot(made[k].id) /\ ~eager[made[k].id] /\ NewId \in Ids
          /\ NewEffect(Puller(k), [Host EXCEPT !.op = "attach", !.id = NewId, !.code = k])
          /\ UNCHANGED <<val, dirty, busy, eagers, armed, edges, batches, handles, seen>>
    BY DEF Eager
  <1> DEFINE waiting == [Host EXCEPT !.op = "attach", !.id = NewId, !.code = k]
  <1>2. waiting \in Frame /\ waiting.op = "attach" /\ waiting.code = k /\ waiting.id = NewId
    <2>1. PICK n \in Ids : n = NewId
      BY <1>1
    <2>2. PICK o \in {"made", "attach"} : o = "attach"
      OBVIOUS
    <2>3. waiting = [Host EXCEPT !.op = o, !.id = n, !.code = k]
      BY <2>1, <2>2
    <2> QED BY <2>1, <2>2, <2>3, WaitingTyped
  <1>3. Puller(k) \in Codes
    BY PlanTyped
  <1>4. UNCHANGED <<val, dirty, busy, eagers, edges, batches, made, seen>> /\ nmade' = nmade
    BY <1>1 DEF handles
  <1> HIDE DEF waiting
  <1>5. NewEffect(Puller(k), waiting)
    BY <1>1 DEF waiting
  <1>6. PICK op : op = [do |-> "eager"]
    OBVIOUS
  <1>7. Issued(op) /\ op.do = "eager"
    BY <1>1, <1>6 DEF Issued
  <1>8. Plan[k].kind = "slot"
    <2>1. made[k].id \in Ids /\ HandlesLive
      BY <1>1, MadeTyped DEF GraphInv, ReactParts, ProgramLive
    <2> QED BY <2>1, <1>1 DEF HandlesLive, IsSlot
  <1>9. PullerOf(Puller(k), waiting)
    BY <1>1, <1>2, <1>4, <1>8 DEF PullerOf, HostCalls
  <1> QED BY <1>2, <1>3, <1>4, <1>5, <1>7, <1>9, NewEffectReacts

-----------------------------------------------------------------------------
(* The end of a puller *)

\* The effect p goes, and nothing else does.
Vanishes(p) ==
  /\ kind'[p] = "empty" /\ code'[p] = 0
  /\ \A j \in Ids : j # p =>
       /\ kind'[j] = kind[j] /\ code'[j] = code[j] /\ gen'[j] = gen[j]
       /\ val'[j] = val[j] /\ (dirty'[j] <=> dirty[j]) /\ (force'[j] <=> force[j]) /\ (busy'[j] <=> busy[j])
  /\ ~busy'[p]
  /\ \A a, b \in Ids : b \in dpts'[a] <=> b \in dpts[a] /\ b # p
  /\ \A b \in scheduled' : b \in scheduled /\ b # p
  /\ \A b \in scheduled : b \in scheduled' \/ b = p

LEMMA TearVanishes ==
  ASSUME GraphInv, NEW p \in Ids, IsEffect(p), NEW order, Tear({p}, order, {})
  PROVE  Vanishes(p)
  <1>0. /\ EdgesKept /\ EdgesMatch /\ dpts \in [Ids -> SUBSET Ids] /\ scheduled \subseteq Ids
        /\ kind[p] = "effect"
    BY DEF GraphInv, EdgesKept, QueueSound, IsEffect
  <1> DEFINE gone == {p}
             cone == Visited({}, {n \in Ids \ gone : IsSlot(n) /\ (~dirty[n] \/ (n \in {} /\ ~force[n]))})
  <1>1. /\ dpts' = DependentsLeft(gone)
        /\ dirty' = [n \in Ids |-> IF n \in gone THEN FALSE ELSE MarkDirty(cone, dirty)[n]]
        /\ force' = [n \in Ids |-> IF n \in gone THEN FALSE ELSE MarkForce({}, force)[n]]
        /\ val' = [n \in Ids |-> IF n \in gone THEN None ELSE val[n]]
        /\ busy' = [n \in Ids |-> IF n \in gone THEN FALSE ELSE busy[n]]
        /\ kind' = [n \in Ids |-> IF n \in gone THEN "empty" ELSE kind[n]]
        /\ code' = [n \in Ids |-> IF n \in gone THEN 0 ELSE code[n]]
        /\ gen' = [n \in Ids |-> IF n \in gone THEN gen[n] + 1 ELSE gen[n]]
        /\ scheduled' = scheduled \ Effects(gone)
    BY DEF Tear
  <1>2. cone = {}
    BY DEF Visited
  <1> HIDE DEF cone
  <1>3. \A j \in Ids : j # p =>
          /\ kind'[j] = kind[j] /\ code'[j] = code[j] /\ gen'[j] = gen[j] /\ val'[j] = val[j]
          /\ (dirty'[j] <=> dirty[j]) /\ (force'[j] <=> force[j]) /\ (busy'[j] <=> busy[j])
    BY <1>1, <1>2 DEF MarkDirty, MarkForce
  <1>4. kind'[p] = "empty" /\ code'[p] = 0 /\ ~busy'[p]
    BY <1>1
  <1>5. ASSUME NEW a \in Ids, NEW b \in Ids PROVE b \in dpts'[a] <=> b \in dpts[a] /\ b # p
    <2>1. CASE a = p
      <3>1. b \notin dpts'[a]
        BY <2>1, <1>1 DEF DependentsLeft
      <3>2. b \notin dpts[a]
        BY <2>1, <1>0 DEF EdgesMatch
      <3> QED BY <3>1, <3>2
    <2>2. CASE a # p
      <3>1. b \in dpts'[a] <=> b \in dpts[a] /\ ~(b = p /\ a \in deps[b])
        BY <2>2, <1>1 DEF DependentsLeft
      <3>2. b \in dpts[a] => a \in deps[b]
        BY <1>0 DEF EdgesMatch
      <3> QED BY <3>1, <3>2
    <2> QED BY <2>1, <2>2
  <1>6. Effects(gone) = {p}
    BY <1>0 DEF Effects
  <1>7. (\A b \in scheduled' : b \in scheduled /\ b # p) /\ (\A b \in scheduled : b \in scheduled' \/ b = p)
    BY <1>1, <1>6
  <1> QED BY <1>3, <1>4, <1>5, <1>7 DEF Vanishes

LEMMA LazyReacts ==
  ASSUME Undisturbed, GraphInv, GraphInv', CacheInv, ReactParts, Lazy
  PROVE  ReactParts'
  <1>0. /\ RestTyped /\ EdgesKept /\ ProgramLive /\ HandlesLive /\ NodesLive /\ PullersLive /\ StackKept
    BY CacheInvParts DEF ReactParts, ProgramLive
  <1>1. PICK k \in Items :
          /\ HostIdle /\ made[k] # None /\ eagerBy[made[k].id] # None
          /\ eagerBy' = [eagerBy EXCEPT ![made[k].id] = None] /\ eager' = [eager EXCEPT ![made[k].id] = FALSE]
          /\ IF Named(eagerBy[made[k].id]) = {}
             THEN UNCHANGED <<arena, flags, armed, edges, pending, scheduled>>
             ELSE Tear(Named(eagerBy[made[k].id]), <<eagerBy[made[k].id].id>>, {})
          /\ UNCHANGED <<flushing, batches, stack, handles, seen>>
    BY DEF Lazy, HostCalls
  <1>2. PICK i \in Ids : i = made[k].id
    BY <1>0, <1>1, MadeTyped
  <1>3. PICK h \in Handle : h = eagerBy[i]
    BY <1>0, <1>1, <1>2 DEF RestTyped
  <1>4. PICK p \in Ids : p = h.id
    BY DEF Handle
  <1>5. IsSlot(i) /\ gen[p] = h.gen /\ IsEffect(p) /\ code[p] = Puller(code[i]) /\ code[i] \in Items
    <2>1. eagerBy[i] # None
      BY <1>1, <1>2
    <2>2. IsSlot(i) /\ gen[p] = h.gen /\ IsEffect(p) /\ code[p] = Puller(code[i])
      BY <1>0, <2>1, <1>3, <1>4 DEF PullersLive
    <2> QED BY <2>2 DEF GraphInv, ArenaKept, IsSlot
  <1>6. Named(h) = {p}
    BY <1>3, <1>4, <1>5, NoneAssumption DEF Named, IsEffect
  <1>7. PICK order : Tear({p}, order, {})
    BY <1>1, <1>2, <1>3, <1>6
  <1>8. Vanishes(p)
    BY <1>5, <1>7, TearVanishes
  <1>9. /\ eagerBy'[i] = None /\ ~eager'[i]
        /\ \A j \in Ids : j # i => eagerBy'[j] = eagerBy[j] /\ (eager'[j] <=> eager[j])
    BY <1>0, <1>1, <1>2 DEF RestTyped
  <1>10. UNCHANGED <<flushing, batchDepth, batched, stack, made, nmade, seen>>
    BY <1>1 DEF batches, handles
  <1>11. NoneRecomputing(stack) /\ \A g \in FramesOf(stack) : ~Turning(g) /\ g.op # "attach" /\ g.op # "made"
    BY <1>1, HostGoes
  <1>12. code[p] \notin Items /\ code[p] # 0 /\ kind[p] = "effect"
    BY <1>5, PlanTyped DEF Codes, IsEffect
  <1>13. \A j \in Ids : j # p => kind'[j] = kind[j] /\ code'[j] = code[j] /\ gen'[j] = gen[j]
    BY <1>8 DEF Vanishes
  <1>14. kind'[p] = "empty" /\ code'[p] = 0
    BY <1>8 DEF Vanishes
  <1>15. StackKept'
    <2>1. \A m \in Ids : ~busy'[m]
      BY <1>8, <1>11, NoneBusy DEF Vanishes
    <2>2. scheduled = {} => scheduled' = {}
      BY <1>8 DEF Vanishes
    <2>3. PICK s : s = stack
      OBVIOUS
    <2>4. stack' = s /\ (Flushes(stack)' <=> Flushes(s)) /\ (StackForm(stack)' <=> StackForm(s))
      BY <2>3, <1>10 DEF Flushes, FramesOf, StackForm
    <2>5. BusyShown(stack)'
      BY <2>1 DEF BusyShown
    <2> QED BY <2>2, <2>3, <2>4, <2>5, <1>0, <1>10 DEF StackKept
  <1>16. HandlesLive'
    <2> SUFFICES ASSUME NEW j \in Items, made[j] # None
                 PROVE  (/\ j <= nmade /\ kind[made[j].id] = Plan[j].kind
                         /\ code[made[j].id] = j /\ gen[made[j].id] = made[j].gen)'
      BY <1>10 DEF HandlesLive
    <2>1. made[j].id \in Ids /\ code[made[j].id] = j /\ kind[made[j].id] = Plan[j].kind /\ j <= nmade
          /\ gen[made[j].id] = made[j].gen
      BY <1>0, MadeTyped DEF HandlesLive
    <2>2. made[j].id # p
      BY <2>1, <1>12
    <2> QED BY <2>1, <2>2, <1>10, <1>13
  <1>17. NodesLive'
    <2>1. \A j \in Ids : kind'[j] = "empty" => code'[j] = 0
      BY <1>0, <1>13, <1>14 DEF NodesLive
    <2>2. \A j \in Ids : code'[j] \in Items => code'[j] <= nmade' /\ kind'[j] = Plan[code'[j]].kind
      BY <1>0, <1>10, <1>13, <1>14, PlanTyped DEF NodesLive
    <2>3. \A j, m \in Ids : code'[j] = code'[m] /\ code'[j] # 0 => j = m
      BY <1>0, <1>13, <1>14 DEF NodesLive
    <2>4. \A o \in Items : o <= nmade' /\ Plan[o].kind = "effect" => \E e \in Ids : kind'[e] = "effect" /\ code'[e] = o
      <3> SUFFICES ASSUME NEW o \in Items, o <= nmade, Plan[o].kind = "effect"
                   PROVE  \E e \in Ids : kind'[e] = "effect" /\ code'[e] = o
        BY <1>10
      <3>1. PICK e \in Ids : kind[e] = "effect" /\ code[e] = o
        BY <1>0 DEF NodesLive, IsEffect
      <3>2. e # p
        BY <3>1, <1>12
      <3> QED BY <3>1, <3>2, <1>13
    <2> QED BY <2>1, <2>2, <2>3, <2>4 DEF NodesLive, IsEffect
  <1>18. PullersLive'
    <2>1. \A j \in Ids : eager'[j] <=> eagerBy'[j] # None
      BY <1>0, <1>9 DEF PullersLive
    <2>2. ASSUME NEW j \in Ids, eagerBy'[j] # None
          PROVE  (/\ IsSlot(j) /\ made[code[j]] # None
                  /\ gen[eagerBy[j].id] = eagerBy[j].gen
                  /\ IsEffect(eagerBy[j].id) /\ code[eagerBy[j].id] = Puller(code[j]))'
      <3>1. j # i /\ eagerBy'[j] = eagerBy[j] /\ eagerBy[j] # None
        BY <2>2, <1>9
      <3>2. /\ IsSlot(j) /\ made[code[j]] # None /\ gen[eagerBy[j].id] = eagerBy[j].gen
            /\ IsEffect(eagerBy[j].id) /\ code[eagerBy[j].id] = Puller(code[j])
        BY <3>1, <1>0 DEF PullersLive
      <3>3. eagerBy[j].id \in Ids /\ code[j] \in Items
        <4>1. eagerBy[j] \in Handle
          BY <3>1, <1>0 DEF RestTyped
        <4>2. code[j] \in Items
          BY <3>2 DEF GraphInv, ArenaKept, IsSlot
        <4> QED BY <4>1, <4>2 DEF Handle
      <3>4. eagerBy[j].id # p
        <4> SUFFICES ASSUME eagerBy[j].id = p PROVE FALSE
          OBVIOUS
        <4>1. code[j] = code[i]
          BY <3>2, <3>3, <1>5, PlanTyped DEF Puller, Items
        <4>2. code[j] # 0
          BY <3>3, PlanTyped
        <4> QED BY <4>1, <4>2, <3>1, <1>0 DEF NodesLive
      <3>5. j # p
        BY <3>2, <1>12 DEF IsSlot
      <3> QED BY <3>1, <3>2, <3>3, <3>4, <3>5, <1>10, <1>13 DEF IsSlot, IsEffect
    <2>3. ASSUME NEW q \in Ids, kind'[q] # "empty", code'[q] \notin Items
          PROVE  \E o \in Items : code'[q] = Puller(o) /\ Plan[o].kind = "slot" /\ made'[o] # None /\ Pulls(q, o)'
      <3>1. q # p /\ kind[q] # "empty" /\ code'[q] = code[q]
        BY <2>3, <1>13, <1>14
      <3>2. PICK o \in Items : code[q] = Puller(o) /\ Plan[o].kind = "slot" /\ made[o] # None /\ Pulls(q, o)
        BY <2>3, <3>1, <1>0 DEF PullersLive
      <3>3. ~Attaching(stack, q, o)
        BY <1>11 DEF Attaching
      <3>4. PICK j \in Ids : eagerBy[j] # None /\ eagerBy[j].id = q /\ code[j] = o
        BY <3>2, <3>3 DEF Pulls
      <3>5. j # i
        BY <3>1, <3>4, <1>3, <1>4
      <3>6. j # p
        BY <3>4, <1>0, <1>12 DEF PullersLive, IsSlot
      <3>7. eagerBy'[j] # None /\ eagerBy'[j].id = q /\ code'[j] = o
        BY <3>4, <3>5, <3>6, <1>9, <1>13
      <3>8. Pulls(q, o)'
        BY <3>7 DEF Pulls
      <3> QED BY <3>1, <3>2, <3>8, <1>10
    <2> QED BY <2>1, <2>2, <2>3 DEF PullersLive
  <1>19. ASSUME NEW e \in Ids, IsEffect(e)' PROVE EffectSame(e)
    <2>1. e # p /\ IsEffect(e)
      BY <1>13, <1>14, <1>19 DEF IsEffect
    <2>2. \A m \in Ids : e \in dpts[m] => m # p
      BY <1>0, <1>12 DEF EdgesKept, EdgesMatch
    <2>3. EffectStays(e)
      <3>1. \A m \in Ids : e \in dpts[m] => kind'[m] = kind[m] /\ ReadKept(e, m)
        BY <2>2, <1>8, <1>10 DEF Vanishes, ReadKept
      <3>2. /\ \A m \in Ids : e \in dpts'[m] <=> e \in dpts[m]
            /\ force'[e] <=> force[e]
            /\ e \in scheduled => e \in scheduled'
        BY <2>1, <1>8 DEF Vanishes
      <3> QED BY <2>1, <3>1, <3>2, <1>13 DEF EffectStays
    <2>4. \A m \in Ids : IsSlot(m) /\ e \in dpts[m] /\ Clean(m) => Clean(m)'
      BY <2>2, <1>8 DEF Vanishes, Clean, IsSlot
    <2>5. (CheckOn(stack, e) <=> CheckOn(stack, e)') /\ (RunOn(stack, e) <=> RunOn(stack, e)')
      BY <1>10 DEF CheckOn, RunOn, Turn, FramesOf
    <2> QED BY <2>1, <2>3, <2>4, <2>5, <1>10 DEF EffectSame
  <1>20. ASSUME NEW g \in FramesOf(stack') PROVE FrameReacts(g)
    <2>1. g \in FramesOf(stack)
      BY <1>10, <1>20
    <2>2. ~Turning(g) /\ WaitHolds(g)'
      BY <2>1, <1>11 DEF WaitHolds
    <2> QED BY <2>2 DEF FrameReacts, TurnHolds
  <1>21. HandlesKept /\ ProgramLive'
    BY <1>10, <1>16, <1>17, <1>18 DEF HandlesKept, ProgramLive
  <1> QED BY <1>15, <1>19, <1>20, <1>21, ReactsWhen

-----------------------------------------------------------------------------
(* The whole step *)

LEMMA ReactsStart ==
  ASSUME Init
  PROVE  ReactInv
  <1>1. /\ stack = <<Host>> /\ flushing = FALSE /\ scheduled = {} /\ nmade = 0
        /\ \A i \in Ids : kind[i] = "empty" /\ code[i] = 0 /\ ~busy[i] /\ ~eager[i] /\ eagerBy[i] = None
        /\ \A k \in Items : made[k] = None
    BY DEF Init
  <1>2. Len(stack) = 1 /\ stack[1] = Host
    BY <1>1
  <1>3. Host.op = "host"
    BY HostFrames
  <1>4. \A f \in FramesOf(stack) : f.op = "host"
    BY <1>2, <1>3 DEF FramesOf
  <1>5. StackKept
    <2>1. StackForm(stack)
      BY <1>2, <1>3 DEF StackForm, Fits, Turning
    <2> QED BY <2>1, <1>1, <1>4 DEF StackKept, Flushes, BusyShown
  <1>6. ProgramLive
    <2>1. HandlesLive
      BY <1>1 DEF HandlesLive
    <2>2. NodesLive
      BY <1>1, PlanTyped DEF NodesLive, Items
    <2>3. PullersLive
      BY <1>1 DEF PullersLive
    <2> QED BY <2>1, <2>2, <2>3 DEF ProgramLive
  <1>7. EffectsSound
    BY <1>1 DEF EffectsSound, IsEffect
  <1>8. TurnsHold
    BY <1>4 DEF TurnsHold, TurnHolds, WaitHolds, Turning
  <1> QED BY <1>5, <1>6, <1>7, <1>8 DEF ReactInv, ReactParts

\* What closures ask for.
LEMMA AsksFew ==
  ASSUME Undisturbed, GraphInv, CacheInv, ReactParts, NEW op, Asks(op)
  PROVE  op.do \in {"get", "set", "make", "return"}
  <1>1. stack # << >> /\ Top.op \in {"compute", "effect"} /\ Code(Top.code, Top.log) = op
    BY DEF Asks, InClosure
  <1>2. Top \in Frame /\ Top.log \in Logs /\ Top.id \in Ids
    BY <1>1, TopTurn DEF Frame
  <1>3. CASE Top.op = "effect"
    <2>1. IsEffect(Top.id) /\ code[Top.id] = Top.code
      BY <1>1, <1>3, TopTurn
    <2>2. EffectCode(Top.code)
      BY <2>1, <1>2, EffectsGet DEF ReactParts, ProgramLive
    <2> QED BY <2>2, <1>1, <1>2 DEF EffectCode
  <1>4. CASE Top.op = "compute"
    <2>1. IsSlot(Top.id) /\ code[Top.id] = Top.code
      BY <1>1, <1>4, TopTurn DEF FrameHolds
    <2>2. Top.code \in Items /\ Plan[Top.code].kind = "slot"
      BY <2>1, <1>2, CacheInvParts DEF PlanKept, ArenaKept, IsSlot
    <2>3. Body(Top.code, Top.log) = op
      BY <2>2, <1>1 DEF Code
    <2> QED BY <2>2, <2>3, <1>2 DEF Undisturbed
  <1> QED BY <1>1, <1>3, <1>4

LEMMA NoDisturbance ==
  ASSUME Undisturbed, GraphInv, CacheInv, ReactParts
  PROVE  ~ClosureThrow /\ ~DisposeSelf /\ ~Dispose
  <1>1. ~ClosureThrow
    <2>1. PICK op : op = [do |-> "throw"]
      OBVIOUS
    <2>2. ~Asks(op)
      BY <2>1, AsksFew
    <2> QED BY <2>1, <2>2 DEF ClosureThrow
  <1>2. ~DisposeSelf
    <2>1. PICK op : op = [do |-> "dispose_self"]
      OBVIOUS
    <2>2. ~Asks(op)
      BY <2>1, AsksFew
    <2> QED BY <2>1, <2>2 DEF DisposeSelf
  <1>3. ASSUME NEW k \in Items PROVE ~DisposeItem(k)
    <2>1. PICK op : op = [do |-> "dispose", of |-> k]
      OBVIOUS
    <2>2. ~Asks(op) /\ ~HostCalls(op.do)
      BY <2>1, AsksFew DEF HostCalls, Undisturbed
    <2>3. ~Issued(op)
      BY <2>2 DEF Issued
    <2> QED BY <2>1, <2>3 DEF DisposeItem
  <1> QED BY <1>1, <1>2, <1>3 DEF Dispose

LEMMA ReactsOn ==
  ASSUME PureSlots, Undisturbed, GraphInv, GraphInv', CacheInv, ReactParts, Next, stack' # << >>
  PROVE  ReactParts'
  <1>1. CASE Closures
    BY <1>1, ClosureGetReacts, NoDisturbance DEF Closures
  <1>2. CASE Engine
    BY <1>2, StepMadeReacts, StepAttachReacts, StepFlushReacts, StepDependencyReacts, StepSkipReacts,
       StartEffectReacts, FinishEffectReacts, EndRefreshReacts, StartComputeReacts, FinishComputeReacts DEF Engine
  <1>3. CASE Calls
    BY <1>3, HostGetReacts, SetReacts, MakeReacts, EagerReacts, LazyReacts, NoDisturbance, ClearReacts,
       BatchBeginReacts, BatchEndReacts DEF Calls
  <1> QED BY <1>1, <1>2, <1>3 DEF Next

\* When an exception has left the program nothing runs.
LEMMA NothingRuns ==
  ASSUME stack = << >>
  PROVE  ~Next
  <1>1. ~InClosure /\ ~HostIdle
    BY DEF InClosure, HostIdle
  <1>2. \A op : ~Asks(op) /\ ~HostCalls(op) /\ ~Issued(op)
    BY <1>1 DEF Asks, HostCalls, Issued
  <1>3. ~Closures
    BY <1>2 DEF Closures, ClosureGet, ClosureThrow, DisposeSelf
  <1>4. ~Engine
    BY DEF Engine, StepMade, StepAttach, StepFlush, StepDependency, StepSkip, StartEffect,
           FinishEffect, EndRefresh, StartCompute, FinishCompute, Walking
  <1>5. ~Calls
    <2>1. ~HostGet /\ ~Eager /\ ~Lazy /\ ~Clear /\ ~BatchBegin /\ ~BatchEnd
      BY <1>1, <1>2 DEF HostGet, Eager, Lazy, Clear, BatchBegin, BatchEnd
    <2>2. ~Set
      BY <1>2 DEF Set
    <2>3. ~Make
      BY <1>2 DEF Make
    <2>4. ~Dispose
      BY <1>2 DEF Dispose, DisposeItem
    <2> QED BY <2>1, <2>2, <2>3, <2>4 DEF Calls
  <1> QED BY <1>3, <1>4, <1>5 DEF Next

LEMMA ReactInvHolds ==
  ASSUME PureSlots, Undisturbed, GraphInv, CacheInv, ReactInv, [Next]_vars
  PROVE  ReactInv'
  <1> SUFFICES ASSUME stack' # << >> PROVE ReactParts'
    BY DEF ReactInv
  <1>0. GraphInv'
    BY GraphInvHolds
  <1>1. CASE UNCHANGED vars
    <2>1. /\ UNCHANGED <<kind, code, gen, val, dirty, force, busy, eager, eagerBy, dpts, scheduled, flushing>>
          /\ UNCHANGED <<batchDepth, batched, stack, made, nmade, seen>>
      BY <1>1 DEF vars, arena, flags, eagers, edges, sched, batches, handles
    <2>2. ReactParts
      BY <2>1 DEF ReactInv
    <2>3. StackKept'
      BY <2>1, <2>2 DEF ReactParts, StackKept, StackForm, Flushes, BusyShown, FramesOf
    <2>4. AttachStays
      BY <2>1 DEF AttachStays, Alike
    <2>5. ProgramLive'
      BY <2>1, <2>2, <2>4, ProgramStays DEF ReactParts
    <2>6. \A e \in Ids : IsEffect(e)' => EffectSame(e)
      <3> SUFFICES ASSUME NEW e \in Ids, IsEffect(e)' PROVE EffectSame(e)
        OBVIOUS
      <3>1. EffectStays(e)
        BY <2>1 DEF EffectStays, ReadKept
      <3>2. (CheckOn(stack, e) <=> CheckOn(stack, e)') /\ (RunOn(stack, e) <=> RunOn(stack, e)')
        BY <2>1 DEF CheckOn, RunOn, Turn, FramesOf
      <3>3. \A m \in Ids : Clean(m) => Clean(m)'
        BY <2>1 DEF Clean, IsSlot
      <3> QED BY <2>1, <3>1, <3>2, <3>3 DEF EffectSame, IsEffect
    <2>7. ASSUME NEW g \in FramesOf(stack') PROVE FrameReacts(g)
      <3>1. g \in FramesOf(stack) /\ Alike(g, g)
        BY <2>1, <2>7 DEF Alike
      <3>2. WaitHolds(g)'
        BY <3>1, <2>1, <2>2, <1>0, WaitsOn
      <3>3. Turning(g) => EffectStays(g.id) /\ FreshStays(g.id)
        <4>1. g.id \in Ids
          BY <3>1, StackHas DEF Frame
        <4>2. EffectStays(g.id)
          BY <2>1 DEF EffectStays, ReadKept
        <4>3. FreshStays(g.id)
          BY <2>1 DEF FreshStays, Fresh, Clean, IsSlot
        <4> QED BY <4>2, <4>3
      <3> QED BY <3>1, <3>2, <3>3 DEF FrameReacts, FrameStays
    <2>8. HandlesKept
      BY <2>1 DEF HandlesKept
    <2> QED BY <2>2, <2>3, <2>5, <2>6, <2>7, <2>8, ReactsWhen
  <1>2. CASE Next
    <2>1. stack # << >>
      BY <1>2, NothingRuns
    <2> QED BY <2>1, <1>0, <1>2, ReactsOn DEF ReactInv
  <1> QED BY <1>1, <1>2

-----------------------------------------------------------------------------
(* At rest *)

\* When control is with the program outside a batch, nothing is owed.
LEMMA AtRest ==
  ASSUME GraphInv, CacheInv, ReactInv, HostIdle, batchDepth = 0
  PROVE  /\ ReactParts /\ ProgramLive /\ HandlesCurrent /\ batched.cells = {}
         /\ \A e \in Ids : IsEffect(e) => SeenHolds(e)
         /\ \A e, m \in Ids : IsEffect(e) /\ IsSlot(m) /\ e \in dpts[m] => Clean(m)
  <1>1. stack = <<Host>> /\ stack # << >>
    BY DEF HostIdle
  <1>2. ReactParts /\ StackKept /\ ProgramLive /\ EffectsSound
    BY <1>1 DEF ReactInv, ReactParts
  <1>3. ~flushing /\ scheduled = {}
    <2>1. ~Flushes(stack)
      BY <1>1, HostFrames DEF Flushes
    <2> QED BY <2>1, <1>2 DEF StackKept
  <1>4. /\ \A e \in Ids : ~Owed(e)
        /\ \A e \in Ids, m \in Ids : IsEffect(e) /\ IsSlot(m) /\ e \in dpts[m] => Clean(m)
    BY <1>2, <1>3, NoneOwed
  <1>5. \A e \in Ids : IsEffect(e) => SeenHolds(e)
    BY <1>2, <1>4 DEF EffectsSound, EffectSound, Owed
  <1>6. HandlesCurrent
    BY <1>2 DEF ProgramLive, HandlesLive, HandlesCurrent
  <1>7. batched.cells = {}
    BY DEF CacheInv, PlanKept
  <1> QED BY <1>2, <1>4, <1>5, <1>6, <1>7

LEMMA EffectsAtRest ==
  ASSUME Layered, Undisturbed, GraphInv, HandlesOwn, CacheInv, ReactInv
  PROVE  EffectsCurrent
  <1> SUFFICES ASSUME HostIdle, batchDepth = 0, NEW k \in Items, Plan[k].kind = "effect", made[k] # None
               PROVE  GetsFrom(k, seen[k], Meaning)
    BY DEF EffectsCurrent
  <1>1. PICK e \in Ids : e = made[k].id /\ IsEffect(e) /\ code[e] = k
    BY AtRest, MadeTyped DEF ProgramLive, HandlesLive, IsEffect, GraphInv
  <1>2. PICK log \in Logs : log = seen[k]
    BY <1>1, AtRest DEF SeenHolds
  <1>3. Code(k, log).do = "return" /\ LogHolds(e, k, log, {})
    BY <1>1, <1>2, AtRest DEF SeenHolds
  <1>4. ASSUME NEW n \in 1..Len(log)
        PROVE  LET op == Body(k, SubSeq(log, 1, n - 1)) IN
                 IF op.do = "get" THEN log[n] = Meaning[op.of] /\ log[n] # None ELSE log[n] = None
    <2>1. PICK op : op = Body(k, SubSeq(log, 1, n - 1))
      OBVIOUS
    <2>2. EntryOp(k, log, n) = op /\ EntryOf(k, log, n) = made[op.of] /\ EntryHolds(e, k, log, n, {})
      BY <1>3, <2>1 DEF EntryOp, EntryOf, Code, LogHolds
    <2>3. CASE op.do # "get"
      BY <2>1, <2>2, <2>3 DEF EntryHolds
    <2>4. CASE op.do = "get"
      <3>1. op.of \in Items /\ Plan[op.of].kind # "effect"
        <4>1. SubSeq(log, 1, n - 1) \in Logs
          BY LogPrefix
        <4> QED BY <4>1, <2>1, <2>4, OpsTyped DEF Undisturbed
      <3>2. PICK d : d = made[op.of].id
        OBVIOUS
      <3>3. made[op.of] # None /\ log[n] # None /\ e \in dpts[d] /\ log[n] = val[d]
        BY <2>2, <2>4, <3>2 DEF EntryHolds
      <3>4. d \in Ids /\ kind[d] = Plan[op.of].kind
        BY <3>1, <3>2, <3>3, AtRest, MadeTyped DEF ProgramLive, HandlesLive, GraphInv
      <3>5. Meaning[op.of] = val[d]
        <4>1. CASE Plan[op.of].kind = "cell"
          <5>1. Meaning[op.of] = MeaningFrom(op.of, Meaning)
            BY <3>1, AtRest, MeaningIs
          <5> QED BY <5>1, <4>1, <3>2, <3>3, <3>4 DEF MeaningFrom
        <4>2. CASE Plan[op.of].kind = "slot"
          <5>1. Clean(d)
            BY <4>2, <1>1, <3>3, <3>4, AtRest DEF IsSlot
          <5> QED BY <5>1, <4>2, <3>1, <3>2, <3>3, AtRest, CoherentUpTo
        <4> QED BY <3>1, <4>1, <4>2, PlanTyped DEF Kinds
      <3> QED BY <2>1, <2>4, <3>3, <3>5
    <2> QED BY <2>3, <2>4
  <1>5. DOMAIN log = 1..Len(log)
    BY LogsAreSequences, LenProperties
  <1>6. Body(k, log).do = "return"
    BY <1>3 DEF Code
  <1> QED BY <1>2, <1>4, <1>5, <1>6 DEF GetsFrom

LEMMA EagerAtRest ==
  ASSUME GraphInv, CacheInv, ReactInv
  PROVE  EagerFresh
  <1> SUFFICES ASSUME HostIdle, batchDepth = 0, NEW i \in Ids, eager[i] PROVE Clean(i)
    BY DEF EagerFresh
  <1>1. HandlesLive /\ NodesLive /\ PullersLive /\ RestTyped
    BY AtRest DEF ProgramLive, GraphInv
  <1>2. /\ eagerBy[i] # None /\ IsSlot(i) /\ made[code[i]] # None
        /\ IsEffect(eagerBy[i].id) /\ code[eagerBy[i].id] = Puller(code[i])
    BY <1>1 DEF PullersLive
  <1>3. PICK k \in Items : k = code[i]
    BY <1>2 DEF GraphInv, ArenaKept, IsSlot
  <1>4. PICK p \in Ids : p = eagerBy[i].id
    <2>1. eagerBy[i] \in Handle
      BY <1>1, <1>2 DEF RestTyped
    <2> QED BY <2>1 DEF Handle
  <1>5. made[k].id = i
    <2>1. made[k].id \in Ids /\ code[made[k].id] = k /\ k # 0
      BY <1>1, <1>2, <1>3, MadeTyped, PlanTyped DEF HandlesLive
    <2> QED BY <2>1, <1>1, <1>3 DEF NodesLive
  <1>6. PICK c : c = Puller(k)
    OBVIOUS
  <1>7. IsEffect(p) /\ code[p] = c /\ c \notin Items /\ c - Len(Plan) = k
    BY <1>2, <1>3, <1>4, <1>6, PlanTyped DEF Puller, Items
  <1>8. PICK log \in Logs : log = seen[c]
    BY <1>7, AtRest DEF SeenHolds
  <1>9. Code(c, log).do = "return" /\ LogHolds(p, c, log, {})
    BY <1>7, <1>8, AtRest DEF SeenHolds
  <1>10. log # << >>
    <2>1. PICK op : op = [do |-> "get", of |-> c - Len(Plan)]
      OBVIOUS
    <2>2. op.do # "return" /\ (log = << >> => Code(c, log) = op)
      BY <2>1, <1>7 DEF Code
    <2> QED BY <2>2, <1>9
  <1>11. 1 \in 1..Len(log) /\ SubSeq(log, 1, 1 - 1) = << >>
    <2>1. log \in Seq(Results)
      BY LogsAreSequences
    <2>2. Len(log) \in Nat /\ Len(log) # 0
      BY <2>1, <1>10, LenProperties, EmptySeq
    <2>3. SubSeq(log, 1, 0) = << >>
      BY <2>1, SubSeqEmpty
    <2> QED BY <2>2, <2>3
  <1>12. PICK op : op = [do |-> "get", of |-> c - Len(Plan)]
    OBVIOUS
  <1>13. op.do = "get" /\ op.of = k /\ EntryOp(c, log, 1) = op
    BY <1>7, <1>11, <1>12 DEF EntryOp, Code
  <1>14. p \in dpts[made[k].id]
    <2>1. EntryHolds(p, c, log, 1, {})
      BY <1>9, <1>11 DEF LogHolds
    <2> QED BY <2>1, <1>13 DEF EntryHolds, EntryOf
  <1> QED BY <1>2, <1>5, <1>7, <1>14, AtRest

\* Glitch freedom at rest, and the promise of eager computed cells: whenever control
\* is back with the program outside a batch, the last run of every effect saw what
\* the items it reads mean now, and every eager cell is materialized; for a program
\* whose computed cells only read, and read items created before them, and that
\* neither throws nor disposes of a node.  The flush owes nothing when it returns,
\* across re-entrant writes, nodes made in effects, batches and dynamic dependencies.
THEOREM ReactionsStayCurrent ==
  ASSUME PureSlots, Layered, Undisturbed
  PROVE  Spec => []ReactionsCurrent
  <1>1. GraphInv /\ CacheInv /\ [Next]_vars => CacheInv'
    BY CacheInvHolds
  <1>2. GraphInv /\ CacheInv /\ ReactInv /\ [Next]_vars => ReactInv'
    BY ReactInvHolds
  <1>3. Init => HandlesOwn
    BY DEF Init, HandlesOwn
  <1>4. GraphInv /\ HandlesOwn /\ CacheInv /\ ReactInv => ReactionsCurrent
    <2> SUFFICES ASSUME GraphInv, HandlesOwn, CacheInv, ReactInv PROVE ReactionsCurrent
      OBVIOUS
    <2> QED BY EffectsAtRest, EagerAtRest DEF ReactionsCurrent
  <1>5. Init => ReactInv
    BY ReactsStart
  <1> QED BY <1>1, <1>2, <1>3, <1>4, <1>5, GraphInvStarts, GraphInvHolds, HandlesOwnHolds, CacheInvStarts, PTL DEF Spec

=============================================================================
