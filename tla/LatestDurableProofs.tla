------------------------- MODULE LatestDurableProofs -------------------------
(***************************************************************************)
(* The core of the latest-durable projection keeps the newest accepted     *)
(* value of every key, and implements DurableRegister, for every set of    *)
(* keys and values and any number of epochs and generations.  The shell    *)
(* around it shows the core at rest, for any number of threads.            *)
(***************************************************************************)
EXTENDS LatestDurableShell, TLAPS

\* The inductive invariant: the epochs of a key are ordered, its newest value
\* is in one of the three places, and an epoch names one value.
Inv ==
  /\ TypeOK /\ EpochsOrdered /\ NewestKept /\ NothingBeforeUpsert /\ EpochNamesValue

\* An empty core and a sink that was sent nothing satisfy the invariant.
LEMMA InvInit == Init => Inv
<1> SUFFICES ASSUME Init PROVE Inv
  OBVIOUS
<1>1. TypeOK
  BY BoundsAssumption DEF Init, TypeOK
<1>2. EpochsOrdered /\ NewestKept /\ NothingBeforeUpsert /\ EpochNamesValue
  BY DEF Init, EpochsOrdered, NewestKept, NothingBeforeUpsert, EpochNamesValue
<1> QED BY <1>1, <1>2 DEF Inv

\* What an upsert admits is newer than everything the key ever accepted.
LEMMA AdmittedIsNewer ==
  ASSUME Inv, NEW k \in Keys, NEW e \in Epochs, Admits(k, e), latest[k] # None
  PROVE  e > latest[k].epoch
<1>1. CASE desired[k] = latest[k]
  BY <1>1 DEF Admits
<1>2. CASE inflight[k] # None /\ inflight[k].epoch = latest[k].epoch
  BY <1>2 DEF Admits
<1>3. CASE through[k] = latest[k].epoch
  <2>1. latest[k].epoch \in Epochs
    BY DEF Inv, TypeOK, Desired
  <2>2. through[k] # None
    BY <1>3, <2>1, BoundsAssumption DEF Epochs
  <2> QED BY <1>3, <2>2 DEF Admits
<1> QED BY <1>1, <1>2, <1>3 DEF Inv, NewestKept

\* upsert_desired, admitted or refused, keeps the invariant.
LEMMA UpsertKeeps ==
  ASSUME Inv, NEW k \in Keys, NEW e \in Epochs, NEW v \in Values, UpsertDesired(k, e, v)
  PROVE  Inv'
<1> DEFINE d == [epoch |-> e, value |-> v]
<1>1. d \in Desired /\ d # None /\ d.epoch = e /\ d.value = v
  BY NoneAssumption DEF Desired
<1>2. /\ desired' = [desired EXCEPT ![k] = d] /\ latest' = [latest EXCEPT ![k] = d]
      /\ UNCHANGED <<generation, inflight, through, attempts, stored>> /\ Admits(k, e)
  BY DEF UpsertDesired
<1> HIDE DEF d
<1>3. TypeOK'
  BY <1>1, <1>2 DEF Inv, TypeOK
<1>4. EpochsOrdered'
  BY <1>1, <1>2 DEF Inv, TypeOK, EpochsOrdered, Admits
<1>5. NewestKept' /\ NothingBeforeUpsert'
  BY <1>1, <1>2 DEF Inv, TypeOK, NewestKept, NothingBeforeUpsert
<1>6. EpochNamesValue'
  <2>1. \A a \in attempts : a.key = k => e > a.epoch
    BY <1>2, AdmittedIsNewer DEF Inv, TypeOK, EpochNamesValue, Attempt, Desired, Epochs
  <2> QED BY <1>1, <1>2, <2>1 DEF Inv, TypeOK, EpochNamesValue, Attempt, Desired, Epochs
<1> QED BY <1>3, <1>4, <1>5, <1>6 DEF Inv

\* claim moves the pending value in flight under a new attempt and keeps the
\* invariant.
LEMMA ClaimKeeps ==
  ASSUME Inv, NEW k \in Keys, NEW g \in 0..MaxGen, Claim(k, g)
  PROVE  Inv'
<1> DEFINE a == Envelope(k)
<1>1. /\ inflight[k] = None /\ desired[k] # None /\ desired[k] \in Desired
      /\ inflight' = [inflight EXCEPT ![k] = a]
      /\ desired' = [desired EXCEPT ![k] = None]
      /\ attempts' = attempts \cup {a}
      /\ UNCHANGED <<generation, through, stored, latest>>
  BY DEF Claim, Inv, TypeOK
<1>2. /\ a \in Attempt /\ a # None /\ a.key = k /\ a.gen = generation
      /\ a.epoch = desired[k].epoch /\ a.value = desired[k].value
  BY <1>1, NoneAssumption DEF Envelope, Attempt, Desired, Inv, TypeOK
<1>3. latest[k] = desired[k]
  BY <1>1 DEF Inv, NewestKept, NothingBeforeUpsert
<1> HIDE DEF a
<1>4. TypeOK'
  BY <1>1, <1>2 DEF Inv, TypeOK
<1>5. EpochsOrdered'
  BY <1>1, <1>2 DEF Inv, TypeOK, EpochsOrdered
<1>6. NewestKept' /\ NothingBeforeUpsert'
  BY <1>1, <1>2, <1>3 DEF Inv, TypeOK, NewestKept, NothingBeforeUpsert
<1>7. EpochNamesValue'
  BY <1>1, <1>2, <1>3 DEF Inv, TypeOK, EpochNamesValue, Attempt, Desired, Epochs
<1> QED BY <1>4, <1>5, <1>6, <1>7 DEF Inv

\* The acknowledged attempt and the value in flight are the same value, so the
\* sink holds what becomes durable.
LEMMA AckKeeps ==
  ASSUME Inv, NEW a \in attempts, DeliverAck(a)
  PROVE  Inv'
<1> DEFINE k == a.key
<1>1. /\ k \in Keys /\ a \in Attempt /\ a.epoch \in Epochs
      /\ inflight[k] # None /\ inflight[k].epoch = a.epoch /\ inflight[k] \in attempts
      /\ inflight[k].key = k /\ inflight[k] \in Attempt
      /\ [key |-> k, epoch |-> a.epoch, value |-> a.value] \in stored
      /\ inflight' = [inflight EXCEPT ![k] = None]
      /\ UNCHANGED <<generation, desired, attempts, stored, latest>>
  BY DEF DeliverAck, Applied, AckApplied, Owns, Inv, TypeOK, EpochsOrdered, Attempt
<1>2. through' = [through EXCEPT ![k] = a.epoch]
  <2>1. through' = [through EXCEPT ![k] = IF through[k] # None /\ through[k] > a.epoch THEN through[k] ELSE a.epoch]
    BY DEF DeliverAck, AckApplied
  <2>2. ~(through[k] # None /\ through[k] > a.epoch)
    BY <1>1, BoundsAssumption DEF Inv, TypeOK, EpochsOrdered, Epochs
  <2> QED BY <2>1, <2>2
<1>3. inflight[k].value = a.value
  BY <1>1 DEF Inv, EpochNamesValue
<1> HIDE DEF k
<1>4. TypeOK'
  BY <1>1, <1>2 DEF Inv, TypeOK
<1>5. EpochsOrdered'
  BY <1>1, <1>2 DEF Inv, TypeOK, EpochsOrdered, Epochs
<1>6. NewestKept'
  BY <1>1, <1>2, <1>3 DEF Inv, TypeOK, NewestKept
<1>7. NothingBeforeUpsert'
  BY <1>1, <1>2 DEF Inv, TypeOK, NothingBeforeUpsert
<1>8. EpochNamesValue'
  BY <1>1 DEF Inv, EpochNamesValue
<1> QED BY <1>4, <1>5, <1>6, <1>7, <1>8 DEF Inv

\* What is pending once a key's attempt has gone out of flight.
LEMMA RequeuedFacts ==
  ASSUME Inv, NEW k \in Keys, NEW q, q = Requeued(desired[k], inflight[k])
  PROVE  /\ q \in Desired \cup {None}
         /\ inflight[k] = None => q = desired[k]
         /\ desired[k] # None => q = desired[k]
         /\ desired[k] = None /\ inflight[k] # None =>
              q # None /\ q.epoch = inflight[k].epoch /\ q.value = inflight[k].value
<1>1. desired[k] # None /\ inflight[k] # None => desired[k].epoch > inflight[k].epoch
  BY DEF Inv, EpochsOrdered
<1>2. inflight[k] # None =>
        /\ [epoch |-> inflight[k].epoch, value |-> inflight[k].value] \in Desired
        /\ [epoch |-> inflight[k].epoch, value |-> inflight[k].value] # None
  BY NoneAssumption DEF Inv, TypeOK, Attempt, Desired
<1>3. desired[k] \in Desired \cup {None}
  BY DEF Inv, TypeOK
<1> QED BY <1>1, <1>2, <1>3 DEF Requeued

\* A requeued attempt is pending as it was, so the invariant carries over from
\* any set of keys whose attempts go out of flight.
LEMMA RequeueKeeps ==
  ASSUME Inv, NEW R \in SUBSET Keys,
         generation' \in 0..MaxGen,
         generation' = generation \/ R = Keys,
         desired' = [k \in Keys |-> IF k \in R THEN Requeued(desired[k], inflight[k]) ELSE desired[k]],
         inflight' = [k \in Keys |-> IF k \in R THEN None ELSE inflight[k]],
         UNCHANGED <<through, attempts, stored, latest>>
  PROVE  Inv'
<1>1. \A k \in Keys :
        /\ k \in R => /\ inflight'[k] = None
                      /\ desired'[k] \in Desired \cup {None}
                      /\ inflight[k] = None => desired'[k] = desired[k]
                      /\ desired[k] # None => desired'[k] = desired[k]
                      /\ desired[k] = None /\ inflight[k] # None =>
                           /\ desired'[k] # None /\ desired'[k].epoch = inflight[k].epoch
                           /\ desired'[k].value = inflight[k].value
        /\ k \notin R => desired'[k] = desired[k] /\ inflight'[k] = inflight[k]
  BY RequeuedFacts
<1>2. TypeOK'
  BY <1>1 DEF Inv, TypeOK
<1>3. EpochsOrdered'
  BY <1>1 DEF Inv, TypeOK, EpochsOrdered
<1>4. NewestKept'
  <2> SUFFICES ASSUME NEW k \in Keys, latest[k] # None, k \in R,
                      desired[k] = None, inflight[k] # None
               PROVE  desired'[k] = latest[k]
    BY <1>1 DEF Inv, NewestKept
  <2>1. inflight[k].epoch = latest[k].epoch /\ inflight[k].value = latest[k].value
    BY DEF Inv, NewestKept, TypeOK
  <2>2. desired'[k] \in Desired /\ latest[k] \in Desired
    BY <1>1 DEF Inv, TypeOK
  <2> QED BY <1>1, <2>1, <2>2 DEF Desired
<1>5. NothingBeforeUpsert'
  BY <1>1 DEF Inv, NothingBeforeUpsert
<1>6. EpochNamesValue'
  BY <1>1 DEF Inv, EpochNamesValue, EpochsOrdered
<1> QED BY <1>2, <1>3, <1>4, <1>5, <1>6 DEF Inv

\* fail_retryable, owned or stale, keeps the invariant.
LEMMA FailKeeps ==
  ASSUME Inv, NEW a \in attempts, DeliverFail(a)
  PROVE  Inv'
<1> a.key \in Keys
  BY DEF Inv, TypeOK, Attempt
<1>1. desired' = [k \in Keys |-> IF k \in {a.key} THEN Requeued(desired[k], inflight[k]) ELSE desired[k]]
  BY DEF DeliverFail, FailRetryable, Inv, TypeOK
<1>2. inflight' = [k \in Keys |-> IF k \in {a.key} THEN None ELSE inflight[k]]
  BY DEF DeliverFail, FailRetryable, Inv, TypeOK
<1>3. UNCHANGED <<generation, through, attempts, stored, latest>> /\ generation' \in 0..MaxGen
  BY DEF DeliverFail, FailRetryable, Inv, TypeOK
<1>4. {a.key} \in SUBSET Keys
  OBVIOUS
<1> QED BY <1>1, <1>2, <1>3, <1>4, RequeueKeeps

\* reconnect, which requeues every attempt in flight, keeps the invariant.
LEMMA ReconnectKeeps ==
  ASSUME Inv, NEW g \in 0..MaxGen, Reconnect(g)
  PROVE  Inv'
  BY RequeueKeeps DEF Reconnect, Abandoned

\* The sink applying an attempt it was sent keeps the invariant.
LEMMA ApplyKeeps ==
  ASSUME Inv, NEW a \in attempts, Apply(a)
  PROVE  Inv'
<1>1. [key |-> a.key, epoch |-> a.epoch, value |-> a.value] \in [key : Keys, epoch : Epochs, value : Values]
  BY DEF Inv, TypeOK, Attempt
<1>2. TypeOK'
  BY <1>1 DEF Apply, Inv, TypeOK
<1>3. EpochsOrdered' /\ NothingBeforeUpsert' /\ EpochNamesValue'
  BY DEF Apply, Inv, EpochsOrdered, NothingBeforeUpsert, EpochNamesValue
<1>4. NewestKept'
  BY DEF Apply, Inv, NewestKept
<1> QED BY <1>2, <1>3, <1>4 DEF Inv

\* Every step of the core or of the sink keeps the invariant.
LEMMA InvNext == Inv /\ [Next]_vars => Inv'
<1> SUFFICES ASSUME Inv, [Next]_vars PROVE Inv'
  OBVIOUS
<1>1. CASE UNCHANGED vars
  BY <1>1 DEF vars, Inv, TypeOK, EpochsOrdered, NewestKept, NothingBeforeUpsert, EpochNamesValue
<1>2. CASE Next
  BY <1>2, UpsertKeeps, ClaimKeeps, AckKeeps, FailKeeps, ReconnectKeeps, ApplyKeeps
  DEF Next, CoreStep, SinkStep
<1> QED BY <1>1, <1>2

\* Every optional of the core holds a value of its type, whatever the calls.
THEOREM TypeCorrect == Spec => []TypeOK
<1>1. Inv => TypeOK
  BY DEF Inv
<1> QED BY <1>1, InvInit, InvNext, PTL DEF Spec

\* Pending, in flight and durable stay strictly ordered by epoch.
THEOREM OrderKept == Spec => []EpochsOrdered
<1>1. Inv => EpochsOrdered
  BY DEF Inv
<1> QED BY <1>1, InvInit, InvNext, PTL DEF Spec

\* The last accepted value of a key survives failures, reconnects and late,
\* lost or repeated answers.
THEOREM NewestNeverLost == Spec => []NewestKept
<1>1. Inv => NewestKept
  BY DEF Inv
<1> QED BY <1>1, InvInit, InvNext, PTL DEF Spec

\* An epoch of a key never names two values.
THEOREM EpochsNameValues == Spec => []EpochNamesValue
<1>1. Inv => EpochNamesValue
  BY DEF Inv
<1> QED BY <1>1, InvInit, InvNext, PTL DEF Spec

-----------------------------------------------------------------------------
(* The refinement *)

\* What the register shows of a key is what was accepted last and what is
\* durable.
View ==
  \A k \in Keys :
    /\ Newest[k] = IF latest[k] # None THEN latest[k].epoch ELSE 0
    /\ Newest[k] \in 0..MaxEpoch /\ Frontier[k] \in 0..MaxEpoch
    /\ Frontier[k] <= Newest[k]

\* What the register shows of a key, read off the invariant.
LEMMA InvView == Inv => View
<1> SUFFICES ASSUME Inv, NEW k \in Keys
             PROVE  /\ Newest[k] = IF latest[k] # None THEN latest[k].epoch ELSE 0
                    /\ Newest[k] \in 0..MaxEpoch /\ Frontier[k] \in 0..MaxEpoch
                    /\ Frontier[k] <= Newest[k]
  BY DEF View
<1>1. CASE latest[k] = None
  <2>1. desired[k] = None /\ inflight[k] = None /\ through[k] = None
    BY <1>1 DEF Inv, NothingBeforeUpsert
  <2> QED BY <1>1, <2>1, BoundsAssumption DEF Newest, Frontier
<1>2. CASE latest[k] # None
  <2>1. latest[k].epoch \in Epochs /\ latest[k] \in Desired /\ latest[k].epoch # None
    BY <1>2, BoundsAssumption DEF Inv, TypeOK, Desired, Epochs
  <2>2. through[k] # None => through[k] \in Epochs
    BY DEF Inv, TypeOK
  <2>3. Newest[k] = latest[k].epoch
    BY <1>2, <2>1 DEF Inv, NewestKept, Newest
  <2>4. through[k] # None => through[k] <= latest[k].epoch
    <3> SUFFICES ASSUME through[k] # None PROVE through[k] <= latest[k].epoch
      OBVIOUS
    <3>1. CASE desired[k] = latest[k]
      BY <1>2, <2>1, <2>2, <3>1, BoundsAssumption DEF Inv, EpochsOrdered, Epochs
    <3>2. CASE inflight[k] # None /\ inflight[k].epoch = latest[k].epoch
      BY <2>1, <2>2, <3>2, BoundsAssumption DEF Inv, EpochsOrdered, Epochs
    <3>3. CASE through[k] = latest[k].epoch
      BY <2>1, <3>3, BoundsAssumption DEF Epochs
    <3> QED BY <1>2, <3>1, <3>2, <3>3 DEF Inv, NewestKept
  <2> QED BY <1>2, <2>1, <2>2, <2>3, <2>4, BoundsAssumption DEF Frontier, Epochs
<1> QED BY <1>1, <1>2

\* A step that accepts nothing and persists nothing does not show.
LEMMA Invisible ==
  ASSUME Inv, Inv', UNCHANGED <<latest, through>>
  PROVE  UNCHANGED <<Newest, Frontier>>
<1>1. View /\ View'
  BY InvView, PTL
<1>2. \A k \in Keys : Newest'[k] = Newest[k]
  BY <1>1 DEF View
<1> QED BY <1>2 DEF Newest, Frontier

\* An accepted upsert is the register's Accept.
LEMMA UpsertAccepts ==
  ASSUME Inv, Inv', NEW k \in Keys, NEW e \in Epochs, NEW v \in Values, UpsertDesired(k, e, v)
  PROVE  Register!Accept(k)
<1>1. latest' = [latest EXCEPT ![k] = [epoch |-> e, value |-> v]] /\ UNCHANGED through
      /\ latest \in [Keys -> Desired \cup {None}]
  BY DEF UpsertDesired, Inv, TypeOK
<1>2. [epoch |-> e, value |-> v] # None
  BY NoneAssumption DEF Desired
<1>3. e > Newest[k]
  BY AdmittedIsNewer, InvView, BoundsAssumption DEF UpsertDesired, Epochs, View
<1>4. Newest' = [Newest EXCEPT ![k] = e]
  <2>1. View /\ View'
    BY InvView, PTL
  <2>2. \A j \in Keys : Newest'[j] = IF j = k THEN e ELSE Newest[j]
    BY <1>1, <1>2, <2>1 DEF View
  <2> QED BY <2>2 DEF Newest
<1>5. UNCHANGED Frontier
  BY <1>1 DEF Frontier
<1> QED BY <1>3, <1>4, <1>5 DEF Register!Accept

\* An acknowledgement that is taken is the register's Persist.
LEMMA AckPersists ==
  ASSUME Inv, Inv', NEW a \in attempts, DeliverAck(a)
  PROVE  Register!Persist(a.key)
<1> DEFINE k == a.key
<1>1. k \in Keys /\ a.epoch \in Epochs /\ inflight[k] # None /\ inflight[k].epoch = a.epoch
      /\ UNCHANGED latest
  BY DEF DeliverAck, AckApplied, Owns, Inv, TypeOK, Attempt
<1>2. through[k] # None => a.epoch > through[k]
  BY <1>1 DEF Inv, EpochsOrdered
<1>3. through' = [through EXCEPT ![k] = a.epoch] /\ through \in [Keys -> Epochs \cup {None}]
  <2>1. through' = [through EXCEPT ![k] = IF through[k] # None /\ through[k] > a.epoch THEN through[k] ELSE a.epoch]
    BY DEF DeliverAck, AckApplied
  <2>2. ~(through[k] # None /\ through[k] > a.epoch)
    BY <1>1, <1>2, BoundsAssumption DEF Inv, TypeOK, Epochs
  <2> QED BY <2>1, <2>2 DEF Inv, TypeOK
<1> HIDE DEF k
<1>4. a.epoch # None
  BY <1>1, BoundsAssumption DEF Epochs
<1>5. Frontier' = [Frontier EXCEPT ![k] = a.epoch]
  BY <1>1, <1>3, <1>4 DEF Frontier
<1>6. Frontier[k] < a.epoch
  BY <1>1, <1>2, BoundsAssumption DEF Frontier, Epochs
<1>7. View /\ View'
  BY InvView, PTL
<1>8. UNCHANGED Newest
  <2>1. \A j \in Keys : Newest'[j] = Newest[j]
    BY <1>1, <1>7 DEF View
  <2> QED BY <2>1 DEF Newest
<1>9. a.epoch <= Newest[k]
  <2>1. Frontier'[k] = a.epoch
    BY <1>1, <1>5 DEF Frontier
  <2> QED BY <1>1, <1>7, <1>8, <2>1 DEF View
<1> QED BY <1>1, <1>5, <1>6, <1>8, <1>9 DEF Register!Persist, k

\* Each step of the core or of the sink is a step of the register or invisible.
LEMMA StepRefines == Inv /\ Inv' /\ [Next]_vars => [Register!Next]_<<Newest, Frontier>>
<1> SUFFICES ASSUME Inv, Inv', [Next]_vars PROVE [Register!Next]_<<Newest, Frontier>>
  OBVIOUS
<1>1. CASE UNCHANGED vars
  BY <1>1, Invisible DEF vars
<1>2. ASSUME NEW k \in Keys, NEW e \in Epochs, NEW v \in Values, UpsertDesired(k, e, v)
      PROVE  Register!Next
  BY <1>2, UpsertAccepts DEF Register!Next
<1>3. ASSUME NEW k \in Keys, NEW g \in 0..MaxGen, Claim(k, g)
      PROVE  UNCHANGED <<Newest, Frontier>>
  BY <1>3, Invisible DEF Claim
<1>4. ASSUME NEW a \in attempts, DeliverAck(a)
      PROVE  Register!Next
  BY <1>4, AckPersists DEF Register!Next, Inv, TypeOK, Attempt
<1>5. ASSUME NEW a \in attempts, DeliverFail(a)
      PROVE  UNCHANGED <<Newest, Frontier>>
  BY <1>5, Invisible DEF DeliverFail, FailRetryable
<1>6. ASSUME NEW g \in 0..MaxGen, Reconnect(g)
      PROVE  UNCHANGED <<Newest, Frontier>>
  BY <1>6, Invisible DEF Reconnect
<1>7. ASSUME NEW a \in attempts, Apply(a)
      PROVE  UNCHANGED <<Newest, Frontier>>
  BY <1>7, Invisible DEF Apply
<1> QED BY <1>1, <1>2, <1>3, <1>4, <1>5, <1>6, <1>7 DEF Next, CoreStep, SinkStep

\* The core implements the register: the newest accepted epoch and the durable
\* frontier only grow, and the frontier never passes what was accepted.
THEOREM CoreImplementsRegister == Spec => ImplementsRegister
<1>1. Init => Register!Init
  BY DEF Init, Register!Init, Newest, Frontier
<1> QED BY <1>1, InvInit, InvNext, StepRefines, PTL DEF Spec, ImplementsRegister, Register!Spec

-----------------------------------------------------------------------------
(* The shell *)

\* Every step of the shell is a step of the core, of the sink, or invisible to
\* both: what holds of the core holds with any number of threads around it.
THEOREM ShellImplementsCore == ShellSpec => Spec
<1>1. ShellInit => Init
  BY DEF ShellInit
<1>2. [ShellNext]_allVars => [Next]_vars
  BY DEF ShellNext, allVars, Mutate, Finish, Lookup, Invalidate, EndRead, BeginRead, EntryHandle, Next
<1> QED BY <1>1, <1>2, PTL DEF ShellSpec, Spec

\* The threads' work and the caches have their shapes.
ShellTyped ==
  /\ DOMAIN at = Threads /\ at = [t \in Threads |-> at[t]]
  /\ \A t \in Threads : /\ at[t] = [do |-> at[t].do, of |-> at[t].of, saw |-> at[t].saw]
                        /\ at[t].of \subseteq Readers

\* Some thread has still to clear the reader r.
Owed(r) == \E t \in Threads : at[t].do \in {"changed", "roots"} /\ r \in at[t].of

\* A cached value that is not the core's will be cleared.
StaleIsOwed ==
  \A r \in Readers : cache[r] = None \/ cache[r] = Shown(r) \/ Owed(r)

\* A thread that is about to store holds the graph, stores for a reader that
\* exists, and if the core has moved since it looked, the clear is owed.
StoresAreOwed ==
  \A t \in Threads : at[t].do = "store" =>
    /\ graph = t
    /\ \A r \in at[t].of : r \in readers /\ (at[t].saw = Shown(r) \/ Owed(r))

\* A reader that was never created has nothing cached.
AbsentIsEmpty == \A r \in Readers : r \notin readers => cache[r] = None

\* The inductive invariant of the shell.
ShellInv == ShellTyped /\ StaleIsOwed /\ StoresAreOwed /\ AbsentIsEmpty

\* The shell starts with empty caches and idle threads.
LEMMA ShellInvInit == ShellInit => ShellInv
  BY DEF ShellInit, ShellInv, ShellTyped, StaleIsOwed, StoresAreOwed, AbsentIsEmpty, Idle

\* What the reader shows depends on the core only.
LEMMA ShownUnchanged ==
  ASSUME UNCHANGED core, NEW r \in Readers
  PROVE  Shown(r)' = Shown(r)
  BY DEF core, Shown

\* A mutation owes the clear of every reader it changes.
LEMMA MutateKeeps ==
  ASSUME ShellInv, NEW t \in Threads, Mutate(t)
  PROVE  ShellInv'
<1>1. PICK C : C = {r \in Readers : Shown(r)' # Shown(r)}
  OBVIOUS
<1>2. /\ at[t] = Idle /\ at' = [at EXCEPT ![t] = [Idle EXCEPT !.do = "changed", !.of = C]]
      /\ UNCHANGED <<readers, cache, graph>>
  BY <1>1 DEF Mutate
<1>3. /\ at'[t] = [do |-> "changed", of |-> C, saw |-> None] /\ DOMAIN at' = Threads
      /\ at' = [u \in Threads |-> at'[u]]
      /\ \A u \in Threads : u # t => at'[u] = at[u]
      /\ at[t].do = "idle"
  <2>1. PICK a : a = [Idle EXCEPT !.do = "changed", !.of = C]
    OBVIOUS
  <2>2. a = [do |-> "changed", of |-> C, saw |-> None] /\ Idle.do = "idle"
    BY <2>1 DEF Idle
  <2>3. at' = [at EXCEPT ![t] = a]
    BY <1>2, <2>1
  <2>4. /\ at'[t] = a /\ DOMAIN at' = Threads /\ at' = [u \in Threads |-> at'[u]]
        /\ \A u \in Threads : u # t => at'[u] = at[u]
    BY <2>3 DEF ShellInv, ShellTyped
  <2> QED BY <1>2, <2>2, <2>4
<1>4. \A r \in Readers : (Owed(r) => Owed(r)') /\ (r \in C => Owed(r)') /\ (r \notin C => Shown(r)' = Shown(r))
  BY <1>1, <1>3 DEF Owed
<1>5. ShellTyped'
  BY <1>1, <1>3 DEF ShellInv, ShellTyped
<1>6. StaleIsOwed'
  BY <1>2, <1>4 DEF ShellInv, StaleIsOwed
<1>7. StoresAreOwed'
  BY <1>2, <1>3, <1>4 DEF ShellInv, ShellTyped, StoresAreOwed
<1>8. AbsentIsEmpty'
  BY <1>2 DEF ShellInv, AbsentIsEmpty
<1> QED BY <1>5, <1>6, <1>7, <1>8 DEF ShellInv

\* The look-up forgets only readers that do not exist.
LEMMA LookupKeeps ==
  ASSUME ShellInv, NEW t \in Threads, Lookup(t)
  PROVE  ShellInv'
<1>1. /\ at[t].do = "changed" /\ UNCHANGED <<core, readers, cache, graph>>
      /\ at' = [at EXCEPT ![t] = IF at[t].of \cap readers = {} THEN Idle
                                 ELSE [Idle EXCEPT !.do = "roots", !.of = at[t].of \cap readers]]
  BY DEF Lookup, vars, core
<1>2. PICK a : a = IF at[t].of \cap readers = {} THEN Idle
                   ELSE [Idle EXCEPT !.do = "roots", !.of = at[t].of \cap readers]
  OBVIOUS
<1>3. /\ a = [do |-> a.do, of |-> a.of, saw |-> a.saw]
      /\ a.of = at[t].of \cap readers /\ a.do # "store"
      /\ at[t].of \cap readers # {} => a.do = "roots"
  BY <1>2 DEF Idle
<1>4. /\ DOMAIN at' = Threads /\ at' = [u \in Threads |-> at'[u]] /\ at'[t] = a
       /\ \A u \in Threads : u # t => at'[u] = at[u]
  BY <1>1, <1>2 DEF ShellInv, ShellTyped
<1>5. \A r \in readers : Owed(r) => Owed(r)'
  BY <1>4, <1>3 DEF Owed
<1>6. \A r \in Readers : Shown(r)' = Shown(r)
  BY <1>1, ShownUnchanged
<1>7. ShellTyped'
  BY <1>4, <1>3 DEF ShellInv, ShellTyped
<1>8. StaleIsOwed'
  BY <1>1, <1>5, <1>6 DEF ShellInv, StaleIsOwed, AbsentIsEmpty
<1>9. StoresAreOwed'
  BY <1>1, <1>4, <1>3, <1>5, <1>6 DEF ShellInv, ShellTyped, StoresAreOwed
<1>10. AbsentIsEmpty'
  BY <1>1 DEF ShellInv, AbsentIsEmpty
<1> QED BY <1>7, <1>8, <1>9, <1>10 DEF ShellInv

\* The clear happens while no read is between its look and its store.
LEMMA InvalidateKeeps ==
  ASSUME ShellInv, NEW t \in Threads, Invalidate(t)
  PROVE  ShellInv'
<1>1. /\ at[t].do = "roots" /\ graph = None /\ UNCHANGED <<core, readers, graph>>
      /\ cache' = [r \in Readers |-> IF r \in at[t].of THEN None ELSE cache[r]]
      /\ at' = [at EXCEPT ![t] = Idle]
  BY DEF Invalidate, GraphFree, vars, core
<1>2. /\ DOMAIN at' = Threads /\ at' = [u \in Threads |-> at'[u]] /\ at'[t] = Idle
      /\ \A u \in Threads : u # t => at'[u] = at[u]
  BY <1>1 DEF ShellInv, ShellTyped
<1>3. \A u \in Threads : at[u].do # "store"
  BY <1>1, ThreadsAssumption DEF ShellInv, StoresAreOwed
<1>4. \A r \in Readers : Shown(r)' = Shown(r)
  BY <1>1, ShownUnchanged
<1>5. \A r \in Readers : r \notin at[t].of /\ Owed(r) => Owed(r)'
  BY <1>2 DEF Owed
<1>6. ShellTyped'
  BY <1>2 DEF ShellInv, ShellTyped, Idle
<1>7. StaleIsOwed'
  BY <1>1, <1>4, <1>5 DEF ShellInv, StaleIsOwed
<1>8. StoresAreOwed'
  BY <1>2, <1>3 DEF StoresAreOwed, Idle
<1>9. AbsentIsEmpty'
  BY <1>1 DEF ShellInv, AbsentIsEmpty
<1> QED BY <1>6, <1>7, <1>8, <1>9 DEF ShellInv

\* A read takes its snapshot of the core with the graph locked.
LEMMA BeginReadKeeps ==
  ASSUME ShellInv, NEW t \in Threads, NEW r \in Readers, BeginRead(t, r)
  PROVE  ShellInv'
<1>1. PICK a : a = [do |-> "store", of |-> {r}, saw |-> Shown(r)]
  OBVIOUS
<1>2. /\ at[t] = Idle /\ r \in readers /\ graph = None /\ graph' = t
      /\ at' = [at EXCEPT ![t] = a] /\ UNCHANGED <<core, readers, cache>>
  BY <1>1 DEF BeginRead, vars, core
<1>3. a.do = "store" /\ a.of = {r} /\ a.saw = Shown(r) /\ a = [do |-> a.do, of |-> a.of, saw |-> a.saw]
  BY <1>1
<1>4. /\ DOMAIN at' = Threads /\ at' = [u \in Threads |-> at'[u]] /\ at'[t] = a
      /\ \A u \in Threads : u # t => at'[u] = at[u]
      /\ at[t].do = "idle"
  BY <1>2 DEF ShellInv, ShellTyped, Idle
<1>5. \A u \in Threads : at[u].do # "store"
  BY <1>2, ThreadsAssumption DEF ShellInv, StoresAreOwed
<1>6. \A q \in Readers : Shown(q)' = Shown(q)
  BY <1>2, ShownUnchanged
<1>7. \A q \in Readers : Owed(q) => Owed(q)'
  BY <1>4 DEF Owed
<1>8. ShellTyped'
  BY <1>3, <1>4 DEF ShellInv, ShellTyped
<1>9. StaleIsOwed'
  BY <1>2, <1>6, <1>7 DEF ShellInv, StaleIsOwed
<1>10. StoresAreOwed'
  BY <1>2, <1>3, <1>4, <1>5, <1>6 DEF StoresAreOwed
<1>11. AbsentIsEmpty'
  BY <1>2 DEF ShellInv, AbsentIsEmpty
<1> QED BY <1>8, <1>9, <1>10, <1>11 DEF ShellInv

\* A read stores what it saw: the core's value, or one that is owed a clear.
LEMMA EndReadKeeps ==
  ASSUME ShellInv, NEW t \in Threads, EndRead(t)
  PROVE  ShellInv'
<1>1. /\ at[t].do = "store" /\ graph' = None /\ UNCHANGED <<core, readers>>
      /\ cache' = [r \in Readers |-> IF r \in at[t].of THEN at[t].saw ELSE cache[r]]
      /\ at' = [at EXCEPT ![t] = Idle]
  BY DEF EndRead, vars, core
<1>2. /\ DOMAIN at' = Threads /\ at' = [u \in Threads |-> at'[u]] /\ at'[t] = Idle
      /\ \A u \in Threads : u # t => at'[u] = at[u]
  BY <1>1 DEF ShellInv, ShellTyped
<1>3. /\ \A u \in Threads : u # t => at[u].do # "store"
      /\ \A r \in at[t].of : r \in readers /\ (at[t].saw = Shown(r) \/ Owed(r))
  BY <1>1 DEF ShellInv, StoresAreOwed
<1>4. \A r \in Readers : Shown(r)' = Shown(r)
  BY <1>1, ShownUnchanged
<1>5. \A r \in Readers : Owed(r) => Owed(r)'
  BY <1>1, <1>2 DEF Owed
<1>6. ShellTyped'
  BY <1>2 DEF ShellInv, ShellTyped, Idle
<1>7. StaleIsOwed'
  BY <1>1, <1>3, <1>4, <1>5 DEF ShellInv, StaleIsOwed
<1>8. StoresAreOwed'
  BY <1>2, <1>3 DEF StoresAreOwed, Idle
<1>9. AbsentIsEmpty'
  BY <1>1, <1>3 DEF ShellInv, AbsentIsEmpty
<1> QED BY <1>6, <1>7, <1>8, <1>9 DEF ShellInv

\* A new reader, a step of the sink and a stutter change no cache and no core.
LEMMA OtherKeeps ==
  ASSUME ShellInv, UNCHANGED <<core, cache, graph, at>>, readers \subseteq readers'
  PROVE  ShellInv'
<1>1. \A r \in Readers : Shown(r)' = Shown(r) /\ Owed(r)' = Owed(r)
  BY ShownUnchanged DEF Owed
<1>2. ShellTyped' /\ AbsentIsEmpty'
  BY DEF ShellInv, ShellTyped, AbsentIsEmpty
<1>3. StaleIsOwed' /\ StoresAreOwed'
  BY <1>1 DEF ShellInv, ShellTyped, StaleIsOwed, StoresAreOwed
<1> QED BY <1>2, <1>3 DEF ShellInv

\* Every step of the shell keeps its invariant.
LEMMA ShellInvStep == ShellInv /\ [ShellNext]_allVars => ShellInv'
<1> SUFFICES ASSUME ShellInv, [ShellNext]_allVars PROVE ShellInv'
  OBVIOUS
<1>1. ASSUME NEW t \in Threads, Mutate(t) PROVE ShellInv'
  BY <1>1, MutateKeeps
<1>2. ASSUME NEW t \in Threads, Finish(t) PROVE ShellInv'
  BY <1>2, LookupKeeps, InvalidateKeeps, EndReadKeeps DEF Finish
<1>3. ASSUME NEW t \in Threads, NEW r \in Readers, BeginRead(t, r) PROVE ShellInv'
  BY <1>3, BeginReadKeeps
<1>4. CASE \E k \in Keys : EntryHandle(k)
  BY <1>4, OtherKeeps DEF EntryHandle, vars, core
<1>5. CASE SinkStep /\ UNCHANGED shell
  BY <1>5, OtherKeeps DEF SinkStep, Apply, shell, core
<1>6. CASE UNCHANGED allVars
  BY <1>6, OtherKeeps DEF allVars, vars, shell, core
<1> QED BY <1>1, <1>2, <1>3, <1>4, <1>5, <1>6 DEF ShellNext

\* latest_durable_projection.hpp commits under core_mutex, looks its readers up
\* under reader_mutex and clears them under the graph's lock: however these
\* interleave with reads, once every thread is done no reader is left on a
\* value computed before the last commit.
THEOREM CachesAreCurrent == ShellSpec => []CachesShowCore
<1>1. ShellInv => CachesShowCore
  BY DEF ShellInv, StaleIsOwed, Owed, CachesShowCore, Idle
<1> QED BY <1>1, ShellInvInit, ShellInvStep, PTL DEF ShellSpec

=============================================================================
