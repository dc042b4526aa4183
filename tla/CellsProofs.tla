----------------------------- MODULE CellsProofs -----------------------------
(***************************************************************************)
(* The cells over a core of their own, for every set of peers, threads and *)
(* subscribers and every bound: the fencing argument of coordination.hpp;  *)
(* the readers of the queue cell and the topic cell (queue.hpp), which     *)
(* commit under one lock and clear their readers later, so that the proofs *)
(* say who still owes a clear to a reader that shows an old value; and the *)
(* verdicts of Timer, Timeout and RevisionBarrier (stdlib.hpp).            *)
(***************************************************************************)
EXTENDS MCCells, FiniteSetTheorems, SequenceTheorems, TLAPS

-----------------------------------------------------------------------------
(* The lease *)

\* The lease alone: the types the argument needs.
LeaseTypes ==
  /\ holder \in Peers \cup {NoPeer}
  /\ left \in Nat /\ fence \in Nat /\ tokens \in [Peers -> Nat]

\* No peer holds a token from the future, which is why a new grant makes
\* every token handed out before it stale at once.
TokensPast == \A p \in Peers : tokens[p] <= fence

FenceInv == LeaseTypes /\ TokensPast /\ TokensFence

\* LeaseCore starts free, with no token handed out.
LEMMA FenceInvInit == CoordinationInit => FenceInv
BY CoordinationAssumption
   DEF CoordinationInit, FenceInv, LeaseTypes, TokensPast, TokensFence, validate

\* acquire: a grant gives the new fence to one peer and leaves every other
\* token below it; a renewal hands its holder the token it already has.
LEMMA AcquireKeepsFence ==
  ASSUME FenceInv, NEW p \in Peers, NEW ttl \in Ttls, Acquire(p, ttl)
  PROVE  FenceInv'
<1> USE CoordinationAssumption DEF FenceInv, LeaseTypes
<1>1. CASE /\ holder = NoPeer \/ is_expired
           /\ fence' = NextFence /\ holder' = p /\ left' = ttl
           /\ tokens' = [tokens EXCEPT ![p] = fence']
  <2>1. fence' = fence + 1 BY <1>1 DEF NextFence
  <2>2. \A q \in Peers : tokens'[q] = IF q = p THEN fence + 1 ELSE tokens[q]
    BY <1>1, <2>1
  <2>3. LeaseTypes' BY <1>1, <2>1
  <2>4. TokensPast' BY <2>1, <2>2 DEF TokensPast
  <2>5. TokensFence' BY <1>1, <2>1, <2>2 DEF TokensFence, TokensPast, validate
  <2> QED BY <2>3, <2>4, <2>5
<1>2. CASE /\ is_held /\ holder = p
           /\ left' = ttl
           /\ tokens' = [tokens EXCEPT ![p] = fence]
           /\ UNCHANGED <<holder, fence>>
  <2>1. tokens[p] = fence BY <1>2 DEF TokensFence, validate
  <2>2. tokens' = tokens BY <1>2, <2>1
  <2> QED BY <1>2, <2>2 DEF TokensPast, TokensFence, validate
<1>3. CASE UNCHANGED <<holder, left, fence, tokens>>
  BY <1>3 DEF TokensPast, TokensFence, validate
<1> QED BY <1>1, <1>2, <1>3 DEF Acquire

\* Every other operation leaves the fence and the tokens alone and can only
\* make the lease free.
LEMMA StepKeepsFence == FenceInv /\ [CoordinationNext]_coordinationVars => FenceInv'
<1> SUFFICES ASSUME FenceInv, [CoordinationNext]_coordinationVars PROVE FenceInv'
  OBVIOUS
<1> USE DEF FenceInv, LeaseTypes
<1>1. ASSUME NEW p \in Peers, NEW ttl \in Ttls, Acquire(p, ttl) PROVE FenceInv'
  BY <1>1, AcquireKeepsFence
<1>2. ASSUME NEW p \in Peers, NEW ttl \in Ttls, Renew(p, ttl) PROVE FenceInv'
  BY <1>2, CoordinationAssumption DEF Renew, TokensPast, TokensFence, validate
<1>3. ASSUME NEW p \in Peers, Release(p) PROVE FenceInv'
  BY <1>3 DEF Release, TokensPast, TokensFence, validate
<1>4. CASE TickLease
  BY <1>4 DEF TickLease, TokensPast, TokensFence, validate
<1>5. CASE Pass
  BY <1>5 DEF Pass, TokensPast, TokensFence, validate
<1>6. CASE UNCHANGED lease
  BY <1>6 DEF lease, TokensPast, TokensFence, validate
<1>7. ASSUME NEW p \in Peers, Arrive(p) PROVE UNCHANGED lease
  BY <1>7 DEF Arrive
<1>8. AcquirePermit \/ ReleasePermit \/ UNCHANGED coordinationVars => UNCHANGED lease
  BY DEF AcquirePermit, ReleasePermit, coordinationVars
<1> QED BY <1>1, <1>2, <1>3, <1>4, <1>5, <1>6, <1>7, <1>8 DEF CoordinationNext

\* Fencing holds of LeaseCore for ever: after a lease has passed on, the token
\* of a peer that slept through its expiry does not validate, and whoever
\* holds the lease holds the current token.
THEOREM FencingHolds == CoordinationSpec => []TokensFence
<1>1. FenceInv => TokensFence BY DEF FenceInv
<1> QED BY FenceInvInit, StepKeepsFence, <1>1, PTL DEF CoordinationSpec

-----------------------------------------------------------------------------
(* The queue cell *)

\* A clear of the closed reader sets it to TRUE, so whoever owes one must have
\* closed the queue.
ClosedOwed == queueReader = "closed" /\ queueOwed # {} => closed_

\* What is in the queue was pushed, and the reader that holds an old value is
\* owed a clear.
QueueInv == QueueTypeOK /\ ClosedOwed /\ QueueReadersCurrent

\* A queue starts empty, open, with the closed source set and nothing cached.
LEMMA QueueInvInit == QueueInit => QueueInv
<1> SUFFICES ASSUME QueueInit PROVE QueueInv
  OBVIOUS
<1>1. elements = << >> /\ Len(elements) = 0 /\ elements \in Seq(1 .. MaxPushes)
  BY DEF QueueInit
<1>2. QueueTypeOK
  <2>1. Len(elements) <= queue_capacity /\ pushes \in 0 .. MaxPushes
    BY <1>1, QueueCellAssumption DEF QueueInit
  <2> QED BY <1>1, <2>1 DEF QueueInit, QueueTypeOK
<1>3. ClosedOwed BY DEF QueueInit, ClosedOwed
<1>4. Shows(elements, closed_)["closed"] = closed_ BY DEF Shows
<1>5. QueueReadersCurrent
  BY <1>4 DEF QueueInit, QueueReadersCurrent
<1> QED BY <1>2, <1>3, <1>5 DEF QueueInv

\* invalidate_readers is exact enough: the reader it does not clear shows the
\* same value of the storage before and after a push.
LEMMA PushClears ==
  ASSUME NEW e \in Seq(Nat), NEW x \in Nat, NEW c \in BOOLEAN, NEW r \in QueueReaders,
         ~ invalidate_readers(Len(e), Len(e) + 1, e = << >>)[r]
  PROVE  Shows(Append(e, x), c)[r] = Shows(e, c)[r]
<1>1. Len(e) \in Nat /\ Len(Append(e, x)) = Len(e) + 1 /\ Append(e, x) # << >>
  OBVIOUS
<1>2. e # << >> => Append(e, x)[1] = e[1] /\ Len(e) # 0
  OBVIOUS
<1>3. CASE r = "head" BY <1>1, <1>2, <1>3 DEF invalidate_readers, Shows
<1>4. CASE r = "len" BY <1>4 DEF invalidate_readers
<1>5. CASE r = "is_empty"
  <2>1. ~ ((Len(e) = 0) # (Len(e) + 1 = 0)) BY <1>5 DEF invalidate_readers
  <2>2. e # << >> BY <1>1, <2>1
  <2> QED BY <1>1, <1>5, <2>2 DEF Shows
<1>6. CASE r = "is_full"
  <2>1. ~ ((Len(e) >= queue_capacity) # (Len(e) + 1 >= queue_capacity))
    BY <1>6 DEF invalidate_readers
  <2> QED BY <1>1, <1>6, <2>1 DEF Shows
<1>7. CASE r = "closed" BY <1>7 DEF Shows
<1> QED BY <1>3, <1>4, <1>5, <1>6, <1>7 DEF QueueReaders

\* The same for a pop, which always clears the head.
LEMMA PopClears ==
  ASSUME NEW e \in Seq(Nat), e # << >>, NEW c \in BOOLEAN, NEW r \in QueueReaders,
         ~ invalidate_readers(Len(e), Len(e) - 1, TRUE)[r]
  PROVE  Shows(Tail(e), c)[r] = Shows(e, c)[r]
<1>1. Len(e) \in Nat /\ Len(e) # 0 /\ Len(Tail(e)) = Len(e) - 1
  OBVIOUS
<1>2. Tail(e) = << >> <=> Len(e) - 1 = 0
  BY <1>1
<1>3. CASE r \in {"head", "len"} BY <1>3 DEF invalidate_readers
<1>5. CASE r = "is_empty"
  <2>1. ~ ((Len(e) = 0) # (Len(e) - 1 = 0)) BY <1>5 DEF invalidate_readers
  <2>2. Tail(e) # << >> BY <1>1, <1>2, <2>1
  <2> QED BY <1>5, <2>2 DEF Shows
<1>6. CASE r = "is_full"
  <2>1. ~ ((Len(e) >= queue_capacity) # (Len(e) - 1 >= queue_capacity))
    BY <1>6 DEF invalidate_readers
  <2> QED BY <1>1, <1>6, <2>1 DEF Shows
<1>7. CASE r = "closed" BY <1>7 DEF Shows
<1> QED BY <1>3, <1>5, <1>6, <1>7 DEF QueueReaders

\* No step of any thread leaves a reader behind.
LEMMA QueueStep == QueueInv /\ [QueueNext]_queueVars => QueueInv'
<1> SUFFICES ASSUME QueueInv, [QueueNext]_queueVars PROVE QueueInv'
  OBVIOUS
<1> USE QueueCellAssumption
<1>t. /\ elements \in Seq(1 .. MaxPushes) /\ elements \in Seq(Nat)
      /\ closed_ \in BOOLEAN /\ queueReader \in QueueReaders
      /\ pushes \in 0 .. MaxPushes /\ Len(elements) \in Nat
  BY DEF QueueInv, QueueTypeOK
<1>1. ASSUME NEW t \in QueueThreads, TryPush(t) PROVE QueueInv'
  <2>1. pushes' \in 1 .. MaxPushes /\ pushes' \in Nat /\ pushes' = pushes + 1
    BY <1>1, <1>t DEF TryPush
  <2>2. QueueTypeOK'
    BY <1>1, <1>t, <2>1 DEF QueueInv, QueueTypeOK, TryPush, Owes
  <2>3. ClosedOwed'
    BY <1>1, <1>t DEF QueueInv, ClosedOwed, TryPush, Owes, invalidate_readers
  <2>4. QueueReadersCurrent'
    <3>1. CASE invalidate_readers(Len(elements), Len(elements) + 1, elements = << >>)[queueReader]
      BY <1>1, <3>1 DEF TryPush, Owes, QueueReadersCurrent
    <3>2. CASE ~ invalidate_readers(Len(elements), Len(elements) + 1, elements = << >>)[queueReader]
      <4>1. Shows(Append(elements, pushes'), closed_)[queueReader] = Shows(elements, closed_)[queueReader]
        BY <3>2, <1>t, <2>1, PushClears
      <4> QED BY <1>1, <3>2, <4>1 DEF TryPush, Owes, QueueInv, QueueReadersCurrent
    <3> QED BY <3>1, <3>2
  <2> QED BY <2>2, <2>3, <2>4 DEF QueueInv
<1>2. ASSUME NEW t \in QueueThreads, TryPop(t) PROVE QueueInv'
  <2>1. Tail(elements) \in Seq(1 .. MaxPushes) /\ Len(Tail(elements)) = Len(elements) - 1
    BY <1>2, <1>t DEF TryPop
  <2>2. QueueTypeOK'
    <3>1. Len(Tail(elements)) <= queue_capacity
      BY <1>t, <2>1 DEF QueueInv, QueueTypeOK
    <3>2. queueOwed' \subseteq QueueThreads
      BY <1>2 DEF QueueInv, QueueTypeOK, TryPop, Owes
    <3> QED BY <1>2, <1>t, <2>1, <3>1, <3>2 DEF QueueTypeOK, TryPop, Owes
  <2>3. ClosedOwed'
    BY <1>2, <1>t DEF QueueInv, ClosedOwed, TryPop, Owes, invalidate_readers
  <2>4. QueueReadersCurrent'
    <3>1. CASE invalidate_readers(Len(elements), Len(elements) - 1, TRUE)[queueReader]
      BY <1>2, <3>1 DEF TryPop, Owes, QueueReadersCurrent
    <3>2. CASE ~ invalidate_readers(Len(elements), Len(elements) - 1, TRUE)[queueReader]
      <4>1. Shows(Tail(elements), closed_)[queueReader] = Shows(elements, closed_)[queueReader]
        BY <1>2, <3>2, <1>t, PopClears DEF TryPop
      <4> QED BY <1>2, <3>2, <4>1 DEF TryPop, Owes, QueueInv, QueueReadersCurrent
    <3> QED BY <3>1, <3>2
  <2> QED BY <2>2, <2>3, <2>4 DEF QueueInv
<1>3. ASSUME NEW t \in QueueThreads, Close(t) PROVE QueueInv'
  <2>1. Shows(elements, TRUE)[queueReader] = Shows(elements, closed_)[queueReader]
        \/ queueReader = "closed"
    BY <1>t DEF Shows, QueueReaders
  <2>2. [r \in QueueReaders |-> r = "closed"][queueReader] = (queueReader = "closed")
    BY <1>t
  <2> QED BY <1>3, <1>t, <2>1, <2>2
      DEF QueueInv, QueueTypeOK, ClosedOwed, QueueReadersCurrent, Close, Owes
<1>4. ASSUME NEW t \in QueueThreads, ClearQueueReaders(t) PROVE QueueInv'
  <2>1. queueReader = "closed" => closed_ /\ Shows(elements, closed_)[queueReader] = TRUE
    BY <1>4, <1>t DEF QueueInv, ClosedOwed, ClearQueueReaders, Shows
  <2> QED BY <1>4, <1>t, <2>1
      DEF QueueInv, QueueTypeOK, ClosedOwed, QueueReadersCurrent, ClearQueueReaders
<1>5. CASE ReadQueue
  BY <1>5, <1>t DEF QueueInv, QueueTypeOK, ClosedOwed, QueueReadersCurrent, ReadQueue
<1>6. CASE UNCHANGED queueVars
  BY <1>6 DEF queueVars, QueueInv, QueueTypeOK, ClosedOwed, QueueReadersCurrent
<1> QED BY <1>1, <1>2, <1>3, <1>4, <1>5, <1>6 DEF QueueNext

-----------------------------------------------------------------------------
(* The topic cell *)

Modes == {"find", "make", "handle", "remove"}

CallRecords ==
  [step : {"idle", "lookup", "emplace", "clear"}, ids : SUBSET Subscribers,
   mode : Modes, found : SUBSET (Subscribers \X Nat)]

\* The types of a topic, its calls in full.
TopicTypes ==
  /\ TopicTypeOK /\ base_offset <= tail
  /\ calls \in [TopicThreads -> CallRecords]
  /\ DOMAIN streamShown = Subscribers

\* A call that will still clear the reader of s: it has yet to look it up or to
\* make it, or it found the very reader that is in the map now.
Owing(c, s, number) ==
  \/ c.step \in {"lookup", "emplace"} /\ c.mode # "handle" /\ s \in c.ids
  \/ c.step = "clear" /\ <<s, number>> \in c.found

\* A reader shows the stream of its id, or nothing, or is owed a clear; or gc
\* has cut its subscriber off.
StreamOwed(s) ==
  \/ readers[s] = 0 \/ CutOff(s)
  \/ streamShown[s] \in {Unheld, Stream(s)}
  \/ \E t \in TopicThreads : Owing(calls[t], s, readers[s])

\* A subscribe that is going to see to it that s has a reader.
Making(c, s) == c.step \in {"lookup", "emplace"} /\ c.mode = "make" /\ s \in c.ids

\* A connected subscriber has a reader or is owed one, unless a disconnect that
\* was overtaken has taken it.
ReaderOwed(s) ==
  \/ ~Connected(s) \/ s \in overtaken \/ readers[s] # 0
  \/ \E t \in TopicThreads : Making(calls[t], s)

TopicInv ==
  /\ TopicTypes /\ DurableRetained
  /\ \A s \in Subscribers : StreamOwed(s) /\ ReaderOwed(s)

\* A topic starts without subscribers and without calls.
LEMMA TopicInvInit == TopicInit => TopicInv
<1> SUFFICES ASSUME TopicInit PROVE TopicInv
  OBVIOUS
<1>1. DOMAIN subscriptions = {} BY DEF TopicInit
<1>2. Idle \in CallRecords BY DEF Idle, CallRecords, Modes
<1>3. calls \in [TopicThreads -> CallRecords] /\ \A t \in TopicThreads : calls[t] = Idle
  BY <1>2 DEF TopicInit
<1>4. TopicTypeOK
  BY <1>1, <1>3, TopicCellAssumption DEF TopicInit, TopicTypeOK, Idle
<1>5. TopicTypes
  BY <1>3, <1>4 DEF TopicInit, TopicTypes
<1>6. \A s \in Subscribers : StreamOwed(s) /\ ReaderOwed(s)
  BY <1>1 DEF TopicInit, StreamOwed, ReaderOwed, Connected
<1> QED BY <1>1, <1>5, <1>6 DEF TopicInv, DurableRetained

\* Once every call is over nobody owes a clear or a reader, and that is what the
\* readers of a topic promise.
LEMMA TopicInvImplies == TopicInv => TopicTypeOK /\ DurableRetained /\ StreamsCurrent
<1> SUFFICES ASSUME TopicInv PROVE StreamsCurrent
  BY DEF TopicInv, TopicTypes
<1> SUFFICES ASSUME AtRest, NEW s \in Subscribers
             PROVE  /\ readers[s] # 0 /\ ~CutOff(s) => streamShown[s] \in {Unheld, Stream(s)}
                    /\ Connected(s) /\ s \notin overtaken => readers[s] # 0
  BY DEF StreamsCurrent
<1>1. StreamOwed(s) /\ ReaderOwed(s) BY DEF TopicInv
<1>2. ~ \E t \in TopicThreads : Owing(calls[t], s, readers[s]) \/ Making(calls[t], s)
  BY DEF AtRest, Owing, Making, Idle
<1> QED BY <1>1, <1>2 DEF StreamOwed, ReaderOwed

\* A set of naturals with an element has a least one, so the minimum gc takes
\* is there.
LEMMA LeastOfNats ==
  ASSUME NEW T, T \subseteq Nat, T # {}
  PROVE  \E f \in T : \A c \in T : f <= c
<1>1. IsWellFoundedOn(OpToRel(<, Nat), Nat) BY NatLessThanWellFounded
<1>2. PICK f \in T : \A c \in T : ~ (<<c, f>> \in OpToRel(<, Nat))
  BY <1>1, WFMin
<1>3. \A c \in T : ~ (c < f) BY <1>2 DEF OpToRel
<1> QED BY <1>3

\* A commit owes a clear to every reader it is going to look up, a reader to
\* whom it subscribes, and takes no debt from another call.
LEMMA CommitOwes ==
  ASSUME TopicInv, NEW t \in TopicThreads, NEW ids \in SUBSET Subscribers,
         NEW mode \in Modes, Lookup(t, ids, mode)
  PROVE  /\ calls' \in [TopicThreads -> CallRecords]
         /\ \A s \in Subscribers : s \in ids /\ mode # "handle" => StreamOwed(s)'
         /\ \A s \in Subscribers : s \in ids /\ mode = "make" => ReaderOwed(s)'
         /\ \A s \in Subscribers :
              (~CutOff(s)' => ~CutOff(s) /\ Stream(s)' = Stream(s)) => StreamOwed(s)'
         /\ \A s \in Subscribers : (Connected(s)' => Connected(s)) => ReaderOwed(s)'
<1> DEFINE c == [step |-> "lookup", ids |-> ids, mode |-> mode, found |-> {}]
<1>1. c \in CallRecords BY DEF CallRecords
<1>2. calls \in [TopicThreads -> CallRecords] BY DEF TopicInv, TopicTypes
<1>3. /\ calls' = [calls EXCEPT ![t] = c] /\ calls[t] = Idle
      /\ readers' = readers /\ streamShown' = streamShown /\ overtaken' = overtaken
  BY DEF Lookup
<1>4. calls'[t] = c /\ \A u \in TopicThreads : u # t => calls'[u] = calls[u]
  BY <1>2, <1>3
<1>5. calls' \in [TopicThreads -> CallRecords]
  BY <1>1, <1>2, <1>3
<1>6. ASSUME NEW s \in Subscribers, s \in ids, mode # "handle" PROVE StreamOwed(s)'
  <2>1. Owing(calls'[t], s, readers'[s]) BY <1>4, <1>6 DEF Owing
  <2> QED BY <2>1 DEF StreamOwed
<1>7. ASSUME NEW s \in Subscribers, s \in ids, mode = "make" PROVE ReaderOwed(s)'
  <2>1. Making(calls'[t], s) BY <1>4, <1>7 DEF Making
  <2> QED BY <2>1 DEF ReaderOwed
<1>8. ASSUME NEW s \in Subscribers, ~CutOff(s)' => ~CutOff(s) /\ Stream(s)' = Stream(s)
      PROVE  StreamOwed(s)'
  <2>1. CASE CutOff(s)' BY <2>1 DEF StreamOwed
  <2>2. CASE ~CutOff(s)' /\ (readers[s] = 0 \/ streamShown[s] \in {Unheld, Stream(s)})
    BY <1>3, <1>8, <2>2 DEF StreamOwed
  <2>3. ASSUME NEW u \in TopicThreads, Owing(calls[u], s, readers[s]) PROVE StreamOwed(s)'
    <3>1. u # t BY <1>3, <2>3 DEF Owing, Idle
    <3>2. Owing(calls'[u], s, readers'[s]) BY <1>3, <1>4, <2>3, <3>1
    <3> QED BY <3>2 DEF StreamOwed
  <2>4. StreamOwed(s) BY DEF TopicInv
  <2> QED BY <1>8, <2>1, <2>2, <2>3, <2>4 DEF StreamOwed
<1>9. ASSUME NEW s \in Subscribers, Connected(s)' => Connected(s) PROVE ReaderOwed(s)'
  <2>1. ASSUME NEW u \in TopicThreads, Making(calls[u], s) PROVE ReaderOwed(s)'
    <3>1. u # t BY <1>3, <2>1 DEF Making, Idle
    <3>2. Making(calls'[u], s) BY <1>4, <2>1, <3>1
    <3> QED BY <3>2 DEF ReaderOwed
  <2>2. ReaderOwed(s) BY DEF TopicInv
  <2> QED BY <1>3, <1>9, <2>1, <2>2 DEF ReaderOwed
<1> HIDE DEF c
<1> QED BY <1>5, <1>6, <1>7, <1>8, <1>9

\* What a subscriber set keeps when one entry is written or removed.
SubscriptionsTyped(sub) ==
  /\ DOMAIN sub \subseteq Subscribers
  /\ \A s \in DOMAIN sub : sub[s] \in [cursor : Nat, durable : BOOLEAN, connected : BOOLEAN]

CallTyped(c) ==
  /\ c.step \in {"idle", "lookup", "emplace", "clear"}
  /\ c.ids \subseteq Subscribers /\ c.mode \in Modes

LEMMA CallsTyped ==
  ASSUME NEW f \in [TopicThreads -> CallRecords]
  PROVE  \A t \in TopicThreads : CallTyped(f[t])
BY DEF CallRecords, CallTyped

LEMMA TopicTypeSplit ==
  TopicTypeOK <=> /\ base_offset \in Nat /\ tail \in 0 .. MaxTail
                  /\ SubscriptionsTyped(subscriptions)
                  /\ readers \in [Subscribers -> Nat] /\ minted \in [Subscribers -> Nat]
                  /\ overtaken \subseteq Subscribers
                  /\ \A t \in TopicThreads : CallTyped(calls[t])
BY DEF TopicTypeOK, SubscriptionsTyped, CallTyped, Modes

\* A commit that writes the subscription of one subscriber, whose reader it
\* then looks up, and leaves the log alone.
LEMMA WriteOneKeeps ==
  ASSUME TopicInv, NEW t \in TopicThreads, NEW s \in Subscribers,
         NEW sub \in [cursor : Nat, durable : BOOLEAN, connected : BOOLEAN],
         sub.durable => sub.cursor \in base_offset .. tail,
         NEW mode \in {"find", "make"}, Lookup(t, {s}, mode),
         mode = "make" \/ (sub.connected => Connected(s)),
         subscriptions' = With(s, sub), UNCHANGED <<base_offset, tail>>
  PROVE  TopicInv'
<1>1. /\ calls' \in [TopicThreads -> CallRecords]
      /\ StreamOwed(s)' /\ (mode = "make" => ReaderOwed(s)')
      /\ \A i \in Subscribers :
           (~CutOff(i)' => ~CutOff(i) /\ Stream(i)' = Stream(i)) => StreamOwed(i)'
      /\ \A i \in Subscribers : (Connected(i)' => Connected(i)) => ReaderOwed(i)'
  BY CommitOwes DEF Modes
<1>2. /\ DOMAIN subscriptions' = DOMAIN subscriptions \cup {s}
      /\ subscriptions'[s] = sub
      /\ \A i \in DOMAIN subscriptions : i # s => subscriptions'[i] = subscriptions[i]
  BY DEF With
<1>3. SubscriptionsTyped(subscriptions')
  BY <1>2, TopicTypeSplit DEF TopicInv, TopicTypes, SubscriptionsTyped
<1>4. /\ readers' = readers /\ minted' = minted /\ streamShown' = streamShown
      /\ overtaken' = overtaken
  BY DEF Lookup
<1>5. TopicTypeOK'
  <2>1. \A u \in TopicThreads : CallTyped(calls'[u])
    BY <1>1, CallsTyped
  <2> QED BY <1>3, <1>4, <2>1, TopicTypeSplit
          DEF TopicInv, TopicTypes, TopicTypeOK, SubscriptionsTyped, CallTyped, Modes
<1>6. TopicTypes'
  BY <1>1, <1>4, <1>5 DEF TopicInv, TopicTypes
<1>7. DurableRetained'
  BY <1>2 DEF TopicInv, DurableRetained
<1>8. ASSUME NEW i \in Subscribers PROVE StreamOwed(i)' /\ ReaderOwed(i)'
  <2>1. CASE i = s
    <3>1. sub.connected => Connected(s)' BY <1>2 DEF Connected
    <3>2. Connected(s)' => sub.connected BY <1>2 DEF Connected
    <3> QED BY <1>1, <2>1, <3>2
  <2>2. CASE i # s
    <3>1. Connected(i)' <=> Connected(i) BY <1>2, <2>2 DEF Connected
    <3>2. Connected(i) => subscriptions'[i] = subscriptions[i] BY <1>2, <2>2 DEF Connected
    <3>3. (CutOff(i)' <=> CutOff(i)) /\ Stream(i)' = Stream(i)
      BY <3>1, <3>2 DEF Stream, CutOff
    <3> QED BY <1>1, <3>1, <3>3
  <2> QED BY <2>1, <2>2
<1> QED BY <1>6, <1>7, <1>8 DEF TopicInv

\* subscribe and reconnect: a new subscription starts at the tail, an old one
\* keeps its cursor.
LEMMA SubscribeKeeps ==
  ASSUME TopicInv, NEW t \in TopicThreads, NEW s \in Subscribers, NEW durable \in BOOLEAN,
         Subscribe(t, s, durable)
  PROVE  TopicInv'
<1>t. /\ tail \in Nat /\ base_offset \in Nat /\ base_offset <= tail
      /\ SubscriptionsTyped(subscriptions)
  BY TopicTypeSplit, TopicCellAssumption DEF TopicInv, TopicTypes
<1>0. Lookup(t, {s}, "make") /\ UNCHANGED <<base_offset, tail>> BY DEF Subscribe
<1>1. CASE s \in DOMAIN subscriptions
  <2> DEFINE sub == [subscriptions[s] EXCEPT !.connected = TRUE]
  <2>1. subscriptions' = With(s, sub) BY <1>1 DEF Subscribe
  <2>2. /\ sub \in [cursor : Nat, durable : BOOLEAN, connected : BOOLEAN]
        /\ sub.durable = subscriptions[s].durable /\ sub.cursor = subscriptions[s].cursor
    BY <1>t, <1>1 DEF SubscriptionsTyped
  <2>3. sub.durable => sub.cursor \in base_offset .. tail
    BY <1>1, <2>2 DEF TopicInv, DurableRetained
  <2> HIDE DEF sub
  <2> QED BY <1>0, <2>1, <2>2, <2>3, WriteOneKeeps
<1>2. CASE s \notin DOMAIN subscriptions
  <2> DEFINE sub == [cursor |-> tail, durable |-> durable, connected |-> TRUE]
  <2>1. subscriptions' = With(s, sub) BY <1>2 DEF Subscribe
  <2>2. sub \in [cursor : Nat, durable : BOOLEAN, connected : BOOLEAN]
    BY <1>t
  <2>3. sub.cursor \in base_offset .. tail
    BY <1>t
  <2> HIDE DEF sub
  <2> QED BY <1>0, <2>1, <2>2, <2>3, WriteOneKeeps
<1> QED BY <1>1, <1>2

\* advance moves a cursor towards the tail and never past it.
LEMMA AdvanceKeeps ==
  ASSUME TopicInv, NEW t \in TopicThreads, NEW s \in Subscribers, NEW taken \in 1 .. MaxTail,
         Advance(t, s, taken)
  PROVE  TopicInv'
<1> DEFINE sub == [subscriptions[s] EXCEPT !.cursor = @ + taken]
<1>0. /\ Lookup(t, {s}, "find") /\ UNCHANGED <<base_offset, tail>>
      /\ s \in DOMAIN subscriptions /\ subscriptions' = With(s, sub) /\ Connected(s)
  BY DEF Advance, Connected
<1>t. /\ tail \in Nat /\ base_offset \in Nat
      /\ subscriptions[s] \in [cursor : Nat, durable : BOOLEAN, connected : BOOLEAN]
  BY <1>0, TopicTypeSplit, TopicCellAssumption DEF TopicInv, TopicTypes, SubscriptionsTyped
<1>1. taken \in Nat /\ taken \in 1 .. tail - subscriptions[s].cursor
  BY TopicCellAssumption DEF Advance
<1>2. /\ sub \in [cursor : Nat, durable : BOOLEAN, connected : BOOLEAN]
      /\ sub.durable = subscriptions[s].durable
      /\ sub.cursor = subscriptions[s].cursor + taken
  BY <1>t, <1>1
<1>3. subscriptions[s].durable => subscriptions[s].cursor \in base_offset .. tail
  BY <1>0 DEF TopicInv, DurableRetained
<1>4. sub.durable => sub.cursor \in base_offset .. tail
  BY <1>t, <1>1, <1>2, <1>3
<1> HIDE DEF sub
<1> QED BY <1>0, <1>2, <1>4, WriteOneKeeps

\* disconnect: a durable subscriber stays with its cursor, an ephemeral one
\* goes and needs no reader any more.
LEMMA DisconnectKeeps ==
  ASSUME TopicInv, NEW t \in TopicThreads, NEW s \in Subscribers, Disconnect(t, s)
  PROVE  TopicInv'
<1>0. s \in DOMAIN subscriptions /\ UNCHANGED <<base_offset, tail>>
  BY DEF Disconnect, Connected
<1>1. CASE subscriptions[s].durable
  <2> DEFINE sub == [subscriptions[s] EXCEPT !.connected = FALSE]
  <2>1. subscriptions' = With(s, sub) /\ Lookup(t, {s}, "find") BY <1>1 DEF Disconnect
  <2>2. /\ sub \in [cursor : Nat, durable : BOOLEAN, connected : BOOLEAN]
        /\ sub.cursor = subscriptions[s].cursor /\ ~sub.connected
    BY <1>0, TopicTypeSplit DEF TopicInv, TopicTypes, SubscriptionsTyped
  <2>3. sub.cursor \in base_offset .. tail
    BY <1>0, <1>1, <2>2 DEF TopicInv, DurableRetained
  <2> HIDE DEF sub
  <2> QED BY <1>0, <2>1, <2>2, <2>3, WriteOneKeeps
<1>2. CASE ~ subscriptions[s].durable
  <2>1. subscriptions' = Without(s) /\ Lookup(t, {s}, "remove") BY <1>2 DEF Disconnect
  <2>2. /\ DOMAIN subscriptions' = DOMAIN subscriptions \ {s}
        /\ \A i \in DOMAIN subscriptions' : subscriptions'[i] = subscriptions[i]
    BY <2>1 DEF Without
  <2>3. /\ calls' \in [TopicThreads -> CallRecords]
        /\ StreamOwed(s)'
        /\ \A i \in Subscribers :
             (~CutOff(i)' => ~CutOff(i) /\ Stream(i)' = Stream(i)) => StreamOwed(i)'
        /\ \A i \in Subscribers : (Connected(i)' => Connected(i)) => ReaderOwed(i)'
    BY <2>1, CommitOwes DEF Modes
  <2>4. /\ readers' = readers /\ minted' = minted /\ streamShown' = streamShown
        /\ overtaken' = overtaken
    BY <2>1 DEF Lookup
  <2>5. SubscriptionsTyped(subscriptions')
    BY <2>2, TopicTypeSplit DEF TopicInv, TopicTypes, SubscriptionsTyped
  <2>6. TopicTypeOK'
    <3>1. \A u \in TopicThreads : CallTyped(calls'[u])
      BY <2>3, CallsTyped
    <3> QED BY <1>0, <2>4, <2>5, <3>1
            DEF TopicInv, TopicTypes, TopicTypeOK, SubscriptionsTyped, CallTyped, Modes
  <2>7. TopicTypes'
    BY <1>0, <2>3, <2>4, <2>6 DEF TopicInv, TopicTypes
  <2>8. DurableRetained' BY <1>0, <2>2 DEF TopicInv, DurableRetained
  <2>9. ASSUME NEW i \in Subscribers PROVE StreamOwed(i)' /\ ReaderOwed(i)'
    <3>1. CASE i = s
      <4>1. ~Connected(s)' BY <2>2 DEF Connected
      <4> QED BY <2>3, <3>1, <4>1
    <3>2. CASE i # s
      <4>1. Connected(i)' <=> Connected(i) BY <2>2, <3>2 DEF Connected
      <4>2. Connected(i) => subscriptions'[i] = subscriptions[i] BY <2>2, <3>2 DEF Connected
      <4>3. (CutOff(i)' <=> CutOff(i)) /\ Stream(i)' = Stream(i)
        BY <1>0, <4>1, <4>2 DEF Stream, CutOff
      <4> QED BY <2>3, <4>1, <4>3
    <3> QED BY <3>1, <3>2
  <2> QED BY <2>7, <2>8, <2>9 DEF TopicInv
<1> QED BY <1>1, <1>2

\* reader_handle commits nothing: it only asks for a reader.
LEMMA ReaderHandleKeeps ==
  ASSUME TopicInv, NEW t \in TopicThreads, NEW s \in Subscribers, ReaderHandle(t, s)
  PROVE  TopicInv'
<1>1. Lookup(t, {s}, "handle") /\ UNCHANGED <<base_offset, tail, subscriptions>>
  BY DEF ReaderHandle, log
<1>2. /\ readers' = readers /\ minted' = minted /\ streamShown' = streamShown
      /\ overtaken' = overtaken
  BY <1>1 DEF Lookup
<1>3. /\ calls' \in [TopicThreads -> CallRecords]
      /\ \A i \in Subscribers :
           (~CutOff(i)' => ~CutOff(i) /\ Stream(i)' = Stream(i)) => StreamOwed(i)'
      /\ \A i \in Subscribers : (Connected(i)' => Connected(i)) => ReaderOwed(i)'
  BY <1>1, CommitOwes DEF Modes
<1>4. \A i \in Subscribers : StreamOwed(i)' /\ ReaderOwed(i)'
  BY <1>1, <1>3 DEF CutOff, Stream, Connected
<1>5. \A u \in TopicThreads : CallTyped(calls'[u])
  BY <1>3, CallsTyped
<1>6. TopicTypes'
  BY <1>1, <1>2, <1>3, <1>5 DEF TopicInv, TopicTypes, TopicTypeOK, CallTyped, Modes
<1>7. DurableRetained' BY <1>1 DEF TopicInv, DurableRetained
<1> QED BY <1>4, <1>6, <1>7 DEF TopicInv

\* publish clears those connected at its commit; nobody else has a stream to
\* show.
LEMMA PublishKeeps ==
  ASSUME TopicInv, NEW t \in TopicThreads, Publish(t)
  PROVE  TopicInv'
<1>0. /\ Lookup(t, Listeners, "find") /\ UNCHANGED <<base_offset, subscriptions>>
      /\ tail' = tail + 1 /\ tail < MaxTail
  BY DEF Publish
<1>t. tail \in 0 .. MaxTail /\ base_offset \in Nat /\ base_offset <= tail
  BY DEF TopicInv, TopicTypes, TopicTypeOK
<1>1. Listeners \in SUBSET Subscribers BY DEF Listeners
<1>2. /\ calls' \in [TopicThreads -> CallRecords]
      /\ \A i \in Subscribers : i \in Listeners => StreamOwed(i)'
      /\ \A i \in Subscribers :
           (~CutOff(i)' => ~CutOff(i) /\ Stream(i)' = Stream(i)) => StreamOwed(i)'
      /\ \A i \in Subscribers : (Connected(i)' => Connected(i)) => ReaderOwed(i)'
  BY <1>0, <1>1, CommitOwes DEF Modes
<1>3. /\ readers' = readers /\ minted' = minted /\ streamShown' = streamShown
      /\ overtaken' = overtaken
  BY <1>0 DEF Lookup
<1>4. tail' \in 0 .. MaxTail /\ base_offset' <= tail' /\ base_offset' \in Nat
  BY <1>0, <1>t, TopicCellAssumption
<1>5. TopicTypeOK'
  <2>1. \A u \in TopicThreads : CallTyped(calls'[u])
    BY <1>2, CallsTyped
  <2> QED BY <1>0, <1>3, <1>4, <2>1 DEF TopicInv, TopicTypes, TopicTypeOK, CallTyped, Modes
<1>6. TopicTypes' BY <1>2, <1>3, <1>4, <1>5 DEF TopicInv, TopicTypes
<1>7. DurableRetained'
  <2> SUFFICES ASSUME NEW s \in DOMAIN subscriptions, subscriptions[s].durable
               PROVE  subscriptions[s].cursor \in base_offset .. tail'
    BY <1>0 DEF DurableRetained
  <2>1. subscriptions[s].cursor \in base_offset .. tail
    BY DEF TopicInv, DurableRetained
  <2> QED BY <1>0, <1>t, <2>1
<1>8. ASSUME NEW i \in Subscribers PROVE StreamOwed(i)' /\ ReaderOwed(i)'
  <2>1. Connected(i)' <=> Connected(i) BY <1>0 DEF Connected
  <2>2. CASE Connected(i) BY <1>2, <2>1, <2>2 DEF Listeners
  <2>3. CASE ~ Connected(i)
    <3>1. Stream(i)' = Stream(i) /\ ~CutOff(i) BY <2>1, <2>3 DEF Stream, CutOff
    <3> QED BY <1>2, <2>1, <3>1
  <2> QED BY <2>2, <2>3
<1> QED BY <1>6, <1>7, <1>8 DEF TopicInv

\* gc clears no reader: it stays at or below every durable cursor, and above
\* that a stream does not see where the log begins.
LEMMA GcKeeps == ASSUME TopicInv, gc PROVE TopicInv'
<1> DEFINE T == Held \cup {tail}
<1>t. tail \in Nat /\ base_offset \in Nat /\ SubscriptionsTyped(subscriptions)
  BY TopicTypeSplit, TopicCellAssumption DEF TopicInv, TopicTypes
<1>1. T \subseteq Nat /\ T # {}
  BY <1>t DEF Held, SubscriptionsTyped
<1>2. base_offset' = CHOOSE f \in T : \A c \in T : f <= c
  BY DEF gc
<1>3. base_offset' \in T /\ \A c \in T : base_offset' <= c
  <2>1. \E f \in T : \A c \in T : f <= c
    <3> HIDE DEF T
    <3> QED BY <1>1, LeastOfNats
  <2> HIDE DEF T
  <2> QED BY <1>2, <2>1
<1>4. base_offset' \in Nat /\ base_offset' <= tail
  BY <1>1, <1>3
<1>5. \A s \in DOMAIN subscriptions :
        subscriptions[s].durable => base_offset' <= subscriptions[s].cursor
  BY <1>3 DEF Held
<1>6. UNCHANGED <<tail, subscriptions, readers, minted, streamShown, overtaken, calls>>
  BY DEF gc
<1>7. TopicTypes' BY <1>4, <1>6 DEF TopicInv, TopicTypes, TopicTypeOK
<1>8. DurableRetained'
  <2> SUFFICES ASSUME NEW s \in DOMAIN subscriptions, subscriptions[s].durable
               PROVE  subscriptions[s].cursor \in base_offset' .. tail
    BY <1>6 DEF DurableRetained
  <2>1. subscriptions[s].cursor \in base_offset .. tail
    BY DEF TopicInv, DurableRetained
  <2> QED BY <1>t, <1>4, <1>5, <2>1
<1>9. base_offset <= base_offset'
  <2>1. \A c \in T : base_offset <= c
    BY <1>t DEF Held, TopicInv, TopicTypes, DurableRetained
  <2> QED BY <1>3, <2>1
<1>10. ASSUME NEW i \in Subscribers PROVE StreamOwed(i)' /\ ReaderOwed(i)'
  <2>1. Connected(i)' <=> Connected(i) BY <1>6 DEF Connected
  <2>2. Connected(i) => subscriptions[i].cursor \in Nat BY <1>t DEF Connected, SubscriptionsTyped
  <2>3. ~CutOff(i)' => ~CutOff(i) /\ Stream(i)' = Stream(i)
    BY <1>t, <1>4, <1>6, <1>9, <2>1, <2>2 DEF CutOff, Stream
  <2>4. StreamOwed(i) /\ ReaderOwed(i) BY DEF TopicInv
  <2> QED BY <1>6, <2>1, <2>3, <2>4 DEF StreamOwed, ReaderOwed
<1> QED BY <1>7, <1>8, <1>10 DEF TopicInv

\* The step under reader_mutex: a reader that is found is noted with its
\* number, one that is not found is owed by the same call still, one that is
\* taken shows nothing.
LEMMA FindReadersKeeps ==
  ASSUME TopicInv, NEW t \in TopicThreads, FindReaders(t)
  PROVE  TopicInv'
<1> DEFINE c == calls[t]
           there == {s \in c.ids : readers[s] # 0}
           taken == IF c.mode = "remove" THEN c.ids ELSE {}
           found == {<<s, readers[s]>> : s \in there}
           then == IF c.mode \in {"make", "handle"} /\ there # c.ids
                   THEN [c EXCEPT !.step = "emplace"] ELSE Holding(c, found)
<1>t. /\ calls \in [TopicThreads -> CallRecords] /\ c \in CallRecords
      /\ readers \in [Subscribers -> Nat] /\ minted \in [Subscribers -> Nat]
      /\ overtaken \subseteq Subscribers
  BY DEF TopicInv, TopicTypes, TopicTypeOK
<1>1. /\ c.step = "lookup"
      /\ readers' = [s \in Subscribers |-> IF s \in taken THEN 0 ELSE readers[s]]
      /\ streamShown' = [s \in Subscribers |-> IF s \in taken THEN Unheld ELSE streamShown[s]]
      /\ overtaken' = overtaken \cup {s \in taken : Connected(s)}
      /\ calls' = [calls EXCEPT ![t] = then]
      /\ UNCHANGED <<base_offset, tail, subscriptions, minted>>
  BY DEF FindReaders, log
<1>2. c.ids \subseteq Subscribers /\ taken \subseteq Subscribers /\ c.mode \in Modes
  BY <1>t DEF CallRecords
<1>3. found \subseteq Subscribers \X Nat
  BY <1>t, <1>2
<1>4. then \in CallRecords
  BY <1>t, <1>3 DEF CallRecords, Holding, Idle, Modes
<1>5. /\ calls' \in [TopicThreads -> CallRecords] /\ calls'[t] = then
      /\ \A u \in TopicThreads : u # t => calls'[u] = calls[u]
  <2> HIDE DEF then
  <2> QED BY <1>t, <1>1, <1>4
<1>6. TopicTypes'
  <2>1. \A u \in TopicThreads : CallTyped(calls'[u])
    BY <1>5, CallsTyped
  <2>2. readers' \in [Subscribers -> Nat] /\ DOMAIN streamShown' = Subscribers
    <3> HIDE DEF taken
    <3> QED BY <1>t, <1>1
  <2>3. overtaken' \subseteq Subscribers
    <3> HIDE DEF taken
    <3> QED BY <1>t, <1>1, <1>2
  <2> HIDE DEF taken, then
  <2>4. TopicTypeOK'
    BY <1>1, <2>1, <2>2, <2>3 DEF TopicInv, TopicTypes, TopicTypeOK, CallTyped, Modes
  <2> QED BY <1>1, <1>5, <2>2, <2>4 DEF TopicInv, TopicTypes
<1>7. DurableRetained' BY <1>1 DEF TopicInv, DurableRetained
<1>8. ASSUME NEW s \in Subscribers PROVE StreamOwed(s)' /\ ReaderOwed(s)'
  <2>1. /\ Stream(s)' = Stream(s) /\ (CutOff(s)' <=> CutOff(s))
        /\ (Connected(s)' <=> Connected(s))
    BY <1>1 DEF Stream, CutOff, Connected
  <2>2. StreamOwed(s) /\ ReaderOwed(s) BY DEF TopicInv
  <2>3. CASE s \in taken
    <3>1. readers'[s] = 0 /\ (Connected(s) => s \in overtaken') BY <1>1, <2>3
    <3> QED BY <2>1, <3>1 DEF StreamOwed, ReaderOwed
  <2>4. CASE s \notin taken
    <3>1. readers'[s] = readers[s] /\ streamShown'[s] = streamShown[s]
      BY <1>1, <2>4
    <3>2. s \in overtaken => s \in overtaken' BY <1>1
    <3>3. ASSUME NEW u \in TopicThreads, Owing(calls[u], s, readers[s]), readers[s] # 0
          PROVE  StreamOwed(s)'
      <4>1. CASE u # t
        <5>1. Owing(calls'[u], s, readers'[s]) BY <1>5, <3>1, <3>3, <4>1
        <5> QED BY <5>1 DEF StreamOwed
      <4>2. CASE u = t
        <5>1. s \in c.ids /\ c.mode # "handle" BY <1>1, <3>3, <4>2 DEF Owing
        <5>2. <<s, readers[s]>> \in found BY <3>3, <5>1
        <5>3. Owing(then, s, readers'[s])
          <6>1. CASE c.mode \in {"make", "handle"} /\ there # c.ids
            <7>1. then.step = "emplace" /\ then.mode = c.mode /\ then.ids = c.ids
              BY <1>t, <6>1 DEF CallRecords
            <7> QED BY <5>1, <7>1 DEF Owing
          <6>2. CASE ~(c.mode \in {"make", "handle"} /\ there # c.ids)
            <7>1. then.step = "clear" /\ then.found = found
              BY <5>1, <6>2 DEF Holding, Idle
            <7> QED BY <3>1, <5>2, <7>1 DEF Owing
          <6> QED BY <6>1, <6>2
        <5> QED BY <1>5, <5>3 DEF StreamOwed
      <4> QED BY <4>1, <4>2
    <3>4. StreamOwed(s)'
      <4>1. CASE readers[s] = 0 \/ CutOff(s) \/ streamShown[s] \in {Unheld, Stream(s)}
        BY <2>1, <3>1, <4>1 DEF StreamOwed
      <4> QED BY <2>2, <3>3, <4>1 DEF StreamOwed
    <3>5. ASSUME NEW u \in TopicThreads, Making(calls[u], s)
          PROVE  ReaderOwed(s)'
      <4>1. CASE u # t
        <5>1. Making(calls'[u], s) BY <1>5, <3>5, <4>1
        <5> QED BY <5>1 DEF ReaderOwed
      <4>2. CASE u = t /\ there # c.ids
        <5>1. c.mode = "make" /\ s \in c.ids BY <3>5, <4>2 DEF Making
        <5>2. then.step = "emplace" /\ then.mode = c.mode /\ then.ids = c.ids
          BY <1>t, <4>2, <5>1 DEF CallRecords
        <5>3. Making(calls'[t], s) BY <1>5, <5>1, <5>2 DEF Making
        <5> QED BY <5>3 DEF ReaderOwed
      <4>3. CASE u = t /\ there = c.ids
        <5>1. s \in c.ids BY <3>5, <4>3 DEF Making
        <5>2. readers'[s] # 0 BY <3>1, <4>3, <5>1
        <5> QED BY <5>2 DEF ReaderOwed
      <4> QED BY <4>1, <4>2, <4>3
    <3>6. ReaderOwed(s)'
      BY <2>1, <2>2, <3>1, <3>2, <3>5 DEF ReaderOwed
    <3> QED BY <3>4, <3>6
  <2> QED BY <2>3, <2>4
<1> QED BY <1>6, <1>7, <1>8 DEF TopicInv

\* The end of ensure_reader: a new reader shows nothing, and the reader that is
\* in the map after it is noted with its number.
LEMMA EmplaceReaderKeeps ==
  ASSUME TopicInv, NEW t \in TopicThreads, EmplaceReader(t)
  PROVE  TopicInv'
<1> DEFINE c == calls[t]
           made == {s \in c.ids : readers[s] = 0}
           found == {<<s, readers'[s]>> : s \in c.ids}
           then == Holding(c, found)
<1>t. /\ calls \in [TopicThreads -> CallRecords] /\ c \in CallRecords
      /\ readers \in [Subscribers -> Nat] /\ minted \in [Subscribers -> Nat]
      /\ overtaken \subseteq Subscribers
  BY DEF TopicInv, TopicTypes, TopicTypeOK
<1>1. /\ c.step = "emplace"
      /\ minted' = [s \in Subscribers |-> IF s \in made THEN minted[s] + 1 ELSE minted[s]]
      /\ readers' = [s \in Subscribers |-> IF s \in made THEN minted[s] + 1 ELSE readers[s]]
      /\ streamShown' = [s \in Subscribers |-> IF s \in made THEN Unheld ELSE streamShown[s]]
      /\ overtaken' = overtaken \ made
      /\ calls' = [calls EXCEPT ![t] = then]
      /\ UNCHANGED <<base_offset, tail, subscriptions>>
  BY DEF EmplaceReader, log
<1>2. c.ids \subseteq Subscribers /\ c.mode \in Modes
  BY <1>t DEF CallRecords
<1>3. /\ minted' \in [Subscribers -> Nat] /\ readers' \in [Subscribers -> Nat]
      /\ DOMAIN streamShown' = Subscribers /\ overtaken' \subseteq Subscribers
  <2> HIDE DEF made
  <2> QED BY <1>t, <1>1
<1>4. then \in CallRecords
  <2>1. found \subseteq Subscribers \X Nat BY <1>2, <1>3
  <2> QED BY <2>1 DEF CallRecords, Holding, Idle, Modes
<1>5. /\ calls' \in [TopicThreads -> CallRecords] /\ calls'[t] = then
      /\ \A u \in TopicThreads : u # t => calls'[u] = calls[u]
  <2> HIDE DEF then
  <2> QED BY <1>t, <1>1, <1>4
<1>6. TopicTypes'
  <2>1. \A u \in TopicThreads : CallTyped(calls'[u])
    BY <1>5, CallsTyped
  <2> HIDE DEF made, then
  <2>2. TopicTypeOK'
    BY <1>1, <1>3, <2>1 DEF TopicInv, TopicTypes, TopicTypeOK, CallTyped, Modes
  <2> QED BY <1>1, <1>3, <1>5, <2>2 DEF TopicInv, TopicTypes
<1>7. DurableRetained' BY <1>1 DEF TopicInv, DurableRetained
<1>8. ASSUME NEW s \in Subscribers PROVE StreamOwed(s)' /\ ReaderOwed(s)'
  <2>1. /\ Stream(s)' = Stream(s) /\ (CutOff(s)' <=> CutOff(s))
        /\ (Connected(s)' <=> Connected(s))
    BY <1>1 DEF Stream, CutOff, Connected
  <2>2. StreamOwed(s) /\ ReaderOwed(s) BY DEF TopicInv
  <2>3. CASE s \in made
    <3>1. readers'[s] # 0 /\ streamShown'[s] = Unheld BY <1>t, <1>1, <2>3
    <3> QED BY <3>1 DEF StreamOwed, ReaderOwed
  <2>4. CASE s \notin made
    <3>1. readers'[s] = readers[s] /\ streamShown'[s] = streamShown[s]
      BY <1>1, <2>4
    <3>2. s \in overtaken => s \in overtaken' BY <1>1, <2>4
    <3>3. ASSUME NEW u \in TopicThreads, Owing(calls[u], s, readers[s])
          PROVE  StreamOwed(s)'
      <4>1. CASE u # t
        <5>1. Owing(calls'[u], s, readers'[s]) BY <1>5, <3>1, <3>3, <4>1
        <5> QED BY <5>1 DEF StreamOwed
      <4>2. CASE u = t
        <5>1. s \in c.ids /\ c.mode # "handle" BY <1>1, <3>3, <4>2 DEF Owing
        <5>2. then.step = "clear" /\ then.found = found BY <5>1 DEF Holding, Idle
        <5>3. Owing(calls'[t], s, readers'[s]) BY <1>5, <5>1, <5>2 DEF Owing
        <5> QED BY <5>3 DEF StreamOwed
      <4> QED BY <4>1, <4>2
    <3>4. StreamOwed(s)'
      <4>1. CASE readers[s] = 0 \/ CutOff(s) \/ streamShown[s] \in {Unheld, Stream(s)}
        BY <2>1, <3>1, <4>1 DEF StreamOwed
      <4> QED BY <2>2, <3>3, <4>1 DEF StreamOwed
    <3>5. ASSUME NEW u \in TopicThreads, Making(calls[u], s)
          PROVE  ReaderOwed(s)'
      <4>1. CASE u # t
        <5>1. Making(calls'[u], s) BY <1>5, <3>5, <4>1
        <5> QED BY <5>1 DEF ReaderOwed
      <4>2. CASE u = t
        <5>1. readers[s] # 0 BY <2>4, <3>5, <4>2 DEF Making
        <5> QED BY <3>1, <5>1 DEF ReaderOwed
      <4> QED BY <4>1, <4>2
    <3>6. ReaderOwed(s)'
      BY <2>1, <2>2, <3>1, <3>2, <3>5 DEF ReaderOwed
    <3> QED BY <3>4, <3>6
  <2> QED BY <2>3, <2>4
<1> QED BY <1>6, <1>7, <1>8 DEF TopicInv

\* The batch of clears pays what its call owed.
LEMMA ClearStreamsKeeps ==
  ASSUME TopicInv, NEW t \in TopicThreads, ClearStreams(t)
  PROVE  TopicInv'
<1>t. calls \in [TopicThreads -> CallRecords]
  BY DEF TopicInv, TopicTypes
<1>1. /\ calls[t].step = "clear" /\ calls' = [calls EXCEPT ![t] = Idle]
      /\ streamShown' = [s \in Subscribers |->
           IF <<s, readers[s]>> \in calls[t].found THEN Unheld ELSE streamShown[s]]
      /\ UNCHANGED <<base_offset, tail, subscriptions, readers, minted, overtaken>>
  BY DEF ClearStreams, log
<1>2. Idle \in CallRecords BY DEF Idle, CallRecords, Modes
<1>3. /\ calls' \in [TopicThreads -> CallRecords]
      /\ \A u \in TopicThreads : u # t => calls'[u] = calls[u]
  BY <1>t, <1>1, <1>2
<1>4. TopicTypes'
  <2>1. \A u \in TopicThreads : CallTyped(calls'[u])
    BY <1>3, CallsTyped
  <2>2. TopicTypeOK'
    BY <1>1, <2>1 DEF TopicInv, TopicTypes, TopicTypeOK, CallTyped, Modes
  <2> QED BY <1>1, <1>3, <2>2 DEF TopicInv, TopicTypes
<1>5. DurableRetained' BY <1>1 DEF TopicInv, DurableRetained
<1>6. ASSUME NEW s \in Subscribers PROVE StreamOwed(s)' /\ ReaderOwed(s)'
  <2>1. /\ Stream(s)' = Stream(s) /\ (CutOff(s)' <=> CutOff(s))
        /\ (Connected(s)' <=> Connected(s))
    BY <1>1 DEF Stream, CutOff, Connected
  <2>2. StreamOwed(s) /\ ReaderOwed(s) BY DEF TopicInv
  <2>3. StreamOwed(s)'
    <3>1. CASE <<s, readers[s]>> \in calls[t].found
      <4>1. streamShown'[s] = Unheld BY <1>1, <3>1
      <4> QED BY <4>1 DEF StreamOwed
    <3>2. CASE <<s, readers[s]>> \notin calls[t].found
      <4>1. streamShown'[s] = streamShown[s] BY <1>1, <3>2
      <4>2. ASSUME NEW u \in TopicThreads, Owing(calls[u], s, readers[s])
            PROVE  StreamOwed(s)'
        <5>1. u # t BY <1>1, <3>2, <4>2 DEF Owing
        <5>2. Owing(calls'[u], s, readers'[s]) BY <1>1, <1>3, <4>2, <5>1
        <5> QED BY <5>2 DEF StreamOwed
      <4>3. CASE readers[s] = 0 \/ CutOff(s) \/ streamShown[s] \in {Unheld, Stream(s)}
        BY <1>1, <2>1, <4>1, <4>3 DEF StreamOwed
      <4> QED BY <2>2, <4>2, <4>3 DEF StreamOwed
    <3> QED BY <3>1, <3>2
  <2>4. ASSUME NEW u \in TopicThreads, Making(calls[u], s) PROVE ReaderOwed(s)'
    <3>1. u # t BY <1>1, <2>4 DEF Making
    <3>2. Making(calls'[u], s) BY <1>3, <2>4, <3>1
    <3> QED BY <3>2 DEF ReaderOwed
  <2>5. ReaderOwed(s)' BY <1>1, <2>1, <2>2, <2>4 DEF ReaderOwed
  <2> QED BY <2>3, <2>5
<1> QED BY <1>4, <1>5, <1>6 DEF TopicInv

\* A read of a reader that holds nothing shows the stream of this moment.
LEMMA ReadStreamKeeps ==
  ASSUME TopicInv, NEW r \in Subscribers, ReadStream(r)
  PROVE  TopicInv'
<1>1. /\ streamShown' = [streamShown EXCEPT ![r] = Stream(r)]
      /\ UNCHANGED <<base_offset, tail, subscriptions, readers, minted, overtaken, calls>>
  BY DEF ReadStream, log
<1>2. DOMAIN streamShown = Subscribers BY DEF TopicInv, TopicTypes
<1>3. /\ DOMAIN streamShown' = Subscribers /\ streamShown'[r] = Stream(r)
      /\ \A s \in Subscribers : s # r => streamShown'[s] = streamShown[s]
  BY <1>1, <1>2
<1>4. TopicTypes' BY <1>1, <1>3 DEF TopicInv, TopicTypes, TopicTypeOK
<1>5. DurableRetained' BY <1>1 DEF TopicInv, DurableRetained
<1>6. ASSUME NEW s \in Subscribers PROVE StreamOwed(s)' /\ ReaderOwed(s)'
  <2>1. /\ Stream(s)' = Stream(s) /\ (CutOff(s)' <=> CutOff(s))
        /\ (Connected(s)' <=> Connected(s))
    BY <1>1 DEF Stream, CutOff, Connected
  <2>2. StreamOwed(s) /\ ReaderOwed(s) BY DEF TopicInv
  <2>3. ReaderOwed(s)' BY <1>1, <2>1, <2>2 DEF ReaderOwed
  <2>4. CASE s = r BY <1>3, <2>1, <2>3, <2>4 DEF StreamOwed
  <2>5. CASE s # r BY <1>1, <1>3, <2>1, <2>2, <2>3, <2>5 DEF StreamOwed
  <2> QED BY <2>4, <2>5
<1> QED BY <1>4, <1>5, <1>6 DEF TopicInv

\* No step of any thread leaves a stream behind or a subscriber without a reader.
LEMMA TopicStep == TopicInv /\ [TopicNext]_topicVars => TopicInv'
<1> SUFFICES ASSUME TopicInv, [TopicNext]_topicVars PROVE TopicInv'
  OBVIOUS
<1>1. ASSUME NEW t \in TopicThreads, Publish(t) PROVE TopicInv'
  BY <1>1, PublishKeeps
<1>2. ASSUME NEW t \in TopicThreads, FindReaders(t) PROVE TopicInv'
  BY <1>2, FindReadersKeeps
<1>3. ASSUME NEW t \in TopicThreads, ClearStreams(t) \/ EmplaceReader(t) PROVE TopicInv'
  BY <1>3, ClearStreamsKeeps, EmplaceReaderKeeps
<1>4. ASSUME NEW t \in TopicThreads, NEW s \in Subscribers, NEW durable \in BOOLEAN,
             Subscribe(t, s, durable)
      PROVE  TopicInv'
  BY <1>4, SubscribeKeeps
<1>5. ASSUME NEW t \in TopicThreads, NEW s \in Subscribers, Disconnect(t, s) PROVE TopicInv'
  BY <1>5, DisconnectKeeps
<1>6. ASSUME NEW t \in TopicThreads, NEW s \in Subscribers, NEW taken \in 1 .. MaxTail,
             Advance(t, s, taken)
      PROVE  TopicInv'
  BY <1>6, AdvanceKeeps
<1>7. ASSUME NEW s \in Subscribers, ReadStream(s) PROVE TopicInv'
  BY <1>7, ReadStreamKeeps
<1>8. CASE gc BY <1>8, GcKeeps
<1>9. CASE UNCHANGED topicVars
  BY <1>9 DEF topicVars, log, TopicInv, TopicTypes, TopicTypeOK, DurableRetained,
              StreamOwed, ReaderOwed, Stream, CutOff, Connected
<1>10. ASSUME NEW t \in TopicThreads, NEW s \in Subscribers, ReaderHandle(t, s) PROVE TopicInv'
  BY <1>10, ReaderHandleKeeps
<1> QED BY <1>1, <1>2, <1>3, <1>4, <1>5, <1>6, <1>7, <1>8, <1>9, <1>10 DEF TopicNext

-----------------------------------------------------------------------------
(* Timer, Timeout and RevisionBarrier *)

Waits ==
  [kind : {"timer", "timeout", "barrier"}, deadline : Moments \cup {NoDeadline},
   last_now : Moments \cup {Never}, terminal : {Open} \cup [outcome : Outcomes, at : Moments],
   revision : Nat, generation : Nat]

\* What an outcome says of the wait it ends.
Justified(w, outcome, at) ==
  /\ outcome \in {"fired", "timed_out"} => Reached(w, w.last_now)
  /\ outcome \in {"completed", "satisfied", "cancelled", "disposed"} => ~Reached(w, w.last_now)
  /\ outcome = "fired" => at = w.last_now
  /\ outcome = "satisfied" => w.revision >= required_revision

\* Each accepted revision is a generation of its own.
Numbered(w) == w.generation <= w.revision /\ (w.generation = 0 <=> w.revision = 0)

\* A barrier that is open has seen no clock at its deadline: the calls that do
\* not read one, dispose and advance, end it on that ground.
WaitSound(w) ==
  /\ w \in Waits /\ Numbered(w)
  /\ w.terminal # Open => Justified(w, w.terminal.outcome, w.terminal.at)
  /\ w.terminal = Open /\ w.kind = "barrier" => ~Reached(w, w.last_now)

Verdict(w) == [verdict |-> w.terminal, revision |-> w.revision, generation |-> w.generation]

\* The callers were told what is latched now, and only a barrier lets its
\* mutex go.
DeadlineInv ==
  /\ WaitSound(wait)
  /\ asking # {} => wait.kind = "barrier"
  /\ wait.terminal = Open => verdicts = {}
  /\ wait.terminal # Open => verdicts \subseteq {Verdict(wait)}

\* All callers hear one verdict.
LEMMA DeadlineInvImplies == DeadlineInv => VerdictsStand
<1> SUFFICES ASSUME DeadlineInv PROVE VerdictsStand
  OBVIOUS
<1>1. PICK v : v = Verdict(wait) OBVIOUS
<1>2. verdicts \in SUBSET {v} BY <1>1 DEF DeadlineInv
<1>3. IsFiniteSet({v}) /\ Cardinality({v}) = 1 BY FS_Singleton
<1>4. IsFiniteSet(verdicts) /\ Cardinality(verdicts) <= Cardinality({v})
  BY <1>2, <1>3, FS_Subset
<1>5. Cardinality(verdicts) <= 1 BY <1>3, <1>4
<1>6. \A u \in verdicts : u.verdict = wait.terminal /\ u.revision = wait.revision
  BY <1>1, <1>2 DEF Verdict
<1> QED BY <1>5, <1>6 DEF DeadlineInv, WaitSound, Justified, Numbered, VerdictsStand

\* start and the constructor of the barrier.
LEMMA DeadlineInvInit == DeadlinesInit => DeadlineInv
<1> SUFFICES ASSUME DeadlinesInit PROVE DeadlineInv
  OBVIOUS
<1>1. ASSUME NEW k \in {"timer", "timeout", "barrier"}, NEW instant \in Moments \cup {Never},
             NEW d \in Moments \cup {NoDeadline}, k = "barrier" => instant = Never,
             wait = New(k, instant, d)
      PROVE  WaitSound(wait)
  <2>1. /\ wait = [kind |-> k, deadline |-> d, last_now |-> instant, terminal |-> Open,
                   revision |-> 0, generation |-> 0]
    BY <1>1 DEF New
  <2>2. wait \in Waits BY <2>1 DEF Waits
  <2>3. k = "barrier" => ~Reached(wait, wait.last_now)
    BY <1>1, <2>1, DeadlinesAssumption DEF Reached, Moments, Never
  <2> QED BY <2>1, <2>2, <2>3 DEF WaitSound, Numbered
<1>2. WaitSound(wait) /\ wait.terminal = Open
  <2>1. CASE wait \in {w \in Started : w.deadline # NoDeadline}
    <3>1. PICK k \in {"timer", "timeout"}, instant \in Moments, d \in Durations :
            wait = New(k, instant, checked_deadline(instant, d))
      BY <2>1 DEF Started
    <3>2. PICK e : e = checked_deadline(instant, d) OBVIOUS
    <3>3. e \in Moments \cup {NoDeadline}
      BY <3>2, DeadlinesAssumption DEF checked_deadline, Moments
    <3>4. WaitSound(wait) BY <1>1, <3>1, <3>2, <3>3
    <3> QED BY <3>1, <3>4 DEF New
  <2>2. CASE wait \in {New("barrier", Never, d) : d \in Moments \cup {NoDeadline}}
    <3>1. PICK d \in Moments \cup {NoDeadline} : wait = New("barrier", Never, d) BY <2>2
    <3>2. WaitSound(wait) BY <1>1, <3>1
    <3> QED BY <3>1, <3>2 DEF New
  <2> QED BY <2>1, <2>2 DEF DeadlinesInit
<1> QED BY <1>2 DEF DeadlinesInit, DeadlineInv

\* A call that returns a sound wait, and the one it found when that had ended.
Answers(w) ==
  /\ WaitSound(w) /\ w.kind = wait.kind
  /\ wait.terminal # Open => w = wait

LEMMA ToldKeeps ==
  ASSUME DeadlineInv, NEW w, Answers(w), Told(w),
         asking' # {} => wait.kind = "barrier"
  PROVE  DeadlineInv' /\ (wait.terminal # Open => wait' = wait)
<1>1. /\ wait' = w
      /\ verdicts' = IF w.terminal = Open THEN verdicts ELSE verdicts \cup {Verdict(w)}
  BY DEF Told, Verdict
<1>2. CASE wait.terminal = Open
  BY <1>1, <1>2 DEF DeadlineInv, Answers
<1>3. CASE wait.terminal # Open
  BY <1>1, <1>3 DEF DeadlineInv, Answers
<1> QED BY <1>2, <1>3

\* A wait that is still open, whatever its clock has just seen.
StillOpen(w) == w \in Waits /\ Numbered(w) /\ w.terminal = Open

LEMMA LatchSound ==
  ASSUME NEW w, StillOpen(w), NEW outcome \in Outcomes, NEW at \in Moments,
         Justified(w, outcome, at)
  PROVE  /\ WaitSound(latch(w, outcome, at)) /\ latch(w, outcome, at).kind = w.kind
         /\ latch(w, outcome, at).terminal # Open
<1>1. PICK x : x = [outcome |-> outcome, at |-> at] OBVIOUS
<1>2. /\ x \in [outcome : Outcomes, at : Moments] /\ x.outcome = outcome /\ x.at = at
      /\ x # Open
  <2>1. x \in [outcome : Outcomes, at : 0 .. max_word] BY <1>1 DEF Moments
  <2> QED BY <1>1, <2>1, DeadlinesAssumption DEF Moments
<1>3. PICK v : v = latch(w, outcome, at) OBVIOUS
<1>4. v = [w EXCEPT !.terminal = x] BY <1>1, <1>3 DEF latch
<1>5. /\ v \in Waits /\ v.terminal = x /\ v.kind = w.kind /\ v.deadline = w.deadline
      /\ v.last_now = w.last_now /\ v.revision = w.revision /\ v.generation = w.generation
  BY <1>2, <1>4 DEF StillOpen, Waits
<1>6. Numbered(v) /\ Justified(v, outcome, at)
  BY <1>5 DEF StillOpen, Numbered, Justified, Reached
<1> QED BY <1>2, <1>3, <1>5, <1>6 DEF WaitSound

\* The clock is taken in before anything is decided by it.
LEMMA SeenOpen ==
  ASSUME NEW w, StillOpen(w), NEW instant \in Moments, NEW seen,
         seen = [w EXCEPT !.last_now = instant]
  PROVE  StillOpen(seen) /\ seen.last_now = instant /\ seen.kind = w.kind
BY DEF StillOpen, Waits, Numbered

LEMMA OpenSound ==
  ASSUME NEW w, StillOpen(w), ~Reached(w, w.last_now) \/ w.kind # "barrier"
  PROVE  WaitSound(w)
BY DEF WaitSound, StillOpen

\* accept_now and the deadline.
LEMMA TimeCheckedSound ==
  ASSUME NEW w, StillOpen(w), NEW instant \in Moments, NEW c, c = TimeChecked(w, instant)
  PROVE  /\ WaitSound(c) /\ c.kind = w.kind
         /\ c.terminal = Open => StillOpen(c) /\ ~Reached(c, c.last_now)
<1>1. PICK seen : seen = [w EXCEPT !.last_now = instant] OBVIOUS
<1>2. StillOpen(seen) /\ seen.last_now = instant /\ seen.kind = w.kind BY <1>1, SeenOpen
<1>3. c = IF instant < w.last_now THEN latch(w, "unavailable", 0)
          ELSE IF Reached(seen, instant) THEN latch(seen, "timed_out", 0) ELSE seen
  BY <1>1 DEF TimeChecked
<1>z. 0 \in Moments /\ "unavailable" \in Outcomes /\ "timed_out" \in Outcomes
  BY DeadlinesAssumption DEF Moments, Outcomes
<1>4. CASE instant < w.last_now
  <2>1. Justified(w, "unavailable", 0) BY DEF Justified
  <2> QED BY <1>3, <1>4, <1>z, <2>1, LatchSound
<1>5. CASE ~(instant < w.last_now) /\ Reached(seen, instant)
  <2>1. Justified(seen, "timed_out", 0) BY <1>2, <1>5 DEF Justified
  <2>2. /\ WaitSound(latch(seen, "timed_out", 0)) /\ latch(seen, "timed_out", 0).kind = seen.kind
        /\ latch(seen, "timed_out", 0).terminal # Open
    BY <1>2, <1>z, <2>1, LatchSound
  <2> QED BY <1>2, <1>3, <1>5, <2>2
<1>6. CASE ~(instant < w.last_now) /\ ~Reached(seen, instant)
  <2>1. c = seen BY <1>3, <1>6
  <2> QED BY <1>2, <1>6, <2>1, OpenSound
<1> QED BY <1>4, <1>5, <1>6

\* The predicate ends an open barrier at its revision.
LEMMA SatisfiedSound ==
  ASSUME NEW w, StillOpen(w), ~Reached(w, w.last_now), NEW predicate \in BOOLEAN
  PROVE  WaitSound(Satisfied(w, predicate)) /\ Satisfied(w, predicate).kind = w.kind
<1>z. 0 \in Moments /\ "satisfied" \in Outcomes
  BY DeadlinesAssumption DEF Moments, Outcomes
<1>1. CASE predicate /\ w.revision >= required_revision
  <2>1. Justified(w, "satisfied", 0) BY <1>1 DEF Justified
  <2> QED BY <1>1, <1>z, <2>1, LatchSound DEF Satisfied
<1>2. CASE ~(predicate /\ w.revision >= required_revision)
  BY <1>2, OpenSound DEF Satisfied
<1> QED BY <1>1, <1>2

\* accept_revision numbers what it takes.
LEMMA AcceptedOpen ==
  ASSUME NEW w, StillOpen(w), NEW revision \in Nat, NEW v, v = accept_revision(w, revision)
  PROVE  /\ StillOpen(v) /\ v.kind = w.kind /\ v.deadline = w.deadline
         /\ v.last_now = w.last_now
<1>t. w \in Waits /\ w.revision \in Nat /\ w.generation \in Nat BY DEF StillOpen, Waits
<1>1. CASE revision > w.revision
  <2>1. PICK u : u = [w EXCEPT !.revision = revision] OBVIOUS
  <2>2. /\ u \in Waits /\ u.revision = revision /\ u.generation = w.generation
        /\ u.terminal = w.terminal /\ u.kind = w.kind /\ u.deadline = w.deadline
        /\ u.last_now = w.last_now
    BY <1>t, <2>1 DEF Waits
  <2>3. v = [u EXCEPT !.generation = w.generation + 1]
    BY <1>1, <2>1, <2>2 DEF accept_revision
  <2>4. /\ v \in Waits /\ v.revision = revision /\ v.generation = w.generation + 1
        /\ v.terminal = w.terminal /\ v.kind = w.kind /\ v.deadline = w.deadline
        /\ v.last_now = w.last_now
    BY <1>t, <2>2, <2>3 DEF Waits
  <2>5. Numbered(v) BY <1>t, <1>1, <2>4 DEF StillOpen, Numbered
  <2> QED BY <2>4, <2>5 DEF StillOpen
<1>2. CASE ~(revision > w.revision)
  BY <1>2 DEF accept_revision
<1> QED BY <1>1, <1>2

\* What a step of a wait preserves, and that it ends no wait a second time.
DeadlineKept == DeadlineInv' /\ (wait.terminal # Open => wait' = wait)

\* A wait that has ended answers every call with itself; a sound one that is
\* open may go on.
LEMMA EndedAnswers ==
  ASSUME DeadlineInv
  PROVE  /\ wait.terminal # Open => Answers(wait)
         /\ wait.terminal = Open => StillOpen(wait)
         /\ wait.terminal = Open /\ wait.kind = "barrier" => ~Reached(wait, wait.last_now)
BY DEF DeadlineInv, Answers, WaitSound, StillOpen

LEMMA ObserveKeeps == ASSUME DeadlineInv, NEW instant \in Moments, Observe(instant) PROVE DeadlineKept
<1>1. PICK seen : seen = [wait EXCEPT !.last_now = instant] OBVIOUS
<1>2. PICK w : w = IF wait.terminal # Open \/ instant < wait.last_now THEN wait
                   ELSE IF Reached(seen, instant) THEN latch(seen, "fired", instant) ELSE seen
  OBVIOUS
<1>3. Told(w) /\ wait.kind = "timer" /\ asking' = asking BY <1>1, <1>2 DEF Observe
<1>4. CASE wait.terminal # Open
  BY <1>2, <1>3, <1>4, EndedAnswers, ToldKeeps DEF DeadlineInv, DeadlineKept
<1>5. CASE wait.terminal = Open
  <2>1. StillOpen(wait) /\ StillOpen(seen) /\ seen.last_now = instant /\ seen.kind = "timer"
    BY <1>1, <1>3, <1>5, EndedAnswers, SeenOpen
  <2>2. "fired" \in Outcomes BY DEF Outcomes
  <2>3. WaitSound(w) /\ w.kind = wait.kind
    <3>1. CASE instant < wait.last_now BY <1>2, <1>3, <2>1, <3>1, OpenSound
    <3>2. CASE ~(instant < wait.last_now) /\ Reached(seen, instant)
      <4>1. Justified(seen, "fired", instant) BY <2>1, <3>2 DEF Justified
      <4>2. w = latch(seen, "fired", instant) BY <1>2, <1>5, <3>2
      <4> QED BY <1>3, <2>1, <2>2, <4>1, <4>2, LatchSound
    <3>3. CASE ~(instant < wait.last_now) /\ ~Reached(seen, instant)
      <4>1. w = seen BY <1>2, <1>5, <3>3
      <4> QED BY <1>3, <2>1, <4>1, OpenSound
    <3> QED BY <3>1, <3>2, <3>3
  <2>4. Answers(w) BY <1>5, <2>3 DEF Answers
  <2> QED BY <1>3, <2>4, ToldKeeps DEF DeadlineInv, DeadlineKept
<1> QED BY <1>4, <1>5

LEMMA PollTimeoutKeeps ==
  ASSUME DeadlineInv, NEW instant \in Moments, NEW op \in Operations, NEW cancel \in Cancellations,
         PollTimeout(instant, op, cancel)
  PROVE  DeadlineKept
<1>1. PICK seen : seen = [wait EXCEPT !.last_now = instant] OBVIOUS
<1>2. PICK w : w = IF wait.terminal # Open THEN wait
                   ELSE IF instant < wait.last_now THEN latch(wait, "unavailable", 0)
                   ELSE IF Reached(seen, instant) THEN latch(seen, "timed_out", 0)
                   ELSE IF Outcome(op, cancel) = "pending" THEN seen
                   ELSE latch(seen, Outcome(op, cancel), 0)
  OBVIOUS
<1>3. Told(w) /\ wait.kind = "timeout" /\ asking' = asking BY <1>1, <1>2 DEF PollTimeout
<1>4. CASE wait.terminal # Open
  BY <1>2, <1>3, <1>4, EndedAnswers, ToldKeeps DEF DeadlineInv, DeadlineKept
<1>5. CASE wait.terminal = Open
  <2>1. StillOpen(wait) /\ StillOpen(seen) /\ seen.last_now = instant /\ seen.kind = "timeout"
    BY <1>1, <1>3, <1>5, EndedAnswers, SeenOpen
  <2>2. /\ 0 \in Moments /\ "unavailable" \in Outcomes /\ "timed_out" \in Outcomes
    BY DeadlinesAssumption DEF Moments, Outcomes
  <2>3. Outcome(op, cancel) = "pending"
        \/ Outcome(op, cancel) \in {"completed", "cancelled", "unavailable"}
    BY DEF Outcome, Operations, Cancellations
  <2>4. WaitSound(w) /\ w.kind = wait.kind
    <3>1. CASE instant < wait.last_now
      <4>1. Justified(wait, "unavailable", 0) BY DEF Justified
      <4>2. w = latch(wait, "unavailable", 0) BY <1>2, <1>5, <3>1
      <4> QED BY <2>1, <2>2, <4>1, <4>2, LatchSound
    <3>2. CASE ~(instant < wait.last_now) /\ Reached(seen, instant)
      <4>1. Justified(seen, "timed_out", 0) BY <2>1, <3>2 DEF Justified
      <4>2. w = latch(seen, "timed_out", 0) BY <1>2, <1>5, <3>2
      <4> QED BY <1>3, <2>1, <2>2, <4>1, <4>2, LatchSound
    <3>3. CASE ~(instant < wait.last_now) /\ ~Reached(seen, instant)
      <4>1. CASE Outcome(op, cancel) = "pending"
        <5>1. w = seen BY <1>2, <1>5, <3>3, <4>1
        <5> QED BY <1>3, <2>1, <5>1, OpenSound
      <4>2. CASE Outcome(op, cancel) # "pending"
        <5>1. PICK o \in {"completed", "cancelled", "unavailable"} : o = Outcome(op, cancel)
          BY <2>3, <4>2
        <5>2. o \in Outcomes /\ o \notin {"fired", "timed_out", "satisfied"} BY DEF Outcomes
        <5>3. Justified(seen, o, 0) BY <2>1, <3>3, <5>2 DEF Justified
        <5>4. w = latch(seen, o, 0) BY <1>2, <1>5, <3>3, <4>2, <5>1
        <5> QED BY <1>3, <2>1, <2>2, <5>2, <5>3, <5>4, LatchSound
      <4> QED BY <4>1, <4>2
    <3> QED BY <3>1, <3>2, <3>3
  <2>5. Answers(w) BY <1>5, <2>4 DEF Answers
  <2> QED BY <1>3, <2>5, ToldKeeps DEF DeadlineInv, DeadlineKept
<1> QED BY <1>4, <1>5

\* The first half of observe.
LEMMA ObserveBarrierKeeps ==
  ASSUME DeadlineInv, NEW t, NEW instant \in Moments, NEW predicate \in BOOLEAN,
         ObserveBarrier(t, instant, predicate)
  PROVE  DeadlineKept
<1>1. PICK checked : checked = TimeChecked(wait, instant) OBVIOUS
<1>2. PICK w : w = IF wait.terminal # Open THEN wait
                   ELSE IF checked.terminal # Open THEN checked
                   ELSE Satisfied(checked, predicate)
  OBVIOUS
<1>3. Told(w) /\ wait.kind = "barrier" BY <1>1, <1>2 DEF ObserveBarrier
<1>4. Answers(w)
  <2>1. CASE wait.terminal # Open BY <1>2, <2>1, EndedAnswers
  <2>2. CASE wait.terminal = Open
    <3>1. /\ WaitSound(checked) /\ checked.kind = wait.kind
          /\ checked.terminal = Open => StillOpen(checked) /\ ~Reached(checked, checked.last_now)
      BY <1>1, <2>2, EndedAnswers, TimeCheckedSound
    <3>2. WaitSound(w) /\ w.kind = wait.kind BY <1>2, <2>2, <3>1, SatisfiedSound
    <3> QED BY <2>2, <3>2 DEF Answers
  <2> QED BY <2>1, <2>2
<1> QED BY <1>3, <1>4, ToldKeeps DEF DeadlineKept

\* The second half: what was latched while the mutex was free stands.
LEMMA AnswerKeeps ==
  ASSUME DeadlineInv, NEW t, NEW cancel \in Cancellations, AnswerCancellation(t, cancel)
  PROVE  DeadlineKept
<1>1. PICK w : w = IF wait.terminal # Open \/ cancel = "pending" THEN wait
                   ELSE latch(wait, cancel, 0)
  OBVIOUS
<1>2. Told(w) /\ wait.kind = "barrier" BY <1>1 DEF AnswerCancellation, DeadlineInv
<1>3. Answers(w)
  <2>1. CASE wait.terminal # Open BY <1>1, <2>1, EndedAnswers
  <2>2. CASE wait.terminal = Open /\ cancel = "pending"
    BY <1>1, <2>2 DEF Answers, DeadlineInv
  <2>3. CASE wait.terminal = Open /\ cancel # "pending"
    <3>1. 0 \in Moments /\ cancel \in Outcomes /\ cancel \in {"cancelled", "unavailable"}
      BY <2>3, DeadlinesAssumption DEF Moments, Outcomes, Cancellations
    <3>2. Justified(wait, cancel, 0) BY <1>2, <2>3, <3>1, EndedAnswers DEF Justified
    <3>3. WaitSound(w) /\ w.kind = wait.kind
      BY <1>1, <2>3, <3>1, <3>2, EndedAnswers, LatchSound
    <3> QED BY <2>3, <3>3 DEF Answers
  <2> QED BY <2>1, <2>2, <2>3
<1> QED BY <1>2, <1>3, ToldKeeps DEF DeadlineKept

LEMMA RegisterKeeps ==
  ASSUME DeadlineInv, NEW t, NEW instant \in Moments, NEW r \in 0 .. MaxRevision,
         NEW predicate \in BOOLEAN, RegisterRecheck(t, instant, r, predicate)
  PROVE  DeadlineKept
<1>1. PICK checked : checked = TimeChecked(wait, instant) OBVIOUS
<1>2. PICK v : v = accept_revision(checked, r) OBVIOUS
<1>3. PICK w : w = IF wait.terminal # Open THEN wait
                   ELSE IF checked.terminal # Open THEN checked
                   ELSE Satisfied(v, predicate)
  OBVIOUS
<1>4. Told(w) /\ wait.kind = "barrier" BY <1>1, <1>2, <1>3 DEF RegisterRecheck
<1>5. Answers(w)
  <2>1. CASE wait.terminal # Open BY <1>3, <2>1, EndedAnswers
  <2>2. CASE wait.terminal = Open
    <3>1. /\ WaitSound(checked) /\ checked.kind = wait.kind
          /\ checked.terminal = Open => StillOpen(checked) /\ ~Reached(checked, checked.last_now)
      BY <1>1, <2>2, EndedAnswers, TimeCheckedSound
    <3>2. CASE checked.terminal # Open BY <1>3, <2>2, <3>1, <3>2 DEF Answers
    <3>3. CASE checked.terminal = Open
      <4>1. r \in Nat BY DeadlinesAssumption
      <4>2. StillOpen(v) /\ v.kind = wait.kind /\ ~Reached(v, v.last_now)
        BY <1>2, <3>1, <3>3, <4>1, AcceptedOpen DEF Reached
      <4>3. WaitSound(w) /\ w.kind = wait.kind BY <1>3, <2>2, <3>3, <4>2, SatisfiedSound
      <4> QED BY <2>2, <4>3 DEF Answers
    <3> QED BY <3>2, <3>3
  <2> QED BY <2>1, <2>2
<1> QED BY <1>4, <1>5, ToldKeeps DEF DeadlineKept

LEMMA AdvanceRevisionKeeps ==
  ASSUME DeadlineInv, NEW t, NEW r \in 0 .. MaxRevision, NEW predicate \in BOOLEAN,
         AdvanceRevision(t, r, predicate)
  PROVE  DeadlineKept
<1>1. PICK v : v = accept_revision(wait, r) OBVIOUS
<1>2. PICK w : w = IF wait.terminal # Open THEN wait ELSE Satisfied(v, predicate) OBVIOUS
<1>3. Told(w) /\ wait.kind = "barrier" BY <1>1, <1>2 DEF AdvanceRevision
<1>4. Answers(w)
  <2>1. CASE wait.terminal # Open BY <1>2, <2>1, EndedAnswers
  <2>2. CASE wait.terminal = Open
    <3>1. r \in Nat BY DeadlinesAssumption
    <3>2. StillOpen(wait) /\ ~Reached(wait, wait.last_now) BY <1>3, <2>2, EndedAnswers
    <3>3. StillOpen(v) /\ v.kind = wait.kind /\ ~Reached(v, v.last_now)
      BY <1>1, <3>1, <3>2, AcceptedOpen DEF Reached
    <3>4. WaitSound(w) /\ w.kind = wait.kind BY <1>2, <2>2, <3>3, SatisfiedSound
    <3> QED BY <2>2, <3>4 DEF Answers
  <2> QED BY <2>1, <2>2
<1> QED BY <1>3, <1>4, ToldKeeps DEF DeadlineKept

LEMMA DisposeKeeps == ASSUME DeadlineInv, NEW t, Dispose(t) PROVE DeadlineKept
<1>1. PICK w : w = IF wait.terminal # Open THEN wait ELSE latch(wait, "disposed", 0) OBVIOUS
<1>2. Told(w) /\ wait.kind = "barrier" BY <1>1 DEF Dispose
<1>3. Answers(w)
  <2>1. CASE wait.terminal # Open BY <1>1, <2>1, EndedAnswers
  <2>2. CASE wait.terminal = Open
    <3>1. 0 \in Moments /\ "disposed" \in Outcomes
      BY DeadlinesAssumption DEF Moments, Outcomes
    <3>2. Justified(wait, "disposed", 0) BY <1>2, <2>2, EndedAnswers DEF Justified
    <3>3. WaitSound(w) /\ w.kind = wait.kind
      BY <1>1, <2>2, <3>1, <3>2, EndedAnswers, LatchSound
    <3> QED BY <2>2, <3>3 DEF Answers
  <2> QED BY <2>1, <2>2
<1> QED BY <1>2, <1>3, ToldKeeps DEF DeadlineKept

\* Every call of every thread.
LEMMA DeadlinesStep == DeadlineInv /\ [DeadlinesNext]_deadlineVars => DeadlineKept
<1> SUFFICES ASSUME DeadlineInv, [DeadlinesNext]_deadlineVars PROVE DeadlineKept
  OBVIOUS
<1>1. ASSUME NEW instant \in Moments, Observe(instant) PROVE DeadlineKept BY <1>1, ObserveKeeps
<1>2. ASSUME NEW instant \in Moments, NEW op \in Operations, NEW cancel \in Cancellations,
             PollTimeout(instant, op, cancel)
      PROVE  DeadlineKept
  BY <1>2, PollTimeoutKeeps
<1>3. ASSUME NEW instant \in Moments, NEW t \in Waiters, NEW predicate \in BOOLEAN,
             ObserveBarrier(t, instant, predicate)
      PROVE  DeadlineKept
  BY <1>3, ObserveBarrierKeeps
<1>4. ASSUME NEW instant \in Moments, NEW t \in Waiters, NEW predicate \in BOOLEAN,
             NEW r \in 0 .. MaxRevision, RegisterRecheck(t, instant, r, predicate)
      PROVE  DeadlineKept
  BY <1>4, RegisterKeeps
<1>5. ASSUME NEW t \in Waiters, NEW cancel \in Cancellations, AnswerCancellation(t, cancel)
      PROVE  DeadlineKept
  BY <1>5, AnswerKeeps
<1>6. ASSUME NEW t \in Waiters, NEW r \in 0 .. MaxRevision, NEW predicate \in BOOLEAN,
             AdvanceRevision(t, r, predicate)
      PROVE  DeadlineKept
  BY <1>6, AdvanceRevisionKeeps
<1>7. ASSUME NEW t \in Waiters, Dispose(t) PROVE DeadlineKept BY <1>7, DisposeKeeps
<1>8. ASSUME NEW t \in Waiters, Receipt(t) PROVE DeadlineKept
  <2>1. Told(wait) /\ wait.kind = "barrier" /\ Answers(wait)
    BY <1>8 DEF Receipt, Answers, DeadlineInv
  <2> QED BY <2>1, ToldKeeps DEF DeadlineKept
<1>9. CASE UNCHANGED deadlineVars
  BY <1>9 DEF deadlineVars, DeadlineKept, DeadlineInv
<1> QED BY <1>1, <1>2, <1>3, <1>4, <1>5, <1>6, <1>7, <1>8, <1>9 DEF DeadlinesNext

-----------------------------------------------------------------------------
(* The cells together *)

\* A step of the cells is a step of the queue or leaves it alone, and the same
\* for the topic and for the waits.
LEMMA CellsStepParts ==
  [CellsNext]_cellsVars =>
    [QueueNext]_queueVars /\ [TopicNext]_topicVars /\ [DeadlinesNext]_deadlineVars
<1> SUFFICES ASSUME [CellsNext]_cellsVars
             PROVE  [QueueNext]_queueVars /\ [TopicNext]_topicVars /\ [DeadlinesNext]_deadlineVars
  OBVIOUS
<1>1. CASE ReactiveNext /\ UNCHANGED timedVars BY <1>1 DEF ReactiveNext, timedVars
<1>2. CASE TimedNext /\ UNCHANGED reactiveVars BY <1>2 DEF TimedNext, reactiveVars
<1>3. CASE UNCHANGED <<reactiveVars, timedVars>> BY <1>3 DEF reactiveVars, timedVars
<1>4. CASE UNCHANGED cellsVars BY <1>4 DEF cellsVars, reactiveVars, timedVars
<1> QED BY <1>1, <1>2, <1>3, <1>4 DEF CellsNext

\* ReadersSound for every set of threads and of subscribers, every capacity
\* and every bound: the memoised readers of queue.hpp, cleared outside the
\* lock that commits, catch up once their calls are over, for durable, for
\* ephemeral and for not yet subscribed ids as StreamsCurrent says; a connected
\* subscriber is without a reader only where an overtaken disconnect took it;
\* and gc takes nothing from a durable subscriber.
THEOREM ReadersCatchUp == CellsSpec => []ReadersSound
<1> DEFINE CellsInv == QueueInv /\ TopicInv
<1>1. CellsInit => CellsInv
  BY QueueInvInit, TopicInvInit DEF CellsInit
<1>2. CellsInv /\ [CellsNext]_cellsVars => CellsInv'
  BY CellsStepParts, QueueStep, TopicStep
<1>3. CellsInv => ReadersSound
  BY TopicInvImplies DEF QueueInv, ReadersSound
<1> HIDE DEF CellsInv
<1> QED BY <1>1, <1>2, <1>3, PTL DEF CellsSpec

\* VerdictsStand, the part of TimedSound about Timer, Timeout and
\* RevisionBarrier (stdlib.hpp), for every set of threads, every clock and every
\* revision: all callers hear one verdict, and it is what the clock, the
\* operation or the revision justify.
THEOREM VerdictsStandAlways == CellsSpec => [](part = "deadlines" => VerdictsStand)
<1>1. CellsInit => DeadlineInv BY DeadlineInvInit DEF CellsInit
<1>2. DeadlineInv /\ [CellsNext]_cellsVars => DeadlineInv'
  BY CellsStepParts, DeadlinesStep DEF DeadlineKept
<1>3. DeadlineInv => (part = "deadlines" => VerdictsStand) BY DeadlineInvImplies
<1> QED BY <1>1, <1>2, <1>3, PTL DEF CellsSpec

\* A wait that has ended is never changed again: no later clock, revision,
\* disposal or late answer of cancellation() replaces its verdict.
THEOREM VerdictsAreFinal == CellsSpec => [][wait.terminal # Open => wait' = wait]_cellsVars
<1>1. CellsInit => DeadlineInv BY DeadlineInvInit DEF CellsInit
<1>2. DeadlineInv /\ [CellsNext]_cellsVars => DeadlineInv'
  BY CellsStepParts, DeadlinesStep DEF DeadlineKept
<1>3. DeadlineInv /\ [CellsNext]_cellsVars => (wait.terminal # Open => wait' = wait)
  BY CellsStepParts, DeadlinesStep DEF DeadlineKept
<1> QED BY <1>1, <1>2, <1>3, PTL DEF CellsSpec

=============================================================================
