---------------------------- MODULE PlanesProofs ----------------------------
(***************************************************************************)
(* What the peer plane, the relay link and reliable sync keep, for every   *)
(* value of their constants: what the PeerChangeEvents of membership.hpp   *)
(* tell their consumer, whatever the detector decides and however far the  *)
(* consumer is behind; what a relay link keeps of the operations it        *)
(* accepted, whatever its policies and its crashes; and that reliable sync *)
(* neither loses nor repeats an event, for any number of events, any span  *)
(* of a delta, and any number of breaks and restarts.                      *)
(***************************************************************************)
EXTENDS PeerPlane, RelayLink, ReliableSync, FiniteSetTheorems, SequenceTheorems, TLAPS

(* The peer plane *)

PeerStates == {"none", "Alive", "Suspect", "Dead", "Left"}

Records == [state : PeerStates, sampled : BOOLEAN, silent : Int, suspect : Int]

ChangeEvents == [peer : Members, to : PeerStates]

-----------------------------------------------------------------------------
(* What a sequence of events tells *)

\* The events tell one state of a peer, the last one they name.
LEMMA TellUnique ==
  ASSUME NEW known, NEW events, NEW n \in Nat, NEW p, NEW a, NEW b,
         Tell(known, events, n, p, a), Tell(known, events, n, p, b)
  PROVE  a = b
<1>1. ASSUME NEW i \in 1..n, NEW j \in 1..n, events[i].peer = p, events[j].peer = p,
             \A k \in (i + 1)..n : events[k].peer # p,
             \A k \in (j + 1)..n : events[k].peer # p
      PROVE  i = j
  <2>1. ~ (i < j) BY <1>1
  <2>2. ~ (j < i) BY <1>1
  <2> QED BY <1>1, <2>1, <2>2
<1> QED BY <1>1 DEF Tell

\* A consumer that handles the first event knows what the rest tells it.
LEMMA TellHandled ==
  ASSUME NEW known \in [Members -> PeerStates], NEW events \in Seq(ChangeEvents),
         events # << >>, NEW n \in 0..(Len(events) - 1), NEW p \in Members, NEW s,
         NEW e \in ChangeEvents, e = Head(events)
  PROVE  Tell([known EXCEPT ![e.peer] = e.to], Tail(events), n, p, s)
           <=> Tell(known, events, n + 1, p, s)
<1>1. /\ Len(events) \in Nat /\ e = events[1] /\ e.peer \in Members
      /\ \A i \in 1..n : Tail(events)[i] = events[i + 1]
  BY DEF ChangeEvents
<1> DEFINE next == [known EXCEPT ![e.peer] = e.to]
           rest == Tail(events)
<1>2. next[p] = IF p = e.peer THEN e.to ELSE known[p]
  BY <1>1
<1>3. \A i \in 1..n : rest[i] = events[i + 1] BY <1>1
<1> HIDE DEF next, rest
<1>4. (\A i \in 1..n : rest[i].peer # p) <=> (\A i \in 2..(n + 1) : events[i].peer # p)
  <2>1. ASSUME \A i \in 1..n : rest[i].peer # p, NEW i \in 2..(n + 1)
        PROVE  events[i].peer # p
    <3>1. i - 1 \in 1..n /\ (i - 1) + 1 = i BY <2>1
    <3> QED BY <1>3, <2>1, <3>1
  <2>2. ASSUME \A i \in 2..(n + 1) : events[i].peer # p, NEW i \in 1..n
        PROVE  rest[i].peer # p
    <3>1. i + 1 \in 2..(n + 1) BY <2>2
    <3> QED BY <1>3, <2>2, <3>1
  <2> QED BY <2>1, <2>2
<1>5. ASSUME Tell(next, rest, n, p, s) PROVE Tell(known, events, n + 1, p, s)
  <2>1. ASSUME s = next[p], \A i \in 1..n : rest[i].peer # p
        PROVE  Tell(known, events, n + 1, p, s)
    <3>1. \A i \in 2..(n + 1) : events[i].peer # p BY <1>4, <2>1
    <3>2. CASE p = e.peer
      <4>1. 1 \in 1..(n + 1) /\ events[1].peer = p /\ events[1].to = s
        BY <1>1, <1>2, <2>1, <3>2
      <4> QED BY <3>1, <4>1 DEF Tell
    <3>3. CASE p # e.peer
      <4>1. \A i \in 1..(n + 1) : i = 1 \/ i \in 2..(n + 1) OBVIOUS
      <4> QED BY <1>1, <1>2, <2>1, <3>1, <3>3, <4>1 DEF Tell
    <3> QED BY <3>2, <3>3
  <2>2. ASSUME NEW i \in 1..n, rest[i].peer = p, rest[i].to = s,
               \A j \in (i + 1)..n : rest[j].peer # p
        PROVE  Tell(known, events, n + 1, p, s)
    <3>1. i + 1 \in 1..(n + 1) /\ events[i + 1].peer = p /\ events[i + 1].to = s
      BY <1>3, <2>2
    <3>2. ASSUME NEW j \in (i + 2)..(n + 1) PROVE events[j].peer # p
      <4>1. j - 1 \in (i + 1)..n /\ j - 1 \in 1..n /\ (j - 1) + 1 = j BY <3>2
      <4> QED BY <1>3, <2>2, <4>1
    <3>3. (i + 1) + 1 = i + 2 OBVIOUS
    <3> QED BY <3>1, <3>2, <3>3 DEF Tell
  <2> QED BY <1>5, <2>1, <2>2 DEF Tell
<1>6. ASSUME Tell(known, events, n + 1, p, s) PROVE Tell(next, rest, n, p, s)
  <2>1. ASSUME s = known[p], \A i \in 1..(n + 1) : events[i].peer # p
        PROVE  Tell(next, rest, n, p, s)
    <3>1. p # e.peer BY <1>1, <2>1
    <3>2. \A i \in 2..(n + 1) : events[i].peer # p BY <2>1
    <3> QED BY <1>2, <1>4, <2>1, <3>1, <3>2 DEF Tell
  <2>2. ASSUME NEW i \in 1..(n + 1), events[i].peer = p, events[i].to = s,
               \A j \in (i + 1)..(n + 1) : events[j].peer # p
        PROVE  Tell(next, rest, n, p, s)
    <3>1. CASE i = 1
      <4>1. p = e.peer /\ s = e.to BY <1>1, <2>2, <3>1
      <4>2. \A j \in 2..(n + 1) : events[j].peer # p BY <2>2, <3>1
      <4> QED BY <1>2, <1>4, <4>1, <4>2 DEF Tell
    <3>2. CASE i # 1
      <4>1. i - 1 \in 1..n /\ (i - 1) + 1 = i BY <2>2, <3>2
      <4>2. rest[i - 1].peer = p /\ rest[i - 1].to = s BY <1>3, <2>2, <4>1
      <4>3. ASSUME NEW j \in ((i - 1) + 1)..n PROVE rest[j].peer # p
        <5>1. j \in 1..n /\ j + 1 \in (i + 1)..(n + 1) BY <4>1, <4>3
        <5> QED BY <1>3, <2>2, <5>1
      <4> QED BY <4>1, <4>2, <4>3 DEF Tell
    <3> QED BY <3>1, <3>2
  <2> QED BY <1>6, <2>1, <2>2 DEF Tell
<1> QED BY <1>5, <1>6 DEF next, rest

\* Later events do not change what the earlier ones tell.
LEMMA TellPrefix ==
  ASSUME NEW known, NEW events \in Seq(ChangeEvents), NEW news \in Seq(ChangeEvents),
         NEW n \in 0..Len(events), NEW p, NEW s
  PROVE  Tell(known, events \o news, n, p, s) <=> Tell(known, events, n, p, s)
<1>1. Len(events) \in Nat OBVIOUS
<1>2. \A i \in 1..n : (events \o news)[i] = events[i]
  BY <1>1
<1> DEFINE all == events \o news
<1>3. \A i \in 1..n : all[i] = events[i] BY <1>2
<1> HIDE DEF all
<1>4. ASSUME NEW i \in 1..n
      PROVE  (\A j \in (i + 1)..n : all[j].peer # p) <=> (\A j \in (i + 1)..n : events[j].peer # p)
  <2>1. \A j \in (i + 1)..n : j \in 1..n BY <1>1
  <2> QED BY <1>3, <2>1
<1> QED BY <1>3, <1>4 DEF Tell, all

\* News about other peers change nothing about this one.
LEMMA TellOthers ==
  ASSUME NEW known, NEW events \in Seq(ChangeEvents), NEW news \in Seq(ChangeEvents),
         NEW m \in 0..Len(news), NEW p, NEW s, \A i \in 1..m : news[i].peer # p
  PROVE  Tell(known, events \o news, Len(events) + m, p, s)
           <=> Tell(known, events, Len(events), p, s)
<1> DEFINE all == events \o news
<1>1. /\ Len(events) \in Nat /\ Len(news) \in Nat
      /\ \A i \in 1..Len(events) : all[i] = events[i]
      /\ \A i \in (Len(events) + 1)..(Len(events) + Len(news)) : all[i] = news[i - Len(events)]
  OBVIOUS
<1> HIDE DEF all
<1>2. PICK n \in Nat : n = Len(events) BY <1>1
<1>3. ASSUME NEW i \in (n + 1)..(n + m) PROVE all[i].peer # p
  <2>1. i \in (n + 1)..(n + Len(news)) /\ i - n \in 1..m BY <1>1, <1>3
  <2> QED BY <1>1, <1>2, <2>1
<1>4. \A i \in 1..(n + m) : all[i].peer = p => i \in 1..n /\ all[i] = events[i]
  <2> SUFFICES ASSUME NEW i \in 1..(n + m), all[i].peer = p PROVE i \in 1..n /\ all[i] = events[i]
    OBVIOUS
  <2>1. i \notin (n + 1)..(n + m) BY <1>3
  <2> QED BY <1>1, <1>2, <2>1
<1>5. \A i \in 1..n : i \in 1..(n + m) /\ all[i] = events[i]
  BY <1>1, <1>2
<1>6. ASSUME Tell(known, all, n + m, p, s) PROVE Tell(known, events, n, p, s)
  <2>1. CASE s = known[p] /\ \A i \in 1..(n + m) : all[i].peer # p
    BY <1>5, <2>1 DEF Tell
  <2>2. ASSUME NEW i \in 1..(n + m), all[i].peer = p, all[i].to = s,
               \A j \in (i + 1)..(n + m) : all[j].peer # p
        PROVE  Tell(known, events, n, p, s)
    <3>1. i \in 1..n /\ events[i].peer = p /\ events[i].to = s BY <1>4, <2>2
    <3>2. \A j \in (i + 1)..n : j \in (i + 1)..(n + m) /\ j \in 1..n BY <3>1
    <3>3. \A j \in (i + 1)..n : events[j].peer # p BY <1>5, <2>2, <3>2
    <3> QED BY <3>1, <3>3 DEF Tell
  <2> QED BY <1>6, <2>1, <2>2 DEF Tell
<1>7. ASSUME Tell(known, events, n, p, s) PROVE Tell(known, all, n + m, p, s)
  <2>1. CASE s = known[p] /\ \A i \in 1..n : events[i].peer # p
    <3>1. \A i \in 1..(n + m) : all[i].peer # p BY <1>4, <2>1
    <3> QED BY <2>1, <3>1 DEF Tell
  <2>2. ASSUME NEW i \in 1..n, events[i].peer = p, events[i].to = s,
               \A j \in (i + 1)..n : events[j].peer # p
        PROVE  Tell(known, all, n + m, p, s)
    <3>1. i \in 1..(n + m) /\ all[i].peer = p /\ all[i].to = s BY <1>5, <2>2
    <3>2. ASSUME NEW j \in (i + 1)..(n + m) PROVE all[j].peer # p
      <4>1. j \in 1..(n + m) /\ (j \in 1..n => j \in (i + 1)..n) BY <3>2
      <4> QED BY <1>4, <2>2, <4>1
    <3> QED BY <3>1, <3>2 DEF Tell
  <2> QED BY <1>7, <2>1, <2>2 DEF Tell
<1> QED BY <1>2, <1>6, <1>7 DEF all

\* The only news of a peer is what the consumer knows of it afterwards.
LEMMA TellNews ==
  ASSUME NEW known, NEW events \in Seq(ChangeEvents), NEW news \in Seq(ChangeEvents),
         NEW i \in 1..Len(news), NEW p, news[i].peer = p,
         \A j \in 1..Len(news) : j # i => news[j].peer # p
  PROVE  Tell(known, events \o news, Len(events \o news), p, news[i].to)
<1> DEFINE all == events \o news
<1>1. /\ Len(events) \in Nat /\ Len(news) \in Nat /\ Len(all) = Len(events) + Len(news)
      /\ \A k \in (Len(events) + 1)..(Len(events) + Len(news)) : all[k] = news[k - Len(events)]
  OBVIOUS
<1> HIDE DEF all
<1>2. PICK n \in Nat : n = Len(events) BY <1>1
<1>3. n + i \in 1..Len(all) /\ n + i \in (n + 1)..(n + Len(news)) /\ (n + i) - n = i
  BY <1>1, <1>2
<1>4. all[n + i] = news[i] BY <1>1, <1>2, <1>3
<1>5. ASSUME NEW k \in (n + i + 1)..Len(all) PROVE all[k].peer # p
  <2>1. k \in (n + 1)..(n + Len(news)) /\ k - n \in 1..Len(news) /\ k - n # i
    BY <1>1, <1>2, <1>5
  <2> QED BY <1>1, <1>2, <2>1
<1> QED BY <1>3, <1>4, <1>5 DEF Tell, all

-----------------------------------------------------------------------------
(* The invariant *)

\* The events tell these states, and each of them something new.
Sound(known, events, states) ==
  /\ \A p \in Members : Tell(known, events, Len(events), p, states[p])
  /\ \A i \in 1..Len(events) : ~Tell(known, events, i - 1, events[i].peer, events[i].to)

\* News of a set of peers, one of each whose state changes.
Reports(news, before, after) ==
  /\ news \in Seq(ChangeEvents)
  /\ \A i, j \in 1..Len(news) : i # j => news[i].peer # news[j].peer
  /\ \A i \in 1..Len(news) : /\ news[i].to = after[news[i].peer]
                             /\ before[news[i].peer] # after[news[i].peer]
  /\ \A p \in Members : before[p] # after[p] => \E i \in 1..Len(news) : news[i].peer = p

\* Reporting every change once, in any order, keeps the events sound.
LEMMA ReportsKeepSound ==
  ASSUME NEW known, NEW events \in Seq(ChangeEvents), NEW before, NEW after, NEW news,
         Sound(known, events, before), Reports(news, before, after)
  PROVE  Sound(known, events \o news, after)
<1> DEFINE all == events \o news
<1>1. /\ news \in Seq(ChangeEvents) /\ Len(events) \in Nat /\ Len(news) \in Nat
      /\ Len(all) = Len(events) + Len(news)
      /\ \A k \in 1..Len(events) : all[k] = events[k]
      /\ \A k \in 1..Len(news) : all[Len(events) + k] = news[k]
      /\ \A k \in 1..Len(news) : news[k] \in ChangeEvents
  BY DEF Reports
<1>2. ASSUME NEW p \in Members PROVE Tell(known, all, Len(all), p, after[p])
  <2>1. CASE \E i \in 1..Len(news) : news[i].peer = p
    <3>1. PICK i \in 1..Len(news) : news[i].peer = p BY <2>1
    <3>2. \A j \in 1..Len(news) : j # i => news[j].peer # p BY <3>1 DEF Reports
    <3>3. news[i].to = after[p] BY <3>1 DEF Reports
    <3> QED BY <1>1, <3>1, <3>2, <3>3, TellNews
  <2>2. CASE ~ \E i \in 1..Len(news) : news[i].peer = p
    <3>1. after[p] = before[p] BY <2>2 DEF Reports
    <3>2. Tell(known, events, Len(events), p, before[p]) BY DEF Sound
    <3>3. Len(news) \in 0..Len(news) BY <1>1
    <3>4. Tell(known, all, Len(events) + Len(news), p, before[p])
      BY <1>1, <2>2, <3>2, <3>3, TellOthers
    <3> QED BY <1>1, <3>1, <3>4
  <2> QED BY <2>1, <2>2
<1>3. ASSUME NEW k \in 1..Len(all) PROVE ~Tell(known, all, k - 1, all[k].peer, all[k].to)
  <2>1. CASE k \in 1..Len(events)
    <3>1. k - 1 \in 0..Len(events) /\ all[k] = events[k] BY <1>1, <2>1
    <3>2. ~Tell(known, events, k - 1, events[k].peer, events[k].to) BY <2>1 DEF Sound
    <3> QED BY <1>1, <3>1, <3>2, TellPrefix
  <2>2. CASE k \notin 1..Len(events)
    <3>1. PICK i \in 1..Len(news) : k = Len(events) + i
      <4>1. k - Len(events) \in 1..Len(news) /\ k = Len(events) + (k - Len(events))
        BY <1>1, <2>2
      <4> QED BY <4>1
    <3>2. PICK p \in Members : p = news[i].peer BY <1>1 DEF ChangeEvents
    <3>3. all[k] = news[i] /\ news[i].to = after[p] /\ before[p] # after[p]
      BY <1>1, <3>1, <3>2 DEF Reports
    <3>4. i - 1 \in 0..Len(news) /\ k - 1 = Len(events) + (i - 1) BY <1>1, <3>1
    <3>5. \A j \in 1..(i - 1) : news[j].peer # p
      <4>1. \A j \in 1..(i - 1) : j \in 1..Len(news) /\ j # i BY <1>1
      <4> QED BY <3>2, <4>1 DEF Reports
    <3>6. ASSUME Tell(known, all, k - 1, p, after[p]) PROVE FALSE
      <4>1. Tell(known, events, Len(events), p, after[p])
        BY <1>1, <3>4, <3>5, <3>6, TellOthers
      <4>2. Tell(known, events, Len(events), p, before[p]) BY DEF Sound
      <4> QED BY <1>1, <3>3, <4>1, <4>2, TellUnique
    <3> QED BY <3>2, <3>3, <3>6
  <2> QED BY <2>1, <2>2
<1> QED BY <1>2, <1>3 DEF Sound

StatesOf(ps) == [p \in Members |-> ps[p].state]

PeerTypes ==
  /\ peers \in [Members -> Records] /\ told \in [Members -> PeerStates]
  /\ peerEvents \in Seq(ChangeEvents)

PeerInv ==
  /\ PeerTypes /\ Sound(told, peerEvents, StatesOf(peers))
  /\ peer_set = alive_set(peers)

LEMMA PeerInvImplies == PeerInv => EventsTellStates
BY DEF PeerInv, Sound, StatesOf, EventsTellStates

\* Nobody is known and nothing was reported.
LEMMA PeerInvInit == PeerInit => PeerInv
<1> SUFFICES ASSUME PeerInit PROVE PeerInv
  OBVIOUS
<1>1. PeerTypes BY DEF PeerInit, PeerTypes, Records, PeerStates
<1>2. Len(peerEvents) = 0 BY DEF PeerInit
<1>3. \A p \in Members : StatesOf(peers)[p] = told[p] BY DEF PeerInit, StatesOf
<1>4. Sound(told, peerEvents, StatesOf(peers)) BY <1>2, <1>3 DEF Sound, Tell
<1>5. peer_set = alive_set(peers) BY DEF PeerInit, alive_set
<1> QED BY <1>1, <1>4, <1>5 DEF PeerInv

\* A call that replaces records and reports the changes of state.
LEMMA ReportedStep ==
  ASSUME PeerInv, NEW ps \in [Members -> Records], NEW news, Refreshed(ps),
         Reports(news, StatesOf(peers), StatesOf(ps)),
         peerEvents' = peerEvents \o news, UNCHANGED told
  PROVE  PeerInv'
<1>1. news \in Seq(ChangeEvents) /\ peerEvents \in Seq(ChangeEvents)
  BY DEF Reports, PeerInv, PeerTypes
<1>2. PeerTypes' BY <1>1 DEF PeerInv, PeerTypes, Refreshed
<1>3. Sound(told, peerEvents \o news, StatesOf(ps))
  BY <1>1, ReportsKeepSound DEF PeerInv
<1> QED BY <1>2, <1>3 DEF PeerInv, Refreshed

\* The case of one peer, and of a call that changes no state.
LEMMA OneReported ==
  ASSUME PeerInv, NEW p \in Members, NEW r \in Records,
         Refreshed([peers EXCEPT ![p] = r]), UNCHANGED told,
         peerEvents' = IF r.state = peers[p].state THEN peerEvents
                       ELSE Append(peerEvents, StateChanged(p, r.state))
  PROVE  PeerInv'
<1> DEFINE ps == [peers EXCEPT ![p] = r]
<1>t. peers \in [Members -> Records] /\ peerEvents \in Seq(ChangeEvents)
  BY DEF PeerInv, PeerTypes
<1>1. ps \in [Members -> Records] BY <1>t
<1>2. \A q \in Members : StatesOf(ps)[q] = IF q = p THEN r.state ELSE StatesOf(peers)[q]
  BY <1>t DEF StatesOf
<1>3. StatesOf(peers)[p] = peers[p].state BY DEF StatesOf
<1>4. Refreshed(ps) OBVIOUS
<1> HIDE DEF ps
<1>5. CASE r.state = peers[p].state
  <2>1. Reports(<< >>, StatesOf(peers), StatesOf(ps)) BY <1>2, <1>3, <1>5 DEF Reports
  <2>2. peerEvents' = peerEvents \o << >> BY <1>t, <1>5
  <2> QED BY <1>1, <1>4, <2>1, <2>2, ReportedStep
<1>6. CASE r.state # peers[p].state
  <2> DEFINE e == StateChanged(p, r.state)
  <2>1. e \in ChangeEvents /\ e.peer = p /\ e.to = r.state
    BY DEF StateChanged, ChangeEvents, Records
  <2>2. peerEvents' = peerEvents \o <<e>> BY <1>t, <1>6, <2>1
  <2> HIDE DEF e
  <2>3. <<e>> \in Seq(ChangeEvents) /\ Len(<<e>>) = 1 /\ <<e>>[1] = e BY <2>1
  <2>4. \A i \in 1..Len(<<e>>) : i = 1 BY <2>3
  <2>5. Reports(<<e>>, StatesOf(peers), StatesOf(ps))
    BY <1>2, <1>3, <1>6, <2>1, <2>3, <2>4 DEF Reports
  <2> QED BY <1>1, <1>4, <2>2, <2>5, ReportedStep
<1> QED BY <1>5, <1>6

\* join.
LEMMA JoinKeeps == ASSUME PeerInv, NEW p \in Members, JoinPeer(p) PROVE PeerInv'
<1> DEFINE r == [state |-> "Alive", sampled |-> FALSE, silent |-> 0, suspect |-> 0]
<1>1. r \in Records /\ r.state = "Alive" BY DEF Records, PeerStates
<1>2. Refreshed([peers EXCEPT ![p] = r]) /\ UNCHANGED told BY DEF JoinPeer
<1>3. peerEvents' = IF peers[p].state = "Alive" THEN peerEvents
                    ELSE Append(peerEvents, StateChanged(p, "Alive"))
  BY DEF JoinPeer
<1> HIDE DEF r
<1>4. peerEvents' = IF r.state = peers[p].state THEN peerEvents
                    ELSE Append(peerEvents, StateChanged(p, r.state))
  BY <1>1, <1>3
<1> QED BY <1>1, <1>2, <1>4, OneReported

\* heartbeat: the state changes exactly where a suspicion is refuted.
LEMMA HeartbeatKeeps == ASSUME PeerInv, NEW p \in Members, Heartbeat(p) PROVE PeerInv'
<1> DEFINE o == peers[p]
           r == [state |-> IF o.state = "Left" THEN "Left" ELSE "Alive",
                 sampled |-> TRUE, silent |-> 0,
                 suspect |-> IF o.state = "Alive" THEN o.suspect ELSE 0]
<1>t. o \in Records BY DEF PeerInv, PeerTypes
<1>1. r \in Records BY <1>t DEF Records, PeerStates
<1>2. r.state = IF o.state = "Left" THEN "Left" ELSE "Alive" OBVIOUS
<1>3. Refreshed([peers EXCEPT ![p] = r]) /\ UNCHANGED told BY DEF Heartbeat
<1>4. peerEvents' = Refuted(p) /\ o.state # "none" BY DEF Heartbeat
<1>5. o.state \in PeerStates BY <1>t DEF Records
<1> HIDE DEF r
<1>6. peerEvents' = IF r.state = peers[p].state THEN peerEvents
                    ELSE Append(peerEvents, StateChanged(p, r.state))
  BY <1>2, <1>4, <1>5 DEF Refuted, PeerStates
<1> QED BY <1>1, <1>3, <1>6, OneReported

\* A record of which the state and the clock of the suspicion are set.
LEMMA StateSet ==
  ASSUME NEW r \in Records, NEW s \in PeerStates, NEW k \in Int
  PROVE  /\ [r EXCEPT !.state = s, !.suspect = k] \in Records
         /\ [r EXCEPT !.state = s, !.suspect = k].state = s
<1> DEFINE q == [r EXCEPT !.state = s]
<1>1. q \in Records /\ q.state = s BY DEF Records
<1> HIDE DEF q
<1>2. [q EXCEPT !.suspect = k] \in Records /\ [q EXCEPT !.suspect = k].state = s
  BY <1>1 DEF Records
<1> QED BY <1>2 DEF q

\* leave.
LEMMA LeaveKeeps == ASSUME PeerInv, NEW p \in Members, Leave(p) PROVE PeerInv'
<1> DEFINE r == [peers[p] EXCEPT !.state = "Left", !.suspect = 0]
<1>t. peers[p] \in Records /\ peers \in [Members -> Records] BY DEF PeerInv, PeerTypes
<1>1. r \in Records /\ r.state = "Left"
  <2>1. "Left" \in PeerStates /\ 0 \in Int BY DEF PeerStates
  <2> QED BY <1>t, <2>1, StateSet
<1>2. [peers EXCEPT ![p].state = "Left", ![p].suspect = 0] = [peers EXCEPT ![p] = r]
  BY <1>t DEF Records
<1>3. /\ Refreshed([peers EXCEPT ![p].state = "Left", ![p].suspect = 0])
      /\ UNCHANGED told /\ peers[p].state # "Left"
      /\ peerEvents' = Append(peerEvents, StateChanged(p, "Left"))
  BY DEF Leave
<1> HIDE DEF r
<1>4. Refreshed([peers EXCEPT ![p] = r]) BY <1>2, <1>3
<1>5. peerEvents' = IF r.state = peers[p].state THEN peerEvents
                    ELSE Append(peerEvents, StateChanged(p, r.state))
  BY <1>1, <1>3
<1> QED BY <1>1, <1>3, <1>4, <1>5, OneReported

\* Going through a finite set of ids in their order meets each of them once.
LEMMA KeyOrderComplete ==
  ASSUME NEW ps \in SUBSET Members, NEW order \in InKeyOrder(ps)
  PROVE  /\ Cardinality(ps) \in Nat /\ order \in [1..Cardinality(ps) -> ps]
         /\ \A i, j \in 1..Cardinality(ps) : i # j => order[i] # order[j]
         /\ \A p \in ps : \E i \in 1..Cardinality(ps) : order[i] = p
<1>1. IsFiniteSet(ps) /\ Cardinality(ps) \in Nat
  BY PeerPlaneAssumption, FS_Subset, FS_CardinalityType
<1>2. PICK n \in Nat : n = Cardinality(ps) BY <1>1
<1>3. order \in [1..n -> ps] /\ \A i, j \in 1..n : i < j => order[i] < order[j]
  BY <1>2 DEF InKeyOrder
<1>4. \A i \in 1..n : order[i] \in Int BY <1>3, PeerPlaneAssumption
<1>5. ASSUME NEW i \in 1..n, NEW j \in 1..n, i # j PROVE order[i] # order[j]
  <2>1. i < j \/ j < i BY <1>5
  <2> QED BY <1>3, <1>4, <2>1
<1>6. order \in Injection(1..n, ps) BY <1>3, <1>5 DEF Injection, IsInjective
<1>7. Cardinality(1..n) = n
  <2>1. 1 \in Int /\ n \in Int OBVIOUS
  <2>2. Cardinality(1..n) = IF 1 > n THEN 0 ELSE n - 1 + 1 BY <2>1, FS_Interval
  <2> QED BY <2>2
<1>8. order \in Surjection(1..n, ps)
  BY <1>1, <1>2, <1>6, <1>7, FS_Injection
<1> QED BY <1>2, <1>3, <1>5, <1>8 DEF Surjection

\* tick: one event for every peer that becomes suspected or dead.
LEMMA TickKeeps ==
  ASSUME PeerInv, NEW crossed \in SUBSET Members, TickPeers(crossed)
  PROVE  PeerInv'
<1> DEFINE suspects == {p \in crossed : peers[p].state = "Alive"}
           dead == {p \in Members : peers[p].state = "Suspect" /\ TimedOut(peers[p])}
           changed == suspects \cup dead
           after == [p \in Members |->
                       IF p \in suspects THEN [peers[p] EXCEPT !.state = "Suspect", !.suspect = 0]
                       ELSE IF p \in dead THEN [peers[p] EXCEPT !.state = "Dead"] ELSE peers[p]]
<1>t. peers \in [Members -> Records] /\ peerEvents \in Seq(ChangeEvents)
  BY DEF PeerInv, PeerTypes
<1>1. PICK order \in InKeyOrder(changed) :
        peerEvents' = peerEvents \o
          [i \in DOMAIN order |-> StateChanged(order[i], after[order[i]].state)]
  BY DEF TickPeers
<1>2. Refreshed(after) /\ UNCHANGED told BY DEF TickPeers
<1>3. ASSUME NEW p \in Members
      PROVE  /\ after[p] \in Records
             /\ after[p].state = IF p \in suspects THEN "Suspect"
                                 ELSE IF p \in dead THEN "Dead" ELSE peers[p].state
  <2>1. peers[p] \in Records BY <1>t
  <2>2. CASE p \in suspects
    <3>1. after[p] = [peers[p] EXCEPT !.state = "Suspect", !.suspect = 0] BY <2>2
    <3>2. "Suspect" \in PeerStates /\ 0 \in Int BY DEF PeerStates
    <3> HIDE DEF after
    <3>3. PICK o \in Records : o = peers[p] BY <2>1
    <3>4. /\ [o EXCEPT !.state = "Suspect", !.suspect = 0] \in Records
          /\ [o EXCEPT !.state = "Suspect", !.suspect = 0].state = "Suspect"
      BY <3>2, StateSet
    <3>5. after[p] = [o EXCEPT !.state = "Suspect", !.suspect = 0] BY <3>1, <3>3, Zenon
    <3>6. after[p] \in Records /\ after[p].state = "Suspect" BY <3>4, <3>5, Zenon
    <3> QED BY <2>2, <3>6
  <2>3. CASE p \notin suspects /\ p \in dead
    <3>1. /\ peers[p].sampled \in BOOLEAN /\ peers[p].silent \in Int /\ peers[p].suspect \in Int
          /\ after[p] = [state |-> "Dead", sampled |-> peers[p].sampled,
                         silent |-> peers[p].silent, suspect |-> peers[p].suspect]
      BY <2>1, <2>3 DEF Records
    <3> QED BY <2>3, <3>1 DEF Records, PeerStates
  <2>4. CASE p \notin suspects /\ p \notin dead BY <2>1, <2>4
  <2> QED BY <2>2, <2>3, <2>4
<1>4. after \in [Members -> Records]
  <2>1. after = [p \in Members |-> after[p]] OBVIOUS
  <2> HIDE DEF after
  <2> QED BY <1>3, <2>1
<1>5. ASSUME NEW p \in Members PROVE p \in changed <=> after[p].state # peers[p].state
  <2> HIDE DEF after
  <2> QED BY <1>3
<1>6. changed \in SUBSET Members OBVIOUS
<1> HIDE DEF changed, after
<1>7. PICK n \in Nat :
        /\ order \in [1..n -> changed]
        /\ \A i, j \in 1..n : i # j => order[i] # order[j]
        /\ \A p \in changed : \E i \in 1..n : order[i] = p
  BY <1>6, KeyOrderComplete
<1> DEFINE news == [i \in 1..n |-> StateChanged(order[i], after[order[i]].state)]
<1>8. peerEvents' = peerEvents \o news
  <2>1. DOMAIN order = 1..n BY <1>7
  <2> QED BY <1>1, <2>1
<1>9. ASSUME NEW i \in 1..n
      PROVE  /\ order[i] \in Members /\ order[i] \in changed /\ news[i] \in ChangeEvents
             /\ news[i].peer = order[i] /\ news[i].to = after[order[i]].state
  <2>1. order[i] \in Members /\ order[i] \in changed BY <1>6, <1>7
  <2>2. after[order[i]].state \in PeerStates BY <1>3, <2>1 DEF Records
  <2> QED BY <2>1, <2>2 DEF StateChanged, ChangeEvents
<1>10. news \in Seq(ChangeEvents) /\ Len(news) = n
  <2>1. news = [i \in 1..n |-> news[i]] OBVIOUS
  <2> HIDE DEF news
  <2>2. news \in [1..n -> ChangeEvents] BY <1>9, <2>1
  <2> QED BY <2>2
<1> HIDE DEF news
<1>11. \A p \in Members : /\ StatesOf(peers)[p] = peers[p].state
                          /\ StatesOf(after)[p] = after[p].state
  BY DEF StatesOf
<1>12. Reports(news, StatesOf(peers), StatesOf(after))
  <2>1. \A i, j \in 1..Len(news) : i # j => news[i].peer # news[j].peer
    BY <1>7, <1>9, <1>10
  <2>2. \A i \in 1..Len(news) : /\ news[i].to = StatesOf(after)[news[i].peer]
                                /\ StatesOf(peers)[news[i].peer] # StatesOf(after)[news[i].peer]
    BY <1>5, <1>9, <1>10, <1>11
  <2>3. ASSUME NEW p \in Members, StatesOf(peers)[p] # StatesOf(after)[p]
        PROVE  \E i \in 1..Len(news) : news[i].peer = p
    <3>1. p \in changed BY <1>5, <1>11, <2>3
    <3>2. PICK i \in 1..n : order[i] = p BY <1>7, <3>1
    <3> QED BY <1>9, <1>10, <3>2
  <2> QED BY <1>10, <2>1, <2>2, <2>3 DEF Reports
<1> QED BY <1>2, <1>4, <1>8, <1>12, ReportedStep

\* The consumer takes an event off the queue and knows what it said.
LEMMA HandleKeeps == ASSUME PeerInv, HandleEvent PROVE PeerInv'
<1>t. /\ peers \in [Members -> Records] /\ told \in [Members -> PeerStates]
      /\ peerEvents \in Seq(ChangeEvents)
  BY DEF PeerInv, PeerTypes
<1>1. /\ peerEvents # << >> /\ peerEvents' = Tail(peerEvents)
      /\ told' = [told EXCEPT ![Head(peerEvents).peer] = Head(peerEvents).to]
      /\ UNCHANGED <<peers, peer_set>>
  BY DEF HandleEvent
<1>2. PICK e \in ChangeEvents : e = Head(peerEvents) BY <1>t, <1>1
<1>3. e.peer \in Members /\ e.to \in PeerStates BY DEF ChangeEvents
<1>4. told' = [told EXCEPT ![e.peer] = e.to] BY <1>1, <1>2
<1>5. /\ Len(peerEvents) \in Nat /\ Len(peerEvents) >= 1
      /\ peerEvents' \in Seq(ChangeEvents) /\ Len(peerEvents') = Len(peerEvents) - 1
      /\ \A i \in 1..Len(peerEvents') : peerEvents'[i] = peerEvents[i + 1]
  BY <1>t, <1>1
<1>6. PeerTypes' BY <1>t, <1>1, <1>3, <1>4, <1>5 DEF PeerTypes
<1>7. ASSUME NEW n \in 0..(Len(peerEvents) - 1), NEW p \in Members, NEW s
      PROVE  Tell(told', peerEvents', n, p, s) <=> Tell(told, peerEvents, n + 1, p, s)
  <2>1. Tell([told EXCEPT ![e.peer] = e.to], Tail(peerEvents), n, p, s)
          <=> Tell(told, peerEvents, n + 1, p, s)
    BY <1>t, <1>1, <1>2, TellHandled
  <2> QED BY <1>1, <1>4, <2>1
<1>8. ASSUME NEW p \in Members
      PROVE  Tell(told', peerEvents', Len(peerEvents'), p, StatesOf(peers)[p])
  <2>1. Len(peerEvents') \in 0..(Len(peerEvents) - 1) /\ Len(peerEvents') + 1 = Len(peerEvents)
    BY <1>5
  <2>2. Tell(told, peerEvents, Len(peerEvents), p, StatesOf(peers)[p]) BY DEF PeerInv, Sound
  <2> QED BY <1>7, <2>1, <2>2
<1>9. ASSUME NEW i \in 1..Len(peerEvents')
      PROVE  ~Tell(told', peerEvents', i - 1, peerEvents'[i].peer, peerEvents'[i].to)
  <2>1. /\ i - 1 \in 0..(Len(peerEvents) - 1) /\ (i - 1) + 1 = i
        /\ i + 1 \in 1..Len(peerEvents) /\ (i + 1) - 1 = i
        /\ peerEvents'[i] = peerEvents[i + 1]
    BY <1>5
  <2>2. peerEvents[i + 1] \in ChangeEvents BY <1>t, <2>1
  <2>3. peerEvents[i + 1].peer \in Members BY <2>2 DEF ChangeEvents
  <2>4. ~Tell(told, peerEvents, i, peerEvents[i + 1].peer, peerEvents[i + 1].to)
    BY <2>1 DEF PeerInv, Sound
  <2> QED BY <1>7, <2>1, <2>3, <2>4
<1>10. Sound(told, peerEvents, StatesOf(peers))'
  BY <1>1, <1>8, <1>9 DEF Sound
<1> QED BY <1>1, <1>6, <1>10 DEF PeerInv

\* Time passes: the clocks of the records move, no state does.
LEMMA ElapseKeeps == ASSUME PeerInv, Elapse PROVE PeerInv'
<1>t. peers \in [Members -> Records] BY DEF PeerInv, PeerTypes
<1>1. UNCHANGED <<peer_set, peerEvents, told>> BY DEF Elapse
<1>2. ASSUME NEW p \in Members PROVE peers'[p] \in Records /\ peers'[p].state = peers[p].state
  <2>1. peers[p] \in Records BY <1>t
  <2>2. PICK silent \in Int, suspect \in Int :
          peers'[p] = [peers[p] EXCEPT !.silent = silent, !.suspect = suspect]
    <3> DEFINE silent == IF peers[p].state = "none" THEN 0 ELSE UpTo(peers[p].silent + 1, SurelySuspect)
               suspect == IF peers[p].state = "Suspect"
                          THEN UpTo(peers[p].suspect + 1, suspect_timeout) ELSE peers[p].suspect
    <3>1. silent \in Int /\ suspect \in Int
      BY <2>1, PeerPlaneAssumption DEF Records, UpTo
    <3>2. peers'[p] = [peers[p] EXCEPT !.silent = silent, !.suspect = suspect]
      BY <2>1 DEF Elapse, Records
    <3> HIDE DEF silent, suspect
    <3> QED BY <3>1, <3>2
  <2>3. /\ peers[p].state \in PeerStates /\ peers[p].sampled \in BOOLEAN
        /\ peers'[p] = [state |-> peers[p].state, sampled |-> peers[p].sampled,
                        silent |-> silent, suspect |-> suspect]
    BY <2>1, <2>2 DEF Records
  <2> QED BY <2>3 DEF Records
<1>3. peers' \in [Members -> Records]
  <2>1. peers' = [p \in Members |-> peers'[p]] BY DEF Elapse
  <2> QED BY <1>2, <2>1
<1>4. StatesOf(peers') = StatesOf(peers) BY <1>2 DEF StatesOf
<1>5. alive_set(peers') = alive_set(peers) BY <1>2 DEF alive_set
<1> QED BY <1>1, <1>3, <1>4, <1>5 DEF PeerInv, PeerTypes

\* Every step keeps the events sound.
LEMMA PeerStep == PeerInv /\ [PeerNext]_peerVars => PeerInv'
<1> SUFFICES ASSUME PeerInv, [PeerNext]_peerVars PROVE PeerInv'
  OBVIOUS
<1>1. ASSUME NEW p \in Members, JoinPeer(p) PROVE PeerInv' BY <1>1, JoinKeeps
<1>2. ASSUME NEW p \in Members, Heartbeat(p) PROVE PeerInv' BY <1>2, HeartbeatKeeps
<1>3. ASSUME NEW p \in Members, Leave(p) PROVE PeerInv' BY <1>3, LeaveKeeps
<1>4. CASE MembershipTick
  <2>1. PICK crossed \in SUBSET {p \in Members : MayCross(peers[p])} : TickPeers(crossed)
    BY <1>4 DEF MembershipTick
  <2>2. crossed \in SUBSET Members OBVIOUS
  <2> QED BY <2>1, <2>2, TickKeeps
<1>5. CASE Elapse BY <1>5, ElapseKeeps
<1>6. CASE HandleEvent BY <1>6, HandleKeeps
<1>7. CASE UNCHANGED <<peers, peer_set, peerEvents, told>>
  BY <1>7 DEF PeerInv, PeerTypes
<1>8. ASSUME NEW p \in Members, Register(p) \/ Deregister(p) \/ Stop(p) \/ Restart(p)
      PROVE  UNCHANGED <<peers, peer_set, peerEvents, told>>
  BY <1>8 DEF Register, Deregister, Stop, Restart
<1> QED BY <1>1, <1>2, <1>3, <1>4, <1>5, <1>6, <1>7, <1>8 DEF PeerNext, peerVars

\* EventsTellStates for every set of peers, every decision of the detector and
\* every backlog: a consumer of the PeerChangeEvents misses no state and hears
\* none twice, and the PeerSet cell shows the peers alive.
THEOREM ConsumersKnowStates == PeerSpec => []EventsTellStates
<1> QED BY PeerInvInit, PeerStep, PeerInvImplies, PTL DEF PeerSpec

-----------------------------------------------------------------------------
(* The relay link: operations, windows and their order *)

\* What a window, and a list of windows, may hold.
Op == RelayKeys \X (1..MaxSent)
Line == Seq(Op)
Windows == Seq(Line)

\* Every operation of v was sent before every one of w.
Ahead(k, v, w) == \A m \in NumbersIn(k, v), n \in NumbersIn(k, w) : m < n

\* What is common to a window list that is cut or joined.
Joined(k, v, w, vw) ==
  /\ InOrder(k, v) /\ InOrder(k, w) /\ Ahead(k, v, w)
  /\ InOrder(k, vw) /\ NumbersIn(k, vw) = NumbersIn(k, v) \cup NumbersIn(k, w)

\* An operation of key k in some window is one of the numbers of k there.
LEMMA NumberOf ==
  ASSUME NEW k, NEW ws \in Windows, NEW i \in DOMAIN ws, NEW x \in DOMAIN ws[i], ws[i][x][1] = k
  PROVE  /\ ws[i][x] = <<k, ws[i][x][2]>>
         /\ ws[i][x][2] \in 1..MaxSent /\ ws[i][x][2] \in NumbersIn(k, ws)
<1>1. ws[i] \in Line BY DEF Windows
<1>2. ws[i][x] \in Op BY <1>1 DEF Line
<1>3. ws[i][x] = <<k, ws[i][x][2]>> /\ ws[i][x][2] \in 1..MaxSent BY <1>2 DEF Op
<1> QED BY <1>3 DEF NumbersIn

\* A concatenation, seen through its places.
Catenates(v, w, vw) ==
  /\ DOMAIN vw = 1..(Len(v) + Len(w))
  /\ \A i \in 1..Len(v) : vw[i] = v[i]
  /\ \A i \in 1..Len(w) : vw[Len(v) + i] = w[i]

\* Concatenation of two sequences, place by place.
LEMMA ConcatCatenates ==
  ASSUME NEW S, NEW v \in Seq(S), NEW w \in Seq(S)
  PROVE  Catenates(v, w, v \o w) /\ v \o w \in Seq(S)
  BY DEF Catenates

\* A sequence cut after n places is the concatenation of its two parts.
LEMMA SplitCatenates ==
  ASSUME NEW S, NEW ws \in Seq(S), NEW n \in 0..Len(ws)
  PROVE  /\ SubSeq(ws, 1, n) \in Seq(S) /\ SubSeq(ws, n + 1, Len(ws)) \in Seq(S)
         /\ Len(SubSeq(ws, 1, n)) = n /\ Len(SubSeq(ws, n + 1, Len(ws))) = Len(ws) - n
         /\ Catenates(SubSeq(ws, 1, n), SubSeq(ws, n + 1, Len(ws)), ws)
<1>1. /\ SubSeq(ws, 1, n) \in Seq(S) /\ Len(SubSeq(ws, 1, n)) = n
      /\ \A i \in 1..n : SubSeq(ws, 1, n)[i] = ws[i]
  OBVIOUS
<1>2. /\ SubSeq(ws, n + 1, Len(ws)) \in Seq(S) /\ Len(SubSeq(ws, n + 1, Len(ws))) = Len(ws) - n
      /\ \A i \in 1..(Len(ws) - n) : SubSeq(ws, n + 1, Len(ws))[i] = ws[n + i]
  OBVIOUS
<1>3. PICK h : h = SubSeq(ws, 1, n) OBVIOUS
<1>4. PICK t : t = SubSeq(ws, n + 1, Len(ws)) OBVIOUS
<1>5. n + (Len(ws) - n) = Len(ws) OBVIOUS
<1>6. /\ Len(h) = n /\ Len(t) = Len(ws) - n /\ DOMAIN ws = 1..(Len(h) + Len(t))
      /\ \A i \in 1..n : h[i] = ws[i]
      /\ \A i \in 1..(Len(ws) - n) : t[i] = ws[n + i]
  <2>1. Len(h) = n /\ \A i \in 1..n : h[i] = ws[i] BY <1>1, <1>3
  <2>2. Len(t) = Len(ws) - n /\ \A i \in 1..(Len(ws) - n) : t[i] = ws[n + i] BY <1>2, <1>4
  <2>3. DOMAIN ws = 1..Len(ws) OBVIOUS
  <2> QED BY <1>5, <2>1, <2>2, <2>3
<1>7. Catenates(h, t, ws) BY <1>6 DEF Catenates
<1> QED BY <1>1, <1>2, <1>3, <1>4, <1>7

\* A list of windows holds the numbers of its two parts and no other.
LEMMA CatenatedNumbers ==
  ASSUME NEW k, NEW v \in Windows, NEW w \in Windows, NEW vw \in Windows, Catenates(v, w, vw)
  PROVE  NumbersIn(k, vw) = NumbersIn(k, v) \cup NumbersIn(k, w)
<1>0. /\ DOMAIN v = 1..Len(v) /\ DOMAIN w = 1..Len(w) /\ Len(v) \in Nat /\ Len(w) \in Nat
      /\ DOMAIN vw = 1..(Len(v) + Len(w))
  BY DEF Windows, Catenates
<1>1. ASSUME NEW n \in NumbersIn(k, vw) PROVE n \in NumbersIn(k, v) \cup NumbersIn(k, w)
  <2>1. PICK i \in DOMAIN vw : \E x \in DOMAIN vw[i] : vw[i][x] = <<k, n>>
    BY <1>1 DEF NumbersIn
  <2>2. n \in 1..MaxSent BY <1>1 DEF NumbersIn
  <2>3. CASE i <= Len(v) BY <1>0, <2>1, <2>2, <2>3 DEF NumbersIn, Catenates
  <2>4. CASE i > Len(v)
    <3>1. i - Len(v) \in DOMAIN w /\ i = Len(v) + (i - Len(v)) BY <1>0, <2>4
    <3>2. vw[i] = w[i - Len(v)] BY <1>0, <3>1 DEF Catenates
    <3> QED BY <2>1, <2>2, <3>1, <3>2 DEF NumbersIn
  <2> QED BY <1>0, <2>3, <2>4
<1>2. ASSUME NEW n \in NumbersIn(k, v) PROVE n \in NumbersIn(k, vw)
  <2>1. PICK i \in DOMAIN v : \E x \in DOMAIN v[i] : v[i][x] = <<k, n>>
    BY <1>2 DEF NumbersIn
  <2>2. i \in DOMAIN vw /\ vw[i] = v[i] BY <1>0 DEF Catenates
  <2> QED BY <1>2, <2>1, <2>2 DEF NumbersIn
<1>3. ASSUME NEW n \in NumbersIn(k, w) PROVE n \in NumbersIn(k, vw)
  <2>1. PICK i \in DOMAIN w : \E x \in DOMAIN w[i] : w[i][x] = <<k, n>>
    BY <1>3 DEF NumbersIn
  <2>2. Len(v) + i \in DOMAIN vw /\ vw[Len(v) + i] = w[i] BY <1>0 DEF Catenates
  <2> QED BY <1>3, <2>1, <2>2 DEF NumbersIn
<1> QED BY <1>1, <1>2, <1>3

\* Windows that are put behind older ones stay in order.
LEMMA CatenatedInOrder ==
  ASSUME NEW k, NEW v \in Windows, NEW w \in Windows, NEW vw \in Windows, Catenates(v, w, vw),
         InOrder(k, v), InOrder(k, w), Ahead(k, v, w)
  PROVE  InOrder(k, vw)
<1>0. /\ DOMAIN v = 1..Len(v) /\ DOMAIN w = 1..Len(w) /\ Len(v) \in Nat /\ Len(w) \in Nat
      /\ DOMAIN vw = 1..(Len(v) + Len(w))
  BY DEF Windows, Catenates
<1> SUFFICES ASSUME NEW i \in DOMAIN vw, NEW j \in DOMAIN vw,
                    NEW x \in DOMAIN vw[i], NEW y \in DOMAIN vw[j],
                    vw[i][x][1] = k, vw[j][y][1] = k, i < j \/ (i = j /\ x < y)
             PROVE  vw[i][x][2] < vw[j][y][2]
  BY DEF InOrder
<1>1. CASE i <= Len(v) /\ j <= Len(v)
  <2>1. i \in DOMAIN v /\ j \in DOMAIN v /\ vw[i] = v[i] /\ vw[j] = v[j]
    BY <1>0, <1>1 DEF Catenates
  <2> QED BY <2>1 DEF InOrder
<1>2. CASE i <= Len(v) /\ j > Len(v)
  <2>1. i \in DOMAIN v /\ vw[i] = v[i] BY <1>0, <1>2 DEF Catenates
  <2>2. j - Len(v) \in DOMAIN w /\ j = Len(v) + (j - Len(v)) BY <1>0, <1>2
  <2>3. vw[j] = w[j - Len(v)] BY <1>0, <2>2 DEF Catenates
  <2>4. vw[i][x][2] \in NumbersIn(k, v) BY <2>1, NumberOf
  <2>5. vw[j][y][2] \in NumbersIn(k, w) BY <2>2, <2>3, NumberOf
  <2> QED BY <2>4, <2>5 DEF Ahead
<1>3. CASE i > Len(v) /\ j > Len(v)
  <2>1. /\ i - Len(v) \in DOMAIN w /\ i = Len(v) + (i - Len(v))
        /\ j - Len(v) \in DOMAIN w /\ j = Len(v) + (j - Len(v))
    BY <1>0, <1>3
  <2>2. vw[i] = w[i - Len(v)] /\ vw[j] = w[j - Len(v)] BY <1>0, <2>1 DEF Catenates
  <2>3. i - Len(v) < j - Len(v) \/ (i - Len(v) = j - Len(v) /\ x < y) BY <1>0
  <2> QED BY <2>1, <2>2, <2>3 DEF InOrder
<1> QED BY <1>0, <1>1, <1>2, <1>3

\* And a list that is cut in two is in order on both sides of the cut.
LEMMA CutInOrder ==
  ASSUME NEW k, NEW v \in Windows, NEW w \in Windows, NEW vw \in Windows, Catenates(v, w, vw),
         InOrder(k, vw)
  PROVE  InOrder(k, v) /\ InOrder(k, w) /\ Ahead(k, v, w)
<1>0. /\ DOMAIN v = 1..Len(v) /\ DOMAIN w = 1..Len(w) /\ Len(v) \in Nat /\ Len(w) \in Nat
      /\ DOMAIN vw = 1..(Len(v) + Len(w))
  BY DEF Windows, Catenates
<1>1. \A i \in DOMAIN v : i \in DOMAIN vw /\ vw[i] = v[i] BY <1>0 DEF Catenates
<1>2. \A i \in DOMAIN w : Len(v) + i \in DOMAIN vw /\ vw[Len(v) + i] = w[i] BY <1>0 DEF Catenates
<1>3. InOrder(k, v) BY <1>1 DEF InOrder
<1>4. InOrder(k, w)
  <2> SUFFICES ASSUME NEW i \in DOMAIN w, NEW j \in DOMAIN w, NEW x \in DOMAIN w[i],
                      NEW y \in DOMAIN w[j],
                      w[i][x][1] = k, w[j][y][1] = k, i < j \/ (i = j /\ x < y)
               PROVE  w[i][x][2] < w[j][y][2]
    BY DEF InOrder
  <2>1. Len(v) + i < Len(v) + j \/ (Len(v) + i = Len(v) + j /\ x < y) BY <1>0
  <2> QED BY <1>2, <2>1 DEF InOrder
<1>5. ASSUME NEW m \in NumbersIn(k, v), NEW n \in NumbersIn(k, w) PROVE m < n
  <2>1. PICK i \in DOMAIN v : \E x \in DOMAIN v[i] : v[i][x] = <<k, m>> BY DEF NumbersIn
  <2>2. PICK j \in DOMAIN w : \E y \in DOMAIN w[j] : w[j][y] = <<k, n>> BY DEF NumbersIn
  <2>3. PICK x \in DOMAIN v[i] : v[i][x] = <<k, m>> BY <2>1
  <2>4. PICK y \in DOMAIN w[j] : w[j][y] = <<k, n>> BY <2>2
  <2>5. i < Len(v) + j BY <1>0
  <2>6. /\ vw[i][x] = <<k, m>> /\ x \in DOMAIN vw[i] /\ i \in DOMAIN vw
        /\ vw[Len(v) + j][y] = <<k, n>> /\ y \in DOMAIN vw[Len(v) + j] /\ Len(v) + j \in DOMAIN vw
    BY <1>1, <1>2, <2>3, <2>4
  <2>7. vw[i][x][2] < vw[Len(v) + j][y][2] BY <2>5, <2>6 DEF InOrder
  <2> QED BY <2>6, <2>7
<1> QED BY <1>3, <1>4, <1>5 DEF Ahead

\* One window after the other is as good as one window that holds both.
LEMMA MergedLine ==
  ASSUME NEW k, NEW v \in Line, NEW w \in Line,
         InOrder(k, <<v>>), InOrder(k, <<w>>), Ahead(k, <<v>>, <<w>>)
  PROVE  /\ v \o w \in Line /\ InOrder(k, <<v \o w>>)
         /\ NumbersIn(k, <<v \o w>>) = NumbersIn(k, <<v>>) \cup NumbersIn(k, <<w>>)
<1>1. PICK vw : vw = v \o w OBVIOUS
<1>2. vw \in Line /\ Catenates(v, w, vw) BY <1>1, ConcatCatenates DEF Line
<1>3. /\ DOMAIN v = 1..Len(v) /\ DOMAIN w = 1..Len(w) /\ Len(v) \in Nat /\ Len(w) \in Nat
      /\ DOMAIN vw = 1..(Len(v) + Len(w))
  BY <1>2 DEF Line, Catenates
<1>4. /\ DOMAIN <<v>> = {1} /\ <<v>>[1] = v /\ DOMAIN <<w>> = {1} /\ <<w>>[1] = w
      /\ DOMAIN <<vw>> = {1} /\ <<vw>>[1] = vw
      /\ <<v>> \in Windows /\ <<w>> \in Windows
  BY <1>2 DEF Windows
<1>5. NumbersIn(k, <<vw>>) = {n \in 1..MaxSent : \E x \in DOMAIN vw : vw[x] = <<k, n>>}
  BY <1>4 DEF NumbersIn
<1>6. NumbersIn(k, <<v>>) = {n \in 1..MaxSent : \E x \in DOMAIN v : v[x] = <<k, n>>}
  BY <1>4 DEF NumbersIn
<1>7. NumbersIn(k, <<w>>) = {n \in 1..MaxSent : \E x \in DOMAIN w : w[x] = <<k, n>>}
  BY <1>4 DEF NumbersIn
<1>8. \A x \in DOMAIN v : x \in DOMAIN vw /\ vw[x] = v[x] BY <1>2, <1>3 DEF Catenates
<1>9. \A x \in DOMAIN w : Len(v) + x \in DOMAIN vw /\ vw[Len(v) + x] = w[x]
  BY <1>2, <1>3 DEF Catenates
<1>10. \A x \in DOMAIN vw : \/ x \in DOMAIN v
                            \/ x - Len(v) \in DOMAIN w /\ x = Len(v) + (x - Len(v))
  BY <1>3
<1>11. NumbersIn(k, <<vw>>) = NumbersIn(k, <<v>>) \cup NumbersIn(k, <<w>>)
  <2>1. ASSUME NEW n \in NumbersIn(k, <<vw>>)
        PROVE  n \in NumbersIn(k, <<v>>) \cup NumbersIn(k, <<w>>)
    <3>1. PICK x \in DOMAIN vw : vw[x] = <<k, n>> BY <1>5
    <3>2. CASE x \in DOMAIN v BY <1>5, <1>6, <1>8, <3>1, <3>2
    <3>3. CASE x - Len(v) \in DOMAIN w /\ x = Len(v) + (x - Len(v))
      BY <1>5, <1>7, <1>9, <3>1, <3>3
    <3> QED BY <1>10, <3>2, <3>3
  <2>2. NumbersIn(k, <<v>>) \subseteq NumbersIn(k, <<vw>>) BY <1>5, <1>6, <1>8
  <2>3. NumbersIn(k, <<w>>) \subseteq NumbersIn(k, <<vw>>)
    <3> SUFFICES ASSUME NEW n \in NumbersIn(k, <<w>>) PROVE n \in NumbersIn(k, <<vw>>)
      OBVIOUS
    <3>1. PICK x \in DOMAIN w : w[x] = <<k, n>> BY <1>7
    <3>2. Len(v) + x \in DOMAIN vw /\ vw[Len(v) + x] = <<k, n>> BY <1>9, <3>1
    <3> QED BY <1>5, <1>7, <3>2
  <2> QED BY <2>1, <2>2, <2>3
<1>12. InOrder(k, <<vw>>)
  <2> SUFFICES ASSUME NEW x \in DOMAIN vw, NEW y \in DOMAIN vw,
                      vw[x][1] = k, vw[y][1] = k, x < y
               PROVE  vw[x][2] < vw[y][2]
    BY <1>4 DEF InOrder
  <2>1. CASE x \in DOMAIN v /\ y \in DOMAIN v
    <3>1. vw[x] = v[x] /\ vw[y] = v[y] BY <1>8, <2>1
    <3>2. \A a, b \in DOMAIN v : v[a][1] = k /\ v[b][1] = k /\ a < b => v[a][2] < v[b][2]
      BY <1>4 DEF InOrder
    <3> QED BY <2>1, <3>1, <3>2
  <2>2. CASE x \in DOMAIN v /\ y - Len(v) \in DOMAIN w /\ y = Len(v) + (y - Len(v))
    <3>1. vw[x] = v[x] /\ vw[y] = w[y - Len(v)] BY <1>8, <1>9, <2>2
    <3>2. v[x][2] \in NumbersIn(k, <<v>>) BY <1>4, <2>2, <3>1, NumberOf
    <3>3. w[y - Len(v)][2] \in NumbersIn(k, <<w>>) BY <1>4, <2>2, <3>1, NumberOf
    <3> QED BY <3>1, <3>2, <3>3 DEF Ahead
  <2>3. CASE /\ x - Len(v) \in DOMAIN w /\ x = Len(v) + (x - Len(v))
             /\ y - Len(v) \in DOMAIN w /\ y = Len(v) + (y - Len(v))
    <3>1. vw[x] = w[x - Len(v)] /\ vw[y] = w[y - Len(v)] BY <1>9, <2>3
    <3>2. \A a, b \in DOMAIN w : w[a][1] = k /\ w[b][1] = k /\ a < b => w[a][2] < w[b][2]
      BY <1>4 DEF InOrder
    <3>3. x - Len(v) < y - Len(v) BY <1>3
    <3> QED BY <2>3, <3>1, <3>2, <3>3
  <2>4. ~(y \in DOMAIN v /\ x - Len(v) \in DOMAIN w) BY <1>3
  <2> QED BY <1>10, <2>1, <2>2, <2>3, <2>4
<1> QED BY <1>1, <1>2, <1>11, <1>12

\* A window put behind all others: the order holds and its numbers are added.
LEMMA Appended ==
  ASSUME NEW k, NEW v \in Windows, NEW w \in Line,
         InOrder(k, v), InOrder(k, <<w>>), Ahead(k, v, <<w>>)
  PROVE  /\ Append(v, w) \in Windows /\ InOrder(k, Append(v, w))
         /\ NumbersIn(k, Append(v, w)) = NumbersIn(k, v) \cup NumbersIn(k, <<w>>)
<1>1. PICK u : u = Append(v, w) OBVIOUS
<1>2. PICK o : o = <<w>> OBVIOUS
<1>3. u \in Windows /\ o \in Windows /\ Len(o) = 1 /\ o[1] = w BY <1>1, <1>2 DEF Windows
<1>4. Catenates(v, o, u) BY <1>1, <1>3 DEF Windows, Catenates
<1> QED BY <1>1, <1>2, <1>3, <1>4, CatenatedNumbers, CatenatedInOrder

\* CompactOnWrite: u is v, its last window grown by w.
Grown(v, w, u) ==
  /\ v # <<>> /\ u \in Seq(Line) /\ Len(u) = Len(v) /\ u[Len(v)] = v[Len(v)] \o w
  /\ \A i \in 1..(Len(v) - 1) : u[i] = v[i]

\* A window put behind the others by the open page: the order holds.
LEMMA Extended ==
  ASSUME NEW k, NEW v \in Windows, NEW w \in Line,
         InOrder(k, v), InOrder(k, <<w>>), Ahead(k, v, <<w>>), NEW u, Grown(v, w, u)
  PROVE  /\ u \in Windows /\ InOrder(k, u)
         /\ NumbersIn(k, u) = NumbersIn(k, v) \cup NumbersIn(k, <<w>>)
<1>1. Len(v) \in Nat \ {0} /\ Len(v) - 1 \in 0..Len(v) /\ Len(v) \in DOMAIN v
      /\ v[Len(v)] \in Line
  BY DEF Windows, Grown
<1>2. PICK h : h = SubSeq(v, 1, Len(v) - 1) OBVIOUS
<1>3. PICK last : last = v[Len(v)] OBVIOUS
<1>4. PICK o : o = <<last>> OBVIOUS
<1>5. h \in Windows /\ Len(h) = Len(v) - 1 /\ \A i \in 1..(Len(v) - 1) : h[i] = v[i]
  BY <1>1, <1>2 DEF Windows
<1>6. last \in Line /\ o \in Windows /\ Len(o) = 1 /\ o[1] = last BY <1>1, <1>3, <1>4 DEF Windows
<1>7. Catenates(h, o, v) BY <1>1, <1>3, <1>5, <1>6 DEF Windows, Catenates
<1>8. /\ InOrder(k, h) /\ InOrder(k, o) /\ Ahead(k, h, o)
      /\ NumbersIn(k, v) = NumbersIn(k, h) \cup NumbersIn(k, o)
  <2>1. InOrder(k, h) /\ InOrder(k, o) /\ Ahead(k, h, o) BY <1>5, <1>6, <1>7, CutInOrder
  <2>2. NumbersIn(k, v) = NumbersIn(k, h) \cup NumbersIn(k, o)
    BY <1>5, <1>6, <1>7, CatenatedNumbers
  <2> QED BY <2>1, <2>2
<1>9. PICK both : both = last \o w OBVIOUS
<1>10. Ahead(k, o, <<w>>) BY <1>8 DEF Ahead
<1>11. /\ both \in Line /\ InOrder(k, <<both>>)
       /\ NumbersIn(k, <<both>>) = NumbersIn(k, o) \cup NumbersIn(k, <<w>>)
  BY <1>4, <1>6, <1>8, <1>9, <1>10, MergedLine
<1>12. Ahead(k, h, <<both>>) BY <1>8, <1>11 DEF Ahead
<1>13. /\ Append(h, both) \in Windows /\ InOrder(k, Append(h, both))
       /\ NumbersIn(k, Append(h, both)) = NumbersIn(k, h) \cup NumbersIn(k, <<both>>)
  BY <1>5, <1>8, <1>11, <1>12, Appended
<1>14. u = Append(h, both)
  <2>1. PICK a : a = Append(h, both) OBVIOUS
  <2>2. /\ a \in Seq(Line) /\ Len(a) = Len(h) + 1 /\ a[Len(h) + 1] = both
        /\ \A i \in 1..Len(h) : a[i] = h[i]
    BY <1>5, <1>11, <2>1 DEF Windows
  <2>3. /\ Len(a) = Len(v) /\ a[Len(v)] = both /\ \A i \in 1..(Len(v) - 1) : a[i] = v[i]
    BY <1>1, <1>5, <2>2
  <2>4. u \in Seq(Line) /\ Len(u) = Len(v) /\ u[Len(v)] = both
        /\ \A i \in 1..(Len(v) - 1) : u[i] = v[i]
    BY <1>3, <1>9 DEF Grown
  <2>5. \A i \in 1..Len(v) : i = Len(v) \/ i \in 1..(Len(v) - 1) BY <1>1
  <2>6. \A i \in 1..Len(u) : u[i] = a[i] BY <2>3, <2>4, <2>5
  <2>7. u = a BY <2>2, <2>3, <2>4, <2>6, SeqEqual
  <2> QED BY <2>1, <2>7
<1> QED BY <1>8, <1>11, <1>13, <1>14

-----------------------------------------------------------------------------
(* The stages *)

\* A frame carries operations of its key.
Framed == [key : RelayKeys, ops : Line]
OfItsKey(f) == \A x \in DOMAIN f.ops : f.ops[x][1] = f.key

RelayTypes ==
  /\ sent \in [RelayKeys -> 0..MaxSent]
  /\ shards \in [RelayKeys -> [head : Line, pending : Nat, windowed : Nat, due : BOOLEAN]]
  /\ \A k \in RelayKeys : \A x \in DOMAIN shards[k].head : shards[k].head[x][1] = k
  /\ frames \in Seq(Framed) /\ \A i \in DOMAIN frames : OfItsKey(frames[i])
  /\ ranked \in Seq(Framed) /\ \A i \in DOMAIN ranked : OfItsKey(ranked[i])
  /\ inbox \in Line
  /\ spill \in [pages : Windows, open_fill : Nat, acked : Nat]

\* The egress has delivered the pages up to its cursor, and acknowledged no
\* other.
Delivered ==
  /\ egressCursor \in Nat /\ spill.acked <= egressCursor /\ egressCursor <= Len(spill.pages)
  /\ PagesSealed => \A i \in 1..egressCursor : \A x \in DOMAIN spill.pages[i] :
                       spill.pages[i][x] \in downstream

\* The five stages u, i, r, f, h of key k, of which n operations were sent.
LinedUp(k, u, i, r, f, h) ==
  /\ InOrder(k, u) /\ InOrder(k, i) /\ InOrder(k, r) /\ InOrder(k, f) /\ InOrder(k, h)
  /\ Ahead(k, u, i) /\ Ahead(k, u, r) /\ Ahead(k, u, f) /\ Ahead(k, u, h)
  /\ Ahead(k, i, r) /\ Ahead(k, i, f) /\ Ahead(k, i, h)
  /\ Ahead(k, r, f) /\ Ahead(k, r, h) /\ Ahead(k, f, h)

Everything(k, u, i, r, f, h) ==
  NumbersIn(k, u) \cup NumbersIn(k, i) \cup NumbersIn(k, r) \cup NumbersIn(k, f) \cup NumbersIn(k, h)

Complete(n, lossless, all) ==
  all \subseteq 1..n /\ (lossless => \A m \in all : m..n \subseteq all)

Unacked == SubSeq(spill.pages, spill.acked + 1, Len(spill.pages))

Rest(k) == Everything(k, Unacked, <<inbox>>, Ops(ranked), Ops(frames), <<shards[k].head>>)

KeyKept(k) ==
  /\ LinedUp(k, Unacked, <<inbox>>, Ops(ranked), Ops(frames), <<shards[k].head>>)
  /\ Complete(sent[k], Lossless, Rest(k))
  /\ Lossless /\ PagesSealed => \A n \in 1..sent[k] : <<k, n>> \in downstream \/ n \in Rest(k)

\* The inductive invariant: the stages of each key, from the pages back to the
\* shard, and the cursor of the egress over the pages it delivered.
RelayInv == RelayTypes /\ Delivered /\ \A k \in RelayKeys : KeyKept(k)

\* The stages of the model under the names the invariant uses.
LEMMA StagesAre ==
  ASSUME NEW k \in RelayKeys
  PROVE  /\ Stages(k)[1] = Unacked /\ Stages(k)[2] = <<inbox>> /\ Stages(k)[3] = Ops(ranked)
         /\ Stages(k)[4] = Ops(frames) /\ Stages(k)[5] = <<shards[k].head>>
         /\ Underway(k) = Rest(k)
<1>1. /\ Stages(k)[1] = Unacked /\ Stages(k)[2] = <<inbox>> /\ Stages(k)[3] = Ops(ranked)
      /\ Stages(k)[4] = Ops(frames) /\ Stages(k)[5] = <<shards[k].head>>
  BY DEF Stages, Unacked
<1>2. 1..5 = {1, 2, 3, 4, 5} OBVIOUS
<1>3. ASSUME NEW n PROVE n \in Underway(k) <=> \E s \in {1, 2, 3, 4, 5} : n \in NumbersIn(k, Stages(k)[s])
  BY <1>2 DEF Underway
<1>4. ASSUME NEW n PROVE n \in Underway(k) <=> n \in Rest(k)
  BY <1>1, <1>3 DEF Rest, Everything
<1> QED BY <1>1, <1>4

\* The inductive invariant says all that the runs check.
LEMMA RelayInvImplies == RelayInv => RelayKeeps
<1> SUFFICES ASSUME RelayInv PROVE RelayKeeps OBVIOUS
<1>1. ASSUME NEW k \in RelayKeys
      PROVE  /\ \A s \in 1..5 : InOrder(k, Stages(k)[s])
             /\ \A s, t \in 1..5 : s < t => Ahead(k, Stages(k)[s], Stages(k)[t])
             /\ Underway(k) \subseteq 1..sent[k]
             /\ Lossless => \A n \in Underway(k) : n..sent[k] \subseteq Underway(k)
             /\ Lossless /\ PagesSealed => \A n \in 1..sent[k] :
                                              <<k, n>> \in downstream \/ n \in Underway(k)
  <2>1. KeyKept(k) BY DEF RelayInv
  <2>2. \A s \in 1..5 : s = 1 \/ s = 2 \/ s = 3 \/ s = 4 \/ s = 5 OBVIOUS
  <2>3. \A s \in 1..5 : InOrder(k, Stages(k)[s]) BY <2>1, <2>2, StagesAre DEF KeyKept, LinedUp
  <2>4. ASSUME NEW s \in 1..5, NEW t \in 1..5, s < t PROVE Ahead(k, Stages(k)[s], Stages(k)[t])
    BY <2>1, <2>2, <2>4, StagesAre DEF KeyKept, LinedUp
  <2> QED BY <2>1, <2>3, <2>4, StagesAre DEF KeyKept, Complete
<1> QED BY <1>1 DEF RelayKeeps, RelayInOrder, SpillLossless, Ahead

\* An empty link keeps everything.
LEMMA RelayInvInit == RelayInit => RelayInv
<1> SUFFICES ASSUME RelayInit PROVE RelayInv OBVIOUS
<1>1. /\ <<>> \in Line /\ <<>> \in Windows /\ <<>> \in Seq(Framed) BY DEF Line, Windows
<1>2. /\ inbox = <<>> /\ frames = <<>> /\ ranked = <<>>
      /\ spill = [pages |-> <<>>, open_fill |-> 0, acked |-> 0]
      /\ sent = [k \in RelayKeys |-> 0] /\ egressCursor = 0
      /\ shards = [k \in RelayKeys |-> [head |-> <<>>, pending |-> 0, windowed |-> 0, due |-> FALSE]]
  BY DEF RelayInit
<1>3. MaxSent \in Nat BY RelayLinkAssumption
<1>4. RelayTypes BY <1>1, <1>2, <1>3 DEF RelayTypes
<1>5. Delivered BY <1>2 DEF Delivered
<1>6. ASSUME NEW k \in RelayKeys PROVE KeyKept(k)
  <2>1. Unacked = <<>> /\ <<shards[k].head>> = << <<>> >> /\ <<inbox>> = << <<>> >>
    BY <1>2 DEF Unacked
  <2>2. Ops(ranked) = <<>> /\ Ops(frames) = <<>> BY <1>2 DEF Ops
  <2>3. DOMAIN <<>> = {} /\ DOMAIN << <<>> >> = {1} /\ << <<>> >>[1] = <<>> OBVIOUS
  <2>4. NumbersIn(k, <<>>) = {} /\ NumbersIn(k, << <<>> >>) = {} BY <2>3 DEF NumbersIn
  <2>5. InOrder(k, <<>>) /\ InOrder(k, << <<>> >>) BY <2>3 DEF InOrder
  <2>6. LinedUp(k, Unacked, <<inbox>>, Ops(ranked), Ops(frames), <<shards[k].head>>)
    BY <2>1, <2>2, <2>4, <2>5 DEF LinedUp, Ahead
  <2>7. Rest(k) = {} BY <2>1, <2>2, <2>4 DEF Rest, Everything
  <2>8. sent[k] = 0 BY <1>2
  <2> QED BY <2>6, <2>7, <2>8 DEF KeyKept, Complete
<1> QED BY <1>4, <1>5, <1>6 DEF RelayInv

\* Every stage is a list of windows.
LEMMA LineTypes ==
  ASSUME RelayInv
  PROVE  /\ Unacked \in Windows /\ <<inbox>> \in Windows
         /\ Ops(ranked) \in Windows /\ Ops(frames) \in Windows
         /\ \A k \in RelayKeys : shards[k].head \in Line /\ <<shards[k].head>> \in Windows
<1>1. /\ inbox \in Line /\ spill.pages \in Seq(Line) /\ spill.acked \in Nat
      /\ ranked \in Seq(Framed) /\ frames \in Seq(Framed)
      /\ \A k \in RelayKeys : shards[k].head \in Line
      /\ spill.acked <= Len(spill.pages)
  BY DEF RelayInv, RelayTypes, Delivered, Windows
<1>2. Unacked \in Windows
  <2>1. spill.acked \in 0..Len(spill.pages) BY <1>1
  <2> QED BY <1>1, <2>1, SplitCatenates DEF Unacked, Windows
<1>3. ASSUME NEW fs \in Seq(Framed) PROVE Ops(fs) \in Windows
  <2>1. ASSUME NEW i \in 1..Len(fs) PROVE fs[i].ops \in Line
    <3>1. fs[i] \in Framed OBVIOUS
    <3> QED BY <3>1 DEF Framed
  <2>2. Len(fs) \in Nat OBVIOUS
  <2> QED BY <2>1, <2>2 DEF Ops, Windows
<1> QED BY <1>1, <1>2, <1>3 DEF Windows

\* A step that keeps what there is, in order.
LEMMA Rearranged ==
  ASSUME NEW k \in RelayKeys, KeyKept(k), UNCHANGED relayConfig, sent'[k] = sent[k],
         downstream \subseteq downstream', Rest(k)' = Rest(k),
         LinedUp(k, Unacked, <<inbox>>, Ops(ranked), Ops(frames), <<shards[k].head>>)'
  PROVE  KeyKept(k)'
  BY DEF KeyKept, Complete, Lossless, PagesSealed

\* A line of one key holds no number of another, and an empty one none.
LEMMA OtherKey ==
  ASSUME NEW k, NEW w \in Line, \A x \in DOMAIN w : w[x][1] # k
  PROVE  NumbersIn(k, <<w>>) = {} /\ InOrder(k, <<w>>)
<1>1. DOMAIN <<w>> = {1} /\ <<w>>[1] = w OBVIOUS
<1>2. \A n : \A x \in DOMAIN w : w[x] # <<k, n>> OBVIOUS
<1> QED BY <1>1, <1>2 DEF NumbersIn, InOrder

\* An empty window holds no number.
LEMMA Nothing == ASSUME NEW k PROVE NumbersIn(k, << <<>> >>) = {} /\ InOrder(k, << <<>> >>)
<1>1. <<>> \in Line /\ DOMAIN <<>> = {} BY DEF Line
<1> QED BY <1>1, OtherKey

\* A window of one operation holds its number.
LEMMA OneOp ==
  ASSUME NEW k \in RelayKeys, NEW n \in 1..MaxSent
  PROVE  /\ << <<k, n>> >> \in Line /\ NumbersIn(k, << << <<k, n>> >> >>) = {n}
         /\ InOrder(k, << << <<k, n>> >> >>)
<1>1. PICK w : w = << <<k, n>> >> OBVIOUS
<1>2. DOMAIN w = {1} /\ w[1] = <<k, n>> /\ w \in Line BY <1>1 DEF Line, Op
<1>3. DOMAIN <<w>> = {1} /\ <<w>>[1] = w OBVIOUS
<1>4. NumbersIn(k, <<w>>) = {n}
  <2>1. ASSUME NEW m \in NumbersIn(k, <<w>>) PROVE m = n BY <1>2, <1>3 DEF NumbersIn
  <2>2. n \in NumbersIn(k, <<w>>) BY <1>2, <1>3 DEF NumbersIn
  <2> QED BY <2>1, <2>2
<1>5. InOrder(k, <<w>>) BY <1>2, <1>3 DEF InOrder
<1> QED BY <1>1, <1>2, <1>4, <1>5

\* What a shard holds after an operation: KeyedRelay::ingress, WindowPolicy.
LEMMA SentHead ==
  ASSUME RelayInv, NEW k \in RelayKeys, SendOp(k)
  PROVE  LET op == <<k, sent[k] + 1>>
             head == shards[k].head IN
         /\ op \in Op
         /\ shards' \in [RelayKeys -> [head : Line, pending : Nat, windowed : Nat, due : BOOLEAN]]
         /\ \A j \in RelayKeys : j # k => shards'[j] = shards[j]
         /\ \/ shards'[k].head = head \o <<op>>
            \/ ~Lossless /\ shards'[k].head \in {head, <<op>>}
<1>1. PICK r : r = shards[k] OBVIOUS
<1>2. PICK op : op = <<k, sent[k] + 1>> OBVIOUS
<1>3. r \in [head : Line, pending : Nat, windowed : Nat, due : BOOLEAN]
  BY <1>1 DEF RelayInv, RelayTypes
<1>4. op \in Op
  <2>1. sent[k] \in 0..MaxSent /\ sent[k] < MaxSent /\ MaxSent \in Nat
    BY RelayLinkAssumption DEF RelayInv, RelayTypes, SendOp
  <2> QED BY <1>2, <2>1 DEF Op
<1>5. PICK r1 : r1 = Ingested(r, op) OBVIOUS
<1>6. /\ r1 \in [head : Line, pending : Nat, windowed : Nat, due : BOOLEAN]
      /\ r1.head = r.head \o <<op>> \/ (~Lossless /\ r1.head \in {r.head, <<op>>})
  <2>1. Append(r.head, op) = r.head \o <<op>> /\ Append(r.head, op) \in Line /\ <<op>> \in Line
    BY <1>3, <1>4 DEF Line
  <2>2. CASE read_full(r) /\ relayConfig.overflow = "DropNewest"
    BY <1>3, <1>5, <2>2 DEF Ingested, Lossless
  <2>3. CASE read_full(r) /\ relayConfig.overflow = "DropOldest"
    <3>1. r1 = [r EXCEPT !.head = <<op>>, !.pending = 1] BY <1>5, <2>3 DEF Ingested
    <3>2. PICK q : q = [r EXCEPT !.head = <<op>>] OBVIOUS
    <3>3. r1 = [q EXCEPT !.pending = 1] BY <3>1, <3>2, Zenon
    <3>4. q \in [head : Line, pending : Nat, windowed : Nat, due : BOOLEAN] /\ q.head = <<op>>
      BY <1>3, <2>1, <3>2
    <3> QED BY <2>3, <3>3, <3>4 DEF Lossless
  <2>4. CASE ~(read_full(r) /\ relayConfig.overflow \in {"DropNewest", "DropOldest"})
    <3>1. r1 = [r EXCEPT !.head = Append(@, op), !.pending = @ + 1] BY <1>5, <2>4 DEF Ingested
    <3>2. PICK q : q = [r EXCEPT !.head = Append(@, op)] OBVIOUS
    <3>3. r1 = [q EXCEPT !.pending = r.pending + 1] BY <1>3, <3>1, <3>2
    <3>4. q \in [head : Line, pending : Nat, windowed : Nat, due : BOOLEAN] /\ q.head = r.head \o <<op>>
      BY <1>3, <2>1, <3>2
    <3>5. r.pending + 1 \in Nat BY <1>3
    <3>6. r1 \in [head : Line, pending : Nat, windowed : Nat, due : BOOLEAN] /\ r1.head = q.head
      BY <3>3, <3>4, <3>5
    <3> QED BY <3>4, <3>6
  <2> QED BY <2>2, <2>3, <2>4
<1>7. PICK r2 : r2 = Windowed(r1) OBVIOUS
<1>8. /\ r2 \in [head : Line, pending : Nat, windowed : Nat, due : BOOLEAN] /\ r2.head = r1.head
  <2>1. CASE r1.windowed + 1 >= window_ops
    <3>1. PICK q : q = [r1 EXCEPT !.windowed = 0] OBVIOUS
    <3>2. r2 = [r1 EXCEPT !.windowed = 0, !.due = TRUE] BY <1>7, <2>1 DEF Windowed
    <3>3. r2 = [q EXCEPT !.due = TRUE] BY <3>1, <3>2, Zenon
    <3>4. q \in [head : Line, pending : Nat, windowed : Nat, due : BOOLEAN] /\ q.head = r1.head
      BY <1>6, <3>1
    <3> QED BY <3>3, <3>4
  <2>2. CASE ~(r1.windowed + 1 >= window_ops) BY <1>6, <1>7, <2>2 DEF Windowed
  <2> QED BY <2>1, <2>2
<1>9. shards' = [shards EXCEPT ![k] = r2]
  BY <1>1, <1>2, <1>5, <1>7 DEF SendOp, RelayInv, RelayTypes
<1>10. shards \in [RelayKeys -> [head : Line, pending : Nat, windowed : Nat, due : BOOLEAN]]
  BY DEF RelayInv, RelayTypes
<1>11. /\ shards' \in [RelayKeys -> [head : Line, pending : Nat, windowed : Nat, due : BOOLEAN]]
       /\ shards'[k] = r2 /\ \A j \in RelayKeys : j # k => shards'[j] = shards[j]
  BY <1>8, <1>9, <1>10
<1> QED BY <1>1, <1>2, <1>4, <1>6, <1>8, <1>11

\* KeyKept in the next state, from the stages it will have.
LEMMA NextKept ==
  ASSUME NEW k \in RelayKeys, UNCHANGED relayConfig,
         NEW u, NEW i, NEW r, NEW f, NEW h,
         Unacked' = u, <<inbox>>' = i, Ops(ranked)' = r, Ops(frames)' = f, <<shards[k].head>>' = h,
         LinedUp(k, u, i, r, f, h),
         Complete(sent'[k], Lossless, Everything(k, u, i, r, f, h)),
         Lossless /\ PagesSealed =>
           \A n \in 1..sent'[k] : <<k, n>> \in downstream' \/ n \in Everything(k, u, i, r, f, h)
  PROVE  KeyKept(k)'
<1>1. Rest(k)' = Everything(k, u, i, r, f, h) BY DEF Rest
<1>2. Lossless' = Lossless /\ PagesSealed' = PagesSealed BY DEF Lossless, PagesSealed
<1> QED BY <1>1, <1>2 DEF KeyKept

\* ingress: the new number is above all that are under way, so it goes behind them;
\* an overflow policy that drops one only takes numbers away.
LEMMA SendKeeps ==
  ASSUME RelayInv, NEW key \in RelayKeys, SendOp(key)
  PROVE  RelayInv'
<1>1. /\ UNCHANGED <<relayConfig, frames, ranked, inbox, spill, egressCursor, downstream>>
      /\ sent' = [sent EXCEPT ![key] = @ + 1] /\ sent[key] < MaxSent
  BY DEF SendOp
<1>2. PICK op : op = <<key, sent[key] + 1>> OBVIOUS
<1>3. PICK head : head = shards[key].head OBVIOUS
<1>4. /\ op \in Op /\ head \in Line
      /\ shards' \in [RelayKeys -> [head : Line, pending : Nat, windowed : Nat, due : BOOLEAN]]
      /\ \A j \in RelayKeys : j # key => shards'[j] = shards[j]
      /\ \/ shards'[key].head = head \o <<op>>
         \/ ~Lossless /\ shards'[key].head \in {head, <<op>>}
  BY <1>2, <1>3, SentHead, LineTypes
<1>5. /\ sent[key] + 1 \in 1..MaxSent /\ sent[key] \in 0..MaxSent /\ MaxSent \in Nat
      /\ sent' \in [RelayKeys -> 0..MaxSent]
      /\ sent'[key] = sent[key] + 1 /\ \A j \in RelayKeys : j # key => sent'[j] = sent[j]
  BY <1>1, RelayLinkAssumption DEF RelayInv, RelayTypes
<1>6. \A x \in DOMAIN shards'[key].head : shards'[key].head[x][1] = key
  <2>1. \A x \in DOMAIN head : head[x][1] = key BY <1>3 DEF RelayInv, RelayTypes
  <2>2. op[1] = key BY <1>2
  <2>3. \A x \in DOMAIN <<op>> : <<op>>[x] = op OBVIOUS
  <2>4. \A x \in DOMAIN (head \o <<op>>) :
          (head \o <<op>>)[x] = op \/ (x \in DOMAIN head /\ (head \o <<op>>)[x] = head[x])
    <3>1. Append(head, op) = head \o <<op>> /\ DOMAIN Append(head, op) = 1..(Len(head) + 1)
          /\ Append(head, op)[Len(head) + 1] = op /\ \A x \in 1..Len(head) : Append(head, op)[x] = head[x]
          /\ DOMAIN head = 1..Len(head) /\ Len(head) \in Nat
      BY <1>4 DEF Line
    <3> QED BY <3>1
  <2>5. CASE shards'[key].head = head \o <<op>> BY <2>1, <2>2, <2>4, <2>5
  <2>6. CASE shards'[key].head = head BY <2>1, <2>6
  <2>7. CASE shards'[key].head = <<op>> BY <2>2, <2>3, <2>7
  <2> QED BY <1>4, <2>5, <2>6, <2>7
<1>7. RelayTypes'
  BY <1>1, <1>4, <1>5, <1>6 DEF RelayInv, RelayTypes, OfItsKey
<1>8. Delivered' BY <1>1 DEF RelayInv, Delivered, PagesSealed
<1>9. Unacked' = Unacked /\ Ops(ranked)' = Ops(ranked) /\ Ops(frames)' = Ops(frames)
  BY <1>1 DEF Unacked, Ops
<1>10. ASSUME NEW k \in RelayKeys, k # key PROVE KeyKept(k)'
  <2>1. shards'[k] = shards[k] /\ sent'[k] = sent[k] BY <1>4, <1>5, <1>10
  <2>2. KeyKept(k) BY DEF RelayInv
  <2>3. Rest(k)' = Rest(k) BY <1>1, <1>9, <2>1 DEF Rest
  <2>4. LinedUp(k, Unacked, <<inbox>>, Ops(ranked), Ops(frames), <<shards[k].head>>)'
    BY <1>1, <1>9, <2>1, <2>2 DEF KeyKept
  <2> QED BY <1>1, <2>1, <2>2, <2>3, <2>4, Rearranged
<1>11. KeyKept(key)'
  <2>1. KeyKept(key) BY DEF RelayInv
  <2>2. PICK u, i, r, f : u = Unacked /\ i = <<inbox>> /\ r = Ops(ranked) /\ f = Ops(frames) OBVIOUS
  <2>3. PICK new : new = sent[key] + 1 OBVIOUS
  <2>4. PICK all : all = Everything(key, u, i, r, f, <<head>>) OBVIOUS
  <2>5. /\ LinedUp(key, u, i, r, f, <<head>>) /\ Complete(sent[key], Lossless, all)
        /\ Lossless /\ PagesSealed => \A n \in 1..sent[key] : <<key, n>> \in downstream \/ n \in all
    BY <1>3, <2>1, <2>2, <2>4 DEF KeyKept, Rest
  <2>6. /\ <<op>> \in Line /\ NumbersIn(key, << <<op>> >>) = {new} /\ InOrder(key, << <<op>> >>)
    BY <1>2, <1>5, <2>3, OneOp
  <2>7. all \subseteq 1..sent[key] BY <2>5 DEF Complete
  <2>8. ASSUME NEW w, NumbersIn(key, w) \subseteq all PROVE Ahead(key, w, << <<op>> >>)
    <3>1. \A m \in all : m < new BY <1>5, <2>3, <2>7
    <3>2. \A m \in NumbersIn(key, w), n \in {new} : m < n BY <2>8, <3>1
    <3> QED BY <2>6, <3>2 DEF Ahead
  <2>9. PICK h : h = <<shards'[key].head>> OBVIOUS
  <2>10. /\ InOrder(key, h)
         /\ \/ NumbersIn(key, h) = NumbersIn(key, <<head>>) \cup {new}
            \/ ~Lossless /\ NumbersIn(key, h) \in {NumbersIn(key, <<head>>), {new}}
    <3>1. InOrder(key, <<head>>) BY <2>5 DEF LinedUp
    <3>2. CASE shards'[key].head = head \o <<op>>
      <4>1. Ahead(key, <<head>>, << <<op>> >>) BY <2>4, <2>8 DEF Everything
      <4>2. h = <<head \o <<op>> >> BY <2>9, <3>2
      <4>3. /\ InOrder(key, <<head \o <<op>> >>)
            /\ NumbersIn(key, <<head \o <<op>> >>)
                 = NumbersIn(key, <<head>>) \cup NumbersIn(key, << <<op>> >>)
        BY <1>4, <2>6, <3>1, <4>1, MergedLine
      <4> QED BY <2>6, <4>2, <4>3
    <3>3. CASE ~Lossless /\ shards'[key].head = head BY <2>9, <3>1, <3>3
    <3>4. CASE ~Lossless /\ shards'[key].head = <<op>> BY <2>6, <2>9, <3>4
    <3> QED BY <1>4, <3>2, <3>3, <3>4
  <2>11. PICK all2 : all2 = Everything(key, u, i, r, f, h) OBVIOUS
  <2>12. /\ all2 \subseteq all \cup {new}
         /\ Lossless => all2 = all \cup {new}
    BY <2>4, <2>10, <2>11 DEF Everything
  <2>13. LinedUp(key, u, i, r, f, h)
    <3>1. NumbersIn(key, h) \subseteq NumbersIn(key, <<head>>) \cup {new} BY <2>10
    <3>2. ASSUME NEW w, NumbersIn(key, w) \subseteq all, Ahead(key, w, <<head>>)
          PROVE  Ahead(key, w, h)
      <4>1. \A m \in all : m < new BY <1>5, <2>3, <2>7
      <4>2. \A m \in NumbersIn(key, w) : m < new BY <3>2, <4>1
      <4>3. \A m \in NumbersIn(key, w), n \in NumbersIn(key, <<head>>) : m < n BY <3>2 DEF Ahead
      <4> QED BY <3>1, <4>2, <4>3 DEF Ahead
    <3>3. /\ NumbersIn(key, u) \subseteq all /\ NumbersIn(key, i) \subseteq all
          /\ NumbersIn(key, r) \subseteq all /\ NumbersIn(key, f) \subseteq all
      BY <2>4 DEF Everything
    <3> QED BY <2>5, <2>10, <3>2, <3>3 DEF LinedUp
  <2>14. Complete(new, Lossless, all2)
    <3>1. all2 \subseteq 1..new BY <1>5, <2>3, <2>7, <2>12
    <3>2. ASSUME Lossless, NEW m \in all2, NEW n \in m..new PROVE n \in all2
      <4>1. all2 = all \cup {new} BY <2>12, <3>2
      <4>2. CASE n = new BY <4>1, <4>2
      <4>3. CASE n # new
        <5>1. n \in m..sent[key] /\ m # new BY <1>5, <2>3, <3>1, <4>3
        <5> QED BY <2>5, <3>2, <4>1, <5>1 DEF Complete
      <4> QED BY <4>2, <4>3
    <3> QED BY <3>1, <3>2 DEF Complete
  <2>15. ASSUME Lossless, PagesSealed, NEW n \in 1..new
         PROVE  <<key, n>> \in downstream' \/ n \in all2
    <3>1. n \in 1..sent[key] \/ n = new BY <1>5, <2>3
    <3> QED BY <1>1, <2>5, <2>12, <2>15, <3>1
  <2>16. /\ Unacked' = u /\ <<inbox>>' = i /\ Ops(ranked)' = r /\ Ops(frames)' = f
         /\ <<shards[key].head>>' = h /\ sent'[key] = new
    BY <1>1, <1>5, <1>9, <2>2, <2>3, <2>9
  <2> QED BY <1>1, <2>11, <2>13, <2>14, <2>15, <2>16, NextKept
<1> QED BY <1>7, <1>8, <1>10, <1>11 DEF RelayInv

\* Operations that move on keep their key's place: nothing is sent, added or lost.
LEMMA MovedOn ==
  ASSUME NEW k \in RelayKeys, KeyKept(k), UNCHANGED relayConfig, sent'[k] = sent[k],
         downstream \subseteq downstream',
         NEW u, NEW i, NEW r, NEW f, NEW h,
         Unacked' = u, <<inbox>>' = i, Ops(ranked)' = r, Ops(frames)' = f, <<shards[k].head>>' = h,
         LinedUp(k, u, i, r, f, h), Everything(k, u, i, r, f, h) = Rest(k)
  PROVE  KeyKept(k)'
<1>1. Complete(sent'[k], Lossless, Everything(k, u, i, r, f, h)) BY DEF KeyKept
<1>2. Lossless /\ PagesSealed =>
        \A n \in 1..sent'[k] : <<k, n>> \in downstream' \/ n \in Everything(k, u, i, r, f, h)
  BY DEF KeyKept
<1> QED BY <1>1, <1>2, NextKept

\* No stage changed: what is under way is what was.
LEMMA StayedPut ==
  ASSUME RelayInv, UNCHANGED <<relayConfig, sent, spill, inbox, ranked, frames>>,
         downstream \subseteq downstream', NEW k \in RelayKeys, shards'[k].head = shards[k].head
  PROVE  KeyKept(k)'
<1>1. /\ Unacked' = Unacked /\ <<inbox>>' = <<inbox>> /\ Ops(ranked)' = Ops(ranked)
      /\ Ops(frames)' = Ops(frames) /\ <<shards[k].head>>' = <<shards[k].head>>
  BY DEF Unacked, Ops
<1>2. KeyKept(k) BY DEF RelayInv
<1>3. LinedUp(k, Unacked, <<inbox>>, Ops(ranked), Ops(frames), <<shards[k].head>>)
  BY <1>2 DEF KeyKept
<1>4. Everything(k, Unacked, <<inbox>>, Ops(ranked), Ops(frames), <<shards[k].head>>) = Rest(k)
  BY DEF Rest
<1> QED BY <1>1, <1>2, <1>3, <1>4, MovedOn

\* What the frames carry, in their order.
LEMMA OpsOf ==
  ASSUME NEW fs \in Seq(Framed)
  PROVE  /\ Ops(fs) \in Windows /\ Len(Ops(fs)) = Len(fs)
         /\ \A i \in 1..Len(fs) : Ops(fs)[i] = fs[i].ops
<1>1. ASSUME NEW i \in 1..Len(fs) PROVE fs[i].ops \in Line
  <2>1. fs[i] \in Framed OBVIOUS
  <2> QED BY <2>1 DEF Framed
<1>2. Len(fs) \in Nat OBVIOUS
<1> QED BY <1>1, <1>2 DEF Ops, Windows

\* Pushing a frame pushes its operations.
LEMMA OpsAppend ==
  ASSUME NEW fs \in Seq(Framed), NEW w \in Framed
  PROVE  Ops(Append(fs, w)) = Append(Ops(fs), w.ops) /\ Append(fs, w) \in Seq(Framed)
<1>1. PICK gs : gs = Append(fs, w) OBVIOUS
<1>2. gs \in Seq(Framed) /\ Len(gs) = Len(fs) + 1 /\ gs[Len(fs) + 1] = w
      /\ \A i \in 1..Len(fs) : gs[i] = fs[i]
  BY <1>1
<1>3. \A hs \in Seq(Framed) : Ops(hs) \in Windows /\ Len(Ops(hs)) = Len(hs)
                              /\ \A i \in 1..Len(hs) : Ops(hs)[i] = hs[i].ops
  BY OpsOf
<1>4. w.ops \in Line BY DEF Framed
<1>5. PICK v : v = Ops(fs) OBVIOUS
<1>6. PICK a : a = Append(v, w.ops) OBVIOUS
<1>7. v \in Seq(Line) /\ Len(v) = Len(fs) /\ \A i \in 1..Len(fs) : v[i] = fs[i].ops
  BY <1>3, <1>5 DEF Windows
<1>8. a \in Seq(Line) /\ Len(a) = Len(fs) + 1 /\ a[Len(fs) + 1] = w.ops
      /\ \A i \in 1..Len(fs) : a[i] = fs[i].ops
  BY <1>4, <1>6, <1>7
<1>9. PICK b : b = Ops(gs) OBVIOUS
<1>10. b \in Seq(Line) /\ Len(b) = Len(fs) + 1 /\ b[Len(fs) + 1] = w.ops
       /\ \A i \in 1..Len(fs) : b[i] = fs[i].ops
  BY <1>2, <1>3, <1>9 DEF Windows
<1>11. \A i \in 1..Len(a) : a[i] = b[i]
  <2>1. \A i \in 1..(Len(fs) + 1) : i = Len(fs) + 1 \/ i \in 1..Len(fs) OBVIOUS
  <2> QED BY <1>8, <1>10, <2>1
<1>12. a = b BY <1>8, <1>10, <1>11, SeqEqual
<1> QED BY <1>1, <1>2, <1>5, <1>6, <1>9, <1>12

\* try_egress: the head of the shard becomes the last frame of the transport.
LEMMA DrainKeeps ==
  ASSUME RelayInv, NEW key \in RelayKeys, DrainShard(key)
  PROVE  RelayInv'
<1>1. /\ UNCHANGED <<relayConfig, sent, ranked, inbox, spill, egressCursor, downstream>>
      /\ shards' = [shards EXCEPT ![key].head = <<>>, ![key].pending = 0, ![key].due = FALSE]
  BY DEF DrainShard
<1>2. PICK head : head = shards[key].head OBVIOUS
<1>3. /\ head \in Line /\ \A x \in DOMAIN head : head[x][1] = key
      /\ shards \in [RelayKeys -> [head : Line, pending : Nat, windowed : Nat, due : BOOLEAN]]
      /\ frames \in Seq(Framed) /\ <<>> \in Line
  BY <1>2 DEF RelayInv, RelayTypes, Line
<1>4. /\ shards' \in [RelayKeys -> [head : Line, pending : Nat, windowed : Nat, due : BOOLEAN]]
      /\ shards'[key].head = <<>> /\ \A j \in RelayKeys : j # key => shards'[j] = shards[j]
  <2>1. PICK r : r = shards[key] OBVIOUS
  <2>2. PICK r1 : r1 = [r EXCEPT !.head = <<>>] OBVIOUS
  <2>3. PICK r2 : r2 = [r1 EXCEPT !.pending = 0] OBVIOUS
  <2>4. PICK r3 : r3 = [r2 EXCEPT !.due = FALSE] OBVIOUS
  <2>5. r \in [head : Line, pending : Nat, windowed : Nat, due : BOOLEAN] BY <1>3, <2>1
  <2>6. r1 \in [head : Line, pending : Nat, windowed : Nat, due : BOOLEAN] /\ r1.head = <<>>
    BY <1>3, <2>2, <2>5
  <2>7. r2 \in [head : Line, pending : Nat, windowed : Nat, due : BOOLEAN] /\ r2.head = <<>>
    BY <2>3, <2>6
  <2>8. r3 \in [head : Line, pending : Nat, windowed : Nat, due : BOOLEAN] /\ r3.head = <<>>
    BY <2>4, <2>7
  <2>9. shards' = [shards EXCEPT ![key] = r3]
    <3>1. shards' = [shards EXCEPT ![key] = [r EXCEPT !.head = <<>>, !.pending = 0, !.due = FALSE]]
      BY <1>1, <1>3, <2>1
    <3>2. r3 = [r EXCEPT !.head = <<>>, !.pending = 0, !.due = FALSE]
      BY <2>2, <2>3, <2>4, Zenon
    <3> QED BY <3>1, <3>2, Zenon
  <2> QED BY <1>3, <2>8, <2>9
<1>5. Unacked' = Unacked /\ Ops(ranked)' = Ops(ranked) /\ <<inbox>>' = <<inbox>>
  BY <1>1 DEF Unacked, Ops
<1>6. Delivered' BY <1>1 DEF RelayInv, Delivered, PagesSealed
<1>7. CASE head = <<>>
  <2>1. frames' = frames BY <1>2, <1>7 DEF DrainShard
  <2>2. \A j \in RelayKeys : shards'[j].head = shards[j].head BY <1>2, <1>4, <1>7
  <2>3. RelayTypes' BY <1>1, <1>4, <2>1, <2>2 DEF RelayInv, RelayTypes, OfItsKey
  <2>4. \A k \in RelayKeys : KeyKept(k)' BY <1>1, <2>1, <2>2, StayedPut
  <2> QED BY <1>6, <2>3, <2>4 DEF RelayInv
<1>8. CASE head # <<>>
  <2>1. PICK w : w = [key |-> key, ops |-> head] OBVIOUS
  <2>2. w \in Framed /\ w.ops = head /\ OfItsKey(w) BY <1>3, <2>1 DEF Framed, OfItsKey
  <2>3. frames' = Append(frames, w) BY <1>2, <1>8, <2>1 DEF DrainShard
  <2>4. Ops(frames)' = Append(Ops(frames), head) /\ frames' \in Seq(Framed)
    <3>1. Ops(Append(frames, w)) = Append(Ops(frames), head) /\ Append(frames, w) \in Seq(Framed)
      BY <1>3, <2>2, OpsAppend
    <3>2. Ops(frames)' = Ops(frames') BY DEF Ops
    <3> QED BY <2>3, <3>1, <3>2
  <2>5. \A i \in DOMAIN frames' : OfItsKey(frames'[i])
    <3>1. \A i \in DOMAIN frames : OfItsKey(frames[i]) BY DEF RelayInv, RelayTypes
    <3>2. \A i \in DOMAIN frames' : frames'[i] = w \/ (i \in DOMAIN frames /\ frames'[i] = frames[i])
      BY <1>3, <2>3
    <3> QED BY <2>2, <3>1, <3>2
  <2>6. RelayTypes'
    <3>0. DOMAIN <<>> = {} OBVIOUS
    <3>1. ASSUME NEW k \in RelayKeys PROVE \A x \in DOMAIN shards'[k].head : shards'[k].head[x][1] = k
      <4>1. CASE k = key BY <1>4, <3>0, <4>1
      <4>2. CASE k # key BY <1>4, <4>2 DEF RelayInv, RelayTypes
      <4> QED BY <4>1, <4>2
    <3> QED BY <1>1, <1>4, <2>4, <2>5, <3>1 DEF RelayInv, RelayTypes, OfItsKey
  <2>7. ASSUME NEW k \in RelayKeys PROVE KeyKept(k)'
    <3>1. KeyKept(k) BY DEF RelayInv
    <3>2. PICK u, i, r, f : u = Unacked /\ i = <<inbox>> /\ r = Ops(ranked) /\ f = Ops(frames) OBVIOUS
    <3>3. PICK h : h = <<shards[k].head>> OBVIOUS
    <3>4. LinedUp(k, u, i, r, f, h) /\ Rest(k) = Everything(k, u, i, r, f, h)
      BY <3>1, <3>2, <3>3 DEF KeyKept, Rest
    <3>5. PICK f2 : f2 = Append(f, head) OBVIOUS
    <3>6. PICK h2 : h2 = <<shards'[k].head>> OBVIOUS
    <3>7. CASE k = key
      <4>1. h = <<head>> /\ h2 = << <<>> >> BY <1>2, <1>4, <3>3, <3>6, <3>7
      <4>2. InOrder(k, f) /\ InOrder(k, <<head>>) /\ Ahead(k, f, <<head>>)
        BY <3>4, <4>1 DEF LinedUp
      <4>3. InOrder(k, f2) /\ NumbersIn(k, f2) = NumbersIn(k, f) \cup NumbersIn(k, h)
        <5>1. f \in Windows BY <3>2, LineTypes
        <5>2. /\ InOrder(k, Append(f, head))
              /\ NumbersIn(k, Append(f, head)) = NumbersIn(k, f) \cup NumbersIn(k, <<head>>)
          BY <1>3, <4>2, <5>1, Appended
        <5> QED BY <3>5, <4>1, <5>2
      <4>4. NumbersIn(k, h2) = {} /\ InOrder(k, h2) BY <4>1, Nothing
      <4>5. LinedUp(k, u, i, r, f2, h2) BY <3>4, <4>3, <4>4 DEF LinedUp, Ahead
      <4>6. Everything(k, u, i, r, f2, h2) = Rest(k) BY <3>4, <4>3, <4>4 DEF Everything
      <4> QED BY <1>1, <1>5, <2>4, <3>1, <3>2, <3>5, <3>6, <4>5, <4>6, MovedOn
    <3>8. CASE k # key
      <4>1. h2 = h BY <1>4, <3>3, <3>6, <3>8
      <4>2. NumbersIn(k, <<head>>) = {} /\ InOrder(k, <<head>>) BY <1>3, <3>8, OtherKey
      <4>3. InOrder(k, f) /\ Ahead(k, f, <<head>>) BY <3>4, <4>2 DEF LinedUp, Ahead
      <4>4. InOrder(k, f2) /\ NumbersIn(k, f2) = NumbersIn(k, f)
        <5>1. f \in Windows BY <3>2, LineTypes
        <5>2. /\ InOrder(k, Append(f, head))
              /\ NumbersIn(k, Append(f, head)) = NumbersIn(k, f) \cup NumbersIn(k, <<head>>)
          BY <1>3, <4>2, <4>3, <5>1, Appended
        <5> QED BY <3>5, <4>2, <5>2
      <4>5. LinedUp(k, u, i, r, f2, h2) BY <3>4, <4>1, <4>4 DEF LinedUp, Ahead
      <4>6. Everything(k, u, i, r, f2, h2) = Rest(k) BY <3>4, <4>1, <4>4 DEF Everything
      <4> QED BY <1>1, <1>5, <2>4, <3>1, <3>2, <3>5, <3>6, <4>5, <4>6, MovedOn
    <3> QED BY <3>7, <3>8
  <2> QED BY <1>6, <2>6, <2>7 DEF RelayInv
<1> QED BY <1>7, <1>8

-----------------------------------------------------------------------------
(* The receiving side *)

\* Frames that are cut or joined are cut or joined in what they carry.
LEMMA OpsCatenates ==
  ASSUME NEW v \in Seq(Framed), NEW w \in Seq(Framed), NEW vw \in Seq(Framed), Catenates(v, w, vw)
  PROVE  Catenates(Ops(v), Ops(w), Ops(vw))
<1>1. PICK a, b, c : a = Ops(v) /\ b = Ops(w) /\ c = Ops(vw) OBVIOUS
<1>2. /\ a \in Windows /\ Len(a) = Len(v) /\ \A i \in 1..Len(v) : a[i] = v[i].ops
      /\ b \in Windows /\ Len(b) = Len(w) /\ \A i \in 1..Len(w) : b[i] = w[i].ops
      /\ c \in Windows /\ Len(c) = Len(vw) /\ \A i \in 1..Len(vw) : c[i] = vw[i].ops
  BY <1>1, OpsOf
<1>3. Len(v) \in Nat /\ Len(w) \in Nat /\ Len(vw) \in Nat /\ DOMAIN vw = 1..Len(vw) OBVIOUS
<1>4. Len(vw) = Len(v) + Len(w) BY <1>3 DEF Catenates
<1>5. DOMAIN c = 1..(Len(a) + Len(b)) BY <1>2, <1>3, <1>4 DEF Windows
<1>6. \A i \in 1..Len(a) : c[i] = a[i] BY <1>2, <1>3, <1>4 DEF Catenates
<1>7. \A i \in 1..Len(b) : c[Len(a) + i] = b[i] BY <1>2, <1>3, <1>4 DEF Catenates
<1>8. Catenates(a, b, c) BY <1>5, <1>6, <1>7 DEF Catenates
<1> QED BY <1>1, <1>8

\* FramedTransport::poll: the first frames go behind what is ranked.
LEMMA PollKeeps == ASSUME RelayInv, Poll PROVE RelayInv'
<1>1. PICK n \in 1..Len(frames) :
        /\ ranked' = ranked \o SubSeq(frames, 1, n)
        /\ frames' = SubSeq(frames, n + 1, Len(frames))
        /\ UNCHANGED <<relayConfig, sent, shards, tokens, inbox, credits, spill, egressCursor,
                       downstream, crashes>>
  <2>1. Len(frames) \in Nat BY DEF RelayInv, RelayTypes
  <2>2. frame_size \in Nat \ {0} BY RelayLinkAssumption
  <2>3. PICK n : n = IF frame_size < Len(frames) THEN frame_size ELSE Len(frames) OBVIOUS
  <2>4. n > 0 BY <2>3 DEF Poll
  <2>5. n \in 1..Len(frames) BY <2>1, <2>2, <2>3, <2>4
  <2> QED BY <2>3, <2>5 DEF Poll
<1>2. PICK p : p = SubSeq(frames, 1, n) OBVIOUS
<1>3. PICK t : t = SubSeq(frames, n + 1, Len(frames)) OBVIOUS
<1>4. /\ frames \in Seq(Framed) /\ ranked \in Seq(Framed)
      /\ \A i \in DOMAIN frames : OfItsKey(frames[i])
      /\ \A i \in DOMAIN ranked : OfItsKey(ranked[i])
  BY DEF RelayInv, RelayTypes
<1>5. p \in Seq(Framed) /\ t \in Seq(Framed) /\ Catenates(p, t, frames)
  BY <1>2, <1>3, <1>4, SplitCatenates
<1>6. ranked' = ranked \o p /\ frames' = t BY <1>1, <1>2, <1>3
<1>7. ranked' \in Seq(Framed) /\ Catenates(ranked, p, ranked')
  BY <1>4, <1>5, <1>6, ConcatCatenates
<1>8. RelayTypes'
  <2>1. \A i \in DOMAIN p : OfItsKey(p[i])
    <3>1. \A i \in DOMAIN p : i \in DOMAIN frames /\ p[i] = frames[i] BY <1>4, <1>5 DEF Catenates
    <3> QED BY <1>4, <3>1
  <2>2. \A i \in DOMAIN t : OfItsKey(t[i])
    <3>1. \A i \in DOMAIN t : Len(p) + i \in DOMAIN frames /\ t[i] = frames[Len(p) + i]
      BY <1>4, <1>5 DEF Catenates
    <3> QED BY <1>4, <3>1
  <2>3. \A i \in DOMAIN ranked' : OfItsKey(ranked'[i])
    <3> SUFFICES ASSUME NEW i \in DOMAIN ranked' PROVE OfItsKey(ranked'[i]) OBVIOUS
    <3>1. \/ i \in DOMAIN ranked /\ ranked'[i] = ranked[i]
          \/ i - Len(ranked) \in DOMAIN p /\ ranked'[i] = p[i - Len(ranked)]
      <4>1. Len(ranked) \in Nat /\ Len(p) \in Nat /\ i \in 1..(Len(ranked) + Len(p))
            /\ DOMAIN ranked = 1..Len(ranked) /\ DOMAIN p = 1..Len(p)
        BY <1>4, <1>5, <1>7 DEF Catenates
      <4>2. CASE i <= Len(ranked) BY <1>7, <4>1, <4>2 DEF Catenates
      <4>3. CASE i > Len(ranked)
        <5>1. i - Len(ranked) \in 1..Len(p) /\ i = Len(ranked) + (i - Len(ranked)) BY <4>1, <4>3
        <5> QED BY <1>7, <4>1, <5>1 DEF Catenates
      <4> QED BY <4>1, <4>2, <4>3
    <3> QED BY <1>4, <2>1, <3>1
  <2> QED BY <1>1, <1>5, <1>6, <1>7, <2>2, <2>3 DEF RelayInv, RelayTypes, OfItsKey
<1>9. Delivered' BY <1>1 DEF RelayInv, Delivered, PagesSealed
<1>10. ASSUME NEW k \in RelayKeys PROVE KeyKept(k)'
  <2>1. KeyKept(k) BY DEF RelayInv
  <2>2. PICK u, i, r, f, h : /\ u = Unacked /\ i = <<inbox>> /\ r = Ops(ranked) /\ f = Ops(frames)
                             /\ h = <<shards[k].head>>
    OBVIOUS
  <2>3. LinedUp(k, u, i, r, f, h) /\ Rest(k) = Everything(k, u, i, r, f, h)
    BY <2>1, <2>2 DEF KeyKept, Rest
  <2>4. PICK r2, f2, d : r2 = Ops(ranked') /\ f2 = Ops(t) /\ d = Ops(p) OBVIOUS
  <2>5. r \in Windows /\ f \in Windows /\ r2 \in Windows /\ f2 \in Windows /\ d \in Windows
    BY <1>4, <1>5, <1>7, <2>2, <2>4, OpsOf
  <2>6. Catenates(r, d, r2) /\ Catenates(d, f2, f)
    BY <1>4, <1>5, <1>7, <2>2, <2>4, OpsCatenates
  <2>7. InOrder(k, d) /\ InOrder(k, f2) /\ Ahead(k, d, f2)
    BY <2>3, <2>5, <2>6, CutInOrder DEF LinedUp
  <2>8. NumbersIn(k, f) = NumbersIn(k, d) \cup NumbersIn(k, f2) BY <2>5, <2>6, CatenatedNumbers
  <2>9. NumbersIn(k, r2) = NumbersIn(k, r) \cup NumbersIn(k, d) BY <2>5, <2>6, CatenatedNumbers
  <2>10. Ahead(k, r, d) BY <2>3, <2>8 DEF LinedUp, Ahead
  <2>11. InOrder(k, r2) BY <2>3, <2>5, <2>6, <2>7, <2>10, CatenatedInOrder DEF LinedUp
  <2>12. LinedUp(k, u, i, r2, f2, h) BY <2>3, <2>7, <2>8, <2>9, <2>11 DEF LinedUp, Ahead
  <2>13. Everything(k, u, i, r2, f2, h) = Rest(k) BY <2>3, <2>8, <2>9 DEF Everything
  <2>14. /\ Unacked' = u /\ <<inbox>>' = i /\ Ops(ranked)' = r2 /\ Ops(frames)' = f2
         /\ <<shards[k].head>>' = h
    BY <1>1, <1>6, <2>2, <2>4 DEF Unacked, Ops
  <2> QED BY <1>1, <2>1, <2>12, <2>13, <2>14, MovedOn
<1> QED BY <1>8, <1>9, <1>10 DEF RelayInv

\* A nonempty set of places has a first one.
LEMMA FirstOf ==
  ASSUME NEW S \in SUBSET Nat, S # {}
  PROVE  \E m \in S : \A n \in S : m <= n
<1>1. IsWellFoundedOn(OpToRel(<, Nat), Nat) BY NatLessThanWellFounded
<1>2. PICK m \in S : \A n \in S : ~ (<<n, m>> \in OpToRel(<, Nat)) BY <1>1, WFMin
<1>3. \A n \in S : ~ (n < m) BY <1>2 DEF OpToRel
<1> QED BY <1>3

\* pop takes a window that no other of its key precedes.
LEMMA BestIsFirst ==
  ASSUME NEW fs \in Seq(Framed), fs # <<>>
  PROVE  /\ Best(fs) \in 1..Len(fs)
         /\ \A i \in 1..(Best(fs) - 1) : fs[i].key # fs[Best(fs)].key
<1> DEFINE IsBest(i) == /\ \A j \in 1..Len(fs) : priority(fs[j]) <= priority(fs[i])
                        /\ \A j \in 1..(i - 1) : priority(fs[j]) < priority(fs[i])
<1>1. Len(fs) \in Nat \ {0} OBVIOUS
<1>2. \A i \in 1..Len(fs) : priority(fs[i]) \in {0, 1} BY DEF priority
<1>3. \E i \in 1..Len(fs) : IsBest(i)
  <2> DEFINE Urgent == {i \in 1..Len(fs) : priority(fs[i]) = 1}
  <2>1. CASE Urgent = {} BY <1>1, <1>2, <2>1
  <2>2. CASE Urgent # {}
    <3>1. Urgent \in SUBSET Nat OBVIOUS
    <3>2. PICK m \in Urgent : \A n \in Urgent : m <= n BY <2>2, <3>1, FirstOf
    <3>3. m \in 1..Len(fs) /\ priority(fs[m]) = 1 OBVIOUS
    <3>4. \A j \in 1..(m - 1) : j \in 1..Len(fs) /\ j \notin Urgent BY <3>2, <3>3
    <3>5. \A j \in 1..(m - 1) : priority(fs[j]) = 0 BY <1>2, <3>4
    <3>6. \A j \in 1..Len(fs) : priority(fs[j]) <= 1 BY <1>2
    <3> QED BY <3>3, <3>5, <3>6
  <2> QED BY <2>1, <2>2
<1>4. Best(fs) = CHOOSE i \in 1..Len(fs) : IsBest(i) BY DEF Best
<1>5. Best(fs) \in 1..Len(fs) /\ IsBest(Best(fs))
  <2> HIDE DEF IsBest
  <2> QED BY <1>3, <1>4
<1>6. ASSUME NEW i \in 1..(Best(fs) - 1), fs[i].key = fs[Best(fs)].key PROVE FALSE
  <2>1. priority(fs[i]) = priority(fs[Best(fs)]) BY <1>6 DEF priority
  <2>2. priority(fs[i]) < priority(fs[Best(fs)]) BY <1>5
  <2> QED BY <1>2, <1>5, <2>1, <2>2
<1> QED BY <1>5, <1>6

\* The windows before, at and after a place.
LEMMA TakenOut ==
  ASSUME NEW fs \in Seq(Framed), NEW b \in 1..Len(fs)
  PROVE  \E p, t, q, rest \in Seq(Framed) :
           /\ rest = RemoveAt(fs, b)
           /\ Catenates(p, q, fs) /\ Catenates(<<fs[b]>>, t, q) /\ Catenates(p, t, rest)
           /\ Len(p) = b - 1
           /\ \A i \in DOMAIN p : i \in 1..(b - 1) /\ p[i] = fs[i]
           /\ \A i \in DOMAIN rest : \E j \in DOMAIN fs : rest[i] = fs[j]
<1>0. Len(fs) \in Nat /\ DOMAIN fs = 1..Len(fs) /\ b - 1 \in 0..Len(fs) /\ b \in 0..Len(fs)
      /\ (b - 1) + 1 = b
  OBVIOUS
<1>1. PICK p : p = SubSeq(fs, 1, b - 1) OBVIOUS
<1>2. PICK q : q = SubSeq(fs, b, Len(fs)) OBVIOUS
<1>3. PICK t : t = SubSeq(fs, b + 1, Len(fs)) OBVIOUS
<1>4. PICK rest : rest = p \o t OBVIOUS
<1>5. /\ p \in Seq(Framed) /\ q \in Seq(Framed) /\ Len(p) = b - 1 /\ Len(q) = Len(fs) - (b - 1)
      /\ Catenates(p, q, fs)
  BY <1>0, <1>1, <1>2, SplitCatenates
<1>6. /\ t \in Seq(Framed) /\ Len(t) = Len(fs) - b
      /\ \A i \in 1..(Len(fs) - b) : t[i] = fs[b + i]
  <2>1. PICK h : h = SubSeq(fs, 1, b) OBVIOUS
  <2>2. t \in Seq(Framed) /\ Len(h) = b /\ Len(t) = Len(fs) - b /\ Catenates(h, t, fs)
    BY <1>0, <1>3, <2>1, SplitCatenates
  <2> QED BY <2>2 DEF Catenates
<1>7. rest \in Seq(Framed) /\ Catenates(p, t, rest) BY <1>4, <1>5, <1>6, ConcatCatenates
<1>8. rest = RemoveAt(fs, b) BY <1>1, <1>3, <1>4 DEF RemoveAt
<1>9. Catenates(<<fs[b]>>, t, q)
  <2>1. \A i \in 1..Len(q) : q[i] = fs[(b - 1) + i] BY <1>5 DEF Catenates
  <2>2. Len(q) = 1 + Len(t) /\ DOMAIN q = 1..Len(q) /\ Len(t) \in Nat BY <1>0, <1>5, <1>6
  <2>3. q[1] = fs[b] BY <1>0, <2>1, <2>2
  <2>4. \A i \in 1..Len(t) : q[1 + i] = t[i]
    <3> SUFFICES ASSUME NEW i \in 1..Len(t) PROVE q[1 + i] = t[i] OBVIOUS
    <3>1. 1 + i \in 1..Len(q) /\ (b - 1) + (1 + i) = b + i BY <1>0, <2>2
    <3> QED BY <1>6, <2>1, <3>1
  <2>5. PICK o : o = <<fs[b]>> OBVIOUS
  <2>6. Len(o) = 1 /\ o[1] = fs[b] BY <2>5
  <2>7. Catenates(o, t, q) BY <2>2, <2>3, <2>4, <2>6 DEF Catenates
  <2> QED BY <2>5, <2>7
<1>10. \A i \in DOMAIN p : i \in 1..(b - 1) /\ p[i] = fs[i]
  BY <1>5 DEF Catenates
<1>11. ASSUME NEW i \in DOMAIN rest PROVE \E j \in DOMAIN fs : rest[i] = fs[j]
  <2>1. i \in 1..((b - 1) + Len(t)) /\ Len(t) \in Nat BY <1>5, <1>6, <1>7 DEF Catenates
  <2>2. CASE i <= b - 1
    <3>1. i \in 1..Len(p) /\ i \in DOMAIN p /\ i \in DOMAIN fs BY <1>0, <1>5, <2>1, <2>2
    <3>2. rest[i] = p[i] BY <1>7, <3>1 DEF Catenates
    <3> QED BY <1>10, <3>1, <3>2
  <2>3. CASE i > b - 1
    <3>1. i - (b - 1) \in 1..Len(t) /\ i = Len(p) + (i - (b - 1)) BY <1>0, <1>5, <2>1, <2>3
    <3>2. rest[i] = t[i - (b - 1)] BY <1>7, <3>1 DEF Catenates
    <3>3. b + (i - (b - 1)) \in DOMAIN fs BY <1>0, <1>6, <3>1
    <3> QED BY <1>6, <3>1, <3>2, <3>3
  <2> QED BY <1>0, <2>1, <2>2, <2>3
<1> QED BY <1>5, <1>6, <1>7, <1>8, <1>9, <1>10, <1>11

\* Frames of other keys carry no number of k.
LEMMA NoneOfKey ==
  ASSUME NEW k, NEW fs \in Seq(Framed),
         \A i \in DOMAIN fs : OfItsKey(fs[i]) /\ fs[i].key # k
  PROVE  NumbersIn(k, Ops(fs)) = {}
<1>1. PICK ws : ws = Ops(fs) OBVIOUS
<1>2. DOMAIN ws = DOMAIN fs /\ \A i \in DOMAIN fs : ws[i] = fs[i].ops BY <1>1 DEF Ops
<1>3. \A i \in DOMAIN ws : \A x \in DOMAIN ws[i] : ws[i][x][1] # k BY <1>2 DEF OfItsKey
<1>4. NumbersIn(k, ws) = {} BY <1>3 DEF NumbersIn
<1> QED BY <1>1, <1>4

\* PriorityStorage::pop overtakes frames of other keys only, so what it takes is
\* next of its key.
LEMMA ReceiveKeeps == ASSUME RelayInv, ReceiveOp PROVE RelayInv'
<1>1. /\ UNCHANGED <<relayConfig, sent, shards, frames, spill, egressCursor, downstream>>
      /\ ranked # <<>> /\ inbox' = inbox \o ranked[Best(ranked)].ops
      /\ ranked' = RemoveAt(ranked, Best(ranked))
  BY DEF ReceiveOp
<1>2. ranked \in Seq(Framed) /\ \A i \in DOMAIN ranked : OfItsKey(ranked[i])
  BY DEF RelayInv, RelayTypes
<1>3. PICK b : b = Best(ranked) OBVIOUS
<1>4. b \in 1..Len(ranked) /\ \A i \in 1..(b - 1) : ranked[i].key # ranked[b].key
  BY <1>1, <1>2, <1>3, BestIsFirst
<1>5. PICK w : w = ranked[b] OBVIOUS
<1>6. w \in Framed /\ OfItsKey(w) /\ w.ops \in Line
  <2>1. b \in DOMAIN ranked BY <1>2, <1>4
  <2>2. w \in Framed BY <1>2, <1>5, <2>1
  <2> QED BY <1>2, <1>5, <2>1, <2>2 DEF Framed
<1>7. PICK p, t, q, rest \in Seq(Framed) :
        /\ rest = RemoveAt(ranked, b)
        /\ Catenates(p, q, ranked) /\ Catenates(<<ranked[b]>>, t, q) /\ Catenates(p, t, rest)
        /\ Len(p) = b - 1
        /\ \A i \in DOMAIN p : i \in 1..(b - 1) /\ p[i] = ranked[i]
        /\ \A i \in DOMAIN rest : \E j \in DOMAIN ranked : rest[i] = ranked[j]
  BY <1>2, <1>4, TakenOut
<1>8. ranked' = rest /\ inbox' = inbox \o w.ops BY <1>1, <1>3, <1>5, <1>7
<1>9. RelayTypes'
  <2>1. inbox \in Line /\ inbox' \in Line
    <3>1. inbox \in Line BY DEF RelayInv, RelayTypes
    <3> QED BY <1>6, <1>8, <3>1 DEF Line
  <2>2. \A i \in DOMAIN rest : OfItsKey(rest[i]) BY <1>2, <1>7
  <2> QED BY <1>1, <1>7, <1>8, <2>1, <2>2 DEF RelayInv, RelayTypes, OfItsKey
<1>10. Delivered' BY <1>1 DEF RelayInv, Delivered, PagesSealed
<1>11. ASSUME NEW k \in RelayKeys PROVE KeyKept(k)'
  <2>1. KeyKept(k) BY DEF RelayInv
  <2>2. PICK u, i, r, f, h : /\ u = Unacked /\ i = <<inbox>> /\ r = Ops(ranked) /\ f = Ops(frames)
                             /\ h = <<shards[k].head>>
    OBVIOUS
  <2>3. LinedUp(k, u, i, r, f, h) /\ Rest(k) = Everything(k, u, i, r, f, h)
    BY <2>1, <2>2 DEF KeyKept, Rest
  <2>4. PICK o : o = <<w>> OBVIOUS
  <2>5. o \in Seq(Framed) BY <1>6, <2>4
  <2>6. PICK a, c, d, r2, l : a = Ops(p) /\ c = Ops(q) /\ d = Ops(t) /\ r2 = Ops(rest) /\ l = Ops(o)
    OBVIOUS
  <2>7. /\ a \in Windows /\ c \in Windows /\ d \in Windows /\ r2 \in Windows /\ l \in Windows
        /\ r \in Windows
    BY <1>2, <1>7, <2>2, <2>5, <2>6, OpsOf
  <2>8. Catenates(a, c, r) /\ Catenates(l, d, c) /\ Catenates(a, d, r2)
    <3>1. Catenates(p, q, ranked) /\ Catenates(o, t, q) /\ Catenates(p, t, rest)
      BY <1>5, <1>7, <2>4
    <3> QED BY <1>2, <1>7, <2>2, <2>5, <2>6, <3>1, OpsCatenates
  <2>9. InOrder(k, a) /\ InOrder(k, c) /\ Ahead(k, a, c) /\ NumbersIn(k, r) = NumbersIn(k, a) \cup NumbersIn(k, c)
    BY <2>3, <2>7, <2>8, CutInOrder, CatenatedNumbers DEF LinedUp
  <2>10. InOrder(k, l) /\ InOrder(k, d) /\ Ahead(k, l, d) /\ NumbersIn(k, c) = NumbersIn(k, l) \cup NumbersIn(k, d)
    <3>1. InOrder(k, l) /\ InOrder(k, d) /\ Ahead(k, l, d) BY <2>7, <2>8, <2>9, CutInOrder
    <3>2. NumbersIn(k, c) = NumbersIn(k, l) \cup NumbersIn(k, d) BY <2>7, <2>8, CatenatedNumbers
    <3> QED BY <3>1, <3>2
  <2>11. Ahead(k, a, d) BY <2>9, <2>10 DEF Ahead
  <2>12. InOrder(k, r2) /\ NumbersIn(k, r2) = NumbersIn(k, a) \cup NumbersIn(k, d)
    <3>1. InOrder(k, r2) BY <2>7, <2>8, <2>9, <2>10, <2>11, CatenatedInOrder
    <3>2. a \in Windows /\ d \in Windows /\ r2 \in Windows /\ Catenates(a, d, r2) BY <2>7, <2>8
    <3>3. NumbersIn(k, r2) = NumbersIn(k, a) \cup NumbersIn(k, d) BY <3>2, CatenatedNumbers
    <3> QED BY <3>1, <3>3
  <2>13. l = <<w.ops>>
    <3>1. o \in Seq(Framed) /\ Len(o) = 1 /\ o[1] = w BY <2>4, <2>5
    <3>2. l \in Seq(Line) /\ Len(l) = 1 /\ l[1] = w.ops
      <4>1. Ops(o) \in Windows /\ Len(Ops(o)) = Len(o) /\ \A j \in 1..Len(o) : Ops(o)[j] = o[j].ops
        BY <3>1, OpsOf
      <4> QED BY <2>6, <3>1, <4>1 DEF Windows
    <3>3. <<w.ops>> \in Seq(Line) /\ Len(<<w.ops>>) = 1 /\ <<w.ops>>[1] = w.ops BY <1>6
    <3> QED BY <3>2, <3>3, SeqEqual
  <2>14. NumbersIn(k, l) = {} \/ NumbersIn(k, a) = {}
    <3>1. CASE w.key = k
      <4>1. \A j \in DOMAIN p : OfItsKey(p[j]) /\ p[j].key # k
        <5> SUFFICES ASSUME NEW j \in DOMAIN p PROVE OfItsKey(p[j]) /\ p[j].key # k OBVIOUS
        <5>1. j \in 1..(b - 1) /\ p[j] = ranked[j] /\ j \in DOMAIN ranked BY <1>2, <1>4, <1>7
        <5> QED BY <1>2, <1>4, <1>5, <3>1, <5>1
      <4> QED BY <1>7, <2>6, <4>1, NoneOfKey
    <3>2. CASE w.key # k
      <4>1. \A j \in DOMAIN o : OfItsKey(o[j]) /\ o[j].key # k BY <1>6, <2>4, <3>2
      <4> QED BY <2>5, <2>6, <4>1, NoneOfKey
    <3> QED BY <3>1, <3>2
  <2>15. PICK i2 : i2 = <<inbox'>> OBVIOUS
  <2>16. InOrder(k, i2) /\ NumbersIn(k, i2) = NumbersIn(k, i) \cup NumbersIn(k, l)
    <3>1. inbox \in Line BY DEF RelayInv, RelayTypes
    <3>2. InOrder(k, i) /\ Ahead(k, i, l) BY <2>3, <2>9, <2>10 DEF LinedUp, Ahead
    <3>3. i2 = <<inbox \o w.ops>> BY <1>8, <2>15
    <3>4. InOrder(k, <<inbox>>) /\ InOrder(k, <<w.ops>>) /\ Ahead(k, <<inbox>>, <<w.ops>>)
      BY <2>2, <2>10, <2>13, <3>2
    <3>5. /\ InOrder(k, <<inbox \o w.ops>>)
          /\ NumbersIn(k, <<inbox \o w.ops>>) = NumbersIn(k, <<inbox>>) \cup NumbersIn(k, <<w.ops>>)
      BY <1>6, <3>1, <3>4, MergedLine
    <3> QED BY <2>2, <2>13, <3>3, <3>5
  <2>17. Ahead(k, l, r2) BY <2>10, <2>12, <2>14 DEF Ahead
  <2>18. NumbersIn(k, r) = NumbersIn(k, l) \cup NumbersIn(k, r2) BY <2>9, <2>10, <2>12
  <2>19. LinedUp(k, u, i2, r2, f, h)
    BY <2>3, <2>12, <2>16, <2>17, <2>18 DEF LinedUp, Ahead
  <2>20. Everything(k, u, i2, r2, f, h) = Rest(k) BY <2>3, <2>16, <2>18 DEF Everything
  <2>21. /\ Unacked' = u /\ <<inbox>>' = i2 /\ Ops(ranked)' = r2 /\ Ops(frames)' = f
         /\ <<shards[k].head>>' = h
    BY <1>1, <1>8, <2>2, <2>6, <2>15 DEF Unacked, Ops
  <2> QED BY <1>1, <2>1, <2>19, <2>20, <2>21, MovedOn
<1> QED BY <1>9, <1>10, <1>11 DEF RelayInv

-----------------------------------------------------------------------------
(* The spill store and its egress *)

\* What spill makes of the pages.
LEMMA SpilledPages ==
  ASSUME RelayInv
  PROVE  LET s == Spilled(spill, inbox) IN
         /\ s \in [pages : Windows, open_fill : Nat, acked : Nat] /\ s.acked = spill.acked
         /\ \/ s.pages = Append(spill.pages, inbox)
            \/ ~PagesSealed /\ Grown(spill.pages, inbox, s.pages)
<1>1. PICK s : s = Spilled(spill, inbox) OBVIOUS
<1>2. /\ spill \in [pages : Windows, open_fill : Nat, acked : Nat] /\ inbox \in Line
      /\ spill.pages \in Seq(Line)
  BY DEF RelayInv, RelayTypes, Windows
<1>3. PICK q : q = push_page(spill, inbox) OBVIOUS
<1>4. /\ q \in [pages : Windows, open_fill : Nat, acked : Nat] /\ q.acked = spill.acked
      /\ q.pages = Append(spill.pages, inbox)
  <2>1. Append(spill.pages, inbox) \in Windows BY <1>2 DEF Windows
  <2>2. q = [spill EXCEPT !.pages = Append(spill.pages, inbox)] BY <1>2, <1>3 DEF push_page
  <2> QED BY <1>2, <2>1, <2>2
<1>5. CASE relayConfig.mode = "AppendCompact" BY <1>1, <1>3, <1>4, <1>5 DEF Spilled
<1>6. CASE /\ relayConfig.mode # "AppendCompact"
           /\ spill.open_fill >= page_size \/ spill.pages = <<>>
  <2>1. s = [q EXCEPT !.open_fill = 1] BY <1>1, <1>3, <1>6 DEF Spilled
  <2> QED BY <1>1, <1>4, <2>1
<1>7. CASE /\ relayConfig.mode # "AppendCompact"
           /\ ~(spill.open_fill >= page_size \/ spill.pages = <<>>)
  <2>1. PICK v : v = [spill.pages EXCEPT ![Len(spill.pages)] = @ \o inbox] OBVIOUS
  <2>2. v \in Windows
    <3>1. Len(spill.pages) \in DOMAIN spill.pages /\ spill.pages[Len(spill.pages)] \in Line
      BY <1>2, <1>7
    <3>2. spill.pages[Len(spill.pages)] \o inbox \in Line BY <1>2, <3>1 DEF Line
    <3> QED BY <1>2, <2>1, <3>1, <3>2 DEF Windows
  <2>3. PICK q1 : q1 = [spill EXCEPT !.pages = v] OBVIOUS
  <2>4. /\ q1 \in [pages : Windows, open_fill : Nat, acked : Nat] /\ q1.acked = spill.acked
        /\ q1.pages = v /\ spill.open_fill + 1 \in Nat
    BY <1>2, <2>2, <2>3
  <2>5. s = [q1 EXCEPT !.open_fill = spill.open_fill + 1]
    <3>1. s = [spill EXCEPT !.pages[Len(spill.pages)] = @ \o inbox, !.open_fill = @ + 1]
      BY <1>1, <1>7 DEF Spilled
    <3>2. s = [[spill EXCEPT !.pages = v] EXCEPT !.open_fill = spill.open_fill + 1]
      BY <1>2, <2>1, <3>1
    <3> QED BY <2>3, <3>2, Zenon
  <2>6. s \in [pages : Windows, open_fill : Nat, acked : Nat] /\ s.acked = spill.acked /\ s.pages = v
    BY <2>4, <2>5
  <2>7. ~PagesSealed /\ spill.pages # <<>> BY <1>7 DEF PagesSealed
  <2>8. Grown(spill.pages, inbox, v)
    <3>1. Len(spill.pages) \in DOMAIN spill.pages /\ \A i \in 1..(Len(spill.pages) - 1) : i \in DOMAIN spill.pages /\ i # Len(spill.pages)
      BY <1>2, <2>7
    <3> QED BY <1>2, <2>1, <2>2, <2>7, <3>1 DEF Grown, Windows
  <2> QED BY <1>1, <2>6, <2>7, <2>8
<1> QED BY <1>5, <1>6, <1>7

\* The live pages that are not acknowledged, by their place.
LEMMA UnackedAre ==
  ASSUME RelayInv
  PROVE  /\ Unacked \in Seq(Line) /\ Len(Unacked) = Len(spill.pages) - spill.acked
         /\ \A i \in 1..(Len(spill.pages) - spill.acked) : Unacked[i] = spill.pages[spill.acked + i]
         /\ spill.pages \in Seq(Line) /\ spill.acked \in 0..Len(spill.pages)
<1>1. spill.pages \in Seq(Line) /\ spill.acked \in 0..Len(spill.pages)
  BY DEF RelayInv, RelayTypes, Delivered, Windows
<1>2. PICK h : h = SubSeq(spill.pages, 1, spill.acked) OBVIOUS
<1>3. /\ Unacked \in Seq(Line) /\ Len(h) = spill.acked /\ Len(Unacked) = Len(spill.pages) - spill.acked
      /\ Catenates(h, Unacked, spill.pages)
  BY <1>1, <1>2, SplitCatenates DEF Unacked
<1> QED BY <1>1, <1>3 DEF Catenates

\* Cutting off the front and appending commute.
LEMMA TailOfAppend ==
  ASSUME NEW ps \in Seq(Line), NEW a \in 0..Len(ps), NEW w \in Line
  PROVE  SubSeq(Append(ps, w), a + 1, Len(Append(ps, w))) = Append(SubSeq(ps, a + 1, Len(ps)), w)
<1>1. PICK qs : qs = Append(ps, w) OBVIOUS
<1>2. /\ qs \in Seq(Line) /\ Len(qs) = Len(ps) + 1 /\ qs[Len(ps) + 1] = w
      /\ \A i \in 1..Len(ps) : qs[i] = ps[i]
  BY <1>1
<1>3. PICK h1, t1 : h1 = SubSeq(ps, 1, a) /\ t1 = SubSeq(ps, a + 1, Len(ps)) OBVIOUS
<1>4. t1 \in Seq(Line) /\ Len(h1) = a /\ Len(t1) = Len(ps) - a /\ Catenates(h1, t1, ps)
  BY <1>3, SplitCatenates
<1>5. PICK h2, t2 : h2 = SubSeq(qs, 1, a) /\ t2 = SubSeq(qs, a + 1, Len(qs)) OBVIOUS
<1>6. t2 \in Seq(Line) /\ Len(h2) = a /\ Len(t2) = Len(ps) + 1 - a /\ Catenates(h2, t2, qs)
  <2>1. a \in 0..Len(qs) BY <1>2
  <2> QED BY <1>2, <1>5, <2>1, SplitCatenates
<1>7. PICK t3 : t3 = Append(t1, w) OBVIOUS
<1>8. /\ t3 \in Seq(Line) /\ Len(t3) = Len(ps) + 1 - a /\ t3[Len(ps) + 1 - a] = w
      /\ \A i \in 1..(Len(ps) - a) : t3[i] = t1[i]
  BY <1>4, <1>7
<1>9. \A i \in 1..Len(t2) : t2[i] = t3[i]
  <2> SUFFICES ASSUME NEW i \in 1..Len(t2) PROVE t2[i] = t3[i] OBVIOUS
  <2>1. t2[i] = qs[a + i] BY <1>6 DEF Catenates
  <2>2. CASE i = Len(ps) + 1 - a
    <3>1. a + i = Len(ps) + 1 BY <2>2
    <3> QED BY <1>2, <1>8, <2>1, <2>2, <3>1
  <2>3. CASE i # Len(ps) + 1 - a
    <3>1. i \in 1..(Len(ps) - a) /\ a + i \in 1..Len(ps) BY <1>6, <2>3
    <3>2. t1[i] = ps[a + i] BY <1>4, <3>1 DEF Catenates
    <3> QED BY <1>2, <1>8, <2>1, <3>1, <3>2
  <2> QED BY <2>2, <2>3
<1>10. t2 = t3 BY <1>6, <1>8, <1>9, SeqEqual
<1> QED BY <1>1, <1>3, <1>5, <1>7, <1>10

\* The last of the windows took in w.
LEMMA TailOfGrown ==
  ASSUME NEW ps \in Seq(Line), NEW w, NEW qs, Grown(ps, w, qs), NEW a \in 0..Len(ps)
  PROVE  \/ a = Len(ps) /\ SubSeq(qs, a + 1, Len(qs)) = <<>>
         \/ a < Len(ps) /\ Grown(SubSeq(ps, a + 1, Len(ps)), w, SubSeq(qs, a + 1, Len(qs)))
<1>1. PICK h1, t1 : h1 = SubSeq(ps, 1, a) /\ t1 = SubSeq(ps, a + 1, Len(ps)) OBVIOUS
<1>2. t1 \in Seq(Line) /\ Len(h1) = a /\ Len(t1) = Len(ps) - a /\ Catenates(h1, t1, ps)
  BY <1>1, SplitCatenates
<1>3. PICK h2, t2 : h2 = SubSeq(qs, 1, a) /\ t2 = SubSeq(qs, a + 1, Len(qs)) OBVIOUS
<1>4. a \in 0..Len(qs) /\ qs \in Seq(Line) /\ Len(qs) = Len(ps) BY DEF Grown
<1>5. t2 \in Seq(Line) /\ Len(h2) = a /\ Len(t2) = Len(ps) - a /\ Catenates(h2, t2, qs)
  BY <1>3, <1>4, SplitCatenates
<1>6. CASE a = Len(ps)
  <2>1. Len(t2) = 0 BY <1>5, <1>6
  <2>2. t2 = <<>> BY <1>5, <2>1
  <2> QED BY <1>3, <1>6, <2>2
<1>7. CASE a < Len(ps)
  <2>1. Len(t1) \in 1..Len(t1) /\ a + Len(t1) = Len(ps) /\ t1 # <<>> BY <1>2, <1>7
  <2>2. \A i \in 1..Len(t1) : t1[i] = ps[a + i] /\ t2[i] = qs[a + i]
    BY <1>2, <1>5 DEF Catenates
  <2>3. t2[Len(t1)] = t1[Len(t1)] \o w BY <2>1, <2>2 DEF Grown
  <2>4. \A i \in 1..(Len(t1) - 1) : t2[i] = t1[i]
    <3> SUFFICES ASSUME NEW i \in 1..(Len(t1) - 1) PROVE t2[i] = t1[i] OBVIOUS
    <3>1. i \in 1..Len(t1) /\ a + i \in 1..(Len(ps) - 1) BY <1>2, <1>7
    <3> QED BY <2>2, <3>1 DEF Grown
  <2>5. Grown(t1, w, t2) BY <1>2, <1>5, <2>1, <2>3, <2>4 DEF Grown
  <2> QED BY <1>1, <1>3, <1>7, <2>5
<1> QED BY <1>6, <1>7

\* The operations in front left the link for good: the rest is still complete.
LEMMA FrontLeft ==
  ASSUME NEW n \in Nat, NEW front, NEW rest, NEW lossless, Complete(n, lossless, front \cup rest),
         \A x \in front, m \in rest : x < m
  PROVE  Complete(n, lossless, rest)
<1>1. front \cup rest \subseteq 1..n /\ rest \subseteq 1..n BY DEF Complete
<1>2. ASSUME lossless, NEW m \in rest, NEW x \in m..n PROVE x \in rest
  <2>1. x \in front \cup rest BY <1>2 DEF Complete
  <2>2. CASE x \in front
    <3>1. x < m /\ m <= x BY <1>1, <2>2
    <3> QED BY <1>1, <2>2, <3>1
  <2> QED BY <2>1, <2>2
<1> QED BY <1>1, <1>2 DEF Complete

\* spill: the window becomes the last page, or the end of the open one.  An open page
\* that is acknowledged already takes the window out of the link.
LEMMA ConsumeKeeps == ASSUME RelayInv, Consume PROVE RelayInv'
<1>1. /\ UNCHANGED <<relayConfig, sent, shards, frames, ranked, egressCursor, downstream>>
      /\ inbox' = <<>> /\ spill' = IF inbox = <<>> THEN spill ELSE Spilled(spill, inbox)
  BY DEF Consume
<1>2. <<>> \in Line BY DEF Line
<1>3. CASE inbox = <<>>
  <2>1. UNCHANGED <<inbox, spill>> BY <1>1, <1>3
  <2>2. RelayTypes' BY <1>1, <2>1 DEF RelayInv, RelayTypes, OfItsKey
  <2>3. Delivered' BY <1>1, <2>1 DEF RelayInv, Delivered, PagesSealed
  <2>4. ASSUME NEW k \in RelayKeys PROVE KeyKept(k)' BY <1>1, <2>1, StayedPut
  <2> QED BY <2>2, <2>3, <2>4 DEF RelayInv
<1>4. CASE inbox # <<>>
  <2>1. PICK ps, qs : ps = spill.pages /\ qs = spill'.pages OBVIOUS
  <2>2. /\ spill' \in [pages : Windows, open_fill : Nat, acked : Nat] /\ spill'.acked = spill.acked
        /\ qs = Append(ps, inbox) \/ (~PagesSealed /\ Grown(ps, inbox, qs))
    BY <1>1, <1>4, <2>1, SpilledPages
  <2>3. ps \in Seq(Line) /\ spill.acked \in 0..Len(ps) /\ qs \in Seq(Line) /\ inbox \in Line
    BY <2>1, <2>2 DEF RelayInv, RelayTypes, Delivered, Windows
  <2>4. RelayTypes' BY <1>1, <1>2, <2>2 DEF RelayInv, RelayTypes, OfItsKey
  <2>5. Delivered'
    <3>1. /\ egressCursor \in Nat /\ spill.acked <= egressCursor /\ egressCursor <= Len(ps)
          /\ PagesSealed => \A i \in 1..egressCursor : \A x \in DOMAIN ps[i] : ps[i][x] \in downstream
      BY <2>1 DEF RelayInv, Delivered
    <3>2. egressCursor <= Len(qs)
      <4>1. CASE qs = Append(ps, inbox) BY <2>3, <3>1, <4>1
      <4>2. CASE Grown(ps, inbox, qs) BY <3>1, <4>2 DEF Grown
      <4> QED BY <2>2, <4>1, <4>2
    <3>3. PagesSealed => \A i \in 1..egressCursor : qs[i] = ps[i] BY <2>2, <2>3, <3>1
    <3>4. PagesSealed => \A i \in 1..egressCursor : \A x \in DOMAIN qs[i] : qs[i][x] \in downstream
      BY <3>1, <3>3
    <3> QED BY <1>1, <2>1, <2>2, <3>1, <3>2, <3>4 DEF Delivered, PagesSealed
  <2>6. ASSUME NEW k \in RelayKeys PROVE KeyKept(k)'
    <3>1. KeyKept(k) BY DEF RelayInv
    <3>2. PICK u, i, r, f, h : /\ u = Unacked /\ i = <<inbox>> /\ r = Ops(ranked) /\ f = Ops(frames)
                               /\ h = <<shards[k].head>>
      OBVIOUS
    <3>3. LinedUp(k, u, i, r, f, h) /\ Rest(k) = Everything(k, u, i, r, f, h)
      BY <3>1, <3>2 DEF KeyKept, Rest
    <3>4. PICK u2, i2 : u2 = Unacked' /\ i2 = << <<>> >> OBVIOUS
    <3>5. u = SubSeq(ps, spill.acked + 1, Len(ps)) /\ u2 = SubSeq(qs, spill.acked + 1, Len(qs))
      BY <2>1, <2>2, <3>2, <3>4 DEF Unacked
    <3>6. u \in Windows BY <3>2, LineTypes
    <3>7. InOrder(k, i2) /\ NumbersIn(k, i2) = {} BY <3>4, Nothing
    <3>8. /\ Unacked' = u2 /\ <<inbox>>' = i2 /\ Ops(ranked)' = r /\ Ops(frames)' = f
          /\ <<shards[k].head>>' = h
      BY <1>1, <3>2, <3>4 DEF Ops
    <3>9. InOrder(k, u) /\ InOrder(k, <<inbox>>) /\ Ahead(k, u, <<inbox>>) BY <3>2, <3>3 DEF LinedUp
    <3>10. \/ u2 = Append(u, inbox) \/ Grown(u, inbox, u2)
           \/ ~PagesSealed /\ u = <<>> /\ u2 = <<>>
      <4>1. CASE qs = Append(ps, inbox) BY <2>3, <3>5, <4>1, TailOfAppend
      <4>2. CASE ~PagesSealed /\ Grown(ps, inbox, qs)
        <5>1. \/ spill.acked = Len(ps) /\ u2 = <<>>
              \/ Grown(u, inbox, u2)
          BY <2>3, <3>5, <4>2, TailOfGrown
        <5>2. spill.acked = Len(ps) => u = <<>>
          <6>1. Len(u) = Len(ps) - spill.acked /\ u \in Seq(Line) BY <2>1, <3>2, UnackedAre
          <6> QED BY <2>3, <6>1
        <5> QED BY <4>2, <5>1, <5>2
      <4> QED BY <2>2, <4>1, <4>2
    <3>11. CASE u2 = Append(u, inbox) \/ Grown(u, inbox, u2)
      <4>1. InOrder(k, u2) /\ NumbersIn(k, u2) = NumbersIn(k, u) \cup NumbersIn(k, i)
        <5>1. CASE u2 = Append(u, inbox) BY <2>3, <3>2, <3>6, <3>9, <5>1, Appended
        <5>2. CASE Grown(u, inbox, u2) BY <2>3, <3>2, <3>6, <3>9, <5>2, Extended
        <5> QED BY <3>11, <5>1, <5>2
      <4>2. LinedUp(k, u2, i2, r, f, h) BY <3>3, <3>7, <4>1 DEF LinedUp, Ahead
      <4>3. Everything(k, u2, i2, r, f, h) = Rest(k) BY <3>3, <3>7, <4>1 DEF Everything
      <4> QED BY <1>1, <3>1, <3>8, <4>2, <4>3, MovedOn
    <3>12. CASE ~PagesSealed /\ u = <<>> /\ u2 = <<>>
      <4>1. NumbersIn(k, u) = {} /\ u2 = u BY <3>12 DEF NumbersIn
      <4>2. LinedUp(k, u2, i2, r, f, h) BY <3>3, <3>7, <4>1 DEF LinedUp, Ahead
      <4>3. PICK all : all = Everything(k, u2, i2, r, f, h) OBVIOUS
      <4>4. NumbersIn(k, i) \cup all = Rest(k) BY <3>3, <3>7, <4>1, <4>3 DEF Everything
      <4>5. \A x \in NumbersIn(k, i), m \in all : x < m
        <5>1. all = NumbersIn(k, r) \cup NumbersIn(k, f) \cup NumbersIn(k, h)
          BY <3>7, <4>1, <4>3 DEF Everything
        <5> QED BY <3>3, <5>1 DEF LinedUp, Ahead
      <4>6. sent[k] \in Nat BY DEF RelayInv, RelayTypes
      <4>7. Complete(sent[k], Lossless, NumbersIn(k, i) \cup all) BY <3>1, <4>4 DEF KeyKept
      <4>8. Complete(sent[k], Lossless, all) BY <4>5, <4>6, <4>7, FrontLeft
      <4>9. Complete(sent'[k], Lossless, all) BY <1>1, <4>8
      <4> QED BY <1>1, <3>8, <3>12, <4>2, <4>3, <4>9, NextKept
    <3> QED BY <3>10, <3>11, <3>12
  <2> QED BY <2>4, <2>5, <2>6 DEF RelayInv
<1> QED BY <1>3, <1>4

\* The pages between two cursors.
LEMMA TailOfTail ==
  ASSUME NEW ps \in Seq(Line), NEW a \in 0..Len(ps), NEW c \in a..Len(ps)
  PROVE  \E v \in Seq(Line) :
           /\ Catenates(v, SubSeq(ps, c + 1, Len(ps)), SubSeq(ps, a + 1, Len(ps)))
           /\ \A j \in DOMAIN v : a + j \in 1..c /\ v[j] = ps[a + j]
<1> PICK u, u2 : u = SubSeq(ps, a + 1, Len(ps)) /\ u2 = SubSeq(ps, c + 1, Len(ps)) OBVIOUS
<1>1. PICK h1 : h1 = SubSeq(ps, 1, a) OBVIOUS
<1>2. u \in Seq(Line) /\ Len(h1) = a /\ Len(u) = Len(ps) - a /\ Catenates(h1, u, ps)
  BY <1>1, SplitCatenates
<1>3. PICK h2 : h2 = SubSeq(ps, 1, c) OBVIOUS
<1>4. u2 \in Seq(Line) /\ Len(h2) = c /\ Len(u2) = Len(ps) - c /\ Catenates(h2, u2, ps)
  <2>1. c \in 0..Len(ps) OBVIOUS
  <2> QED BY <1>3, <2>1, SplitCatenates
<1>5. PICK n : n = c - a OBVIOUS
<1>6. n \in 0..Len(u) BY <1>2, <1>5
<1>7. PICK v : v = SubSeq(u, 1, n) OBVIOUS
<1>8. v \in Seq(Line) /\ Len(v) = n /\ \A j \in 1..n : v[j] = u[j]
  <2>1. Catenates(v, SubSeq(u, n + 1, Len(u)), u) /\ v \in Seq(Line) /\ Len(v) = n
    BY <1>2, <1>6, <1>7, SplitCatenates
  <2> QED BY <2>1 DEF Catenates
<1>9. \A j \in 1..Len(u) : u[j] = ps[a + j] BY <1>2 DEF Catenates
<1>10. \A j \in 1..Len(u2) : u2[j] = ps[c + j] BY <1>4 DEF Catenates
<1>11. Catenates(v, u2, u)
  <2>1. DOMAIN u = 1..(Len(v) + Len(u2)) BY <1>2, <1>4, <1>5, <1>8
  <2>2. \A j \in 1..Len(u2) : u[Len(v) + j] = u2[j]
    <3> SUFFICES ASSUME NEW j \in 1..Len(u2) PROVE u[Len(v) + j] = u2[j] OBVIOUS
    <3>1. Len(v) + j \in 1..Len(u) /\ a + (Len(v) + j) = c + j BY <1>2, <1>4, <1>5, <1>8
    <3> QED BY <1>9, <1>10, <3>1
  <2> QED BY <1>8, <2>1, <2>2 DEF Catenates
<1>12. \A j \in DOMAIN v : a + j \in 1..c /\ v[j] = ps[a + j]
  <2> SUFFICES ASSUME NEW j \in DOMAIN v PROVE a + j \in 1..c /\ v[j] = ps[a + j] OBVIOUS
  <2>1. j \in 1..n /\ j \in 1..Len(u) /\ a + j \in 1..c BY <1>2, <1>5, <1>6, <1>8
  <2> QED BY <1>8, <1>9, <2>1
<1> QED BY <1>8, <1>11, <1>12

\* deliver: one page more has been delivered.
LEMMA DeliverPageKeeps == ASSUME RelayInv, DeliverPage PROVE RelayInv'
<1>1. /\ UNCHANGED <<relayConfig, sent, shards, frames, ranked, inbox, spill>>
      /\ egressCursor < Len(spill.pages) /\ egressCursor' = egressCursor + 1
      /\ downstream' = downstream \cup ToSet(spill.pages[egressCursor + 1])
  BY DEF DeliverPage
<1>2. RelayTypes' BY <1>1 DEF RelayInv, RelayTypes, OfItsKey
<1>3. Delivered'
  <2>1. /\ egressCursor \in Nat /\ spill.acked <= egressCursor /\ spill.acked \in Nat
        /\ spill.pages \in Seq(Line)
    BY DEF RelayInv, RelayTypes, Delivered, Windows
  <2>2. ASSUME PagesSealed, NEW i \in 1..(egressCursor + 1), NEW x \in DOMAIN spill.pages[i]
        PROVE  spill.pages[i][x] \in downstream'
    <3>1. CASE i \in 1..egressCursor BY <1>1, <2>2, <3>1 DEF RelayInv, Delivered
    <3>2. CASE i = egressCursor + 1 BY <1>1, <2>2, <3>2 DEF ToSet
    <3> QED BY <2>1, <3>1, <3>2
  <2>3. egressCursor + 1 <= Len(spill.pages) /\ egressCursor + 1 \in Nat /\ spill.acked <= egressCursor + 1
    BY <1>1, <2>1
  <2> QED BY <1>1, <2>2, <2>3 DEF Delivered, PagesSealed
<1>4. ASSUME NEW k \in RelayKeys PROVE KeyKept(k)' BY <1>1, StayedPut
<1> QED BY <1>2, <1>3, <1>4 DEF RelayInv

\* ack_through: the pages acknowledged were delivered, and are first in line.
LEMMA AckKeeps == ASSUME RelayInv, AckPages PROVE RelayInv'
<1>1. /\ UNCHANGED <<relayConfig, sent, shards, frames, ranked, inbox, egressCursor, downstream>>
      /\ spill.acked < egressCursor /\ spill' = [spill EXCEPT !.acked = egressCursor]
  BY DEF AckPages, AckedThrough
<1>2. PICK ps, a, c : ps = spill.pages /\ a = spill.acked /\ c = egressCursor OBVIOUS
<1>3. /\ ps \in Seq(Line) /\ a \in 0..Len(ps) /\ c \in a..Len(ps) /\ c \in Nat
      /\ spill'.pages = ps /\ spill'.acked = c
      /\ spill' \in [pages : Windows, open_fill : Nat, acked : Nat]
      /\ PagesSealed => \A i \in 1..c : \A x \in DOMAIN ps[i] : ps[i][x] \in downstream
  <2>1. ps \in Seq(Line) /\ spill \in [pages : Windows, open_fill : Nat, acked : Nat]
    BY <1>2 DEF RelayInv, RelayTypes, Windows
  <2>2. /\ c \in Nat /\ a <= c /\ c <= Len(ps)
        /\ PagesSealed => \A i \in 1..c : \A x \in DOMAIN ps[i] : ps[i][x] \in downstream
    BY <1>2 DEF RelayInv, Delivered
  <2>3. a \in Nat /\ Len(ps) \in Nat BY <1>2, <2>1
  <2>4. a \in 0..Len(ps) /\ c \in a..Len(ps) BY <2>2, <2>3
  <2>5. spill' = [spill EXCEPT !.acked = c] BY <1>1, <1>2
  <2>6. /\ spill'.pages = ps /\ spill'.acked = c
        /\ spill' \in [pages : Windows, open_fill : Nat, acked : Nat]
    BY <1>2, <2>1, <2>2, <2>5
  <2> QED BY <2>1, <2>2, <2>4, <2>6
<1>4. RelayTypes' BY <1>1, <1>3 DEF RelayInv, RelayTypes, OfItsKey
<1>5. Delivered' BY <1>1, <1>2, <1>3 DEF Delivered, PagesSealed
<1>6. ASSUME NEW k \in RelayKeys PROVE KeyKept(k)'
  <2>1. KeyKept(k) BY DEF RelayInv
  <2>2. PICK u, i, r, f, h : /\ u = Unacked /\ i = <<inbox>> /\ r = Ops(ranked) /\ f = Ops(frames)
                             /\ h = <<shards[k].head>>
    OBVIOUS
  <2>3. LinedUp(k, u, i, r, f, h) /\ Rest(k) = Everything(k, u, i, r, f, h)
    BY <2>1, <2>2 DEF KeyKept, Rest
  <2>4. PICK u2 : u2 = Unacked' OBVIOUS
  <2>5. /\ u = SubSeq(ps, a + 1, Len(ps)) /\ u2 = SubSeq(ps, c + 1, Len(ps))
    BY <1>2, <1>3, <2>2, <2>4 DEF Unacked
  <2>6. PICK v \in Seq(Line) :
          Catenates(v, u2, u) /\ \A j \in DOMAIN v : a + j \in 1..c /\ v[j] = ps[a + j]
    <3>1. \E v \in Seq(Line) :
             /\ Catenates(v, SubSeq(ps, c + 1, Len(ps)), SubSeq(ps, a + 1, Len(ps)))
             /\ \A j \in DOMAIN v : a + j \in 1..c /\ v[j] = ps[a + j]
      BY <1>3, TailOfTail
    <3> QED BY <2>5, <3>1, Zenon
  <2>7. u \in Windows /\ u2 \in Windows /\ v \in Windows
    <3>1. c \in 0..Len(ps) BY <1>3
    <3> QED BY <1>3, <2>5, <2>6, <3>1, SplitCatenates DEF Windows
  <2>8. InOrder(k, u2) /\ Ahead(k, v, u2) /\ NumbersIn(k, u) = NumbersIn(k, v) \cup NumbersIn(k, u2)
    BY <2>3, <2>6, <2>7, CutInOrder, CatenatedNumbers DEF LinedUp
  <2>9. LinedUp(k, u2, i, r, f, h) BY <2>3, <2>8 DEF LinedUp, Ahead
  <2>10. PICK all : all = Everything(k, u2, i, r, f, h) OBVIOUS
  <2>11. NumbersIn(k, v) \cup all = Rest(k) BY <2>3, <2>8, <2>10 DEF Everything
  <2>12. \A x \in NumbersIn(k, v), m \in all : x < m
    BY <2>3, <2>8, <2>10 DEF Everything, LinedUp, Ahead
  <2>13. sent[k] \in Nat BY DEF RelayInv, RelayTypes
  <2>14. Complete(sent[k], Lossless, NumbersIn(k, v) \cup all) BY <2>1, <2>11 DEF KeyKept
  <2>15. Complete(sent'[k], Lossless, all) BY <1>1, <2>12, <2>13, <2>14, FrontLeft
  <2>16. ASSUME Lossless, PagesSealed, NEW n \in 1..sent'[k] PROVE <<k, n>> \in downstream' \/ n \in all
    <3>1. <<k, n>> \in downstream \/ n \in Rest(k) BY <1>1, <2>1, <2>16 DEF KeyKept
    <3>2. CASE n \in NumbersIn(k, v)
      <4>1. PICK j \in DOMAIN v : \E x \in DOMAIN v[j] : v[j][x] = <<k, n>> BY <3>2 DEF NumbersIn
      <4>2. PICK x \in DOMAIN v[j] : v[j][x] = <<k, n>> BY <4>1
      <4>3. a + j \in 1..c /\ v[j] = ps[a + j] BY <2>6
      <4>4. ps[a + j][x] \in downstream BY <1>3, <2>16, <4>2, <4>3
      <4> QED BY <1>1, <4>2, <4>3, <4>4
    <3> QED BY <1>1, <2>11, <3>1, <3>2
  <2>17. /\ Unacked' = u2 /\ <<inbox>>' = i /\ Ops(ranked)' = r /\ Ops(frames)' = f
         /\ <<shards[k].head>>' = h
    BY <1>1, <2>2, <2>4 DEF Ops
  <2> QED BY <1>1, <2>9, <2>10, <2>15, <2>16, <2>17, NextKept
<1> QED BY <1>4, <1>5, <1>6 DEF RelayInv

\* reclaim drops acknowledged pages and moves the cursor with them.
LEMMA ReclaimKeeps == ASSUME RelayInv, Reclaim PROVE RelayInv'
<1>1. /\ UNCHANGED <<relayConfig, sent, shards, frames, ranked, inbox, downstream>>
      /\ spill.acked > 0
      /\ spill' = [spill EXCEPT !.pages = SubSeq(@, spill.acked + 1, Len(@)), !.acked = 0]
      /\ egressCursor' = IF egressCursor > spill.acked THEN egressCursor - spill.acked ELSE 0
  BY DEF Reclaim
<1>2. PICK ps, a, c : ps = spill.pages /\ a = spill.acked /\ c = egressCursor OBVIOUS
<1>3. /\ ps \in Seq(Line) /\ a \in 0..Len(ps) /\ c \in a..Len(ps) /\ c \in Nat
      /\ spill \in [pages : Windows, open_fill : Nat, acked : Nat]
      /\ PagesSealed => \A i \in 1..c : \A x \in DOMAIN ps[i] : ps[i][x] \in downstream
  BY <1>1, <1>2 DEF RelayInv, RelayTypes, Delivered, Windows
<1>4. PICK u : u = Unacked OBVIOUS
<1>5. /\ u \in Seq(Line) /\ Len(u) = Len(ps) - a
      /\ \A i \in 1..(Len(ps) - a) : u[i] = ps[a + i]
  BY <1>2, <1>4, UnackedAre
<1>6. /\ spill' \in [pages : Windows, open_fill : Nat, acked : Nat]
      /\ spill'.pages = u /\ spill'.acked = 0
  <2>1. PICK q : q = [spill EXCEPT !.pages = u] OBVIOUS
  <2>2. spill' = [q EXCEPT !.acked = 0]
    <3>1. spill' = [[spill EXCEPT !.pages = u] EXCEPT !.acked = 0]
      BY <1>1, <1>3, <1>4 DEF Unacked
    <3> QED BY <2>1, <3>1, Zenon
  <2>3. q \in [pages : Windows, open_fill : Nat, acked : Nat] /\ q.pages = u
    BY <1>3, <1>5, <2>1 DEF Windows
  <2> QED BY <2>2, <2>3
<1>7. egressCursor' = c - a BY <1>1, <1>2, <1>3
<1>8. RelayTypes' BY <1>1, <1>6 DEF RelayInv, RelayTypes, OfItsKey
<1>9. Delivered'
  <2>1. c - a \in Nat /\ 0 <= c - a /\ c - a <= Len(u) BY <1>3, <1>5
  <2>2. ASSUME PagesSealed, NEW i \in 1..(c - a), NEW x \in DOMAIN u[i] PROVE u[i][x] \in downstream
    <3>1. i \in 1..(Len(ps) - a) /\ a + i \in 1..c BY <1>3
    <3> QED BY <1>3, <1>5, <2>2, <3>1
  <2> QED BY <1>1, <1>6, <1>7, <2>1, <2>2 DEF Delivered, PagesSealed
<1>10. Unacked' = Unacked
  <2>1. Unacked' = SubSeq(u, 0 + 1, Len(u)) BY <1>6 DEF Unacked
  <2>2. SubSeq(u, 0 + 1, Len(u)) = u BY <1>5
  <2> QED BY <1>4, <2>1, <2>2
<1>11. ASSUME NEW k \in RelayKeys PROVE KeyKept(k)'
  <2>1. KeyKept(k) BY DEF RelayInv
  <2>2. /\ <<inbox>>' = <<inbox>> /\ Ops(ranked)' = Ops(ranked) /\ Ops(frames)' = Ops(frames)
        /\ <<shards[k].head>>' = <<shards[k].head>>
    BY <1>1 DEF Ops
  <2>3. LinedUp(k, Unacked, <<inbox>>, Ops(ranked), Ops(frames), <<shards[k].head>>)
    BY <2>1 DEF KeyKept
  <2>4. Everything(k, Unacked, <<inbox>>, Ops(ranked), Ops(frames), <<shards[k].head>>) = Rest(k)
    BY DEF Rest
  <2> QED BY <1>1, <1>10, <2>1, <2>2, <2>3, <2>4, MovedOn
<1> QED BY <1>8, <1>9, <1>11 DEF RelayInv

\* A restarted egress goes back to the acknowledged pages.
LEMMA CrashKeeps == ASSUME RelayInv, CrashEgress PROVE RelayInv'
<1>1. /\ UNCHANGED <<relayConfig, sent, shards, frames, ranked, inbox, spill, downstream>>
      /\ egressCursor' = spill.acked
  BY DEF CrashEgress
<1>2. RelayTypes' BY <1>1 DEF RelayInv, RelayTypes, OfItsKey
<1>3. Delivered'
  <2>1. spill.acked \in Nat BY DEF RelayInv, RelayTypes
  <2>2. /\ egressCursor \in Nat /\ spill.acked <= egressCursor /\ egressCursor <= Len(spill.pages)
        /\ PagesSealed => \A i \in 1..egressCursor : \A x \in DOMAIN spill.pages[i] :
                             spill.pages[i][x] \in downstream
    BY DEF RelayInv, Delivered
  <2>3. spill.pages \in Seq(Line) BY DEF RelayInv, RelayTypes, Windows
  <2>4. spill.acked <= Len(spill.pages) /\ \A i \in 1..spill.acked : i \in 1..egressCursor
    BY <2>1, <2>2, <2>3
  <2> QED BY <1>1, <2>1, <2>2, <2>4 DEF Delivered, PagesSealed
<1>4. ASSUME NEW k \in RelayKeys PROVE KeyKept(k)' BY <1>1, StayedPut
<1> QED BY <1>2, <1>3, <1>4 DEF RelayInv

\* A window that elapses makes its shard due and moves no operation.
LEMMA WindowTickKeeps == ASSUME RelayInv, NEW key \in RelayKeys, WindowTick(key) PROVE RelayInv'
<1>1. /\ UNCHANGED <<relayConfig, sent, frames, ranked, inbox, spill, egressCursor, downstream>>
      /\ shards' = [shards EXCEPT ![key].windowed = 0, ![key].due = TRUE]
  BY DEF WindowTick
<1>2. shards \in [RelayKeys -> [head : Line, pending : Nat, windowed : Nat, due : BOOLEAN]]
  BY DEF RelayInv, RelayTypes
<1>3. PICK r : r = shards[key] OBVIOUS
<1>4. PICK q : q = [r EXCEPT !.windowed = 0] OBVIOUS
<1>5. PICK p : p = [q EXCEPT !.due = TRUE] OBVIOUS
<1>6. shards' = [shards EXCEPT ![key] = p]
  BY <1>1, <1>2, <1>3, <1>4, <1>5
<1>7. /\ p \in [head : Line, pending : Nat, windowed : Nat, due : BOOLEAN] /\ p.head = r.head
  <2>1. q \in [head : Line, pending : Nat, windowed : Nat, due : BOOLEAN] /\ q.head = r.head
    BY <1>2, <1>3, <1>4
  <2> QED BY <1>5, <2>1
<1>8. /\ shards' \in [RelayKeys -> [head : Line, pending : Nat, windowed : Nat, due : BOOLEAN]]
      /\ \A k \in RelayKeys : shards'[k].head = shards[k].head
  BY <1>2, <1>3, <1>6, <1>7
<1>9. RelayTypes' BY <1>1, <1>8 DEF RelayInv, RelayTypes, OfItsKey
<1>10. Delivered' BY <1>1 DEF RelayInv, Delivered, PagesSealed
<1>11. ASSUME NEW k \in RelayKeys PROVE KeyKept(k)' BY <1>1, <1>8, StayedPut
<1> QED BY <1>9, <1>10, <1>11 DEF RelayInv

-----------------------------------------------------------------------------

\* Every step of the link keeps the invariant.
LEMMA RelayInvStep == RelayInv /\ [RelayNext]_relayVars => RelayInv'
<1> SUFFICES ASSUME RelayInv, [RelayNext]_relayVars PROVE RelayInv' OBVIOUS
<1>1. CASE UNCHANGED <<relayConfig, sent, shards, frames, ranked, inbox, spill, egressCursor, downstream>>
  <2>1. RelayTypes' BY <1>1 DEF RelayInv, RelayTypes, OfItsKey
  <2>2. Delivered' BY <1>1 DEF RelayInv, Delivered, PagesSealed
  <2>3. ASSUME NEW k \in RelayKeys PROVE KeyKept(k)' BY <1>1, StayedPut
  <2> QED BY <2>1, <2>2, <2>3 DEF RelayInv
<1>2. CASE RateTick \/ UNCHANGED relayVars BY <1>1, <1>2 DEF RateTick, relayVars
<1>3. ASSUME NEW k \in RelayKeys, SendOp(k) PROVE RelayInv' BY <1>3, SendKeeps
<1>4. ASSUME NEW k \in RelayKeys, WindowTick(k) PROVE RelayInv' BY <1>4, WindowTickKeeps
<1>5. ASSUME NEW k \in RelayKeys, DrainShard(k) PROVE RelayInv' BY <1>5, DrainKeeps
<1>6. CASE Poll BY <1>6, PollKeeps
<1>7. CASE ReceiveOp BY <1>7, ReceiveKeeps
<1>8. CASE Consume BY <1>8, ConsumeKeeps
<1>9. CASE DeliverPage BY <1>9, DeliverPageKeeps
<1>10. CASE AckPages BY <1>10, AckKeeps
<1>11. CASE Reclaim BY <1>11, ReclaimKeeps
<1>12. CASE CrashEgress BY <1>12, CrashKeeps
<1> QED BY <1>2, <1>3, <1>4, <1>5, <1>6, <1>7, <1>8, <1>9, <1>10, <1>11, <1>12 DEF RelayNext

\* RelayKeeps for any keys, overflow policies, windows, frames, credits, page sizes
\* and crashes: the operations of a key stay in order, a lossless policy leaves no
\* hole, and what is not delivered yet will be replayed.
THEOREM LinkKeeps == RelaySpec => []RelayKeeps
<1>1. RelayInit => RelayInv BY RelayInvInit
<1>2. RelayInv /\ [RelayNext]_relayVars => RelayInv' BY RelayInvStep
<1>3. RelayInv => RelayKeeps BY RelayInvImplies
<1> QED BY <1>1, <1>2, <1>3, PTL DEF RelaySpec

-----------------------------------------------------------------------------
(* Reliable sync *)

\* Every frame, wherever it is, carries events the sender has accepted, and
\* the receiver is not ahead of them.
FramesAccepted ==
  /\ stored \subseteq appended /\ IsFiniteSet(stored)
  /\ appended \subseteq Frames /\ \A f \in appended : f.kind = "delta" /\ f.epoch <= epoch
  /\ \A i \in DOMAIN enqueued : enqueued[i].kind = "delta" /\ enqueued[i].epoch <= epoch
  /\ \A i \in DOMAIN replaying : replaying[i].kind = "delta" /\ replaying[i].epoch <= epoch
  /\ \A i \in DOMAIN toReceiver : toReceiver[i].epoch <= epoch
  /\ last_epoch <= epoch

\* An epoch names one frame of the outbox, and deltas are enqueued in order.
EpochsDistinct ==
  /\ \A f, g \in appended : f.epoch = g.epoch => f = g
  /\ \A f \in appended, i \in DOMAIN enqueued : f.epoch < enqueued[i].epoch
  /\ \A i, j \in DOMAIN enqueued : i < j => enqueued[i].epoch < enqueued[j].epoch

\* A snapshot on its way is not behind the receiver, nor behind a frame that
\* was sent before it.
SnapshotsAhead ==
  \A j \in DOMAIN toReceiver : toReceiver[j].kind = "snapshot" =>
    /\ last_epoch <= toReceiver[j].epoch
    /\ \A i \in DOMAIN toReceiver : i < j => toReceiver[i].epoch <= toReceiver[j].epoch

\* What is acknowledged, or recorded as acknowledged, was reached.
AcksReached ==
  /\ \A i \in DOMAIN toSender : toSender[i].kind = "ack" => toSender[i].epoch <= last_epoch
  /\ cursor <= last_epoch /\ acked_through <= last_epoch /\ peer_acked_through <= last_epoch

\* The inductive invariant.
SyncInv ==
  /\ SyncTypeOK /\ FoldedOnce /\ RetainedUntilApplied
  /\ FramesAccepted /\ EpochsDistinct /\ SnapshotsAhead /\ AcksReached

-----------------------------------------------------------------------------
(* Lemmas about sequences and about the replay *)

\* An element of a sequence.
LEMMA ElementAt ==
  ASSUME NEW S, NEW s \in Seq(S), NEW i \in DOMAIN s
  PROVE  s[i] \in S
  OBVIOUS

\* Appending one element to a sequence.
LEMMA AppendAt ==
  ASSUME NEW S, NEW s \in Seq(S), NEW e \in S
  PROVE  /\ Append(s, e) \in Seq(S)
         /\ DOMAIN Append(s, e) = DOMAIN s \cup {Len(s) + 1}
         /\ \A i \in DOMAIN s : i < Len(s) + 1 /\ ~(Len(s) + 1 < i) /\ Append(s, e)[i] = s[i]
         /\ Append(s, e)[Len(s) + 1] = e
         /\ ~(Len(s) + 1 < Len(s) + 1)
  OBVIOUS

\* Removing the first element of a sequence.
LEMMA TailAt ==
  ASSUME NEW S, NEW s \in Seq(S), s # << >>
  PROVE  /\ Tail(s) \in Seq(S) /\ Head(s) = s[1] /\ 1 \in DOMAIN s /\ s[1] \in S
         /\ \A i \in DOMAIN Tail(s) : i \in Nat /\ i + 1 \in DOMAIN s /\ 1 < i + 1 /\ Tail(s)[i] = s[i + 1]
         /\ \A i, j \in DOMAIN Tail(s) : i < j => i + 1 < j + 1
  OBVIOUS

\* A beginning of a sequence.
LEMMA PrefixAt ==
  ASSUME NEW S, NEW s \in Seq(S), NEW n \in 0 .. Len(s)
  PROVE  /\ SubSeq(s, 1, n) \in Seq(S)
         /\ DOMAIN SubSeq(s, 1, n) \subseteq DOMAIN s
         /\ \A i \in DOMAIN SubSeq(s, 1, n) : SubSeq(s, 1, n)[i] = s[i]
  OBVIOUS

\* In a finite set of frames with distinct epochs, a frame is determined by the
\* number of frames up to it, and every number is taken.
LEMMA RankOnto ==
  ASSUME NEW A, IsFiniteSet(A), \A f \in A : f.epoch \in Nat,
         \A f, g \in A : f.epoch = g.epoch => f = g
  PROVE  /\ Cardinality(A) \in Nat
         /\ \A i \in 1..Cardinality(A) :
              \E f \in A : Cardinality({g \in A : g.epoch <= f.epoch}) = i
         /\ \A f, g \in A : f.epoch <= g.epoch =>
              Cardinality({h \in A : h.epoch <= f.epoch}) <= Cardinality({h \in A : h.epoch <= g.epoch})
         /\ \A f \in A : Cardinality({g \in A : g.epoch <= f.epoch}) \in 1..Cardinality(A)
         /\ \A f, g \in A :
              Cardinality({h \in A : h.epoch <= f.epoch}) = Cardinality({h \in A : h.epoch <= g.epoch}) => f = g
<1> DEFINE Upto(f) == {g \in A : g.epoch <= f.epoch}
<1>1. Cardinality(A) \in Nat
  BY FS_CardinalityType
<1>2. \A f \in A : IsFiniteSet(Upto(f)) /\ Cardinality(Upto(f)) <= Cardinality(A)
  BY FS_Subset
<1>3. \A f \in A : Cardinality(Upto(f)) \in Nat
  BY <1>2, FS_CardinalityType
<1>4. \A f \in A : Cardinality(Upto(f)) # 0
  <2> SUFFICES ASSUME NEW f \in A PROVE Cardinality(Upto(f)) # 0
    OBVIOUS
  <2>1. f \in Upto(f)
    OBVIOUS
  <2> QED BY <1>2, <2>1, FS_EmptySet
<1>5. ASSUME NEW f \in A, NEW g \in A, f.epoch <= g.epoch
      PROVE  /\ Cardinality(Upto(f)) <= Cardinality(Upto(g))
             /\ Cardinality(Upto(f)) = Cardinality(Upto(g)) => f = g
  <2>1. Upto(f) \in SUBSET Upto(g)
    BY <1>5
  <2>2. IsFiniteSet(Upto(g))
    BY <1>2
  <2>3. /\ Cardinality(Upto(f)) <= Cardinality(Upto(g))
        /\ Cardinality(Upto(g)) = Cardinality(Upto(f)) => Upto(g) = Upto(f)
    BY <2>1, <2>2, FS_Subset
  <2>4. g \in Upto(g)
    OBVIOUS
  <2>5. g \in Upto(f) => f = g
    BY <1>5
  <2> QED BY <2>3, <2>4, <2>5
<1> HIDE DEF Upto
<1>6. PICK r : r = [f \in A |-> Cardinality(Upto(f))]
  OBVIOUS
<1>7. r \in [A -> 1..Cardinality(A)] /\ \A f \in A : r[f] = Cardinality(Upto(f))
  BY <1>1, <1>2, <1>3, <1>4, <1>6
<1>8. \A f, g \in A : r[f] = r[g] => f = g
  <2> SUFFICES ASSUME NEW f \in A, NEW g \in A, r[f] = r[g] PROVE f = g
    OBVIOUS
  <2>1. Cardinality(Upto(f)) = Cardinality(Upto(g))
    BY <1>7
  <2>2. f.epoch <= g.epoch \/ g.epoch <= f.epoch
    OBVIOUS
  <2> QED BY <1>5, <2>1, <2>2
<1>9. r \in Injection(A, 1..Cardinality(A))
  BY <1>7, <1>8 DEF Injection, IsInjective
<1>10. IsFiniteSet(1..Cardinality(A)) /\ Cardinality(1..Cardinality(A)) = Cardinality(A)
  BY <1>1, FS_Interval
<1>11. r \in Surjection(A, 1..Cardinality(A))
  BY <1>9, <1>10, FS_Injection
<1>12. \A i \in 1..Cardinality(A) : \E f \in A : Cardinality(Upto(f)) = i
  BY <1>7, <1>11 DEF Surjection
<1>13. \A f \in A : Cardinality(Upto(f)) \in 1..Cardinality(A)
  BY <1>1, <1>2, <1>3, <1>4
<1>14. \A f, g \in A : Cardinality(Upto(f)) = Cardinality(Upto(g)) => f = g
  BY <1>7, <1>8
<1> QED BY <1>1, <1>5, <1>12, <1>13, <1>14 DEF Upto

\* replay_from returns the stored frames above all cursors, each once, oldest
\* first.
LEMMA ReplayInOrder ==
  ASSUME SyncInv, NEW c \in Epochs
  PROVE  LET above == {f \in stored : f.epoch > TheLargest(c, acked_through, cursor)}
             r == ReplayFrom(c) IN
         /\ r \in Seq(above)
         /\ \A f \in above : \E i \in DOMAIN r : r[i] = f
         /\ \A i, j \in DOMAIN r : i < j => r[i].epoch < r[j].epoch
<1>1. PICK A : A = {f \in stored : f.epoch > TheLargest(c, acked_through, cursor)}
  OBVIOUS
<1> DEFINE rank(f) == Cardinality({g \in A : g.epoch <= f.epoch})
<1>2. PICK r : r = [i \in 1 .. Cardinality(A) |-> CHOOSE f \in A : rank(f) = i]
  OBVIOUS
<1>3. r = ReplayFrom(c)
  BY <1>1, <1>2 DEF ReplayFrom
<1>4. /\ IsFiniteSet(A) /\ \A f \in A : f.epoch \in Nat
      /\ \A f, g \in A : f.epoch = g.epoch => f = g
  <2>1. IsFiniteSet(A)
    BY <1>1, FS_Subset DEF SyncInv, FramesAccepted
  <2> QED BY <1>1, <2>1 DEF SyncInv, FramesAccepted, EpochsDistinct, Frames, Epochs
<1>5. /\ Cardinality(A) \in Nat
      /\ \A i \in 1..Cardinality(A) : \E f \in A : rank(f) = i
      /\ \A f, g \in A : f.epoch <= g.epoch => rank(f) <= rank(g)
      /\ \A f \in A : rank(f) \in 1..Cardinality(A)
      /\ \A f, g \in A : rank(f) = rank(g) => f = g
  BY <1>4, RankOnto
<1> HIDE DEF rank
<1>6. \A i \in 1..Cardinality(A) : r[i] \in A /\ rank(r[i]) = i
  BY <1>2, <1>5
<1>7. r \in Seq(A) /\ DOMAIN r = 1..Cardinality(A)
  BY <1>2, <1>5, <1>6
<1>8. ASSUME NEW i \in DOMAIN r, NEW j \in DOMAIN r, i < j
      PROVE  r[i].epoch < r[j].epoch
  <2>1. ~(r[j].epoch <= r[i].epoch)
    BY <1>5, <1>6, <1>7, <1>8
  <2> QED BY <1>4, <1>6, <1>7, <2>1
<1>9. ASSUME NEW f \in A
      PROVE  \E i \in DOMAIN r : r[i] = f
  <2>1. PICK i \in 1..Cardinality(A) : i = rank(f)
    BY <1>5
  <2>2. r[i] \in A /\ rank(r[i]) = rank(f)
    BY <1>6, <2>1
  <2> QED BY <1>5, <1>7, <2>1, <2>2
<1> QED BY <1>1, <1>3, <1>7, <1>8, <1>9

-----------------------------------------------------------------------------
(* The invariant, step by step *)

\* Two fresh drivers satisfy the invariant.
LEMMA SyncInvInit == SyncInit => SyncInv
<1> SUFFICES ASSUME SyncInit PROVE SyncInv
  OBVIOUS
<1>1. SyncTypeOK
  <2>1. 0 \in Epochs
    BY ReliableSyncAssumption DEF Epochs
  <2>2. << >> \in Seq(Frames) /\ << >> \in Seq(Controls) /\ << >> \in Seq(1 .. MaxEpoch)
    BY EmptySeq
  <2> QED BY <2>1, <2>2, Zenon DEF SyncInit, SyncTypeOK
<1>2. FoldedOnce
  BY DEF SyncInit, FoldedOnce
<1>3. FramesAccepted
  BY FS_EmptySet DEF SyncInit, FramesAccepted
<1>4. RetainedUntilApplied /\ EpochsDistinct /\ SnapshotsAhead /\ AcksReached
  BY DEF SyncInit, RetainedUntilApplied, EpochsDistinct, SnapshotsAhead, AcksReached
<1> QED BY <1>1, <1>2, <1>3, <1>4 DEF SyncInv

\* The elements of the queues have their types.
LEMMA QueuesTyped ==
  ASSUME SyncTypeOK
  PROVE  /\ \A i \in DOMAIN enqueued : enqueued[i] \in Frames
         /\ \A i \in DOMAIN replaying : replaying[i] \in Frames
         /\ \A i \in DOMAIN toReceiver : toReceiver[i] \in Frames
         /\ \A i \in DOMAIN toSender : toSender[i] \in Controls
  BY ElementAt DEF SyncTypeOK

\* enqueue gives the new delta an epoch above all others.
LEMMA EnqueueKeeps ==
  ASSUME SyncInv, NEW n \in 1 .. MaxSpan, Enqueue(n)
  PROVE  SyncInv'
<1>1. PICK f : f = Delta(epoch, epoch + n)
  OBVIOUS
<1>2. /\ epoch + n <= MaxEpoch /\ epoch' = epoch + n /\ enqueued' = Append(enqueued, f)
      /\ UNCHANGED <<outbox, peer_acked_through, replay_pending, replaying, stalled, phase, receiver, network, stops, appended>>
  BY <1>1 DEF Enqueue
<1>3. epoch \in Epochs /\ epoch' \in Epochs /\ epoch < epoch' /\ MaxEpoch \in Nat /\ epoch \in Nat /\ epoch' \in Nat
  BY <1>2, ReliableSyncAssumption DEF SyncInv, SyncTypeOK, Epochs
<1>4. f \in Frames /\ f.epoch = epoch' /\ f.kind = "delta"
  BY <1>1, <1>2, <1>3 DEF Frames, Delta
<1>5. /\ enqueued' \in Seq(Frames)
      /\ DOMAIN enqueued' = DOMAIN enqueued \cup {Len(enqueued) + 1}
      /\ \A i \in DOMAIN enqueued : /\ i < Len(enqueued) + 1 /\ ~(Len(enqueued) + 1 < i)
                                    /\ enqueued'[i] = enqueued[i]
      /\ enqueued'[Len(enqueued) + 1] = f
      /\ ~(Len(enqueued) + 1 < Len(enqueued) + 1)
  BY <1>2, <1>4, AppendAt DEF SyncInv, SyncTypeOK
<1>6. SyncTypeOK'
  BY <1>2, <1>3, <1>5 DEF SyncInv, SyncTypeOK, outbox, receiver, network
<1>7. FoldedOnce' /\ RetainedUntilApplied' /\ SnapshotsAhead' /\ AcksReached'
  BY <1>2 DEF SyncInv, FoldedOnce, RetainedUntilApplied, SnapshotsAhead, AcksReached, outbox, receiver, network
<1>8. FramesAccepted'
  <2>1. \A a \in Nat : a <= epoch => a <= epoch'
    BY <1>3
  <2>2. \A g \in Frames : g.epoch \in Nat
    BY DEF Frames, Epochs
  <2>3. last_epoch \in Nat
    BY DEF SyncInv, SyncTypeOK, Epochs
  <2> QED BY <1>2, <1>3, <1>4, <1>5, <2>1, <2>2, <2>3, QueuesTyped
          DEF SyncInv, FramesAccepted, outbox, receiver, network
<1>9. EpochsDistinct'
  <2>1. \A a \in Nat : a <= epoch => a < epoch'
    BY <1>3
  <2>2. /\ \A i \in DOMAIN enqueued : enqueued[i].epoch < epoch'
        /\ \A g \in appended : g.epoch < epoch'
    BY <2>1, QueuesTyped DEF SyncInv, FramesAccepted, Frames, Epochs
  <2> QED BY <1>2, <1>4, <1>5, <2>2 DEF SyncInv, EpochsDistinct
<1> QED BY <1>6, <1>7, <1>8, <1>9 DEF SyncInv

\* A tick begins with the replay that a reconnect asked for.
LEMMA BeginTickKeeps ==
  ASSUME SyncInv, BeginTick
  PROVE  SyncInv'
<1>1. /\ replaying' = (IF replay_pending THEN ReplayFrom(peer_acked_through) ELSE << >>)
      /\ phase' = "replay" /\ replay_pending' = FALSE
      /\ UNCHANGED <<epoch, enqueued, outbox, peer_acked_through, stalled, receiver, network, stops, appended>>
  BY DEF BeginTick
<1>2. /\ replaying' \in Seq(Frames)
      /\ \A i \in DOMAIN replaying' : replaying'[i].kind = "delta" /\ replaying'[i].epoch <= epoch
  <2>1. CASE replay_pending
    <3>1. PICK A : A = {f \in stored : f.epoch > TheLargest(peer_acked_through, acked_through, cursor)}
      OBVIOUS
    <3>2. replaying' \in Seq(A)
      BY <1>1, <2>1, <3>1, ReplayInOrder DEF SyncInv, SyncTypeOK
    <3>3. A \subseteq Frames /\ \A f \in A : f.kind = "delta" /\ f.epoch <= epoch
      BY <3>1 DEF SyncInv, FramesAccepted
    <3> QED BY <3>2, <3>3, SeqMonotonic, ElementAt
  <2>2. CASE ~replay_pending
    BY <1>1, <2>2
  <2> QED BY <2>1, <2>2
<1>3. SyncTypeOK'
  BY <1>1, <1>2 DEF SyncInv, SyncTypeOK, outbox, receiver, network
<1>4. FramesAccepted'
  BY <1>1, <1>2 DEF SyncInv, FramesAccepted, outbox, receiver, network
<1>5. FoldedOnce' /\ RetainedUntilApplied' /\ EpochsDistinct' /\ SnapshotsAhead' /\ AcksReached'
  BY <1>1 DEF SyncInv, FoldedOnce, RetainedUntilApplied, EpochsDistinct, SnapshotsAhead, AcksReached,
              outbox, receiver, network
<1> QED BY <1>3, <1>4, <1>5 DEF SyncInv

\* A frame sent after the others keeps what is known of the channel: a delta
\* always, a snapshot of everything accepted too.
LEMMA SyncSendKeeps ==
  ASSUME SyncInv, NEW f \in Frames, f.epoch <= epoch,
         f.kind = "snapshot" => f.epoch = epoch,
         toReceiver' = Append(toReceiver, f), UNCHANGED <<epoch, last_epoch>>
  PROVE  /\ toReceiver' \in Seq(Frames)
         /\ \A i \in DOMAIN toReceiver' : toReceiver'[i].epoch <= epoch'
         /\ SnapshotsAhead'
<1>1. /\ toReceiver' \in Seq(Frames)
      /\ DOMAIN toReceiver' = DOMAIN toReceiver \cup {Len(toReceiver) + 1}
      /\ \A i \in DOMAIN toReceiver : /\ i < Len(toReceiver) + 1 /\ ~(Len(toReceiver) + 1 < i)
                                      /\ toReceiver'[i] = toReceiver[i]
      /\ toReceiver'[Len(toReceiver) + 1] = f
      /\ ~(Len(toReceiver) + 1 < Len(toReceiver) + 1)
  BY AppendAt DEF SyncInv, SyncTypeOK
<1>2. \A i \in DOMAIN toReceiver' : toReceiver'[i].epoch <= epoch'
  BY <1>1 DEF SyncInv, FramesAccepted
<1>3. f.kind = "snapshot" => last_epoch <= f.epoch
  BY DEF SyncInv, FramesAccepted
<1>4. SnapshotsAhead'
  BY <1>1, <1>2, <1>3 DEF SyncInv, SnapshotsAhead
<1> QED BY <1>1, <1>2, <1>4

\* The replay sends its oldest frame, or gives up until the next reconnect.
LEMMA ReplayOneKeeps ==
  ASSUME SyncInv, ReplayOne
  PROVE  SyncInv'
<1>1. /\ replaying # << >> /\ replaying \in Seq(Frames)
      /\ UNCHANGED <<epoch, enqueued, outbox, peer_acked_through, phase, receiver, connected, toSender,
                     breaks, stops, appended>>
  BY DEF ReplayOne, SyncInv, SyncTypeOK
<1>2. PICK f, t : f = Head(replaying) /\ t = Tail(replaying)
  OBVIOUS
<1>3. /\ t \in Seq(Frames) /\ f = replaying[1] /\ 1 \in DOMAIN replaying /\ f \in Frames
      /\ \A i \in DOMAIN t : i + 1 \in DOMAIN replaying /\ t[i] = replaying[i + 1]
  BY <1>1, <1>2, TailAt
<1>4. /\ f.kind = "delta" /\ f.epoch <= epoch
      /\ \A i \in DOMAIN t : t[i].kind = "delta" /\ t[i].epoch <= epoch
  BY <1>3 DEF SyncInv, FramesAccepted
<1>5. /\ replaying' \in Seq(Frames)
      /\ \A i \in DOMAIN replaying' : replaying'[i].kind = "delta" /\ replaying'[i].epoch <= epoch
      /\ replay_pending' \in BOOLEAN /\ stalled' \in BOOLEAN
  <2>1. CASE connected
    BY <1>2, <1>3, <1>4, <2>1 DEF ReplayOne, SyncInv, SyncTypeOK
  <2>2. CASE ~connected
    BY <2>2 DEF ReplayOne
  <2> QED BY <2>1, <2>2
<1>6. /\ toReceiver' \in Seq(Frames)
      /\ \A i \in DOMAIN toReceiver' : toReceiver'[i].epoch <= epoch'
      /\ SnapshotsAhead'
  <2>1. CASE connected
    <3>1. toReceiver' = Append(toReceiver, f)
      BY <1>2, <2>1 DEF ReplayOne
    <3> QED BY <1>1, <1>3, <1>4, <3>1, SyncSendKeeps DEF receiver
  <2>2. CASE ~connected
    <3>1. UNCHANGED <<toReceiver, last_epoch, epoch>>
      BY <1>1, <2>2 DEF ReplayOne, receiver
    <3> QED BY <3>1 DEF SyncInv, SyncTypeOK, FramesAccepted, SnapshotsAhead
  <2> QED BY <2>1, <2>2
<1>7. SyncTypeOK'
  BY <1>1, <1>5, <1>6 DEF SyncInv, SyncTypeOK, outbox, receiver
<1>8. FramesAccepted'
  BY <1>1, <1>5, <1>6 DEF SyncInv, FramesAccepted, outbox, receiver
<1>9. FoldedOnce' /\ RetainedUntilApplied' /\ EpochsDistinct' /\ AcksReached'
  BY <1>1 DEF SyncInv, FoldedOnce, RetainedUntilApplied, EpochsDistinct, AcksReached, outbox, receiver
<1> QED BY <1>6, <1>7, <1>8, <1>9 DEF SyncInv

\* The drain stores the oldest delta before it sends it.
LEMMA DrainOneKeeps ==
  ASSUME SyncInv, DrainOne
  PROVE  SyncInv'
<1>1. PICK f : f = Head(enqueued)
  OBVIOUS
<1>2. /\ enqueued # << >> /\ enqueued \in Seq(Frames) /\ enqueued' = Tail(enqueued)
      /\ stored' = stored \cup {f} /\ appended' = appended \cup {f}
      /\ toReceiver' = (IF connected THEN Append(toReceiver, f) ELSE toReceiver)
      /\ stalled' = ~connected
      /\ UNCHANGED <<epoch, cursor, acked_through, peer_acked_through, replay_pending, replaying, phase, receiver,
                     connected, toSender, breaks, stops>>
  BY <1>1 DEF DrainOne, SyncInv, SyncTypeOK
<1>3. /\ enqueued' \in Seq(Frames) /\ f = enqueued[1] /\ 1 \in DOMAIN enqueued /\ f \in Frames
      /\ \A i \in DOMAIN enqueued' : i \in Nat /\ i + 1 \in DOMAIN enqueued /\ 1 < i + 1
                                     /\ enqueued'[i] = enqueued[i + 1]
      /\ \A i, j \in DOMAIN enqueued' : i < j => i + 1 < j + 1
  BY <1>1, <1>2, TailAt
<1>4. f.kind = "delta" /\ f.epoch <= epoch
  BY <1>3 DEF SyncInv, FramesAccepted
<1>5. /\ toReceiver' \in Seq(Frames)
      /\ \A i \in DOMAIN toReceiver' : toReceiver'[i].epoch <= epoch'
      /\ SnapshotsAhead'
  <2>1. CASE connected
    BY <1>2, <1>3, <1>4, <2>1, SyncSendKeeps DEF receiver
  <2>2. CASE ~connected
    <3>1. UNCHANGED <<toReceiver, last_epoch, epoch>>
      BY <1>2, <2>2 DEF receiver
    <3> QED BY <3>1 DEF SyncInv, SyncTypeOK, FramesAccepted, SnapshotsAhead
  <2> QED BY <2>1, <2>2
<1>6. SyncTypeOK'
  <2>1. stalled' \in BOOLEAN
    BY <1>2, Zenon
  <2> QED BY <1>2, <1>3, <1>5, <2>1 DEF SyncInv, SyncTypeOK, receiver
<1>7. FramesAccepted'
  <2>1. IsFiniteSet(stored')
    BY <1>2, FS_AddElement DEF SyncInv, FramesAccepted
  <2> QED BY <1>2, <1>3, <1>4, <1>5, <2>1 DEF SyncInv, FramesAccepted, receiver
<1>8. EpochsDistinct'
  <2>1. /\ \A g \in appended : g.epoch < f.epoch
        /\ \A i \in DOMAIN enqueued' : f.epoch < enqueued'[i].epoch
    BY <1>3 DEF SyncInv, EpochsDistinct
  <2>2. f.epoch \in Nat /\ \A g \in appended : g.epoch \in Nat
    BY <1>3 DEF SyncInv, FramesAccepted, Frames, Epochs
  <2>3. \A g, h \in appended' : g.epoch = h.epoch => g = h
    BY <1>2, <2>1, <2>2 DEF SyncInv, EpochsDistinct
  <2>4. \A i, j \in DOMAIN enqueued' : i < j => enqueued'[i].epoch < enqueued'[j].epoch
    BY <1>3 DEF SyncInv, EpochsDistinct
  <2>5. \A g \in appended', i \in DOMAIN enqueued' : g.epoch < enqueued'[i].epoch
    BY <1>2, <1>3, <2>1 DEF SyncInv, EpochsDistinct
  <2> QED BY <2>3, <2>4, <2>5 DEF EpochsDistinct
<1>9. FoldedOnce' /\ RetainedUntilApplied' /\ AcksReached'
  BY <1>2 DEF SyncInv, FoldedOnce, RetainedUntilApplied, AcksReached, receiver
<1> QED BY <1>5, <1>6, <1>7, <1>8, <1>9 DEF SyncInv

\* An acknowledgement deletes what the receiver has reached, a request is
\* answered with a snapshot of everything accepted.
LEMMA ReceiveControlKeeps ==
  ASSUME SyncInv, ReceiveControl
  PROVE  SyncInv'
<1>1. PICK m : m = Head(toSender)
  OBVIOUS
<1>2. /\ toSender # << >> /\ toSender \in Seq(Controls) /\ toSender' = Tail(toSender)
      /\ UNCHANGED <<epoch, enqueued, replay_pending, replaying, phase, receiver, connected, breaks, stops, appended>>
  BY DEF ReceiveControl, SyncInv, SyncTypeOK
<1>3. /\ toSender' \in Seq(Controls) /\ m = toSender[1] /\ 1 \in DOMAIN toSender /\ m \in Controls
      /\ \A i \in DOMAIN toSender' : i + 1 \in DOMAIN toSender /\ toSender'[i] = toSender[i + 1]
  BY <1>1, <1>2, TailAt
<1>4. \A i \in DOMAIN toSender' : toSender'[i].kind = "ack" => toSender'[i].epoch <= last_epoch
  BY <1>3 DEF SyncInv, AcksReached
<1>5. CASE m.kind = "ack"
  <2>1. /\ peer_acked_through' = (IF m.epoch > peer_acked_through THEN m.epoch ELSE peer_acked_through)
        /\ AckThrough(m.epoch) /\ UNCHANGED <<toReceiver, stalled>>
    BY <1>1, <1>5 DEF ReceiveControl
  <2>2. m.epoch \in Epochs /\ m.epoch <= last_epoch
    BY <1>3, <1>5 DEF SyncInv, AcksReached, Controls
  <2>3. PICK t : t = TheLargest(acked_through, m.epoch, cursor)
    OBVIOUS
  <2>4. t \in Epochs /\ t <= last_epoch
    BY <2>2, <2>3 DEF SyncInv, SyncTypeOK, AcksReached, TheLargest
  <2>5. /\ cursor' = (IF t > acked_through THEN t ELSE cursor) /\ acked_through' = t
        /\ stored' = stored \ Deleted(t)
    BY <2>1, <2>3 DEF AckThrough
  <2>6. stored' \subseteq stored /\ \A f \in stored : f.epoch <= t \/ f \in stored'
    BY <2>5 DEF Deleted
  <2>7. SyncTypeOK'
    BY <1>2, <1>3, <2>1, <2>2, <2>4, <2>5, <2>6 DEF SyncInv, SyncTypeOK, receiver
  <2>8. AcksReached'
    BY <1>2, <1>4, <2>1, <2>2, <2>4, <2>5 DEF SyncInv, AcksReached, receiver
  <2>9. FramesAccepted'
    <3>1. IsFiniteSet(stored')
      BY <2>6, FS_Subset DEF SyncInv, FramesAccepted
    <3> QED BY <1>2, <2>1, <2>6, <3>1 DEF SyncInv, FramesAccepted, receiver
  <2>10. RetainedUntilApplied'
    <3> SUFFICES ASSUME NEW f \in appended, f.epoch > last_epoch PROVE f \in stored'
      BY <1>2 DEF RetainedUntilApplied, receiver
    <3>1. f \in stored
      BY DEF SyncInv, RetainedUntilApplied
    <3>2. ~(f.epoch <= t)
      BY <2>4 DEF SyncInv, SyncTypeOK, FramesAccepted, Frames, Epochs
    <3> QED BY <2>6, <3>1, <3>2
  <2>11. FoldedOnce' /\ EpochsDistinct' /\ SnapshotsAhead'
    BY <1>2, <2>1 DEF SyncInv, FoldedOnce, EpochsDistinct, SnapshotsAhead, receiver
  <2> QED BY <2>7, <2>8, <2>9, <2>10, <2>11 DEF SyncInv
<1>6. CASE m.kind # "ack"
  <2>1. /\ IF connected THEN toReceiver' = Append(toReceiver, Snapshot(epoch)) /\ UNCHANGED stalled
                        ELSE stalled' = TRUE /\ UNCHANGED toReceiver
        /\ UNCHANGED <<outbox, peer_acked_through>>
    BY <1>1, <1>6 DEF ReceiveControl
  <2>2. /\ Snapshot(epoch) \in Frames /\ Snapshot(epoch).epoch = epoch /\ epoch <= epoch
    BY ReliableSyncAssumption DEF SyncInv, SyncTypeOK, Snapshot, Frames, Epochs
  <2>3. /\ toReceiver' \in Seq(Frames)
        /\ \A i \in DOMAIN toReceiver' : toReceiver'[i].epoch <= epoch'
        /\ SnapshotsAhead' /\ stalled' \in BOOLEAN
    <3>1. CASE connected
      <4>1. toReceiver' = Append(toReceiver, Snapshot(epoch)) /\ UNCHANGED <<stalled, epoch, last_epoch>>
        BY <1>2, <2>1, <3>1 DEF receiver
      <4>2. stalled' \in BOOLEAN
        BY <4>1 DEF SyncInv, SyncTypeOK
      <4>3. PICK s \in Frames : s = Snapshot(epoch) /\ s.epoch = epoch
        BY <2>2
      <4> QED BY <2>2, <4>1, <4>2, <4>3, SyncSendKeeps
    <3>2. CASE ~connected
      <4>1. UNCHANGED <<toReceiver, last_epoch, epoch>> /\ stalled' = TRUE
        BY <1>2, <2>1, <3>2 DEF receiver
      <4> QED BY <4>1 DEF SyncInv, SyncTypeOK, FramesAccepted, SnapshotsAhead
    <3> QED BY <3>1, <3>2
  <2>4. SyncTypeOK'
    BY <1>2, <1>3, <2>1, <2>3 DEF SyncInv, SyncTypeOK, outbox, receiver
  <2>5. FramesAccepted'
    BY <1>2, <2>1, <2>3 DEF SyncInv, FramesAccepted, outbox, receiver
  <2>6. AcksReached'
    BY <1>2, <1>4, <2>1 DEF SyncInv, AcksReached, outbox, receiver
  <2>7. FoldedOnce' /\ RetainedUntilApplied' /\ EpochsDistinct'
    BY <1>2, <2>1 DEF SyncInv, FoldedOnce, RetainedUntilApplied, EpochsDistinct, outbox, receiver
  <2> QED BY <2>3, <2>4, <2>5, <2>6, <2>7 DEF SyncInv
<1> QED BY <1>5, <1>6

\* When the receiver moves forward, by a delta or by a snapshot, what it has
\* acknowledged stays reached and what is stored may only become unnecessary.
LEMMA ReceiverMoves ==
  ASSUME SyncInv, NEW f \in Frames, f = Head(toReceiver), toReceiver # << >>,
         last_epoch' = f.epoch, last_epoch <= f.epoch, f.epoch <= epoch,
         folded' = [i \in 1 .. f.epoch |-> i],
         resyncing' = FALSE, ack_owed' = TRUE,
         toReceiver' = Tail(toReceiver), UNCHANGED <<sender, toSender, connected, breaks, stops, appended>>
  PROVE  SyncInv'
<1>1. /\ toReceiver' \in Seq(Frames) /\ f = toReceiver[1] /\ 1 \in DOMAIN toReceiver
      /\ \A i \in DOMAIN toReceiver' : /\ i \in Nat /\ i + 1 \in DOMAIN toReceiver /\ 1 < i + 1
                                       /\ toReceiver'[i] = toReceiver[i + 1]
      /\ \A i, j \in DOMAIN toReceiver' : i < j => i + 1 < j + 1
  BY TailAt DEF SyncInv, SyncTypeOK
<1>2. /\ f.epoch \in Nat /\ f.epoch <= MaxEpoch /\ f.epoch \in Epochs
      /\ last_epoch \in Nat /\ MaxEpoch \in Nat
  BY ReliableSyncAssumption DEF Frames, Epochs, SyncInv, SyncTypeOK
<1>3. UNCHANGED <<epoch, enqueued, stored, cursor, acked_through, peer_acked_through, replay_pending,
                  replaying, stalled, phase>>
  BY DEF sender, outbox
<1>4. folded' \in Seq(1 .. MaxEpoch)
  BY <1>2
<1>5. SyncTypeOK'
  BY <1>1, <1>2, <1>3, <1>4 DEF SyncInv, SyncTypeOK
<1>6. FoldedOnce'
  BY DEF FoldedOnce
<1>7. FramesAccepted'
  BY <1>1, <1>3 DEF SyncInv, FramesAccepted
<1>8. SnapshotsAhead'
  BY <1>1 DEF SyncInv, SnapshotsAhead
<1>9. RetainedUntilApplied' /\ AcksReached'
  <2>1. \A a \in Nat : (a > f.epoch => a > last_epoch) /\ (a <= last_epoch => a <= f.epoch)
    BY <1>2
  <2>2. /\ \A g \in appended : g.epoch \in Nat
        /\ \A i \in DOMAIN toSender : toSender[i].epoch \in Nat
        /\ cursor \in Nat /\ acked_through \in Nat /\ peer_acked_through \in Nat
    <3>1. \A g \in appended : g.epoch \in Nat
      BY DEF SyncInv, FramesAccepted, Frames, Epochs
    <3>2. \A i \in DOMAIN toSender : toSender[i].epoch \in Nat
      BY QueuesTyped DEF SyncInv, Controls, Epochs
    <3>3. cursor \in Nat /\ acked_through \in Nat /\ peer_acked_through \in Nat
      BY DEF SyncInv, SyncTypeOK, Epochs
    <3> QED BY <3>1, <3>2, <3>3
  <2>3. RetainedUntilApplied'
    BY <1>3, <2>1, <2>2 DEF SyncInv, RetainedUntilApplied
  <2>4. AcksReached'
    BY <1>3, <2>1, <2>2 DEF SyncInv, AcksReached
  <2> QED BY <2>3, <2>4
<1>10. EpochsDistinct'
  BY <1>3 DEF SyncInv, EpochsDistinct
<1> QED BY <1>5, <1>6, <1>7, <1>8, <1>9, <1>10 DEF SyncInv

\* A frame that is not applied leaves the receiver where it is.
LEMMA FrameSkipped ==
  ASSUME SyncInv, toReceiver # << >>, toReceiver' = Tail(toReceiver),
         UNCHANGED <<sender, last_epoch, ack_owed, folded, connected, breaks, stops, appended>>,
         resyncing' \in BOOLEAN,
         \/ UNCHANGED toSender
         \/ toSender' = Append(toSender, [kind |-> "request", epoch |-> last_epoch])
  PROVE  SyncInv'
<1>1. /\ toReceiver' \in Seq(Frames)
      /\ \A i \in DOMAIN toReceiver' : i + 1 \in DOMAIN toReceiver /\ toReceiver'[i] = toReceiver[i + 1]
      /\ \A i, j \in DOMAIN toReceiver' : i < j => i + 1 < j + 1
  BY TailAt DEF SyncInv, SyncTypeOK
<1>2. UNCHANGED <<epoch, enqueued, stored, cursor, acked_through, peer_acked_through, replay_pending,
                  replaying, stalled, phase>>
  BY DEF sender, outbox
<1>3. /\ toSender' \in Seq(Controls)
      /\ \A i \in DOMAIN toSender' : toSender'[i].kind = "ack" => toSender'[i].epoch <= last_epoch
  <2>1. CASE UNCHANGED toSender
    BY <2>1 DEF SyncInv, SyncTypeOK, AcksReached
  <2>2. CASE toSender' = Append(toSender, [kind |-> "request", epoch |-> last_epoch])
    <3>1. PICK m \in Controls : m = [kind |-> "request", epoch |-> last_epoch] /\ m.kind = "request"
      BY DEF SyncInv, SyncTypeOK, Controls
    <3>2. /\ toSender' \in Seq(Controls)
          /\ DOMAIN toSender' = DOMAIN toSender \cup {Len(toSender) + 1}
          /\ \A i \in DOMAIN toSender : toSender'[i] = toSender[i]
          /\ toSender'[Len(toSender) + 1] = m
      BY <2>2, <3>1, AppendAt DEF SyncInv, SyncTypeOK
    <3> QED BY <3>1, <3>2 DEF SyncInv, AcksReached
  <2> QED BY <2>1, <2>2
<1>4. SyncTypeOK'
  BY <1>1, <1>2, <1>3 DEF SyncInv, SyncTypeOK
<1>5. FramesAccepted'
  BY <1>1, <1>2 DEF SyncInv, FramesAccepted
<1>6. SnapshotsAhead'
  BY <1>1 DEF SyncInv, SnapshotsAhead
<1>7. FoldedOnce' /\ RetainedUntilApplied' /\ EpochsDistinct' /\ AcksReached'
  BY <1>2, <1>3 DEF SyncInv, FoldedOnce, RetainedUntilApplied, EpochsDistinct, AcksReached
<1> QED BY <1>4, <1>5, <1>6, <1>7 DEF SyncInv

\* The receiver's next frame moves it forward or leaves it where it is.
LEMMA ReceiveDataKeeps ==
  ASSUME SyncInv, ReceiveData
  PROVE  SyncInv' /\ last_epoch <= last_epoch'
<1>1. PICK f : f = Head(toReceiver)
  OBVIOUS
<1>2. /\ toReceiver # << >> /\ toReceiver' = Tail(toReceiver)
      /\ UNCHANGED <<sender, connected, breaks, stops, appended>>
  BY DEF ReceiveData
<1>3. f = toReceiver[1] /\ 1 \in DOMAIN toReceiver /\ f \in Frames
  BY <1>1, <1>2, TailAt DEF SyncInv, SyncTypeOK
<1>4. f.epoch <= epoch /\ f.epoch \in Nat /\ f.base \in Nat /\ last_epoch \in Nat
  BY <1>3 DEF SyncInv, SyncTypeOK, FramesAccepted, Frames, Epochs
<1>5. CASE f.kind = "snapshot"
  <2>1. /\ folded' = [i \in 1 .. f.epoch |-> i] /\ last_epoch' = f.epoch
        /\ resyncing' = FALSE /\ ack_owed' = TRUE /\ UNCHANGED toSender
    BY <1>1, <1>5 DEF ReceiveData
  <2>2. last_epoch <= f.epoch
    BY <1>3, <1>5 DEF SyncInv, SnapshotsAhead
  <2> QED BY <1>1, <1>2, <1>3, <1>4, <2>1, <2>2, ReceiverMoves
<1>6. CASE f.kind # "snapshot" /\ Applies(f)
  <2>1. /\ folded' = folded \o [i \in 1 .. f.epoch - f.base |-> f.base + i]
        /\ last_epoch' = f.epoch /\ resyncing' = FALSE /\ ack_owed' = TRUE /\ UNCHANGED toSender
    <3>1. ~(f.base > last_epoch)
      BY <1>4, <1>6 DEF Applies
    <3> QED BY <1>1, <1>6, <3>1 DEF ReceiveData
  <2>2. f.base = last_epoch /\ f.epoch >= f.base + 1
    BY <1>6 DEF Applies
  <2>3. folded' = [i \in 1 .. f.epoch |-> i]
    BY <1>4, <2>1, <2>2 DEF SyncInv, FoldedOnce
  <2>4. last_epoch <= f.epoch
    BY <1>4, <2>2
  <2> QED BY <1>1, <1>2, <1>3, <1>4, <2>1, <2>3, <2>4, ReceiverMoves
<1>7. CASE f.kind # "snapshot" /\ ~Applies(f)
  <2>1. /\ UNCHANGED <<last_epoch, ack_owed, folded>> /\ resyncing' \in BOOLEAN
        /\ \/ UNCHANGED toSender
           \/ toSender' = Append(toSender, [kind |-> "request", epoch |-> last_epoch])
    BY <1>1, <1>7 DEF ReceiveData, receiver, SyncInv, SyncTypeOK
  <2> QED BY <1>2, <1>4, <2>1, FrameSkipped
<1> QED BY <1>5, <1>6, <1>7

\* The receiver advertises the epoch it has reached.
LEMMA AdvertiseKeeps ==
  ASSUME SyncInv, Advertise
  PROVE  SyncInv'
<1>1. /\ toSender' = Append(toSender, [kind |-> "ack", epoch |-> last_epoch]) /\ ack_owed' = FALSE
      /\ UNCHANGED <<sender, last_epoch, resyncing, folded, connected, toReceiver, breaks, stops, appended>>
  BY DEF Advertise
<1>2. UNCHANGED <<epoch, enqueued, stored, cursor, acked_through, peer_acked_through, replay_pending,
                  replaying, stalled, phase>>
  BY <1>1 DEF sender, outbox
<1>3. PICK m \in Controls : m = [kind |-> "ack", epoch |-> last_epoch] /\ m.epoch = last_epoch
  <2>1. last_epoch \in Epochs
    BY DEF SyncInv, SyncTypeOK
  <2>2. [kind |-> "ack", epoch |-> last_epoch] \in Controls
    BY <2>1 DEF Controls
  <2> QED BY <2>2
<1>4. /\ toSender' \in Seq(Controls)
      /\ DOMAIN toSender' = DOMAIN toSender \cup {Len(toSender) + 1}
      /\ \A i \in DOMAIN toSender : toSender'[i] = toSender[i]
      /\ toSender'[Len(toSender) + 1] = m
  BY <1>1, <1>3, AppendAt DEF SyncInv, SyncTypeOK
<1>5. last_epoch <= last_epoch
  BY DEF SyncInv, SyncTypeOK, Epochs
<1>6. SyncTypeOK'
  BY <1>1, <1>2, <1>4 DEF SyncInv, SyncTypeOK
<1>7. AcksReached'
  BY <1>1, <1>2, <1>3, <1>4, <1>5 DEF SyncInv, AcksReached
<1>8. FoldedOnce' /\ RetainedUntilApplied' /\ FramesAccepted' /\ EpochsDistinct' /\ SnapshotsAhead'
  BY <1>1, <1>2 DEF SyncInv, FoldedOnce, RetainedUntilApplied, FramesAccepted, EpochsDistinct, SnapshotsAhead
<1> QED BY <1>6, <1>7, <1>8 DEF SyncInv

\* What a break or a stop leaves in the channels is a beginning of what was
\* there.
LEMMA LossKeeps ==
  ASSUME SyncInv, NEW n \in 0 .. Len(toReceiver), toReceiver' = SubSeq(toReceiver, 1, n),
         UNCHANGED <<epoch, last_epoch>>
  PROVE  /\ toReceiver' \in Seq(Frames)
         /\ \A i \in DOMAIN toReceiver' : toReceiver'[i].epoch <= epoch'
         /\ SnapshotsAhead'
<1>1. /\ toReceiver' \in Seq(Frames) /\ DOMAIN toReceiver' \subseteq DOMAIN toReceiver
      /\ \A i \in DOMAIN toReceiver' : toReceiver'[i] = toReceiver[i]
  BY PrefixAt DEF SyncInv, SyncTypeOK
<1>2. \A i \in DOMAIN toReceiver' : toReceiver'[i].epoch <= epoch'
  BY <1>1 DEF SyncInv, FramesAccepted
<1>3. SnapshotsAhead'
  BY <1>1 DEF SyncInv, SnapshotsAhead
<1> QED BY <1>1, <1>2, <1>3

\* A broken connection loses frames and acknowledgements, nothing the drivers
\* keep.
LEMMA BreakKeeps ==
  ASSUME SyncInv, Break
  PROVE  SyncInv'
<1>1. PICK n \in 0 .. Len(toReceiver), m \in 0 .. Len(toSender) :
        toReceiver' = SubSeq(toReceiver, 1, n) /\ toSender' = SubSeq(toSender, 1, m)
  BY DEF Break
<1>2. /\ connected' = FALSE
      /\ UNCHANGED <<epoch, enqueued, stored, cursor, acked_through, peer_acked_through, replay_pending,
                     replaying, stalled, phase, last_epoch, resyncing, ack_owed, folded, appended>>
  BY DEF Break, sender, outbox, receiver
<1>3. /\ toReceiver' \in Seq(Frames)
      /\ \A i \in DOMAIN toReceiver' : toReceiver'[i].epoch <= epoch'
      /\ SnapshotsAhead'
  BY <1>1, <1>2, LossKeeps
<1>4. /\ toSender' \in Seq(Controls) /\ DOMAIN toSender' \subseteq DOMAIN toSender
      /\ \A i \in DOMAIN toSender' : toSender'[i] = toSender[i]
  BY <1>1, PrefixAt DEF SyncInv, SyncTypeOK
<1>5. SyncTypeOK'
  BY <1>2, <1>3, <1>4 DEF SyncInv, SyncTypeOK
<1>6. FramesAccepted'
  BY <1>2, <1>3 DEF SyncInv, FramesAccepted
<1>7. FoldedOnce' /\ RetainedUntilApplied' /\ EpochsDistinct' /\ AcksReached'
  BY <1>2, <1>4 DEF SyncInv, FoldedOnce, RetainedUntilApplied, EpochsDistinct, AcksReached
<1> QED BY <1>3, <1>5, <1>6, <1>7 DEF SyncInv

\* A sender that stops keeps its store and its cursor.
LEMMA StopSenderKeeps ==
  ASSUME SyncInv, StopSender
  PROVE  SyncInv'
<1>1. PICK n \in 0 .. Len(toReceiver) : toReceiver' = SubSeq(toReceiver, 1, n)
  BY DEF StopSender
<1>2. /\ enqueued' = << >> /\ acked_through' = cursor /\ peer_acked_through' = 0
      /\ replay_pending' = FALSE /\ replaying' = << >> /\ stalled' = FALSE /\ phase' = "idle"
      /\ connected' = FALSE /\ toSender' = << >>
      /\ UNCHANGED <<epoch, stored, cursor, last_epoch, resyncing, ack_owed, folded, appended>>
  BY DEF StopSender, receiver
<1>3. /\ toReceiver' \in Seq(Frames)
      /\ \A i \in DOMAIN toReceiver' : toReceiver'[i].epoch <= epoch'
      /\ SnapshotsAhead'
  BY <1>1, <1>2, LossKeeps
<1>4. 0 \in Epochs /\ 0 <= last_epoch
  BY ReliableSyncAssumption DEF SyncInv, SyncTypeOK, Epochs
<1>5. SyncTypeOK'
  <2>1. replay_pending' \in BOOLEAN /\ stalled' \in BOOLEAN /\ connected' \in BOOLEAN
    BY <1>2, Zenon
  <2>2. enqueued' \in Seq(Frames) /\ replaying' \in Seq(Frames) /\ toSender' \in Seq(Controls)
    BY <1>2
  <2> QED BY <1>2, <1>3, <1>4, <2>1, <2>2 DEF SyncInv, SyncTypeOK
<1>6. FramesAccepted'
  BY <1>2, <1>3 DEF SyncInv, FramesAccepted
<1>7. FoldedOnce' /\ RetainedUntilApplied' /\ EpochsDistinct' /\ AcksReached'
  BY <1>2, <1>4 DEF SyncInv, FoldedOnce, RetainedUntilApplied, EpochsDistinct, AcksReached
<1> QED BY <1>3, <1>5, <1>6, <1>7 DEF SyncInv

\* Steps that only move the sender through its tick, and a reconnect.
LEMMA QuietStepKeeps ==
  ASSUME SyncInv, EndReplay \/ EndDrain \/ EndTick \/ Reconnect \/ UNCHANGED syncVars
  PROVE  SyncInv'
<1>1. /\ UNCHANGED <<epoch, enqueued, stored, cursor, acked_through, peer_acked_through, replaying,
                     last_epoch, resyncing, folded, toReceiver, toSender, appended>>
      /\ phase' \in {"idle", "replay", "drain", "receive"}
      /\ replay_pending' \in BOOLEAN /\ stalled' \in BOOLEAN /\ ack_owed' \in BOOLEAN /\ connected' \in BOOLEAN
  <2>1. CASE EndReplay
    BY <2>1 DEF EndReplay, SyncInv, SyncTypeOK, outbox, receiver, network
  <2>2. CASE EndDrain
    BY <2>2 DEF EndDrain, SyncInv, SyncTypeOK, outbox, receiver, network
  <2>3. CASE EndTick
    BY <2>3 DEF EndTick, SyncInv, SyncTypeOK, outbox, receiver, network
  <2>4. CASE Reconnect
    BY <2>4 DEF Reconnect, SyncInv, SyncTypeOK, outbox
  <2>5. CASE UNCHANGED syncVars
    BY <2>5 DEF syncVars, sender, SyncInv, SyncTypeOK, outbox, receiver, network
  <2> QED BY <2>1, <2>2, <2>3, <2>4, <2>5
<1>2. SyncTypeOK'
  BY <1>1 DEF SyncInv, SyncTypeOK
<1>3. FoldedOnce' /\ RetainedUntilApplied' /\ FramesAccepted' /\ EpochsDistinct' /\ SnapshotsAhead' /\ AcksReached'
  BY <1>1 DEF SyncInv, FoldedOnce, RetainedUntilApplied, FramesAccepted, EpochsDistinct, SnapshotsAhead, AcksReached
<1> QED BY <1>2, <1>3 DEF SyncInv

\* Every step keeps the invariant.
LEMMA SyncInvStep == SyncInv /\ [SyncNext]_syncVars => SyncInv'
<1> SUFFICES ASSUME SyncInv, [SyncNext]_syncVars PROVE SyncInv'
  OBVIOUS
<1>1. CASE \E n \in 1 .. MaxSpan : Enqueue(n)
  BY <1>1, EnqueueKeeps
<1>2. CASE BeginTick
  BY <1>2, BeginTickKeeps
<1>3. CASE ReplayOne
  BY <1>3, ReplayOneKeeps
<1>4. CASE DrainOne
  BY <1>4, DrainOneKeeps
<1>5. CASE ReceiveControl
  BY <1>5, ReceiveControlKeeps
<1>6. CASE ReceiveData
  BY <1>6, ReceiveDataKeeps
<1>7. CASE Advertise
  BY <1>7, AdvertiseKeeps
<1>8. CASE Break
  BY <1>8, BreakKeeps
<1>9. CASE StopSender
  BY <1>9, StopSenderKeeps
<1>10. CASE EndReplay \/ EndDrain \/ EndTick \/ Reconnect \/ UNCHANGED syncVars
  BY <1>10, QuietStepKeeps
<1> QED BY <1>1, <1>2, <1>3, <1>4, <1>5, <1>6, <1>7, <1>8, <1>9, <1>10 DEF SyncNext

-----------------------------------------------------------------------------
(* The theorems *)

\* The invariant holds in every state.
LEMMA SyncInvAlways == SyncSpec => []SyncInv
<1>1. SyncInit => SyncInv
  BY SyncInvInit
<1>2. SyncInv /\ [SyncNext]_syncVars => SyncInv'
  BY SyncInvStep
<1> QED BY <1>1, <1>2, PTL DEF SyncSpec

\* reliable_sync.hpp: across replays, snapshots, broken connections and
\* restarts of the sender, the receiver has folded every event up to its epoch
\* once and in order, and the outbox keeps every frame it has not reached.
THEOREM SyncIsExact == SyncSpec => []SyncExact
<1>1. SyncInv => SyncExact
  BY DEF SyncInv, SyncExact
<1> QED BY <1>1, SyncInvAlways, PTL

\* ingest_snapshot overwrites last_epoch without comparing it: no snapshot that
\* is delivered ever takes the receiver back.
THEOREM ReceiverNeverGoesBack == SyncSpec => [][last_epoch <= last_epoch']_syncVars
<1>1. SyncInv /\ [SyncNext]_syncVars => [last_epoch <= last_epoch']_syncVars
  <2> SUFFICES ASSUME SyncInv, SyncNext PROVE last_epoch <= last_epoch'
    OBVIOUS
  <2>1. CASE ReceiveData
    BY <2>1, ReceiveDataKeeps
  <2>2. CASE ~ReceiveData
    <3>1. UNCHANGED last_epoch
      BY <2>2 DEF SyncNext, Enqueue, BeginTick, ReplayOne, EndReplay, DrainOne, EndDrain, ReceiveControl,
                  EndTick, Advertise, Break, Reconnect, StopSender, receiver
    <3> QED BY <3>1 DEF SyncInv, SyncTypeOK, Epochs
  <2> QED BY <2>1, <2>2
<1> QED BY <1>1, SyncInvAlways, PTL DEF SyncSpec

=============================================================================
