----------------------------- MODULE PeerPlane -----------------------------
(***************************************************************************)
(* MembershipCell with a consumer of its PeerChangeEvents that evicts what *)
(* failed or left from a PresenceCell and a DiscoveryCell.  Peers send     *)
(* heartbeats, stop without a word, come back, leave; the detector runs on *)
(* the ticks of a timer that may be late.  Times are kept as what has      *)
(* elapsed or is left, each cut off where it no longer matters.            *)
(***************************************************************************)
EXTENDS Integers, Sequences, FiniteSets

CONSTANTS
  Members,          \* peer ids, numbers
  SurelySuspect,    \* the silence at which phi is over its threshold
  suspect_timeout,  \* MembershipConfig
  presence_ttl,     \* the ttl of PresenceCell
  MaxRevivals,      \* bound: how often a stopped peer comes back
  MaxUnhandled      \* bound: events the consumer is behind

ASSUME PeerPlaneAssumption ==
  /\ Members \subseteq Int /\ IsFiniteSet(Members)
  /\ SurelySuspect \in Nat /\ suspect_timeout \in Nat

VARIABLES
  peers,        \* MembershipCore::peers_; state "none" is a peer not known
  peer_set,     \* the PeerSet cell
  peerEvents,   \* events returned and not yet handled by the consumer
  told,         \* the states the consumer has derived from the events
  presence,     \* EphemeralMapCore::entries_: the ttl left, 0 for no entry
  present,      \* the cell of PresenceCell
  endpoints,    \* DiscoveryCore: the owners that have an endpoint registered
  running,      \* peers that run and send heartbeats
  revivals

peerVars == <<peers, peer_set, peerEvents, told, presence, present, endpoints, running, revivals>>

PeerInit ==
  /\ peers = [p \in Members |-> [state |-> "none", sampled |-> FALSE, silent |-> 0, suspect |-> 0]]
  /\ peer_set = {}
  /\ peerEvents = <<>>
  /\ told = [p \in Members |-> "none"]
  /\ presence = [p \in Members |-> 0]
  /\ present = {}
  /\ endpoints = {}
  /\ running = Members
  /\ revivals = 0

alive_set(ps) == {p \in Members : ps[p].state = "Alive"}

\* Every call of the cell ends in refresh.
Refreshed(ps) == peers' = ps /\ peer_set' = alive_set(ps)

StateChanged(p, to) == [peer |-> p, to |-> to]

\* join, and heartbeat of a peer not known: a new record with a fresh detector,
\* and an event unless the peer was alive.
JoinPeer(p) ==
  /\ p \in running
  /\ Refreshed([peers EXCEPT ![p] = [state |-> "Alive", sampled |-> FALSE,
                                     silent |-> 0, suspect |-> 0]])
  /\ Len(peerEvents) < MaxUnhandled
  /\ peerEvents' = IF peers[p].state = "Alive" THEN peerEvents
                   ELSE Append(peerEvents, StateChanged(p, "Alive"))
  /\ UNCHANGED <<told, presence, present, endpoints, running, revivals>>

\* Mutant: a heartbeat that refutes a suspicion goes unreported.
RefutedSilently(p) == peerEvents

\* The events of a heartbeat of a known peer.
Refuted(p) ==
  IF peers[p].state \in {"Suspect", "Dead"}
  THEN Append(peerEvents, StateChanged(p, "Alive")) ELSE peerEvents

\* heartbeat of a known peer, which the presence cell gets too.  A peer that
\* left stays so.
Heartbeat(p) ==
  /\ p \in running
  /\ peers[p].state # "none"
  /\ Refreshed([peers EXCEPT ![p] =
       [state |-> IF @.state = "Left" THEN "Left" ELSE "Alive",
        sampled |-> TRUE, silent |-> 0,
        suspect |-> IF @.state = "Alive" THEN @.suspect ELSE 0]])
  /\ Len(peerEvents) < MaxUnhandled
  /\ peerEvents' = Refuted(p)
  /\ presence' = [presence EXCEPT ![p] = presence_ttl]
  /\ present' = {q \in Members : presence'[q] > 0}
  /\ UNCHANGED <<told, endpoints, running, revivals>>

Leave(p) ==
  /\ peers[p].state \notin {"none", "Left"}
  /\ Refreshed([peers EXCEPT ![p].state = "Left", ![p].suspect = 0])
  /\ Len(peerEvents) < MaxUnhandled
  /\ peerEvents' = Append(peerEvents, StateChanged(p, "Left"))
  /\ UNCHANGED <<told, presence, present, endpoints, running, revivals>>

\* phi depends on past intervals: with none it is 0, and it passes the
\* threshold somewhere up to SurelySuspect.
MayCross(r) == r.sampled /\ r.silent > 0

MustCross(r) == r.sampled /\ r.silent >= SurelySuspect

\* Mutant: a peer stays suspected for ever.
NeverTimedOut(r) == FALSE

TimedOut(r) == r.suspect >= suspect_timeout

\* The peers of a set in the order of their ids, that of the map.
InKeyOrder(ps) ==
  {order \in [1..Cardinality(ps) -> ps] : \A i, j \in DOMAIN order : i < j => order[i] < order[j]}

\* tick of both cells, with crossed the peers whose phi is over the threshold.
TickPeers(crossed) ==
  LET suspects == {p \in crossed : peers[p].state = "Alive"}
      dead == {p \in Members : peers[p].state = "Suspect" /\ TimedOut(peers[p])}
      changed == suspects \cup dead
      after == [p \in Members |->
                  IF p \in suspects THEN [peers[p] EXCEPT !.state = "Suspect", !.suspect = 0]
                  ELSE IF p \in dead THEN [peers[p] EXCEPT !.state = "Dead"] ELSE peers[p]]
  IN /\ Refreshed(after)
     /\ \E order \in InKeyOrder(changed) :
          peerEvents' = peerEvents \o
            [i \in DOMAIN order |-> StateChanged(order[i], after[order[i]].state)]
     /\ Len(peerEvents') <= MaxUnhandled
     /\ present' = {p \in Members : presence[p] > 0}
     /\ UNCHANGED <<told, presence, endpoints, running, revivals>>

MembershipTick ==
  \E crossed \in SUBSET {p \in Members : MayCross(peers[p])} :
    /\ \A p \in Members : MustCross(peers[p]) => p \in crossed
    /\ TickPeers(crossed)

UpTo(n, bound) == IF n < bound THEN n ELSE bound

\* Time passes.
Elapse ==
  /\ peers' = [p \in Members |->
       [peers[p] EXCEPT !.silent = IF peers[p].state = "none" THEN 0 ELSE UpTo(@ + 1, SurelySuspect),
                        !.suspect = IF peers[p].state = "Suspect"
                                    THEN UpTo(@ + 1, suspect_timeout) ELSE @]]
  /\ presence' = [p \in Members |-> IF presence[p] > 0 THEN presence[p] - 1 ELSE 0]
  /\ UNCHANGED <<peer_set, peerEvents, told, present, endpoints, running, revivals>>

\* The consumer handles one event: a peer that is dead or gone is evicted.
HandleEvent ==
  LET e == Head(peerEvents)
      gone == IF e.to \in {"Dead", "Left"} THEN {e.peer} ELSE {}
  IN /\ peerEvents # <<>>
     /\ peerEvents' = Tail(peerEvents)
     /\ told' = [told EXCEPT ![e.peer] = e.to]
     /\ presence' = [p \in Members |-> IF p \in gone THEN 0 ELSE presence[p]]
     /\ present' = IF gone = {} THEN present ELSE {p \in Members : presence'[p] > 0}
     /\ endpoints' = endpoints \ gone
     /\ UNCHANGED <<peers, peer_set, running, revivals>>

\* DiscoveryCell::register_ and deregister.
Register(p) ==
  /\ p \in running
  /\ endpoints' = endpoints \cup {p}
  /\ UNCHANGED <<peers, peer_set, peerEvents, told, presence, present, running, revivals>>

Deregister(p) ==
  /\ p \in endpoints
  /\ endpoints' = endpoints \ {p}
  /\ UNCHANGED <<peers, peer_set, peerEvents, told, presence, present, running, revivals>>

Stop(p) ==
  /\ p \in running
  /\ running' = running \ {p}
  /\ UNCHANGED <<peers, peer_set, peerEvents, told, presence, present, endpoints, revivals>>

Restart(p) ==
  /\ p \notin running /\ revivals < MaxRevivals
  /\ running' = running \cup {p}
  /\ revivals' = revivals + 1
  /\ UNCHANGED <<peers, peer_set, peerEvents, told, presence, present, endpoints>>

PeerNext ==
  \/ \E p \in Members : \/ JoinPeer(p) \/ Heartbeat(p) \/ Leave(p) \/ Register(p)
                        \/ Deregister(p) \/ Stop(p) \/ Restart(p)
  \/ MembershipTick \/ Elapse \/ HandleEvent

\* The clock runs, its timer ticks and the events are handled.  The bound on
\* unhandled events may hold a tick back for a while; the timer comes again.
PeerFairness ==
  SF_peerVars(Elapse) /\ SF_peerVars(MembershipTick) /\ WF_peerVars(HandleEvent)

PeerSpec == PeerInit /\ [][PeerNext]_peerVars /\ PeerFairness

-----------------------------------------------------------------------------

\* The first n events, to a consumer that knew the states known before them,
\* say that p is in this state.
Tell(known, events, n, p, state) ==
  \/ state = known[p] /\ \A i \in 1..n : events[i].peer # p
  \/ \E i \in 1..n :
       /\ events[i].peer = p /\ events[i].to = state
       /\ \A j \in (i + 1)..n : events[j].peer # p

\* A consumer that follows the events knows every peer's state: joins, refuted
\* suspicions, deaths and departures are all reported, in order, and none twice,
\* for an event always tells the consumer something new; and the PeerSet cell
\* is the set of the peers alive.
EventsTellStates ==
  /\ \A p \in Members : Tell(told, peerEvents, Len(peerEvents), p, peers[p].state)
  /\ \A i \in 1..Len(peerEvents) :
       ~Tell(told, peerEvents, i - 1, peerEvents[i].peer, peerEvents[i].to)
  /\ peer_set = alive_set(peers)

\* A peer that has sent two heartbeats and then stays silent is declared dead,
\* unless it left, and its presence and its endpoint go.
SilentPeersGo ==
  \A p \in Members :
    (peers[p].sampled /\ peers[p].state = "Alive" /\ p \notin running)
      ~> (p \in running \/ (told[p] \in {"Dead", "Left"} /\ p \notin present \cup endpoints))

=============================================================================
