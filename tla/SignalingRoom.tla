--------------------------- MODULE SignalingRoom ---------------------------
(***************************************************************************)
(* SignalingRoom: connections join a room under a peer id, are told of     *)
(* each other, and have offers, answers, candidates and relayed payloads   *)
(* forwarded.  Every call is one critical section; what it queues for      *)
(* other connections waits in their outbound queues until the server       *)
(* drains them, so a client acts on a roster that is out of date.          *)
(***************************************************************************)
EXTENDS Integers, Sequences, FiniteSets

CONSTANTS
  RoomPeers,      \* peer ids
  MaxConns,       \* bound: connections ever opened; ids count from 1
  MaxSignals,     \* bound: messages forwarded
  RoomModes,      \* SignalingMode
  NoPeerYet       \* a connection that has not joined

Conns == 1..MaxConns

\* Connection ids are unsigned, and a connection that has not joined has no peer.
ASSUME RoomAssumption == MaxConns \in Nat /\ NoPeerYet \notin RoomPeers

VARIABLES
  mode,           \* mode_
  conns,          \* conns_: a function from the open connections
  next_conn_id,
  peer_to_conn,   \* peer_to_conn_, as a set of pairs
  join_allowed,   \* join_allowed_
  view,           \* per connection, the roster its client has been told
  signalsSent

roomVars == <<mode, conns, next_conn_id, peer_to_conn, join_allowed, view, signalsSent>>

RoomInit ==
  /\ mode \in RoomModes
  /\ conns = << >>
  /\ next_conn_id = 1
  /\ peer_to_conn = {}
  /\ join_allowed = {}
  /\ view = [c \in Conns |-> {}]
  /\ signalsSent = 0

IsJoined(c) == c \in DOMAIN conns /\ conns[c].peer # NoPeerYet

roster == {conns[c].peer : c \in {d \in DOMAIN conns : IsJoined(d)}}

\* Push m to every connection in the set to.
Notified(cs, to, m) ==
  [c \in DOMAIN cs |-> IF c \in to THEN [cs[c] EXCEPT !.outbound = Append(@, m)] ELSE cs[c]]

\* The joined connections whose peer is not p.
Others(p) == {c \in DOMAIN conns : IsJoined(c) /\ conns[c].peer # p}

Connect ==
  /\ next_conn_id <= MaxConns
  /\ conns' = [c \in DOMAIN conns \cup {next_conn_id} |->
                 IF c \in DOMAIN conns THEN conns[c]
                 ELSE [peer |-> NoPeerYet, outbound |-> <<>>]]
  /\ next_conn_id' = next_conn_id + 1
  /\ UNCHANGED <<mode, peer_to_conn, join_allowed, view, signalsSent>>

WithoutConn(cs, c) == [d \in DOMAIN cs \ {c} |-> cs[d]]

\* What the others are told when p goes.
LeftTold(cs, p) == Notified(cs, Others(p), [type |-> "left", peer |-> p])

CloseConn(c) ==
  /\ c \in DOMAIN conns
  /\ IF IsJoined(c)
     THEN /\ peer_to_conn' = {e \in peer_to_conn : e[1] # conns[c].peer}
          /\ conns' = WithoutConn(LeftTold(conns, conns[c].peer), c)
     ELSE conns' = WithoutConn(conns, c) /\ UNCHANGED peer_to_conn
  /\ view' = [view EXCEPT ![c] = {}]
  /\ UNCHANGED <<mode, next_conn_id, join_allowed, signalsSent>>

AllowJoin(p) ==
  /\ mode = "Allowlist"
  /\ join_allowed' = join_allowed \cup {p}
  /\ UNCHANGED <<mode, conns, next_conn_id, peer_to_conn, view, signalsSent>>

\* Mutant: a peer id that is in the room may join again.
AnyMayJoin(c, p) ==
  /\ conns[c].peer = NoPeerYet
  /\ mode = "Allowlist" => p \in join_allowed

\* The checks of process for a ClientJoin; each failure only answers an error.
MayJoin(c, p) ==
  /\ conns[c].peer = NoPeerYet
  /\ mode = "Allowlist" => p \in join_allowed
  /\ ~\E e \in peer_to_conn : e[1] = p

\* A join is answered with the roster, which the client takes as it stands.
Join(c, p) ==
  /\ c \in DOMAIN conns
  /\ MayJoin(c, p)
  /\ peer_to_conn' = peer_to_conn \cup {<<p, c>>}
  /\ conns' = [Notified(conns, Others(p), [type |-> "joined", peer |-> p]) EXCEPT ![c].peer = p]
  /\ view' = [view EXCEPT ![c] = roster \ {p}]
  /\ UNCHANGED <<mode, next_conn_id, join_allowed, signalsSent>>

\* process for an offer, an answer, a candidate or a relayed payload; a target
\* that is not in the room is answered with an error.
Forward(c, to) ==
  /\ IsJoined(c)
  /\ signalsSent < MaxSignals
  /\ signalsSent' = signalsSent + 1
  /\ conns' = Notified(conns, {e[2] : e \in {f \in peer_to_conn : f[1] = to}},
                       [type |-> "signal", peer |-> conns[c].peer])
  /\ UNCHANGED <<mode, next_conn_id, peer_to_conn, join_allowed, view>>

\* Which of the first n messages tell of the coming or going of p.
About(msgs, n, p) == {i \in 1..n : msgs[i].type # "signal" /\ msgs[i].peer = p}

\* What a client that knew peers makes of the first n messages: the last word
\* on a peer counts.
Told(peers, msgs, n) ==
  {p \in RoomPeers :
     \/ About(msgs, n, p) = {} /\ p \in peers
     \/ \E i \in About(msgs, n, p) :
          msgs[i].type = "joined" /\ \A j \in About(msgs, n, p) : j <= i}

\* What the client of c knows once it has the first n messages queued for it.
KnownBy(c, n) == Told(view[c], conns[c].outbound, n)

\* drain: the whole queue goes to the client.
DrainOutbound(c) ==
  /\ c \in DOMAIN conns /\ conns[c].outbound # <<>>
  /\ view' = [view EXCEPT ![c] = KnownBy(c, Len(conns[c].outbound))]
  /\ conns' = [conns EXCEPT ![c].outbound = <<>>]
  /\ UNCHANGED <<mode, next_conn_id, peer_to_conn, join_allowed, signalsSent>>

RoomNext ==
  \/ Connect
  \/ \E p \in RoomPeers : AllowJoin(p)
  \/ \E c \in Conns :
       \/ CloseConn(c) \/ DrainOutbound(c)
       \/ \E p \in RoomPeers : Join(c, p) \/ Forward(c, p)

RoomSpec == RoomInit /\ [][RoomNext]_roomVars

-----------------------------------------------------------------------------

\* A client that folds the welcome and what is queued for it knows exactly who
\* else is in the room, through every order of joins, departures and rejoins
\* of the same peer under another connection; and the index of peers finds the
\* one connection of each.
RosterViewsAgree ==
  /\ \A c \in DOMAIN conns : IsJoined(c) =>
       KnownBy(c, Len(conns[c].outbound)) = roster \ {conns[c].peer}
  /\ peer_to_conn = {<<conns[c].peer, c>> : c \in {d \in DOMAIN conns : IsJoined(d)}}

\* A signal never comes from somebody the client has not been told of: the
\* sender's arrival is queued before it, its departure after it.
SignalsFromKnownPeers ==
  \A c \in DOMAIN conns : \A i \in 1..Len(conns[c].outbound) :
    conns[c].outbound[i].type = "signal" =>
      conns[c].outbound[i].peer \in KnownBy(c, i - 1) \cup {conns[c].peer}

=============================================================================
