------------------------------ MODULE MCPlanes ------------------------------
(***************************************************************************)
(* The planes that promise what eventually happens: the work queue,        *)
(* reliable sync, the relay link and the peer plane.  They do not act on   *)
(* each other: a behaviour runs one while the others stay in their initial *)
(* states, so the state spaces add up instead of multiplying.              *)
(***************************************************************************)
EXTENDS WorkQueue, ReliableSync, RelayLink, PeerPlane

VARIABLE plane   \* the plane this behaviour runs

planesVars == <<plane, workVars, syncVars, relayVars, peerVars>>

\* Pages that grow are checked behind the policy that fills them most.
PlanesInit ==
  /\ plane \in {"work", "sync", "relay", "peers"}
  /\ WorkInit /\ SyncInit /\ RelayInit /\ PeerInit
  /\ plane # "work" => reader = "is_empty"
  /\ plane # "relay" => relayConfig = [overflow |-> "Block", mode |-> "AppendCompact"]
  /\ relayConfig.mode = "CompactOnWrite" => relayConfig.overflow = "Block"

PlanesNext ==
  \/ plane = "work" /\ WorkNext /\ UNCHANGED <<plane, syncVars, relayVars, peerVars>>
  \/ plane = "sync" /\ SyncNext /\ UNCHANGED <<plane, workVars, relayVars, peerVars>>
  \/ plane = "relay" /\ RelayNext /\ UNCHANGED <<plane, workVars, syncVars, peerVars>>
  \/ plane = "peers" /\ PeerNext /\ UNCHANGED <<plane, workVars, syncVars, relayVars>>

Sync(A) == plane = "sync" /\ A
Relay(A) == plane = "relay" /\ A
Peer(A) == plane = "peers" /\ A

\* The fairness of each module, for the actions of the plane that runs.  A
\* queue that is not run is empty and asks for nothing.
PlanesSpec ==
  /\ PlanesInit /\ [][PlanesNext]_planesVars
  /\ WorkFairness
  /\ WF_syncVars(Sync(SenderTicks)) /\ WF_syncVars(Sync(ReceiveData \/ Advertise))
  /\ SF_syncVars(Sync(Reconnect))
  /\ \A k \in RelayKeys : WF_relayVars(Relay(WindowTick(k))) /\ WF_relayVars(Relay(DrainShard(k)))
  /\ WF_relayVars(Relay(RateTick)) /\ WF_relayVars(Relay(Poll)) /\ WF_relayVars(Relay(ReceiveOp))
  /\ WF_relayVars(Relay(Consume)) /\ WF_relayVars(Relay(DeliverPage))
  /\ SF_peerVars(Peer(Elapse)) /\ SF_peerVars(Peer(MembershipTick))
  /\ WF_peerVars(Peer(HandleEvent))

=============================================================================
