----------------------------- MODULE MCReplicas -----------------------------
(***************************************************************************)
(* The parts that admit, fold or replicate what comes from elsewhere: the  *)
(* ingress cell, text, sequence and tree CRDTs, the keyed family sync, the *)
(* command and receipt projections, the durable client and the signaling   *)
(* room.  They do not act on each other: a behaviour runs one while the    *)
(* others stay in their initial states, so the state spaces add up instead *)
(* of multiplying.                                                         *)
(***************************************************************************)
EXTENDS Ingress, TextReplicas, SeqReplicas, LosslessTree, FamilySync, CommandPlane,
        DurableClient, SignalingRoom

VARIABLE part   \* the part this behaviour runs

crdtVars == <<textVars, seqVars, treeVars, familySyncVars>>
foldVars == <<ingressVars, commandVars, clientVars, roomVars>>
replicasVars == <<part, crdtVars, foldVars>>

ReplicasInit ==
  /\ part \in {"text", "seq", "tree", "familySync", "ingress", "command", "client", "room"}
  /\ TextInit /\ SeqInit /\ TreeInit /\ FamilySyncInit /\ CommandInit /\ ClientInit
  /\ IngressInit /\ (part # "ingress" => overflow = "Block")
  /\ RoomInit /\ (part # "room" => mode = "Open")

CrdtNext ==
  \/ part = "text" /\ TextNext /\ UNCHANGED <<seqVars, treeVars, familySyncVars>>
  \/ part = "seq" /\ SeqNext /\ UNCHANGED <<textVars, treeVars, familySyncVars>>
  \/ part = "tree" /\ TreeNext /\ UNCHANGED <<textVars, seqVars, familySyncVars>>
  \/ part = "familySync" /\ FamilySyncNext /\ UNCHANGED <<textVars, seqVars, treeVars>>

FoldNext ==
  \/ part = "ingress" /\ IngressNext /\ UNCHANGED <<commandVars, clientVars, roomVars>>
  \/ part = "command" /\ CommandNext /\ UNCHANGED <<ingressVars, clientVars, roomVars>>
  \/ part = "client" /\ ClientNext /\ UNCHANGED <<ingressVars, commandVars, roomVars>>
  \/ part = "room" /\ RoomNext /\ UNCHANGED <<ingressVars, commandVars, clientVars>>

ReplicasNext ==
  \/ CrdtNext /\ UNCHANGED <<part, foldVars>>
  \/ FoldNext /\ UNCHANGED <<part, crdtVars>>

ReplicasSpec == ReplicasInit /\ [][ReplicasNext]_replicasVars

-----------------------------------------------------------------------------
(* What the parts keep, each stated of the behaviours that run it.         *)

\* Admission releases a generation's envelopes in order and without a hole,
\* whatever the transport reordered or repeated, and a cached window is the
\* latest one when no thread owes an invalidation.
IngressSound == part = "ingress" => IngressTypeOK /\ WindowInOrder /\ WindowReaderCurrent

\* Replicas of a text with the same operations show the same text, and a delta
\* brings what a merge would.
TextSound == part = "text" => TextAgrees /\ DeltaIsMerge

\* A local write to the sequence is never lost to an older one, and merges
\* agree in whatever order they come.
SeqSound == part = "seq" => OwnWritesLand /\ SeqMergesAgree

\* A tree's frontier names exactly the operations it has, a diff against it
\* closes every gap, and trees with the same operations agree.
TreeSound == part = "tree" => FrontierIsLog /\ DiffClosesGaps /\ TreesAgree

\* Replicas of a keyed family with the same operations agree on it, and an
\* entry shows its last write, as far as node ids do not collide.
FamiliesAgree == part = "familySync" => FamiliesConverge /\ EntriesShowLastWrite

\* Command and receipt projections are functions of what was seen and keep one
\* verdict, and the durable client's projection is a gap-free prefix of the
\* source: late, repeated and reordered messages leave no trace.
FoldsSound ==
  /\ part = "command" => CommandFoldsSeen /\ OneVerdict
  /\ part = "client" => ProjectionIsPrefix

\* Every member's view of the room is its roster, and a forwarded signal comes
\* from a peer that the receiver has been told of.
RoomSound == part = "room" => RosterViewsAgree /\ SignalsFromKnownPeers

=============================================================================
