---------------------- MODULE LatestDurableProjection ----------------------
(***************************************************************************)
(* LatestDurableProjectionCore: per key, the newest desired value on its   *)
(* way to a durable sink (include/lazily/latest_durable_projection_core.hpp). *)
(*                                                                         *)
(* A newer epoch replaces only what is not yet claimed; a claimed value    *)
(* stays in flight until the sink acknowledges it, reports a retryable     *)
(* failure, or the connection is re-established under a higher generation. *)
(*                                                                         *)
(* The sink and the wire to it are outside the repository.  They are       *)
(* modelled by what the core must live with: an attempt handed out may be  *)
(* applied at any later time or never, and its acknowledgement or failure  *)
(* report may arrive late, twice, out of order or not at all.              *)
(***************************************************************************)
EXTENDS Integers

CONSTANTS
  Keys, Values,
  None,       \* an empty std::optional
  MaxEpoch,   \* bound: epochs the program uses
  MaxGen      \* bound: reconnects

ASSUME BoundsAssumption ==
  /\ MaxEpoch \in Nat /\ MaxGen \in Nat
  /\ None \notin Nat

Epochs  == 1..MaxEpoch
Desired == [epoch : Epochs, value : Values]
Attempt == [key : Keys, gen : 0..MaxGen, epoch : Epochs, value : Values]

ASSUME NoneAssumption == None \notin Desired /\ None \notin Attempt

VARIABLES
  generation,  \* generation_
  desired,     \* State::desired of each key
  inflight,    \* State::inflight of each key
  through,     \* State::durable_through of each key
  attempts,    \* external: every envelope handed to the sink
  stored,      \* external: what the sink has applied
  latest       \* history: the last accepted desired value of each key

core == <<generation, desired, inflight, through>>
vars == <<generation, desired, inflight, through, attempts, stored, latest>>

Init ==
  /\ generation = 0
  /\ desired = [k \in Keys |-> None] /\ inflight = [k \in Keys |-> None]
  /\ through = [k \in Keys |-> None]
  /\ attempts = {} /\ stored = {}
  /\ latest = [k \in Keys |-> None]

----------------------------------------------------------------------------
(* The core's operations.  Their early returns change nothing: a refused   *)
(* upsert, a claim of an empty or busy key, an answer with a stale         *)
(* generation or for an epoch that is not in flight.                       *)

(* upsert_desired admits an epoch above the frontier and above whatever is *)
(* pending or in flight.                                                   *)
AdmitsAbovePending(k, e) ==
  /\ through[k] # None => e > through[k]
  /\ desired[k] # None => e > desired[k].epoch
Admits(k, e) ==
  /\ through[k] # None => e > through[k]
  /\ desired[k] # None => e > desired[k].epoch
  /\ inflight[k] # None => e > inflight[k].epoch

UpsertDesired(k, e, v) ==
  /\ Admits(k, e)
  /\ desired' = [desired EXCEPT ![k] = [epoch |-> e, value |-> v]]
  /\ latest' = [latest EXCEPT ![k] = [epoch |-> e, value |-> v]]
  /\ UNCHANGED <<generation, inflight, through, attempts, stored>>

Envelope(k) == [key |-> k, gen |-> generation, epoch |-> desired[k].epoch, value |-> desired[k].value]

Claim(k, g) ==
  /\ g = generation /\ inflight[k] = None /\ desired[k] # None
  /\ inflight' = [inflight EXCEPT ![k] = Envelope(k)]
  /\ desired' = [desired EXCEPT ![k] = None]
  /\ attempts' = attempts \cup {Envelope(k)}
  /\ UNCHANGED <<generation, through, stored, latest>>

(* The exact token that owns an in-flight value. *)
Owns(k, g, e) == g = generation /\ inflight[k] # None /\ inflight[k].epoch = e

AckApplied(k, g, e) ==
  /\ Owns(k, g, e)
  /\ inflight' = [inflight EXCEPT ![k] = None]
  /\ through' = [through EXCEPT ![k] = IF @ # None /\ @ > e THEN @ ELSE e]
  /\ UNCHANGED <<generation, desired, attempts, stored, latest>>

(* A failed or abandoned attempt goes back to pending unless a newer one   *)
(* has replaced it.                                                        *)
RequeuedAlways(d, f) == IF f = None THEN d ELSE [epoch |-> f.epoch, value |-> f.value]
Requeued(d, f) ==
  IF f = None \/ (d # None /\ d.epoch > f.epoch) THEN d
  ELSE [epoch |-> f.epoch, value |-> f.value]

FailRetryable(k, g, e) ==
  /\ Owns(k, g, e)
  /\ inflight' = [inflight EXCEPT ![k] = None]
  /\ desired' = [desired EXCEPT ![k] = Requeued(@, inflight[k])]
  /\ UNCHANGED <<generation, through, attempts, stored, latest>>

(* A reconnect takes every attempt out of flight: nobody will answer it    *)
(* under the new generation.                                               *)
NotAbandoned == inflight
Abandoned == [k \in Keys |-> None]

Reconnect(g) ==
  /\ g > generation
  /\ generation' = g
  /\ desired' = [k \in Keys |-> Requeued(desired[k], inflight[k])]
  /\ inflight' = Abandoned
  /\ UNCHANGED <<through, attempts, stored, latest>>

----------------------------------------------------------------------------
(* The sink, external.                                                     *)

Apply(a) ==
  /\ a \in attempts
  /\ stored' = stored \cup {[key |-> a.key, epoch |-> a.epoch, value |-> a.value]}
  /\ UNCHANGED <<generation, desired, inflight, through, attempts, latest>>
Applied(a) == [key |-> a.key, epoch |-> a.epoch, value |-> a.value] \in stored
(* An acknowledgement is sent for an attempt the sink has applied, a       *)
(* failure report for any attempt; both may be delivered any number of     *)
(* times and at any later time.                                            *)
DeliverAck(a)  == a \in attempts /\ Applied(a) /\ AckApplied(a.key, a.gen, a.epoch)
DeliverFail(a) == a \in attempts /\ FailRetryable(a.key, a.gen, a.epoch)

CoreStep ==
  \/ \E k \in Keys, e \in Epochs, v \in Values : UpsertDesired(k, e, v)
  \/ \E k \in Keys, g \in 0..MaxGen : Claim(k, g)
  \/ \E a \in attempts : DeliverAck(a) \/ DeliverFail(a)
  \/ \E g \in 0..MaxGen : Reconnect(g)
SinkStep == \E a \in attempts : Apply(a)
Next == CoreStep \/ SinkStep
Spec == Init /\ [][Next]_vars

----------------------------------------------------------------------------
(* Properties.                                                             *)

(* Every optional of the core holds a value of its type. *)
TypeOK ==
  /\ generation \in 0..MaxGen
  /\ desired \in [Keys -> Desired \cup {None}]
  /\ inflight \in [Keys -> Attempt \cup {None}]
  /\ through \in [Keys -> Epochs \cup {None}]
  /\ attempts \in SUBSET Attempt
  /\ stored \in SUBSET [key : Keys, epoch : Epochs, value : Values]
  /\ latest \in [Keys -> Desired \cup {None}]

(* The three places a value can be in are strictly ordered by epoch: what  *)
(* is pending is newer than what is in flight, which is newer than the     *)
(* frontier.  An in-flight value belongs to the current generation and was *)
(* handed to the sink.                                                     *)
EpochsOrdered ==
  \A k \in Keys :
    /\ inflight[k] # None =>
         /\ inflight[k] \in attempts /\ inflight[k].key = k /\ inflight[k].gen = generation
         /\ through[k] # None => inflight[k].epoch > through[k]
    /\ desired[k] # None =>
         /\ inflight[k] # None => desired[k].epoch > inflight[k].epoch
         /\ through[k] # None => desired[k].epoch > through[k]

(* The last accepted value of a key is never lost, whatever late answers,  *)
(* failures and reconnects happen: it is pending, in flight, or durable,   *)
(* and in the last case the sink holds exactly that value.                 *)
NewestKept ==
  \A k \in Keys : latest[k] # None =>
    \/ desired[k] = latest[k]
    \/ /\ desired[k] = None /\ inflight[k] # None
       /\ inflight[k].epoch = latest[k].epoch /\ inflight[k].value = latest[k].value
    \/ /\ desired[k] = None /\ inflight[k] = None /\ through[k] = latest[k].epoch
       /\ [key |-> k, epoch |-> latest[k].epoch, value |-> latest[k].value] \in stored

(* Nothing exists for a key before its first accepted upsert. *)
NothingBeforeUpsert ==
  \A k \in Keys : latest[k] = None => desired[k] = None /\ inflight[k] = None /\ through[k] = None

(* One epoch of one key names one value, in flight, at the sink and        *)
(* pending: the acknowledgement of one attempt is good for another attempt *)
(* with the same epoch.                                                    *)
EpochNamesValue ==
  \A k \in Keys : \A a \in attempts : a.key = k =>
    /\ \A b \in attempts : (b.key = k /\ b.epoch = a.epoch) => b.value = a.value
    /\ (desired[k] # None /\ desired[k].epoch = a.epoch) => desired[k].value = a.value
    /\ latest[k] # None /\ a.epoch <= latest[k].epoch

(* The epoch the refinement shows: the newest of what the key holds. *)
Newest == [k \in Keys |->
  IF desired[k] # None THEN desired[k].epoch
  ELSE IF inflight[k] # None THEN inflight[k].epoch
  ELSE IF through[k] # None THEN through[k] ELSE 0]
Frontier == [k \in Keys |-> IF through[k] # None THEN through[k] ELSE 0]
(* The core implements a register whose newest accepted epoch and durable  *)
(* frontier only grow: claims, failures, reconnects and stale answers do   *)
(* not show.                                                               *)
Register == INSTANCE DurableRegister WITH latest <- Newest, durable <- Frontier
ImplementsRegister == Register!Spec

(* A sink that is tried again and again eventually applies and answers, so  *)
(* once the program stops upserting, what it wants last becomes durable.    *)
Settles == \A k \in Keys : []<>(Newest[k] = Frontier[k])
=============================================================================
