-------------------------- MODULE DurableRegister --------------------------
(***************************************************************************)
(* What a latest-durable projection promises: per key, the newest accepted *)
(* epoch only grows, and the durable frontier only moves up to an epoch    *)
(* that was accepted.  Claims, retries and reconnects are invisible.       *)
(***************************************************************************)
EXTENDS Integers

CONSTANTS Keys, Epochs

VARIABLES latest,  \* newest accepted epoch of each key, 0 when there is none
          durable  \* durable frontier of each key, 0 when there is none

Init == latest = [k \in Keys |-> 0] /\ durable = [k \in Keys |-> 0]

Accept(k) == \E e \in Epochs :
  /\ e > latest[k]
  /\ latest' = [latest EXCEPT ![k] = e]
  /\ UNCHANGED durable

Persist(k) == \E e \in Epochs :
  /\ durable[k] < e /\ e <= latest[k]
  /\ durable' = [durable EXCEPT ![k] = e]
  /\ UNCHANGED latest

Next == \E k \in Keys : Accept(k) \/ Persist(k)
Spec == Init /\ [][Next]_<<latest, durable>>
=============================================================================
