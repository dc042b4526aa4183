---------------------------- MODULE Coordination ----------------------------
(***************************************************************************)
(* The coordination primitives of coordination.hpp: the lease with its     *)
(* fencing token, on which LeaseCell, LeaderCell and LockCell are built,   *)
(* the semaphore and the barrier.  Peers act on what they were last told:  *)
(* a peer keeps its token although its lease may have run out.  Time only  *)
(* matters through what is left of the lease.                              *)
(***************************************************************************)
EXTENDS Integers, FiniteSets

CONSTANTS
  Peers,
  NoPeer,      \* holder_ is empty
  Ttls,        \* lifetimes asked for
  capacity,    \* permits of the semaphore
  required,    \* arrivals that open the barrier
  MaxFence     \* bound: grants

ASSUME CoordinationAssumption ==
  /\ NoPeer \notin Peers /\ Ttls \subseteq Nat
  /\ capacity \in Nat /\ required \in Nat /\ MaxFence \in Nat

VARIABLES
  holder,      \* holder_
  left,        \* ticks to expiry_
  fence,       \* fence_
  tokens,      \* the fencing token each peer was last given, 0 for none
  holder_cell, \* what LeaseCell and LeaderCell show (LockCell: whether anyone)
  acquired,    \* acquired_ of the semaphore
  available,   \* what SemaphoreCell shows
  arrived,     \* arrived_ of the barrier
  open         \* what BarrierCell shows

lease == <<holder, left, fence, tokens, holder_cell>>
semaphore == <<acquired, available>>
barrier == <<arrived, open>>
coordinationVars == <<lease, semaphore, barrier>>

CoordinationInit ==
  /\ holder = NoPeer /\ left = 0 /\ fence = 0
  /\ tokens = [p \in Peers |-> 0] /\ holder_cell = NoPeer
  /\ acquired = 0 /\ available = capacity
  /\ arrived = {} /\ open = (0 >= required)

-----------------------------------------------------------------------------
(* Lease, leader, lock *)

is_expired == holder # NoPeer /\ left <= 0
is_held == holder # NoPeer /\ ~is_expired

\* Mutant: an expired lease passes on with the fence it had.
FenceKept == IF holder = NoPeer THEN fence + 1 ELSE fence

NextFence == fence + 1

\* Every operation ends by publishing the live holder.
Refresh == holder_cell' = IF holder' # NoPeer /\ left' > 0 THEN holder' ELSE NoPeer

\* acquire; LeaderCell::campaign and contend; LockCell::acquire.
Acquire(p, ttl) ==
  /\ \/ /\ holder = NoPeer \/ is_expired
        /\ fence < MaxFence
        /\ fence' = NextFence /\ holder' = p /\ left' = ttl
        /\ tokens' = [tokens EXCEPT ![p] = fence']
     \/ /\ is_held /\ holder = p
        /\ left' = ttl
        /\ tokens' = [tokens EXCEPT ![p] = fence]
        /\ UNCHANGED <<holder, fence>>
     \/ /\ is_held /\ holder # p
        /\ UNCHANGED <<holder, left, fence, tokens>>
  /\ Refresh
  /\ UNCHANGED <<semaphore, barrier>>

Renew(p, ttl) ==
  /\ left' = IF is_held /\ holder = p THEN ttl ELSE left
  /\ UNCHANGED <<holder, fence, tokens, semaphore, barrier>>
  /\ Refresh

Release(p) ==
  /\ holder' = IF holder = p THEN NoPeer ELSE holder
  /\ UNCHANGED <<left, fence, tokens, semaphore, barrier>>
  /\ Refresh

TickLease ==
  /\ holder' = IF is_expired THEN NoPeer ELSE holder
  /\ UNCHANGED <<left, fence, tokens, semaphore, barrier>>
  /\ Refresh

\* Time passes; nobody is told.
Pass ==
  /\ left > 0 /\ left' = left - 1
  /\ UNCHANGED <<holder, fence, tokens, holder_cell, semaphore, barrier>>

\* LockCell::validate.
validate(token) == fence = token

-----------------------------------------------------------------------------
(* Semaphore and barrier *)

PermitFree == acquired < capacity

AcquirePermit ==
  /\ acquired' = IF PermitFree THEN acquired + 1 ELSE acquired
  /\ available' = capacity - acquired'
  /\ UNCHANGED <<lease, barrier>>

ReleasePermit ==
  /\ acquired' = IF acquired > 0 THEN acquired - 1 ELSE acquired
  /\ available' = capacity - acquired'
  /\ UNCHANGED <<lease, barrier>>

Arrive(p) ==
  /\ arrived' = arrived \cup {p}
  /\ open' = (Cardinality(arrived') >= required)
  /\ UNCHANGED <<lease, semaphore>>

-----------------------------------------------------------------------------

CoordinationNext ==
  \/ \E p \in Peers, ttl \in Ttls : Acquire(p, ttl) \/ Renew(p, ttl)
  \/ \E p \in Peers : Release(p) \/ Arrive(p)
  \/ TickLease \/ Pass \/ AcquirePermit \/ ReleasePermit

CoordinationSpec == CoordinationInit /\ [][CoordinationNext]_coordinationVars

-----------------------------------------------------------------------------

\* The variables have their types; the semaphore never has more permits out
\* than its capacity.
CoordinationTypeOK ==
  /\ holder \in Peers \cup {NoPeer} /\ holder_cell \in Peers \cup {NoPeer}
  /\ left \in Nat /\ fence \in Nat /\ tokens \in [Peers -> Nat]
  /\ acquired \in 0 .. capacity /\ available \in 0 .. capacity
  /\ arrived \subseteq Peers /\ open \in BOOLEAN

\* Fencing: once a lease has passed on, the token of the peer that slept
\* through its expiry no longer validates.  A token is the current one only in
\* the hands of the last peer that was granted the lease, and whoever holds
\* the lease holds the current token.
TokensFence ==
  /\ \A p, q \in Peers : validate(tokens[p]) /\ validate(tokens[q]) /\ tokens[p] > 0 => p = q
  /\ holder # NoPeer => validate(tokens[holder])

=============================================================================
