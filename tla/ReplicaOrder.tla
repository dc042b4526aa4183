----------------------------- MODULE ReplicaOrder -----------------------------
(***************************************************************************)
(* The two orders that replicas agree by: the stamps of the hybrid logical *)
(* clock, and the fractional keys that order siblings.                     *)
(***************************************************************************)
EXTENDS Integers, Sequences, FiniteSetsExt

(* The hybrid logical clock.  Its state is the stamp that it gave last; the *)
(* wall time comes from the caller.                                         *)

StampLess(a, b) ==
  \/ a.wall < b.wall
  \/ a.wall = b.wall /\ a.logical < b.logical
  \/ a.wall = b.wall /\ a.logical = b.logical /\ a.peer < b.peer

MaxStamp(a, b) == IF StampLess(a, b) THEN b ELSE a

Ticked(c, now) ==
  IF now > c.wall THEN [c EXCEPT !.wall = now, !.logical = 0]
  ELSE [c EXCEPT !.logical = @ + 1]

Observed(c, remote, now) ==
  LET wall == Max({c.wall, remote.wall, now})
  IN [c EXCEPT !.wall = wall,
               !.logical = IF wall = c.wall /\ wall = remote.wall
                             THEN Max({c.logical, remote.logical}) + 1
                           ELSE IF wall = c.wall THEN c.logical + 1
                           ELSE IF wall = remote.wall THEN remote.logical + 1
                           ELSE 0]

\* Mutant: a fork starts a fresh clock.
ForkedFresh(c, q) == [wall |-> 0, logical |-> 0, peer |-> q]

\* The position of the source's clock under the peer of the fork.
Forked(c, q) == [c EXCEPT !.peer = q]

(* Keys that order siblings: sequences of bytes; << >> stands for no key. *)

key_between(lo, hi) ==
  LET apart == {i \in 1..Min({Len(lo), Len(hi)}) : hi[i] - lo[i] > 1}
  IN IF lo = <<>> /\ hi = <<>> THEN <<128>>
     ELSE IF lo = <<>> THEN IF hi[1] > 1 THEN <<hi[1] \div 2>> ELSE Append(hi, 128)
     ELSE IF hi = <<>> \/ apart = {} THEN Append(lo, 128)
     ELSE LET i == Min(apart)
          IN Append(SubSeq(lo, 1, i - 1), (lo[i] + hi[i]) \div 2)

KeyLess(a, b) ==
  \/ Len(a) < Len(b) /\ SubSeq(b, 1, Len(a)) = a
  \/ \E i \in 1..Min({Len(a), Len(b)}) :
       a[i] < b[i] /\ SubSeq(a, 1, i - 1) = SubSeq(b, 1, i - 1)

=============================================================================
