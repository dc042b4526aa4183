-------------------------- MODULE MCReactiveGraph --------------------------
(***************************************************************************)
(* The programs on which ReactiveGraph is model-checked.                   *)
(***************************************************************************)
EXTENDS ReactiveGraph

get(k) == [do |-> "get", of |-> k]
ret(v) == [do |-> "return", to |-> IF v = None THEN 0 ELSE v]
put(k, v) == [do |-> "set", of |-> k, to |-> v]
Item(k, v) == [kind |-> k, init |-> v]

(* Guarded computed cells: an equal value does not ripple. *)
EqualGuard(k, old, new) == old = new

(* Live program: a diamond with a dynamic dependency.                      *)
(*   1 a, 2 b: cells     3 odd = (a = 1)                                   *)
(*   4 pick = IF odd = 0 THEN b ELSE 0      5 effect reads pick, a         *)
(*   6 effect reads odd and b, and writes b when odd is 1                  *)
LivePlan == <<Item("cell", 0), Item("cell", 0), Item("slot", 0), Item("slot", 0),
              Item("effect", 0), Item("effect", 0)>>
LiveBody(k, log) ==
  CASE k = 3 -> IF log = << >> THEN get(1) ELSE ret(IF log[1] = 1 THEN 1 ELSE 0)
    [] k = 4 -> IF log = << >> THEN get(3)
                ELSE IF log[1] # 0 THEN ret(0)
                ELSE IF Len(log) = 1 THEN get(2) ELSE ret(log[2])
    [] k = 5 -> IF log = << >> THEN get(4) ELSE IF Len(log) = 1 THEN get(1) ELSE ret(0)
    [] k = 6 -> IF log = << >> THEN get(3)
                ELSE IF Len(log) = 1 THEN get(2)
                ELSE IF log[1] = 1 /\ Len(log) = 2 THEN put(2, 1)
                ELSE ret(0)
    [] OTHER -> ret(0)

(* Churn program: disposal from the program and from closures, recycled    *)
(* ids, exceptions out of computed cells and effects.                      *)
(*   1 a, 2 b: cells      3 copy = a                                       *)
(*   4 effect reads copy and disposes it when it is 1                      *)
(*   5 effect reads b; on 1 it disposes itself and makes 6                 *)
(*   6 computed cell: reads b, throws on 0, else reads copy                *)
ChurnPlan == <<Item("cell", 0), Item("cell", 0), Item("slot", 0),
               Item("effect", 0), Item("effect", 0), Item("slot", 0)>>
ChurnBody(k, log) ==
  CASE k = 3 -> IF log = << >> THEN get(1) ELSE ret(log[1])
    [] k = 4 -> IF log = << >> THEN get(3)
                ELSE IF log[1] = 1 /\ Len(log) = 1 THEN [do |-> "dispose", of |-> 3]
                ELSE ret(0)
    [] k = 5 -> IF log = << >> THEN get(2)
                ELSE IF log[1] = 0 THEN ret(0)
                ELSE IF Len(log) = 1 THEN [do |-> "dispose_self"]
                ELSE IF Len(log) = 2 THEN [do |-> "make"]
                ELSE ret(0)
    [] k = 6 -> IF log = << >> THEN get(2)
                ELSE IF log[1] = 0 THEN [do |-> "throw"]
                ELSE IF Len(log) = 1 THEN get(3) ELSE ret(log[2])
    [] OTHER -> ret(0)

----------------------------------------------------------------------------
(* Throwing program.  1 a: cell   2 guarded: throws when a is 1            *)
(*   3 effect reads guarded       4 b: cell      5 effect reads b          *)
ThrowPlan == <<Item("cell", 0), Item("slot", 0), Item("effect", 0), Item("cell", 0),
               Item("effect", 0)>>
ThrowBody(k, log) ==
  CASE k = 2 -> IF log = << >> THEN get(1)
                ELSE IF log[1] = 1 THEN [do |-> "throw"] ELSE ret(log[1])
    [] k = 3 -> IF log = << >> THEN get(2) ELSE ret(0)
    [] k = 5 -> IF log = << >> THEN get(4) ELSE ret(0)
    [] OTHER -> ret(0)

(* A throwing read leaves the context usable: an effect that reads only     *)
(* cell b has seen b's value whenever the program has control.              *)
UsableAfterThrow ==
  (HostIdle /\ made[5] # None) => seen[5] = <<val[made[4].id]>>

=============================================================================
