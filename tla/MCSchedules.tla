---------------------------- MODULE MCSchedules ----------------------------
(***************************************************************************)
(* Schedules for TLC: requests are interchangeable, and so are categories.  *)
(* No property is about more than one entry, and a race about it needs no   *)
(* other: one table holds rows at a time.                                   *)
(***************************************************************************)
EXTENDS Schedules, TLC

Symmetry == Permutations(Request) \cup Permutations(Category)

Creating(table) == \E p \in inflight : p.op = "create" /\ p.table = table

InPlay(table) == Creating(table) \/ \E e \in table : Exists(e)

OneTable == \A t1, t2 \in Table : InPlay(t1) /\ InPlay(t2) => t1 = t2

MCSpec == Init /\ [][Next /\ OneTable']_vars
=============================================================================
