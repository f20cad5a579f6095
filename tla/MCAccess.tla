------------------------------ MODULE MCAccess ------------------------------
(***************************************************************************)
(* Access for TLC: the keys of the roles are interchangeable.               *)
(***************************************************************************)
EXTENDS Access, TLC

Symmetry == Permutations(Role)
=============================================================================
