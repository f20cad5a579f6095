----------------------------- MODULE MCRegistry -----------------------------
(***************************************************************************)
(* Registry for TLC: the keys of one table are interchangeable, and so are  *)
(* the requests.                                                           *)
(***************************************************************************)
EXTENDS Registry, TLC

Symmetry == Permutations(Site) \cup Permutations(Resident) \cup Permutations(Address)
            \cup Permutations(User) \cup Permutations(Request)
=============================================================================
