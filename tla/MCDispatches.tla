---------------------------- MODULE MCDispatches ----------------------------
(***************************************************************************)
(* Dispatches with a history variable.  The code has nothing like calm: it  *)
(* is TRUE as long as no two createDispatch requests have been in progress  *)
(* at once and no closed shift has been opened again.                       *)
(***************************************************************************)
EXTENDS Dispatches, Naturals, TLC

VARIABLE calm

Creators == {w \in inflight : w.op \in {"driver", "overlap", "insert"}}
Ended(k) == Exists(k) /\ dispatch[k].status \in Closed

MCInit == Init /\ calm = TRUE

\* A step with what it leaves of the calm.
MCNext ==
    /\ Next
    /\ calm' = (calm /\ Cardinality(Creators') <= 1
                     /\ \A k \in Dispatch : Ended(k) => Ended(k)')

MCSpec == MCInit /\ [][MCNext]_<<vars, calm>>

\* The overlap query is enough as long as shifts are created one at a time and closed
\* shifts stay closed: then no vehicle and no driver is booked twice for a slot.
CalmMeansNoDoubleBooking == calm => NoDoubleBooking

\* Everything of one kind is interchangeable.
Symmetry == Permutations(Vehicle) \cup Permutations(Driver)
            \cup Permutations(Dispatch) \cup Permutations(Request)
=============================================================================
