----------------------------- MODULE InvoiceBook -----------------------------
(***************************************************************************)
(* What the invoice ledger promises an auditor: every invoice is drafted,   *)
(* then approved, then settled; one stage at a time and never back.  It     *)
(* says nothing of the status column, which the handlers and the overdue    *)
(* job may overwrite from stale reads: the stages are those of the stamps   *)
(* approvedAt and paidAt.  Module Invoices implements it.                   *)
(***************************************************************************)
CONSTANT Invoice

VARIABLE stage

Stage == {"none", "drafted", "approved", "settled"}

Init == stage = [i \in Invoice |-> "none"]

\* Invoice i goes from one stage to the following one.
Advance(i, from, to) ==
    /\ stage[i] = from
    /\ stage' = [stage EXCEPT ![i] = to]

Draft(i) == Advance(i, "none", "drafted")
Approve(i) == Advance(i, "drafted", "approved")
Settle(i) == Advance(i, "approved", "settled")

Next == \E i \in Invoice : Draft(i) \/ Approve(i) \/ Settle(i)

Spec == Init /\ [][Next]_stage
=============================================================================
