------------------------------ MODULE Invoices ------------------------------
(***************************************************************************)
(* The invoice ledger: the maker-checker workflow of BillingService         *)
(* (src/src/modules/billing) beside the nightly overdue job                 *)
(* (src/src/modules/crons/services/overdue-invoices-cron.service.ts).       *)
(*                                                                         *)
(* Every handler on an existing invoice first reads it (findOneInvoice),    *)
(* tests the status it read, and then writes with an UPDATE ... WHERE id    *)
(* that tests nothing: not the status, not deletedAt.  No transaction       *)
(* spans the two.  `inflight' holds the requests that have passed their     *)
(* test and whose write is still to come; any number of other steps may     *)
(* happen in between.                                                       *)
(***************************************************************************)
EXTENDS FiniteSets

CONSTANTS
    Invoice,    \* primary keys of waste_invoices
    Request,    \* HTTP requests that may be in progress at once
    Run         \* invocations of the overdue job that may be active at once

VARIABLES
    invoice,    \* the table: invoice[i] is the row i, "absent" before its insert
    inflight,   \* requests between their status test and their write
    run, log    \* the overdue job, see CronRun

vars == <<invoice, inflight, run, log>>

Cron == INSTANCE CronRun WITH Item <- Invoice

Status == {"DRAFT", "REJECTED_DRAFT", "ISSUED", "OVERDUE", "PAID"}
Op == {"approve", "reject", "pay", "delete"}

\* approved, paid, deleted: whether approvedAt, paidAt, deletedAt is set.
\* pastDue: whether dueDate lies in the past.  No handler changes dueDate.
Row == [status : Status, approved : BOOLEAN, paid : BOOLEAN,
        deleted : BOOLEAN, pastDue : BOOLEAN]

\* What the table holds of an invoice before its insert.
NoRow == [status |-> "absent", approved |-> FALSE, paid |-> FALSE,
          deleted |-> FALSE, pastDue |-> FALSE]

Pending == [by : Request, op : Op, inv : Invoice]

\* The types of the variables; a row that was never inserted carries nothing.
TypeOK ==
    /\ invoice \in [Invoice -> Row \cup {NoRow}]
    /\ inflight \subseteq Pending
    /\ Cron!CronTypeOK

Init ==
    /\ invoice = [i \in Invoice |-> NoRow]
    /\ inflight = {}
    /\ Cron!CronInit

Exists(i) == invoice[i].status # "absent"

\* What findOneInvoice serves.
Visible(i) == Exists(i) /\ ~invoice[i].deleted

-----------------------------------------------------------------------------
\* generateInvoiceDraft: the insert at the end of the MAKER step, by a request or
\* by a billing job.  The caller may give a dueDate that has already passed.
GenerateDraft(i) ==
    /\ ~Exists(i)
    /\ \E late \in BOOLEAN :
          invoice' = [invoice EXCEPT ![i] =
                        [NoRow EXCEPT !.status = "DRAFT", !.pastDue = late]]
    /\ UNCHANGED <<inflight, run, log>>

\* Time passes the dueDate of an invoice.
DueDatePasses(i) ==
    /\ Exists(i) /\ ~invoice[i].pastDue
    /\ invoice' = [invoice EXCEPT ![i].pastDue = TRUE]
    /\ UNCHANGED <<inflight, run, log>>

\* Mutant of Accepts: the status test of recordPayment is dropped.
AcceptsAnyPayment(op, s) ==
    \/ op = "approve" /\ s \in {"DRAFT", "REJECTED_DRAFT"}
    \/ op = "reject" /\ s = "DRAFT"
    \/ op \in {"pay", "delete"}

\* The statuses each handler accepts in the row it has read.
Accepts(op, s) ==
    \/ op = "approve" /\ s \in {"DRAFT", "REJECTED_DRAFT"}
    \/ op = "reject" /\ s = "DRAFT"
    \/ op = "pay" /\ s \in {"ISSUED", "OVERDUE"}
    \/ op = "delete"

\* Mutant of Check: findOneInvoice serves soft-deleted rows too.
CheckServesDeleted(q, op, i) ==
    /\ \A w \in inflight : w.by # q
    /\ Exists(i)
    /\ Accepts(op, invoice[i].status)
    /\ inflight' = inflight \cup {[by |-> q, op |-> op, inv |-> i]}
    /\ UNCHANGED <<invoice, run, log>>

\* findOneInvoice and the status test that follows it.  A request that fails
\* either one ends here and changes nothing.
Check(q, op, i) ==
    /\ \A w \in inflight : w.by # q
    /\ Visible(i)
    /\ Accepts(op, invoice[i].status)
    /\ inflight' = inflight \cup {[by |-> q, op |-> op, inv |-> i]}
    /\ UNCHANGED <<invoice, run, log>>

\* The unconditional UPDATE that ends request w.
Write(w, row) ==
    /\ invoice' = [invoice EXCEPT ![w.inv] = row]
    /\ inflight' = inflight \ {w}
    /\ UNCHANGED <<run, log>>

\* updateStatus to ISSUED; approvedBy is the e-mail of the authenticated user,
\* so approvedAt is always set with it.
Approve(w) ==
    /\ w.op = "approve"
    /\ Write(w, [invoice[w.inv] EXCEPT !.status = "ISSUED", !.approved = TRUE])

Reject(w) ==
    /\ w.op = "reject"
    /\ Write(w, [invoice[w.inv] EXCEPT !.status = "REJECTED_DRAFT"])

RecordPayment(w) ==
    /\ w.op = "pay"
    /\ Write(w, [invoice[w.inv] EXCEPT !.status = "PAID", !.paid = TRUE])

DeleteInvoice(w) ==
    /\ w.op = "delete"
    /\ Write(w, [invoice[w.inv] EXCEPT !.deleted = TRUE])

\* The UPDATE throws, or the process dies: the request ends without its write.
Drop(w) ==
    /\ inflight' = inflight \ {w}
    /\ UNCHANGED <<invoice, run, log>>

-----------------------------------------------------------------------------
\* Mutant of Expired: the job does not compare dueDate with the clock.
ExpiredIgnoringDueDate == {i \in Invoice : Visible(i) /\ invoice[i].status = "ISSUED"}

\* Mutant of Expired: the job looks for the rows that are OVERDUE already.
ExpiredOverdue ==
    {i \in Invoice : Visible(i) /\ invoice[i].status = "OVERDUE" /\ invoice[i].pastDue}

\* The WHERE clause of the overdue job's findMany.
Expired ==
    {i \in Invoice : Visible(i) /\ invoice[i].status = "ISSUED" /\ invoice[i].pastDue}

OverdueStart(r) == Cron!Start(r) /\ UNCHANGED <<invoice, inflight>>
OverdueScan(r) == Cron!Scan(r, Expired) /\ UNCHANGED <<invoice, inflight>>

\* updateStatus to OVERDUE by primary key, for a row of the snapshot.
MarkOverdue(r, i) ==
    /\ Cron!ItemDone(r, i)
    /\ invoice' = [invoice EXCEPT ![i].status = "OVERDUE"]
    /\ UNCHANGED inflight

MarkFails(r, i) == Cron!ItemFails(r, i) /\ UNCHANGED <<invoice, inflight>>
OverdueComplete(r) == Cron!Complete(r) /\ UNCHANGED <<invoice, inflight>>
OverdueThrow(r) == Cron!Throw(r) /\ UNCHANGED <<invoice, inflight>>
OverdueFail(r) == Cron!Fail(r) /\ UNCHANGED <<invoice, inflight>>
OverdueDie(r) == Cron!Die(r) /\ UNCHANGED <<invoice, inflight>>

-----------------------------------------------------------------------------
RequestStep ==
    \/ \E q \in Request, op \in Op, i \in Invoice : Check(q, op, i)
    \/ \E w \in inflight : \/ Approve(w) \/ Reject(w) \/ RecordPayment(w)
                           \/ DeleteInvoice(w) \/ Drop(w)

CronStep(r) ==
    \/ OverdueStart(r) \/ OverdueScan(r)
    \/ \E i \in Invoice : MarkOverdue(r, i) \/ MarkFails(r, i)
    \/ OverdueComplete(r) \/ OverdueThrow(r) \/ OverdueFail(r) \/ OverdueDie(r)

Next ==
    \/ \E i \in Invoice : GenerateDraft(i) \/ DueDatePasses(i)
    \/ RequestStep
    \/ \E r \in Run : CronStep(r)

Spec == Init /\ [][Next]_vars

(***************************************************************************)
(* Fairness.  The timer fires every night and the event loop runs what has  *)
(* started (WF on starting and on advancing); the database does not refuse  *)
(* the same update for ever (SF on the snapshot and on each mark): a run    *)
(* may die or fail any number of times, but not every time.  Requests get   *)
(* no fairness.                                                             *)
(***************************************************************************)
FairSpec ==
    /\ Spec
    /\ \A r \in Run :
          /\ WF_vars(OverdueStart(r))
          /\ SF_vars(OverdueScan(r))
          /\ \A i \in Invoice : SF_vars(MarkOverdue(r, i))
          /\ WF_vars(OverdueComplete(r) \/ OverdueFail(r) \/ OverdueDie(r))

-----------------------------------------------------------------------------
\* No money before the checker: a payment is on record only for an invoice whose
\* approval is on record, whatever requests and jobs overlapped.
PaymentNeedsApproval == \A i \in Invoice : invoice[i].paid => invoice[i].approved

\* What the payer is shown as a bill (ISSUED, OVERDUE, PAID) has been approved: no
\* race turns a draft or a rejected draft into a bill without an approver.
BillIsApproved ==
    \A i \in Invoice :
        invoice[i].status \in {"ISSUED", "OVERDUE", "PAID"} => invoice[i].approved

\* The job may overwrite a status from a stale snapshot, but an invoice is never
\* called OVERDUE before its dueDate.
OverdueIsLate == \A i \in Invoice : invoice[i].status = "OVERDUE" => invoice[i].pastDue

\* What a stale writer relies on is still true when it writes, although nothing
\* locks the row: a payment about to be recorded is for an approved invoice, an
\* invoice about to be marked OVERDUE is approved and late, and the row of every
\* pending write is there.  This is what makes the invariants above inductive.
StaleReadsStillHold ==
    /\ \A w \in inflight : /\ Exists(w.inv)
                           /\ w.op = "pay" => invoice[w.inv].approved
    /\ \A r \in Run : \A i \in run[r].todo :
          Exists(i) /\ invoice[i].approved /\ invoice[i].pastDue

\* What the audit table says of the overdue job (CronRun) is what the job did.
AuditRowTruthful == Cron!AuditRowTruthful

\* Who may still change row i: the requests and job turns that read it earlier.
Writers(i) ==
    {w \in inflight : w.inv = i} \cup {r \in Run : run[r].pc = "looping" /\ i \in run[r].todo}

\* Soft deletion is final: after it nobody new gets to write the row, and only the
\* writers that had read it before can still change anything but the clock.
DeletionDrains ==
    [][\A i \in Invoice : invoice[i].deleted =>
          /\ Writers(i)' \subseteq Writers(i)
          /\ Writers(i) = {} => invoice'[i] = [invoice[i] EXCEPT !.pastDue = invoice'[i].pastDue]
      ]_vars

\* Once an invoice has left DRAFT no interleaving makes it a fresh draft again, so
\* an approval or a rejection on record is never silently undone.
NeverDraftAgain ==
    [][\A i \in Invoice :
          invoice'[i].status = "DRAFT" => invoice[i].status \in {"absent", "DRAFT"}]_vars

\* The stage an auditor reads off the stamps of row i.
StageOf(i) ==
    CASE invoice[i].paid -> "settled"
      [] ~invoice[i].paid /\ invoice[i].approved -> "approved"
      [] ~invoice[i].paid /\ ~invoice[i].approved /\ Exists(i) -> "drafted"
      [] OTHER -> "none"

Book == INSTANCE InvoiceBook WITH stage <- [i \in Invoice |-> StageOf(i)]

\* The stamps tell the story in order: drafted, approved, settled, one stage at a
\* time, never back, whatever the status column goes through.
ImplementsBook == Book!Spec

\* An issued invoice that is past due does not stay ISSUED for ever: some night the
\* job, or a request, moves it on (or it is deleted), although runs may die or fail.
LateInvoiceIsTreated ==
    \A i \in Invoice :
        (Visible(i) /\ invoice[i].status = "ISSUED" /\ invoice[i].pastDue)
            ~> ~(Visible(i) /\ invoice[i].status = "ISSUED")
=============================================================================
