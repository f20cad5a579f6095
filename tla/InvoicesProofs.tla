--------------------------- MODULE InvoicesProofs ---------------------------
(***************************************************************************)
(* Theorems about the invoice ledger, for any number of invoices, requests  *)
(* and invocations of the overdue job.                                      *)
(*                                                                         *)
(* The three safety invariants are not inductive: after the status test the *)
(* write tests nothing, so each of them rests on what the pending writers   *)
(* have read still being true (StaleReadsStillHold).  That is stable        *)
(* because approvedAt is never cleared and a late invoice stays late.       *)
(***************************************************************************)
EXTENDS Invoices, TLAPS

\* The inductive invariant.
IInv ==
    /\ TypeOK
    /\ PaymentNeedsApproval
    /\ BillIsApproved
    /\ OverdueIsLate
    /\ StaleReadsStillHold

\* What a step may do to a row so that the invariant is kept: it exists still, its
\* approval and its lateness are kept, and a bill or a payment has been approved.
GoodChange(i) ==
    /\ invoice'[i] \in Row \cup {NoRow}
    /\ Exists(i) => Exists(i)'
    /\ invoice[i].approved => invoice'[i].approved
    /\ invoice[i].pastDue => invoice'[i].pastDue
    /\ invoice'[i].paid => invoice'[i].approved
    /\ invoice'[i].status \in {"ISSUED", "OVERDUE", "PAID"} => invoice'[i].approved
    /\ invoice'[i].status = "OVERDUE" => invoice'[i].pastDue

\* An untouched row is a good change.
LEMMA SameRowIsGood ==
    ASSUME IInv, NEW i \in Invoice, invoice'[i] = invoice[i]
    PROVE  GoodChange(i)
BY DEF IInv, TypeOK, GoodChange, Exists, PaymentNeedsApproval, BillIsApproved, OverdueIsLate

\* Good changes alone keep every part of the invariant that is about rows.
LEMMA GoodChangesKeepRows ==
    ASSUME IInv, \A i \in Invoice : GoodChange(i),
           DOMAIN invoice' = Invoice, invoice' = [i \in Invoice |-> invoice'[i]]
    PROVE  /\ invoice' \in [Invoice -> Row \cup {NoRow}]
           /\ PaymentNeedsApproval' /\ BillIsApproved' /\ OverdueIsLate'
<1>1. invoice' \in [Invoice -> Row \cup {NoRow}]
  BY DEF GoodChange
<1>2. QED
  BY <1>1 DEF GoodChange, PaymentNeedsApproval, BillIsApproved, OverdueIsLate

\* A write to the row of request w that is a good change, and takes w off the
\* pending ones, keeps the invariant.
LEMMA GoodWriteKeepsIInv ==
    ASSUME IInv, NEW w \in inflight, NEW row, Write(w, row), GoodChange(w.inv)
    PROVE  IInv'
<1>1. w.inv \in Invoice
  BY DEF IInv, TypeOK, Pending
<1>2. \A i \in Invoice : GoodChange(i)
  <2> SUFFICES ASSUME NEW i \in Invoice PROVE GoodChange(i)
    OBVIOUS
  <2>1. CASE i = w.inv
    BY <2>1
  <2>2. CASE i # w.inv
    <3>1. invoice'[i] = invoice[i]
      BY <2>2 DEF Write, IInv, TypeOK
    <3>2. QED
      BY <3>1, SameRowIsGood
  <2>3. QED
    BY <2>1, <2>2
<1>3. DOMAIN invoice' = Invoice /\ invoice' = [i \in Invoice |-> invoice'[i]]
  BY DEF Write, IInv, TypeOK
<1>4. /\ invoice' \in [Invoice -> Row \cup {NoRow}]
      /\ PaymentNeedsApproval' /\ BillIsApproved' /\ OverdueIsLate'
  BY <1>2, <1>3, GoodChangesKeepRows
<1>5. inflight' \subseteq inflight /\ run' = run /\ log' = log
  BY DEF Write
<1>6. TypeOK'
  BY <1>4, <1>5 DEF IInv, TypeOK, Cron!CronTypeOK
<1>7. StaleReadsStillHold'
  <2>1. ASSUME NEW v \in inflight'
        PROVE  Exists(v.inv)' /\ (v.op = "pay" => invoice'[v.inv].approved)
    BY <2>1, <1>2, <1>5 DEF IInv, TypeOK, Pending, StaleReadsStillHold, GoodChange
  <2>2. ASSUME NEW r \in Run, NEW i \in run'[r].todo
        PROVE  Exists(i)' /\ invoice'[i].approved /\ invoice'[i].pastDue
    BY <2>2, <1>2, <1>5
       DEF IInv, TypeOK, Cron!CronTypeOK, Cron!RunState, StaleReadsStillHold, GoodChange
  <2>3. QED
    BY <2>1, <2>2 DEF StaleReadsStillHold
<1>8. QED
  BY <1>4, <1>6, <1>7 DEF IInv

\* A request's write keeps the invariant.
LEMMA WritesKeepIInv ==
    ASSUME IInv, NEW w \in inflight,
           Approve(w) \/ Reject(w) \/ RecordPayment(w) \/ DeleteInvoice(w)
    PROVE  IInv'
<1>1. /\ w.inv \in Invoice
      /\ invoice[w.inv] \in Row
      /\ w.op = "pay" => invoice[w.inv].approved
  BY DEF IInv, TypeOK, Pending, StaleReadsStillHold, Exists, NoRow
<1>2. CASE Approve(w)
  <2> DEFINE row == [invoice[w.inv] EXCEPT !.status = "ISSUED", !.approved = TRUE]
  <2>1. Write(w, row)
    BY <1>2 DEF Approve
  <2>2. GoodChange(w.inv)
    BY <1>1, <2>1 DEF Write, GoodChange, Row, Status, Exists, IInv, TypeOK
  <2>3. QED
    BY <2>1, <2>2, GoodWriteKeepsIInv
<1>3. CASE Reject(w)
  <2> DEFINE row == [invoice[w.inv] EXCEPT !.status = "REJECTED_DRAFT"]
  <2>1. Write(w, row)
    BY <1>3 DEF Reject
  <2>2. GoodChange(w.inv)
    BY <1>1, <2>1 DEF Write, GoodChange, Row, Status, Exists, IInv, TypeOK,
                      PaymentNeedsApproval
  <2>3. QED
    BY <2>1, <2>2, GoodWriteKeepsIInv
<1>4. CASE RecordPayment(w)
  <2> DEFINE row == [invoice[w.inv] EXCEPT !.status = "PAID", !.paid = TRUE]
  <2>1. Write(w, row) /\ w.op = "pay"
    BY <1>4 DEF RecordPayment
  <2>2. GoodChange(w.inv)
    BY <1>1, <2>1 DEF Write, GoodChange, Row, Status, Exists, IInv, TypeOK
  <2>3. QED
    BY <2>1, <2>2, GoodWriteKeepsIInv
<1>5. CASE DeleteInvoice(w)
  <2> DEFINE row == [invoice[w.inv] EXCEPT !.deleted = TRUE]
  <2>1. Write(w, row)
    BY <1>5 DEF DeleteInvoice
  <2>2. GoodChange(w.inv)
    BY <1>1, <2>1 DEF Write, GoodChange, Row, Status, Exists, IInv, TypeOK,
                      PaymentNeedsApproval, BillIsApproved, OverdueIsLate
  <2>3. QED
    BY <2>1, <2>2, GoodWriteKeepsIInv
<1>6. QED
  BY <1>2, <1>3, <1>4, <1>5

\* The insert of a draft, and the clock, keep the invariant.
LEMMA DraftAndClockKeepIInv ==
    ASSUME IInv, NEW j \in Invoice, GenerateDraft(j) \/ DueDatePasses(j)
    PROVE  IInv'
<1>1. /\ inflight' = inflight /\ run' = run /\ log' = log
      /\ DOMAIN invoice' = Invoice /\ invoice' = [i \in Invoice |-> invoice'[i]]
      /\ \A i \in Invoice : i # j => invoice'[i] = invoice[i]
  BY DEF GenerateDraft, DueDatePasses, IInv, TypeOK
<1>2. GoodChange(j)
  <2>1. CASE GenerateDraft(j)
    <3>1. PICK late \in BOOLEAN :
            invoice'[j] = [status |-> "DRAFT", approved |-> FALSE, paid |-> FALSE,
                           deleted |-> FALSE, pastDue |-> late]
      BY <2>1 DEF GenerateDraft, IInv, TypeOK, NoRow
    <3>2. invoice[j] = NoRow
      BY <2>1 DEF GenerateDraft, IInv, TypeOK, Row, Status, Exists
    <3>3. QED
      BY <3>1, <3>2 DEF GoodChange, NoRow, Row, Status, Exists
  <2>2. CASE DueDatePasses(j)
    <3>1. invoice[j] \in Row /\ invoice'[j] = [invoice[j] EXCEPT !.pastDue = TRUE]
      BY <2>2 DEF DueDatePasses, IInv, TypeOK, NoRow, Exists
    <3>2. QED
      BY <3>1 DEF GoodChange, Row, Status, Exists, IInv, PaymentNeedsApproval, BillIsApproved
  <2>3. QED
    BY <2>1, <2>2
<1>3. \A i \in Invoice : GoodChange(i)
  BY <1>1, <1>2, SameRowIsGood
<1>4. /\ invoice' \in [Invoice -> Row \cup {NoRow}]
      /\ PaymentNeedsApproval' /\ BillIsApproved' /\ OverdueIsLate'
  BY <1>1, <1>3, GoodChangesKeepRows
<1>5. TypeOK'
  BY <1>1, <1>4 DEF IInv, TypeOK, Cron!CronTypeOK
<1>6. StaleReadsStillHold'
  BY <1>1, <1>3 DEF IInv, TypeOK, Pending, Cron!CronTypeOK, Cron!RunState,
                    StaleReadsStillHold, GoodChange
<1>7. QED
  BY <1>4, <1>5, <1>6 DEF IInv

\* The status test keeps the invariant: what it lets through is safe to write.
LEMMA CheckKeepsIInv ==
    ASSUME IInv, NEW q \in Request, NEW op \in Op, NEW i \in Invoice, Check(q, op, i)
    PROVE  IInv'
<1>1. /\ inflight' = inflight \cup {[by |-> q, op |-> op, inv |-> i]}
      /\ invoice' = invoice /\ run' = run /\ log' = log
      /\ Exists(i)
      /\ op = "pay" => invoice[i].approved
  BY DEF Check, Visible, Accepts, IInv, BillIsApproved, Op
<1>2. TypeOK'
  BY <1>1 DEF IInv, TypeOK, Cron!CronTypeOK, Pending
<1>3. StaleReadsStillHold'
  BY <1>1 DEF IInv, StaleReadsStillHold, Exists
<1>4. QED
  BY <1>1, <1>2, <1>3 DEF IInv, PaymentNeedsApproval, BillIsApproved, OverdueIsLate

\* A turn of the overdue job's loop that marks an invoice keeps the invariant.
LEMMA MarkKeepsIInv ==
    ASSUME IInv, NEW r \in Run, NEW j \in Invoice, MarkOverdue(r, j)
    PROVE  IInv'
<1>1. /\ inflight' = inflight /\ log' = log
      /\ run' = [run EXCEPT ![r].todo = @ \ {j}]
      /\ invoice' = [invoice EXCEPT ![j].status = "OVERDUE"]
      /\ j \in run[r].todo
  BY DEF MarkOverdue, Cron!ItemDone
<1>2. /\ invoice[j] \in Row /\ invoice[j].approved /\ invoice[j].pastDue
      /\ invoice'[j] = [invoice[j] EXCEPT !.status = "OVERDUE"]
      /\ \A i \in Invoice : i # j => invoice'[i] = invoice[i]
      /\ DOMAIN invoice' = Invoice /\ invoice' = [i \in Invoice |-> invoice'[i]]
  <2>1. invoice[j] \in Row /\ invoice[j].approved /\ invoice[j].pastDue
    BY <1>1 DEF IInv, TypeOK, StaleReadsStillHold, Exists, NoRow
  <2>2. QED
    BY <1>1, <2>1 DEF IInv, TypeOK
<1>3. GoodChange(j)
  BY <1>2 DEF GoodChange, Row, Status, Exists
<1>4. \A i \in Invoice : GoodChange(i)
  BY <1>2, <1>3, SameRowIsGood
<1>5. /\ invoice' \in [Invoice -> Row \cup {NoRow}]
      /\ PaymentNeedsApproval' /\ BillIsApproved' /\ OverdueIsLate'
  BY <1>2, <1>4, GoodChangesKeepRows
<1>6. run' \in [Run -> Cron!RunState] /\ \A s \in Run : run'[s].todo \subseteq run[s].todo
  BY <1>1 DEF IInv, TypeOK, Cron!CronTypeOK, Cron!RunState
<1>7. TypeOK'
  BY <1>1, <1>5, <1>6 DEF IInv, TypeOK, Cron!CronTypeOK
<1>8. StaleReadsStillHold'
  <2>1. ASSUME NEW w \in inflight'
        PROVE  Exists(w.inv)' /\ (w.op = "pay" => invoice'[w.inv].approved)
    BY <1>1, <1>4 DEF IInv, TypeOK, Pending, StaleReadsStillHold, GoodChange
  <2>2. ASSUME NEW s \in Run, NEW i \in run'[s].todo
        PROVE  Exists(i)' /\ invoice'[i].approved /\ invoice'[i].pastDue
    <3>1. i \in run[s].todo /\ i \in Invoice
      BY <1>6 DEF IInv, TypeOK, Cron!CronTypeOK, Cron!RunState
    <3>2. QED
      BY <1>4, <3>1 DEF IInv, StaleReadsStillHold, GoodChange
  <2>3. QED
    BY <2>1, <2>2 DEF StaleReadsStillHold
<1>9. QED
  BY <1>5, <1>7, <1>8 DEF IInv

\* The steps of the overdue job that write no invoice keep the invariant.
LEMMA OtherCronStepsKeepIInv ==
    ASSUME IInv, NEW r \in Run,
           \/ OverdueStart(r) \/ OverdueScan(r) \/ OverdueComplete(r)
           \/ OverdueThrow(r) \/ OverdueFail(r) \/ OverdueDie(r)
           \/ \E i \in Invoice : MarkFails(r, i)
    PROVE  IInv'
<1>1. /\ invoice' = invoice /\ inflight' = inflight
      /\ run' \in [Run -> Cron!RunState]
      /\ log' \in [Run -> Cron!CronStatus \cup {"none"}]
      /\ \A s \in Run : run'[s].todo \subseteq run[s].todo \cup Expired
  <2>0. run \in [Run -> Cron!RunState] /\ log \in [Run -> Cron!CronStatus \cup {"none"}]
    BY DEF IInv, TypeOK, Cron!CronTypeOK
  <2>1. CASE OverdueStart(r)
    BY <2>0, <2>1 DEF OverdueStart, Cron!Start, Cron!RunState, Cron!CronStatus
  <2>2. CASE OverdueScan(r)
    BY <2>0, <2>2 DEF OverdueScan, Cron!Scan, Cron!RunState, Expired
  <2>3. CASE OverdueComplete(r)
    BY <2>0, <2>3 DEF OverdueComplete, Cron!Complete, Cron!RunState, Cron!CronStatus
  <2>4. CASE OverdueThrow(r)
    BY <2>0, <2>4 DEF OverdueThrow, Cron!Throw, Cron!RunState
  <2>5. CASE OverdueFail(r)
    BY <2>0, <2>5 DEF OverdueFail, Cron!Fail, Cron!RunState, Cron!CronStatus
  <2>6. CASE OverdueDie(r)
    BY <2>0, <2>6 DEF OverdueDie, Cron!Die, Cron!RunState
  <2>7. ASSUME NEW i \in Invoice, MarkFails(r, i)
        PROVE  <1>1!:
    BY <2>0, <2>7 DEF MarkFails, Cron!ItemFails, Cron!RunState
  <2>8. QED
    BY <2>1, <2>2, <2>3, <2>4, <2>5, <2>6, <2>7
<1>2. TypeOK'
  BY <1>1 DEF IInv, TypeOK, Cron!CronTypeOK
<1>3. \A i \in Expired : Exists(i) /\ invoice[i].approved /\ invoice[i].pastDue
  BY DEF Expired, Visible, IInv, BillIsApproved
<1>4. StaleReadsStillHold'
  BY <1>1, <1>3 DEF IInv, StaleReadsStillHold, Exists
<1>5. QED
  BY <1>1, <1>2, <1>4 DEF IInv, PaymentNeedsApproval, BillIsApproved, OverdueIsLate

\* Every step keeps the invariant.
LEMMA NextKeepsIInv == IInv /\ [Next]_vars => IInv'
<1> SUFFICES ASSUME IInv, [Next]_vars PROVE IInv'
  OBVIOUS
<1>1. ASSUME NEW i \in Invoice, GenerateDraft(i) \/ DueDatePasses(i) PROVE IInv'
  BY <1>1, DraftAndClockKeepIInv
<1>2. CASE RequestStep
  <2>1. ASSUME NEW q \in Request, NEW op \in Op, NEW i \in Invoice, Check(q, op, i)
        PROVE  IInv'
    BY <2>1, CheckKeepsIInv
  <2>2. ASSUME NEW w \in inflight,
               Approve(w) \/ Reject(w) \/ RecordPayment(w) \/ DeleteInvoice(w)
        PROVE  IInv'
    BY <2>2, WritesKeepIInv
  <2>3. ASSUME NEW w \in inflight, Drop(w) PROVE IInv'
    BY <2>3 DEF Drop, IInv, TypeOK, Cron!CronTypeOK, PaymentNeedsApproval, BillIsApproved,
                OverdueIsLate, StaleReadsStillHold, Exists
  <2>4. QED
    BY <1>2, <2>1, <2>2, <2>3 DEF RequestStep
<1>3. ASSUME NEW r \in Run, CronStep(r) PROVE IInv'
  <2>1. ASSUME NEW i \in Invoice, MarkOverdue(r, i) PROVE IInv'
    BY <2>1, MarkKeepsIInv
  <2>2. CASE \/ OverdueStart(r) \/ OverdueScan(r) \/ OverdueComplete(r)
             \/ OverdueThrow(r) \/ OverdueFail(r) \/ OverdueDie(r)
             \/ \E i \in Invoice : MarkFails(r, i)
    BY <2>2, OtherCronStepsKeepIInv
  <2>3. QED
    BY <1>3, <2>1, <2>2 DEF CronStep
<1>4. CASE UNCHANGED vars
  BY <1>4 DEF vars, IInv, TypeOK, Cron!CronTypeOK, PaymentNeedsApproval, BillIsApproved,
              OverdueIsLate, StaleReadsStillHold, Exists
<1>5. QED
  BY <1>1, <1>2, <1>3, <1>4 DEF Next

\* The invariant holds in every reachable state.
THEOREM InvariantHolds == Spec => []IInv
<1>1. Init => IInv
  BY DEF Init, IInv, TypeOK, NoRow, Cron!CronInit, Cron!CronTypeOK, Cron!RunState,
         PaymentNeedsApproval, BillIsApproved, OverdueIsLate, StaleReadsStillHold
<1>2. QED
  BY <1>1, NextKeepsIInv, PTL DEF Spec

\* Type correctness: every column, request and job keeps to its set of values.
THEOREM TypeCorrect == Spec => []TypeOK
<1>1. IInv => TypeOK
  BY DEF IInv
<1>2. QED
  BY <1>1, InvariantHolds, PTL

\* No payment is on record for an invoice nobody approved (billing.service.ts,
\* recordPayment), whatever overlaps.
THEOREM PaymentApproved == Spec => []PaymentNeedsApproval
<1>1. IInv => PaymentNeedsApproval
  BY DEF IInv
<1>2. QED
  BY <1>1, InvariantHolds, PTL

\* No draft and no rejected draft becomes a bill without an approval on record.
THEOREM BillsAreApproved == Spec => []BillIsApproved
<1>1. IInv => BillIsApproved
  BY DEF IInv
<1>2. QED
  BY <1>1, InvariantHolds, PTL

\* Although the job writes from a stale snapshot, no invoice is OVERDUE early.
THEOREM OverdueInvoicesAreLate == Spec => []OverdueIsLate
<1>1. IInv => OverdueIsLate
  BY DEF IInv
<1>2. QED
  BY <1>1, InvariantHolds, PTL

\* What each pending writer has read of its row is still true when it writes.
THEOREM WritersStayJustified == Spec => []StaleReadsStillHold
<1>1. IInv => StaleReadsStillHold
  BY DEF IInv
<1>2. QED
  BY <1>1, InvariantHolds, PTL

-----------------------------------------------------------------------------
\* What one step may do to one row.
RowChange(j) ==
    \/ /\ invoice[j] = NoRow
       /\ invoice'[j].status = "DRAFT" /\ ~invoice'[j].approved /\ ~invoice'[j].paid
    \/ /\ invoice[j] \in Row /\ invoice'[j] \in Row
       /\ invoice'[j].status = "DRAFT" => invoice[j].status = "DRAFT"
       /\ \/ /\ invoice'[j].approved = invoice[j].approved
             /\ invoice'[j].paid = invoice[j].paid
          \/ /\ invoice'[j].approved
             /\ invoice'[j].paid = invoice[j].paid
          \/ /\ invoice[j].approved /\ invoice'[j].approved /\ invoice'[j].paid

OneRowChanges ==
    \/ invoice' = invoice
    \/ \E j \in Invoice : /\ \A i \in Invoice \ {j} : invoice'[i] = invoice[i]
                          /\ RowChange(j)

\* Every step leaves the rows alone or changes a single one as RowChange says.
LEMMA StepsChangeOneRow ==
    ASSUME IInv, [Next]_vars
    PROVE  OneRowChanges
<1>1. ASSUME NEW j \in Invoice, GenerateDraft(j) PROVE OneRowChanges
  <2>1. PICK late \in BOOLEAN :
            invoice' = [invoice EXCEPT ![j] =
                           [status |-> "DRAFT", approved |-> FALSE, paid |-> FALSE,
                            deleted |-> FALSE, pastDue |-> late]]
    BY <1>1 DEF GenerateDraft, NoRow
  <2>2. invoice[j] = NoRow
    BY <1>1 DEF GenerateDraft, IInv, TypeOK, Row, Status, Exists
  <2>3. QED
    BY <2>1, <2>2 DEF OneRowChanges, RowChange, IInv, TypeOK
<1>2. ASSUME NEW j \in Invoice, DueDatePasses(j) PROVE OneRowChanges
  <2>1. /\ invoice[j] \in Row
        /\ invoice' = [invoice EXCEPT ![j].pastDue = TRUE]
    BY <1>2 DEF DueDatePasses, IInv, TypeOK, NoRow, Exists
  <2>2. RowChange(j)
    BY <2>1 DEF RowChange, Row, IInv, TypeOK
  <2>3. QED
    BY <2>1, <2>2 DEF OneRowChanges, IInv, TypeOK
<1>3. ASSUME NEW w \in inflight,
             Approve(w) \/ Reject(w) \/ RecordPayment(w) \/ DeleteInvoice(w)
      PROVE  OneRowChanges
  <2>1. /\ w.inv \in Invoice
        /\ invoice[w.inv] \in Row
        /\ w.op = "pay" => invoice[w.inv].approved
    BY DEF IInv, TypeOK, Pending, StaleReadsStillHold, Exists, NoRow
  <2>2. \A i \in Invoice \ {w.inv} : invoice'[i] = invoice[i]
    BY <1>3, <2>1 DEF Approve, Reject, RecordPayment, DeleteInvoice, Write, IInv, TypeOK
  <2>3. CASE Approve(w)
    <3>1. invoice'[w.inv] = [invoice[w.inv] EXCEPT !.status = "ISSUED", !.approved = TRUE]
      BY <2>1, <2>3 DEF Approve, Write, IInv, TypeOK
    <3>2. RowChange(w.inv)
      BY <2>1, <3>1 DEF RowChange, Row, Status
    <3>3. QED
      BY <2>1, <2>2, <3>2 DEF OneRowChanges
  <2>4. CASE Reject(w)
    <3>1. invoice'[w.inv] = [invoice[w.inv] EXCEPT !.status = "REJECTED_DRAFT"]
      BY <2>1, <2>4 DEF Reject, Write, IInv, TypeOK
    <3>2. RowChange(w.inv)
      BY <2>1, <3>1 DEF RowChange, Row, Status
    <3>3. QED
      BY <2>1, <2>2, <3>2 DEF OneRowChanges
  <2>5. CASE RecordPayment(w)
    <3>1. /\ invoice'[w.inv] = [invoice[w.inv] EXCEPT !.status = "PAID", !.paid = TRUE]
          /\ invoice[w.inv].approved
      BY <2>1, <2>5 DEF RecordPayment, Write, IInv, TypeOK
    <3>2. RowChange(w.inv)
      BY <2>1, <3>1 DEF RowChange, Row, Status
    <3>3. QED
      BY <2>1, <2>2, <3>2 DEF OneRowChanges
  <2>6. CASE DeleteInvoice(w)
    <3>1. invoice'[w.inv] = [invoice[w.inv] EXCEPT !.deleted = TRUE]
      BY <2>1, <2>6 DEF DeleteInvoice, Write, IInv, TypeOK
    <3>2. RowChange(w.inv)
      BY <2>1, <3>1 DEF RowChange, Row, Status
    <3>3. QED
      BY <2>1, <2>2, <3>2 DEF OneRowChanges
  <2>7. QED
    BY <1>3, <2>3, <2>4, <2>5, <2>6
<1>4. ASSUME NEW r \in Run, NEW j \in Invoice, MarkOverdue(r, j) PROVE OneRowChanges
  <2>1. invoice[j] \in Row
    BY <1>4 DEF MarkOverdue, Cron!ItemDone, IInv, TypeOK, StaleReadsStillHold, Exists, NoRow
  <2>2. /\ invoice'[j] = [invoice[j] EXCEPT !.status = "OVERDUE"]
        /\ \A i \in Invoice \ {j} : invoice'[i] = invoice[i]
    BY <1>4 DEF MarkOverdue, IInv, TypeOK
  <2>3. RowChange(j)
    BY <2>1, <2>2 DEF RowChange, Row, Status
  <2>4. QED
    BY <2>2, <2>3 DEF OneRowChanges
<1>5. QED
  <2>1. CASE RequestStep
    <3>1. \/ invoice' = invoice
          \/ \E w \in inflight :
                Approve(w) \/ Reject(w) \/ RecordPayment(w) \/ DeleteInvoice(w)
      BY <2>1 DEF RequestStep, Check, Drop
    <3>2. QED
      BY <1>3, <3>1 DEF OneRowChanges
  <2>2. ASSUME NEW r \in Run, CronStep(r) PROVE OneRowChanges
    <3>1. invoice' = invoice \/ \E j \in Invoice : MarkOverdue(r, j)
      BY <2>2 DEF CronStep, OverdueStart, OverdueScan, MarkFails, OverdueComplete,
                  OverdueThrow, OverdueFail, OverdueDie
    <3>2. QED
      BY <1>4, <3>1 DEF OneRowChanges
  <2>3. CASE UNCHANGED vars
    BY <2>3 DEF vars, OneRowChanges
  <2>4. QED
    BY <1>1, <1>2, <2>1, <2>2, <2>3 DEF Next

\* Nothing turns an invoice back into a fresh draft.
THEOREM NoWayBackToDraft == Spec => NeverDraftAgain
<1>1. ASSUME IInv, [Next]_vars
      PROVE  \A i \in Invoice :
                invoice'[i].status = "DRAFT" => invoice[i].status \in {"absent", "DRAFT"}
  <2>1. OneRowChanges
    BY <1>1, StepsChangeOneRow
  <2>2. QED
    BY <2>1 DEF OneRowChanges, RowChange, NoRow
<1>2. QED
  BY <1>1, InvariantHolds, PTL DEF Spec, NeverDraftAgain

\* The ledger implements the abstract book: drafted, approved, settled, in order.
THEOREM LedgerImplementsBook == Spec => ImplementsBook
<1>1. Init => Book!Init
  BY DEF Init, Book!Init, StageOf, NoRow, Exists
<1>2. ASSUME IInv, [Next]_vars
      PROVE  [Book!Next]_([i \in Invoice |-> StageOf(i)])
  <2>1. CASE invoice' = invoice
    BY <2>1 DEF StageOf, Exists
  <2>2. ASSUME NEW j \in Invoice, RowChange(j),
               \A i \in Invoice \ {j} : invoice'[i] = invoice[i]
        PROVE  [Book!Next]_([i \in Invoice |-> StageOf(i)])
    <3>1. \A i \in Invoice \ {j} : StageOf(i)' = StageOf(i)
      BY <2>2 DEF StageOf, Exists
    <3>2. \/ StageOf(j)' = StageOf(j)
          \/ StageOf(j) = "none" /\ StageOf(j)' = "drafted"
          \/ StageOf(j) = "drafted" /\ StageOf(j)' = "approved"
          \/ StageOf(j) = "approved" /\ StageOf(j)' = "settled"
      <4>1. CASE invoice[j] = NoRow
        BY <2>2, <4>1 DEF RowChange, StageOf, NoRow, Row, Status, Exists
      <4>2. CASE invoice[j] \in Row
        BY <2>2, <4>2 DEF RowChange, StageOf, NoRow, Row, Status, Exists
      <4>3. QED
        BY <2>2, <4>1, <4>2 DEF RowChange
    <3>3. QED
      BY <3>1, <3>2 DEF Book!Next, Book!Draft, Book!Approve, Book!Settle, Book!Advance
  <2>3. QED
    BY <1>2, <2>1, <2>2, StepsChangeOneRow DEF OneRowChanges
<1>3. QED
  BY <1>1, <1>2, InvariantHolds, PTL DEF Spec, ImplementsBook, Book!Spec

-----------------------------------------------------------------------------
\* Nobody new gets to write the row of a deleted invoice.
LEMMA NoNewWriters ==
    ASSUME IInv, [Next]_vars, NEW i \in Invoice, invoice[i].deleted
    PROVE  Writers(i)' \subseteq Writers(i)
<1>1. ~Visible(i) /\ i \notin Expired
  BY DEF Visible, Expired
<1>2. \A w \in inflight' : w \in inflight \/ Visible(w.inv)
  <2>1. ASSUME NEW q \in Request, NEW op \in Op, NEW j \in Invoice, Check(q, op, j)
        PROVE  \A w \in inflight' : w \in inflight \/ Visible(w.inv)
    BY <2>1 DEF Check
  <2>2. CASE \E w \in inflight : Approve(w) \/ Reject(w) \/ RecordPayment(w)
                                 \/ DeleteInvoice(w) \/ Drop(w)
    BY <2>2 DEF Approve, Reject, RecordPayment, DeleteInvoice, Drop, Write
  <2>3. ASSUME NEW r \in Run, CronStep(r) PROVE inflight' = inflight
    BY <2>3 DEF CronStep, OverdueStart, OverdueScan, MarkOverdue, MarkFails,
                OverdueComplete, OverdueThrow, OverdueFail, OverdueDie
  <2>4. CASE (\E j \in Invoice : GenerateDraft(j) \/ DueDatePasses(j)) \/ UNCHANGED vars
    BY <2>4 DEF GenerateDraft, DueDatePasses, vars
  <2>5. QED
    BY <2>1, <2>2, <2>3, <2>4 DEF Next, RequestStep
<1>3. ASSUME NEW r \in Run, run'[r].pc = "looping", i \in run'[r].todo
      PROVE  run[r].pc = "looping" /\ i \in run[r].todo
  <2>1. ASSUME NEW s \in Run, CronStep(s) PROVE run[r].pc = "looping" /\ i \in run[r].todo
    <3>0. run \in [Run -> Cron!RunState]
      BY DEF IInv, TypeOK, Cron!CronTypeOK
    <3>1. CASE OverdueStart(s)
      BY <1>3, <3>0, <3>1 DEF OverdueStart, Cron!Start
    <3>2. CASE OverdueScan(s)
      BY <1>1, <1>3, <3>0, <3>2 DEF OverdueScan, Cron!Scan
    <3>3. ASSUME NEW j \in Invoice, MarkOverdue(s, j) \/ MarkFails(s, j)
          PROVE  run[r].pc = "looping" /\ i \in run[r].todo
      BY <1>3, <3>0, <3>3 DEF MarkOverdue, MarkFails, Cron!ItemDone, Cron!ItemFails,
                              Cron!RunState
    <3>4. CASE OverdueComplete(s) \/ OverdueThrow(s) \/ OverdueFail(s) \/ OverdueDie(s)
      BY <1>3, <3>0, <3>4 DEF OverdueComplete, OverdueThrow, OverdueFail, OverdueDie,
                              Cron!Complete, Cron!Throw, Cron!Fail, Cron!Die, Cron!RunState
    <3>5. QED
      BY <2>1, <3>1, <3>2, <3>3, <3>4 DEF CronStep
  <2>2. CASE RequestStep \/ UNCHANGED vars
             \/ \E j \in Invoice : GenerateDraft(j) \/ DueDatePasses(j)
    <3>1. run' = run
      BY <2>2 DEF RequestStep, Check, Approve, Reject, RecordPayment, DeleteInvoice, Drop,
                  Write, GenerateDraft, DueDatePasses, vars
    <3>2. QED
      BY <1>3, <3>1
  <2>3. QED
    BY <2>1, <2>2 DEF Next
<1>4. QED
  BY <1>1, <1>2, <1>3 DEF Writers

\* Without a writer, only the clock changes the row of a deleted invoice.
LEMMA UnwrittenRowStays ==
    ASSUME IInv, [Next]_vars, NEW i \in Invoice, invoice[i].deleted, Writers(i) = {}
    PROVE  invoice'[i] = [invoice[i] EXCEPT !.pastDue = invoice'[i].pastDue]
<1>1. invoice[i] \in Row
  BY DEF IInv, TypeOK, NoRow
<1>2. invoice'[i] = invoice[i] \/ invoice'[i] = [invoice[i] EXCEPT !.pastDue = TRUE]
  <2>1. UNCHANGED vars => invoice'[i] = invoice[i]
    BY DEF vars
  <2>2. ASSUME NEW j \in Invoice, GenerateDraft(j) PROVE invoice'[i] = invoice[i]
    <3>1. i # j
      BY <2>2 DEF GenerateDraft, Exists, IInv, TypeOK, NoRow, Row, Status
    <3>2. QED
      BY <2>2, <3>1 DEF GenerateDraft, IInv, TypeOK
  <2>3. ASSUME NEW j \in Invoice, DueDatePasses(j)
        PROVE  invoice'[i] = invoice[i] \/ invoice'[i] = [invoice[i] EXCEPT !.pastDue = TRUE]
    BY <2>3 DEF DueDatePasses, IInv, TypeOK
  <2>4. CASE RequestStep
    <3>1. ASSUME NEW w \in inflight,
                 Approve(w) \/ Reject(w) \/ RecordPayment(w) \/ DeleteInvoice(w)
          PROVE  invoice'[i] = invoice[i]
      <4>1. w.inv # i
        BY DEF Writers
      <4>2. QED
        BY <3>1, <4>1 DEF Approve, Reject, RecordPayment, DeleteInvoice, Write, IInv, TypeOK
    <3>2. QED
      BY <2>4, <3>1 DEF RequestStep, Check, Drop
  <2>5. ASSUME NEW r \in Run, CronStep(r) PROVE invoice'[i] = invoice[i]
    <3>1. ASSUME NEW j \in Invoice, MarkOverdue(r, j) PROVE invoice'[i] = invoice[i]
      <4>1. i # j
        BY <3>1 DEF MarkOverdue, Cron!ItemDone, Writers
      <4>2. QED
        BY <3>1, <4>1 DEF MarkOverdue, IInv, TypeOK
    <3>2. QED
      BY <2>5, <3>1 DEF CronStep, OverdueStart, OverdueScan, MarkFails, OverdueComplete,
                        OverdueThrow, OverdueFail, OverdueDie
  <2> QED
    BY <2>1, <2>2, <2>3, <2>4, <2>5 DEF Next
<1>3. QED
  BY <1>1, <1>2 DEF Row

\* Soft deletion is final (InvoicesRepository.softDelete, findOneInvoice).
THEOREM DeletionIsFinal == Spec => DeletionDrains
<1>1. ASSUME IInv, [Next]_vars
      PROVE  \A i \in Invoice : invoice[i].deleted =>
                /\ Writers(i)' \subseteq Writers(i)
                /\ Writers(i) = {} =>
                     invoice'[i] = [invoice[i] EXCEPT !.pastDue = invoice'[i].pastDue]
  BY <1>1, NoNewWriters, UnwrittenRowStays
<1>2. QED
  BY <1>1, InvariantHolds, PTL DEF Spec, DeletionDrains

-----------------------------------------------------------------------------
\* The audit row of the overdue job never reads as finished work when it is not
\* (CronAuditService and the outer try of the handler).
THEOREM AuditRowsAreTruthful == Spec => []AuditRowTruthful
<1> USE DEF AuditRowTruthful, Cron!AuditRowTruthful
<1>1. Init => AuditRowTruthful
  BY DEF Init, Cron!CronInit
<1>2. ASSUME IInv, AuditRowTruthful, [Next]_vars
      PROVE  AuditRowTruthful'
  <2>0. run \in [Run -> Cron!RunState] /\ log \in [Run -> Cron!CronStatus \cup {"none"}]
    BY <1>2 DEF IInv, TypeOK, Cron!CronTypeOK
  <2>1. ASSUME NEW r \in Run, CronStep(r) PROVE AuditRowTruthful'
    <3>1. CASE OverdueStart(r)
      BY <1>2, <2>0, <3>1 DEF OverdueStart, Cron!Start
    <3>2. CASE OverdueScan(r)
      BY <1>2, <2>0, <3>2 DEF OverdueScan, Cron!Scan
    <3>3. ASSUME NEW i \in Invoice, MarkOverdue(r, i) \/ MarkFails(r, i)
          PROVE  AuditRowTruthful'
      <4>1. CASE MarkOverdue(r, i)
        BY <1>2, <2>0, <4>1 DEF MarkOverdue, Cron!ItemDone, Cron!RunState
      <4>2. CASE MarkFails(r, i)
        BY <1>2, <2>0, <4>2 DEF MarkFails, Cron!ItemFails, Cron!RunState
      <4>3. QED
        BY <3>3, <4>1, <4>2
    <3>4. CASE OverdueComplete(r)
      BY <1>2, <2>0, <3>4 DEF OverdueComplete, Cron!Complete, Cron!RunState
    <3>5. CASE OverdueThrow(r)
      BY <1>2, <2>0, <3>5 DEF OverdueThrow, Cron!Throw, Cron!RunState
    <3>6. CASE OverdueFail(r)
      BY <1>2, <2>0, <3>6 DEF OverdueFail, Cron!Fail, Cron!RunState
    <3>7. CASE OverdueDie(r)
      BY <1>2, <2>0, <3>7 DEF OverdueDie, Cron!Die, Cron!RunState
    <3>8. QED
      BY <2>1, <3>1, <3>2, <3>3, <3>4, <3>5, <3>6, <3>7 DEF CronStep
  <2>2. CASE RequestStep \/ UNCHANGED vars
             \/ \E j \in Invoice : GenerateDraft(j) \/ DueDatePasses(j)
    <3>1. run' = run /\ log' = log
      BY <2>2 DEF RequestStep, Check, Approve, Reject, RecordPayment, DeleteInvoice, Drop,
                  Write, GenerateDraft, DueDatePasses, vars
    <3>2. QED
      BY <1>2, <3>1
  <2>3. QED
    BY <1>2, <2>1, <2>2 DEF Next
<1>3. QED
  BY <1>1, <1>2, InvariantHolds, PTL DEF Spec
=============================================================================
