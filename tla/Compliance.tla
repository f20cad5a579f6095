----------------------------- MODULE Compliance -----------------------------
(***************************************************************************)
(* Compliance documents and the nightly expiry job:                         *)
(* src/src/modules/compliance and                                           *)
(* src/src/modules/crons/services/compliance-cron.service.ts.               *)
(*                                                                         *)
(* The documents and the employees live in the core database, the vehicles  *)
(* in the main one.  The job treats a document in two updates that no       *)
(* transaction joins: it marks the document EXPIRED, then it flips the      *)
(* vehicle or the employee to NON_COMPLIANT.  If the second update fails,   *)
(* or the process dies before it, the document is EXPIRED all the same and  *)
(* no later night looks at it again.                                        *)
(***************************************************************************)
EXTENDS FiniteSets

CONSTANTS
    Entity,     \* vehicles and employees that documents are about
    Doc,        \* primary keys of compliance_documents
    Run         \* invocations of the expiry job that may be active at once

VARIABLES
    doc,        \* the table of documents, NoDoc before the insert
    compliance, \* compliance[e]: column complianceStatus of the vehicle or employee
    halfway,    \* halfway[r]: the document that r has marked and whose entity it has not
                \* flipped yet (a set of at most one)
    run, log    \* the expiry job, see CronRun

vars == <<doc, compliance, halfway, run, log>>

Cron == INSTANCE CronRun WITH Item <- Doc

\* late: expiryDate lies in the past.  PENDING_RENEWAL is never written.
Row == [status : {"VALID", "EXPIRED"}, entity : Entity, late : BOOLEAN, deleted : BOOLEAN]

NoDoc == [status |-> "absent"]

\* The types of the variables, and a run holds at most one document halfway.
TypeOK ==
    /\ doc \in [Doc -> Row \cup {NoDoc}]
    /\ compliance \in [Entity -> {"COMPLIANT", "NON_COMPLIANT"}]
    /\ halfway \in [Run -> {{}} \cup {{x} : x \in Doc}]
    /\ Cron!CronTypeOK

Init ==
    /\ doc = [x \in Doc |-> NoDoc]
    /\ compliance = [e \in Entity |-> "COMPLIANT"]
    /\ halfway = [r \in Run |-> {}]
    /\ Cron!CronInit

Exists(x) == doc[x] # NoDoc
Active(x) == Exists(x) /\ ~doc[x].deleted

-----------------------------------------------------------------------------
\* createDocument.  A document whose expiryDate has passed is born EXPIRED; its
\* entity is not touched, and nothing checks that the entity exists.
CreateDocument(x, e) ==
    /\ ~Exists(x)
    /\ \E late \in BOOLEAN :
          doc' = [doc EXCEPT ![x] = [status |-> IF late THEN "EXPIRED" ELSE "VALID",
                                     entity |-> e, late |-> late, deleted |-> FALSE]]
    /\ UNCHANGED <<compliance, halfway, run, log>>

\* Time passes the expiryDate of a document.
ExpiryDatePasses(x) ==
    /\ Exists(x) /\ ~doc[x].late
    /\ doc' = [doc EXCEPT ![x].late = TRUE]
    /\ UNCHANGED <<compliance, halfway, run, log>>

\* Mutant of RemoveDocument: the removal of a document releases its entity.
RemoveAndRelease(x) ==
    /\ Active(x)
    /\ doc' = [doc EXCEPT ![x].deleted = TRUE]
    /\ compliance' = [compliance EXCEPT ![doc[x].entity] = "COMPLIANT"]
    /\ UNCHANGED <<halfway, run, log>>

\* remove: findOne and softDelete.  A second request in between only sets deletedAt
\* again, so the two calls are one step.
RemoveDocument(x) ==
    /\ Active(x)
    /\ doc' = [doc EXCEPT ![x].deleted = TRUE]
    /\ UNCHANGED <<compliance, halfway, run, log>>

-----------------------------------------------------------------------------
\* Mutant of Due: the job looks for the documents that are EXPIRED already.
DueExpired == {x \in Doc : Active(x) /\ doc[x].status = "EXPIRED" /\ doc[x].late}

\* The WHERE clause of the job's findMany.
Due == {x \in Doc : Active(x) /\ doc[x].status = "VALID" /\ doc[x].late}

ExpiryStart(r) == Cron!Start(r) /\ UNCHANGED <<doc, compliance, halfway>>
ExpiryScan(r) == Cron!Scan(r, Due) /\ UNCHANGED <<doc, compliance, halfway>>

\* Mutant of MarkExpired: the document is not marked before its entity is flipped.
MarkNothing(r, x) ==
    /\ run[r].pc = "looping" /\ x \in run[r].todo /\ halfway[r] = {}
    /\ halfway' = [halfway EXCEPT ![r] = {x}]
    /\ UNCHANGED <<doc, compliance, run, log>>

\* First update of a turn, in the core database.
MarkExpired(r, x) ==
    /\ run[r].pc = "looping" /\ x \in run[r].todo /\ halfway[r] = {}
    /\ doc' = [doc EXCEPT ![x].status = "EXPIRED"]
    /\ halfway' = [halfway EXCEPT ![r] = {x}]
    /\ UNCHANGED <<compliance, run, log>>

\* Second update of the turn: the vehicle (main database) or the employee.
FlipEntity(r, x) ==
    /\ x \in halfway[r]
    /\ Cron!ItemDone(r, x)
    /\ compliance' = [compliance EXCEPT ![doc[x].entity] = "NON_COMPLIANT"]
    /\ halfway' = [halfway EXCEPT ![r] = {}]
    /\ UNCHANGED doc

\* Either update throws (an entity that does not exist makes the second one throw):
\* the error is counted and the loop goes on.
TurnFails(r, x) ==
    /\ halfway[r] \subseteq {x}
    /\ Cron!ItemFails(r, x)
    /\ halfway' = [halfway EXCEPT ![r] = {}]
    /\ UNCHANGED <<doc, compliance>>

ExpiryComplete(r) == Cron!Complete(r) /\ UNCHANGED <<doc, compliance, halfway>>
ExpiryThrow(r) == Cron!Throw(r) /\ UNCHANGED <<doc, compliance, halfway>>
ExpiryFail(r) == Cron!Fail(r) /\ UNCHANGED <<doc, compliance, halfway>>

ExpiryDie(r) ==
    /\ Cron!Die(r)
    /\ halfway' = [halfway EXCEPT ![r] = {}]
    /\ UNCHANGED <<doc, compliance>>

-----------------------------------------------------------------------------
ExpiryStep(r) ==
    \/ ExpiryStart(r) \/ ExpiryScan(r)
    \/ \E x \in Doc : MarkExpired(r, x) \/ FlipEntity(r, x) \/ TurnFails(r, x)
    \/ ExpiryComplete(r) \/ ExpiryThrow(r) \/ ExpiryFail(r) \/ ExpiryDie(r)

Next ==
    \/ \E x \in Doc : \/ \E e \in Entity : CreateDocument(x, e)
                      \/ ExpiryDatePasses(x) \/ RemoveDocument(x)
    \/ \E r \in Run : ExpiryStep(r)

Spec == Init /\ [][Next]_vars

\* Fairness as for the overdue job: the timer fires every night, what has started
\* goes on, and the databases do not refuse the same call for ever.
Fairness ==
    \A r \in Run :
        /\ WF_vars(ExpiryStart(r))
        /\ SF_vars(ExpiryScan(r))
        /\ \A x \in Doc : SF_vars(MarkExpired(r, x)) /\ SF_vars(FlipEntity(r, x))
        /\ WF_vars(ExpiryComplete(r) \/ ExpiryFail(r) \/ ExpiryDie(r))

FairSpec == Spec /\ Fairness

-----------------------------------------------------------------------------
\* No vehicle and no driver is grounded without cause: there is a document about it
\* whose expiryDate has passed and that reads EXPIRED, although the job acts on a
\* snapshot and documents are removed and created meanwhile.
GroundedForCause ==
    \A e \in Entity : compliance[e] = "NON_COMPLIANT" =>
        \E x \in Doc : Exists(x) /\ doc[x].entity = e /\ doc[x].late /\ doc[x].status = "EXPIRED"

\* What the job still has to treat is late: what was true of the snapshot is still
\* true when the updates are made.  What it holds halfway is marked, and the run that
\* holds it is alive.
TurnsStayJustified ==
    \A r \in Run :
        /\ \A x \in run[r].todo : Exists(x) /\ doc[x].late
        /\ \A x \in halfway[r] : /\ doc[x].status = "EXPIRED"
                                 /\ run[r].pc = "looping" /\ x \in run[r].todo

\* What the audit table says of the expiry job (CronRun) is what the job did.
AuditRowTruthful == Cron!AuditRowTruthful

\* A document that is past its expiryDate does not go on reading VALID for ever,
\* although nights may fail (it may be removed instead).
LateDocIsMarked ==
    \A x \in Doc : (Active(x) /\ doc[x].status = "VALID" /\ doc[x].late)
                      ~> ~(Active(x) /\ doc[x].status = "VALID")
=============================================================================
