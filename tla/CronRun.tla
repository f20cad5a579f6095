------------------------------- MODULE CronRun -------------------------------
(***************************************************************************)
(* One audited cron job: the frame shared by the handlers in               *)
(* src/src/modules/crons/services, around CronAuditService.                *)
(*                                                                         *)
(* A handler writes a RUNNING row into cron_job_logs (core database), takes *)
(* a snapshot of the rows it has to treat with one findMany, treats them    *)
(* one after the other, each in a try of its own that only counts the       *)
(* failure, and closes the row.  Nothing prevents two invocations of the    *)
(* same job from overlapping: the timer and POST /crons/trigger/... call    *)
(* the same method, and every instance of the application runs the timer.   *)
(* `Run' is the set of invocation slots that may be active at once; a slot  *)
(* is used again when its invocation has ended, and log[r] is the row of    *)
(* the last invocation in slot r.                                           *)
(*                                                                         *)
(* The module has no Next: the job that uses the frame conjoins these       *)
(* actions with what it reads and writes itself.                            *)
(***************************************************************************)
CONSTANTS
    Run,    \* invocation slots
    Item    \* the rows a job may have to treat

VARIABLES
    run,    \* run[r]: where the invocation in slot r is, and what it still has to do
    log     \* log[r]: status of the cron_job_logs row of the last invocation in r

CronStatus == {"RUNNING", "SUCCESS", "PARTIAL_SUCCESS", "FAILED"}

\* "started": the row exists, the snapshot is not taken yet.  "looping": inside
\* the for loop, or past it when todo is empty.  "failing": in the outer catch.
RunState == [pc : {"idle", "started", "looping", "failing"},
             todo : SUBSET Item, failed : SUBSET Item]

CronTypeOK ==
    /\ run \in [Run -> RunState]
    /\ log \in [Run -> CronStatus \cup {"none"}]

CronInit ==
    /\ run = [r \in Run |-> [pc |-> "idle", todo |-> {}, failed |-> {}]]
    /\ log = [r \in Run |-> "none"]

-----------------------------------------------------------------------------
\* startAuditLog.  If it throws, the handler ends before anything is written.
Start(r) ==
    /\ run[r].pc = "idle"
    /\ run' = [run EXCEPT ![r] = [pc |-> "started", todo |-> {}, failed |-> {}]]
    /\ log' = [log EXCEPT ![r] = "RUNNING"]

\* The findMany: from here on the handler works on this snapshot alone.
Scan(r, found) ==
    /\ run[r].pc = "started"
    /\ run' = [run EXCEPT ![r] = [pc |-> "looping", todo |-> found, failed |-> {}]]
    /\ UNCHANGED log

\* One turn of the loop ends, well or badly: a failure is counted, not retried.
ItemDone(r, i) ==
    /\ run[r].pc = "looping" /\ i \in run[r].todo
    /\ run' = [run EXCEPT ![r].todo = @ \ {i}]
    /\ UNCHANGED log

ItemFails(r, i) ==
    /\ run[r].pc = "looping" /\ i \in run[r].todo
    /\ run' = [run EXCEPT ![r] = [pc |-> "looping", todo |-> run[r].todo \ {i},
                                 failed |-> run[r].failed \cup {i}]]
    /\ UNCHANGED log

\* Mutant of Complete: the row is closed as SUCCESS whatever errorCount is.
CompleteAlwaysSuccess(r) ==
    /\ run[r].pc = "looping" /\ run[r].todo = {}
    /\ run' = [run EXCEPT ![r].pc = "idle"]
    /\ log' = [log EXCEPT ![r] = "SUCCESS"]

\* completeAuditLog after the last turn.
Complete(r) ==
    /\ run[r].pc = "looping" /\ run[r].todo = {}
    /\ run' = [run EXCEPT ![r].pc = "idle"]
    /\ log' = [log EXCEPT ![r] = IF run[r].failed = {} THEN "SUCCESS"
                                                       ELSE "PARTIAL_SUCCESS"]

\* The findMany or completeAuditLog throws: both are inside the outer try.
Throw(r) ==
    /\ \/ run[r].pc = "started"
       \/ run[r].pc = "looping" /\ run[r].todo = {}
    /\ run' = [run EXCEPT ![r].pc = "failing"]
    /\ UNCHANGED log

\* failAuditLog in the outer catch.
Fail(r) ==
    /\ run[r].pc = "failing"
    /\ run' = [run EXCEPT ![r].pc = "idle"]
    /\ log' = [log EXCEPT ![r] = "FAILED"]

\* The process dies at any await of the handler, or failAuditLog throws too:
\* the invocation is gone and nobody closes its row.
Die(r) ==
    /\ run[r].pc # "idle"
    /\ run' = [run EXCEPT ![r].pc = "idle"]
    /\ UNCHANGED log

-----------------------------------------------------------------------------
\* A row says SUCCESS only of an invocation that treated every row of its
\* snapshot, and PARTIAL_SUCCESS only of one that went through all of it: a dead
\* or failed invocation never leaves a row that reads as finished work.
AuditRowTruthful ==
    \A r \in Run :
        /\ log[r] = "SUCCESS" => run[r].todo = {} /\ run[r].failed = {}
        /\ log[r] = "PARTIAL_SUCCESS" => run[r].todo = {} /\ run[r].failed # {}
        /\ run[r].pc # "idle" => log[r] = "RUNNING"
=============================================================================
