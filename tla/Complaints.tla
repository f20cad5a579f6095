----------------------------- MODULE Complaints -----------------------------
(***************************************************************************)
(* Complaints and the nightly escalation job: src/src/modules/complaints,   *)
(* the filing in src/src/modules/resident-portal, and                       *)
(* src/src/modules/crons/services/escalation-cron.service.ts.               *)
(*                                                                         *)
(* The job decides from its snapshot, the old priority included, and writes *)
(* the priority it decided on by primary key alone.  The desk may resolve,  *)
(* delete or raise the complaint in between, and another invocation may     *)
(* have gone further.                                                       *)
(*                                                                         *)
(* Left out: texts, photos, resolvedAt and the references to users and      *)
(* units; a check of one of them that fails ends the request (Drop).        *)
(***************************************************************************)
EXTENDS Naturals

CONSTANTS
    Complaint,  \* primary keys of waste_complaints
    Request,    \* HTTP requests that may be in progress at once
    Run         \* invocations of the escalation job that may be active at once

VARIABLES
    complaint,  \* complaint[c]: the row c, NoComplaint before the insert
    inflight,   \* requests between findOne and their write
    plan,       \* plan[r][c]: the priority r has decided on for the row c of its snapshot
    run, log    \* the escalation job, see CronRun

vars == <<complaint, inflight, plan, run, log>>

Cron == INSTANCE CronRun WITH Item <- Complaint

Status == {"OPEN", "IN_PROGRESS", "RESOLVED", "CLOSED", "REJECTED"}
Priority == {"LOW", "MEDIUM", "HIGH", "CRITICAL"}

\* age: 0 before 24 hours, 1 from then on, 2 from 48 hours on.  byJob: whether
\* updatedBy names the escalation job.
Row == [status : Status, priority : Priority, age : 0..2, byJob : BOOLEAN, deleted : BOOLEAN]
NoComplaint == [status |-> "absent"]

Pending == [by : Request, op : {"update", "delete"}, complaint : Complaint]

\* The types of the variables.
TypeOK ==
    /\ complaint \in [Complaint -> Row \cup {NoComplaint}]
    /\ inflight \subseteq Pending
    /\ plan \in [Run -> [Complaint -> Priority]]
    /\ Cron!CronTypeOK

Init ==
    /\ complaint = [c \in Complaint |-> NoComplaint]
    /\ inflight = {}
    /\ plan = [r \in Run |-> [c \in Complaint |-> "LOW"]]
    /\ Cron!CronInit

Exists(c) == complaint[c] # NoComplaint
Visible(c) == Exists(c) /\ ~complaint[c].deleted

\* What the job calls unresolved.
Unresolved(c) == Visible(c) /\ complaint[c].status \in {"OPEN", "IN_PROGRESS"}

-----------------------------------------------------------------------------
\* create and fileComplaint (which always asks for MEDIUM).
FileComplaint(c) ==
    /\ ~Exists(c)
    /\ \E p \in Priority :
          complaint' = [complaint EXCEPT ![c] =
              [status |-> "OPEN", priority |-> p, age |-> 0, byJob |-> FALSE, deleted |-> FALSE]]
    /\ UNCHANGED <<inflight, plan, run, log>>

\* Another day of a complaint has gone by.
Ages(c) ==
    /\ Exists(c) /\ complaint[c].age < 2
    /\ complaint' = [complaint EXCEPT ![c].age = complaint[c].age + 1]
    /\ UNCHANGED <<inflight, plan, run, log>>

\* findOne, and in update the lookups of the people and places it names.
Check(q, op, c) ==
    /\ \A w \in inflight : w.by # q
    /\ Visible(c)
    /\ inflight' = inflight \cup {[by |-> q, op |-> op, complaint |-> c]}
    /\ UNCHANGED <<complaint, plan, run, log>>

\* The write that ends request w.
Write(w, row) ==
    /\ complaint' = [complaint EXCEPT ![w.complaint] = row]
    /\ inflight' = inflight \ {w}
    /\ UNCHANGED <<plan, run, log>>

\* update: any status and any priority (a field that is not given keeps its value).
Update(w) ==
    /\ w.op = "update"
    /\ \E s \in Status, p \in Priority :
          Write(w, [complaint[w.complaint] EXCEPT !.status = s, !.priority = p, !.byJob = FALSE])

Delete(w) ==
    /\ w.op = "delete"
    /\ Write(w, [complaint[w.complaint] EXCEPT !.deleted = TRUE])

\* A lookup or the write throws, or the process dies.
Drop(w) ==
    /\ inflight' = inflight \ {w}
    /\ UNCHANGED <<complaint, plan, run, log>>

-----------------------------------------------------------------------------
\* What the job decides for row c.  It compares the age taken at its start; a row that
\* ages between that and the findMany counts as one that ages after it.
Decision(c) ==
    IF complaint[c].age = 2 THEN "CRITICAL" ELSE "HIGH"

\* Mutant of Due: the rows of 24 hours and more are not kept apart by their age.
DueAnyAge ==
    {c \in Complaint : Unresolved(c) /\ complaint[c].priority \in {"LOW", "MEDIUM", "HIGH"}}

\* Mutant of Due: the job takes the complaints that are settled, too.
DueSettled ==
    {c \in Complaint :
        /\ Visible(c)
        /\ \/ complaint[c].age = 2 /\ complaint[c].priority # "CRITICAL"
           \/ complaint[c].age = 1 /\ complaint[c].priority \in {"LOW", "MEDIUM"}}

\* Mutant of Due: after 48 hours only a HIGH complaint goes on.
DueStepwise ==
    {c \in Complaint :
        /\ Unresolved(c)
        /\ \/ complaint[c].age = 2 /\ complaint[c].priority = "HIGH"
           \/ complaint[c].age = 1 /\ complaint[c].priority \in {"LOW", "MEDIUM"}}

\* The rows of the findMany for which there is something to decide.  The turns of the
\* others make no call.
Due ==
    {c \in Complaint :
        /\ Unresolved(c)
        /\ \/ complaint[c].age = 2 /\ complaint[c].priority # "CRITICAL"
           \/ complaint[c].age = 1 /\ complaint[c].priority \in {"LOW", "MEDIUM"}}

EscalationStart(r) == Cron!Start(r) /\ UNCHANGED <<complaint, inflight, plan>>

\* The findMany, with what will be decided from it.
EscalationScan(r) ==
    /\ Cron!Scan(r, Due)
    /\ plan' = [plan EXCEPT ![r] =
          [c \in Complaint |-> IF c \in Due THEN Decision(c) ELSE "LOW"]]
    /\ UNCHANGED <<complaint, inflight>>

\* The update of one turn.
Escalate(r, c) ==
    /\ Cron!ItemDone(r, c)
    /\ complaint' = [complaint EXCEPT ![c].priority = plan[r][c], ![c].byJob = TRUE]
    /\ UNCHANGED <<inflight, plan>>

EscalateFails(r, c) == Cron!ItemFails(r, c) /\ UNCHANGED <<complaint, inflight, plan>>
EscalationComplete(r) == Cron!Complete(r) /\ UNCHANGED <<complaint, inflight, plan>>
EscalationThrow(r) == Cron!Throw(r) /\ UNCHANGED <<complaint, inflight, plan>>
EscalationFail(r) == Cron!Fail(r) /\ UNCHANGED <<complaint, inflight, plan>>
EscalationDie(r) == Cron!Die(r) /\ UNCHANGED <<complaint, inflight, plan>>

-----------------------------------------------------------------------------
RequestStep ==
    \/ \E q \in Request, op \in {"update", "delete"}, c \in Complaint : Check(q, op, c)
    \/ \E w \in inflight : Update(w) \/ Delete(w) \/ Drop(w)

JobStep(r) ==
    \/ EscalationStart(r) \/ EscalationScan(r)
    \/ \E c \in Complaint : Escalate(r, c) \/ EscalateFails(r, c)
    \/ EscalationComplete(r) \/ EscalationThrow(r) \/ EscalationFail(r) \/ EscalationDie(r)

Next ==
    \/ \E c \in Complaint : FileComplaint(c) \/ Ages(c)
    \/ RequestStep
    \/ \E r \in Run : JobStep(r)

Spec == Init /\ [][Next]_vars

\* As for the other jobs: the timer fires every night, what has started goes on, and
\* the database does not refuse the same call for ever.
FairSpec ==
    /\ Spec
    /\ \A r \in Run :
          /\ WF_vars(EscalationStart(r))
          /\ SF_vars(EscalationScan(r))
          /\ \A c \in Complaint : SF_vars(Escalate(r, c))
          /\ WF_vars(EscalationComplete(r) \/ EscalationFail(r) \/ EscalationDie(r))

-----------------------------------------------------------------------------
\* HIGH is due after 24 hours, CRITICAL after 48.
Earned(p, age) ==
    \/ p = "HIGH" /\ age >= 1
    \/ p = "CRITICAL" /\ age = 2

\* A priority the job has written is earned by age, however stale its snapshot and
\* however many invocations overlap.
EscalationIsEarned ==
    \A c \in Complaint :
        Exists(c) /\ complaint[c].byJob => Earned(complaint[c].priority, complaint[c].age)

\* What a turn still to come has decided is earned by the age of the row now, and the
\* row of every pending write is there: this makes EscalationIsEarned inductive.
StaleReadsStillHold ==
    /\ \A w \in inflight : Exists(w.complaint)
    /\ \A r \in Run : \A c \in run[r].todo : Exists(c) /\ Earned(plan[r][c], complaint[c].age)

\* What the job has decided is earned, from the decision to the write and after it.
DecisionsAreEarned == EscalationIsEarned /\ StaleReadsStillHold

\* The turns that may still write row c, and the requests.
JobsOn(c) == {r \in Run : run[r].pc = "looping" /\ c \in run[r].todo}
RequestsOn(c) == {w \in inflight : w.complaint = c}

\* A complaint that is settled or deleted is left alone by the job once the invocations
\* that had read it before are through; after a deletion the same goes for requests,
\* and when both are gone the row stays as it is but for its age.
SettlingDrains ==
    [][\A c \in Complaint :
          /\ ~Unresolved(c) => JobsOn(c)' \subseteq JobsOn(c)
          /\ Exists(c) /\ ~Visible(c) =>
                /\ RequestsOn(c)' \subseteq RequestsOn(c)
                /\ JobsOn(c) = {} /\ RequestsOn(c) = {} =>
                      complaint'[c] = [complaint[c] EXCEPT !.age = complaint'[c].age]
      ]_vars

\* A complaint that has been open for 48 hours becomes CRITICAL some night, although
\* nights may fail and the desk may lower it again (or it is settled or deleted).
OldComplaintEscalates ==
    \A c \in Complaint :
        (Unresolved(c) /\ complaint[c].age = 2)
            ~> (~Unresolved(c) \/ complaint[c].priority = "CRITICAL")
=============================================================================
