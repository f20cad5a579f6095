-------------------------- MODULE ComplaintsProofs --------------------------
(***************************************************************************)
(* Theorems about complaints and the escalation job, for any number of      *)
(* complaints, requests and overlapping invocations.                        *)
(*                                                                         *)
(* A turn writes a priority decided from an old snapshot.  It is earned all *)
(* the same, because a row never gets younger and is never removed.         *)
(***************************************************************************)
EXTENDS Complaints, TLAPS

\* The inductive invariant.
IInv == TypeOK /\ StaleReadsStillHold /\ EscalationIsEarned

\* One row changes, gets no younger and, if the job has signed it, is earned; plans and
\* snapshots stay or shrink.
LEMMA RowWriteKeepsIInv ==
    ASSUME IInv, NEW c \in Complaint, NEW row \in Row,
           complaint' = [complaint EXCEPT ![c] = row],
           Exists(c) => row.age >= complaint[c].age,
           row.byJob => Earned(row.priority, row.age),
           plan' = plan, log' = log,
           run' \in [Run -> Cron!RunState],
           \A r \in Run : run'[r].todo \subseteq run[r].todo,
           inflight' \subseteq inflight
    PROVE  IInv'
<1>1. /\ complaint \in [Complaint -> Row \cup {NoComplaint}]
      /\ inflight \subseteq Pending /\ run \in [Run -> Cron!RunState]
  BY DEF IInv, TypeOK, Cron!CronTypeOK
<1>2. complaint'[c] = row /\ \A d \in Complaint \ {c} : complaint'[d] = complaint[d]
  BY <1>1
<1>3. TypeOK'
  BY <1>1 DEF IInv, TypeOK, Cron!CronTypeOK
<1>4. row # NoComplaint
  BY DEF Row, NoComplaint
<1>5. \A d \in Complaint : Exists(d) =>
          /\ Exists(d)'
          /\ \A p \in Priority : Earned(p, complaint[d].age) => Earned(p, complaint'[d].age)
  <2>1. TAKE d \in Complaint
  <2>2. HAVE Exists(d)
  <2>3. CASE d = c
    <3>1. complaint[c] \in Row
      BY <1>1, <2>2, <2>3 DEF Exists
    <3>2. complaint[c].age \in 0..2 /\ row.age \in 0..2
      BY <3>1 DEF Row
    <3>3. QED
      BY <1>2, <1>4, <2>2, <2>3, <3>2 DEF Exists, Earned
  <2>4. CASE d # c
    BY <1>2, <2>2, <2>4 DEF Exists
  <2>5. QED
    BY <2>3, <2>4
<1>6. EscalationIsEarned'
  <2>1. ASSUME NEW d \in Complaint, Exists(d)', complaint'[d].byJob
        PROVE  Earned(complaint'[d].priority, complaint'[d].age)
    BY <1>2, <2>1 DEF IInv, EscalationIsEarned, Exists
  <2>2. QED
    BY <2>1 DEF EscalationIsEarned
<1>7. StaleReadsStillHold'
  <2>1. ASSUME NEW w \in inflight' PROVE Exists(w.complaint)'
    BY <1>1, <1>5, <2>1 DEF IInv, StaleReadsStillHold, Pending
  <2>2. ASSUME NEW r \in Run, NEW d \in run'[r].todo
        PROVE  Exists(d)' /\ Earned(plan'[r][d], complaint'[d].age)
    <3>1. d \in Complaint /\ d \in run[r].todo
      BY <1>1, <2>2 DEF Cron!RunState
    <3>2. plan[r][d] \in Priority
      BY <3>1 DEF IInv, TypeOK
    <3>3. QED
      BY <1>5, <3>1, <3>2 DEF IInv, StaleReadsStillHold
  <2>3. QED
    BY <2>1, <2>2 DEF StaleReadsStillHold
<1>8. QED
  BY <1>3, <1>6, <1>7 DEF IInv

\* Filing, ageing and the writes of requests.
LEMMA DeskKeepsIInv ==
    ASSUME IInv,
           \/ \E c \in Complaint : FileComplaint(c) \/ Ages(c)
           \/ RequestStep
    PROVE  IInv'
<1>1. run \in [Run -> Cron!RunState]
  BY DEF IInv, TypeOK, Cron!CronTypeOK
<1>2. ASSUME NEW c \in Complaint, FileComplaint(c) PROVE IInv'
  <2>1. PICK p \in Priority :
           complaint' = [complaint EXCEPT ![c] =
              [status |-> "OPEN", priority |-> p, age |-> 0, byJob |-> FALSE, deleted |-> FALSE]]
    BY <1>2 DEF FileComplaint
  <2> DEFINE row == [status |-> "OPEN", priority |-> p, age |-> 0,
                     byJob |-> FALSE, deleted |-> FALSE]
  <2>2. row \in Row /\ ~row.byJob /\ ~Exists(c)
    BY <1>2 DEF Row, Status, FileComplaint
  <2>3. QED
    BY <1>1, <1>2, <2>1, <2>2, RowWriteKeepsIInv DEF FileComplaint
<1>3. ASSUME NEW c \in Complaint, Ages(c) PROVE IInv'
  <2> DEFINE row == [complaint[c] EXCEPT !.age = complaint[c].age + 1]
  <2>1. complaint[c] \in Row /\ complaint' = [complaint EXCEPT ![c] = row]
    BY <1>3 DEF Ages, IInv, TypeOK, Exists
  <2>2. complaint[c].age \in 0..2 /\ complaint[c].age < 2
    BY <1>3, <2>1 DEF Row, Ages
  <2>3. row \in Row /\ row.age = complaint[c].age + 1
        /\ row.priority = complaint[c].priority /\ row.byJob = complaint[c].byJob
    BY <2>1, <2>2 DEF Row
  <2>4. row.byJob => Earned(row.priority, row.age)
    BY <1>3, <2>2, <2>3 DEF IInv, EscalationIsEarned, Ages, Earned
  <2>5. row.age >= complaint[c].age
    BY <2>2, <2>3
  <2> HIDE DEF row
  <2>6. QED
    BY <1>1, <1>3, <2>1, <2>3, <2>4, <2>5, RowWriteKeepsIInv DEF Ages
<1>4. ASSUME NEW q \in Request, NEW op \in {"update", "delete"}, NEW c \in Complaint,
             Check(q, op, c)
      PROVE  IInv'
  <2>1. /\ inflight' = inflight \cup {[by |-> q, op |-> op, complaint |-> c]}
        /\ Exists(c) /\ UNCHANGED <<complaint, plan, run, log>>
    BY <1>4 DEF Check, Visible
  <2>2. TypeOK'
    BY <2>1 DEF IInv, TypeOK, Cron!CronTypeOK, Pending
  <2>3. StaleReadsStillHold' /\ EscalationIsEarned'
    BY <2>1 DEF IInv, StaleReadsStillHold, EscalationIsEarned, Exists
  <2>4. QED
    BY <2>2, <2>3 DEF IInv
<1>5. ASSUME NEW w \in inflight, Update(w) \/ Delete(w) \/ Drop(w) PROVE IInv'
  <2>1. w.complaint \in Complaint /\ complaint[w.complaint] \in Row
    BY DEF IInv, TypeOK, Pending, StaleReadsStillHold, Exists
  <2>2. CASE Update(w)
    <3>1. PICK s \in Status, p \in Priority :
             Write(w, [complaint[w.complaint] EXCEPT !.status = s, !.priority = p,
                                                     !.byJob = FALSE])
      BY <2>2 DEF Update
    <3> DEFINE row == [complaint[w.complaint] EXCEPT !.status = s, !.priority = p,
                                                     !.byJob = FALSE]
    <3>2. row \in Row /\ ~row.byJob /\ row.age = complaint[w.complaint].age
          /\ row.age \in 0..2
      BY <2>1 DEF Row
    <3>3. row.age >= complaint[w.complaint].age
      BY <3>2
    <3>4. complaint' = [complaint EXCEPT ![w.complaint] = row]
          /\ inflight' = inflight \ {w} /\ UNCHANGED <<plan, run, log>>
      BY <3>1 DEF Write
    <3> HIDE DEF row
    <3>5. QED
      BY <1>1, <2>1, <3>2, <3>3, <3>4, RowWriteKeepsIInv
  <2>3. CASE Delete(w)
    <3> DEFINE row == [complaint[w.complaint] EXCEPT !.deleted = TRUE]
    <3>1. row \in Row /\ row.age = complaint[w.complaint].age /\ row.age \in 0..2
          /\ row.byJob = complaint[w.complaint].byJob
          /\ row.priority = complaint[w.complaint].priority
      BY <2>1 DEF Row
    <3>2. row.byJob => Earned(row.priority, row.age)
      BY <2>1, <3>1 DEF IInv, EscalationIsEarned, StaleReadsStillHold
    <3>3. row.age >= complaint[w.complaint].age
      BY <3>1
    <3>4. complaint' = [complaint EXCEPT ![w.complaint] = row]
          /\ inflight' = inflight \ {w} /\ UNCHANGED <<plan, run, log>>
      BY <2>3 DEF Delete, Write
    <3> HIDE DEF row
    <3>5. QED
      BY <1>1, <2>1, <3>1, <3>2, <3>3, <3>4, RowWriteKeepsIInv
  <2>4. CASE Drop(w)
    BY <2>4 DEF Drop, IInv, TypeOK, Cron!CronTypeOK, StaleReadsStillHold, EscalationIsEarned,
                Exists
  <2>5. QED
    BY <1>5, <2>2, <2>3, <2>4
<1>6. QED
  BY <1>2, <1>3, <1>4, <1>5 DEF RequestStep

\* The steps of the job.
LEMMA JobKeepsIInv ==
    ASSUME IInv, NEW r \in Run, JobStep(r)
    PROVE  IInv'
<1>1. /\ run \in [Run -> Cron!RunState] /\ log \in [Run -> Cron!CronStatus \cup {"none"}]
      /\ plan \in [Run -> [Complaint -> Priority]]
      /\ complaint \in [Complaint -> Row \cup {NoComplaint}]
  BY DEF IInv, TypeOK, Cron!CronTypeOK
<1>2. ASSUME NEW c \in Complaint, Escalate(r, c) PROVE IInv'
  <2>1. /\ complaint' = [complaint EXCEPT ![c].priority = plan[r][c], ![c].byJob = TRUE]
        /\ run[r].pc = "looping" /\ c \in run[r].todo
        /\ run' = [run EXCEPT ![r].todo = @ \ {c}]
        /\ UNCHANGED <<inflight, plan, log>>
    BY <1>2 DEF Escalate, Cron!ItemDone
  <2>2. /\ run' \in [Run -> Cron!RunState]
        /\ \A s \in Run : run'[s].todo \subseteq run[s].todo
    BY <1>1, <2>1 DEF Cron!RunState
  <2>3. complaint[c] \in Row /\ Earned(plan[r][c], complaint[c].age) /\ plan[r][c] \in Priority
    BY <1>1, <2>1 DEF IInv, StaleReadsStillHold, Exists
  <2> DEFINE row == [complaint[c] EXCEPT !.priority = plan[r][c], !.byJob = TRUE]
  <2>4. complaint' = [complaint EXCEPT ![c] = row]
    BY <1>1, <2>1
  <2>5. row \in Row /\ row.age = complaint[c].age /\ row.priority = plan[r][c]
        /\ row.age \in 0..2
    BY <2>3 DEF Row
  <2>6. row.age >= complaint[c].age /\ (row.byJob => Earned(row.priority, row.age))
    BY <2>3, <2>5
  <2> HIDE DEF row
  <2>7. QED
    BY <2>1, <2>2, <2>4, <2>5, <2>6, RowWriteKeepsIInv
<1>3. CASE EscalationScan(r)
  <2>1. /\ run' = [run EXCEPT ![r] = [pc |-> "looping", todo |-> Due, failed |-> {}]]
        /\ plan' = [plan EXCEPT ![r] =
              [c \in Complaint |-> IF c \in Due THEN Decision(c) ELSE "LOW"]]
        /\ UNCHANGED <<complaint, inflight, log>>
    BY <1>3 DEF EscalationScan, Cron!Scan
  <2>2. TypeOK'
    BY <1>1, <2>1 DEF IInv, TypeOK, Cron!CronTypeOK, Cron!RunState, Due, Decision, Priority
  <2>3. ASSUME NEW s \in Run, NEW c \in run'[s].todo
        PROVE  Exists(c) /\ Earned(plan'[s][c], complaint[c].age)
    <3>1. CASE s = r
      <4>1. c \in Due /\ c \in Complaint
        BY <1>1, <2>1, <2>3, <3>1 DEF Due
      <4>2. plan'[s][c] = Decision(c)
        BY <1>1, <2>1, <3>1, <4>1
      <4>3. Exists(c) /\ (complaint[c].age = 2 \/ complaint[c].age = 1)
        BY <4>1 DEF Due, Unresolved, Visible
      <4>4. Earned(Decision(c), complaint[c].age)
        BY <4>3 DEF Decision, Earned
      <4>5. QED
        BY <4>2, <4>3, <4>4
    <3>2. CASE s # r
      BY <1>1, <2>1, <2>3, <3>2 DEF IInv, StaleReadsStillHold
    <3>3. QED
      BY <3>1, <3>2
  <2>4. StaleReadsStillHold' /\ EscalationIsEarned'
    BY <2>1, <2>3 DEF IInv, StaleReadsStillHold, EscalationIsEarned, Exists
  <2>5. QED
    BY <2>2, <2>4 DEF IInv
<1>4. CASE \/ EscalationStart(r) \/ EscalationComplete(r) \/ EscalationThrow(r)
           \/ EscalationFail(r) \/ EscalationDie(r)
           \/ \E c \in Complaint : EscalateFails(r, c)
  <2>1. /\ UNCHANGED <<complaint, inflight, plan>>
        /\ run' \in [Run -> Cron!RunState]
        /\ log' \in [Run -> Cron!CronStatus \cup {"none"}]
        /\ \A s \in Run : run'[s].todo \subseteq run[s].todo
    <3>1. CASE EscalationStart(r)
      BY <1>1, <3>1 DEF EscalationStart, Cron!Start, Cron!RunState, Cron!CronStatus
    <3>2. CASE EscalationComplete(r)
      BY <1>1, <3>2 DEF EscalationComplete, Cron!Complete, Cron!RunState, Cron!CronStatus
    <3>3. CASE EscalationThrow(r)
      BY <1>1, <3>3 DEF EscalationThrow, Cron!Throw, Cron!RunState
    <3>4. CASE EscalationFail(r)
      BY <1>1, <3>4 DEF EscalationFail, Cron!Fail, Cron!RunState, Cron!CronStatus
    <3>5. CASE EscalationDie(r)
      BY <1>1, <3>5 DEF EscalationDie, Cron!Die, Cron!RunState
    <3>6. CASE \E c \in Complaint : EscalateFails(r, c)
      BY <1>1, <3>6 DEF EscalateFails, Cron!ItemFails, Cron!RunState
    <3>7. QED
      BY <1>4, <3>1, <3>2, <3>3, <3>4, <3>5, <3>6
  <2>2. QED
    BY <2>1 DEF IInv, TypeOK, Cron!CronTypeOK, StaleReadsStillHold, EscalationIsEarned, Exists
<1>5. QED
  BY <1>2, <1>3, <1>4 DEF JobStep

\* The invariant holds throughout.
LEMMA InvariantHolds == Spec => []IInv
<1>1. Init => IInv
  BY DEF Init, IInv, TypeOK, StaleReadsStillHold, EscalationIsEarned, Exists, Priority,
         Cron!CronInit, Cron!CronTypeOK, Cron!RunState
<1>2. IInv /\ [Next]_vars => IInv'
  <2> SUFFICES ASSUME IInv, [Next]_vars PROVE IInv'
    OBVIOUS
  <2>1. CASE Next
    BY <2>1, DeskKeepsIInv, JobKeepsIInv DEF Next
  <2>2. CASE UNCHANGED vars
    BY <2>2 DEF vars, IInv, TypeOK, Cron!CronTypeOK, StaleReadsStillHold, EscalationIsEarned,
                Exists
  <2>3. QED
    BY <2>1, <2>2
<1>3. QED
  BY <1>1, <1>2, PTL DEF Spec

\* The tables and the job's variables keep their types.
THEOREM ComplaintsTypeCorrect == Spec => []TypeOK
BY InvariantHolds, PTL DEF IInv

\* A priority the job has written is earned by the age of the complaint.
THEOREM EscalationsAreEarned == Spec => []EscalationIsEarned
BY InvariantHolds, PTL DEF IInv

\* What the job decided from its snapshot is still earned when it writes it.
THEOREM DecisionsStayEarned == Spec => []StaleReadsStillHold
BY InvariantHolds, PTL DEF IInv

\* From the decision to the write, and after it.
THEOREM AlwaysEarned == Spec => []DecisionsAreEarned
BY EscalationsAreEarned, DecisionsStayEarned, PTL DEF DecisionsAreEarned

-----------------------------------------------------------------------------
\* Only the findMany adds a turn, and only for an unresolved row.
LEMMA NoNewJobs ==
    ASSUME IInv, [Next]_vars, NEW c \in Complaint, ~Unresolved(c)
    PROVE  JobsOn(c)' \subseteq JobsOn(c)
<1> USE DEF JobsOn
<1>1. run \in [Run -> Cron!RunState]
  BY DEF IInv, TypeOK, Cron!CronTypeOK
<1>2. ASSUME NEW r \in Run, JobStep(r) PROVE JobsOn(c)' \subseteq JobsOn(c)
  <2>1. CASE EscalationStart(r)
    BY <1>1, <2>1 DEF EscalationStart, Cron!Start
  <2>2. CASE EscalationScan(r)
    <3>1. c \notin Due
      BY DEF Due
    <3>2. QED
      BY <1>1, <2>2, <3>1 DEF EscalationScan, Cron!Scan
  <2>3. ASSUME NEW d \in Complaint, Escalate(r, d) \/ EscalateFails(r, d)
        PROVE  JobsOn(c)' \subseteq JobsOn(c)
    <3>1. CASE Escalate(r, d)
      BY <1>1, <3>1 DEF Escalate, Cron!ItemDone, Cron!RunState
    <3>2. CASE EscalateFails(r, d)
      BY <1>1, <3>2 DEF EscalateFails, Cron!ItemFails, Cron!RunState
    <3>3. QED
      BY <2>3, <3>1, <3>2
  <2>4. CASE EscalationComplete(r)
    BY <1>1, <2>4 DEF EscalationComplete, Cron!Complete, Cron!RunState
  <2>5. CASE EscalationThrow(r)
    BY <1>1, <2>5 DEF EscalationThrow, Cron!Throw, Cron!RunState
  <2>6. CASE EscalationFail(r)
    BY <1>1, <2>6 DEF EscalationFail, Cron!Fail, Cron!RunState
  <2>7. CASE EscalationDie(r)
    BY <1>1, <2>7 DEF EscalationDie, Cron!Die, Cron!RunState
  <2>8. QED
    BY <1>2, <2>1, <2>2, <2>3, <2>4, <2>5, <2>6, <2>7 DEF JobStep
<1>3. CASE \/ \E d \in Complaint : FileComplaint(d) \/ Ages(d)
           \/ RequestStep
           \/ UNCHANGED vars
  <2>1. run' = run
    BY <1>3 DEF FileComplaint, Ages, RequestStep, Check, Update, Delete, Write, Drop, vars
  <2>2. QED
    BY <2>1
<1>4. QED
  BY <1>2, <1>3 DEF Next

\* findOne refuses a deleted row.
LEMMA NoNewRequests ==
    ASSUME [Next]_vars, NEW c \in Complaint, ~Visible(c)
    PROVE  RequestsOn(c)' \subseteq RequestsOn(c)
<1> USE DEF RequestsOn
<1>1. ASSUME NEW q \in Request, NEW op \in {"update", "delete"}, NEW d \in Complaint,
             Check(q, op, d)
      PROVE  RequestsOn(c)' \subseteq RequestsOn(c)
  BY <1>1 DEF Check
<1>2. ASSUME NEW w \in inflight, Update(w) \/ Delete(w) \/ Drop(w)
      PROVE  RequestsOn(c)' \subseteq RequestsOn(c)
  BY <1>2 DEF Update, Delete, Write, Drop
<1>3. CASE \/ \E d \in Complaint : FileComplaint(d) \/ Ages(d)
           \/ \E r \in Run : JobStep(r)
           \/ UNCHANGED vars
  <2>1. inflight' = inflight
    BY <1>3 DEF FileComplaint, Ages, JobStep, EscalationStart, EscalationScan, Escalate,
                EscalateFails, EscalationComplete, EscalationThrow, EscalationFail,
                EscalationDie, vars
  <2>2. QED
    BY <2>1
<1>4. QED
  BY <1>1, <1>2, <1>3 DEF Next, RequestStep

\* A row that nobody holds any more only ages.
LEMMA UnheldRowStays ==
    ASSUME IInv, [Next]_vars, NEW c \in Complaint, Exists(c),
           JobsOn(c) = {}, RequestsOn(c) = {}
    PROVE  complaint'[c] = [complaint[c] EXCEPT !.age = complaint'[c].age]
<1>0. complaint \in [Complaint -> Row \cup {NoComplaint}] /\ complaint[c] \in Row
  BY DEF IInv, TypeOK, Exists
<1>1. ASSUME NEW d \in Complaint, Ages(d)
      PROVE  \/ complaint'[c] = complaint[c]
             \/ complaint'[c] = [complaint[c] EXCEPT !.age = complaint[c].age + 1]
  BY <1>0, <1>1 DEF Ages
<1>2. ASSUME NEW d \in Complaint, FileComplaint(d) PROVE complaint'[c] = complaint[c]
  BY <1>0, <1>2 DEF FileComplaint
<1>3. ASSUME NEW w \in inflight, Update(w) \/ Delete(w) \/ Drop(w)
      PROVE  complaint'[c] = complaint[c]
  <2>1. w.complaint # c
    BY DEF RequestsOn
  <2>2. QED
    BY <1>0, <1>3, <2>1 DEF Update, Delete, Write, Drop
<1>4. ASSUME NEW r \in Run, JobStep(r) PROVE complaint'[c] = complaint[c]
  <2>1. ASSUME NEW d \in Complaint, Escalate(r, d) PROVE complaint'[c] = complaint[c]
    <3>1. d # c
      BY <2>1 DEF Escalate, Cron!ItemDone, JobsOn
    <3>2. QED
      BY <1>0, <2>1, <3>1 DEF Escalate
  <2>2. QED
    BY <1>4, <2>1 DEF JobStep, EscalationStart, EscalationScan, EscalateFails,
                      EscalationComplete, EscalationThrow, EscalationFail, EscalationDie
<1>5. ASSUME \/ UNCHANGED vars
             \/ \E q \in Request, op \in {"update", "delete"}, d \in Complaint :
                   Check(q, op, d)
      PROVE  complaint'[c] = complaint[c]
  BY <1>5 DEF vars, Check
<1>6. \/ complaint'[c] = complaint[c]
      \/ complaint'[c] = [complaint[c] EXCEPT !.age = complaint[c].age + 1]
  BY <1>1, <1>2, <1>3, <1>4, <1>5 DEF Next, RequestStep
<1>7. QED
  BY <1>0, <1>6 DEF Row

\* A settled complaint is left alone once those who had read it before are through
\* (the where clause of the job's findMany, findOne of the service).
THEOREM SettledComplaintsAreLeftAlone == Spec => SettlingDrains
<1>1. ASSUME IInv, [Next]_vars
      PROVE  \A c \in Complaint :
               /\ ~Unresolved(c) => JobsOn(c)' \subseteq JobsOn(c)
               /\ Exists(c) /\ ~Visible(c) =>
                    /\ RequestsOn(c)' \subseteq RequestsOn(c)
                    /\ JobsOn(c) = {} /\ RequestsOn(c) = {} =>
                         complaint'[c] = [complaint[c] EXCEPT !.age = complaint'[c].age]
  BY <1>1, NoNewJobs, NoNewRequests, UnheldRowStays
<1>2. QED
  BY <1>1, InvariantHolds, PTL DEF Spec, SettlingDrains
=============================================================================
