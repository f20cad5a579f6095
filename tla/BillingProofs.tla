---------------------------- MODULE BillingProofs ----------------------------
(***************************************************************************)
(* Theorems about the billing jobs, for any number of tariffs, collections, *)
(* payers, requests and overlapping invocations.                            *)
(***************************************************************************)
EXTENDS Billing, TLAPS

\* What the types rest on: a pending request's tariff is there, an invocation has a payer
\* for every turn still to come.
Backed ==
    /\ \A w \in inflight : w.on = "tariff" => Exists(w.key)
    /\ \A r \in Run : run[r].pc = "looping" => \A t \in run[r].todo : plan[r][t] \in Payer

\* What SuccessMeansDrafted rests on: an active invocation's row reads RUNNING, and past
\* its snapshot each tariff it has a payer for is ahead, failed or drafted.
OnCourse ==
    \A r \in Run :
        /\ run[r].pc # "idle" => log[r] = "RUNNING"
        /\ run[r].pc = "looping" =>
              \A t \in Tariff : \/ plan[r][t] = NoPayer
                                \/ t \in run[r].todo \cup run[r].failed
                                \/ DraftedFor(r, t)

\* The inductive invariant.
IInv == TypeOK /\ Backed /\ OnCourse /\ SuccessMeansDrafted

\* A draft that is there stays there.
LEMMA DraftsStay ==
    ASSUME drafts \subseteq drafts', plan' = plan, job' = job,
           NEW r \in Run, NEW t \in Tariff, DraftedFor(r, t)
    PROVE  DraftedFor(r, t)'
BY DEF DraftedFor

\* Steps that leave the jobs alone, and at most add tariffs and drafts.
LEMMA QuietStep ==
    ASSUME IInv, TypeOK', UNCHANGED jobs, drafts \subseteq drafts',
           \A w \in inflight' : w.on = "tariff" => Exists(w.key)'
    PROVE  IInv'
<1>1. OnCourse' /\ SuccessMeansDrafted'
  BY DraftsStay DEF IInv, OnCourse, SuccessMeansDrafted, jobs
<1>2. Backed'
  BY DEF IInv, Backed, jobs
<1>3. QED
  BY <1>1, <1>2 DEF IInv

LEMMA RequestKeepsIInv ==
    ASSUME IInv, RequestStep \/ DayPasses
    PROVE  IInv'
<1> USE DEF TypeOK, Cron!CronTypeOK
<1>0. TypeOK
  BY DEF IInv
<1>1. ASSUME NEW t \in Tariff, CreateTariff(t) PROVE IInv'
  <2>1. PICK row \in TariffRow : tariff' = [tariff EXCEPT ![t] = row]
    BY <1>1 DEF CreateTariff
  <2>2. TypeOK'
    BY <1>0, <1>1, <2>1 DEF CreateTariff, requests, jobs
  <2>3. row # NoTariff
    BY DEF TariffRow, NoTariff
  <2>4. \A w \in inflight' : w.on = "tariff" => Exists(w.key)'
    BY <1>0, <1>1, <2>1, <2>3 DEF CreateTariff, requests, IInv, Backed, Exists, Pending
  <2>5. QED
    BY <1>1, <2>2, <2>4, QuietStep DEF CreateTariff
<1>2. ASSUME NEW c \in Collection, RecordCollection(c) PROVE IInv'
  <2>1. TypeOK'
    BY <1>0, <1>2 DEF RecordCollection, CollectionState, requests, jobs
  <2>2. QED
    BY <1>2, <2>1, QuietStep DEF RecordCollection, IInv, Backed, Exists, requests
<1>3. ASSUME NEW w \in Pending, Check(w) PROVE IInv'
  <2>1. TypeOK'
    BY <1>0, <1>3 DEF Check, tables, jobs
  <2>2. \A x \in inflight' : x.on = "tariff" => Exists(x.key)'
    BY <1>3 DEF Check, tables, IInv, Backed, Exists, Live
  <2>3. QED
    BY <1>3, <2>1, <2>2, QuietStep DEF Check, tables
<1>4. ASSUME NEW w \in inflight, UpdateTariff(w) PROVE IInv'
  <2>1. PICK p \in Payer \cup {NoPayer}, f \in Frequency, s \in {"active", "retired"} :
           tariff' = [tariff EXCEPT ![w.key] =
              [payer |-> p, frequency |-> f,
               state |-> IF tariff[w.key].state = "deleted" THEN "deleted" ELSE s]]
    BY <1>4 DEF UpdateTariff
  <2> DEFINE row == [payer |-> p, frequency |-> f,
               state |-> IF tariff[w.key].state = "deleted" THEN "deleted" ELSE s]
  <2>2. row \in TariffRow /\ row # NoTariff /\ w.key \in Tariff
    BY <1>0, <1>4 DEF TariffRow, NoTariff, Pending, UpdateTariff
  <2>3. tariff' = [tariff EXCEPT ![w.key] = row] /\ inflight' = inflight \ {w}
    BY <1>4, <2>1 DEF UpdateTariff
  <2> HIDE DEF row
  <2>4. TypeOK'
    BY <1>0, <1>4, <2>2, <2>3 DEF UpdateTariff, jobs
  <2>5. \A x \in inflight' : x.on = "tariff" => Exists(x.key)'
    BY <1>0, <2>2, <2>3 DEF IInv, Backed, Exists, Pending
  <2>6. QED
    BY <1>4, <2>4, <2>5, QuietStep DEF UpdateTariff
<1>5. ASSUME NEW w \in inflight, DeleteTariff(w) PROVE IInv'
  <2> DEFINE row == [tariff[w.key] EXCEPT !.state = "deleted"]
  <2>1. w.key \in Tariff /\ tariff[w.key] \in TariffRow
    BY <1>0, <1>5 DEF DeleteTariff, Pending, IInv, Backed, Exists
  <2>2. row \in TariffRow /\ row # NoTariff
    BY <2>1 DEF TariffRow, NoTariff
  <2>3. tariff' = [tariff EXCEPT ![w.key] = row] /\ inflight' = inflight \ {w}
    BY <1>0, <1>5, <2>1 DEF DeleteTariff
  <2> HIDE DEF row
  <2>4. TypeOK'
    BY <1>0, <1>5, <2>1, <2>2, <2>3 DEF DeleteTariff, jobs
  <2>5. \A x \in inflight' : x.on = "tariff" => Exists(x.key)'
    BY <1>0, <2>1, <2>2, <2>3 DEF IInv, Backed, Exists, Pending
  <2>6. QED
    BY <1>5, <2>4, <2>5, QuietStep DEF DeleteTariff
<1>6. ASSUME NEW w \in inflight, UpdateCollection(w) \/ DeleteCollection(w) PROVE IInv'
  <2>1. TypeOK'
    BY <1>0, <1>6 DEF UpdateCollection, DeleteCollection, CollectionState, Pending, jobs
  <2>2. QED
    BY <1>6, <2>1, QuietStep DEF UpdateCollection, DeleteCollection, IInv, Backed, Exists
<1>7. ASSUME NEW q \in Request, NEW p \in Payer, GatherByHand(q, p) PROVE IInv'
  <2>1. TypeOK'
    BY <1>0, <1>7 DEF GatherByHand, tables, jobs, Billable
  <2>2. QED
    BY <1>7, <2>1, QuietStep DEF GatherByHand, tables, IInv, Backed, Exists
<1>8. ASSUME NEW w \in byHand, InsertByHand(w) PROVE IInv'
  <2>1. TypeOK'
    BY <1>0, <1>8 DEF InsertByHand, Draft, jobs
  <2>2. QED
    BY <1>8, <2>1, QuietStep DEF InsertByHand, IInv, Backed, Exists
<1>9. ASSUME NEW w \in inflight \cup byHand, Drop(w) PROVE IInv'
  <2>1. TypeOK'
    BY <1>0, <1>9 DEF Drop, tables, jobs
  <2>2. QED
    BY <1>9, <2>1, QuietStep DEF Drop, tables, IInv, Backed, Exists
<1>10. CASE DayPasses
  <2>1. TypeOK'
    BY <1>0, <1>10, BoundsAreNaturals DEF DayPasses, tables, requests, jobs
  <2>2. QED
    BY <1>10, <2>1, QuietStep DEF DayPasses, tables, requests, IInv, Backed, Exists
<1>11. QED
  BY <1>1, <1>2, <1>3, <1>4, <1>5, <1>6, <1>7, <1>8, <1>9, <1>10 DEF RequestStep

\* The steps of an invocation.
LEMMA JobKeepsIInv ==
    ASSUME IInv, NEW r \in Run, JobStep(r)
    PROVE  IInv'
<1> USE DEF TypeOK, Cron!CronTypeOK
<1>0. /\ TypeOK /\ UNCHANGED requests
      /\ run \in [Run -> Cron!RunState] /\ log \in [Run -> Cron!CronStatus \cup {"none"}]
      /\ tariff' = tariff /\ collection' = collection /\ day' = day
  BY DEF IInv, JobStep, BillingStart, BillingScan, Gather, InsertDraft, DraftFails,
         BillingComplete, BillingThrow, BillingFail, BillingDie, tables
<1>1. CASE \E f \in Frequency : BillingStart(r, f)
  <2>1. PICK f \in Frequency : BillingStart(r, f)
    BY <1>1
  <2>2. /\ run' = [run EXCEPT ![r] = [pc |-> "started", todo |-> {}, failed |-> {}]]
        /\ log' = [log EXCEPT ![r] = "RUNNING"]
        /\ job' = [job EXCEPT ![r] = [frequency |-> f, day |-> day]]
        /\ UNCHANGED <<tables, plan, turn>>
    BY <2>1 DEF BillingStart, Cron!Start
  <2>3. TypeOK'
    BY <1>0, <2>2 DEF tables, requests, Cron!RunState, Cron!CronStatus
  <2>4. Backed'
    BY <1>0, <2>2 DEF IInv, Backed, Exists, tables, requests
  <2>5. ASSUME NEW s \in Run, s # r
        PROVE  /\ run'[s] = run[s] /\ log'[s] = log[s]
               /\ \A t \in Tariff : DraftedFor(s, t)' = DraftedFor(s, t)
    BY <1>0, <2>2, <2>5 DEF DraftedFor, tables
  <2>6. run'[r].pc = "started" /\ log'[r] = "RUNNING"
    BY <1>0, <2>2
  <2>7. OnCourse' /\ SuccessMeansDrafted'
    BY <1>0, <2>2, <2>5, <2>6 DEF IInv, OnCourse, SuccessMeansDrafted
  <2>8. QED
    BY <2>3, <2>4, <2>7 DEF IInv
<1>2. CASE BillingScan(r)
  <2> DEFINE found == Billed(job[r].frequency)
  <2>1. /\ run' = [run EXCEPT ![r] = [pc |-> "looping", todo |-> found, failed |-> {}]]
        /\ plan' = [plan EXCEPT ![r] =
              [t \in Tariff |-> IF t \in found THEN tariff[t].payer ELSE NoPayer]]
        /\ run[r].pc = "started" /\ UNCHANGED <<tables, job, turn, log>>
    BY <1>2 DEF BillingScan, Cron!Scan
  <2>2. /\ found \subseteq Tariff
        /\ \A t \in found : tariff[t].payer \in Payer
    BY DEF Billed, Newest, Matching, Payer
  <2> HIDE DEF found
  <2>3. TypeOK'
    BY <1>0, <2>1, <2>2 DEF tables, requests, Cron!RunState
  <2>4. /\ \A t \in Tariff : plan'[r][t] = IF t \in found THEN tariff[t].payer ELSE NoPayer
        /\ run'[r].todo = found /\ run'[r].pc = "looping"
    BY <1>0, <2>1
  <2>5. ASSUME NEW s \in Run, s # r
        PROVE  /\ run'[s] = run[s] /\ plan'[s] = plan[s]
               /\ \A t \in Tariff : DraftedFor(s, t)' = DraftedFor(s, t)
    BY <1>0, <2>1, <2>5 DEF DraftedFor, tables
  <2>6. Backed'
    BY <1>0, <2>2, <2>4, <2>5 DEF IInv, Backed, Exists, requests
  <2>7. log[r] = "RUNNING"
    BY <2>1 DEF IInv, OnCourse
  <2>8. OnCourse' /\ SuccessMeansDrafted'
    BY <2>1, <2>4, <2>5, <2>7 DEF IInv, OnCourse, SuccessMeansDrafted
  <2>9. QED
    BY <2>3, <2>6, <2>8 DEF IInv
<1>3. CASE \E t \in Tariff : Gather(r, t)
  <2>1. UNCHANGED <<tables, job, plan, run, log>>
    BY <1>3 DEF Gather
  <2>2. TypeOK'
    BY <1>0, <1>3 DEF Gather, tables, requests, Billable
  <2>3. Backed' /\ OnCourse' /\ SuccessMeansDrafted'
    BY <1>0, <2>1 DEF IInv, Backed, OnCourse, SuccessMeansDrafted, DraftedFor, Exists, tables,
                      requests
  <2>4. QED
    BY <2>2, <2>3 DEF IInv
<1>4. ASSUME NEW t \in Tariff, InsertDraft(r, t) PROVE IInv'
  <2> DEFINE d == [payer |-> plan[r][t], day |-> job[r].day,
                   by |-> job[r].frequency, items |-> turn[r].items]
  <2>1. /\ run[r].pc = "looping" /\ t \in run[r].todo /\ turn[r] # NoTurn
        /\ run' = [run EXCEPT ![r].todo = run[r].todo \ {t}]
        /\ drafts' = drafts \cup {d} /\ turn' = [turn EXCEPT ![r] = NoTurn]
        /\ UNCHANGED <<job, plan, log>>
    BY <1>0, <1>4 DEF InsertDraft, Cron!ItemDone
  <2>2. d \in Draft
    BY <1>0, <2>1 DEF Draft, IInv, Backed
  <2>0. /\ d \in drafts' /\ d.payer = plan'[r][t]
        /\ d.day = job'[r].day /\ d.by = job'[r].frequency
    BY <2>1
  <2> HIDE DEF d
  <2>3. DraftedFor(r, t)'
    BY <2>0 DEF DraftedFor
  <2>4. /\ \A s \in Run : /\ run'[s].pc = run[s].pc /\ run'[s].failed = run[s].failed
                          /\ run'[s].todo \subseteq run[s].todo
        /\ \A s \in Run \ {r} : run'[s] = run[s]
        /\ run'[r].todo = run[r].todo \ {t}
        /\ run' \in [Run -> Cron!RunState]
    BY <1>0, <2>1 DEF Cron!RunState
  <2>5. TypeOK'
    BY <1>0, <2>1, <2>2, <2>4 DEF requests
  <2>6. Backed'
    BY <1>0, <2>1, <2>4 DEF IInv, Backed, Exists, requests
  <2>7. OnCourse' /\ SuccessMeansDrafted'
    BY <2>1, <2>3, <2>4, DraftsStay DEF IInv, OnCourse, SuccessMeansDrafted
  <2>8. QED
    BY <2>5, <2>6, <2>7 DEF IInv
<1>5. ASSUME NEW t \in Tariff, DraftFails(r, t) PROVE IInv'
  <2>1. /\ run[r].pc = "looping" /\ t \in run[r].todo
        /\ run' = [run EXCEPT ![r] = [pc |-> "looping", todo |-> run[r].todo \ {t},
                                      failed |-> run[r].failed \cup {t}]]
        /\ turn' = [turn EXCEPT ![r] = NoTurn]
        /\ UNCHANGED <<tables, job, plan, log>>
    BY <1>5 DEF DraftFails, Cron!ItemFails
  <2>2. /\ \A s \in Run \ {r} : run'[s] = run[s]
        /\ run'[r].pc = "looping" /\ run'[r].todo = run[r].todo \ {t}
        /\ run'[r].failed = run[r].failed \cup {t}
        /\ run' \in [Run -> Cron!RunState]
    BY <1>0, <2>1 DEF Cron!RunState
  <2>3. TypeOK'
    BY <1>0, <2>1, <2>2 DEF tables, requests
  <2>4. Backed'
    BY <1>0, <2>1, <2>2 DEF IInv, Backed, Exists, requests
  <2>5. OnCourse' /\ SuccessMeansDrafted'
    BY <2>1, <2>2 DEF IInv, OnCourse, SuccessMeansDrafted, DraftedFor, tables
  <2>6. QED
    BY <2>3, <2>4, <2>5 DEF IInv
<1>6. CASE BillingComplete(r)
  <2>1. /\ run[r].pc = "looping" /\ run[r].todo = {}
        /\ run' = [run EXCEPT ![r].pc = "idle"]
        /\ log' = [log EXCEPT ![r] = IF run[r].failed = {} THEN "SUCCESS"
                                                           ELSE "PARTIAL_SUCCESS"]
        /\ UNCHANGED <<tables, job, plan, turn>>
    BY <1>6 DEF BillingComplete, Cron!Complete
  <2>2. /\ \A s \in Run \ {r} : run'[s] = run[s] /\ log'[s] = log[s]
        /\ run'[r].pc = "idle"
        /\ log'[r] = IF run[r].failed = {} THEN "SUCCESS" ELSE "PARTIAL_SUCCESS"
        /\ run' \in [Run -> Cron!RunState]
        /\ log' \in [Run -> Cron!CronStatus \cup {"none"}]
    BY <1>0, <2>1 DEF Cron!RunState, Cron!CronStatus
  <2>3. TypeOK'
    BY <1>0, <2>1, <2>2 DEF tables, requests
  <2>4. Backed'
    BY <1>0, <2>1, <2>2 DEF IInv, Backed, Exists, requests
  <2>5. \A s \in Run, t \in Tariff : DraftedFor(s, t)' = DraftedFor(s, t)
    BY <2>1 DEF DraftedFor, tables
  <2>6. OnCourse'
    BY <2>1, <2>2, <2>5 DEF IInv, OnCourse
  <2>7. ASSUME NEW t \in Tariff, plan[r][t] # NoPayer, log'[r] = "SUCCESS"
        PROVE  DraftedFor(r, t)
    BY <2>1, <2>2, <2>7 DEF IInv, OnCourse
  <2>8. SuccessMeansDrafted'
    BY <2>1, <2>2, <2>5, <2>7 DEF IInv, SuccessMeansDrafted
  <2>9. QED
    BY <2>3, <2>4, <2>6, <2>8 DEF IInv
<1>7. CASE BillingThrow(r) \/ BillingFail(r) \/ BillingDie(r)
  <2>1. /\ UNCHANGED <<tables, job, plan>>
        /\ turn' \in [Run -> [tariff : Tariff, items : SUBSET Collection] \cup {NoTurn}]
        /\ run[r].pc # "idle"
        /\ \A s \in Run \ {r} : run'[s] = run[s] /\ log'[s] = log[s]
        /\ run' \in [Run -> Cron!RunState]
        /\ log' \in [Run -> Cron!CronStatus \cup {"none"}]
        /\ \/ run'[r].pc = "idle" /\ log'[r] \in {log[r], "FAILED"}
           \/ run'[r].pc = "failing" /\ log'[r] = log[r]
    <3>1. CASE BillingThrow(r)
      BY <1>0, <3>1 DEF BillingThrow, Cron!Throw, Cron!RunState
    <3>2. CASE BillingFail(r)
      BY <1>0, <3>2 DEF BillingFail, Cron!Fail, Cron!RunState, Cron!CronStatus
    <3>3. CASE BillingDie(r)
      BY <1>0, <3>3 DEF BillingDie, Cron!Die, Cron!RunState
    <3>4. QED
      BY <1>7, <3>1, <3>2, <3>3
  <2>2. TypeOK'
    BY <1>0, <2>1 DEF tables, requests
  <2>3. Backed'
    BY <1>0, <2>1 DEF IInv, Backed, Exists, requests
  <2>4. log[r] = "RUNNING"
    BY <2>1 DEF IInv, OnCourse
  <2>5. \A s \in Run, t \in Tariff : DraftedFor(s, t)' = DraftedFor(s, t)
    BY <2>1 DEF DraftedFor, tables
  <2>6. OnCourse'
    BY <2>1, <2>4, <2>5 DEF IInv, OnCourse
  <2>7. SuccessMeansDrafted'
    BY <2>1, <2>4, <2>5 DEF IInv, SuccessMeansDrafted
  <2>8. QED
    BY <2>2, <2>3, <2>6, <2>7 DEF IInv
<1>8. QED
  BY <1>1, <1>2, <1>3, <1>4, <1>5, <1>6, <1>7 DEF JobStep

\* The invariant holds throughout.
LEMMA InvariantHolds == Spec => []IInv
<1>1. Init => IInv
  BY BoundsAreNaturals
     DEF Init, IInv, TypeOK, CollectionState, Backed, OnCourse, SuccessMeansDrafted, Exists,
         Cron!CronInit, Cron!CronTypeOK, Cron!RunState
<1>2. IInv /\ [Next]_vars => IInv'
  <2> SUFFICES ASSUME IInv, [Next]_vars PROVE IInv'
    OBVIOUS
  <2>1. CASE Next
    BY <2>1, RequestKeepsIInv, JobKeepsIInv DEF Next
  <2>2. CASE UNCHANGED vars
    BY <2>2 DEF vars, IInv, TypeOK, Cron!CronTypeOK, Backed, OnCourse, SuccessMeansDrafted,
                DraftedFor, Exists
  <2>3. QED
    BY <2>1, <2>2
<1>3. QED
  BY <1>1, <1>2, PTL DEF Spec

\* The tables and the jobs' variables keep their types.
THEOREM BillingTypeCorrect == Spec => []TypeOK
BY InvariantHolds, PTL DEF IInv

\* A SUCCESS row in cron_job_logs means a draft for every payer of the snapshot.
THEOREM SuccessfulRunsHaveDrafted == Spec => []SuccessMeansDrafted
BY InvariantHolds, PTL DEF IInv

-----------------------------------------------------------------------------
\* A draft takes the collections that are there when it reads them.
LEMMA NoNewHolders ==
    ASSUME TypeOK, [Next]_vars, NEW c \in Collection, collection[c] # "collected"
    PROVE  HoldersOf(c)' \subseteq HoldersOf(c)
<1> USE DEF HoldersOf
<1>0. turn \in [Run -> [tariff : Tariff, items : SUBSET Collection] \cup {NoTurn}]
  BY DEF TypeOK
<1>1. c \notin Billable
  BY DEF Billable
<1>2. ASSUME NEW r \in Run, JobStep(r) PROVE HoldersOf(c)' \subseteq HoldersOf(c)
  <2>1. byHand' = byHand
    BY <1>2 DEF JobStep, BillingStart, BillingScan, Gather, InsertDraft, DraftFails,
                BillingComplete, BillingThrow, BillingFail, BillingDie, requests
  <2>2. CASE \E t \in Tariff : Gather(r, t)
    <3>1. PICK t \in Tariff : turn' = [turn EXCEPT ![r] = [tariff |-> t, items |-> Billable]]
      BY <2>2 DEF Gather
    <3>2. turn'[r].items = Billable /\ \A s \in Run \ {r} : turn'[s] = turn[s]
      BY <1>0, <3>1
    <3>3. QED
      BY <1>1, <2>1, <3>2
  <2>3. CASE turn' = turn \/ turn' = [turn EXCEPT ![r] = NoTurn]
    BY <1>0, <2>1, <2>3
  <2>4. QED
    BY <1>2, <2>2, <2>3 DEF JobStep, BillingStart, BillingScan, InsertDraft, DraftFails,
                            BillingComplete, BillingThrow, BillingFail, BillingDie
<1>3. ASSUME NEW q \in Request, NEW p \in Payer, GatherByHand(q, p)
      PROVE  HoldersOf(c)' \subseteq HoldersOf(c)
  <2>1. PICK mine \in SUBSET Collection :
           byHand' = byHand \cup {[by |-> q, payer |-> p, items |-> Billable \cap mine]}
    BY <1>3 DEF GatherByHand
  <2>2. turn' = turn
    BY <1>3 DEF GatherByHand, jobs
  <2>3. QED
    BY <1>1, <2>1, <2>2
<1>4. ASSUME NEW w, InsertByHand(w) \/ Drop(w) PROVE HoldersOf(c)' \subseteq HoldersOf(c)
  BY <1>4 DEF InsertByHand, Drop, jobs
<1>5. ASSUME \/ \E t \in Tariff : CreateTariff(t)
             \/ \E d \in Collection : RecordCollection(d)
             \/ \E w \in Pending : Check(w)
             \/ \E w \in inflight : \/ UpdateTariff(w) \/ DeleteTariff(w)
                                    \/ UpdateCollection(w) \/ DeleteCollection(w)
             \/ DayPasses \/ UNCHANGED vars
      PROVE  turn' = turn /\ byHand' = byHand
  BY <1>5 DEF CreateTariff, RecordCollection, Check, UpdateTariff, DeleteTariff,
              UpdateCollection, DeleteCollection, DayPasses, vars, requests, jobs
<1>6. QED
  BY <1>2, <1>3, <1>4, <1>5 DEF Next, RequestStep

\* Who adds a draft, and with what on it.
LEMMA NewDrafts ==
    ASSUME [Next]_vars, NEW d \in drafts' \ drafts
    PROVE  \/ \E w \in byHand : d.items = w.items /\ d.by = "HTTP"
           \/ \E r \in Run, t \in Tariff :
                 /\ turn[r] # NoTurn /\ d.items = turn[r].items
                 /\ run[r].pc = "looping" /\ t \in run[r].todo /\ d.payer = plan[r][t]
<1>1. CASE \E w \in byHand : InsertByHand(w)
  BY <1>1 DEF InsertByHand
<1>2. ASSUME NEW r \in Run, NEW t \in Tariff, InsertDraft(r, t)
      PROVE  /\ turn[r] # NoTurn /\ d.items = turn[r].items
             /\ run[r].pc = "looping" /\ t \in run[r].todo /\ d.payer = plan[r][t]
  BY <1>2 DEF InsertDraft, Cron!ItemDone
<1>3. ASSUME \/ \E t \in Tariff : CreateTariff(t)
             \/ \E c \in Collection : RecordCollection(c)
             \/ \E w \in Pending : Check(w)
             \/ \E w \in inflight : \/ UpdateTariff(w) \/ DeleteTariff(w)
                                    \/ UpdateCollection(w) \/ DeleteCollection(w)
             \/ \E q \in Request, p \in Payer : GatherByHand(q, p)
             \/ \E w \in inflight \cup byHand : Drop(w)
             \/ DayPasses \/ UNCHANGED vars
      PROVE  drafts' = drafts
  BY <1>3 DEF CreateTariff, RecordCollection, Check, UpdateTariff, DeleteTariff,
              UpdateCollection, DeleteCollection, GatherByHand, Drop, DayPasses, vars, tables
<1>4. ASSUME NEW r \in Run, JobStep(r), ~ \E t \in Tariff : InsertDraft(r, t)
      PROVE  drafts' = drafts
  BY <1>4 DEF JobStep, BillingStart, BillingScan, Gather, DraftFails, BillingComplete,
              BillingThrow, BillingFail, BillingDie, tables
<1>5. QED
  BY <1>1, <1>2, <1>3, <1>4 DEF Next, RequestStep

\* A collection that is deleted or taken back gets onto no later bill (the where clause
\* of generateInvoiceDraft).
THEOREM DeletedCollectionsDrain == Spec => CollectionDrains
<1>1. ASSUME IInv, [Next]_vars
      PROVE  \A c \in Collection : collection[c] # "collected" =>
                /\ HoldersOf(c)' \subseteq HoldersOf(c)
                /\ HoldersOf(c) = {} => \A d \in drafts' \ drafts : c \notin d.items
  <2> SUFFICES ASSUME NEW c \in Collection, collection[c] # "collected"
               PROVE  /\ HoldersOf(c)' \subseteq HoldersOf(c)
                      /\ HoldersOf(c) = {} => \A d \in drafts' \ drafts : c \notin d.items
    OBVIOUS
  <2>1. HoldersOf(c)' \subseteq HoldersOf(c)
    BY <1>1, NoNewHolders DEF IInv
  <2>2. ASSUME NEW d \in drafts' \ drafts, c \in d.items PROVE HoldersOf(c) # {}
    BY <1>1, <2>2, NewDrafts DEF HoldersOf
  <2>3. QED
    BY <2>1, <2>2
<1>2. QED
  BY <1>1, InvariantHolds, PTL DEF Spec, CollectionDrains

\* Only the query of a job makes it bill a payer, and that takes an active tariff.
LEMMA NoNewTurns ==
    ASSUME TypeOK, [Next]_vars, NEW p \in Payer, ~HasActiveTariff(p), p # NoPayer
    PROVE  TurnsFor(p)' \subseteq TurnsFor(p)
<1> USE DEF TurnsFor
<1>0. run \in [Run -> Cron!RunState] /\ plan \in [Run -> [Tariff -> Payer \cup {NoPayer}]]
  BY DEF TypeOK, Cron!CronTypeOK
<1>1. ASSUME NEW r \in Run, JobStep(r) PROVE TurnsFor(p)' \subseteq TurnsFor(p)
  <2>1. CASE BillingScan(r)
    <3> DEFINE found == Billed(job[r].frequency)
    <3>1. /\ run' = [run EXCEPT ![r] = [pc |-> "looping", todo |-> found, failed |-> {}]]
          /\ plan' = [plan EXCEPT ![r] =
                [t \in Tariff |-> IF t \in found THEN tariff[t].payer ELSE NoPayer]]
      BY <2>1 DEF BillingScan, Cron!Scan
    <3>2. \A t \in found : t \in Tariff /\ tariff[t].payer # p
      BY DEF Billed, Newest, Matching, HasActiveTariff, Active, Live
    <3> HIDE DEF found
    <3>3. run'[r].todo = found /\ \A t \in found : plan'[r][t] # p
      BY <1>0, <3>1, <3>2
    <3>4. \A s \in Run \ {r} : run'[s] = run[s] /\ plan'[s] = plan[s]
      BY <1>0, <3>1
    <3>5. QED
      BY <3>3, <3>4
  <2>2. CASE \/ \E f \in Frequency : BillingStart(r, f)
             \/ \E t \in Tariff : Gather(r, t) \/ InsertDraft(r, t) \/ DraftFails(r, t)
             \/ BillingComplete(r) \/ BillingThrow(r) \/ BillingFail(r) \/ BillingDie(r)
    <3>1. plan' = plan
      BY <2>2 DEF BillingStart, Gather, InsertDraft, DraftFails, BillingComplete,
                  BillingThrow, BillingFail, BillingDie
    <3>2. \A s \in Run : run'[s].pc = "looping" =>
             run[s].pc = "looping" /\ run'[s].todo \subseteq run[s].todo
      <4>1. CASE \E f \in Frequency : BillingStart(r, f)
        BY <1>0, <4>1 DEF BillingStart, Cron!Start
      <4>2. CASE \E t \in Tariff : Gather(r, t)
        BY <4>2 DEF Gather
      <4>3. CASE \E t \in Tariff : InsertDraft(r, t)
        BY <1>0, <4>3 DEF InsertDraft, Cron!ItemDone, Cron!RunState
      <4>4. CASE \E t \in Tariff : DraftFails(r, t)
        BY <1>0, <4>4 DEF DraftFails, Cron!ItemFails, Cron!RunState
      <4>5. CASE BillingComplete(r)
        BY <1>0, <4>5 DEF BillingComplete, Cron!Complete, Cron!RunState
      <4>6. CASE BillingThrow(r) \/ BillingFail(r) \/ BillingDie(r)
        BY <1>0, <4>6 DEF BillingThrow, Cron!Throw, BillingFail, Cron!Fail, BillingDie,
                          Cron!Die, Cron!RunState
      <4>7. QED
        BY <2>2, <4>1, <4>2, <4>3, <4>4, <4>5, <4>6
    <3>3. QED
      BY <3>1, <3>2
  <2>3. QED
    BY <1>1, <2>1, <2>2 DEF JobStep
<1>2. CASE RequestStep \/ DayPasses \/ UNCHANGED vars
  <2>1. run' = run /\ plan' = plan
    BY <1>2 DEF RequestStep, CreateTariff, RecordCollection, Check, UpdateTariff,
                DeleteTariff, UpdateCollection, DeleteCollection, GatherByHand,
                InsertByHand, Drop, DayPasses, vars, jobs
  <2>2. QED
    BY <2>1
<1>3. QED
  BY <1>1, <1>2 DEF Next

\* A payer without an active tariff gets no draft from a later invocation.
THEOREM RetiredPayersDrain == Spec => RetirementDrains
<1>1. ASSUME IInv, [Next]_vars
      PROVE  \A p \in Payer : ~HasActiveTariff(p) =>
                /\ TurnsFor(p)' \subseteq TurnsFor(p)
                /\ TurnsFor(p) = {} =>
                      \A d \in drafts' \ drafts : d.payer = p => d.by = "HTTP"
  <2> SUFFICES ASSUME NEW p \in Payer, ~HasActiveTariff(p)
               PROVE  /\ TurnsFor(p)' \subseteq TurnsFor(p)
                      /\ TurnsFor(p) = {} =>
                            \A d \in drafts' \ drafts : d.payer = p => d.by = "HTTP"
    OBVIOUS
  <2>1. TurnsFor(p)' \subseteq TurnsFor(p)
    BY <1>1, NoNewTurns, PayersAreNamed DEF IInv
  <2>2. ASSUME NEW d \in drafts' \ drafts, d.payer = p, d.by # "HTTP"
        PROVE  TurnsFor(p) # {}
    BY <1>1, <2>2, NewDrafts DEF TurnsFor
  <2>3. QED
    BY <2>1, <2>2
<1>2. QED
  BY <1>1, InvariantHolds, PTL DEF Spec, RetirementDrains

\* Deleted collections and retired payers drain out of the drafts.
THEOREM DeletionsAreFinal == Spec => DeletionsDrain
BY DeletedCollectionsDrain, RetiredPayersDrain, PTL DEF DeletionsDrain
=============================================================================
