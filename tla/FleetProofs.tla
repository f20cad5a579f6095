----------------------------- MODULE FleetProofs -----------------------------
(***************************************************************************)
(* Theorems about the compliance office, the dispatch desk, the composition *)
(* of the two, and the reports made of their tables, for any number of      *)
(* everything.                                                              *)
(*                                                                         *)
(* The office first: GroundedForCause is not inductive, since the flip is   *)
(* made from a snapshot.  It rests on TurnsStayJustified, which is stable   *)
(* because a document stays late, and because EXPIRED is never undone.      *)
(*                                                                         *)
(* Then the desk.  Two lemmas say what a step does, ShiftMoves to the table *)
(* of shifts and RequestMoves to the requests in progress; the properties   *)
(* follow from them.  What is worth proving of the overlap query needs the  *)
(* history variable of MCDispatches.                                        *)
(*                                                                         *)
(* Then the composition.  Fleet implements both parts: seen from the        *)
(* office the desk only stutters, and seen from the desk the office is its  *)
(* environment.  What is proved of each part therefore holds of Fleet.      *)
(*                                                                         *)
(* At last the reports, which add up columns of tables of any length: first *)
(* what a sum over a finite set is, whatever order its elements are taken   *)
(* in, then what the reports say.  A summary the desk has not disturbed     *)
(* holds what its counts would answer now, and counts of one moment agree.  *)
(***************************************************************************)
EXTENDS Fleet, MCDispatches, Reports, FiniteSetTheorems, TLAPS

-----------------------------------------------------------------------------
\* The inductive invariant.
OfficeIInv == Office!TypeOK /\ Office!TurnsStayJustified /\ Office!GroundedForCause

\* A step that flips nobody keeps the invariant if documents only get later or more
\* expired, and the turns stay justified.
LEMMA QuietStepKeepsIInv ==
    ASSUME OfficeIInv, Office!TypeOK', Office!TurnsStayJustified', compliance' = compliance,
           \A x \in Doc : Office!Exists(x) =>
               /\ Office!Exists(x)'
               /\ doc'[x].entity = doc[x].entity
               /\ doc[x].late => doc'[x].late
               /\ doc[x].status = "EXPIRED" => doc'[x].status = "EXPIRED"
    PROVE  OfficeIInv'
BY DEF OfficeIInv, Office!GroundedForCause

\* The handlers of ComplianceService, and the clock, keep the invariant.
LEMMA DocumentsKeepIInv ==
    ASSUME OfficeIInv, NEW x \in Doc,
           \/ \E e \in Vehicle \cup Driver : Office!CreateDocument(x, e)
           \/ Office!ExpiryDatePasses(x) \/ Office!RemoveDocument(x)
    PROVE  OfficeIInv'
<1>1. /\ UNCHANGED <<compliance, halfway, run, log>>
      /\ \A y \in Doc \ {x} : doc'[y] = doc[y]
      /\ doc' = [y \in Doc |-> doc'[y]]
  BY DEF Office!CreateDocument, Office!ExpiryDatePasses, Office!RemoveDocument,
         OfficeIInv, Office!TypeOK
<1>2. /\ doc'[x] \in Office!Row
      /\ Office!Exists(x) =>
           /\ doc'[x].entity = doc[x].entity
           /\ doc[x].late => doc'[x].late
           /\ doc'[x].status = doc[x].status
  <2>1. ASSUME NEW e \in Vehicle \cup Driver, Office!CreateDocument(x, e) PROVE <1>2
    BY <2>1 DEF Office!CreateDocument, OfficeIInv, Office!TypeOK, Office!Row
  <2>2. CASE Office!ExpiryDatePasses(x)
    <3>1. doc[x] \in Office!Row /\ doc'[x] = [doc[x] EXCEPT !.late = TRUE]
      BY <2>2 DEF Office!ExpiryDatePasses, OfficeIInv, Office!TypeOK, Office!Exists
    <3>2. QED
      BY <3>1 DEF Office!Row
  <2>3. CASE Office!RemoveDocument(x)
    <3>1. doc[x] \in Office!Row /\ doc'[x] = [doc[x] EXCEPT !.deleted = TRUE]
      BY <2>3 DEF Office!RemoveDocument, Office!Active, OfficeIInv, Office!TypeOK,
                  Office!Exists
    <3>2. QED
      BY <3>1 DEF Office!Row
  <2>4. QED
    BY <2>1, <2>2, <2>3
<1>3. doc'[x] # Office!NoDoc
  BY <1>2 DEF Office!Row, Office!NoDoc
<1>4. Office!TypeOK'
  BY <1>1, <1>2 DEF OfficeIInv, Office!TypeOK, Office!Cron!CronTypeOK
<1>5. Office!TurnsStayJustified'
  <2>1. ASSUME NEW y \in Doc, Office!Exists(y)
        PROVE  /\ Office!Exists(y)'
               /\ doc[y].late => doc'[y].late
               /\ doc[y].status = "EXPIRED" => doc'[y].status = "EXPIRED"
    BY <1>1, <1>2, <1>3, <2>1 DEF Office!Exists
  <2>2. ASSUME NEW r \in Run
        PROVE  run[r].todo \subseteq Doc /\ halfway[r] \subseteq Doc
    BY DEF OfficeIInv, Office!TypeOK, Office!Cron!CronTypeOK, Office!Cron!RunState
  <2>3. ASSUME NEW r \in Run
        PROVE  /\ \A y \in run[r].todo : Office!Exists(y)' /\ doc'[y].late
               /\ \A y \in halfway[r] : /\ doc'[y].status = "EXPIRED"
                                        /\ run[r].pc = "looping" /\ y \in run[r].todo
    BY <2>1, <2>2 DEF OfficeIInv, Office!TurnsStayJustified
  <2>4. QED
    BY <1>1, <2>3 DEF Office!TurnsStayJustified
<1>6. QED
  BY <1>1, <1>2, <1>3, <1>4, <1>5, QuietStepKeepsIInv DEF Office!Exists

\* The two updates of a turn keep the invariant.
LEMMA TurnsKeepIInv ==
    ASSUME OfficeIInv, NEW r \in Run, NEW x \in Doc,
           Office!MarkExpired(r, x) \/ Office!FlipEntity(r, x)
    PROVE  OfficeIInv'
<1>1. doc[x] \in Office!Row /\ doc[x].late /\ x \in run[r].todo
  BY DEF OfficeIInv, Office!TypeOK, Office!TurnsStayJustified, Office!Exists,
         Office!MarkExpired, Office!FlipEntity
<1>2. CASE Office!MarkExpired(r, x)
  <2>1. /\ run[r].pc = "looping"
        /\ doc' = [doc EXCEPT ![x].status = "EXPIRED"]
        /\ halfway' = [halfway EXCEPT ![r] = {x}]
        /\ UNCHANGED <<compliance, run, log>>
    BY <1>2 DEF Office!MarkExpired
  <2>2. /\ doc'[x] = [doc[x] EXCEPT !.status = "EXPIRED"]
        /\ \A y \in Doc \ {x} : doc'[y] = doc[y]
        /\ \A s \in Run \ {r} : halfway'[s] = halfway[s]
        /\ halfway'[r] = {x}
    BY <2>1 DEF OfficeIInv, Office!TypeOK
  <2>3. /\ doc'[x] \in Office!Row /\ doc'[x].status = "EXPIRED" /\ doc'[x].late
        /\ doc'[x].entity = doc[x].entity /\ doc'[x] # Office!NoDoc
    BY <1>1, <2>2 DEF Office!Row, Office!NoDoc
  <2>4. Office!TypeOK'
    BY <2>1, <2>2, <2>3 DEF OfficeIInv, Office!TypeOK, Office!Cron!CronTypeOK
  <2>5. Office!TurnsStayJustified'
    <3>1. \A y \in Doc : Office!Exists(y) =>
             /\ Office!Exists(y)' /\ (doc[y].late => doc'[y].late)
             /\ doc[y].status = "EXPIRED" => doc'[y].status = "EXPIRED"
      BY <2>2, <2>3 DEF Office!Exists
    <3>2. \A s \in Run : run[s].todo \subseteq Doc /\ halfway[s] \subseteq Doc
      BY DEF OfficeIInv, Office!TypeOK, Office!Cron!CronTypeOK, Office!Cron!RunState
    <3>3. ASSUME NEW s \in Run, NEW y \in run'[s].todo
          PROVE  Office!Exists(y)' /\ doc'[y].late
      BY <2>1, <3>1, <3>2 DEF OfficeIInv, Office!TurnsStayJustified
    <3>4. ASSUME NEW s \in Run, NEW y \in halfway'[s]
          PROVE  doc'[y].status = "EXPIRED" /\ run'[s].pc = "looping" /\ y \in run'[s].todo
      <4>1. CASE s = r
        BY <1>1, <2>1, <2>2, <2>3, <3>4, <4>1
      <4>2. CASE s # r
        BY <2>1, <2>2, <3>1, <3>2, <3>4, <4>2 DEF OfficeIInv, Office!TurnsStayJustified
      <4>3. QED
        BY <4>1, <4>2
    <3>5. QED
      BY <3>3, <3>4 DEF Office!TurnsStayJustified
  <2>6. QED
    BY <2>1, <2>2, <2>3, <2>4, <2>5, QuietStepKeepsIInv DEF Office!Exists
<1>3. CASE Office!FlipEntity(r, x)
  <2>1. /\ doc' = doc /\ log' = log
        /\ x \in halfway[r]
        /\ compliance' = [compliance EXCEPT ![doc[x].entity] = "NON_COMPLIANT"]
        /\ halfway' = [halfway EXCEPT ![r] = {}]
        /\ run' = [run EXCEPT ![r].todo = @ \ {x}]
    BY <1>3 DEF Office!FlipEntity, Office!Cron!ItemDone
  <2>2. doc[x].entity \in Vehicle \cup Driver /\ doc[x].status = "EXPIRED"
    BY <1>1, <2>1 DEF Office!Row, OfficeIInv, Office!TurnsStayJustified
  <2>3. /\ run' \in [Run -> Office!Cron!RunState]
        /\ \A s \in Run : run'[s].todo \subseteq run[s].todo
        /\ \A s \in Run \ {r} : run'[s] = run[s] /\ halfway'[s] = halfway[s]
        /\ halfway'[r] = {}
    BY <2>1 DEF OfficeIInv, Office!TypeOK, Office!Cron!CronTypeOK, Office!Cron!RunState
  <2>4. Office!TypeOK'
    BY <2>1, <2>2, <2>3 DEF OfficeIInv, Office!TypeOK, Office!Cron!CronTypeOK
  <2>5. Office!TurnsStayJustified'
    BY <2>1, <2>3 DEF OfficeIInv, Office!TurnsStayJustified, Office!Exists
  <2>6. Office!GroundedForCause'
    BY <1>1, <2>1, <2>2 DEF OfficeIInv, Office!TypeOK, Office!GroundedForCause,
                            Office!Exists, Office!Row, Office!NoDoc
  <2>7. QED
    BY <2>4, <2>5, <2>6 DEF OfficeIInv
<1>4. QED
  BY <1>2, <1>3

\* The other steps of the job keep the invariant: they write no document and flip
\* nobody, and a snapshot holds late documents only.
LEMMA OtherExpiryStepsKeepIInv ==
    ASSUME OfficeIInv, NEW r \in Run,
           \/ Office!ExpiryStart(r) \/ Office!ExpiryScan(r) \/ Office!ExpiryComplete(r)
           \/ Office!ExpiryThrow(r) \/ Office!ExpiryFail(r) \/ Office!ExpiryDie(r)
           \/ \E x \in Doc : Office!TurnFails(r, x)
    PROVE  OfficeIInv'
<1>0. /\ run \in [Run -> Office!Cron!RunState]
      /\ log \in [Run -> Office!Cron!CronStatus \cup {"none"}]
      /\ halfway \in [Run -> {{}} \cup {{y} : y \in Doc}]
  BY DEF OfficeIInv, Office!TypeOK, Office!Cron!CronTypeOK
<1>a. run[r].pc # "looping" \/ run[r].todo = {} => halfway[r] = {}
  BY <1>0 DEF OfficeIInv, Office!TurnsStayJustified
<1>1. /\ doc' = doc /\ compliance' = compliance
      /\ run' \in [Run -> Office!Cron!RunState]
      /\ log' \in [Run -> Office!Cron!CronStatus \cup {"none"}]
      /\ \A s \in Run : run'[s].todo \subseteq run[s].todo \cup Office!Due
      /\ \A s \in Run : halfway'[s] = {} \/ (halfway'[s] = halfway[s] /\ run'[s] = run[s])
      /\ halfway' \in [Run -> {{}} \cup {{y} : y \in Doc}]
  <2>1. CASE Office!ExpiryStart(r)
    BY <1>0, <1>a, <2>1 DEF Office!ExpiryStart, Office!Cron!Start, Office!Cron!RunState,
                            Office!Cron!CronStatus
  <2>2. CASE Office!ExpiryScan(r)
    BY <1>0, <1>a, <2>2 DEF Office!ExpiryScan, Office!Cron!Scan, Office!Cron!RunState,
                            Office!Due
  <2>3. CASE Office!ExpiryComplete(r)
    BY <1>0, <1>a, <2>3 DEF Office!ExpiryComplete, Office!Cron!Complete,
                            Office!Cron!RunState, Office!Cron!CronStatus
  <2>4. CASE Office!ExpiryThrow(r)
    BY <1>0, <1>a, <2>4 DEF Office!ExpiryThrow, Office!Cron!Throw, Office!Cron!RunState
  <2>5. CASE Office!ExpiryFail(r)
    BY <1>0, <1>a, <2>5 DEF Office!ExpiryFail, Office!Cron!Fail, Office!Cron!RunState,
                            Office!Cron!CronStatus
  <2>6. CASE Office!ExpiryDie(r)
    BY <1>0, <2>6 DEF Office!ExpiryDie, Office!Cron!Die, Office!Cron!RunState
  <2>7. ASSUME NEW x \in Doc, Office!TurnFails(r, x) PROVE <1>1
    BY <1>0, <2>7 DEF Office!TurnFails, Office!Cron!ItemFails, Office!Cron!RunState
  <2>8. QED
    BY <2>1, <2>2, <2>3, <2>4, <2>5, <2>6, <2>7
<1>2. Office!TypeOK'
  BY <1>1 DEF OfficeIInv, Office!TypeOK, Office!Cron!CronTypeOK
<1>3. \A x \in Office!Due : Office!Exists(x) /\ doc[x].late
  BY DEF Office!Due, Office!Active
<1>4. Office!TurnsStayJustified'
  BY <1>1, <1>3 DEF OfficeIInv, Office!TurnsStayJustified, Office!Exists
<1>5. QED
  BY <1>1, <1>2, <1>4, QuietStepKeepsIInv DEF Office!Exists

\* Every step keeps the invariant.
LEMMA OfficeKeepsIInv == OfficeIInv /\ [Office!Next]_(Office!vars) => OfficeIInv'
<1> SUFFICES ASSUME OfficeIInv, [Office!Next]_(Office!vars) PROVE OfficeIInv'
  OBVIOUS
<1>1. ASSUME NEW x \in Doc,
             \/ \E e \in Vehicle \cup Driver : Office!CreateDocument(x, e)
             \/ Office!ExpiryDatePasses(x) \/ Office!RemoveDocument(x)
      PROVE  OfficeIInv'
  BY <1>1, DocumentsKeepIInv
<1>2. ASSUME NEW r \in Run, Office!ExpiryStep(r) PROVE OfficeIInv'
  <2>1. CASE \E x \in Doc : Office!MarkExpired(r, x) \/ Office!FlipEntity(r, x)
    BY <2>1, TurnsKeepIInv
  <2>2. CASE \/ Office!ExpiryStart(r) \/ Office!ExpiryScan(r) \/ Office!ExpiryComplete(r)
             \/ Office!ExpiryThrow(r) \/ Office!ExpiryFail(r) \/ Office!ExpiryDie(r)
             \/ \E x \in Doc : Office!TurnFails(r, x)
    BY <2>2, OtherExpiryStepsKeepIInv
  <2>3. QED
    BY <1>2, <2>1, <2>2 DEF Office!ExpiryStep
<1>3. CASE UNCHANGED Office!vars
  BY <1>3 DEF Office!vars, OfficeIInv, Office!TypeOK, Office!Cron!CronTypeOK,
              Office!TurnsStayJustified, Office!GroundedForCause, Office!Exists
<1>4. QED
  BY <1>1, <1>2, <1>3 DEF Office!Next

\* The invariant holds in every reachable state.
THEOREM OfficeInvariantHolds == Office!Spec => []OfficeIInv
<1>1. Office!Init => OfficeIInv
  BY DEF Office!Init, OfficeIInv, Office!TypeOK, Office!Cron!CronInit,
         Office!Cron!CronTypeOK, Office!Cron!RunState,
         Office!TurnsStayJustified, Office!GroundedForCause
<1>2. QED
  BY <1>1, OfficeKeepsIInv, PTL DEF Office!Spec

\* Type correctness; at most one document is halfway in a run.
THEOREM OfficeTypeCorrect == Office!Spec => []Office!TypeOK
<1>1. OfficeIInv => Office!TypeOK
  BY DEF OfficeIInv
<1>2. QED
  BY <1>1, OfficeInvariantHolds, PTL

\* Nobody is grounded without a document about them that is late and reads EXPIRED,
\* however documents come and go while the expiry job runs.
THEOREM NobodyGroundedWithoutCause == Office!Spec => []Office!GroundedForCause
<1>1. OfficeIInv => Office!GroundedForCause
  BY DEF OfficeIInv
<1>2. QED
  BY <1>1, OfficeInvariantHolds, PTL

\* The snapshot of the expiry job stays right until it is used.
THEOREM SnapshotStaysRight == Office!Spec => []Office!TurnsStayJustified
<1>1. OfficeIInv => Office!TurnsStayJustified
  BY DEF OfficeIInv
<1>2. QED
  BY <1>1, OfficeInvariantHolds, PTL

-----------------------------------------------------------------------------
\* The operations of createDispatch, and those of a request on a shift there is.
CreateOps == {"driver", "overlap", "insert"}
ShiftOps == {"start", "progress", "complete", "breakdown"}

\* A request that is about to write a shift has read it, and no shift is ever deleted.
ShiftsAreThere == \A w \in inflight : w.op \in ShiftOps => Exists(w.dispatch)

\* The inductive invariant of the desk.
DeskIInv == TypeOK /\ ShiftsAreThere

\* The operation tells which of the two kinds a request is.
LEMMA KindOfRequest ==
    ASSUME TypeOK, NEW w \in inflight
    PROVE  /\ w.op \in CreateOps <=> w \in Creating
           /\ w.op \in ShiftOps <=> w \in OnShift
           /\ w.op \in CreateOps \cup ShiftOps
BY DEF TypeOK, Creating, OnShift, CreateOps, ShiftOps

\* A shift is a row, and NoDispatch is none.
LEMMA ShiftIsRow ==
    ASSUME TypeOK, NEW k \in Dispatch
    PROVE  Exists(k) <=> dispatch[k] \in DispatchRow
<1>1. NoDispatch \notin DispatchRow
  BY DEF NoDispatch, DispatchRow, DispatchStatus
<1>2. QED
  BY <1>1 DEF TypeOK, Exists

\* An update of the status touches one column of one row.
LEMMA StatusUpdate ==
    ASSUME TypeOK, NEW k \in Dispatch, Exists(k), NEW s \in DispatchStatus,
           dispatch' = [dispatch EXCEPT ![k].status = s]
    PROVE  /\ dispatch' \in [Dispatch -> DispatchRow \cup {NoDispatch}]
           /\ \A j \in Dispatch \ {k} : dispatch'[j] = dispatch[j]
           /\ Exists(k)'
           /\ dispatch'[k].status = s
           /\ dispatch'[k].vehicle = dispatch[k].vehicle
           /\ dispatch'[k].driver = dispatch[k].driver
           /\ dispatch'[k].slot = dispatch[k].slot
<1>1. dispatch[k] \in DispatchRow
  BY ShiftIsRow
<1>2. dispatch'[k] = [dispatch[k] EXCEPT !.status = s]
  BY DEF TypeOK
<1>3. /\ dispatch'[k] \in DispatchRow /\ dispatch'[k].status = s
      /\ dispatch'[k].vehicle = dispatch[k].vehicle
      /\ dispatch'[k].driver = dispatch[k].driver
      /\ dispatch'[k].slot = dispatch[k].slot
  BY <1>1, <1>2 DEF DispatchRow
<1>4. dispatch'[k] # NoDispatch
  BY <1>3 DEF DispatchRow, NoDispatch, DispatchStatus
<1>5. /\ \A j \in Dispatch \ {k} : dispatch'[j] = dispatch[j]
      /\ dispatch' = [j \in Dispatch |-> dispatch'[j]]
  BY DEF TypeOK
<1>6. \A j \in Dispatch : dispatch'[j] \in DispatchRow \cup {NoDispatch}
  BY <1>3, <1>5 DEF TypeOK
<1>7. QED
  BY <1>3, <1>4, <1>5, <1>6 DEF Exists

\* A step of the desk in its effect on the table of shifts: none, one insert by a
\* request that has passed the three tests, or one new status, from the desk's
\* updateStatus or from a request that has read the shift.
LEMMA ShiftMoves ==
    ASSUME DeskIInv, [Next]_vars
    PROVE  \/ dispatch' = dispatch
           \/ \E w \in inflight, k \in Dispatch : InsertDispatch(w, k)
           \/ \E k \in Dispatch, s \in DispatchStatus : Exists(k) /\ UpdateStatus(k, s)
           \/ \E w \in inflight, k \in Dispatch :
                 /\ w.dispatch = k /\ Exists(k)
                 /\ SetInProgress(w) \/ CompleteShift(w)
<1>1. CASE UNCHANGED vars
  BY <1>1 DEF vars
<1>2. CASE MasterData
  BY <1>2 DEF MasterData, CreateVehicle, UpdateVehicle, RemoveVehicle, DismissDriver
<1>3. CASE Create
  BY <1>3 DEF Create, CheckVehicle, CheckDriver, CheckOverlap
<1>4. CASE Shift
  <2>1. ASSUME NEW k \in Dispatch, NEW q \in Request,
               CheckStop(q, k) \/ CheckStart(q, k) \/ CheckComplete(q, k) \/ CheckBreakdown(q, k)
        PROVE  dispatch' = dispatch
    BY <2>1 DEF CheckStop, CheckStart, CheckComplete, CheckBreakdown, Admit
  <2>2. ASSUME NEW w \in inflight, ReportBreakdown(w) PROVE dispatch' = dispatch
    BY <2>2 DEF ReportBreakdown
  <2>3. ASSUME NEW w \in inflight, SetInProgress(w) \/ CompleteShift(w)
        PROVE  w.dispatch \in Dispatch /\ Exists(w.dispatch)
    <3>1. w.op \in ShiftOps
      BY <2>3 DEF SetInProgress, CompleteShift, ShiftOps
    <3>2. w \in OnShift
      BY <3>1, KindOfRequest DEF DeskIInv
    <3>3. QED
      BY <3>1, <3>2 DEF OnShift, DeskIInv, ShiftsAreThere
  <2>4. ASSUME NEW k \in Dispatch, NEW s \in DispatchStatus, UpdateStatus(k, s)
        PROVE  Exists(k)
    BY <2>4 DEF UpdateStatus
  <2>5. QED
    BY <1>4, <2>1, <2>2, <2>3, <2>4 DEF Shift
<1>5. CASE \E w \in inflight : Drop(w)
  BY <1>5 DEF Drop
<1>6. CASE \E e \in Vehicle \cup Driver : Ground(e)
  BY <1>6 DEF Ground
<1>7. QED
  BY <1>1, <1>2, <1>3, <1>4, <1>5, <1>6 DEF Next, DeskNext

\* The row that createDispatch inserts.
LEMMA InsertedRow ==
    ASSUME TypeOK, NEW w \in inflight, NEW k \in Dispatch, InsertDispatch(w, k)
    PROVE  /\ dispatch' \in [Dispatch -> DispatchRow \cup {NoDispatch}]
           /\ \A j \in Dispatch \ {k} : dispatch'[j] = dispatch[j]
           /\ Exists(k)' /\ w \in Creating
           /\ dispatch'[k] = [status |-> "ASSIGNED", vehicle |-> w.vehicle,
                              driver |-> w.driver, slot |-> w.slot]
<1>1. w \in Creating
  BY KindOfRequest DEF InsertDispatch, CreateOps
<1>2. dispatch'[k] = [status |-> "ASSIGNED", vehicle |-> w.vehicle,
                      driver |-> w.driver, slot |-> w.slot]
  BY DEF InsertDispatch, TypeOK
<1>3. dispatch'[k] \in DispatchRow /\ dispatch'[k] # NoDispatch
  BY <1>1, <1>2 DEF Creating, DispatchRow, DispatchStatus, NoDispatch
<1>4. /\ \A j \in Dispatch \ {k} : dispatch'[j] = dispatch[j]
      /\ dispatch' = [j \in Dispatch |-> dispatch'[j]]
  BY DEF InsertDispatch, TypeOK
<1>5. \A j \in Dispatch : dispatch'[j] \in DispatchRow \cup {NoDispatch}
  BY <1>3, <1>4 DEF TypeOK
<1>6. QED
  BY <1>1, <1>2, <1>3, <1>4, <1>5 DEF Exists

\* The table keeps its type, no shift goes away and none changes hands.
LEMMA ShiftsStay ==
    ASSUME DeskIInv, [Next]_vars
    PROVE  /\ dispatch' \in [Dispatch -> DispatchRow \cup {NoDispatch}]
           /\ \A k \in Dispatch : Exists(k) =>
                 /\ Exists(k)'
                 /\ dispatch'[k].vehicle = dispatch[k].vehicle
                 /\ dispatch'[k].driver = dispatch[k].driver
                 /\ dispatch'[k].slot = dispatch[k].slot
<1>1. CASE dispatch' = dispatch
  BY <1>1 DEF DeskIInv, TypeOK, Exists
<1>2. ASSUME NEW w \in inflight, NEW k \in Dispatch, InsertDispatch(w, k)
      PROVE  /\ dispatch' \in [Dispatch -> DispatchRow \cup {NoDispatch}]
             /\ \A j \in Dispatch : Exists(j) => dispatch'[j] = dispatch[j]
  <2>1. ~Exists(k)
    BY <1>2 DEF InsertDispatch
  <2>2. QED
    BY <1>2, <2>1, InsertedRow DEF DeskIInv
<1>3. CASE \E k \in Dispatch, s \in DispatchStatus :
              Exists(k) /\ dispatch' = [dispatch EXCEPT ![k].status = s]
  <2>1. PICK k \in Dispatch, s \in DispatchStatus :
            Exists(k) /\ dispatch' = [dispatch EXCEPT ![k].status = s]
    BY <1>3
  <2>2. /\ dispatch' \in [Dispatch -> DispatchRow \cup {NoDispatch}]
        /\ \A j \in Dispatch \ {k} : dispatch'[j] = dispatch[j]
        /\ Exists(k)'
        /\ dispatch'[k].vehicle = dispatch[k].vehicle
        /\ dispatch'[k].driver = dispatch[k].driver
        /\ dispatch'[k].slot = dispatch[k].slot
    BY <2>1, StatusUpdate DEF DeskIInv
  <2>3. QED
    BY <2>2 DEF Exists
<1>4. ASSUME NEW k \in Dispatch, NEW s \in DispatchStatus, UpdateStatus(k, s)
      PROVE  dispatch' = [dispatch EXCEPT ![k].status = s]
  BY <1>4 DEF UpdateStatus
<1>5. ASSUME NEW w \in inflight, NEW k \in Dispatch, w.dispatch = k,
             SetInProgress(w) \/ CompleteShift(w)
      PROVE  \E s \in DispatchStatus : dispatch' = [dispatch EXCEPT ![k].status = s]
  BY <1>5 DEF SetInProgress, CompleteShift, DispatchStatus
<1>6. CASE \E w \in inflight, k \in Dispatch : InsertDispatch(w, k)
  BY <1>2, <1>6 DEF Exists
<1>7. QED
  BY <1>1, <1>3, <1>4, <1>5, <1>6, ShiftMoves

\* A request that a step puts in progress: a createDispatch after its first, second or
\* third test, or a request that has read a shift; if it will take the shift to
\* IN_PROGRESS, it has not read COMPLETED.
LEMMA RequestMoves ==
    ASSUME DeskIInv, [Next]_vars, NEW u \in inflight', u \notin inflight
    PROVE  \/ \E q \in Request, v \in Vehicle, d \in Driver, s \in Slot :
                 /\ CheckVehicle(q, v, d, s)
                 /\ u = [by |-> q, op |-> "driver", vehicle |-> v, driver |-> d, slot |-> s]
           \/ \E w \in inflight :
                 /\ w \in Creating /\ CheckDriver(w) /\ u = [w EXCEPT !.op = "overlap"]
           \/ \E w \in inflight :
                 /\ w \in Creating /\ CheckOverlap(w) /\ u = [w EXCEPT !.op = "insert"]
           \/ \E q \in Request, k \in Dispatch, op \in ShiftOps :
                 /\ Exists(k) /\ u = [by |-> q, op |-> op, dispatch |-> k]
                 /\ op \in {"start", "progress"} => dispatch[k].status # "COMPLETED"
<1>1. CASE Create
  <2>1. ~\E w \in inflight, k \in Dispatch : InsertDispatch(w, k)
    BY DEF InsertDispatch, GoesOn
  <2>2. ASSUME NEW w \in inflight, CheckDriver(w)
        PROVE  w \in Creating /\ u = [w EXCEPT !.op = "overlap"]
    BY <2>2, KindOfRequest DEF CheckDriver, GoesOn, CreateOps, DeskIInv
  <2>3. ASSUME NEW w \in inflight, CheckOverlap(w)
        PROVE  w \in Creating /\ u = [w EXCEPT !.op = "insert"]
    BY <2>3, KindOfRequest DEF CheckOverlap, GoesOn, CreateOps, DeskIInv
  <2>4. ASSUME NEW q \in Request, NEW v \in Vehicle, NEW d \in Driver, NEW s \in Slot,
               CheckVehicle(q, v, d, s)
        PROVE  u = [by |-> q, op |-> "driver", vehicle |-> v, driver |-> d, slot |-> s]
    BY <2>4 DEF CheckVehicle
  <2>5. QED
    BY <1>1, <2>1, <2>2, <2>3, <2>4 DEF Create
<1>2. CASE Shift
  <2>1. PICK q \in Request, k \in Dispatch :
            CheckStop(q, k) \/ CheckStart(q, k) \/ CheckComplete(q, k) \/ CheckBreakdown(q, k)
    BY <1>2 DEF Shift, UpdateStatus, SetInProgress, CompleteShift, ReportBreakdown, GoesOn
  <2>2. PICK op \in ShiftOps :
            /\ Admit(q, op, k) /\ Exists(k)
            /\ op \in {"start", "progress"} => dispatch[k].status # "COMPLETED"
    BY <2>1 DEF CheckStop, CheckStart, CheckComplete, CheckBreakdown, OwnShift, ShiftOps
  <2>3. u = [by |-> q, op |-> op, dispatch |-> k]
    BY <2>2 DEF Admit
  <2>4. QED
    BY <2>2, <2>3
<1>3. CASE MasterData
  BY <1>3 DEF MasterData, CreateVehicle, UpdateVehicle, RemoveVehicle, DismissDriver
<1>4. CASE (\E w \in inflight : Drop(w)) \/ (\E e \in Vehicle \cup Driver : Ground(e))
  BY <1>4 DEF Drop, Ground, GoesOn
<1>5. CASE UNCHANGED vars
  BY <1>5 DEF vars
<1>6. QED
  BY <1>1, <1>2, <1>3, <1>4, <1>5 DEF Next, DeskNext

\* In particular it is a createDispatch, or the shift it is about is there.
LEMMA RequestsAreTyped ==
    ASSUME DeskIInv, [Next]_vars, NEW u \in inflight', u \notin inflight
    PROVE  u \in Creating \/ (u \in OnShift /\ Exists(u.dispatch))
BY RequestMoves DEF Creating, OnShift, ShiftOps

\* Every step keeps the invariant of the desk.
LEMMA DeskKeepsIInv == DeskIInv /\ [Next]_vars => DeskIInv'
<1> SUFFICES ASSUME DeskIInv, [Next]_vars PROVE DeskIInv'
  OBVIOUS
<1>1. /\ vehicle' \in [Vehicle -> VehicleStatus \cup {"absent", "deleted"}]
      /\ employed' \subseteq Driver
      /\ compliance' \in [Vehicle \cup Driver -> {"COMPLIANT", "NON_COMPLIANT"}]
  <2>1. CASE MasterData
    BY <2>1 DEF MasterData, CreateVehicle, UpdateVehicle, RemoveVehicle, DismissDriver,
                DeskIInv, TypeOK
  <2>2. CASE Create
    BY <2>2 DEF Create, CheckVehicle, CheckDriver, CheckOverlap, InsertDispatch, GoesOn,
                DeskIInv, TypeOK
  <2>3. CASE Shift
    BY <2>3 DEF Shift, UpdateStatus, CheckStop, CheckStart, CheckComplete, CheckBreakdown,
                Admit, SetInProgress, CompleteShift, ReportBreakdown, ToMaintenance, GoesOn,
                VehicleStatus, DeskIInv, TypeOK
  <2>4. CASE \E w \in inflight : Drop(w)
    BY <2>4 DEF Drop, GoesOn, DeskIInv, TypeOK
  <2>5. CASE \E e \in Vehicle \cup Driver : Ground(e)
    BY <2>5 DEF Ground, DeskIInv, TypeOK
  <2>6. CASE UNCHANGED vars
    BY <2>6 DEF vars, DeskIInv, TypeOK
  <2>7. QED
    BY <2>1, <2>2, <2>3, <2>4, <2>5, <2>6 DEF Next, DeskNext
<1>2. inflight' \subseteq Creating \cup OnShift
  BY RequestsAreTyped DEF DeskIInv, TypeOK
<1>3. TypeOK'
  BY <1>1, <1>2, ShiftsStay DEF TypeOK
<1>4. ASSUME NEW w \in inflight', w.op \in ShiftOps PROVE Exists(w.dispatch)'
  <2>1. w.dispatch \in Dispatch
    BY <1>2, <1>4 DEF Creating, OnShift, ShiftOps
  <2>2. Exists(w.dispatch)
    <3>1. CASE w \in inflight
      BY <1>4, <3>1 DEF DeskIInv, ShiftsAreThere
    <3>2. CASE w \notin inflight
      BY <1>4, <3>2, RequestsAreTyped DEF Creating, ShiftOps
    <3>3. QED
      BY <3>1, <3>2
  <2>3. QED
    BY <2>1, <2>2, ShiftsStay
<1>5. QED
  BY <1>3, <1>4 DEF DeskIInv, ShiftsAreThere

THEOREM DeskInvariantHolds == Spec => []DeskIInv
<1>1. Init => DeskIInv
  BY DEF Init, DeskIInv, TypeOK, ShiftsAreThere
<1>2. QED
  BY <1>1, DeskKeepsIInv, PTL DEF Spec

\* Type correctness of the desk.
THEOREM DeskTypeCorrect == Spec => []TypeOK
<1>1. DeskIInv => TypeOK
  BY DEF DeskIInv
<1>2. QED
  BY <1>1, DeskInvariantHolds, PTL

\* A shift that comes into being is the insert of a createDispatch.
LEMMA NewShiftWasInserted ==
    ASSUME DeskIInv, [Next]_vars, NEW k \in Dispatch, ~Exists(k), Exists(k)'
    PROVE  \E w \in inflight : InsertDispatch(w, k)
<1>1. ASSUME NEW j \in Dispatch, Exists(j), NEW s \in DispatchStatus,
             dispatch' = [dispatch EXCEPT ![j].status = s]
      PROVE  FALSE
  <2>1. dispatch'[k] = dispatch[k]
    BY <1>1, StatusUpdate DEF DeskIInv
  <2>2. QED
    BY <2>1 DEF Exists
<1>2. ASSUME NEW w \in inflight, NEW j \in Dispatch, InsertDispatch(w, j)
      PROVE  j = k
  <2>1. \A i \in Dispatch \ {j} : dispatch'[i] = dispatch[i]
    BY <1>2, InsertedRow DEF DeskIInv
  <2>2. QED
    BY <2>1 DEF Exists
<1>3. ASSUME NEW w \in inflight, NEW j \in Dispatch, w.dispatch = j,
             SetInProgress(w) \/ CompleteShift(w)
      PROVE  \E s \in DispatchStatus : dispatch' = [dispatch EXCEPT ![j].status = s]
  BY <1>3 DEF SetInProgress, CompleteShift, DispatchStatus
<1>4. dispatch' # dispatch
  BY DEF Exists
<1>5. QED
  BY <1>1, <1>2, <1>3, <1>4, ShiftMoves DEF UpdateStatus

-----------------------------------------------------------------------------
\* How a createDispatch gets past the tests of a vehicle or driver e: in this step it
\* has tested e, which was COMPLIANT, or it was past them before.
LEMMA PastTestMoves ==
    ASSUME DeskIInv, [Next]_vars, NEW e \in Vehicle \cup Driver, NEW u \in inflight',
           \/ u.op \in CreateOps /\ u.vehicle = e
           \/ u.op \in {"overlap", "insert"} /\ u.driver = e
    PROVE  u.by \in PastTest(e) \/ compliance[e] = "COMPLIANT"
<1>1. CASE u \in inflight
  BY <1>1 DEF PastTest, CreateOps
<1>2. ASSUME NEW q \in Request, NEW v \in Vehicle, NEW d \in Driver, NEW s \in Slot,
             CheckVehicle(q, v, d, s),
             u = [by |-> q, op |-> "driver", vehicle |-> v, driver |-> d, slot |-> s]
      PROVE  compliance[e] = "COMPLIANT"
  BY <1>2 DEF CheckVehicle
<1>3. ASSUME NEW w \in inflight, w \in Creating,
             \/ CheckDriver(w) /\ u = [w EXCEPT !.op = "overlap"]
             \/ CheckOverlap(w) /\ u = [w EXCEPT !.op = "insert"]
      PROVE  u.by \in PastTest(e) \/ compliance[e] = "COMPLIANT"
  <2>1. u.by = w.by /\ u.vehicle = w.vehicle /\ u.driver = w.driver
    BY <1>3 DEF Creating
  <2>2. CASE w.vehicle = e
    BY <1>3, <2>1, <2>2 DEF PastTest, Creating
  <2>3. CASE w.driver = e
    BY <1>3, <2>1, <2>3 DEF PastTest, CheckDriver, CheckOverlap
  <2>4. QED
    BY <2>1, <2>2, <2>3
<1>4. u.op \notin ShiftOps
  BY DEF ShiftOps, CreateOps
<1>5. QED
  BY <1>1, <1>2, <1>3, <1>4, RequestMoves

\* A new shift of e is inserted by a request that is past the tests of e.
LEMMA NewShiftsWereTested ==
    ASSUME DeskIInv, [Next]_vars, NEW e \in Vehicle \cup Driver, PastTest(e) = {}
    PROVE  ShiftsOf(e)' = ShiftsOf(e)
<1>1. ASSUME NEW k \in Dispatch, Exists(k)
      PROVE  k \in ShiftsOf(e)' <=> k \in ShiftsOf(e)
  BY <1>1, ShiftsStay DEF ShiftsOf
<1>2. ASSUME NEW k \in Dispatch, ~Exists(k), k \in ShiftsOf(e)'
      PROVE  FALSE
  <2>1. Exists(k)'
    BY <1>2 DEF ShiftsOf
  <2>2. PICK w \in inflight : InsertDispatch(w, k)
    BY <1>2, <2>1, NewShiftWasInserted
  <2>3. dispatch'[k].vehicle = w.vehicle /\ dispatch'[k].driver = w.driver /\ w.op = "insert"
    BY <2>2, InsertedRow DEF InsertDispatch, DeskIInv
  <2>4. e = w.vehicle \/ e = w.driver
    BY <1>2, <2>3 DEF ShiftsOf
  <2>5. QED
    BY <2>3, <2>4 DEF PastTest
<1>3. QED
  BY <1>1, <1>2 DEF ShiftsOf

\* Once a vehicle or driver is grounded only the createDispatch requests that have
\* passed its test already can still book it.
THEOREM DeskGroundingDrains == Spec => GroundingDrains
<1>1. ASSUME DeskIInv, [Next]_vars
      PROVE  \A e \in Vehicle \cup Driver : compliance[e] = "NON_COMPLIANT" =>
                /\ PastTest(e)' \subseteq PastTest(e)
                /\ PastTest(e) = {} => ShiftsOf(e)' = ShiftsOf(e)
  <2> SUFFICES ASSUME NEW e \in Vehicle \cup Driver, compliance[e] = "NON_COMPLIANT"
               PROVE  /\ PastTest(e)' \subseteq PastTest(e)
                      /\ PastTest(e) = {} => ShiftsOf(e)' = ShiftsOf(e)
    OBVIOUS
  <2>1. ASSUME NEW u \in inflight',
               \/ u.op \in CreateOps /\ u.vehicle = e
               \/ u.op \in {"overlap", "insert"} /\ u.driver = e
        PROVE  u.by \in PastTest(e)
    BY <1>1, <2>1, PastTestMoves
  <2>2. PastTest(e)' \subseteq PastTest(e)
    <3>1. ASSUME NEW b \in PastTest(e)'
          PROVE  \E u \in inflight' :
                    /\ b = u.by
                    /\ \/ u.op \in CreateOps /\ u.vehicle = e
                       \/ u.op \in {"overlap", "insert"} /\ u.driver = e
      BY <3>1 DEF PastTest, CreateOps
    <3>2. QED
      BY <2>1, <3>1
  <2>3. QED
    BY <1>1, <2>2, NewShiftsWereTested
<1>2. QED
  BY <1>1, DeskInvariantHolds, PTL DEF Spec, GroundingDrains

-----------------------------------------------------------------------------
\* The requests admitted to a start or a first stop in this step found the shift not
\* COMPLETED.
LEMMA ReopenerMoves ==
    ASSUME DeskIInv, [Next]_vars, NEW k \in Dispatch, NEW u \in inflight', u \notin inflight,
           u.op \in {"start", "progress"}, u.dispatch = k
    PROVE  dispatch[k].status # "COMPLETED"
BY RequestMoves DEF CheckVehicle, Creating

\* A shift that is COMPLETED leaves that status by the desk's updateStatus or by a
\* request admitted to a start or a first stop.
LEMMA LeavingCompleted ==
    ASSUME DeskIInv, [Next]_vars, NEW k \in Dispatch, dispatch[k].status = "COMPLETED",
           dispatch'[k].status # "COMPLETED", Reopeners(k) = {}
    PROVE  UNCHANGED inflight
<1>1. Exists(k)
  BY DEF Exists, NoDispatch
<1>2. ASSUME NEW j \in Dispatch, j # k, Exists(j), NEW s \in DispatchStatus,
             dispatch' = [dispatch EXCEPT ![j].status = s]
      PROVE  FALSE
  BY <1>2, StatusUpdate DEF DeskIInv
<1>3. ASSUME NEW w \in inflight, NEW j \in Dispatch, InsertDispatch(w, j)
      PROVE  FALSE
  <2>1. j # k
    BY <1>1, <1>3 DEF InsertDispatch
  <2>2. dispatch'[k] = dispatch[k]
    <3>1. \A i \in Dispatch \ {j} : dispatch'[i] = dispatch[i]
      BY <1>3, InsertedRow DEF DeskIInv
    <3>2. QED
      BY <2>1, <3>1
  <2>3. QED
    BY <2>2
<1>4. ASSUME NEW w \in inflight, NEW j \in Dispatch, w.dispatch = j, Exists(j),
             SetInProgress(w) \/ CompleteShift(w)
      PROVE  FALSE
  <2>1. PICK s \in DispatchStatus : dispatch' = [dispatch EXCEPT ![j].status = s]
    BY <1>4 DEF SetInProgress, CompleteShift, DispatchStatus
  <2>2. j = k
    BY <1>2, <1>4, <2>1
  <2>3. ~SetInProgress(w)
    BY <1>4, <2>2 DEF SetInProgress, Reopeners
  <2>4. dispatch' = [dispatch EXCEPT ![k].status = "COMPLETED"]
    BY <1>4, <2>2, <2>3 DEF CompleteShift
  <2>5. dispatch'[k].status = "COMPLETED"
    BY <1>1, <2>4, StatusUpdate DEF DeskIInv, DispatchStatus
  <2>6. QED
    BY <2>5
<1>5. QED
  BY <1>3, <1>4, ShiftMoves DEF UpdateStatus

\* Once a shift is COMPLETED nothing but the desk's updateStatus, and the requests
\* admitted before, reopens it.
THEOREM DeskCompletionDrains == Spec => CompletionDrains
<1>1. ASSUME DeskIInv, [Next]_vars
      PROVE  \A k \in Dispatch : dispatch[k].status = "COMPLETED" =>
                /\ Reopeners(k)' \subseteq Reopeners(k)
                /\ (Reopeners(k) = {} /\ dispatch'[k].status # "COMPLETED")
                      => UNCHANGED inflight
  <2> SUFFICES ASSUME NEW k \in Dispatch, dispatch[k].status = "COMPLETED"
               PROVE  /\ Reopeners(k)' \subseteq Reopeners(k)
                      /\ (Reopeners(k) = {} /\ dispatch'[k].status # "COMPLETED")
                            => UNCHANGED inflight
    OBVIOUS
  <2>1. Reopeners(k)' \subseteq Reopeners(k)
    BY <1>1, ReopenerMoves DEF Reopeners
  <2>2. QED
    BY <1>1, <2>1, LeavingCompleted
<1>2. QED
  BY <1>1, DeskInvariantHolds, PTL DEF Spec, CompletionDrains

-----------------------------------------------------------------------------
\* As long as it is calm there is one createDispatch at a time, and one that has made
\* its last test is still right: no open shift overlaps with what it will insert.
CalmBooking ==
    /\ \A u, w \in Creators : u = w
    /\ \A w \in Creators : w.op = "insert" => \A k \in Dispatch : ~Overlaps(w, k)
    /\ NoDoubleBooking

\* The inductive invariant of MCDispatches.
CalmIInv == DeskIInv /\ IsFiniteSet(inflight) /\ (calm => CalmBooking)

\* Requests stay finitely many.
LEMMA FiniteInflight ==
    ASSUME DeskIInv, IsFiniteSet(inflight), [Next]_vars
    PROVE  IsFiniteSet(inflight')
<1>1. \/ inflight' \subseteq inflight
      \/ \E u : inflight' = inflight \cup {u}
      \/ \E u, w : inflight' = (inflight \ {w}) \cup {u}
  <2>1. CASE MasterData
    BY <2>1 DEF MasterData, CreateVehicle, UpdateVehicle, RemoveVehicle, DismissDriver
  <2>2. CASE Create
    BY <2>2 DEF Create, CheckVehicle, CheckDriver, CheckOverlap, InsertDispatch, GoesOn
  <2>3. CASE Shift
    BY <2>3 DEF Shift, UpdateStatus, CheckStop, CheckStart, CheckComplete, CheckBreakdown,
                Admit, SetInProgress, CompleteShift, ReportBreakdown, GoesOn
  <2>4. CASE \/ \E w \in inflight : Drop(w)
             \/ \E e \in Vehicle \cup Driver : Ground(e)
             \/ UNCHANGED vars
    BY <2>4 DEF Drop, Ground, GoesOn, vars
  <2> QED
    BY <2>1, <2>2, <2>3, <2>4 DEF Next, DeskNext
<1>2. ASSUME NEW u PROVE IsFiniteSet(inflight \cup {u})
  BY FS_AddElement
<1>3. ASSUME NEW u, NEW w PROVE IsFiniteSet((inflight \ {w}) \cup {u})
  BY FS_AddElement, FS_RemoveElement
<1>4. inflight' \subseteq inflight => IsFiniteSet(inflight')
  BY FS_Subset
<1>5. QED
  BY <1>1, <1>2, <1>3, <1>4

\* Among at most one there are no two.
LEMMA AtMostOne ==
    ASSUME NEW S, IsFiniteSet(S), Cardinality(S) <= 1
    PROVE  \A u, w \in S : u = w
<1> SUFFICES ASSUME NEW u \in S, NEW w \in S, u # w PROVE FALSE
  OBVIOUS
<1>1. IsFiniteSet({u}) /\ Cardinality({u}) = 1
  BY FS_Singleton
<1>2. Cardinality({u} \cup {w}) = 2
  BY <1>1, FS_AddElement
<1>3. Cardinality({u} \cup {w}) <= Cardinality(S) /\ Cardinality(S) \in Nat
  <2>1. {u} \cup {w} \in SUBSET S
    OBVIOUS
  <2> QED
    BY <2>1, FS_Subset, FS_CardinalityType
<1>4. QED
  BY <1>2, <1>3

\* Without an insert, and while closed shifts stay closed, the open shifts after a step
\* were open before.
LEMMA OpenShiftsWereOpen ==
    ASSUME DeskIInv, [Next]_vars, NEW k \in Dispatch, Exists(k)', Ended(k) => Ended(k)',
           dispatch'[k].status \notin Closed,
           ~\E w \in inflight : InsertDispatch(w, k)
    PROVE  /\ Exists(k) /\ dispatch[k].status \notin Closed
           /\ dispatch'[k].vehicle = dispatch[k].vehicle
           /\ dispatch'[k].driver = dispatch[k].driver
           /\ dispatch'[k].slot = dispatch[k].slot
<1>1. Exists(k)
  BY NewShiftWasInserted
<1>2. QED
  BY <1>1, ShiftsStay DEF Ended

\* A step that keeps the calm keeps what it is worth.
LEMMA CalmKeepsBooking ==
    ASSUME CalmIInv, MCNext, calm'
    PROVE  CalmBooking'
<1>1. /\ calm /\ DeskIInv /\ [Next]_vars /\ CalmBooking
      /\ \A k \in Dispatch : Ended(k) => Ended(k)'
      /\ Cardinality(Creators') <= 1
      /\ IsFiniteSet(inflight')
  BY FiniteInflight DEF MCNext, CalmIInv
<1>2. \A u, w \in Creators' : u = w
  <2>1. IsFiniteSet(Creators')
    <3>1. Creators' \subseteq inflight'
      BY DEF Creators
    <3>2. QED
      BY <1>1, <3>1, FS_Subset
  <2>2. QED
    BY <1>1, <2>1, AtMostOne
<1>3. CASE \E w \in inflight, k \in Dispatch : InsertDispatch(w, k)
  <2>1. PICK w \in inflight, k \in Dispatch : InsertDispatch(w, k)
    BY <1>3
  <2>2. ~Exists(k) /\ w.op = "insert" /\ inflight' = inflight \ {w} /\ w \in Creators
    BY <2>1 DEF InsertDispatch, GoesOn, Creators
  <2>3. Creators' = {}
    BY <1>1, <2>2 DEF CalmBooking, Creators
  <2>4. /\ \A j \in Dispatch \ {k} : dispatch'[j] = dispatch[j]
        /\ dispatch'[k].vehicle = w.vehicle /\ dispatch'[k].driver = w.driver
        /\ dispatch'[k].slot = w.slot
    <3>1. TypeOK
      BY <1>1 DEF DeskIInv
    <3>2. /\ \A j \in Dispatch \ {k} : dispatch'[j] = dispatch[j]
          /\ dispatch'[k] = [status |-> "ASSIGNED", vehicle |-> w.vehicle,
                             driver |-> w.driver, slot |-> w.slot]
      BY <2>1, <3>1, InsertedRow
    <3>3. QED
      BY <3>2
  <2>5. \A j \in Dispatch : ~Overlaps(w, j)
    BY <1>1, <2>2 DEF CalmBooking
  <2>6. ASSUME NEW i \in Dispatch, NEW j \in Dispatch, Clash(i, j)' PROVE FALSE
    <3>1. CASE i # k /\ j # k
      BY <1>1, <2>4, <2>6, <3>1 DEF CalmBooking, NoDoubleBooking, Clash, Exists
    <3>2. CASE i = k
      BY <2>4, <2>5, <2>6, <3>2 DEF Overlaps, Clash, Exists
    <3>3. CASE j = k
      BY <2>4, <2>5, <2>6, <3>3 DEF Overlaps, Clash, Exists
    <3>4. QED
      BY <3>1, <3>2, <3>3
  <2>7. QED
    BY <1>2, <2>3, <2>6 DEF CalmBooking, NoDoubleBooking
<1>4. CASE ~\E w \in inflight, k \in Dispatch : InsertDispatch(w, k)
  <2>1. ASSUME NEW k \in Dispatch, Exists(k)', dispatch'[k].status \notin Closed
        PROVE  /\ Exists(k) /\ dispatch[k].status \notin Closed
               /\ dispatch'[k].vehicle = dispatch[k].vehicle
               /\ dispatch'[k].driver = dispatch[k].driver
               /\ dispatch'[k].slot = dispatch[k].slot
    BY <1>1, <1>4, <2>1, OpenShiftsWereOpen
  <2>2. ASSUME NEW i \in Dispatch, NEW j \in Dispatch, Clash(i, j)' PROVE Clash(i, j)
    BY <2>1, <2>2 DEF Clash
  <2>3. ASSUME NEW w, NEW k \in Dispatch, Overlaps(w, k)' PROVE Overlaps(w, k)
    BY <2>1, <2>3 DEF Overlaps
  <2>4. ASSUME NEW u \in Creators', u.op = "insert", NEW k \in Dispatch
        PROVE  ~Overlaps(u, k)
    <3>1. CASE u \in inflight
      BY <1>1, <2>4, <3>1 DEF CalmBooking, Creators
    <3>2. CASE u \notin inflight
      <4>1. u \in inflight'
        BY DEF Creators
      <4>2. PICK w \in inflight :
                w \in Creating /\ CheckOverlap(w) /\ u = [w EXCEPT !.op = "insert"]
        BY <1>1, <2>4, <3>2, <4>1, RequestMoves DEF Creating, ShiftOps
      <4>3. u.vehicle = w.vehicle /\ u.driver = w.driver /\ u.slot = w.slot
        BY <4>2 DEF Creating
      <4>4. QED
        BY <4>2, <4>3 DEF CheckOverlap, Overlaps
    <3>3. QED
      BY <3>1, <3>2
  <2>5. QED
    BY <1>1, <1>2, <2>2, <2>3, <2>4 DEF CalmBooking, NoDoubleBooking
<1>5. QED
  BY <1>3, <1>4

\* The overlap query is enough as long as shifts are created one at a time and closed
\* shifts stay closed.
THEOREM CalmDeskBooksOnce == MCSpec => []CalmMeansNoDoubleBooking
<1>1. MCInit => CalmIInv
  <2>1. Init => DeskIInv
    BY DEF Init, DeskIInv, TypeOK, ShiftsAreThere
  <2>2. QED
    BY <2>1, FS_EmptySet
       DEF MCInit, Init, CalmIInv, CalmBooking, Creators, NoDoubleBooking, Clash, Exists
<1>2. CalmIInv /\ [MCNext]_<<vars, calm>> => CalmIInv'
  <2> SUFFICES ASSUME CalmIInv, [MCNext]_<<vars, calm>> PROVE CalmIInv'
    OBVIOUS
  <2>1. CASE MCNext
    <3>1. DeskIInv /\ IsFiniteSet(inflight) /\ [Next]_vars
      BY <2>1 DEF MCNext, CalmIInv
    <3>2. DeskIInv'
      BY <3>1, DeskKeepsIInv
    <3>3. QED
      BY <2>1, <3>1, <3>2, FiniteInflight, CalmKeepsBooking DEF CalmIInv
  <2>2. CASE UNCHANGED <<vars, calm>>
    BY <2>2 DEF vars, CalmIInv, DeskIInv, TypeOK, ShiftsAreThere, Exists, CalmBooking,
                Creators, Overlaps, NoDoubleBooking, Clash
  <2>3. QED
    BY <2>1, <2>2
<1>3. CalmIInv => CalmMeansNoDoubleBooking
  BY DEF CalmIInv, CalmBooking, CalmMeansNoDoubleBooking
<1>4. QED
  BY <1>1, <1>2, <1>3, PTL DEF MCSpec

-----------------------------------------------------------------------------
\* No step of the desk writes complianceStatus.
LEMMA DeskLeavesCompliance ==
    ASSUME DeskNext
    PROVE  UNCHANGED compliance
BY DEF DeskNext, MasterData, Create, Shift, CreateVehicle, UpdateVehicle, RemoveVehicle,
       DismissDriver, CheckVehicle, CheckDriver, CheckOverlap, InsertDispatch, Drop, GoesOn,
       UpdateStatus, Admit, CheckStop, CheckStart, CheckComplete, CheckBreakdown,
       SetInProgress, CompleteShift, ReportBreakdown

\* Fleet implements the compliance office.
LEMMA FleetImplementsOffice == FleetSpec => Office!Spec
<1>1. FleetInit => Office!Init
  BY DEF FleetInit
<1>2. [FleetNext]_fleetVars => [Office!Next]_(Office!vars)
  BY DeskLeavesCompliance DEF FleetNext, fleetVars, deskVars, officeVars, Office!vars
<1>3. QED
  BY <1>1, <1>2, PTL DEF FleetSpec, Office!Spec

\* Nobody is grounded without cause, beside a busy desk.
THEOREM FleetGroundsForCause == FleetSpec => []GroundedForCause
<1>1. Office!GroundedForCause /\ Office!TurnsStayJustified => GroundedForCause
  BY DEF GroundedForCause
<1>2. QED
  BY <1>1, FleetImplementsOffice, NobodyGroundedWithoutCause, SnapshotStaysRight, PTL

\* A step of the office that flips is the step Ground of the desk's environment, and
\* any other leaves complianceStatus alone.
LEMMA OfficeOnlyGrounds ==
    ASSUME Office!TypeOK, Office!TurnsStayJustified, Office!Next, UNCHANGED deskVars
    PROVE  (\E e \in Vehicle \cup Driver : Ground(e)) \/ UNCHANGED compliance
<1>1. ASSUME NEW r \in Run, NEW x \in Doc, Office!FlipEntity(r, x)
      PROVE  \E e \in Vehicle \cup Driver : Ground(e)
  <2>1. doc[x] \in Office!Row
    BY <1>1 DEF Office!TypeOK, Office!TurnsStayJustified, Office!Exists, Office!FlipEntity
  <2>2. doc[x].entity \in Vehicle \cup Driver
    BY <2>1 DEF Office!Row
  <2>3. QED
    BY <1>1, <2>2 DEF Office!FlipEntity, Ground, deskVars
<1>2. ASSUME NEW r \in Run, Office!ExpiryStep(r)
      PROVE  (\E x \in Doc : Office!FlipEntity(r, x)) \/ UNCHANGED compliance
  BY <1>2 DEF Office!ExpiryStep, Office!ExpiryStart, Office!ExpiryScan, Office!MarkExpired,
              Office!TurnFails, Office!ExpiryComplete, Office!ExpiryThrow,
              Office!ExpiryFail, Office!ExpiryDie
<1>3. QED
  BY <1>1, <1>2 DEF Office!Next, Office!CreateDocument, Office!ExpiryDatePasses,
                    Office!RemoveDocument

\* Fleet implements the desk: what is checked of Dispatches with an environment that
\* grounds at will holds with the real expiry job in its place.
THEOREM FleetImplementsDesk == FleetSpec => ImplementsDesk
<1>1. FleetInit => Init
  BY DEF FleetInit
<1>2. Office!TypeOK /\ Office!TurnsStayJustified /\ [FleetNext]_fleetVars => [Next]_vars
  <2> SUFFICES ASSUME Office!TypeOK, Office!TurnsStayJustified, [FleetNext]_fleetVars
               PROVE  [Next]_vars
    OBVIOUS
  <2>1. CASE DeskNext
    BY <2>1 DEF Next
  <2>2. CASE Office!Next /\ UNCHANGED deskVars
    BY <2>2, OfficeOnlyGrounds DEF Next, vars, deskVars
  <2>3. CASE UNCHANGED fleetVars
    BY <2>3 DEF vars, deskVars, fleetVars
  <2>4. QED
    BY <2>1, <2>2, <2>3 DEF FleetNext
<1>3. QED
  BY <1>1, <1>2, FleetImplementsOffice, OfficeTypeCorrect, SnapshotStaysRight, PTL
     DEF FleetSpec, ImplementsDesk, Spec

\* The compliance guard drains, the grounding being the job's own.
THEOREM FleetGroundingDrains == FleetSpec => GroundingDrains
BY FleetImplementsDesk, DeskGroundingDrains DEF ImplementsDesk

-----------------------------------------------------------------------------
\* The element a sum takes first.
First(s) == CHOOSE x \in s : TRUE

\* h is the table of the sums of f over the subsets of T.
Sums(h, f, T) ==
    /\ h \in [SUBSET T -> Int]
    /\ \A s \in SUBSET T : h[s] = IF s = {} THEN 0 ELSE f[First(s)] + h[s \ {First(s)}]

\* What holds of a set of subsets if it holds of a set whenever it holds of the smaller ones.
LEMMA SetInduction ==
  ASSUME NEW S, IsFiniteSet(S), NEW G,
         \A T \in SUBSET S : (\A U \in SUBSET T : U # T => U \in G) => T \in G
  PROVE  \A T \in SUBSET S : T \in G
<1> SUFFICES ASSUME {T \in SUBSET S : T \notin G} # {} PROVE FALSE
  OBVIOUS
<1> DEFINE B == {T \in SUBSET S : T \notin G}
<1>1. IsWellFoundedOn(StrictSubsetOrdering(S), SUBSET S)
  <2>1. IsWellFoundedOn(StrictSubsetOrdering(S), FiniteSubsetsOf(S))
    BY FS_StrictSubsetOrderingWellFounded
  <2>2. FiniteSubsetsOf(S) = SUBSET S
    BY FS_FiniteSubsetsOfFinite
  <2> QED
    BY <2>1, <2>2
<1>2. PICK T \in B : \A U \in B : ~(<<U, T>> \in StrictSubsetOrdering(S))
  <2>1. B \subseteq SUBSET S /\ B # {}
    OBVIOUS
  <2> HIDE DEF B
  <2> QED
    BY <1>1, <2>1, WFMin
<1>3. \A U \in SUBSET T : U # T => U \in G
  BY <1>2 DEF StrictSubsetOrdering
<1> QED
  BY <1>2, <1>3

\* Two tables agree where both are defined.
LEMMA SumsAgree ==
  ASSUME NEW f, NEW S, IsFiniteSet(S), NEW T1 \in SUBSET S, NEW T2 \in SUBSET S,
         NEW h1, NEW h2, Sums(h1, f, T1), Sums(h2, f, T2)
  PROVE  \A s \in SUBSET (T1 \cap T2) : h1[s] = h2[s]
<1> DEFINE G == {s \in SUBSET S : s \subseteq T1 \cap T2 => h1[s] = h2[s]}
<1>1. ASSUME NEW T \in SUBSET S, \A U \in SUBSET T : U # T => U \in G
      PROVE  T \in G
  <2> SUFFICES ASSUME T \subseteq T1 \cap T2 PROVE h1[T] = h2[T]
    OBVIOUS
  <2>1. CASE T = {}
    BY <2>1 DEF Sums
  <2>2. CASE T # {}
    <3>1. First(T) \in T
      BY <2>2 DEF First
    <3>2. h1[T \ {First(T)}] = h2[T \ {First(T)}]
      BY <1>1, <3>1
    <3>3. T \in SUBSET T1 /\ T \in SUBSET T2
      OBVIOUS
    <3> QED
      BY <2>2, <3>2, <3>3 DEF Sums
  <2> QED
    BY <2>1, <2>2
<1>2. \A T \in SUBSET S : T \in G
  <2> HIDE DEF G
  <2> QED
    BY <1>1, SetInduction
<1> QED
  BY <1>2

\* There is such a table for the subsets of a finite set.
LEMMA SumsExist ==
  ASSUME NEW S, IsFiniteSet(S), NEW f \in [S -> Int]
  PROVE  \E h : Sums(h, f, S)
<1> DEFINE G == {T \in SUBSET S : \E h : Sums(h, f, T)}
<1>1. ASSUME NEW T \in SUBSET S, \A U \in SUBSET T : U # T => U \in G
      PROVE  T \in G
  <2> DEFINE Of(U) == CHOOSE h : Sums(h, f, U)
             Below(s) == IF s = {} THEN 0 ELSE f[First(s)] + Of(s \ {First(s)})[s \ {First(s)}]
             h == [s \in SUBSET T |-> Below(s)]
  <2>1. \A U \in SUBSET T : U # T => Sums(Of(U), f, U)
    BY <1>1
  <2>2. \A s \in SUBSET T : s # {} =>
           /\ First(s) \in s /\ s \ {First(s)} \in SUBSET T /\ s \ {First(s)} # T
           /\ f[First(s)] \in Int
    BY DEF First
  <2>3. \A s \in SUBSET T : Below(s) \in Int
    <3> HIDE DEF Of
    <3> TAKE s \in SUBSET T
    <3> DEFINE u == s \ {First(s)}
    <3>1. CASE s = {}
      BY <3>1
    <3>2. CASE s # {}
      <4>1. Sums(Of(u), f, u) /\ f[First(s)] \in Int
        BY <2>1, <2>2, <3>2
      <4>2. Of(u)[u] \in Int
        BY <4>1 DEF Sums
      <4> QED
        BY <3>2, <4>1, <4>2
    <3> QED
      BY <3>1, <3>2
  <2>4. h \in [SUBSET T -> Int]
    BY <2>3
  <2>5. ASSUME NEW s \in SUBSET T, s # {}
        PROVE  h[s \ {First(s)}] = Of(s \ {First(s)})[s \ {First(s)}]
    <3> DEFINE u == s \ {First(s)}
    <3>1. u \in SUBSET T /\ u # T /\ h[u] = Below(u)
      BY <2>2, <2>5
    <3>2. Sums(Of(u), f, u)
      BY <2>1, <3>1
    <3>3. CASE u = {}
      BY <3>1, <3>2, <3>3 DEF Sums
    <3>4. CASE u # {}
      <4> DEFINE v == u \ {First(u)}
      <4>1. First(u) \in u /\ v \in SUBSET T /\ v # T
        BY <2>2, <3>1, <3>4
      <4>2. Sums(Of(v), f, v)
        BY <2>1, <4>1
      <4>3. Of(u)[u] = f[First(u)] + Of(u)[v]
        BY <3>2, <3>4 DEF Sums
      <4>4. Of(u)[v] = Of(v)[v]
        <5>1. u \in SUBSET S /\ v \in SUBSET S /\ v \in SUBSET (u \cap v)
          BY <3>1, <4>1
        <5> HIDE DEF Of, u, v
        <5> QED
          BY <3>2, <4>2, <5>1, SumsAgree
      <4>5. h[u] = f[First(u)] + Of(v)[v]
        BY <3>1, <3>4
      <4> QED
        BY <4>3, <4>4, <4>5
    <3> QED
      BY <3>3, <3>4
  <2>6. Sums(h, f, T)
    <3>1. ASSUME NEW s \in SUBSET T
          PROVE  h[s] = IF s = {} THEN 0 ELSE f[First(s)] + h[s \ {First(s)}]
      <4>1. h[s] = Below(s)
        OBVIOUS
      <4> HIDE DEF h, Of
      <4> QED
        BY <4>1, <2>5
    <3> HIDE DEF h
    <3> QED
      BY <2>4, <3>1 DEF Sums
  <2> QED
    BY <2>6
<1>2. \A T \in SUBSET S : T \in G
  <2> HIDE DEF G
  <2> QED
    BY <1>1, SetInduction
<1> QED
  BY <1>2

\* A sum over a finite set, step by step in the order of First.
LEMMA SumUnfolds ==
  ASSUME NEW S, IsFiniteSet(S), NEW f \in [S -> Int]
  PROVE  \A T \in SUBSET S :
            /\ SumFunctionOnSet(f, T) \in Int
            /\ SumFunctionOnSet(f, T) =
                  IF T = {} THEN 0 ELSE f[First(T)] + SumFunctionOnSet(f, T \ {First(T)})
<1> DEFINE Table(T) == CHOOSE h : h = [s \in SUBSET T |-> IF s = {} THEN 0
                                                        ELSE f[First(s)] + h[s \ {First(s)}]]
<1>1. \A T : SumFunctionOnSet(f, T) = Table(T)[T]
  BY DEF SumFunctionOnSet, FoldFunctionOnSet, MapThenFoldSet, First
<1>2. ASSUME NEW T \in SUBSET S PROVE Sums(Table(T), f, T)
  <2>1. IsFiniteSet(T)
    BY FS_Subset
  <2> DEFINE g == [x \in T |-> f[x]]
  <2>2. PICK h : Sums(h, g, T)
    <3>1. g \in [T -> Int]
      OBVIOUS
    <3> HIDE DEF g
    <3> QED
      BY <2>1, <3>1, SumsExist
  <2>3. Sums(h, f, T)
    BY <2>2 DEF Sums, First
  <2>4. h = [s \in SUBSET T |-> IF s = {} THEN 0 ELSE f[First(s)] + h[s \ {First(s)}]]
    BY <2>3 DEF Sums
  <2>5. Table(T) = [s \in SUBSET T |-> IF s = {} THEN 0
                                       ELSE f[First(s)] + Table(T)[s \ {First(s)}]]
    BY <2>4
  <2> HIDE DEF Table
  <2>6. \A s \in SUBSET T : Table(T)[s] \in Int
    <3> DEFINE G == {s \in SUBSET T : Table(T)[s] \in Int}
    <3>1. ASSUME NEW s \in SUBSET T, \A U \in SUBSET s : U # s => U \in G
          PROVE  s \in G
      <4>1. CASE s = {}
        BY <2>5, <4>1
      <4>2. CASE s # {}
        <5>1. First(s) \in s
          BY <4>2 DEF First
        <5>2. Table(T)[s \ {First(s)}] \in Int /\ f[First(s)] \in Int
          BY <3>1, <5>1
        <5>3. Table(T)[s] = f[First(s)] + Table(T)[s \ {First(s)}]
          BY <2>5, <4>2
        <5> QED
          BY <5>2, <5>3
      <4> QED
        BY <4>1, <4>2
    <3>2. \A s \in SUBSET T : s \in G
      <4> HIDE DEF G
      <4> QED
        BY <2>1, <3>1, SetInduction
    <3> QED
      BY <3>2
  <2> QED
    BY <2>5, <2>6 DEF Sums
<1>3. ASSUME NEW T \in SUBSET S
      PROVE  /\ SumFunctionOnSet(f, T) \in Int
             /\ SumFunctionOnSet(f, T) =
                   IF T = {} THEN 0 ELSE f[First(T)] + SumFunctionOnSet(f, T \ {First(T)})
  <2> HIDE DEF Table
  <2>1. Table(T)[T] \in Int
    BY <1>2 DEF Sums
  <2>2. CASE T = {}
    BY <1>1, <1>2, <2>1, <2>2 DEF Sums
  <2>3. CASE T # {}
    <3> DEFINE U == T \ {First(T)}
    <3>1. U \in SUBSET S /\ U \in SUBSET T /\ U \in SUBSET (T \cap U)
      OBVIOUS
    <3>2. Table(T)[T] = f[First(T)] + Table(T)[U]
      BY <1>2, <2>3 DEF Sums
    <3>3. Sums(Table(T), f, T) /\ Sums(Table(U), f, U)
      BY <1>2, <3>1
    <3> HIDE DEF U
    <3>4. Table(T)[U] = Table(U)[U]
      <4>1. \A s \in SUBSET (T \cap U) : Table(T)[s] = Table(U)[s]
        BY <3>1, <3>3, SumsAgree
      <4> QED
        BY <3>1, <4>1
    <3>5. SumFunctionOnSet(f, T) = f[First(T)] + SumFunctionOnSet(f, U)
      <4>1. SumFunctionOnSet(f, T) = Table(T)[T] /\ SumFunctionOnSet(f, U) = Table(U)[U]
        BY <1>1
      <4> QED
        BY <3>2, <3>4, <4>1
    <3>6. SumFunctionOnSet(f, T) \in Int
      BY <1>1, <2>1
    <3> QED
      BY <2>3, <3>5, <3>6 DEF U
  <2> QED
    BY <2>2, <2>3
<1> QED
  BY <1>3

\* Whichever element is taken first.
LEMMA SumTakes ==
  ASSUME NEW S, IsFiniteSet(S), NEW f \in [S -> Int]
  PROVE  \A T \in SUBSET S : \A x \in T :
            SumFunctionOnSet(f, T) = f[x] + SumFunctionOnSet(f, T \ {x})
<1> DEFINE G == {T \in SUBSET S : \A x \in T :
                    SumFunctionOnSet(f, T) = f[x] + SumFunctionOnSet(f, T \ {x})}
<1>1. ASSUME NEW T \in SUBSET S, \A U \in SUBSET T : U # T => U \in G
      PROVE  T \in G
  <2> SUFFICES ASSUME NEW x \in T
               PROVE  SumFunctionOnSet(f, T) = f[x] + SumFunctionOnSet(f, T \ {x})
    OBVIOUS
  <2> DEFINE c == First(T)
             Total(U) == SumFunctionOnSet(f, U)
  <2>1. c \in T
    BY DEF First
  <2>2. Total(T) = f[c] + Total(T \ {c})
    BY <2>1, SumUnfolds
  <2>3. CASE x = c
    BY <2>2, <2>3
  <2>4. CASE x # c
    <3>1. T \ {c} \in G /\ T \ {x} \in G
      BY <1>1, <2>1
    <3>2. x \in T \ {c} /\ c \in T \ {x}
      BY <2>1, <2>4
    <3>3. Total(T \ {c}) = f[x] + Total((T \ {c}) \ {x})
      BY <3>1, <3>2
    <3>4. Total(T \ {x}) = f[c] + Total((T \ {x}) \ {c})
      BY <3>1, <3>2
    <3>5. (T \ {c}) \ {x} = (T \ {x}) \ {c}
      OBVIOUS
    <3> DEFINE rest == Total((T \ {x}) \ {c})
    <3>6. f[x] \in Int /\ f[c] \in Int /\ rest \in Int
      BY <2>1, SumUnfolds
    <3>7. Total(T \ {c}) = f[x] + rest /\ Total(T \ {x}) = f[c] + rest
      BY <3>3, <3>4, <3>5
    <3> HIDE DEF Total, c, rest
    <3>8. Total(T) = f[x] + Total(T \ {x})
      BY <2>2, <3>6, <3>7
    <3> QED
      BY <3>8 DEF Total
  <2> QED
    BY <2>3, <2>4
<1>2. \A T \in SUBSET S : T \in G
  <2> HIDE DEF G
  <2> QED
    BY <1>1, SetInduction
<1> QED
  BY <1>2

\* The sum over two sets that have no element in common.
LEMMA SumSplits ==
  ASSUME NEW S, IsFiniteSet(S), NEW f \in [S -> Int], NEW A \in SUBSET S
  PROVE  \A B \in SUBSET (S \ A) :
            SumFunctionOnSet(f, A \cup B) = SumFunctionOnSet(f, A) + SumFunctionOnSet(f, B)
<1> DEFINE Total(U) == SumFunctionOnSet(f, U)
           R == S \ A
           G == {B \in SUBSET R : Total(A \cup B) = Total(A) + Total(B)}
<1>1. ASSUME NEW B \in SUBSET R, \A U \in SUBSET B : U # B => U \in G
      PROVE  B \in G
  <2>1. CASE B = {}
    <3>1. B \in SUBSET S /\ A \cup B = A
      BY <2>1
    <3>2. Total(B) = 0 /\ Total(A) \in Int
      BY <2>1, <3>1, SumUnfolds
    <3> QED
      BY <3>1, <3>2
  <2>2. CASE B # {}
    <3>1. PICK x : x \in B
      BY <2>2
    <3> DEFINE U == B \ {x}
    <3>2. Total(A \cup U) = Total(A) + Total(U)
      BY <1>1, <3>1
    <3>3. Total(B) = f[x] + Total(U)
      BY <3>1, SumTakes
    <3>4. Total(A \cup B) = f[x] + Total((A \cup B) \ {x})
      BY <3>1, SumTakes
    <3>5. Total((A \cup B) \ {x}) = Total(A \cup U)
      <4>1. (A \cup B) \ {x} = A \cup U
        BY <3>1
      <4> QED
        BY <4>1
    <3>6. f[x] \in Int /\ Total(A) \in Int /\ Total(U) \in Int
      BY <3>1, SumUnfolds
    <3> HIDE DEF Total, U
    <3>7. Total(A \cup B) = Total(A) + Total(B)
      BY <3>2, <3>3, <3>4, <3>5, <3>6
    <3> QED
      BY <3>7
  <2> QED
    BY <2>1, <2>2
<1>2. \A B \in SUBSET R : B \in G
  <2>1. IsFiniteSet(R)
    BY FS_Subset
  <2> HIDE DEF G, R
  <2> QED
    BY <1>1, <2>1, SetInduction
<1> QED
  BY <1>2

\* A sum that is negative has a negative term.
LEMMA SumOfNaturals ==
  ASSUME NEW S, IsFiniteSet(S), NEW f \in [S -> Int]
  PROVE  \A T \in SUBSET S : (\A x \in T : f[x] >= 0) => SumFunctionOnSet(f, T) >= 0
<1> DEFINE G == {T \in SUBSET S : (\A x \in T : f[x] >= 0) => SumFunctionOnSet(f, T) >= 0}
<1>1. ASSUME NEW T \in SUBSET S, \A U \in SUBSET T : U # T => U \in G
      PROVE  T \in G
  <2> SUFFICES ASSUME \A x \in T : f[x] >= 0 PROVE SumFunctionOnSet(f, T) >= 0
    OBVIOUS
  <2>1. CASE T = {}
    <3>1. SumFunctionOnSet(f, T) = 0
      BY <2>1, SumUnfolds
    <3> QED
      BY <3>1
  <2>2. CASE T # {}
    <3>1. PICK x : x \in T
      BY <2>2
    <3>2. SumFunctionOnSet(f, T \ {x}) >= 0
      BY <1>1, <3>1
    <3>3. SumFunctionOnSet(f, T) = f[x] + SumFunctionOnSet(f, T \ {x})
      BY <3>1, SumTakes
    <3>4. f[x] \in Int /\ f[x] >= 0 /\ SumFunctionOnSet(f, T \ {x}) \in Int
      BY <3>1, SumUnfolds
    <3> QED
      BY <3>2, <3>3, <3>4
  <2> QED
    BY <2>1, <2>2
<1>2. \A T \in SUBSET S : T \in G
  <2> HIDE DEF G
  <2> QED
    BY <1>1, SetInduction
<1> QED
  BY <1>2

\* The sum over groups, group by group.
LEMMA SumRegroups ==
  ASSUME NEW S, IsFiniteSet(S), NEW f \in [S -> Int],
         NEW K, IsFiniteSet(K), NEW P \in [K -> SUBSET S],
         \A j, k \in K : j # k => P[j] \cap P[k] = {},
         NEW g, g = [k \in K |-> SumFunctionOnSet(f, P[k])]
  PROVE  \A J \in SUBSET K :
            SumFunctionOnSet(g, J) = SumFunctionOnSet(f, UNION {P[k] : k \in J})
<1> DEFINE Group(J) == UNION {P[k] : k \in J}
           G == {J \in SUBSET K : SumFunctionOnSet(g, J) = SumFunctionOnSet(f, Group(J))}
<1>1. g \in [K -> Int]
  BY SumUnfolds
<1>2. ASSUME NEW J \in SUBSET K, \A U \in SUBSET J : U # J => U \in G
      PROVE  J \in G
  <2>1. CASE J = {}
    <3>1. Group(J) = {}
      BY <2>1
    <3>2. SumFunctionOnSet(g, J) = 0
      BY <1>1, <2>1, SumUnfolds
    <3>3. SumFunctionOnSet(f, Group(J)) = 0
      BY <3>1, SumUnfolds
    <3> QED
      BY <3>2, <3>3
  <2>2. CASE J # {}
    <3>1. PICK x : x \in J
      BY <2>2
    <3> DEFINE U == J \ {x}
    <3>2. SumFunctionOnSet(g, U) = SumFunctionOnSet(f, Group(U))
      BY <1>2, <3>1
    <3>3. SumFunctionOnSet(g, J) = SumFunctionOnSet(f, P[x]) + SumFunctionOnSet(g, U)
      BY <1>1, <3>1, SumTakes
    <3>4. /\ Group(J) = P[x] \cup Group(U) /\ Group(U) \in SUBSET (S \ P[x])
          /\ P[x] \in SUBSET S
      BY <3>1
    <3>5. SumFunctionOnSet(f, Group(J))
            = SumFunctionOnSet(f, P[x]) + SumFunctionOnSet(f, Group(U))
      BY <3>4, SumSplits
    <3> QED
      BY <3>2, <3>3, <3>5
  <2> QED
    BY <2>1, <2>2
<1>3. \A J \in SUBSET K : J \in G
  <2> HIDE DEF G
  <2> QED
    BY <1>2, SetInduction
<1> QED
  BY <1>3

\* To count is to sum up ones.
LEMMA CountIsSum ==
  ASSUME NEW S, IsFiniteSet(S)
  PROVE  \A T \in SUBSET S : SumFunctionOnSet([x \in S |-> 1], T) = Cardinality(T)
<1> DEFINE f == [x \in S |-> 1]
           G == {T \in SUBSET S : SumFunctionOnSet(f, T) = Cardinality(T)}
<1>1. f \in [S -> Int]
  OBVIOUS
<1>2. ASSUME NEW T \in SUBSET S, \A U \in SUBSET T : U # T => U \in G
      PROVE  T \in G
  <2>1. CASE T = {}
    BY <1>1, <2>1, SumUnfolds, FS_EmptySet
  <2>2. CASE T # {}
    <3>1. PICK x : x \in T
      BY <2>2
    <3>2. SumFunctionOnSet(f, T \ {x}) = Cardinality(T \ {x})
      BY <1>2, <3>1
    <3>3. SumFunctionOnSet(f, T) = 1 + SumFunctionOnSet(f, T \ {x})
      BY <1>1, <3>1, SumTakes
    <3>4. IsFiniteSet(T)
      BY FS_Subset
    <3>5. Cardinality(T \ {x}) = Cardinality(T) - 1 /\ Cardinality(T) \in Nat
      BY <3>1, <3>4, FS_RemoveElement, FS_CardinalityType
    <3>6. SumFunctionOnSet(f, T) = Cardinality(T)
      BY <3>2, <3>3, <3>5
    <3> QED
      BY <3>6
  <2> QED
    BY <2>1, <2>2
<1>3. \A T \in SUBSET S : T \in G
  <2> HIDE DEF G
  <2> QED
    BY <1>2, SetInduction
<1> QED
  BY <1>3

-----------------------------------------------------------------------------
\* A report's answer counts a complaint once, and a settled one among the resolved.
GoodAnswer(m) == m.settled <= m.resolved /\ m.breaches <= m.resolved

\* Every settled row has its time.
Timed(rows) == \A c \in Rows(rows) : rows[c].settled => rows[c].took # None

\* What is right of a request between two awaits: a summary not disturbed holds what the
\* counts would answer now, complaints were read in order, an answer adds up.
Sound(p) ==
    /\ p \in Dashboard \cup Sla \cup Store
    /\ p \in Dashboard /\ p.calm =>
          /\ \A part \in Part : p.got[part] # None => p.got[part] = Count(part)
          /\ p.groups # None => p.groups = CategoryGroup
    /\ p \in Sla => Timed(p.rows)
    /\ p \in Store => GoodAnswer(p.answer)

\* No invoice is called OVERDUE before its dueDate (OverdueIsLate of Invoices).
OverdueIsPast == \A i \in Rows(invoice) : invoice[i].status = "OVERDUE" => invoice[i].late >= 0

ReportsIInv ==
    /\ DeskIInv /\ ReportsTypeOK
    /\ \A p \in reading : Sound(p)
    /\ cache # None => GoodAnswer(cache)
    /\ Timed(complaint) /\ OverdueIsPast

counted == <<waste, vehicle, employed, compliance>>

\* The kinds of requests are told apart by op.
LEMMA KindsOfReading ==
    ASSUME NEW p \in Dashboard \cup Sla \cup Store
    PROVE  /\ IsDashboard(p) <=> p \in Dashboard
           /\ p.op = "sla" <=> p \in Sla
           /\ p.op = "store" <=> p \in Store
BY DEF Dashboard, Sla, Store, IsDashboard

\* The counts are functions of the tables they count.
LEMMA CountsStay ==
    ASSUME UNCHANGED counted
    PROVE  CategoryGroup' = CategoryGroup /\ \A part : Count(part)' = Count(part)
<1>1. waste' = waste /\ vehicle' = vehicle /\ employed' = employed /\ compliance' = compliance
  BY DEF counted
<1>2. \A table : Rows(table)' = Rows(table)
  BY DEF Rows
<1>3. \A xs : WeightOf(xs)' = WeightOf(xs)
  BY <1>1 DEF WeightOf, Rows
<1>4. \A k : OfKind(k)' = OfKind(k)
  BY <1>1 DEF OfKind, Rows
<1>5. \A es, s : Graded(es, s)' = Graded(es, s)
  BY <1>1 DEF Graded
<1>6. Trucks' = Trucks
  BY <1>1 DEF Trucks, InUse
<1>7. CategoryGroup' = CategoryGroup
  BY <1>3, <1>4 DEF CategoryGroup
<1>8. ASSUME NEW part PROVE Count(part)' = Count(part)
  BY <1>1, <1>3, <1>5, <1>6 DEF Count, Rows
<1> QED
  BY <1>7, <1>8

LEMMA SoundStays ==
    ASSUME UNCHANGED counted, NEW p, Sound(p)
    PROVE  Sound(p)'
BY CountsStay DEF Sound

\* Once disturbed, a summary promises nothing.
LEMMA DisturbedIsSound ==
    ASSUME \A p \in reading : Sound(p), reading' = Disturbed
    PROVE  \A p \in reading' : Sound(p)'
<1> SUFFICES ASSUME NEW p \in reading, NEW u,
                    u = IF IsDashboard(p) THEN [p EXCEPT !.calm = FALSE] ELSE p
             PROVE  Sound(u)'
  BY DEF Disturbed
<1>1. p \in Dashboard \cup Sla \cup Store /\ Sound(p)
  BY DEF Sound
<1>2. CASE IsDashboard(p)
  <2>1. p \in Dashboard
    BY <1>1, <1>2, KindsOfReading
  <2>2. u \in Dashboard /\ ~u.calm
    BY <1>2, <2>1 DEF Dashboard
  <2>3. u \notin Sla /\ u \notin Store
    BY <2>2 DEF Dashboard, Sla, Store
  <2> QED
    BY <2>2, <2>3 DEF Sound
<1>3. CASE ~IsDashboard(p)
  <2>1. u = p /\ p \notin Dashboard
    BY <1>1, <1>3, KindsOfReading
  <2> QED
    BY <1>1, <2>1 DEF Sound
<1> QED
  BY <1>2, <1>3

\* What the collections weigh.
LEMMA WeightsAreNaturals ==
    ASSUME ReportsTypeOK
    PROVE  /\ IsFiniteSet(Rows(waste)) /\ Rows(waste) \subseteq Collection
           /\ [x \in Rows(waste) |-> waste[x].kg] \in [Rows(waste) -> Int]
           /\ \A xs \in SUBSET Rows(waste) : WeightOf(xs) \in Nat
<1> DEFINE weigh == [x \in Rows(waste) |-> waste[x].kg]
<1>1. Rows(waste) \subseteq Collection
  BY DEF ReportsTypeOK, Rows
<1>2. IsFiniteSet(Rows(waste))
  BY <1>1, FS_Subset, ReportsAssumption
<1>3. \A x \in Rows(waste) : waste[x].kg \in Nat
  BY <1>1, ReportsAssumption DEF ReportsTypeOK, Rows, WasteRow
<1>4. weigh \in [Rows(waste) -> Int] /\ \A x \in Rows(waste) : weigh[x] >= 0
  BY <1>3
<1>5. ASSUME NEW xs \in SUBSET Rows(waste) PROVE WeightOf(xs) \in Nat
  <2>1. WeightOf(xs) = SumFunctionOnSet(weigh, xs)
    BY DEF WeightOf
  <2> HIDE DEF weigh
  <2>2. SumFunctionOnSet(weigh, xs) \in Int
    BY <1>2, <1>4, SumUnfolds
  <2>3. SumFunctionOnSet(weigh, xs) >= 0
    BY <1>2, <1>4, SumOfNaturals
  <2> QED
    BY <2>1, <2>2, <2>3
<1> QED
  BY <1>1, <1>2, <1>4, <1>5

\* Every count answers a number.
LEMMA CountsAreNumbers ==
    ASSUME ReportsTypeOK
    PROVE  /\ \A part \in Part : Count(part) \in Nat
           /\ CategoryGroup \in [Kind -> [count : Nat, kg : Nat]]
<1>1. \A s, t : IsFiniteSet(t) /\ s \subseteq t => Cardinality(s) \in Nat
  BY FS_Subset, FS_CardinalityType
<1>2. /\ IsFiniteSet(Collection) /\ IsFiniteSet(Vehicle) /\ IsFiniteSet(Driver)
      /\ employed \subseteq Driver /\ Rows(waste) \subseteq Collection
  BY ReportsAssumption, WeightsAreNaturals DEF ReportsTypeOK, TypeOK
<1>3. \A s : Graded(Trucks, s) \subseteq Vehicle /\ Graded(employed, s) \subseteq Driver
  BY <1>2 DEF Graded, Trucks
<1>4. Trucks \subseteq Vehicle /\ \A k : OfKind(k) \subseteq Rows(waste)
  BY DEF Trucks, OfKind
<1>5. ASSUME NEW part \in Part PROVE Count(part) \in Nat
  <2>1. Cardinality(Rows(waste)) \in Nat /\ WeightOf(Rows(waste)) \in Nat
    BY <1>1, <1>2, WeightsAreNaturals
  <2>2. Cardinality(Trucks) \in Nat /\ Cardinality(employed) \in Nat
    BY <1>1, <1>2, <1>4
  <2>3. \A s : /\ Cardinality(Graded(Trucks, s)) \in Nat
               /\ Cardinality(Graded(employed, s)) \in Nat
    BY <1>1, <1>2, <1>3
  <2> QED
    BY <2>1, <2>2, <2>3 DEF Count, Part
<1>6. ASSUME NEW k \in Kind PROVE Cardinality(OfKind(k)) \in Nat /\ WeightOf(OfKind(k)) \in Nat
  <2>1. OfKind(k) \subseteq Collection
    BY <1>2, <1>4
  <2> QED
    BY <1>1, <1>2, <1>4, <2>1, WeightsAreNaturals
<1> QED
  BY <1>5, <1>6 DEF CategoryGroup

\* A step of the reports alone.
LEMMA ReadKeepsIInv ==
    ASSUME ReportsIInv, UNCHANGED <<vars, tables>>,
           \A p \in reading' : p \in reading \/ Sound(p),
           cache' \in Answer \cup {None}, cache' # None => GoodAnswer(cache')
    PROVE  ReportsIInv'
<1>1. DeskIInv'
  BY DeskKeepsIInv DEF ReportsIInv
<1>2. \A p \in reading' : Sound(p)'
  <2>1. UNCHANGED counted
    BY DEF counted, vars, tables
  <2> QED
    BY <2>1, SoundStays DEF ReportsIInv
<1>3. ReportsTypeOK'
  BY <1>1, <1>2 DEF DeskIInv, ReportsIInv, ReportsTypeOK, tables, Sound
<1>4. Timed(complaint)' /\ OverdueIsPast'
  BY DEF ReportsIInv, Timed, OverdueIsPast, Rows, tables
<1> QED
  BY <1>1, <1>2, <1>3, <1>4 DEF ReportsIInv, GoodAnswer

\* A write to a table that the dashboard does not count.
LEMMA WriteKeepsIInv ==
    ASSUME ReportsIInv, UNCHANGED <<vars, waste, cache, reading>>,
           tariff' \in [Kind -> TariffRow \cup {None}],
           complaint' \in [Complaint -> ComplaintRow \cup {None}], Timed(complaint'),
           settings' \in Thresholds \cup {None},
           invoice' \in [Invoice -> InvoiceRow \cup {None}], OverdueIsPast'
    PROVE  ReportsIInv'
<1>1. DeskIInv'
  BY DeskKeepsIInv DEF ReportsIInv
<1>2. \A p \in reading' : Sound(p)'
  <2>1. UNCHANGED counted
    BY DEF counted, vars
  <2> QED
    BY <2>1, SoundStays DEF ReportsIInv
<1>3. ReportsTypeOK'
  BY <1>1 DEF DeskIInv, ReportsIInv, ReportsTypeOK
<1> QED
  BY <1>1, <1>2, <1>3 DEF ReportsIInv, GoodAnswer, Timed, Rows

\* A step of the desk, the telephone, the master data or the office.
LEMMA FleetMovesKeepIInv ==
    ASSUME ReportsIInv, FleetMoves
    PROVE  ReportsIInv'
<1>1. DeskIInv'
  BY DeskKeepsIInv DEF ReportsIInv, FleetMoves
<1>2. \A p \in reading' : Sound(p)'
  <2>1. CASE UNCHANGED <<vehicle, employed, compliance>>
    <3>1. UNCHANGED counted /\ reading' = reading
      BY <2>1 DEF counted, tables, FleetMoves
    <3> QED
      BY <3>1, SoundStays DEF ReportsIInv
  <2>2. CASE ~UNCHANGED <<vehicle, employed, compliance>>
    <3>1. reading' = Disturbed
      BY <2>2 DEF FleetMoves
    <3> QED
      BY <3>1, DisturbedIsSound DEF ReportsIInv
  <2> QED
    BY <2>1, <2>2
<1>3. ReportsTypeOK'
  BY <1>1, <1>2 DEF DeskIInv, ReportsIInv, ReportsTypeOK, FleetMoves, tables, Sound
<1>4. Timed(complaint)' /\ OverdueIsPast'
  BY DEF ReportsIInv, Timed, OverdueIsPast, Rows, FleetMoves, tables
<1> QED
  BY <1>1, <1>2, <1>3, <1>4 DEF ReportsIInv, GoodAnswer, FleetMoves

\* A collection is written: every summary in progress is disturbed.
LEMMA CollectionKeepsIInv ==
    ASSUME ReportsIInv, NEW x \in Collection, WriteCollection(x)
    PROVE  ReportsIInv'
<1>1. DeskIInv'
  BY DeskKeepsIInv DEF ReportsIInv, WriteCollection
<1>2. \A p \in reading' : Sound(p)'
  BY DisturbedIsSound DEF ReportsIInv, WriteCollection
<1>3. waste' \in [Collection -> WasteRow \cup {None}]
  BY DEF ReportsIInv, ReportsTypeOK, WriteCollection
<1>4. ReportsTypeOK'
  BY <1>1, <1>2, <1>3 DEF DeskIInv, ReportsIInv, ReportsTypeOK, WriteCollection, Sound
<1>5. Timed(complaint)' /\ OverdueIsPast'
  BY DEF ReportsIInv, Timed, OverdueIsPast, Rows, WriteCollection
<1> QED
  BY <1>1, <1>2, <1>4, <1>5 DEF ReportsIInv, GoodAnswer, WriteCollection

\* A tariff, the site's thresholds, or an invoice is written.
LEMMA OfficeWritesKeepIInv ==
    ASSUME ReportsIInv,
           \/ \E k \in Kind : WriteTariff(k)
           \/ UpdateSettings \/ ResetSettings
           \/ \E i \in Invoice : WriteInvoice(i)
    PROVE  ReportsIInv'
<1>1. ASSUME NEW k \in Kind, WriteTariff(k) PROVE ReportsIInv'
  <2>1. tariff' \in [Kind -> TariffRow \cup {None}]
    BY <1>1 DEF ReportsIInv, ReportsTypeOK, WriteTariff
  <2> QED
    BY <1>1, <2>1, WriteKeepsIInv
       DEF ReportsIInv, ReportsTypeOK, WriteTariff, OverdueIsPast, Rows
<1>2. ASSUME UpdateSettings PROVE ReportsIInv'
  <2>1. settings' \in Thresholds
    BY <1>2, ReportsAssumption
       DEF ReportsIInv, ReportsTypeOK, UpdateSettings, InForce, Default, Thresholds
  <2> QED
    BY <1>2, <2>1, WriteKeepsIInv
       DEF ReportsIInv, ReportsTypeOK, UpdateSettings, OverdueIsPast, Rows
<1>3. ASSUME ResetSettings PROVE ReportsIInv'
  BY <1>3, WriteKeepsIInv
     DEF ReportsIInv, ReportsTypeOK, ResetSettings, OverdueIsPast, Rows
<1>4. ASSUME NEW i \in Invoice, WriteInvoice(i) PROVE ReportsIInv'
  <2>1. PICK row \in InvoiceRow \cup {None} :
           /\ row # None => (row.status = "OVERDUE" => row.late >= 0)
           /\ invoice' = [invoice EXCEPT ![i] = row]
    BY <1>4 DEF WriteInvoice
  <2>2. invoice' \in [Invoice -> InvoiceRow \cup {None}]
    BY <2>1 DEF ReportsIInv, ReportsTypeOK
  <2>3. OverdueIsPast'
    BY <2>1 DEF ReportsIInv, ReportsTypeOK, OverdueIsPast, Rows
  <2> QED
    BY <1>4, <2>2, <2>3, WriteKeepsIInv
       DEF ReportsIInv, ReportsTypeOK, WriteInvoice
<1> QED
  BY <1>1, <1>2, <1>3, <1>4

\* A complaint is filed, ages or is updated: settling takes its time.
LEMMA ComplaintWritesKeepIInv ==
    ASSUME ReportsIInv, NEW c \in Complaint,
           FileComplaint(c) \/ ComplaintAges(c) \/ UpdateComplaint(c)
    PROVE  ReportsIInv'
<1>1. PICK row \in ComplaintRow : /\ complaint' = [complaint EXCEPT ![c] = row]
                                  /\ row.settled => row.took # None
  <2>1. CASE FileComplaint(c)
    <3>1. PICK u \in BOOLEAN : complaint' = [complaint EXCEPT ![c] =
             [settled |-> FALSE, urgent |-> u, age |-> 0, took |-> None]]
      BY <2>1 DEF FileComplaint
    <3> DEFINE row == [settled |-> FALSE, urgent |-> u, age |-> 0, took |-> None]
    <3>2. row \in ComplaintRow /\ ~row.settled
      BY ReportsAssumption DEF ComplaintRow
    <3> QED
      BY <3>1, <3>2
  <2>2. CASE ComplaintAges(c)
    <3>1. complaint[c] \in ComplaintRow /\ (complaint[c].settled => complaint[c].took # None)
      BY <2>2 DEF ComplaintAges, ReportsIInv, ReportsTypeOK, Timed, Rows
    <3> DEFINE row == [complaint[c] EXCEPT !.age = complaint[c].age + 1]
    <3>2. row \in ComplaintRow /\ (row.settled => row.took # None)
      BY <2>2, <3>1 DEF ComplaintAges, ComplaintRow
    <3>3. complaint' = [complaint EXCEPT ![c] = row]
      BY <2>2 DEF ComplaintAges
    <3> QED
      BY <3>2, <3>3
  <2>3. CASE UpdateComplaint(c)
    <3>1. complaint[c] \in ComplaintRow /\ complaint[c].age # None
      BY <2>3, ReportsAssumption DEF UpdateComplaint, ReportsIInv, ReportsTypeOK, ComplaintRow
    <3>2. PICK s \in BOOLEAN, u \in BOOLEAN : complaint' = [complaint EXCEPT ![c] =
             [settled |-> s, urgent |-> u, age |-> complaint[c].age,
              took |-> IF s THEN complaint[c].age ELSE complaint[c].took]]
      BY <2>3 DEF UpdateComplaint
    <3> DEFINE row == [settled |-> s, urgent |-> u, age |-> complaint[c].age,
                       took |-> IF s THEN complaint[c].age ELSE complaint[c].took]
    <3>3. row \in ComplaintRow /\ (row.settled => row.took # None)
      BY <3>1 DEF ComplaintRow
    <3> QED
      BY <3>2, <3>3
  <2> QED
    BY <2>1, <2>2, <2>3
<1>2. complaint' \in [Complaint -> ComplaintRow \cup {None}]
  BY <1>1 DEF ReportsIInv, ReportsTypeOK
<1>3. Timed(complaint')
  BY <1>1 DEF ReportsIInv, ReportsTypeOK, Timed, Rows
<1>4. UNCHANGED <<vars, waste, tariff, settings, invoice, cache, reading>>
  BY DEF FileComplaint, ComplaintAges, UpdateComplaint
<1> QED
  BY <1>2, <1>3, <1>4, WriteKeepsIInv DEF ReportsIInv, ReportsTypeOK, OverdueIsPast, Rows

\* The complaint report of rows in order counts every settled complaint among the resolved.
LEMMA MetricsAddUp ==
    ASSUME NEW rows \in [Complaint -> SelectedRow \cup {None}], Timed(rows),
           NEW thresholds \in Thresholds
    PROVE  SlaMetrics(rows, thresholds) \in Answer /\ GoodAnswer(SlaMetrics(rows, thresholds))
<1> DEFINE timed == {c \in Rows(rows) : rows[c].took # None}
           settled == {c \in Rows(rows) : rows[c].settled}
           late == {c \in timed : rows[c].took > Limit(rows[c], thresholds)}
<1>1. timed \subseteq Complaint /\ settled \subseteq timed /\ late \subseteq timed
  BY DEF Rows, Timed
<1>2. IsFiniteSet(timed)
  BY <1>1, FS_Subset, ReportsAssumption
<1>3. SlaMetrics(rows, thresholds) =
         [rules |-> thresholds, settled |-> Cardinality(settled),
          resolved |-> Cardinality(timed), breaches |-> Cardinality(late)]
  BY DEF SlaMetrics
<1> HIDE DEF timed, settled, late
<1>4. /\ IsFiniteSet(settled) /\ IsFiniteSet(late)
      /\ Cardinality(settled) <= Cardinality(timed) /\ Cardinality(late) <= Cardinality(timed)
  BY <1>1, <1>2, FS_Subset
<1>5. Cardinality(settled) \in Nat /\ Cardinality(timed) \in Nat /\ Cardinality(late) \in Nat
  BY <1>2, <1>4, FS_CardinalityType
<1> QED
  BY <1>3, <1>4, <1>5 DEF Answer, GoodAnswer

\* What getComplaintsAggregates selects is in order, and there are always thresholds.
LEMMA ReadsAreInOrder ==
    ASSUME ReportsTypeOK, Timed(complaint)
    PROVE  /\ Selected \in [Complaint -> SelectedRow \cup {None}] /\ Timed(Selected)
           /\ InForce \in Thresholds
<1>1. \A c \in Complaint : complaint[c] # None =>
         complaint[c] \in ComplaintRow /\ c \in Rows(complaint)
  BY DEF ReportsTypeOK, Rows
<1>2. Selected \in [Complaint -> SelectedRow \cup {None}]
  BY <1>1 DEF Selected, SelectedRow, ComplaintRow
<1>3. Timed(Selected)
  BY <1>1 DEF Selected, Timed, Rows
<1>4. InForce \in Thresholds
  BY ReportsAssumption DEF ReportsTypeOK, InForce, Default, Thresholds
<1> QED
  BY <1>2, <1>3, <1>4

\* A report starts.
LEMMA StartsKeepIInv ==
    ASSUME ReportsIInv, NEW q \in Reader, StartDashboard(q) \/ ReadComplaints(q)
    PROVE  ReportsIInv'
<1>1. CASE StartDashboard(q)
  <2> DEFINE p == [by |-> q, op |-> "dashboard", got |-> [part \in Part |-> None],
                   groups |-> None, calm |-> TRUE]
  <2>1. p \in Dashboard
    BY DEF Dashboard
  <2>2. p \notin Sla /\ p \notin Store
    BY DEF Sla, Store
  <2>3. Sound(p)
    BY <2>1, <2>2 DEF Sound
  <2>4. reading' = reading \cup {p}
    BY <1>1 DEF StartDashboard
  <2> QED
    BY <1>1, <2>3, <2>4, ReadKeepsIInv DEF StartDashboard, ReportsIInv, ReportsTypeOK
<1>2. CASE ReadComplaints(q)
  <2> DEFINE p == [by |-> q, op |-> "sla", rows |-> Selected]
  <2>1. p \in Sla /\ Timed(p.rows)
    BY ReadsAreInOrder DEF Sla, ReportsIInv
  <2>2. p \notin Dashboard /\ p \notin Store
    BY DEF Dashboard, Store
  <2>3. Sound(p)
    BY <2>1, <2>2 DEF Sound
  <2>4. reading' = reading \cup {p}
    BY <1>2 DEF ReadComplaints
  <2> QED
    BY <1>2, <2>3, <2>4, ReadKeepsIInv DEF ReadComplaints, ReportsIInv, ReportsTypeOK
<1> QED
  BY <1>1, <1>2

\* The database answers one of the dashboard's queries.
LEMMA AnswersKeepIInv ==
    ASSUME ReportsIInv, NEW p \in reading,
           AnswerGroups(p) \/ \E part \in Part : AnswerCount(p, part)
    PROVE  ReportsIInv'
<1>1. p \in Dashboard /\ Sound(p)
  BY KindsOfReading DEF ReportsIInv, Sound, AnswerGroups, AnswerCount
<1>2. ASSUME NEW u \in Dashboard, u.calm = p.calm,
             \A part \in Part : u.got[part] = p.got[part] \/ u.got[part] = Count(part),
             u.groups = p.groups \/ u.groups = CategoryGroup
      PROVE  Sound(u)
  <2>1. u \notin Sla /\ u \notin Store
    BY DEF Dashboard, Sla, Store
  <2> QED
    BY <1>1, <1>2, <2>1 DEF Sound
<1>3. CASE AnswerGroups(p)
  <2> DEFINE u == [p EXCEPT !.groups = CategoryGroup]
  <2>1. /\ u \in Dashboard /\ u.calm = p.calm /\ u.got = p.got
        /\ u.groups = CategoryGroup
    BY <1>1, CountsAreNumbers DEF Dashboard, ReportsIInv
  <2>2. reading' = (reading \ {p}) \cup {u}
    BY <1>3 DEF AnswerGroups, Become
  <2> HIDE DEF u
  <2>3. Sound(u)
    BY <1>2, <2>1
  <2> QED
    BY <1>3, <2>2, <2>3, ReadKeepsIInv DEF AnswerGroups, ReportsIInv, ReportsTypeOK
<1>4. ASSUME NEW part \in Part, AnswerCount(p, part) PROVE ReportsIInv'
  <2> DEFINE got == [p.got EXCEPT ![part] = Count(part)]
             u == [p EXCEPT !.got = got]
  <2>1. /\ got \in [Part -> Nat \cup {None}]
        /\ \A other \in Part : got[other] = p.got[other] \/ got[other] = Count(other)
    BY <1>1, CountsAreNumbers DEF Dashboard, ReportsIInv
  <2>2. reading' = (reading \ {p}) \cup {u}
    BY <1>4 DEF AnswerCount, Become
  <2> HIDE DEF got
  <2>3. u \in Dashboard /\ u.calm = p.calm /\ u.got = got /\ u.groups = p.groups
    BY <1>1, <2>1 DEF Dashboard
  <2> HIDE DEF u
  <2>4. Sound(u)
    BY <1>2, <2>1, <2>3
  <2> QED
    BY <1>4, <2>2, <2>4, ReadKeepsIInv DEF AnswerCount, ReportsIInv, ReportsTypeOK
<1> QED
  BY <1>3, <1>4

\* A report ends or goes on, and the cache is filled or emptied.
LEMMA EndsKeepIInv ==
    ASSUME ReportsIInv,
           \/ \E p \in reading : \/ SendDashboard(p) \/ ReadThresholds(p)
                                 \/ StoreAnswer(p) \/ ReadFails(p)
           \/ CacheExpires
    PROVE  ReportsIInv'
<1>1. ASSUME NEW p \in reading, SendDashboard(p) \/ ReadFails(p) PROVE ReportsIInv'
  <2>1. reading' = reading \ {p} /\ UNCHANGED <<vars, tables, cache>>
    BY <1>1 DEF SendDashboard, ReadFails, Become
  <2> QED
    BY <2>1, ReadKeepsIInv DEF ReportsIInv, ReportsTypeOK
<1>2. ASSUME NEW p \in reading, ReadThresholds(p) PROVE ReportsIInv'
  <2> DEFINE answer == SlaMetrics(p.rows, InForce)
             u == [by |-> p.by, op |-> "store", answer |-> answer]
  <2>1. p \in Sla /\ Sound(p)
    BY <1>2, KindsOfReading DEF ReportsIInv, Sound, ReadThresholds
  <2>2. InForce \in Thresholds
    BY ReadsAreInOrder DEF ReportsIInv
  <2>3. answer \in Answer /\ GoodAnswer(answer)
    BY <2>1, <2>2, MetricsAddUp DEF Sound, Sla
  <2>4. reading' = (reading \ {p}) \cup {u}
    BY <1>2 DEF ReadThresholds, Become
  <2> HIDE DEF answer
  <2>5. u \in Store /\ u \notin Sla /\ u \notin Dashboard
    BY <2>1, <2>3 DEF Store, Sla, Dashboard
  <2>6. Sound(u)
    BY <2>3, <2>5 DEF Sound
  <2> QED
    BY <1>2, <2>4, <2>6, ReadKeepsIInv DEF ReadThresholds, ReportsIInv, ReportsTypeOK
<1>3. ASSUME NEW p \in reading, StoreAnswer(p) PROVE ReportsIInv'
  <2>1. p \in Store /\ GoodAnswer(p.answer)
    BY <1>3, KindsOfReading DEF ReportsIInv, Sound, StoreAnswer
  <2>2. reading' = reading \ {p} /\ cache' = p.answer /\ p.answer \in Answer
    BY <1>3, <2>1 DEF StoreAnswer, Become, Store
  <2> QED
    BY <1>3, <2>1, <2>2, ReadKeepsIInv DEF StoreAnswer, ReportsIInv
<1>4. CASE CacheExpires
  BY <1>4, ReadKeepsIInv DEF CacheExpires, ReportsIInv
<1> QED
  BY <1>1, <1>2, <1>3, <1>4

\* Every step keeps the invariant.
LEMMA ReportsKeepIInv == ReportsIInv /\ [ReportsNext]_reportsVars => ReportsIInv'
<1> SUFFICES ASSUME ReportsIInv, [ReportsNext]_reportsVars PROVE ReportsIInv'
  OBVIOUS
<1>1. CASE FleetMoves
  BY <1>1, FleetMovesKeepIInv
<1>2. CASE Writers
  BY <1>2, CollectionKeepsIInv, OfficeWritesKeepIInv, ComplaintWritesKeepIInv DEF Writers
<1>3. CASE Readers
  BY <1>3, StartsKeepIInv, AnswersKeepIInv, EndsKeepIInv DEF Readers
<1>4. CASE CacheExpires
  BY <1>4, EndsKeepIInv
<1>5. CASE UNCHANGED reportsVars
  BY <1>5, ReadKeepsIInv DEF reportsVars, ReportsIInv, ReportsTypeOK
<1> QED
  BY <1>1, <1>2, <1>3, <1>4, <1>5 DEF ReportsNext

\* Whatever the desk, the office and the writers of the tables do between two awaits of a
\* report, the invariant holds of every state.
THEOREM ReportsInvariantHolds == ReportsSpec => []ReportsIInv
<1>1. ReportsInit => ReportsIInv
  <2> SUFFICES ASSUME ReportsInit PROVE ReportsIInv
    OBVIOUS
  <2>1. DeskIInv
    BY DEF ReportsInit, Init, DeskIInv, TypeOK, ShiftsAreThere
  <2> QED
    BY <2>1 DEF ReportsInit, ReportsIInv, ReportsTypeOK, DeskIInv, Timed, OverdueIsPast, Rows
<1>2. QED
  BY <1>1, ReportsKeepIInv, PTL DEF ReportsSpec

\* Whoever is compliant and whoever is not make up the whole.
LEMMA GradesAddUp ==
    ASSUME ReportsTypeOK, NEW es \in SUBSET (Vehicle \cup Driver), IsFiniteSet(es)
    PROVE  /\ Cardinality(es) = Cardinality(Graded(es, "COMPLIANT"))
                                + Cardinality(Graded(es, "NON_COMPLIANT"))
           /\ Percent(Cardinality(Graded(es, "COMPLIANT")), Cardinality(es)) <= 100
<1> DEFINE yes == Graded(es, "COMPLIANT")
           no == Graded(es, "NON_COMPLIANT")
<1>1. es = yes \cup no /\ yes \cap no = {} /\ yes \subseteq es /\ no \subseteq es
  BY DEF Graded, ReportsTypeOK, TypeOK
<1> HIDE DEF yes, no
<1>2. IsFiniteSet(yes) /\ IsFiniteSet(no)
  BY <1>1, FS_Subset
<1>3. /\ Cardinality(es) \in Nat /\ Cardinality(yes) \in Nat /\ Cardinality(no) \in Nat
      /\ Cardinality(yes \cap no) = 0
  BY <1>1, <1>2, FS_CardinalityType, FS_EmptySet
<1>4. Cardinality(es) = Cardinality(yes) + Cardinality(no)
  <2>1. Cardinality(yes \cup no) = Cardinality(yes) + Cardinality(no) - Cardinality(yes \cap no)
    BY <1>2, FS_Union
  <2> QED
    BY <1>1, <1>3, <2>1
<1>5. Percent(Cardinality(yes), Cardinality(es)) <= 100
  <2> DEFINE p == Cardinality(yes)
             w == Cardinality(es)
  <2>1. p \in Nat /\ w \in Nat /\ p <= w
    BY <1>3, <1>4
  <2> HIDE DEF p, w
  <2>2. ASSUME w = 0 PROVE Percent(p, w) <= 100
    BY <2>2 DEF Percent
  <2>3. ASSUME w > 0 PROVE Percent(p, w) <= 100
    <3>1. (200 * p + w) \div (2 * w) <= 100
      BY <2>1, <2>3
    <3> QED
      BY <2>3, <3>1 DEF Percent
  <2> QED
    BY <2>1, <2>2, <2>3 DEF p, w
<1> QED
  BY <1>4, <1>5 DEF yes, no

\* The categories are finitely many, and so are the lines of a bill.
LEMMA KindIsFinite == IsFiniteSet(Kind)
<1>1. IsFiniteSet({"wet"})
  BY FS_Singleton
<1>2. IsFiniteSet({"wet", "dry"})
  BY <1>1, FS_AddElement
<1>3. IsFiniteSet({"wet", "dry", "plastic"})
  BY <1>2, FS_AddElement
<1>4. IsFiniteSet({"wet", "dry", "plastic", "electronic"})
  BY <1>3, FS_AddElement
<1>5. IsFiniteSet(Classes)
  BY <1>4, FS_AddElement DEF Classes
<1> QED
  BY <1>5, FS_Subset, ReportsAssumption

\* Every collection is of one category.
LEMMA CategoriesAddUp ==
    ASSUME ReportsTypeOK
    PROVE  /\ Cardinality(Rows(waste))
                 = SumFunctionOnSet([k \in Kind |-> CategoryGroup[k].count], Kind)
           /\ WeightOf(Rows(waste))
                 = SumFunctionOnSet([k \in Kind |-> CategoryGroup[k].kg], Kind)
<1> DEFINE P == [k \in Kind |-> OfKind(k)]
           one == [x \in Collection |-> 1]
           weigh == [x \in Rows(waste) |-> waste[x].kg]
           counts == [k \in Kind |-> CategoryGroup[k].count]
           weights == [k \in Kind |-> CategoryGroup[k].kg]
<1>1. /\ IsFiniteSet(Rows(waste)) /\ Rows(waste) \subseteq Collection
      /\ weigh \in [Rows(waste) -> Int] /\ IsFiniteSet(Collection) /\ IsFiniteSet(Kind)
      /\ one \in [Collection -> Int]
  BY WeightsAreNaturals, KindIsFinite, ReportsAssumption
<1>2. /\ P \in [Kind -> SUBSET Rows(waste)]
      /\ \A j, k \in Kind : j # k => P[j] \cap P[k] = {}
  BY DEF OfKind
<1>3. UNION {P[k] : k \in Kind} = Rows(waste)
  <2>1. ASSUME NEW x \in Rows(waste) PROVE waste[x].kind \in Kind /\ x \in P[waste[x].kind]
    <3>1. waste[x] \in WasteRow
      BY <1>1 DEF ReportsTypeOK, Rows
    <3> QED
      BY <3>1 DEF WasteRow, OfKind
  <2>2. \A k \in Kind : P[k] \subseteq Rows(waste)
    BY <1>2
  <2> HIDE DEF P
  <2> QED
    BY <2>1, <2>2
<1>4. counts = [k \in Kind |-> SumFunctionOnSet(one, P[k])]
  <2>1. \A k \in Kind : P[k] \in SUBSET Collection /\ CategoryGroup[k].count = Cardinality(P[k])
    BY <1>1, <1>2 DEF CategoryGroup
  <2>2. \A T \in SUBSET Collection : SumFunctionOnSet(one, T) = Cardinality(T)
    BY <1>1, CountIsSum
  <2> HIDE DEF P, one
  <2> QED
    BY <2>1, <2>2
<1>5. weights = [k \in Kind |-> SumFunctionOnSet(weigh, P[k])]
  BY DEF CategoryGroup, WeightOf
<1>6. Cardinality(Rows(waste)) = SumFunctionOnSet(one, Rows(waste))
  BY <1>1, CountIsSum
<1>7. WeightOf(Rows(waste)) = SumFunctionOnSet(weigh, Rows(waste))
  BY DEF WeightOf
<1>8. P \in [Kind -> SUBSET Collection]
  BY <1>1, <1>2
<1> HIDE DEF P, one, weigh, counts, weights
<1>9. SumFunctionOnSet(counts, Kind) = SumFunctionOnSet(one, Rows(waste))
  <2>1. \A J \in SUBSET Kind :
           SumFunctionOnSet(counts, J) = SumFunctionOnSet(one, UNION {P[k] : k \in J})
    BY <1>1, <1>2, <1>4, <1>8, SumRegroups
  <2> QED
    BY <1>3, <2>1
<1>10. SumFunctionOnSet(weights, Kind) = SumFunctionOnSet(weigh, Rows(waste))
  <2>1. \A J \in SUBSET Kind :
           SumFunctionOnSet(weights, J) = SumFunctionOnSet(weigh, UNION {P[k] : k \in J})
    BY <1>1, <1>2, <1>5, SumRegroups
  <2> QED
    BY <1>3, <2>1
<1> QED
  BY <1>6, <1>7, <1>9, <1>10 DEF counts, weights

\* The counts of one moment add up.
LEMMA CountsAddUp ==
    ASSUME ReportsTypeOK, NEW got, NEW groups,
           \A part \in Part : got[part] = Count(part), groups = CategoryGroup
    PROVE  AddsUp(got, groups)
<1>1. /\ got["totalCollections"] = Cardinality(Rows(waste))
      /\ got["weightAgg"] = WeightOf(Rows(waste))
      /\ got["totalVehicles"] = Cardinality(Trucks)
      /\ got["compliantVehicles"] = Cardinality(Graded(Trucks, "COMPLIANT"))
      /\ got["nonCompliantVehicles"] = Cardinality(Graded(Trucks, "NON_COMPLIANT"))
      /\ got["totalDrivers"] = Cardinality(employed)
      /\ got["compliantDrivers"] = Cardinality(Graded(employed, "COMPLIANT"))
      /\ got["nonCompliantDrivers"] = Cardinality(Graded(employed, "NON_COMPLIANT"))
  BY DEF Part, Count
<1>2. /\ Trucks \in SUBSET (Vehicle \cup Driver) /\ IsFiniteSet(Trucks)
      /\ employed \in SUBSET (Vehicle \cup Driver) /\ IsFiniteSet(employed)
  BY FS_Subset, ReportsAssumption DEF Trucks, ReportsTypeOK, TypeOK
<1> QED
  BY <1>1, <1>2, GradesAddUp, CategoriesAddUp DEF AddsUp

\* DashboardService.getExecutiveSummary: if no collection, vehicle or driver was written
\* while the counts were on their way, the parts of the summary make up its totals and no
\* rate exceeds 100 percent, however large the tables are.
THEOREM SummariesAddUp == ReportsSpec => []DashboardAddsUp
<1>1. ReportsIInv => DashboardAddsUp
  <2> SUFFICES ASSUME ReportsIInv, NEW p \in reading, Complete(p), p.calm
               PROVE  AddsUp(p.got, p.groups)
    BY DEF DashboardAddsUp
  <2>1. p \in Dashboard /\ Sound(p)
    BY KindsOfReading DEF ReportsIInv, Sound, Complete
  <2>2. \A part \in Part : p.got[part] = Count(part)
    BY <2>1 DEF Sound, Complete
  <2>3. p.groups = CategoryGroup
    BY <2>1 DEF Sound, Complete
  <2> QED
    BY <2>2, <2>3, CountsAddUp DEF ReportsIInv
<1>2. QED
  BY <1>1, ReportsInvariantHolds, PTL

\* What invoices come to.
LEMMA AmountsAreIntegers ==
    ASSUME ReportsTypeOK
    PROVE  /\ IsFiniteSet(Rows(invoice)) /\ Rows(invoice) \subseteq Invoice
           /\ [i \in Rows(invoice) |-> invoice[i].amount] \in [Rows(invoice) -> Int]
           /\ \A i \in Rows(invoice) : invoice[i] \in InvoiceRow /\ invoice[i].late \in Int
           /\ \A is \in SUBSET Rows(invoice) : AmountOf(is) \in Int
<1> DEFINE due == [i \in Rows(invoice) |-> invoice[i].amount]
<1>1. Rows(invoice) \subseteq Invoice
  BY DEF ReportsTypeOK, Rows
<1>2. IsFiniteSet(Rows(invoice))
  BY <1>1, FS_Subset, ReportsAssumption
<1>3. \A i \in Rows(invoice) : /\ invoice[i] \in InvoiceRow
                               /\ invoice[i].amount \in Int /\ invoice[i].late \in Int
  BY <1>1, ReportsAssumption DEF ReportsTypeOK, Rows, InvoiceRow
<1>4. due \in [Rows(invoice) -> Int]
  BY <1>3
<1>5. \A is : AmountOf(is) = SumFunctionOnSet(due, is)
  BY DEF AmountOf
<1> HIDE DEF due
<1>6. \A is \in SUBSET Rows(invoice) : AmountOf(is) \in Int
  <2>1. \A is \in SUBSET Rows(invoice) : SumFunctionOnSet(due, is) \in Int
    BY <1>2, <1>4, SumUnfolds
  <2> QED
    BY <1>5, <2>1
<1> QED
  BY <1>1, <1>2, <1>3, <1>4, <1>6 DEF due

\* The amount of two groups of invoices that have none in common.
LEMMA AmountsAdd ==
    ASSUME ReportsTypeOK, NEW a \in SUBSET Rows(invoice), NEW b \in SUBSET Rows(invoice),
           a \cap b = {}
    PROVE  AmountOf(a \cup b) = AmountOf(a) + AmountOf(b)
<1> DEFINE due == [i \in Rows(invoice) |-> invoice[i].amount]
<1>1. IsFiniteSet(Rows(invoice)) /\ due \in [Rows(invoice) -> Int]
  BY AmountsAreIntegers
<1>2. \A is : AmountOf(is) = SumFunctionOnSet(due, is)
  BY DEF AmountOf
<1>3. b \in SUBSET (Rows(invoice) \ a)
  OBVIOUS
<1> HIDE DEF due
<1>4. SumFunctionOnSet(due, a \cup b) = SumFunctionOnSet(due, a) + SumFunctionOnSet(due, b)
  BY <1>1, <1>3, SumSplits
<1> QED
  BY <1>2, <1>4

\* Every unpaid invoice is in one bucket.
LEMMA BucketsAddUp ==
    ASSUME ReportsTypeOK
    PROVE  LET past == {i \in Unpaid : invoice[i].late > 0}
           IN  /\ Aging.overdue = SumFunctionOnSet(Aging.buckets, Buckets \ {"current"})
                                  + Aging.buckets["current"]
               /\ SumFunctionOnSet(Aging.buckets, Buckets \ {"current"}) = AmountOf(past)
<1> DEFINE P == [b \in Buckets |-> {i \in Unpaid : Bucket(invoice[i].late) = b}]
           due == [i \in Rows(invoice) |-> invoice[i].amount]
           g == Aging.buckets
           past == {i \in Unpaid : invoice[i].late > 0}
           Later == Buckets \ {"current"}
<1>1. /\ IsFiniteSet(Rows(invoice)) /\ due \in [Rows(invoice) -> Int]
      /\ Unpaid \subseteq Rows(invoice) /\ \A i \in Unpaid : invoice[i].late \in Int
  BY AmountsAreIntegers DEF Unpaid
<1>2. \A is : AmountOf(is) = SumFunctionOnSet(due, is)
  BY DEF AmountOf
<1>3. IsFiniteSet(Buckets)
  <2>1. IsFiniteSet({"current"})
    BY FS_Singleton
  <2>2. IsFiniteSet({"current", "days1To30"})
    BY <2>1, FS_AddElement
  <2>3. IsFiniteSet({"current", "days1To30", "days31To60"})
    BY <2>2, FS_AddElement
  <2>4. IsFiniteSet({"current", "days1To30", "days31To60", "days61To90"})
    BY <2>3, FS_AddElement
  <2> QED
    BY <2>4, FS_AddElement DEF Buckets
<1>4. /\ P \in [Buckets -> SUBSET Rows(invoice)]
      /\ \A j, k \in Buckets : j # k => P[j] \cap P[k] = {}
  BY <1>1
<1>5. g = [b \in Buckets |-> SumFunctionOnSet(due, P[b])] /\ Aging.overdue = AmountOf(Unpaid)
  BY <1>2 DEF Aging
<1>6. \A d \in Int : Bucket(d) \in Buckets /\ (Bucket(d) # "current" <=> d > 0)
  BY DEF Bucket, Buckets
<1>7. UNION {P[b] : b \in Buckets} = Unpaid
  <2>1. \A i \in Unpaid : Bucket(invoice[i].late) \in Buckets /\ i \in P[Bucket(invoice[i].late)]
    BY <1>1, <1>6
  <2>2. \A b \in Buckets : P[b] \subseteq Unpaid
    OBVIOUS
  <2> HIDE DEF P
  <2> QED
    BY <2>1, <2>2
<1>8. UNION {P[b] : b \in Later} = past
  <2>1. \A i \in past : Bucket(invoice[i].late) \in Later /\ i \in P[Bucket(invoice[i].late)]
    BY <1>1, <1>6
  <2>2. \A b \in Later : P[b] \subseteq past
    BY <1>1, <1>6
  <2> HIDE DEF P, past, Later
  <2> QED
    BY <2>1, <2>2
<1> HIDE DEF P, due, g, past
<1>9. \A J \in SUBSET Buckets :
         SumFunctionOnSet(g, J) = SumFunctionOnSet(due, UNION {P[b] : b \in J})
  BY <1>1, <1>3, <1>4, <1>5, SumRegroups
<1>10. SumFunctionOnSet(g, Buckets) = Aging.overdue
  BY <1>2, <1>5, <1>7, <1>9
<1>11. SumFunctionOnSet(g, Later) = AmountOf(past)
  <2>1. SumFunctionOnSet(g, Later) = SumFunctionOnSet(due, UNION {P[b] : b \in Later})
    BY <1>9
  <2> QED
    BY <1>2, <1>8, <2>1
<1>12. SumFunctionOnSet(g, Buckets) = g["current"] + SumFunctionOnSet(g, Later)
  <2>1. g \in [Buckets -> Int]
    <3>1. \A b \in Buckets : SumFunctionOnSet(due, P[b]) \in Int
      BY <1>1, <1>4, SumUnfolds
    <3> QED
      BY <1>5, <3>1
  <2>2. "current" \in Buckets
    BY DEF Buckets
  <2> QED
    BY <1>3, <2>1, <2>2, SumTakes
<1>13. g["current"] \in Int /\ SumFunctionOnSet(g, Later) \in Int
  <2>1. past \in SUBSET Rows(invoice)
    BY <1>1 DEF past
  <2>2. AmountOf(past) \in Int
    BY <2>1, AmountsAreIntegers
  <2>3. "current" \in Buckets
    BY DEF Buckets
  <2>4. SumFunctionOnSet(due, P["current"]) \in Int
    BY <1>1, <1>4, <2>3, SumUnfolds
  <2> QED
    BY <1>5, <1>11, <2>2, <2>3, <2>4
<1>14. /\ Aging.overdue = SumFunctionOnSet(g, Later) + g["current"]
       /\ SumFunctionOnSet(g, Later) = AmountOf(past)
  BY <1>10, <1>11, <1>12, <1>13
<1> QED
  BY <1>14 DEF g, past

\* The aging report adds up, and agrees with the dashboard.
LEMMA AgingHolds ==
    ASSUME ReportsTypeOK, OverdueIsPast
    PROVE  AgingAddsUp
<1> DEFINE paid == {i \in Rows(invoice) : invoice[i].status = "PAID"}
           marked == {i \in Rows(invoice) : invoice[i].status = "OVERDUE"}
           first == {i \in Unpaid : invoice[i].late = 0}
           past == {i \in Unpaid : invoice[i].late > 0}
           unmarked == {i \in Unpaid : invoice[i].late >= 0 /\ invoice[i].status # "OVERDUE"}
<1>1. \A i \in Rows(invoice) : invoice[i].late \in Int
  BY AmountsAreIntegers
<1>2. AmountOf(Rows(invoice)) = AmountOf(paid) + AmountOf(Unpaid)
  <2>1. Rows(invoice) = paid \cup Unpaid /\ paid \cap Unpaid = {}
        /\ paid \in SUBSET Rows(invoice) /\ Unpaid \in SUBSET Rows(invoice)
    BY DEF Unpaid
  <2> HIDE DEF paid
  <2> QED
    BY <2>1, AmountsAdd
<1>3. AmountOf(past) + AmountOf(first) = AmountOf(marked) + AmountOf(unmarked)
  <2>1. /\ past \cup first = marked \cup unmarked
        /\ past \cap first = {} /\ marked \cap unmarked = {}
        /\ past \in SUBSET Rows(invoice) /\ first \in SUBSET Rows(invoice)
        /\ marked \in SUBSET Rows(invoice) /\ unmarked \in SUBSET Rows(invoice)
    BY <1>1 DEF Unpaid, OverdueIsPast
  <2> HIDE DEF past, first, marked, unmarked
  <2>2. AmountOf(past \cup first) = AmountOf(past) + AmountOf(first)
    BY <2>1, AmountsAdd
  <2>3. AmountOf(marked \cup unmarked) = AmountOf(marked) + AmountOf(unmarked)
    BY <2>1, AmountsAdd
  <2> QED
    BY <2>1, <2>2, <2>3
<1>4. /\ Aging.billed = AmountOf(Rows(invoice)) /\ Aging.collected = AmountOf(paid)
      /\ Aging.overdue = AmountOf(Unpaid) /\ TotalOverdue = AmountOf(marked)
  BY DEF Aging, TotalOverdue
<1>5. /\ Aging.overdue = SumFunctionOnSet(Aging.buckets, Buckets \ {"current"})
                         + Aging.buckets["current"]
      /\ SumFunctionOnSet(Aging.buckets, Buckets \ {"current"}) = AmountOf(past)
  BY BucketsAddUp
<1> HIDE DEF paid, marked, past
<1> QED
  BY <1>2, <1>3, <1>4, <1>5 DEF AgingAddsUp, marked, past

\* The complaint reports add up, whenever they were made.
LEMMA MetricsHold ==
    ASSUME ReportsIInv
    PROVE  SlaAddsUp
<1>1. GoodAnswer(SlaMetrics(Selected, InForce))
  BY ReadsAreInOrder, MetricsAddUp DEF ReportsIInv
<1>2. \A p \in reading : p.op = "store" => GoodAnswer(p.answer)
  BY KindsOfReading DEF ReportsIInv, Sound
<1> QED
  BY <1>1, <1>2 DEF SlaAddsUp, Answers, GoodAnswer, ReportsIInv

\* A share lies within half a tenth of a percent of the exact one.
LEMMA ShareBounds ==
    ASSUME ReportsTypeOK, NEW kinds
    PROVE  LET whole == WeightOf(Rows(waste))
               part == WeightOf({x \in Rows(waste) : waste[x].kind \in kinds})
           IN  /\ part \in Nat /\ whole \in Nat
               /\ whole > 0 => /\ Share(kinds) \in Int
                               /\ 2 * whole * Share(kinds) <= 2000 * part + whole
                               /\ 2000 * part + whole < 2 * whole * Share(kinds) + 2 * whole
<1> DEFINE whole == WeightOf(Rows(waste))
           part == WeightOf({x \in Rows(waste) : waste[x].kind \in kinds})
<1>1. part \in Nat /\ whole \in Nat
  BY WeightsAreNaturals
<1>2. Share(kinds) = IF whole = 0 THEN 0 ELSE (2000 * part + whole) \div (2 * whole)
  BY DEF Share
<1> HIDE DEF part, whole
<1>3. ASSUME whole > 0
      PROVE  /\ Share(kinds) \in Int
             /\ 2 * whole * Share(kinds) <= 2000 * part + whole
             /\ 2000 * part + whole < 2 * whole * Share(kinds) + 2 * whole
  <2> DEFINE n == 2000 * part + whole
             d == 2 * whole
  <2>1. n \in Int /\ d \in Nat /\ d > 0 /\ Share(kinds) = n \div d
    BY <1>1, <1>2, <1>3
  <2> HIDE DEF n, d
  <2>2. n \div d \in Int /\ d * (n \div d) <= n /\ n < d * (n \div d) + d
    BY <2>1
  <2> QED
    BY <2>1, <2>2 DEF n, d
<1> QED
  BY <1>1, <1>3 DEF part, whole

\* The three shares make a hundred percent, to a tenth.
LEMMA SharesHold ==
    ASSUME ReportsTypeOK
    PROVE  SharesAddUp
<1> SUFFICES ASSUME WeightOf(Rows(waste)) > 0
             PROVE  SumFunctionOnSet([kinds \in Segregated |-> Share(kinds)], Segregated) \in 999..1001
  BY DEF SharesAddUp
<1> DEFINE A == {"wet"}
           B == {"dry", "plastic"}
           C == {"electronic", "other"}
           share == [kinds \in Segregated |-> Share(kinds)]
           Of(kinds) == {x \in Rows(waste) : waste[x].kind \in kinds}
           whole == WeightOf(Rows(waste))
<1>1. Segregated = {A, B, C} /\ A # B /\ A # C /\ B # C
  BY DEF Segregated
<1>2. IsFiniteSet(Segregated)
  <2> HIDE DEF A, B, C
  <2>1. IsFiniteSet({A}) /\ {A, B} = {A} \cup {B} /\ {A, B, C} = {A, B} \cup {C}
    BY FS_Singleton
  <2>2. IsFiniteSet({A, B})
    BY <2>1, FS_AddElement
  <2> QED
    BY <1>1, <2>1, <2>2, FS_AddElement
<1>3. \A kinds : LET part == WeightOf(Of(kinds))
                     share1 == Share(kinds)
                 IN  /\ part \in Nat /\ share1 \in Int
                     /\ 2 * whole * share1 <= 2000 * part + whole
                     /\ 2000 * part + whole < 2 * whole * share1 + 2 * whole
  BY ShareBounds
<1>4. SumFunctionOnSet(share, Segregated) = Share(A) + Share(B) + Share(C)
  <2>1. \A kinds : Share(kinds) \in Int
    <3> HIDE DEF whole, Of
    <3> QED
      BY <1>3
  <2>2. share \in [Segregated -> Int]
    BY <2>1
  <2>3. share[A] = Share(A) /\ share[B] = Share(B) /\ share[C] = Share(C)
    BY <1>1
  <2>4. Share(A) \in Int /\ Share(B) \in Int /\ Share(C) \in Int
    BY <2>1
  <2>5. Segregated \ {A} = {B, C} /\ {B, C} \ {B} = {C} /\ {C} \ {C} = {}
    BY <1>1
  <2> HIDE DEF share, A, B, C
  <2>6. SumFunctionOnSet(share, Segregated) = share[A] + SumFunctionOnSet(share, {B, C})
    BY <1>1, <1>2, <2>2, <2>5, SumTakes
  <2>7. SumFunctionOnSet(share, {B, C}) = share[B] + SumFunctionOnSet(share, {C})
    BY <1>1, <1>2, <2>2, <2>5, SumTakes
  <2>8. SumFunctionOnSet(share, {C}) = share[C] + SumFunctionOnSet(share, {})
    BY <1>1, <1>2, <2>2, <2>5, SumTakes
  <2>9. SumFunctionOnSet(share, {}) = 0
    BY <1>2, <2>2, SumUnfolds
  <2> QED
    BY <2>3, <2>4, <2>6, <2>7, <2>8, <2>9
<1>5. whole = WeightOf(Of(A)) + WeightOf(Of(B)) + WeightOf(Of(C))
  <2> DEFINE weigh == [x \in Rows(waste) |-> waste[x].kg]
             rest == Of(B) \cup Of(C)
  <2>1. IsFiniteSet(Rows(waste)) /\ weigh \in [Rows(waste) -> Int]
    BY WeightsAreNaturals
  <2>2. \A xs : WeightOf(xs) = SumFunctionOnSet(weigh, xs)
    BY DEF WeightOf
  <2>3. \A x \in Rows(waste) : waste[x].kind \in A \cup B \cup C
    BY ReportsAssumption DEF ReportsTypeOK, Rows, WasteRow, Classes
  <2>4. /\ Rows(waste) = Of(A) \cup rest
        /\ Of(A) \in SUBSET Rows(waste) /\ rest \in SUBSET (Rows(waste) \ Of(A))
        /\ Of(B) \in SUBSET Rows(waste) /\ Of(C) \in SUBSET (Rows(waste) \ Of(B))
    BY <2>3
  <2>5. SumFunctionOnSet(weigh, Of(A)) \in Nat /\ SumFunctionOnSet(weigh, Of(B)) \in Nat
        /\ SumFunctionOnSet(weigh, Of(C)) \in Nat
    BY WeightsAreNaturals DEF WeightOf
  <2> HIDE DEF weigh, Of, A, B, C
  <2>6. SumFunctionOnSet(weigh, Rows(waste))
          = SumFunctionOnSet(weigh, Of(A)) + SumFunctionOnSet(weigh, rest)
    <3>1. SumFunctionOnSet(weigh, Of(A) \cup rest)
            = SumFunctionOnSet(weigh, Of(A)) + SumFunctionOnSet(weigh, rest)
      BY <2>1, <2>4, SumSplits
    <3> QED
      BY <2>4, <3>1
  <2>7. SumFunctionOnSet(weigh, rest)
          = SumFunctionOnSet(weigh, Of(B)) + SumFunctionOnSet(weigh, Of(C))
    BY <2>1, <2>4, SumSplits
  <2> QED
    BY <2>2, <2>5, <2>6, <2>7
<1> DEFINE a == WeightOf(Of(A))
           b == WeightOf(Of(B))
           c == WeightOf(Of(C))
           p == Share(A)
           q == Share(B)
           r == Share(C)
<1>6. /\ a \in Nat /\ p \in Int
      /\ 2 * whole * p <= 2000 * a + whole /\ 2000 * a + whole < 2 * whole * p + 2 * whole
  <2> HIDE DEF A, Of, whole
  <2> QED
    BY <1>3
<1>7. /\ b \in Nat /\ q \in Int
      /\ 2 * whole * q <= 2000 * b + whole /\ 2000 * b + whole < 2 * whole * q + 2 * whole
  <2> HIDE DEF B, Of, whole
  <2> QED
    BY <1>3
<1>8. /\ c \in Nat /\ r \in Int
      /\ 2 * whole * r <= 2000 * c + whole /\ 2000 * c + whole < 2 * whole * r + 2 * whole
  <2> HIDE DEF C, Of, whole
  <2> QED
    BY <1>3
<1>9. whole = a + b + c /\ whole > 0
  BY <1>5
<1>10. SumFunctionOnSet(share, Segregated) = p + q + r
  BY <1>4
<1> HIDE DEF a, b, c, p, q, r, whole, share
<1>11. p + q + r \in 999..1001
  BY <1>6, <1>7, <1>8, <1>9
<1> QED
  BY <1>10, <1>11 DEF share

\* A finite set of numbers has a greatest one.
LEMMA HighestIsNatural ==
    ASSUME ReportsTypeOK
    PROVE  Highest("base") \in Nat /\ Highest("minimum") \in Nat
<1> SUFFICES ASSUME NEW column \in {"base", "minimum"} PROVE Highest(column) \in Nat
  OBVIOUS
<1> DEFINE R == Rows(tariff)
           Fees(T) == {0} \cup {tariff[k][column] : k \in T}
           G == {T \in SUBSET R : \E m \in Fees(T) : \A n \in Fees(T) : m >= n}
<1>1. R \subseteq Kind /\ IsFiniteSet(R)
  <2>1. R \subseteq Kind
    BY DEF ReportsTypeOK, Rows
  <2> QED
    BY <2>1, KindIsFinite, FS_Subset
<1>2. \A k \in R : tariff[k][column] \in Nat
  <2>1. \A k \in R : tariff[k] \in TariffRow
    BY DEF ReportsTypeOK, Rows
  <2> QED
    BY <2>1, ReportsAssumption DEF TariffRow
<1>3. ASSUME NEW T \in SUBSET R, \A U \in SUBSET T : U # T => U \in G
      PROVE  T \in G
  <2>1. CASE T = {}
    BY <2>1
  <2>2. CASE T # {}
    <3>1. PICK k : k \in T
      BY <2>2
    <3> DEFINE U == T \ {k}
               fee == tariff[k][column]
    <3>2. PICK m \in Fees(U) : \A n \in Fees(U) : m >= n
      BY <1>3, <3>1
    <3>3. Fees(T) = Fees(U) \cup {fee} /\ Fees(U) \subseteq Nat /\ fee \in Nat
      BY <1>2, <3>1
    <3> HIDE DEF Fees, fee, U
    <3>4. \E h \in Fees(T) : \A n \in Fees(T) : h >= n
      <4>1. CASE m >= fee
        BY <3>2, <3>3, <4>1
      <4>2. CASE ~(m >= fee)
        BY <3>2, <3>3, <4>2
      <4> QED
        BY <4>1, <4>2
    <3> QED
      BY <3>4
  <2> QED
    BY <2>1, <2>2
<1>4. R \in G
  <2> HIDE DEF G, R
  <2> QED
    BY <1>1, <1>3, SetInduction
<1>5. Highest(column) = CHOOSE m \in Fees(R) : \A n \in Fees(R) : m >= n
  BY DEF Highest, Max
<1>6. Highest(column) \in Fees(R)
  BY <1>4, <1>5
<1> QED
  BY <1>2, <1>6

\* A line is a credit only by a credit tariff.
LEMMA LinesAreSigned ==
    ASSUME ReportsTypeOK, NEW k \in Kind
    PROVE  /\ Line(k) \in Int
           /\ (tariff[k] = None \/ ~tariff[k].credit) => Line(k) >= 0
<1> DEFINE kg == WeightOf(OfKind(k))
<1>1. kg \in Nat
  BY WeightsAreNaturals DEF OfKind
<1>2. DefaultRate[k] \in Nat
  BY ReportsAssumption DEF DefaultRate, Classes
<1>3. tariff[k] # None => tariff[k].rate \in Nat /\ tariff[k].credit \in BOOLEAN
  BY ReportsAssumption DEF ReportsTypeOK, TariffRow
<1>4. Line(k) = IF tariff[k] = None THEN kg * DefaultRate[k]
                ELSE IF tariff[k].credit THEN -(kg * tariff[k].rate) ELSE kg * tariff[k].rate
  BY DEF Line
<1> HIDE DEF kg
<1>5. \A rate \in Nat : kg * rate \in Nat
  BY <1>1
<1>6. CASE tariff[k] = None
  BY <1>2, <1>4, <1>5, <1>6
<1>7. CASE tariff[k] # None
  <2> DEFINE cost == kg * tariff[k].rate
  <2>1. cost \in Nat
    BY <1>3, <1>5, <1>7
  <2>2. Line(k) = IF tariff[k].credit THEN -cost ELSE cost
    BY <1>4, <1>7
  <2> HIDE DEF cost
  <2>3. CASE tariff[k].credit
    BY <1>7, <2>1, <2>2, <2>3
  <2>4. CASE ~tariff[k].credit
    BY <1>7, <2>1, <2>2, <2>4
  <2> QED
    BY <2>3, <2>4
<1> QED
  BY <1>6, <1>7

\* A bill keeps to its minimum, and only a credit makes it negative.
LEMMA BillsHold ==
    ASSUME ReportsTypeOK
    PROVE  BillHolds
<1> DEFINE line == [k \in Kind |-> Line(k)]
           minimum == Highest("minimum")
           base == Highest("base")
           sum == SumFunctionOnSet(line, Kind)
           lines == base + sum
           subtotal == IF minimum > 0 /\ lines < minimum THEN minimum ELSE lines
           total == subtotal + Tax(subtotal)
           Credited == \E k \in Rows(tariff) : tariff[k].credit
<1>1. Bill.minimum = minimum /\ Bill.subtotal = subtotal /\ Bill.total = total
  BY DEF Bill
<1>2. minimum \in Nat /\ base \in Nat
  BY HighestIsNatural
<1>3. line \in [Kind -> Int] /\ IsFiniteSet(Kind)
  BY LinesAreSigned, KindIsFinite
<1>4. ~Credited => \A k \in Kind : line[k] >= 0
  BY LinesAreSigned DEF Rows, ReportsTypeOK
<1> HIDE DEF line
<1>5. sum \in Int
  BY <1>3, SumUnfolds
<1>6. (\A k \in Kind : line[k] >= 0) => sum >= 0
  BY <1>3, SumOfNaturals
<1>7. \A cents \in Int : /\ Tax(cents) \in Int
                         /\ cents >= 0 => Tax(cents) >= 0
                         /\ cents < 0 => Tax(cents) <= 0
  BY DEF Tax
<1> HIDE DEF minimum, base, sum, Credited
<1>8. subtotal \in Int /\ Tax(subtotal) \in Int
  BY <1>2, <1>5, <1>7
<1>9. minimum > 0 => minimum <= subtotal /\ subtotal <= total
  <2> SUFFICES ASSUME minimum > 0 PROVE minimum <= subtotal /\ subtotal <= total
    OBVIOUS
  <2>1. minimum <= subtotal /\ subtotal >= 0
    BY <1>2, <1>5
  <2> HIDE DEF subtotal
  <2> QED
    BY <1>7, <1>8, <2>1
<1>10. total < 0 => minimum = 0 /\ Credited
  <2> SUFFICES ASSUME total < 0 PROVE minimum = 0 /\ Credited
    OBVIOUS
  <2>1. subtotal < 0
    <3> HIDE DEF subtotal
    <3> QED
      BY <1>7, <1>8
  <2>2. minimum = 0 /\ sum < 0
    BY <1>2, <1>5, <2>1
  <2> QED
    BY <1>4, <1>5, <1>6, <2>2
<1> QED
  BY <1>1, <1>9, <1>10 DEF BillHolds, Credited

\* The figures of the aging report, of a drafted bill, of the segregation report and of the
\* complaint report (made now, on its way into the cache, or cached) agree with one another
\* and with the tables, however many invoices, tariffs, collections and complaints there are.
THEOREM FiguresAgree == ReportsSpec => []FiguresAddUp
<1>1. ReportsIInv => FiguresAddUp
  BY AgingHolds, BillsHold, SharesHold, MetricsHold DEF ReportsIInv, FiguresAddUp
<1>2. QED
  BY <1>1, ReportsInvariantHolds, PTL

\* The tables, the cache and the requests in progress hold what the code expects of them: no
\* threshold is missing once a site has a row, and no count is negative.
THEOREM ReportsTypeCorrect == ReportsSpec => []ReportsTypeOK
<1>1. ReportsIInv => ReportsTypeOK
  BY DEF ReportsIInv
<1>2. QED
  BY <1>1, ReportsInvariantHolds, PTL
=============================================================================
