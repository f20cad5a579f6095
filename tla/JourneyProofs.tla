--------------------------- MODULE JourneyProofs ---------------------------
(***************************************************************************)
(* Theorems about Journey, for any number of shifts, requests and readings. *)
(***************************************************************************)
EXTENDS Journey, FiniteSetTheorems, TLAPS

\* A shift that has been STARTED has the time of it.
StartedHaveTimes == \A k \in Shift : shift[k].status = "STARTED" => IsSet(k, "startedAt")

\* What the requests in progress have tested: a first stop needs a start, a completion
\* a reading that is not too small.
Admitted ==
    /\ \A p \in inflight : p.op = "progress" => IsSet(p.shift, "startedAt")
    /\ \A p \in inflight : p.op = "complete" => ~TooSmall(p.km, p.start)

\* The alerts about to be written can be counted.
AlertsAreFinite == \A k \in Shift : IsFiniteSet(Alerting(k))

\* The inductive invariant.
IInv ==
    /\ TypeOK
    /\ CompletionComesLast
    /\ StartedHaveTimes
    /\ Admitted
    /\ AlertsAreFinite
    /\ AlertsAreFounded

USE JourneyAssumption

LEMMA InitIInv == Init => IInv
<1> SUFFICES ASSUME Init PROVE IInv
  OBVIOUS
<1>1. TypeOK
  BY DEF Init, TypeOK, Row, Status, Stamp
<1>2. CompletionComesLast /\ StartedHaveTimes /\ Admitted
  BY DEF Init, CompletionComesLast, StartedHaveTimes, Admitted
<1>3. ASSUME NEW k \in Shift
      PROVE  IsFiniteSet(Alerting(k)) /\ alerts[k] + Cardinality(Alerting(k)) <= fast[k]
  <2>1. Alerting(k) = {}
    BY DEF Init, Alerting
  <2>2. IsFiniteSet(Alerting(k)) /\ Cardinality(Alerting(k)) = 0
    BY <2>1, FS_EmptySet
  <2> QED
    BY <2>2 DEF Init
<1> QED
  BY <1>1, <1>2, <1>3 DEF IInv, AlertsAreFinite, AlertsAreFounded

\* Completing touches nothing but starts, and of those only `last'.
LEMMA CompletingKeeps ==
  ASSUME NEW k \in Shift, inflight \subseteq Pending
  PROVE  /\ Completing(k) \subseteq Pending
         /\ \A p : p.op # "start" => (p \in Completing(k) <=> p \in inflight)
<1> DEFINE f(p) == IF p.op = "start" /\ p.shift = k /\ p.last # None
                   THEN [p EXCEPT !.last = "completedAt"] ELSE p
<1>1. Completing(k) = {f(p) : p \in inflight}
  BY DEF Completing
<1>2. ASSUME NEW p \in inflight PROVE f(p) \in Pending /\ f(p).op = p.op
  <2>1. CASE p.op = "start"
    <3>1. p \in [by : Request, shift : Shift, op : {"start"}, km : Km, last : Stamp \cup {None}]
      BY <2>1 DEF Pending
    <3>2. f(p) \in [by : Request, shift : Shift, op : {"start"}, km : Km, last : Stamp \cup {None}]
      BY <3>1 DEF Stamp
    <3> QED
      BY <3>1, <3>2 DEF Pending
  <2>2. CASE p.op # "start"
    BY <2>2
  <2> QED
    BY <2>1, <2>2
<1>3. \A p : p.op # "start" => (p \in {f(q) : q \in inflight} <=> p \in inflight)
  BY <1>2
<1> QED
  BY <1>1, <1>2, <1>3

-----------------------------------------------------------------------------
\* The types, action by action.
LEMMA TypeStep == TypeOK /\ [Next]_vars => TypeOK'
<1> SUFFICES ASSUME TypeOK, [Next]_vars PROVE TypeOK'
  OBVIOUS
<1> USE DEF TypeOK
<1>1. ASSUME NEW k \in Shift, NEW s \in Status, NEW km \in Km \cup {None}, SetStatus(k, s, km)
      PROVE  TypeOK'
  <2>1. shift' \in [Shift -> Row]
    <3>1. StampOf(s) \in Stamp \cup {None}
      BY DEF StampOf, Stamp
    <3>2. shift[k] \in Row
      OBVIOUS
    <3>3. shift'[k] \in Row
      BY <1>1, <3>1, <3>2 DEF SetStatus, Row, Status
    <3>4. \A j \in Shift : j # k => shift'[j] = shift[j]
      BY <1>1 DEF SetStatus
    <3>5. shift' = [j \in Shift |-> shift'[j]]
      BY <1>1 DEF SetStatus
    <3> QED
      BY <3>3, <3>4, <3>5
  <2>2. inflight' \subseteq Pending
    BY <1>1, CompletingKeeps DEF SetStatus
  <2> QED
    BY <1>1, <2>1, <2>2 DEF SetStatus, rows, breakdown
<1>2. ASSUME NEW q \in Request, NEW k \in Shift, CheckStop(q, k) PROVE TypeOK'
  BY <1>2 DEF CheckStop, Pending, rows, breakdown
<1>3. ASSUME NEW p \in inflight, MoveOn(p) PROVE TypeOK'
  <2>1. p \in [by : Request, shift : Shift, op : {"progress", "stop", "alert", "notice"}]
    BY <1>3 DEF MoveOn, Pending
  <2>2. [p EXCEPT !.op = "stop"] \in Pending
    BY <2>1 DEF Pending
  <2>3. shift' \in [Shift -> Row]
    <3>1. shift[p.shift] \in Row
      BY <2>1
    <3>2. shift'[p.shift] \in Row
      BY <1>3, <2>1, <3>1 DEF MoveOn, Row, Status
    <3>3. \A j \in Shift : j # p.shift => shift'[j] = shift[j]
      BY <1>3 DEF MoveOn
    <3>4. shift' = [j \in Shift |-> shift'[j]]
      BY <1>3 DEF MoveOn
    <3> QED
      BY <3>2, <3>3, <3>4
  <2> QED
    BY <1>3, <2>2, <2>3 DEF MoveOn, rows, breakdown
<1>4. ASSUME NEW p \in inflight, AddStop(p) PROVE TypeOK'
  <2>1. p.shift \in Shift
    BY DEF Pending
  <2> QED
    BY <1>4, <2>1 DEF AddStop, breakdown
<1>5. ASSUME NEW q \in Request, NEW k \in Shift, NEW km \in Km, CheckStart(q, k, km)
      PROVE  TypeOK'
  <2>1. shift[k].last \in Stamp \cup {None}
    BY DEF Row
  <2> QED
    BY <1>5, <2>1 DEF CheckStart, Pending, rows, breakdown
<1>6. ASSUME NEW q \in Request, NEW k \in Shift, NEW km \in Km, CheckComplete(q, k, km)
      PROVE  TypeOK'
  <2>1. shift[k].start \in Km \cup {None}
    BY DEF Row
  <2> QED
    BY <1>6, <2>1 DEF CheckComplete, Pending, rows, breakdown
<1>7. ASSUME NEW k \in Shift, Checkpoint(k) PROVE TypeOK'
  BY <1>7 DEF Checkpoint, breakdown
<1>8. ASSUME NEW q \in Request, NEW k \in Shift, StopTruck(q, k) PROVE TypeOK'
  BY <1>8 DEF StopTruck, Pending, rows
<1>9. ASSUME NEW p \in inflight, WriteStart(p) PROVE TypeOK'
  <2>1. p \in [by : Request, shift : Shift, op : {"start"}, km : Km, last : Stamp \cup {None}]
    BY <1>9 DEF WriteStart, Pending
  <2>2. shift' \in [Shift -> Row]
    BY <1>9, <2>1 DEF WriteStart, Row, Status, Stamp
  <2> QED
    BY <1>9, <2>2 DEF WriteStart, rows, breakdown
<1>10. ASSUME NEW p \in inflight, WriteComplete(p) PROVE TypeOK'
  <2>1. p \in [by : Request, shift : Shift, op : {"complete"}, km : Km, start : Km \cup {None}]
    BY <1>10 DEF WriteComplete, Pending
  <2>2. shift' \in [Shift -> Row]
    BY <1>10, <2>1 DEF WriteComplete, Row, Status, Stamp
  <2>3. inflight' \subseteq Pending
    BY <1>10, <2>1, CompletingKeeps DEF WriteComplete
  <2> QED
    BY <1>10, <2>2, <2>3 DEF WriteComplete, rows, breakdown
<1>11. ASSUME NEW p \in inflight, NotifyBreakdown(p) PROVE TypeOK'
  <2>1. p.shift \in Shift
    BY DEF Pending
  <2> QED
    BY <1>11, <2>1 DEF NotifyBreakdown, rows
<1>12. ASSUME NEW q \in Request, NEW k \in Shift, LocationUpdate(q, k) PROVE TypeOK'
  BY <1>12 DEF LocationUpdate, Pending, breakdown
<1>13. ASSUME NEW p \in inflight, SpeedingAlert(p) PROVE TypeOK'
  <2>1. p.shift \in Shift
    BY DEF Pending
  <2> QED
    BY <1>13, <2>1 DEF SpeedingAlert, breakdown
<1>14. ASSUME NEW k \in Shift, Repair(k) PROVE TypeOK'
  BY <1>14 DEF Repair, rows
<1>15. ASSUME NEW p \in inflight, Drop(p) PROVE TypeOK'
  BY <1>15 DEF Drop, rows, breakdown
<1>16. CASE UNCHANGED vars
  BY <1>16 DEF vars, rows, breakdown
<1> QED
  BY <1>1, <1>2, <1>3, <1>4, <1>5, <1>6, <1>7, <1>8, <1>9, <1>10, <1>11, <1>12, <1>13, <1>14,
     <1>15, <1>16 DEF Next, Desk, Telephone, Stream

-----------------------------------------------------------------------------
\* What a step does to a row it changes: timestamps stay set, a completion comes last,
\* and only the desk puts a shift IN_PROGRESS that has no time of start.
RowStep(k) ==
    /\ shift[k].stamps \subseteq shift'[k].stamps
    /\ shift'[k] # shift[k] =>
          /\ shift'[k].status = "COMPLETED" => shift'[k].last = "completedAt"
          /\ shift'[k].status = "STARTED" => "startedAt" \in shift'[k].stamps
          /\ shift'[k].status = "IN_PROGRESS" =>
                "startedAt" \in shift'[k].stamps \/ inflight' = inflight

LEMMA RowSteps ==
  ASSUME TypeOK, Admitted, [Next]_vars, NEW k \in Shift
  PROVE  RowStep(k)
<1> USE DEF TypeOK
<1>1. CASE shift' = shift
  BY <1>1 DEF RowStep
<1>2. ASSUME NEW j \in Shift, NEW s \in Status, NEW km \in Km \cup {None}, SetStatus(j, s, km)
      PROVE  RowStep(k)
  <2>1. CASE k = j
    <3>1. shift[k] \in Row
      OBVIOUS
    <3>2. /\ shift'[k].status = s
          /\ shift'[k].stamps = shift[k].stamps \cup ({StampOf(s)} \ {None})
          /\ shift'[k].last = IF StampOf(s) = None THEN shift[k].last ELSE StampOf(s)
          /\ s # "COMPLETED" => inflight' = inflight
      BY <1>2, <2>1, <3>1 DEF SetStatus, Row
    <3> QED
      BY <3>2 DEF RowStep, StampOf, Stamp
  <2>2. CASE k # j
    BY <1>2, <2>2 DEF SetStatus, RowStep
  <2> QED
    BY <2>1, <2>2
<1>3. ASSUME NEW p \in inflight, MoveOn(p) PROVE RowStep(k)
  <2>1. p.shift \in Shift /\ "startedAt" \in shift[p.shift].stamps
    BY <1>3 DEF MoveOn, Pending, Admitted, IsSet
  <2>2. CASE k = p.shift
    <3>1. shift[k] \in Row
      OBVIOUS
    <3>2. shift'[k].status = "IN_PROGRESS" /\ shift'[k].stamps = shift[k].stamps
      BY <1>3, <2>2, <3>1 DEF MoveOn, Row
    <3> QED
      BY <2>1, <2>2, <3>2 DEF RowStep
  <2>3. CASE k # p.shift
    BY <1>3, <2>3 DEF MoveOn, RowStep
  <2> QED
    BY <2>2, <2>3
<1>4. ASSUME NEW p \in inflight, WriteStart(p) PROVE RowStep(k)
  <2>1. CASE k = p.shift
    <3>1. shift[k] \in Row
      OBVIOUS
    <3>2. /\ shift'[k].status = "IN_PROGRESS"
          /\ shift'[k].stamps = shift[k].stamps \cup {"startedAt"}
      BY <1>4, <2>1, <3>1 DEF WriteStart, Row
    <3> QED
      BY <3>2 DEF RowStep
  <2>2. CASE k # p.shift
    BY <1>4, <2>2 DEF WriteStart, RowStep
  <2> QED
    BY <2>1, <2>2
<1>5. ASSUME NEW p \in inflight, WriteComplete(p) PROVE RowStep(k)
  <2>1. CASE k = p.shift
    <3>1. shift[k] \in Row
      OBVIOUS
    <3>2. /\ shift'[k].status = "COMPLETED" /\ shift'[k].last = "completedAt"
          /\ shift'[k].stamps = shift[k].stamps \cup {"completedAt"}
      BY <1>5, <2>1, <3>1 DEF WriteComplete, Row
    <3> QED
      BY <3>2 DEF RowStep
  <2>2. CASE k # p.shift
    BY <1>5, <2>2 DEF WriteComplete, RowStep
  <2> QED
    BY <2>1, <2>2
<1> QED
  BY <1>1, <1>2, <1>3, <1>4, <1>5 DEF Next, Desk, Telephone, Stream, vars, CheckStop, AddStop,
     CheckStart, CheckComplete, Checkpoint, StopTruck, NotifyBreakdown, LocationUpdate,
     SpeedingAlert, Repair, Drop

\* Who begins to hold a first stop or a completion has tested the row.
LEMMA NewRequests ==
  ASSUME TypeOK, [Next]_vars, NEW p \in inflight' \ inflight
  PROVE  /\ p.op = "progress" => p.shift \in Shift /\ shift[p.shift].status = "STARTED"
         /\ p.op = "complete" => ~TooSmall(p.km, p.start)
<1> USE DEF TypeOK
<1> DEFINE Tested == /\ p.op = "progress" => p.shift \in Shift /\ shift[p.shift].status = "STARTED"
                     /\ p.op = "complete" => ~TooSmall(p.km, p.start)
<1>1. ASSUME NEW k \in Shift, p \in Completing(k) PROVE Tested
  BY <1>1, CompletingKeeps
<1>2. ASSUME NEW q \in Request, NEW k \in Shift, CheckStop(q, k) PROVE Tested
  BY <1>2 DEF CheckStop
<1>3. ASSUME NEW q \in Request, NEW k \in Shift, NEW km \in Km, CheckComplete(q, k, km)
      PROVE  Tested
  BY <1>3 DEF CheckComplete
<1>4. ASSUME NEW q \in Request, NEW k \in Shift, NEW km \in Km, CheckStart(q, k, km)
      PROVE  Tested
  BY <1>4 DEF CheckStart
<1>5. ASSUME NEW q \in Request, NEW k \in Shift, StopTruck(q, k) \/ LocationUpdate(q, k)
      PROVE  Tested
  BY <1>5 DEF StopTruck, LocationUpdate
<1>6. ASSUME NEW o \in inflight, MoveOn(o) PROVE Tested
  <2>1. o \in [by : Request, shift : Shift, op : {"progress", "stop", "alert", "notice"}]
    BY <1>6 DEF MoveOn, Pending
  <2>2. p = [o EXCEPT !.op = "stop"]
    BY <1>6 DEF MoveOn
  <2>3. p.op = "stop"
    BY <2>1, <2>2
  <2> QED
    BY <2>3
<1>7. ASSUME NEW k \in Shift, NEW s \in Status, NEW km \in Km \cup {None}, SetStatus(k, s, km)
      PROVE  Tested
  BY <1>1, <1>7 DEF SetStatus
<1>8. ASSUME NEW o \in inflight, WriteComplete(o) PROVE Tested
  <2>1. o.shift \in Shift
    BY DEF Pending
  <2>2. p \in Completing(o.shift)
    BY <1>8 DEF WriteComplete
  <2> QED
    BY <1>1, <2>1, <2>2
<1>9. CASE inflight' \subseteq inflight
  BY <1>9
<1> QED
  BY <1>2, <1>3, <1>4, <1>5, <1>6, <1>7, <1>8, <1>9 DEF Next, Desk, Telephone, Stream, vars,
     AddStop, Checkpoint, WriteStart, NotifyBreakdown, SpeedingAlert, Repair, Drop

-----------------------------------------------------------------------------
\* The alerts of a shift and its breadcrumbs.
AlertsCovered(k) ==
    /\ IsFiniteSet(Alerting(k))
    /\ alerts[k] + Cardinality(Alerting(k)) <= fast[k]

LEMMA AlertsStep ==
  ASSUME TypeOK, [Next]_vars, NEW k \in Shift, AlertsCovered(k)
  PROVE  AlertsCovered(k)'
<1> USE DEF TypeOK
<1> DEFINE n == Cardinality(Alerting(k))
<1>0. /\ n \in Nat /\ alerts[k] \in Nat /\ fast[k] \in Nat
      /\ alerts[k] + n <= fast[k] /\ IsFiniteSet(Alerting(k))
  BY FS_CardinalityType DEF AlertsCovered
<1>1. ASSUME Alerting(k)' = Alerting(k), alerts'[k] = alerts[k], fast'[k] = fast[k]
      PROVE  AlertsCovered(k)'
  BY <1>0, <1>1 DEF AlertsCovered
<1>2. ASSUME Alerting(k)' \subseteq Alerting(k), alerts'[k] = alerts[k], fast'[k] = fast[k]
      PROVE  AlertsCovered(k)'
  <2>1. IsFiniteSet(Alerting(k)') /\ Cardinality(Alerting(k)') <= n
    BY <1>0, <1>2, FS_Subset
  <2>2. Cardinality(Alerting(k)') \in Nat
    BY <2>1, FS_CardinalityType
  <2> QED
    BY <1>0, <1>2, <2>1, <2>2 DEF AlertsCovered
<1>3. ASSUME NEW q \in Request, NEW j \in Shift, LocationUpdate(q, j) PROVE AlertsCovered(k)'
  <2>1. CASE j = k
    <3> DEFINE p == [by |-> q, shift |-> j, op |-> "alert"]
    <3>1. Alerting(k)' = Alerting(k) \cup {p}
      BY <1>3, <2>1 DEF LocationUpdate, Alerting
    <3>2. p \notin Alerting(k)
      BY <1>3 DEF LocationUpdate, Idle, Alerting
    <3> HIDE DEF p
    <3>3. IsFiniteSet(Alerting(k)') /\ Cardinality(Alerting(k)') = n + 1
      BY <1>0, <3>1, <3>2, FS_AddElement
    <3>4. alerts'[k] = alerts[k] /\ fast'[k] = fast[k] + 1
      BY <1>3, <2>1 DEF LocationUpdate
    <3> QED
      BY <1>0, <3>3, <3>4 DEF AlertsCovered
  <2>2. CASE j # k
    BY <1>1, <1>3, <2>2 DEF LocationUpdate, Alerting
  <2> QED
    BY <2>1, <2>2
<1>4. ASSUME NEW p \in inflight, SpeedingAlert(p) PROVE AlertsCovered(k)'
  <2>0. p.shift \in Shift
    BY DEF Pending
  <2>1. CASE p.shift = k
    <3>1. Alerting(k)' = Alerting(k) \ {p} /\ p \in Alerting(k)
      BY <1>4, <2>1 DEF SpeedingAlert, Alerting
    <3>2. IsFiniteSet(Alerting(k)') /\ Cardinality(Alerting(k)') = n - 1
      BY <1>0, <3>1, FS_RemoveElement
    <3>3. alerts'[k] = alerts[k] + 1 /\ fast'[k] = fast[k]
      BY <1>4, <2>1 DEF SpeedingAlert
    <3> QED
      BY <1>0, <3>2, <3>3 DEF AlertsCovered
  <2>2. CASE p.shift # k
    BY <1>1, <1>4, <2>0, <2>2 DEF SpeedingAlert, Alerting
  <2> QED
    BY <2>1, <2>2
<1>5. ASSUME NEW p \in inflight, Drop(p) PROVE AlertsCovered(k)'
  BY <1>2, <1>5 DEF Drop, rows, Alerting
<1>6. ASSUME NEW j \in Shift, NEW s \in Status, NEW km \in Km \cup {None}, SetStatus(j, s, km)
      PROVE  AlertsCovered(k)'
  <2>1. Alerting(k)' = Alerting(k)
    BY <1>6, CompletingKeeps DEF SetStatus, Alerting
  <2> QED
    BY <1>1, <1>6, <2>1 DEF SetStatus, rows
<1>7. ASSUME NEW p \in inflight, WriteComplete(p) PROVE AlertsCovered(k)'
  <2>1. p.shift \in Shift
    BY DEF Pending
  <2>2. Alerting(k)' = Alerting(k)
    BY <1>7, <2>1, CompletingKeeps DEF WriteComplete, Alerting
  <2> QED
    BY <1>1, <1>7, <2>2 DEF WriteComplete, rows
<1>8. ASSUME NEW p \in inflight, MoveOn(p) PROVE AlertsCovered(k)'
  <2>1. p \in [by : Request, shift : Shift, op : {"progress", "stop", "alert", "notice"}]
    BY <1>8 DEF MoveOn, Pending
  <2>2. [p EXCEPT !.op = "stop"].op = "stop"
    BY <2>1
  <2>3. Alerting(k)' = Alerting(k)
    BY <1>8, <2>2 DEF MoveOn, Alerting
  <2> QED
    BY <1>1, <1>8, <2>3 DEF MoveOn, rows
<1>9. ASSUME NEW q \in Request, NEW j \in Shift, CheckStop(q, j) PROVE AlertsCovered(k)'
  BY <1>1, <1>9 DEF CheckStop, rows, Alerting
<1>10. ASSUME NEW q \in Request, NEW j \in Shift, NEW km \in Km,
              CheckStart(q, j, km) \/ CheckComplete(q, j, km)
       PROVE  AlertsCovered(k)'
  BY <1>1, <1>10 DEF CheckStart, CheckComplete, rows, Alerting
<1>11. ASSUME NEW q \in Request, NEW j \in Shift, StopTruck(q, j) PROVE AlertsCovered(k)'
  BY <1>1, <1>11 DEF StopTruck, rows, Alerting
<1>12. ASSUME NEW p \in inflight, AddStop(p) \/ WriteStart(p) \/ NotifyBreakdown(p)
       PROVE  AlertsCovered(k)'
  BY <1>1, <1>12 DEF AddStop, WriteStart, NotifyBreakdown, rows, Alerting
<1>13. ASSUME NEW j \in Shift, Checkpoint(j) \/ Repair(j) PROVE AlertsCovered(k)'
  BY <1>1, <1>13 DEF Checkpoint, Repair, rows, Alerting
<1>14. CASE UNCHANGED vars
  BY <1>1, <1>14 DEF vars, rows, Alerting
<1> QED
  BY <1>3, <1>4, <1>5, <1>6, <1>7, <1>8, <1>9, <1>10, <1>11, <1>12, <1>13, <1>14
     DEF Next, Desk, Telephone, Stream

-----------------------------------------------------------------------------
LEMMA StepIInv == IInv /\ [Next]_vars => IInv'
<1> SUFFICES ASSUME IInv, [Next]_vars PROVE IInv'
  OBVIOUS
<1>1. TypeOK /\ TypeOK'
  BY TypeStep DEF IInv
<1>2. \A k \in Shift : RowStep(k)
  BY <1>1, RowSteps DEF IInv
<1>3. CompletionComesLast'
  BY <1>2 DEF IInv, RowStep, CompletionComesLast, TimelineEnds
<1>4. StartedHaveTimes'
  BY <1>2 DEF IInv, RowStep, StartedHaveTimes, IsSet
<1>5. Admitted'
  <2>1. ASSUME NEW p \in inflight', p.op = "progress" PROVE IsSet(p.shift, "startedAt")'
    <3>1. p.shift \in Shift /\ IsSet(p.shift, "startedAt")
      <4>1. CASE p \in inflight
        BY <1>1, <2>1, <4>1 DEF IInv, Admitted, TypeOK, Pending
      <4>2. CASE p \notin inflight
        BY <1>1, <2>1, <4>2, NewRequests DEF IInv, StartedHaveTimes
      <4> QED
        BY <4>1, <4>2
    <3> QED
      BY <1>2, <3>1 DEF RowStep, IsSet
  <2>2. ASSUME NEW p \in inflight', p.op = "complete" PROVE ~TooSmall(p.km, p.start)
    BY <1>1, <2>2, NewRequests DEF IInv, Admitted
  <2> QED
    BY <2>1, <2>2 DEF Admitted
<1>6. AlertsAreFinite' /\ AlertsAreFounded'
  BY <1>1, AlertsStep DEF IInv, AlertsAreFinite, AlertsAreFounded, AlertsCovered
<1> QED
  BY <1>1, <1>3, <1>4, <1>5, <1>6 DEF IInv

LEMMA JourneyInvariant == Spec => []IInv
  BY InitIInv, StepIInv, PTL DEF Spec

\* The variables of a journey keep their types.
THEOREM JourneyTypeCorrect == Spec => []TypeOK
<1>1. IInv => TypeOK
  BY DEF IInv
<1> QED
  BY <1>1, JourneyInvariant, PTL

\* In the timeline of a completed shift the completion comes last: updateStatus and
\* completeShift stamp it anew, and whatever stamps a start takes the shift back.
THEOREM CompletionIsLast == Spec => []CompletionComesLast
<1>1. IInv => CompletionComesLast
  BY DEF IInv
<1> QED
  BY <1>1, JourneyInvariant, PTL

\* No speeding alert without its breadcrumb, whichever updates overlap and die.
THEOREM AlertsHaveBreadcrumbs == Spec => []AlertsAreFounded
<1>1. IInv => AlertsAreFounded
  BY DEF IInv
<1> QED
  BY <1>1, JourneyInvariant, PTL

\* The live map shows no shift without a time of start, but those the desk itself puts
\* IN_PROGRESS.
THEOREM MapIsTimed == Spec => MapShowsStarted
<1>1. ASSUME IInv, [Next]_vars
      PROVE  \A k \in LiveMap' \ LiveMap : IsSet(k, "startedAt")' \/ inflight' = inflight
  <2>1. \A k \in Shift : RowStep(k)
    BY <1>1, RowSteps DEF IInv
  <2>2. ASSUME NEW k \in LiveMap' \ LiveMap
        PROVE  IsSet(k, "startedAt")' \/ inflight' = inflight
    <3>1. k \in Shift /\ shift'[k] # shift[k] /\ shift'[k].status \in {"STARTED", "IN_PROGRESS"}
      BY <2>2 DEF LiveMap
    <3> QED
      BY <2>1, <3>1 DEF RowStep, IsSet
  <2> QED
    BY <2>2
<1> QED
  BY <1>1, JourneyInvariant, PTL DEF Spec, MapShowsStarted

-----------------------------------------------------------------------------
\* Only its own write takes a completion from the requests in progress and changes a row.
LEMMA WhoCompletes ==
  ASSUME TypeOK, [Next]_vars, NEW p \in inflight \ inflight', p.op = "complete",
         shift[p.shift] # shift'[p.shift]
  PROVE  WriteComplete(p)
<1> USE DEF TypeOK
<1>1. shift' # shift
  OBVIOUS
<1>2. ASSUME NEW k \in Shift, NEW s \in Status, NEW km \in Km \cup {None}, SetStatus(k, s, km)
      PROVE  FALSE
  BY <1>2, CompletingKeeps DEF SetStatus
<1>3. ASSUME NEW o \in inflight, MoveOn(o) \/ WriteStart(o) PROVE FALSE
  BY <1>3 DEF MoveOn, WriteStart
<1>4. ASSUME NEW o \in inflight, WriteComplete(o) PROVE o = p
  <2>1. o.shift \in Shift
    BY DEF Pending
  <2> QED
    BY <1>4, <2>1, CompletingKeeps DEF WriteComplete
<1> QED
  BY <1>1, <1>2, <1>3, <1>4 DEF Next, Desk, Telephone, Stream, vars, CheckStop, AddStop,
     CheckStart, CheckComplete, Checkpoint, StopTruck, NotifyBreakdown, LocationUpdate,
     SpeedingAlert, Repair, Drop

\* The distance completeShift answers is the one every view shows, unless the start
\* reading was written after its test.
THEOREM AnswersAgreeWithViews == Spec => AnswersAgree
<1>1. ASSUME IInv, [Next]_vars
      PROVE  \A p \in inflight \ inflight' :
                 p.op = "complete" /\ shift'[p.shift].status = "COMPLETED"
                     /\ shift[p.shift] # shift'[p.shift] =>
                     \/ Answered(p) = Distance(p.shift)'
                     \/ p.start # shift[p.shift].start
  <2> SUFFICES ASSUME NEW p \in inflight \ inflight', p.op = "complete",
                      shift[p.shift] # shift'[p.shift], p.start = shift[p.shift].start
               PROVE  Answered(p) = Distance(p.shift)'
    OBVIOUS
  <2>1. TypeOK
    BY <1>1 DEF IInv
  <2>2. p \in [by : Request, shift : Shift, op : {"complete"}, km : Km, start : Km \cup {None}]
    BY <2>1 DEF TypeOK, Pending
  <2>3. WriteComplete(p)
    BY <1>1, <2>1, WhoCompletes
  <2>4. shift[p.shift] \in Row
    BY <2>1, <2>2 DEF TypeOK
  <2>5. shift'[p.shift].start = p.start /\ shift'[p.shift].end = p.km
    BY <2>1, <2>2, <2>3, <2>4 DEF TypeOK, WriteComplete, Row
  <2>6. ~TooSmall(p.km, p.start)
    BY <1>1 DEF IInv, Admitted
  <2>7. p.km \in Nat /\ p.km # None
    BY <2>2
  <2>8. CASE p.start = None
    BY <2>5, <2>8 DEF Answered, Distance
  <2>9. CASE p.start # None
    <3>0. p.start \in Nat
      BY <2>2, <2>9
    <3>1. p.start \in Nat /\ p.start <= p.km
      BY <3>0, <2>6, <2>7, <2>9 DEF TooSmall
    <3> QED
      BY <2>5, <2>7, <2>9, <3>1 DEF Answered, Distance
  <2> QED
    BY <2>8, <2>9
<1> QED
  BY <1>1, JourneyInvariant, PTL DEF Spec, AnswersAgree
=============================================================================
