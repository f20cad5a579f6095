----------------------------- MODULE Dispatches -----------------------------
(***************************************************************************)
(* Vehicles, drivers and their shifts: src/src/modules/vehicles,            *)
(* src/src/modules/dispatches (the dispatch desk) and                       *)
(* src/src/modules/driver-app (the driver's telephone).                     *)
(*                                                                         *)
(* createDispatch reads the vehicle, then the driver (another database),    *)
(* then looks for an overlapping shift, and then inserts: four awaits, no   *)
(* transaction, no unique key behind them.  The handlers of the telephone   *)
(* and recordStop test what they have read and write without a test.        *)
(* `inflight' holds these requests between two awaits.  The handlers whose  *)
(* write depends on nothing they have read but the row's existence are one  *)
(* step, and so are the telephone's two reads: of the employee, whom        *)
(* nothing but a dismissal changes, and of his shift.                       *)
(*                                                                         *)
(* The column complianceStatus is only read here.  That the office grounds  *)
(* a vehicle or a driver is one step of the environment, Ground; module     *)
(* Fleet puts the real one, module Compliance, in its place.                *)
(*                                                                         *)
(* Left out, because no handler tests them: the stop logs and startedAt     *)
(* (written, never read), the odometers (completeShift may refuse a         *)
(* reading: then it changes nothing), the other columns of a vehicle.       *)
(***************************************************************************)
EXTENDS FiniteSets

CONSTANTS
    Vehicle,    \* primary keys of waste_vehicles
    Driver,     \* primary keys of employees who drive
    Slot,       \* pairs of dispatchDate and shiftName
    Dispatch,   \* primary keys of dispatch_assignments
    Request     \* HTTP requests that may be in progress at once

\* compliance is one function over both tables.
ASSUME VehiclesAreNotDrivers == Vehicle \cap Driver = {}

VARIABLES
    vehicle,    \* vehicle[v]: status of the row v
    employed,   \* the drivers whose employee row is not soft-deleted
    dispatch,   \* dispatch[k]: the row k, NoDispatch before the insert
    inflight,   \* requests between two awaits
    compliance  \* compliance[e] of every vehicle and driver

vars == <<vehicle, employed, dispatch, inflight, compliance>>

\* "absent" before the insert, "deleted" once deletedAt is set.  UNDER_MAINTENANCE
\* stands for OUT_OF_SERVICE too: the handlers only ask for ACTIVE.
VehicleStatus == {"ACTIVE", "UNDER_MAINTENANCE"}
DispatchStatus == {"ASSIGNED", "STARTED", "IN_PROGRESS", "COMPLETED", "CANCELLED"}

\* No code sets deletedAt of a dispatch.
DispatchRow == [status : DispatchStatus, vehicle : Vehicle, driver : Driver, slot : Slot]
NoDispatch == [status |-> "absent"]

\* A createDispatch in progress: op is what it has to do next.
Creating == [by : Request, op : {"driver", "overlap", "insert"},
             vehicle : Vehicle, driver : Driver, slot : Slot]

\* A request that is about to write a shift or its vehicle: the driver's startShift,
\* completeShift or breakdown report, or the desk's recordStop ("progress").
OnShift == [by : Request, op : {"start", "progress", "complete", "breakdown"},
            dispatch : Dispatch]

\* The types of the variables.
TypeOK ==
    /\ vehicle \in [Vehicle -> VehicleStatus \cup {"absent", "deleted"}]
    /\ employed \subseteq Driver
    /\ dispatch \in [Dispatch -> DispatchRow \cup {NoDispatch}]
    /\ inflight \subseteq Creating \cup OnShift
    /\ compliance \in [Vehicle \cup Driver -> {"COMPLIANT", "NON_COMPLIANT"}]

Init ==
    /\ vehicle = [v \in Vehicle |-> "absent"]
    /\ employed = Driver
    /\ dispatch = [k \in Dispatch |-> NoDispatch]
    /\ inflight = {}
    /\ compliance = [e \in Vehicle \cup Driver |-> "COMPLIANT"]

InUse(v) == vehicle[v] \in VehicleStatus
Exists(k) == dispatch[k] # NoDispatch
Idle(q) == \A w \in inflight : w.by # q

\* The statuses findOverlappingDispatch leaves out.
Closed == {"CANCELLED", "COMPLETED"}

-----------------------------------------------------------------------------
\* createVehicle: a vehicle starts COMPLIANT, as Init says.
CreateVehicle(v) ==
    /\ vehicle[v] = "absent"
    /\ \E s \in VehicleStatus : vehicle' = [vehicle EXCEPT ![v] = s]
    /\ UNCHANGED <<employed, dispatch, inflight, compliance>>

\* updateVehicle may set any status.
UpdateVehicle(v) ==
    /\ InUse(v)
    /\ \E s \in VehicleStatus : vehicle' = [vehicle EXCEPT ![v] = s]
    /\ UNCHANGED <<employed, dispatch, inflight, compliance>>

RemoveVehicle(v) ==
    /\ InUse(v)
    /\ vehicle' = [vehicle EXCEPT ![v] = "deleted"]
    /\ UNCHANGED <<employed, dispatch, inflight, compliance>>

\* EmployeesService.delete: soft deletion.
DismissDriver(d) ==
    /\ d \in employed
    /\ employed' = employed \ {d}
    /\ UNCHANGED <<vehicle, dispatch, inflight, compliance>>

-----------------------------------------------------------------------------
\* Request w goes on as the set next of at most one request.
GoesOn(w, next) ==
    /\ inflight' = (inflight \ {w}) \cup next
    /\ UNCHANGED <<vehicle, employed, compliance>>

\* Mutant of CheckVehicle: the compliance of the vehicle is not tested.
CheckVehicleActiveOnly(q, v, d, s) ==
    /\ Idle(q)
    /\ vehicle[v] = "ACTIVE"
    /\ inflight' = inflight \cup
          {[by |-> q, op |-> "driver", vehicle |-> v, driver |-> d, slot |-> s]}
    /\ UNCHANGED <<vehicle, employed, dispatch, compliance>>

\* createDispatch, part 1: the vehicle is there, ACTIVE and not NON_COMPLIANT.
CheckVehicle(q, v, d, s) ==
    /\ Idle(q)
    /\ vehicle[v] = "ACTIVE" /\ compliance[v] = "COMPLIANT"
    /\ inflight' = inflight \cup
          {[by |-> q, op |-> "driver", vehicle |-> v, driver |-> d, slot |-> s]}
    /\ UNCHANGED <<vehicle, employed, dispatch, compliance>>

\* Part 2: the driver is employed and not NON_COMPLIANT.
CheckDriver(w) ==
    /\ w.op = "driver"
    /\ w.driver \in employed /\ compliance[w.driver] = "COMPLIANT"
    /\ GoesOn(w, {[w EXCEPT !.op = "overlap"]})
    /\ UNCHANGED dispatch

\* Mutant of Overlaps: the query looks for the vehicle only.
OverlapsVehicleOnly(w, k) ==
    /\ Exists(k) /\ dispatch[k].slot = w.slot /\ dispatch[k].status \notin Closed
    /\ dispatch[k].vehicle = w.vehicle

\* findOverlappingDispatch: an open shift of the same slot with the same vehicle or
\* the same driver.
Overlaps(w, k) ==
    /\ Exists(k) /\ dispatch[k].slot = w.slot /\ dispatch[k].status \notin Closed
    /\ dispatch[k].vehicle = w.vehicle \/ dispatch[k].driver = w.driver

\* Part 3: no overlapping shift.
CheckOverlap(w) ==
    /\ w.op = "overlap"
    /\ \A k \in Dispatch : ~Overlaps(w, k)
    /\ GoesOn(w, {[w EXCEPT !.op = "insert"]})
    /\ UNCHANGED dispatch

\* Part 4: the insert.
InsertDispatch(w, k) ==
    /\ w.op = "insert" /\ ~Exists(k)
    /\ dispatch' = [dispatch EXCEPT ![k] =
          [status |-> "ASSIGNED", vehicle |-> w.vehicle, driver |-> w.driver,
           slot |-> w.slot]]
    /\ GoesOn(w, {})

\* A check throws, an update throws, or the process dies: the request ends here.
Drop(w) == GoesOn(w, {}) /\ UNCHANGED dispatch

-----------------------------------------------------------------------------
\* The desk's updateStatus: any status, at any time.
UpdateStatus(k, s) ==
    /\ Exists(k)
    /\ dispatch' = [dispatch EXCEPT ![k].status = s]
    /\ UNCHANGED <<vehicle, employed, inflight, compliance>>

\* Request q is admitted to operation op on shift k.
Admit(q, op, k) ==
    /\ inflight' = inflight \cup {[by |-> q, op |-> op, dispatch |-> k]}
    /\ UNCHANGED <<vehicle, employed, dispatch, compliance>>

\* The desk's recordStop on a STARTED shift: findOne and the test of the status; the
\* update to IN_PROGRESS is still to come.  On a shift IN_PROGRESS it only logs.
CheckStop(q, k) ==
    /\ Idle(q) /\ Exists(k) /\ dispatch[k].status = "STARTED"
    /\ Admit(q, "progress", k)

\* What every handler of the telephone starts with: the caller is an employee and the
\* shift is his.
OwnShift(q, k) == Idle(q) /\ Exists(k) /\ dispatch[k].driver \in employed

\* Mutant of CheckStart: the status is not tested.
CheckStartAnyStatus(q, k) ==
    /\ OwnShift(q, k)
    /\ compliance[dispatch[k].vehicle] = "COMPLIANT"
    /\ Admit(q, "start", k)

\* startShift: the shift is not COMPLETED (CANCELLED passes), and the vehicle is not
\* NON_COMPLIANT (its status is not looked at).
CheckStart(q, k) ==
    /\ OwnShift(q, k)
    /\ dispatch[k].status # "COMPLETED"
    /\ compliance[dispatch[k].vehicle] = "COMPLIANT"
    /\ Admit(q, "start", k)

\* completeShift and reportEmergencyBreakdown do not test the status of the shift.
CheckComplete(q, k) == OwnShift(q, k) /\ Admit(q, "complete", k)
CheckBreakdown(q, k) == OwnShift(q, k) /\ Admit(q, "breakdown", k)

\* The update that ends startShift, or the first one of recordStop.
SetInProgress(w) ==
    /\ w.op \in {"start", "progress"}
    /\ dispatch' = [dispatch EXCEPT ![w.dispatch].status = "IN_PROGRESS"]
    /\ GoesOn(w, {})

CompleteShift(w) ==
    /\ w.op = "complete"
    /\ dispatch' = [dispatch EXCEPT ![w.dispatch].status = "COMPLETED"]
    /\ GoesOn(w, {})

\* The truck goes to maintenance; one that is deleted stays deleted.
ToMaintenance(v) ==
    vehicle' = IF InUse(v) THEN [vehicle EXCEPT ![v] = "UNDER_MAINTENANCE"] ELSE vehicle

\* The first write of reportEmergencyBreakdown.  The notification that follows it in
\* the other database is left out.
ReportBreakdown(w) ==
    /\ w.op = "breakdown"
    /\ ToMaintenance(dispatch[w.dispatch].vehicle)
    /\ inflight' = inflight \ {w}
    /\ UNCHANGED <<employed, dispatch, compliance>>

\* The environment: the compliance office grounds vehicle or driver e.
Ground(e) ==
    /\ compliance' = [compliance EXCEPT ![e] = "NON_COMPLIANT"]
    /\ UNCHANGED <<vehicle, employed, dispatch, inflight>>

-----------------------------------------------------------------------------
MasterData ==
    \/ \E v \in Vehicle : CreateVehicle(v) \/ UpdateVehicle(v) \/ RemoveVehicle(v)
    \/ \E d \in Driver : DismissDriver(d)

Create ==
    \/ \E q \in Request, v \in Vehicle, d \in Driver, s \in Slot : CheckVehicle(q, v, d, s)
    \/ \E w \in inflight : \/ CheckDriver(w) \/ CheckOverlap(w)
                           \/ \E k \in Dispatch : InsertDispatch(w, k)

Shift ==
    \/ \E k \in Dispatch :
          \/ \E s \in DispatchStatus : UpdateStatus(k, s)
          \/ \E q \in Request : \/ CheckStop(q, k) \/ CheckStart(q, k)
                                \/ CheckComplete(q, k) \/ CheckBreakdown(q, k)
    \/ \E w \in inflight : SetInProgress(w) \/ CompleteShift(w) \/ ReportBreakdown(w)

DeskNext == MasterData \/ Create \/ Shift \/ \E w \in inflight : Drop(w)

Next == DeskNext \/ \E e \in Vehicle \cup Driver : Ground(e)

Spec == Init /\ [][Next]_vars

-----------------------------------------------------------------------------
\* Two open shifts of one slot share the vehicle or the driver.
Clash(j, k) ==
    /\ j # k /\ Exists(j) /\ Exists(k)
    /\ dispatch[j].slot = dispatch[k].slot
    /\ dispatch[j].status \notin Closed /\ dispatch[k].status \notin Closed
    /\ dispatch[j].vehicle = dispatch[k].vehicle \/ dispatch[j].driver = dispatch[k].driver

\* What the 409 of POST /dispatches announces: no vehicle and no driver is on two
\* open shifts of the same slot.  This does NOT hold: two requests may both look for
\* an overlap before either inserts.
NoDoubleBooking == \A j, k \in Dispatch : ~Clash(j, k)

\* The createDispatch requests that have passed the test of vehicle or driver e.
PastTest(e) ==
    {w.by : w \in {u \in inflight : \/ u.op \in {"driver", "overlap", "insert"} /\ u.vehicle = e
                                    \/ u.op \in {"overlap", "insert"} /\ u.driver = e}}

\* The shifts on record for vehicle or driver e.
ShiftsOf(e) == {k \in Dispatch : Exists(k) /\ e \in {dispatch[k].vehicle, dispatch[k].driver}}

\* The compliance guard drains: once e is NON_COMPLIANT no further request passes its
\* test, and when the ones that had passed it before are gone e gets no new shift.
GroundingDrains ==
    [][\A e \in Vehicle \cup Driver : compliance[e] = "NON_COMPLIANT" =>
          /\ PastTest(e)' \subseteq PastTest(e)
          /\ PastTest(e) = {} => ShiftsOf(e)' = ShiftsOf(e)
      ]_vars

\* The requests that may still take shift k back to IN_PROGRESS.
Reopeners(k) ==
    {w.by : w \in {u \in inflight : u.op \in {"start", "progress"} /\ u.dispatch = k}}

\* Completion drains in the same way: no start and no first stop is admitted on a
\* COMPLETED shift, and when the ones admitted before are gone only the desk's
\* updateStatus (which no other request is part of) takes the shift out of COMPLETED.
CompletionDrains ==
    [][\A k \in Dispatch : dispatch[k].status = "COMPLETED" =>
          /\ Reopeners(k)' \subseteq Reopeners(k)
          /\ Reopeners(k) = {} /\ dispatch'[k].status # "COMPLETED" => UNCHANGED inflight
      ]_vars
=============================================================================
