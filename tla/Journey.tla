------------------------------ MODULE Journey ------------------------------
(***************************************************************************)
(* What is recorded of a shift on the road, and what the views make of it:  *)
(* src/src/modules/driver-app (the telephone), the desk's status and stops  *)
(* (src/src/modules/dispatches), the location stream of                     *)
(* src/src/modules/gis/gis.gateway.ts and the timeline of gis.service.ts.   *)
(* Dispatches says who may get a shift; here it is already there.           *)
(*                                                                         *)
(* The telephone reads the shift, tests it and writes it in another await;  *)
(* a location update writes the breadcrumb in one database and the speeding *)
(* alert in the other, a breakdown report the truck in one and the          *)
(* notification in the other.  `inflight' holds the requests in between.    *)
(*                                                                         *)
(* Of the two timestamps startedAt and completedAt only their order is      *)
(* kept, which is all the timeline shows; a start that has read a startedAt *)
(* writes the old value again.  Left out: positions and weights             *)
(* of stops, the reads that change nothing (ETA, driver's name), the        *)
(* channel to other nodes and the sockets, the refusal of a grounded truck  *)
(* (Dispatches), and that a notification has been read.                     *)
(***************************************************************************)
EXTENDS Naturals, FiniteSets

CONSTANTS
    Shift,      \* primary keys of dispatch_assignments, each with a truck of its own
    Km,         \* odometer readings
    None,       \* a column that is null
    Request,    \* requests that may be in progress at once
    MaxRows     \* bound on the stops, breadcrumbs and breakdown notices of a shift

Stamp == {"startedAt", "completedAt"}

ASSUME JourneyAssumption ==
    Km \subseteq Nat /\ None \notin Km /\ None \notin Stamp /\ MaxRows \in Nat

VARIABLES
    shift,      \* shift[k]: status, odometers and timestamps of the row k
    stops,      \* stops[k]: the number of its stop logs
    fast,       \* fast[k]: the number of its breadcrumbs above the speed limit
    alerts,     \* alerts[k]: notification_logs with createdBy dispatch:k
    truck,      \* truck[k]: status of its vehicle
    notices,    \* notices[k]: breakdown notifications, createdBy driver:...
    inflight    \* requests between two awaits

vars == <<shift, stops, fast, alerts, truck, notices, inflight>>
rows == <<stops, fast, alerts>>
breakdown == <<truck, notices>>

Status == {"ASSIGNED", "STARTED", "IN_PROGRESS", "COMPLETED", "CANCELLED"}

\* stamps: the timestamps that are set; last: the later one.
Row == [status : Status, start : Km \cup {None}, end : Km \cup {None},
        stamps : SUBSET Stamp, last : Stamp \cup {None}]

\* last of a start that has read a startedAt: the later timestamp once it is written
\* back; None: it sets startedAt to the present.
Pending ==
    [by : Request, shift : Shift, op : {"progress", "stop", "alert", "notice"}]
    \cup [by : Request, shift : Shift, op : {"start"}, km : Km, last : Stamp \cup {None}]
    \cup [by : Request, shift : Shift, op : {"complete"}, km : Km, start : Km \cup {None}]

\* The types of the variables.
TypeOK ==
    /\ shift \in [Shift -> Row]
    /\ stops \in [Shift -> 0..MaxRows]
    /\ fast \in [Shift -> 0..MaxRows]
    /\ alerts \in [Shift -> 0..MaxRows]
    /\ truck \in [Shift -> {"ACTIVE", "UNDER_MAINTENANCE"}]
    /\ notices \in [Shift -> 0..MaxRows]
    /\ inflight \subseteq Pending

\* DispatchesRepository.create: the defaults of the schema.
Init ==
    /\ shift = [k \in Shift |-> [status |-> "ASSIGNED", start |-> None, end |-> None,
                               stamps |-> {}, last |-> None]]
    /\ stops = [k \in Shift |-> 0]
    /\ fast = [k \in Shift |-> 0]
    /\ alerts = [k \in Shift |-> 0]
    /\ truck = [k \in Shift |-> "ACTIVE"]
    /\ notices = [k \in Shift |-> 0]
    /\ inflight = {}

Idle(q) == \A p \in inflight : p.by # q

IsSet(k, t) == t \in shift[k].stamps

\* Requests in progress when k is completed: what they have read of k is older.
Completing(k) ==
    {IF p.op = "start" /\ p.shift = k /\ p.last # None THEN [p EXCEPT !.last = "completedAt"]
     ELSE p : p \in inflight}

-----------------------------------------------------------------------------
\* The timestamp the desk sets with a status.
StampOf(s) == CASE s = "STARTED" -> "startedAt" [] s = "COMPLETED" -> "completedAt" [] OTHER -> None

\* DispatchesService.updateStatus: any status, and no test of the reading km.
SetStatus(k, s, km) ==
    /\ shift' = [shift EXCEPT ![k].status = s,
                    ![k].start = IF s = "STARTED" /\ km # None THEN km ELSE @,
                    ![k].end = IF s = "COMPLETED" /\ km # None THEN km ELSE @,
                    ![k].stamps = @ \cup ({StampOf(s)} \ {None}),
                    ![k].last = IF StampOf(s) = None THEN @ ELSE StampOf(s)]
    /\ inflight' = IF s = "COMPLETED" THEN Completing(k) ELSE inflight
    /\ UNCHANGED <<rows, breakdown>>

\* Mutant of CheckStop: a shift that is only assigned moves on, too.
CheckStopAssigned(q, k) ==
    /\ Idle(q)
    /\ shift[k].status \in {"ASSIGNED", "STARTED", "IN_PROGRESS"}
    /\ inflight' = inflight \cup
          {[by |-> q, shift |-> k,
            op |-> IF shift[k].status # "IN_PROGRESS" THEN "progress" ELSE "stop"]}
    /\ UNCHANGED <<shift, rows, breakdown>>

\* DispatchesService.recordStop: a stop needs a shift under way; the first one moves it on.
CheckStop(q, k) ==
    /\ Idle(q)
    /\ shift[k].status \in {"STARTED", "IN_PROGRESS"}
    /\ inflight' = inflight \cup
          {[by |-> q, shift |-> k,
            op |-> IF shift[k].status = "STARTED" THEN "progress" ELSE "stop"]}
    /\ UNCHANGED <<shift, rows, breakdown>>

MoveOn(p) ==
    /\ p.op = "progress"
    /\ shift' = [shift EXCEPT ![p.shift].status = "IN_PROGRESS"]
    /\ inflight' = (inflight \ {p}) \cup {[p EXCEPT !.op = "stop"]}
    /\ UNCHANGED <<rows, breakdown>>

AddStop(p) ==
    /\ p.op = "stop"
    /\ stops[p.shift] < MaxRows
    /\ stops' = [stops EXCEPT ![p.shift] = @ + 1]
    /\ inflight' = inflight \ {p}
    /\ UNCHANGED <<shift, fast, alerts, breakdown>>

-----------------------------------------------------------------------------
\* DriverAppService.startShift: refused once COMPLETED.
CheckStart(q, k, km) ==
    /\ Idle(q)
    /\ shift[k].status # "COMPLETED"
    /\ inflight' = inflight \cup
          {[by |-> q, shift |-> k, op |-> "start", km |-> km,
            last |-> IF IsSet(k, "startedAt") THEN shift[k].last ELSE None]}
    /\ UNCHANGED <<shift, rows, breakdown>>

\* startedAt: the value that was read, or the present.
WriteStart(p) ==
    /\ p.op = "start"
    /\ shift' = [shift EXCEPT ![p.shift].status = "IN_PROGRESS",
                    ![p.shift].start = p.km,
                    ![p.shift].stamps = @ \cup {"startedAt"},
                    ![p.shift].last = IF p.last = None THEN "startedAt" ELSE p.last]
    /\ inflight' = inflight \ {p}
    /\ UNCHANGED <<rows, breakdown>>

\* DriverAppService.recordStopCheckpoint: whatever the status.
Checkpoint(k) ==
    /\ stops[k] < MaxRows
    /\ stops' = [stops EXCEPT ![k] = @ + 1]
    /\ UNCHANGED <<shift, fast, alerts, breakdown, inflight>>

\* Mutant of TooSmall: no reading is refused.
TooSmallNever(km, start) == FALSE

\* The test of completeShift: a start that is null or 0 is not compared with.
TooSmall(km, start) == start # None /\ start # 0 /\ km < start

\* DriverAppService.completeShift: whatever the status.
CheckComplete(q, k, km) ==
    /\ Idle(q)
    /\ ~TooSmall(km, shift[k].start)
    /\ inflight' = inflight \cup
          {[by |-> q, shift |-> k, op |-> "complete", km |-> km, start |-> shift[k].start]}
    /\ UNCHANGED <<shift, rows, breakdown>>

\* Mutant of WriteComplete: a time of completion that is there is kept.
WriteCompleteOnce(p) ==
    /\ p.op = "complete"
    /\ shift' = [shift EXCEPT ![p.shift].status = "COMPLETED",
                    ![p.shift].end = p.km,
                    ![p.shift].stamps = @ \cup {"completedAt"},
                    ![p.shift].last = IF IsSet(p.shift, "completedAt") THEN @ ELSE "completedAt"]
    /\ inflight' = Completing(p.shift) \ {p}
    /\ UNCHANGED <<rows, breakdown>>

WriteComplete(p) ==
    /\ p.op = "complete"
    /\ shift' = [shift EXCEPT ![p.shift].status = "COMPLETED",
                    ![p.shift].end = p.km,
                    ![p.shift].stamps = @ \cup {"completedAt"},
                    ![p.shift].last = "completedAt"]
    /\ inflight' = Completing(p.shift) \ {p}
    /\ UNCHANGED <<rows, breakdown>>

-----------------------------------------------------------------------------
\* DriverAppService.reportEmergencyBreakdown: first the truck, whatever the status.
StopTruck(q, k) ==
    /\ Idle(q)
    /\ truck' = [truck EXCEPT ![k] = "UNDER_MAINTENANCE"]
    /\ inflight' = inflight \cup {[by |-> q, shift |-> k, op |-> "notice"]}
    /\ UNCHANGED <<shift, rows, notices>>

\* Then, in the other database, the notification.
NotifyBreakdown(p) ==
    /\ p.op = "notice"
    /\ notices[p.shift] < MaxRows
    /\ notices' = [notices EXCEPT ![p.shift] = @ + 1]
    /\ inflight' = inflight \ {p}
    /\ UNCHANGED <<shift, rows, truck>>

\* VehiclesService.updateVehicle: the truck is back.
Repair(k) ==
    /\ truck[k] = "UNDER_MAINTENANCE"
    /\ truck' = [truck EXCEPT ![k] = "ACTIVE"]
    /\ UNCHANGED <<shift, rows, notices, inflight>>

\* Mutant of LocationUpdate: the alert is written before the breadcrumb.
LocationUpdateAlertFirst(q, k) ==
    /\ Idle(q)
    /\ fast[k] < MaxRows /\ alerts[k] < MaxRows
    /\ alerts' = [alerts EXCEPT ![k] = @ + 1]
    /\ inflight' = inflight \cup {[by |-> q, shift |-> k, op |-> "alert"]}
    /\ UNCHANGED <<shift, stops, fast, breakdown>>

\* GisGateway.handleDriverLocationUpdate above the limit, whatever the status: the
\* breadcrumb.  Below the limit nothing follows it, and it is not counted.
LocationUpdate(q, k) ==
    /\ Idle(q)
    /\ fast[k] < MaxRows
    /\ fast' = [fast EXCEPT ![k] = @ + 1]
    /\ inflight' = inflight \cup {[by |-> q, shift |-> k, op |-> "alert"]}
    /\ UNCHANGED <<shift, stops, alerts, breakdown>>

\* Then, in the other database, the alert; what follows reads and broadcasts.
SpeedingAlert(p) ==
    /\ p.op = "alert"
    /\ alerts[p.shift] < MaxRows
    /\ alerts' = [alerts EXCEPT ![p.shift] = @ + 1]
    /\ inflight' = inflight \ {p}
    /\ UNCHANGED <<shift, stops, fast, breakdown>>

\* A call to the database fails: an answer with an error, nothing undone.
Drop(p) ==
    /\ inflight' = inflight \ {p}
    /\ UNCHANGED <<shift, rows, breakdown>>

-----------------------------------------------------------------------------
Desk ==
    \/ \E k \in Shift, s \in Status, km \in Km \cup {None} : SetStatus(k, s, km)
    \/ \E q \in Request, k \in Shift : CheckStop(q, k)
    \/ \E p \in inflight : MoveOn(p) \/ AddStop(p)

Telephone ==
    \/ \E q \in Request, k \in Shift, km \in Km : CheckStart(q, k, km) \/ CheckComplete(q, k, km)
    \/ \E k \in Shift : Checkpoint(k)
    \/ \E q \in Request, k \in Shift : StopTruck(q, k)
    \/ \E p \in inflight : WriteStart(p) \/ WriteComplete(p) \/ NotifyBreakdown(p)

Stream ==
    \/ \E q \in Request, k \in Shift : LocationUpdate(q, k)
    \/ \E p \in inflight : SpeedingAlert(p)

Next ==
    \/ Desk
    \/ Telephone
    \/ Stream
    \/ \E k \in Shift : Repair(k)
    \/ \E p \in inflight : Drop(p)

Spec == Init /\ [][Next]_vars

-----------------------------------------------------------------------------
\* The shifts GisService.getActiveFleetLiveMap shows.
LiveMap == {k \in Shift : shift[k].status \in {"STARTED", "IN_PROGRESS"}}

\* The distance of a shift in every view: the desk's, the map's progress, the timeline,
\* the driver's history, the fuel report.
Distance(k) ==
    LET row == shift[k]
    IN  IF row.start # None /\ row.end # None /\ row.end > row.start
        THEN row.end - row.start ELSE 0

\* The distance completeShift answers: from the row after its update.
Answered(p) == IF shift[p.shift].start = None THEN 0 ELSE p.km - shift[p.shift].start

\* The events of getJourneyTimeline, sorted: start and completion by their timestamps.
TimelineEnds(k, event) == shift[k].last = event

Alerting(k) == {p \in inflight : p.op = "alert" /\ p.shift = k}

\* Hazard (shifts started again, reopened and overtaken by requests in progress): in the
\* timeline of a completed shift no start comes after the completion.
CompletionComesLast ==
    \A k \in Shift : shift[k].status = "COMPLETED" => TimelineEnds(k, "completedAt")

\* Hazard (two databases, no transaction): however updates overlap and die, every
\* speeding alert, written or about to be, has its breadcrumb in the route replay.
AlertsAreFounded ==
    \A k \in Shift : alerts[k] + Cardinality(Alerting(k)) <= fast[k]

\* Hazard (an odometer read, tested and overtaken): the distance completeShift answers
\* is the one all views show from then on, unless the start reading has been
\* written between its test and its write.
AnswersAgree ==
    [][ \A p \in inflight \ inflight' :
            p.op = "complete" /\ shift'[p.shift].status = "COMPLETED" /\ shift[p.shift] # shift'[p.shift] =>
                \/ Answered(p) = Distance(p.shift)'
                \/ p.start # shift[p.shift].start
      ]_vars

\* Hazard (a status tested and written later): a shift comes onto the live map without
\* a time of start only if the desk itself puts it IN_PROGRESS.
MapShowsStarted ==
    [][ \A k \in LiveMap' \ LiveMap : IsSet(k, "startedAt")' \/ inflight' = inflight ]_vars
=============================================================================
