-------------------------------- MODULE Fleet --------------------------------
(***************************************************************************)
(* The Smart Compliance Guard: the dispatch desk and the driver's telephone *)
(* (Dispatches) beside the compliance documents and the expiry job          *)
(* (Compliance).  They interact through the column complianceStatus alone:  *)
(* the job writes it, the handlers of Dispatches read it.  The environment  *)
(* step Ground of Dispatches is not used here: the job is in its place.     *)
(***************************************************************************)
EXTENDS Dispatches

CONSTANTS Doc, Run                  \* of Compliance

VARIABLES doc, halfway, run, log    \* of Compliance; compliance belongs to both

Office == INSTANCE Compliance WITH Entity <- Vehicle \cup Driver

deskVars == <<vehicle, employed, dispatch, inflight>>
officeVars == <<doc, halfway, run, log>>
fleetVars == <<deskVars, officeVars, compliance>>

FleetInit == Init /\ Office!Init

\* One of the two moves; both only through single calls to a database.
FleetNext ==
    \/ DeskNext /\ UNCHANGED officeVars
    \/ Office!Next /\ UNCHANGED deskVars

FleetSpec == FleetInit /\ [][FleetNext]_fleetVars

\* Only the job's steps are fair (see Compliance): nobody has to send a request.
FairSpec == FleetSpec /\ Office!Fairness

-----------------------------------------------------------------------------
\* Seen from the desk, the office only ever grounds one vehicle or driver at a time:
\* it releases nobody and moves no shift.  So what holds of Dispatches holds here,
\* GroundingDrains first of all, the grounding being the job's own.
ImplementsDesk == Spec

\* Nobody is grounded without cause, and no turn of the job loses its ground
\* (Compliance), whatever the desk and the telephone do meanwhile.
GroundedForCause == Office!GroundedForCause /\ Office!TurnsStayJustified

\* Every late document is marked in the end (Compliance), beside a busy desk.
LateDocIsMarked == Office!LateDocIsMarked
=============================================================================
