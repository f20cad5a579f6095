------------------------------ MODULE MCReports ------------------------------
(***************************************************************************)
(* Reports for TLC.  No report reads two of the groups of tables below, so  *)
(* it is enough to fill one group at a time; the run has no requests to the *)
(* dispatch desk, which the module Dispatches is about.                     *)
(***************************************************************************)
EXTENDS Reports

\* Around the boundaries of the buckets.
MCLate == {-1, 0, 1, 30, 31, 60, 61, 90, 91}

\* A credit note is an invoice too.
MCAmount == {-3, 5}

Used(table) == Rows(table) # {}
FleetUsed ==
    \/ vehicle # [v \in Vehicle |-> "absent"] \/ employed # Driver
    \/ \E e \in Vehicle \cup Driver : compliance[e] = "NON_COMPLIANT"
Dashboards == {p \in reading : IsDashboard(p)}

Groups ==
    <<Used(waste) \/ Used(tariff), FleetUsed,
      Used(complaint) \/ settings # None \/ cache # None \/ reading # Dashboards,
      Used(invoice)>>

\* One group at a time.
OneGroup ==
    LET Others(i) == \E j \in DOMAIN Groups \ {i} : Groups[j]
    IN  /\ Others(1) => UNCHANGED <<waste, tariff>>
        /\ Others(2) => UNCHANGED <<vehicle, employed, compliance>>
        /\ Others(3) => UNCHANGED <<complaint, settings, cache>>
        /\ Others(4) => UNCHANGED invoice

\* The dashboard's counts see collections, vehicles and drivers alone, the complaint report
\* its own group; two summaries have nothing in common; two tariffs are enough for a bill.
Apart ==
    /\ Cardinality(Dashboards) <= 1
    /\ reading # Dashboards => ~Groups[1] /\ ~Groups[2] /\ ~Groups[4]
    /\ Used(tariff) \/ Groups[3] \/ Groups[4] => Dashboards = {}
    /\ Cardinality(Rows(tariff)) <= 2

\* Only who is there is grounded, and no truck needs maintenance.
PlainFleet ==
    /\ \A v \in Vehicle : /\ vehicle[v] # "UNDER_MAINTENANCE"
                         /\ compliance[v] = "NON_COMPLIANT" => vehicle[v] # "absent"

\* One write during a dashboard is enough to disturb it.
OneWrite ==
    (\E p \in Dashboards : ~p.calm) => UNCHANGED <<vehicle, employed, compliance, tables>>

\* Answers about one table commute with those about another, and with writes of another:
\* the answers come table by table.
Stages ==
    <<{"totalVehicles", "compliantVehicles", "nonCompliantVehicles"},
      {"totalDrivers", "compliantDrivers", "nonCompliantDrivers"},
      {"totalCollections", "weightAgg"}>>

InStages ==
    \A p \in Dashboards :
        /\ \A i \in 2..3 : (\E part \in Stages[i] : p.got[part] # None) =>
                            \A part \in Stages[i - 1] : p.got[part] # None
        /\ p.groups # None => \A part \in Stages[1] \cup Stages[2] : p.got[part] # None

MCSpec ==
    /\ ReportsInit
    /\ [][OneGroup /\ OneWrite /\ ReportsNext /\ (Apart /\ PlainFleet /\ InStages)']_reportsVars
    /\ WF_reportsVars(CacheExpires)
=============================================================================
