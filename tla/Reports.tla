------------------------------ MODULE Reports ------------------------------
(***************************************************************************)
(* What the managers are shown and what a bill comes to:                    *)
(* src/src/modules/reports, src/src/modules/dashboard,                      *)
(* src/src/modules/site-settings and the arithmetic of                      *)
(* BillingService.generateInvoiceDraft.                                     *)
(*                                                                         *)
(* Vehicles and drivers are those of the dispatch desk (Dispatches), whose  *)
(* every step goes on beside the reports (Fleet).  The other tables are     *)
(* written by everybody (the steps under Writers stand for the handlers of  *)
(* the other modules).  The dashboard starts all its counts at once and     *)
(* awaits them together: each sees the tables of its own moment.  The       *)
(* complaint report reads the complaints, then the site's thresholds; its   *)
(* answer stays in a cache for five minutes.  The other reports make one    *)
(* read, and are operators on the tables.                                   *)
(*                                                                         *)
(* Amounts are integers (cents); hours are counted in days.  A payer has at *)
(* most one active tariff for a category (of several the last one read sets *)
(* the rate).  Left out: filters by date and organization, averages, CO2    *)
(* factors, the ranking of workers, CSV.                                    *)
(***************************************************************************)
EXTENDS Dispatches, Integers, FiniteSetsExt

CONSTANTS
    Collection, Complaint, Invoice,     \* primary keys
    Kind,       \* waste categories
    Kg,         \* weights of a collection
    Rate, Fee,  \* rates per kg; base fees and minimum amounts of a tariff
    Amount,     \* totals of an invoice
    Late,       \* days an invoice may be past its due date
    Age,        \* days a complaint may be old
    Days,       \* thresholds that may be set for a site, in days
    None,       \* nothing there
    Reader      \* requests to the reports that may be in progress at once

VARIABLES
    waste,      \* waste[x]: the collection x
    tariff,     \* tariff[k]: the payer's active tariff for the category k
    complaint,  \* complaint[c]: the complaint c
    settings,   \* the site's row of site_settings
    invoice,    \* invoice[i]: the invoice i
    cache,      \* the cached answer of the complaint report
    reading     \* requests to the reports between two awaits

tables == <<waste, tariff, complaint, settings, invoice>>
reportsVars == <<vars, tables, cache, reading>>

\* The categories as the code tells them apart, by what their names contain.
Classes == {"wet", "dry", "plastic", "electronic", "other"}

\* Tables are finite.  The handlers refuse negative weights, rates and fees (@Min(0)); an
\* invoice's total may be negative, by a credit tariff.
ASSUME ReportsAssumption ==
    /\ IsFiniteSet(Collection) /\ IsFiniteSet(Complaint) /\ IsFiniteSet(Invoice)
    /\ IsFiniteSet(Vehicle) /\ IsFiniteSet(Driver)
    /\ Kind \subseteq Classes
    /\ Kg \subseteq Nat /\ Rate \subseteq Nat /\ Fee \subseteq Nat
    /\ Amount \subseteq Int /\ Late \subseteq Int
    /\ Age \subseteq Nat /\ 0 \in Age /\ None \notin Age /\ {1, 2} \subseteq Days

WasteRow == [kind : Kind, kg : Kg]
TariffRow == [rate : Rate, credit : BOOLEAN, base : Fee, minimum : Fee]
\* settled: RESOLVED or CLOSED; took: the age at resolvedAt; urgent: HIGH or CRITICAL.
ComplaintRow == [settled : BOOLEAN, urgent : BOOLEAN, age : Age, took : Age \cup {None}]
InvoiceRow == [status : {"DRAFT", "ISSUED", "OVERDUE", "PAID"}, amount : Amount, late : Late]
Thresholds == [high : Days, low : Days]

\* The numbers the dashboard awaits together, beside categoryGroup.
Part == {"totalCollections", "weightAgg",
         "totalVehicles", "compliantVehicles", "nonCompliantVehicles",
         "totalDrivers", "compliantDrivers", "nonCompliantDrivers"}

-----------------------------------------------------------------------------
Rows(table) == {x \in DOMAIN table : table[x] # None}

WeightOf(xs) == SumFunctionOnSet([x \in Rows(waste) |-> waste[x].kg], xs)
OfKind(k) == {x \in Rows(waste) : waste[x].kind = k}

\* Those of es that have the status s.
Graded(es, s) == {e \in es : compliance[e] = s}
Trucks == {v \in Vehicle : InUse(v)}

\* The collections counted and weighed category by category.
CategoryGroup == [k \in Kind |-> [count |-> Cardinality(OfKind(k)), kg |-> WeightOf(OfKind(k))]]

\* Mutant of Count: the count of the compliant vehicles has lost its where clause.
CountAll(part) ==
    CASE part = "totalCollections" -> Cardinality(Rows(waste))
      [] part = "weightAgg" -> WeightOf(Rows(waste))
      [] part \in {"totalVehicles", "compliantVehicles"} -> Cardinality(Trucks)
      [] part = "nonCompliantVehicles" -> Cardinality(Graded(Trucks, "NON_COMPLIANT"))
      [] part = "totalDrivers" -> Cardinality(employed)
      [] part = "compliantDrivers" -> Cardinality(Graded(employed, "COMPLIANT"))
      [] part = "nonCompliantDrivers" -> Cardinality(Graded(employed, "NON_COMPLIANT"))

\* What each count answers of the tables as they are.
Count(part) ==
    CASE part = "totalCollections" -> Cardinality(Rows(waste))
      [] part = "weightAgg" -> WeightOf(Rows(waste))
      [] part = "totalVehicles" -> Cardinality(Trucks)
      [] part = "compliantVehicles" -> Cardinality(Graded(Trucks, "COMPLIANT"))
      [] part = "nonCompliantVehicles" -> Cardinality(Graded(Trucks, "NON_COMPLIANT"))
      [] part = "totalDrivers" -> Cardinality(employed)
      [] part = "compliantDrivers" -> Cardinality(Graded(employed, "COMPLIANT"))
      [] part = "nonCompliantDrivers" -> Cardinality(Graded(employed, "NON_COMPLIANT"))

\* complianceRatePercentage, to the next whole number.
Percent(part, whole) == IF whole = 0 THEN 100 ELSE (200 * part + whole) \div (2 * whole)

-----------------------------------------------------------------------------
Default == [high |-> 1, low |-> 2]

\* SiteSettingsService.getSettings, and the report's resolveSlaThresholds for the site
\* (an organization's own row holds the same defaults: nothing updates it).
InForce == IF settings = None THEN Default ELSE settings

\* The columns ReportsRepository.getComplaintsAggregates selects.
Selected ==
    [c \in Complaint |->
        IF complaint[c] = None THEN None
        ELSE [settled |-> complaint[c].settled, urgent |-> complaint[c].urgent,
              took |-> complaint[c].took]]

Limit(row, thresholds) == IF row.urgent THEN thresholds.high ELSE thresholds.low

\* The complaint report of the rows read, under the thresholds read.
SlaMetrics(rows, thresholds) ==
    LET timed == {c \in Rows(rows) : rows[c].took # None}
    IN  [rules |-> thresholds,
         settled |-> Cardinality({c \in Rows(rows) : rows[c].settled}),
         resolved |-> Cardinality(timed),
         breaches |-> Cardinality({c \in timed : rows[c].took > Limit(rows[c], thresholds)})]

\* Sums of a table's column over some of its rows.
AmountOf(is) == SumFunctionOnSet([i \in Rows(invoice) |-> invoice[i].amount], is)

Buckets == {"current", "days1To30", "days31To60", "days61To90", "days90Plus"}

\* The age buckets: daysPastDue is rounded down, and 0 is an invoice's first day past due.
Bucket(days) ==
    CASE days <= 0 -> "current"
      [] days > 0 /\ days <= 30 -> "days1To30"
      [] days > 30 /\ days <= 60 -> "days31To60"
      [] days > 60 /\ days <= 90 -> "days61To90"
      [] OTHER -> "days90Plus"

\* getFinancialAgingReport: everything that is not PAID is the overdue balance.
Unpaid == {i \in Rows(invoice) : invoice[i].status # "PAID"}
Aging ==
    [billed |-> AmountOf(Rows(invoice)),
     collected |-> AmountOf({i \in Rows(invoice) : invoice[i].status = "PAID"}),
     overdue |-> AmountOf(Unpaid),
     buckets |-> [b \in Buckets |-> AmountOf({i \in Unpaid : Bucket(invoice[i].late) = b})]]

\* The dashboard's totalOverdueAmount.
TotalOverdue == AmountOf({i \in Rows(invoice) : invoice[i].status = "OVERDUE"})

\* What getWasteSegregationReport shows as organic, recyclable and hazardous.
Segregated == {{"wet"}, {"dry", "plastic"}, {"electronic", "other"}}

\* A share in tenths of a percent.
Share(kinds) ==
    LET whole == WeightOf(Rows(waste))
        part == WeightOf({x \in Rows(waste) : waste[x].kind \in kinds})
    IN  IF whole = 0 THEN 0 ELSE (2000 * part + whole) \div (2 * whole)

-----------------------------------------------------------------------------
\* The rates of generateInvoiceDraft where no tariff says otherwise, in cents per kg.
DefaultRate == [wet |-> 500, dry |-> 200, plastic |-> 500, electronic |-> 1500, other |-> 500]

Highest(column) == Max({0} \cup {tariff[k][column] : k \in Rows(tariff)})

Line(k) ==
    LET kg == WeightOf(OfKind(k))
    IN  IF tariff[k] = None THEN kg * DefaultRate[k]
        ELSE IF tariff[k].credit THEN -(kg * tariff[k].rate) ELSE kg * tariff[k].rate

\* 18 percent, to the next cent.
Tax(cents) ==
    IF cents >= 0 THEN (18 * cents + 50) \div 100 ELSE -((50 - 18 * cents) \div 100)

\* Mutant of Bill: the minimum takes the place of the base fee only.
BillMinimumFirst ==
    LET first == Max({Highest("base"), Highest("minimum")})
        subtotal == first + SumFunctionOnSet([k \in Kind |-> Line(k)], Kind)
    IN  [minimum |-> Highest("minimum"), subtotal |-> subtotal, total |-> subtotal + Tax(subtotal)]

\* generateInvoiceDraft for a payer with these tariffs and these collections.
Bill ==
    LET minimum == Highest("minimum")
        lines == Highest("base") + SumFunctionOnSet([k \in Kind |-> Line(k)], Kind)
        subtotal == IF minimum > 0 /\ lines < minimum THEN minimum ELSE lines
    IN  [minimum |-> minimum, subtotal |-> subtotal, total |-> subtotal + Tax(subtotal)]

-----------------------------------------------------------------------------
IsDashboard(p) == p.op = "dashboard"

\* What the reports have in hand between two awaits.  calm is not in the code: TRUE as long
\* as no table of the dashboard has been written since the request began.
SelectedRow == [settled : BOOLEAN, urgent : BOOLEAN, took : Age \cup {None}]
Answer == [rules : Thresholds, settled : Nat, resolved : Nat, breaches : Nat]
Dashboard == [by : Reader, op : {"dashboard"}, got : [Part -> Nat \cup {None}],
              groups : [Kind -> [count : Nat, kg : Nat]] \cup {None}, calm : BOOLEAN]
Sla == [by : Reader, op : {"sla"}, rows : [Complaint -> SelectedRow \cup {None}]]
Store == [by : Reader, op : {"store"}, answer : Answer]

\* The types of the variables.
ReportsTypeOK ==
    /\ TypeOK
    /\ waste \in [Collection -> WasteRow \cup {None}]
    /\ tariff \in [Kind -> TariffRow \cup {None}]
    /\ complaint \in [Complaint -> ComplaintRow \cup {None}]
    /\ settings \in Thresholds \cup {None}
    /\ invoice \in [Invoice -> InvoiceRow \cup {None}]
    /\ cache \in Answer \cup {None}
    /\ reading \subseteq Dashboard \cup Sla \cup Store

ReportsInit ==
    /\ Init
    /\ waste = [x \in Collection |-> None]
    /\ tariff = [k \in Kind |-> None]
    /\ complaint = [c \in Complaint |-> None]
    /\ settings = None
    /\ invoice = [i \in Invoice |-> None]
    /\ cache = None
    /\ reading = {}

Free(q) == \A p \in reading : p.by # q
Become(p, next) == reading' = (reading \ {p}) \cup next

\* A table the dashboard counts is written.
Disturbed == {IF IsDashboard(p) THEN [p EXCEPT !.calm = FALSE] ELSE p : p \in reading}

-----------------------------------------------------------------------------
\* WasteCollectionsService: a collection is recorded, corrected or removed.
WriteCollection(x) ==
    /\ \E row \in WasteRow \cup {None} : waste' = [waste EXCEPT ![x] = row]
    /\ reading' = Disturbed
    /\ UNCHANGED <<vars, tariff, complaint, settings, invoice, cache>>

WriteTariff(k) ==
    /\ \E row \in TariffRow \cup {None} : tariff' = [tariff EXCEPT ![k] = row]
    /\ UNCHANGED <<vars, waste, complaint, settings, invoice, cache, reading>>

\* The dispatch desk, the telephone, the master data and the compliance office go on.
FleetMoves ==
    /\ Next
    /\ reading' = IF UNCHANGED <<vehicle, employed, compliance>> THEN reading ELSE Disturbed
    /\ UNCHANGED <<tables, cache>>

\* A complaint is filed, and may be urgent.
FileComplaint(c) ==
    /\ complaint[c] = None
    /\ \E u \in BOOLEAN : complaint' = [complaint EXCEPT ![c] =
          [settled |-> FALSE, urgent |-> u, age |-> 0, took |-> None]]
    /\ UNCHANGED <<vars, waste, tariff, settings, invoice, cache, reading>>

ComplaintAges(c) ==
    /\ complaint[c] # None /\ complaint[c].age + 1 \in Age
    /\ complaint' = [complaint EXCEPT ![c].age = @ + 1]
    /\ UNCHANGED <<vars, waste, tariff, settings, invoice, cache, reading>>

\* Mutant of UpdateComplaint: resolvedAt is set by RESOLVED, but not by CLOSED.
UpdateComplaintSometimes(c) ==
    /\ complaint[c] # None
    /\ \E s, u, r \in BOOLEAN : complaint' = [complaint EXCEPT ![c] =
          [settled |-> s, urgent |-> u, age |-> complaint[c].age,
           took |-> IF s /\ r THEN complaint[c].age ELSE complaint[c].took]]
    /\ UNCHANGED <<vars, waste, tariff, settings, invoice, cache, reading>>

\* ComplaintsRepository.update: settling stamps resolvedAt, each time anew; opening the
\* complaint again leaves it.
UpdateComplaint(c) ==
    /\ complaint[c] # None
    /\ \E s, u \in BOOLEAN : complaint' = [complaint EXCEPT ![c] =
          [settled |-> s, urgent |-> u, age |-> complaint[c].age,
           took |-> IF s THEN complaint[c].age ELSE complaint[c].took]]
    /\ UNCHANGED <<vars, waste, tariff, settings, invoice, cache, reading>>

\* Mutant of UpdateSettings: a row is created with what is given alone.
UpdateSettingsBare ==
    /\ \E h \in {IF settings = None THEN None ELSE settings.high} \cup Days,
          l \in {IF settings = None THEN None ELSE settings.low} \cup Days :
          settings' = [high |-> h, low |-> l]
    /\ UNCHANGED <<vars, waste, tariff, complaint, invoice, cache, reading>>

\* SiteSettingsService.updateSettings: a threshold that is not given keeps its value, or
\* the default if there is no row yet.
UpdateSettings ==
    /\ \E h \in {InForce.high} \cup Days, l \in {InForce.low} \cup Days :
          settings' = [high |-> h, low |-> l]
    /\ UNCHANGED <<vars, waste, tariff, complaint, invoice, cache, reading>>

ResetSettings ==
    /\ settings' = None
    /\ UNCHANGED <<vars, waste, tariff, complaint, invoice, cache, reading>>

\* An invoice is drafted and moves on; it becomes OVERDUE only past its due date.
WriteInvoice(i) ==
    /\ \E row \in InvoiceRow \cup {None} :
          /\ row # None => (row.status = "OVERDUE" => row.late >= 0)
          /\ row # None /\ invoice[i] # None =>
                row.amount = invoice[i].amount /\ row.late >= invoice[i].late
          /\ invoice' = [invoice EXCEPT ![i] = row]
    /\ UNCHANGED <<vars, waste, tariff, complaint, settings, cache, reading>>

Writers ==
    \/ \E x \in Collection : WriteCollection(x)
    \/ \E k \in Kind : WriteTariff(k)
    \/ \E c \in Complaint : FileComplaint(c) \/ ComplaintAges(c) \/ UpdateComplaint(c)
    \/ UpdateSettings \/ ResetSettings
    \/ \E i \in Invoice : WriteInvoice(i)

-----------------------------------------------------------------------------
\* DashboardService.getExecutiveSummary: all counts are on their way.
StartDashboard(q) ==
    /\ Free(q)
    /\ reading' = reading \cup
          {[by |-> q, op |-> "dashboard", got |-> [part \in Part |-> None], groups |-> None,
            calm |-> TRUE]}
    /\ UNCHANGED <<vars, tables, cache>>

\* The database answers one of them.
AnswerCount(p, part) ==
    /\ IsDashboard(p) /\ p.got[part] = None
    /\ Become(p, {[p EXCEPT !.got = [p.got EXCEPT ![part] = Count(part)]]})
    /\ UNCHANGED <<vars, tables, cache>>

AnswerGroups(p) ==
    /\ IsDashboard(p) /\ p.groups = None
    /\ Become(p, {[p EXCEPT !.groups = CategoryGroup]})
    /\ UNCHANGED <<vars, tables, cache>>

Complete(p) == IsDashboard(p) /\ p.groups # None /\ \A part \in Part : p.got[part] # None

\* All are there: the summary is sent.
SendDashboard(p) ==
    /\ Complete(p)
    /\ Become(p, {})
    /\ UNCHANGED <<vars, tables, cache>>

\* ReportsService.getSlaMetrics, when the cache has no answer: the complaints.
ReadComplaints(q) ==
    /\ Free(q)
    /\ cache = None
    /\ reading' = reading \cup {[by |-> q, op |-> "sla", rows |-> Selected]}
    /\ UNCHANGED <<vars, tables, cache>>

\* Then the thresholds: the answer is made.
ReadThresholds(p) ==
    /\ p.op = "sla"
    /\ Become(p, {[by |-> p.by, op |-> "store", answer |-> SlaMetrics(p.rows, InForce)]})
    /\ UNCHANGED <<vars, tables, cache>>

\* The interceptor keeps the answer for five minutes, whatever has changed.
StoreAnswer(p) ==
    /\ p.op = "store"
    /\ cache' = p.answer
    /\ Become(p, {})
    /\ UNCHANGED <<vars, tables>>

\* Mutant of CacheExpires: an entry is kept for ever.
CacheNeverExpires == FALSE /\ UNCHANGED reportsVars

CacheExpires ==
    /\ cache # None
    /\ cache' = None
    /\ UNCHANGED <<vars, tables, reading>>

\* A read fails.
ReadFails(p) ==
    /\ Become(p, {})
    /\ UNCHANGED <<vars, tables, cache>>

Readers ==
    \/ \E q \in Reader : StartDashboard(q) \/ ReadComplaints(q)
    \/ \E p \in reading :
          \/ \E part \in Part : AnswerCount(p, part)
          \/ AnswerGroups(p) \/ SendDashboard(p) \/ ReadThresholds(p) \/ StoreAnswer(p) \/ ReadFails(p)

ReportsNext == FleetMoves \/ Writers \/ Readers \/ CacheExpires

ReportsSpec == ReportsInit /\ [][ReportsNext]_reportsVars

\* The clock ends every cache entry.
ReportsFairSpec == ReportsSpec /\ WF_reportsVars(CacheExpires)

-----------------------------------------------------------------------------
\* All that a summary counts twice comes to the same, and no rate exceeds 100 percent.
AddsUp(got, groups) ==
    /\ got["totalCollections"] = SumFunctionOnSet([k \in Kind |-> groups[k].count], Kind)
    /\ got["weightAgg"] = SumFunctionOnSet([k \in Kind |-> groups[k].kg], Kind)
    /\ got["totalVehicles"] = got["compliantVehicles"] + got["nonCompliantVehicles"]
    /\ got["totalDrivers"] = got["compliantDrivers"] + got["nonCompliantDrivers"]
    /\ Percent(got["compliantVehicles"], got["totalVehicles"]) <= 100
    /\ Percent(got["compliantDrivers"], got["totalDrivers"]) <= 100

\* Hazard (counts of different moments in one answer): the dashboard's parts contradict
\* its totals, or a rate exceeds 100 percent, only if a table was written meanwhile.
DashboardAddsUp == \A p \in reading : Complete(p) /\ p.calm => AddsUp(p.got, p.groups)

\* Hazard (boundaries of days): every unpaid amount is in one bucket; what the dashboard
\* calls overdue is what the aging report shows as past due, with the invoices in their
\* first day and without those the nightly job has not marked.
AgingAddsUp ==
    LET firstDay == AmountOf({i \in Unpaid : invoice[i].late = 0})
        pastDue == SumFunctionOnSet(Aging.buckets, Buckets \ {"current"})
        unmarked == {i \in Unpaid : invoice[i].late >= 0 /\ invoice[i].status # "OVERDUE"}
    IN  /\ Aging.billed = Aging.collected + Aging.overdue
        /\ Aging.overdue = pastDue + Aging.buckets["current"]
        /\ pastDue + firstDay = TotalOverdue + AmountOf(unmarked)

\* Hazard (rounding, minimum and credit in one bill): the minimum holds before and after
\* the tax, and a bill is negative only by a credit tariff without a minimum.
BillHolds ==
    /\ Bill.minimum > 0 => Bill.minimum <= Bill.subtotal /\ Bill.subtotal <= Bill.total
    /\ Bill.total < 0 => Bill.minimum = 0 /\ \E k \in Rows(tariff) : tariff[k].credit

\* The three shares, each rounded, make a hundred percent to a tenth, unless nothing has
\* any weight.
SharesAddUp ==
    WeightOf(Rows(waste)) > 0 =>
        SumFunctionOnSet([kinds \in Segregated |-> Share(kinds)], Segregated) \in 999..1001

\* The complaint report of this moment, those on their way into the cache, and the one in it.
Answers ==
    {SlaMetrics(Selected, InForce)} \cup ({cache} \ {None})
        \cup {p.answer : p \in {r \in reading : r.op = "store"}}

\* Every settled complaint has its time, and counts among the resolved ones (with those
\* opened again); no complaint counts twice.
SlaAddsUp == \A m \in Answers : m.settled <= m.resolved /\ m.breaches <= m.resolved

\* The figures of the reports agree with one another and with the tables.
FiguresAddUp == AgingAddsUp /\ BillHolds /\ SharesAddUp /\ SlaAddsUp

\* Hazard (a cached answer, and one on its way into the cache): once a site's thresholds
\* stay as they are, a time comes from which every report shows those in force.
ThresholdsShow ==
    <>[][settings' = settings]_settings => <>[](cache = None \/ cache.rules = InForce)
=============================================================================
