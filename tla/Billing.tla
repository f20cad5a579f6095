------------------------------- MODULE Billing -------------------------------
(***************************************************************************)
(* What gets onto the bills: tariffs and collections, the billing jobs and   *)
(* the drafting by hand.  src/src/modules/crons/services/                   *)
(* billing-cron.service.ts, the drafting half of                            *)
(* src/src/modules/billing/billing.service.ts, and                          *)
(* src/src/modules/waste-collections.                                       *)
(*                                                                         *)
(* A billing job takes the newest tariffs of its frequency and drafts one   *)
(* invoice for each that names a payer.  A draft reads the collections of   *)
(* that moment and is inserted by a later call.  What happens to an invoice *)
(* after its insert is in module Invoices.                                  *)
(*                                                                         *)
(* Left out: rates and amounts, the people and categories a row refers to   *)
(* (a lookup that fails ends the request, Drop), invoice numbers (a number  *)
(* already taken is one way for an insert to fail); units as payers, which  *)
(* are only billed by hand, in the same steps.  Two equal drafts are one    *)
(* element of `drafts'.                                                     *)
(***************************************************************************)
EXTENDS Naturals, FiniteSets

CONSTANTS
    Tariff,      \* primary keys of waste_tariffs, in the order of creation
    Collection,  \* primary keys of waste_collections
    Site,        \* sites, as payers
    Organization,
    Frequency,   \* the billing frequencies in use: one job each
    Request,     \* HTTP requests that may be in progress at once
    Run,         \* invocations of billing jobs that may be active at once
    BatchLimit,  \* the limit of the tariff query, 1000 in the code
    LastDay      \* bound of the model: the clock stops there

ASSUME TariffsAreNumbered == Tariff \subseteq Nat
ASSUME FrequenciesAreKnown == Frequency \subseteq {"DAILY", "WEEKLY", "MONTHLY"}
ASSUME BoundsAreNaturals == BatchLimit \in Nat /\ LastDay \in Nat

VARIABLES
    tariff,      \* tariff[t]: the row t, NoTariff before the insert
    collection,  \* collection[c]: what there is of the row c
    drafts,      \* the invoices that were inserted
    inflight,    \* requests between findOne and their write
    byHand,      \* generate requests between reading the collections and the insert
    day,         \* the clock; it stands for the label of the period too
    job,         \* job[r]: frequency and day of the invocation in slot r
    plan,        \* plan[r][t]: whom the invocation will bill for the tariff t of its snapshot
    turn,        \* turn[r]: the tariff of the turn that has read the collections, and those
    run, log     \* the invocations, see CronRun

vars == <<tariff, collection, drafts, inflight, byHand, day, job, plan, turn, run, log>>

tables == <<tariff, collection, drafts>>
requests == <<inflight, byHand>>
jobs == <<job, plan, turn, run, log>>

Cron == INSTANCE CronRun WITH Item <- Tariff

Payer == Site \cup Organization
NoPayer == "no payer"
ASSUME PayersAreNamed == NoPayer \notin Payer
NoTariff == [state |-> "absent"]
NoTurn == [items |-> "none"]

\* A tariff that names a site and an organization is the site's for the jobs.  "retired":
\* isActive is false.
TariffRow == [payer : Payer \cup {NoPayer}, frequency : Frequency,
              state : {"active", "retired", "deleted"}]

\* "missed": isCollected is false.
CollectionState == {"absent", "missed", "collected", "deleted"}

Draft == [payer : Payer, day : 0..LastDay, by : Frequency \cup {"HTTP"},
          items : SUBSET Collection]

Pending == [by : Request, on : {"tariff"}, op : {"update", "delete"}, key : Tariff]
      \cup [by : Request, on : {"collection"}, op : {"update", "delete"}, key : Collection]

\* The types of the variables.
TypeOK ==
    /\ tariff \in [Tariff -> TariffRow \cup {NoTariff}]
    /\ collection \in [Collection -> CollectionState]
    /\ drafts \subseteq Draft
    /\ inflight \subseteq Pending
    /\ byHand \subseteq [by : Request, payer : Payer, items : SUBSET Collection]
    /\ day \in 0..LastDay
    /\ job \in [Run -> [frequency : Frequency, day : 0..LastDay]]
    /\ plan \in [Run -> [Tariff -> Payer \cup {NoPayer}]]
    /\ turn \in [Run -> [tariff : Tariff, items : SUBSET Collection] \cup {NoTurn}]
    /\ Cron!CronTypeOK

Init ==
    /\ tariff = [t \in Tariff |-> NoTariff]
    /\ collection = [c \in Collection |-> "absent"]
    /\ drafts = {} /\ inflight = {} /\ byHand = {} /\ day = 0
    /\ job \in [Run -> [frequency : Frequency, day : {0}]]
    /\ plan = [r \in Run |-> [t \in Tariff |-> NoPayer]]
    /\ turn = [r \in Run |-> NoTurn]
    /\ Cron!CronInit

Exists(t) == tariff[t] # NoTariff
Live(t) == Exists(t) /\ tariff[t].state # "deleted"
Free(q) == /\ \A w \in inflight : w.by # q
           /\ \A w \in byHand : w.by # q

\* Mutant of Billable: the query forgets deletedAt.
BillableAndDeleted == {c \in Collection : collection[c] \in {"collected", "deleted"}}

\* What a draft puts on the bill: every collection there is, of any day and any site.
Billable == {c \in Collection : collection[c] = "collected"}

-----------------------------------------------------------------------------
\* Requests on tariffs and collections.
CreateTariff(t) ==
    /\ \A u \in Tariff : Exists(u) => u < t
    /\ tariff' \in {[tariff EXCEPT ![t] = row] : row \in {x \in TariffRow : x.state # "deleted"}}
    /\ UNCHANGED <<collection, drafts, requests, day, jobs>>

RecordCollection(c) ==
    /\ collection[c] = "absent"
    /\ \E s \in {"missed", "collected"} : collection' = [collection EXCEPT ![c] = s]
    /\ UNCHANGED <<tariff, drafts, requests, day, jobs>>

\* findOne, and in the updates the lookups of what the request names.
Check(w) ==
    /\ Free(w.by)
    /\ IF w.on = "tariff" THEN Live(w.key)
                          ELSE collection[w.key] \notin {"absent", "deleted"}
    /\ inflight' = inflight \cup {w}
    /\ UNCHANGED <<tables, byHand, day, jobs>>

UpdateTariff(w) ==
    /\ w.on = "tariff" /\ w.op = "update"
    /\ \E p \in Payer \cup {NoPayer}, f \in Frequency, s \in {"active", "retired"} :
          tariff' = [tariff EXCEPT ![w.key] =
              [payer |-> p, frequency |-> f,
               state |-> IF tariff[w.key].state = "deleted" THEN "deleted" ELSE s]]
    /\ inflight' = inflight \ {w}
    /\ UNCHANGED <<collection, drafts, byHand, day, jobs>>

DeleteTariff(w) ==
    /\ w.on = "tariff" /\ w.op = "delete"
    /\ tariff' = [tariff EXCEPT ![w.key].state = "deleted"]
    /\ inflight' = inflight \ {w}
    /\ UNCHANGED <<collection, drafts, byHand, day, jobs>>

UpdateCollection(w) ==
    /\ w.on = "collection" /\ w.op = "update"
    /\ \E s \in {"missed", "collected"} :
          collection' = [collection EXCEPT ![w.key] =
              IF collection[w.key] = "deleted" THEN "deleted" ELSE s]
    /\ inflight' = inflight \ {w}
    /\ UNCHANGED <<tariff, drafts, byHand, day, jobs>>

DeleteCollection(w) ==
    /\ w.on = "collection" /\ w.op = "delete"
    /\ collection' = [collection EXCEPT ![w.key] = "deleted"]
    /\ inflight' = inflight \ {w}
    /\ UNCHANGED <<tariff, drafts, byHand, day, jobs>>

\* generateInvoiceDraft for POST /billing/invoices/generate: a residentUserId in the
\* request narrows the collections to those of the resident.
GatherByHand(q, p) ==
    /\ Free(q)
    /\ \E mine \in SUBSET Collection :
          byHand' = byHand \cup {[by |-> q, payer |-> p, items |-> Billable \cap mine]}
    /\ UNCHANGED <<tables, inflight, day, jobs>>

\* The request names the period it likes.
InsertByHand(w) ==
    /\ \E d \in 0..LastDay : drafts' = drafts \cup
          {[payer |-> w.payer, day |-> d, by |-> "HTTP", items |-> w.items]}
    /\ byHand' = byHand \ {w}
    /\ UNCHANGED <<tariff, collection, inflight, day, jobs>>

\* A lookup or the write throws, or the process dies.
Drop(w) ==
    /\ inflight' = inflight \ {w} /\ byHand' = byHand \ {w}
    /\ UNCHANGED <<tables, day, jobs>>

DayPasses ==
    /\ day < LastDay
    /\ day' = day + 1
    /\ UNCHANGED <<tables, requests, jobs>>

-----------------------------------------------------------------------------
\* Mutant of Matching: retired tariffs are taken along.
MatchingRetired(f) == {t \in Tariff : Live(t) /\ tariff[t].frequency = f}

\* The where clause of findAll.
Matching(f) == {t \in Tariff : Live(t) /\ tariff[t].frequency = f /\ tariff[t].state = "active"}

\* Mutant of Newest: the oldest tariffs come first.
Oldest(f) == {t \in Matching(f) : Cardinality({u \in Matching(f) : u < t}) < BatchLimit}

\* Its first page, the newest first.
Newest(f) == {t \in Matching(f) : Cardinality({u \in Matching(f) : u > t}) < BatchLimit}

\* Those for which the job of frequency f drafts an invoice: only the monthly one looks
\* at the organization.  The turns of the others make no call.
Billed(f) ==
    {t \in Newest(f) : \/ tariff[t].payer \in Site
                       \/ f = "MONTHLY" /\ tariff[t].payer \in Organization}

\* The label of the period is computed from the clock at the start: one a day in the
\* daily job, coarser in the others.
BillingStart(r, f) ==
    /\ Cron!Start(r)
    /\ job' = [job EXCEPT ![r] = [frequency |-> f, day |-> day]]
    /\ UNCHANGED <<tables, requests, day, plan, turn>>

BillingScan(r) ==
    /\ Cron!Scan(r, Billed(job[r].frequency))
    /\ plan' = [plan EXCEPT ![r] =
          [t \in Tariff |-> IF t \in Billed(job[r].frequency) THEN tariff[t].payer ELSE NoPayer]]
    /\ UNCHANGED <<tables, requests, day, job, turn>>

\* generateInvoiceDraft up to the read of the collections.
Gather(r, t) ==
    /\ run[r].pc = "looping" /\ t \in run[r].todo /\ turn[r] = NoTurn
    /\ turn' = [turn EXCEPT ![r] = [tariff |-> t, items |-> Billable]]
    /\ UNCHANGED <<tables, requests, day, job, plan, run, log>>

\* Its insert.
InsertDraft(r, t) ==
    /\ turn[r] # NoTurn /\ turn[r].tariff = t
    /\ Cron!ItemDone(r, t)
    /\ drafts' = drafts \cup {[payer |-> plan[r][t], day |-> job[r].day,
                               by |-> job[r].frequency, items |-> turn[r].items]}
    /\ turn' = [turn EXCEPT ![r] = NoTurn]
    /\ UNCHANGED <<tariff, collection, requests, day, job, plan>>

\* Mutant of DraftFails: the inner catch does not count the failure.
DraftFailsUncounted(r, t) ==
    /\ turn[r] # NoTurn => turn[r].tariff = t
    /\ Cron!ItemDone(r, t)
    /\ turn' = [turn EXCEPT ![r] = NoTurn]
    /\ UNCHANGED <<tables, requests, day, job, plan>>

\* A read or the insert of a turn throws.
DraftFails(r, t) ==
    /\ turn[r] # NoTurn => turn[r].tariff = t
    /\ Cron!ItemFails(r, t)
    /\ turn' = [turn EXCEPT ![r] = NoTurn]
    /\ UNCHANGED <<tables, requests, day, job, plan>>

BillingComplete(r) == Cron!Complete(r) /\ UNCHANGED <<tables, requests, day, job, plan, turn>>
BillingThrow(r) == Cron!Throw(r) /\ UNCHANGED <<tables, requests, day, job, plan, turn>>
BillingFail(r) == Cron!Fail(r) /\ UNCHANGED <<tables, requests, day, job, plan, turn>>

BillingDie(r) ==
    /\ Cron!Die(r)
    /\ turn' = [turn EXCEPT ![r] = NoTurn]
    /\ UNCHANGED <<tables, requests, day, job, plan>>

-----------------------------------------------------------------------------
RequestStep ==
    \/ \E t \in Tariff : CreateTariff(t)
    \/ \E c \in Collection : RecordCollection(c)
    \/ \E w \in Pending : Check(w)
    \/ \E w \in inflight : \/ UpdateTariff(w) \/ DeleteTariff(w)
                           \/ UpdateCollection(w) \/ DeleteCollection(w)
    \/ \E q \in Request, p \in Payer : GatherByHand(q, p)
    \/ \E w \in byHand : InsertByHand(w)
    \/ \E w \in inflight \cup byHand : Drop(w)

JobStep(r) ==
    \/ \E f \in Frequency : BillingStart(r, f)
    \/ BillingScan(r)
    \/ \E t \in Tariff : Gather(r, t) \/ InsertDraft(r, t) \/ DraftFails(r, t)
    \/ BillingComplete(r) \/ BillingThrow(r) \/ BillingFail(r) \/ BillingDie(r)

Next == RequestStep \/ DayPasses \/ \E r \in Run : JobStep(r)

Spec == Init /\ [][Next]_vars

\* As for the other jobs, for each frequency by itself: its timer fires again and again,
\* whichever job had the slot before, and its query does not fail for ever.
FairSpec ==
    /\ Spec
    /\ \A r \in Run :
          /\ \A f \in Frequency : /\ SF_vars(BillingStart(r, f))
                                  /\ SF_vars(BillingScan(r) /\ job[r].frequency = f)
          /\ \A t \in Tariff : SF_vars(Gather(r, t)) /\ SF_vars(InsertDraft(r, t))
          /\ WF_vars(BillingComplete(r) \/ BillingFail(r) \/ BillingDie(r))

-----------------------------------------------------------------------------
\* The draft of tariff t by the invocation in slot r is there.
DraftedFor(r, t) ==
    \E d \in drafts : /\ d.payer = plan[r][t]
                      /\ d.day = job[r].day /\ d.by = job[r].frequency

\* An audit row that says SUCCESS means a draft of the invocation's own period for every
\* payer of its snapshot.
SuccessMeansDrafted ==
    \A r \in Run : log[r] = "SUCCESS" =>
        \A t \in Tariff : plan[r][t] # NoPayer => DraftedFor(r, t)

\* Those who may still put c on a bill.
HoldersOf(c) ==
    {r \in Run : turn[r] # NoTurn /\ c \in turn[r].items} \cup
    {w \in byHand : c \in w.items}

\* A collection that is deleted, or taken back, gets onto no bill but those of the drafts
\* that had read it before.
CollectionDrains ==
    [][\A c \in Collection : collection[c] # "collected" =>
          /\ HoldersOf(c)' \subseteq HoldersOf(c)
          /\ HoldersOf(c) = {} => \A d \in drafts' \ drafts : c \notin d.items]_vars

\* The invocations that will still bill p.
TurnsFor(p) == {r \in Run : run[r].pc = "looping" /\ \E t \in run[r].todo : plan[r][t] = p}

Active(t) == Exists(t) /\ tariff[t].state = "active"
HasActiveTariff(p) == \E t \in Tariff : Active(t) /\ tariff[t].payer = p

\* A payer without any active tariff gets no draft from a job but from the invocations
\* that had taken their snapshot before.
RetirementDrains ==
    [][\A p \in Payer : ~HasActiveTariff(p) =>
          /\ TurnsFor(p)' \subseteq TurnsFor(p)
          /\ TurnsFor(p) = {} => \A d \in drafts' \ drafts : d.payer = p => d.by = "HTTP"]_vars

\* What is deleted or retired drains out of the drafts.
DeletionsDrain == CollectionDrains /\ RetirementDrains

\* The active tariffs of its frequency that are newer than t leave room for it.
HasRoom(t) ==
    Cardinality({u \in Tariff : /\ Active(u) /\ u > t
                                /\ tariff[u].frequency = tariff[t].frequency}) < BatchLimit

OnTheBill(p, c) == \E d \in drafts : d.payer = p /\ c \in d.items

\* A collection gets onto a bill of every site with an active tariff that is not crowded
\* out of its job's query, although nights may fail.
NewestAreBilled ==
    \A t \in Tariff, c \in Collection, p \in Site :
        LET Due == /\ Active(t) /\ tariff[t].payer = p /\ HasRoom(t)
                   /\ collection[c] = "collected"
        IN  Due ~> ~Due \/ OnTheBill(p, c)
=============================================================================
