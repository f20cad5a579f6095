# Waste Management AI: TLA+ models, checks and proofs

The repository is a NestJS API over two MySQL databases: `waste_management`
(`PrismaService`) and `central_core_db` (`PrismaCentralCoreService`).  This
directory models it in TLA+, checks the models with TLC on small instances and
proves the main properties with TLAPS for every instance.

`PROJECT.json` says, definition by definition, which lines of the code a module
translates, which runs check which property, and which faulty variant of the
code (a *mutant*) each property catches.

## 1. The system

What matters for every model:

- Each `await prisma.x` is one atomic step.  Between two of them any other
  request, job or socket handler may run, in this process or in another
  instance of the application.
- No transaction spans the two databases.  Within one database the code opens a
  transaction in four places (register, password changes, addresses,
  organization), and never around a check and the write it guards.
- `update({ where: { id } })` throws when the row is missing and succeeds on a
  soft-deleted row (`deletedAt` is an ordinary column).
- A `@Cron` method runs in every instance of the application, and
  `POST /crons/trigger/...` calls the same method; nothing locks.

### Inventory

Paths are below `src/src/modules`.

| component | state | operations | interacts with |
|---|---|---|---|
| invoices (`billing`) | `waste_invoices`: status, approval, payment and deletion stamps, due date | draft, approve, reject, record payment, delete | tariffs, collections (read); overdue job, billing jobs (write) |
| tariffs, amounts (`billing`) | `waste_tariffs` | create, update, delete, price an invoice | collections, sites |
| overdue job (`crons`) | the snapshot of one invocation | mark late invoices `OVERDUE` | invoices, audit |
| billing jobs (`crons`) | the snapshot of one invocation | draft invoices daily, weekly, monthly | tariffs, invoices, audit |
| compliance documents (`compliance`) | `compliance_documents` (core) | create, remove, check an entity | vehicles, employees |
| expiry job (`crons`) | the snapshot of one invocation | mark documents `EXPIRED`, ground the entity | documents (core), vehicles (main), employees (core), audit |
| escalation job (`crons`) | the snapshot of one invocation | raise the priority of old complaints | complaints, audit |
| audit (`crons`) | `cron_job_logs` (core) | start, complete, fail | every job |
| vehicles | `waste_vehicles` | create, update, remove | documents, dispatches |
| dispatches | `dispatch_assignments`, stop logs | create, update status, record a stop | vehicles, employees (core) |
| driver app | the same tables | start, checkpoint, complete, breakdown | dispatches, vehicles, notification log (core) |
| complaints, resident portal | `waste_complaints` | file, update, delete | users, units (core); escalation job |
| sessions (`auth`) | `users`, `refresh_tokens` (core) | register, login, refresh, logout, change or reset the password | every guarded route |
| roles, permissions | `roles`, `permissions` and their links | create, delete, assign, revoke | sessions |
| organization, sites, buildings, floors, units | the hierarchy (core), hard deletion with cascade; addresses | create, update, delete | each level checks the one below and above |
| residents, employees | soft-deleted rows with unique keys | create, update, delete | users, units, organizations |
| schedules, collections, categories | main database rows that point into the core one | create, update, delete, checklist | sites, users, categories |
| reports, dashboard, vendor API | answers cached for five minutes | read-only aggregates | collections, complaints, invoices, vehicles, settings |
| site settings | one row a site | read with defaults, update | reports |
| live tracking (`gis`), notifications | breadcrumbs, alerts (core), socket rooms, a Redis channel | location update, live map, replay, timeline | vehicles, dispatches |
| queues | BullMQ jobs | add, process with 3 attempts | reports, tariffs |
| storage, maps, e-mail | none | calls to outside services | - |

### What is hard, and what makes each part correct

- **Check, then write.**  Every workflow tests a row it has read and then
  updates by primary key alone (`billing.service.ts`, `dispatches.service.ts`,
  `driver-app.service.ts`, `complaints.service.ts`).  Correct means: whatever
  the overlap, no money without approval, no bill without approval, no
  deletion undone, no shift reopened except by somebody admitted before it was
  completed.
- **Snapshots.**  A job reads all its rows at once and writes them one after
  the other.  Correct means: what it relies on is still true when it writes, and
  what a night misses a later night finds.
- **Two databases.**  The expiry job and the breakdown report write one, then
  the other.  Correct means: nobody is grounded without cause, and (this one
  fails) everybody with a cause is grounded.
- **Overlap and death of jobs.**  Correct means: the audit row never reads as
  finished work that was not done.
- **Uniqueness without a key, deletion after a count.**  Overlapping shifts, last
  address, the hierarchy, roles in use: a count and then an insert or a deletion.
  Correct means: what is lost or doubled came after the count, never before.
- **Claims that live on.**  An access token repeats the roles of its login, a
  refresh token outlives changes, an answer stays in a cache.  Correct means:
  what is stale only becomes less, and is gone in the end.
- **Figures of different moments.**  The dashboard's counts, the complaint report
  and its thresholds, an odometer tested and overtaken.  Correct means: they
  agree unless somebody wrote in between.

## 2. The modules

| module | what it is |
|---|---|
| `CronRun` | the frame of an audited job: slots, snapshot, loop, audit row.  No `Next` of its own; jobs conjoin its actions |
| `Invoices` | the invoice ledger and the overdue job |
| `InvoiceBook` | what the ledger promises an auditor: drafted, approved, settled, in this order |
| `InvoicesProofs` | its theorems |
| `Compliance` | documents and the expiry job over two databases |
| `Dispatches` | vehicles, the dispatch desk, the driver's telephone: who gets a vehicle |
| `MCDispatches` | for TLC, with a history variable |
| `Fleet`, `FleetProofs` | `Dispatches` with `Compliance`, composed through `complianceStatus`; theorems about the two parts, the whole, and `Reports` |
| `Complaints`, `ComplaintsProofs` | the complaint desk and the nightly escalation job; theorems |
| `Billing`, `BillingProofs` | tariffs, collections, the billing jobs and the drafting by hand: what gets onto the bills; theorems |
| `Registry`, `MCRegistry`, `RegistryProofs` | organizations, addresses, sites to units, residents, employees: counts, cascades, unique keys; theorems |
| `Sessions` | accounts, passwords, refresh and access tokens, reset links |
| `Roles` | roles, permissions, their assignments, the role a registration gives |
| `Access`, `MCAccess`, `AccessProofs` | `Sessions` with `Roles`: the claims of a token and the permissions guard; theorems about the sessions and about both |
| `Schedules`, `MCSchedules`, `SchedulesProofs` | categories and the schedules, tariffs and collections that refer to them; theorems |
| `Journey`, `JourneyProofs` | what is recorded of a shift on the road, and what map, timeline and distances show of it; theorems |
| `Reports`, `MCReports` | dashboard, reports, site settings and the arithmetic of a bill, beside the dispatch desk |

How they fit together.  `Invoices` starts where `Billing` ends: its
`GenerateDraft` is the insert that `InsertDraft` and `InsertByHand` make.
`Dispatches` decides who may get a shift and `Journey` takes it from there.
`Access` extends `Sessions` by an instance of `Roles`: what the claims of the
first become is an expression over the variables of the second, and a
registration is one step of both.  `Fleet` extends `Dispatches`, the desk, by an instance of `Compliance`, the
office; they share `complianceStatus`, and the step `Ground` that `Dispatches`
leaves to its environment becomes a step of the office.  `Reports` extends `Dispatches` too: the
vehicles and drivers the dashboard counts are those of the desk, whose steps go
on (`FleetMoves`) while the counts are on their way; the other components are
the steps under `Writers`.

### How state and actions correspond to the code

**Invoices.**  `invoice[i]` is a row of `waste_invoices`: the status and whether
`approvedAt`, `paidAt`, `deletedAt` are set and `dueDate` has passed; amounts,
numbers and names are left out.  A handler is two steps: `Check` is
`findOneInvoice` with the status test, and puts the request into `inflight`;
`Approve`, `Reject`, `RecordPayment`, `DeleteInvoice` are the updates, which
test nothing; `Drop` is an update that throws or a process that dies.  The job
is `OverdueStart`, `OverdueScan`, `MarkOverdue`/`MarkFails` for each row of the
snapshot, `OverdueComplete`, `OverdueThrow`, `OverdueFail`, `OverdueDie`.  The
audit's `findUnique` before its update only computes a duration and is part of
that step.

**Compliance.**  `doc[x]` is a row of `compliance_documents`, `compliance[e]`
the column `complianceStatus` of a vehicle or an employee.  A turn of the job is
`MarkExpired` and then `FlipEntity`, with `halfway[r]` in between; `TurnFails`
may come instead of either, `ExpiryDie` at any point.  No code in the repository
sets the column back to `COMPLIANT`, so no action does.

**Dispatches.**  `createDispatch` is four steps: `CheckVehicle`, `CheckDriver`,
`CheckOverlap`, `InsertDispatch`.  The telephone's handlers are an admission
(`CheckStart`, `CheckComplete`, `CheckBreakdown`) and a write (`SetInProgress`,
`CompleteShift`, `ReportBreakdown`); the desk's `recordStop` on a `STARTED`
shift is `CheckStop` and `SetInProgress`.  `UpdateStatus` takes any status to
any other, as the code does.  `Ground` is the environment, replaced by the
real job in `Fleet`.

**Complaints.**  `complaint[c]` is a row of `waste_complaints`: status,
priority, age in steps of 24 hours, `deletedAt`, and whether `updatedBy` names
the job.  `Check` is `findOne` with the lookups of an update; `Update` and
`Delete` write by primary key.  The job decides at its snapshot, so `plan[r]` is
taken in `EscalationScan` and written, row by row, in `Escalate`; the turns
that decide nothing make no call and are left out.  `Ages` is the clock.

**Billing.**  `tariff[t]` is a row of `waste_tariffs`: who pays, how often, and
whether it is active, retired or deleted; keys are numbers in the order of
creation, which the query sorts by.  `collection[c]` says whether a collection is
there and was collected.  The three jobs are one set of actions with the
frequency as a parameter: `BillingStart` takes the day the label of the period
is computed from, `BillingScan` the first page of the query, and a turn is
`Gather` (the reads of `generateInvoiceDraft`), then `InsertDraft`; `DraftFails`
is the inner `catch`.  `POST /billing/invoices/generate` is `GatherByHand` and
`InsertByHand`, with a period of the caller's choice.  The writes of tariffs and
collections are `Check` and then an update by primary key, as elsewhere.

**Registry.**  Every table of the hierarchy is one kind of row: `parent[n]` is
the row the row `n` refers to.  A checked deletion is `CheckDelete` (the
count) and `Delete` (by primary key, with the cascade of the foreign keys; a
resident, soft-deleted or not, holds its unit and so every row above).
Residents and employees are soft-deleted and have a unique user: `CheckCreate`,
`CheckUpdate`, `CheckRemove` read, `CreateMember`, `UpdateMember`,
`RemoveMember` write.  A partial update leaves the fields it does not name to
what they are when the write comes.  `CreateOrganization` and `MakeDefault` are
transactions in the code, and are single steps.

**Sessions, Roles, Access.**  bcrypt salts, so a password is the number of its
change; a refresh token carries (as history) the one its login had compared, a
reset link the one its secret was made from.  A login is `CheckLogin` (one
lookup reads hash and roles) and `StoreLogin`; a refresh `CheckRefresh` and
`AnswerRefresh`; a change `CheckUpdate` or `CheckReset` and `ChangePassword`,
one transaction that also revokes.  `Roles` keeps the two link tables, with
`CheckDeleteRole`/`DeleteRole` and their like for permissions, and
`CheckRegister`/`Enrol`.  `MayPass` of `Access` is `PermissionsGuard`: it
believes `SUPER_ADMIN` in the token and otherwise asks the database.

**Schedules.**  An entry is a row of one of the three tables that refer to a
category.  `CheckCreate`, `CheckUpdate` and `CheckRetire` are the lookups (the
site in the other database, the category, the count), `Insert`, `Write` and
`Retire` the writes.  An update tests the window it would make of the row it has
read and writes only the times it names.

**Journey.**  `shift[k]` is a row of `dispatch_assignments` with its odometers;
of `startedAt` and `completedAt` the model keeps which are set and which is the
later one.  The telephone's handlers are an admission and a write, as in
`Dispatches`, here with the reading that is tested; `CheckStop`,
`MoveOn`, `AddStop` and `Checkpoint` are the stops, `LocationUpdate` and
`SpeedingAlert` the breadcrumb and the alert, `StopTruck` and `NotifyBreakdown`
the truck and its notification.  A start that has read a
`startedAt` writes the old value back.

**Reports.**  The dashboard sends all its counts and awaits them together:
`StartDashboard`, one `AnswerCount` for each number, `AnswerGroups` for the
counts by category, `SendDashboard`.  Of a request the history bit `calm` says
whether one of the tables it counts has been written since it began.  The complaint
report is `ReadComplaints`, `ReadThresholds`, `StoreAnswer` into the cache,
`CacheExpires`.  The other reports make one read and are operators on the
tables (`Aging`, `Share`, `Bill`).

The controllers of dispatches, vehicles and compliance pass
`@CurrentUser('email')` on; the decorator ignores its argument and hands out the
whole token payload (see the findings).  The modules model the services, which
are what the rest of the code calls.

## 3. The runs

| run | instance | distinct states | shows |
|---|---|---|---|
| `invoices` | 1 invoice, 2 requests, 2 job slots, fair | 41,384 | safety of the ledger; implements `InvoiceBook`; late invoices are treated |
| `fleet` | 1 vehicle, 1 driver, 1 shift, 2 requests, 1 document, fair | 345,078 | the desk with the real expiry job: nobody grounded without cause, late documents marked, implements `Dispatches` |
| `dispatches` | 2 vehicles, 1 driver, 1 slot, 2 shifts, 2 requests, symmetry | 808,584 | the overlap query suffices in calm; completions drain |
| `complaints` | 1 complaint, 1 request, 2 job slots, fair | 158,313 | decisions are earned, settled complaints left alone, old ones escalated |
| `billing` | 1 tariff, 1 collection, 1 organization, 2 jobs, 1 request, 1 slot, 2 days | 2,164,800 | who is billed for what, while both are changed; the audit row of a billing job |
| `billing_live` | 2 tariffs, 1 collection, 1 site, 2 jobs, page of 1, fair | 11,166 | a tariff that fits into the page is billed |
| `registry` | 2 sites, 2 residents, 2 addresses, 2 users, 2 requests, 1 of the rest, symmetry | 329,481 | what a deletion takes along; unique keys; the last address |
| `sessions` | 1 user, 2 refresh tokens, 3 passwords, 2 requests, fair | 89,154 | what outlives a password change; lost roles fade from the tokens |
| `access` | 1 user, 3 roles, 1 permission, 1 refresh token, 1 + 1 requests, symmetry | 349,348 | what deleting a role takes along; how long a stripped user passes |
| `schedules` | 1 schedule or 1 tariff or 2 collections, 2 categories, 2 sites, 3 times, 2 requests, symmetry | 234,096 | windows under partial updates, references that dangle, categories retired in use |
| `journey` | 1 shift, 3 odometer readings, 2 requests | 1,383,096 | timeline, map, alerts and distances agree with what was recorded |
| `reports` | 2 collections, 2 vehicles, 1 driver, 1 complaint, 2 invoices, 2 readers, 9 days around the bucket boundaries, fair | 234,397 | the figures add up; changed thresholds show in the end |

Why the bounds are enough.  Every property speaks of one row or of two.  A race
needs two actors on one row, a read of one before a write of the other: two
requests, or a request and a job slot.  Two job slots let invocations overlap;
a slot is used again, so any number of invocations may follow one another.  Two
tariffs with a page of one crowd one of them out.  In `billing` the
organization is the payer that only one of the two jobs bills, and two days let
an invocation outlive the day of its label.  In `registry` two of what a
property counts (addresses, residents of one user, sites of one organization),
one of each row in between.  `sessions` and
`access` have one user: users share nothing but the slots for refresh tokens,
and the proofs cover any number; password changes are the subject of `sessions`,
so `access` leaves them out (`MaxVersion = 1`).  `MCSchedules` lets one table
hold rows at a time (no property relates two entries).  `MCReports` fills one
group of tables that a report reads together at a time, has one summary in
progress and one write during it (one is enough to disturb it), lets its counts
be answered table by table (answers about different tables commute, with each
other and with writes of other tables), and no requests to the
desk (all they do to a row the dashboard counts is to send a truck to
maintenance, which no count looks at); in
`journey` one stop, breadcrumb and notice of each kind, and the readings 0, 1, 2
(0 is the one the code takes for a missing one).  The proofs cover every number
of each where there are proofs.

`CHECK_DEADLOCK FALSE`: rows are never reused, so without a job the requests of
a small instance may run out of work.

### Fairness

`FairSpec` of `Invoices`, `Compliance` (through `Fleet`), `Complaints` and
`Billing`: weak fairness of starting an invocation (the timer fires every
night), strong fairness of the snapshot and of each update (a run may die, and a
call may fail, any number of times, but the database does not refuse the same
call for ever), weak fairness of closing the run.  In `Billing` the three jobs
share the slots of the model but not their timers, so each frequency has a
fairness of its own, and starting is strongly fair: the slot may be taken by
another job when the timer fires.  The code justifies this by the `@Cron`
decorator and by the `try` around each turn.

`FairSpec` of `Sessions`: the clock ends every access token (one hour), and a
request that has been admitted ends, by its write or without it.  Nobody has to
log out.  `Reports`: the clock ends a cache entry (`CacheTTL`).  Elsewhere
requests get no fairness: nobody has to approve an invoice.

### What does not hold

`PROJECT.json` lists the disagreements between the code and what it, its tests
or its docs say, each with the line and the quoted words.  They were met while
modelling; none has a run of its own.  What holds in their place is checked:

1. The overdue job writes `OVERDUE` over `PAID` (or over a rejected draft) when
   the invoice has changed since its snapshot.  What holds: `OverdueIsLate`,
   `ImplementsBook`, `StaleReadsStillHold`.
2. A document that is marked and whose entity is not flipped is never looked at
   again.  What holds: `LateDocIsMarked`, `GroundedForCause`.
3. Double booking.  What holds: `CalmMeansNoDoubleBooking`, as long as
   requests do not overlap and closed shifts stay closed.
4. The escalation job writes `HIGH` over a `CRITICAL` set after its snapshot.
   What holds: `DecisionsAreEarned` (no priority of the job is ahead of the
   complaint's age), `OldComplaintEscalates` (it gets there again).
5. A draft takes every collection there is, of any day and any place.  What
   holds: `DeletionsDrain` (nothing deleted is billed, nobody retired pays, but
   by drafts in progress), `SuccessMeansDrafted`.
6. A login that had compared the old password stores its token after the change
   has revoked all.  What holds: `SessionsDrain` (nothing else does).
7. Checked deletions (sites and below, addresses, roles, permissions) lose what
   came after the count.  What holds: `LostRowsWereLate`,
   `LostAssignmentsWereLate`, `CalmKeepsAnAddress`.
8. Overlapping partial updates invert a schedule's window.  What holds:
   `InversionsWereOvertaken`.
9. Without races: the default rate of `Recyclable` and of hazardous waste, the
   overdue balance of the aging report, the breakdown that is never on the
   timeline, the channel that is never subscribed, the user of a queued job, the
   unit that once had a resident, `@CurrentUser`, the billing queue that drafts
   nothing, the week numbers, the refresh token that is not replaced.

## 4. The proofs

For every value of the constants.  Assumptions: `VehiclesAreNotDrivers` in
`Dispatches`; in `Billing` that tariffs are numbered (`TariffsAreNumbered`),
that the bounds are numbers (`BoundsAreNaturals`), that no payer is called
`NoPayer` (`PayersAreNamed`) and which frequencies there are
(`FrequenciesAreKnown`); `SessionsAssumption` (a user may have a
password), `AccessAssumption` (the two roles the code knows by name),
`KeysDiffer` (keys of two tables); in `Registry` that a key belongs to one table
(`TablesAreDistinct`) and that neither mark for "no row" is a key
(`MarksAreNoKeys`); `SchedulesAssumption` (times are numbers and the day has a
first one, a field that is not given is no value) and `SchedulesApart` (a key of
a schedule is not one of another table); `JourneyAssumption` (readings and the bound
are numbers, a null is neither a reading nor a timestamp); `ReportsAssumption`
(tables are finite, weights, rates and fees are not negative as the DTOs
demand, the categories are those the code tells apart, a complaint begins at
age 0, the default thresholds are thresholds).  The other modules need none.  TLC evaluates each of them in a run.

**InvoicesProofs.**  `IInv` is `TypeOK` with `PaymentNeedsApproval`,
`BillIsApproved`, `OverdueIsLate` and `StaleReadsStillHold`.  The last one is
what makes it inductive: `BillIsApproved` is broken by a payment or a job turn
unless its row is still approved when the write comes, and that holds because
approval and lateness, once true of a row, stay so (no code clears
`approvedAt`, none changes `dueDate`).  From `IInv` follow the action properties
and `LedgerImplementsBook`: each step maps to a step of the book or to a stutter.
`AuditRowsAreTruthful` has an induction of its own over `CronRun`.

**FleetProofs.**  *The office.*  The invariant adds `TurnsStayJustified`: what
the job still has to treat is late, what it holds halfway is marked.  A document
keeps its row, its entity and its lateness for ever, so a stale snapshot does no
harm.

*The desk.*  `DeskIInv` is the type invariant with `ShiftsAreThere`: a request
that is about to write a shift has read it, and no shift is ever deleted.
`GroundingDrains` and `CompletionDrains` then follow action by
action from two lemmas that say what a step of `createDispatch`, and what a step
of a shift, does to the requests in progress.

*The desk in calm.*  `CalmMeansNoDoubleBooking` is not inductive: what makes the
insertion right is that the overlap query of the same request still holds.
`CalmBooking` says so: at most one creation is in progress, and when it is about
to insert, no open shift overlaps with what it will insert.  It survives the
other handlers because none of them gives an open shift another vehicle, driver
or slot.

*The fleet.*  It implements the office (the desk writes none of its variables),
hence the office's invariants hold in it (`FleetGroundsForCause`); with
them each step of the office is `Ground` or leaves `complianceStatus` alone,
hence the fleet implements the desk (`FleetImplementsDesk`) and
inherits what the desk promises (`FleetGroundingDrains`).

*Sums.*  The reports add up columns of tables, with `SumFunctionOnSet`.  What
such a sum is for a table of any length is proved first: the library's
induction theorems take an operator, so `SetInduction` is derived from
`WFMin` and the well-founded order of the finite subsets, with the set of the
subsets that have a property in place of the property.  From it follow that the
recursive table behind the fold exists (`SumsExist`), that the order of
the elements does not matter (`SumTakes`), and that sums split, regroup and count
(`SumSplits`, `SumRegroups`, `CountIsSum`).

*The reports.*  `ReportsIInv` is the desk's invariant and `ReportsTypeOK` with
`Sound` of every request in progress: a summary nobody has disturbed holds what its
counts would answer now (not what they answered: that is what makes the
invariant useful at the last answer), the complaints a report has in hand were
read with a time for every settled one, an answer on its way to the cache adds
up.  With it go the same of the cache, `Timed` of the complaints, and
`OverdueIsPast`, the promise of the nightly job.  A step of the desk either
leaves the counted tables alone, and then every count stays (`CountsStay`), or
disturbs all summaries.  `SummariesAddUp` then says that counts of one moment
add up; `FiguresAgree` is about amounts, and has a lemma for each report.  The
three rounded shares come to 100 percent because each is within half a tenth of
the exact one (`ShareBounds`).

**RegistryProofs.**  `Typed` is the type invariant, with the foreign keys in it,
and two facts about requests: a pending update names a parent of the right
table, a pending deletion is of a key that has been handed out (so no row comes
to be under it that is the row itself).  `CascadeIsComplete` shows that the five
levels of `Below` are closed under "hangs on", which is what keeps the foreign
keys through a deletion.  The other theorems have an invariant each on top of it:

- `RegistryKeysHold`: `DefaultsApart` (two default addresses have two
  organizations), with `DefaultMoves`, what a step may do to the flags;
- `LostRowsArrivedLate`: `Noticed`, a pending deletion knows of everything
  that is counted under its row (it had found nothing, and `NoticingFacts` says
  that it learns of all that comes), with `ResidentsStay`;
- `CalmOrganizationsKeepAnAddress`: `LastAddressStays`, where at most one
  address of an organization is being deleted there is another one beside it.
  The count of the handler becomes this fact in `CheckedDeletionLeavesOne`, and
  `DeletionLeavesOne` uses it up;
- `RemovedRowsDrain` needs no other: `WritersDrain` (no request finds a
  soft-deleted row) and `RemovedMoves` (what may still be done to it).

**ComplaintsProofs.**  The invariant is `TypeOK`, `EscalationIsEarned` and
`StaleReadsStillHold`: what a turn has decided is earned by the age of the row
now (the two together are the `DecisionsAreEarned` of the run).  It is kept
because rows only get older and are never removed, so no write
of the desk can make a decision unearned.  `SettledComplaintsAreLeftAlone` splits
into who may start to hold a row (only the `findMany`, only `findOne`) and what
happens to a row nobody holds.

**BillingProofs.**  The invariant is `TypeOK`, `SuccessMeansDrafted`, `OnCourse` (each
tariff an invocation has a payer for is still to do, has failed, or its draft is
in the table) and `Backed` (the tariff a request is about to write
exists, and an invocation has a payer for every turn to come: the types rest on it).  Drafts are never removed, so
`SuccessMeansDrafted` follows when the loop ends without a failure.
`DeletionsAreFinal` follows from who may start to hold a collection or a payer,
and who adds drafts (`NoNewHolders`, `NoNewTurns`, `NewDrafts`).

**AccessProofs.**  *The sessions*, for arbitrary claims.  The types say more
than types: whatever is stored or signed rests on a password the account has or
had, which is what the numbers of passwords only growing keeps.
`SessionsAreDrained` then needs two lemmas: nobody begins with an old password
(`NobodyStartsLate`), and a refresh token that is alive after a step was alive
before and belongs to a user whose password the step leaves alone, or has just
been stored by a login (`LiveTokens`).

*With the roles.*  The types of the two parts need one another (who is enrolled
is read off the passwords; the claims are names because no assignment lacks its
role), so they are one induction, `AccessTypeOK`.  With them every step of the
administrators is `Reassign` of `Sessions`: `AccessImplementsSessions`, and what
is proved for arbitrary claims holds here (`AccessSessionsDrain`).
`BypassesDrain`: new access tokens come from logins and refreshes in progress
(`NewTickets`), and these read the roles there are (`NewReaders`).
`OnlyLateAssignmentsAreLost` has an invariant of its own, `Noticed`: a deletion
in progress knows of every assignment of its row, because it had counted none.

**SchedulesProofs.**  The invariant is the type invariant with three facts about
requests in progress: `Grounded` (what they are about has a row; the foreign key
in the types rests on it), `WindowsChecked` (the window a request will make is
valid as long as nobody has overtaken it) and `Noticed` (a retirement knows of
the collections of its category).  `WriteLeaves` and `InsertLeaves` say what a
write does to the other requests: it may mark an update as overtaken and add to
what a retirement knows, and changes nothing else.  `InversionsAreOvertaken`
follows from `WindowsChecked`, `RetiredCategoriesWereIdle` from `Noticed`, and
`DanglingReferencesDrain` from `NobodyStartsDangling`.

**JourneyProofs.**  `IInv` is `TypeOK`, `CompletionComesLast`,
`StartedHaveTimes` (a `STARTED` shift has its time), `Admitted` (a pending first
stop has a start, a pending completion a reading that was not too small),
`AlertsAreFinite` and `AlertsAreFounded` (alerts written and pending are at most
the fast breadcrumbs).  `CompletionIsLast` and `AlertsHaveBreadcrumbs` are parts
of it; `MapIsTimed` follows step by step from `Admitted`, and
`AnswersAgreeWithViews` from what a completion's own write does to its row.

**Proved rather than run**: the type invariants of `Invoices`, `Compliance`,
`Dispatches`, `Complaints`, `Billing`, `Sessions` and `Journey`,
`PaymentNeedsApproval`,
`BillIsApproved`, `NeverDraftAgain`, and `ImplementsSessions` of `Access`.

**Only model-checked**: liveness, which is out of the prover's reach
(`LateInvoiceIsTreated`, `LateDocIsMarked`, `OldComplaintEscalates`,
`NewestAreBilled`, `ClaimsFade`, `ThresholdsShow`).
Every invariant and every action property of a run is also a theorem.

## 5. Not modelled

`PROJECT.json` lists every component with its status.

- **Vendor API** only reads.  **Storage, maps and e-mail** are stateless calls
  to outside services, and the error of a mail is swallowed.
- **Queues**: the processors write nothing; the retries are the library's.
- **Application shell** (`main.ts`, filters, interceptors, pipes): no state.
- **Live tracking**: rooms and sockets hold nothing the rest reads, and the Redis
  channel between instances is never subscribed (a finding), so what would be
  received over it is not this code's behaviour.
- **Notifications**: reading one and the socket that pushes it.
- **Wording and labels**: the labels of billing periods (`Billing` keeps the day
  they are taken from), invoice numbers, CSV, CO2 factors, the ranking of
  workers, route efficiency, texts and photographs.
- **Complaints**: the worker a complaint is assigned to.  **Vehicles**: the
  registration number and its unique key.

## 6. Plan

What would come next:

1. A composition of `Journey` with `Dispatches` through the shift they share,
   as `Fleet` composes through `complianceStatus`.
2. `Reports` beside `Invoices` and `Complaints` as it is beside the desk: their
   steps would then be its `Writers`.
