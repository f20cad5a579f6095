----------------------------- MODULE Schedules -----------------------------
(***************************************************************************)
(* Waste categories and what refers to them: pickup schedules, tariffs and  *)
(* collections (schedules.service.ts, waste-categories.service.ts,          *)
(* waste-collections.service.ts and the tariffs of billing.service.ts).     *)
(*                                                                         *)
(* A request looks up the site, in the other database, and the category,    *)
(* and writes afterwards; no key of either database ties the row to the     *)
(* site, and a category is only ever marked as deleted.  An update is       *)
(* partial: the fields it does not name keep whatever they hold by then.    *)
(*                                                                         *)
(* Left out: names, days and rates; buildings and employees, which are      *)
(* looked up like sites; the flags isActive and isCollected.                *)
(***************************************************************************)
EXTENDS Naturals

CONSTANTS
    Category, Schedule, Tariff, Collection,     \* primary keys
    Site,       \* sites of the other database
    Time,       \* bound: times of day, a set of numbers
    Request,    \* HTTP requests that may be in progress at once
    None        \* what is not there

\* The day has a first minute.
ASSUME SchedulesAssumption ==
    /\ Time \subseteq Nat /\ \E t \in Time : \A u \in Time : t <= u
    /\ None \notin Time \cup Category \cup Site

\* A key of a schedule is not one of another table.
ASSUME SchedulesApart == Schedule \cap (Tariff \cup Collection) = {}

VARIABLES
    known,      \* categories with a row
    retired,    \* categories with deletedAt set
    category,   \* category[e]: the category the entry e refers to; None: no such row
    site,       \* site[e]: the site it refers to, or None
    removed,    \* entries with deletedAt set
    start, end, \* the time window of a schedule
    sites,      \* sites that exist
    inflight    \* requests between their checks and their write

vars == <<known, retired, category, site, removed, start, end, sites, inflight>>

Entry == Schedule \cup Tariff \cup Collection
Table == {Schedule, Tariff, Collection}

\* A field of an update that is None is not in the request.
Creation == [by : Request, op : {"create"}, table : Table, category : Category,
             site : Site \cup {None}, start : Time, end : Time]
\* overtaken: history, the window has been written since it was read.
Update == [by : Request, op : {"update"}, row : Entry, category : Category \cup {None},
           site : Site \cup {None}, start : Time \cup {None}, end : Time \cup {None},
           overtaken : BOOLEAN]
\* since: history, the collections that came to refer to the category since it was counted.
Retirement == [by : Request, op : {"retire"}, row : Category, since : SUBSET Collection]
Pending == Creation \cup Update \cup Retirement

Exists(e) == category[e] # None
Shown(e) == Exists(e) /\ e \notin removed
InUse(c) == c \in known \ retired
Free(q) == \A p \in inflight : p.by # q

\* The types of the variables; a reference to a category is a foreign key.
TypeOK ==
    /\ known \subseteq Category /\ retired \subseteq known
    /\ category \in [Entry -> known \cup {None}]
    /\ site \in [Entry -> Site \cup {None}]
    /\ \A e \in Entry : site[e] # None => Exists(e)
    /\ removed \subseteq {e \in Entry : Exists(e)}
    /\ start \in [Schedule -> Time] /\ end \in [Schedule -> Time]
    /\ sites \subseteq Site
    /\ inflight \subseteq Pending
    /\ \A p1, p2 \in inflight : p1.by = p2.by => p1 = p2

Midnight == CHOOSE t \in Time : \A u \in Time : t <= u

Init ==
    /\ known = {} /\ retired = {}
    /\ category = [e \in Entry |-> None]
    /\ site = [e \in Entry |-> None]
    /\ removed = {}
    /\ start = [s \in Schedule |-> Midnight]
    /\ end = [s \in Schedule |-> Midnight]
    /\ sites \in SUBSET Site
    /\ inflight = {}

-----------------------------------------------------------------------------
\* Mutant of Found: the site is not looked up.
FoundCategory(c, w) == c = None \/ InUse(c)

\* The two lookups of a create and of an update.
Found(c, w) == (c = None \/ InUse(c)) /\ (w = None \/ w \in sites)

ValidWindow(from, to) == from < to

CheckCreate(q, table, c, w, from, to) ==
    /\ Free(q)
    /\ c # None /\ Found(c, w)
    /\ table = Schedule => w # None
    /\ table = Collection => w = None
    /\ IF table = Schedule THEN ValidWindow(from, to) ELSE from = Midnight /\ to = Midnight
    /\ inflight' = inflight \cup {[by |-> q, op |-> "create", table |-> table, category |-> c,
                                   site |-> w, start |-> from, end |-> to]}
    /\ UNCHANGED <<known, retired, category, site, removed, start, end, sites>>

\* Retirements in progress learn that the entry e has come to refer to c.
Noticing(e, c) ==
    {IF p.op = "retire" /\ p.row = c /\ e \in Collection
     THEN [p EXCEPT !.since = @ \cup {e}] ELSE p : p \in inflight}

Insert(p, e) ==
    /\ p \in inflight /\ p.op = "create"
    /\ e \in p.table /\ ~Exists(e)
    /\ category' = [category EXCEPT ![e] = p.category]
    /\ site' = [site EXCEPT ![e] = p.site]
    /\ IF e \in Schedule
       THEN start' = [start EXCEPT ![e] = p.start] /\ end' = [end EXCEPT ![e] = p.end]
       ELSE UNCHANGED <<start, end>>
    /\ inflight' = Noticing(e, p.category) \ {p}
    /\ UNCHANGED <<known, retired, removed, sites>>

Merged(new, old) == IF new = None THEN old ELSE new

\* Mutant of WillBeValid: the times an update does not name are not looked up.
WillBeValidNamed(e, from, to) ==
    IF None \in {from, to} THEN TRUE ELSE ValidWindow(from, to)

\* The window an update would make of the one it has read.
WillBeValid(e, from, to) == ValidWindow(Merged(from, start[e]), Merged(to, end[e]))

CheckUpdate(q, e, c, w, from, to) ==
    /\ Free(q) /\ Shown(e)
    /\ Found(c, w)
    /\ e \in Collection => w = None
    /\ IF e \in Schedule THEN WillBeValid(e, from, to)
                         ELSE from = None /\ to = None
    /\ inflight' = inflight \cup {[by |-> q, op |-> "update", row |-> e, category |-> c,
                                   site |-> w, start |-> from, end |-> to, overtaken |-> FALSE]}
    /\ UNCHANGED <<known, retired, category, site, removed, start, end, sites>>

\* Updates in progress that have read the window of e.
Overtaking(e, pending) ==
    {IF p.op = "update" /\ p.row = e THEN [p EXCEPT !.overtaken = TRUE] ELSE p : p \in pending}

\* Written by id: also to an entry that has been removed since.
Write(p) ==
    /\ p \in inflight /\ p.op = "update"
    /\ LET e == p.row
       IN  /\ category' = [category EXCEPT ![e] = Merged(p.category, @)]
           /\ site' = [site EXCEPT ![e] = Merged(p.site, @)]
           /\ IF e \in Schedule
              THEN /\ start' = [start EXCEPT ![e] = Merged(p.start, @)]
                   /\ end' = [end EXCEPT ![e] = Merged(p.end, @)]
              ELSE UNCHANGED <<start, end>>
           /\ inflight' = IF <<p.start, p.end>> = <<None, None>>
                          THEN Noticing(e, p.category) \ {p}
                          ELSE Overtaking(e, Noticing(e, p.category) \ {p})
    /\ UNCHANGED <<known, retired, removed, sites>>

\* findOne and softDelete: deleting twice changes nothing more.
Remove(e) ==
    /\ Shown(e)
    /\ removed' = removed \cup {e}
    /\ UNCHANGED <<known, retired, category, site, start, end, sites, inflight>>

-----------------------------------------------------------------------------
\* Categories.
CreateCategory(c) ==
    /\ c \notin known
    /\ known' = known \cup {c}
    /\ UNCHANGED <<retired, category, site, removed, start, end, sites, inflight>>

\* Mutant of Linked: nothing is counted.
LinkedNone(c) == {}

\* countLinkedCollections; schedules and tariffs are not counted.
Linked(c) == {e \in Collection : category[e] = c /\ Shown(e)}

CheckRetire(q, c) ==
    /\ Free(q) /\ InUse(c)
    /\ Linked(c) = {}
    /\ inflight' = inflight \cup {[by |-> q, op |-> "retire", row |-> c, since |-> {}]}
    /\ UNCHANGED <<known, retired, category, site, removed, start, end, sites>>

\* Mutant of Retire: the row itself is deleted.
RetireRow(p) ==
    /\ p \in inflight /\ p.op = "retire"
    /\ known' = known \ {p.row}
    /\ inflight' = inflight \ {p}
    /\ UNCHANGED <<retired, category, site, removed, start, end, sites>>

Retire(p) ==
    /\ p \in inflight /\ p.op = "retire"
    /\ retired' = retired \cup {p.row}
    /\ inflight' = inflight \ {p}
    /\ UNCHANGED <<known, category, site, removed, start, end, sites>>

\* A request dies between its checks and its write.
Drop(p) ==
    /\ p \in inflight
    /\ inflight' = inflight \ {p}
    /\ UNCHANGED <<known, retired, category, site, removed, start, end, sites>>

\* SitesService of the other database, which knows nothing of schedules (Registry).
DeleteSite(w) ==
    /\ w \in sites
    /\ sites' = sites \ {w}
    /\ UNCHANGED <<known, retired, category, site, removed, start, end, inflight>>

-----------------------------------------------------------------------------
Next ==
    \/ \E q \in Request, table \in Table, c \in Category, w \in Site \cup {None},
          from \in Time, to \in Time : CheckCreate(q, table, c, w, from, to)
    \/ \E q \in Request, e \in Entry :
          \* Bound: one update names references or times, not both.
          \/ \E c \in Category \cup {None}, w \in Site \cup {None} :
                CheckUpdate(q, e, c, w, None, None)
          \/ \E from, to \in Time \cup {None} : CheckUpdate(q, e, None, None, from, to)
    \/ \E p \in inflight : Write(p) \/ Retire(p) \/ Drop(p) \/ \E e \in Entry : Insert(p, e)
    \/ \E e \in Entry : Remove(e)
    \/ \E c \in Category : CreateCategory(c)
    \/ \E q \in Request, c \in Category : CheckRetire(q, c)
    \/ \E w \in Site : DeleteSite(w)

Spec == Init /\ [][Next]_vars

-----------------------------------------------------------------------------
Inverted(s) == Exists(s) /\ ~ValidWindow(start[s], end[s])

\* Hazard (partial updates overlapping): "Start time must be strictly before end time"
\* fails of a stored window only by an update that had read a window another update has
\* written since; alone, no sequence of partial updates inverts a window.
InversionsWereOvertaken ==
    [][ \A s \in Schedule :
            Inverted(s)' /\ ~Inverted(s) =>
                \E p \in inflight \ inflight' : p.op = "update" /\ p.row = s /\ p.overtaken
      ]_vars

\* Whether the request p is about to write a reference to something that is gone.
Dangling(p) ==
    /\ p.op \in {"create", "update"}
    /\ (p.category # None /\ ~InUse(p.category)) \/ (p.site # None /\ p.site \notin sites)

\* Hazard (a lookup in another database): an entry comes to refer to a deleted site or
\* a retired category only by a request that had looked it up before; such requests are
\* only those in progress at the deletion.
DanglingDrains ==
    [][ /\ \A p \in inflight' : Dangling(p)' => p.by \in {o.by : o \in inflight}
        /\ \A e \in Entry :
              LET newCategory == Exists(e)' /\ category'[e] # category[e] /\ category'[e] \in retired
                  newSite == site'[e] # None /\ site'[e] # site[e] /\ site'[e] \notin sites
              IN  newCategory \/ newSite => \E p \in inflight \ inflight' : Dangling(p)
      ]_vars

\* Hazard (the count racing a collection): a category is retired while collections still
\* refer to it only when these came after the count.
RetiredWereIdle ==
    [][ \A c \in Category :
            InUse(c) /\ ~InUse(c)' =>
                \E p \in inflight \ inflight' :
                    p.op = "retire" /\ p.row = c /\ 
                        {e \in Collection : Shown(e) /\ category[e] = c} \subseteq p.since
      ]_vars
=============================================================================
