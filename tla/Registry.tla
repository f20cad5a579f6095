------------------------------ MODULE Registry ------------------------------
(***************************************************************************)
(* The registry of the core database: organizations and their addresses,    *)
(* sites, buildings, floors and units, the residents of a unit and the      *)
(* employees of an organization (the services of the same names under       *)
(* src/src/modules).                                                        *)
(*                                                                         *)
(* A service first counts what hangs on a row and then deletes the row by   *)
(* primary key; the foreign keys take along whatever has come to hang on it *)
(* in between (onDelete: Cascade), save that a resident row, soft-deleted   *)
(* or not, holds its unit (onDelete: Restrict).  A single insert or update  *)
(* is one step: whether its parent exists and its key is free is decided by *)
(* the foreign and the unique keys, and the lookups before it only reject   *)
(* earlier.                                                                 *)
(*                                                                         *)
(* Left out: names, codes, coordinates and settings (one row per site or    *)
(* organization, without rules of its own).                                 *)
(***************************************************************************)
EXTENDS FiniteSets, Naturals

CONSTANTS
    Org, Site, Building, Floor, Unit,   \* primary keys of the tables of the same names
    Resident, Employee, Address,
    User,                               \* rows of users; nothing deletes one
    Request                             \* HTTP requests that may be in progress at once

VARIABLES
    parent,     \* parent[n]: the row the row n refers to; None when there is no row n
    unused,     \* keys not handed out yet: autoincrement never hands one out twice
    user,       \* user[m]: userId of a resident or employee row
    removed,    \* residents and employees with deletedAt set
    default,    \* addresses with isDefault set
    inflight,   \* requests between their checks and their write
    crowded     \* history: organizations two of whose addresses were being deleted at once

vars == <<parent, unused, user, removed, default, inflight, crowded>>

Root == "central"
None == "none"

Member == Resident \cup Employee
Row == Org \cup Site \cup Building \cup Floor \cup Unit \cup Member \cup Address

\* A primary key belongs to one table.
ASSUME TablesAreDistinct ==
    /\ Org \cap (Site \cup Building \cup Floor \cup Unit \cup Member \cup Address) = {}
    /\ Site \cap (Building \cup Floor \cup Unit \cup Member \cup Address) = {}
    /\ Building \cap (Floor \cup Unit \cup Member \cup Address) = {}
    /\ Floor \cap (Unit \cup Member \cup Address) = {}
    /\ Unit \cap (Member \cup Address) = {}
    /\ Resident \cap (Employee \cup Address) = {}
    /\ Employee \cap Address = {}

\* Root and None stand for "no row".
ASSUME MarksAreNoKeys == {Root, None} \cap Row = {} /\ None \notin User

\* The foreign keys: what a row may hang on.
Edge == (Org \X {Root}) \cup (Site \X Org) \cup (Building \X Site) \cup (Floor \X Building)
        \cup (Unit \X Floor) \cup (Resident \X Unit) \cup (Employee \X Org) \cup (Address \X Org)

\* since: history, what has come to hang on the row since it was counted (for an
\* address: itself, once it has become the default).
Deletion == [by : Request, op : {"delete"}, row : Row, since : SUBSET Row]
Pending == Deletion \cup [by : Request, op : {"remove"}, row : Member]
           \cup [by : Request, op : {"create"}, user : User, under : Org \cup Unit]
           \cup [by : Request, op : {"update"}, row : Member,
                 user : User \cup {None}, under : Org \cup Unit \cup {None}]

Live(n) == parent[n] # None
Free(q) == \A p \in inflight : p.by # q
Children(n) == {m \in Row : parent[m] = n}
Addresses(o) == Children(o) \cap Address

\* Everything below the row n; the tables are five deep below an organization.
Below(n) ==
    LET kids(S) == {m \in Row : parent[m] \in S}
        one == kids({n})
        two == kids(one)
        three == kids(two)
        four == kids(three)
    IN  one \cup two \cup three \cup four \cup kids(four)

\* The types of the variables, and the foreign keys: a row never outlives the row it
\* hangs on, whichever requests overlap.
TypeOK ==
    /\ parent \in [Row -> Row \cup {Root, None}]
    /\ \A n \in Row : Live(n) =>
          <<n, parent[n]>> \in Edge /\ (parent[n] = Root \/ Live(parent[n]))
    /\ unused \subseteq {n \in Row : ~Live(n)}
    /\ user \in [Member -> User \cup {None}]
    /\ \A m \in Member : Live(m) <=> user[m] # None
    /\ removed \subseteq {m \in Member : Live(m)}
    /\ default \subseteq {a \in Address : Live(a)}
    /\ inflight \subseteq Pending
    /\ \A p1, p2 \in inflight : p1.by = p2.by => p1 = p2
    /\ crowded \subseteq Org

Init ==
    /\ parent = [n \in Row |-> None]
    /\ unused = Row
    /\ user = [m \in Member |-> None]
    /\ removed = {} /\ default = {}
    /\ inflight = {}
    /\ crowded = {}

-----------------------------------------------------------------------------
\* Rows come, move and go.

\* Every deletion of the row p in progress learns that n has come under it.
Noticing(n, p) ==
    {IF d.op = "delete" /\ d.row = p THEN [d EXCEPT !.since = @ \cup {n}] ELSE d : d \in inflight}

Insert(n, p) ==
    /\ n \in unused /\ <<n, p>> \in Edge
    /\ p # Root => Live(p)
    /\ parent' = [parent EXCEPT ![n] = p]
    /\ unused' = unused \ {n}

Create(n, p) ==
    /\ Insert(n, p)
    /\ inflight' = Noticing(n, p)
    /\ UNCHANGED <<user, removed, default, crowded>>

\* The update DTOs are partial create DTOs: they may name another parent.
Move(n, p) ==
    /\ Live(n) /\ p # parent[n]
    /\ <<n, p>> \in Edge /\ Live(p)
    /\ parent' = [parent EXCEPT ![n] = p]
    /\ inflight' = Noticing(n, p)
    /\ UNCHANGED <<unused, user, removed, default, crowded>>

\* What the services count before they delete the row n; settings and addresses of
\* an organization are not counted.
Counted(n) == Children(n) \ Address

\* Mutant of CheckDelete: nothing is counted.
CheckDeleteUncounted(q, n) ==
    /\ Free(q) /\ Live(n)
    /\ inflight' = inflight \cup {[by |-> q, op |-> "delete", row |-> n, since |-> {}]}
    /\ UNCHANGED <<parent, unused, user, removed, default, crowded>>

CheckDelete(q, n) ==
    /\ Free(q) /\ Live(n)
    /\ Counted(n) = {}
    /\ inflight' = inflight \cup {[by |-> q, op |-> "delete", row |-> n, since |-> {}]}
    /\ UNCHANGED <<parent, unused, user, removed, default, crowded>>

\* Mutant of Taken: the cascade is one level deep.
TakenOneLevel(n) == {n} \cup Children(n)

\* What the foreign keys delete with the row n; Held: they refuse.
Taken(n) == {n} \cup Below(n)
Held(n) == Below(n) \cap Resident # {}

Delete(p) ==
    /\ p \in inflight /\ p.op = "delete"
    /\ LET n == p.row
       IN  \/ /\ Live(n) /\ ~Held(n)
              /\ parent' = [m \in Row |-> IF m \in Taken(n) THEN None ELSE parent[m]]
              /\ user' = [m \in Member |-> IF m \in Taken(n) THEN None ELSE user[m]]
              /\ removed' = removed \ Taken(n)
              /\ default' = default \ Taken(n)
           \/ /\ ~Live(n) \/ Held(n)
              /\ UNCHANGED <<parent, user, removed, default>>
    /\ inflight' = inflight \ {p}
    /\ UNCHANGED <<unused, crowded>>

\* A request dies between its checks and its write: the process or the database fails.
Drop(p) ==
    /\ p \in inflight
    /\ inflight' = inflight \ {p}
    /\ UNCHANGED <<parent, unused, user, removed, default, crowded>>

-----------------------------------------------------------------------------
\* Sites, buildings, floors and units: one service each, of the same shape.

Places(Table) ==
    \/ \E n \in Table, p \in Row : Create(n, p) \/ Move(n, p)
    \/ \E q \in Request, n \in Table : CheckDelete(q, n)
    \/ \E p \in inflight : p.op = "delete" /\ p.row \in Table /\ Delete(p)

Sites == Places(Site)
Buildings == Places(Building)
Floors == Places(Floor)
Units == Places(Unit)

-----------------------------------------------------------------------------
\* Organizations and their addresses.

\* One transaction inserts the organization and its first address, the default one.
CreateOrganization(o, a) ==
    /\ {o, a} \subseteq unused /\ o \in Org /\ a \in Address
    /\ parent' = [parent EXCEPT ![o] = Root, ![a] = o]
    /\ unused' = unused \ {o, a}
    /\ default' = default \cup {a}
    /\ UNCHANGED <<user, removed, inflight, crowded>>

DeleteOrganization ==
    \/ \E q \in Request, o \in Org : CheckDelete(q, o)
    \/ \E p \in inflight : p.op = "delete" /\ p.row \in Org /\ Delete(p)

\* Mutant of MakeDefault: the old default address keeps its flag.
MakeDefaultToo(o, a) == default' = default \cup {a}

\* One transaction lowers the flags of the organization and raises the one of a.
MakeDefault(o, a) == default' = (default \ Addresses(o)) \cup {a}

AddAddress(o, a, flag) ==
    /\ o \in Org /\ a \in Address /\ Insert(a, o)
    /\ IF flag THEN MakeDefault(o, a) ELSE UNCHANGED default
    /\ UNCHANGED <<user, removed, inflight, crowded>>

\* isDefault: false lowers the flag and raises no other.
UpdateAddress(a, flag) ==
    /\ a \in Address /\ Live(a)
    /\ IF flag THEN MakeDefault(parent[a], a) ELSE default' = default \ {a}
    /\ inflight' = IF flag THEN Noticing(a, a) ELSE inflight
    /\ UNCHANGED <<parent, unused, user, removed, crowded>>

\* Mutant of CheckDeleteAddress: one address is enough.
CheckDeleteLastAddress(q, a) ==
    /\ Free(q) /\ a \in Address /\ Live(a) /\ a \notin default
    /\ inflight' = inflight \cup {[by |-> q, op |-> "delete", row |-> a, since |-> {}]}
    /\ UNCHANGED <<parent, unused, user, removed, default, crowded>>

CheckDeleteAddress(q, a) ==
    /\ Free(q) /\ a \in Address /\ Live(a)
    /\ Cardinality(Addresses(parent[a])) > 1
    /\ a \notin default
    /\ inflight' = inflight \cup {[by |-> q, op |-> "delete", row |-> a, since |-> {}]}
    /\ crowded' = IF \E p \in inflight : p.op = "delete" /\ p.row \in Addresses(parent[a])
                  THEN crowded \cup {parent[a]} ELSE crowded
    /\ UNCHANGED <<parent, unused, user, removed, default>>

DeleteAddress ==
    \/ \E q \in Request, a \in Address : CheckDeleteAddress(q, a)
    \/ \E p \in inflight : p.op = "delete" /\ p.row \in Address /\ Delete(p)

Organizations ==
    \/ \E o \in Org, a \in Address : CreateOrganization(o, a)
    \/ DeleteOrganization
    \/ \E o \in Org, a \in Address, flag \in BOOLEAN : AddAddress(o, a, flag)
    \/ \E a \in Address, flag \in BOOLEAN : UpdateAddress(a, flag)
    \/ DeleteAddress

-----------------------------------------------------------------------------
\* Residents and employees: soft-deleted, and one row per user (a unique key that a
\* soft-deleted row still holds).

Visible(m) == Live(m) /\ m \notin removed
\* Mutant of Others: a soft-deleted row does not hold the unique key.
OthersVisible(Table, m, u) == {x \in Table \ {m} : user[x] = u /\ x \notin removed}
Others(Table, m, u) == {x \in Table \ {m} : user[x] = u}

CheckCreate(Table, q, u, p) ==
    /\ Free(q) /\ Live(p)
    /\ \A x \in Table : Visible(x) => user[x] # u
    /\ inflight' = inflight \cup {[by |-> q, op |-> "create", user |-> u, under |-> p]}
    /\ UNCHANGED <<parent, unused, user, removed, default, crowded>>

\* A violation of a key ends the request (Drop).
CreateMember(Table, p, m) ==
    /\ p \in inflight /\ p.op = "create" /\ m \in Table
    /\ Others(Table, m, p.user) = {}
    /\ Insert(m, p.under)
    /\ user' = [user EXCEPT ![m] = p.user]
    /\ inflight' = Noticing(m, p.under) \ {p}
    /\ UNCHANGED <<removed, default, crowded>>

\* Mutant of CheckUpdate: findOne does not look at deletedAt.
CheckUpdateRemoved(q, m, u, p) ==
    /\ Free(q) /\ Live(m)
    /\ p # None => Live(p)
    /\ inflight' = inflight \cup {[by |-> q, op |-> "update", row |-> m, user |-> u, under |-> p]}
    /\ UNCHANGED <<parent, unused, user, removed, default, crowded>>

\* None: the DTO leaves the user, or the parent, as it is when the write comes.
CheckUpdate(q, m, u, p) ==
    /\ Free(q) /\ Visible(m)
    /\ p # None => Live(p)
    /\ inflight' = inflight \cup {[by |-> q, op |-> "update", row |-> m, user |-> u, under |-> p]}
    /\ UNCHANGED <<parent, unused, user, removed, default, crowded>>

\* By primary key: whether the row was removed since is not asked.
UpdateMember(Table, p) ==
    /\ p \in inflight /\ p.op = "update" /\ p.row \in Table /\ Live(p.row)
    /\ LET place == IF p.under = None THEN parent[p.row] ELSE p.under
           holder == IF p.user = None THEN user[p.row] ELSE p.user
       IN  /\ Live(place)
           /\ Others(Table, p.row, holder) = {}
           /\ parent' = [parent EXCEPT ![p.row] = place]
           /\ user' = [user EXCEPT ![p.row] = holder]
           /\ inflight' = (IF place = parent[p.row] THEN inflight ELSE Noticing(p.row, place)) \ {p}
    /\ UNCHANGED <<unused, removed, default, crowded>>

CheckRemove(q, m) ==
    /\ Free(q) /\ Visible(m)
    /\ inflight' = inflight \cup {[by |-> q, op |-> "remove", row |-> m]}
    /\ UNCHANGED <<parent, unused, user, removed, default, crowded>>

RemoveMember(p) ==
    /\ p \in inflight /\ p.op = "remove" /\ Live(p.row)
    /\ removed' = removed \cup {p.row}
    /\ inflight' = inflight \ {p}
    /\ UNCHANGED <<parent, unused, user, default, crowded>>

Members(Table, Place) ==
    \/ \E q \in Request, u \in User, p \in Place : CheckCreate(Table, q, u, p)
    \/ \E p \in inflight, m \in Table : CreateMember(Table, p, m)
    \/ \E q \in Request, m \in Table, u \in User \cup {None}, p \in Place \cup {None} :
          CheckUpdate(q, m, u, p)
    \/ \E p \in inflight : UpdateMember(Table, p)
    \/ \E q \in Request, m \in Table : CheckRemove(q, m)
    \/ \E p \in inflight : p.op = "remove" /\ p.row \in Table /\ RemoveMember(p)

Residents == Members(Resident, Unit)
Employees == Members(Employee, Org)

Next ==
    \/ Organizations \/ Sites \/ Buildings \/ Floors \/ Units
    \/ Residents \/ Employees
    \/ \E p \in inflight : Drop(p)

Spec == Init /\ [][Next]_vars

-----------------------------------------------------------------------------
\* Properties.

\* What a checked deletion takes along by cascade came under its row after the count,
\* and a default address it deletes became the default after the check.  The row of a
\* resident, once there, is never taken, also after its soft delete.
LostRowsWereLate ==
    [][ /\ \A p \in inflight \ inflight' :
              p.op = "delete" /\ parent[p.row] # None /\ parent'[p.row] = None =>
                 Counted(p.row) \cup ({p.row} \cap default) \subseteq p.since
        /\ \A m \in Resident : Live(m) => parent'[m] # None /\ parent'[parent'[m]] # None
      ]_vars

\* A user has at most one resident row and at most one employee row, however many
\* requests have found the user unassigned.
OneRowPerUser ==
    \A Table \in {Resident, Employee} : \A m1, m2 \in Table :
        Live(m1) /\ Live(m2) /\ user[m1] = user[m2] => m1 = m2

OneDefault == \A o \in Org : Cardinality(Addresses(o) \cap default) <= 1

\* The keys hold: one row per user, and never two default addresses in an organization.
KeysHold == OneRowPerUser /\ OneDefault

\* An organization keeps an address unless two of its addresses were once being
\* deleted at the same time.
CalmKeepsAnAddress == \A o \in Org \ crowded : Live(o) => Addresses(o) # {}

\* Once a resident or an employee is soft-deleted, the row is changed only by requests
\* that had found it before, and it never comes back.
Writers(m) == {p \in inflight : p.op \in {"update", "remove"} /\ p.row = m}
RemovalDrains ==
    [][\A m \in removed :
          /\ Writers(m)' \subseteq Writers(m)
          /\ user'[m] # user[m] \/ parent'[m] # parent[m] =>
                parent'[m] = None \/ Writers(m)' # Writers(m)
          /\ parent'[m] # None => m \in removed']_vars
=============================================================================
