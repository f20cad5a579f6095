---------------------------- MODULE RegistryProofs ----------------------------
(***************************************************************************)
(* Theorems about the registry, for tables of any size, any number of       *)
(* users and any number of requests in progress.                            *)
(*                                                                         *)
(* Typed, the invariant the others rest on, is the type invariant with two  *)
(* facts about requests added to it: an update in progress names a parent   *)
(* of the right table, and a deletion in progress is of a key that has been *)
(* handed out.  The second is why a row that is being deleted cannot be     *)
(* created anew under the deletion.                                         *)
(*                                                                         *)
(* Two lemmas carry the weight.  CascadeIsComplete: the five levels the     *)
(* foreign keys reach are all there are, so that what Below takes is closed *)
(* under "hangs on".  NoticingFacts: a deletion in progress learns of       *)
(* whatever comes under its row and changes in no other way.  Steps lists   *)
(* Next action by action; InflightMoves, UserMoves and DefaultMoves say     *)
(* once what any step does to one column.                                   *)
(***************************************************************************)
EXTENDS Registry, FiniteSetTheorems, TLAPS

-----------------------------------------------------------------------------
\* The rows and the foreign keys.

PlaceRow == Site \cup Building \cup Floor \cup Unit

\* Every row is of one kind.
LEMMA RowKinds ==
    ASSUME NEW n \in Row
    PROVE  /\ n # Root /\ n # None /\ Root # None
           /\ n \in Member => n \notin Org /\ n \notin PlaceRow /\ n \notin Address
           /\ n \in Address => n \notin Org /\ n \notin PlaceRow
           /\ n \in Org => n \notin PlaceRow
           /\ n \in Resident => n \notin Employee
BY TablesAreDistinct, MarksAreNoKeys DEF Row, Member, PlaceRow, Root, None

\* What hangs on what.
LEMMA EdgeKinds ==
    ASSUME NEW n, NEW p, <<n, p>> \in Edge
    PROVE  /\ n \in Row /\ p \in Row \cup {Root} /\ p # None /\ n # p
           /\ n \in Org <=> p = Root
           /\ n \in Site \cup Employee \cup Address <=> p \in Org
           /\ n \in Building <=> p \in Site
           /\ n \in Floor <=> p \in Building
           /\ n \in Unit <=> p \in Floor
           /\ n \in Resident <=> p \in Unit
           /\ p \notin Member /\ p \notin Address
<1>1. n \in Row /\ p \in Row \cup {Root}
  BY DEF Edge, Row, Member
<1>2. p # None
  BY <1>1, MarksAreNoKeys DEF Root, None
<1>3. CASE <<n, p>> \in Org \X {Root}
  BY <1>1, <1>2, <1>3, TablesAreDistinct, MarksAreNoKeys DEF Row, Member
<1>4. CASE <<n, p>> \in Site \X Org
  BY <1>1, <1>2, <1>4, TablesAreDistinct, MarksAreNoKeys DEF Row, Member
<1>5. CASE <<n, p>> \in Building \X Site
  BY <1>1, <1>2, <1>5, TablesAreDistinct, MarksAreNoKeys DEF Row, Member
<1>6. CASE <<n, p>> \in Floor \X Building
  BY <1>1, <1>2, <1>6, TablesAreDistinct, MarksAreNoKeys DEF Row, Member
<1>7. CASE <<n, p>> \in Unit \X Floor
  BY <1>1, <1>2, <1>7, TablesAreDistinct, MarksAreNoKeys DEF Row, Member
<1>8. CASE <<n, p>> \in Resident \X Unit
  BY <1>1, <1>2, <1>8, TablesAreDistinct, MarksAreNoKeys DEF Row, Member
<1>9. CASE <<n, p>> \in Employee \X Org
  BY <1>1, <1>2, <1>9, TablesAreDistinct, MarksAreNoKeys DEF Row, Member
<1>10. CASE <<n, p>> \in Address \X Org
  BY <1>1, <1>2, <1>10, TablesAreDistinct, MarksAreNoKeys DEF Row, Member
<1>11. QED
  BY <1>3, <1>4, <1>5, <1>6, <1>7, <1>8, <1>9, <1>10 DEF Edge

-----------------------------------------------------------------------------
\* The inductive invariant, part by part.

\* The foreign keys.
RefsHold ==
    /\ parent \in [Row -> Row \cup {Root, None}]
    /\ \A n \in Row : Live(n) =>
          <<n, parent[n]>> \in Edge /\ (parent[n] = Root \/ Live(parent[n]))

\* The other columns.
ColumnsHold ==
    /\ unused \subseteq {n \in Row : ~Live(n)}
    /\ user \in [Member -> User \cup {None}]
    /\ \A m \in Member : Live(m) <=> user[m] # None
    /\ removed \subseteq {m \in Member : Live(m)}
    /\ default \subseteq {a \in Address : Live(a)}
    /\ crowded \subseteq Org

\* The requests: an update names a parent of the right table, and what is being deleted
\* has been a row.
RequestsHold ==
    /\ inflight \subseteq Pending
    /\ \A p1, p2 \in inflight : p1.by = p2.by => p1 = p2
    /\ \A p \in inflight : p.op = "update" => p.under = None \/ <<p.row, p.under>> \in Edge
    /\ \A p \in inflight : p.op = "delete" => p.row \notin unused

Typed == RefsHold /\ ColumnsHold /\ RequestsHold

-----------------------------------------------------------------------------
\* The cascade.

Kids(S) == {m \in Row : parent[m] \in S}

\* What hangs on a row is there, and one table further down.
LEMMA KidsDescend ==
    ASSUME RefsHold, NEW S \in SUBSET Row
    PROVE  /\ \A m \in Kids(S) : Live(m) /\ m \notin Org
           /\ Kids(S) \subseteq PlaceRow \cup Member \cup Address
           /\ S \subseteq PlaceRow \cup Member \cup Address =>
                 Kids(S) \subseteq Building \cup Floor \cup Unit \cup Resident
           /\ S \subseteq Building \cup Floor \cup Unit \cup Resident =>
                 Kids(S) \subseteq Floor \cup Unit \cup Resident
           /\ S \subseteq Floor \cup Unit \cup Resident => Kids(S) \subseteq Unit \cup Resident
           /\ S \subseteq Unit \cup Resident => Kids(S) \subseteq Resident
           /\ S \subseteq Resident => Kids(S) = {}
<1>1. ASSUME NEW m \in Kids(S)
      PROVE  Live(m) /\ <<m, parent[m]>> \in Edge /\ parent[m] \in S /\ parent[m] # Root
  <2>1. m \in Row /\ parent[m] \in S /\ parent[m] # Root /\ parent[m] # None
    BY RowKinds DEF Kids
  <2>2. QED
    BY <2>1 DEF RefsHold, Live
<1>2. ASSUME NEW m \in Kids(S)
      PROVE  /\ m \notin Org
             /\ m \in PlaceRow \cup Member \cup Address
  BY <1>1, EdgeKinds DEF Row, PlaceRow
<1>3. ASSUME NEW m \in Kids(S), S \subseteq PlaceRow \cup Member \cup Address
      PROVE  m \in Building \cup Floor \cup Unit \cup Resident
  BY <1>1, <1>3, EdgeKinds DEF PlaceRow
<1>4. ASSUME NEW m \in Kids(S), S \subseteq Building \cup Floor \cup Unit \cup Resident
      PROVE  m \in Floor \cup Unit \cup Resident
  BY <1>1, <1>4, EdgeKinds DEF Member
<1>5. ASSUME NEW m \in Kids(S), S \subseteq Floor \cup Unit \cup Resident
      PROVE  m \in Unit \cup Resident
  BY <1>1, <1>5, EdgeKinds DEF Member
<1>6. ASSUME NEW m \in Kids(S), S \subseteq Unit \cup Resident
      PROVE  m \in Resident
  BY <1>1, <1>6, EdgeKinds DEF Member
<1>7. ASSUME NEW m \in Kids(S), S \subseteq Resident
      PROVE  FALSE
  BY <1>1, <1>7, EdgeKinds DEF Member
<1>8. QED
  BY <1>1, <1>2, <1>3, <1>4, <1>5, <1>6, <1>7

\* The cascade is complete: five levels are all there are.  What it takes is there, and
\* hangs on something it takes.
LEMMA CascadeIsComplete ==
    ASSUME RefsHold, NEW n \in Row
    PROVE  /\ Below(n) \subseteq Row
           /\ \A m \in Below(n) : Live(m) /\ m \notin Org /\ parent[m] \in Taken(n)
           /\ \A m \in Row : parent[m] \in Taken(n) => m \in Taken(n)
<1> DEFINE one == Kids({n})
           two == Kids(one)
           three == Kids(two)
           four == Kids(three)
           five == Kids(four)
<1>1. Below(n) = one \cup two \cup three \cup four \cup five
  BY DEF Below, Kids
<1>2. /\ one \subseteq Row /\ two \subseteq Row /\ three \subseteq Row
      /\ four \subseteq Row /\ five \subseteq Row
  BY DEF Kids
<1>3. /\ \A m \in one : parent[m] \in {n}
      /\ \A m \in two : parent[m] \in one
      /\ \A m \in three : parent[m] \in two
      /\ \A m \in four : parent[m] \in three
      /\ \A m \in five : parent[m] \in four
  BY DEF Kids
<1>4. /\ \A m \in Row : parent[m] \in {n} => m \in one
      /\ \A m \in Row : parent[m] \in one => m \in two
      /\ \A m \in Row : parent[m] \in two => m \in three
      /\ \A m \in Row : parent[m] \in three => m \in four
      /\ \A m \in Row : parent[m] \in four => m \in five
      /\ \A m \in Row : parent[m] \in five => m \in Kids(five)
  BY DEF Kids
<1> HIDE DEF one, two, three, four, five
<1>5. one \subseteq PlaceRow \cup Member \cup Address
  BY KidsDescend DEF one
<1>6. two \subseteq Building \cup Floor \cup Unit \cup Resident
  BY <1>2, <1>5, KidsDescend DEF two
<1>7. three \subseteq Floor \cup Unit \cup Resident
  BY <1>2, <1>6, KidsDescend DEF three
<1>8. four \subseteq Unit \cup Resident
  BY <1>2, <1>7, KidsDescend DEF four
<1>9. five \subseteq Resident
  BY <1>2, <1>8, KidsDescend DEF five
<1>10. Kids(five) = {}
  BY <1>2, <1>9, KidsDescend
<1>11. \A m \in Below(n) : Live(m) /\ m \notin Org
  <2>1. \A m \in one : Live(m) /\ m \notin Org
    BY KidsDescend DEF one
  <2>2. \A m \in two : Live(m) /\ m \notin Org
    BY <1>2, KidsDescend DEF two
  <2>3. \A m \in three : Live(m) /\ m \notin Org
    BY <1>2, KidsDescend DEF three
  <2>4. \A m \in four : Live(m) /\ m \notin Org
    BY <1>2, KidsDescend DEF four
  <2>5. \A m \in five : Live(m) /\ m \notin Org
    BY <1>2, KidsDescend DEF five
  <2>6. QED
    BY <1>1, <2>1, <2>2, <2>3, <2>4, <2>5
<1>12. QED
  BY <1>1, <1>2, <1>3, <1>4, <1>10, <1>11 DEF Taken

-----------------------------------------------------------------------------
\* Next, action by action.  What the code writes once for all tables becomes one
\* disjunct, with the rows it is used for.
LEMMA Steps ==
    ASSUME Next
    PROVE  \/ \E n \in PlaceRow, p \in Row : Create(n, p) \/ Move(n, p)
           \/ \E q \in Request, n \in PlaceRow \cup Org : CheckDelete(q, n)
           \/ \E p \in inflight : p.row \in PlaceRow \cup Org \cup Address /\ Delete(p)
           \/ \E o \in Org, a \in Address : CreateOrganization(o, a)
           \/ \E o \in Org, a \in Address, flag \in BOOLEAN : AddAddress(o, a, flag)
           \/ \E a \in Address, flag \in BOOLEAN : UpdateAddress(a, flag)
           \/ \E q \in Request, a \in Address : CheckDeleteAddress(q, a)
           \/ \E Table \in {Resident, Employee}, q \in Request, u \in User, p \in Org \cup Unit :
                 CheckCreate(Table, q, u, p)
           \/ \E Table \in {Resident, Employee}, p \in inflight, m \in Row :
                 CreateMember(Table, p, m)
           \/ \E q \in Request, m \in Member, u \in User \cup {None},
                 p \in Org \cup Unit \cup {None} :
                 (p = None \/ <<m, p>> \in Edge) /\ CheckUpdate(q, m, u, p)
           \/ \E Table \in {Resident, Employee}, p \in inflight : UpdateMember(Table, p)
           \/ \E q \in Request, m \in Member : CheckRemove(q, m)
           \/ \E p \in inflight : p.row \in Member /\ RemoveMember(p)
           \/ \E p \in inflight : Drop(p)
<1>1. CASE Organizations
  BY <1>1 DEF Organizations, DeleteOrganization, DeleteAddress
<1>2. CASE Sites \/ Buildings \/ Floors \/ Units
  BY <1>2 DEF Sites, Buildings, Floors, Units, Places, PlaceRow
<1>3. CASE Residents
  <2>1. \A m \in Resident, p \in Unit : <<m, p>> \in Edge
    BY DEF Edge
  <2>2. Resident \subseteq Member /\ Resident \subseteq Row
    BY DEF Member, Row
  <2>3. QED
    BY <1>3, <2>1, <2>2 DEF Residents, Members
<1>4. CASE Employees
  <2>1. \A m \in Employee, p \in Org : <<m, p>> \in Edge
    BY DEF Edge
  <2>2. Employee \subseteq Member /\ Employee \subseteq Row
    BY DEF Member, Row
  <2>3. QED
    BY <1>4, <2>1, <2>2 DEF Employees, Members
<1>5. CASE \E p \in inflight : Drop(p)
  BY <1>5
<1>6. QED
  BY <1>1, <1>2, <1>3, <1>4, <1>5 DEF Next

\* The steps that leave the tables alone: the checks and the requests that die.
LEMMA ChecksWriteNothing ==
    ASSUME \/ \E q \in Request, n \in PlaceRow \cup Org : CheckDelete(q, n)
           \/ \E q \in Request, a \in Address : CheckDeleteAddress(q, a)
           \/ \E Table \in {Resident, Employee}, q \in Request, u \in User, p \in Org \cup Unit :
                 CheckCreate(Table, q, u, p)
           \/ \E q \in Request, m \in Member, u \in User \cup {None},
                 p \in Org \cup Unit \cup {None} : CheckUpdate(q, m, u, p)
           \/ \E q \in Request, m \in Member : CheckRemove(q, m)
           \/ \E p \in inflight : Drop(p)
    PROVE  UNCHANGED <<parent, unused, user, removed, default>>
BY DEF CheckDelete, CheckDeleteAddress, CheckCreate, CheckUpdate, CheckRemove, Drop

-----------------------------------------------------------------------------
\* The foreign keys, for each way a row comes, moves or goes.

\* A row comes.
LEMMA InsertKeepsRefs ==
    ASSUME RefsHold, ColumnsHold, NEW n, NEW p, Insert(n, p)
    PROVE  /\ RefsHold'
           /\ n \in Row /\ ~Live(n) /\ parent'[n] = p
           /\ \A m \in Row \ {n} : parent'[m] = parent[m]
<1>1. n \in Row /\ ~Live(n) /\ <<n, p>> \in Edge /\ (p # Root => Live(p))
  BY DEF Insert, ColumnsHold
<1>2. p \in Row \cup {Root} /\ p # None /\ n # p
  BY <1>1, EdgeKinds
<1>3. /\ parent'[n] = p
      /\ \A m \in Row \ {n} : parent'[m] = parent[m]
      /\ parent' \in [Row -> Row \cup {Root, None}]
  BY <1>1, <1>2 DEF Insert, RefsHold
<1>4. ASSUME NEW m \in Row, Live(m)'
      PROVE  <<m, parent'[m]>> \in Edge /\ (parent'[m] = Root \/ parent'[parent'[m]] # None)
  <2>1. CASE m = n
    BY <1>1, <1>2, <1>3, <2>1 DEF Live
  <2>2. CASE m # n
    <3>1. Live(m) /\ parent'[m] = parent[m]
      BY <1>3, <1>4, <2>2 DEF Live
    <3>2. <<m, parent[m]>> \in Edge /\ (parent[m] = Root \/ Live(parent[m]))
      BY <3>1 DEF RefsHold
    <3>3. parent[m] # Root => parent[m] \in Row \ {n}
      BY <1>1, <3>2, EdgeKinds
    <3>4. QED
      BY <1>3, <3>1, <3>2, <3>3 DEF Live
  <2>3. QED
    BY <2>1, <2>2
<1>5. QED
  BY <1>1, <1>3, <1>4 DEF RefsHold, Live

\* A row moves.
LEMMA MoveKeepsRefs ==
    ASSUME RefsHold, NEW n \in Row, NEW p \in Row, Live(n), Live(p), <<n, p>> \in Edge,
           parent' = [parent EXCEPT ![n] = p]
    PROVE  /\ RefsHold'
           /\ \A m \in Row : Live(m)' <=> Live(m)
           /\ \A m \in Row \ {n} : parent'[m] = parent[m]
           /\ parent'[n] = p
<1>1. p # None
  BY RowKinds
<1>2. /\ parent'[n] = p
      /\ \A m \in Row \ {n} : parent'[m] = parent[m]
      /\ parent' \in [Row -> Row \cup {Root, None}]
  BY DEF RefsHold
<1>3. \A m \in Row : Live(m)' <=> Live(m)
  BY <1>1, <1>2 DEF Live
<1>4. ASSUME NEW m \in Row, Live(m)'
      PROVE  <<m, parent'[m]>> \in Edge /\ (parent'[m] = Root \/ parent'[parent'[m]] # None)
  <2>1. CASE m = n
    BY <1>2, <1>3, <2>1 DEF Live
  <2>2. CASE m # n
    <3>1. Live(m) /\ parent'[m] = parent[m]
      BY <1>2, <1>3, <1>4, <2>2
    <3>2. <<m, parent[m]>> \in Edge /\ (parent[m] = Root \/ Live(parent[m]))
      BY <3>1 DEF RefsHold
    <3>3. parent[m] # Root => parent[m] \in Row
      BY <3>2, EdgeKinds
    <3>4. QED
      BY <1>3, <3>1, <3>2, <3>3 DEF Live
  <2>3. QED
    BY <2>1, <2>2
<1>5. QED
  BY <1>2, <1>3, <1>4 DEF RefsHold, Live

\* Rows go, by cascade.
LEMMA CascadeKeepsRefs ==
    ASSUME RefsHold, NEW n \in Row,
           parent' = [m \in Row |-> IF m \in Taken(n) THEN None ELSE parent[m]]
    PROVE  RefsHold'
<1>1. /\ parent' \in [Row -> Row \cup {Root, None}]
      /\ \A m \in Row : Live(m)' => Live(m) /\ m \notin Taken(n) /\ parent'[m] = parent[m]
  BY DEF RefsHold, Live
<1>2. ASSUME NEW m \in Row, Live(m)'
      PROVE  <<m, parent'[m]>> \in Edge /\ (parent'[m] = Root \/ parent'[parent'[m]] # None)
  <2>1. <<m, parent[m]>> \in Edge /\ (parent[m] = Root \/ Live(parent[m]))
    BY <1>1, <1>2 DEF RefsHold
  <2>2. parent[m] \notin Taken(n)
    BY <1>1, <1>2, CascadeIsComplete
  <2>3. parent[m] # Root => parent[m] \in Row
    BY <2>1, EdgeKinds
  <2>4. QED
    BY <1>1, <1>2, <2>1, <2>2, <2>3 DEF Live
<1>3. QED
  BY <1>1, <1>2 DEF RefsHold, Live

\* An organization comes with its first address.
LEMMA OrganizationKeepsRefs ==
    ASSUME RefsHold, ColumnsHold, NEW o \in Org, NEW a \in Address, CreateOrganization(o, a)
    PROVE  /\ RefsHold'
           /\ ~Live(o) /\ ~Live(a) /\ parent'[o] = Root /\ parent'[a] = o
           /\ \A m \in Row \ {o, a} : parent'[m] = parent[m]
<1>1. o \in Row /\ a \in Row /\ o # a /\ ~Live(o) /\ ~Live(a)
  BY RowKinds DEF Row, CreateOrganization, ColumnsHold
<1>2. <<o, Root>> \in Edge /\ <<a, o>> \in Edge
  BY DEF Edge
<1>3. /\ parent'[o] = Root /\ parent'[a] = o
      /\ \A m \in Row \ {o, a} : parent'[m] = parent[m]
      /\ parent' \in [Row -> Row \cup {Root, None}]
  BY <1>1 DEF CreateOrganization, RefsHold
<1>4. ASSUME NEW m \in Row, Live(m)'
      PROVE  <<m, parent'[m]>> \in Edge /\ (parent'[m] = Root \/ parent'[parent'[m]] # None)
  <2>1. CASE m = o
    BY <1>2, <1>3, <2>1
  <2>2. CASE m = a
    BY <1>1, <1>2, <1>3, <2>2, RowKinds DEF Live
  <2>3. CASE m \notin {o, a}
    <3>1. Live(m) /\ parent'[m] = parent[m]
      BY <1>3, <1>4, <2>3 DEF Live
    <3>2. <<m, parent[m]>> \in Edge /\ (parent[m] = Root \/ Live(parent[m]))
      BY <3>1 DEF RefsHold
    <3>3. parent[m] # Root => parent[m] \in Row \ {o, a}
      BY <1>1, <3>2, EdgeKinds
    <3>4. QED
      BY <1>3, <3>1, <3>2, <3>3 DEF Live
  <2>4. QED
    BY <2>1, <2>2, <2>3
<1>5. QED
  BY <1>1, <1>3, <1>4 DEF RefsHold, Live

-----------------------------------------------------------------------------
\* What a request in progress is about.
LEMMA RequestKinds ==
    ASSUME RequestsHold, NEW p \in inflight
    PROVE  /\ p.op = "delete" => p \in Deletion
           /\ p.op = "create" => p.user \in User
           /\ p.op = "update" => p.row \in Member /\ p.user \in User \cup {None}
           /\ p.op = "remove" => p.row \in Member
BY DEF RequestsHold, Pending, Deletion

\* A deletion takes its row with everything below it, or nothing.
LEMMA DeleteFacts ==
    ASSUME Typed, NEW p \in inflight, Delete(p)
    PROVE  /\ p.op = "delete" /\ p.row \in Row /\ p.row \notin unused
           /\ inflight' = inflight \ {p} /\ unused' = unused /\ crowded' = crowded
           /\ \/ /\ Live(p.row) /\ Below(p.row) \cap Resident = {}
                 /\ parent' = [m \in Row |-> IF m \in Taken(p.row) THEN None ELSE parent[m]]
                 /\ user' = [m \in Member |-> IF m \in Taken(p.row) THEN None ELSE user[m]]
                 /\ removed' = removed \ Taken(p.row)
                 /\ default' = default \ Taken(p.row)
              \/ parent' = parent /\ user' = user /\ removed' = removed /\ default' = default
<1>1. p.op = "delete" /\ p.row \in Row /\ p.row \notin unused
  BY RequestKinds DEF Delete, Deletion, Typed, RequestsHold
<1>2. QED
  BY <1>1 DEF Delete, Held

\* An update puts the row under a live parent of the right table, and under the key of
\* a user that no other row of the table holds.
Updates(Table, p, place, holder) ==
    /\ p.op = "update" /\ p.row \in Table /\ Live(p.row)
    /\ Live(place) /\ <<p.row, place>> \in Edge
    /\ Others(Table, p.row, holder) = {}
    /\ parent' = [parent EXCEPT ![p.row] = place]
    /\ user' = [user EXCEPT ![p.row] = holder]
    /\ inflight' = (IF place = parent[p.row] THEN inflight ELSE Noticing(p.row, place)) \ {p}
    /\ UNCHANGED <<unused, removed, default, crowded>>

LEMMA UpdateFacts ==
    ASSUME Typed, NEW Table \in {Resident, Employee}, NEW p \in inflight, UpdateMember(Table, p)
    PROVE  \E place \in Row, holder \in User : Updates(Table, p, place, holder)
<1> DEFINE place == IF p.under = None THEN parent[p.row] ELSE p.under
           holder == IF p.user = None THEN user[p.row] ELSE p.user
<1>1. /\ p.op = "update" /\ p.row \in Table /\ Live(p.row)
      /\ Live(place)
      /\ Others(Table, p.row, holder) = {}
      /\ parent' = [parent EXCEPT ![p.row] = place]
      /\ user' = [user EXCEPT ![p.row] = holder]
      /\ inflight' = (IF place = parent[p.row] THEN inflight ELSE Noticing(p.row, place)) \ {p}
      /\ UNCHANGED <<unused, removed, default, crowded>>
  BY DEF UpdateMember
<1>2. p.row \in Member /\ p.row \in Row
  BY <1>1 DEF Member, Row
<1>3. <<p.row, place>> \in Edge
  BY <1>1, <1>2 DEF Typed, RefsHold, RequestsHold
<1>4. place \in Row
  BY <1>2, <1>3, EdgeKinds, RowKinds
<1>5. holder \in User
  BY <1>1, <1>2, RequestKinds DEF Typed, ColumnsHold
<1>6. QED
  BY <1>1, <1>3, <1>4, <1>5 DEF Updates

\* Every step keeps the foreign keys.
LEMMA RefsAreKept == Typed /\ [Next]_vars => RefsHold'
<1> SUFFICES ASSUME Typed, [Next]_vars PROVE RefsHold'
  OBVIOUS
<1>0. RefsHold /\ ColumnsHold /\ RequestsHold
  BY DEF Typed
<1>1. ASSUME NEW n \in PlaceRow, NEW p \in Row, Create(n, p) \/ Move(n, p)
      PROVE  RefsHold'
  <2>1. n \in Row
    BY DEF Row, PlaceRow
  <2>2. CASE Create(n, p)
    BY <1>0, <2>2, InsertKeepsRefs DEF Create
  <2>3. CASE Move(n, p)
    BY <1>0, <2>1, <2>3, MoveKeepsRefs DEF Move
  <2>4. QED
    BY <1>1, <2>2, <2>3
<1>2. ASSUME NEW p \in inflight, Delete(p)
      PROVE  RefsHold'
  <2>1. CASE UNCHANGED parent
    BY <1>0, <2>1 DEF RefsHold, Live
  <2>2. CASE parent' = [m \in Row |-> IF m \in Taken(p.row) THEN None ELSE parent[m]]
    BY <1>0, <1>2, <2>2, DeleteFacts, CascadeKeepsRefs
  <2>3. QED
    BY <1>2, <2>1, <2>2, DeleteFacts
<1>3. ASSUME NEW Table \in {Resident, Employee}, NEW p \in inflight, NEW m \in Row,
             CreateMember(Table, p, m)
      PROVE  RefsHold'
  BY <1>0, <1>3, InsertKeepsRefs DEF CreateMember
<1>4. ASSUME NEW Table \in {Resident, Employee}, NEW p \in inflight, UpdateMember(Table, p)
      PROVE  RefsHold'
  <2>1. PICK place \in Row, holder \in User : Updates(Table, p, place, holder)
    BY <1>4, UpdateFacts
  <2>2. p.row \in Row
    BY <2>1 DEF Updates, Row, Member
  <2>3. QED
    BY <1>0, <2>1, <2>2, MoveKeepsRefs DEF Updates
<1>5. ASSUME NEW o \in Org, NEW a \in Address,
             CreateOrganization(o, a) \/ \E flag \in BOOLEAN : AddAddress(o, a, flag)
      PROVE  RefsHold'
  BY <1>0, <1>5, OrganizationKeepsRefs, InsertKeepsRefs DEF AddAddress
<1>6. ASSUME UNCHANGED parent PROVE RefsHold'
  BY <1>0, <1>6 DEF RefsHold, Live
<1>7. CASE UNCHANGED vars
  BY <1>6, <1>7 DEF vars
<1>8. CASE Next
  BY <1>1, <1>2, <1>3, <1>4, <1>5, <1>6, <1>8, Steps, ChecksWriteNothing
     DEF UpdateAddress, RemoveMember
<1>9. QED
  BY <1>7, <1>8

\* Every step keeps the other columns.
LEMMA ColumnsAreKept == Typed /\ [Next]_vars => ColumnsHold'
<1> SUFFICES ASSUME Typed, [Next]_vars PROVE ColumnsHold'
  OBVIOUS
<1>0. /\ RefsHold /\ ColumnsHold /\ RequestsHold
      /\ Member \subseteq Row /\ Address \subseteq Row /\ None \notin User
  BY MarksAreNoKeys DEF Typed, Row
<1>1. ASSUME NEW n \in PlaceRow, NEW p \in Row, Create(n, p) \/ Move(n, p)
      PROVE  ColumnsHold'
  <2>1. n \in Row /\ n \notin Member /\ n \notin Address
    BY RowKinds DEF Row, PlaceRow
  <2>2. CASE Create(n, p)
    BY <1>0, <2>1, <2>2, InsertKeepsRefs DEF Create, Insert, ColumnsHold, Live
  <2>3. CASE Move(n, p)
    <3>1. /\ \A m \in Row : Live(m)' <=> Live(m)
          /\ UNCHANGED <<unused, user, removed, default, crowded>>
      BY <1>0, <2>1, <2>3, MoveKeepsRefs DEF Move
    <3>2. QED
      BY <1>0, <3>1 DEF ColumnsHold
  <2>4. QED
    BY <1>1, <2>2, <2>3
<1>2. ASSUME NEW p \in inflight, Delete(p)
      PROVE  ColumnsHold'
  <2>1. CASE parent' = parent /\ user' = user /\ removed' = removed /\ default' = default
    BY <1>0, <1>2, <2>1, DeleteFacts DEF ColumnsHold, Live
  <2>2. CASE /\ parent' = [m \in Row |-> IF m \in Taken(p.row) THEN None ELSE parent[m]]
             /\ user' = [m \in Member |-> IF m \in Taken(p.row) THEN None ELSE user[m]]
             /\ removed' = removed \ Taken(p.row)
             /\ default' = default \ Taken(p.row)
    <3>1. \A m \in Row : Live(m)' <=> Live(m) /\ m \notin Taken(p.row)
      BY <2>2 DEF Live
    <3>2. unused' = unused /\ crowded' = crowded
      BY <1>2, DeleteFacts
    <3>3. /\ user' \in [Member -> User \cup {None}]
          /\ \A m \in Member : user'[m] # None <=> user[m] # None /\ m \notin Taken(p.row)
      BY <1>0, <2>2 DEF ColumnsHold
    <3>4. QED
      BY <1>0, <2>2, <3>1, <3>2, <3>3 DEF ColumnsHold
  <2>3. QED
    BY <1>2, <2>1, <2>2, DeleteFacts
<1>3. ASSUME NEW Table \in {Resident, Employee}, NEW p \in inflight, NEW m \in Row,
             CreateMember(Table, p, m)
      PROVE  ColumnsHold'
  <2>1. /\ m \in Member /\ m \notin Address /\ p.user \in User
        /\ Insert(m, p.under) /\ user' = [user EXCEPT ![m] = p.user]
        /\ UNCHANGED <<removed, default, crowded>>
    BY <1>0, <1>3, RequestKinds, RowKinds DEF CreateMember, Member
  <2>2. /\ parent'[m] = p.under /\ p.under # None
        /\ \A n \in Row \ {m} : parent'[n] = parent[n]
    BY <1>0, <2>1, InsertKeepsRefs, EdgeKinds DEF Insert
  <2>3. /\ user'[m] = p.user /\ \A n \in Member \ {m} : user'[n] = user[n]
        /\ user' \in [Member -> User \cup {None}]
    BY <1>0, <2>1 DEF ColumnsHold
  <2>4. QED
    BY <1>0, <2>1, <2>2, <2>3 DEF ColumnsHold, Insert, Live
<1>4. ASSUME NEW Table \in {Resident, Employee}, NEW p \in inflight, UpdateMember(Table, p)
      PROVE  ColumnsHold'
  <2>1. PICK place \in Row, holder \in User : Updates(Table, p, place, holder)
    BY <1>4, UpdateFacts
  <2>2. p.row \in Row /\ p.row \in Member
    BY <2>1 DEF Updates, Row, Member
  <2>3. \A n \in Row : Live(n)' <=> Live(n)
    BY <1>0, <2>1, <2>2, MoveKeepsRefs DEF Updates
  <2>4. /\ user'[p.row] = holder /\ \A n \in Member \ {p.row} : user'[n] = user[n]
        /\ user' \in [Member -> User \cup {None}]
        /\ Live(p.row) /\ UNCHANGED <<unused, removed, default, crowded>>
    BY <1>0, <2>1, <2>2 DEF ColumnsHold, Updates
  <2>5. QED
    BY <1>0, <2>2, <2>3, <2>4 DEF ColumnsHold
<1>5. ASSUME NEW o \in Org, NEW a \in Address, CreateOrganization(o, a)
      PROVE  ColumnsHold'
  <2>1. o \in Row /\ a \in Row /\ o \notin Member /\ a \notin Member /\ o \notin Address /\ o # None
    BY RowKinds DEF Row
  <2>2. Root # None
    BY <2>1, RowKinds
  <2>3. /\ parent'[o] = Root /\ parent'[a] = o
        /\ \A m \in Row \ {o, a} : parent'[m] = parent[m]
    BY <1>0, <1>5, OrganizationKeepsRefs
  <2>4. /\ unused' = unused \ {o, a} /\ default' = default \cup {a}
        /\ UNCHANGED <<user, removed, crowded>>
    BY <1>5 DEF CreateOrganization
  <2>5. QED
    BY <1>0, <2>1, <2>2, <2>3, <2>4 DEF ColumnsHold, Live
<1>6. ASSUME NEW o \in Org, NEW a \in Address, NEW flag \in BOOLEAN, AddAddress(o, a, flag)
      PROVE  ColumnsHold'
  <2>1. a \in Row /\ a \notin Member /\ o # None
    BY RowKinds DEF Row
  <2>2. /\ parent'[a] = o /\ \A n \in Row \ {a} : parent'[n] = parent[n]
        /\ unused' = unused \ {a} /\ default' \subseteq default \cup {a}
        /\ UNCHANGED <<user, removed, crowded>>
    BY <1>0, <1>6, InsertKeepsRefs DEF AddAddress, Insert, MakeDefault
  <2>3. QED
    BY <1>0, <2>1, <2>2 DEF ColumnsHold, Live
<1>7. ASSUME NEW a \in Address, NEW flag \in BOOLEAN, UpdateAddress(a, flag)
      PROVE  ColumnsHold'
  BY <1>0, <1>7 DEF UpdateAddress, MakeDefault, ColumnsHold, Live
<1>8. ASSUME NEW p \in inflight, p.row \in Member, RemoveMember(p)
      PROVE  ColumnsHold'
  BY <1>0, <1>8 DEF RemoveMember, ColumnsHold, Live
<1>9. ASSUME UNCHANGED <<parent, unused, user, removed, default>>, crowded' \subseteq Org
      PROVE  ColumnsHold'
  BY <1>0, <1>9 DEF ColumnsHold, Live
<1>10. ASSUME NEW q \in Request, NEW a \in Address, CheckDeleteAddress(q, a)
       PROVE  ColumnsHold'
  <2>1. parent[a] \in Org
    BY <1>0, <1>10, EdgeKinds DEF CheckDeleteAddress, RefsHold
  <2>2. crowded' \subseteq Org /\ UNCHANGED <<parent, unused, user, removed, default>>
    BY <1>0, <1>10, <2>1 DEF CheckDeleteAddress, ColumnsHold
  <2>3. QED
    BY <1>9, <2>2
<1>11. ASSUME \/ \E q \in Request, n \in PlaceRow \cup Org : CheckDelete(q, n)
              \/ \E Table \in {Resident, Employee}, q \in Request, u \in User,
                    p \in Org \cup Unit : CheckCreate(Table, q, u, p)
              \/ \E q \in Request, m \in Member, u \in User \cup {None},
                    p \in Org \cup Unit \cup {None} : CheckUpdate(q, m, u, p)
              \/ \E q \in Request, m \in Member : CheckRemove(q, m)
              \/ \E p \in inflight : Drop(p)
              \/ UNCHANGED vars
       PROVE  ColumnsHold'
  <2>1. UNCHANGED <<parent, unused, user, removed, default>>
    BY <1>11, ChecksWriteNothing DEF vars
  <2>2. crowded' = crowded
    BY <1>11 DEF CheckDelete, CheckCreate, CheckUpdate, CheckRemove, Drop, vars
  <2>3. QED
    BY <1>0, <1>9, <2>1, <2>2 DEF ColumnsHold
<1>12. QED
  BY <1>1, <1>2, <1>3, <1>4, <1>5, <1>6, <1>7, <1>8, <1>10, <1>11, Steps

-----------------------------------------------------------------------------
\* The requests in progress.

\* d2 is d after a step: only a deletion changes, and it only learns of more rows.
Follows(d, d2) ==
    /\ d2.by = d.by /\ d2.op = d.op
    /\ d.op # "delete" => d2 = d
    /\ d.op = "delete" => d2.row = d.row /\ d.since \subseteq d2.since /\ d2.since \subseteq Row

\* The deletions of the row p learn that n has come.
LEMMA NoticingFacts ==
    ASSUME RequestsHold, NEW n \in Row, NEW p
    PROVE  /\ Noticing(n, p) \subseteq Pending
           /\ \A d1, d2 \in Noticing(n, p) : d1.by = d2.by => d1 = d2
           /\ \A d2 \in Noticing(n, p) : \E d \in inflight :
                 /\ Follows(d, d2)
                 /\ d.op = "delete" /\ d.row = p => n \in d2.since
<1> DEFINE N(d) == IF d.op = "delete" /\ d.row = p
                   THEN [d EXCEPT !.since = @ \cup {n}] ELSE d
<1>1. Noticing(n, p) = {N(d) : d \in inflight}
  BY DEF Noticing
<1>2. ASSUME NEW d \in inflight
      PROVE  /\ N(d) \in Pending /\ Follows(d, N(d))
             /\ d.op = "delete" /\ d.row = p => n \in N(d).since
  <2>1. CASE d.op = "delete"
    <3>1. d \in Deletion
      BY <2>1, RequestKinds
    <3>2. CASE d.row = p
      <4>1. N(d) = [d EXCEPT !.since = d.since \cup {n}]
        BY <2>1, <3>2
      <4>2. N(d) \in Deletion /\ Follows(d, N(d)) /\ n \in N(d).since
        BY <3>1, <4>1 DEF Deletion, Follows
      <4>3. QED
        BY <4>2 DEF Pending
    <3>3. CASE d.row # p
      BY <3>1, <3>3 DEF Deletion, Follows, Pending
    <3>4. QED
      BY <3>2, <3>3
  <2>2. CASE d.op # "delete"
    BY <2>2 DEF Follows, RequestsHold
  <2>3. QED
    BY <2>1, <2>2
<1> HIDE DEF N
<1>3. ASSUME NEW d1 \in Noticing(n, p), NEW d2 \in Noticing(n, p), d1.by = d2.by
      PROVE  d1 = d2
  <2>1. PICK e1 \in inflight, e2 \in inflight : d1 = N(e1) /\ d2 = N(e2)
    BY <1>1
  <2>2. e1.by = e2.by
    BY <1>2, <1>3, <2>1 DEF Follows
  <2>3. e1 = e2
    BY <2>2 DEF RequestsHold
  <2>4. QED
    BY <2>1, <2>3
<1>4. QED
  BY <1>1, <1>2, <1>3

\* What a request d has found when it is admitted.
Admitted(d) ==
    /\ d \in Pending /\ Free(d.by)
    /\ d.op = "delete" => Live(d.row) /\ Counted(d.row) = {} /\ d.row \notin default
    /\ d.op = "update" => Visible(d.row) /\ (d.under = None \/ <<d.row, d.under>> \in Edge)
    /\ d.op = "remove" => Visible(d.row)

\* A check admits a request and writes no table.
LEMMA ChecksAdmit ==
    ASSUME Typed,
           \/ \E q \in Request, n \in PlaceRow \cup Org : CheckDelete(q, n)
           \/ \E q \in Request, a \in Address : CheckDeleteAddress(q, a)
           \/ \E Table \in {Resident, Employee}, q \in Request, u \in User, p \in Org \cup Unit :
                 CheckCreate(Table, q, u, p)
           \/ \E q \in Request, m \in Member, u \in User \cup {None},
                 p \in Org \cup Unit \cup {None} :
                 (p = None \/ <<m, p>> \in Edge) /\ CheckUpdate(q, m, u, p)
           \/ \E q \in Request, m \in Member : CheckRemove(q, m)
    PROVE  \E d : /\ Admitted(d) /\ inflight' = inflight \cup {d}
                  /\ UNCHANGED <<parent, unused, user, removed, default>>
<1>1. ASSUME NEW q \in Request, NEW n \in Row, Free(q), Live(n), Counted(n) = {}, n \notin default
      PROVE  Admitted([by |-> q, op |-> "delete", row |-> n, since |-> {}])
  <2> DEFINE d == [by |-> q, op |-> "delete", row |-> n, since |-> {}]
  <2>1. d \in Deletion /\ d.by = q /\ d.op = "delete" /\ d.row = n
    BY DEF Deletion
  <2> HIDE DEF d
  <2>2. Admitted(d)
    BY <1>1, <2>1 DEF Admitted, Pending
  <2>3. QED
    BY <2>2 DEF d
<1>2. ASSUME NEW q \in Request, NEW n \in PlaceRow \cup Org, CheckDelete(q, n)
      PROVE  Admitted([by |-> q, op |-> "delete", row |-> n, since |-> {}])
  <2>1. n \in Row /\ n \notin default
    BY RowKinds DEF Row, PlaceRow, Typed, ColumnsHold
  <2>2. QED
    BY <1>1, <1>2, <2>1 DEF CheckDelete
<1>3. ASSUME NEW q \in Request, NEW a \in Address, CheckDeleteAddress(q, a)
      PROVE  Admitted([by |-> q, op |-> "delete", row |-> a, since |-> {}])
  <2>1. a \in Row /\ a # None
    BY RowKinds DEF Row
  <2>2. Children(a) = {}
    <3>1. ASSUME NEW m \in Row, parent[m] = a PROVE FALSE
      <4>1. <<m, a>> \in Edge
        BY <2>1, <3>1 DEF Typed, RefsHold, Live
      <4>2. QED
        BY <4>1, EdgeKinds
    <3>2. QED
      BY <3>1 DEF Children
  <2>3. QED
    BY <1>1, <1>3, <2>1, <2>2 DEF CheckDeleteAddress, Counted
<1>4. ASSUME NEW q \in Request, NEW u \in User, NEW p \in Org \cup Unit, Free(q)
      PROVE  Admitted([by |-> q, op |-> "create", user |-> u, under |-> p])
  BY <1>4 DEF Admitted, Pending
<1>5. ASSUME NEW q \in Request, NEW m \in Member, NEW u \in User \cup {None},
             NEW p \in Org \cup Unit \cup {None}, p = None \/ <<m, p>> \in Edge,
             Free(q), Visible(m)
      PROVE  Admitted([by |-> q, op |-> "update", row |-> m, user |-> u, under |-> p])
  BY <1>5 DEF Admitted, Pending
<1>6. ASSUME NEW q \in Request, NEW m \in Member, Free(q), Visible(m)
      PROVE  Admitted([by |-> q, op |-> "remove", row |-> m])
  BY <1>6 DEF Admitted, Pending
<1>7. CASE \/ \E q \in Request, n \in PlaceRow \cup Org : CheckDelete(q, n)
           \/ \E q \in Request, a \in Address : CheckDeleteAddress(q, a)
  BY <1>2, <1>3, <1>7 DEF CheckDelete, CheckDeleteAddress
<1>8. CASE \E Table \in {Resident, Employee}, q \in Request, u \in User, p \in Org \cup Unit :
              CheckCreate(Table, q, u, p)
  BY <1>4, <1>8 DEF CheckCreate
<1>9. CASE \/ \E q \in Request, m \in Member, u \in User \cup {None},
                 p \in Org \cup Unit \cup {None} :
                 (p = None \/ <<m, p>> \in Edge) /\ CheckUpdate(q, m, u, p)
           \/ \E q \in Request, m \in Member : CheckRemove(q, m)
  BY <1>5, <1>6, <1>9 DEF CheckUpdate, CheckRemove
<1>10. QED
  BY <1>7, <1>8, <1>9

\* What is in progress after a step: what was, less what it has finished; the same with
\* the deletions of a row told of another one; or one request more.
LEMMA InflightMoves ==
    ASSUME Typed, [Next]_vars
    PROVE  \/ inflight' \subseteq inflight
           \/ \E n \in Row, p \in Row : inflight' \subseteq Noticing(n, p)
           \/ \E d : /\ Admitted(d) /\ inflight' = inflight \cup {d}
                     /\ UNCHANGED <<parent, unused, user, removed, default>>
<1>1. PlaceRow \subseteq Row /\ Address \subseteq Row
  BY DEF Row, PlaceRow
<1>2. ASSUME NEW Table \in {Resident, Employee}, NEW p \in inflight, NEW m \in Row,
             CreateMember(Table, p, m)
      PROVE  p.under \in Row /\ inflight' \subseteq Noticing(m, p.under)
  <2>1. p.under # Root
    BY <1>2, RowKinds, EdgeKinds DEF CreateMember, Insert, Row, Member
  <2>2. QED
    BY <1>2, <2>1, EdgeKinds DEF CreateMember, Insert
<1>3. ASSUME NEW Table \in {Resident, Employee}, NEW p \in inflight, UpdateMember(Table, p)
      PROVE  \/ inflight' \subseteq inflight
             \/ \E n \in Row, m \in Row : inflight' \subseteq Noticing(n, m)
  <2>1. PICK place \in Row, holder \in User : Updates(Table, p, place, holder)
    BY <1>3, UpdateFacts
  <2>2. p.row \in Row
    BY <2>1 DEF Updates, Row, Member
  <2>3. inflight' \subseteq inflight \/ inflight' \subseteq Noticing(p.row, place)
    BY <2>1 DEF Updates
  <2>4. QED
    BY <2>2, <2>3
<1>4. CASE UNCHANGED vars
  BY <1>4 DEF vars
<1>5. ASSUME NEW n \in PlaceRow, NEW p \in Row, Create(n, p) \/ Move(n, p)
      PROVE  inflight' \subseteq Noticing(n, p)
  BY <1>5 DEF Create, Move
<1>6. ASSUME NEW a \in Address, NEW flag \in BOOLEAN, UpdateAddress(a, flag)
      PROVE  inflight' \subseteq inflight \/ inflight' \subseteq Noticing(a, a)
  BY <1>6 DEF UpdateAddress
<1>7. ASSUME \/ \E p \in inflight : Delete(p) \/ RemoveMember(p) \/ Drop(p)
             \/ \E o \in Org, a \in Address : CreateOrganization(o, a)
             \/ \E o \in Org, a \in Address, flag \in BOOLEAN : AddAddress(o, a, flag)
      PROVE  inflight' \subseteq inflight
  BY <1>7 DEF Delete, RemoveMember, Drop, CreateOrganization, AddAddress
<1>8. CASE \/ \E q \in Request, n \in PlaceRow \cup Org : CheckDelete(q, n)
           \/ \E q \in Request, a \in Address : CheckDeleteAddress(q, a)
           \/ \E Table \in {Resident, Employee}, q \in Request, u \in User, p \in Org \cup Unit :
                 CheckCreate(Table, q, u, p)
           \/ \E q \in Request, m \in Member, u \in User \cup {None},
                 p \in Org \cup Unit \cup {None} :
                 (p = None \/ <<m, p>> \in Edge) /\ CheckUpdate(q, m, u, p)
           \/ \E q \in Request, m \in Member : CheckRemove(q, m)
  BY <1>8, ChecksAdmit
<1>9. CASE \/ \E Table \in {Resident, Employee}, p \in inflight, m \in Row :
                 CreateMember(Table, p, m)
           \/ \E Table \in {Resident, Employee}, p \in inflight : UpdateMember(Table, p)
  BY <1>2, <1>3, <1>9
<1>10. CASE \/ \E n \in PlaceRow, p \in Row : Create(n, p) \/ Move(n, p)
            \/ \E a \in Address, flag \in BOOLEAN : UpdateAddress(a, flag)
  BY <1>1, <1>5, <1>6, <1>10
<1>11. CASE Next
  BY <1>7, <1>8, <1>9, <1>10, <1>11, Steps
<1>12. QED
  BY <1>4, <1>11

\* Unused keys are only used up.
LEMMA KeysAreUsedUp == Typed /\ [Next]_vars => unused' \subseteq unused
<1> SUFFICES ASSUME Typed, [Next]_vars PROVE unused' \subseteq unused
  OBVIOUS
<1>1. ASSUME NEW Table \in {Resident, Employee}, NEW p \in inflight, UpdateMember(Table, p)
      PROVE  unused' \subseteq unused
  BY <1>1 DEF UpdateMember
<1>2. CASE UNCHANGED vars
  BY <1>2 DEF vars
<1>3. CASE Next
  BY <1>1, <1>3, Steps, ChecksWriteNothing
     DEF Create, Move, Delete, CreateOrganization, AddAddress, UpdateAddress, CreateMember,
         RemoveMember, Insert
<1>4. QED
  BY <1>2, <1>3

\* Every step keeps the requests what they are.
LEMMA RequestsAreKept == Typed /\ [Next]_vars => RequestsHold'
<1> SUFFICES ASSUME Typed, [Next]_vars PROVE RequestsHold'
  OBVIOUS
<1>0. RequestsHold /\ unused' \subseteq unused
  BY KeysAreUsedUp DEF Typed
<1>1. CASE inflight' \subseteq inflight
  BY <1>0, <1>1 DEF RequestsHold
<1>2. CASE \E n \in Row, p \in Row : inflight' \subseteq Noticing(n, p)
  <2>1. PICK n \in Row, p \in Row : inflight' \subseteq Noticing(n, p)
    BY <1>2
  <2>2. /\ inflight' \subseteq Pending
        /\ \A d1, d2 \in inflight' : d1.by = d2.by => d1 = d2
        /\ \A d2 \in inflight' : \E d \in inflight : Follows(d, d2)
    BY <1>0, <2>1, NoticingFacts
  <2>3. QED
    BY <1>0, <2>2 DEF RequestsHold, Follows
<1>3. CASE \E d : /\ Admitted(d) /\ inflight' = inflight \cup {d}
                  /\ UNCHANGED <<parent, unused, user, removed, default>>
  <2>1. PICK d : Admitted(d) /\ inflight' = inflight \cup {d}
    BY <1>3
  <2>2. d.op = "delete" => d.row \notin unused
    BY <2>1 DEF Admitted, Typed, ColumnsHold
  <2>3. QED
    BY <1>0, <2>1, <2>2 DEF RequestsHold, Admitted, Free
<1>4. QED
  BY <1>1, <1>2, <1>3, InflightMoves

\* The types are inductive.
LEMMA TypedIsKept == Typed /\ [Next]_vars => Typed'
BY RefsAreKept, ColumnsAreKept, RequestsAreKept DEF Typed

LEMMA TypedAtFirst == Init => Typed
BY MarksAreNoKeys
   DEF Init, Typed, RefsHold, ColumnsHold, RequestsHold, Live, Member, Row, Root, None

THEOREM RegistryTyped == Spec => []Typed
BY TypedAtFirst, TypedIsKept, PTL DEF Spec

\* Type correctness and the foreign keys: a row never outlives the row it hangs on.
THEOREM RegistryTypeCorrect == Spec => []TypeOK
<1>1. Typed => TypeOK
  BY DEF Typed, RefsHold, ColumnsHold, RequestsHold, TypeOK
<1>2. QED
  BY <1>1, RegistryTyped, PTL

-----------------------------------------------------------------------------
\* The keys.

\* No two default addresses belong to the same organization.
DefaultsApart == \A a1, a2 \in default : parent[a1] = parent[a2] => a1 = a2

\* A step in its effect on the column userId: rows lose it when they go, or one row gets
\* a user that no other row of its table has.
LEMMA UserMoves ==
    ASSUME Typed, [Next]_vars
    PROVE  \/ \A m \in Member : user'[m] \in {user[m], None}
           \/ \E Table \in {Resident, Employee}, u \in User : \E n \in Table :
                 Others(Table, n, u) = {} /\ user' = [user EXCEPT ![n] = u]
<1>1. ASSUME NEW Table \in {Resident, Employee}, NEW p \in inflight, NEW m \in Row,
             CreateMember(Table, p, m)
      PROVE  /\ p.user \in User /\ m \in Table
             /\ Others(Table, m, p.user) = {} /\ user' = [user EXCEPT ![m] = p.user]
  BY <1>1, RequestKinds DEF CreateMember, Typed
<1>2. ASSUME NEW Table \in {Resident, Employee}, NEW p \in inflight, UpdateMember(Table, p)
      PROVE  \E u \in User : \E n \in Table :
                Others(Table, n, u) = {} /\ user' = [user EXCEPT ![n] = u]
  <2>1. PICK place \in Row, holder \in User : Updates(Table, p, place, holder)
    BY <1>2, UpdateFacts
  <2>2. QED
    BY <2>1 DEF Updates
<1>3. ASSUME NEW p \in inflight, Delete(p)
      PROVE  \A m \in Member : user'[m] \in {user[m], None}
  BY <1>3, DeleteFacts
<1>4. ASSUME user' = user PROVE \A m \in Member : user'[m] \in {user[m], None}
  BY <1>4
<1>5. CASE UNCHANGED vars
  BY <1>4, <1>5 DEF vars
<1>6. CASE Next
  BY <1>1, <1>2, <1>3, <1>4, <1>6, Steps, ChecksWriteNothing
     DEF Create, Move, CreateOrganization, AddAddress, UpdateAddress, RemoveMember
<1>7. QED
  BY <1>5, <1>6

\* A step in its effect on the default addresses: some lose the flag or go, or one gets
\* it that then is the only one of its organization.
LEMMA DefaultMoves ==
    ASSUME Typed, [Next]_vars
    PROVE  /\ \A a \in default : parent'[a] \in {parent[a], None}
           /\ \/ default' \subseteq default
              \/ \E a \in Address : /\ default' = (default \ Addresses(parent'[a])) \cup {a}
                                    /\ a \in default => parent'[a] = parent[a]
<1>0. /\ RefsHold /\ ColumnsHold
      /\ default \subseteq Address /\ Address \subseteq Row
      /\ \A a \in default : Live(a)
  BY DEF Typed, ColumnsHold, Row
<1>1. ASSUME NEW n \in PlaceRow, NEW p \in Row, Create(n, p) \/ Move(n, p)
      PROVE  default' = default /\ \A a \in default : parent'[a] = parent[a]
  <2>1. n \in Row /\ n \notin Address
    BY RowKinds DEF Row, PlaceRow
  <2>2. CASE Create(n, p)
    BY <1>0, <2>1, <2>2, InsertKeepsRefs DEF Create
  <2>3. CASE Move(n, p)
    BY <1>0, <2>1, <2>3, MoveKeepsRefs DEF Move
  <2>4. QED
    BY <1>1, <2>2, <2>3
<1>2. ASSUME NEW p \in inflight, Delete(p)
      PROVE  default' \subseteq default /\ \A a \in default : parent'[a] \in {parent[a], None}
  BY <1>0, <1>2, DeleteFacts
<1>3. ASSUME NEW Table \in {Resident, Employee}, NEW p \in inflight, NEW m \in Row,
             CreateMember(Table, p, m)
      PROVE  default' = default /\ \A a \in default : parent'[a] = parent[a]
  <2>1. m \notin Address /\ Insert(m, p.under) /\ default' = default
    BY <1>3, RowKinds DEF CreateMember, Member
  <2>2. QED
    BY <1>0, <2>1, InsertKeepsRefs
<1>4. ASSUME NEW Table \in {Resident, Employee}, NEW p \in inflight, UpdateMember(Table, p)
      PROVE  default' = default /\ \A a \in default : parent'[a] = parent[a]
  <2>1. PICK place \in Row, holder \in User : Updates(Table, p, place, holder)
    BY <1>4, UpdateFacts
  <2>2. p.row \in Row /\ p.row \notin Address
    BY <2>1, RowKinds DEF Updates, Row, Member
  <2>3. QED
    BY <1>0, <2>1, <2>2, MoveKeepsRefs DEF Updates
<1>5. ASSUME NEW o \in Org, NEW a \in Address, CreateOrganization(o, a)
      PROVE  /\ \A b \in default : parent'[b] = parent[b]
             /\ default' = (default \ Addresses(parent'[a])) \cup {a}
             /\ a \notin default
  <2>1. /\ ~Live(o) /\ ~Live(a) /\ parent'[a] = o /\ o \in Row /\ o \notin Address
        /\ \A m \in Row \ {o, a} : parent'[m] = parent[m]
    BY <1>0, <1>5, OrganizationKeepsRefs, RowKinds DEF Row
  <2>2. Addresses(o) = {}
    <3>1. ASSUME NEW b \in Row, parent[b] = o PROVE FALSE
      <4>1. Live(b) /\ o # Root
        BY <2>1, <3>1, RowKinds DEF Live
      <4>2. QED
        BY <1>0, <2>1, <3>1, <4>1 DEF RefsHold
    <3>2. QED
      BY <3>1 DEF Addresses, Children
  <2>3. QED
    BY <1>0, <1>5, <2>1, <2>2 DEF CreateOrganization
<1>6. ASSUME NEW o \in Org, NEW a \in Address, NEW flag \in BOOLEAN, AddAddress(o, a, flag)
      PROVE  /\ \A b \in default : parent'[b] = parent[b]
             /\ a \notin default
             /\ \/ default' = default
                \/ default' = (default \ Addresses(parent'[a])) \cup {a}
  BY <1>0, <1>6, InsertKeepsRefs DEF AddAddress, MakeDefault
<1>7. ASSUME NEW a \in Address, NEW flag \in BOOLEAN, UpdateAddress(a, flag)
      PROVE  /\ parent' = parent
             /\ \/ default' \subseteq default
                \/ default' = (default \ Addresses(parent'[a])) \cup {a}
  BY <1>7 DEF UpdateAddress, MakeDefault
<1>8. ASSUME NEW p \in inflight, RemoveMember(p) PROVE parent' = parent /\ default' = default
  BY <1>8 DEF RemoveMember
<1>9. CASE UNCHANGED vars
  BY <1>9 DEF vars
<1>10. CASE Next
  BY <1>1, <1>2, <1>3, <1>4, <1>5, <1>6, <1>7, <1>8, <1>10, Steps, ChecksWriteNothing
<1>11. QED
  BY <1>9, <1>10

\* Every step keeps both keys.
LEMMA KeysAreKept ==
    Typed /\ OneRowPerUser /\ DefaultsApart /\ [Next]_vars => OneRowPerUser' /\ DefaultsApart'
<1> SUFFICES ASSUME Typed, OneRowPerUser, DefaultsApart, [Next]_vars
             PROVE  OneRowPerUser' /\ DefaultsApart'
  OBVIOUS
<1>0. Typed'
  BY TypedIsKept
<1>1. OneRowPerUser'
  <2> SUFFICES ASSUME NEW Table \in {Resident, Employee}, NEW m1 \in Table, NEW m2 \in Table,
                      Live(m1)', Live(m2)', user'[m1] = user'[m2]
               PROVE  m1 = m2
    BY DEF OneRowPerUser
  <2>1. m1 \in Member /\ m2 \in Member /\ user'[m1] # None /\ user'[m2] # None
    BY <1>0 DEF Member, Typed, ColumnsHold
  <2>2. CASE \A m \in Member : user'[m] \in {user[m], None}
    <3>1. user'[m1] = user[m1] /\ user'[m2] = user[m2]
      BY <2>1, <2>2
    <3>2. Live(m1) /\ Live(m2)
      BY <2>1, <3>1 DEF Typed, ColumnsHold
    <3>3. QED
      BY <3>1, <3>2 DEF OneRowPerUser
  <2>3. ASSUME NEW T \in {Resident, Employee}, NEW u \in User, NEW n \in T,
               Others(T, n, u) = {}, user' = [user EXCEPT ![n] = u], m1 # m2
        PROVE  FALSE
    <3>1. n \in Member /\ user'[n] = u /\ \A m \in Member \ {n} : user'[m] = user[m]
      BY <2>3 DEF Member, Typed, ColumnsHold
    <3>2. CASE n \notin {m1, m2}
      <4>1. user[m1] = user[m2] /\ Live(m1) /\ Live(m2)
        BY <2>1, <3>1, <3>2 DEF Typed, ColumnsHold
      <4>2. QED
        BY <2>3, <4>1 DEF OneRowPerUser
    <3>3. CASE n \in {m1, m2}
      <4>1. T = Table
        BY <3>3, RowKinds DEF Member, Row
      <4>2. QED
        BY <2>1, <2>3, <3>1, <3>3, <4>1 DEF Others
    <3>4. QED
      BY <3>2, <3>3
  <2>4. QED
    BY <2>2, <2>3, UserMoves
<1>2. DefaultsApart'
  <2> SUFFICES ASSUME NEW a1 \in default', NEW a2 \in default', parent'[a1] = parent'[a2]
               PROVE  a1 = a2
    BY DEF DefaultsApart
  <2>1. /\ a1 \in Address /\ a2 \in Address /\ parent'[a1] # None /\ parent'[a2] # None
        /\ default \subseteq Address /\ Address \subseteq Row
    BY <1>0 DEF Typed, ColumnsHold, Live, Row
  <2>2. CASE default' \subseteq default
    BY <2>1, <2>2, DefaultMoves DEF DefaultsApart
  <2>3. ASSUME NEW a \in Address, default' = (default \ Addresses(parent'[a])) \cup {a},
               a \in default => parent'[a] = parent[a]
        PROVE  a1 = a2
    <3>1. ASSUME NEW b \in default', b # a PROVE parent'[b] # parent'[a]
      <4>1. b \in default /\ b \notin Addresses(parent'[a]) /\ b \in Row /\ b \in Address
        BY <2>1, <2>3, <3>1
      <4>2. parent[b] # parent'[a]
        BY <4>1 DEF Addresses, Children
      <4>3. parent'[b] # None
        BY <1>0, <3>1 DEF Typed, ColumnsHold, Live
      <4>4. QED
        BY <4>1, <4>2, <4>3, DefaultMoves
    <3>2. CASE a \in {a1, a2}
      BY <3>1, <3>2
    <3>3. CASE a \notin {a1, a2}
      <4>1. a1 \in default /\ a2 \in default
        BY <2>3, <3>3
      <4>2. parent[a1] = parent[a2]
        BY <2>1, <4>1, DefaultMoves
      <4>3. QED
        BY <4>1, <4>2 DEF DefaultsApart
    <3>4. QED
      BY <3>2, <3>3
  <2>4. QED
    BY <2>2, <2>3, DefaultMoves
<1>3. QED
  BY <1>1, <1>2

\* A user has at most one resident row and one employee row, and an organization at most
\* one default address, however the requests overlap.
THEOREM RegistryKeysHold == Spec => []KeysHold
<1>1. Init => OneRowPerUser /\ DefaultsApart
  <2>1. Resident \cup Employee \subseteq Row
    BY DEF Row, Member
  <2>2. QED
    BY <2>1 DEF Init, OneRowPerUser, DefaultsApart, Live
<1>2. Typed /\ OneRowPerUser /\ DefaultsApart => KeysHold
  <2> SUFFICES ASSUME OneRowPerUser, DefaultsApart, NEW o \in Org
               PROVE  Cardinality(Addresses(o) \cap default) <= 1
    BY DEF KeysHold, OneDefault
  <2>1. \A a1, a2 \in Addresses(o) \cap default : a1 = a2
    BY DEF DefaultsApart, Addresses, Children
  <2>2. \/ Addresses(o) \cap default = {}
        \/ \E a : Addresses(o) \cap default = {a}
    BY <2>1
  <2>3. QED
    BY <2>2, FS_EmptySet, FS_Singleton
<1>3. QED
  BY <1>1, <1>2, RegistryTyped, KeysAreKept, PTL DEF Spec

-----------------------------------------------------------------------------
\* What a deletion takes along.

\* A deletion in progress knows of everything that is counted under its row, and of a
\* default address that it is about to delete.
Noticed ==
    \A p \in inflight : p.op = "delete" /\ Live(p.row) =>
        Counted(p.row) \cup ({p.row} \cap default) \subseteq p.since

\* d2 is d after a step, and has learned of whatever has come to hang on its row.
Learns(d, d2) ==
    /\ Follows(d, d2)
    /\ Live(d.row)' => Live(d.row)
    /\ \A m \in Row \ Address : parent'[m] = d.row => parent[m] = d.row \/ m \in d2.since
    /\ d.row \in default' => d.row \in default \/ d.row \in d2.since

LEMMA LearningKeepsNoticed ==
    ASSUME Noticed,
           \A d2 \in inflight' : d2.op = "delete" => \E d \in inflight : Learns(d, d2)
    PROVE  Noticed'
<1> SUFFICES ASSUME NEW d2 \in inflight', d2.op = "delete", parent'[d2.row] # None
             PROVE  /\ \A m \in Row \ Address : parent'[m] = d2.row => m \in d2.since
                    /\ d2.row \in default' => d2.row \in d2.since
  BY DEF Noticed, Live, Counted, Children
<1>1. PICK d \in inflight : Learns(d, d2)
  OBVIOUS
<1>2. d.op = "delete" /\ d2.row = d.row /\ d.since \subseteq d2.since /\ Live(d.row)
  BY <1>1 DEF Learns, Follows, Live
<1>3. \A m \in Row \ Address : parent[m] = d.row => m \in d.since
  BY <1>2 DEF Noticed, Counted, Children
<1>4. d.row \in default => d.row \in d.since
  BY <1>2 DEF Noticed
<1>5. QED
  BY <1>1, <1>2, <1>3, <1>4 DEF Learns

\* A deletion that no row has joined has nothing to learn.
LEMMA NothingToLearn ==
    ASSUME RequestsHold, NEW d \in inflight, d.op = "delete",
           Live(d.row)' => Live(d.row),
           \A m \in Row \ Address : parent'[m] = d.row => parent[m] = d.row,
           d.row \in default' => d.row \in default
    PROVE  Learns(d, d)
BY RequestKinds DEF Learns, Follows, Deletion

\* The row n comes under p, or moves there.
LEMMA ArrivalsAreNoticed ==
    ASSUME RequestsHold, NEW n \in Row, NEW p \in Row, n \notin unused => Live(n),
           parent'[n] = p, \A m \in Row \ {n} : parent'[m] = parent[m],
           default' = default, inflight' \subseteq Noticing(n, p),
           NEW d2 \in inflight', d2.op = "delete"
    PROVE  \E d \in inflight : Learns(d, d2)
<1>1. PICK d \in inflight : /\ Follows(d, d2)
                            /\ d.op = "delete" /\ d.row = p => n \in d2.since
  BY NoticingFacts
<1>2. d.op = "delete" /\ d.row \in Row /\ d.row \notin unused
  BY <1>1, RequestKinds DEF Follows, RequestsHold, Deletion
<1>3. Live(d.row)' => Live(d.row)
  BY <1>2 DEF Live
<1>4. \A m \in Row \ Address : parent'[m] = d.row => parent[m] = d.row \/ m \in d2.since
  BY <1>1, <1>2
<1>5. QED
  BY <1>1, <1>3, <1>4 DEF Learns

LEMMA NoticedIsKept == Typed /\ Noticed /\ [Next]_vars => Noticed'
<1> SUFFICES ASSUME Typed, Noticed, [Next]_vars PROVE Noticed'
  OBVIOUS
<1>0. /\ RefsHold /\ ColumnsHold /\ RequestsHold
      /\ \A n \in unused : ~Live(n)
      /\ PlaceRow \subseteq Row /\ Member \subseteq Row /\ Address \subseteq Row
      /\ Org \subseteq Row
  BY DEF Typed, ColumnsHold, Row, PlaceRow
<1>1. \A d \in inflight : d.op = "delete" =>
         d.row \in Row /\ d.row \notin unused /\ d.row # None /\ d.row # Root
  BY <1>0, RequestKinds, RowKinds DEF RequestsHold, Deletion
<1>2. ASSUME NEW n \in PlaceRow, NEW p \in Row, Create(n, p) \/ Move(n, p)
      PROVE  Noticed'
  <2>1. n \in Row /\ (n \notin unused => Live(n)) /\ default' = default /\ inflight' = Noticing(n, p)
    BY <1>0, <1>2 DEF Create, Move, Insert
  <2>2. parent'[n] = p /\ \A m \in Row \ {n} : parent'[m] = parent[m]
    BY <1>0, <1>2, <2>1, InsertKeepsRefs, MoveKeepsRefs DEF Create, Move
  <2>3. QED
    BY <1>0, <2>1, <2>2, ArrivalsAreNoticed, LearningKeepsNoticed
<1>3. ASSUME NEW Table \in {Resident, Employee}, NEW p \in inflight, NEW m \in Row,
             CreateMember(Table, p, m)
      PROVE  Noticed'
  <2>1. /\ Insert(m, p.under) /\ m \in unused /\ default' = default /\ m \in Member
        /\ inflight' \subseteq Noticing(m, p.under)
    BY <1>3 DEF CreateMember, Insert, Member
  <2>2. p.under \in Row
    BY <2>1, RowKinds, EdgeKinds DEF Insert
  <2>3. parent'[m] = p.under /\ \A n \in Row \ {m} : parent'[n] = parent[n]
    BY <1>0, <2>1, InsertKeepsRefs
  <2>4. QED
    BY <1>0, <2>1, <2>2, <2>3, ArrivalsAreNoticed, LearningKeepsNoticed
<1>4. ASSUME NEW Table \in {Resident, Employee}, NEW p \in inflight, UpdateMember(Table, p)
      PROVE  Noticed'
  <2>1. PICK place \in Row, holder \in User : Updates(Table, p, place, holder)
    BY <1>4, UpdateFacts
  <2>2. p.row \in Row /\ Live(p.row) /\ default' = default
    BY <1>0, <2>1 DEF Updates, Member
  <2>3. parent'[p.row] = place /\ \A n \in Row \ {p.row} : parent'[n] = parent[n]
    BY <1>0, <2>1, <2>2, MoveKeepsRefs DEF Updates
  <2>4. CASE place = parent[p.row]
    <3>1. inflight' \subseteq inflight /\ \A n \in Row : parent'[n] = parent[n]
      BY <2>1, <2>3, <2>4 DEF Updates
    <3>2. QED
      BY <1>0, <1>1, <2>2, <3>1, NothingToLearn, LearningKeepsNoticed DEF Live
  <2>5. CASE place # parent[p.row]
    <3>1. inflight' \subseteq Noticing(p.row, place)
      BY <2>1, <2>5 DEF Updates
    <3>2. QED
      BY <1>0, <2>2, <2>3, <3>1, ArrivalsAreNoticed, LearningKeepsNoticed
  <2>6. QED
    BY <2>4, <2>5
<1>5. ASSUME NEW p \in inflight, Delete(p)
      PROVE  Noticed'
  <2>1. inflight' \subseteq inflight /\ default' \subseteq default
    BY <1>5, DeleteFacts
  <2>2. \A m \in Row : parent'[m] \in {parent[m], None}
    BY <1>5, DeleteFacts
  <2>3. QED
    BY <1>0, <1>1, <2>1, <2>2, NothingToLearn, LearningKeepsNoticed DEF Live
<1>6. ASSUME NEW o \in Org, NEW a \in Address,
             \/ CreateOrganization(o, a)
             \/ \E flag \in BOOLEAN : AddAddress(o, a, flag)
      PROVE  Noticed'
  <2>1. /\ inflight' = inflight /\ a \in unused
        /\ default' \subseteq default \cup {a}
    BY <1>6 DEF CreateOrganization, AddAddress, Insert, MakeDefault
  <2>2. /\ \A m \in Row \ {o, a} : parent'[m] = parent[m]
        /\ parent'[o] # parent[o] => o \in unused /\ parent'[o] = Root
    <3>1. CASE CreateOrganization(o, a)
      BY <1>0, <3>1, OrganizationKeepsRefs DEF CreateOrganization
    <3>2. CASE \E flag \in BOOLEAN : AddAddress(o, a, flag)
      <4>1. \A m \in Row \ {a} : parent'[m] = parent[m]
        BY <1>0, <3>2, InsertKeepsRefs DEF AddAddress
      <4>2. o \in Row \ {a}
        BY <1>0, RowKinds
      <4>3. QED
        BY <4>1, <4>2
    <3>3. QED
      BY <1>6, <3>1, <3>2
  <2>3. ASSUME NEW d \in inflight, d.op = "delete" PROVE Learns(d, d)
    <3>1. Live(d.row)' => Live(d.row)
      BY <1>1, <2>1, <2>2, <2>3 DEF Live
    <3>2. \A m \in Row \ Address : parent'[m] = d.row => parent[m] = d.row
      BY <1>1, <2>2, <2>3
    <3>3. d.row \in default' => d.row \in default
      BY <1>1, <2>1, <2>3
    <3>4. QED
      BY <1>0, <2>3, <3>1, <3>2, <3>3, NothingToLearn
  <2>4. QED
    BY <2>1, <2>3, LearningKeepsNoticed
<1>7. ASSUME NEW a \in Address, NEW flag \in BOOLEAN, UpdateAddress(a, flag)
      PROVE  Noticed'
  <2>1. parent' = parent /\ a \in Row
    BY <1>0, <1>7 DEF UpdateAddress
  <2>2. CASE flag
    <3>1. inflight' = Noticing(a, a) /\ default' \subseteq default \cup {a}
      BY <1>7, <2>2 DEF UpdateAddress, MakeDefault
    <3>2. ASSUME NEW d2 \in inflight', d2.op = "delete" PROVE \E d \in inflight : Learns(d, d2)
      <4>1. PICK d \in inflight : /\ Follows(d, d2)
                                  /\ d.op = "delete" /\ d.row = a => a \in d2.since
        BY <1>0, <2>1, <3>1, NoticingFacts
      <4>2. d.op = "delete"
        BY <3>2, <4>1 DEF Follows
      <4>3. QED
        BY <2>1, <3>1, <4>1, <4>2 DEF Learns, Live
    <3>3. QED
      BY <3>2, LearningKeepsNoticed
  <2>3. CASE ~flag
    <3>1. inflight' = inflight /\ default' \subseteq default
      BY <1>7, <2>3 DEF UpdateAddress
    <3>2. QED
      BY <1>0, <2>1, <3>1, NothingToLearn, LearningKeepsNoticed DEF Live
  <2>4. QED
    BY <2>2, <2>3
<1>8. ASSUME UNCHANGED <<parent, default>>, inflight' \subseteq inflight
      PROVE  Noticed'
  BY <1>8 DEF Noticed, Live, Counted, Children
<1>9. ASSUME NEW d, Admitted(d), inflight' = inflight \cup {d}, UNCHANGED <<parent, default>>
      PROVE  Noticed'
  BY <1>9 DEF Noticed, Live, Counted, Children, Admitted
<1>10. CASE UNCHANGED vars
  BY <1>8, <1>10 DEF vars
<1>11. CASE \/ \E p \in inflight : RemoveMember(p)
            \/ \E p \in inflight : Drop(p)
  BY <1>8, <1>11 DEF RemoveMember, Drop
<1>12. CASE \/ \E q \in Request, n \in PlaceRow \cup Org : CheckDelete(q, n)
            \/ \E q \in Request, a \in Address : CheckDeleteAddress(q, a)
            \/ \E Table \in {Resident, Employee}, q \in Request, u \in User, p \in Org \cup Unit :
                  CheckCreate(Table, q, u, p)
            \/ \E q \in Request, m \in Member, u \in User \cup {None},
                  p \in Org \cup Unit \cup {None} :
                  (p = None \/ <<m, p>> \in Edge) /\ CheckUpdate(q, m, u, p)
            \/ \E q \in Request, m \in Member : CheckRemove(q, m)
  <2>1. PICK d : /\ Admitted(d) /\ inflight' = inflight \cup {d}
                 /\ UNCHANGED <<parent, unused, user, removed, default>>
    BY <1>12, ChecksAdmit
  <2>2. QED
    BY <1>9, <2>1
<1>13. CASE Next
  BY <1>2, <1>3, <1>4, <1>5, <1>6, <1>7, <1>11, <1>12, <1>13, Steps
<1>14. QED
  BY <1>10, <1>13

\* No step takes the row of a resident.
LEMMA ResidentsStay ==
    ASSUME Typed, [Next]_vars, NEW m \in Resident, Live(m)
    PROVE  parent'[m] # None
<1>0. RefsHold /\ ColumnsHold /\ m \in Row /\ m \in Member
  BY DEF Typed, Row, Member
<1>1. m \notin PlaceRow /\ m \notin Org /\ m \notin Address
  BY <1>0, RowKinds
<1>2. ASSUME NEW n \in PlaceRow, NEW p \in Row, Create(n, p) \/ Move(n, p)
      PROVE  parent'[m] # None
  BY <1>0, <1>1, <1>2, InsertKeepsRefs, MoveKeepsRefs DEF Create, Move, Live, Row, PlaceRow
<1>3. ASSUME NEW p \in inflight, p.row \in PlaceRow \cup Org \cup Address, Delete(p)
      PROVE  parent'[m] # None
  <2>1. \/ /\ Below(p.row) \cap Resident = {}
           /\ parent' = [n \in Row |-> IF n \in Taken(p.row) THEN None ELSE parent[n]]
        \/ parent' = parent
    BY <1>3, DeleteFacts
  <2>2. m # p.row
    BY <1>1, <1>3
  <2>3. QED
    BY <1>0, <2>1, <2>2 DEF Taken, Live
<1>4. ASSUME NEW Table \in {Resident, Employee}, NEW p \in inflight, NEW n \in Row,
             CreateMember(Table, p, n)
      PROVE  parent'[m] # None
  BY <1>0, <1>4, InsertKeepsRefs DEF CreateMember, Live
<1>5. ASSUME NEW Table \in {Resident, Employee}, NEW p \in inflight, UpdateMember(Table, p)
      PROVE  parent'[m] # None
  <2>1. PICK place \in Row, holder \in User : Updates(Table, p, place, holder)
    BY <1>5, UpdateFacts
  <2>2. p.row \in Row
    BY <2>1 DEF Updates, Row, Member
  <2>3. QED
    BY <1>0, <2>1, <2>2, MoveKeepsRefs DEF Updates, Live
<1>6. ASSUME NEW o \in Org, NEW a \in Address,
             CreateOrganization(o, a) \/ \E flag \in BOOLEAN : AddAddress(o, a, flag)
      PROVE  parent'[m] # None
  BY <1>0, <1>1, <1>6, OrganizationKeepsRefs, InsertKeepsRefs DEF AddAddress, Live
<1>7. ASSUME UNCHANGED parent PROVE parent'[m] # None
  BY <1>7 DEF Live
<1>8. CASE UNCHANGED vars
  BY <1>7, <1>8 DEF vars
<1>9. CASE Next
  BY <1>2, <1>3, <1>4, <1>5, <1>6, <1>7, <1>9, Steps, ChecksWriteNothing
     DEF UpdateAddress, RemoveMember
<1>10. QED
  BY <1>8, <1>9

THEOREM DeletionsNotice == Spec => []Noticed
<1>1. Init => Noticed
  BY DEF Init, Noticed
<1>2. QED
  BY <1>1, NoticedIsKept, RegistryTyped, PTL DEF Spec

\* Nothing that was counted when a deletion was admitted is lost with it: what the
\* cascade takes has come since, or has become the default address since.  And the row
\* of a resident, with its unit, stays.
THEOREM LostRowsArrivedLate == Spec => LostRowsWereLate
<1>1. ASSUME Typed, Noticed, [Next]_vars
      PROVE  /\ \A p \in inflight \ inflight' :
                    p.op = "delete" /\ parent[p.row] # None /\ parent'[p.row] = None =>
                       Counted(p.row) \cup ({p.row} \cap default) \subseteq p.since
             /\ \A m \in Resident : Live(m) => parent'[m] # None /\ parent'[parent'[m]] # None
  <2>1. \A p \in inflight \ inflight' :
           p.op = "delete" /\ parent[p.row] # None /\ parent'[p.row] = None =>
              Counted(p.row) \cup ({p.row} \cap default) \subseteq p.since
    BY <1>1 DEF Noticed, Live
  <2>2. ASSUME NEW m \in Resident, Live(m) PROVE parent'[m] # None /\ parent'[parent'[m]] # None
    <3>1. m \in Row /\ RefsHold'
      BY <1>1, TypedIsKept DEF Typed, Row, Member
    <3>2. parent'[m] # None
      BY <1>1, <2>2, ResidentsStay
    <3>3. <<m, parent'[m]>> \in Edge /\ (parent'[m] = Root \/ parent'[parent'[m]] # None)
      BY <3>1, <3>2 DEF RefsHold, Live
    <3>4. m \notin Org
      BY <3>1, RowKinds DEF Member
    <3>5. QED
      BY <3>2, <3>3, <3>4, EdgeKinds
  <2>3. QED
    BY <2>1, <2>2
<1>2. QED
  BY <1>1, RegistryTyped, DeletionsNotice, PTL DEF Spec, LostRowsWereLate

-----------------------------------------------------------------------------
\* Soft deletes.

\* The row of a soft-deleted resident or employee goes for good, or stays as it is, or is
\* written by an update that was in progress; and while it is there it stays soft-deleted.
LEMMA RemovedMoves ==
    ASSUME Typed, [Next]_vars, NEW m \in removed
    PROVE  /\ parent'[m] # None => m \in removed'
           /\ \/ parent'[m] = parent[m] /\ user'[m] = user[m]
              \/ parent'[m] = None
              \/ \E p \in Writers(m) : p \notin inflight'
<1>0. RefsHold /\ ColumnsHold /\ m \in Row /\ m \in Member /\ Live(m)
  BY DEF Typed, ColumnsHold, Row
<1>1. m \notin PlaceRow /\ m \notin Org /\ m \notin Address
  BY <1>0, RowKinds
<1> DEFINE Same == parent'[m] = parent[m] /\ user'[m] = user[m]
<1>2. ASSUME NEW n \in PlaceRow, NEW p \in Row, Create(n, p) \/ Move(n, p)
      PROVE  m \in removed' /\ Same
  BY <1>0, <1>1, <1>2, InsertKeepsRefs, MoveKeepsRefs DEF Create, Move, Row, PlaceRow
<1>3. ASSUME NEW p \in inflight, Delete(p)
      PROVE  (parent'[m] # None => m \in removed') /\ (Same \/ parent'[m] = None)
  BY <1>0, <1>3, DeleteFacts
<1>4. ASSUME NEW Table \in {Resident, Employee}, NEW p \in inflight, NEW n \in Row,
             CreateMember(Table, p, n)
      PROVE  m \in removed' /\ Same
  <2>1. n # m /\ \A x \in Row \ {n} : parent'[x] = parent[x]
    BY <1>0, <1>4, InsertKeepsRefs DEF CreateMember
  <2>2. removed' = removed /\ user' = [user EXCEPT ![n] = p.user]
    BY <1>4 DEF CreateMember
  <2>3. QED
    BY <1>0, <2>1, <2>2 DEF ColumnsHold
<1>5. ASSUME NEW Table \in {Resident, Employee}, NEW p \in inflight, UpdateMember(Table, p)
      PROVE  m \in removed' /\ (Same \/ (p \in Writers(m) /\ p \notin inflight'))
  <2>1. PICK place \in Row, holder \in User : Updates(Table, p, place, holder)
    BY <1>5, UpdateFacts
  <2>2. /\ removed' = removed /\ p \notin inflight' /\ p.op = "update"
        /\ parent' = [parent EXCEPT ![p.row] = place]
        /\ user' = [user EXCEPT ![p.row] = holder]
    BY <2>1 DEF Updates
  <2>3. QED
    BY <1>0, <2>2 DEF RefsHold, ColumnsHold, Writers
<1>6. ASSUME NEW o \in Org, NEW a \in Address,
             CreateOrganization(o, a) \/ \E flag \in BOOLEAN : AddAddress(o, a, flag)
      PROVE  m \in removed' /\ Same
  BY <1>0, <1>1, <1>6, OrganizationKeepsRefs, InsertKeepsRefs DEF AddAddress, CreateOrganization
<1>7. ASSUME UNCHANGED <<parent, user>>, removed \subseteq removed'
      PROVE  m \in removed' /\ Same
  BY <1>7
<1> HIDE DEF Same
<1>8. CASE UNCHANGED vars
  BY <1>7, <1>8 DEF vars, Same
<1>9. CASE Next
  <2>1. \/ m \in removed' /\ Same
        \/ (parent'[m] # None => m \in removed') /\ (Same \/ parent'[m] = None)
        \/ m \in removed' /\ \E p \in Writers(m) : p \notin inflight'
    BY <1>2, <1>3, <1>4, <1>5, <1>6, <1>7, <1>9, Steps, ChecksWriteNothing
       DEF UpdateAddress, RemoveMember
  <2>2. QED
    BY <2>1 DEF Same
<1>10. QED
  BY <1>8, <1>9

\* No request finds a soft-deleted row any more.
LEMMA WritersDrain ==
    ASSUME Typed, [Next]_vars, NEW m \in removed
    PROVE  Writers(m)' \subseteq Writers(m)
<1> SUFFICES ASSUME NEW d \in inflight', d.op \in {"update", "remove"}, d.row = m
             PROVE  d \in inflight
  BY DEF Writers
<1>1. CASE \E n \in Row, p \in Row : inflight' \subseteq Noticing(n, p)
  <2>1. PICK e \in inflight : Follows(e, d)
    BY <1>1, NoticingFacts DEF Typed
  <2>2. QED
    BY <2>1 DEF Follows
<1>2. CASE \E e : Admitted(e) /\ inflight' = inflight \cup {e}
  BY <1>2 DEF Admitted, Visible
<1>3. QED
  BY <1>1, <1>2, InflightMoves

\* A soft-deleted row is written only by the requests that had found it before, and it
\* never comes back.
THEOREM RemovedRowsDrain == Spec => RemovalDrains
<1>1. ASSUME Typed, [Next]_vars
      PROVE  \A m \in removed :
                /\ Writers(m)' \subseteq Writers(m)
                /\ user'[m] # user[m] \/ parent'[m] # parent[m] =>
                      parent'[m] = None \/ Writers(m)' # Writers(m)
                /\ parent'[m] # None => m \in removed'
  <2> SUFFICES ASSUME NEW m \in removed
               PROVE  /\ Writers(m)' \subseteq Writers(m)
                      /\ user'[m] # user[m] \/ parent'[m] # parent[m] =>
                            parent'[m] = None \/ Writers(m)' # Writers(m)
                      /\ parent'[m] # None => m \in removed'
    OBVIOUS
  <2>1. ASSUME NEW p \in Writers(m), p \notin inflight' PROVE Writers(m)' # Writers(m)
    BY <2>1 DEF Writers
  <2>2. QED
    BY <1>1, <2>1, RemovedMoves, WritersDrain
<1>2. QED
  BY <1>1, RegistryTyped, PTL DEF Spec, RemovalDrains

-----------------------------------------------------------------------------
\* The last address.

DeletionsIn(o) == {p \in inflight : p.op = "delete" /\ p.row \in Addresses(o)}

\* At most one address of o is being deleted, and never the last one.
KeepsAddress(o) ==
    /\ Addresses(o) # {}
    /\ \A p1, p2 \in DeletionsIn(o) : p1 = p2
    /\ \A p \in DeletionsIn(o) : Addresses(o) # {p.row}

LastAddressStays == \A o \in Org \ crowded : Live(o) => KeepsAddress(o)

\* An organization that loses no address, and whose deletions in progress are the ones
\* it had.
LEMMA AddressesGrow ==
    ASSUME Typed, Typed', NEW o \in Org, KeepsAddress(o),
           Addresses(o) \subseteq Addresses(o)', Addresses(o)' \subseteq Addresses(o) \cup unused,
           \A d2 \in inflight' : d2.op = "delete" /\ d2.row \in Addresses(o)' =>
              \E d \in inflight : Follows(d, d2)
    PROVE  KeepsAddress(o)'
<1>1. ASSUME NEW d2 \in DeletionsIn(o)'
      PROVE  \E d \in DeletionsIn(o) : d.by = d2.by /\ d.row = d2.row
  <2>1. d2 \in inflight' /\ d2.op = "delete" /\ d2.row \in Addresses(o)'
    BY DEF DeletionsIn
  <2>2. PICK d \in inflight : Follows(d, d2)
    BY <2>1
  <2>3. d.op = "delete" /\ d.row = d2.row /\ d.by = d2.by /\ d.row \notin unused
    BY <2>1, <2>2 DEF Follows, Typed, RequestsHold
  <2>4. QED
    BY <2>1, <2>3 DEF DeletionsIn
<1>2. Addresses(o)' # {}
  BY DEF KeepsAddress
<1>3. ASSUME NEW p1 \in DeletionsIn(o)', NEW p2 \in DeletionsIn(o)' PROVE p1 = p2
  <2>1. p1.by = p2.by
    BY <1>1 DEF KeepsAddress
  <2>2. p1 \in inflight' /\ p2 \in inflight'
    BY DEF DeletionsIn
  <2>3. QED
    BY <2>1, <2>2 DEF Typed, RequestsHold
<1>4. ASSUME NEW p \in DeletionsIn(o)' PROVE Addresses(o)' # {p.row}
  <2>1. PICK d \in DeletionsIn(o) : d.row = p.row
    BY <1>1
  <2>2. Addresses(o) # {d.row} /\ d.row \in Addresses(o)
    BY DEF KeepsAddress, DeletionsIn
  <2>3. QED
    BY <2>1, <2>2
<1>5. QED
  BY <1>2, <1>3, <1>4 DEF KeepsAddress

\* An address deletion that has been checked leaves another address, and has the
\* organization to itself.
LEMMA CheckedDeletionLeavesOne ==
    ASSUME Typed, NEW q \in Request, NEW a \in Address, CheckDeleteAddress(q, a),
           NEW o \in Org, o \notin crowded', KeepsAddress(o)
    PROVE  KeepsAddress(o)'
<1> DEFINE d == [by |-> q, op |-> "delete", row |-> a, since |-> {}]
<1>1. d.op = "delete" /\ d.row = a
  OBVIOUS
<1>2. /\ inflight' = inflight \cup {d} /\ parent' = parent
      /\ Cardinality(Addresses(parent[a])) > 1
      /\ (\E p \in inflight : p.op = "delete" /\ p.row \in Addresses(parent[a])) =>
            parent[a] \in crowded'
  BY DEF CheckDeleteAddress
<1> HIDE DEF d
<1>3. Addresses(o)' = Addresses(o)
  BY <1>2 DEF Addresses, Children
<1>4. CASE parent[a] # o
  <2>1. a \notin Addresses(o)
    BY <1>4 DEF Addresses, Children
  <2>2. DeletionsIn(o)' = DeletionsIn(o)
    BY <1>1, <1>2, <1>3, <2>1 DEF DeletionsIn
  <2>3. QED
    BY <1>3, <2>2 DEF KeepsAddress
<1>5. CASE parent[a] = o
  <2>1. DeletionsIn(o) = {}
    BY <1>2, <1>5 DEF DeletionsIn
  <2>2. DeletionsIn(o)' \subseteq {d}
    BY <1>2, <1>3, <2>1 DEF DeletionsIn
  <2>3. Addresses(o) # {a}
    <3>1. Cardinality({a}) = 1
      BY FS_Singleton
    <3>2. QED
      BY <1>2, <1>5, <3>1
  <2>4. QED
    BY <1>1, <1>3, <2>2, <2>3 DEF KeepsAddress
<1>6. QED
  BY <1>4, <1>5

\* A deletion takes an address of an organization that stays only when it is the address
\* itself that is deleted.
LEMMA DeletionLeavesOne ==
    ASSUME Typed, NEW p \in inflight, Delete(p),
           NEW o \in Org, parent'[o] # None, KeepsAddress(o)
    PROVE  KeepsAddress(o)'
<1>1. p.row \in Row /\ p.op = "delete" /\ inflight' = inflight \ {p} /\ o \in Row
  BY DeleteFacts DEF Row
<1>2. CASE parent' = parent
  <2>1. Addresses(o)' = Addresses(o)
    BY <1>2 DEF Addresses, Children
  <2>2. DeletionsIn(o)' \subseteq DeletionsIn(o)
    BY <1>1, <2>1 DEF DeletionsIn
  <2>3. QED
    BY <2>1, <2>2 DEF KeepsAddress
<1>3. CASE parent' = [m \in Row |-> IF m \in Taken(p.row) THEN None ELSE parent[m]]
  <2>1. o \notin Taken(p.row)
    BY <1>1, <1>3
  <2>2. \A a \in Addresses(o) : a \in Taken(p.row) => a = p.row
    BY <1>1, <2>1, CascadeIsComplete DEF Taken, Addresses, Children, Typed
  <2>3. Addresses(o)' = Addresses(o) \ {p.row}
    <3>1. \A m \in Row : parent'[m] = o <=> parent[m] = o /\ m \notin Taken(p.row)
      BY <1>1, <1>3, RowKinds
    <3>2. p.row \in Taken(p.row)
      BY DEF Taken
    <3>3. QED
      BY <2>2, <3>1, <3>2 DEF Addresses, Children
  <2>4. DeletionsIn(o)' \subseteq DeletionsIn(o) \ {p}
    BY <1>1, <2>3 DEF DeletionsIn
  <2>5. CASE p.row \in Addresses(o)
    <3>1. p \in DeletionsIn(o)
      BY <1>1, <2>5 DEF DeletionsIn
    <3>2. DeletionsIn(o)' = {} /\ Addresses(o)' # {}
      BY <2>3, <2>4, <3>1 DEF KeepsAddress
    <3>3. QED
      BY <3>2 DEF KeepsAddress
  <2>6. CASE p.row \notin Addresses(o)
    BY <2>3, <2>4, <2>6 DEF KeepsAddress
  <2>7. QED
    BY <2>5, <2>6
<1>4. QED
  BY <1>2, <1>3, DeleteFacts

LEMMA LastAddressIsKept == Typed /\ LastAddressStays /\ [Next]_vars => LastAddressStays'
<1> SUFFICES ASSUME Typed, LastAddressStays, [Next]_vars,
                    NEW o \in Org, o \notin crowded', parent'[o] # None
             PROVE  KeepsAddress(o)'
  BY DEF LastAddressStays, Live
<1>0. /\ RefsHold /\ ColumnsHold /\ RequestsHold /\ Typed' /\ o \in Row /\ Address \subseteq Row
      /\ \A d \in inflight : d.op = "delete" => Follows(d, d)
  BY TypedIsKept, RequestKinds DEF Typed, Row, Follows, Deletion
<1>1. Live(o) /\ o \notin crowded => KeepsAddress(o)
  BY DEF LastAddressStays
<1>2. ASSUME Live(o), o \notin crowded,
             \A a \in Address : parent'[a] = parent[a] \/ a \in unused,
             \/ inflight' \subseteq inflight
             \/ \E n \in Row, p \in Row : inflight' \subseteq Noticing(n, p)
             \/ \E d : inflight' = inflight \cup {d} /\ (d.op = "delete" => d.row \notin Address)
      PROVE  KeepsAddress(o)'
  <2>1. /\ Addresses(o) \subseteq Addresses(o)'
        /\ Addresses(o)' \subseteq Addresses(o) \cup unused
    <3>1. \A a \in Address : parent[a] = o => parent'[a] = o
      BY <1>0, <1>2, RowKinds DEF ColumnsHold, Live
    <3>2. QED
      BY <1>2, <3>1 DEF Addresses, Children
  <2>2. ASSUME NEW d2 \in inflight', d2.op = "delete", d2.row \in Addresses(o)'
        PROVE  \E d \in inflight : Follows(d, d2)
    <3>1. d2.row \in Address
      BY <2>2 DEF Addresses
    <3>2. CASE \E n \in Row, p \in Row : inflight' \subseteq Noticing(n, p)
      BY <1>0, <3>2, NoticingFacts
    <3>3. CASE d2 \in inflight
      BY <1>0, <2>2, <3>3
    <3>4. QED
      BY <1>2, <2>2, <3>1, <3>2, <3>3
  <2>3. QED
    BY <1>0, <1>1, <1>2, <2>1, <2>2, AddressesGrow
<1>3. ASSUME NEW n \in PlaceRow, NEW p \in Row, Create(n, p) \/ Move(n, p)
      PROVE  KeepsAddress(o)'
  <2>1. n \in Row /\ n \notin Address /\ n \notin Org
    BY RowKinds DEF Row, PlaceRow
  <2>2. /\ \A m \in Row \ {n} : parent'[m] = parent[m]
        /\ inflight' = Noticing(n, p) /\ crowded' = crowded
    BY <1>0, <1>3, <2>1, InsertKeepsRefs, MoveKeepsRefs DEF Create, Move
  <2>3. QED
    BY <1>0, <1>2, <2>1, <2>2 DEF Live
<1>4. ASSUME NEW p \in inflight, Delete(p)
      PROVE  KeepsAddress(o)'
  <2>1. Live(o) /\ crowded' = crowded
    BY <1>0, <1>4, DeleteFacts DEF Live
  <2>2. QED
    BY <1>0, <1>1, <1>4, <2>1, DeletionLeavesOne
<1>5. ASSUME NEW Table \in {Resident, Employee}, NEW p \in inflight, NEW m \in Row,
             CreateMember(Table, p, m)
      PROVE  KeepsAddress(o)'
  <2>1. /\ m \notin Address /\ m \notin Org /\ crowded' = crowded
        /\ Insert(m, p.under) /\ inflight' \subseteq Noticing(m, p.under)
    BY <1>5, RowKinds DEF CreateMember, Member
  <2>2. p.under \in Row
    BY <2>1, EdgeKinds, RowKinds DEF Insert
  <2>3. \A n \in Row \ {m} : parent'[n] = parent[n]
    BY <1>0, <2>1, InsertKeepsRefs
  <2>4. QED
    BY <1>0, <1>2, <2>1, <2>2, <2>3 DEF Live
<1>6. ASSUME NEW Table \in {Resident, Employee}, NEW p \in inflight, UpdateMember(Table, p)
      PROVE  KeepsAddress(o)'
  <2>1. PICK place \in Row, holder \in User : Updates(Table, p, place, holder)
    BY <1>6, UpdateFacts
  <2>2. p.row \in Row /\ p.row \notin Address /\ p.row \notin Org /\ crowded' = crowded
    BY <2>1, RowKinds DEF Updates, Row, Member
  <2>3. \A n \in Row \ {p.row} : parent'[n] = parent[n]
    BY <1>0, <2>1, <2>2, MoveKeepsRefs DEF Updates
  <2>4. inflight' \subseteq inflight \/ inflight' \subseteq Noticing(p.row, place)
    BY <2>1 DEF Updates
  <2>5. QED
    BY <1>0, <1>2, <2>2, <2>3, <2>4 DEF Live
<1>7. ASSUME NEW o1 \in Org, NEW a \in Address, CreateOrganization(o1, a)
      PROVE  KeepsAddress(o)'
  <2>1. /\ ~Live(o1) /\ ~Live(a) /\ parent'[o1] = Root /\ parent'[a] = o1
        /\ \A m \in Row \ {o1, a} : parent'[m] = parent[m]
        /\ o1 \notin Address /\ a \notin Org
        /\ a \in unused /\ inflight' = inflight /\ crowded' = crowded
    <3>1. o1 \notin Address /\ a \notin Org
      BY <1>0, RowKinds
    <3>2. a \in unused /\ inflight' = inflight /\ crowded' = crowded
      BY <1>7 DEF CreateOrganization
    <3>3. QED
      BY <1>0, <1>7, <3>1, <3>2, OrganizationKeepsRefs
  <2>2. CASE o # o1
    BY <1>0, <1>2, <2>1, <2>2 DEF Live
  <2>3. CASE o = o1
    <3>1. Addresses(o)' = {a}
      <4>1. ASSUME NEW b \in Address, parent[b] = o PROVE FALSE
        <5>1. Live(b) /\ o # Root
          BY <1>0, <4>1, RowKinds DEF Live
        <5>2. QED
          BY <1>0, <2>1, <2>3, <4>1, <5>1 DEF RefsHold
      <4>2. QED
        BY <1>0, <2>1, <2>3, <4>1 DEF Addresses, Children
    <3>2. DeletionsIn(o)' = {}
      BY <1>0, <2>1, <3>1 DEF DeletionsIn, RequestsHold
    <3>3. QED
      BY <3>1, <3>2 DEF KeepsAddress
  <2>4. QED
    BY <2>2, <2>3
<1>8. ASSUME NEW o1 \in Org, NEW a \in Address, NEW flag \in BOOLEAN, AddAddress(o1, a, flag)
      PROVE  KeepsAddress(o)'
  <2>1. /\ \A m \in Row \ {a} : parent'[m] = parent[m]
        /\ a \in unused /\ a \notin Org /\ inflight' = inflight /\ crowded' = crowded
    BY <1>0, <1>8, InsertKeepsRefs, RowKinds DEF AddAddress, Insert
  <2>2. QED
    BY <1>0, <1>2, <2>1 DEF Live
<1>9. ASSUME NEW a \in Address, NEW flag \in BOOLEAN, UpdateAddress(a, flag)
      PROVE  KeepsAddress(o)'
  <2>1. /\ inflight' \subseteq inflight \/ inflight' \subseteq Noticing(a, a)
        /\ parent' = parent /\ crowded' = crowded
    BY <1>9 DEF UpdateAddress
  <2>2. QED
    BY <1>0, <1>2, <2>1 DEF Live
<1>10. ASSUME NEW q \in Request, NEW a \in Address, CheckDeleteAddress(q, a)
       PROVE  KeepsAddress(o)'
  <2>1. Live(o) /\ o \notin crowded
    BY <1>10 DEF CheckDeleteAddress, Live
  <2>2. QED
    BY <1>1, <1>10, <2>1, CheckedDeletionLeavesOne
<1>11. ASSUME UNCHANGED <<parent, crowded>>,
              \/ inflight' \subseteq inflight
              \/ \E d : inflight' = inflight \cup {d} /\ (d.op = "delete" => d.row \notin Address)
       PROVE  KeepsAddress(o)'
  BY <1>2, <1>11 DEF Live
<1>12. ASSUME NEW q \in Request, NEW n \in PlaceRow \cup Org, CheckDelete(q, n)
       PROVE  KeepsAddress(o)'
  <2>1. n \notin Address
    BY RowKinds DEF Row, PlaceRow
  <2> DEFINE d == [by |-> q, op |-> "delete", row |-> n, since |-> {}]
  <2>2. d.row = n /\ inflight' = inflight \cup {d} /\ UNCHANGED <<parent, crowded>>
    BY <1>12 DEF CheckDelete
  <2> HIDE DEF d
  <2>3. QED
    BY <1>11, <2>1, <2>2
<1>13. CASE UNCHANGED vars
  BY <1>11, <1>13 DEF vars
<1>14. CASE \/ \E p \in inflight : RemoveMember(p) \/ Drop(p)
            \/ \E Table \in {Resident, Employee}, q \in Request, u \in User, p \in Org \cup Unit :
                  CheckCreate(Table, q, u, p)
            \/ \E q \in Request, m \in Member, u \in User \cup {None},
                  p \in Org \cup Unit \cup {None} : CheckUpdate(q, m, u, p)
            \/ \E q \in Request, m \in Member : CheckRemove(q, m)
  BY <1>11, <1>14 DEF RemoveMember, Drop, CheckCreate, CheckUpdate, CheckRemove
<1>15. CASE Next
  BY <1>3, <1>4, <1>5, <1>6, <1>7, <1>8, <1>9, <1>10, <1>12, <1>14, <1>15, Steps
<1>16. QED
  BY <1>13, <1>15

\* An organization that never had two of its addresses in deletion at once keeps one.
THEOREM CalmOrganizationsKeepAnAddress == Spec => []CalmKeepsAnAddress
<1>1. Init => LastAddressStays
  BY DEF Init, LastAddressStays, Live, Row
<1>2. LastAddressStays => CalmKeepsAnAddress
  BY DEF LastAddressStays, KeepsAddress, CalmKeepsAnAddress
<1>3. QED
  BY <1>1, <1>2, LastAddressIsKept, RegistryTyped, PTL DEF Spec
=============================================================================
