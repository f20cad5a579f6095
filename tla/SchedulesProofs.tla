-------------------------- MODULE SchedulesProofs --------------------------
(***************************************************************************)
(* Theorems about Schedules, for any number of categories, entries, sites,  *)
(* times and requests: the windows of schedules, and the references that    *)
(* no key of a database keeps.                                              *)
(***************************************************************************)
EXTENDS Schedules, TLAPS

USE SchedulesAssumption, SchedulesApart

-----------------------------------------------------------------------------
\* A request is about rows there are (they may be marked as deleted by now): an update
\* about an entry, what it refers to and what a retirement is about about a category.
Grounded ==
    \A p \in inflight :
        /\ p.op = "update" => Exists(p.row)
        /\ p.op \in {"create", "update"} /\ p.category # None => p.category \in known
        /\ p.op = "retire" => p.row \in known

\* The window a request is about to make is valid, as long as the one it has read stands.
WindowsChecked ==
    \A p \in inflight :
        /\ p.op = "create" /\ p.table = Schedule => ValidWindow(p.start, p.end)
        /\ p.op = "update" /\ p.row \in Schedule /\ ~p.overtaken =>
              WillBeValid(p.row, p.start, p.end)

\* A retirement knows of the collections that refer to its category: it had found none.
Noticed ==
    \A p \in inflight, e \in Collection :
        p.op = "retire" /\ Shown(e) /\ category[e] = p.row => e \in p.since

\* The inductive invariant.
IInv == TypeOK /\ Grounded /\ WindowsChecked /\ Noticed

-----------------------------------------------------------------------------
\* A request n is what the write of another one has left of the request o.
Left(n, o) ==
    /\ n \in Pending /\ n.by = o.by /\ n.op = o.op
    /\ n.op = "create" => n = o
    /\ n.op = "update" =>
          /\ <<n.row, n.category, n.site, n.start, n.end>>
                = <<o.row, o.category, o.site, o.start, o.end>>
          /\ o.overtaken => n.overtaken
    /\ n.op = "retire" => n.row = o.row /\ o.since \subseteq n.since

\* The operation tells what a request holds.
LEMMA KindsOfRequest ==
  ASSUME NEW p \in Pending
  PROVE  /\ p.op \in {"create", "update", "retire"}
         /\ p.op = "create" <=> p \in Creation
         /\ p.op = "update" <=> p \in Update
         /\ p.op = "retire" <=> p \in Retirement
BY DEF Pending, Creation, Update, Retirement

\* Noticing adds to what retirements of the category know, and takes from none.
LEMMA NoticingLeaves ==
  ASSUME TypeOK, NEW e \in Entry, NEW c, NEW n \in Noticing(e, c)
  PROVE  \E o \in inflight :
            /\ Left(n, o)
            /\ n.op = "update" => n = o
            /\ n.op = "retire" /\ n.row = c /\ e \in Collection => e \in n.since
<1>1. PICK o \in inflight : n = IF o.op = "retire" /\ o.row = c /\ e \in Collection
                                THEN [o EXCEPT !.since = @ \cup {e}] ELSE o
  BY DEF Noticing
<1>2. o \in Pending
  BY DEF TypeOK
<1>3. CASE o.op = "retire" /\ o.row = c /\ e \in Collection
  <2>1. o \in Retirement
    BY <1>2, <1>3, KindsOfRequest
  <2>2. /\ n \in Retirement /\ n.by = o.by /\ n.op = "retire" /\ n.row = o.row
        /\ n.since = o.since \cup {e}
    BY <1>1, <1>3, <2>1 DEF Retirement
  <2> QED
    BY <1>3, <2>2 DEF Left, Pending
<1>4. CASE ~(o.op = "retire" /\ o.row = c /\ e \in Collection)
  BY <1>1, <1>2, <1>4 DEF Left
<1> QED
  BY <1>3, <1>4

\* Overtaking marks the updates of the entry, and changes nothing else.
LEMMA OvertakingLeaves ==
  ASSUME NEW P \in SUBSET Pending, NEW e, NEW n \in Overtaking(e, P)
  PROVE  \E o \in P :
            /\ Left(n, o)
            /\ n.op # "update" => n = o
            /\ n.op = "update" => n.overtaken = (o.overtaken \/ o.row = e)
<1>1. PICK o \in P : n = IF o.op = "update" /\ o.row = e
                         THEN [o EXCEPT !.overtaken = TRUE] ELSE o
  BY DEF Overtaking
<1>2. CASE o.op = "update" /\ o.row = e
  <2>1. o \in Update
    BY <1>2, KindsOfRequest
  <2>2. /\ n \in Update /\ n.by = o.by /\ n.op = "update" /\ n.overtaken = TRUE
        /\ <<n.row, n.category, n.site, n.start, n.end>>
              = <<o.row, o.category, o.site, o.start, o.end>>
    BY <1>1, <1>2, <2>1 DEF Update
  <2> QED
    BY <1>2, <2>2 DEF Left, Pending
<1>3. CASE ~(o.op = "update" /\ o.row = e)
  <2>1. n = o /\ n \in Pending
    BY <1>1, <1>3
  <2>2. n.op = "update" => n.overtaken \in BOOLEAN
    BY <2>1, KindsOfRequest DEF Update
  <2> QED
    BY <1>3, <2>1, <2>2 DEF Left
<1> QED
  BY <1>2, <1>3

\* What a write leaves of the other requests.
LEMMA WriteLeaves ==
  ASSUME TypeOK, NEW p \in inflight, Write(p), NEW n \in inflight'
  PROVE  \E o \in inflight :
            /\ o # p /\ Left(n, o)
            /\ n.op = "retire" /\ n.row = p.category /\ p.row \in Collection => p.row \in n.since
            /\ n.op = "update" /\ n.row = p.row /\ <<p.start, p.end>> # <<None, None>> => n.overtaken
<1> DEFINE N == Noticing(p.row, p.category) \ {p}
<1>1. p \in Update /\ p.row \in Entry
  BY KindsOfRequest DEF Write, TypeOK, Update
<1>2. \A m \in N : \E o \in inflight :
         /\ o # p /\ Left(m, o)
         /\ m.op = "retire" /\ m.row = p.category /\ p.row \in Collection => p.row \in m.since
  <2> TAKE m \in N
  <2>1. PICK o \in inflight :
           /\ Left(m, o)
           /\ m.op = "update" => m = o
           /\ m.op = "retire" /\ m.row = p.category /\ p.row \in Collection => p.row \in m.since
    BY <1>1, NoticingLeaves
  <2>2. o # p
    BY <1>1, <2>1 DEF Left, Update
  <2> QED
    BY <2>1, <2>2
<1>3. CASE <<p.start, p.end>> = <<None, None>>
  BY <1>2, <1>3 DEF Write
<1>4. CASE <<p.start, p.end>> # <<None, None>>
  <2>1. N \in SUBSET Pending /\ inflight' = Overtaking(p.row, N)
    BY <1>2, <1>4 DEF Write, Left
  <2> HIDE DEF N
  <2>2. PICK m \in N :
           /\ Left(n, m)
           /\ n.op # "update" => n = m
           /\ n.op = "update" => n.overtaken = (m.overtaken \/ m.row = p.row)
    BY <2>1, OvertakingLeaves
  <2>3. PICK o \in inflight :
           /\ o # p /\ Left(m, o)
           /\ m.op = "retire" /\ m.row = p.category /\ p.row \in Collection => p.row \in m.since
    BY <1>2
  <2>4. Left(n, o)
    BY <2>2, <2>3 DEF Left
  <2> QED
    BY <2>2, <2>3, <2>4 DEF Left
<1> QED
  BY <1>3, <1>4

\* What an insert leaves of the other requests.
LEMMA InsertLeaves ==
  ASSUME TypeOK, NEW p \in inflight, NEW e \in Entry, Insert(p, e), NEW n \in inflight'
  PROVE  \E o \in inflight :
            /\ o # p /\ Left(n, o)
            /\ n.op = "retire" /\ n.row = p.category /\ e \in Collection => e \in n.since
<1>1. PICK o \in inflight :
         /\ Left(n, o)
         /\ n.op = "retire" /\ n.row = p.category /\ e \in Collection => e \in n.since
  BY NoticingLeaves DEF Insert
<1>2. o # p
  BY <1>1 DEF Left, Insert
<1> QED
  BY <1>1, <1>2

\* No two requests in progress are the same one.
Apart(P) == \A p1, p2 \in P : p1.by = p2.by => p1 = p2

LEMMA NoticingApart ==
  ASSUME TypeOK, NEW e \in Entry, NEW c
  PROVE  Apart(Noticing(e, c))
<1> SUFFICES ASSUME NEW n1 \in Noticing(e, c), NEW n2 \in Noticing(e, c), n1.by = n2.by
             PROVE  n1 = n2
  BY DEF Apart
<1> DEFINE Told(p) == IF p.op = "retire" /\ p.row = c /\ e \in Collection
                      THEN [p EXCEPT !.since = @ \cup {e}] ELSE p
<1>1. \A o \in inflight : Told(o).by = o.by
  BY KindsOfRequest DEF TypeOK, Retirement
<1>2. PICK o1 \in inflight, o2 \in inflight : n1 = Told(o1) /\ n2 = Told(o2)
  BY DEF Noticing
<1>3. o1 = o2
  BY <1>1, <1>2 DEF TypeOK
<1> QED
  BY <1>2, <1>3

LEMMA OvertakingApart ==
  ASSUME NEW P \in SUBSET Pending, Apart(P), NEW e
  PROVE  Apart(Overtaking(e, P))
<1> SUFFICES ASSUME NEW n1 \in Overtaking(e, P), NEW n2 \in Overtaking(e, P), n1.by = n2.by
             PROVE  n1 = n2
  BY DEF Apart
<1> DEFINE Marked(p) == IF p.op = "update" /\ p.row = e THEN [p EXCEPT !.overtaken = TRUE] ELSE p
<1>1. \A o \in P : Marked(o).by = o.by
  BY KindsOfRequest DEF Update
<1>2. PICK o1 \in P, o2 \in P : n1 = Marked(o1) /\ n2 = Marked(o2)
  BY DEF Overtaking
<1>3. o1 = o2
  BY <1>1, <1>2 DEF Apart
<1> QED
  BY <1>2, <1>3

\* Nor after a write or an insert.
LEMMA WritersApart ==
  ASSUME TypeOK, NEW p \in inflight, Write(p) \/ \E e \in Entry : Insert(p, e)
  PROVE  Apart(inflight')
<1>1. CASE Write(p)
  <2>1. p.row \in Entry
    BY <1>1, KindsOfRequest DEF Write, TypeOK, Update
  <2>2. Apart(Noticing(p.row, p.category) \ {p})
    BY <2>1, NoticingApart DEF Apart
  <2>3. Noticing(p.row, p.category) \ {p} \in SUBSET Pending
    BY <2>1, NoticingLeaves DEF Left
  <2> QED
    BY <1>1, <2>2, <2>3, OvertakingApart DEF Write
<1>2. ASSUME NEW e \in Entry, Insert(p, e) PROVE Apart(inflight')
  BY <1>2, NoticingApart DEF Insert, Apart
<1> QED
  BY <1>1, <1>2

-----------------------------------------------------------------------------
\* The invariant, kind of step by kind of step.
LEMMA InitIInv == Init => IInv
<1>1. Midnight \in Time
  BY DEF Midnight
<1> QED
  BY <1>1 DEF Init, IInv, TypeOK, Grounded, WindowsChecked, Noticed, Exists

\* A request that begins writes nothing and is about what it has found.
LEMMA Admission ==
  ASSUME IInv, NEW r \in Pending, Free(r.by), inflight' = inflight \cup {r},
         UNCHANGED <<known, retired, category, site, removed, start, end, sites>>,
         r.op = "update" => Exists(r.row),
         r.op \in {"create", "update"} /\ r.category # None => r.category \in known,
         r.op = "retire" => r.row \in known /\ Linked(r.row) = {},
         r.op = "create" /\ r.table = Schedule => ValidWindow(r.start, r.end),
         r.op = "update" /\ r.row \in Schedule => WillBeValid(r.row, r.start, r.end)
  PROVE  IInv'
<1>1. TypeOK'
  BY DEF IInv, TypeOK, Exists, Free
<1>2. Grounded'
  BY DEF IInv, Grounded, Exists
<1>3. WindowsChecked'
  BY DEF IInv, WindowsChecked, WillBeValid
<1>4. Noticed'
  BY DEF IInv, Noticed, Linked, Shown, Exists
<1> QED
  BY <1>1, <1>2, <1>3, <1>4 DEF IInv

\* So does every request that begins.
LEMMA AdmissionsKeep ==
  ASSUME IInv, NEW q \in Request,
         \/ \E table \in Table, c \in Category, w \in Site \cup {None}, from \in Time, to \in Time :
               CheckCreate(q, table, c, w, from, to)
         \/ \E e \in Entry, c \in Category \cup {None}, w \in Site \cup {None},
               from \in Time \cup {None}, to \in Time \cup {None} : CheckUpdate(q, e, c, w, from, to)
         \/ \E c \in Category : CheckRetire(q, c)
  PROVE  IInv'
<1>1. ASSUME NEW table \in Table, NEW c \in Category, NEW w \in Site \cup {None},
             NEW from \in Time, NEW to \in Time, CheckCreate(q, table, c, w, from, to)
      PROVE  IInv'
  <2> DEFINE r == [by |-> q, op |-> "create", table |-> table, category |-> c,
                   site |-> w, start |-> from, end |-> to]
  <2>1. r \in Pending /\ r.by = q
    BY DEF Pending, Creation
  <2>2. Free(q) /\ c \in known /\ (table = Schedule => ValidWindow(from, to))
    BY <1>1 DEF CheckCreate, Found, InUse
  <2>3. inflight' = inflight \cup {r}
    BY <1>1 DEF CheckCreate
  <2>4. /\ r.op = "create" /\ r.category = c /\ r.table = table
        /\ r.start = from /\ r.end = to
    OBVIOUS
  <2> HIDE DEF r
  <2> QED
    BY <1>1, <2>1, <2>2, <2>3, <2>4, Admission DEF CheckCreate
<1>2. ASSUME NEW e \in Entry, NEW c \in Category \cup {None}, NEW w \in Site \cup {None},
             NEW from \in Time \cup {None}, NEW to \in Time \cup {None},
             CheckUpdate(q, e, c, w, from, to)
      PROVE  IInv'
  <2> DEFINE r == [by |-> q, op |-> "update", row |-> e, category |-> c,
                   site |-> w, start |-> from, end |-> to, overtaken |-> FALSE]
  <2>1. r \in Pending /\ r.by = q
    BY DEF Pending, Update
  <2>2. /\ Free(q) /\ Exists(e) /\ (c # None => c \in known)
        /\ e \in Schedule => WillBeValid(e, from, to)
    BY <1>2 DEF CheckUpdate, Found, InUse, Shown
  <2>3. inflight' = inflight \cup {r}
    BY <1>2 DEF CheckUpdate
  <2>4. r.op = "update" /\ r.category = c /\ r.row = e /\ r.start = from /\ r.end = to
    OBVIOUS
  <2> HIDE DEF r
  <2> QED
    BY <1>2, <2>1, <2>2, <2>3, <2>4, Admission DEF CheckUpdate
<1>3. ASSUME NEW c \in Category, CheckRetire(q, c) PROVE IInv'
  <2> DEFINE r == [by |-> q, op |-> "retire", row |-> c, since |-> {}]
  <2>1. r \in Pending /\ r.by = q
    BY DEF Pending, Retirement
  <2>2. Free(q) /\ c \in known /\ Linked(c) = {}
    BY <1>3 DEF CheckRetire, InUse
  <2>3. inflight' = inflight \cup {r}
    BY <1>3 DEF CheckRetire
  <2>4. r.op = "retire" /\ r.row = c
    OBVIOUS
  <2> HIDE DEF r
  <2> QED
    BY <1>3, <2>1, <2>2, <2>3, <2>4, Admission DEF CheckRetire
<1> QED
  BY <1>1, <1>2, <1>3

\* What an update makes of the tables.
LEMMA Written ==
  ASSUME IInv, NEW p \in inflight, Write(p)
  PROVE  /\ p \in Update /\ Exists(p.row)
         /\ category' \in [Entry -> known \cup {None}] /\ site' \in [Entry -> Site \cup {None}]
         /\ \A e \in Entry : category'[e] = IF e = p.row THEN Merged(p.category, category[e])
                                            ELSE category[e]
         /\ \A e \in Entry : site'[e] = IF e = p.row THEN Merged(p.site, site[e]) ELSE site[e]
         /\ \A e \in Entry : Exists(e)' = Exists(e)
<1>1. p \in Update /\ Exists(p.row) /\ p.category \in known \cup {None}
  BY KindsOfRequest DEF Write, IInv, TypeOK, Grounded, Update
<1>2. /\ category \in [Entry -> known \cup {None}] /\ site \in [Entry -> Site \cup {None}]
      /\ category' = [category EXCEPT ![p.row] = Merged(p.category, @)]
      /\ site' = [site EXCEPT ![p.row] = Merged(p.site, @)]
      /\ known \subseteq Category
  BY DEF Write, IInv, TypeOK
<1>3. p.row \in Entry /\ p.site \in Site \cup {None}
  BY <1>1 DEF Update
<1>4. /\ category' \in [Entry -> known \cup {None}] /\ site' \in [Entry -> Site \cup {None}]
      /\ \A e \in Entry : category'[e] = IF e = p.row THEN Merged(p.category, category[e])
                                         ELSE category[e]
      /\ \A e \in Entry : site'[e] = IF e = p.row THEN Merged(p.site, site[e]) ELSE site[e]
  BY <1>1, <1>2, <1>3 DEF Merged
<1>5. \A e \in Entry : Exists(e)' = Exists(e)
  BY <1>1, <1>2, <1>4 DEF Exists, Merged
<1> QED
  BY <1>1, <1>4, <1>5

\* And of the windows.
LEMMA WindowWritten ==
  ASSUME IInv, NEW p \in inflight, Write(p)
  PROVE  /\ start' \in [Schedule -> Time] /\ end' \in [Schedule -> Time]
         /\ \A s \in Schedule :
              /\ start'[s] = IF s = p.row THEN Merged(p.start, start[s]) ELSE start[s]
              /\ end'[s] = IF s = p.row THEN Merged(p.end, end[s]) ELSE end[s]
<1>1. p \in Update
  BY Written
<1>2. CASE p.row \in Schedule
  <2>1. /\ start' = [start EXCEPT ![p.row] = Merged(p.start, @)]
        /\ end' = [end EXCEPT ![p.row] = Merged(p.end, @)]
        /\ start \in [Schedule -> Time] /\ end \in [Schedule -> Time]
    BY <1>2 DEF Write, IInv, TypeOK
  <2>2. p.start \in Time \cup {None} /\ p.end \in Time \cup {None}
    BY <1>1 DEF Update
  <2> QED
    BY <1>2, <2>1, <2>2 DEF Merged
<1>3. CASE p.row \notin Schedule
  BY <1>3 DEF Write, IInv, TypeOK
<1> QED
  BY <1>2, <1>3

LEMMA WriteKeeps ==
  ASSUME IInv, NEW p \in inflight, Write(p)
  PROVE  IInv'
<1>0. TypeOK /\ UNCHANGED <<known, retired, removed, sites>>
  BY DEF IInv, Write
<1>1. TypeOK'
  <2>1. Apart(inflight') /\ inflight' \subseteq Pending
    BY <1>0, WritersApart, WriteLeaves DEF Left
  <2>2. \A e \in Entry : (site'[e] # None => Exists(e)') /\ (e \in removed' => Exists(e)')
    BY <1>0, Written DEF TypeOK, Merged
  <2>3. removed' \subseteq {e \in Entry : Exists(e)'}
    BY <1>0, <2>2 DEF TypeOK
  <2> QED
    BY <1>0, <2>1, <2>2, <2>3, Written, WindowWritten DEF TypeOK, Apart
<1>2. Grounded'
  <2> SUFFICES ASSUME NEW n \in inflight'
               PROVE  /\ n.op = "update" => Exists(n.row)'
                      /\ n.op \in {"create", "update"} /\ n.category # None => n.category \in known
                      /\ n.op = "retire" => n.row \in known
    BY <1>0 DEF Grounded
  <2>1. PICK o \in inflight : Left(n, o)
    BY <1>0, WriteLeaves
  <2>2. /\ o.op = "update" => o.row \in Entry /\ Exists(o.row)
        /\ o.op \in {"create", "update"} /\ o.category # None => o.category \in known
        /\ o.op = "retire" => o.row \in known
    BY KindsOfRequest DEF IInv, TypeOK, Grounded, Update
  <2> QED
    BY <2>1, <2>2, Written DEF Left
<1>3. WindowsChecked'
  <2> SUFFICES ASSUME NEW n \in inflight'
               PROVE  /\ n.op = "create" /\ n.table = Schedule => ValidWindow(n.start, n.end)
                      /\ n.op = "update" /\ n.row \in Schedule /\ ~n.overtaken =>
                            WillBeValid(n.row, n.start, n.end)'
    BY DEF WindowsChecked, WillBeValid
  <2>1. PICK o \in inflight :
           /\ Left(n, o)
           /\ n.op = "update" /\ n.row = p.row /\ <<p.start, p.end>> # <<None, None>> => n.overtaken
    BY <1>0, WriteLeaves
  <2>2. CASE n.op = "create"
    BY <2>1, <2>2 DEF Left, IInv, WindowsChecked
  <2>3. ASSUME n.op = "update", n.row \in Schedule, ~n.overtaken
        PROVE  WillBeValid(n.row, n.start, n.end)'
    <3>1. /\ o.op = "update" /\ ~o.overtaken
          /\ n.row = o.row /\ n.start = o.start /\ n.end = o.end
      BY <2>1, <2>3 DEF Left
    <3>2. WillBeValid(n.row, n.start, n.end)
      BY <2>3, <3>1 DEF IInv, WindowsChecked
    <3>3. start'[n.row] = start[n.row] /\ end'[n.row] = end[n.row]
      BY <2>1, <2>3, WindowWritten DEF Merged
    <3> QED
      BY <3>2, <3>3 DEF WillBeValid
  <2> QED
    BY <2>2, <2>3
<1>4. Noticed'
  <2> SUFFICES ASSUME NEW n \in inflight', NEW e \in Collection,
                      n.op = "retire", Shown(e)', category'[e] = n.row
               PROVE  e \in n.since
    BY DEF Noticed
  <2>1. PICK o \in inflight :
           /\ Left(n, o)
           /\ n.op = "retire" /\ n.row = p.category /\ p.row \in Collection => p.row \in n.since
    BY <1>0, WriteLeaves
  <2>2. o.op = "retire" /\ n.row = o.row /\ o.since \subseteq n.since
    BY <2>1 DEF Left
  <2>3. e \in Entry /\ Shown(e)
    BY <1>0, Written DEF Shown, Entry
  <2>4. CASE category[e] = o.row
    BY <2>2, <2>3, <2>4 DEF IInv, Noticed
  <2>5. CASE category[e] # o.row
    <3>1. e = p.row /\ p.category = n.row
      BY <2>2, <2>3, <2>5, Written DEF Merged
    <3> QED
      BY <2>1, <3>1
  <2> QED
    BY <2>4, <2>5
<1> QED
  BY <1>1, <1>2, <1>3, <1>4 DEF IInv

\* What an insert makes of the tables.
LEMMA Inserted ==
  ASSUME IInv, NEW p \in inflight, NEW e \in Entry, Insert(p, e)
  PROVE  /\ p \in Creation /\ e \in p.table /\ ~Exists(e)
         /\ p.category \in known /\ site[e] = None
         /\ category' \in [Entry -> known \cup {None}] /\ site' \in [Entry -> Site \cup {None}]
         /\ start' \in [Schedule -> Time] /\ end' \in [Schedule -> Time]
         /\ \A f \in Entry :
              /\ category'[f] = IF f = e THEN p.category ELSE category[f]
              /\ site'[f] = IF f = e THEN p.site ELSE site[f]
         /\ \A s \in Schedule :
              /\ start'[s] = IF s = e THEN p.start ELSE start[s]
              /\ end'[s] = IF s = e THEN p.end ELSE end[s]
         /\ \A f \in Entry : Exists(f)' <=> Exists(f) \/ f = e
<1>1. /\ p \in Creation /\ e \in p.table /\ ~Exists(e)
      /\ p.category \in Category /\ p.site \in Site \cup {None}
      /\ p.start \in Time /\ p.end \in Time
  BY KindsOfRequest DEF Insert, IInv, TypeOK, Creation
<1>2. p.category \in known
  BY <1>1 DEF Insert, IInv, Grounded
<1>3. /\ category \in [Entry -> known \cup {None}] /\ site \in [Entry -> Site \cup {None}]
      /\ start \in [Schedule -> Time] /\ end \in [Schedule -> Time]
      /\ site[e] = None /\ known \subseteq Category
  BY <1>1 DEF IInv, TypeOK
<1>4. category' = [category EXCEPT ![e] = p.category] /\ site' = [site EXCEPT ![e] = p.site]
  BY DEF Insert
<1>5. /\ category' \in [Entry -> known \cup {None}] /\ site' \in [Entry -> Site \cup {None}]
      /\ \A f \in Entry :
           /\ category'[f] = IF f = e THEN p.category ELSE category[f]
           /\ site'[f] = IF f = e THEN p.site ELSE site[f]
  BY <1>1, <1>2, <1>3, <1>4
<1>6. /\ start' \in [Schedule -> Time] /\ end' \in [Schedule -> Time]
      /\ \A s \in Schedule :
           /\ start'[s] = IF s = e THEN p.start ELSE start[s]
           /\ end'[s] = IF s = e THEN p.end ELSE end[s]
  BY <1>1, <1>3 DEF Insert
<1>7. \A f \in Entry : Exists(f)' <=> Exists(f) \/ f = e
  BY <1>1, <1>2, <1>3, <1>5 DEF Exists
<1> QED
  BY <1>1, <1>2, <1>3, <1>5, <1>6, <1>7

LEMMA InsertKeeps ==
  ASSUME IInv, NEW p \in inflight, NEW e \in Entry, Insert(p, e)
  PROVE  IInv'
<1>0. TypeOK /\ UNCHANGED <<known, retired, removed, sites>>
  BY DEF IInv, Insert
<1>1. TypeOK'
  <2>1. Apart(inflight') /\ inflight' \subseteq Pending
    BY <1>0, WritersApart, InsertLeaves DEF Left
  <2>2. \A f \in Entry : (site'[f] # None => Exists(f)') /\ (f \in removed' => Exists(f)')
    BY <1>0, Inserted DEF TypeOK
  <2>3. removed' \subseteq {f \in Entry : Exists(f)'}
    BY <1>0, <2>2 DEF TypeOK
  <2> QED
    BY <1>0, <2>1, <2>2, <2>3, Inserted DEF TypeOK, Apart
<1>2. Grounded'
  <2> SUFFICES ASSUME NEW n \in inflight'
               PROVE  /\ n.op = "update" => Exists(n.row)'
                      /\ n.op \in {"create", "update"} /\ n.category # None => n.category \in known
                      /\ n.op = "retire" => n.row \in known
    BY <1>0 DEF Grounded
  <2>1. PICK o \in inflight : Left(n, o)
    BY <1>0, InsertLeaves
  <2>2. /\ o.op = "update" => o.row \in Entry /\ Exists(o.row)
        /\ o.op \in {"create", "update"} /\ o.category # None => o.category \in known
        /\ o.op = "retire" => o.row \in known
    BY KindsOfRequest DEF IInv, TypeOK, Grounded, Update
  <2> QED
    BY <2>1, <2>2, Inserted DEF Left
<1>3. WindowsChecked'
  <2> SUFFICES ASSUME NEW n \in inflight'
               PROVE  /\ n.op = "create" /\ n.table = Schedule => ValidWindow(n.start, n.end)
                      /\ n.op = "update" /\ n.row \in Schedule /\ ~n.overtaken =>
                            WillBeValid(n.row, n.start, n.end)'
    BY DEF WindowsChecked, WillBeValid
  <2>1. PICK o \in inflight : Left(n, o)
    BY <1>0, InsertLeaves
  <2>2. CASE n.op = "create"
    BY <2>1, <2>2 DEF Left, IInv, WindowsChecked
  <2>3. ASSUME n.op = "update", n.row \in Schedule, ~n.overtaken
        PROVE  WillBeValid(n.row, n.start, n.end)'
    <3>1. /\ o.op = "update" /\ ~o.overtaken
          /\ n.row = o.row /\ n.start = o.start /\ n.end = o.end
      BY <2>1, <2>3 DEF Left
    <3>2. WillBeValid(n.row, n.start, n.end) /\ Exists(n.row)
      BY <2>3, <3>1 DEF IInv, WindowsChecked, Grounded
    <3>3. start'[n.row] = start[n.row] /\ end'[n.row] = end[n.row]
      BY <2>3, <3>2, Inserted
    <3> QED
      BY <3>2, <3>3 DEF WillBeValid
  <2> QED
    BY <2>2, <2>3
<1>4. Noticed'
  <2> SUFFICES ASSUME NEW n \in inflight', NEW f \in Collection,
                      n.op = "retire", Shown(f)', category'[f] = n.row
               PROVE  f \in n.since
    BY DEF Noticed
  <2>1. PICK o \in inflight :
           /\ Left(n, o)
           /\ n.op = "retire" /\ n.row = p.category /\ e \in Collection => e \in n.since
    BY <1>0, InsertLeaves
  <2>2. o.op = "retire" /\ n.row = o.row /\ o.since \subseteq n.since /\ f \in Entry
    BY <2>1 DEF Left, Entry
  <2>3. CASE f = e
    BY <2>1, <2>2, <2>3, Inserted
  <2>4. CASE f # e
    <3>1. Shown(f) /\ category[f] = o.row
      BY <1>0, <2>2, <2>4, Inserted DEF Shown
    <3> QED
      BY <2>2, <3>1 DEF IInv, Noticed
  <2> QED
    BY <2>3, <2>4
<1> QED
  BY <1>1, <1>2, <1>3, <1>4 DEF IInv

\* The rest takes requests away, or marks rows and categories that are there.
LEMMA OthersKeep ==
  ASSUME IInv,
         \/ \E p \in inflight : Retire(p) \/ Drop(p)
         \/ \E e \in Entry : Remove(e)
         \/ \E c \in Category : CreateCategory(c)
         \/ \E w \in Site : DeleteSite(w)
         \/ UNCHANGED vars
  PROVE  IInv'
<1>1. ASSUME /\ UNCHANGED <<category, site, start, end>>
             /\ inflight' \subseteq inflight /\ removed \subseteq removed'
             /\ removed' \subseteq {e \in Entry : Exists(e)}
             /\ known \subseteq known' /\ known' \subseteq Category
             /\ retired' \subseteq known' /\ sites' \subseteq Site
      PROVE  IInv'
  <2>1. TypeOK'
    BY <1>1 DEF IInv, TypeOK, Exists
  <2>2. Grounded' /\ WindowsChecked'
    BY <1>1 DEF IInv, Grounded, WindowsChecked, WillBeValid, Exists
  <2>3. Noticed'
    BY <1>1 DEF IInv, Noticed, Shown, Exists
  <2> QED
    BY <2>1, <2>2, <2>3 DEF IInv
<1>2. \A p \in inflight : p.op = "retire" => p.row \in known
  BY DEF IInv, Grounded
<1> QED
  BY <1>1, <1>2 DEF Retire, Drop, Remove, CreateCategory, DeleteSite, vars, Shown, IInv, TypeOK

LEMMA StepIInv == IInv /\ [Next]_vars => IInv'
<1> SUFFICES ASSUME IInv, [Next]_vars PROVE IInv'
  OBVIOUS
<1>1. Midnight \in Time
  BY DEF Midnight
<1>2. ASSUME NEW q \in Request, NEW e \in Entry,
             \/ \E c \in Category \cup {None}, w \in Site \cup {None} :
                   CheckUpdate(q, e, c, w, None, None)
             \/ \E from, to \in Time \cup {None} : CheckUpdate(q, e, None, None, from, to)
      PROVE  IInv'
  BY <1>2, AdmissionsKeep
<1> QED
  BY <1>2, AdmissionsKeep, WriteKeeps, InsertKeeps, OthersKeep DEF Next

LEMMA InvariantHolds == Spec => []IInv
  BY InitIInv, StepIInv, PTL DEF Spec

-----------------------------------------------------------------------------
\* The tables of both databases have their types; a category that is referred to has a row.
THEOREM SchedulesTypeCorrect == Spec => []TypeOK
<1>1. IInv => TypeOK
  BY DEF IInv
<1> QED
  BY <1>1, InvariantHolds, PTL

\* What requests a step may leave, begin and end.
LEMMA Steps ==
  ASSUME IInv, [Next]_vars
  PROVE  \/ \E p \in inflight : Write(p)
         \/ \E p \in inflight, e \in Entry : Insert(p, e)
         \/ UNCHANGED <<category, site, start, end>>
BY DEF Next, CheckCreate, CheckUpdate, CheckRetire, Retire, Drop, Remove, CreateCategory,
       DeleteSite, vars

\* The window of a schedule is inverted only by an update whose window has been written
\* by another one since it was read.
THEOREM InversionsAreOvertaken == Spec => InversionsWereOvertaken
<1>1. ASSUME IInv, [Next]_vars
      PROVE  \A s \in Schedule :
                Inverted(s)' /\ ~Inverted(s) =>
                    \E p \in inflight \ inflight' : p.op = "update" /\ p.row = s /\ p.overtaken
  <2> SUFFICES ASSUME NEW s \in Schedule, Inverted(s)', ~Inverted(s)
               PROVE  \E p \in inflight \ inflight' :
                         p.op = "update" /\ p.row = s /\ p.overtaken
    OBVIOUS
  <2>1. TypeOK /\ s \in Entry
    BY <1>1 DEF IInv, Entry
  <2>2. ASSUME NEW p \in inflight, Write(p)
        PROVE  p \notin inflight' /\ p.op = "update" /\ p.row = s /\ p.overtaken
    <3>1. p \in Update /\ p \notin inflight'
      <4>1. \A n \in inflight' : n.by # p.by
        BY <2>1, <2>2, WriteLeaves DEF Left, TypeOK
      <4> QED
        BY <1>1, <2>2, <4>1, Written
    <3>2. p.row = s
      BY <1>1, <2>1, <2>2, Written, WindowWritten DEF Inverted
    <3>3. Exists(s) /\ ~ValidWindow(Merged(p.start, start[s]), Merged(p.end, end[s]))
      BY <1>1, <2>1, <2>2, <3>2, Written, WindowWritten DEF Inverted
    <3>4. p.overtaken
      BY <1>1, <2>2, <3>1, <3>2, <3>3 DEF IInv, WindowsChecked, WillBeValid, Update
    <3> QED
      BY <3>1, <3>2, <3>4 DEF Update
  <2>3. ASSUME NEW p \in inflight, NEW e \in Entry, Insert(p, e) PROVE FALSE
    <3>1. e = s
      BY <1>1, <2>1, <2>3, Inserted DEF Inverted
    <3>2. p.op = "create" /\ p.table = Schedule
      BY <1>1, <2>3, <3>1, Inserted DEF Creation, Table
    <3>3. ValidWindow(p.start, p.end)
      BY <1>1, <2>3, <3>2 DEF IInv, WindowsChecked
    <3> QED
      BY <1>1, <2>1, <2>3, <3>1, <3>3, Inserted DEF Inverted
  <2>4. ASSUME UNCHANGED <<category, site, start, end>> PROVE FALSE
    BY <2>4 DEF Inverted, Exists
  <2> QED
    BY <1>1, <2>2, <2>3, <2>4, Steps
<1> QED
  BY <1>1, InvariantHolds, PTL DEF Spec, InversionsWereOvertaken

\* A request that begins has found what it refers to; the others were in progress.
LEMMA NobodyStartsDangling ==
  ASSUME IInv, [Next]_vars, NEW n \in inflight', Dangling(n)'
  PROVE  \E o \in inflight : n.by = o.by
<1>1. TypeOK
  BY DEF IInv
<1>2. ASSUME NEW p \in inflight, Write(p) \/ \E e \in Entry : Insert(p, e)
      PROVE  \E o \in inflight : n.by = o.by
  BY <1>1, <1>2, WriteLeaves, InsertLeaves DEF Left
<1>3. ASSUME NEW q, NEW table, NEW c, NEW w, NEW from, NEW to,
             CheckCreate(q, table, c, w, from, to)
      PROVE  n \in inflight
  BY <1>3 DEF CheckCreate, Found, InUse, Dangling
<1>4. ASSUME NEW q, NEW e, NEW c, NEW w, NEW from, NEW to, CheckUpdate(q, e, c, w, from, to)
      PROVE  n \in inflight
  BY <1>4 DEF CheckUpdate, Found, InUse, Dangling
<1>5. ASSUME NEW q, NEW c, CheckRetire(q, c) PROVE n \in inflight
  BY <1>5 DEF CheckRetire, Dangling
<1>6. ASSUME inflight' \subseteq inflight PROVE n \in inflight
  BY <1>6
<1> QED
  BY <1>2, <1>3, <1>4, <1>5, <1>6
     DEF Next, Retire, Drop, Remove, CreateCategory, DeleteSite, vars

\* An entry comes to refer to something that is gone only by a request that had looked it
\* up before it went.
THEOREM DanglingReferencesDrain == Spec => DanglingDrains
<1>1. ASSUME IInv, [Next]_vars
      PROVE  /\ \A p \in inflight' : Dangling(p)' => p.by \in {o.by : o \in inflight}
             /\ \A e \in Entry :
                  LET newCategory == Exists(e)' /\ category'[e] # category[e] /\ category'[e] \in retired
                      newSite == site'[e] # None /\ site'[e] # site[e] /\ site'[e] \notin sites
                  IN  newCategory \/ newSite => \E p \in inflight \ inflight' : Dangling(p)
  <2>1. \A p \in inflight' : Dangling(p)' => p.by \in {o.by : o \in inflight}
    BY <1>1, NobodyStartsDangling
  <2>2. ASSUME NEW e \in Entry,
               \/ Exists(e)' /\ category'[e] # category[e] /\ category'[e] \in retired
               \/ site'[e] # None /\ site'[e] # site[e] /\ site'[e] \notin sites
        PROVE  \E p \in inflight \ inflight' : Dangling(p)
    <3>1. TypeOK
      BY <1>1 DEF IInv
    <3>2. ASSUME NEW p \in inflight, Write(p) PROVE p \notin inflight' /\ Dangling(p)
      <4>1. \A n \in inflight' : n.by # p.by
        BY <3>1, <3>2, WriteLeaves DEF Left, TypeOK
      <4>2. /\ e = p.row
            /\ \/ p.category # None /\ p.category \in retired
               \/ p.site # None /\ p.site \notin sites
        BY <1>1, <2>2, <3>2, Written DEF Merged
      <4> QED
        BY <3>2, <4>1, <4>2 DEF Dangling, InUse, Write
    <3>3. ASSUME NEW p \in inflight, NEW f \in Entry, Insert(p, f)
          PROVE  p \notin inflight' /\ Dangling(p)
      <4>1. \A n \in inflight' : n.by # p.by
        BY <3>1, <3>3, InsertLeaves DEF Left, TypeOK
      <4>2. /\ e = f /\ p.category \in known /\ known \subseteq Category
            /\ \/ p.category \in retired
               \/ p.site # None /\ p.site \notin sites
        BY <1>1, <2>2, <3>1, <3>3, Inserted DEF TypeOK
      <4> QED
        BY <3>3, <4>1, <4>2 DEF Dangling, InUse, Insert
    <3> QED
      BY <1>1, <2>2, <3>2, <3>3, Steps
  <2> QED
    BY <2>1, <2>2
<1> QED
  BY <1>1, InvariantHolds, PTL DEF Spec, DanglingDrains

\* The collections that still refer to a category when it is retired came after the count.
THEOREM RetiredCategoriesWereIdle == Spec => RetiredWereIdle
<1>1. ASSUME IInv, [Next]_vars
      PROVE  \A c \in Category :
                InUse(c) /\ ~InUse(c)' =>
                    \E p \in inflight \ inflight' :
                        p.op = "retire" /\ p.row = c /\
                            {e \in Collection : Shown(e) /\ category[e] = c} \subseteq p.since
  <2> SUFFICES ASSUME NEW c \in Category, InUse(c), ~InUse(c)'
               PROVE  \E p \in inflight \ inflight' :
                         p.op = "retire" /\ p.row = c /\
                             {e \in Collection : Shown(e) /\ category[e] = c} \subseteq p.since
    OBVIOUS
  <2>1. PICK p \in inflight : Retire(p) /\ p.row = c
    <3>1. ASSUME known \subseteq known', retired' = retired PROVE FALSE
      BY <3>1 DEF InUse
    <3>2. ASSUME NEW o \in inflight, Write(o) \/ Drop(o) \/ \E e \in Entry : Insert(o, e)
          PROVE  FALSE
      BY <3>1, <3>2 DEF Write, Drop, Insert
    <3>3. ASSUME NEW o \in inflight, Retire(o) PROVE o.row = c
      BY <3>3 DEF Retire, InUse
    <3> QED
      BY <1>1, <3>1, <3>2, <3>3
         DEF Next, CheckCreate, CheckUpdate, CheckRetire, Remove, CreateCategory, DeleteSite, vars
  <2>2. p \notin inflight' /\ p.op = "retire"
    BY <2>1 DEF Retire
  <2>3. {e \in Collection : Shown(e) /\ category[e] = c} \subseteq p.since
    BY <1>1, <2>1, <2>2 DEF IInv, Noticed
  <2> QED
    BY <2>1, <2>2, <2>3
<1> QED
  BY <1>1, InvariantHolds, PTL DEF Spec, RetiredWereIdle
=============================================================================
