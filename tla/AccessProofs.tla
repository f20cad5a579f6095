---------------------------- MODULE AccessProofs ----------------------------
(***************************************************************************)
(* Theorems about the sessions, whatever becomes of the roles, and about    *)
(* Access, where roles and permissions stand behind the claims; for any     *)
(* number of users, passwords, roles, permissions and requests.  Access     *)
(* implements the sessions: seen from them the administrators only change   *)
(* claims, to sets of names of roles.                                       *)
(***************************************************************************)
EXTENDS Access, TLAPS

USE SessionsAssumption, AccessAssumption, KeysDiffer

-----------------------------------------------------------------------------
\* The sessions.

LEMMA InitTypeOK == Init => TypeOK
  BY DEF Init, TypeOK, Blank, Live, Refresh

\* The refresh tokens after those of u have been revoked.
LEMMA RevokedTokens ==
  ASSUME TypeOK, NEW u \in User, token' = Revoked(u)
  PROVE  /\ token' \in [Token -> Refresh \cup {Blank}]
         /\ \A k \in Token : Live(k)' => Live(k) /\ token'[k] = token[k] /\ token[k].user # u
<1>1. token' \in [Token -> Refresh \cup {Blank}]
  BY DEF TypeOK, Revoked
<1>2. ASSUME NEW k \in Token, Live(k)'
      PROVE  Live(k) /\ token'[k] = token[k] /\ token[k].user # u
  <2>1. token'[k] = IF Live(k) /\ token[k].user = u THEN Blank ELSE token[k]
    BY DEF Revoked
  <2>2. Blank.live = FALSE
    BY DEF Blank
  <2>3. ~(Live(k) /\ token[k].user = u)
    BY <1>2, <2>1, <2>2 DEF Live
  <2> QED
    BY <1>2, <2>1, <2>3 DEF Live
<1> QED
  BY <1>1, <1>2

-----------------------------------------------------------------------------
\* The types, action by action.
LEMMA StepTypeOK == TypeOK /\ [Next]_vars => TypeOK'
<1> SUFFICES ASSUME TypeOK, [Next]_vars PROVE TypeOK'
  OBVIOUS
<1>1. ASSUME NEW q \in Request, NEW u \in User, CheckLogin(q, u) PROVE TypeOK'
  <2> DEFINE p == [by |-> q, op |-> "login", user |-> u,
                   version |-> password[u], names |-> claims[u]]
  <2>1. inflight' = inflight \cup {p} /\ p.by = q
    BY <1>1 DEF CheckLogin
  <2>2. p \in Login /\ password[u] \in 1..MaxVersion
    BY <1>1 DEF CheckLogin, Login, TypeOK, Registered
  <2>3. \A p1, p2 \in inflight' : p1.by = p2.by => p1 = p2
    BY <1>1, <2>1 DEF CheckLogin, TypeOK, Free
  <2> QED
    BY <1>1, <2>1, <2>2, <2>3 DEF CheckLogin, TypeOK, Registered, Live
<1>2. ASSUME NEW q \in Request, NEW u \in User, CheckUpdate(q, u) PROVE TypeOK'
  <2> DEFINE p == [by |-> q, op |-> "update", user |-> u, version |-> password[u]]
  <2>1. inflight' = inflight \cup {p} /\ p.by = q
    BY <1>2 DEF CheckUpdate
  <2>2. p \in Change /\ password[u] \in 1..MaxVersion
    BY <1>2 DEF CheckUpdate, Change, TypeOK, Registered
  <2>3. \A p1, p2 \in inflight' : p1.by = p2.by => p1 = p2
    BY <1>2, <2>1 DEF CheckUpdate, TypeOK, Free
  <2> QED
    BY <1>2, <2>1, <2>2, <2>3 DEF CheckUpdate, TypeOK, Registered, Live
<1>3. ASSUME NEW q \in Request, NEW k \in Token, CheckRefresh(q, k) PROVE TypeOK'
  <2> DEFINE p == [by |-> q, op |-> "refresh", user |-> token[k].user,
                   names |-> claims[token[k].user]]
  <2>1. inflight' = inflight \cup {p} /\ p.by = q
    BY <1>3 DEF CheckRefresh
  <2>2. token[k] \in Refresh
    BY <1>3 DEF CheckRefresh, TypeOK, Live, Blank
  <2>3. p \in Renewal /\ Registered(p.user)
    BY <1>3, <2>2 DEF CheckRefresh, Renewal, TypeOK, Refresh, Registered
  <2>4. \A p1, p2 \in inflight' : p1.by = p2.by => p1 = p2
    BY <1>3, <2>1 DEF CheckRefresh, TypeOK, Free
  <2> QED
    BY <1>3, <2>1, <2>3, <2>4 DEF CheckRefresh, TypeOK, Registered, Live
<1>4. ASSUME NEW q \in Request, NEW l \in links, CheckReset(q, l) PROVE TypeOK'
  <2> DEFINE p == [by |-> q, op |-> "reset", user |-> l.user, version |-> l.version]
  <2>1. inflight' = inflight \cup {p} /\ p.by = q
    BY <1>4 DEF CheckReset
  <2>2. p \in Change /\ p.version <= password[p.user] /\ Registered(p.user)
    BY <1>4 DEF CheckReset, Change, TypeOK, Link, Registered
  <2>3. \A p1, p2 \in inflight' : p1.by = p2.by => p1 = p2
    BY <1>4, <2>1 DEF CheckReset, TypeOK, Free
  <2> QED
    BY <1>4, <2>1, <2>2, <2>3 DEF CheckReset, TypeOK, Registered, Live
<1>5. ASSUME NEW p, NEW k \in Token, StoreLogin(p, k) PROVE TypeOK'
  <2>1. p \in Login /\ p \in inflight
    BY <1>5 DEF StoreLogin, TypeOK, Renewal, Change
  <2>2. p.version <= password[p.user] /\ Registered(p.user)
    BY <1>5, <2>1 DEF StoreLogin, TypeOK, Login
  <2>3. [live |-> TRUE, user |-> p.user, version |-> p.version] \in Refresh
    BY <2>1 DEF Login, Refresh
  <2>4. [user |-> p.user, names |-> p.names] \in Ticket
    BY <2>1 DEF Login, Ticket
  <2>5. token' \in [Token -> Refresh \cup {Blank}]
    BY <1>5, <2>3 DEF StoreLogin, TypeOK
  <2>6. \A j \in Token : Live(j)' => token'[j].version <= password'[token'[j].user]
    BY <1>5, <2>2 DEF StoreLogin, TypeOK, Live
  <2> QED
    BY <1>5, <2>2, <2>4, <2>5, <2>6 DEF StoreLogin, TypeOK, Registered
<1>6. ASSUME NEW p, AnswerRefresh(p) PROVE TypeOK'
  <2>1. p \in Renewal /\ Registered(p.user)
    BY <1>6 DEF AnswerRefresh, TypeOK, Login, Change
  <2>2. [user |-> p.user, names |-> p.names] \in Ticket
    BY <2>1 DEF Renewal, Ticket
  <2> QED
    BY <1>6, <2>1, <2>2 DEF AnswerRefresh, TypeOK, Registered, Live
<1>7. ASSUME NEW p, ChangePassword(p) PROVE TypeOK'
  <2>1. p \in Change /\ p \in inflight
    BY <1>7 DEF ChangePassword, TypeOK, Login, Renewal
  <2>2. /\ p.user \in User /\ password[p.user] \in Nat
        /\ password' = [password EXCEPT ![p.user] = @ + 1]
        /\ password' \in [User -> 0..MaxVersion]
        /\ \A u \in User : password[u] <= password'[u]
    BY <1>7, <2>1 DEF ChangePassword, TypeOK, Change
  <2>3. /\ token' \in [Token -> Refresh \cup {Blank}]
        /\ \A k \in Token : Live(k)' => Live(k) /\ token'[k] = token[k] /\ token[k].user # p.user
    BY <1>7, <2>2, RevokedTokens DEF ChangePassword
  <2>4. ASSUME NEW k \in Token, Live(k)' PROVE token'[k].version <= password'[token'[k].user]
    <3>1. token[k] \in Refresh
      BY <2>3, <2>4 DEF TypeOK, Live, Blank
    <3> QED
      BY <2>2, <2>3, <2>4, <3>1 DEF TypeOK, Refresh
  <2>5. \A l \in links' : l.version <= password'[l.user]
    BY <1>7, <2>2 DEF ChangePassword, TypeOK, Link
  <2>6. \A t \in tickets' : Registered(t.user)'
    BY <1>7, <2>2 DEF ChangePassword, TypeOK, Ticket, Registered
  <2>7. ASSUME NEW o \in inflight'
        PROVE  Registered(o.user)' /\ (o.op # "refresh" => o.version <= password'[o.user])
    <3>1. o \in inflight /\ o.user \in User
      BY <1>7 DEF ChangePassword, TypeOK, Login, Renewal, Change
    <3>2. CASE o.op = "refresh"
      BY <2>2, <3>1, <3>2 DEF TypeOK, Registered
    <3>3. CASE o.op # "refresh"
      <4>1. o.version \in Nat
        BY <3>1, <3>3 DEF TypeOK, Login, Renewal, Change
      <4> QED
        BY <2>2, <3>1, <3>3, <4>1 DEF TypeOK, Registered
    <3> QED
      BY <3>2, <3>3
  <2> QED
    BY <1>7, <2>2, <2>3, <2>4, <2>5, <2>6, <2>7 DEF ChangePassword, TypeOK
<1>8. ASSUME NEW p, Drop(p) PROVE TypeOK'
  BY <1>8 DEF Drop, TypeOK, Registered, Live
<1>9. ASSUME NEW k \in Token, Logout(k) PROVE TypeOK'
  BY <1>9 DEF Logout, TypeOK, Registered, Live, Blank
<1>10. ASSUME NEW u \in User, LogoutAll(u) PROVE TypeOK'
  <2>1. /\ token' \in [Token -> Refresh \cup {Blank}]
        /\ \A k \in Token : Live(k)' => Live(k) /\ token'[k] = token[k] /\ token[k].user # u
    BY <1>10, RevokedTokens DEF LogoutAll
  <2> QED
    BY <1>10, <2>1 DEF LogoutAll, TypeOK, Registered
<1>11. ASSUME NEW u \in User, ForgotPassword(u) PROVE TypeOK'
  <2>1. [user |-> u, version |-> password[u]] \in Link
    BY <1>11 DEF ForgotPassword, TypeOK, Link, Registered
  <2> QED
    BY <1>11, <2>1 DEF ForgotPassword, TypeOK, Registered, Live
<1>12. CASE Clock
  BY <1>9, <1>12 DEF Clock, TokenExpires, TicketExpires, LinkExpires, TypeOK, Registered, Live
<1>13. ASSUME NEW u \in User, Register(u), claims' \in [User -> SUBSET Name] PROVE TypeOK'
  <2>1. /\ password' \in [User -> 0..MaxVersion]
        /\ \A w \in User : password[w] \in Nat /\ password[w] <= password'[w]
    BY <1>13 DEF Register, TypeOK, Registered
  <2>2. ASSUME NEW k \in Token, Live(k)' PROVE token'[k].version <= password'[token'[k].user]
    <3>1. token[k] \in Refresh
      BY <1>13, <2>2 DEF Register, TypeOK, Live, Blank
    <3> QED
      BY <1>13, <2>1, <2>2, <3>1 DEF Register, TypeOK, Refresh, Live
  <2>3. ASSUME NEW o \in inflight
        PROVE  Registered(o.user)' /\ (o.op # "refresh" => o.version <= password'[o.user])
    <3>1. o.user \in User
      BY DEF TypeOK, Login, Renewal, Change
    <3>2. o.op # "refresh" => o.version \in Nat
      BY DEF TypeOK, Login, Renewal, Change
    <3> QED
      BY <2>1, <3>1, <3>2 DEF TypeOK, Registered
  <2>4. \A l \in links' : l.version <= password'[l.user]
    BY <1>13, <2>1 DEF Register, TypeOK, Link
  <2>5. \A t \in tickets' : Registered(t.user)'
    BY <1>13, <2>1 DEF Register, TypeOK, Ticket, Registered
  <2> QED
    BY <1>13, <2>1, <2>2, <2>3, <2>4, <2>5 DEF Register, TypeOK
<1>14. CASE Reassign
  BY <1>14 DEF Reassign, ownVars, TypeOK, Registered, Live
<1>15. CASE UNCHANGED vars
  BY <1>15 DEF vars, ownVars, TypeOK, Registered, Live
<1> QED
  BY <1>1, <1>2, <1>3, <1>4, <1>5, <1>6, <1>7, <1>8, <1>9, <1>10, <1>11, <1>12, <1>13, <1>14,
     <1>15 DEF Next, Step, Finish

\* The types of the accounts and sessions: whatever is signed or stored belongs to an
\* account and rests on a password the account has or had.
THEOREM SessionsTypeCorrect == Spec => []TypeOK
  BY InitTypeOK, StepTypeOK, PTL DEF Spec

-----------------------------------------------------------------------------
\* A refresh token that comes alive or changes is stored by a login.
StoredBy(p, k) ==
    /\ p.op = "login"
    /\ token'[k] = [live |-> TRUE, user |-> p.user, version |-> p.version]
    /\ password' = password
    /\ p \in inflight \ inflight'

\* Nobody begins with an old password.
LEMMA NobodyStartsLate ==
  ASSUME TypeOK, [Next]_vars, NEW p \in Late'
  PROVE  p \in inflight
<1> SUFFICES ASSUME p \notin inflight PROVE FALSE
  OBVIOUS
<1>0. p \in inflight' /\ p.op # "refresh" /\ p.version < password'[p.user]
  BY DEF Late
<1>1. ASSUME NEW q \in Request, NEW u \in User, CheckLogin(q, u) PROVE FALSE
  BY <1>0, <1>1 DEF CheckLogin, TypeOK
<1>2. ASSUME NEW q \in Request, NEW u \in User, CheckUpdate(q, u) PROVE FALSE
  BY <1>0, <1>2 DEF CheckUpdate, TypeOK
<1>3. ASSUME NEW q \in Request, NEW k \in Token, CheckRefresh(q, k) PROVE FALSE
  BY <1>0, <1>3 DEF CheckRefresh
<1>4. ASSUME NEW q \in Request, NEW l \in links, CheckReset(q, l) PROVE FALSE
  BY <1>0, <1>4 DEF CheckReset, Verifies, TypeOK, Link
<1> QED
  BY <1>0, <1>1, <1>2, <1>3, <1>4 DEF Next, Step, Finish, StoreLogin, AnswerRefresh,
     ChangePassword, Drop, Logout, LogoutAll, ForgotPassword, Clock, TokenExpires,
     TicketExpires, LinkExpires, Register, Reassign, ownVars, vars

\* What may happen to a refresh token that is alive afterwards.
LEMMA LiveTokens ==
  ASSUME TypeOK, [Next]_vars, NEW k \in Token, Live(k)'
  PROVE  \/ Live(k) /\ token'[k] = token[k] /\ password'[token[k].user] = password[token[k].user]
         \/ \E p : StoredBy(p, k)
<1> DEFINE Kept == Live(k) /\ token'[k] = token[k] /\ password'[token[k].user] = password[token[k].user]
<1>1. ASSUME NEW p, NEW j \in Token, StoreLogin(p, j) PROVE Kept \/ StoredBy(p, k)
  <2>1. CASE j = k
    BY <1>1, <2>1 DEF StoreLogin, StoredBy, TypeOK
  <2>2. CASE j # k
    BY <1>1, <2>2 DEF StoreLogin, TypeOK, Live
  <2> QED
    BY <2>1, <2>2
<1>2. ASSUME NEW p, ChangePassword(p) PROVE Kept
  <2>1. p.user \in User
    BY <1>2 DEF ChangePassword, TypeOK, Login, Renewal, Change
  <2>2. Live(k) /\ token'[k] = token[k] /\ token[k].user # p.user
    BY <1>2, <2>1, RevokedTokens DEF ChangePassword
  <2>3. token[k] \in Refresh
    BY <2>2 DEF TypeOK, Live, Blank
  <2> QED
    BY <1>2, <2>1, <2>2, <2>3 DEF ChangePassword, TypeOK, Refresh
<1>3. ASSUME NEW u \in User, LogoutAll(u) PROVE Kept
  BY <1>3, RevokedTokens DEF LogoutAll
<1>4. ASSUME NEW j \in Token, Logout(j) PROVE Kept
  BY <1>4 DEF Logout, TypeOK, Live, Blank
<1>5. ASSUME NEW u \in User, Register(u) PROVE Kept
  <2>1. Live(k) /\ token[k] \in Refresh
    BY <1>5 DEF Register, TypeOK, Live, Blank
  <2>2. token[k].user # u
    BY <1>5, <2>1 DEF Register, Registered, TypeOK, Refresh
  <2> QED
    BY <1>5, <2>1, <2>2 DEF Register, TypeOK, Refresh
<1>6. CASE token' = token /\ password' = password
  BY <1>6 DEF Live
<1> QED
  BY <1>1, <1>2, <1>3, <1>4, <1>5, <1>6 DEF Next, Step, Finish, CheckLogin, CheckUpdate,
     CheckRefresh, CheckReset, AnswerRefresh, Drop, ForgotPassword, Clock, TokenExpires,
     TicketExpires, LinkExpires, Reassign, ownVars, vars

\* After a change of the password no session rests on an older one, but for those of
\* logins that had compared it before.
THEOREM SessionsAreDrained == Spec => SessionsDrain
<1>1. ASSUME TypeOK, [Next]_vars
      PROVE  /\ Late' \subseteq inflight
             /\ \A k \in Token : Outdated(k)' =>
                   \/ Outdated(k)
                   \/ \E p \in Late \ inflight' :
                         /\ p.op = "login"
                         /\ token'[k] = [live |-> TRUE, user |-> p.user, version |-> p.version]
  <2>1. Late' \subseteq inflight
    BY <1>1, NobodyStartsLate
  <2>2. ASSUME NEW k \in Token, Outdated(k)', ~Outdated(k)
        PROVE  \E p \in Late \ inflight' :
                   /\ p.op = "login"
                   /\ token'[k] = [live |-> TRUE, user |-> p.user, version |-> p.version]
    <3>1. Live(k)' /\ token'[k].version < password'[token'[k].user]
      BY <2>2 DEF Outdated
    <3>2. PICK p : StoredBy(p, k)
      BY <1>1, <2>2, <3>1, LiveTokens DEF Outdated
    <3>3. p.version < password[p.user]
      BY <3>1, <3>2 DEF StoredBy
    <3> QED
      BY <3>2, <3>3 DEF StoredBy, Late
  <2> QED
    BY <2>1, <2>2
<1> QED
  BY <1>1, SessionsTypeCorrect, PTL DEF Spec, SessionsDrain

-----------------------------------------------------------------------------
\* The types of the roles, whatever "enrolled" is.

\* Marking the deletions in progress keeps them what they are.
LEMMA NoticingKeepsTypes ==
  ASSUME Admin!TypeOK, NEW pair \in Admin!Pair
  PROVE  /\ Admin!Noticing(pair) \subseteq Admin!Deletion \cup Admin!Registration
         /\ \A p \in Admin!Noticing(pair) : \E o \in pending : p.by = o.by
         /\ \A p1, p2 \in Admin!Noticing(pair) : p1.by = p2.by => p1 = p2
<1> DEFINE N(p) == IF p.op = "delete" /\ p.row \in {pair[1], pair[2]}
                   THEN [p EXCEPT !.since = @ \cup {pair}] ELSE p
<1>1. ASSUME NEW p \in pending PROVE N(p) \in Admin!Deletion \cup Admin!Registration /\ N(p).by = p.by
  <2>1. CASE p \in Admin!Deletion
    BY <2>1 DEF Admin!Deletion
  <2>2. CASE p \in Admin!Registration
    BY <2>2 DEF Admin!Registration
  <2> QED
    BY <2>1, <2>2 DEF Admin!TypeOK
<1>2. Admin!Noticing(pair) = {N(p) : p \in pending}
  BY DEF Admin!Noticing
<1> HIDE DEF N
<1>3. ASSUME NEW p1 \in Admin!Noticing(pair), NEW p2 \in Admin!Noticing(pair), p1.by = p2.by
      PROVE  p1 = p2
  <2>1. PICK o1 \in pending, o2 \in pending : p1 = N(o1) /\ p2 = N(o2)
    BY <1>2
  <2>2. o1.by = o2.by
    BY <1>1, <1>3, <2>1
  <2>3. o1 = o2
    BY <2>2 DEF Admin!TypeOK
  <2> QED
    BY <2>1, <2>3
<1> QED
  BY <1>1, <1>2, <1>3

\* Roles and permissions, action by action.
LEMMA AdminTypes ==
  ASSUME Admin!TypeOK, Admin!Next
  PROVE  Admin!TypeOK'
<1>1. ASSUME NEW r \in Role, NEW n \in Name, Admin!CreateRole(r, n) \/ Admin!Rename(r, n)
      PROVE  Admin!TypeOK'
  <2>1. /\ role' = [role EXCEPT ![r] = n] /\ n # Admin!None
        /\ \A j \in Role : role[j] # n
        /\ unused' \subseteq unused /\ r \notin unused'
        /\ UNCHANGED <<Enrolled, permission, holds, grants, pending>>
    BY <1>1 DEF Admin!CreateRole, Admin!Rename, Admin!Called, Admin!TypeOK, Admin!Exists
  <2>2. /\ role' \in [Role -> Name \cup {Admin!None}]
        /\ role'[r] = n
        /\ \A j \in Role : j # r => role'[j] = role[j]
    BY <2>1 DEF Admin!TypeOK
  <2>3. \A r1, r2 \in Role : Admin!Exists(r1)' /\ role'[r1] = role'[r2] => r1 = r2
    BY <2>1, <2>2 DEF Admin!TypeOK, Admin!Exists
  <2> QED
    BY <2>1, <2>2, <2>3 DEF Admin!TypeOK, Admin!Exists
<1>2. ASSUME NEW u \in User, NEW r \in Role, Admin!Assign(u, r) PROVE Admin!TypeOK'
  <2>1. <<u, r>> \in Admin!Pair
    BY DEF Admin!Pair
  <2> QED
    BY <1>2, <2>1, NoticingKeepsTypes DEF Admin!Assign, Admin!TypeOK, Admin!Exists
<1>3. ASSUME NEW r \in Role, NEW x \in Permission, Admin!Grant(r, x) PROVE Admin!TypeOK'
  <2>1. <<r, x>> \in Admin!Pair
    BY DEF Admin!Pair
  <2> QED
    BY <1>3, <2>1, NoticingKeepsTypes DEF Admin!Grant, Admin!TypeOK, Admin!Exists
<1>4. ASSUME NEW u \in User, NEW r \in Role, Admin!Revoke(u, r) PROVE Admin!TypeOK'
  BY <1>4 DEF Admin!Revoke, Admin!TypeOK, Admin!Exists
<1>5. ASSUME NEW r \in Role, NEW x \in Permission, Admin!Ungrant(r, x) PROVE Admin!TypeOK'
  BY <1>5 DEF Admin!Ungrant, Admin!TypeOK, Admin!Exists
<1>6. ASSUME NEW x \in Permission, Admin!CreatePermission(x) PROVE Admin!TypeOK'
  BY <1>6 DEF Admin!CreatePermission, Admin!TypeOK, Admin!Exists
<1>7. ASSUME NEW q \in AdminRequest, NEW x \in Role \cup Permission,
             Admin!CheckDeleteRole(q, x) \/ Admin!CheckDeletePermission(q, x)
      PROVE  Admin!TypeOK'
  <2>1. [by |-> q, op |-> "delete", row |-> x, since |-> {}] \in Admin!Deletion
    BY DEF Admin!Deletion
  <2>2. /\ Admin!Free(q)
        /\ pending' = pending \cup {[by |-> q, op |-> "delete", row |-> x, since |-> {}]}
        /\ UNCHANGED <<Enrolled, role, permission, unused, holds, grants>>
    BY <1>7 DEF Admin!CheckDeleteRole, Admin!CheckDeletePermission
  <2> DEFINE d == [by |-> q, op |-> "delete", row |-> x, since |-> {}]
  <2>3. d.by = q
    OBVIOUS
  <2> HIDE DEF d
  <2>4. pending' = pending \cup {d}
    BY <2>2 DEF d
  <2>5. \A p1, p2 \in pending' : p1.by = p2.by => p1 = p2
    BY <2>2, <2>3, <2>4 DEF Admin!Free, Admin!TypeOK
  <2> QED
    BY <2>1, <2>2, <2>5 DEF Admin!TypeOK, Admin!Exists
<1>8. ASSUME NEW q \in AdminRequest, NEW u \in User, Admin!CheckRegister(q, u)
      PROVE  Admin!TypeOK'
  <2>1. PICK r \in Role :
          pending' = pending \cup {[by |-> q, op |-> "register", user |-> u, row |-> r]}
    BY <1>8 DEF Admin!CheckRegister, Admin!Called
  <2>2. [by |-> q, op |-> "register", user |-> u, row |-> r] \in Admin!Registration
    BY DEF Admin!Registration
  <2> QED
    BY <1>8, <2>1, <2>2 DEF Admin!CheckRegister, Admin!Free, Admin!TypeOK, Admin!Exists
<1>9. ASSUME NEW p \in pending, Admin!DeleteRole(p) PROVE Admin!TypeOK'
  <2>1. /\ p.row \in Role
        /\ role' \in [Role -> Name \cup {Admin!None}]
        /\ role'[p.row] = Admin!None
        /\ \A j \in Role : j # p.row => role'[j] = role[j]
    BY <1>9 DEF Admin!DeleteRole, Admin!TypeOK
  <2>2. holds' \subseteq Enrolled \X {r \in Role : Admin!Exists(r)'}
    BY <1>9, <2>1 DEF Admin!DeleteRole, Admin!TypeOK, Admin!Exists
  <2>3. grants' \subseteq {r \in Role : Admin!Exists(r)'} \X permission
    BY <1>9, <2>1 DEF Admin!DeleteRole, Admin!Grantless, Admin!TypeOK, Admin!Exists
  <2> QED
    BY <1>9, <2>1, <2>2, <2>3 DEF Admin!DeleteRole, Admin!TypeOK, Admin!Exists
<1>10. ASSUME NEW p \in pending, Admin!DeletePermission(p) PROVE Admin!TypeOK'
  BY <1>10 DEF Admin!DeletePermission, Admin!TypeOK, Admin!Exists
<1>11. ASSUME NEW p \in pending, Admin!Drop(p) PROVE Admin!TypeOK'
  BY <1>11 DEF Admin!Drop, Admin!TypeOK, Admin!Exists
<1>12. ASSUME NEW p \in pending, Admin!Enrol(p) PROVE Admin!TypeOK'
  <2>1. p.user \in User /\ p.row \in Role
    BY <1>12 DEF Admin!Enrol, Admin!TypeOK, Admin!Deletion, Admin!Registration
  <2>2. <<p.user, p.row>> \in Admin!Pair
    BY <2>1 DEF Admin!Pair
  <2> QED
    BY <1>12, <2>1, <2>2, NoticingKeepsTypes DEF Admin!Enrol, Admin!TypeOK, Admin!Exists
<1> QED
  BY <1>1, <1>2, <1>3, <1>4, <1>5, <1>6, <1>7, <1>8, <1>9, <1>10, <1>11, <1>12
     DEF Admin!Next, Admin!Step

-----------------------------------------------------------------------------
\* What a login finds is names, whoever holds what.
LEMMA NamesOfRoles ==
  ASSUME NEW f \in [Role -> Name \cup {Admin!None}], NEW H,
         \A r \in Role, u \in User : <<u, r>> \in H => f[r] # Admin!None
  PROVE  [u \in User |-> {f[r] : r \in {h \in Role : <<u, h>> \in H}}] \in [User -> SUBSET Name]
OBVIOUS

\* After a step of the administrators too.
LEMMA NewClaims ==
  ASSUME Admin!TypeOK', claims' = Claims'
  PROVE  claims' \in [User -> SUBSET Name]
<1>1. /\ role' \in [Role -> Name \cup {Admin!None}]
      /\ \A r \in Role, u \in User : <<u, r>> \in holds' => role'[r] # Admin!None
  BY DEF Admin!TypeOK, Admin!Exists
<1> QED
  BY <1>1, NamesOfRoles DEF Claims

\* No step of a session enrols or removes anybody, or changes a claim.
LEMMA SessionsKeepEnrolled ==
  ASSUME TypeOK, Step
  PROVE  Enrolled' = Enrolled /\ claims' = claims
<1>1. ASSUME NEW p, ChangePassword(p) PROVE Enrolled' = Enrolled /\ claims' = claims
  <2>1. p.user \in User /\ password[p.user] > 0 /\ password[p.user] \in Nat
    BY <1>1 DEF ChangePassword, TypeOK, Login, Renewal, Change, Registered
  <2>2. \A u \in User : password'[u] = IF u = p.user THEN password[u] + 1 ELSE password[u]
    BY <1>1 DEF ChangePassword, TypeOK
  <2> QED
    BY <1>1, <2>1, <2>2 DEF Enrolled, Registered, ChangePassword
<1>2. CASE UNCHANGED <<password, claims>>
  BY <1>2 DEF Enrolled, Registered
<1> QED
  BY <1>1, <1>2
     DEF Step, CheckLogin, CheckUpdate, CheckRefresh, CheckReset, Finish, StoreLogin,
         AnswerRefresh, Drop, Logout, LogoutAll, ForgotPassword, Clock, TokenExpires,
         TicketExpires, LinkExpires

\* The types of one part survive the steps of the other, and every step is a step of the
\* sessions or changes claims.
LEMMA StepTypes ==
  ASSUME AccessTypeOK, [AccessNext]_accessVars
  PROVE  AccessTypeOK' /\ [Next]_vars
<1>0. TypeOK /\ Admin!TypeOK /\ claims = Claims
  BY DEF AccessTypeOK
<1>1. CASE Step /\ UNCHANGED roleVars
  <2>1. Enrolled' = Enrolled /\ claims' = claims /\ Claims' = Claims
    BY <1>0, <1>1, SessionsKeepEnrolled DEF Claims, roleVars
  <2>2. Admin!TypeOK'
    BY <1>0, <1>1, <2>1 DEF Admin!TypeOK, Admin!Exists, roleVars
  <2>3. [Next]_vars
    BY <1>1 DEF Next
  <2> QED
    BY <1>0, <2>1, <2>2, <2>3, StepTypeOK DEF AccessTypeOK
<1>2. CASE Administer
  <2>1. Admin!TypeOK' /\ claims' = Claims'
    BY <1>0, <1>2, AdminTypes DEF Administer, Admin!Next
  <2>2. claims' \in [User -> SUBSET Name]
    BY <2>1, NewClaims
  <2>3. [Next]_vars
    BY <1>2, <2>2 DEF Administer, Next, Reassign
  <2> QED
    BY <1>0, <2>1, <2>3, StepTypeOK DEF AccessTypeOK
<1>3. CASE SignUp
  <2>1. PICK p \in pending :
          p.op = "register" /\ Register(p.user) /\ Admin!Enrol(p) /\ claims' = Claims'
    BY <1>3 DEF SignUp
  <2>2. p.user \in User
    BY <1>0, <2>1 DEF Admin!TypeOK, Admin!Deletion, Admin!Registration
  <2>3. Admin!TypeOK'
    BY <1>0, <2>1, AdminTypes DEF Admin!Next
  <2>4. claims' \in [User -> SUBSET Name]
    BY <2>1, <2>3, NewClaims
  <2>5. [Next]_vars
    BY <2>1, <2>2, <2>4 DEF Next
  <2> QED
    BY <1>0, <2>1, <2>3, <2>5, StepTypeOK DEF AccessTypeOK
<1>4. CASE UNCHANGED accessVars
  <2>1. UNCHANGED vars /\ UNCHANGED roleVars /\ password' = password
    BY <1>4 DEF accessVars, vars, ownVars
  <2>2. Enrolled' = Enrolled /\ claims' = claims /\ Claims' = Claims
    BY <2>1 DEF Enrolled, Registered, Claims, roleVars, vars
  <2>3. Admin!TypeOK'
    BY <1>0, <2>1, <2>2 DEF Admin!TypeOK, Admin!Exists, roleVars
  <2> QED
    BY <1>0, <2>1, <2>2, <2>3, StepTypeOK DEF AccessTypeOK
<1> QED
  BY <1>1, <1>2, <1>3, <1>4 DEF AccessNext

\* In the beginning nobody has an account, and the roles are the seeded ones.
LEMMA InitialTypes == AccessInit => AccessTypeOK
<1> SUFFICES ASSUME AccessInit PROVE AccessTypeOK
  OBVIOUS
<1>1. TypeOK
  BY InitTypeOK DEF AccessInit
<1>2. PICK admin \in Role, general \in Role :
         /\ admin # general
         /\ role = [r \in Role |-> IF r = admin THEN Admin!SuperAdmin
                                   ELSE IF r = general THEN Admin!GeneralUser ELSE Admin!None]
         /\ permission \in SUBSET Permission
         /\ unused = (Role \ {admin, general}) \cup (Permission \ permission)
         /\ grants = {admin} \X permission
  BY DEF AccessInit, Admin!Init
<1>3. /\ role \in [Role -> Name \cup {Admin!None}]
      /\ \A r \in Role : Admin!Exists(r) <=> r \in {admin, general}
      /\ \A r1, r2 \in Role : Admin!Exists(r1) /\ role[r1] = role[r2] => r1 = r2
  BY <1>2 DEF Admin!Exists, Admin!SuperAdmin, Admin!GeneralUser, Admin!None
<1>4. Enrolled \subseteq User /\ holds = {} /\ pending = {}
  BY DEF AccessInit, Admin!Init, Enrolled
<1>5. claims = Claims
  <2>1. \A u \in User : {role[r] : r \in {h \in Role : <<u, h>> \in holds}} = {}
    BY <1>4
  <2> QED
    BY <2>1 DEF AccessInit, Init, Claims
<1> QED
  BY <1>1, <1>2, <1>3, <1>4, <1>5 DEF AccessTypeOK, Admin!TypeOK

\* Accounts, sessions, roles, permissions and their assignments have their types, no
\* assignment lacks its rows, and a login finds the names of roles there are.
THEOREM AccessTypeCorrect == AccessSpec => []AccessTypeOK
<1>1. AccessTypeOK /\ [AccessNext]_accessVars => AccessTypeOK'
  BY StepTypes
<1> QED
  BY <1>1, InitialTypes, PTL DEF AccessSpec

\* Seen from the sessions the administrators only change claims.
THEOREM AccessImplementsSessions == AccessSpec => ImplementsSessions
<1>1. AccessInit => Init
  BY DEF AccessInit
<1>2. AccessTypeOK /\ [AccessNext]_accessVars => [Next]_vars
  BY StepTypes
<1> QED
  BY <1>1, <1>2, AccessTypeCorrect, PTL DEF AccessSpec, ImplementsSessions, Spec

\* So the sessions drain here too, with the roles the database holds for claims.
THEOREM AccessSessionsDrain == AccessSpec => SessionsDrain
  BY AccessImplementsSessions, SessionsAreDrained, PTL DEF ImplementsSessions

-----------------------------------------------------------------------------
\* Access tokens come from logins and refreshes in progress.
LEMMA NewTickets ==
  ASSUME TypeOK, [Next]_vars, NEW t \in tickets', t \notin tickets
  PROVE  \E p \in Readers(t.user) : t = [user |-> t.user, names |-> p.names]
<1>1. \E p \in inflight : /\ p.op \in {"login", "refresh"}
                          /\ t = [user |-> p.user, names |-> p.names]
  BY DEF Next, Step, CheckLogin, CheckUpdate, CheckRefresh, CheckReset, Finish, StoreLogin,
         AnswerRefresh, ChangePassword, Drop, Logout, LogoutAll, ForgotPassword, Clock,
         TokenExpires, TicketExpires, LinkExpires, Register, Reassign, ownVars, vars
<1> QED
  BY <1>1 DEF Readers

\* A login or refresh that begins reads the roles there are.
LEMMA NewReaders ==
  ASSUME TypeOK, [Next]_vars, NEW p \in inflight', p \notin inflight,
         p.op \in {"login", "refresh"}
  PROVE  p.names = claims[p.user]
BY DEF Next, Step, CheckLogin, CheckUpdate, CheckRefresh, CheckReset, Finish, StoreLogin,
       AnswerRefresh, ChangePassword, Drop, Logout, LogoutAll, ForgotPassword, Clock,
       TokenExpires, TicketExpires, LinkExpires, Register, Reassign, ownVars, vars

\* Whoever the database grants nothing passes the guard with old access tokens only.
THEOREM BypassesDrain == AccessSpec => BypassDrains
<1>1. ASSUME AccessTypeOK, [AccessNext]_accessVars
      PROVE  \A u \in User, x \in Permission :
                Stripped(u, x) /\ Stripped(u, x)' =>
                    /\ Passing(u, x)' \subseteq
                          Passing(u, x) \cup {[user |-> u, names |-> p.names] : p \in Readers(u)}
                    /\ \A p \in Readers(u)' \ Readers(u) : Admin!SuperAdmin \notin p.names
  <2> SUFFICES ASSUME NEW u \in User, NEW x \in Permission, Stripped(u, x), Stripped(u, x)'
               PROVE  /\ Passing(u, x)' \subseteq
                            Passing(u, x) \cup {[user |-> u, names |-> p.names] : p \in Readers(u)}
                      /\ \A p \in Readers(u)' \ Readers(u) : Admin!SuperAdmin \notin p.names
    OBVIOUS
  <2>1. TypeOK /\ [Next]_vars
    BY <1>1, StepTypes DEF AccessTypeOK
  <2>2. ASSUME NEW t \in Passing(u, x)', t \notin Passing(u, x)
        PROVE  \E p \in Readers(u) : t = [user |-> u, names |-> p.names]
    <3>1. t \in tickets' /\ t.user = u /\ Admin!SuperAdmin \in t.names
      BY <2>2 DEF Passing, MayPass, Stripped
    <3>2. t \notin tickets
      BY <2>2, <3>1 DEF Passing, MayPass
    <3> QED
      BY <2>1, <3>1, <3>2, NewTickets
  <2>3. ASSUME NEW p \in Readers(u)', p \notin Readers(u)
        PROVE  Admin!SuperAdmin \notin p.names
    <3>1. p \in inflight' /\ p \notin inflight /\ p.op \in {"login", "refresh"} /\ p.user = u
      BY <2>3 DEF Readers
    <3> QED
      BY <2>1, <3>1, NewReaders DEF Stripped
  <2> QED
    BY <2>2, <2>3
<1> QED
  BY <1>1, AccessTypeCorrect, PTL DEF AccessSpec, BypassDrains

-----------------------------------------------------------------------------
\* A deletion in progress knows of every assignment of its row: it had counted none.
Noticed ==
    \A p \in pending, pair \in holds \cup grants :
        p.op = "delete" /\ pair[2] = p.row => pair \in p.since

\* An assignment is made known to the deletions of its row, and taken from none.
LEMMA NoticingNotices ==
  ASSUME Admin!TypeOK, Noticed, NEW new \in Admin!Pair, NEW d \in Admin!Noticing(new),
         d.op = "delete", NEW pair \in holds \cup grants \cup {new}, pair[2] = d.row
  PROVE  pair \in d.since
<1>1. PICK p \in pending : d = IF p.op = "delete" /\ p.row \in {new[1], new[2]}
                               THEN [p EXCEPT !.since = @ \cup {new}] ELSE p
  BY DEF Admin!Noticing
<1>2. p \in Admin!Deletion \cup Admin!Registration
  BY DEF Admin!TypeOK
<1>3. CASE p.op = "delete" /\ p.row \in {new[1], new[2]}
  <2>1. d.row = p.row /\ d.since = p.since \cup {new}
    BY <1>1, <1>2, <1>3 DEF Admin!Deletion, Admin!Registration
  <2> QED
    BY <1>3, <2>1 DEF Noticed
<1>4. CASE ~(p.op = "delete" /\ p.row \in {new[1], new[2]})
  BY <1>1, <1>4 DEF Noticed
<1> QED
  BY <1>3, <1>4

LEMMA StepNoticed ==
  ASSUME Admin!TypeOK, Noticed, Admin!Next
  PROVE  Noticed'
<1>1. ASSUME NEW new \in Admin!Pair, holds' \cup grants' \subseteq holds \cup grants \cup {new},
             pending' \subseteq Admin!Noticing(new)
      PROVE  Noticed'
  BY <1>1, NoticingNotices DEF Noticed
<1>2. ASSUME NEW u \in User, NEW r \in Role, Admin!Assign(u, r) PROVE Noticed'
  BY <1>1, <1>2 DEF Admin!Assign, Admin!Pair
<1>3. ASSUME NEW r \in Role, NEW x \in Permission, Admin!Grant(r, x) PROVE Noticed'
  BY <1>1, <1>3 DEF Admin!Grant, Admin!Pair
<1>4. ASSUME NEW p \in pending, Admin!Enrol(p) PROVE Noticed'
  <2>1. <<p.user, p.row>> \in Admin!Pair
    BY <1>4 DEF Admin!Enrol, Admin!TypeOK, Admin!Deletion, Admin!Registration, Admin!Pair
  <2> QED
    BY <1>1, <1>4, <2>1 DEF Admin!Enrol
<1>5. ASSUME NEW q \in AdminRequest, NEW r \in Role, Admin!CheckDeleteRole(q, r) PROVE Noticed'
  <2>1. \A pair \in holds \cup grants : pair[2] # r
    BY <1>5 DEF Admin!CheckDeleteRole, Admin!RoleInUse, Admin!Held, Admin!TypeOK
  <2>2. /\ pending' = pending \cup {[by |-> q, op |-> "delete", row |-> r, since |-> {}]}
        /\ UNCHANGED <<holds, grants>>
    BY <1>5 DEF Admin!CheckDeleteRole
  <2> QED
    BY <2>1, <2>2 DEF Noticed
<1>6. ASSUME NEW q \in AdminRequest, NEW x \in Permission, Admin!CheckDeletePermission(q, x)
      PROVE  Noticed'
  <2>1. \A pair \in holds \cup grants : pair[2] # x
    BY <1>6 DEF Admin!CheckDeletePermission, Admin!TypeOK
  <2>2. /\ pending' = pending \cup {[by |-> q, op |-> "delete", row |-> x, since |-> {}]}
        /\ UNCHANGED <<holds, grants>>
    BY <1>6 DEF Admin!CheckDeletePermission
  <2> QED
    BY <2>1, <2>2 DEF Noticed
<1>7. ASSUME NEW q \in AdminRequest, NEW u \in User, Admin!CheckRegister(q, u) PROVE Noticed'
  BY <1>7 DEF Admin!CheckRegister, Noticed
<1>8. ASSUME holds' \cup grants' \subseteq holds \cup grants, pending' \subseteq pending
      PROVE  Noticed'
  BY <1>8 DEF Noticed
<1> QED
  BY <1>2, <1>3, <1>4, <1>5, <1>6, <1>7, <1>8
     DEF Admin!Next, Admin!Step, Admin!CreateRole, Admin!Rename, Admin!Revoke, Admin!Ungrant,
         Admin!CreatePermission, Admin!DeleteRole, Admin!Grantless, Admin!DeletePermission,
         Admin!Drop

\* Deletions know of every assignment of their row.
LEMMA AlwaysNoticed == AccessSpec => []Noticed
<1>1. AccessInit => Noticed
  BY DEF AccessInit, Admin!Init, Noticed
<1>2. AccessTypeOK /\ Noticed /\ [AccessNext]_accessVars => Noticed'
  <2> SUFFICES ASSUME AccessTypeOK, Noticed, [AccessNext]_accessVars PROVE Noticed'
    OBVIOUS
  <2>1. ASSUME UNCHANGED roleVars PROVE Noticed'
    BY <2>1 DEF roleVars, Noticed
  <2>2. ASSUME Admin!Next PROVE Noticed'
    BY <2>2, StepNoticed DEF AccessTypeOK
  <2> QED
    BY <2>1, <2>2 DEF AccessNext, Administer, SignUp, Admin!Next, accessVars
<1> QED
  BY <1>1, <1>2, AccessTypeCorrect, PTL DEF AccessSpec

\* Deleting a role or a permission takes along only assignments made after the deletion
\* had found none.
THEOREM OnlyLateAssignmentsAreLost == AccessSpec => LostAssignmentsWereLate
<1>1. ASSUME AccessTypeOK, Noticed, [AccessNext]_accessVars
      PROVE  \A pair \in (holds \ holds') \cup (grants \ grants') :
               \A r \in Role, x \in Permission :
                 /\ pair[2] = r /\ Admin!Exists(r) /\ ~Admin!Exists(r)' =>
                       \E p \in pending \ pending' : p.op = "delete" /\ p.row = r /\ pair \in p.since
                 /\ pair[2] = x /\ x \in permission \ permission' =>
                       \E p \in pending \ pending' : p.op = "delete" /\ p.row = x /\ pair \in p.since
  <2>1. ASSUME NEW r \in Role, Admin!Exists(r), ~Admin!Exists(r)'
        PROVE  \E p \in pending \ pending' : p.op = "delete" /\ p.row = r
    <3>1. ASSUME NEW p \in pending, Admin!DeleteRole(p) PROVE p \notin pending' /\ p.op = "delete" /\ p.row = r
      BY <1>1, <2>1, <3>1 DEF Admin!DeleteRole, AccessTypeOK, Admin!TypeOK, Admin!Exists
    <3>2. ASSUME NEW j \in Role, NEW n \in Name, Admin!CreateRole(j, n) \/ Admin!Rename(j, n)
          PROVE  FALSE
      BY <1>1, <2>1, <3>2 DEF Admin!CreateRole, Admin!Rename, AccessTypeOK, Admin!TypeOK, Admin!Exists
    <3>3. role' # role
      BY <2>1 DEF Admin!Exists
    <3> QED
      BY <1>1, <3>1, <3>2, <3>3
         DEF AccessNext, accessVars, roleVars, Administer, SignUp, Admin!Step, Admin!Assign, Admin!Revoke, Admin!Grant,
             Admin!Ungrant, Admin!CreatePermission, Admin!CheckDeleteRole,
             Admin!CheckDeletePermission, Admin!CheckRegister, Admin!DeletePermission,
             Admin!Drop, Admin!Enrol
  <2>2. ASSUME NEW x \in Permission, x \in permission, x \notin permission'
        PROVE  \E p \in pending \ pending' : p.op = "delete" /\ p.row = x
    BY <1>1, <2>2
       DEF AccessNext, accessVars, roleVars, Administer, SignUp, Admin!Step, Admin!CreateRole, Admin!Rename,
           Admin!Assign, Admin!Revoke, Admin!Grant, Admin!Ungrant, Admin!CreatePermission,
           Admin!CheckDeleteRole, Admin!CheckDeletePermission, Admin!CheckRegister,
           Admin!DeleteRole, Admin!DeletePermission, Admin!Drop, Admin!Enrol
  <2> QED
    BY <1>1, <2>1, <2>2 DEF Noticed
<1> QED
  BY <1>1, AlwaysNoticed, AccessTypeCorrect, PTL DEF AccessSpec, LostAssignmentsWereLate,
     Admin!LostAssignmentsWereLate, Admin!vars, Admin!ownVars, accessVars, roleVars
=============================================================================
