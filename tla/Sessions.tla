------------------------------ MODULE Sessions ------------------------------
(***************************************************************************)
(* Accounts and sessions (auth.service.ts, jwt-auth.guard.ts): passwords,   *)
(* refresh tokens, access tokens and reset links.  The names of the roles a *)
(* user holds are kept elsewhere (Roles); here they may change at any step. *)
(*                                                                         *)
(* bcrypt salts, so every change makes a hash that was never there before:  *)
(* a password is the number of its change.  A handler verifies a password   *)
(* it has read and writes only later; nothing ties the write to the hash.   *)
(*                                                                         *)
(* Left out: wrong passwords and malformed tokens (rejected before anything *)
(* is written), deletedAt of users (nothing sets it), mails that fail (the  *)
(* error is swallowed), devices and addresses noted with a refresh token.   *)
(***************************************************************************)
EXTENDS Naturals

CONSTANTS
    User,       \* e-mail addresses; unique in users
    Name,       \* names of roles
    Token,      \* bound: refresh tokens alive at once
    Request,    \* HTTP requests that may be in progress at once
    MaxVersion  \* bound: passwords one user can have had

ASSUME SessionsAssumption == MaxVersion \in Nat \ {0}

VARIABLES
    password,   \* password[u]: the number of the password of u; 0 when u has no account
    token,      \* token[k]: a refresh token neither revoked nor expired; else Blank
    tickets,    \* access tokens that have not expired
    links,      \* reset links that have not expired
    inflight,   \* requests between the read and the write
    claims      \* claims[u]: the names of the roles u holds

ownVars == <<password, token, tickets, links, inflight>>
vars == <<ownVars, claims>>

Blank == [live |-> FALSE]

Refresh == [live : {TRUE}, user : User, version : 1..MaxVersion]
Ticket == [user : User, names : SUBSET Name]
Link == [user : User, version : 1..MaxVersion]

\* version: the password the request has verified; names: the roles it has read.
Login == [by : Request, op : {"login"}, user : User, version : 1..MaxVersion, names : SUBSET Name]
Renewal == [by : Request, op : {"refresh"}, user : User, names : SUBSET Name]
Change == [by : Request, op : {"update", "reset"}, user : User, version : 1..MaxVersion]

Registered(u) == password[u] > 0
Live(k) == token[k].live
Free(q) == \A p \in inflight : p.by # q
SignedIn(u) == \E t \in tickets : t.user = u

\* The types of the variables; whatever is signed or stored belongs to an account and
\* rests on a password the account has or had.
TypeOK ==
    /\ password \in [User -> 0..MaxVersion]
    /\ token \in [Token -> Refresh \cup {Blank}]
    /\ tickets \subseteq Ticket
    /\ links \subseteq Link
    /\ inflight \subseteq Login \cup Renewal \cup Change
    /\ \A p1, p2 \in inflight : p1.by = p2.by => p1 = p2
    /\ claims \in [User -> SUBSET Name]
    /\ \A k \in Token : Live(k) => token[k].version <= password[token[k].user]
    /\ \A l \in links : l.version <= password[l.user]
    /\ \A t \in tickets : Registered(t.user)
    /\ \A p \in inflight : Registered(p.user)
    /\ \A p \in inflight : p.op # "refresh" => p.version <= password[p.user]

Init ==
    /\ password = [u \in User |-> 0]
    /\ token = [k \in Token |-> Blank]
    /\ tickets = {} /\ links = {}
    /\ inflight = {}
    /\ claims = [u \in User |-> {}]

-----------------------------------------------------------------------------
\* Accounts.

\* The transaction that creates the account also gives it a role (Roles).
Register(u) ==
    /\ ~Registered(u)
    /\ password' = [password EXCEPT ![u] = 1]
    /\ UNCHANGED <<token, tickets, links, inflight>>

\* One lookup reads the hash and the roles; the hash is compared.
CheckLogin(q, u) ==
    /\ Free(q) /\ Registered(u)
    /\ inflight' = inflight \cup {[by |-> q, op |-> "login", user |-> u,
                                   version |-> password[u], names |-> claims[u]]}
    /\ UNCHANGED <<password, token, tickets, links, claims>>

\* The refresh token is stored whatever has become of the password since.
StoreLogin(p, k) ==
    /\ p \in inflight /\ p.op = "login"
    /\ ~Live(k)
    /\ token' = [token EXCEPT ![k] = [live |-> TRUE, user |-> p.user, version |-> p.version]]
    /\ tickets' = tickets \cup {[user |-> p.user, names |-> p.names]}
    /\ inflight' = inflight \ {p}
    /\ UNCHANGED <<password, links, claims>>

\* Mutant of CheckRefresh: the new access token repeats the names of an old one.
CheckRefreshFromTicket(q, k) ==
    /\ Free(q) /\ Live(k)
    /\ \E t \in tickets :
          /\ t.user = token[k].user
          /\ inflight' = inflight \cup {[by |-> q, op |-> "refresh", user |-> t.user,
                                         names |-> t.names]}
    /\ UNCHANGED <<password, token, tickets, links, claims>>

\* A refresh token is not used up: it draws access tokens until it is revoked or expires.
CheckRefresh(q, k) ==
    /\ Free(q) /\ Live(k)
    /\ inflight' = inflight \cup {[by |-> q, op |-> "refresh", user |-> token[k].user,
                                   names |-> claims[token[k].user]]}
    /\ UNCHANGED <<password, token, tickets, links, claims>>

\* lastUsedAt is written and the access token returned; revocation is not looked at again.
AnswerRefresh(p) ==
    /\ p \in inflight /\ p.op = "refresh"
    /\ tickets' = tickets \cup {[user |-> p.user, names |-> p.names]}
    /\ inflight' = inflight \ {p}
    /\ UNCHANGED <<password, token, links, claims>>

Logout(k) ==
    /\ Live(k)
    /\ token' = [token EXCEPT ![k] = Blank]
    /\ UNCHANGED <<password, tickets, links, inflight, claims>>

\* Mutant of Revoked: only one device is logged out.
RevokedOne(u) ==
    LET one == CHOOSE k \in Token : Live(k) /\ token[k].user = u
    IN  IF \E k \in Token : Live(k) /\ token[k].user = u
        THEN [token EXCEPT ![one] = Blank] ELSE token

\* updateMany: every refresh token of u that is not revoked yet.
Revoked(u) ==
    [k \in Token |-> IF Live(k) /\ token[k].user = u THEN Blank ELSE token[k]]

LogoutAll(u) ==
    /\ SignedIn(u)
    /\ token' = Revoked(u)
    /\ UNCHANGED <<password, tickets, links, inflight, claims>>

-----------------------------------------------------------------------------
\* Changes of the password.

ForgotPassword(u) ==
    /\ Registered(u)
    /\ links' = links \cup {[user |-> u, version |-> password[u]]}
    /\ UNCHANGED <<password, token, tickets, inflight, claims>>

\* Mutant of Verifies: the link is signed without the hash in the secret.
VerifiesAlways(l) == TRUE

\* The hash the link was made from is part of the secret it is verified with.
Verifies(l) == l.version = password[l.user]

CheckReset(q, l) ==
    /\ Free(q) /\ l \in links
    /\ Verifies(l)
    /\ inflight' = inflight \cup {[by |-> q, op |-> "reset", user |-> l.user,
                                   version |-> l.version]}
    /\ UNCHANGED <<password, token, tickets, links, claims>>

CheckUpdate(q, u) ==
    /\ Free(q) /\ Registered(u) /\ SignedIn(u)
    /\ inflight' = inflight \cup {[by |-> q, op |-> "update", user |-> u,
                                   version |-> password[u]]}
    /\ UNCHANGED <<password, token, tickets, links, claims>>

\* One transaction sets the hash, by id alone, and revokes the refresh tokens.
ChangePassword(p) ==
    /\ p \in inflight /\ p.op \in {"update", "reset"}
    /\ password[p.user] < MaxVersion
    /\ password' = [password EXCEPT ![p.user] = @ + 1]
    /\ token' = Revoked(p.user)
    /\ inflight' = inflight \ {p}
    /\ UNCHANGED <<tickets, links, claims>>

\* A request dies before its write.
Drop(p) ==
    /\ p \in inflight
    /\ inflight' = inflight \ {p}
    /\ UNCHANGED <<password, token, tickets, links, claims>>

-----------------------------------------------------------------------------
\* The clock.

TokenExpires(k) == Logout(k)

TicketExpires(t) ==
    /\ t \in tickets
    /\ tickets' = tickets \ {t}
    /\ UNCHANGED <<password, token, links, inflight, claims>>

LinkExpires(l) ==
    /\ l \in links
    /\ links' = links \ {l}
    /\ UNCHANGED <<password, token, tickets, inflight, claims>>

-----------------------------------------------------------------------------
\* Every request comes to an end: it writes, or it dies.
Finish(q) ==
    \E p \in inflight :
        /\ p.by = q
        /\ (\E k \in Token : StoreLogin(p, k)) \/ AnswerRefresh(p) \/ ChangePassword(p) \/ Drop(p)

Clock ==
    \/ \E k \in Token : TokenExpires(k)
    \/ \E t \in tickets : TicketExpires(t)
    \/ \E l \in links : LinkExpires(l)

Step ==
    \/ \E q \in Request, u \in User : CheckLogin(q, u) \/ CheckUpdate(q, u)
    \/ \E q \in Request, k \in Token : CheckRefresh(q, k)
    \/ \E q \in Request, l \in links : CheckReset(q, l)
    \/ \E q \in Request : Finish(q)
    \/ \E k \in Token : Logout(k)
    \/ \E u \in User : LogoutAll(u) \/ ForgotPassword(u)
    \/ Clock

\* Roles are assigned, revoked, renamed and deleted.
Reassign == claims' \in [User -> SUBSET Name] /\ UNCHANGED ownVars

Next ==
    \/ Step
    \/ \E u \in User : Register(u) /\ claims' \in [User -> SUBSET Name]
    \/ Reassign

Spec == Init /\ [][Next]_vars

\* The clock ends every access token, and every request ends.
FairSpec ==
    /\ Spec
    /\ \A t \in Ticket : WF_vars(TicketExpires(t))
    /\ \A q \in Request : WF_vars(Finish(q))

-----------------------------------------------------------------------------
\* Logins and changes in progress that rest on a password the user no longer has.
Late == {p \in inflight : p.op # "refresh" /\ p.version < password[p.user]}

Outdated(k) == Live(k) /\ token[k].version < password[token[k].user]

\* Hazard (login, updatePassword and resetPassword overlapping): after a change of the
\* password no session rests on an older one, but for logins that had already compared
\* the older one, which store theirs afterwards; and no login, no change and no reset
\* link starts out from an older password.
SessionsDrain ==
    [][ /\ Late' \subseteq inflight
        /\ \A k \in Token : Outdated(k)' =>
              \/ Outdated(k)
              \/ \E p \in Late \ inflight' :
                    /\ p.op = "login"
                    /\ token'[k] = [live |-> TRUE, user |-> p.user, version |-> p.version]
      ]_vars

\* Hazard (claims drawn from a session that outlives the role): once a user has lost the
\* role n for good, a time comes from which no access token says n, although the refresh
\* token may live on and draw new ones.
ClaimsFade ==
    \A u \in User, n \in Name :
        <>[](n \notin claims[u]) => <>[](\A t \in tickets : t.user = u => n \notin t.names)
=============================================================================
