------------------------------- MODULE Access -------------------------------
(***************************************************************************)
(* Who may do what: the sessions (Sessions) with the roles and permissions  *)
(* (Roles) behind their claims.  An access token carries the names of the   *)
(* roles as they were read when it was drawn; the permissions guard         *)
(* believes it when it says SUPER_ADMIN and otherwise asks the database.    *)
(***************************************************************************)
EXTENDS Sessions

CONSTANTS Role, Permission, AdminRequest    \* of Roles

VARIABLES role, permission, unused, holds, grants, pending      \* of Roles

roleVars == <<role, permission, unused, holds, grants, pending>>
accessVars == <<vars, roleVars>>

Enrolled == {u \in User : Registered(u)}

\* What login and refresh read of the two tables of roles.
Claims == [u \in User |-> {role[r] : r \in {h \in Role : <<u, h>> \in holds}}]

Admin == INSTANCE Roles WITH Request <- AdminRequest, enrolled <- Enrolled

\* The two roles the code knows by name.
ASSUME AccessAssumption ==
    {Admin!SuperAdmin, Admin!GeneralUser} \subseteq Name /\ Admin!None \notin Name

\* The keys of roles and permissions are told apart (they are of two tables).
ASSUME KeysDiffer == Role \cap Permission = {}

AccessInit == Init /\ Admin!Init

Administer == UNCHANGED ownVars /\ Admin!Step /\ claims' = Claims'

\* A registration moves both parts: the account and its first role are one transaction.
SignUp ==
    \E p \in pending :
        p.op = "register" /\ Register(p.user) /\ Admin!Enrol(p) /\ claims' = Claims'

AccessNext ==
    \/ Step /\ UNCHANGED roleVars
    \/ Administer
    \/ SignUp

AccessSpec == AccessInit /\ [][AccessNext]_accessVars

-----------------------------------------------------------------------------
\* The types of both parts; the names a login finds are those of roles there are.
AccessTypeOK == TypeOK /\ Admin!TypeOK /\ claims = Claims

\* Mutant of MayPass: the guard looks up the permissions of the names in the token.
MayPassByName(t, x) ==
    \/ Admin!SuperAdmin \in t.names
    \/ \E r \in Role : role[r] \in t.names /\ <<r, x>> \in grants

\* PermissionsGuard.canActivate for a handler that asks for the permission x.
MayPass(t, x) == Admin!SuperAdmin \in t.names \/ Admin!HasPermission(t.user, x)

\* Nothing the database holds lets u pass.
Stripped(u, x) == Admin!SuperAdmin \notin claims[u] /\ ~Admin!HasPermission(u, x)

Passing(u, x) == {t \in tickets : t.user = u /\ MayPass(t, x)}

\* Logins and refreshes of u in progress: they have read the roles and have not answered.
Readers(u) == {p \in inflight : p.op \in {"login", "refresh"} /\ p.user = u}

\* Hazard (a stale claim): while the database grants a user nothing, the access tokens
\* that still pass the guard only become fewer, save for those drawn by a login or
\* a refresh that had read the roles before; and none reads them after.
BypassDrains ==
    [][ \A u \in User, x \in Permission :
            Stripped(u, x) /\ Stripped(u, x)' =>
                /\ Passing(u, x)' \subseteq
                      Passing(u, x) \cup {[user |-> u, names |-> p.names] : p \in Readers(u)}
                /\ \A p \in Readers(u)' \ Readers(u) : Admin!SuperAdmin \notin p.names
      ]_accessVars

\* The assignments a deletion takes along (Roles), in the whole.
LostAssignmentsWereLate == Admin!LostAssignmentsWereLate

\* Seen from the sessions the administrators only change claims: what holds of Sessions
\* whatever the claims do, holds here.
ImplementsSessions == Spec
=============================================================================
