------------------------------- MODULE Roles -------------------------------
(***************************************************************************)
(* Roles and permissions (roles.service.ts, permissions.service.ts, the     *)
(* role a registration gives in auth.service.ts, permissions.guard.ts).     *)
(*                                                                         *)
(* A role or permission is deleted by id after its assignments have been    *)
(* counted; the foreign keys take along what was assigned in between.       *)
(* Assigning, revoking, creating and renaming are single writes: the unique *)
(* and the foreign keys decide, the lookups before only reject earlier.     *)
(*                                                                         *)
(* Left out: descriptions, and the permission each endpoint asks for.       *)
(***************************************************************************)
CONSTANTS
    User,
    Role, Permission,   \* primary keys
    Name,               \* names of roles
    Request             \* HTTP requests that may be in progress at once

VARIABLES
    enrolled,   \* users with a row
    role,       \* role[r]: the name of the role r; None when there is no such row
    permission, \* permissions with a row
    unused,     \* keys not handed out yet
    holds,      \* user_roles
    grants,     \* role_permissions
    pending     \* requests between their checks and their write

ownVars == <<role, permission, unused, holds, grants, pending>>
vars == <<enrolled, ownVars>>

None == "none"
SuperAdmin == "SUPER_ADMIN"
GeneralUser == "GENERAL_USER"

Pair == (User \X Role) \cup (Role \X Permission)

\* since: history, what has been assigned to the row since it was counted.
Deletion == [by : Request, op : {"delete"}, row : Role \cup Permission, since : SUBSET Pair]
Registration == [by : Request, op : {"register"}, user : User, row : Role]

Exists(r) == role[r] # None
Called(n) == {r \in Role : role[r] = n}
Free(q) == \A p \in pending : p.by # q
Held(u) == {r \in Role : <<u, r>> \in holds}

\* The types of the variables, the foreign keys of the assignments, and the unique name.
TypeOK ==
    /\ enrolled \subseteq User
    /\ role \in [Role -> Name \cup {None}]
    /\ permission \subseteq Permission
    /\ unused \subseteq {r \in Role : ~Exists(r)} \cup (Permission \ permission)
    /\ holds \subseteq enrolled \X {r \in Role : Exists(r)}
    /\ grants \subseteq {r \in Role : Exists(r)} \X permission
    /\ pending \subseteq Deletion \cup Registration
    /\ \A p1, p2 \in pending : p1.by = p2.by => p1 = p2
    /\ \A r1, r2 \in Role : Exists(r1) /\ role[r1] = role[r2] => r1 = r2

\* The seeded database: the roles the code knows by name, some permissions, all of them
\* granted to SUPER_ADMIN.
Init ==
    /\ enrolled = {}
    /\ \E admin, general \in Role :
          /\ admin # general
          /\ role = [r \in Role |-> IF r = admin THEN SuperAdmin
                                    ELSE IF r = general THEN GeneralUser ELSE None]
          /\ permission \in SUBSET Permission
          /\ unused = (Role \ {admin, general}) \cup (Permission \ permission)
          /\ grants = {admin} \X permission
    /\ holds = {}
    /\ pending = {}

-----------------------------------------------------------------------------
\* Every deletion in progress of one of the two rows learns of the new assignment.
Noticing(pair) ==
    {IF p.op = "delete" /\ p.row \in {pair[1], pair[2]}
     THEN [p EXCEPT !.since = @ \cup {pair}] ELSE p : p \in pending}

CreateRole(r, n) ==
    /\ r \in unused /\ Called(n) = {}
    /\ role' = [role EXCEPT ![r] = n]
    /\ unused' = unused \ {r}
    /\ UNCHANGED <<enrolled, permission, holds, grants, pending>>

Rename(r, n) ==
    /\ Exists(r) /\ Called(n) = {}
    /\ role' = [role EXCEPT ![r] = n]
    /\ UNCHANGED <<enrolled, permission, unused, holds, grants, pending>>

\* Mutant of RoleInUse: the assignments are not looked up.
RoleInUseNever(r) == FALSE

RoleInUse(r) == \E u \in User : r \in Held(u)

CheckDeleteRole(q, r) ==
    /\ Free(q) /\ Exists(r) /\ ~RoleInUse(r)
    /\ pending' = pending \cup {[by |-> q, op |-> "delete", row |-> r, since |-> {}]}
    /\ UNCHANGED <<enrolled, role, permission, unused, holds, grants>>

\* Mutant of Grantless: the permissions of a deleted role stay.
GrantlessNot(r) == grants

\* The cascade of rolePermissions.
Grantless(r) == grants \ ({r} \X Permission)

\* When the row has gone since, the write fails: nothing changes.
DeleteRole(p) ==
    /\ p \in pending /\ p.op = "delete" /\ p.row \in Role
    /\ role' = [role EXCEPT ![p.row] = None]
    /\ holds' = holds \ (User \X {p.row})
    /\ grants' = Grantless(p.row)
    /\ pending' = pending \ {p}
    /\ UNCHANGED <<enrolled, permission, unused>>

Assign(u, r) ==
    /\ u \in enrolled /\ Exists(r) /\ r \notin Held(u)
    /\ holds' = holds \cup {<<u, r>>}
    /\ pending' = Noticing(<<u, r>>)
    /\ UNCHANGED <<enrolled, role, permission, unused, grants>>

Revoke(u, r) ==
    /\ r \in Held(u)
    /\ holds' = holds \ {<<u, r>>}
    /\ UNCHANGED <<enrolled, role, permission, unused, grants, pending>>

CreatePermission(x) ==
    /\ x \in unused /\ x \in Permission
    /\ permission' = permission \cup {x}
    /\ unused' = unused \ {x}
    /\ UNCHANGED <<enrolled, role, holds, grants, pending>>

CheckDeletePermission(q, x) ==
    /\ Free(q) /\ x \in permission
    /\ ~\E r \in Role : <<r, x>> \in grants
    /\ pending' = pending \cup {[by |-> q, op |-> "delete", row |-> x, since |-> {}]}
    /\ UNCHANGED <<enrolled, role, permission, unused, holds, grants>>

DeletePermission(p) ==
    /\ p \in pending /\ p.op = "delete" /\ p.row \in Permission
    /\ permission' = permission \ {p.row}
    /\ grants' = grants \ (Role \X {p.row})
    /\ pending' = pending \ {p}
    /\ UNCHANGED <<enrolled, role, unused, holds>>

Grant(r, x) ==
    /\ Exists(r) /\ x \in permission /\ <<r, x>> \notin grants
    /\ grants' = grants \cup {<<r, x>>}
    /\ pending' = Noticing(<<r, x>>)
    /\ UNCHANGED <<enrolled, role, permission, unused, holds>>

Ungrant(r, x) ==
    /\ <<r, x>> \in grants
    /\ grants' = grants \ {<<r, x>>}
    /\ UNCHANGED <<enrolled, role, permission, unused, holds, pending>>

-----------------------------------------------------------------------------
\* Registration: the default role is looked up by its name ...
CheckRegister(q, u) ==
    /\ Free(q) /\ u \notin enrolled
    /\ \E r \in Called(GeneralUser) :
          pending' = pending \cup {[by |-> q, op |-> "register", user |-> u, row |-> r]}
    /\ UNCHANGED <<enrolled, role, permission, unused, holds, grants>>

\* ... and one transaction inserts the user and the assignment by the id of that role.
Enrol(p) ==
    /\ p \in pending /\ p.op = "register"
    /\ p.user \notin enrolled /\ Exists(p.row)
    /\ enrolled' = enrolled \cup {p.user}
    /\ holds' = holds \cup {<<p.user, p.row>>}
    /\ pending' = Noticing(<<p.user, p.row>>) \ {p}
    /\ UNCHANGED <<role, permission, unused, grants>>

\* A request dies between its checks and its write, or the database refuses the write.
Drop(p) ==
    /\ p \in pending
    /\ pending' = pending \ {p}
    /\ UNCHANGED <<enrolled, role, permission, unused, holds, grants>>

-----------------------------------------------------------------------------
Step ==
    \/ \E r \in Role, n \in Name : CreateRole(r, n) \/ Rename(r, n)
    \/ \E u \in User, r \in Role : Assign(u, r) \/ Revoke(u, r)
    \/ \E r \in Role, x \in Permission : Grant(r, x) \/ Ungrant(r, x)
    \/ \E x \in Permission : CreatePermission(x)
    \/ \E q \in Request, r \in Role : CheckDeleteRole(q, r)
    \/ \E q \in Request, x \in Permission : CheckDeletePermission(q, x)
    \/ \E q \in Request, u \in User : CheckRegister(q, u)
    \/ \E p \in pending : DeleteRole(p) \/ DeletePermission(p) \/ Drop(p)

Next == Step \/ \E p \in pending : Enrol(p)

Spec == Init /\ [][Next]_vars

-----------------------------------------------------------------------------
\* What the permissions guard finds in the database for the user u.
HasPermission(u, x) == \E r \in Held(u) : <<r, x>> \in grants

\* Hazard (delete racing assign): deleting a role or a permission takes along only
\* assignments made after the deletion had found none.
LostAssignmentsWereLate ==
    [][ \A pair \in (holds \ holds') \cup (grants \ grants') :
            \A r \in Role, x \in Permission :
                /\ pair[2] = r /\ Exists(r) /\ ~Exists(r)' =>
                      \E p \in pending \ pending' : p.op = "delete" /\ p.row = r /\ pair \in p.since
                /\ pair[2] = x /\ x \in permission \ permission' =>
                      \E p \in pending \ pending' : p.op = "delete" /\ p.row = x /\ pair \in p.since
      ]_vars
=============================================================================
