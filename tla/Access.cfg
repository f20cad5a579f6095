SPECIFICATION AccessSpec
CONSTANTS
    User = {u1}
    Name = {"SUPER_ADMIN", "GENERAL_USER"}
    Role = {r1, r2, r3}
    Permission = {x1}
    Token = {k1}
    Request = {q1}
    AdminRequest = {c1}
    MaxVersion = 1
SYMMETRY Symmetry
INVARIANTS AccessTypeOK
PROPERTIES LostAssignmentsWereLate BypassDrains
CHECK_DEADLOCK FALSE
