SPECIFICATION FairSpec
CONSTANTS
    User = {u1}
    Name = {admin}
    Token = {k1, k2}
    Request = {q1, q2}
    MaxVersion = 3
PROPERTIES SessionsDrain ClaimsFade
CHECK_DEADLOCK FALSE
