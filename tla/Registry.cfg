SPECIFICATION Spec
CONSTANTS
    Org = {o1}
    Site = {s1, s2}
    Building = {b1}
    Floor = {f1}
    Unit = {u1}
    Resident = {h1, h2}
    Employee = {e1}
    Address = {a1, a2}
    User = {w1, w2}
    Request = {q1, q2}
SYMMETRY Symmetry
INVARIANTS TypeOK KeysHold CalmKeepsAnAddress
PROPERTIES LostRowsWereLate RemovalDrains
CHECK_DEADLOCK FALSE
