SPECIFICATION MCSpec
CONSTANTS
    Category = {c1, c2}
    Schedule = {s1}
    Tariff = {t1}
    Collection = {x1, x2}
    Site = {w1, w2}
    Time = {1, 2, 3}
    Request = {q1, q2}
    None = None
SYMMETRY Symmetry
INVARIANTS TypeOK
PROPERTIES InversionsWereOvertaken DanglingDrains RetiredWereIdle
CHECK_DEADLOCK FALSE
