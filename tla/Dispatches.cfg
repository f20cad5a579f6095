SPECIFICATION MCSpec
CONSTANTS
    Vehicle = {v1, v2}
    Driver = {d1}
    Slot = {morning}
    Dispatch = {k1, k2}
    Request = {q1, q2}
SYMMETRY Symmetry
INVARIANTS CalmMeansNoDoubleBooking
PROPERTIES CompletionDrains
CHECK_DEADLOCK FALSE
