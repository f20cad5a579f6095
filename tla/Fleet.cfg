SPECIFICATION FairSpec
CONSTANTS
    Vehicle = {v1}
    Driver = {d1}
    Slot = {morning}
    Dispatch = {k1}
    Request = {q1, q2}
    Doc = {x1}
    Run = {r1}
INVARIANTS GroundedForCause
PROPERTIES ImplementsDesk GroundingDrains LateDocIsMarked
CHECK_DEADLOCK FALSE
