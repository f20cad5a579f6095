SPECIFICATION FairSpec
CONSTANTS
    Complaint = {c1}
    Request = {q1}
    Run = {r1, r2}
INVARIANTS DecisionsAreEarned
PROPERTIES SettlingDrains OldComplaintEscalates
CHECK_DEADLOCK FALSE
