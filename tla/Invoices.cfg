SPECIFICATION FairSpec
CONSTANTS
    Invoice = {i1}
    Request = {q1, q2}
    Run = {r1, r2}
INVARIANTS OverdueIsLate StaleReadsStillHold AuditRowTruthful
PROPERTIES DeletionDrains ImplementsBook LateInvoiceIsTreated
CHECK_DEADLOCK FALSE
