SPECIFICATION Spec
CONSTANTS
    Tariff = {1}
    Collection = {c1}
    Site = {}
    Organization = {o1}
    Frequency = {"DAILY", "MONTHLY"}
    Request = {q1}
    Run = {r1}
    BatchLimit = 1
    LastDay = 1
INVARIANTS SuccessMeansDrafted
PROPERTIES DeletionsDrain
CHECK_DEADLOCK FALSE
