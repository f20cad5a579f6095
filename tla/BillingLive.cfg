SPECIFICATION FairSpec
CONSTANTS
    Tariff = {1, 2}
    Collection = {c1}
    Site = {s1}
    Organization = {}
    Frequency = {"DAILY", "MONTHLY"}
    Request = {}
    Run = {r1}
    BatchLimit = 1
    LastDay = 0
PROPERTY NewestAreBilled
CHECK_DEADLOCK FALSE
