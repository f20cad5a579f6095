SPECIFICATION MCSpec
CONSTANTS
    Collection = {x1, x2}
    Vehicle = {v1, v2}
    Driver = {d1}
    Slot = {}
    Dispatch = {}
    Request = {}
    Complaint = {c1}
    Invoice = {i1, i2}
    Kind = {"wet", "dry", "electronic"}
    Kg = {1, 15}
    Rate = {300}
    Fee = {0, 777}
    Amount <- MCAmount
    Late <- MCLate
    Age = {0, 1, 2}
    Days = {1, 2}
    None = None
    Reader = {q1, q2}
INVARIANTS ReportsTypeOK DashboardAddsUp FiguresAddUp
PROPERTIES ThresholdsShow
CHECK_DEADLOCK FALSE
