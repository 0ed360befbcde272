CONSTANTS
    c1 = c1
    c2 = c2
    monthly = monthly
    yearly = yearly
    NoPlan = NoPlan
    Callers = {c1}
    Plans = {monthly}
    Yearly = {}
    Slice <- MCSlice
    MaxIds = 1
    MaxTime = 1
    TotalCount = 2
    OpeningPool <- NoCredits
    Events = {"redeliver", "reorder"}
SPECIFICATION Spec
INVARIANT OneFillPerCharge
CHECK_DEADLOCK FALSE
