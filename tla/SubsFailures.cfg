CONSTANTS
    c1 = c1
    c2 = c2
    monthly = monthly
    yearly = yearly
    NoPlan = NoPlan
    Callers = {c1, c2}
    Plans = {monthly}
    Yearly = {}
    Slice <- MCSlice
    MaxIds = 2
    MaxTime = 1
    TotalCount = 2
    OpeningPool <- NoCredits
    Events = {"cleanup", "crash", "razorpayFails", "hurry", "payReplaced", "lapse"}
SPECIFICATION Spec
INVARIANTS
    ActiveWasPaid
    OneFillPerCharge
CHECK_DEADLOCK FALSE
