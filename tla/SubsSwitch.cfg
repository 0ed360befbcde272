CONSTANTS
    c1 = c1
    c2 = c2
    monthly = monthly
    yearly = yearly
    NoPlan = NoPlan
    Callers = {c1}
    Plans = {monthly, yearly}
    Yearly = {yearly}
    Slice <- MCSlice
    MaxIds = 2
    MaxTime = 2
    TotalCount = 3
    OpeningPool <- NoCredits
    Events = {"switch", "spend", "lapse"}
SPECIFICATION Spec
INVARIANTS
    TypeOK
    CancelledIsNotBilled
    AgreesWithRazorpay
    OneBilled
PROPERTY CreditsComeFromRefills
CHECK_DEADLOCK FALSE
