CONSTANTS
    u1 = u1
    t1 = t1
    r1 = r1
    r2 = r2
    r3 = r3
    Users = {u1}
    Teams = {t1}
    Requests = {r1}
    UserOf <- OneUser
    TeamOf <- OneTeam
    Planned = {}
    Nobody = Nobody
    NoJob = NoJob
    MaxOutputs = 2
    Cost = 3
    Limit = 1
    OpeningPool <- MCPool
    MaxDeaths = 1
    Events = {"toolGone", "apiCrash", "workerCrash", "lockAges", "time", "reconcile"}
SPECIFICATION Spec
INVARIANTS
    TypeOK
    Settlement
    PoolsConserved
    SlotsCovered
    SlotCap
    LockKept
PROPERTIES
    SettledIsFinal
    KeepsTheLedger
CHECK_DEADLOCK FALSE
