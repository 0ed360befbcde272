CONSTANTS
    u1 = u1
    t1 = t1
    r1 = r1
    r2 = r2
    r3 = r3
    Users = {u1}
    Teams = {t1}
    Requests = {r1, r2, r3}
    UserOf <- OneUser
    TeamOf <- OneTeam
    Planned = {r1}
    Nobody = Nobody
    NoJob = NoJob
    MaxOutputs = 1
    Cost = 3
    Limit = 1
    OpeningPool <- MCPool
    MaxDeaths = 0
    Events = {"reserve", "toolGone", "lockAges", "apiCrash"}
SPECIFICATION Spec
INVARIANT
    OneAtATime
CHECK_DEADLOCK FALSE
