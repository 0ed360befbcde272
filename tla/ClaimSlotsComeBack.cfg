CONSTANTS
    u1 = u1
    t1 = t1
    r1 = r1
    r2 = r2
    r3 = r3
    Users = {u1}
    Teams = {t1}
    Requests = {r1}
    UserOf <- OneUser
    TeamOf <- OneTeam
    Planned = {}
    Nobody = Nobody
    NoJob = NoJob
    MaxOutputs = 2
    Cost = 3
    Limit = 2
    OpeningPool <- MCPool
    MaxDeaths = 0
    Events = {}
SPECIFICATION Spec
INVARIANT SlotsComeBack
CHECK_DEADLOCK FALSE
