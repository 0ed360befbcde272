CONSTANTS
    t1 = t1
    r1 = r1
    r2 = r2
    Teams = {t1}
    Requests = {r1, r2}
    TeamOf <- MCTeamOf
    Cost = 3
    MaxOutputs = 2
    OpeningPool <- MCPool
    p1 = p1
    Purchases = {p1}
    BuyerOf <- MCBuyerOf
    PackOf <- MCPackOf
    Plans = {0, 5}
    MaxMoved = 3
    l1 = l1
    l2 = l2
    l3 = l3
    l4 = l4
    ua = ua
    ub = ub
    uc = uc
    Logins = {l1, l2, l3, l4}
    Uids = {ua, ub, uc}
    UidOf <- MCUidOf
    EmailOf <- MCEmailOf
    KeysOf <- MCKeysOf
    Throwaway = {uc}
    Nobody = Nobody
    BonusCap = 1
    LastDay = 1
    Outages = TRUE
    Caches = {"tooldef", "landing"}
    TTLOf <- MCTTLOf
    RowCaches = {"tooldef"}
    Readers = {1, 2, 3}
    ReaderOf <- MCReaderOf
    Span = 1
    MaxEdits = 1
    CacheOutages = TRUE
    MaxAttempts = 3
    MaxDeaths = 1
    BeatEvery = 1
    CheckEvery = 2
    Threshold = 36
    AlertTime = 4
    RefreshEvery = 12
    MaxStretch = 35
    MaxRaises = 1
    Asks <- MCAsks
    ToolRows <- MCToolRows
    Answers <- MCAnswers
    MaxShots = 3
    MaxOutputCount = 4
    ShotTypes <- MCShotTypes
    a1 = a1
    a2 = a2
    j1 = j1
    j2 = j2
    Sessions = {1, 2, 3}
    Apis = {a1, a2}
    Worker = Worker
    JobRows = {j1, j2}
    NoSession = NoSession
SPECIFICATION PartsSpec
SYMMETRY Alike
INVARIANTS
    TypesOK
    TopupsArePermanent
    RefillsReplace
    GrantIsLargestAffordable
    OneAccountEach
    CapUpToRaces
    StaleIsBounded
    OneVerdict
    DuplicatesAreLostAnswers
    OnlyTheFrozenAreKilled
    HealthTellsTheTruth
    FalGetsThePlan
    DeadlocksAreKnown
    FreezesAreKnown
PROPERTIES
    SharesAddUp
CHECK_DEADLOCK FALSE
