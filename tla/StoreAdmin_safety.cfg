SPECIFICATION FairSpec
INVARIANTS
    TypeOK
    KnownState
    RedisFollowsPostgres
PROPERTIES
    PersistedWasCurrent
    CommandsEnd
CONSTANTS
    p1 = p1
    p2 = p2
    d1 = d1
    s1 = s1
    s2 = s2
    r1 = r1
    job = job
    RealtimeJob = job
    b1 = b1
    b2 = b2
    None = None
    Weights = Weights
    Persisters = {p1, p2, d1}
    Seeders = {s1, s2}
    Resetters = {r1}
    DryRun = {d1}
    Plans <- AllPlans
    Buckets = {b1, b2}
    SeedValues <- OneEach
    SeedOrder <- InSeedOrder
    InitialRedis <- OneBucket
    MaxCount = 2
    MaxReads = 1
\* The commands are started once each, and then all have ended.
CHECK_DEADLOCK FALSE
