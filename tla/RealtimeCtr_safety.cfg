SPECIFICATION Spec
INVARIANTS
    TypeOK
    CleanBucketIsInRedis
    EveryRecordCountedOnce
    FlushAccounting
PROPERTIES
    DeadlineSlipsAtMostOnce
    RedisNeverRegresses
CONSTANTS
    k1 = k1
    k2 = k2
    None = None
    Keys = {k1, k2}
    Modes = {"periodic", "per_event"}
    StartingOffsets = "earliest"
    Checkpointing = FALSE
    FlushInterval = 2
    MaxUpdates = 2
    MetricsInterval = 0
    LogEvery = 0
    Seed <- OneSeeded
    MaxProduced <- ProducedSafety
    LastEventTime = 2
    MaxTime = 4
    RestartKinds = {}
    MaxRestarts = 0
\* The clock and the restarts are bounded: the last state has no successor.
CHECK_DEADLOCK FALSE
