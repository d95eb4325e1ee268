SPECIFICATION Spec
INVARIANT
    RedisMatchesTopics
CONSTANTS
    k1 = k1
    k2 = k2
    None = None
    Keys = {k1}
    Modes = {"periodic"}
    StartingOffsets = "earliest"
    Checkpointing = TRUE
    FlushInterval = 1
    MaxUpdates = 2
    MetricsInterval = 0
    LogEvery = 0
    Seed <- NoneSeeded
    MaxProduced <- ProducedRecovery
    LastEventTime = 2
    MaxTime = 3
    RestartKinds = {"restore"}
    MaxRestarts = 1
\* The clock and the restarts are bounded: the last state has no successor.
CHECK_DEADLOCK FALSE
