SPECIFICATION Spec
INVARIANTS
    FlushIsScheduled
    ExactlyOnceSinceCheckpoint
    NoRecordLost
    RedisAgreesWhenDrained
CONSTANTS
    k1 = k1
    k2 = k2
    None = None
    Keys = {k1}
    Modes = {"periodic", "per_event"}
    StartingOffsets = "earliest"
    Checkpointing = TRUE
    FlushInterval = 1
    MaxUpdates = 2
    MetricsInterval = 0
    LogEvery = 0
    Seed <- OneSeeded
    MaxProduced <- ProducedRecovery
    LastEventTime = 2
    MaxTime = 3
    RestartKinds = {"restore", "fresh"}
    MaxRestarts = 2
\* The clock and the restarts are bounded: the last state has no successor.
CHECK_DEADLOCK FALSE
