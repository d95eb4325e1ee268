SPECIFICATION FairSpec
PROPERTIES
    MetricsEventuallyLogged
    ImplementsCtrStore
CONSTANTS
    k1 = k1
    k2 = k2
    None = None
    Keys = {k1, k2}
    Modes = {"periodic", "per_event"}
    StartingOffsets = "earliest"
    Checkpointing = FALSE
    FlushInterval = 1
    MaxUpdates = 9
    MetricsInterval = 2
    LogEvery = 2
    Seed <- OneSeeded
    MaxProduced <- ProducedLiveness
    LastEventTime = 1
    MaxTime = 5
    RestartKinds = {}
    MaxRestarts = 0
\* The clock and the restarts are bounded: the last state has no successor.
CHECK_DEADLOCK FALSE
