SPECIFICATION FairSpec
PROPERTY
    MetricsEventuallyLogged
CONSTANTS
    k1 = k1
    k2 = k2
    None = None
    Keys = {k1}
    Modes = {"periodic"}
    StartingOffsets = "earliest"
    Checkpointing = FALSE
    FlushInterval = 2
    MaxUpdates = 2
    MetricsInterval = 4
    LogEvery = 0
    Seed <- OneSeeded
    MaxProduced <- ProducedMetrics
    LastEventTime = 2
    MaxTime = 10
    RestartKinds = {}
    MaxRestarts = 0
\* The clock and the restarts are bounded: the last state has no successor.
CHECK_DEADLOCK FALSE
