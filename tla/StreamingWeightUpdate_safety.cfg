SPECIFICATION FairSpec
INVARIANTS
    TypeOK
    OneTimerChain
    EvidenceMatchesSource
    StateModelWasPublished
PROPERTIES
    StreamContinuesItsModel
    TimerRecurs
CONSTANTS
    t1 = t1
    None = None
    Triplets = {t1}
    DryRunValues = {TRUE, FALSE}
    BaselineUpdate = FALSE
    Checkpointing = TRUE
    Interval = 2
    MaxProduced <- OneOfEachKind
    MaxTime = 5
    MaxModels = 3
    BatchUpdates = 1
    MaxRestarts = 2
\* The clock, the records and the restarts are bounded: the model ends.
CHECK_DEADLOCK FALSE
