SPECIFICATION FairSpec
INVARIANTS
    TypeOK
    PassedMeansDelivered
    PassedMeansHealthy
    NoProcessorLeftBehind
    ResultIsRecorded
PROPERTY
    RunEnds
CONSTANTS
    None = None
    Keys = {a}
    Definitions <- AllDefinitions
    DryRunValues = {TRUE, FALSE}
    Seeded <- OneSeeded
    Found <- FoundBefore
    MaxModels = 2
    Disturbed <- MeasuredDisturbed
    MaxRestores = 1
    MaxRepeats = 1
\* A command ends, and then the processors may have ended too.
CHECK_DEADLOCK FALSE
