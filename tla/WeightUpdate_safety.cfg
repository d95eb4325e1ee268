SPECIFICATION Spec
INVARIANTS
    TypeOK
    EvidenceIsRecent
    RowsWerePublished
    PublishedIsRecorded
PROPERTY
    NoUpdateIsLost
CONSTANTS
    u1 = u1
    u2 = u2
    b1 = b1
    b2 = b2
    None = None
    Updaters = {u1, u2}
    DryRun = {u2}
    Looping = {u1}
    Buckets = {b1, b2}
    BaselineUpdate = {u1}
    InitialBuckets <- OneBucket
    MaxImpressions = 1
    MaxVisits = 2
    MaxModels = 3
    MaxStarts = 2
\* The commands are started a bounded number of times and then all have ended.
CHECK_DEADLOCK FALSE
