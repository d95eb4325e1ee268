SPECIFICATION Spec
INVARIANT
    AcceptedModelIsStored
CONSTANTS
    u1 = u1
    u2 = u2
    b1 = b1
    b2 = b2
    None = None
    Updaters = {u1}
    DryRun = {}
    Looping = {u1}
    Buckets = {b1}
    BaselineUpdate = {u1}
    InitialBuckets <- OneBucket
    MaxImpressions = 2
    MaxVisits = 1
    MaxModels = 2
    MaxStarts = 1
\* The commands are started a bounded number of times and then all have ended.
CHECK_DEADLOCK FALSE
