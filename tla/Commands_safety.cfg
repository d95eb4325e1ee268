SPECIFICATION Spec
CONSTANTS
    c1 = c1
    c2 = c2
    None = None
    Command <- MCCommand
    Plans <- MCPlans
    Topics <- MCTopics
    TopicNamed <- MCTopicNamed
    Only <- MCOnly
    Batch <- MCBatch
    InitialTopics <- MCInitialTopics
INVARIANTS
    WorksAsAsked
    CleanedMeansFresh
