SPECIFICATION Spec
CONSTANTS
    SeededPlaces <- MCSeededPlaces
    Configs <- MCConfigs
    Draws <- MCDraws
    OtherTriplets <- MCOtherTriplets
    ClickFactors <- MCClickFactors
    BatchSize = 5000
    OddKeys <- MCOddKeys
    MaxBatches = 2
    MaxUpdates = 2
INVARIANTS
    TypeOK
    RankFollowsEvidence
PROPERTIES
    MovementBounded
    BaselineBetween
CHECK_DEADLOCK FALSE
