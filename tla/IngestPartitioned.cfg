CONSTANTS
    w1 = w1
    w2 = w2
    Workers <- TwoWorkers
    Books <- ThreeBooks
    ChunkCount <- ThreeCounts
    BatchSize = 2
    Plans <- PartitionedPlans
    MaxRuns = 3
SPECIFICATION Spec
INVARIANTS
    TypeOK
    IdsHaveOneOwner
    CommittedBeforePublished
    OkMeansIndexed
    GapExplained
PROPERTY IndexSpec
CHECK_DEADLOCK FALSE
