CONSTANTS
    w1 = w1
    w2 = w2
    Workers <- TwoWorkers
    Books <- TwoBooks
    ChunkCount <- TwoCounts
    BatchSize = 1
    Plans <- OverlappingPlans
    MaxRuns = 3
SPECIFICATION Spec
INVARIANT NeverDuplicates
CHECK_DEADLOCK FALSE
