CONSTANTS
    w1 = w1
    w2 = w2
    Workers <- TwoWorkers
    Books <- TwoBooks
    ChunkCount <- TwoCounts
    BatchSize = 2
    Plans <- OverlappingPlans
    MaxRuns = 3
SPECIFICATION FairDeploySpec
INVARIANTS
    IndexesExplained
    FewRefused
    OneIngestRepairs
PROPERTY RunsEnd
CHECK_DEADLOCK FALSE
