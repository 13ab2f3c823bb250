CONSTANTS
    w1 = w1
    w2 = w2
    Workers <- OneWorker
    Books <- TwoBooks
    ChunkCount <- TwoCounts
    BatchSize = 1
    Plans <- ResumePlans
    MaxRuns = 2
SPECIFICATION Spec
INVARIANT SkippedIsIndexed
CHECK_DEADLOCK FALSE
