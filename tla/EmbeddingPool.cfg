CONSTANTS
    TextCount = 7
    BatchSize = 2
    MaxConcurrency = 2
    MaxRetries = 3
    RetryBackoff = 1
    MaxDelay = 2
SPECIFICATION FairSpec
INVARIANTS
    VectorsInOrder
    BackoffHonoured
    FewStrays
    EndsForCause
    QuietAfterwards
PROPERTY CallEnds
CHECK_DEADLOCK FALSE
