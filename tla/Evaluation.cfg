CONSTANTS
    q1 = q1
    q2 = q2
    Settings <- TwoSettings
    Supplied <- OneSupplied
    Selections <- HostSelections
    MaxRuns = 3
SPECIFICATION EvalSpec
INVARIANTS
    CurrentVectors
    FreshOnceForced
    RefusedForCause
    RecommendationGrounded
CHECK_DEADLOCK FALSE
