CONSTANTS
    Books <- TwoBooks
    Layout <- SmallLayout
    Requests <- OneRequest
    Inquiries <- SmallInquiries
    CandidateLimit = 1
    RerankInputLimit = 2
    RerankTopK = 1
    UseRoot = TRUE
    Window = 1
    MaxTokens = 3
    MaxEditions <- SmallEditions
SPECIFICATION BoundedSpec
INVARIANTS
    StableIdsHold
    FilterHonoured
    PassagesWhole
    TrailsComplete
    LookupFailsExplained
    ReportTrue
CHECK_DEADLOCK FALSE
