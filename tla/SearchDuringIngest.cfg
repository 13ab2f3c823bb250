CONSTANTS
    Workers <- TwoBooks
    Books <- TwoBooks
    ChunkCount <- TinyCounts
    BatchSize = 1
    Plans <- OneBookEach
    MaxRuns = 2
    Layout <- TinyLayout
    Requests <- OneRequest
    Inquiries <- TinyInquiries
    CandidateLimit = 1
    RerankInputLimit = 2
    RerankTopK = 2
    UseRoot = FALSE
    Window = 1
    MaxTokens = 2
SPECIFICATION FairSearchSpec
PROPERTIES
    IndexAsSearched
    AnsweredDuringIngest
CHECK_DEADLOCK FALSE
