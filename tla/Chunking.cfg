CONSTANTS
    MaxTokens = 4
    MinTokens = 2
    SplitTarget = 3
    Overlap = 1
    AtomMax = 4
    MinContent = 2
    Library <- SmallLibrary
SPECIFICATION RestingSpec
INVARIANTS
    PieceLimit
    LittleShared
    NothingLost
    GatePasses
    HeadingsKept
    ChunksInTheirSection
PROPERTY
    PackSpec
