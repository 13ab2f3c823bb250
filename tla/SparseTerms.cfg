CONSTANTS
    Books <- ThreeBooks
    Terms <- ThreeTerms
    Roots <- ThreeRoots
    Selections <- AnySelection
    RootEnabled = TRUE
    MaxRuns = 4
SPECIFICATION Spec
INVARIANTS
    FitOnceSuffices
    RootLossExplained
CHECK_DEADLOCK FALSE
