CONSTANTS
    Books <- ThreeBooks
    Terms <- ThreeTerms
    Roots <- ThreeRoots
    Selections <- OneByOne
    RootEnabled = FALSE
    MaxRuns = 4
SPECIFICATION Spec
INVARIANT SharedTermSpace
CHECK_DEADLOCK FALSE
