SPECIFICATION Spec
CONSTANTS
    OrderIds <- MCIdsWithin
    Prices <- MCPrices
    Sizes <- MCSizes
    Budgets <- MCBudgets
    InfPrice = 9
    WindowCap = 3
    Topics <- MCTopicsWithin
    OrderChCap = 2
    LogChCap = 2
    BatchMax = 2
    SnapshotDelta = 0
    MaxSnapshots = 1
    MaxFaults = 0
    PromptStart = TRUE
INVARIANTS
    SavedSnapshotCommitted
