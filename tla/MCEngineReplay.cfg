SPECIFICATION FairSpec
CONSTANTS
    OrderIds <- MCIdsWithin
    Prices <- MCPrices
    Sizes <- MCSizes
    Budgets <- MCBudgets
    InfPrice = 9
    WindowCap = 3
    Topics <- MCTopicsReplay
    OrderChCap = 2
    LogChCap = 2
    BatchMax = 2
    SnapshotDelta = 9
    MaxSnapshots = 1
    MaxFaults = 2
    PromptStart = TRUE
PROPERTIES
    ImplementsLogService
    EverythingCommitted
