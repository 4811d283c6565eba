SPECIFICATION CommittingSpec
CONSTANTS
    OrderIds <- MCIdsBeyond
    Prices <- MCPrices
    Sizes <- MCSizes
    Budgets <- MCBudgets
    InfPrice = 9
    WindowCap = 3
    Topics <- MCTopicsBeyond
    OrderChCap = 2
    LogChCap = 2
    BatchMax = 2
    SnapshotDelta = 0
    MaxSnapshots = 2
    MaxFaults = 1
    PromptStart = FALSE
INVARIANTS
    TypeOK
    ReplayRepeats
    StoreTellsJournal
    SavedBookIsMoment
PROPERTIES
    SnapshotsMoveForward
    NoSnapshotStuck
    ImplementsLossyLogService
