SPECIFICATION Spec
CONSTANTS
    OrderIds <- MCOrderIds
    Prices <- MCPricesFromZero
    Sizes <- MCSizes
    Budgets <- MCBudgets
    InfPrice = 9
    WindowCap = 3
    MaxMessages = 3
    SnapshotLevels = 1
INVARIANTS
    TypeOK
    Uncrossed
    NoOverfill
    RestingSizesAddUp
    AcceptedOnce
    LogLifecycle
    DoneTellsAll
    NothingForgotten
    NumbersContiguous
    MirrorIsBook
    RestartKeepsMirror
    ChangesTellLevels
PROPERTIES
    BestPriceFirst
    MarketOrdersTryAll
    ImplementsAtomicBook
