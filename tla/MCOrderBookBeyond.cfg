SPECIFICATION Spec
CONSTANTS
    OrderIds <- MCOrderIds
    Prices <- MCPrices
    Sizes <- MCSizes
    Budgets <- MCBudgets
    InfPrice = 9
    WindowCap = 2
    MaxMessages = 2
    SnapshotLevels = 1
INVARIANTS
    AcceptedOnce
