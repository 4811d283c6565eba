SPECIFICATION FairSpec
CONSTANTS
    OrderIds = {1, 2, 3}
    Prices = {1, 2}
    Sizes = {1, 2}
    Budgets = {2}
    InfPrice = 9
    WindowCap = 5
    Placed <- MCPlaced
    Balances <- MCBalances
    Limit = 2
    MaxTroubles = 1
INVARIANTS
    HoldsCovered
    MoneyConserved
    RowsTellBook
PROPERTIES
    EverythingSettled
