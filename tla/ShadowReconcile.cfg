CONSTANTS
    Tickers = {t1}
    MaxQuantity = 3
    MaxOrders = 4
    MaxDeaths = 1
    MaxTears = 1
    MaxFailures = 1
SPECIFICATION ShadowSpec
INVARIANTS
    UndisturbedBooksMatch
    PairsCloseTogether
    FreshLedgerRebuilds
