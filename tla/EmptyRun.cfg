SPECIFICATION RunSpec
CONSTANTS
    Tickers <- MCTickers
    Requests <- MCRequests
    TolerancePct = 5
    MaxAttempts = 2
    MaxFailed = 1
    MaxLost = 1
    MayErr = FALSE
INVARIANT PassIsEarned
CHECK_DEADLOCK FALSE
