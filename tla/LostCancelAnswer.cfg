SPECIFICATION RunSpec
CONSTANTS
    Tickers <- MCTickers
    Requests <- MCRequests
    TolerancePct = 5
    MaxAttempts = 3
    MaxFailed = 1
    MaxLost = 0
    MayErr = FALSE
INVARIANT HonestNeverFailed
CHECK_DEADLOCK FALSE
