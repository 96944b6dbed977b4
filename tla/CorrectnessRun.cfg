SPECIFICATION RunSpec
CONSTANTS
    Tickers <- MCTickers
    Requests <- MCRequests
    TolerancePct = 60
    MaxAttempts = 4
    MaxFailed = 1
    MaxLost = 1
    MayErr = TRUE
INVARIANTS
    HonestOrdersNeverFailed
    DivergenceAlwaysFailed
    CleanRunCertified
    PassWithinTolerance
CHECK_DEADLOCK FALSE
