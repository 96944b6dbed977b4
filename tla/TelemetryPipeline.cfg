SPECIFICATION Spec
CONSTANTS
    MaxSeq = 5
    MaxTrades = 2
    MaxStreams = 2
    MaxDrops = 1
INVARIANTS
    NoSilentLoss
PROPERTY CompletedRunJudged
CHECK_DEADLOCK FALSE
