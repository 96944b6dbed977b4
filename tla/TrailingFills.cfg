SPECIFICATION Spec
CONSTANTS
    MaxSeq = 3
    MaxTrades = 1
    MaxStreams = 1
    MaxDrops = 0
INVARIANT CompleteAtMarker
CHECK_DEADLOCK FALSE
