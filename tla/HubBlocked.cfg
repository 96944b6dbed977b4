SPECIFICATION Spec
CONSTANTS
    Subs = {s1}
    Clients = {c1, c2}
    SendBuffer = 1
    BcastCap = 1
    RegCap = 2
    UnregCap = 1
    Flaky = {}
    MaxUpdates = 2
INVARIANT HubNeverBlocks
CHECK_DEADLOCK FALSE
