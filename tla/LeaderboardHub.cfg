SPECIFICATION Spec
CONSTANTS
    Subs = {s1}
    Clients = {c1, c2}
    SendBuffer = 1
    BcastCap = 1
    RegCap = 1
    UnregCap = 1
    Flaky = {c1}
    MaxUpdates = 2
INVARIANTS
    ClosedOnce
    SettledBrowserIsCurrent
PROPERTY GoneClientReleased
CHECK_DEADLOCK FALSE
