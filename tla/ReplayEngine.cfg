SPECIFICATION Spec
CONSTANTS
    Subs = {s1, s2, s3}
    Workers = 1
    InCap = 1
    UpdCap = 1
    MaxEvents = 3
INVARIANTS
    TypeOK
    NoSendAfterClose
    OneVerdictPerSubmission
    VerdictOnWholeStream
    SemaphoreExact
PROPERTY
    NeverStallsUpstream
CHECK_DEADLOCK FALSE
