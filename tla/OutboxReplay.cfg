SPECIFICATION FairSpec
CONSTANTS
    e1 = e1
    e2 = e2
    w1 = w1
    w2 = w2
    Events = {e1}
    Workers = {w1}
    Registered = {e1}
    ReplaySafe = {e1}
    UnknownRetryAdmitted = {e1}
    NotBefore <- MCNotBefore
    MaxAttempts = 2
    Lease = 2
    HandlerTimeout = 1
    RetryBase = 1
    RetryCap = 1
    NoWorker = NoWorker
    MaxFaults = 1
PROPERTIES
    EventuallySettled
CHECK_DEADLOCK FALSE
