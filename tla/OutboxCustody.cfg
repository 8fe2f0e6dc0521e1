SPECIFICATION Spec
CONSTANTS
    e1 = e1
    e2 = e2
    w1 = w1
    w2 = w2
    Events = {e1, e2}
    Workers = {w1, w2}
    Registered = {e1, e2}
    ReplaySafe = {e2}
    UnknownRetryAdmitted = {}
    NotBefore <- MCNotBefore
    MaxAttempts = 2
    Lease = 2
    HandlerTimeout = 1
    RetryBase = 1
    RetryCap = 1
    NoWorker = NoWorker
    MaxFaults = 1
CONSTRAINT OneEvent
SYMMETRY WorkerSymmetry
INVARIANTS
    IInv
    OneCallPerGeneration
    NoBlindRepeat
    EffectOnce
    AcknowledgedByHandler
PROPERTIES
    EffectsUnderCustody
    SettledForever
    ImplementsContract
CHECK_DEADLOCK FALSE
