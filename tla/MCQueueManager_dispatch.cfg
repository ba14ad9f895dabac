SPECIFICATION Spec
CHECK_DEADLOCK FALSE
CONSTANTS
    a = a
    b = b
    c = c
    w1 = w1
    w2 = w2
    NoRequest = NoRequest
    NoId = NoId
    Ids = {a, b}
    Zones <- MCZones
    Priorities <- MCPriorities
    ZoneOf <- OneZone
    PriorityOf <- OnePriority
    ClientStatuses = {}
    ClientPhases = {}
    DefaultZone = "default"
    Workers = {w1, w2}
    MaxSize = 3
    MaxRetries = 1
    Retryable = {a, b}
    Fingerprints <- MCFingerprints
    FingerprintOf <- Distinct
    SubmitPhases <- NowOrLater
    InProcess = TRUE
    Activities = {"defer", "timeout", "maintenance", "cancel"}
INVARIANTS
    TypeOK
    ExclusiveOwner
    ExecutingIsMarked
    NoUnhandledRejection
    IndexesExact
