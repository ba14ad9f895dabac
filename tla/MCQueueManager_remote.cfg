SPECIFICATION Spec
CHECK_DEADLOCK FALSE
CONSTANTS
    a = a
    b = b
    c = c
    w1 = w1
    w2 = w2
    NoRequest = NoRequest
    NoId = NoId
    Ids = {a}
    Zones <- MCZones
    Priorities <- MCPriorities
    ZoneOf <- OneZone
    PriorityOf <- OnePriority
    ClientStatuses = {}
    ClientPhases = {}
    DefaultZone = "default"
    Workers = {w1, w2}
    MaxSize = 2
    MaxRetries = 1
    Retryable = {a}
    Fingerprints <- MCFingerprints
    FingerprintOf <- Distinct
    SubmitPhases <- Now
    InProcess = FALSE
    Activities = {"timeout", "cancel", "defer", "clear", "clearZone"}
PROPERTIES
    ImplementsLifecycle
