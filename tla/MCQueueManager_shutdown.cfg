SPECIFICATION LiveSpec
CHECK_DEADLOCK FALSE
CONSTANTS
    a = a
    b = b
    c = c
    w1 = w1
    w2 = w2
    NoRequest = NoRequest
    NoId = NoId
    Ids = {a, b}
    Zones <- MCZones
    Priorities <- MCPriorities
    ZoneOf <- OneZone
    PriorityOf <- OnePriority
    ClientStatuses = {}
    ClientPhases = {}
    DefaultZone = "default"
    Workers = {w1}
    MaxSize = 1
    MaxRetries = 1
    Retryable = {a, b}
    Fingerprints <- MCFingerprints
    FingerprintOf <- Duplicates
    SubmitPhases <- Now
    InProcess = TRUE
    Activities = {"timeout", "aging", "shutdown", "pause"}
INVARIANTS
    CompletedIsAnswered
PROPERTIES
    ShutdownReturns
