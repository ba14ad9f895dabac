SPECIFICATION LiveSpec
CHECK_DEADLOCK FALSE
CONSTANTS
    a = a
    b = b
    c = c
    w1 = w1
    w2 = w2
    NoRequest = NoRequest
    NoId = NoId
    Ids = {a, b, c}
    Zones <- MCZones
    Priorities <- MCPriorities
    ZoneOf <- OneZone
    PriorityOf <- OnePriority
    ClientStatuses = {}
    ClientPhases = {}
    DefaultZone = "default"
    Workers = {w1}
    MaxSize = 2
    MaxRetries = 1
    Retryable = {}
    Fingerprints <- MCFingerprints
    FingerprintOf <- SomeDuplicates
    SubmitPhases <- Now
    InProcess = TRUE
    Activities = {"defer"}
PROPERTIES
    EveryCallAnswered
