SPECIFICATION LiveSpec
CONSTANTS
    p = p
    q = q
    Ops = {p, q}
    FailureThreshold = 2
    SuccessThreshold = 2
    MonitoringPeriod = 2
    OpenTimeout = 2
    MinimumCooldown = 2
    Oldest = 4
    MaxRecords = 3
    ForcedStates <- AllStates
INVARIANTS
    RecoveryArmed
    FreshCounts
    PassedOverInCooldown
PROPERTIES
    Recovers
