SPECIFICATION Spec
CHECK_DEADLOCK FALSE
CONSTANTS
    r1 = r1
    r2 = r2
    h1 = h1
    h2 = h2
    None = None
    Requests = {r1, r2}
    Events = {"e"}
    EventOf <- MCEventOf
    Handlers = {h1, h2}
    ByPriority <- MCByPriority
    Matching <- MCMatching
    MaxHandlers = 2
    Threshold = 1
    Jobs <- MCJobs
    Keys <- MCKeys
    KeyOf <- MCKeyOf
    ExactlyOnce <- MCExactlyOnce
    MaxAttempts = 1
    KeyLimit = 2
    DeadKept = 4
    Admins = {}
    MaxRequeues = 0
    MaxCrashes = 1
    Entities = {"company"}
    EntityOf <- MCEntityOf
SYMMETRY MCSymmetry
INVARIANTS
    TypeOK
    SlotsInUse
    AcknowledgedIsDelivered
    SyncsExclusive
