SPECIFICATION Spec
CHECK_DEADLOCK FALSE
CONSTANTS
    c1 = c1
    c2 = c2
    c3 = c3
    Nobody = Nobody
    Calls = {c1, c2, c3}
    Endpoints = {"companies"}
    EndpointOf <- MCEndpointOf
    PriorityOf <- MCPriorityOf
    UrgencyOf <- MCUrgencyOf
    ThreadLimit = 1
    MaxWaiting = 2
    Batchable = {c2, c3}
    Sheddable = {c3}
    MaxQueue = 2
    BatchSize = 2
    GroupRetries = 1
    MaxRetries = 1
    ShedAbove = 1
INVARIANTS
    TypeOK
    ThreadsAccounted
    WaitingQueueExact
    StartedOnce
    JoinedHasLeader
    NeverStuck
    WaiterHasTimer
