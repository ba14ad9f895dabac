SPECIFICATION DeliverySpec
CHECK_DEADLOCK FALSE
CONSTANTS
    None = None
    Jobs = {"j1"}
    Keys = {"k"}
    KeyOf <- MCKeyOf
    ExactlyOnce = {"j1"}
    MaxAttempts = 3
    KeyLimit = 0
    DeadKept = 1
    Admins = {"a1", "a2"}
    MaxRequeues = 2
    MaxCrashes = 1
INVARIANTS
    NothingLost
    CopiesAccounted
PROPERTIES
    EveryEventSettles
