SPECIFICATION FairSpec
CHECK_DEADLOCK FALSE
CONSTANTS
    a = a
    b = b
    m1 = m1
    m2 = m2
    Ids = {a, b}
    Managers = {m1, m2}
    Rank <- MCRank
    Window = 2
    Dated = {a}
    Callers = {m1}
    Timed = {b}
    Retryable = {b}
    MaxCalls = 1
    MaxCrashes = 1
INVARIANTS
    OneOwner
    PendingIsIndexed
PROPERTIES
    QueuedIsServed
