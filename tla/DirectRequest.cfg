\* Env and Client mode under fairness: three requests for one key.
SPECIFICATION FairRequestSpec
CONSTANTS
    Callers = {r1, r2, r3}
    r1 = r1
    r2 = r2
    r3 = r3
    Nobody = Nobody
    Keys = {f1}
    f1 = f1
    NoKey = NoKey
    Models = {"m"}
    MaxConcurrentPerKey = 1
    MaxQueuePerKey = 2
    MaxTotalQueued = 2
    QueueWait = 2
    Poll = 1
    Cancellable = TRUE
    Unread = {}
    CoarseClock = FALSE
INVARIANTS
    KeyNeverOverloaded
    CleanEnd
PROPERTIES
    RequestEnds
