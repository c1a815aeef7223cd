\* Two keys, four requests.
SPECIFICATION Spec
CONSTANTS
    Callers = {r1, r2, r3, r4}
    r1 = r1
    r2 = r2
    r3 = r3
    r4 = r4
    Nobody = Nobody
    Keys = {f1, f2}
    f1 = f1
    f2 = f2
    NoKey = NoKey
    Models = {"m"}
    MaxConcurrentPerKey = 1
    MaxQueuePerKey = 2
    MaxTotalQueued = 3
    QueueWait = 2
    Poll = 1
    Cancellable = TRUE
    Unread = {}
    CoarseClock = FALSE
SYMMETRY MCSymmetry
INVARIANTS
    LanesInUse
    QueuedMatches
    NoLostWakeup
PROPERTIES
    ImplementsFifo
