\* Standard Pool mode: bounded waits that the handler's probe can cancel, and a
\* history of the round robin.
SPECIFICATION RotationSpec
CONSTANTS
    Callers = {r1, r2, r3}
    r1 = r1
    r2 = r2
    r3 = r3
    Nobody = Nobody
    NKeys = 2
    MaxConcurrentPerKey = 1
    MaxTotalQueued = 2
    QueueWait = 2
    DefaultCooldown = 1
    MaxCooldown = 2
    Poll = 2
    Cancellable = TRUE
    Unread = {}
    WaitForever = FALSE
    HonorRetry5xx = FALSE
    CoarseClock = FALSE
    Attempts <- MCAttempts
    Statuses = {401, 429}
    RetryAfters <- MCRetryAfters
SYMMETRY MCSymmetry
INVARIANTS
    TypeOK
    QueuedRequestsAreWaiting
    NoLostWakeup
    NoOversleep
    EveryKeyTakesItsTurn
PROPERTIES
    ImplementsFifo
