\* Equal tickets: a request leaves with the ticket of another.
SPECIFICATION Spec
CONSTANTS
    Callers = {r1, r2, r3}
    r1 = r1
    r2 = r2
    r3 = r3
    Nobody = Nobody
    NKeys = 1
    MaxConcurrentPerKey = 1
    MaxTotalQueued = 3
    QueueWait = 1
    DefaultCooldown = 1
    MaxCooldown = 1
    Poll = 1
    Cancellable = TRUE
    Unread = {}
    WaitForever = FALSE
    HonorRetry5xx = FALSE
    CoarseClock = TRUE
    Attempts <- MCFirstAttempts
    Statuses = {429}
    RetryAfters <- MCNoRetryAfters
SYMMETRY MCSymmetry
INVARIANTS
    QueuedRequestsAreWaiting
