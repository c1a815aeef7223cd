\* Standard Pool mode, three keys: no quarantines, and cooldowns that end at once
\* (as with Retry-After: 0).
SPECIFICATION RequestSpec
CONSTANTS
    Callers = {r1, r2}
    r1 = r1
    r2 = r2
    Nobody = Nobody
    NKeys = 3
    MaxConcurrentPerKey = 1
    MaxTotalQueued = 1
    QueueWait = 1
    DefaultCooldown = 1
    MaxCooldown = 0
    Poll = 1
    Cancellable = TRUE
    Unread = {}
    WaitForever = FALSE
    HonorRetry5xx = FALSE
    CoarseClock = FALSE
    Attempts <- MCAttempts
    Statuses = {0, 200, 401, 429, 503}
    RetryAfters <- MCNoRetryAfters
    Max5xxFailovers = 1
    FirstBackoff = 1
    MaxBackoff = 1
    Answers = {200, 429, 503}
    BodyMayBreak = TRUE
SYMMETRY MCSymmetry
INVARIANTS
    OneResponse
    NothingHeldBetweenAttempts
    FaultsBounded
PROPERTIES
    UsesThePool
    NoKeyTwice
