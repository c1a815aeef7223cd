\* Standard Pool mode under fairness, with a clock that may return the same
\* reading twice.
SPECIFICATION FairRequestSpec
CONSTANTS
    Callers = {r1, r2}
    r1 = r1
    r2 = r2
    Nobody = Nobody
    NKeys = 2
    MaxConcurrentPerKey = 1
    MaxTotalQueued = 2
    QueueWait = 1
    DefaultCooldown = 1
    MaxCooldown = 1
    Poll = 1
    Cancellable = TRUE
    Unread = {}
    WaitForever = FALSE
    HonorRetry5xx = FALSE
    CoarseClock = TRUE
    Attempts <- MCAttempts
    Statuses = {0, 200, 401, 429, 503}
    RetryAfters <- MCNoRetryAfters
    Max5xxFailovers = 0
    FirstBackoff = 1
    MaxBackoff = 1
    Answers = {429}
    BodyMayBreak = FALSE
INVARIANTS
    TicketsBalance
PROPERTIES
    RequestEnds
