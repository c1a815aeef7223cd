\* Standard Pool mode: the last untried key is quarantined by another request.
SPECIFICATION RequestSpec
CONSTANTS
    Callers = {r1, r2}
    r1 = r1
    r2 = r2
    Nobody = Nobody
    NKeys = 2
    MaxConcurrentPerKey = 1
    MaxTotalQueued = 1
    QueueWait = 1
    DefaultCooldown = 1
    MaxCooldown = 1
    Poll = 1
    Cancellable = TRUE
    Unread = {}
    WaitForever = FALSE
    HonorRetry5xx = FALSE
    CoarseClock = FALSE
    Attempts <- MCAttempts
    Statuses = {0, 200, 401, 429, 503}
    RetryAfters <- MCNoRetryAfters
    Max5xxFailovers = 1
    FirstBackoff = 1
    MaxBackoff = 1
    Answers = {200, 401, 429, 503}
    BodyMayBreak = TRUE
SYMMETRY MCSymmetry
INVARIANTS
    LastAnswerReturned
