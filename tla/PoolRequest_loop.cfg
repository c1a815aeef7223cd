\* Retry-loop mode under fairness: rate limits, quarantines, rounds, and a client
\* that goes away unseen.
SPECIFICATION FairRequestSpec
CONSTANTS
    Callers = {r1, r2}
    r1 = r1
    r2 = r2
    Nobody = Nobody
    NKeys = 2
    MaxConcurrentPerKey = 1
    MaxTotalQueued = 1
    QueueWait = 1
    DefaultCooldown = 1
    MaxCooldown = 1
    Poll = 1
    Cancellable = TRUE
    Unread = {r2}
    WaitForever = TRUE
    HonorRetry5xx = TRUE
    CoarseClock = FALSE
    Attempts <- MCAttempts
    Statuses = {0, 200, 401, 429, 503}
    RetryAfters <- MCNoRetryAfters
    Max5xxFailovers = 0
    FirstBackoff = 1
    MaxBackoff = 1
    Answers = {200, 401, 429}
    BodyMayBreak = FALSE
INVARIANTS
    LoopGivesUpRightly
    SlotsMatch
PROPERTIES
    DepartedLeave
    LoopSucceeds
