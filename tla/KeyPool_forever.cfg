\* Retry-loop mode: waits without a deadline behind a head that waits for a key's
\* cooldown, two leases of a key, and a client that goes away unseen.
SPECIFICATION FairSpec
CONSTANTS
    Callers = {r1, r2, r3}
    r1 = r1
    r2 = r2
    r3 = r3
    Nobody = Nobody
    NKeys = 2
    MaxConcurrentPerKey = 2
    MaxTotalQueued = 2
    QueueWait = 1
    DefaultCooldown = 1
    MaxCooldown = 1
    Poll = 1
    Cancellable = TRUE
    Unread = {r2}
    WaitForever = TRUE
    HonorRetry5xx = TRUE
    CoarseClock = FALSE
    Attempts <- MCTwoAttempts
    Statuses = {401, 429}
    RetryAfters <- MCTwoRetryAfters
INVARIANTS
    ActiveMatchesLeases
PROPERTIES
    KeyHealthOnlyWorsens
    AcquireReturns
