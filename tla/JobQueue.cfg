SPECIFICATION FairSpec
CONSTANTS
    JobIds = {j1, j2}
    DeadLetters = {j1}
    Workers = {w1, w2}
    MaxAttempts = 2
    Lease = 1
    BackoffBase = 1
    BackoffMax = 1
    MaxAge = 0
    MaxRestarts = 2
    NoLease = NoLease
    NoWorker = NoWorker
INVARIANTS
    QueueInvariant
PROPERTIES
    LateWriteDiscarded
    ImplementsLifecycle
    EveryJobSettles
    StaleHandlerStops
