SPECIFICATION Spec
CONSTANTS
    JobIds = {j1}
    DeadLetters = {}
    Workers = {w1, w2}
    MaxAttempts = 2
    Lease = 1
    BackoffBase = 1
    BackoffMax = 1
    MaxAge = 0
    MaxRestarts = 0
    NoLease = NoLease
    NoWorker = NoWorker
SYMMETRY Symmetry
INVARIANTS
    OneHolderPerLease
