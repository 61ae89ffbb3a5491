SPECIFICATION FairSpec
CONSTANTS
    Editions = {e1, e2}
    Requests = {r1, r2, r3}
    Archives = {a1, a2}
    None = None
    MaxOpen = 1
    IdleTTL = 2
INVARIANTS
    CacheInvariant
    OpenWithinBound
PROPERTIES
    EveryRequestEnds
