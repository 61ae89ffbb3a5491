SPECIFICATION FairSpec
CONSTANTS
    Covers = {c1, c2}
    Works = {w1}
    Requests = {r1, r2}
    None = None
    MaxCovers = 1
    WaiterCap = 1
    Authors = 0
INVARIANTS
    DiscoverInvariant
    CoverFilesAreWhole
    OverLimitIsNoticed
PROPERTIES
    EveryRequestIsAnswered
