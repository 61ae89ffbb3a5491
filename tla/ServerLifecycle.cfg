SPECIFICATION FairLifecycle
CONSTANTS
    MaxRespawns = 2
    MaxRetries = 1
CHECK_DEADLOCK FALSE
INVARIANTS
    LifecycleInvariant
PROPERTIES
    OneServerUnlessQuitting
    AttemptsEnd
    QuitEnds
