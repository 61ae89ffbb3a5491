SPECIFICATION FairProcess
CONSTANTS
    Calls = {r1, r2}
    MaxAttempts = 2
CHECK_DEADLOCK FALSE
INVARIANTS
    ProcessInvariant
    DrainedBeforeClose
    ServedOnlyWhenWired
PROPERTIES
    SignalEndsProcess
