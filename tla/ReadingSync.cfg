SPECIFICATION SyncSpec
CONSTANTS
    Devices = {d1}
    Browsers = {web}
    Progress = {w1, w2}
    Bookmarks = {b1}
    Highlights = {}
    Libraries = {l1}
    Lib <- OneLibrary
    Limit = 1
    MaxPercentage = 1
    MaxSeq = 5
    MaxEpoch = 1
    MaxXid = 3
    Lossy = FALSE
    CeilingQueryWorks = TRUE
SYMMETRY WorkSymmetry
CHECK_DEADLOCK FALSE
INVARIANTS
    SyncInvariant
PROPERTIES
    NothingMovesBack
    AnsweredReportCounts
    OverrideSticks
