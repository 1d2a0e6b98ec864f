CONSTANTS
    Rows = {"r", "s"}
    Passes = {"tick"}
    Helpers = {"q"}
    HotRetention = 0
    WarmRetention = 1
    ColdRetention = 2
    CleanupAge <- MCCleanupAge
    Shift <- MCShift
    Lateness = 0
    Parsed = {"r"}
    SameSecond = FALSE
    MaxTime = 4
    MaxInsert = 1
    MaxTroubles = 2
SPECIFICATION FairSpec
INVARIANTS TypeOK RowKept ListedExists
PROPERTIES RetentionEnforced
