CONSTANTS
    Rows = {"r", "s"}
    Passes = {"tick"}
    Helpers = {"q"}
    HotRetention = 0
    WarmRetention = 1
    ColdRetention = 2
    CleanupAge <- MCLater
    Shift <- MCShift
    Lateness = 0
    Parsed = {}
    SameSecond = FALSE
    MaxTime = 4
    MaxInsert = 1
    MaxTroubles = 0
SPECIFICATION Spec
INVARIANT KeptForColdRetention
