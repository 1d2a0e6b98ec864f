CONSTANTS
    MaxSegments = 2
    SegCap = 1
    BufCap = 1
    HasCallback = TRUE
    Ckpts = {"tick"}
    RotationLag = 1
    MaxVal = 3
    MaxCrashes = 1
    MaxFaults = 1
SPECIFICATION FairSpec
PROPERTIES AppliedOncePerRun DurableLeadsToApplied
