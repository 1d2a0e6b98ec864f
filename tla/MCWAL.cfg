CONSTANTS
    MaxSegments = 2
    SegCap = 1
    BufCap = 1
    HasCallback = TRUE
    Ckpts = {"tick", "force"}
    RotationLag = 1
    MaxVal = 4
    MaxCrashes = 1
    MaxFaults = 1
SPECIFICATION Spec
INVARIANTS TypeOK NothingDroppedUnapplied DurableUntilApplied LogIsPending SequenceOrdersLog
