CONSTANTS
    Rules = {"cpu", "up", "all"}
    Labels = {"x"}
    Kind <- MCKind
    Series <- MCSeries
    SubRules <- MCSubRules
    NameOrder <- MCNameOrder
    EvalInterval <- MCInterval
    ForDuration <- MCFor
    KeepFiringFor <- MCNoKeep
    CleanupAge = 0
    AgeCap = 2
    MaxRestarts = 0
    Env = {"error"}
SPECIFICATION FairSpec
PROPERTIES ConditionGoneLeadsToResolved
