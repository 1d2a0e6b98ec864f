CONSTANTS
    Rules = {"cpu"}
    Labels = {"x"}
    Kind <- MCKind
    Series <- MCSeries
    SubRules <- MCSubRules
    NameOrder <- MCNameOrder
    EvalInterval <- MCInterval
    ForDuration <- MCFor
    KeepFiringFor <- MCKeep
    CleanupAge = 1
    AgeCap = 2
    MaxRestarts = 1
    Env = {"vanish", "error", "silence", "disable", "ack", "restart", "savefault"}
SPECIFICATION Spec
INVARIANTS TypeOK FiringMapAgrees StoreFaithful NoRepeatWithoutRecovery
PROPERTIES ForDurationHonoured
