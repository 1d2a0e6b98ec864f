CONSTANTS
    Incidents = {"i"}
    Engines = {"web", "alert"}
    Rules <- MCRules
    Delay <- MCDelay
    RepeatEnabled = TRUE
    RepeatLimit = 1
    AgeCap = 1
    SlowCalls = FALSE
    MaxGen = 2
    MaxRepeats = 0
    MaxRestarts = 1
    MaxFaults = 1
SPECIFICATION FairSpec
INVARIANTS TypeOK AtMostOneLatePage ResumableRowWasPaged RowFollowsMemory
PROPERTIES AckSurvivesLoop UnansweredReachesLastLevel
