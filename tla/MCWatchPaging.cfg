CONSTANTS
    Watches = {"w"}
    Passes = {"tick", "force"}
    Durations = {0, 1}
    BodyStates = {"", "alerting"}
    AgeCap = 1
    Env = {"nodata", "edit", "fault", "restart"}
    MaxEdits = 1
    MaxTroubles = 1
SPECIFICATION FairSpec
INVARIANTS TypeOK AlertingHasIncident FewDuplicates
PROPERTIES BreachAlerts FineEndsOK
