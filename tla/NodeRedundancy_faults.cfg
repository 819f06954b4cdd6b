SPECIFICATION Spec
CONSTANTS
    Primary = Primary
    Backup = Backup
    FailoverThreshold = 1
    FailbackDelay = 3
    HeartbeatInterval = 2
    MaxStable = 2
    UnhealthyThreshold = 1
    StandbyCollects = {}
    ColdStart = TRUE
    Faults = {"crash", "cut", "field", "loss", "reorder", "slow"}
    MaxFaults = 1
    MaxVersion = 0
    MaxLag = 0
INVARIANTS
    ActiveAtRest
PROPERTIES
    HealthyPrimaryStays
    FailbackWaits
CHECK_DEADLOCK FALSE
