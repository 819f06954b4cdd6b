SPECIFICATION FairSpec
CONSTANTS
    Primary = Primary
    Backup = Backup
    FailoverThreshold = 1
    FailbackDelay = 1
    HeartbeatInterval = 1
    MaxStable = 2
    UnhealthyThreshold = 1
    StandbyCollects = {}
    ColdStart = FALSE
    Faults = {"crash", "cut", "field", "reorder"}
    MaxFaults = 1
    MaxVersion = 0
    MaxLag = 1
PROPERTIES
    SomebodyServes
    PrimaryReturns
CHECK_DEADLOCK FALSE
