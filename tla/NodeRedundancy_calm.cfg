SPECIFICATION FairSpec
CONSTANTS
    Primary = Primary
    Backup = Backup
    FailoverThreshold = 1
    FailbackDelay = 3
    HeartbeatInterval = 2
    MaxStable = 2
    UnhealthyThreshold = 3
    StandbyCollects = {Primary, Backup}
    ColdStart = FALSE
    Faults = {"field"}
    MaxFaults = 3
    MaxVersion = 0
    MaxLag = 2
INVARIANTS
    OneActive
PROPERTIES
    HandoverSpec
