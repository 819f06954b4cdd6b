SPECIFICATION SyncSpec
CONSTANTS
    Primary = Primary
    Backup = Backup
    FailoverThreshold = 1
    FailbackDelay = 1
    HeartbeatInterval = 1
    MaxStable = 1
    UnhealthyThreshold = 1
    StandbyCollects = {}
    ColdStart = FALSE
    Faults = {"crash", "cut"}
    MaxFaults = 1
    MaxVersion = 1
    MaxLag = 0
PROPERTIES
    SplitBrainNoticed
    SplitBrainHeals
CHECK_DEADLOCK FALSE
