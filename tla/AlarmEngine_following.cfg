SPECIFICATION FairSpec
CONSTANTS
    Rules = {r1}
    Web = {w1}
    InitialRules <- Both
    Settings = {}
    Values <- Four
    MaxOccurrences = 2
    Events = {}
    MaxEvents = 0
    MaxQueue = 1
PROPERTIES
    Follows
    Finalized
CHECK_DEADLOCK FALSE
