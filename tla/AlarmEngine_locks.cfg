SPECIFICATION FairSpec
CONSTANTS
    Rules = {r1}
    Web = {w1}
    InitialRules <- Later
    Settings = {"off", "later"}
    Values <- Two
    MaxOccurrences = 2
    Events = {"edit"}
    MaxEvents = 1
    MaxQueue = 1
PROPERTIES
    Finalized
CHECK_DEADLOCK FALSE
