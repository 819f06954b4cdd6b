SPECIFICATION FairSpec
CONSTANTS
    Rules = {r1}
    Web = {w1}
    InitialRules <- Now
    Settings = {}
    Values <- Two
    MaxOccurrences = 2
    Events = {"promotion"}
    MaxEvents = 1
    MaxQueue = 1
PROPERTIES
    Follows
CHECK_DEADLOCK FALSE
