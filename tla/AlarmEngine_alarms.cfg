SPECIFICATION Spec
CONSTANTS
    Rules = {r1}
    Web = {w1}
    InitialRules <- Later
    Settings = {"off", "now", "later"}
    Values <- Two
    MaxOccurrences = 2
    Events = {"edit", "promotion", "restart"}
    MaxEvents = 1
    MaxQueue = 1
INVARIANTS
    Accounted
    OneAlarm
CHECK_DEADLOCK FALSE
