CONSTANTS
    MaxUrbs = 2
    Capacity = 2
    MaxToken = 1
    QuietStop = TRUE
    MayUnplug = TRUE
    MaxMsgs = 3
    MaxStops = 2
    MaxReports = 1
SPECIFICATION FairSpec
INVARIANTS
    SlotsConserved
PROPERTIES
    StopEnds
    ImplementsQueue
CHECK_DEADLOCK FALSE
