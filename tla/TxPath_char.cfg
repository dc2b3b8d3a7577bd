CONSTANTS
    MaxUrbs = 1
    Capacity = 2
    MaxToken = 1
    QuietStop = FALSE
    MayUnplug = TRUE
    MaxMsgs = 3
    MaxStops = 1
    MaxReports = 1
SPECIFICATION FairSpec
PROPERTIES
    RingDrains
    StopEnds
CHECK_DEADLOCK FALSE
