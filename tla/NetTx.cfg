CONSTANTS
    MaxUrbs = 2
    Capacity = 1
    MaxToken = 1
    QuietStop = FALSE
    MayUnplug = TRUE
    MaxMsgs = 2
    MaxStops = 1
    MaxReports = 1
SPECIFICATION NetFairSpec
INVARIANTS
    QueueHasCause
    XmitIsTaken
    EchoWasSent
    NetdevOutlivesUse
PROPERTIES
    QueueReopens
    NetUnplugEnds
CHECK_DEADLOCK FALSE
