CONSTANTS
    Files = {f1, f2}
    MaxRetry = 3
SPECIFICATION FairSpec
INVARIANTS
    KrefCounts
    OnlyIioFindsFreed
    LeavesOnlyThese
PROPERTIES
    UnplugFrees
CHECK_DEADLOCK FALSE
