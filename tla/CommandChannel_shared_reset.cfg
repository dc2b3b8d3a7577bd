CONSTANTS
    Procs = {p1, p2}
    AckCmds = {ResetTS, SetMode}
    GetCmds = {GetId}
    ResetTS = ResetTS
    SharedReset = TRUE
    MaxCalls = 2
SPECIFICATION Spec
INVARIANT
    ResetReturnsItsTime
CHECK_DEADLOCK FALSE
