CONSTANTS
    Procs = {p1, p2}
    AckCmds = {ResetTS}
    GetCmds = {GetId}
    ResetTS = ResetTS
    SharedReset = FALSE
    MaxCalls = 3
SPECIFICATION FairSpec
INVARIANTS
    OneCommandAtATime
    AnswerIsDue
PROPERTIES
    NoAnswerMissed
    CommandsEnd
CHECK_DEADLOCK FALSE
