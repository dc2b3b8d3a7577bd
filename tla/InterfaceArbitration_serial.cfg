CONSTANTS
    Files = {f1, f2, f3, f4}
    SerialFiles = TRUE
    SerialNet = TRUE
SPECIFICATION Spec
INVARIANTS
    NoSimultaneousUse
    FramesReachUser
CHECK_DEADLOCK FALSE
