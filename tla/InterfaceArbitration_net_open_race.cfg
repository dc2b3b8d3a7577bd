CONSTANTS
    Files = {f1}
    SerialFiles = TRUE
    SerialNet = FALSE
SPECIFICATION Spec
INVARIANT
    NoSimultaneousUse
CHECK_DEADLOCK FALSE
