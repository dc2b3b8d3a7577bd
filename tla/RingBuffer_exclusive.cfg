CONSTANTS
    Size = 4
    Requests = {1, 2, 3, 5}
    ExclusiveClear = TRUE
    MaxBytes = 9
    MaxSkip = 5
    MaxClears = 1
SPECIFICATION Spec
INVARIANTS
    NoDataRace
PROPERTIES
    ImplementsFifo
CHECK_DEADLOCK FALSE
