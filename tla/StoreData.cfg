CONSTANTS
    a = a
    b = b
    Ids = {a, b}
    Frames <- FramesDefinition
    FrameBytes = 2
    RingBytes = 6
    ReadFrames = 1
    MaxEvents = 1
SPECIFICATION FairSpec
INVARIANTS
    ReadsTheStore
    OnePageAtATime
    ListIsFaithful
PROPERTIES
    ToolEnds
CHECK_DEADLOCK FALSE
