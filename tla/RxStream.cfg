CONSTANTS
    SOB = 7
    EOB = 8
    Frame = 1
    Report = 2
    MinLength = 4
    MaxLength = 6
    TransferSize = 6
    BufferSize = 12
    MaxUrbs = 2
    RingFrames = 1
    Units <- UnitsDefinition
    MaxUnits = 2
    MaxErrors = 1
SPECIFICATION FairSpec
INVARIANTS
    BufferBound
    DispatchedInOrder
    NoMessagePassedOver
    ReaderGetsStored
PROPERTIES
    ReadReturns
    StreamDrains
CHECK_DEADLOCK FALSE
