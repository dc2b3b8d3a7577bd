CONSTANTS
    Procs = {p1, p2}
    MaxCalls = 3
    MaxFaults = 2
    Ch = {c1, c2}
    RateModes <- MCRateModes
    RangeModes <- MCRanges
    WaveModes = {1}
    Volts = {5170}
    Freqs = {0}
    Inputs <- MCInputs
    Outputs <- MCOutputs
    Net = net
    Rates = {125, 20}
    DefaultRate = 500
    Timings <- MCTimings
    Triggers <- MCTriggers
    Frames <- MCFrames
    MaxCount = 1
SPECIFICATION ProductsSpec
SYMMETRY Symmetry
INVARIANTS
    IfTypeNamesUser
    DataOfRun
    StoppedOrToldThrice
    SettingsInForce
    ShownIsHeld
PROPERTIES
    WritesTakeEffect
    ChangedWhileStopped
CHECK_DEADLOCK FALSE
