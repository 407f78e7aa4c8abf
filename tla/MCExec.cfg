SPECIFICATION Spec
CONSTANTS
    ScanCode = {key}
    Quit = Quit
    NoKey = NoKey
    InterruptGate <- MCGates
    Watching = TRUE
    MaxInstr = 2
    MaxEvents = 1
    MaxFrames = 2
INVARIANTS
    TypeOK
    WireIffPending
PROPERTIES
    DiskRequestDelivered
    HaltedWakes
    StopEnds
    ImplementsMachine
CHECK_DEADLOCK FALSE
