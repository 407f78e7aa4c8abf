SPECIFICATION EchoSpec
CONSTANTS
    press = press
    release = release
    ScanCode = {press, release}
    Letter = {press}
    Quit = Quit
    NoKey = NoKey
    InterruptGate <- MCGates
    Watching = TRUE
    MaxInstr = 2
    MaxEvents = 2
    MaxFrames = 5
INVARIANTS
    HandlersDoNotNest
PROPERTIES
    LastKeyIsRead
CHECK_DEADLOCK FALSE
