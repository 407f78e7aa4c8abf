SPECIFICATION EchoSpec
CONSTANTS
    press = press
    release = release
    ScanCode = {press, release}
    Letter = {press}
    Quit = Quit
    NoKey = NoKey
    InterruptGate <- MCGates
    Watching = FALSE
    MaxInstr = 2
    MaxEvents = 2
    MaxFrames = 5
PROPERTIES
    EveryKeyIsRead
CHECK_DEADLOCK FALSE
