SPECIFICATION DiskSpec
CONSTANTS
    ScanCode = {}
    Quit = Quit
    NoKey = NoKey
    InterruptGate <- MCGates
    Watching = TRUE
    MaxInstr = 2
    MaxEvents = 0
    MaxFrames = 2
    Size = 5
    Content <- MCContent
    Word = {0, 1}
    SectorSize = 2
    NR_SEC_CACHE = 2
    Offset <- MCOffset
    Nothing = Nothing
INVARIANTS
    DiskTypeOK
    NeverOverrunsSector
PROPERTIES
    ImplementsBlockDevice
    ReadEnds
    SleepsOnlyAfterPause
