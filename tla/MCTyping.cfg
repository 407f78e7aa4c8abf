SPECIFICATION Spec
CONSTANTS
    ScanCode = {a, b}
    NoKey = NoKey
    InterruptGate <- MCGates
    NULL = NULL
    SIZE = 2
    Text = {a, b}
    Period = 3
    Fall = 1
    Rise = 3
    Bottom = 4
    MaxMissed = 1
INVARIANTS
    TypeOK
    ListIntact
    NeverPanics
PROPERTIES
    HitsLowestPressed
    HitsAimed
    GameGoesOn
    EveryPressUsed
