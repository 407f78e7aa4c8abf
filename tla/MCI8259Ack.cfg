SPECIFICATION Spec
CONSTANTS
    Cpu = Cpu
    a1 = a1
    a2 = a2
    Raiser = {a1, a2}
    NoThread = NoThread
    Lines <- MCLines
INVARIANTS
    AcksWhatItRead
