SPECIFICATION Spec
CONSTANTS
    PAGE_SIZE = 8
    MEM_SIZE = 40
    TABLE = 3
    LIMIT = 32
    LOW = 16
    HIGH = 31
    SPACE = 20
    CTR_ROW = 3
    CTR_COL = 4
    Byte = {0, 1, 2, 3, 4, 5}
    Address <- MCAddress
    Words <- MCWords
    Tables <- MCTables
    MaxStores = 2
INVARIANTS
    TypeOK
    LoadIsBytewise
    StoreIsBytewise
    StoreFailsOnlyIn
    ScreenFollows
CHECK_DEADLOCK FALSE
