SPECIFICATION Spec
CONSTANTS
    BlockSize = 2
    NGroups = 2
    NWays = 2
    MemSize = 10
    MaxLen = 2
    Byte <- MCByte
    Zero = 0
INVARIANTS
    TypeOK
    CacheCoherent
    NoDuplicateBlock
    ReadsLikeMemory
    WritesLikeMemory
