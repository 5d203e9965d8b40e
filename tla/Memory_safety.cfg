SPECIFICATION MemorySpec
CONSTANTS
    ustack_beg = 6
    Increments = {0, 1, 2}
    NbPages = 2
    MaxLineSlab = 4
    CacheLineSize = 2
    CounterSize = 4
    Sizes = {0, 1, 3, 5, 7, 8, 9}
    HeapLines = 7
    LineBytes = 4
    BINFO_SZ = 1
    WORD = 64
    Requests = {0, 3, 4, 8, 12, 20, 30, 40}
INVARIANTS
    RegionPartition
    PagesArePartitioned
    CountersAreExact
    ObjectsHaveRoom
    FailsOnlyIfFull
CHECK_DEADLOCK FALSE
