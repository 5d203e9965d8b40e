SPECIFICATION DevicesSpec
CONSTANTS
    Groups = {"bd"}
    Depth = 3
    Threads <- MCThreads
    BufSizes = {3}
    Chips = {"soclib_tty"}
    Keys = {"a", "BS", "CR", "LF"}
    MaxTyped = 3
    Trees <- MCTrees
    Wiring <- MCWiring
    MaxDevices = 4
    MaxMinor = 3
    WordSize = 8
    Sizes_ = {1, 2, 6}
    Ppb = 2
    DiskSize = 7
    BufSize = 4
    LineSize = 4
    LineWords = 2
    Sets = 1
    Cached = {0, 1}
    SurfaceSize = 2
    SegmentSize = 6
    CountSize = 4
    Deferred = 2
    RamLines = {0, 1, 2}
    FbLine = 4
    Programs <- MCPrograms
    Packets <- MCPackets
INVARIANTS
    CachedLinesAreFresh
CHECK_DEADLOCK FALSE
