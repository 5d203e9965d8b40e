SPECIFICATION DevicesSpec
CONSTANTS
    Groups = {"tty", "irq", "reg", "bd", "soc", "fb"}
    Chips = {"soclib_tty", "ns16550"}
    Depth = 3
    Threads <- MCThreads
    BufSizes = {3}
    Keys = {"a", "BS", "CR", "LF"}
    MaxTyped = 3
    Trees <- MCTrees
    Wiring <- MCWiring
    MaxDevices = 4
    MaxMinor = 3
    WordSize = 8
    Sizes_ = {1, 2, 6}
    Ppb = 2
    DiskSize = 7
    BufSize = 2
    LineSize = 4
    LineWords = 2
    Sets = 1
    Cached = {0, 1}
    SurfaceSize = 2
    SegmentSize = 6
    CountSize = 4
    Deferred = 2
    RamLines = {0, 1, 2}
    FbLine = 4
    Programs <- MCPrograms
    Packets <- MCPackets
INVARIANTS
    CharactersStayInOrder
    LinesAreEdited
    DevicesHaveOneName
    InterruptsFindTheirDevice
    UserCopiesAvoidTheKernel
    TransfersAreComplete
    LoadsSeeTheLastStore
    ResponsesAreExpected
    PacketsAreAnswered
    PixelsAreShownOrScheduled
PROPERTIES
    KeysReachReaders
    AccessesAreAnswered
CHECK_DEADLOCK FALSE
