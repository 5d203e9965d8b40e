SPECIFICATION FilesSpec
CONSTANTS
    Parts = {"kfs"}
    Disk <- MCDisk
    BLOCK_SIZE = 2
    UMax = 6
    MountPaths <- MCMountPaths
    VfsPaths <- MCVfsPaths
    Rels <- MCRels
    Sizes = {1, 3}
    BadBlocks = {0, 2}
    Seeks <- MCSeeks
    FsMax = 2
    MaxPages = 4
    MaxFiles = 2
    MaxInodes = 4
    Paths <- MCPaths
    Data = {1}
    Tails = {1, 2}
    Direct = 1
    MapSize = 2
    MaxDentry = 4
    MaxInode = 4
    MaxFmap = 10
    MaxPage = 10
    CountSize = 4
    MaxOffset = 3
    MaxUnits = 8
    Beyond = TRUE
    BootOptions = {{"m", "b"}}
    PfsWords <- MCPfsWords
    PfsPaths <- MCPfsPaths
    MaxPfs = 4
    MAX_FD = 1
    PfsData = {"d"}
INVARIANTS
    LargeFilesReadBack
CHECK_DEADLOCK FALSE
