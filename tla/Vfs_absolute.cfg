SPECIFICATION FilesSpec
CONSTANTS
    Parts = {"vfs"}
    Disk <- MCDisk
    BLOCK_SIZE = 2
    UMax = 6
    MountPaths <- MCMountPaths
    VfsPaths <- MCVfsPaths
    Rels <- MCRels
    Sizes = {1, 3}
    BadBlocks = {0, 2}
    Seeks <- MCSeeks
    FsMax = 2
    MaxPages = 4
    MaxFiles = 2
    MaxInodes = 4
    Paths <- MCPaths
    Data = {1}
    Tails = {1, 2}
    Direct = 1
    MapSize = 2
    MaxDentry = 4
    MaxInode = 4
    MaxFmap = 7
    MaxPage = 8
    CountSize = 4
    MaxOffset = 3
    MaxUnits = 8
    Beyond = FALSE
    BootOptions = {{"m", "b"}}
    PfsWords <- MCPfsWords
    PfsPaths <- MCPfsPaths
    MaxPfs = 4
    MAX_FD = 1
    PfsData = {"d"}
INVARIANTS
    RootFilesResolve
CHECK_DEADLOCK FALSE
