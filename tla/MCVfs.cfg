\* One process, every order of opens; three live nodes or more at a time.
CONSTANTS
    Procs = {p1}
    Objects = {o1, o2, o3, o4}
    Inodes = {2, 3, 4, 5, 6, 7, 8}
    RootInode = 2
    Blocks <- MCBlocks
    CacheSize = 2
    InitrdFiles = {"f"}
    Devices <- MCDevices
    Paths <- MCPaths
    Modes = {1, 3}
    BlockSize = 3
    Direct = 2
    PerBlock = 1
    InitrdSize = 4
    Offsets = {0, 1, 2, 3, 6, 7, 8}
    Sizes = {0, 1, 2, 3, 4}
    MaxFds = 2
    MaxRefs = 2
SYMMETRY ObjectSymmetry
SPECIFICATION Spec
INVARIANTS CacheIsLive RefsCover FdLive ReadsNamedFile NodeAsserts
CHECK_DEADLOCK FALSE
