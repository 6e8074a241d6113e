SPECIFICATION Spec
CONSTANTS
    None = None
    SectorSize = 4
    DirEntrySize = 2
    CACHE_SIZE = 8
    Body = 2
    Ext = 1
    Box <- MCBox
    Chunk = 4
    Disks <- MCFull
    Paths <- MCPaths
    Modes <- MCModes
    Buffers = {2, 7, 30}
    Moves = {0, 3, 6, 21}
    Segments <- MCSegments
CHECK_DEADLOCK FALSE
INVARIANTS
    ListsAll
