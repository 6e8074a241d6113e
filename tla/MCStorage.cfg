SPECIFICATION FairSpec
CONSTANTS
    t1 = t1
    t2 = t2
    isr = isr
    None = None
    Client <- MCClient
    NDrives = 2
    Setups <- MCSetups
    SectorSize = 2
    SectorCount = 6
    CACHE_SIZE = 4
    MaxSectors = 2
    ReadAddrs <- MCAddrs
    ReadSizes <- MCSizes
    SyncIos <- MCIos
INVARIANTS
    RequestOnce
    ReadsTrue
    AnswerIsOwn
PROPERTIES
    ImplementsIoService
