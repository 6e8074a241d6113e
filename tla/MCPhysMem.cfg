SPECIFICATION PhysSpec
CONSTANTS
    heap = heap
    driver = driver
    FrameSize = 16
    Boots <- MCBoots
    Owner <- MCOwner
    Requests <- MCRequests
INVARIANTS
    TypeOK
    CountExact
    NoFrameShared
    KernelKeptOut
    OomIsTrue
PROPERTIES
    ImplementsFrames
