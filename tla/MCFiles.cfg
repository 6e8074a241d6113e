SPECIFICATION Spec
CONSTANTS
    a1 = a1
    a2 = a2
    b1 = b1
    w = w
    k1 = k1
    k2 = k2
    None = None
    Task <- MCTask
    Home <- MCHome
    Main <- MCMain
    Worker = w
    Blocks <- MCBlocks
    MaxOpens = 3
CHECK_DEADLOCK FALSE
INVARIANTS
    HandlesExact
    BlocksAccounted
