SPECIFICATION Spec
CONSTANTS
    Frames <- MCFrames
    Units = 3
    Descs = 2
    Sizes <- MCSizes
INVARIANTS
    HintsSound
    MemoryAccounted
PROPERTIES
    ImplementsArena
CHECK_DEADLOCK FALSE
