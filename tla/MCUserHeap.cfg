SPECIFICATION Spec
CONSTANTS
    Grow = 6
    Page = 2
    MaxHeap = 18
    Sizes <- MCSizes
    Aligns <- MCAligns
CHECK_DEADLOCK FALSE
INVARIANT
    HeapSound
