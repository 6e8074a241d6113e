SPECIFICATION Spec
SYMMETRY Symmetry
CONSTANTS
    t1 = t1
    t2 = t2
    t3 = t3
    t4 = t4
    Task <- MCTask
    Frames <- MCFrames
    MaxPid = 2
    Top = 8
    Region = 4
    Images <- MCImages
    Deltas <- MCDeltas
    InitPages = 1
    ExpandPages = 1
    MaxPages = 2
PROPERTIES
    FramesComeBack
CHECK_DEADLOCK FALSE
