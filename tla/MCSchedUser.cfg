SPECIFICATION FairSpec
CONSTANTS
    c1 = c1
    None = None
    CPU <- MCCpu
    MaxTid = 4
    Worker <- MCWorker
    Home <- MCHome
    Calls <- MCCalls
    Left <- MCLeft
    UserTask <- MCUser
    Keyboard <- MCKeyboard
    MaxIrqs = 0
INVARIANT
    LoadExact
PROPERTIES
    DeadAreDropped
    SleepersWake
