SPECIFICATION FairSpec
CONSTANTS
    c1 = c1
    c2 = c2
    None = None
    CPU <- MCCpu
    MaxTid = 4
    Worker <- MCWorker
    Home <- MCHome
    Calls <- MCCalls
    Left <- MCLeft
    UserTask <- MCUser
    Keyboard <- MCKeyboard
    MaxIrqs = 1
INVARIANTS
    NoTaskLost
    QueueSound
PROPERTIES
    ImplementsWaitQueue
