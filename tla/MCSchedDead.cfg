SPECIFICATION Spec
CONSTANTS
    c1 = c1
    c2 = c2
    None = None
    CPU <- MCCpu
    MaxTid = 4
    Worker <- MCWorker
    Home <- MCHome
    Calls <- MCCalls
    Left <- MCLeft
    UserTask <- MCUser
    Keyboard <- MCKeyboard
    MaxIrqs = 0
CHECK_DEADLOCK FALSE
PROPERTY
    DeadStaysDead
