SPECIFICATION FairSpec
CONSTANTS
    a = a
    b = b
    c = c
    IdleLoop = IdleLoop
    Threads <- ThreeThreads
    Drivers = {}
    Defer <- UnequalDefers
    Started <- AllStarted
    Deadlines = {}
    TimeWidth = 8
    ByteWidth = 4
    MaxDepth = 3
    Allowed = {}
PROPERTY NoStarvation
