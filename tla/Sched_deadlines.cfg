SPECIFICATION Spec
CONSTANTS
    a = a
    b = b
    c = c
    IdleLoop = IdleLoop
    Threads <- TwoThreads
    Drivers = {b}
    Defer <- UnequalTwo
    Started <- TwoStarted
    Deadlines = {3, 6}
    TimeWidth = 8
    ByteWidth = 4
    MaxDepth = 2
    Allowed = {"wake", "preempted wake", "tunnel"}
INVARIANT InItsHeap
PROPERTY DeadlineOnRequest
VIEW AbsoluteState
