SPECIFICATION HSpec
CONSTANTS
    e1 = e1
    e2 = e2
    e3 = e3
    e4 = e4
    e5 = e5
    e6 = e6
    Events <- SixEvents
    NoEvent = NoEvent
    MAXEVENTS = 6
    TimeWidth = 8
    Times <- AroundTheWrap
SYMMETRY Symmetric
VIEW LiveState
INVARIANT Backpointers
INVARIANT OrderKept
PROPERTY ImplementsEventQueue
PROPERTY LoopsImplementSteps
