SPECIFICATION Spec
CONSTANTS
    a = a
    b = b
    c = c
    IdleLoop = IdleLoop
    Threads <- ThreeThreads
    Drivers = {c}
    Defer <- UnequalDefers
    Started <- TwoStarted
    Deadlines = {}
    TimeWidth = 8
    ByteWidth = 4
    MaxDepth = 2
    Allowed = {"wake","idle"}
INVARIANT RunningIsRoot
INVARIANT HeapsWhole
INVARIANT SpreadBounded
INVARIANT OneScheduler
INVARIANT QuantumEnds
VIEW RelativeState
