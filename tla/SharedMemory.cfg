SPECIFICATION Spec
CONSTANTS
    o = o
    t1 = t1
    t2 = t2
    Threads <- MCThreads
    Owner = o
    SpaceOf <- MCSpaces
    LogAddrs = {x, y}
    Cells = {c1, c2, c3}
    NIL = NIL
    Allowed = {}
INVARIANT ListsWhole
INVARIANT MappedWhileAttached
INVARIANT EveryoneIsTold
INVARIANT WalksAllocated
SYMMETRY Symmetric
\* Nothing can be done with an object that has been freed.
CHECK_DEADLOCK FALSE
