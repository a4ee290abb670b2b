SPECIFICATION Spec
CONSTANTS
    Objects <- Addresses
    NoObject = 0
    Stray = 0
    MaxOf <- Few
INVARIANT GraphIndexed
INVARIANT GraphIsLinks
INVARIANT ParentsLoaded
PROPERTY OnlyDependants
INVARIANT LockInUse
\* When every thread has unloaded itself nobody calls the kernel any more.
CHECK_DEADLOCK FALSE
VIEW LiveState
