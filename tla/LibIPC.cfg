SPECIFICATION Spec
CONSTANTS
    c1 = c1
    c2 = c2
    s1 = s1
    s2 = s2
    m1 = m1
    m2 = m2
    m3 = m3
    Clients = {c1, c2}
    Servers = {s1}
    Segments = {m1, m2, m3}
    MAXIPCQUEUES = 1
    QUEUESIZE = 3
    MaxSem = 3
    NOPROCESS = NOPROCESS
    NONE = NONE
    Allowed = {}
INVARIANT FreedWhenBothDone
INVARIANT LibraryLives
INVARIANT NoLostWakeup
PROPERTY SyncMeansProcessed
PROPERTY ImplementsMailboxes
SYMMETRY Symmetric
CHECK_DEADLOCK FALSE
