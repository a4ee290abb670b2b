SPECIFICATION Spec
CONSTANTS
    Threads = {t1, t2}
    Kernels = {k1}
    Descriptors = {d1, d2, d3}
    NIL = NIL
    AddressSpan = 8
    IORequests <- MCRequests
    DMACHANNELS = 1
    Interrupts = {n1}
    Allowed = {}
INVARIANT Disjoint
INVARIANT HeldOnce
INVARIANT ReachesAllocators
INVARIANT WalksAllocators
SYMMETRY Symmetric
