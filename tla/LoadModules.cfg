SPECIFICATION Spec
CONSTANTS
    NIL = NIL
    GARBAGE = GARBAGE
    NOT_LOADED = NOT_LOADED
    t1 = t1
    t2 = t2
    Tasks = {t1, t2}
    Files <- MCFiles
    UsualLayout <- MCLayout
    TableSizes = {1, 2}
    Allowed = {}
INVARIANT NoStrayAccess
INVARIANT MemoryIsHeld
INVARIANT LoadedIsOwn
INVARIANT OneModulePerPlace
SYMMETRY Symmetric
