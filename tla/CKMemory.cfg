SPECIFICATION MemorySpec
CONSTANTS
    HEADER = 2
    Steps = {4, 8}
    NIL = NIL
    LowMem <- MCLow
    HighMem <- MCHigh
    Bios <- MCBios
    Modules <- MCModules
    PAGESIZE = 4
    Sizes = {1, 3, 4}
    Alignments = {2}
    PageCounts = {1}
    MaxBlocks = 5
INVARIANT ListsWhole
INVARIANT Partition
INVARIANT FailsOnlyWhenFull
\* CKmemFreePages waits for itself.
CHECK_DEADLOCK FALSE
