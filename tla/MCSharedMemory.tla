--------------------------- MODULE MCSharedMemory ---------------------------
(* An instance of SharedMemory for TLC: the owner and two threads that      *)
(* share an address space.                                                 *)
EXTENDS SharedMemory, TLC

CONSTANTS o, t1, t2

MCThreads == {o, t1, t2}
MCSpaces  == [t \in MCThreads |-> IF t = o THEN 1 ELSE 2]
Symmetric == Permutations(Cells) \cup Permutations({t1, t2}) \cup Permutations(LogAddrs)
=============================================================================
