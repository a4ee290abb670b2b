------------------------------- MODULE CKMemory -----------------------------
(***************************************************************************)
(* The memory of the Cache Kernel (development/CK/memory.c): one free list *)
(* behind CKFreeListLock, and the reservation of the memory of the machine *)
(* and of the boot modules when the kernel starts.                         *)
(*                                                                         *)
(* A call holds the lock from its beginning to its end and is one step.    *)
(***************************************************************************)
EXTENDS FreeList, Sequences

CONSTANTS LowMem, HighMem,   (* the memory below and above the kernel      *)
          Bios,              (* the BIOS area                              *)
          Modules,           (* what ABL has loaded, as a sequence         *)
          PAGESIZE,
          Sizes, Alignments, PageCounts,   (* what is asked for: bounds    *)
          MaxBlocks          (* blocks in use at a time: a bound           *)

(* Ranges are records of a start and a size in units. *)
Ranges       == [start : Nat, size : Nat \ {0}]
Units(range) == range.start .. range.start + range.size - 1

(* The start is rounded down to a page and the size up. *)
Pages(range) ==
    [start |-> (range.start \div PAGESIZE) * PAGESIZE,
     size |-> Align(range.size, PAGESIZE)]

(* What is reserved, and where memory and what is reserved begin and end. *)
Regions == {Bios} \cup { Pages(Modules[i]) : i \in DOMAIN Modules }
Borders == UNION { {range.start, range.start + range.size} : range \in {LowMem, HighMem} \cup Regions }

ASSUME CKMemoryAssumption ==
    /\ PAGESIZE \in Nat \ {0}
    /\ {LowMem, HighMem, Bios} \subseteq Ranges /\ Modules \in Seq(Ranges)
    /\ Sizes \subseteq Nat /\ PageCounts \subseteq Nat /\ Alignments \subseteq Nat \ {0}
    /\ Units(LowMem) \cap Units(HighMem) = {}
    /\ \A i \in DOMAIN Modules : Modules[i].start % PAGESIZE = 0

(* KLfreeListMemAllocRegion does not look whether what it leaves behind a
   region has room for an entry. *)
ASSUME RegionsFit ==
    /\ \A range \in {LowMem, HighMem} \cup Regions : range.size >= HEADER
    /\ \A range \in Regions : \A border \in Borders :
         border > range.start + range.size => border - (range.start + range.size) >= HEADER

VARIABLES
    freeList,         (* CKFreeListDescriptor and its entries              *)
    used,             (* the blocks in use: what was asked for at each     *)
    CKFreeListLock,   (* is held between two calls, and for ever           *)
    reserved,         (* history: what was really reserved                 *)
    boot              (* how far CKpageMarkHardwareDependent has come      *)

memoryVars == <<freeList, used, CKFreeListLock, reserved, boot>>

MemoryInit ==
    /\ freeList = EmptyHeap
    /\ used = << >>
    /\ CKFreeListLock = FALSE
    /\ reserved = {}
    /\ boot = 0

Booted == boot = 3 + Len(Modules)

-----------------------------------------------------------------------------
(* Starting the kernel. *)
AddMemory ==
    /\ boot \in {0, 1}
    /\ LET range == IF boot = 0 THEN LowMem ELSE HighMem
       IN  freeList' = MemFree(freeList, range.start, range.size)
    /\ boot' = boot + 1
    /\ UNCHANGED <<used, CKFreeListLock, reserved>>

(* CKmemAllocRegion, of which nobody looks whether it could. *)
Reserve(range) ==
    LET allocated == MemAllocRegion(freeList, range.start, range.size)
    IN  /\ freeList' = allocated.heap
        /\ reserved' = reserved \cup IF allocated.data = NIL THEN {} ELSE Units(range)
        /\ boot' = boot + 1
        /\ UNCHANGED <<used, CKFreeListLock>>

ReserveBios == boot = 2 /\ Reserve(Bios)

ReserveModule == boot >= 3 /\ ~Booted /\ Reserve(Pages(Modules[boot - 2]))

-----------------------------------------------------------------------------
(* A block is handed out, or NIL and nothing changes. *)
HandOut(allocated, size) ==
    /\ Booted /\ ~CKFreeListLock
    /\ Cardinality(DOMAIN used) < MaxBlocks
    /\ allocated.data # NIL
    /\ freeList' = allocated.heap
    /\ used' = With(used, allocated.data, size)
    /\ UNCHANGED <<CKFreeListLock, reserved, boot>>

CKmemAlloc(size)                 == HandOut(MemAllocAlign(freeList, size, 1), size)
CKmemAllocAlign(size, alignment) == HandOut(MemAllocAlign(freeList, size, alignment), size)
CKmemAllocPages(n)               == HandOut(MemAllocAlign(freeList, n * PAGESIZE, PAGESIZE), n * PAGESIZE)

CKmemFree(data) ==
    /\ Booted /\ ~CKFreeListLock
    /\ freeList' = MemFree(freeList, data, used[data])
    /\ used' = Without(used, data)
    /\ UNCHANGED <<CKFreeListLock, reserved, boot>>

(* The lock is taken, and CKmemFree waits for it: from here on no call on the
   memory returns. *)
CKmemFreePages(data) ==
    /\ Booted /\ ~CKFreeListLock
    /\ CKFreeListLock' = TRUE
    /\ UNCHANGED <<freeList, used, reserved, boot>>

MemoryNext ==
    \/ AddMemory \/ ReserveBios \/ ReserveModule
    \/ \E size \in Sizes : \/ CKmemAlloc(size)
                           \/ \E alignment \in Alignments : CKmemAllocAlign(size, alignment)
    \/ \E n \in PageCounts : CKmemAllocPages(n)
    \/ \E data \in DOMAIN used : CKmemFree(data) \/ CKmemFreePages(data)

MemorySpec == MemoryInit /\ [][MemoryNext]_memoryVars

-----------------------------------------------------------------------------
Extent(a)  == a .. a + freeList.entry[a].size - 1           (* of an entry *)
Block(d)   == d .. d + AdjustSize(used[d]) - 1              (* of a block  *)
Memory     == Units(LowMem) \cup Units(HighMem)
Chain      == Follow(freeList.FirstFreeEntry, [a \in Addresses(freeList) |-> freeList.entry[a].next],
                     Cardinality(Addresses(freeList)))

MemoryTypeOK ==
    /\ boot \in 0 .. 3 + Len(Modules)
    /\ CKFreeListLock \in BOOLEAN
    /\ DOMAIN freeList.FirstFreeSizeEntry = Tables
    /\ \A a \in Addresses(freeList) : freeList.entry[a].size \in Nat
    /\ \A d \in DOMAIN used : used[d] \in Nat

(* The list of addresses meets every entry once and in order, and every entry
   is in the size list of its size and in no other, linked both ways
   (KLfreeListInsert, KLfreeListRemove and their parts). *)
ListsWhole ==
    /\ MemoryTypeOK
    /\ { Chain[i] : i \in DOMAIN Chain } = Addresses(freeList)
    /\ \A i \in DOMAIN Chain :
         freeList.entry[Chain[i]].prev = IF i = 1 THEN NIL ELSE Chain[i - 1]
    /\ \A i, j \in DOMAIN Chain : i < j => Chain[i] < Chain[j]
    /\ \A t \in Tables : LET list == SizeList(freeList, t)
                         IN  /\ { list[i] : i \in DOMAIN list } =
                                  { a \in Addresses(freeList) :
                                      KLgetFastLookupToUse(freeList.entry[a].size) = t }
                             /\ \A i \in DOMAIN list :
                                  /\ freeList.entry[list[i]].lookupsize = t
                                  /\ freeList.entry[list[i]].prevsize =
                                       IF i = 1 THEN NIL ELSE list[i - 1]

(* Every unit of memory is in one block in use, in one entry or reserved; an
   entry has room for its own fields, two entries never touch, and FreeMemory
   is their sum: after any calls, what has been freed is whole again. *)
Partition ==
    /\ \A a, b \in Addresses(freeList) : a < b => a + freeList.entry[a].size < b
    /\ \A a \in Addresses(freeList) : freeList.entry[a].size >= HEADER
    /\ \A c, d \in DOMAIN used : c # d => Block(c) \cap Block(d) = {}
    /\ LET free == UNION { Extent(a) : a \in Addresses(freeList) }
           taken == UNION { Block(d) : d \in DOMAIN used }
       IN  /\ free \cap taken = {}
           /\ freeList.FreeMemory = Cardinality(free)
           /\ (free \cup taken) \cap reserved = {}
           /\ boot >= 2 => free \cup taken = Memory \ reserved

(* "Reserve bios area 0xa0000-0x100000", "Reserve the memory for the ABL-loaded
   modules" (CKpageMarkHardwareDependent): neither would be free nor handed out.
   This does not hold. *)
ReservedIsKept ==
    Booted => Units(Bios) \cup UNION { Units(Modules[i]) : i \in DOMAIN Modules } \subseteq reserved

(* Somewhere in an entry there is an aligned block of the size, with room for
   an entry, or nothing, on either side. *)
Possible(size, alignment) ==
    \E a \in Addresses(freeList) : \E data \in Extent(a) :
        /\ data % alignment = 0
        /\ data = a \/ data - a >= HEADER
        /\ Left(freeList, a, data, size) = 0 \/ Left(freeList, a, data, size) >= HEADER

(* An allocation fails only when no entry could give the block, whatever list
   its entry is in ("NIL - error" of CKmemAlloc and CKmemAllocAlign).  An entry
   is only tried at its first aligned address: when an alignment is smaller
   than an entry, what is left behind may be too small there and not at the
   next. *)
FailsOnlyWhenFull ==
    \A size \in Sizes : \A alignment \in Alignments \cup {1, PAGESIZE} :
        /\ alignment = 1 \/ alignment >= HEADER
        /\ Possible(AdjustSize(size), alignment)
        => MemAllocAlign(freeList, size, alignment).data # NIL
=============================================================================
