------------------------------- MODULE FreeList -----------------------------
(***************************************************************************)
(* The free list allocator of the kernel library                           *)
(* (development/KL/Alloc/FreelistAlloc.c).  A free block holds its own     *)
(* entry: links of the list of all entries in the order of addresses,      *)
(* links of the list of the entries of about the same size, and its size.  *)
(*                                                                         *)
(* A heap is a record: the descriptor and the entries, a function from     *)
(* their addresses.  The operators return the heap that a routine leaves.  *)
(* Addresses and sizes are counted in units (AdjustSize rounds to four     *)
(* bytes); the hooks for chunks are NIL in the CK.                         *)
(***************************************************************************)
EXTENDS Integers, FiniteSets

CONSTANTS HEADER,   (* sizeof(KLfreeListEntry)                             *)
          Steps,    (* the sizes at which another size list begins         *)
          NIL       (* no address                                          *)

ASSUME FreeListAssumption ==
    HEADER \in Nat \ {0} /\ IsFiniteSet(Steps) /\ Steps \subseteq Int /\ NIL \notin Int

Tables == 0 .. Cardinality(Steps)

(* The list for entries of a size. *)
KLgetFastLookupToUse(size) == Cardinality({ s \in Steps : size >= s })

AdjustSize(size) == IF size < HEADER THEN HEADER ELSE size

EmptyHeap == [FirstFreeEntry |-> NIL, FirstFreeSizeEntry |-> [t \in Tables |-> NIL],
              FreeMemory |-> 0, entry |-> << >>]

Addresses(h) == DOMAIN h.entry

With(f, a, value) == [b \in DOMAIN f \cup {a} |-> IF b = a THEN value ELSE f[b]]
Without(f, a)     == [b \in DOMAIN f \ {a} |-> f[b]]

-----------------------------------------------------------------------------
(* Mutation: the entry that follows keeps its link to the entry removed. *)
SizeRemove_Next(h, a) ==
    LET e == h.entry[a]
    IN  IF e.prevsize = NIL
        THEN [h EXCEPT !.FirstFreeSizeEntry[e.lookupsize] = e.nextsize]
        ELSE [h EXCEPT !.entry[e.prevsize].nextsize = e.nextsize]

SizeRemove(h, a) ==
    LET e == h.entry[a]
        f == IF e.nextsize = NIL THEN h
             ELSE [h EXCEPT !.entry[e.nextsize].prevsize = e.prevsize]
    IN  IF e.prevsize = NIL
        THEN [f EXCEPT !.FirstFreeSizeEntry[e.lookupsize] = e.nextsize]
        ELSE [f EXCEPT !.entry[e.prevsize].nextsize = e.nextsize]

SizeInsert(h, a) ==
    LET t == KLgetFastLookupToUse(h.entry[a].size)
        first == h.FirstFreeSizeEntry[t]
        g == [h EXCEPT !.entry[a].lookupsize = t, !.entry[a].prevsize = NIL,
                       !.entry[a].nextsize = first, !.FirstFreeSizeEntry[t] = a]
    IN  IF first = NIL THEN g ELSE [g EXCEPT !.entry[first].prevsize = a]

Remove(h, a) ==
    LET e == h.entry[a]
        f == IF e.prev = NIL THEN [h EXCEPT !.FirstFreeEntry = e.next]
             ELSE [h EXCEPT !.entry[e.prev].next = e.next]
        g == IF e.next = NIL THEN f ELSE [f EXCEPT !.entry[e.next].prev = e.prev]
        s == SizeRemove(g, a)
    IN  [s EXCEPT !.entry = Without(@, a)]

(* A block becomes an entry between two others. *)
Insert(h, prev, a, size, next) ==
    LET e == [prev |-> prev, next |-> next, size |-> size,
              prevsize |-> NIL, nextsize |-> NIL, lookupsize |-> 0]
        f == [h EXCEPT !.entry = With(@, a, e)]
        g == IF prev = NIL THEN [f EXCEPT !.FirstFreeEntry = a]
             ELSE [f EXCEPT !.entry[prev].next = a]
        i == IF next = NIL THEN g ELSE [g EXCEPT !.entry[next].prev = a]
    IN  SizeInsert(i, a)

-----------------------------------------------------------------------------
(* The first n entries of a list in their order. *)
Follow(first, next, n) ==
    LET at[i \in 1 .. n + 1] ==
            IF i = 1 THEN first
            ELSE LET a == at[i - 1] IN IF a = NIL THEN NIL ELSE next[a]
    IN  [i \in { j \in 1 .. n : at[j] # NIL } |-> at[i]]

SizeList(h, t) ==
    Follow(h.FirstFreeSizeEntry[t], [a \in Addresses(h) |-> h.entry[a].nextsize],
           Cardinality(Addresses(h)))

Least(S)    == CHOOSE x \in S : \A y \in S : x <= y
Greatest(S) == CHOOSE x \in S : \A y \in S : x >= y

(* The first address at or after a that is aligned. *)
Align(a, alignment) == ((a + alignment - 1) \div alignment) * alignment

(* Where a block is put in an entry: a gap in front holds an entry itself. *)
Place(a, alignment) ==
    LET data == Align(a, alignment)
    IN  IF data # a /\ data - a < HEADER THEN Align(a + HEADER, alignment) ELSE data

(* What is left behind the block. *)
Left(h, a, data, size) == a + h.entry[a].size - (data + size)

(* The block is cut out of the entry; what is in front of it and behind it
   stays free. *)
Carve(h, a, data, size) ==
    LET e == h.entry[a]
        left == Left(h, a, data, size)
        removed == Remove(h, a)
        front == IF data = a THEN removed ELSE Insert(removed, e.prev, a, data - a, e.next)
        prev == IF data = a THEN e.prev ELSE a
        both == IF left = 0 THEN front ELSE Insert(front, prev, data + size, left, e.next)
    IN  [both EXCEPT !.FreeMemory = @ - size]

(* The block fits, exactly or with room for an entry behind it. *)
Fits(h, a, size, alignment) ==
    LET left == Left(h, a, Place(a, alignment), size) IN left = 0 \/ left >= HEADER

(* In a size list: the first exact fit, or else the last of the best. *)
Choice(h, t, size, alignment) ==
    LET list == SizeList(h, t)
        left(i) == Left(h, list[i], Place(list[i], alignment), size)
        fits == { i \in DOMAIN list : Fits(h, list[i], size, alignment) }
        best == { i \in fits : \A j \in fits : left(i) <= left(j) }
    IN  IF fits = {} THEN NIL
        ELSE IF left(Least(best)) = 0 THEN list[Least(best)] ELSE list[Greatest(best)]

(* Mutation: the search begins at the list after. *)
FirstTable_Next(size) == KLgetFastLookupToUse(size) + 1

(* The size list at which a search begins. *)
FirstTable(size) == KLgetFastLookupToUse(size)

(* KLfreeListMemAllocAlign, and KLfreeListMemAlloc when alignment is 1. *)
MemAllocAlign(h, request, alignment) ==
    LET size == AdjustSize(request)
        tables == { t \in Tables : t >= FirstTable(size) /\ Choice(h, t, size, alignment) # NIL }
        a == Choice(h, Least(tables), size, alignment)
        data == Place(a, alignment)
    IN  IF tables = {} THEN [heap |-> h, data |-> NIL]
        ELSE [heap |-> Carve(h, a, data, size), data |-> data]

(* KLfreeListMemAllocRegion.  A size list is searched up to the first entry
   that decides: one behind the region, which ends the search of the list, one
   that begins just in front of it, which ends all, or one that holds it. *)
MemAllocRegion(h, data, request) ==
    LET size == AdjustSize(request)
        past(a)   == a > data
        narrow(a) == a < data /\ data - a < HEADER
        holds(a)  == a <= data /\ a + h.entry[a].size >= data /\ Left(h, a, data, size) >= 0
        deciding(t) == LET list == SizeList(h, t)
                       IN  { i \in DOMAIN list : past(list[i]) \/ narrow(list[i]) \/ holds(list[i]) }
        decision(t) == SizeList(h, t)[Least(deciding(t))]
        tables == { t \in Tables : /\ t >= KLgetFastLookupToUse(size)
                                   /\ deciding(t) # {} /\ ~past(decision(t)) }
        a == decision(Least(tables))
    IN  IF tables = {} \/ narrow(a) THEN [heap |-> h, data |-> NIL]
        ELSE [heap |-> Carve(h, a, data, size), data |-> data]

-----------------------------------------------------------------------------
(* Mutation: a block is not joined with the entry behind it. *)
JoinNext_Never(h, data, size, next) == [heap |-> h, size |-> size, next |-> next]

(* The block takes in the entry behind it. *)
JoinNext(h, data, size, next) ==
    IF next # NIL /\ data + size = next
    THEN [heap |-> Remove(h, next), size |-> size + h.entry[next].size, next |-> h.entry[next].next]
    ELSE [heap |-> h, size |-> size, next |-> next]

(* KLfreeListMemFree: the block is joined with the entries next to it. *)
MemFree(h, block, request) ==
    LET size == AdjustSize(request)
        before == { a \in Addresses(h) : a <= block }
        after  == Addresses(h) \ before
        prev == IF before = {} THEN NIL ELSE Greatest(before)
        next == IF after = {} THEN NIL ELSE Least(after)
        joins == prev # NIL /\ prev + h.entry[prev].size = block
        front == IF ~joins THEN [heap |-> h, data |-> block, size |-> size, prev |-> prev]
                 ELSE [heap |-> Remove(h, prev), data |-> prev,
                       size |-> size + h.entry[prev].size, prev |-> h.entry[prev].prev]
        back == JoinNext(front.heap, front.data, front.size, next)
        inserted == Insert(back.heap, front.prev, front.data, back.size, back.next)
    IN  [inserted EXCEPT !.FreeMemory = @ + size]
=============================================================================
