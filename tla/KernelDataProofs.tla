--------------------------- MODULE KernelDataProofs -------------------------
(***************************************************************************)
(* Theorems about the data structures that the kernel's parts rest on: its *)
(* memory, for every machine, header, set of size lists and set of calls;  *)
(* and one priority heap, for every set of events, every size of the array *)
(* and every set of times.                                                 *)
(***************************************************************************)
EXTENDS PriHeap, CKMemory, FiniteSets, FiniteSetTheorems, NaturalsInduction,
        WellFoundedInduction, SequenceTheorems, TLAPS

-----------------------------------------------------------------------------
(* The free list and the memory of the Cache Kernel.                        *)

(* The free list: pointers, entries and heaps by the addresses of entries.  *)
Pointers == Int \cup {NIL}
Entry    == [prev : Pointers, next : Pointers, size : Int,
             prevsize : Pointers, nextsize : Pointers, lookupsize : Int]
FreeLists(A) == [FirstFreeEntry : Pointers, FirstFreeSizeEntry : [Tables -> Pointers],
                 FreeMemory : Int, entry : [A -> Entry]]

PutPrev(h, a, v) == [h EXCEPT !.entry[a].prev = v]

(* An entry is linked to another in front of it.                            *)
LEMMA PutPrevIs ==
    ASSUME NEW A, NEW h \in FreeLists(A), NEW a, NEW v \in Pointers,
           NEW k, k = PutPrev(h, a, v)
    PROVE  /\ k \in FreeLists(A)
           /\ k.FirstFreeEntry = h.FirstFreeEntry
           /\ k.FirstFreeSizeEntry = h.FirstFreeSizeEntry
           /\ k.FreeMemory = h.FreeMemory
           /\ \A b \in A : k.entry[b] = IF b = a THEN [h.entry[b] EXCEPT !.prev = v] ELSE h.entry[b]
           /\ \A b \in A : k.entry[b].prev = IF b = a THEN v ELSE h.entry[b].prev
           /\ \A b \in A : k.entry[b].next = h.entry[b].next
           /\ \A b \in A : k.entry[b].prevsize = h.entry[b].prevsize
           /\ \A b \in A : k.entry[b].nextsize = h.entry[b].nextsize
           /\ \A b \in A : k.entry[b].lookupsize = h.entry[b].lookupsize
           /\ \A b \in A : k.entry[b].size = h.entry[b].size
<1>1. h.entry \in [A -> Entry]
  BY DEF FreeLists
<1>2. \A b \in A : k.entry[b] = IF b = a THEN [h.entry[b] EXCEPT !.prev = v] ELSE h.entry[b]
  BY <1>1 DEF FreeLists, PutPrev
<1>3. \A b \in A : h.entry[b] \in Entry
  BY <1>1
<1>4. \A b \in A : [h.entry[b] EXCEPT !.prev = v] \in Entry
  BY <1>3 DEF Entry
<1>5. k \in FreeLists(A)
  BY <1>4 DEF FreeLists, PutPrev
<1>6. /\ k.FirstFreeEntry = h.FirstFreeEntry
      /\ k.FirstFreeSizeEntry = h.FirstFreeSizeEntry
      /\ k.FreeMemory = h.FreeMemory
  BY DEF FreeLists, PutPrev
<1> QED BY <1>2, <1>3, <1>5, <1>6 DEF Entry

PutNext(h, a, v) == [h EXCEPT !.entry[a].next = v]

(* An entry is linked to another behind it.                                 *)
LEMMA PutNextIs ==
    ASSUME NEW A, NEW h \in FreeLists(A), NEW a, NEW v \in Pointers,
           NEW k, k = PutNext(h, a, v)
    PROVE  /\ k \in FreeLists(A)
           /\ k.FirstFreeEntry = h.FirstFreeEntry
           /\ k.FirstFreeSizeEntry = h.FirstFreeSizeEntry
           /\ k.FreeMemory = h.FreeMemory
           /\ \A b \in A : k.entry[b] = IF b = a THEN [h.entry[b] EXCEPT !.next = v] ELSE h.entry[b]
           /\ \A b \in A : k.entry[b].next = IF b = a THEN v ELSE h.entry[b].next
           /\ \A b \in A : k.entry[b].prev = h.entry[b].prev
           /\ \A b \in A : k.entry[b].prevsize = h.entry[b].prevsize
           /\ \A b \in A : k.entry[b].nextsize = h.entry[b].nextsize
           /\ \A b \in A : k.entry[b].lookupsize = h.entry[b].lookupsize
           /\ \A b \in A : k.entry[b].size = h.entry[b].size
<1>1. h.entry \in [A -> Entry]
  BY DEF FreeLists
<1>2. \A b \in A : k.entry[b] = IF b = a THEN [h.entry[b] EXCEPT !.next = v] ELSE h.entry[b]
  BY <1>1 DEF FreeLists, PutNext
<1>3. \A b \in A : h.entry[b] \in Entry
  BY <1>1
<1>4. \A b \in A : [h.entry[b] EXCEPT !.next = v] \in Entry
  BY <1>3 DEF Entry
<1>5. k \in FreeLists(A)
  BY <1>4 DEF FreeLists, PutNext
<1>6. /\ k.FirstFreeEntry = h.FirstFreeEntry
      /\ k.FirstFreeSizeEntry = h.FirstFreeSizeEntry
      /\ k.FreeMemory = h.FreeMemory
  BY DEF FreeLists, PutNext
<1> QED BY <1>2, <1>3, <1>5, <1>6 DEF Entry

PutPrevsize(h, a, v) == [h EXCEPT !.entry[a].prevsize = v]

(* An entry is linked to one in front of it in its size list.               *)
LEMMA PutPrevsizeIs ==
    ASSUME NEW A, NEW h \in FreeLists(A), NEW a, NEW v \in Pointers,
           NEW k, k = PutPrevsize(h, a, v)
    PROVE  /\ k \in FreeLists(A)
           /\ k.FirstFreeEntry = h.FirstFreeEntry
           /\ k.FirstFreeSizeEntry = h.FirstFreeSizeEntry
           /\ k.FreeMemory = h.FreeMemory
           /\ \A b \in A : k.entry[b] = IF b = a THEN [h.entry[b] EXCEPT !.prevsize = v] ELSE h.entry[b]
           /\ \A b \in A : k.entry[b].prevsize = IF b = a THEN v ELSE h.entry[b].prevsize
           /\ \A b \in A : k.entry[b].prev = h.entry[b].prev
           /\ \A b \in A : k.entry[b].next = h.entry[b].next
           /\ \A b \in A : k.entry[b].nextsize = h.entry[b].nextsize
           /\ \A b \in A : k.entry[b].lookupsize = h.entry[b].lookupsize
           /\ \A b \in A : k.entry[b].size = h.entry[b].size
<1>1. h.entry \in [A -> Entry]
  BY DEF FreeLists
<1>2. \A b \in A : k.entry[b] = IF b = a THEN [h.entry[b] EXCEPT !.prevsize = v] ELSE h.entry[b]
  BY <1>1 DEF FreeLists, PutPrevsize
<1>3. \A b \in A : h.entry[b] \in Entry
  BY <1>1
<1>4. \A b \in A : [h.entry[b] EXCEPT !.prevsize = v] \in Entry
  BY <1>3 DEF Entry
<1>5. k \in FreeLists(A)
  BY <1>4 DEF FreeLists, PutPrevsize
<1>6. /\ k.FirstFreeEntry = h.FirstFreeEntry
      /\ k.FirstFreeSizeEntry = h.FirstFreeSizeEntry
      /\ k.FreeMemory = h.FreeMemory
  BY DEF FreeLists, PutPrevsize
<1> QED BY <1>2, <1>3, <1>5, <1>6 DEF Entry

PutNextsize(h, a, v) == [h EXCEPT !.entry[a].nextsize = v]

(* An entry is linked to one behind it in its size list.                    *)
LEMMA PutNextsizeIs ==
    ASSUME NEW A, NEW h \in FreeLists(A), NEW a, NEW v \in Pointers,
           NEW k, k = PutNextsize(h, a, v)
    PROVE  /\ k \in FreeLists(A)
           /\ k.FirstFreeEntry = h.FirstFreeEntry
           /\ k.FirstFreeSizeEntry = h.FirstFreeSizeEntry
           /\ k.FreeMemory = h.FreeMemory
           /\ \A b \in A : k.entry[b] = IF b = a THEN [h.entry[b] EXCEPT !.nextsize = v] ELSE h.entry[b]
           /\ \A b \in A : k.entry[b].nextsize = IF b = a THEN v ELSE h.entry[b].nextsize
           /\ \A b \in A : k.entry[b].prev = h.entry[b].prev
           /\ \A b \in A : k.entry[b].next = h.entry[b].next
           /\ \A b \in A : k.entry[b].prevsize = h.entry[b].prevsize
           /\ \A b \in A : k.entry[b].lookupsize = h.entry[b].lookupsize
           /\ \A b \in A : k.entry[b].size = h.entry[b].size
<1>1. h.entry \in [A -> Entry]
  BY DEF FreeLists
<1>2. \A b \in A : k.entry[b] = IF b = a THEN [h.entry[b] EXCEPT !.nextsize = v] ELSE h.entry[b]
  BY <1>1 DEF FreeLists, PutNextsize
<1>3. \A b \in A : h.entry[b] \in Entry
  BY <1>1
<1>4. \A b \in A : [h.entry[b] EXCEPT !.nextsize = v] \in Entry
  BY <1>3 DEF Entry
<1>5. k \in FreeLists(A)
  BY <1>4 DEF FreeLists, PutNextsize
<1>6. /\ k.FirstFreeEntry = h.FirstFreeEntry
      /\ k.FirstFreeSizeEntry = h.FirstFreeSizeEntry
      /\ k.FreeMemory = h.FreeMemory
  BY DEF FreeLists, PutNextsize
<1> QED BY <1>2, <1>3, <1>5, <1>6 DEF Entry

PutFirst(h, v) == [h EXCEPT !.FirstFreeEntry = v]

(* The list of addresses gets another first entry.                          *)
LEMMA PutFirstIs ==
    ASSUME NEW A, NEW h \in FreeLists(A), NEW v \in Pointers
    PROVE  /\ PutFirst(h, v) \in FreeLists(A)
           /\ PutFirst(h, v).FirstFreeEntry = v
           /\ PutFirst(h, v).FirstFreeSizeEntry = h.FirstFreeSizeEntry
           /\ PutFirst(h, v).FreeMemory = h.FreeMemory
           /\ PutFirst(h, v).entry = h.entry
BY DEF FreeLists, PutFirst

PutMemory(h, v) == [h EXCEPT !.FreeMemory = v]

(* FreeMemory is set.                                                       *)
LEMMA PutMemoryIs ==
    ASSUME NEW A, NEW h \in FreeLists(A), NEW v \in Int
    PROVE  /\ PutMemory(h, v) \in FreeLists(A)
           /\ PutMemory(h, v).FirstFreeEntry = h.FirstFreeEntry
           /\ PutMemory(h, v).FirstFreeSizeEntry = h.FirstFreeSizeEntry
           /\ PutMemory(h, v).FreeMemory = v
           /\ PutMemory(h, v).entry = h.entry
BY DEF FreeLists, PutMemory

PutFirstSize(h, t, v) == [h EXCEPT !.FirstFreeSizeEntry[t] = v]

(* A size list gets another first entry.                                    *)
LEMMA PutFirstSizeIs ==
    ASSUME NEW A, NEW h \in FreeLists(A), NEW t \in Tables, NEW v \in Pointers
    PROVE  /\ PutFirstSize(h, t, v) \in FreeLists(A)
           /\ PutFirstSize(h, t, v).FirstFreeEntry = h.FirstFreeEntry
           /\ \A s \in Tables : PutFirstSize(h, t, v).FirstFreeSizeEntry[s] = IF s = t THEN v ELSE h.FirstFreeSizeEntry[s]
           /\ PutFirstSize(h, t, v).FreeMemory = h.FreeMemory
           /\ PutFirstSize(h, t, v).entry = h.entry
BY DEF FreeLists, PutFirstSize

Taken(h, a) == [h EXCEPT !.entry = Without(@, a)]

(* An entry becomes a block.                                                *)
LEMMA TakenIs ==
    ASSUME NEW A, NEW h \in FreeLists(A), NEW a,
           NEW k, k = Taken(h, a)
    PROVE  /\ k \in FreeLists(A \ {a})
           /\ k.FirstFreeEntry = h.FirstFreeEntry
           /\ k.FirstFreeSizeEntry = h.FirstFreeSizeEntry
           /\ k.FreeMemory = h.FreeMemory
           /\ \A b \in A \ {a} : k.entry[b] = h.entry[b]
<1>1. Without(h.entry, a) = [b \in A \ {a} |-> h.entry[b]]
  BY DEF FreeLists, Without
<1>2. [b \in A \ {a} |-> h.entry[b]] \in [A \ {a} -> Entry]
  BY DEF FreeLists
<1>3. k = [h EXCEPT !.entry = [b \in A \ {a} |-> h.entry[b]]]
  BY <1>1 DEF Taken
<1> QED BY <1>2, <1>3 DEF FreeLists

PutLookup(h, a, t, v) == [h EXCEPT !.entry[a].lookupsize = t, !.entry[a].prevsize = NIL,
                                         !.entry[a].nextsize = v, !.FirstFreeSizeEntry[t] = a]

(* An entry becomes the first of a size list.                               *)
LEMMA PutLookupIs ==
    ASSUME NEW A, NEW h \in FreeLists(A), NEW a \in A, NEW t \in Tables, NEW v \in Pointers, a \in Int,
           NEW k, k = PutLookup(h, a, t, v)
    PROVE  /\ k \in FreeLists(A)
           /\ k.FirstFreeEntry = h.FirstFreeEntry
           /\ \A s \in Tables : k.FirstFreeSizeEntry[s] = IF s = t THEN a ELSE h.FirstFreeSizeEntry[s]
           /\ k.FreeMemory = h.FreeMemory
           /\ \A b \in A : k.entry[b].lookupsize = IF b = a THEN t ELSE h.entry[b].lookupsize
           /\ \A b \in A : k.entry[b].prevsize = IF b = a THEN NIL ELSE h.entry[b].prevsize
           /\ \A b \in A : k.entry[b].nextsize = IF b = a THEN v ELSE h.entry[b].nextsize
           /\ \A b \in A : k.entry[b].prev = h.entry[b].prev
           /\ \A b \in A : k.entry[b].next = h.entry[b].next
           /\ \A b \in A : k.entry[b].size = h.entry[b].size
<1> DEFINE e == [h.entry[a] EXCEPT !.lookupsize = t, !.prevsize = NIL, !.nextsize = v]
<1>1. h.entry \in [A -> Entry] /\ h.FirstFreeSizeEntry \in [Tables -> Pointers] /\ h.entry[a] \in Entry
  BY DEF FreeLists
<1>2. /\ e \in Entry /\ e.lookupsize = t /\ e.prevsize = NIL /\ e.nextsize = v
      /\ e.prev = h.entry[a].prev /\ e.next = h.entry[a].next /\ e.size = h.entry[a].size
  <2>1. Cardinality(Steps) \in Nat
    BY FreeListAssumption, FS_CardinalityType
  <2>2. t \in Int /\ NIL \in Pointers
    BY <2>1 DEF Tables, Pointers
  <2> QED BY <1>1, <2>2 DEF Entry
<1>3. k = [h EXCEPT !.entry = [h.entry EXCEPT ![a] = e],
                    !.FirstFreeSizeEntry = [h.FirstFreeSizeEntry EXCEPT ![t] = a]]
  BY <1>1 DEF FreeLists, Entry, PutLookup
<1> HIDE DEF e
<1>4. /\ k.entry = [h.entry EXCEPT ![a] = e]
      /\ k.FirstFreeSizeEntry = [h.FirstFreeSizeEntry EXCEPT ![t] = a]
      /\ k.FirstFreeEntry = h.FirstFreeEntry
      /\ k.FreeMemory = h.FreeMemory
  BY <1>3 DEF FreeLists
<1>5. k.entry \in [A -> Entry] /\ k.FirstFreeSizeEntry \in [Tables -> Pointers]
  BY <1>1, <1>2, <1>4 DEF Pointers
<1>6. k \in FreeLists(A)
  BY <1>3, <1>4, <1>5 DEF FreeLists
<1>7. \A b \in A : k.entry[b] = IF b = a THEN e ELSE h.entry[b]
  BY <1>1, <1>4
<1> QED BY <1>1, <1>2, <1>4, <1>6, <1>7

(* The size lists are numbered from 0.                                      *)
LEMMA TablesAre == Cardinality(Steps) \in Nat /\ Tables \subseteq Int /\ 0 \in Tables
BY FreeListAssumption, FS_CardinalityType DEF Tables

(* Every size has a list (KLgetFastLookupToUse).                            *)
LEMMA TableIs ==
    ASSUME NEW size \in Int
    PROVE  KLgetFastLookupToUse(size) \in Tables
<1> DEFINE S == { s \in Steps : size >= s }
<1>1. S \subseteq Steps /\ IsFiniteSet(Steps)
  BY FreeListAssumption
<1>2. IsFiniteSet(S) /\ Cardinality(S) <= Cardinality(Steps)
  BY <1>1, FS_Subset
<1>3. Cardinality(S) \in Nat /\ Cardinality(Steps) \in Nat
  BY <1>1, <1>2, FS_CardinalityType
<1> HIDE DEF S
<1>4. Cardinality(S) \in 0 .. Cardinality(Steps)
  BY <1>2, <1>3
<1> QED BY <1>4 DEF KLgetFastLookupToUse, Tables, S

(* What an entry that is taken out leaves: its neighbours in the two lists  *)
(* are linked to each other.                                                *)
Removed(h, k, A, a, e) ==
    /\ k \in FreeLists(A \ {a})
    /\ k.FreeMemory = h.FreeMemory
    /\ k.FirstFreeEntry = IF e.prev = NIL THEN e.next ELSE h.FirstFreeEntry
    /\ \A t \in Tables : k.FirstFreeSizeEntry[t] =
                 IF e.prevsize = NIL /\ t = e.lookupsize THEN e.nextsize ELSE h.FirstFreeSizeEntry[t]
    /\ \A b \in A \ {a} : k.entry[b].size = h.entry[b].size
    /\ \A b \in A \ {a} : k.entry[b].lookupsize = h.entry[b].lookupsize
    /\ \A b \in A \ {a} : k.entry[b].next =
                 IF e.prev # NIL /\ b = e.prev THEN e.next ELSE h.entry[b].next
    /\ \A b \in A \ {a} : k.entry[b].prev =
                 IF e.next # NIL /\ b = e.next THEN e.prev ELSE h.entry[b].prev
    /\ \A b \in A \ {a} : k.entry[b].nextsize =
                 IF e.prevsize # NIL /\ b = e.prevsize THEN e.nextsize ELSE h.entry[b].nextsize
    /\ \A b \in A \ {a} : k.entry[b].prevsize =
                 IF e.nextsize # NIL /\ b = e.nextsize THEN e.prevsize ELSE h.entry[b].prevsize

LEMMA RemoveIs ==
    ASSUME NEW A, NEW h \in FreeLists(A), NEW a \in A,
           NEW e, e = h.entry[a], e.lookupsize \in Tables, NEW k, k = Remove(h, a)
    PROVE  Removed(h, k, A, a, e)
<1> DEFINE f == IF e.prev = NIL THEN [h EXCEPT !.FirstFreeEntry = e.next]
                ELSE [h EXCEPT !.entry[e.prev].next = e.next]
           g == IF e.next = NIL THEN f ELSE [f EXCEPT !.entry[e.next].prev = e.prev]
           d == g.entry[a]
           x == IF d.nextsize = NIL THEN g
                ELSE [g EXCEPT !.entry[d.nextsize].prevsize = d.prevsize]
           s == IF d.prevsize = NIL THEN [x EXCEPT !.FirstFreeSizeEntry[d.lookupsize] = d.nextsize]
                ELSE [x EXCEPT !.entry[d.prevsize].nextsize = d.nextsize]
<1>1. /\ e \in Entry /\ e.prev \in Pointers /\ e.next \in Pointers
      /\ e.nextsize \in Pointers /\ e.prevsize \in Pointers
  <2>1. e \in Entry
    BY DEF FreeLists
  <2> QED BY <2>1 DEF Entry
<1>2. k = [s EXCEPT !.entry = Without(@, a)]
  <2>1. Remove(h, a) = [SizeRemove(g, a) EXCEPT !.entry = Without(@, a)]
    BY ZenonT(60) DEF Remove
  <2> HIDE DEF f, g
  <2>2. SizeRemove(g, a) = s
    BY Zenon DEF SizeRemove
  <2> HIDE DEF x, s, d
  <2> QED BY <2>1, <2>2
<1> HIDE DEF f, g, x, s, d
<1>3. /\ f \in FreeLists(A) /\ f.FreeMemory = h.FreeMemory
      /\ f.FirstFreeEntry = IF e.prev = NIL THEN e.next ELSE h.FirstFreeEntry
      /\ f.FirstFreeSizeEntry = h.FirstFreeSizeEntry
      /\ \A b \in A : f.entry[b].size = h.entry[b].size
      /\ \A b \in A : f.entry[b].lookupsize = h.entry[b].lookupsize
      /\ \A b \in A : f.entry[b].next = IF e.prev # NIL /\ b = e.prev THEN e.next ELSE h.entry[b].next
      /\ \A b \in A : f.entry[b].prev = h.entry[b].prev
      /\ \A b \in A : f.entry[b].nextsize = h.entry[b].nextsize
      /\ \A b \in A : f.entry[b].prevsize = h.entry[b].prevsize
  <2>1. CASE e.prev = NIL
    <3>1. f = PutFirst(h, e.next)
      BY <2>1 DEF f, PutFirst
    <3>2. /\ f \in FreeLists(A) /\ f.FirstFreeEntry = e.next /\ f.entry = h.entry
          /\ f.FirstFreeSizeEntry = h.FirstFreeSizeEntry /\ f.FreeMemory = h.FreeMemory
      BY <1>1, <3>1, PutFirstIs
    <3> QED BY <2>1, <3>2
  <2>2. CASE e.prev # NIL
    <3>1. f = PutNext(h, e.prev, e.next)
      BY <2>2 DEF f, PutNext
    <3> QED BY <1>1, <2>2, <3>1, PutNextIs
  <2> QED BY <2>1, <2>2
<1>4. /\ g \in FreeLists(A) /\ g.FreeMemory = f.FreeMemory
      /\ g.FirstFreeEntry = f.FirstFreeEntry
      /\ g.FirstFreeSizeEntry = f.FirstFreeSizeEntry
      /\ \A b \in A : g.entry[b].size = f.entry[b].size
      /\ \A b \in A : g.entry[b].lookupsize = f.entry[b].lookupsize
      /\ \A b \in A : g.entry[b].next = f.entry[b].next
      /\ \A b \in A : g.entry[b].prev = IF e.next # NIL /\ b = e.next THEN e.prev ELSE f.entry[b].prev
      /\ \A b \in A : g.entry[b].nextsize = f.entry[b].nextsize
      /\ \A b \in A : g.entry[b].prevsize = f.entry[b].prevsize
  <2>1. CASE e.next = NIL
    BY <1>3, <2>1 DEF g
  <2>2. CASE e.next # NIL
    <3>1. g = PutPrev(f, e.next, e.prev)
      BY <2>2 DEF g, PutPrev
    <3>2. f \in FreeLists(A)
      BY <1>3
    <3> QED BY <1>1, <2>2, <3>1, <3>2, PutPrevIs
  <2> QED BY <2>1, <2>2
<1>5. d.nextsize = e.nextsize /\ d.prevsize = e.prevsize /\ d.lookupsize = e.lookupsize
  BY <1>3, <1>4 DEF d
<1>6. /\ x \in FreeLists(A) /\ x.FreeMemory = g.FreeMemory
      /\ x.FirstFreeEntry = g.FirstFreeEntry
      /\ x.FirstFreeSizeEntry = g.FirstFreeSizeEntry
      /\ \A b \in A : x.entry[b].size = g.entry[b].size
      /\ \A b \in A : x.entry[b].lookupsize = g.entry[b].lookupsize
      /\ \A b \in A : x.entry[b].next = g.entry[b].next
      /\ \A b \in A : x.entry[b].prev = g.entry[b].prev
      /\ \A b \in A : x.entry[b].nextsize = g.entry[b].nextsize
      /\ \A b \in A : x.entry[b].prevsize =
            IF e.nextsize # NIL /\ b = e.nextsize THEN e.prevsize ELSE g.entry[b].prevsize
  <2>1. CASE e.nextsize = NIL
    BY <1>4, <1>5, <2>1 DEF x
  <2>2. CASE e.nextsize # NIL
    <3>1. x = PutPrevsize(g, e.nextsize, e.prevsize)
      BY <1>5, <2>2 DEF x, PutPrevsize
    <3>2. g \in FreeLists(A)
      BY <1>4
    <3> QED BY <1>1, <2>2, <3>1, <3>2, PutPrevsizeIs
  <2> QED BY <2>1, <2>2
<1>7. /\ s \in FreeLists(A) /\ s.FreeMemory = x.FreeMemory
      /\ s.FirstFreeEntry = x.FirstFreeEntry
      /\ \A t \in Tables : s.FirstFreeSizeEntry[t] =
            IF e.prevsize = NIL /\ t = e.lookupsize THEN e.nextsize ELSE x.FirstFreeSizeEntry[t]
      /\ \A b \in A : s.entry[b].size = x.entry[b].size
      /\ \A b \in A : s.entry[b].lookupsize = x.entry[b].lookupsize
      /\ \A b \in A : s.entry[b].next = x.entry[b].next
      /\ \A b \in A : s.entry[b].prev = x.entry[b].prev
      /\ \A b \in A : s.entry[b].nextsize =
            IF e.prevsize # NIL /\ b = e.prevsize THEN e.nextsize ELSE x.entry[b].nextsize
      /\ \A b \in A : s.entry[b].prevsize = x.entry[b].prevsize
  <2>1. CASE e.prevsize = NIL
    <3>1. s = PutFirstSize(x, e.lookupsize, e.nextsize)
      BY <1>5, <2>1 DEF s, PutFirstSize
    <3>2. x \in FreeLists(A)
      BY <1>6
    <3> DEFINE y == PutFirstSize(x, e.lookupsize, e.nextsize)
    <3>5. /\ y \in FreeLists(A) /\ y.FirstFreeEntry = x.FirstFreeEntry /\ y.entry = x.entry
          /\ y.FreeMemory = x.FreeMemory
      BY <1>1, <3>2, PutFirstSizeIs
    <3>6. \A t \in Tables : y.FirstFreeSizeEntry[t] =
                IF t = e.lookupsize THEN e.nextsize ELSE x.FirstFreeSizeEntry[t]
      BY <1>1, <3>2 DEF FreeLists, PutFirstSize
    <3> HIDE DEF y
    <3>4. s = y
      BY <3>1 DEF y
    <3>3. /\ s \in FreeLists(A) /\ s.FirstFreeEntry = x.FirstFreeEntry /\ s.entry = x.entry
          /\ s.FreeMemory = x.FreeMemory
          /\ \A t \in Tables : s.FirstFreeSizeEntry[t] =
                IF t = e.lookupsize THEN e.nextsize ELSE x.FirstFreeSizeEntry[t]
      BY <3>4, <3>5, <3>6
    <3> QED BY <2>1, <3>3
  <2>2. CASE e.prevsize # NIL
    <3>1. s = PutNextsize(x, e.prevsize, e.nextsize)
      BY <1>5, <2>2 DEF s, PutNextsize
    <3>2. x \in FreeLists(A)
      BY <1>6
    <3> QED BY <1>1, <2>2, <3>1, <3>2, PutNextsizeIs
  <2> QED BY <2>1, <2>2
<1>8. /\ k \in FreeLists(A \ {a})
      /\ k.FirstFreeEntry = s.FirstFreeEntry
      /\ k.FirstFreeSizeEntry = s.FirstFreeSizeEntry
      /\ k.FreeMemory = s.FreeMemory
      /\ \A b \in A \ {a} : k.entry[b] = s.entry[b]
  <2>1. k = Taken(s, a)
    BY <1>2 DEF Taken
  <2>2. s \in FreeLists(A)
    BY <1>7
  <2> QED BY <2>1, <2>2, TakenIs
<1>9. /\ k.FreeMemory = h.FreeMemory
      /\ k.FirstFreeEntry = IF e.prev = NIL THEN e.next ELSE h.FirstFreeEntry
      /\ \A t \in Tables : k.FirstFreeSizeEntry[t] =
            IF e.prevsize = NIL /\ t = e.lookupsize THEN e.nextsize ELSE h.FirstFreeSizeEntry[t]
  BY <1>3, <1>4, <1>6, <1>7, <1>8
<1>10. \A b \in A \ {a} :
      /\ k.entry[b].size = h.entry[b].size
      /\ k.entry[b].lookupsize = h.entry[b].lookupsize
      /\ k.entry[b].next = IF e.prev # NIL /\ b = e.prev THEN e.next ELSE h.entry[b].next
      /\ k.entry[b].prev = IF e.next # NIL /\ b = e.next THEN e.prev ELSE h.entry[b].prev
      /\ k.entry[b].nextsize = IF e.prevsize # NIL /\ b = e.prevsize THEN e.nextsize ELSE h.entry[b].nextsize
      /\ k.entry[b].prevsize = IF e.nextsize # NIL /\ b = e.nextsize THEN e.prevsize ELSE h.entry[b].prevsize
  BY <1>3, <1>4, <1>6, <1>7, <1>8
<1> QED BY <1>8, <1>9, <1>10 DEF Removed

(* What an entry that is put in leaves.                                     *)
Inserted(h, k, A, prev, a, size, next, t, first) ==
    /\ k \in FreeLists(A \cup {a})
    /\ k.FreeMemory = h.FreeMemory
    /\ k.FirstFreeEntry = IF prev = NIL THEN a ELSE h.FirstFreeEntry
    /\ \A s \in Tables : k.FirstFreeSizeEntry[s] =
                 IF s = t THEN a ELSE h.FirstFreeSizeEntry[s]
    /\ \A b \in A \cup {a} : k.entry[b].size = IF b = a THEN size ELSE h.entry[b].size
    /\ \A b \in A \cup {a} : k.entry[b].lookupsize = IF b = a THEN t ELSE h.entry[b].lookupsize
    /\ \A b \in A \cup {a} : k.entry[b].next =
                 IF b = a THEN next ELSE IF prev # NIL /\ b = prev THEN a ELSE h.entry[b].next
    /\ \A b \in A \cup {a} : k.entry[b].prev =
                 IF b = a THEN prev ELSE IF next # NIL /\ b = next THEN a ELSE h.entry[b].prev
    /\ \A b \in A \cup {a} : k.entry[b].nextsize = IF b = a THEN first ELSE h.entry[b].nextsize
    /\ \A b \in A \cup {a} : k.entry[b].prevsize =
                 IF b = a THEN NIL ELSE IF first # NIL /\ b = first THEN a ELSE h.entry[b].prevsize

LEMMA InsertIs ==
    ASSUME NEW A, A \subseteq Int, NEW h \in FreeLists(A), NEW a \in Int, a \notin A,
           NEW size \in Int, NEW prev \in Pointers, NEW next \in Pointers,
           prev # a, next # a,
           NEW t, t = KLgetFastLookupToUse(size),
           NEW first, first = h.FirstFreeSizeEntry[t], first # a,
           NEW k, k = Insert(h, prev, a, size, next)
    PROVE  Inserted(h, k, A, prev, a, size, next, t, first)
<1> DEFINE B == A \cup {a}
           e == [prev |-> prev, next |-> next, size |-> size,
                 prevsize |-> NIL, nextsize |-> NIL, lookupsize |-> 0]
           f == [h EXCEPT !.entry = With(@, a, e)]
           g == IF prev = NIL THEN [f EXCEPT !.FirstFreeEntry = a]
                ELSE [f EXCEPT !.entry[prev].next = a]
           i == IF next = NIL THEN g ELSE [g EXCEPT !.entry[next].prev = a]
           u == KLgetFastLookupToUse(i.entry[a].size)
           w == i.FirstFreeSizeEntry[u]
           x == [i EXCEPT !.entry[a].lookupsize = u, !.entry[a].prevsize = NIL,
                          !.entry[a].nextsize = w, !.FirstFreeSizeEntry[u] = a]
<1>1. e \in Entry /\ a \in Pointers /\ t \in Tables
  BY TableIs DEF Entry, Pointers
<1>2. first \in Pointers
  BY <1>1 DEF FreeLists
<1>3. k = IF w = NIL THEN x ELSE [x EXCEPT !.entry[w].prevsize = a]
  <2> HIDE DEF u, w, x
  <2>1. Insert(h, prev, a, size, next) = SizeInsert(i, a)
    BY Zenon DEF Insert
  <2> HIDE DEF i
  <2>2. SizeInsert(i, a) = IF w = NIL THEN x ELSE [x EXCEPT !.entry[w].prevsize = a]
    BY Zenon DEF SizeInsert, u, w, x
  <2> QED BY <2>1, <2>2
<1> HIDE DEF g, i, u, w, x
<1>4. /\ f \in FreeLists(B) /\ f.FreeMemory = h.FreeMemory
      /\ f.FirstFreeEntry = h.FirstFreeEntry
      /\ f.FirstFreeSizeEntry = h.FirstFreeSizeEntry
      /\ \A b \in B : f.entry[b] = IF b = a THEN e ELSE h.entry[b]
  <2> DEFINE ew == [b \in B |-> IF b = a THEN e ELSE h.entry[b]]
  <2>1. With(h.entry, a, e) = ew
    BY DEF FreeLists, With
  <2>2. f = [h EXCEPT !.entry = ew]
    BY <2>1
  <2> HIDE DEF e, f
  <2>3. ew \in [B -> Entry] /\ \A b \in B : ew[b] = IF b = a THEN e ELSE h.entry[b]
    BY <1>1 DEF FreeLists
  <2> HIDE DEF ew, B
  <2> QED BY <2>2, <2>3 DEF FreeLists
<1>5. /\ \A b \in B : f.entry[b].size = IF b = a THEN size ELSE h.entry[b].size
      /\ \A b \in B : f.entry[b].lookupsize = IF b = a THEN 0 ELSE h.entry[b].lookupsize
      /\ \A b \in B : f.entry[b].next = IF b = a THEN next ELSE h.entry[b].next
      /\ \A b \in B : f.entry[b].prev = IF b = a THEN prev ELSE h.entry[b].prev
      /\ \A b \in B : f.entry[b].nextsize = IF b = a THEN NIL ELSE h.entry[b].nextsize
      /\ \A b \in B : f.entry[b].prevsize = IF b = a THEN NIL ELSE h.entry[b].prevsize
  <2> HIDE DEF f
  <2> QED BY <1>4
<1> HIDE DEF B, e, f
<1>6. /\ g \in FreeLists(B) /\ g.FreeMemory = f.FreeMemory
      /\ g.FirstFreeEntry = IF prev = NIL THEN a ELSE f.FirstFreeEntry
      /\ g.FirstFreeSizeEntry = f.FirstFreeSizeEntry
      /\ \A b \in B : g.entry[b].size = f.entry[b].size
      /\ \A b \in B : g.entry[b].lookupsize = f.entry[b].lookupsize
      /\ \A b \in B : g.entry[b].next = IF prev # NIL /\ b = prev THEN a ELSE f.entry[b].next
      /\ \A b \in B : g.entry[b].prev = f.entry[b].prev
      /\ \A b \in B : g.entry[b].nextsize = f.entry[b].nextsize
      /\ \A b \in B : g.entry[b].prevsize = f.entry[b].prevsize
  <2>0. f \in FreeLists(B)
    BY <1>4
  <2>1. CASE prev = NIL
    <3>1. g = PutFirst(f, a)
      BY <2>1 DEF g, PutFirst
    <3> QED BY <1>1, <2>0, <2>1, <3>1, PutFirstIs
  <2>2. CASE prev # NIL
    <3>1. g = PutNext(f, prev, a)
      BY <2>2 DEF g, PutNext
    <3> QED BY <1>1, <2>0, <2>2, <3>1, PutNextIs
  <2> QED BY <2>1, <2>2
<1>7. /\ i \in FreeLists(B) /\ i.FreeMemory = g.FreeMemory
      /\ i.FirstFreeEntry = g.FirstFreeEntry
      /\ i.FirstFreeSizeEntry = g.FirstFreeSizeEntry
      /\ \A b \in B : i.entry[b].size = g.entry[b].size
      /\ \A b \in B : i.entry[b].lookupsize = g.entry[b].lookupsize
      /\ \A b \in B : i.entry[b].next = g.entry[b].next
      /\ \A b \in B : i.entry[b].prev = IF next # NIL /\ b = next THEN a ELSE g.entry[b].prev
      /\ \A b \in B : i.entry[b].nextsize = g.entry[b].nextsize
      /\ \A b \in B : i.entry[b].prevsize = g.entry[b].prevsize
  <2>0. g \in FreeLists(B)
    BY <1>6
  <2>1. CASE next = NIL
    BY <1>6, <2>1 DEF i
  <2>2. CASE next # NIL
    <3>1. i = PutPrev(g, next, a)
      BY <2>2 DEF i, PutPrev
    <3> QED BY <1>1, <2>0, <2>2, <3>1, PutPrevIs
  <2> QED BY <2>1, <2>2
<1>8. u = t /\ w = first /\ a \in B
  <2>1. a \in B
    BY DEF B
  <2>2. i.entry[a].size = size
    BY <1>5, <1>6, <1>7, <2>1
  <2>3. i.FirstFreeSizeEntry = h.FirstFreeSizeEntry
    BY <1>4, <1>6, <1>7
  <2> QED BY <2>1, <2>2, <2>3 DEF u, w
<1>9. x = PutLookup(i, a, t, first)
  BY <1>8 DEF x, PutLookup
<1>10. /\ x \in FreeLists(B) /\ x.FreeMemory = i.FreeMemory
       /\ x.FirstFreeEntry = i.FirstFreeEntry
       /\ \A s \in Tables : x.FirstFreeSizeEntry[s] = IF s = t THEN a ELSE i.FirstFreeSizeEntry[s]
       /\ \A b \in B : x.entry[b].size = i.entry[b].size
       /\ \A b \in B : x.entry[b].lookupsize = IF b = a THEN t ELSE i.entry[b].lookupsize
       /\ \A b \in B : x.entry[b].next = i.entry[b].next
       /\ \A b \in B : x.entry[b].prev = i.entry[b].prev
       /\ \A b \in B : x.entry[b].nextsize = IF b = a THEN first ELSE i.entry[b].nextsize
       /\ \A b \in B : x.entry[b].prevsize = IF b = a THEN NIL ELSE i.entry[b].prevsize
  <2>1. i \in FreeLists(B)
    BY <1>7
  <2>2. a \in B /\ t \in Tables
    BY <1>1, <1>8
  <2> QED BY <1>2, <1>9, <2>1, <2>2, PutLookupIs
<1>11. /\ k \in FreeLists(B) /\ k.FreeMemory = x.FreeMemory
       /\ k.FirstFreeEntry = x.FirstFreeEntry
       /\ k.FirstFreeSizeEntry = x.FirstFreeSizeEntry
       /\ \A b \in B : k.entry[b].size = x.entry[b].size
       /\ \A b \in B : k.entry[b].lookupsize = x.entry[b].lookupsize
       /\ \A b \in B : k.entry[b].next = x.entry[b].next
       /\ \A b \in B : k.entry[b].prev = x.entry[b].prev
       /\ \A b \in B : k.entry[b].nextsize = x.entry[b].nextsize
       /\ \A b \in B : k.entry[b].prevsize = IF first # NIL /\ b = first THEN a ELSE x.entry[b].prevsize
  <2>0. x \in FreeLists(B)
    BY <1>10
  <2>1. CASE first = NIL
    BY <1>3, <1>8, <1>10, <2>1
  <2>2. CASE first # NIL
    <3>1. k = PutPrevsize(x, first, a)
      BY <1>3, <1>8, <2>2 DEF PutPrevsize
    <3> QED BY <1>1, <2>0, <2>2, <3>1, PutPrevsizeIs
  <2> QED BY <2>1, <2>2
<1>12. /\ \A b \in B : k.entry[b].size = IF b = a THEN size ELSE h.entry[b].size
       /\ \A b \in B : k.entry[b].lookupsize = IF b = a THEN t ELSE h.entry[b].lookupsize
  BY <1>5, <1>6, <1>7, <1>10, <1>11
<1>13. /\ \A b \in B : k.entry[b].next =
                 IF b = a THEN next ELSE IF prev # NIL /\ b = prev THEN a ELSE h.entry[b].next
       /\ \A b \in B : k.entry[b].prev =
                 IF b = a THEN prev ELSE IF next # NIL /\ b = next THEN a ELSE h.entry[b].prev
  BY <1>5, <1>6, <1>7, <1>10, <1>11
<1>14. /\ \A b \in B : k.entry[b].nextsize = IF b = a THEN first ELSE h.entry[b].nextsize
       /\ \A b \in B : k.entry[b].prevsize =
                 IF b = a THEN NIL ELSE IF first # NIL /\ b = first THEN a ELSE h.entry[b].prevsize
  BY <1>5, <1>6, <1>7, <1>10, <1>11
<1>15. /\ k.FreeMemory = h.FreeMemory
       /\ k.FirstFreeEntry = IF prev = NIL THEN a ELSE h.FirstFreeEntry
       /\ \A s \in Tables : k.FirstFreeSizeEntry[s] = IF s = t THEN a ELSE h.FirstFreeSizeEntry[s]
  BY <1>4, <1>6, <1>7, <1>10, <1>11
<1> QED BY <1>11, <1>12, <1>13, <1>14, <1>15 DEF B, Inserted

-----------------------------------------------------------------------------
(* The entries are linked in the order of their addresses.                  *)
Follows(A, a, n)  == IF n = NIL THEN \A b \in A : b <= a
                     ELSE n \in A /\ a < n /\ \A b \in A : b <= a \/ n <= b
Precedes(A, a, p) == IF p = NIL THEN \A b \in A : a <= b
                     ELSE p \in A /\ p < a /\ \A b \in A : b <= p \/ a <= b
Leads(A, f)       == IF f = NIL THEN A = {} ELSE f \in A /\ \A b \in A : f <= b
InOrder(h, A) ==
    /\ Leads(A, h.FirstFreeEntry)
    /\ \A a \in A : Follows(A, a, h.entry[a].next)
    /\ \A a \in A : Precedes(A, a, h.entry[a].prev)

(* Every entry is linked, from both sides, into the list of its size, ...   *)
Listed(h, A) ==
    /\ \A t \in Tables : h.FirstFreeSizeEntry[t] # NIL =>
          /\ h.FirstFreeSizeEntry[t] \in A
          /\ h.entry[h.FirstFreeSizeEntry[t]].prevsize = NIL
          /\ h.entry[h.FirstFreeSizeEntry[t]].lookupsize = t
    /\ \A a \in A : h.entry[a].lookupsize = KLgetFastLookupToUse(h.entry[a].size)
    /\ \A a \in A : h.entry[a].nextsize # NIL =>
          /\ h.entry[a].nextsize \in A
          /\ h.entry[h.entry[a].nextsize].prevsize = a
          /\ h.entry[h.entry[a].nextsize].lookupsize = h.entry[a].lookupsize
    /\ \A a \in A : h.entry[a].prevsize # NIL =>
          /\ h.entry[a].prevsize \in A
          /\ h.entry[h.entry[a].prevsize].nextsize = a
          /\ h.entry[h.entry[a].prevsize].lookupsize = h.entry[a].lookupsize
    /\ \A a \in A : h.entry[a].prevsize = NIL =>
          h.FirstFreeSizeEntry[h.entry[a].lookupsize] = a

(* ... and a walk from the first entry of a list meets all of its entries.  *)
Closed(h, S) == \A b \in S : h.entry[b].nextsize # NIL => h.entry[b].nextsize \in S
Begun(h, t, S) == h.FirstFreeSizeEntry[t] # NIL => h.FirstFreeSizeEntry[t] \in S
Met(h, A) == \A t \in Tables : \A S \in SUBSET A :
    Closed(h, S) /\ Begun(h, t, S) => \A a \in A : h.entry[a].lookupsize = t => a \in S

Linked(h, A) == h \in FreeLists(A) /\ A \subseteq Int /\ InOrder(h, A) /\ Listed(h, A) /\ Met(h, A)

(* What an entry of a linked heap holds.                                    *)
LEMMA LookupIs ==
    ASSUME NEW A, NEW h, Linked(h, A), NEW a \in A
    PROVE  h.entry[a].lookupsize \in Tables /\ h.entry[a] \in Entry
<1>1. h.entry[a] \in Entry /\ h.entry[a].lookupsize = KLgetFastLookupToUse(h.entry[a].size)
  BY DEF Linked, Listed, FreeLists
<1> QED BY <1>1, TableIs DEF Entry

(* What Remove does to a linked heap.                                       *)
LEMMA RemovedFrom ==
    ASSUME NEW A, NEW h, Linked(h, A), NEW a \in A, NEW k, k = Remove(h, a)
    PROVE  Removed(h, k, A, a, h.entry[a])
<1> DEFINE e == h.entry[a]
<1>1. h \in FreeLists(A) /\ e.lookupsize \in Tables /\ e = h.entry[a]
  BY LookupIs DEF Linked
<1> HIDE DEF e
<1>2. Removed(h, k, A, a, e)
  BY <1>1, RemoveIs
<1> QED BY <1>2 DEF e

(* Remove keeps the list of addresses in order.                             *)
LEMMA RemoveKeepsOrder ==
    ASSUME NEW A, NEW h, Linked(h, A), NEW a \in A, NEW k, k = Remove(h, a)
    PROVE  InOrder(k, A \ {a})
<1> DEFINE e == h.entry[a]
           B == A \ {a}
<1>1. h \in FreeLists(A) /\ e.lookupsize \in Tables /\ A \subseteq Int /\ NIL \notin A
  BY LookupIs, FreeListAssumption DEF Linked
<1>2. /\ k.FirstFreeEntry = IF e.prev = NIL THEN e.next ELSE h.FirstFreeEntry
      /\ \A b \in B : k.entry[b].next = IF e.prev # NIL /\ b = e.prev THEN e.next ELSE h.entry[b].next
      /\ \A b \in B : k.entry[b].prev = IF e.next # NIL /\ b = e.next THEN e.prev ELSE h.entry[b].prev
  <2>1. Removed(h, k, A, a, e)
    BY RemovedFrom
  <2> HIDE DEF e
  <2> QED BY <2>1 DEF Removed
<1>3. /\ Leads(A, h.FirstFreeEntry) /\ Follows(A, a, e.next) /\ Precedes(A, a, e.prev)
      /\ \A b \in B : Follows(A, b, h.entry[b].next)
      /\ \A b \in B : Precedes(A, b, h.entry[b].prev)
  BY DEF Linked, InOrder
<1> HIDE DEF e, B
<1>b. B \subseteq A /\ B = A \ {a} /\ a \in Int /\ a \in A
  BY <1>1 DEF B
<1>4. Leads(B, k.FirstFreeEntry)
  <2>1. CASE e.prev = NIL /\ e.next = NIL
    <3>1. \A b \in A : a <= b /\ b <= a
      BY <1>3, <2>1 DEF Follows, Precedes
    <3>2. \A b \in A : b = a
      BY <1>1, <1>b, <3>1
    <3> QED BY <1>2, <1>b, <2>1, <3>2 DEF Leads
  <2>2. CASE e.prev = NIL /\ e.next # NIL
    <3>1. \A b \in A : a <= b /\ (b <= a \/ e.next <= b)
      BY <1>3, <2>2 DEF Follows, Precedes
    <3>2. e.next \in A /\ a < e.next
      BY <1>3, <2>2 DEF Follows
    <3>3. \A b \in B : e.next <= b
      BY <1>1, <1>b, <3>1, <3>2
    <3>4. e.next \in B
      BY <1>1, <1>b, <3>2
    <3> QED BY <1>2, <2>2, <3>3, <3>4 DEF Leads
  <2>3. CASE e.prev # NIL
    <3> DEFINE f == h.FirstFreeEntry
    <3>1. e.prev \in A /\ e.prev < a
      BY <1>3, <2>3 DEF Precedes
    <3>2. f # NIL /\ f \in A /\ \A b \in A : f <= b
      BY <1>1, <1>3, <1>b DEF Leads
    <3> HIDE DEF f
    <3>5. f \in Int /\ e.prev \in Int /\ f <= e.prev
      BY <1>1, <3>1, <3>2
    <3>3. f # a
      BY <1>b, <3>1, <3>5
    <3>4. k.FirstFreeEntry = f
      BY <1>2, <2>3 DEF f
    <3> QED BY <1>b, <3>2, <3>3, <3>4 DEF Leads
  <2> QED BY <2>1, <2>2, <2>3
<1>5. ASSUME NEW b \in B PROVE Follows(B, b, k.entry[b].next)
  <2>0. b \in A /\ b # a /\ b \in Int
    BY <1>1, <1>b
  <2>1. CASE e.prev # NIL /\ b = e.prev
    <3>1. k.entry[b].next = e.next
      BY <1>2, <2>1
    <3>2. b < a /\ \A c \in A : c <= b \/ a <= c
      BY <1>3, <2>1 DEF Precedes
    <3>3. CASE e.next = NIL
      <4>1. \A c \in A : c <= a
        BY <1>3, <3>3 DEF Follows
      <4>2. \A c \in B : c <= b
        BY <1>1, <1>b, <3>2, <4>1
      <4> QED BY <3>1, <3>3, <4>2 DEF Follows
    <3>4. CASE e.next # NIL
      <4>1. e.next \in A /\ a < e.next /\ \A c \in A : c <= a \/ e.next <= c
        BY <1>3, <3>4 DEF Follows
      <4>4. e.next \in Int
        BY <1>1, <4>1
      <4>2. e.next \in B /\ b < e.next
        BY <1>b, <2>0, <3>2, <4>1, <4>4
      <4>3. \A c \in B : c <= b \/ e.next <= c
        BY <1>1, <1>b, <2>0, <3>2, <4>1
      <4> QED BY <3>1, <3>4, <4>2, <4>3 DEF Follows
    <3> QED BY <3>3, <3>4
  <2>2. CASE ~(e.prev # NIL /\ b = e.prev)
    <3> DEFINE n == h.entry[b].next
    <3>1. k.entry[b].next = n /\ Follows(A, b, n)
      BY <1>2, <1>3, <2>2
    <3> HIDE DEF n
    <3>2. ASSUME n = a PROVE FALSE
      <4>1. b < a /\ \A c \in A : c <= b \/ a <= c
        BY <1>1, <1>b, <3>1, <3>2 DEF Follows
      <4>2. e.prev # NIL
        BY <1>1, <1>3, <1>b, <2>0, <4>1 DEF Precedes
      <4>3. e.prev \in A /\ e.prev < a /\ (b <= e.prev \/ a <= b)
        BY <1>3, <2>0, <4>2 DEF Precedes
      <4>4. e.prev <= b \/ a <= e.prev
        BY <4>1, <4>3
      <4>5. e.prev \in Int
        BY <1>1, <4>3
      <4>6. b = e.prev
        BY <1>b, <2>0, <4>1, <4>3, <4>4, <4>5
      <4> QED BY <2>2, <4>2, <4>6
    <3> QED BY <1>b, <3>1, <3>2 DEF Follows
  <2> QED BY <2>1, <2>2
<1>6. ASSUME NEW b \in B PROVE Precedes(B, b, k.entry[b].prev)
  <2>0. b \in A /\ b # a /\ b \in Int
    BY <1>1, <1>b
  <2>1. CASE e.next # NIL /\ b = e.next
    <3>1. k.entry[b].prev = e.prev
      BY <1>2, <2>1
    <3>2. a < b /\ \A c \in A : c <= a \/ b <= c
      BY <1>3, <2>1 DEF Follows
    <3>3. CASE e.prev = NIL
      <4>1. \A c \in A : a <= c
        BY <1>3, <3>3 DEF Precedes
      <4>2. \A c \in B : b <= c
        BY <1>1, <1>b, <3>2, <4>1
      <4> QED BY <3>1, <3>3, <4>2 DEF Precedes
    <3>4. CASE e.prev # NIL
      <4>1. e.prev \in A /\ e.prev < a /\ \A c \in A : c <= e.prev \/ a <= c
        BY <1>3, <3>4 DEF Precedes
      <4>4. e.prev \in Int
        BY <1>1, <4>1
      <4>2. e.prev \in B /\ e.prev < b
        BY <1>b, <2>0, <3>2, <4>1, <4>4
      <4>3. \A c \in B : c <= e.prev \/ b <= c
        BY <1>1, <1>b, <2>0, <3>2, <4>1
      <4> QED BY <3>1, <3>4, <4>2, <4>3 DEF Precedes
    <3> QED BY <3>3, <3>4
  <2>2. CASE ~(e.next # NIL /\ b = e.next)
    <3> DEFINE p == h.entry[b].prev
    <3>1. k.entry[b].prev = p /\ Precedes(A, b, p)
      BY <1>2, <1>3, <2>2
    <3> HIDE DEF p
    <3>2. ASSUME p = a PROVE FALSE
      <4>1. a < b /\ \A c \in A : c <= a \/ b <= c
        BY <1>1, <1>b, <3>1, <3>2 DEF Precedes
      <4>2. e.next # NIL
        BY <1>1, <1>3, <1>b, <2>0, <4>1 DEF Follows
      <4>3. e.next \in A /\ a < e.next /\ (b <= a \/ e.next <= b)
        BY <1>3, <2>0, <4>2 DEF Follows
      <4>4. e.next <= a \/ b <= e.next
        BY <4>1, <4>3
      <4>5. e.next \in Int
        BY <1>1, <4>3
      <4>6. b = e.next
        BY <1>b, <2>0, <4>1, <4>3, <4>4, <4>5
      <4> QED BY <2>2, <4>2, <4>6
    <3> QED BY <1>b, <3>1, <3>2 DEF Precedes
  <2> QED BY <2>1, <2>2
<1>7. InOrder(k, B)
  BY <1>4, <1>5, <1>6 DEF InOrder
<1> QED BY <1>7 DEF B

(* Remove keeps the size lists linked both ways.                            *)
LEMMA RemoveKeepsListed ==
    ASSUME NEW A, NEW h, Linked(h, A), NEW a \in A, NEW k, k = Remove(h, a)
    PROVE  Listed(k, A \ {a})
<1> DEFINE e == h.entry[a]
           B == A \ {a}
<1>1. h \in FreeLists(A) /\ e.lookupsize \in Tables /\ A \subseteq Int /\ NIL \notin A
  BY LookupIs, FreeListAssumption DEF Linked
<1>2. /\ \A t \in Tables : k.FirstFreeSizeEntry[t] =
            IF e.prevsize = NIL /\ t = e.lookupsize THEN e.nextsize ELSE h.FirstFreeSizeEntry[t]
      /\ \A b \in B : k.entry[b].size = h.entry[b].size
      /\ \A b \in B : k.entry[b].lookupsize = h.entry[b].lookupsize
      /\ \A b \in B : k.entry[b].nextsize =
            IF e.prevsize # NIL /\ b = e.prevsize THEN e.nextsize ELSE h.entry[b].nextsize
      /\ \A b \in B : k.entry[b].prevsize =
            IF e.nextsize # NIL /\ b = e.nextsize THEN e.prevsize ELSE h.entry[b].prevsize
  <2>1. Removed(h, k, A, a, e)
    BY RemovedFrom
  <2> HIDE DEF e
  <2> QED BY <2>1 DEF Removed
<1>3. /\ e.nextsize # NIL => /\ e.nextsize \in A /\ h.entry[e.nextsize].prevsize = a
                             /\ h.entry[e.nextsize].lookupsize = e.lookupsize
      /\ e.prevsize # NIL => /\ e.prevsize \in A /\ h.entry[e.prevsize].nextsize = a
                             /\ h.entry[e.prevsize].lookupsize = e.lookupsize
      /\ e.prevsize = NIL => h.FirstFreeSizeEntry[e.lookupsize] = a
  BY DEF Linked, Listed
<1>4. \A b \in A : h.entry[b].lookupsize \in Tables
  BY LookupIs
<1> HIDE DEF B
<1>b. \A b \in B : b \in A /\ b # a
  BY DEF B
<1>c. \A b \in A : b # a => b \in B
  BY DEF B
<1>5. ASSUME NEW t \in Tables, k.FirstFreeSizeEntry[t] # NIL
      PROVE  /\ k.FirstFreeSizeEntry[t] \in B
             /\ k.entry[k.FirstFreeSizeEntry[t]].prevsize = NIL
             /\ k.entry[k.FirstFreeSizeEntry[t]].lookupsize = t
  <2> DEFINE f == k.FirstFreeSizeEntry[t]
  <2>1. CASE e.prevsize = NIL /\ t = e.lookupsize
    <3>1. f = e.nextsize /\ f # NIL
      BY <1>2, <1>5, <2>1
    <3>2. f \in A /\ h.entry[f].prevsize = a /\ h.entry[f].lookupsize = t
      BY <1>3, <2>1, <3>1
    <3>3. f # a
      BY <1>1, <2>1, <3>2
    <3> HIDE DEF e, f
    <3>4. f \in B
      BY <1>c, <3>2, <3>3
    <3>5. k.entry[f].prevsize = NIL /\ k.entry[f].lookupsize = t
      BY <1>2, <2>1, <3>1, <3>2, <3>4
    <3> QED BY <3>4, <3>5 DEF f
  <2>2. CASE ~(e.prevsize = NIL /\ t = e.lookupsize)
    <3>1. f = h.FirstFreeSizeEntry[t] /\ f # NIL
      BY <1>2, <1>5, <2>2
    <3>2. f \in A /\ h.entry[f].prevsize = NIL /\ h.entry[f].lookupsize = t
      BY <3>1 DEF Linked, Listed
    <3>3. f # a
      BY <2>2, <3>2
    <3>4. ~(e.nextsize # NIL /\ f = e.nextsize)
      BY <1>1, <1>3, <3>2
    <3> HIDE DEF e, f
    <3>5. f \in B
      BY <1>c, <3>2, <3>3
    <3>6. k.entry[f].prevsize = NIL /\ k.entry[f].lookupsize = t
      BY <1>2, <3>2, <3>4, <3>5
    <3> QED BY <3>5, <3>6 DEF f
  <2> QED BY <2>1, <2>2
<1>6. \A b \in B : k.entry[b].lookupsize = KLgetFastLookupToUse(k.entry[b].size)
  <2>1. \A b \in A : h.entry[b].lookupsize = KLgetFastLookupToUse(h.entry[b].size)
    BY DEF Linked, Listed
  <2> QED BY <1>2, <1>b, <2>1
<1>7. ASSUME NEW b \in B, k.entry[b].nextsize # NIL
      PROVE  /\ k.entry[b].nextsize \in B
             /\ k.entry[k.entry[b].nextsize].prevsize = b
             /\ k.entry[k.entry[b].nextsize].lookupsize = k.entry[b].lookupsize
  <2> DEFINE n == k.entry[b].nextsize
  <2>0. b \in A /\ b # a /\ b # NIL
    BY <1>1, <1>b
  <2>1. CASE e.prevsize # NIL /\ b = e.prevsize
    <3>1. n = e.nextsize /\ n # NIL
      BY <1>2, <1>7, <2>1
    <3>2. n \in A /\ h.entry[n].prevsize = a /\ h.entry[n].lookupsize = e.lookupsize
      BY <1>3, <3>1
    <3>3. n # a
      BY <2>0, <2>1, <3>2
    <3>4. h.entry[b].lookupsize = e.lookupsize
      BY <1>3, <2>1
    <3> HIDE DEF e, n
    <3>5. n \in B
      BY <1>c, <3>2, <3>3
    <3>6. k.entry[n].prevsize = b /\ k.entry[n].lookupsize = k.entry[b].lookupsize
      BY <1>2, <2>1, <3>1, <3>2, <3>4, <3>5
    <3> QED BY <3>5, <3>6 DEF n
  <2>2. CASE ~(e.prevsize # NIL /\ b = e.prevsize)
    <3>1. n = h.entry[b].nextsize /\ n # NIL
      BY <1>2, <1>7, <2>2
    <3>2. n \in A /\ h.entry[n].prevsize = b /\ h.entry[n].lookupsize = h.entry[b].lookupsize
      BY <2>0, <3>1 DEF Linked, Listed
    <3>3. n # a
      BY <2>0, <2>2, <3>2
    <3>4. ~(e.nextsize # NIL /\ n = e.nextsize)
      BY <1>3, <2>0, <3>2
    <3> HIDE DEF e, n
    <3>5. n \in B
      BY <1>c, <3>2, <3>3
    <3>6. k.entry[n].prevsize = b /\ k.entry[n].lookupsize = k.entry[b].lookupsize
      BY <1>2, <3>2, <3>4, <3>5
    <3> QED BY <3>5, <3>6 DEF n
  <2> QED BY <2>1, <2>2
<1>8. ASSUME NEW b \in B, k.entry[b].prevsize # NIL
      PROVE  /\ k.entry[b].prevsize \in B
             /\ k.entry[k.entry[b].prevsize].nextsize = b
             /\ k.entry[k.entry[b].prevsize].lookupsize = k.entry[b].lookupsize
  <2> DEFINE p == k.entry[b].prevsize
  <2>0. b \in A /\ b # a /\ b # NIL
    BY <1>1, <1>b
  <2>1. CASE e.nextsize # NIL /\ b = e.nextsize
    <3>1. p = e.prevsize /\ p # NIL
      BY <1>2, <1>8, <2>1
    <3>2. p \in A /\ h.entry[p].nextsize = a /\ h.entry[p].lookupsize = e.lookupsize
      BY <1>3, <3>1
    <3>3. p # a
      BY <2>0, <2>1, <3>2
    <3>4. h.entry[b].lookupsize = e.lookupsize
      BY <1>3, <2>1
    <3> HIDE DEF e, p
    <3>5. p \in B
      BY <1>c, <3>2, <3>3
    <3>6. k.entry[p].nextsize = b /\ k.entry[p].lookupsize = k.entry[b].lookupsize
      BY <1>2, <2>1, <3>1, <3>2, <3>4, <3>5
    <3> QED BY <3>5, <3>6 DEF p
  <2>2. CASE ~(e.nextsize # NIL /\ b = e.nextsize)
    <3>1. p = h.entry[b].prevsize /\ p # NIL
      BY <1>2, <1>8, <2>2
    <3>2. p \in A /\ h.entry[p].nextsize = b /\ h.entry[p].lookupsize = h.entry[b].lookupsize
      BY <2>0, <3>1 DEF Linked, Listed
    <3>3. p # a
      BY <2>0, <2>2, <3>2
    <3>4. ~(e.prevsize # NIL /\ p = e.prevsize)
      BY <1>3, <2>0, <3>2
    <3> HIDE DEF e, p
    <3>5. p \in B
      BY <1>c, <3>2, <3>3
    <3>6. k.entry[p].nextsize = b /\ k.entry[p].lookupsize = k.entry[b].lookupsize
      BY <1>2, <3>2, <3>4, <3>5
    <3> QED BY <3>5, <3>6 DEF p
  <2> QED BY <2>1, <2>2
<1>9. ASSUME NEW b \in B, k.entry[b].prevsize = NIL
      PROVE  k.FirstFreeSizeEntry[k.entry[b].lookupsize] = b
  <2> DEFINE t == h.entry[b].lookupsize
  <2>0. b \in A /\ b # a /\ t \in Tables /\ k.entry[b].lookupsize = t
    BY <1>2, <1>4, <1>b
  <2>1. CASE e.nextsize # NIL /\ b = e.nextsize
    <3>1. e.prevsize = NIL /\ t = e.lookupsize
      BY <1>2, <1>3, <1>9, <2>1
    <3> HIDE DEF e, t
    <3> QED BY <1>2, <2>0, <2>1, <3>1
  <2>2. CASE ~(e.nextsize # NIL /\ b = e.nextsize)
    <3>1. h.entry[b].prevsize = NIL
      BY <1>2, <1>9, <2>2
    <3>2. h.FirstFreeSizeEntry[t] = b
      BY <2>0, <3>1 DEF Linked, Listed
    <3>3. ~(e.prevsize = NIL /\ t = e.lookupsize)
      BY <1>3, <2>0, <3>2
    <3> HIDE DEF e, t
    <3> QED BY <1>2, <2>0, <3>2, <3>3
  <2> QED BY <2>1, <2>2
<1> HIDE <1>2
<1>10. Listed(k, B)
  BY <1>5, <1>6, <1>7, <1>8, <1>9 DEF Listed
<1> QED BY <1>10 DEF B

(* Remove makes no size list lose another entry.                            *)
LEMMA RemoveKeepsMet ==
    ASSUME NEW A, NEW h, Linked(h, A), NEW a \in A, NEW k, k = Remove(h, a)
    PROVE  Met(k, A \ {a})
<1> DEFINE e == h.entry[a]
           B == A \ {a}
<1>1. h \in FreeLists(A) /\ e.lookupsize \in Tables /\ A \subseteq Int /\ NIL \notin A
  BY LookupIs, FreeListAssumption DEF Linked
<1>2. /\ \A t \in Tables : k.FirstFreeSizeEntry[t] =
            IF e.prevsize = NIL /\ t = e.lookupsize THEN e.nextsize ELSE h.FirstFreeSizeEntry[t]
      /\ \A b \in B : k.entry[b].lookupsize = h.entry[b].lookupsize
      /\ \A b \in B : k.entry[b].nextsize =
            IF e.prevsize # NIL /\ b = e.prevsize THEN e.nextsize ELSE h.entry[b].nextsize
  <2>1. Removed(h, k, A, a, e)
    BY RemovedFrom
  <2> HIDE DEF e
  <2> QED BY <2>1 DEF Removed
<1>3. /\ e.prevsize # NIL => /\ e.prevsize \in A /\ h.entry[e.prevsize].nextsize = a
                             /\ h.entry[e.prevsize].lookupsize = e.lookupsize
      /\ e.prevsize = NIL => h.FirstFreeSizeEntry[e.lookupsize] = a
  BY DEF Linked, Listed
<1>4. \A b \in A : h.entry[b].nextsize # NIL =>
          /\ h.entry[b].nextsize \in A
          /\ h.entry[h.entry[b].nextsize].prevsize = b
          /\ h.entry[h.entry[b].nextsize].lookupsize = h.entry[b].lookupsize
  BY DEF Linked, Listed
<1>5. \A t \in Tables : h.FirstFreeSizeEntry[t] # NIL =>
          /\ h.FirstFreeSizeEntry[t] \in A
          /\ h.entry[h.FirstFreeSizeEntry[t]].lookupsize = t
  BY DEF Linked, Listed
<1>6. \A t \in Tables : \A S \in SUBSET A :
        Closed(h, S) /\ Begun(h, t, S) => \A b \in A : h.entry[b].lookupsize = t => b \in S
  BY DEF Linked, Met
<1>7. e.nextsize = h.entry[a].nextsize /\ e.prevsize = h.entry[a].prevsize
      /\ e.lookupsize = h.entry[a].lookupsize
  OBVIOUS
<1> HIDE DEF e, B
<1>b. /\ \A b \in B : b \in A /\ b # a
      /\ \A b \in A : b # a => b \in B
      /\ B \subseteq A
  BY DEF B
<1>8. SUFFICES ASSUME NEW t \in Tables, NEW S \in SUBSET B, Closed(k, S), Begun(k, t, S)
               PROVE  \A b \in B : h.entry[b].lookupsize = t => b \in S
  BY <1>2 DEF Met, B
<1>9. CASE e.lookupsize # t
  <2> DEFINE T == { b \in S : h.entry[b].lookupsize = t }
  <2>1. T \in SUBSET A
    BY <1>b
  <2>2. ASSUME NEW b \in T, h.entry[b].nextsize # NIL PROVE h.entry[b].nextsize \in T
    <3>1. b \in S /\ b \in B /\ h.entry[b].lookupsize = t
      BY <2>2
    <3> DEFINE n == h.entry[b].nextsize
    <3>2. h.entry[n].lookupsize = t /\ n \in A
      BY <1>4, <1>b, <2>2, <3>1
    <3>3. ~(e.prevsize # NIL /\ b = e.prevsize)
      BY <1>3, <1>9, <3>1
    <3>4. k.entry[b].nextsize = n
      BY <1>2, <3>1, <3>3
    <3>5. n \in S
      BY <1>8, <2>2, <3>1, <3>4 DEF Closed
    <3> QED BY <3>2, <3>5
  <2>3. Closed(h, T)
    BY <2>2 DEF Closed
  <2>4. Begun(h, t, T)
    <3>1. k.FirstFreeSizeEntry[t] = h.FirstFreeSizeEntry[t]
      BY <1>2, <1>9
    <3> QED BY <1>5, <1>8, <3>1 DEF Begun
  <2>5. \A b \in A : h.entry[b].lookupsize = t => b \in T
    BY <1>6, <2>1, <2>3, <2>4
  <2> QED BY <1>b, <2>5
<1>10. CASE e.lookupsize = t /\ e.prevsize # NIL /\ e.prevsize \notin S
  <2>1. S \in SUBSET A
    BY <1>b
  <2>2. Closed(h, S)
    <3> SUFFICES ASSUME NEW b \in S, h.entry[b].nextsize # NIL PROVE h.entry[b].nextsize \in S
      BY DEF Closed
    <3>1. b # e.prevsize /\ b \in B
      BY <1>10
    <3>2. k.entry[b].nextsize = h.entry[b].nextsize
      BY <1>2, <3>1
    <3> QED BY <1>8, <3>2 DEF Closed
  <2>3. Begun(h, t, S)
    BY <1>2, <1>8, <1>10 DEF Begun
  <2>4. a \in S
    BY <1>6, <1>7, <1>10, <2>1, <2>2, <2>3
  <2> QED BY <1>b, <2>4
<1>11. CASE e.lookupsize = t /\ (e.prevsize = NIL \/ e.prevsize \in S)
  <2> DEFINE T == S \cup {a}
  <2>1. T \in SUBSET A
    BY <1>b
  <2>2. e.nextsize # NIL => e.nextsize \in S
    <3>1. CASE e.prevsize = NIL
      BY <1>2, <1>8, <1>11, <3>1 DEF Begun
    <3>2. CASE e.prevsize # NIL
      <4>1. e.prevsize \in S /\ e.prevsize \in B
        BY <1>11, <3>2
      <4>2. k.entry[e.prevsize].nextsize = e.nextsize
        BY <1>2, <3>2, <4>1
      <4> QED BY <1>8, <4>1, <4>2 DEF Closed
    <3> QED BY <3>1, <3>2
  <2>3. Closed(h, T)
    <3> SUFFICES ASSUME NEW b \in T, h.entry[b].nextsize # NIL PROVE h.entry[b].nextsize \in T
      BY DEF Closed
    <3>1. CASE b = a
      BY <1>7, <2>2, <3>1
    <3>2. CASE b # a
      <4>1. b \in S /\ b \in B
        BY <3>2
      <4>2. CASE e.prevsize # NIL /\ b = e.prevsize
        BY <1>3, <4>2
      <4>3. CASE ~(e.prevsize # NIL /\ b = e.prevsize)
        <5>1. k.entry[b].nextsize = h.entry[b].nextsize
          BY <1>2, <4>1, <4>3
        <5> QED BY <1>8, <4>1, <5>1 DEF Closed
      <4> QED BY <4>2, <4>3
    <3> QED BY <3>1, <3>2
  <2>4. Begun(h, t, T)
    <3>1. CASE e.prevsize = NIL
      BY <1>3, <1>11, <3>1 DEF Begun
    <3>2. CASE e.prevsize # NIL
      BY <1>2, <1>8, <3>2 DEF Begun
    <3> QED BY <3>1, <3>2
  <2>5. \A b \in A : h.entry[b].lookupsize = t => b \in T
    BY <1>6, <2>1, <2>3, <2>4
  <2> QED BY <1>b, <2>5
<1> QED BY <1>9, <1>10, <1>11

(* Remove keeps a heap linked (KLfreeListRemove).                           *)
LEMMA RemoveKeepsLinked ==
    ASSUME NEW A, NEW h, Linked(h, A), NEW a \in A, NEW k, k = Remove(h, a)
    PROVE  Linked(k, A \ {a})
<1>1. k \in FreeLists(A \ {a})
  BY RemovedFrom DEF Removed
<1>2. A \ {a} \subseteq Int
  BY DEF Linked
<1> QED BY <1>1, <1>2, RemoveKeepsOrder, RemoveKeepsListed, RemoveKeepsMet DEF Linked

-----------------------------------------------------------------------------
(* Where an entry can be put in.                                            *)
Between(A, prev, a, next) ==
    /\ a \in Int /\ a \notin A
    /\ prev # NIL => prev \in A /\ prev < a
    /\ next # NIL => next \in A /\ a < next
    /\ \A b \in A : (prev # NIL /\ b <= prev) \/ (next # NIL /\ next <= b)

(* What Insert does to a linked heap.                                       *)
LEMMA InsertedInto ==
    ASSUME NEW A, NEW h, Linked(h, A), NEW prev, NEW a, NEW next, Between(A, prev, a, next),
           NEW size \in Int, NEW t, t = KLgetFastLookupToUse(size),
           NEW k, k = Insert(h, prev, a, size, next)
    PROVE  Inserted(h, k, A, prev, a, size, next, t, h.FirstFreeSizeEntry[t])
<1> DEFINE first == h.FirstFreeSizeEntry[t]
<1>1. h \in FreeLists(A) /\ A \subseteq Int /\ NIL \notin Int /\ t \in Tables
  BY TableIs, FreeListAssumption DEF Linked
<1>2. first # a /\ first = h.FirstFreeSizeEntry[t]
  BY <1>1, FreeListAssumption DEF Linked, Listed, Between
<1> HIDE DEF first
<1>3. /\ prev \in Pointers /\ next \in Pointers /\ a \in Int /\ a \notin A
      /\ prev # a /\ next # a
  BY <1>1 DEF Between, Pointers
<1>4. Inserted(h, k, A, prev, a, size, next, t, first)
  BY <1>1, <1>2, <1>3, InsertIs
<1> QED BY <1>4 DEF first

(* Insert keeps the list of addresses in order.                             *)
LEMMA InsertKeepsOrder ==
    ASSUME NEW A, NEW h, Linked(h, A), NEW prev, NEW a, NEW next, Between(A, prev, a, next),
           NEW size \in Int, NEW k, k = Insert(h, prev, a, size, next)
    PROVE  InOrder(k, A \cup {a})
<1> DEFINE B == A \cup {a}
           t == KLgetFastLookupToUse(size)
<1>1. /\ k.FirstFreeEntry = IF prev = NIL THEN a ELSE h.FirstFreeEntry
      /\ \A b \in B : k.entry[b].next =
            IF b = a THEN next ELSE IF prev # NIL /\ b = prev THEN a ELSE h.entry[b].next
      /\ \A b \in B : k.entry[b].prev =
            IF b = a THEN prev ELSE IF next # NIL /\ b = next THEN a ELSE h.entry[b].prev
  <2>1. Inserted(h, k, A, prev, a, size, next, t, h.FirstFreeSizeEntry[t])
    BY InsertedInto
  <2> HIDE DEF t
  <2> QED BY <2>1 DEF Inserted
<1>2. /\ Leads(A, h.FirstFreeEntry)
      /\ \A b \in A : Follows(A, b, h.entry[b].next)
      /\ \A b \in A : Precedes(A, b, h.entry[b].prev)
      /\ A \subseteq Int /\ NIL \notin Int
  BY FreeListAssumption DEF Linked, InOrder
<1>3. /\ a \in Int /\ a \notin A
      /\ prev # NIL => prev \in A /\ prev \in Int /\ prev < a
      /\ next # NIL => next \in A /\ next \in Int /\ a < next
      /\ \A b \in A : (prev # NIL /\ b <= prev) \/ (next # NIL /\ next <= b)
  BY <1>2 DEF Between
<1>4. \A b \in A : b \in Int /\ b # a /\ ((prev # NIL /\ b <= prev /\ b < a) \/ (next # NIL /\ next <= b /\ a < b))
  BY <1>2, <1>3
<1> HIDE DEF B
<1>b. a \in B /\ (\A b \in B : b = a \/ (b \in A /\ b # a)) /\ A \subseteq B
  BY <1>3 DEF B
<1>5. Leads(B, k.FirstFreeEntry)
  <2>1. CASE prev = NIL
    <3>1. \A b \in B : a <= b
      BY <1>3, <1>4, <1>b, <2>1
    <3>2. a # NIL
      BY <1>2, <1>3
    <3> QED BY <1>1, <1>b, <2>1, <3>1, <3>2 DEF Leads
  <2>2. CASE prev # NIL
    <3> DEFINE f == h.FirstFreeEntry
    <3>1. f # NIL /\ f \in A /\ \A b \in A : f <= b
      BY <1>2, <1>3, <2>2 DEF Leads
    <3> HIDE DEF f
    <3>2. f <= prev /\ f \in Int
      BY <1>2, <1>3, <2>2, <3>1
    <3>3. f <= a
      BY <1>3, <2>2, <3>2
    <3>4. \A b \in B : f <= b
      BY <1>b, <3>1, <3>3
    <3>5. k.FirstFreeEntry = f
      BY <1>1, <2>2 DEF f
    <3> QED BY <1>b, <3>1, <3>4, <3>5 DEF Leads
  <2> QED BY <2>1, <2>2
<1>6. ASSUME NEW b \in B PROVE Follows(B, b, k.entry[b].next)
  <2>1. CASE b = a
    <3>1. k.entry[b].next = next
      BY <1>1, <2>1
    <3>2. \A c \in B : c <= a \/ (next # NIL /\ next <= c)
      BY <1>3, <1>4, <1>b
    <3> QED BY <1>3, <1>b, <2>1, <3>1, <3>2 DEF Follows
  <2>2. CASE b # a /\ prev # NIL /\ b = prev
    <3>1. k.entry[b].next = a
      BY <1>1, <2>2
    <3>2. \A c \in B : c <= b \/ a <= c
      BY <1>3, <1>4, <1>b, <2>2
    <3>3. a # NIL
      BY <1>2, <1>3
    <3> QED BY <1>3, <1>b, <2>2, <3>1, <3>2, <3>3 DEF Follows
  <2>3. CASE b # a /\ ~(prev # NIL /\ b = prev)
    <3> DEFINE n == h.entry[b].next
    <3>1. b \in A /\ b \in Int
      BY <1>4, <1>b, <2>3
    <3>2. k.entry[b].next = n /\ Follows(A, b, n)
      BY <1>1, <1>2, <2>3, <3>1
    <3> HIDE DEF n
    <3>3. CASE n = NIL
      <4>1. \A c \in A : c <= b
        BY <3>2, <3>3 DEF Follows
      <4>2. ~(prev # NIL /\ b <= prev)
        <5>1. prev # NIL => prev \in Int /\ prev <= b
          BY <1>3, <4>1
        <5> QED BY <2>3, <3>1, <5>1
      <4>3. a < b
        BY <1>4, <3>1, <4>2
      <4>4. \A c \in B : c <= b
        BY <1>3, <1>b, <3>1, <4>1, <4>3
      <4> QED BY <3>2, <3>3, <4>4 DEF Follows
    <3>4. CASE n # NIL
      <4>1. n \in A /\ b < n /\ \A c \in A : c <= b \/ n <= c
        BY <3>2, <3>4 DEF Follows
      <4>2. n \in Int
        BY <1>4, <4>1
      <4>3. a <= b \/ n <= a
        <5>1. CASE prev # NIL /\ b <= prev
          <6>1. prev \in Int /\ prev \in A /\ prev < a
            BY <1>3, <5>1
          <6>2. n <= prev
            BY <2>3, <3>1, <4>1, <5>1, <6>1
          <6> QED BY <1>3, <4>2, <6>1, <6>2
        <5>2. CASE ~(prev # NIL /\ b <= prev)
          BY <1>3, <1>4, <3>1, <5>2
        <5> QED BY <5>1, <5>2
      <4>4. \A c \in B : c <= b \/ n <= c
        BY <1>b, <4>1, <4>3
      <4> QED BY <1>b, <3>2, <3>4, <4>1, <4>4 DEF Follows
    <3> QED BY <3>3, <3>4
  <2> QED BY <2>1, <2>2, <2>3
<1>7. ASSUME NEW b \in B PROVE Precedes(B, b, k.entry[b].prev)
  <2>1. CASE b = a
    <3>1. k.entry[b].prev = prev
      BY <1>1, <2>1
    <3>2. \A c \in B : (prev # NIL /\ c <= prev) \/ a <= c
      BY <1>3, <1>4, <1>b
    <3> QED BY <1>3, <1>b, <2>1, <3>1, <3>2 DEF Precedes
  <2>2. CASE b # a /\ next # NIL /\ b = next
    <3>1. k.entry[b].prev = a
      BY <1>1, <2>2
    <3>2. \A c \in B : c <= a \/ b <= c
      BY <1>3, <1>4, <1>b, <2>2
    <3>3. a # NIL
      BY <1>2, <1>3
    <3> QED BY <1>3, <1>b, <2>2, <3>1, <3>2, <3>3 DEF Precedes
  <2>3. CASE b # a /\ ~(next # NIL /\ b = next)
    <3> DEFINE p == h.entry[b].prev
    <3>1. b \in A /\ b \in Int
      BY <1>4, <1>b, <2>3
    <3>2. k.entry[b].prev = p /\ Precedes(A, b, p)
      BY <1>1, <1>2, <2>3, <3>1
    <3> HIDE DEF p
    <3>3. CASE p = NIL
      <4>1. \A c \in A : b <= c
        BY <3>2, <3>3 DEF Precedes
      <4>2. ~(next # NIL /\ next <= b)
        <5>1. next # NIL => next \in Int /\ b <= next
          BY <1>3, <4>1
        <5> QED BY <2>3, <3>1, <5>1
      <4>3. b < a
        BY <1>4, <3>1, <4>2
      <4>4. \A c \in B : b <= c
        BY <1>3, <1>b, <3>1, <4>1, <4>3
      <4> QED BY <3>2, <3>3, <4>4 DEF Precedes
    <3>4. CASE p # NIL
      <4>1. p \in A /\ p < b /\ \A c \in A : c <= p \/ b <= c
        BY <3>2, <3>4 DEF Precedes
      <4>2. p \in Int
        BY <1>4, <4>1
      <4>3. a <= p \/ b <= a
        <5>1. CASE next # NIL /\ next <= b
          <6>1. next \in Int /\ next \in A /\ a < next
            BY <1>3, <5>1
          <6>2. next <= p
            BY <2>3, <3>1, <4>1, <5>1, <6>1
          <6> QED BY <1>3, <4>2, <6>1, <6>2
        <5>2. CASE ~(next # NIL /\ next <= b)
          BY <1>3, <1>4, <3>1, <5>2
        <5> QED BY <5>1, <5>2
      <4>4. \A c \in B : c <= p \/ b <= c
        BY <1>b, <4>1, <4>3
      <4> QED BY <1>b, <3>2, <3>4, <4>1, <4>4 DEF Precedes
    <3> QED BY <3>3, <3>4
  <2> QED BY <2>1, <2>2, <2>3
<1>8. InOrder(k, B)
  BY <1>5, <1>6, <1>7 DEF InOrder
<1> QED BY <1>8 DEF B

(* Insert keeps the size lists linked both ways and met whole.              *)
LEMMA InsertKeepsListed ==
    ASSUME NEW A, NEW h, Linked(h, A), NEW prev, NEW a, NEW next, Between(A, prev, a, next),
           NEW size \in Int, NEW k, k = Insert(h, prev, a, size, next)
    PROVE  Listed(k, A \cup {a}) /\ Met(k, A \cup {a})
<1> DEFINE B == A \cup {a}
           u == KLgetFastLookupToUse(size)
           first == h.FirstFreeSizeEntry[u]
<1>1. /\ \A t \in Tables : k.FirstFreeSizeEntry[t] = IF t = u THEN a ELSE h.FirstFreeSizeEntry[t]
      /\ \A b \in B : k.entry[b].size = IF b = a THEN size ELSE h.entry[b].size
      /\ \A b \in B : k.entry[b].lookupsize = IF b = a THEN u ELSE h.entry[b].lookupsize
      /\ \A b \in B : k.entry[b].nextsize = IF b = a THEN first ELSE h.entry[b].nextsize
      /\ \A b \in B : k.entry[b].prevsize =
            IF b = a THEN NIL ELSE IF first # NIL /\ b = first THEN a ELSE h.entry[b].prevsize
  <2>1. Inserted(h, k, A, prev, a, size, next, u, first)
    BY InsertedInto
  <2> HIDE DEF u, first
  <2> QED BY <2>1 DEF Inserted
<1>2. u \in Tables /\ a \in Int /\ a \notin A /\ NIL \notin Int /\ A \subseteq Int
  BY TableIs, FreeListAssumption DEF Linked, Between
<1>3. \A t \in Tables : h.FirstFreeSizeEntry[t] # NIL =>
          /\ h.FirstFreeSizeEntry[t] \in A
          /\ h.entry[h.FirstFreeSizeEntry[t]].prevsize = NIL
          /\ h.entry[h.FirstFreeSizeEntry[t]].lookupsize = t
  BY DEF Linked, Listed
<1>4. first # NIL => first \in A /\ h.entry[first].prevsize = NIL /\ h.entry[first].lookupsize = u
  BY <1>2, <1>3
<1>5. \A b \in A : h.entry[b].lookupsize = KLgetFastLookupToUse(h.entry[b].size)
  BY DEF Linked, Listed
<1>6. \A b \in A : h.entry[b].nextsize # NIL =>
          /\ h.entry[b].nextsize \in A
          /\ h.entry[h.entry[b].nextsize].prevsize = b
          /\ h.entry[h.entry[b].nextsize].lookupsize = h.entry[b].lookupsize
  BY DEF Linked, Listed
<1>7. \A b \in A : h.entry[b].prevsize # NIL =>
          /\ h.entry[b].prevsize \in A
          /\ h.entry[h.entry[b].prevsize].nextsize = b
          /\ h.entry[h.entry[b].prevsize].lookupsize = h.entry[b].lookupsize
  BY DEF Linked, Listed
<1>8. \A b \in A : h.entry[b].prevsize = NIL => h.FirstFreeSizeEntry[h.entry[b].lookupsize] = b
  BY DEF Linked, Listed
<1>9. \A b \in A : h.entry[b].lookupsize \in Tables
  BY LookupIs
<1>10. first = h.FirstFreeSizeEntry[u] /\ u = KLgetFastLookupToUse(size)
  OBVIOUS
<1> HIDE DEF B, u, first
<1>b. a \in B /\ (\A b \in B : b = a \/ (b \in A /\ b # a)) /\ (\A b \in A : b \in B /\ b # a /\ b # NIL) /\ a # NIL
  BY <1>2 DEF B
<1>11. ASSUME NEW t \in Tables, k.FirstFreeSizeEntry[t] # NIL
       PROVE  /\ k.FirstFreeSizeEntry[t] \in B
              /\ k.entry[k.FirstFreeSizeEntry[t]].prevsize = NIL
              /\ k.entry[k.FirstFreeSizeEntry[t]].lookupsize = t
  <2>1. CASE t = u
    BY <1>1, <1>b, <2>1
  <2>2. CASE t # u
    <3> DEFINE f == h.FirstFreeSizeEntry[t]
    <3>1. k.FirstFreeSizeEntry[t] = f /\ f # NIL
      BY <1>1, <1>11, <2>2
    <3>2. f \in A /\ h.entry[f].prevsize = NIL /\ h.entry[f].lookupsize = t
      BY <1>3, <3>1
    <3> HIDE DEF f
    <3>3. f # first \/ first = NIL
      BY <1>4, <2>2, <3>2
    <3>4. k.entry[f].prevsize = NIL /\ k.entry[f].lookupsize = t
      BY <1>1, <1>b, <3>2, <3>3
    <3> QED BY <1>b, <3>1, <3>2, <3>4
  <2> QED BY <2>1, <2>2
<1>12. \A b \in B : k.entry[b].lookupsize = KLgetFastLookupToUse(k.entry[b].size)
  BY <1>1, <1>5, <1>10, <1>b
<1>13. ASSUME NEW b \in B, k.entry[b].nextsize # NIL
       PROVE  /\ k.entry[b].nextsize \in B
              /\ k.entry[k.entry[b].nextsize].prevsize = b
              /\ k.entry[k.entry[b].nextsize].lookupsize = k.entry[b].lookupsize
  <2>1. CASE b = a
    <3>1. k.entry[b].nextsize = first /\ first # NIL /\ k.entry[b].lookupsize = u
      BY <1>1, <1>13, <2>1
    <3>2. first \in A /\ h.entry[first].lookupsize = u
      BY <1>4, <3>1
    <3>3. k.entry[first].prevsize = a /\ k.entry[first].lookupsize = u
      BY <1>1, <1>b, <3>1, <3>2
    <3> QED BY <1>b, <2>1, <3>1, <3>2, <3>3
  <2>2. CASE b # a
    <3> DEFINE n == h.entry[b].nextsize
    <3>0. b \in A
      BY <1>b, <2>2
    <3>1. k.entry[b].nextsize = n /\ n # NIL /\ k.entry[b].lookupsize = h.entry[b].lookupsize
      BY <1>1, <1>13, <2>2
    <3>2. n \in A /\ h.entry[n].prevsize = b /\ h.entry[n].lookupsize = h.entry[b].lookupsize
      BY <1>6, <3>0, <3>1
    <3> HIDE DEF n
    <3>3. ~(first # NIL /\ n = first)
      BY <1>4, <1>b, <3>0, <3>2
    <3>4. k.entry[n].prevsize = b /\ k.entry[n].lookupsize = h.entry[b].lookupsize
      BY <1>1, <1>b, <3>2, <3>3
    <3> QED BY <1>b, <3>1, <3>2, <3>4
  <2> QED BY <2>1, <2>2
<1>14. ASSUME NEW b \in B, k.entry[b].prevsize # NIL
       PROVE  /\ k.entry[b].prevsize \in B
              /\ k.entry[k.entry[b].prevsize].nextsize = b
              /\ k.entry[k.entry[b].prevsize].lookupsize = k.entry[b].lookupsize
  <2>0. b # a /\ b \in A /\ k.entry[b].lookupsize = h.entry[b].lookupsize
    BY <1>1, <1>14, <1>b
  <2>1. CASE first # NIL /\ b = first
    <3>1. k.entry[b].prevsize = a
      BY <1>1, <2>0, <2>1
    <3>2. k.entry[a].nextsize = b /\ k.entry[a].lookupsize = u
      BY <1>1, <1>b, <2>1
    <3> QED BY <1>4, <1>b, <2>0, <2>1, <3>1, <3>2
  <2>2. CASE ~(first # NIL /\ b = first)
    <3> DEFINE p == h.entry[b].prevsize
    <3>1. k.entry[b].prevsize = p /\ p # NIL
      BY <1>1, <1>14, <2>0, <2>2
    <3>2. p \in A /\ h.entry[p].nextsize = b /\ h.entry[p].lookupsize = h.entry[b].lookupsize
      BY <1>7, <2>0, <3>1
    <3> HIDE DEF p
    <3>3. k.entry[p].nextsize = b /\ k.entry[p].lookupsize = h.entry[b].lookupsize
      BY <1>1, <1>b, <3>2
    <3> QED BY <1>b, <2>0, <3>1, <3>2, <3>3
  <2> QED BY <2>1, <2>2
<1>15. ASSUME NEW b \in B, k.entry[b].prevsize = NIL
       PROVE  k.FirstFreeSizeEntry[k.entry[b].lookupsize] = b
  <2>1. CASE b = a
    BY <1>1, <1>2, <1>b, <2>1
  <2>2. CASE b # a
    <3> DEFINE t == h.entry[b].lookupsize
    <3>1. b \in A /\ k.entry[b].lookupsize = t
      BY <1>1, <1>b, <2>2
    <3>2. ~(first # NIL /\ b = first) /\ h.entry[b].prevsize = NIL
      BY <1>1, <1>15, <1>b, <2>2
    <3>3. h.FirstFreeSizeEntry[t] = b /\ t \in Tables
      BY <1>8, <1>9, <3>1, <3>2
    <3> HIDE DEF t
    <3>4. t # u
      BY <1>10, <1>b, <3>1, <3>2, <3>3
    <3> QED BY <1>1, <3>1, <3>3, <3>4
  <2> QED BY <2>1, <2>2
<1>16. Listed(k, B)
  BY <1>11, <1>12, <1>13, <1>14, <1>15 DEF Listed
<1>17. ASSUME NEW t \in Tables, NEW S \in SUBSET B, Closed(k, S), Begun(k, t, S),
              NEW b \in B, k.entry[b].lookupsize = t
       PROVE  b \in S
  <2> DEFINE T == S \cap A
  <2>1. Closed(h, T)
    <3> SUFFICES ASSUME NEW c \in T, h.entry[c].nextsize # NIL PROVE h.entry[c].nextsize \in T
      BY DEF Closed
    <3>1. c \in A /\ c \in S
      OBVIOUS
    <3>2. h.entry[c].nextsize \in A
      BY <1>6, <3>1
    <3>3. k.entry[c].nextsize = h.entry[c].nextsize
      BY <1>1, <1>b, <3>1
    <3> QED BY <1>17, <3>1, <3>2, <3>3 DEF Closed
  <2>2. t = u => a \in S
    BY <1>1, <1>17, <1>b DEF Begun
  <2>3. Begun(h, t, T)
    <3>1. CASE t = u
      <4>1. k.entry[a].nextsize = first
        BY <1>1, <1>b
      <4>2. first # NIL => first \in S
        BY <1>17, <2>2, <3>1, <4>1 DEF Closed
      <4> QED BY <1>4, <1>10, <3>1, <4>2 DEF Begun
    <3>2. CASE t # u
      <4>1. k.FirstFreeSizeEntry[t] = h.FirstFreeSizeEntry[t]
        BY <1>1, <3>2
      <4> QED BY <1>3, <1>17, <4>1 DEF Begun
    <3> QED BY <3>1, <3>2
  <2>4. CASE b = a
    BY <1>1, <1>17, <2>2, <2>4
  <2>5. CASE b # a
    <3>1. b \in A /\ h.entry[b].lookupsize = t
      BY <1>1, <1>17, <1>b, <2>5
    <3>2. T \in SUBSET A
      OBVIOUS
    <3>3. b \in T
      <4> HIDE DEF T
      <4> QED BY <2>1, <2>3, <3>1, <3>2 DEF Linked, Met
    <3> QED BY <3>3
  <2> QED BY <2>4, <2>5
<1>18. Met(k, B)
  BY <1>17 DEF Met
<1> QED BY <1>16, <1>18 DEF B

(* Insert keeps a heap linked (KLfreeListInsert).                           *)
LEMMA InsertKeepsLinked ==
    ASSUME NEW A, NEW h, Linked(h, A), NEW prev, NEW a, NEW next, Between(A, prev, a, next),
           NEW size \in Int, NEW k, k = Insert(h, prev, a, size, next)
    PROVE  Linked(k, A \cup {a})
<1>1. k \in FreeLists(A \cup {a})
  <2> DEFINE t == KLgetFastLookupToUse(size)
             first == h.FirstFreeSizeEntry[t]
  <2>1. Inserted(h, k, A, prev, a, size, next, t, first)
    BY InsertedInto
  <2> HIDE DEF t, first
  <2> QED BY <2>1 DEF Inserted
<1>2. A \cup {a} \subseteq Int
  BY DEF Linked, Between
<1> QED BY <1>1, <1>2, InsertKeepsOrder, InsertKeepsListed DEF Linked

-----------------------------------------------------------------------------
(* The space of the entries.                                                *)
Span(a, size) == a .. a + size - 1
Room(h, A)  == UNION { Span(a, h.entry[a].size) : a \in A }
Apart(h, A) ==
    /\ \A a \in A : h.entry[a].size >= HEADER
    /\ \A a, b \in A : a < b => a + h.entry[a].size < b
EndsIn(h, A, P) == \A a \in A : a + h.entry[a].size \in P

(* Addresses and sizes are numbers.                                         *)
LEMMA SizeIs ==
    ASSUME NEW A, NEW h, Linked(h, A), NEW a \in A
    PROVE  h.entry[a].size \in Int /\ a \in Int
BY LookupIs DEF Linked, Entry

(* A unit is free when an entry holds it.                                   *)
LEMMA RoomIs ==
    ASSUME NEW A, NEW h, Linked(h, A), NEW x
    PROVE  x \in Room(h, A) <=> x \in Int /\ \E a \in A : a <= x /\ x < a + h.entry[a].size
<1>1. \A a \in A : a \in Int /\ h.entry[a].size \in Int
  BY SizeIs
<1>2. \A a \in A : x \in Span(a, h.entry[a].size) <=>
                      x \in Int /\ a <= x /\ x < a + h.entry[a].size
  BY <1>1 DEF Span
<1>3. x \in Room(h, A) <=> \E a \in A : x \in Span(a, h.entry[a].size)
  BY DEF Room
<1> QED BY <1>2, <1>3

(* Remove takes the units of one entry out of the free memory.              *)
LEMMA RemoveRoom ==
    ASSUME NEW A, NEW h, Linked(h, A), Apart(h, A), NEW a \in A, NEW P, EndsIn(h, A, P),
           NEW k, k = Remove(h, a), NEW B, B = A \ {a}
    PROVE  /\ Linked(k, B) /\ Apart(k, B) /\ EndsIn(k, B, P)
           /\ k.FreeMemory = h.FreeMemory
           /\ \A b \in B : k.entry[b].size = h.entry[b].size
           /\ Room(k, B) = Room(h, A) \ Span(a, h.entry[a].size)
           /\ Span(a, h.entry[a].size) \subseteq Room(h, A)
<1>1. Linked(k, B)
  BY RemoveKeepsLinked
<1>2. k.FreeMemory = h.FreeMemory /\ \A b \in B : k.entry[b].size = h.entry[b].size
  <2> DEFINE e == h.entry[a]
  <2>1. Removed(h, k, A, a, e)
    BY RemovedFrom
  <2> HIDE DEF e
  <2> QED BY <2>1 DEF Removed
<1>3. Apart(k, B) /\ EndsIn(k, B, P)
  BY <1>2 DEF Apart, EndsIn
<1>4. \A b \in A : b \in Int /\ h.entry[b].size \in Int /\ HEADER \in Nat
  BY SizeIs, FreeListAssumption
<1>5. Span(a, h.entry[a].size) \subseteq Room(h, A)
  BY DEF Room
<1>6. ASSUME NEW x PROVE x \in Room(k, B) <=> x \in Room(h, A) /\ x \notin Span(a, h.entry[a].size)
  <2>1. ASSUME x \in Room(k, B)
        PROVE  x \in Room(h, A) /\ x \notin Span(a, h.entry[a].size)
    <3>1. PICK b \in B : b <= x /\ x < b + h.entry[b].size
      BY <1>1, <1>2, <2>1, RoomIs
    <3>2. x \in Int /\ b \in A /\ b # a
      BY <1>1, <2>1, RoomIs
    <3>3. x \in Room(h, A)
      BY <3>1, <3>2, RoomIs
    <3>4. b < a \/ a < b
      BY <1>4, <3>2
    <3>5. b < a => b + h.entry[b].size < a
      BY <3>2 DEF Apart
    <3>6. a < b => a + h.entry[a].size < b
      BY <3>2 DEF Apart
    <3> QED BY <1>4, <3>1, <3>2, <3>3, <3>4, <3>5, <3>6 DEF Span
  <2>2. ASSUME x \in Room(h, A), x \notin Span(a, h.entry[a].size)
        PROVE  x \in Room(k, B)
    <3>1. PICK b \in A : b <= x /\ x < b + h.entry[b].size
      BY <2>2, RoomIs
    <3>2. x \in Int
      BY <2>2, RoomIs
    <3>3. b # a
      BY <1>4, <2>2, <3>1, <3>2 DEF Span
    <3> QED BY <1>1, <1>2, <3>1, <3>2, <3>3, RoomIs
  <2> QED BY <2>1, <2>2
<1> QED BY <1>1, <1>2, <1>3, <1>5, <1>6

(* An entry that is put in between others it does not touch.                *)
LEMMA InsertRoom ==
    ASSUME NEW A, NEW h, Linked(h, A), Apart(h, A), NEW prev, NEW a, NEW next, Between(A, prev, a, next),
           NEW size \in Int, size >= HEADER,
           prev # NIL => prev + h.entry[prev].size < a,
           next # NIL => a + size < next,
           NEW P, EndsIn(h, A, P), a + size \in P,
           NEW k, k = Insert(h, prev, a, size, next), NEW B, B = A \cup {a}
    PROVE  /\ Linked(k, B) /\ Apart(k, B) /\ EndsIn(k, B, P)
           /\ k.FreeMemory = h.FreeMemory
           /\ k.entry[a].size = size /\ \A b \in A : k.entry[b].size = h.entry[b].size
           /\ Room(k, B) = Room(h, A) \cup Span(a, size)
<1>1. Linked(k, B)
  BY InsertKeepsLinked
<1>2. /\ k.FreeMemory = h.FreeMemory
      /\ \A b \in B : k.entry[b].size = IF b = a THEN size ELSE h.entry[b].size
  <2> DEFINE t == KLgetFastLookupToUse(size)
             first == h.FirstFreeSizeEntry[t]
  <2>1. Inserted(h, k, A, prev, a, size, next, t, first)
    BY InsertedInto
  <2> HIDE DEF t, first
  <2> QED BY <2>1 DEF Inserted
<1>3. a \in B /\ (\A b \in B : b = a \/ (b \in A /\ b # a)) /\ (\A b \in A : b \in B /\ b # a) /\ a \in Int
  BY DEF Between
<1>4. \A b \in A : b \in Int /\ h.entry[b].size \in Int
  BY SizeIs
<1>5. k.entry[a].size = size /\ \A b \in A : k.entry[b].size = h.entry[b].size
  BY <1>2, <1>3
<1>6. EndsIn(k, B, P)
  BY <1>3, <1>5 DEF EndsIn
<1>7. ASSUME NEW b \in A PROVE (b < a => b + h.entry[b].size < a) /\ (a < b => a + size < b)
  <2>1. CASE prev # NIL /\ b <= prev
    <3>1. prev \in A /\ prev < a /\ prev \in Int
      BY <1>4, <2>1 DEF Between
    <3>2. b = prev \/ b < prev
      BY <1>4, <2>1, <3>1
    <3>3. b < prev => b + h.entry[b].size < prev
      BY <3>1 DEF Apart
    <3>4. b + h.entry[b].size < a
      <4>1. prev + h.entry[prev].size < a /\ h.entry[prev].size \in Int /\ h.entry[prev].size >= HEADER
        BY <1>4, <2>1, <3>1 DEF Apart
      <4>2. CASE b = prev
        BY <4>1, <4>2
      <4>3. CASE b < prev
        BY <1>3, <1>4, <3>1, <3>3, <4>3
      <4> QED BY <3>2, <4>2, <4>3
    <3>5. a \in Int /\ b \in Int /\ b <= prev
      BY <1>3, <1>4, <2>1
    <3>6. ~(a < b)
      BY <3>1, <3>5
    <3> QED BY <3>4, <3>6
  <2>2. CASE next # NIL /\ next <= b
    <3>1. next \in Int /\ a < next
      BY <1>4, <2>2 DEF Between
    <3> QED BY <1>3, <1>4, <2>2, <3>1
  <2> QED BY <2>1, <2>2 DEF Between
<1>8. Apart(k, B)
  BY <1>3, <1>5, <1>7 DEF Apart
<1>9. ASSUME NEW x PROVE x \in Room(k, B) <=> x \in Room(h, A) \/ x \in Span(a, size)
  <2>1. ASSUME x \in Room(k, B)
        PROVE  x \in Room(h, A) \/ x \in Span(a, size)
    <3>1. PICK b \in B : b <= x /\ x < b + k.entry[b].size
      BY <1>1, <2>1, RoomIs
    <3>2. x \in Int
      BY <1>1, <2>1, RoomIs
    <3>3. CASE b = a
      BY <1>3, <1>5, <3>1, <3>2, <3>3 DEF Span
    <3>4. CASE b # a
      BY <1>3, <1>5, <3>1, <3>2, <3>4, RoomIs
    <3> QED BY <3>3, <3>4
  <2>2. ASSUME x \in Room(h, A) PROVE x \in Room(k, B)
    <3>1. PICK b \in A : b <= x /\ x < b + h.entry[b].size
      BY <2>2, RoomIs
    <3>2. x \in Int
      BY <2>2, RoomIs
    <3> QED BY <1>1, <1>3, <1>5, <3>1, <3>2, RoomIs
  <2>3. ASSUME x \in Span(a, size) PROVE x \in Room(k, B)
    <3>1. x \in Int /\ a <= x /\ x < a + k.entry[a].size
      BY <1>3, <1>5, <2>3 DEF Span
    <3> QED BY <1>1, <1>3, <3>1, RoomIs
  <2> QED BY <2>1, <2>2, <2>3
<1> QED BY <1>1, <1>2, <1>5, <1>6, <1>8, <1>9

-----------------------------------------------------------------------------
(* The least and the greatest of some numbers.                              *)
LEMMA LeastNat ==
    ASSUME NEW T \in SUBSET Nat, T # {}
    PROVE  \E x \in T : \A y \in T : x <= y
<1>1. \A a, b \in Nat : a < b => <<a, b>> \in OpToRel(<, Nat)
  BY DEF OpToRel
<1>2. \E R : IsWellFoundedOn(R, Nat) /\ \A a, b \in Nat : a < b => <<a, b>> \in R
  <2> WITNESS OpToRel(<, Nat)
  <2> QED BY <1>1, NatLessThanWellFounded, Zenon
<1>3. PICK R : IsWellFoundedOn(R, Nat) /\ \A a, b \in Nat : a < b => <<a, b>> \in R
  BY <1>2
<1>4. \E x \in T : \A y \in T : ~(<<y, x>> \in R)
  <2>1. IsWellFoundedOn(R, Nat) /\ T \subseteq Nat
    BY <1>3
  <2> QED BY <2>1, WFMin, Zenon
<1>5. PICK x \in T : \A y \in T : ~(<<y, x>> \in R)
  BY <1>4
<1>6. \A y \in T : ~(y < x)
  BY <1>3, <1>5
<1> QED BY <1>6

(* The least of a set of numbers.                                           *)
LEMMA LeastIs ==
    ASSUME NEW T \in SUBSET Nat, T # {}
    PROVE  Least(T) \in T /\ \A y \in T : Least(T) <= y
BY LeastNat DEF Least

(* The greatest of a bounded set of numbers.                                *)
LEMMA GreatestIs ==
    ASSUME NEW top \in Nat, NEW T \in SUBSET (0 .. top), T # {}
    PROVE  Greatest(T) \in T /\ \A y \in T : Greatest(T) >= y
<1> DEFINE S == { top - x : x \in T }
<1>1. S \in SUBSET Nat
  <2>1. \A x \in T : top - x \in Nat
    OBVIOUS
  <2> QED BY <2>1
<1>2. S # {}
  OBVIOUS
<1>3. PICK m \in S : \A y \in S : m <= y
  BY <1>1, <1>2, LeastNat
<1>4. PICK x \in T : m = top - x
  OBVIOUS
<1>5. \A y \in T : x >= y
  <2> SUFFICES ASSUME NEW y \in T PROVE x >= y
    OBVIOUS
  <2>1. top - y \in S
    OBVIOUS
  <2>2. m <= top - y /\ x \in Int /\ y \in Int
    BY <1>3, <2>1
  <2> QED BY <1>4, <2>2
<1> QED BY <1>5 DEF Greatest

(* Two disjoint sets together.                                              *)
LEMMA CardinalityApart ==
    ASSUME NEW S, NEW T, IsFiniteSet(S), IsFiniteSet(T), S \cap T = {}
    PROVE  IsFiniteSet(S \cup T) /\ Cardinality(S \cup T) = Cardinality(S) + Cardinality(T)
<1>1. Cardinality(S \cap T) = 0
  BY FS_EmptySet
<1>2. Cardinality(S) \in Nat /\ Cardinality(T) \in Nat
  BY FS_CardinalityType
<1>3. IsFiniteSet(S \cup T)
      /\ Cardinality(S \cup T) = Cardinality(S) + Cardinality(T) - Cardinality(S \cap T)
  BY FS_Union
<1> QED BY <1>1, <1>2, <1>3

-----------------------------------------------------------------------------
(* A heap: its entries are linked and apart, and FreeMemory is their sum.   *)
Whole(h, A) ==
    /\ Linked(h, A) /\ Apart(h, A) /\ A \subseteq Nat
    /\ IsFiniteSet(Room(h, A)) /\ h.FreeMemory = Cardinality(Room(h, A))

(* The entries of a linked heap are at its addresses.                       *)
LEMMA AddressesAre ==
    ASSUME NEW A, NEW h, Linked(h, A)
    PROVE  Addresses(h) = A
BY DEF Linked, FreeLists, Addresses

(* A size that is rounded up is that of an entry at least.                  *)
LEMMA AdjustedIs ==
    ASSUME NEW request \in Nat
    PROVE  AdjustSize(request) \in Nat /\ AdjustSize(request) >= HEADER /\ AdjustSize(request) >= request
           /\ AdjustSize(request) > 0
BY FreeListAssumption DEF AdjustSize

(* A block that has its place between two entries.                          *)
Opening(h, A, prev, block, size, next) ==
    /\ Linked(h, A) /\ Apart(h, A) /\ Between(A, prev, block, next)
    /\ size \in Nat /\ size >= HEADER
    /\ prev # NIL => prev + h.entry[prev].size <= block
    /\ next # NIL => block + size <= next

(* The entry in front is taken in.                                          *)
Touches(h, a, block) == a + h.entry[a].size = block
Behind(h, a, block)  == a # NIL => a + h.entry[a].size < block
Before(block, size, a) == a # NIL => block + size < a
Ends(block, size, P)   == block + size \in P
Meets(block, size, a)  == a # NIL /\ block + size = a
Same(h, A, block, size, k, B, data, s) ==
    /\ k.FreeMemory = h.FreeMemory
    /\ Room(k, B) \cup Span(data, s) = Room(h, A) \cup Span(block, size)

(* Taking it in, the block keeps its place and no unit is lost.             *)
LEMMA JoinPrevIs ==
    ASSUME NEW A, NEW h, NEW prev, NEW block, NEW size, NEW next, Opening(h, A, prev, block, size, next),
           prev # NIL, Touches(h, prev, block),
           NEW P, EndsIn(h, A, P),
           NEW k, k = Remove(h, prev), NEW B, B = A \ {prev},
           NEW pp, pp = h.entry[prev].prev, NEW s, s = size + h.entry[prev].size
    PROVE  /\ Opening(k, B, pp, prev, s, next) /\ Behind(k, pp, prev)
           /\ EndsIn(k, B, P) /\ Same(h, A, block, size, k, B, prev, s)
<1> DEFINE z == h.entry[prev].size
<1>1. Linked(h, A) /\ Apart(h, A) /\ Between(A, prev, block, next) /\ size \in Nat /\ size >= HEADER
  BY DEF Opening
<1>2. /\ prev \in A /\ prev \in Int /\ prev < block /\ block \in Int /\ A \subseteq Int /\ NIL \notin Int
      /\ z \in Int /\ z >= HEADER /\ HEADER \in Nat \ {0}
  BY <1>1, SizeIs, FreeListAssumption DEF Between, Apart, Linked
<1>3. next # NIL => next \in A /\ next \in Int /\ block < next /\ block + size <= next
  BY <1>1, <1>2 DEF Opening, Between
<1>4. \A b \in A : b \in Int /\ (b <= prev \/ (next # NIL /\ next <= b))
  BY <1>1, <1>2 DEF Between
<1>5. Precedes(A, prev, pp)
  BY <1>1, <1>2 DEF Linked, InOrder
<1>6. /\ Linked(k, B) /\ Apart(k, B) /\ EndsIn(k, B, P)
      /\ k.FreeMemory = h.FreeMemory
      /\ \A b \in B : k.entry[b].size = h.entry[b].size
      /\ Room(k, B) = Room(h, A) \ Span(prev, z)
      /\ Span(prev, z) \subseteq Room(h, A)
  BY <1>1, <1>2, RemoveRoom
<1> HIDE DEF z
<1>7. s = size + z /\ prev + z = block
  BY DEF z, Touches
<1>8. next # NIL => next \in B
  BY <1>2, <1>3
<1>9. pp # NIL => pp \in B /\ pp < prev /\ pp \in Int
  <2>1. pp # NIL => pp \in A /\ pp < prev
    BY <1>5 DEF Precedes
  <2>2. pp # NIL => pp \in Int
    BY <1>2, <2>1
  <2>3. pp # NIL => pp # prev
    BY <1>2, <2>1, <2>2
  <2> QED BY <2>1, <2>2, <2>3
<1>10. Between(B, pp, prev, next)
  <2>1. ASSUME NEW b \in B PROVE (pp # NIL /\ b <= pp) \/ (next # NIL /\ next <= b)
    <3>1. b \in A /\ b # prev /\ b \in Int
      BY <1>4
    <3>2. CASE next # NIL /\ next <= b
      BY <3>2
    <3>3. CASE b <= prev
      <4>1. b < prev
        BY <1>2, <3>1, <3>3
      <4>2. CASE pp = NIL
        BY <1>2, <1>5, <3>1, <4>1, <4>2 DEF Precedes
      <4>3. CASE pp # NIL
        BY <1>2, <1>5, <3>1, <4>1, <4>3 DEF Precedes
      <4> QED BY <4>2, <4>3
    <3> QED BY <1>4, <3>1, <3>2, <3>3
  <2>2. next # NIL => prev < next
    BY <1>2, <1>3
  <2> QED BY <1>2, <1>8, <1>9, <2>1, <2>2 DEF Between
<1>11. prev + s = block + size /\ s \in Nat /\ s >= HEADER
  BY <1>1, <1>2, <1>7
<1>12. next # NIL => prev + s <= next
  BY <1>3, <1>11
<1>13. pp # NIL => pp + k.entry[pp].size < prev
  <2>1. ASSUME pp # NIL PROVE pp + k.entry[pp].size < prev
    <3>1. pp \in A /\ pp < prev
      BY <1>9, <2>1
    <3>2. pp + h.entry[pp].size < prev
      BY <1>1, <1>2, <3>1 DEF Apart
    <3> QED BY <1>6, <1>9, <2>1, <3>2
  <2> QED BY <2>1
<1>14. pp # NIL => pp + k.entry[pp].size <= prev
  <2>1. ASSUME pp # NIL PROVE pp + k.entry[pp].size <= prev
    <3>1. pp \in Int /\ k.entry[pp].size \in Int /\ pp + k.entry[pp].size < prev
      BY <1>6, <1>9, <1>13, <2>1, SizeIs
    <3> QED BY <1>2, <3>1
  <2> QED BY <2>1
<1>15. Opening(k, B, pp, prev, s, next)
  BY <1>6, <1>10, <1>11, <1>12, <1>14 DEF Opening
<1>16. Span(prev, s) = Span(prev, z) \cup Span(block, size)
  BY <1>1, <1>2, <1>7 DEF Span
<1>17. Room(k, B) \cup Span(prev, s) = Room(h, A) \cup Span(block, size)
  BY <1>6, <1>16
<1>18. Behind(k, pp, prev)
  BY <1>13 DEF Behind
<1>19. Same(h, A, block, size, k, B, prev, s)
  BY <1>6, <1>17 DEF Same
<1> QED BY <1>6, <1>15, <1>18, <1>19

(* The entry behind is taken in.                                            *)
LEMMA JoinNextIs ==
    ASSUME NEW A, NEW h, NEW prev, NEW block, NEW size, NEW next, Opening(h, A, prev, block, size, next),
           Behind(h, prev, block), Meets(block, size, next),
           NEW P, EndsIn(h, A, P),
           NEW k, k = Remove(h, next), NEW B, B = A \ {next},
           NEW nn, nn = h.entry[next].next, NEW s, s = size + h.entry[next].size
    PROVE  /\ Opening(k, B, prev, block, s, nn)
           /\ Before(block, s, nn) /\ Behind(k, prev, block)
           /\ EndsIn(k, B, P) /\ Ends(block, s, P)
           /\ Same(h, A, block, size, k, B, block, s)
<1> DEFINE z == h.entry[next].size
<1>1. /\ Linked(h, A) /\ Apart(h, A) /\ Between(A, prev, block, next) /\ size \in Nat /\ size >= HEADER
      /\ next # NIL /\ block + size = next
  BY DEF Opening, Meets
<1>2. /\ next \in A /\ next \in Int /\ block < next /\ block \in Int /\ A \subseteq Int /\ NIL \notin Int
      /\ z \in Int /\ z >= HEADER /\ HEADER \in Nat \ {0} /\ next + z \in P
  BY <1>1, SizeIs, FreeListAssumption DEF Between, Apart, Linked, EndsIn
<1>3. prev # NIL => prev \in A /\ prev \in Int /\ prev < block /\ prev + h.entry[prev].size < block
  BY <1>1, <1>2 DEF Between, Behind
<1>4. \A b \in A : b \in Int /\ (next <= b \/ (prev # NIL /\ b <= prev))
  BY <1>1, <1>2 DEF Between
<1>5. Follows(A, next, nn)
  BY <1>1, <1>2 DEF Linked, InOrder
<1>6. /\ Linked(k, B) /\ Apart(k, B) /\ EndsIn(k, B, P)
      /\ k.FreeMemory = h.FreeMemory
      /\ \A b \in B : k.entry[b].size = h.entry[b].size
      /\ Room(k, B) = Room(h, A) \ Span(next, z)
      /\ Span(next, z) \subseteq Room(h, A)
  BY <1>1, <1>2, RemoveRoom
<1> HIDE DEF z
<1>7. s = size + z /\ block + size = next
  BY <1>1 DEF z
<1>8. prev # NIL => prev \in B
  BY <1>2, <1>3
<1>9. nn # NIL => nn \in B /\ next < nn /\ nn \in Int /\ nn \in A
  <2>1. nn # NIL => nn \in A /\ next < nn
    BY <1>5 DEF Follows
  <2>2. nn # NIL => nn \in Int
    BY <1>2, <2>1
  <2>3. nn # NIL => nn # next
    BY <1>2, <2>1, <2>2
  <2> QED BY <2>1, <2>2, <2>3
<1>10. Between(B, prev, block, nn)
  <2>1. ASSUME NEW b \in B PROVE (nn # NIL /\ nn <= b) \/ (prev # NIL /\ b <= prev)
    <3>1. b \in A /\ b # next /\ b \in Int
      BY <1>4
    <3>2. CASE prev # NIL /\ b <= prev
      BY <3>2
    <3>3. CASE next <= b
      <4>1. next < b
        BY <1>2, <3>1, <3>3
      <4>2. CASE nn = NIL
        BY <1>2, <1>5, <3>1, <4>1, <4>2 DEF Follows
      <4>3. CASE nn # NIL
        BY <1>2, <1>5, <3>1, <4>1, <4>3 DEF Follows
      <4> QED BY <4>2, <4>3
    <3> QED BY <1>4, <3>1, <3>2, <3>3
  <2>2. nn # NIL => block < nn
    BY <1>2, <1>9
  <2>3. block \notin B
    BY <1>1 DEF Between
  <2> QED BY <1>2, <1>3, <1>8, <1>9, <2>1, <2>2, <2>3 DEF Between
<1>11. block + s = next + z /\ s \in Nat /\ s >= HEADER
  BY <1>1, <1>2, <1>7
<1>12. nn # NIL => block + s < nn
  <2>1. nn # NIL => next + z < nn
    BY <1>1, <1>2, <1>9 DEF Apart, z
  <2> QED BY <1>11, <2>1
<1>13. prev # NIL => prev + k.entry[prev].size < block
  BY <1>3, <1>6, <1>8
<1>14. /\ nn # NIL => block + s <= nn
       /\ prev # NIL => prev + k.entry[prev].size <= block
  <2>1. ASSUME nn # NIL PROVE block + s <= nn
    BY <1>2, <1>9, <1>11, <1>12, <2>1
  <2>2. ASSUME prev # NIL PROVE prev + k.entry[prev].size <= block
    <3>1. k.entry[prev].size \in Int /\ prev \in Int
      BY <1>3, <1>6, <1>8, <2>2, SizeIs
    <3> QED BY <1>2, <1>13, <2>2, <3>1
  <2> QED BY <2>1, <2>2
<1>15. Opening(k, B, prev, block, s, nn)
  BY <1>6, <1>10, <1>11, <1>14 DEF Opening
<1>16. Span(block, s) = Span(block, size) \cup Span(next, z)
  BY <1>1, <1>2, <1>7 DEF Span
<1>17. Room(k, B) \cup Span(block, s) = Room(h, A) \cup Span(block, size)
  BY <1>6, <1>16
<1>18. block + s \in P
  BY <1>2, <1>11
<1>19. Before(block, s, nn) /\ Behind(k, prev, block) /\ Ends(block, s, P)
  BY <1>12, <1>13, <1>18 DEF Before, Behind, Ends
<1>20. Same(h, A, block, size, k, B, block, s)
  BY <1>6, <1>17 DEF Same
<1> QED BY <1>6, <1>15, <1>19, <1>20

(* The entries that KLfreeListMemFree finds on either side of a block.      *)
LEMMA NeighboursAre ==
    ASSUME NEW A, NEW h, Linked(h, A), Apart(h, A), A \subseteq Nat,
           NEW block \in Nat, NEW size \in Nat, size >= HEADER,
           Span(block, size) \cap Room(h, A) = {},
           NEW before, before = { a \in A : a <= block },
           NEW prev, prev = IF before = {} THEN NIL ELSE Greatest(before),
           NEW next, next = IF A \ before = {} THEN NIL ELSE Least(A \ before)
    PROVE  Opening(h, A, prev, block, size, next)
<1>1. HEADER \in Nat \ {0} /\ NIL \notin Int
  BY FreeListAssumption
<1>2. \A a \in A : a \in Nat /\ h.entry[a].size \in Int /\ h.entry[a].size >= HEADER
  BY SizeIs DEF Apart
<1>3. ASSUME NEW a \in A
      PROVE  /\ a # block
             /\ a < block => a + h.entry[a].size <= block
             /\ block < a => block + size <= a
  <2>1. CASE a <= block
    <3>1. block \notin Room(h, A)
      BY <1>1 DEF Span
    <3>2. ~(block < a + h.entry[a].size)
      BY <2>1, <3>1, RoomIs
    <3>3. a + h.entry[a].size <= block
      BY <1>2, <3>2
    <3> QED BY <1>1, <1>2, <2>1, <3>3
  <2>2. CASE ~(a <= block)
    <3>1. a \in Room(h, A)
      <4>1. a <= a /\ a < a + h.entry[a].size /\ a \in Int
        BY <1>1, <1>2
      <4> QED BY <4>1, RoomIs
    <3>2. a \notin Span(block, size)
      BY <3>1
    <3> QED BY <1>2, <2>2, <3>2 DEF Span
  <2> QED BY <2>1, <2>2
<1>4. before # {} => /\ prev \in A /\ prev <= block /\ prev \in Nat
                     /\ \A a \in before : a <= prev
  <2>1. ASSUME before # {} PROVE prev \in before /\ \A a \in before : prev >= a
    <3>1. before \in SUBSET (0 .. block)
      <4>1. \A a \in before : a \in Nat /\ a <= block
        BY <1>2
      <4>2. \A a \in before : a \in 0 .. block
        BY <4>1
      <4> QED BY <4>2
    <3>2. prev = Greatest(before)
      BY <2>1
    <3> QED BY <2>1, <3>1, <3>2, GreatestIs
  <2> QED BY <1>2, <2>1
<1>5. A \ before # {} => /\ next \in A /\ block < next /\ next \in Nat
                         /\ \A a \in A \ before : next <= a
  <2>1. ASSUME A \ before # {} PROVE next \in A \ before /\ \A a \in A \ before : next <= a
    <3>1. A \ before \in SUBSET Nat
      OBVIOUS
    <3>2. next = Least(A \ before)
      BY <2>1
    <3> QED BY <2>1, <3>1, <3>2, LeastIs
  <2>2. ASSUME A \ before # {} PROVE block < next
    <3>1. next \in A /\ next \in Nat /\ ~(next <= block)
      BY <1>2, <2>1, <2>2
    <3> QED BY <3>1
  <2> QED BY <1>2, <2>1, <2>2
<1>6. (prev # NIL <=> before # {}) /\ (next # NIL <=> A \ before # {})
  BY <1>1, <1>4, <1>5
<1>7. prev # NIL => prev \in A /\ prev < block
  BY <1>3, <1>4, <1>6
<1>8. next # NIL => next \in A /\ block < next
  BY <1>5, <1>6
<1>9. \A a \in A : (prev # NIL /\ a <= prev) \/ (next # NIL /\ next <= a)
  BY <1>4, <1>5, <1>6
<1>10. Between(A, prev, block, next)
  BY <1>3, <1>7, <1>8, <1>9 DEF Between
<1>11. prev # NIL => prev + h.entry[prev].size <= block
  BY <1>3, <1>7
<1>12. next # NIL => block + size <= next
  BY <1>3, <1>8
<1> QED BY <1>10, <1>11, <1>12 DEF Opening

(* The free memory is set when the entries are as they will be.             *)
Counts(S, m) == m \in Nat /\ IsFiniteSet(S) /\ Cardinality(S) = m
LEMMA CountIs ==
    ASSUME NEW A, NEW h, Linked(h, A), Apart(h, A), A \subseteq Nat, NEW P, EndsIn(h, A, P),
           NEW m, Counts(Room(h, A), m),
           NEW k, k = PutMemory(h, m)
    PROVE  Whole(k, A) /\ EndsIn(k, A, P) /\ Room(k, A) = Room(h, A)
<1>1. h \in FreeLists(A) /\ m \in Nat
  BY DEF Linked, Counts
<1>2. /\ k \in FreeLists(A)
      /\ k.FirstFreeEntry = h.FirstFreeEntry
      /\ k.FirstFreeSizeEntry = h.FirstFreeSizeEntry
      /\ k.FreeMemory = m
      /\ k.entry = h.entry
  BY <1>1, PutMemoryIs
<1>3. InOrder(k, A)
  BY <1>2 DEF Linked, InOrder
<1>4. Listed(k, A)
  BY <1>2 DEF Linked, Listed
<1>5. Met(k, A)
  BY <1>2 DEF Linked, Met, Closed, Begun
<1>6. Linked(k, A)
  BY <1>2, <1>3, <1>4, <1>5 DEF Linked
<1>7. Apart(k, A) /\ EndsIn(k, A, P) /\ Room(k, A) = Room(h, A)
  BY <1>2 DEF Apart, EndsIn, Room
<1> QED BY <1>2, <1>6, <1>7 DEF Whole, Counts

(* A block that is freed adds its units to the free memory and keeps the    *)
(* heap whole (KLfreeListMemFree).                                          *)
LEMMA MemFreeIs ==
    ASSUME NEW A, NEW h, Whole(h, A), NEW block \in Nat, NEW request \in Nat,
           Span(block, AdjustSize(request)) \cap Room(h, A) = {},
           NEW P, EndsIn(h, A, P), block + AdjustSize(request) \in P,
           NEW k, k = MemFree(h, block, request)
    PROVE  \E B : /\ Whole(k, B) /\ EndsIn(k, B, P)
                  /\ Room(k, B) = Room(h, A) \cup Span(block, AdjustSize(request))
<1> DEFINE size == AdjustSize(request)
           before == { a \in Addresses(h) : a <= block }
           after  == Addresses(h) \ before
           prev == IF before = {} THEN NIL ELSE Greatest(before)
           next == IF after = {} THEN NIL ELSE Least(after)
           joins == prev # NIL /\ prev + h.entry[prev].size = block
           front == IF ~joins THEN [heap |-> h, data |-> block, size |-> size, prev |-> prev]
                    ELSE [heap |-> Remove(h, prev), data |-> prev,
                          size |-> size + h.entry[prev].size, prev |-> h.entry[prev].prev]
           rear == JoinNext(front.heap, front.data, front.size, next)
           inserted == Insert(rear.heap, front.prev, front.data, rear.size, rear.next)
<1>1. k = [inserted EXCEPT !.FreeMemory = @ + size]
  <2>1. MemFree(h, block, request) = [inserted EXCEPT !.FreeMemory = @ + size]
    BY Zenon DEF MemFree
  <2> QED BY <2>1
<1>u. Span(block, size) \cap Room(h, A) = {} /\ block + size \in P
  OBVIOUS
<1>2. /\ Linked(h, A) /\ Apart(h, A) /\ A \subseteq Nat
      /\ IsFiniteSet(Room(h, A)) /\ h.FreeMemory = Cardinality(Room(h, A))
  BY DEF Whole
<1>3. size \in Nat /\ size >= HEADER /\ size > 0 /\ HEADER \in Nat \ {0} /\ NIL \notin Int
  BY AdjustedIs, FreeListAssumption
<1> HIDE DEF size
<1>4. Addresses(h) = A
  BY <1>2, AddressesAre
<1>5. Opening(h, A, prev, block, size, next)
  BY <1>2, <1>3, <1>4, <1>u, NeighboursAre
<1> HIDE DEF before, after, prev, next, rear, inserted
<1> DEFINE f == front.heap
           d == front.data
           s == front.size
           p == front.prev
<1>6. \E B : /\ Opening(f, B, p, d, s, next)
             /\ p # NIL => p + f.entry[p].size < d
             /\ EndsIn(f, B, P) /\ d + s = block + size
             /\ f.FreeMemory = h.FreeMemory
             /\ Room(f, B) \cup Span(d, s) = Room(h, A) \cup Span(block, size)
             /\ B \subseteq A /\ d \in Nat
  <2>1. CASE ~joins
    <3>1. f = h /\ d = block /\ s = size /\ p = prev
      BY <2>1
    <3> HIDE DEF f, d, s, p
    <3>2. prev # NIL => prev + h.entry[prev].size < block
      <4>1. ASSUME prev # NIL PROVE prev + h.entry[prev].size < block
        <5>1. prev \in A /\ prev + h.entry[prev].size <= block /\ prev + h.entry[prev].size # block
          BY <1>5, <2>1, <4>1 DEF Opening, Between
        <5>2. prev \in Int /\ h.entry[prev].size \in Int
          BY <1>2, <5>1, SizeIs
        <5> QED BY <5>1, <5>2
      <4> QED BY <4>1
    <3> QED BY <1>2, <1>5, <1>u, <3>1, <3>2
  <2>2. CASE joins
    <3> DEFINE B == A \ {prev}
    <3>1. f = Remove(h, prev) /\ d = prev /\ s = size + h.entry[prev].size /\ p = h.entry[prev].prev
      BY <2>2
    <3>2. prev # NIL /\ prev + h.entry[prev].size = block
      BY <2>2
    <3>5. Opening(h, A, prev, block, size, next) /\ B = A \ {prev} /\ Touches(h, prev, block)
      BY <1>5, <3>2 DEF Touches
    <3> HIDE DEF f, d, s, p, joins, front, B
    <3>9. /\ Opening(f, B, p, prev, s, next) /\ Behind(f, p, prev)
          /\ EndsIn(f, B, P) /\ Same(h, A, block, size, f, B, prev, s)
      BY <3>1, <3>2, <3>5, JoinPrevIs
    <3>3. /\ Opening(f, B, p, prev, s, next)
          /\ p # NIL => p + f.entry[p].size < prev
          /\ EndsIn(f, B, P)
          /\ f.FreeMemory = h.FreeMemory
          /\ Room(f, B) \cup Span(prev, s) = Room(h, A) \cup Span(block, size)
      BY <3>9 DEF Behind, Same
    <3>4. prev \in Nat /\ prev \in A
      BY <1>2, <1>5, <3>2 DEF Opening, Between
    <3>6. h.entry[prev].size \in Int
      BY <1>2, <3>4, SizeIs
    <3>7. prev + s = block + size
      BY <1>3, <3>1, <3>2, <3>4, <3>6
    <3>8. B \subseteq A
      BY <3>5
    <3> QED BY <3>1, <3>3, <3>4, <3>7, <3>8
  <2> QED BY <2>1, <2>2
<1> HIDE DEF front, f, d, s, p, joins
<1>7. PICK B : /\ Opening(f, B, p, d, s, next)
               /\ p # NIL => p + f.entry[p].size < d
               /\ EndsIn(f, B, P) /\ d + s = block + size
               /\ f.FreeMemory = h.FreeMemory
               /\ Room(f, B) \cup Span(d, s) = Room(h, A) \cup Span(block, size)
               /\ B \subseteq A /\ d \in Nat
  BY <1>6
<1> DEFINE g == rear.heap
           u == rear.size
           n == rear.next
<1>8. \E C : /\ Opening(g, C, p, d, u, n)
             /\ p # NIL => p + g.entry[p].size < d
             /\ n # NIL => d + u < n
             /\ EndsIn(g, C, P) /\ d + u \in P
             /\ g.FreeMemory = h.FreeMemory
             /\ Room(g, C) \cup Span(d, u) = Room(h, A) \cup Span(block, size)
             /\ C \subseteq A
  <2>0. rear = JoinNext(f, d, s, next)
    BY DEF rear, f, d, s
  <2>1. CASE ~(next # NIL /\ d + s = next)
    <3>1. rear = [heap |-> f, size |-> s, next |-> next]
      BY <2>0, <2>1 DEF JoinNext
    <3>2. g = f /\ u = s /\ n = next
      BY <3>1
    <3> HIDE DEF g, u, n
    <3>3. next # NIL => d + s < next
      <4>1. ASSUME next # NIL PROVE d + s < next
        <5>1. d + s <= next /\ d + s # next /\ d \in Nat /\ s \in Nat /\ next \in B
          BY <1>7, <2>1, <4>1 DEF Opening, Between
        <5>2. next \in Int
          BY <1>2, <1>7, <5>1
        <5> QED BY <5>1, <5>2
      <4> QED BY <4>1
    <3>4. d + s \in P
      BY <1>7, <1>u
    <3>5. /\ Opening(g, B, p, d, u, n)
          /\ p # NIL => p + g.entry[p].size < d
          /\ n # NIL => d + u < n
          /\ EndsIn(g, B, P) /\ d + u \in P
          /\ g.FreeMemory = h.FreeMemory
          /\ Room(g, B) \cup Span(d, u) = Room(h, A) \cup Span(block, size)
          /\ B \subseteq A
      BY <1>7, <3>2, <3>3, <3>4
    <3> QED BY <3>5
  <2>2. CASE next # NIL /\ d + s = next
    <3> DEFINE C == B \ {next}
    <3>1. rear = [heap |-> Remove(f, next), size |-> s + f.entry[next].size, next |-> f.entry[next].next]
      BY <2>0, <2>2 DEF JoinNext
    <3>2. g = Remove(f, next) /\ u = s + f.entry[next].size /\ n = f.entry[next].next
      BY <3>1
    <3>4. /\ Opening(f, B, p, d, s, next) /\ C = B \ {next} /\ EndsIn(f, B, P)
          /\ Behind(f, p, d) /\ Meets(d, s, next)
      BY <1>7, <2>2 DEF Behind, Meets
    <3> HIDE DEF g, u, n, C
    <3>9. /\ Opening(g, C, p, d, u, n)
          /\ Before(d, u, n) /\ Behind(g, p, d)
          /\ EndsIn(g, C, P) /\ Ends(d, u, P)
          /\ Same(f, B, d, s, g, C, d, u)
      BY <3>2, <3>4, JoinNextIs
    <3>3. /\ Opening(g, C, p, d, u, n)
          /\ n # NIL => d + u < n
          /\ p # NIL => p + g.entry[p].size < d
          /\ EndsIn(g, C, P) /\ d + u \in P
          /\ g.FreeMemory = f.FreeMemory
          /\ Room(g, C) \cup Span(d, u) = Room(f, B) \cup Span(d, s)
      BY <3>9 DEF Before, Behind, Ends, Same
    <3> QED BY <1>7, <3>3, <3>4
  <2> QED BY <2>1, <2>2
<1> HIDE DEF g, u, n
<1>9. PICK C : /\ Opening(g, C, p, d, u, n)
               /\ p # NIL => p + g.entry[p].size < d
               /\ n # NIL => d + u < n
               /\ EndsIn(g, C, P) /\ d + u \in P
               /\ g.FreeMemory = h.FreeMemory
               /\ Room(g, C) \cup Span(d, u) = Room(h, A) \cup Span(block, size)
               /\ C \subseteq A
  BY <1>8
<1>10. inserted = Insert(g, p, d, u, n)
  BY DEF inserted, g, p, d, u, n
<1> DEFINE D == C \cup {d}
<1>11. /\ Linked(inserted, D) /\ Apart(inserted, D) /\ EndsIn(inserted, D, P)
       /\ inserted.FreeMemory = g.FreeMemory
       /\ Room(inserted, D) = Room(g, C) \cup Span(d, u)
  <2>1. Linked(g, C) /\ Apart(g, C) /\ Between(C, p, d, n) /\ u \in Int /\ u >= HEADER
    BY <1>9 DEF Opening
  <2> QED BY <1>9, <1>10, <2>1, InsertRoom
<1>12. D \subseteq Nat
  BY <1>2, <1>7, <1>9
<1> DEFINE units == Span(block, size)
           free == Room(h, A)
<1>13. Room(inserted, D) = free \cup units /\ inserted.FreeMemory = Cardinality(free)
  BY <1>2, <1>9, <1>11
<1>14. IsFiniteSet(units) /\ Cardinality(units) = size
  <2>1. block + size - 1 \in Int /\ ~(block > block + size - 1)
        /\ (block + size - 1) - block + 1 = size
    BY <1>3
  <2> QED BY <2>1, FS_Interval DEF Span
<1>15. IsFiniteSet(free) /\ free \cap units = {} /\ Cardinality(free) \in Nat
  BY <1>2, <1>u, FS_CardinalityType
<1> HIDE DEF D, units, free
<1>16. IsFiniteSet(free \cup units) /\ Cardinality(free \cup units) = Cardinality(free) + size
  BY <1>14, <1>15, CardinalityApart
<1> DEFINE m == Cardinality(free) + size
<1>17. k = PutMemory(inserted, m)
  BY <1>1, <1>13 DEF PutMemory
<1>18. Whole(k, D) /\ EndsIn(k, D, P) /\ Room(k, D) = free \cup units
  <2>1. Counts(Room(inserted, D), m)
    BY <1>3, <1>13, <1>15, <1>16 DEF Counts
  <2> HIDE DEF m
  <2>2. Whole(k, D) /\ EndsIn(k, D, P) /\ Room(k, D) = Room(inserted, D)
    <3>1. Linked(inserted, D) /\ Apart(inserted, D) /\ EndsIn(inserted, D, P)
      BY <1>11
    <3> QED BY <1>12, <1>17, <2>1, <3>1, CountIs, ZenonT(60)
  <2> QED BY <1>13, <2>2
<1> QED BY <1>18 DEF free, units, size

(* A block that is cut out of an entry takes its units from the free memory *)
(* and keeps the heap whole.                                                *)
CanCut(h, a, data, size, P) ==
    /\ size >= HEADER
    /\ data = a \/ (data >= a + HEADER /\ data \in P)
    /\ Left(h, a, data, size) = 0 \/ Left(h, a, data, size) >= HEADER
IsCut(h, A, k, data, size, P) ==
    \E B : /\ Whole(k, B) /\ EndsIn(k, B, P)
           /\ Room(k, B) = Room(h, A) \ Span(data, size)
           /\ Span(data, size) \subseteq Room(h, A)
LEMMA CarveIs ==
    ASSUME NEW A, NEW h, Whole(h, A), NEW P, EndsIn(h, A, P),
           NEW a \in A, NEW data \in Nat, NEW size \in Nat, CanCut(h, a, data, size, P),
           NEW k, k = Carve(h, a, data, size)
    PROVE  IsCut(h, A, k, data, size, P)
<1> DEFINE left == Left(h, a, data, size)
<1>0. /\ size >= HEADER
      /\ data = a \/ (data >= a + HEADER /\ data \in P)
      /\ left = 0 \/ left >= HEADER
  BY DEF CanCut
<1> DEFINE e == h.entry[a]
           z == e.size
           p == e.prev
           n == e.next
           r == Remove(h, a)
           front == IF data = a THEN r ELSE Insert(r, p, a, data - a, n)
           pv == IF data = a THEN p ELSE a
           both == IF left = 0 THEN front ELSE Insert(front, pv, data + size, left, n)
           R == A \ {a}
<1>1. k = [both EXCEPT !.FreeMemory = @ - size]
  <2> DEFINE l == Left(h, a, data, size)
             b == IF l = 0 THEN front ELSE Insert(front, pv, data + size, l, n)
  <2>1. Carve(h, a, data, size) = [b EXCEPT !.FreeMemory = @ - size]
    BY Zenon DEF Carve
  <2>2. b = both
    OBVIOUS
  <2> HIDE DEF b, both
  <2> QED BY <2>1, <2>2
<1>2. /\ Linked(h, A) /\ Apart(h, A) /\ A \subseteq Nat
      /\ IsFiniteSet(Room(h, A)) /\ h.FreeMemory = Cardinality(Room(h, A))
  BY DEF Whole
<1>3. HEADER \in Nat \ {0} /\ NIL \notin Int
  BY FreeListAssumption
<1>4. z \in Int /\ a \in Nat /\ z >= HEADER /\ a + z \in P
  BY <1>2, SizeIs DEF Apart, EndsIn
<1>5. left = a + z - (data + size)
  BY DEF Left
<1>6. Precedes(A, a, p) /\ Follows(A, a, n)
  BY <1>2 DEF Linked, InOrder
<1> HIDE DEF z, p, n, left
<1>7. /\ Linked(r, R) /\ Apart(r, R) /\ EndsIn(r, R, P)
      /\ r.FreeMemory = h.FreeMemory
      /\ \A b \in R : r.entry[b].size = h.entry[b].size
      /\ Room(r, R) = Room(h, A) \ Span(a, z)
      /\ Span(a, z) \subseteq Room(h, A)
  BY <1>2, RemoveRoom DEF z
<1>8. p # NIL => p \in R /\ p < a /\ p \in Int /\ p + r.entry[p].size < a
  <2>1. p # NIL => p \in A /\ p < a
    BY <1>6 DEF Precedes
  <2>2. p # NIL => p \in Nat
    BY <1>2, <2>1
  <2>3. p # NIL => p \in R
    BY <1>4, <2>1, <2>2
  <2>4. p # NIL => p + h.entry[p].size < a
    BY <1>2, <2>1 DEF Apart
  <2> QED BY <1>7, <2>1, <2>2, <2>3, <2>4
<1>9. n # NIL => n \in R /\ a + z < n /\ n \in Int
  <2>1. n # NIL => n \in A /\ a < n
    BY <1>6 DEF Follows
  <2>2. n # NIL => n \in Nat
    BY <1>2, <2>1
  <2>3. n # NIL => n \in R
    BY <1>4, <2>1, <2>2
  <2>4. n # NIL => a + z < n
    BY <1>2, <2>1 DEF Apart, z
  <2> QED BY <2>1, <2>2, <2>3, <2>4
<1>10. \A b \in R : (p # NIL /\ b <= p) \/ (n # NIL /\ n <= b)
  <2> SUFFICES ASSUME NEW b \in R PROVE (p # NIL /\ b <= p) \/ (n # NIL /\ n <= b)
    OBVIOUS
  <2>1. b \in A /\ b # a /\ b \in Nat
    BY <1>2
  <2>2. (p = NIL => a <= b) /\ (p # NIL => b <= p \/ a <= b)
    BY <1>6, <2>1 DEF Precedes
  <2>3. (n = NIL => b <= a) /\ (n # NIL => b <= a \/ n <= b)
    BY <1>6, <2>1 DEF Follows
  <2> QED BY <1>4, <2>1, <2>2, <2>3
<1>11. left \in Int /\ data + size + left = a + z /\ left >= 0
  BY <1>0, <1>3, <1>4, <1>5
<1>12. a \in Int /\ a \notin R /\ data \in Int /\ a <= data /\ a < data + size /\ data + size <= a + z
  BY <1>0, <1>3, <1>4, <1>11
<1> HIDE DEF r, R, front, pv, both
<1>13. Between(R, p, a, n)
  <2>1. n # NIL => a < n
    BY <1>4, <1>3, <1>9
  <2> QED BY <1>8, <1>9, <1>10, <1>12, <2>1 DEF Between
<1>14. \E F : /\ Linked(front, F) /\ Apart(front, F) /\ EndsIn(front, F, P)
              /\ front.FreeMemory = h.FreeMemory
              /\ Room(front, F) = Room(r, R) \cup Span(a, data - a)
              /\ Between(F, pv, data + size, n)
              /\ pv # NIL => pv + front.entry[pv].size < data + size
              /\ F \subseteq Nat
  <2>0. R \subseteq Nat
    BY <1>2 DEF R
  <2>1. CASE data = a
    <3>1. front = r /\ pv = p
      BY <2>1 DEF front, pv
    <3>2. Span(a, data - a) = {}
      BY <1>4, <2>1 DEF Span
    <3>3. data + size \in Int /\ data + size \notin R
      <4>1. ASSUME data + size \in R PROVE FALSE
        <5>1. data + size \in Int
          OBVIOUS
        <5>2. CASE p # NIL /\ data + size <= p
          BY <1>8, <1>12, <5>1, <5>2
        <5>3. CASE n # NIL /\ n <= data + size
          BY <1>4, <1>9, <1>12, <5>1, <5>3
        <5> QED BY <1>10, <4>1, <5>2, <5>3
      <4> QED BY <4>1
    <3>4. p # NIL => p < data + size /\ p + r.entry[p].size < data + size
      <4>1. ASSUME p # NIL PROVE p < data + size /\ p + r.entry[p].size < data + size
        <5>1. p \in Int /\ r.entry[p].size \in Int /\ p < a /\ p + r.entry[p].size < a
          BY <1>7, <1>8, <4>1, SizeIs
        <5> QED BY <1>12, <3>3, <5>1
      <4> QED BY <4>1
    <3>5. n # NIL => data + size < n
      BY <1>4, <1>9, <1>12, <3>3
    <3>6. Between(R, p, data + size, n)
      BY <1>8, <1>9, <1>10, <3>3, <3>4, <3>5 DEF Between
    <3>7. Room(r, R) = Room(r, R) \cup Span(a, data - a)
      BY <3>2
    <3> QED BY <1>7, <2>0, <3>1, <3>4, <3>6, <3>7
  <2>2. CASE data # a
    <3> DEFINE F == R \cup {a}
               s == data - a
    <3>1. front = Insert(r, p, a, s, n) /\ pv = a
      BY <2>2 DEF front, pv
    <3>2. s \in Int /\ s >= HEADER /\ a + s = data /\ data \in P
      BY <1>0, <1>3, <1>4, <2>2
    <3>3. n # NIL => data < n
      BY <1>3, <1>4, <1>9, <1>12
    <3>4. p # NIL => p + r.entry[p].size < a
      BY <1>8
    <3>5. /\ Linked(front, F) /\ Apart(front, F) /\ EndsIn(front, F, P)
          /\ front.FreeMemory = r.FreeMemory
          /\ front.entry[a].size = s
          /\ Room(front, F) = Room(r, R) \cup Span(a, s)
      <4>1. n # NIL => a + s < n
        BY <3>2, <3>3
      <4>2. a + s \in P
        BY <3>2
      <4> HIDE DEF s
      <4> QED BY <1>7, <1>13, <3>1, <3>2, <3>4, <4>1, <4>2, InsertRoom
    <3>6. pv + front.entry[pv].size < data + size
      BY <1>0, <1>3, <3>1, <3>2, <3>5
    <3>7. data + size \in Int /\ data + size \notin F
      <4>1. ASSUME data + size \in F PROVE FALSE
        <5>1. data + size \in Int
          OBVIOUS
        <5>2. CASE data + size = a
          BY <1>12, <5>2
        <5>3. CASE p # NIL /\ data + size <= p
          BY <1>8, <1>12, <5>1, <5>3
        <5>4. CASE n # NIL /\ n <= data + size
          BY <1>4, <1>9, <1>12, <5>1, <5>4
        <5> QED BY <1>10, <4>1, <5>2, <5>3, <5>4
      <4> QED BY <4>1
    <3>8. n # NIL => data + size < n /\ n \in F
      BY <1>4, <1>9, <1>12, <3>7
    <3>9. \A b \in F : (a # NIL /\ b <= a) \/ (n # NIL /\ n <= b)
      <4> SUFFICES ASSUME NEW b \in F PROVE b <= a \/ (n # NIL /\ n <= b)
        BY <1>3, <1>12
      <4>1. CASE b = a
        BY <1>12, <4>1
      <4>2. CASE b # a
        <5>1. b \in R /\ b \in Nat
          BY <2>0, <4>2
        <5>2. p # NIL /\ b <= p => b <= a
          BY <1>8, <1>12, <5>1
        <5> QED BY <1>10, <5>1, <5>2
      <4> QED BY <4>1, <4>2
    <3>10. Between(F, a, data + size, n)
      BY <1>12, <3>7, <3>8, <3>9 DEF Between
    <3>11. F \subseteq Nat
      BY <1>4, <2>0
    <3> QED BY <1>7, <3>1, <3>5, <3>6, <3>10, <3>11
  <2> QED BY <2>1, <2>2
<1>15. PICK F : /\ Linked(front, F) /\ Apart(front, F) /\ EndsIn(front, F, P)
                /\ front.FreeMemory = h.FreeMemory
                /\ Room(front, F) = Room(r, R) \cup Span(a, data - a)
                /\ Between(F, pv, data + size, n)
                /\ pv # NIL => pv + front.entry[pv].size < data + size
                /\ F \subseteq Nat
  BY <1>14
<1>16. \E G : /\ Linked(both, G) /\ Apart(both, G) /\ EndsIn(both, G, P)
              /\ both.FreeMemory = h.FreeMemory
              /\ Room(both, G) = Room(front, F) \cup Span(data + size, left)
              /\ G \subseteq Nat
  <2>1. CASE left = 0
    <3>1. both = front
      BY <2>1 DEF both
    <3>2. Span(data + size, left) = {}
      BY <1>12, <2>1 DEF Span
    <3>3. Room(front, F) = Room(front, F) \cup Span(data + size, left)
      BY <3>2
    <3> QED BY <1>15, <3>1, <3>3
  <2>2. CASE left # 0
    <3> DEFINE d == data + size
               G == F \cup {d}
    <3>1. both = Insert(front, pv, d, left, n)
      BY <2>2 DEF both
    <3>2. d \in Nat /\ d + left = a + z /\ left >= HEADER
      BY <1>0, <1>11, <2>2
    <3>3. n # NIL => d + left < n
      BY <1>9, <3>2
    <3>4. d + left \in P
      BY <1>4, <3>2
    <3>5. Between(F, pv, d, n) /\ (pv # NIL => pv + front.entry[pv].size < d)
      BY <1>15
    <3> HIDE DEF d
    <3>6. /\ Linked(both, G) /\ Apart(both, G) /\ EndsIn(both, G, P)
          /\ both.FreeMemory = front.FreeMemory
          /\ Room(both, G) = Room(front, F) \cup Span(d, left)
      BY <1>11, <1>15, <3>1, <3>2, <3>3, <3>4, <3>5, InsertRoom
    <3>7. G \subseteq Nat
      BY <1>15, <3>2
    <3>8. d = data + size
      BY DEF d
    <3> HIDE DEF G
    <3> QED BY <1>15, <3>6, <3>7, <3>8
  <2> QED BY <2>1, <2>2
<1>17. PICK G : /\ Linked(both, G) /\ Apart(both, G) /\ EndsIn(both, G, P)
                /\ both.FreeMemory = h.FreeMemory
                /\ Room(both, G) = Room(front, F) \cup Span(data + size, left)
                /\ G \subseteq Nat
  BY <1>16
<1> DEFINE free == Room(h, A)
           block == Span(data, size)
<1>18. /\ block \subseteq Span(a, z)
       /\ Span(a, z) \ block = Span(a, data - a) \cup Span(data + size, left)
  <2>1. \A x : x \in block <=> x \in Int /\ data <= x /\ x < data + size
    BY <1>12 DEF Span
  <2>2. \A x : x \in Span(a, z) <=> x \in Int /\ a <= x /\ x < a + z
    BY <1>4 DEF Span
  <2>3. \A x : x \in Span(a, data - a) <=> x \in Int /\ a <= x /\ x < data
    BY <1>12 DEF Span
  <2>4. \A x : x \in Span(data + size, left) <=> x \in Int /\ data + size <= x /\ x < a + z
    BY <1>11, <1>12 DEF Span
  <2> HIDE DEF block
  <2>5. ASSUME NEW x \in block PROVE x \in Span(a, z)
    BY <1>4, <1>12, <2>1, <2>2, <2>5
  <2>6. ASSUME NEW x
        PROVE  x \in Span(a, z) /\ x \notin block <=> x \in Span(a, data - a) \/ x \in Span(data + size, left)
    BY <1>4, <1>12, <2>1, <2>2, <2>3, <2>4
  <2> QED BY <2>5, <2>6
<1> HIDE DEF block, free
<1>19. Room(both, G) = free \ block /\ block \subseteq free
  BY <1>7, <1>15, <1>17, <1>18 DEF free
<1>20. IsFiniteSet(block) /\ Cardinality(block) = size
  <2>1. data + size - 1 \in Int /\ ~(data > data + size - 1)
        /\ (data + size - 1) - data + 1 = size
    BY <1>0, <1>3, <1>12
  <2>2. block = data .. data + size - 1
    BY DEF Span, block
  <2>3. IsFiniteSet(data .. data + size - 1) /\ Cardinality(data .. data + size - 1) = size
    BY <1>12, <2>1, FS_Interval
  <2> QED BY <2>2, <2>3
<1>21. IsFiniteSet(free \ block) /\ Cardinality(free) = Cardinality(free \ block) + size
  <2>1. IsFiniteSet(free) /\ IsFiniteSet(free \ block)
    BY <1>2, FS_Subset DEF free
  <2>2. (free \ block) \cap block = {} /\ (free \ block) \cup block = free
    BY <1>19
  <2> QED BY <1>20, <2>1, <2>2, CardinalityApart
<1>22. Cardinality(free \ block) \in Nat
  BY <1>21, FS_CardinalityType
<1> DEFINE m == Cardinality(free \ block)
<1>23. k = PutMemory(both, m)
  <2>1. both.FreeMemory - size = m
    BY <1>2, <1>17, <1>21, <1>22 DEF free
  <2> QED BY <1>1, <2>1 DEF PutMemory
<1>24. Whole(k, G) /\ EndsIn(k, G, P) /\ Room(k, G) = free \ block
  <2>1. Counts(Room(both, G), m)
    BY <1>19, <1>21, <1>22 DEF Counts
  <2> HIDE DEF m
  <2>2. Whole(k, G) /\ EndsIn(k, G, P) /\ Room(k, G) = Room(both, G)
    <3>1. Linked(both, G) /\ Apart(both, G) /\ EndsIn(both, G, P) /\ G \subseteq Nat
      BY <1>17
    <3> QED BY <1>23, <2>1, <3>1, CountIs, ZenonT(60)
  <2> QED BY <1>19, <2>2
<1> QED BY <1>19, <1>24 DEF free, block, IsCut

-----------------------------------------------------------------------------
(* Division, and the place of a block in an entry. *)
LEMMA Division ==
    ASSUME NEW x \in Int, NEW n \in Nat \ {0}
    PROVE  /\ x \div n \in Int
           /\ (x \div n) * n <= x
           /\ x < (x \div n) * n + n
OBVIOUS

(* An aligned address is the first at or behind the one that is given.      *)
LEMMA AlignIs ==
    ASSUME NEW a \in Nat, NEW al \in Nat \ {0}
    PROVE  Align(a, al) \in Nat /\ a <= Align(a, al) /\ Align(a, al) < a + al
<1> DEFINE q == (a + al - 1) \div al
           m == q * al
<1>1. a + al - 1 \in Int
  OBVIOUS
<1>2. q \in Int /\ m <= a + al - 1 /\ a + al - 1 < m + al
  BY <1>1, Division
<1>3. m \in Int
  BY <1>2
<1>4. Align(a, al) = m
  BY DEF Align
<1> HIDE DEF q, m
<1> QED BY <1>2, <1>3, <1>4

(* A block is put at the beginning of an entry or leaves room for one.      *)
LEMMA PlaceIs ==
    ASSUME NEW a \in Nat, NEW al \in Nat \ {0}
    PROVE  Place(a, al) \in Nat /\ (Place(a, al) = a \/ Place(a, al) >= a + HEADER)
<1> DEFINE d == Align(a, al)
           e == Align(a + HEADER, al)
<1>1. HEADER \in Nat /\ a + HEADER \in Nat
  BY FreeListAssumption
<1>2. d \in Nat /\ a <= d /\ e \in Nat /\ a + HEADER <= e
  BY <1>1, AlignIs
<1>3. Place(a, al) = IF d # a /\ d - a < HEADER THEN e ELSE d
  BY DEF Place
<1> HIDE DEF d, e
<1> QED BY <1>1, <1>2, <1>3

-----------------------------------------------------------------------------
(* A walk along the links of a list.                                        *)
Walks(at, first, next, n) ==
    at = [i \in 1 .. n + 1 |-> IF i = 1 THEN first
                               ELSE IF at[i - 1] = NIL THEN NIL ELSE next[at[i - 1]]]

Step(at, next, i) == IF at[i] = NIL THEN NIL ELSE next[at[i]]

(* The steps of a walk.                                                     *)
LEMMA WalkIs ==
    ASSUME NEW first, NEW next, NEW n \in Nat, NEW at, Walks(at, first, next, n)
    PROVE  at[1] = first /\ \A i \in 1 .. n : at[i + 1] = Step(at, next, i)
<1>1. \A i \in 1 .. n + 1 : at[i] = IF i = 1 THEN first
                                    ELSE IF at[i - 1] = NIL THEN NIL ELSE next[at[i - 1]]
  BY DEF Walks
<1>2. 1 \in 1 .. n + 1
  OBVIOUS
<1>3. at[1] = first
  BY <1>1, <1>2
<1>4. ASSUME NEW i \in 1 .. n PROVE at[i + 1] = Step(at, next, i)
  <2>1. i + 1 \in 1 .. n + 1 /\ i + 1 # 1 /\ (i + 1) - 1 = i
    OBVIOUS
  <2> DEFINE j == i + 1
  <2>2. at[j] = IF j = 1 THEN first ELSE IF at[j - 1] = NIL THEN NIL ELSE next[at[j - 1]]
    BY <1>1, <2>1
  <2>3. j # 1 /\ j - 1 = i
    BY <2>1
  <2> HIDE DEF j
  <2>4. at[j] = IF at[i] = NIL THEN NIL ELSE next[at[i]]
    BY <2>2, <2>3
  <2> QED BY <2>4 DEF j, Step
<1> QED BY <1>3, <1>4

(* There is a walk of every length.                                         *)
LEMMA WalkExists ==
    ASSUME NEW first, NEW next, NEW n \in Nat
    PROVE  \E at : Walks(at, first, next, n)
<1> DEFINE T == { m \in Nat : ~\E at : Walks(at, first, next, m) }
<1>1. ASSUME T # {} PROVE FALSE
  <2>1. PICK m \in T : \A y \in T : m <= y
    <3>1. T \in SUBSET Nat
      OBVIOUS
    <3> HIDE DEF T
    <3> QED BY <1>1, <3>1, LeastNat
  <2>2. m \in Nat /\ ~\E at : Walks(at, first, next, m)
    OBVIOUS
  <2>3. CASE m = 0
    <3> DEFINE f == [i \in 1 .. 0 + 1 |-> first]
    <3>1. \A i \in 1 .. 0 + 1 : i = 1
      OBVIOUS
    <3>2. f = [i \in 1 .. 0 + 1 |-> IF i = 1 THEN first
                               ELSE IF f[i - 1] = NIL THEN NIL ELSE next[f[i - 1]]]
      BY <3>1
    <3>3. Walks(f, first, next, 0)
      BY <3>2 DEF Walks
    <3> QED BY <2>2, <2>3, <3>3
  <2>4. CASE m # 0
    <3> DEFINE k == m - 1
    <3>1. k \in Nat /\ k + 1 = m /\ ~(m <= k)
      BY <2>2, <2>4
    <3>2. k \notin T
      BY <2>1, <3>1
    <3> HIDE DEF k
    <3>3. PICK f : Walks(f, first, next, k)
      BY <3>1, <3>2
    <3>4. f[1] = first /\ \A i \in 1 .. k : f[i + 1] = Step(f, next, i)
      BY <3>1, <3>3, WalkIs
    <3> DEFINE g == [i \in 1 .. m + 1 |-> IF i = m + 1 THEN Step(f, next, m) ELSE f[i]]
    <3>5. ASSUME NEW i \in 1 .. m + 1
          PROVE  g[i] = IF i = 1 THEN first ELSE IF g[i - 1] = NIL THEN NIL ELSE next[g[i - 1]]
      <4>1. CASE i = 1
        <5>1. g[1] = f[1]
          BY <2>2, <2>4
        <5> QED BY <3>4, <4>1, <5>1
      <4>2. CASE i # 1
        <5> DEFINE j == i - 1
        <5>1. j \in 1 .. m /\ j + 1 = i /\ j # m + 1 /\ j \in 1 .. m + 1
          BY <2>2, <4>2
        <5>2. g[j] = f[j]
          BY <5>1
        <5>3. g[i] = Step(f, next, j)
          <6>1. CASE i = m + 1
            <7>1. j = m
              BY <2>2, <6>1
            <7> QED BY <6>1, <7>1
          <6>2. CASE i # m + 1
            <7>1. j \in 1 .. k
              BY <2>2, <3>1, <4>2, <6>2
            <7>2. f[j + 1] = Step(f, next, j)
              BY <3>4, <7>1
            <7> QED BY <5>1, <6>2, <7>2
          <6> QED BY <6>1, <6>2
        <5>4. Step(f, next, j) = IF g[j] = NIL THEN NIL ELSE next[g[j]]
          BY <5>2 DEF Step
        <5> HIDE DEF g
        <5> QED BY <4>2, <5>3, <5>4
      <4> QED BY <4>1, <4>2
    <3>6. Walks(g, first, next, m)
      <4>1. g = [i \in 1 .. m + 1 |-> IF i = 1 THEN first
                                      ELSE IF g[i - 1] = NIL THEN NIL ELSE next[g[i - 1]]]
        BY <3>5
      <4> QED BY <4>1 DEF Walks
    <3> QED BY <2>2, <3>6
  <2> QED BY <2>3, <2>4
<1> QED BY <1>1

(* The first entries of a list are those of a walk.                         *)
LEMMA FollowIs ==
    ASSUME NEW first, NEW next, NEW n \in Nat
    PROVE  \E at : /\ Walks(at, first, next, n)
                   /\ Follow(first, next, n) = [i \in { j \in 1 .. n : at[j] # NIL } |-> at[i]]
<1> DEFINE at == CHOOSE f : Walks(f, first, next, n)
<1>1. Walks(at, first, next, n)
  BY WalkExists
<1>2. Follow(first, next, n) = [i \in { j \in 1 .. n : at[j] # NIL } |-> at[i]]
  BY DEF Follow, Walks
<1> QED BY <1>1, <1>2

(* A walk that begins in a set which its links do not leave stays in it.    *)
Within(x, S) == x = NIL \/ x \in S
Stays(first, next, S) == Within(first, S) /\ \A s \in S : Within(next[s], S)
LEMMA WalkStays ==
    ASSUME NEW first, NEW next, NEW n \in Nat, NEW at, Walks(at, first, next, n),
           NEW S, Stays(first, next, S), NEW i \in 1 .. n + 1
    PROVE  Within(at[i], S)
<1> DEFINE T == { j \in 1 .. n + 1 : ~Within(at[j], S) }
<1>0. Within(first, S) /\ \A s \in S : Within(next[s], S)
  BY DEF Stays
<1>1. at[1] = first /\ \A j \in 1 .. n : at[j + 1] = Step(at, next, j)
  BY WalkIs
<1>2. ASSUME T # {} PROVE FALSE
  <2>1. PICK m \in T : \A y \in T : m <= y
    <3>1. T \in SUBSET Nat
      OBVIOUS
    <3> HIDE DEF T
    <3> QED BY <1>2, <3>1, LeastNat
  <2>2. m \in 1 .. n + 1 /\ ~Within(at[m], S)
    OBVIOUS
  <2>3. m # 1
    BY <1>0, <1>1, <2>2
  <2> DEFINE k == m - 1
  <2>4. k \in 1 .. n /\ k + 1 = m /\ k \in 1 .. n + 1 /\ ~(m <= k)
    BY <2>2, <2>3
  <2>5. k \notin T
    BY <2>1, <2>4
  <2>6. Within(at[k], S)
    BY <2>4, <2>5
  <2> HIDE DEF k
  <2>7. at[m] = Step(at, next, k)
    BY <1>1, <2>4
  <2>8. Within(Step(at, next, k), S)
    BY <1>0, <2>6 DEF Step, Within
  <2> QED BY <2>2, <2>7, <2>8
<1> QED BY <1>2

(* A heap has so many entries.                                              *)
LEMMA EntriesAreFinite ==
    ASSUME NEW A, NEW h, Whole(h, A)
    PROVE  IsFiniteSet(A) /\ Cardinality(A) \in Nat
<1>1. Linked(h, A) /\ Apart(h, A) /\ A \subseteq Nat /\ IsFiniteSet(Room(h, A))
  BY DEF Whole
<1>2. ASSUME NEW a \in A PROVE a \in Room(h, A)
  <2>1. a \in Int /\ h.entry[a].size \in Int /\ h.entry[a].size >= HEADER
    BY <1>1, SizeIs DEF Apart
  <2>2. a <= a /\ a < a + h.entry[a].size
    BY <2>1, FreeListAssumption
  <2> QED BY <1>1, <2>1, <2>2, RoomIs
<1>3. A \subseteq Room(h, A)
  BY <1>2
<1> QED BY <1>1, <1>3, FS_Subset, FS_CardinalityType

(* A size list holds entries.                                               *)
LEMMA SizeListIs ==
    ASSUME NEW A, NEW h, Whole(h, A), NEW t \in Tables, NEW list, list = SizeList(h, t)
    PROVE  DOMAIN list \subseteq 1 .. Cardinality(A) /\ \A i \in DOMAIN list : list[i] \in A
<1>1. Linked(h, A) /\ Addresses(h) = A
  BY AddressesAre DEF Whole
<1> DEFINE n == Cardinality(A)
           first == h.FirstFreeSizeEntry[t]
           next == [a \in A |-> h.entry[a].nextsize]
<1>2. n \in Nat
  BY EntriesAreFinite
<1>3. list = Follow(first, next, n)
  BY <1>1 DEF SizeList
<1>4. Stays(first, next, A)
  BY <1>1 DEF Linked, Listed, Stays, Within
<1> HIDE DEF n, first, next
<1>5. PICK at : /\ Walks(at, first, next, n)
                /\ Follow(first, next, n) = [i \in { j \in 1 .. n : at[j] # NIL } |-> at[i]]
  BY <1>2, FollowIs
<1>6. \A i \in 1 .. n + 1 : Within(at[i], A)
  <2>1. Walks(at, first, next, n)
    BY <1>5
  <2> QED BY <1>2, <1>4, <2>1, WalkStays
<1>7. DOMAIN list = { j \in 1 .. n : at[j] # NIL } /\ \A i \in DOMAIN list : list[i] = at[i]
  BY <1>3, <1>5
<1>8. ASSUME NEW i \in DOMAIN list PROVE list[i] \in A
  <2>1. i \in 1 .. n /\ at[i] # NIL /\ list[i] = at[i]
    BY <1>7
  <2>2. i \in 1 .. n + 1
    BY <1>2, <2>1
  <2> QED BY <1>6, <2>1, <2>2 DEF Within
<1>9. DOMAIN list \subseteq 1 .. n
  BY <1>7
<1> QED BY <1>8, <1>9 DEF n

-----------------------------------------------------------------------------
(* What is chosen in a size list is an entry that the block fits in.        *)
LEMMA ChoiceIs ==
    ASSUME NEW A, NEW h, Whole(h, A), NEW t \in Tables, NEW size \in Nat, NEW al \in Nat \ {0},
           NEW a, a = Choice(h, t, size, al)
    PROVE  /\ a = NIL \/ (a \in A /\ Fits(h, a, size, al))
           /\ \A b \in { SizeList(h, t)[i] : i \in DOMAIN SizeList(h, t) } :
                Fits(h, b, size, al) => a # NIL
<1> DEFINE list == SizeList(h, t)
           left(i) == Left(h, list[i], Place(list[i], al), size)
           fits == { i \in DOMAIN list : Fits(h, list[i], size, al) }
           best == { i \in fits : \A j \in fits : left(i) <= left(j) }
<1>1. a = IF fits = {} THEN NIL
          ELSE IF left(Least(best)) = 0 THEN list[Least(best)] ELSE list[Greatest(best)]
  BY Zenon DEF Choice
<1>2. DOMAIN list \subseteq 1 .. Cardinality(A) /\ \A i \in DOMAIN list : list[i] \in A
  BY SizeListIs
<1>3. Cardinality(A) \in Nat
  BY EntriesAreFinite
<1> HIDE DEF list
<1>4. \A i \in fits : i \in DOMAIN list /\ list[i] \in A /\ Fits(h, list[i], size, al)
  BY <1>2
<1>5. ASSUME fits # {} PROVE best # {}
  <2> DEFINE L == { left(i) : i \in fits }
  <2>1. ASSUME NEW i \in fits PROVE left(i) \in Nat
    <3>1. left(i) = 0 \/ left(i) >= HEADER
      BY <1>4 DEF Fits
    <3>2. left(i) \in Int
      <4>1. list[i] \in A /\ list[i] \in Nat
        BY <1>4 DEF Whole
      <4>2. Place(list[i], al) \in Nat /\ h.entry[list[i]].size \in Int
        BY <4>1, PlaceIs, SizeIs DEF Whole
      <4> QED BY <4>1, <4>2 DEF Left
    <3> HIDE DEF left
    <3> QED BY <3>1, <3>2, FreeListAssumption
  <2> HIDE DEF left, fits
  <2>2. L \in SUBSET Nat /\ L # {}
    BY <1>5, <2>1
  <2>3. PICK m \in L : \A y \in L : m <= y
    <3> HIDE DEF L
    <3> QED BY <2>2, LeastNat
  <2>4. PICK i \in fits : m = left(i)
    OBVIOUS
  <2>5. \A j \in fits : left(i) <= left(j)
    BY <2>3, <2>4
  <2>6. i \in best
    BY <2>4, <2>5
  <2> QED BY <2>6
<1>6. best \subseteq fits
  OBVIOUS
<1> HIDE DEF left, fits, best
<1>7. best \in SUBSET Nat /\ best \in SUBSET (0 .. Cardinality(A))
  <2>1. \A i \in best : i \in 1 .. Cardinality(A)
    BY <1>2, <1>4, <1>6
  <2>2. \A i \in best : i \in Nat /\ i \in 0 .. Cardinality(A)
    BY <1>3, <2>1
  <2> QED BY <2>2
<1>8. fits # {} => Least(best) \in fits /\ Greatest(best) \in fits
  BY <1>3, <1>5, <1>6, <1>7, LeastIs, GreatestIs
<1>9. a = NIL \/ (a \in A /\ Fits(h, a, size, al))
  BY <1>1, <1>4, <1>8
<1>10. fits # {} => a # NIL
  <2>1. fits # {} => a \in A
    BY <1>1, <1>4, <1>8
  <2>2. \A b \in A : b \in Int
    BY DEF Whole
  <2>3. NIL \notin A
    BY <2>2, FreeListAssumption
  <2> QED BY <2>1, <2>3
<1>11. ASSUME NEW i \in DOMAIN list, Fits(h, list[i], size, al) PROVE a # NIL
  <2>1. i \in fits
    BY <1>11 DEF fits
  <2> QED BY <1>10, <2>1
<1> QED BY <1>9, <1>11 DEF list

(* A block is handed out of the free memory, or nothing changes.            *)
LEMMA MemAllocAlignIs ==
    ASSUME NEW A, NEW h, Whole(h, A), NEW request \in Nat, NEW al \in Nat \ {0},
           NEW allocated, allocated = MemAllocAlign(h, request, al), allocated.data # NIL
    PROVE  /\ allocated.data \in Nat
           /\ \E B : /\ Whole(allocated.heap, B)
                     /\ Room(allocated.heap, B) = Room(h, A) \ Span(allocated.data, AdjustSize(request))
           /\ Span(allocated.data, AdjustSize(request)) \subseteq Room(h, A)
<1> DEFINE size == AdjustSize(request)
           tables == { t \in Tables : t >= FirstTable(size) /\ Choice(h, t, size, al) # NIL }
           a == Choice(h, Least(tables), size, al)
           data == Place(a, al)
<1>1. allocated = IF tables = {} THEN [heap |-> h, data |-> NIL]
                  ELSE [heap |-> Carve(h, a, data, size), data |-> data]
  BY Zenon DEF MemAllocAlign
<1>2. tables # {} /\ allocated.data = data /\ allocated.heap = Carve(h, a, data, size)
  <2> HIDE DEF tables, data, a, size
  <2> QED BY <1>1
<1>3. Least(tables) \in tables
  <2>1. tables \in SUBSET Nat
    BY TablesAre DEF Tables
  <2> HIDE DEF tables
  <2> QED BY <1>2, <2>1, LeastIs
<1>4. size \in Nat /\ size >= HEADER
  BY AdjustedIs
<1>5. a \in A /\ Fits(h, a, size, al)
  <2>1. Least(tables) \in Tables /\ a # NIL
    BY <1>3
  <2> HIDE DEF tables, size
  <2> QED BY <1>4, <2>1, ChoiceIs
<1> HIDE DEF tables, size, a
<1>6. a \in Nat /\ data \in Nat /\ (data = a \/ data >= a + HEADER)
  BY <1>5, PlaceIs DEF Whole
<1>7. CanCut(h, a, data, size, Int)
  BY <1>4, <1>5, <1>6 DEF Fits, CanCut
<1>8. EndsIn(h, A, Int)
  BY SizeIs DEF EndsIn, Whole
<1> HIDE DEF data
<1>9. IsCut(h, A, allocated.heap, data, size, Int)
  BY <1>2, <1>4, <1>5, <1>6, <1>7, <1>8, CarveIs
<1> QED BY <1>2, <1>6, <1>9 DEF size, IsCut

(* No border is just behind a block.                                        *)
Clear(P, data, size) == \A b \in P : data + size < b => data + size + HEADER <= b

(* A region is taken out of the free memory, or nothing changes             *)
(* (KLfreeListMemAllocRegion).                                              *)
LEMMA MemAllocRegionIs ==
    ASSUME NEW A, NEW h, Whole(h, A), NEW P, EndsIn(h, A, P),
           NEW data \in Nat, data \in P, NEW request \in Nat,
           NEW size, size = AdjustSize(request),
           Clear(P, data, size),
           NEW allocated, allocated = MemAllocRegion(h, data, request)
    PROVE  \/ allocated.data = NIL /\ allocated.heap = h
           \/ allocated.data = data /\ IsCut(h, A, allocated.heap, data, size, P)
<1> DEFINE z == AdjustSize(request)
           past(b)   == b > data
           narrow(b) == b < data /\ data - b < HEADER
           holds(b)  == b <= data /\ b + h.entry[b].size >= data /\ Left(h, b, data, z) >= 0
           deciding(t) == LET list == SizeList(h, t)
                          IN  { i \in DOMAIN list : past(list[i]) \/ narrow(list[i]) \/ holds(list[i]) }
           decision(t) == SizeList(h, t)[Least(deciding(t))]
           tables == { t \in Tables : /\ t >= KLgetFastLookupToUse(z)
                                      /\ deciding(t) # {} /\ ~past(decision(t)) }
           a == decision(Least(tables))
<1>1. allocated = IF tables = {} \/ narrow(a) THEN [heap |-> h, data |-> NIL]
                  ELSE [heap |-> Carve(h, a, data, z), data |-> data]
  BY Zenon DEF MemAllocRegion
<1>2. CASE tables = {} \/ narrow(a)
  <2> HIDE DEF tables, narrow, a, z
  <2> QED BY <1>1, <1>2
<1>3. CASE ~(tables = {} \/ narrow(a))
  <2>1. allocated.data = data /\ allocated.heap = Carve(h, a, data, z)
    <3> HIDE DEF tables, narrow, a, z
    <3> QED BY <1>1, <1>3
  <2> DEFINE t == Least(tables)
             list == SizeList(h, t)
             i == Least(deciding(t))
  <2>2. t \in tables
    <3>1. tables \in SUBSET Nat
      BY TablesAre DEF Tables
    <3>2. tables # {}
      BY <1>3
    <3> HIDE DEF tables
    <3> QED BY <3>1, <3>2, LeastIs
  <2>3. t \in Tables /\ deciding(t) # {} /\ ~past(decision(t))
    BY <2>2
  <2> HIDE DEF tables, t
  <2>4. DOMAIN list \subseteq 1 .. Cardinality(A) /\ \A j \in DOMAIN list : list[j] \in A
    BY <2>3, SizeListIs
  <2> HIDE DEF past, narrow, holds
  <2>5. i \in deciding(t)
    <3>1. deciding(t) \subseteq DOMAIN list
      OBVIOUS
    <3> HIDE DEF deciding, list
    <3>2. \A j \in deciding(t) : j \in Nat
      BY <2>4, <3>1
    <3>3. deciding(t) \in SUBSET Nat
      BY <3>2
    <3> QED BY <2>3, <3>3, LeastIs
  <2>6. i \in DOMAIN list /\ (past(list[i]) \/ narrow(list[i]) \/ holds(list[i]))
    BY <2>5
  <2>7. a = list[i]
    BY DEF a, t
  <2>8. a \in A
    BY <2>4, <2>6, <2>7
  <2>9. decision(t) = a
    BY DEF t
  <2>10. holds(a)
    <3> HIDE DEF a, list, i, decision, deciding
    <3> QED BY <1>3, <2>3, <2>6, <2>7, <2>9
  <2>11. ~narrow(a)
    BY <1>3
  <2> HIDE DEF a
  <2>12. z \in Nat /\ z >= HEADER /\ z = size
    BY AdjustedIs
  <2> HIDE DEF z
  <2>13. a \in Nat /\ h.entry[a].size \in Int
    BY <2>8, SizeIs DEF Whole
  <2>14. data = a \/ data >= a + HEADER
    BY <2>10, <2>11, <2>13, FreeListAssumption DEF holds, narrow
  <2> DEFINE left == Left(h, a, data, z)
             end == a + h.entry[a].size
  <2>15. left >= 0 /\ left = end - (data + z) /\ end \in P /\ end \in Int
    <3>1. left >= 0
      BY <2>10 DEF holds
    <3>2. left = end - (data + z)
      BY <2>12, <2>13 DEF Left
    <3>3. end \in P
      BY <2>8 DEF EndsIn
    <3>4. end \in Int
      BY <2>13
    <3> QED BY <3>1, <3>2, <3>3, <3>4
  <2>16. left = 0 \/ left >= HEADER
    <3>1. data + size < end => data + size + HEADER <= end
      BY <2>15 DEF Clear
    <3> HIDE DEF end, left
    <3> QED BY <2>12, <2>15, <3>1, FreeListAssumption
  <2>17. CanCut(h, a, data, z, P)
    BY <2>12, <2>14, <2>16 DEF CanCut
  <2>18. IsCut(h, A, allocated.heap, data, z, P)
    BY <2>1, <2>8, <2>12, <2>17, CarveIs
  <2> QED BY <2>1, <2>12, <2>18
<1> QED BY <1>2, <1>3

-----------------------------------------------------------------------------
(* The memory: free, in use, reserved.                                      *)
Free(h)   == Room(h, Addresses(h))
Of(u, d)  == Span(d, AdjustSize(u[d]))
InUse(u)  == UNION { Of(u, d) : d \in DOMAIN u }
Given(b)  == IF b = 0 THEN {} ELSE IF b = 1 THEN Units(LowMem) ELSE Memory

(* While the kernel starts, nothing is in use and entries end at borders;   *)
(* and what is free or in use is what has been given without what is        *)
(* reserved.                                                                *)
Starting(h, u, r, b) ==
    /\ b # 3 + Len(Modules) => EndsIn(h, Addresses(h), Borders) /\ DOMAIN u = {}
    /\ b \in {0, 1} => r = {}
Apportioned(h, u, r, b) ==
    /\ Whole(h, Addresses(h))
    /\ \A d \in DOMAIN u : d \in Nat /\ u[d] \in Nat
    /\ \A c, d \in DOMAIN u : c # d => Of(u, c) \cap Of(u, d) = {}
    /\ Free(h) \cap InUse(u) = {}
    /\ Free(h) \cup InUse(u) = Given(b) \ r

MemoryInv ==
    /\ boot \in 0 .. 3 + Len(Modules) /\ CKFreeListLock \in BOOLEAN
    /\ Starting(freeList, used, reserved, boot)
    /\ Apportioned(freeList, used, reserved, boot)

(* The heap of CKinitMem is whole.                                          *)
LEMMA EmptyIsWhole ==
    Whole(EmptyHeap, {}) /\ Addresses(EmptyHeap) = {} /\ Free(EmptyHeap) = {}
<1> DEFINE h == EmptyHeap
<1>1. h.entry = << >> /\ h.FirstFreeEntry = NIL /\ h.FreeMemory = 0
      /\ h.FirstFreeSizeEntry = [t \in Tables |-> NIL]
  BY DEF EmptyHeap
<1>2. DOMAIN << >> = {} /\ << >> \in [{} -> Entry]
  OBVIOUS
<1>3. h \in FreeLists({})
  <2>1. [t \in Tables |-> NIL] \in [Tables -> Pointers] /\ NIL \in Pointers
    BY DEF Pointers
  <2> QED BY <1>2, <2>1 DEF EmptyHeap, FreeLists
<1>4. Addresses(h) = {}
  BY <1>1, <1>2 DEF Addresses
<1> HIDE DEF h
<1>5. InOrder(h, {}) /\ Apart(h, {})
  BY <1>1 DEF InOrder, Leads, Apart
<1>6. Listed(h, {})
  BY <1>1 DEF Listed
<1>7. Met(h, {})
  BY DEF Met
<1>8. Room(h, {}) = {}
  BY DEF Room
<1>9. IsFiniteSet({}) /\ Cardinality({}) = 0
  BY FS_EmptySet
<1>10. Linked(h, {})
  BY <1>3, <1>5, <1>6, <1>7 DEF Linked
<1>11. Whole(h, {})
  BY <1>1, <1>5, <1>8, <1>9, <1>10 DEF Whole
<1> QED BY <1>4, <1>8, <1>11 DEF Free, h

(* What is known of the ranges.                                             *)
LEMMA RangeIs ==
    ASSUME NEW range \in {LowMem, HighMem} \cup Regions
    PROVE  /\ range.start \in Nat /\ range.size \in Nat
           /\ AdjustSize(range.size) = range.size
           /\ range.start \in Borders /\ range.start + range.size \in Borders
           /\ Units(range) = Span(range.start, range.size)
<1>1. ASSUME NEW r \in Ranges PROVE r.start \in Nat /\ r.size \in Nat
  BY DEF Ranges
<1>2. ASSUME NEW i \in DOMAIN Modules
      PROVE  Pages(Modules[i]).start \in Nat /\ Pages(Modules[i]).size \in Nat
  <2> DEFINE m == Modules[i]
  <2>1. PAGESIZE \in Nat \ {0} /\ m \in Ranges
    BY CKMemoryAssumption
  <2> HIDE DEF m
  <2>2. m.start \in Nat /\ m.size \in Nat
    BY <1>1, <2>1
  <2>3. m.start \div PAGESIZE \in Nat
    BY <2>1, <2>2
  <2>4. (m.start \div PAGESIZE) * PAGESIZE \in Nat
    BY <2>1, <2>3
  <2>5. Align(m.size, PAGESIZE) \in Nat
    BY <2>1, <2>2, AlignIs
  <2>6. Pages(m).start \in Nat /\ Pages(m).size \in Nat
    BY <2>4, <2>5 DEF Pages
  <2> QED BY <2>6 DEF m
<1>3. range.start \in Nat /\ range.size \in Nat
  BY <1>1, <1>2, CKMemoryAssumption DEF Regions
<1>4. range.size >= HEADER
  BY RegionsFit
<1>5. AdjustSize(range.size) = range.size
  BY <1>3, <1>4, FreeListAssumption DEF AdjustSize
<1>6. range.start \in Borders /\ range.start + range.size \in Borders
  BY DEF Borders
<1>7. Units(range) = Span(range.start, range.size)
  BY DEF Units, Span
<1> QED BY <1>3, <1>5, <1>6, <1>7

(* The invariant holds when the kernel starts.                              *)
LEMMA InitIs == MemoryInit => MemoryInv
<1> SUFFICES ASSUME MemoryInit PROVE MemoryInv
  OBVIOUS
<1>1. freeList = EmptyHeap /\ used = << >> /\ reserved = {} /\ boot = 0 /\ CKFreeListLock = FALSE
  BY DEF MemoryInit
<1>2. DOMAIN used = {}
  BY <1>1
<1>3. Whole(freeList, Addresses(freeList)) /\ Addresses(freeList) = {} /\ Free(freeList) = {}
  BY <1>1, EmptyIsWhole
<1>4. InUse(used) = {}
  BY <1>2 DEF InUse
<1>5. Apportioned(freeList, used, reserved, boot)
  BY <1>1, <1>2, <1>3, <1>4 DEF Apportioned, Given
<1>6. Starting(freeList, used, reserved, boot)
  BY <1>1, <1>2, <1>3 DEF Starting, EndsIn
<1>7. boot \in 0 .. 3 + Len(Modules)
  <2>1. Len(Modules) \in Nat
    BY CKMemoryAssumption
  <2> QED BY <1>1, <2>1
<1> QED BY <1>1, <1>5, <1>6, <1>7 DEF MemoryInv

(* The free memory of a whole heap.                                         *)
LEMMA SettledIs ==
    ASSUME NEW B, NEW k, Whole(k, B)
    PROVE  Addresses(k) = B /\ Free(k) = Room(k, B)
BY AddressesAre DEF Whole, Free

(* Memory is added when the kernel starts.                                  *)
LEMMA AddIs ==
    ASSUME NEW h, NEW u, NEW r, NEW b \in {0, 1}, Starting(h, u, r, b), Apportioned(h, u, r, b),
           NEW range, range = IF b = 0 THEN LowMem ELSE HighMem,
           NEW k, k = MemFree(h, range.start, range.size), NEW c, c = b + 1
    PROVE  Starting(k, u, r, c) /\ Apportioned(k, u, r, c)
<1> DEFINE A == Addresses(h)
           block == range.start
           size == AdjustSize(range.size)
<1>1. Len(Modules) \in Nat
  BY CKMemoryAssumption
<1>2. /\ Whole(h, A) /\ EndsIn(h, A, Borders) /\ DOMAIN u = {} /\ r = {}
      /\ Free(h) \cup InUse(u) = Given(b) \ r
  BY <1>1 DEF Starting, Apportioned
<1>3. /\ block \in Nat /\ range.size \in Nat /\ size = range.size
      /\ block \in Borders /\ block + range.size \in Borders
      /\ Units(range) = Span(block, range.size)
  BY RangeIs
<1>4. InUse(u) = {}
  BY <1>2 DEF InUse
<1>5. Free(h) = Given(b) /\ Room(h, A) = Given(b)
  BY <1>2, <1>4 DEF Free
<1>6. Units(range) \cap Given(b) = {} /\ Units(range) \cup Given(b) = Given(c)
  <2>1. Units(LowMem) \cap Units(HighMem) = {}
    BY CKMemoryAssumption
  <2>2. CASE b = 0
    BY <2>2 DEF Given
  <2>3. CASE b = 1
    <3>1. range = HighMem /\ c = 2
      BY <2>3
    <3> QED BY <2>1, <2>3, <3>1 DEF Given, Memory
  <2> QED BY <2>2, <2>3
<1> HIDE DEF block, A
<1>7. Span(block, size) \cap Room(h, A) = {} /\ block + size \in Borders
  BY <1>3, <1>5, <1>6
<1>8. k = MemFree(h, block, range.size)
  BY DEF block
<1>9. PICK B : /\ Whole(k, B) /\ EndsIn(k, B, Borders)
               /\ Room(k, B) = Room(h, A) \cup Span(block, size)
  <2> DEFINE request == range.size
  <2>1. request \in Nat /\ k = MemFree(h, block, request)
    BY <1>3, <1>8
  <2>2. Span(block, AdjustSize(request)) \cap Room(h, A) = {} /\ block + AdjustSize(request) \in Borders
    BY <1>7
  <2> HIDE DEF request
  <2>3. \E B : /\ Whole(k, B) /\ EndsIn(k, B, Borders)
               /\ Room(k, B) = Room(h, A) \cup Span(block, AdjustSize(request))
    BY <1>2, <1>3, <2>1, <2>2, MemFreeIs
  <2> QED BY <2>3 DEF request
<1>10. Addresses(k) = B /\ Free(k) = Room(k, B)
  BY <1>9, SettledIs
<1>11. Free(k) = Given(c)
  <2>1. Span(block, size) = Units(range)
    BY <1>3
  <2> HIDE DEF size
  <2> QED BY <1>5, <1>6, <1>9, <1>10, <2>1
<1>12. Apportioned(k, u, r, c)
  BY <1>2, <1>4, <1>9, <1>10, <1>11 DEF Apportioned
<1>13. Starting(k, u, r, c)
  BY <1>2, <1>9, <1>10 DEF Starting
<1> QED BY <1>12, <1>13

(* A region is reserved, or nothing changes.                                *)
LEMMA ReserveIs ==
    ASSUME NEW h, NEW u, NEW r, NEW b \in Nat, b >= 2, b < 3 + Len(Modules),
           Starting(h, u, r, b), Apportioned(h, u, r, b),
           NEW range \in Regions,
           NEW allocated, allocated = MemAllocRegion(h, range.start, range.size),
           NEW k, k = allocated.heap,
           NEW s, s = r \cup IF allocated.data = NIL THEN {} ELSE Units(range),
           NEW c, c = b + 1
    PROVE  Starting(k, u, s, c) /\ Apportioned(k, u, s, c)
<1> DEFINE A == Addresses(h)
           data == range.start
           request == range.size
           size == AdjustSize(request)
<1>1. Len(Modules) \in Nat
  BY CKMemoryAssumption
<1>2. /\ Whole(h, A) /\ EndsIn(h, A, Borders) /\ DOMAIN u = {}
      /\ Free(h) \cup InUse(u) = Given(b) \ r
  BY <1>1 DEF Starting, Apportioned
<1>3. /\ data \in Nat /\ request \in Nat /\ size = request
      /\ data \in Borders /\ data + request \in Borders
      /\ Units(range) = Span(data, size)
  BY RangeIs
<1>4. InUse(u) = {}
  BY <1>2 DEF InUse
<1>5. Given(b) = Memory /\ Given(c) = Memory
  BY DEF Given
<1>6. Room(h, A) = Memory \ r
  BY <1>2, <1>4, <1>5 DEF Free
<1>7. Clear(Borders, data, size)
  <2> SUFFICES ASSUME NEW e \in Borders, data + size < e PROVE data + size + HEADER <= e
    BY DEF Clear
  <2>1. e \in Int
    <3>1. PICK p \in {LowMem, HighMem} \cup Regions : e \in {p.start, p.start + p.size}
      BY DEF Borders
    <3>2. p.start \in Nat /\ p.size \in Nat
      BY <3>1, RangeIs
    <3> QED BY <3>1, <3>2
  <2>2. e > range.start + range.size => e - (range.start + range.size) >= HEADER
    BY RegionsFit
  <2> QED BY <1>3, <2>1, <2>2, FreeListAssumption
<1>8. allocated = MemAllocRegion(h, data, request)
  OBVIOUS
<1> HIDE DEF A, data, request
<1>9. \/ allocated.data = NIL /\ k = h
      \/ allocated.data = data /\ IsCut(h, A, k, data, size, Borders)
  <2> DEFINE z == size
  <2>1. z = AdjustSize(request) /\ Clear(Borders, data, z)
    BY <1>7
  <2> HIDE DEF z, size
  <2>2. \/ allocated.data = NIL /\ allocated.heap = h
        \/ allocated.data = data /\ IsCut(h, A, allocated.heap, data, z, Borders)
    BY <1>2, <1>3, <1>8, <2>1, MemAllocRegionIs
  <2> QED BY <2>2 DEF z
<1>10. \E B : /\ Whole(k, B) /\ EndsIn(k, B, Borders)
              /\ Room(k, B) = Memory \ s
  <2>1. CASE allocated.data = NIL /\ k = h
    BY <1>2, <1>6, <2>1
  <2>2. CASE allocated.data = data /\ IsCut(h, A, k, data, size, Borders)
    <3>1. data # NIL
      BY <1>3, FreeListAssumption
    <3>2. s = r \cup Span(data, size)
      BY <1>3, <2>2, <3>1
    <3>3. PICK B : /\ Whole(k, B) /\ EndsIn(k, B, Borders)
                   /\ Room(k, B) = Room(h, A) \ Span(data, size)
      BY <2>2 DEF IsCut
    <3> QED BY <1>6, <3>2, <3>3
  <2> QED BY <1>9, <2>1, <2>2
<1>11. PICK B : /\ Whole(k, B) /\ EndsIn(k, B, Borders)
                /\ Room(k, B) = Memory \ s
  BY <1>10
<1>12. Addresses(k) = B /\ Free(k) = Room(k, B)
  BY <1>11, SettledIs
<1>13. Apportioned(k, u, s, c)
  BY <1>2, <1>4, <1>5, <1>11, <1>12 DEF Apportioned
<1>14. Starting(k, u, s, c)
  BY <1>2, <1>11, <1>12 DEF Starting
<1> QED BY <1>13, <1>14

(* A block is not empty.                                                    *)
LEMMA BeginIs ==
    ASSUME NEW data \in Nat, NEW request \in Nat
    PROVE  data \in Span(data, AdjustSize(request))
<1>1. AdjustSize(request) \in Nat /\ AdjustSize(request) > 0
  BY AdjustedIs
<1> QED BY <1>1 DEF Span

(* A kernel that has started is bound by nothing of the start.              *)
LEMMA NowStarted ==
    ASSUME NEW h, NEW u, NEW r, NEW b, b = 3 + Len(Modules)
    PROVE  Starting(h, u, r, b)
<1>1. Len(Modules) \in Nat
  BY CKMemoryAssumption
<1> QED BY <1>1 DEF Starting

(* A block is handed out: it moves from what is free to what is in use.     *)
LEMMA HandOutIs ==
    ASSUME NEW h, NEW u, NEW r, NEW b, Apportioned(h, u, r, b),
           NEW request \in Nat, NEW al \in Nat \ {0},
           NEW allocated, allocated = MemAllocAlign(h, request, al), allocated.data # NIL,
           NEW k, k = allocated.heap, NEW v, v = With(u, allocated.data, request)
    PROVE  Apportioned(k, v, r, b)
<1> DEFINE A == Addresses(h)
           d == allocated.data
           block == Span(d, AdjustSize(request))
<1>1. /\ Whole(h, A)
      /\ \A e \in DOMAIN u : e \in Nat /\ u[e] \in Nat
      /\ \A e, f \in DOMAIN u : e # f => Of(u, e) \cap Of(u, f) = {}
      /\ Free(h) \cap InUse(u) = {}
      /\ Free(h) \cup InUse(u) = Given(b) \ r
  BY DEF Apportioned
<1>2. /\ d \in Nat
      /\ \E B : Whole(k, B) /\ Room(k, B) = Room(h, A) \ block
      /\ block \subseteq Room(h, A)
  <2> HIDE DEF A
  <2> QED BY <1>1, MemAllocAlignIs
<1>3. Room(h, A) = Free(h)
  BY DEF Free
<1> HIDE DEF d, block, A
<1>4. PICK B : Whole(k, B) /\ Room(k, B) = Room(h, A) \ block
  BY <1>2
<1>5. Whole(k, Addresses(k)) /\ Free(k) = Free(h) \ block /\ block \subseteq Free(h)
  BY <1>2, <1>3, <1>4, SettledIs
<1>6. ASSUME d \in DOMAIN u PROVE FALSE
  <2>1. d \in Of(u, d) /\ d \in block
    BY <1>1, <1>2, <1>6, BeginIs DEF Of, block
  <2>2. d \in InUse(u)
    BY <1>6, <2>1 DEF InUse
  <2> QED BY <1>1, <1>5, <2>1, <2>2
<1>7. /\ DOMAIN v = DOMAIN u \cup {d}
      /\ \A e \in DOMAIN v : v[e] = IF e = d THEN request ELSE u[e]
  BY DEF With, d
<1>8. /\ Of(v, d) = block
      /\ \A e \in DOMAIN u : Of(v, e) = Of(u, e)
  <2>1. v[d] = request /\ \A e \in DOMAIN u : v[e] = u[e]
    BY <1>6, <1>7
  <2> QED BY <2>1 DEF Of, block
<1>9. InUse(v) = InUse(u) \cup block
  BY <1>7, <1>8 DEF InUse
<1>10. \A e \in DOMAIN u : Of(u, e) \subseteq InUse(u)
  BY DEF InUse
<1>11. \A e, f \in DOMAIN v : e # f => Of(v, e) \cap Of(v, f) = {}
  BY <1>1, <1>5, <1>7, <1>8, <1>10
<1>12. \A e \in DOMAIN v : e \in Nat /\ v[e] \in Nat
  BY <1>1, <1>2, <1>7
<1>13. Free(k) \cap InUse(v) = {} /\ Free(k) \cup InUse(v) = Given(b) \ r
  BY <1>1, <1>5, <1>9
<1> QED BY <1>5, <1>11, <1>12, <1>13 DEF Apportioned

(* A block is freed: it moves back.                                         *)
LEMMA FreedIs ==
    ASSUME NEW h, NEW u, NEW r, NEW b, Apportioned(h, u, r, b), NEW d \in DOMAIN u,
           NEW k, k = MemFree(h, d, u[d]), NEW v, v = Without(u, d)
    PROVE  Apportioned(k, v, r, b)
<1> DEFINE A == Addresses(h)
           request == u[d]
<1>1. /\ Whole(h, A)
      /\ \A e \in DOMAIN u : e \in Nat /\ u[e] \in Nat
      /\ \A e, f \in DOMAIN u : e # f => Of(u, e) \cap Of(u, f) = {}
      /\ Free(h) \cap InUse(u) = {}
      /\ Free(h) \cup InUse(u) = Given(b) \ r
  BY DEF Apportioned
<1>2. d \in Nat /\ request \in Nat /\ k = MemFree(h, d, request)
  BY <1>1
<1>3. Of(u, d) = Span(d, AdjustSize(request)) /\ Of(u, d) \subseteq InUse(u) /\ Free(h) = Room(h, A)
  BY DEF Of, InUse, Free
<1> HIDE DEF A, request
<1>4. Span(d, AdjustSize(request)) \cap Room(h, A) = {}
  BY <1>1, <1>3
<1>5. EndsIn(h, A, Int) /\ d + AdjustSize(request) \in Int
  <2>1. EndsIn(h, A, Int)
    BY <1>1, SizeIs DEF EndsIn, Whole
  <2> QED BY <1>2, <2>1, AdjustedIs
<1>6. \E B : /\ Whole(k, B) /\ EndsIn(k, B, Int)
             /\ Room(k, B) = Room(h, A) \cup Span(d, AdjustSize(request))
  BY <1>1, <1>2, <1>4, <1>5, MemFreeIs
<1>7. PICK B : Whole(k, B) /\ Room(k, B) = Room(h, A) \cup Span(d, AdjustSize(request))
  BY <1>6
<1>8. Whole(k, Addresses(k)) /\ Free(k) = Free(h) \cup Of(u, d)
  BY <1>3, <1>7, SettledIs
<1>9. DOMAIN v = DOMAIN u \ {d} /\ \A e \in DOMAIN v : v[e] = u[e]
  BY DEF Without
<1>10. \A e \in DOMAIN v : Of(v, e) = Of(u, e)
  BY <1>9 DEF Of
<1>11. InUse(v) = InUse(u) \ Of(u, d)
  <2>1. InUse(v) \subseteq InUse(u) \ Of(u, d)
    BY <1>1, <1>9, <1>10 DEF InUse
  <2>2. InUse(u) \ Of(u, d) \subseteq InUse(v)
    BY <1>1, <1>9, <1>10 DEF InUse
  <2> QED BY <2>1, <2>2
<1>12. \A e \in DOMAIN v : e \in Nat /\ v[e] \in Nat
  BY <1>1, <1>9
<1>13. \A e, f \in DOMAIN v : e # f => Of(v, e) \cap Of(v, f) = {}
  BY <1>1, <1>9, <1>10
<1>14. Free(k) \cap InUse(v) = {} /\ Free(k) \cup InUse(v) = Given(b) \ r
  BY <1>1, <1>3, <1>8, <1>11
<1> QED BY <1>8, <1>12, <1>13, <1>14 DEF Apportioned

(* Every call keeps the invariant (memory.c, CKpageMarkHardwareDependent).  *)
LEMMA NextIs == MemoryInv /\ [MemoryNext]_memoryVars => MemoryInv'
<1> SUFFICES ASSUME MemoryInv, [MemoryNext]_memoryVars PROVE MemoryInv'
  OBVIOUS
<1>1. /\ boot \in 0 .. 3 + Len(Modules) /\ CKFreeListLock \in BOOLEAN
      /\ Starting(freeList, used, reserved, boot)
      /\ Apportioned(freeList, used, reserved, boot)
      /\ Len(Modules) \in Nat
  BY CKMemoryAssumption DEF MemoryInv
<1>2. CASE AddMemory
  <2> DEFINE range == IF boot = 0 THEN LowMem ELSE HighMem
  <2>1. /\ boot \in {0, 1} /\ freeList' = MemFree(freeList, range.start, range.size)
        /\ boot' = boot + 1 /\ UNCHANGED <<used, CKFreeListLock, reserved>>
    BY <1>2 DEF AddMemory
  <2> HIDE DEF range
  <2>2. range = IF boot = 0 THEN LowMem ELSE HighMem
    BY DEF range
  <2>3. Starting(freeList', used, reserved, boot') /\ Apportioned(freeList', used, reserved, boot')
    BY <1>1, <2>1, <2>2, AddIs
  <2>4. boot' \in 0 .. 3 + Len(Modules)
    BY <1>1, <2>1
  <2> QED BY <1>1, <2>1, <2>3, <2>4 DEF MemoryInv
<1>3. ASSUME NEW range \in Regions, boot >= 2, boot < 3 + Len(Modules), Reserve(range)
      PROVE  MemoryInv'
  <2> DEFINE allocated == MemAllocRegion(freeList, range.start, range.size)
             s == reserved \cup IF allocated.data = NIL THEN {} ELSE Units(range)
  <2>1. /\ freeList' = allocated.heap /\ reserved' = s
        /\ boot' = boot + 1 /\ UNCHANGED <<used, CKFreeListLock>>
    BY <1>3 DEF Reserve
  <2>2. boot \in Nat
    BY <1>1
  <2>3. allocated = MemAllocRegion(freeList, range.start, range.size)
        /\ s = reserved \cup IF allocated.data = NIL THEN {} ELSE Units(range)
    OBVIOUS
  <2> HIDE DEF allocated, s
  <2>4. Starting(freeList', used, s, boot') /\ Apportioned(freeList', used, s, boot')
    BY <1>1, <1>3, <2>1, <2>2, <2>3, ReserveIs
  <2>5. boot' \in 0 .. 3 + Len(Modules)
    BY <1>1, <1>3, <2>1, <2>2
  <2> QED BY <1>1, <2>1, <2>4, <2>5 DEF MemoryInv
<1>4. CASE ReserveBios
  <2>1. boot = 2 /\ Reserve(Bios) /\ Bios \in Regions
    BY <1>4 DEF ReserveBios, Regions
  <2> QED BY <1>1, <1>3, <2>1
<1>5. CASE ReserveModule
  <2>1. boot >= 3 /\ boot # 3 + Len(Modules) /\ Reserve(Pages(Modules[boot - 2]))
    BY <1>5 DEF ReserveModule, Booted
  <2>2. boot >= 2 /\ boot < 3 + Len(Modules) /\ boot - 2 \in 1 .. Len(Modules)
    BY <1>1, <2>1
  <2>3. boot - 2 \in DOMAIN Modules
    BY <2>2, CKMemoryAssumption
  <2>4. Pages(Modules[boot - 2]) \in Regions
    BY <2>3 DEF Regions
  <2> QED BY <1>3, <2>1, <2>2, <2>4
<1>6. ASSUME NEW size \in Nat, NEW alignment \in Nat \ {0},
             HandOut(MemAllocAlign(freeList, size, alignment), size)
      PROVE  MemoryInv'
  <2> DEFINE allocated == MemAllocAlign(freeList, size, alignment)
  <2>1. /\ Booted /\ allocated.data # NIL /\ freeList' = allocated.heap
        /\ used' = With(used, allocated.data, size)
        /\ UNCHANGED <<CKFreeListLock, reserved, boot>>
    BY <1>6 DEF HandOut
  <2>2. allocated = MemAllocAlign(freeList, size, alignment)
    OBVIOUS
  <2> HIDE DEF allocated
  <2>3. Apportioned(freeList', used', reserved, boot)
    BY <1>1, <2>1, <2>2, HandOutIs
  <2>4. Starting(freeList', used', reserved, boot)
    BY <2>1, NowStarted DEF Booted
  <2> QED BY <1>1, <2>1, <2>3, <2>4 DEF MemoryInv
<1>7. ASSUME NEW size \in Sizes, CKmemAlloc(size) PROVE MemoryInv'
  <2>1. size \in Nat /\ 1 \in Nat \ {0}
    BY CKMemoryAssumption
  <2> QED BY <1>6, <1>7, <2>1 DEF CKmemAlloc
<1>8. ASSUME NEW size \in Sizes, NEW alignment \in Alignments, CKmemAllocAlign(size, alignment)
      PROVE  MemoryInv'
  <2>1. size \in Nat /\ alignment \in Nat \ {0}
    BY CKMemoryAssumption
  <2> QED BY <1>6, <1>8, <2>1 DEF CKmemAllocAlign
<1>9. ASSUME NEW n \in PageCounts, CKmemAllocPages(n) PROVE MemoryInv'
  <2>1. n \in Nat /\ PAGESIZE \in Nat \ {0}
    BY CKMemoryAssumption
  <2>2. n * PAGESIZE \in Nat
    BY <2>1
  <2> QED BY <1>6, <1>9, <2>1, <2>2 DEF CKmemAllocPages
<1>10. ASSUME NEW data \in DOMAIN used, CKmemFree(data) PROVE MemoryInv'
  <2>1. /\ Booted /\ freeList' = MemFree(freeList, data, used[data]) /\ used' = Without(used, data)
        /\ UNCHANGED <<CKFreeListLock, reserved, boot>>
    BY <1>10 DEF CKmemFree
  <2>2. Apportioned(freeList', used', reserved, boot)
    BY <1>1, <2>1, FreedIs
  <2>3. Starting(freeList', used', reserved, boot)
    BY <2>1, NowStarted DEF Booted
  <2> QED BY <1>1, <2>1, <2>2, <2>3 DEF MemoryInv
<1>11. ASSUME NEW data \in DOMAIN used, CKmemFreePages(data) PROVE MemoryInv'
  <2>1. CKFreeListLock' = TRUE /\ UNCHANGED <<freeList, used, reserved, boot>>
    BY <1>11 DEF CKmemFreePages
  <2> QED BY <1>1, <2>1 DEF MemoryInv
<1>12. CASE UNCHANGED memoryVars
  BY <1>1, <1>12 DEF memoryVars, MemoryInv
<1> QED BY <1>2, <1>4, <1>5, <1>7, <1>8, <1>9, <1>10, <1>11, <1>12 DEF MemoryNext

(* The invariant holds.                                                     *)
LEMMA MemoryInvHolds == MemorySpec => []MemoryInv
<1>1. MemoryInit => MemoryInv
  BY InitIs
<1>2. MemoryInv /\ [MemoryNext]_memoryVars => MemoryInv'
  BY NextIs
<1> QED BY <1>1, <1>2, PTL DEF MemorySpec

(* The invariant has the types.                                             *)
LEMMA MemoryTypes == MemoryInv => MemoryTypeOK
<1> SUFFICES ASSUME MemoryInv PROVE MemoryTypeOK
  OBVIOUS
<1> DEFINE A == Addresses(freeList)
<1>1. /\ boot \in 0 .. 3 + Len(Modules) /\ CKFreeListLock \in BOOLEAN
      /\ Apportioned(freeList, used, reserved, boot)
  BY DEF MemoryInv
<1>2. Whole(freeList, A) /\ \A d \in DOMAIN used : used[d] \in Nat
  BY <1>1 DEF Apportioned
<1>3. DOMAIN freeList.FirstFreeSizeEntry = Tables
  BY <1>2 DEF Whole, Linked, FreeLists
<1>4. \A a \in A : freeList.entry[a].size \in Nat
  <2> SUFFICES ASSUME NEW a \in A PROVE freeList.entry[a].size \in Nat
    OBVIOUS
  <2> HIDE DEF A
  <2>1. freeList.entry[a].size \in Int /\ freeList.entry[a].size >= HEADER
    BY <1>2, SizeIs DEF Whole, Apart
  <2> QED BY <2>1, FreeListAssumption
<1> QED BY <1>1, <1>2, <1>3, <1>4 DEF MemoryTypeOK

(* Every unit of memory is free, in use or reserved, in entries that have   *)
(* room for their own fields and do not touch, and FreeMemory is their sum  *)
(* (memory.c, FreelistAlloc.c).                                             *)
THEOREM MemoryIsPartitioned == MemorySpec => [](MemoryTypeOK /\ Partition)
<1>1. MemoryInv => MemoryTypeOK
  BY MemoryTypes
<1>2. MemoryInv => Partition
  <2> SUFFICES ASSUME MemoryInv PROVE Partition
    OBVIOUS
  <2> DEFINE A == Addresses(freeList)
             free == UNION { Extent(a) : a \in A }
             taken == UNION { Block(d) : d \in DOMAIN used }
  <2>1. /\ boot \in 0 .. 3 + Len(Modules)
        /\ Apportioned(freeList, used, reserved, boot)
    BY DEF MemoryInv
  <2>2. /\ Whole(freeList, A)
        /\ \A c, d \in DOMAIN used : c # d => Of(used, c) \cap Of(used, d) = {}
        /\ Free(freeList) \cap InUse(used) = {}
        /\ Free(freeList) \cup InUse(used) = Given(boot) \ reserved
    BY <2>1 DEF Apportioned
  <2>3. free = Free(freeList)
    BY DEF Extent, Free, Room, Span
  <2>4. \A d \in DOMAIN used : Block(d) = Of(used, d)
    BY DEF Block, Of, Span
  <2>5. taken = InUse(used)
    BY <2>4 DEF InUse
  <2>6. freeList.FreeMemory = Cardinality(free)
    BY <2>2, <2>3 DEF Whole, Free
  <2>7. /\ \A a, b \in A : a < b => a + freeList.entry[a].size < b
        /\ \A a \in A : freeList.entry[a].size >= HEADER
    BY <2>2 DEF Whole, Apart
  <2>8. \A c, d \in DOMAIN used : c # d => Block(c) \cap Block(d) = {}
    BY <2>2, <2>4
  <2>9. boot >= 2 => Given(boot) = Memory
    BY <2>1 DEF Given
  <2> HIDE DEF free, taken
  <2>10. /\ free \cap taken = {}
         /\ (free \cup taken) \cap reserved = {}
         /\ boot >= 2 => free \cup taken = Memory \ reserved
    BY <2>2, <2>3, <2>5, <2>9
  <2> QED BY <2>6, <2>7, <2>8, <2>10 DEF Partition, free, taken
<1> QED BY <1>1, <1>2, MemoryInvHolds, PTL

-----------------------------------------------------------------------------
(* A list that is linked both ways is met whole, and each entry once.       *)
Chained(first, next, prev, A) ==
    /\ Stays(first, next, A)
    /\ first # NIL => prev[first] = NIL
    /\ \A a \in A : next[a] # NIL => prev[next[a]] = a

(* A walk that has met no end before has met its first so many entries.     *)
LEMMA WalkBack ==
    ASSUME NEW first, NEW next, NEW n \in Nat, NEW at, Walks(at, first, next, n)
    PROVE  \A i, j \in 1 .. n + 1 : i <= j /\ at[j] # NIL => at[i] # NIL
<1> SUFFICES ASSUME NEW i \in 1 .. n + 1
             PROVE  \A j \in 1 .. n + 1 : i <= j /\ at[j] # NIL => at[i] # NIL
  OBVIOUS
<1> DEFINE T == { j \in 1 .. n + 1 : i <= j /\ at[j] # NIL /\ at[i] = NIL }
<1>1. \A j \in 1 .. n : at[j + 1] = Step(at, next, j)
  BY WalkIs
<1>2. ASSUME T # {} PROVE FALSE
  <2>1. PICK m \in T : \A y \in T : m <= y
    <3>1. T \in SUBSET Nat
      OBVIOUS
    <3> HIDE DEF T
    <3> QED BY <1>2, <3>1, LeastNat
  <2>2. m \in 1 .. n + 1 /\ i <= m /\ at[m] # NIL /\ at[i] = NIL
    OBVIOUS
  <2> DEFINE k == m - 1
  <2>3. k \in 1 .. n /\ k + 1 = m /\ k \in 1 .. n + 1 /\ ~(m <= k) /\ i <= k
    BY <2>2
  <2>4. k \notin T
    BY <2>1, <2>3
  <2>5. at[k] = NIL
    BY <2>2, <2>3, <2>4
  <2> HIDE DEF k
  <2>6. at[m] = Step(at, next, k)
    BY <1>1, <2>3
  <2> QED BY <2>2, <2>5, <2>6 DEF Step
<1> QED BY <1>2

BackTo(at, prev, A, i) ==
    /\ at[i] \in A
    /\ i = 1 => prev[at[i]] = NIL
    /\ i # 1 => prev[at[i]] = at[i - 1] /\ at[i - 1] # NIL
LEMMA WalkOnce ==
    ASSUME NEW first, NEW next, NEW n \in Nat, NEW at, Walks(at, first, next, n),
           NEW prev, NEW A, Chained(first, next, prev, A)
    PROVE  /\ \A i \in 1 .. n + 1 : at[i] # NIL => BackTo(at, prev, A, i)
           /\ \A i, j \in 1 .. n + 1 : i < j /\ at[j] # NIL => at[i] # at[j]
<1>0. /\ Stays(first, next, A)
      /\ first # NIL => prev[first] = NIL
      /\ \A a \in A : next[a] # NIL => prev[next[a]] = a
  BY DEF Chained
<1>1. at[1] = first /\ \A j \in 1 .. n : at[j + 1] = Step(at, next, j)
  BY WalkIs
<1>2. ASSUME NEW i \in 1 .. n + 1, at[i] # NIL
      PROVE  /\ at[i] \in A
             /\ i = 1 => prev[at[i]] = NIL
             /\ i # 1 => prev[at[i]] = at[i - 1] /\ at[i - 1] # NIL
  <2>1. at[i] \in A
    BY <1>0, <1>2, WalkStays DEF Within
  <2>2. CASE i = 1
    BY <1>0, <1>1, <1>2, <2>1, <2>2
  <2>3. CASE i # 1
    <3> DEFINE k == i - 1
    <3>1. k \in 1 .. n /\ k + 1 = i /\ k \in 1 .. n + 1
      BY <2>3
    <3> HIDE DEF k
    <3>2. at[i] = Step(at, next, k)
      BY <1>1, <3>1
    <3>3. at[k] # NIL /\ at[i] = next[at[k]]
      BY <1>2, <3>2 DEF Step
    <3>4. at[k] \in A
      BY <1>0, <3>1, <3>3, WalkStays DEF Within
    <3>5. prev[at[i]] = at[k]
      BY <1>0, <1>2, <3>3, <3>4
    <3> QED BY <2>1, <2>3, <3>3, <3>5 DEF k
  <2> QED BY <2>2, <2>3
<1>3. ASSUME NEW i \in 1 .. n + 1, NEW j \in 1 .. n + 1, i < j, at[j] # NIL, at[i] = at[j]
      PROVE  FALSE
  <2> DEFINE T == { x \in 1 .. n + 1 : \E y \in 1 .. n + 1 : x < y /\ at[y] # NIL /\ at[x] = at[y] }
  <2>1. T # {}
    BY <1>3
  <2>2. PICK m \in T : \A y \in T : m <= y
    <3>1. T \in SUBSET Nat
      OBVIOUS
    <3> HIDE DEF T
    <3> QED BY <2>1, <3>1, LeastNat
  <2>3. PICK y \in 1 .. n + 1 : m < y /\ at[y] # NIL /\ at[m] = at[y]
    OBVIOUS
  <2>4. m \in 1 .. n + 1 /\ y # 1
    BY <2>3
  <2>5. prev[at[y]] = at[y - 1] /\ at[y - 1] # NIL
    BY <1>2, <2>3, <2>4
  <2>6. CASE m = 1
    BY <1>2, <2>3, <2>4, <2>5, <2>6
  <2>7. CASE m # 1
    <3>1. prev[at[m]] = at[m - 1]
      BY <1>2, <2>3, <2>4, <2>7
    <3> DEFINE k == m - 1
               z == y - 1
    <3>2. k \in 1 .. n + 1 /\ z \in 1 .. n + 1 /\ k < z /\ ~(m <= k)
      BY <2>3, <2>4, <2>7
    <3>3. at[z] # NIL /\ at[k] = at[z]
      BY <2>3, <2>5, <3>1
    <3> HIDE DEF k, z
    <3>4. k \in T
      BY <3>2, <3>3
    <3> QED BY <2>2, <3>2, <3>4
  <2> QED BY <2>6, <2>7
<1> QED BY <1>2, <1>3 DEF BackTo

(* The walk comes to an end, by as many steps as there are entries.         *)
LEMMA WalkEnds ==
    ASSUME NEW first, NEW next, NEW n \in Nat, NEW at, Walks(at, first, next, n),
           NEW prev, NEW A, Chained(first, next, prev, A), IsFiniteSet(A), Cardinality(A) = n
    PROVE  at[n + 1] = NIL
<1> SUFFICES ASSUME at[n + 1] # NIL PROVE FALSE
  OBVIOUS
<1>1. \A i \in 1 .. n + 1 : at[i] # NIL
  <2>1. \A i \in 1 .. n + 1 : n + 1 \in 1 .. n + 1 /\ i <= n + 1
    OBVIOUS
  <2>2. \A i, j \in 1 .. n + 1 : i <= j /\ at[j] # NIL => at[i] # NIL
    BY WalkBack
  <2> QED BY <2>1, <2>2
<1>2. \A i \in 1 .. n + 1 : at[i] \in A
  BY <1>1, WalkOnce DEF BackTo
<1>3. \A i, j \in 1 .. n + 1 : i # j => at[i] # at[j]
  <2>1. \A i, j \in 1 .. n + 1 : i < j /\ at[j] # NIL => at[i] # at[j]
    BY WalkOnce
  <2>2. \A i, j \in 1 .. n + 1 : i < j => at[i] # at[j]
    BY <1>1, <2>1
  <2>3. \A i, j \in 1 .. n + 1 : i # j => i < j \/ j < i
    OBVIOUS
  <2> QED BY <2>2, <2>3
<1> DEFINE D == 1 .. n + 1
           f == [i \in D |-> at[i]]
<1>4. IsFiniteSet(D) /\ Cardinality(D) = n + 1
  <2>1. 1 \in Int /\ n + 1 \in Int /\ ~(1 > n + 1) /\ (n + 1) - 1 + 1 = n + 1
    OBVIOUS
  <2> QED BY <2>1, FS_Interval
<1>5. f \in [D -> A]
  BY <1>2
<1>6. Cardinality(D) > Cardinality(A)
  BY <1>4
<1> HIDE DEF D
<1>7. \E i, j \in D : i # j /\ f[i] = f[j]
  <2> HIDE DEF f
  <2> QED BY <1>4, <1>5, <1>6, FS_PigeonHole, Zenon
<1> QED BY <1>3, <1>7 DEF D

(* A list that is linked both ways, read from its first entry on.           *)
LEMMA ListIs ==
    ASSUME NEW first, NEW next, NEW prev, NEW A, Chained(first, next, prev, A),
           IsFiniteSet(A), NEW n \in Nat, Cardinality(A) = n,
           NEW list, list = Follow(first, next, n)
    PROVE  /\ \A i \in DOMAIN list : i \in 1 .. n /\ list[i] \in A
           /\ \A i \in DOMAIN list : prev[list[i]] = IF i = 1 THEN NIL ELSE list[i - 1]
           /\ \A i \in DOMAIN list : i # 1 => i - 1 \in DOMAIN list /\ list[i] = next[list[i - 1]]
           /\ \A i \in DOMAIN list : next[list[i]] # NIL =>
                                       i + 1 \in DOMAIN list /\ list[i + 1] = next[list[i]]
           /\ first # NIL => 1 \in DOMAIN list /\ list[1] = first
<1>1. PICK at : /\ Walks(at, first, next, n)
                /\ Follow(first, next, n) = [i \in { j \in 1 .. n : at[j] # NIL } |-> at[i]]
  BY FollowIs
<1>2. Walks(at, first, next, n)
  BY <1>1
<1>3. DOMAIN list = { j \in 1 .. n : at[j] # NIL } /\ \A i \in DOMAIN list : list[i] = at[i]
  BY <1>1
<1>4. at[1] = first /\ \A i \in 1 .. n : at[i + 1] = Step(at, next, i)
  BY <1>2, WalkIs
<1>5. at[n + 1] = NIL
  BY <1>2, WalkEnds
<1>6. \A i \in 1 .. n + 1 : at[i] # NIL => BackTo(at, prev, A, i)
  BY <1>2, WalkOnce
<1>7. ASSUME NEW i \in DOMAIN list
      PROVE  /\ i \in 1 .. n /\ list[i] \in A
             /\ prev[list[i]] = IF i = 1 THEN NIL ELSE list[i - 1]
             /\ i # 1 => i - 1 \in DOMAIN list /\ list[i] = next[list[i - 1]]
             /\ next[list[i]] # NIL => i + 1 \in DOMAIN list /\ list[i + 1] = next[list[i]]
  <2>1. i \in 1 .. n /\ at[i] # NIL /\ list[i] = at[i] /\ i \in 1 .. n + 1
    BY <1>3
  <2>2. at[i] \in A
    BY <1>6, <2>1 DEF BackTo
  <2>3. i = 1 => prev[at[i]] = NIL
    BY <1>6, <2>1 DEF BackTo
  <2>4. ASSUME i # 1
        PROVE  /\ i - 1 \in DOMAIN list /\ list[i] = next[list[i - 1]]
               /\ prev[list[i]] = list[i - 1]
    <3> DEFINE k == i - 1
    <3>1. k \in 1 .. n /\ k + 1 = i
      BY <2>1, <2>4
    <3>2. prev[at[i]] = at[k] /\ at[k] # NIL
      BY <1>6, <2>1, <2>4 DEF BackTo
    <3> HIDE DEF k
    <3>3. at[i] = Step(at, next, k)
      BY <1>4, <3>1
    <3>4. k \in DOMAIN list /\ list[k] = at[k] /\ at[i] = next[at[k]]
      BY <1>3, <3>1, <3>2, <3>3 DEF Step
    <3> QED BY <2>1, <3>2, <3>4 DEF k
  <2>5. ASSUME next[list[i]] # NIL PROVE i + 1 \in DOMAIN list /\ list[i + 1] = next[list[i]]
    <3> DEFINE k == i + 1
    <3>1. at[k] = next[list[i]]
      BY <1>4, <2>1 DEF Step
    <3>2. i # n
      BY <1>5, <2>5, <3>1
    <3>3. k \in 1 .. n
      BY <2>1, <3>2
    <3> HIDE DEF k
    <3>4. k \in DOMAIN list /\ list[k] = at[k]
      BY <1>3, <2>5, <3>1, <3>3
    <3> QED BY <3>1, <3>4 DEF k
  <2> QED BY <2>1, <2>2, <2>3, <2>4, <2>5
<1>8. ASSUME first # NIL PROVE 1 \in DOMAIN list /\ list[1] = first
  <2>1. n # 0
    <3>1. first \in A
      BY <1>8 DEF Chained, Stays, Within
    <3>2. A # {}
      BY <3>1
    <3> QED BY <3>2, FS_EmptySet
  <2>2. 1 \in 1 .. n
    BY <2>1
  <2> QED BY <1>3, <1>4, <1>8, <2>2
<1> QED BY <1>7, <1>8

(* The list of a size has the entries of that size, each after the one that *)
(* it is linked back to.                                                    *)
LEMMA SizeListHas ==
    ASSUME NEW A, NEW h, Whole(h, A), NEW t \in Tables, NEW list, list = SizeList(h, t)
    PROVE  /\ { list[i] : i \in DOMAIN list } = { a \in A : KLgetFastLookupToUse(h.entry[a].size) = t }
           /\ \A i \in DOMAIN list :
                /\ h.entry[list[i]].lookupsize = t
                /\ h.entry[list[i]].prevsize = IF i = 1 THEN NIL ELSE list[i - 1]
<1>1. Addresses(h) = A /\ Listed(h, A) /\ Met(h, A)
  BY AddressesAre DEF Whole, Linked
<1> DEFINE n == Cardinality(A)
           first == h.FirstFreeSizeEntry[t]
           next == [a \in A |-> h.entry[a].nextsize]
           prev == [a \in A |-> h.entry[a].prevsize]
           L == { a \in A : h.entry[a].lookupsize = t }
<1>2. n \in Nat /\ IsFiniteSet(A)
  BY EntriesAreFinite
<1>3. list = Follow(first, next, n)
  BY <1>1 DEF SizeList
<1>4. Chained(first, next, prev, A)
  <2>1. Stays(first, next, A)
    BY <1>1 DEF Listed, Stays, Within
  <2>2. first # NIL => prev[first] = NIL
    BY <1>1 DEF Listed
  <2>3. \A a \in A : next[a] # NIL => prev[next[a]] = a
    BY <1>1 DEF Listed
  <2> QED BY <2>1, <2>2, <2>3 DEF Chained
<1>5. Stays(first, next, L)
  <2>1. first # NIL => first \in L
    BY <1>1 DEF Listed
  <2>2. \A a \in L : next[a] # NIL => next[a] \in L
    BY <1>1 DEF Listed
  <2> HIDE DEF first, next, L
  <2> QED BY <2>1, <2>2 DEF Stays, Within
<1>6. \A a \in A : next[a] = h.entry[a].nextsize /\ prev[a] = h.entry[a].prevsize
  OBVIOUS
<1> HIDE DEF n, next, prev
<1>7. /\ \A i \in DOMAIN list : i \in 1 .. n /\ list[i] \in A
      /\ \A i \in DOMAIN list : prev[list[i]] = IF i = 1 THEN NIL ELSE list[i - 1]
      /\ \A i \in DOMAIN list : next[list[i]] # NIL =>
                                  i + 1 \in DOMAIN list /\ list[i + 1] = next[list[i]]
      /\ first # NIL => 1 \in DOMAIN list /\ list[1] = first
  <2> HIDE DEF first
  <2>1. Cardinality(A) = n
    BY DEF n
  <2> QED BY <1>2, <1>3, <1>4, <2>1, ListIs
<1>8. \A i \in DOMAIN list : list[i] \in L
  <2> HIDE DEF first
  <2>1. PICK at : /\ Walks(at, first, next, n)
                  /\ Follow(first, next, n) = [i \in { j \in 1 .. n : at[j] # NIL } |-> at[i]]
    BY <1>2, FollowIs
  <2>2. DOMAIN list = { j \in 1 .. n : at[j] # NIL } /\ \A i \in DOMAIN list : list[i] = at[i]
    BY <1>3, <2>1
  <2> HIDE DEF L
  <2>3. Walks(at, first, next, n)
    BY <2>1
  <2>4. \A i \in 1 .. n + 1 : Within(at[i], L)
    BY <1>2, <1>5, <2>3, WalkStays
  <2>5. \A i \in 1 .. n : i \in 1 .. n + 1
    BY <1>2
  <2> QED BY <2>2, <2>4, <2>5 DEF Within
<1> DEFINE S == { list[i] : i \in DOMAIN list }
<1>9. S \subseteq L /\ S \in SUBSET A
  BY <1>8
<1>10. L \subseteq S
  <2>1. Closed(h, S)
    <3> SUFFICES ASSUME NEW b \in S, h.entry[b].nextsize # NIL PROVE h.entry[b].nextsize \in S
      BY DEF Closed
    <3>1. PICK i \in DOMAIN list : b = list[i]
      OBVIOUS
    <3>2. next[list[i]] = h.entry[b].nextsize
      BY <1>6, <1>7, <3>1
    <3>3. i + 1 \in DOMAIN list /\ list[i + 1] = h.entry[b].nextsize
      BY <1>7, <3>2
    <3> QED BY <3>3
  <2>2. Begun(h, t, S)
    <3> SUFFICES ASSUME first # NIL PROVE first \in S
      BY DEF Begun
    <3>1. 1 \in DOMAIN list /\ list[1] = first
      BY <1>7
    <3> QED BY <3>1
  <2> HIDE DEF S
  <2>3. \A a \in A : h.entry[a].lookupsize = t => a \in S
    BY <1>1, <1>9, <2>1, <2>2 DEF Met
  <2> QED BY <2>3
<1>11. L = { a \in A : KLgetFastLookupToUse(h.entry[a].size) = t }
  BY <1>1 DEF Listed
<1>12. S = { a \in A : KLgetFastLookupToUse(h.entry[a].size) = t }
  <2> HIDE DEF S, L
  <2> QED BY <1>9, <1>10, <1>11
<1>13. \A i \in DOMAIN list : /\ h.entry[list[i]].lookupsize = t
                              /\ h.entry[list[i]].prevsize = IF i = 1 THEN NIL ELSE list[i - 1]
  <2> SUFFICES ASSUME NEW i \in DOMAIN list
               PROVE  /\ h.entry[list[i]].lookupsize = t
                      /\ h.entry[list[i]].prevsize = IF i = 1 THEN NIL ELSE list[i - 1]
    OBVIOUS
  <2>1. list[i] \in A /\ prev[list[i]] = IF i = 1 THEN NIL ELSE list[i - 1]
    BY <1>7
  <2>2. prev[list[i]] = h.entry[list[i]].prevsize
    BY <1>6, <2>1 DEF BackTo
  <2> QED BY <1>8, <2>1, <2>2
<1> QED BY <1>12, <1>13

(* The list of addresses has every entry, in order.                         *)
InLine(h, A, list) ==
    /\ { list[i] : i \in DOMAIN list } = A
    /\ \A i \in DOMAIN list : h.entry[list[i]].prev = IF i = 1 THEN NIL ELSE list[i - 1]
    /\ \A i, j \in DOMAIN list : i < j => list[i] < list[j]
LEMMA AddressListHas ==
    ASSUME NEW A, NEW h, Whole(h, A), NEW n, n = Cardinality(A),
           NEW next, next = [a \in A |-> h.entry[a].next],
           NEW list, list = Follow(h.FirstFreeEntry, next, n)
    PROVE  InLine(h, A, list)
<1>1. InOrder(h, A) /\ A \subseteq Nat
  BY DEF Whole, Linked
<1> DEFINE first == h.FirstFreeEntry
           prev == [a \in A |-> h.entry[a].prev]
<1>2. n \in Nat /\ IsFiniteSet(A) /\ Cardinality(A) = n
  BY EntriesAreFinite
<1>3. /\ Leads(A, first)
      /\ \A a \in A : Follows(A, a, next[a])
      /\ \A a \in A : Precedes(A, a, prev[a])
  BY <1>1 DEF InOrder
<1> HIDE DEF first, prev
<1>4. first # NIL => first \in A /\ \A b \in A : first <= b
  BY <1>3 DEF Leads
<1>5. \A a \in A : next[a] # NIL => next[a] \in A /\ a < next[a] /\ \A b \in A : b <= a \/ next[a] <= b
  BY <1>3 DEF Follows
<1>6. \A a \in A : prev[a] # NIL => prev[a] \in A /\ prev[a] < a /\ \A b \in A : b <= prev[a] \/ a <= b
  BY <1>3 DEF Precedes
<1>7. Chained(first, next, prev, A)
  <2>1. Stays(first, next, A)
    BY <1>4, <1>5 DEF Stays, Within
  <2>2. ASSUME first # NIL PROVE prev[first] = NIL
    <3>1. first \in A /\ first \in Nat
      BY <1>1, <1>4, <2>2
    <3>2. ASSUME prev[first] # NIL PROVE FALSE
      <4>1. prev[first] \in A /\ prev[first] < first /\ first <= prev[first] /\ prev[first] \in Nat
        BY <1>1, <1>4, <1>6, <2>2, <3>1, <3>2
      <4> QED BY <3>1, <4>1
    <3> QED BY <3>2
  <2>3. ASSUME NEW a \in A, next[a] # NIL PROVE prev[next[a]] = a
    <3> DEFINE b == next[a]
               p == prev[b]
    <3>1. b \in A /\ a < b /\ a \in Nat /\ b \in Nat
      BY <1>1, <1>5, <2>3
    <3>2. p # NIL
      <4>1. p = NIL => \A c \in A : b <= c
        BY <1>3, <3>1 DEF Precedes
      <4> HIDE DEF b, p
      <4> QED BY <3>1, <4>1
    <3>3. p \in A /\ p < b /\ (a <= p \/ b <= a)
      BY <1>6, <3>1, <3>2
    <3>4. p <= a \/ b <= p
      BY <1>5, <2>3, <3>3
    <3> HIDE DEF b, p
    <3>5. p \in Nat
      BY <1>1, <3>3
    <3>6. p = a
      BY <3>1, <3>3, <3>4, <3>5
    <3> QED BY <3>6 DEF b, p
  <2> QED BY <2>1, <2>2, <2>3 DEF Chained
<1>8. list = Follow(first, next, n)
  BY DEF first
<1>9. /\ \A i \in DOMAIN list : i \in 1 .. n /\ list[i] \in A
      /\ \A i \in DOMAIN list : prev[list[i]] = IF i = 1 THEN NIL ELSE list[i - 1]
      /\ \A i \in DOMAIN list : i # 1 => i - 1 \in DOMAIN list /\ list[i] = next[list[i - 1]]
      /\ \A i \in DOMAIN list : next[list[i]] # NIL =>
                                  i + 1 \in DOMAIN list /\ list[i + 1] = next[list[i]]
      /\ first # NIL => 1 \in DOMAIN list /\ list[1] = first
  BY <1>2, <1>7, <1>8, ListIs
<1> DEFINE S == { list[i] : i \in DOMAIN list }
<1>10. S \subseteq A
  BY <1>9
<1>11. ASSUME NEW i \in DOMAIN list, next[list[i]] # NIL PROVE next[list[i]] \in S
  <2>1. i + 1 \in DOMAIN list /\ list[i + 1] = next[list[i]]
    BY <1>9, <1>11
  <2> QED BY <2>1
<1>12. \A b \in S : next[b] # NIL => next[b] \in S
  <2> SUFFICES ASSUME NEW b \in S, next[b] # NIL PROVE next[b] \in S
    OBVIOUS
  <2>1. PICK i \in DOMAIN list : b = list[i]
    OBVIOUS
  <2> HIDE DEF S
  <2> QED BY <1>11, <2>1
<1>13. first # NIL => first \in S
  <2>1. first # NIL => 1 \in DOMAIN list /\ list[1] = first
    BY <1>9
  <2> QED BY <2>1
<1>14. ASSUME A \ S # {} PROVE FALSE
  <2> HIDE DEF S
  <2>1. PICK m \in A \ S : \A y \in A \ S : m <= y
    <3>1. A \ S \in SUBSET Nat
      BY <1>1
    <3> QED BY <1>14, <3>1, LeastNat
  <2>2. m \in A /\ m \notin S /\ m \in Nat
    BY <1>1, <2>1
  <2>3. first # NIL /\ first <= m /\ first \in Nat
    BY <1>1, <1>3, <1>4, <2>2 DEF Leads
  <2> DEFINE p == prev[m]
  <2>4. CASE p = NIL
    <3>1. m <= first
      BY <1>3, <1>4, <2>2, <2>3, <2>4 DEF Precedes
    <3> QED BY <1>13, <2>2, <2>3, <3>1
  <2>5. CASE p # NIL
    <3>1. p \in A /\ p < m /\ p \in Nat /\ \A b \in A : b <= p \/ m <= b
      BY <1>1, <1>6, <2>2, <2>5
    <3>2. p \in S
      BY <2>1, <2>2, <3>1
    <3>3. next[p] # NIL
      <4>1. next[p] = NIL => \A b \in A : b <= p
        BY <1>3, <3>1 DEF Follows
      <4> HIDE DEF p
      <4> QED BY <2>2, <3>1, <4>1
    <3>4. next[p] \in A /\ p < next[p] /\ (m <= p \/ next[p] <= m) /\ next[p] \in Nat
      BY <1>1, <1>5, <2>2, <3>1, <3>3
    <3>5. next[p] <= p \/ m <= next[p]
      BY <3>1, <3>4
    <3>6. next[p] = m
      BY <2>2, <3>1, <3>4, <3>5
    <3> QED BY <1>12, <2>2, <3>2, <3>3, <3>6
  <2> QED BY <2>4, <2>5
<1>15. S = A
  BY <1>10, <1>14
<1>16. \A i \in DOMAIN list : h.entry[list[i]].prev = IF i = 1 THEN NIL ELSE list[i - 1]
  <2>1. \A a \in A : prev[a] = h.entry[a].prev
    BY DEF prev
  <2>2. \A i \in DOMAIN list : list[i] \in A
    BY <1>9
  <2>3. \A i \in DOMAIN list : prev[list[i]] = IF i = 1 THEN NIL ELSE list[i - 1]
    BY <1>9
  <2> SUFFICES ASSUME NEW i \in DOMAIN list
               PROVE  h.entry[list[i]].prev = IF i = 1 THEN NIL ELSE list[i - 1]
    OBVIOUS
  <2>4. h.entry[list[i]].prev = prev[list[i]]
    BY <2>1, <2>2
  <2> QED BY <2>3, <2>4
<1>17. ASSUME NEW i \in DOMAIN list, NEW j \in DOMAIN list, i < j, ~(list[i] < list[j])
       PROVE  FALSE
  <2> DEFINE T == { y \in DOMAIN list : i < y /\ ~(list[i] < list[y]) }
  <2>0. \A y \in DOMAIN list : y \in 1 .. n /\ list[y] \in Nat
    BY <1>1, <1>9
  <2>1. PICK m \in T : \A y \in T : m <= y
    <3>1. \A y \in T : y \in Nat
      BY <2>0
    <3>2. T \in SUBSET Nat /\ T # {}
      BY <1>17, <3>1
    <3> HIDE DEF T
    <3> QED BY <3>2, LeastNat
  <2>2. m \in DOMAIN list /\ i < m /\ ~(list[i] < list[m])
    OBVIOUS
  <2> DEFINE k == m - 1
  <2>3. i \in 1 .. n /\ m \in 1 .. n /\ m # 1
    BY <2>0, <2>2
  <2>4. k \in DOMAIN list /\ list[m] = next[list[k]]
    BY <1>9, <2>2, <2>3
  <2>5. k < m /\ i <= k /\ k \in Nat /\ ~(m <= k)
    BY <2>2, <2>3
  <2>6. next[list[k]] # NIL
    BY <2>0, <2>2, <2>4, FreeListAssumption
  <2>7. list[k] < list[m]
    BY <1>5, <1>9, <2>4, <2>6
  <2> HIDE DEF k
  <2>8. i < k => list[i] < list[k]
    <3>1. k \notin T
      BY <2>1, <2>5
    <3> QED BY <2>4, <3>1
  <2>9. list[i] \in Nat /\ list[k] \in Nat /\ list[m] \in Nat /\ i \in Nat
    BY <2>0, <2>2, <2>3, <2>4
  <2>10. i = k => list[i] = list[k]
    OBVIOUS
  <2> QED BY <2>2, <2>5, <2>7, <2>8, <2>9, <2>10
<1>18. \A i, j \in DOMAIN list : i < j => list[i] < list[j]
  BY <1>17
<1> QED BY <1>15, <1>16, <1>18 DEF InLine

(* The list of addresses meets every entry once and in order, and every     *)
(* entry is in the list of its size, linked both ways (FreelistAlloc.c).    *)
THEOREM MemoryListsAreWhole == MemorySpec => []ListsWhole
<1>1. MemoryInv => ListsWhole
  <2> SUFFICES ASSUME MemoryInv PROVE ListsWhole
    OBVIOUS
  <2> DEFINE A == Addresses(freeList)
             next == [a \in A |-> freeList.entry[a].next]
             n == Cardinality(A)
  <2>1. Whole(freeList, A)
    BY DEF MemoryInv, Apportioned
  <2>2. Chain = Follow(freeList.FirstFreeEntry, next, n)
    BY DEF Chain
  <2> HIDE DEF A
  <2>3. n = Cardinality(A) /\ next = [a \in A |-> freeList.entry[a].next]
    OBVIOUS
  <2> HIDE DEF n, next
  <2>4. /\ { Chain[i] : i \in DOMAIN Chain } = A
        /\ \A i \in DOMAIN Chain :
             freeList.entry[Chain[i]].prev = IF i = 1 THEN NIL ELSE Chain[i - 1]
        /\ \A i, j \in DOMAIN Chain : i < j => Chain[i] < Chain[j]
    <3> DEFINE list == Chain
    <3>1. list = Follow(freeList.FirstFreeEntry, next, n)
      BY <2>2
    <3> HIDE DEF list
    <3>2. InLine(freeList, A, list)
      BY <2>1, <2>3, <3>1, AddressListHas
    <3> QED BY <3>2 DEF InLine, list
  <2>5. ASSUME NEW t \in Tables
        PROVE  LET list == SizeList(freeList, t)
               IN  /\ { list[i] : i \in DOMAIN list } =
                        { a \in A : KLgetFastLookupToUse(freeList.entry[a].size) = t }
                   /\ \A i \in DOMAIN list :
                        /\ freeList.entry[list[i]].lookupsize = t
                        /\ freeList.entry[list[i]].prevsize =
                             IF i = 1 THEN NIL ELSE list[i - 1]
    <3> DEFINE list == SizeList(freeList, t)
    <3>1. list = SizeList(freeList, t)
      OBVIOUS
    <3> HIDE DEF list
    <3>2. /\ { list[i] : i \in DOMAIN list } =
               { a \in A : KLgetFastLookupToUse(freeList.entry[a].size) = t }
          /\ \A i \in DOMAIN list :
               /\ freeList.entry[list[i]].lookupsize = t
               /\ freeList.entry[list[i]].prevsize = IF i = 1 THEN NIL ELSE list[i - 1]
      BY <2>1, <3>1, SizeListHas
    <3> QED BY <3>2 DEF list
  <2>6. MemoryTypeOK
    BY MemoryTypes
  <2> QED BY <2>4, <2>5, <2>6 DEF ListsWhole, A
<1> QED BY <1>1, MemoryInvHolds, PTL

-----------------------------------------------------------------------------
(* What a search finds.                                                     *)
LEMMA LookupGrows ==
    ASSUME NEW s \in Int, NEW z \in Int, s <= z
    PROVE  KLgetFastLookupToUse(s) <= KLgetFastLookupToUse(z)
<1> DEFINE S == { x \in Steps : s >= x }
           Z == { x \in Steps : z >= x }
<1>1. \A x \in Steps : x \in Int
  BY FreeListAssumption
<1>2. S \subseteq Z /\ Z \subseteq Steps
  BY <1>1
<1>3. IsFiniteSet(Z)
  BY <1>2, FS_Subset, FreeListAssumption
<1> HIDE DEF S, Z
<1>4. Cardinality(S) <= Cardinality(Z)
  BY <1>2, <1>3, FS_Subset
<1> QED BY <1>4 DEF KLgetFastLookupToUse, S, Z

(* Two multiples of a number are that number apart.                         *)
LEMMA Multiples ==
    ASSUME NEW q \in Int, NEW r \in Int, NEW n \in Nat \ {0}, q * n < r * n
    PROVE  q * n + n <= r * n
<1>1. q < r
  <2>1. ASSUME r <= q PROVE FALSE
    <3>1. (q - r) * n >= 0
      <4>1. q - r \in Nat
        BY <2>1
      <4> DEFINE d == q - r
      <4>2. d * n \in Nat
        BY <4>1
      <4> QED BY <4>2
    <3>2. q * n = r * n + (q - r) * n
      OBVIOUS
    <3>3. q * n \in Int /\ r * n \in Int /\ (q - r) * n \in Int
      OBVIOUS
    <3> QED BY <3>1, <3>2, <3>3
  <2> QED BY <2>1
<1>2. (r - q - 1) * n >= 0
  <2>1. r - q - 1 \in Nat
    BY <1>1
  <2> DEFINE d == r - q - 1
  <2>2. d * n \in Nat
    BY <2>1
  <2> QED BY <2>2
<1>3. r * n = q * n + n + (r - q - 1) * n
  OBVIOUS
<1>4. q * n \in Int /\ r * n \in Int /\ (r - q - 1) * n \in Int
  OBVIOUS
<1> QED BY <1>2, <1>3, <1>4

(* No aligned address is between.                                           *)
LEMMA AlignLeast ==
    ASSUME NEW b \in Nat, NEW data \in Nat, NEW n \in Nat \ {0}, data % n = 0, b <= data
    PROVE  Align(b, n) = data \/ Align(b, n) + n <= data
<1> DEFINE r == data \div n
           q == (b + n - 1) \div n
           d == q * n
           c == r * n
<1>1. r \in Int /\ data = c
  <2>1. data = n * (data \div n) + (data % n)
    OBVIOUS
  <2>2. r \in Int /\ n * r = r * n
    OBVIOUS
  <2> QED BY <2>1, <2>2
<1>2. q \in Int /\ d <= b + n - 1
  <2>1. b + n - 1 \in Int
    OBVIOUS
  <2> QED BY <2>1, Division
<1>3. Align(b, n) = d
  BY DEF Align
<1>4. q * n < r * n => q * n + n <= r * n
  <2> HIDE DEF q, r
  <2> QED BY <1>1, <1>2, Multiples
<1>5. r * n < q * n => r * n + n <= q * n
  <2> HIDE DEF q, r
  <2> QED BY <1>1, <1>2, Multiples
<1>6. d \in Int /\ c \in Int
  BY <1>1, <1>2
<1>7. (d < c => d + n <= c) /\ (c < d => c + n <= d)
  BY <1>4, <1>5
<1> HIDE DEF d, c
<1> QED BY <1>1, <1>2, <1>3, <1>6, <1>7

(* A block that has a place in an entry has one at the first that is tried. *)
LEMMA FirstPlace ==
    ASSUME NEW a \in Nat, NEW n \in Nat \ {0}, n = 1 \/ n >= HEADER,
           NEW data \in Nat, data % n = 0, data = a \/ data >= a + HEADER
    PROVE  Place(a, n) = data \/ Place(a, n) + HEADER <= data
<1> DEFINE d == Align(a, n)
           e == Align(a + HEADER, n)
<1>1. HEADER \in Nat \ {0} /\ a + HEADER \in Nat /\ a <= data
  BY FreeListAssumption
<1>2. d \in Nat /\ a <= d /\ d < a + n /\ (d = data \/ d + n <= data)
  BY <1>1, AlignIs, AlignLeast
<1>3. data >= a + HEADER => e \in Nat /\ (e = data \/ e + n <= data) /\ e < a + HEADER + n
  <2> DEFINE b == a + HEADER
  <2>1. b \in Nat
    BY <1>1
  <2> HIDE DEF b
  <2>2. b <= data => Align(b, n) \in Nat /\ Align(b, n) < b + n /\ (Align(b, n) = data \/ Align(b, n) + n <= data)
    BY <2>1, AlignIs, AlignLeast
  <2> QED BY <1>1, <2>2 DEF b
<1>4. Place(a, n) = IF d # a /\ d - a < HEADER THEN e ELSE d
  BY DEF Place
<1> HIDE DEF d, e
<1>5. CASE n = 1
  <2>1. d = a
    BY <1>2, <1>5
  <2> QED BY <1>1, <1>4, <2>1
<1>6. CASE n # 1
  <2>1. n >= HEADER
    BY <1>6
  <2>2. CASE d # a /\ d - a < HEADER
    <3>1. data # a
      BY <1>2, <2>2
    <3> QED BY <1>1, <1>3, <1>4, <2>1, <2>2, <3>1
  <2>3. CASE ~(d # a /\ d - a < HEADER)
    BY <1>1, <1>2, <1>4, <2>1, <2>3
  <2> QED BY <2>2, <2>3
<1> QED BY <1>5, <1>6

(* A block that has a place in an entry fits in it.                         *)
LEMMA FitsFirst ==
    ASSUME NEW A, NEW h, Whole(h, A), NEW a \in A, NEW size \in Nat,
           NEW n \in Nat \ {0}, n = 1 \/ n >= HEADER,
           NEW data \in Nat, data % n = 0, data = a \/ data >= a + HEADER,
           NEW left, left = Left(h, a, data, size), left = 0 \/ left >= HEADER
    PROVE  Fits(h, a, size, n) /\ h.entry[a].size >= size
<1> DEFINE p == Place(a, n)
           z == h.entry[a].size
<1>1. a \in Nat /\ z \in Int /\ HEADER \in Nat \ {0}
  BY SizeIs, FreeListAssumption DEF Whole
<1>2. p \in Nat /\ (p = data \/ p + HEADER <= data)
  BY <1>1, PlaceIs, FirstPlace
<1>3. left = a + z - (data + size)
  BY DEF Left
<1> DEFINE l == Left(h, a, p, size)
<1>4. l = a + z - (p + size)
  BY DEF Left
<1>5. Fits(h, a, size, n) <=> l = 0 \/ l >= HEADER
  BY DEF Fits
<1> HIDE DEF p, z, l
<1>6. l = left + (data - p) /\ left \in Int
  BY <1>1, <1>2, <1>3, <1>4
<1>7. l = 0 \/ l >= HEADER
  BY <1>1, <1>2, <1>6
<1>8. z >= size
  BY <1>1, <1>3, <1>6
<1> QED BY <1>5, <1>7, <1>8 DEF z

(* A search meets every entry that the block fits in.                       *)
LEMMA SearchIs ==
    ASSUME NEW A, NEW h, Whole(h, A), NEW request \in Nat, NEW n \in Nat \ {0},
           NEW a \in A, Fits(h, a, AdjustSize(request), n), h.entry[a].size >= AdjustSize(request)
    PROVE  MemAllocAlign(h, request, n).data # NIL
<1> DEFINE size == AdjustSize(request)
           tables == { t \in Tables : t >= FirstTable(size) /\ Choice(h, t, size, n) # NIL }
           c == Choice(h, Least(tables), size, n)
           data == Place(c, n)
           allocated == MemAllocAlign(h, request, n)
<1>1. allocated = IF tables = {} THEN [heap |-> h, data |-> NIL]
                  ELSE [heap |-> Carve(h, c, data, size), data |-> data]
  BY Zenon DEF MemAllocAlign
<1>2. size \in Nat
  BY AdjustedIs
<1> DEFINE z == h.entry[a].size
           t == KLgetFastLookupToUse(z)
<1>3. z \in Int
  BY SizeIs DEF Whole
<1>4. t \in Tables /\ t >= FirstTable(size)
  <2>1. t \in Tables /\ KLgetFastLookupToUse(size) \in Tables
    BY <1>2, <1>3, TableIs
  <2> HIDE DEF z, size
  <2>2. size <= z
    BY <1>2, <1>3 DEF z, size
  <2>3. KLgetFastLookupToUse(size) <= t
    BY <1>2, <1>3, <2>2, LookupGrows
  <2>4. t \in Int /\ KLgetFastLookupToUse(size) \in Int
    BY <2>1, TablesAre
  <2> QED BY <2>1, <2>3, <2>4 DEF FirstTable
<1>5. Choice(h, t, size, n) # NIL
  <2> HIDE DEF size
  <2>1. Fits(h, a, size, n)
    BY DEF size
  <2> DEFINE list == SizeList(h, t)
             S == { list[i] : i \in DOMAIN list }
  <2>2. S = { b \in A : KLgetFastLookupToUse(h.entry[b].size) = t }
    <3> HIDE DEF t
    <3>1. list = SizeList(h, t)
      OBVIOUS
    <3> HIDE DEF list
    <3> QED BY <1>4, <3>1, SizeListHas
  <2>3. a \in S
    BY <2>2
  <2> HIDE DEF t
  <2>4. \A b \in S : Fits(h, b, size, n) => Choice(h, t, size, n) # NIL
    BY <1>2, <1>4, ChoiceIs, Zenon
  <2> QED BY <2>1, <2>3, <2>4
<1> HIDE DEF t
<1>6. t \in tables
  BY <1>4, <1>5
<1>7. Least(tables) \in tables
  <2>1. tables \in SUBSET Nat /\ tables # {}
    BY <1>6, TablesAre DEF Tables
  <2> HIDE DEF tables
  <2> QED BY <2>1, LeastIs
<1>8. c \in A
  <2>1. Least(tables) \in Tables /\ c # NIL
    BY <1>7
  <2> HIDE DEF tables, size
  <2> QED BY <1>2, <2>1, ChoiceIs
<1> HIDE DEF c, tables, size
<1>9. data \in Nat
  BY <1>8, PlaceIs DEF Whole
<1> HIDE DEF data, allocated
<1>10. allocated.data = data
  BY <1>1, <1>6
<1> QED BY <1>9, <1>10, FreeListAssumption DEF allocated

(* An allocation fails only when no entry could give the block              *)
(* (CKmemAlloc, CKmemAllocAlign).                                           *)
THEOREM MemoryFailsOnlyWhenFull == MemorySpec => []FailsOnlyWhenFull
<1>1. MemoryInv => FailsOnlyWhenFull
  <2> SUFFICES ASSUME MemoryInv, NEW request \in Sizes, NEW n \in Alignments \cup {1, PAGESIZE},
                      n = 1 \/ n >= HEADER, Possible(AdjustSize(request), n)
               PROVE  MemAllocAlign(freeList, request, n).data # NIL
    BY DEF FailsOnlyWhenFull
  <2> DEFINE A == Addresses(freeList)
             size == AdjustSize(request)
  <2>1. Whole(freeList, A)
    BY DEF MemoryInv, Apportioned
  <2>2. request \in Nat /\ n \in Nat \ {0}
    BY CKMemoryAssumption
  <2>3. size \in Nat /\ size >= HEADER
    BY <2>2, AdjustedIs
  <2>4. PICK a \in A : \E data \in Extent(a) :
          /\ data % n = 0
          /\ data = a \/ data - a >= HEADER
          /\ Left(freeList, a, data, size) = 0 \/ Left(freeList, a, data, size) >= HEADER
    BY DEF Possible
  <2>5. PICK data \in Extent(a) :
          /\ data % n = 0
          /\ data = a \/ data - a >= HEADER
          /\ Left(freeList, a, data, size) = 0 \/ Left(freeList, a, data, size) >= HEADER
    BY <2>4
  <2> HIDE DEF A
  <2>6. a \in Nat /\ freeList.entry[a].size \in Int
    BY <2>1, SizeIs DEF Whole
  <2>7. data \in Nat /\ (data = a \/ data >= a + HEADER)
    BY <2>5, <2>6, FreeListAssumption DEF Extent
  <2> DEFINE left == Left(freeList, a, data, size)
  <2>8. left = 0 \/ left >= HEADER
    BY <2>5
  <2>9. left = Left(freeList, a, data, size)
    OBVIOUS
  <2>10. data % n = 0
    BY <2>5
  <2> HIDE DEF left, size
  <2>11. Fits(freeList, a, size, n) /\ freeList.entry[a].size >= size
    BY <2>1, <2>2, <2>3, <2>7, <2>8, <2>9, <2>10, FitsFirst
  <2> QED BY <2>1, <2>2, <2>11, SearchIs DEF size
<1> QED BY <1>1, MemoryInvHolds, PTL

-----------------------------------------------------------------------------
(* The priority heap.                                                      *)

USE PriHeapAssumption, TimeWidthAssumption

-----------------------------------------------------------------------------
(* The circular comparison, for every width of the words.                  *)

(* The difference of two words, without the modulus.                       *)
LEMMA MinusCases ==
    ASSUME NEW x \in TIME, NEW y \in TIME
    PROVE  Minus(x, y) = IF x >= y THEN x - y ELSE x - y + TimeWidth
<1>1. CASE x >= y
  <2>1. x - y \in 0 .. TimeWidth - 1
    BY <1>1 DEF TIME
  <2>2. (x - y) % TimeWidth = x - y
    BY <2>1
  <2> QED BY <1>1, <2>2 DEF Minus
<1>2. CASE ~(x >= y)
  <2>1. x - y + TimeWidth \in 0 .. TimeWidth - 1
    BY <1>2 DEF TIME
  <2> DEFINE z == x - y
             q == z \div TimeWidth
  <2>2. z \in Int /\ z < 0 /\ z > -TimeWidth
    BY <1>2 DEF TIME
  <2> HIDE DEF z
  <2>3. q \in Int /\ z % TimeWidth \in 0 .. TimeWidth - 1 /\ z = TimeWidth * q + (z % TimeWidth)
    BY <2>2
  <2> HIDE DEF q
  <2>4. q < 0
    <3>1. q >= 0 => TimeWidth * q >= 0
      BY <2>3
    <3> QED BY <2>2, <2>3, <3>1
  <2>5. q > -2
    <3>1. q <= -2 => TimeWidth * q <= TimeWidth * (-2)
      BY <2>3
    <3> QED BY <2>2, <2>3, <3>1
  <2>6. TimeWidth * q = -TimeWidth
    BY <2>3, <2>4, <2>5
  <2>7. z % TimeWidth = z + TimeWidth
    BY <2>2, <2>3, <2>6
  <2> QED BY <1>2, <2>7 DEF Minus, z
<1> QED BY <1>1, <1>2

(* On times within half a turn CLSE is a total order and CLESS its strict  *)
(* part, also across the wrap of the circle.                               *)
THEOREM CircularOrder ==
    ASSUME NEW T \in SUBSET TIME, WithinHalfTurn(T)
    PROVE  \A s, t, u \in T :
             /\ CLSE(s, t) \/ CLSE(t, s)
             /\ CLESS(s, t) <=> ~CLSE(t, s)
             /\ CLSE(s, t) /\ CLSE(t, u) => CLSE(s, u)
             /\ CLSE(s, t) /\ CLSE(t, s) => s = t
<1> PICK base \in TIME : \A t \in T : 2 * Minus(t, base) < TimeWidth
  BY DEF WithinHalfTurn
<1> DEFINE off(t) == Minus(t, base)
<1>1. \A t \in T : off(t) \in Nat /\ 2 * off(t) < TimeWidth
  BY MinusCases DEF TIME
<1>2. \A s, t \in T : Minus(s, t) = IF off(s) >= off(t) THEN off(s) - off(t)
                                    ELSE off(s) - off(t) + TimeWidth
  <2> TAKE s, t \in T
  <2>1. s \in Nat /\ t \in Nat /\ base \in Nat
    BY DEF TIME
  <2>2. off(s) = IF s >= base THEN s - base ELSE s - base + TimeWidth
    BY MinusCases
  <2>3. off(t) = IF t >= base THEN t - base ELSE t - base + TimeWidth
    BY MinusCases
  <2>4. Minus(s, t) = IF s >= t THEN s - t ELSE s - t + TimeWidth
    BY MinusCases
  <2>5. s < TimeWidth /\ t < TimeWidth /\ base < TimeWidth
    BY DEF TIME
  <2> HIDE DEF off
  <2> QED BY <2>1, <2>2, <2>3, <2>4, <2>5
<1>3. \A s, t \in T : off(s) = off(t) => s = t
  BY MinusCases DEF TIME
<1> HIDE DEF off
<1>4. \A s, t \in T : CLESS(s, t) <=> off(s) < off(t)
  BY <1>1, <1>2 DEF CLESS
<1>5. \A s, t \in T : CLSE(s, t) <=> off(s) <= off(t)
  BY <1>1, <1>2, <1>4 DEF CLSE
<1> QED BY <1>1, <1>3, <1>4, <1>5

-----------------------------------------------------------------------------
(* While no loop runs there is no hole; while one runs, the hole is a used *)
(* slot and the loop carries an event.                                     *)
LoopState ==
    \/ pc = "idle" /\ hole = 0 /\ placed = NoEvent
    \/ pc \in {"up", "down"} /\ hole \in 1 .. heapLast /\ placed \in Events

(* The inductive invariant.  TypeOK alone is not: that CKprioritise copies *)
(* a time of Times needs an event in slot 1, which Backpointers gives.     *)
IInv == TypeOK /\ LoopState /\ Backpointers

-----------------------------------------------------------------------------
(* The heap starts empty and without a hole.                               *)
LEMMA InitIInv == Init => IInv
BY DEF Init, IInv, TypeOK, LoopState, Backpointers, Slots

(* Between calls a queued event sits in the slot its backpointer names.    *)
LEMMA QueuedAtBack ==
    ASSUME IInv, pc = "idle", NEW event \in Queued
    PROVE  event \in Events /\ back[event] \in 1 .. heapLast /\ heap[back[event]] = event
BY DEF IInv, TypeOK, LoopState, Backpointers, Queued

(* Every operation of pri_heap.c, loop iterations included, preserves it.  *)
LEMMA NextIInv == IInv /\ [Next]_vars => IInv'
<1> SUFFICES ASSUME IInv, [Next]_vars PROVE IInv'
  OBVIOUS
<1> USE DEF IInv, Slots
<1>1. ASSUME NEW e \in Events, NEW t \in Times, CKsiftup(e, t) PROVE IInv'
  <2>1. heapLast + 1 \in 1 .. MAXEVENTS + 1
    BY <1>1 DEF CKsiftup, Call, TypeOK
  <2>2. TypeOK'
    BY <1>1, <2>1 DEF CKsiftup, Call, TypeOK
  <2>3. LoopState'
    BY <1>1, <2>1 DEF CKsiftup, Call, TypeOK, LoopState
  <2>4. Backpointers'
    BY <1>1, <2>1 DEF CKsiftup, Call, TypeOK, LoopState, Backpointers, Queued
  <2> QED BY <2>2, <2>3, <2>4
<1>2. ASSUME NEW t \in Times, CKsiftdown(t) PROVE IInv'
  <2>1. hole = 0 /\ heap[1] \in Events /\ back[heap[1]] = 1 /\ 1 \in 1 .. heapLast
    BY <1>2 DEF CKsiftdown, Call, TypeOK, LoopState, Backpointers
  <2>2. TypeOK'
    BY <1>2, <2>1 DEF CKsiftdown, TypeOK
  <2>3. LoopState'
    BY <1>2, <2>1 DEF CKsiftdown, LoopState
  <2>4. Backpointers'
    BY <1>2, <2>1 DEF CKsiftdown, TypeOK, Backpointers
  <2> QED BY <2>2, <2>3, <2>4
<1>3. ASSUME NEW e \in Events, CKremoveEvent(e) PROVE IInv'
  <2> DEFINE evt    == back[e]
             filler == heap[heapLast]
  <2>1. e \in Queued /\ pc = "idle" /\ hole = 0 /\ placed = NoEvent
    BY <1>3 DEF CKremoveEvent, Call, LoopState
  <2>2. evt \in 1 .. heapLast /\ heapLast \in 1 .. MAXEVENTS + 1
    BY <2>1, QueuedAtBack DEF TypeOK
  <2>3. filler \in Events /\ back[filler] = heapLast
    BY <2>1, <2>2 DEF Backpointers
  <2>4. /\ heap' = [heap EXCEPT ![evt] = filler]
        /\ back' = [back EXCEPT ![filler] = evt]
        /\ heapLast' = heapLast - 1
        /\ time' = time
    BY <1>3 DEF CKremoveEvent
  <2>5. \/ evt = heapLast /\ pc' = "idle" /\ hole' = 0 /\ placed' = NoEvent
        \/ evt < heapLast /\ pc' = "down" /\ hole' = evt /\ placed' = filler
    BY <1>3, <2>1, <2>2 DEF CKremoveEvent
  <2>6. tidy' \in BOOLEAN
    BY <1>3 DEF CKremoveEvent, TypeOK
  <2>7. TypeOK'
    BY <2>2, <2>3, <2>4, <2>5, <2>6 DEF TypeOK
  <2>8. LoopState'
    BY <2>2, <2>3, <2>4, <2>5 DEF LoopState
  <2>9. Backpointers'
    BY <2>1, <2>2, <2>3, <2>4, <2>5 DEF TypeOK, Backpointers
  <2> QED BY <2>7, <2>8, <2>9
<1>4. ASSUME NEW e \in Events, CKprioritise(e) PROVE IInv'
  <2>1. e \in Queued /\ pc = "idle" /\ hole = 0
    BY <1>4 DEF CKprioritise, Call, LoopState
  <2>2. back[e] \in 1 .. heapLast /\ heap[back[e]] = e
    BY <2>1, QueuedAtBack
  <2>3. heap[1] \in Events
    BY <2>1, <2>2 DEF Backpointers, TypeOK
  <2>4. TypeOK'
    BY <1>4, <2>2, <2>3 DEF CKprioritise, TypeOK
  <2>5. LoopState'
    BY <1>4, <2>2 DEF CKprioritise, LoopState
  <2>6. Backpointers'
    BY <1>4, <2>1, <2>2 DEF CKprioritise, TypeOK, Backpointers
  <2> QED BY <2>4, <2>5, <2>6
<1>5. ASSUME NEW from \in (1 .. heapLast) \ {hole}, pc # "idle", MoveHole(from) PROVE IInv'
  <2>1. hole \in 1 .. heapLast /\ heap[from] \in Events \ {placed} /\ back[heap[from]] = from
    BY <1>5 DEF LoopState, Backpointers
  <2>2. TypeOK'
    BY <1>5, <2>1 DEF MoveHole, TypeOK
  <2>3. LoopState'
    BY <1>5, <2>1 DEF MoveHole, LoopState
  <2>4. Backpointers'
    BY <1>5, <2>1 DEF MoveHole, TypeOK, Backpointers
  <2> QED BY <2>2, <2>3, <2>4
<1>6. ASSUME pc # "idle", FillHole PROVE IInv'
  <2>1. hole \in 1 .. heapLast /\ placed \in Events
    BY <1>6 DEF LoopState
  <2>2. TypeOK'
    BY <1>6, <2>1 DEF FillHole, TypeOK
  <2>3. LoopState'
    BY <1>6 DEF FillHole, LoopState
  <2>4. Backpointers'
    BY <1>6, <2>1 DEF FillHole, TypeOK, Backpointers
  <2> QED BY <2>2, <2>3, <2>4
<1>7. CASE UpIteration
  <2>1. hole \in 1 .. heapLast /\ hole > 1 /\ heapLast \in Nat
    BY <1>7 DEF UpIteration, GoesUp, LoopState, TypeOK
  <2>2. Parent(hole) \in (1 .. heapLast) \ {hole}
    BY <2>1 DEF Parent
  <2> QED BY <1>5, <1>7, <2>2 DEF UpIteration
<1>8. CASE DownIteration
  <2>1. hole \in 1 .. heapLast /\ heapLast \in Nat
    BY <1>8 DEF DownIteration, LoopState, TypeOK
  <2>2. MinChild(hole, heapLast) \in (1 .. heapLast) \ {hole}
    BY <1>8, <2>1 DEF DownIteration, GoesDown, MinChild, LChild, RChild
  <2> QED BY <1>5, <1>8, <2>2 DEF DownIteration
<1>9. CASE UpEnd \/ DownEnd
  BY <1>6, <1>9 DEF UpEnd, DownEnd
<1>10. CASE UNCHANGED vars
  BY <1>10 DEF vars, TypeOK, LoopState, Backpointers
<1> QED
  BY <1>1, <1>2, <1>3, <1>4, <1>7, <1>8, <1>9, <1>10 DEF Next

(* The invariant of the following theorems.                                *)
LEMMA IInvHolds == Spec => []IInv
<1>1. Init => IInv
  BY InitIInv
<1>2. IInv /\ [Next]_vars => IInv'
  BY NextIInv
<1> QED BY <1>1, <1>2, PTL DEF Spec

(* The types hold in every state of every heap.                            *)
THEOREM TypeCorrect == Spec => []TypeOK
<1>1. IInv => TypeOK
  BY DEF IInv
<1> QED BY IInvHolds, <1>1, PTL

(* In every state, also in the middle of a loop, every event of the heap   *)
(* knows its slot: CKremoveEvent(event->heap) and CKprioritise always hit  *)
(* the event they were called for, and no event is in two slots.           *)
THEOREM BackpointersHold == Spec => []Backpointers
<1>1. IInv => Backpointers
  BY DEF IInv
<1> QED BY IInvHolds, <1>1, PTL

-----------------------------------------------------------------------------
(* The step of EventQueue that each step of a heap maps to. *)
LEMMA StepMaps == IInv /\ IInv' /\ [Next]_vars => [Abstract!Next]_<<Queued, time>>
<1> SUFFICES ASSUME IInv, IInv', [Next]_vars PROVE [Abstract!Next]_<<Queued, time>>
  OBVIOUS
<1> DEFINE Slot == (1 .. heapLast) \ {hole}
<1>1. /\ Queued \subseteq Events
      /\ heap \in [Slots -> Events \cup {NoEvent}] /\ time \in [Events -> Times]
      /\ heapLast \in 0 .. MAXEVENTS + 1
      /\ \A i, j \in Slot : heap[i] = heap[j] => i = j
      /\ pc = "idle" => hole = 0
  BY DEF IInv, TypeOK, LoopState, Backpointers, Queued
<1>2. ASSUME NEW e \in Events, NEW t \in Times, CKsiftup(e, t) PROVE Abstract!Add(e, t)
  <2>1. pc = "idle" /\ e \notin Queued /\ time' = [time EXCEPT ![e] = t]
    BY <1>2 DEF CKsiftup, Call
  <2>2. /\ heap' = heap /\ heapLast' = heapLast + 1 /\ hole' = heapLast + 1
        /\ placed' = e /\ pc' = "up"
    BY <1>2 DEF CKsiftup
  <2>3. Queued' = Queued \cup {e}
    BY <1>1, <2>1, <2>2 DEF Queued
  <2> QED BY <2>1, <2>3 DEF Abstract!Add
<1>3. ASSUME NEW e \in Events, pc = "idle", e \in Queued,
             heap' = heap, heapLast' = heapLast,
             hole' \in 1 .. heapLast, heap[hole'] = e, placed' = e, pc' # "idle"
      PROVE  Queued' = Queued
  BY <1>1, <1>3 DEF Queued
<1>4. ASSUME NEW t \in Times, CKsiftdown(t) PROVE \E e \in Events : Abstract!Retime(e, t)
  <2>1. /\ pc = "idle" /\ heap[1] \in Queued /\ heapLast > 0 /\ 1 \in 1 .. heapLast
        /\ time' = [time EXCEPT ![heap[1]] = t]
        /\ heap' = heap /\ heapLast' = heapLast /\ hole' = 1
        /\ placed' = heap[1] /\ pc' # "idle"
    BY <1>1, <1>4 DEF CKsiftdown, Call, Queued
  <2>2. Queued' = Queued
    BY <1>1, <1>3, <2>1
  <2> QED BY <1>1, <2>1, <2>2 DEF Abstract!Retime
<1>5. ASSUME NEW e \in Events, CKprioritise(e)
      PROVE  \E t \in Times : Abstract!Retime(e, t)
  <2>1. /\ pc = "idle" /\ e \in Queued
        /\ time' = [time EXCEPT ![e] = time[heap[1]]]
        /\ heap' = heap /\ heapLast' = heapLast /\ hole' = back[e] /\ placed' = e /\ pc' # "idle"
    BY <1>5 DEF CKprioritise, Call
  <2>2. back[e] \in 1 .. heapLast /\ heap[back[e]] = e
    BY <2>1, QueuedAtBack
  <2>3. Queued' = Queued
    BY <1>1, <1>3, <2>1, <2>2
  <2>4. time[heap[1]] \in Times
    BY <1>1, <2>1, <2>2 DEF Queued
  <2> QED BY <2>1, <2>3, <2>4 DEF Abstract!Retime
<1>6. ASSUME NEW e \in Events, CKremoveEvent(e) PROVE Abstract!Take(e)
  <2> DEFINE evt == back[e]
  <2>1. pc = "idle" /\ hole = 0 /\ e \in Queued /\ time' = time
    BY <1>1, <1>6 DEF CKremoveEvent, Call
  <2>2. evt \in 1 .. heapLast /\ heap[evt] = e
    BY <2>1, QueuedAtBack
  <2>3. heap' = [heap EXCEPT ![evt] = heap[heapLast]] /\ heapLast' = heapLast - 1
    BY <1>6 DEF CKremoveEvent
  <2>4. \/ evt = heapLast /\ pc' = "idle" /\ hole' = 0
        \/ evt # heapLast /\ pc' = "down" /\ hole' = evt /\ placed' = heap[heapLast]
    BY <1>6, <2>1 DEF CKremoveEvent
  <2> HIDE DEF evt
  <2>5. Queued = { heap[i] : i \in 1 .. heapLast }
    BY <1>1, <2>1 DEF Queued
  <2>6. Queued' = { heap[i] : i \in (1 .. heapLast) \ {evt} }
    <3>1. CASE evt = heapLast
      BY <1>1, <2>2, <2>3, <2>4, <3>1 DEF Queued, Slots
    <3>2. CASE evt # heapLast
      <4>1. Queued' = { heap'[i] : i \in (1 .. heapLast - 1) \ {evt} } \cup {heap[heapLast]}
        BY <2>3, <2>4, <3>2 DEF Queued
      <4>2. \A i \in (1 .. heapLast - 1) \ {evt} : heap'[i] = heap[i]
        BY <1>1, <2>2, <2>3 DEF Slots
      <4>3. (1 .. heapLast) \ {evt} = ((1 .. heapLast - 1) \ {evt}) \cup {heapLast}
        BY <1>1, <2>2, <3>2
      <4> QED BY <4>1, <4>2, <4>3
    <3> QED BY <3>1, <3>2
  <2>7. Queued' = Queued \ {e}
    BY <1>1, <2>1, <2>2, <2>5, <2>6
  <2> QED BY <2>1, <2>7 DEF Abstract!Take
<1>7. ASSUME NEW from \in Slot, pc # "idle", MoveHole(from) PROVE UNCHANGED <<Queued, time>>
  <2>1. /\ heap' = [heap EXCEPT ![hole] = heap[from]] /\ hole' = from /\ heapLast' = heapLast
        /\ placed' = placed /\ pc' = pc /\ time' = time
    BY <1>7 DEF MoveHole
  <2>2. hole \in 1 .. heapLast
    BY <1>7 DEF IInv, LoopState
  <2>3. \A i \in (1 .. heapLast) \ {from} : heap'[i] = IF i = hole THEN heap[from] ELSE heap[i]
    BY <1>1, <2>1, <2>2 DEF Slots
  <2>4. { heap'[i] : i \in (1 .. heapLast) \ {from} } = { heap[i] : i \in Slot }
    BY <2>2, <2>3
  <2> QED BY <2>1, <2>4 DEF Queued
<1>8. ASSUME pc # "idle", FillHole PROVE UNCHANGED <<Queued, time>>
  <2>1. /\ heap' = [heap EXCEPT ![hole] = placed] /\ hole' = 0 /\ heapLast' = heapLast
        /\ pc' = "idle" /\ time' = time
    BY <1>8 DEF FillHole
  <2>2. hole \in 1 .. heapLast
    BY <1>8 DEF IInv, LoopState
  <2>3. \A i \in 1 .. heapLast : heap'[i] = IF i = hole THEN placed ELSE heap[i]
    BY <1>1, <2>1, <2>2 DEF Slots
  <2>4. { heap'[i] : i \in 1 .. heapLast } = { heap[i] : i \in Slot } \cup {placed}
    BY <2>2, <2>3
  <2>5. (1 .. heapLast) \ {0} = 1 .. heapLast
    BY <1>1
  <2> QED BY <1>8, <2>1, <2>4, <2>5 DEF Queued
<1>9. CASE UpIteration
  <2>1. hole \in 2 .. heapLast /\ heapLast \in Nat /\ pc # "idle" /\ MoveHole(Parent(hole))
    BY <1>9 DEF IInv, UpIteration, GoesUp, LoopState, TypeOK
  <2>2. Parent(hole) \in Slot
    BY <2>1 DEF Parent
  <2> QED BY <1>7, <2>1, <2>2
<1>10. CASE DownIteration
  <2>1. hole \in 1 .. heapLast /\ heapLast \in Nat /\ pc # "idle" /\ MoveHole(MinChild(hole, heapLast))
    BY <1>10 DEF IInv, DownIteration, LoopState, TypeOK
  <2>2. MinChild(hole, heapLast) \in Slot
    BY <1>10, <2>1 DEF DownIteration, GoesDown, MinChild, LChild, RChild
  <2> QED BY <1>7, <2>1, <2>2
<1>11. CASE UpEnd \/ DownEnd
  BY <1>8, <1>11 DEF UpEnd, DownEnd
<1>12. CASE UNCHANGED vars
  BY <1>12 DEF vars, Queued
<1> QED
  BY <1>2, <1>4, <1>5, <1>6, <1>9, <1>10, <1>11, <1>12 DEF Next, Abstract!Next

(* A heap is a set of timed events: the loops neither lose nor duplicate   *)
(* an event nor change a time that the caller did not.                     *)
THEOREM HeapImplementsEventQueue == Spec => ImplementsEventQueue
<1>1. Init => Abstract!Init
  BY DEF Init, Abstract!Init, Queued
<1>2. IInv /\ IInv' /\ [Next]_vars => [Abstract!Next]_<<Queued, time>>
  BY StepMaps
<1> QED BY IInvHolds, <1>1, <1>2, PTL DEF Spec, ImplementsEventQueue, Abstract!Spec, Abstract!vars

(* With at most MAXEVENTS events in the whole system the array is large    *)
(* enough, in the middle of the loops too.  The code never tests it.       *)
THEOREM EnoughRoom ==
    ASSUME IsFiniteSet(Events), Cardinality(Events) <= MAXEVENTS
    PROVE  Spec => []HeapFits
<1>1. IInv => HeapFits
  <2> SUFFICES ASSUME IInv PROVE heapLast <= MAXEVENTS
    BY DEF HeapFits
  <2> DEFINE f == [i \in 1 .. heapLast |-> IF i = hole THEN placed ELSE heap[i]]
  <2>1. heapLast \in Nat
    BY DEF IInv, TypeOK
  <2>2. f \in [1 .. heapLast -> Events]
    BY DEF IInv, TypeOK, LoopState, Backpointers
  <2>3. \A i, j \in 1 .. heapLast : f[i] = f[j] => i = j
    BY DEF IInv, TypeOK, LoopState, Backpointers
  <2> HIDE DEF f
  <2>4. f \in Injection(1 .. heapLast, Events)
    BY <2>2, <2>3 DEF Injection, IsInjective
  <2>5. Cardinality(1 .. heapLast) <= Cardinality(Events)
    BY <2>4, FS_Injection
  <2>6. Cardinality(1 .. heapLast) = heapLast
    BY <2>1, FS_Interval
  <2>7. Cardinality(Events) \in Nat
    BY FS_CardinalityType
  <2> QED BY <2>1, <2>5, <2>6, <2>7
<1> QED BY IInvHolds, <1>1, PTL

-----------------------------------------------------------------------------
(* The order of the heap, as long as the times in use lie within half a    *)
(* turn.                                                                   *)

(* While a loop runs, the order holds everywhere but at the hole: the      *)
(* events below it are not earlier than the event above it, and the event  *)
(* carried fits the side that the loop moves away from.                    *)
LoopOrder == tidy =>
    /\ \A i \in 2 .. heapLast : i # hole /\ Parent(i) # hole =>
           CLSE(time[heap[Parent(i)]], time[heap[i]])
    /\ hole > 1 => \A i \in 2 .. heapLast : Parent(i) = hole =>
           CLSE(time[heap[Parent(hole)]], time[heap[i]])
    /\ pc = "up" => \A i \in 2 .. heapLast : Parent(i) = hole =>
           CLSE(time[placed], time[heap[i]])
    /\ pc = "down" /\ hole > 1 => CLSE(time[heap[Parent(hole)]], time[placed])

(* The facts of CircularOrder about the times in use. *)
TimesOrdered == \A s, t, u \in Times :
    /\ CLSE(s, t) \/ CLSE(t, s)
    /\ CLESS(s, t) <=> ~CLSE(t, s)
    /\ CLSE(s, t) /\ CLSE(t, u) => CLSE(s, u)

LEMMA TimesAreOrdered == WithinHalfTurn(Times) => TimesOrdered
BY CircularOrder DEF TimesOrdered

-----------------------------------------------------------------------------
(* The arithmetic of the tree.                                             *)
LEMMA ParentBelow ==
    ASSUME NEW i \in Nat, i > 1
    PROVE  Parent(i) \in 1 .. i - 1
BY DEF Parent

LEMMA ChildrenOf ==
    ASSUME NEW i \in Nat, NEW j \in Nat, Parent(i) = j
    PROVE  i = LChild(j) \/ i = RChild(j)
BY DEF Parent, LChild, RChild

(* Every node of an ordered tree is not earlier than its root: otherwise   *)
(* the first node that is has a parent that is too.                        *)
LEMMA RootIsEarliest ==
    ASSUME TimesOrdered, NEW n \in Nat, NEW tm,
           \A i \in 1 .. n : tm[i] \in Times,
           \A i \in 2 .. n : CLSE(tm[Parent(i)], tm[i])
    PROVE  \A i \in 1 .. n : CLSE(tm[1], tm[i])
<1> DEFINE Bad == { i \in 1 .. n : ~CLSE(tm[1], tm[i]) }
<1> SUFFICES ASSUME Bad # {} PROVE FALSE
  OBVIOUS
<1>1. PICK b \in Bad : \A c \in Bad : ~(<<c, b>> \in OpToRel(<, Nat))
  <2>1. Bad \subseteq Nat
    OBVIOUS
  <2> HIDE DEF Bad
  <2> QED BY <2>1, NatLessThanWellFounded, WFMin
<1>2. \A c \in Bad : ~(c < b)
  <2>1. SUFFICES ASSUME NEW c \in Bad, c < b PROVE FALSE
    OBVIOUS
  <2>2. b \in Nat /\ c \in Nat
    OBVIOUS
  <2>3. <<c, b>> \in OpToRel(<, Nat)
    BY <2>1, <2>2, Zenon DEF OpToRel
  <2> QED BY <1>1, <2>3
<1>3. b \in 2 .. n
  <2>1. b \in 1 .. n /\ ~CLSE(tm[1], tm[b])
    BY <1>1
  <2>2. CLSE(tm[b], tm[b])
    BY <2>1 DEF TimesOrdered
  <2> QED BY <2>1, <2>2
<1>4. Parent(b) \in 1 .. b - 1
  BY <1>3, ParentBelow
<1>5. CLSE(tm[1], tm[Parent(b)])
  BY <1>2, <1>3, <1>4
<1>6. CLSE(tm[1], tm[b])
  BY <1>3, <1>4, <1>5 DEF TimesOrdered
<1> QED BY <1>6

(* The same about a heap between two operations.                           *)
LEMMA TopOfOrdered ==
    ASSUME TimesOrdered, IInv, pc = "idle", Ordered
    PROVE  \A i \in 1 .. heapLast : CLSE(time[heap[1]], time[heap[i]])
<1> DEFINE tm == [i \in 1 .. heapLast |-> time[heap[i]]]
<1>1. \A i \in 1 .. heapLast : tm[i] \in Times
  BY DEF IInv, TypeOK, LoopState, Backpointers
<1>2. \A i \in 2 .. heapLast : CLSE(tm[Parent(i)], tm[i])
  <2> TAKE i \in 2 .. heapLast
  <2>1. heapLast \in Nat
    BY DEF IInv, TypeOK
  <2>2. Parent(i) \in 1 .. heapLast
    BY <2>1, ParentBelow
  <2> QED BY <2>1, <2>2 DEF Ordered
<1>3. heapLast \in Nat
  BY DEF IInv, TypeOK
<1>4. \A i \in 1 .. heapLast : CLSE(tm[1], tm[i])
  <2> HIDE DEF tm
  <2> QED BY <1>1, <1>2, <1>3, RootIsEarliest
<1>5. \A i \in 1 .. heapLast : 1 \in 1 .. heapLast
  BY <1>3
<1> QED BY <1>4, <1>5
-----------------------------------------------------------------------------
(* The heap starts in order.                                               *)
LEMMA InitLoopOrder == Init => LoopOrder
BY DEF Init, LoopOrder

(* The times that the steps compare are times of Times.                    *)
LEMMA TimesTyped ==
    ASSUME IInv
    PROVE  /\ heapLast \in Nat /\ hole \in Nat
           /\ \A i \in (1 .. heapLast) \ {hole} : time[heap[i]] \in Times
           /\ pc # "idle" => time[placed] \in Times /\ hole \in 1 .. heapLast
           /\ pc = "idle" => hole = 0
BY DEF IInv, TypeOK, LoopState, Backpointers

(* Between two operations LoopOrder is the order of the whole heap.        *)
LEMMA IdleOrder ==
    ASSUME IInv, pc = "idle"
    PROVE  LoopOrder <=> (tidy => Ordered)
<1>1. hole = 0 /\ heapLast \in Nat
  BY TimesTyped
<1>2. \A i \in 2 .. heapLast : i # 0 /\ Parent(i) # 0
  BY <1>1, ParentBelow
<1> QED BY <1>1, <1>2 DEF LoopOrder, Ordered

(* Starting an operation. *)
LEMMA CallLoopOrder ==
    ASSUME TimesOrdered, IInv, LoopOrder, IInv', tidy',
           \/ \E e \in Events, t \in Times : CKsiftup(e, t)
           \/ \E t \in Times : CKsiftdown(t)
           \/ \E e \in Events : CKremoveEvent(e) \/ CKprioritise(e)
    PROVE  LoopOrder'
<1>1. pc = "idle" /\ hole = 0 /\ tidy /\ heapLast \in Nat
  BY TimesTyped DEF CKsiftup, CKsiftdown, CKremoveEvent, CKprioritise, Call
<1>2. Ordered
  BY <1>1, IdleOrder
<1>3. \A i \in 1 .. heapLast : heap[i] \in Events /\ back[heap[i]] = i /\ time[heap[i]] \in Times
  BY <1>1, TimesTyped DEF IInv, Backpointers
<1>4. \A i \in 2 .. heapLast : Parent(i) \in 1 .. i - 1
  BY <1>1, ParentBelow
<1>5. time \in [Events -> Times] /\ heap \in [Slots -> Events \cup {NoEvent}] /\ heapLast <= MAXEVENTS + 1
  BY DEF IInv, TypeOK
<1>6. ASSUME NEW e \in Events, NEW t \in Times, CKsiftup(e, t) PROVE LoopOrder'
  <2>1. \A i \in 1 .. heapLast : heap[i] # e
    BY <1>1, <1>6 DEF CKsiftup, Queued
  <2>2. /\ heap' = heap /\ heapLast' = heapLast + 1 /\ hole' = heapLast + 1 /\ pc' = "up"
        /\ \A i \in 1 .. heapLast : time'[heap[i]] = time[heap[i]]
    BY <1>3, <1>5, <1>6, <2>1 DEF CKsiftup
  <2>3. \A i \in 2 .. heapLast + 1 : Parent(i) # heapLast + 1
    BY <1>1, ParentBelow
  <2> QED BY <1>1, <1>2, <1>4, <2>2, <2>3 DEF LoopOrder, Ordered
<1>7. ASSUME NEW t \in Times, CKsiftdown(t) PROVE LoopOrder'
  <2>1. /\ heap' = heap /\ heapLast' = heapLast /\ hole' = 1 /\ pc' = "down"
        /\ \A i \in 2 .. heapLast : time'[heap[i]] = time[heap[i]]
    BY <1>1, <1>3, <1>5, <1>7 DEF CKsiftdown
  <2> QED BY <1>1, <1>2, <1>4, <2>1 DEF LoopOrder, Ordered
<1>8. ASSUME NEW e \in Events, CKremoveEvent(e) PROVE LoopOrder'
  <2> DEFINE evt == back[e]
  <2>1. evt \in 1 .. heapLast
    BY <1>1, <1>8, QueuedAtBack DEF CKremoveEvent
  <2>2. /\ heapLast' = heapLast - 1
        /\ time' = time
        /\ \A i \in 1 .. heapLast : i # evt => heap'[i] = heap[i]
        /\ heap'[evt] = heap[heapLast]
    <3>1. heap' = [heap EXCEPT ![evt] = heap[heapLast]] /\ heapLast' = heapLast - 1 /\ time' = time
      BY <1>8 DEF CKremoveEvent
    <3> HIDE DEF evt
    <3> QED BY <1>1, <1>5, <2>1, <3>1 DEF Slots
  <2>3. CASE evt = heapLast
    <3>1. pc' = "idle" /\ hole' = 0
      BY <1>1, <1>8, <2>3 DEF CKremoveEvent
    <3> QED BY <1>1, <1>2, <1>4, <2>2, <2>3, <3>1 DEF LoopOrder, Ordered
  <2>4. CASE evt # heapLast
    <3>1. pc' = "down" /\ hole' = evt /\ placed' = heap[heapLast]
      BY <1>8, <2>4 DEF CKremoveEvent
    <3>2. evt = 1 \/ CLSE(time[heap[Parent(evt)]], time[heap[heapLast]])
      BY <1>8, <2>4 DEF CKremoveEvent
    <3>3. \A i \in 2 .. heapLast - 1 : Parent(i) = evt /\ evt > 1 =>
              CLSE(time[heap[Parent(evt)]], time[heap[i]])
      <4> TAKE i \in 2 .. heapLast - 1
      <4> SUFFICES ASSUME Parent(i) = evt, evt > 1
                   PROVE  CLSE(time[heap[Parent(evt)]], time[heap[i]])
        OBVIOUS
      <4>1. i \in 2 .. heapLast /\ evt \in 2 .. heapLast /\ Parent(evt) \in 1 .. heapLast
        BY <1>1, <1>4, <2>1
      <4>2. CLSE(time[heap[Parent(evt)]], time[heap[evt]]) /\ CLSE(time[heap[evt]], time[heap[i]])
        BY <1>2, <4>1 DEF Ordered
      <4> QED BY <1>3, <2>1, <4>1, <4>2 DEF TimesOrdered
    <3>4. evt > 1 => Parent(evt) \in 1 .. evt - 1
      BY <2>1, ParentBelow
    <3> HIDE DEF evt
    <3> QED BY <1>1, <1>2, <1>4, <2>1, <2>2, <3>1, <3>2, <3>3, <3>4 DEF LoopOrder, Ordered
  <2> QED BY <2>3, <2>4
<1>9. ASSUME NEW e \in Events, CKprioritise(e) PROVE LoopOrder'
  <2> DEFINE slot == back[e]
  <2>1. slot \in 1 .. heapLast /\ heap[slot] = e
    BY <1>1, <1>9, QueuedAtBack DEF CKprioritise
  <2>2. \A i \in 1 .. heapLast : i # slot => heap[i] # e
    BY <1>3
  <2>3. /\ heap' = heap /\ heapLast' = heapLast /\ hole' = slot /\ pc' = "up" /\ placed' = e
        /\ \A i \in 1 .. heapLast : i # slot => time'[heap[i]] = time[heap[i]]
        /\ time'[e] = time[heap[1]]
    BY <1>3, <1>5, <1>9, <2>2 DEF CKprioritise
  <2>4. \A i \in 1 .. heapLast : CLSE(time[heap[1]], time[heap[i]])
    BY <1>1, <1>2, TopOfOrdered
  <2>5. \A i \in 2 .. heapLast : Parent(i) = slot => CLSE(time'[e], time'[heap[i]])
    BY <1>1, <1>4, <2>3, <2>4
  <2>6. \A i \in 2 .. heapLast : Parent(i) = slot /\ slot > 1 =>
              CLSE(time'[heap[Parent(slot)]], time'[heap[i]])
    <3> TAKE i \in 2 .. heapLast
    <3> SUFFICES ASSUME Parent(i) = slot, slot > 1
                 PROVE  CLSE(time'[heap[Parent(slot)]], time'[heap[i]])
      OBVIOUS
    <3>1. slot \in 2 .. heapLast /\ Parent(slot) \in 1 .. heapLast /\ Parent(slot) # slot /\ i # slot
      BY <1>1, <1>4, <2>1
    <3>2. CLSE(time[heap[Parent(slot)]], time[heap[slot]]) /\ CLSE(time[heap[slot]], time[heap[i]])
      BY <1>2, <3>1 DEF Ordered
    <3>3. CLSE(time[heap[Parent(slot)]], time[heap[i]])
      BY <1>3, <2>1, <3>1, <3>2 DEF TimesOrdered
    <3> QED BY <1>1, <2>3, <3>1, <3>3
  <2> HIDE DEF slot
  <2> QED BY <1>1, <1>2, <1>4, <2>1, <2>3, <2>5, <2>6 DEF LoopOrder, Ordered
<1> QED BY <1>6, <1>7, <1>8, <1>9

(* One iteration of the loop that moves the hole up.                       *)
LEMMA UpLoopOrder ==
    ASSUME TimesOrdered, IInv, LoopOrder, IInv', tidy', UpIteration
    PROVE  LoopOrder'
<1> DEFINE p == Parent(hole)
<1>1. /\ pc = "up" /\ tidy /\ heapLast \in Nat /\ hole \in 2 .. heapLast
      /\ CLESS(time[placed], time[heap[p]])
      /\ p \in 1 .. hole - 1
  BY TimesTyped, ParentBelow DEF UpIteration, GoesUp, MoveHole
<1>2. /\ heapLast' = heapLast /\ time' = time /\ pc' = "up" /\ placed' = placed /\ hole' = p
      /\ heap' = [heap EXCEPT ![hole] = heap[p]]
  BY <1>1 DEF UpIteration, MoveHole
<1>3. heap'[hole] = heap[p] /\ \A i \in 1 .. heapLast : i # hole => heap'[i] = heap[i]
  BY <1>1, <1>2 DEF IInv, TypeOK, Slots
<1>4. \A i \in 2 .. heapLast : Parent(i) \in 1 .. i - 1
  BY <1>1, ParentBelow
<1> HIDE DEF p
<1>5. /\ time[placed] \in Times
      /\ \A i \in 1 .. heapLast : i # hole => time[heap[i]] \in Times
  BY <1>1, TimesTyped
<1>6. CLSE(time[placed], time[heap[p]])
  BY <1>1, <1>5 DEF TimesOrdered
<1>7. \A i \in 2 .. heapLast : i # p /\ Parent(i) # p => CLSE(time[heap'[Parent(i)]], time[heap'[i]])
  <2> SUFFICES ASSUME NEW i \in 2 .. heapLast, i # p, Parent(i) # p
               PROVE  CLSE(time[heap'[Parent(i)]], time[heap'[i]])
    OBVIOUS
  <2>1. i # hole
    BY DEF p
  <2>2. CASE Parent(i) = hole
    BY <1>1, <1>3, <2>1, <2>2 DEF LoopOrder, p
  <2>3. CASE Parent(i) # hole
    BY <1>1, <1>3, <1>4, <2>1, <2>3 DEF LoopOrder
  <2> QED BY <2>2, <2>3
<1>8. p > 1 => CLSE(time[heap[Parent(p)]], time[heap[p]])
  BY <1>1, <1>4 DEF LoopOrder
<1>9. \A i \in 2 .. heapLast : Parent(i) = p => CLSE(time[heap[p]], time[heap'[i]])
  <2> SUFFICES ASSUME NEW i \in 2 .. heapLast, Parent(i) = p
               PROVE  CLSE(time[heap[p]], time[heap'[i]])
    OBVIOUS
  <2>1. CASE i = hole
    BY <1>1, <1>3, <1>5, <2>1 DEF TimesOrdered
  <2>2. CASE i # hole
    BY <1>1, <1>3, <2>2 DEF LoopOrder
  <2> QED BY <2>1, <2>2
<1>10. \A i \in 2 .. heapLast : Parent(i) = p =>
          /\ CLSE(time[placed], time[heap'[i]])
          /\ p > 1 => CLSE(time[heap'[Parent(p)]], time[heap'[i]])
  <2> SUFFICES ASSUME NEW i \in 2 .. heapLast, Parent(i) = p
               PROVE  /\ CLSE(time[placed], time[heap'[i]])
                      /\ p > 1 => CLSE(time[heap'[Parent(p)]], time[heap'[i]])
    OBVIOUS
  <2>1. time[heap'[i]] \in Times /\ time[heap[p]] \in Times
    BY <1>1, <1>3, <1>5
  <2>2. CLSE(time[placed], time[heap'[i]])
    BY <1>5, <1>6, <1>9, <2>1 DEF TimesOrdered
  <2>3. ASSUME p > 1 PROVE CLSE(time[heap'[Parent(p)]], time[heap'[i]])
    <3>1. Parent(p) \in 1 .. heapLast /\ Parent(p) # hole
      BY <1>1, <1>4, <2>3
    <3>2. time[heap[Parent(p)]] \in Times
      BY <1>5, <3>1
    <3>3. CLSE(time[heap[Parent(p)]], time[heap'[i]])
      BY <1>8, <1>9, <2>1, <2>3, <3>2 DEF TimesOrdered
    <3> QED BY <1>3, <3>1, <3>3
  <2> QED BY <2>2, <2>3
<1> QED BY <1>1, <1>2, <1>7, <1>10 DEF LoopOrder

(* MinChild is a child of its slot that is not later than the other child. *)
LEMMA MinChildIsMin ==
    ASSUME TimesOrdered, IInv, pc = "down", MinChild(hole, heapLast) <= heapLast
    PROVE  /\ MinChild(hole, heapLast) \in 2 .. heapLast
           /\ MinChild(hole, heapLast) # hole
           /\ Parent(MinChild(hole, heapLast)) = hole
           /\ \A i \in 2 .. heapLast : Parent(i) = hole =>
                 CLSE(time[heap[MinChild(hole, heapLast)]], time[heap[i]])
<1>1. heapLast \in Nat /\ hole \in 1 .. heapLast
  BY TimesTyped
<1>2. /\ LChild(hole) \in Nat /\ RChild(hole) = LChild(hole) + 1 /\ LChild(hole) > hole
      /\ Parent(LChild(hole)) = hole /\ Parent(RChild(hole)) = hole /\ LChild(hole) > 1
  BY <1>1 DEF LChild, RChild, Parent
<1>3. \A i \in 2 .. heapLast : Parent(i) = hole => i \in {LChild(hole), RChild(hole)}
  BY <1>1, ChildrenOf
<1>4. \A i \in 1 .. heapLast : i # hole => time[heap[i]] \in Times
  BY TimesTyped
<1>5. CASE LChild(hole) < heapLast
  <2>1. time[heap[LChild(hole)]] \in Times /\ time[heap[RChild(hole)]] \in Times
    BY <1>1, <1>2, <1>4, <1>5
  <2> QED BY <1>1, <1>2, <1>3, <1>5, <2>1 DEF MinChild, TimesOrdered
<1>6. CASE ~(LChild(hole) < heapLast)
  <2>1. MinChild(hole, heapLast) = LChild(hole) /\ LChild(hole) = heapLast
    BY <1>1, <1>2, <1>6 DEF MinChild
  <2>2. time[heap[LChild(hole)]] \in Times
    BY <1>1, <1>2, <1>4, <2>1
  <2> QED BY <1>1, <1>2, <1>3, <2>1, <2>2 DEF TimesOrdered
<1> QED BY <1>5, <1>6

(* One iteration of the loop that moves the hole down.                     *)
LEMMA DownLoopOrder ==
    ASSUME TimesOrdered, IInv, LoopOrder, IInv', tidy', DownIteration
    PROVE  LoopOrder'
<1> DEFINE c == MinChild(hole, heapLast)
<1>1. /\ pc = "down" /\ tidy /\ heapLast \in Nat /\ hole \in 1 .. heapLast
      /\ c <= heapLast /\ CLESS(time[heap[c]], time[placed])
  BY TimesTyped DEF DownIteration, GoesDown, MoveHole
<1>2. /\ c \in 2 .. heapLast /\ c # hole /\ Parent(c) = hole
      /\ \A i \in 2 .. heapLast : Parent(i) = hole => CLSE(time[heap[c]], time[heap[i]])
  BY <1>1, MinChildIsMin
<1>3. /\ heapLast' = heapLast /\ time' = time /\ pc' = "down" /\ placed' = placed /\ hole' = c
      /\ heap' = [heap EXCEPT ![hole] = heap[c]]
  BY <1>1 DEF DownIteration, MoveHole
<1> HIDE DEF c
<1>4. heap'[hole] = heap[c] /\ \A i \in 1 .. heapLast : i # hole => heap'[i] = heap[i]
  BY <1>1, <1>3 DEF IInv, TypeOK, Slots
<1>5. \A i \in 2 .. heapLast : Parent(i) \in 1 .. i - 1
  BY <1>1, ParentBelow
<1>6. time[placed] \in Times /\ time[heap[c]] \in Times
  BY <1>1, <1>2, TimesTyped
<1>7. CLSE(time[heap[c]], time[placed])
  BY <1>1, <1>6 DEF TimesOrdered
<1>8. \A i \in 2 .. heapLast : i # c /\ Parent(i) # c => CLSE(time[heap'[Parent(i)]], time[heap'[i]])
  <2> SUFFICES ASSUME NEW i \in 2 .. heapLast, i # c, Parent(i) # c
               PROVE  CLSE(time[heap'[Parent(i)]], time[heap'[i]])
    OBVIOUS
  <2>1. CASE i = hole
    BY <1>1, <1>2, <1>4, <1>5, <2>1 DEF LoopOrder
  <2>2. CASE i # hole /\ Parent(i) = hole
    BY <1>2, <1>4, <2>2
  <2>3. CASE i # hole /\ Parent(i) # hole
    BY <1>1, <1>4, <1>5, <2>3 DEF LoopOrder
  <2> QED BY <2>1, <2>2, <2>3
<1>9. \A i \in 2 .. heapLast : Parent(i) = c => CLSE(time[heap[c]], time[heap'[i]])
  BY <1>1, <1>2, <1>4, <1>5 DEF LoopOrder
<1> QED BY <1>1, <1>2, <1>3, <1>4, <1>7, <1>8, <1>9 DEF LoopOrder

(* The end of either loop closes the hole.                                 *)
LEMMA EndLoopOrder ==
    ASSUME TimesOrdered, IInv, LoopOrder, IInv', tidy', UpEnd \/ DownEnd
    PROVE  LoopOrder'
<1>1. /\ pc \in {"up", "down"} /\ tidy /\ heapLast \in Nat /\ hole \in 1 .. heapLast
      /\ time[placed] \in Times
  BY TimesTyped DEF UpEnd, DownEnd, FillHole
<1>2. /\ heapLast' = heapLast /\ time' = time /\ pc' = "idle" /\ hole' = 0
      /\ heap' = [heap EXCEPT ![hole] = placed]
  BY DEF UpEnd, DownEnd, FillHole
<1>3. heap'[hole] = placed /\ \A i \in 1 .. heapLast : i # hole => heap'[i] = heap[i]
  BY <1>1, <1>2 DEF IInv, TypeOK, Slots
<1>4. \A i \in 2 .. heapLast : Parent(i) \in 1 .. i - 1
  BY <1>1, ParentBelow
<1>5. \A i \in 1 .. heapLast : i # hole => time[heap[i]] \in Times
  BY <1>1, TimesTyped
<1>6. hole > 1 => CLSE(time[heap[Parent(hole)]], time[placed])
  <2> SUFFICES ASSUME hole > 1 PROVE CLSE(time[heap[Parent(hole)]], time[placed])
    OBVIOUS
  <2>1. time[heap[Parent(hole)]] \in Times
    BY <1>1, <1>4, <1>5
  <2>2. CASE UpEnd
    BY <1>1, <2>1, <2>2 DEF UpEnd, GoesUp, TimesOrdered
  <2>3. CASE DownEnd
    BY <1>1, <2>3 DEF DownEnd, LoopOrder
  <2> QED BY <2>2, <2>3
<1>7. \A i \in 2 .. heapLast : Parent(i) = hole => CLSE(time[placed], time[heap[i]])
  <2>1. CASE UpEnd
    BY <1>1, <2>1 DEF UpEnd, LoopOrder
  <2>2. CASE DownEnd
    <3>1. pc = "down" /\ ~GoesDown
      BY <2>2 DEF DownEnd
    <3> SUFFICES ASSUME NEW i \in 2 .. heapLast, Parent(i) = hole
                 PROVE  CLSE(time[placed], time[heap[i]])
      OBVIOUS
    <3>2. MinChild(hole, heapLast) <= heapLast
      BY <1>1, ChildrenOf DEF MinChild, LChild, RChild
    <3> DEFINE c == MinChild(hole, heapLast)
    <3>3. /\ c \in 2 .. heapLast /\ c # hole /\ CLSE(time[heap[c]], time[heap[i]])
          /\ ~CLESS(time[heap[c]], time[placed])
      BY <3>1, <3>2, MinChildIsMin DEF GoesDown
    <3>4. i # hole
      BY <1>4
    <3> HIDE DEF c
    <3>5. time[heap[c]] \in Times /\ time[heap[i]] \in Times
      BY <1>1, <1>5, <3>3, <3>4
    <3>6. CLSE(time[placed], time[heap[c]])
      BY <1>1, <3>3, <3>5 DEF TimesOrdered
    <3> QED BY <1>1, <3>3, <3>5, <3>6 DEF TimesOrdered
  <2> QED BY <2>1, <2>2
<1>8. \A i \in 2 .. heapLast : CLSE(time[heap'[Parent(i)]], time[heap'[i]])
  <2> TAKE i \in 2 .. heapLast
  <2>1. CASE i = hole
    BY <1>1, <1>3, <1>4, <1>6, <2>1
  <2>2. CASE i # hole /\ Parent(i) = hole
    BY <1>3, <1>7, <2>2
  <2>3. CASE i # hole /\ Parent(i) # hole
    BY <1>1, <1>3, <1>4, <2>3 DEF LoopOrder
  <2> QED BY <2>1, <2>2, <2>3
<1> QED BY <1>1, <1>2, <1>8 DEF LoopOrder

(* The order is kept by every step.                                        *)
LEMMA NextLoopOrder ==
    ASSUME TimesOrdered, IInv, LoopOrder, IInv', [Next]_vars
    PROVE  LoopOrder'
<1>1. CASE ~tidy'
  BY <1>1 DEF LoopOrder
<1>2. CASE tidy' /\ UNCHANGED vars
  BY <1>2 DEF vars, LoopOrder
<1>3. CASE tidy' /\ Next
  BY <1>3, CallLoopOrder, UpLoopOrder, DownLoopOrder, EndLoopOrder DEF Next
<1> QED BY <1>1, <1>2, <1>3

LEMMA LoopOrderHolds ==
    ASSUME WithinHalfTurn(Times)
    PROVE  Spec => [](IInv /\ LoopOrder)
<1>1. Init => IInv /\ LoopOrder
  BY InitIInv, InitLoopOrder
<1>2. IInv /\ LoopOrder /\ [Next]_vars => (IInv /\ LoopOrder)'
  BY NextIInv, NextLoopOrder, TimesAreOrdered
<1> QED BY <1>1, <1>2, PTL DEF Spec

(* As long as no removal has filled its hole with an event earlier than    *)
(* the event above, no queued event is earlier than its parent, whatever   *)
(* sequence of operations ran, and across the wrap of the time words.      *)
THEOREM OrderIsKept ==
    ASSUME WithinHalfTurn(Times)
    PROVE  Spec => []OrderKept
<1>1. IInv /\ LoopOrder => OrderKept
  BY IdleOrder DEF OrderKept
<1> QED BY LoopOrderHolds, <1>1, PTL

(* ... and heap[0] of the C array, which the scheduler runs next, is an    *)
(* earliest event.                                                         *)
THEOREM TopStaysEarliest ==
    ASSUME WithinHalfTurn(Times)
    PROVE  Spec => []TopIsEarliest
<1>1. IInv /\ LoopOrder => TopIsEarliest
  BY IdleOrder, TopOfOrdered, TimesAreOrdered DEF TopIsEarliest
<1> QED BY LoopOrderHolds, <1>1, PTL
=============================================================================
