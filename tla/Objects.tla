------------------------------- MODULE Objects ------------------------------
(***************************************************************************)
(* The system object manager of the Cache Kernel (development/CK/objmgmt.c *)
(* with graph.c): caching and uncaching of kernels, address spaces,        *)
(* threads and shared memory objects by threads that are preempted inside  *)
(* sysObjManLock.                                                          *)
(*                                                                         *)
(* A load is one step: nobody looks at what it changes while it holds the  *)
(* lock.  An uncache takes one step per object, dependants first.  A load  *)
(* that is refused, or finds no memory for its header, changes nothing.    *)
(* Callers name objects that are loaded, and two callers never uncache at  *)
(* once objects of which one depends on the other.                         *)
(***************************************************************************)
EXTENDS DepGraph, FiniteSets

CONSTANT MaxOf   (* most objects of each kind: a bound *)

Kinds   == {"Free", "Thread", "AddrSpc", "Kernel", "SHMem"}
Headers == [kind   : Kinds,
            space  : Objects \cup {NoObject},
            parent : Objects \cup {NoObject}]

FreeHeader == [kind |-> "Free", space |-> NoObject, parent |-> NoObject]

ASSUME ObjectsAssumption == MaxOf \in [Kinds \ {"Free"} -> Nat]

VARIABLES
    header,        (* kind of each object, its address space and its parent
                      (parentKernel, or the owner of shared memory)        *)
    graph,
    sysObjManLock, (* the thread that holds the lock                       *)
    uncaching,     (* the object that each thread is uncaching             *)
    cascade        (* the calls of CKunloadObject, innermost first; the last
                      one stands for CKunCacheObject itself                *)

vars == <<header, graph, sysObjManLock, uncaching, cascade>>

Kind(o)   == header[o].kind
Of(k)     == { o \in Objects : Kind(o) = k }
Loaded    == Objects \ Of("Free")
OrNone(S) == S \cup {NoObject}

(* What an object with the given header depends on.  A kernel's address    *)
(* space is no dependency, and left out of the header.                     *)
Depends(h) == {h.space, h.parent} \ {NoObject}

(* An object and all that it depends on: shared memory on a thread, that on *)
(* an address space, that on a kernel.                                     *)
Up(S)       == S \cup UNION { Depends(header[o]) : o \in S }
Ancestry(o) == Up(Up(Up({o})))

-----------------------------------------------------------------------------
(* The graph with a new object in it: first the dependency on the address  *)
(* space, then the one on the parent.                                      *)
Linked(g, o, parent) ==
    IF parent = NoObject THEN g ELSE CKaddObjectDep(g, parent, o)

Unlinked(g, o, parent) ==
    IF parent = NoObject THEN g ELSE CKremoveDepSearch(g, parent, o)

Fresh(g, o) == [g EXCEPT !.firstDependency[o] = 0, !.dependencies[o] = 0]

(* The boot loader's module: its address space and its thread. *)
Init ==
    /\ \E a, t \in Objects :
           /\ a # t
           /\ header = [o \in Objects |->
                 IF o = a THEN [FreeHeader EXCEPT !.kind = "AddrSpc"]
                 ELSE IF o = t THEN [kind |-> "Thread", space |-> a, parent |-> NoObject]
                 ELSE FreeHeader]
           /\ graph = Linked(EmptyGraph, t, a)
    /\ sysObjManLock = NoObject
    /\ uncaching = [o \in Objects |-> NoObject]
    /\ cascade = <<>>

(* A thread calls the object manager and enters the critical section. *)
Enters(c) ==
    /\ Kind(c) = "Thread"
    /\ sysObjManLock = NoObject
    /\ uncaching[c] = NoObject

(* A header is allocated at an address and filled in. *)
Load(o, h) ==
    /\ Kind(o) = "Free"
    /\ Cardinality(Of(h.kind)) < MaxOf[h.kind]
    /\ header' = [header EXCEPT ![o] = h]
    /\ UNCHANGED <<sysObjManLock, uncaching, cascade>>

CKloadKernelObject(c, o) ==
    /\ Enters(c)
    /\ Load(o, [kind |-> "Kernel", space |-> NoObject, parent |-> NoObject])
    /\ graph' = Fresh(graph, o)

(* The parent kernel may be the caller's own, or none. *)
CKloadAddrSpcObject(c, o, k) ==
    /\ Enters(c)
    /\ Load(o, [kind |-> "AddrSpc", space |-> NoObject, parent |-> k])
    /\ graph' = Linked(Fresh(graph, o), o, k)

CKloadThreadObject(c, o, a, k) ==
    /\ Enters(c)
    /\ Load(o, [kind |-> "Thread", space |-> a, parent |-> k])
    /\ graph' = Linked(Linked(Fresh(graph, o), o, a), o, k)

(* The owner is the calling thread. *)
CKloadSHMemObject(c, o) ==
    /\ Enters(c)
    /\ Load(o, [kind |-> "SHMem", space |-> NoObject, parent |-> c])
    /\ graph' = Linked(Fresh(graph, o), o, c)

-----------------------------------------------------------------------------
Independent(d) ==
    \A c \in Objects : uncaching[c] # NoObject =>
        d \notin Ancestry(uncaching[c]) /\ uncaching[c] \notin Ancestry(d)

(* CKunCacheObject: the object is looked at before the lock is taken. *)
CKunCacheObject(c, d) ==
    /\ Kind(c) = "Thread"
    /\ c # sysObjManLock
    /\ uncaching[c] = NoObject
    /\ Independent(d)
    /\ uncaching' = [uncaching EXCEPT ![c] = d]
    /\ UNCHANGED <<header, graph, sysObjManLock, cascade>>

UnCacheEnters(c) ==
    /\ sysObjManLock = NoObject
    /\ uncaching[c] # NoObject
    /\ sysObjManLock' = c
    /\ cascade' = <<uncaching[c]>>
    /\ UNCHANGED <<header, graph, uncaching>>

(* Mutation: the last dependant is overlooked.                             *)
Dependants_OneShort(o) == graph.dependencies[o] > 1

Dependants(o) == graph.dependencies[o] > 0

(* Mutation: the first edge of the array in place of the object's first.   *)
CKunloadObject_FirstOfAll ==
    /\ cascade # <<>>
    /\ Dependants(Head(cascade))
    /\ cascade' = <<graph.ODA[1].child>> \o cascade
    /\ UNCHANGED <<header, graph, sysObjManLock, uncaching>>

(* The first dependant is unloaded first. *)
CKunloadObject ==
    /\ cascade # <<>>
    /\ LET o == Head(cascade)
       IN  /\ Dependants(o)
           /\ cascade' = <<graph.ODA[graph.firstDependency[o]].child>> \o cascade
    /\ UNCHANGED <<header, graph, sysObjManLock, uncaching>>

(* The calls of a thread that is gone never return. *)
Returns(o) ==
    /\ cascade' = Tail(cascade)
    /\ IF cascade' = <<>>
       THEN /\ sysObjManLock' = NoObject
            /\ uncaching' = [uncaching EXCEPT ![sysObjManLock] = NoObject, ![o] = NoObject]
       ELSE /\ uncaching' = [uncaching EXCEPT ![o] = NoObject]
            /\ UNCHANGED sysObjManLock

(* Mutation: a thread that unloads itself keeps the lock.                  *)
Dies_Locked(o) ==
    /\ cascade' = <<>>
    /\ uncaching' = [uncaching EXCEPT ![o] = NoObject]
    /\ UNCHANGED sysObjManLock

(* A thread that unloads itself frees the lock and is not resumed: the     *)
(* calls of CKunloadObject that have led to it are given up.               *)
Dies(o) ==
    /\ cascade' = <<>>
    /\ sysObjManLock' = NoObject
    /\ uncaching' = [uncaching EXCEPT ![o] = NoObject]

Unload(o) ==
    /\ ~Dependants(o)
    /\ header' = [header EXCEPT ![o] = FreeHeader]

(* currtask is the thread that holds the lock and executes. *)
CKunloadThreadObject ==
    /\ cascade # <<>>
    /\ LET o == Head(cascade)
       IN  /\ Kind(o) = "Thread"
           /\ Unload(o)
           /\ graph' = Unlinked(Unlinked(graph, o, header[o].space), o, header[o].parent)
           /\ IF o = sysObjManLock THEN Dies(o) ELSE Returns(o)

(* Address spaces and shared memory depend on one object, kernels on none. *)
CKunloadOther ==
    /\ cascade # <<>>
    /\ LET o == Head(cascade)
       IN  /\ Kind(o) \in {"AddrSpc", "SHMem", "Kernel"}
           /\ Unload(o)
           /\ graph' = Unlinked(graph, o, header[o].parent)
           /\ Returns(o)

Next ==
    \/ \E c, o \in Objects :
           \/ Of("AddrSpc") # {} /\ CKloadKernelObject(c, o)
           \/ \E a \in Of("AddrSpc"), k \in OrNone(Of("Kernel")) :
                  CKloadThreadObject(c, o, a, k)
           \/ \E k \in OrNone(Of("Kernel")) : CKloadAddrSpcObject(c, o, k)
           \/ CKloadSHMemObject(c, o)
           \/ o \in Loaded /\ CKunCacheObject(c, o)
    \/ \E c \in Objects : UnCacheEnters(c)
    \/ CKunloadObject \/ CKunloadThreadObject \/ CKunloadOther

Spec == Init /\ [][Next]_vars
-----------------------------------------------------------------------------
(* Every variable has its type. *)
TypeOK ==
    /\ header \in [Objects -> Headers]
    /\ graph \in Graphs
    /\ sysObjManLock \in OrNone(Objects)
    /\ uncaching \in [Objects -> OrNone(Objects)]
    /\ cascade \in Seq(Objects)

(* Every object finds its own edges in the array, at every moment of every  *)
(* cascade: the search of CKremoveDepSearch and the loop of CKunloadObject  *)
(* go by first edge and number of edges alone.                             *)
GraphIndexed == Indexed(graph)

(* The edges are the dependencies of the loaded objects, each of them once. *)
GraphIsLinks ==
    /\ EdgeSet(graph) = UNION { { [parent |-> p, child |-> o] : p \in Depends(header[o]) }
                                    : o \in Loaded }
    /\ Once(graph)

(* No object outlives one that it depends on, not even inside a cascade or  *)
(* after one that ended early because it reached its own caller.           *)
ParentsLoaded ==
    \A o \in Loaded : \A p \in Depends(header[o]) : p \in Loaded

(* An uncache unloads nothing but the object named and what depends on it.  *)
OnlyDependants ==
    [][\A o \in Loaded : header'[o].kind = "Free"
           => cascade # <<>> /\ cascade[Len(cascade)] \in Ancestry(o)]_vars

(* The lock is held by a thread that is loaded, for the uncache that it     *)
(* asked for; and the calls of CKunloadObject go down along dependencies,  *)
(* so that they end.                                                       *)
LockInUse ==
    /\ sysObjManLock = NoObject <=> cascade = <<>>
    /\ sysObjManLock # NoObject =>
           /\ Kind(sysObjManLock) = "Thread"
           /\ uncaching[sysObjManLock] = cascade[Len(cascade)]
    /\ \A i \in 1 .. Len(cascade) :
           /\ cascade[i] \in Loaded
           /\ i < Len(cascade) => cascade[i + 1] \in Depends(header[cascade[i]])
=============================================================================
