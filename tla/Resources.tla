------------------------------ MODULE Resources -----------------------------
(***************************************************************************)
(* The resource manager of the Cache Kernel (development/CK/resource.c and *)
(* the forwarding of global interrupts in architecture/I80X86/kernel.c):   *)
(* I/O regions, DMA channels, global interrupts and physical memory,       *)
(* allocated and freed by threads that are preempted between the critical  *)
(* sections, while interrupts walk the chains of allocators.               *)
(*                                                                         *)
(* A critical section is one step: nobody looks at what it changes while   *)
(* another is inside.  A request that is refused changes nothing, except   *)
(* that CKallocIORegion keeps IOAllocLock if there is no memory: that is   *)
(* left out.  Callers free what is allocated, and only once.               *)
(***************************************************************************)
EXTENDS Integers, Sequences, FiniteSets

CONSTANTS Threads,     (* callers, and owners of all but physical memory   *)
          Kernels,     (* owners of physical memory                        *)
          Descriptors, (* addresses of the CK's resource structures        *)
          NIL,
          AddressSpan, (* the values of an address: it wraps               *)
          IORequests,  (* pairs of base and limit                          *)
          DMACHANNELS, (* number of DMA channels                           *)
          Interrupts,  (* the interrupts that can be allocated             *)
          Allowed      (* which of the features the code is not correct for
                          may happen                                       *)

Features == {"wrap",          (* regions up to the end of the address space *)
             "behind",        (* an allocator that is not the last one to have
                                 allocated its interrupt is freed          *)
             "concurrent",    (* two calls for one interrupt at a time     *)
             "early",         (* an interrupt comes before its new allocator
                                 is filled in                              *)
             "free in walk"}  (* an allocator is freed while an interrupt
                                 is being forwarded                        *)

Kinds     == {"IO", "DMA", "Trap", "Phys"}
Channels  == 0 .. DMACHANNELS - 1
Owners    == Threads \cup Kernels
Addresses == 0 .. AddressSpan - 1
Regions   == [base : Addresses, limit : Addresses, self : Descriptors]
Wraps(base, limit) == base + limit >= AddressSpan

ASSUME ResourcesAssumption ==
    /\ NIL \notin Descriptors
    /\ AddressSpan \in Nat \ {0}
    /\ DMACHANNELS \in Nat
    /\ IORequests \subseteq Addresses \X Addresses
    /\ Allowed \subseteq Features

VARIABLES
    resource,         (* kind and owner of each descriptor, and the channel
                         or interrupt that it is for                       *)
    lists,            (* the resources of each owner, by kind              *)
    regions,          (* the I/O regions behind IOfirstAlloc               *)
    DMAallocationMap, (* the channels that are marked                      *)
    trapHeads, ntp,   (* the chain of allocators of each interrupt         *)
    stub,             (* the interrupts that are enabled and forwarded     *)
    walk,             (* the allocator CKforwardGlobalInterrupt is at      *)
    call              (* where each thread is in its call                  *)

vars  == <<resource, lists, regions, DMAallocationMap, trapHeads, ntp, stub, walk, call>>
traps == <<trapHeads, ntp, stub>>

NoResource == [kind |-> "Free", owner |-> NIL, for |-> NIL]
NoCall     == [at |-> "idle", res |-> NIL, for |-> NIL]

IsFree(d)  == resource[d] = NoResource /\ \A t \in Threads : call[t].res # d
Idle(t)    == call[t] = NoCall
Kind(d)    == resource[d].kind
InCall(d)  == \E t \in Threads : call[t].res = d

Init ==
    /\ resource = [d \in Descriptors |-> NoResource]
    /\ lists = [o \in Owners |-> [k \in Kinds |-> <<>>]]
    /\ regions = <<>>
    /\ DMAallocationMap = {}
    /\ trapHeads = [n \in Interrupts |-> NIL]
    /\ ntp = [d \in Descriptors |-> NIL]
    /\ stub = {}
    /\ walk = NIL
    /\ call = [t \in Threads |-> NoCall]

Goto(t, at, d) == call' = [call EXCEPT ![t] = [at |-> at, res |-> d, for |-> NIL]]
Return(t)      == call' = [call EXCEPT ![t] = NoCall]

Allocate(d, kind, owner, for) ==
    /\ IsFree(d)
    /\ resource' = [resource EXCEPT ![d] = [kind |-> kind, owner |-> owner, for |-> for]]

(* A resource that is allocated, and that nobody is freeing. *)
Held(kind) == { d \in Descriptors : Kind(d) = kind /\ ~InCall(d) }

-----------------------------------------------------------------------------
(* The lists of the owners. *)

Link(owner, kind, d) ==
    lists' = [lists EXCEPT ![owner][kind] = Append(@, d)]

Removed(s, at) ==
    [i \in 1 .. Len(s) - 1 |-> IF i < at THEN s[i] ELSE s[i + 1]]

Without(s, d) ==
    IF \E i \in DOMAIN s : s[i] = d THEN Removed(s, CHOOSE i \in DOMAIN s : s[i] = d) ELSE s

Unlink(owner, kind, d) ==
    lists' = [lists EXCEPT ![owner][kind] = Without(@, d)]

(* The critical section of resourceAllocLock that ends an allocation. *)
Own(t) ==
    /\ call[t].at = "own"
    /\ LET d == call[t].res IN Link(resource[d].owner, Kind(d), d)
    /\ Return(t)
    /\ UNCHANGED <<resource, regions, DMAallocationMap, traps, walk>>

(* The one that ends a deallocation, and CKmemFree. *)
Disown(t) ==
    /\ call[t].at = "disown"
    /\ LET d == call[t].res
       IN  /\ Unlink(resource[d].owner, Kind(d), d)
           /\ resource' = [resource EXCEPT ![d] = NoResource]
    /\ Return(t)
    /\ UNCHANGED <<regions, DMAallocationMap, traps, walk>>

CKallocPhysRegion(t, d, owner) ==
    /\ Idle(t)
    /\ Allocate(d, "Phys", owner, NIL)
    /\ Goto(t, "own", d)
    /\ UNCHANGED <<lists, regions, DMAallocationMap, traps, walk>>

CKfreePhysRegion(t, d) ==
    /\ Idle(t)
    /\ d \in Held("Phys")
    /\ Goto(t, "disown", d)
    /\ UNCHANGED <<resource, lists, regions, DMAallocationMap, traps, walk>>

-----------------------------------------------------------------------------
(* I/O regions. *)

End(base, limit) == (base + limit) % AddressSpan

(* The new region begins inside region i, or in front of it. *)
Covered(i, base) == i > 0 /\ base < End(regions[i].base, regions[i].limit)

(* Mutation: it is only compared with the beginning of the next one.       *)
Fits_Begins(i, base, limit) == i = Len(regions) \/ regions[i + 1].base >= base

(* It ends in front of the next one. *)
Fits(i, base, limit) ==
    i = Len(regions) \/ regions[i + 1].base >= End(base, limit)

(* The first region behind which it fits (0 is the head holder), unless one *)
(* up to there covers it.                                                  *)
CKIOfindGap(base, limit) ==
    { i \in 0 .. Len(regions) :
        /\ limit # 0
        /\ Fits(i, base, limit)
        /\ \A j \in 0 .. i     : ~Covered(j, base)
        /\ \A j \in 0 .. i - 1 : ~Fits(j, base, limit) }

InsertBehind(gap, region) ==
    regions' = [i \in 1 .. Len(regions) + 1 |->
                   IF i <= gap THEN regions[i]
                   ELSE IF i = gap + 1 THEN region
                   ELSE regions[i - 1]]

RemoveRegion(at) == regions' = Removed(regions, at)

CKallocIORegion(t, d, owner, base, limit) ==
    /\ Idle(t)
    /\ Wraps(base, limit) => "wrap" \in Allowed
    /\ \E gap \in CKIOfindGap(base, limit) :
           InsertBehind(gap, [base |-> base, limit |-> limit, self |-> d])
    /\ Allocate(d, "IO", owner, NIL)
    /\ Goto(t, "own", d)
    /\ UNCHANGED <<lists, DMAallocationMap, traps, walk>>

CKfreeIORegion(t, d) ==
    /\ Idle(t)
    /\ d \in Held("IO")
    /\ \E at \in 1 .. Len(regions) : regions[at].self = d /\ RemoveRegion(at)
    /\ Goto(t, "disown", d)
    /\ UNCHANGED <<resource, lists, DMAallocationMap, traps, walk>>

-----------------------------------------------------------------------------
(* DMA channels: the mark is taken with XCHG, without a lock. *)

CKallocDMA(t, channel) ==
    /\ Idle(t)
    /\ ~(channel >= DMACHANNELS)
    /\ channel \notin DMAallocationMap
    /\ DMAallocationMap' = DMAallocationMap \cup {channel}
    /\ call' = [call EXCEPT ![t] = [at |-> "marked", res |-> NIL, for |-> channel]]
    /\ UNCHANGED <<resource, lists, regions, traps, walk>>

(* Mutation: the channel stays marked when there is no memory.             *)
NoMemoryForDMA_Marked(t) ==
    /\ call[t].at = "marked"
    /\ Return(t)
    /\ UNCHANGED <<resource, lists, regions, DMAallocationMap, traps, walk>>

NoMemoryForDMA(t) ==
    /\ call[t].at = "marked"
    /\ DMAallocationMap' = DMAallocationMap \ {call[t].for}
    /\ Return(t)
    /\ UNCHANGED <<resource, lists, regions, traps, walk>>

MemoryForDMA(t, d, owner) ==
    /\ call[t].at = "marked"
    /\ Allocate(d, "DMA", owner, call[t].for)
    /\ Goto(t, "own", d)
    /\ UNCHANGED <<lists, regions, DMAallocationMap, traps, walk>>

CKfreeDMA(t, d) ==
    /\ Idle(t)
    /\ d \in Held("DMA")
    /\ DMAallocationMap' = DMAallocationMap \ {resource[d].for}
    /\ Goto(t, "disown", d)
    /\ UNCHANGED <<resource, lists, regions, traps, walk>>

-----------------------------------------------------------------------------
(* Global interrupts.  CKenableIRQ and the stub come with the first        *)
(* allocator of an interrupt and go with the last.                         *)

(* The threads in a call for interrupt n. *)
CallsFor(n) ==
    { t \in Threads : call[t].at \in {"fill", "unchain"} /\ resource[call[t].res].for = n }

Undisturbed(n) == CallsFor(n) = {} \/ "concurrent" \in Allowed

(* With an empty chain a stub is generated, otherwise the head's is shared. *)
CKpreProcessTrapAlloc(n) ==
    stub' = IF trapHeads[n] = NIL THEN stub \cup {n} ELSE stub

CKpostProcessTrapAlloc(n, d) ==
    stub' = IF trapHeads[n] = d /\ ntp[d] = NIL THEN stub \ {n} ELSE stub

(* Mutation: the chain begins anew with each allocator.                    *)
CKallocTrap_Unchained(t, d, owner, n) ==
    /\ Idle(t)
    /\ Undisturbed(n)
    /\ Allocate(d, "Trap", owner, n)
    /\ CKpreProcessTrapAlloc(n)
    /\ Link(owner, "Trap", d)
    /\ ntp' = [ntp EXCEPT ![d] = NIL]
    /\ trapHeads' = [trapHeads EXCEPT ![n] = d]
    /\ Goto(t, "fill", d)
    /\ UNCHANGED <<regions, DMAallocationMap, walk>>

CKallocTrap(t, d, owner, n) ==
    /\ Idle(t)
    /\ Undisturbed(n)
    /\ Allocate(d, "Trap", owner, n)
    /\ CKpreProcessTrapAlloc(n)
    /\ Link(owner, "Trap", d)
    /\ ntp' = [ntp EXCEPT ![d] = trapHeads[n]]
    /\ trapHeads' = [trapHeads EXCEPT ![n] = d]
    /\ Goto(t, "fill", d)
    /\ UNCHANGED <<regions, DMAallocationMap, walk>>

(* The handling thread and the priority are set behind the lock. *)
FillTrap(t) ==
    /\ call[t].at = "fill"
    /\ Return(t)
    /\ UNCHANGED <<resource, lists, regions, DMAallocationMap, traps, walk>>

(* The stub is discarded without a lock. *)
CKfreeTrap(t, d) ==
    /\ Idle(t)
    /\ d \in Held("Trap")
    /\ LET n == resource[d].for
       IN  /\ Undisturbed(n)
           /\ trapHeads[n] # d => "behind" \in Allowed
           /\ walk # NIL => "free in walk" \in Allowed
           /\ CKpostProcessTrapAlloc(n, d)
    /\ Goto(t, "unchain", d)
    /\ UNCHANGED <<resource, lists, regions, DMAallocationMap, trapHeads, ntp, walk>>

(* The loop that looks for the allocator in front of d runs while the next *)
(* one is d.                                                               *)
InFront(n, d) ==
    LET pos == ntp[trapHeads[n]] IN IF ntp[pos] = d THEN d ELSE pos

(* Mutation: the head of the chain is forgotten.                           *)
Unchain_Head(n, d) ==
    UNCHANGED <<trapHeads, ntp>>

Unchain(n, d) ==
    IF trapHeads[n] = d
    THEN /\ trapHeads' = [trapHeads EXCEPT ![n] = ntp[d]]
         /\ UNCHANGED ntp
    ELSE /\ ntp' = [ntp EXCEPT ![InFront(n, d)] = ntp[d]]
         /\ UNCHANGED trapHeads

UnchainTrap(t) ==
    /\ call[t].at = "unchain"
    /\ LET d == call[t].res
       IN  /\ walk # NIL => "free in walk" \in Allowed
           /\ Unlink(resource[d].owner, "Trap", d)
           /\ Unchain(resource[d].for, d)
           /\ resource' = [resource EXCEPT ![d] = NoResource]
    /\ Return(t)
    /\ UNCHANGED <<regions, DMAallocationMap, stub, walk>>

(* An interrupt begins to walk its chain.  Interrupts are enabled after    *)
(* each allocator; another one may give the processor to a thread.         *)
CKforwardGlobalInterrupt(n) ==
    /\ n \in stub
    /\ walk = NIL
    /\ (\E t \in CallsFor(n) : call[t].at = "fill") => "early" \in Allowed
    /\ (\E t \in CallsFor(n) : call[t].at = "unchain") => "free in walk" \in Allowed
    /\ walk' = trapHeads[n]
    /\ UNCHANGED <<resource, lists, regions, DMAallocationMap, traps, call>>

(* A signal is sent to the thread of the allocator. *)
Dispatch ==
    /\ walk # NIL
    /\ walk' = ntp[walk]
    /\ UNCHANGED <<resource, lists, regions, DMAallocationMap, traps, call>>

Next ==
    \/ \E t \in Threads :
          \/ \E d \in Descriptors :
                \/ \E o \in Threads :
                      \/ \E r \in IORequests : CKallocIORegion(t, d, o, r[1], r[2])
                      \/ MemoryForDMA(t, d, o)
                      \/ \E n \in Interrupts : CKallocTrap(t, d, o, n)
                \/ \E o \in Kernels : CKallocPhysRegion(t, d, o)
                \/ CKfreeIORegion(t, d) \/ CKfreeDMA(t, d)
                \/ CKfreeTrap(t, d) \/ CKfreePhysRegion(t, d)
          \/ \E channel \in 0 .. DMACHANNELS : CKallocDMA(t, channel)
          \/ NoMemoryForDMA(t)
          \/ Own(t) \/ Disown(t) \/ FillTrap(t) \/ UnchainTrap(t)
    \/ \E n \in Interrupts : CKforwardGlobalInterrupt(n)
    \/ Dispatch

Spec == Init /\ [][Next]_vars
-----------------------------------------------------------------------------
(* Every variable has its type. *)
TypeOK ==
    /\ resource \in [Descriptors -> [kind  : Kinds \cup {"Free"},
                                     owner : Owners \cup {NIL},
                                     for   : Channels \cup Interrupts \cup {NIL}]]
    /\ lists \in [Owners -> [Kinds -> Seq(Descriptors)]]
    /\ regions \in Seq(Regions)
    /\ DMAallocationMap \subseteq Channels
    /\ trapHeads \in [Interrupts -> Descriptors \cup {NIL}]
    /\ ntp \in [Descriptors -> Descriptors \cup {NIL}]
    /\ stub \subseteq Interrupts
    /\ walk \in Descriptors \cup {NIL}
    /\ call \in [Threads -> [at  : {"idle", "own", "disown", "marked", "fill", "unchain"},
                             res : Descriptors \cup {NIL},
                             for : Channels \cup {NIL}]]

(* No two I/O regions overlap, and the list is in numerical order, which    *)
(* the search for the gap relies on.                                       *)
Disjoint == \A i, j \in 1 .. Len(regions) :
    i < j => regions[i].base + regions[i].limit <= regions[j].base

(* A channel is marked for one holder, and every holder's channel is        *)
(* marked, though one thread frees it while another allocates it.          *)
MarkedForOne ==
    LET holders(c) == { d \in Held("DMA") : resource[d].for = c }
                      \cup { t \in Threads : call[t].at = "marked" /\ call[t].for = c }
                      \cup { t \in Threads : call[t].at = "own"
                                  /\ Kind(call[t].res) = "DMA" /\ resource[call[t].res].for = c }
    IN  \A c \in Channels : Cardinality(holders(c)) = IF c \in DMAallocationMap THEN 1 ELSE 0

(* Between calls the lists of an owner hold its resources, once each.       *)
OwnersLists == \A d \in Descriptors : ~InCall(d) =>
    \A o \in Owners, k \in Kinds :
        Cardinality({ i \in 1 .. Len(lists[o][k]) : lists[o][k][i] = d })
            = IF Kind(d) = k /\ resource[d].owner = o THEN 1 ELSE 0

(* What is allocated has one holder, in the structure that all share and in *)
(* the lists of the owners, whoever is preempted between the two.          *)
HeldOnce == TypeOK /\ MarkedForOne /\ OwnersLists

(* The chain of an interrupt: the allocators that are met from its head on. *)
Chain(n) ==
    { d \in Descriptors :
        \A S \in SUBSET Descriptors :
            /\ trapHeads[n] \in S \cup {NIL}
            /\ \A x \in S : ntp[x] \in S \cup {NIL}
            => d \in S }

(* An interrupt is dispatched to all its allocators, and is enabled while   *)
(* there are any.                                                          *)
ReachesAllocators == \A d \in Held("Trap") :
    d \in Chain(resource[d].for) /\ resource[d].for \in stub

(* The allocator that an interrupt is at is allocated and filled in, though *)
(* threads allocate and free while the chain is walked.                    *)
WalksAllocators ==
    walk # NIL => Kind(walk) = "Trap"
                  /\ \A t \in Threads : call[t].res = walk => call[t].at # "fill"
=============================================================================
