----------------------------- MODULE SharedMemory ---------------------------
(***************************************************************************)
(* A shared memory object of the Cache Kernel (development/CK/shmem.c):    *)
(* invitations and attachments in two linked lists, kept by threads that   *)
(* are preempted between the test of "dead" and the critical section, the  *)
(* walks of CKshMemNotify and CKshMemDestroy, which have no lock, and the  *)
(* end of the object when it is uncached.                                  *)
(*                                                                         *)
(* A critical section of the object's mutex is one step.  A call that is   *)
(* refused changes nothing.  The range of the object is set in advance and *)
(* maps as one; of the signals those are modelled that a walk sends.       *)
(***************************************************************************)
EXTENDS Integers, FiniteSets

CONSTANTS Threads,
          Owner,     (* the thread that has cached the object              *)
          SpaceOf,   (* the address space of each thread                   *)
          LogAddrs,  (* addresses at which the object can be attached      *)
          Cells,     (* addresses of list entries: a bound                 *)
          NIL,
          Allowed    (* which of the features the code is not correct for
                        may happen                                         *)

Features == {"late",      (* a call other than CKshMemAttach is in progress
                             when the object dies, or any when it is freed *)
             "foreign",   (* the object is uncached by another thread      *)
             "moving",    (* a thread attaches while the owner notifies    *)
             "overlap"}   (* one address in a space is attached to twice   *)

ASSUME SharedMemoryAssumption ==
    /\ Owner \in Threads
    /\ NIL \notin Cells \cup Threads \cup LogAddrs
    /\ IsFiniteSet(Cells)
    /\ Allowed \subseteq Features

Spaces == { SpaceOf[t] : t \in Threads }

VARIABLES
    loaded, dead,    (* the object is cached; smo->dead                    *)
    Invited,         (* firstInvited and lastInvited                       *)
    Thread,          (* firstThread and lastThread                         *)
    next, thread,    (* the fields of the entries; a free one has no thread *)
    logicalAddr,
    mapped,          (* where the object is mapped in each space           *)
    call,            (* where each thread is in its call                   *)
    owed             (* history: the signals that each thread is still to
                        get from the walk that is under way                *)

lists == <<Invited, Thread>>
cells == <<next, thread, logicalAddr>>
vars  == <<loaded, dead, lists, cells, mapped, call, owed>>

Empty  == [first |-> NIL, last |-> NIL]
NoCall == [at |-> "idle", cell |-> NIL, addr |-> NIL]

Init ==
    /\ loaded = TRUE /\ dead = FALSE
    /\ Invited = Empty /\ Thread = Empty
    /\ next = [c \in Cells |-> NIL]
    /\ thread = [c \in Cells |-> NIL]
    /\ logicalAddr = [c \in Cells |-> NIL]
    /\ mapped = [s \in Spaces |-> {}]
    /\ call = [t \in Threads |-> NoCall]
    /\ owed = [t \in Threads |-> 0]

Idle(t)   == call[t] = NoCall
Return(t) == call' = [call EXCEPT ![t] = NoCall]
Goto(t, at, cell, addr) ==
    call' = [call EXCEPT ![t] = [at |-> at, cell |-> cell, addr |-> addr]]

-----------------------------------------------------------------------------
(* The entries from c on, as a walk along "next" meets them. *)
Chain(c) ==
    { d \in Cells :
        \A S \in SUBSET Cells :
            c \in S \cup {NIL} /\ (\A x \in S : next[x] \in S \cup {NIL}) => d \in S }

Members(list) == Chain(list.first)

(* The first entry of a thread, and the entry in front of it. *)
fetchThread(list, t) ==
    { c \in Members(list) :
        thread[c] = t /\ \A d \in Members(list) : thread[d] = t => d \in Chain(c) }

Before(list, c) ==
    IF list.first = c THEN NIL
    ELSE CHOOSE p \in Members(list) : next[p] = c

(* Mutation: the last entry is still the last one when it is gone.         *)
Without_Last(list, c) ==
    [first |-> IF list.first = c THEN next[c] ELSE list.first, last |-> list.last]

(* The holder of a list without c, and with c at its end. *)
Without(list, c) ==
    [first |-> IF list.first = c THEN next[c] ELSE list.first,
     last  |-> IF list.last = c THEN Before(list, c) ELSE list.last]

With(list, c) ==
    [first |-> IF list.first = NIL THEN c ELSE list.first, last |-> c]

(* The links with c taken out of a list, and with c put at the end of one. *)
Unlinked(from, c) ==
    [p \in Cells |-> IF p = Before(from, c) THEN next[c] ELSE next[p]]

Appended(links, to, c) ==
    [p \in Cells |-> IF p = c THEN NIL ELSE IF p = to.last THEN c ELSE links[p]]

-----------------------------------------------------------------------------
(* CKshMemInvite: whoever calls, of whomever. *)
CKshMemInvite(t, u, c) ==
    /\ Idle(t)
    /\ loaded /\ ~dead
    /\ thread[c] = NIL
    /\ thread' = [thread EXCEPT ![c] = u]
    /\ next' = [next EXCEPT ![c] = NIL]
    /\ logicalAddr' = [logicalAddr EXCEPT ![c] = NIL]
    /\ Goto(t, "invite", c, NIL)
    /\ UNCHANGED <<loaded, dead, lists, mapped, owed>>

InviteLinks(t) ==
    /\ call[t].at = "invite"
    /\ LET c == call[t].cell
       IN  /\ next' = Appended(next, Invited, c)
           /\ Invited' = With(Invited, c)
    /\ Return(t)
    /\ UNCHANGED <<loaded, dead, Thread, thread, logicalAddr, mapped, owed>>

CKshMemAttach(t, addr) ==
    /\ Idle(t)
    /\ t # Owner
    /\ loaded /\ ~dead
    /\ Goto(t, "attach", NIL, addr)
    /\ UNCHANGED <<loaded, dead, lists, cells, mapped, owed>>

Notifying == call[Owner].at = "notify"

(* The entry moves from one list to the other.                             *)
AttachLinks(t) ==
    /\ call[t].at = "attach"
    /\ Notifying => "moving" \in Allowed
    /\ LET addr == call[t].addr
       IN  \E c \in fetchThread(Invited, t) :
               /\ addr \in mapped[SpaceOf[t]] => "overlap" \in Allowed
               /\ mapped' = [mapped EXCEPT ![SpaceOf[t]] = @ \cup {addr}]
               /\ Invited' = Without(Invited, c)
               /\ Thread' = With(Thread, c)
               /\ next' = Appended(Unlinked(Invited, c), Thread, c)
               /\ logicalAddr' = [logicalAddr EXCEPT ![c] = addr]
    /\ Return(t)
    /\ UNCHANGED <<loaded, dead, thread, owed>>

(* The caller is not invited, or the pages cannot be mapped. *)
AttachFails(t) ==
    /\ call[t].at = "attach"
    /\ Return(t)
    /\ UNCHANGED <<loaded, dead, lists, cells, mapped, owed>>

(* CKshMemDetach, and CKshMemRemap, which begins with it. *)
CKshMemDetach(t) ==
    /\ Idle(t)
    /\ loaded /\ ~dead
    /\ Goto(t, "detach", NIL, NIL)
    /\ UNCHANGED <<loaded, dead, lists, cells, mapped, owed>>

CKshMemRemap(t, addr) ==
    /\ Idle(t)
    /\ loaded /\ ~dead
    /\ Goto(t, "detach", NIL, addr)
    /\ UNCHANGED <<loaded, dead, lists, cells, mapped, owed>>

Detached(t) ==
    IF call[t].addr = NIL THEN Return(t) ELSE Goto(t, "remap", NIL, call[t].addr)

(* Mutation: the new address of a remap is unmapped.                       *)
Unmapped_New(t, c) ==
    mapped' = [mapped EXCEPT ![SpaceOf[t]] = @ \ {call[t].addr}]

Unmapped(t, c) ==
    mapped' = [mapped EXCEPT ![SpaceOf[t]] = @ \ {logicalAddr[c]}]

(* Mutation: the entry is freed as if the object were dead.                *)
DetachLinks_Freed(t) ==
    /\ call[t].at = "detach"
    /\ \E c \in fetchThread(Thread, t) :
           /\ Unmapped(t, c)
           /\ Thread' = Without(Thread, c)
           /\ thread' = [thread EXCEPT ![c] = NIL]
           /\ next' = Appended(Unlinked(Thread, c), Invited, c)
           /\ Invited' = With(Invited, c)
    /\ Detached(t)
    /\ UNCHANGED <<loaded, dead, logicalAddr, owed>>

(* Whoever detaches is invited again, unless the object has died meanwhile. *)
DetachLinks(t) ==
    /\ call[t].at = "detach"
    /\ \E c \in fetchThread(Thread, t) :
           /\ Unmapped(t, c)
           /\ Thread' = Without(Thread, c)
           /\ IF dead
              THEN /\ thread' = [thread EXCEPT ![c] = NIL]
                   /\ next' = Unlinked(Thread, c)
                   /\ UNCHANGED Invited
              ELSE /\ next' = Appended(Unlinked(Thread, c), Invited, c)
                   /\ Invited' = With(Invited, c)
                   /\ UNCHANGED thread
    /\ Detached(t)
    /\ UNCHANGED <<loaded, dead, logicalAddr, owed>>

DetachFails(t) ==
    /\ call[t].at = "detach"
    /\ fetchThread(Thread, t) = {}
    /\ Return(t)
    /\ UNCHANGED <<loaded, dead, lists, cells, mapped, owed>>

(* The second half of CKshMemRemap begins. *)
Reattach(t) ==
    /\ call[t].at = "remap"
    /\ IF dead THEN Return(t) ELSE Goto(t, "attach", NIL, call[t].addr)
    /\ UNCHANGED <<loaded, dead, lists, cells, mapped, owed>>

-----------------------------------------------------------------------------
(* The walks of the owner: "notify" along the invited threads, "bury" along *)
(* those that were invited when the object died, "mourn" along the attached *)
(* ones.                                                                   *)
Entries(list, t) == Cardinality({ c \in Members(list) : thread[c] = t })

CKsendSignal(t) == owed' = [owed EXCEPT ![t] = @ - 1]

Walk(at, cell) == Goto(Owner, at, cell, NIL)

CKshMemNotify ==
    /\ Idle(Owner)
    /\ loaded /\ ~dead
    /\ Walk("notify", Invited.first)
    /\ owed' = [t \in Threads |-> Entries(Invited, t)]
    /\ UNCHANGED <<loaded, dead, lists, cells, mapped>>

Notify ==
    /\ Notifying
    /\ LET c == call[Owner].cell
       IN  /\ c # NIL
           /\ CKsendSignal(thread[c])
           /\ Walk("notify", next[c])
    /\ UNCHANGED <<loaded, dead, lists, cells, mapped>>

NotifyEnds ==
    /\ Notifying
    /\ call[Owner].cell = NIL
    /\ Return(Owner)
    /\ owed' = [t \in Threads |-> 0]
    /\ UNCHANGED <<loaded, dead, lists, cells, mapped>>

(* Mutation: the invited threads can be found while they are told.         *)
CKshMemDestroy_StillInvited ==
    /\ Idle(Owner)
    /\ dead' = TRUE
    /\ Walk("bury", Invited.first)
    /\ UNCHANGED <<loaded, Invited>>

(* The object dies, and the list of the invited becomes private, in one    *)
(* critical section.                                                       *)
CKshMemDestroy ==
    /\ Idle(Owner)
    /\ dead' = TRUE
    /\ Invited' = Empty
    /\ Walk("bury", Invited.first)
    /\ UNCHANGED loaded

(* When it is not the owner that uncaches the object, CKshMemDestroy refuses *)
(* and the object is freed all the same.                                   *)
CKunloadSHMemObject(t) ==
    /\ loaded /\ ~dead
    /\ \A u \in Threads : call[u].at \in {"idle", "attach", "remap"} \/ "late" \in Allowed
    /\ IF t = Owner THEN CKshMemDestroy
       ELSE /\ "foreign" \in Allowed
            /\ loaded' = FALSE
            /\ UNCHANGED <<dead, Invited, call>>
    /\ owed' = [u \in Threads |-> Entries(Invited, u) + Entries(Thread, u)]
    /\ UNCHANGED <<Thread, cells, mapped>>

Bury ==
    /\ call[Owner].at = "bury"
    /\ LET c == call[Owner].cell
       IN  /\ c # NIL
           /\ thread' = [thread EXCEPT ![c] = NIL]
           /\ CKsendSignal(thread[c])
           /\ Walk("bury", next[c])
    /\ UNCHANGED <<loaded, dead, lists, next, logicalAddr, mapped>>

Buried ==
    /\ call[Owner].at = "bury"
    /\ call[Owner].cell = NIL
    /\ Walk("mourn", Thread.first)
    /\ UNCHANGED <<loaded, dead, lists, cells, mapped, owed>>

Mourn ==
    /\ call[Owner].at = "mourn"
    /\ LET c == call[Owner].cell
       IN  /\ c # NIL
           /\ CKsendSignal(thread[c])
           /\ Walk("mourned", c)
    /\ UNCHANGED <<loaded, dead, lists, cells, mapped>>

(* The link is read when the signal has been sent. *)
MournNext ==
    /\ call[Owner].at = "mourned"
    /\ Walk("mourn", next[call[Owner].cell])
    /\ UNCHANGED <<loaded, dead, lists, cells, mapped, owed>>

(* The object is freed, with its threads still attached to it. *)
Freed ==
    /\ call[Owner].at = "mourn"
    /\ call[Owner].cell = NIL
    /\ (\A t \in Threads \ {Owner} : Idle(t)) \/ "late" \in Allowed
    /\ loaded' = FALSE
    /\ Return(Owner)
    /\ UNCHANGED <<dead, lists, cells, mapped, owed>>

Next ==
    \/ \E t \in Threads :
          \/ \E u \in Threads, c \in Cells : CKshMemInvite(t, u, c)
          \/ InviteLinks(t)
          \/ \E addr \in LogAddrs : CKshMemAttach(t, addr) \/ CKshMemRemap(t, addr)
          \/ AttachLinks(t) \/ AttachFails(t)
          \/ CKshMemDetach(t) \/ DetachLinks(t) \/ DetachFails(t) \/ Reattach(t)
          \/ CKunloadSHMemObject(t)
    \/ CKshMemNotify \/ Notify \/ NotifyEnds
    \/ Bury \/ Buried \/ Mourn \/ MournNext \/ Freed

Spec == Init /\ [][Next]_vars
-----------------------------------------------------------------------------
(* A thread that is nowhere, that is inviting, in a call that may lead to an *)
(* attachment, or on a walk.                                               *)
Calls ==
    {NoCall}
    \cup [at : {"invite"}, cell : Cells, addr : {NIL}]
    \cup [at : {"attach", "detach", "remap"}, cell : {NIL}, addr : LogAddrs]
    \cup [at : {"detach"}, cell : {NIL}, addr : {NIL}]
    \cup [at : {"notify", "bury", "mourn"}, cell : Cells \cup {NIL}, addr : {NIL}]
    \cup [at : {"mourned"}, cell : Cells, addr : {NIL}]

(* Every variable has its type. *)
TypeOK ==
    /\ loaded \in BOOLEAN /\ dead \in BOOLEAN
    /\ {Invited, Thread} \subseteq [first : Cells \cup {NIL}, last : Cells \cup {NIL}]
    /\ next \in [Cells -> Cells \cup {NIL}]
    /\ thread \in [Cells -> Threads \cup {NIL}]
    /\ logicalAddr \in [Cells -> LogAddrs \cup {NIL}]
    /\ mapped \in [Spaces -> SUBSET LogAddrs]
    /\ call \in [Threads -> Calls]
    /\ owed \in [Threads -> Int]

(* Each list leads from its first entry to its last one, no entry is on     *)
(* both, and none that is allocated is lost while the object is alive.     *)
ListsWhole ==
    LET Whole(list) == IF list.first = NIL THEN list.last = NIL
                       ELSE list.last \in Members(list) /\ next[list.last] = NIL
    IN  /\ TypeOK
        /\ Whole(Invited) /\ Whole(Thread)
        /\ Members(Invited) \cap Members(Thread) = {}
        /\ ~dead => { c \in Cells : thread[c] # NIL }
                       = Members(Invited) \cup Members(Thread)
                         \cup ({ call[t].cell : t \in { u \in Threads : call[u].at = "invite" } })

(* The object is mapped where threads are attached to it, and nowhere else, *)
(* whatever is remapped and whichever half of a remap fails.               *)
MappedWhileAttached ==
    \A s \in Spaces :
        mapped[s] = { logicalAddr[c] : c \in { d \in Members(Thread) : SpaceOf[thread[d]] = s } }

(* When the object has been freed everyone who was invited or attached when *)
(* it died has been told so, once for each entry; and a notification        *)
(* reaches everyone who was invited when it began.                         *)
EveryoneIsTold ==
    /\ ~loaded => \A t \in Threads : owed[t] = 0
    /\ Notifying /\ call[Owner].cell = NIL => \A t \in Threads : owed[t] <= 0

(* The walks, which have no lock, meet allocated entries only.             *)
WalksAllocated ==
    call[Owner].cell # NIL => thread[call[Owner].cell] # NIL
=============================================================================
