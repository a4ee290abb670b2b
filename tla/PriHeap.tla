------------------------------- MODULE PriHeap ------------------------------
(***************************************************************************)
(* One priority heap of the Cache Kernel (development/CK/pri_heap.c), at   *)
(* the granularity of the iterations of its loops.                         *)
(*                                                                         *)
(* The C code keeps an array of pointers to events and, in each event, a   *)
(* backpointer to its slot.  Slots are numbered from 1 here, so the parent *)
(* of slot i is i \div 2 and its children are 2i and 2i+1 (the C code      *)
(* computes the same slots from addresses, counting from 0).               *)
(*                                                                         *)
(* A loop moves a hole through the array: "hole" is its slot (next, or     *)
(* evt in CKremoveEvent) and "placed" the event that will be written into  *)
(* it (newEvt, topEvent or event).                                         *)
(***************************************************************************)
EXTENDS CircularTime

CONSTANTS Events,      (* the events (threads) of the system               *)
          NoEvent,     (* contents of a slot that was never written        *)
          MAXEVENTS,   (* size of the array; 1024 in the kernel            *)
          Times        (* the execution times that callers give to events  *)

ASSUME PriHeapAssumption ==
    /\ NoEvent \notin Events
    /\ MAXEVENTS \in Nat \ {0}
    /\ Times \subseteq TIME

VARIABLES heap,       (* slot -> event; slots beyond heapLast keep their old contents *)
          heapLast,   (* the last used slot, 0 when the heap is empty      *)
          back,       (* event->heap, 0 before the event was ever queued   *)
          time,       (* event->time                                       *)
          pc,         (* "idle", or the loop being executed                *)
          hole, placed,
          tidy        (* history: no CKremoveEvent has filled its hole with
                         an event earlier than the parent of the hole      *)

vars == <<heap, heapLast, back, time, pc, hole, placed, tidy>>

Slots == 1 .. MAXEVENTS + 1   (* the last one is the word behind the array *)

Parent(i) == i \div 2
LChild(i) == 2 * i
RChild(i) == 2 * i + 1

(* Mutation: MINCHILD that never looks at the right child. *)
MinChild_LeftOnly(i, last) == LChild(i)

(* MINCHILD: the child with the earliest time; the left one if there is no *)
(* right one.  It may lie beyond last, which the callers test.             *)
MinChild(i, last) ==
    IF LChild(i) < last /\ CLSE(time[heap[RChild(i)]], time[heap[LChild(i)]])
    THEN RChild(i)
    ELSE LChild(i)

(* The events queued, also while a loop carries one of them (hole is 0 when *)
(* no loop runs).                                                          *)
Queued == { heap[i] : i \in (1 .. heapLast) \ {hole} }
              \cup (IF pc = "idle" THEN {} ELSE {placed})

-----------------------------------------------------------------------------
(* CKsetupHeaps *)
Init ==
    /\ heap = [i \in Slots |-> NoEvent]
    /\ heapLast = 0
    /\ back = [e \in Events |-> 0]
    /\ \E t \in Times : time = [e \in Events |-> t]   \* set again before queueing
    /\ pc = "idle"
    /\ hole = 0
    /\ placed = NoEvent
    /\ tidy = TRUE

(* A call: the processor is locked, so a call starts only when none runs.  *)
(* Once heapLast points behind the array its own word has been overwritten *)
(* and nothing more is said of the heap.                                   *)
Call == pc = "idle" /\ heapLast <= MAXEVENTS

(* CKsiftup(heaptype, newEvt), after the caller has set newEvt->time. *)
CKsiftup(newEvt, t) ==
    /\ Call
    /\ newEvt \notin Queued
    /\ time' = [time EXCEPT ![newEvt] = t]
    /\ heapLast' = heapLast + 1
    /\ hole' = heapLast + 1
    /\ placed' = newEvt
    /\ pc' = "up"
    /\ UNCHANGED <<heap, back, tidy>>

(* CKsiftdown(heaptype), after the caller has changed the time of the root. *)
CKsiftdown(t) ==
    /\ Call
    /\ heapLast > 0
    /\ time' = [time EXCEPT ![heap[1]] = t]
    /\ hole' = 1
    /\ placed' = heap[1]
    /\ pc' = "down"
    /\ UNCHANGED <<heap, heapLast, back, tidy>>

(* Mutation: heapLast is decremented before the last event is read.         *)
CKremoveEvent_DecrementsFirst(event) ==
    /\ Call
    /\ event \in Queued
    /\ LET filler == IF heapLast = 1 THEN event ELSE heap[heapLast - 1]
       IN  /\ heap' = [heap EXCEPT ![back[event]] = filler]
           /\ back' = [back EXCEPT ![filler] = back[event]]
    /\ heapLast' = heapLast - 1
    /\ UNCHANGED <<time, pc, hole, placed, tidy>>

(* CKremoveEvent(heaptype, event->heap): the last event fills the hole and *)
(* is then moved down, never up.                                           *)
CKremoveEvent(event) ==
    /\ Call
    /\ event \in Queued
    /\ LET evt    == back[event]
           filler == heap[heapLast]
       IN  /\ heap' = [heap EXCEPT ![evt] = filler]
           /\ back' = [back EXCEPT ![filler] = evt]
           /\ heapLast' = heapLast - 1
           /\ IF evt = heapLast
              THEN UNCHANGED <<pc, hole, placed>>    \* no child: the loop ends at once
              ELSE pc' = "down" /\ hole' = evt /\ placed' = filler
           /\ tidy' = (tidy /\ (\/ evt \in {1, heapLast}
                                \/ CLSE(time[heap[Parent(evt)]], time[filler])))
    /\ UNCHANGED time

(* CKprioritise(event) for an event of this heap: it gets the time of the  *)
(* root and moves up from its slot.                                        *)
CKprioritise(event) ==
    /\ Call
    /\ event \in Queued
    /\ time' = [time EXCEPT ![event] = time[heap[1]]]
    /\ hole' = back[event]
    /\ placed' = event
    /\ pc' = "up"
    /\ UNCHANGED <<heap, heapLast, back, tidy>>

-----------------------------------------------------------------------------
(* The loops. *)
GoesUp == hole > 1 /\ CLESS(time[placed], time[heap[Parent(hole)]])

(* Mutation: an event also sinks below children as early as itself. *)
GoesDown_Ties ==
    LET child == MinChild(hole, heapLast)
    IN  child <= heapLast /\ CLSE(time[heap[child]], time[placed])

GoesDown ==
    LET child == MinChild(hole, heapLast)
    IN  child <= heapLast /\ CLESS(time[heap[child]], time[placed])

(* Mutation: the backpointer of the moved event is not adjusted. *)
MoveHole_StaleBackpointer(from) ==
    /\ heap' = [heap EXCEPT ![hole] = heap[from]]
    /\ hole' = from
    /\ UNCHANGED <<heapLast, back, time, pc, placed, tidy>>

(* One iteration: the event of slot "from" moves into the hole. *)
MoveHole(from) ==
    /\ heap' = [heap EXCEPT ![hole] = heap[from]]
    /\ back' = [back EXCEPT ![heap[from]] = hole]
    /\ hole' = from
    /\ UNCHANGED <<heapLast, time, pc, placed, tidy>>

FillHole ==
    /\ heap' = [heap EXCEPT ![hole] = placed]
    /\ back' = [back EXCEPT ![placed] = hole]
    /\ pc' = "idle"
    /\ hole' = 0
    /\ placed' = NoEvent
    /\ UNCHANGED <<heapLast, time, tidy>>

UpIteration   == pc = "up"   /\ GoesUp    /\ MoveHole(Parent(hole))
UpEnd         == pc = "up"   /\ ~GoesUp   /\ FillHole
DownIteration == pc = "down" /\ GoesDown  /\ MoveHole(MinChild(hole, heapLast))
DownEnd       == pc = "down" /\ ~GoesDown /\ FillHole

Next ==
    \/ \E e \in Events, t \in Times : CKsiftup(e, t)
    \/ \E t \in Times : CKsiftdown(t)
    \/ \E e \in Events : CKremoveEvent(e)
    \/ \E e \in Events : CKprioritise(e)
    \/ UpIteration \/ UpEnd \/ DownIteration \/ DownEnd

Spec == Init /\ [][Next]_vars
-----------------------------------------------------------------------------
(* The types of the variables of the module.                               *)
TypeOK ==
    /\ heap \in [Slots -> Events \cup {NoEvent}]
    /\ heapLast \in 0 .. MAXEVENTS + 1
    /\ back \in [Events -> 0 .. MAXEVENTS + 1]
    /\ time \in [Events -> Times]
    /\ pc \in {"idle", "up", "down"}
    /\ hole \in 0 .. MAXEVENTS + 1
    /\ placed \in Events \cup {NoEvent}
    /\ tidy \in BOOLEAN

(* The array fits: pri_heap.h promises "the heap itself, with max size     *)
(* MAXEVENTS", but CKsiftup never tests it.                                *)
HeapFits == heapLast <= MAXEVENTS

(* Every queued event knows its slot, so that CKremoveEvent(event->heap)   *)
(* and CKprioritise hit the event they were called for; in particular no   *)
(* event is queued twice.  Also in the middle of every loop.               *)
Backpointers == \A i \in (1 .. heapLast) \ {hole} :
    /\ heap[i] \in Events \ {placed}
    /\ back[heap[i]] = i

(* Whenever no loop runs and no removal has broken it, no event is earlier *)
(* than its parent.                                                        *)
Ordered == \A i \in 2 .. heapLast : CLSE(time[heap[Parent(i)]], time[heap[i]])
OrderKept == pc = "idle" /\ tidy => Ordered

(* What the scheduler relies on: heap[0] of the C array is an earliest one. *)
TopIsEarliest == pc = "idle" /\ tidy =>
    \A i \in 1 .. heapLast : CLSE(time[heap[1]], time[heap[i]])

(* The heap implements a set of events: nothing is lost, duplicated or     *)
(* invented by the sifting, and only the event named gets a new time.      *)
Abstract == INSTANCE EventQueue WITH queued <- Queued
ImplementsEventQueue == Abstract!Spec
=============================================================================
