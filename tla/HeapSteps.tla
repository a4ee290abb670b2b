------------------------------ MODULE HeapSteps -----------------------------
(***************************************************************************)
(* A heap whose operations are single steps, as the scheduler sees them    *)
(* while the processor is locked: the specification that PriHeap           *)
(* implements iteration by iteration.                                      *)
(***************************************************************************)
EXTENDS HeapOps

CONSTANTS Events, Times

VARIABLES h,      (* the queued events, slot by slot *)
          time

vars == <<h, time>>

Init ==
    /\ h = <<>>
    /\ \E t \in Times : time = [e \in Events |-> t]

Insert(e, t) ==
    /\ e \notin Members(h)
    /\ time' = [time EXCEPT ![e] = t]
    /\ h' \in Siftup(h, time', e)

RetimeTop(t) ==
    /\ h # <<>>
    /\ time' = [time EXCEPT ![h[1]] = t]
    /\ h' \in Siftdown(h, time')

Remove(e) ==
    /\ e \in Members(h)
    /\ h' \in RemoveEvent(h, time, SlotOf(h, e))
    /\ UNCHANGED time

Hurry(e) ==
    /\ e \in Members(h)
    /\ time' = [time EXCEPT ![e] = time[h[1]]]
    /\ h' \in Prioritise(h, time', SlotOf(h, e))

Next ==
    \/ \E e \in Events, t \in Times : Insert(e, t)
    \/ \E t \in Times : RetimeTop(t)
    \/ \E e \in Events : Remove(e) \/ Hurry(e)

Spec == Init /\ [][Next]_vars
=============================================================================
