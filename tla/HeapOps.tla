------------------------------- MODULE HeapOps ------------------------------
(***************************************************************************)
(* The operations of development/CK/pri_heap.c as single steps on the      *)
(* sequence of queued events: what PriHeap computes iteration by iteration *)
(* is stated here by the path on which its hole travels.  Each operator    *)
(* returns the set of possible results, which has one element.             *)
(***************************************************************************)
EXTENDS CircularTime, Sequences

Parent(i) == i \div 2

(* MINCHILD in the heap h *)
MinChild(h, time, i) ==
    IF 2 * i < Len(h) /\ CLSE(time[h[2 * i + 1]], time[h[2 * i]])
    THEN 2 * i + 1
    ELSE 2 * i

(* P holds the slots on the way from slot top down to slot bottom, one per *)
(* level of the tree.                                                      *)
IsPath(P, top, bottom) ==
    /\ P \subseteq top .. bottom
    /\ top \in P /\ bottom \in P
    /\ \A i \in P \ {top} : Parent(i) \in P
    /\ \A i \in P \ {bottom} : \E j \in P : Parent(j) = i
    /\ \A i, j \in P : i < j => i <= Parent(j)

(* The loop of CKsiftup and CKprioritise: event e climbs from slot i, past *)
(* every ancestor that is later than it, and these step down.              *)
ClimbPaths(h, time, e, i) ==
    { P \in SUBSET (1 .. i) : \E top \in P :
        /\ IsPath(P, top, i)
        /\ \A j \in P \ {top} : CLESS(time[e], time[h[Parent(j)]])
        /\ top > 1 => ~CLESS(time[e], time[h[Parent(top)]]) }

Climb(h, time, e, i) ==
    { [j \in 1 .. Len(h) |-> IF j \notin P THEN h[j]
                             ELSE IF Parent(j) \in P THEN h[Parent(j)]
                             ELSE e] : P \in ClimbPaths(h, time, e, i) }

(* The loop of CKsiftdown and CKremoveEvent: event e sinks from slot i,    *)
(* below every earliest child that is earlier than it, and these step up.  *)
SinkPaths(h, time, e, i) ==
    { P \in SUBSET (i .. Len(h)) : \E bottom \in P :
        /\ IsPath(P, i, bottom)
        /\ \A j \in P \ {i} : /\ j = MinChild(h, time, Parent(j))
                              /\ CLESS(time[h[j]], time[e])
        /\ LET below == MinChild(h, time, bottom)
           IN  below <= Len(h) => ~CLESS(time[h[below]], time[e]) }

Sink(h, time, e, i) ==
    { [j \in 1 .. Len(h) |-> IF j \notin P THEN h[j]
                             ELSE IF MinChild(h, time, j) \in P THEN h[MinChild(h, time, j)]
                             ELSE e] : P \in SinkPaths(h, time, e, i) }

-----------------------------------------------------------------------------
Siftup(h, time, e) == Climb(Append(h, e), time, e, Len(h) + 1)

Siftdown(h, time) == Sink(h, time, h[1], 1)

RemoveEvent(h, time, i) ==
    LET last    == Len(h)
        shorter == SubSeq(h, 1, last - 1)
    IN  IF i = last
        THEN {shorter}
        ELSE Sink([shorter EXCEPT ![i] = h[last]], time, h[last], i)

Prioritise(h, time, i) == Climb(h, time, h[i], i)

(* The slot of a queued event (event->heap). *)
SlotOf(h, e) == CHOOSE i \in 1 .. Len(h) : h[i] = e

Members(h) == { h[i] : i \in 1 .. Len(h) }
=============================================================================
