-------------------------- MODULE MCPriHeapRefines --------------------------
(* Instances of PriHeapRefines for TLC. *)
EXTENDS PriHeapRefines, TLC

CONSTANTS e1, e2, e3, e4, e5, e6

SixEvents == {e1, e2, e3, e4, e5, e6}
Symmetric == Permutations(SixEvents)

(* Two and three moments around the wrap of the circle 0 .. 7. *)
AroundTheWrap == {6, 7, 1}
BothSides == {6, 1}

(* What the operations read, and the history. *)
LiveState == <<heapLast, pc, hole, placed, tidy, Live,
               [e \in Queued |-> time[e]], [e \in Queued \ {placed} |-> back[e]],
               oldHeap, [e \in {oldHeap[i] : i \in DOMAIN oldHeap} |-> oldTime[e]]>>
=============================================================================
