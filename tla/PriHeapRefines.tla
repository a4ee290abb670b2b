--------------------------- MODULE PriHeapRefines ---------------------------
(***************************************************************************)
(* PriHeap with two history variables that remember the heap as it was     *)
(* before the operation in progress, so that the loops can be shown to     *)
(* compute, when they end, what HeapSteps computes in one step.            *)
(***************************************************************************)
EXTENDS PriHeap

VARIABLES oldHeap, oldTime

Live == [i \in 1 .. heapLast |-> heap[i]]

HInit == Init /\ oldHeap = Live /\ oldTime = time

HNext ==
    /\ Next
    /\ oldHeap' = IF pc' = "idle" THEN Live' ELSE oldHeap
    /\ oldTime' = IF pc' = "idle" THEN time' ELSE oldTime

HSpec == HInit /\ [][HNext]_<<vars, oldHeap, oldTime>>

(* Each operation of pri_heap.c, its loop included, has the effect of one  *)
(* step of HeapSteps: the paths of HeapOps are the ones the loops take.    *)
Steps == INSTANCE HeapSteps WITH h <- oldHeap, time <- oldTime
LoopsImplementSteps == Steps!Spec
=============================================================================
