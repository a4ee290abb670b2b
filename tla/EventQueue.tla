----------------------------- MODULE EventQueue -----------------------------
(***************************************************************************)
(* What a heap of pri_heap.c promises, without the array: a set of events, *)
(* each with an execution time.  An event is queued with a time of the     *)
(* caller's choice, taken out, or given another time while it is queued.   *)
(***************************************************************************)
CONSTANTS Events, Times

VARIABLES queued, time

vars == <<queued, time>>

Init ==
    /\ queued = {}
    /\ \E t \in Times : time = [e \in Events |-> t]

Add(e, t) ==
    /\ e \notin queued
    /\ queued' = queued \cup {e}
    /\ time' = [time EXCEPT ![e] = t]

Take(e) ==
    /\ e \in queued
    /\ queued' = queued \ {e}
    /\ UNCHANGED time

Retime(e, t) ==
    /\ e \in queued
    /\ time' = [time EXCEPT ![e] = t]
    /\ UNCHANGED queued

Next == \E e \in Events : Take(e) \/ \E t \in Times : Add(e, t) \/ Retime(e, t)

Spec == Init /\ [][Next]_vars
=============================================================================
