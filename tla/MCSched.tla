------------------------------- MODULE MCSched ------------------------------
(* Instances of Sched for TLC. *)
EXTENDS Sched, TLC

CONSTANTS a, b, c

TwoThreads   == {a, b}
ThreeThreads == {a, b, c}

(* Two threads run at first, the third waits for its interrupt. *)
TwoStarted == <<a, b>>
AllStarted == <<a, b, c>>

(* a has twice the share of b. *)
UnequalDefers == [t \in ThreeThreads |-> IF t = b THEN 2 ELSE 1]
UnequalTwo    == [t \in TwoThreads |-> IF t = b THEN 2 ELSE 1]

(* The part of the state that the next steps read: a thread's execution     *)
(* time matters while it is queued, chosen or being inserted, the time in   *)
(* its object while it is chosen or before it first runs, and every other   *)
(* one is written before it is read.                                        *)
Chosen   == IF currtask = IdleLoop \/ ts[currtask] = "Blocked" THEN {} ELSE {currtask}
Inserted == { t \in Threads : BeingInserted(t) }
Unborn   == { t \in Threads : Fresh(t) /\ ts[t] # "Blocked" }

LiveTimes ==
    <<[ht \in HeapTypes |-> [i \in 1 .. Len(heap[ht]) |-> time[heap[ht][i]]]],
      [t \in Inserted |-> time[t]],
      [t \in Chosen |-> <<lasttime, utime[t]>>],
      [t \in Unborn |-> utime[t]]>>

Live == <<ts, heap, currtask, doingRealtime, schedLock, proc, asked>>

AbsoluteState == <<Live, LiveTimes>>

(* Without deadlines the times of a heap are compared with each other only, *)
(* and turning the circle changes nothing.                                 *)
From(ht, x) == IF heap[ht] = <<>> THEN x ELSE Minus(x, RootTime(ht))

RelativeTimes ==
    <<[ht \in HeapTypes |-> [i \in 1 .. Len(heap[ht]) |-> From(ht, time[heap[ht][i]])]],
      [t \in Inserted |-> From("Running", time[t])],
      [t \in Chosen |-> <<From(ts[t], lasttime), From(ts[t], utime[t])>>],
      [t \in Unborn |-> From(ts[t], utime[t])]>>

RelativeState == <<Live, RelativeTimes>>
=============================================================================
