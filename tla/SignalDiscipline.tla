--------------------------- MODULE SignalDiscipline -------------------------
(***************************************************************************)
(* What the Cache Kernel promises of the signals of one thread: a signal   *)
(* interrupts what the thread does only if it is more urgent than the      *)
(* signal being handled, the most urgent signal goes first and of equally  *)
(* urgent ones the oldest, an interrupted handler goes on afterwards, and  *)
(* every signal is handled once.                                           *)
(***************************************************************************)
EXTENDS Integers, Sequences

CONSTANTS Priorities, MaxSignals

VARIABLES
    priority,   (* of the signals sent so far, by number; 0 is the highest *)
    waiting,    (* signals that no handler has been given                  *)
    handling    (* signals being handled, the interrupting one first       *)

dvars == <<priority, waiting, handling>>

Init == priority = <<>> /\ waiting = {} /\ handling = <<>>

Send(p) ==
    /\ Len(priority) < MaxSignals
    /\ priority' = Append(priority, p)
    /\ waiting' = waiting \cup {Len(priority) + 1}
    /\ UNCHANGED handling

MostUrgent(s) ==
    \A t \in waiting \ {s} : \/ priority[s] < priority[t]
                             \/ priority[s] = priority[t] /\ s < t

(* Signal s interrupts what is left of the handlers in stack. *)
Interrupt(s, stack) ==
    /\ s \in waiting
    /\ MostUrgent(s)
    /\ stack # <<>> => priority[s] < priority[Head(stack)]
    /\ waiting' = waiting \ {s}
    /\ handling' = <<s>> \o stack
    /\ UNCHANGED priority

(* The innermost handler ends, and the next signal may follow at once. *)
Finish ==
    /\ handling # <<>>
    /\ \/ /\ handling' = Tail(handling)
          /\ UNCHANGED <<priority, waiting>>
       \/ \E s \in waiting : Interrupt(s, Tail(handling))

Next ==
    \/ \E p \in Priorities : Send(p)
    \/ \E s \in waiting : Interrupt(s, handling)
    \/ Finish

Spec == Init /\ [][Next]_dvars
=============================================================================
