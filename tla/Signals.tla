------------------------------- MODULE Signals ------------------------------
(***************************************************************************)
(* The signals of one thread of the Cache Kernel: the queue that           *)
(* CKsendSignal (signal.c) keeps, their delivery by the end of CKschedule  *)
(* (sched.c), by the call gate stubs (callgates.S) and by CKendOfSignal    *)
(* (kernel.c), and the stack frames that CKsignal (kernel.c) builds for    *)
(* the signal handler of the parent kernel.                                *)
(*                                                                         *)
(* Signals are numbered in the order in which they are linked into the     *)
(* queue.  A signal for which no memory is left changes nothing.           *)
(***************************************************************************)
EXTENDS Integers, Sequences, FiniteSets

CONSTANTS
    Priorities,    (* priorities in use, 0 is the highest                  *)
    MaxSignals,    (* signals sent in a behaviour: a bound                 *)
    Allowed        (* what the environment may do, see Features            *)

Features ==
    { "overtake",      \* a more urgent signal arrives while CKsignal builds
                       \* the frame of another
      "gate",          \* a signal is left for the end of a system call
      "between",       \* a signal has to wait for one that is handled and is
                       \* more urgent than one whose handler is interrupted
      "block",         \* the thread is blocked while it has signals
      "unlocked send"} \* a sender in a system call is interrupted

NoSignal == 0

ASSUME SignalsAssumption ==
    /\ Priorities \subseteq Nat
    /\ MaxSignals \in Nat
    /\ Allowed \subseteq Features

VARIABLES
    priority,    (* the priority of each signal sent                       *)
    queue,       (* thread->signals                                        *)
    busy,        (* the queued signals that carry SFBUSY                   *)
    frames,      (* the frames of handlers on the thread's stacks, the
                    innermost first, with the signal each was built for    *)
    inCall,      (* the thread is inside a system call                     *)
    blocked,     (* thread->ts = ts_Blocked                                *)
    sender,      (* a CKsendSignal under way: the priority of the signal, the
                    one it will follow, and the one that will follow it    *)
    delivered    (* how many frames were built for each signal             *)

vars == <<priority, queue, busy, frames, inCall, blocked, sender, delivered>>

Labels  == {"called", "locked", "handler", "eos", "finished"}
Signals == 1 .. MaxSignals
NoSender == [sends |-> {}, after |-> NoSignal, next |-> NoSignal]

Init ==
    /\ priority = <<>>
    /\ queue = <<>>
    /\ busy = {}
    /\ frames = <<>>
    /\ inCall = FALSE
    /\ blocked = FALSE
    /\ sender = NoSender
    /\ delivered = [s \in Signals |-> 0]

-----------------------------------------------------------------------------
(* thread->signals && !(thread->signals->signal & SFBUSY) *)
Pending == queue # <<>> /\ Head(queue) \notin busy

Queued(s)   == \E i \in 1 .. Len(queue) : queue[i] = s
Position(s) == CHOOSE i \in 1 .. Len(queue) : queue[i] = s

Top       == Head(frames)
At(label) == frames # <<>> /\ Top.at = label
Goto(label) == frames' = <<[Top EXCEPT !.at = label]>> \o Tail(frames)

(* CKsignal runs: from the test of the head of the queue until its data are *)
(* copied from the head of the queue into the frame.                       *)
Building == At("called") \/ At("locked")

(* The thread runs code that can be interrupted by a signal. *)
Interruptable == ~inCall /\ ~At("locked")

(* The processor may leave a sender that it is executing. *)
Quiet == sender = NoSender \/ "unlocked send" \in Allowed

(* The thread executes. *)
Executes == ~blocked /\ Quiet

-----------------------------------------------------------------------------
(* Mutation: a signal goes to the end of the list.                         *)
Place_AtEnd(p) == Len(queue)

(* How many signals of the queue stay in front of one of priority p: none   *)
(* if it is more urgent than the head, and otherwise the head and those     *)
(* behind it up to the first less urgent one.                              *)
Place(p) ==
    IF queue = <<>> \/ priority[queue[1]] > p THEN 0
    ELSE CHOOSE k \in 1 .. Len(queue) :
             /\ k < Len(queue) => priority[queue[k + 1]] > p
             /\ \A j \in 2 .. k : priority[queue[j]] <= p

(* What the environment is assumed not to do unless it is allowed to: to    *)
(* bring a signal to the front while CKsignal is building a frame, to leave *)
(* one there that the end of a system call will find, and to leave one      *)
(* waiting behind a signal and before another that is handled.              *)
MayArrive(p) ==
    /\ Place(p) = 0 /\ Building => "overtake" \in Allowed
    /\ Place(p) = 0 /\ inCall => "gate" \in Allowed
    /\ \/ \A k \in Place(p) + 1 .. Len(queue) : queue[k] \notin busy
       \/ Place(p) = 0 /\ ~Pending
       \/ "between" \in Allowed

Linked(new) == priority' = Append(priority, new)

(* Mutation: only a thread that had no signal is unblocked.                *)
Wake_Forgotten == UNCHANGED blocked

(* A blocked thread is unblocked. *)
Wake == blocked' = FALSE

(* CKsendSignal under the caller's lock. *)
CKsendSignal(p) ==
    /\ Quiet
    /\ Len(priority) < MaxSignals
    /\ MayArrive(p)
    /\ Linked(p)
    /\ queue' = SubSeq(queue, 1, Place(p)) \o <<Len(priority) + 1>>
                \o SubSeq(queue, Place(p) + 1, Len(queue))
    /\ Wake
    /\ UNCHANGED <<busy, frames, inCall, sender, delivered>>

(* CKsendSignal without a lock: the place in the list is found,             *)
SendBegins(p) ==
    /\ sender = NoSender
    /\ Len(priority) < MaxSignals
    /\ MayArrive(p)
    /\ sender' = [sends |-> {p},
                  after |-> IF Place(p) = 0 THEN NoSignal ELSE queue[Place(p)],
                  next  |-> IF Place(p) = Len(queue) THEN NoSignal
                            ELSE queue[Place(p) + 1]]
    /\ UNCHANGED <<priority, queue, busy, frames, inCall, blocked, delivered>>

(* and the signal is linked in there, whatever has become of its            *)
(* neighbours: behind a freed one it is lost, and a freed successor's link  *)
(* leads to what is left of the list or nowhere.                            *)
SendEnds ==
    /\ Len(priority) < MaxSignals
    /\ \E p \in sender.sends : Linked(p)
    /\ \E k \in IF sender.next = NoSignal THEN {Len(queue) + 1}
                ELSE IF Queued(sender.next) THEN {Position(sender.next)}
                ELSE 1 .. Len(queue) + 1 :
           LET tail == <<Len(priority) + 1>> \o SubSeq(queue, k, Len(queue))
           IN  queue' = IF sender.after = NoSignal THEN tail
                        ELSE IF Queued(sender.after)
                        THEN SubSeq(queue, 1, Position(sender.after)) \o tail
                        ELSE queue
    /\ busy' = busy \cap { queue'[i] : i \in 1 .. Len(queue') }
    /\ Wake
    /\ sender' = NoSender
    /\ UNCHANGED <<frames, inCall, delivered>>

(* CKblockThread and CKunblockThread, called by another thread. *)
CKblockThread ==
    /\ Quiet
    /\ ~blocked
    /\ queue # <<>> => "block" \in Allowed
    /\ blocked' = TRUE
    /\ UNCHANGED <<priority, queue, busy, frames, inCall, sender, delivered>>

CKunblockThread ==
    /\ Quiet
    /\ blocked
    /\ blocked' = FALSE
    /\ UNCHANGED <<priority, queue, busy, frames, inCall, sender, delivered>>

-----------------------------------------------------------------------------
(* The head of the queue is marked and CKsignal is called. *)
Call(under) == frames' = <<[at |-> "called", sig |-> NoSignal]>> \o under

(* The end of CKschedule, when the thread gets the processor back. *)
Schedule ==
    /\ Executes
    /\ Pending
    /\ Interruptable
    /\ busy' = busy \cup {Head(queue)}
    /\ Call(frames)
    /\ UNCHANGED <<priority, queue, inCall, blocked, sender, delivered>>

(* CKsignal makes the thread uninterruptable, *)
LockFrame ==
    /\ Executes
    /\ At("called")
    /\ Goto("locked")
    /\ UNCHANGED <<priority, queue, busy, inCall, blocked, sender, delivered>>

(* and copies the head of the queue into the frame and enters the handler.  *)
CopySignal ==
    /\ Executes
    /\ At("locked")
    /\ LET s == IF queue = <<>> THEN NoSignal ELSE Head(queue)
       IN  /\ frames' = <<[at |-> "handler", sig |-> s]>> \o Tail(frames)
           /\ delivered' = [t \in Signals |-> IF t = s THEN delivered[t] + 1
                                              ELSE delivered[t]]
    /\ UNCHANGED <<priority, queue, busy, inCall, blocked, sender>>

(* The handler returns to the code in its frame, which raises int 0x6a      *)
(* until it is left.                                                       *)
HandlerEnds ==
    /\ Executes
    /\ At("handler")
    /\ ~inCall
    /\ Goto("eos")
    /\ UNCHANGED <<priority, queue, busy, inCall, blocked, sender, delivered>>

(* Mutation: the head of the queue is taken for the finished signal.       *)
Unfinished_HeadAlways == IF queue # <<>> THEN Tail(queue) ELSE queue

(* The queue without the finished signal: a head that carries SFBUSY. *)
Unfinished == IF queue # <<>> /\ Head(queue) \in busy THEN Tail(queue) ELSE queue

(* The frame is left, or the next signal's is put on it, and its code will  *)
(* raise int 0x6a once more when that one is left: "finished" if its own    *)
(* signal is gone, and not if the next one came before the first int 0x6a.  *)
Follow ==
    LET left == busy \cap { Unfinished[i] : i \in 1 .. Len(Unfinished) }
    IN  IF Unfinished = <<>> \/ Head(Unfinished) \in busy
        THEN frames' = Tail(frames) /\ busy' = left
        ELSE /\ Call(<<[Top EXCEPT !.at = IF Unfinished = queue THEN @ ELSE "finished"]>>
                     \o Tail(frames))
             /\ busy' = left \cup {Head(Unfinished)}

CKendOfSignal ==
    /\ Executes
    /\ At("eos") \/ At("finished")
    /\ queue' = Unfinished
    /\ Follow
    /\ UNCHANGED <<priority, inCall, blocked, sender, delivered>>

-----------------------------------------------------------------------------
(* A system call through a gate makes the thread uninterruptable, and calls *)
(* CKsignal for a pending signal when it ends, without marking the signal.  *)
CallBegins ==
    /\ Executes
    /\ ~inCall
    /\ frames # <<>> => Top.at = "handler"
    /\ Pending => "gate" \in Allowed
    /\ inCall' = TRUE
    /\ UNCHANGED <<priority, queue, busy, frames, blocked, sender, delivered>>

CallEnds ==
    /\ Executes
    /\ inCall
    /\ inCall' = FALSE
    /\ IF Pending THEN Call(frames) ELSE UNCHANGED frames
    /\ UNCHANGED <<priority, queue, busy, blocked, sender, delivered>>

Delivery == Schedule \/ LockFrame \/ CopySignal \/ HandlerEnds \/ CKendOfSignal

Next ==
    \/ Delivery
    \/ CallBegins \/ CallEnds
    \/ \E p \in Priorities : CKsendSignal(p) \/ SendBegins(p)
    \/ SendEnds
    \/ CKblockThread \/ CKunblockThread

Spec == Init /\ [][Next]_vars

(* The thread keeps getting the processor back, its system calls return,   *)
(* its handlers end, and interrupted senders go on.                        *)
FairSpec ==
    /\ Spec
    /\ SF_vars(Schedule)
    /\ WF_vars(LockFrame \/ CopySignal \/ CKendOfSignal)
    /\ SF_vars(HandlerEnds)
    /\ WF_vars(CallEnds)
    /\ WF_vars(SendEnds)
-----------------------------------------------------------------------------
(* Every variable has its type; the queue is a list without repetitions in  *)
(* the order of urgency and age.                                           *)
TypeOK ==
    /\ priority \in Seq(Priorities) /\ Len(priority) <= MaxSignals
    /\ queue \in Seq(1 .. Len(priority))
    /\ \A i, j \in 1 .. Len(queue) : i < j =>
           \/ priority[queue[i]] < priority[queue[j]]
           \/ priority[queue[i]] = priority[queue[j]] /\ queue[i] < queue[j]
    /\ busy \subseteq { queue[i] : i \in 1 .. Len(queue) }
    /\ frames \in Seq([at  : Labels,
                       sig : 0 .. Len(priority)])
    /\ inCall \in BOOLEAN
    /\ blocked \in BOOLEAN
    /\ sender \in [sends : {{}} \cup { {p} : p \in Priorities },
                  after : 0 .. Len(priority), next : 0 .. Len(priority)]
    /\ delivered \in [Signals -> Nat]

(* SFBUSY marks exactly the signals that have a handler frame, and they lie *)
(* in the queue in the order of their frames: CKendOfSignal relies on it    *)
(* when it takes the head of the queue for the signal that is finished.     *)
Selected(s, I) ==   \* the members of a sequence at the indices I, in order
    [n \in 1 .. Cardinality(I) |->
        s[CHOOSE i \in I : Cardinality({j \in I : j <= i}) = n]]

Marked     == { i \in 1 .. Len(queue) : queue[i] \in busy }
InUse == { i \in 1 .. Len(frames) : frames[i].at # "finished" }
BusyQueue  == Selected(queue, Marked)
Handlers   == Selected(frames, InUse)

HandlersAreBusy ==
    /\ TypeOK
    /\ Len(BusyQueue) = Len(Handlers)
    /\ \A i \in 1 .. Len(Handlers) :
           Handlers[i].at \in {"handler", "eos"} => Handlers[i].sig = BusyQueue[i]

(* Every signal sent is handled in the end. *)
AllHandled ==
    \A s \in Signals : s \in 1 .. Len(priority) ~> delivered[s] > 0

(* The queue with its marks implements the discipline. *)
Service == INSTANCE SignalDiscipline WITH
    waiting  <- { queue[i] : i \in 1 .. Len(queue) } \ busy,
    handling <- BusyQueue

ImplementsDiscipline == Service!Spec
=============================================================================
