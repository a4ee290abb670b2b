-------------------------------- MODULE Sched -------------------------------
(***************************************************************************)
(* The thread scheduler of the Alliance Cache Kernel (development/CK:      *)
(* sched.c, the timer stub of exceptions.S, the IRQ stubs of jump.S).      *)
(*                                                                         *)
(* One processor runs the code of one thread at a time.  A thread's kernel *)
(* stack is a sequence of frames, innermost first; the label of a frame    *)
(* says what it does next.  What the kernel does between CKlock() (cli)    *)
(* and CKunlock() (sti) is one step; between two steps interrupts arrive.  *)
(***************************************************************************)
EXTENDS HeapOps

CONSTANTS
    Threads,     (* the cached threads                                     *)
    IdleLoop,    (* the kernel's idle loop, which is in no heap            *)
    Drivers,     (* threads that are signalled on an IRQ                   *)
    Defer,       (* the defer of each thread                               *)
    Deadlines,   (* times a thread may write into its thread object        *)
    Started,     (* the timesharing heap when the scheduler is kicked off  *)
    ByteWidth,   (* number of values of a UBYTE                            *)
    MaxDepth,    (* most frames on one stack: bounds the nesting of IRQs   *)
    Allowed      (* what the environment may do, see Features              *)

Features ==
    { "wake",          \* a running thread makes a blocked one runnable
      "fresh wake",    \* a thread that never ran is signalled
      "preempted wake",\* ... and is interrupted while it does
      "race",          \* ... and another context wakes the same thread
      "unqueued",      \* ... or takes it for queued, when it is only marked
      "idle",          \* a thread is told to run when nothing else does
      "self",          \* a thread changes its own state but to block itself,
                       \* or is woken before it has left the processor
      "unlocked irq",  \* an interrupt comes where an IRQ handler dropped
                       \* CKlock early, or between charging and sifting
      "short period",  \* the timer expires before the context switch
      "tunnel" }       \* CKthreadTunnel is called

HeapTypes == {"Running", "RealTime", "Idle"}   (* each named by its ts *)
States    == HeapTypes \cup {"Blocked"}
Contexts  == Threads \cup {IdleLoop}
Labels    == {"charge", "flush", "pick", "switch", "away", "tunnel",
              "mark", "insert", "prioritise", "climb", "irq end"}

ASSUME SchedAssumption ==
    /\ IdleLoop \notin Threads
    /\ Drivers \subseteq Threads
    /\ Defer \in [Threads -> TIME]
    /\ Deadlines \subseteq TIME
    /\ Started \in Seq(Threads)
    /\ \A i, j \in 1 .. Len(Started) : Started[i] = Started[j] => i = j
    /\ ByteWidth \in Nat \ {0}
    /\ MaxDepth \in Nat
    /\ Allowed \subseteq Features

VARIABLES
    ts,             (* the kernel's state of each thread                   *)
    time,           (* the kernel's execution time of each thread          *)
    utime,          (* the time in the thread object, which users write    *)
    heap,           (* the three priority heaps                            *)
    currtask,       (* the thread the scheduler has chosen                 *)
    lasttime,       (* its time when it was chosen                         *)
    doingRealtime,
    schedLock,
    timer,          (* "armed" or "off": channel 0 of the 8254, one shot   *)
    cpu,            (* the context the processor executes                  *)
    stack,          (* the kernel frames of each context                   *)
    masked,         (* contexts whose own code runs with interrupts off    *)
    asked           (* threads that wrote a deadline since they were given
                       the processor                                       *)

heaps == <<ts, time, utime, heap>>
sched == <<currtask, lasttime, doingRealtime, schedLock>>
proc  == <<timer, cpu, stack, masked>>
vars  == <<heaps, sched, proc, asked>>

-----------------------------------------------------------------------------
(* Frames.  "who" is the thread the frame works on, "slot" the heap slot    *)
(* it has read.                                                            *)
Frame(label, who) == [at |-> label, who |-> who, slot |-> 0]

Idling    == stack[cpu] = <<>>          (* the context runs its own code   *)
Top       == Head(stack[cpu])
At(label) == ~Idling /\ Top.at = label

Stacked(frames) == stack' = [stack EXCEPT ![cpu] = frames]
Push(label, who) == Stacked(<<Frame(label, who)>> \o stack[cpu])
Goto(label)      == Stacked(<<[Top EXCEPT !.at = label]>> \o Tail(stack[cpu]))
Return           == Stacked(Tail(stack[cpu]))

Fresh(t) == t # cpu /\ stack[t] = <<>>   (* it never ran *)

(* CKlock clears the interrupt flag, CKunlock sets it whatever it was.      *)
Unmask == masked' = masked \ {cpu}

Frames == UNION { Members(stack[c]) : c \in Contexts }
Pending(label) == \E f \in Frames : f.at = label

(* Some thread is inside CKunblockThread for t. *)
BeingWoken(t) == \E f \in Frames : f.at \in {"mark", "insert"} /\ f.who = t

MayWake(t) ==
    /\ "race" \in Allowed \/ ~BeingWoken(t)
    /\ "self" \in Allowed \/ t # currtask
    /\ "fresh wake" \in Allowed \/ ~Fresh(t)

(* CKprioritise and CKsetThreadState meet a thread on its way to its heap.  *)
MayMeet(t) ==
    BeingWoken(t) => (IF ts[t] = "Blocked" THEN "race" ELSE "unqueued") \in Allowed

(* An interrupt is served now. *)
Interruptible ==
    /\ Idling \/ Top.at \in {"charge", "mark"} => cpu \notin masked
    /\ At("mark") \/ At("insert") => "preempted wake" \in Allowed
    /\ At("prioritise") \/ At("climb") \/ At("flush") => "unlocked irq" \in Allowed
    /\ Len(stack[cpu]) < MaxDepth

-----------------------------------------------------------------------------
RootTime(ht) == time[Head(heap[ht])]                    (* CKgetNextTime *)

(* Mutation: a woken thread starts at time 0 whatever the others' times.    *)
WakeTime_Zero(ht) == 0

WakeTime(ht) == IF heap[ht] = <<>> THEN 0 ELSE RootTime(ht)

(* An empty heap has the time of whoever was at its root, any. *)
NextTimes(ht) ==
    IF heap[ht] # <<>> THEN {RootTime(ht)} ELSE { time[t] : t \in Threads }

(* event->heap: the slot of a thread, and of one that is not queued that of  *)
(* another, or the one behind the heap, from where a removal takes the last *)
(* event as from the last slot.  A slot in another heap is not followed,    *)
(* nor a removal from an empty heap.                                       *)
Slots(ht, t) ==
    IF t \in Members(heap[ht]) THEN {SlotOf(heap[ht], t)} ELSE 1 .. Len(heap[ht]) + 1

(* Mutation: the thread is left in its heap.                               *)
Without_Keeps(t) == {heap}

(* The heaps without thread t, and with t queued in ht at the given time. *)
Without(t) ==
    IF ts[t] \in HeapTypes
    THEN { [heap EXCEPT ![ts[t]] = h] :
               h \in UNION { RemoveEvent(heap[ts[t]], time, i) : i \in Slots(ts[t], t) } }
    ELSE {heap}

Queue(hs, t, ht, when) ==
    LET timed == [time EXCEPT ![t] = when]
    IN  /\ time' = timed
        /\ ts'   = [ts EXCEPT ![t] = ht]
        /\ \E h \in Siftup(hs[ht], timed, t) : heap' = [hs EXCEPT ![ht] = h]

(* CKblockThread and the removals of CKsetThreadState. *)
Block(t) ==
    /\ ts' = [ts EXCEPT ![t] = "Blocked"]
    /\ heap' \in Without(t)
    /\ UNCHANGED <<time, utime>>

-----------------------------------------------------------------------------
Init ==
    /\ ts = [c \in Contexts |-> IF c = IdleLoop THEN "Idle"
                                ELSE IF c \in Members(Started) THEN "Running"
                                ELSE "Blocked"]
    /\ time = [c \in Contexts |-> 0]
    /\ utime = [c \in Contexts |-> 0]
    /\ heap = [ht \in HeapTypes |-> IF ht = "Running" THEN Started ELSE <<>>]
    /\ currtask = IdleLoop
    /\ lasttime = 0
    /\ doingRealtime = 0
    /\ schedLock = FALSE
    /\ timer = "armed"
    /\ cpu = IdleLoop
    /\ stack = [c \in Contexts |-> <<>>]
    /\ masked = {}
    /\ asked = {}

-----------------------------------------------------------------------------
(* Mutation: the stub does not test the lock.                              *)
TimerService_Unchecked(frames) ==
    schedLock' = TRUE /\ Stacked(<<Frame("charge", currtask)>> \o frames)

(* The stub CKtimerService: a busy scheduler returns at once. *)
TimerService(frames) ==
    IF schedLock
    THEN Stacked(frames) /\ UNCHANGED schedLock
    ELSE schedLock' = TRUE /\ Stacked(<<Frame("charge", currtask)>> \o frames)

(* The timer of the quantum expires. *)
Timer ==
    /\ timer = "armed"
    /\ Interruptible
    /\ Pending("switch") => "short period" \in Allowed
    /\ timer' = "off"
    /\ TimerService(stack[cpu])
    /\ UNCHANGED <<heaps, currtask, lasttime, doingRealtime, cpu, masked, asked>>

(* A thread gives up the rest of its quantum (quantumDone, int 0x68). *)
QuantumDone ==
    /\ Idling
    /\ TimerService(<<>>)
    /\ UNCHANGED <<heaps, currtask, lasttime, doingRealtime, timer, cpu, masked, asked>>

(* CKschedule: the execution time is read from the thread object. *)
Charge ==
    /\ At("charge")
    /\ time' = [time EXCEPT ![currtask] = utime[Top.who]]
    /\ Goto("flush")
    /\ UNCHANGED <<ts, utime, heap, sched, timer, cpu, masked, asked>>

(* Mutations: the charged thread stays at the root; it is charged twice.   *)
AdvanceAndSink_NoSift(ht) ==
    /\ time' = [time EXCEPT ![currtask] = Plus(@, Defer[currtask])]
    /\ UNCHANGED <<ts, heap>>

AdvanceAndSink_Twice(ht) ==
    LET timed == [time EXCEPT ![currtask] = Plus(Plus(@, Defer[currtask]), Defer[currtask])]
    IN  /\ time' = timed
        /\ \E h \in Siftdown(heap[ht], timed) : heap' = [heap EXCEPT ![ht] = h]
        /\ UNCHANGED ts

(* CKflushPrevTask, by the state of the task that was running. *)
AdvanceAndSink(ht) ==
    LET timed == [time EXCEPT ![currtask] = Plus(@, Defer[currtask])]
    IN  /\ time' = timed
        /\ \E h \in Siftdown(heap[ht], timed) : heap' = [heap EXCEPT ![ht] = h]
        /\ UNCHANGED ts

FlushRunning ==
    /\ ts[currtask] = "Running"
    /\ \/ /\ ~CLESS(lasttime, time[currtask])
          /\ AdvanceAndSink("Running")
       \/ /\ CLESS(lasttime, time[currtask])
          /\ \E hs \in Without(currtask) :
                 Queue(hs, currtask, "RealTime", time[currtask])
    /\ UNCHANGED doingRealtime

(* It wrote its next deadline. *)
StaysRealTime ==
    /\ CLESS(lasttime, time[currtask])
    /\ \E h \in Siftdown(heap["RealTime"], time) :
           heap' = [heap EXCEPT !["RealTime"] = h]
    /\ UNCHANGED <<ts, time>>

FlushRealTime ==
    /\ ts[currtask] = "RealTime"
    /\ doingRealtime' = 0
    /\ \/ StaysRealTime
       \/ /\ ~CLESS(lasttime, time[currtask])
          /\ \E when \in NextTimes("Running"), hs \in Without(currtask) :
                 Queue(hs, currtask, "Running", when)

FlushIdle ==
    /\ ts[currtask] = "Idle"
    /\ IF currtask = IdleLoop THEN UNCHANGED <<ts, time, heap>>
       ELSE AdvanceAndSink("Idle")
    /\ UNCHANGED doingRealtime

FlushBlocked ==
    /\ ts[currtask] = "Blocked"
    /\ UNCHANGED <<ts, time, heap, doingRealtime>>

Flush ==
    /\ At("flush")
    /\ FlushRunning \/ FlushRealTime \/ FlushIdle \/ FlushBlocked
    /\ Goto("pick")
    /\ UNCHANGED <<utime, currtask, lasttime, schedLock, timer, cpu, masked, asked>>

(* Mutation: the idle loop runs without a quantum.                         *)
Arm_ForThreads == timer' = IF currtask' = IdleLoop THEN timer ELSE "armed"

(* CKsetTimerPeriod *)
Arm == timer' = "armed"

(* CKgetNextTask and CKsetTimerPeriod.  Whether the first deadline is due   *)
(* depends on the clock; that it is later only shortens the period.        *)
Pick ==
    /\ At("pick")
    /\ \/ /\ heap["RealTime"] # <<>>
          /\ currtask' = Head(heap["RealTime"])
          /\ doingRealtime' = (doingRealtime + 1) % ByteWidth
       \/ /\ currtask' = IF heap["Running"] # <<>> THEN Head(heap["Running"])
                         ELSE IF heap["Idle"] # <<>> THEN Head(heap["Idle"])
                         ELSE IdleLoop
          /\ UNCHANGED doingRealtime
    /\ lasttime' = time[currtask']
    /\ Arm
    /\ Goto("switch")
    /\ UNCHANGED <<heaps, schedLock, cpu, masked, asked>>

(* Mutation: the thread object keeps the time it had.                      *)
Resume_StaleTime(who) == UNCHANGED utime

(* A thread that goes on behind CKcontextSwitch publishes its time. *)
Resume(who) == utime' = [utime EXCEPT ![who] = time[currtask]]

(* CKcontextSwitch: the lock is freed and the processor goes on with the    *)
(* chosen thread, with interrupts off: at its start if it never ran, and   *)
(* otherwise behind its own call of CKcontextSwitch, in CKschedule or in   *)
(* CKthreadTunnel, which returns to the caller with interrupts still off.  *)
Switch ==
    /\ At("switch")
    /\ schedLock' = FALSE
    /\ cpu' = currtask
    /\ asked' = asked \ {currtask}
    /\ LET left    == [stack EXCEPT ![cpu] = <<[Top EXCEPT !.at = "away"]>> \o Tail(@)]
           resumed == left[currtask]
           tunnel  == Len(resumed) > 1 /\ resumed[2].at = "tunnel"
       IN  IF resumed = <<>>
           THEN stack' = left /\ UNCHANGED <<utime, masked>>
           ELSE /\ stack' = [left EXCEPT ![currtask] =
                                 SubSeq(@, IF tunnel THEN 3 ELSE 2, Len(@))]
                /\ masked' = IF tunnel THEN masked \cup {currtask} ELSE masked
                /\ Resume(resumed[1].who)
    /\ UNCHANGED <<ts, time, heap, currtask, lasttime, doingRealtime, timer>>

-----------------------------------------------------------------------------
(* CKforwardGlobalInterrupt, entered with interrupts on, for one allocator. *)
(* CKsendSignal wakes a blocked thread, and CKunblockThread's CKunlock lets *)
(* interrupts in before CKprioritise.                                      *)
IRQ(h) ==
    /\ h \in Drivers
    /\ Fresh(h) => "fresh wake" \in Allowed
    /\ Interruptible
    /\ IF ts[h] = "Blocked" THEN MayWake(h) ELSE MayMeet(h)
    /\ \/ /\ ts[h] = "Blocked"
          /\ Queue(heap, h, "Running", WakeTime("Running"))
          /\ Push("prioritise", h)
       \/ /\ ts[h] = "Running"
          /\ \E when \in NextTimes("Running"), i \in Slots("Running", h) :
                 /\ time' = [time EXCEPT ![h] = when]
                 /\ \E s \in Climb(heap["Running"], time', h, i) :
                        heap' = [heap EXCEPT !["Running"] = s]
          /\ Push("irq end", h)
          /\ UNCHANGED ts
       \/ /\ ts[h] \in {"RealTime", "Idle"}
          /\ Push("irq end", h)
          /\ UNCHANGED <<ts, time, heap>>
    /\ UNCHANGED <<utime, sched, timer, cpu, masked, asked>>

(* CKprioritise after the lock was dropped: the time and the slot are read, *)
PrioritiseUnlocked ==
    /\ At("prioritise")
    /\ IF ts[Top.who] # "Running"
       THEN Goto("irq end") /\ UNCHANGED time
       ELSE \E when \in NextTimes("Running"), i \in Slots("Running", Top.who) :
            /\ time' = [time EXCEPT ![Top.who] = when]
            /\ Stacked(<<[at |-> "climb", who |-> Top.who, slot |-> i]>> \o Tail(stack[cpu]))
    /\ UNCHANGED <<ts, utime, heap, sched, timer, cpu, masked, asked>>

(* and the event climbs from the slot that was read. *)
ClimbUnlocked ==
    /\ At("climb")
    /\ \E h \in Climb(heap["Running"], time, Top.who, Top.slot) :
           heap' = [heap EXCEPT !["Running"] = h]
    /\ Goto("irq end")
    /\ UNCHANGED <<ts, time, utime, sched, timer, cpu, masked, asked>>

(* The handler gives the signalled thread its turn. *)
IrqEnd ==
    /\ At("irq end")
    /\ IF doingRealtime = 0
       THEN TimerService(Tail(stack[cpu]))
       ELSE Return /\ UNCHANGED schedLock
    /\ UNCHANGED <<heaps, currtask, lasttime, doingRealtime, timer, cpu, masked, asked>>

-----------------------------------------------------------------------------
(* CKunblockThread outside a lock (a system call signals a thread).  The    *)
(* thread was seen blocked,                                                *)
Wake(t) ==
    /\ "wake" \in Allowed
    /\ Idling
    /\ cpu # IdleLoop
    /\ ts[t] = "Blocked"
    /\ MayWake(t)
    /\ Len(stack[cpu]) < MaxDepth
    /\ Push("mark", t)
    /\ UNCHANGED <<heaps, sched, timer, cpu, masked, asked>>

(* its time is set and it is marked runnable,                              *)
Mark ==
    /\ At("mark")
    /\ time' = [time EXCEPT ![Top.who] = WakeTime("Running")]
    /\ ts' = [ts EXCEPT ![Top.who] = "Running"]
    /\ Goto("insert")
    /\ UNCHANGED <<utime, heap, sched, timer, cpu, masked, asked>>

(* and the locked CKsiftup queues it.                                      *)
Insert ==
    /\ At("insert")
    /\ \E h \in Siftup(heap["Running"], time, Top.who) :
           heap' = [heap EXCEPT !["Running"] = h]
    /\ Unmask
    /\ Return
    /\ UNCHANGED <<ts, time, utime, sched, timer, cpu, asked>>

(* The system call CKsetThreadState, locked as a whole. *)
SetThreadState(t, state) ==
    /\ Idling
    /\ cpu # IdleLoop
    /\ state # "RealTime"                    \* EINVALIDPARAMS
    /\ state = "Idle" => "idle" \in Allowed
    /\ state = "Running" => "wake" \in Allowed
    /\ MayMeet(t)
    /\ "self" \in Allowed \/ t # currtask \/ state = "Blocked"
    /\ IF ts[t] = state THEN UNCHANGED heaps
       ELSE IF state = "Blocked" THEN Block(t)
       ELSE \E hs \in Without(t) :
                LET when == WakeTime(state) IN
                /\ Queue(hs, t, state, when)
                /\ utime' = [utime EXCEPT ![t] = when]
    /\ Unmask
    /\ UNCHANGED <<sched, timer, cpu, stack, asked>>

(* The running thread writes a deadline into its thread object.  Deadlines  *)
(* in use are later than the time at which the thread was chosen and lie   *)
(* within half a turn.                                                     *)
SetDeadline(d) ==
    /\ Idling
    /\ cpu \in Threads
    /\ CLESS(lasttime, d)
    /\ WithinHalfTurn({d} \cup { time[t] : t \in Members(heap["RealTime"]) })
    /\ utime' = [utime EXCEPT ![cpu] = d]
    /\ asked' = asked \cup {cpu}
    /\ UNCHANGED <<ts, time, heap, sched, proc>>

-----------------------------------------------------------------------------
(* The system call CKthreadTunnel, which calls CKschedule without taking    *)
(* the scheduler's lock.                                                   *)
TunnelSwapping(t) ==
    /\ "tunnel" \in Allowed
    /\ Idling /\ cpu # IdleLoop
    /\ t # cpu
    /\ MayWake(t)
    /\ \E hs \in Without(cpu) :
           IF ts[t] = "Running"
           THEN /\ ts' = [ts EXCEPT ![cpu] = "Blocked"]
                /\ heap' = hs
                /\ UNCHANGED time
           ELSE \E rest \in IF ts[t] = "Blocked" THEN {hs}
                            ELSE { [hs EXCEPT ![ts[t]] = h] :
                                     h \in RemoveEvent(hs[ts[t]], time, SlotOf(hs[ts[t]], t)) } :
                LET timed == [time EXCEPT ![t] = IF rest["Running"] = <<>> THEN 0
                                                 ELSE time[Head(rest["Running"])]]
                IN  /\ time' = timed
                    /\ ts' = [ts EXCEPT ![cpu] = "Blocked", ![t] = "Running"]
                    /\ \E h \in Siftup(rest["Running"], timed, t) :
                           heap' = [rest EXCEPT !["Running"] = h]
    /\ Unmask
    /\ Stacked(<<Frame("charge", cpu), Frame("tunnel", cpu)>>)
    /\ UNCHANGED <<utime, sched, timer, cpu, asked>>

TunnelUnblocking(t) ==
    /\ "tunnel" \in Allowed
    /\ Idling /\ cpu # IdleLoop
    /\ MayWake(t)
    /\ LET schedule == <<Frame("charge", cpu), Frame("tunnel", cpu)>>
       IN  Stacked(IF ts[t] = "Blocked" THEN <<Frame("mark", t)>> \o schedule
                   ELSE schedule)
    /\ UNCHANGED <<heaps, sched, timer, cpu, masked, asked>>

(* Conservative: to another thread it is quantumDone; to itself, a context  *)
(* switch that leaves the interrupts off.                                  *)
TunnelConservative ==
    /\ "tunnel" \in Allowed
    /\ Idling /\ cpu # IdleLoop
    /\ schedLock' = FALSE
    /\ masked' = masked \cup {cpu}
    /\ UNCHANGED <<heaps, currtask, lasttime, doingRealtime, timer, cpu, stack, asked>>

-----------------------------------------------------------------------------
KernelStep ==
    \/ Charge \/ Flush \/ Pick \/ Switch
    \/ PrioritiseUnlocked \/ ClimbUnlocked \/ IrqEnd
    \/ Mark \/ Insert

SystemCall ==
    \/ QuantumDone \/ TunnelConservative
    \/ \E t \in Threads :
           \/ Wake(t) \/ TunnelSwapping(t) \/ TunnelUnblocking(t)
           \/ \E state \in States : SetThreadState(t, state)
    \/ \E d \in Deadlines : SetDeadline(d)

Next == KernelStep \/ SystemCall \/ Timer \/ \E h \in Drivers : IRQ(h)

Spec == Init /\ [][Next]_vars
(* The kernel's code proceeds, and a timer that expires while interrupts    *)
(* are off is served when they are on again: the PIC latches it.           *)
FairSpec == Spec /\ WF_vars(KernelStep) /\ SF_vars(Timer)
-----------------------------------------------------------------------------
(* Every variable has its type. *)
TypeOK ==
    /\ ts \in [Contexts -> States] /\ ts[IdleLoop] = "Idle"
    /\ time \in [Contexts -> TIME]
    /\ utime \in [Contexts -> TIME]
    /\ heap \in [HeapTypes -> Seq(Threads)]
    /\ currtask \in Contexts
    /\ lasttime \in TIME
    /\ doingRealtime \in 0 .. ByteWidth - 1
    /\ schedLock \in BOOLEAN
    /\ timer \in {"armed", "off"}
    /\ cpu \in Contexts
    /\ stack \in [Contexts -> Seq([at : Labels, who : Contexts, slot : Nat])]
    /\ masked \subseteq Contexts
    /\ asked \subseteq Contexts

(* A thread is in the heap that its state names, once, and in no other: but *)
(* for the moment in which CKunblockThread has marked it runnable and has   *)
(* not queued it.  Every CKremoveEvent relies on it.                        *)
BeingInserted(t) == \E f \in Frames : f.at = "insert" /\ f.who = t

InItsHeap == TypeOK /\
    \A t \in Threads : \A ht \in HeapTypes :
        LET slots == { i \in 1 .. Len(heap[ht]) : heap[ht][i] = t }
        IN  IF ts[t] = ht /\ ~BeingInserted(t)
            THEN \E i \in slots : slots = {i}
            ELSE slots = {}

(* While a thread runs it is at the root of its heap: the scheduler charges *)
(* it and then calls CKsiftdown, which moves whatever is at the root.       *)
RunningIsRoot ==
    ts[currtask] \in HeapTypes /\ currtask # IdleLoop /\ ~Pending("pick")
        => heap[ts[currtask]] # <<>> /\ Head(heap[ts[currtask]]) = currtask

(* Each heap is ordered but for the moment between charging the running     *)
(* thread and sifting it down.                                             *)
HeapsOrdered ==
    ~Pending("flush")
        => \A ht \in HeapTypes : \A i \in 2 .. Len(heap[ht]) :
               ~CLESS(time[heap[ht][i]], time[heap[ht][Parent(i)]])

(* The three heaps: every thread in the one of its state, in order. *)
HeapsWhole == InItsHeap /\ HeapsOrdered

(* No timesharing thread is further ahead of the one that runs next than   *)
(* one defer: what makes the shares of threads quantum/defer, and keeps     *)
(* the circular comparison meaningful.                                     *)
MaxDefer == CHOOSE d \in { Defer[t] : t \in Threads } :
                \A t \in Threads : Defer[t] <= d

SpreadBounded ==
    ~Pending("flush")
        => \A t \in Members(heap["Running"]) :
               Minus(time[t], RootTime("Running")) <= MaxDefer

(* At most one context is inside the scheduler, and only with the lock; and *)
(* while none is, the processor executes the thread that was chosen last.  *)
InScheduler == { c \in Contexts : \E i \in 1 .. Len(stack[c]) :
                     stack[c][i].at \in {"charge", "flush", "pick", "switch"} }

OneScheduler ==
    /\ InScheduler = IF schedLock THEN {cpu} ELSE {}
    /\ ~schedLock => cpu = currtask

(* Whenever a thread executes its own code the timer will end its quantum.  *)
QuantumEnds == Idling => timer = "armed" /\ cpu \notin masked

(* A timesharing thread becomes a realtime thread when its quantum ends if   *)
(* it wrote a deadline in that quantum, and only then.                     *)
DeadlineOnRequest ==
    [][\A t \in Threads :
          /\ ts[t] = "Running" /\ ts'[t] = "RealTime" => t \in asked
          /\ currtask = t /\ t \in asked /\ At("flush") /\ ts[t] = "Running" /\ ~At("flush")'
                => ts'[t] = "RealTime"]_vars

(* Every runnable timesharing thread gets the processor. *)
NoStarvation ==
    \A t \in Threads : ts[t] = "Running" ~> cpu = t \/ ts[t] # "Running"
=============================================================================
