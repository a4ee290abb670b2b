------------------------------- MODULE LibIPC -------------------------------
(***************************************************************************)
(* The page-swapping IPC of the SORB prototype (development/SORB/libIPC):  *)
(* messages are System V shared memory segments; their identifiers travel  *)
(* through rings in a segment that all processes share, one ring for each  *)
(* receiver, with a semaphore that counts what is in it.  A message has a  *)
(* header with a semaphore on which a synchronous sender sleeps, and two   *)
(* flags from which the last user finds out that it must destroy it.       *)
(*                                                                         *)
(* No lock protects any of this.  A step reads or writes what one access   *)
(* of the code does; a system call is one step.  The processors of the     *)
(* time execute memory accesses in the order of the program.               *)
(***************************************************************************)
EXTENDS Integers, Sequences, FiniteSets

CONSTANTS Clients, Servers,   (* processes that send, and that receive     *)
          Segments,           (* identifiers of shared memory: a bound     *)
          MAXIPCQUEUES, QUEUESIZE,
          MaxSem,             (* no message is sent above this semaphore
                                 value: a bound                            *)
          NOPROCESS, NONE,
          Allowed             (* which of the features the code is not
                                 correct for may happen                    *)

Features ==
    {"claims",    (* two processes look for a free ring at a time          *)
     "writers",   (* two processes are in IPCQueueWrite of one ring        *)
     "overtake",  (* a full ring is written while its owner reads it       *)
     "mixed",     (* a message is sent again after it was sent to be
                     processed asynchronously                              *)
     "garbage",   (* the owner field of a message that was received, which
                     is not initialised, is the receiver's pid             *)
     "absent",    (* an asynchronous message is sent to a process that has
                     not come yet                                          *)
     "early"}     (* a process comes while the library is being set up or
                     taken down                                            *)

ASSUME LibIPCAssumption ==
    /\ IsFiniteSet(Clients \cup Servers)
    /\ MAXIPCQUEUES \in Nat \ {0} /\ QUEUESIZE \in Nat \ {0, 1}
    /\ NOPROCESS \notin Clients \cup Servers
    /\ NONE \notin Segments \cup Clients \cup Servers
    /\ Allowed \subseteq Features

Procs   == Clients \cup Servers
Entries == 0 .. MAXIPCQUEUES - 1
Slots   == 0 .. QUEUESIZE - 1

VARIABLES
    shared,      (* the shared segment: exists, its semaphores do, users   *)
    owner,       (* ipcQueues[].owner                                      *)
    semId,       (* the values of the receivers' semaphores                *)
    read, write, shmemId,   (* the rings                                   *)
    segment,     (* the messages: header, attachments, who allocated them  *)
    proc,        (* where each process is in its call                      *)
    lost         (* history: the messages that a ring has lost, or their
                    sender by exiting                                      *)

ring == <<read, write, shmemId>>
vars == <<shared, owner, semId, ring, segment, proc, lost>>

Free == [live |-> FALSE, removed |-> FALSE, owner |-> NONE, attached |-> {}, senderDone |-> FALSE,
         receiverDone |-> FALSE, senderSem |-> -1, sent |-> "no"]
At(label) == [at |-> label, seg |-> NONE, target |-> NONE, entry |-> 0,
              sync |-> FALSE, sender |-> FALSE, slot |-> 0, destroy |-> FALSE]

Init ==
    /\ shared = [exists |-> FALSE, ready |-> FALSE, users |-> 0]
    /\ owner = [e \in Entries |-> NOPROCESS]
    /\ semId = [e \in Entries |-> 0]
    /\ read = [e \in Entries |-> 0]
    /\ write = [e \in Entries |-> 0]
    /\ shmemId = [e \in Entries |-> [s \in Slots |-> NONE]]
    /\ segment = [m \in Segments |-> Free]
    /\ proc = [p \in Procs |-> At("out")]
    /\ lost = {}

Goto(p, label) == proc' = [proc EXCEPT ![p].at = label]
Return(p)      == proc' = [proc EXCEPT ![p] = At("idle")]
(* A segment lives until it is removed and nobody is attached. *)
Detached(p, seg) ==
    IF seg.removed /\ seg.attached \subseteq {p} THEN Free
    ELSE [seg EXCEPT !.attached = @ \ {p}]
Some(labels)   == \E p \in Procs : proc[p].at \in labels

-----------------------------------------------------------------------------
(* Loading and unloading the library. *)

(* Mutation: a process that finds the segment does not count itself. *)
_init_Uncounted(p) ==
    /\ proc[p].at = "out"
    /\ Some({"creating", "leaving"}) => "early" \in Allowed
    /\ shared' = [shared EXCEPT !.exists = TRUE]
    /\ Goto(p, IF shared.exists THEN "idle" ELSE "creating")
    /\ UNCHANGED <<owner, semId, ring, segment, lost>>

(* shmget, and IPC_STAT to know whether this process is the creator. *)
_init(p) ==
    /\ proc[p].at = "out"
    /\ Some({"creating", "leaving"}) => "early" \in Allowed
    /\ shared' = [shared EXCEPT !.exists = TRUE]
    /\ Goto(p, IF shared.exists THEN "counting" ELSE "creating")
    /\ UNCHANGED <<owner, semId, ring, segment, lost>>

InitQueues(p) ==
    /\ proc[p].at = "creating"
    /\ owner' = [e \in Entries |-> NOPROCESS]
    /\ semId' = [e \in Entries |-> 0]
    /\ read' = [e \in Entries |-> 0]
    /\ write' = [e \in Entries |-> 0]
    /\ shared' = [shared EXCEPT !.ready = TRUE]
    /\ Goto(p, "counting")
    /\ UNCHANGED <<shmemId, segment, lost>>

CountUser(p) ==
    /\ proc[p].at = "counting"
    /\ shared' = [shared EXCEPT !.users = @ + 1]
    /\ Goto(p, "idle")
    /\ UNCHANGED <<owner, semId, ring, segment, lost>>

(* A client leaves when it has done with its messages; servers stay.  A
   process that has found no free ring exits, with the messages it has. *)
_fini(p) ==
    /\ proc[p].at \in {"idle", "exit"}
    /\ proc[p].at = "idle" => /\ p \in Clients
                              /\ \A m \in Segments : p \notin segment[m].attached
    /\ shared.users = 1 /\ Some({"creating", "counting"}) => "early" \in Allowed
    /\ IF shared.users = 1
       THEN shared' = [shared EXCEPT !.exists = FALSE, !.ready = FALSE]
       ELSE UNCHANGED shared
    /\ segment' = [m \in Segments |-> Detached(p, segment[m])]
    /\ lost' = lost \cup { m \in Segments : segment[m].live /\ p \in segment[m].attached }
    /\ Goto(p, "leaving")
    /\ UNCHANGED <<owner, semId, ring>>

DiscountUser(p) ==
    /\ proc[p].at = "leaving"
    /\ shared' = [shared EXCEPT !.users = @ - 1]
    /\ Goto(p, "out")
    /\ UNCHANGED <<owner, semId, ring, segment, lost>>

-----------------------------------------------------------------------------
(* ipcBufferFindEntry: the ring of a process, or the first free one. *)
EntriesOf(p) == { e \in Entries : owner[e] = p }
First(es)    == CHOOSE e \in es : \A f \in es : e <= f

FindEntry(p, of, next, seg, sync) ==
    LET mine == EntriesOf(of)
        free == EntriesOf(NOPROCESS)
        goto(e, label) ==
            proc' = [proc EXCEPT ![p] = [At(label) EXCEPT !.seg = seg, !.target = of,
                                             !.entry = e, !.sync = sync]]
    IN  IF mine # {} THEN goto(First(mine), next)
        ELSE IF free # {} THEN /\ Some({"claim"}) => "claims" \in Allowed
                               /\ goto(First(free), "claim")
        ELSE proc' = [proc EXCEPT ![p] = At("exit")]

Claim(p) ==
    /\ proc[p].at = "claim"
    /\ owner' = [owner EXCEPT ![proc[p].entry] = proc[p].target]
    /\ Goto(p, IF proc[p].seg = NONE THEN "wait" ELSE "store")
    /\ UNCHANGED <<shared, semId, ring, segment, lost>>

-----------------------------------------------------------------------------
(* Sending. *)

(* Mutation: the semaphore of the message is initialised to one. *)
ipcBufferAllocate_Raised(p, m) ==
    /\ proc[p].at = "idle" /\ p \in Clients
    /\ ~segment[m].live
    /\ \A e \in Entries, s \in Slots : shmemId[e][s] # m
    /\ segment' = [segment EXCEPT ![m] = [Free EXCEPT !.live = TRUE, !.owner = p,
                                         !.attached = {p}, !.senderSem = 1]]
    /\ UNCHANGED <<shared, owner, semId, ring, proc, lost>>

(* Identifiers are not used again while a ring may still hold them. *)
ipcBufferAllocate(p, m) ==
    /\ proc[p].at = "idle" /\ p \in Clients
    /\ ~segment[m].live
    /\ \A e \in Entries, s \in Slots : shmemId[e][s] # m
    /\ segment' = [segment EXCEPT ![m] = [Free EXCEPT !.live = TRUE, !.owner = p,
                                         !.attached = {p}, !.senderSem = 0]]
    /\ UNCHANGED <<shared, owner, semId, ring, proc, lost>>

(* ipcBufferSendSync and ipcBufferSendAsync. *)
ipcBufferSend(p, m, target, sync) ==
    /\ proc[p].at = "idle" /\ p # target
    /\ segment[m].owner = p /\ p \in segment[m].attached
    /\ segment[m].sent = "async" => "mixed" \in Allowed
    /\ ~sync /\ proc[target].at \in {"out", "creating", "counting"} => "absent" \in Allowed
    /\ FindEntry(p, target, "store", m, sync)
    /\ UNCHANGED <<shared, owner, semId, ring, segment, lost>>

Full(e) == (write[e] + 1) % QUEUESIZE = read[e]

Undone(p, m) ==
    [segment EXCEPT ![m].senderDone = FALSE, ![m].receiverDone = FALSE,
                    ![m].sent = IF proc[p].sync THEN "sync" ELSE "async"]

(* The flags are reset, and the first half of IPCQueueWrite. *)
StoreMessage(p) ==
    LET e == proc[p].entry  m == proc[p].seg
    IN  /\ proc[p].at = "store" /\ semId[e] < MaxSem
        /\ (\E q \in Procs : proc[q].at = "publish" /\ proc[q].entry = e)
              => "writers" \in Allowed
        /\ (Full(e) /\ \E q \in Procs : proc[q].at = "fetch" /\ proc[q].entry = e)
              => "overtake" \in Allowed
        /\ segment' = Undone(p, m)
        /\ shmemId' = [shmemId EXCEPT ![e][write[e]] = m]
        /\ Goto(p, "publish")
        /\ UNCHANGED <<shared, owner, semId, read, write, lost>>

(* Mutation: a full ring keeps its oldest message, and looks empty. *)
AdvanceRead_Never(e) == read[e]

(* The reader's index after a write: past the oldest message of a full ring. *)
AdvanceRead(e) == IF Full(e) THEN (read[e] + 1) % QUEUESIZE ELSE read[e]

IPCQueueWrite(p) ==
    LET e == proc[p].entry
    IN  /\ proc[p].at = "publish"
        /\ write' = [write EXCEPT ![e] = (@ + 1) % QUEUESIZE]
        /\ read' = [read EXCEPT ![e] = AdvanceRead(e)]
        /\ lost' = lost \cup IF Full(e) THEN {shmemId[e][read[e]]} ELSE {}
        /\ Goto(p, "wake")
        /\ UNCHANGED <<shared, owner, semId, shmemId, segment>>

(* Mutation: the semaphore is set instead of raised. *)
WakeReceiver_Set(p) ==
    /\ proc[p].at = "wake"
    /\ semId' = [semId EXCEPT ![proc[p].entry] = 1]
    /\ Goto(p, "sleep")
    /\ UNCHANGED <<shared, owner, ring, segment, lost>>

WakeReceiver(p) ==
    /\ proc[p].at = "wake"
    /\ semId' = [semId EXCEPT ![proc[p].entry] = @ + 1]
    /\ Goto(p, "sleep")
    /\ UNCHANGED <<shared, owner, ring, segment, lost>>

(* The sender takes the semaphore of the message, and sleeps for it unless
   IPC_NOWAIT says that the call fails then. *)
SleepSender(p) ==
    LET m == proc[p].seg
    IN  /\ proc[p].at = "sleep"
        /\ proc[p].sync => segment[m].senderSem > 0
        /\ segment' = [segment EXCEPT ![m].senderSem = IF @ > 0 THEN @ - 1 ELSE @]
        /\ Return(p)
        /\ UNCHANGED <<shared, owner, semId, ring, lost>>

-----------------------------------------------------------------------------
(* Receiving. *)

(* ipcBufferGetSync and ipcBufferGetAsync. *)
ipcBufferGet(p, sync) ==
    /\ proc[p].at = "idle" /\ p \in Servers
    /\ FindEntry(p, p, "wait", NONE, sync)
    /\ UNCHANGED <<shared, owner, semId, ring, segment, lost>>

(* The semaphore is taken; GetAsync returns when there is nothing. *)
WaitMessage(p) ==
    LET e == proc[p].entry
    IN  /\ proc[p].at = "wait"
        /\ proc[p].sync => semId[e] > 0
        /\ semId' = [semId EXCEPT ![e] = IF @ > 0 THEN @ - 1 ELSE @]
        /\ IF semId[e] > 0 THEN Goto(p, "read") ELSE Return(p)
        /\ UNCHANGED <<shared, owner, ring, segment, lost>>

(* (read - 1) % QUEUESIZE after read has advanced: -1 when it has wrapped. *)
SlotRead(e) == ((read[e] + 1) % QUEUESIZE) - 1

IPCQueueRead(p) ==
    LET e == proc[p].entry
    IN  /\ proc[p].at = "read"
        /\ IF read[e] = write[e] THEN Return(p) /\ UNCHANGED <<read, lost>>
           ELSE /\ proc' = [proc EXCEPT ![p].at = "fetch", ![p].slot = SlotRead(e)]
                /\ read' = [read EXCEPT ![e] = (@ + 1) % QUEUESIZE]
                /\ lost' = lost \cup IF SlotRead(e) = -1 THEN {shmemId[e][read[e]]} ELSE {}
        /\ UNCHANGED <<shared, owner, semId, write, shmemId, segment>>

(* Slot -1 is what stands in front of the array, which names no segment. *)
Fetched(p) == IF proc[p].slot = -1 THEN NONE ELSE shmemId[proc[p].entry][proc[p].slot]

(* The message is attached, unless there is no such segment any more. *)
AttachMessage(p) ==
    LET m == Fetched(p)
    IN  /\ proc[p].at = "fetch"
        /\ IF m # NONE /\ segment[m].live
           THEN /\ segment' = [segment EXCEPT ![m].attached = @ \cup {p}]
                /\ proc' = [proc EXCEPT ![p] = [At("busy") EXCEPT !.seg = m]]
           ELSE Return(p) /\ UNCHANGED segment
        /\ UNCHANGED <<shared, owner, semId, ring, lost>>

-----------------------------------------------------------------------------
(* ipcBufferDone, of a sender that owns the message or of its receiver. *)
(* The caller's flag is set. *)
Done(p, m, sender) ==
    /\ segment' = IF sender THEN [segment EXCEPT ![m].senderDone = TRUE]
                  ELSE [segment EXCEPT ![m].receiverDone = TRUE]
    /\ proc' = [proc EXCEPT ![p] = [At("test") EXCEPT !.seg = m, !.sender = sender]]
    /\ UNCHANGED <<shared, owner, semId, ring, lost>>

ipcBufferDone(p) ==
    \/ proc[p].at = "idle" /\ \E m \in Segments :
         /\ segment[m].owner = p /\ p \in segment[m].attached
         /\ Done(p, m, TRUE)
    \/ proc[p].at = "busy" /\ \E sender \in IF "garbage" \in Allowed THEN BOOLEAN ELSE {FALSE} :
         Done(p, proc[p].seg, sender)

(* Mutation: each side destroys the message on its own flag alone. *)
BothDone_Own(m) == segment[m].senderDone \/ segment[m].receiverDone

BothDone(m) == segment[m].senderDone /\ segment[m].receiverDone

TestDone(p) ==
    /\ proc[p].at = "test"
    /\ proc' = [proc EXCEPT ![p].at = "notify", ![p].destroy = BothDone(proc[p].seg)]
    /\ UNCHANGED <<shared, owner, semId, ring, segment, lost>>

(* The receiver wakes the sender; the sender removes the semaphore. *)
NotifyDone(p) ==
    LET m == proc[p].seg
    IN  /\ proc[p].at = "notify"
        /\ segment' = [segment EXCEPT ![m].senderSem =
                          IF proc[p].sender \/ @ = -1 THEN -1 ELSE @ + 1]
        /\ Goto(p, "detach")
        /\ UNCHANGED <<shared, owner, semId, ring, lost>>

(* shmdt, then IPC_RMID: the segment lives while somebody is attached. *)
DetachMessage(p) ==
    LET m == proc[p].seg
    IN  /\ proc[p].at = "detach"
        /\ segment' = [segment EXCEPT ![m] =
                          Detached(p, IF proc[p].destroy THEN [@ EXCEPT !.removed = TRUE] ELSE @)]
        /\ Return(p)
        /\ UNCHANGED <<shared, owner, semId, ring, lost>>

-----------------------------------------------------------------------------
(* What a process does in a call, and which calls it makes. *)
Step(p) ==
    \/ InitQueues(p) \/ CountUser(p) \/ DiscountUser(p)
    \/ Claim(p)
    \/ StoreMessage(p) \/ IPCQueueWrite(p) \/ WakeReceiver(p) \/ SleepSender(p)
    \/ WaitMessage(p) \/ IPCQueueRead(p) \/ AttachMessage(p)
    \/ TestDone(p) \/ NotifyDone(p) \/ DetachMessage(p)

Next == \E p \in Procs :
    \/ Step(p) \/ _init(p) \/ _fini(p)
    \/ \E m \in Segments :
         \/ ipcBufferAllocate(p, m)
         \/ \E target \in Servers, sync \in BOOLEAN : ipcBufferSend(p, m, target, sync)
    \/ \E sync \in BOOLEAN : ipcBufferGet(p, sync)
    \/ ipcBufferDone(p)

Spec == Init /\ [][Next]_vars

-----------------------------------------------------------------------------
Labels == {"out", "creating", "counting", "leaving", "idle", "exit", "claim", "store",
           "publish", "wake", "sleep", "wait", "read", "fetch", "busy", "test",
           "notify", "detach"}

TypeOK ==
    /\ shared \in [exists : BOOLEAN, ready : BOOLEAN, users : 0 .. Cardinality(Procs)]
    /\ owner \in [Entries -> Procs \cup {NOPROCESS}]
    /\ semId \in [Entries -> Nat]
    /\ read \in [Entries -> Slots] /\ write \in [Entries -> Slots]
    /\ shmemId \in [Entries -> [Slots -> Segments \cup {NONE}]]
    /\ \A m \in Segments :
         /\ segment[m].senderSem \in Nat \cup {-1}
         /\ segment[m].attached \subseteq Procs
         /\ segment[m].owner \in Clients \cup {NONE}
    /\ \A p \in Procs : proc[p].at \in Labels /\ proc[p].slot \in Slots \cup {-1}
    /\ lost \subseteq Segments

(* The messages in a ring, from the oldest on. *)
Queued(e) ==
    [i \in 1 .. (write[e] - read[e]) % QUEUESIZE |-> shmemId[e][(read[e] + i - 1) % QUEUESIZE]]

Waiting(m) == \E e \in Entries : \E i \in DOMAIN Queued(e) : Queued(e)[i] = m
BeingSent(m) == \E p \in Clients : proc[p].seg = m /\ proc[p].at \in {"claim", "store", "publish"}
BeingReceived(m) == \E p \in Servers :
    \/ proc[p].at = "fetch" /\ Fetched(p) = m
    \/ proc[p].seg = m /\ proc[p].at \in {"busy", "test", "notify", "detach"}

(* "When both have called this function, destroy the buffer" (ipcBufferDone):
   a message lives as long as its sender or a ring or a receiver has it, and no
   longer, although each side tests the other's flag without a lock.  Messages
   that a ring has lost, and those that were never sent, leak. *)
FreedWhenBothDone == TypeOK /\ \A m \in Segments :
    /\ Waiting(m) \/ BeingReceived(m) => segment[m].live
    /\ segment[m].live => \/ Waiting(m) \/ BeingReceived(m) \/ BeingSent(m)
                          \/ segment[m].attached # {}
                          \/ m \in lost \/ segment[m].sent = "no"

(* While a process that has gone through _init uses the library its
   semaphores exist, whoever comes and leaves (_init, _fini). *)
LibraryLives ==
    /\ shared.users = Cardinality({ p \in Procs : proc[p].at \notin {"out", "creating", "counting"} })
    /\ Some(Labels \ {"out", "creating", "leaving"}) => shared.ready

(* ipcBufferSendSync "waits for it to read them": it returns when the receiver
   has done with this use of the message, not with an earlier one. *)
SyncMeansProcessed ==
    [][\A p \in Clients :
        proc[p].at = "sleep" /\ proc[p].sync /\ proc'[p].at = "idle"
            => segment[proc[p].seg].receiverDone /\ ~Waiting(proc[p].seg)]_vars

(* No wake-up is missing: the semaphore of a ring counts at least what is in
   it, and the message of a sender that sleeps is in a ring, with a receiver or
   lost, or the sender's own semaphore has been raised. *)
NoLostWakeup ==
    /\ \A e \in Entries :
         Len(Queued(e)) <= semId[e]
             + Cardinality({ p \in Clients : proc[p].at = "wake" /\ proc[p].entry = e })
             + Cardinality({ p \in Servers : proc[p].at = "read" /\ proc[p].entry = e })
    /\ \A p \in Clients : proc[p].at = "sleep" /\ proc[p].sync =>
         LET m == proc[p].seg
         IN  Waiting(m) \/ BeingReceived(m) \/ m \in lost \/ segment[m].senderSem > 0

(* The rings deliver what was sent, in order and at most once, to the process
   it was sent to: the mailbox of a server is its ring, and the message that
   its read has passed is the one it works on. *)
Mail == INSTANCE Mailboxes WITH
    Receivers <- Servers, Messages <- Segments, Capacity <- QUEUESIZE - 1,
    mail <- [p \in Servers |-> IF EntriesOf(p) = {} THEN <<>> ELSE Queued(First(EntriesOf(p)))],
    got <- [p \in Servers |->
              IF proc[p].at = "fetch" THEN Fetched(p)
              ELSE IF proc[p].at \in {"busy", "test", "notify", "detach"} THEN proc[p].seg
              ELSE NONE]
ImplementsMailboxes == Mail!Spec
=============================================================================
