---------------------------- MODULE LibIPCProofs ----------------------------
(* Proofs about the page-swapping IPC.  The library lives as long as its    *)
(* users.  Where processes either send or receive, and none of the features *)
(* the code is not correct for happens, messages are freed when both sides  *)
(* have done with them, no wake-up is lost, and a synchronous sender        *)
(* returns when its message has been processed.  The invariant says, for    *)
(* every message, in which one place it is (Once), what its flags and its   *)
(* semaphore then are, and who is attached to it (Handled); and for every   *)
(* ring, who owns it and what it shows (Rings).                             *)
EXTENDS LibIPC, FiniteSetTheorems, SequenceTheorems, WellFoundedInduction, TLAPS

-----------------------------------------------------------------------------
(* The types.  A message that a ring loses may still be none, as far as     *)
(* the types know.                                                          *)
Calls == [at : Labels, seg : Segments \cup {NONE}, target : Procs \cup {NONE}, entry : Entries,
          sync : BOOLEAN, sender : BOOLEAN, slot : Slots \cup {-1}, destroy : BOOLEAN]
Messages == [live : BOOLEAN, removed : BOOLEAN, owner : Clients \cup {NONE},
             attached : SUBSET Procs, senderDone : BOOLEAN, receiverDone : BOOLEAN,
             senderSem : Nat \cup {-1}, sent : {"no", "sync", "async"}]

Typed ==
    /\ shared \in [exists : BOOLEAN, ready : BOOLEAN, users : Int]
    /\ owner \in [Entries -> Procs \cup {NOPROCESS}]
    /\ semId \in [Entries -> Nat]
    /\ read \in [Entries -> Slots] /\ write \in [Entries -> Slots]
    /\ shmemId \in [Entries -> [Slots -> Segments \cup {NONE}]]
    /\ segment \in [Segments -> Messages]
    /\ proc \in [Procs -> Calls]
    /\ \A p \in Procs : proc[p].at = "claim" => proc[p].target \in Procs
    /\ lost \subseteq Segments \cup {NONE}

(* Indices stay in the rings. *)
LEMMA Turning ==
    ASSUME NEW i \in Slots
    PROVE  /\ (i + 1) % QUEUESIZE \in Slots
           /\ ((i + 1) % QUEUESIZE) - 1 \in Slots \cup {-1}
           /\ (i + 1) % QUEUESIZE = IF i = QUEUESIZE - 1 THEN 0 ELSE i + 1
BY LibIPCAssumption DEF Slots

(* A set of natural numbers has a least element. *)
LEMMA LeastNat ==
    ASSUME NEW T \in SUBSET Nat, T # {}
    PROVE  \E x \in T : \A y \in T : x <= y
<1>1. \A a, b \in Nat : a < b => <<a, b>> \in OpToRel(<, Nat)
  BY DEF OpToRel
<1>2. \E R : IsWellFoundedOn(R, Nat) /\ \A a, b \in Nat : a < b => <<a, b>> \in R
  <2> WITNESS OpToRel(<, Nat)
  <2> QED BY <1>1, NatLessThanWellFounded, Zenon
<1>3. PICK R : IsWellFoundedOn(R, Nat) /\ \A a, b \in Nat : a < b => <<a, b>> \in R
  BY <1>2
<1>4. \E x \in T : \A y \in T : ~(<<y, x>> \in R)
  <2>1. IsWellFoundedOn(R, Nat) /\ T \subseteq Nat
    BY <1>3
  <2> QED BY <2>1, WFMin, Zenon
<1>5. PICK x \in T : \A y \in T : ~(<<y, x>> \in R)
  BY <1>4
<1>6. \A y \in T : ~(y < x)
  BY <1>3, <1>5
<1> QED BY <1>6

(* First is one of the rings it is given. *)
LEMMA FirstIsOne ==
    ASSUME NEW es \in SUBSET Entries, es # {}
    PROVE  First(es) \in es
<1>1. es \in SUBSET Nat
  BY DEF Entries
<1>2. \E e \in es : \A f \in es : e <= f
  BY <1>1, LeastNat
<1> QED BY <1>2 DEF First

(* A detached segment is a segment. *)
LEMMA DetachedTyped ==
    ASSUME NEW p \in Procs, NEW seg \in Messages
    PROVE  Detached(p, seg) \in Messages
BY DEF Detached, Messages, Free

(* Where a call goes on, and that it stays one. *)
LEMMA Going ==
    ASSUME NEW p \in Procs, proc \in [Procs -> Calls], NEW label \in Labels, Goto(p, label)
    PROVE  /\ proc' \in [Procs -> Calls]
           /\ proc'[p] = [proc[p] EXCEPT !.at = label] /\ proc'[p].at = label
           /\ \A q \in Procs \ {p} : proc'[q] = proc[q]
BY DEF Goto, Calls

LEMMA Returning ==
    ASSUME NEW p \in Procs, proc \in [Procs -> Calls], Return(p)
    PROVE  /\ proc' \in [Procs -> Calls]
           /\ proc'[p] = At("idle") /\ proc'[p].at = "idle"
           /\ \A q \in Procs \ {p} : proc'[q] = proc[q]
<1>1. At("idle") \in Calls /\ At("idle").at = "idle"
  BY LibIPCAssumption DEF At, Calls, Labels, Entries, Slots
<1> QED BY <1>1 DEF Return

(* The call of a process that has looked for a ring. *)
Asked(call, label, e, of, seg, sync) ==
    call \in [at : {label}, seg : {seg}, target : {of}, entry : {e}, sync : {sync},
              sender : {FALSE}, slot : {0}, destroy : {FALSE}]

(* ipcBufferFindEntry goes on at its caller's, claims a ring, or exits. *)
LEMMA Finding ==
    ASSUME NEW p \in Procs, proc \in [Procs -> Calls], NEW of \in Procs, NEW next \in Labels,
           NEW seg \in Segments \cup {NONE}, NEW sync \in BOOLEAN,
           FindEntry(p, of, next, seg, sync)
    PROVE  /\ proc' \in [Procs -> Calls]
           /\ proc'[p].at \in {next, "claim", "exit"}
           /\ \A q \in Procs \ {p} : proc'[q] = proc[q]
           /\ \/ proc'[p] = At("exit") /\ EntriesOf(of) = {} /\ EntriesOf(NOPROCESS) = {}
              \/ \E e \in EntriesOf(of) : Asked(proc'[p], next, e, of, seg, sync)
              \/ /\ EntriesOf(of) = {} /\ (Some({"claim"}) => "claims" \in Allowed)
                 /\ \E e \in EntriesOf(NOPROCESS) : Asked(proc'[p], "claim", e, of, seg, sync)
<1> DEFINE mine == EntriesOf(of)
           free == EntriesOf(NOPROCESS)
           call(label, e) == [At(label) EXCEPT !.seg = seg, !.target = of, !.entry = e, !.sync = sync]
<1>1. 0 \in Entries /\ 0 \in Slots
  BY LibIPCAssumption DEF Entries, Slots
<1>2. ASSUME NEW label \in Labels, NEW e \in Entries
      PROVE  Asked(call(label, e), label, e, of, seg, sync)
  BY DEF At, Asked
<1>3. ASSUME NEW label \in Labels, NEW e \in Entries
      PROVE  call(label, e) \in Calls /\ call(label, e).at = label
  BY <1>1, <1>2 DEF Asked, Calls
<1>4. At("exit") \in Calls /\ At("exit").at = "exit"
  BY <1>1 DEF At, Calls, Labels
<1>5. "claim" \in Labels
  BY DEF Labels
<1> HIDE DEF call
<1>6. CASE mine # {}
  <2>1. First(mine) \in mine /\ First(mine) \in Entries
    BY <1>6, FirstIsOne DEF EntriesOf
  <2>2. proc' = [proc EXCEPT ![p] = call(next, First(mine))]
    BY <1>6 DEF FindEntry, call
  <2>3. proc'[p] = call(next, First(mine))
    BY <2>2
  <2> QED BY <1>2, <1>3, <2>1, <2>2, <2>3
<1>7. CASE mine = {} /\ free # {}
  <2>1. First(free) \in free /\ First(free) \in Entries
    BY <1>7, FirstIsOne DEF EntriesOf
  <2>2. proc' = [proc EXCEPT ![p] = call("claim", First(free))]
    BY <1>7 DEF FindEntry, call
  <2>3. proc'[p] = call("claim", First(free))
    BY <2>2
  <2>4. Some({"claim"}) => "claims" \in Allowed
    BY <1>7 DEF FindEntry
  <2> QED BY <1>2, <1>3, <1>5, <1>7, <2>1, <2>2, <2>3, <2>4
<1>8. CASE mine = {} /\ free = {}
  <2>1. proc' = [proc EXCEPT ![p] = At("exit")]
    BY <1>8 DEF FindEntry
  <2> QED BY <1>4, <1>8, <2>1
<1> QED BY <1>6, <1>7, <1>8
-----------------------------------------------------------------------------
(* Calls that use the library, and what they change of where processes are. *)
Use(p) ==
    \/ Claim(p) \/ StoreMessage(p) \/ IPCQueueWrite(p) \/ WakeReceiver(p) \/ SleepSender(p)
    \/ WaitMessage(p) \/ IPCQueueRead(p) \/ AttachMessage(p)
    \/ TestDone(p) \/ NotifyDone(p) \/ DetachMessage(p)
    \/ \E m \in Segments :
         \/ ipcBufferAllocate(p, m)
         \/ \E target \in Servers, sync \in BOOLEAN : ipcBufferSend(p, m, target, sync)
    \/ \E sync \in BOOLEAN : ipcBufferGet(p, sync)
    \/ ipcBufferDone(p)

LEMMA NextIs ==
    ASSUME Next
    PROVE  \E p \in Procs : \/ _init(p) \/ InitQueues(p) \/ CountUser(p) \/ _fini(p)
                           \/ DiscountUser(p) \/ Use(p)
BY DEF Next, Step, Use

(* A message that is written is a message; to write to none writes nothing. *)
LEMMA Written ==
    ASSUME NEW m \in Segments \cup {NONE}, NEW x, segment \in [Segments -> Messages],
           m \in Segments => x \in Messages,
           segment' = [segment EXCEPT ![m] = x]
    PROVE  /\ segment' \in [Segments -> Messages]
           /\ m \in Segments => segment'[m] = x
           /\ \A k \in Segments \ {m} : segment'[k] = segment[k]
OBVIOUS

(* Done turns a process to the test of both flags. *)
LEMMA DoneIs ==
    ASSUME NEW p \in Procs, Typed, NEW m \in Segments \cup {NONE}, NEW sender \in BOOLEAN,
           Done(p, m, sender)
    PROVE  /\ proc' \in [Procs -> Calls]
           /\ proc'[p].at = "test" /\ proc'[p].seg = m /\ proc'[p].sender = sender
           /\ \A q \in Procs \ {p} : proc'[q] = proc[q]
           /\ segment' \in [Segments -> Messages]
<1>1. 0 \in Entries /\ 0 \in Slots /\ NONE \notin Procs
  BY LibIPCAssumption DEF Entries, Slots, Procs
<1> DEFINE call == [At("test") EXCEPT !.seg = m, !.sender = sender]
<1>2. /\ call \in Calls /\ call.at = "test" /\ call.seg = m /\ call.sender = sender
  BY <1>1 DEF At, Calls, Labels
<1>3. proc' = [proc EXCEPT ![p] = call]
  BY DEF Done
<1> HIDE DEF call
<1>4. proc'[p] = call /\ proc' \in [Procs -> Calls] /\ \A q \in Procs \ {p} : proc'[q] = proc[q]
  BY <1>2, <1>3 DEF Typed
<1>5. segment' \in [Segments -> Messages]
  <2>1. CASE sender
    <3> DEFINE x == [segment[m] EXCEPT !.senderDone = TRUE]
    <3>1. segment' = [segment EXCEPT ![m] = x]
      BY <2>1 DEF Done
    <3>2. ASSUME m \in Segments PROVE x \in Messages
      <4>1. segment[m] \in Messages
        BY <3>2 DEF Typed
      <4> QED BY <4>1 DEF Messages
    <3> HIDE DEF x
    <3> QED BY <3>1, <3>2, Written DEF Typed
  <2>2. CASE ~sender
    <3> DEFINE x == [segment[m] EXCEPT !.receiverDone = TRUE]
    <3>1. segment' = [segment EXCEPT ![m] = x]
      BY <2>2 DEF Done
    <3>2. ASSUME m \in Segments PROVE x \in Messages
      <4>1. segment[m] \in Messages
        BY <3>2 DEF Typed
      <4> QED BY <4>1 DEF Messages
    <3> HIDE DEF x
    <3> QED BY <3>1, <3>2, Written DEF Typed
  <2> QED BY <2>1, <2>2
<1> QED BY <1>2, <1>4, <1>5

(* A call moves its own process only, from one place in the library to      *)
(* another.                                                                 *)
LEMMA UseMoves ==
    ASSUME NEW p \in Procs, Typed, Use(p)
    PROVE  /\ proc' \in [Procs -> Calls]
           /\ \A q \in Procs \ {p} : proc'[q] = proc[q]
           /\ proc[p].at \in Labels \ {"out", "creating", "counting", "leaving"}
           /\ proc'[p].at \in Labels \ {"out", "creating", "counting", "leaving"}
           /\ proc'[p].at = "claim" => proc'[p].target \in Procs
           /\ shared' = shared
<1> USE DEF Labels
<1>0. proc \in [Procs -> Calls] /\ proc[p].at \in Labels
  BY DEF Typed, Calls
<1>1. CASE Claim(p)
  <2>1. \E label \in {"wait", "store"} : Goto(p, label)
    BY <1>1 DEF Claim
  <2> QED BY <1>0, <1>1, <2>1, Going DEF Claim
<1>2. CASE StoreMessage(p)
  BY <1>0, <1>2, Going DEF StoreMessage
<1>3. CASE IPCQueueWrite(p)
  BY <1>0, <1>3, Going DEF IPCQueueWrite
<1>4. CASE WakeReceiver(p)
  BY <1>0, <1>4, Going DEF WakeReceiver
<1>5. CASE SleepSender(p)
  BY <1>0, <1>5, Returning DEF SleepSender
<1>6. CASE WaitMessage(p)
  BY <1>0, <1>6, Going, Returning DEF WaitMessage
<1>7. CASE IPCQueueRead(p)
  <2>1. CASE Return(p)
    BY <1>0, <1>7, <2>1, Returning DEF IPCQueueRead
  <2>2. CASE proc' = [proc EXCEPT ![p].at = "fetch", ![p].slot = SlotRead(proc[p].entry)]
    <3>1. SlotRead(proc[p].entry) \in Slots \cup {-1}
      BY <1>0, Turning DEF SlotRead, Typed, Calls
    <3> DEFINE call == [proc[p] EXCEPT !.at = "fetch", !.slot = SlotRead(proc[p].entry)]
    <3>2. proc' = [proc EXCEPT ![p] = call]
      BY <1>0, <2>2
    <3>3. call \in Calls /\ call.at = "fetch"
      BY <1>0, <3>1 DEF Calls
    <3> HIDE DEF call
    <3>4. proc' \in [Procs -> Calls] /\ proc'[p].at = "fetch" /\ \A q \in Procs \ {p} : proc'[q] = proc[q]
      BY <1>0, <3>2, <3>3
    <3> QED BY <1>7, <3>4 DEF IPCQueueRead
  <2> QED BY <1>7, <2>1, <2>2 DEF IPCQueueRead
<1>8. CASE AttachMessage(p)
  <2>1. CASE Return(p)
    BY <1>0, <1>8, <2>1, Returning DEF AttachMessage
  <2>2. CASE proc' = [proc EXCEPT ![p] = [At("busy") EXCEPT !.seg = Fetched(p)]]
    <3> DEFINE call == [At("busy") EXCEPT !.seg = Fetched(p)]
    <3>1. 0 \in Entries /\ 0 \in Slots
      BY LibIPCAssumption DEF Entries, Slots
    <3>2. Fetched(p) \in Segments \cup {NONE}
      <4>1. proc[p].entry \in Entries /\ proc[p].slot \in Slots \cup {-1}
        BY <1>0 DEF Calls
      <4> QED BY <4>1 DEF Fetched, Typed
    <3>3. call \in Calls /\ call.at = "busy"
      BY <3>1, <3>2 DEF At, Calls
    <3> HIDE DEF call
    <3>4. proc' = [proc EXCEPT ![p] = call]
      BY <2>2 DEF call
    <3> QED BY <1>0, <1>8, <3>3, <3>4 DEF AttachMessage
  <2> QED BY <1>8, <2>1, <2>2 DEF AttachMessage
<1>9. CASE TestDone(p)
  <2>1. BothDone(proc[p].seg) \in BOOLEAN
    BY DEF BothDone
  <2>2. proc' = [proc EXCEPT ![p].at = "notify", ![p].destroy = BothDone(proc[p].seg)]
    BY <1>9 DEF TestDone
  <2> DEFINE call == [proc[p] EXCEPT !.at = "notify", !.destroy = BothDone(proc[p].seg)]
  <2>3. proc' = [proc EXCEPT ![p] = call]
    BY <1>0, <2>2
  <2>4. call \in Calls /\ call.at = "notify"
    BY <1>0, <2>1 DEF Calls
  <2> HIDE DEF call
  <2>5. proc' \in [Procs -> Calls] /\ proc'[p].at = "notify" /\ \A q \in Procs \ {p} : proc'[q] = proc[q]
    BY <1>0, <2>3, <2>4
  <2> QED BY <1>9, <2>5 DEF TestDone
<1>10. CASE NotifyDone(p)
  BY <1>0, <1>10, Going DEF NotifyDone
<1>11. CASE DetachMessage(p)
  BY <1>0, <1>11, Returning DEF DetachMessage
<1>12. CASE \E m \in Segments : ipcBufferAllocate(p, m)
  BY <1>0, <1>12 DEF ipcBufferAllocate
<1>13. CASE \E m \in Segments : \E target \in Servers, sync \in BOOLEAN : ipcBufferSend(p, m, target, sync)
  <2>1. PICK m \in Segments, target \in Servers, sync \in BOOLEAN : ipcBufferSend(p, m, target, sync)
    BY <1>13
  <2>2. FindEntry(p, target, "store", m, sync) /\ target \in Procs
    BY <2>1 DEF ipcBufferSend, Procs
  <2>3. /\ proc' \in [Procs -> Calls] /\ proc'[p].at \in {"store", "claim", "exit"}
        /\ \A q \in Procs \ {p} : proc'[q] = proc[q]
    BY <1>0, <2>2, Finding
  <2>4. proc'[p].at = "claim" => proc'[p].target = target
    <3>1. \/ proc'[p] = At("exit")
          \/ \E e \in EntriesOf(target) : Asked(proc'[p], "store", e, target, m, sync)
          \/ \E e \in EntriesOf(NOPROCESS) : Asked(proc'[p], "claim", e, target, m, sync)
      BY <1>0, <2>2, Finding
    <3>2. CASE proc'[p] = At("exit")
      BY <3>2 DEF At
    <3>3. ASSUME NEW e, Asked(proc'[p], "store", e, target, m, sync) PROVE proc'[p].at = "store"
      BY <3>3 DEF Asked
    <3>4. ASSUME NEW e, Asked(proc'[p], "claim", e, target, m, sync) PROVE proc'[p].target = target
      BY <3>4 DEF Asked
    <3> QED BY <3>1, <3>2, <3>3, <3>4
  <2> QED BY <2>1, <2>2, <2>3, <2>4 DEF ipcBufferSend
<1>14. CASE \E sync \in BOOLEAN : ipcBufferGet(p, sync)
  <2>1. PICK sync \in BOOLEAN : ipcBufferGet(p, sync)
    BY <1>14
  <2>2. FindEntry(p, p, "wait", NONE, sync)
    BY <2>1 DEF ipcBufferGet
  <2>3. /\ proc' \in [Procs -> Calls] /\ proc'[p].at \in {"wait", "claim", "exit"}
        /\ \A q \in Procs \ {p} : proc'[q] = proc[q]
    BY <1>0, <2>2, Finding
  <2>4. proc'[p].at = "claim" => proc'[p].target = p
    <3>1. \/ proc'[p] = At("exit")
          \/ \E e \in EntriesOf(p) : Asked(proc'[p], "wait", e, p, NONE, sync)
          \/ \E e \in EntriesOf(NOPROCESS) : Asked(proc'[p], "claim", e, p, NONE, sync)
      BY <1>0, <2>2, Finding
    <3>2. CASE proc'[p] = At("exit")
      BY <3>2 DEF At
    <3>3. ASSUME NEW e, Asked(proc'[p], "wait", e, p, NONE, sync) PROVE proc'[p].at = "wait"
      BY <3>3 DEF Asked
    <3>4. ASSUME NEW e, Asked(proc'[p], "claim", e, p, NONE, sync) PROVE proc'[p].target = p
      BY <3>4 DEF Asked
    <3> QED BY <3>1, <3>2, <3>3, <3>4
  <2> QED BY <2>1, <2>2, <2>3, <2>4 DEF ipcBufferGet
<1>15. CASE ipcBufferDone(p)
  <2>1. PICK m \in Segments \cup {NONE}, sender \in BOOLEAN :
            proc[p].at \in {"idle", "busy"} /\ Done(p, m, sender)
    BY <1>0, <1>15 DEF ipcBufferDone, Calls
  <2> QED BY <2>1, DoneIs DEF Done
<1> QED BY <1>1, <1>2, <1>3, <1>4, <1>5, <1>6, <1>7, <1>8, <1>9, <1>10, <1>11, <1>12, <1>13, <1>14, <1>15 DEF Use

(* What a call does to the messages leaves messages. *)
LEMMA UseKeepsSegments ==
    ASSUME NEW p \in Procs, Typed, Use(p)
    PROVE  segment' \in [Segments -> Messages]
<1>0. /\ segment \in [Segments -> Messages] /\ \A k \in Segments : segment[k] \in Messages
      /\ proc[p].seg \in Segments \cup {NONE} /\ proc[p].sync \in BOOLEAN
  BY DEF Typed, Calls
<1>1. CASE StoreMessage(p)
  <2> DEFINE m == proc[p].seg
             x == [segment[m] EXCEPT !.senderDone = FALSE, !.receiverDone = FALSE,
                                     !.sent = IF proc[p].sync THEN "sync" ELSE "async"]
  <2>1. segment' = [segment EXCEPT ![m] = x]
    BY <1>0, <1>1 DEF StoreMessage, Undone
  <2>2. ASSUME m \in Segments PROVE x \in Messages
    <3>1. segment[m] \in Messages
      BY <1>0, <2>2
    <3> QED BY <1>0, <3>1 DEF Messages
  <2> HIDE DEF x
  <2> QED BY <1>0, <2>1, <2>2, Written
<1>2. CASE SleepSender(p)
  <2> DEFINE m == proc[p].seg
             x == [segment[m] EXCEPT !.senderSem = IF @ > 0 THEN @ - 1 ELSE @]
  <2>1. segment' = [segment EXCEPT ![m] = x]
    BY <1>2 DEF SleepSender
  <2>2. ASSUME m \in Segments PROVE x \in Messages
    <3>1. segment[m] \in Messages
      BY <1>0, <2>2
    <3> QED BY <3>1 DEF Messages
  <2> HIDE DEF x
  <2> QED BY <1>0, <2>1, <2>2, Written
<1>3. CASE AttachMessage(p) /\ segment' # segment
  <2> DEFINE m == Fetched(p)
             x == [segment[m] EXCEPT !.attached = @ \cup {p}]
  <2>1. segment' = [segment EXCEPT ![m] = x] /\ m # NONE
    BY <1>3 DEF AttachMessage
  <2>2. m \in Segments
    <3>1. proc[p].entry \in Entries /\ proc[p].slot \in Slots \cup {-1}
      BY DEF Typed, Calls
    <3> QED BY <2>1, <3>1 DEF Fetched, Typed
  <2>3. x \in Messages
    <3>1. segment[m] \in Messages
      BY <1>0, <2>2
    <3> QED BY <3>1 DEF Messages
  <2> HIDE DEF x
  <2> QED BY <1>0, <2>1, <2>2, <2>3, Written
<1>4. CASE NotifyDone(p)
  <2> DEFINE m == proc[p].seg
             x == [segment[m] EXCEPT !.senderSem = IF proc[p].sender \/ @ = -1 THEN -1 ELSE @ + 1]
  <2>1. segment' = [segment EXCEPT ![m] = x]
    BY <1>4 DEF NotifyDone
  <2>2. ASSUME m \in Segments PROVE x \in Messages
    <3>1. segment[m] \in Messages
      BY <1>0, <2>2
    <3> QED BY <3>1 DEF Messages
  <2> HIDE DEF x
  <2> QED BY <1>0, <2>1, <2>2, Written
<1>5. CASE DetachMessage(p)
  <2> DEFINE m == proc[p].seg
             y == IF proc[p].destroy THEN [segment[m] EXCEPT !.removed = TRUE] ELSE segment[m]
             x == Detached(p, y)
  <2>1. segment' = [segment EXCEPT ![m] = x]
    BY <1>5 DEF DetachMessage
  <2>2. ASSUME m \in Segments PROVE x \in Messages
    <3>1. segment[m] \in Messages
      BY <1>0, <2>2
    <3>2. y \in Messages
      BY <3>1 DEF Messages
    <3> HIDE DEF y
    <3> QED BY <3>2, DetachedTyped
  <2> HIDE DEF x
  <2> QED BY <1>0, <2>1, <2>2, Written
<1>6. CASE \E m \in Segments : ipcBufferAllocate(p, m)
  <2>1. PICK m \in Segments : ipcBufferAllocate(p, m)
    BY <1>6
  <2> DEFINE x == [Free EXCEPT !.live = TRUE, !.owner = p, !.attached = {p}, !.senderSem = 0]
  <2>2. segment' = [segment EXCEPT ![m] = x] /\ p \in Clients
    BY <2>1 DEF ipcBufferAllocate
  <2>3. x \in Messages
    BY <2>2 DEF Free, Messages
  <2> HIDE DEF x
  <2> QED BY <1>0, <2>2, <2>3, Written
<1>7. CASE ipcBufferDone(p)
  <2>1. PICK m \in Segments \cup {NONE}, sender \in BOOLEAN : Done(p, m, sender)
    BY <1>0, <1>7 DEF ipcBufferDone
  <2> QED BY <2>1, DoneIs
<1>8. CASE UNCHANGED segment
  BY <1>0, <1>8
<1> QED BY <1>1, <1>2, <1>3, <1>4, <1>5, <1>6, <1>7, <1>8 DEF Use, Claim, IPCQueueWrite, WakeReceiver,
      WaitMessage, IPCQueueRead, TestDone, ipcBufferSend, ipcBufferGet

(* What a call does to the rings leaves rings. *)
LEMMA UseKeepsRings ==
    ASSUME NEW p \in Procs, Typed, Use(p)
    PROVE  /\ owner' \in [Entries -> Procs \cup {NOPROCESS}]
           /\ semId' \in [Entries -> Nat]
           /\ read' \in [Entries -> Slots] /\ write' \in [Entries -> Slots]
           /\ shmemId' \in [Entries -> [Slots -> Segments \cup {NONE}]]
           /\ lost' \subseteq Segments \cup {NONE}
<1> DEFINE e == proc[p].entry
<1>0. /\ e \in Entries /\ read[e] \in Slots /\ write[e] \in Slots /\ semId[e] \in Nat
      /\ proc[p].target \in Procs \cup {NONE} /\ proc[p].seg \in Segments \cup {NONE}
      /\ shmemId[e][read[e]] \in Segments \cup {NONE}
      /\ (read[e] + 1) % QUEUESIZE \in Slots /\ (write[e] + 1) % QUEUESIZE \in Slots
  BY Turning DEF Typed, Calls
<1>1. CASE Claim(p)
  BY <1>0, <1>1 DEF Claim, ring, Typed
<1>2. CASE StoreMessage(p)
  <2>1. shmemId' = [shmemId EXCEPT ![e][write[e]] = proc[p].seg]
    BY <1>2 DEF StoreMessage
  <2>2. shmemId' \in [Entries -> [Slots -> Segments \cup {NONE}]]
    BY <1>0, <2>1 DEF Typed
  <2> QED BY <1>2, <2>2 DEF StoreMessage, Typed
<1>3. CASE IPCQueueWrite(p)
  BY <1>0, <1>3 DEF IPCQueueWrite, AdvanceRead, Typed
<1>4. CASE WakeReceiver(p)
  BY <1>0, <1>4 DEF WakeReceiver, ring, Typed
<1>5. CASE WaitMessage(p)
  BY <1>0, <1>5 DEF WaitMessage, ring, Typed
<1>6. CASE IPCQueueRead(p)
  BY <1>0, <1>6 DEF IPCQueueRead, Typed
<1>7. CASE UNCHANGED <<owner, semId, ring, lost>>
  BY <1>7 DEF ring, Typed
<1> QED BY <1>1, <1>2, <1>3, <1>4, <1>5, <1>6, <1>7 DEF Use, SleepSender, AttachMessage, TestDone,
      NotifyDone, DetachMessage, ipcBufferAllocate, ipcBufferSend, ipcBufferGet, ipcBufferDone, Done

LEMMA UseKeepsTypes ==
    ASSUME NEW p \in Procs, Typed, Use(p)
    PROVE  Typed'
<1>1. shared' = shared /\ proc' \in [Procs -> Calls]
  BY UseMoves
<1>2. \A q \in Procs : proc'[q].at = "claim" => proc'[q].target \in Procs
  BY UseMoves DEF Typed
<1> QED BY <1>1, <1>2, UseKeepsRings, UseKeepsSegments DEF Typed

-----------------------------------------------------------------------------
(* The users of the library, and why it lives as long as they do.  A        *)
(* segment that exists is set up, or being set up by its creator.           *)
Counted(q) == proc[q].at \notin {"out", "creating", "counting"}
Users      == { q \in Procs : Counted(q) }

Living ==
    /\ Typed /\ LibraryLives
    /\ shared.exists => shared.ready \/ Some({"creating"})

(* One process more, or one less, is counted. *)
LEMMA OneMore ==
    ASSUME NEW S, IsFiniteSet(S), NEW p
    PROVE  /\ p \notin S => Cardinality(S \cup {p}) = Cardinality(S) + 1
           /\ p \in S => Cardinality(S \ {p}) = Cardinality(S) - 1
           /\ p \in S /\ Cardinality(S) = 1 => S = {p}
<1>1. p \notin S => Cardinality(S \cup {p}) = Cardinality(S) + 1
  BY FS_AddElement
<1>2. p \in S => Cardinality(S \ {p}) = Cardinality(S) - 1
  BY FS_RemoveElement
<1>3. ASSUME p \in S, Cardinality(S) = 1
      PROVE  S = {p}
  <2>1. PICK x : S = {x}
    BY <1>3, FS_Singleton
  <2> QED BY <1>3, <2>1
<1> QED BY <1>1, <1>2, <1>3

LEMMA UsersAreFinite == IsFiniteSet(Users) /\ IsFiniteSet(Users')
BY LibIPCAssumption, FS_Subset DEF Users, Procs

LEMMA LifeGoesOn ==
    ASSUME "early" \notin Allowed, Living, Next
    PROVE  Living'
<1>0. PICK p \in Procs : \/ _init(p) \/ InitQueues(p) \/ CountUser(p) \/ _fini(p)
                         \/ DiscountUser(p) \/ Use(p)
  BY NextIs
<1>1. /\ Typed /\ proc \in [Procs -> Calls] /\ shared.users = Cardinality(Users)
      /\ \A q \in Procs : proc[q].at \in Labels
  BY DEF Living, LibraryLives, Users, Counted, Typed, Calls
<1>2. CASE Use(p)
  <2>1. Typed' /\ shared' = shared
    BY <1>1, <1>2, UseKeepsTypes, UseMoves
  <2>2. /\ \A q \in Procs \ {p} : proc'[q] = proc[q]
        /\ proc[p].at \in Labels \ {"out", "creating", "counting", "leaving"}
        /\ proc'[p].at \in Labels \ {"out", "creating", "counting", "leaving"}
    BY <1>1, <1>2, UseMoves
  <2>3. Users' = Users
    BY <2>2 DEF Users, Counted
  <2>4. shared'.users = Cardinality(Users')
    BY <1>1, <2>1, <2>3
  <2>5. shared.ready
    BY <2>2 DEF Living, LibraryLives, Some
  <2> QED BY <2>1, <2>4, <2>5 DEF Living, LibraryLives, Users, Counted, Some
<1>3. CASE _init(p)
  <2>1. shared' = [shared EXCEPT !.exists = TRUE]
    BY <1>3 DEF _init
  <2>2. Goto(p, IF shared.exists THEN "counting" ELSE "creating") /\ proc[p].at = "out"
    BY <1>3 DEF _init
  <2>3. /\ proc' \in [Procs -> Calls] /\ proc'[p].at = IF shared.exists THEN "counting" ELSE "creating"
        /\ \A q \in Procs \ {p} : proc'[q] = proc[q]
    BY <1>1, <2>2, Going DEF Labels
  <2>4. Typed'
    BY <1>1, <1>3, <2>1, <2>3 DEF _init, Typed, ring
  <2>5. Users' = Users
    BY <2>2, <2>3 DEF Users, Counted
  <2>6. shared'.users = Cardinality(Users') /\ shared'.ready = shared.ready
    BY <1>1, <2>1, <2>5 DEF Typed
  <2>7. ~Some({"creating"})
    BY <1>3 DEF _init, Some
  <2>8. Some(Labels \ {"out", "creating", "leaving"})' => shared'.ready
    <3>1. CASE shared.exists
      BY <2>6, <2>7, <3>1 DEF Living
    <3>2. CASE ~shared.exists
      BY <2>3, <2>6, <3>2 DEF Living, LibraryLives, Some
    <3> QED BY <3>1, <3>2
  <2>9. shared'.exists => shared'.ready \/ Some({"creating"})'
    BY <2>3, <2>6, <2>7 DEF Living, Some
  <2> QED BY <2>4, <2>6, <2>8, <2>9 DEF Living, LibraryLives, Users, Counted
<1>4. CASE InitQueues(p)
  <2>1. shared' = [shared EXCEPT !.ready = TRUE] /\ Goto(p, "counting") /\ proc[p].at = "creating"
    BY <1>4 DEF InitQueues
  <2>2. /\ proc' \in [Procs -> Calls] /\ proc'[p].at = "counting"
        /\ \A q \in Procs \ {p} : proc'[q] = proc[q]
    BY <1>1, <2>1, Going DEF Labels
  <2>3. 0 \in Slots
    BY LibIPCAssumption DEF Slots
  <2>4. Typed'
    BY <1>1, <1>4, <2>1, <2>2, <2>3 DEF InitQueues, Typed
  <2>5. Users' = Users
    BY <2>1, <2>2 DEF Users, Counted
  <2>6. shared'.users = Cardinality(Users') /\ shared'.ready
    BY <1>1, <2>1, <2>5 DEF Typed
  <2> QED BY <2>4, <2>6 DEF Living, LibraryLives, Users, Counted
<1>5. CASE CountUser(p)
  <2>1. shared' = [shared EXCEPT !.users = @ + 1] /\ Goto(p, "idle") /\ proc[p].at = "counting"
    BY <1>5 DEF CountUser
  <2>2. /\ proc' \in [Procs -> Calls] /\ proc'[p].at = "idle"
        /\ \A q \in Procs \ {p} : proc'[q] = proc[q]
    BY <1>1, <2>1, Going DEF Labels
  <2>3. Typed'
    <3>1. shared' \in [exists : BOOLEAN, ready : BOOLEAN, users : Int]
      BY <1>1, <2>1 DEF Typed
    <3>2. \A q \in Procs : proc'[q].at = "claim" => proc'[q].target \in Procs
      BY <1>1, <2>2 DEF Typed
    <3> QED BY <1>1, <1>5, <2>2, <3>1, <3>2 DEF CountUser, Typed, ring
  <2>4. Users' = Users \cup {p} /\ p \notin Users
    BY <2>1, <2>2 DEF Users, Counted
  <2>5. shared'.users = Cardinality(Users')
    BY <1>1, <2>1, <2>4, UsersAreFinite, OneMore DEF Typed
  <2>6. shared.ready /\ shared'.ready
    BY <1>1, <2>1 DEF Living, LibraryLives, Some, Labels, Typed
  <2> QED BY <2>3, <2>5, <2>6 DEF Living, LibraryLives, Users, Counted
<1>6. CASE _fini(p)
  <2>1. Goto(p, "leaving") /\ proc[p].at \in {"idle", "exit"}
    BY <1>6 DEF _fini
  <2>2. /\ proc' \in [Procs -> Calls] /\ proc'[p].at = "leaving"
        /\ \A q \in Procs \ {p} : proc'[q] = proc[q]
    BY <1>1, <2>1, Going DEF Labels
  <2>3. segment' \in [Segments -> Messages]
    BY <1>1, <1>6, DetachedTyped DEF _fini, Typed
  <2>4. Typed'
    BY <1>1, <1>6, <2>2, <2>3 DEF _fini, Typed, ring
  <2>5. Users' = Users /\ p \in Users
    BY <2>1, <2>2 DEF Users, Counted
  <2>6. CASE shared.users = 1
    <3>1. shared' = [shared EXCEPT !.exists = FALSE, !.ready = FALSE] /\ ~Some({"creating", "counting"})
      BY <1>6, <2>6 DEF _fini
    <3>2. Users = {p}
      BY <1>1, <2>5, <2>6, UsersAreFinite, OneMore
    <3>3. \A q \in Procs \ {p} : proc[q].at = "out"
      BY <3>1, <3>2 DEF Users, Counted, Some
    <3>4. ~Some(Labels \ {"out", "creating", "leaving"})'
      BY <2>2, <3>3 DEF Some
    <3>5. shared'.users = Cardinality(Users') /\ ~shared'.exists
      BY <1>1, <2>5, <3>1 DEF Typed
    <3> QED BY <2>4, <3>4, <3>5 DEF Living, LibraryLives, Users, Counted
  <2>7. CASE shared.users # 1
    <3>1. shared' = shared
      BY <1>6, <2>7 DEF _fini
    <3>2. shared'.users = Cardinality(Users') /\ shared.ready
      BY <1>1, <2>1, <2>5, <3>1 DEF Living, LibraryLives, Some, Labels
    <3> QED BY <2>4, <3>1, <3>2 DEF Living, LibraryLives, Users, Counted
  <2> QED BY <2>6, <2>7
<1>7. CASE DiscountUser(p)
  <2>1. shared' = [shared EXCEPT !.users = @ - 1] /\ Goto(p, "out") /\ proc[p].at = "leaving"
    BY <1>7 DEF DiscountUser
  <2>2. /\ proc' \in [Procs -> Calls] /\ proc'[p].at = "out"
        /\ \A q \in Procs \ {p} : proc'[q] = proc[q]
    BY <1>1, <2>1, Going DEF Labels
  <2>3. Typed'
    <3>1. shared' \in [exists : BOOLEAN, ready : BOOLEAN, users : Int]
      BY <1>1, <2>1 DEF Typed
    <3>2. \A q \in Procs : proc'[q].at = "claim" => proc'[q].target \in Procs
      BY <1>1, <2>2 DEF Typed
    <3> QED BY <1>1, <1>7, <2>2, <3>1, <3>2 DEF DiscountUser, Typed, ring
  <2>4. Users' = Users \ {p} /\ p \in Users
    BY <2>1, <2>2 DEF Users, Counted
  <2>5. shared'.users = Cardinality(Users')
    BY <1>1, <2>1, <2>4, UsersAreFinite, OneMore DEF Typed
  <2>6. shared'.ready = shared.ready /\ shared'.exists = shared.exists
    BY <1>1, <2>1 DEF Typed
  <2> QED BY <2>1, <2>2, <2>3, <2>5, <2>6 DEF Living, LibraryLives, Users, Counted, Some
<1> QED BY <1>0, <1>2, <1>3, <1>4, <1>5, <1>6, <1>7

LEMMA LifeBegins ==
    ASSUME Init
    PROVE  Living
<1>1. Users = {} /\ Cardinality(Users) = 0
  BY FS_EmptySet DEF Init, At, Users, Counted
<1>2. 0 \in Entries /\ 0 \in Slots
  BY LibIPCAssumption DEF Entries, Slots
<1>3. proc \in [Procs -> Calls] /\ segment \in [Segments -> Messages]
  BY <1>2 DEF Init, At, Calls, Labels, Free, Messages
<1>4. Typed
  <2>1. \A p \in Procs : proc[p].at # "claim"
    BY DEF Init, At
  <2>2. shared \in [exists : BOOLEAN, ready : BOOLEAN, users : Int]
    BY DEF Init
  <2>3. /\ owner \in [Entries -> Procs \cup {NOPROCESS}] /\ semId \in [Entries -> Nat]
        /\ read \in [Entries -> Slots] /\ write \in [Entries -> Slots]
        /\ shmemId \in [Entries -> [Slots -> Segments \cup {NONE}]]
    BY <1>2 DEF Init
  <2>4. lost \subseteq Segments \cup {NONE}
    BY DEF Init
  <2> QED BY <1>3, <2>1, <2>2, <2>3, <2>4 DEF Typed
<1>5. shared.users = Cardinality(Users)
  BY <1>1 DEF Init
<1>6. ~shared.exists /\ ~Some(Labels \ {"out", "creating", "leaving"})
  BY DEF Init, Some, At
<1> QED BY <1>4, <1>5, <1>6 DEF Living, LibraryLives, Users, Counted

LEMMA LifeRests ==
    ASSUME Living, UNCHANGED vars
    PROVE  Living'
<1>1. Users' = Users
  BY DEF Users, Counted, vars
<1> QED BY <1>1 DEF Living, LibraryLives, Typed, Some, vars, ring

(* The library of a process that uses it lives, whoever comes and goes:     *)
(* the count of users is exact, and its last user finds the semaphores.     *)
(* Nobody comes while it is being set up or taken down.                     *)
THEOREM UsersKeepLibrary ==
    ASSUME "early" \notin Allowed
    PROVE  Spec => []LibraryLives
<1>1. Init => Living
  BY LifeBegins
<1>2. Living /\ [Next]_vars => Living'
  BY LifeRests, LifeGoesOn
<1>3. Living => LibraryLives
  BY DEF Living
<1> QED BY <1>1, <1>2, <1>3, PTL DEF Spec

-----------------------------------------------------------------------------
(* Between the reader's index and the writer's, around the end of a ring.   *)
Turn(i) == IF i = QUEUESIZE - 1 THEN 0 ELSE i + 1
Between(r, w, s) == IF r <= w THEN r <= s /\ s < w ELSE r <= s \/ s < w
Span(r, w) == IF r <= w THEN w - r ELSE w - r + QUEUESIZE

LEMMA TurnIs ==
    ASSUME NEW i \in Slots
    PROVE  Turn(i) \in Slots /\ (i + 1) % QUEUESIZE = Turn(i) /\ Turn(i) # i
BY LibIPCAssumption, Turning DEF Slots, Turn

(* A write shows the slot that was written, a read hides the oldest.        *)
LEMMA Windows ==
    ASSUME NEW r \in Slots, NEW w \in Slots, NEW s \in Slots
    PROVE  /\ ~Between(r, w, w)
           /\ r # w => Between(r, w, r)
           /\ r = w => ~Between(r, w, s)
           /\ r # w => (Between(Turn(r), w, s) <=> Between(r, w, s) /\ s # r)
           /\ Turn(w) # r => (Between(r, Turn(w), s) <=> Between(r, w, s) \/ s = w)
           /\ Turn(w) = r => (Between(Turn(r), Turn(w), s) <=> (Between(r, w, s) /\ s # r) \/ s = w)
<1> USE LibIPCAssumption DEF Slots, Between, Turn
<1>1. ~Between(r, w, w)
  OBVIOUS
<1>2. r # w => Between(r, w, r)
  OBVIOUS
<1>3. r = w => ~Between(r, w, s)
  OBVIOUS
<1>4. r # w => (Between(Turn(r), w, s) <=> Between(r, w, s) /\ s # r)
  OBVIOUS
<1>5. Turn(w) # r => (Between(r, Turn(w), s) <=> Between(r, w, s) \/ s = w)
  OBVIOUS
<1>6. Turn(w) = r => (Between(Turn(r), Turn(w), s) <=> (Between(r, w, s) /\ s # r) \/ s = w)
  OBVIOUS
<1> QED BY <1>1, <1>2, <1>3, <1>4, <1>5, <1>6

(* How many messages a ring shows.                                          *)
LEMMA Spans ==
    ASSUME NEW r \in Slots, NEW w \in Slots
    PROVE  /\ Span(r, w) \in Nat /\ (w - r) % QUEUESIZE = Span(r, w)
           /\ r = w => Span(r, w) = 0
           /\ r # w => Span(r, w) = Span(Turn(r), w) + 1
           /\ Turn(w) # r => Span(r, Turn(w)) = Span(r, w) + 1
           /\ Turn(w) = r => Span(Turn(r), Turn(w)) = Span(r, w)
<1> USE LibIPCAssumption DEF Slots, Turn, Span
<1>1. Span(r, w) \in Nat
  OBVIOUS
<1>2. (w - r) % QUEUESIZE = Span(r, w)
  OBVIOUS
<1>3. r = w => Span(r, w) = 0
  OBVIOUS
<1>4. r # w => Span(r, w) = Span(Turn(r), w) + 1
  OBVIOUS
<1>5. Turn(w) # r => Span(r, Turn(w)) = Span(r, w) + 1
  OBVIOUS
<1>6. Turn(w) = r => Span(Turn(r), Turn(w)) = Span(r, w)
  OBVIOUS
<1> QED BY <1>1, <1>2, <1>3, <1>4, <1>5, <1>6

(* The messages of a ring are those between its indices.                    *)
LEMMA Shown ==
    ASSUME NEW r \in Slots, NEW w \in Slots
    PROVE  /\ \A i \in 1 .. Span(r, w) : (r + i - 1) % QUEUESIZE \in Slots /\ Between(r, w, (r + i - 1) % QUEUESIZE)
           /\ \A s \in Slots : Between(r, w, s) => \E i \in 1 .. Span(r, w) : (r + i - 1) % QUEUESIZE = s
<1> USE LibIPCAssumption DEF Slots, Span, Between
<1>1. ASSUME NEW i \in 1 .. Span(r, w)
      PROVE  (r + i - 1) % QUEUESIZE \in Slots /\ Between(r, w, (r + i - 1) % QUEUESIZE)
  <2>1. (r + i - 1) % QUEUESIZE = IF r + i - 1 < QUEUESIZE THEN r + i - 1 ELSE r + i - 1 - QUEUESIZE
    OBVIOUS
  <2> QED BY <2>1
<1>2. ASSUME NEW s \in Slots, Between(r, w, s)
      PROVE  \E i \in 1 .. Span(r, w) : (r + i - 1) % QUEUESIZE = s
  <2>1. CASE r <= s
    <3>1. s - r + 1 \in 1 .. Span(r, w) /\ (r + (s - r + 1) - 1) % QUEUESIZE = s
      BY <1>2, <2>1
    <3> QED BY <3>1
  <2>2. CASE s < r
    <3>1. s - r + 1 + QUEUESIZE \in 1 .. Span(r, w)
      BY <1>2, <2>2
    <3>2. (r + (s - r + 1 + QUEUESIZE) - 1) % QUEUESIZE = s
      OBVIOUS
    <3> QED BY <3>1, <3>2
  <2> QED BY <2>1, <2>2
<1> QED BY <1>1, <1>2

-----------------------------------------------------------------------------
(* What the rings are at any time.  A ring has one owner, an owner one ring;*)
(* nobody else claims while one claims, or writes while one writes; what is *)
(* between the indices are messages; and a server that left found no ring.  *)
Sending == {"claim", "store", "publish", "wake", "sleep"}
Pending == {"publish", "wake", "sleep"}
Ending  == {"test", "notify", "detach"}
Present(t) == proc[t].at \notin {"out", "creating", "counting"}

Placed(p) ==
    LET e == proc[p].entry
    IN  /\ proc[p].at \in {"store", "publish", "wake", "sleep", "busy"} \cup Ending => proc[p].seg \in Segments
        /\ proc[p].at = "claim" =>
              /\ owner[e] = NOPROCESS /\ EntriesOf(proc[p].target) = {} /\ proc[p].target \in Servers
              /\ proc[p].seg = NONE => proc[p].target = p
        /\ proc[p].at \in {"store", "publish", "wake"} => owner[e] = proc[p].target /\ proc[p].target \in Servers
        /\ proc[p].at \in {"wait", "read", "fetch"} => owner[e] = p /\ p \in Servers
        /\ proc[p].at = "publish" => shmemId[e][write[e]] = proc[p].seg
        /\ proc[p].at = "fetch" => proc[p].slot = read[e] - 1
        /\ p \in Servers /\ proc[p].at \in {"exit", "leaving"} => EntriesOf(p) = {} /\ EntriesOf(NOPROCESS) = {}

Alone(p, q) ==
    /\ proc[p].at = "claim" /\ proc[q].at = "claim" => p = q
    /\ proc[p].entry = proc[q].entry /\ proc[p].at = "publish" =>
          /\ proc[q].at = "publish" => p = q
          /\ proc[q].at = "fetch" => Turn(write[proc[p].entry]) # read[proc[p].entry]

Apart == \A e, f \in Entries : owner[e] = owner[f] /\ owner[e] # NOPROCESS => e = f

Shows(e, s) == Between(read[e], write[e], s)
Filled == \A e \in Entries, s \in Slots : Shows(e, s) => shmemId[e][s] \in Segments /\ owner[e] \in Servers

Rings ==
    /\ Apart /\ Filled
    /\ \A p \in Procs : Placed(p)
    /\ \A p, q \in Procs : Alone(p, q)

(* Who creates the library is alone with those who have not come.           *)
Founded ==
    /\ Living
    /\ shared.ready \/ Some({"creating"}) => shared.exists
    /\ \A p, q \in Procs : proc[p].at = "creating" /\ p # q => proc[q].at = "out"

(* Servers receive, clients send.                                           *)
Roles == Allowed = {} /\ Clients \cap Servers = {}

(* A step of a process, from one place to another.                          *)
Moves(p, label) ==
    /\ proc'[p].at = label
    /\ proc'[p].seg = proc[p].seg /\ proc'[p].target = proc[p].target /\ proc'[p].entry = proc[p].entry
    /\ proc'[p].sync = proc[p].sync /\ proc'[p].sender = proc[p].sender /\ proc'[p].slot = proc[p].slot
    /\ proc'[p].destroy = proc[p].destroy

LEMMA GoingMoves ==
    ASSUME NEW p \in Procs, Typed, NEW label \in Labels, Goto(p, label)
    PROVE  Moves(p, label) /\ \A q \in Procs \ {p} : proc'[q] = proc[q]
<1>1. /\ proc'[p] = [proc[p] EXCEPT !.at = label] /\ proc[p] \in Calls
      /\ \A q \in Procs \ {p} : proc'[q] = proc[q]
  BY Going DEF Typed
<1> QED BY <1>1 DEF Moves, Calls

-----------------------------------------------------------------------------
(* The rings stay so.  First, when only a process moves that has nothing to *)
(* do with a ring afterwards.                                               *)
Ringless == {"out", "creating", "counting", "idle", "sleep", "busy"} \cup Ending

LEMMA RingsRest ==
    ASSUME NEW p \in Procs, Typed, Rings,
           proc'[p].at \in Ringless,
           proc'[p].at \in {"sleep", "busy"} \cup Ending => proc'[p].seg \in Segments,
           \A q \in Procs \ {p} : proc'[q] = proc[q],
           UNCHANGED <<owner, read, write, shmemId>>
    PROVE  Rings'
<1> USE DEF Ringless, Ending
<1>1. Apart' /\ Filled'
  BY DEF Rings, Apart, Filled, Shows
<1>2. ASSUME NEW q \in Procs PROVE Placed(q)'
  <2>1. CASE q = p
    BY <2>1 DEF Placed, Sending
  <2>2. CASE q # p
    <3>1. Placed(q) /\ proc'[q] = proc[q]
      BY <2>2 DEF Rings
    <3> QED BY <3>1 DEF Placed, EntriesOf
  <2> QED BY <2>1, <2>2
<1>3. ASSUME NEW a \in Procs, NEW b \in Procs PROVE Alone(a, b)'
  <2>1. Alone(a, b)
    BY DEF Rings
  <2>2. CASE a = p \/ b = p
    BY <2>1, <2>2 DEF Alone
  <2>3. CASE a # p /\ b # p
    <3>1. proc'[a] = proc[a] /\ proc'[b] = proc[b]
      BY <2>3
    <3> QED BY <2>1, <3>1 DEF Alone
  <2> QED BY <2>2, <2>3
<1> QED BY <1>1, <1>2, <1>3 DEF Rings

(* A process that goes on or looks for a ring, as others see it.            *)
LEMMA RingsOfOthers ==
    ASSUME NEW p \in Procs, Rings, \A q \in Procs \ {p} : proc'[q] = proc[q],
           UNCHANGED <<owner, read, write, shmemId>>,
           Placed(p)', \A q \in Procs \ {p} : Alone(p, q)' /\ Alone(q, p)'
    PROVE  Rings'
<1>1. Apart' /\ Filled'
  BY DEF Rings, Apart, Filled, Shows
<1>2. ASSUME NEW q \in Procs PROVE Placed(q)'
  <2>2. CASE q # p
    <3>1. Placed(q) /\ proc'[q] = proc[q]
      BY <2>2 DEF Rings
    <3> QED BY <3>1 DEF Placed, EntriesOf
  <2> QED BY <2>2
<1>3. ASSUME NEW a \in Procs, NEW b \in Procs PROVE Alone(a, b)'
  <2>1. CASE a = p /\ b = p
    <3>1. Alone(p, p)'
      <4>1. proc'[p].at = "fetch" => proc'[p].at # "publish"
        OBVIOUS
      <4> QED BY <4>1 DEF Alone
    <3> QED BY <2>1, <3>1
  <2>2. CASE a # p /\ b # p
    <3>1. proc'[a] = proc[a] /\ proc'[b] = proc[b] /\ Alone(a, b)
      BY <2>2 DEF Rings
    <3> QED BY <3>1 DEF Alone
  <2> QED BY <2>1, <2>2
<1> QED BY <1>1, <1>2, <1>3 DEF Rings

LEMMA RingsFind ==
    ASSUME NEW p \in Procs, Roles, Typed, Rings, proc[p].at = "idle",
           NEW of \in Servers, NEW next \in {"store", "wait"}, NEW seg \in Segments \cup {NONE},
           NEW sync \in BOOLEAN, FindEntry(p, of, next, seg, sync),
           next = "wait" => of = p /\ seg = NONE, next = "store" => p \in Clients /\ seg \in Segments,
           UNCHANGED <<owner, read, write, shmemId>>
    PROVE  Rings'
<1>0. /\ of \in Procs /\ next \in Labels /\ "claim" \notin Allowed
      /\ NOPROCESS \notin Procs
  BY LibIPCAssumption DEF Procs, Labels, Roles
<1>1. /\ \A q \in Procs \ {p} : proc'[q] = proc[q]
      /\ \/ proc'[p] = At("exit") /\ EntriesOf(of) = {} /\ EntriesOf(NOPROCESS) = {}
         \/ \E e \in EntriesOf(of) : Asked(proc'[p], next, e, of, seg, sync)
         \/ /\ EntriesOf(of) = {} /\ (Some({"claim"}) => "claims" \in Allowed)
            /\ \E e \in EntriesOf(NOPROCESS) : Asked(proc'[p], "claim", e, of, seg, sync)
  <2>1. proc \in [Procs -> Calls]
    BY DEF Typed
  <2> QED BY <1>0, <2>1, Finding
<1>2. CASE proc'[p] = At("exit") /\ EntriesOf(of) = {} /\ EntriesOf(NOPROCESS) = {}
  <2>1. proc'[p].at = "exit"
    BY <1>2 DEF At
  <2>2. Placed(p)'
    BY <1>2, <2>1 DEF Placed, Ending, EntriesOf, Roles
  <2>3. ASSUME NEW q \in Procs \ {p} PROVE Alone(p, q)' /\ Alone(q, p)'
    BY <2>1 DEF Alone
  <2> QED BY <1>1, <2>2, <2>3, RingsOfOthers
<1>3. CASE \E e \in EntriesOf(of) : Asked(proc'[p], next, e, of, seg, sync)
  <2>1. PICK e \in EntriesOf(of) : Asked(proc'[p], next, e, of, seg, sync)
    BY <1>3
  <2>2. proc'[p].at = next /\ proc'[p].entry = e /\ proc'[p].target = of /\ proc'[p].seg = seg /\ owner[e] = of
    BY <2>1 DEF Asked, EntriesOf
  <2>3. Placed(p)'
    BY <2>2 DEF Placed, Ending
  <2>4. ASSUME NEW q \in Procs \ {p} PROVE Alone(p, q)' /\ Alone(q, p)'
    BY <2>2 DEF Alone
  <2> QED BY <1>1, <2>3, <2>4, RingsOfOthers
<1>4. CASE /\ EntriesOf(of) = {} /\ (Some({"claim"}) => "claims" \in Allowed)
           /\ \E e \in EntriesOf(NOPROCESS) : Asked(proc'[p], "claim", e, of, seg, sync)
  <2>1. PICK e \in EntriesOf(NOPROCESS) : Asked(proc'[p], "claim", e, of, seg, sync)
    BY <1>4
  <2>2. /\ proc'[p].at = "claim" /\ proc'[p].entry = e /\ proc'[p].target = of /\ proc'[p].seg = seg
        /\ owner[e] = NOPROCESS
    BY <2>1 DEF Asked, EntriesOf
  <2>6. seg = NONE => of = p
    BY LibIPCAssumption
  <2>7. EntriesOf(of)' = {} /\ owner'[e] = NOPROCESS
    BY <1>4, <2>2 DEF EntriesOf
  <2>3. Placed(p)'
    BY <2>2, <2>6, <2>7 DEF Placed, Ending, EntriesOf
  <2>4. \A q \in Procs : proc[q].at # "claim"
    BY <1>4 DEF Some, Roles
  <2>5. ASSUME NEW q \in Procs \ {p} PROVE Alone(p, q)' /\ Alone(q, p)'
    BY <1>1, <2>2, <2>4 DEF Alone
  <2> QED BY <1>1, <2>3, <2>5, RingsOfOthers
<1> QED BY <1>1, <1>2, <1>3, <1>4

(* A free ring is claimed.                                                  *)
LEMMA RingsClaim ==
    ASSUME NEW p \in Procs, Roles, Typed, Rings, Claim(p)
    PROVE  Rings'
<1> DEFINE e == proc[p].entry
           t == proc[p].target
           label == IF proc[p].seg = NONE THEN "wait" ELSE "store"
<1>1. /\ proc[p].at = "claim" /\ owner' = [owner EXCEPT ![e] = t] /\ Goto(p, label) /\ label \in Labels
      /\ UNCHANGED <<read, write, shmemId>>
  BY DEF Claim, ring, Labels
<1>2. Moves(p, label) /\ \A q \in Procs \ {p} : proc'[q] = proc[q]
  BY <1>1, GoingMoves
<1>3. /\ e \in Entries /\ owner[e] = NOPROCESS /\ EntriesOf(t) = {} /\ t \in Servers
      /\ proc[p].seg = NONE => t = p
      /\ proc[p].seg \in Segments \cup {NONE}
  BY <1>1 DEF Rings, Placed, Typed, Calls
<1>4. t # NOPROCESS /\ t \in Procs /\ NOPROCESS \notin Servers
  BY <1>3, LibIPCAssumption DEF Procs
<1>5. owner'[e] = t /\ \A f \in Entries \ {e} : owner'[f] = owner[f] /\ owner[f] # t
  BY <1>1, <1>3 DEF Typed, EntriesOf
<1> HIDE DEF e, t
<1>6. Apart'
  BY <1>3, <1>4, <1>5 DEF Apart, Rings
<1>7. Filled'
  BY <1>1, <1>3, <1>4, <1>5 DEF Filled, Shows, Rings
<1>8. Placed(p)'
  <2>1. CASE proc[p].seg = NONE
    <3>1. proc'[p].at = "wait" /\ proc'[p].entry = e /\ owner'[e] = p /\ p \in Servers
      BY <1>2, <1>3, <1>5, <2>1 DEF Moves, e
    <3> QED BY <3>1 DEF Placed, Ending
  <2>2. CASE proc[p].seg # NONE
    <3>1. /\ proc'[p].at = "store" /\ proc'[p].entry = e /\ owner'[e] = t /\ proc'[p].target = t
          /\ proc'[p].seg \in Segments
      BY <1>2, <1>3, <1>5, <2>2 DEF Moves, e, t
    <3> QED BY <1>3, <3>1 DEF Placed, Ending
  <2> QED BY <2>1, <2>2
<1>9. ASSUME NEW q \in Procs \ {p} PROVE Placed(q)'
  <2>1. Placed(q) /\ proc'[q] = proc[q] /\ Alone(p, q) /\ proc[q].entry \in Entries
    BY <1>2 DEF Rings, Typed, Calls
  <2>2. proc[q].at # "claim"
    BY <1>1, <2>1 DEF Alone
  <2>3. owner[proc[q].entry] # NOPROCESS => owner'[proc[q].entry] = owner[proc[q].entry]
    BY <1>3, <1>5, <2>1
  <2>4. proc[q].at \in {"store", "publish", "wake", "wait", "read", "fetch"} => owner[proc[q].entry] # NOPROCESS
    BY <1>4, <2>1, LibIPCAssumption DEF Placed, Procs
  <2>5. ~(q \in Servers /\ proc[q].at \in {"exit", "leaving"})
    BY <1>3, <2>1 DEF Placed, EntriesOf
  <2> QED BY <1>1, <2>1, <2>2, <2>3, <2>4, <2>5 DEF Placed
<1>10. ASSUME NEW a \in Procs, NEW b \in Procs PROVE Alone(a, b)'
  <2>1. proc'[p].at \in {"wait", "store"}
    BY <1>2 DEF Moves
  <2>2. CASE a = p \/ b = p
    BY <2>1, <2>2 DEF Alone
  <2>3. CASE a # p /\ b # p
    <3>1. proc'[a] = proc[a] /\ proc'[b] = proc[b] /\ Alone(a, b)
      BY <1>2, <2>3 DEF Rings
    <3> QED BY <1>1, <3>1 DEF Alone
  <2> QED BY <2>2, <2>3
<1> QED BY <1>6, <1>7, <1>8, <1>9, <1>10 DEF Rings

(* A message is stored behind the newest, where nobody reads.               *)
LEMMA RingsStore ==
    ASSUME NEW p \in Procs, Roles, Typed, Rings, StoreMessage(p)
    PROVE  Rings'
<1> DEFINE e == proc[p].entry
           w == write[e]
<1>1. /\ proc[p].at = "store" /\ Goto(p, "publish") /\ "publish" \in Labels
      /\ shmemId' = [shmemId EXCEPT ![e][w] = proc[p].seg]
      /\ UNCHANGED <<owner, read, write>>
      /\ e \in Entries /\ w \in Slots /\ read[e] \in Slots
  BY DEF StoreMessage, Labels, Typed, Calls
<1>2. Moves(p, "publish") /\ \A q \in Procs \ {p} : proc'[q] = proc[q]
  BY <1>1, GoingMoves
<1>3. \A q \in Procs : proc[q].at = "publish" => proc[q].entry # e
  BY DEF StoreMessage, Roles
<1>4. \A q \in Procs : proc[q].at = "fetch" /\ proc[q].entry = e => Turn(w) # read[e]
  BY <1>1, TurnIs DEF StoreMessage, Roles, Full
<1>5. /\ shmemId'[e][w] = proc[p].seg
      /\ \A f \in Entries, s \in Slots : f # e \/ s # w => shmemId'[f][s] = shmemId[f][s]
  BY <1>1 DEF Typed
<1>6. proc[p].seg \in Segments /\ owner[e] = proc[p].target /\ proc[p].target \in Servers
  BY <1>1 DEF Rings, Placed
<1> HIDE DEF e, w
<1>7. Apart'
  BY <1>1 DEF Apart, Rings
<1>8. ASSUME NEW f \in Entries, NEW s \in Slots, Shows(f, s)'
      PROVE  shmemId'[f][s] \in Segments /\ owner'[f] \in Servers
  <2>1. Shows(f, s)
    BY <1>1, <1>8 DEF Shows
  <2>2. f # e \/ s # w
    BY <1>1, <2>1, Windows DEF Shows, w
  <2> QED BY <1>1, <1>5, <2>1, <2>2 DEF Rings, Filled
<1>9. Placed(p)'
  <2>1. /\ proc'[p].at = "publish" /\ proc'[p].entry = e /\ proc'[p].seg = proc[p].seg
        /\ proc'[p].target = proc[p].target /\ owner'[e] = owner[e] /\ write'[e] = w
    BY <1>1, <1>2 DEF Moves, e, w
  <2> QED BY <1>5, <1>6, <2>1 DEF Placed, Ending
<1>10. ASSUME NEW q \in Procs \ {p} PROVE Placed(q)'
  <2>1. Placed(q) /\ proc'[q] = proc[q] /\ proc[q].entry \in Entries /\ write[proc[q].entry] \in Slots
    BY <1>2 DEF Rings, Typed, Calls
  <2>2. proc[q].at = "publish" => shmemId'[proc[q].entry][write[proc[q].entry]] = shmemId[proc[q].entry][write[proc[q].entry]]
    BY <1>3, <1>5, <2>1
  <2> QED BY <1>1, <2>1, <2>2 DEF Placed, EntriesOf
<1>11. ASSUME NEW a \in Procs, NEW b \in Procs PROVE Alone(a, b)'
  <2>1. proc'[p].at = "publish" /\ proc'[p].entry = e
    BY <1>2 DEF Moves, e
  <2>2. Alone(a, b)
    BY DEF Rings
  <2>3. CASE a = p /\ b # p
    <3>1. proc'[b] = proc[b]
      BY <1>2, <2>3
    <3> QED BY <1>1, <1>3, <1>4, <2>1, <2>3, <3>1 DEF Alone, w
  <2>4. CASE a # p /\ b = p
    <3>1. proc'[a] = proc[a]
      BY <1>2, <2>4
    <3> QED BY <1>3, <2>1, <2>4, <3>1 DEF Alone
  <2>5. CASE a = p /\ b = p
    BY <2>1, <2>5 DEF Alone
  <2>6. CASE a # p /\ b # p
    <3>1. proc'[a] = proc[a] /\ proc'[b] = proc[b]
      BY <1>2, <2>6
    <3> QED BY <1>1, <2>2, <3>1 DEF Alone
  <2> QED BY <2>3, <2>4, <2>5, <2>6
<1> QED BY <1>7, <1>8, <1>9, <1>10, <1>11 DEF Rings, Filled

(* A ring is written: the message is shown, the oldest of a full ring not.  *)
LEMMA WriteIs ==
    ASSUME NEW p \in Procs, Typed, Rings, IPCQueueWrite(p), NEW e, e = proc[p].entry
    PROVE  /\ Moves(p, "wake") /\ \A q \in Procs \ {p} : proc'[q] = proc[q]
           /\ proc[p].at = "publish" /\ proc[p].seg \in Segments /\ shmemId[e][write[e]] = proc[p].seg
           /\ e \in Entries /\ write[e] \in Slots /\ read[e] \in Slots
           /\ owner[e] = proc[p].target /\ proc[p].target \in Servers
           /\ write'[e] = Turn(write[e])
           /\ read'[e] = IF Turn(write[e]) = read[e] THEN Turn(read[e]) ELSE read[e]
           /\ \A f \in Entries \ {e} : read'[f] = read[f] /\ write'[f] = write[f]
           /\ lost' = lost \cup IF Turn(write[e]) = read[e] THEN {shmemId[e][read[e]]} ELSE {}
           /\ UNCHANGED <<shared, owner, semId, shmemId, segment>>
<1>1. /\ proc[p].at = "publish" /\ Goto(p, "wake") /\ "wake" \in Labels
      /\ write' = [write EXCEPT ![e] = (write[e] + 1) % QUEUESIZE]
      /\ read' = [read EXCEPT ![e] = AdvanceRead(e)]
      /\ UNCHANGED <<shared, owner, semId, shmemId, segment>>
      /\ e \in Entries /\ write[e] \in Slots /\ read[e] \in Slots
  BY DEF IPCQueueWrite, Labels, Typed, Calls
<1>2. Full(e) <=> Turn(write[e]) = read[e]
  BY <1>1, TurnIs DEF Full
<1>3. lost' = lost \cup IF Turn(write[e]) = read[e] THEN {shmemId[e][read[e]]} ELSE {}
  BY <1>2 DEF IPCQueueWrite
<1>4. write'[e] = Turn(write[e]) /\ \A f \in Entries \ {e} : write'[f] = write[f]
  BY <1>1, TurnIs DEF Typed
<1>5. AdvanceRead(e) = IF Turn(write[e]) = read[e] THEN Turn(read[e]) ELSE read[e]
  BY <1>1, <1>2, TurnIs DEF AdvanceRead
<1>6. read'[e] = AdvanceRead(e) /\ \A f \in Entries \ {e} : read'[f] = read[f]
  BY <1>1 DEF Typed
<1>7. proc[p].seg \in Segments /\ shmemId[e][write[e]] = proc[p].seg
  BY <1>1 DEF Rings, Placed
<1>8. Moves(p, "wake") /\ \A q \in Procs \ {p} : proc'[q] = proc[q]
  BY <1>1, GoingMoves
<1>9. owner[e] = proc[p].target /\ proc[p].target \in Servers
  BY <1>1 DEF Rings, Placed
<1> QED BY <1>1, <1>3, <1>4, <1>5, <1>6, <1>7, <1>8, <1>9

LEMMA RingsWrite ==
    ASSUME NEW p \in Procs, Typed, Rings, IPCQueueWrite(p)
    PROVE  Rings'
<1> DEFINE e == proc[p].entry
           w == write[e]
           r == read[e]
<1>1. /\ Moves(p, "wake") /\ \A q \in Procs \ {p} : proc'[q] = proc[q]
      /\ proc[p].at = "publish" /\ proc[p].seg \in Segments /\ shmemId[e][w] = proc[p].seg
      /\ e \in Entries /\ w \in Slots /\ r \in Slots
      /\ owner[e] = proc[p].target /\ proc[p].target \in Servers
      /\ write'[e] = Turn(w)
      /\ read'[e] = IF Turn(w) = r THEN Turn(r) ELSE r
      /\ \A g \in Entries \ {e} : read'[g] = read[g] /\ write'[g] = write[g]
      /\ UNCHANGED <<owner, shmemId>>
  BY WriteIs
<1>2. proc'[p].at = "wake" /\ proc'[p].entry = e /\ proc'[p].target = proc[p].target /\ proc'[p].seg = proc[p].seg
  BY <1>1 DEF Moves
<1> HIDE DEF e, w, r
<1>3. Apart'
  BY <1>1 DEF Apart, Rings
<1>4. ASSUME NEW f \in Entries, NEW s \in Slots, Shows(f, s)'
      PROVE  shmemId'[f][s] \in Segments /\ owner'[f] \in Servers
  <2>1. CASE f = e
    <3>1. Between(r, w, s) \/ s = w
      BY <1>1, <1>4, <2>1, Windows DEF Shows
    <3>2. CASE Between(r, w, s)
      BY <1>1, <2>1, <3>2 DEF Rings, Filled, Shows, r, w
    <3>3. CASE s = w
      BY <1>1, <2>1, <3>3
    <3> QED BY <3>1, <3>2, <3>3
  <2>2. CASE f # e
    <3>1. Shows(f, s)
      BY <1>1, <1>4, <2>2 DEF Shows
    <3> QED BY <1>1, <3>1 DEF Rings, Filled
  <2> QED BY <2>1, <2>2
<1>5. Placed(p)'
  BY <1>1, <1>2 DEF Placed, Ending
<1>6. ASSUME NEW q \in Procs \ {p} PROVE Placed(q)'
  <2>1. Placed(q) /\ proc'[q] = proc[q] /\ proc[q].entry \in Entries /\ Alone(p, q)
    BY <1>1 DEF Rings, Typed, Calls
  <2>2. proc[q].at = "publish" => proc[q].entry # e
    BY <1>1, <2>1 DEF Alone, e
  <2>3. proc[q].at = "fetch" /\ proc[q].entry = e => read'[e] = r
    BY <1>1, <2>1 DEF Alone, e, w, r
  <2>4. proc[q].at = "fetch" => read'[proc[q].entry] = read[proc[q].entry]
    BY <1>1, <2>1, <2>3 DEF r
  <2>5. proc[q].at = "publish" => write'[proc[q].entry] = write[proc[q].entry]
    BY <1>1, <2>1, <2>2
  <2> QED BY <1>1, <2>1, <2>4, <2>5 DEF Placed, EntriesOf
<1>7. ASSUME NEW a \in Procs, NEW b \in Procs PROVE Alone(a, b)'
  <2>1. CASE a = p \/ b = p
    BY <1>2, <2>1 DEF Alone
  <2>2. CASE a # p /\ b # p
    <3>1. proc'[a] = proc[a] /\ proc'[b] = proc[b] /\ Alone(a, b) /\ Alone(p, a) /\ proc[a].entry \in Entries
      BY <1>1, <2>2 DEF Rings, Typed, Calls
    <3>2. proc[a].at = "publish" => proc[a].entry # e
      BY <1>1, <2>2, <3>1 DEF Alone, e
    <3>3. proc[a].at = "publish" => /\ write'[proc[a].entry] = write[proc[a].entry]
                                    /\ read'[proc[a].entry] = read[proc[a].entry]
      BY <1>1, <3>1, <3>2
    <3> QED BY <3>1, <3>3 DEF Alone
  <2> QED BY <2>1, <2>2
<1> QED BY <1>3, <1>4, <1>5, <1>6, <1>7 DEF Rings, Filled

(* The semaphore of a ring is raised, or taken.                             *)
LEMMA RingsSignal ==
    ASSUME NEW p \in Procs, Typed, Rings, WakeReceiver(p) \/ WaitMessage(p)
    PROVE  Rings'
<1>1. /\ UNCHANGED <<owner, read, write, shmemId>>
      /\ "sleep" \in Labels /\ "read" \in Labels /\ proc \in [Procs -> Calls]
  BY DEF WakeReceiver, WaitMessage, ring, Labels, Typed
<1>2. CASE WakeReceiver(p)
  <2>1. Moves(p, "sleep") /\ \A q \in Procs \ {p} : proc'[q] = proc[q]
    BY <1>1, <1>2, GoingMoves DEF WakeReceiver
  <2>2. proc[p].seg \in Segments
    BY <1>2 DEF WakeReceiver, Rings, Placed
  <2>3. proc'[p].at = "sleep" /\ proc'[p].seg \in Segments
    BY <2>1, <2>2 DEF Moves
  <2> QED BY <1>1, <2>1, <2>3, RingsRest DEF Ringless
<1>3. CASE WaitMessage(p) /\ Return(p)
  <2>1. proc'[p].at = "idle" /\ \A q \in Procs \ {p} : proc'[q] = proc[q]
    BY <1>1, <1>3, Returning
  <2> QED BY <1>1, <2>1, RingsRest DEF Ringless, Ending
<1>4. CASE WaitMessage(p) /\ Goto(p, "read")
  <2>1. Moves(p, "read") /\ \A q \in Procs \ {p} : proc'[q] = proc[q]
    BY <1>1, <1>4, GoingMoves
  <2>2. owner[proc[p].entry] = p /\ p \in Servers
    BY <1>4 DEF WaitMessage, Rings, Placed
  <2>3. Placed(p)'
    BY <1>1, <2>1, <2>2 DEF Moves, Placed, Ending
  <2>4. ASSUME NEW q \in Procs \ {p} PROVE Alone(p, q)' /\ Alone(q, p)'
    BY <2>1 DEF Moves, Alone
  <2> QED BY <1>1, <2>1, <2>3, <2>4, RingsOfOthers
<1> QED BY <1>2, <1>3, <1>4 DEF WaitMessage

(* A ring is read: the oldest message is not shown any more.                *)
LEMMA ReadIs ==
    ASSUME NEW p \in Procs, Typed, Rings, IPCQueueRead(p), NEW e, e = proc[p].entry
    PROVE  /\ proc[p].at = "read" /\ owner[e] = p /\ p \in Servers
           /\ e \in Entries /\ write[e] \in Slots /\ read[e] \in Slots
           /\ \A q \in Procs \ {p} : proc'[q] = proc[q]
           /\ \A f \in Entries \ {e} : read'[f] = read[f]
           /\ read[e] = write[e] => proc'[p] = At("idle") /\ UNCHANGED <<read, lost>>
           /\ read[e] # write[e] =>
                 /\ read'[e] = Turn(read[e])
                 /\ proc'[p].at = "fetch" /\ proc'[p].entry = e /\ proc'[p].slot = Turn(read[e]) - 1
                 /\ lost' = lost \cup IF Turn(read[e]) = 0 THEN {shmemId[e][read[e]]} ELSE {}
           /\ UNCHANGED <<shared, owner, semId, write, shmemId, segment>>
<1>1. /\ proc[p].at = "read" /\ proc \in [Procs -> Calls] /\ proc[p] \in Calls
      /\ UNCHANGED <<shared, owner, semId, write, shmemId, segment>>
      /\ e \in Entries /\ write[e] \in Slots /\ read[e] \in Slots
  BY DEF IPCQueueRead, Typed, Calls
<1>2. owner[e] = p /\ p \in Servers
  BY <1>1 DEF Rings, Placed
<1>3. CASE read[e] = write[e]
  <2>1. Return(p) /\ UNCHANGED <<read, lost>>
    BY <1>3 DEF IPCQueueRead
  <2>2. proc'[p] = At("idle") /\ \A q \in Procs \ {p} : proc'[q] = proc[q]
    BY <1>1, <2>1, Returning
  <2> QED BY <1>1, <1>2, <1>3, <2>1, <2>2
<1>4. CASE read[e] # write[e]
  <2>1. /\ proc' = [proc EXCEPT ![p].at = "fetch", ![p].slot = SlotRead(e)]
        /\ read' = [read EXCEPT ![e] = (read[e] + 1) % QUEUESIZE]
        /\ lost' = lost \cup IF SlotRead(e) = -1 THEN {shmemId[e][read[e]]} ELSE {}
    BY <1>4 DEF IPCQueueRead
  <2>2. SlotRead(e) = Turn(read[e]) - 1 /\ Turn(read[e]) \in Int
    BY <1>1, TurnIs DEF SlotRead, Slots
  <2>3. SlotRead(e) = -1 <=> Turn(read[e]) = 0
    BY <2>2
  <2>4. lost' = lost \cup IF Turn(read[e]) = 0 THEN {shmemId[e][read[e]]} ELSE {}
    BY <2>1, <2>3
  <2>5. read'[e] = Turn(read[e]) /\ \A f \in Entries \ {e} : read'[f] = read[f]
    BY <1>1, <2>1, TurnIs DEF Typed
  <2>6. /\ proc'[p].at = "fetch" /\ proc'[p].entry = e /\ proc'[p].slot = SlotRead(e)
        /\ \A q \in Procs \ {p} : proc'[q] = proc[q]
    BY <1>1, <2>1 DEF Calls
  <2> QED BY <1>1, <1>2, <1>4, <2>2, <2>4, <2>5, <2>6
<1> QED BY <1>3, <1>4

LEMMA RingsRead ==
    ASSUME NEW p \in Procs, Typed, Rings, IPCQueueRead(p)
    PROVE  Rings'
<1> DEFINE e == proc[p].entry
           w == write[e]
           r == read[e]
<1>1. /\ proc[p].at = "read" /\ owner[e] = p /\ p \in Servers
      /\ e \in Entries /\ w \in Slots /\ r \in Slots
      /\ \A q \in Procs \ {p} : proc'[q] = proc[q]
      /\ \A f \in Entries \ {e} : read'[f] = read[f]
      /\ r = w => proc'[p] = At("idle") /\ read' = read
      /\ r # w => /\ read'[e] = Turn(r)
                  /\ proc'[p].at = "fetch" /\ proc'[p].entry = e /\ proc'[p].slot = Turn(r) - 1
      /\ UNCHANGED <<owner, write, shmemId>>
  BY ReadIs
<1>2. CASE r = w
  <2>1. proc'[p].at = "idle"
    BY <1>1, <1>2 DEF At
  <2> QED BY <1>1, <1>2, <2>1, RingsRest DEF Ringless, Ending
<1>3. CASE r # w
  <2> HIDE DEF e, w, r
  <2>1. Apart'
    BY <1>1 DEF Apart, Rings
  <2>2. ASSUME NEW f \in Entries, NEW s \in Slots, Shows(f, s)'
        PROVE  shmemId'[f][s] \in Segments /\ owner'[f] \in Servers
    <3>1. Shows(f, s)
      BY <1>1, <1>3, <2>2, Windows DEF Shows, r, w
    <3> QED BY <1>1, <3>1 DEF Rings, Filled
  <2>3. Placed(p)'
    BY <1>1, <1>3 DEF Placed, Ending
  <2>4. ASSUME NEW q \in Procs \ {p} PROVE Placed(q)'
    <3>1. Placed(q) /\ proc'[q] = proc[q] /\ proc[q].entry \in Entries
      BY <1>1 DEF Rings, Typed, Calls
    <3>2. proc[q].at = "fetch" => proc[q].entry # e
      BY <1>1, <3>1 DEF Placed
    <3>3. proc[q].at = "fetch" => read'[proc[q].entry] = read[proc[q].entry]
      BY <1>1, <3>1, <3>2
    <3> QED BY <1>1, <3>1, <3>3 DEF Placed, EntriesOf
  <2>5. ASSUME NEW a \in Procs, NEW b \in Procs PROVE Alone(a, b)'
    <3>1. CASE a = p
      BY <1>1, <1>3, <3>1 DEF Alone
    <3>2. CASE a # p /\ b = p
      <4>1. Turn(w) # Turn(r)
        BY <1>1, <1>3 DEF Turn, Slots
      <4>2. proc'[a] = proc[a]
        BY <1>1, <3>2
      <4> QED BY <1>1, <1>3, <3>2, <4>1, <4>2 DEF Alone, w
    <3>3. CASE a # p /\ b # p
      <4>1. proc'[a] = proc[a] /\ proc'[b] = proc[b] /\ Alone(a, b) /\ proc[a].entry \in Entries /\ Placed(b)
        BY <1>1, <3>3 DEF Rings, Typed, Calls
      <4>2. proc[b].at = "fetch" => proc[b].entry # e
        BY <1>1, <3>3, <4>1 DEF Placed
      <4> QED BY <1>1, <4>1, <4>2 DEF Alone
    <3> QED BY <3>1, <3>2, <3>3
  <2> QED BY <2>1, <2>2, <2>3, <2>4, <2>5 DEF Rings, Filled
<1> QED BY <1>2, <1>3

(* Who leaves has no ring, and who creates the library finds no process.    *)
LEMMA RingsLeave ==
    ASSUME NEW p \in Procs, Roles, Typed, Rings, _fini(p)
    PROVE  Rings'
<1>1. /\ proc[p].at \in {"idle", "exit"}
      /\ proc[p].at = "idle" => p \in Clients
      /\ Goto(p, "leaving") /\ "leaving" \in Labels /\ UNCHANGED <<owner, read, write, shmemId>>
  BY DEF _fini, ring, Labels
<1>2. Moves(p, "leaving") /\ \A q \in Procs \ {p} : proc'[q] = proc[q]
  BY <1>1, GoingMoves
<1>3. p \in Servers => EntriesOf(p) = {} /\ EntriesOf(NOPROCESS) = {}
  BY <1>1 DEF Rings, Placed, Roles
<1>4. p \in Servers => EntriesOf(p)' = {} /\ EntriesOf(NOPROCESS)' = {}
  BY <1>1, <1>3 DEF EntriesOf
<1>5. proc'[p].at = "leaving"
  BY <1>2 DEF Moves
<1>6. Placed(p)'
  BY <1>4, <1>5 DEF Placed, Ending, EntriesOf
<1>7. ASSUME NEW q \in Procs \ {p} PROVE Alone(p, q)' /\ Alone(q, p)'
  BY <1>5 DEF Alone
<1> QED BY <1>1, <1>2, <1>6, <1>7, RingsOfOthers

LEMMA RingsInit ==
    ASSUME NEW p \in Procs, Typed, Founded, InitQueues(p)
    PROVE  Rings'
<1>1. /\ proc[p].at = "creating" /\ Goto(p, "counting") /\ "counting" \in Labels
      /\ owner' = [e \in Entries |-> NOPROCESS]
      /\ read' = [e \in Entries |-> 0] /\ write' = [e \in Entries |-> 0]
  BY DEF InitQueues, Labels
<1>2. Moves(p, "counting") /\ \A q \in Procs \ {p} : proc'[q] = proc[q]
  BY <1>1, GoingMoves
<1>3. \A q \in Procs : proc'[q].at \in {"out", "counting"}
  BY <1>1, <1>2 DEF Moves, Founded
<1>4. Apart'
  BY <1>1 DEF Apart
<1>5. Filled'
  BY <1>1 DEF Filled, Shows, Between, Slots
<1>6. ASSUME NEW q \in Procs PROVE Placed(q)'
  BY <1>3 DEF Placed, Ending
<1>7. ASSUME NEW a \in Procs, NEW b \in Procs PROVE Alone(a, b)'
  BY <1>3 DEF Alone
<1> QED BY <1>4, <1>5, <1>6, <1>7 DEF Rings

-----------------------------------------------------------------------------
(* Coming and leaving, as steps.                                            *)
LEMMA ComingIs ==
    ASSUME NEW p \in Procs, Typed, _init(p) \/ InitQueues(p) \/ CountUser(p) \/ _fini(p) \/ DiscountUser(p)
    PROVE  \E label \in {"creating", "counting", "idle", "leaving", "out"} :
              Moves(p, label) /\ \A q \in Procs \ {p} : proc'[q] = proc[q]
<1> USE DEF Labels
<1>1. CASE _init(p)
  <2>1. \E label \in {"creating", "counting"} : Goto(p, label)
    BY <1>1 DEF _init
  <2> QED BY <2>1, GoingMoves
<1>2. CASE InitQueues(p)
  BY <1>2, GoingMoves DEF InitQueues
<1>3. CASE CountUser(p)
  BY <1>3, GoingMoves DEF CountUser
<1>4. CASE _fini(p)
  BY <1>4, GoingMoves DEF _fini
<1>5. CASE DiscountUser(p)
  BY <1>5, GoingMoves DEF DiscountUser
<1> QED BY <1>1, <1>2, <1>3, <1>4, <1>5

LEMMA FoundedStays ==
    ASSUME Roles, Founded, Next
    PROVE  Founded'
<1>0. PICK p \in Procs : \/ _init(p) \/ InitQueues(p) \/ CountUser(p) \/ _fini(p)
                         \/ DiscountUser(p) \/ Use(p)
  BY NextIs
<1>1. Typed /\ Living' /\ "early" \notin Allowed
  BY LifeGoesOn DEF Founded, Roles, Living
<1>2. /\ proc[p].at # "out" \/ _init(p)
      /\ \A q \in Procs \ {p} : proc'[q] = proc[q]
      /\ proc'[p].at = "creating" => _init(p) /\ ~shared.exists
  <2>1. CASE Use(p)
    BY <1>1, <2>1, UseMoves
  <2>2. CASE ~Use(p)
    <3>1. \A q \in Procs \ {p} : proc'[q] = proc[q]
      BY <1>0, <1>1, <2>2, ComingIs
    <3>2. CASE _init(p)
      <4>1. Goto(p, IF shared.exists THEN "counting" ELSE "creating")
        BY <3>2 DEF _init
      <4>2. ~shared.exists \/ proc'[p].at = "counting"
        BY <1>1, <4>1, GoingMoves DEF Moves, Labels
      <4> QED BY <3>1, <3>2, <4>2
    <3>3. CASE ~_init(p)
      <4>1. \E label \in {"counting", "idle", "leaving", "out"} : Goto(p, label)
        BY <1>0, <2>2, <3>3 DEF InitQueues, CountUser, _fini, DiscountUser
      <4>2. proc'[p].at # "creating"
        BY <1>1, <4>1, GoingMoves DEF Moves, Labels
      <4>3. proc[p].at # "out"
        BY <1>0, <2>2, <3>3 DEF InitQueues, CountUser, _fini, DiscountUser
      <4> QED BY <3>1, <4>2, <4>3
    <3> QED BY <3>2, <3>3
  <2> QED BY <2>1, <2>2
<1>3. ASSUME NEW a \in Procs, NEW b \in Procs, proc'[a].at = "creating", a # b
      PROVE  proc'[b].at = "out"
  <2>1. CASE a = p
    <3>1. _init(p) /\ ~shared.exists
      BY <1>2, <1>3, <2>1
    <3>2. ~Some({"creating", "leaving"}) /\ ~shared.ready
      BY <1>1, <3>1 DEF _init, Founded
    <3>3. ~Some(Labels \ {"out", "creating", "leaving"})
      BY <3>2 DEF Founded, Living, LibraryLives
    <3>4. proc[b].at = "out"
      BY <1>1, <3>2, <3>3 DEF Some, Typed, Calls
    <3> QED BY <1>2, <1>3, <2>1, <3>4
  <2>2. CASE a # p
    <3>1. proc[a].at = "creating"
      BY <1>2, <1>3, <2>2
    <3>2. ~_init(p)
      BY <1>1, <3>1 DEF _init, Some
    <3>3. proc[p].at = "out"
      BY <2>2, <3>1 DEF Founded
    <3> QED BY <1>2, <3>2, <3>3
  <2> QED BY <2>1, <2>2
<1>4. shared'.ready \/ Some({"creating"})' => shared'.exists
  <2>1. shared \in [exists : BOOLEAN, ready : BOOLEAN, users : Int]
    BY <1>1 DEF Typed
  <2>2. CASE _init(p)
    BY <2>1, <2>2 DEF _init
  <2>3. CASE ~_init(p)
    <3>1. Some({"creating"})' => Some({"creating"})
      BY <1>2, <2>3 DEF Some
    <3>2. CASE InitQueues(p)
      <4>1. Some({"creating"})
        BY <3>2 DEF InitQueues, Some
      <4> QED BY <2>1, <3>2, <4>1 DEF InitQueues, Founded
    <3>3. CASE _fini(p) /\ shared.users = 1
      <4>1. ~Some({"creating", "counting"}) /\ shared' = [shared EXCEPT !.exists = FALSE, !.ready = FALSE]
        BY <1>1, <3>3 DEF _fini
      <4>2. ~Some({"creating"})
        BY <4>1 DEF Some
      <4> QED BY <2>1, <3>1, <4>1, <4>2
    <3>4. CASE CountUser(p) \/ DiscountUser(p) \/ (_fini(p) /\ shared.users # 1) \/ Use(p)
      <4>1. shared'.exists = shared.exists /\ shared'.ready = shared.ready
        BY <1>1, <2>1, <3>4, UseMoves DEF CountUser, DiscountUser, _fini
      <4> QED BY <3>1, <4>1 DEF Founded
    <3> QED BY <1>0, <2>3, <3>2, <3>3, <3>4
  <2> QED BY <2>2, <2>3
<1> QED BY <1>1, <1>3, <1>4 DEF Founded

(* A call that does not touch the rings leaves them.                        *)
LEMMA RingsOfMessages ==
    ASSUME NEW p \in Procs, Roles, Typed, Rings,
           \/ SleepSender(p) \/ AttachMessage(p) \/ TestDone(p) \/ NotifyDone(p) \/ DetachMessage(p)
           \/ (\E m \in Segments : ipcBufferAllocate(p, m)) \/ ipcBufferDone(p)
    PROVE  Rings'
<1>1. /\ UNCHANGED <<owner, read, write, shmemId>> /\ proc \in [Procs -> Calls] /\ Placed(p)
      /\ "notify" \in Labels /\ "detach" \in Labels
  BY DEF SleepSender, AttachMessage, TestDone, NotifyDone, DetachMessage, ipcBufferAllocate,
         ipcBufferDone, Done, ring, Typed, Rings, Labels
<1>2. CASE Return(p)
  <2>1. proc'[p].at = "idle" /\ \A q \in Procs \ {p} : proc'[q] = proc[q]
    BY <1>1, <1>2, Returning
  <2> QED BY <1>1, <2>1, RingsRest DEF Ringless, Ending
<1>3. CASE AttachMessage(p) /\ ~Return(p)
  <2> DEFINE call == [At("busy") EXCEPT !.seg = Fetched(p)]
  <2>1. proc' = [proc EXCEPT ![p] = call] /\ Fetched(p) # NONE /\ proc[p].at = "fetch"
    BY <1>3 DEF AttachMessage
  <2>2. Fetched(p) \in Segments
    <3>1. proc[p].entry \in Entries /\ proc[p].slot \in Slots \cup {-1}
      BY DEF Typed, Calls
    <3> QED BY <2>1, <3>1 DEF Fetched, Typed
  <2>3. call.at = "busy" /\ call.seg = Fetched(p)
    BY DEF At
  <2> HIDE DEF call
  <2>4. proc'[p].at = "busy" /\ proc'[p].seg \in Segments /\ \A q \in Procs \ {p} : proc'[q] = proc[q]
    BY <1>1, <2>1, <2>2, <2>3
  <2> QED BY <1>1, <2>4, RingsRest DEF Ringless
<1>4. CASE TestDone(p)
  <2>1. proc' = [proc EXCEPT ![p].at = "notify", ![p].destroy = BothDone(proc[p].seg)] /\ proc[p].at = "test"
    BY <1>4 DEF TestDone
  <2>2. /\ proc'[p].at = "notify" /\ proc'[p].seg = proc[p].seg
        /\ \A q \in Procs \ {p} : proc'[q] = proc[q]
    BY <1>1, <2>1 DEF Calls
  <2>3. proc[p].seg \in Segments
    BY <1>1, <2>1 DEF Placed, Ending
  <2> QED BY <1>1, <2>2, <2>3, RingsRest DEF Ringless, Ending
<1>5. CASE NotifyDone(p)
  <2>1. Moves(p, "detach") /\ \A q \in Procs \ {p} : proc'[q] = proc[q]
    BY <1>1, <1>5, GoingMoves DEF NotifyDone
  <2>2. proc[p].seg \in Segments
    BY <1>1, <1>5 DEF Placed, Ending, NotifyDone
  <2>3. proc'[p].at = "detach" /\ proc'[p].seg \in Segments
    BY <2>1, <2>2 DEF Moves
  <2> QED BY <1>1, <2>1, <2>3, RingsRest DEF Ringless, Ending
<1>6. CASE \E m \in Segments : ipcBufferAllocate(p, m)
  <2>1. proc' = proc /\ proc[p].at = "idle"
    BY <1>6 DEF ipcBufferAllocate
  <2> QED BY <1>1, <2>1, RingsRest DEF Ringless, Ending
<1>7. CASE ipcBufferDone(p)
  <2>1. PICK m \in Segments, sender \in BOOLEAN : Done(p, m, sender)
    BY <1>1, <1>7 DEF ipcBufferDone, Placed
  <2>2. proc'[p].at = "test" /\ proc'[p].seg = m /\ \A q \in Procs \ {p} : proc'[q] = proc[q]
    BY <2>1, DoneIs
  <2> QED BY <1>1, <2>2, RingsRest DEF Ringless, Ending
<1> QED BY <1>2, <1>3, <1>4, <1>5, <1>6, <1>7 DEF SleepSender, DetachMessage

LEMMA RingsStay ==
    ASSUME Roles, Founded, Rings, Next
    PROVE  Rings'
<1>0. PICK p \in Procs : \/ _init(p) \/ InitQueues(p) \/ CountUser(p) \/ _fini(p)
                         \/ DiscountUser(p) \/ Use(p)
  BY NextIs
<1>1. Typed
  BY DEF Founded, Living
<1>2. CASE _init(p) \/ CountUser(p) \/ DiscountUser(p)
  <2>1. /\ UNCHANGED <<owner, read, write, shmemId>>
        /\ \E label \in {"creating", "counting", "idle", "out"} : Goto(p, label)
    BY <1>2 DEF _init, CountUser, DiscountUser, ring
  <2>2. /\ proc'[p].at \in {"creating", "counting", "idle", "out"}
        /\ \A q \in Procs \ {p} : proc'[q] = proc[q]
    BY <1>1, <2>1, GoingMoves DEF Moves, Labels
  <2> QED BY <1>1, <2>1, <2>2, RingsRest DEF Ringless, Ending
<1>3. CASE \E m \in Segments : \E target \in Servers, sync \in BOOLEAN : ipcBufferSend(p, m, target, sync)
  <2>1. PICK m \in Segments, target \in Servers, sync \in BOOLEAN : ipcBufferSend(p, m, target, sync)
    BY <1>3
  <2>2. segment[m].owner = p /\ segment[m] \in Messages /\ p # NONE
    BY <1>1, <2>1, LibIPCAssumption DEF ipcBufferSend, Typed, Procs
  <2>3. p \in Clients
    BY <2>2 DEF Messages
  <2>4. proc[p].at = "idle" /\ FindEntry(p, target, "store", m, sync) /\ UNCHANGED <<owner, read, write, shmemId>>
    BY <2>1 DEF ipcBufferSend, ring
  <2> QED BY <1>1, <2>3, <2>4, RingsFind
<1>4. CASE \E sync \in BOOLEAN : ipcBufferGet(p, sync)
  <2>1. PICK sync \in BOOLEAN : ipcBufferGet(p, sync)
    BY <1>4
  <2>2. proc[p].at = "idle" /\ FindEntry(p, p, "wait", NONE, sync) /\ UNCHANGED <<owner, read, write, shmemId>> /\ p \in Servers
    BY <2>1 DEF ipcBufferGet, ring
  <2> QED BY <1>1, <2>2, RingsFind
<1>5. CASE InitQueues(p) \/ _fini(p) \/ Claim(p) \/ StoreMessage(p) \/ IPCQueueWrite(p)
           \/ WakeReceiver(p) \/ WaitMessage(p) \/ IPCQueueRead(p)
  BY <1>1, <1>5, RingsInit, RingsLeave, RingsClaim, RingsStore, RingsWrite, RingsSignal, RingsRead
<1>6. CASE \/ SleepSender(p) \/ AttachMessage(p) \/ TestDone(p) \/ NotifyDone(p) \/ DetachMessage(p)
           \/ (\E m \in Segments : ipcBufferAllocate(p, m)) \/ ipcBufferDone(p)
  BY <1>1, <1>6, RingsOfMessages
<1> QED BY <1>0, <1>2, <1>3, <1>4, <1>5, <1>6 DEF Use

-----------------------------------------------------------------------------
(* Where a message is, and who does what with it.  A message that has not   *)
(* been processed since it was sent is new; it is underway until the sender *)
(* is woken.                                                                *)
Ringed(e, s, m) == Shows(e, s) /\ shmemId[e][s] = m
New(p, m) == \/ proc[p].at \in {"publish", "busy"} /\ proc[p].seg = m
             \/ proc[p].at = "fetch" /\ Fetched(p) = m
Has(p, m) == \/ New(p, m)
             \/ proc[p].at \in {"test", "notify"} /\ ~proc[p].sender /\ proc[p].seg = m

InRing(m)   == \E e \in Entries, s \in Slots : Ringed(e, s, m)
Fresh(m)    == InRing(m) \/ \E p \in Procs : New(p, m)
Underway(m) == InRing(m) \/ \E p \in Procs : Has(p, m)

Doing(p, labels, m) == proc[p].at \in labels /\ proc[p].seg = m
Sends(p, m)    == Doing(p, Sending, m)
Ends(p, m)     == Doing(p, Ending, m) /\ proc[p].sender
Receives(p, m) == Doing(p, {"busy"}, m) \/ (Doing(p, Ending, m) /\ ~proc[p].sender)
Destroys(p, m) == Doing(p, {"notify", "detach"}, m) /\ proc[p].destroy
Pends(m)       == \E p \in Procs : Doing(p, Pending, m)

Shaped(m) ==
    /\ ~segment[m].live => segment[m] = Free
    /\ segment[m].removed => segment[m].attached # {} /\ BothDone(m)

Attached(p, m) ==
    /\ Sends(p, m) \/ Ends(p, m) => segment[m].owner = p /\ p \in segment[m].attached /\ p \in Clients
    /\ Receives(p, m) => p \in segment[m].attached /\ p \in Servers
    /\ p \in segment[m].attached => segment[m].owner = p \/ Receives(p, m)

Flagged(p, m) ==
    /\ Ends(p, m) => segment[m].senderDone
    /\ Receives(p, m) /\ proc[p].at \in {"test", "notify"} => segment[m].receiverDone
    /\ Destroys(p, m) => BothDone(m)
    /\ segment[m].owner = p /\ segment[m].senderDone => p \notin segment[m].attached \/ Ends(p, m)
    /\ segment[m].owner = p /\ p \notin segment[m].attached => segment[m].senderDone \/ m \in lost

Doomed(m) ==
    BothDone(m) => segment[m].removed \/ \E p \in Procs : Doing(p, {"test"}, m) \/ Destroys(p, m)

Once(m) ==
    /\ \A e, f \in Entries, s, t \in Slots : Ringed(e, s, m) /\ Ringed(f, t, m) => e = f /\ s = t
    /\ \A e \in Entries, s \in Slots, p \in Procs : Ringed(e, s, m) => ~Has(p, m)
    /\ \A p, q \in Procs : Has(p, m) /\ Has(q, m) => p = q

Newest(m) ==
    /\ Fresh(m) => segment[m].live /\ ~segment[m].receiverDone /\ segment[m].sent # "no"
    /\ ~segment[m].receiverDone /\ segment[m].sent # "no" => Fresh(m) \/ m \in lost

Raised(m) ==
    /\ segment[m].senderSem = -1 => segment[m].senderDone \/ ~segment[m].live
    /\ segment[m].sent # "async" => segment[m].senderSem <= 1
    /\ segment[m].sent # "async" /\ ~Pends(m) => segment[m].senderSem <= 0 /\ ~Underway(m)

Awaits(p, m) ==
    /\ Doing(p, {"claim", "store"}, m) => segment[m].sent # "async"
    /\ Doing(p, Pending, m) => segment[m].sent = IF proc[p].sync THEN "sync" ELSE "async"
    /\ Doing(p, Pending, m) /\ proc[p].sync =>
          /\ Underway(m) => segment[m].senderSem = 0
          /\ ~Underway(m) => segment[m].senderSem > 0 \/ m \in lost
          /\ segment[m].senderSem > 0 => segment[m].receiverDone

Handled(m) ==
    /\ Shaped(m) /\ Doomed(m) /\ Once(m) /\ Newest(m) /\ Raised(m)
    /\ \A p \in Procs : Attached(p, m) /\ Flagged(p, m) /\ Awaits(p, m)

-----------------------------------------------------------------------------
(* A message that a step does not touch.                                    *)
Apiece(q, m) == (New(q, m)' <=> New(q, m)) /\ (Has(q, m)' <=> Has(q, m))
Places(m)    == \A e \in Entries, s \in Slots : Ringed(e, s, m)' <=> Ringed(e, s, m)

(* Only p moves, and no message is in another place for it but p's.         *)
Alike(p) ==
    /\ \A q \in Procs \ {p} : proc'[q] = proc[q]
    /\ \A q \in Procs \ {p}, m \in Segments : Apiece(q, m)

Involved(p, m) == Doing(p, Sending \cup {"busy"} \cup Ending, m)

LEMMA PlacesStay ==
    ASSUME NEW m, Places(m), \A q \in Procs : Apiece(q, m)
    PROVE  /\ InRing(m)' <=> InRing(m)
           /\ Fresh(m)' <=> Fresh(m)
           /\ Underway(m)' <=> Underway(m)
           /\ Once(m) => Once(m)'
<1>1. InRing(m)' <=> InRing(m)
  BY DEF Places, InRing
<1>2. Fresh(m)' <=> Fresh(m)
  BY <1>1 DEF Fresh, Apiece
<1>3. Underway(m)' <=> Underway(m)
  BY <1>1 DEF Underway, Apiece
<1>4. Once(m) => Once(m)'
  BY DEF Once, Places, Apiece
<1> QED BY <1>1, <1>2, <1>3, <1>4

LEMMA HandledStill ==
    ASSUME NEW p \in Procs, NEW m \in Segments, Handled(m), Alike(p),
           Fresh(m)' <=> Fresh(m), Underway(m)' <=> Underway(m), Once(m)',
           segment'[m] = segment[m], m \in lost => m \in lost',
           ~Involved(p, m), ~Involved(p, m)'
    PROVE  Handled(m)'
<1> USE DEF Handled
<1>2. ASSUME NEW labels \in SUBSET (Sending \cup {"busy"} \cup Ending), NEW q \in Procs
      PROVE  Doing(q, labels, m)' <=> Doing(q, labels, m)
  BY DEF Doing, Involved, Alike
<1>3. ASSUME NEW q \in Procs, q # p
      PROVE  proc'[q] = proc[q]
  BY <1>3 DEF Alike
<1>4. /\ ~Sends(p, m) /\ ~Ends(p, m) /\ ~Receives(p, m) /\ ~Destroys(p, m)
      /\ ~Sends(p, m)' /\ ~Ends(p, m)' /\ ~Receives(p, m)' /\ ~Destroys(p, m)'
  BY DEF Sends, Ends, Receives, Destroys, Involved, Doing, Ending
<1>5. Shaped(m)'
  BY DEF Shaped, BothDone
<1>6. Doomed(m)'
  <2>1. ASSUME NEW q \in Procs, Doing(q, {"test"}, m) \/ Destroys(q, m)
        PROVE  Doing(q, {"test"}, m)' \/ Destroys(q, m)'
    <3>1. q # p
      BY <2>1, <1>4 DEF Doing, Involved, Ending
    <3> QED BY <1>3, <2>1, <3>1 DEF Doing, Destroys
  <2> QED BY <2>1 DEF Doomed, BothDone
<1>7. Newest(m)'
  BY DEF Newest
<1>8. Pends(m)' <=> Pends(m)
  BY <1>2 DEF Pends, Pending, Sending
<1>9. Raised(m)'
  BY <1>8 DEF Raised
<1>10. ASSUME NEW q \in Procs PROVE Attached(q, m)' /\ Flagged(q, m)' /\ Awaits(q, m)'
  <2>1. CASE q = p
    <3>1. Attached(p, m) /\ Flagged(p, m)
      OBVIOUS
    <3>2. Attached(p, m)'
      BY <1>4, <3>1 DEF Attached
    <3>3. Flagged(p, m)'
      BY <1>4, <3>1 DEF Flagged
    <3>4. Awaits(p, m)'
      BY DEF Awaits, Doing, Involved, Pending, Sending
    <3> QED BY <2>1, <3>2, <3>3, <3>4
  <2>2. CASE q # p
    <3>1. Attached(q, m) /\ Flagged(q, m) /\ Awaits(q, m) /\ proc'[q] = proc[q]
      BY <1>3, <2>2
    <3>2. Attached(q, m)'
      BY <3>1 DEF Attached, Sends, Ends, Receives, Doing
    <3>3. Flagged(q, m)'
      BY <3>1 DEF Flagged, Ends, Receives, Destroys, Doing, BothDone
    <3>4. Awaits(q, m)'
      BY <3>1 DEF Awaits, Doing
    <3> QED BY <3>2, <3>3, <3>4
  <2> QED BY <2>1, <2>2
<1> QED BY <1>5, <1>6, <1>7, <1>9, <1>10

LEMMA Untouched ==
    ASSUME NEW p \in Procs, NEW m \in Segments, Handled(m), Alike(p), Places(m), Apiece(p, m),
           segment'[m] = segment[m], m \in lost => m \in lost',
           ~Involved(p, m), ~Involved(p, m)'
    PROVE  Handled(m)'
<1>1. /\ Fresh(m)' <=> Fresh(m)
      /\ Underway(m)' <=> Underway(m)
      /\ Once(m)'
  BY PlacesStay DEF Alike, Handled
<1> QED BY <1>1, HandledStill

(* While the rings rest, a message moves only with the process that has it. *)
LEMMA RingsKeepPlaces ==
    ASSUME NEW p \in Procs, \A q \in Procs \ {p} : proc'[q] = proc[q],
           UNCHANGED <<read, write, shmemId>>
    PROVE  Alike(p) /\ \A m \in Segments : Places(m)
<1>1. ASSUME NEW q \in Procs \ {p}, NEW m \in Segments PROVE Apiece(q, m)
  <2>1. proc'[q] = proc[q]
    OBVIOUS
  <2>2. Fetched(q)' = Fetched(q)
    BY <2>1 DEF Fetched
  <2>3. New(q, m)' <=> New(q, m)
    BY <2>1, <2>2 DEF New
  <2> QED BY <2>1, <2>3 DEF Apiece, Has
<1>2. ASSUME NEW m \in Segments PROVE Places(m)
  BY DEF Places, Ringed, Shows
<1> QED BY <1>1, <1>2 DEF Alike

LEMMA Elsewhere ==
    ASSUME NEW p \in Procs, NEW m \in Segments, Handled(m),
           \A q \in Procs \ {p} : proc'[q] = proc[q], UNCHANGED <<read, write, shmemId>>,
           segment'[m] = segment[m], m \in lost => m \in lost',
           ~Involved(p, m), ~Involved(p, m)',
           proc[p].at = "fetch" => Fetched(p) # m, proc'[p].at # "fetch"
    PROVE  Handled(m)'
<1>1. Alike(p) /\ Places(m)
  BY RingsKeepPlaces
<1>2. ~New(p, m) /\ ~New(p, m)'
  BY DEF New, Involved, Doing, Sending
<1>3. ~Has(p, m) /\ ~Has(p, m)'
  BY <1>2 DEF Has, Involved, Doing, Ending
<1>4. Apiece(p, m)
  BY <1>2, <1>3 DEF Apiece
<1> QED BY <1>1, <1>4, Untouched

(* What others do with a message that keeps its header and its place.       *)
LEMMA OthersSame ==
    ASSUME NEW p \in Procs, NEW m \in Segments, Handled(m), Alike(p), Underway(m)' <=> Underway(m),
           segment'[m] = segment[m], m \in lost => m \in lost'
    PROVE  \A q \in Procs \ {p} : Attached(q, m)' /\ Flagged(q, m)' /\ Awaits(q, m)'
<1> SUFFICES ASSUME NEW q \in Procs \ {p}
             PROVE  Attached(q, m)' /\ Flagged(q, m)' /\ Awaits(q, m)'
  OBVIOUS
<1>1. Attached(q, m) /\ Flagged(q, m) /\ Awaits(q, m) /\ proc'[q] = proc[q]
  BY DEF Handled, Alike
<1>2. Attached(q, m)'
  BY <1>1 DEF Attached, Sends, Ends, Receives, Doing
<1>3. Flagged(q, m)'
  BY <1>1 DEF Flagged, Ends, Receives, Destroys, Doing, BothDone
<1>4. Awaits(q, m)'
  BY <1>1 DEF Awaits, Doing
<1> QED BY <1>2, <1>3, <1>4

(* A process that has claimed a ring, or looks for one, goes on with its    *)
(* message: from a place before the ring to one before the ring, or back.   *)
LEMMA HandledBefore ==
    ASSUME NEW p \in Procs, NEW m \in Segments, Handled(m),
           \A q \in Procs \ {p} : proc'[q] = proc[q], UNCHANGED <<read, write, shmemId>>,
           segment' = segment, lost' = lost,
           proc[p].at \in {"idle", "claim"}, proc'[p].at \in {"claim", "store"}, proc'[p].seg = m,
           segment[m].owner = p, p \in segment[m].attached, p \in Clients,
           segment[m].sent # "async"
    PROVE  Handled(m)'
<1> USE DEF Handled
<1>1. Alike(p) /\ Places(m)
  BY RingsKeepPlaces
<1>2. ~New(p, m) /\ ~New(p, m)' /\ ~Has(p, m) /\ ~Has(p, m)'
  BY DEF New, Has
<1>3. \A q \in Procs : Apiece(q, m)
  BY <1>1, <1>2 DEF Apiece, Alike
<1>4. (Fresh(m)' <=> Fresh(m)) /\ (Underway(m)' <=> Underway(m)) /\ Once(m)'
  BY <1>1, <1>3, PlacesStay
<1>5. \A q \in Procs \ {p} : Attached(q, m)' /\ Flagged(q, m)' /\ Awaits(q, m)'
  BY <1>1, <1>4, OthersSame
<1>6. /\ ~Ends(p, m) /\ ~Ends(p, m)' /\ ~Receives(p, m)' /\ ~Destroys(p, m)'
      /\ ~Doing(p, {"test"}, m) /\ ~Destroys(p, m)
      /\ ~Doing(p, Pending, m) /\ ~Doing(p, Pending, m)'
  BY DEF Ends, Receives, Destroys, Doing, Ending, Pending
<1>7. \A q \in Procs \ {p} : /\ Doing(q, {"test"}, m)' <=> Doing(q, {"test"}, m)
                             /\ Destroys(q, m)' <=> Destroys(q, m)
                             /\ Doing(q, Pending, m)' <=> Doing(q, Pending, m)
  BY DEF Doing, Destroys
<1>8. Shaped(m)'
  BY DEF Shaped, BothDone
<1>9. Doomed(m)'
  BY <1>6, <1>7 DEF Doomed, BothDone
<1>10. Newest(m)'
  BY <1>4 DEF Newest
<1>11. Pends(m)' <=> Pends(m)
  BY <1>6, <1>7 DEF Pends
<1>12. Raised(m)'
  BY <1>4, <1>11 DEF Raised
<1>13. Attached(p, m)'
  BY <1>6 DEF Attached
<1>14. Flagged(p, m)'
  BY <1>6 DEF Flagged
<1>15. Awaits(p, m)'
  BY <1>6 DEF Awaits
<1> QED BY <1>4, <1>5, <1>8, <1>9, <1>10, <1>12, <1>13, <1>14, <1>15

(* The header of a message, in the fields that a step leaves alone.         *)
SameHolders(m) ==
    segment'[m].owner = segment[m].owner /\ segment'[m].attached = segment[m].attached
SameLife(m) == segment'[m].live = segment[m].live /\ segment'[m].removed = segment[m].removed
SameFlags(m) ==
    segment'[m].senderDone = segment[m].senderDone /\ segment'[m].receiverDone = segment[m].receiverDone

(* A message is sent: it is new.                                            *)
LEMMA StoreKeepsPlaces ==
    ASSUME NEW p \in Procs, Roles, Typed, Rings, StoreMessage(p)
    PROVE  Alike(p) /\ \A m \in Segments : Places(m)
<1> DEFINE e == proc[p].entry
           w == write[e]
<1>1. /\ Goto(p, "publish") /\ "publish" \in Labels
      /\ shmemId' = [shmemId EXCEPT ![e][w] = proc[p].seg]
      /\ UNCHANGED <<read, write>>
      /\ e \in Entries /\ w \in Slots /\ read[e] \in Slots
  BY DEF StoreMessage, Labels, Typed, Calls
<1>2. \A q \in Procs \ {p} : proc'[q] = proc[q]
  BY <1>1, GoingMoves
<1>3. \A q \in Procs : proc[q].at = "fetch" /\ proc[q].entry = e => Turn(w) # read[e]
  BY <1>1, TurnIs DEF StoreMessage, Roles, Full
<1>4. \A f \in Entries, s \in Slots : f # e \/ s # w => shmemId'[f][s] = shmemId[f][s]
  BY <1>1 DEF Typed
<1> HIDE DEF e, w
<1>5. ASSUME NEW m \in Segments PROVE Places(m)
  <2>1. ASSUME NEW f \in Entries, NEW s \in Slots PROVE Ringed(f, s, m)' <=> Ringed(f, s, m)
    <3>1. Shows(f, s)' <=> Shows(f, s)
      BY <1>1 DEF Shows
    <3>2. Shows(f, s) => f # e \/ s # w
      BY <1>1, Windows DEF Shows, w
    <3> QED BY <1>4, <3>1, <3>2 DEF Ringed
  <2> QED BY <2>1 DEF Places
<1>6. ASSUME NEW q \in Procs \ {p}, NEW m \in Segments PROVE Apiece(q, m)
  <2>1. proc'[q] = proc[q] /\ proc[q].entry \in Entries /\ proc[q].slot \in Slots \cup {-1} /\ Placed(q)
    BY <1>2 DEF Rings, Typed, Calls
  <2>2. ASSUME proc[q].at = "fetch" PROVE Fetched(q)' = Fetched(q)
    <3>1. proc[q].slot = read[proc[q].entry] - 1
      BY <2>1, <2>2 DEF Placed
    <3>2. proc[q].entry = e /\ proc[q].slot = w => Turn(w) = read[e]
      BY <1>1, <3>1 DEF Turn, Slots
    <3>3. proc[q].slot \in Slots => shmemId'[proc[q].entry][proc[q].slot] = shmemId[proc[q].entry][proc[q].slot]
      BY <1>3, <1>4, <2>1, <2>2, <3>2
    <3> QED BY <2>1, <3>3 DEF Fetched
  <2>3. New(q, m)' <=> New(q, m)
    BY <2>1, <2>2 DEF New
  <2> QED BY <2>1, <2>3 DEF Apiece, Has
<1> QED BY <1>2, <1>5, <1>6 DEF Alike

LEMMA HandledStore ==
    ASSUME NEW p \in Procs, Roles, Typed, Rings, StoreMessage(p),
           \A x \in Segments : Handled(x), NEW m, m = proc[p].seg
    PROVE  \A x \in Segments : Handled(x)'
<1> DEFINE how == IF proc[p].sync THEN "sync" ELSE "async"
<1>1. proc[p].at = "store" /\ Goto(p, "publish") /\ "publish" \in Labels /\ lost' = lost
      /\ segment' = [segment EXCEPT ![m].senderDone = FALSE, ![m].receiverDone = FALSE, ![m].sent = how]
  BY DEF StoreMessage, Undone, Labels
<1>2. m \in Segments /\ proc[p].sync \in BOOLEAN /\ segment[m] \in Messages
  BY <1>1 DEF Rings, Placed, Typed, Calls
<1>3. /\ SameHolders(m) /\ SameLife(m) /\ segment'[m].senderSem = segment[m].senderSem
      /\ ~segment'[m].senderDone /\ ~segment'[m].receiverDone /\ segment'[m].sent = how
      /\ \A x \in Segments \ {m} : segment'[x] = segment[x]
  BY <1>1, <1>2 DEF Typed, Messages, SameHolders, SameLife
<1>4. /\ Alike(p) /\ \A x \in Segments : Places(x)
      /\ proc'[p].at = "publish" /\ proc'[p].seg = m /\ proc'[p].sync = proc[p].sync
      /\ \A q \in Procs \ {p} : proc'[q] = proc[q]
  BY <1>1, StoreKeepsPlaces, GoingMoves DEF Moves
<1>5. ASSUME NEW x \in Segments, x # m PROVE Handled(x)'
  <2>1. Apiece(p, x) /\ ~Involved(p, x) /\ ~Involved(p, x)'
    BY <1>1, <1>4, <1>5 DEF Apiece, New, Has, Involved, Doing
  <2> QED BY <1>1, <1>3, <1>4, <1>5, <2>1, Untouched
<1>6. /\ Shaped(m) /\ Raised(m) /\ Attached(p, m) /\ Flagged(p, m) /\ Awaits(p, m)
      /\ \A q \in Procs : Attached(q, m) /\ Flagged(q, m)
  BY <1>2 DEF Handled
<1>7. Sends(p, m) /\ ~Ends(p, m) /\ Doing(p, {"claim", "store"}, m)
  BY <1>1 DEF Sends, Ends, Doing, Sending, Ending
<1>8. segment[m].owner = p /\ p \in segment[m].attached /\ p \in Clients
  BY <1>6, <1>7 DEF Attached
<1>9. segment[m].live /\ ~segment[m].senderDone /\ ~segment[m].removed /\ segment[m].sent # "async"
  <2>1. segment[m].live
    BY <1>6, <1>8 DEF Shaped, Free
  <2>2. ~segment[m].senderDone
    BY <1>6, <1>7, <1>8 DEF Flagged
  <2>3. ~segment[m].removed
    BY <1>6, <2>2 DEF Shaped, BothDone
  <2>4. segment[m].sent # "async"
    BY <1>6, <1>7 DEF Awaits
  <2> QED BY <2>1, <2>2, <2>3, <2>4
<1>10. ~Pends(m)
  <2>1. ASSUME NEW q \in Procs, Doing(q, Pending, m) PROVE FALSE
    <3>1. Sends(q, m)
      BY <2>1 DEF Doing, Sends, Sending, Pending
    <3>2. q = p
      BY <1>6, <1>8, <3>1 DEF Attached
    <3> QED BY <1>1, <2>1, <3>2 DEF Doing, Pending
  <2> QED BY <2>1 DEF Pends
<1>11. segment[m].senderSem = 0 /\ ~Underway(m)
  <2>1. segment[m].senderSem <= 0 /\ ~Underway(m)
    BY <1>6, <1>9, <1>10 DEF Raised
  <2>2. segment[m].senderSem # -1 /\ segment[m].senderSem \in Nat \cup {-1}
    BY <1>2, <1>6, <1>9 DEF Raised, Messages
  <2> QED BY <2>1, <2>2
<1>12. /\ New(p, m)' /\ Has(p, m)'
       /\ \A q \in Procs \ {p} : ~Has(q, m)'
       /\ \A f \in Entries, s \in Slots : ~Ringed(f, s, m)'
  <2>1. New(p, m)'
    BY <1>4 DEF New
  <2>2. \A q \in Procs \ {p} : ~Has(q, m)'
    BY <1>2, <1>4, <1>11 DEF Underway, Alike, Apiece
  <2>3. \A f \in Entries, s \in Slots : ~Ringed(f, s, m)'
    BY <1>2, <1>4, <1>11 DEF Underway, InRing, Places
  <2> QED BY <2>1, <2>2, <2>3 DEF Has
<1>13. Once(m)' /\ Fresh(m)' /\ Underway(m)'
  <2>1. Once(m)'
    BY <1>12 DEF Once
  <2>2. Fresh(m)' /\ Underway(m)'
    BY <1>12 DEF Fresh, Underway
  <2> QED BY <2>1, <2>2
<1>14. Shaped(m)' /\ Doomed(m)'
  BY <1>3, <1>9 DEF Shaped, Doomed, BothDone, SameLife
<1>15. Newest(m)'
  BY <1>3, <1>9, <1>13 DEF Newest, SameLife
<1>16. Pends(m)'
  BY <1>4 DEF Pends, Doing, Pending
<1>17. Raised(m)'
  BY <1>3, <1>11, <1>16 DEF Raised
<1>18. ASSUME NEW q \in Procs PROVE Attached(q, m)' /\ Flagged(q, m)' /\ Awaits(q, m)'
  <2>1. CASE q = p
    <3>1. Attached(p, m)'
      BY <1>3, <1>4, <1>8 DEF Attached, Receives, Doing, Ending, SameHolders
    <3>2. Flagged(p, m)'
      BY <1>3, <1>4, <1>8 DEF Flagged, Ends, Receives, Destroys, Doing, Ending, SameHolders
    <3>3. Awaits(p, m)'
      BY <1>3, <1>4, <1>11, <1>13 DEF Awaits, Doing
    <3> QED BY <2>1, <3>1, <3>2, <3>3
  <2>2. CASE q # p
    <3>1. Attached(q, m) /\ Flagged(q, m) /\ proc'[q] = proc[q]
      BY <1>4, <1>6, <2>2
    <3>2. ~Sends(q, m) /\ ~Ends(q, m) /\ ~Destroys(q, m)
      BY <1>8, <1>9, <2>2, <3>1 DEF Attached, Flagged, BothDone
    <3>3. ~(Receives(q, m) /\ proc[q].at \in {"test", "notify"})
      BY <1>11 DEF Underway, Has, Receives, Doing
    <3>4. Attached(q, m)'
      BY <1>3, <3>1 DEF Attached, Sends, Ends, Receives, Doing, SameHolders
    <3>5. Flagged(q, m)'
      BY <1>3, <1>8, <2>2, <3>1, <3>2, <3>3 DEF Flagged, Ends, Receives, Destroys, Doing, SameHolders
    <3>6. Awaits(q, m)'
      BY <3>1, <3>2 DEF Awaits, Sends, Doing, Sending, Pending
    <3> QED BY <3>4, <3>5, <3>6
  <2> QED BY <2>1, <2>2
<1>19. Handled(m)'
  BY <1>13, <1>14, <1>15, <1>17, <1>18 DEF Handled
<1> QED BY <1>5, <1>19

(* A sender goes on, and the message stays where it is.                     *)
LEMMA SenderGoesOn ==
    ASSUME NEW p \in Procs, NEW m \in Segments, Handled(m), Alike(p),
           Fresh(m)' <=> Fresh(m), Underway(m)' <=> Underway(m), Once(m)',
           segment'[m] = segment[m], m \in lost => m \in lost',
           Doing(p, Pending, m), Doing(p, Pending, m)', proc'[p].sync = proc[p].sync
    PROVE  Handled(m)'
<1> USE DEF Handled
<1>1. \A q \in Procs \ {p} : Attached(q, m)' /\ Flagged(q, m)' /\ Awaits(q, m)'
  BY OthersSame
<1>2. /\ Sends(p, m) /\ Sends(p, m)'
      /\ ~Ends(p, m) /\ ~Receives(p, m) /\ ~Destroys(p, m) /\ ~Doing(p, {"test"}, m)
      /\ ~Ends(p, m)' /\ ~Receives(p, m)' /\ ~Destroys(p, m)'
  BY DEF Sends, Ends, Receives, Destroys, Doing, Sending, Ending, Pending
<1>3. \A q \in Procs \ {p} : /\ Doing(q, {"test"}, m)' <=> Doing(q, {"test"}, m)
                             /\ Destroys(q, m)' <=> Destroys(q, m)
  BY DEF Doing, Destroys, Alike
<1>4. Shaped(m)'
  BY DEF Shaped, BothDone
<1>5. Doomed(m)'
  BY <1>2, <1>3 DEF Doomed, BothDone
<1>6. Newest(m)'
  BY DEF Newest
<1>7. Pends(m) /\ Pends(m)'
  BY DEF Pends
<1>8. Raised(m)'
  BY <1>7 DEF Raised
<1>9. Attached(p, m)'
  BY <1>2 DEF Attached
<1>10. Flagged(p, m)'
  BY <1>2 DEF Flagged
<1>11. Awaits(p, m)'
  <2>1. Awaits(p, m)
    OBVIOUS
  <2>2. ~Doing(p, {"claim", "store"}, m)'
    BY DEF Doing, Pending
  <2> QED BY <2>1, <2>2 DEF Awaits
<1> QED BY <1>1, <1>4, <1>5, <1>6, <1>8, <1>9, <1>10, <1>11

(* A ring loses a message.                                                  *)
LEMMA HandledLost ==
    ASSUME NEW p \in Procs, NEW m \in Segments, Handled(m), Alike(p),
           ~InRing(m)', \A q \in Procs : ~Has(q, m)', m \in lost',
           segment'[m] = segment[m], ~Involved(p, m), ~Involved(p, m)'
    PROVE  Handled(m)'
<1> USE DEF Handled
<1>1. ~Fresh(m)' /\ ~Underway(m)' /\ Once(m)'
  BY DEF Fresh, Underway, Has, Once, InRing
<1>2. ASSUME NEW labels \in SUBSET (Sending \cup {"busy"} \cup Ending), NEW q \in Procs
      PROVE  Doing(q, labels, m)' <=> Doing(q, labels, m)
  BY DEF Doing, Involved, Alike
<1>3. /\ ~Sends(p, m) /\ ~Ends(p, m) /\ ~Receives(p, m) /\ ~Destroys(p, m) /\ ~Doing(p, {"test"}, m)
      /\ ~Sends(p, m)' /\ ~Ends(p, m)' /\ ~Receives(p, m)' /\ ~Destroys(p, m)'
  BY DEF Sends, Ends, Receives, Destroys, Involved, Doing, Ending
<1>4. \A q \in Procs \ {p} : proc'[q] = proc[q]
  BY DEF Alike
<1>5. Shaped(m)'
  BY DEF Shaped, BothDone
<1>6. Doomed(m)'
  BY <1>3, <1>4 DEF Doomed, BothDone, Doing, Destroys
<1>7. Newest(m)'
  BY <1>1 DEF Newest
<1>8. Pends(m)' <=> Pends(m)
  BY <1>2 DEF Pends, Pending, Sending
<1>9. Raised(m)'
  BY <1>1, <1>8 DEF Raised
<1>10. ASSUME NEW q \in Procs PROVE Attached(q, m)' /\ Flagged(q, m)' /\ Awaits(q, m)'
  <2>1. CASE q = p
    <3>1. Attached(p, m)'
      BY <1>3 DEF Attached
    <3>2. Flagged(p, m)'
      BY <1>3 DEF Flagged
    <3>3. Awaits(p, m)'
      BY DEF Awaits, Doing, Involved, Pending, Sending
    <3> QED BY <2>1, <3>1, <3>2, <3>3
  <2>2. CASE q # p
    <3>1. Attached(q, m) /\ Flagged(q, m) /\ Awaits(q, m) /\ proc'[q] = proc[q]
      BY <1>4, <2>2
    <3>2. Attached(q, m)'
      BY <3>1 DEF Attached, Sends, Ends, Receives, Doing
    <3>3. Flagged(q, m)'
      BY <3>1 DEF Flagged, Ends, Receives, Destroys, Doing, BothDone
    <3>4. Awaits(q, m)'
      BY <1>1, <3>1 DEF Awaits, Doing
    <3> QED BY <3>2, <3>3, <3>4
  <2> QED BY <2>1, <2>2
<1> QED BY <1>1, <1>5, <1>6, <1>7, <1>9, <1>10

(* A message is in a ring.                                                  *)
LEMMA HandledWrite ==
    ASSUME NEW p \in Procs, Typed, Rings, IPCQueueWrite(p),
           \A x \in Segments : Handled(x),
           NEW m, m = proc[p].seg, NEW e, e = proc[p].entry, NEW w, w = write[e], NEW r, r = read[e]
    PROVE  \A x \in Segments : Handled(x)'
<1>1. /\ Moves(p, "wake") /\ \A q \in Procs \ {p} : proc'[q] = proc[q]
      /\ proc[p].at = "publish" /\ m \in Segments /\ shmemId[e][w] = m
      /\ e \in Entries /\ w \in Slots /\ r \in Slots
      /\ write'[e] = Turn(w)
      /\ read'[e] = IF Turn(w) = r THEN Turn(r) ELSE r
      /\ \A f \in Entries \ {e} : read'[f] = read[f] /\ write'[f] = write[f]
      /\ lost' = lost \cup IF Turn(w) = r THEN {shmemId[e][r]} ELSE {}
      /\ UNCHANGED <<shmemId, segment>>
  BY WriteIs
<1>2. proc'[p].at = "wake" /\ proc'[p].seg = m /\ proc'[p].sync = proc[p].sync
  BY <1>1 DEF Moves
<1>3. Alike(p)
  <2>1. ASSUME NEW q \in Procs \ {p}, NEW x \in Segments PROVE Apiece(q, x)
    <3>1. proc'[q] = proc[q] /\ Fetched(q)' = Fetched(q)
      BY <1>1 DEF Fetched
    <3>2. New(q, x)' <=> New(q, x)
      BY <3>1 DEF New
    <3> QED BY <3>1, <3>2 DEF Apiece, Has
  <2> QED BY <1>1, <2>1 DEF Alike
<1>4. ASSUME NEW x \in Segments, NEW f \in Entries, NEW s \in Slots
      PROVE  Ringed(f, s, x)' <=> \/ Ringed(f, s, x) /\ ~(Turn(w) = r /\ f = e /\ s = r)
                                  \/ f = e /\ s = w /\ x = m
  <2>1. CASE f = e
    <3>1. Shows(e, s)' <=> (Shows(e, s) /\ ~(Turn(w) = r /\ s = r)) \/ s = w
      BY <1>1, Windows DEF Shows
    <3> QED BY <1>1, <2>1, <3>1 DEF Ringed
  <2>2. CASE f # e
    BY <1>1, <2>2 DEF Ringed, Shows
  <2> QED BY <2>1, <2>2
<1>5. \A s \in Slots : s = w => ~Shows(e, s)
  BY <1>1, Windows DEF Shows
<1>6. ASSUME NEW x \in Segments, x # m PROVE ~Has(p, x) /\ ~Has(p, x)' /\ Apiece(p, x)
                                             /\ ~Involved(p, x) /\ ~Involved(p, x)'
  BY <1>1, <1>2, <1>6 DEF Apiece, New, Has, Involved, Doing
<1>7. ASSUME NEW x \in Segments, x # m, Turn(w) # r \/ x # shmemId[e][r] PROVE Handled(x)'
  <2>1. Places(x)
    BY <1>1, <1>4, <1>5, <1>7 DEF Places, Ringed
  <2> QED BY <1>1, <1>3, <1>6, <1>7, <2>1, Untouched
<1>8. Has(p, m) /\ New(p, m)
  BY <1>1 DEF Has, New
<1>9. ASSUME NEW x \in Segments, Turn(w) = r, x = shmemId[e][r] PROVE x # m /\ Handled(x)'
  <2>1. Ringed(e, r, x)
    <3>1. r # w
      BY <1>1, <1>9, TurnIs
    <3> QED BY <1>1, <1>9, <3>1, Windows DEF Ringed, Shows
  <2>2. Once(x) /\ Handled(x)
    BY DEF Handled
  <2>3. x # m
    BY <1>1, <1>8, <2>1, <2>2 DEF Once
  <2>4. ~InRing(x)'
    <3>1. ASSUME NEW f \in Entries, NEW s \in Slots, Ringed(f, s, x)' PROVE FALSE
      <4>1. Ringed(f, s, x) /\ ~(f = e /\ s = r)
        BY <1>4, <1>9, <2>3, <3>1
      <4>2. e \in Entries /\ r \in Slots
        BY <1>1
      <4> QED BY <2>1, <2>2, <4>1, <4>2 DEF Once
    <3> QED BY <3>1 DEF InRing
  <2>5. \A q \in Procs : ~Has(q, x)
    BY <1>1, <2>1, <2>2 DEF Once
  <2>6. \A q \in Procs : ~Has(q, x)'
    BY <1>3, <1>6, <2>3, <2>5 DEF Alike, Apiece
  <2>7. x \in lost'
    BY <1>1, <1>9
  <2> QED BY <1>1, <1>3, <1>6, <2>2, <2>3, <2>4, <2>6, <2>7, HandledLost
<1>10. Handled(m)'
  <2>1. Handled(m) /\ Once(m)
    BY <1>1 DEF Handled
  <2>2. /\ \A f \in Entries, s \in Slots : ~Ringed(f, s, m)
        /\ \A q \in Procs : q # p => ~Has(q, m)
    BY <1>8, <2>1 DEF Once
  <2>3. \A f \in Entries, s \in Slots : Ringed(f, s, m)' <=> f = e /\ s = w
    BY <1>1, <1>4, <2>2
  <2>4. \A q \in Procs : ~Has(q, m)'
    <3>1. ~Has(p, m)'
      BY <1>2 DEF Has, New
    <3> QED BY <1>1, <1>3, <2>2, <3>1 DEF Alike, Apiece
  <2>5. Once(m)' /\ InRing(m)'
    BY <1>1, <2>3, <2>4 DEF Once, InRing
  <2>6. (Fresh(m)' <=> Fresh(m)) /\ (Underway(m)' <=> Underway(m))
    BY <1>8, <2>5 DEF Fresh, Underway
  <2>7. Doing(p, Pending, m) /\ Doing(p, Pending, m)'
    BY <1>1, <1>2 DEF Doing, Pending
  <2> QED BY <1>1, <1>2, <1>3, <2>1, <2>5, <2>6, <2>7, SenderGoesOn
<1> QED BY <1>7, <1>9, <1>10

(* The receiver is woken.                                                   *)
LEMMA HandledWake ==
    ASSUME NEW p \in Procs, Typed, Rings, WakeReceiver(p),
           \A x \in Segments : Handled(x), NEW m, m = proc[p].seg
    PROVE  \A x \in Segments : Handled(x)'
<1>1. /\ proc[p].at = "wake" /\ Goto(p, "sleep") /\ "sleep" \in Labels
      /\ UNCHANGED <<read, write, shmemId>> /\ segment' = segment /\ lost' = lost
  BY DEF WakeReceiver, ring, Labels
<1>2. /\ m \in Segments /\ \A q \in Procs \ {p} : proc'[q] = proc[q]
      /\ proc'[p].at = "sleep" /\ proc'[p].seg = m /\ proc'[p].sync = proc[p].sync
  BY <1>1, GoingMoves DEF Rings, Placed, Moves
<1>3. ASSUME NEW x \in Segments, x # m PROVE Handled(x)'
  <2>1. ~Involved(p, x) /\ ~Involved(p, x)'
    BY <1>2, <1>3 DEF Involved, Doing
  <2> QED BY <1>1, <1>2, <2>1, Elsewhere
<1>4. Handled(m)'
  <2>1. Alike(p) /\ Places(m)
    BY <1>1, <1>2, RingsKeepPlaces
  <2>2. Apiece(p, m)
    BY <1>1, <1>2 DEF Apiece, New, Has
  <2>3. /\ Fresh(m)' <=> Fresh(m)
        /\ Underway(m)' <=> Underway(m)
        /\ Once(m)'
    BY <1>2, <2>1, <2>2, PlacesStay DEF Alike, Handled
  <2>4. Doing(p, Pending, m) /\ Doing(p, Pending, m)'
    BY <1>1, <1>2 DEF Doing, Pending
  <2> QED BY <1>1, <1>2, <2>1, <2>3, <2>4, SenderGoesOn
<1> QED BY <1>3, <1>4

(* A ring is read: its oldest message is with the reader, or lost.          *)
LEMMA HandledRead ==
    ASSUME NEW p \in Procs, Typed, Rings, IPCQueueRead(p),
           \A x \in Segments : Handled(x),
           NEW e, e = proc[p].entry, NEW w, w = write[e], NEW r, r = read[e], NEW m, m = shmemId[e][r]
    PROVE  \A x \in Segments : Handled(x)'
<1>1. /\ proc[p].at = "read"
      /\ e \in Entries /\ w \in Slots /\ r \in Slots
      /\ \A q \in Procs \ {p} : proc'[q] = proc[q]
      /\ \A f \in Entries \ {e} : read'[f] = read[f]
      /\ r = w => proc'[p] = At("idle") /\ UNCHANGED <<read, lost>>
      /\ r # w =>
            /\ read'[e] = Turn(r)
            /\ proc'[p].at = "fetch" /\ proc'[p].entry = e /\ proc'[p].slot = Turn(r) - 1
            /\ lost' = lost \cup IF Turn(r) = 0 THEN {m} ELSE {}
      /\ UNCHANGED <<write, shmemId, segment>>
  BY ReadIs
<1>2. CASE r = w
  <2>1. proc'[p].at = "idle"
    BY <1>1, <1>2 DEF At
  <2>2. ASSUME NEW x \in Segments PROVE Handled(x)'
    <3>1. ~Involved(p, x) /\ ~Involved(p, x)'
      BY <1>1, <2>1 DEF Involved, Doing, Sending, Ending
    <3> QED BY <1>1, <1>2, <2>1, <3>1, Elsewhere
  <2> QED BY <2>2
<1>3. CASE r # w
  <2>1. m \in Segments /\ Ringed(e, r, m)
    BY <1>1, <1>3, Windows DEF Rings, Filled, Shows, Ringed
  <2>2. Alike(p)
    <3>1. ASSUME NEW q \in Procs \ {p}, NEW x \in Segments PROVE Apiece(q, x)
      <4>1. proc'[q] = proc[q] /\ Fetched(q)' = Fetched(q)
        BY <1>1 DEF Fetched
      <4>2. New(q, x)' <=> New(q, x)
        BY <4>1 DEF New
      <4> QED BY <4>1, <4>2 DEF Apiece, Has
    <3> QED BY <1>1, <3>1 DEF Alike
  <2>3. ASSUME NEW x \in Segments, NEW f \in Entries, NEW s \in Slots
        PROVE  Ringed(f, s, x)' <=> Ringed(f, s, x) /\ ~(f = e /\ s = r)
    <3>1. CASE f = e
      <4>1. Shows(e, s)' <=> Shows(e, s) /\ s # r
        BY <1>1, <1>3, Windows DEF Shows
      <4> QED BY <1>1, <3>1, <4>1 DEF Ringed
    <3>2. CASE f # e
      BY <1>1, <3>2 DEF Ringed, Shows
    <3> QED BY <3>1, <3>2
  <2>4. Fetched(p)' = IF Turn(r) = 0 THEN NONE ELSE m
    <3>1. Turn(r) # 0 => Turn(r) - 1 = r
      BY <1>1 DEF Turn, Slots
    <3>2. Turn(r) - 1 = -1 <=> Turn(r) = 0
      BY <1>1 DEF Turn, Slots
    <3> QED BY <1>1, <1>3, <3>1, <3>2 DEF Fetched
  <2>5. \A x \in Segments : x # NONE
    BY LibIPCAssumption
  <2>6. ASSUME NEW x \in Segments
        PROVE  /\ ~New(p, x) /\ ~Has(p, x) /\ ~Involved(p, x) /\ ~Involved(p, x)'
               /\ New(p, x)' <=> Turn(r) # 0 /\ x = m
               /\ Has(p, x)' <=> Turn(r) # 0 /\ x = m
    <3>1. New(p, x)' <=> Turn(r) # 0 /\ x = m
      BY <1>1, <1>3, <2>4, <2>5 DEF New
    <3>2. Has(p, x)' <=> New(p, x)'
      BY <1>1, <1>3 DEF Has
    <3>3. ~New(p, x) /\ ~Has(p, x) /\ ~Involved(p, x) /\ ~Involved(p, x)'
      BY <1>1, <1>3 DEF New, Has, Involved, Doing, Sending, Ending
    <3> QED BY <3>1, <3>2, <3>3
  <2>7. ASSUME NEW x \in Segments, x # m PROVE Handled(x)'
    <3>1. Places(x)
      BY <2>1, <2>3, <2>7 DEF Places, Ringed
    <3>2. Apiece(p, x)
      BY <2>6, <2>7 DEF Apiece
    <3>3. x \in lost => x \in lost'
      BY <1>1, <1>3
    <3> QED BY <1>1, <2>2, <2>6, <3>1, <3>2, <3>3, Untouched
  <2>8. Once(m) /\ Handled(m)
    BY <2>1 DEF Handled
  <2>9. ~InRing(m)' /\ \A q \in Procs : ~Has(q, m)
    <3>1. \A q \in Procs : ~Has(q, m)
      BY <1>1, <2>1, <2>8 DEF Once
    <3>2. ~InRing(m)'
      <4>1. ASSUME NEW f \in Entries, NEW s \in Slots, Ringed(f, s, m)' PROVE FALSE
        <5>1. Ringed(f, s, m) /\ ~(f = e /\ s = r)
          BY <2>1, <2>3, <4>1
        <5>2. e \in Entries /\ r \in Slots
          BY <1>1
        <5> QED BY <2>1, <2>8, <5>1, <5>2 DEF Once
      <4> QED BY <4>1 DEF InRing
    <3> QED BY <3>1, <3>2
  <2>10. \A q \in Procs \ {p} : ~Has(q, m)'
    BY <2>1, <2>2, <2>9 DEF Alike, Apiece
  <2>11. CASE Turn(r) = 0
    <3>1. m \in lost' /\ ~Has(p, m)'
      BY <1>1, <1>3, <2>1, <2>6, <2>11
    <3>2. Handled(m)'
      BY <1>1, <2>1, <2>2, <2>6, <2>8, <2>9, <2>10, <3>1, HandledLost
    <3> QED BY <2>7, <3>2
  <2>12. CASE Turn(r) # 0
    <3>1. New(p, m)' /\ Has(p, m)'
      BY <2>1, <2>6, <2>12
    <3>2. Once(m)'
      BY <2>9, <2>10 DEF Once, InRing
    <3>3. (Fresh(m)' <=> Fresh(m)) /\ (Underway(m)' <=> Underway(m))
      BY <1>1, <2>1, <3>1 DEF Fresh, Underway, InRing
    <3>4. m \in lost => m \in lost'
      BY <1>1, <1>3
    <3>5. Handled(m)'
      BY <1>1, <2>1, <2>2, <2>6, <2>8, <3>2, <3>3, <3>4, HandledStill
    <3> QED BY <2>7, <3>5
  <2> QED BY <2>11, <2>12
<1> QED BY <1>2, <1>3

(* Who holds a message that keeps its holders and its flags.                *)
LEMMA OthersHold ==
    ASSUME NEW p \in Procs, NEW m \in Segments, Handled(m), Alike(p),
           SameHolders(m), SameFlags(m), m \in lost => m \in lost'
    PROVE  \A q \in Procs \ {p} : Attached(q, m)' /\ Flagged(q, m)'
<1> SUFFICES ASSUME NEW q \in Procs \ {p}
             PROVE  Attached(q, m)' /\ Flagged(q, m)'
  OBVIOUS
<1>1. Attached(q, m) /\ Flagged(q, m) /\ proc'[q] = proc[q]
  BY DEF Handled, Alike
<1>2. Attached(q, m)'
  BY <1>1 DEF Attached, Sends, Ends, Receives, Doing, SameHolders
<1>3. Flagged(q, m)'
  BY <1>1 DEF Flagged, Ends, Receives, Destroys, Doing, BothDone, SameHolders, SameFlags
<1> QED BY <1>2, <1>3

(* A sender is alone with what it sends.                                    *)
LEMMA OneSender ==
    ASSUME NEW p \in Procs, NEW m \in Segments, Handled(m), segment[m].owner = p
    PROVE  \A q \in Procs \ {p} : ~Sends(q, m) /\ ~Ends(q, m)
BY DEF Handled, Attached

(* A sender has been woken, or does not wait.                               *)
LEMMA HandledSleep ==
    ASSUME NEW p \in Procs, Typed, Rings, SleepSender(p),
           \A x \in Segments : Handled(x), NEW m, m = proc[p].seg
    PROVE  \A x \in Segments : Handled(x)'
<1>1. /\ proc[p].at = "sleep" /\ Return(p) /\ proc \in [Procs -> Calls]
      /\ proc[p].sync => segment[m].senderSem > 0
      /\ segment' = [segment EXCEPT ![m].senderSem = IF @ > 0 THEN @ - 1 ELSE @]
      /\ UNCHANGED <<read, write, shmemId>> /\ lost' = lost
  BY DEF SleepSender, ring, Typed
<1>2. /\ \A q \in Procs \ {p} : proc'[q] = proc[q]
      /\ proc'[p].at = "idle"
  BY <1>1, Returning
<1>3. m \in Segments /\ segment[m] \in Messages /\ segment[m].senderSem \in Int
  <2>1. m \in Segments
    BY <1>1 DEF Rings, Placed
  <2>2. segment[m] \in Messages
    BY <2>1 DEF Typed
  <2> QED BY <2>1, <2>2 DEF Messages
<1>4. /\ SameHolders(m) /\ SameLife(m) /\ SameFlags(m) /\ segment'[m].sent = segment[m].sent
      /\ segment'[m].senderSem = IF segment[m].senderSem > 0 THEN segment[m].senderSem - 1 ELSE segment[m].senderSem
      /\ \A x \in Segments \ {m} : segment'[x] = segment[x]
  BY <1>1, <1>3 DEF Typed, Messages, SameHolders, SameLife, SameFlags
<1>5. ASSUME NEW x \in Segments, x # m PROVE Handled(x)'
  <2>1. ~Involved(p, x) /\ ~Involved(p, x)'
    BY <1>2, <1>5 DEF Involved, Doing, Sending, Ending
  <2> QED BY <1>1, <1>2, <1>4, <1>5, <2>1, Elsewhere
<1>6. /\ Handled(m) /\ Attached(p, m) /\ Flagged(p, m) /\ Awaits(p, m)
      /\ Shaped(m) /\ Doomed(m) /\ Newest(m) /\ Raised(m)
  BY <1>3 DEF Handled
<1>7. Sends(p, m) /\ ~Ends(p, m) /\ Doing(p, Pending, m)
  BY <1>1 DEF Sends, Ends, Doing, Sending, Ending, Pending
<1>8. segment[m].owner = p /\ p \in segment[m].attached /\ ~segment[m].senderDone
  BY <1>6, <1>7 DEF Attached, Flagged
<1>9. Alike(p) /\ Places(m)
  BY <1>1, <1>2, <1>3, RingsKeepPlaces
<1>10. Apiece(p, m)
  BY <1>1, <1>2 DEF Apiece, New, Has
<1>11. (Fresh(m)' <=> Fresh(m)) /\ (Underway(m)' <=> Underway(m)) /\ Once(m)'
  BY <1>3, <1>6, <1>9, <1>10, PlacesStay DEF Alike, Handled
<1>12. \A q \in Procs \ {p} : Attached(q, m)' /\ Flagged(q, m)' /\ ~Sends(q, m)
  BY <1>1, <1>3, <1>4, <1>6, <1>8, <1>9, OthersHold, OneSender
<1>13. Shaped(m)'
  <2>1. segment'[m].live
    BY <1>4, <1>6, <1>8 DEF Shaped, Free, SameLife
  <2> QED BY <1>4, <1>6, <2>1 DEF Shaped, BothDone, SameLife, SameFlags, SameHolders
<1>14. Doomed(m)'
  BY <1>4, <1>8 DEF Doomed, BothDone, SameFlags
<1>15. Newest(m)'
  BY <1>1, <1>4, <1>6, <1>11 DEF Newest, SameLife, SameFlags
<1>16. Raised(m)'
  <2>1. segment[m].sent # "async" => proc[p].sync
    BY <1>6, <1>7 DEF Awaits
  <2>2. segment[m].sent # "async" => segment'[m].senderSem = 0 /\ ~Underway(m)'
    <3>1. ASSUME segment[m].sent # "async" PROVE segment[m].senderSem = 1 /\ ~Underway(m)
      BY <1>1, <1>3, <1>6, <1>7, <2>1, <3>1 DEF Awaits, Raised
    <3> QED BY <1>4, <1>11, <3>1
  <2>3. segment'[m].senderSem = -1 => segment[m].senderSem = -1
    BY <1>3, <1>4
  <2> QED BY <1>4, <1>6, <2>2, <2>3 DEF Raised, SameLife, SameFlags
<1>17. Attached(p, m)'
  BY <1>2, <1>4, <1>8 DEF Attached, Sends, Ends, Receives, Doing, Sending, Ending, SameHolders
<1>18. Flagged(p, m)'
  BY <1>2, <1>4, <1>8 DEF Flagged, Ends, Receives, Destroys, Doing, Ending, SameHolders, SameFlags
<1>19. ASSUME NEW q \in Procs PROVE Awaits(q, m)'
  <2>1. ~Doing(q, {"claim", "store"}, m)' /\ ~Doing(q, Pending, m)'
    <3>1. CASE q = p
      BY <1>2, <3>1 DEF Doing, Pending
    <3>2. CASE q # p
      BY <1>2, <1>12, <3>2 DEF Sends, Doing, Sending, Pending
    <3> QED BY <3>1, <3>2
  <2> QED BY <2>1 DEF Awaits
<1>20. Handled(m)'
  BY <1>11, <1>12, <1>13, <1>14, <1>15, <1>16, <1>17, <1>18, <1>19 DEF Handled
<1> QED BY <1>5, <1>20

(* The receiver has the message.                                            *)
LEMMA HandledAttach ==
    ASSUME NEW p \in Procs, Roles, Typed, Rings, AttachMessage(p),
           \A x \in Segments : Handled(x), NEW m, m = Fetched(p)
    PROVE  \A x \in Segments : Handled(x)'
<1>1. /\ proc[p].at = "fetch" /\ proc \in [Procs -> Calls]
      /\ UNCHANGED <<read, write, shmemId>> /\ lost' = lost
  BY DEF AttachMessage, ring, Typed
<1>2. m \in Segments \cup {NONE} /\ p \in Servers /\ NONE \notin Segments
  <2>1. proc[p].entry \in Entries /\ proc[p].slot \in Slots \cup {-1}
    BY DEF Typed, Calls
  <2>2. m \in Segments \cup {NONE}
    BY <2>1 DEF Fetched, Typed
  <2> QED BY <1>1, <2>2, LibIPCAssumption DEF Rings, Placed
<1>3. CASE m = NONE
  <2>1. Return(p) /\ segment' = segment
    BY <1>3 DEF AttachMessage
  <2>2. proc'[p].at = "idle" /\ \A q \in Procs \ {p} : proc'[q] = proc[q]
    BY <1>1, <2>1, Returning
  <2>3. ASSUME NEW x \in Segments PROVE Handled(x)'
    <3>1. ~Involved(p, x) /\ ~Involved(p, x)' /\ Fetched(p) # x
      BY <1>1, <1>2, <1>3, <2>2 DEF Involved, Doing, Sending, Ending
    <3> QED BY <1>1, <2>1, <2>2, <3>1, Elsewhere
  <2> QED BY <2>3
<1>4. CASE m \in Segments
  <2>1. Handled(m) /\ Shaped(m) /\ Doomed(m) /\ Newest(m) /\ Raised(m)
    BY <1>4 DEF Handled
  <2>2. New(p, m) /\ Fresh(m)
    BY <1>1 DEF New, Fresh
  <2>3. segment[m].live /\ ~segment[m].receiverDone /\ segment[m] \in Messages
    BY <1>4, <2>1, <2>2 DEF Newest, Typed
  <2> DEFINE call == [At("busy") EXCEPT !.seg = m]
  <2>4. segment' = [segment EXCEPT ![m].attached = @ \cup {p}] /\ proc' = [proc EXCEPT ![p] = call]
    BY <1>2, <1>4, <2>3 DEF AttachMessage
  <2>5. call.at = "busy" /\ call.seg = m
    BY DEF At
  <2> HIDE DEF call
  <2>6. proc'[p].at = "busy" /\ proc'[p].seg = m /\ \A q \in Procs \ {p} : proc'[q] = proc[q]
    BY <1>1, <2>4, <2>5
  <2>7. /\ SameLife(m) /\ SameFlags(m) /\ segment'[m].sent = segment[m].sent
        /\ segment'[m].senderSem = segment[m].senderSem
        /\ segment'[m].owner = segment[m].owner /\ segment'[m].attached = segment[m].attached \cup {p}
        /\ \A x \in Segments \ {m} : segment'[x] = segment[x]
    BY <1>4, <2>3, <2>4 DEF Typed, Messages, SameLife, SameFlags
  <2>8. ASSUME NEW x \in Segments, x # m PROVE Handled(x)'
    <3>1. ~Involved(p, x) /\ ~Involved(p, x)'
      BY <1>1, <2>6, <2>8 DEF Involved, Doing, Sending, Ending
    <3> QED BY <1>1, <2>6, <2>7, <2>8, <3>1, Elsewhere
  <2>9. Alike(p) /\ Places(m)
    BY <1>1, <1>4, <2>6, RingsKeepPlaces
  <2>10. Apiece(p, m)
    BY <1>1, <2>2, <2>6 DEF Apiece, New, Has
  <2>11. (Fresh(m)' <=> Fresh(m)) /\ (Underway(m)' <=> Underway(m)) /\ Once(m)'
    BY <1>4, <2>1, <2>9, <2>10, PlacesStay DEF Alike, Handled
  <2>12. Shaped(m)' /\ Doomed(m)' /\ Newest(m)'
    <3>1. Shaped(m)'
      BY <2>1, <2>3, <2>7 DEF Shaped, BothDone, SameLife, SameFlags
    <3>2. Doomed(m)'
      BY <2>3, <2>7 DEF Doomed, BothDone, SameFlags
    <3>3. Newest(m)'
      BY <1>1, <2>1, <2>7, <2>11 DEF Newest, SameLife, SameFlags
    <3> QED BY <3>1, <3>2, <3>3
  <2>13. Pends(m)' <=> Pends(m)
    BY <1>1, <2>6 DEF Pends, Doing, Pending
  <2>14. Raised(m)'
    BY <2>1, <2>7, <2>11, <2>13 DEF Raised, SameLife, SameFlags
  <2>15. ASSUME NEW q \in Procs PROVE Attached(q, m)' /\ Flagged(q, m)' /\ Awaits(q, m)'
    <3>1. CASE q = p
      <4>1. segment[m].owner # p
        BY <1>2, <2>3, LibIPCAssumption DEF Messages, Roles
      <4>2. Attached(p, m)'
        BY <1>2, <2>6, <2>7 DEF Attached, Sends, Ends, Receives, Doing, Sending, Ending
      <4>3. Flagged(p, m)'
        BY <2>6, <2>7, <4>1 DEF Flagged, Ends, Receives, Destroys, Doing, Ending
      <4>4. Awaits(p, m)'
        BY <2>6 DEF Awaits, Doing, Pending
      <4> QED BY <3>1, <4>2, <4>3, <4>4
    <3>2. CASE q # p
      <4>1. Attached(q, m) /\ Flagged(q, m) /\ Awaits(q, m) /\ proc'[q] = proc[q]
        BY <2>1, <2>6, <3>2 DEF Handled
      <4>2. Attached(q, m)'
        BY <2>7, <3>2, <4>1 DEF Attached, Sends, Ends, Receives, Doing
      <4>3. Flagged(q, m)'
        BY <1>1, <2>7, <3>2, <4>1 DEF Flagged, Ends, Receives, Destroys, Doing, BothDone, SameFlags
      <4>4. Awaits(q, m)'
        BY <1>1, <2>7, <2>11, <4>1 DEF Awaits, Doing, SameFlags
      <4> QED BY <4>2, <4>3, <4>4
    <3> QED BY <3>1, <3>2
  <2>16. Handled(m)'
    BY <2>11, <2>12, <2>14, <2>15 DEF Handled
  <2> QED BY <2>8, <2>16
<1> QED BY <1>2, <1>3, <1>4

(* The owner of a message that is in no call has not done with it.          *)
LEMMA NotDone ==
    ASSUME NEW p \in Procs, NEW m \in Segments, Handled(m), segment[m].owner = p,
           p \in segment[m].attached, ~Ends(p, m)
    PROVE  ~segment[m].senderDone /\ ~segment[m].removed /\ segment[m].live
<1>1. ~segment[m].senderDone
  BY DEF Handled, Flagged
<1>2. ~segment[m].removed
  BY <1>1 DEF Handled, Shaped, BothDone
<1>3. segment[m].live
  BY DEF Handled, Shaped, Free
<1> QED BY <1>1, <1>2, <1>3

(* The sender has done with a message.                                      *)
LEMMA HandledDoneBySender ==
    ASSUME NEW p \in Procs, Roles, Typed, NEW m \in Segments, Done(p, m, TRUE),
           proc[p].at = "idle", segment[m].owner = p, p \in segment[m].attached,
           \A x \in Segments : Handled(x), UNCHANGED <<read, write, shmemId, lost>>
    PROVE  \A x \in Segments : Handled(x)'
<1>1. /\ proc'[p].at = "test" /\ proc'[p].seg = m /\ proc'[p].sender
      /\ \A q \in Procs \ {p} : proc'[q] = proc[q]
  BY DoneIs
<1>2. segment[m] \in Messages /\ p \in Clients
  <2>1. segment[m] \in Messages /\ p # NONE
    BY LibIPCAssumption DEF Typed, Procs
  <2> QED BY <2>1 DEF Messages
<1>3. segment' = [segment EXCEPT ![m].senderDone = TRUE]
  BY DEF Done
<1>4. /\ SameHolders(m) /\ SameLife(m) /\ segment'[m].sent = segment[m].sent
      /\ segment'[m].senderSem = segment[m].senderSem
      /\ segment'[m].senderDone /\ segment'[m].receiverDone = segment[m].receiverDone
      /\ \A x \in Segments \ {m} : segment'[x] = segment[x]
  BY <1>2, <1>3 DEF Typed, Messages, SameHolders, SameLife
<1>5. ASSUME NEW x \in Segments, x # m PROVE Handled(x)'
  <2>1. ~Involved(p, x) /\ ~Involved(p, x)'
    BY <1>1, <1>5 DEF Involved, Doing, Sending, Ending
  <2> QED BY <1>1, <1>4, <1>5, <2>1, Elsewhere
<1>6. /\ Handled(m) /\ Newest(m) /\ Raised(m)
  BY DEF Handled
<1>7. ~segment[m].senderDone /\ ~segment[m].removed /\ segment[m].live
  BY <1>6, NotDone DEF Ends, Doing, Ending
<1>8. Alike(p) /\ Places(m)
  BY <1>1, RingsKeepPlaces
<1>9. Apiece(p, m)
  BY <1>1 DEF Apiece, New, Has
<1>10. (Fresh(m)' <=> Fresh(m)) /\ (Underway(m)' <=> Underway(m)) /\ Once(m)'
  BY <1>6, <1>8, <1>9, PlacesStay DEF Alike, Handled
<1>11. Shaped(m)'
  BY <1>4, <1>7 DEF Shaped, SameLife
<1>12. Doomed(m)'
  BY <1>1 DEF Doomed, Doing
<1>13. Newest(m)'
  BY <1>4, <1>6, <1>10 DEF Newest, SameLife
<1>14. Pends(m)' <=> Pends(m)
  BY <1>1 DEF Pends, Doing, Pending
<1>15. Raised(m)'
  BY <1>4, <1>6, <1>10, <1>14 DEF Raised, SameLife
<1>16. ASSUME NEW q \in Procs PROVE Attached(q, m)' /\ Flagged(q, m)' /\ Awaits(q, m)'
  <2>1. CASE q = p
    <3>1. Attached(p, m)'
      BY <1>1, <1>2, <1>4 DEF Attached, Receives, Doing, Ending, SameHolders
    <3>2. Ends(p, m)' /\ ~Receives(p, m)' /\ ~Destroys(p, m)'
      BY <1>1 DEF Ends, Receives, Destroys, Doing, Ending
    <3>3. Flagged(p, m)'
      BY <1>4, <3>2 DEF Flagged, SameHolders
    <3>4. Awaits(p, m)'
      BY <1>1 DEF Awaits, Doing, Pending
    <3> QED BY <2>1, <3>1, <3>3, <3>4
  <2>2. CASE q # p
    <3>1. Attached(q, m) /\ Flagged(q, m) /\ proc'[q] = proc[q] /\ ~Sends(q, m) /\ ~Ends(q, m)
      BY <1>1, <1>6, <2>2, OneSender DEF Handled
    <3>2. Attached(q, m)'
      BY <1>4, <3>1 DEF Attached, Sends, Ends, Receives, Doing, SameHolders
    <3>3. Flagged(q, m)'
      BY <1>4, <1>7, <2>2, <3>1 DEF Flagged, Ends, Receives, Destroys, Doing, BothDone, SameHolders
    <3>4. Awaits(q, m)'
      BY <3>1 DEF Awaits, Sends, Doing, Sending, Pending
    <3> QED BY <3>2, <3>3, <3>4
  <2> QED BY <2>1, <2>2
<1>17. Handled(m)'
  BY <1>10, <1>11, <1>12, <1>13, <1>15, <1>16 DEF Handled
<1> QED BY <1>5, <1>17

(* The receiver has done with a message.                                    *)
LEMMA HandledDoneByReceiver ==
    ASSUME NEW p \in Procs, Roles, Typed, NEW m \in Segments, Done(p, m, FALSE),
           proc[p].at = "busy", proc[p].seg = m,
           \A x \in Segments : Handled(x), UNCHANGED <<read, write, shmemId, lost>>
    PROVE  \A x \in Segments : Handled(x)'
<1>1. /\ proc'[p].at = "test" /\ proc'[p].seg = m /\ ~proc'[p].sender
      /\ \A q \in Procs \ {p} : proc'[q] = proc[q]
  BY DoneIs
<1>2. segment[m] \in Messages
  BY DEF Typed
<1>3. segment' = [segment EXCEPT ![m].receiverDone = TRUE]
  BY DEF Done
<1>4. /\ SameHolders(m) /\ SameLife(m) /\ segment'[m].sent = segment[m].sent
      /\ segment'[m].senderSem = segment[m].senderSem
      /\ segment'[m].senderDone = segment[m].senderDone /\ segment'[m].receiverDone
      /\ \A x \in Segments \ {m} : segment'[x] = segment[x]
  BY <1>2, <1>3 DEF Typed, Messages, SameHolders, SameLife
<1>5. ASSUME NEW x \in Segments, x # m PROVE Handled(x)'
  <2>1. ~Involved(p, x) /\ ~Involved(p, x)'
    BY <1>1, <1>5 DEF Involved, Doing, Sending, Ending
  <2> QED BY <1>1, <1>4, <1>5, <2>1, Elsewhere
<1>6. /\ Handled(m) /\ Newest(m) /\ Raised(m) /\ Shaped(m) /\ Once(m) /\ Attached(p, m)
  BY DEF Handled
<1>7. New(p, m) /\ Has(p, m) /\ Fresh(m) /\ Underway(m) /\ Receives(p, m)
  BY DEF New, Has, Fresh, Underway, Receives, Doing
<1>8. segment[m].live /\ ~segment[m].receiverDone /\ ~segment[m].removed
  BY <1>6, <1>7 DEF Newest, Shaped, BothDone
<1>9. Alike(p) /\ Places(m)
  BY <1>1, RingsKeepPlaces
<1>10. Has(p, m)' /\ ~New(p, m)'
  BY <1>1 DEF New, Has
<1>11. \A q \in Procs : Has(q, m)' <=> Has(q, m)
  BY <1>7, <1>9, <1>10 DEF Alike, Apiece
<1>12. Once(m)' /\ Underway(m)'
  BY <1>6, <1>9, <1>10, <1>11 DEF Once, Places, Underway
<1>13. ~Fresh(m)'
  BY <1>10, <1>12 DEF Fresh, Once, InRing, Has
<1>14. Shaped(m)'
  BY <1>4, <1>8 DEF Shaped, SameLife
<1>15. Doomed(m)'
  BY <1>1 DEF Doomed, Doing
<1>16. Newest(m)'
  BY <1>4, <1>13 DEF Newest
<1>17. Pends(m)' <=> Pends(m)
  BY <1>1 DEF Pends, Doing, Pending
<1>18. Raised(m)'
  BY <1>4, <1>6, <1>7, <1>12, <1>17 DEF Raised, SameLife
<1>19. ASSUME NEW q \in Procs PROVE Attached(q, m)' /\ Flagged(q, m)' /\ Awaits(q, m)'
  <2>1. CASE q = p
    <3>1. p \in segment[m].attached /\ p \in Servers /\ segment[m].owner # p
      BY <1>2, <1>6, <1>7, LibIPCAssumption DEF Attached, Messages, Roles
    <3>2. ~Sends(p, m)' /\ ~Ends(p, m)' /\ ~Destroys(p, m)'
      BY <1>1 DEF Sends, Ends, Destroys, Doing, Sending
    <3>3. Receives(p, m)'
      BY <1>1 DEF Receives, Doing, Ending
    <3>4. Attached(p, m)'
      BY <1>4, <3>1, <3>2, <3>3 DEF Attached, SameHolders
    <3>5. Flagged(p, m)'
      BY <1>4, <3>1, <3>2 DEF Flagged, SameHolders
    <3>6. Awaits(p, m)'
      BY <1>1 DEF Awaits, Doing, Pending
    <3> QED BY <2>1, <3>4, <3>5, <3>6
  <2>2. CASE q # p
    <3>1. Attached(q, m) /\ Flagged(q, m) /\ Awaits(q, m) /\ proc'[q] = proc[q]
      BY <1>1, <1>6, <2>2 DEF Handled
    <3>2. Attached(q, m)'
      BY <1>4, <3>1 DEF Attached, Sends, Ends, Receives, Doing, SameHolders
    <3>3. Flagged(q, m)'
      BY <1>4, <1>8, <3>1 DEF Flagged, Ends, Receives, Destroys, Doing, BothDone, SameHolders
    <3>4. Awaits(q, m)'
      BY <1>4, <1>7, <1>12, <3>1 DEF Awaits, Doing
    <3> QED BY <3>2, <3>3, <3>4
  <2> QED BY <2>1, <2>2
<1>20. Handled(m)'
  BY <1>12, <1>14, <1>15, <1>16, <1>18, <1>19 DEF Handled
<1> QED BY <1>5, <1>20

(* Both flags are tested.                                                   *)
LEMMA HandledTest ==
    ASSUME NEW p \in Procs, Typed, Rings, TestDone(p),
           \A x \in Segments : Handled(x), NEW m, m = proc[p].seg
    PROVE  \A x \in Segments : Handled(x)'
<1>1. /\ proc[p].at = "test" /\ proc \in [Procs -> Calls] /\ proc[p] \in Calls
      /\ proc' = [proc EXCEPT ![p].at = "notify", ![p].destroy = BothDone(m)]
      /\ UNCHANGED <<read, write, shmemId>> /\ segment' = segment /\ lost' = lost
  BY DEF TestDone, ring, Typed
<1>2. /\ m \in Segments /\ \A q \in Procs \ {p} : proc'[q] = proc[q]
      /\ proc'[p].at = "notify" /\ proc'[p].seg = m /\ proc'[p].sender = proc[p].sender
      /\ proc'[p].destroy = BothDone(m)
  BY <1>1 DEF Rings, Placed, Calls, Ending
<1>3. ASSUME NEW x \in Segments, x # m PROVE Handled(x)'
  <2>1. ~Involved(p, x) /\ ~Involved(p, x)'
    BY <1>2, <1>3 DEF Involved, Doing
  <2> QED BY <1>1, <1>2, <2>1, Elsewhere
<1>4. /\ Handled(m) /\ Shaped(m) /\ Newest(m) /\ Raised(m) /\ Attached(p, m) /\ Flagged(p, m)
  BY <1>2 DEF Handled
<1>5. Alike(p) /\ Places(m)
  BY <1>1, <1>2, RingsKeepPlaces
<1>6. Apiece(p, m)
  BY <1>1, <1>2 DEF Apiece, New, Has
<1>7. (Fresh(m)' <=> Fresh(m)) /\ (Underway(m)' <=> Underway(m)) /\ Once(m)'
  BY <1>2, <1>4, <1>5, <1>6, PlacesStay DEF Alike, Handled
<1>8. \A q \in Procs \ {p} : Attached(q, m)' /\ Flagged(q, m)' /\ Awaits(q, m)'
  BY <1>1, <1>2, <1>4, <1>5, <1>7, OthersSame
<1>9. Shaped(m)'
  BY <1>1, <1>4 DEF Shaped, BothDone
<1>10. Doomed(m)'
  BY <1>1, <1>2 DEF Doomed, Destroys, Doing, BothDone
<1>11. Newest(m)'
  BY <1>1, <1>4, <1>7 DEF Newest
<1>12. Pends(m)' <=> Pends(m)
  BY <1>1, <1>2 DEF Pends, Doing, Pending
<1>13. Raised(m)'
  BY <1>1, <1>4, <1>7, <1>12 DEF Raised
<1>14. /\ Ends(p, m)' <=> Ends(p, m)
       /\ Receives(p, m)' <=> Receives(p, m)
       /\ ~Sends(p, m) /\ ~Sends(p, m)'
  BY <1>1, <1>2 DEF Ends, Receives, Sends, Doing, Sending, Ending
<1>15. Attached(p, m)'
  BY <1>1, <1>4, <1>14 DEF Attached
<1>16. Flagged(p, m)'
  BY <1>1, <1>2, <1>4, <1>14 DEF Flagged, Destroys, Doing, BothDone
<1>17. Awaits(p, m)'
  BY <1>2 DEF Awaits, Doing, Pending
<1>18. Handled(m)'
  BY <1>7, <1>8, <1>9, <1>10, <1>11, <1>13, <1>15, <1>16, <1>17 DEF Handled
<1> QED BY <1>3, <1>18

(* The sender removes its semaphore, or the receiver raises it.             *)
LEMMA HandledNotify ==
    ASSUME NEW p \in Procs, Roles, Typed, Rings, NotifyDone(p),
           \A x \in Segments : Handled(x), NEW m, m = proc[p].seg
    PROVE  \A x \in Segments : Handled(x)'
<1>1. /\ proc[p].at = "notify" /\ Goto(p, "detach") /\ "detach" \in Labels
      /\ segment' = [segment EXCEPT ![m].senderSem = IF proc[p].sender \/ @ = -1 THEN -1 ELSE @ + 1]
      /\ UNCHANGED <<read, write, shmemId>> /\ lost' = lost
  BY DEF NotifyDone, ring, Labels
<1>2. /\ m \in Segments /\ \A q \in Procs \ {p} : proc'[q] = proc[q]
      /\ proc'[p].at = "detach" /\ proc'[p].seg = m /\ proc'[p].sender = proc[p].sender
      /\ proc'[p].destroy = proc[p].destroy
  BY <1>1, GoingMoves DEF Rings, Placed, Moves, Ending
<1>3. segment[m] \in Messages /\ segment[m].senderSem \in Nat \cup {-1}
  <2>1. segment[m] \in Messages
    BY <1>2 DEF Typed
  <2> QED BY <2>1 DEF Messages
<1>4. /\ SameHolders(m) /\ SameLife(m) /\ SameFlags(m) /\ segment'[m].sent = segment[m].sent
      /\ segment'[m].senderSem = IF proc[p].sender \/ segment[m].senderSem = -1 THEN -1
                                 ELSE segment[m].senderSem + 1
      /\ \A x \in Segments \ {m} : segment'[x] = segment[x]
  BY <1>1, <1>2, <1>3 DEF Typed, Messages, SameHolders, SameLife, SameFlags
<1>5. ASSUME NEW x \in Segments, x # m PROVE Handled(x)'
  <2>1. ~Involved(p, x) /\ ~Involved(p, x)'
    BY <1>2, <1>5 DEF Involved, Doing
  <2> QED BY <1>1, <1>2, <1>4, <1>5, <2>1, Elsewhere
<1>6. /\ Handled(m) /\ Shaped(m) /\ Doomed(m) /\ Newest(m) /\ Raised(m) /\ Once(m)
      /\ Attached(p, m) /\ Flagged(p, m)
      /\ \A q \in Procs : Awaits(q, m)
  BY <1>2 DEF Handled
<1>7. Alike(p) /\ Places(m)
  BY <1>1, <1>2, RingsKeepPlaces
<1>8. \A q \in Procs \ {p} : Attached(q, m)' /\ Flagged(q, m)'
  BY <1>1, <1>2, <1>4, <1>6, <1>7, OthersHold
<1>9. /\ Ends(p, m)' <=> Ends(p, m)
      /\ Receives(p, m)' <=> Receives(p, m)
      /\ Destroys(p, m)' <=> Destroys(p, m)
      /\ ~Sends(p, m) /\ ~Sends(p, m)' /\ ~New(p, m) /\ ~New(p, m)' /\ ~Has(p, m)'
      /\ Has(p, m) <=> ~proc[p].sender
  BY <1>1, <1>2 DEF Ends, Receives, Destroys, Sends, Doing, Sending, Ending, New, Has
<1>10. Shaped(m)'
  <2>1. segment[m].live
    <3>1. p \in segment[m].attached
      BY <1>1, <1>6 DEF Attached, Ends, Receives, Doing, Ending
    <3> QED BY <1>6, <3>1 DEF Shaped, Free
  <2> QED BY <1>4, <1>6, <2>1 DEF Shaped, BothDone, SameLife, SameFlags, SameHolders
<1>11. Doomed(m)'
  <2>1. ASSUME NEW q \in Procs, Doing(q, {"test"}, m) \/ Destroys(q, m)
        PROVE  Doing(q, {"test"}, m)' \/ Destroys(q, m)'
    <3>1. CASE q = p
      BY <1>1, <1>9, <2>1, <3>1 DEF Doing
    <3>2. CASE q # p
      BY <1>2, <2>1, <3>2 DEF Doing, Destroys
    <3> QED BY <3>1, <3>2
  <2> QED BY <1>4, <1>6, <2>1 DEF Doomed, BothDone, SameLife, SameFlags
<1>12. Pends(m)' <=> Pends(m)
  BY <1>1, <1>2 DEF Pends, Doing, Pending
<1>13. Attached(p, m)'
  BY <1>4, <1>6, <1>9 DEF Attached, SameHolders
<1>14. Flagged(p, m)'
  BY <1>1, <1>2, <1>4, <1>6, <1>9 DEF Flagged, BothDone, SameHolders, SameFlags
<1>15. Awaits(p, m)'
  BY <1>2 DEF Awaits, Doing, Pending
<1>16. CASE proc[p].sender
  <2>1. Ends(p, m) /\ segment[m].owner = p /\ segment[m].senderDone
    BY <1>1, <1>6, <1>16 DEF Ends, Doing, Ending, Attached, Flagged
  <2>2. Apiece(p, m)
    BY <1>9, <1>16 DEF Apiece
  <2>3. (Fresh(m)' <=> Fresh(m)) /\ (Underway(m)' <=> Underway(m)) /\ Once(m)'
    BY <1>2, <1>6, <1>7, <2>2, PlacesStay DEF Alike
  <2>4. \A q \in Procs \ {p} : ~Sends(q, m)
    BY <1>2, <1>6, <2>1, OneSender
  <2>5. ~Pends(m)
    BY <1>1, <2>4 DEF Pends, Sends, Doing, Sending, Pending
  <2>6. Newest(m)'
    BY <1>1, <1>4, <1>6, <2>3 DEF Newest, SameLife, SameFlags
  <2>7. Raised(m)'
    BY <1>4, <1>6, <1>12, <1>16, <2>1, <2>3, <2>5 DEF Raised, SameFlags
  <2>8. \A q \in Procs \ {p} : Awaits(q, m)'
    BY <1>2, <2>4 DEF Awaits, Sends, Doing, Sending, Pending
  <2>9. Handled(m)'
    BY <1>8, <1>10, <1>11, <1>13, <1>14, <1>15, <2>3, <2>6, <2>7, <2>8 DEF Handled
  <2> QED BY <1>5, <2>9
<1>17. CASE ~proc[p].sender
  <2>1. Has(p, m) /\ Underway(m) /\ Receives(p, m) /\ segment[m].receiverDone
    BY <1>1, <1>6, <1>9, <1>17 DEF Underway, Receives, Doing, Ending, Flagged
  <2>2. /\ \A e \in Entries, s \in Slots : ~Ringed(e, s, m)'
        /\ \A q \in Procs : ~Has(q, m)'
    <3>1. \A e \in Entries, s \in Slots : ~Ringed(e, s, m)'
      BY <1>6, <1>7, <2>1 DEF Once, Places
    <3>2. ASSUME NEW q \in Procs PROVE ~Has(q, m)'
      <4>1. CASE q = p
        BY <1>9, <4>1
      <4>2. CASE q # p
        BY <1>2, <1>6, <1>7, <2>1, <4>2 DEF Once, Alike, Apiece
      <4> QED BY <4>1, <4>2
    <3> QED BY <3>1, <3>2
  <2>3. ~Underway(m)' /\ Once(m)' /\ ~Fresh(m)'
    BY <2>2 DEF Underway, Once, Fresh, InRing, Has
  <2>4. Newest(m)'
    BY <1>4, <2>1, <2>3 DEF Newest, SameFlags
  <2>5. segment[m].sent # "async" => Pends(m) /\ segment[m].senderSem = 0
    <3>1. ASSUME segment[m].sent # "async" PROVE \E q \in Procs : Doing(q, Pending, m)
      BY <1>6, <2>1, <3>1 DEF Raised, Pends
    <3>2. ASSUME NEW q \in Procs, Doing(q, Pending, m), segment[m].sent # "async"
          PROVE  segment[m].senderSem = 0
      BY <1>6, <2>1, <3>2 DEF Awaits
    <3> QED BY <3>1, <3>2 DEF Pends
  <2>6. segment'[m].senderSem = -1 => segment[m].senderSem = -1
    BY <1>3, <1>4, <1>17
  <2>7. segment[m].senderSem = 0 => segment'[m].senderSem = 1
    BY <1>4, <1>17
  <2>8. Raised(m)'
    BY <1>4, <1>6, <1>12, <2>5, <2>6, <2>7 DEF Raised, SameLife, SameFlags
  <2>9. ASSUME NEW q \in Procs \ {p} PROVE Awaits(q, m)'
    <3>1. Awaits(q, m) /\ proc'[q] = proc[q]
      BY <1>2, <1>6
    <3>2. Doing(q, Pending, m) /\ proc[q].sync => segment[m].senderSem = 0
      BY <2>1, <3>1 DEF Awaits
    <3> QED BY <1>4, <2>1, <2>3, <2>7, <3>1, <3>2 DEF Awaits, Doing, SameFlags
  <2>10. Handled(m)'
    BY <1>8, <1>10, <1>11, <1>13, <1>14, <1>15, <2>3, <2>4, <2>8, <2>9 DEF Handled
  <2> QED BY <1>5, <2>10
<1> QED BY <1>16, <1>17

(* A message that somebody leaves, marked for removal or not.               *)
LEMMA DetachedIs ==
    ASSUME NEW p \in Procs, NEW seg \in Messages
    PROVE  /\ seg.removed /\ seg.attached \subseteq {p} => Detached(p, seg) = Free
           /\ ~(seg.removed /\ seg.attached \subseteq {p}) =>
                 Detached(p, seg) = [seg EXCEPT !.attached = @ \ {p}]
BY DEF Detached

(* A freed message is in no place, and nobody has to do with it.            *)
LEMMA FreeIsHandled ==
    ASSUME NEW m \in Segments, segment'[m] = Free,
           ~InRing(m)', \A q \in Procs : ~Has(q, m)',
           \A q \in Procs : ~Sends(q, m)' /\ ~Ends(q, m)' /\ ~Receives(q, m)'
    PROVE  Handled(m)'
<1>1. /\ ~segment'[m].live /\ ~segment'[m].removed /\ segment'[m].attached = {}
      /\ ~segment'[m].senderDone /\ ~segment'[m].receiverDone
      /\ segment'[m].owner = NONE /\ segment'[m].sent = "no" /\ segment'[m].senderSem = -1
  BY DEF Free
<1>2. ~Underway(m)' /\ ~Fresh(m)' /\ Once(m)'
  BY DEF Underway, Fresh, Once, InRing, Has
<1>3. Shaped(m)' /\ Doomed(m)' /\ Newest(m)'
  BY <1>1, <1>2 DEF Shaped, Doomed, Newest, BothDone
<1>4. Raised(m)'
  BY <1>1, <1>2 DEF Raised
<1>5. ASSUME NEW q \in Procs PROVE Attached(q, m)' /\ Flagged(q, m)' /\ Awaits(q, m)'
  <2>1. q # NONE /\ ~Sends(q, m)' /\ ~Ends(q, m)' /\ ~Receives(q, m)'
    BY LibIPCAssumption DEF Procs
  <2>2. Attached(q, m)'
    BY <1>1, <2>1 DEF Attached
  <2>3. ~Destroys(q, m)'
    BY <2>1 DEF Destroys, Ends, Receives, Doing, Ending
  <2>4. Flagged(q, m)'
    BY <1>1, <2>1, <2>3 DEF Flagged
  <2>5. Awaits(q, m)'
    BY <2>1 DEF Awaits, Sends, Doing, Sending, Pending
  <2> QED BY <2>2, <2>4, <2>5
<1> QED BY <1>2, <1>3, <1>4, <1>5 DEF Handled

(* Whoever is left of a message leaves it.                                  *)
LEMMA HandledDetach ==
    ASSUME NEW p \in Procs, Roles, Typed, Rings, DetachMessage(p),
           \A x \in Segments : Handled(x), NEW m, m = proc[p].seg
    PROVE  \A x \in Segments : Handled(x)'
<1> DEFINE y == IF proc[p].destroy THEN [segment[m] EXCEPT !.removed = TRUE] ELSE segment[m]
<1>1. /\ proc[p].at = "detach" /\ Return(p) /\ proc \in [Procs -> Calls]
      /\ segment' = [segment EXCEPT ![m] = Detached(p, y)]
      /\ UNCHANGED <<read, write, shmemId>> /\ lost' = lost
  BY DEF DetachMessage, ring, Typed
<1>2. /\ m \in Segments /\ \A q \in Procs \ {p} : proc'[q] = proc[q]
      /\ proc'[p].at = "idle"
  BY <1>1, Returning DEF Rings, Placed, Ending
<1>3. segment[m] \in Messages
  BY <1>2 DEF Typed
<1>4. /\ y \in Messages /\ y.removed = (segment[m].removed \/ proc[p].destroy)
      /\ y.attached = segment[m].attached /\ y.owner = segment[m].owner /\ y.live = segment[m].live
      /\ y.senderDone = segment[m].senderDone /\ y.receiverDone = segment[m].receiverDone
      /\ y.senderSem = segment[m].senderSem /\ y.sent = segment[m].sent
  BY <1>3 DEF Messages
<1>5. segment'[m] = Detached(p, y) /\ \A x \in Segments \ {m} : segment'[x] = segment[x]
  BY <1>1, <1>2 DEF Typed
<1> HIDE DEF y
<1>6. ASSUME NEW x \in Segments, x # m PROVE Handled(x)'
  <2>1. ~Involved(p, x) /\ ~Involved(p, x)'
    BY <1>2, <1>6 DEF Involved, Doing, Sending, Ending
  <2> QED BY <1>1, <1>2, <1>5, <1>6, <2>1, Elsewhere
<1>7. /\ Handled(m) /\ Shaped(m) /\ Doomed(m) /\ Newest(m) /\ Raised(m)
      /\ \A q \in Procs : Attached(q, m) /\ Flagged(q, m) /\ Awaits(q, m)
  BY <1>2 DEF Handled
<1>8. Alike(p) /\ Places(m)
  BY <1>1, <1>2, RingsKeepPlaces
<1>9. /\ ~Sends(p, m)' /\ ~Ends(p, m)' /\ ~Receives(p, m)' /\ ~Destroys(p, m)'
      /\ ~Sends(p, m) /\ ~New(p, m) /\ ~Has(p, m) /\ ~New(p, m)' /\ ~Has(p, m)'
      /\ Ends(p, m) \/ Receives(p, m)
      /\ proc[p].destroy => Destroys(p, m)
  BY <1>1, <1>2 DEF Ends, Receives, Destroys, Sends, Doing, Sending, Ending, New, Has
<1>10. p \in segment[m].attached /\ (y.removed => BothDone(m))
  BY <1>4, <1>7, <1>9 DEF Attached, Flagged, Shaped
<1>11. Apiece(p, m)
  BY <1>9 DEF Apiece
<1>12. /\ InRing(m)' <=> InRing(m)
       /\ Fresh(m)' <=> Fresh(m)
       /\ Underway(m)' <=> Underway(m)
       /\ Once(m)'
  BY <1>2, <1>7, <1>8, <1>11, PlacesStay DEF Alike, Handled
<1>13. CASE y.removed /\ y.attached \subseteq {p}
  <2>1. segment'[m] = Free
    BY <1>4, <1>5, <1>13, DetachedIs
  <2>2. ASSUME NEW q \in Procs, q # p PROVE ~Sends(q, m) /\ ~Ends(q, m) /\ ~Receives(q, m)
    BY <1>4, <1>7, <1>13, <2>2 DEF Attached
  <2>3. ASSUME NEW q \in Procs PROVE ~Sends(q, m)' /\ ~Ends(q, m)' /\ ~Receives(q, m)'
    <3>1. CASE q = p
      BY <1>9, <3>1
    <3>2. CASE q # p
      BY <1>2, <2>2, <3>2 DEF Sends, Ends, Receives, Doing
    <3> QED BY <3>1, <3>2
  <2>4. ~Fresh(m)
    BY <1>7, <1>10, <1>13 DEF Newest, BothDone
  <2>5. ~InRing(m)'
    BY <1>12, <2>4 DEF Fresh
  <2>6. ASSUME NEW q \in Procs PROVE ~Has(q, m)'
    <3>1. ~New(q, m)'
      BY <1>12, <2>4 DEF Fresh
    <3> QED BY <2>3, <3>1 DEF Has, Receives, Doing, Ending
  <2>7. Handled(m)'
    BY <1>2, <2>1, <2>3, <2>5, <2>6, FreeIsHandled
  <2> QED BY <1>6, <2>7
<1>14. CASE ~(y.removed /\ y.attached \subseteq {p})
  <2>1. segment'[m] = [y EXCEPT !.attached = @ \ {p}]
    BY <1>4, <1>5, <1>14, DetachedIs
  <2>2. /\ segment'[m].removed = (segment[m].removed \/ proc[p].destroy)
        /\ segment'[m].attached = segment[m].attached \ {p} /\ segment'[m].owner = segment[m].owner
        /\ segment'[m].live = segment[m].live
        /\ segment'[m].senderSem = segment[m].senderSem /\ segment'[m].sent = segment[m].sent
        /\ SameFlags(m)
    BY <1>4, <2>1 DEF Messages, SameFlags
  <2>3. BothDone(m)' <=> BothDone(m)
    BY <2>2 DEF BothDone, SameFlags
  <2>4. segment[m].live
    BY <1>7, <1>10 DEF Shaped, Free
  <2>5. Shaped(m)'
    BY <1>4, <1>10, <1>14, <2>2, <2>3, <2>4 DEF Shaped
  <2>6. Doomed(m)'
    <3>1. CASE proc[p].destroy
      BY <2>2, <3>1 DEF Doomed
    <3>2. CASE ~proc[p].destroy
      <4>1. ASSUME NEW q \in Procs, Doing(q, {"test"}, m) \/ Destroys(q, m)
            PROVE  Doing(q, {"test"}, m)' \/ Destroys(q, m)'
        <5>1. q # p
          BY <1>1, <3>2, <4>1 DEF Doing, Destroys
        <5> QED BY <1>2, <4>1, <5>1 DEF Doing, Destroys
      <4> QED BY <1>7, <2>2, <2>3, <4>1 DEF Doomed
    <3> QED BY <3>1, <3>2
  <2>7. Newest(m)'
    BY <1>1, <1>7, <1>12, <2>2 DEF Newest, SameFlags
  <2>8. Pends(m)' <=> Pends(m)
    BY <1>1, <1>2 DEF Pends, Doing, Pending
  <2>9. Raised(m)'
    BY <1>7, <1>12, <2>2, <2>8 DEF Raised, SameFlags
  <2>10. ASSUME NEW q \in Procs PROVE Attached(q, m)' /\ Flagged(q, m)' /\ Awaits(q, m)'
    <3>1. CASE q = p
      <4>1. Attached(p, m)'
        BY <1>9, <2>2 DEF Attached
      <4>2. segment[m].owner = p => segment[m].senderDone
        <5>1. Receives(p, m) => segment[m].owner # p
          <6>1. Receives(p, m) => p \in Servers
            BY <1>7 DEF Attached
          <6>2. segment[m].owner \in Clients \cup {NONE} /\ p # NONE
            BY <1>3, LibIPCAssumption DEF Messages, Procs
          <6> QED BY <6>1, <6>2 DEF Roles
        <5>2. Ends(p, m) => segment[m].senderDone
          BY <1>7 DEF Flagged
        <5> QED BY <1>9, <5>1, <5>2
      <4>3. Flagged(p, m)'
        BY <1>9, <2>2, <4>2 DEF Flagged, SameFlags
      <4>4. Awaits(p, m)'
        BY <1>2 DEF Awaits, Doing, Pending
      <4> QED BY <3>1, <4>1, <4>3, <4>4
    <3>2. CASE q # p
      <4>1. Attached(q, m) /\ Flagged(q, m) /\ Awaits(q, m) /\ proc'[q] = proc[q]
        BY <1>2, <1>7, <3>2
      <4>2. Attached(q, m)'
        BY <2>2, <3>2, <4>1 DEF Attached, Sends, Ends, Receives, Doing
      <4>3. Flagged(q, m)'
        BY <1>1, <2>2, <2>3, <3>2, <4>1 DEF Flagged, Ends, Receives, Destroys, Doing, SameFlags
      <4>4. Awaits(q, m)'
        BY <1>1, <1>12, <2>2, <4>1 DEF Awaits, Doing, SameFlags
      <4> QED BY <4>2, <4>3, <4>4
    <3> QED BY <3>1, <3>2
  <2>11. Handled(m)'
    BY <1>12, <2>5, <2>6, <2>7, <2>9, <2>10 DEF Handled
  <2> QED BY <1>6, <2>11
<1> QED BY <1>13, <1>14

(* A message is allocated: it is its sender's.                              *)
LEMMA HandledAllocate ==
    ASSUME NEW p \in Procs, Typed, NEW m \in Segments, ipcBufferAllocate(p, m),
           \A x \in Segments : Handled(x)
    PROVE  \A x \in Segments : Handled(x)'
<1>1. /\ proc[p].at = "idle" /\ p \in Clients /\ ~segment[m].live
      /\ segment' = [segment EXCEPT ![m] = [Free EXCEPT !.live = TRUE, !.owner = p,
                                           !.attached = {p}, !.senderSem = 0]]
      /\ UNCHANGED <<read, write, shmemId>> /\ proc' = proc /\ lost' = lost
  BY DEF ipcBufferAllocate, ring
<1>2. /\ segment'[m].live /\ ~segment'[m].removed /\ segment'[m].owner = p
      /\ segment'[m].attached = {p} /\ ~segment'[m].senderDone /\ ~segment'[m].receiverDone
      /\ segment'[m].senderSem = 0 /\ segment'[m].sent = "no"
      /\ \A x \in Segments \ {m} : segment'[x] = segment[x]
  BY <1>1 DEF Free, Typed
<1>3. ASSUME NEW x \in Segments, x # m PROVE Handled(x)'
  <2>1. ~Involved(p, x) /\ ~Involved(p, x)'
    BY <1>1 DEF Involved, Doing, Sending, Ending
  <2> QED BY <1>1, <1>2, <1>3, <2>1, Elsewhere
<1>4. Handled(m) /\ Newest(m) /\ Shaped(m)
  BY DEF Handled
<1>5. segment[m].attached = {}
  BY <1>1, <1>4 DEF Shaped, Free
<1>6. ASSUME NEW q \in Procs PROVE ~Sends(q, m) /\ ~Ends(q, m) /\ ~Receives(q, m)
  BY <1>4, <1>5 DEF Handled, Attached
<1>7. ASSUME NEW q \in Procs PROVE ~Sends(q, m)' /\ ~Ends(q, m)' /\ ~Receives(q, m)' /\ ~Destroys(q, m)'
  BY <1>1, <1>6 DEF Sends, Ends, Receives, Destroys, Doing, Ending
<1>8. Alike(p) /\ Places(m)
  BY <1>1, RingsKeepPlaces
<1>9. Apiece(p, m)
  BY <1>1 DEF Apiece, New, Has
<1>10. (Fresh(m)' <=> Fresh(m)) /\ (Underway(m)' <=> Underway(m)) /\ Once(m)'
  BY <1>4, <1>8, <1>9, PlacesStay DEF Alike, Handled
<1>11. ~Fresh(m)
  BY <1>1, <1>4 DEF Newest
<1>12. ~Underway(m)
  <2>1. ASSUME NEW q \in Procs PROVE ~Has(q, m)
    BY <1>6, <1>11 DEF Has, Fresh, Receives, Doing, Ending
  <2> QED BY <1>11, <2>1 DEF Underway, Fresh
<1>13. Shaped(m)' /\ Doomed(m)' /\ Newest(m)'
  BY <1>2, <1>10, <1>11 DEF Shaped, Doomed, Newest, BothDone
<1>14. Raised(m)'
  BY <1>2, <1>10, <1>12 DEF Raised
<1>15. ASSUME NEW q \in Procs PROVE Attached(q, m)' /\ Flagged(q, m)' /\ Awaits(q, m)'
  <2>1. Attached(q, m)'
    BY <1>2, <1>7 DEF Attached
  <2>2. Flagged(q, m)'
    BY <1>2, <1>7 DEF Flagged
  <2>3. Awaits(q, m)'
    BY <1>7 DEF Awaits, Sends, Doing, Sending, Pending
  <2> QED BY <2>1, <2>2, <2>3
<1>16. Handled(m)'
  BY <1>10, <1>13, <1>14, <1>15 DEF Handled
<1> QED BY <1>3, <1>16

(* A process exits: what it has not sent, or not to the end, is lost.       *)
LEMMA HandledLeave ==
    ASSUME NEW p \in Procs, Typed, _fini(p),
           NEW m \in Segments, Handled(m)
    PROVE  Handled(m)'
<1>1. /\ proc[p].at \in {"idle", "exit"} /\ Goto(p, "leaving") /\ "leaving" \in Labels
      /\ segment' = [x \in Segments |-> Detached(p, segment[x])]
      /\ lost' = lost \cup { x \in Segments : segment[x].live /\ p \in segment[x].attached }
      /\ UNCHANGED <<read, write, shmemId>>
  BY DEF _fini, ring, Labels
<1>2. /\ \A q \in Procs \ {p} : proc'[q] = proc[q]
      /\ proc'[p].at = "leaving"
  BY <1>1, GoingMoves DEF Moves
<1>3. segment[m] \in Messages /\ segment'[m] = Detached(p, segment[m])
  BY <1>1 DEF Typed
<1>4. ~Involved(p, m) /\ ~Involved(p, m)'
  BY <1>1, <1>2 DEF Involved, Doing, Sending, Ending
<1>5. /\ Shaped(m) /\ Doomed(m) /\ Newest(m) /\ Raised(m)
      /\ \A q \in Procs : Attached(q, m) /\ Flagged(q, m) /\ Awaits(q, m)
  BY DEF Handled
<1>6. CASE p \notin segment[m].attached
  <2>1. ~(segment[m].removed /\ segment[m].attached \subseteq {p})
    BY <1>5, <1>6 DEF Shaped
  <2>2. segment'[m] = [segment[m] EXCEPT !.attached = @ \ {p}]
    BY <1>3, <2>1, DetachedIs
  <2>3. segment[m].attached \ {p} = segment[m].attached
    BY <1>6
  <2>4. segment'[m] = segment[m]
    BY <1>3, <2>2, <2>3 DEF Messages
  <2> QED BY <1>1, <1>2, <1>4, <2>4, Elsewhere
<1>7. CASE p \in segment[m].attached
  <2>1. ~Receives(p, m) /\ ~Ends(p, m) /\ ~Sends(p, m) /\ ~Destroys(p, m) /\ ~Doing(p, {"test"}, m)
    BY <1>1 DEF Receives, Ends, Sends, Destroys, Doing, Ending, Sending
  <2>2. segment[m].owner = p
    BY <1>5, <1>7, <2>1 DEF Attached
  <2>3. ~segment[m].senderDone /\ ~segment[m].removed /\ segment[m].live
    BY <1>7, <2>1, <2>2, NotDone
  <2>4. segment'[m] = [segment[m] EXCEPT !.attached = @ \ {p}] /\ m \in lost'
    BY <1>1, <1>3, <1>7, <2>3, DetachedIs
  <2>5. /\ SameFlags(m) /\ SameLife(m) /\ segment'[m].owner = p
        /\ segment'[m].attached = segment[m].attached \ {p}
        /\ segment'[m].senderSem = segment[m].senderSem /\ segment'[m].sent = segment[m].sent
    BY <1>3, <2>2, <2>4 DEF Messages, SameFlags, SameLife
  <2>6. /\ ~Receives(p, m)' /\ ~Ends(p, m)' /\ ~Sends(p, m)' /\ ~Destroys(p, m)'
    BY <1>2 DEF Receives, Ends, Sends, Destroys, Doing, Ending, Sending
  <2>7. Alike(p) /\ Places(m)
    BY <1>1, <1>2, RingsKeepPlaces
  <2>8. Apiece(p, m)
    BY <1>1, <1>2 DEF Apiece, New, Has
  <2>9. (Fresh(m)' <=> Fresh(m)) /\ (Underway(m)' <=> Underway(m)) /\ Once(m)'
    BY <2>7, <2>8, PlacesStay DEF Alike, Handled
  <2>10. Shaped(m)' /\ Doomed(m)' /\ Newest(m)'
    BY <1>5, <2>3, <2>4, <2>5, <2>9 DEF Shaped, Doomed, Newest, BothDone, SameFlags, SameLife
  <2>11. Pends(m)' <=> Pends(m)
    BY <1>1, <1>2 DEF Pends, Doing, Pending
  <2>12. Raised(m)'
    BY <1>5, <2>5, <2>9, <2>11 DEF Raised, SameFlags, SameLife
  <2>13. ASSUME NEW q \in Procs PROVE Attached(q, m)' /\ Flagged(q, m)' /\ Awaits(q, m)'
    <3>1. CASE q = p
      <4>1. Attached(p, m)'
        BY <2>5, <2>6 DEF Attached
      <4>2. Flagged(p, m)'
        BY <2>4, <2>5, <2>6 DEF Flagged
      <4>3. Awaits(p, m)'
        BY <1>2 DEF Awaits, Doing, Pending
      <4> QED BY <3>1, <4>1, <4>2, <4>3
    <3>2. CASE q # p
      <4>1. Attached(q, m) /\ Flagged(q, m) /\ Awaits(q, m) /\ proc'[q] = proc[q]
        BY <1>2, <1>5, <3>2
      <4>2. Attached(q, m)'
        BY <2>2, <2>5, <3>2, <4>1 DEF Attached, Sends, Ends, Receives, Doing
      <4>3. Flagged(q, m)'
        BY <2>2, <2>5, <3>2, <4>1 DEF Flagged, Ends, Receives, Destroys, Doing, BothDone, SameFlags
      <4>4. Awaits(q, m)'
        BY <2>4, <2>5, <2>9, <4>1 DEF Awaits, Doing, SameFlags
      <4> QED BY <4>2, <4>3, <4>4
    <3> QED BY <3>1, <3>2
  <2> QED BY <2>9, <2>10, <2>12, <2>13 DEF Handled
<1> QED BY <1>6, <1>7

-----------------------------------------------------------------------------
(* A message to be processed asynchronously is for a process that is there. *)
Arrives(e) == \A s \in Slots :
    Shows(e, s) /\ segment[shmemId[e][s]].sent = "async" => Present(owner[e])
Meets(p) ==
    proc[p].at \in {"claim", "store", "publish"} /\ proc[p].seg # NONE /\ ~proc[p].sync => Present(proc[p].target)

Reached == lost \subseteq Segments /\ (\A e \in Entries : Arrives(e)) /\ (\A p \in Procs : Meets(p))

(* Who is about to raise the semaphore of a ring, or has taken it.          *)
Wakers(e)  == { p \in Clients : proc[p].at = "wake" /\ proc[p].entry = e }
Readers(e) == { p \in Servers : proc[p].at = "read" /\ proc[p].entry = e }
Enough == \A e \in Entries :
    Span(read[e], write[e]) <= semId[e] + Cardinality(Wakers(e)) + Cardinality(Readers(e))

(* Only a sender marks a message as one to be processed asynchronously.     *)
LEMMA SentIs ==
    ASSUME NEW p \in Procs, Typed, _fini(p) \/ Use(p), ~StoreMessage(p),
           NEW x \in Segments, segment'[x].sent = "async"
    PROVE  segment[x].sent = "async"
<1>0. /\ segment \in [Segments -> Messages] /\ segment[x] \in Messages /\ Free.sent = "no"
      /\ proc[p].seg \in Segments \cup {NONE}
  BY DEF Typed, Calls, Free
<1>1. CASE SleepSender(p)
  <2> DEFINE m == proc[p].seg
  <2>1. segment' = [segment EXCEPT ![m] = [segment[m] EXCEPT !.senderSem = IF @ > 0 THEN @ - 1 ELSE @]]
    BY <1>1 DEF SleepSender
  <2> HIDE DEF m
  <2> QED BY <1>0, <2>1 DEF Messages
<1>2. CASE AttachMessage(p)
  <2> DEFINE m == Fetched(p)
  <2>1. CASE segment' = [segment EXCEPT ![m] = [segment[m] EXCEPT !.attached = @ \cup {p}]]
    <3> HIDE DEF m
    <3> QED BY <1>0, <2>1 DEF Messages
  <2> QED BY <1>2, <2>1 DEF AttachMessage
<1>3. CASE NotifyDone(p)
  <2> DEFINE m == proc[p].seg
  <2>1. segment' = [segment EXCEPT ![m] = [segment[m] EXCEPT !.senderSem =
                      IF proc[p].sender \/ @ = -1 THEN -1 ELSE @ + 1]]
    BY <1>3 DEF NotifyDone
  <2> HIDE DEF m
  <2> QED BY <1>0, <2>1 DEF Messages
<1>4. ASSUME NEW seg \in Messages, Detached(p, seg).sent = "async"
      PROVE  seg.sent = "async"
  BY <1>0, <1>4, DetachedIs DEF Messages
<1>5. CASE DetachMessage(p)
  <2> DEFINE m == proc[p].seg
             y == IF proc[p].destroy THEN [segment[m] EXCEPT !.removed = TRUE] ELSE segment[m]
  <2>1. segment' = [segment EXCEPT ![m] = Detached(p, y)]
    BY <1>5 DEF DetachMessage
  <2>2. CASE x = m
    <3>1. y \in Messages /\ y.sent = segment[x].sent
      BY <1>0, <2>2 DEF Messages
    <3>2. Detached(p, y).sent = "async"
      BY <1>0, <2>1, <2>2
    <3> QED BY <1>4, <3>1, <3>2
  <2>3. CASE x # m
    BY <1>0, <2>1, <2>3
  <2> QED BY <2>2, <2>3
<1>6. CASE \E m \in Segments : ipcBufferAllocate(p, m)
  <2>1. PICK m \in Segments : ipcBufferAllocate(p, m)
    BY <1>6
  <2>2. segment' = [segment EXCEPT ![m] = [Free EXCEPT !.live = TRUE, !.owner = p,
                                         !.attached = {p}, !.senderSem = 0]]
    BY <2>1 DEF ipcBufferAllocate
  <2> QED BY <1>0, <2>2 DEF Free
<1>7. CASE ipcBufferDone(p)
  <2>1. PICK m \in Segments \cup {NONE}, sender \in BOOLEAN : Done(p, m, sender)
    BY <1>0, <1>7 DEF ipcBufferDone
  <2>2. \/ segment' = [segment EXCEPT ![m] = [segment[m] EXCEPT !.senderDone = TRUE]]
        \/ segment' = [segment EXCEPT ![m] = [segment[m] EXCEPT !.receiverDone = TRUE]]
    BY <2>1 DEF Done
  <2> QED BY <1>0, <2>2 DEF Messages
<1>8. CASE _fini(p)
  <2>1. segment'[x] = Detached(p, segment[x])
    BY <1>8 DEF _fini
  <2> QED BY <1>0, <1>4, <2>1
<1> QED BY <1>1, <1>2, <1>3, <1>5, <1>6, <1>7, <1>8 DEF Use, Claim, IPCQueueWrite, WakeReceiver,
      WaitMessage, IPCQueueRead, TestDone, ipcBufferSend, ipcBufferGet

(* Who is there goes by taking down only; who goes has no ring, and finds   *)
(* none that is free.                                                       *)
LEMMA PresentStays ==
    ASSUME NEW p \in Procs, Typed, Rings,
           _init(p) \/ InitQueues(p) \/ CountUser(p) \/ _fini(p) \/ DiscountUser(p) \/ Use(p),
           NEW t \in Servers, Present(t),
           EntriesOf(t) \cup EntriesOf(NOPROCESS) # {}
    PROVE  Present(t)'
<1>1. t \in Procs
  BY DEF Procs
<1>2. CASE t # p
  <2>1. proc'[t] = proc[t]
    BY <1>1, <1>2, ComingIs, UseMoves
  <2> QED BY <2>1 DEF Present
<1>3. CASE t = p
  <2>1. CASE Use(p)
    BY <1>3, <2>1, UseMoves DEF Present
  <2>2. CASE _fini(p)
    BY <1>1, <1>3, <2>2, GoingMoves DEF _fini, Moves, Present, Labels
  <2>3. CASE DiscountUser(p)
    BY <1>3, <2>3 DEF DiscountUser, Rings, Placed
  <2> QED BY <1>3, <2>1, <2>2, <2>3 DEF _init, InitQueues, CountUser, Present
<1> QED BY <1>2, <1>3

(* The process that sends a message is the only one, and no ring has it.    *)
LEMMA StoredIsNew ==
    ASSUME NEW p \in Procs, NEW m \in Segments, Handled(m), Doing(p, {"claim", "store"}, m)
    PROVE  segment[m].sent # "async" /\ ~Underway(m)
<1>1. Sends(p, m) /\ segment[m].owner = p
  BY DEF Handled, Attached, Sends, Doing, Sending
<1>2. ~Pends(m)
  <2>1. \A q \in Procs \ {p} : ~Sends(q, m)
    BY <1>1, OneSender
  <2> QED BY <2>1 DEF Pends, Sends, Doing, Pending, Sending
<1> QED BY <1>2 DEF Handled, Awaits, Raised

(* The rings hold what they held, or what has just been written.            *)
LEMMA ArrivesStill ==
    ASSUME NEW p \in Procs, Typed, Rings, Reached,
           _init(p) \/ InitQueues(p) \/ CountUser(p) \/ _fini(p) \/ DiscountUser(p) \/ Use(p),
           NEW e \in Entries, owner'[e] = owner[e],
           \A s \in Slots : Shows(e, s)' => Shows(e, s) /\ shmemId'[e][s] = shmemId[e][s],
           \A x \in Segments : segment'[x].sent = "async" /\ Underway(x) => segment[x].sent = "async"
    PROVE  Arrives(e)'
<1> SUFFICES ASSUME NEW s \in Slots, Shows(e, s)', segment'[shmemId'[e][s]].sent = "async"
             PROVE  Present(owner[e])'
  BY DEF Arrives
<1>1. /\ Shows(e, s) /\ shmemId'[e][s] = shmemId[e][s]
      /\ shmemId[e][s] \in Segments /\ owner[e] \in Servers
  BY DEF Rings, Filled
<1>2. Underway(shmemId[e][s])
  BY <1>1 DEF Underway, InRing, Ringed
<1>3. Present(owner[e])
  BY <1>1, <1>2 DEF Reached, Arrives
<1>4. EntriesOf(owner[e]) \cup EntriesOf(NOPROCESS) # {}
  BY DEF EntriesOf
<1> QED BY <1>1, <1>3, <1>4, PresentStays

LEMMA MeetsStill ==
    ASSUME NEW p \in Procs, Typed, Rings, Reached,
           _init(p) \/ InitQueues(p) \/ CountUser(p) \/ _fini(p) \/ DiscountUser(p) \/ Use(p),
           NEW q \in Procs, proc[q].at \in {"claim", "store", "publish"},
           proc'[q].seg = proc[q].seg, proc'[q].sync = proc[q].sync, proc'[q].target = proc[q].target
    PROVE  Meets(q)'
<1>1. /\ proc[q].target \in Servers /\ proc[q].entry \in Entries
      /\ owner[proc[q].entry] \in {NOPROCESS, proc[q].target}
  BY DEF Rings, Placed, Typed, Calls
<1>2. EntriesOf(proc[q].target) \cup EntriesOf(NOPROCESS) # {}
  BY <1>1 DEF EntriesOf
<1>3. Present(proc[q].target) => Present(proc[q].target)'
  BY <1>1, <1>2, PresentStays
<1> QED BY <1>3 DEF Reached, Meets, Present

LEMMA ReachedStays ==
    ASSUME Roles, Founded, Rings, Reached, \A m \in Segments : Handled(m), Next
    PROVE  Reached'
<1>0. PICK p \in Procs : \/ _init(p) \/ InitQueues(p) \/ CountUser(p) \/ _fini(p)
                         \/ DiscountUser(p) \/ Use(p)
  BY NextIs
<1>1. Typed /\ proc \in [Procs -> Calls] /\ \A q \in Procs : proc[q].entry \in Entries
  BY DEF Founded, Living, Typed, Calls
<1>2. \A q \in Procs \ {p} : proc'[q] = proc[q]
  BY <1>0, <1>1, ComingIs, UseMoves
<1>3. ASSUME NEW q \in Procs, q # p PROVE Meets(q)'
  <2>1. proc'[q] = proc[q]
    BY <1>2, <1>3
  <2>2. CASE proc[q].at \in {"claim", "store", "publish"}
    BY <1>0, <1>1, <2>1, <2>2, MeetsStill
  <2> QED BY <2>1, <2>2 DEF Meets
<1>4. CASE InitQueues(p)
  <2>1. /\ read' = [e \in Entries |-> 0] /\ write' = [e \in Entries |-> 0] /\ lost' = lost
        /\ Goto(p, "counting") /\ "counting" \in Labels
    BY <1>4 DEF InitQueues, Labels
  <2>2. \A e \in Entries : Arrives(e)'
    BY <2>1 DEF Arrives, Shows, Between, Slots
  <2>3. proc'[p].at = "counting"
    BY <1>1, <2>1, GoingMoves DEF Moves
  <2> QED BY <1>3, <2>1, <2>2, <2>3 DEF Reached, Meets
<1>5. CASE Claim(p)
  <2> DEFINE f == proc[p].entry
             label == IF proc[p].seg = NONE THEN "wait" ELSE "store"
  <2>1. /\ proc[p].at = "claim" /\ owner' = [owner EXCEPT ![f] = proc[p].target]
        /\ Goto(p, label) /\ label \in Labels /\ UNCHANGED <<read, write, shmemId, segment, lost>>
    BY <1>5 DEF Claim, ring, Labels
  <2>2. Moves(p, label)
    BY <1>1, <2>1, GoingMoves
  <2>3. owner[f] = NOPROCESS /\ NOPROCESS \notin Servers
    BY <2>1, LibIPCAssumption DEF Rings, Placed
  <2>4. ASSUME NEW e \in Entries PROVE Arrives(e)'
    <3>1. CASE e = f
      BY <2>1, <2>3, <3>1 DEF Rings, Filled, Arrives, Shows
    <3>2. CASE e # f
      BY <1>0, <1>1, <2>1, <3>2, ArrivesStill DEF Shows, Typed
    <3> QED BY <3>1, <3>2
  <2>5. Meets(p)'
    BY <1>0, <1>1, <2>1, <2>2, MeetsStill DEF Moves
  <2> QED BY <1>3, <2>1, <2>4, <2>5 DEF Reached
<1>6. CASE StoreMessage(p)
  <2>1. /\ proc[p].at = "store" /\ Goto(p, "publish") /\ "publish" \in Labels
        /\ UNCHANGED <<owner, read, write, lost>> /\ segment' = Undone(p, proc[p].seg)
        /\ shmemId' = [shmemId EXCEPT ![proc[p].entry][write[proc[p].entry]] = proc[p].seg]
    BY <1>6 DEF StoreMessage, Labels
  <2>2. Moves(p, "publish")
    BY <1>1, <2>1, GoingMoves
  <2>3. Meets(p)'
    BY <1>0, <1>1, <2>1, <2>2, MeetsStill DEF Moves
  <2>4. proc[p].seg \in Segments
    BY <2>1 DEF Rings, Placed
  <2>5. ~Underway(proc[p].seg)
    BY <2>1, <2>4, StoredIsNew DEF Doing
  <2>6. \A x \in Segments : x # proc[p].seg => segment'[x] = segment[x]
    BY <1>1, <2>1, <2>4 DEF Undone, Typed
  <2>7. ASSUME NEW e \in Entries, NEW s \in Slots, Shows(e, s)'
        PROVE  Shows(e, s) /\ shmemId'[e][s] = shmemId[e][s]
    <3>1. Shows(e, s)
      BY <2>1, <2>7 DEF Shows
    <3>2. ~(e = proc[p].entry /\ s = write[proc[p].entry])
      BY <1>1, <3>1, Windows DEF Shows, Typed
    <3> QED BY <1>1, <2>1, <3>1, <3>2 DEF Typed
  <2>8. ASSUME NEW e \in Entries PROVE Arrives(e)'
    BY <1>0, <1>1, <2>1, <2>5, <2>6, <2>7, ArrivesStill
  <2> QED BY <1>3, <2>1, <2>3, <2>8 DEF Reached
<1>7. CASE IPCQueueWrite(p)
  <2>1. ASSUME NEW f, f = proc[p].entry, NEW m, m = proc[p].seg, NEW w, w = write[f], NEW r, r = read[f]
        PROVE  Reached'
    <3>1. /\ Moves(p, "wake")
          /\ proc[p].at = "publish" /\ m \in Segments /\ shmemId[f][w] = m
          /\ f \in Entries /\ w \in Slots /\ r \in Slots
          /\ owner[f] = proc[p].target /\ proc[p].target \in Servers
          /\ write'[f] = Turn(w)
          /\ read'[f] = IF Turn(w) = r THEN Turn(r) ELSE r
          /\ \A g \in Entries \ {f} : read'[g] = read[g] /\ write'[g] = write[g]
          /\ lost' = lost \cup IF Turn(w) = r THEN {shmemId[f][r]} ELSE {}
          /\ UNCHANGED <<owner, shmemId, segment>>
      BY <1>1, <1>7, <2>1, WriteIs
    <3>2. Meets(p)'
      BY <3>1 DEF Moves, Meets
    <3>3. lost' \subseteq Segments
      <4>1. Turn(w) = r => Shows(f, r)
        BY <2>1, <3>1, TurnIs, Windows DEF Shows
      <4> QED BY <3>1, <4>1 DEF Reached, Rings, Filled
    <3>4. ASSUME NEW e \in Entries, e # f PROVE Arrives(e)'
      BY <1>0, <1>1, <3>1, <3>4, ArrivesStill DEF Shows
    <3>5. Arrives(f)'
      <4>1. ASSUME NEW s \in Slots, Shows(f, s)', segment'[shmemId'[f][s]].sent = "async"
            PROVE  Present(owner[f])
        <5>1. Shows(f, s) \/ s = w
          BY <2>1, <3>1, <4>1, Windows DEF Shows
        <5>2. CASE Shows(f, s)
          BY <3>1, <4>1, <5>2 DEF Reached, Arrives
        <5>3. CASE s = w
          <6>1. segment[m].sent = "async" /\ Doing(p, Pending, m)
            BY <2>1, <3>1, <4>1, <5>3 DEF Doing, Pending
          <6>2. ~proc[p].sync
            BY <3>1, <6>1 DEF Handled, Awaits
          <6>3. m # NONE
            BY <3>1, LibIPCAssumption
          <6> QED BY <2>1, <3>1, <6>2, <6>3 DEF Reached, Meets
        <5> QED BY <5>1, <5>2, <5>3
      <4>2. Present(owner[f]) => Present(owner[f])'
        BY <1>0, <1>1, <3>1, PresentStays DEF EntriesOf
      <4> QED BY <3>1, <4>1, <4>2 DEF Arrives
    <3> QED BY <1>3, <3>2, <3>3, <3>4, <3>5 DEF Reached
  <2> QED BY <2>1
<1>8. CASE IPCQueueRead(p)
  <2>1. ASSUME NEW f, f = proc[p].entry, NEW w, w = write[f], NEW r, r = read[f]
        PROVE  Reached'
    <3>1. /\ f \in Entries /\ w \in Slots /\ r \in Slots
          /\ \A g \in Entries \ {f} : read'[g] = read[g]
          /\ r = w => proc'[p] = At("idle") /\ UNCHANGED <<read, lost>>
          /\ r # w => /\ read'[f] = Turn(r) /\ proc'[p].at = "fetch"
                      /\ lost' = lost \cup IF Turn(r) = 0 THEN {shmemId[f][r]} ELSE {}
          /\ UNCHANGED <<owner, write, shmemId, segment>>
      BY <1>1, <1>8, <2>1, ReadIs
    <3>2. Meets(p)'
      BY <3>1 DEF Meets, At
    <3>3. lost' \subseteq Segments
      <4>1. r # w => Shows(f, r)
        BY <2>1, <3>1, Windows DEF Shows
      <4> QED BY <3>1, <4>1 DEF Reached, Rings, Filled
    <3>4. ASSUME NEW e \in Entries, NEW s \in Slots, Shows(e, s)' PROVE Shows(e, s)
      <4>1. CASE e = f
        BY <2>1, <3>1, <3>4, <4>1, Windows DEF Shows
      <4>2. CASE e # f
        BY <3>1, <3>4, <4>2 DEF Shows
      <4> QED BY <4>1, <4>2
    <3>5. ASSUME NEW e \in Entries PROVE Arrives(e)'
      BY <1>0, <1>1, <3>1, <3>4, ArrivesStill
    <3> QED BY <1>3, <3>2, <3>3, <3>5 DEF Reached
  <2> QED BY <2>1
<1>9. CASE /\ _init(p) \/ CountUser(p) \/ _fini(p) \/ DiscountUser(p) \/ Use(p)
           /\ ~Claim(p) /\ ~StoreMessage(p) /\ ~IPCQueueWrite(p) /\ ~IPCQueueRead(p)
  <2>1. UNCHANGED <<owner, read, write, shmemId>>
    BY <1>9 DEF _init, CountUser, _fini, DiscountUser, Use, ring, WakeReceiver, SleepSender, WaitMessage,
         AttachMessage, TestDone, NotifyDone, DetachMessage, ipcBufferAllocate, ipcBufferSend,
         ipcBufferGet, ipcBufferDone, Done
  <2>2. \A x \in Segments : segment'[x].sent = "async" => segment[x].sent = "async"
    <3>1. CASE _fini(p) \/ Use(p)
      BY <1>1, <1>9, <3>1, SentIs
    <3> QED BY <1>9, <3>1 DEF _init, CountUser, DiscountUser
  <2>3. ASSUME NEW e \in Entries PROVE Arrives(e)'
    BY <1>0, <1>1, <2>1, <2>2, ArrivesStill DEF Shows
  <2>4. lost' \subseteq Segments
    <3>1. lost' = lost \/ lost' = lost \cup { m \in Segments : segment[m].live /\ p \in segment[m].attached }
      BY <1>9 DEF _init, CountUser, _fini, DiscountUser, Use, WakeReceiver, SleepSender, WaitMessage,
           AttachMessage, TestDone, NotifyDone, DetachMessage, ipcBufferAllocate, ipcBufferSend,
           ipcBufferGet, ipcBufferDone, Done
    <3> QED BY <3>1 DEF Reached
  <2>5. Meets(p)'
    <3>1. CASE \E m \in Segments : \E target \in Servers, sync \in BOOLEAN : ipcBufferSend(p, m, target, sync)
      <4>1. PICK m \in Segments, target \in Servers, sync \in BOOLEAN : ipcBufferSend(p, m, target, sync)
        BY <3>1
      <4>2. /\ FindEntry(p, target, "store", m, sync) /\ "store" \in Labels /\ target \in Procs
            /\ ~sync => Present(target)
        BY <4>1 DEF ipcBufferSend, Labels, Procs, Roles, Present
      <4>3. \/ proc'[p] = At("exit")
            \/ proc'[p].target = target /\ proc'[p].sync = sync
        <5>1. \/ proc'[p] = At("exit")
              \/ \E e \in EntriesOf(target) : Asked(proc'[p], "store", e, target, m, sync)
              \/ \E e \in EntriesOf(NOPROCESS) : Asked(proc'[p], "claim", e, target, m, sync)
          BY <1>1, <4>1, <4>2, Finding
        <5> QED BY <5>1 DEF Asked
      <4>4. Present(target) => Present(target)'
        BY <1>2, <4>1, <4>2, <4>3, UseMoves, <1>1 DEF Present, ipcBufferSend
      <4> QED BY <4>2, <4>3, <4>4 DEF Meets, At
    <3>2. CASE \E sync \in BOOLEAN : ipcBufferGet(p, sync)
      <4>1. PICK sync \in BOOLEAN : ipcBufferGet(p, sync)
        BY <3>2
      <4>2. FindEntry(p, p, "wait", NONE, sync) /\ "wait" \in Labels
        BY <4>1 DEF ipcBufferGet, Labels
      <4>3. proc'[p] = At("exit") \/ proc'[p].seg = NONE
        <5>1. \/ proc'[p] = At("exit")
              \/ \E e \in EntriesOf(p) : Asked(proc'[p], "wait", e, p, NONE, sync)
              \/ \E e \in EntriesOf(NOPROCESS) : Asked(proc'[p], "claim", e, p, NONE, sync)
          BY <1>1, <4>1, <4>2, Finding
        <5> QED BY <5>1 DEF Asked
      <4> QED BY <4>3 DEF Meets, At
    <3>3. CASE \/ _init(p) \/ CountUser(p) \/ _fini(p) \/ DiscountUser(p)
               \/ WakeReceiver(p) \/ WaitMessage(p) \/ NotifyDone(p) \/ Return(p)
      <4>1. Return(p) \/ \E label \in Labels \ {"claim", "store", "publish"} : Goto(p, label)
        BY <3>3 DEF _init, CountUser, _fini, DiscountUser, WakeReceiver, WaitMessage, NotifyDone, Labels
      <4>2. proc'[p].at \notin {"claim", "store", "publish"}
        BY <1>1, <4>1, Going, Returning DEF Typed
      <4> QED BY <4>2 DEF Meets
    <3>4. CASE SleepSender(p) \/ AttachMessage(p) \/ DetachMessage(p)
      <4>1. Return(p) \/ proc' = [proc EXCEPT ![p] = [At("busy") EXCEPT !.seg = Fetched(p)]]
        BY <3>4 DEF SleepSender, AttachMessage, DetachMessage
      <4>2. proc'[p].at \notin {"claim", "store", "publish"}
        BY <1>1, <4>1, Returning DEF Typed, At
      <4> QED BY <4>2 DEF Meets
    <3>5. CASE TestDone(p)
      <4>1. proc'[p].at = "notify"
        BY <1>1, <3>5 DEF TestDone, Typed, Calls
      <4> QED BY <4>1 DEF Meets
    <3>6. CASE \E m \in Segments : ipcBufferAllocate(p, m)
      <4>1. proc' = proc /\ proc[p].at = "idle"
        BY <3>6 DEF ipcBufferAllocate
      <4> QED BY <4>1 DEF Meets
    <3>7. CASE ipcBufferDone(p)
      <4>1. PICK m \in Segments \cup {NONE}, sender \in BOOLEAN : Done(p, m, sender)
        BY <1>1, <3>7 DEF ipcBufferDone, Typed, Calls
      <4>2. proc'[p].at = "test"
        BY <1>1, <4>1, DoneIs
      <4> QED BY <4>2 DEF Meets
    <3> QED BY <1>9, <3>1, <3>2, <3>3, <3>4, <3>5, <3>6, <3>7 DEF Use
  <2> QED BY <1>3, <2>3, <2>4, <2>5 DEF Reached
<1> QED BY <1>0, <1>4, <1>5, <1>6, <1>7, <1>8, <1>9 DEF Use

(* Who sets the rings up finds no message in them.                          *)
LEMMA HandledInit ==
    ASSUME NEW p \in Procs, Founded, Rings, Reached, InitQueues(p), NEW m \in Segments, Handled(m)
    PROVE  Handled(m)'
<1>1. /\ read' = [e \in Entries |-> 0] /\ write' = [e \in Entries |-> 0]
      /\ proc[p].at = "creating" /\ Goto(p, "counting") /\ "counting" \in Labels
      /\ UNCHANGED <<shmemId, segment, lost>> /\ Typed
  BY DEF InitQueues, Labels, Founded, Living
<1>2. proc'[p].at = "counting" /\ \A q \in Procs \ {p} : proc'[q] = proc[q]
  BY <1>1, GoingMoves DEF Moves
<1>3. \A q \in Procs : proc[q].at \in {"out", "creating"} /\ proc'[q].at \in {"out", "counting"}
  BY <1>1, <1>2 DEF Founded
<1>4. ~Pends(m) /\ \A x \in Segments, q \in Procs : ~New(q, x) /\ ~Has(q, x) /\ ~New(q, x)' /\ ~Has(q, x)'
  BY <1>3 DEF Pends, Doing, Pending, New, Has
<1>5. ASSUME NEW e \in Entries, NEW s \in Slots, Ringed(e, s, m) PROVE FALSE
  <2>1. owner[e] \in Procs
    BY <1>5 DEF Rings, Filled, Ringed, Procs
  <2>2. segment[m].sent # "async"
    BY <1>3, <1>5, <2>1 DEF Reached, Arrives, Ringed, Present
  <2>3. Underway(m)
    BY <1>5 DEF Underway, InRing
  <2> QED BY <1>4, <2>2, <2>3 DEF Handled, Raised
<1>6. \A e \in Entries, s \in Slots : ~Ringed(e, s, m)'
  BY <1>1 DEF Ringed, Shows, Between, Slots
<1>7. Places(m)
  BY <1>5, <1>6 DEF Places
<1>8. Alike(p) /\ Apiece(p, m)
  BY <1>2, <1>4 DEF Alike, Apiece
<1>9. ~Involved(p, m) /\ ~Involved(p, m)'
  BY <1>1, <1>2 DEF Involved, Doing, Sending, Ending
<1> QED BY <1>1, <1>7, <1>8, <1>9, Untouched

(* A process that claims a ring, or looks for one, goes on.                 *)
LEMMA HandledClaim ==
    ASSUME NEW p \in Procs, Typed, Rings, Claim(p), \A x \in Segments : Handled(x), NEW m \in Segments
    PROVE  Handled(m)'
<1> DEFINE label == IF proc[p].seg = NONE THEN "wait" ELSE "store"
<1>1. /\ proc[p].at = "claim" /\ Goto(p, label) /\ label \in Labels
      /\ UNCHANGED <<read, write, shmemId, segment, lost>>
  BY DEF Claim, ring, Labels
<1>2. Moves(p, label) /\ \A q \in Procs \ {p} : proc'[q] = proc[q]
  BY <1>1, GoingMoves
<1>3. m # NONE
  BY LibIPCAssumption
<1>4. CASE proc[p].seg = m
  <2>1. Doing(p, {"claim", "store"}, m) /\ Sends(p, m)
    BY <1>1, <1>4 DEF Doing, Sends, Sending
  <2>2. segment[m].owner = p /\ p \in segment[m].attached /\ p \in Clients /\ segment[m].sent # "async"
    BY <2>1 DEF Handled, Attached, Awaits
  <2>3. proc'[p].at = "store" /\ proc'[p].seg = m
    BY <1>2, <1>3, <1>4 DEF Moves
  <2> QED BY <1>1, <1>2, <2>2, <2>3, HandledBefore
<1>5. CASE proc[p].seg # m
  <2>1. proc'[p].at \in {"wait", "store"} /\ proc'[p].seg = proc[p].seg
    BY <1>2 DEF Moves
  <2>2. ~Involved(p, m) /\ ~Involved(p, m)'
    BY <1>5, <2>1 DEF Involved, Doing
  <2> QED BY <1>1, <1>2, <2>1, <2>2, Elsewhere
<1> QED BY <1>4, <1>5

LEMMA AskedIs ==
    ASSUME NEW call, NEW label, NEW e, NEW of, NEW seg, NEW sync, Asked(call, label, e, of, seg, sync)
    PROVE  call.at = label /\ call.seg = seg
BY DEF Asked

LEMMA HandledSend ==
    ASSUME NEW p \in Procs, Roles, Typed, NEW x \in Segments, NEW target \in Servers, NEW sync \in BOOLEAN,
           ipcBufferSend(p, x, target, sync), NEW m \in Segments, Handled(m)
    PROVE  Handled(m)'
<1>1. /\ proc[p].at = "idle" /\ segment[x].owner = p /\ p \in segment[x].attached
      /\ segment[x].sent # "async" /\ FindEntry(p, target, "store", x, sync)
      /\ UNCHANGED <<read, write, shmemId, segment, lost>>
  BY DEF ipcBufferSend, ring, Roles
<1>2. p \in Clients /\ target \in Procs /\ proc \in [Procs -> Calls] /\ "store" \in Labels
  <2>1. segment[x] \in Messages /\ p # NONE
    BY LibIPCAssumption DEF Typed, Procs
  <2> QED BY <1>1, <2>1 DEF Messages, Typed, Procs, Labels
<1>3. \A q \in Procs \ {p} : proc'[q] = proc[q]
  BY <1>1, <1>2, Finding
<1>4. proc'[p].at = "exit" \/ (proc'[p].at \in {"store", "claim"} /\ proc'[p].seg = x)
  <2>1. \/ proc'[p] = At("exit")
        \/ \E e \in EntriesOf(target) : Asked(proc'[p], "store", e, target, x, sync)
        \/ \E e \in EntriesOf(NOPROCESS) : Asked(proc'[p], "claim", e, target, x, sync)
    BY <1>1, <1>2, Finding
  <2> QED BY <2>1, AskedIs DEF At
<1>5. CASE m = x /\ proc'[p].at # "exit"
  BY <1>1, <1>2, <1>3, <1>4, <1>5, HandledBefore
<1>6. CASE m # x \/ proc'[p].at = "exit"
  <2>1. ~Involved(p, m) /\ ~Involved(p, m)'
    BY <1>1, <1>4, <1>6 DEF Involved, Doing, Sending, Ending
  <2> QED BY <1>1, <1>3, <1>4, <2>1, Elsewhere
<1> QED BY <1>5, <1>6

(* A step that has nothing to do with messages.                             *)
LEMMA HandledQuiet ==
    ASSUME NEW p \in Procs, Typed, Rings,
           \/ _init(p) \/ CountUser(p) \/ DiscountUser(p)
           \/ (\E sync \in BOOLEAN : ipcBufferGet(p, sync)) \/ WaitMessage(p),
           NEW m \in Segments, Handled(m)
    PROVE  Handled(m)'
<1>1. /\ proc[p].at \in {"out", "counting", "leaving", "idle", "wait"}
      /\ UNCHANGED <<read, write, shmemId, segment, lost>> /\ proc \in [Procs -> Calls] /\ m # NONE
  BY LibIPCAssumption DEF _init, CountUser, DiscountUser, ipcBufferGet, WaitMessage, ring, Typed
<1>2. /\ \A q \in Procs \ {p} : proc'[q] = proc[q]
      /\ \/ proc'[p].at \in {"creating", "counting", "idle", "out", "read", "exit", "wait"}
         \/ proc'[p].at = "claim" /\ proc'[p].seg = NONE
  <2>1. CASE _init(p) \/ CountUser(p) \/ DiscountUser(p)
    <3>1. \E label \in {"creating", "counting", "idle", "out"} : Goto(p, label)
      BY <2>1 DEF _init, CountUser, DiscountUser
    <3> QED BY <3>1, GoingMoves DEF Moves, Labels
  <2>2. CASE WaitMessage(p)
    <3>1. Goto(p, "read") \/ Return(p)
      BY <2>2 DEF WaitMessage
    <3>2. proc \in [Procs -> Calls] /\ "read" \in Labels
      BY <1>1 DEF Labels
    <3>3. (\A q \in Procs \ {p} : proc'[q] = proc[q]) /\ proc'[p].at \in {"read", "idle"}
      BY <3>1, <3>2, Going, Returning
    <3> QED BY <3>3
  <2>3. CASE \E sync \in BOOLEAN : ipcBufferGet(p, sync)
    <3>1. PICK sync \in BOOLEAN : ipcBufferGet(p, sync)
      BY <2>3
    <3>2. /\ FindEntry(p, p, "wait", NONE, sync) /\ "wait" \in Labels /\ sync \in BOOLEAN
          /\ proc \in [Procs -> Calls]
      BY <1>1, <3>1 DEF ipcBufferGet, Labels
    <3>3. \A q \in Procs \ {p} : proc'[q] = proc[q]
      <4>1. Use(p)
        BY <2>3 DEF Use
      <4> QED BY <4>1, UseMoves
    <3>4. \/ proc'[p] = At("exit")
          \/ \E e \in EntriesOf(p) : Asked(proc'[p], "wait", e, p, NONE, sync)
          \/ \E e \in EntriesOf(NOPROCESS) : Asked(proc'[p], "claim", e, p, NONE, sync)
      BY <3>2, Finding
    <3>5. proc'[p].at \in {"exit", "wait"} \/ (proc'[p].at = "claim" /\ proc'[p].seg = NONE)
      BY <3>4, AskedIs DEF At
    <3> QED BY <3>3, <3>5
  <2> QED BY <2>1, <2>2, <2>3
<1>3. ~Involved(p, m) /\ ~Involved(p, m)'
  BY <1>1, <1>2 DEF Involved, Doing, Sending, Ending
<1> QED BY <1>1, <1>2, <1>3, Elsewhere

(* Every step leaves every message handled.                                 *)
LEMMA HandledStays ==
    ASSUME Roles, Founded, Rings, Reached, \A m \in Segments : Handled(m), Next
    PROVE  \A m \in Segments : Handled(m)'
<1>0. PICK p \in Procs : \/ _init(p) \/ InitQueues(p) \/ CountUser(p) \/ _fini(p)
                         \/ DiscountUser(p) \/ Use(p)
  BY NextIs
<1>1. Typed
  BY DEF Founded, Living
<1>2. CASE InitQueues(p) \/ _fini(p) \/ Claim(p)
  BY <1>1, <1>2, HandledInit, HandledLeave, HandledClaim
<1>3. CASE StoreMessage(p)
  BY <1>1, <1>3, HandledStore
<1>4. CASE IPCQueueWrite(p)
  BY <1>1, <1>4, HandledWrite
<1>5. CASE WakeReceiver(p)
  BY <1>1, <1>5, HandledWake
<1>6. CASE SleepSender(p)
  BY <1>1, <1>6, HandledSleep
<1>7. CASE IPCQueueRead(p)
  BY <1>1, <1>7, HandledRead
<1>8. CASE AttachMessage(p)
  BY <1>1, <1>8, HandledAttach
<1>9. CASE TestDone(p)
  BY <1>1, <1>9, HandledTest
<1>10. CASE NotifyDone(p)
  BY <1>1, <1>10, HandledNotify
<1>11. CASE DetachMessage(p)
  BY <1>1, <1>11, HandledDetach
<1>12. CASE \E m \in Segments : ipcBufferAllocate(p, m)
  BY <1>1, <1>12, HandledAllocate
<1>13. CASE \E x \in Segments : \E target \in Servers, sync \in BOOLEAN : ipcBufferSend(p, x, target, sync)
  BY <1>1, <1>13, HandledSend
<1>14. CASE ipcBufferDone(p)
  <2>1. UNCHANGED <<read, write, shmemId, lost>>
    BY <1>14 DEF ipcBufferDone, Done, ring
  <2>2. CASE \E m \in Segments : /\ proc[p].at = "idle" /\ segment[m].owner = p /\ p \in segment[m].attached
                                 /\ Done(p, m, TRUE)
    BY <1>1, <2>1, <2>2, HandledDoneBySender
  <2>3. CASE proc[p].at = "busy" /\ Done(p, proc[p].seg, FALSE)
    <3>1. proc[p].seg \in Segments
      BY <2>3 DEF Rings, Placed
    <3> QED BY <1>1, <2>1, <2>3, <3>1, HandledDoneByReceiver
  <2> QED BY <1>14, <2>2, <2>3 DEF ipcBufferDone, Roles
<1>15. CASE \/ _init(p) \/ CountUser(p) \/ DiscountUser(p)
            \/ (\E sync \in BOOLEAN : ipcBufferGet(p, sync)) \/ WaitMessage(p)
  BY <1>1, <1>15, HandledQuiet
<1> QED BY <1>0, <1>2, <1>3, <1>4, <1>5, <1>6, <1>7, <1>8, <1>9, <1>10, <1>11, <1>12, <1>13, <1>14, <1>15
      DEF Use

-----------------------------------------------------------------------------
(* The semaphore of a ring counts what is in it.                            *)
LEMMA CountsAreNumbers ==
    ASSUME NEW e
    PROVE  /\ IsFiniteSet(Wakers(e)) /\ Cardinality(Wakers(e)) \in Nat
           /\ IsFiniteSet(Readers(e)) /\ Cardinality(Readers(e)) \in Nat
           /\ IsFiniteSet(Wakers(e)') /\ Cardinality(Wakers(e)') \in Nat
           /\ IsFiniteSet(Readers(e)') /\ Cardinality(Readers(e)') \in Nat
<1>1. IsFiniteSet(Clients) /\ IsFiniteSet(Servers)
  BY LibIPCAssumption, FS_Subset
<1>2. /\ IsFiniteSet(Wakers(e)) /\ IsFiniteSet(Readers(e))
      /\ IsFiniteSet(Wakers(e)') /\ IsFiniteSet(Readers(e)')
  BY <1>1, FS_Subset DEF Wakers, Readers
<1> QED BY <1>2, FS_CardinalityType

(* A ring that a step does not touch.                                       *)
LEMMA EnoughHere ==
    ASSUME NEW p \in Procs, \A q \in Procs \ {p} : proc'[q] = proc[q], NEW e \in Entries, Enough,
           read'[e] = read[e], write'[e] = write[e], semId'[e] = semId[e],
           proc[p].entry = e => proc[p].at \notin {"wake", "read"},
           proc'[p].entry = e => proc'[p].at \notin {"wake", "read"}
    PROVE  Span(read'[e], write'[e]) <= semId'[e] + Cardinality(Wakers(e)') + Cardinality(Readers(e)')
<1>1. Wakers(e)' = Wakers(e) /\ Readers(e)' = Readers(e)
  BY DEF Wakers, Readers, Procs
<1> QED BY <1>1 DEF Enough

LEMMA EnoughStays ==
    ASSUME Founded, Rings, Enough, \A m \in Segments : Handled(m), Next
    PROVE  Enough'
<1>0. PICK p \in Procs : \/ _init(p) \/ InitQueues(p) \/ CountUser(p) \/ _fini(p)
                         \/ DiscountUser(p) \/ Use(p)
  BY NextIs
<1>1. Typed /\ proc \in [Procs -> Calls]
  BY DEF Founded, Living, Typed
<1>2. \A q \in Procs \ {p} : proc'[q] = proc[q]
  BY <1>0, <1>1, ComingIs, UseMoves
<1> SUFFICES ASSUME NEW e \in Entries
             PROVE  Span(read'[e], write'[e]) <= semId'[e] + Cardinality(Wakers(e)') + Cardinality(Readers(e)')
  BY DEF Enough
<1>3. /\ Cardinality(Wakers(e)) \in Nat /\ Cardinality(Wakers(e)') \in Nat
      /\ Cardinality(Readers(e)) \in Nat /\ Cardinality(Readers(e)') \in Nat
      /\ IsFiniteSet(Wakers(e)) /\ IsFiniteSet(Readers(e))
  BY CountsAreNumbers
<1>4. /\ semId[e] \in Nat /\ read[e] \in Slots /\ write[e] \in Slots
      /\ Span(read[e], write[e]) \in Nat
      /\ Span(read[e], write[e]) <= semId[e] + Cardinality(Wakers(e)) + Cardinality(Readers(e))
  BY <1>1, Spans DEF Typed, Enough
<1>5. CASE InitQueues(p)
  <2>1. read'[e] = 0 /\ write'[e] = 0 /\ semId'[e] = 0
    BY <1>5 DEF InitQueues
  <2> QED BY <1>3, <2>1 DEF Span
<1>6. CASE IPCQueueWrite(p)
  <2>1. ASSUME NEW f, f = proc[p].entry
        PROVE  /\ Moves(p, "wake") /\ proc[p].at = "publish" /\ proc[p].seg \in Segments /\ f \in Entries
               /\ write'[f] = Turn(write[f])
               /\ read'[f] = IF Turn(write[f]) = read[f] THEN Turn(read[f]) ELSE read[f]
               /\ \A g \in Entries \ {f} : read'[g] = read[g] /\ write'[g] = write[g]
               /\ semId' = semId
    BY <1>1, <1>6, <2>1, WriteIs
  <2>2. proc[p].at = "publish" /\ proc'[p].at = "wake" /\ proc'[p].entry = proc[p].entry /\ semId' = semId
    BY <2>1 DEF Moves
  <2>3. CASE proc[p].entry # e
    <3>1. read'[e] = read[e] /\ write'[e] = write[e]
      BY <2>1, <2>3
    <3> QED BY <1>2, <2>2, <2>3, <3>1, EnoughHere
  <2>4. CASE proc[p].entry = e
    <3>1. Sends(p, proc[p].seg) /\ proc[p].seg \in Segments
      BY <2>1, <2>2 DEF Sends, Doing, Sending
    <3>2. p \in Clients
      BY <3>1 DEF Handled, Attached
    <3>3. Wakers(e)' = Wakers(e) \cup {p} /\ p \notin Wakers(e) /\ Readers(e)' = Readers(e)
      BY <1>2, <2>2, <2>4, <3>2 DEF Wakers, Readers, Procs
    <3>4. Cardinality(Wakers(e)') = Cardinality(Wakers(e)) + 1
      BY <1>3, <3>3, OneMore
    <3>5. /\ write'[e] = Turn(write[e])
          /\ read'[e] = IF Turn(write[e]) = read[e] THEN Turn(read[e]) ELSE read[e]
      BY <2>1, <2>4
    <3>6. Span(read'[e], write'[e]) \in Nat /\ Span(read'[e], write'[e]) <= Span(read[e], write[e]) + 1
      BY <1>4, <3>5, Spans, TurnIs
    <3>7. Cardinality(Readers(e)') = Cardinality(Readers(e)) /\ semId'[e] = semId[e]
      BY <2>2, <3>3
    <3> QED BY <1>3, <1>4, <3>4, <3>6, <3>7
  <2> QED BY <2>3, <2>4
<1>7. CASE WakeReceiver(p)
  <2>1. /\ proc[p].at = "wake" /\ semId' = [semId EXCEPT ![proc[p].entry] = @ + 1] /\ Goto(p, "sleep")
        /\ UNCHANGED <<read, write>> /\ "sleep" \in Labels
    BY <1>7 DEF WakeReceiver, ring, Labels
  <2>2. proc'[p].at = "sleep" /\ proc'[p].entry = proc[p].entry
    BY <1>1, <2>1, GoingMoves DEF Moves
  <2>3. CASE proc[p].entry # e
    <3>1. semId'[e] = semId[e]
      BY <1>1, <2>1, <2>3 DEF Typed
    <3> QED BY <1>2, <2>1, <2>2, <2>3, <3>1, EnoughHere
  <2>4. CASE proc[p].entry = e
    <3>1. semId'[e] = semId[e] + 1
      BY <1>1, <2>1, <2>4 DEF Typed
    <3>2. Wakers(e)' = Wakers(e) \ {p} /\ Readers(e)' = Readers(e)
      BY <1>2, <2>1, <2>2, <2>4 DEF Wakers, Readers, Procs
    <3>3. p \in Wakers(e) => Cardinality(Wakers(e)') = Cardinality(Wakers(e)) - 1
      BY <1>3, <3>2, OneMore
    <3>4. p \notin Wakers(e) => Cardinality(Wakers(e)') = Cardinality(Wakers(e))
      <4>1. p \notin Wakers(e) => Wakers(e) \ {p} = Wakers(e)
        OBVIOUS
      <4> QED BY <3>2, <4>1
    <3>5. Cardinality(Readers(e)') = Cardinality(Readers(e)) /\ read'[e] = read[e] /\ write'[e] = write[e]
      BY <2>1, <3>2
    <3> QED BY <1>3, <1>4, <3>1, <3>3, <3>4, <3>5
  <2> QED BY <2>3, <2>4
<1>8. CASE WaitMessage(p)
  <2>1. /\ proc[p].at = "wait" /\ semId' = [semId EXCEPT ![proc[p].entry] = IF @ > 0 THEN @ - 1 ELSE @]
        /\ IF semId[proc[p].entry] > 0 THEN Goto(p, "read") ELSE Return(p)
        /\ UNCHANGED <<read, write>> /\ "read" \in Labels
    BY <1>8 DEF WaitMessage, ring, Labels
  <2>2. p \in Servers
    BY <2>1 DEF Rings, Placed
  <2>3. CASE proc[p].entry = e /\ semId[e] > 0
    <3>1. proc'[p].at = "read" /\ proc'[p].entry = e
      BY <1>1, <2>1, <2>3, GoingMoves DEF Moves
    <3>2. semId'[e] = semId[e] - 1
      BY <1>1, <2>1, <2>3 DEF Typed
    <3>3. Readers(e)' = Readers(e) \cup {p} /\ p \notin Readers(e) /\ Wakers(e)' = Wakers(e)
      BY <1>2, <2>1, <2>2, <2>3, <3>1 DEF Wakers, Readers, Procs
    <3>4. Cardinality(Readers(e)') = Cardinality(Readers(e)) + 1
      BY <1>3, <3>3, OneMore
    <3>5. Cardinality(Wakers(e)') = Cardinality(Wakers(e)) /\ read'[e] = read[e] /\ write'[e] = write[e]
      BY <2>1, <3>3
    <3> QED BY <1>3, <1>4, <3>2, <3>4, <3>5
  <2>4. CASE ~(proc[p].entry = e /\ semId[e] > 0)
    <3>1. semId'[e] = semId[e]
      BY <1>1, <1>4, <2>1, <2>4 DEF Typed
    <3>2. proc'[p].entry = e => proc'[p].at # "wake" /\ proc'[p].at # "read"
      <4>1. CASE semId[proc[p].entry] > 0
        BY <1>1, <2>1, <2>4, <4>1, GoingMoves DEF Moves
      <4>2. CASE ~(semId[proc[p].entry] > 0)
        BY <1>1, <2>1, <4>2, Returning
      <4> QED BY <4>1, <4>2
    <3> QED BY <1>2, <2>1, <3>1, <3>2, EnoughHere
  <2> QED BY <2>3, <2>4
<1>9. CASE IPCQueueRead(p)
  <2>1. ASSUME NEW f, f = proc[p].entry
        PROVE  /\ proc[p].at = "read" /\ p \in Servers
               /\ \A g \in Entries \ {f} : read'[g] = read[g]
               /\ read[f] = write[f] => proc'[p] = At("idle") /\ UNCHANGED read
               /\ read[f] # write[f] => read'[f] = Turn(read[f]) /\ proc'[p].at = "fetch"
               /\ UNCHANGED <<semId, write>>
    BY <1>1, <1>9, <2>1, ReadIs
  <2>2. proc[p].at = "read" /\ p \in Servers /\ proc'[p].at \in {"idle", "fetch"} /\ UNCHANGED <<semId, write>>
    BY <2>1 DEF At
  <2>3. CASE proc[p].entry # e
    <3>1. read'[e] = read[e]
      BY <2>1, <2>3
    <3> QED BY <1>2, <2>2, <2>3, <3>1, EnoughHere
  <2>4. CASE proc[p].entry = e
    <3>1. Readers(e)' = Readers(e) \ {p} /\ p \in Readers(e) /\ Wakers(e)' = Wakers(e)
      BY <1>2, <2>2, <2>4 DEF Wakers, Readers, Procs
    <3>2. Cardinality(Readers(e)') = Cardinality(Readers(e)) - 1
      BY <1>3, <3>1, OneMore
    <3>3. Cardinality(Wakers(e)') = Cardinality(Wakers(e)) /\ semId'[e] = semId[e] /\ write'[e] = write[e]
      BY <2>2, <3>1
    <3>4. CASE read[e] = write[e]
      <4>1. read'[e] = read[e] /\ Span(read[e], write[e]) = 0
        BY <1>4, <2>1, <2>4, <3>4, Spans
      <4> QED BY <1>3, <1>4, <3>3, <4>1
    <3>5. CASE read[e] # write[e]
      <4>1. read'[e] = Turn(read[e])
        BY <2>1, <2>4, <3>5
      <4>2. Span(read'[e], write[e]) \in Nat /\ Span(read[e], write[e]) = Span(read'[e], write[e]) + 1
        BY <1>4, <3>5, <4>1, Spans, TurnIs
      <4> QED BY <1>3, <1>4, <3>2, <3>3, <4>2
    <3> QED BY <3>4, <3>5
  <2> QED BY <2>3, <2>4
<1>10. CASE /\ _init(p) \/ CountUser(p) \/ _fini(p) \/ DiscountUser(p) \/ Use(p)
            /\ ~IPCQueueWrite(p) /\ ~WakeReceiver(p) /\ ~WaitMessage(p) /\ ~IPCQueueRead(p)
  <2>1. UNCHANGED <<semId, read, write>> /\ proc[p].at \notin {"wake", "read"}
    BY <1>10 DEF _init, CountUser, _fini, DiscountUser, Use, ring, Claim, StoreMessage, SleepSender,
         AttachMessage, TestDone, NotifyDone, DetachMessage, ipcBufferAllocate, ipcBufferSend,
         ipcBufferGet, ipcBufferDone, Done
  <2>2. proc'[p].at \notin {"wake", "read"}
    <3>1. CASE \E m \in Segments : \E target \in Servers, sync \in BOOLEAN : ipcBufferSend(p, m, target, sync)
      <4>1. PICK m \in Segments, target \in Servers, sync \in BOOLEAN : ipcBufferSend(p, m, target, sync)
        BY <3>1
      <4>2. FindEntry(p, target, "store", m, sync) /\ "store" \in Labels /\ target \in Procs
        BY <4>1 DEF ipcBufferSend, Labels, Procs
      <4> QED BY <1>1, <4>1, <4>2, Finding
    <3>2. CASE \E sync \in BOOLEAN : ipcBufferGet(p, sync)
      <4>1. PICK sync \in BOOLEAN : ipcBufferGet(p, sync)
        BY <3>2
      <4>2. FindEntry(p, p, "wait", NONE, sync) /\ "wait" \in Labels
        BY <4>1 DEF ipcBufferGet, Labels
      <4> QED BY <1>1, <4>1, <4>2, Finding
    <3>3. CASE Claim(p) \/ StoreMessage(p) \/ NotifyDone(p) \/ DetachMessage(p) \/ SleepSender(p)
      <4>1. Return(p) \/ \E label \in {"wait", "store", "publish", "detach"} : Goto(p, label)
        BY <3>3 DEF Claim, StoreMessage, NotifyDone, DetachMessage, SleepSender
      <4> QED BY <1>1, <4>1, Going, Returning DEF Labels
    <3>4. CASE AttachMessage(p)
      <4>1. Return(p) \/ proc' = [proc EXCEPT ![p] = [At("busy") EXCEPT !.seg = Fetched(p)]]
        BY <3>4 DEF AttachMessage
      <4> QED BY <1>1, <4>1, Returning DEF At
    <3>5. CASE TestDone(p)
      BY <1>1, <3>5 DEF TestDone, Calls
    <3>6. CASE \E m \in Segments : ipcBufferAllocate(p, m)
      BY <2>1, <3>6 DEF ipcBufferAllocate
    <3>7. CASE ipcBufferDone(p)
      <4>1. PICK m \in Segments \cup {NONE}, sender \in BOOLEAN : Done(p, m, sender)
        BY <1>1, <3>7 DEF ipcBufferDone, Calls
      <4> QED BY <1>1, <4>1, DoneIs
    <3>8. CASE _init(p) \/ CountUser(p) \/ _fini(p) \/ DiscountUser(p)
      <4>1. \E label \in {"creating", "counting", "idle", "leaving", "out"} : Moves(p, label)
        BY <1>1, <3>8, ComingIs
      <4> QED BY <4>1 DEF Moves
    <3> QED BY <1>10, <3>1, <3>2, <3>3, <3>4, <3>5, <3>6, <3>7, <3>8 DEF Use
  <2> QED BY <1>2, <2>1, <2>2, EnoughHere
<1> QED BY <1>0, <1>5, <1>6, <1>7, <1>8, <1>9, <1>10 DEF Use

(* A message that lives has an owner.                                       *)
Owned == \A m \in Segments : segment[m].live => segment[m].owner # NONE

LEMMA OwnedStays ==
    ASSUME Typed, Owned, Next
    PROVE  Owned'
<1>0. PICK p \in Procs : \/ _init(p) \/ InitQueues(p) \/ CountUser(p) \/ _fini(p)
                         \/ DiscountUser(p) \/ Use(p)
  BY NextIs
<1> SUFFICES ASSUME NEW x \in Segments, segment'[x].live
             PROVE  segment'[x].owner # NONE
  BY DEF Owned
<1>1. /\ segment \in [Segments -> Messages] /\ segment[x] \in Messages /\ ~Free.live
      /\ proc[p].seg \in Segments \cup {NONE}
      /\ segment[x].live => segment[x].owner # NONE
  BY DEF Typed, Calls, Free, Owned
<1>2. ASSUME NEW m \in Segments \cup {NONE}, NEW y, segment' = [segment EXCEPT ![m] = y],
             m = x => y.owner = segment[m].owner /\ y.live = segment[m].live
      PROVE  segment'[x].owner # NONE
  BY <1>1, <1>2
<1>3. CASE StoreMessage(p)
  <2> DEFINE m == proc[p].seg
             y == [segment[m] EXCEPT !.senderDone = FALSE, !.receiverDone = FALSE,
                                     !.sent = IF proc[p].sync THEN "sync" ELSE "async"]
  <2>1. segment' = [segment EXCEPT ![m] = y]
    BY <1>1, <1>3 DEF StoreMessage, Undone
  <2>2. m = x => y.owner = segment[m].owner /\ y.live = segment[m].live
    BY <1>1 DEF Messages
  <2> HIDE DEF y
  <2> QED BY <1>1, <1>2, <2>1, <2>2
<1>4. CASE SleepSender(p)
  <2> DEFINE m == proc[p].seg
             y == [segment[m] EXCEPT !.senderSem = IF @ > 0 THEN @ - 1 ELSE @]
  <2>1. segment' = [segment EXCEPT ![m] = y]
    BY <1>4 DEF SleepSender
  <2>2. m = x => y.owner = segment[m].owner /\ y.live = segment[m].live
    BY <1>1 DEF Messages
  <2> HIDE DEF y
  <2> QED BY <1>1, <1>2, <2>1, <2>2
<1>5. CASE AttachMessage(p)
  <2> DEFINE m == Fetched(p)
             y == [segment[m] EXCEPT !.attached = @ \cup {p}]
  <2>1. m \in Segments \cup {NONE}
    BY DEF Fetched, Typed, Calls
  <2>2. m = x => y.owner = segment[m].owner /\ y.live = segment[m].live
    BY <1>1 DEF Messages
  <2>3. segment' = segment \/ segment' = [segment EXCEPT ![m] = y]
    BY <1>5 DEF AttachMessage
  <2> HIDE DEF m, y
  <2> QED BY <1>1, <1>2, <2>1, <2>2, <2>3
<1>6. CASE NotifyDone(p)
  <2> DEFINE m == proc[p].seg
             y == [segment[m] EXCEPT !.senderSem = IF proc[p].sender \/ @ = -1 THEN -1 ELSE @ + 1]
  <2>1. segment' = [segment EXCEPT ![m] = y]
    BY <1>6 DEF NotifyDone
  <2>2. m = x => y.owner = segment[m].owner /\ y.live = segment[m].live
    BY <1>1 DEF Messages
  <2> HIDE DEF y
  <2> QED BY <1>1, <1>2, <2>1, <2>2
<1>7. ASSUME NEW seg \in Messages, Detached(p, seg).live
      PROVE  Detached(p, seg).owner = seg.owner /\ seg.live
  <2>1. ~(seg.removed /\ seg.attached \subseteq {p})
    BY <1>1, <1>7, DetachedIs
  <2>2. Detached(p, seg) = [seg EXCEPT !.attached = @ \ {p}]
    BY <2>1, DetachedIs
  <2> QED BY <1>7, <2>2 DEF Messages
<1>8. CASE DetachMessage(p)
  <2> DEFINE m == proc[p].seg
             y == IF proc[p].destroy THEN [segment[m] EXCEPT !.removed = TRUE] ELSE segment[m]
  <2>1. segment' = [segment EXCEPT ![m] = Detached(p, y)]
    BY <1>8 DEF DetachMessage
  <2>2. CASE x = m
    <3>1. y \in Messages /\ y.owner = segment[x].owner /\ y.live = segment[x].live
      BY <1>1, <2>2 DEF Messages
    <3>2. segment'[x] = Detached(p, y)
      BY <1>1, <2>1, <2>2
    <3> HIDE DEF y
    <3> QED BY <1>1, <1>7, <3>1, <3>2
  <2>3. CASE x # m
    BY <1>1, <2>1, <2>3
  <2> QED BY <2>2, <2>3
<1>9. CASE \E m \in Segments : ipcBufferAllocate(p, m)
  <2>1. PICK m \in Segments : ipcBufferAllocate(p, m)
    BY <1>9
  <2>2. segment' = [segment EXCEPT ![m] = [Free EXCEPT !.live = TRUE, !.owner = p,
                                         !.attached = {p}, !.senderSem = 0]]
    BY <2>1 DEF ipcBufferAllocate
  <2>3. p # NONE
    BY LibIPCAssumption DEF Procs
  <2> QED BY <1>1, <2>2, <2>3 DEF Free
<1>10. CASE ipcBufferDone(p)
  <2>1. PICK m \in Segments \cup {NONE}, sender \in BOOLEAN : Done(p, m, sender)
    BY <1>1, <1>10 DEF ipcBufferDone
  <2>2. \/ segment' = [segment EXCEPT ![m] = [segment[m] EXCEPT !.senderDone = TRUE]]
        \/ segment' = [segment EXCEPT ![m] = [segment[m] EXCEPT !.receiverDone = TRUE]]
    BY <2>1 DEF Done
  <2> QED BY <1>1, <2>2 DEF Messages
<1>11. CASE _fini(p)
  <2>1. segment'[x] = Detached(p, segment[x])
    BY <1>11 DEF _fini
  <2> QED BY <1>1, <1>7, <2>1
<1>12. CASE UNCHANGED segment
  BY <1>1, <1>12
<1> QED BY <1>0, <1>3, <1>4, <1>5, <1>6, <1>8, <1>9, <1>10, <1>11, <1>12
      DEF _init, InitQueues, CountUser, DiscountUser, Use, Claim, IPCQueueWrite, WakeReceiver,
          WaitMessage, IPCQueueRead, TestDone, ipcBufferSend, ipcBufferGet

-----------------------------------------------------------------------------
(* All of this, of every state.                                             *)
Served ==
    /\ Founded /\ Rings /\ Reached /\ Enough /\ Owned
    /\ \A m \in Segments : Handled(m)

LEMMA ServedInit ==
    ASSUME Init
    PROVE  Served
<1>1. /\ \A p \in Procs : proc[p].at = "out"
      /\ owner = [e \in Entries |-> NOPROCESS] /\ semId = [e \in Entries |-> 0]
      /\ read = [e \in Entries |-> 0] /\ write = [e \in Entries |-> 0]
      /\ segment = [m \in Segments |-> Free] /\ lost = {}
      /\ ~shared.exists /\ ~shared.ready
  BY DEF Init, At
<1>2. Founded
  BY <1>1, LifeBegins DEF Founded, Some
<1>3. \A e \in Entries, s \in Slots : ~Shows(e, s)
  BY <1>1 DEF Shows, Between, Slots
<1>4. Rings
  <2>1. Apart /\ Filled
    BY <1>1, <1>3 DEF Apart, Filled
  <2>2. \A p \in Procs : Placed(p)
    BY <1>1 DEF Placed, Ending
  <2>3. \A p, q \in Procs : Alone(p, q)
    BY <1>1 DEF Alone
  <2> QED BY <2>1, <2>2, <2>3 DEF Rings
<1>5. Reached
  BY <1>1, <1>3 DEF Reached, Arrives, Meets
<1>6. Enough
  BY <1>1, CountsAreNumbers DEF Enough, Span
<1>7. Owned
  BY <1>1 DEF Owned, Free
<1>8. ASSUME NEW m \in Segments PROVE Handled(m)
  <2>1. segment[m] = Free
    BY <1>1
  <2>2. \A p \in Procs : ~New(p, m) /\ ~Has(p, m)
    BY <1>1 DEF New, Has
  <2>3. ~InRing(m) /\ ~Fresh(m) /\ ~Underway(m)
    BY <1>3, <2>2 DEF InRing, Fresh, Underway, Ringed
  <2>4. Shaped(m) /\ Doomed(m) /\ Newest(m) /\ Raised(m)
    BY <2>1, <2>3 DEF Shaped, Doomed, Newest, Raised, Free, BothDone
  <2>5. Once(m)
    BY <1>3, <2>2 DEF Once, Ringed
  <2>6. ASSUME NEW p \in Procs PROVE Attached(p, m) /\ Flagged(p, m) /\ Awaits(p, m)
    <3>1. /\ ~Sends(p, m) /\ ~Ends(p, m) /\ ~Receives(p, m) /\ ~Destroys(p, m)
          /\ ~Doing(p, {"claim", "store"}, m) /\ ~Doing(p, Pending, m)
      BY <1>1 DEF Sends, Ends, Receives, Destroys, Doing, Sending, Ending, Pending
    <3>2. NONE \notin Procs
      BY LibIPCAssumption DEF Procs
    <3> QED BY <2>1, <3>1, <3>2 DEF Attached, Flagged, Awaits, Free
  <2> QED BY <2>4, <2>5, <2>6 DEF Handled
<1> QED BY <1>2, <1>4, <1>5, <1>6, <1>7, <1>8 DEF Served

LEMMA ServedRests ==
    ASSUME Served, UNCHANGED vars
    PROVE  Served'
<1>1. UNCHANGED <<shared, owner, semId, read, write, shmemId, segment, proc, lost>>
  BY DEF vars, ring
<1>2. Founded'
  BY <1>1, LifeRests DEF Served, Founded, Some
<1>3. Rings'
  BY <1>1 DEF Served, Rings, Apart, Filled, Shows, Placed, Alone, EntriesOf
<1>4. Reached'
  BY <1>1 DEF Served, Reached, Arrives, Meets, Shows, Present
<1>5. Enough' /\ Owned'
  BY <1>1 DEF Served, Enough, Owned, Wakers, Readers
<1>6. ASSUME NEW m \in Segments PROVE Handled(m)'
  <2>1. /\ Handled(m) /\ InRing(m)' = InRing(m)
        /\ \A p \in Procs : New(p, m)' = New(p, m) /\ Has(p, m)' = Has(p, m)
    BY <1>1 DEF Served, InRing, Ringed, Shows, New, Has, Fetched
  <2>2. (Fresh(m)' <=> Fresh(m)) /\ (Underway(m)' <=> Underway(m))
    BY <2>1 DEF Fresh, Underway
  <2>3. Shaped(m)' /\ Doomed(m)' /\ Newest(m)' /\ Raised(m)'
    BY <1>1, <2>1, <2>2 DEF Handled, Shaped, Doomed, Newest, Raised, BothDone, Pends, Doing, Destroys
  <2>4. Once(m)'
    BY <1>1, <2>1 DEF Handled, Once, Ringed, Shows
  <2>5. \A p \in Procs : Attached(p, m)' /\ Flagged(p, m)' /\ Awaits(p, m)'
    BY <1>1, <2>1, <2>2 DEF Handled, Attached, Flagged, Awaits, BothDone, Doing, Sends, Ends, Receives, Destroys
  <2> QED BY <2>3, <2>4, <2>5 DEF Handled
<1> QED BY <1>2, <1>3, <1>4, <1>5, <1>6 DEF Served

LEMMA ServedStays ==
    ASSUME Roles, Served, Next
    PROVE  Served'
<1>1. /\ Founded /\ Rings /\ Reached /\ Enough /\ Owned /\ Typed
      /\ \A m \in Segments : Handled(m)
  BY DEF Served, Founded, Living
<1>2. Founded' /\ Rings'
  BY <1>1, FoundedStays, RingsStay
<1>3. Reached' /\ Enough' /\ Owned'
  BY <1>1, ReachedStays, EnoughStays, OwnedStays
<1>4. \A m \in Segments : Handled(m)'
  BY <1>1, HandledStays
<1> QED BY <1>2, <1>3, <1>4 DEF Served

THEOREM ServiceIsSafe ==
    ASSUME Roles
    PROVE  Spec => []Served
<1>1. Init => Served
  BY ServedInit
<1>2. Served /\ [Next]_vars => Served'
  BY ServedStays, ServedRests
<1> QED BY <1>1, <1>2, PTL DEF Spec

-----------------------------------------------------------------------------
(* What it means for those who send and receive.  What a ring shows is what *)
(* is queued in it.                                                         *)
LEMMA QueuedIs ==
    ASSUME Typed, NEW e \in Entries
    PROVE  /\ Len(Queued(e)) = Span(read[e], write[e]) /\ DOMAIN Queued(e) = 1 .. Span(read[e], write[e])
           /\ \A i \in 1 .. Span(read[e], write[e]) :
                 Queued(e)[i] = shmemId[e][(read[e] + i - 1) % QUEUESIZE]
<1> DEFINE n == Span(read[e], write[e])
<1>1. n \in Nat /\ (write[e] - read[e]) % QUEUESIZE = n
  BY Spans DEF Typed
<1>2. Queued(e) = [i \in 1 .. n |-> shmemId[e][(read[e] + i - 1) % QUEUESIZE]]
  BY <1>1 DEF Queued
<1> HIDE DEF n
<1> QED BY <1>1, <1>2 DEF n

LEMMA WaitingIsInRing ==
    ASSUME Typed, NEW m
    PROVE  Waiting(m) <=> InRing(m)
<1>1. ASSUME NEW e \in Entries
      PROVE  (\E i \in DOMAIN Queued(e) : Queued(e)[i] = m) <=> \E s \in Slots : Ringed(e, s, m)
  <2>1. read[e] \in Slots /\ write[e] \in Slots
    BY DEF Typed
  <2>2. ASSUME NEW i \in DOMAIN Queued(e), Queued(e)[i] = m
        PROVE  \E s \in Slots : Ringed(e, s, m)
    <3> DEFINE s == (read[e] + i - 1) % QUEUESIZE
    <3>1. i \in 1 .. Span(read[e], write[e]) /\ shmemId[e][s] = m
      BY <2>2, QueuedIs
    <3>2. s \in Slots /\ Between(read[e], write[e], s)
      BY <2>1, <3>1, Shown
    <3> QED BY <3>1, <3>2 DEF Ringed, Shows
  <2>3. ASSUME NEW s \in Slots, Ringed(e, s, m)
        PROVE  \E i \in DOMAIN Queued(e) : Queued(e)[i] = m
    <3>1. PICK i \in 1 .. Span(read[e], write[e]) : (read[e] + i - 1) % QUEUESIZE = s
      BY <2>1, <2>3, Shown DEF Ringed, Shows
    <3>2. i \in DOMAIN Queued(e) /\ Queued(e)[i] = shmemId[e][s]
      BY <3>1, QueuedIs
    <3> QED BY <2>3, <3>2 DEF Ringed
  <2> QED BY <2>2, <2>3
<1> QED BY <1>1 DEF Waiting, InRing

(* Who has a message receives it, or is about to show it.                   *)
LEMMA WhoHas ==
    ASSUME Roles, Served, NEW m \in Segments
    PROVE  /\ \A p \in Procs : New(p, m) => BeingReceived(m) \/ (p \in Clients /\ Doing(p, {"publish"}, m))
           /\ \A p \in Procs : Has(p, m) => BeingReceived(m) \/ (p \in Clients /\ Doing(p, {"publish"}, m))
           /\ BeingReceived(m) => segment[m].live
<1>1. Rings /\ Handled(m)
  BY DEF Served
<1>2. ASSUME NEW p \in Procs, Has(p, m)
      PROVE  BeingReceived(m) \/ (p \in Clients /\ Doing(p, {"publish"}, m))
  <2>1. CASE Doing(p, {"publish"}, m)
    <3>1. Sends(p, m)
      BY <2>1 DEF Sends, Doing, Sending
    <3> QED BY <1>1, <2>1, <3>1 DEF Handled, Attached
  <2>2. CASE proc[p].at = "fetch" /\ Fetched(p) = m
    BY <1>1, <2>2 DEF Rings, Placed, BeingReceived
  <2>3. CASE Receives(p, m)
    <3>1. p \in Servers
      BY <1>1, <2>3 DEF Handled, Attached
    <3> QED BY <2>3, <3>1 DEF Receives, Doing, Ending, BeingReceived
  <2> QED BY <1>2, <2>1, <2>2, <2>3 DEF Has, New, Receives, Doing, Ending
<1>3. \A p \in Procs : New(p, m) => Has(p, m)
  BY DEF Has
<1>4. ASSUME BeingReceived(m)
      PROVE  segment[m].live
  <2>1. PICK p \in Servers : \/ proc[p].at = "fetch" /\ Fetched(p) = m
                             \/ proc[p].seg = m /\ proc[p].at \in {"busy", "test", "notify", "detach"}
    BY <1>4 DEF BeingReceived
  <2>2. p \in Procs /\ p \notin Clients
    BY <2>1 DEF Procs, Roles
  <2>3. CASE proc[p].at = "fetch" /\ Fetched(p) = m
    BY <1>1, <2>2, <2>3 DEF Fresh, New, Handled, Newest
  <2>4. CASE proc[p].seg = m /\ proc[p].at \in {"busy", "test", "notify", "detach"}
    <3>1. Receives(p, m) \/ Ends(p, m)
      BY <2>4 DEF Receives, Ends, Doing, Ending
    <3>2. p \in segment[m].attached
      BY <1>1, <2>2, <3>1 DEF Handled, Attached
    <3> QED BY <1>1, <3>2 DEF Handled, Shaped, Free
  <2> QED BY <2>1, <2>3, <2>4
<1> QED BY <1>2, <1>3, <1>4

(* A message that nobody has left lives no longer.                          *)
LEMMA FreedWhenDone ==
    ASSUME Roles, Served, NEW m \in Segments
    PROVE  /\ Waiting(m) \/ BeingReceived(m) => segment[m].live
           /\ segment[m].live => \/ Waiting(m) \/ BeingReceived(m) \/ BeingSent(m)
                                 \/ segment[m].attached # {}
                                 \/ m \in lost \/ segment[m].sent = "no"
<1>1. /\ Typed /\ Handled(m) /\ Owned
      /\ Waiting(m) <=> InRing(m)
  <2>1. Typed /\ Handled(m) /\ Owned
    BY DEF Served, Founded, Living
  <2> QED BY <2>1, WaitingIsInRing
<1>2. Waiting(m) => segment[m].live
  BY <1>1 DEF Fresh, Handled, Newest
<1>3. ASSUME segment[m].live, ~Waiting(m), ~BeingReceived(m), ~BeingSent(m), segment[m].attached = {},
             m \notin lost, segment[m].sent # "no"
      PROVE  FALSE
  <2>1. \A p \in Clients : ~Doing(p, {"publish"}, m)
    BY <1>3 DEF BeingSent, Doing
  <2>2. ~Fresh(m)
    BY <1>1, <1>3, <2>1, WhoHas DEF Fresh
  <2>3. segment[m].receiverDone
    BY <1>1, <1>3, <2>2 DEF Handled, Newest
  <2>4. segment[m].owner \in Procs
    BY <1>1, <1>3 DEF Typed, Messages, Owned, Procs
  <2>5. segment[m].senderDone
    BY <1>1, <1>3, <2>4 DEF Handled, Flagged
  <2>6. PICK p \in Procs : Doing(p, {"test"}, m) \/ Destroys(p, m)
    BY <1>1, <1>3, <2>3, <2>5 DEF Handled, Shaped, Doomed, BothDone
  <2>7. Ends(p, m) \/ Receives(p, m)
    BY <2>6 DEF Ends, Receives, Destroys, Doing, Ending
  <2>8. p \in segment[m].attached
    BY <1>1, <2>7 DEF Handled, Attached
  <2> QED BY <1>3, <2>8
<1>4. segment[m].live => \/ Waiting(m) \/ BeingReceived(m) \/ BeingSent(m)
                         \/ segment[m].attached # {}
                         \/ m \in lost \/ segment[m].sent = "no"
  BY <1>3
<1> QED BY <1>2, <1>4, WhoHas

LEMMA ServedTypes ==
    ASSUME Served
    PROVE  TypeOK
<1>1. Typed /\ LibraryLives /\ lost \subseteq Segments
  BY DEF Served, Founded, Living, Reached
<1>2. shared.users \in 0 .. Cardinality(Procs)
  <2>1. shared.users = Cardinality(Users) /\ Users \subseteq Procs /\ IsFiniteSet(Procs)
    BY <1>1, LibIPCAssumption DEF LibraryLives, Users, Counted, Procs
  <2>2. Cardinality(Users) \in Nat /\ Cardinality(Users) <= Cardinality(Procs) /\ Cardinality(Procs) \in Nat
    BY <2>1, FS_Subset, FS_CardinalityType
  <2> QED BY <2>1, <2>2
<1>3. shared \in [exists : BOOLEAN, ready : BOOLEAN, users : 0 .. Cardinality(Procs)]
  BY <1>1, <1>2 DEF Typed
<1>4. \A m \in Segments : /\ segment[m].senderSem \in Nat \cup {-1}
                          /\ segment[m].attached \subseteq Procs
                          /\ segment[m].owner \in Clients \cup {NONE}
  BY <1>1 DEF Typed, Messages
<1>5. \A p \in Procs : proc[p].at \in Labels /\ proc[p].slot \in Slots \cup {-1}
  BY <1>1 DEF Typed, Calls
<1> QED BY <1>1, <1>3, <1>4, <1>5 DEF TypeOK, Typed

(* A message lives as long as its sender or a ring or a receiver has it,    *)
(* and no longer, although each side tests the other's flag without a lock. *)
THEOREM MessagesAreFreed ==
    ASSUME Roles
    PROVE  Spec => []FreedWhenBothDone
<1>1. Served => FreedWhenBothDone
  BY ServedTypes, FreedWhenDone DEF FreedWhenBothDone
<1> QED BY <1>1, ServiceIsSafe, PTL

(* Nobody sleeps for what has happened: a semaphore counts what is in its   *)
(* ring, and a sleeping sender's message is on its way, lost, or done.      *)
THEOREM WakeUpsAreNotLost ==
    ASSUME Roles
    PROVE  Spec => []NoLostWakeup
<1>1. ASSUME Served, NEW e \in Entries
      PROVE  Len(Queued(e)) <= semId[e]
                + Cardinality({ p \in Clients : proc[p].at = "wake" /\ proc[p].entry = e })
                + Cardinality({ p \in Servers : proc[p].at = "read" /\ proc[p].entry = e })
  <2>1. Typed /\ Enough
    BY <1>1 DEF Served, Founded, Living
  <2> QED BY <1>1, <2>1, QueuedIs DEF Enough, Wakers, Readers
<1>2. ASSUME Served, NEW p \in Clients, proc[p].at = "sleep", proc[p].sync, NEW m, m = proc[p].seg
      PROVE  Waiting(m) \/ BeingReceived(m) \/ m \in lost \/ segment[m].senderSem > 0
  <2>1. Typed /\ p \in Procs /\ m \in Segments /\ Handled(m)
    BY <1>2 DEF Served, Founded, Living, Rings, Placed, Procs
  <2>2. Doing(p, Pending, m) /\ Sends(p, m) /\ segment[m].owner = p
    BY <1>2, <2>1 DEF Doing, Pending, Sends, Sending, Handled, Attached
  <2>3. CASE ~Underway(m)
    BY <1>2, <2>1, <2>2, <2>3 DEF Handled, Awaits
  <2>4. CASE InRing(m)
    BY <2>1, <2>4, WaitingIsInRing
  <2>5. CASE \E q \in Procs : Has(q, m)
    <3>1. PICK q \in Procs : Has(q, m)
      BY <2>5
    <3>2. ~Doing(q, {"publish"}, m)
      <4>1. CASE q = p
        BY <1>2, <4>1 DEF Doing
      <4>2. CASE q # p
        BY <2>1, <2>2, <4>2, OneSender DEF Sends, Doing, Sending
      <4> QED BY <4>1, <4>2
    <3> QED BY <1>2, <2>1, <3>1, <3>2, WhoHas
  <2> QED BY <2>3, <2>4, <2>5 DEF Underway
<1>3. Served => NoLostWakeup
  BY <1>1, <1>2 DEF NoLostWakeup
<1> QED BY <1>3, ServiceIsSafe, PTL

(* ipcBufferSendSync returns when the receiver has done with this use of    *)
(* the message: the flag is set, and the message waits in no ring.          *)
THEOREM SyncIsProcessed ==
    ASSUME Roles
    PROVE  Spec => SyncMeansProcessed
<1> DEFINE A == \A p \in Clients :
                  proc[p].at = "sleep" /\ proc[p].sync /\ proc'[p].at = "idle"
                      => segment[proc[p].seg].receiverDone /\ ~Waiting(proc[p].seg)
<1>1. Served /\ [Next]_vars => [A]_vars
  <2> SUFFICES ASSUME Served, [Next]_vars, NEW p \in Clients,
                      proc[p].at = "sleep", proc[p].sync, proc'[p].at = "idle"
               PROVE  segment[proc[p].seg].receiverDone /\ ~Waiting(proc[p].seg)
    OBVIOUS
  <2>1. Typed /\ Rings /\ p \in Procs /\ \A m \in Segments : Handled(m)
    BY DEF Served, Founded, Living, Procs
  <2>2. Next
    BY DEF vars
  <2>3. PICK q \in Procs : \/ _init(q) \/ InitQueues(q) \/ CountUser(q) \/ _fini(q)
                           \/ DiscountUser(q) \/ Use(q)
    BY <2>2, NextIs
  <2>4. q = p
    BY <2>1, <2>3, ComingIs, UseMoves
  <2>5. SleepSender(p)
    <3>1. Use(p)
      BY <2>3, <2>4 DEF _init, InitQueues, CountUser, _fini, DiscountUser
    <3> QED BY <3>1 DEF Use, Claim, StoreMessage, IPCQueueWrite, WakeReceiver, WaitMessage, IPCQueueRead,
          AttachMessage, TestDone, NotifyDone, DetachMessage, ipcBufferAllocate, ipcBufferSend,
          ipcBufferGet, ipcBufferDone
  <2>6. ASSUME NEW m, m = proc[p].seg
        PROVE  segment[m].receiverDone /\ ~Waiting(m)
    <3>1. m \in Segments /\ segment[m].senderSem > 0 /\ segment[m].senderSem \in Nat \cup {-1}
      BY <2>1, <2>5, <2>6 DEF SleepSender, Rings, Placed, Typed, Messages
    <3>2. Doing(p, Pending, m)
      BY <2>6 DEF Doing, Pending
    <3>3. segment[m].receiverDone /\ ~Underway(m)
      BY <2>1, <3>1, <3>2 DEF Handled, Awaits
    <3>4. ~Waiting(m)
      BY <2>1, <3>3, WaitingIsInRing DEF Underway
    <3> QED BY <3>3, <3>4
  <2> QED BY <2>6
<1> QED BY <1>1, ServiceIsSafe, PTL DEF Spec, SyncMeansProcessed

-----------------------------------------------------------------------------
(* The mailboxes.  The place behind the newest message of a ring, the       *)
(* places seen from the second message, and when a ring is full.            *)
LEMMA Ahead ==
    ASSUME NEW r \in Slots, NEW w \in Slots
    PROVE  /\ (r + (Span(r, w) + 1) - 1) % QUEUESIZE = w
           /\ \A i \in 1 .. QUEUESIZE - 1 : (Turn(r) + i - 1) % QUEUESIZE = (r + (i + 1) - 1) % QUEUESIZE
           /\ (r + 1 - 1) % QUEUESIZE = r
           /\ Span(r, w) <= QUEUESIZE - 1
           /\ Turn(w) = r <=> Span(r, w) = QUEUESIZE - 1
<1> USE LibIPCAssumption DEF Slots, Span, Turn
<1>1. (r + (Span(r, w) + 1) - 1) % QUEUESIZE = w
  OBVIOUS
<1>2. ASSUME NEW i \in 1 .. QUEUESIZE - 1
      PROVE  (Turn(r) + i - 1) % QUEUESIZE = (r + (i + 1) - 1) % QUEUESIZE
  <2>1. (r + (i + 1) - 1) % QUEUESIZE = IF r + i < QUEUESIZE THEN r + i ELSE r + i - QUEUESIZE
    OBVIOUS
  <2>2. (Turn(r) + i - 1) % QUEUESIZE = IF r + i < QUEUESIZE THEN r + i ELSE r + i - QUEUESIZE
    OBVIOUS
  <2> QED BY <2>1, <2>2
<1>3. (r + 1 - 1) % QUEUESIZE = r
  OBVIOUS
<1>4. Span(r, w) <= QUEUESIZE - 1
  OBVIOUS
<1>5. Turn(w) = r <=> Span(r, w) = QUEUESIZE - 1
  OBVIOUS
<1> QED BY <1>1, <1>2, <1>3, <1>4, <1>5

(* Sequences that have one element more at the end, one less in front, or   *)
(* both.                                                                    *)
LEMMA Appended ==
    ASSUME NEW S, NEW s \in Seq(S), NEW x \in S, NEW t \in Seq(S), Len(t) = Len(s) + 1,
           \A i \in 1 .. Len(s) : t[i] = s[i], t[Len(s) + 1] = x
    PROVE  t = Append(s, x)
<1>1. Append(s, x) \in Seq(S) /\ Len(Append(s, x)) = Len(t)
  OBVIOUS
<1>2. \A i \in 1 .. Len(t) : t[i] = Append(s, x)[i]
  OBVIOUS
<1> QED BY <1>1, <1>2, SeqEqual

LEMMA Tailed ==
    ASSUME NEW S, NEW s \in Seq(S), NEW t \in Seq(S), s # <<>>, Len(t) = Len(s) - 1,
           \A i \in 1 .. Len(t) : t[i] = s[i + 1]
    PROVE  t = Tail(s)
<1>1. Tail(s) \in Seq(S) /\ Len(Tail(s)) = Len(t)
  OBVIOUS
<1>2. \A i \in 1 .. Len(t) : t[i] = Tail(s)[i]
  OBVIOUS
<1> QED BY <1>1, <1>2, SeqEqual

LEMMA Shifted ==
    ASSUME NEW S, NEW s \in Seq(S), NEW x \in S, NEW t \in Seq(S), s # <<>>, Len(t) = Len(s),
           \A i \in 1 .. Len(s) - 1 : t[i] = s[i + 1], t[Len(s)] = x
    PROVE  t = Append(Tail(s), x)
<1>1. Tail(s) \in Seq(S) /\ Len(Tail(s)) = Len(t) - 1 /\ Len(t) \in Nat
  OBVIOUS
<1>2. \A i \in 1 .. Len(Tail(s)) : t[i] = Tail(s)[i]
  BY <1>1
<1> QED BY <1>1, <1>2, Appended

(* What a ring holds, as a sequence of the messages between its indices.    *)
Names == Segments \cup {NONE}
QueueOf(r, w, f) == [i \in 1 .. (w - r) % QUEUESIZE |-> f[(r + i - 1) % QUEUESIZE]]

LEMMA QueueOfIs ==
    ASSUME NEW r \in Slots, NEW w \in Slots, NEW f \in [Slots -> Names]
    PROVE  /\ QueueOf(r, w, f) \in Seq(Names) /\ Len(QueueOf(r, w, f)) = Span(r, w)
           /\ Span(r, w) \in Nat
           /\ \A i \in 1 .. Span(r, w) :
                 /\ QueueOf(r, w, f)[i] = f[(r + i - 1) % QUEUESIZE]
                 /\ (r + i - 1) % QUEUESIZE \in Slots
                 /\ Between(r, w, (r + i - 1) % QUEUESIZE)
<1> DEFINE n == Span(r, w)
           q == [i \in 1 .. n |-> f[(r + i - 1) % QUEUESIZE]]
<1>1. n \in Nat /\ (w - r) % QUEUESIZE = n
  BY Spans
<1>2. \A i \in 1 .. n : (r + i - 1) % QUEUESIZE \in Slots /\ Between(r, w, (r + i - 1) % QUEUESIZE)
  BY Shown
<1>3. QueueOf(r, w, f) = q
  BY <1>1 DEF QueueOf
<1>4. \A i \in 1 .. n : q[i] \in Names
  BY <1>2
<1> HIDE DEF n
<1>5. q \in Seq(Names) /\ Len(q) = n
  BY <1>1, <1>4
<1>6. \A i \in 1 .. n : q[i] = f[(r + i - 1) % QUEUESIZE]
  OBVIOUS
<1> HIDE DEF q
<1> QED BY <1>1, <1>2, <1>3, <1>5, <1>6 DEF n

LEMMA QueueSame ==
    ASSUME NEW r \in Slots, NEW w \in Slots, NEW f \in [Slots -> Names], NEW g \in [Slots -> Names],
           \A s \in Slots : Between(r, w, s) => g[s] = f[s]
    PROVE  QueueOf(r, w, g) = QueueOf(r, w, f)
<1>1. \A i \in 1 .. Span(r, w) : QueueOf(r, w, g)[i] = QueueOf(r, w, f)[i]
  BY QueueOfIs
<1> DEFINE a == QueueOf(r, w, f)
           b == QueueOf(r, w, g)
<1>2. a \in Seq(Names) /\ b \in Seq(Names) /\ Len(a) = Len(b) /\ Len(b) = Span(r, w)
  BY QueueOfIs
<1> QED BY <1>1, <1>2, SeqEqual

LEMMA QueueEmpty ==
    ASSUME NEW r \in Slots, NEW w \in Slots, NEW f \in [Slots -> Names]
    PROVE  r = w <=> QueueOf(r, w, f) = <<>>
<1> DEFINE q == QueueOf(r, w, f)
<1>1. q \in Seq(Names) /\ Len(q) = Span(r, w)
  BY QueueOfIs
<1>2. Span(r, w) = 0 <=> r = w
  BY LibIPCAssumption DEF Span, Slots
<1> HIDE DEF q
<1>3. q = <<>> <=> Len(q) = 0
  BY <1>1
<1> QED BY <1>1, <1>2, <1>3 DEF q

LEMMA QueuePut ==
    ASSUME NEW r \in Slots, NEW w \in Slots, NEW f \in [Slots -> Names], Turn(w) # r
    PROVE  /\ QueueOf(r, Turn(w), f) = Append(QueueOf(r, w, f), f[w])
           /\ Len(QueueOf(r, w, f)) < QUEUESIZE - 1
<1> DEFINE a == QueueOf(r, w, f)
           b == QueueOf(r, Turn(w), f)
           n == Span(r, w)
<1>0. Turn(w) \in Slots
  BY TurnIs
<1>1. Span(r, Turn(w)) = n + 1 /\ n \in Nat
  BY Spans
<1>2. a \in Seq(Names) /\ b \in Seq(Names) /\ Len(a) = n /\ Len(b) = n + 1
  BY <1>0, <1>1, QueueOfIs
<1>3. \A i \in 1 .. n : a[i] = f[(r + i - 1) % QUEUESIZE]
  BY QueueOfIs
<1>4. \A i \in 1 .. n + 1 : b[i] = f[(r + i - 1) % QUEUESIZE]
  <2> DEFINE v == Turn(w)
             k == Span(r, v)
  <2>1. v \in Slots /\ k = n + 1
    BY <1>0, <1>1
  <2> HIDE DEF v, k, n
  <2>2. \A i \in 1 .. k : QueueOf(r, v, f)[i] = f[(r + i - 1) % QUEUESIZE]
    BY <2>1, QueueOfIs DEF k
  <2> QED BY <2>1, <2>2 DEF v
<1>5. f[(r + (n + 1) - 1) % QUEUESIZE] = f[w]
  BY Ahead
<1>6. n < QUEUESIZE - 1 /\ f[w] \in Names
  BY <1>1, Ahead, LibIPCAssumption
<1> HIDE DEF a, b, n
<1>7. b[n + 1] = f[w] /\ \A i \in 1 .. n : b[i] = a[i]
  BY <1>1, <1>3, <1>4, <1>5
<1>8. b = Append(a, f[w])
  BY <1>2, <1>6, <1>7, Appended
<1> QED BY <1>2, <1>6, <1>8 DEF a, b

LEMMA QueuePutFull ==
    ASSUME NEW r \in Slots, NEW w \in Slots, NEW f \in [Slots -> Names], Turn(w) = r
    PROVE  /\ QueueOf(Turn(r), Turn(w), f) = Append(Tail(QueueOf(r, w, f)), f[w])
           /\ Len(QueueOf(r, w, f)) = QUEUESIZE - 1
<1> DEFINE a == QueueOf(r, w, f)
           b == QueueOf(Turn(r), Turn(w), f)
           n == Span(r, w)
<1>0. Turn(w) \in Slots /\ Turn(r) \in Slots /\ Turn(w) # w
  BY TurnIs
<1>1. Span(Turn(r), Turn(w)) = n /\ n \in Nat /\ n = QUEUESIZE - 1 /\ n > 0
  BY Spans, Ahead, LibIPCAssumption
<1>2. a \in Seq(Names) /\ b \in Seq(Names) /\ Len(a) = n /\ Len(b) = n
  BY <1>0, <1>1, QueueOfIs
<1>3. \A i \in 1 .. n : a[i] = f[(r + i - 1) % QUEUESIZE]
  BY QueueOfIs
<1>4. \A i \in 1 .. n : b[i] = f[(Turn(r) + i - 1) % QUEUESIZE]
  BY <1>0, <1>1, QueueOfIs
<1>5. \A i \in 1 .. n : (Turn(r) + i - 1) % QUEUESIZE = (r + (i + 1) - 1) % QUEUESIZE
  BY <1>1, Ahead
<1>6. f[(r + (n + 1) - 1) % QUEUESIZE] = f[w] /\ f[w] \in Names
  BY Ahead
<1> HIDE DEF a, b, n
<1>7. b[n] = f[w]
  BY <1>1, <1>4, <1>5, <1>6
<1>8. ASSUME NEW i \in 1 .. n - 1 PROVE b[i] = a[i + 1]
  BY <1>1, <1>3, <1>4, <1>5
<1>9. a # <<>>
  BY <1>1, <1>2
<1>10. b = Append(Tail(a), f[w])
  BY <1>2, <1>6, <1>7, <1>8, <1>9, Shifted
<1> QED BY <1>1, <1>2, <1>10 DEF a, b

LEMMA QueueGet ==
    ASSUME NEW r \in Slots, NEW w \in Slots, NEW f \in [Slots -> Names], r # w
    PROVE  /\ QueueOf(Turn(r), w, f) = Tail(QueueOf(r, w, f))
           /\ QueueOf(r, w, f) # <<>> /\ Head(QueueOf(r, w, f)) = f[r]
<1> DEFINE a == QueueOf(r, w, f)
           b == QueueOf(Turn(r), w, f)
           n == Span(r, w)
<1>0. Turn(r) \in Slots
  BY TurnIs
<1>1. Span(Turn(r), w) = n - 1 /\ n \in Nat /\ n > 0 /\ n <= QUEUESIZE - 1 /\ QUEUESIZE \in Nat
  <2>1. n = Span(Turn(r), w) + 1 /\ Span(Turn(r), w) \in Nat
    BY <1>0, Spans
  <2> QED BY <2>1, Ahead, LibIPCAssumption
<1>2. a \in Seq(Names) /\ b \in Seq(Names) /\ Len(a) = n /\ Len(b) = n - 1
  BY <1>0, <1>1, QueueOfIs
<1>3. \A i \in 1 .. n : a[i] = f[(r + i - 1) % QUEUESIZE]
  BY QueueOfIs
<1>4. \A i \in 1 .. n - 1 : b[i] = f[(Turn(r) + i - 1) % QUEUESIZE]
  <2> DEFINE v == Turn(r)
             k == Span(v, w)
  <2>1. v \in Slots /\ k = n - 1
    BY <1>0, <1>1
  <2> HIDE DEF v, k, n
  <2>2. \A i \in 1 .. k : QueueOf(v, w, f)[i] = f[(v + i - 1) % QUEUESIZE]
    BY <2>1, QueueOfIs DEF k
  <2> QED BY <2>1, <2>2 DEF v
<1>5. \A i \in 1 .. QUEUESIZE - 1 : (Turn(r) + i - 1) % QUEUESIZE = (r + (i + 1) - 1) % QUEUESIZE
  BY Ahead
<1>6. f[(r + 1 - 1) % QUEUESIZE] = f[r]
  BY Ahead
<1> HIDE DEF a, b, n
<1>7. a # <<>> /\ Head(a) = f[r]
  BY <1>1, <1>2, <1>3, <1>6
<1>8. ASSUME NEW i \in 1 .. n - 1 PROVE b[i] = a[i + 1]
  <2>1. i \in 1 .. QUEUESIZE - 1 /\ i + 1 \in 1 .. n
    BY <1>1
  <2>2. b[i] = f[(r + (i + 1) - 1) % QUEUESIZE]
    BY <1>4, <1>5, <2>1
  <2> QED BY <1>3, <2>1, <2>2
<1>9. b = Tail(a)
  BY <1>2, <1>7, <1>8, Tailed
<1> QED BY <1>7, <1>9 DEF a, b

-----------------------------------------------------------------------------
(* The mailbox of a process, and the message it works on.                   *)
MailOf(p) == IF EntriesOf(p) = {} THEN <<>> ELSE Queued(First(EntriesOf(p)))
GotOf(p)  == IF proc[p].at = "fetch" THEN Fetched(p)
             ELSE IF proc[p].at \in {"busy", "test", "notify", "detach"} THEN proc[p].seg
             ELSE NONE
mailOf == [p \in Servers |-> MailOf(p)]
gotOf  == [p \in Servers |-> GotOf(p)]

(* What the steps of Mailboxes are for them.                                *)
LEMMA MailStutters ==
    ASSUME \A p \in Servers : MailOf(p)' = MailOf(p) /\ GotOf(p)' = GotOf(p)
    PROVE  UNCHANGED Mail!vars
<1>1. mailOf' = mailOf /\ gotOf' = gotOf
  BY DEF mailOf, gotOf
<1>2. Mail!vars = <<mailOf, gotOf>> /\ Mail!vars' = <<mailOf', gotOf'>>
  BY DEF Mail!vars, mailOf, gotOf, MailOf, GotOf
<1> QED BY <1>1, <1>2

LEMMA MailFinishes ==
    ASSUME NEW r \in Servers, GotOf(r) # NONE, GotOf(r)' = NONE,
           \A p \in Servers \ {r} : GotOf(p)' = GotOf(p),
           \A p \in Servers : MailOf(p)' = MailOf(p)
    PROVE  Mail!Finish(r)
<1>1. gotOf[r] # NONE /\ mailOf' = mailOf
  BY DEF mailOf, gotOf
<1>2. gotOf' = [gotOf EXCEPT ![r] = NONE]
  <2>1. \A p \in Servers : GotOf(p)' = IF p = r THEN NONE ELSE GotOf(p)
    OBVIOUS
  <2> QED BY <2>1 DEF gotOf
<1> QED BY <1>1, <1>2 DEF Mail!Finish, mailOf, gotOf, MailOf, GotOf

LEMMA MailPosts ==
    ASSUME NEW r \in Servers, NEW m \in Segments,
           \/ Len(MailOf(r)) < QUEUESIZE - 1 /\ MailOf(r)' = Append(MailOf(r), m)
           \/ Len(MailOf(r)) = QUEUESIZE - 1 /\ MailOf(r)' = Append(Tail(MailOf(r)), m),
           \A p \in Servers \ {r} : MailOf(p)' = MailOf(p),
           \A p \in Servers : GotOf(p)' = GotOf(p)
    PROVE  Mail!Post(r, m) \/ Mail!PostFull(r, m)
<1>1. gotOf' = gotOf /\ mailOf[r] = MailOf(r)
  BY DEF mailOf, gotOf
<1>2. CASE Len(MailOf(r)) < QUEUESIZE - 1 /\ MailOf(r)' = Append(MailOf(r), m)
  <2>1. mailOf' = [mailOf EXCEPT ![r] = Append(@, m)]
    BY <1>2 DEF mailOf
  <2>2. Len(mailOf[r]) < QUEUESIZE - 1
    BY <1>1, <1>2
  <2>3. Mail!Post(r, m)
    BY <1>1, <2>1, <2>2 DEF Mail!Post, mailOf, gotOf, MailOf, GotOf
  <2> QED BY <2>3
<1>3. CASE Len(MailOf(r)) = QUEUESIZE - 1 /\ MailOf(r)' = Append(Tail(MailOf(r)), m)
  <2>1. mailOf' = [mailOf EXCEPT ![r] = Append(Tail(@), m)]
    BY <1>3 DEF mailOf
  <2>2. Len(mailOf[r]) = QUEUESIZE - 1
    BY <1>1, <1>3
  <2>3. Mail!PostFull(r, m)
    BY <1>1, <2>1, <2>2 DEF Mail!PostFull, mailOf, gotOf, MailOf, GotOf
  <2> QED BY <2>3
<1> QED BY <1>2, <1>3

LEMMA MailTakes ==
    ASSUME NEW r \in Servers, MailOf(r) # <<>>, GotOf(r) = NONE,
           MailOf(r)' = Tail(MailOf(r)), GotOf(r)' \in {NONE, Head(MailOf(r))},
           \A p \in Servers \ {r} : MailOf(p)' = MailOf(p) /\ GotOf(p)' = GotOf(p)
    PROVE  Mail!Take(r)
<1>1. mailOf[r] # <<>> /\ gotOf[r] = NONE
  BY DEF mailOf, gotOf
<1>2. mailOf' = [mailOf EXCEPT ![r] = Tail(@)]
  BY DEF mailOf
<1>3. gotOf' \in {gotOf, [gotOf EXCEPT ![r] = Head(mailOf[r])]}
  BY DEF mailOf, gotOf
<1> QED BY <1>1, <1>2, <1>3 DEF Mail!Take, mailOf, gotOf, MailOf, GotOf

(* The ring of a process that has one ring, before and after a step.        *)
LEMMA OneRing ==
    ASSUME NEW es \in SUBSET Entries, NEW e \in es, \A f \in es : f = e
    PROVE  es = {e} /\ First(es) = e
<1>1. es = {e}
  OBVIOUS
<1>2. First(es) \in es
  BY FirstIsOne
<1> QED BY <1>1, <1>2

LEMMA MailIs ==
    ASSUME Rings, Rings', NEW p \in Servers
    PROVE  /\ \A e \in Entries : owner[e] = p => MailOf(p) = QueueOf(read[e], write[e], shmemId[e])
           /\ (\A e \in Entries : owner[e] # p) => MailOf(p) = <<>>
           /\ \A e \in Entries : owner'[e] = p => MailOf(p)' = QueueOf(read'[e], write'[e], shmemId'[e])
           /\ (\A e \in Entries : owner'[e] # p) => MailOf(p)' = <<>>
<1>0. p # NOPROCESS
  BY LibIPCAssumption
<1>1. ASSUME NEW e \in Entries, owner[e] = p PROVE MailOf(p) = QueueOf(read[e], write[e], shmemId[e])
  <2>1. \A f \in Entries : owner[f] = p => f = e
    BY <1>0, <1>1 DEF Rings, Apart
  <2>2. EntriesOf(p) = {e} /\ First(EntriesOf(p)) = e
    <3>1. EntriesOf(p) \in SUBSET Entries /\ e \in EntriesOf(p) /\ \A f \in EntriesOf(p) : f = e
      BY <1>1, <2>1 DEF EntriesOf
    <3> QED BY <3>1, OneRing
  <2>3. MailOf(p) = Queued(e)
    BY <2>2 DEF MailOf
  <2> QED BY <2>3 DEF Queued, QueueOf
<1>2. (\A e \in Entries : owner[e] # p) => MailOf(p) = <<>>
  BY DEF MailOf, EntriesOf
<1>3. ASSUME NEW e \in Entries, owner'[e] = p PROVE MailOf(p)' = QueueOf(read'[e], write'[e], shmemId'[e])
  <2>1. \A f \in Entries : owner'[f] = p => f = e
    BY <1>0, <1>3 DEF Rings, Apart
  <2>2. EntriesOf(p)' = {e} /\ First(EntriesOf(p))' = e
    <3> DEFINE es == EntriesOf(p)'
    <3>1. es \in SUBSET Entries /\ e \in es /\ \A f \in es : f = e
      BY <1>3, <2>1 DEF EntriesOf
    <3> HIDE DEF es
    <3>2. es = {e} /\ First(es) = e
      BY <3>1, OneRing
    <3>3. First(EntriesOf(p))' = First(es)
      BY DEF First, es
    <3> QED BY <3>2, <3>3 DEF es
  <2>3. MailOf(p)' = Queued(e)'
    BY <2>2 DEF MailOf
  <2> QED BY <2>3 DEF Queued, QueueOf
<1>4. (\A e \in Entries : owner'[e] # p) => MailOf(p)' = <<>>
  BY DEF MailOf, EntriesOf
<1> QED BY <1>1, <1>2, <1>3, <1>4

(* A step that does not change what a ring shows, nor whose it is.          *)
LEMMA MailSame ==
    ASSUME Typed, Typed', Rings, Rings', NEW p \in Servers,
           \A e \in Entries : owner'[e] = p <=> owner[e] = p,
           \A e \in Entries : owner[e] = p =>
               /\ read'[e] = read[e] /\ write'[e] = write[e]
               /\ \A s \in Slots : Shows(e, s) => shmemId'[e][s] = shmemId[e][s]
    PROVE  MailOf(p)' = MailOf(p)
<1>1. CASE \A e \in Entries : owner[e] # p
  BY <1>1, MailIs
<1>2. CASE \E e \in Entries : owner[e] = p
  <2>1. PICK e \in Entries : owner[e] = p
    BY <1>2
  <2>2. /\ MailOf(p) = QueueOf(read[e], write[e], shmemId[e])
        /\ MailOf(p)' = QueueOf(read[e], write[e], shmemId'[e])
    BY <2>1, MailIs
  <2>3. /\ read[e] \in Slots /\ write[e] \in Slots
        /\ shmemId[e] \in [Slots -> Names] /\ shmemId'[e] \in [Slots -> Names]
    BY DEF Typed, Names
  <2>4. QueueOf(read[e], write[e], shmemId'[e]) = QueueOf(read[e], write[e], shmemId[e])
    BY <2>1, <2>3, QueueSame DEF Shows
  <2> QED BY <2>2, <2>4
<1> QED BY <1>1, <1>2

LEMMA MailUntouched ==
    ASSUME UNCHANGED <<owner, read, write, shmemId>>, NEW p \in Servers
    PROVE  MailOf(p)' = MailOf(p)
BY DEF MailOf, EntriesOf, Queued

(* A ring that shows nothing.                                               *)
LEMMA MailEmpty ==
    ASSUME Typed, Rings, Rings', NEW p \in Servers, NEW e \in Entries,
           \A s \in Slots : ~Shows(e, s)
    PROVE  /\ read[e] = write[e] /\ QueueOf(read[e], write[e], shmemId[e]) = <<>>
           /\ owner[e] = p => MailOf(p) = <<>>
<1>1. read[e] \in Slots /\ write[e] \in Slots /\ shmemId[e] \in [Slots -> Names]
  BY DEF Typed, Names
<1>2. read[e] = write[e]
  BY <1>1, Windows DEF Shows
<1> QED BY <1>1, <1>2, QueueEmpty, MailIs

(* A process that does not move works on what it worked on.                 *)
LEMMA GotSame ==
    ASSUME NEW q \in Procs, Typed, Typed', proc'[q] = proc[q],
           \A m \in Segments : New(q, m)' <=> New(q, m)
    PROVE  GotOf(q)' = GotOf(q)
<1>1. CASE proc[q].at # "fetch"
  BY <1>1 DEF GotOf
<1>2. CASE proc[q].at = "fetch"
  <2>1. Fetched(q) \in Names /\ Fetched(q)' \in Names
    BY DEF Fetched, Typed, Calls, Names
  <2>2. \A m \in Segments : Fetched(q)' = m <=> Fetched(q) = m
    BY <1>2 DEF New
  <2>3. Fetched(q)' = Fetched(q)
    BY <2>1, <2>2 DEF Names
  <2> QED BY <1>2, <2>3 DEF GotOf
<1> QED BY <1>1, <1>2

LEMMA GotUntouched ==
    ASSUME NEW q \in Procs, proc'[q] = proc[q], shmemId' = shmemId
    PROVE  GotOf(q)' = GotOf(q)
BY DEF GotOf, Fetched

LEMMA GotNothing ==
    ASSUME NEW q \in Procs
    PROVE  /\ proc[q].at \notin {"fetch", "busy"} \cup Ending => GotOf(q) = NONE
           /\ proc'[q].at \notin {"fetch", "busy"} \cup Ending => GotOf(q)' = NONE
           /\ proc[q].at \in {"busy"} \cup Ending => GotOf(q) = proc[q].seg
           /\ proc'[q].at \in {"busy"} \cup Ending => GotOf(q)' = proc'[q].seg
BY DEF GotOf, Ending

(* Each step of the service is one of its mailboxes, or none.               *)
Mails == Mail!Next \/ UNCHANGED Mail!vars

(* A step that leaves the rings alone, and what its process works on.       *)
LEMMA MailsRest ==
    ASSUME NEW p \in Procs, UNCHANGED <<owner, read, write, shmemId>>,
           \A q \in Procs \ {p} : proc'[q] = proc[q],
           p \in Servers => GotOf(p)' = GotOf(p)
    PROVE  Mails
<1>1. \A q \in Servers : MailOf(q)' = MailOf(q)
  BY MailUntouched
<1>2. \A q \in Servers : GotOf(q)' = GotOf(q)
  BY GotUntouched DEF Procs
<1> QED BY <1>1, <1>2, MailStutters DEF Mails

(* A process that has done with its message, or that finds it gone.         *)
LEMMA MailsEnd ==
    ASSUME NEW p \in Servers, UNCHANGED <<owner, read, write, shmemId>>,
           \A q \in Procs \ {p} : proc'[q] = proc[q],
           GotOf(p)' = NONE
    PROVE  Mails
<1>1. \A q \in Servers : MailOf(q)' = MailOf(q)
  BY MailUntouched
<1>2. \A q \in Servers \ {p} : GotOf(q)' = GotOf(q)
  BY GotUntouched DEF Procs
<1>3. CASE GotOf(p) = NONE
  BY <1>1, <1>2, <1>3, MailStutters DEF Mails
<1>4. CASE GotOf(p) # NONE
  <2>1. Mail!Finish(p)
    BY <1>1, <1>2, <1>4, MailFinishes
  <2> QED BY <2>1 DEF Mails, Mail!Next
<1> QED BY <1>3, <1>4

(* The creator finds the rings empty, and leaves them so.                   *)
LEMMA MailsInit ==
    ASSUME NEW p \in Procs, Founded, Rings, Rings', Reached, \A m \in Segments : Handled(m), InitQueues(p)
    PROVE  Mails
<1>1. /\ owner' = [e \in Entries |-> NOPROCESS] /\ shmemId' = shmemId
      /\ proc[p].at = "creating" /\ Goto(p, "counting") /\ "counting" \in Labels /\ Typed
  BY DEF InitQueues, Labels, Founded, Living
<1>2. proc'[p].at = "counting" /\ \A q \in Procs \ {p} : proc'[q] = proc[q]
  BY <1>1, GoingMoves DEF Moves
<1>3. \A q \in Procs : proc[q].at \in {"out", "creating"} /\ proc'[q].at \in {"out", "counting"}
  BY <1>1, <1>2 DEF Founded
<1>4. ASSUME NEW e \in Entries, NEW s \in Slots, Shows(e, s) PROVE FALSE
  <2> DEFINE m == shmemId[e][s]
  <2>1. owner[e] \in Procs /\ m \in Segments
    BY <1>4 DEF Rings, Filled, Procs
  <2>2. segment[m].sent # "async"
    BY <1>3, <1>4, <2>1 DEF Reached, Arrives, Present
  <2>3. Underway(m)
    BY <1>4 DEF Underway, InRing, Ringed
  <2> HIDE DEF m
  <2>4. ~Pends(m)
    BY <1>3 DEF Pends, Doing, Pending
  <2> QED BY <2>1, <2>2, <2>3, <2>4 DEF Handled, Raised
<1>5. ASSUME NEW q \in Servers PROVE MailOf(q)' = MailOf(q)
  <2>1. MailOf(q) = <<>>
    BY <1>1, <1>4, MailEmpty, MailIs
  <2>2. \A e \in Entries : owner'[e] # q
    BY <1>1, LibIPCAssumption
  <2>3. MailOf(q)' = <<>>
    BY <2>2, MailIs
  <2> QED BY <2>1, <2>3
<1>6. ASSUME NEW q \in Servers PROVE GotOf(q)' = GotOf(q)
  BY <1>3, GotNothing DEF Ending, Procs
<1> QED BY <1>5, <1>6, MailStutters DEF Mails

(* A free ring is empty.                                                    *)
LEMMA MailsClaim ==
    ASSUME NEW p \in Procs, Typed, Typed', Rings, Rings', Claim(p),
           NEW e, e = proc[p].entry, NEW t, t = proc[p].target
    PROVE  Mails
<1> DEFINE label == IF proc[p].seg = NONE THEN "wait" ELSE "store"
<1>1. /\ proc[p].at = "claim" /\ Goto(p, label) /\ label \in Labels \ ({"fetch", "busy"} \cup Ending)
      /\ owner' = [owner EXCEPT ![e] = t]
      /\ UNCHANGED <<read, write, shmemId>>
  BY DEF Claim, ring, Labels, Ending
<1>2. Moves(p, label) /\ \A q \in Procs \ {p} : proc'[q] = proc[q]
  BY <1>1, GoingMoves
<1>3. e \in Entries /\ owner[e] = NOPROCESS /\ EntriesOf(t) = {} /\ t \in Servers
  BY <1>1 DEF Rings, Placed, Typed, Calls
<1>4. owner'[e] = t /\ \A f \in Entries \ {e} : owner'[f] = owner[f]
  BY <1>1, <1>3 DEF Typed
<1>5. \A s \in Slots : ~Shows(e, s)
  BY <1>3, LibIPCAssumption DEF Rings, Filled, Procs
<1> HIDE DEF label
<1>6. MailOf(t)' = MailOf(t)
  <2>1. \A f \in Entries : owner[f] # t
    BY <1>3 DEF EntriesOf
  <2>2. MailOf(t) = <<>>
    BY <1>3, <2>1, MailIs
  <2>3. MailOf(t)' = QueueOf(read[e], write[e], shmemId[e])
    <3>1. MailOf(t)' = QueueOf(read'[e], write'[e], shmemId'[e])
      BY <1>3, <1>4, MailIs
    <3> QED BY <1>1, <3>1
  <2>4. QueueOf(read[e], write[e], shmemId[e]) = <<>>
    BY <1>3, <1>5, MailEmpty
  <2> QED BY <2>2, <2>3, <2>4
<1>7. ASSUME NEW q \in Servers \ {t} PROVE MailOf(q)' = MailOf(q)
  <2>1. \A f \in Entries : owner'[f] = q <=> owner[f] = q
    BY <1>3, <1>4, LibIPCAssumption DEF Procs
  <2> QED BY <1>1, <2>1, MailSame
<1>8. GotOf(p)' = GotOf(p)
  BY <1>1, <1>2, GotNothing DEF Ending, Moves
<1>9. \A q \in Servers : GotOf(q)' = GotOf(q)
  BY <1>1, <1>2, <1>8, GotUntouched DEF Procs
<1>10. \A q \in Servers : MailOf(q)' = MailOf(q)
  BY <1>6, <1>7
<1> QED BY <1>9, <1>10, MailStutters DEF Mails

(* The slot that a sender fills is not shown yet.                           *)
LEMMA MailsStore ==
    ASSUME NEW p \in Procs, Roles, Typed, Typed', Rings, Rings', StoreMessage(p)
    PROVE  Mails
<1> DEFINE e == proc[p].entry
           w == write[e]
<1>1. /\ proc[p].at = "store" /\ Goto(p, "publish") /\ "publish" \in Labels
      /\ shmemId' = [shmemId EXCEPT ![e][w] = proc[p].seg]
      /\ UNCHANGED <<owner, read, write>>
      /\ e \in Entries /\ w \in Slots /\ read[e] \in Slots
  BY DEF StoreMessage, Labels, Typed, Calls
<1>2. Moves(p, "publish") /\ Alike(p)
  BY <1>1, GoingMoves, StoreKeepsPlaces
<1>3. \A f \in Entries, s \in Slots : f # e \/ s # w => shmemId'[f][s] = shmemId[f][s]
  BY <1>1 DEF Typed
<1>4. ~Shows(e, w)
  BY <1>1, Windows DEF Shows
<1> HIDE DEF e, w
<1>5. \A q \in Servers : MailOf(q)' = MailOf(q)
  <2>1. ASSUME NEW q \in Servers PROVE MailOf(q)' = MailOf(q)
    <3>1. \A f \in Entries : owner[f] = q =>
             /\ read'[f] = read[f] /\ write'[f] = write[f]
             /\ \A s \in Slots : Shows(f, s) => shmemId'[f][s] = shmemId[f][s]
      BY <1>1, <1>3, <1>4
    <3> QED BY <1>1, <3>1, MailSame
  <2> QED BY <2>1
<1>6. GotOf(p)' = GotOf(p)
  BY <1>1, <1>2, GotNothing DEF Ending, Moves
<1>7. \A q \in Servers : GotOf(q)' = GotOf(q)
  BY <1>2, <1>6, GotSame DEF Alike, Apiece, Procs
<1> QED BY <1>5, <1>7, MailStutters DEF Mails

(* A message goes into the mailbox of the process it is for.                *)
LEMMA MailsWrite ==
    ASSUME NEW p \in Procs, Typed, Typed', Rings, Rings', IPCQueueWrite(p),
           NEW e, e = proc[p].entry, NEW t, t = proc[p].target, NEW m, m = proc[p].seg,
           NEW w, w = write[e], NEW r, r = read[e], NEW f, f = shmemId[e]
    PROVE  Mails
<1>1. /\ Moves(p, "wake") /\ \A q \in Procs \ {p} : proc'[q] = proc[q]
      /\ proc[p].at = "publish" /\ m \in Segments /\ shmemId[e][w] = m
      /\ e \in Entries /\ w \in Slots /\ r \in Slots
      /\ owner[e] = t /\ t \in Servers
      /\ write'[e] = Turn(w)
      /\ read'[e] = IF Turn(w) = r THEN Turn(r) ELSE r
      /\ \A g \in Entries \ {e} : read'[g] = read[g] /\ write'[g] = write[g]
      /\ UNCHANGED <<owner, shmemId>>
  BY WriteIs
<1>2. shmemId[e] \in [Slots -> Names]
  BY <1>1 DEF Typed, Names
<1>3. MailOf(t) = QueueOf(r, w, f)
  BY <1>1, MailIs
<1>4. MailOf(t)' = QueueOf(read'[e], Turn(w), f)
  <2>1. MailOf(t)' = QueueOf(read'[e], write'[e], shmemId'[e])
    BY <1>1, MailIs
  <2> QED BY <1>1, <2>1
<1>5. f \in [Slots -> Names] /\ f[w] = m
  BY <1>1, <1>2
<1>6. \/ Len(MailOf(t)) < QUEUESIZE - 1 /\ MailOf(t)' = Append(MailOf(t), m)
      \/ Len(MailOf(t)) = QUEUESIZE - 1 /\ MailOf(t)' = Append(Tail(MailOf(t)), m)
  <2>1. CASE Turn(w) # r
    <3>1. MailOf(t)' = QueueOf(r, Turn(w), f)
      BY <1>1, <1>4, <2>1
    <3>2. QueueOf(r, Turn(w), f) = Append(QueueOf(r, w, f), f[w]) /\ Len(QueueOf(r, w, f)) < QUEUESIZE - 1
      BY <1>1, <1>5, <2>1, QueuePut
    <3> QED BY <1>3, <1>5, <3>1, <3>2
  <2>2. CASE Turn(w) = r
    <3>1. MailOf(t)' = QueueOf(Turn(r), Turn(w), f)
      BY <1>1, <1>4, <2>2
    <3>2. /\ QueueOf(Turn(r), Turn(w), f) = Append(Tail(QueueOf(r, w, f)), f[w])
          /\ Len(QueueOf(r, w, f)) = QUEUESIZE - 1
      BY <1>1, <1>5, <2>2, QueuePutFull
    <3> QED BY <1>3, <1>5, <3>1, <3>2
  <2> QED BY <2>1, <2>2
<1>7. ASSUME NEW q \in Servers \ {t} PROVE MailOf(q)' = MailOf(q)
  <2>1. \A g \in Entries : owner[g] = q => read'[g] = read[g] /\ write'[g] = write[g]
    BY <1>1
  <2> QED BY <1>1, <2>1, MailSame
<1>8. GotOf(p)' = GotOf(p)
  BY <1>1, GotNothing DEF Ending, Moves
<1>9. \A q \in Servers : GotOf(q)' = GotOf(q)
  BY <1>1, <1>8, GotUntouched DEF Procs
<1>10. Mail!Post(t, m) \/ Mail!PostFull(t, m)
  BY <1>1, <1>6, <1>7, <1>9, MailPosts
<1> QED BY <1>1, <1>10 DEF Mails, Mail!Next

(* A process takes the oldest message of its mailbox, or loses it.          *)
LEMMA MailsRead ==
    ASSUME NEW p \in Procs, Typed, Typed', Rings, Rings', IPCQueueRead(p),
           NEW e, e = proc[p].entry, NEW w, w = write[e], NEW r, r = read[e], NEW f, f = shmemId[e]
    PROVE  Mails
<1>1. /\ proc[p].at = "read" /\ owner[e] = p /\ p \in Servers
      /\ e \in Entries /\ w \in Slots /\ r \in Slots
      /\ \A q \in Procs \ {p} : proc'[q] = proc[q]
      /\ \A g \in Entries \ {e} : read'[g] = read[g]
      /\ r = w => proc'[p] = At("idle") /\ UNCHANGED read
      /\ r # w =>
            /\ read'[e] = Turn(r)
            /\ proc'[p].at = "fetch" /\ proc'[p].entry = e /\ proc'[p].slot = Turn(r) - 1
      /\ UNCHANGED <<owner, write, shmemId>>
  BY ReadIs
<1>2. shmemId[e] \in [Slots -> Names]
  BY <1>1 DEF Typed, Names
<1>3. GotOf(p) = NONE
  BY <1>1, GotNothing DEF Ending
<1>4. CASE r = w
  <2>1. proc'[p].at = "idle"
    BY <1>1, <1>4 DEF At
  <2>2. GotOf(p)' = NONE
    BY <2>1, GotNothing DEF Ending
  <2> QED BY <1>1, <1>4, <2>2, MailsEnd
<1>5. CASE r # w
  <2>1. f \in [Slots -> Names]
    BY <1>2
  <2>2. MailOf(p) = QueueOf(r, w, f)
    BY <1>1, MailIs
  <2>3. MailOf(p)' = QueueOf(Turn(r), w, f)
    <3>1. MailOf(p)' = QueueOf(read'[e], write'[e], shmemId'[e])
      BY <1>1, MailIs
    <3> QED BY <1>1, <1>5, <3>1
  <2>4. MailOf(p) # <<>> /\ MailOf(p)' = Tail(MailOf(p)) /\ Head(MailOf(p)) = f[r]
    BY <1>1, <1>5, <2>1, <2>2, <2>3, QueueGet
  <2>5. GotOf(p)' \in {NONE, f[r]}
    <3>1. GotOf(p)' = Fetched(p)'
      BY <1>1, <1>5 DEF GotOf
    <3>2. Turn(r) - 1 = -1 \/ Turn(r) - 1 = r
      BY <1>1 DEF Turn, Slots
    <3>3. Fetched(p)' = IF Turn(r) - 1 = -1 THEN NONE ELSE shmemId[e][Turn(r) - 1]
      BY <1>1, <1>5 DEF Fetched
    <3> QED BY <3>1, <3>2, <3>3
  <2>6. \A q \in Servers \ {p} : MailOf(q)' = MailOf(q)
    <3>1. ASSUME NEW q \in Servers \ {p} PROVE MailOf(q)' = MailOf(q)
      <4>1. \A g \in Entries : owner[g] = q => read'[g] = read[g]
        BY <1>1
      <4> QED BY <1>1, <4>1, MailSame
    <3> QED BY <3>1
  <2>7. \A q \in Servers \ {p} : GotOf(q)' = GotOf(q)
    BY <1>1, GotUntouched DEF Procs
  <2>8. Mail!Take(p)
    BY <1>1, <1>3, <2>4, <2>5, <2>6, <2>7, MailTakes
  <2> QED BY <1>1, <2>8 DEF Mails, Mail!Next
<1> QED BY <1>4, <1>5

(* The message that was fetched is attached, or gone.                       *)
LEMMA MailsAttach ==
    ASSUME NEW p \in Procs, Typed, Rings, AttachMessage(p)
    PROVE  Mails
<1> DEFINE m == Fetched(p)
           busy == [At("busy") EXCEPT !.seg = m]
<1>1. /\ proc[p].at = "fetch" /\ p \in Servers /\ UNCHANGED <<owner, read, write, shmemId>>
      /\ proc' = [proc EXCEPT ![p] = busy] \/ Return(p)
      /\ proc \in [Procs -> Calls]
  BY DEF AttachMessage, ring, Rings, Placed, Typed
<1>2. busy.at = "busy" /\ busy.seg = m
  BY DEF At
<1>3. CASE proc' = [proc EXCEPT ![p] = busy]
  <2> HIDE DEF busy
  <2>1. proc'[p] = busy /\ \A q \in Procs \ {p} : proc'[q] = proc[q]
    BY <1>1, <1>3
  <2>2. GotOf(p)' = m
    BY <1>2, <2>1, GotNothing
  <2>3. GotOf(p) = m
    BY <1>1 DEF GotOf
  <2> QED BY <1>1, <2>1, <2>2, <2>3, MailsRest
<1>4. CASE Return(p)
  <2>1. proc'[p].at = "idle" /\ \A q \in Procs \ {p} : proc'[q] = proc[q]
    BY <1>1, <1>4, Returning
  <2>2. GotOf(p)' = NONE
    BY <2>1, GotNothing DEF Ending
  <2> QED BY <1>1, <2>1, <2>2, MailsEnd
<1> QED BY <1>1, <1>3, <1>4

(* A receiver works on its message until it is detached.                    *)
LEMMA MailsDone ==
    ASSUME NEW p \in Procs, Roles, Typed, \A m \in Segments : Handled(m), ipcBufferDone(p)
    PROVE  Mails
<1>1. CASE proc[p].at = "idle" /\ \E m \in Segments :
               segment[m].owner = p /\ p \in segment[m].attached /\ Done(p, m, TRUE)
  <2>1. PICK m \in Segments : segment[m].owner = p /\ Done(p, m, TRUE)
    BY <1>1
  <2>2. p \notin Servers
    BY <2>1, LibIPCAssumption DEF Typed, Messages, Roles, Procs
  <2>3. UNCHANGED <<owner, read, write, shmemId>> /\ \A q \in Procs \ {p} : proc'[q] = proc[q]
    BY <2>1, DoneIs DEF Done, ring
  <2> QED BY <2>2, <2>3, MailsRest
<1>2. CASE proc[p].at = "busy" /\ \E sender \in BOOLEAN : Done(p, proc[p].seg, sender)
  <2>1. PICK sender \in BOOLEAN : Done(p, proc[p].seg, sender)
    BY <1>2
  <2>2. /\ UNCHANGED <<owner, read, write, shmemId>> /\ \A q \in Procs \ {p} : proc'[q] = proc[q]
        /\ proc'[p].at = "test" /\ proc'[p].seg = proc[p].seg
    BY <2>1, DoneIs DEF Done, ring, Typed, Calls
  <2>3. GotOf(p)' = GotOf(p)
    BY <1>2, <2>2, GotNothing DEF Ending
  <2> QED BY <2>2, <2>3, MailsRest
<1> QED BY <1>1, <1>2 DEF ipcBufferDone

LEMMA MailsEnding ==
    ASSUME NEW p \in Procs, Typed, TestDone(p) \/ NotifyDone(p) \/ DetachMessage(p)
    PROVE  Mails
<1>1. UNCHANGED <<owner, read, write, shmemId>>
  BY DEF TestDone, NotifyDone, DetachMessage, ring
<1>2. CASE TestDone(p)
  <2>1. /\ proc[p].at = "test" /\ proc'[p].at = "notify" /\ proc'[p].seg = proc[p].seg
        /\ \A q \in Procs \ {p} : proc'[q] = proc[q]
    BY <1>2 DEF TestDone, Typed, Calls
  <2>2. GotOf(p)' = GotOf(p)
    BY <2>1, GotNothing DEF Ending
  <2> QED BY <1>1, <2>1, <2>2, MailsRest
<1>3. CASE NotifyDone(p)
  <2>1. proc[p].at = "notify" /\ Goto(p, "detach") /\ "detach" \in Labels
    BY <1>3 DEF NotifyDone, Labels
  <2>2. Moves(p, "detach") /\ \A q \in Procs \ {p} : proc'[q] = proc[q]
    BY <2>1, GoingMoves
  <2>3. GotOf(p)' = GotOf(p)
    BY <2>1, <2>2, GotNothing DEF Ending, Moves
  <2> QED BY <1>1, <2>2, <2>3, MailsRest
<1>4. CASE DetachMessage(p)
  <2>1. Return(p) /\ proc \in [Procs -> Calls]
    BY <1>4 DEF DetachMessage, Typed
  <2>2. proc'[p].at = "idle" /\ \A q \in Procs \ {p} : proc'[q] = proc[q]
    BY <2>1, Returning
  <2>3. GotOf(p)' = NONE
    BY <2>2, GotNothing DEF Ending
  <2>4. CASE p \in Servers
    BY <1>1, <2>2, <2>3, <2>4, MailsEnd
  <2>5. CASE p \notin Servers
    BY <1>1, <2>2, <2>5, MailsRest
  <2> QED BY <2>4, <2>5
<1> QED BY <1>2, <1>3, <1>4

(* The steps that have to do with neither.                                  *)
LEMMA MailsQuiet ==
    ASSUME NEW p \in Procs, Typed,
           \/ _init(p) \/ CountUser(p) \/ _fini(p) \/ DiscountUser(p)
           \/ WakeReceiver(p) \/ SleepSender(p) \/ WaitMessage(p)
           \/ (\E m \in Segments : ipcBufferAllocate(p, m))
           \/ (\E m \in Segments, target \in Servers, sync \in BOOLEAN : ipcBufferSend(p, m, target, sync))
           \/ (\E sync \in BOOLEAN : ipcBufferGet(p, sync))
    PROVE  Mails
<1>1. UNCHANGED <<owner, read, write, shmemId>>
  BY DEF _init, CountUser, _fini, DiscountUser, WakeReceiver, SleepSender, WaitMessage, ipcBufferAllocate,
         ipcBufferSend, ipcBufferGet, ring
<1> DEFINE Idle(q) == proc[q].at \notin {"fetch", "busy"} \cup Ending
<1>2. Idle(p)
  BY DEF _init, CountUser, _fini, DiscountUser, WakeReceiver, SleepSender, WaitMessage, ipcBufferAllocate,
         ipcBufferSend, ipcBufferGet, Ending
<1>3. proc'[p].at \notin {"fetch", "busy"} \cup Ending /\ \A q \in Procs \ {p} : proc'[q] = proc[q]
  <2>1. CASE _init(p) \/ CountUser(p) \/ _fini(p) \/ DiscountUser(p)
    BY <2>1, ComingIs DEF Moves, Ending
  <2>2. CASE WakeReceiver(p)
    <3>1. Goto(p, "sleep") /\ "sleep" \in Labels
      BY <2>2 DEF WakeReceiver, Labels
    <3> QED BY <3>1, GoingMoves DEF Moves, Ending
  <2>3. CASE SleepSender(p)
    <3>1. Return(p) /\ proc \in [Procs -> Calls]
      BY <2>3 DEF SleepSender, Typed
    <3> QED BY <3>1, Returning DEF Ending
  <2>4. CASE WaitMessage(p)
    <3>1. (Goto(p, "read") \/ Return(p)) /\ proc \in [Procs -> Calls] /\ "read" \in Labels
      BY <2>4 DEF WaitMessage, Typed, Labels
    <3> QED BY <3>1, Going, Returning DEF Ending
  <2>5. CASE \E m \in Segments : ipcBufferAllocate(p, m)
    BY <1>2, <2>5 DEF ipcBufferAllocate
  <2>6. CASE \E m \in Segments, target \in Servers, sync \in BOOLEAN : ipcBufferSend(p, m, target, sync)
    <3>1. PICK m \in Segments, target \in Servers, sync \in BOOLEAN : FindEntry(p, target, "store", m, sync)
      BY <2>6 DEF ipcBufferSend
    <3>2. target \in Procs /\ "store" \in Labels /\ m \in Segments \cup {NONE} /\ proc \in [Procs -> Calls]
      BY DEF Procs, Labels, Typed
    <3> QED BY <3>1, <3>2, Finding DEF Ending
  <2>7. CASE \E sync \in BOOLEAN : ipcBufferGet(p, sync)
    <3>1. PICK sync \in BOOLEAN : FindEntry(p, p, "wait", NONE, sync)
      BY <2>7 DEF ipcBufferGet
    <3>2. "wait" \in Labels /\ NONE \in Segments \cup {NONE} /\ proc \in [Procs -> Calls]
      BY DEF Labels, Typed
    <3> QED BY <3>1, <3>2, Finding DEF Ending
  <2> QED BY <2>1, <2>2, <2>3, <2>4, <2>5, <2>6, <2>7
<1>4. GotOf(p)' = GotOf(p)
  BY <1>2, <1>3, GotNothing
<1> QED BY <1>1, <1>3, <1>4, MailsRest

LEMMA MailsStep ==
    ASSUME Roles, Served, Served', Next
    PROVE  Mails
<1>1. Typed /\ Typed' /\ Rings /\ Rings' /\ Founded /\ Reached /\ \A m \in Segments : Handled(m)
  BY DEF Served, Founded, Living
<1>2. PICK p \in Procs : \/ _init(p) \/ InitQueues(p) \/ CountUser(p) \/ _fini(p)
                         \/ DiscountUser(p) \/ Use(p)
  BY NextIs
<1>3. CASE InitQueues(p)
  BY <1>1, <1>3, MailsInit
<1>4. CASE _init(p) \/ CountUser(p) \/ _fini(p) \/ DiscountUser(p)
  BY <1>1, <1>4, MailsQuiet
<1>5. CASE Use(p)
  <2>1. CASE Claim(p)
    BY <1>1, <2>1, MailsClaim
  <2>2. CASE StoreMessage(p)
    BY <1>1, <2>2, MailsStore
  <2>3. CASE IPCQueueWrite(p)
    BY <1>1, <2>3, MailsWrite
  <2>4. CASE IPCQueueRead(p)
    BY <1>1, <2>4, MailsRead
  <2>5. CASE AttachMessage(p)
    BY <1>1, <2>5, MailsAttach
  <2>6. CASE ipcBufferDone(p)
    BY <1>1, <2>6, MailsDone
  <2>7. CASE TestDone(p) \/ NotifyDone(p) \/ DetachMessage(p)
    BY <1>1, <2>7, MailsEnding
  <2>8. CASE \/ WakeReceiver(p) \/ SleepSender(p) \/ WaitMessage(p)
             \/ (\E m \in Segments : ipcBufferAllocate(p, m))
             \/ (\E m \in Segments, target \in Servers, sync \in BOOLEAN : ipcBufferSend(p, m, target, sync))
             \/ (\E sync \in BOOLEAN : ipcBufferGet(p, sync))
    BY <1>1, <2>8, MailsQuiet
  <2> QED BY <1>5, <2>1, <2>2, <2>3, <2>4, <2>5, <2>6, <2>7, <2>8 DEF Use
<1> QED BY <1>2, <1>3, <1>4, <1>5

(* The mailboxes are empty when nobody has come.                            *)
LEMMA MailsBegin ==
    ASSUME Init
    PROVE  Mail!Init
<1>1. \A p \in Servers : EntriesOf(p) = {}
  BY LibIPCAssumption DEF Init, EntriesOf
<1>2. \A p \in Servers : proc[p].at = "out"
  BY DEF Init, Procs, At
<1>3. \A p \in Servers : MailOf(p) = <<>> /\ GotOf(p) = NONE
  BY <1>1, <1>2 DEF MailOf, GotOf
<1>4. mailOf = [p \in Servers |-> <<>>] /\ gotOf = [p \in Servers |-> NONE]
  BY <1>3 DEF mailOf, gotOf
<1> QED BY <1>4 DEF Mail!Init, mailOf, gotOf, MailOf, GotOf

(* ipcBufferSend and ipcBufferGet deliver in the order of the sends, and at *)
(* most once, to the process a message was sent to; a full ring drops its   *)
(* oldest message, and only IPCQueueRead at the wrap loses another.         *)
THEOREM RingsAreMailboxes ==
    ASSUME Roles
    PROVE  Spec => ImplementsMailboxes
<1>1. Init => Mail!Init
  BY MailsBegin
<1>2. Served /\ Served' /\ [Next]_vars => [Mail!Next]_(Mail!vars)
  <2> SUFFICES ASSUME Served, Served', [Next]_vars PROVE [Mail!Next]_(Mail!vars)
    OBVIOUS
  <2>1. CASE Next
    BY <2>1, MailsStep DEF Mails
  <2>2. CASE UNCHANGED vars
    <3>1. UNCHANGED <<owner, read, write, shmemId, proc>>
      BY <2>2 DEF vars, ring
    <3>2. \A q \in Servers : MailOf(q)' = MailOf(q)
      BY <3>1, MailUntouched
    <3>3. \A q \in Servers : GotOf(q)' = GotOf(q)
      BY <3>1, GotUntouched DEF Procs
    <3> QED BY <3>2, <3>3, MailStutters
  <2> QED BY <2>1, <2>2
<1> QED BY <1>1, <1>2, ServiceIsSafe, PTL DEF Spec, ImplementsMailboxes, Mail!Spec, Mail!vars
=============================================================================
