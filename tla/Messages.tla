------------------------------ MODULE Messages ------------------------------
(***************************************************************************)
(* The messages of the kernel library as they are emulated on Linux        *)
(* (development/KL/Msg/linux: signal.c, msg.c), with the server and the    *)
(* client of demo.c: the client opens a channel, invites the server, sends  *)
(* it one message, looks at the answer and closes the channel.             *)
(*                                                                         *)
(* An Alliance signal is a message in one System V queue for all processes  *)
(* and SIGUSR1 for the receiver.  SIGUSR1 interrupts a process anywhere     *)
(* but in its handler, and is remembered once.                             *)
(*                                                                         *)
(* code[p] is what process p has still to do, step by step, and handler[p]  *)
(* what the handler of the signal has, which goes first.                   *)
(***************************************************************************)
EXTENDS Naturals, Sequences

CONSTANTS Client, Server, NIL

VARIABLES
    sigmsgq,    (* the queue of Alliance signals                           *)
    raised,     (* the processes for which SIGUSR1 is pending              *)
    code,
    handler,
    channel,    (* the shared memory: whether it exists, who is attached   *)
    attached,   (* the client's copy of that number                        *)
    atthread,   (* whom each process talks to                              *)
    buf         (* demo.c: the message that has arrived                    *)

library == <<channel, attached, atthread>>
vars    == <<sigmsgq, raised, code, handler, library, buf>>

Processes == {Client, Server}

Signal(kind, extra) == [kind |-> kind, extra |-> extra]

Step(do, of) == [do |-> do, of |-> of]

(* The routines, cut where another process or the signal can come between. *)
sendSignal(thread, signal) == <<Step("msgsnd", signal), Step("kill", thread)>>
waitSignal                 == <<Step("pause", NIL)>>

KLmsgConnect(thread) ==
    <<Step("mark", thread)>> \o sendSignal(thread, Signal("SIGNLSHINVI", "shmid"))
        \o waitSignal \o <<Step("compare", NIL)>>

KLmsgSendAsync(thread, buffer) == sendSignal(thread, Signal("SIGNLSHMRDY", buffer))
KLmsgSendSync(thread, buffer)  == KLmsgSendAsync(thread, buffer) \o waitSignal

KLcloseMsgChannel(thread) ==
    sendSignal(thread, Signal("SIGNLSHDEAD", "chan")) \o <<Step("destroy", NIL)>>

client == <<Step("open", NIL)>> \o KLmsgConnect(Server) \o <<Step("alloc", NIL)>>
server == waitSignal \o <<Step("test", NIL)>>

Init ==
    /\ sigmsgq = << >>
    /\ raised = {}
    /\ code = [p \in Processes |-> IF p = Client THEN client ELSE server]
    /\ handler = [p \in Processes |-> << >>]
    /\ channel = [exists |-> FALSE, attached |-> 0]
    /\ attached = 0
    /\ atthread = [p \in Processes |-> NIL]
    /\ buf = [p \in Processes |-> NIL]

-----------------------------------------------------------------------------
(* The next step of a process, and the steps behind it with `more' first.    *)
Now(p) == IF handler[p] # << >> THEN Head(handler[p]) ELSE Head(code[p])

Is(p, do) ==
    /\ handler[p] # << >> \/ code[p] # << >>
    /\ Now(p).do = do

Continue(p, more) ==
    IF handler[p] # << >>
    THEN handler' = [handler EXCEPT ![p] = more \o Tail(@)] /\ UNCHANGED code
    ELSE code' = [code EXCEPT ![p] = more \o Tail(@)] /\ UNCHANGED handler

-----------------------------------------------------------------------------
(* signal.c *)
Send(p) ==
    /\ Is(p, "msgsnd")
    /\ sigmsgq' = Append(sigmsgq, [signal |-> Now(p).of, caller |-> p])
    /\ Continue(p, << >>)
    /\ UNCHANGED <<raised, library, buf>>

Kill(p) ==
    /\ Is(p, "kill")
    /\ raised' = raised \cup {Now(p).of}
    /\ Continue(p, << >>)
    /\ UNCHANGED <<sigmsgq, library, buf>>

(* A process that has come to pause waits for a handler that begins then.    *)
Pause(p) ==
    /\ Is(p, "pause")
    /\ Continue(p, <<Step("paused", NIL)>>)
    /\ UNCHANGED <<sigmsgq, raised, library, buf>>

unixSigHand(p) ==
    /\ p \in raised
    /\ handler[p] = << >> /\ code[p] # << >>
    /\ raised' = raised \ {p}
    /\ handler' = [handler EXCEPT ![p] = <<Step("msgrcv", NIL), Step("return", NIL)>>]
    /\ UNCHANGED <<sigmsgq, code, library, buf>>

(* The handler takes the first message, whoever it is for, and waits when   *)
(* there is none.                                                          *)
Receive(p) ==
    /\ Is(p, "msgrcv")
    /\ sigmsgq # << >>
    /\ sigmsgq' = Tail(sigmsgq)
    /\ Continue(p, <<Step("sigHand", Head(sigmsgq))>>)
    /\ UNCHANGED <<raised, library, buf>>

HandlerReturns(p) ==
    /\ Is(p, "return")
    /\ handler' = [handler EXCEPT ![p] = << >>]
    /\ code' = [code EXCEPT ![p] = IF Head(@).do = "paused" THEN Tail(@) ELSE @]
    /\ UNCHANGED <<sigmsgq, raised, library, buf>>

-----------------------------------------------------------------------------
(* msg.c: the owner of the channel. *)
KLopenMsgChannel(p) ==
    /\ Is(p, "open")
    /\ channel' = [exists |-> TRUE, attached |-> 1]
    /\ attached' = 1
    /\ Continue(p, << >>)
    /\ UNCHANGED <<sigmsgq, raised, atthread, buf>>

Mark(p) ==
    /\ Is(p, "mark")
    /\ atthread' = [atthread EXCEPT ![p] = Now(p).of]
    /\ Continue(p, << >>)
    /\ UNCHANGED <<sigmsgq, raised, channel, attached, buf>>

(* The end of KLmsgConnect; the client goes on in any case.                  *)
Compare(p) ==
    /\ Is(p, "compare")
    /\ attached' = channel.attached
    /\ Continue(p, << >>)
    /\ UNCHANGED <<sigmsgq, raised, channel, atthread, buf>>

Destroy(p) ==
    /\ Is(p, "destroy")
    /\ channel' = [channel EXCEPT !.exists = FALSE]
    /\ Continue(p, << >>)
    /\ UNCHANGED <<sigmsgq, raised, attached, atthread, buf>>

KLallocMsgBuf(p) ==
    /\ Is(p, "alloc")
    /\ Continue(p, KLmsgSendSync(atthread[p], "buffer") \o <<Step("look", NIL)>>)
    /\ UNCHANGED <<sigmsgq, raised, library, buf>>

(* The client looks at the answer, or finds none, and closes the channel.    *)
Look(p) ==
    /\ Is(p, "look")
    /\ Continue(p, KLcloseMsgChannel(atthread[p]))
    /\ UNCHANGED <<sigmsgq, raised, library, buf>>

-----------------------------------------------------------------------------
(* demo.c: what the handler does with each signal. *)
Accept(p) ==
    /\ Is(p, "sigHand") /\ Now(p).of.signal.kind = "SIGNLSHINVI"
    /\ atthread' = [atthread EXCEPT ![p] = Now(p).of.caller]
    /\ channel' = [channel EXCEPT !.attached = @ + 1]
    /\ Continue(p, sendSignal(Now(p).of.caller, Signal("SIGNLSHMRDY", "chan")))
    /\ UNCHANGED <<sigmsgq, raised, attached, buf>>

(* The answer to an invitation is left to the library; a second message is   *)
(* lost.                                                                   *)
MessageReady(p) ==
    /\ Is(p, "sigHand") /\ Now(p).of.signal.kind = "SIGNLSHMRDY"
    /\ LET extra == Now(p).of.signal.extra
       IN  buf' = IF extra # "chan" /\ buf[p] = NIL THEN [buf EXCEPT ![p] = extra] ELSE buf
    /\ Continue(p, << >>)
    /\ UNCHANGED <<sigmsgq, raised, library>>

(* KLmsgDisconnect, and the end of the process. *)
Disconnect(p) ==
    /\ Is(p, "sigHand") /\ Now(p).of.signal.kind = "SIGNLSHDEAD"
    /\ atthread' = [atthread EXCEPT ![p] = NIL]
    /\ channel' = [channel EXCEPT !.attached = @ - 1]
    /\ handler' = [handler EXCEPT ![p] = << >>]
    /\ code' = [code EXCEPT ![p] = << >>]
    /\ UNCHANGED <<sigmsgq, raised, attached, buf>>

(* The loop of the server. *)
Serve(p) ==
    /\ Is(p, "test")
    /\ Continue(p, IF buf[p] = NIL THEN server
                   ELSE KLmsgSendAsync(atthread[p], buf[p]) \o <<Step("clear", NIL)>>)
    /\ UNCHANGED <<sigmsgq, raised, library, buf>>

Served(p) ==
    /\ Is(p, "clear")
    /\ buf' = [buf EXCEPT ![p] = NIL]
    /\ Continue(p, server)
    /\ UNCHANGED <<sigmsgq, raised, library>>

-----------------------------------------------------------------------------
SignalStep(p) ==
    Send(p) \/ Kill(p) \/ Pause(p) \/ unixSigHand(p) \/ Receive(p) \/ HandlerReturns(p)

LibraryStep(p) ==
    \/ KLopenMsgChannel(p) \/ Mark(p) \/ Compare(p) \/ Destroy(p)
    \/ KLallocMsgBuf(p) \/ Look(p)

DemoStep(p) == Accept(p) \/ MessageReady(p) \/ Disconnect(p) \/ Serve(p) \/ Served(p)

ProcessStep(p) == SignalStep(p) \/ LibraryStep(p) \/ DemoStep(p)

Next == \E p \in Processes : ProcessStep(p)

(* Linux lets both processes run and delivers SIGUSR1. *)
Spec == Init /\ [][Next]_vars /\ \A p \in Processes : WF_vars(ProcessStep(p))

-----------------------------------------------------------------------------
(* KLmsgSendSync returns: it blocks for one reply (msg.c:274), and the      *)
(* server of demo.c replies to every message.                              *)
Sending == \E i \in DOMAIN code[Client] : code[Client][i].do = "look"

SendSyncReturns == Sending ~> ~Sending
=============================================================================
