------------------------------ MODULE Mailboxes -----------------------------
(***************************************************************************)
(* What the inter-process communication of libIPC promises                 *)
(* (development/SORB/include and libIPC/include/IPC.h): a mailbox for each *)
(* process, in which messages wait in the order in which they were sent.   *)
(* A full mailbox loses its oldest message; a message may also be lost     *)
(* when it is taken, but none is delivered twice, out of its turn or to a  *)
(* process that it was not sent to.                                        *)
(***************************************************************************)
EXTENDS Sequences, Naturals

CONSTANTS Receivers, Messages, Capacity, NONE

VARIABLES mail,   (* the messages that wait for each receiver              *)
          got     (* the message that each receiver is working on          *)

vars == <<mail, got>>

Init ==
    /\ mail = [r \in Receivers |-> <<>>]
    /\ got = [r \in Receivers |-> NONE]

Post(r, m) ==
    /\ Len(mail[r]) < Capacity
    /\ mail' = [mail EXCEPT ![r] = Append(@, m)]
    /\ UNCHANGED got

PostFull(r, m) ==
    /\ Len(mail[r]) = Capacity
    /\ mail' = [mail EXCEPT ![r] = Append(Tail(@), m)]
    /\ UNCHANGED got

Take(r) ==
    /\ mail[r] # <<>> /\ got[r] = NONE
    /\ mail' = [mail EXCEPT ![r] = Tail(@)]
    /\ got' \in { got, [got EXCEPT ![r] = Head(mail[r])] }

Finish(r) ==
    /\ got[r] # NONE
    /\ got' = [got EXCEPT ![r] = NONE]
    /\ UNCHANGED mail

Next == \E r \in Receivers : \/ \E m \in Messages : Post(r, m) \/ PostFull(r, m)
                             \/ Take(r) \/ Finish(r)

Spec == Init /\ [][Next]_vars
=============================================================================
