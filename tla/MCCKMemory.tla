----------------------------- MODULE MCCKMemory -----------------------------
(* An instance of CKMemory for TLC. *)
EXTENDS CKMemory

MCLow     == [start |-> 2, size |-> 10]
MCBios    == [start |-> 4, size |-> 4]
MCHigh    == [start |-> 14, size |-> 16]
MCModules == << [start |-> 20, size |-> 3] >>
=============================================================================
