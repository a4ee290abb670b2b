------------------------------ MODULE MCSignals -----------------------------
(* Instances of Signals for TLC. *)
EXTENDS Signals

ThreePriorities == {0, 1, 2}
=============================================================================
