------------------------------ MODULE MCLibIPC ------------------------------
(* An instance of LibIPC for TLC. *)
EXTENDS LibIPC, TLC

CONSTANTS c1, c2, s1, s2, m1, m2, m3

Symmetric == Permutations(Segments) \cup Permutations(Clients) \cup Permutations(Servers)
=============================================================================
