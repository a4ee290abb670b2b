----------------------------- MODULE MCResources ----------------------------
(* An instance of Resources for TLC: regions that touch, overlap on either *)
(* side and contain one another.                                           *)
EXTENDS Resources, TLC

MCRequests == {<<1, 2>>, <<3, 2>>, <<2, 2>>, <<0, 7>>, <<5, 1>>, <<6, 2>>}
Symmetric  == Permutations(Descriptors) \cup Permutations(Threads)
=============================================================================
