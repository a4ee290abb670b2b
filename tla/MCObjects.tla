------------------------------ MODULE MCObjects -----------------------------
(* An instance of Objects for TLC. *)
EXTENDS Objects

Addresses == 1 .. 5
Few == [k \in Kinds \ {"Free"} |-> IF k \in {"Thread", "AddrSpc"} THEN 2 ELSE 1]

(* An object without dependants does not read where its first one would be. *)
LiveState == <<header, graph.ODA, graph.dependencies,
               [o \in { p \in Objects : Dependants(p) } |-> graph.firstDependency[o]],
               sysObjManLock, uncaching, cascade>>
=============================================================================
