------------------------------ MODULE DepGraph ------------------------------
(***************************************************************************)
(* The object dependency graph of the Cache Kernel (development/CK/graph.c *)
(* and CKremoveDepSearch of objmgmt.c): one array of edges, sorted by the  *)
(* address of the parent, in which each object knows where its own edges   *)
(* begin and how many they are.                                            *)
(*                                                                         *)
(* A graph is a record of the array ODA and of the two fields that every   *)
(* object header has.  Slots are numbered from 1.                          *)
(***************************************************************************)
EXTENDS Integers, Sequences

CONSTANTS Objects,   (* the addresses at which objects can be cached       *)
          NoObject,  (* NIL                                                *)
          Stray      (* what CKaddObjectDep reads as the parent of the edge
                        in front of the array                              *)

ASSUME DepGraphAssumption ==
    /\ Objects \subseteq Nat
    /\ NoObject \notin Objects

(* The word in front of the array is not the address of an object.         *)
ASSUME StrayAssumption == Stray \notin Objects

Edges  == [parent : Objects, child : Objects]
Graphs == [ODA : Seq(Edges),
           firstDependency : [Objects -> Nat],
           dependencies : [Objects -> Nat]]

EmptyGraph == [ODA |-> <<>>,
               firstDependency |-> [o \in Objects |-> 0],
               dependencies    |-> [o \in Objects |-> 0]]

(* Slot i is the first of its parent's edges. *)
Begins(oda, i) ==
    oda[i].parent # IF i = 1 THEN Stray ELSE oda[i - 1].parent

(* The edges behind slot "at" move up; it goes behind its parent's others. *)
Place(oda, parent) ==
    CHOOSE at \in 1 .. Len(oda) + 1 :
        /\ at > 1 => oda[at - 1].parent <= parent
        /\ \A i \in at .. Len(oda) : oda[i].parent > parent

(* Mutation: the moved edges' parents keep their first dependency.         *)
CKaddObjectDep_StaleFirst(g, parent, child) ==
    LET oda == g.ODA
        at  == Place(oda, parent)
    IN  [ODA |-> [i \in 1 .. Len(oda) + 1 |->
                     IF i < at THEN oda[i]
                     ELSE IF i = at THEN [parent |-> parent, child |-> child]
                     ELSE oda[i - 1]],
         firstDependency |-> [g.firstDependency EXCEPT ![parent] =
             IF at = 1 \/ oda[at - 1].parent # parent THEN at ELSE @],
         dependencies |-> [g.dependencies EXCEPT ![parent] = @ + 1]]

CKaddObjectDep(g, parent, child) ==
    LET oda == g.ODA
        at  == Place(oda, parent)
        first == [o \in Objects |->
            IF o = parent /\ (at = 1 \/ oda[at - 1].parent # parent) THEN at
            ELSE IF \E i \in at .. Len(oda) : oda[i].parent = o /\ Begins(oda, i)
            THEN 1 + CHOOSE i \in at .. Len(oda) : oda[i].parent = o /\ Begins(oda, i)
            ELSE g.firstDependency[o]]
    IN  [ODA |-> [i \in 1 .. Len(oda) + 1 |->
                     IF i < at THEN oda[i]
                     ELSE IF i = at THEN [parent |-> parent, child |-> child]
                     ELSE oda[i - 1]],
         firstDependency |-> first,
         dependencies |-> [g.dependencies EXCEPT ![parent] = @ + 1]]

(* The edges behind slot "dep" move down. *)
CKremoveObjectDep(g, dep) ==
    LET oda  == [i \in 1 .. Len(g.ODA) - 1 |->
                    IF i < dep THEN g.ODA[i] ELSE g.ODA[i + 1]]
        Moved(o, i) == /\ oda[i].parent = o
                       /\ i = 1 \/ oda[i - 1].parent # o
    IN  [ODA |-> oda,
         firstDependency |-> [o \in Objects |->
            IF \E i \in dep .. Len(g.ODA) - 1 : Moved(o, i)
            THEN CHOOSE i \in dep .. Len(g.ODA) - 1 : Moved(o, i)
            ELSE g.firstDependency[o]],
         dependencies |-> [g.dependencies EXCEPT ![g.ODA[dep].parent] = @ - 1]]

(* The slots in which an object looks for its edges. *)
Group(g, object) ==
    { g.firstDependency[object] + i : i \in 0 .. g.dependencies[object] - 1 }

(* Mutation: the search stops in front of the last edge.                   *)
CKremoveDepSearch_OneShort(g, object, child) ==
    LET dep == { i \in Group(g, object) : i + 1 \in Group(g, object)
                                          /\ g.ODA[i].child = child }
    IN  IF dep = {} THEN g ELSE CKremoveObjectDep(g, CHOOSE i \in dep : TRUE)

CKremoveDepSearch(g, object, child) ==
    LET dep == { i \in Group(g, object) : g.ODA[i].child = child }
    IN  IF dep = {} THEN g
        ELSE CKremoveObjectDep(g, CHOOSE i \in dep : \A j \in dep : i <= j)
-----------------------------------------------------------------------------
(* Each object finds exactly its own edges in its group, and the array is  *)
(* sorted, which is what makes the groups contiguous.                      *)
Sorted(g) == \A i, j \in 1 .. Len(g.ODA) :
    i < j => g.ODA[i].parent <= g.ODA[j].parent

Grouped(g) == \A o \in Objects : \A i \in 1 .. Len(g.ODA) :
    g.ODA[i].parent = o <=> i \in Group(g, o)

InArray(g) == \A o \in Objects : Group(g, o) \subseteq 1 .. Len(g.ODA)

Indexed(g) == Sorted(g) /\ Grouped(g) /\ InArray(g)

(* The edges of a graph, and that none of them is there twice. *)
EdgeSet(g) == { g.ODA[i] : i \in 1 .. Len(g.ODA) }
Once(g) == \A i, j \in 1 .. Len(g.ODA) : g.ODA[i] = g.ODA[j] => i = j
=============================================================================
