---------------------------- MODULE ObjectsProofs ---------------------------
(***************************************************************************)
(* Theorems about the object manager, for every set of addresses: the      *)
(* dependency array stays indexed, its edges are the dependencies of the   *)
(* loaded objects, and no object outlives one that it depends on.          *)
(***************************************************************************)
EXTENDS Objects, NaturalsInduction, WellFoundedInduction, TLAPS

USE DepGraphAssumption, StrayAssumption

-----------------------------------------------------------------------------
(* The operations on the dependency array keep every object's group of     *)
(* edges in one piece and exactly where the object looks for it, for every *)
(* length of the array.                                                    *)

(* Ends of edges are objects, and objects have addresses.                  *)
LEMMA EdgeEnds ==
    /\ \A o \in Objects : o \in Nat
    /\ \A e \in Edges : e.parent \in Objects /\ e.child \in Objects
    /\ \A p, c \in Objects : [parent |-> p, child |-> c] \in Edges
BY DEF Edges

(* A group is an interval.                                                 *)
LEMMA GroupInterval ==
    ASSUME NEW g \in Graphs, NEW o \in Objects
    PROVE  /\ g.firstDependency[o] \in Nat /\ g.dependencies[o] \in Nat
           /\ \A i \in Int : i \in Group(g, o)
                  <=> /\ g.firstDependency[o] <= i
                      /\ i < g.firstDependency[o] + g.dependencies[o]
           /\ Group(g, o) \subseteq Int
<1> DEFINE f == g.firstDependency[o]
           d == g.dependencies[o]
<1>1. f \in Nat /\ d \in Nat
  BY DEF Graphs
<1>2. Group(g, o) = { f + i : i \in 0 .. d - 1 }
  BY DEF Group
<1> HIDE DEF f, d
<1>3. ASSUME NEW i \in Int, f <= i, i < f + d PROVE i \in Group(g, o)
  <2>1. i - f \in 0 .. d - 1 /\ i = f + (i - f)
    BY <1>1, <1>3
  <2> QED BY <1>2, <2>1
<1>4. ASSUME NEW i \in Group(g, o) PROVE i \in Int /\ f <= i /\ i < f + d
  BY <1>1, <1>2
<1> QED BY <1>1, <1>3, <1>4 DEF f, d

(* In an indexed graph the slots of an object's edges are its group.       *)
LEMMA SlotsOf ==
    ASSUME NEW g \in Graphs, Indexed(g), NEW o \in Objects
    PROVE  /\ g.firstDependency[o] \in Nat /\ g.dependencies[o] \in Nat
           /\ \A i \in Int :
                  /\ g.firstDependency[o] <= i
                  /\ i < g.firstDependency[o] + g.dependencies[o]
                  <=> i \in 1 .. Len(g.ODA) /\ g.ODA[i].parent = o
<1>1. \A i \in Group(g, o) : i \in 1 .. Len(g.ODA)
  BY DEF Indexed, InArray
<1>2. \A i \in 1 .. Len(g.ODA) : g.ODA[i].parent = o <=> i \in Group(g, o)
  BY DEF Indexed, Grouped
<1> QED BY <1>1, <1>2, GroupInterval

(* Conversely, a graph whose groups are the slots is indexed.              *)
LEMMA IndexedIf ==
    ASSUME NEW g \in Graphs, Sorted(g),
           \A o \in Objects : \A i \in Int :
               /\ g.firstDependency[o] <= i
               /\ i < g.firstDependency[o] + g.dependencies[o]
               <=> i \in 1 .. Len(g.ODA) /\ g.ODA[i].parent = o
    PROVE  Indexed(g)
<1>1. ASSUME NEW o \in Objects PROVE Group(g, o) \subseteq 1 .. Len(g.ODA)
  BY GroupInterval
<1>2. ASSUME NEW o \in Objects, NEW i \in 1 .. Len(g.ODA)
      PROVE  g.ODA[i].parent = o <=> i \in Group(g, o)
  <2>1. i \in Int
    OBVIOUS
  <2> QED BY <2>1, GroupInterval
<1> QED BY <1>1, <1>2 DEF Indexed, Grouped, InArray

(* There is a place for every edge, whatever the array holds.              *)
LEMMA PlaceExists ==
    ASSUME NEW oda \in Seq(Edges), NEW parent \in Objects
    PROVE  /\ Place(oda, parent) \in 1 .. Len(oda) + 1
           /\ Place(oda, parent) > 1 => oda[Place(oda, parent) - 1].parent <= parent
           /\ \A i \in Place(oda, parent) .. Len(oda) : oda[i].parent > parent
<1> DEFINE n == Len(oda)
           Behind == { at \in Nat : at \in 1 .. n + 1
                                    /\ \A i \in at .. n : oda[i].parent > parent }
<1>0. n \in Nat /\ parent \in Nat /\ \A i \in 1 .. n : oda[i].parent \in Nat
  <2>1. \A i \in 1 .. n : oda[i] \in Edges
    OBVIOUS
  <2>2. \A i \in 1 .. n : oda[i].parent \in Nat
    BY <2>1, EdgeEnds
  <2>3. n \in Nat /\ parent \in Nat
    BY EdgeEnds
  <2> QED BY <2>2, <2>3
<1>1. n + 1 \in Behind
  BY <1>0
<1>2. PICK at \in Behind : \A b \in Behind : ~(<<b, at>> \in OpToRel(<, Nat))
  <2>1. Behind \subseteq Nat
    OBVIOUS
  <2> HIDE DEF Behind
  <2> QED BY <1>1, <2>1, NatLessThanWellFounded, WFMin
<1>3. \A b \in Behind : ~(b < at)
  <2> SUFFICES ASSUME NEW b \in Behind, b < at PROVE FALSE
    OBVIOUS
  <2>1. <<b, at>> \in OpToRel(<, Nat)
    <3>1. b \in Nat /\ at \in Nat /\ b < at
      OBVIOUS
    <3> QED BY <3>1, Zenon DEF OpToRel
  <2> QED BY <1>2, <2>1
<1>4. at \in 1 .. n + 1 /\ \A i \in at .. n : oda[i].parent > parent
  OBVIOUS
<1>5. ASSUME at > 1 PROVE oda[at - 1].parent <= parent
  <2> SUFFICES ASSUME ~(oda[at - 1].parent <= parent) PROVE FALSE
    OBVIOUS
  <2>1. at - 1 \in 1 .. n /\ oda[at - 1].parent > parent
    BY <1>0, <1>4, <1>5
  <2>2. ASSUME NEW i \in at - 1 .. n PROVE oda[i].parent > parent
    <3>1. i = at - 1 \/ i \in at .. n
      BY <1>0, <1>4
    <3> QED BY <1>4, <2>1, <3>1
  <2>3. at - 1 \in Behind
    BY <1>0, <1>4, <2>1, <2>2
  <2> QED BY <1>3, <2>3, <1>4
<1> HIDE DEF Behind
<1> QED BY <1>4, <1>5, Zenon DEF Place

(* Another edge leaves every group in one piece.                           *)
LEMMA AddKeepsIndexed ==
    ASSUME NEW g \in Graphs, Indexed(g), NEW parent \in Objects, NEW child \in Objects
    PROVE  /\ CKaddObjectDep(g, parent, child) \in Graphs
           /\ Indexed(CKaddObjectDep(g, parent, child))
           /\ Len(CKaddObjectDep(g, parent, child).ODA) = Len(g.ODA) + 1
           /\ \A i \in 1 .. Len(g.ODA) + 1 :
                  CKaddObjectDep(g, parent, child).ODA[i] =
                      IF i < Place(g.ODA, parent) THEN g.ODA[i]
                      ELSE IF i = Place(g.ODA, parent)
                           THEN [parent |-> parent, child |-> child]
                      ELSE g.ODA[i - 1]
<1> DEFINE oda == g.ODA
           n   == Len(oda)
           at  == Place(oda, parent)
           h   == CKaddObjectDep(g, parent, child)
           F   == g.firstDependency
           D   == g.dependencies
           new == h.ODA
           F2  == h.firstDependency
<1>1. oda \in Seq(Edges) /\ F \in [Objects -> Nat] /\ D \in [Objects -> Nat]
  BY DEF Graphs
<1>2. n \in Nat /\ \A i \in 1 .. n : oda[i] \in Edges /\ oda[i].parent \in Objects /\ oda[i].parent \in Nat
  <2>1. \A i \in 1 .. n : oda[i] \in Edges
    BY <1>1
  <2>2. \A i \in 1 .. n : oda[i].parent \in Objects /\ oda[i].parent \in Nat
    BY <2>1, EdgeEnds
  <2>3. n \in Nat
    BY <1>1
  <2> QED BY <2>1, <2>2, <2>3
<1>3. /\ at \in 1 .. n + 1
      /\ at > 1 => oda[at - 1].parent <= parent
      /\ \A i \in at .. n : oda[i].parent > parent
  BY <1>1, PlaceExists
<1>4. \A i, j \in 1 .. n : i < j => oda[i].parent <= oda[j].parent
  BY DEF Indexed, Sorted
<1>5. new = [i \in 1 .. n + 1 |-> IF i < at THEN oda[i]
                                 ELSE IF i = at THEN [parent |-> parent, child |-> child]
                                 ELSE oda[i - 1]]
  BY DEF CKaddObjectDep
<1>6. h.dependencies = [D EXCEPT ![parent] = @ + 1]
  BY DEF CKaddObjectDep
<1>7. F2 = [o \in Objects |->
             IF o = parent /\ (at = 1 \/ oda[at - 1].parent # parent) THEN at
             ELSE IF \E i \in at .. n : oda[i].parent = o /\ Begins(oda, i)
             THEN 1 + CHOOSE i \in at .. n : oda[i].parent = o /\ Begins(oda, i)
             ELSE F[o]]
  BY DEF CKaddObjectDep
<1>8. h = [ODA |-> new, firstDependency |-> F2, dependencies |-> h.dependencies]
  BY DEF CKaddObjectDep
<1>9. \A o \in Objects : \A i \in Int :
         F[o] <= i /\ i < F[o] + D[o] <=> i \in 1 .. n /\ oda[i].parent = o
  BY SlotsOf
<1>10. parent \in Nat /\ \A o \in Objects : o \in Nat /\ F[o] \in Nat /\ D[o] \in Nat
  BY <1>1
<1> DEFINE edge == [parent |-> parent, child |-> child]
<1>11. /\ Len(new) = n + 1
       /\ \A i \in 1 .. n + 1 : i < at => new[i] = oda[i]
       /\ new[at] = edge
       /\ \A i \in 1 .. n + 1 : i > at => new[i] = oda[i - 1]
  BY <1>2, <1>3, <1>5
<1>17. edge \in Edges /\ edge.parent = parent
  BY EdgeEnds
<1> HIDE DEF at, h, oda, F, D, n, new, F2, edge
<1>12. \A i \in 1 .. n + 1 : new[i] \in Edges
  <2> TAKE i \in 1 .. n + 1
  <2>1. CASE i < at
    <3>1. i \in 1 .. n
      BY <1>2, <1>3, <2>1
    <3> QED BY <1>2, <1>11, <2>1, <3>1
  <2>2. CASE i = at
    BY <1>11, <1>17, <2>2
  <2>3. CASE i > at
    <3>1. i - 1 \in 1 .. n
      BY <1>2, <1>3, <2>3
    <3> QED BY <1>2, <1>11, <2>3, <3>1
  <2> QED BY <1>2, <1>3, <2>1, <2>2, <2>3
<1>13. new \in Seq(Edges)
  BY <1>2, <1>5, <1>12, <1>11
(* The slots of an object in the new array. *)
<1>14. ASSUME NEW o \in Objects, NEW i \in Int
       PROVE  i \in 1 .. n + 1 /\ new[i].parent = o
              <=> \/ i < at /\ i \in 1 .. n /\ oda[i].parent = o
                  \/ i = at /\ parent = o
                  \/ i > at /\ i - 1 \in 1 .. n /\ oda[i - 1].parent = o
  <2>1. CASE i < at
    BY <1>2, <1>3, <1>11, <2>1
  <2>2. CASE i = at
    BY <1>2, <1>3, <1>11, <1>17, <2>2
  <2>3. CASE i > at
    BY <1>2, <1>3, <1>11, <2>3
  <2> QED BY <1>3, <2>1, <2>2, <2>3
<1>15. ASSUME NEW o \in Objects, o < parent
       PROVE  F2[o] = F[o] /\ \A i \in 1 .. n : oda[i].parent = o => i < at
  BY <1>2, <1>3, <1>7, <1>10, <1>15
<1>16. ASSUME NEW o \in Objects, o > parent, D[o] > 0
       PROVE  F2[o] = F[o] + 1 /\ F[o] \in at .. n
  <2>1. F[o] \in 1 .. n /\ oda[F[o]].parent = o
    BY <1>9, <1>10, <1>16
  <2>2. F[o] \in at .. n
    <3>1. ASSUME F[o] < at PROVE FALSE
      <4>1. at > 1 /\ at - 1 \in 1 .. n
        BY <1>2, <1>3, <2>1, <3>1
      <4>2. F[o] = at - 1 \/ F[o] < at - 1
        BY <1>3, <2>1, <3>1
      <4>3. o <= oda[at - 1].parent
        BY <1>2, <1>4, <2>1, <4>1, <4>2
      <4> QED BY <1>2, <1>3, <1>10, <1>16, <4>1, <4>3
    <3> QED BY <1>2, <1>3, <2>1, <3>1
  <2>3. Begins(oda, F[o])
    <3>1. CASE F[o] = 1
      BY <2>1, <3>1 DEF Begins
    <3>2. CASE F[o] # 1
      <4>1. F[o] - 1 \in 1 .. n
        BY <1>2, <2>1, <3>2
      <4>2. ~(F[o] <= F[o] - 1)
        BY <1>10
      <4>3. oda[F[o] - 1].parent # o
        BY <1>9, <4>1, <4>2
      <4> QED BY <2>1, <3>2, <4>3 DEF Begins
    <3> QED BY <3>1, <3>2
  <2>4. ASSUME NEW i \in at .. n, oda[i].parent = o, Begins(oda, i) PROVE i = F[o]
    <3>1. i \in 1 .. n /\ F[o] <= i
      BY <1>2, <1>3, <1>9, <2>4
    <3>2. ASSUME F[o] < i PROVE FALSE
      <4>0. i \in Int /\ i < F[o] + D[o]
        BY <1>9, <2>4, <3>1
      <4>1. i - 1 \in Int /\ F[o] <= i - 1 /\ i - 1 < F[o] + D[o]
        BY <1>10, <3>2, <4>0
      <4>2. oda[i - 1].parent = o /\ i # 1
        BY <1>9, <2>1, <3>2, <4>1
      <4> QED BY <2>4, <4>2 DEF Begins
    <3> QED BY <1>10, <3>1, <3>2
  <2>5. F[o] = CHOOSE i \in at .. n : oda[i].parent = o /\ Begins(oda, i)
    BY <2>1, <2>2, <2>3, <2>4
  <2>6. F2[o] = 1 + F[o]
    BY <1>7, <1>10, <1>16, <2>1, <2>2, <2>3, <2>5
  <2> QED BY <1>10, <2>2, <2>6
<1> DEFINE D2 == h.dependencies
<1>20. D2 = [D EXCEPT ![parent] = @ + 1]
  BY <1>6
<1>21. F2 \in [Objects -> Nat] /\ D2 \in [Objects -> Nat]
  <2>1. ASSUME NEW o \in Objects PROVE F2[o] \in Nat
    <3>1. CASE o < parent
      BY <1>10, <1>15, <3>1
    <3>2. CASE o = parent
      BY <1>2, <1>3, <1>7, <1>10, <3>2
    <3>3. CASE o > parent /\ D[o] > 0
      BY <1>10, <1>16, <3>3
    <3>4. CASE o > parent /\ ~(D[o] > 0)
      <4>1. \A i \in at .. n : oda[i].parent # o
        BY <1>2, <1>3, <1>9, <1>10, <3>4
      <4> QED BY <1>7, <1>10, <3>4, <4>1
    <3> QED BY <1>10, <3>1, <3>2, <3>3, <3>4
  <2>2. D2 \in [Objects -> Nat]
    BY <1>1, <1>20
  <2>3. F2 \in [Objects -> Nat]
    BY <1>7, <2>1
  <2> QED BY <2>2, <2>3
<1> HIDE DEF D2
<1>22. ASSUME NEW o \in Objects, NEW i \in Int
       PROVE  F2[o] <= i /\ i < F2[o] + D2[o]
              <=> i \in 1 .. n + 1 /\ new[i].parent = o
  <2>1. CASE o < parent
    <3>1. F2[o] = F[o] /\ D2[o] = D[o]
      BY <1>1, <1>10, <1>15, <1>20, <2>1
    <3>2. F2[o] <= i /\ i < F2[o] + D2[o] <=> i \in 1 .. n /\ oda[i].parent = o
      BY <1>9, <3>1
    <3>3. i \in 1 .. n /\ oda[i].parent = o => i < at
      BY <1>15, <2>1
    <3>4. i > at /\ i - 1 \in 1 .. n => oda[i - 1].parent # o
      <4>1. i > at /\ i - 1 \in 1 .. n => ~(i - 1 < at)
        BY <1>3
      <4> QED BY <1>15, <2>1, <4>1
    <3>5. o # parent
      BY <1>10, <2>1
    <3> QED BY <1>14, <3>2, <3>3, <3>4, <3>5
  <2>2. CASE o > parent
    <3>1. D2[o] = D[o] /\ o # parent
      BY <1>1, <1>10, <1>20, <2>2
    <3>2. ASSUME i < at, i \in 1 .. n PROVE oda[i].parent # o
      <4>1. at > 1 /\ at - 1 \in 1 .. n /\ (i = at - 1 \/ i < at - 1)
        BY <1>2, <1>3, <3>2
      <4>2. oda[i].parent <= oda[at - 1].parent
        BY <1>2, <1>4, <3>2, <4>1
      <4> QED BY <1>2, <1>3, <1>10, <2>2, <3>2, <4>1, <4>2
    <3>3. i \in 1 .. n + 1 /\ new[i].parent = o
          <=> i > at /\ i - 1 \in 1 .. n /\ oda[i - 1].parent = o
      BY <1>14, <3>1, <3>2
    <3>4. i - 1 \in Int
      OBVIOUS
    <3>5. F[o] <= i - 1 /\ i - 1 < F[o] + D[o]
          <=> i - 1 \in 1 .. n /\ oda[i - 1].parent = o
      BY <1>9, <3>4
    <3>6. CASE D[o] > 0
      <4>0. F[o] \in Int /\ D[o] \in Int /\ D2[o] = D[o]
        BY <1>10, <3>1
      <4>01. F2[o] = F[o] + 1 /\ F[o] \in at .. n
        BY <1>16, <2>2, <3>6
      <4>1. F2[o] = F[o] + 1 /\ F[o] >= at
        BY <1>3, <4>0, <4>01
      <4>2. F2[o] <= i /\ i < F2[o] + D2[o] <=> F[o] <= i - 1 /\ i - 1 < F[o] + D[o]
        BY ONLY i \in Int, <4>0, <4>1
      <4>3. F[o] <= i - 1 => i > at
        BY <1>3, <1>10, <4>1
      <4> QED BY <3>3, <3>5, <4>2, <4>3
    <3>7. CASE ~(D[o] > 0)
      BY <1>10, <1>21, <3>1, <3>3, <3>5, <3>7
    <3> QED BY <3>6, <3>7
  <2>3. CASE o = parent
    <3>1. D2[o] = D[o] + 1
      BY <1>1, <1>20, <2>3
    <3>2. i \in 1 .. n /\ oda[i].parent = o => i < at
      <4>1. i \in 1 .. n /\ ~(i < at) => i \in at .. n
        BY <1>3
      <4> QED BY <1>2, <1>3, <1>10, <2>3, <4>1
    <3>3. i > at /\ i - 1 \in 1 .. n => oda[i - 1].parent # o
      <4>1. i > at /\ i - 1 \in 1 .. n => i - 1 \in at .. n
        BY <1>3
      <4> QED BY <1>2, <1>3, <1>10, <2>3, <4>1
    <3>4. i \in 1 .. n + 1 /\ new[i].parent = o
          <=> (i \in 1 .. n /\ oda[i].parent = o) \/ i = at
      BY <1>14, <2>3, <3>2, <3>3
    <3>5. i \in 1 .. n /\ oda[i].parent = o <=> F[o] <= i /\ i < F[o] + D[o]
      BY <1>9
    <3>6. CASE at = 1 \/ oda[at - 1].parent # parent
      <4>1. F2[o] = at
        BY <1>7, <2>3, <3>6
      <4>2. D[o] = 0
        <5>1. ASSUME D[o] > 0 PROVE FALSE
          <6>1. F[o] \in 1 .. n /\ oda[F[o]].parent = o
            BY <1>9, <1>10, <5>1
          <6>2. F[o] < at
            <7>1. ~(F[o] < at) => F[o] \in at .. n
              BY <1>3, <6>1
            <7> QED BY <1>2, <1>3, <1>10, <2>3, <6>1, <7>1
          <6>3. at > 1 /\ at - 1 \in 1 .. n /\ (F[o] = at - 1 \/ F[o] < at - 1)
            BY <1>2, <1>3, <6>1, <6>2
          <6>4. oda[F[o]].parent <= oda[at - 1].parent
            BY <1>2, <1>4, <6>1, <6>3
          <6>5. oda[at - 1].parent = parent
            BY <1>2, <1>3, <1>10, <2>3, <6>1, <6>3, <6>4
          <6> QED BY <3>6, <6>3, <6>5
        <5> QED BY <1>10, <5>1
      <4> QED BY <1>3, <1>10, <3>1, <3>4, <3>5, <4>1, <4>2
    <3>7. CASE ~(at = 1 \/ oda[at - 1].parent # parent)
      <4>1. at - 1 \in 1 .. n /\ oda[at - 1].parent = o
        BY <1>2, <1>3, <2>3, <3>7
      <4>2. at - 1 \in Int /\ F[o] <= at - 1 /\ at - 1 < F[o] + D[o]
        BY <1>9, <4>1
      <4>3. ~(\E j \in at .. n : oda[j].parent = o)
        <5>1. \A j \in at .. n : j \in 1 .. n
          BY <1>3
        <5> QED BY <1>2, <1>3, <1>10, <2>3, <5>1
      <4>4. F2[o] = F[o]
        BY <1>7, <2>3, <3>7, <4>3
      <4>5. at = F[o] + D[o]
        <5>1. ASSUME at < F[o] + D[o] PROVE FALSE
          <6>1. at \in Int /\ F[o] <= at
            BY <1>3, <1>10, <4>2
          <6>2. at \in 1 .. n /\ oda[at].parent = o
            BY <1>9, <5>1, <6>1
          <6> QED BY <4>3, <6>2, <1>3
        <5> QED BY <1>3, <1>10, <4>2, <5>1
      <4> QED BY <1>10, <3>1, <3>4, <3>5, <4>4, <4>5
    <3> QED BY <3>6, <3>7
  <2> QED BY <1>10, <2>1, <2>2, <2>3
<1>23. h \in Graphs /\ h.ODA = new /\ h.firstDependency = F2 /\ h.dependencies = D2
  <2>1. h.ODA = new /\ h.firstDependency = F2 /\ h.dependencies = D2
    BY DEF new, F2, D2
  <2> QED BY <1>8, <1>13, <1>21, <2>1 DEF Graphs
<1>24. Sorted(h)
  <2> SUFFICES ASSUME NEW i \in 1 .. n + 1, NEW j \in 1 .. n + 1, i < j
               PROVE  new[i].parent <= new[j].parent
    BY <1>11, <1>23 DEF Sorted
  <2>1. CASE j < at
    <3>1. i \in 1 .. n /\ j \in 1 .. n
      BY <1>2, <1>3, <2>1
    <3> QED BY <1>4, <1>11, <2>1, <1>3, <3>1
  <2>2. CASE j = at
    <3>1. i \in 1 .. n /\ at - 1 \in 1 .. n /\ (i = at - 1 \/ i < at - 1) /\ at > 1
      BY <1>2, <1>3, <2>2
    <3>2. oda[i].parent <= oda[at - 1].parent
      BY <1>2, <1>4, <3>1
    <3> QED BY <1>2, <1>3, <1>10, <1>11, <1>17, <2>2, <3>1, <3>2
  <2>3. CASE j > at /\ i < at
    <3>2. i \in 1 .. n /\ j - 1 \in 1 .. n /\ i < j - 1
      BY <1>2, <1>3, <2>3
    <3>3. new[i] = oda[i] /\ new[j] = oda[j - 1]
      BY <1>11, <2>3
    <3> QED BY <1>4, <3>2, <3>3
  <2>4. CASE j > at /\ i = at
    <3>1. j - 1 \in at .. n /\ j - 1 \in 1 .. n
      BY <1>2, <1>3, <2>4
    <3> QED BY <1>2, <1>3, <1>10, <1>11, <1>17, <2>4, <3>1
  <2>5. CASE j > at /\ i > at
    <3>1. i - 1 \in 1 .. n /\ j - 1 \in 1 .. n /\ i - 1 < j - 1
      BY <1>2, <1>3, <2>5
    <3>2. new[i] = oda[i - 1] /\ new[j] = oda[j - 1]
      BY <1>11, <2>5
    <3> QED BY <1>4, <3>1, <3>2
  <2> QED BY <1>3, <2>1, <2>2, <2>3, <2>4, <2>5
<1>25. Indexed(h)
  <2>1. \A o \in Objects : \A i \in Int :
           /\ h.firstDependency[o] <= i
           /\ i < h.firstDependency[o] + h.dependencies[o]
           <=> i \in 1 .. Len(h.ODA) /\ h.ODA[i].parent = o
    BY <1>11, <1>22, <1>23
  <2> QED BY <1>23, <1>24, <2>1, IndexedIf
<1>26. \A i \in 1 .. n + 1 : new[i] = IF i < at THEN oda[i] ELSE IF i = at THEN edge ELSE oda[i - 1]
  BY <1>2, <1>3, <1>11
<1> QED BY <1>11, <1>23, <1>25, <1>26 DEF h, new, oda, n, at, edge

(* So does the removal of any edge.                                        *)
LEMMA RemoveKeepsIndexed ==
    ASSUME NEW g \in Graphs, Indexed(g), NEW dep \in 1 .. Len(g.ODA)
    PROVE  /\ CKremoveObjectDep(g, dep) \in Graphs
           /\ Indexed(CKremoveObjectDep(g, dep))
           /\ Len(CKremoveObjectDep(g, dep).ODA) = Len(g.ODA) - 1
           /\ \A i \in 1 .. Len(g.ODA) - 1 :
                  CKremoveObjectDep(g, dep).ODA[i] =
                      IF i < dep THEN g.ODA[i] ELSE g.ODA[i + 1]
           /\ CKremoveObjectDep(g, dep).dependencies
                  = [g.dependencies EXCEPT ![g.ODA[dep].parent] = @ - 1]
<1> DEFINE oda == g.ODA
           n   == Len(oda)
           h   == CKremoveObjectDep(g, dep)
           F   == g.firstDependency
           D   == g.dependencies
           new == [i \in 1 .. n - 1 |-> IF i < dep THEN oda[i] ELSE oda[i + 1]]
           Moved(o, i) == new[i].parent = o /\ (i = 1 \/ new[i - 1].parent # o)
           F2  == h.firstDependency
           D2  == h.dependencies
           p   == oda[dep].parent
<1>1. oda \in Seq(Edges) /\ F \in [Objects -> Nat] /\ D \in [Objects -> Nat]
  BY DEF Graphs
<1>2. n \in Nat /\ \A i \in 1 .. n : oda[i] \in Edges /\ oda[i].parent \in Objects /\ oda[i].parent \in Nat
  <2>1. \A i \in 1 .. n : oda[i] \in Edges
    BY <1>1
  <2>2. \A i \in 1 .. n : oda[i].parent \in Objects /\ oda[i].parent \in Nat
    BY <2>1, EdgeEnds
  <2>3. n \in Nat
    BY <1>1
  <2> QED BY <2>1, <2>2, <2>3
<1>3. dep \in 1 .. n /\ p \in Objects /\ p \in Nat
  BY <1>2
<1>4. \A i, j \in 1 .. n : i < j => oda[i].parent <= oda[j].parent
  BY DEF Indexed, Sorted
<1>5. \A o \in Objects : o \in Nat /\ F[o] \in Nat /\ D[o] \in Nat
  BY <1>1, EdgeEnds
<1>6. \A o \in Objects : \A i \in Int :
         F[o] <= i /\ i < F[o] + D[o] <=> i \in 1 .. n /\ oda[i].parent = o
  BY SlotsOf
<1>7. h.ODA = new
  BY DEF CKremoveObjectDep
<1>8. D2 = [D EXCEPT ![p] = @ - 1]
  BY DEF CKremoveObjectDep
<1>9. F2 = [o \in Objects |->
             IF \E i \in dep .. n - 1 : Moved(o, i)
             THEN CHOOSE i \in dep .. n - 1 : Moved(o, i)
             ELSE F[o]]
  BY DEF CKremoveObjectDep
<1>10. h = [ODA |-> new, firstDependency |-> F2, dependencies |-> D2]
  BY DEF CKremoveObjectDep
<1>11. /\ \A i \in 1 .. n - 1 : i < dep => new[i] = oda[i]
       /\ \A i \in 1 .. n - 1 : ~(i < dep) => new[i] = oda[i + 1]
  OBVIOUS
<1>12. Len(new) = n - 1 /\ new \in Seq(Edges)
  <2>1. n - 1 \in Nat
    BY <1>2, <1>3
  <2>2. ASSUME NEW i \in 1 .. n - 1 PROVE new[i] \in Edges
    <3>1. i \in 1 .. n /\ i + 1 \in 1 .. n
      BY <1>2
    <3> QED BY <1>2, <1>11, <3>1
  <2>3. new = [i \in 1 .. n - 1 |-> new[i]] /\ DOMAIN new = 1 .. n - 1
    OBVIOUS
  <2> HIDE DEF new
  <2>4. new \in [1 .. n - 1 -> Edges]
    BY <2>2, <2>3
  <2> QED BY <2>1, <2>3, <2>4
<1> HIDE DEF oda, n, h, F, D, new, F2, D2, p, Moved
(* Where the new array's edges were. *)
<1>13. ASSUME NEW i \in 1 .. n - 1
       PROVE  /\ i < dep => i \in 1 .. n /\ new[i] = oda[i]
              /\ ~(i < dep) => i + 1 \in 1 .. n /\ new[i] = oda[i + 1]
  BY <1>2, <1>11
<1>14. ASSUME NEW o \in Objects, o < p
       PROVE  F2[o] = F[o] /\ D2[o] = D[o] /\ \A i \in 1 .. n : oda[i].parent = o => i < dep
  <2>1. ASSUME NEW i \in 1 .. n, oda[i].parent = o PROVE i < dep
    BY <1>2, <1>3, <1>4, <1>5, <1>14, <2>1 DEF p
  <2>2. ASSUME NEW i \in dep .. n - 1 PROVE ~Moved(o, i)
    <3>1. i \in 1 .. n - 1 /\ ~(i < dep) /\ i + 1 \in 1 .. n /\ ~(i + 1 < dep)
      BY <1>2, <1>3
    <3> QED BY <1>13, <2>1, <3>1 DEF Moved
  <2>3. o # p
    BY <1>3, <1>5, <1>14
  <2> QED BY <1>1, <1>8, <1>9, <2>1, <2>2, <2>3
<1>15. ASSUME NEW o \in Objects, o > p
       PROVE  /\ D2[o] = D[o]
              /\ \A i \in 1 .. n : oda[i].parent = o => i > dep
              /\ D[o] > 0 => F2[o] = F[o] - 1 /\ F[o] \in dep + 1 .. n
              /\ ~(D[o] > 0) => F2[o] \in Nat
  <2>1. ASSUME NEW i \in 1 .. n, oda[i].parent = o PROVE i > dep
    BY <1>2, <1>3, <1>4, <1>5, <1>15, <2>1 DEF p
  <2>2. D2[o] = D[o]
    BY <1>1, <1>3, <1>5, <1>8, <1>15
  <2>3. CASE D[o] > 0
    <3>1. F[o] \in 1 .. n /\ oda[F[o]].parent = o
      BY <1>5, <1>6, <2>3
    <3>2. F[o] \in dep + 1 .. n /\ F[o] - 1 \in dep .. n - 1 /\ F[o] - 1 \in 1 .. n - 1
      BY <1>2, <1>3, <2>1, <3>1
    <3>3. new[F[o] - 1].parent = o
      <4>1. ~(F[o] - 1 < dep) /\ (F[o] - 1) + 1 = F[o]
        BY <1>2, <1>3, <3>2
      <4> QED BY <1>13, <3>1, <3>2, <4>1
    <3>4. Moved(o, F[o] - 1)
      <4>1. CASE F[o] - 1 = dep
        <5>1. CASE dep = 1
          BY <3>3, <4>1, <5>1 DEF Moved
        <5>2. CASE dep > 1
          <6>1. dep - 1 \in 1 .. n /\ dep - 1 < dep /\ dep - 1 \in 1 .. n - 1
            BY <1>2, <1>3, <5>2
          <6>2. new[dep - 1].parent <= p
            BY <1>3, <1>4, <1>13, <6>1 DEF p
          <6>3. new[dep - 1].parent # o
            BY <1>2, <1>3, <1>5, <1>13, <1>15, <6>1, <6>2
          <6> QED BY <3>3, <4>1, <6>3 DEF Moved
        <5> QED BY <1>3, <5>1, <5>2
      <4>2. CASE F[o] - 1 > dep
        <5>1. F[o] - 2 \in 1 .. n - 1 /\ ~(F[o] - 2 < dep) /\ (F[o] - 2) + 1 = F[o] - 1 /\ F[o] - 1 \in 1 .. n
          BY <1>2, <1>3, <3>2, <4>2
        <5>2. oda[F[o] - 1].parent # o
          <6>1. ~(F[o] <= F[o] - 1)
            BY <1>5
          <6> QED BY <1>6, <5>1, <6>1
        <5>3. new[F[o] - 2].parent # o /\ (F[o] - 1) - 1 = F[o] - 2
          BY <1>5, <1>13, <5>1, <5>2
        <5> QED BY <3>3, <5>3 DEF Moved
      <4> QED BY <1>3, <3>2, <4>1, <4>2
    <3>5. ASSUME NEW i \in dep .. n - 1, Moved(o, i) PROVE i = F[o] - 1
      <4>1. i \in 1 .. n - 1 /\ ~(i < dep) /\ i + 1 \in 1 .. n /\ new[i].parent = o
        BY <1>2, <1>3, <3>5 DEF Moved
      <4>2. i + 1 \in Int /\ oda[i + 1].parent = o
        BY <1>13, <4>1
      <4>3. F[o] <= i + 1 /\ i + 1 < F[o] + D[o]
        BY <1>6, <4>1, <4>2
      <4>4. ASSUME F[o] < i + 1 PROVE FALSE
        <5>1. i \in Int /\ F[o] <= i /\ i < F[o] + D[o]
          BY <1>3, <1>5, <4>3, <4>4
        <5>2. oda[i].parent = o /\ i > dep /\ i \in 1 .. n
          BY <1>6, <2>1, <5>1
        <5>3. i - 1 \in 1 .. n - 1 /\ ~(i - 1 < dep) /\ (i - 1) + 1 = i /\ i # 1
          BY <1>2, <1>3, <5>2
        <5>4. new[i - 1].parent = o
          BY <1>13, <5>2, <5>3
        <5> QED BY <3>5, <5>3, <5>4 DEF Moved
      <4> QED BY <1>3, <1>5, <4>3, <4>4
    <3>6. F[o] - 1 = CHOOSE i \in dep .. n - 1 : Moved(o, i)
      BY <3>2, <3>4, <3>5
    <3>7. F2[o] = F[o] - 1
      BY <1>9, <3>2, <3>4, <3>6
    <3> QED BY <2>1, <2>2, <2>3, <3>2, <3>7
  <2>4. CASE ~(D[o] > 0)
    <3>1. \A i \in dep .. n - 1 : ~Moved(o, i)
      <4> TAKE i \in dep .. n - 1
      <4>1. i \in 1 .. n - 1 /\ ~(i < dep) /\ i + 1 \in 1 .. n /\ i + 1 \in Int
        BY <1>2, <1>3
      <4>2. ~(F[o] <= i + 1 /\ i + 1 < F[o] + D[o])
        BY <1>5, <2>4, <4>1
      <4> QED BY <1>6, <1>13, <4>1, <4>2 DEF Moved
    <3> QED BY <1>5, <1>9, <2>1, <2>2, <2>4, <3>1
  <2> QED BY <2>3, <2>4
<1>16. /\ D2[p] = D[p] - 1 /\ D[p] > 0
       /\ F[p] <= dep /\ dep < F[p] + D[p]
       /\ F2[p] = F[p]
  <2>1. F[p] <= dep /\ dep < F[p] + D[p]
    BY <1>3, <1>6 DEF p
  <2>2. D[p] > 0 /\ D2[p] = D[p] - 1
    BY <1>1, <1>3, <1>5, <1>8, <2>1
  <2>3. ASSUME NEW i \in dep .. n - 1, Moved(p, i) PROVE i = F[p]
    <3>1. i \in 1 .. n - 1 /\ ~(i < dep) /\ i + 1 \in 1 .. n /\ new[i].parent = p
      BY <1>2, <1>3, <2>3 DEF Moved
    <3>2. i + 1 \in Int /\ oda[i + 1].parent = p
      BY <1>13, <3>1
    <3>3. i + 1 < F[p] + D[p]
      BY <1>3, <1>6, <3>1, <3>2
    <3>4. ASSUME i > dep PROVE FALSE
      <4>1. i - 1 \in 1 .. n - 1 /\ ~(i - 1 < dep) /\ (i - 1) + 1 = i /\ i # 1 /\ i \in 1 .. n /\ i \in Int
        BY <1>2, <1>3, <3>1, <3>4
      <4>2. F[p] <= i /\ i < F[p] + D[p]
        BY <1>3, <1>5, <2>1, <3>3, <3>4
      <4>3. oda[i].parent = p
        BY <1>3, <1>6, <4>1, <4>2
      <4>4. new[i - 1].parent = p
        BY <1>13, <4>1, <4>3
      <4> QED BY <2>3, <4>1, <4>4 DEF Moved
    <3>5. i = dep
      BY <1>3, <3>4
    <3>6. ASSUME F[p] < dep PROVE FALSE
      <4>1. dep - 1 \in 1 .. n /\ dep - 1 \in 1 .. n - 1 /\ dep - 1 < dep /\ dep # 1
        <5>1. dep - 1 \in Int /\ F[p] <= dep - 1 /\ dep - 1 < F[p] + D[p]
          BY <1>3, <1>5, <2>1, <3>6
        <5>2. dep - 1 \in 1 .. n
          BY <1>3, <1>6, <5>1
        <5> QED BY <1>2, <1>3, <5>2
      <4>2. dep - 1 \in Int /\ F[p] <= dep - 1 /\ dep - 1 < F[p] + D[p]
        BY <1>3, <1>5, <2>1, <3>6
      <4>3. oda[dep - 1].parent = p
        BY <1>3, <1>6, <4>2
      <4>4. new[dep - 1].parent = p
        BY <1>13, <4>1, <4>3
      <4> QED BY <2>3, <3>5, <4>1, <4>4 DEF Moved
    <3> QED BY <1>3, <1>5, <2>1, <3>5, <3>6
  <2>4. F2[p] = F[p]
    <3>1. CASE \E i \in dep .. n - 1 : Moved(p, i)
      <4>1. PICK i \in dep .. n - 1 : Moved(p, i)
        BY <3>1
      <4>2. F[p] \in dep .. n - 1 /\ Moved(p, F[p])
        BY <2>3, <4>1
      <4>3. F[p] = CHOOSE j \in dep .. n - 1 : Moved(p, j)
        BY <2>3, <4>2
      <4> QED BY <1>3, <1>9, <3>1, <4>3
    <3>2. CASE ~\E i \in dep .. n - 1 : Moved(p, i)
      BY <1>3, <1>9, <3>2
    <3> QED BY <3>1, <3>2
  <2> QED BY <2>1, <2>2, <2>4
<1>17. F2 \in [Objects -> Nat] /\ D2 \in [Objects -> Nat]
  <2>1. ASSUME NEW o \in Objects PROVE F2[o] \in Nat /\ D2[o] \in Nat
    <3>1. CASE o < p
      BY <1>5, <1>14, <3>1
    <3>2. CASE o > p /\ D[o] > 0
      BY <1>3, <1>5, <1>15, <3>2
    <3>3. CASE o > p /\ ~(D[o] > 0)
      BY <1>5, <1>15, <3>3
    <3>4. CASE o = p
      BY <1>3, <1>5, <1>16, <3>4
    <3> QED BY <1>3, <1>5, <3>1, <3>2, <3>3, <3>4
  <2>2. F2 = [o \in Objects |-> F2[o]] /\ D2 = [o \in Objects |-> D2[o]]
    BY <1>1, <1>8, <1>9
  <2> QED BY <2>1, <2>2
<1>18. h \in Graphs /\ h.ODA = new /\ h.firstDependency = F2 /\ h.dependencies = D2
  <2>1. h.ODA = new /\ h.firstDependency = F2 /\ h.dependencies = D2
    BY <1>7 DEF F2, D2
  <2> QED BY <1>10, <1>12, <1>17, <2>1 DEF Graphs
<1>19. Sorted(h)
  <2> SUFFICES ASSUME NEW i \in 1 .. n - 1, NEW j \in 1 .. n - 1, i < j
               PROVE  new[i].parent <= new[j].parent
    BY <1>12, <1>18 DEF Sorted
  <2>1. CASE j < dep
    <3>1. i < dep
      BY <1>3, <2>1
    <3> QED BY <1>4, <1>13, <2>1, <3>1
  <2>2. CASE ~(j < dep) /\ i < dep
    <3>1. i < j + 1
      BY <2>2
    <3> QED BY <1>4, <1>13, <2>2, <3>1
  <2>3. CASE ~(j < dep) /\ ~(i < dep)
    <3>1. i + 1 < j + 1
      OBVIOUS
    <3> QED BY <1>4, <1>13, <2>3, <3>1
  <2> QED BY <1>3, <2>1, <2>2, <2>3
<1>20. ASSUME NEW o \in Objects, NEW i \in Int
       PROVE  F2[o] <= i /\ i < F2[o] + D2[o]
              <=> i \in 1 .. n - 1 /\ new[i].parent = o
  <2>0. i \in 1 .. n - 1 /\ new[i].parent = o
        <=> \/ i < dep /\ i \in 1 .. n /\ oda[i].parent = o
            \/ ~(i < dep) /\ i + 1 \in 1 .. n /\ oda[i + 1].parent = o
    <3>1. CASE i < dep
      <4>1. i \in 1 .. n - 1 <=> i \in 1 .. n
        BY <1>2, <1>3, <3>1
      <4> QED BY <1>13, <3>1, <4>1
    <3>2. CASE ~(i < dep)
      <4>1. i \in 1 .. n - 1 <=> i + 1 \in 1 .. n
        BY <1>2, <1>3, <3>2
      <4> QED BY <1>13, <3>2, <4>1
    <3> QED BY <3>1, <3>2
  <2>00. /\ i \in 1 .. n /\ oda[i].parent = o <=> F[o] <= i /\ i < F[o] + D[o]
         /\ i + 1 \in 1 .. n /\ oda[i + 1].parent = o
              <=> F[o] <= i + 1 /\ i + 1 < F[o] + D[o]
    BY <1>6
  <2>1. CASE o < p
    <3>1. i \in 1 .. n /\ oda[i].parent = o => i < dep
      BY <1>14, <2>1
    <3>2. i + 1 \in 1 .. n /\ oda[i + 1].parent = o => i < dep
      <4>1. i + 1 < dep => i < dep
        BY <1>3
      <4> QED BY <1>14, <2>1, <4>1
    <3> QED BY <1>14, <2>0, <2>00, <2>1, <3>1, <3>2
  <2>2. CASE o > p
    <3>1. i \in 1 .. n /\ oda[i].parent = o => ~(i < dep)
      <4>1. i > dep => ~(i < dep)
        BY <1>3
      <4> QED BY <1>15, <2>2, <4>1
    <3>2. i + 1 \in 1 .. n /\ oda[i + 1].parent = o => ~(i < dep)
      <4>1. i + 1 > dep => ~(i < dep)
        BY <1>3
      <4> QED BY <1>15, <2>2, <4>1
    <3>3. i \in 1 .. n - 1 /\ new[i].parent = o <=> F[o] <= i + 1 /\ i + 1 < F[o] + D[o]
      BY <2>0, <2>00, <3>1, <3>2
    <3>4. CASE D[o] > 0
      <4>1. F2[o] = F[o] - 1 /\ D2[o] = D[o]
        BY <1>15, <2>2, <3>4
      <4>2. F[o] \in Int /\ D[o] \in Int
        BY <1>5
      <4>3. F2[o] <= i /\ i < F2[o] + D2[o] <=> F[o] <= i + 1 /\ i + 1 < F[o] + D[o]
        BY ONLY i \in Int, <4>1, <4>2
      <4> QED BY <3>3, <4>3
    <3>5. CASE ~(D[o] > 0)
      <4>1. F2[o] \in Nat /\ D2[o] = D[o]
        BY <1>15, <2>2, <3>5
      <4> QED BY <1>5, <3>3, <3>5, <4>1
    <3> QED BY <3>4, <3>5
  <2>3. CASE o = p
    <3>1. i \in 1 .. n - 1 /\ new[i].parent = o
          <=> \/ i < dep /\ F[o] <= i /\ i < F[o] + D[o]
              \/ ~(i < dep) /\ F[o] <= i + 1 /\ i + 1 < F[o] + D[o]
      BY <2>0, <2>00
    <3> QED BY <1>3, <1>5, <1>16, <2>3, <3>1
  <2> QED BY <1>3, <1>5, <2>1, <2>2, <2>3
<1>21. Indexed(h)
  <2>1. \A o \in Objects : \A i \in Int :
           /\ h.firstDependency[o] <= i
           /\ i < h.firstDependency[o] + h.dependencies[o]
           <=> i \in 1 .. Len(h.ODA) /\ h.ODA[i].parent = o
    BY <1>12, <1>18, <1>20
  <2> QED BY <1>18, <1>19, <2>1, IndexedIf
<1>22. \A i \in 1 .. n - 1 : new[i] = IF i < dep THEN oda[i] ELSE oda[i + 1]
  BY <1>13
<1> QED BY <1>8, <1>12, <1>18, <1>21, <1>22 DEF h, oda, n, D, p

-----------------------------------------------------------------------------
(* No edge, no group.                                                      *)
LEMMA EmptyIndexed == EmptyGraph \in Graphs /\ Indexed(EmptyGraph)
                      /\ EdgeSet(EmptyGraph) = {} /\ Once(EmptyGraph)
<1>1. EmptyGraph \in Graphs /\ EmptyGraph.ODA = <<>>
  BY DEF EmptyGraph, Graphs
<1>2. Sorted(EmptyGraph) /\ EdgeSet(EmptyGraph) = {} /\ Once(EmptyGraph)
  BY <1>1 DEF Sorted, EdgeSet, Once
<1>3. \A o \in Objects : EmptyGraph.firstDependency[o] = 0 /\ EmptyGraph.dependencies[o] = 0
  BY DEF EmptyGraph
<1>4. \A o \in Objects : \A i \in Int :
         /\ EmptyGraph.firstDependency[o] <= i
         /\ i < EmptyGraph.firstDependency[o] + EmptyGraph.dependencies[o]
         <=> i \in 1 .. Len(EmptyGraph.ODA) /\ EmptyGraph.ODA[i].parent = o
  BY <1>1, <1>3
<1> QED BY <1>1, <1>2, <1>4, IndexedIf

(* An object has dependencies if and only if it is the parent of an edge.  *)
LEMMA HasDependants ==
    ASSUME NEW g \in Graphs, Indexed(g), NEW o \in Objects
    PROVE  /\ g.dependencies[o] \in Nat
           /\ g.dependencies[o] > 0 <=> \E e \in EdgeSet(g) : e.parent = o
           /\ g.dependencies[o] > 0 =>
                  g.firstDependency[o] \in 1 .. Len(g.ODA) /\ g.ODA[g.firstDependency[o]].parent = o
<1> DEFINE f == g.firstDependency[o]
           d == g.dependencies[o]
<1>1. f \in Nat /\ d \in Nat /\ \A i \in Int :
         f <= i /\ i < f + d <=> i \in 1 .. Len(g.ODA) /\ g.ODA[i].parent = o
  BY SlotsOf
<1> HIDE DEF f, d
<1>2. d > 0 => f \in 1 .. Len(g.ODA) /\ g.ODA[f].parent = o
  BY <1>1
<1>3. ASSUME NEW i \in 1 .. Len(g.ODA), g.ODA[i].parent = o PROVE d > 0
  BY <1>1, <1>3
<1> QED BY <1>1, <1>2, <1>3 DEF EdgeSet, f, d

(* CKaddObjectDep adds its edge to the set.                                *)
LEMMA AddAdds ==
    ASSUME NEW g \in Graphs, Indexed(g), NEW parent \in Objects, NEW child \in Objects
    PROVE  /\ EdgeSet(CKaddObjectDep(g, parent, child))
                  = EdgeSet(g) \cup {[parent |-> parent, child |-> child]}
           /\ Once(g) /\ [parent |-> parent, child |-> child] \notin EdgeSet(g)
                  => Once(CKaddObjectDep(g, parent, child))
<1> DEFINE oda  == g.ODA
           n    == Len(oda)
           at   == Place(oda, parent)
           new  == CKaddObjectDep(g, parent, child).ODA
           edge == [parent |-> parent, child |-> child]
<1>1. n \in Nat /\ oda \in Seq(Edges)
  BY DEF Graphs
<1>2. at \in 1 .. n + 1
  BY <1>1, PlaceExists
<1>3. /\ Len(new) = n + 1
      /\ \A i \in 1 .. n + 1 :
            new[i] = IF i < at THEN oda[i] ELSE IF i = at THEN edge ELSE oda[i - 1]
  BY AddKeepsIndexed
<1> HIDE DEF oda, n, at, new, edge
<1>4. ASSUME NEW i \in 1 .. n + 1
      PROVE  \/ i < at /\ i \in 1 .. n /\ new[i] = oda[i]
             \/ i = at /\ new[i] = edge
             \/ i > at /\ i - 1 \in 1 .. n /\ new[i] = oda[i - 1]
  BY <1>1, <1>2, <1>3
<1>5. ASSUME NEW i \in 1 .. n PROVE \E j \in 1 .. n + 1 : new[j] = oda[i]
  <2>1. CASE i < at
    BY <1>1, <1>2, <1>3, <2>1
  <2>2. CASE ~(i < at)
    <3>1. i + 1 \in 1 .. n + 1 /\ ~(i + 1 < at) /\ i + 1 # at /\ (i + 1) - 1 = i
      BY <1>1, <1>2, <2>2
    <3>2. new[i + 1] = oda[i]
      BY <1>3, <3>1
    <3> QED BY <3>1, <3>2
  <2> QED BY <2>1, <2>2
<1>6. new[at] = edge
  BY <1>2, <1>3
<1>7. { new[i] : i \in 1 .. n + 1 } = { oda[i] : i \in 1 .. n } \cup {edge}
  <2>1. \A i \in 1 .. n + 1 : new[i] \in { oda[j] : j \in 1 .. n } \cup {edge}
    BY <1>4
  <2>2. \A i \in 1 .. n : oda[i] \in { new[j] : j \in 1 .. n + 1 }
    BY <1>5
  <2> QED BY <1>2, <1>6, <2>1, <2>2
<1>8. ASSUME \A i, j \in 1 .. n : oda[i] = oda[j] => i = j,
             edge \notin { oda[i] : i \in 1 .. n },
             NEW i \in 1 .. n + 1, NEW j \in 1 .. n + 1, new[i] = new[j]
      PROVE  i = j
  <2>1. \A k \in 1 .. n : oda[k] # edge
    BY <1>8
  <2>2. CASE i < at
    BY <1>2, <1>4, <1>8, <2>1, <2>2
  <2>3. CASE i = at
    BY <1>2, <1>4, <1>6, <1>8, <2>1, <2>3
  <2>4. CASE i > at
    BY <1>2, <1>4, <1>8, <2>1, <2>4
  <2> QED BY <1>2, <2>2, <2>3, <2>4
<1> QED BY <1>3, <1>7, <1>8 DEF EdgeSet, Once, oda, n, new, edge

(* CKremoveDepSearch takes the edge away.                                  *)
LEMMA RemoveRemoves ==
    ASSUME NEW g \in Graphs, Indexed(g), Once(g), NEW object \in Objects, NEW child \in Objects
    PROVE  LET h == CKremoveDepSearch(g, object, child)
           IN  /\ h \in Graphs /\ Indexed(h) /\ Once(h)
               /\ EdgeSet(h) = EdgeSet(g) \ {[parent |-> object, child |-> child]}
<1> DEFINE oda  == g.ODA
           n    == Len(oda)
           edge == [parent |-> object, child |-> child]
           dep  == { i \in Group(g, object) : oda[i].child = child }
           h    == CKremoveDepSearch(g, object, child)
<1>1. n \in Nat /\ oda \in Seq(Edges) /\ \A i \in 1 .. n : oda[i] \in Edges
  <2>1. oda \in Seq(Edges)
    BY DEF Graphs
  <2> QED BY <2>1
<1>2. \A i \in dep : i \in 1 .. n /\ oda[i].parent = object /\ oda[i].child = child
  BY DEF Indexed, InArray, Grouped
<1>3. \A i \in 1 .. n : oda[i] = edge <=> i \in dep
  <2> TAKE i \in 1 .. n
  <2>1. oda[i] = edge <=> oda[i].parent = object /\ oda[i].child = child
    BY <1>1 DEF Edges
  <2>2. oda[i].parent = object <=> i \in Group(g, object)
    BY DEF Indexed, Grouped
  <2> QED BY <2>1, <2>2
<1>4. CASE dep = {}
  <2>1. h = g
    BY <1>4 DEF CKremoveDepSearch
  <2>2. edge \notin EdgeSet(g)
    BY <1>3, <1>4 DEF EdgeSet
  <2> QED BY <2>1, <2>2
<1>5. CASE dep # {}
  <2>1. PICK d \in dep : TRUE
    BY <1>5
  <2>2. \A i \in dep : i = d
    BY <1>2, <1>3, <2>1 DEF Once
  <2>3. d = CHOOSE i \in dep : \A j \in dep : i <= j
    <3>1. d \in Int
      BY <1>2, <2>1
    <3> QED BY <2>1, <2>2, <3>1
  <2>4. h = CKremoveObjectDep(g, d)
    BY <1>5, <2>3 DEF CKremoveDepSearch
  <2>5. d \in 1 .. n
    BY <1>2, <2>1
  <2>6. /\ h \in Graphs /\ Indexed(h) /\ Len(h.ODA) = n - 1
        /\ \A i \in 1 .. n - 1 : h.ODA[i] = IF i < d THEN oda[i] ELSE oda[i + 1]
    <3> DEFINE r == CKremoveObjectDep(g, d)
    <3>1. /\ r \in Graphs /\ Indexed(r) /\ Len(r.ODA) = n - 1
          /\ \A i \in 1 .. n - 1 : r.ODA[i] = IF i < d THEN oda[i] ELSE oda[i + 1]
      BY <2>5, RemoveKeepsIndexed
    <3>2. h = r
      BY <2>4
    <3> HIDE DEF h, r
    <3> QED BY <3>1, <3>2
  <2>7. \A i \in 1 .. n : oda[i] = edge <=> i = d
    BY <1>3, <2>1, <2>2
  <2>8. \A i, j \in 1 .. n : oda[i] = oda[j] => i = j
    BY DEF Once
  <2> DEFINE new == h.ODA
  <2> HIDE DEF oda, n, edge, dep, h, new
  <2>9. ASSUME NEW i \in 1 .. n - 1
        PROVE  \/ i < d /\ i \in 1 .. n /\ new[i] = oda[i]
               \/ ~(i < d) /\ i + 1 \in 1 .. n /\ i + 1 # d /\ new[i] = oda[i + 1]
    <3>1. new[i] = IF i < d THEN oda[i] ELSE oda[i + 1]
      BY <2>6 DEF new
    <3> QED BY <1>1, <2>5, <3>1
  <2>10. ASSUME NEW i \in 1 .. n, i # d PROVE \E j \in 1 .. n - 1 : new[j] = oda[i]
    <3>1. CASE i < d
      <4>1. i \in 1 .. n - 1
        BY <1>1, <2>5, <3>1
      <4> QED BY <2>9, <3>1, <4>1
    <3>2. CASE i > d
      <4>1. i - 1 \in 1 .. n - 1 /\ ~(i - 1 < d) /\ (i - 1) + 1 = i
        BY <1>1, <2>5, <3>2
      <4>2. new[i - 1] = oda[i]
        BY <2>9, <4>1
      <4> QED BY <4>1, <4>2
    <3> QED BY <2>5, <2>10, <3>1, <3>2
  <2>11. { new[i] : i \in 1 .. n - 1 } = { oda[i] : i \in 1 .. n } \ {edge}
    <3>1. \A i \in 1 .. n - 1 : new[i] \in { oda[j] : j \in 1 .. n } \ {edge}
      <4> TAKE i \in 1 .. n - 1
      <4>1. \E j \in 1 .. n : j # d /\ new[i] = oda[j]
        <5>1. CASE i < d
          BY <2>5, <2>9, <5>1
        <5>2. CASE ~(i < d)
          BY <2>9, <5>2
        <5> QED BY <5>1, <5>2
      <4> QED BY <2>7, <4>1
    <3>2. \A i \in 1 .. n : oda[i] # edge => oda[i] \in { new[j] : j \in 1 .. n - 1 }
      BY <2>7, <2>10
    <3> QED BY <3>1, <3>2
  <2>12. EdgeSet(h) = EdgeSet(g) \ {edge}
    BY <2>6, <2>11 DEF EdgeSet, new, oda, n
  <2>13. ASSUME NEW i \in 1 .. n - 1, NEW j \in 1 .. n - 1, new[i] = new[j] PROVE i = j
    <3>1. CASE i < d
      BY <1>1, <2>5, <2>8, <2>9, <2>13, <3>1
    <3>2. CASE ~(i < d)
      BY <1>1, <2>5, <2>8, <2>9, <2>13, <3>2
    <3> QED BY <3>1, <3>2
  <2>14. Once(h)
    BY <2>6, <2>13 DEF Once, new
  <2> QED BY <2>6, <2>12, <2>14 DEF h, edge
<1> QED BY <1>4, <1>5

-----------------------------------------------------------------------------
(* Only threads have an address space in their header; the unloading of    *)
(* the others takes one edge away.                                         *)
SpacesOfThreads == \A o \in Objects : Kind(o) # "Thread" => header[o].space = NoObject

(* The inductive invariant.  ParentsLoaded rests on GraphIsLinks (an       *)
(* object without edges has no dependants), GraphIsLinks on GraphIndexed   *)
(* (an object finds its edges), and all of them on one another: an object  *)
(* that is loaded at a free address finds no edges there.                  *)
IInv == TypeOK /\ GraphIndexed /\ GraphIsLinks /\ ParentsLoaded /\ SpacesOfThreads

Healthy(g) == g \in Graphs /\ Indexed(g) /\ Once(g)

EdgesOf(o, h) == { [parent |-> p, child |-> o] : p \in Depends(h) }

-----------------------------------------------------------------------------
LEMMA LinkedKeeps ==
    ASSUME NEW g, Healthy(g), NEW o \in Objects, NEW p \in OrNone(Objects),
           [parent |-> p, child |-> o] \notin EdgeSet(g)
    PROVE  /\ Healthy(Linked(g, o, p))
           /\ EdgeSet(Linked(g, o, p)) =
                  EdgeSet(g) \cup { [parent |-> q, child |-> o] : q \in {p} \ {NoObject} }
<1>1. CASE p = NoObject
  BY <1>1 DEF Linked
<1>2. CASE p # NoObject
  <2>1. p \in Objects /\ Linked(g, o, p) = CKaddObjectDep(g, p, o)
    BY <1>2 DEF Linked, OrNone
  <2>2. /\ CKaddObjectDep(g, p, o) \in Graphs /\ Indexed(CKaddObjectDep(g, p, o))
        /\ Once(CKaddObjectDep(g, p, o))
        /\ EdgeSet(CKaddObjectDep(g, p, o)) = EdgeSet(g) \cup {[parent |-> p, child |-> o]}
    BY <2>1, AddKeepsIndexed, AddAdds DEF Healthy
  <2> QED BY <1>2, <2>1, <2>2 DEF Healthy
<1> QED BY <1>1, <1>2

LEMMA UnlinkedKeeps ==
    ASSUME NEW g, Healthy(g), NEW o \in Objects, NEW p \in OrNone(Objects)
    PROVE  /\ Healthy(Unlinked(g, o, p))
           /\ EdgeSet(Unlinked(g, o, p)) =
                  EdgeSet(g) \ { [parent |-> q, child |-> o] : q \in {p} \ {NoObject} }
<1>1. CASE p = NoObject
  BY <1>1 DEF Unlinked
<1>2. CASE p # NoObject
  <2>1. p \in Objects /\ Unlinked(g, o, p) = CKremoveDepSearch(g, p, o)
    BY <1>2 DEF Unlinked, OrNone
  <2>2. /\ CKremoveDepSearch(g, p, o) \in Graphs /\ Indexed(CKremoveDepSearch(g, p, o))
        /\ Once(CKremoveDepSearch(g, p, o))
        /\ EdgeSet(CKremoveDepSearch(g, p, o)) = EdgeSet(g) \ {[parent |-> p, child |-> o]}
    BY <2>1, RemoveRemoves DEF Healthy
  <2> QED BY <1>2, <2>1, <2>2 DEF Healthy
<1> QED BY <1>1, <1>2

(* A header without dependants can be written anew.                        *)
LEMMA FreshKeeps ==
    ASSUME NEW g, Healthy(g), NEW o \in Objects, \A e \in EdgeSet(g) : e.parent # o
    PROVE  Healthy(Fresh(g, o)) /\ EdgeSet(Fresh(g, o)) = EdgeSet(g)
<1> DEFINE h == Fresh(g, o)
<1>1. g.dependencies[o] = 0
  BY HasDependants DEF Healthy
<1>2. /\ h = [ODA |-> g.ODA,
              firstDependency |-> [g.firstDependency EXCEPT ![o] = 0],
              dependencies |-> [g.dependencies EXCEPT ![o] = 0]]
      /\ h \in Graphs
  <2>1. h = [[g EXCEPT !.firstDependency[o] = 0] EXCEPT !.dependencies[o] = 0]
    BY DEF Fresh
  <2>2. /\ g = [ODA |-> g.ODA, firstDependency |-> g.firstDependency,
                dependencies |-> g.dependencies]
        /\ g.ODA \in Seq(Edges)
        /\ g.firstDependency \in [Objects -> Nat]
        /\ g.dependencies \in [Objects -> Nat]
    BY DEF Healthy, Graphs
  <2>3. h = [ODA |-> g.ODA,
             firstDependency |-> [g.firstDependency EXCEPT ![o] = 0],
             dependencies |-> [g.dependencies EXCEPT ![o] = 0]]
    BY <2>1, <2>2
  <2> QED BY <2>2, <2>3 DEF Graphs
<1>3. Sorted(h) /\ Once(h) /\ EdgeSet(h) = EdgeSet(g)
  BY <1>2 DEF Healthy, Indexed, Sorted, Once, EdgeSet
<1>4. ASSUME NEW p \in Objects, NEW i \in Int
      PROVE  /\ h.firstDependency[p] <= i
             /\ i < h.firstDependency[p] + h.dependencies[p]
             <=> i \in 1 .. Len(h.ODA) /\ h.ODA[i].parent = p
  <2>1. /\ g.firstDependency[p] \in Nat /\ g.dependencies[p] \in Nat
        /\ g.firstDependency[p] <= i /\ i < g.firstDependency[p] + g.dependencies[p]
           <=> i \in 1 .. Len(g.ODA) /\ g.ODA[i].parent = p
    BY SlotsOf DEF Healthy
  <2>2. CASE p = o
    <3>1. h.firstDependency[p] = 0 /\ h.dependencies[p] = 0
      BY <1>2, <2>2 DEF Healthy, Graphs
    <3>2. ~(i \in 1 .. Len(g.ODA) /\ g.ODA[i].parent = p)
      BY <1>1, <2>1, <2>2
    <3> QED BY <1>2, <3>1, <3>2
  <2>3. CASE p # o
    <3>1. h.firstDependency[p] = g.firstDependency[p] /\ h.dependencies[p] = g.dependencies[p]
      BY <1>2, <2>3 DEF Healthy, Graphs
    <3> QED BY <1>2, <2>1, <3>1
  <2> QED BY <2>2, <2>3
<1>5. Indexed(h)
  BY <1>2, <1>3, <1>4, IndexedIf
<1> QED BY <1>2, <1>3, <1>5 DEF Healthy

(* What the invariant says of edges, one at a time.                        *)
LEMMA EdgesAre ==
    ASSUME IInv
    PROVE  /\ Healthy(graph)
           /\ \A e : e \in EdgeSet(graph)
                  <=> \E o \in Loaded : \E p \in Depends(header[o]) :
                          e = [parent |-> p, child |-> o]
           /\ \A e \in EdgeSet(graph) : e.parent \in Loaded /\ e.child \in Loaded
           /\ \A o \in Objects : Dependants(o) <=> \E e \in EdgeSet(graph) : e.parent = o
<1>1. Healthy(graph)
  BY DEF IInv, TypeOK, GraphIndexed, GraphIsLinks, Healthy
<1>2. \A e : e \in EdgeSet(graph)
          <=> \E o \in Loaded : \E p \in Depends(header[o]) : e = [parent |-> p, child |-> o]
  BY DEF IInv, GraphIsLinks
<1>3. \A e \in EdgeSet(graph) : e.parent \in Loaded /\ e.child \in Loaded
  <2> TAKE e \in EdgeSet(graph)
  <2>1. PICK o \in Loaded : \E p \in Depends(header[o]) : e = [parent |-> p, child |-> o]
    BY <1>2
  <2>2. PICK p \in Depends(header[o]) : e = [parent |-> p, child |-> o]
    BY <2>1
  <2>3. p \in Loaded
    BY DEF IInv, ParentsLoaded
  <2> QED BY <2>2, <2>3
<1>4. \A o \in Objects : Dependants(o) <=> \E e \in EdgeSet(graph) : e.parent = o
  BY <1>1, HasDependants DEF Healthy, Dependants
<1> QED BY <1>1, <1>2, <1>3, <1>4

(* Whatever kind of object is loaded.                                      *)
LEMMA LoadKeeps ==
    ASSUME IInv, NEW o \in Objects, Kind(o) = "Free",
           NEW h \in Headers, h.kind # "Free", h.kind # "Thread" => h.space = NoObject,
           Depends(h) \subseteq Loaded,
           header' = [header EXCEPT ![o] = h],
           Healthy(graph'), EdgeSet(graph') = EdgeSet(graph) \cup EdgesOf(o, h)
    PROVE  /\ header' \in [Objects -> Headers] /\ graph' \in Graphs
           /\ GraphIndexed' /\ GraphIsLinks' /\ ParentsLoaded' /\ SpacesOfThreads'
<1>1. header \in [Objects -> Headers]
  BY DEF IInv, TypeOK
<1>2. \A p \in Objects : header'[p] = IF p = o THEN h ELSE header[p]
  BY <1>1
<1>3. Loaded' = Loaded \cup {o} /\ o \notin Loaded
  BY <1>2 DEF Loaded, Of, Kind
<1>4. header' \in [Objects -> Headers]
  BY <1>1
<1>5. GraphIsLinks'
  <2>1. \A e : e \in EdgeSet(graph')
          <=> \E q \in Loaded' : \E p \in Depends(header'[q]) : e = [parent |-> p, child |-> q]
    <3>1. \A q \in Loaded : header'[q] = header[q]
      BY <1>2, <1>3 DEF Loaded
    <3>2. header'[o] = h
      BY <1>2
    <3>3. \A e : e \in EdgesOf(o, h) <=> \E p \in Depends(h) : e = [parent |-> p, child |-> o]
      BY DEF EdgesOf
    <3> QED BY <1>3, <3>1, <3>2, <3>3, EdgesAre
  <2>2. EdgeSet(graph') = UNION { { [parent |-> p, child |-> q] : p \in Depends(header'[q]) }
                                      : q \in Loaded' }
    BY <2>1
  <2> QED BY <2>2 DEF GraphIsLinks, Healthy
<1>6. ParentsLoaded'
  BY <1>2, <1>3 DEF IInv, ParentsLoaded, Loaded, Depends
<1>7. SpacesOfThreads'
  BY <1>2 DEF IInv, SpacesOfThreads, Kind
<1> QED BY <1>4, <1>5, <1>6, <1>7 DEF Healthy, GraphIndexed

(* Whatever kind of object is unloaded.                                    *)
LEMMA UnloadKeeps ==
    ASSUME IInv, NEW o \in Objects, Unload(o),
           Healthy(graph'), EdgeSet(graph') = EdgeSet(graph) \ EdgesOf(o, header[o])
    PROVE  /\ header' \in [Objects -> Headers] /\ graph' \in Graphs
           /\ GraphIndexed' /\ GraphIsLinks' /\ ParentsLoaded' /\ SpacesOfThreads'
<1>1. header \in [Objects -> Headers] /\ FreeHeader \in Headers
  BY DEF IInv, TypeOK, FreeHeader, Headers, Kinds
<1>2. \A p \in Objects : header'[p] = IF p = o THEN FreeHeader ELSE header[p]
  BY <1>1 DEF Unload
<1>3. Loaded' = Loaded \ {o}
  <2>1. \A p \in Objects : p \in Loaded <=> header[p].kind # "Free"
    BY DEF Loaded, Of, Kind
  <2>2. \A p \in Objects : p \in Loaded' <=> header'[p].kind # "Free"
    BY DEF Loaded, Of, Kind
  <2>3. Loaded \subseteq Objects /\ Loaded' \subseteq Objects
    BY DEF Loaded
  <2>4. FreeHeader.kind = "Free"
    BY DEF FreeHeader
  <2>5. \A p \in Objects : p \in Loaded' <=> p \in Loaded /\ p # o
    BY <1>2, <2>1, <2>2, <2>4
  <2> QED BY <2>3, <2>5
<1>4. header' \in [Objects -> Headers]
  BY <1>1 DEF Unload
<1>5. \A e \in EdgeSet(graph) : e.parent # o
  BY EdgesAre DEF Unload
<1>6. GraphIsLinks'
  <2>1. \A q \in Loaded' : header'[q] = header[q] /\ q # o /\ q \in Loaded
    BY <1>2, <1>3 DEF Loaded
  <2>2. ASSUME NEW e PROVE e \in EdgeSet(graph')
          <=> \E q \in Loaded' : \E p \in Depends(header'[q]) : e = [parent |-> p, child |-> q]
    <3>1. ASSUME e \in EdgeSet(graph')
          PROVE  \E q \in Loaded' : \E p \in Depends(header'[q]) : e = [parent |-> p, child |-> q]
      <4>1. PICK q \in Loaded : \E p \in Depends(header[q]) : e = [parent |-> p, child |-> q]
        BY <3>1, EdgesAre
      <4>2. q # o
        BY <3>1, <4>1 DEF EdgesOf
      <4> QED BY <1>3, <2>1, <4>1, <4>2
    <3>2. ASSUME NEW q \in Loaded', NEW p \in Depends(header'[q]), e = [parent |-> p, child |-> q]
          PROVE  e \in EdgeSet(graph')
      <4>1. e \in EdgeSet(graph)
        BY <2>1, <3>2, EdgesAre
      <4>2. e \notin EdgesOf(o, header[o])
        <5>1. \A x \in EdgesOf(o, header[o]) : x.child = o
          BY DEF EdgesOf
        <5>2. e.child = q /\ q # o
          BY <2>1, <3>2
        <5> QED BY <5>1, <5>2
      <4> QED BY <4>1, <4>2
    <3> QED BY <3>1, <3>2
  <2>3. EdgeSet(graph') = UNION { { [parent |-> p, child |-> q] : p \in Depends(header'[q]) }
                                      : q \in Loaded' }
    BY <2>2
  <2> QED BY <2>3 DEF GraphIsLinks, Healthy
<1>7. ParentsLoaded'
  <2> SUFFICES ASSUME NEW q \in Loaded', NEW p \in Depends(header'[q]) PROVE p \in Loaded'
    BY DEF ParentsLoaded
  <2>1. q \in Loaded /\ header'[q] = header[q]
    BY <1>2, <1>3 DEF Loaded
  <2>2. p \in Loaded
    BY <2>1 DEF IInv, ParentsLoaded
  <2>3. p # o
    <3>1. [parent |-> p, child |-> q] \in EdgeSet(graph)
      BY <2>1, EdgesAre
    <3> QED BY <1>5, <3>1
  <2> QED BY <1>3, <2>2, <2>3
<1>8. SpacesOfThreads'
  BY <1>2 DEF IInv, SpacesOfThreads, Kind, FreeHeader
<1> QED BY <1>4, <1>6, <1>7, <1>8 DEF Healthy, GraphIndexed

-----------------------------------------------------------------------------
(* The boot loader's address space and thread.                             *)
LEMMA InitIInv == Init => IInv
<1> SUFFICES ASSUME Init PROVE IInv
  OBVIOUS
<1>1. PICK a \in Objects, t \in Objects :
         /\ a # t
         /\ header = [o \in Objects |->
               IF o = a THEN [FreeHeader EXCEPT !.kind = "AddrSpc"]
               ELSE IF o = t THEN [kind |-> "Thread", space |-> a, parent |-> NoObject]
               ELSE FreeHeader]
         /\ graph = Linked(EmptyGraph, t, a)
  BY DEF Init
<1>2. /\ header[a] = [kind |-> "AddrSpc", space |-> NoObject, parent |-> NoObject]
      /\ header[t] = [kind |-> "Thread", space |-> a, parent |-> NoObject]
      /\ \A o \in Objects : o \notin {a, t} => header[o] = FreeHeader
  BY <1>1 DEF FreeHeader
<1>3. header \in [Objects -> Headers]
  <2>1. ASSUME NEW o \in Objects PROVE header[o] \in Headers
    <3>1. FreeHeader \in Headers /\ header[a] \in Headers /\ header[t] \in Headers
      BY <1>2 DEF FreeHeader, Headers, Kinds
    <3> QED BY <1>2, <3>1
  <2>2. header = [o \in Objects |-> header[o]]
    BY <1>1
  <2> QED BY <2>1, <2>2
<1>4. a # NoObject /\ t # NoObject
  BY <1>1
<1>5. Loaded = {a, t}
  <2>1. \A o \in Objects : o \in Loaded <=> header[o].kind # "Free"
    BY DEF Loaded, Of, Kind
  <2>2. header[a].kind # "Free" /\ header[t].kind # "Free" /\ FreeHeader.kind = "Free"
    BY <1>2 DEF FreeHeader
  <2>3. \A o \in Objects : o \in Loaded <=> o \in {a, t}
    BY <1>2, <2>1, <2>2
  <2> QED BY <2>3 DEF Loaded
<1>6. /\ Healthy(graph)
      /\ EdgeSet(graph) = { [parent |-> a, child |-> t] }
  <2>1. Healthy(EmptyGraph) /\ EdgeSet(EmptyGraph) = {}
    BY EmptyIndexed DEF Healthy
  <2>2. [parent |-> a, child |-> t] \notin EdgeSet(EmptyGraph) /\ a \in OrNone(Objects)
    BY <2>1 DEF OrNone
  <2>3. /\ Healthy(Linked(EmptyGraph, t, a))
        /\ EdgeSet(Linked(EmptyGraph, t, a)) =
               EdgeSet(EmptyGraph) \cup { [parent |-> q, child |-> t] : q \in {a} \ {NoObject} }
    BY <2>1, <2>2, LinkedKeeps
  <2> QED BY <1>1, <1>4, <2>1, <2>3
<1>7. Depends(header[a]) = {} /\ Depends(header[t]) = {a}
  BY <1>2, <1>4 DEF Depends
<1>8. GraphIsLinks
  BY <1>5, <1>6, <1>7 DEF GraphIsLinks, Healthy
<1>9. ParentsLoaded
  BY <1>5, <1>7 DEF ParentsLoaded
<1>10. SpacesOfThreads
  BY <1>2 DEF SpacesOfThreads, Kind, FreeHeader
<1>11. TypeOK
  <2>1. <<>> \in Seq(Objects) /\ graph \in Graphs
    BY <1>6 DEF Healthy
  <2>2. uncaching \in [Objects -> OrNone(Objects)] /\ sysObjManLock \in OrNone(Objects) /\ cascade = <<>>
    BY DEF Init, OrNone
  <2> QED BY <1>3, <2>1, <2>2 DEF TypeOK
<1> QED BY <1>6, <1>8, <1>9, <1>10, <1>11 DEF IInv, GraphIndexed, Healthy

(* The graph of a new object with up to two parents.                       *)
LEMMA NewEdges ==
    ASSUME IInv, NEW o \in Objects, Kind(o) = "Free",
           NEW p \in OrNone(Objects), NEW q \in OrNone(Objects), p # q \/ p = NoObject
    PROVE  LET g == Linked(Linked(Fresh(graph, o), o, p), o, q)
           IN  /\ Healthy(g)
               /\ EdgeSet(g) = EdgeSet(graph) \cup
                      { [parent |-> r, child |-> o] : r \in {p, q} \ {NoObject} }
<1>1. \A e \in EdgeSet(graph) : e.parent # o /\ e.child # o
  BY EdgesAre DEF Loaded, Of
<1>2. Healthy(Fresh(graph, o)) /\ EdgeSet(Fresh(graph, o)) = EdgeSet(graph)
  BY <1>1, EdgesAre, FreshKeeps
<1>3. \A r : [parent |-> r, child |-> o] \notin EdgeSet(graph)
  BY <1>1
<1> DEFINE f == Fresh(graph, o)
           g == Linked(f, o, p)
<1>30. Healthy(f) /\ EdgeSet(f) = EdgeSet(graph)
  BY <1>2
<1> HIDE DEF f
<1>31. [parent |-> p, child |-> o] \notin EdgeSet(f)
  BY <1>3, <1>30
<1>4. /\ Healthy(g)
      /\ EdgeSet(g) = EdgeSet(graph) \cup
             { [parent |-> r, child |-> o] : r \in {p} \ {NoObject} }
  BY <1>30, <1>31, LinkedKeeps
<1> HIDE DEF g
<1>5. [parent |-> q, child |-> o] \notin EdgeSet(g)
  BY <1>3, <1>4
<1>6. /\ Healthy(Linked(g, o, q))
      /\ EdgeSet(Linked(g, o, q)) =
             EdgeSet(g) \cup { [parent |-> r, child |-> o] : r \in {q} \ {NoObject} }
  BY <1>4, <1>5, LinkedKeeps
<1>7. EdgeSet(Linked(g, o, q)) = EdgeSet(graph) \cup
          { [parent |-> r, child |-> o] : r \in {p, q} \ {NoObject} }
  BY <1>4, <1>6
<1> QED BY <1>6, <1>7 DEF f, g

LEMMA NextIInv == IInv /\ [Next]_vars => IInv'
<1> SUFFICES ASSUME IInv, [Next]_vars PROVE IInv'
  OBVIOUS
<1>0. /\ header \in [Objects -> Headers] /\ graph \in Graphs
      /\ sysObjManLock \in OrNone(Objects)
      /\ uncaching \in [Objects -> OrNone(Objects)] /\ cascade \in Seq(Objects)
  BY DEF IInv, TypeOK
(* Whatever is loaded, the header and the graph are all that changes. *)
<1>1. ASSUME NEW o \in Objects, NEW h \in Headers, Load(o, h), h.kind # "Free",
             h.kind # "Thread" => h.space = NoObject, Depends(h) \subseteq Loaded,
             h.space # h.parent \/ h.space = NoObject,
             graph' = Linked(Linked(Fresh(graph, o), o, h.space), o, h.parent)
      PROVE  IInv'
  <2>1. h.space \in OrNone(Objects) /\ h.parent \in OrNone(Objects)
    BY DEF Headers, OrNone
  <2>2. Healthy(graph') /\ EdgeSet(graph') = EdgeSet(graph) \cup EdgesOf(o, h)
    BY <1>1, <2>1, NewEdges DEF Load, EdgesOf, Depends
  <2>3. Kind(o) = "Free" /\ header' = [header EXCEPT ![o] = h]
    BY <1>1 DEF Load
  <2>4. /\ header' \in [Objects -> Headers] /\ graph' \in Graphs
        /\ GraphIndexed' /\ GraphIsLinks' /\ ParentsLoaded' /\ SpacesOfThreads'
    BY <1>1, <2>2, <2>3, LoadKeeps
  <2>5. TypeOK'
    BY <1>0, <1>1, <2>4 DEF TypeOK, Load
  <2> QED BY <2>4, <2>5 DEF IInv
<1>2. ASSUME NEW c \in Objects, NEW o \in Objects, CKloadKernelObject(c, o) PROVE IInv'
  <2> DEFINE h == [kind |-> "Kernel", space |-> NoObject, parent |-> NoObject]
  <2>1. h \in Headers /\ Depends(h) = {}
    BY DEF Headers, Kinds, Depends
  <2>2. Load(o, h) /\ graph' = Linked(Linked(Fresh(graph, o), o, h.space), o, h.parent)
    BY <1>2 DEF CKloadKernelObject, Linked
  <2>3. h.kind = "Kernel" /\ h.space = NoObject
    OBVIOUS
  <2> HIDE DEF h
  <2> QED BY <1>1, <2>1, <2>2, <2>3
<1>3. ASSUME NEW c \in Objects, NEW o \in Objects, NEW k \in OrNone(Of("Kernel")),
             CKloadAddrSpcObject(c, o, k)
      PROVE  IInv'
  <2> DEFINE h == [kind |-> "AddrSpc", space |-> NoObject, parent |-> k]
  <2>1. k = NoObject \/ k \in Loaded
    BY DEF OrNone, Of, Loaded, Kind
  <2>2. h \in Headers /\ Depends(h) \subseteq Loaded
    BY <2>1 DEF Headers, Kinds, Depends, Loaded
  <2>3. Load(o, h) /\ graph' = Linked(Linked(Fresh(graph, o), o, h.space), o, h.parent)
    BY <1>3 DEF CKloadAddrSpcObject, Linked
  <2>4. h.kind = "AddrSpc" /\ h.space = NoObject
    OBVIOUS
  <2> HIDE DEF h
  <2> QED BY <1>1, <2>2, <2>3, <2>4
<1>4. ASSUME NEW c \in Objects, NEW o \in Objects, NEW a \in Of("AddrSpc"),
             NEW k \in OrNone(Of("Kernel")), CKloadThreadObject(c, o, a, k)
      PROVE  IInv'
  <2> DEFINE h == [kind |-> "Thread", space |-> a, parent |-> k]
  <2>1. a \in Loaded /\ a # NoObject /\ a # k /\ (k = NoObject \/ k \in Loaded)
    BY DEF OrNone, Of, Loaded, Kind
  <2>2. h \in Headers /\ Depends(h) \subseteq Loaded
    BY <2>1 DEF Headers, Kinds, Depends, Loaded
  <2>3. Load(o, h) /\ graph' = Linked(Linked(Fresh(graph, o), o, h.space), o, h.parent)
    BY <1>4 DEF CKloadThreadObject
  <2>4. h.kind = "Thread" /\ h.space # h.parent
    BY <2>1
  <2> HIDE DEF h
  <2> QED BY <1>1, <2>2, <2>3, <2>4
<1>5. ASSUME NEW c \in Objects, NEW o \in Objects, CKloadSHMemObject(c, o) PROVE IInv'
  <2> DEFINE h == [kind |-> "SHMem", space |-> NoObject, parent |-> c]
  <2>1. c \in Loaded
    BY <1>5 DEF CKloadSHMemObject, Enters, Of, Loaded
  <2>2. h \in Headers /\ Depends(h) \subseteq Loaded
    BY <2>1 DEF Headers, Kinds, Depends, Loaded
  <2>3. Load(o, h) /\ graph' = Linked(Linked(Fresh(graph, o), o, h.space), o, h.parent)
    BY <1>5 DEF CKloadSHMemObject, Linked
  <2>4. h.kind = "SHMem" /\ h.space = NoObject
    OBVIOUS
  <2> HIDE DEF h
  <2> QED BY <1>1, <2>2, <2>3, <2>4
(* Steps that change neither headers nor edges. *)
<1>6. ASSUME UNCHANGED <<header, graph>>, TypeOK' PROVE IInv'
  <2>1. GraphIndexed' /\ SpacesOfThreads'
    BY <1>6 DEF IInv, GraphIndexed, SpacesOfThreads, Kind
  <2>2. GraphIsLinks' /\ ParentsLoaded'
    BY <1>6 DEF IInv, GraphIsLinks, ParentsLoaded, Loaded, Of, Kind
  <2> QED BY <1>6, <2>1, <2>2 DEF IInv
<1>7. ASSUME NEW c \in Objects, NEW o \in Loaded, CKunCacheObject(c, o) PROVE IInv'
  BY <1>0, <1>6, <1>7 DEF CKunCacheObject, TypeOK, OrNone, Loaded
<1>8. ASSUME NEW c \in Objects, UnCacheEnters(c) PROVE IInv'
  <2>1. uncaching[c] \in Objects
    BY <1>0, <1>8 DEF UnCacheEnters, OrNone
  <2>2. cascade' \in Seq(Objects)
    BY <1>8, <2>1 DEF UnCacheEnters
  <2> QED BY <1>0, <1>6, <1>8, <2>2 DEF UnCacheEnters, TypeOK, OrNone
<1>9. ASSUME CKunloadObject PROVE IInv'
  <2>1. cascade # <<>> /\ Head(cascade) \in Objects /\ Dependants(Head(cascade))
    BY <1>0, <1>9 DEF CKunloadObject
  <2> DEFINE first == graph.firstDependency[Head(cascade)]
  <2>2. first \in 1 .. Len(graph.ODA)
    BY <2>1, EdgesAre, HasDependants DEF Healthy, Dependants
  <2>3. graph.ODA[first] \in Edges
    <3>1. graph.ODA \in Seq(Edges)
      BY <1>0 DEF Graphs
    <3> QED BY <2>2, <3>1
  <2>4. graph.ODA[first].child \in Objects
    BY <2>3, EdgeEnds
  <2>5. cascade' = <<graph.ODA[first].child>> \o cascade
    BY <1>9 DEF CKunloadObject
  <2> HIDE DEF first
  <2>6. cascade' \in Seq(Objects)
    BY <1>0, <2>4, <2>5
  <2> QED BY <1>0, <1>6, <1>9, <2>6 DEF CKunloadObject, TypeOK
(* Steps that unload the innermost object of the cascade. *)
<1>10. ASSUME NEW o \in Objects, Returns(o), cascade # <<>>
       PROVE  /\ sysObjManLock' \in OrNone(Objects)
              /\ uncaching' \in [Objects -> OrNone(Objects)] /\ cascade' \in Seq(Objects)
  BY <1>0, <1>10 DEF Returns, OrNone
<1>11. ASSUME NEW o \in Objects, Dies(o)
       PROVE  /\ sysObjManLock' \in OrNone(Objects)
              /\ uncaching' \in [Objects -> OrNone(Objects)] /\ cascade' \in Seq(Objects)
  BY <1>0, <1>11 DEF Dies, OrNone
<1>12. ASSUME CKunloadThreadObject PROVE IInv'
  <2> DEFINE o == Head(cascade)
             g == Unlinked(graph, o, header[o].space)
  <2>1. cascade # <<>> /\ o \in Objects
    BY <1>0, <1>12 DEF CKunloadThreadObject
  <2>2. header[o].space \in OrNone(Objects) /\ header[o].parent \in OrNone(Objects)
    <3>1. header[o] \in Headers
      BY <1>0, <2>1
    <3> QED BY <3>1 DEF Headers, OrNone
  <2>3. Unload(o) /\ graph' = Unlinked(g, o, header[o].parent)
    BY <1>12 DEF CKunloadThreadObject
  <2>4. IF o = sysObjManLock THEN Dies(o) ELSE Returns(o)
    BY <1>12 DEF CKunloadThreadObject
  <2> HIDE DEF o
  <2>5. /\ Healthy(g)
        /\ EdgeSet(g) = EdgeSet(graph) \
               { [parent |-> q, child |-> o] : q \in {header[o].space} \ {NoObject} }
    BY <2>1, <2>2, EdgesAre, UnlinkedKeeps
  <2> HIDE DEF g
  <2>6. /\ Healthy(graph')
        /\ EdgeSet(graph') = EdgeSet(g) \
               { [parent |-> q, child |-> o] : q \in {header[o].parent} \ {NoObject} }
    BY <2>1, <2>2, <2>3, <2>5, UnlinkedKeeps
  <2>7. EdgeSet(graph') = EdgeSet(graph) \ EdgesOf(o, header[o])
    <3>1. EdgesOf(o, header[o]) =
             { [parent |-> q, child |-> o] : q \in {header[o].space} \ {NoObject} } \cup
             { [parent |-> q, child |-> o] : q \in {header[o].parent} \ {NoObject} }
      BY DEF EdgesOf, Depends
    <3> QED BY <2>5, <2>6, <3>1
  <2>8. /\ header' \in [Objects -> Headers] /\ graph' \in Graphs
        /\ GraphIndexed' /\ GraphIsLinks' /\ ParentsLoaded' /\ SpacesOfThreads'
    BY <2>1, <2>3, <2>6, <2>7, UnloadKeeps
  <2>9. TypeOK'
    BY <1>10, <1>11, <2>1, <2>4, <2>8 DEF TypeOK
  <2> QED BY <2>8, <2>9 DEF IInv
<1>13. ASSUME CKunloadOther PROVE IInv'
  <2> DEFINE o == Head(cascade)
  <2>1. cascade # <<>> /\ o \in Objects
    BY <1>0, <1>13 DEF CKunloadOther
  <2>2. header[o].parent \in OrNone(Objects)
    <3>1. header[o] \in Headers
      BY <1>0, <2>1
    <3> QED BY <3>1 DEF Headers, OrNone
  <2>3. Unload(o) /\ graph' = Unlinked(graph, o, header[o].parent) /\ Returns(o)
    BY <1>13 DEF CKunloadOther
  <2>4. header[o].space = NoObject
    <3>1. Kind(o) # "Thread"
      BY <1>13 DEF CKunloadOther
    <3> QED BY <2>1, <3>1 DEF IInv, SpacesOfThreads
  <2> HIDE DEF o
  <2>5. /\ Healthy(graph')
        /\ EdgeSet(graph') = EdgeSet(graph) \
               { [parent |-> q, child |-> o] : q \in {header[o].parent} \ {NoObject} }
    BY <2>1, <2>2, <2>3, EdgesAre, UnlinkedKeeps
  <2>6. EdgeSet(graph') = EdgeSet(graph) \ EdgesOf(o, header[o])
    BY <2>4, <2>5 DEF EdgesOf, Depends
  <2>7. /\ header' \in [Objects -> Headers] /\ graph' \in Graphs
        /\ GraphIndexed' /\ GraphIsLinks' /\ ParentsLoaded' /\ SpacesOfThreads'
    BY <2>1, <2>3, <2>5, <2>6, UnloadKeeps
  <2>8. TypeOK'
    BY <1>10, <2>1, <2>3, <2>7 DEF TypeOK
  <2> QED BY <2>7, <2>8 DEF IInv
<1>14. CASE UNCHANGED vars
  <2>1. UNCHANGED <<header, graph>> /\ TypeOK'
    BY <1>0, <1>14 DEF vars, TypeOK
  <2> QED BY <1>6, <2>1
<1> QED BY <1>2, <1>3, <1>4, <1>5, <1>7, <1>8, <1>9, <1>12, <1>13, <1>14 DEF Next

-----------------------------------------------------------------------------
LEMMA Invariant == Spec => []IInv
BY InitIInv, NextIInv, PTL DEF Spec

(* The variables of objmgmt.c and graph.c keep their types.                *)
THEOREM ObjectsTypeCorrect == Spec => []TypeOK
<1>1. IInv => TypeOK
  BY DEF IInv
<1> QED BY <1>1, Invariant, PTL

(* CKremoveDepSearch and CKunloadObject may trust the first edge and the   *)
(* number of edges of an object, whatever was loaded and unloaded before.  *)
THEOREM GroupsStayWhole == Spec => []GraphIndexed
<1>1. IInv => GraphIndexed
  BY DEF IInv
<1> QED BY <1>1, Invariant, PTL

(* The loaders and unloaders of objmgmt.c leave exactly the dependencies   *)
(* of the loaded objects in the graph.                                     *)
THEOREM EdgesAreDependencies == Spec => []GraphIsLinks
<1>1. IInv => GraphIsLinks
  BY DEF IInv
<1> QED BY <1>1, Invariant, PTL

(* CKunloadObject never unloads an object before its dependants, even if a *)
(* thread ends the cascade by unloading itself.                            *)
THEOREM DependantsGoFirst == Spec => []ParentsLoaded
<1>1. IInv => ParentsLoaded
  BY DEF IInv
<1> QED BY <1>1, Invariant, PTL

-----------------------------------------------------------------------------
(* Cascades: what they visit, and who started them.                        *)

(* Dependencies go down from shared memory to threads, address spaces and  *)
(* kernels.                                                                *)
Level(o) == CASE Kind(o) = "Kernel" -> 0 [] Kind(o) = "AddrSpc" -> 1
              [] Kind(o) = "Thread" -> 2 [] OTHER -> 3
Layered  == \A o \in Loaded : \A p \in Depends(header[o]) : Level(p) < Level(o)

(* Who uncaches something is a thread that lives, and so does what it       *)
(* uncaches; no two of them uncache dependent objects.                      *)
Asked == \A c \in Objects : uncaching[c] # NoObject =>
             Kind(c) = "Thread" /\ uncaching[c] \in Loaded
Apart == \A c, d \in Objects :
             c # d /\ uncaching[c] # NoObject /\ uncaching[d] # NoObject
                 => uncaching[c] \notin Ancestry(uncaching[d])

(* All that a cascade visits depends on the object that it was asked for.   *)
GoesUp == \A i \in 1 .. Len(cascade) : cascade[Len(cascade)] \in Ancestry(cascade[i])

CascadeInv == IInv /\ Layered /\ Asked /\ Apart /\ LockInUse /\ GoesUp

UpBy(h, S) == S \cup UNION { Depends(h[o]) : o \in S }

(* What headers that agree say of ancestors.                               *)
LEMMA AncestryStays ==
    ASSUME NEW o, \A x \in Ancestry(o) : header'[x] = header[x]
    PROVE  Ancestry(o)' = Ancestry(o)
<1> DEFINE A(h) == UpBy(h, UpBy(h, {o}))
<1>1. \A h, k, S : (\A x \in S : h[x] = k[x]) => UpBy(h, S) = UpBy(k, S)
  BY DEF UpBy
<1>2. \A h, S : S \subseteq UpBy(h, S)
  BY DEF UpBy
<1>3. Ancestry(o) = UpBy(header, A(header)) /\ Ancestry(o)' = UpBy(header', A(header'))
  BY DEF Ancestry, Up, UpBy
<1>4. UpBy(header, {o}) \subseteq A(header) /\ {o} \subseteq UpBy(header, {o})
  BY <1>2
<1>5. A(header) \subseteq Ancestry(o)
  BY <1>2, <1>3
<1>6. UpBy(header', {o}) = UpBy(header, {o})
  BY <1>1, <1>4, <1>5
<1>7. A(header') = A(header)
  BY <1>1, <1>4, <1>5, <1>6
<1> HIDE DEF A
<1>8. UpBy(header', A(header)) = UpBy(header, A(header))
  BY <1>1, <1>5
<1> QED BY <1>3, <1>7, <1>8

LEMMA Levels ==
    ASSUME IInv, Layered, NEW o \in Loaded
    PROVE  /\ Level(o) \in 0 .. 3
           /\ \A p \in Depends(header[o]) : p \in Loaded /\ Level(p) < Level(o)
BY DEF IInv, ParentsLoaded, Layered, Level

(* An object's ancestors are loaded, and closed under dependency.          *)
LEMMA AncestryIs ==
    ASSUME IInv, Layered, NEW o \in Loaded
    PROVE  /\ o \in Ancestry(o) /\ Ancestry(o) \subseteq Loaded
           /\ \A x \in Ancestry(o) : Depends(header[x]) \subseteq Ancestry(o)
<1> DEFINE A1 == Up({o})
           A2 == Up(A1)
<1>0. Ancestry(o) = Up(A2)
  BY DEF Ancestry
<1>1. \A S : S \subseteq Up(S) /\ \A x : x \in Up(S) <=> x \in S \/ \E y \in S : x \in Depends(header[y])
  BY DEF Up
<1>2. \A S \in SUBSET Loaded : Up(S) \subseteq Loaded
  BY <1>1, Levels
<1>3. A1 \subseteq Loaded /\ \A x : x \in A1 <=> x = o \/ x \in Depends(header[o])
  BY <1>1, <1>2
<1> HIDE DEF A1
<1>4. A2 \subseteq Loaded /\ A1 \subseteq A2
      /\ \A x : x \in A2 <=> x \in A1 \/ \E y \in A1 : x \in Depends(header[y])
  BY <1>1, <1>2, <1>3
<1> HIDE DEF A2
<1>5. Ancestry(o) \subseteq Loaded /\ A2 \subseteq Ancestry(o)
      /\ \A x : x \in Ancestry(o) <=> x \in A2 \/ \E y \in A2 : x \in Depends(header[y])
  BY <1>0, <1>1, <1>2, <1>4
<1>6. ASSUME NEW x \in Ancestry(o), NEW y \in Depends(header[x])
      PROVE  y \in Ancestry(o)
  <2>1. CASE x \in A2
    BY <1>5, <2>1
  <2>2. CASE x \notin A2
    <3>1. PICK b \in A2 : x \in Depends(header[b])
      BY <1>5, <2>2
    <3>2. b \notin A1
      BY <1>4, <2>2, <3>1
    <3>3. PICK a \in A1 : b \in Depends(header[a])
      BY <1>4, <3>2
    <3>4. a # o
      BY <1>3, <3>2, <3>3
    <3>5. a \in Depends(header[o])
      BY <1>3, <3>4
    <3>6. /\ Level(a) < Level(o) /\ Level(b) < Level(a) /\ Level(x) < Level(b) /\ Level(y) < Level(x)
          /\ y \in Loaded
      BY <1>3, <1>4, <1>5, <3>1, <3>3, <3>5, Levels
    <3>7. \A z \in Loaded : Level(z) \in 0 .. 3
      BY Levels
    <3> QED BY <1>3, <1>4, <1>5, <3>1, <3>3, <3>6, <3>7
  <2> QED BY <2>1, <2>2
<1> QED BY <1>3, <1>4, <1>5, <1>6

(* The ancestors of a parent are ancestors.                                *)
LEMMA AncestryOfParent ==
    ASSUME IInv, Layered, NEW o \in Loaded, NEW p \in Depends(header[o])
    PROVE  Ancestry(p) \subseteq Ancestry(o)
<1> DEFINE S == Ancestry(o)
<1>1. p \in S /\ \A x \in S : Depends(header[x]) \subseteq S
  BY AncestryIs
<1> HIDE DEF S
<1>2. \A T \in SUBSET S : Up(T) \subseteq S
  BY <1>1 DEF Up
<1>3. Up({p}) \subseteq S
  BY <1>1, <1>2
<1>4. Up(Up({p})) \subseteq S
  BY <1>2, <1>3
<1>5. Up(Up(Up({p}))) \subseteq S
  BY <1>2, <1>4
<1> QED BY <1>5 DEF Ancestry, S

(* Steps of no cascade: what is asked for and its ancestors stay.          *)
LEMMA LoadGoes ==
    ASSUME CascadeInv, IInv', NEW o \in Objects, NEW h \in Headers, Load(o, h), h.kind # "Free",
           \A p \in Depends(h) : p \in Loaded,
           h.kind = "Kernel" => Depends(h) = {},
           h.kind = "AddrSpc" => \A p \in Depends(h) : Kind(p) = "Kernel",
           h.kind = "Thread" => \A p \in Depends(h) : Kind(p) \in {"AddrSpc", "Kernel"},
           h.kind = "SHMem" => \A p \in Depends(h) : Kind(p) = "Thread"
    PROVE  CascadeInv'
<1>1. /\ header \in [Objects -> Headers] /\ header' = [header EXCEPT ![o] = h] /\ Kind(o) = "Free"
      /\ UNCHANGED <<sysObjManLock, uncaching, cascade>>
      /\ uncaching \in [Objects -> OrNone(Objects)] /\ cascade \in Seq(Objects)
  BY DEF CascadeInv, IInv, TypeOK, Load
<1>2. /\ \A x \in Loaded : x # o /\ header'[x] = header[x] /\ Kind(x)' = Kind(x)
      /\ \A x \in Loaded : x \in Loaded'
      /\ \A x \in Loaded' : x = o \/ x \in Loaded
  BY <1>1 DEF Loaded, Of, Kind
<1>3. \A x \in Loaded : Ancestry(x)' = Ancestry(x)
  BY <1>2, AncestryIs, AncestryStays DEF CascadeInv
<1>4. Layered'
  <2> SUFFICES ASSUME NEW x \in Loaded', NEW p \in Depends(header'[x]) PROVE Level(p)' < Level(x)'
    BY DEF Layered
  <2>1. CASE x # o
    <3>1. x \in Loaded /\ header'[x] = header[x]
      BY <1>2, <2>1
    <3>2. p \in Loaded /\ Level(p) < Level(x)
      BY <3>1, Levels DEF CascadeInv
    <3> QED BY <1>2, <3>1, <3>2 DEF Level
  <2>2. CASE x = o
    <3>1. header'[x] = h /\ Kind(x)' = h.kind /\ h.kind \in Kinds \ {"Free"}
      BY <1>1, <2>2 DEF Kind, Headers
    <3>2. p \in Loaded /\ Kind(p)' = Kind(p)
      BY <1>2, <3>1
    <3>3. /\ h.kind # "Kernel"
          /\ h.kind = "AddrSpc" => Kind(p) = "Kernel"
          /\ h.kind = "Thread" => Kind(p) \in {"AddrSpc", "Kernel"}
          /\ h.kind = "SHMem" => Kind(p) = "Thread"
      BY <3>1
    <3> QED BY <3>1, <3>2, <3>3 DEF Level, Kinds
  <2> QED BY <2>1, <2>2
<1>5. Asked'
  <2> SUFFICES ASSUME NEW c \in Objects, uncaching'[c] # NoObject
               PROVE  Kind(c)' = "Thread" /\ uncaching'[c] \in Loaded'
    BY DEF Asked
  <2>1. uncaching'[c] = uncaching[c] /\ Kind(c) = "Thread" /\ uncaching[c] \in Loaded
    BY <1>1 DEF CascadeInv, Asked
  <2>2. c \in Loaded
    BY <2>1 DEF Loaded, Of
  <2> QED BY <1>2, <2>1, <2>2
<1>6. Apart'
  BY <1>1, <1>3 DEF CascadeInv, Apart, Asked
<1>7. \A i \in 1 .. Len(cascade) : cascade[i] \in Loaded
  BY DEF CascadeInv, LockInUse
<1>8. LockInUse'
  <2>1. sysObjManLock # NoObject => sysObjManLock \in Loaded
    BY DEF CascadeInv, IInv, TypeOK, OrNone, LockInUse, Loaded, Of
  <2>2. sysObjManLock # NoObject => Kind(sysObjManLock)' = "Thread"
    <3> SUFFICES ASSUME sysObjManLock # NoObject PROVE Kind(sysObjManLock)' = "Thread"
      OBVIOUS
    <3>1. Kind(sysObjManLock) = "Thread" /\ header'[sysObjManLock] = header[sysObjManLock]
      BY <1>2, <2>1 DEF CascadeInv, LockInUse
    <3> QED BY <1>1, <3>1 DEF Kind
  <2>3. ASSUME NEW i \in 1 .. Len(cascade)
        PROVE  cascade[i] \in Loaded' /\ header'[cascade[i]] = header[cascade[i]]
    BY <1>2, <1>7
  <2> QED BY <1>1, <2>2, <2>3 DEF CascadeInv, LockInUse, Kind
<1>9. GoesUp'
  BY <1>1, <1>3, <1>7 DEF CascadeInv, GoesUp
<1> QED BY <1>4, <1>5, <1>6, <1>8, <1>9 DEF CascadeInv

(* A cascade visits the child of an edge of the object it is about to       *)
(* unload.                                                                 *)
LEMMA VisitGoes ==
    ASSUME CascadeInv, IInv', CKunloadObject
    PROVE  CascadeInv'
<1> DEFINE o == Head(cascade)
           first == graph.firstDependency[o]
           child == graph.ODA[first].child
<1>0. /\ cascade \in Seq(Objects) /\ cascade # <<>> /\ o = cascade[1] /\ Len(cascade) \in Nat \ {0}
      /\ o \in Objects /\ UNCHANGED <<header, graph, sysObjManLock, uncaching>>
      /\ cascade' = <<child>> \o cascade /\ Dependants(o)
  BY DEF CascadeInv, IInv, TypeOK, CKunloadObject
<1>1. first \in 1 .. Len(graph.ODA) /\ graph.ODA[first].parent = o
  BY <1>0, EdgesAre, HasDependants DEF CascadeInv, Healthy, Dependants
<1>2. PICK e \in EdgeSet(graph) : e.parent = o /\ e.child = child
  BY <1>1 DEF EdgeSet
<1>3. child \in Loaded /\ o \in Depends(header[child])
  <2>1. PICK q \in Loaded : \E p \in Depends(header[q]) : e = [parent |-> p, child |-> q]
    BY EdgesAre DEF CascadeInv
  <2>2. PICK p \in Depends(header[q]) : e = [parent |-> p, child |-> q]
    BY <2>1
  <2> QED BY <1>2, <2>2
<1> HIDE DEF child, o, first
<1>4. child \in Objects
  BY <1>3 DEF Loaded
<1> DEFINE n == Len(cascade)
<1>5. /\ Len(cascade') = n + 1 /\ cascade'[1] = child /\ cascade' # <<>>
      /\ \A i \in 2 .. n + 1 : cascade'[i] = cascade[i - 1]
  BY <1>0, <1>4
<1>6. cascade'[n + 1] = cascade[n] /\ cascade'[2] = o
  <2>1. n + 1 \in 2 .. n + 1 /\ n + 1 - 1 = n /\ 2 \in 2 .. n + 1 /\ 2 - 1 = 1
    BY <1>0
  <2> QED BY <1>0, <1>5, <2>1
<1>7. Layered' /\ Asked' /\ Apart'
  BY <1>0 DEF CascadeInv, Layered, Asked, Apart, Level, Kind, Loaded, Of, Ancestry, Up
<1>8. GoesUp'
  <2>1. cascade[n] \in Ancestry(child)
    <3>1. cascade[n] \in Ancestry(o) /\ 1 \in 1 .. n
      BY <1>0 DEF CascadeInv, GoesUp
    <3> QED BY <1>3, <3>1, AncestryOfParent DEF CascadeInv
  <2>2. ASSUME NEW i \in 1 .. n + 1 PROVE cascade[n] \in Ancestry(cascade'[i])
    <3>1. CASE i = 1
      BY <1>5, <2>1, <3>1
    <3>2. CASE i # 1
      <4>1. PICK j \in 1 .. n : j = i - 1
        BY <1>0, <3>2
      <4>2. cascade'[i] = cascade[j]
        BY <1>0, <1>5, <3>2, <4>1
      <4> QED BY <4>2 DEF CascadeInv, GoesUp
    <3> QED BY <3>1, <3>2
  <2>3. \A x : Ancestry(x)' = UpBy(header', UpBy(header', UpBy(header', {x})))
               /\ Ancestry(x) = UpBy(header, UpBy(header, UpBy(header, {x})))
    BY DEF Ancestry, Up, UpBy
  <2> QED BY <1>0, <1>5, <1>6, <2>2, <2>3 DEF GoesUp
<1>9. LockInUse'
  <2>1. ASSUME NEW i \in 1 .. n + 1
        PROVE  /\ cascade'[i] \in Loaded
               /\ i < n + 1 => cascade'[i + 1] \in Depends(header[cascade'[i]])
    <3>1. CASE i = 1
      BY <1>0, <1>3, <1>5, <1>6, <3>1
    <3>2. CASE i # 1
      <4>1. PICK j \in 1 .. n : j = i - 1
        BY <1>0, <3>2
      <4>2. cascade'[i] = cascade[j]
        BY <1>0, <1>5, <3>2, <4>1
      <4>3. ASSUME i < n + 1 PROVE cascade'[i + 1] = cascade[j + 1] /\ j < n
        <5>1. i + 1 \in 2 .. n + 1 /\ i + 1 - 1 = j + 1
          BY <1>0, <4>1, <4>3
        <5> QED BY <1>5, <4>1, <4>3, <5>1
      <4> QED BY <4>2, <4>3 DEF CascadeInv, LockInUse
    <3> QED BY <3>1, <3>2
  <2>2. Loaded' = Loaded /\ Kind(sysObjManLock)' = Kind(sysObjManLock)
    BY <1>0 DEF Loaded, Of, Kind
  <2>3. sysObjManLock # NoObject /\ uncaching[sysObjManLock] = cascade[n] /\ Kind(sysObjManLock) = "Thread"
    BY <1>0 DEF CascadeInv, LockInUse
  <2> QED BY <1>0, <1>5, <1>6, <2>1, <2>2, <2>3 DEF LockInUse
<1> QED BY <1>7, <1>8, <1>9 DEF CascadeInv

(* The innermost object of a cascade is unloaded: nobody else asked for it, *)
(* and nothing that stays loaded depends on it.                            *)
LEMMA UnloadGoes ==
    ASSUME CascadeInv, IInv', cascade # <<>>, NEW o, o = Head(cascade), Unload(o),
           \/ o = sysObjManLock /\ Dies(o)
           \/ o # sysObjManLock /\ Returns(o)
    PROVE  CascadeInv'
<1> DEFINE n == Len(cascade)
           l == sysObjManLock
<1>0. /\ cascade \in Seq(Objects) /\ o = cascade[1] /\ n \in Nat \ {0} /\ o \in Objects
      /\ header \in [Objects -> Headers] /\ header' = [header EXCEPT ![o] = FreeHeader]
      /\ uncaching \in [Objects -> OrNone(Objects)] /\ ~Dependants(o)
  BY DEF CascadeInv, IInv, TypeOK, Unload
<1>1. /\ \A x \in Objects \ {o} : header'[x] = header[x]
      /\ Loaded' = Loaded \ {o}
  <2>1. \A x \in Objects : header'[x] = IF x = o THEN FreeHeader ELSE header[x]
    BY <1>0
  <2>2. \A x \in Objects : x \in Loaded' <=> x \in Loaded /\ x # o
    BY <2>1 DEF Loaded, Of, Kind, FreeHeader
  <2>3. Loaded \subseteq Objects /\ Loaded' \subseteq Objects
    BY DEF Loaded
  <2> QED BY <2>1, <2>2, <2>3
<1>2. /\ l \in Objects /\ Kind(l) = "Thread" /\ uncaching[l] = cascade[n] /\ cascade[n] # NoObject
      /\ \A i \in 1 .. n : cascade[i] \in Loaded
      /\ \A i \in 1 .. n : i < n => cascade[i + 1] \in Depends(header[cascade[i]])
  <2>1. l # NoObject
    BY DEF CascadeInv, LockInUse
  <2>2. l \in Objects
    BY <2>1 DEF CascadeInv, IInv, TypeOK, OrNone
  <2>3. n \in 1 .. n
    BY <1>0
  <2>4. cascade[n] \in Objects
    BY <1>0, <2>3
  <2> QED BY <2>1, <2>2, <2>4 DEF CascadeInv, LockInUse
<1>3. ASSUME NEW x \in Loaded PROVE o \notin Depends(header[x])
  <2>1. o \in Depends(header[x]) => [parent |-> o, child |-> x] \in EdgeSet(graph)
    BY EdgesAre DEF CascadeInv
  <2>2. \A e \in EdgeSet(graph) : e.parent # o
    BY <1>0, EdgesAre DEF CascadeInv
  <2> QED BY <2>1, <2>2
<1>4. ASSUME NEW x \in Loaded, x # o PROVE Ancestry(x)' = Ancestry(x) /\ o \notin Ancestry(x)
  <2>1. Ancestry(x) \subseteq Loaded
    BY AncestryIs DEF CascadeInv
  <2>2. \A S \in SUBSET Loaded : o \notin S => o \notin Up(S)
    BY <1>3 DEF Up
  <2>3. \A S \in SUBSET Loaded : Up(S) \subseteq Loaded
    BY Levels DEF Up, CascadeInv
  <2>4. Up({x}) \subseteq Loaded /\ o \notin Up({x})
    BY <1>4, <2>2, <2>3
  <2>5. Up(Up({x})) \subseteq Loaded /\ o \notin Up(Up({x}))
    BY <2>2, <2>3, <2>4
  <2>6. o \notin Ancestry(x)
    BY <2>2, <2>5 DEF Ancestry
  <2>7. \A y \in Ancestry(x) : header'[y] = header[y]
    BY <1>1, <2>1, <2>6 DEF Loaded
  <2> QED BY <2>6, <2>7, AncestryStays
<1>5. \A i \in 2 .. n : cascade[i] # o
  <2> TAKE i \in 2 .. n
  <2>1. PICK j \in 1 .. n : j + 1 = i /\ j < n
    BY <1>0
  <2> QED BY <1>2, <1>3, <2>1
<1>6. Layered'
  <2>1. ASSUME NEW x \in Loaded', NEW p \in Depends(header'[x]) PROVE Level(p)' < Level(x)'
    <3>1. x \in Loaded /\ x # o /\ header'[x] = header[x]
      BY <1>1 DEF Loaded
    <3>2. p \in Loaded /\ p # o /\ Level(p) < Level(x)
      BY <1>3, <3>1, Levels DEF CascadeInv
    <3>3. header'[p] = header[p]
      BY <1>1, <3>2 DEF Loaded
    <3> QED BY <3>1, <3>2, <3>3 DEF Level, Kind
  <2> QED BY <2>1 DEF Layered
(* Who still uncaches something after the step did so before, of something  *)
(* that is not the object which goes.                                      *)
<1>7. ASSUME NEW c \in Objects, uncaching'[c] # NoObject
      PROVE  /\ uncaching'[c] = uncaching[c] /\ c # o /\ uncaching[c] # o
             /\ Kind(c) = "Thread" /\ uncaching[c] \in Loaded
  <2>1. uncaching'[c] = uncaching[c] /\ c # o
    BY <1>0, <1>7 DEF Dies, Returns
  <2>2. Kind(c) = "Thread" /\ uncaching[c] \in Loaded
    BY <1>7, <2>1 DEF CascadeInv, Asked
  <2>3. CASE c # l
    <3>1. cascade[n] \notin Ancestry(uncaching[c])
      BY <1>2, <1>7, <2>1, <2>3 DEF CascadeInv, Apart
    <3>2. cascade[n] \in Ancestry(o)
      <4>1. 1 \in 1 .. n
        BY <1>0
      <4> QED BY <1>0, <4>1 DEF CascadeInv, GoesUp
    <3> QED BY <2>1, <2>2, <3>1, <3>2
  <2>4. CASE c = l
    <3>1. Returns(o) /\ n # 1
      <4>1. Returns(o)
        BY <2>1, <2>4
      <4>2. n = 1 => cascade' = <<>>
        BY <1>0, <4>1 DEF Returns
      <4>3. cascade' = <<>> => uncaching'[l] = NoObject
        BY <1>0, <1>2, <4>1 DEF Returns
      <4> QED BY <1>7, <2>4, <4>1, <4>2, <4>3
    <3>2. \A k \in Nat \ {0} : k # 1 => k \in 2 .. k
      OBVIOUS
    <3>3. n \in 2 .. n
      <4> HIDE DEF n
      <4>1. n \in Nat \ {0} /\ n # 1
        BY <1>0, <3>1
      <4> QED BY <3>2, <4>1
    <3> QED BY <1>2, <1>5, <2>1, <2>2, <2>4, <3>3
  <2> QED BY <2>3, <2>4
<1>8. Asked'
  <2> SUFFICES ASSUME NEW c \in Objects, uncaching'[c] # NoObject
               PROVE  Kind(c)' = "Thread" /\ uncaching'[c] \in Loaded'
    BY DEF Asked
  <2> QED BY <1>1, <1>7 DEF Kind
<1>9. Apart'
  <2>1. ASSUME NEW c \in Objects, NEW d \in Objects, c # d, NEW x, x = uncaching'[d],
               uncaching'[c] # NoObject, uncaching'[d] # NoObject
        PROVE  uncaching'[c] \notin Ancestry(x)'
    <3>1. x = uncaching[d] /\ x \in Loaded /\ x # o
      BY <1>7, <2>1
    <3>2. uncaching'[c] = uncaching[c] /\ uncaching[c] # NoObject
      BY <1>7, <2>1
    <3>3. uncaching[c] \notin Ancestry(x)
      BY <2>1, <3>1, <3>2 DEF CascadeInv, Apart
    <3>4. Ancestry(x)' = Ancestry(x)
      BY <1>4, <3>1
    <3> QED BY <3>2, <3>3, <3>4
  <2> QED BY <2>1 DEF Apart
<1>10. CASE cascade' = <<>>
  <2>1. sysObjManLock' = NoObject
    BY <1>10 DEF Dies, Returns
  <2> QED BY <1>6, <1>8, <1>9, <1>10, <2>1 DEF CascadeInv, LockInUse, GoesUp
<1>11. CASE cascade' # <<>>
  <2>1. /\ o # l /\ cascade' = Tail(cascade) /\ sysObjManLock' = l
        /\ uncaching' = [uncaching EXCEPT ![o] = NoObject]
    BY <1>11 DEF Dies, Returns
  <2>2. /\ n - 1 \in Nat \ {0} /\ Len(cascade') = n - 1
        /\ \A i \in 1 .. n - 1 : cascade'[i] = cascade[i + 1]
    BY <1>0, <1>11, <2>1
  <2>3. cascade'[n - 1] = cascade[n]
    <3>1. n - 1 \in 1 .. n - 1 /\ n - 1 + 1 = n
      BY <1>0, <2>2
    <3> QED BY <2>2, <3>1
  <2>4. ASSUME NEW i \in 1 .. n - 1
        PROVE  /\ cascade'[i] \in Loaded /\ cascade'[i] # o
               /\ header'[cascade'[i]] = header[cascade'[i]]
               /\ \A x : x = cascade'[i] => cascade[n] \in Ancestry(x)'
               /\ i < n - 1 => cascade'[i + 1] \in Depends(header[cascade'[i]])
    <3>1. PICK j \in 2 .. n : j = i + 1
      BY <1>0
    <3>2. cascade'[i] = cascade[j] /\ cascade[j] \in Loaded /\ cascade[j] # o
      BY <1>2, <1>5, <2>2, <3>1
    <3>3. header'[cascade[j]] = header[cascade[j]]
      BY <1>1, <3>2 DEF Loaded
    <3>4. PICK x \in Loaded : x = cascade[j] /\ x = cascade'[i] /\ x # o
      BY <3>2
    <3>5. cascade[n] \in Ancestry(x) /\ Ancestry(x)' = Ancestry(x)
      <4>1. j \in 1 .. n
        BY <1>0
      <4> QED BY <1>4, <3>4, <4>1 DEF CascadeInv, GoesUp
    <3>6. ASSUME i < n - 1 PROVE cascade'[i + 1] = cascade[j + 1] /\ j < n
      <4>1. i + 1 \in 1 .. n - 1
        BY <1>0, <3>6
      <4> QED BY <2>2, <3>1, <3>6, <4>1
    <3>7. j \in 1 .. n
      BY <1>0
    <3>8. i < n - 1 => cascade'[i + 1] \in Depends(header[cascade'[i]])
      BY <1>2, <3>2, <3>6, <3>7
    <3>9. \A y : y = cascade'[i] => cascade[n] \in Ancestry(y)'
      BY <3>4, <3>5
    <3> QED BY <3>2, <3>3, <3>8, <3>9
  <2>5. GoesUp'
    BY <2>2, <2>3, <2>4 DEF GoesUp
  <2>6. Kind(l)' = "Thread" /\ uncaching'[l] = cascade[n]
    <3>1. header'[l] = header[l]
      BY <1>1, <1>2, <2>1
    <3> QED BY <1>0, <1>2, <2>1, <3>1 DEF Kind
  <2>7. l # NoObject
    BY <1>2, DepGraphAssumption
  <2>8. LockInUse'
    <3>1. sysObjManLock' = NoObject <=> cascade' = <<>>
      BY <1>11, <2>1, <2>7
    <3>2. Kind(sysObjManLock)' = "Thread" /\ uncaching'[sysObjManLock'] = cascade'[Len(cascade')]
      BY <2>1, <2>2, <2>3, <2>6 DEF Kind
    <3>3. \A i \in 1 .. Len(cascade') :
             /\ cascade'[i] \in Loaded'
             /\ i < Len(cascade') => cascade'[i + 1] \in Depends(header'[cascade'[i]])
      BY <1>1, <2>2, <2>4
    <3> QED BY <3>1, <3>2, <3>3 DEF LockInUse
  <2> QED BY <1>6, <1>8, <1>9, <2>5, <2>8 DEF CascadeInv
<1> QED BY <1>10, <1>11

LEMMA CascadesGoOn == CascadeInv /\ [Next]_vars => CascadeInv'
<1> SUFFICES ASSUME CascadeInv, [Next]_vars PROVE CascadeInv'
  OBVIOUS
<1>0. /\ IInv' /\ header \in [Objects -> Headers] /\ cascade \in Seq(Objects)
      /\ uncaching \in [Objects -> OrNone(Objects)] /\ sysObjManLock \in OrNone(Objects)
  BY NextIInv DEF CascadeInv, IInv, TypeOK
<1>1. ASSUME NEW c \in Objects, NEW o \in Objects, CKloadKernelObject(c, o) PROVE CascadeInv'
  <2> DEFINE h == [kind |-> "Kernel", space |-> NoObject, parent |-> NoObject]
  <2>1. h \in Headers /\ Depends(h) = {} /\ h.kind = "Kernel"
    BY DEF Headers, Kinds, Depends
  <2>2. Load(o, h)
    BY <1>1 DEF CKloadKernelObject
  <2> HIDE DEF h
  <2> QED BY <1>0, <2>1, <2>2, LoadGoes
<1>2. ASSUME NEW c \in Objects, NEW o \in Objects, NEW k \in OrNone(Of("Kernel")),
             CKloadAddrSpcObject(c, o, k)
      PROVE  CascadeInv'
  <2> DEFINE h == [kind |-> "AddrSpc", space |-> NoObject, parent |-> k]
  <2>1. k = NoObject \/ (k \in Loaded /\ Kind(k) = "Kernel")
    BY DEF OrNone, Of, Loaded, Kind
  <2>2. h \in Headers /\ h.kind = "AddrSpc" /\ \A p \in Depends(h) : p \in Loaded /\ Kind(p) = "Kernel"
    BY <2>1 DEF Headers, Kinds, Depends, Loaded
  <2>3. Load(o, h)
    BY <1>2 DEF CKloadAddrSpcObject
  <2> HIDE DEF h
  <2> QED BY <1>0, <2>2, <2>3, LoadGoes
<1>3. ASSUME NEW c \in Objects, NEW o \in Objects, NEW a \in Of("AddrSpc"),
             NEW k \in OrNone(Of("Kernel")), CKloadThreadObject(c, o, a, k)
      PROVE  CascadeInv'
  <2> DEFINE h == [kind |-> "Thread", space |-> a, parent |-> k]
  <2>1. /\ a \in Loaded /\ Kind(a) = "AddrSpc"
        /\ k = NoObject \/ (k \in Loaded /\ Kind(k) = "Kernel")
    BY DEF OrNone, Of, Loaded, Kind
  <2>2. /\ h \in Headers /\ h.kind = "Thread"
        /\ \A p \in Depends(h) : p \in Loaded /\ Kind(p) \in {"AddrSpc", "Kernel"}
    BY <2>1 DEF Headers, Kinds, Depends, Loaded
  <2>3. Load(o, h)
    BY <1>3 DEF CKloadThreadObject
  <2> HIDE DEF h
  <2> QED BY <1>0, <2>2, <2>3, LoadGoes
<1>4. ASSUME NEW c \in Objects, NEW o \in Objects, CKloadSHMemObject(c, o) PROVE CascadeInv'
  <2> DEFINE h == [kind |-> "SHMem", space |-> NoObject, parent |-> c]
  <2>1. c \in Loaded /\ Kind(c) = "Thread"
    BY <1>4 DEF CKloadSHMemObject, Enters, Of, Loaded
  <2>2. h \in Headers /\ h.kind = "SHMem" /\ \A p \in Depends(h) : p \in Loaded /\ Kind(p) = "Thread"
    BY <2>1 DEF Headers, Kinds, Depends, Loaded
  <2>3. Load(o, h)
    BY <1>4 DEF CKloadSHMemObject
  <2> HIDE DEF h
  <2> QED BY <1>0, <2>2, <2>3, LoadGoes
(* Steps that leave the headers alone. *)
<1>5. ASSUME header' = header
      PROVE  Layered' /\ (\A x : Ancestry(x)' = Ancestry(x)) /\ Loaded' = Loaded
             /\ \A x : Kind(x)' = Kind(x)
  <2>1. Loaded' = Loaded /\ \A x : Kind(x)' = Kind(x)
    BY <1>5 DEF Loaded, Of, Kind
  <2>2. Layered'
    BY <1>5, <2>1 DEF CascadeInv, Layered, Level
  <2> QED BY <1>5, <2>1, <2>2, AncestryStays
<1>6. ASSUME NEW c \in Objects, NEW d \in Loaded, CKunCacheObject(c, d) PROVE CascadeInv'
  <2>1. /\ uncaching' = [uncaching EXCEPT ![c] = d] /\ uncaching[c] = NoObject /\ c # sysObjManLock
        /\ Kind(c) = "Thread" /\ UNCHANGED <<header, sysObjManLock, cascade>>
    BY <1>6 DEF CKunCacheObject
  <2>2. Asked'
    BY <1>0, <1>5, <2>1 DEF CascadeInv, Asked
  <2>3. Apart'
    <3>1. ASSUME NEW a \in Objects, NEW b \in Objects, a # b, NEW x, x = uncaching'[b],
                 uncaching'[a] # NoObject, uncaching'[b] # NoObject
          PROVE  uncaching'[a] \notin Ancestry(x)'
      <4>1. Ancestry(x)' = Ancestry(x)
        BY <1>5, <2>1
      <4>2. CASE a = c
        <5>1. uncaching'[a] = d /\ x = uncaching[b]
          BY <1>0, <2>1, <3>1, <4>2
        <5>2. d \notin Ancestry(uncaching[b])
          BY <1>6, <3>1, <5>1 DEF CKunCacheObject, Independent
        <5> QED BY <4>1, <5>1, <5>2
      <4>3. CASE b = c
        <5>1. uncaching'[a] = uncaching[a] /\ x = d
          BY <1>0, <2>1, <3>1, <4>3
        <5>2. uncaching[a] \notin Ancestry(d)
          BY <1>6, <3>1, <5>1 DEF CKunCacheObject, Independent
        <5> QED BY <4>1, <5>1, <5>2
      <4>4. CASE a # c /\ b # c
        <5>1. uncaching'[a] = uncaching[a] /\ x = uncaching[b]
          BY <1>0, <2>1, <3>1, <4>4
        <5> QED BY <3>1, <4>1, <5>1 DEF CascadeInv, Apart
      <4> QED BY <4>2, <4>3, <4>4
    <3> QED BY <3>1 DEF Apart
  <2>4. LockInUse'
    <3>1. sysObjManLock # NoObject => uncaching'[sysObjManLock] = uncaching[sysObjManLock]
      BY <1>0, <2>1 DEF OrNone
    <3>2. Kind(sysObjManLock)' = Kind(sysObjManLock)
      BY <2>1 DEF Kind
    <3> QED BY <1>5, <2>1, <3>1, <3>2 DEF CascadeInv, LockInUse
  <2>5. GoesUp'
    BY <1>5, <2>1 DEF CascadeInv, GoesUp
  <2> QED BY <1>0, <1>5, <2>1, <2>2, <2>3, <2>4, <2>5 DEF CascadeInv
<1>7. ASSUME NEW c \in Objects, UnCacheEnters(c) PROVE CascadeInv'
  <2>1. /\ uncaching[c] # NoObject /\ sysObjManLock' = c /\ cascade' = <<uncaching[c]>>
        /\ UNCHANGED <<header, uncaching>>
    BY <1>7 DEF UnCacheEnters
  <2>2. PICK d \in Loaded : d = uncaching[c] /\ Kind(c) = "Thread" /\ c # NoObject
    BY <2>1, DepGraphAssumption DEF CascadeInv, Asked
  <2>3. Len(cascade') = 1 /\ cascade' # <<>> /\ cascade'[1] = d
    BY <2>1, <2>2
  <2>4. Asked' /\ Apart'
    BY <1>5, <2>1 DEF CascadeInv, Asked, Apart
  <2>5. LockInUse'
    <3>1. Kind(sysObjManLock)' = "Thread"
      BY <2>1, <2>2 DEF Kind
    <3> QED BY <1>5, <2>1, <2>2, <2>3, <3>1 DEF LockInUse
  <2>6. GoesUp'
    <3>1. d \in Ancestry(d) /\ Ancestry(d)' = Ancestry(d)
      BY <1>5, <2>1, AncestryIs DEF CascadeInv
    <3> QED BY <2>3, <3>1 DEF GoesUp
  <2> QED BY <1>0, <1>5, <2>1, <2>4, <2>5, <2>6 DEF CascadeInv
<1>8. ASSUME CKunloadObject PROVE CascadeInv'
  BY <1>0, <1>8, VisitGoes
<1>9. ASSUME CKunloadThreadObject PROVE CascadeInv'
  <2>1. PICK o : /\ o = Head(cascade) /\ cascade # <<>> /\ Unload(o)
                 /\ IF o = sysObjManLock THEN Dies(o) ELSE Returns(o)
    BY <1>9 DEF CKunloadThreadObject
  <2> QED BY <1>0, <2>1, UnloadGoes
<1>10. ASSUME CKunloadOther PROVE CascadeInv'
  <2>1. PICK o : /\ o = Head(cascade) /\ cascade # <<>> /\ Unload(o) /\ Returns(o)
                 /\ Kind(o) # "Thread"
    BY <1>10 DEF CKunloadOther
  <2>2. sysObjManLock # NoObject /\ Kind(sysObjManLock) = "Thread"
    BY <2>1 DEF CascadeInv, LockInUse
  <2> QED BY <1>0, <2>1, <2>2, UnloadGoes
<1>11. CASE UNCHANGED vars
  <2>1. header' = header /\ UNCHANGED <<sysObjManLock, uncaching, cascade>>
    BY <1>11 DEF vars
  <2>2. Asked' /\ Apart' /\ GoesUp'
    BY <1>5, <2>1 DEF CascadeInv, Asked, Apart, GoesUp
  <2>3. Kind(sysObjManLock)' = Kind(sysObjManLock)
    BY <2>1 DEF Kind
  <2>4. LockInUse'
    BY <1>5, <2>1, <2>3 DEF CascadeInv, LockInUse
  <2> QED BY <1>0, <1>5, <2>1, <2>2, <2>4 DEF CascadeInv
<1> QED BY <1>1, <1>2, <1>3, <1>4, <1>6, <1>7, <1>8, <1>9, <1>10, <1>11 DEF Next

LEMMA CascadeInvariant == Spec => []CascadeInv
<1>1. Init => CascadeInv
  <2> SUFFICES ASSUME Init PROVE CascadeInv
    OBVIOUS
  <2>1. IInv
    BY InitIInv
  <2>2. Asked /\ Apart /\ LockInUse /\ GoesUp
    <3>1. /\ \A c \in Objects : uncaching[c] = NoObject
          /\ sysObjManLock = NoObject /\ cascade = <<>> /\ Len(cascade) = 0
      BY DEF Init
    <3>2. Asked /\ Apart
      BY <3>1 DEF Asked, Apart
    <3>3. LockInUse /\ GoesUp
      BY <3>1 DEF LockInUse, GoesUp
    <3> QED BY <3>2, <3>3
  <2>3. Layered
    <3>1. PICK a \in Objects, t \in Objects :
              /\ a # t
              /\ header = [o \in Objects |->
                    IF o = a THEN [FreeHeader EXCEPT !.kind = "AddrSpc"]
                    ELSE IF o = t THEN [kind |-> "Thread", space |-> a, parent |-> NoObject]
                    ELSE FreeHeader]
      BY DEF Init
    <3>2. /\ Kind(a) = "AddrSpc" /\ Depends(header[a]) = {}
          /\ Kind(t) = "Thread" /\ Depends(header[t]) = {a}
          /\ \A o \in Loaded : o \in {a, t}
      BY <3>1 DEF FreeHeader, Kind, Depends, Loaded, Of
    <3> QED BY <3>2 DEF Layered, Level
  <2> QED BY <2>1, <2>2, <2>3 DEF CascadeInv
<1> QED BY <1>1, CascadesGoOn, PTL DEF Spec

(* sysObjManLock is held by a thread that lives, for the uncache it asked   *)
(* for, and the calls of CKunloadObject nest along dependencies.            *)
THEOREM LockIsInUse == Spec => []LockInUse
<1>1. CascadeInv => LockInUse
  BY DEF CascadeInv
<1> QED BY <1>1, CascadeInvariant, PTL

(* CKunCacheObject unloads nothing but the object that it was called for    *)
(* and what depends on it, whatever is loaded and asked for meanwhile.     *)
THEOREM OnlyDependantsGo == Spec => OnlyDependants
<1> DEFINE A == \A o \in Loaded : header'[o].kind = "Free"
                   => cascade # <<>> /\ cascade[Len(cascade)] \in Ancestry(o)
<1>1. CascadeInv /\ [Next]_vars => [A]_vars
  <2> SUFFICES ASSUME CascadeInv, [Next]_vars,
                      NEW o \in Loaded, header'[o].kind = "Free"
               PROVE  cascade # <<>> /\ cascade[Len(cascade)] \in Ancestry(o)
    OBVIOUS
  <2>0. header \in [Objects -> Headers] /\ cascade \in Seq(Objects) /\ o \in Objects
        /\ header[o].kind # "Free"
    BY DEF CascadeInv, IInv, TypeOK, Loaded, Of, Kind
  <2>1. header' # header
    BY <2>0
  <2>2. \A x, h : Load(x, h) => header'[o] = header[o] \/ x = o
    BY <2>0 DEF Load
  <2>3. \A x, h : ~Load(x, h) \/ x # o
    BY <2>0 DEF Load, Kind
  <2>4. CKunloadThreadObject \/ CKunloadOther
    BY <2>0, <2>1, <2>2, <2>3 DEF Next, CKloadKernelObject, CKloadThreadObject, CKloadAddrSpcObject,
          CKloadSHMemObject, CKunCacheObject, UnCacheEnters, CKunloadObject, vars
  <2>5. cascade # <<>> /\ header' = [header EXCEPT ![Head(cascade)] = FreeHeader]
    BY <2>4 DEF CKunloadThreadObject, CKunloadOther, Unload
  <2>6. o = Head(cascade) /\ o = cascade[1] /\ 1 \in 1 .. Len(cascade)
    BY <2>0, <2>5
  <2> QED BY <2>5, <2>6 DEF CascadeInv, GoesUp
<1> QED BY <1>1, CascadeInvariant, CascadesGoOn, PTL DEF Spec, OnlyDependants
=============================================================================
