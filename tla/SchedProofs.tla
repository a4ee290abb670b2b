----------------------------- MODULE SchedProofs ----------------------------
(***************************************************************************)
(* Theorems about the scheduler, for every set of threads, every defer and *)
(* width of the times, and stacks of every depth: a thread is in the heap  *)
(* that its state names, at most one context is inside the scheduler,      *)
(* whoever executes its own code will be interrupted by the timer, the     *)
(* thread that runs is at the root of its heap, and it becomes a realtime  *)
(* thread if and only if it wrote a deadline.                              *)
(***************************************************************************)
EXTENDS Sched, SequenceTheorems, TLAPS

USE SchedAssumption, TimeWidthAssumption

-----------------------------------------------------------------------------
(* What the operations on a heap do to its contents.                       *)
Once(h, x)   == \E i \in 1 .. Len(h) : h[i] = x /\ \A j \in 1 .. Len(h) : h[j] = x => j = i
Absent(h, x) == \A i \in 1 .. Len(h) : h[i] # x

Shuffled(g, h, S) ==
    /\ g \in Seq(S) /\ Len(g) = Len(h)
    /\ \A x : (Once(g, x) <=> Once(h, x)) /\ (Absent(g, x) <=> Absent(h, x))

LEMMA ListIs ==
    ASSUME NEW S, NEW n \in Nat, NEW h \in [1 .. n -> S]
    PROVE  h \in Seq(S) /\ Len(h) = n
OBVIOUS

LEMMA Permuted ==
    ASSUME NEW S, NEW h \in Seq(S), NEW g, NEW from \in [1 .. Len(h) -> 1 .. Len(h)],
           \A i, j \in 1 .. Len(h) : from[i] = from[j] => i = j,
           \A i \in 1 .. Len(h) : \E j \in 1 .. Len(h) : from[j] = i,
           g = [j \in 1 .. Len(h) |-> h[from[j]]]
    PROVE  Shuffled(g, h, S)
<1> DEFINE n == Len(h)
<1>1. n \in Nat /\ \A i \in 1 .. n : h[i] \in S /\ from[i] \in 1 .. n
  OBVIOUS
<1> HIDE DEF n
<1>2. g \in [1 .. n -> S] /\ \A j \in 1 .. n : g[j] = h[from[j]]
  BY <1>1 DEF n
<1>3. g \in Seq(S) /\ Len(g) = n
  BY <1>1, <1>2
<1>4. ASSUME NEW x PROVE Once(g, x) <=> Once(h, x)
  <2>1. ASSUME Once(g, x) PROVE Once(h, x)
    <3>1. PICK j \in 1 .. n : g[j] = x /\ \A k \in 1 .. n : g[k] = x => k = j
      BY <1>3, <2>1 DEF Once
    <3>2. ASSUME NEW i \in 1 .. n, h[i] = x PROVE i = from[j]
      <4>1. PICK k \in 1 .. n : from[k] = i
        BY DEF n
      <4> QED BY <1>2, <3>1, <3>2, <4>1
    <3> QED BY <1>1, <1>2, <3>1, <3>2 DEF Once, n
  <2>2. ASSUME Once(h, x) PROVE Once(g, x)
    <3>1. PICK i \in 1 .. n : h[i] = x /\ \A k \in 1 .. n : h[k] = x => k = i
      BY <2>2 DEF Once, n
    <3>2. PICK j \in 1 .. n : from[j] = i
      BY DEF n
    <3>3. ASSUME NEW k \in 1 .. n, g[k] = x PROVE k = j
      <4>1. from[k] = from[j]
        BY <1>1, <1>2, <3>1, <3>2, <3>3
      <4> QED BY <4>1 DEF n
    <3>4. g[j] = x
      BY <1>2, <3>1, <3>2
    <3> QED BY <1>3, <3>3, <3>4 DEF Once
  <2> QED BY <2>1, <2>2
<1>5. ASSUME NEW x PROVE Absent(g, x) <=> Absent(h, x)
  <2>1. ASSUME NEW i \in 1 .. n, h[i] = x PROVE ~Absent(g, x)
    <3>1. PICK j \in 1 .. n : from[j] = i
      BY DEF n
    <3> QED BY <1>2, <1>3, <2>1, <3>1 DEF Absent
  <2>2. ASSUME NEW j \in 1 .. n, g[j] = x PROVE ~Absent(h, x)
    BY <1>1, <1>2, <2>2 DEF Absent, n
  <2>3. Absent(g, x) => Absent(h, x)
    BY <2>1 DEF Absent, n
  <2>4. Absent(h, x) => Absent(g, x)
    BY <1>3, <2>2 DEF Absent
  <2> QED BY <2>3, <2>4
<1> QED BY <1>3, <1>4, <1>5 DEF Shuffled, n

LEMMA ParentIs ==
    ASSUME NEW i \in Nat, i > 0
    PROVE  Parent(i) \in Nat /\ Parent(i) < i /\ i \in {2 * Parent(i), 2 * Parent(i) + 1}
BY DEF Parent

LEMMA MinChildIs ==
    ASSUME NEW i \in Nat, NEW h, NEW times
    PROVE  /\ MinChild(h, times, i) \in Nat /\ MinChild(h, times, i) >= i
           /\ i > 0 => MinChild(h, times, i) > i
           /\ Parent(MinChild(h, times, i)) = i
<1>1. MinChild(h, times, i) \in {2 * i, 2 * i + 1}
  BY DEF MinChild
<1>2. (2 * i) \div 2 = i /\ (2 * i + 1) \div 2 = i
  OBVIOUS
<1> QED BY <1>1, <1>2 DEF Parent

(* On a path a slot has one child.                                         *)
OneChild(P, top, bottom) ==
    /\ top \in P /\ bottom \in P
    /\ \A i \in P : top <= i /\ i <= bottom
    /\ \A i \in P \ {top} : Parent(i) \in P \ {bottom}
    /\ Parent(top) \notin P
    /\ \A i \in P \ {bottom} : \E j \in P \ {top} : Parent(j) = i
    /\ \A i, j \in P : Parent(i) = Parent(j) => i = j

LEMMA PathIs ==
    ASSUME NEW n \in Nat, NEW top \in 1 .. n, NEW bottom \in 1 .. n, NEW P, IsPath(P, top, bottom)
    PROVE  P \subseteq 1 .. n /\ OneChild(P, top, bottom)
<1>1. P \subseteq top .. bottom /\ top \in P /\ bottom \in P
  BY DEF IsPath
<1>2. \A i \in P : i \in Nat /\ i > 0 /\ top <= i /\ i <= bottom /\ i \in 1 .. n
  BY <1>1
<1>3. \A i \in P : Parent(i) \in Nat /\ Parent(i) < i
  BY <1>2, ParentIs
<1>4. ASSUME NEW i \in P, NEW j \in P, Parent(i) = Parent(j), i < j PROVE FALSE
  <2>1. i <= Parent(j)
    BY <1>4 DEF IsPath
  <2> QED BY <1>2, <1>3, <1>4, <2>1
<1>5. ASSUME NEW i \in P, NEW j \in P, Parent(i) = Parent(j) PROVE i = j
  <2>1. ~(i < j) /\ ~(j < i)
    BY <1>4, <1>5
  <2> QED BY <1>2, <2>1
<1>6. ASSUME NEW i \in P \ {top} PROVE Parent(i) \in P \ {bottom}
  <2>1. Parent(i) \in P
    BY DEF IsPath
  <2>2. Parent(i) # bottom
    BY <1>2, <1>3
  <2> QED BY <2>1, <2>2
<1>7. Parent(top) \notin P
  BY <1>1, <1>2, <1>3
<1>8. ASSUME NEW i \in P \ {bottom} PROVE \E j \in P \ {top} : Parent(j) = i
  <2>1. PICK j \in P : Parent(j) = i
    BY DEF IsPath
  <2>2. j # top
    BY <1>7, <2>1
  <2> QED BY <2>1, <2>2
<1> QED BY <1>1, <1>2, <1>5, <1>6, <1>7, <1>8 DEF OneChild

LEMMA ClimbShuffles ==
    ASSUME NEW S, NEW h \in Seq(S), NEW times, NEW i \in 1 .. Len(h), NEW e, h[i] = e,
           NEW g \in Climb(h, times, e, i)
    PROVE  Shuffled(g, h, S)
<1> DEFINE n == Len(h)
<1>1. n \in Nat /\ i \in 1 .. n
  OBVIOUS
<1>2. PICK P \in ClimbPaths(h, times, e, i) :
         g = [j \in 1 .. n |-> IF j \notin P THEN h[j]
                               ELSE IF Parent(j) \in P THEN h[Parent(j)] ELSE e]
  BY DEF Climb
<1>3. PICK top \in P : P \subseteq 1 .. i /\ IsPath(P, top, i)
  BY <1>2 DEF ClimbPaths
<1> HIDE DEF n
<1>4. top \in 1 .. n
  BY <1>1, <1>3
<1>5. /\ P \subseteq 1 .. n /\ top \in P /\ i \in P
      /\ \A j \in P \ {top} : Parent(j) \in P \ {i}
      /\ Parent(top) \notin P
      /\ \A j \in P \ {i} : \E k \in P \ {top} : Parent(k) = j
      /\ \A j, k \in P : Parent(j) = Parent(k) => j = k
  <2>1. IsPath(P, top, i) /\ top \in 1 .. n /\ i \in 1 .. n /\ n \in Nat
    BY <1>1, <1>3, <1>4
  <2>2. P \subseteq 1 .. n /\ OneChild(P, top, i)
    BY <2>1, PathIs
  <2> QED BY <2>2 DEF OneChild
<1> DEFINE from == [j \in 1 .. n |-> IF j \notin P THEN j
                                     ELSE IF Parent(j) \in P THEN Parent(j) ELSE i]
<1>6. from \in [1 .. n -> 1 .. n]
  BY <1>1, <1>5
<1>7. ASSUME NEW j \in 1 .. n, NEW k \in 1 .. n, from[j] = from[k] PROVE j = k
  <2>1. CASE j \notin P /\ k \notin P
    BY <1>7, <2>1
  <2>2. CASE j \in P /\ k \notin P
    BY <1>5, <1>7, <2>2
  <2>3. CASE j \notin P /\ k \in P
    BY <1>5, <1>7, <2>3
  <2>4. CASE j \in P /\ k \in P
    BY <1>5, <1>7, <2>4
  <2> QED BY <2>1, <2>2, <2>3, <2>4
<1>8. ASSUME NEW j \in 1 .. n PROVE \E k \in 1 .. n : from[k] = j
  <2>1. CASE j \notin P
    BY <2>1
  <2>2. CASE j = i
    BY <1>5, <2>2
  <2>3. CASE j \in P \ {i}
    BY <1>5, <2>3
  <2> QED BY <2>1, <2>2, <2>3
<1>9. g = [j \in 1 .. n |-> h[from[j]]]
  BY <1>2
<1> HIDE DEF from
<1> QED BY <1>6, <1>7, <1>8, <1>9, Permuted DEF n

LEMMA SinkShuffles ==
    ASSUME NEW S, NEW h \in Seq(S), NEW times, NEW i \in 1 .. Len(h), NEW e, h[i] = e,
           NEW g \in Sink(h, times, e, i)
    PROVE  Shuffled(g, h, S)
<1> DEFINE n == Len(h)
           Child(j) == MinChild(h, times, j)
<1>1. n \in Nat /\ i \in 1 .. n
  OBVIOUS
<1>2. PICK P \in SinkPaths(h, times, e, i) :
         g = [j \in 1 .. n |-> IF j \notin P THEN h[j]
                               ELSE IF Child(j) \in P THEN h[Child(j)] ELSE e]
  BY DEF Sink
<1>3. PICK bottom \in P : /\ P \subseteq i .. n /\ IsPath(P, i, bottom)
                          /\ \A j \in P \ {i} : j = Child(Parent(j))
  BY <1>2 DEF SinkPaths
<1> HIDE DEF n
<1>4. bottom \in 1 .. n
  BY <1>1, <1>3
<1>5. /\ P \subseteq 1 .. n /\ i \in P /\ bottom \in P
      /\ \A j \in P : i <= j /\ j <= bottom
      /\ \A j \in P \ {i} : Parent(j) \in P \ {bottom}
      /\ \A j \in P \ {bottom} : \E k \in P \ {i} : Parent(k) = j
  <2>1. IsPath(P, i, bottom) /\ i \in 1 .. n /\ bottom \in 1 .. n /\ n \in Nat
    BY <1>1, <1>3, <1>4
  <2>2. P \subseteq 1 .. n /\ OneChild(P, i, bottom)
    BY <2>1, PathIs
  <2> QED BY <2>2 DEF OneChild
<1>6. \A j \in P : Child(j) \in Nat /\ Child(j) > j /\ Parent(Child(j)) = j
  <2>1. \A j \in P : j \in Nat /\ j > 0
    BY <1>1, <1>5
  <2> QED BY <2>1, MinChildIs
<1>7. \A j \in P \ {i} : Child(Parent(j)) = j
  BY <1>3
<1> HIDE DEF Child
<1>8. Child(bottom) \notin P
  BY <1>4, <1>5, <1>6
<1>9. \A j \in P \ {bottom} : Child(j) \in P \ {i}
  BY <1>5, <1>7
<1> DEFINE from == [j \in 1 .. n |-> IF j \notin P THEN j
                                     ELSE IF Child(j) \in P THEN Child(j) ELSE i]
<1>10. from \in [1 .. n -> 1 .. n]
  BY <1>1, <1>5
<1>11. ASSUME NEW j \in 1 .. n, NEW k \in 1 .. n, from[j] = from[k] PROVE j = k
  <2>1. CASE j \notin P /\ k \notin P
    BY <1>11, <2>1
  <2>2. CASE j \in P /\ k \notin P
    BY <1>5, <1>11, <2>2
  <2>3. CASE j \notin P /\ k \in P
    BY <1>5, <1>11, <2>3
  <2>4. CASE j \in P /\ k \in P
    <3>1. CASE j = bottom \/ k = bottom
      BY <1>5, <1>8, <1>9, <1>11, <2>4, <3>1
    <3>2. CASE j # bottom /\ k # bottom
      BY <1>6, <1>9, <1>11, <2>4, <3>2
    <3> QED BY <3>1, <3>2
  <2> QED BY <2>1, <2>2, <2>3, <2>4
<1>12. ASSUME NEW j \in 1 .. n PROVE \E k \in 1 .. n : from[k] = j
  <2>1. CASE j \notin P
    BY <2>1
  <2>2. CASE j = i
    BY <1>5, <1>8, <2>2
  <2>3. CASE j \in P \ {i}
    <3>1. PICK k \in P : Child(k) = j
      BY <1>5, <1>7, <2>3
    <3> QED BY <1>5, <2>3, <3>1
  <2> QED BY <2>1, <2>2, <2>3
<1>13. g = [j \in 1 .. n |-> h[from[j]]]
  BY <1>2 DEF Child
<1> HIDE DEF from
<1> QED BY <1>10, <1>11, <1>12, <1>13, Permuted DEF n
(* g has what h has, but for e.                                            *)
ButFor(g, h, e) ==
    \A x : x # e => (Once(g, x) <=> Once(h, x)) /\ (Absent(g, x) <=> Absent(h, x))

LEMMA SlotIs ==
    ASSUME NEW h, NEW e, Once(h, e)
    PROVE  /\ SlotOf(h, e) \in 1 .. Len(h) /\ h[SlotOf(h, e)] = e
           /\ \A i \in 1 .. Len(h) : h[i] = e => i = SlotOf(h, e)
<1>1. \E i \in 1 .. Len(h) : h[i] = e
  BY DEF Once
<1>2. SlotOf(h, e) \in 1 .. Len(h) /\ h[SlotOf(h, e)] = e
  BY <1>1 DEF SlotOf
<1> QED BY <1>2 DEF Once

LEMMA SiftupIs ==
    ASSUME NEW S, NEW h \in Seq(S), NEW times, NEW e \in S, Absent(h, e),
           NEW g \in Siftup(h, times, e)
    PROVE  g \in Seq(S) /\ Once(g, e) /\ ButFor(g, h, e)
<1> DEFINE n == Len(h)
           a == Append(h, e)
<1>1. /\ n \in Nat /\ a \in Seq(S) /\ Len(a) = n + 1
      /\ a[n + 1] = e /\ \A i \in 1 .. n : a[i] = h[i]
  OBVIOUS
<1>2. g \in Climb(a, times, e, n + 1)
  BY DEF Siftup
<1> HIDE DEF a, n
<1>3. \A i \in 1 .. n + 1 : i = n + 1 \/ i \in 1 .. n
  BY <1>1
<1>4. n + 1 \in 1 .. n + 1 /\ \A i \in 1 .. n : i \in 1 .. n + 1 /\ i # n + 1
  BY <1>1
<1>5. Once(a, e)
  BY <1>1, <1>3, <1>4 DEF Once, Absent, n
<1>6. ASSUME NEW x, x # e PROVE Absent(a, x) <=> Absent(h, x)
  BY <1>1, <1>3, <1>4, <1>6 DEF Absent, n
<1>7. ASSUME NEW x, x # e PROVE Once(a, x) <=> Once(h, x)
  <2>1. ASSUME Once(a, x) PROVE Once(h, x)
    <3>1. PICK i \in 1 .. n + 1 : a[i] = x /\ \A j \in 1 .. n + 1 : a[j] = x => j = i
      BY <1>1, <2>1 DEF Once
    <3>2. i \in 1 .. n
      BY <1>1, <1>3, <1>7, <3>1
    <3> QED BY <1>1, <1>4, <3>1, <3>2 DEF Once, n
  <2>2. ASSUME Once(h, x) PROVE Once(a, x)
    <3>1. PICK i \in 1 .. n : h[i] = x /\ \A j \in 1 .. n : h[j] = x => j = i
      BY <2>2 DEF Once, n
    <3>2. a[i] = x /\ \A j \in 1 .. n + 1 : a[j] = x => j = i
      BY <1>1, <1>3, <1>7, <3>1
    <3> QED BY <1>1, <1>4, <3>2 DEF Once
  <2> QED BY <2>1, <2>2
<1>8. Shuffled(g, a, S)
  BY <1>1, <1>2, <1>4, ClimbShuffles
<1> QED BY <1>5, <1>6, <1>7, <1>8 DEF Shuffled, ButFor

LEMMA SiftdownIs ==
    ASSUME NEW S, NEW h \in Seq(S), h # <<>>, NEW times, NEW g \in Siftdown(h, times)
    PROVE  Shuffled(g, h, S)
<1>1. 1 \in 1 .. Len(h)
  OBVIOUS
<1> QED BY <1>1, SinkShuffles DEF Siftdown

LEMMA RemoveIs ==
    ASSUME NEW S, NEW h \in Seq(S), NEW times, NEW e, Once(h, e),
           NEW g \in RemoveEvent(h, times, SlotOf(h, e))
    PROVE  g \in Seq(S) /\ Absent(g, e) /\ ButFor(g, h, e)
<1> DEFINE n       == Len(h)
           i       == SlotOf(h, e)
           shorter == SubSeq(h, 1, n - 1)
<1>1. n \in Nat /\ i \in 1 .. n /\ h[i] = e /\ \A j \in 1 .. n : h[j] = e => j = i
  BY SlotIs
<1>2. /\ shorter \in Seq(S) /\ Len(shorter) = n - 1
      /\ \A j \in 1 .. n - 1 : shorter[j] = h[j]
  <2> DEFINE k == n - 1
  <2>1. k \in Int /\ 0 <= k /\ \A j \in 1 .. k : h[j] \in S
    BY <1>1
  <2> HIDE DEF k
  <2>2. /\ SubSeq(h, 1, k) \in Seq(S)
        /\ Len(SubSeq(h, 1, k)) = IF 1 <= k THEN k - 1 + 1 ELSE 0
        /\ \A j \in 1 .. k - 1 + 1 : SubSeq(h, 1, k)[j] = h[1 + j - 1]
    BY <2>1, SubSeqProperties
  <2>3. Len(SubSeq(h, 1, k)) = k /\ k - 1 + 1 = k /\ \A j \in 1 .. k : 1 + j - 1 = j
    BY <2>1, <2>2
  <2>4. SubSeq(h, 1, k) \in Seq(S) /\ Len(SubSeq(h, 1, k)) = k
        /\ \A j \in 1 .. k : SubSeq(h, 1, k)[j] = h[j]
    BY <2>2, <2>3
  <2> QED BY <2>4 DEF k
<1>3. g \in IF i = n THEN {shorter} ELSE Sink([shorter EXCEPT ![i] = h[n]], times, h[n], i)
  BY DEF RemoveEvent
<1>4. h \in [1 .. n -> S]
  OBVIOUS
<1> HIDE DEF n, i, shorter
<1>5. /\ \A j \in 1 .. n : j = n \/ j \in 1 .. n - 1
      /\ n \in 1 .. n /\ \A j \in 1 .. n - 1 : j \in 1 .. n /\ j # n
  BY <1>1
<1>6. CASE i = n
  <2>1. g = shorter
    BY <1>3, <1>6
  <2>2. Absent(shorter, e)
    BY <1>1, <1>2, <1>5, <1>6 DEF Absent
  <2>3. ASSUME NEW x, x # e PROVE Absent(shorter, x) <=> Absent(h, x)
    BY <1>1, <1>2, <1>5, <1>6, <2>3 DEF Absent, n
  <2>4. ASSUME NEW x, x # e PROVE Once(shorter, x) <=> Once(h, x)
    <3>1. ASSUME Once(shorter, x) PROVE Once(h, x)
      <4>1. PICK k \in 1 .. n - 1 : shorter[k] = x /\ \A j \in 1 .. n - 1 : shorter[j] = x => j = k
        BY <1>2, <3>1 DEF Once
      <4>2. h[k] = x /\ \A j \in 1 .. n : h[j] = x => j = k
        BY <1>1, <1>2, <1>5, <1>6, <2>4, <4>1
      <4> QED BY <1>5, <4>2 DEF Once, n
    <3>2. ASSUME Once(h, x) PROVE Once(shorter, x)
      <4>1. PICK k \in 1 .. n : h[k] = x /\ \A j \in 1 .. n : h[j] = x => j = k
        BY <3>2 DEF Once, n
      <4>2. k \in 1 .. n - 1
        BY <1>1, <1>5, <1>6, <2>4, <4>1
      <4> QED BY <1>2, <1>5, <4>1, <4>2 DEF Once
    <3> QED BY <3>1, <3>2
  <2> QED BY <1>2, <2>1, <2>2, <2>3, <2>4 DEF ButFor
<1>7. CASE i # n
  <2> DEFINE mid  == [shorter EXCEPT ![i] = h[n]]
  <2>1. i \in 1 .. n - 1
    BY <1>1, <1>5, <1>7
  <2>2. h[n] \in S /\ shorter \in [1 .. n - 1 -> S] /\ n - 1 \in Nat
    BY <1>1, <1>2, <1>4, <1>5
  <2>3. /\ mid \in [1 .. n - 1 -> S] /\ mid[i] = h[n]
        /\ \A j \in 1 .. n - 1 : j # i => mid[j] = h[j]
    BY <1>2, <2>1, <2>2
  <2>4. g \in Sink(mid, times, h[n], i)
    BY <1>3, <1>7
  <2> HIDE DEF mid
  <2>5. mid \in Seq(S) /\ Len(mid) = n - 1
    BY <2>2, <2>3, ListIs
  <2>6. Shuffled(g, mid, S)
    BY <2>1, <2>3, <2>4, <2>5, SinkShuffles
  <2>7. h[n] # e
    BY <1>1, <1>5, <1>7
  <2>8. Absent(mid, e)
    BY <1>1, <1>5, <2>1, <2>3, <2>5, <2>7 DEF Absent
  <2>9. ASSUME NEW x, x # e PROVE Absent(mid, x) <=> Absent(h, x)
    BY <1>1, <1>5, <2>1, <2>3, <2>5, <2>9 DEF Absent, n
  <2>10. ASSUME NEW x, x # e PROVE Once(mid, x) <=> Once(h, x)
    <3>1. ASSUME Once(mid, x) PROVE Once(h, x)
      <4>1. PICK k \in 1 .. n - 1 : mid[k] = x /\ \A j \in 1 .. n - 1 : mid[j] = x => j = k
        BY <2>5, <3>1 DEF Once
      <4>2. CASE k = i
        <5>1. h[n] = x /\ \A j \in 1 .. n : h[j] = x => j = n
          BY <1>1, <1>5, <2>1, <2>3, <2>10, <4>1, <4>2
        <5> QED BY <1>5, <5>1 DEF Once, n
      <4>3. CASE k # i
        <5>1. h[k] = x /\ \A j \in 1 .. n : h[j] = x => j = k
          BY <1>1, <1>5, <2>1, <2>3, <2>10, <4>1, <4>3
        <5> QED BY <1>5, <5>1 DEF Once, n
      <4> QED BY <4>2, <4>3
    <3>2. ASSUME Once(h, x) PROVE Once(mid, x)
      <4>1. PICK k \in 1 .. n : h[k] = x /\ \A j \in 1 .. n : h[j] = x => j = k
        BY <3>2 DEF Once, n
      <4>2. CASE k = n
        <5>1. mid[i] = x /\ \A j \in 1 .. n - 1 : mid[j] = x => j = i
          BY <1>1, <1>5, <2>1, <2>3, <4>1, <4>2
        <5> QED BY <2>1, <2>5, <5>1 DEF Once
      <4>3. CASE k # n
        <5>1. k \in 1 .. n - 1 /\ k # i
          BY <1>1, <1>5, <2>10, <4>1, <4>3
        <5>2. mid[k] = x /\ \A j \in 1 .. n - 1 : mid[j] = x => j = k
          BY <1>1, <1>5, <2>1, <2>3, <4>1, <4>3, <5>1
        <5> QED BY <2>5, <5>1, <5>2 DEF Once
      <4> QED BY <4>2, <4>3
    <3> QED BY <3>1, <3>2
  <2> QED BY <2>6, <2>8, <2>9, <2>10 DEF Shuffled, ButFor
<1> QED BY <1>6, <1>7
-----------------------------------------------------------------------------
(* The heaps, the states of the threads and the threads that are marked    *)
(* runnable but not queued fit together.                                   *)
AllHeaps == [HeapTypes -> Seq(Threads)]
AllStates == [Contexts -> States]

Placed(h, s, ins) ==
    \A t \in Threads, ht \in HeapTypes :
        IF s[t] = ht /\ t \notin ins THEN Once(h[ht], t) ELSE Absent(h[ht], t)

LEMMA OnceOrAbsent ==
    ASSUME NEW h, NEW x, Once(h, x) PROVE ~Absent(h, x)
BY DEF Once, Absent

LEMMA StatesAre ==
    /\ "Blocked" \in States /\ "Blocked" \notin HeapTypes
    /\ HeapTypes \subseteq States /\ \A s \in States : s # "Blocked" => s \in HeapTypes
    /\ "Running" \in HeapTypes /\ "RealTime" \in HeapTypes /\ "Idle" \in HeapTypes
BY DEF States, HeapTypes

LEMMA RemovePlaced ==
    ASSUME NEW h \in AllHeaps, NEW s \in AllStates, NEW ins, Placed(h, s, ins),
           NEW t \in Threads \ ins, s[t] \in HeapTypes, NEW times,
           NEW g \in RemoveEvent(h[s[t]], times, SlotOf(h[s[t]], t))
    PROVE  /\ [h EXCEPT ![s[t]] = g] \in AllHeaps
           /\ Placed([h EXCEPT ![s[t]] = g], [s EXCEPT ![t] = "Blocked"], ins)
<1> DEFINE old == s[t]
           hh  == [h EXCEPT ![old] = g]
           ss  == [s EXCEPT ![t] = "Blocked"]
<1>1. h[old] \in Seq(Threads) /\ Once(h[old], t)
  BY DEF AllHeaps, Placed
<1>2. g \in Seq(Threads) /\ Absent(g, t) /\ ButFor(g, h[old], t)
  BY <1>1, RemoveIs
<1>3. hh \in AllHeaps /\ hh[old] = g /\ \A ht \in HeapTypes : ht # old => hh[ht] = h[ht]
  BY <1>2 DEF AllHeaps
<1>4. ss[t] = "Blocked" /\ \A u \in Threads : u # t => ss[u] = s[u]
  BY DEF AllStates, Contexts
<1> HIDE DEF hh, ss
<1>5. ASSUME NEW u \in Threads, NEW ht \in HeapTypes
      PROVE  IF ss[u] = ht /\ u \notin ins THEN Once(hh[ht], u) ELSE Absent(hh[ht], u)
  <2>1. IF s[u] = ht /\ u \notin ins THEN Once(h[ht], u) ELSE Absent(h[ht], u)
    BY DEF Placed
  <2>2. CASE u = t
    <3>1. ss[u] # ht
      BY <1>4, <2>2, StatesAre
    <3>2. CASE ht = old
      BY <1>2, <1>3, <2>2, <3>1, <3>2
    <3>3. CASE ht # old
      BY <1>3, <2>1, <2>2, <3>1, <3>3
    <3> QED BY <3>2, <3>3
  <2>3. CASE u # t
    <3>1. ss[u] = s[u]
      BY <1>4, <2>3
    <3>2. CASE ht = old
      BY <1>2, <1>3, <2>1, <2>3, <3>1, <3>2 DEF ButFor
    <3>3. CASE ht # old
      BY <1>3, <2>1, <3>1, <3>3
    <3> QED BY <3>2, <3>3
  <2> QED BY <2>2, <2>3
<1> QED BY <1>3, <1>5 DEF Placed, hh, ss

LEMMA QueuePlaced ==
    ASSUME NEW h \in AllHeaps, NEW s \in AllStates, NEW ins, Placed(h, s, ins),
           NEW t \in Threads \ ins, s[t] = "Blocked", NEW ht \in HeapTypes, NEW times,
           NEW g \in Siftup(h[ht], times, t)
    PROVE  /\ [h EXCEPT ![ht] = g] \in AllHeaps
           /\ Placed([h EXCEPT ![ht] = g], [s EXCEPT ![t] = ht], ins)
<1> DEFINE hh == [h EXCEPT ![ht] = g]
           ss == [s EXCEPT ![t] = ht]
<1>1. h[ht] \in Seq(Threads) /\ Absent(h[ht], t)
  BY StatesAre DEF AllHeaps, Placed
<1>2. g \in Seq(Threads) /\ Once(g, t) /\ ButFor(g, h[ht], t)
  BY <1>1, SiftupIs
<1>3. hh \in AllHeaps /\ hh[ht] = g /\ \A k \in HeapTypes : k # ht => hh[k] = h[k]
  BY <1>2 DEF AllHeaps
<1>4. ss[t] = ht /\ \A u \in Threads : u # t => ss[u] = s[u]
  BY DEF AllStates, Contexts
<1> HIDE DEF hh, ss
<1>5. ASSUME NEW u \in Threads, NEW k \in HeapTypes
      PROVE  IF ss[u] = k /\ u \notin ins THEN Once(hh[k], u) ELSE Absent(hh[k], u)
  <2>1. IF s[u] = k /\ u \notin ins THEN Once(h[k], u) ELSE Absent(h[k], u)
    BY DEF Placed
  <2>2. CASE u = t
    BY <1>2, <1>3, <1>4, <2>1, <2>2, StatesAre
  <2>3. CASE u # t
    BY <1>2, <1>3, <1>4, <2>1, <2>3 DEF ButFor
  <2> QED BY <2>2, <2>3
<1> QED BY <1>3, <1>5 DEF Placed, hh, ss

LEMMA ShufflePlaced ==
    ASSUME NEW h \in AllHeaps, NEW s, NEW ins, Placed(h, s, ins), NEW ht \in HeapTypes,
           NEW g, Shuffled(g, h[ht], Threads)
    PROVE  [h EXCEPT ![ht] = g] \in AllHeaps /\ Placed([h EXCEPT ![ht] = g], s, ins)
<1> DEFINE hh == [h EXCEPT ![ht] = g]
<1>1. hh \in AllHeaps /\ hh[ht] = g /\ \A k \in HeapTypes : k # ht => hh[k] = h[k]
  BY DEF AllHeaps, Shuffled
<1> HIDE DEF hh
<1>2. Placed(hh, s, ins)
  BY <1>1 DEF Placed, Shuffled
<1> QED BY <1>1, <1>2 DEF hh

LEMMA MarkPlaced ==
    ASSUME NEW h \in AllHeaps, NEW s \in AllStates, NEW ins, Placed(h, s, ins),
           NEW t \in Threads, s[t] = "Blocked"
    PROVE  Placed(h, [s EXCEPT ![t] = "Running"], ins \cup {t})
<1> DEFINE ss == [s EXCEPT ![t] = "Running"]
<1>1. \A u \in Threads : u # t => ss[u] = s[u]
  BY DEF AllStates, Contexts
<1> HIDE DEF ss
<1>2. Placed(h, ss, ins \cup {t})
  BY <1>1, StatesAre DEF Placed
<1> QED BY <1>2 DEF ss

LEMMA InsertPlaced ==
    ASSUME NEW h \in AllHeaps, NEW s \in AllStates, NEW ins, Placed(h, s, ins),
           NEW t \in Threads \cap ins, s[t] = "Running", NEW times,
           NEW g \in Siftup(h["Running"], times, t)
    PROVE  /\ [h EXCEPT !["Running"] = g] \in AllHeaps
           /\ Placed([h EXCEPT !["Running"] = g], s, ins \ {t})
<1> DEFINE hh == [h EXCEPT !["Running"] = g]
<1>1. h["Running"] \in Seq(Threads) /\ Absent(h["Running"], t)
  BY StatesAre DEF AllHeaps, Placed
<1>2. g \in Seq(Threads) /\ Once(g, t) /\ ButFor(g, h["Running"], t)
  BY <1>1, SiftupIs
<1>3. /\ hh \in AllHeaps /\ hh["Running"] = g
      /\ \A k \in HeapTypes : k # "Running" => hh[k] = h[k]
  BY <1>2, StatesAre DEF AllHeaps
<1> HIDE DEF hh
<1>4. ASSUME NEW u \in Threads, NEW k \in HeapTypes
      PROVE  IF s[u] = k /\ u \notin ins \ {t} THEN Once(hh[k], u) ELSE Absent(hh[k], u)
  <2>1. IF s[u] = k /\ u \notin ins THEN Once(h[k], u) ELSE Absent(h[k], u)
    BY DEF Placed
  <2>2. CASE u = t
    BY <1>2, <1>3, <2>1, <2>2
  <2>3. CASE u # t
    BY <1>2, <1>3, <2>1, <2>3 DEF ButFor
  <2> QED BY <2>2, <2>3
<1> QED BY <1>3, <1>4 DEF Placed, hh

(* What reads event->heap reads the slot of a thread that is queued, and    *)
(* CKgetNextTime the time at the root of a heap that is not empty.         *)
LEMMA QueuedIs ==
    ASSUME NEW ht \in HeapTypes, NEW t \in Threads, heap[ht] \in Seq(Threads), Once(heap[ht], t)
    PROVE  /\ Slots(ht, t) = {SlotOf(heap[ht], t)} /\ heap[ht] # <<>>
           /\ NextTimes(ht) = {RootTime(ht)}
<1>1. \E i \in 1 .. Len(heap[ht]) : heap[ht][i] = t
  BY DEF Once
<1>2. t \in Members(heap[ht])
  BY <1>1 DEF Members
<1>3. heap[ht] # <<>>
  BY <1>1
<1> QED BY <1>2, <1>3 DEF Slots, NextTimes

LEMMA WithoutIs ==
    ASSUME heap \in AllHeaps, NEW t \in Threads, ts[t] \in HeapTypes, Once(heap[ts[t]], t),
           NEW hs \in Without(t)
    PROVE  \E g \in RemoveEvent(heap[ts[t]], time, SlotOf(heap[ts[t]], t)) :
               hs = [heap EXCEPT ![ts[t]] = g]
<1>1. Slots(ts[t], t) = {SlotOf(heap[ts[t]], t)}
  BY QueuedIs DEF AllHeaps
<1> QED BY <1>1 DEF Without

LEMMA WithoutPlaced ==
    ASSUME heap \in AllHeaps, ts \in AllStates, NEW ins, Placed(heap, ts, ins),
           NEW t \in Threads \ ins, NEW hs \in Without(t)
    PROVE  hs \in AllHeaps /\ Placed(hs, [ts EXCEPT ![t] = "Blocked"], ins)
<1>1. CASE ts[t] \in HeapTypes
  <2>1. PICK g \in RemoveEvent(heap[ts[t]], time, SlotOf(heap[ts[t]], t)) :
           hs = [heap EXCEPT ![ts[t]] = g]
    <3>1. Once(heap[ts[t]], t)
      BY <1>1 DEF Placed
    <3> QED BY <1>1, <3>1, WithoutIs
  <2> QED BY <1>1, <2>1, RemovePlaced
<1>2. CASE ts[t] \notin HeapTypes
  <2>1. hs = heap /\ ts[t] = "Blocked"
    BY <1>2, StatesAre DEF Without, AllStates, Contexts
  <2>2. [ts EXCEPT ![t] = "Blocked"] = ts
    BY <2>1 DEF AllStates
  <2> QED BY <2>1, <2>2
<1> QED BY <1>1, <1>2
-----------------------------------------------------------------------------
(* Stacks.  A frame keeps its depth, counted from the outermost frame, as   *)
(* long as it is there.                                                    *)
FrameType  == [at : Labels, who : Contexts, slot : Nat]
Stacks     == [Contexts -> Seq(FrameType)]
Deep(s, d) == s[Len(s) + 1 - d]

(* From S to R only the stack of c changes, above its n outermost frames.   *)
ChangedAbove(S, R, c, n) ==
    /\ R \in Stacks
    /\ \A x \in Contexts : x # c => R[x] = S[x]
    /\ n \in Nat /\ n <= Len(S[c]) /\ n <= Len(R[c])
    /\ \A d \in 1 .. n : Deep(R[c], d) = Deep(S[c], d)

LEMMA DeepIs ==
    ASSUME NEW S, NEW s \in Seq(S), NEW d \in 1 .. Len(s)
    PROVE  Deep(s, d) \in S
<1>1. Len(s) + 1 - d \in 1 .. Len(s)
  OBVIOUS
<1> QED BY <1>1 DEF Deep

LEMMA FrameIs ==
    ASSUME NEW label \in Labels, NEW t \in Contexts
    PROVE  /\ Frame(label, t) \in FrameType
           /\ Frame(label, t).at = label /\ Frame(label, t).who = t
BY DEF Frame, FrameType

LEMMA PushIs ==
    ASSUME NEW S, NEW s \in Seq(S), NEW f \in S
    PROVE  /\ <<f>> \o s \in Seq(S) /\ Len(<<f>> \o s) = Len(s) + 1
           /\ Deep(<<f>> \o s, Len(s) + 1) = f
           /\ \A d \in 1 .. Len(s) : Deep(<<f>> \o s, d) = Deep(s, d)
<1> DEFINE r == <<f>> \o s
           n == Len(s)
<1>1. r \in Seq(S) /\ n \in Nat /\ Len(r) = n + 1 /\ r[1] = f
  OBVIOUS
<1>2. \A i \in 1 .. n : r[i + 1] = s[i]
  OBVIOUS
<1> HIDE DEF r, n
<1>3. Deep(r, n + 1) = f
  BY <1>1 DEF Deep
<1>4. ASSUME NEW d \in 1 .. n PROVE Deep(r, d) = Deep(s, d)
  <2>1. PICK i \in 1 .. n : i = n + 1 - d
    BY <1>1
  <2>2. r[i + 1] = s[i] /\ Len(r) + 1 - d = i + 1
    BY <1>1, <1>2, <2>1
  <2>3. n + 1 - d = i
    BY <1>1, <2>1
  <2> QED BY <2>2, <2>3 DEF Deep, n
<1> QED BY <1>1, <1>3, <1>4 DEF r, n

LEMMA PopIs ==
    ASSUME NEW S, NEW s \in Seq(S), s # <<>>
    PROVE  /\ Tail(s) \in Seq(S) /\ Len(s) \in Nat \ {0} /\ Len(Tail(s)) = Len(s) - 1
           /\ Head(s) \in S /\ Deep(s, Len(s)) = Head(s)
           /\ \A d \in 1 .. Len(s) - 1 : Deep(Tail(s), d) = Deep(s, d)
<1> DEFINE r == Tail(s)
           n == Len(s)
<1>1. r \in Seq(S) /\ n \in Nat \ {0} /\ Len(r) = n - 1 /\ Head(s) \in S /\ Head(s) = s[1]
  OBVIOUS
<1>2. \A i \in 1 .. n - 1 : r[i] = s[i + 1]
  OBVIOUS
<1> HIDE DEF r, n
<1>3. Deep(s, n) = Head(s)
  <2>1. n + 1 - n = 1
    BY <1>1
  <2> QED BY <1>1, <2>1 DEF Deep, n
<1>4. ASSUME NEW d \in 1 .. n - 1 PROVE Deep(r, d) = Deep(s, d)
  <2>1. PICK i \in 1 .. n - 1 : i = n - d
    BY <1>1
  <2>2. r[i] = s[i + 1] /\ Len(r) + 1 - d = i /\ n + 1 - d = i + 1
    BY <1>1, <1>2, <2>1
  <2> QED BY <2>2 DEF Deep, n
<1> QED BY <1>1, <1>3, <1>4 DEF r, n

(* The three ways in which a step changes a stack.                         *)
Replaced(S, R, c, s) == R = [S EXCEPT ![c] = s]

LEMMA PushChanges ==
    ASSUME NEW S \in Stacks, NEW c \in Contexts, NEW f \in FrameType,
           NEW R, Replaced(S, R, c, <<f>> \o S[c])
    PROVE  /\ ChangedAbove(S, R, c, Len(S[c]))
           /\ Len(R[c]) = Len(S[c]) + 1 /\ Deep(R[c], Len(S[c]) + 1) = f
<1>1. S[c] \in Seq(FrameType)
  BY DEF Stacks
<1>2. R[c] = <<f>> \o S[c] /\ \A x \in Contexts : x # c => R[x] = S[x]
  BY DEF Stacks, Replaced
<1>3. R[c] \in Seq(FrameType)
  BY <1>1, <1>2, PushIs
<1>4. R \in Stacks
  BY <1>1, <1>2, <1>3 DEF Stacks, Replaced
<1>5. Len(S[c]) \in Nat
  BY <1>1
<1> QED BY <1>1, <1>2, <1>4, <1>5, PushIs DEF ChangedAbove

LEMMA TopChanges ==
    ASSUME NEW S \in Stacks, NEW c \in Contexts, S[c] # <<>>, NEW f \in FrameType,
           NEW R, Replaced(S, R, c, <<f>> \o Tail(S[c]))
    PROVE  /\ Len(S[c]) \in Nat \ {0} /\ Deep(S[c], Len(S[c])) = Head(S[c])
           /\ ChangedAbove(S, R, c, Len(S[c]) - 1)
           /\ Len(R[c]) = Len(S[c]) /\ Deep(R[c], Len(S[c])) = f
<1> DEFINE n == Len(S[c]) - 1
<1>1. /\ S[c] \in Seq(FrameType) /\ Tail(S[c]) \in Seq(FrameType) /\ Len(S[c]) \in Nat \ {0}
      /\ Len(Tail(S[c])) = n
      /\ Deep(S[c], Len(S[c])) = Head(S[c])
      /\ \A d \in 1 .. n : Deep(Tail(S[c]), d) = Deep(S[c], d)
  BY PopIs DEF Stacks
<1>2. R[c] = <<f>> \o Tail(S[c]) /\ \A x \in Contexts : x # c => R[x] = S[x]
  BY DEF Stacks, Replaced
<1>3. /\ R[c] \in Seq(FrameType) /\ Len(R[c]) = n + 1 /\ Deep(R[c], n + 1) = f
      /\ \A d \in 1 .. n : Deep(R[c], d) = Deep(Tail(S[c]), d)
  <2> DEFINE s == Tail(S[c])
  <2>1. s \in Seq(FrameType) /\ Len(s) = n
    BY <1>1
  <2>2. R[c] = <<f>> \o s
    BY <1>2
  <2> HIDE DEF s
  <2>3. /\ R[c] \in Seq(FrameType) /\ Len(R[c]) = Len(s) + 1 /\ Deep(R[c], Len(s) + 1) = f
        /\ \A d \in 1 .. Len(s) : Deep(R[c], d) = Deep(s, d)
    <3>1. s \in Seq(FrameType)
      BY <2>1
    <3>2. /\ <<f>> \o s \in Seq(FrameType) /\ Len(<<f>> \o s) = Len(s) + 1
          /\ Deep(<<f>> \o s, Len(s) + 1) = f
          /\ \A d \in 1 .. Len(s) : Deep(<<f>> \o s, d) = Deep(s, d)
      BY ONLY <3>1, f \in FrameType, PushIs
    <3> QED BY <2>2, <3>2
  <2> QED BY <2>1, <2>3 DEF s
<1>4. R \in Stacks
  BY <1>2, <1>3 DEF Stacks, Replaced
<1>5. n \in Nat /\ n <= Len(S[c]) /\ n <= n + 1 /\ n + 1 = Len(S[c])
  BY <1>1
<1> HIDE DEF n
<1>6. ChangedAbove(S, R, c, n)
  BY <1>1, <1>2, <1>3, <1>4, <1>5 DEF ChangedAbove
<1> QED BY <1>1, <1>3, <1>5, <1>6 DEF n

LEMMA PopChanges ==
    ASSUME NEW S \in Stacks, NEW c \in Contexts, S[c] # <<>>,
           NEW R, Replaced(S, R, c, Tail(S[c]))
    PROVE  /\ Len(S[c]) \in Nat \ {0} /\ Deep(S[c], Len(S[c])) = Head(S[c])
           /\ ChangedAbove(S, R, c, Len(S[c]) - 1)
           /\ Len(R[c]) = Len(S[c]) - 1
<1> DEFINE n == Len(S[c]) - 1
<1>1. /\ Tail(S[c]) \in Seq(FrameType) /\ Len(S[c]) \in Nat \ {0}
      /\ Len(Tail(S[c])) = n
      /\ Deep(S[c], Len(S[c])) = Head(S[c])
      /\ \A d \in 1 .. n : Deep(Tail(S[c]), d) = Deep(S[c], d)
  BY PopIs DEF Stacks
<1>2. R[c] = Tail(S[c]) /\ \A x \in Contexts : x # c => R[x] = S[x]
  BY DEF Stacks, Replaced
<1>3. R \in Stacks
  BY <1>1, <1>2 DEF Stacks, Replaced
<1>4. n \in Nat /\ n <= Len(S[c]) /\ n <= n
  BY <1>1
<1> HIDE DEF n
<1>5. ChangedAbove(S, R, c, n)
  BY <1>1, <1>2, <1>3, <1>4 DEF ChangedAbove
<1> QED BY <1>1, <1>2, <1>5 DEF n

(* R has no frame with one of these labels that S has not.                 *)
NoNew(S, R, L) ==
    \A x \in Contexts : \A d \in 1 .. Len(R[x]) :
        Deep(R[x], d).at \in L => d \in 1 .. Len(S[x]) /\ Deep(R[x], d) = Deep(S[x], d)

LEMMA NothingNew ==
    ASSUME NEW S \in Stacks, NEW R, NEW c \in Contexts, NEW n, ChangedAbove(S, R, c, n), NEW L
    PROVE  /\ (\A d \in n + 1 .. Len(R[c]) : Deep(R[c], d).at \notin L) => NoNew(S, R, L)
           /\ (\A d \in n + 1 .. Len(S[c]) : Deep(S[c], d).at \notin L) => NoNew(R, S, L)
<1>1. Len(S[c]) \in Nat /\ Len(R[c]) \in Nat /\ n \in Nat /\ n <= Len(S[c]) /\ n <= Len(R[c])
  BY DEF ChangedAbove, Stacks
<1>2. ASSUME \A d \in n + 1 .. Len(R[c]) : Deep(R[c], d).at \notin L
      PROVE  NoNew(S, R, L)
  <2>1. ASSUME NEW d \in 1 .. Len(R[c]), Deep(R[c], d).at \in L
        PROVE  d \in 1 .. Len(S[c]) /\ Deep(R[c], d) = Deep(S[c], d)
    <3>1. d \in 1 .. n
      BY <1>1, <1>2, <2>1
    <3> QED BY <1>1, <3>1 DEF ChangedAbove
  <2> QED BY <2>1 DEF NoNew, ChangedAbove
<1>3. ASSUME \A d \in n + 1 .. Len(S[c]) : Deep(S[c], d).at \notin L
      PROVE  NoNew(R, S, L)
  <2>1. ASSUME NEW d \in 1 .. Len(S[c]), Deep(S[c], d).at \in L
        PROVE  d \in 1 .. Len(R[c]) /\ Deep(S[c], d) = Deep(R[c], d)
    <3>1. d \in 1 .. n
      BY <1>1, <1>3, <2>1
    <3> QED BY <1>1, <3>1 DEF ChangedAbove
  <2> QED BY <2>1 DEF NoNew, ChangedAbove
<1> QED BY <1>2, <1>3
-----------------------------------------------------------------------------
(* The frames of CKunblockThread: each thread is woken by one frame at      *)
(* most, it does not run, and its state is what the frame has made it.      *)
Wakes  == {"mark", "insert"}
Hasty  == {"prioritise", "climb"}

Woken(S) ==
    { t \in Contexts : \E x \in Contexts : \E d \in 1 .. Len(S[x]) :
          Deep(S[x], d).at \in Wakes /\ Deep(S[x], d).who = t }

Inserts(S) ==
    { t \in Contexts : \E x \in Contexts : \E d \in 1 .. Len(S[x]) :
          Deep(S[x], d).at = "insert" /\ Deep(S[x], d).who = t }

Alone(S, x, d) ==
    \A y \in Contexts : \A e \in 1 .. Len(S[y]) :
        Deep(S[y], e).at \in Wakes /\ Deep(S[y], e).who = Deep(S[x], d).who => y = x /\ e = d

Wakers(S, s, ct) ==
    \A x \in Contexts : \A d \in 1 .. Len(S[x]) :
        Deep(S[x], d).at \in Wakes =>
            /\ Deep(S[x], d).who \in Threads /\ Deep(S[x], d).who # ct
            /\ s[Deep(S[x], d).who] = IF Deep(S[x], d).at = "mark" THEN "Blocked" ELSE "Running"
            /\ Alone(S, x, d)

LEMMA SameWakes ==
    ASSUME NEW S, NEW R, NoNew(S, R, Wakes)
    PROVE  /\ Woken(R) \subseteq Woken(S) /\ Inserts(R) \subseteq Inserts(S)
           /\ NoNew(R, S, Wakes) => Woken(R) = Woken(S) /\ Inserts(R) = Inserts(S)
<1>1. ASSUME NEW P, NEW Q, NoNew(P, Q, Wakes)
      PROVE  Woken(Q) \subseteq Woken(P) /\ Inserts(Q) \subseteq Inserts(P)
  <2>1. ASSUME NEW t \in Woken(Q) PROVE t \in Woken(P)
    <3>1. PICK x \in Contexts : \E d \in 1 .. Len(Q[x]) :
             Deep(Q[x], d).at \in Wakes /\ Deep(Q[x], d).who = t
      BY DEF Woken
    <3>2. PICK d \in 1 .. Len(Q[x]) : Deep(Q[x], d).at \in Wakes /\ Deep(Q[x], d).who = t
      BY <3>1
    <3>3. d \in 1 .. Len(P[x]) /\ Deep(Q[x], d) = Deep(P[x], d)
      BY <1>1, <3>2 DEF NoNew
    <3> QED BY <3>2, <3>3 DEF Woken
  <2>2. ASSUME NEW t \in Inserts(Q) PROVE t \in Inserts(P)
    <3>1. PICK x \in Contexts : \E d \in 1 .. Len(Q[x]) :
             Deep(Q[x], d).at = "insert" /\ Deep(Q[x], d).who = t
      BY DEF Inserts
    <3>2. PICK d \in 1 .. Len(Q[x]) : Deep(Q[x], d).at = "insert" /\ Deep(Q[x], d).who = t
      BY <3>1
    <3>3. Deep(Q[x], d).at \in Wakes
      BY <3>2 DEF Wakes
    <3>4. d \in 1 .. Len(P[x]) /\ Deep(Q[x], d) = Deep(P[x], d)
      BY <1>1, <3>3 DEF NoNew
    <3> QED BY <3>2, <3>4 DEF Inserts
  <2> QED BY <2>1, <2>2
<1>2. Woken(R) \subseteq Woken(S) /\ Inserts(R) \subseteq Inserts(S)
  BY <1>1
<1>3. ASSUME NoNew(R, S, Wakes) PROVE Woken(S) \subseteq Woken(R) /\ Inserts(S) \subseteq Inserts(R)
  BY <1>1, <1>3
<1> QED BY <1>2, <1>3

LEMMA WokenIs ==
    ASSUME NEW S, NEW x \in Contexts, NEW d \in 1 .. Len(S[x]), Deep(S[x], d).at \in Wakes,
           Deep(S[x], d).who \in Contexts
    PROVE  Deep(S[x], d).who \in Woken(S)
BY DEF Woken

LEMMA WakersKept ==
    ASSUME NEW S, NEW R, NoNew(S, R, Wakes), NEW s, NEW ct, Wakers(S, s, ct),
           NEW ss, NEW cct, \A t \in Woken(R) : ss[t] = s[t] /\ t # cct
    PROVE  Wakers(R, ss, cct)
<1> SUFFICES ASSUME NEW x \in Contexts, NEW d \in 1 .. Len(R[x]), Deep(R[x], d).at \in Wakes
             PROVE  /\ Deep(R[x], d).who \in Threads /\ Deep(R[x], d).who # cct
                    /\ ss[Deep(R[x], d).who] = IF Deep(R[x], d).at = "mark" THEN "Blocked" ELSE "Running"
                    /\ Alone(R, x, d)
  BY DEF Wakers
<1>1. d \in 1 .. Len(S[x]) /\ Deep(R[x], d) = Deep(S[x], d)
  BY DEF NoNew
<1>2. /\ Deep(R[x], d).who \in Threads
      /\ s[Deep(R[x], d).who] = IF Deep(R[x], d).at = "mark" THEN "Blocked" ELSE "Running"
      /\ Alone(S, x, d)
  BY <1>1 DEF Wakers
<1>3. Deep(R[x], d).who \in Woken(R)
  BY <1>2, WokenIs DEF Contexts
<1>4. Alone(R, x, d)
  BY <1>1, <1>2 DEF Alone, NoNew
<1> QED BY <1>2, <1>3, <1>4

LEMMA InsertsAreWoken ==
    ASSUME NEW S PROVE Inserts(S) \subseteq Woken(S)
BY DEF Inserts, Woken, Wakes

LEMMA WokenState ==
    ASSUME NEW S, NEW s, NEW ct, Wakers(S, s, ct), NEW t \in Woken(S)
    PROVE  t \in Threads /\ t # ct /\ s[t] = IF t \in Inserts(S) THEN "Running" ELSE "Blocked"
<1>1. PICK x \in Contexts : \E d \in 1 .. Len(S[x]) :
         Deep(S[x], d).at \in Wakes /\ Deep(S[x], d).who = t
  BY DEF Woken
<1>2. PICK d \in 1 .. Len(S[x]) : Deep(S[x], d).at \in Wakes /\ Deep(S[x], d).who = t
  BY <1>1
<1>3. /\ t \in Threads /\ t # ct
      /\ s[t] = IF Deep(S[x], d).at = "mark" THEN "Blocked" ELSE "Running"
      /\ Alone(S, x, d)
  BY <1>2 DEF Wakers
<1>4. CASE Deep(S[x], d).at = "mark"
  <2>1. t \notin Inserts(S)
    <3> SUFFICES ASSUME t \in Inserts(S) PROVE FALSE
      OBVIOUS
    <3>1. PICK y \in Contexts : \E e \in 1 .. Len(S[y]) :
             Deep(S[y], e).at = "insert" /\ Deep(S[y], e).who = t
      BY DEF Inserts
    <3>2. PICK e \in 1 .. Len(S[y]) : Deep(S[y], e).at = "insert" /\ Deep(S[y], e).who = t
      BY <3>1
    <3>3. y = x /\ e = d
      BY <1>2, <1>3, <3>2 DEF Alone, Wakes
    <3> QED BY <1>4, <3>2, <3>3
  <2> QED BY <1>3, <1>4, <2>1
<1>5. CASE Deep(S[x], d).at # "mark"
  <2>1. Deep(S[x], d).at = "insert"
    BY <1>2, <1>5 DEF Wakes
  <2>2. t \in Inserts(S)
    BY <1>2, <1>3, <2>1 DEF Inserts, Contexts
  <2> QED BY <1>3, <1>5, <2>2
<1> QED BY <1>4, <1>5

LEMMA MarkPushed ==
    ASSUME NEW S \in Stacks, NEW R, NEW c \in Contexts, ChangedAbove(S, R, c, Len(S[c])),
           Len(R[c]) = Len(S[c]) + 1, Deep(R[c], Len(S[c]) + 1).at = "mark",
           NEW t \in Threads, Deep(R[c], Len(S[c]) + 1).who = t, t \notin Woken(S),
           NEW s, s[t] = "Blocked", NEW ct, t # ct, Wakers(S, s, ct)
    PROVE  Wakers(R, s, ct) /\ Inserts(R) = Inserts(S)
<1> DEFINE n == Len(S[c])
<1>1. n \in Nat /\ n + 1 \in 1 .. Len(R[c]) /\ \A d \in 1 .. Len(R[c]) : d = n + 1 \/ d \in 1 .. n
  BY DEF Stacks
<1>2. /\ \A x \in Contexts : x # c => R[x] = S[x]
      /\ \A d \in 1 .. n : Deep(R[c], d) = Deep(S[c], d)
  BY DEF ChangedAbove
<1>3. Deep(R[c], n + 1).at = "mark" /\ Deep(R[c], n + 1).who = t
  OBVIOUS
<1>4. \A x \in Contexts : \A d \in 1 .. Len(S[x]) : Deep(S[x], d).at \in Wakes => Deep(S[x], d).who # t
  BY DEF Woken, Contexts
<1> HIDE DEF n
<1>5. ASSUME NEW x \in Contexts, NEW d \in 1 .. Len(R[x])
      PROVE  \/ x = c /\ d = n + 1
             \/ d \in 1 .. Len(S[x]) /\ Deep(R[x], d) = Deep(S[x], d)
  BY <1>1, <1>2 DEF n
<1>6. ASSUME NEW x \in Contexts, NEW d \in 1 .. Len(R[x]), Deep(R[x], d).at \in Wakes
      PROVE  /\ Deep(R[x], d).who \in Threads /\ Deep(R[x], d).who # ct
             /\ s[Deep(R[x], d).who] = IF Deep(R[x], d).at = "mark" THEN "Blocked" ELSE "Running"
             /\ Alone(R, x, d)
  <2>1. CASE x = c /\ d = n + 1
    <3>1. Alone(R, x, d)
      BY <1>3, <1>4, <1>5, <2>1 DEF Alone
    <3> QED BY <1>3, <2>1, <3>1
  <2>2. CASE ~(x = c /\ d = n + 1)
    <3>1. d \in 1 .. Len(S[x]) /\ Deep(R[x], d) = Deep(S[x], d)
      BY <1>5, <2>2
    <3>2. /\ Deep(S[x], d).who \in Threads /\ Deep(S[x], d).who # ct /\ Deep(S[x], d).who # t
          /\ s[Deep(S[x], d).who] = IF Deep(S[x], d).at = "mark" THEN "Blocked" ELSE "Running"
          /\ Alone(S, x, d)
      BY <1>4, <1>6, <3>1 DEF Wakers
    <3>3. Alone(R, x, d)
      BY <1>3, <1>5, <3>1, <3>2 DEF Alone
    <3> QED BY <3>1, <3>2, <3>3
  <2> QED BY <2>1, <2>2
<1>7. Wakers(R, s, ct)
  BY <1>6 DEF Wakers
<1>8. \A x \in Contexts : \A d \in 1 .. Len(S[x]) : d \in 1 .. Len(R[x]) /\ Deep(R[x], d) = Deep(S[x], d)
  BY <1>1, <1>2 DEF n
<1>9. ASSUME NEW u PROVE u \in Inserts(R) <=> u \in Inserts(S)
  <2>1. u \in Inserts(R) => u \in Inserts(S)
    BY <1>3, <1>5 DEF Inserts
  <2>2. u \in Inserts(S) => u \in Inserts(R)
    BY <1>8 DEF Inserts
  <2> QED BY <2>1, <2>2
<1> QED BY <1>7, <1>9
LEMMA MarkBecomesInsert ==
    ASSUME NEW S \in Stacks, NEW R, NEW c \in Contexts, ChangedAbove(S, R, c, Len(S[c]) - 1),
           Len(S[c]) \in Nat \ {0}, Len(R[c]) = Len(S[c]), NEW t,
           Deep(S[c], Len(S[c])).at = "mark", Deep(S[c], Len(S[c])).who = t,
           Deep(R[c], Len(S[c])).at = "insert", Deep(R[c], Len(S[c])).who = t,
           NEW s, NEW ct, Wakers(S, s, ct),
           NEW ss, ss[t] = "Running", \A u \in Threads : u # t => ss[u] = s[u]
    PROVE  Wakers(R, ss, ct) /\ Inserts(R) = Inserts(S) \cup {t}
<1> DEFINE n == Len(S[c])
<1>1. n \in Nat /\ n \in 1 .. n /\ \A d \in 1 .. n : d = n \/ d \in 1 .. n - 1
  OBVIOUS
<1>2. /\ \A x \in Contexts : x # c => R[x] = S[x]
      /\ \A d \in 1 .. n - 1 : Deep(R[c], d) = Deep(S[c], d)
  BY DEF ChangedAbove
<1>3. /\ Len(R[c]) = n
      /\ Deep(S[c], n).at = "mark" /\ Deep(S[c], n).who = t
      /\ Deep(R[c], n).at = "insert" /\ Deep(R[c], n).who = t
  OBVIOUS
<1>4. t \in Threads /\ t # ct /\ Alone(S, c, n)
  BY <1>1, <1>3 DEF Wakers, Wakes
<1> HIDE DEF n
<1>5. ASSUME NEW x \in Contexts, NEW d
      PROVE  /\ d \in 1 .. Len(R[x]) <=> d \in 1 .. Len(S[x])
             /\ d \in 1 .. Len(R[x]) /\ ~(x = c /\ d = n) => Deep(R[x], d) = Deep(S[x], d)
  BY <1>1, <1>2, <1>3 DEF n
<1>6. \A x \in Contexts : \A d \in 1 .. Len(R[x]) :
         (Deep(R[x], d).at \in Wakes <=> Deep(S[x], d).at \in Wakes)
         /\ Deep(R[x], d).who = Deep(S[x], d).who
  BY <1>3, <1>5 DEF Wakes
<1>7. ASSUME NEW x \in Contexts, NEW d \in 1 .. Len(R[x]), Deep(R[x], d).at \in Wakes
      PROVE  /\ Deep(R[x], d).who \in Threads /\ Deep(R[x], d).who # ct
             /\ ss[Deep(R[x], d).who] = IF Deep(R[x], d).at = "mark" THEN "Blocked" ELSE "Running"
             /\ Alone(R, x, d)
  <2>1. /\ d \in 1 .. Len(S[x]) /\ Deep(S[x], d).who \in Threads /\ Deep(S[x], d).who # ct
        /\ s[Deep(S[x], d).who] = IF Deep(S[x], d).at = "mark" THEN "Blocked" ELSE "Running"
        /\ Alone(S, x, d) /\ Deep(R[x], d).who = Deep(S[x], d).who
    BY <1>5, <1>6, <1>7 DEF Wakers
  <2>2. Alone(R, x, d)
    <3>1. ASSUME NEW y \in Contexts, NEW e \in 1 .. Len(R[y]),
                 Deep(R[y], e).at \in Wakes, Deep(R[y], e).who = Deep(R[x], d).who
          PROVE  y = x /\ e = d
      <4>1. e \in 1 .. Len(S[y]) /\ Deep(S[y], e).at \in Wakes /\ Deep(S[y], e).who = Deep(S[x], d).who
        BY <1>5, <1>6, <2>1, <3>1
      <4> QED BY <2>1, <4>1 DEF Alone
    <3> QED BY <3>1 DEF Alone
  <2>3. CASE x = c /\ d = n
    BY <1>3, <2>1, <2>2, <2>3
  <2>4. CASE ~(x = c /\ d = n)
    <3>1. Deep(R[x], d) = Deep(S[x], d)
      BY <1>5, <2>4
    <3>2. Deep(S[x], d).who # t
      BY <1>3, <1>4, <1>7, <2>1, <2>4, <3>1 DEF Alone
    <3> QED BY <2>1, <2>2, <3>1, <3>2
  <2> QED BY <2>3, <2>4
<1>8. Wakers(R, ss, ct)
  BY <1>7 DEF Wakers
<1>9. ASSUME NEW u PROVE u \in Inserts(R) <=> u \in Inserts(S) \cup {t}
  <2>1. ASSUME u \in Inserts(R) PROVE u \in Inserts(S) \cup {t}
    <3>1. PICK x \in Contexts : \E d \in 1 .. Len(R[x]) :
             Deep(R[x], d).at = "insert" /\ Deep(R[x], d).who = u
      BY <2>1 DEF Inserts
    <3>2. PICK d \in 1 .. Len(R[x]) : Deep(R[x], d).at = "insert" /\ Deep(R[x], d).who = u
      BY <3>1
    <3>3. u \in Contexts
      BY <2>1 DEF Inserts
    <3> QED BY <1>3, <1>5, <3>2, <3>3 DEF Inserts
  <2>2. t \in Inserts(R)
    BY <1>1, <1>3, <1>4 DEF Inserts, Contexts
  <2>3. ASSUME u \in Inserts(S) PROVE u \in Inserts(R)
    <3>1. PICK x \in Contexts : \E d \in 1 .. Len(S[x]) :
             Deep(S[x], d).at = "insert" /\ Deep(S[x], d).who = u
      BY <2>3 DEF Inserts
    <3>2. PICK d \in 1 .. Len(S[x]) : Deep(S[x], d).at = "insert" /\ Deep(S[x], d).who = u
      BY <3>1
    <3>3. u \in Contexts
      BY <2>3 DEF Inserts
    <3>4. ~(x = c /\ d = n)
      BY <1>3, <3>2
    <3> QED BY <1>5, <3>2, <3>3, <3>4 DEF Inserts
  <2> QED BY <2>1, <2>2, <2>3
<1> QED BY <1>8, <1>9

LEMMA InsertPopped ==
    ASSUME NEW S \in Stacks, NEW R, NEW c \in Contexts, ChangedAbove(S, R, c, Len(S[c]) - 1),
           Len(S[c]) \in Nat \ {0}, Len(R[c]) = Len(S[c]) - 1, NEW t,
           Deep(S[c], Len(S[c])).at = "insert", Deep(S[c], Len(S[c])).who = t,
           NEW s, NEW ct, Wakers(S, s, ct)
    PROVE  NoNew(S, R, Wakes) /\ Inserts(R) = Inserts(S) \ {t}
<1> DEFINE n == Len(S[c])
<1>1. n \in Nat /\ n \in 1 .. n /\ \A d \in 1 .. n : d = n \/ d \in 1 .. n - 1
  OBVIOUS
<1>2. /\ \A x \in Contexts : x # c => R[x] = S[x]
      /\ \A d \in 1 .. n - 1 : Deep(R[c], d) = Deep(S[c], d)
  BY DEF ChangedAbove
<1>3. Len(R[c]) = n - 1 /\ Deep(S[c], n).at = "insert" /\ Deep(S[c], n).who = t
  OBVIOUS
<1>4. Alone(S, c, n)
  BY <1>1, <1>3 DEF Wakers, Wakes
<1> HIDE DEF n
<1>5. \A d \in 1 .. n - 1 : d \in 1 .. n /\ d # n
  BY <1>1
<1>6. ASSUME NEW x \in Contexts, NEW d
      PROVE  /\ d \in 1 .. Len(R[x]) <=> d \in 1 .. Len(S[x]) /\ ~(x = c /\ d = n)
             /\ d \in 1 .. Len(R[x]) => Deep(R[x], d) = Deep(S[x], d)
  BY <1>1, <1>2, <1>3, <1>5 DEF n
<1>7. NoNew(S, R, Wakes)
  BY <1>6 DEF NoNew
<1>8. ASSUME NEW u PROVE u \in Inserts(R) <=> u \in Inserts(S) \ {t}
  <2>1. ASSUME u \in Inserts(R) PROVE u \in Inserts(S) \ {t}
    <3>1. PICK x \in Contexts : \E d \in 1 .. Len(R[x]) :
             Deep(R[x], d).at = "insert" /\ Deep(R[x], d).who = u
      BY <2>1 DEF Inserts
    <3>2. PICK d \in 1 .. Len(R[x]) : Deep(R[x], d).at = "insert" /\ Deep(R[x], d).who = u
      BY <3>1
    <3>3. u \in Contexts
      BY <2>1 DEF Inserts
    <3>4. d \in 1 .. Len(S[x]) /\ Deep(S[x], d).at = "insert" /\ Deep(S[x], d).who = u
      BY <1>6, <3>2
    <3>5. u # t
      BY <1>3, <1>4, <1>6, <3>2, <3>4 DEF Alone, Wakes
    <3> QED BY <3>3, <3>4, <3>5 DEF Inserts
  <2>2. ASSUME u \in Inserts(S), u # t PROVE u \in Inserts(R)
    <3>1. PICK x \in Contexts : \E d \in 1 .. Len(S[x]) :
             Deep(S[x], d).at = "insert" /\ Deep(S[x], d).who = u
      BY <2>2 DEF Inserts
    <3>2. PICK d \in 1 .. Len(S[x]) : Deep(S[x], d).at = "insert" /\ Deep(S[x], d).who = u
      BY <3>1
    <3>3. u \in Contexts
      BY <2>2 DEF Inserts
    <3>4. d \in 1 .. Len(R[x]) /\ Deep(R[x], d) = Deep(S[x], d)
      BY <1>3, <1>6, <2>2, <3>2
    <3> QED BY <3>2, <3>3, <3>4 DEF Inserts
  <2> QED BY <2>1, <2>2
<1> QED BY <1>7, <1>8

(* The frames on a stack are the frames at its depths.                     *)
LEMMA MembersAre ==
    ASSUME NEW S, NEW s \in Seq(S), NEW f
    PROVE  f \in Members(s) <=> \E d \in 1 .. Len(s) : Deep(s, d) = f
<1> DEFINE n == Len(s)
<1>1. n \in Nat
  OBVIOUS
<1> HIDE DEF n
<1>2. ASSUME NEW i \in 1 .. n PROVE \E d \in 1 .. n : n + 1 - d = i
  <2>1. PICK d \in 1 .. n : d = n + 1 - i
    BY <1>1
  <2> QED BY <1>1, <2>1
<1>3. ASSUME NEW d \in 1 .. n PROVE n + 1 - d \in 1 .. n
  BY <1>1
<1> QED BY <1>2, <1>3 DEF Members, Deep, n

LEMMA FramesAre ==
    ASSUME NEW S \in Stacks, NEW f
    PROVE  f \in UNION { Members(S[c]) : c \in Contexts }
              <=> \E x \in Contexts : \E d \in 1 .. Len(S[x]) : Deep(S[x], d) = f
<1>1. \A x \in Contexts : S[x] \in Seq(FrameType)
  BY DEF Stacks
<1> QED BY <1>1, MembersAre

LEMMA BeingWokenIs ==
    ASSUME stack \in Stacks, NEW t \in Contexts
    PROVE  (BeingWoken(t) <=> t \in Woken(stack)) /\ (BeingInserted(t) <=> t \in Inserts(stack))
<1>1. \A f : f \in Frames <=> \E x \in Contexts : \E d \in 1 .. Len(stack[x]) : Deep(stack[x], d) = f
  BY FramesAre DEF Frames
<1>2. BeingWoken(t) <=> t \in Woken(stack)
  BY <1>1 DEF BeingWoken, Woken, Wakes
<1>3. BeingInserted(t) <=> t \in Inserts(stack)
  BY <1>1 DEF BeingInserted, Inserts
<1> QED BY <1>2, <1>3

LEMMA NobodyMeets ==
    ASSUME stack \in Stacks, NEW t \in Contexts, MayMeet(t),
           "race" \notin Allowed, "unqueued" \notin Allowed
    PROVE  t \notin Woken(stack)
<1>1. ~BeingWoken(t)
  BY DEF MayMeet
<1> QED BY <1>1, BeingWokenIs
-----------------------------------------------------------------------------
(* Every thread is in its heap.  What makes that inductive: a thread that   *)
(* is being woken is in no heap and does not run; a frame that works on the *)
(* heaps with the lock dropped is on top of the running stack; and the      *)
(* processor executes the chosen thread but for a pending context switch.   *)
OnlyOnTop(S, L, c) ==
    \A x \in Contexts : \A d \in 1 .. Len(S[x]) : Deep(S[x], d).at \in L => x = c /\ d = Len(S[c])

Lacks(S, L) == \A x \in Contexts : \A d \in 1 .. Len(S[x]) : Deep(S[x], d).at \notin L

(* A context that does not run has called CKcontextSwitch, if it ever ran.  *)
Parked(S, c) ==
    \A x \in Contexts \ {c} : S[x] # <<>> => Deep(S[x], Len(S[x])).at = "away"

Switching == \E d \in 1 .. Len(stack[cpu]) : Deep(stack[cpu], d).at = "switch"

RestTyped ==
    /\ utime \in [Contexts -> TIME]
    /\ currtask \in Contexts
    /\ lasttime \in TIME
    /\ doingRealtime \in 0 .. ByteWidth - 1
    /\ schedLock \in BOOLEAN
    /\ timer \in {"armed", "off"}
    /\ cpu \in Contexts
    /\ masked \subseteq Contexts
    /\ asked \subseteq Contexts

HeapsTyped ==
    /\ ts \in AllStates /\ ts[IdleLoop] = "Idle"
    /\ time \in [Contexts -> TIME]
    /\ heap \in AllHeaps

HastyIs(f) ==
    /\ f.who \in Threads /\ ts[f.who] = "Running" /\ f.who \notin Inserts(stack)
    /\ f.at = "climb" => f.slot \in 1 .. Len(heap["Running"]) /\ heap["Running"][f.slot] = f.who

HastyKnown ==
    \A x \in Contexts : \A d \in 1 .. Len(stack[x]) :
        Deep(stack[x], d).at \in Hasty => HastyIs(Deep(stack[x], d))

HeapInv ==
    /\ RestTyped /\ HeapsTyped /\ stack \in Stacks
    /\ Placed(heap, ts, Inserts(stack))
    /\ Wakers(stack, ts, currtask)
    /\ OnlyOnTop(stack, Hasty, cpu) /\ HastyKnown
    /\ Parked(stack, cpu)
    /\ cpu # currtask => Switching

LEMMA TypesAre ==
    TypeOK <=> RestTyped /\ HeapsTyped /\ stack \in Stacks
BY DEF TypeOK, RestTyped, HeapsTyped, AllStates, AllHeaps, Stacks, FrameType

LEMMA OnceIs ==
    ASSUME NEW h, NEW x
    PROVE  LET slots == { i \in 1 .. Len(h) : h[i] = x }
           IN  (Once(h, x) <=> \E i \in slots : slots = {i}) /\ (Absent(h, x) <=> slots = {})
<1> DEFINE slots == { i \in 1 .. Len(h) : h[i] = x }
<1>1. \A i : i \in slots <=> i \in 1 .. Len(h) /\ h[i] = x
  OBVIOUS
<1> HIDE DEF slots
<1>2. Once(h, x) => \E i \in slots : slots = {i}
  BY <1>1 DEF Once
<1>3. (\E i \in slots : slots = {i}) => Once(h, x)
  BY <1>1 DEF Once
<1>4. Absent(h, x) <=> slots = {}
  BY <1>1 DEF Absent
<1> QED BY <1>2, <1>3, <1>4 DEF slots

LEMMA PlacedIsInItsHeap ==
    ASSUME HeapInv
    PROVE  InItsHeap
<1>1. TypeOK
  BY TypesAre DEF HeapInv
<1>2. ASSUME NEW t \in Threads, NEW ht \in HeapTypes
      PROVE  LET slots == { i \in 1 .. Len(heap[ht]) : heap[ht][i] = t }
             IN  IF ts[t] = ht /\ ~BeingInserted(t)
                 THEN \E i \in slots : slots = {i}
                 ELSE slots = {}
  <2>1. BeingInserted(t) <=> t \in Inserts(stack)
    BY BeingWokenIs DEF HeapInv, Contexts
  <2>2. IF ts[t] = ht /\ ~BeingInserted(t) THEN Once(heap[ht], t) ELSE Absent(heap[ht], t)
    BY <2>1 DEF HeapInv, Placed
  <2> QED BY <2>2, OnceIs
<1> QED BY <1>1, <1>2 DEF InItsHeap

LEMMA HeapInit ==
    ASSUME Init
    PROVE  HeapInv
<1>1. 0 \in TIME /\ 0 \in 0 .. ByteWidth - 1
  BY DEF TIME
<1>2. RestTyped
  BY <1>1 DEF Init, RestTyped, Contexts
<1>3. stack \in Stacks /\ \A x \in Contexts : Len(stack[x]) = 0
  BY DEF Init, Stacks
<1>4. HeapsTyped
  <2>1. ts \in AllStates /\ ts[IdleLoop] = "Idle"
    BY DEF Init, AllStates, Contexts, States, HeapTypes
  <2>2. time \in [Contexts -> TIME]
    BY <1>1 DEF Init
  <2>3. heap \in AllHeaps
    BY DEF Init, AllHeaps
  <2> QED BY <2>1, <2>2, <2>3 DEF HeapsTyped
<1>5. Inserts(stack) = {}
  BY <1>3 DEF Inserts
<1>6. ASSUME NEW t \in Threads, NEW ht \in HeapTypes
      PROVE  IF ts[t] = ht THEN Once(heap[ht], t) ELSE Absent(heap[ht], t)
  <2>1. ts[t] = IF \E i \in 1 .. Len(Started) : Started[i] = t THEN "Running" ELSE "Blocked"
    BY DEF Init, Contexts, Members
  <2>2. CASE ht = "Running"
    <3>1. heap[ht] = Started
      BY <2>2 DEF Init
    <3> QED BY <2>1, <2>2, <3>1 DEF Once, Absent
  <2>3. CASE ht # "Running"
    <3>1. heap[ht] = <<>>
      BY <2>3 DEF Init
    <3>2. ts[t] # ht
      BY <2>1, <2>3, StatesAre
    <3> QED BY <3>1, <3>2 DEF Absent
  <2> QED BY <2>2, <2>3
<1>7. Placed(heap, ts, Inserts(stack))
  BY <1>5, <1>6 DEF Placed
<1>8. Wakers(stack, ts, currtask) /\ OnlyOnTop(stack, Hasty, cpu) /\ HastyKnown
  BY <1>3 DEF Wakers, OnlyOnTop, HastyKnown
<1>9. cpu = currtask /\ Parked(stack, cpu)
  BY DEF Init, Parked
<1> QED BY <1>2, <1>3, <1>4, <1>7, <1>8, <1>9 DEF HeapInv
(* What a step that wakes nobody leaves as it was on the stacks.           *)
QuietStacks(S, R) ==
    /\ R \in Stacks
    /\ NoNew(S, R, Wakes) /\ NoNew(R, S, Wakes)
    /\ Lacks(R, Hasty)

QuietTop(S, R, c) ==
    /\ QuietStacks(S, R) /\ NoNew(R, S, {"switch"})
    /\ \A x \in Contexts \ {c} : R[x] = S[x]

LEMMA PushQuiet ==
    ASSUME NEW S \in Stacks, NEW c \in Contexts, NEW f \in FrameType,
           NEW R, Replaced(S, R, c, <<f>> \o S[c]),
           f.at \notin Wakes, f.at \notin Hasty, Lacks(S, Hasty)
    PROVE  QuietTop(S, R, c)
<1> DEFINE n == Len(S[c])
<1>1. n \in Nat /\ ChangedAbove(S, R, c, n) /\ Len(R[c]) = n + 1 /\ Deep(R[c], n + 1) = f
  <2>1. n \in Nat
    BY DEF Stacks
  <2> HIDE DEF n
  <2>2. /\ ChangedAbove(S, R, c, Len(S[c]))
        /\ Len(R[c]) = Len(S[c]) + 1 /\ Deep(R[c], Len(S[c]) + 1) = f
    BY PushChanges
  <2> QED BY <2>1, <2>2 DEF n
<1>2. n = Len(S[c])
  OBVIOUS
<1> HIDE DEF n
<1>3. \A d \in n + 1 .. Len(R[c]) : Deep(R[c], d) = f
  BY <1>1
<1>4. \A d \in n + 1 .. Len(S[c]) : FALSE
  BY <1>1, <1>2
<1>5. NoNew(S, R, Wakes) /\ NoNew(R, S, Wakes) /\ NoNew(S, R, Hasty) /\ NoNew(R, S, {"switch"})
  BY <1>1, <1>3, <1>4, NothingNew
<1> QED BY <1>1, <1>5 DEF QuietTop, QuietStacks, NoNew, Lacks, ChangedAbove

LEMMA TopQuiet ==
    ASSUME NEW S \in Stacks, NEW c \in Contexts, S[c] # <<>>, NEW f \in FrameType,
           NEW R, Replaced(S, R, c, <<f>> \o Tail(S[c])),
           Head(S[c]).at \notin Wakes, Head(S[c]).at # "switch",
           f.at \notin Wakes, f.at \notin Hasty, OnlyOnTop(S, Hasty, c)
    PROVE  QuietTop(S, R, c)
<1> DEFINE n == Len(S[c])
<1>1. /\ n \in Nat \ {0} /\ Deep(S[c], n) = Head(S[c])
      /\ ChangedAbove(S, R, c, n - 1)
      /\ Len(R[c]) = n /\ Deep(R[c], n) = f
  BY TopChanges
<1>2. n = Len(S[c])
  OBVIOUS
<1> HIDE DEF n
<1>3. \A d \in n - 1 + 1 .. Len(R[c]) : Deep(R[c], d) = f
  BY <1>1
<1>4. \A d \in n - 1 + 1 .. Len(S[c]) : Deep(S[c], d) = Head(S[c])
  BY <1>1, <1>2
<1>5. NoNew(S, R, Wakes)
  BY <1>1, <1>3, NothingNew
<1>6. NoNew(R, S, Wakes)
  BY <1>1, <1>4, NothingNew
<1>7. NoNew(S, R, Hasty)
  BY <1>1, <1>3, NothingNew
<1>8. NoNew(R, S, {"switch"})
  BY <1>1, <1>4, NothingNew
<1>9. Lacks(R, Hasty)
  BY <1>1, <1>2, <1>7 DEF NoNew, Lacks, OnlyOnTop
<1> QED BY <1>1, <1>5, <1>6, <1>8, <1>9 DEF QuietTop, QuietStacks, ChangedAbove

LEMMA PopQuiet ==
    ASSUME NEW S \in Stacks, NEW c \in Contexts, S[c] # <<>>,
           NEW R, Replaced(S, R, c, Tail(S[c])),
           Head(S[c]).at \notin Wakes, Head(S[c]).at # "switch", Lacks(S, Hasty)
    PROVE  QuietTop(S, R, c)
<1> DEFINE n == Len(S[c])
<1>1. /\ n \in Nat \ {0} /\ Deep(S[c], n) = Head(S[c])
      /\ ChangedAbove(S, R, c, n - 1)
      /\ Len(R[c]) = n - 1
  BY PopChanges
<1>2. n = Len(S[c])
  OBVIOUS
<1> HIDE DEF n
<1>3. \A d \in n - 1 + 1 .. Len(R[c]) : FALSE
  BY <1>1
<1>4. \A d \in n - 1 + 1 .. Len(S[c]) : Deep(S[c], d) = Head(S[c])
  BY <1>1, <1>2
<1>5. NoNew(S, R, Wakes)
  BY <1>1, <1>3, NothingNew
<1>6. NoNew(R, S, Wakes)
  BY <1>1, <1>4, NothingNew
<1>7. NoNew(S, R, Hasty)
  BY <1>1, <1>3, NothingNew
<1>8. NoNew(R, S, {"switch"})
  BY <1>1, <1>4, NothingNew
<1> QED BY <1>1, <1>5, <1>6, <1>7, <1>8 DEF QuietTop, QuietStacks, NoNew, Lacks, ChangedAbove

LEMMA SameQuiet ==
    ASSUME NEW S \in Stacks, NEW c, Lacks(S, Hasty)
    PROVE  QuietTop(S, S, c)
BY DEF QuietTop, QuietStacks, NoNew

(* In the middle of its code, a context works with the lock held, or it is  *)
(* interrupted where no frame has dropped it.                              *)
LEMMA NotHasty ==
    ASSUME HeapInv, Idling \/ Top.at \notin Hasty
    PROVE  Lacks(stack, Hasty)
<1>1. CASE Idling
  <2>1. Len(stack[cpu]) = 0
    BY <1>1 DEF Idling
  <2> QED BY <2>1 DEF HeapInv, OnlyOnTop, Lacks
<1>2. CASE ~Idling /\ Top.at \notin Hasty
  <2>1. cpu \in Contexts /\ stack[cpu] \in Seq(FrameType) /\ stack[cpu] # <<>>
    BY <1>2 DEF HeapInv, RestTyped, Stacks, Idling
  <2>2. Deep(stack[cpu], Len(stack[cpu])) = Top
    BY <2>1, PopIs DEF Top
  <2> QED BY <1>2, <2>2 DEF HeapInv, OnlyOnTop, Lacks
<1> QED BY <1>1, <1>2

(* The threads of T change their heap or their state.                      *)
Rearranged(T) ==
    /\ heap' \in AllHeaps /\ ts' \in AllStates /\ time' \in [Contexts -> TIME]
    /\ Placed(heap', ts', Inserts(stack))
    /\ \A u \in Contexts \ T : ts'[u] = ts[u]

LEMMA NobodyWoken ==
    ASSUME HeapInv, NEW T \in SUBSET Threads, Rearranged(T), T \cap Woken(stack) = {},
           RestTyped', stack' \in Stacks, NoNew(stack, stack', Wakes), NoNew(stack', stack, Wakes),
           currtask' \notin Woken(stack), OnlyOnTop(stack', Hasty, cpu'), HastyKnown',
           Parked(stack', cpu'), cpu' # currtask' => Switching'
    PROVE  HeapInv'
<1>1. Woken(stack') = Woken(stack) /\ Inserts(stack') = Inserts(stack)
  BY SameWakes
<1>2. Placed(heap', ts', Inserts(stack'))
  BY <1>1 DEF Rearranged
<1>3. \A t \in Woken(stack') : ts'[t] = ts[t] /\ t # currtask'
  <2>1. \A t \in Woken(stack) : t \in Contexts \ T
    BY DEF Woken
  <2> QED BY <1>1, <2>1 DEF Rearranged
<1>4. Wakers(stack', ts', currtask')
  BY <1>3, WakersKept DEF HeapInv
<1>5. HeapsTyped'
  <2>1. ts'[IdleLoop] = "Idle"
    BY DEF Rearranged, HeapInv, HeapsTyped, Contexts
  <2> QED BY <2>1 DEF Rearranged, HeapsTyped, AllStates, AllHeaps
<1> QED BY <1>2, <1>4, <1>5 DEF HeapInv

LEMMA QuietStep ==
    ASSUME HeapInv, NEW T \in SUBSET Threads, Rearranged(T), T \cap Woken(stack) = {},
           RestTyped', QuietStacks(stack, stack'), currtask' \notin Woken(stack),
           Parked(stack', cpu'), cpu' # currtask' => Switching'
    PROVE  HeapInv'
<1>1. OnlyOnTop(stack', Hasty, cpu') /\ HastyKnown'
  BY DEF QuietStacks, Lacks, OnlyOnTop, HastyKnown
<1> QED BY <1>1, NobodyWoken DEF QuietStacks

LEMMA SameHeaps ==
    ASSUME HeapInv, UNCHANGED <<ts, time, heap>>
    PROVE  Rearranged({})
BY DEF HeapInv, HeapsTyped, Rearranged

LEMMA QuietHere ==
    ASSUME HeapInv, UNCHANGED <<cpu, currtask>>, QuietTop(stack, stack', cpu)
    PROVE  /\ QuietStacks(stack, stack') /\ Parked(stack', cpu')
           /\ cpu' # currtask' => Switching'
<1>1. cpu \in Contexts /\ QuietStacks(stack, stack')
  BY DEF HeapInv, RestTyped, QuietTop
<1>2. Parked(stack', cpu')
  BY DEF HeapInv, Parked, QuietTop
<1>3. ASSUME cpu # currtask PROVE Switching'
  <2>1. PICK d \in 1 .. Len(stack[cpu]) : Deep(stack[cpu], d).at = "switch"
    BY <1>3 DEF HeapInv, Switching
  <2>2. d \in 1 .. Len(stack'[cpu]) /\ Deep(stack'[cpu], d).at = "switch"
    BY <1>1, <2>1 DEF QuietTop, NoNew
  <2> QED BY <2>2 DEF Switching
<1> QED BY <1>1, <1>2, <1>3

LEMMA NotWoken ==
    ASSUME HeapInv
    PROVE  /\ currtask \notin Woken(stack) /\ IdleLoop \notin Woken(stack)
           /\ Woken(stack) \subseteq Threads /\ Inserts(stack) \subseteq Woken(stack)
<1>1. \A t \in Woken(stack) : t \in Threads /\ t # currtask
  BY WokenState DEF HeapInv
<1> QED BY <1>1, InsertsAreWoken
(* What the operations on the heaps do to the threads.                     *)
LEMMA TimesAre ==
    /\ 0 \in TIME
    /\ \A x, y \in TIME : Plus(x, y) \in TIME
    /\ \A t \in Threads : Defer[t] \in TIME
BY DEF TIME, Plus

LEMMA InHeap ==
    ASSUME HeapInv, NEW t \in Threads \ Inserts(stack), ts[t] \in HeapTypes
    PROVE  /\ heap[ts[t]] # <<>> /\ Once(heap[ts[t]], t)
           /\ SlotOf(heap[ts[t]], t) \in 1 .. Len(heap[ts[t]])
           /\ heap[ts[t]][SlotOf(heap[ts[t]], t)] = t
<1>1. Once(heap[ts[t]], t)
  BY DEF HeapInv, Placed
<1>2. /\ SlotOf(heap[ts[t]], t) \in 1 .. Len(heap[ts[t]])
      /\ heap[ts[t]][SlotOf(heap[ts[t]], t)] = t
  BY <1>1, SlotIs
<1>3. heap[ts[t]] \in Seq(Threads)
  BY DEF HeapInv, HeapsTyped, AllHeaps
<1>4. heap[ts[t]] # <<>>
  BY <1>2, <1>3
<1> QED BY <1>1, <1>2, <1>4

LEMMA RootsAre ==
    ASSUME HeapInv, NEW ht \in HeapTypes
    PROVE  /\ heap[ht] # <<>> => Head(heap[ht]) \in Threads /\ RootTime(ht) \in TIME
           /\ WakeTime(ht) \in TIME
<1>1. heap[ht] \in Seq(Threads) /\ time \in [Contexts -> TIME]
  BY DEF HeapInv, HeapsTyped, AllHeaps
<1>2. heap[ht] # <<>> => Head(heap[ht]) \in Threads
  BY <1>1
<1> QED BY <1>1, <1>2, TimesAre DEF RootTime, WakeTime, Contexts

LEMMA QueueIs ==
    ASSUME HeapInv, NEW t \in Threads \ Woken(stack), NEW hs \in Without(t),
           NEW ht \in HeapTypes, NEW when \in TIME, Queue(hs, t, ht, when)
    PROVE  Rearranged({t})
<1> DEFINE timed == [time EXCEPT ![t] = when]
           mid   == [ts EXCEPT ![t] = "Blocked"]
<1>1. t \in Contexts /\ t \notin Inserts(stack)
  BY NotWoken DEF Contexts
<1>2. /\ time' = timed /\ ts' = [ts EXCEPT ![t] = ht]
      /\ \E g \in Siftup(hs[ht], timed, t) : heap' = [hs EXCEPT ![ht] = g]
  BY DEF Queue
<1>3. heap \in AllHeaps /\ ts \in AllStates /\ time \in [Contexts -> TIME]
      /\ Placed(heap, ts, Inserts(stack))
  BY DEF HeapInv, HeapsTyped
<1>4. hs \in AllHeaps /\ Placed(hs, mid, Inserts(stack))
  BY <1>1, <1>3, WithoutPlaced
<1>5. mid \in AllStates /\ mid[t] = "Blocked" /\ [mid EXCEPT ![t] = ht] = [ts EXCEPT ![t] = ht]
  BY <1>1, <1>3, StatesAre DEF AllStates
<1>6. timed \in [Contexts -> TIME]
  BY <1>3
<1> HIDE DEF timed, mid
<1>7. PICK g \in Siftup(hs[ht], timed, t) : heap' = [hs EXCEPT ![ht] = g]
  BY <1>2
<1>8. /\ [hs EXCEPT ![ht] = g] \in AllHeaps
      /\ Placed([hs EXCEPT ![ht] = g], [mid EXCEPT ![t] = ht], Inserts(stack))
  BY <1>1, <1>4, <1>5, <1>7, QueuePlaced
<1>9. heap' \in AllHeaps /\ Placed(heap', ts', Inserts(stack))
  BY <1>2, <1>5, <1>7, <1>8
<1>10. ts' \in AllStates /\ \A u \in Contexts \ {t} : ts'[u] = ts[u]
  BY <1>2, <1>3, StatesAre DEF AllStates
<1> QED BY <1>2, <1>6, <1>9, <1>10 DEF Rearranged

LEMMA BlockIs ==
    ASSUME HeapInv, NEW t \in Threads \ Woken(stack), Block(t)
    PROVE  Rearranged({t})
<1>1. t \in Contexts /\ t \notin Inserts(stack)
  BY NotWoken DEF Contexts
<1>2. heap \in AllHeaps /\ ts \in AllStates /\ time \in [Contexts -> TIME]
      /\ Placed(heap, ts, Inserts(stack))
  BY DEF HeapInv, HeapsTyped
<1>3. ts' = [ts EXCEPT ![t] = "Blocked"] /\ heap' \in Without(t) /\ time' = time
  BY DEF Block
<1>4. heap' \in AllHeaps /\ Placed(heap', [ts EXCEPT ![t] = "Blocked"], Inserts(stack))
  BY <1>1, <1>2, <1>3, WithoutPlaced
<1>5. ts' \in AllStates /\ \A u \in Contexts \ {t} : ts'[u] = ts[u]
  BY <1>2, <1>3, StatesAre DEF AllStates
<1> QED BY <1>2, <1>3, <1>4, <1>5 DEF Rearranged

Sorted(ht, g) == heap' = [heap EXCEPT ![ht] = g]

LEMMA SortIs ==
    ASSUME HeapInv, NEW ht \in HeapTypes, NEW g, Shuffled(g, heap[ht], Threads), Sorted(ht, g),
           ts' = ts, time' \in [Contexts -> TIME]
    PROVE  Rearranged({})
<1>1. heap \in AllHeaps /\ ts \in AllStates /\ Placed(heap, ts, Inserts(stack))
  BY DEF HeapInv, HeapsTyped
<1>2. [heap EXCEPT ![ht] = g] \in AllHeaps /\ Placed([heap EXCEPT ![ht] = g], ts, Inserts(stack))
  BY <1>1, ShufflePlaced
<1> QED BY <1>1, <1>2 DEF Sorted, Rearranged

LEMMA SiftedIs ==
    ASSUME HeapInv, NEW ht \in HeapTypes, heap[ht] # <<>>, NEW times,
           NEW g \in Siftdown(heap[ht], times)
    PROVE  Shuffled(g, heap[ht], Threads)
<1>1. heap[ht] \in Seq(Threads)
  BY DEF HeapInv, HeapsTyped, AllHeaps
<1> QED BY <1>1, SiftdownIs

LEMMA AdvanceAndSinkIs ==
    ASSUME HeapInv, currtask \in Threads, NEW ht \in HeapTypes, ts[currtask] = ht, AdvanceAndSink(ht)
    PROVE  Rearranged({})
<1> DEFINE timed == [time EXCEPT ![currtask] = Plus(@, Defer[currtask])]
<1>1. heap[ht] # <<>>
  BY NotWoken, InHeap
<1>2. time' = timed /\ ts' = ts /\ \E g \in Siftdown(heap[ht], timed) : heap' = [heap EXCEPT ![ht] = g]
  BY DEF AdvanceAndSink
<1>3. timed \in [Contexts -> TIME]
  BY TimesAre DEF HeapInv, HeapsTyped, Contexts
<1> HIDE DEF timed
<1>4. PICK g \in Siftdown(heap[ht], timed) : heap' = [heap EXCEPT ![ht] = g]
  BY <1>2
<1>5. Shuffled(g, heap[ht], Threads) /\ Sorted(ht, g)
  BY <1>1, <1>4, SiftedIs DEF Sorted
<1> QED BY <1>2, <1>3, <1>5, SortIs
(* The steps.                                                              *)
LEMMA StackedIs ==
    ASSUME NEW frames, Stacked(frames)
    PROVE  Replaced(stack, stack', cpu, frames)
BY DEF Stacked, Replaced

LEMMA TopIs ==
    ASSUME HeapInv, NEW label, At(label)
    PROVE  /\ stack[cpu] \in Seq(FrameType) /\ stack[cpu] # <<>>
           /\ Len(stack[cpu]) \in Nat \ {0} /\ Deep(stack[cpu], Len(stack[cpu])) = Top
           /\ Top \in FrameType /\ Top.at = label
           /\ Top.who \in Contexts
<1>1. stack[cpu] \in Seq(FrameType)
  BY DEF HeapInv, RestTyped, Stacks
<1>2. stack[cpu] # <<>> /\ Top.at = label /\ Top = Head(stack[cpu])
  BY DEF At, Idling, Top
<1>3. /\ Len(stack[cpu]) \in Nat \ {0} /\ Deep(stack[cpu], Len(stack[cpu])) = Top
      /\ Top \in FrameType
  BY <1>1, <1>2, PopIs
<1> QED BY <1>1, <1>2, <1>3 DEF FrameType

LEMMA ServiceIs ==
    ASSUME HeapInv, Lacks(stack, Hasty), TimerService(stack[cpu])
    PROVE  QuietTop(stack, stack', cpu) /\ schedLock' \in BOOLEAN
<1>1. stack \in Stacks /\ cpu \in Contexts /\ currtask \in Contexts /\ schedLock \in BOOLEAN
  BY DEF HeapInv, RestTyped
<1>2. CASE schedLock
  <2>1. stack' = stack /\ schedLock' = schedLock
    BY <1>1, <1>2 DEF TimerService, Stacked, Stacks
  <2> QED BY <1>1, <2>1, SameQuiet
<1>3. CASE ~schedLock
  <2> DEFINE f == Frame("charge", currtask)
  <2>1. f \in FrameType /\ f.at \notin Wakes /\ f.at \notin Hasty
    BY <1>1, FrameIs DEF Labels, Wakes, Hasty
  <2>2. Replaced(stack, stack', cpu, <<f>> \o stack[cpu]) /\ schedLock' = TRUE
    BY <1>3, StackedIs DEF TimerService
  <2> HIDE DEF f
  <2> QED BY <1>1, <2>1, <2>2, PushQuiet
<1> QED BY <1>1, <1>2, <1>3

LEMMA TimerHeaps ==
    ASSUME HeapInv, "unlocked irq" \notin Allowed, Timer
    PROVE  HeapInv'
<1>1. Idling \/ Top.at \notin Hasty
  BY DEF Timer, Interruptible, At, Hasty
<1>2. QuietTop(stack, stack', cpu) /\ schedLock' \in BOOLEAN
  BY <1>1, NotHasty, ServiceIs DEF Timer
<1>3. Rearranged({}) /\ cpu' = cpu /\ currtask' = currtask
  BY SameHeaps DEF Timer, heaps
<1>4. RestTyped'
  BY <1>2 DEF Timer, heaps, HeapInv, RestTyped
<1>5. /\ QuietStacks(stack, stack') /\ Parked(stack', cpu')
      /\ cpu' # currtask' => Switching'
  BY <1>2, <1>3, QuietHere
<1> QED BY <1>2, <1>3, <1>4, <1>5, NotWoken, QuietStep

LEMMA QuantumDoneHeaps ==
    ASSUME HeapInv, QuantumDone
    PROVE  HeapInv'
<1>1. Idling /\ stack[cpu] = <<>>
  BY DEF QuantumDone, Idling
<1>2. QuietTop(stack, stack', cpu) /\ schedLock' \in BOOLEAN
  BY <1>1, NotHasty, ServiceIs DEF QuantumDone
<1>3. Rearranged({}) /\ cpu' = cpu /\ currtask' = currtask
  BY SameHeaps DEF QuantumDone, heaps
<1>4. RestTyped'
  BY <1>2 DEF QuantumDone, heaps, HeapInv, RestTyped
<1>5. /\ QuietStacks(stack, stack') /\ Parked(stack', cpu')
      /\ cpu' # currtask' => Switching'
  BY <1>2, <1>3, QuietHere
<1> QED BY <1>2, <1>3, <1>4, <1>5, NotWoken, QuietStep

(* A step that goes on to another label in its own frame.                  *)
LEMMA GotoIs ==
    ASSUME HeapInv, NEW from, At(from), NEW label \in Labels, Goto(label),
           from \notin Wakes, from # "switch", label \notin Wakes, label \notin Hasty
    PROVE  QuietTop(stack, stack', cpu)
<1> DEFINE f == [Top EXCEPT !.at = label]
<1>1. stack \in Stacks /\ cpu \in Contexts /\ OnlyOnTop(stack, Hasty, cpu)
  BY DEF HeapInv, RestTyped
<1>2. stack[cpu] # <<>> /\ Head(stack[cpu]).at = from
  BY DEF At, Idling, Top
<1>3. Top \in FrameType
  BY TopIs
<1>4. f \in FrameType /\ f.at = label
  BY <1>3 DEF FrameType
<1>5. Replaced(stack, stack', cpu, <<f>> \o Tail(stack[cpu]))
  BY StackedIs DEF Goto
<1> HIDE DEF f
<1>6. f.at \notin Wakes /\ f.at \notin Hasty
  BY <1>4
<1>7. Head(stack[cpu]).at \notin Wakes /\ Head(stack[cpu]).at # "switch"
  BY <1>2
<1> QED BY <1>1, <1>2, <1>4, <1>5, <1>6, <1>7, TopQuiet

LEMMA ChargeHeaps ==
    ASSUME HeapInv, Charge
    PROVE  HeapInv'
<1>1. QuietTop(stack, stack', cpu)
  <2>1. At("charge") /\ Goto("flush")
    BY DEF Charge
  <2>2. /\ "flush" \in Labels /\ "charge" \notin Wakes /\ "charge" # "switch"
        /\ "flush" \notin Wakes /\ "flush" \notin Hasty
    BY DEF Labels, Wakes, Hasty
  <2> QED BY <2>1, <2>2, GotoIs
<1>2. time' \in [Contexts -> TIME]
  <2>1. Top.who \in Contexts
    BY TopIs DEF Charge
  <2> QED BY <2>1 DEF Charge, HeapInv, HeapsTyped, RestTyped
<1>3. Rearranged({})
  BY <1>2 DEF Rearranged, Charge, HeapInv, HeapsTyped
<1>4. RestTyped' /\ cpu' = cpu /\ currtask' = currtask
  BY DEF Charge, sched, HeapInv, RestTyped
<1>5. /\ QuietStacks(stack, stack') /\ Parked(stack', cpu')
      /\ cpu' # currtask' => Switching'
  BY <1>1, <1>4, QuietHere
<1> QED BY <1>1, <1>3, <1>4, <1>5, NotWoken, QuietStep

LEMMA FlushHeaps ==
    ASSUME HeapInv, Flush
    PROVE  HeapInv'
<1>1. QuietTop(stack, stack', cpu)
  <2>1. At("flush") /\ Goto("pick")
    BY DEF Flush
  <2>2. /\ "pick" \in Labels /\ "flush" \notin Wakes /\ "flush" # "switch"
        /\ "pick" \notin Wakes /\ "pick" \notin Hasty
    BY DEF Labels, Wakes, Hasty
  <2> QED BY <2>1, <2>2, GotoIs
<1>2. currtask \in Contexts /\ currtask \notin Woken(stack) /\ ts[IdleLoop] = "Idle"
      /\ time \in [Contexts -> TIME] /\ currtask \notin Inserts(stack)
  BY NotWoken DEF HeapInv, RestTyped, HeapsTyped
<1>3. currtask # IdleLoop => currtask \in Threads
  BY <1>2 DEF Contexts
<1>4. time[currtask] \in TIME
  BY <1>2
<1>5. \E T \in SUBSET Threads : T \cap Woken(stack) = {} /\ Rearranged(T)
  <2>1. CASE FlushRunning
    <3>1. ts[currtask] = "Running" /\ currtask \in Threads
      BY <1>2, <1>3, <2>1, StatesAre DEF FlushRunning
    <3>2. CASE AdvanceAndSink("Running")
      BY <3>1, <3>2, AdvanceAndSinkIs, StatesAre
    <3>3. CASE \E hs \in Without(currtask) : Queue(hs, currtask, "RealTime", time[currtask])
      <4>1. Rearranged({currtask})
        BY <1>2, <1>4, <3>1, <3>3, QueueIs, StatesAre
      <4> QED BY <1>2, <3>1, <4>1
    <3> QED BY <2>1, <3>2, <3>3 DEF FlushRunning
  <2>2. CASE FlushRealTime
    <3>1. ts[currtask] = "RealTime" /\ currtask \in Threads
      BY <1>2, <1>3, <2>2, StatesAre DEF FlushRealTime
    <3>2. CASE StaysRealTime
      <4>1. PICK g \in Siftdown(heap["RealTime"], time) : heap' = [heap EXCEPT !["RealTime"] = g]
        BY <3>2 DEF StaysRealTime
      <4>2. heap["RealTime"] # <<>>
        BY <1>2, <3>1, InHeap, StatesAre
      <4>3. Shuffled(g, heap["RealTime"], Threads) /\ Sorted("RealTime", g)
        BY <4>1, <4>2, SiftedIs, StatesAre DEF Sorted
      <4>4. ts' = ts /\ time' = time
        BY <3>2 DEF StaysRealTime
      <4>5. time' \in [Contexts -> TIME]
        BY <1>2, <4>4
      <4>6. Rearranged({})
        BY <4>3, <4>4, <4>5, SortIs, StatesAre
      <4> QED BY <4>6
    <3>3. CASE ~StaysRealTime
      <4>1. PICK when \in NextTimes("Running") :
               \E hs \in Without(currtask) : Queue(hs, currtask, "Running", when)
        BY <2>2, <3>3 DEF FlushRealTime
      <4>2. when \in TIME
        <5>1. \A t \in Threads : time[t] \in TIME
          BY <1>2 DEF Contexts
        <5>2. heap["Running"] # <<>> => RootTime("Running") \in TIME
          BY RootsAre, StatesAre
        <5> QED BY <4>1, <5>1, <5>2 DEF NextTimes
      <4>3. Rearranged({currtask})
        BY <1>2, <3>1, <4>1, <4>2, QueueIs, StatesAre
      <4> QED BY <1>2, <3>1, <4>3
    <3> QED BY <3>2, <3>3
  <2>3. CASE FlushIdle
    <3>1. CASE currtask = IdleLoop
      <4>1. Rearranged({})
        BY <2>3, <3>1, SameHeaps DEF FlushIdle
      <4> QED BY <4>1
    <3>2. CASE currtask # IdleLoop
      <4>1. currtask \in Threads /\ ts[currtask] = "Idle" /\ AdvanceAndSink("Idle")
        BY <1>3, <2>3, <3>2 DEF FlushIdle
      <4>2. Rearranged({})
        BY <4>1, AdvanceAndSinkIs, StatesAre
      <4> QED BY <4>2
    <3> QED BY <3>1, <3>2
  <2>4. CASE FlushBlocked
    <3>1. Rearranged({})
      BY <2>4, SameHeaps DEF FlushBlocked
    <3> QED BY <3>1
  <2> QED BY <2>1, <2>2, <2>3, <2>4 DEF Flush
<1>6. doingRealtime' \in 0 .. ByteWidth - 1
  <2>1. doingRealtime' = 0 \/ doingRealtime' = doingRealtime
    BY DEF Flush, FlushRunning, FlushRealTime, FlushIdle, FlushBlocked
  <2> QED BY <2>1 DEF HeapInv, RestTyped
<1>7. RestTyped' /\ cpu' = cpu /\ currtask' = currtask
  BY <1>6 DEF Flush, HeapInv, RestTyped
<1>8. /\ QuietStacks(stack, stack') /\ Parked(stack', cpu')
      /\ cpu' # currtask' => Switching'
  BY <1>1, <1>7, QuietHere
<1> QED BY <1>1, <1>2, <1>5, <1>7, <1>8, QuietStep
LEMMA SwitchedTo ==
    ASSUME HeapInv, NEW from, At(from), Goto("switch")
    PROVE  cpu' = cpu => Switching'
<1> DEFINE f == [Top EXCEPT !.at = "switch"]
           n == Len(stack[cpu])
<1>1. stack \in Stacks /\ cpu \in Contexts /\ stack[cpu] # <<>> /\ Top \in FrameType
  BY TopIs DEF HeapInv, RestTyped
<1>2. f \in FrameType /\ f.at = "switch"
  BY <1>1 DEF FrameType, Labels
<1>3. Replaced(stack, stack', cpu, <<f>> \o Tail(stack[cpu]))
  BY StackedIs DEF Goto
<1> HIDE DEF f
<1>4. n \in Nat \ {0} /\ Len(stack'[cpu]) = n /\ Deep(stack'[cpu], n) = f
  BY <1>1, <1>2, <1>3, TopChanges
<1> HIDE DEF n
<1>5. n \in 1 .. Len(stack'[cpu]) /\ Deep(stack'[cpu], n).at = "switch"
  BY <1>2, <1>4
<1> QED BY <1>5 DEF Switching

LEMMA QueuedIsNotWoken ==
    ASSUME HeapInv, NEW ht \in HeapTypes, heap[ht] # <<>>
    PROVE  Head(heap[ht]) \in Threads /\ Head(heap[ht]) \notin Woken(stack) /\ ts[Head(heap[ht])] = ht
<1> DEFINE t == Head(heap[ht])
<1>1. heap[ht] \in Seq(Threads)
  BY DEF HeapInv, HeapsTyped, AllHeaps
<1>2. t \in Threads /\ 1 \in 1 .. Len(heap[ht]) /\ heap[ht][1] = t
  BY <1>1
<1> HIDE DEF t
<1>3. ~Absent(heap[ht], t)
  BY <1>2 DEF Absent
<1>4. ts[t] = ht /\ t \notin Inserts(stack)
  BY <1>2, <1>3 DEF HeapInv, Placed
<1>5. t \in Woken(stack) => ts[t] = "Blocked"
  BY <1>4, WokenState DEF HeapInv
<1> QED BY <1>2, <1>4, <1>5, StatesAre DEF t

LEMMA PickHeaps ==
    ASSUME HeapInv, Pick
    PROVE  HeapInv'
<1>1. QuietTop(stack, stack', cpu)
  <2>1. At("pick") /\ Goto("switch")
    BY DEF Pick
  <2>2. /\ "switch" \in Labels /\ "pick" \notin Wakes /\ "pick" # "switch"
        /\ "switch" \notin Wakes /\ "switch" \notin Hasty
    BY DEF Labels, Wakes, Hasty
  <2> QED BY <2>1, <2>2, GotoIs
<1>2. cpu' = cpu /\ Rearranged({})
  BY SameHeaps DEF Pick, heaps
<1>3. currtask' \in Contexts /\ currtask' \notin Woken(stack)
  <2>1. \/ \E ht \in HeapTypes : heap[ht] # <<>> /\ currtask' = Head(heap[ht])
        \/ currtask' = IdleLoop
    BY StatesAre DEF Pick
  <2> QED BY <2>1, QueuedIsNotWoken, NotWoken DEF Contexts
<1>4. doingRealtime' \in 0 .. ByteWidth - 1
  <2>1. doingRealtime \in Nat /\ ByteWidth \in Nat \ {0}
    BY DEF HeapInv, RestTyped
  <2>2. (doingRealtime + 1) % ByteWidth \in 0 .. ByteWidth - 1
    BY <2>1
  <2> QED BY <2>2 DEF Pick, HeapInv, RestTyped
<1>5. lasttime' \in TIME /\ timer' = "armed"
  BY <1>3 DEF Pick, Arm, HeapInv, HeapsTyped
<1>6. RestTyped'
  BY <1>3, <1>4, <1>5 DEF Pick, heaps, HeapInv, RestTyped
<1>7. QuietStacks(stack, stack') /\ Parked(stack', cpu')
  BY <1>1, <1>2 DEF QuietTop, HeapInv, Parked
<1>8. Switching'
  <2>1. At("pick") /\ Goto("switch")
    BY DEF Pick
  <2> QED BY <1>2, <2>1, SwitchedTo
<1> QED BY <1>2, <1>3, <1>6, <1>7, <1>8, QuietStep

LEMMA DropIs ==
    ASSUME NEW S, NEW s \in Seq(S), NEW k \in {2, 3}, k <= Len(s) + 1
    PROVE  /\ SubSeq(s, k, Len(s)) \in Seq(S)
           /\ Len(SubSeq(s, k, Len(s))) = Len(s) - (k - 1)
           /\ \A d \in 1 .. Len(s) - (k - 1) : Deep(SubSeq(s, k, Len(s)), d) = Deep(s, d)
<1> DEFINE n == Len(s)
           r == SubSeq(s, k, n)
<1>1. n \in Nat /\ k \in Int /\ \A i \in k .. n : s[i] \in S
  OBVIOUS
<1>2. /\ r \in Seq(S) /\ Len(r) = IF k <= n THEN n - k + 1 ELSE 0
      /\ \A i \in 1 .. n - k + 1 : r[i] = s[k + i - 1]
  BY <1>1, SubSeqProperties
<1>3. n \in Nat /\ k <= n + 1
  BY <1>1
<1>4. n = Len(s)
  OBVIOUS
<1> HIDE DEF r, n
<1>5. Len(r) = n - (k - 1)
  BY <1>2, <1>3
<1>6. ASSUME NEW d \in 1 .. n - (k - 1) PROVE Deep(r, d) = Deep(s, d)
  <2>1. PICK i \in 1 .. n - k + 1 : i = n - (k - 1) + 1 - d
    BY <1>3
  <2>2. r[i] = s[k + i - 1] /\ k + i - 1 = n + 1 - d
    BY <1>2, <1>3, <2>1
  <2> QED BY <1>4, <1>5, <2>1, <2>2 DEF Deep
<1> QED BY <1>2, <1>4, <1>5, <1>6 DEF r, n
LEMMA NoNewTwice ==
    ASSUME NEW S, NEW M, NEW R, NEW L, NoNew(S, M, L), NoNew(M, R, L)
    PROVE  NoNew(S, R, L)
BY DEF NoNew

(* The stacks when the processor has left one context for another.         *)
LEMMA LeftIs ==
    ASSUME NEW S \in Stacks, NEW c \in Contexts, S[c] # <<>>, Head(S[c]).at = "switch",
           Lacks(S, Hasty), Parked(S, c),
           NEW M, Replaced(S, M, c, <<[Head(S[c]) EXCEPT !.at = "away"]>> \o Tail(S[c]))
    PROVE  /\ M \in Stacks /\ Lacks(M, Hasty) /\ NoNew(S, M, Wakes) /\ NoNew(M, S, Wakes)
           /\ \A x \in Contexts : M[x] # <<>> => Deep(M[x], Len(M[x])).at = "away"
<1> DEFINE f == [Head(S[c]) EXCEPT !.at = "away"]
           n == Len(S[c])
<1>1. f \in FrameType /\ f.at = "away"
  <2>1. Head(S[c]) \in FrameType
    BY PopIs DEF Stacks
  <2> QED BY <2>1 DEF FrameType, Labels
<1>2. Replaced(S, M, c, <<f>> \o Tail(S[c]))
  OBVIOUS
<1> HIDE DEF f
<1>3. /\ n \in Nat \ {0} /\ Deep(S[c], n) = Head(S[c])
      /\ ChangedAbove(S, M, c, n - 1)
      /\ Len(M[c]) = n /\ Deep(M[c], n) = f
  BY <1>1, <1>2, TopChanges
<1>4. n = Len(S[c])
  OBVIOUS
<1> HIDE DEF n
<1>5. \A d \in n - 1 + 1 .. Len(M[c]) : Deep(M[c], d) = f
  BY <1>3
<1>6. \A d \in n - 1 + 1 .. Len(S[c]) : Deep(S[c], d) = Head(S[c])
  BY <1>3, <1>4
<1>7. f.at \notin Wakes /\ f.at \notin Hasty /\ Head(S[c]).at \notin Wakes
  BY <1>1 DEF Wakes, Hasty
<1>8. NoNew(S, M, Wakes)
  BY <1>3, <1>5, <1>7, NothingNew
<1>9. NoNew(M, S, Wakes)
  BY <1>3, <1>6, <1>7, NothingNew
<1>10. NoNew(S, M, Hasty)
  BY <1>3, <1>5, <1>7, NothingNew
<1>11. Lacks(M, Hasty)
  BY <1>10 DEF NoNew, Lacks
<1>12. ASSUME NEW x \in Contexts, M[x] # <<>> PROVE Deep(M[x], Len(M[x])).at = "away"
  BY <1>1, <1>3, <1>12 DEF ChangedAbove, Parked
<1> QED BY <1>3, <1>8, <1>9, <1>11, <1>12 DEF ChangedAbove

Dropped(M, R, c, k) == R = [M EXCEPT ![c] = SubSeq(@, k, Len(@))]

LEMMA DroppedKeeps ==
    ASSUME NEW M \in Stacks, NEW c \in Contexts, M[c] # <<>>,
           Deep(M[c], Len(M[c])).at = "away",
           NEW k \in {2, 3}, k = 3 => Len(M[c]) > 1 /\ M[c][2].at = "tunnel",
           NEW R, Dropped(M, R, c, k), NEW L, "away" \notin L, "tunnel" \notin L
    PROVE  /\ R \in Stacks /\ NoNew(M, R, L) /\ NoNew(R, M, L)
           /\ \A x \in Contexts \ {c} : R[x] = M[x]
<1> DEFINE n == Len(M[c])
           m == Len(M[c]) - (k - 1)
<1>1. M[c] \in Seq(FrameType)
  BY DEF Stacks
<1>2. n \in Nat /\ n > 0 /\ k <= n + 1 /\ m \in Nat /\ m <= n
  BY <1>1
<1>3. R[c] = SubSeq(M[c], k, n) /\ \A x \in Contexts : x # c => R[x] = M[x]
  BY DEF Dropped, Stacks
<1>4. /\ SubSeq(M[c], k, n) \in Seq(FrameType) /\ Len(SubSeq(M[c], k, n)) = m
      /\ \A d \in 1 .. m : Deep(SubSeq(M[c], k, n), d) = Deep(M[c], d)
  <2>1. k <= Len(M[c]) + 1
    BY <1>2
  <2> QED BY <1>1, <2>1, DropIs
<1>5. R[c] \in Seq(FrameType) /\ Len(R[c]) = m /\ \A d \in 1 .. m : Deep(R[c], d) = Deep(M[c], d)
  BY <1>3, <1>4
<1>6. R \in Stacks
  BY <1>3, <1>5 DEF Dropped, Stacks
<1>7. Deep(M[c], n).at = "away"
  OBVIOUS
<1>8. k = 3 => Deep(M[c], n - 1).at = "tunnel"
  <2>1. k = 3 => n + 1 - (n - 1) = 2
    BY <1>2
  <2> QED BY <2>1 DEF Deep
<1>9. n = Len(M[c]) /\ m = n - (k - 1)
  OBVIOUS
<1> HIDE DEF n, m
<1>10. ChangedAbove(M, R, c, m)
  BY <1>2, <1>3, <1>5, <1>6, <1>9 DEF ChangedAbove
<1>11. \A d \in m + 1 .. Len(R[c]) : FALSE
  BY <1>2, <1>5
<1>12. \A d \in m + 1 .. Len(M[c]) : d = n \/ (k = 3 /\ d = n - 1)
  BY <1>2, <1>9
<1>13. \A d \in m + 1 .. Len(M[c]) : Deep(M[c], d).at \notin L
  BY <1>7, <1>8, <1>12
<1>14. NoNew(M, R, L)
  BY <1>10, <1>11, NothingNew
<1>15. NoNew(R, M, L)
  BY <1>10, <1>13, NothingNew
<1> QED BY <1>3, <1>6, <1>14, <1>15

LEMMA ResumedIs ==
    ASSUME NEW M \in Stacks, NEW c \in Contexts, M[c] # <<>>, Lacks(M, Hasty),
           \A x \in Contexts : M[x] # <<>> => Deep(M[x], Len(M[x])).at = "away",
           NEW k \in {2, 3}, k = 3 => Len(M[c]) > 1 /\ M[c][2].at = "tunnel",
           NEW R, Dropped(M, R, c, k)
    PROVE  QuietStacks(M, R) /\ Parked(R, c)
<1>1. Deep(M[c], Len(M[c])).at = "away"
  OBVIOUS
<1>2. /\ "away" \notin Wakes /\ "tunnel" \notin Wakes
      /\ "away" \notin Hasty /\ "tunnel" \notin Hasty
  BY DEF Wakes, Hasty
<1>3. /\ R \in Stacks /\ NoNew(M, R, Wakes) /\ NoNew(R, M, Wakes)
      /\ \A x \in Contexts \ {c} : R[x] = M[x]
  BY <1>1, <1>2, DroppedKeeps
<1>4. NoNew(M, R, Hasty)
  BY <1>1, <1>2, DroppedKeeps
<1>5. Lacks(R, Hasty)
  BY <1>4 DEF NoNew, Lacks
<1> QED BY <1>3, <1>5 DEF QuietStacks, Parked

LEMMA SwitchHeaps ==
    ASSUME HeapInv, Switch
    PROVE  HeapInv'
<1> DEFINE left    == [stack EXCEPT ![cpu] = <<[Top EXCEPT !.at = "away"]>> \o Tail(@)]
           resumed == left[currtask]
           tunnel  == Len(resumed) > 1 /\ resumed[2].at = "tunnel"
<1>1. /\ stack \in Stacks /\ cpu \in Contexts /\ currtask \in Contexts
      /\ stack[cpu] # <<>> /\ Head(stack[cpu]).at = "switch" /\ Parked(stack, cpu)
  BY DEF HeapInv, RestTyped, Switch, At, Idling, Top
<1>2. Lacks(stack, Hasty)
  <2>1. Top.at \notin Hasty
    BY DEF Switch, At, Hasty
  <2> QED BY <2>1, NotHasty
<1>3. Replaced(stack, left, cpu, <<[Head(stack[cpu]) EXCEPT !.at = "away"]>> \o Tail(stack[cpu]))
  BY DEF Replaced, Top
<1>4. \/ resumed = <<>> /\ stack' = left /\ UNCHANGED <<utime, masked>>
      \/ /\ resumed # <<>>
         /\ stack' = [left EXCEPT ![currtask] = SubSeq(@, IF tunnel THEN 3 ELSE 2, Len(@))]
         /\ masked' = IF tunnel THEN masked \cup {currtask} ELSE masked
         /\ Resume(resumed[1].who)
  BY DEF Switch
<1> HIDE DEF left
<1>5. /\ left \in Stacks /\ Lacks(left, Hasty) /\ NoNew(stack, left, Wakes) /\ NoNew(left, stack, Wakes)
      /\ \A x \in Contexts : left[x] # <<>> => Deep(left[x], Len(left[x])).at = "away"
  BY <1>1, <1>2, <1>3, LeftIs
<1>6. QuietStacks(left, stack') /\ Parked(stack', currtask)
  <2>1. CASE resumed = <<>>
    <3>1. stack' = left
      BY <1>4, <2>1
    <3> QED BY <1>5, <3>1 DEF QuietStacks, NoNew, Parked
  <2>2. CASE resumed # <<>>
    <3> DEFINE k == IF tunnel THEN 3 ELSE 2
    <3>1. Dropped(left, stack', currtask, k)
      BY <1>4, <2>2 DEF Dropped
    <3>2. k \in {2, 3} /\ (k = 3 => Len(left[currtask]) > 1 /\ left[currtask][2].at = "tunnel")
      OBVIOUS
    <3> HIDE DEF k
    <3> QED BY <1>1, <1>5, <2>2, <3>1, <3>2, ResumedIs
  <2> QED BY <2>1, <2>2
<1>7. QuietStacks(stack, stack')
  BY <1>5, <1>6, NoNewTwice DEF QuietStacks
<1>8. cpu' = currtask /\ currtask' = currtask /\ Rearranged({})
  BY SameHeaps DEF Switch
<1>9. RestTyped'
  <2>1. utime' \in [Contexts -> TIME]
    <3>1. time[currtask] \in TIME /\ utime \in [Contexts -> TIME]
      BY <1>1 DEF HeapInv, HeapsTyped, RestTyped
    <3>2. utime' = utime \/ Resume(resumed[1].who)
      BY <1>4
    <3> QED BY <3>1, <3>2 DEF Resume
  <2>2. masked' \subseteq Contexts
    <3>1. masked \subseteq Contexts
      BY DEF HeapInv, RestTyped
    <3> QED BY <1>1, <1>4, <3>1
  <2> QED BY <2>1, <2>2 DEF Switch, HeapInv, RestTyped
<1> QED BY <1>6, <1>7, <1>8, <1>9, NotWoken, QuietStep
(* The running stack R with a frame on top that works without the lock.    *)
HastyTop(S, R, c, f) ==
    /\ R \in Stacks
    /\ NoNew(S, R, Wakes) /\ NoNew(R, S, Wakes) /\ NoNew(R, S, {"switch"})
    /\ OnlyOnTop(R, Hasty, c) /\ Deep(R[c], Len(R[c])) = f
    /\ \A x \in Contexts \ {c} : R[x] = S[x]

LEMMA PushHasty ==
    ASSUME NEW S \in Stacks, NEW c \in Contexts, NEW f \in FrameType,
           NEW R, Replaced(S, R, c, <<f>> \o S[c]), f.at \notin Wakes, Lacks(S, Hasty)
    PROVE  HastyTop(S, R, c, f)
<1> DEFINE n == Len(S[c])
<1>1. n \in Nat /\ ChangedAbove(S, R, c, n) /\ Len(R[c]) = n + 1 /\ Deep(R[c], n + 1) = f
  <2>1. n \in Nat
    BY DEF Stacks
  <2> HIDE DEF n
  <2>2. /\ ChangedAbove(S, R, c, Len(S[c]))
        /\ Len(R[c]) = Len(S[c]) + 1 /\ Deep(R[c], Len(S[c]) + 1) = f
    BY PushChanges
  <2> QED BY <2>1, <2>2 DEF n
<1>2. n = Len(S[c])
  OBVIOUS
<1> HIDE DEF n
<1>3. \A d \in n + 1 .. Len(R[c]) : Deep(R[c], d) = f
  BY <1>1
<1>4. \A d \in n + 1 .. Len(S[c]) : FALSE
  BY <1>1, <1>2
<1>5. NoNew(S, R, Wakes) /\ NoNew(R, S, Wakes) /\ NoNew(R, S, {"switch"})
  BY <1>1, <1>3, <1>4, NothingNew
<1>6. OnlyOnTop(R, Hasty, c)
  <2>1. ASSUME NEW x \in Contexts, NEW d \in 1 .. Len(R[x]), Deep(R[x], d).at \in Hasty
        PROVE  x = c /\ d = Len(R[c])
    <3>1. CASE x # c
      BY <2>1, <3>1, <1>1 DEF ChangedAbove, Lacks
    <3>2. CASE x = c /\ d # n + 1
      <4>1. d \in 1 .. n
        BY <1>1, <3>2
      <4> QED BY <1>1, <1>2, <2>1, <3>2, <4>1 DEF ChangedAbove, Lacks
    <3> QED BY <1>1, <3>1, <3>2
  <2> QED BY <2>1 DEF OnlyOnTop
<1> QED BY <1>1, <1>5, <1>6 DEF HastyTop, ChangedAbove

LEMMA TopHasty ==
    ASSUME NEW S \in Stacks, NEW c \in Contexts, S[c] # <<>>, NEW f \in FrameType,
           NEW R, Replaced(S, R, c, <<f>> \o Tail(S[c])),
           Head(S[c]).at \notin Wakes, Head(S[c]).at # "switch",
           f.at \notin Wakes, OnlyOnTop(S, Hasty, c)
    PROVE  HastyTop(S, R, c, f)
<1> DEFINE n == Len(S[c])
<1>1. /\ n \in Nat \ {0} /\ Deep(S[c], n) = Head(S[c])
      /\ ChangedAbove(S, R, c, n - 1)
      /\ Len(R[c]) = n /\ Deep(R[c], n) = f
  BY TopChanges
<1>2. n = Len(S[c])
  OBVIOUS
<1> HIDE DEF n
<1>3. \A d \in n - 1 + 1 .. Len(R[c]) : Deep(R[c], d) = f
  BY <1>1
<1>4. \A d \in n - 1 + 1 .. Len(S[c]) : Deep(S[c], d) = Head(S[c])
  BY <1>1, <1>2
<1>5. NoNew(S, R, Wakes)
  BY <1>1, <1>3, NothingNew
<1>6. NoNew(R, S, Wakes)
  BY <1>1, <1>4, NothingNew
<1>7. NoNew(R, S, {"switch"})
  BY <1>1, <1>4, NothingNew
<1>8. OnlyOnTop(R, Hasty, c)
  <2>1. ASSUME NEW x \in Contexts, NEW d \in 1 .. Len(R[x]), Deep(R[x], d).at \in Hasty
        PROVE  x = c /\ d = Len(R[c])
    <3>1. CASE x # c
      BY <2>1, <3>1, <1>1 DEF ChangedAbove, OnlyOnTop
    <3>2. CASE x = c /\ d # n
      <4>1. d \in 1 .. n - 1 /\ d \in 1 .. Len(S[c])
        BY <1>1, <1>2, <3>2
      <4> QED BY <1>1, <1>2, <2>1, <3>2, <4>1 DEF ChangedAbove, OnlyOnTop
    <3> QED BY <1>1, <3>1, <3>2
  <2> QED BY <2>1 DEF OnlyOnTop
<1> QED BY <1>1, <1>5, <1>6, <1>7, <1>8 DEF HastyTop, ChangedAbove

LEMMA HastyStep ==
    ASSUME HeapInv, NEW T \in SUBSET Threads, Rearranged(T), T \cap Woken(stack) = {},
           RestTyped', UNCHANGED <<cpu, currtask>>,
           NEW f, HastyTop(stack, stack', cpu, f),
           f.who \in Threads, ts'[f.who] = "Running", f.who \notin Inserts(stack),
           f.at = "climb" => f.slot \in 1 .. Len(heap'["Running"]) /\ heap'["Running"][f.slot] = f.who
    PROVE  HeapInv'
<1>1. Inserts(stack') = Inserts(stack)
  BY SameWakes DEF HastyTop
<1>2. HastyIs(f)'
  BY <1>1 DEF HastyIs
<1>3. ASSUME NEW x \in Contexts, NEW d \in 1 .. Len(stack'[x]), Deep(stack'[x], d).at \in Hasty
      PROVE  Deep(stack'[x], d) = f
  BY <1>3 DEF HastyTop, OnlyOnTop
<1>4. HastyKnown'
  <2>1. ASSUME NEW x \in Contexts, NEW d \in 1 .. Len(stack'[x]), Deep(stack'[x], d).at \in Hasty
        PROVE  HastyIs(Deep(stack[x], d))'
    BY <1>2, <1>3, <2>1 DEF HastyIs
  <2> QED BY <2>1 DEF HastyKnown, HastyIs
<1>5. Parked(stack', cpu')
  BY DEF HastyTop, HeapInv, Parked
<1>6. ASSUME cpu # currtask PROVE Switching'
  <2>1. PICK d \in 1 .. Len(stack[cpu]) : Deep(stack[cpu], d).at = "switch"
    BY <1>6 DEF HeapInv, Switching
  <2>2. d \in 1 .. Len(stack'[cpu]) /\ Deep(stack'[cpu], d).at = "switch"
    BY <2>1 DEF HastyTop, NoNew, HeapInv, RestTyped
  <2> QED BY <2>2 DEF Switching
<1> QED BY <1>4, <1>5, <1>6, NotWoken, NobodyWoken DEF HastyTop
LEMMA PrioritiseIs ==
    ASSUME NEW h \in Seq(Threads), NEW times, NEW t \in Threads, Once(h, t),
           NEW g \in Prioritise(h, times, SlotOf(h, t))
    PROVE  Shuffled(g, h, Threads)
<1>1. SlotOf(h, t) \in 1 .. Len(h) /\ h[SlotOf(h, t)] = t
  BY SlotIs
<1>2. g \in Climb(h, times, t, SlotOf(h, t))
  BY <1>1 DEF Prioritise
<1> QED BY <1>1, <1>2, ClimbShuffles

(* CKprioritise of a queued thread, under the lock and without it.         *)
LEMMA IRQIs ==
    ASSUME NEW h \in Threads, IRQ(h), ts[h] = "Running",
           heap["Running"] \in Seq(Threads), Once(heap["Running"], h)
    PROVE  /\ time' = [time EXCEPT ![h] = RootTime("Running")] /\ ts' = ts
           /\ Push("irq end", h)
           /\ \E g \in Prioritise(heap["Running"], time', SlotOf(heap["Running"], h)) :
                 heap' = [heap EXCEPT !["Running"] = g]
<1> DEFINE i == SlotOf(heap["Running"], h)
<1>1. Slots("Running", h) = {i} /\ NextTimes("Running") = {RootTime("Running")}
  BY QueuedIs, StatesAre
<1>2. heap["Running"][i] = h
  BY SlotIs
<1> HIDE DEF i
<1>3. PICK when \in NextTimes("Running"), j \in Slots("Running", h) :
         /\ time' = [time EXCEPT ![h] = when]
         /\ \E g \in Climb(heap["Running"], time', h, j) : heap' = [heap EXCEPT !["Running"] = g]
  BY DEF IRQ
<1>4. Push("irq end", h) /\ ts' = ts
  BY DEF IRQ
<1>5. Prioritise(heap["Running"], time', i) = Climb(heap["Running"], time', h, i)
  BY <1>2 DEF Prioritise
<1>6. when = RootTime("Running") /\ j = i
  BY <1>1, <1>3
<1> QED BY <1>3, <1>4, <1>5, <1>6 DEF i

LEMMA UnlockedIs ==
    ASSUME HeapInv, PrioritiseUnlocked, Top.who \in Threads \ Inserts(stack),
           ts[Top.who] = "Running"
    PROVE  /\ time' = [time EXCEPT ![Top.who] = RootTime("Running")]
           /\ Stacked(<<[at |-> "climb", who |-> Top.who,
                          slot |-> SlotOf(heap["Running"], Top.who)]>> \o Tail(stack[cpu]))
<1>1. Once(heap["Running"], Top.who)
  BY InHeap, StatesAre
<1>2. heap["Running"] \in Seq(Threads)
  BY StatesAre DEF HeapInv, HeapsTyped, AllHeaps
<1>3. /\ Slots("Running", Top.who) = {SlotOf(heap["Running"], Top.who)}
      /\ NextTimes("Running") = {RootTime("Running")}
  BY <1>1, <1>2, QueuedIs, StatesAre
<1>4. PICK when \in NextTimes("Running"), i \in Slots("Running", Top.who) :
         /\ time' = [time EXCEPT ![Top.who] = when]
         /\ Stacked(<<[at |-> "climb", who |-> Top.who, slot |-> i]>> \o Tail(stack[cpu]))
  BY DEF PrioritiseUnlocked
<1>5. when = RootTime("Running") /\ i = SlotOf(heap["Running"], Top.who)
  BY <1>3, <1>4
<1> QED BY <1>4, <1>5

LEMMA IRQHeaps ==
    ASSUME HeapInv, "race" \notin Allowed, "unqueued" \notin Allowed,
           "unlocked irq" \notin Allowed, NEW h \in Drivers, IRQ(h)
    PROVE  HeapInv'
<1>1. Idling \/ Top.at \notin Hasty
  BY DEF IRQ, Interruptible, At, Hasty
<1>2. Lacks(stack, Hasty)
  BY <1>1, NotHasty
<1>3. h \in Threads /\ h \in Contexts /\ h \notin Woken(stack) /\ h \notin Inserts(stack)
  <2>1. h \in Threads /\ h \in Contexts /\ stack \in Stacks
    BY DEF Contexts, HeapInv
  <2>2. ~BeingWoken(h)
    BY DEF IRQ, MayWake, MayMeet
  <2> QED BY <2>1, <2>2, BeingWokenIs, NotWoken
<1>4. RestTyped' /\ cpu' = cpu /\ currtask' = currtask
  BY DEF IRQ, sched, HeapInv, RestTyped
<1>5. stack \in Stacks /\ cpu \in Contexts /\ time \in [Contexts -> TIME] /\ ts \in AllStates
  BY DEF HeapInv, RestTyped, HeapsTyped
<1>6. ASSUME Push("irq end", h), NEW T \in SUBSET Threads, T \cap Woken(stack) = {}, Rearranged(T)
      PROVE  HeapInv'
  <2> DEFINE f == Frame("irq end", h)
  <2>1. f \in FrameType /\ f.at \notin Wakes /\ f.at \notin Hasty
    BY <1>3, FrameIs DEF Labels, Wakes, Hasty
  <2>2. Replaced(stack, stack', cpu, <<f>> \o stack[cpu])
    BY <1>6, StackedIs DEF Push
  <2> HIDE DEF f
  <2>3. QuietTop(stack, stack', cpu)
    BY <1>2, <1>5, <2>1, <2>2, PushQuiet
  <2>4. QuietStacks(stack, stack') /\ Parked(stack', cpu') /\ (cpu' # currtask' => Switching')
    BY <1>4, <2>3, QuietHere
  <2> QED BY <1>4, <1>6, <2>4, NotWoken, QuietStep
<1>7. CASE ts[h] = "Blocked"
  <2> DEFINE f == Frame("prioritise", h)
  <2>1. Queue(heap, h, "Running", WakeTime("Running")) /\ Push("prioritise", h)
    BY <1>7 DEF IRQ
  <2>2. heap \in Without(h)
    BY <1>7, StatesAre DEF Without
  <2>3. Rearranged({h})
    BY <1>3, <2>1, <2>2, RootsAre, QueueIs, StatesAre
  <2>4. ts'[h] = "Running"
    BY <1>3, <1>5, <2>1 DEF Queue, AllStates
  <2>5. f \in FrameType /\ f.at = "prioritise" /\ f.who = h
    BY <1>3, FrameIs DEF Labels
  <2>6. Replaced(stack, stack', cpu, <<f>> \o stack[cpu])
    BY <2>1, StackedIs DEF Push
  <2> HIDE DEF f
  <2>7. f.at \notin Wakes /\ f.at # "climb"
    BY <2>5 DEF Wakes
  <2>8. HastyTop(stack, stack', cpu, f)
    BY <1>2, <1>5, <2>5, <2>6, <2>7, PushHasty
  <2> QED BY <1>3, <1>4, <2>3, <2>4, <2>5, <2>7, <2>8, HastyStep
<1>8. CASE ts[h] = "Running"
  <2>1. Once(heap["Running"], h) /\ heap["Running"] # <<>> /\ heap["Running"] \in Seq(Threads)
    BY <1>3, <1>8, InHeap, StatesAre DEF HeapInv, HeapsTyped, AllHeaps
  <2>2. time' = [time EXCEPT ![h] = RootTime("Running")] /\ ts' = ts /\ Push("irq end", h)
    BY <1>3, <1>8, <2>1, IRQIs
  <2>3. time' \in [Contexts -> TIME]
    BY <1>5, <2>1, <2>2, RootsAre, StatesAre
  <2>4. PICK g \in Prioritise(heap["Running"], time', SlotOf(heap["Running"], h)) :
           heap' = [heap EXCEPT !["Running"] = g]
    BY <1>3, <1>8, <2>1, IRQIs
  <2>5. Shuffled(g, heap["Running"], Threads) /\ Sorted("Running", g)
    BY <1>3, <2>1, <2>4, PrioritiseIs DEF Sorted
  <2>6. Rearranged({})
    BY <2>2, <2>3, <2>4, <2>5, SortIs, StatesAre
  <2> QED BY <1>6, <2>2, <2>6
<1>9. CASE ts[h] \in {"RealTime", "Idle"}
  <2>1. Push("irq end", h) /\ UNCHANGED <<ts, time, heap>>
    BY <1>9 DEF IRQ
  <2>2. Rearranged({})
    BY <2>1, SameHeaps
  <2> QED BY <1>6, <2>1, <2>2
<1> QED BY <1>7, <1>8, <1>9 DEF IRQ

LEMMA TopIsHasty ==
    ASSUME HeapInv, NEW label \in Hasty, At(label)
    PROVE  HastyIs(Top)
<1>1. stack[cpu] # <<>> /\ Len(stack[cpu]) \in 1 .. Len(stack[cpu])
      /\ Deep(stack[cpu], Len(stack[cpu])) = Top /\ Top.at \in Hasty /\ cpu \in Contexts
  BY TopIs DEF HeapInv, RestTyped
<1>2. HastyIs(Deep(stack[cpu], Len(stack[cpu])))
  BY <1>1 DEF HeapInv, HastyKnown
<1> QED BY <1>1, <1>2

LEMMA PrioritiseUnlockedHeaps ==
    ASSUME HeapInv, PrioritiseUnlocked
    PROVE  HeapInv'
<1>1. At("prioritise") /\ "prioritise" \in Hasty
  BY DEF PrioritiseUnlocked, Hasty
<1>2. /\ Top.who \in Threads /\ ts[Top.who] = "Running" /\ Top.who \notin Inserts(stack)
      /\ Top.who \in Contexts
  BY <1>1, TopIsHasty DEF HastyIs, Contexts
<1> DEFINE f == [at |-> "climb", who |-> Top.who, slot |-> SlotOf(heap["Running"], Top.who)]
<1>3. /\ heap["Running"] # <<>>
      /\ SlotOf(heap["Running"], Top.who) \in 1 .. Len(heap["Running"])
      /\ heap["Running"][SlotOf(heap["Running"], Top.who)] = Top.who
      /\ heap["Running"] \in Seq(Threads)
  BY <1>2, InHeap, StatesAre DEF HeapInv, HeapsTyped, AllHeaps
<1>4. time' = [time EXCEPT ![Top.who] = RootTime("Running")]
      /\ Stacked(<<f>> \o Tail(stack[cpu])) /\ UNCHANGED <<ts, heap, cpu, currtask>>
  BY <1>2, UnlockedIs DEF PrioritiseUnlocked, sched
<1>5. f \in FrameType
  <2>1. SlotOf(heap["Running"], Top.who) \in Nat
    BY <1>3
  <2> QED BY <1>2, <2>1 DEF FrameType, Labels
<1>6. /\ f.at = "climb" /\ f.who = Top.who
      /\ f.slot \in 1 .. Len(heap["Running"]) /\ heap["Running"][f.slot] = f.who
  BY <1>3
<1>7. Replaced(stack, stack', cpu, <<f>> \o Tail(stack[cpu]))
  BY <1>4, StackedIs
<1> HIDE DEF f
<1>8. f.at \notin Wakes
  BY <1>6 DEF Wakes
<1>9. /\ stack \in Stacks /\ cpu \in Contexts /\ stack[cpu] # <<>> /\ OnlyOnTop(stack, Hasty, cpu)
      /\ Head(stack[cpu]).at \notin Wakes /\ Head(stack[cpu]).at # "switch"
  BY <1>1, TopIs DEF HeapInv, RestTyped, Top, Wakes
<1>10. HastyTop(stack, stack', cpu, f)
  BY <1>5, <1>7, <1>8, <1>9, TopHasty
<1>11. Rearranged({})
  <2>1. RootTime("Running") \in TIME /\ time \in [Contexts -> TIME]
    BY <1>3, RootsAre, StatesAre DEF HeapInv, HeapsTyped
  <2>2. time' \in [Contexts -> TIME]
    BY <1>4, <2>1
  <2> QED BY <1>4, <2>2 DEF Rearranged, HeapInv, HeapsTyped
<1>12. RestTyped'
  BY DEF PrioritiseUnlocked, sched, HeapInv, RestTyped
<1> QED BY <1>2, <1>4, <1>6, <1>10, <1>11, <1>12, HastyStep

LEMMA ClimbUnlockedHeaps ==
    ASSUME HeapInv, ClimbUnlocked
    PROVE  HeapInv'
<1>1. At("climb") /\ "climb" \in Hasty /\ Goto("irq end")
  BY DEF ClimbUnlocked, Hasty
<1>2. QuietTop(stack, stack', cpu)
  <2>1. /\ "irq end" \in Labels /\ "climb" \notin Wakes /\ "climb" # "switch"
        /\ "irq end" \notin Wakes /\ "irq end" \notin Hasty
    BY DEF Labels, Wakes, Hasty
  <2> QED BY <1>1, <2>1, GotoIs
<1>3. Top.slot \in 1 .. Len(heap["Running"]) /\ heap["Running"][Top.slot] = Top.who
  BY <1>1, TopIsHasty DEF HastyIs, At
<1>4. heap["Running"] \in Seq(Threads) /\ time \in [Contexts -> TIME]
  BY StatesAre DEF HeapInv, HeapsTyped, AllHeaps
<1>5. PICK g \in Climb(heap["Running"], time, Top.who, Top.slot) :
         heap' = [heap EXCEPT !["Running"] = g]
  BY DEF ClimbUnlocked
<1>6. Shuffled(g, heap["Running"], Threads) /\ Sorted("Running", g)
  BY <1>3, <1>4, <1>5, ClimbShuffles DEF Sorted
<1>7. ts' = ts /\ time' \in [Contexts -> TIME]
  BY <1>4 DEF ClimbUnlocked
<1>8. Rearranged({})
  BY <1>6, <1>7, SortIs, StatesAre
<1>9. RestTyped' /\ cpu' = cpu /\ currtask' = currtask
  BY DEF ClimbUnlocked, sched, HeapInv, RestTyped
<1>10. /\ QuietStacks(stack, stack') /\ Parked(stack', cpu')
       /\ cpu' # currtask' => Switching'
  BY <1>2, <1>9, QuietHere
<1> QED BY <1>8, <1>9, <1>10, NotWoken, QuietStep

LEMMA IrqEndHeaps ==
    ASSUME HeapInv, IrqEnd
    PROVE  HeapInv'
<1>1. /\ stack \in Stacks /\ cpu \in Contexts /\ stack[cpu] # <<>>
      /\ OnlyOnTop(stack, Hasty, cpu) /\ Head(stack[cpu]).at = "irq end"
      /\ currtask \in Contexts /\ schedLock \in BOOLEAN
  BY TopIs DEF IrqEnd, HeapInv, RestTyped, Top
<1>2. Lacks(stack, Hasty)
  <2>1. Top.at \notin Hasty
    BY <1>1 DEF Top, Hasty
  <2> QED BY <2>1, NotHasty
<1>3. Head(stack[cpu]).at \notin Wakes /\ Head(stack[cpu]).at # "switch"
  BY <1>1 DEF Wakes
<1>4. \/ Stacked(Tail(stack[cpu])) /\ schedLock' = schedLock
      \/ Stacked(<<Frame("charge", currtask)>> \o Tail(stack[cpu])) /\ schedLock' = TRUE
  BY DEF IrqEnd, TimerService, Return
<1>5. QuietTop(stack, stack', cpu)
  <2>1. CASE Stacked(Tail(stack[cpu]))
    <3>1. Replaced(stack, stack', cpu, Tail(stack[cpu]))
      BY <2>1, StackedIs
    <3> QED BY <1>1, <1>2, <1>3, <3>1, PopQuiet
  <2>2. CASE Stacked(<<Frame("charge", currtask)>> \o Tail(stack[cpu]))
    <3> DEFINE f == Frame("charge", currtask)
    <3>1. f \in FrameType /\ f.at \notin Wakes /\ f.at \notin Hasty
      BY <1>1, FrameIs DEF Labels, Wakes, Hasty
    <3>2. Replaced(stack, stack', cpu, <<f>> \o Tail(stack[cpu]))
      BY <2>2, StackedIs
    <3> HIDE DEF f
    <3> QED BY <1>1, <1>3, <3>1, <3>2, TopQuiet
  <2> QED BY <1>4, <2>1, <2>2
<1>6. Rearranged({}) /\ cpu' = cpu /\ currtask' = currtask
  BY SameHeaps DEF IrqEnd, heaps
<1>7. RestTyped'
  BY <1>1, <1>4 DEF IrqEnd, heaps, HeapInv, RestTyped
<1>8. /\ QuietStacks(stack, stack') /\ Parked(stack', cpu')
      /\ cpu' # currtask' => Switching'
  BY <1>5, <1>6, QuietHere
<1> QED BY <1>6, <1>7, <1>8, NotWoken, QuietStep
LEMMA Assembled ==
    ASSUME RestTyped', HeapsTyped', stack' \in Stacks, Placed(heap', ts', Inserts(stack')),
           Wakers(stack', ts', currtask'), Lacks(stack', Hasty), Parked(stack', cpu'),
           cpu' # currtask' => Switching'
    PROVE  HeapInv'
<1>1. OnlyOnTop(stack', Hasty, cpu') /\ HastyKnown'
  BY DEF Lacks, OnlyOnTop, HastyKnown
<1> QED BY <1>1 DEF HeapInv

LEMMA MarkedStack ==
    ASSUME NEW S \in Stacks, NEW c \in Contexts, Lacks(S, Hasty), NEW t \in Threads, NEW R,
           Replaced(S, R, c, <<Frame("mark", t)>> \o S[c]), t \notin Woken(S),
           NEW s, s[t] = "Blocked", NEW ct, t # ct, Wakers(S, s, ct)
    PROVE  /\ R \in Stacks /\ Lacks(R, Hasty) /\ NoNew(R, S, {"switch"})
           /\ \A x \in Contexts \ {c} : R[x] = S[x]
           /\ Wakers(R, s, ct) /\ Inserts(R) = Inserts(S)
<1> DEFINE f == Frame("mark", t)
           n == Len(S[c])
<1>1. f \in FrameType /\ f.at = "mark" /\ f.who = t
  BY FrameIs DEF Labels, Contexts
<1>2. n \in Nat
  BY DEF Stacks
<1>3. Replaced(S, R, c, <<f>> \o S[c])
  OBVIOUS
<1> HIDE DEF f, n
<1>4. /\ ChangedAbove(S, R, c, Len(S[c]))
      /\ Len(R[c]) = Len(S[c]) + 1 /\ Deep(R[c], Len(S[c]) + 1) = f
  BY <1>1, <1>3, PushChanges
<1>5. Wakers(R, s, ct) /\ Inserts(R) = Inserts(S)
  BY <1>1, <1>4, MarkPushed
<1>6. \A d \in n + 1 .. Len(R[c]) : Deep(R[c], d) = f
  BY <1>2, <1>4 DEF n
<1>7. \A d \in n + 1 .. Len(S[c]) : FALSE
  BY <1>2 DEF n
<1>8. ChangedAbove(S, R, c, n)
  BY <1>4 DEF n
<1>9. NoNew(S, R, Hasty)
  BY <1>1, <1>6, <1>8, NothingNew DEF Hasty
<1>10. NoNew(R, S, {"switch"})
  BY <1>7, <1>8, NothingNew
<1>11. Lacks(R, Hasty)
  BY <1>9 DEF NoNew, Lacks
<1> QED BY <1>4, <1>5, <1>10, <1>11 DEF ChangedAbove

LEMMA WakeHeaps ==
    ASSUME HeapInv, "race" \notin Allowed, "self" \notin Allowed, NEW t \in Threads, Wake(t)
    PROVE  HeapInv'
<1>1. stack \in Stacks /\ cpu \in Contexts /\ t \in Contexts
  BY DEF HeapInv, RestTyped, Contexts
<1>2. Lacks(stack, Hasty)
  BY NotHasty DEF Wake
<1>3. ts[t] = "Blocked" /\ t # currtask /\ t \notin Woken(stack)
  BY <1>1, BeingWokenIs DEF Wake, MayWake
<1>4. Replaced(stack, stack', cpu, <<Frame("mark", t)>> \o stack[cpu])
  BY StackedIs DEF Wake, Push
<1>5. UNCHANGED <<ts, time, utime, heap, currtask, cpu>> /\ RestTyped'
  BY DEF Wake, heaps, sched, HeapInv, RestTyped
<1>6. /\ stack' \in Stacks /\ Lacks(stack', Hasty) /\ NoNew(stack', stack, {"switch"})
      /\ \A x \in Contexts \ {cpu} : stack'[x] = stack[x]
      /\ Wakers(stack', ts, currtask) /\ Inserts(stack') = Inserts(stack)
  BY <1>1, <1>2, <1>3, <1>4, MarkedStack DEF HeapInv
<1>7. cpu = currtask
  <2>1. Len(stack[cpu]) = 0
    BY DEF Wake, Idling
  <2> QED BY <2>1 DEF HeapInv, Switching
<1>8. Parked(stack', cpu')
  BY <1>5, <1>6 DEF HeapInv, Parked
<1>9. HeapsTyped' /\ Placed(heap', ts', Inserts(stack')) /\ Wakers(stack', ts', currtask')
  BY <1>5, <1>6 DEF HeapInv, HeapsTyped
<1> QED BY <1>5, <1>6, <1>7, <1>8, <1>9, Assembled

LEMMA TopWakes ==
    ASSUME HeapInv, NEW label \in Wakes, At(label)
    PROVE  /\ Top.who \in Threads /\ Top.who # currtask
           /\ ts[Top.who] = IF label = "mark" THEN "Blocked" ELSE "Running"
           /\ label = "insert" => Top.who \in Inserts(stack)
<1> DEFINE n == Len(stack[cpu])
<1>1. cpu \in Contexts /\ n \in 1 .. Len(stack[cpu]) /\ Deep(stack[cpu], n) = Top /\ Top.at = label
  BY TopIs DEF HeapInv, RestTyped
<1> HIDE DEF n
<1>2. /\ Top.who \in Threads /\ Top.who # currtask
      /\ ts[Top.who] = IF label = "mark" THEN "Blocked" ELSE "Running"
  BY <1>1 DEF HeapInv, Wakers
<1> QED BY <1>1, <1>2 DEF Inserts, Contexts

LEMMA MarkHeaps ==
    ASSUME HeapInv, Mark
    PROVE  HeapInv'
<1> DEFINE t == Top.who
           f == [Top EXCEPT !.at = "insert"]
           n == Len(stack[cpu])
<1>1. /\ stack \in Stacks /\ cpu \in Contexts /\ stack[cpu] # <<>> /\ Top \in FrameType
      /\ Head(stack[cpu]) = Top /\ Top.at = "mark"
  BY TopIs DEF Mark, HeapInv, RestTyped, Top
<1>2. t \in Threads /\ t # currtask /\ ts[t] = "Blocked"
  BY TopWakes DEF Mark, Wakes
<1>3. Lacks(stack, Hasty)
  <2>1. Top.at \notin Hasty
    BY <1>1 DEF Hasty
  <2> QED BY <2>1, NotHasty
<1>4. ts' = [ts EXCEPT ![t] = "Running"] /\ UNCHANGED <<heap, utime, currtask, cpu>>
  BY DEF Mark, sched
<1>5. f \in FrameType /\ f.at = "insert" /\ f.who = t
  BY <1>1 DEF FrameType, Labels
<1>6. Replaced(stack, stack', cpu, <<f>> \o Tail(stack[cpu]))
  BY StackedIs DEF Mark, Goto
<1> HIDE DEF f, t
<1>7. /\ n \in Nat \ {0} /\ Deep(stack[cpu], n) = Top /\ Len(stack[cpu]) = n
      /\ ChangedAbove(stack, stack', cpu, n - 1)
      /\ Len(stack'[cpu]) = n /\ Deep(stack'[cpu], n) = f
  <2> HIDE DEF n
  <2>1. /\ Len(stack[cpu]) \in Nat \ {0} /\ Deep(stack[cpu], Len(stack[cpu])) = Head(stack[cpu])
        /\ ChangedAbove(stack, stack', cpu, Len(stack[cpu]) - 1)
        /\ Len(stack'[cpu]) = Len(stack[cpu]) /\ Deep(stack'[cpu], Len(stack[cpu])) = f
    BY <1>1, <1>5, <1>6, TopChanges
  <2> QED BY <1>1, <2>1 DEF n
<1>8. Deep(stack[cpu], n).who = t /\ Deep(stack[cpu], n).at = "mark"
  BY <1>1, <1>7 DEF t
<1> HIDE DEF n
<1>9. ts'[t] = "Running" /\ (\A u \in Contexts : u # t => ts'[u] = ts[u]) /\ ts' \in AllStates
  BY <1>2, <1>4, StatesAre DEF HeapInv, HeapsTyped, AllStates, Contexts
<1>10. Wakers(stack', ts', currtask) /\ Inserts(stack') = Inserts(stack) \cup {t}
  <2>1. \A u \in Threads : u # t => ts'[u] = ts[u]
    BY <1>9 DEF Contexts
  <2>2. Wakers(stack, ts, currtask)
    BY DEF HeapInv
  <2>3. /\ ChangedAbove(stack, stack', cpu, Len(stack[cpu]) - 1)
        /\ Len(stack[cpu]) \in Nat \ {0} /\ Len(stack'[cpu]) = Len(stack[cpu])
        /\ Deep(stack[cpu], Len(stack[cpu])).at = "mark" /\ Deep(stack[cpu], Len(stack[cpu])).who = t
        /\ Deep(stack'[cpu], Len(stack[cpu])).at = "insert" /\ Deep(stack'[cpu], Len(stack[cpu])).who = t
    BY <1>5, <1>7, <1>8
  <2> QED BY <1>1, <1>9, <2>1, <2>2, <2>3, MarkBecomesInsert
<1>11. Placed(heap', ts', Inserts(stack'))
  <2>1. Placed(heap, [ts EXCEPT ![t] = "Running"], Inserts(stack) \cup {t})
    BY <1>2, MarkPlaced DEF HeapInv, HeapsTyped
  <2> QED BY <1>4, <1>10, <2>1
<1>12. \A d \in n - 1 + 1 .. Len(stack'[cpu]) : Deep(stack'[cpu], d) = f
  BY <1>7
<1>13. \A d \in n - 1 + 1 .. Len(stack[cpu]) : Deep(stack[cpu], d) = Top
  BY <1>7
<1>14. NoNew(stack, stack', Hasty)
  BY <1>1, <1>5, <1>7, <1>12, NothingNew DEF Hasty
<1>15. NoNew(stack', stack, {"switch"})
  BY <1>1, <1>7, <1>13, NothingNew
<1>16. Lacks(stack', Hasty)
  BY <1>3, <1>14 DEF NoNew, Lacks
<1>17. stack' \in Stacks /\ Parked(stack', cpu')
  BY <1>4, <1>7 DEF ChangedAbove, HeapInv, Parked
<1>18. ASSUME cpu # currtask PROVE Switching'
  <2>1. PICK d \in 1 .. Len(stack[cpu]) : Deep(stack[cpu], d).at = "switch"
    BY <1>18 DEF HeapInv, Switching
  <2>2. d \in 1 .. Len(stack'[cpu]) /\ Deep(stack'[cpu], d).at = "switch"
    BY <1>1, <1>15, <2>1 DEF NoNew
  <2> QED BY <1>4, <2>2 DEF Switching
<1>19. HeapsTyped'
  <2>1. time' \in [Contexts -> TIME]
    BY RootsAre, StatesAre DEF Mark, HeapInv, HeapsTyped
  <2>2. t # IdleLoop
    BY <1>2
  <2> QED BY <1>4, <1>9, <2>1, <2>2 DEF HeapInv, HeapsTyped, Contexts, AllHeaps
<1>20. RestTyped'
  BY DEF Mark, sched, HeapInv, RestTyped
<1> QED BY <1>4, <1>10, <1>11, <1>16, <1>17, <1>18, <1>19, <1>20, Assembled

LEMMA InsertHeaps ==
    ASSUME HeapInv, Insert
    PROVE  HeapInv'
<1> DEFINE t == Top.who
           n == Len(stack[cpu])
<1>1. /\ stack \in Stacks /\ cpu \in Contexts /\ stack[cpu] # <<>>
      /\ Head(stack[cpu]) = Top /\ Top.at = "insert"
  BY TopIs DEF Insert, HeapInv, RestTyped, Top
<1>2. t \in Threads /\ t \in Inserts(stack) /\ ts[t] = "Running"
  BY TopWakes DEF Insert, Wakes
<1>3. Lacks(stack, Hasty)
  <2>1. Top.at \notin Hasty
    BY <1>1 DEF Hasty
  <2> QED BY <2>1, NotHasty
<1>4. /\ \E g \in Siftup(heap["Running"], time, t) : heap' = [heap EXCEPT !["Running"] = g]
      /\ UNCHANGED <<ts, time, utime, currtask, cpu>>
  BY DEF Insert, sched
<1>5. Replaced(stack, stack', cpu, Tail(stack[cpu]))
  BY StackedIs DEF Insert, Return
<1> HIDE DEF t
<1>6. /\ n \in Nat \ {0} /\ Deep(stack[cpu], n) = Top /\ Len(stack[cpu]) = n
      /\ ChangedAbove(stack, stack', cpu, n - 1)
      /\ Len(stack'[cpu]) = n - 1
  BY <1>1, <1>5, PopChanges
<1>7. Deep(stack[cpu], n).who = t /\ Deep(stack[cpu], n).at = "insert"
  BY <1>1, <1>6 DEF t
<1> HIDE DEF n
<1>8. NoNew(stack, stack', Wakes) /\ Inserts(stack') = Inserts(stack) \ {t}
  <2>1. Wakers(stack, ts, currtask)
    BY DEF HeapInv
  <2>2. /\ ChangedAbove(stack, stack', cpu, Len(stack[cpu]) - 1)
        /\ Len(stack[cpu]) \in Nat \ {0} /\ Len(stack'[cpu]) = Len(stack[cpu]) - 1
        /\ Deep(stack[cpu], Len(stack[cpu])).at = "insert" /\ Deep(stack[cpu], Len(stack[cpu])).who = t
    BY <1>6, <1>7
  <2> QED BY <1>1, <2>1, <2>2, InsertPopped
<1>9. PICK g \in Siftup(heap["Running"], time, t) : heap' = [heap EXCEPT !["Running"] = g]
  BY <1>4
<1>10. heap' \in AllHeaps /\ Placed(heap', ts', Inserts(stack'))
  <2>1. /\ [heap EXCEPT !["Running"] = g] \in AllHeaps
        /\ Placed([heap EXCEPT !["Running"] = g], ts, Inserts(stack) \ {t})
    BY <1>2, <1>9, InsertPlaced DEF HeapInv, HeapsTyped
  <2> QED BY <1>4, <1>8, <1>9, <2>1
<1>11. Wakers(stack', ts', currtask')
  <2>1. \A u \in Woken(stack') : ts'[u] = ts[u] /\ u # currtask'
    BY <1>4, <1>8, NotWoken, SameWakes
  <2> QED BY <1>8, <2>1, WakersKept DEF HeapInv
<1>12. \A d \in n - 1 + 1 .. Len(stack'[cpu]) : FALSE
  BY <1>6
<1>13. \A d \in n - 1 + 1 .. Len(stack[cpu]) : Deep(stack[cpu], d) = Top
  BY <1>6
<1>14. NoNew(stack, stack', Hasty)
  BY <1>1, <1>6, <1>12, NothingNew
<1>15. NoNew(stack', stack, {"switch"})
  BY <1>1, <1>6, <1>13, NothingNew
<1>16. Lacks(stack', Hasty)
  BY <1>3, <1>14 DEF NoNew, Lacks
<1>17. stack' \in Stacks /\ Parked(stack', cpu')
  BY <1>4, <1>6 DEF ChangedAbove, HeapInv, Parked
<1>18. ASSUME cpu # currtask PROVE Switching'
  <2>1. PICK d \in 1 .. Len(stack[cpu]) : Deep(stack[cpu], d).at = "switch"
    BY <1>18 DEF HeapInv, Switching
  <2>2. d \in 1 .. Len(stack'[cpu]) /\ Deep(stack'[cpu], d).at = "switch"
    BY <1>1, <1>15, <2>1 DEF NoNew
  <2> QED BY <1>4, <2>2 DEF Switching
<1>19. HeapsTyped'
  BY <1>4, <1>10 DEF HeapInv, HeapsTyped, AllHeaps, AllStates
<1>20. RestTyped'
  BY DEF Insert, Unmask, sched, HeapInv, RestTyped
<1> QED BY <1>4, <1>10, <1>11, <1>16, <1>17, <1>18, <1>19, <1>20, Assembled
LEMMA StackStays ==
    ASSUME HeapInv, Lacks(stack, Hasty), UNCHANGED <<stack, cpu, currtask>>
    PROVE  /\ QuietStacks(stack, stack') /\ Parked(stack', cpu')
           /\ cpu' # currtask' => Switching'
<1>1. QuietTop(stack, stack', cpu)
  BY SameQuiet DEF HeapInv
<1> QED BY <1>1, QuietHere

(* A context in its own code is the chosen one.                            *)
LEMMA IdlingIs ==
    ASSUME HeapInv, Idling
    PROVE  cpu = currtask /\ Lacks(stack, Hasty)
<1>1. Len(stack[cpu]) = 0
  BY DEF Idling
<1> QED BY <1>1, NotHasty DEF HeapInv, Switching

LEMMA SetThreadStateHeaps ==
    ASSUME HeapInv, "race" \notin Allowed, "unqueued" \notin Allowed,
           NEW t \in Threads, NEW state \in States, SetThreadState(t, state)
    PROVE  HeapInv'
<1>1. Idling /\ UNCHANGED <<stack, cpu, currtask>>
  BY DEF SetThreadState, sched
<1>2. /\ QuietStacks(stack, stack') /\ Parked(stack', cpu')
      /\ cpu' # currtask' => Switching'
  BY <1>1, IdlingIs, StackStays
<1>3. t \in Contexts /\ t \notin Woken(stack)
  BY NobodyMeets DEF SetThreadState, HeapInv, Contexts
<1>4. /\ \E T \in SUBSET Threads : T \cap Woken(stack) = {} /\ Rearranged(T)
      /\ utime' \in [Contexts -> TIME]
  <2>1. CASE UNCHANGED heaps
    <3>1. Rearranged({}) /\ utime' = utime
      BY <2>1, SameHeaps DEF heaps
    <3> QED BY <3>1 DEF HeapInv, RestTyped
  <2>2. CASE Block(t)
    <3>1. Rearranged({t}) /\ utime' = utime
      BY <1>3, <2>2, BlockIs DEF Block
    <3> QED BY <1>3, <3>1 DEF HeapInv, RestTyped
  <2>3. CASE /\ state # "Blocked"
             /\ \E hs \in Without(t) : LET when == WakeTime(state) IN
                    /\ Queue(hs, t, state, when)
                    /\ utime' = [utime EXCEPT ![t] = when]
    <3>1. state \in HeapTypes /\ WakeTime(state) \in TIME
      BY <2>3, StatesAre, RootsAre
    <3>2. Rearranged({t})
      BY <1>3, <2>3, <3>1, QueueIs
    <3>3. utime' \in [Contexts -> TIME]
      BY <1>3, <2>3, <3>1 DEF HeapInv, RestTyped
    <3> QED BY <1>3, <3>2, <3>3
  <2> QED BY <2>1, <2>2, <2>3 DEF SetThreadState
<1>5. RestTyped'
  BY <1>4 DEF SetThreadState, Unmask, sched, HeapInv, RestTyped
<1> QED BY <1>1, <1>2, <1>4, <1>5, NotWoken, QuietStep

LEMMA SetDeadlineHeaps ==
    ASSUME HeapInv, NEW d \in Deadlines, SetDeadline(d)
    PROVE  HeapInv'
<1>1. Idling /\ UNCHANGED <<stack, cpu, currtask>>
  BY DEF SetDeadline, sched, proc
<1>2. /\ QuietStacks(stack, stack') /\ Parked(stack', cpu')
      /\ cpu' # currtask' => Switching'
  BY <1>1, IdlingIs, StackStays
<1>3. Rearranged({})
  BY SameHeaps DEF SetDeadline
<1>4. d \in TIME
  OBVIOUS
<1>5. RestTyped'
  BY <1>4 DEF SetDeadline, sched, proc, HeapInv, RestTyped, Contexts
<1> QED BY <1>1, <1>2, <1>3, <1>5, NotWoken, QuietStep

LEMMA TunnelConservativeHeaps ==
    ASSUME HeapInv, TunnelConservative
    PROVE  HeapInv'
<1>1. Idling /\ UNCHANGED <<stack, cpu, currtask>>
  BY DEF TunnelConservative
<1>2. /\ QuietStacks(stack, stack') /\ Parked(stack', cpu')
      /\ cpu' # currtask' => Switching'
  BY <1>1, IdlingIs, StackStays
<1>3. Rearranged({})
  BY SameHeaps DEF TunnelConservative, heaps
<1>4. RestTyped'
  BY DEF TunnelConservative, heaps, HeapInv, RestTyped
<1> QED BY <1>1, <1>2, <1>3, <1>4, NotWoken, QuietStep

(* CKthreadTunnel calls the scheduler.                                      *)
LEMMA ScheduleKeeps ==
    ASSUME NEW S \in Stacks, NEW c \in Contexts, S[c] = <<>>,
           NEW R, Replaced(S, R, c, <<Frame("charge", c), Frame("tunnel", c)>>), NEW L
    PROVE  /\ R \in Stacks /\ NoNew(R, S, L)
           /\ "charge" \notin L /\ "tunnel" \notin L => NoNew(S, R, L)
           /\ \A x \in Contexts \ {c} : R[x] = S[x]
<1> DEFINE f == Frame("charge", c)
           g == Frame("tunnel", c)
<1>1. /\ f \in FrameType /\ f.at = "charge" /\ g \in FrameType /\ g.at = "tunnel"
  <2>1. "charge" \in Labels /\ "tunnel" \in Labels
    BY DEF Labels
  <2>2. f \in FrameType /\ f.at = "charge"
    BY <2>1, FrameIs
  <2>3. g \in FrameType /\ g.at = "tunnel"
    BY <2>1, FrameIs
  <2> QED BY <2>2, <2>3
<1> HIDE DEF f, g
<1>2. R[c] = <<f, g>> /\ (\A x \in Contexts : x # c => R[x] = S[x]) /\ R \in Stacks
  BY <1>1 DEF Replaced, Stacks, f, g
<1>3. Len(R[c]) = 2 /\ Len(S[c]) = 0
  BY <1>2
<1>4. ChangedAbove(S, R, c, 0)
  BY <1>2, <1>3 DEF ChangedAbove
<1>5. \A d \in 0 + 1 .. Len(R[c]) : Deep(R[c], d) \in {f, g}
  <2>1. Deep(R[c], 1) = g /\ Deep(R[c], 2) = f
    BY <1>2, <1>3 DEF Deep
  <2> QED BY <1>3, <2>1
<1>6. \A d \in 0 + 1 .. Len(S[c]) : FALSE
  BY <1>3
<1>7. NoNew(R, S, L)
  BY <1>4, <1>6, NothingNew
<1>8. ASSUME "charge" \notin L, "tunnel" \notin L PROVE NoNew(S, R, L)
  <2>1. \A d \in 0 + 1 .. Len(R[c]) : Deep(R[c], d).at \notin L
    BY <1>1, <1>5, <1>8
  <2> QED BY <1>4, <2>1, NothingNew
<1> QED BY <1>2, <1>7, <1>8

LEMMA ScheduleCalled ==
    ASSUME NEW S \in Stacks, NEW c \in Contexts, S[c] = <<>>, Lacks(S, Hasty),
           NEW R, Replaced(S, R, c, <<Frame("charge", c), Frame("tunnel", c)>>)
    PROVE  QuietTop(S, R, c)
<1>1. /\ "charge" \notin Wakes /\ "tunnel" \notin Wakes
      /\ "charge" \notin Hasty /\ "tunnel" \notin Hasty
  BY DEF Wakes, Hasty
<1>2. /\ R \in Stacks /\ NoNew(S, R, Wakes) /\ NoNew(R, S, Wakes)
      /\ \A x \in Contexts \ {c} : R[x] = S[x]
  BY <1>1, ScheduleKeeps
<1>3. NoNew(R, S, {"switch"}) /\ NoNew(S, R, Hasty)
  BY <1>1, ScheduleKeeps
<1>4. Lacks(R, Hasty)
  BY <1>3 DEF NoNew, Lacks
<1> QED BY <1>2, <1>3, <1>4 DEF QuietTop, QuietStacks

LEMMA TunnelUnblockingHeaps ==
    ASSUME HeapInv, "race" \notin Allowed, "self" \notin Allowed, NEW t \in Threads, TunnelUnblocking(t)
    PROVE  HeapInv'
<1> DEFINE schedule == <<Frame("charge", cpu), Frame("tunnel", cpu)>>
           mid      == [stack EXCEPT ![cpu] = schedule]
<1>1. /\ stack \in Stacks /\ cpu \in Contexts /\ t \in Contexts /\ stack[cpu] = <<>>
      /\ cpu = currtask /\ Lacks(stack, Hasty)
  BY IdlingIs DEF TunnelUnblocking, HeapInv, RestTyped, Contexts, Idling
<1>2. t # currtask /\ t \notin Woken(stack)
  BY <1>1, BeingWokenIs DEF TunnelUnblocking, MayWake
<1>3. UNCHANGED <<ts, time, utime, heap, currtask, cpu>> /\ RestTyped' /\ Rearranged({})
  BY SameHeaps DEF TunnelUnblocking, heaps, sched, HeapInv, RestTyped
<1>4. Replaced(stack, mid, cpu, <<Frame("charge", cpu), Frame("tunnel", cpu)>>) /\ mid[cpu] = schedule
  BY <1>1 DEF Replaced, Stacks
<1>5. Stacked(IF ts[t] = "Blocked" THEN <<Frame("mark", t)>> \o schedule ELSE schedule)
  BY DEF TunnelUnblocking
<1> HIDE DEF schedule
<1>6. /\ ts[t] # "Blocked" => stack' = mid
      /\ ts[t] = "Blocked" => Replaced(mid, stack', cpu, <<Frame("mark", t)>> \o mid[cpu])
  BY <1>1, <1>4, <1>5 DEF Stacked, Replaced, Stacks
<1> HIDE DEF mid
<1>7. QuietTop(stack, mid, cpu)
  BY <1>1, <1>4, ScheduleCalled
<1>8. CASE ts[t] # "Blocked"
  <2>1. QuietTop(stack, stack', cpu)
    BY <1>6, <1>7, <1>8
  <2>2. QuietStacks(stack, stack') /\ Parked(stack', cpu') /\ (cpu' # currtask' => Switching')
    BY <1>3, <2>1, QuietHere
  <2> QED BY <1>3, <2>2, NotWoken, QuietStep
<1>9. CASE ts[t] = "Blocked"
  <2>1. Woken(mid) = Woken(stack) /\ Inserts(mid) = Inserts(stack)
    BY <1>7, SameWakes DEF QuietTop, QuietStacks
  <2>2. Wakers(mid, ts, currtask)
    <3>1. \A u \in Woken(mid) : ts[u] = ts[u] /\ u # currtask
      BY <2>1, NotWoken
    <3> QED BY <1>7, <3>1, WakersKept DEF QuietTop, QuietStacks, HeapInv
  <2>3. mid \in Stacks /\ Lacks(mid, Hasty)
    BY <1>7 DEF QuietTop, QuietStacks
  <2>4. Replaced(mid, stack', cpu, <<Frame("mark", t)>> \o mid[cpu])
    BY <1>6, <1>9
  <2>5. /\ stack' \in Stacks /\ Lacks(stack', Hasty)
        /\ \A x \in Contexts \ {cpu} : stack'[x] = mid[x]
        /\ Wakers(stack', ts, currtask) /\ Inserts(stack') = Inserts(mid)
    BY <1>1, <1>2, <1>9, <2>1, <2>2, <2>3, <2>4, MarkedStack
  <2>6. Parked(stack', cpu')
    BY <1>3, <1>7, <2>5 DEF QuietTop, HeapInv, Parked
  <2>7. HeapsTyped' /\ Placed(heap', ts', Inserts(stack')) /\ Wakers(stack', ts', currtask')
    BY <1>3, <2>1, <2>5 DEF HeapInv, HeapsTyped
  <2> QED BY <1>1, <1>3, <2>5, <2>6, <2>7, Assembled
<1> QED BY <1>8, <1>9
LEMMA TunnelSwappingHeaps ==
    ASSUME HeapInv, "race" \notin Allowed, "self" \notin Allowed, NEW t \in Threads, TunnelSwapping(t)
    PROVE  HeapInv'
<1> DEFINE mid == [ts EXCEPT ![cpu] = "Blocked"]
<1>1. /\ stack \in Stacks /\ cpu \in Contexts /\ t \in Contexts /\ stack[cpu] = <<>>
      /\ cpu = currtask /\ Lacks(stack, Hasty)
  BY IdlingIs DEF TunnelSwapping, HeapInv, RestTyped, Contexts, Idling
<1>2. /\ t # cpu /\ t \notin Woken(stack) /\ t \notin Inserts(stack)
      /\ cpu \in Threads /\ cpu \notin Woken(stack) /\ cpu \notin Inserts(stack)
  <2>1. ~BeingWoken(t) /\ t # cpu /\ cpu # IdleLoop
    BY DEF TunnelSwapping, MayWake
  <2> QED BY <1>1, <2>1, BeingWokenIs, NotWoken DEF Contexts
<1>3. QuietTop(stack, stack', cpu)
  <2>1. Replaced(stack, stack', cpu, <<Frame("charge", cpu), Frame("tunnel", cpu)>>)
    BY StackedIs DEF TunnelSwapping
  <2> QED BY <1>1, <2>1, ScheduleCalled
<1>4. heap \in AllHeaps /\ ts \in AllStates /\ time \in [Contexts -> TIME]
      /\ Placed(heap, ts, Inserts(stack))
  BY DEF HeapInv, HeapsTyped
<1>5. mid \in AllStates /\ mid[cpu] = "Blocked" /\ \A u \in Contexts : u # cpu => mid[u] = ts[u]
  BY <1>1, <1>4, StatesAre DEF AllStates
<1> DEFINE Restable(hs) == IF ts[t] = "Blocked" THEN {hs}
                           ELSE { [hs EXCEPT ![ts[t]] = h] :
                                    h \in RemoveEvent(hs[ts[t]], time, SlotOf(hs[ts[t]], t)) }
           Timed(rest)  == [time EXCEPT ![t] = IF rest["Running"] = <<>> THEN 0
                                               ELSE time[Head(rest["Running"])]]
<1>6. PICK hs \in Without(cpu) :
         IF ts[t] = "Running"
         THEN /\ ts' = mid
              /\ heap' = hs
              /\ UNCHANGED time
         ELSE \E rest \in Restable(hs) :
              /\ time' = Timed(rest)
              /\ ts' = [ts EXCEPT ![cpu] = "Blocked", ![t] = "Running"]
              /\ \E h \in Siftup(rest["Running"], Timed(rest), t) :
                     heap' = [rest EXCEPT !["Running"] = h]
  BY DEF TunnelSwapping
<1>7. hs \in AllHeaps /\ Placed(hs, mid, Inserts(stack))
  BY <1>2, <1>4, WithoutPlaced
<1>10. /\ RestTyped' /\ QuietStacks(stack, stack') /\ currtask' \notin Woken(stack)
       /\ Parked(stack', cpu') /\ (cpu' # currtask' => Switching')
  <2>1. UNCHANGED <<cpu, currtask, utime, lasttime, doingRealtime, schedLock, timer, asked>>
    BY DEF TunnelSwapping, sched
  <2>2. masked' \subseteq masked
    BY DEF TunnelSwapping, Unmask
  <2>3. RestTyped'
    BY <2>1, <2>2 DEF HeapInv, RestTyped
  <2> QED BY <1>3, <2>1, <2>3, QuietHere, NotWoken
<1>8. CASE ts[t] = "Running"
  <2>1. Rearranged({cpu})
    BY <1>4, <1>5, <1>6, <1>7, <1>8 DEF Rearranged
  <2>2. {cpu} \in SUBSET Threads /\ {cpu} \cap Woken(stack) = {}
    BY <1>2
  <2> QED BY <1>10, <2>1, <2>2, QuietStep
<1>9. CASE ts[t] # "Running"
  <2> DEFINE mid2 == [mid EXCEPT ![t] = "Blocked"]
  <2>1. PICK rest \in Restable(hs) :
              /\ time' = Timed(rest)
              /\ ts' = [ts EXCEPT ![cpu] = "Blocked", ![t] = "Running"]
              /\ \E h \in Siftup(rest["Running"], Timed(rest), t) :
                     heap' = [rest EXCEPT !["Running"] = h]
    BY <1>6, <1>9
  <2> HIDE DEF mid, Timed
  <2>2. /\ mid2 \in AllStates /\ mid2[t] = "Blocked"
    BY <1>1, <1>5, StatesAre DEF AllStates
  <2>3. ts' = [mid2 EXCEPT ![t] = "Running"]
    BY <1>1, <1>2, <1>4, <2>1 DEF mid, AllStates
  <2>4. rest \in AllHeaps /\ Placed(rest, mid2, Inserts(stack))
    <3>1. mid[t] = ts[t]
      BY <1>1, <1>2, <1>5
    <3>2. CASE ts[t] = "Blocked"
      <4>1. rest = hs /\ mid2 = mid
        BY <1>5, <3>1, <3>2 DEF AllStates
      <4> QED BY <1>7, <4>1
    <3>3. CASE ts[t] # "Blocked"
      <4>1. PICK h \in RemoveEvent(hs[mid[t]], time, SlotOf(hs[mid[t]], t)) :
               rest = [hs EXCEPT ![mid[t]] = h]
        BY <3>1, <3>3
      <4>2. mid[t] \in HeapTypes
        BY <1>1, <1>4, <3>1, <3>3, StatesAre DEF AllStates
      <4> QED BY <1>2, <1>5, <1>7, <4>1, <4>2, RemovePlaced
    <3> QED BY <3>2, <3>3
  <2> HIDE DEF mid2, Restable
  <2>5. PICK h \in Siftup(rest["Running"], Timed(rest), t) : heap' = [rest EXCEPT !["Running"] = h]
    BY <2>1
  <2>6. /\ [rest EXCEPT !["Running"] = h] \in AllHeaps
        /\ Placed([rest EXCEPT !["Running"] = h], [mid2 EXCEPT ![t] = "Running"], Inserts(stack))
    BY <1>2, <2>2, <2>4, <2>5, QueuePlaced, StatesAre
  <2>7. heap' \in AllHeaps /\ Placed(heap', ts', Inserts(stack))
    BY <2>3, <2>5, <2>6
  <2>8. time' \in [Contexts -> TIME]
    <3>1. rest["Running"] \in Seq(Threads)
      BY <2>4, StatesAre DEF AllHeaps
    <3>2. rest["Running"] # <<>> => Head(rest["Running"]) \in Contexts
      BY <3>1 DEF Contexts
    <3>3. Timed(rest) \in [Contexts -> TIME]
      BY <1>4, <3>2, TimesAre DEF Timed
    <3> QED BY <2>1, <3>3
  <2>9. ts' \in AllStates /\ \A u \in Contexts \ {t, cpu} : ts'[u] = ts[u]
    BY <1>4, <2>1, StatesAre DEF AllStates
  <2>10. Rearranged({t, cpu})
    BY <2>7, <2>8, <2>9 DEF Rearranged
  <2>11. {t, cpu} \in SUBSET Threads /\ {t, cpu} \cap Woken(stack) = {}
    BY <1>2
  <2> QED BY <1>10, <2>10, <2>11, QuietStep
<1> QED BY <1>8, <1>9

LEMMA HeapNext ==
    ASSUME HeapInv, "race" \notin Allowed, "unqueued" \notin Allowed,
           "self" \notin Allowed, "unlocked irq" \notin Allowed,
           [Next]_vars
    PROVE  HeapInv'
<1>1. CASE KernelStep
  BY <1>1, ChargeHeaps, FlushHeaps, PickHeaps, SwitchHeaps, PrioritiseUnlockedHeaps,
     ClimbUnlockedHeaps, IrqEndHeaps, MarkHeaps, InsertHeaps DEF KernelStep
<1>2. CASE SystemCall
  <2>1. CASE QuantumDone \/ TunnelConservative
    BY <2>1, QuantumDoneHeaps, TunnelConservativeHeaps
  <2>2. ASSUME NEW t \in Threads, Wake(t) \/ TunnelSwapping(t) \/ TunnelUnblocking(t)
        PROVE  HeapInv'
    BY <2>2, WakeHeaps, TunnelSwappingHeaps, TunnelUnblockingHeaps
  <2>3. ASSUME NEW t \in Threads, NEW state \in States, SetThreadState(t, state)
        PROVE  HeapInv'
    BY <2>3, SetThreadStateHeaps
  <2>4. ASSUME NEW d \in Deadlines, SetDeadline(d)
        PROVE  HeapInv'
    BY <2>4, SetDeadlineHeaps
  <2> QED BY <1>2, <2>1, <2>2, <2>3, <2>4 DEF SystemCall
<1>3. CASE Timer
  BY <1>3, TimerHeaps
<1>4. CASE \E h \in Drivers : IRQ(h)
  BY <1>4, IRQHeaps
<1>5. CASE UNCHANGED vars
  <2>1. UNCHANGED <<ts, time, utime, heap, currtask, lasttime, doingRealtime, schedLock,
                    timer, cpu, stack, masked, asked>>
    BY <1>5 DEF vars, heaps, sched, proc
  <2> QED BY <2>1 DEF HeapInv, RestTyped, HeapsTyped, HastyKnown, HastyIs, Switching
<1> QED BY <1>1, <1>2, <1>3, <1>4, <1>5 DEF Next

(* In CKblockThread, CKflushPrevTask, CKsetThreadState and CKthreadTunnel a *)
(* thread is taken out of the heap that its state names, at the slot that   *)
(* the heap has recorded: it is there, once and in no other heap, however   *)
(* interrupts and system calls interleave, unless a thread is woken twice   *)
(* at a time, or by itself, or an interrupt or CKsetThreadState takes it    *)
(* for queued when it is marked runnable only (kernel.c, 650; sched.c,      *)
(* 704), or an IRQ handler that dropped CKlock early is interrupted.       *)
THEOREM ThreadsAreQueued ==
    ASSUME "race" \notin Allowed, "unqueued" \notin Allowed,
           "self" \notin Allowed, "unlocked irq" \notin Allowed
    PROVE  Spec => []InItsHeap
<1>1. Init => HeapInv
  BY HeapInit
<1>2. HeapInv /\ [Next]_vars => HeapInv'
  BY HeapNext
<1>3. HeapInv => InItsHeap
  BY PlacedIsInItsHeap
<1> QED BY <1>1, <1>2, <1>3, PTL DEF Spec
-----------------------------------------------------------------------------
(* At most one context is inside the scheduler.  While CKthreadTunnel,      *)
(* which calls CKschedule without the lock, is not used: the running        *)
(* context has one frame in the scheduler if the lock is taken and none     *)
(* otherwise; every other context has left it in CKcontextSwitch.          *)
InSched == {"charge", "flush", "pick", "switch"}
Odd     == InSched \cup {"away", "tunnel"}

Calm(S, c) == \A d \in 1 .. Len(S[c]) : Deep(S[c], d).at \notin Odd

Busy(S, c) ==
    \E d \in 1 .. Len(S[c]) :
        /\ Deep(S[c], d).at \in InSched
        /\ \A e \in 1 .. Len(S[c]) : e # d => Deep(S[c], e).at \notin Odd

Gone(S, c) ==
    \A x \in Contexts \ {c} : \A d \in 1 .. Len(S[x]) :
        d # Len(S[x]) => Deep(S[x], d).at \notin Odd

StacksAre ==
    /\ IF schedLock THEN Busy(stack, cpu) ELSE Calm(stack, cpu) /\ cpu = currtask
    /\ Gone(stack, cpu)
    /\ masked = {}

(* An interrupt of the timer leads to a new quantum.                       *)
Due(S, c) == \E d \in 1 .. Len(S[c]) : Deep(S[c], d).at \in {"charge", "flush", "pick"}

TimerIs == timer = "off" => Due(stack, cpu)

LEMMA InSchedulerIs ==
    ASSUME HeapInv, StacksAre
    PROVE  OneScheduler
<1>1. \A x \in Contexts : stack[x] \in Seq(FrameType)
  BY DEF HeapInv, Stacks
<1>2. ASSUME NEW x \in Contexts
      PROVE  x \in InScheduler <=> \E d \in 1 .. Len(stack[x]) : Deep(stack[x], d).at \in InSched
  <2> DEFINE n == Len(stack[x])
  <2>1. n \in Nat
    BY <1>1
  <2>2. x \in InScheduler <=> \E i \in 1 .. n : stack[x][i].at \in InSched
    BY DEF InScheduler, InSched
  <2> HIDE DEF n
  <2>3. ASSUME NEW i \in 1 .. n PROVE \E d \in 1 .. n : n + 1 - d = i
    <3>1. PICK d \in 1 .. n : d = n + 1 - i
      BY <2>1
    <3> QED BY <2>1, <3>1
  <2>4. \A d \in 1 .. n : n + 1 - d \in 1 .. n
    BY <2>1
  <2> QED BY <2>2, <2>3, <2>4 DEF Deep, n
<1>3. ASSUME NEW x \in Contexts \ {cpu} PROVE x \notin InScheduler
  <2>1. ASSUME NEW d \in 1 .. Len(stack[x]) PROVE Deep(stack[x], d).at \notin InSched
    <3>1. CASE d = Len(stack[x])
      <4>1. stack[x] # <<>>
        BY <1>1
      <4>2. Deep(stack[x], d).at = "away"
        BY <3>1, <4>1 DEF HeapInv, Parked
      <4> QED BY <4>2 DEF InSched
    <3>2. CASE d # Len(stack[x])
      BY <3>2 DEF StacksAre, Gone, Odd
    <3> QED BY <3>1, <3>2
  <2> QED BY <1>2, <2>1
<1>4. cpu \in Contexts /\ InScheduler \subseteq Contexts
  BY DEF HeapInv, RestTyped, InScheduler
<1>5. cpu \in InScheduler <=> schedLock
  BY <1>2, <1>4 DEF StacksAre, Busy, Calm, Odd
<1> QED BY <1>3, <1>4, <1>5 DEF OneScheduler, StacksAre

(* Steps that neither enter nor leave the scheduler.                       *)
SameOdd(S, R, c) ==
    /\ NoNew(S, R, Odd) /\ NoNew(R, S, Odd)
    /\ \A x \in Contexts \ {c} : R[x] = S[x]

LEMMA PushPlain ==
    ASSUME NEW S \in Stacks, NEW c \in Contexts, NEW f \in FrameType,
           NEW R, Replaced(S, R, c, <<f>> \o S[c]), f.at \notin Odd
    PROVE  SameOdd(S, R, c)
<1> DEFINE n == Len(S[c])
<1>1. n \in Nat /\ ChangedAbove(S, R, c, n) /\ Len(R[c]) = n + 1 /\ Deep(R[c], n + 1) = f
  <2>1. n \in Nat
    BY DEF Stacks
  <2> HIDE DEF n
  <2>2. /\ ChangedAbove(S, R, c, Len(S[c]))
        /\ Len(R[c]) = Len(S[c]) + 1 /\ Deep(R[c], Len(S[c]) + 1) = f
    BY PushChanges
  <2> QED BY <2>1, <2>2 DEF n
<1>2. n = Len(S[c])
  OBVIOUS
<1> HIDE DEF n
<1>3. \A d \in n + 1 .. Len(R[c]) : Deep(R[c], d) = f
  BY <1>1
<1>4. \A d \in n + 1 .. Len(S[c]) : FALSE
  BY <1>1, <1>2
<1>5. NoNew(S, R, Odd) /\ NoNew(R, S, Odd)
  BY <1>1, <1>3, <1>4, NothingNew
<1> QED BY <1>1, <1>5 DEF SameOdd, ChangedAbove

LEMMA TopPlain ==
    ASSUME NEW S \in Stacks, NEW c \in Contexts, S[c] # <<>>, NEW f \in FrameType,
           NEW R, Replaced(S, R, c, <<f>> \o Tail(S[c])),
           Head(S[c]).at \notin Odd, f.at \notin Odd
    PROVE  SameOdd(S, R, c)
<1> DEFINE n == Len(S[c])
<1>1. /\ n \in Nat \ {0} /\ Deep(S[c], n) = Head(S[c])
      /\ ChangedAbove(S, R, c, n - 1)
      /\ Len(R[c]) = n /\ Deep(R[c], n) = f
  BY TopChanges
<1>2. n = Len(S[c])
  OBVIOUS
<1> HIDE DEF n
<1>3. \A d \in n - 1 + 1 .. Len(R[c]) : Deep(R[c], d) = f
  BY <1>1
<1>4. \A d \in n - 1 + 1 .. Len(S[c]) : Deep(S[c], d) = Head(S[c])
  BY <1>1, <1>2
<1>5. NoNew(S, R, Odd)
  BY <1>1, <1>3, NothingNew
<1>6. NoNew(R, S, Odd)
  BY <1>1, <1>4, NothingNew
<1> QED BY <1>1, <1>5, <1>6 DEF SameOdd, ChangedAbove

LEMMA PopPlain ==
    ASSUME NEW S \in Stacks, NEW c \in Contexts, S[c] # <<>>,
           NEW R, Replaced(S, R, c, Tail(S[c])), Head(S[c]).at \notin Odd
    PROVE  SameOdd(S, R, c)
<1> DEFINE n == Len(S[c])
<1>1. /\ n \in Nat \ {0} /\ Deep(S[c], n) = Head(S[c])
      /\ ChangedAbove(S, R, c, n - 1)
      /\ Len(R[c]) = n - 1
  BY PopChanges
<1>2. n = Len(S[c])
  OBVIOUS
<1> HIDE DEF n
<1>3. \A d \in n - 1 + 1 .. Len(R[c]) : FALSE
  BY <1>1
<1>4. \A d \in n - 1 + 1 .. Len(S[c]) : Deep(S[c], d) = Head(S[c])
  BY <1>1, <1>2
<1>5. NoNew(S, R, Odd)
  BY <1>1, <1>3, NothingNew
<1>6. NoNew(R, S, Odd)
  BY <1>1, <1>4, NothingNew
<1> QED BY <1>1, <1>5, <1>6 DEF SameOdd, ChangedAbove

LEMMA PlainStep ==
    ASSUME HeapInv, StacksAre, SameOdd(stack, stack', cpu),
           UNCHANGED <<schedLock, cpu, currtask, timer>>, masked' = {}
    PROVE  StacksAre' /\ (TimerIs => TimerIs')
<1>1. cpu \in Contexts
  BY DEF HeapInv, RestTyped
<1>2. ASSUME NEW d \in 1 .. Len(stack'[cpu]), Deep(stack'[cpu], d).at \in Odd
      PROVE  d \in 1 .. Len(stack[cpu]) /\ Deep(stack'[cpu], d) = Deep(stack[cpu], d)
  BY <1>1, <1>2 DEF SameOdd, NoNew
<1>3. ASSUME NEW d \in 1 .. Len(stack[cpu]), Deep(stack[cpu], d).at \in Odd
      PROVE  d \in 1 .. Len(stack'[cpu]) /\ Deep(stack'[cpu], d) = Deep(stack[cpu], d)
  BY <1>1, <1>3 DEF SameOdd, NoNew
<1>4. Calm(stack, cpu) => Calm(stack', cpu)
  BY <1>2 DEF Calm
<1>5. Busy(stack, cpu) => Busy(stack', cpu)
  <2> SUFFICES ASSUME Busy(stack, cpu) PROVE Busy(stack', cpu)
    OBVIOUS
  <2>1. PICK d \in 1 .. Len(stack[cpu]) :
           /\ Deep(stack[cpu], d).at \in InSched
           /\ \A e \in 1 .. Len(stack[cpu]) : e # d => Deep(stack[cpu], e).at \notin Odd
    BY DEF Busy
  <2>2. d \in 1 .. Len(stack'[cpu]) /\ Deep(stack'[cpu], d).at \in InSched
    BY <1>3, <2>1 DEF Odd
  <2>3. \A e \in 1 .. Len(stack'[cpu]) : e # d => Deep(stack'[cpu], e).at \notin Odd
    BY <1>2, <2>1
  <2> QED BY <2>2, <2>3 DEF Busy
<1>6. Gone(stack', cpu)
  BY DEF StacksAre, Gone, SameOdd
<1>7. Due(stack, cpu) => Due(stack', cpu)
  BY <1>3 DEF Due, Odd, InSched
<1>8. StacksAre'
  BY <1>4, <1>5, <1>6 DEF StacksAre
<1>9. TimerIs => TimerIs'
  BY <1>7 DEF TimerIs
<1> QED BY <1>8, <1>9
(* Steps that enter the scheduler and go on in it.                         *)
LEMMA Entered ==
    ASSUME NEW S \in Stacks, NEW c \in Contexts, NEW R, NEW n, ChangedAbove(S, R, c, n),
           Len(R[c]) = n + 1, Deep(R[c], n + 1).at \in InSched,
           \A d \in 1 .. n : Deep(S[c], d).at \notin Odd
    PROVE  Busy(R, c) /\ (Deep(R[c], n + 1).at # "switch" => Due(R, c))
<1>1. n \in Nat /\ \A d \in 1 .. n : Deep(R[c], d) = Deep(S[c], d)
  BY DEF ChangedAbove
<1>2. n + 1 \in 1 .. Len(R[c]) /\ \A d \in 1 .. Len(R[c]) : d # n + 1 => d \in 1 .. n
  BY <1>1
<1>3. \A e \in 1 .. Len(R[c]) : e # n + 1 => Deep(R[c], e).at \notin Odd
  BY <1>1, <1>2
<1>4. Busy(R, c)
  BY <1>2, <1>3 DEF Busy
<1>5. Deep(R[c], n + 1).at # "switch" => Due(R, c)
  BY <1>2 DEF Due, InSched
<1> QED BY <1>4, <1>5

LEMMA GoneStays ==
    ASSUME HeapInv, StacksAre, NEW n, ChangedAbove(stack, stack', cpu, n)
    PROVE  Gone(stack', cpu)
BY DEF StacksAre, Gone, ChangedAbove

LEMMA TopInSched ==
    ASSUME HeapInv, StacksAre, NEW from \in InSched, At(from)
    PROVE  schedLock /\ \A d \in 1 .. Len(stack[cpu]) - 1 : Deep(stack[cpu], d).at \notin Odd
<1> DEFINE n == Len(stack[cpu])
<1>1. n \in Nat \ {0} /\ Deep(stack[cpu], n).at = from
  BY TopIs
<1>2. n \in 1 .. Len(stack[cpu])
  BY <1>1
<1>3. schedLock
  BY <1>1, <1>2 DEF StacksAre, Calm, Odd
<1>4. PICK d \in 1 .. Len(stack[cpu]) :
         /\ Deep(stack[cpu], d).at \in InSched
         /\ \A e \in 1 .. Len(stack[cpu]) : e # d => Deep(stack[cpu], e).at \notin Odd
  BY <1>3 DEF StacksAre, Busy
<1>5. d = n
  BY <1>1, <1>2, <1>4 DEF Odd
<1>6. \A e \in 1 .. n - 1 : e \in 1 .. n /\ e # n
  BY <1>1
<1> QED BY <1>3, <1>4, <1>5, <1>6

LEMMA GoneOn ==
    ASSUME HeapInv, StacksAre, NEW from \in InSched, At(from), NEW label \in InSched, Goto(label),
           UNCHANGED <<schedLock, cpu, masked>>
    PROVE  StacksAre' /\ (label # "switch" => Due(stack', cpu))
<1> DEFINE f == [Top EXCEPT !.at = label]
           n == Len(stack[cpu])
<1>1. stack \in Stacks /\ cpu \in Contexts /\ stack[cpu] # <<>> /\ Top \in FrameType
  BY TopIs DEF HeapInv, RestTyped
<1>2. f \in FrameType /\ f.at = label
  BY <1>1 DEF FrameType, Labels, InSched
<1>3. Replaced(stack, stack', cpu, <<f>> \o Tail(stack[cpu]))
  BY StackedIs DEF Goto
<1>4. schedLock /\ \A d \in 1 .. n - 1 : Deep(stack[cpu], d).at \notin Odd
  BY TopInSched
<1> HIDE DEF f
<1>5. /\ n \in Nat \ {0} /\ ChangedAbove(stack, stack', cpu, n - 1)
      /\ Len(stack'[cpu]) = n /\ Deep(stack'[cpu], n) = f
  <2> HIDE DEF n
  <2>1. /\ Len(stack[cpu]) \in Nat \ {0}
        /\ ChangedAbove(stack, stack', cpu, Len(stack[cpu]) - 1)
        /\ Len(stack'[cpu]) = Len(stack[cpu]) /\ Deep(stack'[cpu], Len(stack[cpu])) = f
    BY <1>1, <1>2, <1>3, TopChanges
  <2> QED BY <2>1 DEF n
<1> HIDE DEF n
<1>6. n - 1 + 1 = n
  BY <1>5
<1>7. Busy(stack', cpu) /\ (label # "switch" => Due(stack', cpu))
  <2> DEFINE m == n - 1
  <2>1. /\ ChangedAbove(stack, stack', cpu, m) /\ Len(stack'[cpu]) = m + 1
        /\ Deep(stack'[cpu], m + 1) = f /\ \A d \in 1 .. m : Deep(stack[cpu], d).at \notin Odd
    BY <1>4, <1>5, <1>6
  <2> HIDE DEF m
  <2>2. Deep(stack'[cpu], m + 1).at = label
    BY <1>2, <2>1
  <2> QED BY <1>1, <2>1, <2>2, Entered
<1>8. Gone(stack', cpu)
  BY <1>5, GoneStays
<1> QED BY <1>4, <1>7, <1>8 DEF StacksAre

LEMMA ServiceEnters ==
    ASSUME HeapInv, StacksAre, TimerService(stack[cpu]), UNCHANGED <<cpu, currtask, masked>>
    PROVE  /\ StacksAre'
           /\ ~schedLock \/ Due(stack, cpu) => Due(stack', cpu)
<1>1. stack \in Stacks /\ cpu \in Contexts /\ currtask \in Contexts
  BY DEF HeapInv, RestTyped
<1>2. CASE schedLock
  <2>1. stack' = stack /\ schedLock' = schedLock
    BY <1>1, <1>2 DEF TimerService, Stacked, Stacks
  <2> QED BY <1>2, <2>1 DEF StacksAre
<1>3. CASE ~schedLock
  <2> DEFINE f == Frame("charge", currtask)
             n == Len(stack[cpu])
  <2>1. f \in FrameType /\ f.at = "charge"
    <3>1. "charge" \in Labels
      BY DEF Labels
    <3> QED BY <1>1, <3>1, FrameIs
  <2>2. Replaced(stack, stack', cpu, <<f>> \o stack[cpu]) /\ schedLock' = TRUE
    BY <1>3, StackedIs DEF TimerService
  <2> HIDE DEF f, n
  <2>3. /\ ChangedAbove(stack, stack', cpu, Len(stack[cpu]))
        /\ Len(stack'[cpu]) = Len(stack[cpu]) + 1
        /\ Deep(stack'[cpu], Len(stack[cpu]) + 1) = f
    BY <1>1, <2>1, <2>2, PushChanges
  <2>4. Calm(stack, cpu)
    BY <1>3 DEF StacksAre
  <2>5. /\ ChangedAbove(stack, stack', cpu, n) /\ Len(stack'[cpu]) = n + 1
        /\ Deep(stack'[cpu], n + 1).at = "charge" /\ \A d \in 1 .. n : Deep(stack[cpu], d).at \notin Odd
    BY <2>1, <2>3, <2>4 DEF n, Calm
  <2>6. Busy(stack', cpu) /\ Due(stack', cpu)
    BY <1>1, <2>5, Entered DEF InSched
  <2>7. Gone(stack', cpu)
    BY <2>5, GoneStays
  <2> QED BY <2>2, <2>6, <2>7 DEF StacksAre
<1> QED BY <1>2, <1>3

LEMMA ChargeSched ==
    ASSUME HeapInv, StacksAre, Charge
    PROVE  StacksAre' /\ (TimerIs => TimerIs')
<1>1. /\ At("charge") /\ Goto("flush") /\ "charge" \in InSched /\ "flush" \in InSched
      /\ UNCHANGED <<schedLock, cpu, masked>>
  BY DEF Charge, sched, InSched
<1>2. StacksAre' /\ Due(stack', cpu)
  BY <1>1, GoneOn
<1> QED BY <1>1, <1>2 DEF TimerIs

LEMMA FlushSched ==
    ASSUME HeapInv, StacksAre, Flush
    PROVE  StacksAre' /\ (TimerIs => TimerIs')
<1>1. /\ At("flush") /\ Goto("pick") /\ "flush" \in InSched /\ "pick" \in InSched
      /\ UNCHANGED <<schedLock, cpu, masked>>
  BY DEF Flush, InSched
<1>2. StacksAre' /\ Due(stack', cpu)
  BY <1>1, GoneOn
<1> QED BY <1>1, <1>2 DEF TimerIs

LEMMA PickSched ==
    ASSUME HeapInv, StacksAre, Pick
    PROVE  StacksAre' /\ (TimerIs => TimerIs')
<1>1. /\ At("pick") /\ Goto("switch") /\ "pick" \in InSched /\ "switch" \in InSched
      /\ UNCHANGED <<schedLock, cpu, masked>> /\ timer' = "armed"
  BY DEF Pick, Arm, InSched
<1>2. StacksAre'
  BY <1>1, GoneOn
<1> QED BY <1>1, <1>2 DEF TimerIs

LEMMA TimerSched ==
    ASSUME HeapInv, StacksAre, Timer
    PROVE  StacksAre' /\ ("short period" \notin Allowed => TimerIs')
<1>1. /\ TimerService(stack[cpu]) /\ UNCHANGED <<cpu, currtask, masked>>
      /\ Pending("switch") => "short period" \in Allowed
  BY DEF Timer
<1>2. StacksAre' /\ (~schedLock \/ Due(stack, cpu) => Due(stack', cpu))
  BY <1>1, ServiceEnters
<1>3. ASSUME "short period" \notin Allowed, schedLock PROVE Due(stack, cpu)
  <2>1. PICK d \in 1 .. Len(stack[cpu]) : Deep(stack[cpu], d).at \in InSched
    BY <1>3 DEF StacksAre, Busy
  <2>2. Deep(stack[cpu], d) \in Frames
    BY FramesAre DEF Frames, HeapInv, RestTyped
  <2>3. Deep(stack[cpu], d).at # "switch"
    BY <1>1, <1>3, <2>2 DEF Pending
  <2> QED BY <2>1, <2>3 DEF Due, InSched
<1> QED BY <1>1, <1>2, <1>3 DEF TimerIs

LEMMA QuantumDoneSched ==
    ASSUME HeapInv, StacksAre, QuantumDone
    PROVE  StacksAre' /\ (TimerIs => TimerIs')
<1>1. TimerService(stack[cpu]) /\ UNCHANGED <<cpu, currtask, masked, timer>>
  BY DEF QuantumDone, Idling
<1>2. StacksAre' /\ (~schedLock \/ Due(stack, cpu) => Due(stack', cpu))
  BY <1>1, ServiceEnters
<1> QED BY <1>1, <1>2 DEF TimerIs

LEMMA IrqEndSched ==
    ASSUME HeapInv, StacksAre, IrqEnd
    PROVE  StacksAre' /\ (TimerIs => TimerIs')
<1>1. /\ stack \in Stacks /\ cpu \in Contexts /\ stack[cpu] # <<>> /\ currtask \in Contexts
      /\ Head(stack[cpu]).at = "irq end" /\ Head(stack[cpu]).at \notin Odd
      /\ UNCHANGED <<cpu, currtask, timer>> /\ masked' = {}
  BY TopIs DEF IrqEnd, HeapInv, RestTyped, Top, Odd, InSched, StacksAre
<1>2. \/ Stacked(Tail(stack[cpu])) /\ schedLock' = schedLock
      \/ /\ Stacked(<<Frame("charge", currtask)>> \o Tail(stack[cpu]))
         /\ schedLock' = TRUE /\ ~schedLock
  BY DEF IrqEnd, TimerService, Return
<1>3. CASE Stacked(Tail(stack[cpu])) /\ schedLock' = schedLock
  <2>1. Replaced(stack, stack', cpu, Tail(stack[cpu]))
    BY <1>3, StackedIs
  <2>2. SameOdd(stack, stack', cpu)
    BY <1>1, <2>1, PopPlain
  <2> QED BY <1>1, <1>3, <2>2, PlainStep
<1>4. CASE /\ Stacked(<<Frame("charge", currtask)>> \o Tail(stack[cpu]))
           /\ schedLock' = TRUE /\ ~schedLock
  <2> DEFINE f == Frame("charge", currtask)
             n == Len(stack[cpu])
  <2>1. f \in FrameType /\ f.at = "charge"
    <3>1. "charge" \in Labels
      BY DEF Labels
    <3> QED BY <1>1, <3>1, FrameIs
  <2>2. Replaced(stack, stack', cpu, <<f>> \o Tail(stack[cpu]))
    BY <1>4, StackedIs
  <2> HIDE DEF f, n
  <2>3. /\ Len(stack[cpu]) \in Nat \ {0}
        /\ ChangedAbove(stack, stack', cpu, Len(stack[cpu]) - 1)
        /\ Len(stack'[cpu]) = Len(stack[cpu]) /\ Deep(stack'[cpu], Len(stack[cpu])) = f
    <3>1. stack \in Stacks /\ cpu \in Contexts /\ stack[cpu] # <<>> /\ f \in FrameType
      BY <1>1, <2>1
    <3> QED BY <2>2, <3>1, TopChanges
  <2> DEFINE m == n - 1
  <2>4. m + 1 = n /\ \A d \in 1 .. m : d \in 1 .. Len(stack[cpu])
    BY <2>3 DEF n
  <2>5. Calm(stack, cpu)
    BY <1>4 DEF StacksAre
  <2>6. /\ ChangedAbove(stack, stack', cpu, m) /\ Len(stack'[cpu]) = m + 1
        /\ Deep(stack'[cpu], m + 1).at = "charge" /\ \A d \in 1 .. m : Deep(stack[cpu], d).at \notin Odd
    BY <2>1, <2>3, <2>4, <2>5 DEF n, Calm
  <2> HIDE DEF m
  <2>7. Busy(stack', cpu) /\ Due(stack', cpu)
    BY <1>1, <2>6, Entered DEF InSched
  <2>8. Gone(stack', cpu)
    BY <2>6, GoneStays
  <2> QED BY <1>1, <1>4, <2>7, <2>8 DEF StacksAre, TimerIs
<1> QED BY <1>2, <1>3, <1>4
(* A context that CKcontextSwitch resumes is outside the scheduler.        *)
LEMMA ResumedCalm ==
    ASSUME NEW M \in Stacks, NEW c \in Contexts, M[c] # <<>>,
           \A d \in 1 .. Len(M[c]) : d # Len(M[c]) => Deep(M[c], d).at \notin Odd,
           NEW R, Dropped(M, R, c, 2)
    PROVE  Calm(R, c) /\ \A x \in Contexts \ {c} : R[x] = M[x]
<1> DEFINE n == Len(M[c])
<1>1. M[c] \in Seq(FrameType) /\ n \in Nat \ {0} /\ 2 <= Len(M[c]) + 1
  BY DEF Stacks
<1>2. R[c] = SubSeq(M[c], 2, n) /\ \A x \in Contexts \ {c} : R[x] = M[x]
  BY DEF Dropped, Stacks
<1>3. /\ Len(SubSeq(M[c], 2, n)) = n - (2 - 1)
      /\ \A d \in 1 .. n - (2 - 1) : Deep(SubSeq(M[c], 2, n), d) = Deep(M[c], d)
  BY <1>1, DropIs
<1>4. \A d \in 1 .. n : d # n => Deep(M[c], d).at \notin Odd
  OBVIOUS
<1> HIDE DEF n
<1>5. \A d \in 1 .. n - (2 - 1) : d \in 1 .. n /\ d # n
  BY <1>1
<1>6. Calm(R, c)
  BY <1>2, <1>3, <1>4, <1>5 DEF Calm
<1> QED BY <1>2, <1>6

LEMMA SwitchSched ==
    ASSUME HeapInv, StacksAre, Switch
    PROVE  StacksAre' /\ (TimerIs => TimerIs')
<1> DEFINE left    == [stack EXCEPT ![cpu] = <<[Top EXCEPT !.at = "away"]>> \o Tail(@)]
           resumed == left[currtask]
           tunnel  == Len(resumed) > 1 /\ resumed[2].at = "tunnel"
           n       == Len(stack[cpu])
           f       == [Top EXCEPT !.at = "away"]
<1>1. /\ stack \in Stacks /\ cpu \in Contexts /\ currtask \in Contexts
      /\ stack[cpu] # <<>> /\ Top \in FrameType /\ At("switch")
      /\ n \in Nat \ {0} /\ Deep(stack[cpu], n).at = "switch"
  <2>1. At("switch")
    BY DEF Switch
  <2> QED BY <2>1, TopIs DEF HeapInv, RestTyped
<1>2. f \in FrameType
  BY <1>1 DEF FrameType, Labels
<1>3. Replaced(stack, left, cpu, <<f>> \o Tail(stack[cpu]))
  BY DEF Replaced
<1>4. \/ resumed = <<>> /\ stack' = left /\ UNCHANGED <<utime, masked>>
      \/ /\ resumed # <<>>
         /\ stack' = [left EXCEPT ![currtask] = SubSeq(@, IF tunnel THEN 3 ELSE 2, Len(@))]
         /\ masked' = IF tunnel THEN masked \cup {currtask} ELSE masked
  BY DEF Switch
<1> HIDE DEF left, f
<1>5. /\ ChangedAbove(stack, left, cpu, Len(stack[cpu]) - 1) /\ Len(left[cpu]) = Len(stack[cpu])
  <2> HIDE DEF n
  <2>1. stack \in Stacks /\ cpu \in Contexts /\ stack[cpu] # <<>>
    BY <1>1
  <2> QED BY <1>2, <1>3, <2>1, TopChanges
<1>6. \A d \in 1 .. n - 1 : Deep(stack[cpu], d).at \notin Odd
  BY <1>1, TopInSched DEF InSched
<1>7. ASSUME NEW x \in Contexts, NEW d \in 1 .. Len(left[x]), d # Len(left[x])
      PROVE  Deep(left[x], d).at \notin Odd
  <2>1. CASE x = cpu
    <3>1. d \in 1 .. n - 1
      BY <1>1, <1>5, <1>7, <2>1
    <3> QED BY <1>5, <1>6, <2>1, <3>1 DEF ChangedAbove
  <2>2. CASE x # cpu
    BY <1>5, <1>7, <2>2 DEF ChangedAbove, StacksAre, Gone
  <2> QED BY <2>1, <2>2
<1>8. left \in Stacks
  BY <1>5 DEF ChangedAbove
<1>9. ~tunnel
  <2> SUFFICES ASSUME Len(resumed) > 1, resumed[2].at = "tunnel" PROVE FALSE
    OBVIOUS
  <2> DEFINE m == Len(resumed)
  <2>1. m \in Nat
    BY <1>1, <1>8 DEF Stacks
  <2>2. m > 1
    OBVIOUS
  <2> HIDE DEF m
  <2>3. m - 1 \in 1 .. m /\ m - 1 # m /\ m + 1 - (m - 1) = 2
    BY <2>1, <2>2
  <2>4. Deep(resumed, m - 1) = resumed[2]
    BY <2>3 DEF Deep, m
  <2>5. Deep(resumed, m - 1).at \notin Odd
    BY <1>1, <1>7, <2>3 DEF m
  <2> QED BY <2>4, <2>5 DEF Odd
<1>10. /\ masked' = {} /\ Calm(stack', currtask)
       /\ \A x \in Contexts \ {currtask} : stack'[x] = left[x]
  <2>1. CASE resumed = <<>>
    <3>1. stack' = left /\ masked' = masked
      BY <1>4, <2>1
    <3>2. Len(stack'[currtask]) = 0
      BY <2>1, <3>1
    <3> QED BY <3>1, <3>2 DEF Calm, StacksAre
  <2>2. CASE resumed # <<>>
    <3>1. stack' = [left EXCEPT ![currtask] = SubSeq(@, 2, Len(@))] /\ masked' = masked
      BY <1>4, <1>9, <2>2
    <3>2. Dropped(left, stack', currtask, 2)
      BY <3>1 DEF Dropped
    <3>3. Calm(stack', currtask) /\ \A x \in Contexts \ {currtask} : stack'[x] = left[x]
      BY <1>1, <1>7, <1>8, <2>2, <3>2, ResumedCalm
    <3> QED BY <3>1, <3>3 DEF StacksAre
  <2> QED BY <2>1, <2>2
<1>11. Gone(stack', currtask)
  BY <1>7, <1>10 DEF Gone
<1>12. schedLock' = FALSE /\ cpu' = currtask /\ currtask' = currtask /\ timer' = timer
  BY DEF Switch
<1>13. ~Due(stack, cpu)
  <2>1. ASSUME NEW d \in 1 .. Len(stack[cpu]) PROVE Deep(stack[cpu], d).at \notin {"charge", "flush", "pick"}
    <3>1. d = n \/ d \in 1 .. n - 1
      BY <1>1
    <3> QED BY <1>1, <1>6, <3>1 DEF Odd, InSched
  <2> QED BY <2>1 DEF Due
<1> QED BY <1>10, <1>11, <1>12, <1>13 DEF StacksAre, TimerIs

(* A step that pushes or relabels a frame outside the scheduler.           *)
LEMMA PushedPlain ==
    ASSUME HeapInv, NEW label \in Labels \ Odd, NEW t \in Contexts, Push(label, t)
    PROVE  SameOdd(stack, stack', cpu)
<1> DEFINE f == Frame(label, t)
<1>1. f \in FrameType /\ f.at \notin Odd /\ stack \in Stacks /\ cpu \in Contexts
  BY FrameIs DEF HeapInv, RestTyped
<1>2. Replaced(stack, stack', cpu, <<f>> \o stack[cpu])
  BY StackedIs DEF Push
<1> HIDE DEF f
<1> QED BY <1>1, <1>2, PushPlain

LEMMA GonePlain ==
    ASSUME HeapInv, NEW from, At(from), from \notin Odd, NEW label \in Labels \ Odd, Goto(label)
    PROVE  SameOdd(stack, stack', cpu)
<1> DEFINE f == [Top EXCEPT !.at = label]
<1>1. /\ stack \in Stacks /\ cpu \in Contexts /\ stack[cpu] # <<>> /\ Top \in FrameType
      /\ Head(stack[cpu]).at \notin Odd
  BY TopIs DEF HeapInv, RestTyped, Top
<1>2. f \in FrameType /\ f.at \notin Odd
  BY <1>1 DEF FrameType
<1>3. Replaced(stack, stack', cpu, <<f>> \o Tail(stack[cpu]))
  BY StackedIs DEF Goto
<1> HIDE DEF f
<1> QED BY <1>1, <1>2, <1>3, TopPlain

LEMMA PlainLabels ==
    \A label \in {"mark", "insert", "prioritise", "climb", "irq end"} : label \in Labels \ Odd
BY DEF Labels, Odd, InSched

LEMMA IRQSched ==
    ASSUME HeapInv, StacksAre, NEW h \in Drivers, IRQ(h)
    PROVE  StacksAre' /\ (TimerIs => TimerIs')
<1>1. h \in Contexts /\ (Push("prioritise", h) \/ Push("irq end", h))
  BY DEF IRQ, Contexts
<1>2. SameOdd(stack, stack', cpu)
  <2>1. CASE Push("prioritise", h)
    BY <1>1, <2>1, PlainLabels, PushedPlain
  <2>2. CASE Push("irq end", h)
    BY <1>1, <2>2, PlainLabels, PushedPlain
  <2> QED BY <1>1, <2>1, <2>2
<1>3. UNCHANGED <<schedLock, cpu, currtask, timer>> /\ masked' = {}
  BY DEF IRQ, sched, StacksAre
<1> QED BY <1>2, <1>3, PlainStep

LEMMA PrioritiseUnlockedSched ==
    ASSUME HeapInv, StacksAre, PrioritiseUnlocked
    PROVE  StacksAre' /\ (TimerIs => TimerIs')
<1>1. At("prioritise") /\ "prioritise" \notin Odd
  BY PlainLabels DEF PrioritiseUnlocked
<1>2. SameOdd(stack, stack', cpu)
  <2>1. CASE Goto("irq end")
    BY <1>1, <2>1, PlainLabels, GonePlain
  <2>2. CASE ~Goto("irq end")
    <3> DEFINE f == [at |-> "climb", who |-> Top.who, slot |-> SlotOf(heap["Running"], Top.who)]
    <3>2. /\ Top.who \in Threads /\ ts[Top.who] = "Running" /\ Top.who \notin Inserts(stack)
          /\ Top.who \in Contexts
      BY <1>1, TopIsHasty DEF HastyIs, Contexts, Hasty
    <3>1. Stacked(<<f>> \o Tail(stack[cpu]))
      BY <3>2, UnlockedIs
    <3>3. SlotOf(heap["Running"], Top.who) \in Nat
      <4>1. SlotOf(heap["Running"], Top.who) \in 1 .. Len(heap["Running"])
        BY <3>2, InHeap, StatesAre
      <4> QED BY <4>1
    <3>4. f \in FrameType /\ f.at = "climb"
      BY <3>2, <3>3 DEF FrameType, Labels
    <3>5. Replaced(stack, stack', cpu, <<f>> \o Tail(stack[cpu]))
      BY <3>1, StackedIs
    <3> HIDE DEF f
    <3>6. /\ stack \in Stacks /\ cpu \in Contexts /\ stack[cpu] # <<>>
          /\ Head(stack[cpu]).at \notin Odd
      BY <1>1, TopIs DEF HeapInv, RestTyped, Top
    <3>7. f.at \notin Odd
      BY <3>4, PlainLabels
    <3> QED BY <3>4, <3>5, <3>6, <3>7, TopPlain
  <2> QED BY <2>1, <2>2
<1>3. UNCHANGED <<schedLock, cpu, currtask, timer>> /\ masked' = {}
  BY DEF PrioritiseUnlocked, sched, StacksAre
<1> QED BY <1>2, <1>3, PlainStep

LEMMA ClimbUnlockedSched ==
    ASSUME HeapInv, StacksAre, ClimbUnlocked
    PROVE  StacksAre' /\ (TimerIs => TimerIs')
<1>1. SameOdd(stack, stack', cpu)
  BY PlainLabels, GonePlain DEF ClimbUnlocked
<1>2. UNCHANGED <<schedLock, cpu, currtask, timer>> /\ masked' = {}
  BY DEF ClimbUnlocked, sched, StacksAre
<1> QED BY <1>1, <1>2, PlainStep

LEMMA WakeSched ==
    ASSUME HeapInv, StacksAre, NEW t \in Threads, Wake(t)
    PROVE  StacksAre' /\ (TimerIs => TimerIs')
<1>1. t \in Contexts /\ Push("mark", t)
  BY DEF Wake, Contexts
<1>2. SameOdd(stack, stack', cpu)
  BY <1>1, PlainLabels, PushedPlain
<1>3. UNCHANGED <<schedLock, cpu, currtask, timer>> /\ masked' = {}
  BY DEF Wake, sched, StacksAre
<1> QED BY <1>2, <1>3, PlainStep

LEMMA MarkSched ==
    ASSUME HeapInv, StacksAre, Mark
    PROVE  StacksAre' /\ (TimerIs => TimerIs')
<1>1. SameOdd(stack, stack', cpu)
  BY PlainLabels, GonePlain DEF Mark
<1>2. UNCHANGED <<schedLock, cpu, currtask, timer>> /\ masked' = {}
  BY DEF Mark, sched, StacksAre
<1> QED BY <1>1, <1>2, PlainStep

LEMMA InsertSched ==
    ASSUME HeapInv, StacksAre, Insert
    PROVE  StacksAre' /\ (TimerIs => TimerIs')
<1>1. /\ stack \in Stacks /\ cpu \in Contexts /\ stack[cpu] # <<>> /\ Head(stack[cpu]).at \notin Odd
  <2>1. At("insert")
    BY DEF Insert
  <2>2. stack[cpu] # <<>> /\ Head(stack[cpu]).at = "insert"
    BY <2>1, TopIs DEF Top
  <2> QED BY <2>2, PlainLabels DEF HeapInv, RestTyped
<1>2. Replaced(stack, stack', cpu, Tail(stack[cpu]))
  BY StackedIs DEF Insert, Return
<1>3. SameOdd(stack, stack', cpu)
  BY <1>1, <1>2, PopPlain
<1>4. UNCHANGED <<schedLock, cpu, currtask, timer>> /\ masked' = {}
  BY DEF Insert, Unmask, sched, StacksAre
<1> QED BY <1>3, <1>4, PlainStep

LEMMA SameStackSched ==
    ASSUME HeapInv, StacksAre, UNCHANGED <<schedLock, cpu, currtask, timer, stack>>, masked' = {}
    PROVE  StacksAre' /\ (TimerIs => TimerIs')
<1>1. SameOdd(stack, stack', cpu)
  BY DEF SameOdd, NoNew
<1> QED BY <1>1, PlainStep

LEMMA SchedNext ==
    ASSUME HeapInv, StacksAre, "tunnel" \notin Allowed, [Next]_vars
    PROVE  StacksAre' /\ ("short period" \notin Allowed /\ TimerIs => TimerIs')
<1>1. CASE KernelStep
  BY <1>1, ChargeSched, FlushSched, PickSched, SwitchSched, PrioritiseUnlockedSched,
     ClimbUnlockedSched, IrqEndSched, MarkSched, InsertSched DEF KernelStep
<1>2. CASE SystemCall
  <2>1. CASE QuantumDone
    BY <2>1, QuantumDoneSched
  <2>2. ASSUME NEW t \in Threads, Wake(t)
        PROVE  StacksAre' /\ (TimerIs => TimerIs')
    BY <2>2, WakeSched
  <2>3. ASSUME NEW t \in Threads, NEW state \in States, SetThreadState(t, state)
        PROVE  StacksAre' /\ (TimerIs => TimerIs')
    BY <2>3, SameStackSched DEF SetThreadState, sched, Unmask, StacksAre
  <2>4. ASSUME NEW d \in Deadlines, SetDeadline(d)
        PROVE  StacksAre' /\ (TimerIs => TimerIs')
    BY <2>4, SameStackSched DEF SetDeadline, sched, proc, StacksAre
  <2>5. ~TunnelConservative /\ \A t \in Threads : ~TunnelSwapping(t) /\ ~TunnelUnblocking(t)
    BY DEF TunnelConservative, TunnelSwapping, TunnelUnblocking
  <2> QED BY <1>2, <2>1, <2>2, <2>3, <2>4, <2>5 DEF SystemCall
<1>3. CASE Timer
  BY <1>3, TimerSched
<1>4. CASE \E h \in Drivers : IRQ(h)
  BY <1>4, IRQSched
<1>5. CASE UNCHANGED vars
  BY <1>5, SameStackSched DEF vars, sched, proc, StacksAre
<1> QED BY <1>1, <1>2, <1>3, <1>4, <1>5 DEF Next

LEMMA SchedInit ==
    ASSUME Init
    PROVE  StacksAre /\ TimerIs
<1>1. \A x \in Contexts : Len(stack[x]) = 0
  BY DEF Init
<1>2. cpu \in Contexts /\ cpu = currtask /\ masked = {} /\ ~schedLock /\ timer = "armed"
  BY DEF Init, Contexts
<1> QED BY <1>1, <1>2 DEF StacksAre, Calm, Gone, TimerIs

(* CKtimerService tests and sets schedLock with interrupts off, and          *)
(* CKcontextSwitch frees it: between the two, however often the timer, the  *)
(* IRQ handlers and system calls ask for the scheduler, one context is in   *)
(* it; and when none is, the processor executes the chosen thread.  It      *)
(* needs the hypotheses of ThreadsAreQueued, and that nobody tunnels.      *)
THEOREM OneInScheduler ==
    ASSUME "race" \notin Allowed, "unqueued" \notin Allowed,
           "self" \notin Allowed, "unlocked irq" \notin Allowed,
           "tunnel" \notin Allowed
    PROVE  Spec => []OneScheduler
<1>1. Init => HeapInv /\ StacksAre
  BY HeapInit, SchedInit
<1>2. (HeapInv /\ StacksAre) /\ [Next]_vars => (HeapInv /\ StacksAre)'
  BY HeapNext, SchedNext
<1>3. HeapInv /\ StacksAre => OneScheduler
  BY InSchedulerIs
<1> QED BY <1>1, <1>2, <1>3, PTL DEF Spec

LEMMA QuantumEndsIs ==
    ASSUME HeapInv, StacksAre, TimerIs
    PROVE  QuantumEnds
<1> SUFFICES ASSUME Idling PROVE timer = "armed" /\ cpu \notin masked
  BY DEF QuantumEnds
<1>1. stack[cpu] = <<>>
  BY DEF Idling
<1>2. \A d \in 1 .. Len(stack[cpu]) : FALSE
  BY <1>1
<1>3. timer # "off"
  BY <1>2 DEF TimerIs, Due
<1> QED BY <1>3 DEF HeapInv, RestTyped, StacksAre

(* The one-shot timer is armed by CKsetTimerPeriod before the context       *)
(* switch, and an expiry is answered by the stub unless the scheduler is    *)
(* already on its way to arm it again: whoever executes its own code, the   *)
(* timer will interrupt it, if no period is so short that it expires before *)
(* the context switch, under the hypotheses of OneInScheduler.             *)
THEOREM QuantaEnd ==
    ASSUME "race" \notin Allowed, "unqueued" \notin Allowed,
           "self" \notin Allowed, "unlocked irq" \notin Allowed,
           "tunnel" \notin Allowed, "short period" \notin Allowed
    PROVE  Spec => []QuantumEnds
<1>1. Init => HeapInv /\ StacksAre /\ TimerIs
  BY HeapInit, SchedInit
<1>2. (HeapInv /\ StacksAre /\ TimerIs) /\ [Next]_vars => (HeapInv /\ StacksAre /\ TimerIs)'
  BY HeapNext, SchedNext
<1>3. HeapInv /\ StacksAre /\ TimerIs => QuantumEnds
  BY QuantumEndsIs
<1> QED BY <1>1, <1>2, <1>3, PTL DEF Spec
-----------------------------------------------------------------------------
(* The running thread is at the root of its heap.  A thread that is woken   *)
(* or prioritised gets the time of the root, which it does not pass; and    *)
(* no thread but the running one leaves the root.                          *)
LEMMA NotBeforeItself ==
    ASSUME NEW x \in TIME
    PROVE  ~CLESS(x, x)
<1>1. x - x = 0 /\ 0 % TimeWidth = 0 /\ 2 * 0 < TimeWidth
  BY DEF TIME
<1> QED BY <1>1 DEF CLESS, Minus

LEMMA ClimbKeepsRoot ==
    ASSUME NEW S, NEW h \in Seq(S), NEW times, NEW i \in 1 .. Len(h), NEW e, h[i] = e,
           ~CLESS(times[e], times[h[1]]), NEW g \in Climb(h, times, e, i)
    PROVE  g[1] = h[1]
<1> DEFINE n == Len(h)
<1>1. n \in Nat /\ i \in 1 .. n /\ 1 \in 1 .. n
  OBVIOUS
<1>2. PICK P \in ClimbPaths(h, times, e, i) :
         g = [j \in 1 .. n |-> IF j \notin P THEN h[j]
                               ELSE IF Parent(j) \in P THEN h[Parent(j)] ELSE e]
  BY DEF Climb
<1>3. PICK top \in P : /\ P \subseteq 1 .. i /\ IsPath(P, top, i)
                       /\ \A j \in P \ {top} : CLESS(times[e], times[h[Parent(j)]])
  BY <1>2 DEF ClimbPaths
<1> HIDE DEF n
<1>4. top \in 1 .. n
  BY <1>1, <1>3
<1>5. P \subseteq 1 .. n /\ OneChild(P, top, i)
  BY <1>1, <1>3, <1>4, PathIs
<1>6. CASE 1 \notin P
  BY <1>1, <1>2, <1>6
<1>7. CASE 1 \in P
  <2>1. top = 1
    BY <1>1, <1>4, <1>5, <1>7 DEF OneChild
  <2>2. i = 1
    <3> SUFFICES ASSUME i # 1 PROVE FALSE
      OBVIOUS
    <3>1. PICK j \in P \ {1} : Parent(j) = 1
      BY <1>5, <1>7, <2>1 DEF OneChild
    <3> QED BY <1>3, <2>1, <3>1
  <2>3. Parent(1) \notin P
    BY <1>5, <2>1 DEF OneChild
  <2> QED BY <1>1, <1>2, <1>7, <2>2, <2>3
<1> QED BY <1>6, <1>7

LEMMA SiftupKeepsRoot ==
    ASSUME NEW S, NEW h \in Seq(S), h # <<>>, NEW times, NEW e \in S,
           ~CLESS(times[e], times[h[1]]), NEW g \in Siftup(h, times, e)
    PROVE  g[1] = h[1]
<1> DEFINE n == Len(h)
           a == Append(h, e)
<1>1. /\ n \in Nat /\ a \in Seq(S) /\ Len(a) = n + 1 /\ a[n + 1] = e /\ a[1] = h[1]
  OBVIOUS
<1>2. g \in Climb(a, times, e, n + 1)
  BY DEF Siftup
<1> HIDE DEF a, n
<1>3. n + 1 \in 1 .. Len(a)
  BY <1>1
<1> QED BY <1>1, <1>2, <1>3, ClimbKeepsRoot

LEMMA RemoveKeepsRoot ==
    ASSUME NEW S, NEW h \in Seq(S), NEW times, NEW i \in 1 .. Len(h), i # 1,
           NEW g \in RemoveEvent(h, times, i)
    PROVE  g[1] = h[1] /\ Len(g) = Len(h) - 1
<1> DEFINE n       == Len(h)
           shorter == SubSeq(h, 1, n - 1)
           mid     == [shorter EXCEPT ![i] = h[n]]
<1>1. n \in Nat /\ i \in 1 .. n /\ n > 1
  OBVIOUS
<1>2. Len(shorter) = n - 1 /\ shorter[1] = h[1] /\ shorter \in Seq(S)
  <2> DEFINE k == n - 1
  <2>1. k \in Int /\ 1 <= k /\ \A j \in 1 .. k : h[j] \in S
    BY <1>1
  <2> HIDE DEF k
  <2>2. /\ SubSeq(h, 1, k) \in Seq(S)
        /\ Len(SubSeq(h, 1, k)) = IF 1 <= k THEN k - 1 + 1 ELSE 0
        /\ \A j \in 1 .. k - 1 + 1 : SubSeq(h, 1, k)[j] = h[1 + j - 1]
    BY <2>1, SubSeqProperties
  <2>3. 1 \in 1 .. k - 1 + 1 /\ 1 + 1 - 1 = 1 /\ k - 1 + 1 = k
    BY <2>1
  <2>4. SubSeq(h, 1, k) \in Seq(S) /\ Len(SubSeq(h, 1, k)) = k /\ SubSeq(h, 1, k)[1] = h[1]
    BY <2>1, <2>2, <2>3
  <2> QED BY <2>4 DEF k
<1>3. g \in IF i = n THEN {shorter} ELSE Sink(mid, times, h[n], i)
  BY DEF RemoveEvent
<1> HIDE DEF n, shorter
<1>4. CASE i = n
  BY <1>2, <1>3, <1>4 DEF n
<1>5. CASE i # n
  <2>1. DOMAIN shorter = 1 .. n - 1
    BY <1>2
  <2>2. DOMAIN mid = 1 .. n - 1 /\ mid[1] = h[1]
    BY <1>1, <1>2, <2>1
  <2>3. Len(mid) = n - 1
    <3>1. n - 1 \in Nat
      BY <1>1
    <3> QED BY <1>2, <2>2, <3>1
  <2> HIDE DEF mid
  <2>4. PICK P \in SinkPaths(mid, times, h[n], i) :
           g = [j \in 1 .. Len(mid) |-> IF j \notin P THEN mid[j]
                                        ELSE IF MinChild(mid, times, j) \in P THEN mid[MinChild(mid, times, j)]
                                        ELSE h[n]]
    BY <1>3, <1>5 DEF Sink
  <2>5. P \subseteq i .. Len(mid)
    BY <2>4 DEF SinkPaths
  <2>6. 1 \notin P /\ 1 \in 1 .. Len(mid)
    BY <1>1, <2>3, <2>5
  <2>7. g[1] = h[1]
    BY <2>2, <2>4, <2>6
  <2>8. Len(g) = n - 1
    <3>1. n - 1 \in Nat
      BY <1>1
    <3> QED BY <2>3, <2>4, <3>1
  <2> QED BY <2>7, <2>8 DEF n
<1> QED BY <1>4, <1>5
(* Without "preempted wake", nothing comes between setting the time of a    *)
(* woken or prioritised thread and moving it up its heap.                  *)
Timed == {"insert", "climb"}

RootRuns ==
    ts[currtask] \in HeapTypes /\ currtask # IdleLoop
        => heap[ts[currtask]] # <<>> /\ Head(heap[ts[currtask]]) = currtask

HasRootTime(f) == heap["Running"] # <<>> => time[f.who] = RootTime("Running")

RootInv ==
    /\ Lacks(stack, {"pick"}) => RootRuns
    /\ OnlyOnTop(stack, Timed, cpu)
    /\ \A x \in Contexts : \A d \in 1 .. Len(stack[x]) :
          Deep(stack[x], d).at \in Timed => HasRootTime(Deep(stack[x], d))

LEMMA RootIs ==
    ASSUME HeapInv, RootInv
    PROVE  RunningIsRoot
<1>1. ASSUME ~Pending("pick") PROVE Lacks(stack, {"pick"})
  <2>1. ASSUME NEW x \in Contexts, NEW d \in 1 .. Len(stack[x]) PROVE Deep(stack[x], d) \in Frames
    BY FramesAre DEF Frames, HeapInv
  <2> QED BY <1>1, <2>1 DEF Pending, Lacks
<1> QED BY <1>1 DEF RootInv, RootRuns, RunningIsRoot

(* A step that leaves no frame waiting at Timed and takes no "pick" away.   *)
Settled(S, R) == Lacks(R, Timed) /\ NoNew(R, S, {"pick"})

LEMMA RootFresh ==
    ASSUME Lacks(stack', Timed), Lacks(stack', {"pick"}) => RootRuns'
    PROVE  RootInv'
BY DEF RootInv, OnlyOnTop, Lacks

LEMMA RootSettled ==
    ASSUME RootInv, Settled(stack, stack'), RootRuns => RootRuns'
    PROVE  RootInv'
<1>1. Lacks(stack', {"pick"}) => Lacks(stack, {"pick"})
  BY DEF Settled, NoNew, Lacks
<1> QED BY <1>1, RootFresh DEF RootInv, Settled

LEMMA SettledKept ==
    ASSUME NEW S, NEW R, Lacks(S, Timed), NoNew(S, R, Timed), NoNew(R, S, {"pick"})
    PROVE  Settled(S, R)
BY DEF Settled, Lacks, NoNew

LEMMA NotTimed ==
    ASSUME HeapInv, RootInv, Idling \/ Top.at \notin Timed
    PROVE  Lacks(stack, Timed)
<1>1. CASE Idling
  <2>1. Len(stack[cpu]) = 0
    BY <1>1 DEF Idling
  <2> QED BY <2>1 DEF RootInv, OnlyOnTop, Lacks
<1>2. CASE ~Idling /\ Top.at \notin Timed
  <2>1. cpu \in Contexts /\ stack[cpu] \in Seq(FrameType) /\ stack[cpu] # <<>>
    BY <1>2 DEF HeapInv, RestTyped, Stacks, Idling
  <2>2. Deep(stack[cpu], Len(stack[cpu])) = Top
    BY <2>1, PopIs DEF Top
  <2> QED BY <1>2, <2>2 DEF RootInv, OnlyOnTop, Lacks
<1> QED BY <1>1, <1>2

LEMMA PushSettles ==
    ASSUME NEW S \in Stacks, NEW c \in Contexts, NEW f \in FrameType,
           NEW R, Replaced(S, R, c, <<f>> \o S[c]), f.at \notin Timed, Lacks(S, Timed)
    PROVE  Settled(S, R)
<1> DEFINE n == Len(S[c])
<1>1. n \in Nat
  BY DEF Stacks
<1>2. n = Len(S[c])
  OBVIOUS
<1> HIDE DEF n
<1>3. ChangedAbove(S, R, c, n) /\ Len(R[c]) = n + 1 /\ Deep(R[c], n + 1) = f
  BY <1>2, PushChanges
<1>4. \A d \in n + 1 .. Len(R[c]) : Deep(R[c], d) = f
  BY <1>1, <1>3
<1>5. \A d \in n + 1 .. Len(S[c]) : FALSE
  BY <1>1, <1>2
<1>6. NoNew(S, R, Timed)
  BY <1>3, <1>4, NothingNew
<1>7. NoNew(R, S, {"pick"})
  BY <1>3, <1>5, NothingNew
<1> QED BY <1>6, <1>7, SettledKept

(* The top of the running stack becomes frame f.                           *)
LEMMA TopTimed ==
    ASSUME NEW S \in Stacks, NEW c \in Contexts, S[c] # <<>>, NEW f \in FrameType,
           NEW R, Replaced(S, R, c, <<f>> \o Tail(S[c])), OnlyOnTop(S, Timed, c)
    PROVE  /\ OnlyOnTop(R, Timed, c) /\ Deep(R[c], Len(R[c])) = f
           /\ f.at \notin Timed => Lacks(R, Timed)
           /\ Head(S[c]).at # "pick" => NoNew(R, S, {"pick"})
<1> DEFINE n == Len(S[c])
<1>1. /\ n \in Nat \ {0} /\ Deep(S[c], n) = Head(S[c])
      /\ ChangedAbove(S, R, c, n - 1)
      /\ Len(R[c]) = n /\ Deep(R[c], n) = f
  BY TopChanges
<1>2. n = Len(S[c])
  OBVIOUS
<1> HIDE DEF n
<1>3. \A d \in n - 1 + 1 .. Len(S[c]) : Deep(S[c], d) = Head(S[c])
  BY <1>1, <1>2
<1>4. Head(S[c]).at # "pick" => NoNew(R, S, {"pick"})
  BY <1>1, <1>3, NothingNew
<1>5. ASSUME NEW x \in Contexts, NEW d \in 1 .. Len(R[x]), Deep(R[x], d).at \in Timed
      PROVE  x = c /\ d = n
  <2>1. CASE x # c
    BY <1>1, <1>5, <2>1 DEF ChangedAbove, OnlyOnTop
  <2>2. CASE x = c /\ d # n
    <3>1. d \in 1 .. n - 1 /\ d \in 1 .. Len(S[c])
      BY <1>1, <1>2, <2>2
    <3> QED BY <1>1, <1>2, <1>5, <2>2, <3>1 DEF ChangedAbove, OnlyOnTop
  <2> QED BY <2>1, <2>2
<1>6. OnlyOnTop(R, Timed, c)
  BY <1>1, <1>5 DEF OnlyOnTop
<1>7. f.at \notin Timed => Lacks(R, Timed)
  BY <1>1, <1>5 DEF Lacks
<1> QED BY <1>1, <1>4, <1>6, <1>7

LEMMA PopSettles ==
    ASSUME NEW S \in Stacks, NEW c \in Contexts, S[c] # <<>>,
           NEW R, Replaced(S, R, c, Tail(S[c])), OnlyOnTop(S, Timed, c), Head(S[c]).at # "pick"
    PROVE  Settled(S, R)
<1> DEFINE n == Len(S[c])
<1>1. /\ n \in Nat \ {0} /\ Deep(S[c], n) = Head(S[c])
      /\ ChangedAbove(S, R, c, n - 1)
      /\ Len(R[c]) = n - 1
  BY PopChanges
<1>2. n = Len(S[c])
  OBVIOUS
<1> HIDE DEF n
<1>3. \A d \in n - 1 + 1 .. Len(S[c]) : Deep(S[c], d) = Head(S[c])
  BY <1>1, <1>2
<1>4. NoNew(R, S, {"pick"})
  BY <1>1, <1>3, NothingNew
<1>5. ASSUME NEW x \in Contexts, NEW d \in 1 .. Len(R[x]) PROVE Deep(R[x], d).at \notin Timed
  <2>1. CASE x # c
    BY <1>1, <2>1 DEF ChangedAbove, OnlyOnTop
  <2>2. CASE x = c
    <3>1. d \in 1 .. n - 1 /\ d \in 1 .. Len(S[c]) /\ d # Len(S[c])
      BY <1>1, <1>2, <2>2
    <3> QED BY <1>1, <2>2, <3>1 DEF ChangedAbove, OnlyOnTop
  <2> QED BY <2>1, <2>2
<1> QED BY <1>4, <1>5 DEF Settled, Lacks
LEMMA GotoSettles ==
    ASSUME HeapInv, RootInv, NEW from, At(from), NEW label \in Labels, Goto(label), label \notin Timed
    PROVE  Lacks(stack', Timed) /\ (from # "pick" => Settled(stack, stack'))
<1> DEFINE f == [Top EXCEPT !.at = label]
<1>1. stack \in Stacks /\ cpu \in Contexts /\ OnlyOnTop(stack, Timed, cpu)
  BY DEF HeapInv, RestTyped, RootInv
<1>2. stack[cpu] # <<>> /\ Head(stack[cpu]).at = from /\ Top \in FrameType
  BY TopIs DEF Top
<1>3. f \in FrameType /\ f.at = label
  BY <1>2 DEF FrameType
<1>4. Replaced(stack, stack', cpu, <<f>> \o Tail(stack[cpu]))
  BY StackedIs DEF Goto
<1> HIDE DEF f
<1>5. /\ f.at \notin Timed => Lacks(stack', Timed)
      /\ Head(stack[cpu]).at # "pick" => NoNew(stack', stack, {"pick"})
  BY <1>1, <1>2, <1>3, <1>4, TopTimed
<1> QED BY <1>2, <1>3, <1>5 DEF Settled

LEMMA ServiceSettles ==
    ASSUME HeapInv, Lacks(stack, Timed), TimerService(stack[cpu])
    PROVE  Settled(stack, stack')
<1>1. stack \in Stacks /\ cpu \in Contexts /\ currtask \in Contexts
  BY DEF HeapInv, RestTyped
<1>2. CASE schedLock
  <2>1. stack' = stack
    BY <1>1, <1>2 DEF TimerService, Stacked, Stacks
  <2> QED BY <2>1 DEF Settled, NoNew
<1>3. CASE ~schedLock
  <2> DEFINE f == Frame("charge", currtask)
  <2>1. f \in FrameType /\ f.at = "charge"
    <3>1. "charge" \in Labels
      BY DEF Labels
    <3> QED BY <1>1, <3>1, FrameIs
  <2>2. Replaced(stack, stack', cpu, <<f>> \o stack[cpu])
    BY <1>3, StackedIs DEF TimerService
  <2> HIDE DEF f
  <2>3. f.at \notin Timed
    BY <2>1 DEF Timed
  <2> QED BY <1>1, <2>1, <2>2, <2>3, PushSettles
<1> QED BY <1>2, <1>3

LEMMA PushedSettles ==
    ASSUME HeapInv, Lacks(stack, Timed), NEW label \in Labels \ Timed, NEW t \in Contexts, Push(label, t)
    PROVE  Settled(stack, stack')
<1> DEFINE f == Frame(label, t)
<1>1. f \in FrameType /\ f.at = label
  BY FrameIs
<1>2. stack \in Stacks /\ cpu \in Contexts
  BY DEF HeapInv, RestTyped
<1>3. Replaced(stack, stack', cpu, <<f>> \o stack[cpu])
  BY StackedIs DEF Push
<1> HIDE DEF f
<1>4. f.at \notin Timed
  BY <1>1
<1> QED BY <1>1, <1>2, <1>3, <1>4, PushSettles

(* A thread that is taken out of its heap was not at the running one's.     *)
RootOf(h, t) == h # <<>> /\ Head(h) = t

LEMMA RootOfIs ==
    ASSUME NEW h \in Seq(Threads), NEW t
    PROVE  RootOf(h, t) <=> Len(h) > 0 /\ h[1] = t
BY DEF RootOf

LEMMA WithoutKeepsRoot ==
    ASSUME HeapInv, NEW t \in Threads \ Woken(stack), NEW hs \in Without(t),
           NEW k \in HeapTypes, NEW r, r # t, RootOf(heap[k], r)
    PROVE  RootOf(hs[k], r)
<1>1. heap \in AllHeaps /\ heap[k] \in Seq(Threads) /\ t \notin Inserts(stack)
  BY NotWoken DEF HeapInv, HeapsTyped, AllHeaps
<1>2. CASE ts[t] = k
  <2> DEFINE i == SlotOf(heap[k], t)
  <2>1. PICK g \in RemoveEvent(heap[k], time, i) : hs = [heap EXCEPT ![k] = g]
    <3>1. Once(heap[ts[t]], t)
      BY <1>1, <1>2, InHeap
    <3> QED BY <1>1, <1>2, <3>1, WithoutIs
  <2>2. hs[k] = g
    BY <1>1, <2>1 DEF AllHeaps
  <2>3. Once(heap[k], t) /\ i \in 1 .. Len(heap[k]) /\ heap[k][i] = t
    BY <1>1, <1>2, InHeap
  <2>4. Len(heap[k]) > 0 /\ heap[k][1] = r
    BY <1>1, RootOfIs
  <2>5. i # 1
    BY <2>3, <2>4
  <2>6. g[1] = heap[k][1] /\ Len(g) = Len(heap[k]) - 1
    BY <1>1, <2>1, <2>3, <2>5, RemoveKeepsRoot
  <2>7. g \in Seq(Threads)
    BY <1>1, <2>1, <2>3, RemoveIs
  <2>8. Len(g) > 0
    <3> HIDE DEF i
    <3>1. Len(heap[k]) \in Nat
      BY <1>1
    <3> QED BY <2>3, <2>5, <2>6, <3>1
  <2> QED BY <2>2, <2>4, <2>6, <2>7, <2>8, RootOfIs
<1>3. CASE ts[t] # k
  BY <1>1, <1>3 DEF Without, AllHeaps
<1> QED BY <1>2, <1>3

(* A thread that joins a heap at its root's time stays below the root.      *)
LEMMA JoinKeepsRoot ==
    ASSUME NEW h \in Seq(Threads), NEW r, RootOf(h, r), NEW times, NEW t \in Threads,
           times[t] = times[r], times[r] \in TIME, Absent(h, t), NEW g \in Siftup(h, times, t)
    PROVE  RootOf(g, r)
<1>1. Len(h) > 0 /\ h[1] = r /\ h # <<>>
  BY RootOfIs DEF RootOf
<1>2. ~CLESS(times[t], times[h[1]])
  BY <1>1, NotBeforeItself
<1>3. g[1] = h[1]
  BY <1>1, <1>2, SiftupKeepsRoot
<1>4. g \in Seq(Threads) /\ Once(g, t)
  BY SiftupIs
<1>5. Len(g) > 0
  <2>1. \E i \in 1 .. Len(g) : g[i] = t
    BY <1>4 DEF Once
  <2>2. Len(g) \in Nat
    BY <1>4
  <2> QED BY <2>1, <2>2
<1> QED BY <1>1, <1>3, <1>4, <1>5, RootOfIs

LEMMA MoveKeepsRoot ==
    ASSUME NEW h \in Seq(Threads), NEW r, RootOf(h, r), NEW times, NEW i \in 1 .. Len(h), NEW t,
           h[i] = t, times[t] = times[r], times[r] \in TIME, NEW g \in Climb(h, times, t, i)
    PROVE  RootOf(g, r)
<1>1. Len(h) > 0 /\ h[1] = r
  BY RootOfIs
<1>2. ~CLESS(times[t], times[h[1]])
  BY <1>1, NotBeforeItself
<1>3. g[1] = h[1]
  BY <1>2, ClimbKeepsRoot
<1>4. Shuffled(g, h, Threads)
  BY ClimbShuffles
<1> QED BY <1>1, <1>3, <1>4, RootOfIs DEF Shuffled
LEMMA QueueKeepsRoot ==
    ASSUME HeapInv, RootRuns, NEW t \in Threads \ Woken(stack), t # currtask, NEW hs \in Without(t),
           NEW ht \in HeapTypes, Queue(hs, t, ht, WakeTime(ht)), currtask' = currtask
    PROVE  RootRuns'
<1> SUFFICES ASSUME ts'[currtask] \in HeapTypes, currtask # IdleLoop
             PROVE  RootOf(heap'[ts'[currtask]], currtask)
  BY DEF RootRuns, RootOf
<1> DEFINE timed == [time EXCEPT ![t] = WakeTime(ht)]
           mid   == [ts EXCEPT ![t] = "Blocked"]
           k     == ts[currtask]
<1>1. /\ t \in Contexts /\ t \notin Inserts(stack) /\ currtask \in Threads /\ currtask \in Contexts
      /\ heap \in AllHeaps /\ ts \in AllStates /\ time \in [Contexts -> TIME]
      /\ Placed(heap, ts, Inserts(stack))
  BY NotWoken DEF HeapInv, HeapsTyped, RestTyped, Contexts
<1>2. /\ ts' = [ts EXCEPT ![t] = ht]
      /\ \E g \in Siftup(hs[ht], timed, t) : heap' = [hs EXCEPT ![ht] = g]
  BY DEF Queue
<1>3. ts'[currtask] = k /\ k \in HeapTypes
  BY <1>1, <1>2 DEF AllStates
<1>4. RootOf(heap[k], currtask)
  BY <1>3 DEF RootRuns, RootOf
<1>5. hs \in AllHeaps /\ Placed(hs, mid, Inserts(stack))
  BY <1>1, WithoutPlaced
<1>6. mid[t] = "Blocked"
  BY <1>1 DEF AllStates
<1> HIDE DEF k
<1>7. RootOf(hs[k], currtask)
  BY <1>3, <1>4, WithoutKeepsRoot
<1>8. PICK g \in Siftup(hs[ht], timed, t) : heap' = [hs EXCEPT ![ht] = g]
  BY <1>2
<1>9. CASE k = ht
  <2>1. heap'[k] = g
    BY <1>5, <1>8, <1>9 DEF AllHeaps
  <2>2. hs[ht] \in Seq(Threads) /\ Absent(hs[ht], t)
    BY <1>5, <1>6, StatesAre DEF AllHeaps, Placed
  <2>3. timed[t] = timed[currtask] /\ timed[currtask] \in TIME
    <3>1. heap[ht] # <<>> /\ Head(heap[ht]) = currtask
      BY <1>4, <1>9 DEF RootOf
    <3>2. WakeTime(ht) = time[currtask]
      BY <3>1 DEF WakeTime, RootTime
    <3> QED BY <1>1, <3>2
  <2> HIDE DEF timed
  <2> QED BY <1>3, <1>7, <1>8, <1>9, <2>1, <2>2, <2>3, JoinKeepsRoot
<1>10. CASE k # ht
  BY <1>3, <1>5, <1>7, <1>8, <1>10 DEF AllHeaps
<1> QED BY <1>3, <1>9, <1>10

LEMMA BlockKeepsRoot ==
    ASSUME HeapInv, RootRuns, NEW t \in Threads \ Woken(stack), Block(t), currtask' = currtask
    PROVE  RootRuns'
<1> SUFFICES ASSUME ts'[currtask] \in HeapTypes, currtask # IdleLoop
             PROVE  RootOf(heap'[ts'[currtask]], currtask)
  BY DEF RootRuns, RootOf
<1>1. t \in Contexts /\ currtask \in Contexts /\ ts \in AllStates
  BY DEF HeapInv, HeapsTyped, RestTyped, Contexts
<1>2. ts' = [ts EXCEPT ![t] = "Blocked"] /\ heap' \in Without(t)
  BY DEF Block
<1>3. t # currtask
  BY <1>1, <1>2, StatesAre DEF AllStates
<1>4. ts'[currtask] = ts[currtask]
  BY <1>1, <1>2, <1>3 DEF AllStates
<1>5. RootOf(heap[ts[currtask]], currtask)
  BY <1>4 DEF RootRuns, RootOf
<1> QED BY <1>2, <1>3, <1>4, <1>5, WithoutKeepsRoot

(* A heap in which a thread has moved up.                                  *)
LEMMA SortKeepsRoot ==
    ASSUME HeapInv, RootRuns, NEW ht \in HeapTypes, NEW g, Sorted(ht, g), ts' = ts, currtask' = currtask,
           RootOf(heap[ht], currtask) => RootOf(g, currtask)
    PROVE  RootRuns'
<1>1. heap \in AllHeaps
  BY DEF HeapInv, HeapsTyped
<1>2. heap'[ht] = g /\ \A k \in HeapTypes : k # ht => heap'[k] = heap[k]
  BY <1>1 DEF Sorted, AllHeaps
<1> QED BY <1>2 DEF RootRuns, RootOf

(* Steps that leave the heaps and the chosen thread alone.                 *)
LEMMA RootStays ==
    ASSUME RootInv, Settled(stack, stack'), UNCHANGED <<ts, heap, currtask>>
    PROVE  RootInv'
BY RootSettled DEF RootRuns

LEMMA ChargeRoot ==
    ASSUME HeapInv, RootInv, Charge
    PROVE  RootInv'
<1>1. At("charge") /\ Goto("flush") /\ "flush" \in Labels /\ "flush" \notin Timed /\ "charge" # "pick"
  BY DEF Charge, Labels, Timed
<1>2. Settled(stack, stack')
  BY <1>1, GotoSettles
<1> QED BY <1>2, RootStays DEF Charge, sched

LEMMA FlushRoot ==
    ASSUME HeapInv, RootInv, Flush
    PROVE  RootInv'
<1> DEFINE f == [Top EXCEPT !.at = "pick"]
<1>1. At("flush") /\ Goto("pick") /\ "pick" \in Labels /\ "pick" \notin Timed
  BY DEF Flush, Labels, Timed
<1>2. Lacks(stack', Timed)
  BY <1>1, GotoSettles
<1>3. /\ stack \in Stacks /\ cpu \in Contexts /\ stack[cpu] # <<>> /\ Top \in FrameType
      /\ OnlyOnTop(stack, Timed, cpu)
  BY <1>1, TopIs DEF HeapInv, RestTyped, RootInv
<1>4. f \in FrameType /\ f.at = "pick"
  BY <1>3 DEF FrameType, Labels
<1>5. Replaced(stack, stack', cpu, <<f>> \o Tail(stack[cpu]))
  BY <1>1, StackedIs DEF Goto
<1> HIDE DEF f
<1>6. /\ Len(stack[cpu]) \in Nat \ {0} /\ Len(stack'[cpu]) = Len(stack[cpu])
      /\ Deep(stack'[cpu], Len(stack[cpu])) = f
  BY <1>3, <1>4, <1>5, TopChanges
<1>7. ~Lacks(stack', {"pick"})
  BY <1>3, <1>4, <1>6 DEF Lacks
<1> QED BY <1>2, <1>7, RootFresh

LEMMA PickRoot ==
    ASSUME HeapInv, RootInv, Pick
    PROVE  RootInv'
<1>1. At("pick") /\ Goto("switch") /\ "switch" \in Labels /\ "switch" \notin Timed
  BY DEF Pick, Labels, Timed
<1>2. Lacks(stack', Timed)
  BY <1>1, GotoSettles
<1>3. \/ \E ht \in HeapTypes : heap[ht] # <<>> /\ currtask' = Head(heap[ht])
      \/ currtask' = IdleLoop
  BY StatesAre DEF Pick
<1>4. UNCHANGED <<ts, heap>>
  BY DEF Pick, heaps
<1>5. RootRuns'
  <2>1. CASE currtask' = IdleLoop
    BY <2>1 DEF RootRuns
  <2>2. ASSUME NEW ht \in HeapTypes, heap[ht] # <<>>, currtask' = Head(heap[ht]) PROVE RootRuns'
    <3>1. ts[Head(heap[ht])] = ht
      BY <2>2, QueuedIsNotWoken
    <3> QED BY <1>4, <2>2, <3>1 DEF RootRuns
  <2> QED BY <1>3, <2>1, <2>2
<1> QED BY <1>2, <1>5, RootFresh

LEMMA TimerRoot ==
    ASSUME HeapInv, RootInv, "unlocked irq" \notin Allowed, "preempted wake" \notin Allowed, Timer
    PROVE  RootInv'
<1>1. Idling \/ Top.at \notin Timed
  BY DEF Timer, Interruptible, At, Timed
<1>2. Settled(stack, stack')
  BY <1>1, NotTimed, ServiceSettles DEF Timer
<1> QED BY <1>2, RootStays DEF Timer, heaps

LEMMA QuantumDoneRoot ==
    ASSUME HeapInv, RootInv, QuantumDone
    PROVE  RootInv'
<1>1. Idling /\ stack[cpu] = <<>>
  BY DEF QuantumDone, Idling
<1>2. Settled(stack, stack')
  BY <1>1, NotTimed, ServiceSettles DEF QuantumDone
<1> QED BY <1>2, RootStays DEF QuantumDone, heaps

LEMMA SwitchRoot ==
    ASSUME HeapInv, RootInv, Switch
    PROVE  RootInv'
<1> DEFINE left    == [stack EXCEPT ![cpu] = <<[Top EXCEPT !.at = "away"]>> \o Tail(@)]
           resumed == left[currtask]
           tunnel  == Len(resumed) > 1 /\ resumed[2].at = "tunnel"
           f       == [Top EXCEPT !.at = "away"]
<1>1. /\ stack \in Stacks /\ cpu \in Contexts /\ currtask \in Contexts
      /\ stack[cpu] # <<>> /\ Head(stack[cpu]).at = "switch" /\ OnlyOnTop(stack, Timed, cpu)
      /\ Parked(stack, cpu) /\ Top \in FrameType
  <2>1. At("switch")
    BY DEF Switch
  <2> QED BY <2>1, TopIs DEF HeapInv, RestTyped, RootInv, Top
<1>2. Lacks(stack, Hasty)
  <2>1. Top.at \notin Hasty
    BY DEF Switch, At, Hasty
  <2> QED BY <2>1, NotHasty
<1>3. /\ Replaced(stack, left, cpu, <<[Head(stack[cpu]) EXCEPT !.at = "away"]>> \o Tail(stack[cpu]))
      /\ Replaced(stack, left, cpu, <<f>> \o Tail(stack[cpu]))
  BY DEF Replaced, Top
<1>4. \/ resumed = <<>> /\ stack' = left
      \/ /\ resumed # <<>>
         /\ stack' = [left EXCEPT ![currtask] = SubSeq(@, IF tunnel THEN 3 ELSE 2, Len(@))]
  BY DEF Switch
<1>5. f \in FrameType /\ f.at = "away"
  BY <1>1 DEF FrameType, Labels
<1> HIDE DEF left, f
<1>6. left \in Stacks /\ \A x \in Contexts : left[x] # <<>> => Deep(left[x], Len(left[x])).at = "away"
  BY <1>1, <1>2, <1>3, LeftIs
<1>7. Lacks(left, Timed) /\ NoNew(left, stack, {"pick"})
  <2>1. /\ f.at \notin Timed => Lacks(left, Timed)
        /\ Head(stack[cpu]).at # "pick" => NoNew(left, stack, {"pick"})
    BY <1>1, <1>3, <1>5, TopTimed
  <2> QED BY <1>1, <1>5, <2>1 DEF Timed
<1>8. CASE resumed = <<>>
  <2>1. Settled(stack, stack')
    BY <1>4, <1>7, <1>8 DEF Settled
  <2> QED BY <2>1, RootStays DEF Switch
<1>9. CASE resumed # <<>>
  <2> DEFINE k == IF tunnel THEN 3 ELSE 2
  <2>1. Dropped(left, stack', currtask, k)
    BY <1>4, <1>9 DEF Dropped
  <2>2. k \in {2, 3} /\ (k = 3 => Len(left[currtask]) > 1 /\ left[currtask][2].at = "tunnel")
    OBVIOUS
  <2>3. Deep(left[currtask], Len(left[currtask])).at = "away"
    BY <1>1, <1>6, <1>9
  <2> HIDE DEF k
  <2>4. /\ "away" \notin Timed /\ "tunnel" \notin Timed
        /\ "away" \notin {"pick"} /\ "tunnel" \notin {"pick"}
    BY DEF Timed
  <2>5. NoNew(left, stack', Timed)
    BY <1>1, <1>6, <1>9, <2>1, <2>2, <2>3, <2>4, DroppedKeeps
  <2>6. NoNew(stack', left, {"pick"})
    BY <1>1, <1>6, <1>9, <2>1, <2>2, <2>3, <2>4, DroppedKeeps
  <2>7. Settled(stack, stack')
    <3>1. Lacks(stack', Timed)
      BY <1>7, <2>5 DEF NoNew, Lacks
    <3>2. NoNew(stack', stack, {"pick"})
      BY <1>7, <2>6, NoNewTwice
    <3> QED BY <3>1, <3>2 DEF Settled
  <2> QED BY <2>7, RootStays DEF Switch
<1> QED BY <1>8, <1>9
LEMMA IRQRoot ==
    ASSUME HeapInv, RootInv, "race" \notin Allowed, "unqueued" \notin Allowed,
           "self" \notin Allowed, "unlocked irq" \notin Allowed,
           "preempted wake" \notin Allowed, NEW h \in Drivers, IRQ(h)
    PROVE  RootInv'
<1>1. Lacks(stack, Timed)
  <2>1. Idling \/ Top.at \notin Timed
    BY DEF IRQ, Interruptible, At, Timed
  <2> QED BY <2>1, NotTimed
<1>2. h \in Threads /\ h \in Contexts /\ h \notin Woken(stack) /\ h \notin Inserts(stack)
  <2>1. h \in Threads /\ h \in Contexts /\ stack \in Stacks
    BY DEF Contexts, HeapInv
  <2>2. ~BeingWoken(h)
    BY DEF IRQ, MayWake, MayMeet
  <2> QED BY <2>1, <2>2, BeingWokenIs, NotWoken
<1>3. Settled(stack, stack')
  <2>1. Push("prioritise", h) \/ Push("irq end", h)
    BY DEF IRQ
  <2>2. "prioritise" \in Labels \ Timed /\ "irq end" \in Labels \ Timed
    BY DEF Labels, Timed
  <2> QED BY <1>1, <1>2, <2>1, <2>2, PushedSettles
<1>4. currtask' = currtask
  BY DEF IRQ, sched
<1>5. ASSUME RootRuns PROVE RootRuns'
  <2>1. CASE ts[h] = "Blocked"
    <3>1. Queue(heap, h, "Running", WakeTime("Running")) /\ heap \in Without(h) /\ h # currtask
      BY <2>1, StatesAre DEF IRQ, MayWake, Without
    <3>2. "Running" \in HeapTypes
      BY StatesAre
    <3> QED BY <1>2, <1>4, <1>5, <3>1, <3>2, QueueKeepsRoot
  <2>2. CASE ts[h] = "Running"
    <3> DEFINE i == SlotOf(heap["Running"], h)
    <3>2. /\ i \in 1 .. Len(heap["Running"]) /\ heap["Running"][i] = h /\ Once(heap["Running"], h)
          /\ heap["Running"] \in Seq(Threads) /\ heap["Running"] # <<>>
      BY <1>2, <2>2, InHeap, StatesAre DEF HeapInv, HeapsTyped, AllHeaps
    <3>1. /\ ts' = ts /\ time' = [time EXCEPT ![h] = RootTime("Running")]
          /\ \E g \in Prioritise(heap["Running"], time', i) : heap' = [heap EXCEPT !["Running"] = g]
      BY <1>2, <2>2, <3>2, IRQIs
    <3> HIDE DEF i
    <3>3. PICK g \in Climb(heap["Running"], time', h, i) : heap' = [heap EXCEPT !["Running"] = g]
      BY <3>1, <3>2 DEF Prioritise
    <3>4. ASSUME RootOf(heap["Running"], currtask) PROVE RootOf(g, currtask)
      <4>1. RootTime("Running") = time[currtask] /\ RootTime("Running") \in TIME
            /\ currtask \in Contexts
        BY <3>2, <3>4, RootsAre, StatesAre DEF RootTime, RootOf, HeapInv, RestTyped
      <4>2. time'[h] = time'[currtask] /\ time'[currtask] \in TIME
        BY <1>2, <3>1, <4>1 DEF HeapInv, HeapsTyped
      <4> QED BY <3>2, <3>3, <3>4, <4>2, MoveKeepsRoot
    <3>5. Sorted("Running", g) /\ "Running" \in HeapTypes
      BY <3>3, StatesAre DEF Sorted
    <3> QED BY <1>4, <1>5, <3>1, <3>4, <3>5, SortKeepsRoot
  <2>3. CASE ts[h] \in {"RealTime", "Idle"}
    <3>1. UNCHANGED <<ts, heap>>
      BY <2>3 DEF IRQ
    <3> QED BY <1>4, <1>5, <3>1 DEF RootRuns
  <2> QED BY <2>1, <2>2, <2>3 DEF IRQ
<1> QED BY <1>3, <1>5, RootSettled

(* The top frame goes on to one of Timed: it has set the root's time.       *)
LEMMA RootTimed ==
    ASSUME HeapInv, RootInv, cpu' = cpu, NEW f \in FrameType,
           Replaced(stack, stack', cpu, <<f>> \o Tail(stack[cpu])),
           stack[cpu] # <<>>, Head(stack[cpu]).at # "pick", RootRuns => RootRuns',
           heap'["Running"] # <<>> => time'[f.who] = RootTime("Running")'
    PROVE  RootInv'
<1>1. stack \in Stacks /\ cpu \in Contexts /\ OnlyOnTop(stack, Timed, cpu)
  BY DEF HeapInv, RestTyped, RootInv
<1>2. /\ OnlyOnTop(stack', Timed, cpu) /\ Deep(stack'[cpu], Len(stack'[cpu])) = f
      /\ NoNew(stack', stack, {"pick"})
  BY <1>1, TopTimed
<1>3. Lacks(stack', {"pick"}) => Lacks(stack, {"pick"})
  BY <1>2 DEF NoNew, Lacks
<1>4. ASSUME NEW x \in Contexts, NEW d \in 1 .. Len(stack'[x]), Deep(stack'[x], d).at \in Timed
      PROVE  HasRootTime(Deep(stack[x], d))'
  <2>1. Deep(stack'[x], d) = f
    BY <1>2, <1>4 DEF OnlyOnTop
  <2> QED BY <2>1 DEF HasRootTime
<1> QED BY <1>2, <1>3, <1>4 DEF RootInv, HasRootTime

LEMMA TopHasRootTime ==
    ASSUME HeapInv, RootInv, NEW label \in Timed, At(label), heap["Running"] # <<>>
    PROVE  time[Top.who] = RootTime("Running")
<1>1. /\ Len(stack[cpu]) \in 1 .. Len(stack[cpu]) /\ cpu \in Contexts
      /\ Deep(stack[cpu], Len(stack[cpu])) = Top /\ Top.at \in Timed
  BY TopIs DEF HeapInv, RestTyped
<1>2. HasRootTime(Deep(stack[cpu], Len(stack[cpu])))
  BY <1>1 DEF RootInv
<1> QED BY <1>1, <1>2 DEF HasRootTime

(* Setting the time of a thread to the root's does not change the root's.   *)
LEMMA RootTimeStays ==
    ASSUME HeapInv, NEW t \in Contexts, heap["Running"] # <<>>, heap' = heap,
           time' = [time EXCEPT ![t] = RootTime("Running")]
    PROVE  time'[t] = RootTime("Running")' /\ RootTime("Running")' = RootTime("Running")
<1>1. Head(heap["Running"]) \in Contexts /\ time \in [Contexts -> TIME]
  BY RootsAre, StatesAre DEF HeapInv, HeapsTyped, Contexts
<1>2. RootTime("Running") = time[Head(heap["Running"])]
  BY DEF RootTime
<1>3. time'[t] = RootTime("Running") /\ time'[Head(heap["Running"])] = RootTime("Running")
  BY <1>1, <1>2
<1> QED BY <1>3 DEF RootTime

LEMMA PrioritiseUnlockedRoot ==
    ASSUME HeapInv, RootInv, PrioritiseUnlocked
    PROVE  RootInv'
<1>1. At("prioritise") /\ "prioritise" \in Hasty
  BY DEF PrioritiseUnlocked, Hasty
<1>2. /\ Top.who \in Threads /\ ts[Top.who] = "Running" /\ Top.who \notin Inserts(stack)
      /\ Top.who \in Contexts
  BY <1>1, TopIsHasty DEF HastyIs, Contexts
<1> DEFINE f == [at |-> "climb", who |-> Top.who, slot |-> SlotOf(heap["Running"], Top.who)]
<1>3. /\ heap["Running"] # <<>>
      /\ SlotOf(heap["Running"], Top.who) \in 1 .. Len(heap["Running"])
      /\ heap["Running"] \in Seq(Threads)
  BY <1>2, InHeap, StatesAre DEF HeapInv, HeapsTyped, AllHeaps
<1>4. time' = [time EXCEPT ![Top.who] = RootTime("Running")]
      /\ Stacked(<<f>> \o Tail(stack[cpu])) /\ UNCHANGED <<ts, heap, cpu, currtask>>
  BY <1>2, UnlockedIs DEF PrioritiseUnlocked, sched
<1>5. f \in FrameType /\ f.who = Top.who
  <2>1. SlotOf(heap["Running"], Top.who) \in Nat
    BY <1>3
  <2> QED BY <1>2, <2>1 DEF FrameType, Labels
<1>6. Replaced(stack, stack', cpu, <<f>> \o Tail(stack[cpu]))
  BY <1>4, StackedIs
<1> HIDE DEF f
<1>7. stack[cpu] # <<>> /\ Head(stack[cpu]).at # "pick"
  BY <1>1, TopIs DEF Top
<1>8. time'[f.who] = RootTime("Running")'
  <2>1. time'[Top.who] = RootTime("Running")'
    BY <1>2, <1>3, <1>4, RootTimeStays
  <2> QED BY <1>5, <2>1
<1>9. RootRuns => RootRuns'
  BY <1>4 DEF RootRuns
<1> QED BY <1>4, <1>5, <1>6, <1>7, <1>8, <1>9, RootTimed

LEMMA ClimbUnlockedRoot ==
    ASSUME HeapInv, RootInv, ClimbUnlocked
    PROVE  RootInv'
<1>1. At("climb") /\ Goto("irq end") /\ "irq end" \in Labels /\ "irq end" \notin Timed /\ "climb" # "pick"
  BY DEF ClimbUnlocked, Labels, Timed
<1>2. Settled(stack, stack')
  BY <1>1, GotoSettles
<1>3. Top.slot \in 1 .. Len(heap["Running"]) /\ heap["Running"][Top.slot] = Top.who
  BY <1>1, TopIsHasty DEF HastyIs, At, Hasty
<1>4. heap["Running"] \in Seq(Threads) /\ heap["Running"] # <<>>
  BY <1>3, StatesAre DEF HeapInv, HeapsTyped, AllHeaps
<1>5. PICK g \in Climb(heap["Running"], time, Top.who, Top.slot) :
         heap' = [heap EXCEPT !["Running"] = g]
  BY DEF ClimbUnlocked
<1>6. ASSUME RootOf(heap["Running"], currtask) PROVE RootOf(g, currtask)
  <2>1. time[Top.who] = RootTime("Running")
    BY <1>1, <1>4, TopHasRootTime DEF Timed
  <2>2. RootTime("Running") = time[currtask] /\ RootTime("Running") \in TIME
    BY <1>4, <1>6, RootsAre, StatesAre DEF RootTime, RootOf
  <2>3. time[Top.who] = time[currtask] /\ time[currtask] \in TIME
    BY <2>1, <2>2
  <2> QED BY <1>3, <1>4, <1>5, <1>6, <2>3, MoveKeepsRoot
<1>7. Sorted("Running", g) /\ "Running" \in HeapTypes /\ ts' = ts /\ currtask' = currtask
  BY <1>5, StatesAre DEF Sorted, ClimbUnlocked, sched
<1>8. RootRuns => RootRuns'
  BY <1>6, <1>7, SortKeepsRoot
<1> QED BY <1>2, <1>8, RootSettled

LEMMA IrqEndRoot ==
    ASSUME HeapInv, RootInv, IrqEnd
    PROVE  RootInv'
<1>1. /\ stack \in Stacks /\ cpu \in Contexts /\ stack[cpu] # <<>>
      /\ Head(stack[cpu]).at = "irq end" /\ currtask \in Contexts
      /\ OnlyOnTop(stack, Timed, cpu)
  BY TopIs DEF IrqEnd, HeapInv, RestTyped, Top, RootInv
<1>2. \/ Stacked(Tail(stack[cpu]))
      \/ Stacked(<<Frame("charge", currtask)>> \o Tail(stack[cpu]))
  BY DEF IrqEnd, TimerService, Return
<1>3. Settled(stack, stack')
  <2>1. CASE Stacked(Tail(stack[cpu]))
    <3>1. Replaced(stack, stack', cpu, Tail(stack[cpu]))
      BY <2>1, StackedIs
    <3> QED BY <1>1, <3>1, PopSettles
  <2>2. CASE Stacked(<<Frame("charge", currtask)>> \o Tail(stack[cpu]))
    <3> DEFINE f == Frame("charge", currtask)
    <3>1. f \in FrameType /\ f.at = "charge"
      <4>1. "charge" \in Labels
        BY DEF Labels
      <4> QED BY <1>1, <4>1, FrameIs
    <3>2. Replaced(stack, stack', cpu, <<f>> \o Tail(stack[cpu]))
      BY <2>2, StackedIs
    <3> HIDE DEF f
    <3>3. /\ f.at \notin Timed => Lacks(stack', Timed)
          /\ Head(stack[cpu]).at # "pick" => NoNew(stack', stack, {"pick"})
      BY <1>1, <3>1, <3>2, TopTimed
    <3> QED BY <1>1, <3>1, <3>3 DEF Settled, Timed
  <2> QED BY <1>2, <2>1, <2>2
<1> QED BY <1>3, RootStays DEF IrqEnd, heaps

LEMMA WakeRoot ==
    ASSUME HeapInv, RootInv, NEW t \in Threads, Wake(t)
    PROVE  RootInv'
<1>1. Push("mark", t) /\ t \in Contexts /\ "mark" \in Labels \ Timed
  BY DEF Wake, Contexts, Labels, Timed
<1>2. Lacks(stack, Timed)
  BY NotTimed DEF Wake
<1>3. Settled(stack, stack')
  BY <1>1, <1>2, PushedSettles
<1> QED BY <1>3, RootStays DEF Wake, heaps, sched
LEMMA MarkRoot ==
    ASSUME HeapInv, RootInv, Mark
    PROVE  RootInv'
<1> DEFINE f == [Top EXCEPT !.at = "insert"]
<1>1. /\ stack[cpu] # <<>> /\ Top \in FrameType /\ Head(stack[cpu]).at # "pick"
  BY TopIs DEF Mark, Top
<1>2. Top.who \in Threads /\ Top.who # currtask /\ Top.who \in Contexts
  BY TopWakes DEF Mark, Wakes, Contexts
<1>3. f \in FrameType /\ f.who = Top.who
  BY <1>1 DEF FrameType, Labels
<1>4. Replaced(stack, stack', cpu, <<f>> \o Tail(stack[cpu]))
  BY StackedIs DEF Mark, Goto
<1> HIDE DEF f
<1>5. /\ heap' = heap /\ currtask' = currtask /\ cpu' = cpu
      /\ ts' = [ts EXCEPT ![Top.who] = "Running"]
      /\ time' = [time EXCEPT ![Top.who] = WakeTime("Running")]
  BY DEF Mark, sched
<1>6. ts'[currtask] = ts[currtask]
  BY <1>2, <1>5 DEF HeapInv, HeapsTyped, RestTyped, AllStates
<1>7. RootRuns => RootRuns'
  BY <1>5, <1>6 DEF RootRuns
<1>8. ASSUME heap'["Running"] # <<>> PROVE time'[f.who] = RootTime("Running")'
  <2>1. time' = [time EXCEPT ![Top.who] = RootTime("Running")] /\ heap["Running"] # <<>>
    BY <1>5, <1>8 DEF WakeTime
  <2>2. time'[Top.who] = RootTime("Running")'
    BY <1>2, <1>5, <2>1, RootTimeStays
  <2> QED BY <1>3, <2>2
<1> QED BY <1>1, <1>3, <1>4, <1>5, <1>7, <1>8, RootTimed

LEMMA InsertRoot ==
    ASSUME HeapInv, RootInv, Insert
    PROVE  RootInv'
<1>1. /\ stack \in Stacks /\ cpu \in Contexts /\ stack[cpu] # <<>> /\ At("insert")
      /\ Head(stack[cpu]).at # "pick" /\ OnlyOnTop(stack, Timed, cpu)
  BY TopIs DEF Insert, HeapInv, RestTyped, Top, RootInv
<1>2. Replaced(stack, stack', cpu, Tail(stack[cpu]))
  BY StackedIs DEF Insert, Return
<1>3. Settled(stack, stack')
  BY <1>1, <1>2, PopSettles
<1>4. Top.who \in Threads /\ Top.who \in Inserts(stack)
  BY <1>1, TopWakes DEF Wakes
<1>5. heap["Running"] \in Seq(Threads) /\ Absent(heap["Running"], Top.who)
  BY <1>4, StatesAre DEF HeapInv, HeapsTyped, AllHeaps, Placed
<1>6. PICK g \in Siftup(heap["Running"], time, Top.who) : heap' = [heap EXCEPT !["Running"] = g]
  BY DEF Insert
<1>7. ASSUME RootOf(heap["Running"], currtask) PROVE RootOf(g, currtask)
  <2>1. heap["Running"] # <<>> /\ RootTime("Running") = time[currtask] /\ RootTime("Running") \in TIME
    BY <1>7, RootsAre, StatesAre DEF RootTime, RootOf
  <2>2. time[Top.who] = RootTime("Running")
    BY <1>1, <2>1, TopHasRootTime DEF Timed
  <2>3. time[Top.who] = time[currtask] /\ time[currtask] \in TIME
    BY <2>1, <2>2
  <2> QED BY <1>4, <1>5, <1>6, <1>7, <2>3, JoinKeepsRoot
<1>8. Sorted("Running", g) /\ "Running" \in HeapTypes /\ ts' = ts /\ currtask' = currtask
  BY <1>6, StatesAre DEF Sorted, Insert, sched
<1>9. RootRuns => RootRuns'
  BY <1>7, <1>8, SortKeepsRoot
<1> QED BY <1>3, <1>9, RootSettled

(* System calls that leave the stacks as they are.                         *)
LEMMA IdleSettles ==
    ASSUME HeapInv, RootInv, Idling, stack' = stack
    PROVE  Settled(stack, stack')
<1>1. Lacks(stack, Timed)
  BY NotTimed
<1> QED BY <1>1 DEF Settled, NoNew

LEMMA SetThreadStateRoot ==
    ASSUME HeapInv, RootInv, "race" \notin Allowed, "unqueued" \notin Allowed,
           "self" \notin Allowed, NEW t \in Threads, NEW state \in States, SetThreadState(t, state)
    PROVE  RootInv'
<1>1. Settled(stack, stack')
  BY IdleSettles DEF SetThreadState
<1>2. t \in Threads \ Woken(stack) /\ currtask' = currtask
  BY NobodyMeets DEF SetThreadState, sched, HeapInv, Contexts
<1>3. ASSUME RootRuns PROVE RootRuns'
  <2>1. CASE UNCHANGED heaps
    BY <1>2, <1>3, <2>1 DEF heaps, RootRuns
  <2>2. CASE Block(t)
    BY <1>2, <1>3, <2>2, BlockKeepsRoot
  <2>3. CASE /\ state # "Blocked" /\ ts[t] # state
             /\ \E hs \in Without(t) : Queue(hs, t, state, WakeTime(state))
    <3>1. t # currtask /\ state \in HeapTypes
      BY <2>3, StatesAre DEF SetThreadState
    <3> QED BY <1>2, <1>3, <2>3, <3>1, QueueKeepsRoot
  <2> QED BY <2>1, <2>2, <2>3 DEF SetThreadState
<1> QED BY <1>1, <1>3, RootSettled

LEMMA SetDeadlineRoot ==
    ASSUME HeapInv, RootInv, NEW d \in Deadlines, SetDeadline(d)
    PROVE  RootInv'
<1>1. Settled(stack, stack')
  BY IdleSettles DEF SetDeadline, proc
<1> QED BY <1>1, RootStays DEF SetDeadline, sched

LEMMA TunnelConservativeRoot ==
    ASSUME HeapInv, RootInv, TunnelConservative
    PROVE  RootInv'
<1>1. Settled(stack, stack')
  BY IdleSettles DEF TunnelConservative
<1> QED BY <1>1, RootStays DEF TunnelConservative, heaps

LEMMA ScheduleSettles ==
    ASSUME NEW S \in Stacks, NEW c \in Contexts, S[c] = <<>>, Lacks(S, Timed),
           NEW R, Replaced(S, R, c, <<Frame("charge", c), Frame("tunnel", c)>>)
    PROVE  R \in Stacks /\ Settled(S, R)
<1>1. "charge" \notin Timed /\ "tunnel" \notin Timed
  BY DEF Timed
<1>2. R \in Stacks /\ NoNew(S, R, Timed) /\ NoNew(R, S, {"pick"})
  BY <1>1, ScheduleKeeps
<1> QED BY <1>2, SettledKept

LEMMA TunnelSwappingRoot ==
    ASSUME HeapInv, RootInv, NEW t \in Threads, TunnelSwapping(t)
    PROVE  RootInv'
<1>1. /\ stack \in Stacks /\ cpu \in Contexts /\ stack[cpu] = <<>> /\ cpu = currtask
      /\ Lacks(stack, Timed)
  BY IdlingIs, NotTimed DEF TunnelSwapping, HeapInv, RestTyped, Idling
<1>2. Settled(stack, stack')
  <2>1. Replaced(stack, stack', cpu, <<Frame("charge", cpu), Frame("tunnel", cpu)>>)
    BY StackedIs DEF TunnelSwapping
  <2> QED BY <1>1, <2>1, ScheduleSettles
<1>3. currtask' = currtask /\ t # cpu
  BY DEF TunnelSwapping, sched
<1>4. \/ ts' = [ts EXCEPT ![cpu] = "Blocked"]
      \/ ts' = [ts EXCEPT ![cpu] = "Blocked", ![t] = "Running"]
  BY DEF TunnelSwapping
<1>5. ts'[currtask] = "Blocked"
  BY <1>1, <1>3, <1>4 DEF HeapInv, HeapsTyped, AllStates
<1>6. RootRuns'
  BY <1>3, <1>5, StatesAre DEF RootRuns
<1> QED BY <1>2, <1>6, RootSettled

LEMMA TunnelUnblockingRoot ==
    ASSUME HeapInv, RootInv, NEW t \in Threads, TunnelUnblocking(t)
    PROVE  RootInv'
<1> DEFINE schedule == <<Frame("charge", cpu), Frame("tunnel", cpu)>>
           mid      == [stack EXCEPT ![cpu] = schedule]
<1>1. /\ stack \in Stacks /\ cpu \in Contexts /\ t \in Contexts /\ stack[cpu] = <<>>
      /\ Lacks(stack, Timed)
  BY NotTimed DEF TunnelUnblocking, HeapInv, RestTyped, Contexts, Idling
<1>2. Replaced(stack, mid, cpu, <<Frame("charge", cpu), Frame("tunnel", cpu)>>) /\ mid[cpu] = schedule
  BY <1>1 DEF Replaced, Stacks
<1>3. Stacked(IF ts[t] = "Blocked" THEN <<Frame("mark", t)>> \o schedule ELSE schedule)
  BY DEF TunnelUnblocking
<1> HIDE DEF schedule
<1>4. \/ stack' = mid
      \/ Replaced(mid, stack', cpu, <<Frame("mark", t)>> \o mid[cpu])
  BY <1>1, <1>2, <1>3 DEF Stacked, Replaced, Stacks
<1> HIDE DEF mid
<1>5. mid \in Stacks /\ Settled(stack, mid)
  BY <1>1, <1>2, ScheduleSettles
<1>6. Settled(stack, stack')
  <2>1. CASE stack' = mid
    BY <1>5, <2>1
  <2>2. CASE Replaced(mid, stack', cpu, <<Frame("mark", t)>> \o mid[cpu])
    <3> DEFINE f == Frame("mark", t)
    <3>1. f \in FrameType /\ f.at = "mark"
      <4>1. "mark" \in Labels
        BY DEF Labels
      <4> QED BY <1>1, <4>1, FrameIs
    <3>2. Replaced(mid, stack', cpu, <<f>> \o mid[cpu])
      BY <2>2
    <3> HIDE DEF f
    <3>3. f.at \notin Timed /\ Lacks(mid, Timed)
      BY <1>5, <3>1 DEF Timed, Settled
    <3>4. Settled(mid, stack')
      BY <1>1, <1>5, <3>1, <3>2, <3>3, PushSettles
    <3> QED BY <1>5, <3>4, NoNewTwice DEF Settled
  <2> QED BY <1>4, <2>1, <2>2
<1> QED BY <1>6, RootStays DEF TunnelUnblocking, heaps, sched

LEMMA RootNext ==
    ASSUME HeapInv, RootInv, "race" \notin Allowed, "unqueued" \notin Allowed,
           "self" \notin Allowed,
           "unlocked irq" \notin Allowed, "preempted wake" \notin Allowed, [Next]_vars
    PROVE  RootInv'
<1>1. CASE KernelStep
  BY <1>1, ChargeRoot, FlushRoot, PickRoot, SwitchRoot, PrioritiseUnlockedRoot,
     ClimbUnlockedRoot, IrqEndRoot, MarkRoot, InsertRoot DEF KernelStep
<1>2. CASE SystemCall
  <2>1. CASE QuantumDone \/ TunnelConservative
    BY <2>1, QuantumDoneRoot, TunnelConservativeRoot
  <2>2. ASSUME NEW t \in Threads, Wake(t) \/ TunnelSwapping(t) \/ TunnelUnblocking(t)
        PROVE  RootInv'
    BY <2>2, WakeRoot, TunnelSwappingRoot, TunnelUnblockingRoot
  <2>3. ASSUME NEW t \in Threads, NEW state \in States, SetThreadState(t, state)
        PROVE  RootInv'
    BY <2>3, SetThreadStateRoot
  <2>4. ASSUME NEW d \in Deadlines, SetDeadline(d)
        PROVE  RootInv'
    BY <2>4, SetDeadlineRoot
  <2> QED BY <1>2, <2>1, <2>2, <2>3, <2>4 DEF SystemCall
<1>3. CASE Timer
  BY <1>3, TimerRoot
<1>4. CASE \E h \in Drivers : IRQ(h)
  BY <1>4, IRQRoot
<1>5. CASE UNCHANGED vars
  <2>1. UNCHANGED <<ts, time, heap, currtask, cpu, stack>>
    BY <1>5 DEF vars, heaps, sched, proc
  <2> QED BY <2>1 DEF RootInv, RootRuns, HasRootTime, RootTime
<1> QED BY <1>1, <1>2, <1>3, <1>4, <1>5 DEF Next

LEMMA RootInit ==
    ASSUME Init
    PROVE  RootInv
<1>1. \A x \in Contexts : Len(stack[x]) = 0
  BY DEF Init
<1>2. currtask = IdleLoop
  BY DEF Init
<1> QED BY <1>1, <1>2 DEF RootInv, RootRuns, OnlyOnTop

(* CKflushPrevTask charges currtask and sinks whatever is at the root of    *)
(* its heap: the thread that ran is still there, though threads were woken, *)
(* prioritised, blocked and moved between the heaps while it did.  It needs *)
(* the hypotheses of ThreadsAreQueued, and that the time a woken thread has *)
(* been given is not stale when it is queued.                              *)
THEOREM RootsRun ==
    ASSUME "race" \notin Allowed, "unqueued" \notin Allowed,
           "self" \notin Allowed, "unlocked irq" \notin Allowed,
           "preempted wake" \notin Allowed
    PROVE  Spec => []RunningIsRoot
<1>1. Init => HeapInv /\ RootInv
  BY HeapInit, RootInit
<1>2. (HeapInv /\ RootInv) /\ [Next]_vars => (HeapInv /\ RootInv)'
  BY HeapNext, RootNext
<1>3. HeapInv /\ RootInv => RunningIsRoot
  BY RootIs
<1> QED BY <1>1, <1>2, <1>3, PTL DEF Spec

-----------------------------------------------------------------------------
(* A timesharing thread becomes a realtime thread on request.  What makes   *)
(* that inductive: between two context switches the time in the thread      *)
(* object is the one at which the thread was chosen, unless it wrote a       *)
(* deadline; a thread that never ran has the kernel's time in its object;   *)
(* and the frames of the scheduler work on the thread they run for.         *)
In(label) == \E d \in 1 .. Len(stack[cpu]) : Deep(stack[cpu], d).at = label

Late == {"mark", "prioritise"}

NeverRan(S, c, t) == t # c /\ S[t] = <<>>

Owned(S, c) ==
    \A x \in Contexts : \A d \in 1 .. Len(S[x]) :
        /\ Deep(S[x], d).at \in Odd => Deep(S[x], d).who = x
        /\ Deep(S[x], d).at \in Late => ~NeverRan(S, c, Deep(S[x], d).who)

ObjectTime ==
    IF currtask \in asked THEN CLESS(lasttime, utime[currtask])
                          ELSE utime[currtask] = lasttime

QuantumTime ==
    ts[currtask] = "Running"
        => /\ (In("switch") => time[currtask] = lasttime)
           /\ ~In("pick") /\ ~In("switch") => ObjectTime

FreshTime ==
    \A t \in Threads : Fresh(t) /\ ts[t] = "Running" => utime[t] = time[t]

Charged == In("flush") => At("flush") /\ time[currtask] = utime[currtask]

DeadlineInv == Owned(stack, cpu) /\ QuantumTime /\ FreshTime /\ Charged

DeadlineBase == HeapInv /\ StacksAre /\ RootInv

(* The stacks R have the frame f on that of c, and no other that S has not. *)
Adds(S, R, c, f) ==
    /\ R \in Stacks
    /\ \A x \in Contexts : x # c => R[x] = S[x]
    /\ \A d \in 1 .. Len(R[c]) :
          Deep(R[c], d) = f \/ (d \in 1 .. Len(S[c]) /\ Deep(R[c], d) = Deep(S[c], d))

(* The steps that leave the processor where it is.                         *)
Switches == {"pick", "switch"}

LEMMA PushAdds ==
    ASSUME NEW S \in Stacks, NEW c \in Contexts, NEW f \in FrameType,
           NEW R, Replaced(S, R, c, <<f>> \o S[c])
    PROVE  Adds(S, R, c, f) /\ NoNew(R, S, Switches)
<1> DEFINE n == Len(S[c])
<1>1. n \in Nat /\ ChangedAbove(S, R, c, n) /\ Len(R[c]) = n + 1 /\ Deep(R[c], n + 1) = f
  <2>1. n \in Nat
    BY DEF Stacks
  <2> HIDE DEF n
  <2>2. /\ ChangedAbove(S, R, c, Len(S[c]))
        /\ Len(R[c]) = Len(S[c]) + 1 /\ Deep(R[c], Len(S[c]) + 1) = f
    BY PushChanges
  <2> QED BY <2>1, <2>2 DEF n
<1>2. n = Len(S[c])
  OBVIOUS
<1> HIDE DEF n
<1>3. \A d \in 1 .. Len(R[c]) : d = n + 1 \/ d \in 1 .. n
  BY <1>1
<1>4. \A d \in n + 1 .. Len(S[c]) : FALSE
  BY <1>1, <1>2
<1>5. NoNew(R, S, Switches)
  BY <1>1, <1>4, NothingNew
<1>6. Adds(S, R, c, f)
  BY <1>1, <1>2, <1>3 DEF Adds, ChangedAbove
<1> QED BY <1>5, <1>6

LEMMA TopAdds ==
    ASSUME NEW S \in Stacks, NEW c \in Contexts, S[c] # <<>>, NEW f \in FrameType,
           NEW R, Replaced(S, R, c, <<f>> \o Tail(S[c]))
    PROVE  /\ Adds(S, R, c, f)
           /\ Head(S[c]).at \notin Switches => NoNew(R, S, Switches)
           /\ (\A d \in 1 .. Len(S[c]) - 1 : Deep(S[c], d).at \notin Odd)
                => \A d \in 1 .. Len(R[c]) : Deep(R[c], d) = f \/ Deep(R[c], d).at \notin Odd
<1> DEFINE n == Len(S[c])
<1>1. /\ n \in Nat \ {0} /\ Deep(S[c], n) = Head(S[c])
      /\ ChangedAbove(S, R, c, n - 1)
      /\ Len(R[c]) = n /\ Deep(R[c], n) = f
  BY TopChanges
<1>2. n = Len(S[c])
  OBVIOUS
<1> HIDE DEF n
<1>3. \A d \in 1 .. Len(R[c]) : d = n \/ d \in 1 .. n - 1
  BY <1>1
<1>4. \A d \in n - 1 + 1 .. Len(S[c]) : Deep(S[c], d) = Head(S[c])
  BY <1>1, <1>2
<1>5. Head(S[c]).at \notin Switches => NoNew(R, S, Switches)
  BY <1>1, <1>4, NothingNew
<1>6. \A d \in 1 .. n - 1 : d \in 1 .. n /\ Deep(R[c], d) = Deep(S[c], d)
  BY <1>1 DEF ChangedAbove
<1>7. Adds(S, R, c, f)
  BY <1>1, <1>2, <1>3, <1>6 DEF Adds, ChangedAbove
<1>8. (\A d \in 1 .. n - 1 : Deep(S[c], d).at \notin Odd)
         => \A d \in 1 .. Len(R[c]) : Deep(R[c], d) = f \/ Deep(R[c], d).at \notin Odd
  BY <1>1, <1>3, <1>6
<1> QED BY <1>2, <1>5, <1>7, <1>8

LEMMA PopAdds ==
    ASSUME NEW S \in Stacks, NEW c \in Contexts, S[c] # <<>>,
           NEW R, Replaced(S, R, c, Tail(S[c])), Head(S[c]).at \notin Switches, NEW f
    PROVE  Adds(S, R, c, f) /\ NoNew(R, S, Switches)
<1> DEFINE n == Len(S[c])
<1>1. /\ n \in Nat \ {0} /\ Deep(S[c], n) = Head(S[c])
      /\ ChangedAbove(S, R, c, n - 1)
      /\ Len(R[c]) = n - 1
  BY PopChanges
<1>2. n = Len(S[c])
  OBVIOUS
<1> HIDE DEF n
<1>3. \A d \in n - 1 + 1 .. Len(S[c]) : Deep(S[c], d) = Head(S[c])
  BY <1>1, <1>2
<1>4. NoNew(R, S, Switches)
  BY <1>1, <1>3, NothingNew
<1>5. \A d \in 1 .. n - 1 : d \in 1 .. n
  BY <1>1
<1>6. Adds(S, R, c, f)
  BY <1>1, <1>2, <1>5 DEF Adds, ChangedAbove
<1> QED BY <1>4, <1>6

(* What a step that adds f makes of the frames.                            *)
LEMMA FramesKept ==
    ASSUME NEW S \in Stacks, NEW c \in Contexts, Owned(S, c), NEW R, NEW f, Adds(S, R, c, f),
           f.at \in Odd => f.who = c, f.at \in Late => f.who \in Contexts /\ ~NeverRan(S, c, f.who)
    PROVE  Owned(R, c) /\ \A t \in Contexts : NeverRan(R, c, t) => NeverRan(S, c, t)
<1>1. \A t \in Contexts : ~NeverRan(S, c, t) => ~NeverRan(R, c, t)
  BY DEF Adds, NeverRan
<1>2. ASSUME NEW x \in Contexts, NEW d \in 1 .. Len(R[x])
      PROVE  \/ x = c /\ Deep(R[x], d) = f
             \/ d \in 1 .. Len(S[x]) /\ Deep(R[x], d) = Deep(S[x], d)
  BY <1>2 DEF Adds
<1>3. ASSUME NEW x \in Contexts, NEW d \in 1 .. Len(S[x])
      PROVE  Deep(S[x], d).who \in Contexts
  <2>1. S[x] \in Seq(FrameType)
    BY DEF Stacks
  <2>2. Deep(S[x], d) \in FrameType
    BY <2>1, DeepIs
  <2> QED BY <2>2 DEF FrameType
<1>4. ASSUME NEW x \in Contexts, NEW d \in 1 .. Len(R[x])
      PROVE  /\ Deep(R[x], d).at \in Odd => Deep(R[x], d).who = x
             /\ Deep(R[x], d).at \in Late => ~NeverRan(R, c, Deep(R[x], d).who)
  <2>1. CASE x = c /\ Deep(R[x], d) = f
    BY <1>1, <2>1
  <2>2. CASE d \in 1 .. Len(S[x]) /\ Deep(R[x], d) = Deep(S[x], d)
    BY <1>1, <1>3, <2>2 DEF Owned
  <2> QED BY <1>2, <2>1, <2>2
<1> QED BY <1>1, <1>4 DEF Owned

(* ... and of the running context's place in the scheduler.                *)
LEMMA PlaceKept ==
    ASSUME HeapInv, cpu' = cpu, NEW f, Adds(stack, stack', cpu, f)
    PROVE  /\ \A label : In(label)' => f.at = label \/ In(label)
           /\ NoNew(stack', stack, Switches) => \A label \in Switches : In(label) => In(label)'
<1>1. cpu \in Contexts
  BY DEF HeapInv, RestTyped
<1>2. ASSUME NEW label, In(label)' PROVE f.at = label \/ In(label)
  <2>1. PICK d \in 1 .. Len(stack'[cpu]) : Deep(stack'[cpu], d).at = label
    BY <1>2 DEF In
  <2> QED BY <2>1 DEF In, Adds
<1>3. ASSUME NoNew(stack', stack, Switches), NEW label \in Switches, In(label) PROVE In(label)'
  <2>1. PICK d \in 1 .. Len(stack[cpu]) : Deep(stack[cpu], d).at = label
    BY <1>3 DEF In
  <2>2. d \in 1 .. Len(stack'[cpu]) /\ Deep(stack'[cpu], d).at = label
    BY <1>1, <1>3, <2>1 DEF NoNew
  <2> QED BY <2>2 DEF In
<1> QED BY <1>2, <1>3

(* A step outside the scheduler keeps what is known of the times if it      *)
(* changes neither those of the chosen thread nor one of a fresh thread.    *)
TimesKept ==
    /\ ts'[currtask] = "Running"
          => /\ ts[currtask] = "Running"
             /\ utime'[currtask] = utime[currtask]
             /\ (In("switch") => time'[currtask] = time[currtask])
    /\ \A t \in Threads : Fresh(t) /\ ts'[t] = "Running"
          => \/ ts[t] = "Running" /\ utime'[t] = utime[t] /\ time'[t] = time[t]
             \/ utime'[t] = time'[t]

LEMMA DeadlineKept ==
    ASSUME HeapInv, DeadlineInv, UNCHANGED <<cpu, currtask, lasttime, asked>>,
           NEW f, Adds(stack, stack', cpu, f), NoNew(stack', stack, Switches),
           f.at \in Odd => f.who = cpu, f.at \in Late => f.who \in Contexts /\ ~Fresh(f.who),
           f.at # "switch", f.at = "flush" => At("flush")' /\ time'[currtask] = utime'[currtask],
           ~At("flush"), TimesKept
    PROVE  DeadlineInv'
<1>0. stack \in Stacks /\ cpu \in Contexts /\ Owned(stack, cpu)
  BY DEF HeapInv, RestTyped, DeadlineInv
<1>1. Owned(stack', cpu') /\ \A t \in Contexts : Fresh(t)' => Fresh(t)
  <2>1. f.at \in Late => f.who \in Contexts /\ ~NeverRan(stack, cpu, f.who)
    BY DEF Fresh, NeverRan
  <2>2. Owned(stack', cpu) /\ \A t \in Contexts : NeverRan(stack', cpu, t) => NeverRan(stack, cpu, t)
    BY <1>0, <2>1, FramesKept
  <2> QED BY <2>2 DEF Fresh, NeverRan
<1>2. /\ \A label : In(label)' => f.at = label \/ In(label)
      /\ \A label \in Switches : In(label) => In(label)'
  BY PlaceKept
<1>3. Charged'
  <2>1. ~In("flush")
    BY DEF DeadlineInv, Charged
  <2>2. In("flush")' => f.at = "flush"
    BY <1>2, <2>1
  <2> QED BY <2>2 DEF Charged
<1>4. /\ (In("switch")' => In("switch"))
      /\ (In("switch") => In("switch")') /\ (In("pick") => In("pick")')
  BY <1>2 DEF Switches
<1>5. QuantumTime'
  <2>1. ASSUME ts'[currtask] = "Running", In("switch")' PROVE time'[currtask] = lasttime
    BY <1>4, <2>1 DEF TimesKept, DeadlineInv, QuantumTime
  <2>2. ASSUME ts'[currtask] = "Running", ~In("switch")', ~In("pick")' PROVE ObjectTime'
    <3>1. ObjectTime /\ utime'[currtask] = utime[currtask]
      BY <1>4, <2>2 DEF TimesKept, DeadlineInv, QuantumTime
    <3> QED BY <3>1 DEF ObjectTime
  <2> QED BY <2>1, <2>2 DEF QuantumTime
<1>6. FreshTime'
  <2>1. ASSUME NEW t \in Threads, Fresh(t)', ts'[t] = "Running" PROVE utime'[t] = time'[t]
    <3>1. Fresh(t)
      BY <1>1, <2>1 DEF Contexts
    <3> QED BY <2>1, <3>1 DEF TimesKept, DeadlineInv, FreshTime
  <2> QED BY <2>1 DEF FreshTime
<1> QED BY <1>1, <1>3, <1>5, <1>6 DEF DeadlineInv

LEMMA SameTimes ==
    ASSUME UNCHANGED <<ts, time, utime>>
    PROVE  TimesKept
BY DEF TimesKept

(* The frame that a step adds.                                             *)
AddsTop(label, t) ==
    \E f : /\ f.at = label /\ f.who = t /\ Adds(stack, stack', cpu, f)
           /\ NoNew(stack', stack, Switches)

LEMMA PushedAdds ==
    ASSUME HeapInv, NEW label \in Labels, NEW t \in Contexts, Push(label, t)
    PROVE  AddsTop(label, t)
<1> DEFINE f == Frame(label, t)
<1>1. f \in FrameType /\ f.at = label /\ f.who = t /\ stack \in Stacks /\ cpu \in Contexts
  BY FrameIs DEF HeapInv, RestTyped
<1>2. Replaced(stack, stack', cpu, <<f>> \o stack[cpu])
  BY StackedIs DEF Push
<1> HIDE DEF f
<1>3. Adds(stack, stack', cpu, f) /\ NoNew(stack', stack, Switches)
  BY <1>1, <1>2, PushAdds
<1> QED BY <1>1, <1>3 DEF AddsTop

LEMMA ReplacedAdds ==
    ASSUME HeapInv, NEW from, At(from), from \notin Switches, NEW f \in FrameType,
           Stacked(<<f>> \o Tail(stack[cpu]))
    PROVE  AddsTop(f.at, f.who)
<1>1. stack \in Stacks /\ cpu \in Contexts /\ stack[cpu] # <<>> /\ Head(stack[cpu]).at \notin Switches
  BY TopIs DEF HeapInv, RestTyped, Top
<1>2. Replaced(stack, stack', cpu, <<f>> \o Tail(stack[cpu]))
  BY StackedIs
<1>3. Adds(stack, stack', cpu, f) /\ NoNew(stack', stack, Switches)
  BY <1>1, <1>2, TopAdds
<1> QED BY <1>3 DEF AddsTop

LEMMA GotoAdds ==
    ASSUME HeapInv, NEW from, At(from), from \notin Switches, NEW label \in Labels, Goto(label)
    PROVE  AddsTop(label, Top.who)
<1> DEFINE f == [Top EXCEPT !.at = label]
<1>1. Top \in FrameType
  BY TopIs
<1>2. f \in FrameType /\ f.at = label /\ f.who = Top.who
  BY <1>1 DEF FrameType
<1>3. Stacked(<<f>> \o Tail(stack[cpu]))
  BY DEF Goto
<1> HIDE DEF f
<1>4. AddsTop(f.at, f.who)
  BY <1>2, <1>3, ReplacedAdds
<1> QED BY <1>2, <1>4

LEMMA PoppedAdds ==
    ASSUME HeapInv, NEW from, At(from), from \notin Switches, Stacked(Tail(stack[cpu]))
    PROVE  AddsTop("irq end", cpu)
<1>1. stack \in Stacks /\ cpu \in Contexts /\ stack[cpu] # <<>> /\ Head(stack[cpu]).at \notin Switches
  BY TopIs DEF HeapInv, RestTyped, Top
<1>2. Replaced(stack, stack', cpu, Tail(stack[cpu]))
  BY StackedIs
<1> DEFINE f == Frame("irq end", cpu)
<1>3. f.at = "irq end" /\ f.who = cpu
  BY DEF Frame
<1> HIDE DEF f
<1>4. Adds(stack, stack', cpu, f) /\ NoNew(stack', stack, Switches)
  BY <1>1, <1>2, PopAdds
<1> QED BY <1>3, <1>4 DEF AddsTop

LEMMA SameAdds ==
    ASSUME HeapInv, stack' = stack, NEW label
    PROVE  AddsTop(label, cpu)
<1>1. Adds(stack, stack', cpu, Frame(label, cpu)) /\ NoNew(stack', stack, Switches)
  BY DEF Adds, NoNew, HeapInv
<1> QED BY <1>1 DEF AddsTop, Frame

LEMMA ServiceAdds ==
    ASSUME HeapInv, StacksAre, TimerService(stack[cpu])
    PROVE  AddsTop("charge", cpu)
<1>1. CASE schedLock
  <2>1. stack' = stack
    BY <1>1 DEF TimerService, Stacked, Stacks, HeapInv, RestTyped
  <2> QED BY <2>1, SameAdds
<1>2. CASE ~schedLock
  <2>1. Push("charge", cpu) /\ cpu \in Contexts /\ "charge" \in Labels
    BY <1>2 DEF TimerService, Push, StacksAre, HeapInv, RestTyped, Labels
  <2> QED BY <2>1, PushedAdds
<1> QED BY <1>1, <1>2

(* DeadlineKept for the frame that is added.                               *)
LEMMA DeadlineSteps ==
    ASSUME HeapInv, DeadlineInv, UNCHANGED <<cpu, currtask, lasttime, asked>>,
           NEW label, NEW t, AddsTop(label, t), ~At("flush"), TimesKept,
           label # "switch", label \in Odd => t = cpu, label \in Late => t \in Contexts /\ ~Fresh(t),
           label = "flush" => At("flush")' /\ time'[currtask] = utime'[currtask]
    PROVE  DeadlineInv'
<1>1. PICK f : /\ f.at = label /\ f.who = t /\ Adds(stack, stack', cpu, f)
               /\ NoNew(stack', stack, Switches)
  BY DEF AddsTop
<1> QED BY <1>1, DeadlineKept

LEMMA PlainDeadline ==
    ASSUME HeapInv, DeadlineInv, UNCHANGED <<cpu, currtask, lasttime, asked>>,
           NEW label, NEW t, AddsTop(label, t), ~At("flush"), TimesKept,
           label \in {"charge", "irq end", "insert", "climb"}, label = "charge" => t = cpu
    PROVE  DeadlineInv'
<1>1. /\ label # "switch" /\ label # "flush" /\ label \notin Late
      /\ label \in Odd => t = cpu
  BY DEF Late, Odd, InSched
<1> QED BY <1>1, DeadlineSteps

LEMMA TopOwned ==
    ASSUME HeapInv, DeadlineInv, NEW label, At(label)
    PROVE  /\ label \in Odd => Top.who = cpu
           /\ label \in Late => ~Fresh(Top.who)
<1>1. cpu \in Contexts /\ Len(stack[cpu]) \in 1 .. Len(stack[cpu])
      /\ Deep(stack[cpu], Len(stack[cpu])) = Top /\ Top.at = label
  BY TopIs DEF HeapInv, RestTyped
<1> QED BY <1>1 DEF DeadlineInv, Owned, Fresh, NeverRan

LEMMA AtIsIn ==
    ASSUME HeapInv, NEW label, At(label)
    PROVE  In(label)
<1>1. Len(stack[cpu]) \in 1 .. Len(stack[cpu])
      /\ Deep(stack[cpu], Len(stack[cpu])) = Top /\ Top.at = label
  BY TopIs DEF HeapInv, RestTyped
<1> QED BY <1>1 DEF In

LEMMA OnlyIn ==
    ASSUME HeapInv, StacksAre, NEW from \in InSched, At(from)
    PROVE  /\ \A label \in Odd : In(label) => label = from
           /\ from # "switch" => cpu = currtask
<1> DEFINE n == Len(stack[cpu])
<1>1. n \in Nat \ {0} /\ Deep(stack[cpu], n).at = from
  BY TopIs
<1>2. \A d \in 1 .. n - 1 : Deep(stack[cpu], d).at \notin Odd
  BY TopInSched
<1>3. n = Len(stack[cpu])
  OBVIOUS
<1> HIDE DEF n
<1>4. \A d \in 1 .. n : d = n \/ d \in 1 .. n - 1
  BY <1>1
<1>5. ASSUME NEW label \in Odd, In(label) PROVE label = from
  <2>1. PICK d \in 1 .. Len(stack[cpu]) : Deep(stack[cpu], d).at = label
    BY <1>5 DEF In
  <2> QED BY <1>1, <1>2, <1>3, <1>4, <2>1
<1>6. ASSUME from # "switch" PROVE cpu = currtask
  <2>1. ~In("switch")
    BY <1>5, <1>6 DEF Odd, InSched
  <2> QED BY <2>1 DEF HeapInv, Switching, In
<1> QED BY <1>5, <1>6
-----------------------------------------------------------------------------
(* The steps outside the scheduler.                                        *)
LEMMA TimerDeadline ==
    ASSUME HeapInv, StacksAre, DeadlineInv, "unlocked irq" \notin Allowed, Timer
    PROVE  DeadlineInv'
<1>1. ~At("flush") /\ TimerService(stack[cpu])
  BY DEF Timer, Interruptible
<1>2. AddsTop("charge", cpu) /\ TimesKept
  BY <1>1, ServiceAdds, SameTimes DEF Timer, heaps
<1>3. UNCHANGED <<cpu, currtask, lasttime, asked>>
  BY DEF Timer
<1> QED BY <1>1, <1>2, <1>3, PlainDeadline

LEMMA QuantumDoneDeadline ==
    ASSUME HeapInv, StacksAre, DeadlineInv, QuantumDone
    PROVE  DeadlineInv'
<1>1. ~At("flush") /\ TimerService(stack[cpu])
  BY DEF QuantumDone, At, Idling
<1>2. AddsTop("charge", cpu) /\ TimesKept
  BY <1>1, ServiceAdds, SameTimes DEF QuantumDone, heaps
<1>3. UNCHANGED <<cpu, currtask, lasttime, asked>>
  BY DEF QuantumDone
<1> QED BY <1>1, <1>2, <1>3, PlainDeadline

LEMMA IrqEndDeadline ==
    ASSUME HeapInv, StacksAre, DeadlineInv, IrqEnd
    PROVE  DeadlineInv'
<1>1. At("irq end") /\ ~At("flush") /\ "irq end" \notin Switches
  BY DEF IrqEnd, At, Switches
<1>2. TimesKept /\ UNCHANGED <<cpu, currtask, lasttime, asked>>
  BY SameTimes DEF IrqEnd, heaps
<1>3. \/ Stacked(Tail(stack[cpu]))
      \/ Stacked(<<Frame("charge", currtask)>> \o Tail(stack[cpu])) /\ ~schedLock
  BY DEF IrqEnd, TimerService, Return
<1>4. CASE Stacked(Tail(stack[cpu]))
  <2>1. AddsTop("irq end", cpu)
    BY <1>1, <1>4, PoppedAdds
  <2> QED BY <1>1, <1>2, <2>1, PlainDeadline
<1>5. CASE Stacked(<<Frame("charge", currtask)>> \o Tail(stack[cpu])) /\ ~schedLock
  <2> DEFINE f == Frame("charge", currtask)
  <2>1. "charge" \in Labels /\ currtask \in Contexts /\ currtask = cpu
    BY <1>5 DEF Labels, HeapInv, RestTyped, StacksAre
  <2>2. f \in FrameType /\ f.at = "charge" /\ f.who = cpu
    BY <2>1, FrameIs
  <2>3. Stacked(<<f>> \o Tail(stack[cpu]))
    BY <1>5
  <2> HIDE DEF f
  <2>4. AddsTop("charge", cpu)
    BY <1>1, <2>2, <2>3, ReplacedAdds
  <2> QED BY <1>1, <1>2, <2>4, PlainDeadline
<1> QED BY <1>3, <1>4, <1>5

(* While the processor is to be switched, the chosen thread is at its root. *)
LEMMA RootOfSwitch ==
    ASSUME HeapInv, StacksAre, RootInv, In("switch"), ts[currtask] = "Running"
    PROVE  RootTime("Running") = time[currtask]
<1>1. PICK d \in 1 .. Len(stack[cpu]) : Deep(stack[cpu], d).at = "switch"
  BY DEF In
<1>2. cpu \in Contexts /\ \A x \in Contexts : stack[x] \in Seq(FrameType)
  BY DEF HeapInv, RestTyped, Stacks
<1>3. Busy(stack, cpu)
  BY <1>1 DEF StacksAre, Calm, Odd, InSched
<1>4. ASSUME NEW e \in 1 .. Len(stack[cpu]) PROVE Deep(stack[cpu], e).at # "pick"
  BY <1>1, <1>3 DEF Busy, Odd, InSched
<1>5. ASSUME NEW x \in Contexts \ {cpu}, NEW e \in 1 .. Len(stack[x]) PROVE Deep(stack[x], e).at # "pick"
  <2>1. CASE e = Len(stack[x])
    <3>1. stack[x] # <<>>
      BY <1>2, <1>5
    <3>2. Deep(stack[x], e).at = "away"
      BY <2>1, <3>1 DEF HeapInv, Parked
    <3> QED BY <3>2
  <2>2. CASE e # Len(stack[x])
    BY <2>2 DEF StacksAre, Gone, Odd, InSched
  <2> QED BY <2>1, <2>2
<1>6. Lacks(stack, {"pick"})
  BY <1>4, <1>5 DEF Lacks
<1>7. currtask # IdleLoop /\ ts[currtask] \in HeapTypes
  BY StatesAre DEF HeapInv, HeapsTyped
<1>8. Head(heap["Running"]) = currtask
  BY <1>6, <1>7 DEF RootInv, RootRuns
<1> QED BY <1>8 DEF RootTime

LEMMA RootTimeIsKept ==
    ASSUME HeapInv, StacksAre, RootInv, NEW h \in Threads, ~Fresh(h),
           UNCHANGED <<ts, utime>>, time' = [time EXCEPT ![h] = RootTime("Running")]
    PROVE  TimesKept
<1>1. time \in [Contexts -> TIME] /\ currtask \in Contexts
  BY DEF HeapInv, HeapsTyped, RestTyped
<1>2. ASSUME In("switch"), ts[currtask] = "Running" PROVE time'[currtask] = time[currtask]
  <2>1. RootTime("Running") = time[currtask]
    BY <1>2, RootOfSwitch
  <2> QED BY <1>1, <2>1
<1>3. \A t \in Threads : Fresh(t) => time'[t] = time[t]
  BY <1>1 DEF Contexts
<1> QED BY <1>2, <1>3 DEF TimesKept

(* Times and states of another thread than the chosen one that has run.    *)
LEMMA OtherTimes ==
    ASSUME HeapInv, NEW h \in Threads, h # currtask, ~Fresh(h), utime' = utime,
           NEW when, time' = [time EXCEPT ![h] = when],
           NEW state, ts' = [ts EXCEPT ![h] = state]
    PROVE  TimesKept
<1>1. /\ time \in [Contexts -> TIME] /\ ts \in [Contexts -> States] /\ currtask \in Contexts
      /\ Threads \subseteq Contexts
  BY DEF HeapInv, HeapsTyped, RestTyped, AllStates, Contexts
<1>2. \A t \in Contexts \ {h} : time'[t] = time[t] /\ ts'[t] = ts[t]
  BY <1>1
<1>3. currtask \in Contexts \ {h} /\ \A t \in Threads : Fresh(t) => t \in Contexts \ {h}
  BY <1>1
<1> QED BY <1>2, <1>3 DEF TimesKept

LEMMA IRQDeadline ==
    ASSUME HeapInv, StacksAre, RootInv, DeadlineInv, "unlocked irq" \notin Allowed,
           "race" \notin Allowed, "unqueued" \notin Allowed,
           "self" \notin Allowed, "fresh wake" \notin Allowed, NEW h \in Drivers, IRQ(h)
    PROVE  DeadlineInv'
<1>1. ~At("flush") /\ ~Fresh(h) /\ h \in Threads /\ h \in Contexts
  BY DEF IRQ, Interruptible, Contexts
<1>2. UNCHANGED <<cpu, currtask, lasttime, asked, utime>>
  BY DEF IRQ, sched
<1>3. "prioritise" \in Labels /\ "irq end" \in Labels
  BY DEF Labels
<1>4. CASE ts[h] = "Blocked"
  <2>1. Push("prioritise", h) /\ Queue(heap, h, "Running", WakeTime("Running")) /\ h # currtask
    BY <1>4 DEF IRQ, MayWake
  <2>2. AddsTop("prioritise", h)
    BY <1>1, <1>3, <2>1, PushedAdds
  <2>3. TimesKept
    BY <1>1, <1>2, <2>1, OtherTimes DEF Queue
  <2>4. "prioritise" # "switch" /\ "prioritise" # "flush" /\ "prioritise" \notin Odd
    BY DEF Odd, InSched
  <2> QED BY <1>1, <1>2, <2>2, <2>3, <2>4, DeadlineSteps
<1>5. CASE ts[h] # "Blocked"
  <2>1. AddsTop("irq end", h)
    <3>1. Push("irq end", h)
      BY <1>5 DEF IRQ
    <3> QED BY <1>1, <1>3, <3>1, PushedAdds
  <2>2. TimesKept
    <3>1. CASE ts[h] = "Running"
      <4>1. h \notin Inserts(stack)
        BY <1>1, <1>5, NobodyMeets, NotWoken DEF IRQ, HeapInv
      <4>2. Once(heap["Running"], h) /\ heap["Running"] \in Seq(Threads)
        BY <1>1, <3>1, <4>1, InHeap, StatesAre DEF HeapInv, HeapsTyped, AllHeaps
      <4>3. ts' = ts /\ time' = [time EXCEPT ![h] = RootTime("Running")]
        BY <1>1, <3>1, <4>2, IRQIs
      <4> QED BY <1>1, <1>2, <4>3, RootTimeIsKept
    <3>2. CASE ts[h] # "Running"
      <4>1. UNCHANGED <<ts, time>>
        BY <1>5, <3>2 DEF IRQ
      <4> QED BY <1>2, <4>1, SameTimes
    <3> QED BY <3>1, <3>2
  <2> QED BY <1>1, <1>2, <2>1, <2>2, PlainDeadline
<1> QED BY <1>4, <1>5

LEMMA PrioritiseUnlockedDeadline ==
    ASSUME HeapInv, StacksAre, RootInv, DeadlineInv, PrioritiseUnlocked
    PROVE  DeadlineInv'
<1>1. At("prioritise") /\ "prioritise" \in Hasty /\ ~At("flush") /\ "prioritise" \notin Switches
  BY DEF PrioritiseUnlocked, Hasty, At, Switches
<1>2. /\ Top.who \in Threads /\ ts[Top.who] = "Running" /\ Top.who \notin Inserts(stack)
      /\ Top.who \in Contexts
  BY <1>1, TopIsHasty DEF HastyIs, Contexts
<1>3. ~Fresh(Top.who)
  BY <1>1, TopOwned DEF Late
<1>4. UNCHANGED <<cpu, currtask, lasttime, asked, ts, utime>>
  BY DEF PrioritiseUnlocked, sched
<1> DEFINE f == [at |-> "climb", who |-> Top.who, slot |-> SlotOf(heap["Running"], Top.who)]
<1>5. /\ time' = [time EXCEPT ![Top.who] = RootTime("Running")]
      /\ Stacked(<<f>> \o Tail(stack[cpu]))
  BY <1>2, UnlockedIs
<1>6. f \in FrameType /\ f.at = "climb" /\ f.who = Top.who
  <2>1. SlotOf(heap["Running"], Top.who) \in 1 .. Len(heap["Running"])
    BY <1>2, InHeap, StatesAre
  <2>2. SlotOf(heap["Running"], Top.who) \in Nat
    BY <2>1
  <2> QED BY <1>2, <2>2 DEF FrameType, Labels
<1> HIDE DEF f
<1>7. AddsTop("climb", Top.who)
  BY <1>1, <1>5, <1>6, ReplacedAdds
<1>8. TimesKept
  BY <1>2, <1>3, <1>4, <1>5, RootTimeIsKept
<1> QED BY <1>1, <1>4, <1>7, <1>8, PlainDeadline

LEMMA ClimbUnlockedDeadline ==
    ASSUME HeapInv, DeadlineInv, ClimbUnlocked
    PROVE  DeadlineInv'
<1>1. At("climb") /\ ~At("flush") /\ "climb" \notin Switches /\ Goto("irq end") /\ "irq end" \in Labels
  BY DEF ClimbUnlocked, At, Switches, Labels
<1>2. AddsTop("irq end", Top.who) /\ TimesKept
  BY <1>1, GotoAdds, SameTimes DEF ClimbUnlocked
<1>3. UNCHANGED <<cpu, currtask, lasttime, asked>>
  BY DEF ClimbUnlocked, sched
<1> QED BY <1>1, <1>2, <1>3, PlainDeadline

LEMMA WakeDeadline ==
    ASSUME HeapInv, DeadlineInv, "fresh wake" \notin Allowed, NEW t \in Threads, Wake(t)
    PROVE  DeadlineInv'
<1>1. ~At("flush") /\ ~Fresh(t) /\ t \in Contexts /\ Push("mark", t) /\ "mark" \in Labels
  BY DEF Wake, MayWake, At, Contexts, Labels
<1>2. AddsTop("mark", t) /\ TimesKept
  BY <1>1, PushedAdds, SameTimes DEF Wake, heaps
<1>3. UNCHANGED <<cpu, currtask, lasttime, asked>>
  BY DEF Wake, sched
<1>4. "mark" # "switch" /\ "mark" # "flush" /\ "mark" \notin Odd
  BY DEF Odd, InSched
<1> QED BY <1>1, <1>2, <1>3, <1>4, DeadlineSteps

LEMMA MarkDeadline ==
    ASSUME HeapInv, DeadlineInv, Mark
    PROVE  DeadlineInv'
<1>1. /\ At("mark") /\ ~At("flush") /\ "mark" \notin Switches /\ Goto("insert") /\ "insert" \in Labels
      /\ "mark" \in Wakes /\ "mark" \in Late
  BY DEF Mark, At, Switches, Labels, Wakes, Late
<1>2. AddsTop("insert", Top.who)
  BY <1>1, GotoAdds
<1>3. Top.who \in Threads /\ Top.who # currtask /\ ~Fresh(Top.who)
  BY <1>1, TopWakes, TopOwned
<1>4. UNCHANGED <<cpu, currtask, lasttime, asked, utime>>
  BY DEF Mark, sched
<1>5. TimesKept
  BY <1>3, <1>4, OtherTimes DEF Mark
<1> QED BY <1>1, <1>2, <1>4, <1>5, PlainDeadline

LEMMA InsertDeadline ==
    ASSUME HeapInv, DeadlineInv, Insert
    PROVE  DeadlineInv'
<1>1. At("insert") /\ ~At("flush") /\ "insert" \notin Switches /\ Stacked(Tail(stack[cpu]))
  BY DEF Insert, At, Switches, Return
<1>2. AddsTop("irq end", cpu) /\ TimesKept
  BY <1>1, PoppedAdds, SameTimes DEF Insert
<1>3. UNCHANGED <<cpu, currtask, lasttime, asked>>
  BY DEF Insert, sched
<1> QED BY <1>1, <1>2, <1>3, PlainDeadline

LEMMA SetThreadStateDeadline ==
    ASSUME HeapInv, DeadlineInv, "self" \notin Allowed,
           NEW t \in Threads, NEW state \in States, SetThreadState(t, state)
    PROVE  DeadlineInv'
<1>1. ~At("flush") /\ UNCHANGED <<cpu, currtask, lasttime, asked, stack>>
  BY DEF SetThreadState, At, sched
<1>2. AddsTop("irq end", cpu)
  BY <1>1, SameAdds
<1>3. /\ time \in [Contexts -> TIME] /\ utime \in [Contexts -> TIME] /\ ts \in [Contexts -> States]
      /\ currtask \in Contexts /\ Threads \subseteq Contexts
  BY DEF HeapInv, HeapsTyped, RestTyped, AllStates, Contexts
<1>4. t # currtask \/ state = "Blocked"
  BY DEF SetThreadState
<1>5. TimesKept
  <2>1. CASE UNCHANGED heaps
    BY <2>1, SameTimes DEF heaps
  <2>2. CASE Block(t)
    <3>1. ts' = [ts EXCEPT ![t] = "Blocked"] /\ UNCHANGED <<time, utime>>
      BY <2>2 DEF Block
    <3>2. \A u \in Contexts : ts'[u] = "Running" => ts[u] = "Running"
      BY <1>3, <3>1
    <3> QED BY <1>3, <3>1, <3>2 DEF TimesKept
  <2>3. CASE /\ state # "Blocked"
             /\ \E hs \in Without(t) : LET when == WakeTime(state) IN
                    /\ Queue(hs, t, state, when)
                    /\ utime' = [utime EXCEPT ![t] = when]
    <3> DEFINE when == WakeTime(state)
    <3>1. /\ time' = [time EXCEPT ![t] = when] /\ utime' = [utime EXCEPT ![t] = when]
          /\ ts' = [ts EXCEPT ![t] = state]
      BY <2>3 DEF Queue
    <3> HIDE DEF when
    <3>2. \A u \in Contexts \ {t} : time'[u] = time[u] /\ utime'[u] = utime[u] /\ ts'[u] = ts[u]
      BY <1>3, <3>1
    <3>3. utime'[t] = time'[t]
      BY <1>3, <3>1
    <3>4. currtask \in Contexts \ {t}
      BY <1>3, <1>4, <2>3
    <3> QED BY <1>3, <3>2, <3>3, <3>4 DEF TimesKept
  <2> QED BY <2>1, <2>2, <2>3 DEF SetThreadState
<1> QED BY <1>1, <1>2, <1>5, PlainDeadline

(* The running thread writes a deadline later than the time it has.        *)
LEMMA SetDeadlineDeadline ==
    ASSUME HeapInv, DeadlineInv, NEW d \in Deadlines, SetDeadline(d)
    PROVE  DeadlineInv'
<1>1. /\ UNCHANGED <<ts, time, heap, currtask, lasttime, cpu, stack>> /\ CLESS(lasttime, d)
      /\ utime' = [utime EXCEPT ![cpu] = d] /\ asked' = asked \cup {cpu} /\ Idling
  BY DEF SetDeadline, sched, proc
<1>2. cpu = currtask /\ cpu \in Contexts /\ utime \in [Contexts -> TIME] /\ Threads \subseteq Contexts
  BY <1>1, IdlingIs DEF HeapInv, RestTyped, Contexts
<1>3. ObjectTime'
  BY <1>1, <1>2 DEF ObjectTime
<1>4. Owned(stack', cpu')
  BY <1>1 DEF DeadlineInv
<1>5. QuantumTime'
  BY <1>1, <1>3 DEF DeadlineInv, QuantumTime, In
<1>6. FreshTime'
  <2>1. \A t \in Threads : Fresh(t)' => Fresh(t) /\ t # cpu
    BY <1>1 DEF Fresh
  <2> QED BY <1>1, <1>2, <2>1 DEF DeadlineInv, FreshTime
<1>7. Charged'
  <2>1. ~In("flush")'
    BY <1>1 DEF DeadlineInv, Charged, At, In
  <2> QED BY <2>1 DEF Charged
<1> QED BY <1>4, <1>5, <1>6, <1>7 DEF DeadlineInv
-----------------------------------------------------------------------------
(* The steps of the scheduler.                                             *)
LEMMA ScheduledFrames ==
    ASSUME HeapInv, StacksAre, DeadlineInv, NEW from \in InSched, At(from),
           NEW label \in InSched, Goto(label), cpu' = cpu
    PROVE  /\ Owned(stack', cpu') /\ \A t \in Contexts : Fresh(t)' => Fresh(t)
           /\ At(label)' /\ \A other \in Odd : In(other)' <=> other = label
<1> DEFINE f == [Top EXCEPT !.at = label]
<1>1. /\ stack \in Stacks /\ cpu \in Contexts /\ stack[cpu] # <<>> /\ Top \in FrameType
      /\ Owned(stack, cpu)
  BY TopIs DEF HeapInv, RestTyped, DeadlineInv
<1>2. Top.who = cpu
  BY TopOwned DEF Odd
<1>3. f \in FrameType /\ f.at = label /\ f.who = cpu
  BY <1>1, <1>2 DEF FrameType, Labels, InSched
<1>4. Replaced(stack, stack', cpu, <<f>> \o Tail(stack[cpu]))
  BY StackedIs DEF Goto
<1> HIDE DEF f
<1>5. Adds(stack, stack', cpu, f)
  BY <1>1, <1>3, <1>4, TopAdds
<1>6. \A d \in 1 .. Len(stack[cpu]) - 1 : Deep(stack[cpu], d).at \notin Odd
  BY TopInSched
<1>7. \A d \in 1 .. Len(stack'[cpu]) : Deep(stack'[cpu], d) = f \/ Deep(stack'[cpu], d).at \notin Odd
  BY <1>1, <1>3, <1>4, <1>6, TopAdds
<1>8. f.at \notin Late
  BY <1>3 DEF Late, InSched
<1>9. Owned(stack', cpu) /\ \A t \in Contexts : NeverRan(stack', cpu, t) => NeverRan(stack, cpu, t)
  BY <1>1, <1>3, <1>5, <1>8, FramesKept
<1>10. /\ Len(stack[cpu]) \in Nat \ {0} /\ Len(stack'[cpu]) = Len(stack[cpu])
       /\ Deep(stack'[cpu], Len(stack[cpu])) = f
  BY <1>1, <1>3, <1>4, TopChanges
<1>11. \A other \in Odd : In(other)' <=> other = label
  <2>1. \A other \in Odd : In(other)' => other = label
    BY <1>3, <1>7 DEF In
  <2>2. Len(stack[cpu]) \in 1 .. Len(stack'[cpu])
    BY <1>10
  <2>3. In(label)'
    BY <1>3, <1>10, <2>2 DEF In
  <2> QED BY <2>1, <2>3
<1>12. At(label)'
  <2>1. stack'[cpu] = <<f>> \o Tail(stack[cpu]) /\ Tail(stack[cpu]) \in Seq(FrameType)
    BY <1>1, <1>4, PopIs DEF Replaced, Stacks
  <2>2. stack'[cpu] # <<>> /\ Head(stack'[cpu]) = f
    BY <2>1
  <2> QED BY <1>3, <2>2 DEF At, Idling, Top
<1> QED BY <1>9, <1>11, <1>12 DEF Fresh, NeverRan

LEMMA ChargeDeadline ==
    ASSUME HeapInv, StacksAre, DeadlineInv, Charge
    PROVE  DeadlineInv'
<1>1. /\ At("charge") /\ Goto("flush") /\ "charge" \in InSched /\ "flush" \in InSched
      /\ UNCHANGED <<cpu, currtask, lasttime, asked, ts, utime>>
      /\ time' = [time EXCEPT ![currtask] = utime[Top.who]]
  BY DEF Charge, sched, InSched
<1>2. /\ Owned(stack', cpu') /\ \A t \in Contexts : Fresh(t)' => Fresh(t)
      /\ At("flush")' /\ \A other \in Odd : In(other)' <=> other = "flush"
  BY <1>1, ScheduledFrames
<1>3. cpu = currtask /\ \A label \in Odd : In(label) => label = "charge"
  BY <1>1, OnlyIn
<1>4. Top.who = currtask
  BY <1>1, <1>3, TopOwned DEF Odd
<1>5. time \in [Contexts -> TIME] /\ currtask \in Contexts /\ Threads \subseteq Contexts
  BY DEF HeapInv, HeapsTyped, RestTyped, Contexts
<1>6. Charged'
  BY <1>1, <1>2, <1>4, <1>5 DEF Charged
<1>7. QuantumTime'
  <2>1. ~In("pick") /\ ~In("switch") /\ ~In("switch")'
    BY <1>2, <1>3 DEF Odd, InSched
  <2> QED BY <1>1, <2>1 DEF DeadlineInv, QuantumTime, ObjectTime
<1>8. FreshTime'
  <2>1. ASSUME NEW t \in Threads, Fresh(t)', ts'[t] = "Running" PROVE utime'[t] = time'[t]
    <3>1. Fresh(t) /\ t \in Contexts
      BY <1>2, <1>5, <2>1
    <3>2. t # currtask
      BY <1>3, <3>1 DEF Fresh
    <3> QED BY <1>1, <1>5, <2>1, <3>1, <3>2 DEF DeadlineInv, FreshTime
  <2> QED BY <2>1 DEF FreshTime
<1> QED BY <1>2, <1>6, <1>7, <1>8 DEF DeadlineInv

(* Only the chosen thread is moved.                                        *)
LEMMA FlushTimes ==
    ASSUME HeapInv, Flush, NEW t \in Threads, t # currtask
    PROVE  ts'[t] = ts[t] /\ time'[t] = time[t]
<1>1. /\ time \in [Contexts -> TIME] /\ ts \in [Contexts -> States] /\ currtask \in Contexts
      /\ t \in Contexts
  BY DEF HeapInv, HeapsTyped, RestTyped, AllStates, Contexts
<1>2. ASSUME NEW ht, AdvanceAndSink(ht) PROVE ts'[t] = ts[t] /\ time'[t] = time[t]
  BY <1>1, <1>2 DEF AdvanceAndSink
<1>3. ASSUME NEW hs, NEW ht, NEW when, Queue(hs, currtask, ht, when)
      PROVE  ts'[t] = ts[t] /\ time'[t] = time[t]
  BY <1>1, <1>3 DEF Queue
<1>4. CASE FlushRunning
  BY <1>2, <1>3, <1>4 DEF FlushRunning
<1>5. CASE FlushRealTime
  BY <1>3, <1>5 DEF FlushRealTime, StaysRealTime
<1>6. CASE FlushIdle
  BY <1>2, <1>6 DEF FlushIdle
<1>7. CASE FlushBlocked
  BY <1>7 DEF FlushBlocked
<1> QED BY <1>4, <1>5, <1>6, <1>7 DEF Flush

LEMMA FlushDeadline ==
    ASSUME HeapInv, StacksAre, DeadlineInv, Flush
    PROVE  DeadlineInv'
<1>1. /\ At("flush") /\ Goto("pick") /\ "flush" \in InSched /\ "pick" \in InSched
      /\ UNCHANGED <<cpu, currtask, lasttime, asked, utime>>
  BY DEF Flush, InSched
<1>2. /\ Owned(stack', cpu') /\ \A t \in Contexts : Fresh(t)' => Fresh(t)
      /\ \A other \in Odd : In(other)' <=> other = "pick"
  BY <1>1, ScheduledFrames
<1>3. cpu = currtask
  BY <1>1, OnlyIn
<1>4. In("pick")' /\ ~In("switch")' /\ ~In("flush")'
  BY <1>2 DEF Odd, InSched
<1>5. QuantumTime' /\ Charged'
  BY <1>4 DEF QuantumTime, Charged
<1>6. FreshTime'
  <2>1. ASSUME NEW t \in Threads, Fresh(t)', ts'[t] = "Running" PROVE utime'[t] = time'[t]
    <3>1. Fresh(t) /\ t # currtask
      BY <1>2, <1>3, <2>1 DEF Fresh, Contexts
    <3>2. ts'[t] = ts[t] /\ time'[t] = time[t]
      BY <3>1, FlushTimes
    <3> QED BY <1>1, <2>1, <3>1, <3>2 DEF DeadlineInv, FreshTime
  <2> QED BY <2>1 DEF FreshTime
<1> QED BY <1>2, <1>5, <1>6 DEF DeadlineInv

LEMMA PickDeadline ==
    ASSUME HeapInv, StacksAre, DeadlineInv, Pick
    PROVE  DeadlineInv'
<1>1. /\ At("pick") /\ Goto("switch") /\ "pick" \in InSched /\ "switch" \in InSched
      /\ UNCHANGED <<cpu, asked, ts, time, utime>> /\ lasttime' = time[currtask']
  BY DEF Pick, heaps, InSched
<1>2. /\ Owned(stack', cpu') /\ \A t \in Contexts : Fresh(t)' => Fresh(t)
      /\ \A other \in Odd : In(other)' <=> other = "switch"
  BY <1>1, ScheduledFrames
<1>3. In("switch")' /\ ~In("flush")'
  BY <1>2 DEF Odd, InSched
<1>4. QuantumTime' /\ Charged'
  BY <1>1, <1>3 DEF QuantumTime, Charged
<1>5. FreshTime'
  BY <1>1, <1>2 DEF DeadlineInv, FreshTime, Contexts
<1> QED BY <1>2, <1>4, <1>5 DEF DeadlineInv

(* The context that goes on has published its time, or has the kernel's.   *)
LEMMA SwitchDeadline ==
    ASSUME HeapInv, StacksAre, DeadlineInv, Switch
    PROVE  DeadlineInv'
<1> DEFINE left    == [stack EXCEPT ![cpu] = <<[Top EXCEPT !.at = "away"]>> \o Tail(@)]
           resumed == left[currtask]
           tunnel  == Len(resumed) > 1 /\ resumed[2].at = "tunnel"
           k       == IF tunnel THEN 3 ELSE 2
           f       == [Top EXCEPT !.at = "away"]
<1>1. /\ stack \in Stacks /\ cpu \in Contexts /\ currtask \in Contexts /\ stack[cpu] # <<>>
      /\ Head(stack[cpu]).at = "switch" /\ Parked(stack, cpu) /\ Top \in FrameType
      /\ Owned(stack, cpu) /\ At("switch") /\ In("switch") /\ Top.who = cpu
  <2>1. At("switch")
    BY DEF Switch
  <2>2. Len(stack[cpu]) \in 1 .. Len(stack[cpu]) /\ Deep(stack[cpu], Len(stack[cpu])).at = "switch"
    BY <2>1, TopIs
  <2> QED BY <2>1, <2>2, TopIs, TopOwned DEF HeapInv, RestTyped, DeadlineInv, Top, In, Odd, InSched
<1>2. Lacks(stack, Hasty)
  <2>1. Top.at \notin Hasty
    BY DEF Switch, At, Hasty
  <2> QED BY <2>1, NotHasty
<1>3. /\ Replaced(stack, left, cpu, <<[Head(stack[cpu]) EXCEPT !.at = "away"]>> \o Tail(stack[cpu]))
      /\ Replaced(stack, left, cpu, <<f>> \o Tail(stack[cpu]))
  BY DEF Replaced, Top
<1>4. /\ cpu' = currtask /\ currtask' = currtask /\ lasttime' = lasttime /\ ts' = ts /\ time' = time
      /\ asked' = asked \ {currtask} /\ schedLock' = FALSE
      /\ \/ resumed = <<>> /\ stack' = left /\ utime' = utime
         \/ /\ resumed # <<>> /\ Dropped(left, stack', currtask, k)
            /\ utime' = [utime EXCEPT ![resumed[1].who] = time[currtask]]
  BY DEF Switch, Dropped, Resume
<1>5. f \in FrameType /\ f.at = "away" /\ f.who = cpu
  BY <1>1 DEF FrameType, Labels
<1>6. k \in {2, 3} /\ (k = 3 => Len(left[currtask]) > 1 /\ left[currtask][2].at = "tunnel")
  OBVIOUS
<1> HIDE DEF left, k, f
<1>7. /\ left \in Stacks
      /\ \A x \in Contexts : left[x] # <<>> => Deep(left[x], Len(left[x])).at = "away"
  BY <1>1, <1>2, <1>3, LeftIs
<1>8. Adds(stack, left, cpu, f)
  BY <1>1, <1>3, <1>5, TopAdds
<1>9. Owned(left, cpu) /\ \A t \in Contexts : NeverRan(left, cpu, t) => NeverRan(stack, cpu, t)
  <2>1. f.at \notin Late
    BY <1>5 DEF Late
  <2> QED BY <1>1, <1>5, <1>8, <2>1, FramesKept
<1>10. left[cpu] # <<>>
  <2>1. left[cpu] = <<f>> \o Tail(stack[cpu]) /\ Tail(stack[cpu]) \in Seq(FrameType)
    BY <1>1, <1>3, PopIs DEF Replaced, Stacks
  <2> QED BY <2>1
<1>11. resumed # <<>> => resumed[1].who = currtask
  <2> SUFFICES ASSUME resumed # <<>> PROVE resumed[1].who = currtask
    OBVIOUS
  <2>1. left[currtask] \in Seq(FrameType) /\ left[currtask] # <<>>
    BY <1>1, <1>7 DEF Stacks
  <2>2. Deep(left[currtask], Len(left[currtask])) = Head(left[currtask])
        /\ Len(left[currtask]) \in 1 .. Len(left[currtask])
    BY <2>1, PopIs
  <2>3. Deep(left[currtask], Len(left[currtask])).who = currtask
    BY <1>1, <1>7, <1>9, <2>1, <2>2 DEF Owned, Odd
  <2> QED BY <2>1, <2>2, <2>3
<1>12. Calm(stack', currtask)
  BY <1>4, SwitchSched DEF StacksAre
<1>13. /\ \A x \in Contexts \ {currtask} : stack'[x] = left[x]
       /\ NoNew(left, stack', Late)
  <2>1. CASE resumed = <<>>
    BY <1>4, <2>1 DEF NoNew
  <2>2. CASE resumed # <<>>
    <3>1. Dropped(left, stack', currtask, k) /\ left[currtask] # <<>>
          /\ Deep(left[currtask], Len(left[currtask])).at = "away"
      BY <1>1, <1>4, <1>7, <2>2
    <3>2. "away" \notin Late /\ "tunnel" \notin Late
      BY DEF Late
    <3> QED BY <1>1, <1>6, <1>7, <3>1, <3>2, DroppedKeeps
  <2> QED BY <2>1, <2>2
<1>14. ASSUME NEW t \in Contexts, NeverRan(stack', currtask, t)
       PROVE  NeverRan(left, cpu, t) /\ NeverRan(stack, cpu, t) /\ t # currtask
  <2>1. t # currtask /\ left[t] = <<>>
    BY <1>13, <1>14 DEF NeverRan
  <2>2. t # cpu
    BY <1>10, <2>1
  <2> QED BY <1>9, <2>1, <2>2 DEF NeverRan
<1>15. Owned(stack', cpu')
  <2>1. ASSUME NEW x \in Contexts, NEW d \in 1 .. Len(stack'[x]), Deep(stack'[x], d).at \in Odd
        PROVE  Deep(stack'[x], d).who = x
    <3>1. x # currtask
      BY <1>12, <2>1 DEF Calm
    <3> QED BY <1>9, <1>13, <2>1, <3>1 DEF Owned
  <2>2. ASSUME NEW x \in Contexts, NEW d \in 1 .. Len(stack'[x]), Deep(stack'[x], d).at \in Late
        PROVE  ~NeverRan(stack', currtask, Deep(stack'[x], d).who)
    <3>1. d \in 1 .. Len(left[x]) /\ Deep(stack'[x], d) = Deep(left[x], d)
      BY <1>13, <2>2 DEF NoNew
    <3>2. ~NeverRan(left, cpu, Deep(left[x], d).who)
      BY <1>9, <2>2, <3>1 DEF Owned
    <3>3. Deep(left[x], d).who \in Contexts
      <4>1. left[x] \in Seq(FrameType)
        BY <1>7 DEF Stacks
      <4>2. Deep(left[x], d) \in FrameType
        BY <3>1, <4>1, DeepIs
      <4> QED BY <4>2 DEF FrameType
    <3> QED BY <1>14, <3>1, <3>2, <3>3
  <2> QED BY <1>4, <2>1, <2>2 DEF Owned
<1>16. \A label \in Odd : ~In(label)'
  BY <1>4, <1>12 DEF In, Calm
<1>17. Charged'
  BY <1>16 DEF Charged, Odd, InSched
<1>18. utime \in [Contexts -> TIME] /\ Threads \subseteq Contexts
  BY DEF HeapInv, RestTyped, Contexts
<1>19. ts[currtask] = "Running" => utime'[currtask] = lasttime
  <2> SUFFICES ASSUME ts[currtask] = "Running" PROVE utime'[currtask] = lasttime
    OBVIOUS
  <2>1. time[currtask] = lasttime
    BY <1>1 DEF DeadlineInv, QuantumTime
  <2>2. CASE resumed = <<>>
    <3>1. utime' = utime /\ currtask # cpu
      BY <1>4, <1>10, <2>2
    <3>2. stack[currtask] = <<>>
      BY <1>1, <1>8, <2>2, <3>1 DEF Adds
    <3>3. currtask \in Threads /\ Fresh(currtask)
      BY <1>1, <3>1, <3>2, StatesAre DEF Fresh, Contexts, HeapInv, HeapsTyped
    <3> QED BY <2>1, <3>1, <3>3 DEF DeadlineInv, FreshTime
  <2>3. CASE resumed # <<>>
    BY <1>1, <1>4, <1>11, <1>18, <2>1, <2>3
  <2> QED BY <2>2, <2>3
<1>20. QuantumTime'
  <2>1. ~In("switch")'
    BY <1>16 DEF Odd, InSched
  <2>2. ts[currtask] = "Running" => ObjectTime'
    BY <1>4, <1>19 DEF ObjectTime
  <2> QED BY <1>4, <2>1, <2>2 DEF QuantumTime
<1>21. FreshTime'
  <2>1. ASSUME NEW t \in Threads, Fresh(t)', ts'[t] = "Running" PROVE utime'[t] = time'[t]
    <3>1. NeverRan(stack', currtask, t) /\ t \in Contexts
      BY <1>4, <1>18, <2>1 DEF Fresh, NeverRan
    <3>2. Fresh(t) /\ t # currtask
      BY <1>14, <3>1 DEF Fresh, NeverRan
    <3>3. utime'[t] = utime[t]
      BY <1>4, <1>11, <1>18, <3>1, <3>2
    <3> QED BY <1>4, <2>1, <3>2, <3>3 DEF DeadlineInv, FreshTime
  <2> QED BY <2>1 DEF FreshTime
<1> QED BY <1>15, <1>17, <1>20, <1>21 DEF DeadlineInv

LEMMA DeadlineNext ==
    ASSUME HeapInv, StacksAre, RootInv, DeadlineInv, "race" \notin Allowed,
           "unqueued" \notin Allowed, "self" \notin Allowed, "unlocked irq" \notin Allowed,
           "tunnel" \notin Allowed, "fresh wake" \notin Allowed, [Next]_vars
    PROVE  DeadlineInv'
<1>1. CASE KernelStep
  BY <1>1, ChargeDeadline, FlushDeadline, PickDeadline, SwitchDeadline, PrioritiseUnlockedDeadline,
     ClimbUnlockedDeadline, IrqEndDeadline, MarkDeadline, InsertDeadline DEF KernelStep
<1>2. CASE SystemCall
  <2>1. CASE QuantumDone
    BY <2>1, QuantumDoneDeadline
  <2>2. ASSUME NEW t \in Threads, Wake(t)
        PROVE  DeadlineInv'
    BY <2>2, WakeDeadline
  <2>3. ASSUME NEW t \in Threads, NEW state \in States, SetThreadState(t, state)
        PROVE  DeadlineInv'
    BY <2>3, SetThreadStateDeadline
  <2>4. ASSUME NEW d \in Deadlines, SetDeadline(d)
        PROVE  DeadlineInv'
    BY <2>4, SetDeadlineDeadline
  <2>5. ~TunnelConservative /\ \A t \in Threads : ~TunnelSwapping(t) /\ ~TunnelUnblocking(t)
    BY DEF TunnelConservative, TunnelSwapping, TunnelUnblocking
  <2> QED BY <1>2, <2>1, <2>2, <2>3, <2>4, <2>5 DEF SystemCall
<1>3. CASE Timer
  BY <1>3, TimerDeadline
<1>4. CASE \E h \in Drivers : IRQ(h)
  BY <1>4, IRQDeadline
<1>5. CASE UNCHANGED vars
  <2>1. UNCHANGED <<ts, time, utime, currtask, lasttime, cpu, stack, asked>>
    BY <1>5 DEF vars, heaps, sched, proc
  <2> QED BY <2>1 DEF DeadlineInv, Owned, NeverRan, QuantumTime, ObjectTime, FreshTime, Charged,
                      In, At, Idling, Top, Fresh
<1> QED BY <1>1, <1>2, <1>3, <1>4, <1>5 DEF Next

LEMMA DeadlineInit ==
    ASSUME Init
    PROVE  DeadlineInv
<1>1. \A x \in Contexts : Len(stack[x]) = 0
  BY DEF Init
<1>2. cpu \in Contexts /\ currtask = IdleLoop /\ ts[IdleLoop] = "Idle"
  BY DEF Init, Contexts
<1>3. Owned(stack, cpu)
  BY <1>1 DEF Owned
<1>4. QuantumTime /\ Charged
  BY <1>1, <1>2 DEF QuantumTime, Charged, In
<1>5. FreshTime
  BY DEF Init, FreshTime, Contexts
<1> QED BY <1>3, <1>4, <1>5 DEF DeadlineInv

(* Whoever becomes a realtime thread is flushed, and the chosen one.       *)
LEMMA OnlyFlushMoves ==
    ASSUME HeapInv, [Next]_vars, NEW t \in Threads, ts[t] # "RealTime", ts'[t] = "RealTime"
    PROVE  Flush /\ t = currtask
<1>1. ts \in [Contexts -> States] /\ Threads \subseteq Contexts
  BY DEF HeapInv, HeapsTyped, AllStates, Contexts
<1>2. ASSUME NEW hs, NEW u, NEW when, NEW ht, ht # "RealTime", Queue(hs, u, ht, when) PROVE FALSE
  BY <1>1, <1>2 DEF Queue
<1>3. ASSUME NEW u, Block(u) PROVE FALSE
  BY <1>1, <1>3 DEF Block
<1>4. ts' # ts
  OBVIOUS
<1>5. CASE Flush
  <2>1. CASE t = currtask
    BY <1>5, <2>1
  <2>2. CASE t # currtask
    BY <1>5, <2>2, FlushTimes
  <2> QED BY <2>1, <2>2
<1>6. CASE Charge \/ Pick \/ Switch \/ PrioritiseUnlocked \/ ClimbUnlocked \/ IrqEnd \/ Insert
  BY <1>4, <1>6 DEF Charge, Pick, Switch, PrioritiseUnlocked, ClimbUnlocked, IrqEnd, Insert, heaps
<1>7. CASE Mark
  BY <1>1, <1>7 DEF Mark
<1>8. CASE Timer \/ QuantumDone \/ TunnelConservative \/ UNCHANGED vars
  BY <1>4, <1>8 DEF Timer, QuantumDone, TunnelConservative, heaps, vars
<1>9. ASSUME NEW u \in Threads, Wake(u) \/ TunnelUnblocking(u) PROVE FALSE
  BY <1>4, <1>9 DEF Wake, TunnelUnblocking, heaps
<1>10. ASSUME NEW u \in Threads, TunnelSwapping(u) PROVE FALSE
  <2>1. ts' = [ts EXCEPT ![cpu] = "Blocked"] \/ ts' = [ts EXCEPT ![cpu] = "Blocked", ![u] = "Running"]
    BY <1>10 DEF TunnelSwapping
  <2> QED BY <1>1, <2>1
<1>11. ASSUME NEW u \in Threads, NEW state \in States, SetThreadState(u, state) PROVE FALSE
  BY <1>2, <1>3, <1>4, <1>11 DEF SetThreadState, heaps
<1>12. ASSUME NEW d \in Deadlines, SetDeadline(d) PROVE FALSE
  BY <1>4, <1>12 DEF SetDeadline
<1>13. ASSUME NEW h \in Drivers, IRQ(h) PROVE FALSE
  BY <1>2, <1>4, <1>13 DEF IRQ
<1> QED BY <1>5, <1>6, <1>7, <1>8, <1>9, <1>10, <1>11, <1>12, <1>13 DEF Next, KernelStep, SystemCall

(* ... and nothing else happens while the scheduler is to flush it.        *)
LEMMA OnlyFlushFlushes ==
    ASSUME "unlocked irq" \notin Allowed, At("flush"), ~At("flush")', [Next]_vars
    PROVE  Flush
<1>1. ~Idling /\ ~Interruptible /\ \A label : At(label) => label = "flush"
  BY DEF At, Interruptible
<1>2. CASE KernelStep
  BY <1>1, <1>2 DEF KernelStep, Charge, Pick, Switch, PrioritiseUnlocked, ClimbUnlocked, IrqEnd,
                    Mark, Insert
<1>3. ~SystemCall
  BY <1>1 DEF SystemCall, QuantumDone, TunnelConservative, Wake, TunnelSwapping, TunnelUnblocking,
              SetThreadState, SetDeadline
<1>4. ~Timer /\ \A h \in Drivers : ~IRQ(h)
  BY <1>1 DEF Timer, IRQ
<1>5. CASE UNCHANGED vars
  BY <1>5 DEF vars, proc, At, Idling, Top
<1> QED BY <1>2, <1>3, <1>4, <1>5 DEF Next

LEMMA DeadlineTaken ==
    ASSUME HeapInv, StacksAre, DeadlineInv, "unlocked irq" \notin Allowed, [Next]_vars,
           NEW t \in Threads
    PROVE  /\ ts[t] = "Running" /\ ts'[t] = "RealTime" => t \in asked
           /\ currtask = t /\ t \in asked /\ At("flush") /\ ts[t] = "Running" /\ ~At("flush")'
                => ts'[t] = "RealTime"
<1>1. ASSUME Flush, ts[currtask] = "Running"
      PROVE  ObjectTime /\ time[currtask] = utime[currtask] /\ lasttime \in TIME
  <2>1. At("flush")
    BY <1>1 DEF Flush
  <2>2. In("flush")
    BY <2>1, AtIsIn
  <2>3. ~In("pick") /\ ~In("switch")
    <3>1. \A label \in Odd : In(label) => label = "flush"
      BY <2>1, OnlyIn DEF InSched
    <3> QED BY <3>1 DEF Odd, InSched
  <2> QED BY <1>1, <2>2, <2>3 DEF DeadlineInv, QuantumTime, Charged, HeapInv, RestTyped
<1>2. ASSUME Flush, ts[currtask] = "Running" PROVE FlushRunning
  BY <1>2, StatesAre DEF Flush, FlushRealTime, FlushIdle, FlushBlocked
<1>3. ts \in [Contexts -> States] /\ currtask \in Contexts
  BY DEF HeapInv, HeapsTyped, AllStates, RestTyped
<1>4. ASSUME ts[t] = "Running", ts'[t] = "RealTime" PROVE t \in asked
  <2>1. Flush /\ t = currtask
    BY <1>4, OnlyFlushMoves
  <2>2. FlushRunning /\ ObjectTime /\ time[currtask] = utime[currtask] /\ lasttime \in TIME
    BY <1>1, <1>2, <1>4, <2>1
  <2>3. CLESS(lasttime, time[currtask])
    BY <1>4, <2>1, <2>2 DEF FlushRunning, AdvanceAndSink
  <2> QED BY <2>1, <2>2, <2>3, NotBeforeItself DEF ObjectTime
<1>5. ASSUME currtask = t, t \in asked, At("flush"), ts[t] = "Running", ~At("flush")'
      PROVE  ts'[t] = "RealTime"
  <2>1. Flush
    BY <1>5, OnlyFlushFlushes
  <2>2. FlushRunning /\ CLESS(lasttime, time[currtask])
    BY <1>1, <1>2, <1>5, <2>1 DEF ObjectTime
  <2>3. ts' = [ts EXCEPT ![currtask] = "RealTime"]
    BY <2>2 DEF FlushRunning, Queue
  <2> QED BY <1>3, <1>5, <2>3
<1> QED BY <1>4, <1>5

(* CKflushPrevTask compares the time in the thread object with the time at  *)
(* which the thread was chosen, and whoever is later becomes a realtime     *)
(* thread: these are the threads that wrote a deadline since they were      *)
(* given the processor, and all of them, however they were interrupted,    *)
(* woken and prioritised before.  It needs the hypotheses of RootsRun, that *)
(* nobody tunnels, and that a thread which never ran is told to run by      *)
(* CKsetThreadState, which writes its object: a signal would set only the   *)
(* kernel's time.                                                          *)
THEOREM DeadlinesAreTaken ==
    ASSUME "race" \notin Allowed, "unqueued" \notin Allowed,
           "self" \notin Allowed, "unlocked irq" \notin Allowed,
           "preempted wake" \notin Allowed, "tunnel" \notin Allowed, "fresh wake" \notin Allowed
    PROVE  Spec => DeadlineOnRequest
<1> DEFINE Inv == HeapInv /\ StacksAre /\ RootInv /\ DeadlineInv
<1>1. Init => Inv
  BY HeapInit, SchedInit, RootInit, DeadlineInit
<1>2. Inv /\ [Next]_vars => Inv'
  BY HeapNext, SchedNext, RootNext, DeadlineNext
<1>3. Inv /\ [Next]_vars =>
         [\A t \in Threads :
             /\ ts[t] = "Running" /\ ts'[t] = "RealTime" => t \in asked
             /\ currtask = t /\ t \in asked /\ At("flush") /\ ts[t] = "Running" /\ ~At("flush")'
                   => ts'[t] = "RealTime"]_vars
  BY DeadlineTaken
<1> HIDE DEF Inv
<1> QED BY <1>1, <1>2, <1>3, PTL DEF Spec, DeadlineOnRequest
=============================================================================
