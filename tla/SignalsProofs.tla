---------------------------- MODULE SignalsProofs ---------------------------
(***************************************************************************)
(* Theorems about the signals of a thread, for every set of priorities and *)
(* every number of signals: the marks of the queue follow the frames on    *)
(* the stack, and the queue with its marks implements SignalDiscipline.    *)
(* They are about an environment that may block the thread at any time but *)
(* does none of the other things that Features lists.                      *)
(***************************************************************************)
EXTENDS Signals, FiniteSetTheorems, WellFoundedInduction, SequenceTheorems, TLAPS

USE SignalsAssumption

(* The signals from place l of the queue on have the d unfinished frames,   *)
(* which lie above the finished ones: only one signal can be in front of    *)
(* them, more urgent than they are, and only while no frame is being built. *)
Stacked(l, d) ==
    /\ l \in {1, 2} /\ (l = 2 => d > 0)
    /\ d \in 0 .. Len(frames) /\ l + d - 1 <= Len(queue)
    /\ \A i \in 1 .. Len(queue) : queue[i] \in busy <=> l <= i /\ i < l + d
    /\ \A i \in 1 .. Len(frames) : frames[i].at = "finished" <=> i > d
    /\ \A i \in 1 .. d : frames[i].at \in {"handler", "eos"} => frames[i].sig = queue[l + i - 1]
    /\ \A i \in 2 .. d : frames[i].at \in {"handler", "eos"}
    /\ l = 2 => priority[queue[1]] < priority[queue[2]]
    /\ Building => l = 1
    /\ inCall => l = 1 /\ (d = 0 => queue = <<>>)
    /\ inCall /\ frames # <<>> => Top.at = "handler"

(* A sender of priority p that has found its place.                        *)
Sender(p) ==
    [sends |-> {p},
     after |-> IF Place(p) = 0 THEN NoSignal ELSE queue[Place(p)],
     next  |-> IF Place(p) = Len(queue) THEN NoSignal ELSE queue[Place(p) + 1]]

(* No step comes between the two of a sender, so that its place is right.   *)
SenderIsRight ==
    sender # NoSender =>
        \E p \in Priorities : Len(priority) < MaxSignals /\ MayArrive(p) /\ sender = Sender(p)

IInv == TypeOK /\ SenderIsRight /\ \E l \in {1, 2} : \E d \in 0 .. Len(frames) : Stacked(l, d)

Frame == [at : Labels, sig : 0 .. Len(priority)]

(* What TypeOK says of the queue.                                          *)
QueueTypes ==
    /\ priority \in Seq(Priorities) /\ Len(priority) <= MaxSignals
    /\ queue \in Seq(1 .. Len(priority))
    /\ \A i, j \in 1 .. Len(queue) : i < j =>
           \/ priority[queue[i]] < priority[queue[j]]
           \/ priority[queue[i]] = priority[queue[j]] /\ queue[i] < queue[j]
    /\ busy \subseteq { queue[i] : i \in 1 .. Len(queue) }
-----------------------------------------------------------------------------
LEMMA LeastNat ==
    ASSUME NEW T \in SUBSET Nat, T # {}
    PROVE  \E x \in T : \A y \in T : x <= y
<1>1. \A a, b \in Nat : a < b => <<a, b>> \in OpToRel(<, Nat)
  BY DEF OpToRel
<1>2. \E R : IsWellFoundedOn(R, Nat) /\ \A a, b \in Nat : a < b => <<a, b>> \in R
  <2> WITNESS OpToRel(<, Nat)
  <2> QED BY <1>1, NatLessThanWellFounded, Zenon
<1>3. PICK R : IsWellFoundedOn(R, Nat) /\ \A a, b \in Nat : a < b => <<a, b>> \in R
  BY <1>2
<1>4. \E x \in T : \A y \in T : ~(<<y, x>> \in R)
  <2>1. IsWellFoundedOn(R, Nat) /\ T \subseteq Nat
    BY <1>3
  <2> QED BY <2>1, WFMin, Zenon
<1>5. PICK x \in T : \A y \in T : ~(<<y, x>> \in R)
  BY <1>4
<1>6. \A y \in T : ~(y < x)
  BY <1>3, <1>5
<1> QED BY <1>6

Inserted(q, k, x) == SubSeq(q, 1, k) \o <<x>> \o SubSeq(q, k + 1, Len(q))

LEMMA Insertion ==
    ASSUME NEW S, NEW q \in Seq(S), NEW k \in 0 .. Len(q), NEW x \in S
    PROVE  /\ Inserted(q, k, x) \in Seq(S)
           /\ Len(Inserted(q, k, x)) = Len(q) + 1
           /\ \A i \in 1 .. k : Inserted(q, k, x)[i] = q[i]
           /\ Inserted(q, k, x)[k + 1] = x
           /\ \A i \in k + 2 .. Len(q) + 1 : Inserted(q, k, x)[i] = q[i - 1]
<1>1. /\ SubSeq(q, 1, k) \in Seq(S)
      /\ Len(SubSeq(q, 1, k)) = k
      /\ \A i \in 1 .. k : SubSeq(q, 1, k)[i] = q[i]
  BY SubSeqProperties
<1>2. /\ SubSeq(q, k + 1, Len(q)) \in Seq(S)
      /\ Len(SubSeq(q, k + 1, Len(q))) = Len(q) - k
      /\ \A i \in 1 .. Len(q) - k : SubSeq(q, k + 1, Len(q))[i] = q[k + i]
  BY SubSeqProperties
<1> DEFINE a == SubSeq(q, 1, k) b == SubSeq(q, k + 1, Len(q)) m == a \o <<x>>
<1>3. /\ m \in Seq(S) /\ Len(m) = k + 1
      /\ \A i \in 1 .. k : m[i] = q[i]
      /\ m[k + 1] = x
  <2> HIDE DEF a
  <2>1. a \in Seq(S) /\ Len(a) = k /\ \A i \in 1 .. k : a[i] = q[i]
    BY <1>1 DEF a
  <2> QED BY <2>1
<1>4. /\ m \o b \in Seq(S) /\ Len(m \o b) = Len(q) + 1
      /\ \A i \in 1 .. k + 1 : (m \o b)[i] = m[i]
      /\ \A i \in k + 2 .. Len(q) + 1 : (m \o b)[i] = q[i - 1]
  <2> HIDE DEF m, b
  <2>1. /\ b \in Seq(S) /\ Len(b) = Len(q) - k
        /\ \A i \in 1 .. Len(q) - k : b[i] = q[k + i]
    BY <1>2 DEF b
  <2>2. /\ m \o b \in Seq(S) /\ Len(m \o b) = Len(q) + 1
        /\ \A i \in 1 .. k + 1 : (m \o b)[i] = m[i]
    BY <1>3, <2>1
  <2>3. ASSUME NEW i \in k + 2 .. Len(q) + 1 PROVE (m \o b)[i] = q[i - 1]
    <3>1. (m \o b)[i] = b[i - (k + 1)]
      BY <1>3, <2>1
    <3>2. i - (k + 1) \in 1 .. Len(q) - k /\ k + (i - (k + 1)) = i - 1
      OBVIOUS
    <3> QED BY <2>1, <3>1, <3>2
  <2> QED BY <2>2, <2>3
<1>5. Inserted(q, k, x) = m \o b
  BY DEF Inserted
<1> HIDE DEF a, b, m
<1> QED BY <1>3, <1>4, <1>5

LEMMA SelectedInterval ==
    ASSUME NEW S, NEW s \in Seq(S), NEW a \in 1 .. Len(s) + 1, NEW b \in a - 1 .. Len(s)
    PROVE  /\ Selected(s, a .. b) \in Seq(S)
           /\ Len(Selected(s, a .. b)) = b - a + 1
           /\ \A n \in 1 .. b - a + 1 : Selected(s, a .. b)[n] = s[a + n - 1]
<1>0. a \in Nat /\ b \in Nat /\ a <= b + 1 /\ b <= Len(s) /\ a > 0
  OBVIOUS
<1>1. ASSUME NEW i \in Int, i + 1 >= a
      PROVE  Cardinality(a .. i) = i - a + 1
  <2>1. a \in Int /\ i \in Int
    BY <1>0
  <2>2. Cardinality(a .. i) = IF a > i THEN 0 ELSE i - a + 1
    BY <2>1, FS_Interval, Zenon
  <2> QED BY <1>0, <1>1, <2>2
<1>2. ASSUME NEW i \in a .. b
      PROVE  Cardinality({j \in a .. b : j <= i}) = i - a + 1
  <2>1. {j \in a .. b : j <= i} = a .. i
    BY <1>0
  <2>2. Cardinality(a .. i) = i - a + 1
    BY <1>0, <1>1
  <2> QED BY <2>1, <2>2
<1>3. ASSUME NEW n \in 1 .. b - a + 1
      PROVE  (CHOOSE i \in a .. b : Cardinality({j \in a .. b : j <= i}) = n) = a + n - 1
  <2>1. a + n - 1 \in a .. b
    BY <1>0
  <2>2. \A i \in a .. b : Cardinality({j \in a .. b : j <= i}) = n <=> i = a + n - 1
    BY <1>0, <1>2
  <2> QED BY <2>1, <2>2
<1>4. Selected(s, a .. b) = [n \in 1 .. b - a + 1 |-> s[a + n - 1]]
  <2> DEFINE index(n) == CHOOSE i \in a .. b : Cardinality({j \in a .. b : j <= i}) = n
  <2>1. Cardinality(a .. b) = b - a + 1
    BY <1>0, <1>1
  <2>2. Selected(s, a .. b) = [n \in 1 .. Cardinality(a .. b) |-> s[index(n)]]
    BY DEF Selected
  <2>3. \A n \in 1 .. b - a + 1 : index(n) = a + n - 1
    BY <1>3
  <2> HIDE DEF index
  <2> QED BY <2>1, <2>2, <2>3
<1>5. \A n \in 1 .. b - a + 1 : s[a + n - 1] \in S
  BY <1>0
<1> QED BY <1>0, <1>4, <1>5

LEMMA Stacking ==
    ASSUME NEW S, NEW s \in Seq(S), NEW x \in S
    PROVE  /\ <<x>> \o s \in Seq(S) /\ Len(<<x>> \o s) = Len(s) + 1
           /\ (<<x>> \o s)[1] = x
           /\ \A i \in 2 .. Len(s) + 1 : (<<x>> \o s)[i] = s[i - 1]
           /\ Head(<<x>> \o s) = x /\ Tail(<<x>> \o s) = s
OBVIOUS

LEMMA Types ==
    ASSUME TypeOK
    PROVE  /\ Len(priority) \in Nat /\ Len(queue) \in Nat /\ Len(frames) \in Nat
           /\ queue \in Seq(Nat)
           /\ \A i \in 1 .. Len(queue) :
                  queue[i] \in 1 .. Len(priority) /\ priority[queue[i]] \in Nat
           /\ \A i, j \in 1 .. Len(queue) : i < j =>
                  \/ priority[queue[i]] < priority[queue[j]]
                  \/ priority[queue[i]] = priority[queue[j]] /\ queue[i] < queue[j]
           /\ \A s \in busy : \E i \in 1 .. Len(queue) : queue[i] = s
           /\ busy \subseteq 1 .. Len(priority)
           /\ frames \in Seq(Frame)
           /\ \A i, j \in 1 .. Len(queue) : queue[i] = queue[j] => i = j
<1>1. /\ Len(priority) \in Nat /\ Len(queue) \in Nat /\ Len(frames) \in Nat
      /\ queue \in [1 .. Len(queue) -> 1 .. Len(priority)]
      /\ priority \in [1 .. Len(priority) -> Priorities]
      /\ queue \in Seq(1 .. Len(priority))
  BY DEF TypeOK
<1>2. ASSUME NEW i \in 1 .. Len(queue)
      PROVE  queue[i] \in 1 .. Len(priority) /\ priority[queue[i]] \in Nat
  <2>1. queue[i] \in 1 .. Len(priority)
    BY <1>1
  <2>2. priority[queue[i]] \in Priorities
    BY <1>1, <2>1
  <2> QED BY <2>1, <2>2
<1>3. \A s \in busy : \E i \in 1 .. Len(queue) : queue[i] = s
  BY DEF TypeOK
<1>4. queue \in Seq(Nat) /\ busy \subseteq 1 .. Len(priority)
  BY <1>1, <1>2, <1>3
<1>5. frames \in Seq(Frame)
  BY DEF TypeOK, Frame
<1>6. \A i, j \in 1 .. Len(queue) : i < j =>
          \/ priority[queue[i]] < priority[queue[j]]
          \/ priority[queue[i]] = priority[queue[j]] /\ queue[i] < queue[j]
  BY DEF TypeOK
<1>7. ASSUME NEW i \in 1 .. Len(queue), NEW j \in 1 .. Len(queue), queue[i] = queue[j]
      PROVE  i = j
  <2>1. queue[i] \in Nat /\ priority[queue[i]] \in Nat
    BY <1>2
  <2>2. ~(i < j) /\ ~(j < i)
    BY <1>6, <1>7, <2>1
  <2> QED BY <1>1, <2>2
<1> QED BY <1>1, <1>2, <1>3, <1>4, <1>5, <1>6, <1>7

LEMMA Placing ==
    ASSUME TypeOK, NEW p \in Priorities
    PROVE  /\ Place(p) \in 0 .. Len(queue)
           /\ \A i \in 1 .. Place(p) : priority[queue[i]] <= p
           /\ \A i \in Place(p) + 1 .. Len(queue) : priority[queue[i]] > p
<1> DEFINE n == Len(queue)
           q(i) == priority[queue[i]]
<1>1. /\ n \in Nat
      /\ \A i \in 1 .. n : q(i) \in Nat
      /\ \A i, j \in 1 .. n : i < j => q(i) <= q(j)
  <2>1. n \in Nat /\ \A i \in 1 .. n : q(i) \in Nat
    BY Types
  <2>2. \A i, j \in 1 .. n : i < j => q(i) < q(j) \/ q(i) = q(j)
    BY Types
  <2> QED BY <2>1, <2>2
<1>2. p \in Nat
  OBVIOUS
<1>3. CASE queue = <<>> \/ q(1) > p
  <2>1. Place(p) = 0
    BY <1>3 DEF Place
  <2>2. ASSUME NEW i \in 1 .. n PROVE q(i) > p
    <3>1. q(1) > p /\ q(1) <= q(i) /\ q(1) \in Nat /\ q(i) \in Nat
      BY <1>1, <1>3, <2>2
    <3> QED BY <1>2, <3>1
  <2> QED BY <1>1, <2>1, <2>2
<1>4. CASE ~(queue = <<>> \/ q(1) > p)
  <2> DEFINE Last(k) == /\ k < n => q(k + 1) > p
                        /\ \A j \in 2 .. k : q(j) <= p
  <2>1. n > 0 /\ q(1) <= p
    BY <1>1, <1>2, <1>4
  <2>2. \E k \in 1 .. n : Last(k)
    <3> DEFINE Later == {j \in 2 .. n : q(j) > p}
    <3>1. CASE Later = {}
      <4>1. ASSUME NEW j \in 2 .. n PROVE q(j) <= p
        <5>1. ~(q(j) > p)
          BY <3>1
        <5> QED BY <1>1, <1>2, <5>1
      <4>2. n \in 1 .. n /\ Last(n)
        BY <1>1, <2>1, <4>1
      <4> QED BY <4>2
    <3>2. CASE Later # {}
      <4>1. Later \in SUBSET Nat
        OBVIOUS
      <4>2. PICK j \in Later : \A i \in Later : j <= i
        BY <3>2, <4>1, LeastNat, Zenon
      <4>3. j \in 2 .. n /\ q(j) > p
        BY <4>2
      <4>4. ASSUME NEW i \in 2 .. j - 1
            PROVE  q(i) <= p
        <5>1. i \in 2 .. n /\ i < j
          BY <1>1, <4>3
        <5>2. i \notin Later
          BY <1>1, <4>2, <4>3, <5>1
        <5> QED BY <1>1, <1>2, <5>1, <5>2
      <4>5. j - 1 \in 1 .. n /\ Last(j - 1)
        BY <1>1, <4>3, <4>4
      <4> QED BY <4>5
    <3> QED BY <3>1, <3>2
  <2>3. Place(p) = CHOOSE k \in 1 .. n : Last(k)
    BY <1>4 DEF Place
  <2>4. Place(p) \in 1 .. n /\ Last(Place(p))
    BY <2>2, <2>3
  <2> DEFINE k == Place(p)
  <2>5. ASSUME NEW i \in 1 .. k PROVE q(i) <= p
    BY <2>1, <2>4, <2>5
  <2>6. ASSUME NEW i \in k + 1 .. n PROVE q(i) > p
    <3>1. q(k + 1) > p /\ q(k + 1) \in Nat /\ q(i) \in Nat
      BY <1>1, <2>4, <2>6
    <3>2. k + 1 = i \/ q(k + 1) <= q(i)
      BY <1>1, <2>4, <2>6
    <3> QED BY <1>2, <3>1, <3>2
  <2> QED BY <1>1, <2>4, <2>5, <2>6
<1> QED BY <1>3, <1>4

(* What selecting the marked signals of a queue yields.                    *)
LEMMA MarkedSignals ==
    ASSUME NEW q \in Seq(Nat), NEW b, NEW l \in {1, 2}, NEW d \in Nat, l + d - 1 <= Len(q),
           \A i \in 1 .. Len(q) : q[i] \in b <=> l <= i /\ i < l + d,
           l = 2 => d > 0
    PROVE  LET r == Selected(q, {i \in 1 .. Len(q) : q[i] \in b}) IN
           r \in Seq(Nat) /\ Len(r) = d /\ \A n \in 1 .. d : r[n] = q[l + n - 1]
<1>1. {i \in 1 .. Len(q) : q[i] \in b} = l .. l + d - 1
  OBVIOUS
<1>2. /\ l \in 1 .. Len(q) + 1 /\ l + d - 1 \in l - 1 .. Len(q)
      /\ l + d - 1 - l + 1 = d
  OBVIOUS
<1> HIDE DEF Selected
<1> DEFINE b2 == l + d - 1
<1>6. l \in 1 .. Len(q) + 1 /\ b2 \in l - 1 .. Len(q)
  BY <1>2
<1>4. Selected(q, {i \in 1 .. Len(q) : q[i] \in b}) = Selected(q, l .. b2)
  BY <1>1
<1>5. b2 - l + 1 = d
  BY <1>2
<1> HIDE DEF b2
<1>3. /\ Selected(q, l .. b2) \in Seq(Nat) /\ Len(Selected(q, l .. b2)) = b2 - l + 1
      /\ \A n \in 1 .. b2 - l + 1 : Selected(q, l .. b2)[n] = q[l + n - 1]
  BY <1>6, SelectedInterval
<1> QED BY <1>3, <1>4, <1>5

LEMMA StackedIsHandled == IInv => HandlersAreBusy
<1> SUFFICES ASSUME IInv PROVE HandlersAreBusy
  OBVIOUS
<1>1. PICK l \in {1, 2}, d \in 0 .. Len(frames) : Stacked(l, d)
  BY DEF IInv
<1>2. /\ queue \in Seq(Nat) /\ frames \in Seq(Frame) /\ TypeOK
  BY DEF IInv, TypeOK, Frame
<1>3. Len(BusyQueue) = d /\ \A n \in 1 .. d : BusyQueue[n] = queue[l + n - 1]
  <2>1. /\ d \in Nat /\ l + d - 1 <= Len(queue) /\ (l = 2 => d > 0)
        /\ \A i \in 1 .. Len(queue) : queue[i] \in busy <=> l <= i /\ i < l + d
    BY <1>1, <1>2 DEF Stacked
  <2> HIDE DEF Selected
  <2>2. LET r == Selected(queue, {i \in 1 .. Len(queue) : queue[i] \in busy}) IN
        r \in Seq(Nat) /\ Len(r) = d /\ \A n \in 1 .. d : r[n] = queue[l + n - 1]
    BY <2>1, <1>2, MarkedSignals
  <2> QED BY <2>2 DEF BusyQueue, Marked
<1>4. Len(Handlers) = d /\ \A n \in 1 .. d : Handlers[n] = frames[n]
  <2>1. InUse = 1 .. d
    BY <1>1, <1>2 DEF Stacked, InUse
  <2> QED BY <1>2, <2>1, SelectedInterval DEF Handlers
<1> QED BY <1>1, <1>2, <1>3, <1>4 DEF HandlersAreBusy, Stacked

(* A signal of priority p is linked in at its place.                       *)
Arrives(p) ==
    /\ Len(priority) < MaxSignals
    /\ MayArrive(p)
    /\ priority' = Append(priority, p)
    /\ queue' = Inserted(queue, Place(p), Len(priority) + 1)
    /\ blocked' = FALSE
    /\ sender' = NoSender
    /\ UNCHANGED <<busy, frames, inCall, delivered>>

LEMMA QueueGrows ==
    ASSUME TypeOK, NEW k \in 0 .. Len(queue), queue' = Inserted(queue, k, Len(priority) + 1)
    PROVE  /\ queue' \in Seq(1 .. Len(priority) + 1) /\ Len(queue') = Len(queue) + 1
           /\ \A i \in 1 .. k : queue'[i] = queue[i]
           /\ queue'[k + 1] = Len(priority) + 1
           /\ \A i \in k + 2 .. Len(queue) + 1 : queue'[i] = queue[i - 1]
           /\ \A s \in busy : \E i \in 1 .. Len(queue) + 1 : queue'[i] = s
<1> DEFINE N == Len(priority)  n == Len(queue)
<1>1. N \in Nat /\ n \in Nat /\ queue \in Seq(1 .. N)
  BY DEF TypeOK
<1>2. /\ queue' \in Seq(1 .. N + 1) /\ Len(queue') = n + 1
      /\ \A i \in 1 .. k : queue'[i] = queue[i]
      /\ queue'[k + 1] = N + 1
      /\ \A i \in k + 2 .. n + 1 : queue'[i] = queue[i - 1]
  <2>1. queue \in Seq(1 .. N + 1)
    BY <1>1
  <2>2. N + 1 \in 1 .. N + 1
    BY <1>1
  <2>3. queue' = Inserted(queue, k, N + 1)
    OBVIOUS
  <2> DEFINE T == 1 .. N + 1
             x == N + 1
  <2>4. queue \in Seq(T) /\ x \in T /\ k \in 0 .. Len(queue) /\ queue' = Inserted(queue, k, x)
    BY <1>1, <2>1, <2>2, <2>3
  <2>5. /\ queue' \in Seq(T) /\ Len(queue') = Len(queue) + 1
        /\ \A i \in 1 .. k : queue'[i] = queue[i]
        /\ queue'[k + 1] = x
        /\ \A i \in k + 2 .. Len(queue) + 1 : queue'[i] = queue[i - 1]
    <3> HIDE DEF T, x
    <3>1. queue' \in Seq(T)
      BY <2>4, Insertion
    <3>2. Len(queue') = Len(queue) + 1
      BY <2>4, Insertion
    <3>3. \A i \in 1 .. k : queue'[i] = queue[i]
      BY <2>4, Insertion
    <3>4. queue'[k + 1] = x
      BY <2>4, Insertion
    <3>5. \A i \in k + 2 .. Len(queue) + 1 : queue'[i] = queue[i - 1]
      BY <2>4, Insertion
    <3> QED BY <3>1, <3>2, <3>3, <3>4, <3>5
  <2> QED BY <2>5
<1>3. ASSUME NEW s \in busy PROVE \E j \in 1 .. n + 1 : queue'[j] = s
  <2>1. PICK i \in 1 .. n : queue[i] = s
    BY Types
  <2>2. CASE i <= k
    <3>1. i \in 1 .. k /\ i \in 1 .. n + 1
      BY <1>1, <2>2
    <3>2. queue'[i] = s
      BY <1>2, <2>1, <3>1
    <3> QED BY <3>1, <3>2
  <2>3. CASE i > k
    <3>1. PICK j \in k + 2 .. n + 1 : j - 1 = i /\ j \in 1 .. n + 1
      BY <1>1, <2>3
    <3>2. queue'[j] = queue[j - 1]
      BY <1>2
    <3> QED BY <2>1, <3>1, <3>2
  <2> QED BY <1>1, <2>2, <2>3
<1> QED BY <1>2, <1>3

LEMMA ArrivalKeepsTypes ==
    ASSUME TypeOK, NEW p \in Priorities, Arrives(p)
    PROVE  /\ TypeOK'
           /\ Len(queue') = Len(queue) + 1
           /\ \A i \in 1 .. Place(p) :
                  queue'[i] = queue[i] /\ priority'[queue'[i]] = priority[queue[i]]
           /\ queue'[Place(p) + 1] = Len(priority) + 1 /\ priority'[Len(priority) + 1] = p
           /\ \A i \in Place(p) + 2 .. Len(queue) + 1 :
                  queue'[i] = queue[i - 1] /\ priority'[queue'[i]] = priority[queue[i - 1]]
<1> DEFINE N == Len(priority)  n == Len(queue)  k == Place(p)  P(i) == priority'[queue'[i]]
<1>1. /\ N \in Nat /\ priority \in Seq(Priorities) /\ N < MaxSignals
      /\ n \in Nat /\ queue \in Seq(1 .. N)
      /\ k \in 0 .. n /\ p \in Nat
  BY Placing DEF TypeOK, Arrives
<1>2. /\ priority' \in Seq(Priorities) /\ Len(priority') = N + 1
      /\ \A s \in 1 .. N : priority'[s] = priority[s]
      /\ priority'[N + 1] = p
  BY <1>1 DEF Arrives
<1>3. \A i \in 1 .. n : queue[i] \in 1 .. N
  BY <1>1
<1>4. /\ queue' \in Seq(1 .. N + 1) /\ Len(queue') = n + 1
      /\ \A i \in 1 .. k : queue'[i] = queue[i]
      /\ queue'[k + 1] = N + 1
      /\ \A i \in k + 2 .. n + 1 : queue'[i] = queue[i - 1]
      /\ \A s \in busy : \E i \in 1 .. n + 1 : queue'[i] = s
  <2>1. queue' = Inserted(queue, k, N + 1)
    BY DEF Arrives
  <2> HIDE DEF k
  <2> QED BY <1>1, <2>1, QueueGrows
<1>5. ASSUME NEW i \in 1 .. k
      PROVE  P(i) = priority[queue[i]] /\ P(i) <= p /\ P(i) \in Nat
  <2>1. queue'[i] = queue[i] /\ queue[i] \in 1 .. N
    BY <1>1, <1>3, <1>4
  <2>2. priority[queue[i]] <= p
    BY Placing
  <2>3. priority[queue[i]] \in Priorities
    BY <1>1, <2>1
  <2>4. priority'[queue[i]] = priority[queue[i]]
    BY <1>2, <2>1
  <2> QED BY <2>1, <2>2, <2>3, <2>4
<1>6. P(k + 1) = p
  BY <1>2, <1>4
<1>7. ASSUME NEW i \in k + 2 .. n + 1
      PROVE  P(i) = priority[queue[i - 1]] /\ P(i) > p /\ P(i) \in Nat
  <2>1. i - 1 \in k + 1 .. n /\ i - 1 \in 1 .. n
    BY <1>1
  <2>2. queue'[i] = queue[i - 1] /\ queue[i - 1] \in 1 .. N
    BY <1>1, <1>3, <1>4, <2>1
  <2>3. priority[queue[i - 1]] > p
    BY <2>1, Placing
  <2>4. priority[queue[i - 1]] \in Priorities
    BY <1>1, <2>2
  <2>5. priority'[queue[i - 1]] = priority[queue[i - 1]]
    BY <1>2, <2>2
  <2> QED BY <2>2, <2>3, <2>4, <2>5
<1>8. ASSUME NEW i \in 1 .. n + 1, NEW j \in 1 .. n + 1, i < j
      PROVE  P(i) < P(j) \/ (P(i) = P(j) /\ queue'[i] < queue'[j])
  <2>1. CASE i <= k /\ j <= k
    <3>1. i \in 1 .. n /\ j \in 1 .. n /\ i \in 1 .. k /\ j \in 1 .. k
      BY <1>1, <2>1
    <3>2. \/ priority[queue[i]] < priority[queue[j]]
          \/ priority[queue[i]] = priority[queue[j]] /\ queue[i] < queue[j]
      BY <1>8, <3>1 DEF TypeOK
    <3> QED BY <1>4, <1>5, <3>1, <3>2
  <2>2. CASE i <= k /\ j = k + 1
    <3>1. i \in 1 .. k /\ i \in 1 .. n
      BY <1>1, <2>2
    <3>2. queue'[i] \in 1 .. N /\ queue'[j] = N + 1
      BY <1>3, <1>4, <2>2, <3>1
    <3> QED BY <1>1, <1>5, <1>6, <2>2, <3>1, <3>2
  <2>3. CASE i <= k + 1 /\ j > k + 1
    <3>1. j \in k + 2 .. n + 1 /\ (i \in 1 .. k \/ i = k + 1)
      BY <1>1, <2>3
    <3>2. P(j) > p /\ P(j) \in Nat
      BY <1>7, <3>1
    <3>3. P(i) <= p /\ P(i) \in Nat
      <4>1. CASE i \in 1 .. k
        BY <1>5, <4>1
      <4>2. CASE i = k + 1
        BY <1>1, <1>6, <4>2
      <4> QED BY <3>1, <4>1, <4>2
    <3> QED BY <1>1, <3>2, <3>3
  <2>4. CASE i > k + 1 /\ j > k + 1
    <3>1. /\ i \in k + 2 .. n + 1 /\ j \in k + 2 .. n + 1
          /\ i - 1 \in 1 .. n /\ j - 1 \in 1 .. n /\ i - 1 < j - 1
      BY <1>1, <1>8, <2>4
    <3>2. \/ priority[queue[i - 1]] < priority[queue[j - 1]]
          \/ priority[queue[i - 1]] = priority[queue[j - 1]] /\ queue[i - 1] < queue[j - 1]
      BY <3>1 DEF TypeOK
    <3> QED BY <1>4, <1>7, <3>1, <3>2
  <2> QED BY <1>1, <1>8, <2>1, <2>2, <2>3, <2>4
<1>9. busy' \subseteq { queue'[i] : i \in 1 .. Len(queue') }
  BY <1>4 DEF Arrives
<1>10. frames' \in Seq([at : Labels, sig : 0 .. Len(priority')])
  <2>1. [at : Labels, sig : 0 .. N] \subseteq [at : Labels, sig : 0 .. Len(priority')]
    BY <1>1, <1>2
  <2>2. frames' = frames /\ frames \in Seq([at : Labels, sig : 0 .. N])
    BY DEF Arrives, TypeOK
  <2> QED BY <2>1, <2>2, SeqMonotonic
<1>11. sender' \in [sends : {{}} \cup { {q} : q \in Priorities },
                    after : 0 .. Len(priority'), next : 0 .. Len(priority')]
  BY <1>1, <1>2 DEF Arrives, NoSender, NoSignal
<1>12. TypeOK'
  <2>1. /\ Len(priority') <= MaxSignals
        /\ queue' \in Seq(1 .. Len(priority'))
        /\ inCall' \in BOOLEAN /\ blocked' \in BOOLEAN /\ delivered' \in [Signals -> Nat]
    <3>1. Len(priority') <= MaxSignals /\ queue' \in Seq(1 .. Len(priority'))
      BY <1>1, <1>2, <1>4
    <3> QED BY <3>1 DEF TypeOK, Arrives
  <2> QED BY <1>2, <1>4, <1>8, <1>9, <1>10, <1>11, <2>1 DEF TypeOK
<1> QED BY <1>2, <1>4, <1>5, <1>7, <1>12

Harmless == Allowed \subseteq {"block"}

LEMMA ArrivalKeepsStack ==
    ASSUME IInv, Harmless, NEW p \in Priorities, Arrives(p),
           NEW l \in {1, 2}, NEW d \in 0 .. Len(frames), Stacked(l, d)
    PROVE  \E m \in {1, 2} : /\ Stacked(m, d)'
                            /\ \A i \in 1 .. d : queue'[m + i - 1] = queue[l + i - 1]
<1> DEFINE n == Len(queue)  k == Place(p)
<1>0. PICK m \in {1, 2} : m = IF k = 0 /\ d > 0 THEN 2 ELSE l
  OBVIOUS
<1>1. TypeOK /\ n \in Nat /\ d \in Nat /\ Len(frames) \in Nat /\ d <= Len(frames) /\ k \in 0 .. n
  BY Placing DEF IInv, TypeOK
<1>2. /\ TypeOK'
      /\ Len(queue') = n + 1
      /\ \A i \in 1 .. k : queue'[i] = queue[i] /\ priority'[queue'[i]] = priority[queue[i]]
      /\ queue'[k + 1] = Len(priority) + 1 /\ priority'[Len(priority) + 1] = p
      /\ \A i \in k + 2 .. n + 1 :
             queue'[i] = queue[i - 1] /\ priority'[queue'[i]] = priority[queue[i - 1]]
  BY <1>1, ArrivalKeepsTypes
<1>3. /\ l + d - 1 <= n
      /\ \A i \in 1 .. n : queue[i] \in busy <=> l <= i /\ i < l + d
      /\ \A i \in 1 .. Len(frames) : frames[i].at = "finished" <=> i > d
      /\ \A i \in 1 .. d : frames[i].at \in {"handler", "eos"} => frames[i].sig = queue[l + i - 1]
      /\ \A i \in 2 .. d : frames[i].at \in {"handler", "eos"}
      /\ l = 2 => d > 0
      /\ l = 2 => priority[queue[1]] < priority[queue[2]]
      /\ Building => l = 1
      /\ inCall => l = 1
      /\ inCall /\ d = 0 => queue = <<>>
      /\ inCall /\ frames # <<>> => Top.at = "handler"
  BY DEF Stacked
<1>4. k = 0 => ~Building /\ ~inCall
  BY DEF Harmless, Arrives, MayArrive
(* The new signal lies in front of all that are marked, or behind them.    *)
<1>5. \/ k = 0 /\ l = 1
      \/ l + d - 1 <= k
  <2>1. \/ \A i \in k + 1 .. n : queue[i] \notin busy
        \/ k = 0 /\ ~Pending
    BY DEF Harmless, Arrives, MayArrive
  <2>2. CASE \A i \in k + 1 .. n : queue[i] \notin busy
    <3>1. CASE d = 0
      BY <1>1, <1>3, <3>1
    <3>2. CASE d > 0
      <4>1. l + d - 1 \in 1 .. n /\ queue[l + d - 1] \in busy
        BY <1>1, <1>3, <3>2
      <4> QED BY <1>1, <2>2, <4>1
    <3> QED BY <1>1, <3>1, <3>2
  <2>3. CASE k = 0 /\ ~Pending
    <3>1. CASE queue = <<>>
      BY <1>1, <1>3, <2>3, <3>1
    <3>2. CASE queue # <<>>
      <4>1. 1 \in 1 .. n /\ queue[1] \in busy
        BY <1>1, <2>3, <3>2 DEF Pending, TypeOK
      <4> QED BY <1>1, <1>3, <2>3, <4>1
    <3> QED BY <3>1, <3>2
  <2> QED BY <2>1, <2>2, <2>3
<1>6. UNCHANGED <<busy, frames, inCall>>
  BY DEF Arrives
<1>7. /\ m \in {1, 2} /\ (m = 2 => d > 0) /\ m + d - 1 <= n + 1
      /\ (k = 0 /\ d > 0 => m = 2 /\ l = 1) /\ (k > 0 \/ d = 0 => m = l)
  BY <1>0, <1>1, <1>3, <1>5
<1>8. ASSUME NEW i \in 1 .. n + 1
      PROVE  queue'[i] \in busy <=> m <= i /\ i < m + d
  <2>1. CASE i <= k
    <3>1. i \in 1 .. k /\ i \in 1 .. n /\ m = l
      BY <1>1, <1>7, <2>1
    <3> QED BY <1>2, <1>3, <3>1
  <2>2. CASE i = k + 1
    <3>1. queue'[i] \notin busy
      <4>1. busy \subseteq 1 .. Len(priority) /\ Len(priority) \in Nat
        BY <1>1, Types
      <4> QED BY <1>2, <2>2, <4>1
    <3>2. ~(m <= i /\ i < m + d)
      BY <1>1, <1>5, <1>7, <2>2
    <3> QED BY <3>1, <3>2
  <2>3. CASE i > k + 1
    <3>1. i \in k + 2 .. n + 1 /\ i - 1 \in 1 .. n
      BY <1>1, <2>3
    <3>2. queue'[i] = queue[i - 1]
      BY <1>2, <3>1
    <3>3. queue[i - 1] \in busy <=> l <= i - 1 /\ i - 1 < l + d
      BY <1>3, <3>1
    <3>4. (m <= i /\ i < m + d) <=> (l <= i - 1 /\ i - 1 < l + d)
      BY <1>1, <1>5, <1>7, <2>3
    <3> QED BY <3>2, <3>3, <3>4
  <2> QED BY <1>1, <2>1, <2>2, <2>3
<1>9. ASSUME NEW i \in 1 .. d
      PROVE  queue'[m + i - 1] = queue[l + i - 1]
  <2>1. CASE k = 0
    <3>1. m + i - 1 \in k + 2 .. n + 1 /\ m + i - 1 - 1 = l + i - 1
      BY <1>1, <1>3, <1>7, <2>1
    <3>2. queue'[m + i - 1] = queue[m + i - 1 - 1]
      BY <1>2, <3>1
    <3> QED BY <3>1, <3>2
  <2>2. CASE k > 0
    <3>1. m + i - 1 \in 1 .. k /\ m = l
      BY <1>1, <1>5, <1>7, <2>2
    <3> QED BY <1>2, <3>1
  <2> QED BY <1>1, <2>1, <2>2
<1>10. ASSUME m = 2 PROVE priority'[queue'[1]] < priority'[queue'[2]]
  <2>1. d > 0
    BY <1>7, <1>10
  <2>2. CASE k = 0
    <3>1. /\ queue'[1] = Len(priority) + 1 /\ priority'[queue'[1]] = p
      BY <1>2, <2>2
    <3>2. 1 \in k + 1 .. n /\ 2 \in k + 2 .. n + 1
      BY <1>1, <1>3, <1>7, <2>1, <2>2
    <3>3. priority'[queue'[2]] = priority[queue[1]] /\ priority[queue[1]] > p
      BY <1>1, <1>2, <3>2, Placing
    <3> QED BY <3>1, <3>3
  <2>3. CASE k > 0
    <3>1. l = 2 /\ 1 \in 1 .. k /\ 2 \in 1 .. k
      BY <1>1, <1>5, <1>7, <1>10, <2>1, <2>3
    <3> QED BY <1>2, <1>3, <3>1
  <2> QED BY <1>1, <2>2, <2>3
<1>11. (Building => m = 1) /\ (inCall => m = 1 /\ (d = 0 => queue' = <<>>))
  <2>1. Building \/ inCall => k > 0 /\ m = 1
    BY <1>1, <1>3, <1>4, <1>7
  <2>2. inCall /\ d = 0 => k = 0
    BY <1>1, <1>3
  <2> QED BY <1>1, <2>1, <2>2
<1>12. (Building' <=> Building) /\ (At("handler")' <=> At("handler")) /\ Top' = Top
  BY <1>6 DEF Building, At, Top
<1>13. (inCall => Top.at = "handler" \/ frames = <<>>) /\ m + d - 1 <= Len(queue')
  BY <1>2, <1>3, <1>7
<1>14. Stacked(m, d)'
  <2>1. Len(frames') = Len(frames) /\ frames' = frames /\ busy' = busy /\ inCall' = inCall
    BY <1>6
  <2>2. \A i \in 1 .. Len(queue') : queue'[i] \in busy' <=> m <= i /\ i < m + d
    BY <1>2, <1>8, <2>1
  <2>3. \A i \in 1 .. d : frames'[i].at \in {"handler", "eos"} => frames'[i].sig = queue'[m + i - 1]
    BY <1>3, <1>9, <2>1
  <2>4. /\ m \in {1, 2} /\ (m = 2 => d > 0) /\ d \in 0 .. Len(frames') /\ m + d - 1 <= Len(queue')
        /\ \A i \in 1 .. Len(frames') : frames'[i].at = "finished" <=> i > d
        /\ \A i \in 2 .. d : frames'[i].at \in {"handler", "eos"}
    BY <1>3, <1>7, <1>13, <2>1
  <2>5. /\ m = 2 => priority'[queue'[1]] < priority'[queue'[2]]
        /\ Building' => m = 1
        /\ inCall' => m = 1 /\ (d = 0 => queue' = <<>>)
        /\ inCall' /\ frames' # <<>> => Top'.at = "handler"
    BY <1>3, <1>10, <1>11, <1>12, <2>1
  <2> QED BY <2>2, <2>3, <2>4, <2>5 DEF Stacked
<1> QED BY <1>7, <1>9, <1>14

(* The two ways to send a signal.                                          *)
LEMMA SendIsArrival ==
    ASSUME IInv, Harmless, NEW p \in Priorities, CKsendSignal(p)
    PROVE  Arrives(p)
BY DEF CKsendSignal, Arrives, Linked, Wake, Inserted, Quiet, Harmless, NoSender

LEMMA EndOfSendIsArrival ==
    ASSUME IInv, Harmless, SendEnds
    PROVE  \E p \in Priorities : Arrives(p)
<1>1. PICK q \in sender.sends : Linked(q)
  BY DEF SendEnds
<1>2. sender # NoSender
  BY DEF NoSender
<1>3. PICK p \in Priorities : Len(priority) < MaxSignals /\ MayArrive(p) /\ sender = Sender(p)
  BY <1>2 DEF IInv, SenderIsRight
<1> DEFINE n == Len(queue)  k == Place(p)
<1>4. TypeOK /\ n \in Nat /\ k \in 0 .. n /\ q = p
  <2>0. TypeOK
    BY DEF IInv
  <2>1. TypeOK /\ n \in Nat
    BY <2>0, Types
  <2>2. k \in 0 .. n
    BY <2>1, Placing
  <2>3. q = p
    BY <1>1, <1>3 DEF Sender
  <2> QED BY <2>1, <2>2, <2>3
<1>5. \A i \in 1 .. n : queue[i] \in Nat /\ queue[i] # NoSignal
  BY <1>4 DEF TypeOK, NoSignal
<1>6. ASSUME NEW i \in 1 .. n PROVE Queued(queue[i]) /\ Position(queue[i]) = i
  <2>1. \A j \in 1 .. n : queue[j] = queue[i] => j = i
    BY <1>4, Types
  <2> QED BY <2>1 DEF Queued, Position
<1>7. /\ sender.after = IF k = 0 THEN NoSignal ELSE queue[k]
      /\ sender.next = IF k = n THEN NoSignal ELSE queue[k + 1]
  BY <1>3 DEF Sender
<1> DEFINE from == IF sender.next = NoSignal THEN {n + 1}
                   ELSE IF Queued(sender.next) THEN {Position(sender.next)}
                   ELSE 1 .. n + 1
           tail == <<Len(priority) + 1>> \o SubSeq(queue, k + 1, n)
<1>8. from = {k + 1}
  <2>1. CASE k = n
    BY <1>7, <2>1
  <2>2. CASE k # n
    <3>1. k + 1 \in 1 .. n /\ sender.next = queue[k + 1]
      BY <1>4, <1>7, <2>2
    <3> QED BY <1>5, <1>6, <3>1
  <2> QED BY <2>1, <2>2
<1>9. queue' = IF sender.after = NoSignal THEN tail
               ELSE IF Queued(sender.after)
               THEN SubSeq(queue, 1, Position(sender.after)) \o tail
               ELSE queue
  BY <1>8 DEF SendEnds
<1>10. queue' = Inserted(queue, k, Len(priority) + 1)
  <2> DEFINE a == SubSeq(queue, 1, k)  x == <<Len(priority) + 1>>  b == SubSeq(queue, k + 1, n)
  <2>0. a \in Seq(Nat) /\ x \in Seq(Nat) /\ b \in Seq(Nat) /\ tail = x \o b /\ a \o tail = (a \o x) \o b
    <3>1. Len(priority) + 1 \in Nat
      BY <1>4 DEF TypeOK
    <3>2. a \in Seq(Nat) /\ x \in Seq(Nat) /\ b \in Seq(Nat)
      BY <1>4, <1>5, <3>1, SubSeqProperties
    <3>3. a \o (x \o b) = (a \o x) \o b
      <4> DEFINE T == Nat
      <4>1. a \in Seq(T) /\ x \in Seq(T) /\ b \in Seq(T)
        BY <3>2
      <4> HIDE DEF a, x, b, T
      <4> QED BY <4>1, ConcatAssociative
    <3> HIDE DEF a, x, b
    <3> QED BY <3>2, <3>3 DEF x, b
  <2>1. CASE k = 0
    <3>1. queue' = tail
      BY <1>7, <1>9, <2>1
    <3>2. a = <<>>
      BY <2>1
    <3>3. <<>> \o tail = tail
      <4>1. tail \in Seq(Nat)
        BY <2>0
      <4> HIDE DEF tail
      <4> QED BY <4>1
    <3> QED BY <2>0, <3>1, <3>2, <3>3 DEF Inserted
  <2>2. CASE k # 0
    <3>1. k \in 1 .. n /\ sender.after = queue[k]
      BY <1>4, <1>7, <2>2
    <3>2. queue' = SubSeq(queue, 1, k) \o tail
      BY <1>5, <1>6, <1>9, <3>1
    <3> QED BY <2>0, <3>2 DEF Inserted
  <2> QED BY <2>1, <2>2
<1>11. busy' = busy
  <2>1. busy' = busy \cap { queue'[i] : i \in 1 .. Len(queue') }
    BY DEF SendEnds
  <2>2. Len(queue') = n + 1 /\ \A s \in busy : \E j \in 1 .. n + 1 : queue'[j] = s
    <3> HIDE DEF k
    <3> QED BY <1>4, <1>10, QueueGrows
  <2> QED BY <2>1, <2>2
<1>12. Arrives(p)
  BY <1>1, <1>3, <1>4, <1>10, <1>11 DEF Arrives, SendEnds, Linked, Wake
<1> QED BY <1>12

(* The innermost frame of an unfinished handler goes on to its next label.  *)
LEMMA FrameGoesOn ==
    ASSUME TypeOK, NEW l \in {1, 2}, NEW d \in 0 .. Len(frames), Stacked(l, d), d > 0,
           NEW f, f \in Frame, f.at # "finished",
           f.at \in {"handler", "eos"} => f.sig = queue[l], f.at \in {"called", "locked"} => l = 1,
           frames' = <<f>> \o Tail(frames), ~inCall,
           UNCHANGED <<priority, queue, busy, inCall>>
    PROVE  Stacked(l, d)' /\ frames' \in Seq(Frame)
<1>1. Len(frames) \in Nat /\ d \in Nat /\ frames \in Seq(Frame) /\ frames # <<>>
  BY Types
<1>2. /\ frames' \in Seq(Frame) /\ Len(frames') = Len(frames)
      /\ frames'[1] = f
      /\ \A i \in 2 .. Len(frames) : frames'[i] = frames[i]
  <2> DEFINE t == Tail(frames)
  <2>1. t \in Seq(Frame) /\ Len(t) = Len(frames) - 1 /\ \A i \in 1 .. Len(t) : t[i] = frames[i + 1]
    BY <1>1, HeadTailProperties
  <2> HIDE DEF t
  <2>2. /\ frames' \in Seq(Frame) /\ Len(frames') = Len(t) + 1
        /\ frames'[1] = f
        /\ \A i \in 2 .. Len(t) + 1 : frames'[i] = t[i - 1]
    <3>1. frames' = <<f>> \o t
      BY DEF t
    <3> DEFINE T == Frame
    <3>2. f \in T /\ t \in Seq(T)
      BY <2>1
    <3> HIDE DEF T
    <3>3. frames' \in Seq(T)
      BY <3>1, <3>2, Stacking
    <3>4. Len(frames') = Len(t) + 1
      BY <3>1, <3>2, Stacking
    <3>5. frames'[1] = f
      BY <3>1, <3>2, Stacking
    <3>6. \A i \in 2 .. Len(t) + 1 : frames'[i] = t[i - 1]
      BY <3>1, <3>2, Stacking
    <3> QED BY <3>3, <3>4, <3>5, <3>6 DEF T
  <2> QED BY <1>1, <2>1, <2>2
<1>3. /\ Building' => f.at \in {"called", "locked"}
      /\ frames' # <<>>
  BY <1>1, <1>2 DEF Building, At, Top
<1>4. \A i \in 1 .. Len(frames') : frames'[i].at = "finished" <=> i > d
  <2> TAKE i \in 1 .. Len(frames')
  <2>1. CASE i = 1
    BY <1>1, <1>2, <2>1
  <2>2. CASE i > 1
    BY <1>1, <1>2, <2>2 DEF Stacked
  <2> QED BY <1>1, <1>2, <2>1, <2>2
<1>5. \A i \in 1 .. d : frames'[i].at \in {"handler", "eos"} => frames'[i].sig = queue[l + i - 1]
  <2> TAKE i \in 1 .. d
  <2>1. CASE i = 1
    BY <1>1, <1>2, <2>1
  <2>2. CASE i > 1
    BY <1>1, <1>2, <2>2 DEF Stacked
  <2> QED BY <1>1, <1>2, <2>1, <2>2
<1>6. \A i \in 2 .. d : frames'[i].at \in {"handler", "eos"}
  BY <1>1, <1>2 DEF Stacked
<1>7. /\ l \in {1, 2} /\ (l = 2 => d > 0)
      /\ d \in 0 .. Len(frames') /\ l + d - 1 <= Len(queue)
      /\ \A i \in 1 .. Len(queue) : queue[i] \in busy <=> l <= i /\ i < l + d
      /\ l = 2 => priority[queue[1]] < priority[queue[2]]
      /\ Building' => l = 1
  BY <1>2, <1>3 DEF Stacked
<1> QED BY <1>2, <1>4, <1>5, <1>6, <1>7 DEF Stacked

(* An innermost frame says something about the stack.                      *)
LEMMA Innermost ==
    ASSUME TypeOK, NEW l \in {1, 2}, NEW d \in 0 .. Len(frames), Stacked(l, d), frames # <<>>
    PROVE  /\ Top = frames[1] /\ Top \in Frame /\ 1 \in 1 .. Len(frames)
           /\ Top.at # "finished" <=> d > 0
           /\ Top.at # "handler" => ~inCall
           /\ Top.at \in {"called", "locked"} => l = 1
<1>1. frames \in Seq(Frame)
  BY Types
<1>2. Top = frames[1] /\ Top \in Frame /\ 1 \in 1 .. Len(frames)
  BY <1>1 DEF Top
<1>3. Top.at = "finished" <=> 1 > d
  BY <1>2 DEF Stacked
<1>4. (Top.at # "handler" => ~inCall) /\ (Top.at \in {"called", "locked"} => l = 1)
  BY DEF Stacked, Building, At
<1> QED BY <1>2, <1>3, <1>4

LEMMA FrameSteps ==
    ASSUME IInv, NEW l \in {1, 2}, NEW d \in 0 .. Len(frames), Stacked(l, d),
           LockFrame \/ CopySignal \/ HandlerEnds
    PROVE  TypeOK' /\ Stacked(l, d)'
<1>1. TypeOK /\ frames # <<>>
  BY DEF IInv, LockFrame, CopySignal, HandlerEnds, At
<1>2. /\ Top = frames[1] /\ Top \in Frame /\ 1 \in 1 .. Len(frames)
      /\ Top.at # "finished" <=> d > 0
      /\ Top.at # "handler" => ~inCall
      /\ Top.at \in {"called", "locked"} => l = 1
  BY <1>1, Innermost
<1>3. /\ Top.at \in {"called", "locked", "handler"} /\ ~inCall /\ d > 0
  BY <1>2 DEF LockFrame, CopySignal, HandlerEnds, At
<1>4. UNCHANGED <<priority, queue, busy, inCall, blocked, sender>>
  BY DEF LockFrame, CopySignal, HandlerEnds
<1>5. queue # <<>> /\ Len(priority) \in Nat /\ queue[1] \in 1 .. Len(priority) /\ Head(queue) = queue[1]
  <2>1. Len(queue) \in Nat /\ queue \in Seq(Nat)
    BY <1>1, Types
  <2>2. Len(queue) > 0
    BY <1>3, <2>1 DEF Stacked
  <2> QED BY <1>1, <2>1, <2>2, Types
<1>6. \E f \in Frame :  /\ frames' = <<f>> \o Tail(frames)
                        /\ f.at # "finished"
                        /\ f.at \in {"handler", "eos"} => f.sig = queue[l]
                        /\ f.at \in {"called", "locked"} => l = 1
  <2>1. CASE LockFrame
    <3> DEFINE f == [Top EXCEPT !.at = "locked"]
    <3>1. f \in Frame /\ f.at = "locked" /\ frames' = <<f>> \o Tail(frames) /\ Top.at = "called"
      BY <1>2, <2>1 DEF LockFrame, Goto, Frame, Labels, At
    <3> HIDE DEF f
    <3> QED BY <1>2, <3>1
  <2>2. CASE CopySignal
    <3> DEFINE f == [at |-> "handler", sig |-> queue[1]]
    <3>1. frames' = <<f>> \o Tail(frames) /\ Top.at = "locked"
      BY <1>5, <2>2 DEF CopySignal, At
    <3>2. f \in Frame /\ f.at = "handler" /\ f.sig = queue[1]
      BY <1>5 DEF Frame, Labels
    <3> HIDE DEF f
    <3>3. l = 1 /\ f.at # "finished" /\ f.sig = queue[l]
      BY <1>2, <3>1, <3>2
    <3> QED BY <3>1, <3>2, <3>3
  <2>3. CASE HandlerEnds
    <3> DEFINE f == [Top EXCEPT !.at = "eos"]
    <3>1. f \in Frame /\ f.at = "eos" /\ f.sig = Top.sig /\ frames' = <<f>> \o Tail(frames)
          /\ Top.at = "handler"
      BY <1>2, <2>3 DEF HandlerEnds, Goto, Frame, Labels, At
    <3>2. Top.sig = queue[l]
      <4>1. 1 \in 1 .. d /\ frames[1].at \in {"handler", "eos"}
        BY <1>2, <1>3, <3>1
      <4>2. frames[1].sig = queue[l + 1 - 1]
        BY <4>1 DEF Stacked
      <4>3. l + 1 - 1 = l
        OBVIOUS
      <4> QED BY <1>2, <4>2, <4>3
    <3> HIDE DEF f
    <3> QED BY <3>1, <3>2
  <2> QED BY <2>1, <2>2, <2>3
<1>7. PICK f \in Frame : /\ frames' = <<f>> \o Tail(frames)
                         /\ f.at # "finished"
                         /\ f.at \in {"handler", "eos"} => f.sig = queue[l]
                         /\ f.at \in {"called", "locked"} => l = 1
  BY <1>6, Zenon
<1>8. Stacked(l, d)' /\ frames' \in Seq(Frame)
  BY <1>1, <1>3, <1>4, <1>7, FrameGoesOn
<1>9. delivered' \in [Signals -> Nat]
  <2>1. delivered \in [Signals -> Nat]
    BY <1>1 DEF TypeOK
  <2>2. CASE CopySignal
    <3>1. PICK s : delivered' = [t \in Signals |-> IF t = s THEN delivered[t] + 1 ELSE delivered[t]]
      BY <2>2 DEF CopySignal
    <3> QED BY <2>1, <3>1
  <2> QED BY <2>1, <2>2 DEF LockFrame, HandlerEnds
<1>10. TypeOK'
  BY <1>1, <1>4, <1>8, <1>9 DEF TypeOK, Frame
<1> QED BY <1>8, <1>10

(* The frame of a new handler on top of what is left of the others.        *)
LEMMA FrameIsBuilt ==
    ASSUME TypeOK, NEW u, u \in Seq(Frame), Call(u)
    PROVE  /\ frames' \in Seq(Frame) /\ Len(frames') = Len(u) + 1
           /\ frames'[1].at = "called"
           /\ \A i \in 2 .. Len(u) + 1 : frames'[i] = u[i - 1]
<1> DEFINE f == [at |-> "called", sig |-> NoSignal]
<1>1. f \in Frame
  BY Types DEF Frame, Labels, NoSignal
<1>2. frames' = <<f>> \o u /\ f.at = "called"
  BY DEF Call
<1> DEFINE T == Frame
<1>3. f \in T /\ u \in Seq(T)
  BY <1>1
<1> HIDE DEF f, T
<1>4. frames' \in Seq(T)
  BY <1>2, <1>3, Stacking
<1>5. Len(frames') = Len(u) + 1
  BY <1>2, <1>3, Stacking
<1>6. frames'[1] = f
  BY <1>2, <1>3, Stacking
<1>7. \A i \in 2 .. Len(u) + 1 : frames'[i] = u[i - 1]
  BY <1>2, <1>3, Stacking
<1> QED BY <1>2, <1>4, <1>5, <1>6, <1>7 DEF T

(* The head of the queue interrupts whatever the thread does.              *)
LEMMA InterruptKeeps ==
    ASSUME TypeOK, NEW l \in {1, 2}, NEW d \in 0 .. Len(frames), Stacked(l, d),
           Pending, ~inCall, Call(frames), busy' = busy \cup {Head(queue)},
           UNCHANGED <<priority, queue, inCall, blocked, sender, delivered>>
    PROVE  TypeOK' /\ Stacked(1, d + 1)' /\ ((d = 0 /\ l = 1) \/ (d > 0 /\ l = 2))
<1>1. TypeOK /\ d \in Nat /\ d <= Len(frames) /\ Len(frames) \in Nat /\ Len(queue) \in Nat
      /\ queue \in Seq(Nat) /\ frames \in Seq(Frame)
  BY Types
<1>2. /\ queue # <<>> /\ queue[1] \notin busy /\ 1 \in 1 .. Len(queue) /\ Head(queue) = queue[1]
      /\ busy' = busy \cup {queue[1]} /\ Call(frames) /\ ~inCall
      /\ UNCHANGED <<priority, queue, inCall, blocked, sender, delivered>>
  BY <1>1 DEF Pending
<1>3. (d = 0 /\ l = 1) \/ (d > 0 /\ l = 2)
  <2>1. ~(l <= 1 /\ 1 < l + d)
    BY <1>2 DEF Stacked
  <2> QED BY <1>1, <2>1 DEF Stacked
<1>4. /\ frames' \in Seq(Frame) /\ Len(frames') = Len(frames) + 1
      /\ frames'[1].at = "called"
      /\ \A i \in 2 .. Len(frames) + 1 : frames'[i] = frames[i - 1]
  BY <1>1, <1>2, FrameIsBuilt
<1>5. d > 0 => frames[1].at \in {"handler", "eos"}
  <2> SUFFICES ASSUME d > 0 PROVE frames[1].at \in {"handler", "eos"}
    OBVIOUS
  <2>1. frames # <<>>
    BY <1>1
  <2>2. /\ Top = frames[1] /\ Top \in Frame /\ Top.at # "finished"
        /\ Top.at \notin {"called", "locked"}
    BY <1>1, <1>3, <2>1, Innermost
  <2> QED BY <2>2 DEF Frame, Labels
<1>6. ASSUME NEW i \in 1 .. Len(queue)
      PROVE  queue[i] \in busy' <=> 1 <= i /\ i < 1 + (d + 1)
  <2>1. queue[i] \in busy' <=> queue[i] \in busy \/ i = 1
    BY <1>1, <1>2, Types
  <2>2. queue[i] \in busy <=> l <= i /\ i < l + d
    BY DEF Stacked
  <2> QED BY <1>1, <1>3, <2>1, <2>2
<1>7. \A i \in 1 .. Len(frames') : frames'[i].at = "finished" <=> i > d + 1
  <2> TAKE i \in 1 .. Len(frames')
  <2>1. CASE i = 1
    BY <1>1, <1>4, <2>1
  <2>2. CASE i > 1
    <3>1. frames'[i] = frames[i - 1] /\ i - 1 \in 1 .. Len(frames)
      BY <1>1, <1>4, <2>2
    <3>2. frames[i - 1].at = "finished" <=> i - 1 > d
      BY <3>1 DEF Stacked
    <3> QED BY <1>1, <3>1, <3>2
  <2> QED BY <1>1, <1>4, <2>1, <2>2
<1>8. \A i \in 2 .. d + 1 : frames'[i].at \in {"handler", "eos"}
  <2> TAKE i \in 2 .. d + 1
  <2>1. frames'[i] = frames[i - 1] /\ i - 1 \in 1 .. d
    BY <1>1, <1>4
  <2>2. i - 1 = 1 \/ i - 1 \in 2 .. d
    BY <1>1
  <2> QED BY <1>1, <1>5, <2>1, <2>2 DEF Stacked
<1>9. \A i \in 1 .. d + 1 : frames'[i].at \in {"handler", "eos"} => frames'[i].sig = queue[1 + i - 1]
  <2> TAKE i \in 1 .. d + 1
  <2>1. CASE i = 1
    BY <1>4, <2>1
  <2>2. CASE i > 1
    <3>1. PICK j \in 1 .. d : j = i - 1
      BY <1>1, <2>2
    <3>2. frames'[i] = frames[j] /\ l = 2 /\ l + j - 1 = 1 + i - 1
      BY <1>1, <1>3, <1>4, <2>2, <3>1
    <3>3. frames[j].at \in {"handler", "eos"} => frames[j].sig = queue[l + j - 1]
      BY DEF Stacked
    <3> QED BY <3>2, <3>3
  <2> QED BY <1>1, <2>1, <2>2
<1>10. d + 1 \in 0 .. Len(frames') /\ 1 + (d + 1) - 1 <= Len(queue)
  BY <1>1, <1>2, <1>3, <1>4 DEF Stacked
<1>11. Stacked(1, d + 1)'
  <2>1. priority' = priority /\ queue' = queue /\ inCall' = FALSE
    BY <1>1, <1>2 DEF TypeOK
  <2> QED BY <1>1, <1>6, <1>7, <1>8, <1>9, <1>10, <2>1 DEF Stacked
<1>12. TypeOK'
  <2>1. \A s \in busy' : \E i \in 1 .. Len(queue) : queue[i] = s
    BY <1>1, <1>2, Types
  <2>2. busy' \subseteq { queue'[i] : i \in 1 .. Len(queue') }
    BY <1>2, <2>1
  <2> QED BY <1>1, <1>2, <1>4, <2>2 DEF TypeOK, Frame
<1> QED BY <1>3, <1>11, <1>12

LEMMA ScheduleKeeps ==
    ASSUME IInv, NEW l \in {1, 2}, NEW d \in 0 .. Len(frames), Stacked(l, d), Schedule
    PROVE  TypeOK' /\ Stacked(1, d + 1)'
<1>1. /\ TypeOK /\ Pending /\ ~inCall /\ Call(frames) /\ busy' = busy \cup {Head(queue)}
      /\ UNCHANGED <<priority, queue, inCall, blocked, sender, delivered>>
  BY DEF IInv, Schedule, Interruptable
<1> QED BY <1>1, InterruptKeeps

(* What CKendOfSignal finds.                                               *)
LEMMA EndOfSignal ==
    ASSUME IInv, NEW l \in {1, 2}, NEW d \in 0 .. Len(frames), Stacked(l, d), CKendOfSignal
    PROVE  /\ TypeOK /\ frames # <<>> /\ Top = frames[1] /\ Top \in Frame /\ ~inCall
           /\ Len(queue) \in Nat /\ Len(frames) \in Nat /\ d \in Nat /\ Len(frames) > 0
           /\ queue \in Seq(Nat) /\ frames \in Seq(Frame)
           /\ queue # <<>> => Head(queue) = queue[1] /\ 1 \in 1 .. Len(queue)
           /\ UNCHANGED <<priority, inCall, blocked, sender, delivered>>
           /\ \/ /\ d > 0 /\ l = 1 /\ Top.at = "eos" /\ queue # <<>> /\ queue[1] \in busy
                 /\ Unfinished = Tail(queue)
              \/ Unfinished = queue /\ Pending /\ d > 0 /\ l = 2 /\ Top.at = "eos"
              \/ Unfinished = queue /\ d = 0 /\ l = 1 /\ busy = {} /\ Top.at = "finished"
<1>1. TypeOK /\ frames # <<>> /\ (Top.at = "eos" \/ Top.at = "finished")
      /\ UNCHANGED <<priority, inCall, blocked, sender, delivered>>
  BY DEF IInv, CKendOfSignal, At
<1>2. /\ Top = frames[1] /\ Top \in Frame /\ ~inCall
      /\ Top.at = "eos" => d > 0
      /\ Top.at = "finished" => d = 0
  BY <1>1, Innermost
<1>3. /\ Len(queue) \in Nat /\ Len(frames) \in Nat /\ d \in Nat /\ Len(frames) > 0
      /\ queue \in Seq(Nat) /\ frames \in Seq(Frame)
  BY <1>1, Types
<1>4. queue # <<>> => Head(queue) = queue[1] /\ 1 \in 1 .. Len(queue)
  BY <1>3
<1>5. CASE Top.at = "eos"
  <2>1. d > 0 /\ Len(queue) > 0 /\ queue # <<>>
    BY <1>2, <1>3, <1>5 DEF Stacked
  <2>2. queue[1] \in busy <=> l = 1
    BY <1>3, <2>1 DEF Stacked
  <2> QED BY <1>1, <1>2, <1>3, <1>4, <1>5, <2>1, <2>2 DEF Unfinished, Pending
<1>6. CASE Top.at = "finished"
  <2>1. d = 0 /\ l = 1
    BY <1>2, <1>6 DEF Stacked
  <2>2. \A i \in 1 .. Len(queue) : queue[i] \notin busy
    BY <1>3, <2>1 DEF Stacked
  <2>3. busy = {}
    BY <1>1, <2>2, Types
  <2> QED BY <1>1, <1>2, <1>3, <1>4, <1>6, <2>1, <2>3 DEF Unfinished
<1> QED BY <1>1, <1>5, <1>6

(* The queue without its head, and the marks that are left.                *)
LEMMA HeadIsTaken ==
    ASSUME TypeOK, queue # <<>>, UNCHANGED priority, queue' = Tail(queue)
    PROVE  /\ Len(queue') = Len(queue) - 1
           /\ \A i \in 1 .. Len(queue) - 1 : queue'[i] = queue[i + 1]
           /\ queue' \in Seq(1 .. Len(priority'))
           /\ \A i, j \in 1 .. Len(queue') : i < j =>
                  \/ priority'[queue'[i]] < priority'[queue'[j]]
                  \/ priority'[queue'[i]] = priority'[queue'[j]] /\ queue'[i] < queue'[j]
<1>1. /\ Len(queue') = Len(queue) - 1
      /\ \A i \in 1 .. Len(queue) - 1 : queue'[i] = queue[i + 1]
      /\ queue' \in Seq(1 .. Len(priority'))
  BY HeadTailProperties DEF TypeOK
<1>2. ASSUME NEW i \in 1 .. Len(queue'), NEW j \in 1 .. Len(queue'), i < j
      PROVE  \/ priority'[queue'[i]] < priority'[queue'[j]]
             \/ priority'[queue'[i]] = priority'[queue'[j]] /\ queue'[i] < queue'[j]
  <2>1. Len(queue) \in Nat
    BY Types
  <2>2. PICK a \in 1 .. Len(queue) : a = i + 1
    BY <1>1, <2>1
  <2>3. PICK b \in 1 .. Len(queue) : b = j + 1
    BY <1>1, <2>1
  <2>4. queue'[i] = queue[a] /\ queue'[j] = queue[b] /\ a < b
    BY <1>1, <1>2, <2>1, <2>2, <2>3
  <2>5. \/ priority[queue[a]] < priority[queue[b]]
        \/ priority[queue[a]] = priority[queue[b]] /\ queue[a] < queue[b]
    BY <2>4, Types
  <2> QED BY <2>4, <2>5
<1> QED BY <1>1, <1>2

(* The finished signal leaves the queue, and the next of the interrupted    *)
(* handlers goes on.                                                       *)
LEMMA EndLeaves ==
    ASSUME TypeOK, NEW d \in 0 .. Len(frames), Stacked(1, d), d > 0, frames # <<>>,
           queue # <<>>, queue[1] \in busy, ~inCall,
           queue' = Tail(queue), frames' = Tail(frames),
           busy' = busy \cap { queue'[i] : i \in 1 .. Len(queue') },
           UNCHANGED <<priority, inCall, blocked, sender, delivered>>
    PROVE  TypeOK' /\ Stacked(1, d - 1)'
<1>1. /\ Len(queue) \in Nat /\ Len(frames) \in Nat /\ d \in Nat /\ d <= Len(frames)
      /\ frames \in Seq(Frame) /\ d <= Len(queue)
  BY Types DEF Stacked
<1>2. /\ Len(queue') = Len(queue) - 1
      /\ \A i \in 1 .. Len(queue) - 1 : queue'[i] = queue[i + 1]
      /\ queue' \in Seq(1 .. Len(priority'))
      /\ \A i, j \in 1 .. Len(queue') : i < j =>
             \/ priority'[queue'[i]] < priority'[queue'[j]]
             \/ priority'[queue'[i]] = priority'[queue'[j]] /\ queue'[i] < queue'[j]
  BY HeadIsTaken
<1>3. /\ frames' \in Seq(Frame) /\ Len(frames') = Len(frames) - 1
      /\ \A i \in 1 .. Len(frames) - 1 : frames'[i] = frames[i + 1]
  BY <1>1, HeadTailProperties
<1>4. ASSUME NEW i \in 1 .. Len(queue')
      PROVE  queue'[i] \in busy' <=> 1 <= i /\ i < 1 + (d - 1)
  <2>1. PICK j \in 1 .. Len(queue) : j = i + 1
    BY <1>1, <1>2
  <2>2. queue'[i] = queue[j]
    BY <1>1, <1>2, <2>1
  <2>3. queue[j] \in busy <=> 1 <= j /\ j < 1 + d
    BY DEF Stacked
  <2>4. queue'[i] \in busy' <=> queue'[i] \in busy
    OBVIOUS
  <2> QED BY <1>1, <1>2, <2>1, <2>2, <2>3, <2>4
<1>5. ASSUME NEW i \in 1 .. Len(frames')
      PROVE  /\ frames'[i].at = "finished" <=> i > d - 1
             /\ i <= d - 1 => frames'[i].at \in {"handler", "eos"} /\ frames'[i].sig = queue'[1 + i - 1]
  <2>1. PICK j \in 1 .. Len(frames) : j = i + 1
    BY <1>1, <1>3
  <2>2. frames'[i] = frames[j]
    BY <1>1, <1>3, <2>1
  <2>3. frames[j].at = "finished" <=> j > d
    BY DEF Stacked
  <2>4. ASSUME i <= d - 1
        PROVE  frames[j].at \in {"handler", "eos"} /\ frames[j].sig = queue'[1 + i - 1]
    <3>1. j \in 2 .. d /\ j \in 1 .. d
      BY <1>1, <1>3, <2>1, <2>4
    <3>2. frames[j].at \in {"handler", "eos"} /\ frames[j].sig = queue[1 + j - 1]
      BY <3>1 DEF Stacked
    <3>3. i \in 1 .. Len(queue) - 1 /\ 1 + i - 1 = i /\ 1 + j - 1 = i + 1
      BY <1>1, <1>3, <2>1, <2>4
    <3>4. queue'[i] = queue[i + 1]
      BY <1>2, <3>3
    <3> QED BY <3>2, <3>3, <3>4
  <2> QED BY <1>1, <1>3, <2>1, <2>2, <2>3, <2>4
<1>6. inCall' = FALSE
  BY DEF TypeOK
<1>7. \A i \in 1 .. d - 1 : i \in 1 .. Len(frames')
  BY <1>1, <1>3
<1>8. d - 1 \in 0 .. Len(frames') /\ 1 + (d - 1) - 1 <= Len(queue')
  BY <1>1, <1>2, <1>3
<1>9. Stacked(1, d - 1)'
  <2>1. \A i \in 1 .. d - 1 : /\ frames'[i].at \in {"handler", "eos"}
                             /\ frames'[i].sig = queue'[1 + i - 1]
    <3> TAKE i \in 1 .. d - 1
    <3>1. i \in 1 .. Len(frames') /\ i <= d - 1
      BY <1>1, <1>7
    <3> QED BY <1>5, <3>1
  <2>2. \A i \in 2 .. d - 1 : frames'[i].at \in {"handler", "eos"}
    BY <1>1, <2>1
  <2> QED BY <1>4, <1>5, <1>6, <1>8, <2>1, <2>2 DEF Stacked
<1>10. TypeOK'
  BY <1>2, <1>3 DEF TypeOK, Frame
<1> QED BY <1>9, <1>10

(* The last of the handlers is finished, and the next signal follows on its *)
(* frame.                                                                  *)
LEMMA EndFollows ==
    ASSUME TypeOK, NEW d \in 0 .. Len(frames), Stacked(1, d), d > 0, frames # <<>>,
           queue # <<>>, queue[1] \in busy, ~inCall,
           queue' = Tail(queue), queue' # <<>>, Head(queue') \notin busy,
           Call(<<[Top EXCEPT !.at = "finished"]>> \o Tail(frames)),
           busy' = (busy \cap { queue'[i] : i \in 1 .. Len(queue') }) \cup {Head(queue')},
           UNCHANGED <<priority, inCall, blocked, sender, delivered>>
    PROVE  TypeOK' /\ Stacked(1, 1)' /\ d = 1 /\ busy' = {queue[2]}
<1>1. /\ Len(queue) \in Nat /\ Len(frames) \in Nat /\ d \in Nat /\ d <= Len(frames)
      /\ frames \in Seq(Frame) /\ d <= Len(queue)
  BY Types DEF Stacked
<1>2. /\ Len(queue') = Len(queue) - 1
      /\ \A i \in 1 .. Len(queue) - 1 : queue'[i] = queue[i + 1]
      /\ queue' \in Seq(1 .. Len(priority'))
      /\ \A i, j \in 1 .. Len(queue') : i < j =>
             \/ priority'[queue'[i]] < priority'[queue'[j]]
             \/ priority'[queue'[i]] = priority'[queue'[j]] /\ queue'[i] < queue'[j]
  BY HeadIsTaken
<1>3. Head(queue') = queue[2] /\ Len(queue) > 1 /\ queue'[1] = queue[2] /\ Len(queue') > 0
  <2>1. Len(queue') > 0 /\ Head(queue') = queue'[1]
    BY <1>2
  <2>2. queue'[1] = queue[1 + 1]
    BY <1>1, <1>2, <2>1
  <2> QED BY <1>1, <1>2, <2>1, <2>2
<1>4. d = 1
  <2>1. queue[2] \notin busy /\ 2 \in 1 .. Len(queue)
    BY <1>1, <1>3
  <2>2. ~(1 <= 2 /\ 2 < 1 + d)
    BY <2>1 DEF Stacked
  <2> QED BY <1>1, <2>2
<1>5. busy' = {queue[2]}
  <2>1. ASSUME NEW i \in 1 .. Len(queue') PROVE queue'[i] \notin busy
    <3>1. PICK j \in 1 .. Len(queue) : j = i + 1
      BY <1>1, <1>2
    <3>2. queue'[i] = queue[j] /\ ~(1 <= j /\ j < 1 + d)
      BY <1>1, <1>2, <1>4, <3>1
    <3> QED BY <3>2 DEF Stacked
  <2> QED BY <1>3, <2>1
<1> DEFINE f == [Top EXCEPT !.at = "finished"]
           t == Tail(frames)
           u == <<f>> \o t
<1>6. f \in Frame /\ f.at = "finished"
  <2>1. Top \in Frame
    BY <1>1, HeadTailProperties DEF Top
  <2> QED BY <2>1 DEF Frame, Labels
<1>7. t \in Seq(Frame) /\ Len(t) = Len(frames) - 1 /\ \A i \in 1 .. Len(t) : t[i] = frames[i + 1]
  BY <1>1, HeadTailProperties
<1>8. \A i \in 1 .. Len(t) : t[i].at = "finished"
  <2> TAKE i \in 1 .. Len(t)
  <2>1. PICK j \in 1 .. Len(frames) : j = i + 1
    BY <1>1, <1>7
  <2>2. t[i] = frames[j] /\ j > d
    BY <1>1, <1>4, <1>7, <2>1
  <2> QED BY <2>2 DEF Stacked
<1>9. u \in Seq(Frame) /\ Len(u) = Len(frames) /\ \A i \in 1 .. Len(u) : u[i].at = "finished"
  <2> DEFINE T == Frame
  <2>0. f \in T /\ t \in Seq(T)
    BY <1>6, <1>7
  <2> HIDE DEF f, t, T
  <2>1. u \in Seq(T)
    BY <2>0, Stacking
  <2>2. Len(u) = Len(t) + 1
    BY <2>0, Stacking
  <2>3. u[1] = f
    BY <2>0, Stacking
  <2>4. \A i \in 2 .. Len(t) + 1 : u[i] = t[i - 1]
    BY <2>0, Stacking
  <2> HIDE DEF u
  <2>5. ASSUME NEW i \in 1 .. Len(u) PROVE u[i].at = "finished"
    <3>1. CASE i = 1
      BY <1>6, <2>3, <3>1
    <3>2. CASE i > 1
      <4>1. PICK j \in 1 .. Len(t) : j = i - 1
        BY <1>1, <1>7, <2>2, <3>2
      <4>2. i \in 2 .. Len(t) + 1
        BY <1>1, <1>7, <2>2, <3>2
      <4>3. u[i] = t[j]
        BY <2>4, <4>1, <4>2
      <4> QED BY <1>8, <4>3
    <3> QED BY <1>1, <1>7, <2>2, <3>1, <3>2
  <2> QED BY <1>1, <1>7, <2>1, <2>2, <2>5 DEF T
<1> HIDE DEF f, t
<1>10. /\ frames' \in Seq(Frame) /\ Len(frames') = Len(frames) + 1
       /\ frames'[1].at = "called"
       /\ \A i \in 2 .. Len(frames) + 1 : frames'[i] = u[i - 1]
  <2>1. Call(u)
    BY DEF f, t
  <2> HIDE DEF u
  <2> QED BY <1>9, <2>1, FrameIsBuilt
<1> HIDE DEF u
<1>11. \A i \in 1 .. Len(frames') : frames'[i].at = "finished" <=> i > 1
  <2> TAKE i \in 1 .. Len(frames')
  <2>1. CASE i = 1
    BY <1>10, <2>1
  <2>2. CASE i > 1
    <3>1. PICK j \in 1 .. Len(u) : j = i - 1
      BY <1>1, <1>9, <1>10, <2>2
    <3>2. i \in 2 .. Len(frames) + 1
      BY <1>1, <1>10, <2>2
    <3>3. frames'[i] = u[j] /\ u[j].at = "finished"
      BY <1>9, <1>10, <3>1, <3>2
    <3> QED BY <2>2, <3>3
  <2> QED BY <1>1, <1>10, <2>1, <2>2
<1>12. ASSUME NEW i \in 1 .. Len(queue') PROVE queue'[i] \in busy' <=> 1 <= i /\ i < 1 + 1
  <2>1. PICK j \in 1 .. Len(queue) : j = i + 1
    BY <1>1, <1>2
  <2>2. queue'[i] = queue[j] /\ 2 \in 1 .. Len(queue)
    BY <1>1, <1>2, <1>3, <2>1
  <2>3. queue[j] = queue[2] <=> j = 2
    BY <2>2, Types
  <2>4. queue'[i] \in busy' <=> j = 2
    BY <1>5, <2>2, <2>3
  <2>5. j = 2 <=> 1 <= i /\ i < 1 + 1
    BY <1>1, <1>2, <2>1
  <2> QED BY <2>4, <2>5
<1>13. inCall' = FALSE /\ 1 \in 0 .. Len(frames') /\ 1 + 1 - 1 <= Len(queue')
  BY <1>1, <1>3, <1>10 DEF TypeOK
<1>14. /\ \A i \in 1 .. 1 : frames'[i].at \in {"handler", "eos"} => frames'[i].sig = queue'[1 + i - 1]
       /\ \A i \in 2 .. 1 : frames'[i].at \in {"handler", "eos"}
  BY <1>10
<1>15. Stacked(1, 1)'
  BY <1>11, <1>12, <1>13, <1>14 DEF Stacked
<1>16. TypeOK'
  <2>1. busy' \subseteq { queue'[i] : i \in 1 .. Len(queue') }
    <3>1. queue'[1] = queue[2] /\ 1 \in 1 .. Len(queue')
      BY <1>1, <1>2, <1>3
    <3> QED BY <1>5, <3>1
  <2> QED BY <1>2, <1>10, <2>1 DEF TypeOK, Frame
<1> QED BY <1>4, <1>5, <1>15, <1>16

(* The code of a frame whose signal left before finds nothing to handle.    *)
LEMMA EndReturns ==
    ASSUME TypeOK, Stacked(1, 0), frames # <<>>, queue = <<>>, ~inCall,
           frames' = Tail(frames), busy' = {},
           UNCHANGED <<priority, queue, inCall, blocked, sender, delivered>>
    PROVE  TypeOK' /\ Stacked(1, 0)'
<1>1. Len(frames) \in Nat /\ frames \in Seq(Frame) /\ Len(queue) = 0
  BY Types
<1>2. /\ frames' \in Seq(Frame) /\ Len(frames') = Len(frames) - 1
      /\ \A i \in 1 .. Len(frames) - 1 : frames'[i] = frames[i + 1]
  BY <1>1, HeadTailProperties
<1>3. \A i \in 1 .. Len(frames') : frames'[i].at = "finished"
  <2> TAKE i \in 1 .. Len(frames')
  <2>1. PICK j \in 1 .. Len(frames) : j = i + 1
    BY <1>1, <1>2
  <2>2. frames'[i] = frames[j] /\ j > 0
    BY <1>1, <1>2, <2>1
  <2> QED BY <2>2 DEF Stacked
<1>4. Len(frames') \in Nat /\ inCall' = FALSE
  BY <1>2 DEF TypeOK
<1>5. Stacked(1, 0)'
  BY <1>1, <1>3, <1>4 DEF Stacked
<1>6. TypeOK'
  BY <1>2 DEF TypeOK, Frame
<1> QED BY <1>5, <1>6

(* CKendOfSignal does one of these things.                                 *)
LEMMA EndOfSignalIs ==
    ASSUME IInv, NEW l \in {1, 2}, NEW d \in 0 .. Len(frames), Stacked(l, d), CKendOfSignal
    PROVE  /\ TypeOK /\ ~inCall /\ frames # <<>> /\ d \in Nat
           /\ UNCHANGED <<priority, inCall, blocked, sender, delivered>>
           /\ \/ /\ l = 1 /\ d > 0 /\ queue # <<>> /\ queue[1] \in busy
                 /\ queue' = Tail(queue) /\ frames' = Tail(frames)
                 /\ busy' = busy \cap { queue'[i] : i \in 1 .. Len(queue') }
              \/ /\ l = 1 /\ d > 0 /\ queue # <<>> /\ queue[1] \in busy
                 /\ queue' = Tail(queue) /\ queue' # <<>> /\ Head(queue') \notin busy
                 /\ Call(<<[Top EXCEPT !.at = "finished"]>> \o Tail(frames))
                 /\ busy' = (busy \cap { queue'[i] : i \in 1 .. Len(queue') }) \cup {Head(queue')}
              \/ /\ Pending /\ queue' = queue /\ Call(frames) /\ busy' = busy \cup {Head(queue)}
              \/ /\ l = 1 /\ d = 0 /\ queue = <<>> /\ queue' = queue
                 /\ frames' = Tail(frames) /\ busy' = {} /\ busy = {}
<1>1. /\ TypeOK /\ frames # <<>> /\ Top = frames[1] /\ Top \in Frame /\ ~inCall
      /\ Len(queue) \in Nat /\ Len(frames) \in Nat /\ d \in Nat /\ Len(frames) > 0
      /\ queue \in Seq(Nat) /\ frames \in Seq(Frame)
      /\ UNCHANGED <<priority, inCall, blocked, sender, delivered>>
  BY EndOfSignal
<1>2. queue' = Unfinished /\ Follow
  BY DEF CKendOfSignal
<1>3. CASE /\ d > 0 /\ l = 1 /\ Top.at = "eos" /\ queue # <<>> /\ queue[1] \in busy
           /\ Unfinished = Tail(queue)
  <2>1. Tail(queue) # queue
    BY <1>1, <1>3, HeadTailProperties
  <2> QED BY <1>1, <1>2, <1>3, <2>1 DEF Follow
<1>4. CASE Unfinished = queue
  <2>1. busy \cap { queue[i] : i \in 1 .. Len(queue) } = busy
    <3>1. \A s \in busy : \E i \in 1 .. Len(queue) : queue[i] = s
      BY <1>1, Types
    <3> QED BY <3>1
  <2>2. <<[Top EXCEPT !.at = Top.at]>> \o Tail(frames) = frames
    <3>1. [Top EXCEPT !.at = Top.at] = Top
      BY <1>1 DEF Frame
    <3>2. <<frames[1]>> \o Tail(frames) = frames
      BY <1>1
    <3> QED BY <1>1, <3>1, <3>2
  <2>3. CASE queue # <<>> /\ Head(queue) \notin busy
    BY <1>1, <1>2, <1>4, <2>1, <2>2, <2>3 DEF Follow, Pending
  <2>4. CASE queue = <<>>
    <3>1. d = 0 /\ l = 1 /\ busy = {}
      BY <1>4, <2>4, EndOfSignal DEF Pending
    <3> QED BY <1>1, <1>2, <1>4, <2>1, <2>4, <3>1 DEF Follow
  <2>5. queue = <<>> \/ Head(queue) \notin busy
    BY <1>1, <1>4, HeadTailProperties DEF Unfinished
  <2> QED BY <2>3, <2>4, <2>5
<1> QED BY <1>3, <1>4, EndOfSignal

LEMMA EndOfSignalKeeps ==
    ASSUME IInv, NEW l \in {1, 2}, NEW d \in 0 .. Len(frames), Stacked(l, d), CKendOfSignal
    PROVE  TypeOK' /\ \E e \in Nat : Stacked(1, e)'
<1>1. CASE /\ l = 1 /\ d > 0 /\ queue # <<>> /\ queue[1] \in busy
           /\ queue' = Tail(queue) /\ frames' = Tail(frames)
           /\ busy' = busy \cap { queue'[i] : i \in 1 .. Len(queue') }
  <2>1. TypeOK' /\ Stacked(1, d - 1)' /\ d - 1 \in Nat
    BY <1>1, EndOfSignalIs, EndLeaves
  <2> QED BY <2>1
<1>2. CASE /\ l = 1 /\ d > 0 /\ queue # <<>> /\ queue[1] \in busy
           /\ queue' = Tail(queue) /\ queue' # <<>> /\ Head(queue') \notin busy
           /\ Call(<<[Top EXCEPT !.at = "finished"]>> \o Tail(frames))
           /\ busy' = (busy \cap { queue'[i] : i \in 1 .. Len(queue') }) \cup {Head(queue')}
  BY <1>2, EndOfSignalIs, EndFollows
<1>3. CASE Pending /\ queue' = queue /\ Call(frames) /\ busy' = busy \cup {Head(queue)}
  <2>1. TypeOK' /\ Stacked(1, d + 1)' /\ d + 1 \in Nat
    BY <1>3, EndOfSignalIs, InterruptKeeps
  <2> QED BY <2>1
<1>4. CASE /\ l = 1 /\ d = 0 /\ queue = <<>> /\ queue' = queue
           /\ frames' = Tail(frames) /\ busy' = {}
  BY <1>4, EndOfSignalIs, EndReturns
<1> QED BY <1>1, <1>2, <1>3, <1>4, EndOfSignalIs

(* A system call begins and ends without a pending signal.                 *)
LEMMA SystemCallsKeep ==
    ASSUME IInv, Harmless, NEW l \in {1, 2}, NEW d \in 0 .. Len(frames), Stacked(l, d),
           CallBegins \/ CallEnds
    PROVE  TypeOK' /\ Stacked(l, d)' /\ UNCHANGED <<queue, busy, frames, priority>>
<1>1. TypeOK /\ Len(queue) \in Nat /\ d \in Nat
  BY Types DEF IInv
<1>2. CASE CallBegins
  <2>1. /\ UNCHANGED <<priority, queue, busy, frames, blocked, sender, delivered>>
        /\ inCall' = TRUE /\ ~Pending /\ (frames # <<>> => Top.at = "handler")
    BY <1>2 DEF CallBegins, Harmless
  <2>2. l = 1 /\ (d = 0 => queue = <<>>)
    <3>1. CASE queue = <<>>
      BY <1>1, <3>1 DEF Stacked
    <3>2. CASE queue # <<>>
      <4>1. 1 \in 1 .. Len(queue) /\ queue[1] \in busy
        BY <1>1, <2>1, <3>2 DEF Pending, TypeOK
      <4>2. l <= 1 /\ 1 < l + d
        BY <4>1 DEF Stacked
      <4> QED BY <1>1, <4>2
    <3> QED BY <3>1, <3>2
  <2>3. (Building' <=> Building) /\ Top' = Top
    BY <2>1 DEF Building, At, Top
  <2>4. TypeOK'
    BY <1>1, <2>1 DEF TypeOK
  <2>5. Stacked(l, d)'
    BY <1>1, <2>1, <2>2, <2>3 DEF Stacked
  <2> QED BY <2>1, <2>4, <2>5
<1>3. CASE CallEnds
  <2>1. inCall /\ inCall' = FALSE /\ UNCHANGED <<priority, queue, busy, blocked, sender, delivered>>
    BY <1>3 DEF CallEnds
  <2>2. l = 1 /\ (d = 0 => queue = <<>>)
    BY <2>1 DEF Stacked
  <2>3. ~Pending
    <3> SUFFICES ASSUME queue # <<>> PROVE Head(queue) \in busy
      BY DEF Pending
    <3>1. 1 \in 1 .. Len(queue) /\ Head(queue) = queue[1] /\ d > 0
      BY <1>1, <2>2 DEF TypeOK
    <3> QED BY <1>1, <2>2, <3>1 DEF Stacked
  <2>4. frames' = frames
    BY <1>3, <2>3 DEF CallEnds
  <2>5. (Building' <=> Building) /\ Top' = Top
    BY <2>4 DEF Building, At, Top
  <2>6. Stacked(l, d)'
    BY <1>1, <2>1, <2>2, <2>4, <2>5 DEF Stacked
  <2>7. QueueTypes'
    BY <1>1, <2>1 DEF TypeOK, QueueTypes
  <2>8. TypeOK'
    BY <1>1, <2>1, <2>4, <2>7 DEF TypeOK, QueueTypes
  <2> QED BY <2>1, <2>4, <2>6, <2>8
<1> QED BY <1>2, <1>3

(* Steps that touch neither the queue nor the frames.                      *)
LEMMA OthersKeep ==
    ASSUME IInv, NEW l \in {1, 2}, NEW d \in 0 .. Len(frames), Stacked(l, d),
           \/ \E p \in Priorities : SendBegins(p)
           \/ CKblockThread \/ CKunblockThread \/ UNCHANGED vars
    PROVE  TypeOK' /\ Stacked(l, d)' /\ UNCHANGED <<priority, queue, busy, frames, inCall>>
<1>1. UNCHANGED <<priority, queue, busy, frames, inCall, delivered>>
  BY DEF SendBegins, CKblockThread, CKunblockThread, vars
<1>2. (Building' <=> Building) /\ Top' = Top
  BY <1>1 DEF Building, At, Top
<1>3. Stacked(l, d)'
  BY <1>1, <1>2 DEF Stacked
<1>4. TypeOK
  BY DEF IInv
<1>5. /\ blocked' \in BOOLEAN
      /\ sender' \in [sends : {{}} \cup { {p} : p \in Priorities },
                     after : 0 .. Len(priority), next : 0 .. Len(priority)]
  <2>1. CASE \E p \in Priorities : SendBegins(p)
    <3>1. PICK p \in Priorities : SendBegins(p)
      BY <2>1
    <3> DEFINE a == IF Place(p) = 0 THEN NoSignal ELSE queue[Place(p)]
               b == IF Place(p) = Len(queue) THEN NoSignal ELSE queue[Place(p) + 1]
    <3>2. sender' = [sends |-> {p}, after |-> a, next |-> b] /\ blocked' = blocked
      BY <3>1 DEF SendBegins
    <3>3. a \in 0 .. Len(priority) /\ b \in 0 .. Len(priority)
      <4>1. Len(queue) \in Nat /\ Len(priority) \in Nat /\ Place(p) \in 0 .. Len(queue)
        BY <1>4, Types, Placing
      <4>2. \A i \in 1 .. Len(queue) : queue[i] \in 1 .. Len(priority)
        BY <1>4, Types
      <4> QED BY <4>1, <4>2 DEF NoSignal
    <3> HIDE DEF a, b
    <3> QED BY <1>4, <3>2, <3>3 DEF TypeOK
  <2> QED BY <1>4, <2>1 DEF TypeOK, CKblockThread, CKunblockThread, vars
<1>6. TypeOK'
  <2>1. /\ priority' = priority /\ queue' = queue /\ busy' = busy /\ frames' = frames
        /\ inCall' = inCall /\ delivered' = delivered
    BY <1>1
  <2>4. QueueTypes
    BY <1>4 DEF TypeOK, QueueTypes
  <2>2. QueueTypes'
    BY <2>1, <2>4 DEF QueueTypes
  <2>3. /\ frames' \in Seq([at  : Labels, sig : 0 .. Len(priority')])
        /\ inCall' \in BOOLEAN /\ delivered' \in [Signals -> Nat]
    BY <1>4, <2>1 DEF TypeOK
  <2> QED BY <1>5, <2>1, <2>2, <2>3 DEF TypeOK, QueueTypes
<1> QED BY <1>1, <1>3, <1>6

LEMMA SenderStaysRight ==
    ASSUME IInv, Harmless, [Next]_vars
    PROVE  SenderIsRight'
<1>1. CASE \E p \in Priorities : SendBegins(p)
  <2>1. PICK p \in Priorities : SendBegins(p)
    BY <1>1
  <2>2. /\ UNCHANGED <<priority, queue, busy, frames, inCall>>
        /\ Len(priority) < MaxSignals /\ MayArrive(p) /\ sender' = Sender(p)
    BY <2>1 DEF SendBegins, Sender
  <2>3. Place(p)' = Place(p)
    BY <2>2 DEF Place
  <2>4. Sender(p)' = Sender(p)
    BY <2>2, <2>3 DEF Sender
  <2>5. MayArrive(p)'
    BY <2>2, <2>3 DEF MayArrive, Building, Pending, At, Top
  <2> QED BY <2>2, <2>4, <2>5 DEF SenderIsRight
<1>2. CASE UNCHANGED vars
  <2>1. UNCHANGED <<priority, queue, busy, frames, inCall, sender>>
    BY <1>2 DEF vars
  <2>2. \A p \in Priorities : /\ Place(p)' = Place(p)
                              /\ Sender(p)' = Sender(p)
                              /\ MayArrive(p)' <=> MayArrive(p)
    BY <2>1 DEF Place, Sender, MayArrive, Building, Pending, At, Top
  <2> QED BY <2>1, <2>2 DEF IInv, SenderIsRight
<1>3. CASE SendEnds
  BY <1>3 DEF SendEnds, SenderIsRight
<1>4. ASSUME Next, ~SendEnds, ~\E p \in Priorities : SendBegins(p)
      PROVE  sender' = NoSender
  <2>1. Quiet => sender = NoSender
    BY DEF Quiet, Harmless
  <2> QED BY <1>4, <2>1 DEF Next, Delivery, Executes, Schedule, LockFrame, CopySignal, HandlerEnds,
             CKendOfSignal, CallBegins, CallEnds, CKsendSignal, CKblockThread, CKunblockThread
<1> QED BY <1>1, <1>2, <1>3, <1>4 DEF SenderIsRight

-----------------------------------------------------------------------------
LEMMA InitIsStacked == Init => IInv
<1> SUFFICES ASSUME Init PROVE IInv
  OBVIOUS
<1>1. TypeOK
  <2>1. QueueTypes
    BY DEF Init, QueueTypes
  <2>2. /\ frames \in Seq([at  : Labels, sig : 0 .. Len(priority)])
        /\ inCall \in BOOLEAN /\ blocked \in BOOLEAN /\ delivered \in [Signals -> Nat]
    <3>1. frames = <<>> /\ inCall = FALSE /\ blocked = FALSE
      BY DEF Init
    <3>2. delivered \in [Signals -> Nat]
      BY DEF Init
    <3> QED BY <3>1, <3>2, EmptySeq
  <2>3. sender \in [sends : {{}} \cup { {p} : p \in Priorities },
                   after : 0 .. Len(priority), next : 0 .. Len(priority)]
    BY DEF Init, NoSender, NoSignal
  <2> QED BY <2>1, <2>2, <2>3 DEF TypeOK, QueueTypes
<1>2. Stacked(1, 0) /\ 0 \in 0 .. Len(frames)
  BY DEF Init, Stacked, Building, At
<1> QED BY <1>1, <1>2 DEF IInv, SenderIsRight, Init

LEMMA StepsKeepStacked ==
    ASSUME Harmless, IInv, [Next]_vars
    PROVE  IInv'
<1>1. PICK l \in {1, 2}, d \in 0 .. Len(frames) : Stacked(l, d)
  BY DEF IInv
<1>2. TypeOK /\ d \in Nat
  BY Types DEF IInv
<1>3. ASSUME NEW p \in Priorities, Arrives(p)
      PROVE  TypeOK' /\ \E m \in {1, 2} : \E e \in Nat : Stacked(m, e)'
  BY <1>1, <1>2, <1>3, ArrivalKeepsTypes, ArrivalKeepsStack
<1>4. TypeOK' /\ \E m \in {1, 2} : \E e \in Nat : Stacked(m, e)'
  <2>1. CASE Schedule
    <3>1. TypeOK' /\ Stacked(1, d + 1)' /\ d + 1 \in Nat
      BY <1>1, <1>2, <2>1, ScheduleKeeps
    <3> QED BY <3>1
  <2>2. CASE LockFrame \/ CopySignal \/ HandlerEnds
    <3>1. TypeOK' /\ Stacked(l, d)'
      BY <1>1, <2>2, FrameSteps
    <3> QED BY <1>2, <3>1
  <2>3. CASE CKendOfSignal
    BY <1>1, <2>3, EndOfSignalKeeps
  <2>4. CASE CallBegins \/ CallEnds
    <3>1. TypeOK' /\ Stacked(l, d)'
      BY <1>1, <2>4, SystemCallsKeep
    <3> QED BY <1>2, <3>1
  <2>5. CASE \E p \in Priorities : CKsendSignal(p)
    BY <1>3, <2>5, SendIsArrival
  <2>6. CASE SendEnds
    BY <1>3, <2>6, EndOfSendIsArrival
  <2>7. CASE \/ \E p \in Priorities : SendBegins(p)
             \/ CKblockThread \/ CKunblockThread \/ UNCHANGED vars
    <3>1. TypeOK' /\ Stacked(l, d)'
      BY <1>1, <2>7, OthersKeep
    <3> QED BY <1>2, <3>1
  <2> QED BY <2>1, <2>2, <2>3, <2>4, <2>5, <2>6, <2>7 DEF Next, Delivery
<1>5. PICK m \in {1, 2}, e \in Nat : Stacked(m, e)'
  BY <1>4
<1>6. e \in 0 .. Len(frames')
  BY <1>5 DEF Stacked
<1> QED BY <1>4, <1>5, <1>6, SenderStaysRight DEF IInv

(* SFBUSY marks exactly the signals that have a handler frame, in the order *)
(* of the frames, whatever is sent, interrupted and blocked when: so the    *)
(* head that CKendOfSignal takes is the signal whose handler has ended.     *)
THEOREM MarksFollowFrames ==
    ASSUME Harmless
    PROVE  Spec => []HandlersAreBusy
<1>1. Init => IInv
  BY InitIsStacked
<1>2. IInv /\ [Next]_vars => IInv'
  BY StepsKeepStacked
<1>3. IInv => HandlersAreBusy
  BY StackedIsHandled
<1> QED BY <1>1, <1>2, <1>3, PTL DEF Spec

-----------------------------------------------------------------------------
(* The marked signals now, and after a step.                               *)
LEMMA HandlingIs ==
    ASSUME TypeOK, NEW l \in {1, 2}, NEW d \in Nat, Stacked(l, d)
    PROVE  /\ BusyQueue \in Seq(Nat) /\ Len(BusyQueue) = d
           /\ \A n \in 1 .. d : BusyQueue[n] = queue[l + n - 1]
<1>1. queue \in Seq(Nat)
  BY Types
<1>2. /\ l + d - 1 <= Len(queue) /\ (l = 2 => d > 0)
      /\ \A i \in 1 .. Len(queue) : queue[i] \in busy <=> l <= i /\ i < l + d
  BY DEF Stacked
<1> HIDE DEF Selected
<1>3. LET r == Selected(queue, {i \in 1 .. Len(queue) : queue[i] \in busy}) IN
      r \in Seq(Nat) /\ Len(r) = d /\ \A n \in 1 .. d : r[n] = queue[l + n - 1]
  BY <1>1, <1>2, MarkedSignals
<1> QED BY <1>3 DEF BusyQueue, Marked

LEMMA HandlingWillBe ==
    ASSUME TypeOK', NEW l \in {1, 2}, NEW d \in Nat, Stacked(l, d)'
    PROVE  /\ BusyQueue' \in Seq(Nat) /\ Len(BusyQueue') = d
           /\ \A n \in 1 .. d : BusyQueue'[n] = queue'[l + n - 1]
<1>1. queue' \in Seq(Nat)
  <2>1. queue' \in Seq(1 .. Len(priority'))
    BY DEF TypeOK
  <2> QED BY <2>1, SeqMonotonic
<1>2. /\ l + d - 1 <= Len(queue') /\ (l = 2 => d > 0)
      /\ \A i \in 1 .. Len(queue') : queue'[i] \in busy' <=> l <= i /\ i < l + d
  BY DEF Stacked
<1> HIDE DEF Selected
<1>3. LET r == Selected(queue', {i \in 1 .. Len(queue') : queue'[i] \in busy'}) IN
      r \in Seq(Nat) /\ Len(r) = d /\ \A n \in 1 .. d : r[n] = queue'[l + n - 1]
  BY <1>1, <1>2, MarkedSignals
<1> QED BY <1>3 DEF BusyQueue, Marked

Waiting == { queue[i] : i \in 1 .. Len(queue) } \ busy

LEMMA ArrivalIsSend ==
    ASSUME IInv, Harmless, NEW p \in Priorities, Arrives(p)
    PROVE  Service!Send(p)
<1>1. PICK l \in {1, 2}, d \in 0 .. Len(frames) : Stacked(l, d)
  BY DEF IInv
<1>2. TypeOK /\ d \in Nat /\ Len(queue) \in Nat /\ Len(priority) \in Nat /\ Place(p) \in 0 .. Len(queue)
  BY Types, Placing DEF IInv
<1>3. PICK m \in {1, 2} : Stacked(m, d)' /\ \A i \in 1 .. d : queue'[m + i - 1] = queue[l + i - 1]
  BY <1>1, ArrivalKeepsStack
<1>4. /\ TypeOK' /\ Len(queue') = Len(queue) + 1
      /\ \A i \in 1 .. Place(p) : queue'[i] = queue[i]
      /\ queue'[Place(p) + 1] = Len(priority) + 1
      /\ \A i \in Place(p) + 2 .. Len(queue) + 1 : queue'[i] = queue[i - 1]
  BY <1>2, ArrivalKeepsTypes
<1>5. BusyQueue' = BusyQueue
  <2>1. BusyQueue \in Seq(Nat) /\ Len(BusyQueue) = d /\ \A n \in 1 .. d : BusyQueue[n] = queue[l + n - 1]
    BY <1>1, <1>2, HandlingIs
  <2>2. BusyQueue' \in Seq(Nat) /\ Len(BusyQueue') = d /\ \A n \in 1 .. d : BusyQueue'[n] = queue'[m + n - 1]
    BY <1>2, <1>3, <1>4, HandlingWillBe
  <2>3. \A n \in 1 .. d : BusyQueue'[n] = BusyQueue[n]
    BY <1>3, <2>1, <2>2
  <2> QED BY <2>1, <2>2, <2>3, SeqEqual
<1>6. busy' = busy /\ Len(priority) + 1 \notin busy
  <2>1. busy \subseteq 1 .. Len(priority)
    BY <1>2, Types
  <2> QED BY <1>2, <2>1 DEF Arrives
<1>7. { queue'[i] : i \in 1 .. Len(queue') } = { queue[i] : i \in 1 .. Len(queue) } \cup {Len(priority) + 1}
  <2>1. ASSUME NEW i \in 1 .. Len(queue')
        PROVE  queue'[i] = Len(priority) + 1 \/ \E j \in 1 .. Len(queue) : queue'[i] = queue[j]
    <3>1. CASE i <= Place(p)
      BY <1>2, <1>4, <3>1
    <3>2. CASE i = Place(p) + 1
      BY <1>4, <3>2
    <3>3. CASE i > Place(p) + 1
      <4>1. i \in Place(p) + 2 .. Len(queue) + 1 /\ i - 1 \in 1 .. Len(queue)
        BY <1>2, <1>4, <3>3
      <4> QED BY <1>4, <4>1
    <3> QED BY <1>2, <3>1, <3>2, <3>3
  <2>2. ASSUME NEW i \in 1 .. Len(queue) PROVE \E j \in 1 .. Len(queue') : queue'[j] = queue[i]
    <3>1. CASE i <= Place(p)
      BY <1>2, <1>4, <3>1
    <3>2. CASE i > Place(p)
      <4>1. PICK j \in Place(p) + 2 .. Len(queue) + 1 : j - 1 = i /\ j \in 1 .. Len(queue')
        BY <1>2, <1>4, <3>2
      <4> QED BY <1>4, <4>1
    <3> QED BY <1>2, <3>1, <3>2
  <2>3. \E j \in 1 .. Len(queue') : queue'[j] = Len(priority) + 1
    BY <1>2, <1>4
  <2> DEFINE Old == { queue[i] : i \in 1 .. Len(queue) }
             New == { queue'[i] : i \in 1 .. Len(queue') }
  <2>4. ASSUME NEW s \in New PROVE s \in Old \cup {Len(priority) + 1}
    BY <2>1
  <2>5. ASSUME NEW s \in Old PROVE s \in New
    BY <2>2
  <2>6. Len(priority) + 1 \in New
    BY <2>3
  <2> HIDE DEF Old, New
  <2>7. New = Old \cup {Len(priority) + 1}
    BY <2>4, <2>5, <2>6
  <2> QED BY <2>7 DEF Old, New
<1>8. Waiting' = Waiting \cup {Len(priority) + 1}
  BY <1>6, <1>7 DEF Waiting
<1> QED BY <1>5, <1>8 DEF Service!Send, Waiting, Arrives

LEMMA HeadInterrupts ==
    ASSUME TypeOK, NEW l \in {1, 2}, NEW d \in 0 .. Len(frames), Stacked(l, d),
           Pending, ~inCall, Call(frames), busy' = busy \cup {Head(queue)},
           UNCHANGED <<priority, queue, inCall, blocked, sender, delivered>>
    PROVE  \E s \in Waiting : Service!Interrupt(s, BusyQueue)
<1>1. /\ d \in Nat /\ Len(queue) \in Nat /\ Head(queue) = queue[1] /\ 1 \in 1 .. Len(queue)
      /\ queue[1] \in Waiting
  <2>1. queue \in Seq(Nat) /\ d \in Nat /\ queue # <<>>
    BY Types DEF Pending
  <2> QED BY <2>1 DEF Pending, Waiting
<1>2. TypeOK' /\ Stacked(1, d + 1)' /\ ((d = 0 /\ l = 1) \/ (d > 0 /\ l = 2))
  BY InterruptKeeps
<1>3. BusyQueue \in Seq(Nat) /\ Len(BusyQueue) = d /\ \A n \in 1 .. d : BusyQueue[n] = queue[l + n - 1]
  BY <1>1, HandlingIs
<1>4. /\ BusyQueue' \in Seq(Nat) /\ Len(BusyQueue') = d + 1
      /\ \A n \in 1 .. d + 1 : BusyQueue'[n] = queue[1 + n - 1]
  <2>1. d + 1 \in Nat
    BY <1>1
  <2> QED BY <1>2, <2>1, HandlingWillBe
<1>5. BusyQueue' = <<queue[1]>> \o BusyQueue
  <2> DEFINE t == <<queue[1]>> \o BusyQueue
  <2>1. queue[1] \in Nat
    BY <1>1, Types
  <2>2. t \in Seq(Nat) /\ Len(t) = d + 1 /\ t[1] = queue[1] /\ \A n \in 2 .. d + 1 : t[n] = BusyQueue[n - 1]
    BY <1>1, <1>3, <2>1, Stacking
  <2> HIDE DEF t
  <2>3. ASSUME NEW n \in 1 .. d + 1 PROVE BusyQueue'[n] = t[n]
    <3>1. BusyQueue'[n] = queue[n]
      BY <1>1, <1>4
    <3>2. CASE n = 1
      BY <2>2, <3>1, <3>2
    <3>3. CASE n > 1
      <4>1. PICK j \in 1 .. d : j = n - 1
        BY <1>1, <3>3
      <4>2. t[n] = BusyQueue[j] /\ BusyQueue[j] = queue[l + j - 1]
        <5>1. n \in 2 .. d + 1 /\ n - 1 = j
          BY <1>1, <3>3, <4>1
        <5>2. t[n] = BusyQueue[n - 1]
          BY <2>2, <5>1
        <5> QED BY <1>3, <5>1, <5>2
      <4>3. l + j - 1 = n
        BY <1>1, <1>2, <3>3, <4>1
      <4> QED BY <3>1, <4>2, <4>3
    <3> QED BY <1>1, <3>2, <3>3
  <2>4. BusyQueue' = t
    BY <1>4, <2>2, <2>3, SeqEqual
  <2> QED BY <2>4 DEF t
<1>6. \A t \in Waiting \ {queue[1]} : \/ priority[queue[1]] < priority[t]
                                      \/ priority[queue[1]] = priority[t] /\ queue[1] < t
  <2> TAKE t \in Waiting \ {queue[1]}
  <2>1. PICK i \in 1 .. Len(queue) : queue[i] = t
    BY DEF Waiting
  <2>2. 1 < i
    BY <1>1, <2>1
  <2> QED BY <1>1, <2>1, <2>2, Types
<1>7. BusyQueue # <<>> => priority[queue[1]] < priority[Head(BusyQueue)]
  <2> SUFFICES ASSUME BusyQueue # <<>> PROVE priority[queue[1]] < priority[Head(BusyQueue)]
    OBVIOUS
  <2>1. d > 0 /\ l = 2 /\ 1 \in 1 .. d /\ Head(BusyQueue) = BusyQueue[1]
    BY <1>1, <1>2, <1>3
  <2>2. Head(BusyQueue) = queue[2]
    BY <1>3, <2>1
  <2> QED BY <2>1, <2>2 DEF Stacked
<1>8. Waiting' = Waiting \ {queue[1]}
  BY <1>1 DEF Waiting
<1> QED BY <1>1, <1>5, <1>6, <1>7, <1>8 DEF Service!Interrupt, Service!MostUrgent, Waiting

LEMMA EndIsFinish ==
    ASSUME IInv, CKendOfSignal
    PROVE  Service!Next \/ UNCHANGED <<priority, Waiting, BusyQueue>>
<1>1. PICK l \in {1, 2}, d \in 0 .. Len(frames) : Stacked(l, d)
  BY DEF IInv
<1>2. /\ TypeOK /\ ~inCall /\ frames # <<>> /\ d \in Nat /\ Len(queue) \in Nat /\ queue \in Seq(Nat)
      /\ UNCHANGED <<priority, inCall, blocked, sender, delivered>>
  <2>1. TypeOK /\ ~inCall /\ frames # <<>> /\ d \in Nat
        /\ UNCHANGED <<priority, inCall, blocked, sender, delivered>>
    BY <1>1, EndOfSignalIs
  <2> QED BY <2>1, Types
<1>3. BusyQueue \in Seq(Nat) /\ Len(BusyQueue) = d /\ \A n \in 1 .. d : BusyQueue[n] = queue[l + n - 1]
  BY <1>1, <1>2, HandlingIs
<1>4. CASE /\ l = 1 /\ d > 0 /\ queue # <<>> /\ queue[1] \in busy
           /\ queue' = Tail(queue) /\ frames' = Tail(frames)
           /\ busy' = busy \cap { queue'[i] : i \in 1 .. Len(queue') }
  <2>1. TypeOK' /\ Stacked(1, d - 1)' /\ d - 1 \in Nat
    BY <1>1, <1>2, <1>4, EndLeaves
  <2>2. /\ Len(queue') = Len(queue) - 1
        /\ \A i \in 1 .. Len(queue) - 1 : queue'[i] = queue[i + 1]
    BY <1>2, <1>4, HeadIsTaken
  <2>3. /\ BusyQueue' \in Seq(Nat) /\ Len(BusyQueue') = d - 1
        /\ \A n \in 1 .. d - 1 : BusyQueue'[n] = queue'[1 + n - 1]
    BY <2>1, HandlingWillBe
  <2>4. BusyQueue' = Tail(BusyQueue) /\ BusyQueue # <<>>
    <3> DEFINE t == Tail(BusyQueue)
    <3>1. BusyQueue # <<>> /\ t \in Seq(Nat) /\ Len(t) = d - 1 /\ \A n \in 1 .. d - 1 : t[n] = BusyQueue[n + 1]
      BY <1>2, <1>3, <1>4, HeadTailProperties
    <3> HIDE DEF t
    <3>2. ASSUME NEW n \in 1 .. d - 1 PROVE BusyQueue'[n] = t[n]
      <4>1. PICK j \in 1 .. d : j = n + 1
        BY <1>2
      <4>2. t[n] = BusyQueue[j] /\ BusyQueue[j] = queue[1 + j - 1] /\ 1 + j - 1 = n + 1
        BY <1>2, <1>3, <1>4, <3>1, <4>1
      <4>3. n \in 1 .. Len(queue) - 1 /\ 1 + n - 1 = n
        BY <1>1, <1>2, <1>4 DEF Stacked
      <4>4. BusyQueue'[n] = queue'[n] /\ queue'[n] = queue[n + 1]
        BY <2>2, <2>3, <4>3
      <4> QED BY <4>2, <4>4
    <3>3. BusyQueue' = t
      BY <2>3, <3>1, <3>2, SeqEqual
    <3> QED BY <3>1, <3>3 DEF t
  <2>5. Waiting' = Waiting
    <3>1. ASSUME NEW s \in Waiting PROVE s \in Waiting'
      <4>1. PICK j \in 1 .. Len(queue) : queue[j] = s
        BY DEF Waiting
      <4>2. j # 1
        BY <1>4, <4>1 DEF Waiting
      <4>3. PICK i \in 1 .. Len(queue) - 1 : i + 1 = j
        BY <1>2, <4>2
      <4>4. queue'[i] = s /\ i \in 1 .. Len(queue')
        BY <2>2, <4>1, <4>3
      <4> QED BY <1>4, <4>4 DEF Waiting
    <3>2. ASSUME NEW s \in Waiting' PROVE s \in Waiting
      <4>1. PICK i \in 1 .. Len(queue') : queue'[i] = s
        BY DEF Waiting
      <4>2. PICK j \in 1 .. Len(queue) : j = i + 1
        BY <1>2, <2>2
      <4>3. queue[j] = s
        BY <2>2, <4>1, <4>2
      <4>4. s \notin busy
        BY <1>4, <4>1 DEF Waiting
      <4> QED BY <4>3, <4>4 DEF Waiting
    <3> QED BY <3>1, <3>2
  <2>6. Service!Finish
    BY <1>2, <2>4, <2>5 DEF Service!Finish, Waiting
  <2> QED BY <2>6 DEF Service!Next
<1>5. CASE /\ l = 1 /\ d > 0 /\ queue # <<>> /\ queue[1] \in busy
           /\ queue' = Tail(queue) /\ queue' # <<>> /\ Head(queue') \notin busy
           /\ Call(<<[Top EXCEPT !.at = "finished"]>> \o Tail(frames))
           /\ busy' = (busy \cap { queue'[i] : i \in 1 .. Len(queue') }) \cup {Head(queue')}
  <2>1. TypeOK' /\ Stacked(1, 1)' /\ d = 1 /\ busy' = {queue[2]}
    BY <1>1, <1>2, <1>5, EndFollows
  <2>2. /\ Len(queue') = Len(queue) - 1
        /\ \A i \in 1 .. Len(queue) - 1 : queue'[i] = queue[i + 1]
        /\ Len(queue') > 0 /\ 2 \in 1 .. Len(queue) /\ queue'[1] = queue[2]
    <3>1. /\ Len(queue') = Len(queue) - 1 /\ queue' \in Seq(1 .. Len(priority'))
          /\ \A i \in 1 .. Len(queue) - 1 : queue'[i] = queue[i + 1]
      BY <1>2, <1>5, HeadIsTaken
    <3>2. Len(queue') > 0
      BY <1>5, <3>1
    <3>3. 1 \in 1 .. Len(queue) - 1 /\ 1 + 1 = 2
      BY <1>2, <3>1, <3>2
    <3>4. queue'[1] = queue[1 + 1]
      BY <3>1, <3>3
    <3> QED BY <1>2, <3>1, <3>2, <3>4
  <2>3. \A i \in 1 .. Len(queue) : queue[i] \in busy <=> i = 1
    BY <1>1, <1>2, <1>5, <2>1 DEF Stacked
  <2>4. /\ BusyQueue' \in Seq(Nat) /\ Len(BusyQueue') = 1
        /\ \A n \in 1 .. 1 : BusyQueue'[n] = queue'[1 + n - 1]
    BY <2>1, HandlingWillBe
  <2>5. BusyQueue' = <<queue[2]>> \o Tail(BusyQueue) /\ BusyQueue # <<>> /\ Tail(BusyQueue) = <<>>
    <3>1. BusyQueue # <<>> /\ Tail(BusyQueue) = <<>>
      <4>1. Len(BusyQueue) = 1
        BY <1>3, <2>1
      <4>2. BusyQueue # <<>>
        BY <4>1
      <4>3. Tail(BusyQueue) \in Seq(Nat) /\ Len(Tail(BusyQueue)) = 0
        BY <1>3, <4>1, <4>2, HeadTailProperties
      <4> QED BY <4>2, <4>3, EmptySeq
    <3>2. BusyQueue'[1] = queue[2]
      BY <2>2, <2>4
    <3>3. BusyQueue' = <<queue[2]>>
      BY <2>4, <3>2
    <3>4. <<queue[2]>> \in Seq(Nat)
      <4>1. queue[2] \in Nat
        BY <1>2, <2>2, Types
      <4> QED BY <4>1
    <3>5. <<queue[2]>> \o Tail(BusyQueue) = <<queue[2]>>
      BY <3>1, <3>4, ConcatEmptySeq
    <3> QED BY <3>1, <3>3, <3>5
  <2>6. queue[2] \in Waiting
    BY <2>2, <2>3 DEF Waiting
  <2>7. \A t \in Waiting \ {queue[2]} : \/ priority[queue[2]] < priority[t]
                                        \/ priority[queue[2]] = priority[t] /\ queue[2] < t
    <3> TAKE t \in Waiting \ {queue[2]}
    <3>1. PICK i \in 1 .. Len(queue) : queue[i] = t /\ t \notin busy
      BY DEF Waiting
    <3>2. i # 1 /\ i # 2
      BY <2>3, <3>1
    <3>3. 2 < i
      BY <1>2, <3>2
    <3> QED BY <1>2, <2>2, <3>1, <3>3, Types
  <2>8. Waiting' = Waiting \ {queue[2]}
    <3>1. ASSUME NEW s \in Waiting \ {queue[2]} PROVE s \in Waiting'
      <4>1. PICK j \in 1 .. Len(queue) : queue[j] = s /\ s \notin busy
        BY DEF Waiting
      <4>2. j # 1
        BY <2>3, <4>1
      <4>3. PICK i \in 1 .. Len(queue) - 1 : i + 1 = j
        BY <1>2, <4>2
      <4>4. queue'[i] = s /\ i \in 1 .. Len(queue')
        BY <2>2, <4>1, <4>3
      <4> QED BY <2>1, <4>4 DEF Waiting
    <3>2. ASSUME NEW s \in Waiting' PROVE s \in Waiting \ {queue[2]}
      <4>1. PICK i \in 1 .. Len(queue') : queue'[i] = s /\ s # queue[2]
        BY <2>1 DEF Waiting
      <4>2. PICK j \in 1 .. Len(queue) : j = i + 1
        BY <1>2, <2>2
      <4>3. queue[j] = s /\ j # 1
        BY <1>2, <2>2, <4>1, <4>2
      <4>4. s \notin busy
        BY <2>3, <4>3
      <4> QED BY <4>1, <4>3, <4>4 DEF Waiting
    <3> QED BY <3>1, <3>2
  <2>9. Service!Interrupt(queue[2], Tail(BusyQueue))
    BY <1>2, <2>5, <2>6, <2>7, <2>8 DEF Service!Interrupt, Service!MostUrgent, Waiting
  <2>10. Service!Finish
    BY <2>5, <2>6, <2>9 DEF Service!Finish, Waiting
  <2> QED BY <2>10 DEF Service!Next
<1>6. CASE Pending /\ queue' = queue /\ Call(frames) /\ busy' = busy \cup {Head(queue)}
  <2>1. \E s \in Waiting : Service!Interrupt(s, BusyQueue)
    BY <1>1, <1>2, <1>6, HeadInterrupts
  <2> QED BY <2>1 DEF Service!Next, Waiting
<1>7. CASE /\ l = 1 /\ d = 0 /\ queue = <<>> /\ queue' = queue
           /\ frames' = Tail(frames) /\ busy' = {} /\ busy = {}
  <2>1. BusyQueue' = BusyQueue
    BY <1>7 DEF BusyQueue, Marked
  <2> QED BY <1>2, <1>7, <2>1 DEF Waiting
<1> QED BY <1>1, <1>4, <1>5, <1>6, <1>7, EndOfSignalIs

(* The queue and its marks implement the discipline: a signal interrupts    *)
(* only less urgent handlers, the most urgent and of equally urgent ones    *)
(* the oldest goes first, and interrupted handlers go on in their order.    *)
THEOREM SignalsImplementDiscipline ==
    ASSUME Harmless
    PROVE  Spec => ImplementsDiscipline
<1>1. Init => Service!Init
  <2> SUFFICES ASSUME Init PROVE Service!Init
    OBVIOUS
  <2>1. TypeOK /\ Stacked(1, 0) /\ 0 \in Nat
    BY InitIsStacked DEF Init, IInv, Stacked, Building, At
  <2>2. BusyQueue \in Seq(Nat) /\ Len(BusyQueue) = 0
    BY <2>1, HandlingIs
  <2> QED BY <2>2 DEF Init, Service!Init
<1>2. ASSUME IInv, [Next]_vars
      PROVE  [Service!Next]_(Service!dvars)
  <2>1. CASE Schedule
    <3>1. PICK l \in {1, 2}, d \in 0 .. Len(frames) : Stacked(l, d)
      BY <1>2 DEF IInv
    <3>2. \E s \in Waiting : Service!Interrupt(s, BusyQueue)
      BY <1>2, <2>1, <3>1, HeadInterrupts DEF IInv, Schedule, Interruptable
    <3> QED BY <3>2 DEF Service!Next, Service!dvars, Waiting
  <2>2. CASE CKendOfSignal
    BY <1>2, <2>2, EndIsFinish DEF Service!dvars, Waiting
  <2>3. CASE SendEnds \/ \E p \in Priorities : CKsendSignal(p)
    <3>1. \E p \in Priorities : Arrives(p)
      BY <1>2, <2>3, SendIsArrival, EndOfSendIsArrival
    <3> QED BY <1>2, <3>1, ArrivalIsSend DEF Service!Next, Service!dvars, Waiting
  <2>4. CASE UNCHANGED <<priority, queue, busy>>
    BY <2>4 DEF Service!dvars, BusyQueue, Marked, Selected
  <2>5. CASE \/ LockFrame \/ CopySignal \/ HandlerEnds \/ CallBegins \/ CallEnds
             \/ \E p \in Priorities : SendBegins(p)
             \/ CKblockThread \/ CKunblockThread \/ UNCHANGED vars
    BY <2>4, <2>5 DEF LockFrame, CopySignal, HandlerEnds, CallBegins, CallEnds, SendBegins,
          CKblockThread, CKunblockThread, vars
  <2> QED BY <1>2, <2>1, <2>2, <2>3, <2>5 DEF Next, Delivery
<1>3. IInv /\ [Next]_vars => IInv'
  BY StepsKeepStacked
<1> QED BY <1>1, <1>2, <1>3, InitIsStacked, PTL DEF Spec, ImplementsDiscipline, Service!Spec
=============================================================================
