--------------------------- MODULE ResourcesProofs --------------------------
(***************************************************************************)
(* Proofs about Resources, for every number of threads, descriptors,       *)
(* channels, interrupts and addresses and every set of requests:           *)
(*   - allocated I/O regions never overlap, as long as none reaches the    *)
(*     end of the address space;                                           *)
(*   - what is allocated is held once, whatever is preempted where;        *)
(*   - the chains of the interrupts stay whole, and an interrupt that      *)
(*     walks one meets only allocators, in the order of calls the code is  *)
(*     correct for.                                                        *)
(***************************************************************************)
EXTENDS Resources, FiniteSetTheorems, TLAPS

USE ResourcesAssumption

NoWrap == "wrap" \notin Allowed

(* The inductive invariant: Disjoint alone is not, because CKIOfindGap     *)
(* compares ends that are computed modulo AddressSpan.                     *)
RegionsInv ==
    /\ regions \in Seq(Regions)
    /\ \A i \in 1 .. Len(regions) : ~Wraps(regions[i].base, regions[i].limit)
    /\ Disjoint

LEMMA EndIsSum ==
    ASSUME NEW base \in Addresses, NEW limit \in Addresses, ~Wraps(base, limit)
    PROVE  End(base, limit) = base + limit
<1> DEFINE sum == base + limit
<1>1. sum \in 0 .. AddressSpan - 1
  BY DEF Addresses, Wraps
<1> HIDE DEF sum
<1>2. (sum % AddressSpan) = sum
  BY <1>1
<1> QED BY <1>2 DEF End, sum

(* What CKIOfindGap returns leaves room for the region.                    *)
LEMMA GapHasRoom ==
    ASSUME RegionsInv, NEW base \in Addresses, NEW limit \in Addresses, ~Wraps(base, limit),
           NEW gap \in CKIOfindGap(base, limit)
    PROVE  /\ gap \in 0 .. Len(regions)
           /\ \A j \in 1 .. Len(regions) : j <= gap =>
                  regions[j].base + regions[j].limit <= base
           /\ \A j \in 1 .. Len(regions) : j > gap => base + limit <= regions[j].base
<1> DEFINE n == Len(regions)
<1>1. n \in Nat /\ \A j \in 1 .. n :
         /\ regions[j].base \in Addresses /\ regions[j].limit \in Addresses
         /\ regions[j].base \in Nat /\ regions[j].limit \in Nat
  <2>1. regions \in Seq(Regions)
    BY DEF RegionsInv
  <2>2. n \in Nat /\ \A j \in 1 .. n : regions[j] \in Regions
    BY <2>1
  <2> QED BY <2>2 DEF Regions, Addresses
<1>2. /\ gap \in 0 .. n /\ Fits(gap, base, limit)
      /\ \A j \in 0 .. gap : ~Covered(j, base)
  BY DEF CKIOfindGap
<1>3. ASSUME NEW j \in 1 .. n, j <= gap
      PROVE  regions[j].base + regions[j].limit <= base
  <2>1. ~(base < End(regions[j].base, regions[j].limit))
    BY <1>2, <1>3 DEF Covered
  <2>2. End(regions[j].base, regions[j].limit) = regions[j].base + regions[j].limit
    BY <1>1, EndIsSum DEF RegionsInv
  <2> QED BY <1>1, <2>1, <2>2 DEF Addresses
<1>4. ASSUME NEW j \in 1 .. n, j > gap PROVE base + limit <= regions[j].base
  <2>1. gap + 1 \in 1 .. n /\ gap # n
    BY <1>1, <1>2, <1>4
  <2>2. regions[gap + 1].base >= base + limit
    BY <1>2, <2>1, EndIsSum DEF Fits
  <2>3. CASE j = gap + 1
    BY <2>2, <2>3, <1>1, <2>1 DEF Addresses
  <2>4. CASE j # gap + 1
    <3>1. gap + 1 < j
      BY <1>2, <1>4, <2>4
    <3>2. regions[gap + 1].base + regions[gap + 1].limit <= regions[j].base
      BY <2>1, <3>1 DEF RegionsInv, Disjoint
    <3> QED BY <1>1, <2>1, <2>2, <3>2 DEF Addresses
  <2> QED BY <2>3, <2>4
<1> QED BY <1>2, <1>3, <1>4

LEMMA InsertKeeps ==
    ASSUME RegionsInv, NEW base \in Addresses, NEW limit \in Addresses, ~Wraps(base, limit),
           NEW d \in Descriptors, NEW gap \in CKIOfindGap(base, limit),
           InsertBehind(gap, [base |-> base, limit |-> limit, self |-> d])
    PROVE  RegionsInv'
<1> DEFINE n      == Len(regions)
           region == [base |-> base, limit |-> limit, self |-> d]
<1>1. n \in Nat /\ \A i \in 1 .. n : regions[i] \in Regions
  <2>1. regions \in Seq(Regions)
    BY DEF RegionsInv
  <2> QED BY <2>1
<1>2. region \in Regions /\ region.base = base /\ region.limit = limit
  BY DEF Regions
<1>3. gap \in 0 .. n
  BY GapHasRoom
<1>4. regions' = [i \in 1 .. n + 1 |-> IF i <= gap THEN regions[i]
                                      ELSE IF i = gap + 1 THEN region
                                      ELSE regions[i - 1]]
  BY DEF InsertBehind
<1> HIDE DEF n, region
<1>5. ASSUME NEW i \in 1 .. n + 1
      PROVE  \/ i <= gap /\ i \in 1 .. n /\ regions'[i] = regions[i]
             \/ i = gap + 1 /\ regions'[i] = region
             \/ i > gap + 1 /\ i - 1 \in 1 .. n /\ i - 1 > gap /\ regions'[i] = regions[i - 1]
  BY <1>1, <1>3, <1>4
<1>6. Len(regions') = n + 1 /\ regions' \in Seq(Regions)
  <2>1. \A i \in 1 .. n + 1 : regions'[i] \in Regions
    BY <1>1, <1>2, <1>5
  <2>2. regions' = [i \in 1 .. n + 1 |-> regions'[i]] /\ n + 1 \in Nat
    BY <1>1, <1>4
  <2>3. regions' \in [1 .. n + 1 -> Regions]
    BY <2>1, <2>2
  <2> QED BY <2>2, <2>3
<1>7. \A i \in 1 .. n + 1 : ~Wraps(regions'[i].base, regions'[i].limit)
  BY <1>2, <1>5 DEF RegionsInv, n
<1>8. ASSUME NEW i \in 1 .. n + 1, NEW j \in 1 .. n + 1, i < j
      PROVE  regions'[i].base + regions'[i].limit <= regions'[j].base
  <2>1. \A k \in 1 .. n : k <= gap => regions[k].base + regions[k].limit <= base
    BY GapHasRoom DEF n
  <2>2. \A k \in 1 .. n : k > gap => base + limit <= regions[k].base
    BY GapHasRoom DEF n
  <2>3. \A k, l \in 1 .. n : k < l => regions[k].base + regions[k].limit <= regions[l].base
    BY DEF RegionsInv, Disjoint, n
  <2>4. CASE i <= gap
    <3>1. i \in 1 .. n /\ regions'[i] = regions[i]
      BY <1>3, <1>5, <2>4
    <3>2. CASE j <= gap
      <4>1. j \in 1 .. n /\ regions'[j] = regions[j]
        BY <1>3, <1>5, <3>2
      <4> QED BY <1>8, <2>3, <3>1, <4>1
    <3>3. CASE j = gap + 1
      BY <1>2, <1>3, <1>5, <2>1, <2>4, <3>1, <3>3
    <3>4. CASE j > gap + 1
      <4>1. j - 1 \in 1 .. n /\ regions'[j] = regions[j - 1] /\ i < j - 1
        BY <1>3, <1>5, <2>4, <3>4
      <4> QED BY <2>3, <3>1, <4>1
    <3> QED BY <1>3, <3>2, <3>3, <3>4
  <2>5. CASE i = gap + 1
    <3>1. regions'[i] = region
      BY <1>3, <1>5, <2>5
    <3>2. j - 1 \in 1 .. n /\ regions'[j] = regions[j - 1] /\ j - 1 > gap
      BY <1>3, <1>5, <1>8, <2>5
    <3> QED BY <1>2, <2>2, <3>1, <3>2
  <2>6. CASE i > gap + 1
    <3>1. i - 1 \in 1 .. n /\ regions'[i] = regions[i - 1]
      BY <1>3, <1>5, <2>6
    <3>2. j - 1 \in 1 .. n /\ regions'[j] = regions[j - 1] /\ i - 1 < j - 1
      BY <1>3, <1>5, <1>8, <2>6
    <3> QED BY <2>3, <3>1, <3>2
  <2> QED BY <1>3, <2>4, <2>5, <2>6
<1> QED BY <1>6, <1>7, <1>8 DEF RegionsInv, Disjoint

LEMMA RemoveKeeps ==
    ASSUME RegionsInv, NEW at \in 1 .. Len(regions), RemoveRegion(at)
    PROVE  RegionsInv'
<1> DEFINE n == Len(regions)
<1>1. n \in Nat /\ at \in 1 .. n /\ \A i \in 1 .. n : regions[i] \in Regions
  <2>1. regions \in Seq(Regions)
    BY DEF RegionsInv
  <2> QED BY <2>1
<1>2. regions' = [i \in 1 .. n - 1 |-> IF i < at THEN regions[i] ELSE regions[i + 1]]
  BY DEF RemoveRegion, Removed
<1>3. /\ \A i \in 1 .. n : ~Wraps(regions[i].base, regions[i].limit)
      /\ \A k, l \in 1 .. n : k < l => regions[k].base + regions[k].limit <= regions[l].base
  BY DEF RegionsInv, Disjoint
<1> HIDE DEF n
<1>4. ASSUME NEW i \in 1 .. n - 1
      PROVE  \/ i < at /\ i \in 1 .. n /\ regions'[i] = regions[i]
             \/ ~(i < at) /\ i + 1 \in 1 .. n /\ regions'[i] = regions[i + 1]
  BY <1>1, <1>2
<1>5. Len(regions') = n - 1 /\ regions' \in Seq(Regions)
  <2>1. \A i \in 1 .. n - 1 : regions'[i] \in Regions
    BY <1>1, <1>4
  <2>2. regions' = [i \in 1 .. n - 1 |-> regions'[i]] /\ n - 1 \in Nat
    BY <1>1, <1>2
  <2>3. regions' \in [1 .. n - 1 -> Regions]
    BY <2>1, <2>2
  <2> QED BY <2>2, <2>3
<1>6. \A i \in 1 .. n - 1 : ~Wraps(regions'[i].base, regions'[i].limit)
  BY <1>3, <1>4
<1>7. ASSUME NEW i \in 1 .. n - 1, NEW j \in 1 .. n - 1, i < j
      PROVE  regions'[i].base + regions'[i].limit <= regions'[j].base
  <2>1. \E k, l \in 1 .. n : k < l /\ regions'[i] = regions[k] /\ regions'[j] = regions[l]
    <3>1. CASE j < at
      BY <1>1, <1>4, <1>7, <3>1
    <3>2. CASE ~(j < at) /\ i < at
      <4>1. i \in 1 .. n /\ j + 1 \in 1 .. n /\ i < j + 1
        BY <1>1, <1>7
      <4> QED BY <1>4, <3>2, <4>1
    <3>3. CASE ~(j < at) /\ ~(i < at)
      <4>1. i + 1 \in 1 .. n /\ j + 1 \in 1 .. n /\ i + 1 < j + 1
        BY <1>1, <1>7
      <4> QED BY <1>4, <3>3, <4>1
    <3> QED BY <1>1, <1>7, <3>1, <3>2, <3>3
  <2> QED BY <1>3, <2>1
<1> QED BY <1>5, <1>6, <1>7 DEF RegionsInv, Disjoint

(* Only CKallocIORegion and CKfreeIORegion touch the list of regions.      *)
LEMMA NextRegions == NoWrap /\ RegionsInv /\ [Next]_vars => RegionsInv'
<1> SUFFICES ASSUME NoWrap, RegionsInv, [Next]_vars PROVE RegionsInv'
  OBVIOUS
<1>1. ASSUME UNCHANGED regions PROVE RegionsInv'
  BY <1>1 DEF RegionsInv, Disjoint
<1>2. ASSUME NEW t \in Threads, NEW d \in Descriptors, NEW o \in Threads, NEW r \in IORequests,
             CKallocIORegion(t, d, o, r[1], r[2])
      PROVE  RegionsInv'
  <2>1. r[1] \in Addresses /\ r[2] \in Addresses
    OBVIOUS
  <2>2. ~Wraps(r[1], r[2])
    BY <1>2 DEF CKallocIORegion, NoWrap
  <2>3. PICK gap \in CKIOfindGap(r[1], r[2]) :
           InsertBehind(gap, [base |-> r[1], limit |-> r[2], self |-> d])
    BY <1>2 DEF CKallocIORegion
  <2> QED BY <2>1, <2>2, <2>3, InsertKeeps
<1>3. ASSUME NEW t \in Threads, NEW d \in Descriptors, CKfreeIORegion(t, d) PROVE RegionsInv'
  BY <1>3, RemoveKeeps DEF CKfreeIORegion
<1>4. ASSUME NEW t \in Threads, NEW d \in Descriptors, NEW o \in Owners
      PROVE  /\ MemoryForDMA(t, d, o) => RegionsInv'
             /\ \A n \in Interrupts : CKallocTrap(t, d, o, n) => RegionsInv'
             /\ CKallocPhysRegion(t, d, o) => RegionsInv'
  BY <1>1 DEF MemoryForDMA, CKallocTrap, CKallocPhysRegion
<1>5. ASSUME NEW t \in Threads, NEW d \in Descriptors
      PROVE  CKfreeDMA(t, d) \/ CKfreeTrap(t, d) \/ CKfreePhysRegion(t, d) => RegionsInv'
  BY <1>1 DEF CKfreeDMA, CKfreeTrap, CKfreePhysRegion
<1>6. ASSUME NEW t \in Threads
      PROVE  /\ \A channel \in 0 .. DMACHANNELS : CKallocDMA(t, channel) => RegionsInv'
             /\ NoMemoryForDMA(t) \/ Own(t) \/ Disown(t) \/ FillTrap(t) \/ UnchainTrap(t)
                    => RegionsInv'
  BY <1>1 DEF CKallocDMA, NoMemoryForDMA, Own, Disown, FillTrap, UnchainTrap
<1>7. Dispatch \/ (\E n \in Interrupts : CKforwardGlobalInterrupt(n)) => RegionsInv'
  BY <1>1 DEF Dispatch, CKforwardGlobalInterrupt
<1>8. UNCHANGED vars => RegionsInv'
  BY <1>1 DEF vars
<1> QED BY <1>2, <1>3, <1>4, <1>5, <1>6, <1>7, <1>8 DEF Next, Owners

(* CKIOfindGap and the list operations of CKallocIORegion and              *)
(* CKfreeIORegion never let two allocated regions overlap.                 *)
THEOREM RegionsAreDisjoint ==
    ASSUME NoWrap
    PROVE  Spec => []Disjoint
<1>1. Init => RegionsInv
  BY DEF Init, RegionsInv, Disjoint
<1>2. RegionsInv /\ [Next]_vars => RegionsInv'
  BY NextRegions
<1>3. RegionsInv => Disjoint
  BY DEF RegionsInv
<1> QED BY <1>1, <1>2, <1>3, PTL DEF Spec

-----------------------------------------------------------------------------
(* What is allocated has one holder.  The lists of the owners and the      *)
(* marks of the channels are changed in other critical sections than the   *)
(* resources: the invariant says what they lack meanwhile.                 *)

(* Who is where in a call, and what for.                                   *)
CallsAre == \A t \in Threads :
    /\ call[t].at = "idle" => call[t].res = NIL
    /\ call[t].at = "marked" => call[t].res = NIL /\ call[t].for \in Channels
    /\ call[t].at \in {"own", "disown"} =>
           call[t].res \in Descriptors /\ Kind(call[t].res) \in {"IO", "DMA", "Phys"}
    /\ call[t].at \in {"fill", "unchain"} =>
           call[t].res \in Descriptors /\ Kind(call[t].res) = "Trap"
OneCall == \A t, u \in Threads : t # u /\ call[t].res # NIL => call[t].res # call[u].res

ResourcesAre == \A d \in Descriptors :
    /\ Kind(d) = "Free" => resource[d] = NoResource
    /\ Kind(d) # "Free" => resource[d].owner \in Owners
    /\ Kind(d) = "DMA" => resource[d].for \in Channels
    /\ Kind(d) = "Trap" => resource[d].for \in Interrupts

(* What is in whose list, once.                                            *)
Owning(d)  == \E t \in Threads : call[t].at = "own" /\ call[t].res = d
Single(s)  == \A i, j \in DOMAIN s : s[i] = s[j] => i = j
In(s, d)   == \E i \in DOMAIN s : s[i] = d
ListsAre   == \A o \in Owners, k \in Kinds :
    /\ Single(lists[o][k])
    /\ \A d \in Descriptors :
          In(lists[o][k], d) <=> Kind(d) = k /\ resource[d].owner = o /\ ~Owning(d)

(* Which resources and which calls a channel is marked for.                *)
HasHeld(c)   == { d \in Held("DMA") : resource[d].for = c }
HasCalls(c)  == { t \in Threads :
    \/ call[t].at = "marked" /\ call[t].for = c
    \/ /\ call[t].at = "own" /\ Kind(call[t].res) = "DMA" /\ resource[call[t].res].for = c }
MarksAre     == \A c \in Channels :
    /\ \A d, e \in HasHeld(c) : d = e
    /\ \A t, u \in HasCalls(c) : t = u
    /\ HasHeld(c) = {} \/ HasCalls(c) = {}
    /\ c \in DMAallocationMap <=> HasHeld(c) # {} \/ HasCalls(c) # {}

HoldInv == CallsAre /\ OneCall /\ ResourcesAre /\ ListsAre /\ MarksAre

(* The operations on lists: one element more, and one less.                *)
LEMMA AppendIs ==
    ASSUME NEW D, NEW s \in Seq(D), NEW d \in D, Single(s), ~In(s, d)
    PROVE  /\ Append(s, d) \in Seq(D)
           /\ Single(Append(s, d))
           /\ \A e : In(Append(s, d), e) <=> In(s, e) \/ e = d
<1> DEFINE n == Len(s)
           a == Append(s, d)
<1>1. n \in Nat /\ DOMAIN s = 1 .. n /\ a \in Seq(D) /\ DOMAIN a = 1 .. n + 1
  OBVIOUS
<1>2. a[n + 1] = d /\ \A i \in 1 .. n : a[i] = s[i]
  OBVIOUS
<1> HIDE DEF n, a
<1>3. \A i \in 1 .. n + 1 : i = n + 1 \/ i \in 1 .. n
  BY <1>1
<1>4. Single(a)
  BY <1>1, <1>2, <1>3 DEF Single, In
<1>5. ASSUME NEW e PROVE In(a, e) <=> In(s, e) \/ e = d
  <2>1. \A i \in 1 .. n : i \in 1 .. n + 1
    BY <1>1
  <2>2. n + 1 \in 1 .. n + 1
    BY <1>1
  <2> QED BY <1>1, <1>2, <1>3, <2>1, <2>2 DEF In
<1> QED BY <1>1, <1>4, <1>5 DEF a

LEMMA RemovedIs ==
    ASSUME NEW D, NEW s \in Seq(D), NEW at \in 1 .. Len(s)
    PROVE  /\ Removed(s, at) \in Seq(D)
           /\ Len(Removed(s, at)) = Len(s) - 1
           /\ \A i \in 1 .. Len(s) - 1 :
                 \/ i < at /\ i \in 1 .. Len(s) /\ Removed(s, at)[i] = s[i]
                 \/ ~(i < at) /\ i + 1 \in 1 .. Len(s) /\ Removed(s, at)[i] = s[i + 1]
<1> DEFINE n == Len(s)
           r == Removed(s, at)
<1>1. n \in Nat /\ at \in 1 .. n /\ \A i \in 1 .. n : s[i] \in D
  OBVIOUS
<1>2. r = [i \in 1 .. n - 1 |-> IF i < at THEN s[i] ELSE s[i + 1]]
  BY DEF Removed
<1> HIDE DEF n, r
<1>3. ASSUME NEW i \in 1 .. n - 1
      PROVE  \/ i < at /\ i \in 1 .. n /\ r[i] = s[i]
             \/ ~(i < at) /\ i + 1 \in 1 .. n /\ r[i] = s[i + 1]
  BY <1>1, <1>2
<1>4. \A i \in 1 .. n - 1 : r[i] \in D
  BY <1>1, <1>3
<1>5. r = [i \in 1 .. n - 1 |-> r[i]] /\ n - 1 \in Nat
  BY <1>1, <1>2
<1>6. r \in [1 .. n - 1 -> D]
  BY <1>4, <1>5
<1>7. r \in Seq(D) /\ Len(r) = n - 1
  BY <1>5, <1>6
<1> QED BY <1>3, <1>7 DEF n, r

LEMMA WithoutIs ==
    ASSUME NEW D, NEW s \in Seq(D), NEW d, Single(s)
    PROVE  /\ Without(s, d) \in Seq(D)
           /\ Single(Without(s, d))
           /\ \A e : In(Without(s, d), e) <=> In(s, e) /\ e # d
<1>1. CASE ~In(s, d)
  <2>1. Without(s, d) = s
    BY <1>1 DEF Without, In
  <2> QED BY <1>1, <2>1 DEF In
<1>2. CASE In(s, d)
  <2> DEFINE at == CHOOSE i \in DOMAIN s : s[i] = d
             n  == Len(s)
             r  == Removed(s, at)
  <2>1. at \in DOMAIN s /\ s[at] = d
    BY <1>2 DEF In
  <2>2. Without(s, d) = r
    BY <1>2 DEF Without, In
  <2>3. n \in Nat /\ DOMAIN s = 1 .. n /\ at \in 1 .. n
    BY <2>1
  <2> HIDE DEF at
  <2>4. /\ r \in Seq(D) /\ Len(r) = n - 1
        /\ \A i \in 1 .. n - 1 :
              \/ i < at /\ i \in 1 .. n /\ r[i] = s[i]
              \/ ~(i < at) /\ i + 1 \in 1 .. n /\ r[i] = s[i + 1]
    BY <2>3, RemovedIs
  <2>5. DOMAIN r = 1 .. n - 1
    BY <2>4
  <2> HIDE DEF n, r
  <2>6. \A i, j \in 1 .. n : s[i] = s[j] => i = j
    BY <2>3 DEF Single
  <2>7. ASSUME NEW i \in 1 .. n - 1, NEW j \in 1 .. n - 1, r[i] = r[j] PROVE i = j
    <3>1. CASE i < at /\ j < at
      BY <2>3, <2>4, <2>6, <2>7, <3>1
    <3>2. CASE i < at /\ ~(j < at)
      BY <2>3, <2>4, <2>6, <2>7, <3>2
    <3>3. CASE ~(i < at) /\ j < at
      BY <2>3, <2>4, <2>6, <2>7, <3>3
    <3>4. CASE ~(i < at) /\ ~(j < at)
      <4>1. r[i] = s[i + 1] /\ r[j] = s[j + 1] /\ i + 1 \in 1 .. n /\ j + 1 \in 1 .. n
        BY <2>4, <3>4
      <4>2. \A x, y \in 1 .. n : x = i + 1 /\ y = j + 1 => x = y
        BY <2>6, <2>7, <4>1
      <4>3. i + 1 = j + 1
        BY <4>1, <4>2
      <4> QED BY <2>3, <4>3
    <3> QED BY <3>1, <3>2, <3>3, <3>4
  <2>8. ASSUME NEW e, In(r, e) PROVE In(s, e) /\ e # d
    <3>1. PICK i \in 1 .. n - 1 : r[i] = e
      BY <2>5, <2>8 DEF In
    <3>2. PICK k \in 1 .. n : k # at /\ s[k] = e
      BY <2>3, <2>4, <3>1
    <3> QED BY <2>1, <2>3, <2>6, <3>2 DEF In
  <2>9. ASSUME NEW e, In(s, e), e # d PROVE In(r, e)
    <3>1. PICK k \in 1 .. n : s[k] = e
      BY <2>3, <2>9 DEF In
    <3>2. k # at
      BY <2>1, <2>9, <3>1
    <3>3. CASE k < at
      <4>1. k \in 1 .. n - 1
        BY <2>3, <3>3
      <4>2. r[k] = s[k]
        BY <2>4, <3>3, <4>1
      <4> QED BY <2>5, <3>1, <4>1, <4>2 DEF In
    <3>4. CASE ~(k < at)
      <4>1. PICK j \in 1 .. n - 1 : j + 1 = k /\ ~(j < at)
        <5>1. k - 1 \in 1 .. n - 1 /\ (k - 1) + 1 = k /\ ~(k - 1 < at)
          BY <2>3, <3>2, <3>4
        <5> QED BY <5>1
      <4>2. r[j] = s[k]
        BY <2>4, <4>1
      <4> QED BY <2>5, <3>1, <4>1, <4>2 DEF In
    <3> QED BY <3>3, <3>4
  <2>10. Single(r)
    BY <2>5, <2>7 DEF Single
  <2> QED BY <2>2, <2>4, <2>8, <2>9, <2>10
<1> QED BY <1>1, <1>2
-----------------------------------------------------------------------------
Places        == {"idle", "own", "disown", "marked", "fill", "unchain"}
ResourceType  == [kind  : Kinds \cup {"Free"},
                  owner : Owners \cup {NIL},
                  for   : Channels \cup Interrupts \cup {NIL}]
CallType      == [at : Places, res : Descriptors \cup {NIL}, for : Channels \cup {NIL}]

(* The types of what HoldInv is about.                                     *)
HoldTyped ==
    /\ resource \in [Descriptors -> ResourceType]
    /\ lists \in [Owners -> [Kinds -> Seq(Descriptors)]]
    /\ DMAallocationMap \subseteq Channels
    /\ call \in [Threads -> CallType]

HoldIs == HoldTyped /\ HoldInv

(* A thread enters a section of a call.                                    *)
Went(t, at, d, f) == call' = [call EXCEPT ![t] = [at |-> at, res |-> d, for |-> f]]

LEMMA GoesTo ==
    ASSUME HoldTyped, OneCall, NEW t \in Threads, call[t].res = NIL,
           NEW at \in Places, NEW d \in Descriptors \cup {NIL}, NEW f \in Channels \cup {NIL},
           d # NIL => ~InCall(d),
           Went(t, at, d, f)
    PROVE  /\ call' \in [Threads -> CallType] /\ OneCall'
           /\ call'[t].at = at /\ call'[t].res = d /\ call'[t].for = f
           /\ \A u \in Threads : u # t => call'[u] = call[u]
           /\ \A e \in Descriptors : InCall(e)' <=> InCall(e) \/ e = d
<1> DEFINE c == [at |-> at, res |-> d, for |-> f]
<1>1. c \in CallType /\ c.at = at /\ c.res = d /\ c.for = f
  BY DEF CallType
<1>2. call' = [call EXCEPT ![t] = c] /\ call \in [Threads -> CallType]
  BY DEF HoldTyped, Went
<1> HIDE DEF c
<1>3. /\ call' \in [Threads -> CallType] /\ call'[t] = c
      /\ \A u \in Threads : u # t => call'[u] = call[u]
  BY <1>1, <1>2
<1>4. OneCall'
  <2> SUFFICES ASSUME NEW u \in Threads, NEW v \in Threads, u # v, call'[u].res # NIL
               PROVE  call'[u].res # call'[v].res
    BY DEF OneCall
  <2>1. \A w \in Threads : d # NIL => call[w].res # d
    BY DEF InCall
  <2>2. CASE u = t
    BY <1>1, <1>3, <2>1, <2>2
  <2>3. CASE v = t
    BY <1>1, <1>3, <2>1, <2>3
  <2>4. CASE u # t /\ v # t
    BY <1>3, <2>4 DEF OneCall
  <2> QED BY <2>2, <2>3, <2>4
<1>5. ASSUME NEW e \in Descriptors PROVE InCall(e)' <=> InCall(e) \/ e = d
  BY <1>1, <1>3 DEF InCall
<1> QED BY <1>1, <1>3, <1>4, <1>5

(* A thread returns from a call.                                           *)
LEMMA Returns ==
    ASSUME HoldTyped, OneCall, NEW t \in Threads, Return(t)
    PROVE  /\ call' \in [Threads -> CallType] /\ OneCall'
           /\ call'[t].at = "idle" /\ call'[t].res = NIL
           /\ \A u \in Threads : u # t => call'[u] = call[u]
           /\ \A e \in Descriptors : InCall(e)' <=> InCall(e) /\ e # call[t].res
<1>1. NoCall \in CallType /\ NoCall.at = "idle" /\ NoCall.res = NIL
  BY DEF CallType, NoCall, Places
<1>2. call' = [call EXCEPT ![t] = NoCall] /\ call \in [Threads -> CallType]
  BY DEF HoldTyped, Return
<1>3. /\ call' \in [Threads -> CallType] /\ call'[t] = NoCall
      /\ \A u \in Threads : u # t => call'[u] = call[u]
  BY <1>1, <1>2
<1>4. OneCall'
  BY <1>1, <1>3 DEF OneCall
<1>5. ASSUME NEW e \in Descriptors PROVE InCall(e)' <=> InCall(e) /\ e # call[t].res
  BY <1>1, <1>3 DEF InCall, OneCall
<1> QED BY <1>1, <1>3, <1>4, <1>5

LEMMA Allocates ==
    ASSUME HoldTyped, NEW d \in Descriptors, NEW kind \in Kinds, NEW owner \in Owners,
           NEW for \in Channels \cup Interrupts \cup {NIL}, Allocate(d, kind, owner, for)
    PROVE  /\ resource' \in [Descriptors -> ResourceType]
           /\ resource'[d].kind = kind /\ resource'[d].owner = owner /\ resource'[d].for = for
           /\ \A e \in Descriptors : e # d => resource'[e] = resource[e]
           /\ Kind(d) = "Free" /\ ~InCall(d)
<1> DEFINE r == [kind |-> kind, owner |-> owner, for |-> for]
<1>1. r \in ResourceType /\ r.kind = kind /\ r.owner = owner /\ r.for = for
  BY DEF ResourceType
<1>2. resource' = [resource EXCEPT ![d] = r] /\ resource \in [Descriptors -> ResourceType]
  BY DEF HoldTyped, Allocate
<1> HIDE DEF r
<1>3. /\ resource' \in [Descriptors -> ResourceType] /\ resource'[d] = r
      /\ \A e \in Descriptors : e # d => resource'[e] = resource[e]
  BY <1>1, <1>2
<1>4. Kind(d) = "Free" /\ ~InCall(d)
  BY DEF Allocate, IsFree, NoResource, Kind, InCall
<1> QED BY <1>1, <1>3, <1>4

LEMMA Frees ==
    ASSUME HoldTyped, NEW d \in Descriptors, resource' = [resource EXCEPT ![d] = NoResource]
    PROVE  /\ resource' \in [Descriptors -> ResourceType] /\ resource'[d] = NoResource
           /\ resource'[d].kind = "Free"
           /\ \A e \in Descriptors : e # d => resource'[e] = resource[e]
<1>1. NoResource \in ResourceType /\ NoResource.kind = "Free"
  BY DEF ResourceType, NoResource
<1>2. resource \in [Descriptors -> ResourceType]
  BY DEF HoldTyped
<1> QED BY <1>1, <1>2

(* One list of one owner is replaced.                                      *)
Relisted(owner, kind, s) == lists' = [lists EXCEPT ![owner][kind] = s]

LEMMA Relists ==
    ASSUME HoldTyped, NEW owner \in Owners, NEW kind \in Kinds, NEW s \in Seq(Descriptors),
           Relisted(owner, kind, s)
    PROVE  /\ lists' \in [Owners -> [Kinds -> Seq(Descriptors)]]
           /\ lists'[owner][kind] = s
           /\ \A o \in Owners, k \in Kinds :
                 o # owner \/ k # kind => lists'[o][k] = lists[o][k]
<1> DEFINE l == [lists[owner] EXCEPT ![kind] = s]
           Many == [Kinds -> Seq(Descriptors)]
<1>1. lists \in [Owners -> Many] /\ lists[owner] \in Many
  BY DEF HoldTyped
<1>2. l \in Many /\ l[kind] = s /\ \A k \in Kinds : k # kind => l[k] = lists[owner][k]
  BY <1>1
<1>3. lists' = [lists EXCEPT ![owner] = l]
  BY <1>1 DEF Relisted
<1> HIDE DEF l, Many
<1>4. /\ lists' \in [Owners -> Many] /\ lists'[owner] = l
      /\ \A o \in Owners : o # owner => lists'[o] = lists[o]
  BY <1>1, <1>2, <1>3
<1> QED BY <1>2, <1>4 DEF Many

(* What HasHeld and HasCalls are the sets of.                              *)
Holds(d, c) == Kind(d) = "DMA" /\ ~InCall(d) /\ resource[d].for = c
Calls(t, c) == \/ call[t].at = "marked" /\ call[t].for = c
               \/ /\ call[t].at = "own" /\ Kind(call[t].res) = "DMA"
                  /\ resource[call[t].res].for = c

LEMMA MarksAs ==
    ASSUME NEW c
    PROVE  /\ HasHeld(c) = { d \in Descriptors : Holds(d, c) }
           /\ HasCalls(c) = { t \in Threads : Calls(t, c) }
<1>1. HasHeld(c) = { d \in Descriptors : Holds(d, c) }
  BY DEF HasHeld, Held, Holds
<1>2. HasCalls(c) = { t \in Threads : Calls(t, c) }
  BY DEF HasCalls, Calls
<1> QED BY <1>1, <1>2

LEMMA MarksSame ==
    ASSUME MarksAre, DMAallocationMap' = DMAallocationMap,
           \A c \in Channels, d \in Descriptors : Holds(d, c)' <=> Holds(d, c),
           \A c \in Channels, t \in Threads : Calls(t, c)' <=> Calls(t, c)
    PROVE  MarksAre'
<1>1. ASSUME NEW c \in Channels
      PROVE  HasHeld(c)' = HasHeld(c) /\ HasCalls(c)' = HasCalls(c)
  <2>1. HasHeld(c) = { d \in Descriptors : Holds(d, c) }
    BY MarksAs
  <2>2. HasCalls(c) = { t \in Threads : Calls(t, c) }
    BY MarksAs
  <2>3. HasHeld(c)' = { d \in Descriptors : Holds(d, c)' }
    BY DEF HasHeld, Held, Holds
  <2>4. HasCalls(c)' = { t \in Threads : Calls(t, c)' }
    BY DEF HasCalls, Calls
  <2>5. HasHeld(c)' = HasHeld(c)
    BY <2>1, <2>3
  <2>6. HasCalls(c)' = HasCalls(c)
    BY <2>2, <2>4
  <2> QED BY <2>5, <2>6
<1> QED BY <1>1 DEF MarksAre
-----------------------------------------------------------------------------
(* The steps.  Something free is taken and is to be linked.                *)
LEMMA BeginsOwning ==
    ASSUME HoldIs, NEW t \in Threads, NEW d \in Descriptors, NEW kind \in {"IO", "DMA", "Phys"},
           NEW owner \in Owners, NEW for \in Channels \cup {NIL},
           IF kind = "DMA" THEN call[t].at = "marked" /\ for = call[t].for
                           ELSE call[t].at = "idle",
           Allocate(d, kind, owner, for), Goto(t, "own", d), UNCHANGED <<lists, DMAallocationMap>>
    PROVE  HoldIs'
<1>0. HoldTyped /\ CallsAre /\ OneCall /\ ResourcesAre /\ ListsAre /\ MarksAre
  BY DEF HoldIs, HoldInv
<1>1. call[t].res = NIL /\ (kind = "DMA" => for \in Channels)
  BY <1>0 DEF CallsAre
<1>2. kind \in Kinds /\ "own" \in Places
  BY DEF Kinds, Places
<1>3. /\ resource' \in [Descriptors -> ResourceType]
      /\ resource'[d].kind = kind /\ resource'[d].owner = owner /\ resource'[d].for = for
      /\ \A e \in Descriptors : e # d => resource'[e] = resource[e]
      /\ Kind(d) = "Free" /\ ~InCall(d)
  BY <1>0, <1>2, Allocates
<1>4. /\ call' \in [Threads -> CallType] /\ OneCall'
      /\ call'[t].at = "own" /\ call'[t].res = d /\ call'[t].for = NIL
      /\ \A u \in Threads : u # t => call'[u] = call[u]
      /\ \A e \in Descriptors : InCall(e)' <=> InCall(e) \/ e = d
  <2>1. Went(t, "own", d, NIL)
    BY DEF Goto, Went
  <2>2. d \in Descriptors \cup {NIL} /\ NIL \in Channels \cup {NIL} /\ "own" \in Places
    BY <1>2
  <2> QED BY <1>0, <1>1, <1>3, <2>1, <2>2, GoesTo
<1>5. \A u \in Threads : call[u].res # d
  BY <1>3 DEF InCall
<1>6. HoldTyped'
  BY <1>0, <1>3, <1>4 DEF HoldTyped
<1>7. CallsAre'
  <2>1. ASSUME NEW u \in Threads, u # t, call[u].res \in Descriptors
        PROVE  Kind(call[u].res)' = Kind(call[u].res)
    BY <1>3, <1>4, <1>5, <2>1 DEF Kind
  <2>2. Kind(d)' = kind
    BY <1>3 DEF Kind
  <2> QED BY <1>0, <1>4, <1>5, <1>3, <2>1, <2>2 DEF CallsAre, Kind
<1>8. ResourcesAre'
  BY <1>0, <1>1, <1>3 DEF ResourcesAre, Kind
<1>9. ListsAre'
  <2>1. \A e \in Descriptors : e # d => (Owning(e)' <=> Owning(e))
    BY <1>4, <1>1 DEF Owning
  <2>2. Owning(d)'
    BY <1>4 DEF Owning
  <2>3. \A o \in Owners, k \in Kinds : ~In(lists[o][k], d)
    BY <1>0, <1>3 DEF ListsAre, Kinds
  <2>4. \A e \in Descriptors : e # d => Kind(e)' = Kind(e) /\ resource'[e].owner = resource[e].owner
    BY <1>3 DEF Kind
  <2>5. ASSUME NEW o \in Owners, NEW k \in Kinds, NEW e \in Descriptors
        PROVE  In(lists[o][k], e) <=> Kind(e)' = k /\ resource'[e].owner = o /\ ~Owning(e)'
    <3>1. In(lists[o][k], e) <=> Kind(e) = k /\ resource[e].owner = o /\ ~Owning(e)
      BY <1>0 DEF ListsAre
    <3> QED BY <2>1, <2>2, <2>3, <2>4, <3>1
  <2>6. \A o \in Owners, k \in Kinds : Single(lists[o][k])
    BY <1>0 DEF ListsAre
  <2>7. lists' = lists
    OBVIOUS
  <2> QED BY <2>5, <2>6, <2>7 DEF ListsAre
<1>10. MarksAre'
  <2>1. ASSUME NEW c \in Channels, NEW e \in Descriptors PROVE Holds(e, c)' <=> Holds(e, c)
    BY <1>3, <1>4 DEF Holds, Kind
  <2>2. ASSUME NEW c \in Channels, NEW u \in Threads PROVE Calls(u, c)' <=> Calls(u, c)
    <3>1. CASE u # t
      BY <1>0, <1>3, <1>4, <1>5, <3>1 DEF Calls, Kind, CallsAre
    <3>2. CASE u = t
      BY <1>3, <1>4, <3>2 DEF Calls, Kind
    <3> QED BY <3>1, <3>2
  <2> QED BY <1>0, <2>1, <2>2, MarksSame
<1> QED BY <1>4, <1>6, <1>7, <1>8, <1>9, <1>10 DEF HoldIs, HoldInv

LEMMA OwnKeeps ==
    ASSUME HoldIs, NEW t \in Threads, Own(t)
    PROVE  HoldIs'
<1> DEFINE d == call[t].res
           owner == resource[d].owner
           kind  == Kind(d)
<1>0. HoldTyped /\ CallsAre /\ OneCall /\ ResourcesAre /\ ListsAre /\ MarksAre
  BY DEF HoldIs, HoldInv
<1>1. d \in Descriptors /\ kind \in {"IO", "DMA", "Phys"} /\ call[t].at = "own"
  BY <1>0 DEF CallsAre, Own
<1>2. owner \in Owners /\ kind \in Kinds
  BY <1>0, <1>1 DEF ResourcesAre, Kinds
<1>3. /\ lists' = [lists EXCEPT ![owner][kind] = Append(lists[owner][kind], d)]
      /\ Return(t) /\ resource' = resource /\ DMAallocationMap' = DMAallocationMap
  BY DEF Own, Link
<1>4. lists[owner][kind] \in Seq(Descriptors) /\ Single(lists[owner][kind])
  BY <1>0, <1>2 DEF HoldTyped, ListsAre
<1>5. Owning(d) /\ ~In(lists[owner][kind], d)
  BY <1>0, <1>1, <1>2 DEF Owning, ListsAre
<1> DEFINE new == Append(lists[owner][kind], d)
<1>6. /\ new \in Seq(Descriptors) /\ Single(new)
      /\ \A e : In(new, e) <=> In(lists[owner][kind], e) \/ e = d
  <2> DEFINE old == lists[owner][kind]
  <2>1. old \in Seq(Descriptors) /\ d \in Descriptors /\ Single(old) /\ ~In(old, d)
    BY <1>1, <1>4, <1>5
  <2> HIDE DEF old, d
  <2>2. /\ Append(old, d) \in Seq(Descriptors) /\ Single(Append(old, d))
        /\ \A e : In(Append(old, d), e) <=> In(old, e) \/ e = d
    BY <2>1, AppendIs
  <2> QED BY <2>2 DEF old
<1>7. /\ call' \in [Threads -> CallType] /\ OneCall'
      /\ call'[t].at = "idle" /\ call'[t].res = NIL
      /\ \A u \in Threads : u # t => call'[u] = call[u]
      /\ \A e \in Descriptors : InCall(e)' <=> InCall(e) /\ e # d
  BY <1>0, <1>3, Returns
<1> HIDE DEF new, owner, kind, d
<1>8. /\ lists' \in [Owners -> [Kinds -> Seq(Descriptors)]]
      /\ lists'[owner][kind] = new
      /\ \A o \in Owners, k \in Kinds : o # owner \/ k # kind => lists'[o][k] = lists[o][k]
  <2>1. Relisted(owner, kind, new)
    BY <1>3 DEF Relisted, new
  <2> QED BY <1>0, <1>2, <1>6, <2>1, Relists
<1>9. \A u \in Threads : u # t => call[u].res # d
  BY <1>0, <1>1 DEF OneCall, d
<1>10. HoldTyped'
  BY <1>0, <1>3, <1>7, <1>8 DEF HoldTyped
<1>11. CallsAre'
  BY <1>0, <1>3, <1>7 DEF CallsAre, Kind
<1>12. ResourcesAre'
  BY <1>0, <1>3 DEF ResourcesAre, Kind
<1>13. ListsAre'
  <2>1. \A e \in Descriptors : Owning(e)' <=> Owning(e) /\ e # d
    BY <1>1, <1>7, <1>9 DEF Owning, d
  <2>2. ASSUME NEW o \in Owners, NEW k \in Kinds
        PROVE  /\ Single(lists'[o][k])
               /\ \A e \in Descriptors :
                     In(lists'[o][k], e) <=> Kind(e) = k /\ resource[e].owner = o /\ ~Owning(e)'
    <3>1. /\ Single(lists[o][k])
          /\ \A e \in Descriptors :
                In(lists[o][k], e) <=> Kind(e) = k /\ resource[e].owner = o /\ ~Owning(e)
      BY <1>0 DEF ListsAre
    <3>2. Kind(d) = kind /\ resource[d].owner = owner /\ Owning(d)
      BY <1>5 DEF kind, owner
    <3>3. CASE o = owner /\ k = kind
      BY <1>6, <1>8, <2>1, <3>1, <3>2, <3>3
    <3>4. CASE ~(o = owner /\ k = kind)
      BY <1>8, <2>1, <3>1, <3>2, <3>4
    <3> QED BY <3>3, <3>4
  <2> QED BY <1>3, <2>2 DEF ListsAre, Kind
<1>14. MarksAre'
  <2>1. CASE kind # "DMA"
    <3>1. ASSUME NEW c \in Channels, NEW e \in Descriptors PROVE Holds(e, c)' <=> Holds(e, c)
      BY <1>3, <1>7, <2>1 DEF Holds, Kind, kind
    <3>2. ASSUME NEW c \in Channels, NEW u \in Threads PROVE Calls(u, c)' <=> Calls(u, c)
      BY <1>1, <1>3, <1>7, <2>1 DEF Calls, Kind, kind, d
    <3> QED BY <1>0, <1>3, <3>1, <3>2, MarksSame
  <2>2. CASE kind = "DMA"
    <3> DEFINE f == resource[d].for
    <3>1. ASSUME NEW c \in Channels, NEW e \in Descriptors
          PROVE  Holds(e, c)' <=> Holds(e, c) \/ (e = d /\ c = f)
      <4>1. InCall(d)
        BY <1>1 DEF InCall, d
      <4> QED BY <1>3, <1>7, <2>2, <4>1 DEF Holds, Kind, kind
    <3>2. ASSUME NEW c \in Channels, NEW u \in Threads
          PROVE  Calls(u, c)' <=> Calls(u, c) /\ u # t
      BY <1>1, <1>3, <1>7 DEF Calls, Kind
    <3>3. ASSUME NEW c \in Channels PROVE Calls(t, c) <=> c = f
      BY <1>1, <2>2 DEF Calls, kind, d
    <3>4. ASSUME NEW c \in Channels
          PROVE  /\ \A e \in Descriptors : e \in HasHeld(c)' <=> e \in HasHeld(c) \/ (e = d /\ c = f)
                 /\ \A u \in Threads : u \in HasCalls(c)' <=> u \in HasCalls(c) /\ u # t
                 /\ t \in HasCalls(c) <=> c = f
                 /\ HasHeld(c)' \subseteq Descriptors /\ HasCalls(c)' \subseteq Threads
      <4>1. HasHeld(c)' = { e \in Descriptors : Holds(e, c)' }
        BY DEF HasHeld, Held, Holds
      <4>2. HasCalls(c)' = { u \in Threads : Calls(u, c)' }
        BY DEF HasCalls, Calls
      <4> QED BY <3>1, <3>2, <3>3, <4>1, <4>2, MarksAs
    <3>5. ASSUME NEW c \in Channels
          PROVE  /\ \A x, y \in HasHeld(c) : x = y
                 /\ \A u, v \in HasCalls(c) : u = v
                 /\ HasHeld(c) = {} \/ HasCalls(c) = {}
                 /\ c \in DMAallocationMap <=> HasHeld(c) # {} \/ HasCalls(c) # {}
                 /\ HasHeld(c) \subseteq Descriptors /\ HasCalls(c) \subseteq Threads
      BY <1>0, MarksAs DEF MarksAre
    <3> HIDE DEF f
    <3>6. ASSUME NEW c \in Channels
          PROVE  /\ \A x, y \in HasHeld(c)' : x = y
                 /\ \A u, v \in HasCalls(c)' : u = v
                 /\ HasHeld(c)' = {} \/ HasCalls(c)' = {}
                 /\ c \in DMAallocationMap <=> HasHeld(c)' # {} \/ HasCalls(c)' # {}
      <4>1. CASE c # f
        <5>1. HasHeld(c)' = HasHeld(c)
          BY <3>4, <3>5, <4>1
        <5>2. HasCalls(c)' = HasCalls(c)
          BY <3>4, <3>5, <4>1
        <5> QED BY <3>5, <5>1, <5>2
      <4>2. CASE c = f
        <5>1. HasCalls(c) = {t} /\ HasHeld(c) = {}
          BY <3>4, <3>5, <4>2
        <5>2. HasHeld(c)' = {d}
          BY <1>1, <3>4, <4>2, <5>1
        <5>3. HasCalls(c)' = {}
          BY <3>4, <5>1
        <5> QED BY <3>5, <5>1, <5>2, <5>3
      <4> QED BY <4>1, <4>2
    <3> QED BY <1>3, <3>6 DEF MarksAre
  <2> QED BY <2>1, <2>2
<1> QED BY <1>7, <1>10, <1>11, <1>12, <1>13, <1>14 DEF HoldIs, HoldInv
(* Something is to be freed.                                               *)
LEMMA BeginsFreeing ==
    ASSUME HoldIs, NEW t \in Threads, Idle(t), NEW kind \in Kinds, NEW d \in Held(kind),
           NEW at \in {"disown", "unchain"}, at = "unchain" <=> kind = "Trap", Goto(t, at, d),
           DMAallocationMap' = IF kind = "DMA" THEN DMAallocationMap \ {resource[d].for}
                                               ELSE DMAallocationMap,
           UNCHANGED <<resource, lists>>
    PROVE  HoldIs'
<1>0. HoldTyped /\ CallsAre /\ OneCall /\ ResourcesAre /\ ListsAre /\ MarksAre
  BY DEF HoldIs, HoldInv
<1>1. d \in Descriptors /\ Kind(d) = kind /\ ~InCall(d)
  BY DEF Held
<1>2. call[t].at = "idle" /\ call[t].res = NIL /\ at \in Places
  BY DEF Idle, NoCall, Places
<1>3. /\ call' \in [Threads -> CallType] /\ OneCall'
      /\ call'[t].at = at /\ call'[t].res = d /\ call'[t].for = NIL
      /\ \A u \in Threads : u # t => call'[u] = call[u]
      /\ \A e \in Descriptors : InCall(e)' <=> InCall(e) \/ e = d
  <2>1. Went(t, at, d, NIL)
    BY DEF Goto, Went
  <2>2. d \in Descriptors \cup {NIL} /\ NIL \in Channels \cup {NIL}
    BY <1>1
  <2> QED BY <1>0, <1>1, <1>2, <2>1, <2>2, GoesTo
<1>4. resource' = resource /\ lists' = lists
  OBVIOUS
<1>5. HoldTyped'
  BY <1>0, <1>3, <1>4 DEF HoldTyped
<1>6. CallsAre'
  BY <1>0, <1>1, <1>3, <1>4 DEF CallsAre, Kind, Kinds
<1>7. ResourcesAre'
  BY <1>0, <1>4 DEF ResourcesAre, Kind
<1>8. ListsAre'
  <2>1. \A e \in Descriptors : Owning(e)' <=> Owning(e)
    BY <1>2, <1>3 DEF Owning
  <2> QED BY <1>0, <1>4, <2>1 DEF ListsAre, Kind
<1>9. MarksAre'
  <2>1. ASSUME NEW c \in Channels, NEW u \in Threads PROVE Calls(u, c)' <=> Calls(u, c)
    BY <1>2, <1>3, <1>4 DEF Calls, Kind
  <2>2. CASE kind # "DMA"
    <3>1. ASSUME NEW c \in Channels, NEW e \in Descriptors PROVE Holds(e, c)' <=> Holds(e, c)
      BY <1>1, <1>3, <1>4, <2>2 DEF Holds, Kind
    <3> QED BY <1>0, <2>1, <2>2, <3>1, MarksSame
  <2>3. CASE kind = "DMA"
    <3> DEFINE f == resource[d].for
    <3>1. ASSUME NEW c \in Channels, NEW e \in Descriptors
          PROVE  /\ Holds(e, c)' <=> Holds(e, c) /\ e # d
                 /\ Holds(d, c) <=> c = f
      BY <1>1, <1>3, <1>4, <2>3 DEF Holds, Kind
    <3>2. DMAallocationMap' = DMAallocationMap \ {f}
      BY <2>3
    <3> HIDE DEF f
    <3>3. ASSUME NEW c \in Channels
          PROVE  /\ \A x, y \in HasHeld(c)' : x = y
                 /\ \A u, v \in HasCalls(c)' : u = v
                 /\ HasHeld(c)' = {} \/ HasCalls(c)' = {}
                 /\ c \in DMAallocationMap' <=> HasHeld(c)' # {} \/ HasCalls(c)' # {}
      <4>1. /\ HasHeld(c)' = { e \in Descriptors : Holds(e, c)' }
            /\ HasHeld(c) = { e \in Descriptors : Holds(e, c) }
        BY MarksAs DEF HasHeld, Held, Holds
      <4>2. HasHeld(c)' = HasHeld(c) \ {d} /\ (d \in HasHeld(c) <=> c = f)
        BY <1>1, <3>1, <4>1
      <4>3. HasCalls(c)' = HasCalls(c)
        <5>1. HasCalls(c)' = { u \in Threads : Calls(u, c)' }
          BY DEF HasCalls, Calls
        <5>2. HasCalls(c) = { u \in Threads : Calls(u, c) }
          BY MarksAs
        <5> QED BY <2>1, <5>1, <5>2
      <4>4. /\ \A x, y \in HasHeld(c) : x = y
            /\ \A u, v \in HasCalls(c) : u = v
            /\ HasHeld(c) = {} \/ HasCalls(c) = {}
            /\ c \in DMAallocationMap <=> HasHeld(c) # {} \/ HasCalls(c) # {}
        BY <1>0 DEF MarksAre
      <4>5. CASE c = f
        BY <3>2, <4>2, <4>3, <4>4, <4>5
      <4>6. CASE c # f
        BY <3>2, <4>2, <4>3, <4>4, <4>6
      <4> QED BY <4>5, <4>6
    <3> QED BY <3>3 DEF MarksAre
  <2> QED BY <2>2, <2>3
<1> QED BY <1>3, <1>5, <1>6, <1>7, <1>8, <1>9 DEF HoldIs, HoldInv

(* Something leaves the list of its owner and is free.                     *)
LEMMA EndsFreeing ==
    ASSUME HoldIs, NEW t \in Threads, NEW d \in Descriptors,
           call[t].at \in {"disown", "unchain"}, d = call[t].res,
           Unlink(resource[d].owner, Kind(d), d),
           resource' = [resource EXCEPT ![d] = NoResource], Return(t), UNCHANGED DMAallocationMap
    PROVE  HoldIs'
<1> DEFINE owner == resource[d].owner
           kind  == Kind(d)
<1>0. HoldTyped /\ CallsAre /\ OneCall /\ ResourcesAre /\ ListsAre /\ MarksAre
  BY DEF HoldIs, HoldInv
<1>1. kind \in Kinds /\ kind # "Free" /\ owner \in Owners
  BY <1>0 DEF CallsAre, ResourcesAre, Kinds
<1>2. lists' = [lists EXCEPT ![owner][kind] = Without(lists[owner][kind], d)]
  BY DEF Unlink
<1>3. /\ resource' \in [Descriptors -> ResourceType] /\ resource'[d] = NoResource
      /\ resource'[d].kind = "Free"
      /\ \A e \in Descriptors : e # d => resource'[e] = resource[e]
  BY <1>0, Frees
<1>4. /\ call' \in [Threads -> CallType] /\ OneCall'
      /\ call'[t].at = "idle" /\ call'[t].res = NIL
      /\ \A u \in Threads : u # t => call'[u] = call[u]
      /\ \A e \in Descriptors : InCall(e)' <=> InCall(e) /\ e # d
  BY <1>0, Returns
<1>5. \A u \in Threads : u # t => call[u].res # d
  BY <1>0 DEF OneCall
<1>6. InCall(d) /\ ~Owning(d)
  BY <1>5 DEF InCall, Owning
<1> DEFINE old == lists[owner][kind]
           new == Without(old, d)
<1>7. old \in Seq(Descriptors) /\ Single(old)
  BY <1>0, <1>1 DEF HoldTyped, ListsAre
<1> HIDE DEF old, owner, kind
<1>8. /\ new \in Seq(Descriptors) /\ Single(new)
      /\ \A e : In(new, e) <=> In(old, e) /\ e # d
  BY <1>7, WithoutIs
<1> HIDE DEF new
<1>9. /\ lists' \in [Owners -> [Kinds -> Seq(Descriptors)]]
      /\ lists'[owner][kind] = new
      /\ \A o \in Owners, k \in Kinds : o # owner \/ k # kind => lists'[o][k] = lists[o][k]
  <2>1. Relisted(owner, kind, new)
    BY <1>2 DEF Relisted, new, old
  <2> QED BY <1>0, <1>1, <1>8, <2>1, Relists
<1>10. HoldTyped'
  BY <1>0, <1>3, <1>4, <1>9 DEF HoldTyped
<1>11. CallsAre'
  <2>1. ASSUME NEW u \in Threads, u # t, call[u].res \in Descriptors
        PROVE  Kind(call[u].res)' = Kind(call[u].res)
    BY <1>3, <1>4, <1>5, <2>1 DEF Kind
  <2> QED BY <1>0, <1>4, <2>1 DEF CallsAre
<1>12. ResourcesAre'
  BY <1>0, <1>3 DEF ResourcesAre, Kind
<1>13. ListsAre'
  <2>1. \A e \in Descriptors : Owning(e)' <=> Owning(e)
    BY <1>4, <1>6 DEF Owning
  <2>2. \A e \in Descriptors : e # d => Kind(e)' = Kind(e) /\ resource'[e].owner = resource[e].owner
    BY <1>3 DEF Kind
  <2>3. Kind(d)' = "Free" /\ Kind(d) = kind /\ resource[d].owner = owner
    BY <1>3 DEF Kind, kind, owner
  <2>4. ASSUME NEW o \in Owners, NEW k \in Kinds
        PROVE  /\ Single(lists'[o][k])
               /\ \A e \in Descriptors :
                     In(lists'[o][k], e) <=> Kind(e)' = k /\ resource'[e].owner = o /\ ~Owning(e)'
    <3>1. /\ Single(lists[o][k])
          /\ \A e \in Descriptors :
                In(lists[o][k], e) <=> Kind(e) = k /\ resource[e].owner = o /\ ~Owning(e)
      BY <1>0 DEF ListsAre
    <3>2. k # "Free"
      BY DEF Kinds
    <3>3. CASE o = owner /\ k = kind
      BY <1>8, <1>9, <2>1, <2>2, <2>3, <3>1, <3>2, <3>3 DEF old
    <3>4. CASE ~(o = owner /\ k = kind)
      BY <1>9, <2>1, <2>2, <2>3, <3>1, <3>2, <3>4
    <3> QED BY <3>3, <3>4
  <2> QED BY <2>4 DEF ListsAre
<1>14. MarksAre'
  <2>1. ASSUME NEW c \in Channels, NEW e \in Descriptors PROVE Holds(e, c)' <=> Holds(e, c)
    BY <1>3, <1>4, <1>6 DEF Holds, Kind
  <2>2. ASSUME NEW c \in Channels, NEW u \in Threads PROVE Calls(u, c)' <=> Calls(u, c)
    <3>1. CASE u # t
      <4>1. call'[u] = call[u] /\ (call[u].at = "own" => call[u].res \in Descriptors \ {d})
        BY <1>0, <1>4, <1>5, <3>1 DEF CallsAre
      <4>2. call[u].at = "own" => Kind(call[u].res)' = Kind(call[u].res)
                                  /\ resource'[call[u].res] = resource[call[u].res]
        BY <1>3, <4>1 DEF Kind
      <4> QED BY <4>1, <4>2 DEF Calls
    <3>2. CASE u = t
      BY <1>4, <3>2 DEF Calls
    <3> QED BY <3>1, <3>2
  <2> QED BY <1>0, <2>1, <2>2, MarksSame
<1> QED BY <1>4, <1>10, <1>11, <1>12, <1>13, <1>14 DEF HoldIs, HoldInv
(* A channel is marked; and it is given back if there is no memory.        *)
LEMMA MarkKeeps ==
    ASSUME HoldIs, NEW t \in Threads, NEW channel \in 0 .. DMACHANNELS, CKallocDMA(t, channel)
    PROVE  HoldIs'
<1>0. HoldTyped /\ CallsAre /\ OneCall /\ ResourcesAre /\ ListsAre /\ MarksAre
  BY DEF HoldIs, HoldInv
<1>1. /\ call[t].at = "idle" /\ call[t].res = NIL /\ channel \in Channels
      /\ channel \notin DMAallocationMap /\ DMAallocationMap' = DMAallocationMap \cup {channel}
      /\ resource' = resource /\ lists' = lists
  BY DEF CKallocDMA, Idle, NoCall, Channels
<1>2. /\ call' \in [Threads -> CallType] /\ OneCall'
      /\ call'[t].at = "marked" /\ call'[t].res = NIL /\ call'[t].for = channel
      /\ \A u \in Threads : u # t => call'[u] = call[u]
      /\ \A e \in Descriptors : InCall(e)' <=> InCall(e) \/ e = NIL
  <2>1. Went(t, "marked", NIL, channel)
    BY DEF CKallocDMA, Went
  <2>2. NIL \in Descriptors \cup {NIL} /\ channel \in Channels \cup {NIL} /\ "marked" \in Places
    BY <1>1 DEF Places
  <2> QED BY <1>0, <1>1, <2>1, <2>2, GoesTo
<1>3. HoldTyped'
  BY <1>0, <1>1, <1>2 DEF HoldTyped
<1>4. CallsAre'
  BY <1>0, <1>1, <1>2 DEF CallsAre, Kind
<1>5. ResourcesAre'
  BY <1>0, <1>1 DEF ResourcesAre, Kind
<1>6. ListsAre'
  <2>1. \A e \in Descriptors : Owning(e)' <=> Owning(e)
    BY <1>1, <1>2 DEF Owning
  <2> QED BY <1>0, <1>1, <2>1 DEF ListsAre, Kind
<1>7. ASSUME NEW c \in Channels
      PROVE  /\ \A x, y \in HasHeld(c)' : x = y
             /\ \A u, v \in HasCalls(c)' : u = v
             /\ HasHeld(c)' = {} \/ HasCalls(c)' = {}
             /\ c \in DMAallocationMap' <=> HasHeld(c)' # {} \/ HasCalls(c)' # {}
  <2>1. \A e \in Descriptors : Holds(e, c)' <=> Holds(e, c)
    BY <1>1, <1>2 DEF Holds, Kind
  <2>2. \A u \in Threads : Calls(u, c)' <=> Calls(u, c) \/ (u = t /\ c = channel)
    BY <1>1, <1>2 DEF Calls, Kind
  <2>3. /\ HasHeld(c)' = { e \in Descriptors : Holds(e, c)' }
        /\ HasCalls(c)' = { u \in Threads : Calls(u, c)' }
    BY DEF HasHeld, Held, Holds, HasCalls, Calls
  <2>4. HasHeld(c)' = HasHeld(c)
    BY <2>1, <2>3, MarksAs
  <2>5. HasCalls(c)' = HasCalls(c) \cup (IF c = channel THEN {t} ELSE {})
    BY <2>2, <2>3, MarksAs
  <2>6. /\ \A x, y \in HasHeld(c) : x = y
        /\ \A u, v \in HasCalls(c) : u = v
        /\ HasHeld(c) = {} \/ HasCalls(c) = {}
        /\ c \in DMAallocationMap <=> HasHeld(c) # {} \/ HasCalls(c) # {}
    BY <1>0 DEF MarksAre
  <2>7. CASE c = channel
    BY <1>1, <2>4, <2>5, <2>6, <2>7
  <2>8. CASE c # channel
    BY <1>1, <2>4, <2>5, <2>6, <2>8
  <2> QED BY <2>7, <2>8
<1> QED BY <1>2, <1>3, <1>4, <1>5, <1>6, <1>7 DEF HoldIs, HoldInv, MarksAre

LEMMA UnmarkKeeps ==
    ASSUME HoldIs, NEW t \in Threads, NoMemoryForDMA(t)
    PROVE  HoldIs'
<1> DEFINE channel == call[t].for
<1>0. HoldTyped /\ CallsAre /\ OneCall /\ ResourcesAre /\ ListsAre /\ MarksAre
  BY DEF HoldIs, HoldInv
<1>1. /\ call[t].at = "marked" /\ call[t].res = NIL
      /\ DMAallocationMap' = DMAallocationMap \ {channel}
      /\ resource' = resource /\ lists' = lists
  BY <1>0 DEF NoMemoryForDMA, CallsAre
<1>2. /\ call' \in [Threads -> CallType] /\ OneCall'
      /\ call'[t].at = "idle" /\ call'[t].res = NIL
      /\ \A u \in Threads : u # t => call'[u] = call[u]
      /\ \A e \in Descriptors : InCall(e)' <=> InCall(e) /\ e # call[t].res
  BY <1>0, Returns DEF NoMemoryForDMA
<1>3. HoldTyped'
  BY <1>0, <1>1, <1>2 DEF HoldTyped
<1>4. CallsAre'
  BY <1>0, <1>1, <1>2 DEF CallsAre, Kind
<1>5. ResourcesAre'
  BY <1>0, <1>1 DEF ResourcesAre, Kind
<1>6. ListsAre'
  <2>1. \A e \in Descriptors : Owning(e)' <=> Owning(e)
    BY <1>1, <1>2 DEF Owning
  <2> QED BY <1>0, <1>1, <2>1 DEF ListsAre, Kind
<1>7. ASSUME NEW c \in Channels
      PROVE  /\ \A x, y \in HasHeld(c)' : x = y
             /\ \A u, v \in HasCalls(c)' : u = v
             /\ HasHeld(c)' = {} \/ HasCalls(c)' = {}
             /\ c \in DMAallocationMap' <=> HasHeld(c)' # {} \/ HasCalls(c)' # {}
  <2>1. \A e \in Descriptors : Holds(e, c)' <=> Holds(e, c)
    BY <1>1, <1>2 DEF Holds, Kind
  <2>2. /\ \A u \in Threads : Calls(u, c)' <=> Calls(u, c) /\ u # t
        /\ Calls(t, c) <=> c = channel
    BY <1>1, <1>2 DEF Calls, Kind
  <2>3. /\ HasHeld(c)' = { e \in Descriptors : Holds(e, c)' }
        /\ HasCalls(c)' = { u \in Threads : Calls(u, c)' }
    BY DEF HasHeld, Held, Holds, HasCalls, Calls
  <2>4. HasHeld(c)' = HasHeld(c)
    BY <2>1, <2>3, MarksAs
  <2>5. HasCalls(c)' = HasCalls(c) \ {t} /\ (t \in HasCalls(c) <=> c = channel)
    BY <2>2, <2>3, MarksAs
  <2>6. /\ \A x, y \in HasHeld(c) : x = y
        /\ \A u, v \in HasCalls(c) : u = v
        /\ HasHeld(c) = {} \/ HasCalls(c) = {}
        /\ c \in DMAallocationMap <=> HasHeld(c) # {} \/ HasCalls(c) # {}
    BY <1>0 DEF MarksAre
  <2>7. CASE c = channel
    BY <1>1, <2>4, <2>5, <2>6, <2>7
  <2>8. CASE c # channel
    BY <1>1, <2>4, <2>5, <2>6, <2>8
  <2> QED BY <2>7, <2>8
<1> QED BY <1>2, <1>3, <1>4, <1>5, <1>6, <1>7 DEF HoldIs, HoldInv, MarksAre

(* An interrupt is allocated and linked at once, and is filled in.         *)
LEMMA TrapKeeps ==
    ASSUME HoldIs, NEW t \in Threads, NEW d \in Descriptors, NEW owner \in Owners,
           NEW n \in Interrupts, CKallocTrap(t, d, owner, n)
    PROVE  HoldIs'
<1>0. HoldTyped /\ CallsAre /\ OneCall /\ ResourcesAre /\ ListsAre /\ MarksAre
  BY DEF HoldIs, HoldInv
<1>1. call[t].at = "idle" /\ call[t].res = NIL /\ DMAallocationMap' = DMAallocationMap
  BY DEF CKallocTrap, Idle, NoCall
<1>2. "Trap" \in Kinds /\ "fill" \in Places
  BY DEF Kinds, Places
<1>3. /\ resource' \in [Descriptors -> ResourceType]
      /\ resource'[d].kind = "Trap" /\ resource'[d].owner = owner /\ resource'[d].for = n
      /\ \A e \in Descriptors : e # d => resource'[e] = resource[e]
      /\ Kind(d) = "Free" /\ ~InCall(d)
  BY <1>0, <1>2, Allocates DEF CKallocTrap
<1>4. /\ call' \in [Threads -> CallType] /\ OneCall'
      /\ call'[t].at = "fill" /\ call'[t].res = d /\ call'[t].for = NIL
      /\ \A u \in Threads : u # t => call'[u] = call[u]
      /\ \A e \in Descriptors : InCall(e)' <=> InCall(e) \/ e = d
  <2>1. Went(t, "fill", d, NIL)
    BY DEF CKallocTrap, Goto, Went
  <2>2. d \in Descriptors \cup {NIL} /\ NIL \in Channels \cup {NIL}
    OBVIOUS
  <2> QED BY <1>0, <1>1, <1>2, <1>3, <2>1, <2>2, GoesTo
<1>5. \A u \in Threads : call[u].res # d
  BY <1>3 DEF InCall
<1> DEFINE old == lists[owner]["Trap"]
           new == Append(old, d)
<1>6. old \in Seq(Descriptors) /\ Single(old) /\ ~In(old, d)
  BY <1>0, <1>2, <1>3 DEF HoldTyped, ListsAre
<1>7. Relisted(owner, "Trap", new)
  BY DEF CKallocTrap, Link, Relisted
<1> HIDE DEF old
<1>8. /\ new \in Seq(Descriptors) /\ Single(new)
      /\ \A e : In(new, e) <=> In(old, e) \/ e = d
  BY <1>6, AppendIs
<1> HIDE DEF new
<1>9. /\ lists' \in [Owners -> [Kinds -> Seq(Descriptors)]]
      /\ lists'[owner]["Trap"] = new
      /\ \A o \in Owners, k \in Kinds : o # owner \/ k # "Trap" => lists'[o][k] = lists[o][k]
  BY <1>0, <1>2, <1>7, <1>8, Relists
<1>10. HoldTyped'
  BY <1>0, <1>1, <1>3, <1>4, <1>9 DEF HoldTyped
<1>11. CallsAre'
  <2>1. ASSUME NEW u \in Threads, u # t, call[u].res \in Descriptors
        PROVE  Kind(call[u].res)' = Kind(call[u].res)
    BY <1>3, <1>4, <1>5, <2>1 DEF Kind
  <2>2. Kind(d)' = "Trap"
    BY <1>3 DEF Kind
  <2> QED BY <1>0, <1>3, <1>4, <1>5, <2>1, <2>2 DEF CallsAre, Kind
<1>12. ResourcesAre'
  BY <1>0, <1>1, <1>3 DEF ResourcesAre, Kind
<1>13. ListsAre'
  <2>1. \A e \in Descriptors : Owning(e)' <=> Owning(e)
    BY <1>1, <1>4 DEF Owning
  <2>2. ~Owning(d)
    BY <1>5 DEF Owning
  <2>3. \A e \in Descriptors : e # d => Kind(e)' = Kind(e) /\ resource'[e].owner = resource[e].owner
    BY <1>3 DEF Kind
  <2>4. Kind(d)' = "Trap" /\ resource'[d].owner = owner
    BY <1>3 DEF Kind
  <2>5. ASSUME NEW o \in Owners, NEW k \in Kinds
        PROVE  /\ Single(lists'[o][k])
               /\ \A e \in Descriptors :
                     In(lists'[o][k], e) <=> Kind(e)' = k /\ resource'[e].owner = o /\ ~Owning(e)'
    <3>1. /\ Single(lists[o][k])
          /\ \A e \in Descriptors :
                In(lists[o][k], e) <=> Kind(e) = k /\ resource[e].owner = o /\ ~Owning(e)
      BY <1>0 DEF ListsAre
    <3>2. Kind(d) # k
      BY <1>3 DEF Kinds
    <3>3. CASE o = owner /\ k = "Trap"
      BY <1>8, <1>9, <2>1, <2>2, <2>3, <2>4, <3>1, <3>3 DEF old
    <3>4. CASE ~(o = owner /\ k = "Trap")
      BY <1>9, <2>1, <2>2, <2>3, <2>4, <3>1, <3>2, <3>4
    <3> QED BY <3>3, <3>4
  <2> QED BY <2>5 DEF ListsAre
<1>14. MarksAre'
  <2>1. ASSUME NEW c \in Channels, NEW e \in Descriptors PROVE Holds(e, c)' <=> Holds(e, c)
    BY <1>3, <1>4 DEF Holds, Kind
  <2>2. ASSUME NEW c \in Channels, NEW u \in Threads PROVE Calls(u, c)' <=> Calls(u, c)
    <3>1. CASE u # t
      BY <1>0, <1>3, <1>4, <1>5, <3>1 DEF Calls, Kind, CallsAre
    <3>2. CASE u = t
      BY <1>1, <1>4, <3>2 DEF Calls
    <3> QED BY <3>1, <3>2
  <2> QED BY <1>0, <1>1, <2>1, <2>2, MarksSame
<1> QED BY <1>4, <1>10, <1>11, <1>12, <1>13, <1>14 DEF HoldIs, HoldInv

LEMMA FillKeeps ==
    ASSUME HoldIs, NEW t \in Threads, FillTrap(t)
    PROVE  HoldIs'
<1>0. HoldTyped /\ CallsAre /\ OneCall /\ ResourcesAre /\ ListsAre /\ MarksAre
  BY DEF HoldIs, HoldInv
<1>1. /\ call[t].at = "fill" /\ resource' = resource /\ lists' = lists
      /\ DMAallocationMap' = DMAallocationMap
  BY DEF FillTrap
<1>2. /\ call' \in [Threads -> CallType] /\ OneCall'
      /\ call'[t].at = "idle" /\ call'[t].res = NIL
      /\ \A u \in Threads : u # t => call'[u] = call[u]
      /\ \A e \in Descriptors : InCall(e)' <=> InCall(e) /\ e # call[t].res
  BY <1>0, Returns DEF FillTrap
<1>3. HoldTyped'
  BY <1>0, <1>1, <1>2 DEF HoldTyped
<1>4. CallsAre'
  BY <1>0, <1>1, <1>2 DEF CallsAre, Kind
<1>5. ResourcesAre'
  BY <1>0, <1>1 DEF ResourcesAre, Kind
<1>6. ListsAre'
  <2>1. \A e \in Descriptors : Owning(e)' <=> Owning(e)
    BY <1>1, <1>2 DEF Owning
  <2> QED BY <1>0, <1>1, <2>1 DEF ListsAre, Kind
<1>7. MarksAre'
  <2>1. Kind(call[t].res) = "Trap"
    BY <1>0, <1>1 DEF CallsAre
  <2>2. ASSUME NEW c \in Channels, NEW e \in Descriptors PROVE Holds(e, c)' <=> Holds(e, c)
    BY <1>1, <1>2, <2>1 DEF Holds, Kind
  <2>3. ASSUME NEW c \in Channels, NEW u \in Threads PROVE Calls(u, c)' <=> Calls(u, c)
    BY <1>1, <1>2 DEF Calls, Kind
  <2> QED BY <1>0, <1>1, <2>2, <2>3, MarksSame
<1> QED BY <1>2, <1>3, <1>4, <1>5, <1>6, <1>7 DEF HoldIs, HoldInv
(* Interrupts do not touch what is held.                                   *)
LEMMA NextHolds == HoldIs /\ [Next]_vars => HoldIs'
<1> SUFFICES ASSUME HoldIs, [Next]_vars PROVE HoldIs'
  OBVIOUS
<1>1. ASSUME UNCHANGED <<resource, lists, DMAallocationMap, call>> PROVE HoldIs'
  <2>1. resource' = resource /\ lists' = lists /\ DMAallocationMap' = DMAallocationMap /\ call' = call
    BY <1>1
  <2>2. HoldTyped' /\ CallsAre' /\ OneCall' /\ ResourcesAre'
    BY <2>1 DEF HoldIs, HoldInv, HoldTyped, CallsAre, OneCall, ResourcesAre, Kind
  <2>3. ListsAre'
    BY <2>1 DEF HoldIs, HoldInv, ListsAre, Owning, Kind
  <2>4. MarksAre'
    <3>1. \A c \in Channels, d \in Descriptors : Holds(d, c)' <=> Holds(d, c)
      BY <2>1 DEF Holds, InCall, Kind
    <3>2. \A c \in Channels, t \in Threads : Calls(t, c)' <=> Calls(t, c)
      BY <2>1 DEF Calls, Kind
    <3> QED BY <2>1, <3>1, <3>2, MarksSame DEF HoldIs, HoldInv
  <2> QED BY <2>2, <2>3, <2>4 DEF HoldIs, HoldInv
<1>2. ASSUME NEW t \in Threads, NEW d \in Descriptors, NEW o \in Threads, NEW r \in IORequests,
             CKallocIORegion(t, d, o, r[1], r[2])
      PROVE  HoldIs'
  <2>1. call[t].at = "idle" /\ Allocate(d, "IO", o, NIL) /\ Goto(t, "own", d)
        /\ UNCHANGED <<lists, DMAallocationMap>>
    BY <1>2 DEF CKallocIORegion, Idle, NoCall
  <2> QED BY <2>1, BeginsOwning DEF Owners
<1>3. ASSUME NEW t \in Threads, NEW d \in Descriptors, NEW o \in Threads, MemoryForDMA(t, d, o)
      PROVE  HoldIs'
  <2>1. /\ call[t].at = "marked" /\ Allocate(d, "DMA", o, call[t].for) /\ Goto(t, "own", d)
        /\ UNCHANGED <<lists, DMAallocationMap>>
    BY <1>3 DEF MemoryForDMA
  <2>2. call[t].for \in Channels
    BY <2>1 DEF HoldIs, HoldInv, CallsAre
  <2> DEFINE f == call[t].for
  <2>3. f \in Channels \cup {NIL} /\ Allocate(d, "DMA", o, f)
    BY <2>1, <2>2
  <2> QED BY <2>1, <2>2, <2>3, BeginsOwning DEF Owners
<1>4. ASSUME NEW t \in Threads, NEW d \in Descriptors, NEW o \in Kernels,
             CKallocPhysRegion(t, d, o)
      PROVE  HoldIs'
  <2>1. call[t].at = "idle" /\ Allocate(d, "Phys", o, NIL) /\ Goto(t, "own", d)
        /\ UNCHANGED <<lists, DMAallocationMap>>
    BY <1>4 DEF CKallocPhysRegion, Idle, NoCall
  <2> QED BY <2>1, BeginsOwning DEF Owners
<1>5. ASSUME NEW t \in Threads, NEW d \in Descriptors, NEW o \in Threads, NEW n \in Interrupts,
             CKallocTrap(t, d, o, n)
      PROVE  HoldIs'
  BY <1>5, TrapKeeps DEF Owners
<1>6. ASSUME NEW t \in Threads, NEW d \in Descriptors
      PROVE  CKfreeIORegion(t, d) \/ CKfreePhysRegion(t, d) \/ CKfreeDMA(t, d) \/ CKfreeTrap(t, d)
                 => HoldIs'
  <2>1. ASSUME CKfreeIORegion(t, d) PROVE HoldIs'
    <3>1. /\ Idle(t) /\ d \in Held("IO") /\ Goto(t, "disown", d) /\ "IO" \in Kinds
          /\ UNCHANGED <<resource, lists, DMAallocationMap>>
      BY <2>1 DEF CKfreeIORegion, Kinds
    <3> QED BY <3>1, BeginsFreeing
  <2>2. ASSUME CKfreePhysRegion(t, d) PROVE HoldIs'
    <3>1. /\ Idle(t) /\ d \in Held("Phys") /\ Goto(t, "disown", d) /\ "Phys" \in Kinds
          /\ UNCHANGED <<resource, lists, DMAallocationMap>>
      BY <2>2 DEF CKfreePhysRegion, Kinds
    <3> QED BY <3>1, BeginsFreeing
  <2>3. ASSUME CKfreeDMA(t, d) PROVE HoldIs'
    <3>1. /\ Idle(t) /\ d \in Held("DMA") /\ Goto(t, "disown", d) /\ "DMA" \in Kinds
          /\ DMAallocationMap' = DMAallocationMap \ {resource[d].for}
          /\ UNCHANGED <<resource, lists>>
      BY <2>3 DEF CKfreeDMA, Kinds
    <3> QED BY <3>1, BeginsFreeing
  <2>4. ASSUME CKfreeTrap(t, d) PROVE HoldIs'
    <3>1. /\ Idle(t) /\ d \in Held("Trap") /\ Goto(t, "unchain", d) /\ "Trap" \in Kinds
          /\ UNCHANGED <<resource, lists, DMAallocationMap>>
      BY <2>4 DEF CKfreeTrap, Kinds
    <3> QED BY <3>1, BeginsFreeing
  <2> QED BY <2>1, <2>2, <2>3, <2>4
<1>7. ASSUME NEW t \in Threads, NEW channel \in 0 .. DMACHANNELS, CKallocDMA(t, channel)
      PROVE  HoldIs'
  BY <1>7, MarkKeeps
<1>8. ASSUME NEW t \in Threads
      PROVE  NoMemoryForDMA(t) \/ Own(t) \/ FillTrap(t) => HoldIs'
  BY UnmarkKeeps, OwnKeeps, FillKeeps
<1>9. ASSUME NEW t \in Threads PROVE Disown(t) \/ UnchainTrap(t) => HoldIs'
  <2> DEFINE d == call[t].res
  <2>1. ASSUME Disown(t) PROVE HoldIs'
    <3>1. /\ call[t].at = "disown" /\ Unlink(resource[d].owner, Kind(d), d)
          /\ resource' = [resource EXCEPT ![d] = NoResource]
          /\ Return(t) /\ UNCHANGED DMAallocationMap
      BY <2>1 DEF Disown
    <3>2. d \in Descriptors
      BY <3>1 DEF HoldIs, HoldInv, CallsAre
    <3> QED BY <3>1, <3>2, EndsFreeing
  <2>2. ASSUME UnchainTrap(t) PROVE HoldIs'
    <3>1. /\ call[t].at = "unchain" /\ Unlink(resource[d].owner, "Trap", d)
          /\ resource' = [resource EXCEPT ![d] = NoResource]
          /\ Return(t) /\ UNCHANGED DMAallocationMap
      BY <2>2 DEF UnchainTrap
    <3>2. d \in Descriptors /\ Kind(d) = "Trap"
      BY <3>1 DEF HoldIs, HoldInv, CallsAre
    <3>3. Unlink(resource[d].owner, Kind(d), d)
      BY <3>1, <3>2
    <3> QED BY <3>1, <3>2, <3>3, EndsFreeing
  <2> QED BY <2>1, <2>2
<1>10. Dispatch \/ (\E n \in Interrupts : CKforwardGlobalInterrupt(n)) => HoldIs'
  BY <1>1 DEF Dispatch, CKforwardGlobalInterrupt
<1>11. UNCHANGED vars => HoldIs'
  BY <1>1 DEF vars
<1> QED BY <1>2, <1>3, <1>4, <1>5, <1>6, <1>7, <1>8, <1>9, <1>10, <1>11 DEF Next

LEMMA InitHolds == Init => HoldIs
<1> SUFFICES ASSUME Init PROVE HoldIs
  OBVIOUS
<1>1. NoCall \in CallType /\ NoCall.at = "idle" /\ NoCall.res = NIL
  BY DEF CallType, NoCall, Places
<1>2. NoResource \in ResourceType /\ NoResource.kind = "Free"
  BY DEF ResourceType, NoResource
<1>3. /\ \A t \in Threads : call[t] = NoCall
      /\ \A d \in Descriptors : resource[d] = NoResource
      /\ \A o \in Owners, k \in Kinds : lists[o][k] = <<>>
      /\ DMAallocationMap = {}
  BY DEF Init
<1>4. HoldTyped
  BY <1>1, <1>2 DEF Init, HoldTyped
<1>5. CallsAre /\ OneCall
  BY <1>1, <1>3 DEF CallsAre, OneCall
<1>6. ResourcesAre
  BY <1>2, <1>3 DEF ResourcesAre, Kind
<1>7. ListsAre
  BY <1>2, <1>3 DEF ListsAre, Single, In, Kind, Kinds
<1>8. \A c \in Channels : HasHeld(c) = {} /\ HasCalls(c) = {}
  BY <1>1, <1>2, <1>3 DEF HasHeld, Held, HasCalls, Kind
<1>9. MarksAre
  BY <1>3, <1>8 DEF MarksAre
<1> QED BY <1>4, <1>5, <1>6, <1>7, <1>9 DEF HoldIs, HoldInv

(* The types of the rest.                                                  *)
RestTyped ==
    /\ regions \in Seq(Regions)
    /\ trapHeads \in [Interrupts -> Descriptors \cup {NIL}]
    /\ ntp \in [Descriptors -> Descriptors \cup {NIL}]
    /\ stub \subseteq Interrupts
    /\ walk \in Descriptors \cup {NIL}

LEMMA InitRest == Init => RestTyped
<1> SUFFICES ASSUME Init PROVE RestTyped
  OBVIOUS
<1>1. regions = <<>> /\ walk = NIL /\ stub = {}
  BY DEF Init
<1>2. /\ trapHeads \in [Interrupts -> Descriptors \cup {NIL}]
      /\ ntp \in [Descriptors -> Descriptors \cup {NIL}]
  BY DEF Init
<1> QED BY <1>1, <1>2 DEF RestTyped

LEMMA NextRest == HoldIs /\ RestTyped /\ [Next]_vars => RestTyped'
<1> SUFFICES ASSUME HoldIs, RestTyped, [Next]_vars PROVE RestTyped'
  OBVIOUS
<1>1. ASSUME UNCHANGED <<regions, traps, walk>> PROVE RestTyped'
  BY <1>1 DEF RestTyped, traps
<1>2. ASSUME NEW t \in Threads, NEW d \in Descriptors, NEW o \in Threads, NEW r \in IORequests,
             CKallocIORegion(t, d, o, r[1], r[2])
      PROVE  RestTyped'
  <2> DEFINE region == [base |-> r[1], limit |-> r[2], self |-> d]
             n      == Len(regions)
  <2>1. PICK gap \in 0 .. n : InsertBehind(gap, region)
    BY <1>2 DEF CKallocIORegion, CKIOfindGap
  <2>2. region \in Regions
    BY DEF Regions
  <2>3. n \in Nat /\ \A i \in 1 .. n : regions[i] \in Regions
    BY DEF RestTyped
  <2>4. regions' = [i \in 1 .. n + 1 |-> IF i <= gap THEN regions[i]
                                        ELSE IF i = gap + 1 THEN region
                                        ELSE regions[i - 1]]
    BY <2>1 DEF InsertBehind
  <2> HIDE DEF n, region
  <2>5. ASSUME NEW i \in 1 .. n + 1 PROVE regions'[i] \in Regions
    <3>1. CASE i <= gap
      BY <2>1, <2>3, <2>4, <3>1
    <3>2. CASE i = gap + 1
      BY <2>1, <2>2, <2>3, <2>4, <3>2
    <3>3. CASE i > gap + 1
      <4>1. i - 1 \in 1 .. n
        BY <2>1, <2>3, <3>3
      <4> QED BY <2>1, <2>3, <2>4, <3>3, <4>1
    <3> QED BY <2>1, <2>3, <3>1, <3>2, <3>3
  <2>6. regions' = [i \in 1 .. n + 1 |-> regions'[i]] /\ n + 1 \in Nat
    BY <2>3, <2>4
  <2>7. regions' \in [1 .. n + 1 -> Regions]
    BY <2>5, <2>6
  <2>8. regions' \in Seq(Regions)
    BY <2>6, <2>7
  <2> QED BY <1>2, <2>8 DEF CKallocIORegion, RestTyped, traps
<1>3. ASSUME NEW t \in Threads, NEW d \in Descriptors, CKfreeIORegion(t, d) PROVE RestTyped'
  <2>1. PICK at \in 1 .. Len(regions) : regions' = Removed(regions, at)
    BY <1>3 DEF CKfreeIORegion, RemoveRegion
  <2>2. regions \in Seq(Regions)
    BY DEF RestTyped
  <2>3. regions' \in Seq(Regions)
    BY <2>1, <2>2, RemovedIs
  <2> QED BY <1>3, <2>3 DEF CKfreeIORegion, RestTyped, traps
<1>4. ASSUME NEW t \in Threads, NEW d \in Descriptors, NEW o \in Threads
      PROVE  /\ MemoryForDMA(t, d, o) => RestTyped'
             /\ \A k \in Kernels : CKallocPhysRegion(t, d, k) => RestTyped'
             /\ CKfreeDMA(t, d) \/ CKfreePhysRegion(t, d) => RestTyped'
  BY <1>1 DEF MemoryForDMA, CKallocPhysRegion, CKfreeDMA, CKfreePhysRegion
<1>5. ASSUME NEW t \in Threads, NEW d \in Descriptors, NEW o \in Threads, NEW n \in Interrupts,
             CKallocTrap(t, d, o, n)
      PROVE  RestTyped'
  BY <1>5 DEF CKallocTrap, CKpreProcessTrapAlloc, RestTyped
<1>6. ASSUME NEW t \in Threads, NEW d \in Descriptors, CKfreeTrap(t, d) PROVE RestTyped'
  BY <1>6 DEF CKfreeTrap, CKpostProcessTrapAlloc, RestTyped
<1>7. ASSUME NEW t \in Threads, UnchainTrap(t) PROVE RestTyped'
  <2> DEFINE d == call[t].res
             n == resource[d].for
  <2>1. d \in Descriptors /\ Kind(d) = "Trap" /\ Unchain(n, d)
    BY <1>7 DEF HoldIs, HoldInv, CallsAre, UnchainTrap
  <2>2. n \in Interrupts /\ ntp[d] \in Descriptors \cup {NIL}
    BY <2>1 DEF HoldIs, HoldInv, ResourcesAre, RestTyped
  <2> HIDE DEF d, n
  <2>3. /\ trapHeads' \in [Interrupts -> Descriptors \cup {NIL}]
        /\ ntp' \in [Descriptors -> Descriptors \cup {NIL}]
    BY <2>1, <2>2 DEF Unchain, RestTyped
  <2> QED BY <1>7, <2>3 DEF UnchainTrap, RestTyped
<1>8. ASSUME NEW t \in Threads
      PROVE  /\ \A channel \in 0 .. DMACHANNELS : CKallocDMA(t, channel) => RestTyped'
             /\ NoMemoryForDMA(t) \/ Own(t) \/ Disown(t) \/ FillTrap(t) => RestTyped'
  BY <1>1 DEF CKallocDMA, NoMemoryForDMA, Own, Disown, FillTrap
<1>9. Dispatch \/ (\E n \in Interrupts : CKforwardGlobalInterrupt(n)) => RestTyped'
  BY DEF Dispatch, CKforwardGlobalInterrupt, RestTyped, traps
<1>10. UNCHANGED vars => RestTyped'
  BY DEF vars, RestTyped
<1> QED BY <1>2, <1>3, <1>4, <1>5, <1>6, <1>7, <1>8, <1>9, <1>10 DEF Next

(* What the invariant says of the counts that HeldOnce speaks of.          *)
LEMMA HoldCounts == HoldIs => MarkedForOne /\ OwnersLists
<1> SUFFICES ASSUME HoldIs PROVE MarkedForOne /\ OwnersLists
  OBVIOUS
<1>0. HoldTyped /\ CallsAre /\ OneCall /\ ResourcesAre /\ ListsAre /\ MarksAre
  BY DEF HoldIs, HoldInv
<1>1. Cardinality({}) = 0 /\ \A x : Cardinality({x}) = 1
  BY FS_EmptySet, FS_Singleton
<1>2. MarkedForOne
  <2>1. ASSUME NEW c \in Channels
        PROVE  Cardinality(HasHeld(c) \cup HasCalls(c)) = IF c \in DMAallocationMap THEN 1 ELSE 0
    <3>1. /\ \A x, y \in HasHeld(c) : x = y
          /\ \A u, v \in HasCalls(c) : u = v
          /\ HasHeld(c) = {} \/ HasCalls(c) = {}
          /\ c \in DMAallocationMap <=> HasHeld(c) # {} \/ HasCalls(c) # {}
      BY <1>0 DEF MarksAre
    <3>2. CASE c \in DMAallocationMap
      <4>1. \E x : HasHeld(c) \cup HasCalls(c) = {x}
        BY <3>1, <3>2
      <4> QED BY <1>1, <3>2, <4>1
    <3>3. CASE c \notin DMAallocationMap
      <4>1. HasHeld(c) \cup HasCalls(c) = {}
        BY <3>1, <3>3
      <4> QED BY <1>1, <3>3, <4>1
    <3> QED BY <3>2, <3>3
  <2>2. ASSUME NEW c \in Channels
        PROVE  HasHeld(c) \cup HasCalls(c)
                   = { d \in Held("DMA") : resource[d].for = c }
                     \cup { t \in Threads : call[t].at = "marked" /\ call[t].for = c }
                     \cup { t \in Threads : call[t].at = "own"
                               /\ Kind(call[t].res) = "DMA" /\ resource[call[t].res].for = c }
    BY DEF HasHeld, HasCalls
  <2> QED BY <2>1, <2>2 DEF MarkedForOne
<1>3. OwnersLists
  <2> SUFFICES ASSUME NEW d \in Descriptors, ~InCall(d), NEW o \in Owners, NEW k \in Kinds
               PROVE  Cardinality({ i \in 1 .. Len(lists[o][k]) : lists[o][k][i] = d })
                          = IF Kind(d) = k /\ resource[d].owner = o THEN 1 ELSE 0
    BY DEF OwnersLists
  <2> DEFINE s == lists[o][k]
             P == { i \in 1 .. Len(s) : s[i] = d }
  <2>1. s \in Seq(Descriptors) /\ Single(s) /\ ~Owning(d)
        /\ (In(s, d) <=> Kind(d) = k /\ resource[d].owner = o /\ ~Owning(d))
    BY <1>0 DEF HoldTyped, ListsAre, InCall, Owning
  <2>2. DOMAIN s = 1 .. Len(s)
    BY <2>1
  <2> HIDE DEF s
  <2>3. CASE In(s, d)
    <3>1. PICK x \in DOMAIN s : s[x] = d
      BY <2>3 DEF In
    <3>2. \A i \in P : i = x
      BY <2>1, <2>2, <3>1 DEF Single
    <3>3. P = {x}
      BY <2>2, <3>1, <3>2
    <3> QED BY <1>1, <2>1, <2>3, <3>3 DEF s
  <2>4. CASE ~In(s, d)
    <3>1. P = {}
      BY <2>2, <2>4 DEF In
    <3> QED BY <1>1, <2>1, <2>4, <3>1 DEF s
  <2> QED BY <2>3, <2>4
<1> QED BY <1>2, <1>3

(* CKallocIORegion, CKallocDMA, CKallocTrap and CKallocPhysRegion with what *)
(* frees it: whichever threads are preempted where, what is allocated is   *)
(* in one list of its owner once, and a marked channel has one holder.     *)
THEOREM ResourcesHeldOnce == Spec => []HeldOnce
<1>1. Init => HoldIs /\ RestTyped
  BY InitHolds, InitRest
<1>2. HoldIs /\ RestTyped /\ [Next]_vars => HoldIs' /\ RestTyped'
  BY NextHolds, NextRest
<1>3. HoldIs /\ RestTyped => HeldOnce
  <2>1. HoldIs /\ RestTyped => TypeOK
    BY DEF HoldIs, HoldTyped, RestTyped, TypeOK, ResourceType, CallType, Places
  <2> QED BY <2>1, HoldCounts DEF HeldOnce
<1> QED BY <1>1, <1>2, <1>3, PTL DEF Spec
-----------------------------------------------------------------------------
(* The chains of the interrupts.  An allocator that is not the last one to *)
(* have allocated its interrupt stays, and there is one call for an        *)
(* interrupt at a time: see the README for what the code does otherwise.   *)

(* The allocators of an interrupt.                                         *)
AllocatorsOf(n) == { d \in Descriptors : Kind(d) = "Trap" /\ resource[d].for = n }

(* They are what the chain consists of: it does not leave them, no two of   *)
(* them have the same successor, none comes before the head, and there are *)
(* no others beside the chain.                                             *)
IsChain(head, next, A) ==
    /\ head \in A \cup {NIL}
    /\ \A x \in A : next[x] \in A \cup {NIL} /\ (next[x] # NIL => next[x] # head)
    /\ \A x, y \in A : next[x] = next[y] /\ next[x] # NIL => x = y
    /\ \A S \in SUBSET A :
          head \in S \cup {NIL} /\ (\A x \in S : next[x] \in S \cup {NIL}) => S = A

ChainsAre == \A n \in Interrupts : IsChain(trapHeads[n], ntp, AllocatorsOf(n))

(* The new and the leaving allocator of an interrupt are at its head, and   *)
(* there is one call for an interrupt at most.                             *)
TrapCallsAre ==
    /\ \A t \in Threads : call[t].at \in {"fill", "unchain"} =>
           trapHeads[resource[call[t].res].for] = call[t].res
    /\ \A n \in Interrupts : \A t, u \in CallsFor(n) : t = u

(* An interrupt is enabled while it has an allocator that is not leaving.  *)
StubsAre == \A n \in Interrupts : \A d \in AllocatorsOf(n) :
    n \in stub \/ \E t \in Threads : call[t].at = "unchain" /\ call[t].res = d

ChainInv == ChainsAre /\ TrapCallsAre /\ StubsAre

InOrder == Allowed \cap {"behind", "concurrent"} = {}

(* Chains that have a new head, and that lose it.                          *)
LEMMA ChainSame ==
    ASSUME NEW head, NEW next, NEW new, NEW A, IsChain(head, next, A),
           \A x \in A : new[x] = next[x]
    PROVE  IsChain(head, new, A)
<1>1. /\ head \in A \cup {NIL}
      /\ \A x \in A : new[x] \in A \cup {NIL} /\ (new[x] # NIL => new[x] # head)
      /\ \A x, y \in A : new[x] = new[y] /\ new[x] # NIL => x = y
  BY DEF IsChain
<1>2. ASSUME NEW S \in SUBSET A, head \in S \cup {NIL}, \A x \in S : new[x] \in S \cup {NIL}
      PROVE  S = A
  BY <1>2 DEF IsChain
<1> QED BY <1>1, <1>2 DEF IsChain

LEMMA ChainGrows ==
    ASSUME NEW head, NEW next, NEW new, NEW A, IsChain(head, next, A), NIL \notin A,
           NEW d, d \notin A, d # NIL, new[d] = head, \A x \in A : new[x] = next[x]
    PROVE  IsChain(d, new, A \cup {d})
<1> DEFINE B == A \cup {d}
<1>1. d \in B \cup {NIL}
  OBVIOUS
<1>2. ASSUME NEW x \in B PROVE new[x] \in B \cup {NIL} /\ (new[x] # NIL => new[x] # d)
  BY DEF IsChain
<1>3. ASSUME NEW x \in B, NEW y \in B, new[x] = new[y], new[x] # NIL PROVE x = y
  BY <1>3 DEF IsChain
<1>4. ASSUME NEW S \in SUBSET B, d \in S \cup {NIL}, \A x \in S : new[x] \in S \cup {NIL}
      PROVE  S = B
  <2> DEFINE T == S \cap A
  <2>1. d \in S /\ head \in S \cup {NIL}
    BY <1>4
  <2>2. head \in T \cup {NIL}
    BY <2>1 DEF IsChain
  <2>3. ASSUME NEW x \in T PROVE next[x] \in T \cup {NIL}
    BY <1>4 DEF IsChain
  <2>4. T = A
    BY <2>2, <2>3 DEF IsChain
  <2> QED BY <2>1, <2>4
<1> HIDE DEF B
<1>5. IsChain(d, new, B)
  BY <1>1, <1>2, <1>3, <1>4 DEF IsChain
<1> QED BY <1>5 DEF B

LEMMA ChainShrinks ==
    ASSUME NEW head, NEW next, NEW A, IsChain(head, next, A), head \in A
    PROVE  IsChain(next[head], next, A \ {head})
<1> DEFINE B    == A \ {head}
           rest == next[head]
<1>1. rest \in B \cup {NIL}
  BY DEF IsChain
<1>2. ASSUME NEW x \in B PROVE next[x] \in B \cup {NIL} /\ (next[x] # NIL => next[x] # rest)
  BY DEF IsChain
<1>3. ASSUME NEW x \in B, NEW y \in B, next[x] = next[y], next[x] # NIL PROVE x = y
  BY <1>3 DEF IsChain
<1>4. ASSUME NEW S \in SUBSET B, rest \in S \cup {NIL}, \A x \in S : next[x] \in S \cup {NIL}
      PROVE  S = B
  <2> DEFINE T == S \cup {head}
  <2>1. T \in SUBSET A /\ head \in T \cup {NIL}
    OBVIOUS
  <2>2. ASSUME NEW x \in T PROVE next[x] \in T \cup {NIL}
    BY <1>4
  <2>3. T = A
    BY <2>1, <2>2 DEF IsChain
  <2> QED BY <2>3
<1> HIDE DEF B, rest
<1>5. IsChain(rest, next, B)
  BY <1>1, <1>2, <1>3, <1>4 DEF IsChain
<1> QED BY <1>5 DEF B, rest

(* Most steps leave what the chains are about alone.                       *)
LEMMA QuietSteps ==
    ASSUME ChainInv, CallsAre, CallsAre',
           UNCHANGED <<trapHeads, ntp, stub>>,
           \A d \in Descriptors :
              Kind(d) = "Trap" \/ resource'[d].kind = "Trap" => resource'[d] = resource[d],
           \A t \in Threads : call'[t].at \in {"fill", "unchain"} => call'[t] = call[t],
           \A t \in Threads : call[t].at = "unchain" => call'[t] = call[t]
    PROVE  ChainInv'
<1>1. \A n \in Interrupts : AllocatorsOf(n)' = AllocatorsOf(n)
  BY DEF AllocatorsOf, Kind
<1>2. trapHeads' = trapHeads /\ ntp' = ntp /\ stub' = stub
  OBVIOUS
<1>3. ChainsAre'
  BY <1>1, <1>2 DEF ChainInv, ChainsAre
<1>4. ASSUME NEW t \in Threads, call'[t].at \in {"fill", "unchain"}
      PROVE  call'[t] = call[t] /\ resource'[call'[t].res].for = resource[call[t].res].for
  BY <1>4 DEF CallsAre, Kind
<1>5. \A n \in Interrupts : CallsFor(n)' \subseteq CallsFor(n)
  BY <1>4 DEF CallsFor
<1>6. TrapCallsAre'
  BY <1>2, <1>4, <1>5 DEF ChainInv, TrapCallsAre
<1>7. StubsAre'
  BY <1>1, <1>2 DEF ChainInv, StubsAre
<1> QED BY <1>3, <1>6, <1>7 DEF ChainInv

(* The new allocator is the head of the chain.                             *)
LEMMA ChainsGrow ==
    ASSUME InOrder, HoldIs, RestTyped, ChainInv,
           NEW t \in Threads, NEW d \in Descriptors, NEW owner \in Owners, NEW n \in Interrupts,
           CKallocTrap(t, d, owner, n)
    PROVE  ChainInv'
<1>0. HoldTyped /\ CallsAre /\ OneCall /\ ResourcesAre
  BY DEF HoldIs, HoldInv
<1>1. /\ resource'[d].kind = "Trap" /\ resource'[d].for = n
      /\ \A e \in Descriptors : e # d => resource'[e] = resource[e]
      /\ Kind(d) = "Free" /\ ~InCall(d)
  <2>1. Allocate(d, "Trap", owner, n) /\ "Trap" \in Kinds
    BY DEF CKallocTrap, Kinds
  <2> QED BY <1>0, <2>1, Allocates
<1>2. /\ call'[t].at = "fill" /\ call'[t].res = d
      /\ \A u \in Threads : u # t => call'[u] = call[u]
      /\ call[t].at = "idle"
  BY <1>0 DEF CKallocTrap, Goto, Idle, NoCall, HoldTyped
<1>3. CallsFor(n) = {}
  BY DEF CKallocTrap, Undisturbed, InOrder
<1>4. /\ trapHeads'[n] = d /\ \A m \in Interrupts : m # n => trapHeads'[m] = trapHeads[m]
      /\ ntp'[d] = trapHeads[n] /\ \A e \in Descriptors : e # d => ntp'[e] = ntp[e]
  BY DEF CKallocTrap, RestTyped
<1>5. \A u \in Threads : call[u].res # d
  BY <1>1 DEF InCall
<1>6. /\ AllocatorsOf(n)' = AllocatorsOf(n) \cup {d} /\ d \notin AllocatorsOf(n)
      /\ \A m \in Interrupts : m # n => AllocatorsOf(m)' = AllocatorsOf(m)
      /\ \A m \in Interrupts : d \notin AllocatorsOf(m) /\ AllocatorsOf(m) \subseteq Descriptors
  BY <1>1 DEF AllocatorsOf, Kind
<1>7. IsChain(trapHeads[n], ntp, AllocatorsOf(n))
  BY DEF ChainInv, ChainsAre
<1>8. ChainsAre'
  <2>1. NIL \notin AllocatorsOf(n) /\ d # NIL /\ d \notin AllocatorsOf(n) /\ ntp'[d] = trapHeads[n]
        /\ \A x \in AllocatorsOf(n) : ntp'[x] = ntp[x]
    BY <1>4, <1>6
  <2>2. IsChain(d, ntp', AllocatorsOf(n) \cup {d})
    BY <1>7, <2>1, ChainGrows
  <2>3. ASSUME NEW m \in Interrupts, m # n PROVE IsChain(trapHeads[m], ntp', AllocatorsOf(m))
    <3>1. IsChain(trapHeads[m], ntp, AllocatorsOf(m)) /\ \A x \in AllocatorsOf(m) : ntp'[x] = ntp[x]
      BY <1>4, <1>6 DEF ChainInv, ChainsAre
    <3> QED BY <3>1, ChainSame
  <2> QED BY <1>4, <1>6, <2>2, <2>3 DEF ChainsAre
<1>9. TrapCallsAre'
  <2>1. ASSUME NEW u \in Threads, u # t, call[u].at \in {"fill", "unchain"}
        PROVE  /\ resource'[call[u].res] = resource[call[u].res]
               /\ resource[call[u].res].for \in Interrupts \ {n}
    <3>1. call[u].res \in Descriptors \ {d} /\ Kind(call[u].res) = "Trap"
      BY <1>0, <1>5, <2>1 DEF CallsAre
    <3>2. u \notin CallsFor(n)
      BY <1>3
    <3> QED BY <1>0, <1>1, <2>1, <3>1, <3>2 DEF CallsFor, ResourcesAre
  <2>2. ASSUME NEW u \in Threads, call'[u].at \in {"fill", "unchain"}
        PROVE  trapHeads'[resource'[call'[u].res].for] = call'[u].res
    <3>1. CASE u = t
      BY <1>1, <1>2, <1>4, <3>1
    <3>2. CASE u # t
      BY <1>2, <1>4, <2>1, <2>2, <3>2 DEF ChainInv, TrapCallsAre
    <3> QED BY <3>1, <3>2
  <2>3. ASSUME NEW m \in Interrupts
        PROVE  CallsFor(m)' \subseteq IF m = n THEN {t} ELSE CallsFor(m)
    BY <1>1, <1>2, <2>1 DEF CallsFor
  <2>4. ASSUME NEW m \in Interrupts, NEW u \in CallsFor(m)', NEW v \in CallsFor(m)' PROVE u = v
    BY <2>3 DEF ChainInv, TrapCallsAre
  <2> QED BY <2>2, <2>4 DEF TrapCallsAre
<1>10. StubsAre'
  <2>1. n \in stub'
    <3>1. CASE trapHeads[n] = NIL
      BY <3>1 DEF CKallocTrap, CKpreProcessTrapAlloc
    <3>2. CASE trapHeads[n] # NIL
      <4>1. trapHeads[n] \in AllocatorsOf(n)
        BY <1>7, <3>2 DEF IsChain
      <4>2. ASSUME NEW u \in Threads, call[u].at = "unchain", call[u].res = trapHeads[n]
            PROVE  u \in CallsFor(n)
        BY <4>1, <4>2 DEF CallsFor, AllocatorsOf
      <4> QED BY <1>3, <3>2, <4>1, <4>2 DEF CKallocTrap, CKpreProcessTrapAlloc, ChainInv, StubsAre
    <3> QED BY <3>1, <3>2
  <2>2. stub \subseteq stub'
    BY DEF CKallocTrap, CKpreProcessTrapAlloc
  <2>3. ASSUME NEW m \in Interrupts, m # n, NEW e \in AllocatorsOf(m)
        PROVE  m \in stub' \/ \E u \in Threads : call'[u].at = "unchain" /\ call'[u].res = e
    <3>1. m \in stub \/ \E u \in Threads : call[u].at = "unchain" /\ call[u].res = e
      BY DEF ChainInv, StubsAre
    <3> QED BY <1>2, <2>2, <3>1
  <2> QED BY <1>6, <2>1, <2>3 DEF StubsAre
<1> QED BY <1>8, <1>9, <1>10 DEF ChainInv

(* The head of the chain is leaving, and the stub with the last one.       *)
LEMMA StubsGo ==
    ASSUME InOrder, HoldIs, RestTyped, ChainInv,
           NEW t \in Threads, NEW d \in Descriptors, CKfreeTrap(t, d)
    PROVE  ChainInv'
<1> DEFINE n == resource[d].for
<1>0. HoldTyped /\ CallsAre /\ OneCall /\ ResourcesAre
  BY DEF HoldIs, HoldInv
<1>1. /\ Kind(d) = "Trap" /\ ~InCall(d) /\ n \in Interrupts /\ d \in AllocatorsOf(n)
  BY <1>0 DEF CKfreeTrap, Held, ResourcesAre, AllocatorsOf
<1>2. CallsFor(n) = {} /\ trapHeads[n] = d
  BY DEF CKfreeTrap, Undisturbed, InOrder
<1>3. /\ call'[t].at = "unchain" /\ call'[t].res = d
      /\ \A u \in Threads : u # t => call'[u] = call[u]
      /\ call[t].at = "idle"
  <2>1. Goto(t, "unchain", d) /\ Idle(t)
    BY DEF CKfreeTrap
  <2> QED BY <1>0, <2>1 DEF Goto, Idle, NoCall, HoldTyped
<1>4. /\ resource' = resource /\ trapHeads' = trapHeads /\ ntp' = ntp
      /\ stub' = IF trapHeads[n] = d /\ ntp[d] = NIL THEN stub \ {n} ELSE stub
  BY DEF CKfreeTrap, CKpostProcessTrapAlloc
<1> HIDE DEF n
<1>5. \A m \in Interrupts : AllocatorsOf(m)' = AllocatorsOf(m)
  BY <1>4 DEF AllocatorsOf, Kind
<1>6. ChainsAre'
  BY <1>4, <1>5 DEF ChainInv, ChainsAre
<1>7. TrapCallsAre'
  <2>1. ASSUME NEW u \in Threads, call'[u].at \in {"fill", "unchain"}
        PROVE  trapHeads[resource[call'[u].res].for] = call'[u].res
    BY <1>2, <1>3, <2>1 DEF ChainInv, TrapCallsAre, n
  <2>2. ASSUME NEW m \in Interrupts
        PROVE  CallsFor(m)' \subseteq IF m = n THEN {t} ELSE CallsFor(m)
    BY <1>2, <1>3, <1>4 DEF CallsFor, n
  <2>3. ASSUME NEW m \in Interrupts, NEW u \in CallsFor(m)', NEW v \in CallsFor(m)' PROVE u = v
    BY <2>2 DEF ChainInv, TrapCallsAre
  <2> QED BY <1>4, <2>1, <2>3 DEF TrapCallsAre
<1>8. StubsAre'
  <2>1. ntp[d] = NIL => AllocatorsOf(n) = {d}
    <3>1. \A S \in SUBSET AllocatorsOf(n) :
             trapHeads[n] \in S \cup {NIL} /\ (\A x \in S : ntp[x] \in S \cup {NIL})
                 => S = AllocatorsOf(n)
      BY <1>1 DEF ChainInv, ChainsAre, IsChain
    <3>2. {d} \in SUBSET AllocatorsOf(n) /\ trapHeads[n] \in {d} \cup {NIL}
      BY <1>1, <1>2
    <3> QED BY <3>1, <3>2
  <2>2. ASSUME NEW m \in Interrupts, NEW e \in AllocatorsOf(m)
        PROVE  m \in stub' \/ \E u \in Threads : call'[u].at = "unchain" /\ call'[u].res = e
    <3>1. m \in stub \/ \E u \in Threads : call[u].at = "unchain" /\ call[u].res = e
      BY DEF ChainInv, StubsAre
    <3>2. CASE \E u \in Threads : call[u].at = "unchain" /\ call[u].res = e
      BY <1>3, <3>2
    <3>3. CASE m \in stub
      BY <1>3, <1>4, <2>1, <3>3
    <3> QED BY <3>1, <3>2, <3>3
  <2> QED BY <1>5, <2>2 DEF StubsAre
<1> QED BY <1>6, <1>7, <1>8 DEF ChainInv

(* It leaves the chain to the one behind it.                               *)
LEMMA ChainsShrink ==
    ASSUME HoldIs, RestTyped, ChainInv, NEW t \in Threads, UnchainTrap(t),
           NEW d, d = call[t].res, NEW n, n = resource[d].for
    PROVE  ChainInv'
<1>0. HoldTyped /\ CallsAre /\ OneCall /\ ResourcesAre
  BY DEF HoldIs, HoldInv
<1>1. /\ call[t].at = "unchain" /\ d \in Descriptors /\ Kind(d) = "Trap"
      /\ n \in Interrupts /\ d \in AllocatorsOf(n) /\ trapHeads[n] = d /\ t \in CallsFor(n)
  BY <1>0 DEF UnchainTrap, CallsAre, ResourcesAre, AllocatorsOf, ChainInv, TrapCallsAre, CallsFor
<1>2. /\ resource' = [resource EXCEPT ![d] = NoResource] /\ Return(t) /\ Unchain(n, d)
      /\ stub' = stub
  BY DEF UnchainTrap
<1>3. /\ resource'[d].kind = "Free"
      /\ \A e \in Descriptors : e # d => resource'[e] = resource[e]
  BY <1>0, <1>1, <1>2, Frees
<1>4. /\ call'[t].at = "idle" /\ \A u \in Threads : u # t => call'[u] = call[u]
  BY <1>0, <1>2, Returns
<1>5. \A u \in Threads : u # t => call[u].res # d
  BY <1>0, <1>1 DEF OneCall
<1>6. /\ trapHeads'[n] = ntp[d] /\ \A m \in Interrupts : m # n => trapHeads'[m] = trapHeads[m]
      /\ ntp' = ntp
  BY <1>1, <1>2 DEF Unchain, RestTyped
<1>7. /\ AllocatorsOf(n)' = AllocatorsOf(n) \ {d}
      /\ \A m \in Interrupts : m # n => AllocatorsOf(m)' = AllocatorsOf(m)
  BY <1>3 DEF AllocatorsOf, Kind
<1>8. IsChain(trapHeads[n], ntp, AllocatorsOf(n)) /\ trapHeads[n] \in AllocatorsOf(n)
  BY <1>1 DEF ChainInv, ChainsAre
<1>9. ChainsAre'
  <2>1. IsChain(ntp[d], ntp, AllocatorsOf(n) \ {d})
    BY <1>1, <1>8, ChainShrinks
  <2> QED BY <1>6, <1>7, <2>1 DEF ChainInv, ChainsAre
<1>10. ASSUME NEW u \in Threads, u # t, call[u].at \in {"fill", "unchain"}
       PROVE  /\ resource'[call[u].res] = resource[call[u].res]
              /\ resource[call[u].res].for \in Interrupts \ {n}
  <2>1. call[u].res \in Descriptors \ {d} /\ Kind(call[u].res) = "Trap"
    BY <1>0, <1>5, <1>10 DEF CallsAre
  <2>2. u \notin CallsFor(n)
    BY <1>1, <1>10 DEF ChainInv, TrapCallsAre
  <2> QED BY <1>0, <1>3, <1>10, <2>1, <2>2 DEF CallsFor, ResourcesAre
<1>11. TrapCallsAre'
  <2>1. ASSUME NEW u \in Threads, call'[u].at \in {"fill", "unchain"}
        PROVE  u # t /\ trapHeads'[resource'[call'[u].res].for] = call'[u].res
    <3>1. u # t /\ call'[u] = call[u] /\ call[u].at \in {"fill", "unchain"}
      BY <1>4, <2>1
    <3>2. trapHeads[resource[call[u].res].for] = call[u].res
      BY <3>1 DEF ChainInv, TrapCallsAre
    <3> QED BY <1>6, <1>10, <3>1, <3>2
  <2>2. ASSUME NEW m \in Interrupts PROVE CallsFor(m)' \subseteq CallsFor(m)
    BY <1>4, <1>10 DEF CallsFor
  <2> QED BY <2>1, <2>2 DEF ChainInv, TrapCallsAre
<1>12. StubsAre'
  <2>1. ASSUME NEW m \in Interrupts, NEW e \in AllocatorsOf(m)'
        PROVE  m \in stub \/ \E u \in Threads : call'[u].at = "unchain" /\ call'[u].res = e
    <3>1. e \in AllocatorsOf(m) /\ e # d
      BY <1>1, <1>3, <1>7 DEF AllocatorsOf, Kind
    <3>2. m \in stub \/ \E u \in Threads : call[u].at = "unchain" /\ call[u].res = e
      BY <3>1 DEF ChainInv, StubsAre
    <3> QED BY <1>4, <3>1, <3>2
  <2> QED BY <1>2, <2>1 DEF StubsAre
<1> QED BY <1>9, <1>11, <1>12 DEF ChainInv
(* The steps that are quiet: everything but CKallocTrap, CKfreeTrap and    *)
(* UnchainTrap.                                                            *)
Quiet ==
    /\ UNCHANGED <<trapHeads, ntp, stub>>
    /\ \A d \in Descriptors :
          Kind(d) = "Trap" \/ resource'[d].kind = "Trap" => resource'[d] = resource[d]
    /\ \A t \in Threads : call'[t].at \in {"fill", "unchain"} => call'[t] = call[t]
    /\ \A t \in Threads : call[t].at = "unchain" => call'[t] = call[t]

LEMMA OtherSteps ==
    ASSUME HoldIs, [Next]_vars
    PROVE  \/ Quiet /\ (walk' = walk \/ Dispatch \/ \E n \in Interrupts : CKforwardGlobalInterrupt(n))
           \/ \E t \in Threads, d \in Descriptors :
                 \/ \E o \in Threads, n \in Interrupts : CKallocTrap(t, d, o, n)
                 \/ CKfreeTrap(t, d)
           \/ \E t \in Threads : UnchainTrap(t)
<1>0. HoldTyped /\ CallsAre
  BY DEF HoldIs, HoldInv
<1>1. ASSUME NEW t \in Threads, NEW at \in {"own", "disown"}, NEW d, NEW kind \in {"IO", "DMA", "Phys"},
             NEW owner, NEW for, d \in Descriptors, Allocate(d, kind, owner, for), Goto(t, at, d),
             call[t].at # "unchain", UNCHANGED <<traps, walk>>
      PROVE  Quiet /\ walk' = walk
  <2>1. resource'[d].kind = kind /\ \A e \in Descriptors : e # d => resource'[e] = resource[e]
    BY <1>0, <1>1 DEF Allocate, HoldTyped
  <2>2. Kind(d) = "Free"
    BY <1>1 DEF Allocate, IsFree, NoResource, Kind
  <2>3. call'[t].at = at /\ \A u \in Threads : u # t => call'[u] = call[u]
    BY <1>0, <1>1 DEF Goto, HoldTyped
  <2> QED BY <1>1, <2>1, <2>2, <2>3 DEF Quiet, traps
<1>2. ASSUME NEW t \in Threads, call[t].at # "unchain",
             \A u \in Threads : u # t => call'[u] = call[u],
             call'[t].at \notin {"fill", "unchain"}, UNCHANGED <<resource, traps, walk>>
      PROVE  Quiet /\ walk' = walk
  BY <1>2 DEF Quiet, traps
<1>3. ASSUME NEW t \in Threads, NEW d \in Descriptors, NEW o \in Threads
      PROVE  /\ \A r \in IORequests :
                   CKallocIORegion(t, d, o, r[1], r[2]) => Quiet /\ walk' = walk
             /\ MemoryForDMA(t, d, o) => Quiet /\ walk' = walk
             /\ \A k \in Kernels : CKallocPhysRegion(t, d, k) => Quiet /\ walk' = walk
  <2>1. ASSUME NEW r \in IORequests, CKallocIORegion(t, d, o, r[1], r[2])
        PROVE  Quiet /\ walk' = walk
    BY <1>1, <2>1 DEF CKallocIORegion, Idle, NoCall
  <2>2. ASSUME MemoryForDMA(t, d, o) PROVE Quiet /\ walk' = walk
    BY <1>1, <2>2 DEF MemoryForDMA
  <2>3. ASSUME NEW k \in Kernels, CKallocPhysRegion(t, d, k) PROVE Quiet /\ walk' = walk
    BY <1>1, <2>3 DEF CKallocPhysRegion, Idle, NoCall
  <2> QED BY <2>1, <2>2, <2>3
<1>4. ASSUME NEW t \in Threads, NEW d \in Descriptors,
             CKfreeIORegion(t, d) \/ CKfreeDMA(t, d) \/ CKfreePhysRegion(t, d)
      PROVE  Quiet /\ walk' = walk
  <2>1. Idle(t) /\ Goto(t, "disown", d) /\ UNCHANGED <<resource, traps, walk>>
    BY <1>4 DEF CKfreeIORegion, CKfreeDMA, CKfreePhysRegion
  <2>2. /\ call'[t].at = "disown" /\ call[t].at = "idle"
        /\ \A u \in Threads : u # t => call'[u] = call[u]
    BY <1>0, <2>1 DEF Goto, Idle, NoCall, HoldTyped
  <2> QED BY <1>2, <2>1, <2>2
<1>5. ASSUME NEW t \in Threads, NEW channel \in 0 .. DMACHANNELS, CKallocDMA(t, channel)
      PROVE  Quiet /\ walk' = walk
  <2>1. /\ call'[t].at = "marked" /\ call[t].at = "idle"
        /\ \A u \in Threads : u # t => call'[u] = call[u]
    BY <1>0, <1>5 DEF CKallocDMA, Idle, NoCall, HoldTyped
  <2> QED BY <1>2, <1>5, <2>1 DEF CKallocDMA
<1>6. ASSUME NEW t \in Threads, NoMemoryForDMA(t) \/ Own(t) \/ FillTrap(t)
      PROVE  Quiet /\ walk' = walk
  <2>1. /\ call'[t].at = "idle" /\ call[t].at # "unchain"
        /\ \A u \in Threads : u # t => call'[u] = call[u]
    BY <1>0, <1>6 DEF NoMemoryForDMA, Own, FillTrap, Return, NoCall, HoldTyped
  <2> QED BY <1>2, <1>6, <2>1 DEF NoMemoryForDMA, Own, FillTrap
<1>7. ASSUME NEW t \in Threads, Disown(t) PROVE Quiet /\ walk' = walk
  <2>1. /\ call'[t].at = "idle" /\ call[t].at = "disown"
        /\ \A u \in Threads : u # t => call'[u] = call[u]
    BY <1>0, <1>7 DEF Disown, Return, NoCall, HoldTyped
  <2>2. PICK d \in Descriptors : Kind(d) # "Trap" /\ resource' = [resource EXCEPT ![d] = NoResource]
    <3>1. call[t].res \in Descriptors /\ Kind(call[t].res) # "Trap"
      BY <1>0, <2>1 DEF CallsAre
    <3> QED BY <1>7, <3>1 DEF Disown
  <2>3. resource'[d].kind = "Free" /\ \A e \in Descriptors : e # d => resource'[e] = resource[e]
    BY <1>0, <2>2, Frees
  <2>4. UNCHANGED <<traps, walk>>
    BY <1>7 DEF Disown
  <2> QED BY <2>1, <2>2, <2>3, <2>4 DEF Quiet, traps
<1>8. Dispatch \/ (\E n \in Interrupts : CKforwardGlobalInterrupt(n)) => Quiet
  BY DEF Dispatch, CKforwardGlobalInterrupt, Quiet, traps
<1>9. UNCHANGED vars => Quiet /\ walk' = walk
  BY DEF vars, Quiet
<1> QED BY <1>3, <1>4, <1>5, <1>6, <1>7, <1>8, <1>9 DEF Next

LEMMA NextChains == InOrder /\ HoldIs /\ RestTyped /\ ChainInv /\ [Next]_vars => ChainInv'
<1> SUFFICES ASSUME InOrder, HoldIs, RestTyped, ChainInv, [Next]_vars PROVE ChainInv'
  OBVIOUS
<1>1. ASSUME Quiet PROVE ChainInv'
  <2>1. CallsAre /\ CallsAre'
    BY NextHolds DEF HoldIs, HoldInv
  <2> QED BY <1>1, <2>1, QuietSteps DEF Quiet
<1>2. ASSUME NEW t \in Threads, UnchainTrap(t) PROVE ChainInv'
  <2>1. \E d, n : d = call[t].res /\ n = resource[d].for
    OBVIOUS
  <2> QED BY <1>2, <2>1, ChainsShrink
<1>3. ASSUME NEW t \in Threads, NEW d \in Descriptors
      PROVE  /\ \A o \in Threads, n \in Interrupts : CKallocTrap(t, d, o, n) => ChainInv'
             /\ CKfreeTrap(t, d) => ChainInv'
  BY ChainsGrow, StubsGo DEF Owners
<1> QED BY <1>1, <1>2, <1>3, OtherSteps

LEMMA InitChains == Init => ChainInv
<1> SUFFICES ASSUME Init PROVE ChainInv
  OBVIOUS
<1>1. /\ \A n \in Interrupts : AllocatorsOf(n) = {} /\ trapHeads[n] = NIL
      /\ \A t \in Threads : call[t].at = "idle"
  BY DEF Init, AllocatorsOf, Kind, NoResource, NoCall
<1>2. ChainsAre
  BY <1>1 DEF ChainsAre, IsChain
<1>3. TrapCallsAre /\ StubsAre
  BY <1>1 DEF TrapCallsAre, StubsAre, CallsFor
<1> QED BY <1>2, <1>3 DEF ChainInv

(* CKallocTrap and CKfreeTrap keep the chain of each interrupt whole: it is *)
(* dispatched to all its allocators and enabled while there are any, if the *)
(* last one to have come goes first and the calls for it do not overlap.   *)
THEOREM InterruptsReachAllocators ==
    ASSUME InOrder
    PROVE  Spec => []ReachesAllocators
<1>1. Init => HoldIs /\ RestTyped /\ ChainInv
  BY InitHolds, InitRest, InitChains
<1>2. HoldIs /\ RestTyped /\ ChainInv /\ [Next]_vars => HoldIs' /\ RestTyped' /\ ChainInv'
  BY NextHolds, NextRest, NextChains
<1>3. ASSUME HoldIs, RestTyped, ChainInv PROVE ReachesAllocators
  <2> SUFFICES ASSUME NEW d \in Held("Trap")
               PROVE  d \in Chain(resource[d].for) /\ resource[d].for \in stub
    BY DEF ReachesAllocators
  <2> DEFINE n == resource[d].for
             A == AllocatorsOf(n)
  <2>1. n \in Interrupts /\ d \in A /\ ~InCall(d)
    BY <1>3 DEF HoldIs, HoldInv, ResourcesAre, Held, AllocatorsOf
  <2>2. n \in stub
    BY <1>3, <2>1 DEF ChainInv, StubsAre, InCall
  <2>3. IsChain(trapHeads[n], ntp, A) /\ A \subseteq Descriptors
    BY <1>3, <2>1 DEF ChainInv, ChainsAre, AllocatorsOf
  <2> HIDE DEF A, n
  <2>4. ASSUME NEW S \in SUBSET Descriptors, trapHeads[n] \in S \cup {NIL},
               \A x \in S : ntp[x] \in S \cup {NIL}
        PROVE  d \in S
    <3> DEFINE T == S \cap A
    <3>1. trapHeads[n] \in T \cup {NIL} /\ \A x \in T : ntp[x] \in T \cup {NIL}
      BY <2>3, <2>4 DEF IsChain
    <3>2. T = A
      BY <2>3, <3>1 DEF IsChain
    <3> QED BY <2>1, <3>2
  <2>5. d \in Chain(n)
    BY <2>1, <2>3, <2>4 DEF Chain
  <2> QED BY <2>2, <2>5 DEF n
<1> QED BY <1>1, <1>2, <1>3, PTL DEF Spec

(* The steps of an interrupt along its chain.                              *)
LEMMA NextWalks ==
    ASSUME InOrder, "early" \notin Allowed, "free in walk" \notin Allowed,
           HoldIs, RestTyped, ChainInv, WalksAllocators, [Next]_vars
    PROVE  WalksAllocators'
<1>0. HoldTyped /\ CallsAre /\ OneCall /\ ResourcesAre
  BY DEF HoldIs, HoldInv
<1>1. ASSUME Quiet, walk' = walk PROVE WalksAllocators'
  <2>1. walk # NIL => resource'[walk] = resource[walk] /\ Kind(walk) = "Trap"
    BY <1>1 DEF Quiet, WalksAllocators, RestTyped
  <2> QED BY <1>1, <2>1 DEF Quiet, WalksAllocators, Kind
<1>2. ASSUME NEW n \in Interrupts, CKforwardGlobalInterrupt(n) PROVE WalksAllocators'
  <2>1. walk' = trapHeads[n] /\ resource' = resource /\ call' = call
    BY <1>2 DEF CKforwardGlobalInterrupt
  <2>2. ASSUME trapHeads[n] # NIL
        PROVE  /\ Kind(trapHeads[n]) = "Trap"
               /\ \A t \in Threads : call[t].res = trapHeads[n] => call[t].at # "fill"
    <3>1. trapHeads[n] \in AllocatorsOf(n)
      BY <2>2 DEF ChainInv, ChainsAre, IsChain
    <3>2. ASSUME NEW t \in Threads, call[t].res = trapHeads[n], call[t].at = "fill" PROVE FALSE
      <4>1. t \in CallsFor(n)
        BY <3>1, <3>2 DEF CallsFor, AllocatorsOf
      <4> QED BY <1>2, <3>2, <4>1 DEF CKforwardGlobalInterrupt
    <3> QED BY <3>1, <3>2 DEF AllocatorsOf
  <2> QED BY <2>1, <2>2 DEF WalksAllocators, Kind
<1>3. ASSUME Dispatch PROVE WalksAllocators'
  <2>1. walk # NIL /\ walk' = ntp[walk] /\ resource' = resource /\ call' = call
    BY <1>3 DEF Dispatch
  <2> DEFINE n == resource[walk].for
  <2>2. n \in Interrupts /\ walk \in AllocatorsOf(n)
    BY <1>0, <2>1 DEF WalksAllocators, RestTyped, ResourcesAre, AllocatorsOf
  <2> HIDE DEF n
  <2>3. ASSUME ntp[walk] # NIL
        PROVE  ntp[walk] \in AllocatorsOf(n) /\ ntp[walk] # trapHeads[n]
    <3>1. IsChain(trapHeads[n], ntp, AllocatorsOf(n))
      BY <2>2 DEF ChainInv, ChainsAre
    <3> QED BY <2>2, <2>3, <3>1 DEF IsChain
  <2>4. ASSUME ntp[walk] # NIL, NEW t \in Threads, call[t].res = ntp[walk], call[t].at = "fill"
        PROVE  FALSE
    <3>1. trapHeads[resource[ntp[walk]].for] = ntp[walk]
      BY <2>4 DEF ChainInv, TrapCallsAre
    <3> QED BY <2>3, <2>4, <3>1 DEF AllocatorsOf
  <2> QED BY <2>1, <2>3, <2>4 DEF WalksAllocators, AllocatorsOf, Kind
<1>4. ASSUME NEW t \in Threads, NEW d \in Descriptors, NEW o \in Threads, NEW n \in Interrupts,
             CKallocTrap(t, d, o, n)
      PROVE  WalksAllocators'
  <2>1. Allocate(d, "Trap", o, n) /\ Goto(t, "fill", d) /\ walk' = walk
    BY <1>4 DEF CKallocTrap
  <2>2. /\ Kind(d) = "Free" /\ \A e \in Descriptors : e # d => resource'[e] = resource[e]
    BY <1>0, <2>1, Allocates DEF Owners, Kinds
  <2>3. call'[t].res = d /\ \A u \in Threads : u # t => call'[u] = call[u]
    BY <1>0, <2>1 DEF Goto, HoldTyped
  <2>4. walk # NIL => walk # d /\ resource'[walk] = resource[walk]
    BY <2>2 DEF WalksAllocators, RestTyped
  <2> QED BY <2>1, <2>3, <2>4 DEF WalksAllocators, Kind
<1>5. ASSUME NEW t \in Threads, NEW d \in Descriptors, CKfreeTrap(t, d) PROVE WalksAllocators'
  <2>1. walk' = walk /\ resource' = resource /\ Goto(t, "unchain", d)
    BY <1>5 DEF CKfreeTrap
  <2>2. call'[t].at = "unchain" /\ \A u \in Threads : u # t => call'[u] = call[u]
    BY <1>0, <2>1 DEF Goto, HoldTyped
  <2> QED BY <2>1, <2>2 DEF WalksAllocators, Kind
<1>6. ASSUME NEW t \in Threads, UnchainTrap(t) PROVE WalksAllocators'
  BY <1>6 DEF UnchainTrap, WalksAllocators
<1> QED BY <1>1, <1>2, <1>3, <1>4, <1>5, <1>6, OtherSteps

(* CKforwardGlobalInterrupt only sends signals for allocators that are     *)
(* allocated and filled in, if moreover no interrupt comes before a new    *)
(* allocator is filled in, and none is freed while its chain is walked.    *)
THEOREM InterruptsWalkAllocators ==
    ASSUME InOrder, "early" \notin Allowed, "free in walk" \notin Allowed
    PROVE  Spec => []WalksAllocators
<1>1. Init => HoldIs /\ RestTyped /\ ChainInv /\ WalksAllocators
  <2>1. Init => WalksAllocators
    BY DEF Init, WalksAllocators
  <2> QED BY <2>1, InitHolds, InitRest, InitChains
<1>2. HoldIs /\ RestTyped /\ ChainInv /\ WalksAllocators /\ [Next]_vars
          => HoldIs' /\ RestTyped' /\ ChainInv' /\ WalksAllocators'
  BY NextHolds, NextRest, NextChains, NextWalks
<1> QED BY <1>1, <1>2, PTL DEF Spec
=============================================================================
