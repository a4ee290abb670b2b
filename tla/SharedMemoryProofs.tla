------------------------- MODULE SharedMemoryProofs -------------------------
(***************************************************************************)
(* Theorems about a shared memory object, for every number of threads,     *)
(* list entries, address spaces and addresses: the two lists stay whole,   *)
(* the object is mapped where threads are attached to it, the walks that   *)
(* have no lock meet allocated entries only, and everyone is told of the   *)
(* end of the object.                                                      *)
(***************************************************************************)
EXTENDS SharedMemory, FiniteSetTheorems, TLAPS

USE SharedMemoryAssumption

-----------------------------------------------------------------------------
(* Chains and lists of entries, for any links.                             *)
Links == [Cells -> Cells \cup {NIL}]

Reach(c, nx) ==
    { d \in Cells :
        \A S \in SUBSET Cells :
            c \in S \cup {NIL} /\ (\A x \in S : nx[x] \in S \cup {NIL}) => d \in S }

(* A is what is met from first on: no two entries have the same successor,  *)
(* none leads back to the first, and there is nothing beside the chain.    *)
IsChain(first, nx, A) ==
    /\ A \subseteq Cells /\ first \in A \cup {NIL}
    /\ \A x \in A : nx[x] \in A \cup {NIL} /\ (nx[x] # NIL => nx[x] # first)
    /\ \A x, y \in A : nx[x] = nx[y] /\ nx[x] # NIL => x = y
    /\ \A S \in SUBSET A :
          first \in S \cup {NIL} /\ (\A x \in S : nx[x] \in S \cup {NIL}) => S = A

IsList(list, nx, A) ==
    /\ IsChain(list.first, nx, A)
    /\ list.last \in A \cup {NIL} /\ (list.first = NIL <=> list.last = NIL)
    /\ \A x \in A : nx[x] = NIL <=> x = list.last

LEMMA ReachIs ==
    ASSUME NEW c, NEW nx, NEW A, IsChain(c, nx, A)
    PROVE  Reach(c, nx) = A
<1>1. /\ A \in SUBSET Cells /\ c \in A \cup {NIL} /\ \A x \in A : nx[x] \in A \cup {NIL}
      /\ \A S \in SUBSET A :
            c \in S \cup {NIL} /\ (\A x \in S : nx[x] \in S \cup {NIL}) => S = A
  BY DEF IsChain
<1>2. Reach(c, nx) \subseteq A
  BY <1>1 DEF Reach
<1>3. ASSUME NEW d \in A, NEW S \in SUBSET Cells,
             c \in S \cup {NIL}, \A x \in S : nx[x] \in S \cup {NIL}
      PROVE  d \in S
  <2>1. S \cap A \in SUBSET A /\ c \in (S \cap A) \cup {NIL}
    BY <1>1, <1>3
  <2>2. \A x \in S \cap A : nx[x] \in (S \cap A) \cup {NIL}
    BY <1>1, <1>3
  <2>3. S \cap A = A
    BY <1>1, <2>1, <2>2
  <2> QED BY <2>3
<1>4. A \subseteq Reach(c, nx)
  BY <1>1, <1>3 DEF Reach
<1> QED BY <1>2, <1>4

(* Links that agree on a chain. *)
LEMMA ChainSame ==
    ASSUME NEW c, NEW nx, NEW new, NEW A, IsChain(c, nx, A), \A x \in A : new[x] = nx[x]
    PROVE  IsChain(c, new, A)
<1>1. ASSUME NEW S \in SUBSET A, c \in S \cup {NIL}, \A x \in S : new[x] \in S \cup {NIL}
      PROVE  S = A
  <2>1. \A x \in S : nx[x] \in S \cup {NIL}
    BY <1>1
  <2> QED BY <1>1, <2>1 DEF IsChain
<1> QED BY <1>1 DEF IsChain

LEMMA ListSame ==
    ASSUME NEW list, NEW nx, NEW new, NEW A, IsList(list, nx, A), \A x \in A : new[x] = nx[x]
    PROVE  IsList(list, new, A)
<1>1. IsChain(list.first, new, A)
  BY ChainSame DEF IsList
<1> QED BY <1>1 DEF IsList

(* A walk goes on along the rest of a chain. *)
LEMMA ChainTail ==
    ASSUME NEW c \in Cells, NEW nx, NEW A, IsChain(c, nx, A)
    PROVE  c \in A /\ IsChain(nx[c], nx, A \ {c})
<1>1. /\ A \subseteq Cells /\ c \in A
      /\ \A x \in A : nx[x] \in A \cup {NIL} /\ (nx[x] # NIL => nx[x] # c)
      /\ \A x, y \in A : nx[x] = nx[y] /\ nx[x] # NIL => x = y
  BY DEF IsChain
<1>2. nx[c] \in (A \ {c}) \cup {NIL} /\ A \ {c} \subseteq Cells
  BY <1>1
<1>3. \A x \in A \ {c} : nx[x] \in (A \ {c}) \cup {NIL} /\ (nx[x] # NIL => nx[x] # nx[c])
  BY <1>1
<1>4. ASSUME NEW S \in SUBSET (A \ {c}), nx[c] \in S \cup {NIL}, \A x \in S : nx[x] \in S \cup {NIL}
      PROVE  S = A \ {c}
  <2>1. S \cup {c} \in SUBSET A /\ c \in (S \cup {c}) \cup {NIL}
    BY <1>1
  <2>2. \A x \in S \cup {c} : nx[x] \in (S \cup {c}) \cup {NIL}
    BY <1>4
  <2>3. S \cup {c} = A
    BY <2>1, <2>2 DEF IsChain
  <2> QED BY <2>3
<1> QED BY <1>1, <1>2, <1>3, <1>4 DEF IsChain

(* What is left of a list with the given last entry from c on.             *)
Rest(c, last) == [first |-> c, last |-> IF c = NIL THEN NIL ELSE last]

LEMMA ListTail ==
    ASSUME NEW c \in Cells, NEW last, NEW nx, NEW A, IsList(Rest(c, last), nx, A)
    PROVE  c \in A /\ IsList(Rest(nx[c], last), nx, A \ {c})
<1>1. Rest(c, last).first = c /\ Rest(c, last).last = last
  BY DEF Rest
<1>2. /\ IsChain(c, nx, A) /\ last \in A \cup {NIL} /\ last # NIL
      /\ \A x \in A : nx[x] = NIL <=> x = last
  BY <1>1 DEF IsList
<1>3. c \in A /\ IsChain(nx[c], nx, A \ {c})
  BY <1>2, ChainTail
<1>4. Rest(nx[c], last).first = nx[c] /\ Rest(nx[c], last).last = IF nx[c] = NIL THEN NIL ELSE last
  BY DEF Rest
<1>5. CASE nx[c] = NIL
  <2>1. last = c
    BY <1>2, <1>3, <1>5
  <2>2. \A x \in A \ {c} : nx[x] # NIL
    BY <1>2, <2>1
  <2> QED BY <1>3, <1>4, <1>5, <2>2 DEF IsList, IsChain
<1>6. CASE nx[c] # NIL
  <2>1. last # c
    BY <1>2, <1>3, <1>6
  <2> QED BY <1>2, <1>3, <1>4, <1>6, <2>1 DEF IsList
<1> QED BY <1>5, <1>6
-----------------------------------------------------------------------------
(* Putting an entry at the end of a list, and taking one out.              *)
LEMMA WithEnd ==
    ASSUME NEW list, NEW nx \in Links, NEW A, IsList(list, nx, A),
           NEW c \in Cells, c \notin A
    PROVE  IsList(With(list, c), Appended(nx, list, c), A \cup {c})
<1> DEFINE new == Appended(nx, list, c)
           B == A \cup {c}
<1>1. /\ A \subseteq Cells /\ list.first \in A \cup {NIL} /\ list.last \in A \cup {NIL}
      /\ (list.first = NIL <=> list.last = NIL)
      /\ \A x \in A : nx[x] \in A \cup {NIL} /\ (nx[x] # NIL => nx[x] # list.first)
      /\ \A x, y \in A : nx[x] = nx[y] /\ nx[x] # NIL => x = y
      /\ \A x \in A : nx[x] = NIL <=> x = list.last
  BY DEF IsList, IsChain
<1>2. \A S \in SUBSET A :
          list.first \in S \cup {NIL} /\ (\A x \in S : nx[x] \in S \cup {NIL}) => S = A
  BY DEF IsList, IsChain
<1>12. list.first = NIL => A = {}
  <2>1. {} \in SUBSET A /\ \A x \in {} : nx[x] \in {} \cup {NIL}
    OBVIOUS
  <2>2. list.first = NIL => list.first \in {} \cup {NIL}
    OBVIOUS
  <2> QED BY <1>2, <2>1, <2>2
<1>3. /\ new[c] = NIL
      /\ \A x \in A : new[x] = IF x = list.last THEN c ELSE nx[x]
  BY <1>1 DEF Appended
<1>4. /\ With(list, c).first = IF list.first = NIL THEN c ELSE list.first
      /\ With(list, c).last = c
  BY DEF With
<1> HIDE DEF new
<1>5. \A x \in B : new[x] \in B \cup {NIL} /\ (new[x] # NIL => new[x] # With(list, c).first)
  <2>1. CASE list.first = NIL
    <3>1. A = {}
      BY <1>12, <2>1
    <3> QED BY <1>3, <3>1
  <2>2. CASE list.first # NIL
    <3>1. list.first \in A
      BY <1>1, <2>2
    <3> QED BY <1>1, <1>3, <1>4, <2>2, <3>1
  <2> QED BY <2>1, <2>2
<1>6. \A x, y \in B : new[x] = new[y] /\ new[x] # NIL => x = y
  <2>1. \A x \in A : nx[x] # c
    BY <1>1
  <2> QED BY <1>1, <1>3, <2>1
<1>7. ASSUME NEW S \in SUBSET B, With(list, c).first \in S \cup {NIL},
             \A x \in S : new[x] \in S \cup {NIL}
      PROVE  S = B
  <2>1. CASE list.first = NIL
    <3>1. A = {} /\ c \in S
      BY <1>4, <1>7, <1>12, <2>1
    <3> QED BY <3>1
  <2>2. CASE list.first # NIL
    <3>1. list.first \in S \cap A /\ list.last \in A
      BY <1>1, <1>4, <1>7, <2>2
    <3>2. ASSUME NEW x \in S \cap A PROVE nx[x] \in (S \cap A) \cup {NIL}
      <4>1. CASE x = list.last
        BY <1>1, <4>1
      <4>2. CASE x # list.last
        BY <1>1, <1>3, <1>7, <4>2
      <4> QED BY <4>1, <4>2
    <3>3. S \cap A = A
      BY <1>2, <3>1, <3>2
    <3>4. c \in S
      BY <1>3, <1>7, <3>1, <3>3
    <3> QED BY <3>3, <3>4
  <2> QED BY <2>1, <2>2
<1>8. With(list, c).first \in B \cup {NIL} /\ B \subseteq Cells
  BY <1>1, <1>4
<1>9. IsChain(With(list, c).first, new, B)
  BY <1>5, <1>6, <1>7, <1>8 DEF IsChain
<1>10. \A x \in B : new[x] = NIL <=> x = With(list, c).last
  BY <1>1, <1>3, <1>4
<1>11. With(list, c).first # NIL
  BY <1>4
<1> QED BY <1>4, <1>9, <1>10, <1>11 DEF IsList, new

(* The entry in front of one that is on a list. *)
LEMMA BeforeIs ==
    ASSUME NEW list, NEW A, IsList(list, next, A), NEW c \in A
    PROVE  /\ Before(list, c) = NIL <=> c = list.first
           /\ Before(list, c) # NIL => Before(list, c) \in A \ {c} /\ next[Before(list, c)] = c
           /\ next[c] # c
<1>1. /\ A \subseteq Cells /\ list.first \in A \cup {NIL}
      /\ \A x \in A : next[x] \in A \cup {NIL} /\ (next[x] # NIL => next[x] # list.first)
      /\ \A x, y \in A : next[x] = next[y] /\ next[x] # NIL => x = y
      /\ \A S \in SUBSET A :
          list.first \in S \cup {NIL} /\ (\A x \in S : next[x] \in S \cup {NIL}) => S = A
  BY DEF IsList, IsChain
<1>2. Members(list) = A
  BY ReachIs DEF Members, Chain, Reach, IsList
<1>3. next[c] # c
  <2> SUFFICES ASSUME next[c] = c PROVE FALSE
    OBVIOUS
  <2>1. c # list.first
    BY <1>1
  <2>2. \A x \in A \ {c} : next[x] \in (A \ {c}) \cup {NIL}
    BY <1>1
  <2>3. A \ {c} = A
    BY <1>1, <2>1, <2>2
  <2> QED BY <2>3
<1>4. CASE c = list.first
  BY <1>3, <1>4 DEF Before
<1>5. CASE c # list.first
  <2>1. \E p \in A : next[p] = c
    <3> SUFFICES ASSUME \A p \in A : next[p] # c PROVE FALSE
      OBVIOUS
    <3>1. \A x \in A \ {c} : next[x] \in (A \ {c}) \cup {NIL}
      BY <1>1
    <3>2. A \ {c} = A
      BY <1>1, <1>5, <3>1
    <3> QED BY <3>2
  <2>2. Before(list, c) \in A /\ next[Before(list, c)] = c
    BY <1>2, <1>5, <2>1 DEF Before
  <2> QED BY <1>1, <1>3, <1>5, <2>2
<1> QED BY <1>4, <1>5

LEMMA WithoutEntry ==
    ASSUME NEW list, next \in Links, NEW A, IsList(list, next, A), NEW c \in A
    PROVE  /\ IsList(Without(list, c), Unlinked(list, c), A \ {c})
           /\ Unlinked(list, c) \in Links
           /\ \A x \in Cells \ A : Unlinked(list, c)[x] = next[x]
<1> DEFINE new == Unlinked(list, c)
           b == Before(list, c)
           B == A \ {c}
<1>1. /\ A \subseteq Cells /\ list.first \in A \cup {NIL} /\ list.last \in A \cup {NIL}
      /\ (list.first = NIL <=> list.last = NIL)
      /\ \A x \in A : next[x] \in A \cup {NIL} /\ (next[x] # NIL => next[x] # list.first)
      /\ \A x, y \in A : next[x] = next[y] /\ next[x] # NIL => x = y
      /\ \A x \in A : next[x] = NIL <=> x = list.last
  BY DEF IsList, IsChain
<1>2. \A S \in SUBSET A :
          list.first \in S \cup {NIL} /\ (\A x \in S : next[x] \in S \cup {NIL}) => S = A
  BY DEF IsList, IsChain
<1>3. /\ b = NIL <=> c = list.first
      /\ b # NIL => b \in A \ {c} /\ next[b] = c
      /\ next[c] # c
  BY BeforeIs
<1>4. /\ Without(list, c).first = IF list.first = c THEN next[c] ELSE list.first
      /\ Without(list, c).last = IF list.last = c THEN b ELSE list.last
  BY DEF Without
<1>5. /\ new \in Links
      /\ \A x \in Cells : new[x] = IF x = b THEN next[c] ELSE next[x]
  <2>1. next[c] \in Cells \cup {NIL} /\ \A x \in Cells : next[x] \in Cells \cup {NIL}
    BY <1>1 DEF Links
  <2> QED BY <2>1 DEF Unlinked, Links
<1> HIDE DEF new, b
<1>6. \A x \in B : new[x] \in B \cup {NIL} /\ (new[x] # NIL => new[x] # Without(list, c).first)
  <2>1. ASSUME NEW x \in B PROVE new[x] \in B \cup {NIL} /\ (new[x] # NIL => new[x] # Without(list, c).first)
    <3>1. CASE x = b
      <4>1. new[x] = next[c] /\ c # list.first
        BY <1>1, <1>3, <1>5, <3>1
      <4> QED BY <1>1, <1>3, <1>4, <4>1
    <3>2. CASE x # b
      <4>1. new[x] = next[x]
        BY <1>1, <1>5, <3>2
      <4>2. next[x] # c
        BY <1>1, <1>3, <3>2
      <4>3. next[c] # NIL => next[x] # next[c]
        BY <1>1
      <4> QED BY <1>1, <1>4, <4>1, <4>2, <4>3
    <3> QED BY <3>1, <3>2
  <2> QED BY <2>1
<1>7. \A x, y \in B : new[x] = new[y] /\ new[x] # NIL => x = y
  BY <1>1, <1>5
<1>8. ASSUME NEW S \in SUBSET B, Without(list, c).first \in S \cup {NIL},
             \A x \in S : new[x] \in S \cup {NIL}
      PROVE  S = B
  <2>1. CASE c = list.first
    <3>1. \A x \in S : new[x] = next[x]
      BY <1>1, <1>3, <1>5, <2>1
    <3>2. \A x \in S \cup {c} : next[x] \in (S \cup {c}) \cup {NIL}
      BY <1>4, <1>8, <2>1, <3>1
    <3>3. S \cup {c} \in SUBSET A /\ list.first \in (S \cup {c}) \cup {NIL}
      BY <2>1
    <3>4. S \cup {c} = A
      BY <1>2, <3>2, <3>3
    <3> QED BY <3>4
  <2>2. CASE c # list.first
    <3>1. b \in B /\ next[b] = c /\ new[b] = next[c] /\ list.first \in S \cup {NIL}
      BY <1>1, <1>3, <1>4, <1>5, <1>8, <2>2
    <3>2. \A x \in S : x # b => new[x] = next[x]
      BY <1>1, <1>5
    <3>3. b \in S
      <4> SUFFICES ASSUME b \notin S PROVE FALSE
        OBVIOUS
      <4>1. \A x \in S : next[x] \in S \cup {NIL}
        BY <1>8, <3>2
      <4>2. S = A
        BY <1>2, <3>1, <4>1
      <4> QED BY <4>2
    <3>4. next[c] \in S \cup {NIL}
      BY <1>8, <3>1, <3>3
    <3>5. \A x \in S \cup {c} : next[x] \in (S \cup {c}) \cup {NIL}
      BY <1>8, <3>1, <3>2, <3>4
    <3>7. S \cup {c} \in SUBSET A /\ list.first \in (S \cup {c}) \cup {NIL}
      BY <3>1
    <3>6. S \cup {c} = A
      BY <1>2, <3>5, <3>7
    <3> QED BY <3>6
  <2> QED BY <2>1, <2>2
<1>9. IsChain(Without(list, c).first, new, B)
  <2>1. Without(list, c).first \in B \cup {NIL} /\ B \subseteq Cells
    BY <1>1, <1>3, <1>4
  <2> QED BY <1>6, <1>7, <1>8, <2>1 DEF IsChain
<1>10. /\ Without(list, c).last \in B \cup {NIL}
       /\ (Without(list, c).first = NIL <=> Without(list, c).last = NIL)
  BY <1>1, <1>3, <1>4
<1>11. \A x \in B : new[x] = NIL <=> x = Without(list, c).last
  BY <1>1, <1>3, <1>4, <1>5
<1>12. \A x \in Cells \ A : new[x] = next[x]
  BY <1>3, <1>5
<1> QED BY <1>5, <1>9, <1>10, <1>11, <1>12 DEF IsList, new
-----------------------------------------------------------------------------
(* Types, and who is where: the owner alone walks, along the invited while *)
(* the object lives and along the others when it is dead.                  *)
Walkers ==
    \A t \in Threads :
        /\ call[t].at \in {"bury", "mourn", "mourned"} => t = Owner /\ dead
        /\ call[t].at = "notify" => t = Owner /\ ~dead

OneInvites ==
    \A t, u \in Threads :
        call[t].at = "invite" /\ call[u].at = "invite" /\ call[t].cell = call[u].cell => t = u

Sound == TypeOK /\ Walkers /\ OneInvites

LEMMA CallsAre ==
    /\ NoCall \in Calls /\ NoCall.at = "idle" /\ NoCall.cell = NIL
    /\ \A c \in Cells : [at |-> "invite", cell |-> c, addr |-> NIL] \in Calls
    /\ \A a \in LogAddrs : [at |-> "attach", cell |-> NIL, addr |-> a] \in Calls
    /\ \A a \in LogAddrs : [at |-> "remap", cell |-> NIL, addr |-> a] \in Calls
    /\ \A a \in LogAddrs \cup {NIL} : [at |-> "detach", cell |-> NIL, addr |-> a] \in Calls
    /\ \A c \in Cells \cup {NIL} : \A at \in {"notify", "bury", "mourn"} :
           [at |-> at, cell |-> c, addr |-> NIL] \in Calls
    /\ \A c \in Cells : [at |-> "mourned", cell |-> c, addr |-> NIL] \in Calls
BY DEF Calls, NoCall

LEMMA CallIs ==
    ASSUME NEW x \in Calls
    PROVE  /\ x.at \in {"idle", "invite", "attach", "detach", "remap", "notify", "bury", "mourn", "mourned"}
           /\ x.at \in {"invite", "mourned"} => x.cell \in Cells
           /\ x.at \in {"attach", "detach", "remap", "idle"} => x.cell = NIL
           /\ x.at \in {"attach", "remap"} => x.addr \in LogAddrs
           /\ x.at = "detach" => x.addr \in LogAddrs \cup {NIL}
           /\ x.cell \in Cells \cup {NIL}
           /\ x.at = "idle" => x = NoCall
BY DEF Calls, NoCall

LEMMA EntriesAre ==
    ASSUME NEW list, NEW t
    PROVE  Entries(list, t) \in Nat
<1>1. { c \in Members(list) : thread[c] = t } \subseteq Cells
  BY DEF Members, Chain
<1>2. IsFiniteSet({ c \in Members(list) : thread[c] = t })
  BY <1>1, FS_Subset
<1> QED BY <1>2, FS_CardinalityType DEF Entries

(* One thread goes on. *)
Moves(t, x) == call' = [call EXCEPT ![t] = x]

LEMMA CallsMove ==
    ASSUME Sound, NEW t \in Threads, NEW x \in Calls, Moves(t, x),
           x.at \in {"bury", "mourn", "mourned"} => t = Owner /\ dead',
           x.at = "notify" => t = Owner /\ ~dead',
           x.at = "invite" => \A u \in Threads : call[u].at = "invite" => call[u].cell # x.cell,
           dead' = dead \/ (t = Owner /\ ~dead /\ dead')
    PROVE  /\ call' \in [Threads -> Calls] /\ Walkers' /\ OneInvites'
           /\ call'[t] = x /\ \A u \in Threads \ {t} : call'[u] = call[u]
<1>1. call \in [Threads -> Calls] /\ Owner \in Threads
  BY DEF Sound, TypeOK
<1>2. /\ call' \in [Threads -> Calls]
      /\ call'[t] = x /\ \A u \in Threads \ {t} : call'[u] = call[u]
  BY <1>1 DEF Moves
<1>3. Walkers'
  <2>1. ASSUME NEW u \in Threads
        PROVE  /\ call'[u].at \in {"bury", "mourn", "mourned"} => u = Owner /\ dead'
               /\ call'[u].at = "notify" => u = Owner /\ ~dead'
    <3>1. CASE u = t
      BY <1>2, <3>1
    <3>2. CASE u # t
      <4>1. call'[u] = call[u]
        BY <1>2, <3>2
      <4> QED BY <3>2, <4>1 DEF Sound, Walkers
    <3> QED BY <3>1, <3>2
  <2> QED BY <2>1 DEF Walkers
<1>4. OneInvites'
  <2>1. ASSUME NEW u \in Threads, NEW v \in Threads, call'[u].at = "invite", call'[v].at = "invite",
               call'[u].cell = call'[v].cell
        PROVE  u = v
    BY <1>2, <2>1 DEF Sound, OneInvites
  <2> QED BY <2>1 DEF OneInvites
<1> QED BY <1>2, <1>3, <1>4

LEMMA GotoMoves ==
    ASSUME NEW t
    PROVE  /\ Return(t) => Moves(t, NoCall)
           /\ \A at, cell, addr : Goto(t, at, cell, addr) => Moves(t, [at |-> at, cell |-> cell, addr |-> addr])
           /\ \A at, cell : Walk(at, cell) => Moves(Owner, [at |-> at, cell |-> cell, addr |-> NIL])
BY DEF Return, Goto, Walk, Moves
-----------------------------------------------------------------------------
(* The invariant of the lists: I are the entries of the invited, A of the   *)
(* attached, and P those of a dead object that are not yet told so.        *)
Inviting == { call[t].cell : t \in { u \in Threads : call[u].at = "invite" } }
Private  == IF call[Owner].at = "bury" THEN call[Owner].cell ELSE NIL

LinksAre(I, A, P) ==
    /\ IsList(Invited, next, I) /\ IsList(Thread, next, A) /\ IsChain(Private, next, P)
    /\ I \cap A = {} /\ P \cap (I \cup A) = {} /\ Inviting \cap (I \cup A \cup P) = {}
    /\ \A c \in I \cup A \cup P \cup Inviting : thread[c] # NIL
    /\ ~dead => \A c \in Cells : thread[c] # NIL => c \in I \cup A \cup Inviting

ListInv == Sound /\ \E I, A, P : LinksAre(I, A, P)

CallsOK == call \in [Threads -> Calls] /\ Walkers /\ OneInvites

(* What an action does to the calls.                                       *)
Begins(t, x) ==
    /\ Moves(t, x)
    /\ x.at \in {"bury", "mourn", "mourned"} => t = Owner /\ dead'
    /\ x.at = "notify" => t = Owner /\ ~dead'
    /\ x.at = "invite" => \A u \in Threads : call[u].at = "invite" => call[u].cell # x.cell
    /\ dead' = dead \/ (t = Owner /\ ~dead /\ dead')

LEMMA StepsMove ==
    ASSUME ListInv, Next
    PROVE  UNCHANGED <<call, dead>> \/ \E t \in Threads, x \in Calls : Begins(t, x)
<1>1. TypeOK /\ Walkers /\ Owner \in Threads /\ call \in [Threads -> Calls]
  BY DEF ListInv, Sound, TypeOK
<1>2. PICK I, A, P : LinksAre(I, A, P)
  BY DEF ListInv
<1>3. ASSUME NEW t \in Threads, Return(t), dead' = dead
      PROVE  Begins(t, NoCall)
  BY <1>3, GotoMoves, CallsAre DEF Begins
<1>4. ASSUME NEW t \in Threads, NEW at \in {"attach", "remap", "detach"}, NEW addr,
             Goto(t, at, NIL, addr), dead' = dead
      PROVE  Begins(t, [at |-> at, cell |-> NIL, addr |-> addr])
  BY <1>4, GotoMoves DEF Begins
<1>5. ASSUME NEW t \in Threads,
             \/ \E u \in Threads, c \in Cells : CKshMemInvite(t, u, c)
             \/ InviteLinks(t)
             \/ \E addr \in LogAddrs : CKshMemAttach(t, addr) \/ CKshMemRemap(t, addr)
             \/ AttachLinks(t) \/ AttachFails(t)
             \/ CKshMemDetach(t) \/ DetachLinks(t) \/ DetachFails(t) \/ Reattach(t)
             \/ CKunloadSHMemObject(t)
      PROVE  UNCHANGED <<call, dead>> \/ \E x \in Calls : Begins(t, x)
  <2>1. ASSUME NEW u \in Threads, NEW c \in Cells, CKshMemInvite(t, u, c)
        PROVE  Begins(t, [at |-> "invite", cell |-> c, addr |-> NIL])
    <3>1. Moves(t, [at |-> "invite", cell |-> c, addr |-> NIL]) /\ dead' = dead /\ thread[c] = NIL
      BY <2>1, GotoMoves DEF CKshMemInvite
    <3>2. ASSUME NEW v \in Threads, call[v].at = "invite" PROVE call[v].cell # c
      BY <1>2, <3>1, <3>2 DEF LinksAre, Inviting
    <3> QED BY <3>1, <3>2 DEF Begins
  <2>2. CASE InviteLinks(t) \/ AttachLinks(t) \/ AttachFails(t) \/ DetachFails(t)
    BY <1>3, <2>2, CallsAre DEF InviteLinks, AttachLinks, AttachFails, DetachFails
  <2>3. ASSUME NEW addr \in LogAddrs, CKshMemAttach(t, addr) \/ CKshMemRemap(t, addr)
        PROVE  \E x \in Calls : Begins(t, x)
    <3>1. PICK at \in {"attach", "detach"} : Goto(t, at, NIL, addr) /\ dead' = dead
      BY <2>3 DEF CKshMemAttach, CKshMemRemap
    <3> QED BY <1>4, <3>1, CallsAre
  <2>4. CASE CKshMemDetach(t)
    <3>1. Goto(t, "detach", NIL, NIL) /\ dead' = dead
      BY <2>4 DEF CKshMemDetach
    <3> QED BY <1>4, <3>1, CallsAre
  <2>5. CASE DetachLinks(t)
    <3>1. call[t].at = "detach" /\ Detached(t) /\ dead' = dead
      BY <2>5 DEF DetachLinks
    <3>2. call[t].addr \in LogAddrs \cup {NIL}
      BY <1>1, <3>1, CallIs
    <3>3. Return(t) \/ (call[t].addr \in LogAddrs /\ Goto(t, "remap", NIL, call[t].addr))
      BY <3>1, <3>2 DEF Detached
    <3> QED BY <1>3, <1>4, <3>1, <3>3, CallsAre
  <2>6. CASE Reattach(t)
    <3>1. call[t].addr \in LogAddrs
      BY <1>1, <2>6, CallIs DEF Reattach
    <3>2. (Return(t) \/ Goto(t, "attach", NIL, call[t].addr)) /\ dead' = dead
      BY <2>6 DEF Reattach
    <3> QED BY <1>3, <1>4, <3>1, <3>2, CallsAre
  <2>7. CASE CKunloadSHMemObject(t)
    <3>1. CASE t = Owner
      <4>1. ~dead /\ dead' = TRUE /\ Walk("bury", Invited.first)
        BY <2>7, <3>1 DEF CKunloadSHMemObject, CKshMemDestroy
      <4>2. Invited.first \in Cells \cup {NIL}
        BY <1>2 DEF LinksAre, IsList, IsChain
      <4> DEFINE x == [at |-> "bury", cell |-> Invited.first, addr |-> NIL]
      <4>3. x \in Calls /\ Moves(t, x)
        BY <3>1, <4>1, <4>2, CallsAre, GotoMoves
      <4> QED BY <3>1, <4>1, <4>3 DEF Begins
    <3>2. CASE t # Owner
      BY <2>7, <3>2 DEF CKunloadSHMemObject
    <3> QED BY <3>1, <3>2
  <2> QED BY <1>5, <2>1, <2>2, <2>3, <2>4, <2>5, <2>6, <2>7, CallsAre
<1>6. CASE CKshMemNotify \/ Notify \/ NotifyEnds \/ Bury \/ Buried \/ Mourn \/ MournNext \/ Freed
  <2>1. next \in Links /\ Invited.first \in Cells \cup {NIL} /\ Thread.first \in Cells \cup {NIL}
    BY <1>1, <1>2 DEF LinksAre, IsList, IsChain, TypeOK, Links
  <2>2. call[Owner] \in Calls
    BY <1>1
  <2>3. \A c \in Cells : next[c] \in Cells \cup {NIL}
    BY <2>1 DEF Links
  <2>4. ASSUME NEW at \in {"notify", "bury", "mourn"}, NEW c \in Cells \cup {NIL},
               Walk(at, c), dead' = dead, at = "notify" => ~dead, at # "notify" => dead
        PROVE  \E x \in Calls : Begins(Owner, x)
    <3> DEFINE x == [at |-> at, cell |-> c, addr |-> NIL]
    <3>1. x \in Calls /\ Moves(Owner, x)
      BY <2>4, CallsAre, GotoMoves
    <3>2. Begins(Owner, x)
      BY <2>4, <3>1 DEF Begins
    <3> QED BY <3>1, <3>2
  <2>5. CASE CKshMemNotify
    BY <2>1, <2>4, <2>5 DEF CKshMemNotify
  <2>6. CASE Notify
    <3>1. call[Owner].cell \in Cells /\ ~dead /\ dead' = dead /\ Walk("notify", next[call[Owner].cell])
      BY <1>1, <2>2, <2>6, CallIs DEF Notify, Notifying, Walkers
    <3> QED BY <2>3, <2>4, <3>1
  <2>7. CASE NotifyEnds
    BY <1>1, <1>3, <2>7, CallsAre DEF NotifyEnds
  <2>8. CASE Bury
    <3>1. call[Owner].cell \in Cells /\ dead /\ dead' = dead /\ Walk("bury", next[call[Owner].cell])
      BY <1>1, <2>2, <2>8, CallIs DEF Bury, Walkers
    <3> QED BY <2>3, <2>4, <3>1
  <2>9. CASE Buried
    <3>1. dead /\ dead' = dead /\ Walk("mourn", Thread.first)
      BY <1>1, <2>9 DEF Buried, Walkers
    <3> QED BY <2>1, <2>4, <3>1
  <2>10. CASE Mourn
    <3>1. call[Owner].cell \in Cells /\ dead /\ dead' = dead /\ Walk("mourned", call[Owner].cell)
      BY <1>1, <2>2, <2>10, CallIs DEF Mourn, Walkers
    <3> DEFINE x == [at |-> "mourned", cell |-> call[Owner].cell, addr |-> NIL]
    <3>2. x \in Calls /\ Moves(Owner, x)
      BY <3>1, CallsAre, GotoMoves
    <3>3. Begins(Owner, x)
      BY <3>1, <3>2 DEF Begins
    <3> QED BY <1>1, <3>2, <3>3
  <2>11. CASE MournNext
    <3>1. call[Owner].cell \in Cells /\ dead /\ dead' = dead /\ Walk("mourn", next[call[Owner].cell])
      BY <1>1, <2>2, <2>11, CallIs DEF MournNext, Walkers
    <3> QED BY <2>3, <2>4, <3>1
  <2>12. CASE Freed
    BY <1>1, <1>3, <2>12, CallsAre DEF Freed
  <2> QED BY <1>1, <1>6, <2>5, <2>6, <2>7, <2>8, <2>9, <2>10, <2>11, <2>12
<1> QED BY <1>5, <1>6 DEF Next

LEMMA NextCalls ==
    ASSUME ListInv, [Next]_vars
    PROVE  CallsOK'
<1>1. CallsOK /\ Sound
  BY DEF ListInv, Sound, TypeOK, CallsOK
<1>2. CASE UNCHANGED <<call, dead>>
  BY <1>1, <1>2 DEF CallsOK, Walkers, OneInvites
<1>3. ASSUME NEW t \in Threads, NEW x \in Calls, Begins(t, x) PROVE CallsOK'
  BY <1>1, <1>3, CallsMove DEF Begins, CallsOK
<1>4. UNCHANGED vars => UNCHANGED <<call, dead>>
  BY DEF vars
<1> QED BY <1>2, <1>3, <1>4, StepsMove-----------------------------------------------------------------------------
(* What a step does to the three sets of entries.                          *)
LEMMA CallsGo ==
    ASSUME call \in [Threads -> Calls], NEW t \in Threads, NEW x, Moves(t, x)
    PROVE  call'[t] = x /\ \A u \in Threads \ {t} : call'[u] = call[u]
BY DEF Moves

Quiet == Inviting' = Inviting /\ Private' = Private

LEMMA QuietCalls ==
    ASSUME TypeOK, NEW t \in Threads, NEW x, Moves(t, x),
           call[t].at \notin {"invite", "bury"}, x.at \notin {"invite", "bury"}
    PROVE  Quiet
<1>1. call'[t] = x /\ \A u \in Threads \ {t} : call'[u] = call[u]
  BY CallsGo DEF TypeOK
<1>2. Inviting' = Inviting
  <2>1. \A u \in Threads : call'[u].at = "invite" <=> call[u].at = "invite"
    BY <1>1
  <2>2. \A u \in Threads : call[u].at = "invite" => call'[u].cell = call[u].cell
    BY <1>1
  <2> QED BY <2>1, <2>2 DEF Inviting
<1>3. Private' = Private
  <2>1. CASE t = Owner
    BY <1>1, <2>1 DEF Private
  <2>2. CASE t # Owner
    <3>1. call'[Owner] = call[Owner]
      BY <1>1, <2>2
    <3> QED BY <3>1 DEF Private
  <2> QED BY <2>1, <2>2
<1> QED BY <1>2, <1>3 DEF Quiet

LEMMA QuietSame ==
    ASSUME UNCHANGED call
    PROVE  Quiet
BY DEF Quiet, Inviting, Private

LEMMA LinksQuiet ==
    ASSUME NEW I, NEW A, NEW P, LinksAre(I, A, P), Quiet,
           UNCHANGED <<Invited, Thread, next, thread, dead>>
    PROVE  LinksAre(I, A, P)'
BY DEF LinksAre, Quiet

(* The facts about the three sets, one by one. *)
LEMMA LinksGive ==
    ASSUME NEW I, NEW A, NEW P, LinksAre(I, A, P)
    PROVE  /\ IsList(Invited, next, I) /\ IsList(Thread, next, A) /\ IsChain(Private, next, P)
           /\ I \subseteq Cells /\ A \subseteq Cells /\ P \subseteq Cells
           /\ I \cap A = {} /\ P \cap (I \cup A) = {} /\ Inviting \cap (I \cup A \cup P) = {}
           /\ \A c \in I \cup A \cup P \cup Inviting : thread[c] # NIL
           /\ ~dead => \A c \in Cells : thread[c] # NIL => c \in I \cup A \cup Inviting
           /\ Members(Invited) = I /\ Members(Thread) = A
<1>1. Members(Invited) = I /\ Members(Thread) = A
  BY ReachIs DEF Members, Chain, Reach, LinksAre, IsList
<1> QED BY <1>1 DEF LinksAre, IsList, IsChain

LEMMA LinksInvite ==
    ASSUME TypeOK, NEW I, NEW A, NEW P, LinksAre(I, A, P),
           NEW t \in Threads, NEW u \in Threads, NEW c \in Cells, CKshMemInvite(t, u, c)
    PROVE  LinksAre(I, A, P)'
<1>1. /\ call[t].at = "idle" /\ thread[c] = NIL /\ UNCHANGED <<Invited, Thread, dead>>
      /\ thread' = [thread EXCEPT ![c] = u] /\ next' = [next EXCEPT ![c] = NIL]
      /\ Moves(t, [at |-> "invite", cell |-> c, addr |-> NIL])
  BY CallsAre, GotoMoves DEF CKshMemInvite, Idle, lists
<1>2. call'[t] = [at |-> "invite", cell |-> c, addr |-> NIL] /\ \A v \in Threads \ {t} : call'[v] = call[v]
  BY <1>1, CallsGo DEF TypeOK
<1>3. c \notin I \cup A \cup P \cup Inviting
  BY <1>1, LinksGive
<1>4. Inviting' = Inviting \cup {c}
  <2>1. \A v \in Threads : call'[v].at = "invite" <=> v = t \/ call[v].at = "invite"
    BY <1>2
  <2>2. \A v \in Threads \ {t} : call'[v].cell = call[v].cell
    BY <1>2
  <2> QED BY <1>1, <1>2, <2>1, <2>2 DEF Inviting
<1>5. Private' = Private
  BY <1>1, <1>2 DEF Private
<1>6. /\ \A d \in Cells \ {c} : thread'[d] = thread[d] /\ next'[d] = next[d]
      /\ thread'[c] # NIL
  BY <1>1 DEF TypeOK
<1>7. IsList(Invited, next', I) /\ IsList(Thread, next', A) /\ IsChain(Private, next', P)
  <2>1. \A d \in I \cup A \cup P : next'[d] = next[d]
    BY <1>3, <1>6, LinksGive
  <2>2. IsList(Invited, next', I)
    BY <2>1, LinksGive, ListSame
  <2>3. IsList(Thread, next', A)
    BY <2>1, LinksGive, ListSame
  <2>4. IsChain(Private, next', P)
    BY <2>1, LinksGive, ChainSame
  <2> QED BY <2>2, <2>3, <2>4
<1>8. \A d \in I \cup A \cup P \cup Inviting' : thread'[d] # NIL
  <2>1. \A d \in I \cup A \cup P \cup Inviting : d \in Cells \ {c} \/ thread'[d] = thread[d]
    <3>1. Inviting \subseteq Cells
      BY CallIs DEF Inviting, TypeOK
    <3> QED BY <1>3, <3>1, LinksGive
  <2> QED BY <1>4, <1>6, <2>1, LinksGive
<1>9. ~dead' => \A d \in Cells : thread'[d] # NIL => d \in I \cup A \cup Inviting'
  BY <1>1, <1>4, <1>6, LinksGive
<1>10. Inviting' \cap (I \cup A \cup P) = {}
  BY <1>3, <1>4, LinksGive
<1>11. I \cap A = {} /\ P \cap (I \cup A) = {}
  BY LinksGive
<1> QED BY <1>1, <1>5, <1>7, <1>8, <1>9, <1>10, <1>11 DEF LinksAre

LEMMA LinksInvited ==
    ASSUME Sound, NEW I, NEW A, NEW P, LinksAre(I, A, P),
           NEW t \in Threads, InviteLinks(t), NEW c, c = call[t].cell, NEW J, J = I \cup {c}
    PROVE  LinksAre(J, A, P)' /\ c \in Cells /\ c \notin I \cup A \cup P
<1>0. TypeOK /\ OneInvites
  BY DEF Sound
<1>1. /\ call[t].at = "invite" /\ UNCHANGED <<Thread, dead, thread>>
      /\ next' = Appended(next, Invited, c) /\ Invited' = With(Invited, c)
      /\ Moves(t, NoCall)
  BY GotoMoves DEF InviteLinks
<1>2. call'[t] = NoCall /\ \A v \in Threads \ {t} : call'[v] = call[v]
  BY <1>0, <1>1, CallsGo DEF TypeOK
<1>3. c \in Inviting /\ c \in Cells
  BY <1>0, <1>1, CallIs DEF Inviting, TypeOK
<1>4. c \notin I \cup A \cup P
  BY <1>3, LinksGive
<1>5. Inviting' = Inviting \ {c}
  <2>1. \A v \in Threads : call'[v].at = "invite" <=> v # t /\ call[v].at = "invite"
    BY <1>2, CallsAre
  <2>2. \A v \in Threads : v # t /\ call[v].at = "invite" => call'[v].cell = call[v].cell /\ call[v].cell # c
    BY <1>0, <1>1, <1>2 DEF OneInvites
  <2>3. \A v \in Threads : call[v].at = "invite" /\ call[v].cell # c => v # t
    OBVIOUS
  <2> QED BY <2>1, <2>2, <2>3 DEF Inviting
<1>6. Private' = Private
  BY <1>1, <1>2, CallsAre DEF Private
<1>7. next \in Links /\ IsList(Invited, next, I) /\ I \cap A = {} /\ P \cap I = {}
  BY <1>0, LinksGive DEF TypeOK, Links
<1>8. IsList(Invited', next', J)
  BY <1>1, <1>3, <1>4, <1>7, WithEnd
<1>9. \A d \in A \cup P : next'[d] = next[d]
  <2>1. Invited.last \notin A \cup P
    <3>1. Invited.last \in I \cup {NIL} /\ NIL \notin Cells
      BY <1>7 DEF IsList
    <3> QED BY <1>7, <3>1, LinksGive
  <2> QED BY <1>1, <1>4, <2>1, LinksGive DEF Appended
<1>10. IsList(Thread, next', A)
  BY <1>9, LinksGive, ListSame
<1>11. IsChain(Private, next', P)
  BY <1>9, LinksGive, ChainSame
<1>12. /\ \A d \in J \cup A \cup P \cup Inviting' : thread[d] # NIL
       /\ ~dead => \A d \in Cells : thread[d] # NIL => d \in J \cup A \cup Inviting'
  BY <1>3, <1>5, LinksGive
<1>13. Inviting' \cap (J \cup A \cup P) = {}
  BY <1>5, LinksGive
<1>14. J \cap A = {} /\ P \cap (J \cup A) = {}
  BY <1>4, LinksGive
<1> QED BY <1>1, <1>3, <1>4, <1>6, <1>8, <1>10, <1>11, <1>12, <1>13, <1>14 DEF LinksAre
(* An entry moves from one list to the end of the other. *)
LEMMA MoveEntry ==
    ASSUME next \in Links, NEW from, NEW to, NEW X, NEW Y, IsList(from, next, X), IsList(to, next, Y),
           X \cap Y = {}, NEW c \in X, NEW new, new = Appended(Unlinked(from, c), to, c)
    PROVE  /\ IsList(Without(from, c), new, X \ {c}) /\ IsList(With(to, c), new, Y \cup {c})
           /\ \A d \in Cells \ (X \cup Y) : new[d] = next[d]
<1> DEFINE mid == Unlinked(from, c)
<1>1. X \subseteq Cells /\ Y \subseteq Cells /\ c \in Cells /\ c \notin Y /\ to.last \in Y \cup {NIL}
  BY DEF IsList, IsChain
<1>2. /\ IsList(Without(from, c), mid, X \ {c}) /\ mid \in Links
      /\ \A d \in Cells \ X : mid[d] = next[d]
  BY WithoutEntry
<1> HIDE DEF mid
<1>3. IsList(to, mid, Y)
  <2>1. \A d \in Y : mid[d] = next[d]
    BY <1>1, <1>2
  <2> QED BY <2>1, ListSame
<1>4. IsList(With(to, c), Appended(mid, to, c), Y \cup {c})
  BY <1>1, <1>2, <1>3, WithEnd
<1>5. \A d \in Cells \ (Y \cup {c}) : new[d] = mid[d]
  BY <1>1 DEF Appended, mid
<1>6. IsList(Without(from, c), new, X \ {c})
  <2>1. \A d \in X \ {c} : new[d] = mid[d]
    BY <1>1, <1>5
  <2> QED BY <1>2, <2>1, ListSame
<1>7. \A d \in Cells \ (X \cup Y) : new[d] = next[d]
  BY <1>2, <1>5
<1> QED BY <1>4, <1>6, <1>7 DEF mid

LEMMA LinksAttach ==
    ASSUME TypeOK, NEW I, NEW A, NEW P, LinksAre(I, A, P), NEW t \in Threads, AttachLinks(t),
           NEW c \in I, Invited' = Without(Invited, c), Thread' = With(Thread, c),
           next' = Appended(Unlinked(Invited, c), Thread, c),
           NEW J, J = I \ {c}, NEW B, B = A \cup {c}
    PROVE  LinksAre(J, B, P)'
<1>1. UNCHANGED <<dead, thread>> /\ call[t].at = "attach" /\ Moves(t, NoCall)
  BY GotoMoves DEF AttachLinks
<1>2. Quiet
  BY <1>1, QuietCalls, CallsAre
<1>3. next \in Links /\ IsList(Invited, next, I) /\ IsList(Thread, next, A) /\ I \cap A = {}
  BY LinksGive DEF TypeOK, Links
<1>4. /\ IsList(Invited', next', J) /\ IsList(Thread', next', B)
      /\ \A d \in Cells \ (I \cup A) : next'[d] = next[d]
  BY <1>3, MoveEntry
<1>5. IsChain(Private, next', P)
  <2>1. P \subseteq Cells \ (I \cup A)
    BY LinksGive
  <2> QED BY <1>4, <2>1, LinksGive, ChainSame
<1>6. J \cup B = I \cup A /\ J \cap B = {}
  BY LinksGive
<1> QED BY <1>1, <1>2, <1>4, <1>5, <1>6, LinksGive DEF LinksAre, Quiet

LEMMA DetachedMoves ==
    ASSUME NEW t, Detached(t)
    PROVE  \E x : Moves(t, x) /\ x.at \in {"idle", "remap"}
<1> DEFINE x == [at |-> "remap", cell |-> NIL, addr |-> call[t].addr]
<1>1. CASE Return(t)
  <2>1. Moves(t, NoCall) /\ NoCall.at \in {"idle", "remap"}
    BY <1>1, GotoMoves, CallsAre
  <2> QED BY <2>1
<1>2. CASE Goto(t, "remap", NIL, call[t].addr)
  <2>1. Moves(t, x) /\ x.at \in {"idle", "remap"}
    BY <1>2, GotoMoves
  <2> QED BY <2>1
<1> QED BY <1>1, <1>2 DEF Detached

(* Whoever detaches from a living object is invited again. *)
LEMMA LinksDetach ==
    ASSUME TypeOK, NEW I, NEW A, NEW P, LinksAre(I, A, P), NEW t \in Threads, DetachLinks(t), ~dead,
           NEW c \in A, Thread' = Without(Thread, c), Invited' = With(Invited, c),
           next' = Appended(Unlinked(Thread, c), Invited, c), UNCHANGED thread,
           NEW J, J = I \cup {c}, NEW B, B = A \ {c}
    PROVE  LinksAre(J, B, P)'
<1>1. UNCHANGED dead /\ call[t].at = "detach" /\ Detached(t)
  BY DEF DetachLinks
<1>2. Quiet
  BY <1>1, DetachedMoves, QuietCalls
<1>3. next \in Links /\ IsList(Invited, next, I) /\ IsList(Thread, next, A) /\ A \cap I = {}
  BY LinksGive DEF TypeOK, Links
<1>4. /\ IsList(Invited', next', J) /\ IsList(Thread', next', B)
      /\ \A d \in Cells \ (A \cup I) : next'[d] = next[d]
  BY <1>3, MoveEntry
<1>5. IsChain(Private, next', P)
  <2>1. P \subseteq Cells \ (A \cup I)
    BY LinksGive
  <2> QED BY <1>4, <2>1, LinksGive, ChainSame
<1>6. J \cup B = I \cup A /\ J \cap B = {}
  BY LinksGive
<1> QED BY <1>1, <1>2, <1>4, <1>5, <1>6, LinksGive DEF LinksAre, Quiet

(* Whoever detaches from a dead object is gone. *)
LEMMA LinksLeave ==
    ASSUME TypeOK, NEW I, NEW A, NEW P, LinksAre(I, A, P), NEW t \in Threads, DetachLinks(t), dead,
           NEW c \in A, Thread' = Without(Thread, c), Invited' = Invited,
           next' = Unlinked(Thread, c), thread' = [thread EXCEPT ![c] = NIL],
           NEW B, B = A \ {c}
    PROVE  LinksAre(I, B, P)'
<1>1. UNCHANGED dead /\ call[t].at = "detach" /\ Detached(t)
  BY DEF DetachLinks
<1>2. Quiet
  BY <1>1, DetachedMoves, QuietCalls
<1>3. next \in Links /\ IsList(Thread, next, A)
  BY LinksGive DEF TypeOK, Links
<1>4. IsList(Thread', next', B) /\ \A d \in Cells \ A : next'[d] = next[d]
  BY <1>3, WithoutEntry
<1>5. IsChain(Private, next', P)
  <2>1. P \subseteq Cells \ A
    BY LinksGive
  <2> QED BY <1>4, <2>1, LinksGive, ChainSame
<1>6. IsList(Invited, next', I)
  <2>1. I \subseteq Cells \ A
    BY LinksGive
  <2> QED BY <1>4, <2>1, LinksGive, ListSame
<1>7. c \notin I \cup P \cup Inviting
  BY LinksGive
<1>8. Inviting \subseteq Cells
  BY CallIs DEF Inviting, TypeOK
<1>9. \A d \in I \cup B \cup P \cup Inviting : thread'[d] # NIL
  BY <1>7, <1>8, LinksGive DEF TypeOK
<1>10. I \cap B = {} /\ P \cap (I \cup B) = {} /\ Inviting \cap (I \cup B \cup P) = {}
  BY LinksGive
<1> QED BY <1>1, <1>2, <1>4, <1>5, <1>6, <1>9, <1>10 DEF LinksAre, Quiet

(* The entries of the invited become private. *)
LEMMA LinksDestroy ==
    ASSUME TypeOK, Walkers, NEW I, NEW A, NEW P, LinksAre(I, A, P), ~dead, CKshMemDestroy,
           UNCHANGED <<Thread, next, thread>>
    PROVE  LinksAre({}, A, I)' /\ P = {}
<1>1. /\ call[Owner].at = "idle" /\ dead' = TRUE /\ Invited' = Empty
      /\ Moves(Owner, [at |-> "bury", cell |-> Invited.first, addr |-> NIL])
  BY GotoMoves, CallsAre DEF CKshMemDestroy, Idle
<1>2. /\ call'[Owner] = [at |-> "bury", cell |-> Invited.first, addr |-> NIL]
      /\ \A u \in Threads \ {Owner} : call'[u] = call[u]
  BY <1>1, CallsGo DEF TypeOK
<1>3. Private = NIL /\ Private' = Invited.first
  BY <1>1, <1>2 DEF Private
<1>4. P = {}
  <2>1. {} \in SUBSET P /\ NIL \in {} \cup {NIL} /\ \A x \in {} : next[x] \in {} \cup {NIL}
    OBVIOUS
  <2>2. IsChain(NIL, next, P)
    BY <1>3, LinksGive
  <2> QED BY <2>1, <2>2 DEF IsChain
<1>5. Inviting' = Inviting
  <2>1. \A u \in Threads : call'[u].at = "invite" <=> call[u].at = "invite"
    BY <1>1, <1>2
  <2>2. \A u \in Threads : call[u].at = "invite" => call'[u].cell = call[u].cell
    BY <1>1, <1>2
  <2> QED BY <2>1, <2>2 DEF Inviting
<1>6. IsList(Empty, next, {})
  BY DEF IsList, IsChain, Empty
<1>7. IsChain(Private', next, I)
  BY <1>3, LinksGive DEF IsList
<1>8. I \cap (A \cup {}) = {} /\ {} \cap A = {} /\ Inviting \cap ({} \cup A \cup I) = {}
  BY LinksGive
<1>9. \A d \in {} \cup A \cup I \cup Inviting : thread[d] # NIL
  BY LinksGive
<1>10. IsList(Thread, next, A)
  BY LinksGive
<1> QED BY <1>1, <1>4, <1>5, <1>6, <1>7, <1>8, <1>9, <1>10 DEF LinksAre

LEMMA LinksBury ==
    ASSUME TypeOK, NEW I, NEW A, NEW P, LinksAre(I, A, P), Walkers, Bury,
           NEW c, c = call[Owner].cell, NEW Q, Q = P \ {c}
    PROVE  LinksAre(I, A, Q)' /\ c \in P
<1>1. /\ call[Owner].at = "bury" /\ c # NIL /\ thread' = [thread EXCEPT ![c] = NIL]
      /\ UNCHANGED <<Invited, Thread, next, dead>> /\ dead
      /\ Moves(Owner, [at |-> "bury", cell |-> next[c], addr |-> NIL])
  BY GotoMoves DEF Bury, Walkers, lists
<1>2. /\ call'[Owner] = [at |-> "bury", cell |-> next[c], addr |-> NIL]
      /\ \A u \in Threads \ {Owner} : call'[u] = call[u]
  BY <1>1, CallsGo DEF TypeOK
<1>3. c \in Cells
  BY <1>1, CallIs DEF TypeOK
<1>4. Private = c /\ Private' = next[c]
  BY <1>1, <1>2 DEF Private
<1>5. c \in P /\ IsChain(next[c], next, Q)
  <2>1. IsChain(c, next, P)
    BY <1>4, LinksGive
  <2> QED BY <1>3, <2>1, ChainTail
<1>6. Inviting' = Inviting
  <2>1. \A u \in Threads : call'[u].at = "invite" <=> call[u].at = "invite"
    BY <1>1, <1>2
  <2>2. \A u \in Threads : call[u].at = "invite" => call'[u].cell = call[u].cell
    BY <1>1, <1>2
  <2> QED BY <2>1, <2>2 DEF Inviting
<1>7. c \notin I \cup A \cup Inviting /\ Q \subseteq P
  BY <1>5, LinksGive
<1>8. Inviting \subseteq Cells
  BY CallIs DEF Inviting, TypeOK
<1>9. \A d \in I \cup A \cup Q \cup Inviting : thread'[d] # NIL
  BY <1>1, <1>7, <1>8, LinksGive DEF TypeOK
<1>10. I \cap A = {} /\ Q \cap (I \cup A) = {} /\ Inviting \cap (I \cup A \cup Q) = {}
  BY <1>7, LinksGive
<1> QED BY <1>1, <1>4, <1>5, <1>6, <1>9, <1>10, LinksGive DEF LinksAre-----------------------------------------------------------------------------
(* Every variable keeps its type. *)
Holders == [first : Cells \cup {NIL}, last : Cells \cup {NIL}]

LEMMA HoldersAre ==
    ASSUME NEW list \in Holders, NEW c \in Cells
    PROVE  /\ Empty \in Holders /\ With(list, c) \in Holders
           /\ list.first \in Cells \cup {NIL} /\ list.last \in Cells \cup {NIL}
BY DEF Holders, Empty, With

LEMMA WithoutIs ==
    ASSUME next \in Links, NEW list \in Holders, NEW A, IsList(list, next, A), NEW c \in A
    PROVE  Without(list, c) \in Holders
<1>1. c \in Cells /\ A \subseteq Cells
  BY DEF IsList, IsChain
<1>2. next[c] \in Cells \cup {NIL} /\ Before(list, c) \in Cells \cup {NIL}
  BY <1>1, BeforeIs DEF Links
<1>3. list.first \in Cells \cup {NIL} /\ list.last \in Cells \cup {NIL}
  BY DEF Holders
<1> QED BY <1>2, <1>3 DEF Without, Holders

LEMMA AppendedIs ==
    ASSUME NEW links \in Links, NEW to, NEW c \in Cells
    PROVE  Appended(links, to, c) \in Links
BY DEF Appended, Links

(* The types of all but the calls. *)
FieldTypes ==
    /\ loaded \in BOOLEAN /\ dead \in BOOLEAN
    /\ Invited \in Holders /\ Thread \in Holders
    /\ next \in Links
    /\ thread \in [Cells -> Threads \cup {NIL}]
    /\ logicalAddr \in [Cells -> LogAddrs \cup {NIL}]
    /\ mapped \in [Spaces -> SUBSET LogAddrs]
    /\ owed \in [Threads -> Int]

LEMMA TypesAre == TypeOK <=> FieldTypes /\ call \in [Threads -> Calls]
BY DEF TypeOK, FieldTypes, Links, Holders

LEMMA FetchIs ==
    ASSUME NEW list, NEW t, NEW c \in fetchThread(list, t)
    PROVE  c \in Members(list) /\ thread[c] = t
BY DEF fetchThread

(* What attaching and detaching do to the entry. *)
AttachOf(t, c) ==
    /\ mapped' = [mapped EXCEPT ![SpaceOf[t]] = @ \cup {call[t].addr}]
    /\ call[t].addr \in mapped[SpaceOf[t]] => "overlap" \in Allowed
    /\ Invited' = Without(Invited, c) /\ Thread' = With(Thread, c)
    /\ next' = Appended(Unlinked(Invited, c), Thread, c)
    /\ logicalAddr' = [logicalAddr EXCEPT ![c] = call[t].addr]

DetachOf(t, c) ==
    /\ mapped' = [mapped EXCEPT ![SpaceOf[t]] = @ \ {logicalAddr[c]}]
    /\ Thread' = Without(Thread, c)
    /\ dead => /\ thread' = [thread EXCEPT ![c] = NIL]
               /\ next' = Unlinked(Thread, c) /\ Invited' = Invited
    /\ ~dead => /\ next' = Appended(Unlinked(Thread, c), Invited, c)
                /\ Invited' = With(Invited, c) /\ UNCHANGED thread

LEMMA AttachIs ==
    ASSUME NEW I, NEW A, NEW P, LinksAre(I, A, P), NEW t \in Threads, AttachLinks(t)
    PROVE  \E c \in I : thread[c] = t /\ AttachOf(t, c)
<1>1. PICK c \in fetchThread(Invited, t) : AttachOf(t, c)
  BY DEF AttachLinks, AttachOf
<1>2. c \in I /\ thread[c] = t
  BY LinksGive, FetchIs
<1> QED BY <1>1, <1>2

LEMMA DetachIs ==
    ASSUME NEW I, NEW A, NEW P, LinksAre(I, A, P), NEW t \in Threads, DetachLinks(t)
    PROVE  \E c \in A : thread[c] = t /\ DetachOf(t, c)
<1>1. PICK c \in fetchThread(Thread, t) : DetachOf(t, c)
  BY DEF DetachLinks, DetachOf, Unmapped
<1>2. c \in A /\ thread[c] = t
  BY LinksGive, FetchIs
<1> QED BY <1>1, <1>2

LEMMA StepsType ==
    ASSUME TypeOK, NEW I, NEW A, NEW P, LinksAre(I, A, P), Next
    PROVE  FieldTypes'
<1>1. FieldTypes /\ call \in [Threads -> Calls] /\ Owner \in Threads
  BY TypesAre
<1>2. /\ IsList(Invited, next, I) /\ IsList(Thread, next, A) /\ I \subseteq Cells /\ A \subseteq Cells
  BY LinksGive
<1>3. ASSUME NEW c, CKsendSignal(c) PROVE owed' \in [Threads -> Int]
  <2>1. owed \in [Threads -> Int] /\ owed' = [owed EXCEPT ![c] = @ - 1]
    BY <1>1, <1>3 DEF FieldTypes, CKsendSignal
  <2>2. owed' = [u \in Threads |-> IF u = c THEN owed[u] - 1 ELSE owed[u]]
    BY <2>1
  <2>3. \A u \in Threads : (IF u = c THEN owed[u] - 1 ELSE owed[u]) \in Int
    BY <2>1
  <2> QED BY <2>2, <2>3
<1>4. Empty \in Holders
  BY DEF Empty, Holders
<1>5. UNCHANGED cells => next' \in Links /\ thread' \in [Cells -> Threads \cup {NIL}]
                         /\ logicalAddr' \in [Cells -> LogAddrs \cup {NIL}]
  BY <1>1 DEF FieldTypes, cells
<1>6. UNCHANGED lists => Invited' \in Holders /\ Thread' \in Holders
  BY <1>1 DEF FieldTypes, lists
<1>7. ASSUME UNCHANGED <<dead, lists, cells, mapped>>, loaded' \in BOOLEAN, owed' \in [Threads -> Int]
      PROVE  FieldTypes'
  BY <1>1, <1>5, <1>6, <1>7 DEF FieldTypes
<1>8. UNCHANGED <<loaded, owed>> => loaded' \in BOOLEAN /\ owed' \in [Threads -> Int]
  BY <1>1 DEF FieldTypes
<1>9. ASSUME NEW t \in Threads, NEW u \in Threads, NEW c \in Cells, CKshMemInvite(t, u, c)
      PROVE  FieldTypes'
  BY <1>1, <1>9 DEF CKshMemInvite, FieldTypes, lists, Links
<1>10. ASSUME NEW t \in Threads, InviteLinks(t)
       PROVE  FieldTypes'
  <2>1. call[t].cell \in Cells
    BY <1>1, <1>10, CallIs DEF InviteLinks
  <2>2. Invited' \in Holders /\ next' \in Links
    BY <1>1, <1>10, <2>1, HoldersAre, AppendedIs DEF InviteLinks, FieldTypes
  <2> QED BY <1>1, <1>10, <2>2 DEF InviteLinks, FieldTypes
<1>11. ASSUME NEW t \in Threads, NEW addr, CKshMemAttach(t, addr) \/ CKshMemRemap(t, addr)
       PROVE  FieldTypes'
  BY <1>7, <1>8, <1>11 DEF CKshMemAttach, CKshMemRemap
<1>12. ASSUME NEW t \in Threads, AttachLinks(t)
       PROVE  FieldTypes'
  <2>1. call[t].addr \in LogAddrs /\ UNCHANGED <<loaded, dead, thread, owed>>
    BY <1>1, <1>12, CallIs DEF AttachLinks
  <2>2. PICK c \in I : AttachOf(t, c)
    BY <1>12, AttachIs
  <2>3. Invited' \in Holders /\ Thread' \in Holders
    BY <1>1, <1>2, <2>2, WithoutIs, HoldersAre DEF FieldTypes, AttachOf
  <2>4. Unlinked(Invited, c) \in Links
    BY <1>1, <1>2, WithoutEntry DEF FieldTypes
  <2>5. next' \in Links
    BY <1>2, <2>2, <2>4, AppendedIs DEF AttachOf
  <2>6. mapped' \in [Spaces -> SUBSET LogAddrs]
    BY <1>1, <2>1, <2>2 DEF FieldTypes, AttachOf
  <2>7. logicalAddr' \in [Cells -> LogAddrs \cup {NIL}]
    BY <1>1, <2>1, <2>2 DEF FieldTypes, AttachOf
  <2> QED BY <1>1, <2>1, <2>3, <2>5, <2>6, <2>7 DEF FieldTypes
<1>13. ASSUME NEW t \in Threads, AttachFails(t) \/ CKshMemDetach(t) \/ DetachFails(t) \/ Reattach(t)
       PROVE  FieldTypes'
  BY <1>7, <1>8, <1>13 DEF AttachFails, CKshMemDetach, DetachFails, Reattach
<1>14. ASSUME NEW t \in Threads, DetachLinks(t)
       PROVE  FieldTypes'
  <2>1. UNCHANGED <<loaded, dead, logicalAddr, owed>>
    BY <1>14 DEF DetachLinks
  <2>2. PICK c \in A : DetachOf(t, c)
    BY <1>14, DetachIs
  <2>3. Thread' \in Holders
    BY <1>1, <1>2, <2>2, WithoutIs DEF FieldTypes, DetachOf
  <2>4. Invited' \in Holders
    BY <1>1, <1>2, <2>2, HoldersAre DEF FieldTypes, DetachOf
  <2>5. Unlinked(Thread, c) \in Links
    BY <1>1, <1>2, WithoutEntry DEF FieldTypes
  <2>6. next' \in Links
    BY <1>2, <2>2, <2>5, AppendedIs DEF DetachOf
  <2>7. mapped' \in [Spaces -> SUBSET LogAddrs]
    BY <1>1, <2>2 DEF FieldTypes, DetachOf
  <2>8. thread' \in [Cells -> Threads \cup {NIL}]
    BY <1>1, <2>2 DEF FieldTypes, DetachOf
  <2> QED BY <1>1, <2>1, <2>3, <2>4, <2>6, <2>7, <2>8 DEF FieldTypes
<1>15. ASSUME NEW t \in Threads, CKunloadSHMemObject(t)
       PROVE  FieldTypes'
  <2>1. Thread' = Thread /\ UNCHANGED cells /\ UNCHANGED mapped
    BY <1>15 DEF CKunloadSHMemObject
  <2>2. owed' \in [Threads -> Int]
    <3>1. owed' = [u \in Threads |-> Entries(Invited, u) + Entries(Thread, u)]
      BY <1>15 DEF CKunloadSHMemObject
    <3>2. \A u : Entries(Invited, u) + Entries(Thread, u) \in Int
      BY EntriesAre
    <3> QED BY <3>1, <3>2
  <2>3. loaded' \in BOOLEAN /\ dead' \in BOOLEAN /\ Invited' \in Holders
    BY <1>1, <1>4, <1>15 DEF CKunloadSHMemObject, CKshMemDestroy, FieldTypes
  <2> QED BY <1>1, <1>5, <2>1, <2>2, <2>3 DEF FieldTypes
<1>16. CASE CKshMemNotify
  <2>1. owed' \in [Threads -> Int]
    <3>1. owed' = [u \in Threads |-> Entries(Invited, u)]
      BY <1>16 DEF CKshMemNotify
    <3>2. \A u : Entries(Invited, u) \in Int
      BY EntriesAre
    <3> QED BY <3>1, <3>2
  <2> QED BY <1>7, <1>1, <1>16, <2>1 DEF CKshMemNotify, FieldTypes
<1>17. CASE Notify \/ Mourn
  BY <1>1, <1>3, <1>7, <1>17 DEF Notify, Mourn, FieldTypes
<1>18. CASE NotifyEnds
  BY <1>1, <1>7, <1>18 DEF NotifyEnds, FieldTypes
<1>19. CASE Bury
  <2>1. thread' \in [Cells -> Threads \cup {NIL}]
    BY <1>1, <1>19 DEF Bury, FieldTypes
  <2>2. owed' \in [Threads -> Int]
    BY <1>3, <1>19 DEF Bury
  <2>3. UNCHANGED <<loaded, dead, lists, next, logicalAddr, mapped>>
    BY <1>19 DEF Bury
  <2> QED BY <1>1, <1>6, <2>1, <2>2, <2>3 DEF FieldTypes
<1>20. CASE Buried \/ MournNext
  BY <1>7, <1>8, <1>20 DEF Buried, MournNext
<1>21. CASE Freed
  BY <1>1, <1>7, <1>21 DEF Freed, FieldTypes
<1> QED BY <1>9, <1>10, <1>11, <1>12, <1>13, <1>14, <1>15, <1>16, <1>17, <1>18, <1>19, <1>20, <1>21 DEF Next-----------------------------------------------------------------------------
(* The steps after which every entry is where it was. *)
Standing ==
    \/ \E t \in Threads :
          \/ \E u \in Threads, c \in Cells : CKshMemInvite(t, u, c)
          \/ \E addr \in LogAddrs : CKshMemAttach(t, addr) \/ CKshMemRemap(t, addr)
          \/ AttachFails(t) \/ CKshMemDetach(t) \/ DetachFails(t) \/ Reattach(t)
          \/ t # Owner /\ CKunloadSHMemObject(t)
    \/ CKshMemNotify \/ Notify \/ NotifyEnds
    \/ Buried \/ Mourn \/ MournNext \/ Freed
    \/ UNCHANGED vars

LEMMA NextIs ==
    ASSUME [Next]_vars
    PROVE  \/ Standing
           \/ \E t \in Threads : InviteLinks(t) \/ AttachLinks(t) \/ DetachLinks(t)
           \/ CKunloadSHMemObject(Owner)
           \/ Bury
BY DEF Next, Standing

LEMMA LinksStand ==
    ASSUME TypeOK, Walkers, NEW I, NEW A, NEW P, LinksAre(I, A, P), Standing
    PROVE  LinksAre(I, A, P)'
<1>1. Owner \in Threads /\ UNCHANGED lists => UNCHANGED <<Invited, Thread>>
  BY DEF lists
<1>2. UNCHANGED cells => UNCHANGED <<next, thread>>
  BY DEF cells
<1>3. ASSUME NEW t \in Threads, NEW x, Moves(t, x), call[t].at \notin {"invite", "bury"},
             x.at \notin {"invite", "bury"}, UNCHANGED <<lists, cells, dead>>
      PROVE  LinksAre(I, A, P)'
  BY <1>1, <1>2, <1>3, QuietCalls, LinksQuiet
<1>4. ASSUME NEW t \in Threads, NEW at \in {"attach", "remap", "detach", "notify", "mourn", "mourned"},
             NEW c, NEW addr, Goto(t, at, c, addr), call[t].at \notin {"invite", "bury"}, UNCHANGED <<lists, cells, dead>>
      PROVE  LinksAre(I, A, P)'
  <2>1. Moves(t, [at |-> at, cell |-> c, addr |-> addr])
    BY <1>4, GotoMoves
  <2> QED BY <1>3, <1>4, <2>1
<1>5. ASSUME NEW t \in Threads, Return(t), call[t].at \notin {"invite", "bury"}, UNCHANGED <<lists, cells, dead>>
      PROVE  LinksAre(I, A, P)'
  BY <1>3, <1>5, GotoMoves, CallsAre
<1>6. ASSUME UNCHANGED <<lists, cells, dead, call>>
      PROVE  LinksAre(I, A, P)'
  BY <1>1, <1>2, <1>6, QuietSame, LinksQuiet
<1>7. ASSUME NEW t \in Threads, Idle(t) PROVE call[t].at \notin {"invite", "bury"}
  BY <1>7, CallsAre DEF Idle
<1>8. ASSUME NEW t \in Threads, NEW u \in Threads, NEW c \in Cells, CKshMemInvite(t, u, c)
      PROVE  LinksAre(I, A, P)'
  BY <1>8, LinksInvite
<1>9. ASSUME NEW t \in Threads, NEW addr, CKshMemAttach(t, addr) \/ CKshMemRemap(t, addr)
      PROVE  LinksAre(I, A, P)'
  BY <1>4, <1>7, <1>9 DEF CKshMemAttach, CKshMemRemap
<1>10. ASSUME NEW t \in Threads, AttachFails(t) \/ CKshMemDetach(t) \/ DetachFails(t)
       PROVE  LinksAre(I, A, P)'
  BY <1>4, <1>5, <1>7, <1>10 DEF AttachFails, CKshMemDetach, DetachFails
<1>11. ASSUME NEW t \in Threads, Reattach(t)
       PROVE  LinksAre(I, A, P)'
  BY <1>4, <1>5, <1>11 DEF Reattach
<1>12. ASSUME NEW t \in Threads, t # Owner, CKunloadSHMemObject(t)
       PROVE  LinksAre(I, A, P)'
  BY <1>2, <1>12, QuietSame, LinksQuiet DEF CKunloadSHMemObject
<1>13. CASE CKshMemNotify
  BY <1>4, <1>7, <1>13 DEF CKshMemNotify, Walk
<1>14. CASE Notify \/ NotifyEnds
  BY <1>4, <1>5, <1>14 DEF Notify, NotifyEnds, Notifying, Walk
<1>15. CASE Mourn \/ MournNext \/ Freed
  BY <1>4, <1>5, <1>15 DEF Mourn, MournNext, Freed, Walk
<1>16. CASE Buried
  <2>1. /\ call[Owner].at = "bury" /\ call[Owner].cell = NIL /\ UNCHANGED <<lists, cells, dead>>
        /\ Moves(Owner, [at |-> "mourn", cell |-> Thread.first, addr |-> NIL])
    BY <1>16, GotoMoves DEF Buried
  <2>2. /\ call'[Owner] = [at |-> "mourn", cell |-> Thread.first, addr |-> NIL]
        /\ \A u \in Threads \ {Owner} : call'[u] = call[u]
    BY <2>1, CallsGo DEF TypeOK
  <2>3. Private' = Private
    BY <2>1, <2>2 DEF Private
  <2>4. Inviting' = Inviting
    <3>1. \A u \in Threads : call'[u].at = "invite" <=> call[u].at = "invite"
      BY <2>1, <2>2
    <3>2. \A u \in Threads : call[u].at = "invite" => call'[u].cell = call[u].cell
      BY <2>1, <2>2
    <3> QED BY <3>1, <3>2 DEF Inviting
  <2>5. Quiet
    BY <2>3, <2>4 DEF Quiet
  <2> QED BY <1>1, <1>2, <2>1, <2>5, LinksQuiet
<1>17. CASE UNCHANGED vars
  BY <1>6, <1>17 DEF vars
<1> QED BY <1>8, <1>9, <1>10, <1>11, <1>12, <1>13, <1>14, <1>15, <1>16, <1>17 DEF Standing

LEMMA StepsLink ==
    ASSUME Sound, NEW I, NEW A, NEW P, LinksAre(I, A, P), [Next]_vars
    PROVE  \E J, B, Q : LinksAre(J, B, Q)'
<1>1. TypeOK /\ Walkers
  BY DEF Sound
<1>2. CASE Standing
  BY <1>1, <1>2, LinksStand
<1>3. ASSUME NEW t \in Threads, InviteLinks(t)
      PROVE  \E J, B, Q : LinksAre(J, B, Q)'
  <2>1. PICK c : c = call[t].cell
    OBVIOUS
  <2>2. PICK J : J = I \cup {c}
    OBVIOUS
  <2>3. LinksAre(J, A, P)'
    BY <1>3, <2>1, <2>2, LinksInvited
  <2> QED BY <2>3
<1>4. ASSUME NEW t \in Threads, AttachLinks(t)
      PROVE  \E J, B, Q : LinksAre(J, B, Q)'
  <2>1. PICK c \in I : AttachOf(t, c)
    BY <1>4, AttachIs
  <2>2. PICK J, B : J = I \ {c} /\ B = A \cup {c}
    OBVIOUS
  <2>3. LinksAre(J, B, P)'
    BY <1>1, <1>4, <2>1, <2>2, LinksAttach DEF AttachOf
  <2> QED BY <2>3
<1>5. ASSUME NEW t \in Threads, DetachLinks(t)
      PROVE  \E J, B, Q : LinksAre(J, B, Q)'
  <2>1. PICK c \in A : DetachOf(t, c)
    BY <1>5, DetachIs
  <2>2. PICK J, B : J = I \cup {c} /\ B = A \ {c}
    OBVIOUS
  <2>3. CASE dead
    <3>1. LinksAre(I, B, P)'
      BY <1>1, <1>5, <2>1, <2>2, <2>3, LinksLeave DEF DetachOf
    <3> QED BY <3>1
  <2>4. CASE ~dead
    <3>1. LinksAre(J, B, P)'
      BY <1>1, <1>5, <2>1, <2>2, <2>4, LinksDetach DEF DetachOf
    <3> QED BY <3>1
  <2> QED BY <2>3, <2>4
<1>6. CASE CKunloadSHMemObject(Owner)
  <2>1. ~dead /\ CKshMemDestroy /\ UNCHANGED <<Thread, next, thread>>
    BY <1>6 DEF CKunloadSHMemObject, cells
  <2>2. LinksAre({}, A, I)'
    BY <1>1, <2>1, LinksDestroy
  <2> QED BY <2>2
<1>7. CASE Bury
  <2>1. PICK c : c = call[Owner].cell
    OBVIOUS
  <2>2. PICK Q : Q = P \ {c}
    OBVIOUS
  <2>3. LinksAre(I, A, Q)'
    BY <1>1, <1>7, <2>1, <2>2, LinksBury
  <2> QED BY <2>3
<1> QED BY <1>2, <1>3, <1>4, <1>5, <1>6, <1>7, NextIs

LEMMA ListInvStep ==
    ASSUME ListInv, [Next]_vars
    PROVE  ListInv'
<1>1. PICK I, A, P : LinksAre(I, A, P)
  BY DEF ListInv
<1>2. Sound /\ TypeOK
  BY DEF ListInv, Sound
<1>3. \E J, B, Q : LinksAre(J, B, Q)'
  BY <1>1, <1>2, StepsLink
<1>4. CallsOK'
  BY NextCalls
<1>5. FieldTypes'
  <2>1. CASE Next
    BY <1>1, <1>2, <2>1, StepsType
  <2>2. CASE UNCHANGED vars
    BY <1>2, <2>2, TypesAre DEF FieldTypes, vars, lists, cells
  <2> QED BY <2>1, <2>2
<1>6. TypeOK'
  BY <1>4, <1>5 DEF CallsOK, TypeOK, FieldTypes, Links, Holders
<1>7. Sound'
  BY <1>4, <1>6 DEF Sound, CallsOK
<1> QED BY <1>3, <1>7 DEF ListInv

LEMMA ListInvInit ==
    ASSUME Init
    PROVE  ListInv
<1>1. \A t \in Threads : call[t] = NoCall
  BY DEF Init
<1>2. TypeOK
  <2>1. next \in Links /\ loaded \in BOOLEAN /\ dead \in BOOLEAN
    BY DEF Init, Links
  <2>5. thread \in [Cells -> Threads \cup {NIL}] /\ logicalAddr \in [Cells -> LogAddrs \cup {NIL}]
    BY DEF Init
  <2>6. mapped \in [Spaces -> SUBSET LogAddrs]
    BY DEF Init
  <2>7. owed \in [Threads -> Int]
    BY DEF Init
  <2>2. Invited \in Holders /\ Thread \in Holders
    BY DEF Init, Empty, Holders
  <2>3. call \in [Threads -> Calls]
    BY CallsAre DEF Init
  <2>4. FieldTypes
    BY <2>1, <2>2, <2>5, <2>6, <2>7 DEF FieldTypes
  <2> QED BY <2>3, <2>4, TypesAre
<1>3. Walkers /\ OneInvites
  BY <1>1, CallsAre DEF Walkers, OneInvites
<1>4. Inviting = {} /\ Private = NIL
  BY <1>1, CallsAre DEF Inviting, Private
<1>5. IsChain(NIL, next, {})
  BY DEF IsChain
<1>6. IsList(Empty, next, {})
  BY <1>5 DEF IsList, Empty
<1>7. Invited = Empty /\ Thread = Empty /\ \A c \in Cells : thread[c] = NIL
  BY DEF Init
<1>8. LinksAre({}, {}, {})
  BY <1>4, <1>5, <1>6, <1>7 DEF LinksAre
<1> QED BY <1>2, <1>3, <1>8 DEF ListInv, Sound

LEMMA ListsAreWhole ==
    ASSUME ListInv
    PROVE  ListsWhole
<1>1. PICK I, A, P : LinksAre(I, A, P)
  BY DEF ListInv
<1>2. Members(Invited) = I /\ Members(Thread) = A
  BY <1>1, LinksGive
<1>3. ASSUME NEW list, NEW X, IsList(list, next, X), Members(list) = X
      PROVE  IF list.first = NIL THEN list.last = NIL
             ELSE list.last \in Members(list) /\ next[list.last] = NIL
  BY <1>3 DEF IsList
<1>4. IsList(Invited, next, I) /\ IsList(Thread, next, A) /\ I \cap A = {}
  BY <1>1, LinksGive
<1>5. ~dead => { c \in Cells : thread[c] # NIL } = I \cup A \cup Inviting
  <2>1. Inviting \subseteq Cells
    BY CallIs DEF Inviting, TypeOK, ListInv, Sound
  <2> QED BY <1>1, <2>1, LinksGive
<1>6. TypeOK
  BY DEF ListInv, Sound
<1>7. ListInv
  OBVIOUS
<1>8. IF Invited.first = NIL THEN Invited.last = NIL
      ELSE Invited.last \in Members(Invited) /\ next[Invited.last] = NIL
  BY <1>2, <1>3, <1>4
<1>9. IF Thread.first = NIL THEN Thread.last = NIL
      ELSE Thread.last \in Members(Thread) /\ next[Thread.last] = NIL
  BY <1>2, <1>3, <1>4
<1> QED BY <1>2, <1>4, <1>5, <1>6, <1>8, <1>9 DEF ListsWhole, Inviting

(* The list of the invited and the list of the attached lead from their     *)
(* first entries to their last ones and share no entry, and no entry of a   *)
(* living object is lost, whoever invites, attaches, detaches, remaps or    *)
(* destroys, and in whatever order the critical sections of shmem.c come.   *)
THEOREM ListsStayWhole == Spec => []ListsWhole
<1>1. Spec => []ListInv
  <2>1. Init => ListInv
    BY ListInvInit
  <2>2. ListInv /\ [Next]_vars => ListInv'
    BY ListInvStep
  <2> QED BY <2>1, <2>2, PTL DEF Spec
<1>2. ListInv => ListsWhole
  BY ListsAreWhole
<1> QED BY <1>1, <1>2, PTL-----------------------------------------------------------------------------
(* Where the object is mapped: A are the entries of the attached, and no    *)
(* two of them have one address in one space.                              *)
MapsAre(A) ==
    /\ \A c \in A : logicalAddr[c] \in LogAddrs
    /\ \A c, d \in A : SpaceOf[thread[c]] = SpaceOf[thread[d]] /\ logicalAddr[c] = logicalAddr[d] => c = d
    /\ \A s \in Spaces : mapped[s] = { logicalAddr[c] : c \in { d \in A : SpaceOf[thread[d]] = s } }

MapInv == Sound /\ \E I, A, P : LinksAre(I, A, P) /\ MapsAre(A)

LEMMA MapsSame ==
    ASSUME NEW A, MapsAre(A), UNCHANGED mapped,
           \A c \in A : thread'[c] = thread[c] /\ logicalAddr'[c] = logicalAddr[c]
    PROVE  MapsAre(A)'
BY DEF MapsAre

LEMMA StandingKeeps ==
    ASSUME TypeOK, NEW I, NEW A, NEW P, LinksAre(I, A, P), Standing
    PROVE  /\ UNCHANGED mapped
           /\ \A c \in I \cup A \cup P : thread'[c] = thread[c] /\ next'[c] = next[c] /\ logicalAddr'[c] = logicalAddr[c]
<1>1. CASE \E t, u \in Threads, c \in Cells : CKshMemInvite(t, u, c)
  <2>1. PICK t \in Threads, u \in Threads, c \in Cells : CKshMemInvite(t, u, c)
    BY <1>1
  <2>2. /\ UNCHANGED mapped /\ thread[c] = NIL
        /\ \A d \in Cells \ {c} : thread'[d] = thread[d] /\ next'[d] = next[d] /\ logicalAddr'[d] = logicalAddr[d]
    BY <2>1 DEF CKshMemInvite, TypeOK
  <2>3. I \cup A \cup P \subseteq Cells \ {c}
    BY <2>2, LinksGive
  <2> QED BY <2>2, <2>3
<1>2. CASE ~(\E t, u \in Threads, c \in Cells : CKshMemInvite(t, u, c))
  <2>1. UNCHANGED cells /\ UNCHANGED mapped
    BY <1>2 DEF Standing, CKshMemAttach, CKshMemRemap, AttachFails, CKshMemDetach, DetachFails, Reattach,
       CKunloadSHMemObject, CKshMemNotify, Notify, NotifyEnds, Buried, Mourn, MournNext, Freed, vars
  <2> QED BY <2>1 DEF cells
<1> QED BY <1>1, <1>2

LEMMA MapsAttach ==
    ASSUME TypeOK, "overlap" \notin Allowed, NEW I, NEW A, NEW P, LinksAre(I, A, P), MapsAre(A),
           NEW t \in Threads, AttachLinks(t), NEW c \in I, thread[c] = t, AttachOf(t, c),
           NEW B, B = A \cup {c}
    PROVE  MapsAre(B)'
<1> DEFINE a == call[t].addr
           s == SpaceOf[t]
<1>1. a \in LogAddrs /\ thread' = thread /\ s \in Spaces /\ c \in Cells /\ c \notin A /\ A \subseteq Cells
  BY LinksGive, CallIs DEF AttachLinks, TypeOK, Spaces
<1>2. a \notin mapped[s] /\ mapped' = [mapped EXCEPT ![s] = @ \cup {a}]
      /\ logicalAddr' = [logicalAddr EXCEPT ![c] = a]
  BY DEF AttachOf
<1>3. logicalAddr'[c] = a /\ \A d \in A : logicalAddr'[d] = logicalAddr[d]
  BY <1>1, <1>2 DEF TypeOK
<1>4. mapped'[s] = mapped[s] \cup {a} /\ \A r \in Spaces : r # s => mapped'[r] = mapped[r]
  BY <1>1, <1>2 DEF TypeOK
<1> HIDE DEF a, s
<1>5. SpaceOf[thread[c]] = s
  BY DEF s
<1>6. \A d \in A : SpaceOf[thread[d]] = s => logicalAddr[d] # a
  BY <1>1, <1>2 DEF MapsAre
<1>7. \A d \in B : logicalAddr'[d] \in LogAddrs
  BY <1>1, <1>3 DEF MapsAre
<1>8. \A d, e \in B : SpaceOf[thread[d]] = SpaceOf[thread[e]] /\ logicalAddr'[d] = logicalAddr'[e] => d = e
  BY <1>3, <1>5, <1>6 DEF MapsAre
<1>9. ASSUME NEW r \in Spaces
      PROVE  mapped'[r] = { logicalAddr'[d] : d \in { e \in B : SpaceOf[thread[e]] = r } }
  <2>1. mapped[r] = { logicalAddr[d] : d \in { e \in A : SpaceOf[thread[e]] = r } }
    BY DEF MapsAre
  <2>2. CASE r = s
    <3>1. { e \in B : SpaceOf[thread[e]] = r } = { e \in A : SpaceOf[thread[e]] = r } \cup {c}
      BY <1>5, <2>2
    <3>2. mapped'[r] = mapped[r] \cup {a}
      BY <1>4, <2>2
    <3> QED BY <1>3, <2>1, <3>1, <3>2
  <2>3. CASE r # s
    <3>1. { e \in B : SpaceOf[thread[e]] = r } = { e \in A : SpaceOf[thread[e]] = r }
      BY <1>5, <2>3
    <3>2. mapped'[r] = mapped[r]
      BY <1>4, <2>3
    <3> QED BY <1>3, <2>1, <3>1, <3>2
  <2> QED BY <2>2, <2>3
<1> QED BY <1>1, <1>7, <1>8, <1>9 DEF MapsAre

LEMMA MapsDetach ==
    ASSUME TypeOK, NEW I, NEW A, NEW P, LinksAre(I, A, P), MapsAre(A),
           NEW t \in Threads, DetachLinks(t), NEW c \in A, thread[c] = t, DetachOf(t, c),
           NEW B, B = A \ {c}
    PROVE  MapsAre(B)'
<1> DEFINE a == logicalAddr[c]
           s == SpaceOf[t]
<1>1. s \in Spaces /\ c \in Cells /\ A \subseteq Cells /\ logicalAddr' = logicalAddr
  BY LinksGive DEF DetachLinks, Spaces
<1>2. mapped' = [mapped EXCEPT ![s] = @ \ {a}]
  BY DEF DetachOf
<1>3. \A d \in B : thread'[d] = thread[d]
  BY <1>1 DEF DetachOf, TypeOK
<1>4. mapped'[s] = mapped[s] \ {a} /\ \A r \in Spaces : r # s => mapped'[r] = mapped[r]
  BY <1>1, <1>2 DEF TypeOK
<1>5. SpaceOf[thread[c]] = s
  BY DEF s
<1>6. \A d \in B : SpaceOf[thread[d]] = s => logicalAddr[d] # a
  BY <1>5 DEF MapsAre
<1> HIDE DEF a, s
<1>7. ASSUME NEW r \in Spaces
      PROVE  mapped'[r] = { logicalAddr[d] : d \in { e \in B : SpaceOf[thread[e]] = r } }
  <2>1. mapped[r] = { logicalAddr[d] : d \in { e \in A : SpaceOf[thread[e]] = r } }
    BY DEF MapsAre
  <2>2. CASE r = s
    <3>1. { e \in A : SpaceOf[thread[e]] = r } = { e \in B : SpaceOf[thread[e]] = r } \cup {c}
      BY <1>5, <2>2
    <3>2. mapped[r] = { logicalAddr[d] : d \in { e \in B : SpaceOf[thread[e]] = r } } \cup {a}
      BY <2>1, <3>1 DEF a
    <3>3. mapped'[r] = mapped[r] \ {a}
      BY <1>4, <2>2
    <3>4. a \notin { logicalAddr[d] : d \in { e \in B : SpaceOf[thread[e]] = r } }
      BY <1>6, <2>2
    <3> QED BY <3>2, <3>3, <3>4
  <2>3. CASE r # s
    <3>1. { e \in B : SpaceOf[thread[e]] = r } = { e \in A : SpaceOf[thread[e]] = r }
      BY <1>5, <2>3
    <3>2. mapped'[r] = mapped[r]
      BY <1>4, <2>3
    <3> QED BY <2>1, <3>1, <3>2
  <2> QED BY <2>2, <2>3
<1>8. ASSUME NEW r PROVE { e \in B : SpaceOf[thread'[e]] = r } = { e \in B : SpaceOf[thread[e]] = r }
  BY <1>3
<1>9. \A r \in Spaces : mapped'[r] = { logicalAddr'[d] : d \in { e \in B : SpaceOf[thread'[e]] = r } }
  BY <1>1, <1>7, <1>8
<1>10. \A d \in B : logicalAddr'[d] \in LogAddrs
  BY <1>1 DEF MapsAre
<1>11. \A d, e \in B : SpaceOf[thread'[d]] = SpaceOf[thread'[e]] /\ logicalAddr'[d] = logicalAddr'[e] => d = e
  BY <1>1, <1>3 DEF MapsAre
<1> QED BY <1>9, <1>10, <1>11 DEF MapsAre

LEMMA StepsMap ==
    ASSUME "overlap" \notin Allowed, MapInv, [Next]_vars
    PROVE  MapInv'
<1>1. PICK I, A, P : LinksAre(I, A, P) /\ MapsAre(A)
  BY DEF MapInv
<1>2. Sound /\ TypeOK /\ Walkers /\ ListInv
  BY <1>1 DEF MapInv, Sound, ListInv
<1>3. Sound'
  BY <1>2, ListInvStep DEF ListInv
<1>4. I \cap A = {} /\ A \cap P = {} /\ A \subseteq Cells
  BY <1>1, LinksGive
<1>5. CASE Standing
  BY <1>1, <1>2, <1>3, <1>5, LinksStand, StandingKeeps, MapsSame DEF MapInv
<1>6. ASSUME NEW t \in Threads, InviteLinks(t)
      PROVE  MapInv'
  <2>1. PICK c : c = call[t].cell
    OBVIOUS
  <2>2. PICK J : J = I \cup {c}
    OBVIOUS
  <2>3. LinksAre(J, A, P)'
    BY <1>1, <1>2, <1>6, <2>1, <2>2, LinksInvited
  <2>4. MapsAre(A)'
    BY <1>1, <1>6, MapsSame DEF InviteLinks
  <2> QED BY <1>3, <2>3, <2>4 DEF MapInv
<1>7. ASSUME NEW t \in Threads, AttachLinks(t)
      PROVE  MapInv'
  <2>1. PICK c \in I : thread[c] = t /\ AttachOf(t, c)
    BY <1>1, <1>7, AttachIs
  <2>2. PICK J, B : J = I \ {c} /\ B = A \cup {c}
    OBVIOUS
  <2>3. LinksAre(J, B, P)'
    BY <1>1, <1>2, <1>7, <2>1, <2>2, LinksAttach DEF AttachOf
  <2>4. MapsAre(B)'
    BY <1>1, <1>2, <1>7, <2>1, <2>2, MapsAttach
  <2> QED BY <1>3, <2>3, <2>4 DEF MapInv
<1>8. ASSUME NEW t \in Threads, DetachLinks(t)
      PROVE  MapInv'
  <2>1. PICK c \in A : thread[c] = t /\ DetachOf(t, c)
    BY <1>1, <1>8, DetachIs
  <2>2. PICK J, B : J = I \cup {c} /\ B = A \ {c}
    OBVIOUS
  <2>3. LinksAre(J, B, P)' \/ LinksAre(I, B, P)'
    <3>1. CASE dead
      BY <1>1, <1>2, <1>8, <2>1, <2>2, <3>1, LinksLeave DEF DetachOf
    <3>2. CASE ~dead
      BY <1>1, <1>2, <1>8, <2>1, <2>2, <3>2, LinksDetach DEF DetachOf
    <3> QED BY <3>1, <3>2
  <2>4. MapsAre(B)'
    BY <1>1, <1>2, <1>8, <2>1, <2>2, MapsDetach
  <2> QED BY <1>3, <2>3, <2>4 DEF MapInv
<1>9. CASE CKunloadSHMemObject(Owner)
  <2>1. ~dead /\ CKshMemDestroy /\ UNCHANGED <<Thread, next, thread, logicalAddr, mapped>>
    BY <1>9 DEF CKunloadSHMemObject, cells
  <2>2. LinksAre({}, A, I)'
    BY <1>1, <1>2, <2>1, LinksDestroy
  <2>3. MapsAre(A)'
    BY <1>1, <2>1, MapsSame
  <2> QED BY <1>3, <2>2, <2>3 DEF MapInv
<1>10. CASE Bury
  <2>1. PICK c : c = call[Owner].cell
    OBVIOUS
  <2>2. PICK Q : Q = P \ {c}
    OBVIOUS
  <2>3. LinksAre(I, A, Q)' /\ c \in P
    BY <1>1, <1>2, <1>10, <2>1, <2>2, LinksBury
  <2>4. UNCHANGED <<mapped, logicalAddr>> /\ \A d \in A : thread'[d] = thread[d]
    BY <1>2, <1>4, <1>10, <2>1, <2>3 DEF Bury, TypeOK
  <2>5. MapsAre(A)'
    BY <1>1, <2>4, MapsSame
  <2> QED BY <1>3, <2>3, <2>5 DEF MapInv
<1> QED BY <1>5, <1>6, <1>7, <1>8, <1>9, <1>10, NextIs

LEMMA MapInvInit ==
    ASSUME Init
    PROVE  MapInv
<1>1. PICK I, A, P : LinksAre(I, A, P)
  BY ListInvInit DEF ListInv
<1>2. A = {}
  <2>1. \A c \in A : c \in Cells /\ thread[c] # NIL
    BY <1>1, LinksGive
  <2> QED BY <2>1 DEF Init
<1>3. MapsAre(A)
  BY <1>2 DEF MapsAre, Init
<1> QED BY <1>1, <1>3, ListInvInit DEF MapInv, ListInv

(* The object is mapped in every space exactly where an entry of the list   *)
(* of the attached says so, whatever is attached, detached and remapped at  *)
(* once, if no two threads of a space attach to it at one address.         *)
THEOREM MappedWhereAttached ==
    ASSUME "overlap" \notin Allowed
    PROVE  Spec => []MappedWhileAttached
<1>1. Spec => []MapInv
  <2>1. Init => MapInv
    BY MapInvInit
  <2>2. MapInv /\ [Next]_vars => MapInv'
    BY StepsMap
  <2> QED BY <2>1, <2>2, PTL DEF Spec
<1>2. MapInv => MappedWhileAttached
  BY LinksGive DEF MapInv, MapsAre, MappedWhileAttached
<1> QED BY <1>1, <1>2, PTL-----------------------------------------------------------------------------
(* Where the walks are, if no call is in progress that the end of the       *)
(* object can overtake: when it is dead nobody is invited, and nobody goes  *)
(* on but its owner.                                                       *)
WalksAre(I, A) ==
    /\ dead => /\ I = {} /\ call[Owner].at \in {"idle", "bury", "mourn", "mourned"}
               /\ \A u \in Threads \ {Owner} : call[u].at \in {"idle", "attach", "remap"}
    /\ call[Owner].at = "notify" => call[Owner].cell \in I \cup A \cup {NIL}
    /\ call[Owner].at \in {"mourn", "mourned"} => call[Owner].cell \in A \cup {NIL}

WalkInv == Sound /\ \E I, A, P : LinksAre(I, A, P) /\ WalksAre(I, A)

LEMMA WalksMove ==
    ASSUME Sound, NEW I, NEW A, WalksAre(I, A), NEW t \in Threads, NEW x, Moves(t, x), UNCHANGED dead,
           x.at \notin {"notify", "mourn", "mourned"}, dead => x.at = "idle",
           NEW J, NEW B, I \cup A \subseteq J \cup B, dead => J = {} /\ B = A
    PROVE  WalksAre(J, B)'
<1>1. call'[t] = x /\ \A u \in Threads \ {t} : call'[u] = call[u]
  BY CallsGo DEF TypeOK, Sound
<1>2. dead' => /\ J = {} /\ call'[Owner].at \in {"idle", "bury", "mourn", "mourned"}
               /\ \A u \in Threads \ {Owner} : call'[u].at \in {"idle", "attach", "remap"}
  <2> SUFFICES ASSUME dead PROVE /\ J = {} /\ call'[Owner].at \in {"idle", "bury", "mourn", "mourned"}
                                 /\ \A u \in Threads \ {Owner} : call'[u].at \in {"idle", "attach", "remap"}
    OBVIOUS
  <2>1. \A u \in Threads : call'[u].at = call[u].at \/ call'[u].at = "idle"
    BY <1>1
  <2> QED BY <2>1 DEF WalksAre
<1>3. call'[Owner].at \in {"notify", "mourn", "mourned"} => call'[Owner] = call[Owner]
  BY <1>1
<1>4. call'[Owner].at = "notify" => call'[Owner].cell \in J \cup B \cup {NIL}
  BY <1>3 DEF WalksAre
<1>5. call'[Owner].at \in {"mourn", "mourned"} => call'[Owner].cell \in B \cup {NIL}
  <2>1. CASE dead
    BY <1>3, <2>1 DEF WalksAre
  <2>2. CASE ~dead
    <3>1. call[Owner].at \notin {"mourn", "mourned"}
      BY <2>2 DEF Sound, Walkers
    <3> QED BY <1>3, <3>1
  <2> QED BY <2>1, <2>2
<1> QED BY <1>2, <1>4, <1>5 DEF WalksAre

LEMMA StandingCalls ==
    ASSUME Sound, NEW I, NEW A, NEW P, LinksAre(I, A, P), WalksAre(I, A), Standing
    PROVE  WalksAre(I, A)'
<1>1. TypeOK /\ Walkers /\ Owner \in Threads /\ NoCall.at = "idle"
  BY CallsAre DEF Sound
<1>2. ASSUME NEW t \in Threads, NEW x, Moves(t, x), UNCHANGED dead,
             x.at \notin {"notify", "mourn", "mourned"}, dead => x.at = "idle"
      PROVE  WalksAre(I, A)'
  <2>1. I \cup A \subseteq I \cup A /\ (dead => I = {} /\ A = A)
    BY DEF WalksAre
  <2> QED BY <1>2, <2>1, WalksMove
<1>3. ASSUME NEW t \in Threads, Return(t), UNCHANGED dead
      PROVE  WalksAre(I, A)'
  BY <1>1, <1>2, <1>3, GotoMoves
<1>4. ASSUME NEW t \in Threads, NEW at \in {"invite", "attach", "remap", "detach"}, NEW c, NEW addr,
             Goto(t, at, c, addr), UNCHANGED dead, ~dead
      PROVE  WalksAre(I, A)'
  <2>1. Moves(t, [at |-> at, cell |-> c, addr |-> addr])
    BY <1>4, GotoMoves
  <2> QED BY <1>2, <1>4, <2>1
<1>5. ASSUME NEW at, NEW c, Walk(at, c), UNCHANGED dead
      PROVE  /\ call'[Owner].at = at /\ call'[Owner].cell = c
             /\ \A u \in Threads \ {Owner} : call'[u] = call[u]
  <2>1. Moves(Owner, [at |-> at, cell |-> c, addr |-> NIL])
    BY <1>5, GotoMoves
  <2> QED BY <1>1, <2>1, CallsGo DEF TypeOK
<1>6. ASSUME NEW c \in I \cup A \cup {NIL}, Walk("notify", c), UNCHANGED dead, ~dead
      PROVE  WalksAre(I, A)'
  BY <1>5, <1>6 DEF WalksAre
<1>7. ASSUME NEW c \in A \cup {NIL}, NEW at \in {"mourn", "mourned"}, Walk(at, c), UNCHANGED dead
      PROVE  WalksAre(I, A)'
  BY <1>5, <1>7 DEF WalksAre
<1>8. /\ Invited.first \in I \cup {NIL} /\ Thread.first \in A \cup {NIL}
      /\ \A c \in I : next[c] \in I \cup {NIL}
      /\ \A c \in A : next[c] \in A \cup {NIL}
      /\ NIL \notin A
  BY LinksGive DEF IsList, IsChain
<1>9. ASSUME NEW t \in Threads,
             \/ \E u \in Threads, c \in Cells : CKshMemInvite(t, u, c)
             \/ \E addr \in LogAddrs : CKshMemAttach(t, addr) \/ CKshMemRemap(t, addr)
             \/ CKshMemDetach(t)
      PROVE  WalksAre(I, A)'
  BY <1>4, <1>9 DEF CKshMemInvite, CKshMemAttach, CKshMemRemap, CKshMemDetach
<1>10. ASSUME NEW t \in Threads, AttachFails(t) \/ DetachFails(t)
       PROVE  WalksAre(I, A)'
  BY <1>3, <1>10 DEF AttachFails, DetachFails
<1>11. ASSUME NEW t \in Threads, Reattach(t)
       PROVE  WalksAre(I, A)'
  BY <1>3, <1>4, <1>11 DEF Reattach
<1>12. ASSUME UNCHANGED <<call, dead>>
       PROVE  WalksAre(I, A)'
  BY <1>12 DEF WalksAre
<1>13. ASSUME NEW t \in Threads, t # Owner, CKunloadSHMemObject(t)
       PROVE  WalksAre(I, A)'
  BY <1>12, <1>13 DEF CKunloadSHMemObject
<1>14. CASE CKshMemNotify
  BY <1>6, <1>8, <1>14 DEF CKshMemNotify
<1>15. CASE Notify
  <2>1. /\ call[Owner].cell \in I \cup A /\ ~dead /\ UNCHANGED dead
        /\ Walk("notify", next[call[Owner].cell])
    BY <1>1, <1>15 DEF Notify, Notifying, WalksAre, Walkers
  <2> QED BY <1>6, <1>8, <2>1
<1>16. CASE NotifyEnds \/ Freed
  BY <1>1, <1>3, <1>16 DEF NotifyEnds, Freed
<1>17. CASE Buried
  BY <1>7, <1>8, <1>17 DEF Buried
<1>18. CASE Mourn
  <2>1. call[Owner].cell \in A /\ UNCHANGED dead /\ Walk("mourned", call[Owner].cell)
    BY <1>18 DEF Mourn, WalksAre
  <2> QED BY <1>7, <2>1
<1>19. CASE MournNext
  <2>1. call[Owner].at = "mourned" /\ call[Owner].cell \in Cells
    BY <1>1, <1>19, CallIs DEF MournNext, TypeOK
  <2>2. call[Owner].cell \in A
    BY <2>1 DEF WalksAre
  <2> QED BY <1>7, <1>8, <1>19, <2>2 DEF MournNext
<1>20. CASE UNCHANGED vars
  BY <1>12, <1>20 DEF vars
<1> QED BY <1>9, <1>10, <1>11, <1>13, <1>14, <1>15, <1>16, <1>17, <1>18, <1>19, <1>20 DEF Standing

LEMMA StepsWalk ==
    ASSUME "late" \notin Allowed, Sound, NEW I, NEW A, NEW P, LinksAre(I, A, P), WalksAre(I, A)
    PROVE  /\ \A t \in Threads : InviteLinks(t) => ~dead
           /\ \A t \in Threads : AttachLinks(t) => ~dead
           /\ \A t \in Threads : DetachLinks(t) => ~dead
<1>1. \A t \in Threads : InviteLinks(t) \/ DetachLinks(t) => ~dead
  BY DEF InviteLinks, DetachLinks, WalksAre
<1>2. ASSUME NEW t \in Threads, AttachLinks(t) PROVE ~dead
  BY <1>2, AttachIs DEF WalksAre
<1> QED BY <1>1, <1>2

LEMMA WalkInvStep ==
    ASSUME "late" \notin Allowed, WalkInv, [Next]_vars
    PROVE  WalkInv'
<1>1. PICK I, A, P : LinksAre(I, A, P) /\ WalksAre(I, A)
  BY DEF WalkInv
<1>2. Sound /\ TypeOK /\ Walkers /\ ListInv /\ NoCall.at = "idle"
  BY <1>1, CallsAre DEF WalkInv, Sound, ListInv
<1>3. Sound'
  BY <1>2, ListInvStep DEF ListInv
<1>4. CASE Standing
  BY <1>1, <1>2, <1>3, <1>4, LinksStand, StandingCalls DEF WalkInv
<1>5. ASSUME NEW t \in Threads, InviteLinks(t)
      PROVE  WalkInv'
  <2>1. PICK c : c = call[t].cell
    OBVIOUS
  <2>2. PICK J : J = I \cup {c}
    OBVIOUS
  <2>3. LinksAre(J, A, P)'
    BY <1>1, <1>2, <1>5, <2>1, <2>2, LinksInvited
  <2>4. ~dead /\ UNCHANGED dead /\ Moves(t, NoCall)
    BY <1>1, <1>2, <1>5, StepsWalk, GotoMoves DEF InviteLinks
  <2>5. WalksAre(J, A)'
    BY <1>1, <1>2, <2>2, <2>4, WalksMove
  <2> QED BY <1>3, <2>3, <2>5 DEF WalkInv
<1>6. ASSUME NEW t \in Threads, AttachLinks(t)
      PROVE  WalkInv'
  <2>1. PICK c \in I : thread[c] = t /\ AttachOf(t, c)
    BY <1>1, <1>6, AttachIs
  <2>2. PICK J, B : J = I \ {c} /\ B = A \cup {c}
    OBVIOUS
  <2>3. LinksAre(J, B, P)'
    BY <1>1, <1>2, <1>6, <2>1, <2>2, LinksAttach DEF AttachOf
  <2>4. ~dead /\ UNCHANGED dead /\ Moves(t, NoCall)
    BY <1>1, <1>2, <1>6, StepsWalk, GotoMoves DEF AttachLinks
  <2>5. WalksAre(J, B)'
    BY <1>1, <1>2, <2>2, <2>4, WalksMove
  <2> QED BY <1>3, <2>3, <2>5 DEF WalkInv
<1>7. ASSUME NEW t \in Threads, DetachLinks(t)
      PROVE  WalkInv'
  <2>1. PICK c \in A : thread[c] = t /\ DetachOf(t, c)
    BY <1>1, <1>7, DetachIs
  <2>2. PICK J, B : J = I \cup {c} /\ B = A \ {c}
    OBVIOUS
  <2>3. ~dead /\ UNCHANGED dead /\ Detached(t)
    BY <1>1, <1>2, <1>7, StepsWalk DEF DetachLinks
  <2>4. LinksAre(J, B, P)'
    BY <1>1, <1>2, <1>7, <2>1, <2>2, <2>3, LinksDetach DEF DetachOf
  <2>5. PICK x : Moves(t, x) /\ x.at \in {"idle", "remap"}
    BY <2>3, DetachedMoves
  <2>6. WalksAre(J, B)'
    BY <1>1, <1>2, <2>2, <2>3, <2>5, WalksMove
  <2> QED BY <1>3, <2>4, <2>6 DEF WalkInv
<1>8. CASE CKunloadSHMemObject(Owner)
  <2>1. ~dead /\ CKshMemDestroy /\ UNCHANGED <<Thread, next, thread>>
    BY <1>8 DEF CKunloadSHMemObject, cells
  <2>2. LinksAre({}, A, I)'
    BY <1>1, <1>2, <2>1, LinksDestroy
  <2>3. Moves(Owner, [at |-> "bury", cell |-> Invited.first, addr |-> NIL])
    BY <2>1, GotoMoves DEF CKshMemDestroy
  <2>4. call'[Owner].at = "bury" /\ \A u \in Threads \ {Owner} : call'[u] = call[u]
    BY <1>2, <2>3, CallsGo DEF TypeOK
  <2>5. \A u \in Threads \ {Owner} : call[u].at \in {"idle", "attach", "remap"}
    BY <1>8 DEF CKunloadSHMemObject
  <2>6. WalksAre({}, A)'
    BY <2>4, <2>5 DEF WalksAre
  <2> QED BY <1>3, <2>2, <2>6 DEF WalkInv
<1>9. CASE Bury
  <2>1. PICK c : c = call[Owner].cell
    OBVIOUS
  <2>2. PICK Q : Q = P \ {c}
    OBVIOUS
  <2>3. LinksAre(I, A, Q)'
    BY <1>1, <1>2, <1>9, <2>1, <2>2, LinksBury
  <2>4. /\ Moves(Owner, [at |-> "bury", cell |-> next[c], addr |-> NIL])
        /\ call[Owner].at = "bury" /\ UNCHANGED dead
    BY <1>9, <2>1, GotoMoves DEF Bury
  <2>5. call'[Owner].at = "bury" /\ \A u \in Threads \ {Owner} : call'[u] = call[u]
    BY <1>2, <2>4, CallsGo DEF TypeOK
  <2>6. WalksAre(I, A)'
    BY <1>1, <2>4, <2>5 DEF WalksAre
  <2> QED BY <1>3, <2>3, <2>6 DEF WalkInv
<1> QED BY <1>4, <1>5, <1>6, <1>7, <1>8, <1>9, NextIs

LEMMA WalkInvInit ==
    ASSUME Init
    PROVE  WalkInv
<1>1. PICK I, A, P : LinksAre(I, A, P)
  BY ListInvInit DEF ListInv
<1>2. ~dead /\ call[Owner] = NoCall
  BY DEF Init
<1>3. WalksAre(I, A)
  BY <1>2, CallsAre DEF WalksAre
<1> QED BY <1>1, <1>3, ListInvInit DEF WalkInv, ListInv

LEMMA WalksMeetAllocated ==
    ASSUME WalkInv
    PROVE  WalksAllocated
<1>1. PICK I, A, P : LinksAre(I, A, P) /\ WalksAre(I, A)
  BY DEF WalkInv
<1>2. call[Owner] \in Calls
  BY DEF WalkInv, Sound, TypeOK
<1> SUFFICES ASSUME call[Owner].cell # NIL PROVE thread[call[Owner].cell] # NIL
  BY DEF WalksAllocated
<1>3. call[Owner].at \in {"invite", "notify", "bury", "mourn", "mourned"}
  BY <1>2, CallIs
<1>4. CASE call[Owner].at = "invite"
  BY <1>1, <1>4, LinksGive DEF Inviting
<1>5. CASE call[Owner].at = "bury"
  BY <1>1, <1>5, LinksGive DEF Private, IsChain
<1>6. CASE call[Owner].at \in {"notify", "mourn", "mourned"}
  BY <1>1, <1>6, LinksGive DEF WalksAre
<1> QED BY <1>3, <1>4, <1>5, <1>6

(* The walks of CKshMemNotify and CKshMemDestroy, which hold no lock, meet  *)
(* only entries that are allocated, whoever invites, attaches, detaches and *)
(* remaps meanwhile, if no such call is overtaken by the end of the object. *)
THEOREM WalksMeetNoFreeEntry ==
    ASSUME "late" \notin Allowed
    PROVE  Spec => []WalksAllocated
<1>1. Spec => []WalkInv
  <2>1. Init => WalkInv
    BY WalkInvInit
  <2>2. WalkInv /\ [Next]_vars => WalkInv'
    BY WalkInvStep
  <2> QED BY <2>1, <2>2, PTL DEF Spec
<1>2. WalkInv => WalksAllocated
  BY WalksMeetAllocated
<1> QED BY <1>1, <1>2, PTL-----------------------------------------------------------------------------
(* How many entries of a set a thread has. *)
CountOf(S, t) == Cardinality({ c \in S : thread[c] = t })

LEMMA CountIs ==
    ASSUME NEW S \in SUBSET Cells, NEW t
    PROVE  CountOf(S, t) \in Nat /\ IsFiniteSet({ c \in S : thread[c] = t })
<1>1. { c \in S : thread[c] = t } \subseteq Cells
  OBVIOUS
<1>2. IsFiniteSet({ c \in S : thread[c] = t })
  BY <1>1, FS_Subset
<1> QED BY <1>2, FS_CardinalityType DEF CountOf

LEMMA CountNone ==
    ASSUME NEW t
    PROVE  CountOf({}, t) = 0
<1>1. { c \in {} : thread[c] = t } = {}
  OBVIOUS
<1> QED BY <1>1, FS_EmptySet DEF CountOf

LEMMA CountLess ==
    ASSUME NEW S \in SUBSET Cells, NEW c \in S, NEW t
    PROVE  CountOf(S \ {c}, t) = IF thread[c] = t THEN CountOf(S, t) - 1 ELSE CountOf(S, t)
<1> DEFINE X == { d \in S : thread[d] = t }
           Y == { d \in S \ {c} : thread[d] = t }
<1>1. IsFiniteSet(X)
  BY CountIs
<1>2. thread[c] = t => c \in X /\ Y = X \ {c}
  OBVIOUS
<1>3. thread[c] # t => Y = X
  OBVIOUS
<1>4. CountOf(S, t) = Cardinality(X) /\ CountOf(S \ {c}, t) = Cardinality(Y)
  BY DEF CountOf
<1> HIDE DEF X, Y
<1>5. thread[c] = t => Cardinality(Y) = Cardinality(X) - 1
  BY <1>1, <1>2, FS_RemoveElement
<1> QED BY <1>3, <1>4, <1>5

LEMMA CountMore ==
    ASSUME NEW S \in SUBSET Cells, NEW c \in Cells, c \notin S, NEW t
    PROVE  CountOf(S, t) <= CountOf(S \cup {c}, t)
<1>1. S \cup {c} \in SUBSET Cells /\ (S \cup {c}) \ {c} = S /\ c \in S \cup {c}
  OBVIOUS
<1>2. CountOf(S, t) = IF thread[c] = t THEN CountOf(S \cup {c}, t) - 1 ELSE CountOf(S \cup {c}, t)
  BY <1>1, CountLess
<1>3. CountOf(S \cup {c}, t) \in Nat
  BY <1>1, CountIs
<1> QED BY <1>2, <1>3

LEMMA CountSame ==
    ASSUME NEW S, NEW t, \A c \in S : thread'[c] = thread[c]
    PROVE  CountOf(S, t)' = CountOf(S, t)
<1>1. { c \in S : thread'[c] = t } = { c \in S : thread[c] = t }
  OBVIOUS
<1> QED BY <1>1 DEF CountOf

(* A signal less is owed to the thread of an entry that is passed. *)
LEMMA CountSignal ==
    ASSUME TypeOK, NEW S \in SUBSET Cells, NEW c \in S, CKsendSignal(thread[c]), NEW t \in Threads
    PROVE  owed'[t] - CountOf(S \ {c}, t) = owed[t] - CountOf(S, t)
<1>1. owed \in [Threads -> Int] /\ owed' = [owed EXCEPT ![thread[c]] = @ - 1]
  BY DEF TypeOK, CKsendSignal
<1>2. owed'[t] = IF thread[c] = t THEN owed[t] - 1 ELSE owed[t]
  BY <1>1
<1>3. CountOf(S, t) \in Nat /\ owed[t] \in Int
  BY <1>1, CountIs
<1> QED BY <1>2, <1>3, CountLess
-----------------------------------------------------------------------------
(* What is owed to each thread on the walks of the owner: R are the entries *)
(* that a walk is still to meet.                                           *)
Telling == "late" \notin Allowed /\ "foreign" \notin Allowed /\ "moving" \notin Allowed

BuryOwes(A, P) ==
    call[Owner].at = "bury" => \A t \in Threads : owed[t] = CountOf(P, t) + CountOf(A, t)

MournOwes(A) ==
    call[Owner].at = "mourn" =>
        \E R \in SUBSET A : /\ IsChain(call[Owner].cell, next, R)
                            /\ \A t \in Threads : owed[t] = CountOf(R, t)

MournedOwes(A) ==
    call[Owner].at = "mourned" =>
        \E R \in SUBSET A : /\ IsChain(call[Owner].cell, next, R)
                            /\ \A t \in Threads : owed[t] = CountOf(R \ {call[Owner].cell}, t)

NotifyOwes(I) ==
    call[Owner].at = "notify" =>
        \E R \in SUBSET I : /\ IsList(Rest(call[Owner].cell, Invited.last), next, R)
                            /\ \A t \in Threads : owed[t] <= CountOf(R, t)

Ended ==
    /\ ~loaded => dead /\ call[Owner].at = "idle"
    /\ dead /\ call[Owner].at = "idle" => \A t \in Threads : owed[t] = 0

TellsAre(I, A, P) ==
    BuryOwes(A, P) /\ MournOwes(A) /\ MournedOwes(A) /\ NotifyOwes(I) /\ Ended

TellInv == Sound /\ \E I, A, P : LinksAre(I, A, P) /\ WalksAre(I, A) /\ TellsAre(I, A, P)

LEMMA TellsIdle ==
    ASSUME NEW I, NEW A, NEW P, call'[Owner].at \notin {"notify", "bury", "mourn", "mourned"}, ~dead', loaded'
    PROVE  TellsAre(I, A, P)'
BY DEF TellsAre, BuryOwes, MournOwes, MournedOwes, NotifyOwes, Ended

LEMMA TellsKeep ==
    ASSUME NEW I, NEW A, NEW P, TellsAre(I, A, P), call'[Owner] = call[Owner],
           UNCHANGED <<owed, dead, loaded, Invited>>,
           \A c \in I \cup A \cup P : thread'[c] = thread[c] /\ next'[c] = next[c]
    PROVE  TellsAre(I, A, P)'
<1>1. \A S \in SUBSET (I \cup A \cup P) : \A t : CountOf(S, t)' = CountOf(S, t)
  <2>1. ASSUME NEW S \in SUBSET (I \cup A \cup P), NEW t PROVE CountOf(S, t)' = CountOf(S, t)
    BY CountSame
  <2> QED BY <2>1
<1>2. BuryOwes(A, P)'
  <2>1. P \in SUBSET (I \cup A \cup P) /\ A \in SUBSET (I \cup A \cup P)
    OBVIOUS
  <2>2. \A t : CountOf(P, t)' = CountOf(P, t) /\ CountOf(A, t)' = CountOf(A, t)
    BY <1>1, <2>1
  <2> QED BY <2>2 DEF TellsAre, BuryOwes
<1>3. MournOwes(A)'
  <2> SUFFICES ASSUME call'[Owner].at = "mourn"
               PROVE  \E R \in SUBSET A : /\ IsChain(call'[Owner].cell, next', R)
                                          /\ \A t \in Threads : owed'[t] = CountOf(R, t)'
    BY DEF MournOwes
  <2>1. PICK R \in SUBSET A : /\ IsChain(call[Owner].cell, next, R)
                              /\ \A t \in Threads : owed[t] = CountOf(R, t)
    BY DEF TellsAre, MournOwes
  <2>2. IsChain(call[Owner].cell, next', R)
    BY <2>1, ChainSame
  <2>3. \A t : CountOf(R, t)' = CountOf(R, t)
    BY <1>1
  <2> QED BY <2>1, <2>2, <2>3
<1>4. MournedOwes(A)'
  <2> SUFFICES ASSUME call'[Owner].at = "mourned"
               PROVE  \E R \in SUBSET A : /\ IsChain(call'[Owner].cell, next', R)
                                          /\ \A t \in Threads : owed'[t] = CountOf(R \ {call[Owner].cell}, t)'
    BY DEF MournedOwes
  <2>1. PICK R \in SUBSET A : /\ IsChain(call[Owner].cell, next, R)
                              /\ \A t \in Threads : owed[t] = CountOf(R \ {call[Owner].cell}, t)
    BY DEF TellsAre, MournedOwes
  <2>2. IsChain(call[Owner].cell, next', R)
    BY <2>1, ChainSame
  <2>3. PICK S : S = R \ {call[Owner].cell}
    OBVIOUS
  <2>4. S \in SUBSET (I \cup A \cup P)
    BY <2>3
  <2>5. \A t : CountOf(S, t)' = CountOf(S, t)
    BY <1>1, <2>4
  <2> QED BY <2>1, <2>2, <2>3, <2>5
<1>5. NotifyOwes(I)'
  <2> SUFFICES ASSUME call'[Owner].at = "notify"
               PROVE  \E R \in SUBSET I : /\ IsList(Rest(call'[Owner].cell, Invited'.last), next', R)
                                          /\ \A t \in Threads : owed'[t] <= CountOf(R, t)'
    BY DEF NotifyOwes
  <2>1. PICK R \in SUBSET I : /\ IsList(Rest(call[Owner].cell, Invited.last), next, R)
                              /\ \A t \in Threads : owed[t] <= CountOf(R, t)
    BY DEF TellsAre, NotifyOwes
  <2>2. IsList(Rest(call[Owner].cell, Invited.last), next', R)
    BY <2>1, ListSame
  <2>3. \A t : CountOf(R, t)' = CountOf(R, t)
    BY <1>1
  <2> QED BY <2>1, <2>2, <2>3
<1>6. Ended'
  BY DEF TellsAre, Ended
<1> QED BY <1>2, <1>3, <1>4, <1>5, <1>6 DEF TellsAre

(* An entry comes to the end of the list that a walk is following. *)
LEMMA TellsGrow ==
    ASSUME NEW I \in SUBSET Cells, NEW A, NEW P, TellsAre(I, A, P), ~dead, ~dead', loaded', call'[Owner] = call[Owner],
           UNCHANGED <<owed, thread>>, Walkers, NEW links \in Links, \A d \in I : links[d] = next[d],
           NEW c \in Cells, c \notin I, Invited' = With(Invited, c), next' = Appended(links, Invited, c),
           NEW J, J = I \cup {c}, NEW B, NEW Q, Owner \in Threads, owed \in [Threads -> Int]
    PROVE  TellsAre(J, B, Q)'
<1>1. call'[Owner].at \notin {"bury", "mourn", "mourned"}
  BY DEF Walkers
<1>2. BuryOwes(B, Q)' /\ MournOwes(B)' /\ MournedOwes(B)' /\ Ended'
  BY <1>1 DEF BuryOwes, MournOwes, MournedOwes, Ended
<1>3. NotifyOwes(J)'
  <2> SUFFICES ASSUME call'[Owner].at = "notify"
               PROVE  \E R \in SUBSET J : /\ IsList(Rest(call'[Owner].cell, Invited'.last), next', R)
                                          /\ \A t \in Threads : owed'[t] <= CountOf(R, t)'
    BY DEF NotifyOwes
  <2>0. PICK w : w = call[Owner].cell
    OBVIOUS
  <2>1. PICK R \in SUBSET I : /\ IsList(Rest(w, Invited.last), next, R)
                              /\ \A t \in Threads : owed[t] <= CountOf(R, t)
    BY <2>0 DEF TellsAre, NotifyOwes
  <2>2. Invited'.last = c
    BY DEF With
  <2>3. \A S : \A t : CountOf(S, t)' = CountOf(S, t)
    BY DEF CountOf
  <2>4. CASE w = NIL
    <3>1. IsList([first |-> NIL, last |-> NIL], next', {})
      BY DEF IsList, IsChain
    <3>2. Rest(w, Invited.last) = [first |-> NIL, last |-> NIL] /\ Rest(w, c) = [first |-> NIL, last |-> NIL]
      BY <2>4 DEF Rest
    <3>3. R = {}
      <4>1. {} \in SUBSET R /\ NIL \in {} \cup {NIL} /\ \A x \in {} : next[x] \in {} \cup {NIL}
        OBVIOUS
      <4>2. IsChain(NIL, next, R)
        BY <2>1, <3>2 DEF IsList
      <4> QED BY <4>1, <4>2 DEF IsChain
    <3>4. {} \in SUBSET J
      OBVIOUS
    <3> QED BY <2>0, <2>1, <2>2, <2>3, <3>1, <3>2, <3>3, <3>4
  <2>5. CASE w # NIL
    <3> DEFINE list == Rest(w, Invited.last)
    <3>1. list.last = Invited.last /\ list.first = w
      BY <2>5 DEF Rest
    <3>2. IsList(list, links, R)
      BY <2>1, ListSame
    <3>3. IsList(With(list, c), Appended(links, list, c), R \cup {c})
      <4>1. c \notin R
        OBVIOUS
      <4> HIDE DEF list
      <4> QED BY <3>2, <4>1, WithEnd
    <3>4. Appended(links, list, c) = next'
      BY <3>1 DEF Appended
    <3>5. With(list, c) = Rest(w, c)
      BY <2>5, <3>1 DEF With, Rest
    <3>6. \A t \in Threads : CountOf(R, t) <= CountOf(R \cup {c}, t)
      <4>1. R \in SUBSET Cells /\ c \notin R
        OBVIOUS
      <4> QED BY <4>1, CountMore
    <3> HIDE DEF list
    <3>7. PICK S : S = R \cup {c}
      OBVIOUS
    <3>8. S \in SUBSET J /\ IsList(Rest(w, c), next', S)
      BY <3>3, <3>4, <3>5, <3>7
    <3>9. ASSUME NEW t \in Threads PROVE owed'[t] <= CountOf(S, t)'
      <4>1. owed[t] <= CountOf(R, t) /\ CountOf(R, t) <= CountOf(S, t)
        BY <2>1, <3>6, <3>7
      <4>2. CountOf(R, t) \in Nat /\ CountOf(S, t) \in Nat
        <5>1. R \in SUBSET Cells /\ S \in SUBSET Cells
          BY <3>7
        <5> QED BY <5>1, CountIs
      <4>3. owed[t] \in Int /\ CountOf(S, t)' = CountOf(S, t)
        BY <2>3
      <4>4. owed[t] <= CountOf(S, t)
        BY <4>1, <4>2, <4>3
      <4> QED BY <4>3, <4>4
    <3> QED BY <2>0, <2>2, <3>8, <3>9
  <2> QED BY <2>4, <2>5
<1> QED BY <1>2, <1>3 DEF TellsAre
LEMMA TellsStand ==
    ASSUME Telling, Sound, NEW I, NEW A, NEW P, LinksAre(I, A, P), WalksAre(I, A), TellsAre(I, A, P), Standing
    PROVE  TellsAre(I, A, P)'
<1>1. TypeOK /\ Walkers /\ Owner \in Threads /\ NoCall.at = "idle"
  BY CallsAre DEF Sound
<1>2. \A c \in I \cup A \cup P : thread'[c] = thread[c] /\ next'[c] = next[c]
  BY <1>1, StandingKeeps
<1>3. I \subseteq Cells /\ A \subseteq Cells /\ P \subseteq Cells /\ Ended
  BY LinksGive DEF TellsAre
<1>4. ASSUME NEW t \in Threads, NEW x, Moves(t, x), UNCHANGED <<owed, dead, loaded, Invited>>,
             x.at \notin {"notify", "bury", "mourn", "mourned"},
             t = Owner => call[t].at \in {"attach", "detach", "remap"} \/ ~dead
      PROVE  TellsAre(I, A, P)'
  <2>1. call'[t] = x /\ \A u \in Threads \ {t} : call'[u] = call[u]
    BY <1>1, <1>4, CallsGo DEF TypeOK
  <2>2. CASE t # Owner
    <3>1. call'[Owner] = call[Owner]
      BY <1>1, <2>1, <2>2
    <3> QED BY <1>2, <1>4, <3>1, TellsKeep
  <2>3. CASE t = Owner
    <3>1. ~dead
      BY <1>4, <2>3 DEF WalksAre
    <3>2. loaded
      BY <1>3, <3>1 DEF Ended
    <3> QED BY <1>4, <2>1, <2>3, <3>1, <3>2, TellsIdle
  <2> QED BY <2>2, <2>3
<1>5. ASSUME NEW t \in Threads, NEW at \in {"invite", "attach", "remap", "detach"}, NEW c, NEW addr,
             Goto(t, at, c, addr), UNCHANGED <<owed, dead, loaded, Invited>>,
             t = Owner => call[t].at \in {"attach", "detach", "remap"} \/ ~dead
      PROVE  TellsAre(I, A, P)'
  <2>1. Moves(t, [at |-> at, cell |-> c, addr |-> addr])
    BY <1>5, GotoMoves
  <2> QED BY <1>4, <1>5, <2>1
<1>6. ASSUME NEW t \in Threads, Return(t), UNCHANGED <<owed, dead, loaded, Invited>>,
             t = Owner => call[t].at \in {"attach", "detach", "remap"} \/ ~dead
      PROVE  TellsAre(I, A, P)'
  BY <1>1, <1>4, <1>6, GotoMoves
<1>7. ASSUME NEW t \in Threads,
             \/ \E u \in Threads, c \in Cells : CKshMemInvite(t, u, c)
             \/ \E addr \in LogAddrs : CKshMemAttach(t, addr) \/ CKshMemRemap(t, addr)
             \/ CKshMemDetach(t)
      PROVE  TellsAre(I, A, P)'
  BY <1>5, <1>7 DEF CKshMemInvite, CKshMemAttach, CKshMemRemap, CKshMemDetach, lists
<1>8. ASSUME NEW t \in Threads, AttachFails(t) \/ DetachFails(t)
      PROVE  TellsAre(I, A, P)'
  BY <1>6, <1>8 DEF AttachFails, DetachFails, lists
<1>9. ASSUME NEW t \in Threads, Reattach(t)
      PROVE  TellsAre(I, A, P)'
  BY <1>5, <1>6, <1>9 DEF Reattach, lists
<1>10. ASSUME NEW t \in Threads, t # Owner, CKunloadSHMemObject(t)
       PROVE  FALSE
  BY <1>10 DEF CKunloadSHMemObject, Telling
<1>11. ASSUME NEW at, NEW c, Walk(at, c)
       PROVE  call'[Owner].at = at /\ call'[Owner].cell = c
  <2>1. Moves(Owner, [at |-> at, cell |-> c, addr |-> NIL])
    BY <1>11, GotoMoves
  <2> QED BY <1>1, <2>1, CallsGo DEF TypeOK
<1>12. CASE CKshMemNotify
  <2>1. /\ call'[Owner].at = "notify" /\ call'[Owner].cell = Invited.first
        /\ owed' = [t \in Threads |-> Entries(Invited, t)]
        /\ UNCHANGED <<loaded, dead, Invited, next, thread>> /\ ~dead /\ loaded
    BY <1>11, <1>12 DEF CKshMemNotify, lists, cells
  <2>2. \A t \in Threads : owed'[t] = CountOf(I, t)
    BY <2>1, LinksGive DEF Entries, CountOf
  <2>3. IsList(Rest(Invited.first, Invited.last), next, I)
    <3>1. IsList(Invited, next, I)
      BY LinksGive
    <3>2. Rest(Invited.first, Invited.last).first = Invited.first
          /\ Rest(Invited.first, Invited.last).last = Invited.last
      BY <3>1 DEF Rest, IsList
    <3> QED BY <3>1, <3>2 DEF IsList
  <2>4. \A t \in Threads : owed'[t] <= CountOf(I, t)'
    <3>1. \A t \in Threads : CountOf(I, t)' = CountOf(I, t) /\ CountOf(I, t) \in Nat
      BY <1>3, <2>1, CountSame, CountIs
    <3> QED BY <2>2, <3>1
  <2>5. NotifyOwes(I)'
    <3>1. I \in SUBSET I
      OBVIOUS
    <3> QED BY <2>1, <2>3, <2>4, <3>1 DEF NotifyOwes
  <2> QED BY <2>1, <2>5 DEF TellsAre, BuryOwes, MournOwes, MournedOwes, Ended
<1>13. CASE Notify
  <2>0. PICK c : c = call[Owner].cell
    OBVIOUS
  <2>1. /\ call[Owner].at = "notify" /\ c # NIL /\ CKsendSignal(thread[c])
        /\ call'[Owner].at = "notify" /\ call'[Owner].cell = next[c]
        /\ UNCHANGED <<loaded, dead, Invited, next, thread>>
    BY <1>11, <1>13, <2>0 DEF Notify, Notifying, lists, cells
  <2>2. ~dead /\ loaded /\ c \in Cells
    BY <1>1, <1>3, <2>0, <2>1, CallIs DEF Walkers, Ended, TypeOK
  <2>3. PICK R \in SUBSET I : /\ IsList(Rest(c, Invited.last), next, R)
                              /\ \A t \in Threads : owed[t] <= CountOf(R, t)
    BY <2>0, <2>1 DEF TellsAre, NotifyOwes
  <2>4. c \in R /\ IsList(Rest(next[c], Invited.last), next, R \ {c})
    BY <2>2, <2>3, ListTail
  <2>5. PICK S : S = R \ {c}
    OBVIOUS
  <2>6. ASSUME NEW t \in Threads PROVE owed'[t] <= CountOf(S, t)'
    <3>1. owed'[t] - CountOf(S, t) = owed[t] - CountOf(R, t)
      BY <1>1, <1>3, <2>1, <2>4, <2>5, CountSignal
    <3>2. CountOf(S, t) \in Nat /\ CountOf(R, t) \in Nat
      <4>1. S \in SUBSET Cells /\ R \in SUBSET Cells
        BY <1>3, <2>5
      <4> QED BY <4>1, CountIs
    <3>3. owed[t] \in Int /\ owed'[t] \in Int
      <4>1. owed \in [Threads -> Int] /\ owed' = [owed EXCEPT ![thread[c]] = @ - 1]
        BY <1>1, <2>1 DEF TypeOK, CKsendSignal
      <4>2. owed'[t] = IF thread[c] = t THEN owed[t] - 1 ELSE owed[t]
        BY <4>1
      <4> QED BY <4>1, <4>2
    <3>4. CountOf(S, t)' = CountOf(S, t)
      BY <2>1, CountSame
    <3>5. owed[t] <= CountOf(R, t)
      BY <2>3
    <3> QED BY <3>1, <3>2, <3>3, <3>4, <3>5
  <2>7. NotifyOwes(I)'
    <3>1. S \in SUBSET I /\ IsList(Rest(next[c], Invited.last), next, S)
      BY <2>4, <2>5
    <3> QED BY <2>1, <2>6, <3>1 DEF NotifyOwes
  <2> QED BY <2>1, <2>2, <2>7 DEF TellsAre, BuryOwes, MournOwes, MournedOwes, Ended
<1>14. CASE NotifyEnds
  <2>1. ~dead /\ UNCHANGED <<dead, loaded>> /\ Moves(Owner, NoCall)
    BY <1>1, <1>14, GotoMoves DEF NotifyEnds, Notifying, Walkers
  <2>2. call'[Owner] = NoCall
    BY <1>1, <2>1, CallsGo DEF TypeOK
  <2> QED BY <1>1, <1>3, <2>1, <2>2, TellsIdle DEF Ended
<1>15. CASE Buried
  <2>1. /\ call[Owner].at = "bury" /\ call[Owner].cell = NIL
        /\ call'[Owner].at = "mourn" /\ call'[Owner].cell = Thread.first
        /\ UNCHANGED <<loaded, dead, next, thread, owed>>
    BY <1>11, <1>15 DEF Buried, cells
  <2>2. P = {}
    <3>1. IsChain(NIL, next, P)
      BY <2>1, LinksGive DEF Private
    <3>2. {} \in SUBSET P /\ NIL \in {} \cup {NIL} /\ \A x \in {} : next[x] \in {} \cup {NIL}
      OBVIOUS
    <3> QED BY <3>1, <3>2 DEF IsChain
  <2>3. \A t \in Threads : owed'[t] = CountOf(A, t)'
    <3>1. \A t \in Threads : CountOf(A, t)' = CountOf(A, t) /\ CountOf(A, t) \in Nat
      BY <1>3, <2>1, CountSame, CountIs
    <3>2. \A t \in Threads : owed[t] = CountOf({}, t) + CountOf(A, t)
      BY <2>1, <2>2 DEF TellsAre, BuryOwes
    <3> QED BY <2>1, <3>1, <3>2, CountNone
  <2>4. IsChain(Thread.first, next, A)
    BY LinksGive DEF IsList
  <2>5. MournOwes(A)'
    <3>1. A \in SUBSET A
      OBVIOUS
    <3> QED BY <2>1, <2>3, <2>4, <3>1 DEF MournOwes
  <2>6. ~dead => loaded
    BY <1>3 DEF Ended
  <2>7. dead
    BY <1>1, <2>1 DEF Walkers
  <2>8. loaded
    BY <1>3, <2>1 DEF Ended
  <2> QED BY <2>1, <2>5, <2>7, <2>8 DEF TellsAre, BuryOwes, NotifyOwes, MournedOwes, Ended
<1>16. CASE Mourn
  <2>0. PICK c : c = call[Owner].cell
    OBVIOUS
  <2>1. /\ call[Owner].at = "mourn" /\ c # NIL /\ CKsendSignal(thread[c])
        /\ call'[Owner].at = "mourned" /\ call'[Owner].cell = c
        /\ UNCHANGED <<loaded, dead, next, thread>>
    BY <1>11, <1>16, <2>0 DEF Mourn, cells
  <2>2. c \in Cells /\ loaded
    BY <1>1, <1>3, <2>0, <2>1, CallIs DEF Ended, TypeOK
  <2>3. PICK R \in SUBSET A : IsChain(c, next, R) /\ \A t \in Threads : owed[t] = CountOf(R, t)
    BY <2>0, <2>1 DEF TellsAre, MournOwes
  <2>4. c \in R
    BY <2>2, <2>3, ChainTail
  <2>5. PICK S : S = R \ {c}
    OBVIOUS
  <2>6. ASSUME NEW t \in Threads PROVE owed'[t] = CountOf(S, t)'
    <3>1. owed'[t] - CountOf(S, t) = owed[t] - CountOf(R, t)
      BY <1>1, <1>3, <2>1, <2>4, <2>5, CountSignal
    <3>2. CountOf(S, t) \in Nat /\ CountOf(R, t) \in Nat
      <4>1. S \in SUBSET Cells /\ R \in SUBSET Cells
        BY <1>3, <2>5
      <4> QED BY <4>1, CountIs
    <3>3. owed[t] \in Int /\ owed'[t] \in Int
      <4>1. owed \in [Threads -> Int] /\ owed' = [owed EXCEPT ![thread[c]] = @ - 1]
        BY <1>1, <2>1 DEF TypeOK, CKsendSignal
      <4>2. owed'[t] = IF thread[c] = t THEN owed[t] - 1 ELSE owed[t]
        BY <4>1
      <4> QED BY <4>1, <4>2
    <3>4. CountOf(S, t)' = CountOf(S, t)
      BY <2>1, CountSame
    <3>5. owed[t] = CountOf(R, t)
      BY <2>3
    <3> QED BY <3>1, <3>2, <3>3, <3>4, <3>5
  <2>7. MournedOwes(A)'
    BY <2>1, <2>3, <2>5, <2>6 DEF MournedOwes
  <2> QED BY <2>1, <2>2, <2>7 DEF TellsAre, BuryOwes, NotifyOwes, MournOwes, Ended
<1>17. CASE MournNext
  <2>0. PICK c : c = call[Owner].cell
    OBVIOUS
  <2>1. /\ call[Owner].at = "mourned"
        /\ call'[Owner].at = "mourn" /\ call'[Owner].cell = next[c]
        /\ UNCHANGED <<loaded, dead, next, thread, owed>>
    BY <1>11, <1>17, <2>0 DEF MournNext, cells
  <2>2. c \in Cells /\ loaded
    BY <1>1, <1>3, <2>0, <2>1, CallIs DEF Ended, TypeOK
  <2>3. PICK R \in SUBSET A : IsChain(c, next, R) /\ \A t \in Threads : owed[t] = CountOf(R \ {c}, t)
    BY <2>0, <2>1 DEF TellsAre, MournedOwes
  <2>4. PICK S : S = R \ {c}
    OBVIOUS
  <2>5. IsChain(next[c], next, S)
    BY <2>2, <2>3, <2>4, ChainTail
  <2>6. \A t \in Threads : owed'[t] = CountOf(S, t)'
    <3>1. \A t \in Threads : CountOf(S, t)' = CountOf(S, t)
      BY <2>1, CountSame
    <3> QED BY <2>1, <2>3, <2>4, <3>1
  <2>7. MournOwes(A)'
    <3>1. S \in SUBSET A
      BY <2>4
    <3> QED BY <2>1, <2>5, <2>6, <3>1 DEF MournOwes
  <2> QED BY <2>1, <2>2, <2>7 DEF TellsAre, BuryOwes, NotifyOwes, MournedOwes, Ended
<1>18. CASE Freed
  <2>1. /\ call[Owner].at = "mourn" /\ call[Owner].cell = NIL /\ UNCHANGED <<dead, owed>> /\ Moves(Owner, NoCall)
    BY <1>18, GotoMoves DEF Freed
  <2>2. call'[Owner] = NoCall
    BY <1>1, <2>1, CallsGo DEF TypeOK
  <2>3. PICK R \in SUBSET A : IsChain(NIL, next, R) /\ \A t \in Threads : owed[t] = CountOf(R, t)
    BY <2>1 DEF TellsAre, MournOwes
  <2>4. R = {}
    <3>1. {} \in SUBSET R /\ NIL \in {} \cup {NIL} /\ \A x \in {} : next[x] \in {} \cup {NIL}
      OBVIOUS
    <3> QED BY <2>3, <3>1 DEF IsChain
  <2>5. \A t \in Threads : owed'[t] = 0
    BY <2>1, <2>3, <2>4, CountNone
  <2>6. dead'
    BY <1>1, <2>1 DEF Walkers
  <2> QED BY <1>1, <2>2, <2>5, <2>6 DEF TellsAre, BuryOwes, NotifyOwes, MournOwes, MournedOwes, Ended
<1>19. CASE UNCHANGED vars
  <2>1. UNCHANGED <<call, owed, dead, loaded, Invited>>
    BY <1>19 DEF vars, lists
  <2> QED BY <1>2, <2>1, TellsKeep
<1> QED BY <1>7, <1>8, <1>9, <1>10, <1>12, <1>13, <1>14, <1>15, <1>16, <1>17, <1>18, <1>19 DEF Standing

LEMMA TellInvStep ==
    ASSUME Telling, TellInv, [Next]_vars
    PROVE  TellInv'
<1>1. PICK I, A, P : LinksAre(I, A, P) /\ WalksAre(I, A) /\ TellsAre(I, A, P)
  BY DEF TellInv
<1>2. /\ Sound /\ TypeOK /\ Walkers /\ ListInv /\ "late" \notin Allowed
      /\ Owner \in Threads /\ NoCall.at = "idle"
  BY <1>1, CallsAre DEF TellInv, Sound, ListInv, Telling
<1>3. Sound'
  BY <1>2, ListInvStep DEF ListInv
<1>4. I \in SUBSET Cells /\ A \subseteq Cells /\ P \subseteq Cells /\ I \cap A = {} /\ P \cap (I \cup A) = {}
  BY <1>1, LinksGive
<1>5. /\ next \in Links /\ owed \in [Threads -> Int] /\ (~dead => loaded)
  BY <1>1, <1>2 DEF TypeOK, Links, TellsAre, Ended
<1>6. CASE Standing
  BY <1>1, <1>2, <1>3, <1>6, LinksStand, StandingCalls, TellsStand DEF TellInv
<1>7. ASSUME NEW t \in Threads, InviteLinks(t)
      PROVE  TellInv'
  <2>1. PICK c : c = call[t].cell
    OBVIOUS
  <2>2. PICK J : J = I \cup {c}
    OBVIOUS
  <2>3. LinksAre(J, A, P)' /\ c \in Cells /\ c \notin I
    BY <1>1, <1>2, <1>7, <2>1, <2>2, LinksInvited
  <2>4. ~dead /\ UNCHANGED <<dead, loaded, owed, thread>> /\ Moves(t, NoCall)
    BY <1>1, <1>2, <1>7, StepsWalk, GotoMoves DEF InviteLinks
  <2>5. WalksAre(J, A)'
    BY <1>1, <1>2, <2>2, <2>4, WalksMove
  <2>6. call'[t] = NoCall /\ \A u \in Threads \ {t} : call'[u] = call[u]
    BY <1>2, <2>4, CallsGo DEF TypeOK
  <2>7. TellsAre(J, A, P)'
    <3>1. CASE t = Owner
      BY <1>2, <1>5, <2>4, <2>6, <3>1, TellsIdle
    <3>2. CASE t # Owner
      <4>1. call'[Owner] = call[Owner]
        BY <1>2, <2>6, <3>2
      <4>2. Invited' = With(Invited, c) /\ next' = Appended(next, Invited, c)
        BY <1>7, <2>1 DEF InviteLinks
      <4> QED BY <1>1, <1>2, <1>4, <1>5, <2>2, <2>3, <2>4, <4>1, <4>2, TellsGrow
    <3> QED BY <3>1, <3>2
  <2> QED BY <1>3, <2>3, <2>5, <2>7 DEF TellInv
<1>8. ASSUME NEW t \in Threads, AttachLinks(t)
      PROVE  TellInv'
  <2>1. PICK c \in I : thread[c] = t /\ AttachOf(t, c)
    BY <1>1, <1>8, AttachIs
  <2>2. PICK J, B : J = I \ {c} /\ B = A \cup {c}
    OBVIOUS
  <2>3. LinksAre(J, B, P)'
    BY <1>1, <1>2, <1>8, <2>1, <2>2, LinksAttach DEF AttachOf
  <2>4. ~dead /\ UNCHANGED <<dead, loaded>> /\ Moves(t, NoCall)
    BY <1>1, <1>2, <1>8, StepsWalk, GotoMoves DEF AttachLinks
  <2>5. WalksAre(J, B)'
    BY <1>1, <1>2, <2>2, <2>4, WalksMove
  <2>6. call'[t] = NoCall /\ \A u \in Threads \ {t} : call'[u] = call[u]
    BY <1>2, <2>4, CallsGo DEF TypeOK
  <2>7. call[Owner].at \notin {"notify", "bury", "mourn", "mourned"}
    BY <1>2, <1>8, <2>4 DEF AttachLinks, Notifying, Telling, Walkers
  <2>8. TellsAre(J, B, P)'
    BY <1>2, <1>5, <2>4, <2>6, <2>7, TellsIdle
  <2> QED BY <1>3, <2>3, <2>5, <2>8 DEF TellInv
<1>9. ASSUME NEW t \in Threads, DetachLinks(t)
      PROVE  TellInv'
  <2>1. PICK c \in A : thread[c] = t /\ DetachOf(t, c)
    BY <1>1, <1>9, DetachIs
  <2>2. PICK J, B : J = I \cup {c} /\ B = A \ {c}
    OBVIOUS
  <2>3. ~dead /\ UNCHANGED <<dead, loaded, owed>> /\ Detached(t)
    BY <1>1, <1>2, <1>9, StepsWalk DEF DetachLinks
  <2>4. LinksAre(J, B, P)'
    BY <1>1, <1>2, <1>9, <2>1, <2>2, <2>3, LinksDetach DEF DetachOf
  <2>5. PICK x : Moves(t, x) /\ x.at \in {"idle", "remap"}
    BY <2>3, DetachedMoves
  <2>6. WalksAre(J, B)'
    BY <1>1, <1>2, <2>2, <2>3, <2>5, WalksMove
  <2>7. call'[t] = x /\ \A u \in Threads \ {t} : call'[u] = call[u]
    BY <1>2, <2>5, CallsGo DEF TypeOK
  <2>8. TellsAre(J, B, P)'
    <3>1. CASE t = Owner
      BY <1>2, <1>5, <2>3, <2>5, <2>7, <3>1, TellsIdle
    <3>2. CASE t # Owner
      <4>1. call'[Owner] = call[Owner]
        BY <1>2, <2>7, <3>2
      <4>2. PICK links : links = Unlinked(Thread, c)
        OBVIOUS
      <4>3. Invited' = With(Invited, c) /\ next' = Appended(links, Invited, c) /\ UNCHANGED thread
        BY <2>1, <2>3, <4>2 DEF DetachOf
      <4>4. links \in Links /\ \A d \in Cells \ A : links[d] = next[d]
        <5>1. IsList(Thread, next, A)
          BY <1>1, LinksGive
        <5> QED BY <1>5, <4>2, <5>1, WithoutEntry
      <4>5. (\A d \in I : links[d] = next[d]) /\ c \in Cells /\ c \notin I
        BY <1>4, <4>4
      <4> QED BY <1>1, <1>2, <1>4, <1>5, <2>2, <2>3, <4>1, <4>3, <4>4, <4>5, TellsGrow
    <3> QED BY <3>1, <3>2
  <2> QED BY <1>3, <2>4, <2>6, <2>8 DEF TellInv
<1>10. CASE CKunloadSHMemObject(Owner)
  <2>1. /\ ~dead /\ CKshMemDestroy /\ UNCHANGED <<Thread, next, thread>> /\ loaded
        /\ owed' = [u \in Threads |-> Entries(Invited, u) + Entries(Thread, u)]
    BY <1>10 DEF CKunloadSHMemObject, cells
  <2>2. LinksAre({}, A, I)'
    BY <1>1, <1>2, <2>1, LinksDestroy
  <2>3. Moves(Owner, [at |-> "bury", cell |-> Invited.first, addr |-> NIL]) /\ UNCHANGED loaded
    BY <2>1, GotoMoves DEF CKshMemDestroy
  <2>4. call'[Owner].at = "bury" /\ \A u \in Threads \ {Owner} : call'[u] = call[u]
    BY <1>2, <2>3, CallsGo DEF TypeOK
  <2>5. \A u \in Threads \ {Owner} : call[u].at \in {"idle", "attach", "remap"}
    BY <1>2, <1>10 DEF CKunloadSHMemObject
  <2>6. WalksAre({}, A)'
    BY <2>4, <2>5 DEF WalksAre
  <2>7. BuryOwes(A, I)'
    <3>1. \A u \in Threads : owed'[u] = CountOf(I, u) + CountOf(A, u)
      BY <1>1, <2>1, LinksGive DEF Entries, CountOf
    <3>2. \A u : CountOf(I, u)' = CountOf(I, u) /\ CountOf(A, u)' = CountOf(A, u)
      BY <2>1, CountSame
    <3> QED BY <3>1, <3>2 DEF BuryOwes
  <2>8. TellsAre({}, A, I)'
    BY <2>1, <2>3, <2>4, <2>7 DEF TellsAre, MournOwes, MournedOwes, NotifyOwes, Ended
  <2> QED BY <1>3, <2>2, <2>6, <2>8 DEF TellInv
<1>11. CASE Bury
  <2>1. PICK c : c = call[Owner].cell
    OBVIOUS
  <2>2. PICK Q : Q = P \ {c}
    OBVIOUS
  <2>3. LinksAre(I, A, Q)' /\ c \in P
    BY <1>1, <1>2, <1>11, <2>1, <2>2, LinksBury
  <2>4. /\ Moves(Owner, [at |-> "bury", cell |-> next[c], addr |-> NIL])
        /\ call[Owner].at = "bury" /\ UNCHANGED <<dead, loaded>> /\ CKsendSignal(thread[c])
        /\ thread' = [thread EXCEPT ![c] = NIL]
    BY <1>11, <2>1, GotoMoves DEF Bury
  <2>5. call'[Owner].at = "bury" /\ \A u \in Threads \ {Owner} : call'[u] = call[u]
    BY <1>2, <2>4, CallsGo DEF TypeOK
  <2>6. WalksAre(I, A)'
    BY <1>1, <2>4, <2>5 DEF WalksAre
  <2>7. \A d \in Q \cup A : thread'[d] = thread[d]
    BY <1>2, <1>4, <2>2, <2>3, <2>4 DEF TypeOK
  <2>8. ASSUME NEW t \in Threads PROVE owed'[t] = CountOf(Q, t)' + CountOf(A, t)'
    <3>1. owed'[t] - CountOf(Q, t) = owed[t] - CountOf(P, t)
      BY <1>2, <1>4, <2>2, <2>3, <2>4, CountSignal
    <3>2. CountOf(Q, t) \in Nat /\ CountOf(P, t) \in Nat /\ CountOf(A, t) \in Nat
      <4>1. Q \in SUBSET Cells /\ P \in SUBSET Cells /\ A \in SUBSET Cells
        BY <1>4, <2>2
      <4> QED BY <4>1, CountIs
    <3>3. owed[t] \in Int /\ owed'[t] \in Int
      <4>1. owed' = [owed EXCEPT ![thread[c]] = @ - 1]
        BY <2>4 DEF CKsendSignal
      <4>2. owed'[t] = IF thread[c] = t THEN owed[t] - 1 ELSE owed[t]
        BY <1>5, <4>1
      <4> QED BY <1>5, <4>2
    <3>4. CountOf(Q, t)' = CountOf(Q, t) /\ CountOf(A, t)' = CountOf(A, t)
      BY <2>7, CountSame
    <3>5. owed[t] = CountOf(P, t) + CountOf(A, t)
      BY <1>1, <2>4 DEF TellsAre, BuryOwes
    <3> QED BY <3>1, <3>2, <3>3, <3>4, <3>5
  <2>9. TellsAre(I, A, Q)'
    <3>1. loaded
      BY <1>1, <2>4 DEF TellsAre, Ended
    <3> QED BY <2>4, <2>5, <2>8, <3>1 DEF TellsAre, BuryOwes, MournOwes, MournedOwes, NotifyOwes, Ended
  <2> QED BY <1>3, <2>3, <2>6, <2>9 DEF TellInv
<1> QED BY <1>6, <1>7, <1>8, <1>9, <1>10, <1>11, NextIs

LEMMA TellInvInit ==
    ASSUME Init
    PROVE  TellInv
<1>1. PICK I, A, P : LinksAre(I, A, P)
  BY ListInvInit DEF ListInv
<1>2. ~dead /\ loaded /\ call[Owner] = NoCall
  BY DEF Init
<1>3. WalksAre(I, A)
  BY <1>2, CallsAre DEF WalksAre
<1>4. TellsAre(I, A, P)
  BY <1>2, CallsAre DEF TellsAre, BuryOwes, MournOwes, MournedOwes, NotifyOwes, Ended
<1> QED BY <1>1, <1>3, <1>4, ListInvInit DEF TellInv, ListInv

LEMMA TheyAreTold ==
    ASSUME TellInv
    PROVE  EveryoneIsTold
<1>1. PICK I, A, P : LinksAre(I, A, P) /\ TellsAre(I, A, P)
  BY DEF TellInv
<1>2. ~loaded => \A t \in Threads : owed[t] = 0
  BY <1>1 DEF TellsAre, Ended
<1>3. ASSUME Notifying, call[Owner].cell = NIL PROVE \A t \in Threads : owed[t] <= 0
  <2>1. PICK R \in SUBSET I : /\ IsList(Rest(NIL, Invited.last), next, R)
                              /\ \A t \in Threads : owed[t] <= CountOf(R, t)
    BY <1>1, <1>3 DEF TellsAre, NotifyOwes, Notifying
  <2>2. IsChain(NIL, next, R)
    BY <2>1 DEF IsList, Rest
  <2>3. R = {}
    <3>1. {} \in SUBSET R /\ NIL \in {} \cup {NIL} /\ \A x \in {} : next[x] \in {} \cup {NIL}
      OBVIOUS
    <3> QED BY <2>2, <3>1 DEF IsChain
  <2> QED BY <2>1, <2>3, CountNone
<1> QED BY <1>2, <1>3 DEF EveryoneIsTold

(* When the object is freed, everyone who was invited or attached when it   *)
(* died has got one signal for each of its entries; and a notification      *)
(* has reached everyone who was invited when it began, whoever is invited   *)
(* or detaches meanwhile - if no call is overtaken by the end of the        *)
(* object, its owner uncaches it, and nobody attaches during the walk.      *)
THEOREM EveryoneHears ==
    ASSUME "late" \notin Allowed, "foreign" \notin Allowed, "moving" \notin Allowed
    PROVE  Spec => []EveryoneIsTold
<1> Telling
  BY DEF Telling
<1>1. Spec => []TellInv
  <2>1. Init => TellInv
    BY TellInvInit
  <2>2. TellInv /\ [Next]_vars => TellInv'
    BY TellInvStep
  <2> QED BY <2>1, <2>2, PTL DEF Spec
<1>2. TellInv => EveryoneIsTold
  BY TheyAreTold
<1> QED BY <1>1, <1>2, PTL
=============================================================================
