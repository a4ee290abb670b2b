-------------------------- MODULE LoadModulesProofs --------------------------
(***************************************************************************)
(* Theorems about the executable loader and the library for loadable       *)
(* modules, for every number of tasks, every set of files and all sizes of *)
(* the tables.                                                             *)
(***************************************************************************)
EXTENDS LoadModules, FiniteSetTheorems, WellFoundedInduction, TLAPS

USE ValuesAssumption, LoadAssumption

-----------------------------------------------------------------------------
(* The tasks.                                                              *)
Started(r) ==
    /\ DOMAIN r = {"at", "kind", "file", "h", "record"}
    /\ r.at \in {"header", "load", "close", "loaded", "linked"}
    /\ r.kind \in {"exec", "lm"} /\ r.file \in Files /\ Loadable(r.file)

Registered(r) ==
    /\ DOMAIN r = {"at", "kind", "file", "h", "id"}
    /\ r.at = "init" /\ r.kind = "lm"
    /\ r.file \in Files /\ Loadable(r.file)

TaskType ==
    /\ DOMAIN task = Tasks
    /\ \A t \in Tasks : task[t] = Idle \/ Started(task[t]) \/ Registered(task[t])

LEMMA LowestIs ==
    ASSUME NEW S, S \subseteq Nat, S # {}
    PROVE  Lowest(S) \in S
<1>1. IsWellFoundedOn(OpToRel(<, Nat), Nat)
  BY NatLessThanWellFounded, Zenon
<1>2. PICK x \in S : \A y \in S : ~ (<<y, x>> \in OpToRel(<, Nat))
  BY <1>1, WFMin, Zenon
<1>3. \A y \in S : x <= y
  <2>1. TAKE y \in S
  <2>2. x \in Nat /\ y \in Nat
    OBVIOUS
  <2>3. <<y, x>> \in Nat \X Nat /\ <<y, x>>[1] = y /\ <<y, x>>[2] = x
    BY <2>2
  <2>4. ~(y < x)
    BY <1>2, <2>3 DEF OpToRel
  <2> QED BY <2>2, <2>4
<1> QED BY <1>3 DEF Lowest

LEMMA TasksBegin == ASSUME Init PROVE TaskType
BY DEF Init, TaskType

(* A task is not busy exactly when it is about to do nothing. *)
LEMMA BusyIs ==
    ASSUME TaskType, NEW t \in Tasks
    PROVE  /\ t \in Busy <=> task[t] # Idle
           /\ t \in Busy <=> task[t].at # "idle"
           /\ t \in Busy <=> Started(task[t]) \/ Registered(task[t])
BY DEF TaskType, Busy, Idle, Started, Registered

(* A step of a task leaves the others where they are. *)
Moves(t) == DOMAIN task' = Tasks /\ \A u \in Tasks \ {t} : task'[u] = task[u]

(* Without an executable to use nothing changes but what has been read. *)
OpenRefused ==
    "full" \in Allowed /\ stray' = TRUE /\ UNCHANGED <<heap, eTable, cache, task>>

Opens(t, kind, file, h) ==
    /\ h \in Handles /\ Vacant(eTable) # {} /\ KLexecOpen(h)
    /\ task' = [task EXCEPT ![t] = [at |-> "header", kind |-> kind, file |-> file, h |-> h,
                                   record |-> Request(<<h, HEADER>>, 1, HEADER)]]

LEMMA OpenIs ==
    ASSUME NEW t, NEW kind, NEW file, Open(t, kind, file)
    PROVE  /\ task[t] = Idle /\ Loadable(file) /\ UNCHANGED lmTable
           /\ OpenRefused \/ \E h : Opens(t, kind, file, h)
BY DEF Open, NoMoreExecs, OpenRefused, Opens

LEMMA TaskSteps ==
    ASSUME TaskType, NEW t \in Tasks, Step(t)
    PROVE  TaskType' /\ Moves(t)
<1>1. ASSUME NEW kind \in {"exec", "lm"}, NEW file \in Files, Open(t, kind, file)
      PROVE  (task'[t] = Idle \/ Started(task'[t])) /\ Moves(t)
  <2>1. Loadable(file) /\ task[t] = Idle
    BY <1>1, OpenIs
  <2>2. CASE OpenRefused
    BY <2>1, <2>2 DEF OpenRefused, Moves, TaskType
  <2>3. ASSUME NEW h, Opens(t, kind, file, h) PROVE Started(task'[t]) /\ Moves(t)
    BY <2>1, <2>3 DEF Opens, Started, Moves, TaskType
  <2> QED BY <1>1, <2>2, <2>3, OpenIs
<1>2. ASSUME NEW probing \in BOOLEAN, NEW read \in BOOLEAN, ReadHeader(t, probing, read)
      PROVE  (task'[t] = Idle \/ Started(task'[t])) /\ Moves(t)
  <2>1. Started(task[t])
    BY <1>2 DEF ReadHeader, TaskType, Idle, Registered
  <2>2. CASE read
    <3>1. PICK a \in {"close", "load"} : task' = [task EXCEPT ![t].at = a]
      BY <1>2, <2>2 DEF ReadHeader
    <3> QED BY <2>1, <3>1 DEF TaskType, Started, Moves
  <2>3. CASE ~read
    BY <1>2, <2>3 DEF ReadHeader, TaskType, Moves
  <2> QED BY <2>2, <2>3
<1>3. ASSUME Load(t)
      PROVE  Started(task'[t]) /\ Moves(t)
  <2>1. Started(task[t])
    BY <1>3 DEF Load, TaskType, Idle, Registered
  <2>2. PICK rec : task' = [task EXCEPT ![t].record = rec]
    BY <1>3 DEF Load
  <2> QED BY <2>1, <2>2 DEF TaskType, Started, Moves
<1>4. ASSUME ReadFails(t) \/ LoopEnds(t) \/ Link(t) \/ \E recent \in BOOLEAN : NotAModule(t, recent)
      PROVE  Started(task'[t]) /\ Moves(t)
  <2>1. Started(task[t])
    BY <1>4 DEF ReadFails, LoopEnds, Link, NotAModule, TaskType, Idle, Registered
  <2>2. PICK a \in {"close", "loaded", "linked"} : task' = [task EXCEPT ![t].at = a]
    BY <1>4 DEF ReadFails, LoopEnds, Link, NotAModule
  <2> QED BY <2>1, <2>2 DEF TaskType, Started, Moves
<1>5. ASSUME Close(t) \/ \E success \in BOOLEAN : Initialised(t, success)
      PROVE  task'[t] = Idle /\ Moves(t)
  BY <1>5 DEF Close, Initialised, TaskType, Moves
<1>6. ASSUME Register(t)
      PROVE  Registered(task'[t]) /\ Moves(t)
  <2>1. Started(task[t])
    BY <1>6 DEF Register, TaskType, Idle, Registered
  <2>2. PICK id : task' = [task EXCEPT ![t] = [at |-> "init", kind |-> "lm", file |-> @.file,
                                                h |-> @.h, id |-> id]]
    BY <1>6 DEF Register
  <2> QED BY <2>1, <2>2 DEF Started, Registered, TaskType, Moves
<1>7. (task'[t] = Idle \/ Started(task'[t]) \/ Registered(task'[t])) /\ Moves(t)
  BY <1>1, <1>2, <1>3, <1>4, <1>5, <1>6 DEF Step
<1>8. \A u \in Tasks : task'[u] = Idle \/ Started(task'[u]) \/ Registered(task'[u])
  BY <1>7 DEF Moves, TaskType
<1> QED BY <1>7, <1>8 DEF TaskType, Moves, Started, Registered, Idle, Loadable

LEMMA TasksGoOn ==
    ASSUME TaskType, [Next]_vars
    PROVE  TaskType'
<1>1. ASSUME NEW t \in Tasks, Step(t) PROVE TaskType'
  BY <1>1, TaskSteps
<1>2. ASSUME UNCHANGED task PROVE TaskType'
  BY <1>2 DEF TaskType
<1> QED BY <1>1, <1>2 DEF Next, vars, ExecTable, LMlibInit, LMlibUninit, LMunload

-----------------------------------------------------------------------------
(* One module in each place of the table.                                  *)
PlaceInv ==
    /\ TaskType
    /\ DOMAIN lmTable \subseteq Nat
    /\ \A id \in DOMAIN lmTable :
          DOMAIN lmTable[id] = {"usage", "entry"} /\ lmTable[id].usage \in {0, 1}
    /\ \A t, u \in Tasks : task[t].at = "init" /\ task[u].at = "init" => t = u
    /\ \A t \in Tasks : task[t].at = "init" =>
          task[t].id \in DOMAIN lmTable /\ lmTable[task[t].id].usage = 0

LEMMA PlacesBegin == ASSUME Init PROVE PlaceInv
BY TasksBegin DEF Init, PlaceInv, NoTable, Idle

LEMMA PlacesAreKept ==
    ASSUME PlaceInv, [Next]_vars, "nested" \notin Allowed
    PROVE  PlaceInv'
<1>0. TaskType /\ TaskType'
  BY TasksGoOn DEF PlaceInv
<1>1. ASSUME UNCHANGED <<lmTable, task>> PROVE PlaceInv'
  BY <1>0, <1>1 DEF PlaceInv
<1>2. ASSUME NEW n \in TableSizes, LMlibInit(n) PROVE PlaceInv'
  <2>1. DOMAIN lmTable = {} /\ \A t \in Tasks : task[t].at # "init"
    BY <1>2 DEF LMlibInit, NoTable, PlaceInv
  <2> QED BY <1>0, <1>2, <2>1 DEF LMlibInit, PlaceInv, NoEntries
<1>3. ASSUME LMlibUninit PROVE PlaceInv'
  <2>1. \A t \in Tasks : task[t].at # "init"
    BY <1>0, <1>3, BusyIs DEF LMlibUninit, TaskType, Started, Registered, Idle
  <2> QED BY <1>0, <1>3, <2>1 DEF LMlibUninit, PlaceInv, NoTable
<1>4. ASSUME NEW id \in DOMAIN lmTable, LMunload(id) PROVE PlaceInv'
  BY <1>0, <1>4 DEF LMunload, PlaceInv
<1>5. ASSUME NEW t \in Tasks, Register(t) PROVE PlaceInv'
  <2> DEFINE id == Lowest(FreeModules)
  <2>1. id \in DOMAIN lmTable /\ lmTable[id].usage = 0
    <3>1. FreeModules \subseteq Nat /\ FreeModules # {}
      BY <1>5 DEF Register, PlaceInv, FreeModules
    <3> QED BY <3>1, LowestIs DEF FreeModules
  <2>2. \A u \in Tasks : task[u].at # "init"
    BY <1>0, <1>5, BusyIs DEF Register
  <2>3. lmTable' = [lmTable EXCEPT ![id].entry = KLexecSymbols(eTable[task[t].h], Optional)]
    BY <1>5 DEF Register
  <2>4. task'[t].id = id /\ \A u \in Tasks \ {t} : task'[u] = task[u]
    BY <1>0, <1>5 DEF Register, TaskType
  <2> HIDE DEF id
  <2> QED BY <1>0, <2>1, <2>2, <2>3, <2>4 DEF PlaceInv
<1>6. ASSUME NEW t \in Tasks, NEW success \in BOOLEAN, Initialised(t, success) PROVE PlaceInv'
  <2>1. \A u \in Tasks \ {t} : task'[u] = task[u] /\ task[u].at # "init"
    BY <1>0, <1>6 DEF Initialised, PlaceInv, TaskType
  <2>2. task'[t].at = "idle"
    BY <1>0, <1>6 DEF Initialised, TaskType, Idle
  <2>3. task[t].id \in DOMAIN lmTable /\ lmTable[task[t].id].usage = 0
    BY <1>6 DEF Initialised, PlaceInv
  <2>4. \/ lmTable' = [lmTable EXCEPT ![task[t].id].usage = @ + 1]
        \/ lmTable' = lmTable
    BY <1>6 DEF Initialised
  <2> QED BY <1>0, <2>1, <2>2, <2>3, <2>4 DEF PlaceInv
<1>7. ASSUME NEW t \in Tasks, Step(t), UNCHANGED lmTable, task'[t].at # "init" PROVE PlaceInv'
  BY <1>0, <1>7, TaskSteps DEF PlaceInv, Moves
<1>8. ASSUME NEW t \in Tasks, Step(t) PROVE PlaceInv'
  <2>1. ASSUME NEW kind \in {"exec", "lm"}, NEW file \in Files, Open(t, kind, file)
        PROVE  UNCHANGED lmTable /\ task'[t].at # "init"
    <3>1. UNCHANGED lmTable /\ task[t] = Idle
      BY <2>1, OpenIs
    <3>2. CASE OpenRefused
      BY <3>1, <3>2 DEF OpenRefused, Idle
    <3>3. ASSUME NEW h, Opens(t, kind, file, h) PROVE task'[t].at # "init"
      BY <1>0, <3>3 DEF Opens, TaskType
    <3> QED BY <2>1, <3>1, <3>2, <3>3, OpenIs
  <2>2. ASSUME NEW probing \in BOOLEAN, NEW read \in BOOLEAN, ReadHeader(t, probing, read)
        PROVE  UNCHANGED lmTable /\ task'[t].at # "init"
    <3>1. Started(task[t])
      BY <1>0, <2>2 DEF ReadHeader, TaskType, Idle, Registered
    <3> QED BY <1>0, <2>2, <3>1 DEF ReadHeader, TaskType, Started, Idle
  <2>3. ASSUME Load(t)
        PROVE  UNCHANGED lmTable /\ task'[t].at # "init"
    <3>1. UNCHANGED lmTable /\ task[t].at = "load"
      BY <2>3 DEF Load
    <3>2. PICK rec : task' = [task EXCEPT ![t].record = rec]
      BY <2>3 DEF Load
    <3>3. Started(task[t])
      BY <1>0, <3>1 DEF TaskType, Idle, Registered
    <3> QED BY <1>0, <3>1, <3>2, <3>3 DEF TaskType, Started
  <2>4. ASSUME ReadFails(t) \/ LoopEnds(t) \/ Link(t) \/ \E recent \in BOOLEAN : NotAModule(t, recent)
        PROVE  UNCHANGED lmTable /\ task'[t].at # "init"
    <3>1. Started(task[t])
      BY <1>0, <2>4 DEF ReadFails, LoopEnds, Link, NotAModule, TaskType, Idle, Registered
    <3>2. PICK a \in {"close", "loaded", "linked"} : task' = [task EXCEPT ![t].at = a]
      BY <2>4 DEF ReadFails, LoopEnds, Link, NotAModule
    <3>3. UNCHANGED lmTable
      BY <2>4 DEF ReadFails, LoopEnds, Link, NotAModule
    <3> QED BY <1>0, <3>1, <3>2, <3>3 DEF TaskType, Started
  <2>5. ASSUME Close(t)
        PROVE  UNCHANGED lmTable /\ task'[t].at # "init"
    BY <1>0, <2>5 DEF Close, TaskType, Idle
  <2> QED BY <1>5, <1>6, <1>7, <1>8, <2>1, <2>2, <2>3, <2>4, <2>5 DEF Step
<1> QED BY <1>1, <1>2, <1>3, <1>4, <1>8 DEF Next, vars, ExecTable

LEMMA PlacesSuffice == ASSUME PlaceInv PROVE OneModulePerPlace
<1> DEFINE S(id) == { t \in Busy : task[t].at = "init" /\ task[t].id = id }
<1>1. ASSUME NEW id \in DOMAIN lmTable
      PROVE  lmTable[id].usage + Cardinality(S(id)) <= 1
  <2>1. CASE S(id) = {}
    <3>1. Cardinality(S(id)) = 0
      BY <2>1, FS_EmptySet
    <3>2. lmTable[id].usage \in {0, 1}
      BY DEF PlaceInv
    <3> QED BY ONLY <3>1, <3>2
  <2>2. CASE S(id) # {}
    <3>1. PICK t \in S(id) : TRUE
      BY <2>2
    <3>2. S(id) = {t} /\ lmTable[id].usage = 0
      BY <3>1 DEF PlaceInv, Busy
    <3>3. Cardinality(S(id)) = 1
      BY <3>2, FS_Singleton
    <3> QED BY ONLY <3>2, <3>3
  <2> QED BY <2>1, <2>2
<1> QED BY <1>1, Zenon DEF OneModulePerPlace

(* A place in the table of modules is taken by one module, also while LMinit *)
(* of a module runs that is not counted yet, if no module is registered     *)
(* while the LMinit of another runs.                                       *)
THEOREM ModulesHavePlaces ==
    ASSUME "nested" \notin Allowed
    PROVE  Spec => []OneModulePerPlace
<1>1. Init => PlaceInv
  BY PlacesBegin
<1>2. PlaceInv /\ [Next]_vars => PlaceInv'
  BY PlacesAreKept
<1>3. PlaceInv => OneModulePerPlace
  BY PlacesSuffice
<1> QED BY <1>1, <1>2, <1>3, PTL DEF Spec

-----------------------------------------------------------------------------
(* Blocks of memory. *)
LEMMA AllocatedIs ==
    ASSUME NEW hp, NEW b, NEW size
    PROVE  /\ DOMAIN Allocated(hp, b, size) = DOMAIN hp \cup {b}
           /\ Allocated(hp, b, size)[b] = [size |-> size, holds |-> GARBAGE, words |-> << >>]
           /\ \A c \in DOMAIN hp \ {b} : Allocated(hp, b, size)[c] = hp[c]
BY DEF Allocated

LEMMA ReadIntoIs ==
    ASSUME NEW hp, NEW record, NEW file
    PROVE  /\ DOMAIN ReadInto(hp, record, file) = DOMAIN hp
           /\ \A c \in DOMAIN hp \ {record.buffer} : ReadInto(hp, record, file)[c] = hp[c]
BY DEF ReadInto

LEMMA RelocatedIs ==
    ASSUME NEW e, NEW hp
    PROVE  /\ DOMAIN ELFresolveRelocations(e, hp).heap = DOMAIN hp
           /\ \A c \in DOMAIN hp : c # Data(e, cache.text) \/ ~IsLoaded(e, cache.text, "text") =>
                 ELFresolveRelocations(e, hp).heap[c] = hp[c]
<1>1. \/ ELFresolveRelocations(e, hp).heap = hp
      \/ /\ ELFresolveRelocations(e, hp).heap = Relocated(e, hp)
         /\ IsLoaded(e, cache.text, "text")
  BY DEF ELFresolveRelocations
<1>2. DOMAIN Relocated(e, hp) = DOMAIN hp
  BY DEF Relocated
<1>3. \A c \in DOMAIN hp \ {Data(e, cache.text)} : Relocated(e, hp)[c] = hp[c]
  BY DEF Relocated
<1> QED BY <1>1, <1>2, <1>3

-----------------------------------------------------------------------------
(* The entry of an executable in the table, before and after its arrays are *)
(* there.                                                                  *)
Fields == {"exec", "type", "state", "iterator", "file", "section", "sectionData",
           "data", "grown", "common"}

Empty(e) ==
    /\ e.state \in {"saveElfHeader", "elfInvalid"}
    /\ e.section = GARBAGE /\ e.sectionData = GARBAGE /\ DOMAIN e.data = {}

Arrays(h, e) ==
    /\ e.state \in {"elfSectionNames", "elfSection", "postLoad", "finalState", "elfInvalid"}
    /\ e.section = <<h, SECTIONS>> /\ e.sectionData = <<h, POINTERS>>
    /\ DOMAIN e.data = Indexes(e)
    /\ \A i \in Indexes(e) : e.data[i] \in {NIL, <<h, i>>}

Entry(h, e) ==
    /\ DOMAIN e = Fields /\ e.exec = <<h, HEADER>> /\ e.type = "elf32"
    /\ Empty(e) \/ Arrays(h, e)

(* Of the blocks of a handle, those are allocated that its entry points to. *)
Owns(h, e, hp) == \A p \in Int : <<h, p>> \in DOMAIN hp <=> <<h, p>> \in Blocks(e)

Part(h) == { <<h, p>> : p \in Int }

LEMMA EmptyBlocks ==
    ASSUME NEW h, NEW e, Entry(h, e), Empty(e), h \in Nat
    PROVE  Blocks(e) = {<<h, HEADER>>}
<1>1. <<h, HEADER>> \in Int \X Int
  BY DEF HEADER
<1> QED BY <1>1 DEF Blocks, Entry, Empty

LEMMA ArrayBlocks ==
    ASSUME NEW h \in Nat, NEW e, Entry(h, e), Arrays(h, e), Indexes(e) \subseteq Int
    PROVE  Blocks(e) = {<<h, HEADER>>, <<h, SECTIONS>>, <<h, POINTERS>>}
                          \cup { <<h, i>> : i \in { j \in Indexes(e) : e.data[j] # NIL } }
<1>1. \A i \in Int : <<h, i>> \in Int \X Int
  OBVIOUS
<1>2. <<h, HEADER>> \in Int \X Int /\ <<h, SECTIONS>> \in Int \X Int /\ <<h, POINTERS>> \in Int \X Int
  BY <1>1 DEF HEADER, SECTIONS, POINTERS
<1>3. Blocks(e) = ({<<h, HEADER>>, <<h, SECTIONS>>, <<h, POINTERS>>} \cup { e.data[i] : i \in Indexes(e) })
                    \ {NIL, GARBAGE}
  BY DEF Blocks, Entry, Arrays
<1>4. \A i \in Indexes(e) : e.data[i] # NIL => e.data[i] = <<h, i>>
  BY DEF Arrays
<1>5. ASSUME NEW b PROVE b \in Blocks(e) <=>
                 b \in {<<h, HEADER>>, <<h, SECTIONS>>, <<h, POINTERS>>}
                          \cup { <<h, i>> : i \in { j \in Indexes(e) : e.data[j] # NIL } }
  BY <1>1, <1>2, <1>3, <1>4
<1> QED BY <1>5

LEMMA BlocksAreOwn ==
    ASSUME NEW h \in Nat, NEW e, Entry(h, e), Indexes(e) \subseteq Int
    PROVE  Blocks(e) \subseteq Part(h) /\ <<h, HEADER>> \in Blocks(e)
<1>1. HEADER \in Int /\ SECTIONS \in Int /\ POINTERS \in Int
  BY DEF HEADER, SECTIONS, POINTERS
<1>2. CASE Empty(e)
  BY <1>1, <1>2, EmptyBlocks DEF Part
<1>3. CASE Arrays(h, e)
  BY <1>1, <1>3, ArrayBlocks DEF Part
<1> QED BY <1>2, <1>3 DEF Entry

LEMMA IndexesAre ==
    ASSUME NEW e, e.file \in Files
    PROVE  /\ Indexes(e) = 0 .. Cardinality(Indexes(e)) - 1
           /\ Cardinality(Indexes(e)) \in 1 .. SHN_COMMON
           /\ Indexes(e) \subseteq Nat /\ Indexes(e) \subseteq Int
           /\ NamesIndex(e.file) \in Indexes(e)
           /\ Kind(e, NamesIndex(e.file)) = "names"
           /\ \A i \in Indexes(e) : Kind(e, i) = "names" => i = NamesIndex(e.file)
           /\ \A i : Kind(e, i) = "outside" <=> i \notin Indexes(e)
<1>1. WellFormed(e.file)
  OBVIOUS
<1>2. /\ Indexes(e) = 0 .. Cardinality(Indexes(e)) - 1
      /\ Cardinality(Indexes(e)) \in 1 .. SHN_COMMON
  BY <1>1 DEF WellFormed, Indexes
<1>3. PICK i \in Indexes(e) : \A j \in Indexes(e) : e.file.section[j].kind = "names" <=> j = i
  BY <1>1 DEF WellFormed, Indexes
<1>4. NamesIndex(e.file) = i
  BY <1>3 DEF NamesIndex, Indexes
<1>5. \A j \in Indexes(e) : e.file.section[j].kind # "outside"
  BY <1>1 DEF WellFormed, Indexes, SectionKinds
<1>6. \A j : Kind(e, j) = IF j \in Indexes(e) THEN e.file.section[j].kind ELSE "outside"
  BY DEF Kind
<1>7. \A j : Kind(e, j) = "outside" <=> j \notin Indexes(e)
  BY <1>5, <1>6
<1>8. Indexes(e) \subseteq Nat /\ Indexes(e) \subseteq Int
  BY <1>2
<1>9. \A j \in Indexes(e) : Kind(e, j) = "names" <=> j = i
  BY <1>3, <1>6
<1> QED BY <1>2, <1>4, <1>7, <1>8, <1>9

-----------------------------------------------------------------------------
(* A call of KLexecLoad and memory. *)
Elsewhere(h, hp, hq) ==
    /\ DOMAIN hq \ Part(h) = DOMAIN hp \ Part(h)
    /\ \A b \in DOMAIN hp \ Part(h) : hq[b] = hp[b]

(* What a call does for the executable with handle h. *)
Works(h, e, hp, o) ==
    /\ Entry(h, o.e) /\ o.e.file = e.file
    /\ Owns(h, o.e, o.heap) /\ Elsewhere(h, hp, o.heap)

LEMMA AllocatedElsewhere ==
    ASSUME NEW hp, NEW h, NEW p \in Int, NEW size
    PROVE  Elsewhere(h, hp, Allocated(hp, <<h, p>>, size))
<1> DEFINE b == <<h, p>>
           hq == Allocated(hp, b, size)
<1>1. b \in Part(h)
  BY DEF Part
<1> HIDE DEF b
<1>2. DOMAIN hq = DOMAIN hp \cup {b} /\ \A c \in DOMAIN hp \ {b} : hq[c] = hp[c]
  BY DEF Allocated
<1> HIDE DEF hq
<1>3. Elsewhere(h, hp, hq)
  BY <1>1, <1>2 DEF Elsewhere
<1> QED BY <1>3 DEF hq, b

LEMMA ElsewhereTwice ==
    ASSUME NEW h, NEW hp, NEW hq, NEW hr, Elsewhere(h, hp, hq), Elsewhere(h, hq, hr)
    PROVE  Elsewhere(h, hp, hr)
BY DEF Elsewhere

LEMMA OwnsOneMore ==
    ASSUME NEW h, NEW e, NEW f, NEW hp, NEW p \in Int, NEW size, Owns(h, e, hp),
           Blocks(f) = Blocks(e) \cup {<<h, p>>}
    PROVE  Owns(h, f, Allocated(hp, <<h, p>>, size))
<1> DEFINE b == <<h, p>>
           hq == Allocated(hp, b, size)
<1>1. DOMAIN hq = DOMAIN hp \cup {b}
  BY AllocatedIs
<1>2. Blocks(f) = Blocks(e) \cup {b}
  OBVIOUS
<1> HIDE DEF b, hq
<1>3. Owns(h, f, hq)
  BY <1>1, <1>2 DEF Owns
<1> QED BY <1>3 DEF hq, b

LEMMA HeaderWorks ==
    ASSUME NEW h \in Nat, NEW e, NEW record, NEW hp, Entry(h, e), e.file \in Files,
           Owns(h, e, hp), Empty(e), e.state = "saveElfHeader",
           NEW o \in ELFSectionHeaderProcessing(e, record, hp),
           ~ (o.e.state = "elfInvalid" /\ o.e.sectionData \in {NIL, GARBAGE})
    PROVE  Works(h, e, hp, o) /\ Arrays(h, o.e)
<1> DEFINE n   == Cardinality(Indexes(e))
           one == Allocated(hp, <<h, SECTIONS>>, n)
           two == Allocated(one, <<h, POINTERS>>, n)
<1>1. Block(e, SECTIONS) = <<h, SECTIONS>> /\ Block(e, POINTERS) = <<h, POINTERS>>
  BY DEF Block, Entry
<1>2. DOMAIN e = Fields /\ e.sectionData = GARBAGE
  BY DEF Entry, Empty
<1>3. /\ o.e = [e EXCEPT !.section = <<h, SECTIONS>>, !.sectionData = <<h, POINTERS>>,
                         !.data = [i \in Indexes(e) |-> NIL], !.state = "elfSectionNames"]
      /\ o.heap = two
  <2> DEFINE asked == Request(<<h, SECTIONS>>, n, SECTIONS)
             first  == Outcome(Invalid(e), hp, NoData(asked), cache, FALSE)
             second == Outcome([Invalid(e) EXCEPT !.section = <<h, SECTIONS>>, !.sectionData = NIL],
                               one, asked, cache, FALSE)
             third  == Outcome([e EXCEPT !.section = <<h, SECTIONS>>, !.sectionData = <<h, POINTERS>>,
                                         !.data = [i \in Indexes(e) |-> NIL],
                                         !.state = "elfSectionNames"],
                               two, asked, cache, FALSE)
  <2>1. o \in {first, second, third}
    BY <1>1 DEF ELFSectionHeaderProcessing
  <2>2. first.e.state = "elfInvalid" /\ first.e.sectionData = GARBAGE
    BY <1>2 DEF Outcome, Invalid, Fields
  <2>3. second.e.state = "elfInvalid" /\ second.e.sectionData = NIL
    BY <1>2 DEF Outcome, Invalid, Fields
  <2>4. /\ third.heap = two
        /\ third.e = [e EXCEPT !.section = <<h, SECTIONS>>, !.sectionData = <<h, POINTERS>>,
                                !.data = [i \in Indexes(e) |-> NIL], !.state = "elfSectionNames"]
    BY DEF Outcome
  <2> HIDE DEF first, second, third
  <2> QED BY <2>1, <2>2, <2>3, <2>4
<1>4. Entry(h, o.e) /\ Arrays(h, o.e) /\ o.e.file = e.file /\ \A i \in Indexes(e) : o.e.data[i] = NIL
  BY <1>2, <1>3 DEF Entry, Arrays, Fields, Indexes
<1>5. SECTIONS \in Int /\ POINTERS \in Int /\ HEADER \in Int
  BY DEF SECTIONS, POINTERS, HEADER
<1>6. Elsewhere(h, hp, two)
  BY <1>5, AllocatedElsewhere, ElsewhereTwice
<1>7. Blocks(e) = {<<h, HEADER>>}
  BY EmptyBlocks
<1>8. Blocks(o.e) = {<<h, HEADER>>, <<h, SECTIONS>>, <<h, POINTERS>>}
  <2>1. Indexes(o.e) = Indexes(e) /\ Indexes(o.e) \subseteq Int
    BY <1>4, IndexesAre DEF Indexes
  <2>2. { j \in Indexes(o.e) : o.e.data[j] # NIL } = {}
    BY <2>1, <1>4
  <2> QED BY <2>1, <2>2, <1>4, ArrayBlocks
<1>9. Owns(h, o.e, two)
  <2>1. DOMAIN one = DOMAIN hp \cup {<<h, SECTIONS>>}
    BY AllocatedIs
  <2>2. DOMAIN two = DOMAIN one \cup {<<h, POINTERS>>}
    BY DEF Allocated
  <2> HIDE DEF one, two
  <2> QED BY <1>5, <1>7, <1>8, <2>1, <2>2 DEF Owns
<1> HIDE DEF one, two
<1> QED BY <1>3, <1>4, <1>6, <1>9 DEF Works

(* The entry of a section is filled in, or not; nothing else about arrays. *)
SameArrays(e, f) ==
    /\ DOMAIN f = Fields /\ f.exec = e.exec /\ f.type = e.type /\ f.file = e.file
    /\ f.section = e.section /\ f.sectionData = e.sectionData
    /\ f.state \in {"elfSectionNames", "elfSection", "postLoad", "finalState", "elfInvalid"}

FilledIn(h, i, e, hp, size, o) ==
    o.e.data = [e.data EXCEPT ![i] = <<h, i>>] /\ o.heap = Allocated(hp, <<h, i>>, size)

NotFilledIn(e, hp, o) == o.e.data = e.data /\ o.heap = hp

LEMMA SectionWorks ==
    ASSUME NEW h \in Nat, NEW e, NEW hp, Entry(h, e), Arrays(h, e), e.file \in Files,
           Owns(h, e, hp), NEW o, NEW i \in Indexes(e), NEW size, SameArrays(e, o.e),
           FilledIn(h, i, e, hp, size, o) \/ NotFilledIn(e, hp, o)
    PROVE  Works(h, e, hp, o) /\ Arrays(h, o.e)
<1>0. /\ Indexes(e) \subseteq Int /\ Indexes(o.e) = Indexes(e) /\ i \in Int
      /\ e.file = o.e.file
  BY IndexesAre DEF Indexes, SameArrays
<1>1. Arrays(h, o.e)
  BY <1>0 DEF Arrays, SameArrays, FilledIn, NotFilledIn
<1>2. Entry(h, o.e)
  BY <1>1 DEF Entry, SameArrays
<1>3. CASE NotFilledIn(e, hp, o)
  <2>1. Blocks(o.e) = Blocks(e)
    BY <1>0, <1>3 DEF Blocks, NotFilledIn, SameArrays
  <2> QED BY <1>0, <1>1, <1>2, <1>3, <2>1 DEF Works, Owns, Elsewhere, NotFilledIn
<1>4. CASE FilledIn(h, i, e, hp, size, o)
  <2>1. <<h, i>> \in Int \X Int
    BY <1>0
  <2>2. \A j \in Indexes(e) : o.e.data[j] # NIL <=> j = i \/ e.data[j] # NIL
    BY <1>4, <2>1 DEF Arrays, FilledIn
  <2>3. Blocks(o.e) = Blocks(e) \cup {<<h, i>>}
    <3>1. Blocks(e) = {<<h, HEADER>>, <<h, SECTIONS>>, <<h, POINTERS>>}
                          \cup { <<h, j>> : j \in { k \in Indexes(e) : e.data[k] # NIL } }
      BY <1>0, ArrayBlocks
    <3>2. Blocks(o.e) = {<<h, HEADER>>, <<h, SECTIONS>>, <<h, POINTERS>>}
                          \cup { <<h, j>> : j \in { k \in Indexes(o.e) : o.e.data[k] # NIL } }
      BY <1>0, <1>1, <1>2, ArrayBlocks
    <3>3. { k \in Indexes(o.e) : o.e.data[k] # NIL } = { k \in Indexes(e) : e.data[k] # NIL } \cup {i}
      BY <1>0, <2>2
    <3> QED BY <3>1, <3>2, <3>3
  <2>4. Owns(h, o.e, o.heap) /\ Elsewhere(h, hp, o.heap)
    BY <1>0, <1>4, <2>3, OwnsOneMore, AllocatedElsewhere DEF FilledIn
  <2> QED BY <1>0, <1>1, <1>2, <2>4 DEF Works
<1> QED BY <1>3, <1>4

LEMMA NamesOutcomes ==
    ASSUME NEW h, NEW e, NEW record, NEW hp, Entry(h, e),
           NEW o \in ELFSectionNamesProcessing(e, record, hp)
    PROVE  LET i     == NamesIndex(e.file)
               asked == Request(<<h, i>>, ShSize(e, i), i)
           IN  \/ o = Outcome(Invalid(e), hp, NoData(asked), cache, FALSE)
               \/ o = Outcome([e EXCEPT !.data[i] = <<h, i>>, !.state = "elfSection"],
                              Allocated(hp, <<h, i>>, ShSize(e, i)), asked, cache, FALSE)
<1>1. e.exec[1] = h
  BY DEF Entry
<1> QED BY <1>1, Zenon DEF ELFSectionNamesProcessing, Block

LEMMA NamesWork ==
    ASSUME NEW h \in Nat, NEW e, NEW record, NEW hp, Entry(h, e), e.file \in Files,
           Owns(h, e, hp), Arrays(h, e),
           NEW o \in ELFSectionNamesProcessing(e, record, hp)
    PROVE  Works(h, e, hp, o) /\ Arrays(h, o.e)
<1> DEFINE i == NamesIndex(e.file)
<1>1. i \in Indexes(e) /\ DOMAIN e = Fields
  BY IndexesAre DEF Entry
<1>2. \/ o.e = Invalid(e) /\ o.heap = hp
      \/ /\ o.e = [e EXCEPT !.data[i] = <<h, i>>, !.state = "elfSection"]
         /\ o.heap = Allocated(hp, <<h, i>>, ShSize(e, i))
  <2>1. \/ o = Outcome(Invalid(e), hp, NoData(Request(<<h, i>>, ShSize(e, i), i)), cache, FALSE)
        \/ o = Outcome([e EXCEPT !.data[i] = <<h, i>>, !.state = "elfSection"],
                       Allocated(hp, <<h, i>>, ShSize(e, i)), Request(<<h, i>>, ShSize(e, i), i),
                       cache, FALSE)
    BY NamesOutcomes
  <2> HIDE DEF i
  <2> QED BY <2>1 DEF Outcome
<1> HIDE DEF i
<1>3. CASE o.e = Invalid(e) /\ o.heap = hp
  <2>1. SameArrays(e, o.e) /\ NotFilledIn(e, hp, o)
    BY <1>1, <1>3 DEF SameArrays, NotFilledIn, Invalid, Fields
  <2> QED BY <1>1, <2>1, SectionWorks
<1>4. CASE /\ o.e = [e EXCEPT !.data[i] = <<h, i>>, !.state = "elfSection"]
           /\ o.heap = Allocated(hp, <<h, i>>, ShSize(e, i))
  <2>1. SameArrays(e, o.e) /\ FilledIn(h, i, e, hp, ShSize(e, i), o)
    BY <1>1, <1>4 DEF SameArrays, FilledIn, Fields
  <2> QED BY <1>1, <2>1, SectionWorks
<1> QED BY <1>2, <1>3, <1>4

LEMMA AdvanceIs ==
    ASSUME NEW e, DOMAIN e = Fields
    PROVE  /\ DOMAIN Advance(e) = Fields
           /\ Advance(e) = [e EXCEPT !.iterator = Advance(e).iterator, !.state = Advance(e).state]
           /\ Advance(e).state = IF e.iterator + 1 = Cardinality(Indexes(e)) THEN "postLoad" ELSE e.state
           /\ Advance(e).iterator = e.iterator + 1
           /\ Advance(e).data = e.data
BY DEF Advance, Fields

(* The outcomes of a section: none, passed over, nothing to load, loaded, no *)
(* memory.                                                                 *)
OutsideOf(e, record, hp, o) ==
    Kind(e, e.iterator) = "outside" /\ o = Outcome(e, hp, record, cache, TRUE)

PassedBy(e, record, hp, o) ==
    /\ PassedOver(Kind(e, e.iterator))
    /\ o = Outcome([e EXCEPT !.iterator = @ + 1], hp, NoData(record), Remember(e, e.iterator), FALSE)

Nothing(e, record, hp, o) ==
    /\ e.iterator \in Indexes(e) /\ ~PassedOver(Kind(e, e.iterator))
    /\ Kind(e, e.iterator) = "null" \/ ShSize(e, e.iterator) = 0
    /\ o = Outcome(Advance(e), hp, NoData(record), Remember(e, e.iterator), FALSE)

ToLoad(e) ==
    /\ e.iterator \in Indexes(e) /\ ~PassedOver(Kind(e, e.iterator))
    /\ Kind(e, e.iterator) # "null" /\ ShSize(e, e.iterator) # 0

Loaded(h, e, record, hp, o) ==
    LET i == e.iterator
    IN  /\ ToLoad(e)
        /\ o.e = [Advance(e) EXCEPT !.data[i] = <<h, i>>]
        /\ o.heap = Allocated(hp, <<h, i>>, IF Kind(e, i) = "bss" THEN record.size ELSE ShSize(e, i))
        /\ o.record = IF Kind(e, i) = "bss" THEN record ELSE Request(<<h, i>>, ShSize(e, i), i)
        /\ o.cache = Remember(e, i)
        /\ o.stray = FALSE

NoMemory(h, e, record, hp, o) ==
    /\ ToLoad(e)
    /\ o.e \in { [Invalid(e) EXCEPT !.iterator = it] : it \in {e.iterator, e.iterator + 1} }
    /\ o.heap = hp /\ o.cache = Remember(e, e.iterator) /\ o.stray = FALSE
    /\ o.record = IF Kind(e, e.iterator) = "bss" THEN record
                  ELSE NoData(Request(<<h, e.iterator>>, ShSize(e, e.iterator), e.iterator))

LEMMA SectionOutcomes ==
    ASSUME NEW h, NEW e, NEW record, NEW hp, Entry(h, e), e.file \in Files,
           NEW o \in ELFSectionProcessing(e, record, hp)
    PROVE  \/ OutsideOf(e, record, hp, o)
           \/ PassedBy(e, record, hp, o)
           \/ Nothing(e, record, hp, o)
           \/ Loaded(h, e, record, hp, o)
           \/ NoMemory(h, e, record, hp, o)
<1> DEFINE i    == e.iterator
           size == IF Kind(e, i) = "bss" THEN record.size ELSE ShSize(e, i)
<1>0. Block(e, i) = <<h, i>>
  BY DEF Entry, Block
<1>1. CASE Kind(e, i) = "outside"
  <2>1. o \in { Outcome(e, hp, record, cache, TRUE) }
    <3>1. i \notin Indexes(e)
      BY <1>1, IndexesAre
    <3> QED BY <1>1, <3>1, Zenon DEF ELFSectionProcessing, PassedOver
  <2> QED BY <1>1, <2>1 DEF OutsideOf
<1>2. CASE PassedOver(Kind(e, i))
  <2>1. o \in { Outcome([e EXCEPT !.iterator = @ + 1], hp, NoData(record), Remember(e, i), FALSE) }
    BY <1>2 DEF ELFSectionProcessing, PassedOver
  <2> QED BY <1>2, <2>1 DEF PassedBy
<1>3. CASE Kind(e, i) # "outside" /\ ~PassedOver(Kind(e, i)) /\ ~ToLoad(e)
  <2>1. i \in Indexes(e) /\ (Kind(e, i) = "null" \/ ShSize(e, i) = 0)
    BY <1>3 DEF Kind, ToLoad
  <2>2. o \in { Outcome(Advance(e), hp, NoData(record), Remember(e, i), FALSE) }
    BY <1>3, <2>1 DEF ELFSectionProcessing
  <2> QED BY <1>3, <2>1, <2>2 DEF Nothing
<1>4. CASE ToLoad(e)
  <2>1. /\ i \in Indexes(e) /\ Kind(e, i) # "outside" /\ ~PassedOver(Kind(e, i))
        /\ Kind(e, i) # "null" /\ ShSize(e, i) # 0
    BY <1>4, IndexesAre DEF ToLoad
  <2> DEFINE record1 == IF Kind(e, i) = "bss" THEN record ELSE Request(<<h, i>>, size, i)
             record2 == IF Kind(e, i) = "bss" THEN record ELSE NoData(Request(<<h, i>>, size, i))
             it      == IF Kind(e, i) = "bss" THEN i ELSE i + 1
             one     == Outcome([Advance(e) EXCEPT !.data[i] = <<h, i>>], Allocated(hp, <<h, i>>, size),
                                record1, Remember(e, i), FALSE)
             two     == Outcome([Invalid(e) EXCEPT !.iterator = it], hp, record2, Remember(e, i), FALSE)
  <2>2. Invalid(e).iterator = i /\ "iterator" \in DOMAIN Invalid(e)
    BY DEF Invalid, Entry, Fields
  <2>3. [Invalid(e) EXCEPT !.iterator = IF Kind(e, i) = "bss" THEN @ ELSE @ + 1]
          = [Invalid(e) EXCEPT !.iterator = it]
    BY <2>2
  <2>4. o \in {one, two}
    BY <1>0, <2>1, <2>3, Zenon DEF ELFSectionProcessing
  <2>5. CASE o = one
    <3>1. Loaded(h, e, record, hp, one)
      BY <1>4 DEF Loaded, Outcome
    <3> QED BY <2>5, <3>1
  <2>6. CASE o = two
    <3>1. two.e = [Invalid(e) EXCEPT !.iterator = it] /\ it \in {i, i + 1}
      BY DEF Outcome
    <3>2. two.heap = hp /\ two.cache = Remember(e, i) /\ two.stray = FALSE
      BY DEF Outcome
    <3>3. NoMemory(h, e, record, hp, two)
      BY <1>4, <3>1, <3>2 DEF NoMemory, Outcome
    <3> QED BY <2>6, <3>3
  <2> QED BY <2>4, <2>5, <2>6
<1> QED BY <1>1, <1>2, <1>3, <1>4

LEMMA SectionsWork ==
    ASSUME NEW h \in Nat, NEW e, NEW record, NEW hp, Entry(h, e), e.file \in Files,
           Owns(h, e, hp), Arrays(h, e), e.state = "elfSection",
           NEW o \in ELFSectionProcessing(e, record, hp)
    PROVE  Works(h, e, hp, o) /\ Arrays(h, o.e)
<1>1. DOMAIN e = Fields /\ \E j \in Indexes(e) : TRUE
  BY IndexesAre DEF Entry
<1>2. CASE OutsideOf(e, record, hp, o) \/ PassedBy(e, record, hp, o) \/ Nothing(e, record, hp, o)
           \/ NoMemory(h, e, record, hp, o)
  <2>1. o.heap = hp
    BY <1>2 DEF OutsideOf, PassedBy, Nothing, NoMemory, Outcome
  <2>2. \/ o.e = e
        \/ o.e = [e EXCEPT !.iterator = @ + 1]
        \/ o.e = Advance(e)
        \/ \E it : o.e = [Invalid(e) EXCEPT !.iterator = it]
    <3>1. CASE OutsideOf(e, record, hp, o)
      BY <3>1 DEF OutsideOf, Outcome
    <3>2. CASE PassedBy(e, record, hp, o)
      BY <3>2 DEF PassedBy, Outcome
    <3>3. CASE Nothing(e, record, hp, o)
      BY <3>3 DEF Nothing, Outcome
    <3>4. CASE NoMemory(h, e, record, hp, o)
      BY <3>4 DEF NoMemory
    <3> QED BY <1>2, <3>1, <3>2, <3>3, <3>4
  <2>3. /\ SameArrays(e, e)
        /\ LET f == [e EXCEPT !.iterator = @ + 1] IN SameArrays(e, f) /\ f.data = e.data
        /\ SameArrays(e, Advance(e)) /\ Advance(e).data = e.data
        /\ \A it : LET f == [Invalid(e) EXCEPT !.iterator = it] IN SameArrays(e, f) /\ f.data = e.data
    BY <1>1 DEF SameArrays, Fields, Invalid, Advance
  <2>4. SameArrays(e, o.e) /\ o.e.data = e.data
    BY <2>2, <2>3
  <2> QED BY <1>1, <2>1, <2>4, SectionWorks DEF NotFilledIn
<1>3. CASE Loaded(h, e, record, hp, o)
  <2> DEFINE i    == e.iterator
             size == IF Kind(e, i) = "bss" THEN record.size ELSE ShSize(e, i)
  <2>1. i \in Indexes(e)
    BY <1>3 DEF Loaded, ToLoad
  <2>2. FilledIn(h, i, e, hp, size, o)
    BY <1>1, <1>3, AdvanceIs DEF Loaded, FilledIn, Fields
  <2>3. SameArrays(e, o.e)
    BY <1>1, <1>3 DEF Loaded, SameArrays, Fields, Advance
  <2> HIDE DEF i, size
  <2> QED BY <2>1, <2>2, <2>3, SectionWorks
<1> QED BY <1>2, <1>3, SectionOutcomes

(* The end of a load. *)
Assigned(e, hp) ==
    IF (cache.bss \in Indexes(e) /\ ShSize(e, cache.bss) = 0) /\ SymTabIsOwn(e)
    THEN ELFsizeAndAssignMemToBSS(e, hp)
    ELSE {[e |-> e, heap |-> hp]}

Finish(e) == [e EXCEPT !.state = "finalState"]

Resolved(a) == ELFresolveRelocations(a.e, a.heap)

Strays(e, a) ==
    \/ cache.bss \notin Indexes(e)
    \/ (cache.bss \in Indexes(e) /\ ShSize(e, cache.bss) = 0) /\ ~SymTabIsOwn(e)
    \/ Resolved(a).stray

Finished(e, a, record, o) ==
    /\ o.e = Finish(a.e) /\ o.heap = Resolved(a).heap
    /\ o.record = NoData(record) /\ o.cache = cache /\ o.stray = Strays(e, a)

LEMMA PostOutcome ==
    ASSUME NEW e, NEW record, NEW hp, NEW o \in PostLoad(e, record, hp)
    PROVE  \E a \in Assigned(e, hp) : Finished(e, a, record, o)
<1>1. o \in { Outcome(Finish(a.e), Resolved(a).heap, NoData(record), cache, Strays(e, a)) :
                    a \in Assigned(e, hp) }
  BY Zenon DEF PostLoad, Assigned, Resolved, Strays, Finish
<1> QED BY <1>1 DEF Outcome, Finished

(* The section for uninitialised data has grown, and nothing else changed. *)
WithBlock(e, b) == [Grown(e) EXCEPT !.data[cache.bss] = b]

GrownTo(e, f, data) ==
    /\ DOMAIN f = Fields /\ f.exec = e.exec /\ f.type = e.type /\ f.state = e.state
    /\ f.iterator = e.iterator /\ f.file = e.file
    /\ f.section = e.section /\ f.sectionData = e.sectionData
    /\ f.grown = [at |-> cache.bss, size |-> CommonSize(e)] /\ f.common = cache.bss
    /\ f.data = data

LEMMA GrownIs ==
    ASSUME NEW e, DOMAIN e = Fields, NEW b
    PROVE  /\ GrownTo(e, Grown(e), e.data)
           /\ GrownTo(e, WithBlock(e, b), [e.data EXCEPT ![cache.bss] = b])
<1> DEFINE g == Grown(e)
           w == [g EXCEPT !.data = [e.data EXCEPT ![cache.bss] = b]]
<1>1. GrownTo(e, g, e.data)
  BY DEF Grown, GrownTo, Fields
<1>2. WithBlock(e, b) = w
  BY <1>1 DEF WithBlock, GrownTo
<1> HIDE DEF g
<1>3. GrownTo(e, w, [e.data EXCEPT ![cache.bss] = b])
  BY <1>1 DEF GrownTo, Fields
<1> QED BY <1>1, <1>2, <1>3 DEF g

(* Common symbols: none or not possible, in a new block, or without one. *)
Joined(h, e, hp, a) ==
    /\ a.e = WithBlock(e, <<h, cache.bss>>)
    /\ a.heap = Allocated(hp, <<h, cache.bss>>, CommonSize(e))

LEMMA AssignedIs ==
    ASSUME NEW h, NEW e, NEW hp, Entry(h, e), NEW a \in Assigned(e, hp)
    PROVE  \/ a.e = e /\ a.heap = hp
           \/ /\ cache.bss \in Indexes(e) /\ ShSize(e, cache.bss) = 0
              /\ SymTabIsOwn(e) /\ CommonSize(e) # 0
              /\ Joined(h, e, hp, a) \/ (a.e = Grown(e) /\ a.heap = hp)
<1> DEFINE i    == cache.bss
           with == [e |-> WithBlock(e, <<h, i>>),
                    heap |-> Allocated(hp, <<h, i>>, CommonSize(e))]
<1>1. Block(e, i) = <<h, i>>
  BY DEF Block, Entry
<1>2. CASE a \in {[e |-> e, heap |-> hp]}
  BY <1>2
<1>3. CASE a \notin {[e |-> e, heap |-> hp]}
  <2>1. /\ i \in Indexes(e) /\ ShSize(e, i) = 0 /\ SymTabIsOwn(e) /\ CommonSize(e) # 0
        /\ a \in {with, [e |-> Grown(e), heap |-> hp]}
    BY <1>1, <1>3 DEF Assigned, ELFsizeAndAssignMemToBSS, WithBlock
  <2>2. CASE a = with
    BY <2>1, <2>2 DEF Joined
  <2>3. CASE a = [e |-> Grown(e), heap |-> hp]
    BY <2>1, <2>3
  <2> QED BY <2>1, <2>2, <2>3
<1> QED BY <1>2, <1>3

LEMMA PostWorks ==
    ASSUME NEW h \in Nat, NEW e, NEW record, NEW hp, Entry(h, e), e.file \in Files,
           Owns(h, e, hp), Arrays(h, e), NEW o \in PostLoad(e, record, hp)
    PROVE  Works(h, e, hp, o) /\ Arrays(h, o.e)
<1>0. PICK a \in Assigned(e, hp) : Finished(e, a, record, o)
  BY PostOutcome
<1> DEFINE f  == a.e
           hq == a.heap
           g  == [f EXCEPT !.state = "finalState"]
           m  == [e |-> g, heap |-> hq]
<1>1. PICK i \in Indexes(e) : cache.bss \in Indexes(e) => i = cache.bss
  BY IndexesAre
<1>2. DOMAIN e = Fields
  BY DEF Entry
<1>3. o.e = g /\ o.heap = ELFresolveRelocations(f, hq).heap
  BY <1>0 DEF Finished, Finish, Resolved
<1>4. /\ DOMAIN f = Fields /\ f.exec = e.exec /\ f.type = e.type /\ f.file = e.file
      /\ f.section = e.section /\ f.sectionData = e.sectionData
      /\ \/ f.data = e.data /\ hq = hp
         \/ /\ f.data = [e.data EXCEPT ![i] = <<h, i>>]
            /\ hq = Allocated(hp, <<h, i>>, CommonSize(e))
  <2>1. CASE a.e = e /\ a.heap = hp
    BY <1>2, <2>1
  <2>2. CASE a.e = Grown(e) /\ a.heap = hp
    <3>1. GrownTo(e, f, e.data)
      BY <1>2, <2>2, GrownIs
    <3> QED BY <2>2, <3>1 DEF GrownTo
  <2>3. CASE Joined(h, e, hp, a) /\ cache.bss = i
    <3>1. f = WithBlock(e, <<h, cache.bss>>) /\ hq = Allocated(hp, <<h, i>>, CommonSize(e))
      BY <2>3 DEF Joined
    <3>2. GrownTo(e, f, [e.data EXCEPT ![cache.bss] = <<h, cache.bss>>])
      BY <1>2, <3>1, GrownIs
    <3> QED BY <2>3, <3>1, <3>2 DEF GrownTo
  <2> QED BY <1>1, <2>1, <2>2, <2>3, AssignedIs
<1> HIDE DEF f, hq
<1>5. SameArrays(e, m.e) /\ m.e.data = f.data
  BY <1>2, <1>4 DEF SameArrays, Fields
<1>6. FilledIn(h, i, e, hp, CommonSize(e), m) \/ NotFilledIn(e, hp, m)
  BY <1>4, <1>5 DEF FilledIn, NotFilledIn
<1>7. Works(h, e, hp, m) /\ Arrays(h, m.e)
  <2> HIDE DEF m
  <2> QED BY <1>5, <1>6, SectionWorks
<1>8. Entry(h, g) /\ Arrays(h, g) /\ g.file = e.file /\ Owns(h, g, hq) /\ Elsewhere(h, hp, hq)
  BY <1>7 DEF Works
<1>9. f.data = g.data /\ f.file = g.file
  BY <1>4 DEF Fields
<1>10. Data(f, cache.text) \in Part(h) \/ ~IsLoaded(f, cache.text, "text")
  <2>1. IsLoaded(f, cache.text, "text") => cache.text \in DOMAIN f.data /\ f.data[cache.text] # NIL
    BY DEF IsLoaded, Data
  <2>2. DOMAIN g.data = Indexes(g) /\ \A j \in Indexes(g) : g.data[j] \in {NIL, <<h, j>>}
    BY <1>8 DEF Arrays
  <2>3. \A j \in Indexes(g) : j \in Int
    BY <1>8, IndexesAre
  <2> QED BY <2>1, <2>2, <2>3, <1>9 DEF Data, Part
<1>11. DOMAIN o.heap = DOMAIN hq /\ \A b \in DOMAIN hq \ Part(h) : o.heap[b] = hq[b]
  BY <1>3, <1>10, RelocatedIs
<1>12. Owns(h, g, o.heap) /\ Elsewhere(h, hp, o.heap)
  BY <1>8, <1>11 DEF Owns, Elsewhere
<1> QED BY <1>3, <1>8, <1>12 DEF Works

LEMMA LoadWorks ==
    ASSUME NEW h \in Nat, NEW e, NEW record, NEW hp, Entry(h, e), e.file \in Files,
           Owns(h, e, hp), Status(e) = "EXEC_LOAD_AGAIN",
           NEW o \in LoadStep(e, record, hp),
           ~ (o.e.state = "elfInvalid" /\ o.e.sectionData \in {NIL, GARBAGE})
    PROVE  Works(h, e, hp, o) /\ Arrays(h, o.e)
<1>1. e.state \in {"saveElfHeader", "elfSectionNames", "elfSection", "postLoad"}
  BY DEF Entry, Empty, Arrays, Status
<1>2. CASE e.state = "saveElfHeader"
  <2>1. Empty(e)
    BY <1>2 DEF Entry, Arrays
  <2>2. o \in ELFSectionHeaderProcessing(e, record, hp)
    BY <1>2 DEF LoadStep
  <2> QED BY <1>2, <2>1, <2>2, HeaderWorks
<1>3. CASE e.state # "saveElfHeader"
  <2>1. Arrays(h, e)
    BY <1>1, <1>3 DEF Entry, Empty
  <2>2. CASE e.state = "elfSectionNames"
    <3>1. o \in ELFSectionNamesProcessing(e, record, hp)
      BY <2>2 DEF LoadStep
    <3> QED BY <2>1, <3>1, NamesWork
  <2>3. CASE e.state = "elfSection"
    <3>1. o \in ELFSectionProcessing(e, record, hp)
      BY <2>3 DEF LoadStep
    <3> QED BY <2>1, <2>3, <3>1, SectionsWork
  <2>4. CASE e.state = "postLoad"
    <3>1. o \in PostLoad(e, record, hp)
      BY <2>4 DEF LoadStep
    <3> QED BY <2>1, <3>1, PostWorks
  <2> QED BY <1>1, <1>3, <2>2, <2>3, <2>4
<1> QED BY <1>2, <1>3
RecordOf(h, record) ==
    DOMAIN record = {"buffer", "size", "part"} /\ record.buffer \in Part(h) \cup {NIL}

LEMMA RequestsAre ==
    ASSUME NEW h, NEW p \in Int, NEW size, NEW part
    PROVE  /\ RecordOf(h, Request(<<h, p>>, size, part))
           /\ RecordOf(h, NoData(Request(<<h, p>>, size, part)))
BY DEF Request, NoData, RecordOf, Part

LEMMA RecordWorks ==
    ASSUME NEW h \in Nat, NEW e, NEW record, NEW hp, Entry(h, e), e.file \in Files,
           RecordOf(h, record), Status(e) = "EXEC_LOAD_AGAIN",
           NEW o \in LoadStep(e, record, hp)
    PROVE  RecordOf(h, o.record)
<1>1. e.state \in {"saveElfHeader", "elfSectionNames", "elfSection", "postLoad"}
  BY DEF Entry, Empty, Arrays, Status
<1>2. RecordOf(h, NoData(record))
  BY DEF RecordOf, NoData
<1>3. CASE e.state = "saveElfHeader"
  <2> DEFINE asked == Request(<<h, SECTIONS>>, Cardinality(Indexes(e)), SECTIONS)
  <2>1. Block(e, SECTIONS) = <<h, SECTIONS>> /\ SECTIONS \in Int
    BY DEF Block, Entry, SECTIONS
  <2>2. o.record \in {asked, NoData(asked)}
    BY <1>3, <2>1 DEF LoadStep, ELFSectionHeaderProcessing, Outcome
  <2> QED BY <2>1, <2>2, RequestsAre
<1>4. CASE e.state = "elfSectionNames"
  <2> DEFINE i     == NamesIndex(e.file)
             asked == Request(<<h, i>>, ShSize(e, i), i)
  <2>1. o \in ELFSectionNamesProcessing(e, record, hp)
    BY <1>4 DEF LoadStep
  <2>2. \/ o = Outcome(Invalid(e), hp, NoData(asked), cache, FALSE)
        \/ o = Outcome([e EXCEPT !.data[i] = <<h, i>>, !.state = "elfSection"],
                       Allocated(hp, <<h, i>>, ShSize(e, i)), asked, cache, FALSE)
    BY <2>1, NamesOutcomes
  <2>3. i \in Int
    BY IndexesAre
  <2>4. RecordOf(h, asked) /\ RecordOf(h, NoData(asked))
    BY <2>3, RequestsAre
  <2> HIDE DEF asked, i
  <2> QED BY <2>2, <2>4 DEF Outcome
<1>5. CASE e.state = "elfSection"
  <2> DEFINE i     == e.iterator
             asked == Request(<<h, i>>, ShSize(e, i), i)
  <2>1. o \in ELFSectionProcessing(e, record, hp)
    BY <1>5 DEF LoadStep
  <2>2. \/ o.record \in {record, NoData(record)}
        \/ i \in Indexes(e) /\ o.record \in {asked, NoData(asked)}
    <3>1. CASE OutsideOf(e, record, hp, o)
      BY <3>1 DEF OutsideOf, Outcome
    <3>2. CASE PassedBy(e, record, hp, o)
      BY <3>2 DEF PassedBy, Outcome
    <3>3. CASE Nothing(e, record, hp, o)
      BY <3>3 DEF Nothing, Outcome
    <3>4. CASE Loaded(h, e, record, hp, o)
      BY <3>4 DEF Loaded, ToLoad
    <3>5. CASE NoMemory(h, e, record, hp, o)
      BY <3>5 DEF NoMemory, ToLoad
    <3> QED BY <2>1, <3>1, <3>2, <3>3, <3>4, <3>5, SectionOutcomes
  <2>3. i \in Indexes(e) => RecordOf(h, asked) /\ RecordOf(h, NoData(asked))
    <3>1. Indexes(e) \subseteq Int
      BY IndexesAre
    <3> QED BY <3>1, RequestsAre
  <2> HIDE DEF asked, i
  <2> QED BY <1>2, <2>2, <2>3
<1>6. CASE e.state = "postLoad"
  <2>1. o \in PostLoad(e, record, hp)
    BY <1>6 DEF LoadStep
  <2> QED BY <1>2, <2>1, PostOutcome DEF Finished
<1> QED BY <1>1, <1>3, <1>4, <1>5, <1>6

-----------------------------------------------------------------------------
(* Memory and the tasks.  What is read goes to a block of the executable.  *)
Fits(r, e, hp) ==
    /\ Entry(r.h, e) /\ Owns(r.h, e, hp)
    /\ r.at = "header" => Empty(e) /\ e.state = "saveElfHeader"
    /\ r.at # "header" => e.file = r.file
    /\ r.at \in {"header", "load"} => RecordOf(r.h, r.record)

MemInv ==
    /\ TaskType
    /\ DOMAIN eTable \subseteq Nat
    /\ \A t \in Busy : task[t].h \in DOMAIN eTable /\ Fits(task[t], eTable[task[t].h], heap)
    /\ \A t, u \in Busy : t # u => task[t].h # task[u].h
    /\ \A b \in DOMAIN heap : \E t \in Busy : b \in Part(task[t].h)

(* What a step may do for a task with handle h. *)
OnlyFor(h) ==
    /\ DOMAIN eTable' = DOMAIN eTable
    /\ \A k \in DOMAIN eTable \ {h} : eTable'[k] = eTable[k]
    /\ Elsewhere(h, heap, heap')

(* A step of a task is for one handle, which no other task has. *)
Acts(t) ==
    \E h : /\ \A u \in Busy \ {t} : task[u].h # h
           /\ OnlyFor(h)
           /\ task'[t] = Idle \/ task'[t].h = h

LEMMA PartsAreApart ==
    ASSUME NEW h, NEW k, h # k
    PROVE  \A p \in Int : <<k, p>> \notin Part(h)
BY DEF Part

LEMMA MemoryFrame ==
    ASSUME MemInv, NEW t \in Tasks, TaskType', Moves(t), NEW h,
           t \in Busy => task[t].h = h,
           \A u \in Busy \ {t} : task[u].h # h,
           OnlyFor(h),
           \/ task'[t] = Idle /\ DOMAIN heap' \cap Part(h) = {}
           \/ /\ task'[t] # Idle /\ task'[t].h = h /\ h \in DOMAIN eTable
              /\ Fits(task'[t], eTable'[h], heap')
    PROVE  MemInv' /\ Acts(t)
<1>1. /\ \A u \in Tasks \ {t} : task'[u] = task[u]
      /\ Busy' \ {t} = Busy \ {t}
      /\ t \in Busy' <=> task'[t] # Idle
  BY DEF Moves, Busy, MemInv
<1>2. DOMAIN eTable' \subseteq Nat
  BY DEF MemInv, OnlyFor
<1>3. ASSUME NEW u \in Busy \ {t}
      PROVE  task'[u].h \in DOMAIN eTable' /\ Fits(task'[u], eTable'[task'[u].h], heap')
  <2> DEFINE k == task[u].h
  <2>1. k # h /\ k \in DOMAIN eTable /\ Fits(task[u], eTable[k], heap) /\ task'[u] = task[u] /\ u \in Tasks
    BY <1>1, <1>3 DEF MemInv, Busy
  <2>2. eTable'[k] = eTable[k] /\ DOMAIN eTable' = DOMAIN eTable
    BY <2>1 DEF OnlyFor
  <2>3. \A p \in Int : <<k, p>> \in DOMAIN heap' <=> <<k, p>> \in DOMAIN heap
    BY <2>1, PartsAreApart DEF OnlyFor, Elsewhere
  <2>4. Owns(k, eTable[k], heap')
    BY <2>1, <2>3 DEF Fits, Owns
  <2> QED BY <2>1, <2>2, <2>4 DEF Fits
<1>4. ASSUME NEW u \in Busy'
      PROVE  task'[u].h \in DOMAIN eTable' /\ Fits(task'[u], eTable'[task'[u].h], heap')
  BY <1>1, <1>3, <1>4 DEF OnlyFor
<1>5. ASSUME NEW u \in Busy', NEW v \in Busy', u # v PROVE task'[u].h # task'[v].h
  <2>1. u \in Tasks /\ v \in Tasks /\ \A w \in Busy \ {t} : w \in Tasks
    BY DEF Busy
  <2>2. CASE u # t /\ v # t
    BY <1>1, <1>5, <2>1, <2>2 DEF MemInv
  <2>3. CASE u = t \/ v = t
    BY <1>1, <1>5, <2>1, <2>3
  <2> QED BY <2>2, <2>3
<1>6. ASSUME NEW b \in DOMAIN heap' PROVE \E u \in Busy' : b \in Part(task'[u].h)
  <2>1. CASE b \in Part(h)
    BY <1>1, <2>1
  <2>2. CASE b \notin Part(h)
    <3>1. b \in DOMAIN heap
      BY <2>2 DEF OnlyFor, Elsewhere
    <3>2. PICK u \in Busy : b \in Part(task[u].h)
      BY <3>1 DEF MemInv
    <3>3. u # t
      BY <2>2, <3>2
    <3> QED BY <1>1, <3>2, <3>3 DEF Busy
  <2> QED BY <2>1, <2>2
<1>7. Acts(t)
  BY DEF Acts
<1> QED BY <1>2, <1>4, <1>5, <1>6, <1>7 DEF MemInv

LEMMA MemoryBegins == ASSUME Init PROVE MemInv
<1>1. TaskType
  BY TasksBegin
<1>2. Busy = {} /\ DOMAIN eTable = {} /\ DOMAIN heap = {}
  BY DEF Init, ExecInit, Busy, NoTable
<1> QED BY <1>1, <1>2 DEF MemInv

LEMMA MemorySuffices == ASSUME MemInv PROVE MemoryIsHeld
<1>1. ASSUME NEW t \in Busy
      PROVE  Blocks(eTable[task[t].h]) \subseteq Part(task[t].h) /\ task[t].h \in Nat
  <2> DEFINE h == task[t].h
             e == eTable[h]
  <2>1. h \in Nat /\ Entry(h, e) /\ Fits(task[t], e, heap) /\ t \in Tasks
    BY DEF MemInv, Fits, Busy
  <2>2. CASE task[t].at = "header"
    <3>1. Blocks(e) = {<<h, HEADER>>} /\ HEADER \in Int
      BY <2>1, <2>2, EmptyBlocks DEF Fits, HEADER
    <3> QED BY <2>1, <3>1 DEF Part
  <2>3. CASE task[t].at # "header"
    <3>1. e.file \in Files
      BY <2>1, <2>3, BusyIs DEF Fits, MemInv, Started, Registered
    <3> QED BY <2>1, <3>1, BlocksAreOwn, IndexesAre
  <2> QED BY <2>2, <2>3
<1>2. ASSUME NEW b PROVE b \in DOMAIN heap <=> \E t \in Busy : b \in Blocks(eTable[task[t].h])
  <2>1. ASSUME b \in DOMAIN heap PROVE \E t \in Busy : b \in Blocks(eTable[task[t].h])
    <3>1. PICK t \in Busy : b \in Part(task[t].h)
      BY <2>1 DEF MemInv
    <3>2. Owns(task[t].h, eTable[task[t].h], heap)
      BY DEF MemInv, Fits
    <3> QED BY <2>1, <3>1, <3>2 DEF Owns, Part
  <2>2. ASSUME NEW t \in Busy, b \in Blocks(eTable[task[t].h]) PROVE b \in DOMAIN heap
    <3>1. b \in Part(task[t].h)
      BY <1>1, <2>2
    <3>2. Owns(task[t].h, eTable[task[t].h], heap)
      BY DEF MemInv, Fits
    <3> QED BY <2>2, <3>1, <3>2 DEF Owns, Part
  <2> QED BY <2>1, <2>2
<1>3. DOMAIN heap = UNION { Blocks(eTable[task[t].h]) : t \in Busy }
  BY <1>2
<1>4. ASSUME NEW t \in Busy, NEW u \in Busy, t # u
      PROVE  Blocks(eTable[task[t].h]) \cap Blocks(eTable[task[u].h]) = {}
  <2>1. task[t].h # task[u].h
    BY <1>4 DEF MemInv
  <2>2. Part(task[t].h) \cap Part(task[u].h) = {}
    BY <2>1 DEF Part
  <2> QED BY <1>1, <2>2
<1> QED BY <1>3, <1>4 DEF MemoryIsHeld

(* What the provers need of a task in progress. *)
LEMMA BusyTask ==
    ASSUME MemInv, NEW t \in Tasks, task[t].at # "idle"
    PROVE  /\ t \in Busy /\ task[t].h \in DOMAIN eTable /\ task[t].h \in Nat
           /\ Entry(task[t].h, eTable[task[t].h]) /\ Fits(task[t], eTable[task[t].h], heap)
           /\ \A u \in Busy \ {t} : task[u].h # task[t].h
           /\ task[t].file \in Files /\ Loadable(task[t].file)
<1>1. t \in Busy /\ (Started(task[t]) \/ Registered(task[t]))
  BY BusyIs DEF MemInv
<1> QED BY <1>1 DEF MemInv, Fits, Started, Registered

LEMMA StartedTask ==
    ASSUME MemInv, NEW t \in Tasks, task[t].at \in {"header", "load", "close", "loaded", "linked"}
    PROVE  Started(task[t])
BY DEF MemInv, TaskType, Idle, Registered

LEMMA MemoryOpens ==
    ASSUME MemInv, NEW t \in Tasks, NEW kind \in {"exec", "lm"}, NEW file \in Files, NEW h,
           Open(t, kind, file), Opens(t, kind, file, h)
    PROVE  MemInv' /\ Acts(t)
<1>1. Step(t) /\ TaskType' /\ Moves(t)
  BY TaskSteps DEF Step, MemInv
<1>2. /\ KLexecOpen(h) /\ Vacant(eTable) # {}
      /\ task' = [task EXCEPT ![t] =
                [at |-> "header", kind |-> kind, file |-> file, h |-> h,
                 record |-> Request(<<h, HEADER>>, 1, HEADER)]]
  BY DEF Opens
<1>3. h \in DOMAIN eTable /\ eTable[h].exec = NIL /\ h \in Nat
  <2>1. Vacant(eTable) \subseteq Nat /\ Vacant(eTable) # {} /\ h = Lowest(Vacant(eTable))
    BY <1>2 DEF KLexecOpen, Vacant, MemInv
  <2>2. h \in Vacant(eTable)
    BY <2>1, LowestIs
  <2> QED BY <2>1, <2>2 DEF Vacant
<1>4. HEADER \in Int
  BY DEF HEADER
<1>5. \A u \in Busy : task[u].h # h
  <2>1. \A u \in Busy : task[u].h \in DOMAIN eTable /\ eTable[task[u].h].exec = <<task[u].h, HEADER>>
    BY DEF MemInv, Fits, Entry
  <2>2. \A k \in DOMAIN eTable : <<k, HEADER>> \in Int \X Int
    BY <1>4 DEF MemInv
  <2> QED BY <1>3, <2>1, <2>2
<1>6. DOMAIN heap \cap Part(h) = {}
  <2>1. SUFFICES ASSUME NEW b \in DOMAIN heap, b \in Part(h) PROVE FALSE
    OBVIOUS
  <2>2. PICK u \in Busy : b \in Part(task[u].h)
    BY DEF MemInv
  <2> QED BY <1>5, <2>1, <2>2 DEF Part
<1>7. /\ eTable' = [eTable EXCEPT ![h] = Opened(<<h, HEADER>>)]
      /\ heap' = Allocated(heap, <<h, HEADER>>, 1)
  BY <1>2 DEF KLexecOpen
<1>8. OnlyFor(h)
  BY <1>4, <1>7, AllocatedElsewhere DEF OnlyFor
<1>9. Entry(h, eTable'[h]) /\ Empty(eTable'[h]) /\ eTable'[h].state = "saveElfHeader"
  BY <1>3, <1>7 DEF Entry, Empty, Opened, Fields
<1>10. Owns(h, eTable'[h], heap')
  <2>1. Blocks(eTable'[h]) = {<<h, HEADER>>}
    BY <1>3, <1>9, EmptyBlocks
  <2>2. DOMAIN heap' = DOMAIN heap \cup {<<h, HEADER>>}
    BY <1>7 DEF Allocated
  <2>3. \A p \in Int : <<h, p>> \notin DOMAIN heap
    BY <1>6 DEF Part
  <2> QED BY <2>1, <2>2, <2>3 DEF Owns
<1>11. task'[t].h = h /\ task'[t].at = "header" /\ task'[t].record = Request(<<h, HEADER>>, 1, HEADER)
  BY <1>2 DEF MemInv, TaskType
<1>12. Fits(task'[t], eTable'[h], heap')
  BY <1>4, <1>9, <1>10, <1>11, RequestsAre DEF Fits
<1>13. t \notin Busy /\ task'[t] # Idle
  BY <1>11, OpenIs DEF Busy, Idle
<1> QED BY <1>1, <1>3, <1>5, <1>8, <1>11, <1>12, <1>13, MemoryFrame

LEMMA MemoryOpen ==
    ASSUME MemInv, NEW t \in Tasks, NEW kind \in {"exec", "lm"}, NEW file \in Files,
           Open(t, kind, file)
    PROVE  MemInv' /\ Acts(t)
<1>1. Step(t) /\ TaskType' /\ Moves(t)
  BY TaskSteps DEF Step, MemInv
<1>2. task[t] = Idle
  BY OpenIs
<1>3. CASE OpenRefused
  <2>1. UNCHANGED <<heap, eTable, cache, task>>
    BY <1>3 DEF OpenRefused
  <2>2. OnlyFor(-1)
    BY <2>1 DEF OnlyFor, Elsewhere
  <2>3. \A u \in Busy : task[u].h # -1
    BY DEF MemInv
  <2>4. Acts(t)
    BY <1>2, <2>1, <2>2, <2>3 DEF Acts
  <2> QED BY <1>1, <2>1, <2>4 DEF MemInv, Busy
<1>4. ASSUME NEW h, Opens(t, kind, file, h) PROVE MemInv' /\ Acts(t)
  BY <1>4, MemoryOpens
<1> QED BY <1>3, <1>4, OpenIs

(* The header is read; if it is looked at, the state is set or kept.        *)
HeaderRead(e, file, f) ==
    f \in { WithHeader(e, file), Invalid(WithHeader(e, file)),
            [WithHeader(e, file) EXCEPT !.state = "saveElfHeader"] }

LEMMA HeaderIs ==
    ASSUME NEW t, NEW probing, NEW read, ReadHeader(t, probing, read), read = TRUE
    PROVE  /\ UNCHANGED <<heap, cache, stray, lmTable>>
           /\ \E f : /\ HeaderRead(eTable[task[t].h], task[t].file, f)
                    /\ eTable' = [eTable EXCEPT ![task[t].h] = f]
BY DEF ReadHeader, HeaderRead, Probed

LEMMA MemoryHeader ==
    ASSUME MemInv, NEW t \in Tasks, NEW probing \in BOOLEAN, NEW read \in BOOLEAN,
           ReadHeader(t, probing, read), "unread" \notin Allowed
    PROVE  MemInv' /\ Acts(t)
<1> DEFINE h == task[t].h
           e == eTable[h]
<1>1. Step(t) /\ TaskType' /\ Moves(t)
  BY TaskSteps DEF Step, MemInv
<1>2. task[t].at = "header" /\ read
  BY DEF ReadHeader
<1>3. /\ t \in Busy /\ h \in DOMAIN eTable /\ h \in Nat
      /\ Entry(h, e) /\ Fits(task[t], e, heap)
      /\ \A u \in Busy \ {t} : task[u].h # h
  BY <1>2, BusyTask
<1>4. Started(task[t])
  BY <1>2, StartedTask
<1>5. heap' = heap /\ \E f : HeaderRead(e, task[t].file, f) /\ eTable' = [eTable EXCEPT ![h] = f]
  BY <1>2, HeaderIs
<1>6. PICK a \in {"close", "load"} : task' = [task EXCEPT ![t].at = a]
  BY <1>2 DEF ReadHeader
<1>7. task'[t].h = h /\ task'[t].at = a /\ task'[t].file = task[t].file /\ task'[t].record = task[t].record
  BY <1>4, <1>6 DEF Started, MemInv, TaskType
<1>8. /\ Entry(h, eTable'[h]) /\ Empty(eTable'[h]) /\ eTable'[h].file = task[t].file
  <2>1. DOMAIN e = Fields /\ Empty(e) /\ e.state = "saveElfHeader"
    BY <1>2, <1>3 DEF Entry, Fits
  <2>2. /\ eTable'[h].state \in {"saveElfHeader", "elfInvalid"} /\ DOMAIN eTable'[h] = Fields
        /\ eTable'[h].exec = e.exec /\ eTable'[h].type = e.type /\ eTable'[h].file = task[t].file
        /\ eTable'[h].section = e.section /\ eTable'[h].sectionData = e.sectionData
        /\ eTable'[h].data = e.data
    <3>1. PICK f : HeaderRead(e, task[t].file, f) /\ eTable' = [eTable EXCEPT ![h] = f]
      BY <1>5
    <3>2. eTable'[h] = f
      BY <1>3, <3>1
    <3> DEFINE g == WithHeader(e, task[t].file)
    <3>3. /\ g.state = "saveElfHeader" /\ DOMAIN g = Fields
          /\ g.exec = e.exec /\ g.type = e.type /\ g.file = task[t].file
          /\ g.section = e.section /\ g.sectionData = e.sectionData /\ g.data = e.data
      BY <2>1 DEF WithHeader, Fields
    <3>4. f \in {g, Invalid(g), [g EXCEPT !.state = "saveElfHeader"]}
      BY <3>1 DEF HeaderRead
    <3> HIDE DEF g
    <3> QED BY <3>2, <3>3, <3>4 DEF Invalid, Fields
  <2> QED BY <1>3, <2>1, <2>2 DEF Entry, Empty
<1>9. Owns(h, eTable'[h], heap')
  <2>1. Blocks(e) = {<<h, HEADER>>} /\ Blocks(eTable'[h]) = {<<h, HEADER>>}
    BY <1>2, <1>3, <1>8, EmptyBlocks DEF Fits
  <2> QED BY <1>3, <1>5, <2>1 DEF Fits, Owns
<1>10. OnlyFor(h)
  BY <1>5 DEF OnlyFor, Elsewhere
<1>11. Fits(task'[t], eTable'[h], heap') /\ task'[t] # Idle
  BY <1>2, <1>3, <1>6, <1>7, <1>8, <1>9 DEF Fits, Idle
<1> QED BY <1>1, <1>3, <1>7, <1>10, <1>11, MemoryFrame

LEMMA ReadIsOwn ==
    ASSUME MemInv, NEW h \in Nat, NEW record, NEW file, RecordOf(h, record)
    PROVE  Elsewhere(h, heap, ReadInto(heap, record, file))
<1>1. NIL \notin DOMAIN heap
  <2>1. \A b \in DOMAIN heap : \E k \in Nat : b \in Part(k)
    BY DEF MemInv
  <2>2. \A k \in Nat : Part(k) \subseteq Int \X Int
    BY DEF Part
  <2> QED BY <2>1, <2>2
<1>2. record.buffer \in Part(h) \/ record.buffer \notin DOMAIN heap
  BY <1>1 DEF RecordOf
<1> QED BY <1>2, ReadIntoIs DEF Elsewhere

LEMMA MemoryLoad ==
    ASSUME MemInv, NEW t \in Tasks, Load(t), "exhausted" \notin Allowed
    PROVE  MemInv' /\ Acts(t)
<1> DEFINE h   == task[t].h
           e   == eTable[h]
           rec == task[t].record
           hp  == ReadInto(heap, rec, task[t].file)
<1>1. Step(t) /\ TaskType' /\ Moves(t)
  BY TaskSteps DEF Step, MemInv
<1>2. task[t].at = "load" /\ Status(e) = "EXEC_LOAD_AGAIN"
  BY DEF Load
<1>3. /\ t \in Busy /\ h \in DOMAIN eTable /\ h \in Nat
      /\ Entry(h, e) /\ Fits(task[t], e, heap)
      /\ \A u \in Busy \ {t} : task[u].h # h
      /\ task[t].file \in Files
  BY <1>2, BusyTask
<1>4. Started(task[t])
  BY <1>2, StartedTask
<1>5. e.file = task[t].file /\ e.file \in Files /\ RecordOf(h, rec)
  BY <1>2, <1>3 DEF Fits
<1>6. PICK o \in LoadStep(e, rec, hp) :
          /\ Exhaustible(t, o) /\ KLexecLoad(h, o)
          /\ task' = [task EXCEPT ![t].record = o.record]
  BY DEF Load
<1>7. ~ (o.e.state = "elfInvalid" /\ o.e.sectionData \in {NIL, GARBAGE})
  BY <1>6 DEF Exhaustible
<1>8. Owns(h, e, hp) /\ Elsewhere(h, heap, hp)
  <2>1. DOMAIN hp = DOMAIN heap
    BY ReadIntoIs
  <2>2. Owns(h, e, hp)
    BY <1>3, <2>1 DEF Owns, Fits
  <2> QED BY <1>3, <1>5, <2>2, ReadIsOwn
<1>9. eTable' = [eTable EXCEPT ![h] = o.e] /\ heap' = o.heap
  BY <1>6 DEF KLexecLoad
<1> HIDE DEF hp, rec, e
<1>10. Works(h, e, hp, o) /\ RecordOf(h, o.record)
  BY <1>2, <1>3, <1>5, <1>7, <1>8, LoadWorks, RecordWorks
<1>11. /\ eTable'[h] = o.e /\ Entry(h, eTable'[h]) /\ eTable'[h].file = task[t].file
       /\ Owns(h, eTable'[h], heap') /\ OnlyFor(h)
  BY <1>3, <1>5, <1>8, <1>9, <1>10, ElsewhereTwice DEF Works, OnlyFor
<1>12. task'[t].h = h /\ task'[t].at = "load" /\ task'[t].file = task[t].file /\ task'[t].record = o.record
  BY <1>2, <1>4, <1>6 DEF Started, MemInv, TaskType
<1>13. Fits(task'[t], eTable'[h], heap') /\ task'[t] # Idle
  BY <1>10, <1>11, <1>12 DEF Fits, Idle
<1> QED BY <1>1, <1>3, <1>11, <1>12, <1>13, MemoryFrame

(* Steps that leave the entry of the executable and its blocks as they are. *)
LEMMA MemoryGoesOn ==
    ASSUME MemInv, NEW t \in Tasks, Step(t), UNCHANGED eTable,
           task[t].at \notin {"idle", "header"},
           task'[t].at \notin {"idle", "header", "load"},
           task'[t].h = task[t].h, task'[t].file = task[t].file,
           DOMAIN heap' = DOMAIN heap, Elsewhere(task[t].h, heap, heap')
    PROVE  MemInv' /\ Acts(t)
<1> DEFINE h == task[t].h
           e == eTable[h]
<1>1. TaskType' /\ Moves(t)
  BY TaskSteps DEF MemInv
<1>2. /\ t \in Busy /\ h \in DOMAIN eTable
      /\ Entry(h, e) /\ Fits(task[t], e, heap)
      /\ \A u \in Busy \ {t} : task[u].h # h
  BY BusyTask
<1>3. OnlyFor(h)
  BY DEF OnlyFor
<1>4. Fits(task'[t], eTable'[h], heap') /\ task'[t] # Idle
  BY <1>2 DEF Fits, Idle, Owns
<1> QED BY <1>1, <1>2, <1>3, <1>4, MemoryFrame

LEMMA MemorySameHeap ==
    ASSUME MemInv, NEW t \in Tasks,
           ReadFails(t) \/ LoopEnds(t) \/ Register(t) \/ \E recent \in BOOLEAN : NotAModule(t, recent)
    PROVE  MemInv' /\ Acts(t)
<1>1. Step(t) /\ UNCHANGED <<eTable, heap>>
  BY DEF Step, ReadFails, LoopEnds, Register, NotAModule, execVars
<1>2. task[t].at \in {"load", "loaded"}
  BY DEF ReadFails, LoopEnds, Register, NotAModule
<1>3. Started(task[t]) /\ DOMAIN task = Tasks
  BY <1>2, StartedTask DEF MemInv, TaskType
<1>4. /\ task'[t].at \in {"close", "loaded", "init"}
      /\ task'[t].h = task[t].h /\ task'[t].file = task[t].file
  <2>1. CASE ~Register(t)
    <3>1. PICK a \in {"close", "loaded"} : task' = [task EXCEPT ![t].at = a]
      BY <2>1 DEF ReadFails, LoopEnds, NotAModule
    <3> QED BY <1>3, <3>1 DEF Started
  <2>2. CASE Register(t)
    BY <1>3, <2>2 DEF Register
  <2> QED BY <2>1, <2>2
<1>5. Elsewhere(task[t].h, heap, heap')
  BY <1>1 DEF Elsewhere
<1> QED BY <1>1, <1>2, <1>4, <1>5, MemoryGoesOn

(* The words of the code are linked in a block of the executable. *)
LEMMA LinkIsOwn ==
    ASSUME NEW h \in Nat, NEW e, NEW names, Entry(h, e), e.file \in Files,
           IsLoaded(e, cache.text, "text")
    PROVE  /\ DOMAIN linkToExternalReference(e, names) = DOMAIN heap
           /\ Data(e, cache.text) \in Part(h)
           /\ Elsewhere(h, heap, linkToExternalReference(e, names))
<1>1. Data(e, cache.text) \in Part(h)
  <2>1. Data(e, cache.text) # NIL /\ cache.text \in DOMAIN e.data /\ Arrays(h, e)
    BY DEF IsLoaded, Data, Entry, Empty
  <2>2. cache.text \in Int /\ e.data[cache.text] = <<h, cache.text>>
    BY <2>1, IndexesAre DEF Arrays, Data
  <2> QED BY <2>1, <2>2 DEF Data, Part
<1> QED BY <1>1 DEF linkToExternalReference, Elsewhere

LEMMA MemoryLink ==
    ASSUME MemInv, NEW t \in Tasks, Link(t)
    PROVE  MemInv' /\ Acts(t)
<1> DEFINE h == task[t].h
           e == eTable[h]
<1>1. Step(t) /\ UNCHANGED eTable
  BY DEF Step, Link, KLexecSetSymbols
<1>2. task[t].at = "loaded"
  BY DEF Link
<1>3. /\ h \in Nat /\ Entry(h, e) /\ e.file = task[t].file /\ e.file \in Files
  BY <1>2, BusyTask DEF Fits
<1>4. Started(task[t]) /\ DOMAIN task = Tasks
  BY <1>2, StartedTask DEF MemInv, TaskType
<1>5. task'[t].at = "linked" /\ task'[t].h = h /\ task'[t].file = task[t].file
  BY <1>4 DEF Started, Link
<1>6. \/ heap' = heap
      \/ /\ heap' = linkToExternalReference(e, Externals(task[t].file))
         /\ IsLoaded(e, cache.text, "text")
  BY DEF Link, KLexecSetSymbols
<1>7. DOMAIN heap' = DOMAIN heap /\ Elsewhere(h, heap, heap')
  <2>1. Elsewhere(h, heap, heap)
    BY DEF Elsewhere
  <2> QED BY <1>3, <1>6, <2>1, LinkIsOwn
<1> QED BY <1>1, <1>2, <1>5, <1>7, MemoryGoesOn

LEMMA MemoryClose ==
    ASSUME MemInv, NEW t \in Tasks,
           Close(t) \/ \E success \in BOOLEAN : Initialised(t, success)
    PROVE  MemInv' /\ Acts(t)
<1> DEFINE h == task[t].h
           e == eTable[h]
           blocks == {e.exec} \cup ELFclose(e).blocks
<1>1. Step(t) /\ TaskType' /\ Moves(t)
  BY TaskSteps DEF Step, MemInv
<1>2. task[t].at \in {"close", "linked", "init"} /\ KLexecClose(h) /\ task' = [task EXCEPT ![t] = Idle]
  BY DEF Close, Initialised
<1>3. /\ t \in Busy /\ h \in DOMAIN eTable /\ h \in Nat
      /\ Entry(h, e) /\ Fits(task[t], e, heap)
      /\ \A u \in Busy \ {t} : task[u].h # h
      /\ task[t].file \in Files
  BY <1>2, BusyTask
<1>4. e.file \in Files
  BY <1>2, <1>3 DEF Fits
<1>5. eTable' = [eTable EXCEPT ![h] = Unused] /\ heap' = Freed(heap, blocks)
  BY <1>2 DEF KLexecClose
<1>6. Blocks(e) \subseteq blocks /\ blocks \subseteq Part(h) \cup {NIL}
  <2>1. HEADER \in Int /\ SECTIONS \in Int /\ POINTERS \in Int /\ e.exec = <<h, HEADER>>
    BY <1>3 DEF HEADER, SECTIONS, POINTERS, Entry
  <2>2. CASE Empty(e)
    <3>1. ELFclose(e).blocks = {}
      BY <2>2 DEF ELFclose, Empty
    <3>2. Blocks(e) = {<<h, HEADER>>}
      BY <1>3, <2>2, EmptyBlocks
    <3> QED BY <2>1, <3>1, <3>2 DEF Part
  <2>3. CASE Arrays(h, e)
    <3>1. e.section = <<h, SECTIONS>> /\ e.sectionData = <<h, POINTERS>> /\ DOMAIN e.data = Indexes(e)
      BY <2>3 DEF Arrays
    <3>2. e.sectionData \notin {GARBAGE, NIL}
      <4>1. <<h, POINTERS>> \in Int \X Int
        BY <1>3, <2>1
      <4> QED BY <3>1, <4>1
    <3>3. ELFclose(e).blocks = {e.section, e.sectionData} \cup { e.data[i] : i \in Indexes(e) }
      BY <3>2 DEF ELFclose
    <3>4. Blocks(e) \subseteq blocks
      BY <3>1, <3>3 DEF Blocks
    <3>5. \A i \in Indexes(e) : e.data[i] \in Part(h) \cup {NIL}
      BY <1>4, <2>3, IndexesAre DEF Arrays, Part
    <3>6. e.section \in Part(h) /\ e.sectionData \in Part(h) /\ e.exec \in Part(h)
      BY <2>1, <3>1 DEF Part
    <3> QED BY <3>3, <3>4, <3>5, <3>6
  <2> QED BY <1>3, <2>2, <2>3 DEF Entry
<1> HIDE DEF blocks
<1>7. DOMAIN heap' = DOMAIN heap \ blocks /\ \A b \in DOMAIN heap' : heap'[b] = heap[b]
  BY <1>5 DEF Freed
<1>8. NIL \notin DOMAIN heap
  <2>1. \A b \in DOMAIN heap : \E k \in Nat : b \in Part(k)
    BY DEF MemInv
  <2>2. \A k \in Nat : Part(k) \subseteq Int \X Int
    BY DEF Part
  <2> QED BY <2>1, <2>2
<1>9. OnlyFor(h)
  BY <1>5, <1>6, <1>7, <1>8 DEF OnlyFor, Elsewhere
<1>10. DOMAIN heap' \cap Part(h) = {}
  BY <1>3, <1>6, <1>7 DEF Fits, Owns, Part
<1>11. task'[t] = Idle
  BY <1>2 DEF MemInv, TaskType
<1> QED BY <1>1, <1>3, <1>9, <1>10, <1>11, MemoryFrame

LEMMA MemoryTables ==
    ASSUME MemInv,
           \/ \E n \in TableSizes : ExecTable(n) \/ LMlibInit(n)
           \/ LMlibUninit
           \/ \E id \in DOMAIN lmTable : LMunload(id)
           \/ UNCHANGED vars
    PROVE  MemInv'
<1>1. UNCHANGED <<heap, task>> /\ Busy' = Busy
  BY DEF ExecTable, LMlibInit, LMlibUninit, LMunload, vars, execVars, Busy
<1>2. CASE UNCHANGED eTable
  BY <1>1, <1>2 DEF MemInv, TaskType
<1>3. CASE ~ UNCHANGED eTable
  <2>1. PICK n \in TableSizes :
            \/ Busy = {} /\ (KLexecInit(n) \/ KLexecUnInit)
            \/ KLexecInit(n)
    BY <1>3 DEF ExecTable, LMlibInit, LMlibUninit, LMunload, vars, execVars
  <2>2. Busy = {}
    <3>1. CASE eTable = NoTable
      BY <3>1 DEF MemInv, NoTable
    <3>2. CASE eTable # NoTable
      BY <1>3, <2>1, <3>2 DEF KLexecInit
    <3> QED BY <3>1, <3>2
  <2>3. DOMAIN eTable' \subseteq Nat
    <3>1. \A k : k \in 0 .. n - 1 => k \in Nat
      OBVIOUS
    <3> QED BY <1>3, <2>1, <3>1 DEF KLexecInit, KLexecUnInit, NoTable
  <2> QED BY <1>1, <2>2, <2>3 DEF MemInv, TaskType
<1> QED BY <1>2, <1>3

LEMMA MemoryIsKept ==
    ASSUME MemInv, [Next]_vars, {"unread", "exhausted"} \cap Allowed = {}
    PROVE  MemInv'
<1>1. ASSUME NEW t \in Tasks, Step(t) PROVE MemInv'
  BY <1>1, MemoryOpen, MemoryHeader, MemoryLoad, MemorySameHeap, MemoryLink, MemoryClose DEF Step
<1>2. CASE \/ \E n \in TableSizes : ExecTable(n) \/ LMlibInit(n)
           \/ LMlibUninit
           \/ \E id \in DOMAIN lmTable : LMunload(id)
           \/ UNCHANGED vars
  BY <1>2, MemoryTables
<1> QED BY <1>1, <1>2 DEF Next

(* Whatever fails, and however loads interleave, memory belongs to the       *)
(* executables of tasks in progress: closing frees all of one's own blocks   *)
(* and no other's.  This holds for unusual files too, as long as headers can *)
(* be read and the arrays of a file can be allocated.                      *)
THEOREM BlocksHaveOwners ==
    ASSUME {"unread", "exhausted"} \cap Allowed = {}
    PROVE  Spec => []MemoryIsHeld
<1>1. Init => MemInv
  BY MemoryBegins
<1>2. MemInv /\ [Next]_vars => MemInv'
  BY MemoryIsKept
<1>3. MemInv => MemoryIsHeld
  BY MemorySuffices
<1> QED BY <1>1, <1>2, <1>3, PTL DEF Spec
-----------------------------------------------------------------------------
(* The contents of sections and the indexes that are kept for all files.   *)
Wanted(e, i) == Kind(e, i) \notin {"null", "aux", "stab"} /\ ShSize(e, i) > 0

(* A section is in a block that is large enough, and has been read, or is    *)
(* about to be read to this buffer.                                        *)
Holds(h, e, hp, buffer, i) ==
    /\ e.data[i] = <<h, i>> /\ <<h, i>> \in DOMAIN hp
    /\ DOMAIN hp[<<h, i>>] = {"size", "holds", "words"}
    /\ hp[<<h, i>>].size >= ShSize(e, i)
    /\ Kind(e, i) # "bss" /\ buffer # <<h, i>> => hp[<<h, i>>].holds = <<e.file, i>>

Filled(h, e, hp, buffer, upto) ==
    \A i \in Indexes(e) :
        (i < upto \/ Kind(e, i) = "names") /\ Wanted(e, i) => Holds(h, e, hp, buffer, i)

CachedIn(c, e, i) ==
    /\ Kind(e, i) = "text" => c.text = i
    /\ Kind(e, i) = "bss" => c.bss = i
    /\ Kind(e, i) = "symtab" => c.symTab = i
    /\ Kind(e, i) = "rel" => c.relocTable = i

AllCached(c, e, upto) == \A i \in Indexes(e) : i < upto => CachedIn(c, e, i)

CacheInv ==
    /\ DOMAIN cache = {"text", "bss", "symTab", "relocTable"}
    /\ cache.relocTable = NOT_LOADED \/ <<"rel", cache.relocTable>> \in UsualLayout

(* What its code refers to. *)
SymbolsIn(hp, e, linked) ==
    \A i \in Indexes(e) : Kind(e, i) = "text" /\ ShSize(e, i) > 0 =>
        \A r \in DOMAIN e.file.rels :
            LET name == e.file.rels[r]
            IN  hp[e.data[i]].words[r] =
                    IF ~Undefined(e, name) THEN Data(e, Defined(e, name))
                    ELSE IF linked THEN <<"external", name>> ELSE GARBAGE

NotGrown(e) == e.grown.at = -1 /\ e.common = SHN_COMMON

GrownAtBss(e) == e.grown.at = -1 \/ Kind(e, e.grown.at) = "bss"

Ready(h, e, hp, c, linked) ==
    /\ Arrays(h, e) /\ e.state = "finalState" /\ GrownAtBss(e)
    /\ Filled(h, e, hp, NIL, Cardinality(Indexes(e)))
    /\ AllCached(c, e, Cardinality(Indexes(e)))
    /\ SymbolsIn(hp, e, linked)

(* There is no block for uninitialised data that is empty. *)
NoneEmpty(e) ==
    \A i \in Indexes(e) : Kind(e, i) = "bss" /\ ShSize(e, i) = 0 => e.data[i] = NIL

(* The executable in each state of the machine, and the last request. *)
Sized(e, record) ==
    LET i == e.iterator - 1
    IN  Kind(e, i) \notin {"outside", "null", "bss"} /\ ~PassedOver(Kind(e, i)) /\ ShSize(e, i) > 0 =>
            record.size = ShSize(e, i)

Stage(h, e, hp, record, c, kind) ==
    /\ e.state # "saveElfHeader" => Arrays(h, e)
    /\ e.state \in {"saveElfHeader", "elfSectionNames"} => NotGrown(e) /\ e.iterator = 0
    /\ e.state \in {"elfSectionNames", "elfSection", "postLoad"} => NoneEmpty(e)
    /\ e.state \in {"elfSection", "postLoad"} =>
          /\ NotGrown(e)
          /\ Filled(h, e, hp, record.buffer, e.iterator)
          /\ AllCached(c, e, e.iterator)
    /\ e.state = "elfSection" => e.iterator \in Indexes(e) /\ Sized(e, record)
    /\ e.state = "postLoad" => e.iterator = Cardinality(Indexes(e))
    /\ e.state = "finalState" => record.buffer = NIL /\ Ready(h, e, hp, c, FALSE)
    /\ e.state = "elfInvalid" => kind = "exec"

Asked(h, record) == record.buffer # NIL => record.buffer = <<h, record.part>>

Good(r, e, hp, c) ==
    /\ r.at = "header" => NotGrown(e) /\ e.iterator = 0
    /\ r.at = "load" => Stage(r.h, e, hp, r.record, c, r.kind)
    /\ r.at \in {"header", "load"} => Asked(r.h, r.record)
    /\ r.at \in {"loaded", "linked", "init"} => Ready(r.h, e, hp, c, r.at = "linked")
    /\ r.at = "close" => Arrays(r.h, e)

NoExit ==
    \A id \in DOMAIN lmTable :
        DOMAIN lmTable[id] = {"usage", "entry"} /\ lmTable[id].entry["LMunInit"] = NIL

Clean == "full" \in Allowed \/ stray = FALSE

LoadInv ==
    /\ MemInv /\ CacheInv
    /\ \A t \in Busy : Good(task[t], eTable[task[t].h], heap, cache)
    /\ NoExit
    /\ Clean

-----------------------------------------------------------------------------
(* Files of one layout agree on the indexes. *)
LEMMA LayoutIs ==
    ASSUME NEW e, e.file \in Files, Usual(e.file), NEW i,
           NEW kind \in {"text", "bss", "symtab", "rel"}
    PROVE  /\ <<kind, i>> \in UsualLayout <=> Kind(e, i) = kind
           /\ \A j : Kind(e, i) = kind /\ Kind(e, j) = kind => i = j
<1>1. Layout(e.file) = UsualLayout
  BY DEF Usual
<1>2. <<kind, i>> \in Layout(e.file) <=> i \in Indexes(e) /\ e.file.section[i].kind = kind
  BY DEF Layout, Indexes
<1>3. \A j : Kind(e, j) = kind <=> j \in Indexes(e) /\ e.file.section[j].kind = kind
  <2>1. \A j : Kind(e, j) = IF j \in Indexes(e) THEN e.file.section[j].kind ELSE "outside"
    BY DEF Kind
  <2> QED BY <2>1
<1>4. \A j : Kind(e, j) = kind => j \in Sections(e.file, kind)
  BY <1>3 DEF Sections, Indexes
<1>5. \A j, k \in Sections(e.file, kind) : j = k
  BY DEF Usual
<1> QED BY <1>1, <1>2, <1>3, <1>4, <1>5

LEMMA CacheStays ==
    ASSUME CacheInv, NEW e, e.file \in Files, Usual(e.file),
           NEW f, f.file \in Files, Usual(f.file), NEW j
    PROVE  /\ \A i : CachedIn(cache, e, i) => CachedIn(Remember(f, j), e, i)
           /\ CachedIn(Remember(f, j), f, j)
           /\ DOMAIN Remember(f, j) = {"text", "bss", "symTab", "relocTable"}
           /\ \/ Remember(f, j).relocTable = NOT_LOADED
              \/ <<"rel", Remember(f, j).relocTable>> \in UsualLayout
<1> DEFINE c == Remember(f, j)
<1>1. ASSUME NEW kind \in {"text", "bss", "symtab", "rel"}, Kind(f, j) = kind, NEW i, Kind(e, i) = kind
      PROVE  i = j
  <2>1. Kind(e, j) = kind
    BY <1>1, LayoutIs
  <2> QED BY <1>1, <2>1, LayoutIs
<1>2. CASE Kind(f, j) = "text"
  <2>1. c = [cache EXCEPT !.text = j]
    BY <1>2 DEF Remember
  <2> QED BY <1>1, <1>2, <2>1 DEF CacheInv, CachedIn
<1>3. CASE Kind(f, j) = "bss"
  <2>1. c = [cache EXCEPT !.bss = j]
    BY <1>3 DEF Remember
  <2> QED BY <1>1, <1>3, <2>1 DEF CacheInv, CachedIn
<1>4. CASE Kind(f, j) = "symtab"
  <2>1. c = [cache EXCEPT !.symTab = j]
    BY <1>4 DEF Remember
  <2> QED BY <1>1, <1>4, <2>1 DEF CacheInv, CachedIn
<1>5. CASE Kind(f, j) = "rel"
  <2>1. c = [cache EXCEPT !.relocTable = j] /\ <<"rel", j>> \in UsualLayout
    BY <1>5, LayoutIs DEF Remember
  <2> QED BY <1>1, <1>5, <2>1 DEF CacheInv, CachedIn
<1>6. CASE Kind(f, j) \notin {"text", "bss", "symtab", "rel"}
  <2>1. c = cache
    BY <1>6 DEF Remember
  <2> QED BY <1>6, <2>1 DEF CacheInv, CachedIn
<1> QED BY <1>2, <1>3, <1>4, <1>5, <1>6

(* Steps of others disturb nothing. *)
LEMMA HoldsElsewhere ==
    ASSUME NEW h, NEW k, h # k, NEW e, NEW hp, NEW hq, Elsewhere(h, hp, hq), NEW buffer,
           NEW i \in Int, Holds(k, e, hp, buffer, i)
    PROVE  Holds(k, e, hq, buffer, i) /\ hq[<<k, i>>] = hp[<<k, i>>]
<1>1. <<k, i>> \notin Part(h)
  BY PartsAreApart
<1>2. <<k, i>> \in DOMAIN hq /\ hq[<<k, i>>] = hp[<<k, i>>]
  BY <1>1 DEF Holds, Elsewhere
<1> QED BY <1>2 DEF Holds

LEMMA FilledElsewhere ==
    ASSUME NEW h, NEW k, h # k, NEW e, e.file \in Files, NEW hp, NEW hq, Elsewhere(h, hp, hq),
           NEW buffer, NEW upto, Filled(k, e, hp, buffer, upto)
    PROVE  Filled(k, e, hq, buffer, upto)
<1>1. Indexes(e) \subseteq Int
  BY IndexesAre
<1> QED BY <1>1, HoldsElsewhere DEF Filled

LEMMA GoodElsewhere ==
    ASSUME NEW h, NEW r, r.h # h, NEW e, NEW hp, NEW hq, Elsewhere(h, hp, hq), Fits(r, e, hp),
           NEW c, NEW d, r.at # "header" => r.file \in Files,
           r.at # "header" => \A i \in Indexes(e) : CachedIn(c, e, i) => CachedIn(d, e, i),
           Good(r, e, hp, c)
    PROVE  Good(r, e, hq, d)
<1>1. CASE r.at = "header"
  BY <1>1 DEF Good
<1>2. CASE r.at # "header"
  <2>1. e.file \in Files
    BY <1>2 DEF Fits
  <2>2. \A upto : AllCached(c, e, upto) => AllCached(d, e, upto)
    BY <1>2 DEF AllCached
  <2>3. \A buffer, upto : Filled(r.h, e, hp, buffer, upto) => Filled(r.h, e, hq, buffer, upto)
    BY <2>1, FilledElsewhere
  <2>4. ASSUME NEW linked, Ready(r.h, e, hp, c, linked) PROVE Ready(r.h, e, hq, d, linked)
    <3>1. ASSUME NEW i \in Indexes(e), Kind(e, i) = "text", ShSize(e, i) > 0
          PROVE  hq[e.data[i]] = hp[e.data[i]]
      <4>1. i < Cardinality(Indexes(e)) /\ i \in Int
        BY <2>1, IndexesAre
      <4>2. Holds(r.h, e, hp, NIL, i)
        BY <2>4, <3>1, <4>1 DEF Ready, Filled, Wanted
      <4>3. e.data[i] = <<r.h, i>>
        BY <4>2 DEF Holds
      <4> QED BY <4>1, <4>2, <4>3, HoldsElsewhere
    <3>2. SymbolsIn(hq, e, linked)
      BY <2>4, <3>1 DEF Ready, SymbolsIn
    <3> QED BY <2>2, <2>3, <2>4, <3>2 DEF Ready
  <2>5. r.at = "load" => Stage(r.h, e, hq, r.record, d, r.kind)
    BY <2>2, <2>3, <2>4 DEF Good, Stage
  <2> QED BY <1>2, <2>4, <2>5 DEF Good
<1> QED BY <1>1, <1>2
-----------------------------------------------------------------------------
(* What a call of KLexecLoad does to an executable of a usual file. *)
LEMMA AfterRead ==
    ASSUME MemInv, NEW h \in Nat, NEW e, e.file \in Files, NEW record, RecordOf(h, record),
           Asked(h, record), NEW upto, Filled(h, e, heap, record.buffer, upto)
    PROVE  Filled(h, e, ReadInto(heap, record, e.file), NIL, upto)
<1> DEFINE hp == ReadInto(heap, record, e.file)
<1>1. SUFFICES ASSUME NEW i \in Indexes(e), Holds(h, e, heap, record.buffer, i)
               PROVE  Holds(h, e, hp, NIL, i)
  BY DEF Filled
<1> DEFINE b == <<h, i>>
<1>2. b \in DOMAIN heap /\ DOMAIN hp = DOMAIN heap /\ DOMAIN heap[b] = {"size", "holds", "words"}
  BY <1>1, ReadIntoIs DEF Holds
<1>3. CASE record.buffer # b
  <2>1. hp[b] = heap[b]
    BY <1>2, <1>3, ReadIntoIs
  <2> QED BY <1>1, <1>2, <1>3, <2>1 DEF Holds
<1>4. CASE record.buffer = b
  <2>1. record.part = i
    <3>1. record.buffer # NIL
      <4>1. b \in Int \X Int
        BY IndexesAre
      <4> QED BY <1>4, <4>1
    <3> QED BY <1>4, <3>1 DEF Asked
  <2>2. hp = [heap EXCEPT ![b].holds = <<e.file, i>>, ![b].words = << >>]
    BY <1>2, <1>4, <2>1 DEF ReadInto
  <2>3. /\ hp[b].size = heap[b].size /\ hp[b].holds = <<e.file, i>>
        /\ DOMAIN hp[b] = {"size", "holds", "words"}
    <3> HIDE DEF b, hp
    <3> QED BY <1>2, <2>2
  <2> QED BY <1>1, <1>2, <2>3 DEF Holds
<1> QED BY <1>3, <1>4

(* A block that is allocated for a section leaves those of the others. *)
LEMMA FilledStays ==
    ASSUME NEW h \in Nat, NEW e, e.file \in Files, NEW f, f.file = e.file, f.grown = e.grown, NEW hp, NEW upto,
           Filled(h, e, hp, NIL, upto), NEW i, NEW size, NEW o, o.e = f, NEW buffer,
           FilledIn(h, i, e, hp, size, o), DOMAIN e.data = Indexes(e),
           i \in Indexes(e), ShSize(e, i) <= size,
           Kind(e, i) = "bss" \/ buffer = <<h, i>>,
           NEW upto2, \A j \in Indexes(e) : j < upto2 => j < upto \/ j = i \/ ~Wanted(e, j) \/ Kind(e, j) = "names"
    PROVE  Filled(h, f, o.heap, buffer, upto2)
<1>1. /\ Indexes(f) = Indexes(e)
      /\ \A j : Kind(f, j) = Kind(e, j) /\ ShSize(f, j) = ShSize(e, j) /\ (Wanted(f, j) <=> Wanted(e, j))
  BY DEF Indexes, Kind, ShSize, Wanted
<1>2. f.data = [e.data EXCEPT ![i] = <<h, i>>] /\ o.heap = Allocated(hp, <<h, i>>, size)
  BY DEF FilledIn
<1> DEFINE hq == Allocated(hp, <<h, i>>, size)
<1>3. DOMAIN hq = DOMAIN hp \cup {<<h, i>>} /\ hq[<<h, i>>].size = size
      /\ DOMAIN hq[<<h, i>>] = {"size", "holds", "words"}
  BY DEF Allocated
<1>4. \A c \in DOMAIN hp : c # <<h, i>> => hq[c] = hp[c]
  BY DEF Allocated
<1> HIDE DEF hq
<1>5. Holds(h, f, hq, buffer, i)
  BY <1>1, <1>2, <1>3 DEF Holds
<1>6. ASSUME NEW j \in Indexes(e) \ {i}, Holds(h, e, hp, NIL, j) PROVE Holds(h, f, hq, buffer, j)
  <2>1. f.data[j] = <<h, j>> /\ <<h, j>> \in DOMAIN hp /\ <<h, j>> # <<h, i>>
    BY <1>2, <1>6 DEF Holds
  <2>2. NIL # <<h, j>>
    <3>1. <<h, j>> \in Int \X Int
      BY IndexesAre
    <3> QED BY <3>1
  <2>3. hq[<<h, j>>] = hp[<<h, j>>] /\ <<h, j>> \in DOMAIN hq
    BY <1>3, <1>4, <2>1
  <2> QED BY <1>1, <1>6, <2>1, <2>2, <2>3 DEF Holds
<1> QED BY <1>1, <1>2, <1>5, <1>6 DEF Filled, hq

(* One call: what the outcome is worth. *)
Advances(h, e, o, kind) ==
    /\ Stage(h, o.e, o.heap, o.record, o.cache, kind) /\ Asked(h, o.record)
    /\ o.stray = FALSE
    /\ o.cache = cache \/ o.cache = Remember(e, e.iterator)

LEMMA StageHeader ==
    ASSUME NEW h \in Nat, NEW e, NEW record, NEW hp, NEW kind, Entry(h, e), e.file \in Files,
           Empty(e), NotGrown(e), e.iterator = 0, e.state = "saveElfHeader",
           NEW o \in ELFSectionHeaderProcessing(e, record, hp),
           ~ (o.e.state = "elfInvalid" /\ o.e.sectionData \in {NIL, GARBAGE})
    PROVE  Advances(h, e, o, kind)
<1> DEFINE n     == Cardinality(Indexes(e))
           asked == Request(<<h, SECTIONS>>, n, SECTIONS)
           one   == Allocated(hp, <<h, SECTIONS>>, n)
           first  == Outcome(Invalid(e), hp, NoData(asked), cache, FALSE)
           second == Outcome([Invalid(e) EXCEPT !.section = <<h, SECTIONS>>, !.sectionData = NIL],
                             one, asked, cache, FALSE)
           third  == Outcome([e EXCEPT !.section = <<h, SECTIONS>>, !.sectionData = <<h, POINTERS>>,
                                       !.data = [i \in Indexes(e) |-> NIL],
                                       !.state = "elfSectionNames"],
                             Allocated(one, <<h, POINTERS>>, n), asked, cache, FALSE)
<1>1. Block(e, SECTIONS) = <<h, SECTIONS>> /\ Block(e, POINTERS) = <<h, POINTERS>>
      /\ DOMAIN e = Fields /\ e.sectionData = GARBAGE
  BY DEF Block, Entry, Empty
<1>2. o \in {first, second, third}
  BY <1>1 DEF ELFSectionHeaderProcessing
<1>3. first.e.state = "elfInvalid" /\ first.e.sectionData = GARBAGE
  BY <1>1 DEF Outcome, Invalid, Fields
<1>4. second.e.state = "elfInvalid" /\ second.e.sectionData = NIL
  BY <1>1 DEF Outcome, Invalid, Fields
<1>5. /\ third.e = [e EXCEPT !.section = <<h, SECTIONS>>, !.sectionData = <<h, POINTERS>>,
                             !.data = [i \in Indexes(e) |-> NIL], !.state = "elfSectionNames"]
      /\ third.record = asked /\ third.cache = cache /\ third.stray = FALSE
  BY DEF Outcome
<1>6. Asked(h, asked)
  BY DEF Asked, Request
<1> HIDE DEF first, second, third, asked
<1>7. o = third
  BY <1>2, <1>3, <1>4
<1>8. /\ o.e.state = "elfSectionNames" /\ o.e.iterator = e.iterator /\ o.e.grown = e.grown
      /\ o.e.common = e.common /\ Arrays(h, o.e) /\ NoneEmpty(o.e)
  <2>1. /\ o.e.state = "elfSectionNames" /\ o.e.iterator = e.iterator /\ o.e.grown = e.grown
        /\ o.e.common = e.common /\ o.e.file = e.file
        /\ o.e.section = <<h, SECTIONS>> /\ o.e.sectionData = <<h, POINTERS>>
        /\ o.e.data = [i \in Indexes(e) |-> NIL]
    BY <1>1, <1>5, <1>7 DEF Fields
  <2>2. Indexes(o.e) = Indexes(e)
    BY <2>1 DEF Indexes
  <2> QED BY <2>1, <2>2 DEF Arrays, NoneEmpty
<1> QED BY <1>5, <1>6, <1>7, <1>8 DEF Advances, Stage, NotGrown

LEMMA SizesAre ==
    ASSUME NEW e, e.file \in Files, NotGrown(e)
    PROVE  \A i \in Indexes(e) : ShSize(e, i) \in Nat /\ ShSize(e, i) = e.file.section[i].size
<1>1. WellFormed(e.file)
  OBVIOUS
<1>2. \A i \in Indexes(e) : i # -1 /\ e.file.section[i].size \in Nat
  BY <1>1, IndexesAre DEF WellFormed, Indexes
<1> QED BY <1>2 DEF ShSize, NotGrown

LEMMA StageNames ==
    ASSUME NEW h \in Nat, NEW e, NEW record, NEW hp, NEW kind, Entry(h, e), e.file \in Files,
           Arrays(h, e), NotGrown(e), NoneEmpty(e), e.iterator = 0,
           NEW o \in ELFSectionNamesProcessing(e, record, hp), Works(h, e, hp, o), Arrays(h, o.e),
           o.e.state = "elfInvalid" => kind = "exec"
    PROVE  Advances(h, e, o, kind)
<1> DEFINE i     == NamesIndex(e.file)
           asked == Request(<<h, i>>, ShSize(e, i), i)
<1>1. i \in Indexes(e) /\ DOMAIN e = Fields /\ DOMAIN e.data = Indexes(e) /\ Kind(e, i) = "names"
      /\ \A j \in Indexes(e) : ~(j < 0) /\ (Kind(e, j) = "names" => j = i)
  <2>1. \A j \in Nat : ~(j < 0)
    OBVIOUS
  <2> QED BY <2>1, IndexesAre DEF Entry, Arrays
<1>2. \/ o = Outcome(Invalid(e), hp, NoData(asked), cache, FALSE)
      \/ o = Outcome([e EXCEPT !.data[i] = <<h, i>>, !.state = "elfSection"],
                     Allocated(hp, <<h, i>>, ShSize(e, i)), asked, cache, FALSE)
  BY NamesOutcomes
<1>3. asked.buffer = <<h, i>> /\ asked.part = i /\ Asked(h, asked) /\ Asked(h, NoData(asked))
  BY DEF Asked, Request, NoData
<1>4. ShSize(e, i) \in Nat
  BY <1>1, SizesAre
<1> HIDE DEF asked, i
<1>5. CASE o = Outcome(Invalid(e), hp, NoData(asked), cache, FALSE)
  <2>1. o.e = Invalid(e) /\ o.record = NoData(asked) /\ o.cache = cache /\ o.stray = FALSE
    BY <1>5 DEF Outcome
  <2>2. o.e.state = "elfInvalid"
    BY <1>1, <2>1 DEF Invalid, Fields
  <2> QED BY <1>3, <2>1, <2>2 DEF Advances, Stage
<1>6. CASE o = Outcome([e EXCEPT !.data[i] = <<h, i>>, !.state = "elfSection"],
                       Allocated(hp, <<h, i>>, ShSize(e, i)), asked, cache, FALSE)
  <2>1. /\ o.e = [e EXCEPT !.data[i] = <<h, i>>, !.state = "elfSection"]
        /\ o.heap = Allocated(hp, <<h, i>>, ShSize(e, i))
        /\ o.record = asked /\ o.cache = cache /\ o.stray = FALSE
    BY <1>6 DEF Outcome
  <2>2. /\ o.e.state = "elfSection" /\ o.e.iterator = 0 /\ o.e.grown = e.grown
        /\ o.e.common = e.common /\ o.e.file = e.file
        /\ o.e.data = [e.data EXCEPT ![i] = <<h, i>>]
    BY <1>1, <2>1 DEF Fields
  <2>3. FilledIn(h, i, e, hp, ShSize(e, i), o)
    BY <2>1, <2>2 DEF FilledIn
  <2>4. NotGrown(o.e) /\ Indexes(o.e) = Indexes(e) /\ \A j : Kind(o.e, j) = Kind(e, j)
    BY <2>2 DEF NotGrown, Indexes, Kind
  <2>5. Filled(h, o.e, o.heap, asked.buffer, 0)
    <3>1. Holds(h, o.e, o.heap, asked.buffer, i)
      <4>1. /\ DOMAIN o.heap = DOMAIN hp \cup {<<h, i>>}
            /\ o.heap[<<h, i>>].size = ShSize(e, i)
            /\ DOMAIN o.heap[<<h, i>>] = {"size", "holds", "words"}
        BY <2>1 DEF Allocated
      <4>2. ShSize(o.e, i) = ShSize(e, i)
        BY <2>2 DEF ShSize
      <4> QED BY <1>1, <1>3, <1>4, <2>2, <4>1, <4>2 DEF Holds
    <3> QED BY <1>1, <2>4, <3>1 DEF Filled
  <2>6. AllCached(o.cache, o.e, 0)
    BY <1>1, <2>4 DEF AllCached
  <2>7. 0 \in Indexes(o.e) /\ -1 \notin Indexes(o.e)
    BY <2>4, IndexesAre
  <2>8. Sized(o.e, o.record)
    BY <2>2, <2>7 DEF Sized, Kind
  <2>9. NoneEmpty(o.e)
    BY <1>1, <2>2, <2>4 DEF NoneEmpty, ShSize
  <2> QED BY <1>3, <2>1, <2>2, <2>4, <2>5, <2>6, <2>7, <2>8, <2>9 DEF Advances, Stage
<1> QED BY <1>2, <1>5, <1>6

(* The next section: it is the last one, and then it is not passed over, or  *)
(* there is another.                                                       *)
LEMMA NextIndex ==
    ASSUME NEW e, e.file \in Files, Usual(e.file), e.iterator \in Indexes(e)
    PROVE  /\ e.iterator + 1 # Cardinality(Indexes(e)) => e.iterator + 1 \in Indexes(e)
           /\ PassedOver(Kind(e, e.iterator)) => e.iterator + 1 # Cardinality(Indexes(e))
           /\ e.iterator \in Nat
           /\ \A j \in Indexes(e) : j < e.iterator + 1 => j < e.iterator \/ j = e.iterator
<1> DEFINE n == Cardinality(Indexes(e))
<1>1. Indexes(e) = 0 .. n - 1 /\ n \in Nat /\ Indexes(e) \subseteq Int
  BY IndexesAre
<1>2. ~PassedOver(e.file.section[n - 1].kind)
  BY DEF Usual, Indexes
<1>3. Kind(e, e.iterator) = e.file.section[e.iterator].kind
  BY DEF Kind
<1> HIDE DEF n
<1>4. e.iterator \in Int /\ (e.iterator + 1 = n => e.iterator = n - 1)
  BY <1>1
<1> QED BY <1>1, <1>2, <1>3, <1>4 DEF n

LEMMA RecordOfOutcome ==
    ASSUME NEW h, NEW record, Asked(h, record), NEW i, NEW size, RecordOf(h, record)
    PROVE  /\ Asked(h, NoData(record)) /\ NoData(record).buffer = NIL
           /\ Asked(h, Request(<<h, i>>, size, i)) /\ Asked(h, NoData(Request(<<h, i>>, size, i)))
           /\ Request(<<h, i>>, size, i).buffer = <<h, i>> /\ Request(<<h, i>>, size, i).size = size
BY DEF Asked, NoData, Request, RecordOf

LEMMA StageSections ==
    ASSUME NEW h \in Nat, NEW e, NEW record, NEW hp, NEW kind, Entry(h, e), e.file \in Files,
           CacheInv, Usual(e.file), Arrays(h, e), e.state = "elfSection", NotGrown(e), NoneEmpty(e),
           e.iterator \in Indexes(e), Filled(h, e, hp, NIL, e.iterator),
           AllCached(cache, e, e.iterator), Sized(e, record), Asked(h, record), RecordOf(h, record),
           NEW o \in ELFSectionProcessing(e, record, hp), Works(h, e, hp, o), Arrays(h, o.e),
           o.e.state = "elfInvalid" => kind = "exec"
    PROVE  Advances(h, e, o, kind)
<1> DEFINE k == e.iterator
           n == Cardinality(Indexes(e))
<1>1. /\ DOMAIN e = Fields /\ DOMAIN e.data = Indexes(e)
      /\ k + 1 # n => k + 1 \in Indexes(e)
      /\ PassedOver(Kind(e, k)) => k + 1 # n
      /\ k \in Nat /\ (k + 1) - 1 = k
      /\ \A j \in Indexes(e) : j < k + 1 => j < k \/ j = k
  BY NextIndex DEF Entry, Arrays
<1>2. ShSize(e, k) \in Nat /\ ShSize(e, k) = e.file.section[k].size
  BY SizesAre
<1>3. AllCached(Remember(e, k), e, k + 1)
  <2>1. \A j \in Indexes(e) : j < k => CachedIn(cache, e, j)
    BY DEF AllCached
  <2>2. \A j : CachedIn(cache, e, j) => CachedIn(Remember(e, k), e, j)
    BY CacheStays
  <2>3. CachedIn(Remember(e, k), e, k)
    BY CacheStays
  <2> QED BY <1>1, <2>1, <2>2, <2>3 DEF AllCached
<1>4. Asked(h, NoData(record)) /\ NoData(record).buffer = NIL
  BY RecordOfOutcome
<1>5. ASSUME ~Wanted(e, k) \/ Kind(e, k) = "names", NEW f, f.file = e.file, f.grown = e.grown, f.data = e.data
      PROVE  Filled(h, f, hp, NIL, k + 1)
  <2>1. \A j : Holds(h, e, hp, NIL, j) => Holds(h, f, hp, NIL, j)
    BY <1>5 DEF Holds, Kind, ShSize, Indexes
  <2>2. /\ Indexes(f) = Indexes(e)
        /\ \A j : Kind(f, j) = Kind(e, j) /\ (Wanted(f, j) <=> Wanted(e, j))
    BY <1>5 DEF Kind, Wanted, Indexes, ShSize
  <2> QED BY <1>1, <1>5, <2>1, <2>2 DEF Filled
<1>6. ASSUME NEW f, f.file = e.file, NEW c, NEW m, AllCached(c, e, m)
      PROVE  AllCached(c, f, m) /\ Indexes(f) = Indexes(e) /\ \A j : Kind(f, j) = Kind(e, j)
  BY <1>6 DEF AllCached, CachedIn, Kind, Indexes
<1>7. ASSUME NEW f, f.file = e.file, f.grown = e.grown, \A j : ShSize(e, j) = 0 => f.data[j] = e.data[j]
       PROVE  NoneEmpty(f)
  BY <1>7 DEF NoneEmpty, Kind, ShSize, Indexes
<1>8. CASE OutsideOf(e, record, hp, o)
  BY <1>8, IndexesAre DEF OutsideOf
<1>9. CASE PassedBy(e, record, hp, o)
  <2>1. /\ o.e = [e EXCEPT !.iterator = k + 1] /\ o.heap = hp /\ o.record = NoData(record)
        /\ o.cache = Remember(e, k) /\ o.stray = FALSE
    BY <1>9 DEF PassedBy, Outcome
  <2>2. PassedOver(Kind(e, k)) /\ (~Wanted(e, k) \/ Kind(e, k) = "names")
    BY <1>9 DEF PassedBy, PassedOver, Wanted
  <2>3. /\ o.e.iterator = k + 1 /\ o.e.state = "elfSection" /\ o.e.file = e.file
        /\ o.e.grown = e.grown /\ o.e.common = e.common /\ o.e.data = e.data
    BY <1>1, <2>1 DEF Fields
  <2>4. Filled(h, o.e, o.heap, NIL, k + 1) /\ NotGrown(o.e)
    BY <1>5, <2>1, <2>2, <2>3 DEF NotGrown
  <2>5. AllCached(o.cache, o.e, k + 1) /\ Indexes(o.e) = Indexes(e) /\ Kind(o.e, k) = Kind(e, k)
    BY <1>3, <1>6, <2>1, <2>3
  <2>6. Sized(o.e, o.record)
    BY <1>1, <2>2, <2>3, <2>5 DEF Sized
  <2>7. NoneEmpty(o.e)
    BY <1>7, <2>3
  <2> QED BY <1>1, <1>4, <2>1, <2>2, <2>3, <2>4, <2>5, <2>6, <2>7 DEF Advances, Stage
<1>10. CASE Nothing(e, record, hp, o)
  <2>1. /\ o.e = Advance(e) /\ o.heap = hp /\ o.record = NoData(record)
        /\ o.cache = Remember(e, k) /\ o.stray = FALSE
    BY <1>10 DEF Nothing, Outcome
  <2>2. Kind(e, k) = "null" \/ ShSize(e, k) = 0
    BY <1>10 DEF Nothing
  <2>3. /\ o.e.iterator = k + 1 /\ o.e.file = e.file
        /\ o.e.state = IF k + 1 = n THEN "postLoad" ELSE "elfSection"
        /\ o.e.grown = e.grown /\ o.e.common = e.common /\ o.e.data = e.data
    BY <1>1, <2>1 DEF Advance, Fields
  <2>4. ~Wanted(e, k)
    BY <1>2, <2>2 DEF Wanted
  <2>5. Filled(h, o.e, o.heap, NIL, k + 1) /\ NotGrown(o.e)
    BY <1>5, <2>1, <2>3, <2>4 DEF NotGrown
  <2>6. AllCached(o.cache, o.e, k + 1) /\ Indexes(o.e) = Indexes(e) /\ Kind(o.e, k) = Kind(e, k)
    BY <1>3, <1>6, <2>1, <2>3
  <2>7. ShSize(o.e, k) = ShSize(e, k)
    BY <2>3 DEF ShSize
  <2>8. Sized(o.e, o.record)
    BY <1>1, <1>2, <2>2, <2>3, <2>6, <2>7 DEF Sized
  <2>9. NoneEmpty(o.e)
    BY <1>7, <2>3
  <2> QED BY <1>1, <1>4, <2>1, <2>3, <2>5, <2>6, <2>8, <2>9 DEF Advances, Stage
<1>11. CASE Loaded(h, e, record, hp, o)
  <2> DEFINE size == IF Kind(e, k) = "bss" THEN record.size ELSE ShSize(e, k)
  <2>1. /\ ToLoad(e) /\ o.e = [Advance(e) EXCEPT !.data[k] = <<h, k>>]
        /\ o.heap = Allocated(hp, <<h, k>>, size)
        /\ o.record = IF Kind(e, k) = "bss" THEN record ELSE Request(<<h, k>>, ShSize(e, k), k)
        /\ o.cache = Remember(e, k) /\ o.stray = FALSE
    BY <1>11 DEF Loaded
  <2>2. /\ o.e.iterator = k + 1 /\ o.e.file = e.file
        /\ o.e.state = IF k + 1 = n THEN "postLoad" ELSE "elfSection"
        /\ o.e.grown = e.grown /\ o.e.common = e.common
        /\ o.e.data = [e.data EXCEPT ![k] = <<h, k>>]
    BY <1>1, <2>1 DEF Advance, Fields
  <2>3. FilledIn(h, k, e, hp, size, o)
    BY <2>1, <2>2 DEF FilledIn
  <2>4. ShSize(e, k) <= size
    <3>1. CASE Kind(e, k) # "bss"
      BY <1>2, <3>1
    <3>2. CASE Kind(e, k) = "bss"
      <4>1. e.file.section[k].size > 0 /\ k \in Sections(e.file, "bss")
        BY <1>2, <2>1, <3>2 DEF ToLoad, Sections, Kind, Indexes
      <4>2. /\ k - 1 \in Indexes(e) /\ Kind(e, k - 1) # "null" /\ ~PassedOver(Kind(e, k - 1))
            /\ e.file.section[k].size <= e.file.section[k - 1].size
        BY <4>1 DEF Usual, Kind, Indexes
      <4>3. Kind(e, k - 1) # "outside" /\ ShSize(e, k - 1) = e.file.section[k - 1].size
            /\ ShSize(e, k - 1) \in Nat
        BY <4>2, IndexesAre, SizesAre
      <4>4. Kind(e, k - 1) # "bss"
        <5>1. k - 1 # k
          BY <1>1
        <5> QED BY <3>2, <5>1, LayoutIs
      <4>5. record.size = ShSize(e, k - 1)
        BY <1>2, <4>1, <4>2, <4>3, <4>4 DEF Sized
      <4> QED BY <1>2, <3>2, <4>2, <4>3, <4>5
    <3> QED BY <3>1, <3>2
  <2>5. Kind(e, k) = "bss" \/ o.record.buffer = <<h, k>>
    BY <2>1, RecordOfOutcome
  <2>6. Asked(h, o.record)
    BY <2>1, RecordOfOutcome
  <2> HIDE DEF size
  <2>7. Filled(h, o.e, o.heap, o.record.buffer, k + 1)
    <3> DEFINE buffer == o.record.buffer
               f      == o.e
    <3>1. \A j \in Indexes(e) : j < k + 1 =>
              j < k \/ j = k \/ ~Wanted(e, j) \/ Kind(e, j) = "names"
      BY <1>1
    <3>2. f.file = e.file /\ f.grown = e.grown /\ o.e = f /\ (Kind(e, k) = "bss" \/ buffer = <<h, k>>)
      BY <2>2, <2>5
    <3> HIDE DEF buffer, f, k
    <3>3. k \in Indexes(e) /\ Filled(h, e, hp, NIL, k)
      BY DEF k
    <3>4. Filled(h, f, o.heap, buffer, k + 1)
      BY <1>1, <2>3, <2>4, <3>1, <3>2, <3>3, FilledStays
    <3> QED BY <3>4 DEF buffer, f
  <2>8. AllCached(o.cache, o.e, k + 1) /\ Indexes(o.e) = Indexes(e) /\ Kind(o.e, k) = Kind(e, k)
    BY <1>3, <1>6, <2>1, <2>2
  <2>9. ShSize(o.e, k) = ShSize(e, k) /\ NotGrown(o.e)
    BY <2>2 DEF ShSize, NotGrown
  <2>10. Sized(o.e, o.record)
    <3>1. Kind(e, k) # "bss" => o.record.size = ShSize(e, k)
      BY <2>1, RecordOfOutcome
    <3> QED BY <1>1, <2>2, <2>8, <2>9, <3>1 DEF Sized
  <2>11. NoneEmpty(o.e)
    <3>1. ASSUME NEW j, ShSize(e, j) = 0 PROVE o.e.data[j] = e.data[j]
      <4>1. j # k
        BY <2>1, <3>1 DEF ToLoad
      <4> QED BY <2>2, <4>1
    <3> QED BY <1>7, <2>2, <3>1
  <2> QED BY <1>1, <2>1, <2>2, <2>6, <2>7, <2>8, <2>9, <2>10, <2>11 DEF Advances, Stage
<1>12. CASE NoMemory(h, e, record, hp, o)
  <2>1. /\ \E it : o.e = [Invalid(e) EXCEPT !.iterator = it]
        /\ o.cache = Remember(e, k) /\ o.stray = FALSE
        /\ o.record = IF Kind(e, k) = "bss" THEN record
                      ELSE NoData(Request(<<h, k>>, ShSize(e, k), k))
    BY <1>12 DEF NoMemory
  <2>2. o.e.state = "elfInvalid"
    BY <1>1, <2>1 DEF Invalid, Fields
  <2>3. Asked(h, o.record)
    BY <2>1, RecordOfOutcome
  <2> QED BY <2>1, <2>2, <2>3 DEF Advances, Stage
<1> QED BY <1>8, <1>9, <1>10, <1>11, <1>12, SectionOutcomes

(* The tables of a file that has all its sections are found where the indexes *)
(* say.                                                                    *)
LEMMA OwnTables ==
    ASSUME NEW h \in Nat, NEW e, e.file \in Files, Usual(e.file), CacheInv, Arrays(h, e), NEW hp,
           GrownAtBss(e), Filled(h, e, hp, NIL, Cardinality(Indexes(e))),
           AllCached(cache, e, Cardinality(Indexes(e)))
    PROVE  /\ Kind(e, cache.bss) = "bss" /\ cache.bss \in Indexes(e)
           /\ SymTabIsOwn(e)
           /\ HasNoRelocations(e) \/ RelocTableIsOwn(e)
           /\ \A r \in DOMAIN e.file.rels : ~HasNoRelocations(e) /\ e.file.rels # << >>
           /\ e.file.rels # << >> =>
                 /\ IsLoaded(e, cache.text, "text") /\ cache.text \in Indexes(e)
                 /\ ShSize(e, cache.text) > 0 /\ Kind(e, cache.text) = "text"
<1> DEFINE n == Cardinality(Indexes(e))
<1>1. Indexes(e) = 0 .. n - 1 /\ n \in Nat /\ Indexes(e) \subseteq Int /\ Indexes(e) = DOMAIN e.file.section
  BY IndexesAre DEF Indexes
<1>2. \A i \in Indexes(e) : i < n /\ i # -1
  BY <1>1
<1>3. \A i \in Indexes(e) : Kind(e, i) # "bss" => ShSize(e, i) = e.file.section[i].size
  BY <1>2 DEF GrownAtBss, ShSize
<1>4. WellFormed(e.file)
  OBVIOUS
<1>5. \A i \in Indexes(e) : Kind(e, i) = e.file.section[i].kind /\ e.file.section[i].size \in Nat
  BY <1>1, <1>4 DEF Kind, WellFormed
<1>6. ASSUME NEW i \in Indexes(e), Kind(e, i) \in {"text", "symtab", "strtab", "rel"}, ShSize(e, i) > 0
      PROVE  Data(e, i) # NIL /\ IsLoaded(e, i, Kind(e, i))
  <2>1. Wanted(e, i)
    BY <1>6 DEF Wanted
  <2>2. e.data[i] = <<h, i>> /\ <<h, i>> \in Int \X Int
    BY <1>1, <1>2, <2>1 DEF Filled, Holds
  <2>3. Data(e, i) = e.data[i]
    BY DEF Arrays, Data
  <2> QED BY <2>2, <2>3 DEF IsLoaded
<1>7. \A i \in Indexes(e) : CachedIn(cache, e, i)
  BY <1>2 DEF AllCached
<1>8. Kind(e, cache.bss) = "bss" /\ cache.bss \in Indexes(e)
  <2>1. PICK i \in Indexes(e) : Kind(e, i) = "bss"
    BY <1>1, <1>5 DEF Usual, Sections
  <2> QED BY <1>7, <2>1 DEF CachedIn
<1>9. SymTabIsOwn(e)
  <2>1. PICK i \in Indexes(e) : Kind(e, i) = "symtab" /\ ShSize(e, i) > 0
    BY <1>1, <1>3, <1>5 DEF Usual, Sections
  <2>2. PICK j \in Indexes(e) : Kind(e, j) = "strtab" /\ ShSize(e, j) > 0
    BY <1>1, <1>3, <1>5 DEF Usual, Sections
  <2>3. cache.symTab = i
    BY <1>7, <2>1 DEF CachedIn
  <2> QED BY <1>6, <2>1, <2>2, <2>3 DEF SymTabIsOwn
<1>10. HasNoRelocations(e) \/ RelocTableIsOwn(e)
  <2>1. SUFFICES ASSUME ~HasNoRelocations(e) PROVE RelocTableIsOwn(e)
    OBVIOUS
  <2>2. cache.relocTable # NOT_LOADED
    BY <2>1 DEF HasNoRelocations
  <2>3. Kind(e, cache.relocTable) = "rel"
    BY <2>2, LayoutIs DEF CacheInv
  <2>4. cache.relocTable \in Indexes(e)
    BY <2>3, IndexesAre
  <2>5. ShSize(e, cache.relocTable) > 0
    BY <1>3, <1>5, <2>1, <2>3, <2>4 DEF HasNoRelocations
  <2> QED BY <1>6, <2>3, <2>4, <2>5 DEF RelocTableIsOwn
<1>11. ASSUME NEW r \in DOMAIN e.file.rels PROVE ~HasNoRelocations(e) /\ e.file.rels # << >>
  <2>1. PICK i \in Indexes(e) : e.file.section[i].kind = "rel" /\ e.file.section[i].size > 0
    BY <1>1, <1>4 DEF WellFormed
  <2>2. Kind(e, i) = "rel" /\ ShSize(e, i) > 0
    BY <1>3, <1>5, <2>1
  <2>3. cache.relocTable = i /\ i \in Int
    BY <1>1, <1>7, <2>2 DEF CachedIn
  <2> QED BY <2>2, <2>3 DEF HasNoRelocations
<1>12. ASSUME e.file.rels # << >>
       PROVE  /\ IsLoaded(e, cache.text, "text") /\ cache.text \in Indexes(e)
              /\ ShSize(e, cache.text) > 0 /\ Kind(e, cache.text) = "text"
  <2>1. PICK i \in Indexes(e) : Kind(e, i) = "text" /\ ShSize(e, i) > 0
    BY <1>1, <1>3, <1>5, <1>12 DEF Usual, Sections
  <2>2. cache.text = i
    BY <1>7, <2>1 DEF CachedIn
  <2> QED BY <1>6, <2>1, <2>2
<1> QED BY <1>8, <1>9, <1>10, <1>11, <1>12

(* Common symbols have a place, or there are none. *)
LEMMA AssignedFilled ==
    ASSUME NEW h \in Nat, NEW e, NEW hp, Entry(h, e), e.file \in Files, CacheInv, Usual(e.file),
           Arrays(h, e), NotGrown(e), NoneEmpty(e), Filled(h, e, hp, NIL, Cardinality(Indexes(e))),
           AllCached(cache, e, Cardinality(Indexes(e))),
           NEW a \in Assigned(e, hp), NEW f, f = a.e, ~Unassigned(f)
    PROVE  /\ f.file = e.file /\ DOMAIN f = Fields /\ Arrays(h, f)
           /\ GrownAtBss(f) /\ Filled(h, f, a.heap, NIL, Cardinality(Indexes(f)))
           /\ AllCached(cache, f, Cardinality(Indexes(f)))
           /\ \A name \in DOMAIN f.file.symbols : Defined(f, name) # SHN_COMMON
<1> DEFINE n  == Cardinality(Indexes(e))
           hq == a.heap
           C  == { name \in DOMAIN e.file.symbols : e.file.symbols[name] = SHN_COMMON }
           i  == cache.bss
<1>1. GrownAtBss(e) /\ DOMAIN e = Fields /\ DOMAIN e.data = Indexes(e)
  BY DEF GrownAtBss, NotGrown, Entry, Arrays
<1>2. Kind(e, i) = "bss" /\ i \in Indexes(e) /\ SymTabIsOwn(e)
  BY <1>1, OwnTables
<1>3. CommonSize(e) \in Nat /\ (CommonSize(e) = 0 <=> C = {})
  <2>1. WellFormed(e.file)
    OBVIOUS
  <2>2. IsFiniteSet(C)
    BY <2>1, FS_Subset DEF WellFormed
  <2> QED BY <2>2, FS_CardinalityType, FS_EmptySet DEF CommonSize
<1>4. ShSize(e, i) \in Nat /\ ShSize(e, i) = e.file.section[i].size
  BY <1>2, SizesAre
<1>5. CASE CommonSize(e) = 0 \/ ShSize(e, i) # 0
  <2>1. f = e /\ hq = hp
    BY <1>5, AssignedIs
  <2>2. C = {}
    <3>1. CASE ShSize(e, i) # 0
      <4>1. i \in Sections(e.file, "bss") /\ e.file.section[i].size > 0
        BY <1>2, <1>4, <3>1 DEF Sections, Kind, Indexes
      <4>2. Common(e.file) = {}
        BY <4>1 DEF Usual
      <4> QED BY <4>2 DEF Common
    <3> QED BY <1>3, <1>5, <3>1
  <2>3. \A name \in DOMAIN e.file.symbols : Defined(e, name) # SHN_COMMON
    BY <2>2 DEF Defined
  <2> QED BY <1>1, <2>1, <2>3
<1>6. CASE CommonSize(e) # 0 /\ ShSize(e, i) = 0
  <2>0. /\ GrownTo(e, Grown(e), e.data)
        /\ GrownTo(e, WithBlock(e, <<h, i>>), [e.data EXCEPT ![i] = <<h, i>>])
    BY <1>1, GrownIs
  <2>1. f # Grown(e)
    <3>1. SUFFICES ASSUME f = Grown(e) PROVE FALSE
      OBVIOUS
    <3>2. f.grown.at = i /\ f.data = e.data
      BY <2>0, <3>1 DEF GrownTo
    <3>3. Data(f, i) = NIL /\ i # -1
      BY <1>1, <1>2, <1>6, <3>2, IndexesAre DEF NoneEmpty, Data
    <3> QED BY <3>2, <3>3 DEF Unassigned
  <2>2. Joined(h, e, hp, a)
    <3>1. f # e
      <4>1. a \in ELFsizeAndAssignMemToBSS(e, hp)
        BY <1>2, <1>6 DEF Assigned
      <4>2. Block(e, i) = <<h, i>>
        BY DEF Block, Entry
      <4>3. f = Grown(e) \/ f = WithBlock(e, <<h, i>>)
        BY <1>6, <4>1, <4>2 DEF ELFsizeAndAssignMemToBSS, WithBlock
      <4>4. f.grown.at = i
        BY <2>0, <4>3 DEF GrownTo
      <4> QED BY <1>2, <4>4, IndexesAre DEF NotGrown
    <3> QED BY <2>1, <3>1, AssignedIs
  <2>3. /\ f.file = e.file /\ DOMAIN f = Fields /\ f.state = e.state /\ f.section = e.section
        /\ f.sectionData = e.sectionData /\ f.data = [e.data EXCEPT ![i] = <<h, i>>]
        /\ f.grown.at = i /\ f.grown.size = CommonSize(e) /\ f.common = i
        /\ hq = Allocated(hp, <<h, i>>, CommonSize(e))
    <3>1. f = WithBlock(e, <<h, i>>) /\ hq = Allocated(hp, <<h, i>>, CommonSize(e))
      BY <2>2 DEF Joined
    <3> QED BY <2>0, <3>1 DEF GrownTo
  <2> HIDE DEF i, hq, n
  <2>4. Indexes(f) = Indexes(e) /\ \A j : Kind(f, j) = Kind(e, j)
    BY <2>3 DEF Indexes, Kind
  <2>5. Arrays(h, f)
    BY <1>2, <2>3, <2>4 DEF Arrays
  <2>6. GrownAtBss(f) /\ AllCached(cache, f, n)
    BY <1>2, <2>3, <2>4 DEF GrownAtBss, AllCached, CachedIn, n
  <2>7. ShSize(f, i) = CommonSize(e) /\ \A j \in Indexes(e) \ {i} : ShSize(f, j) = ShSize(e, j)
    <3>1. \A j \in Indexes(e) : j # -1
      BY IndexesAre
    <3> QED BY <2>3, <3>1 DEF ShSize, NotGrown
  <2>8. /\ DOMAIN hq = DOMAIN hp \cup {<<h, i>>} /\ hq[<<h, i>>].size = CommonSize(e)
        /\ DOMAIN hq[<<h, i>>] = {"size", "holds", "words"}
        /\ \A c \in DOMAIN hp : c # <<h, i>> => hq[c] = hp[c]
    BY <2>3 DEF Allocated
  <2>9. Filled(h, f, hq, NIL, n)
    <3>1. Holds(h, f, hq, NIL, i)
      BY <1>2, <1>1, <1>3, <2>3, <2>4, <2>7, <2>8 DEF Holds
    <3>2. ASSUME NEW j \in Indexes(e) \ {i}, Holds(h, e, hp, NIL, j) PROVE Holds(h, f, hq, NIL, j)
      <4>1. <<h, j>> # <<h, i>> /\ <<h, j>> \in DOMAIN hp
        BY <3>2 DEF Holds
      <4>2. hq[<<h, j>>] = hp[<<h, j>>] /\ <<h, j>> \in DOMAIN hq /\ f.data[j] = e.data[j]
        BY <2>3, <2>8, <4>1
      <4> QED BY <2>3, <2>4, <2>7, <3>2, <4>2 DEF Holds
    <3>3. \A j \in Indexes(e) \ {i} : Wanted(f, j) <=> Wanted(e, j)
      BY <2>4, <2>7 DEF Wanted
    <3> QED BY <2>4, <3>1, <3>2, <3>3 DEF Filled, n
  <2>10. \A name \in DOMAIN f.file.symbols : Defined(f, name) # SHN_COMMON
    <3>1. i # SHN_COMMON
      <4> DEFINE m == Cardinality(Indexes(e))
      <4>1. m \in 1 .. SHN_COMMON
        BY IndexesAre
      <4>2. i \in Int /\ i < m
        BY <1>2, IndexesAre
      <4>3. SHN_COMMON \in Int
        BY DEF SHN_COMMON
      <4> HIDE DEF m
      <4> QED BY <4>1, <4>2, <4>3
    <3> QED BY <2>3, <3>1 DEF Defined
  <2> QED BY <2>3, <2>4, <2>5, <2>6, <2>9, <2>10 DEF hq, n
<1> QED BY <1>5, <1>6

(* Relocation fills in the words of the code, and nothing else. *)
LEMMA ResolvesOwn ==
    ASSUME NEW h \in Nat, NEW f, f.file \in Files, CacheInv, Usual(f.file), Arrays(h, f), NEW hp,
           GrownAtBss(f), Filled(h, f, hp, NIL, Cardinality(Indexes(f))),
           AllCached(cache, f, Cardinality(Indexes(f))),
           \A name \in DOMAIN f.file.symbols : Defined(f, name) # SHN_COMMON,
           NEW s, s = ELFresolveRelocations(f, hp)
    PROVE  /\ s.stray = FALSE
           /\ Filled(h, f, s.heap, NIL, Cardinality(Indexes(f)))
           /\ SymbolsIn(s.heap, f, FALSE)
<1>1. /\ SymTabIsOwn(f)
      /\ HasNoRelocations(f) \/ RelocTableIsOwn(f)
      /\ \A r \in DOMAIN f.file.rels : ~HasNoRelocations(f) /\ f.file.rels # << >>
      /\ f.file.rels # << >> =>
            /\ IsLoaded(f, cache.text, "text") /\ cache.text \in Indexes(f)
            /\ ShSize(f, cache.text) > 0 /\ Kind(f, cache.text) = "text"
  BY OwnTables
<1>2. \A r \in DOMAIN f.file.rels : f.file.rels[r] \in DOMAIN f.file.symbols
  <2>1. WellFormed(f.file)
    OBVIOUS
  <2> QED BY <2>1 DEF WellFormed
<1>3. ~ \E r \in DOMAIN f.file.rels : Defined(f, f.file.rels[r]) = SHN_COMMON
  BY <1>2
<1>4. CASE HasNoRelocations(f) \/ f.file.rels = << >>
  <2>1. DOMAIN f.file.rels = {}
    BY <1>1, <1>4
  <2>2. s.stray = FALSE
    BY <1>1, <1>4 DEF ELFresolveRelocations
  <2>3. SymbolsIn(s.heap, f, FALSE)
    BY <2>1 DEF SymbolsIn
  <2>4. s.heap \in {hp, Relocated(f, hp)}
    BY DEF ELFresolveRelocations
  <2>5. ASSUME s.heap = Relocated(f, hp) PROVE Filled(h, f, s.heap, NIL, Cardinality(Indexes(f)))
    <3>1. ASSUME NEW i, Holds(h, f, hp, NIL, i) PROVE Holds(h, f, s.heap, NIL, i)
      BY <2>5, <3>1 DEF Holds, Relocated
    <3> QED BY <3>1 DEF Filled
  <2> QED BY <2>2, <2>3, <2>4, <2>5
<1>5. CASE ~HasNoRelocations(f) /\ f.file.rels # << >>
  <2> DEFINE k == cache.text
             b == <<h, k>>
  <2>1. /\ IsLoaded(f, k, "text") /\ k \in Indexes(f)
        /\ ShSize(f, k) > 0 /\ Kind(f, k) = "text" /\ k < Cardinality(Indexes(f))
    BY <1>1, <1>5, IndexesAre
  <2>2. s.stray = FALSE /\ s.heap = Relocated(f, hp)
    <3>1. ShSize(f, k) # 0
      BY <2>1
    <3> HIDE DEF k
    <3> QED BY <1>1, <1>3, <1>5, <2>1, <3>1 DEF ELFresolveRelocations, k
  <2>3. Holds(h, f, hp, NIL, k)
    BY <2>1 DEF Filled, Wanted
  <2>4. Data(f, k) = b /\ f.data[k] = b /\ b \in DOMAIN hp /\ DOMAIN hp[b] = {"size", "holds", "words"}
    BY <2>1, <2>3 DEF Holds, Data, Arrays
  <2> DEFINE words == [r \in DOMAIN f.file.rels |->
                          IF Undefined(f, f.file.rels[r]) THEN GARBAGE
                          ELSE Data(f, Defined(f, f.file.rels[r]))]
  <2>5. s.heap = [hp EXCEPT ![b].words = words]
    BY <2>2, <2>4, Zenon DEF Relocated
  <2> HIDE DEF b, k, words
  <2>6. /\ DOMAIN s.heap = DOMAIN hp /\ s.heap[b].words = words
        /\ \A c \in DOMAIN hp : c # b => s.heap[c] = hp[c]
        /\ DOMAIN s.heap[b] = DOMAIN hp[b] /\ s.heap[b].size = hp[b].size /\ s.heap[b].holds = hp[b].holds
    BY <2>4, <2>5
  <2>7. ASSUME NEW i, Holds(h, f, hp, NIL, i) PROVE Holds(h, f, s.heap, NIL, i)
    <3>1. CASE <<h, i>> = b
      BY <2>6, <2>7, <3>1 DEF Holds
    <3>2. CASE <<h, i>> # b
      BY <2>6, <2>7, <3>2 DEF Holds
    <3> QED BY <3>1, <3>2
  <2>8. Filled(h, f, s.heap, NIL, Cardinality(Indexes(f)))
    BY <2>7 DEF Filled
  <2>9. SymbolsIn(s.heap, f, FALSE)
    <3>1. SUFFICES ASSUME NEW i \in Indexes(f), Kind(f, i) = "text", NEW r \in DOMAIN f.file.rels
                   PROVE  s.heap[f.data[i]].words[r] =
                              IF ~Undefined(f, f.file.rels[r]) THEN Data(f, Defined(f, f.file.rels[r]))
                              ELSE GARBAGE
      BY DEF SymbolsIn
    <3>2. i = k
      <4>1. i < Cardinality(Indexes(f))
        BY IndexesAre
      <4> QED BY <3>1, <4>1 DEF AllCached, CachedIn, k
    <3>3. s.heap[f.data[i]].words = words
      BY <2>4, <2>6, <3>2
    <3> QED BY <3>3 DEF words
  <2> QED BY <2>2, <2>8, <2>9
<1> QED BY <1>4, <1>5

LEMMA FinishIs ==
    ASSUME NEW f, DOMAIN f = Fields
    PROVE  /\ Finish(f).state = "finalState" /\ Finish(f).file = f.file /\ Finish(f).data = f.data
           /\ Finish(f).grown = f.grown /\ Finish(f).common = f.common
           /\ Finish(f).section = f.section /\ Finish(f).sectionData = f.sectionData
           /\ Finish(f).iterator = f.iterator
BY DEF Finish, Fields

LEMMA StagePost ==
    ASSUME NEW h \in Nat, NEW e, NEW record, NEW hp, NEW kind, Entry(h, e), e.file \in Files, CacheInv,
           Usual(e.file), Arrays(h, e), NotGrown(e), NoneEmpty(e),
           Filled(h, e, hp, NIL, Cardinality(Indexes(e))),
           AllCached(cache, e, Cardinality(Indexes(e))), RecordOf(h, record),
           NEW o \in PostLoad(e, record, hp), ~Unassigned(o.e)
    PROVE  Advances(h, e, o, kind)
<1>0. PICK a \in Assigned(e, hp) : Finished(e, a, record, o)
  BY PostOutcome
<1> DEFINE f  == a.e
           hq == a.heap
           g  == Finish(f)
           s  == ELFresolveRelocations(f, hq)
           n  == Cardinality(Indexes(f))
<1>1. /\ f.file = e.file /\ DOMAIN f = Fields /\ Arrays(h, f)
      /\ GrownAtBss(f) /\ Filled(h, f, hq, NIL, n) /\ AllCached(cache, f, n)
      /\ \A name \in DOMAIN f.file.symbols : Defined(f, name) # SHN_COMMON
  <2>1. DOMAIN f = Fields
    <3>1. DOMAIN e = Fields
      BY DEF Entry
    <3>2. f = e \/ f = Grown(e) \/ f = WithBlock(e, <<h, cache.bss>>)
      BY AssignedIs DEF Joined
    <3>3. /\ GrownTo(e, Grown(e), e.data)
          /\ GrownTo(e, WithBlock(e, <<h, cache.bss>>), [e.data EXCEPT ![cache.bss] = <<h, cache.bss>>])
      BY <3>1, GrownIs
    <3> QED BY <3>1, <3>2, <3>3 DEF GrownTo
  <2>2. ~Unassigned(f)
    BY <1>0, <2>1, FinishIs DEF Finished, Unassigned, Data
  <2> QED BY <2>2, AssignedFilled
<1>2. /\ o.e = g /\ o.heap = s.heap /\ o.record = NoData(record) /\ o.cache = cache
      /\ o.stray = Strays(e, a)
  BY <1>0 DEF Finished, Resolved
<1>3. Strays(e, a) <=> s.stray
  <2>1. GrownAtBss(e)
    BY DEF GrownAtBss, NotGrown
  <2>2. cache.bss \in Indexes(e) /\ SymTabIsOwn(e)
    BY <2>1, OwnTables
  <2> QED BY <2>2 DEF Strays, Resolved
<1> HIDE DEF f, hq, s
<1>4. s.stray = FALSE /\ Filled(h, f, s.heap, NIL, n) /\ SymbolsIn(s.heap, f, FALSE)
  BY <1>1, ResolvesOwn DEF s
<1>5. /\ g.state = "finalState" /\ g.file = f.file /\ g.data = f.data
      /\ g.grown = f.grown /\ g.common = f.common
      /\ g.section = f.section /\ g.sectionData = f.sectionData
  BY <1>1, FinishIs
<1> HIDE DEF g, n
<1>6. /\ Indexes(g) = Indexes(f) /\ \A i : Kind(g, i) = Kind(f, i) /\ Data(g, i) = Data(f, i)
      /\ \A i : ShSize(g, i) = ShSize(f, i)
      /\ \A name : Undefined(g, name) = Undefined(f, name) /\ Defined(g, name) = Defined(f, name)
  BY <1>5 DEF Indexes, Kind, Data, ShSize, Undefined, Defined
<1>7. Arrays(h, g) /\ GrownAtBss(g)
  BY <1>1, <1>5, <1>6 DEF Arrays, GrownAtBss
<1>8. Filled(h, g, s.heap, NIL, n)
  <2>1. \A i : Holds(h, f, s.heap, NIL, i) => Holds(h, g, s.heap, NIL, i)
    BY <1>5, <1>6 DEF Holds
  <2>2. \A i : Wanted(g, i) <=> Wanted(f, i)
    BY <1>6 DEF Wanted
  <2> QED BY <1>4, <1>6, <2>1, <2>2 DEF Filled
<1>9. AllCached(cache, g, n)
  BY <1>1, <1>6 DEF AllCached, CachedIn
<1>10. SymbolsIn(s.heap, g, FALSE)
  BY <1>4, <1>5, <1>6 DEF SymbolsIn
<1>11. o.record.buffer = NIL /\ Asked(h, o.record)
  BY <1>2 DEF NoData, RecordOf, Asked
<1>12. Ready(h, o.e, o.heap, o.cache, FALSE)
  BY <1>2, <1>5, <1>6, <1>7, <1>8, <1>9, <1>10 DEF Ready, n
<1>13. Stage(h, o.e, o.heap, o.record, o.cache, kind)
  BY <1>2, <1>5, <1>7, <1>11, <1>12 DEF Stage
<1> QED BY <1>2, <1>3, <1>4, <1>11, <1>13 DEF Advances

LEMMA StageWorks ==
    ASSUME MemInv, CacheInv, NEW h \in Nat, NEW e, NEW record, NEW kind, NEW hp,
           hp = ReadInto(heap, record, e.file), Entry(h, e), e.file \in Files, Usual(e.file),
           Owns(h, e, hp), RecordOf(h, record), Asked(h, record),
           Stage(h, e, heap, record, cache, kind), Status(e) = "EXEC_LOAD_AGAIN",
           NEW o \in LoadStep(e, record, hp),
           ~ (o.e.state = "elfInvalid" /\ o.e.sectionData \in {NIL, GARBAGE}),
           o.e.state = "elfInvalid" => kind = "exec", ~Unassigned(o.e)
    PROVE  Advances(h, e, o, kind)
<1>1. Works(h, e, hp, o) /\ Arrays(h, o.e)
  BY LoadWorks
<1>2. e.state \in {"saveElfHeader", "elfSectionNames", "elfSection", "postLoad"}
  BY DEF Entry, Empty, Arrays, Status
<1>3. CASE e.state = "saveElfHeader"
  <2>1. Empty(e) /\ NotGrown(e) /\ e.iterator = 0
    BY <1>3 DEF Entry, Arrays, Stage
  <2>2. o \in ELFSectionHeaderProcessing(e, record, hp)
    BY <1>3 DEF LoadStep
  <2> QED BY <1>3, <2>1, <2>2, StageHeader
<1>4. CASE e.state = "elfSectionNames"
  <2>1. Arrays(h, e) /\ NotGrown(e) /\ NoneEmpty(e) /\ e.iterator = 0
    BY <1>4 DEF Stage
  <2>2. o \in ELFSectionNamesProcessing(e, record, hp)
    BY <1>4 DEF LoadStep
  <2> QED BY <1>1, <2>1, <2>2, StageNames
<1>5. ASSUME e.state \in {"elfSection", "postLoad"}
      PROVE  /\ Arrays(h, e) /\ NotGrown(e) /\ NoneEmpty(e) /\ AllCached(cache, e, e.iterator)
             /\ Filled(h, e, hp, NIL, e.iterator)
  <2>1. Filled(h, e, heap, record.buffer, e.iterator)
    BY <1>5 DEF Stage
  <2>2. Filled(h, e, ReadInto(heap, record, e.file), NIL, e.iterator)
    BY <2>1, AfterRead
  <2> QED BY <1>5, <2>2 DEF Stage
<1>6. CASE e.state = "elfSection"
  <2>1. e.iterator \in Indexes(e) /\ Sized(e, record)
    BY <1>6 DEF Stage
  <2>2. o \in ELFSectionProcessing(e, record, hp)
    BY <1>6 DEF LoadStep
  <2> QED BY <1>1, <1>5, <1>6, <2>1, <2>2, StageSections
<1>7. CASE e.state = "postLoad"
  <2>1. e.iterator = Cardinality(Indexes(e))
    BY <1>7 DEF Stage
  <2>2. o \in PostLoad(e, record, hp)
    BY <1>7 DEF LoadStep
  <2> QED BY <1>5, <1>7, <2>1, <2>2, StagePost
<1> QED BY <1>2, <1>3, <1>4, <1>6, <1>7

-----------------------------------------------------------------------------
(* The steps of the tasks.  The indexes that are kept stay good for every    *)
(* file that has been seen.                                                *)
CacheServes ==
    \A e : e.file \in Files /\ Usual(e.file) =>
        \A i : CachedIn(cache, e, i) => CachedIn(cache', e, i)

LEMMA CacheServesStill ==
    ASSUME CacheInv, NEW f, f.file \in Files, Usual(f.file), NEW j,
           cache' = cache \/ cache' = Remember(f, j)
    PROVE  CacheServes /\ CacheInv'
<1>1. CASE cache' = cache
  BY <1>1 DEF CacheServes, CacheInv
<1>2. CASE cache' = Remember(f, j)
  <2>1. CacheServes
    BY <1>2, CacheStays DEF CacheServes
  <2>2. CacheInv'
    BY <1>2, CacheStays DEF CacheInv
  <2> QED BY <2>1, <2>2
<1> QED BY <1>1, <1>2

LEMMA GoodFrame ==
    ASSUME LoadInv, NEW t \in Tasks, MemInv', Acts(t), Moves(t), "unusual" \notin Allowed,
           CacheServes, CacheInv', NoExit', Clean',
           t \in Busy' => Good(task'[t], eTable'[task'[t].h], heap', cache')
    PROVE  LoadInv'
<1>1. PICK h : /\ \A u \in Busy \ {t} : task[u].h # h
               /\ OnlyFor(h)
  BY DEF Acts
<1>2. ASSUME NEW u \in Busy' \ {t} PROVE Good(task'[u], eTable'[task'[u].h], heap', cache')
  <2> DEFINE r == task[u]
             e == eTable[r.h]
  <2>1. task'[u] = r /\ u \in Busy \ {t} /\ u \in Tasks
    BY <1>2 DEF Moves, Busy
  <2>2. r.h # h /\ r.h \in DOMAIN eTable /\ Fits(r, e, heap) /\ Good(r, e, heap, cache)
    BY <1>1, <2>1 DEF LoadInv, MemInv
  <2>3. eTable'[r.h] = e /\ Elsewhere(h, heap, heap')
    BY <1>1, <2>2 DEF OnlyFor
  <2>4. r.file \in Files /\ Usual(r.file)
    BY <2>1, BusyIs DEF LoadInv, MemInv, Started, Registered, Loadable
  <2>5. r.at # "header" => \A i \in Indexes(e) : CachedIn(cache, e, i) => CachedIn(cache', e, i)
    BY <2>2, <2>4 DEF Fits, CacheServes
  <2> HIDE DEF r, e
  <2>6. Good(r, e, heap', cache')
    BY <2>2, <2>3, <2>4, <2>5, GoodElsewhere
  <2> QED BY <2>1, <2>3, <2>6 DEF r
<1>3. \A u \in Busy' : Good(task'[u], eTable'[task'[u].h], heap', cache')
  BY <1>2
<1> QED BY <1>3 DEF LoadInv

LEMMA GoodTask ==
    ASSUME LoadInv, NEW t \in Tasks, task[t].at # "idle", "unusual" \notin Allowed
    PROVE  /\ t \in Busy /\ task[t].h \in DOMAIN eTable /\ task[t].h \in Nat
           /\ Entry(task[t].h, eTable[task[t].h]) /\ Fits(task[t], eTable[task[t].h], heap)
           /\ task[t].file \in Files /\ Usual(task[t].file)
           /\ Good(task[t], eTable[task[t].h], heap, cache)
BY BusyTask DEF LoadInv, Loadable

LEMMA CacheSame ==
    ASSUME CacheInv, UNCHANGED cache
    PROVE  CacheServes /\ CacheInv'
BY DEF CacheServes, CacheInv

LEMMA LoadedOpen ==
    ASSUME LoadInv, NEW t \in Tasks, NEW kind \in {"exec", "lm"}, NEW file \in Files,
           Open(t, kind, file), "unusual" \notin Allowed
    PROVE  LoadInv'
<1>1. MemInv' /\ Acts(t) /\ Moves(t)
  BY MemoryOpen, TaskSteps DEF LoadInv, MemInv, Step
<1>2. UNCHANGED <<cache, lmTable>> /\ Clean'
  <2>1. CASE OpenRefused
    BY <2>1, OpenIs DEF OpenRefused, Clean
  <2>2. ASSUME NEW h, Opens(t, kind, file, h) PROVE UNCHANGED <<cache, lmTable, stray>>
    BY <2>2, OpenIs DEF Opens, KLexecOpen
  <2> QED BY <2>1, <2>2, OpenIs DEF LoadInv, Clean
<1>3. ASSUME NEW h, Opens(t, kind, file, h)
      PROVE  Good(task'[t], eTable'[task'[t].h], heap', cache')
  <2>1. task'[t].h = h /\ task'[t].at = "header" /\ task'[t].record = Request(<<h, HEADER>>, 1, HEADER)
    BY <1>3 DEF Opens, LoadInv, MemInv, TaskType
  <2>2. eTable'[h] = Opened(<<h, HEADER>>)
    BY <1>3 DEF Opens, KLexecOpen, Handles
  <2>3. NotGrown(eTable'[h]) /\ eTable'[h].iterator = 0
    BY <2>2 DEF Opened, NotGrown
  <2>4. Asked(h, task'[t].record)
    BY <2>1 DEF Asked, Request
  <2> QED BY <2>1, <2>3, <2>4 DEF Good
<1>4. t \in Busy' => \E h : Opens(t, kind, file, h)
  <2>1. CASE OpenRefused
    BY <2>1, OpenIs DEF OpenRefused, Busy
  <2> QED BY <2>1, OpenIs
<1>5. CacheServes /\ CacheInv' /\ NoExit'
  BY <1>2, CacheSame DEF LoadInv, NoExit
<1> QED BY <1>1, <1>2, <1>3, <1>4, <1>5, GoodFrame

LEMMA LoadedHeader ==
    ASSUME LoadInv, NEW t \in Tasks, NEW probing \in BOOLEAN, NEW read \in BOOLEAN,
           ReadHeader(t, probing, read), {"unusual", "unread"} \cap Allowed = {}
    PROVE  LoadInv'
<1> DEFINE h == task[t].h
           e == eTable[h]
<1>1. MemInv' /\ Acts(t) /\ Moves(t)
  BY MemoryHeader, TaskSteps DEF LoadInv, MemInv, Step
<1>2. task[t].at = "header" /\ read /\ UNCHANGED <<cache, stray, lmTable>>
  BY DEF ReadHeader
<1>3. /\ h \in DOMAIN eTable /\ Entry(h, e) /\ Fits(task[t], e, heap) /\ Usual(task[t].file)
      /\ Good(task[t], e, heap, cache)
  BY <1>2, GoodTask
<1>4. Started(task[t]) /\ DOMAIN task = Tasks /\ task[t].file.fits
  BY <1>2, <1>3, StartedTask DEF LoadInv, MemInv, TaskType, Usual
<1>5. task' = [task EXCEPT ![t].at = "load"]
  BY <1>2, <1>4 DEF ReadHeader
<1>6. task'[t].h = h /\ task'[t].at = "load" /\ task'[t].record = task[t].record
  BY <1>4, <1>5 DEF Started
<1>7. DOMAIN e = Fields /\ e.state = "saveElfHeader" /\ NotGrown(e) /\ e.iterator = 0 /\ Asked(h, task[t].record)
  BY <1>2, <1>3 DEF Entry, Fits, Good
<1>8. eTable'[h].state = "saveElfHeader" /\ NotGrown(eTable'[h]) /\ eTable'[h].iterator = 0
  <2> DEFINE f == WithHeader(e, task[t].file)
  <2>1. f.file.fits /\ f.state = "saveElfHeader" /\ DOMAIN f = Fields /\ NotGrown(f) /\ f.iterator = 0
    BY <1>4, <1>7 DEF WithHeader, Fields, NotGrown
  <2>2. eTable'[h] \in {f, [f EXCEPT !.state = "saveElfHeader"]}
    <3>1. \E p \in {f, [f EXCEPT !.state = "saveElfHeader"]} : eTable' = [eTable EXCEPT ![h] = p]
      BY <1>2, <2>1 DEF ReadHeader, Probed
    <3> QED BY <1>3, <3>1
  <2> HIDE DEF f
  <2> QED BY <2>1, <2>2 DEF NotGrown, Fields
<1>9. Stage(h, eTable'[h], heap', task'[t].record, cache', task'[t].kind)
  BY <1>8 DEF Stage
<1>10. Good(task'[t], eTable'[task'[t].h], heap', cache')
  BY <1>6, <1>7, <1>9 DEF Good
<1>11. CacheServes /\ CacheInv' /\ NoExit' /\ Clean'
  BY <1>2, CacheSame DEF LoadInv, NoExit, Clean
<1> QED BY <1>1, <1>10, <1>11, GoodFrame

LEMMA LoadedLoad ==
    ASSUME LoadInv, NEW t \in Tasks, Load(t),
           {"unusual", "exhausted", "unassigned"} \cap Allowed = {}
    PROVE  LoadInv'
<1> DEFINE h   == task[t].h
           e   == eTable[h]
           rec == task[t].record
           hp  == ReadInto(heap, rec, task[t].file)
<1>1. MemInv' /\ Acts(t) /\ Moves(t)
  BY MemoryLoad, TaskSteps DEF LoadInv, MemInv, Step
<1>2. task[t].at = "load" /\ Status(e) = "EXEC_LOAD_AGAIN" /\ UNCHANGED lmTable
  BY DEF Load
<1>3. /\ h \in Nat /\ h \in DOMAIN eTable /\ Entry(h, e) /\ Fits(task[t], e, heap)
      /\ task[t].file \in Files /\ Usual(task[t].file)
      /\ Good(task[t], e, heap, cache)
  BY <1>2, GoodTask
<1>4. Started(task[t]) /\ DOMAIN task = Tasks
  BY <1>2, StartedTask DEF LoadInv, MemInv, TaskType
<1>5. PICK o \in LoadStep(e, rec, hp) :
          /\ Exhaustible(t, o) /\ KLexecLoad(h, o)
          /\ task' = [task EXCEPT ![t].record = o.record]
  BY DEF Load
<1>6. /\ e.file = task[t].file /\ RecordOf(h, rec) /\ Asked(h, rec)
      /\ Stage(h, e, heap, rec, cache, task[t].kind) /\ Owns(h, e, hp)
  BY <1>2, <1>3, ReadIntoIs DEF Fits, Good, Owns
<1>7. /\ ~ (o.e.state = "elfInvalid" /\ o.e.sectionData \in {NIL, GARBAGE})
      /\ o.e.state = "elfInvalid" => task[t].kind = "exec"
      /\ ~Unassigned(o.e)
  BY <1>5 DEF Exhaustible
<1>8. /\ eTable'[h] = o.e /\ heap' = o.heap /\ cache' = o.cache /\ stray' = (stray \/ o.stray)
      /\ task'[t].h = h /\ task'[t].at = "load" /\ task'[t].kind = task[t].kind
      /\ task'[t].record = o.record
  BY <1>2, <1>3, <1>4, <1>5 DEF KLexecLoad, Started
<1> HIDE DEF hp, rec, e, h
<1>9. Advances(h, e, o, task[t].kind)
  BY <1>2, <1>3, <1>6, <1>7, StageWorks DEF LoadInv, hp
<1>10. Good(task'[t], eTable'[task'[t].h], heap', cache')
  BY <1>8, <1>9 DEF Good, Advances
<1>11. CacheServes /\ CacheInv'
  BY <1>3, <1>6, <1>8, <1>9, CacheServesStill DEF LoadInv, Advances
<1>12. NoExit' /\ Clean'
  BY <1>2, <1>8, <1>9 DEF LoadInv, NoExit, Advances, Clean
<1> QED BY <1>1, <1>10, <1>11, <1>12, GoodFrame

LEMMA LoadedEnds ==
    ASSUME LoadInv, NEW t \in Tasks, ReadFails(t) \/ LoopEnds(t), {"unusual", "unread"} \cap Allowed = {}
    PROVE  LoadInv'
<1> DEFINE h   == task[t].h
           e   == eTable[h]
           rec == task[t].record
<1>1. MemInv' /\ Acts(t) /\ Moves(t)
  BY MemorySameHeap, TaskSteps DEF LoadInv, MemInv, Step
<1>2. task[t].at = "load" /\ UNCHANGED <<heap, eTable, cache, stray, lmTable>>
  BY DEF ReadFails, LoopEnds, execVars
<1>3. Entry(h, e) /\ Stage(h, e, heap, rec, cache, task[t].kind)
  BY <1>2, GoodTask DEF Good
<1>4. Started(task[t]) /\ DOMAIN task = Tasks
  BY <1>2, StartedTask DEF LoadInv, MemInv, TaskType
<1>5. PICK a \in {"close", "loaded"} :
          /\ task' = [task EXCEPT ![t].at = a]
          /\ a = "close" => Arrays(h, e)
          /\ a = "loaded" => Ready(h, e, heap, cache, FALSE)
  <2>1. CASE ReadFails(t)
    <3>1. task' = [task EXCEPT ![t].at = "close"] /\ e.state # "saveElfHeader"
      BY <2>1 DEF ReadFails
    <3>2. Arrays(h, e)
      BY <1>3, <3>1 DEF Stage
    <3> QED BY <3>1, <3>2
  <2>2. CASE LoopEnds(t)
    <3>1. e.state \in {"finalState", "elfInvalid"}
      <4>1. Status(e) # "EXEC_LOAD_AGAIN" /\ e.type = "elf32"
        BY <1>3, <2>2 DEF LoopEnds, Entry
      <4> QED BY <4>1 DEF Status
    <3>2. CASE e.state = "finalState"
      <4>1. Status(e) = "EXEC_LOAD_FINISHED"
        BY <1>3, <3>2 DEF Status, Entry
      <4>2. task' = [task EXCEPT ![t].at = "loaded"]
        BY <2>2, <4>1 DEF LoopEnds
      <4>3. Ready(h, e, heap, cache, FALSE)
        BY <1>3, <3>2 DEF Stage
      <4> QED BY <4>2, <4>3
    <3>3. CASE e.state = "elfInvalid"
      <4>1. Status(e) = "EXEC_LOAD_ERROR" /\ task[t].kind = "exec"
        BY <1>3, <3>3 DEF Status, Entry, Stage
      <4>2. task' = [task EXCEPT ![t].at = "close"]
        BY <2>2, <4>1 DEF LoopEnds
      <4>3. Arrays(h, e)
        BY <1>3, <3>3 DEF Stage
      <4> QED BY <4>2, <4>3
    <3> QED BY <3>1, <3>2, <3>3
  <2> QED BY <2>1, <2>2
<1>6. task'[t].h = h /\ task'[t].at = a
  BY <1>4, <1>5 DEF Started
<1>7. Good(task'[t], eTable'[task'[t].h], heap', cache')
  BY <1>2, <1>5, <1>6 DEF Good
<1>8. CacheServes /\ CacheInv' /\ NoExit' /\ Clean'
  BY <1>2, CacheSame DEF LoadInv, NoExit, Clean
<1> QED BY <1>1, <1>7, <1>8, GoodFrame

(* Linking fills in the words that were left out, and nothing else. *)
LEMMA LinkedIs ==
    ASSUME NEW h \in Nat, NEW e, e.file \in Files, Usual(e.file), CacheInv,
           Ready(h, e, heap, cache, FALSE), Clean,
           NEW names, names = Externals(e.file), KLexecSetSymbols(e, names)
    PROVE  Ready(h, e, heap', cache, TRUE) /\ Clean'
<1> DEFINE n == Cardinality(Indexes(e))
           k == cache.text
           b == <<h, k>>
           linked == \E r \in DOMAIN e.file.rels :
                        e.file.rels[r] \in names /\ Undefined(e, e.file.rels[r])
<1>1. /\ SymTabIsOwn(e)
      /\ HasNoRelocations(e) \/ RelocTableIsOwn(e)
      /\ \A r \in DOMAIN e.file.rels : ~HasNoRelocations(e) /\ e.file.rels # << >>
      /\ e.file.rels # << >> =>
            /\ IsLoaded(e, k, "text") /\ k \in Indexes(e)
            /\ ShSize(e, k) > 0 /\ Kind(e, k) = "text"
  BY OwnTables DEF Ready
<1>2. \A r \in DOMAIN e.file.rels : e.file.rels[r] \in DOMAIN e.file.symbols
  <2>1. WellFormed(e.file)
    OBVIOUS
  <2> QED BY <2>1 DEF WellFormed
<1>3. \A r \in DOMAIN e.file.rels : Undefined(e, e.file.rels[r]) => e.file.rels[r] \in names
  BY <1>2 DEF Undefined, Externals
<1>4. linked => SymTabIsOwn(e) /\ RelocTableIsOwn(e) /\ IsLoaded(e, k, "text")
  BY <1>1
<1>5. /\ Clean'
      /\ heap' = IF linked THEN linkToExternalReference(e, names) ELSE heap
  BY <1>1, <1>4 DEF KLexecSetSymbols, Clean
<1> HIDE DEF linked
<1>6. CASE ~linked
  <2>1. \A r \in DOMAIN e.file.rels : ~Undefined(e, e.file.rels[r])
    BY <1>3, <1>6 DEF linked
  <2>2. SymbolsIn(heap, e, TRUE)
    BY <2>1 DEF Ready, SymbolsIn
  <2> QED BY <1>5, <1>6, <2>2 DEF Ready
<1>7. CASE linked
  <2>1. /\ IsLoaded(e, k, "text") /\ k \in Indexes(e)
        /\ ShSize(e, k) > 0 /\ Kind(e, k) = "text"
    BY <1>1, <1>7 DEF linked
  <2>2. Holds(h, e, heap, NIL, k)
    BY <2>1, IndexesAre DEF Filled, Wanted, Ready
  <2>3. Data(e, k) = b /\ e.data[k] = b /\ b \in DOMAIN heap /\ DOMAIN heap[b] = {"size", "holds", "words"}
    BY <2>1, <2>2 DEF Holds, Data, Arrays, Ready
  <2> DEFINE words == [r \in DOMAIN e.file.rels |->
                          IF e.file.rels[r] \in names /\ Undefined(e, e.file.rels[r])
                          THEN <<"external", e.file.rels[r]>> ELSE heap[b].words[r]]
  <2>4. heap' = [heap EXCEPT ![b].words = words]
    BY <1>5, <1>7, <2>3 DEF linkToExternalReference
  <2> HIDE DEF b, words
  <2>5. /\ DOMAIN heap' = DOMAIN heap /\ heap'[b].words = words
        /\ \A c \in DOMAIN heap : c # b => heap'[c] = heap[c]
        /\ DOMAIN heap'[b] = DOMAIN heap[b] /\ heap'[b].size = heap[b].size /\ heap'[b].holds = heap[b].holds
    BY <2>3, <2>4
  <2>6. ASSUME NEW i, Holds(h, e, heap, NIL, i) PROVE Holds(h, e, heap', NIL, i)
    <3>1. CASE <<h, i>> = b
      BY <2>5, <2>6, <3>1 DEF Holds
    <3>2. CASE <<h, i>> # b
      BY <2>5, <2>6, <3>2 DEF Holds
    <3> QED BY <3>1, <3>2
  <2>7. Filled(h, e, heap', NIL, n)
    BY <2>6 DEF Filled, Ready
  <2>8. ASSUME NEW i \in Indexes(e), Kind(e, i) = "text", ShSize(e, i) > 0, NEW r \in DOMAIN e.file.rels
        PROVE  heap'[e.data[i]].words[r] =
                   IF ~Undefined(e, e.file.rels[r]) THEN Data(e, Defined(e, e.file.rels[r]))
                   ELSE <<"external", e.file.rels[r]>>
    <3>1. i = k
      <4>1. i < n
        BY IndexesAre
      <4> QED BY <2>8, <4>1 DEF AllCached, CachedIn, Ready
    <3>2. heap'[e.data[i]].words = words
      BY <2>3, <2>5, <3>1
    <3>3. ~Undefined(e, e.file.rels[r]) => heap[e.data[i]].words[r] = Data(e, Defined(e, e.file.rels[r]))
      BY <2>8 DEF Ready, SymbolsIn
    <3>4. heap[e.data[i]] = heap[b]
      BY <2>3, <3>1
    <3> QED BY <1>3, <3>2, <3>3, <3>4 DEF words
  <2>9. SymbolsIn(heap', e, TRUE)
    BY <2>8 DEF SymbolsIn
  <2> QED BY <1>5, <2>7, <2>9 DEF Ready
<1> QED BY <1>6, <1>7

LEMMA LoadedLink ==
    ASSUME LoadInv, NEW t \in Tasks, Link(t), "unusual" \notin Allowed
    PROVE  LoadInv'
<1> DEFINE h == task[t].h
           e == eTable[h]
<1>1. MemInv' /\ Acts(t) /\ Moves(t)
  BY MemoryLink, TaskSteps DEF LoadInv, MemInv, Step
<1>2. /\ task[t].at = "loaded" /\ UNCHANGED <<eTable, cache, lmTable>>
      /\ KLexecSetSymbols(e, Externals(task[t].file))
      /\ task' = [task EXCEPT ![t].at = "linked"]
  BY DEF Link, KLexecSetSymbols
<1>3. /\ h \in Nat /\ e.file = task[t].file /\ e.file \in Files /\ Usual(e.file)
      /\ Ready(h, e, heap, cache, FALSE)
  BY <1>2, GoodTask DEF Good, Fits
<1>4. Ready(h, e, heap', cache, TRUE) /\ Clean'
  BY <1>2, <1>3, LinkedIs DEF LoadInv
<1>5. Started(task[t]) /\ DOMAIN task = Tasks
  BY <1>2, StartedTask DEF LoadInv, MemInv, TaskType
<1>6. task'[t].h = h /\ task'[t].at = "linked"
  BY <1>2, <1>5 DEF Started
<1>7. Good(task'[t], eTable'[task'[t].h], heap', cache')
  BY <1>2, <1>4, <1>6 DEF Good
<1>8. CacheServes /\ CacheInv' /\ NoExit'
  BY <1>2, CacheSame DEF LoadInv, NoExit
<1> QED BY <1>1, <1>4, <1>7, <1>8, GoodFrame

LEMMA LoadedRest ==
    ASSUME LoadInv, NEW t \in Tasks,
           Register(t) \/ \E recent \in BOOLEAN : NotAModule(t, recent), "unusual" \notin Allowed
    PROVE  LoadInv'
<1> DEFINE h == task[t].h
           e == eTable[h]
<1>1. MemInv' /\ Acts(t) /\ Moves(t)
  BY MemorySameHeap, TaskSteps DEF LoadInv, MemInv, Step
<1>2. task[t].at = "loaded" /\ UNCHANGED <<heap, eTable, cache>>
  BY DEF Register, NotAModule, execVars
<1>3. /\ h \in Nat /\ e.file = task[t].file /\ e.file \in Files /\ Usual(e.file)
      /\ Ready(h, e, heap, cache, FALSE)
  BY <1>2, GoodTask DEF Good, Fits
<1>4. Started(task[t]) /\ DOMAIN task = Tasks
  BY <1>2, StartedTask DEF LoadInv, MemInv, TaskType
<1>5. SymTabIsOwn(e)
  BY <1>3, OwnTables DEF Ready, LoadInv
<1>6. Clean'
  BY <1>5 DEF Register, NotAModule, execVars, LoadInv, Clean
<1>7. \/ task'[t].at = "close" /\ task'[t].h = h
      \/ task'[t].at = "init" /\ task'[t].h = h
  <2>1. CASE Register(t)
    BY <1>4, <2>1 DEF Register
  <2>2. CASE \E recent \in BOOLEAN : NotAModule(t, recent)
    <3>1. task' = [task EXCEPT ![t].at = "close"]
      BY <2>2 DEF NotAModule
    <3> QED BY <1>4, <3>1 DEF Started
  <2> QED BY <2>1, <2>2
<1>8. Good(task'[t], eTable'[task'[t].h], heap', cache')
  BY <1>2, <1>3, <1>7 DEF Good, Ready
<1>9. NoExit'
  <2>1. CASE Register(t)
    <3> DEFINE id == Lowest(FreeModules)
               entry == KLexecSymbols(e, Optional)
    <3>1. lmTable' = [lmTable EXCEPT ![id].entry = entry]
      BY <2>1 DEF Register
    <3>2. entry["LMunInit"] = NIL
      <4>1. "LMunInit" \notin DOMAIN e.file.symbols
        BY <1>3 DEF Usual
      <4> QED BY <4>1 DEF KLexecSymbols, Optional, ELFsearchSymbol
    <3> HIDE DEF id, entry
    <3> QED BY <3>1, <3>2 DEF LoadInv, NoExit
  <2>2. CASE \E recent \in BOOLEAN : NotAModule(t, recent)
    BY <2>2 DEF NotAModule, LoadInv, NoExit
  <2> QED BY <2>1, <2>2
<1>10. CacheServes /\ CacheInv'
  BY <1>2, CacheSame DEF LoadInv
<1> QED BY <1>1, <1>6, <1>8, <1>9, <1>10, GoodFrame

LEMMA LoadedClose ==
    ASSUME LoadInv, NEW t \in Tasks,
           Close(t) \/ \E success \in BOOLEAN : Initialised(t, success), "unusual" \notin Allowed
    PROVE  LoadInv'
<1> DEFINE h == task[t].h
           e == eTable[h]
<1>1. MemInv' /\ Acts(t) /\ Moves(t)
  BY MemoryClose, TaskSteps DEF LoadInv, MemInv, Step
<1>2. /\ task[t].at \in {"close", "linked", "init"} /\ KLexecClose(h) /\ UNCHANGED cache
      /\ task' = [task EXCEPT ![t] = Idle]
  BY DEF Close, Initialised, KLexecClose
<1>3. h \in Nat /\ Arrays(h, e)
  BY <1>2, GoodTask DEF Good, Ready
<1>4. Clean'
  <2>1. e.sectionData \notin {GARBAGE, NIL}
    <3>1. <<h, POINTERS>> \in Int \X Int
      BY <1>3 DEF POINTERS
    <3> QED BY <1>3, <3>1 DEF Arrays
  <2>2. ELFclose(e).stray = FALSE
    BY <2>1 DEF ELFclose
  <2> QED BY <1>2, <2>2 DEF KLexecClose, LoadInv, Clean
<1>5. NoExit'
  <2>1. \/ lmTable' = lmTable
        \/ lmTable' = [lmTable EXCEPT ![task[t].id].usage = @ + 1]
    BY DEF Close, Initialised
  <2> QED BY <2>1 DEF LoadInv, NoExit
<1>6. t \notin Busy'
  BY <1>2 DEF LoadInv, MemInv, TaskType, Busy
<1>7. CacheServes /\ CacheInv'
  BY <1>2, CacheSame DEF LoadInv
<1> QED BY <1>1, <1>4, <1>5, <1>6, <1>7, GoodFrame

LEMMA LoadedTables ==
    ASSUME LoadInv,
           \/ \E n \in TableSizes : ExecTable(n) \/ LMlibInit(n)
           \/ LMlibUninit
           \/ \E id \in DOMAIN lmTable : LMunload(id)
           \/ UNCHANGED vars
    PROVE  LoadInv'
<1>1. MemInv'
  BY MemoryTables DEF LoadInv
<1>2. UNCHANGED <<heap, task, cache>> /\ Busy' = Busy
  BY DEF ExecTable, LMlibInit, LMlibUninit, LMunload, vars, execVars, Busy
<1>3. UNCHANGED eTable \/ Busy = {}
  BY DEF ExecTable, LMlibInit, LMlibUninit, LMunload, vars, execVars, KLexecInit, LoadInv, MemInv, NoTable
<1>4. \A t \in Busy' : Good(task'[t], eTable'[task'[t].h], heap', cache')
  BY <1>2, <1>3 DEF LoadInv
<1>5. NoExit'
  <2>1. ASSUME NEW n, LMlibInit(n) PROVE NoExit'
    BY <2>1 DEF LMlibInit, NoExit, NoEntries, Optional
  <2>2. ASSUME LMlibUninit PROVE NoExit'
    BY <2>2 DEF LMlibUninit, NoExit, NoTable
  <2>3. ASSUME NEW id, LMunload(id) PROVE NoExit'
    BY <2>3 DEF LMunload, LoadInv, NoExit
  <2>4. ASSUME UNCHANGED lmTable PROVE NoExit'
    BY <2>4 DEF LoadInv, NoExit
  <2> QED BY <2>1, <2>2, <2>3, <2>4 DEF ExecTable, vars
<1>6. Clean'
  BY DEF ExecTable, LMlibInit, LMlibUninit, LMunload, vars, execVars, LoadInv, NoExit, Clean
<1>7. CacheInv'
  BY <1>2 DEF LoadInv, CacheInv
<1> QED BY <1>1, <1>4, <1>5, <1>6, <1>7 DEF LoadInv

LEMMA LoadedBegins == ASSUME Init PROVE LoadInv
<1>1. MemInv /\ Busy = {}
  BY MemoryBegins DEF Init, Busy
<1>2. CacheInv /\ NoExit /\ Clean
  BY DEF Init, ExecInit, CacheInv, NoExit, NoTable, Clean
<1> QED BY <1>1, <1>2 DEF LoadInv

LEMMA LoadedIsKept ==
    ASSUME LoadInv, [Next]_vars, {"unusual", "unread", "exhausted", "unassigned"} \cap Allowed = {}
    PROVE  LoadInv'
<1>1. ASSUME NEW t \in Tasks, Step(t) PROVE LoadInv'
  BY <1>1, LoadedOpen, LoadedHeader, LoadedLoad, LoadedEnds, LoadedLink, LoadedRest, LoadedClose DEF Step
<1>2. CASE \/ \E n \in TableSizes : ExecTable(n) \/ LMlibInit(n)
           \/ LMlibUninit
           \/ \E id \in DOMAIN lmTable : LMunload(id)
           \/ UNCHANGED vars
  BY <1>2, LoadedTables
<1> QED BY <1>1, <1>2 DEF Next

LEMMA LoadedSuffices ==
    ASSUME LoadInv, "unusual" \notin Allowed
    PROVE  LoadedIsOwn /\ ("full" \notin Allowed => NoStrayAccess)
<1>1. ASSUME NEW t \in Busy, task[t].at \in {"loaded", "linked", "init"}
      PROVE  LET e == eTable[task[t].h]
             IN  /\ e.state = "finalState"
                 /\ HasOwnSections(e)
                 /\ HasOwnSymbols(e, task[t].at = "linked")
  <2> DEFINE h == task[t].h
             e == eTable[h]
  <2>1. t \in Tasks
    BY DEF Busy
  <2>2. Ready(h, e, heap, cache, task[t].at = "linked") /\ e.file \in Files /\ h \in Nat
    BY <1>1, <2>1, GoodTask DEF Good, Fits
  <2> HIDE DEF h, e
  <2>3. HasOwnSections(e)
    <3>1. ASSUME NEW i \in Indexes(e), Wanted(e, i)
          PROVE  /\ e.data[i] \in DOMAIN heap
                 /\ heap[e.data[i]].size >= ShSize(e, i)
                 /\ Kind(e, i) # "bss" => heap[e.data[i]].holds = <<e.file, i>>
      <4>1. i < Cardinality(Indexes(e)) /\ <<h, i>> \in Int \X Int
        BY <2>2, IndexesAre
      <4>2. Holds(h, e, heap, NIL, i)
        BY <2>2, <3>1, <4>1 DEF Ready, Filled
      <4> QED BY <4>1, <4>2 DEF Holds
    <3> QED BY <3>1 DEF HasOwnSections, Wanted
  <2>4. HasOwnSymbols(e, task[t].at = "linked")
    BY <2>2 DEF Ready, SymbolsIn, HasOwnSymbols
  <2>5. e.state = "finalState"
    BY <2>2 DEF Ready
  <2> QED BY <2>3, <2>4, <2>5 DEF h, e
<1>2. LoadedIsOwn
  BY <1>1 DEF LoadedIsOwn
<1>3. "full" \notin Allowed => NoStrayAccess
  BY DEF LoadInv, NoStrayAccess, Clean
<1> QED BY <1>2, <1>3

(* However loads interleave, an executable that was loaded has the content   *)
(* of each of its own sections, in a block that is large enough, and its     *)
(* code refers to its own symbols, although the indexes of sections are kept *)
(* in variables of the library: this is so for files of the usual layout, of *)
(* any number of sections and symbols, if reads do not fail where they are   *)
(* not handled, the arrays of a file can be allocated, and there is memory   *)
(* for symbols that are in no section (loader.c does not look whether there  *)
(* was).  It is so also where tables are full.                             *)
THEOREM FilesAreLoaded ==
    ASSUME {"unusual", "unread", "exhausted", "unassigned"} \cap Allowed = {}
    PROVE  Spec => []LoadedIsOwn
<1>1. Init => LoadInv
  BY LoadedBegins
<1>2. LoadInv /\ [Next]_vars => LoadInv'
  BY LoadedIsKept
<1>3. LoadInv => LoadedIsOwn
  BY LoadedSuffices
<1> QED BY <1>1, <1>2, <1>3, PTL DEF Spec

(* Under the same conditions, and if nothing is opened or registered while   *)
(* the table for it is full (KLexecOpen and LMloadModule search behind its   *)
(* end), the libraries use no pointer and no index that is not what they     *)
(* take it for.                                                            *)
THEOREM PointersAreOwn ==
    ASSUME {"unusual", "unread", "exhausted", "unassigned", "full"} \cap Allowed = {}
    PROVE  Spec => []NoStrayAccess
<1>1. Init => LoadInv
  BY LoadedBegins
<1>2. LoadInv /\ [Next]_vars => LoadInv'
  BY LoadedIsKept
<1>3. LoadInv => NoStrayAccess
  BY LoadedSuffices
<1> QED BY <1>1, <1>2, <1>3, PTL DEF Spec
=============================================================================
