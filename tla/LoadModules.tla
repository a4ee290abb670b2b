----------------------------- MODULE LoadModules ----------------------------
(***************************************************************************)
(* Tasks that use the executable loader: directly, as LoaderTester.c does  *)
(* (`exec'), or through the library for loadable modules (development/LM,  *)
(* `lm').  A step is a call of a library, with the read of the file that   *)
(* precedes it; a task waits for its file, and others run meanwhile.       *)
(*                                                                         *)
(* Allowed names the situations in which the libraries fail:               *)
(*   unusual     files other than Usual                                   *)
(*   unread      LMload cannot read its file                               *)
(*   exhausted   no memory for the arrays of a file, or for LMload         *)
(*   unassigned  no memory for symbols that are in no section              *)
(*   full        a file is opened while every executable is in use, or     *)
(*               there is no table, or a module is registered while every  *)
(*               place is taken                                            *)
(*   nested      a module is registered while the LMinit of another runs   *)
(***************************************************************************)
EXTENDS ExecLoader

CONSTANTS Tasks, Files,
          UsualLayout,      (* where sections are in most files           *)
          TableSizes,       (* sizes that the tables are initialised with *)
          Allowed

ASSUME LoadAssumption ==
    /\ \A file \in Files : WellFormed(file)
    /\ TableSizes \subseteq Nat \ {0}

VARIABLES
    task,       (* the tasks: what they do next and with which executable  *)
    lmTable     (* _lmTable: usage and entry points, or NoTable            *)

vars == <<execVars, task, lmTable>>

Mandatory == "lmDescription"
Optional  == {"LMinit", "LMunInit", "LMprobe"}

Idle == [at |-> "idle"]

Init ==
    /\ ExecInit
    /\ task = [t \in Tasks |-> Idle]
    /\ lmTable = NoTable

Busy == { t \in Tasks : task[t] # Idle }

(* Where the variables of the library point in a file. *)
Layout(file) ==
    { p \in {"text", "bss", "symtab", "rel"} \X DOMAIN file.section :
          file.section[p[2]].kind = p[1] }

Common(file) == { n \in DOMAIN file.symbols : file.symbols[n] = SHN_COMMON }

Sections(file, kind) == { i \in DOMAIN file.section : file.section[i].kind = kind }

(* The files that the libraries can handle: for this machine, because one    *)
(* that is rejected is closed before its arrays are there; all with the same *)
(* indexes of the sections of interest, of which there is one each; with     *)
(* symbols, and code where there are relocations; the last section is        *)
(* loaded; the block of uninitialised data, which has the size of the last   *)
(* request, that for the section before, is large enough, and no common      *)
(* symbols join it; modules without LMunInit, which would be called when it  *)
(* is no longer in memory.                                                 *)
Usual(file) ==
    /\ file.fits
    /\ Layout(file) = UsualLayout
    /\ \A kind \in {"text", "bss", "symtab", "rel"} :
          \A i, j \in Sections(file, kind) : i = j
    /\ Sections(file, "bss") # {}
    /\ \A kind \in {"symtab", "strtab"} :
          \E i \in Sections(file, kind) : file.section[i].size > 0
    /\ file.rels # << >> => \E i \in Sections(file, "text") : file.section[i].size > 0
    /\ ~PassedOver(file.section[Cardinality(DOMAIN file.section) - 1].kind)
    /\ \A i \in Sections(file, "bss") :
          file.section[i].size > 0 =>
              /\ i - 1 \in DOMAIN file.section
              /\ file.section[i - 1].kind # "null"
              /\ ~PassedOver(file.section[i - 1].kind)
              /\ file.section[i].size <= file.section[i - 1].size
              /\ Common(file) = {}
    /\ "LMunInit" \notin DOMAIN file.symbols

Loadable(file) == "unusual" \in Allowed \/ Usual(file)

-----------------------------------------------------------------------------
(* The tables. *)
ExecTable(n) ==
    /\ lmTable = NoTable /\ Busy = {}
    /\ IF eTable = NoTable THEN KLexecInit(n) ELSE KLexecUnInit
    /\ UNCHANGED <<heap, cache, stray, task, lmTable>>

NoEntries == [usage |-> 0, entry |-> [n \in Optional |-> NIL]]

LMlibInit(n) ==
    /\ lmTable = NoTable
    /\ lmTable' = [id \in 0 .. n - 1 |-> NoEntries]
    /\ KLexecInit(n)
    /\ UNCHANGED <<heap, cache, stray, task>>

LMlibUninit ==
    /\ lmTable # NoTable
    /\ \A t \in Busy : task[t].kind # "lm"
    /\ lmTable' = NoTable
    /\ UNCHANGED <<execVars, task>>

-----------------------------------------------------------------------------
(* Opening and reading the header. *)
Open(t, kind, file) ==
    /\ task[t] = Idle
    /\ kind = "lm" => lmTable # NoTable
    /\ Loadable(file)
    /\ IF Vacant(eTable) = {}
       THEN "full" \in Allowed /\ NoMoreExecs /\ UNCHANGED task
       ELSE \E h \in Handles :
              /\ KLexecOpen(h)
              /\ task' = [task EXCEPT ![t] =
                    [at |-> "header", kind |-> kind, file |-> file, h |-> h,
                     record |-> Request(<<h, HEADER>>, 1, HEADER)]]
    /\ UNCHANGED lmTable

(* LMload and some callers probe; LMload leaves the executable open when    *)
(* the header cannot be read.                                              *)
ReadHeader(t, probing, read) ==
    /\ task[t].at = "header"
    /\ IF read
       THEN /\ task[t].kind = "lm" => probing
            /\ LET e == WithHeader(eTable[task[t].h], task[t].file)
               IN  \E probed \in IF probing THEN Probed(e) ELSE {e} :
                     eTable' = [eTable EXCEPT ![task[t].h] = probed]
            /\ task' = [task EXCEPT ![t].at =
                    IF probing /\ ~task[t].file.fits THEN "close" ELSE "load"]
       ELSE /\ "unread" \in Allowed /\ task[t].kind = "lm"
            /\ task' = [task EXCEPT ![t] = Idle]
            /\ UNCHANGED eTable
    /\ UNCHANGED <<heap, cache, stray, lmTable>>

-----------------------------------------------------------------------------
(* The loop: read what was asked for, call KLexecLoad. *)
Exhaustible(t, outcome) ==
    /\ outcome.e.state = "elfInvalid" =>
          \/ "exhausted" \in Allowed
          \/ task[t].kind = "exec" /\ outcome.e.sectionData \notin {NIL, GARBAGE}
    /\ Unassigned(outcome.e) => "unassigned" \in Allowed

Load(t) ==
    /\ task[t].at = "load"
    /\ LET h   == task[t].h
           e   == eTable[h]
           rec == task[t].record
       IN  /\ Status(e) = "EXEC_LOAD_AGAIN"
           /\ \E outcome \in LoadStep(e, rec, ReadInto(heap, rec, task[t].file)) :
                 /\ Exhaustible(t, outcome)
                 /\ KLexecLoad(h, outcome)
                 /\ task' = [task EXCEPT ![t].record = outcome.record]
    /\ UNCHANGED lmTable

(* A read in the loop fails: LMload goes on as if all were loaded. *)
ReadFails(t) ==
    /\ task[t].at = "load"
    /\ Status(eTable[task[t].h]) = "EXEC_LOAD_AGAIN"
    /\ task[t].record.buffer # NIL
    /\ eTable[task[t].h].state # "saveElfHeader"
    /\ task[t].kind = "exec" \/ "unread" \in Allowed
    /\ task' = [task EXCEPT ![t].at = IF task[t].kind = "exec" THEN "close" ELSE "loaded"]
    /\ UNCHANGED <<execVars, lmTable>>

LoopEnds(t) ==
    /\ task[t].at = "load"
    /\ Status(eTable[task[t].h]) # "EXEC_LOAD_AGAIN"
    /\ task' = [task EXCEPT ![t].at =
          IF task[t].kind = "exec" /\ Status(eTable[task[t].h]) # "EXEC_LOAD_FINISHED"
          THEN "close" ELSE "loaded"]
    /\ UNCHANGED <<execVars, lmTable>>

-----------------------------------------------------------------------------
(* An executable in use: its undefined symbols are linked. *)
Externals(file) == { n \in DOMAIN file.symbols : file.symbols[n] = SHN_UNDEF }

Link(t) ==
    /\ task[t].at = "loaded" /\ task[t].kind = "exec"
    /\ KLexecSetSymbols(eTable[task[t].h], Externals(task[t].file))
    /\ task' = [task EXCEPT ![t].at = "linked"]
    /\ UNCHANGED lmTable

Close(t) ==
    /\ task[t].at \in {"close", "linked"}
    /\ KLexecClose(task[t].h)
    /\ task' = [task EXCEPT ![t] = Idle]
    /\ UNCHANGED lmTable

-----------------------------------------------------------------------------
(* The rest of LMload. *)
(* Mutation: a place is free when no more than one module is in it. *)
FreeModules_One == { id \in DOMAIN lmTable : lmTable[id].usage <= 1 }

FreeModules == { id \in DOMAIN lmTable : lmTable[id].usage = 0 }

Described(e) == KLexecSymbols(e, {Mandatory})[Mandatory] # NIL

(* Without a description, in a version that is too old, or with no room in   *)
(* the table, behind which the search for a place has then run, the file is  *)
(* closed.  The module chooses how it was compiled.                         *)
NotAModule(t, recent) ==
    /\ task[t].at = "loaded" /\ task[t].kind = "lm"
    /\ LET e == eTable[task[t].h]
           full == SymTabIsOwn(e) /\ Described(e) /\ recent
       IN  /\ full => FreeModules = {} /\ "full" \in Allowed
           /\ stray' = (stray \/ ~SymTabIsOwn(e) \/ full)
    /\ task' = [task EXCEPT ![t].at = "close"]
    /\ UNCHANGED <<heap, eTable, cache, lmTable>>

(* The entry points are filled in, and LMinit is called if there is one.     *)
Register(t) ==
    /\ task[t].at = "loaded" /\ task[t].kind = "lm"
    /\ "nested" \in Allowed \/ \A u \in Busy : task[u].at # "init"
    /\ LET e  == eTable[task[t].h]
           id == Lowest(FreeModules)
       IN  /\ SymTabIsOwn(e) /\ Described(e)
           /\ FreeModules # {}
           /\ lmTable' = [lmTable EXCEPT ![id].entry = KLexecSymbols(e, Optional)]
           /\ task' = [task EXCEPT ![t] = [at |-> "init", kind |-> "lm", file |-> @.file,
                                           h |-> @.h, id |-> id]]
    /\ UNCHANGED execVars

(* LMinit returns, or there is none.  The executable is closed in any case.  *)
Initialised(t, success) ==
    /\ task[t].at = "init"
    /\ LET id == task[t].id
       IN  /\ lmTable[id].entry["LMinit"] = NIL => success
           /\ lmTable' = IF success THEN [lmTable EXCEPT ![id].usage = @ + 1] ELSE lmTable
    /\ KLexecClose(task[t].h)
    /\ task' = [task EXCEPT ![t] = Idle]

(* LMunInit is called at the address where it was when it was loaded.        *)
LMunload(id) ==
    /\ lmTable[id].usage > 0
    /\ lmTable' = [lmTable EXCEPT ![id].usage = @ - 1]
    /\ stray' = (stray \/ lmTable[id].entry["LMunInit"] # NIL)
    /\ UNCHANGED <<heap, eTable, cache, task>>

-----------------------------------------------------------------------------
Step(t) ==
    \/ \E kind \in {"exec", "lm"}, file \in Files : Open(t, kind, file)
    \/ \E probing, read \in BOOLEAN : ReadHeader(t, probing, read)
    \/ Load(t)
    \/ ReadFails(t)
    \/ LoopEnds(t)
    \/ Link(t)
    \/ Close(t)
    \/ \E recent \in BOOLEAN : NotAModule(t, recent)
    \/ Register(t)
    \/ \E success \in BOOLEAN : Initialised(t, success)

Next ==
    \/ \E n \in TableSizes : ExecTable(n) \/ LMlibInit(n)
    \/ LMlibUninit
    \/ \E t \in Tasks : Step(t)
    \/ lmTable # NoTable /\ \E id \in DOMAIN lmTable : LMunload(id)

Spec == Init /\ [][Next]_vars

-----------------------------------------------------------------------------
(* The libraries use no pointer and no index that is not what they take it  *)
(* for: sections of their own file, memory that is allocated, arrays that   *)
(* have been read.                                                         *)
NoStrayAccess == ~stray

Blocks(e) ==
    ({e.exec, e.section, e.sectionData} \cup { e.data[i] : i \in DOMAIN e.data })
        \ {NIL, GARBAGE}

(* Whatever fails, and however loads interleave, memory belongs to the       *)
(* executables of tasks in progress: closing frees all of one's own blocks   *)
(* and no other's.                                                         *)
MemoryIsHeld ==
    /\ DOMAIN heap = UNION { Blocks(eTable[task[t].h]) : t \in Busy }
    /\ \A t, u \in Busy : t # u =>
          Blocks(eTable[task[t].h]) \cap Blocks(eTable[task[u].h]) = {}

(* An executable that was loaded has the content of each of its own         *)
(* sections, in a block that is large enough, and its code refers to the     *)
(* symbols where they are in memory; what was undefined refers to what the   *)
(* caller has given.                                                       *)
HasOwnSections(e) ==
    \A i \in Indexes(e) :
        Kind(e, i) \notin {"null", "aux", "stab"} /\ ShSize(e, i) > 0 =>
            /\ e.data[i] \in DOMAIN heap
            /\ heap[e.data[i]].size >= ShSize(e, i)
            /\ Kind(e, i) # "bss" => heap[e.data[i]].holds = <<e.file, i>>

HasOwnSymbols(e, linked) ==
    \A i \in Indexes(e) : Kind(e, i) = "text" /\ ShSize(e, i) > 0 =>
        \A r \in DOMAIN e.file.rels :
            LET name == e.file.rels[r]
            IN  heap[e.data[i]].words[r] =
                    IF ~Undefined(e, name) THEN Data(e, Defined(e, name))
                    ELSE IF linked THEN <<"external", name>> ELSE GARBAGE

LoadedIsOwn ==
    \A t \in Busy :
        LET e == eTable[task[t].h]
        IN  task[t].at \in {"loaded", "linked", "init"} =>
                /\ e.state = "finalState"
                /\ HasOwnSections(e)
                /\ HasOwnSymbols(e, task[t].at = "linked")

(* A place in the table of modules is taken by one module, also while LMinit *)
(* of a module runs that is not counted yet.                               *)
OneModulePerPlace ==
    lmTable # NoTable => \A id \in DOMAIN lmTable :
        lmTable[id].usage + Cardinality({ t \in Busy : task[t].at = "init" /\ task[t].id = id }) <= 1
=============================================================================
