------------------------------ MODULE ExecLoader ----------------------------
(***************************************************************************)
(* The executable loader of the kernel library (development/KL/Exec): a    *)
(* table of executables, and for each the machine that is fed with the     *)
(* parts of an ELF file which it asks for.                                 *)
(*                                                                         *)
(* The indexes of the sections with code, uninitialised data, symbols and  *)
(* relocations are kept in variables of the library, not of the handle:    *)
(* `cache'.  `stray' records that the loader has used a pointer or an      *)
(* index that is not what it takes it for.                                 *)
(*                                                                         *)
(* A file is a record:                                                     *)
(*   fits      it is an ELF file for this machine                          *)
(*   section   from 0, each with its kind and size                         *)
(*   symbols   name -> section, SHN_COMMON, or SHN_UNDEF (without a type)   *)
(*   rels      what .rel.text says: the symbols, in order                  *)
(***************************************************************************)
EXTENDS Integers, Sequences, FiniteSets

CONSTANTS NIL, GARBAGE, NOT_LOADED

(* None of them is the address of a block, and none is an index. *)
ASSUME ValuesAssumption ==
    /\ NIL # GARBAGE
    /\ {NIL, GARBAGE} \cap (Int \X Int) = {}
    /\ NOT_LOADED \notin Int

VARIABLES
    heap,       (* the blocks that are allocated: size and content         *)
    eTable,     (* _eTable: the executables by handle, or NoTable          *)
    cache,      (* _textSection, _bssSection, _symTabSection,              *)
                (* _relocTableSection                                      *)
    stray

execVars == <<heap, eTable, cache, stray>>

-----------------------------------------------------------------------------
(* Memory.  A block is named by the handle and the part of the file that it *)
(* is for: a section, or one of the following.                             *)
HEADER   == -3      (* the entry itself, which has the ELF header          *)
SECTIONS == -2      (* the section headers                                 *)
POINTERS == -1      (* sectionData                                         *)

Block(e, part) == <<e.exec[1], part>>

Allocated(hp, b, size) ==
    [c \in DOMAIN hp \cup {b} |->
        IF c = b THEN [size |-> size, holds |-> GARBAGE, words |-> << >>] ELSE hp[c]]

Freed(hp, blocks) == [b \in DOMAIN hp \ blocks |-> hp[b]]

-----------------------------------------------------------------------------
(* Sections of symbols that are in no section: the second is larger than any *)
(* number of sections.                                                     *)
SHN_UNDEF  == 0
SHN_COMMON == 65522

(* What a file is at least: its section names are in a section of their own, *)
(* its relocations are of its own symbols and in a section.                 *)
SectionKinds ==
    {"null", "text", "data", "bss", "rel", "symtab", "strtab", "names", "aux", "stab"}

WellFormed(file) ==
    LET n == Cardinality(DOMAIN file.section)
    IN  /\ DOMAIN file.section = 0 .. n - 1 /\ n \in 1 .. SHN_COMMON
        /\ \A i \in DOMAIN file.section :
              file.section[i].kind \in SectionKinds /\ file.section[i].size \in Nat
        /\ \E i \in DOMAIN file.section :
              /\ file.section[i].size > 0
              /\ \A j \in DOMAIN file.section : file.section[j].kind = "names" <=> j = i
        /\ IsFiniteSet(DOMAIN file.symbols)
        /\ \A r \in DOMAIN file.rels :
              /\ file.rels[r] \in DOMAIN file.symbols
              /\ \E i \in DOMAIN file.section :
                    file.section[i].kind = "rel" /\ file.section[i].size > 0

(* An executable. *)
NoTable == << >>

Unused == [exec |-> NIL, type |-> "none"]

NoFile == [fits |-> FALSE, section |-> << >>, symbols |-> << >>, rels |-> << >>]

Indexes(e) == DOMAIN e.file.section

Kind(e, i) == IF i \in Indexes(e) THEN e.file.section[i].kind ELSE "outside"

(* sh_size, which is changed for common symbols. *)
ShSize(e, i) == IF i = e.grown.at THEN e.grown.size ELSE e.file.section[i].size

Data(e, i) == IF i \in DOMAIN e.data THEN e.data[i] ELSE NIL

IsLoaded(e, i, kind) == Kind(e, i) = kind /\ Data(e, i) # NIL

(* The name section, e_shstrndx. *)
NamesIndex(file) == CHOOSE i \in DOMAIN file.section : file.section[i].kind = "names"

(* Sections that are passed over before their size is looked at: those that *)
(* are not part of the program, the names, and what belongs to a debugger. *)
PassedOver(kind) == kind \in {"aux", "names", "stab"}

Opened(block) ==
    [exec |-> block, type |-> "elf32", state |-> "saveElfHeader", iterator |-> 0,
     file |-> NoFile, section |-> GARBAGE, sectionData |-> GARBAGE,
     data |-> << >>, grown |-> [at |-> -1, size |-> 0], common |-> SHN_COMMON]

(* What the caller is to read next, and where to. *)
Request(block, size, part) == [buffer |-> block, size |-> size, part |-> part]
NoData(record) == [record EXCEPT !.buffer = NIL]

-----------------------------------------------------------------------------
(* A result of one call of KLexecLoad. *)
Outcome(e, hp, record, cch, wild) ==
    [e |-> e, heap |-> hp, record |-> record, cache |-> cch, stray |-> wild]

Invalid(e) == [e EXCEPT !.state = "elfInvalid"]

(* Two blocks, either of which may be missing. *)
ELFSectionHeaderProcessing(e, record, hp) ==
    LET n     == Cardinality(Indexes(e))
        first == Block(e, SECTIONS)
        one   == Allocated(hp, first, n)
        asked == Request(first, n, SECTIONS)
    IN  { Outcome(Invalid(e), hp, NoData(asked), cache, FALSE),
          Outcome([Invalid(e) EXCEPT !.section = first, !.sectionData = NIL],
                  one, asked, cache, FALSE),
          Outcome([e EXCEPT !.section = first, !.sectionData = Block(e, POINTERS),
                            !.data = [i \in Indexes(e) |-> NIL],
                            !.state = "elfSectionNames"],
                  Allocated(one, Block(e, POINTERS), n), asked, cache, FALSE) }

ELFSectionNamesProcessing(e, record, hp) ==
    LET i     == NamesIndex(e.file)
        asked == Request(Block(e, i), ShSize(e, i), i)
    IN  { Outcome(Invalid(e), hp, NoData(asked), cache, FALSE),
          Outcome([e EXCEPT !.data[i] = Block(e, i), !.state = "elfSection"],
                  Allocated(hp, Block(e, i), ShSize(e, i)), asked, cache, FALSE) }

(* Sections are recognised by kind; the last of a kind is remembered. *)
Remember(e, i) ==
    CASE Kind(e, i) = "text"   -> [cache EXCEPT !.text = i]
      [] Kind(e, i) = "bss"    -> [cache EXCEPT !.bss = i]
      [] Kind(e, i) = "symtab" -> [cache EXCEPT !.symTab = i]
      [] Kind(e, i) = "rel"    -> [cache EXCEPT !.relocTable = i]
      [] OTHER                 -> cache

(* The end of a step: the last section ends the iteration, unless it was    *)
(* passed over.                                                            *)
(* Mutation: the last section is compared before it is counted. *)
Advance_Late(e) ==
    [e EXCEPT !.iterator = @ + 1,
              !.state = IF e.iterator = Cardinality(Indexes(e)) THEN "postLoad" ELSE @]

Advance(e) ==
    [e EXCEPT !.iterator = @ + 1,
              !.state = IF e.iterator + 1 = Cardinality(Indexes(e)) THEN "postLoad" ELSE @]

(* Uninitialised data gets a block of the size of the previous request, and *)
(* the request stays as it is.                                             *)
ELFSectionProcessing(e, record, hp) ==
    LET i    == e.iterator
        cch  == Remember(e, i)
        size == IF Kind(e, i) = "bss" THEN record.size ELSE ShSize(e, i)
        b    == Block(e, i)
    IN  CASE Kind(e, i) = "outside" -> { Outcome(e, hp, record, cache, TRUE) }
          [] PassedOver(Kind(e, i)) ->
                { Outcome([e EXCEPT !.iterator = @ + 1], hp, NoData(record), cch, FALSE) }
          [] /\ ~PassedOver(Kind(e, i))
             /\ Kind(e, i) = "null" \/ (i \in Indexes(e) /\ ShSize(e, i) = 0) ->
                { Outcome(Advance(e), hp, NoData(record), cch, FALSE) }
          [] OTHER ->
                { Outcome([Advance(e) EXCEPT !.data[i] = b], Allocated(hp, b, size),
                          IF Kind(e, i) = "bss" THEN record ELSE Request(b, size, i),
                          cch, FALSE),
                  Outcome([Invalid(e) EXCEPT !.iterator = IF Kind(e, i) = "bss" THEN @ ELSE @ + 1],
                          hp,
                          IF Kind(e, i) = "bss" THEN record ELSE NoData(Request(b, size, i)),
                          cch, FALSE) }

-----------------------------------------------------------------------------
(* Linking. *)
SymTabIsOwn(e) ==
    /\ IsLoaded(e, cache.symTab, "symtab")
    /\ \E i \in Indexes(e) : IsLoaded(e, i, "strtab")

RelocTableIsOwn(e) == IsLoaded(e, cache.relocTable, "rel")

HasNoRelocations(e) ==
    \/ cache.relocTable = NOT_LOADED
    \/ Kind(e, cache.relocTable) = "rel" /\ ShSize(e, cache.relocTable) = 0

Undefined(e, name) == e.file.symbols[name] = SHN_UNDEF

(* The section of a symbol: st_shndx, as it may have been changed. *)
Defined(e, name) ==
    IF e.file.symbols[name] = SHN_COMMON THEN e.common ELSE e.file.symbols[name]

CommonSize(e) == Cardinality({ n \in DOMAIN e.file.symbols : e.file.symbols[n] = SHN_COMMON })

(* Common symbols move to the section for uninitialised data if it is empty. *)
(* That there is no memory for them is not noticed: the section stays       *)
(* without a block.                                                        *)
Grown(e) ==
    [e EXCEPT !.grown = [at |-> cache.bss, size |-> CommonSize(e)], !.common = cache.bss]

ELFsizeAndAssignMemToBSS(e, hp) ==
    IF CommonSize(e) = 0 THEN {[e |-> e, heap |-> hp]}
    ELSE { [e |-> [Grown(e) EXCEPT !.data[cache.bss] = Block(e, cache.bss)],
            heap |-> Allocated(hp, Block(e, cache.bss), CommonSize(e))],
           [e |-> Grown(e), heap |-> hp] }

Unassigned(e) == e.grown.at # -1 /\ Data(e, e.grown.at) = NIL

(* Every relocation whose symbol is defined gets the address of the symbol. *)
(* Mutation: common symbols are looked for where the file says. *)
Relocated_InFile(e, hp) ==
    LET words == [r \in DOMAIN e.file.rels |->
                     IF Undefined(e, e.file.rels[r]) THEN GARBAGE
                     ELSE Data(e, e.file.symbols[e.file.rels[r]])]
    IN  [hp EXCEPT ![Data(e, cache.text)].words = words]

Relocated(e, hp) ==
    LET words == [r \in DOMAIN e.file.rels |->
                     IF Undefined(e, e.file.rels[r]) THEN GARBAGE
                     ELSE Data(e, Defined(e, e.file.rels[r]))]
    IN  [hp EXCEPT ![Data(e, cache.text)].words = words]

(* relocateSymbol does nothing when there is no code, and takes any place    *)
(* for the symbol that is in no section.                                   *)
ELFresolveRelocations(e, hp) ==
    LET linked == e.file.rels # << >>
    IN  IF HasNoRelocations(e) THEN [heap |-> hp, stray |-> FALSE]
        ELSE IF ~RelocTableIsOwn(e) THEN [heap |-> hp, stray |-> TRUE]
        ELSE IF ~SymTabIsOwn(e) \/ Kind(e, cache.text) = "outside" THEN [heap |-> hp, stray |-> linked]
        ELSE IF ShSize(e, cache.text) = 0 THEN [heap |-> hp, stray |-> FALSE]
        ELSE IF \/ ~IsLoaded(e, cache.text, "text")
                \/ \E r \in DOMAIN e.file.rels : Defined(e, e.file.rels[r]) = SHN_COMMON
             THEN [heap |-> hp, stray |-> linked]
        ELSE [heap |-> Relocated(e, hp), stray |-> FALSE]

PostLoad(e, record, hp) ==
    LET empty    == cache.bss \in Indexes(e) /\ ShSize(e, cache.bss) = 0
        assigned == IF empty /\ SymTabIsOwn(e) THEN ELFsizeAndAssignMemToBSS(e, hp)
                    ELSE {[e |-> e, heap |-> hp]}
        resolved(a) == ELFresolveRelocations(a.e, a.heap)
    IN  { Outcome([a.e EXCEPT !.state = "finalState"], resolved(a).heap, NoData(record),
                  cache,
                  \/ cache.bss \notin Indexes(e)
                  \/ empty /\ ~SymTabIsOwn(e)
                  \/ resolved(a).stray) : a \in assigned }

LoadStep(e, record, hp) ==
    CASE e.state = "saveElfHeader"   -> ELFSectionHeaderProcessing(e, record, hp)
      [] e.state = "elfSectionNames" -> ELFSectionNamesProcessing(e, record, hp)
      [] e.state = "elfSection"      -> ELFSectionProcessing(e, record, hp)
      [] e.state = "postLoad"        -> PostLoad(e, record, hp)

(* What KLexecLoad returns in each state. *)
Status(e) ==
    CASE e.type = "none"          -> "EXEC_LOAD_INVID"
      [] e.state = "finalState"   -> "EXEC_LOAD_FINISHED"
      [] e.state = "elfInvalid"   -> "EXEC_LOAD_ERROR"
      [] OTHER                    -> "EXEC_LOAD_AGAIN"

(* One call, with the result that it has. *)
KLexecLoad(h, outcome) ==
    /\ eTable' = [eTable EXCEPT ![h] = outcome.e]
    /\ heap' = outcome.heap
    /\ cache' = outcome.cache
    /\ stray' = (stray \/ outcome.stray)

(* The caller reads what was asked for. *)
ReadInto(hp, record, file) ==
    IF record.buffer \in DOMAIN hp
    THEN [hp EXCEPT ![record.buffer].holds = <<file, record.part>>,
                    ![record.buffer].words = << >>]
    ELSE hp

-----------------------------------------------------------------------------
(* The address of a symbol: the block it is in, or NIL. *)
ELFsearchSymbol(e, name) ==
    IF name \in DOMAIN e.file.symbols
    THEN Data(e, IF Defined(e, name) = SHN_COMMON THEN cache.text ELSE Defined(e, name))
    ELSE NIL

KLexecSymbols(e, names) == [n \in names |-> ELFsearchSymbol(e, n)]

(* Each relocation against one of the names gets what the caller gives. *)
linkToExternalReference(e, names) ==
    LET b == Data(e, cache.text)
    IN  [heap EXCEPT ![b].words =
            [r \in DOMAIN e.file.rels |->
                IF e.file.rels[r] \in names /\ Undefined(e, e.file.rels[r])
                THEN <<"external", e.file.rels[r]>> ELSE @[r]]]

KLexecSetSymbols(e, names) ==
    LET linked == \E r \in DOMAIN e.file.rels :
                      /\ e.file.rels[r] \in names
                      /\ Undefined(e, e.file.rels[r])
        own    == SymTabIsOwn(e) /\ RelocTableIsOwn(e) /\ IsLoaded(e, cache.text, "text")
    IN  /\ heap' = IF linked /\ own THEN linkToExternalReference(e, names) ELSE heap
        /\ stray' = (stray \/ ~SymTabIsOwn(e) \/ (linked /\ ~own))
        /\ UNCHANGED <<eTable, cache>>

-----------------------------------------------------------------------------
(* Opening, probing, closing. *)
Handles == DOMAIN eTable

Vacant(table) == { h \in DOMAIN table : table[h].exec = NIL }

Lowest(S) == CHOOSE x \in S : \A y \in S : x <= y

KLexecOpen(h) ==
    /\ h = Lowest(Vacant(eTable))
    /\ eTable' = [eTable EXCEPT ![h] = Opened(<<h, HEADER>>)]
    /\ heap' = Allocated(heap, <<h, HEADER>>, 1)
    /\ UNCHANGED <<cache, stray>>

(* The search for a free entry of a table that has none goes on behind it,  *)
(* or where there is none, before the limit is tested.                     *)
NoMoreExecs ==
    /\ stray' = TRUE
    /\ UNCHANGED <<heap, eTable, cache>>

(* The header is read into the entry itself. *)
WithHeader(e, file) == [e EXCEPT !.file = file]

(* Of a file that does not fit, the state is changed or not. *)
Probed(e) == IF e.file.fits THEN {[e EXCEPT !.state = "saveElfHeader"]} ELSE {e, Invalid(e)}

(* Before the section headers are there the number of sections is garbage or *)
(* that of the file, and the array is garbage or missing.                  *)
(* Mutation: the array of the pointers is not freed. *)
ELFclose_Array(e) ==
    IF e.sectionData \in {GARBAGE, NIL}
    THEN [blocks |-> {}, stray |-> TRUE]
    ELSE [blocks |-> {e.section} \cup { e.data[i] : i \in Indexes(e) },
          stray |-> FALSE]

ELFclose(e) ==
    IF e.sectionData \in {GARBAGE, NIL}
    THEN [blocks |-> {}, stray |-> TRUE]
    ELSE [blocks |-> {e.section, e.sectionData} \cup { e.data[i] : i \in Indexes(e) },
          stray |-> FALSE]

KLexecClose(h) ==
    LET e == eTable[h]
    IN  /\ heap' = Freed(heap, {e.exec} \cup ELFclose(e).blocks)
        /\ eTable' = [eTable EXCEPT ![h] = Unused]
        /\ stray' = (stray \/ ELFclose(e).stray)
        /\ UNCHANGED cache

(* A table that is there stays, whatever its size. *)
KLexecInit(n) ==
    eTable' = IF eTable = NoTable THEN [h \in 0 .. n - 1 |-> Unused] ELSE eTable

KLexecUnInit == eTable' = NoTable

ExecInit ==
    /\ heap = << >>
    /\ eTable = NoTable
    /\ cache = [text |-> 0, bss |-> 0, symTab |-> 0, relocTable |-> NOT_LOADED]
    /\ stray = FALSE
=============================================================================
