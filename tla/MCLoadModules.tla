---------------------------- MODULE MCLoadModules ---------------------------
(* Files as two compilers make them. *)
EXTENDS LoadModules, TLC

CONSTANTS t1, t2

Section(kind, size) == [kind |-> kind, size |-> size]
FromZero(s) == [i \in 0 .. Len(s) - 1 |-> s[i + 1]]
Symbols(defined, common, undefined) ==
    [n \in DOMAIN defined \cup common \cup undefined |->
        IF n \in DOMAIN defined THEN defined[n] ELSE IF n \in common THEN SHN_COMMON ELSE SHN_UNDEF]

(* Code, its relocations, data, no uninitialised data of its own. *)
Program ==
    [fits |-> TRUE,
     section |-> FromZero(<<Section("null", 0), Section("text", 2), Section("rel", 1),
                            Section("data", 1), Section("bss", 0), Section("aux", 1),
                            Section("names", 1), Section("symtab", 1), Section("strtab", 1)>>),
     symbols |-> Symbols([main |-> 1, table |-> 3], {"shared"}, {"external"}),
     rels |-> <<"table", "external", "shared">>]

(* A module with uninitialised data. *)
Module ==
    [fits |-> TRUE,
     section |-> FromZero(<<Section("null", 0), Section("text", 1), Section("rel", 1),
                            Section("data", 2), Section("bss", 2), Section("stab", 1),
                            Section("names", 1), Section("symtab", 1), Section("strtab", 1)>>),
     symbols |-> Symbols([lmDescription |-> 3, LMinit |-> 1, buffer |-> 4], {}, {}),
     rels |-> <<"buffer", "lmDescription">>]

(* A module with a description only. *)
Bare ==
    [fits |-> TRUE,
     section |-> FromZero(<<Section("null", 0), Section("text", 0), Section("rel", 0),
                            Section("data", 1), Section("bss", 0), Section("aux", 1),
                            Section("names", 1), Section("symtab", 1), Section("strtab", 1)>>),
     symbols |-> Symbols([lmDescription |-> 3], {}, {}),
     rels |-> << >>]

(* Files that are not Usual, one for each reason. *)
Foreign  == [Bare EXCEPT !.fits = FALSE]
Compact  == [Bare EXCEPT !.section = FromZero(<<Section("null", 0), Section("text", 1),
                 Section("names", 1), Section("symtab", 1), Section("strtab", 1), Section("data", 1)>>),
                         !.symbols = [lmDescription |-> 5]]
Trailing == [Bare EXCEPT !.section = FromZero(<<Section("null", 0), Section("text", 0), Section("rel", 0),
                 Section("data", 1), Section("bss", 0), Section("aux", 1),
                 Section("strtab", 1), Section("symtab", 1), Section("names", 1)>>)]
Large    == [Module EXCEPT !.section[4].size = 3]
Mixed    == [Module EXCEPT !.symbols = Symbols(@, {"shared"}, {}), !.rels = <<"shared">>]
Leaving  == [Module EXCEPT !.symbols = @ @@ ("LMunInit" :> 1)]

MCFiles == {Program, Module, Bare, Foreign, Compact, Trailing, Large, Mixed, Leaving}

MCLayout == Layout(Program)

Symmetric == Permutations({t1, t2})
=============================================================================
