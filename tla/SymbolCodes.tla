----------------------------- MODULE SymbolCodes -----------------------------
(***************************************************************************)
(* The numbers that stand for the system's symbols in a module's file.     *)
(* generate_api.py gives them out: those of the api file as they are, and  *)
(* to the declarations of each generated library numbers from its range.   *)
(* The kernel is compiled with an environment of numbers and addresses,    *)
(* modules are built with the numbers alone.                               *)
(***************************************************************************)
EXTENDS Integers, Sequences, FiniteSets, SequencesExt

CONSTANTS
    Names,       (* symbols; a symbol is its own address                    *)
    Fixed,       (* symbol -> number, for those that the api file numbers   *)
    Listed,      (* symbols of these in the environment of spawn.cpp        *)
    Ranges,      (* range_start and range_stop of each generated library    *)
    MaxHeaders,  (* bound: includes of a library                            *)
    MaxNames,    (* bound: declarations of a header                         *)
    Missing      (* no entry of the environment                             *)

(* Numbers of the api file are different and outside of the ranges, which   *)
(* do not overlap.                                                          *)
ASSUME SymbolCodesAssumption ==
    /\ IsFiniteSet(Names) /\ Ranges \in Seq([start : Nat, stop : Nat])
    /\ DOMAIN Fixed \subseteq Names /\ Listed \subseteq DOMAIN Fixed
    /\ \A a, b \in DOMAIN Fixed : Fixed[a] = Fixed[b] => a = b
    /\ \A l \in DOMAIN Ranges : \A a \in DOMAIN Fixed :
            Fixed[a] \notin Ranges[l].start .. Ranges[l].stop - 1
    /\ \A l, m \in DOMAIN Ranges : l < m => Ranges[l].stop <= Ranges[m].start
    /\ MaxHeaders \in Nat \ {0} /\ MaxNames \in Nat /\ Missing \notin Names

VARIABLES
    headers,     (* per library: the declarations of its includes           *)
    enabled,     (* libraries whose macro stands in spawn.cpp's environment *)
    step,        (* "fixed", "number", "build", "done" or "raised"          *)
    library, include, next,    (* the declaration that comes next           *)
    index,       (* the number that comes next                              *)
    codes,       (* generated_symbols                                       *)
    enum,        (* enumerators: library (0: the api file), symbol, number   *)
    macros,      (* per library: the symbols of add_..._symbol_codes()      *)
    entries      (* the environment: numbers and addresses                  *)

codeVars == <<headers, enabled, step, library, include, next, index, codes, enum, macros, entries>>

Libraries == DOMAIN Ranges

(* Functions and variables that the header itself declares, in their order. *)
Header == {h \in UNION {[1 .. n -> Names] : n \in 0 .. MaxNames} :
                \A i, j \in DOMAIN h : h[i] = h[j] => i = j}

SymbolCodesInit ==
    /\ headers = [l \in Libraries |-> <<>>] /\ enabled = {}
    /\ step = "fixed" /\ library = 1 /\ include = 1 /\ next = 1 /\ index = 0
    /\ codes = <<>> /\ enum = {} /\ entries = <<>>
    /\ macros = [l \in Libraries |-> <<>>]

(* generate_api, with the headers that it finds: first the numbers of the   *)
(* api file.                                                                *)
NumberFixed ==
    /\ step = "fixed"
    /\ headers' \in [Libraries -> UNION {[1 .. n -> Header] : n \in 1 .. MaxHeaders}]
    /\ enabled' \in SUBSET Libraries
    /\ codes' = Fixed
    /\ enum' = {<<0, name, Fixed[name]>> : name \in DOMAIN Fixed}
    /\ index' = Ranges[1].start /\ step' = "number"
    /\ UNCHANGED <<library, include, next, macros, entries>>

Numbering ==
    step = "number" /\ library \in Libraries

Declarations == headers[library][include]

(* Fault: the range is not checked.                                         *)
NumberBeyondRange ==
    /\ Numbering /\ next <= Len(Declarations)
    /\ LET name == Declarations[next]
       IN  /\ enum' = enum \cup {<<library, name, index>>}
           /\ codes' = [a \in DOMAIN codes \cup {name} |-> IF a = name THEN index ELSE codes[a]]
           /\ index' = index + 1 /\ next' = next + 1
    /\ UNCHANGED <<headers, enabled, step, library, include, macros, entries>>

(* generate_file: a declaration, of whatever include, takes the next number; *)
(* a name that has one already gets another, and the range must have room.  *)
NumberDeclaration ==
    /\ Numbering /\ next <= Len(Declarations)
    /\ LET name == Declarations[next]
       IN  IF index >= Ranges[library].stop - 1
           THEN step' = "raised" /\ UNCHANGED <<next, index, codes, enum>>
           ELSE /\ enum' = enum \cup {<<library, name, index>>}
                /\ codes' = [a \in DOMAIN codes \cup {name} |-> IF a = name THEN index ELSE codes[a]]
                /\ index' = index + 1 /\ next' = next + 1
                /\ UNCHANGED step
    /\ UNCHANGED <<headers, enabled, library, include, macros, entries>>

NextInclude ==
    /\ Numbering /\ next > Len(Declarations) /\ include < Len(headers[library])
    /\ include' = include + 1 /\ next' = 1
    /\ UNCHANGED <<headers, enabled, step, library, index, codes, enum, macros, entries>>

(* The macro is written from the translation unit that was parsed last: the *)
(* declarations of the last include, and of no other.                       *)
WriteMacro ==
    /\ Numbering /\ next > Len(Declarations) /\ include = Len(headers[library])
    /\ macros' = [macros EXCEPT ![library] = Declarations]
    /\ library' = library + 1 /\ include' = 1 /\ next' = 1
    /\ index' = IF library + 1 \in Libraries THEN Ranges[library + 1].start ELSE index
    /\ UNCHANGED <<headers, enabled, step, codes, enum, entries>>

(* generate_api is done when all libraries are.                             *)
WriteSymbols ==
    /\ step = "number" /\ library \notin Libraries
    /\ step' = "build"
    /\ UNCHANGED <<headers, enabled, library, include, next, index, codes, enum, macros, entries>>

-----------------------------------------------------------------------------

(* An enumerator of a library, which is named after library and symbol; one *)
(* that is there twice does not compile.                                    *)
Compiles ==
    \A a, b \in enum : a[1] = b[1] /\ a[2] = b[2] => a = b

Enumerator(l, name) == (CHOOSE e \in enum : e[1] = l /\ e[2] = name)[3]

SymbolAddress(code, address) == [code |-> code, address |-> address]

(* The lists of entries: those of spawn.cpp, and what its macros stand for. *)
ListedEntries ==
    SetToSeq({SymbolAddress(Enumerator(0, name), name) : name \in Listed})

MacroEntries(l) ==
    [i \in DOMAIN macros[l] |-> SymbolAddress(Enumerator(l, macros[l][i]), macros[l][i])]

(* The kernel is compiled with the files that were generated.               *)
BuildKernel ==
    /\ step = "build" /\ Compiles
    /\ entries' = ListedEntries
            \o FlattenSeq([l \in Libraries |-> IF l \in enabled THEN MacroEntries(l) ELSE <<>>])
    /\ step' = "done"
    /\ UNCHANGED <<headers, enabled, library, include, next, index, codes, enum, macros>>

(* find_symbol: the first entry with the number.                            *)
FindSymbol(code) ==
    LET found == {i \in DOMAIN entries : entries[i].code = code}
    IN  IF found = {} THEN Missing
        ELSE entries[CHOOSE i \in found : \A j \in found : i <= j].address

(* What a module that names a symbol gets: generate_binary.py writes the    *)
(* number, or gives up; the loader looks the number up.                     *)
Resolved(name) == IF name \in DOMAIN codes THEN FindSymbol(codes[name]) ELSE Missing

SymbolCodesNext ==
    \/ NumberFixed \/ NumberDeclaration \/ NextInclude \/ WriteMacro \/ WriteSymbols
    \/ BuildKernel

-----------------------------------------------------------------------------

(* A module that names a symbol runs with that symbol or is not loaded:     *)
(* numbers that two libraries, or two generations of a number for one name, *)
(* give out never lead to another symbol, however the headers fill their    *)
(* ranges (generate_api.py, spawn.cpp, environment.hpp).                    *)
SymbolsAreOwn ==
    step = "done" => \A name \in Names : Resolved(name) \in {name, Missing}
=============================================================================
