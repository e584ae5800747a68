----------------------------- MODULE ModuleImage -----------------------------
(***************************************************************************)
(* The image of a loadable module: generate_binary.py writes it from the   *)
(* linked ELF file and the dynamic linker reads it.  Neither names the     *)
(* other's fields: the reader reaches each part by adding up sizes, and    *)
(* program text reaches a symbol through an entry of the offset table (the *)
(* lot) whose number the generator has patched into the text.              *)
(*                                                                         *)
(* The inputs are the modules that ModuleWrapperGenerator.cmake builds: a  *)
(* position independent program whose only visible symbol is main.         *)
(***************************************************************************)
EXTENDS Integers, Sequences, FiniteSets, SequencesExt

CONSTANTS
    Externals,   (* undefined symbols: functions of the system              *)
    Internals,   (* symbols of the module                                   *)
    Main,
    Sections,    (* Sections[s]: "text", "data" or "bss", for s of the module *)
    Values,      (* Values[s]: its address in the ELF file                  *)
    CodeSize,    (* of .text, which is linked to 0 and followed by .data    *)
    Known,       (* externals that api.json has a code for                  *)
    Base,        (* where the file stands in memory: RomFs aligns its files *)
    Nothing,     (* neither a part of the file nor an address               *)
    Pointers,    (* the words of data with an address: a word and a symbol each *)
    DataWords,   (* words of .data and .bss                                 *)
    MaxRelocs    (* bound: relocations of the text                          *)

ASSUME ImageAssumption ==
    /\ Main \notin Externals \cup Internals /\ Externals \cap Internals = {}
    /\ Known \subseteq Externals
    /\ Base \in Nat /\ (Base % 16) = 0
    /\ CodeSize \in Nat \ {0} /\ MaxRelocs \in Nat
    /\ IsFiniteSet(Externals)
    /\ Nothing \notin [code : Externals \cup {Main}, offset : Int]
    /\ \A places \in SUBSET (1..MaxRelocs) : Nothing \notin [places -> Nat]
    /\ \A s \in Externals : Nothing # <<"system", s>>
    /\ Values \in [Internals \cup {Main} -> Nat]
    /\ Sections \in [Internals \cup {Main} -> {"text", "data", "bss"}]
    /\ Sections[Main] = "text"
    /\ DataWords \in Nat
    /\ \A list \in Pointers : list \in Seq([word : 0..(DataWords - 1), name : Internals])

VARIABLES
    symtab,      (* global symbols in the order of the symbol table         *)
    relocs,      (* relocations of .text in order: a type and a symbol      *)
    pointers,    (* relocations of .data in order: one of Pointers          *)
    stage,       (* what runs: a loop of the generator or of the loader     *)
    i,           (* iterations of this loop                                 *)
    external,    (* external_relocations                                    *)
    local,       (* local_relocations                                       *)
    exported,    (* exported_relocations                                    *)
    index,       (* lot entries given out                                   *)
    packed,      (* external_relocations_to_image                           *)
    image,       (* what stands at an address of the file                   *)
    provided,    (* symbols among the entries given to load_module          *)
    lot,         (* the offset table in memory                              *)
    data,        (* addresses written to the words of data in memory        *)
    complete,    (* status of process_external_relocations                  *)
    start,       (* start_address_                                          *)
    ec           (* error code of load_module                               *)

input == <<symtab, relocs, pointers>>
generated == <<external, local, exported, index, packed>>
loaded == <<provided, lot, data, complete, start, ec>>
vars == <<input, stage, i, generated, image, loaded>>

-----------------------------------------------------------------------------
(* Sizes of the structures of the file.                                     *)

SizeOfHeader == 24
SizeOfRelocation == 8
SizeOfSymbol == 12

AlignUp(a) == IF (a % 16) # 0 THEN a + (16 - (a % 16)) ELSE a

(* Memory: an address holds the part of the file that starts there.         *)
At(a) == IF a - Base \in DOMAIN image THEN image[a - Base] ELSE Nothing

(* has_relocation and get_index_of_relocation.                              *)
HasRelocation(list, name) == \E k \in DOMAIN list : list[k].name = name

IndexOfRelocation(list, name) ==
    IF HasRelocation(list, name) THEN
        list[CHOOSE k \in DOMAIN list :
                list[k].name = name /\ \A j \in 1..(k - 1) : list[j].name # name].lot
    ELSE -1

(* The symbols of S in their order.                                         *)
SymbolsOf(S) ==
    LET chosen[k \in 0..Len(symtab)] ==
            IF k = 0 THEN <<>>
            ELSE IF symtab[k] \in S THEN Append(chosen[k - 1], symtab[k])
            ELSE chosen[k - 1]
    IN  chosen[Len(symtab)]

(* Symbols whose localization is external, and those that are visible.      *)
ExternalSymbols == SymbolsOf(Externals)
ExportedSymbols == SymbolsOf({Main})

PositionIn(seq, s) == CHOOSE k \in DOMAIN seq : seq[k] = s

Enter(next_stage) == stage' = next_stage /\ i' = 0

-----------------------------------------------------------------------------
(* generate_binary.py.                                                      *)

Orders(S) == {f \in [1..Cardinality(S) -> S] : \A a, b \in DOMAIN f : f[a] = f[b] => a = b}

(* A call or jump stands for all types that are skipped, "other" for those  *)
(* the generator does not know.                                             *)
Relocation(S) == [type : {"GOT_BREL"}, name : S \cup Internals \cup {Main}]
                    \cup [type : {"THM_CALL", "other"}, name : {Main}]

Init ==
    /\ \E S \in SUBSET Externals :
        /\ symtab \in Orders(S \cup {Main})
        /\ relocs \in UNION {[1..n -> Relocation(S)] : n \in 0..MaxRelocs}
    /\ pointers \in Pointers
    /\ stage = "extract" /\ i = 0
    /\ external = <<>> /\ local = <<>> /\ exported = <<>> /\ index = 0 /\ packed = <<>>
    /\ image = <<>> /\ provided = {} /\ lot = <<>> /\ data = <<>> /\ complete = TRUE /\ start = Nothing
    /\ ec = "none"

Extracting(type, S) ==
    /\ stage = "extract" /\ i < Len(relocs)
    /\ relocs[i + 1].type = type /\ relocs[i + 1].name \in S

(* Direct calls and jumps stay as the linker resolved them.                 *)
SkipCall ==
    /\ Extracting("THM_CALL", {Main})
    /\ i' = i + 1
    /\ UNCHANGED <<input, stage, generated, image, loaded>>

(* Fault: every reference to an external symbol takes an entry.             *)
ExtractEachExternal ==
    /\ Extracting("GOT_BREL", Externals)
    /\ i' = i + 1
    /\ external' = Append(external, [name |-> relocs[i + 1].name, at |-> i + 1, lot |-> index])
    /\ index' = index + 1
    /\ UNCHANGED <<input, stage, local, exported, packed, image, loaded>>

(* All references to an external symbol share an entry of the lot.          *)
ExtractExternal ==
    /\ Extracting("GOT_BREL", Externals)
    /\ i' = i + 1
    /\ LET name == relocs[i + 1].name
           old == HasRelocation(external, name)
       IN /\ external' = Append(external,
                [name |-> name, at |-> i + 1,
                 lot |-> IF old THEN IndexOfRelocation(external, name) ELSE index])
          /\ index' = IF old THEN index ELSE index + 1
    /\ UNCHANGED <<input, stage, local, exported, packed, image, loaded>>

(* Each reference to one of the module's symbols has its own entry.         *)
ExtractInternal ==
    /\ Extracting("GOT_BREL", Internals)
    /\ i' = i + 1
    /\ local' = Append(local, [name |-> relocs[i + 1].name, at |-> i + 1, lot |-> index])
    /\ index' = index + 1
    /\ UNCHANGED <<input, stage, external, exported, packed, image, loaded>>

(* References to main share an entry too, but it is looked up among the     *)
(* external ones, where main is not.                                        *)
ExtractExported ==
    /\ Extracting("GOT_BREL", {Main})
    /\ i' = i + 1
    /\ LET old == HasRelocation(exported, Main)
       IN /\ exported' = Append(exported,
                [name |-> Main, at |-> i + 1,
                 lot |-> IF old THEN IndexOfRelocation(external, Main) ELSE index])
          /\ index' = IF old THEN index ELSE index + 1
    /\ UNCHANGED <<input, stage, external, local, packed, image, loaded>>

(* RuntimeError: not working for this binary.                               *)
UnknownRelocation ==
    /\ Extracting("other", {Main})
    /\ Enter("rejected")
    /\ UNCHANGED <<input, generated, image, loaded>>

Extracted ==
    /\ stage = "extract" /\ i = Len(relocs)
    /\ Enter("pack")
    /\ UNCHANGED <<input, generated, image, loaded>>

(* The file names each external symbol once.                                *)
PackExternal ==
    /\ stage = "pack" /\ i < Len(external)
    /\ i' = i + 1
    /\ packed' = IF HasRelocation(packed, external[i + 1].name) THEN packed
                 ELSE Append(packed, external[i + 1])
    /\ UNCHANGED <<input, stage, external, local, exported, index, image, loaded>>

(* exported_relocations_to_image: one if main is referred to.               *)
NumberOfExported == IF exported = <<>> THEN 0 ELSE 1

(* Distance of the k-th relocation from its symbol.  The relocation of main *)
(* is counted though it is not written.                                     *)
OffsetToSymbol(k) ==
    (Len(packed) + Len(local) + Len(pointers) + NumberOfExported - (k - 1)) * SizeOfRelocation
        + (Len(ExportedSymbols) + PositionIn(ExternalSymbols, packed[k].name) - 1) * SizeOfSymbol

SectionBit(s) == IF Sections[s] = "text" THEN 0 ELSE 1

(* Data and bss are addressed from the end of the code.                     *)
ImageValue(s) == IF SectionBit(s) = 1 THEN Values[s] - CodeSize ELSE Values[s]

(* extract_data_relocations counts the words of data from the end of the    *)
(* lot, and leaves the address as it is in the ELF file.                    *)
DataRelocations ==
    [k \in DOMAIN pointers |-> [index |-> pointers[k].word + index,
                                offset |-> Values[pointers[k].name]]]

ImageRelocations ==
    [k \in DOMAIN packed |-> [index |-> packed[k].lot, offset |-> OffsetToSymbol(k)]]
    \o [k \in DOMAIN local |-> [index |-> local[k].lot * 2 + SectionBit(local[k].name),
                                offset |-> ImageValue(local[k].name)]]
    \o DataRelocations

(* The kind of a symbol stands for its code; that of main is 1.             *)
ImageSymbols ==
    [k \in DOMAIN ExportedSymbols |->
        [code |-> ExportedSymbols[k], offset |-> ImageValue(ExportedSymbols[k])]]
    \o [k \in DOMAIN ExternalSymbols |-> [code |-> ExternalSymbols[k], offset |-> 0]]

(* Text: the word of each reference becomes an offset in the lot.           *)
References == ToSet(local) \cup ToSet(external) \cup ToSet(exported)

PatchedText ==
    [k \in {r.at : r \in References} |-> 4 * (CHOOSE r \in References : r.at = k).lot]

WriteImage ==
    /\ stage = "pack" /\ i = Len(external)
    /\ IF /\ ToSet(ExternalSymbols) \subseteq Known        (* else RuntimeError *)
          /\ \A r \in References : r.lot >= 0              (* else struct.error *)
       THEN
          LET rel == ImageRelocations
              sym == ImageSymbols
              RelAt(k) == SizeOfHeader + SizeOfRelocation * (k - 1)
              SymAt(k) == RelAt(Len(rel) + 1) + SizeOfSymbol * (k - 1)
              Code == AlignUp(SymAt(Len(sym) + 1))
              header == [external |-> Len(packed), local |-> Len(local),
                         data |-> Len(pointers), symbols |-> Len(ExternalSymbols)]
          IN /\ image' = [a \in {0} \cup {RelAt(k) : k \in DOMAIN rel}
                                \cup {SymAt(k) : k \in DOMAIN sym}
                                \cup {Code, Code + CodeSize} |->
                    IF a = 0 THEN header
                    ELSE IF a = Code THEN PatchedText
                    ELSE IF a = Code + CodeSize THEN "data"
                    ELSE IF a < SymAt(1) THEN rel[CHOOSE k \in DOMAIN rel : RelAt(k) = a]
                    ELSE sym[CHOOSE k \in DOMAIN sym : SymAt(k) = a]]
             /\ Enter("load")
       ELSE UNCHANGED image /\ Enter("rejected")
    /\ UNCHANGED <<input, generated, loaded>>

-----------------------------------------------------------------------------
(* dynamic_linker.cpp; every address is worked out from the header.         *)

Header == At(Base)
RelocationAddress == Base + SizeOfHeader

SymbolAddress ==
    RelocationAddress + SizeOfRelocation * (Header.external + Header.local + Header.data)

(* The external symbols and main.                                           *)
NumberOfSymbols == Header.symbols + 1

CodeAddress == AlignUp(SymbolAddress + SizeOfSymbol * NumberOfSymbols)

(* find_symbol with the code of main.                                       *)
FoundMain ==
    {k \in 1..NumberOfSymbols :
        At(SymbolAddress + SizeOfSymbol * (k - 1)) # Nothing
        /\ At(SymbolAddress + SizeOfSymbol * (k - 1)).code = Main}

(* No word of the data has been written.                                    *)
AllocateData == [k \in 0..(DataWords - 1) |-> Nothing]

AllocateLot == [k \in 0..(Header.external + Header.local - 1) |-> Nothing]

StartOfMain ==
    IF FoundMain = {} THEN Nothing
    ELSE LET k == CHOOSE k \in FoundMain : \A j \in FoundMain : k <= j
         IN <<"text", At(SymbolAddress + SizeOfSymbol * (k - 1)).offset>>

(* Sections are copied, the lot is allocated.                               *)
Load ==
    /\ stage = "load"
    /\ provided' \in SUBSET Known
    /\ start' = StartOfMain /\ data' = AllocateData /\ lot' = AllocateLot
    /\ Enter("external")
    /\ UNCHANGED <<input, generated, image, complete, ec>>

(* An allocation may fail, the one of the lot after data and start are set. *)
LoadRefused ==
    /\ stage = "load"
    /\ \/ /\ ec' \in {"TextAllocationFailure", "DataAllocationFailure"}
          /\ UNCHANGED <<data, start>>
       \/ /\ ec' = "LotAllocationFailure"
          /\ data' = AllocateData /\ start' = StartOfMain
    /\ Enter("failed")
    /\ UNCHANGED <<input, generated, image, provided, lot, complete>>

(* The words of the heap that a write to word k of a block can reach: a     *)
(* word past its end belongs to some other block, which may be the lot or   *)
(* the data of the module.                                                  *)
Words == {<<"lot", k>> : k \in DOMAIN lot} \cup {<<"data", k>> : k \in DOMAIN data}
            \cup {<<"other", 0>>}

Reached(block, k) == IF <<block, k>> \in Words THEN {<<block, k>>} ELSE Words

Write(block, k, address) ==
    \E word \in Reached(block, k) :
        /\ lot' = [n \in DOMAIN lot |-> IF word = <<"lot", n>> THEN address ELSE lot[n]]
        /\ data' = [n \in DOMAIN data |-> IF word = <<"data", n>> THEN address ELSE data[n]]

RelocationAt(k) == At(RelocationAddress + SizeOfRelocation * (k - 1))

(* find_symbol: the address of the entry with the code.                     *)
FindSymbol(code) == IF code \in provided THEN <<"system", code>> ELSE Nothing

(* What code() gives at an address: anything where no symbol stands.        *)
CodesAt(a) == IF At(a) # Nothing THEN {At(a).code} ELSE Externals \cup {Main}

ResolveExternal ==
    /\ stage = "external" /\ i < Header.external
    /\ LET r == RelocationAt(i + 1)
       IN \E code \in CodesAt(RelocationAddress + SizeOfRelocation * i + r.offset) :
            IF FindSymbol(code) # Nothing
            THEN Write("lot", r.index, FindSymbol(code)) /\ UNCHANGED complete
            ELSE complete' = FALSE /\ UNCHANGED <<lot, data>>
    /\ i' = i + 1
    /\ UNCHANGED <<input, stage, generated, image, provided, start, ec>>

(* Fault: the status is not looked at.                                      *)
ResolvedAnyway ==
    /\ stage = "external" /\ i = Header.external
    /\ Enter("local")
    /\ UNCHANGED <<input, generated, image, loaded>>

(* A symbol that was not found fails the load, after all were tried.        *)
ResolvedExternals ==
    /\ stage = "external" /\ i = Header.external
    /\ IF complete THEN Enter("local") /\ UNCHANGED ec
       ELSE Enter("failed") /\ ec' = "ExternalRelocationFailure"
    /\ UNCHANGED <<input, generated, image, provided, lot, data, complete, start>>

ResolveLocal ==
    /\ stage = "local" /\ i < Header.local
    /\ LET r == RelocationAt(Header.external + i + 1)
       IN Write("lot", r.index \div 2, <<IF (r.index % 2) = 0 THEN "text" ELSE "data", r.offset>>)
    /\ i' = i + 1
    /\ UNCHANGED <<input, stage, generated, image, provided, complete, start, ec>>

ResolvedLocals ==
    /\ stage = "local" /\ i = Header.local
    /\ Enter("data")
    /\ UNCHANGED <<input, generated, image, loaded>>

(* The data relocations are taken from where the local ones start: with     *)
(* local ones before them the wrong entries are applied.                    *)
AppliedToData(k) == RelocationAt(Header.external + k)

ResolveData ==
    /\ stage = "data" /\ i < Header.data
    /\ Write("data", AppliedToData(i + 1).index, <<"data", AppliedToData(i + 1).offset>>)
    /\ i' = i + 1
    /\ UNCHANGED <<input, stage, generated, image, provided, complete, start, ec>>

ResolvedData ==
    /\ stage = "data" /\ i = Header.data
    /\ Enter("loaded")
    /\ UNCHANGED <<input, generated, image, loaded>>

Next ==
    \/ SkipCall \/ ExtractExternal \/ ExtractInternal \/ ExtractExported
    \/ UnknownRelocation \/ Extracted
    \/ PackExternal \/ WriteImage
    \/ Load \/ LoadRefused \/ ResolveExternal \/ ResolvedExternals \/ ResolveLocal \/ ResolvedLocals
    \/ ResolveData \/ ResolvedData

Spec == Init /\ [][Next]_vars /\ WF_vars(Next)

-----------------------------------------------------------------------------

(* Where a symbol of the program is at run time: data follows the code in   *)
(* the ELF file and has a place of its own in memory.                       *)
RuntimeAddress(s) ==
    IF s \in Externals THEN <<"system", s>>
    ELSE IF Sections[s] = "text" THEN <<"text", Values[s]>>
    ELSE <<"data", Values[s] - CodeSize>>

(* The text refers to main through the lot.                                 *)
MainReferred == \E r \in ToSet(relocs) : r.type = "GOT_BREL" /\ r.name = Main

(* No relocation that is applied to the data is of a word behind the data.  *)
DataWritesInside ==
    \A k \in 1..Header.data : AppliedToData(k).index \in 0..(DataWords - 1)

(* A loaded module is the program that was linked, whatever symbols stand   *)
(* in the file and in which order: it starts at main, its data stands       *)
(* behind its text, and every reference of the text, as patched at the      *)
(* place where the loader takes the text from, names an entry of the        *)
(* allocated table, which holds the address of the symbol it refers to.     *)
(* So it is unless the text refers to main, whose entry nothing fills and   *)
(* whose relocation moves the offsets to the symbols, or a relocation of    *)
(* the data writes past the data, where it may hit the lot.                 *)
ReferencesResolve ==
    stage = "loaded" /\ ~MainReferred /\ DataWritesInside =>
        /\ start = <<"text", Values[Main]>>
        /\ At(CodeAddress) # Nothing /\ At(CodeAddress + CodeSize) = "data"
        /\ \A k \in DOMAIN relocs : relocs[k].type = "GOT_BREL" =>
            LET offset == At(CodeAddress)[k] IN
            /\ (offset % 4) = 0 /\ offset \div 4 \in DOMAIN lot
            /\ lot[offset \div 4] = RuntimeAddress(relocs[k].name)

Refusable ==
    \/ ~(ToSet(ExternalSymbols) \subseteq Known)
    \/ \E r \in ToSet(relocs) : r.type = "other"
    \/ \E j, k \in DOMAIN relocs : j # k /\ relocs[j] = relocs[k]
            /\ relocs[j] = [type |-> "GOT_BREL", name |-> Main]

AllProvided == \A r \in ToSet(relocs) : r.name \in Externals => r.name \in provided

(* Every module ends loaded or is refused with a reason that it has.  The   *)
(* generator refuses a symbol without a code, a type of relocation it does  *)
(* not know and a second reference to main, and nothing else.  The loader   *)
(* reports an allocation that failed, or a symbol that the module refers to *)
(* and the entries do not provide; it never loads a module that lacks one.  *)
(* Where main is referred to it reads what are no symbols, and may do both. *)
LoadsOrSaysWhy ==
    <>[](\/ stage = "rejected" /\ Refusable
         \/ stage = "loaded" /\ ec = "none" /\ ~Refusable /\ (AllProvided \/ MainReferred)
         \/ stage = "failed" /\ ec = "ExternalRelocationFailure" /\ ~Refusable
                /\ (~AllProvided \/ MainReferred)
         \/ stage = "failed" /\ ~Refusable /\
                ec \in {"TextAllocationFailure", "DataAllocationFailure", "LotAllocationFailure"})
=============================================================================
