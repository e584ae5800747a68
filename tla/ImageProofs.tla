----------------------------- MODULE ImageProofs -----------------------------
(***************************************************************************)
(* A module that was loaded is the program that was linked, for any number *)
(* of symbols and references: proofs about ModuleImage.                    *)
(***************************************************************************)
EXTENDS ModuleImage, InductionLemmas, SequenceTheorems, FiniteSetTheorems, TLAPS

-----------------------------------------------------------------------------
(* What every stage can rely on.                                            *)

Places == 1..MaxRelocs

(* Extracted references to symbols of S.                                    *)
Extract(S) == [name : S, at : Places, lot : Nat]

Extracts == ToSet(local) \cup ToSet(external)

(* The references that have been looked at.                                 *)
Done == IF stage = "extract" THEN i ELSE Len(relocs)

Stages == {"extract", "pack", "rejected", "load", "external", "local", "data", "loaded", "failed"}

InputInv ==
    /\ \E S \in SUBSET Externals :
        /\ symtab \in Orders(S \cup {Main})
        /\ \E n \in 0..MaxRelocs : relocs \in [1..n -> Relocation(S)]
    /\ pointers \in Pointers
    /\ stage \in Stages /\ i \in Nat

NamesIn(list) == {list[k].name : k \in DOMAIN list}

(* The references of the first d relocations rs, X of them external, use    *)
(* the first n entries of the lot: each has one entry, of its own symbol,    *)
(* and an entry belongs to one symbol.                                      *)
Agree(E, X, rs, d, n) ==
    /\ \A r \in E : r.at <= d /\ r.lot < n /\ r.name = rs[r.at].name
    /\ \A r, q \in E : r.at = q.at => r = q
    /\ \A r, q \in E : r.lot = q.lot => r.name = q.name
    /\ \A r, q \in X : r.name = q.name => r.lot = q.lot
    /\ \A k \in 1..d : rs[k].type = "GOT_BREL" => \E r \in E : r.at = k

(* The entries are as many as the external symbols that were met and the    *)
(* references to the module's own.                                          *)
ExtractInv ==
    /\ external \in Seq(Extract(Externals)) /\ local \in Seq(Extract(Internals))
    /\ exported = <<>>
    /\ index = Cardinality(NamesIn(external)) + Len(local)
    /\ Done <= Len(relocs)
    /\ Agree(Extracts, ToSet(external), relocs, Done, index)

(* The packed entries have each name of the first n of list once.           *)
Packs(entries, list, n) ==
    /\ entries \in Seq(Extract(Externals))
    /\ ToSet(entries) \subseteq ToSet(list)
    /\ NamesIn(entries) = {list[k].name : k \in 1..n}
    /\ Len(entries) = Cardinality(NamesIn(entries))
    /\ \A j, k \in DOMAIN entries : entries[j].name = entries[k].name => j = k

PackInv ==
    /\ stage = "extract" => packed = <<>>
    /\ stage = "pack" => i <= Len(external) /\ Packs(packed, external, i)
    /\ stage \notin {"extract", "pack"} => Packs(packed, external, Len(external))

Written == {"load", "external", "local", "data", "loaded", "failed"}

(* Where the k-th relocation stands, and the k-th symbol behind n of them.  *)
RelAt(k) == SizeOfHeader + SizeOfRelocation * (k - 1)
SymAt(n, k) == RelAt(n + 1) + SizeOfSymbol * (k - 1)

NumRelocs == Len(packed) + Len(local) + Len(pointers)
CodePlace == AlignUp(SymAt(NumRelocs, Len(ExternalSymbols) + 2))

(* Every part of the file stands where sizes add up to.                     *)
FileHolds(file) ==
    /\ {0, CodePlace, CodePlace + CodeSize} \subseteq DOMAIN file
    /\ file[0] = [external |-> Len(packed), local |-> Len(local),
                  data |-> Len(pointers), symbols |-> Len(ExternalSymbols)]
    /\ file[CodePlace] = PatchedText /\ file[CodePlace + CodeSize] = "data"
    /\ \A k \in 1..Len(packed) :
        /\ RelAt(k) \in DOMAIN file
        /\ file[RelAt(k)] = [index |-> packed[k].lot, offset |-> OffsetToSymbol(k)]
    /\ \A k \in 1..Len(local) :
        /\ RelAt(Len(packed) + k) \in DOMAIN file
        /\ file[RelAt(Len(packed) + k)] =
                [index |-> local[k].lot * 2 + SectionBit(local[k].name),
                 offset |-> ImageValue(local[k].name)]
    /\ SymAt(NumRelocs, 1) \in DOMAIN file
    /\ file[SymAt(NumRelocs, 1)] = [code |-> Main, offset |-> Values[Main]]
    /\ \A k \in 1..Len(ExternalSymbols) :
        /\ SymAt(NumRelocs, k + 1) \in DOMAIN file
        /\ file[SymAt(NumRelocs, k + 1)] = [code |-> ExternalSymbols[k], offset |-> 0]

ImageInv == stage \in Written => FileHolds(image)

Filling == {"external", "local", "data", "loaded"}

(* The table has the addresses of the first n entries of a list.            *)
Addresses(table, entries, n) ==
    \A k \in 1..n : table[entries[k].lot] = RuntimeAddress(entries[k].name)

(* The lot holds the addresses of the entries that were resolved.           *)
LoadInv ==
    /\ stage \in Filling => /\ start = <<"text", Values[Main]>>
                            /\ lot = [k \in 0..(index - 1) |-> lot[k]]
                            /\ data = [k \in 0..(DataWords - 1) |-> data[k]]
    /\ stage = "external" => i <= Len(packed) /\ (complete => Addresses(lot, packed, i))
    /\ stage = "local" => /\ i <= Len(local)
                          /\ Addresses(lot, packed, Len(packed)) /\ Addresses(lot, local, i)
    /\ stage \in {"data", "loaded"} /\ DataWritesInside =>
            Addresses(lot, packed, Len(packed)) /\ Addresses(lot, local, Len(local))

(* What holds of a text that does not refer to main, until it is refused.   *)
Generated == ExtractInv /\ PackInv /\ ImageInv /\ LoadInv

ImageInvs == InputInv /\ (~MainReferred /\ stage # "rejected" => Generated)

-----------------------------------------------------------------------------
(* The symbol table.                                                        *)

(* symtab has each of the symbols T once.                                   *)
Symtab(n, T) ==
    /\ n \in Nat /\ symtab \in [1 .. n -> T]
    /\ \A j, k \in 1 .. n : symtab[j] = symtab[k] => j = k
    /\ \A s \in T : \E k \in 1 .. n : symtab[k] = s

LEMMA SymtabHasAll ==
    ASSUME InputInv
    PROVE  \E S \in SUBSET Externals : \E n : /\ Symtab(n, S \cup {Main})
                                              /\ \A k \in 1 .. Len(relocs) : relocs[k] \in Relocation(S)
<1>1. PICK S \in SUBSET Externals :
        symtab \in Orders(S \cup {Main}) /\ \E n \in 0..MaxRelocs : relocs \in [1..n -> Relocation(S)]
  BY DEF InputInv
<1> DEFINE T == S \cup {Main}
<1>2. IsFiniteSet(T)
  BY FS_Subset, FS_AddElement, ImageAssumption
<1>3. PICK n \in Nat : n = Cardinality(T)
  BY <1>2, FS_CardinalityType
<1>4. symtab \in [1 .. n -> T] /\ \A j, k \in 1 .. n : symtab[j] = symtab[k] => j = k
  <2>1. symtab \in Orders(T)
    BY <1>1
  <2> HIDE DEF T
  <2>2. symtab \in [1 .. n -> T] /\ \A a, b \in DOMAIN symtab : symtab[a] = symtab[b] => a = b
    BY <1>3, <2>1 DEF Orders
  <2> QED
    BY <2>2
<1>5. symtab \in Surjection(1 .. n, T)
  <2>1. IsFiniteSet(1 .. n) /\ Cardinality(1 .. n) = n
    BY FS_Interval
  <2> HIDE DEF T
  <2>2. symtab \in Injection(1 .. n, T)
    BY <1>4 DEF Injection, IsInjective
  <2> QED
    BY <1>2, <1>3, <2>1, <2>2, FS_Injection
<1>6. \A s \in T : \E k \in 1 .. n : symtab[k] = s
  BY <1>5 DEF Surjection
<1>7. \A k \in 1 .. Len(relocs) : relocs[k] \in Relocation(S)
  <2>1. PICK m \in 0 .. MaxRelocs : relocs \in [1 .. m -> Relocation(S)]
    BY <1>1
  <2>2. m \in Nat
    BY ImageAssumption
  <2>3. Len(relocs) = m
    BY <2>1, <2>2
  <2> QED
    BY <2>1, <2>3
<1>8. Symtab(n, T)
  <2> HIDE DEF T
  <2> QED
    BY <1>4, <1>6 DEF Symtab
<1> QED
  BY <1>7, <1>8

Chooses(c, S) ==
    /\ c[0] = <<>>
    /\ \A k \in 1 .. Len(symtab) :
        c[k] = IF symtab[k] \in S THEN Append(c[k - 1], symtab[k]) ELSE c[k - 1]

LEMMA ChosenExist ==
    ASSUME NEW n, NEW T, Symtab(n, T), NEW S
    PROVE  \E c : Chooses(c, S) /\ SymbolsOf(S) = c[n]
<1>1. n \in Nat /\ Len(symtab) = n /\ \A k \in 1 .. n : symtab[k] \in T
  BY DEF Symtab
<1> DEFINE Next1(k, t) == IF k = 0 THEN <<>> ELSE IF symtab[k] \in S THEN Append(t, symtab[k]) ELSE t
           Def(e) == e = [k \in 0 .. n |-> Next1(k, e[k - 1])]
           it == CHOOSE e : Def(e)
           A == Seq(T)
           step == [q \in Nat \X A |-> IF q[1] \in 1 .. n THEN Next1(q[1], q[2]) ELSE <<>>]
<1>2. step \in [Nat \X A -> A]
  <2>1. <<>> \in A
    OBVIOUS
  <2>2. ASSUME NEW k \in 1 .. n, NEW t \in A PROVE Next1(k, t) \in A
    <3>1. symtab[k] \in T
      BY <1>1
    <3> QED
      BY <2>1, <3>1, AppendProperties
  <2> HIDE DEF A, Next1
  <2> QED
    BY <2>1, <2>2
<1>3. PICK f \in [0 .. n -> A] : Iterated(f, n, <<>>, step)
  <2>1. <<>> \in A
    OBVIOUS
  <2> HIDE DEF A, step
  <2> QED
    BY <1>1, <1>2, <2>1, Iterates
<1>4. ASSUME NEW k \in 1 .. n PROVE f[k] = Next1(k, f[k - 1])
  <2>1. f[k] = step[<<k, f[k - 1]>>]
    <3> HIDE DEF step
    <3> QED
      BY <1>3 DEF Iterated
  <2>2. k - 1 \in 0 .. n
    BY <1>1
  <2>3. <<k, f[k - 1]>> \in Nat \X A
    <3> HIDE DEF A
    <3> QED
      BY <1>3, <2>2
  <2> HIDE DEF A, Next1
  <2> QED
    BY <2>1, <2>3
<1>5. \E e : Def(e)
  <2>1. f[0] = Next1(0, f[0 - 1])
    BY <1>3 DEF Iterated
  <2>2. \A k \in 0 .. n : k = 0 \/ k \in 1 .. n
    BY <1>1
  <2>3. \A k \in 0 .. n : f[k] = Next1(k, f[k - 1])
    <3> HIDE DEF Next1
    <3> QED
      BY <1>4, <2>1, <2>2
  <2>4. f = [k \in 0 .. n |-> f[k]]
    <3> HIDE DEF A
    <3> QED
      BY <1>3
  <2> HIDE DEF Next1
  <2> QED
    BY <2>3, <2>4
<1>6. Def(it)
  <2> HIDE DEF Def
  <2> QED
    BY <1>5
<1>7. SymbolsOf(S) = it[n]
  BY <1>1 DEF SymbolsOf
<1>8. Chooses(it, S)
  <2>1. ASSUME NEW k \in 0 .. n PROVE it[k] = Next1(k, it[k - 1])
    <3> HIDE DEF it, Next1
    <3> QED
      BY <1>6
  <2>2. 0 \in 0 .. n /\ \A k \in 1 .. n : k \in 0 .. n /\ k # 0
    BY <1>1
  <2> HIDE DEF it
  <2> QED
    BY <1>1, <2>1, <2>2 DEF Chooses
<1> QED
  BY <1>7, <1>8

(* c has the elements of E, each once.                                      *)
Enumerates(c, E) ==
    /\ c \in Seq(E)
    /\ \A s \in E : \E k \in 1 .. Len(c) : c[k] = s
    /\ \A j, k \in 1 .. Len(c) : c[j] = c[k] => j = k

LEMMA EnumeratesOneMore ==
    ASSUME NEW c, NEW E, Enumerates(c, E), NEW s, s \notin E
    PROVE  Enumerates(Append(c, s), E \cup {s})
<1>1. PICK m \in Nat : m = Len(c)
  BY DEF Enumerates
<1>2. c \in Seq(E) /\ \A k \in 1 .. m : c[k] \in E
  BY <1>1 DEF Enumerates
<1>3. PICK d : d = Append(c, s)
  OBVIOUS
<1>4. d \in Seq(E \cup {s}) /\ Len(d) = m + 1 /\ d[m + 1] = s /\ \A k \in 1 .. m : d[k] = c[k]
  <2>1. c \in Seq(E \cup {s})
    BY <1>2
  <2> QED
    BY <1>1, <1>2, <1>3, <2>1, AppendProperties
<1>5. \A k \in 1 .. m + 1 : k \in 1 .. m \/ k = m + 1
  OBVIOUS
<1>6. 1 .. m \subseteq 1 .. m + 1 /\ m + 1 \in 1 .. m + 1
  OBVIOUS
<1>7. ASSUME NEW t \in E \cup {s} PROVE \E k \in 1 .. m + 1 : d[k] = t
  <2>1. CASE t \in E
    <3>1. PICK k \in 1 .. m : c[k] = t
      BY <1>1, <2>1 DEF Enumerates
    <3> QED
      BY <1>4, <1>6, <3>1
  <2> QED
    BY <1>4, <1>6, <2>1
<1>8. ASSUME NEW j \in 1 .. m + 1, NEW k \in 1 .. m + 1, d[j] = d[k] PROVE j = k
  <2>1. CASE j \in 1 .. m /\ k \in 1 .. m
    BY <1>1, <1>4, <1>8, <2>1 DEF Enumerates
  <2> QED
    BY <1>2, <1>4, <1>5, <1>8, <2>1
<1> QED
  BY <1>3, <1>4, <1>7, <1>8 DEF Enumerates

(* The symbols of S that are in the table, each once.                       *)
LEMMA SymbolsChosen ==
    ASSUME NEW n, NEW T, Symtab(n, T), NEW S
    PROVE  Enumerates(SymbolsOf(S), T \cap S)
<1>1. /\ n \in Nat /\ Len(symtab) = n /\ \A k \in 1 .. n : symtab[k] \in T
      /\ \A j, k \in 1 .. n : symtab[j] = symtab[k] => j = k
  BY DEF Symtab
<1>2. PICK c : Chooses(c, S) /\ SymbolsOf(S) = c[n]
  BY ChosenExist
<1> DEFINE E(m) == {symtab[k] : k \in 1 .. m} \cap S
           N == {m \in Nat : m <= n => Enumerates(c[m], E(m))}
<1>3. 0 \in N
  <2>1. Enumerates(<<>>, {})
    BY DEF Enumerates
  <2>2. E(0) = {}
    OBVIOUS
  <2> HIDE DEF E
  <2> QED
    BY <1>2, <2>1, <2>2 DEF Chooses
<1>4. ASSUME NEW m \in Nat, m \in N PROVE m + 1 \in N
  <2> SUFFICES ASSUME m + 1 <= n PROVE Enumerates(c[m + 1], E(m + 1))
    OBVIOUS
  <2>1. m + 1 \in 1 .. n /\ (m + 1) - 1 = m
    BY <1>1
  <2>2. c[m + 1] = IF symtab[m + 1] \in S THEN Append(c[m], symtab[m + 1]) ELSE c[m]
    BY <1>1, <1>2, <2>1 DEF Chooses
  <2>3. 1 .. m + 1 = (1 .. m) \cup {m + 1}
    OBVIOUS
  <2>4. Enumerates(c[m], E(m))
    BY <1>1, <1>4
  <2>5. CASE symtab[m + 1] \notin S
    <3>1. E(m + 1) = E(m)
      BY <2>3, <2>5
    <3> QED
      BY <2>2, <2>4, <2>5, <3>1
  <2>6. CASE symtab[m + 1] \in S
    <3>1. E(m + 1) = E(m) \cup {symtab[m + 1]}
      BY <2>3, <2>6
    <3>2. symtab[m + 1] \notin E(m)
      <4>1. \A k \in 1 .. m : k \in 1 .. n /\ k # m + 1
        BY <1>1, <2>1
      <4> QED
        BY <1>1, <2>1, <4>1
    <3> HIDE DEF E
    <3> QED
      BY <2>2, <2>4, <2>6, <3>1, <3>2, EnumeratesOneMore
  <2> QED
    BY <2>5, <2>6
<1>5. n \in N
  <2> HIDE DEF N
  <2> QED
    BY <1>1, <1>3, <1>4, NaturalInduction
<1>6. E(n) = T \cap S
  BY DEF Symtab
<1> QED
  <2>1. Enumerates(c[n], E(n))
    <3> HIDE DEF E
    <3> QED
      BY <1>1, <1>5
  <2> HIDE DEF E
  <2> QED
    BY <1>2, <1>6, <2>1

(* main is the one visible symbol, and the others are in their order.       *)
LEMMA SymbolsOfTheFile ==
    ASSUME InputInv
    PROVE  /\ ExportedSymbols = <<Main>>
           /\ ExternalSymbols \in Seq(Externals)
           /\ \A k \in 1 .. Len(relocs) : relocs[k].name \in Externals =>
                \E j \in 1 .. Len(ExternalSymbols) : ExternalSymbols[j] = relocs[k].name
<1> PICK S \in SUBSET Externals :
        \E n : /\ Symtab(n, S \cup {Main})
               /\ \A k \in 1 .. Len(relocs) : relocs[k] \in Relocation(S)
  BY SymtabHasAll
<1>1. PICK n : /\ Symtab(n, S \cup {Main})
               /\ \A k \in 1 .. Len(relocs) : relocs[k] \in Relocation(S)
  OBVIOUS
<1>2. Main \notin Externals /\ Main \notin Internals /\ Externals \cap Internals = {}
  BY ImageAssumption
<1>3. (S \cup {Main}) \cap Externals = S /\ (S \cup {Main}) \cap {Main} = {Main}
  BY <1>2
<1>4. Enumerates(ExternalSymbols, S) /\ Enumerates(ExportedSymbols, {Main})
  <2>1. /\ Enumerates(ExternalSymbols, (S \cup {Main}) \cap Externals)
        /\ Enumerates(ExportedSymbols, (S \cup {Main}) \cap {Main})
    BY <1>1, SymbolsChosen DEF ExternalSymbols, ExportedSymbols
  <2> QED
    BY <1>3, <2>1
<1>5. ExportedSymbols = <<Main>>
  <2>1. PICK c : c = ExportedSymbols
    OBVIOUS
  <2>2. c \in Seq({Main}) /\ Len(c) \in Nat /\ Len(c) >= 1
    BY <1>4, <2>1 DEF Enumerates
  <2>3. 1 \in 1 .. Len(c) /\ Len(c) \in 1 .. Len(c) /\ \A k \in 1 .. Len(c) : c[k] = Main
    BY <2>2
  <2>4. Len(c) = 1
    BY <1>4, <2>1, <2>3 DEF Enumerates
  <2>5. c = <<Main>>
    BY <2>2, <2>3, <2>4, SeqEqual
  <2> QED
    BY <2>1, <2>5
<1>6. ExternalSymbols \in Seq(Externals)
  BY <1>4 DEF Enumerates
<1>7. ASSUME NEW k \in 1 .. Len(relocs), relocs[k].name \in Externals
      PROVE  \E j \in 1 .. Len(ExternalSymbols) : ExternalSymbols[j] = relocs[k].name
  <2>1. relocs[k].name \in S
    BY <1>1, <1>2, <1>7 DEF Relocation
  <2> QED
    BY <1>4, <2>1 DEF Enumerates
<1> QED
  BY <1>5, <1>6, <1>7

-----------------------------------------------------------------------------
(* The parts of the file.                                                   *)

LEMMA ThreeParts ==
    ASSUME NEW R, NEW a \in Seq(R), NEW b \in Seq(R), NEW c \in Seq(R)
    PROVE  /\ a \o b \o c \in Seq(R) /\ Len(a \o b \o c) = Len(a) + Len(b) + Len(c)
           /\ \A k \in 1 .. Len(a) : (a \o b \o c)[k] = a[k]
           /\ \A k \in 1 .. Len(b) : (a \o b \o c)[Len(a) + k] = b[k]
<1>1. PICK x, y, z \in Nat : x = Len(a) /\ y = Len(b) /\ z = Len(c)
  OBVIOUS
<1>2. PICK d : d = a \o b
  OBVIOUS
<1>3. /\ d \in Seq(R) /\ Len(d) = x + y
      /\ \A k \in 1 .. x + y : d[k] = IF k <= x THEN a[k] ELSE b[k - x]
  BY <1>1, <1>2, ConcatProperties
<1>4. PICK e : e = d \o c
  OBVIOUS
<1>5. /\ e \in Seq(R) /\ Len(e) = x + y + z
      /\ \A k \in 1 .. x + y + z : e[k] = IF k <= x + y THEN d[k] ELSE c[k - (x + y)]
  <2>1. PICK w \in Nat : w = x + y
    OBVIOUS
  <2>2. /\ e \in Seq(R) /\ Len(e) = w + z
        /\ \A k \in 1 .. w + z : e[k] = IF k <= w THEN d[k] ELSE c[k - w]
    BY <1>1, <1>3, <1>4, <2>1, ConcatProperties
  <2> QED
    BY <2>1, <2>2
<1>6. ASSUME NEW k \in 1 .. x PROVE e[k] = a[k]
  <2>1. k \in 1 .. x + y /\ k \in 1 .. x + y + z /\ k <= x /\ k <= x + y
    OBVIOUS
  <2> QED
    BY <1>3, <1>5, <2>1
<1>7. ASSUME NEW k \in 1 .. y PROVE e[x + k] = b[k]
  <2>1. /\ x + k \in 1 .. x + y /\ x + k \in 1 .. x + y + z /\ ~(x + k <= x) /\ x + k <= x + y
        /\ (x + k) - x = k
    OBVIOUS
  <2> QED
    BY <1>3, <1>5, <2>1
<1> QED
  BY <1>1, <1>2, <1>4, <1>5, <1>6, <1>7

(* A file of n relocations and m symbols.                                   *)
FileOf(rel, sym, n, header, text, code) ==
    [a \in {0} \cup {RelAt(k) : k \in DOMAIN rel} \cup {SymAt(n, k) : k \in DOMAIN sym}
             \cup {code, code + CodeSize} |->
        IF a = 0 THEN header
        ELSE IF a = code THEN text
        ELSE IF a = code + CodeSize THEN "data"
        ELSE IF a < SymAt(n, 1) THEN rel[CHOOSE k \in DOMAIN rel : RelAt(k) = a]
        ELSE sym[CHOOSE k \in DOMAIN sym : SymAt(n, k) = a]]

(* Addresses of the parts: none is another's.                               *)
LEMMA PlacesDiffer ==
    ASSUME NEW n \in Nat, NEW m \in Nat, NEW code \in Nat, NEW size \in Nat, size > 0,
           code >= 24 + 8 * n + 12 * m
    PROVE  /\ code # 0 /\ code + size # 0 /\ code + size # code
           /\ \A k \in 1 .. n : LET a == 16 + 8 * k IN
                a # 0 /\ a # code /\ a # code + size /\ a < 24 + 8 * n
           /\ \A k \in 1 .. m : LET a == 12 + 8 * n + 12 * k IN
                a # 0 /\ a # code /\ a # code + size /\ ~(a < 24 + 8 * n)
           /\ \A j, k \in 1 .. n : 16 + 8 * j = 16 + 8 * k => j = k
           /\ \A j, k \in 1 .. m : 12 + 8 * n + 12 * j = 12 + 8 * n + 12 * k => j = k
<1>1. code # 0 /\ code + size # 0 /\ code + size # code
  OBVIOUS
<1>2. ASSUME NEW k \in 1 .. n
      PROVE  LET a == 16 + 8 * k IN a # 0 /\ a # code /\ a # code + size /\ a < 24 + 8 * n
  OBVIOUS
<1>3. ASSUME NEW k \in 1 .. m
      PROVE  LET a == 12 + 8 * n + 12 * k IN
                a # 0 /\ a # code /\ a # code + size /\ ~(a < 24 + 8 * n)
  OBVIOUS
<1>4. ASSUME NEW j \in 1 .. n, NEW k \in 1 .. n, 16 + 8 * j = 16 + 8 * k PROVE j = k
  BY <1>4
<1>5. ASSUME NEW j \in 1 .. m, NEW k \in 1 .. m, 12 + 8 * n + 12 * j = 12 + 8 * n + 12 * k
      PROVE  j = k
  BY <1>5
<1> QED
  BY <1>1, <1>2, <1>3, <1>4, <1>5

LEMMA PartsOfTheFile ==
    ASSUME NEW n \in Nat, NEW m \in Nat, NEW rel, NEW sym, NEW header, NEW text, NEW code \in Nat,
           DOMAIN rel = 1 .. n, DOMAIN sym = 1 .. m, code >= SymAt(n, m + 1),
           NEW file, file = FileOf(rel, sym, n, header, text, code)
    PROVE  /\ {0, code, code + CodeSize} \subseteq DOMAIN file
           /\ file[0] = header /\ file[code] = text /\ file[code + CodeSize] = "data"
           /\ \A k \in 1 .. n : RelAt(k) \in DOMAIN file /\ file[RelAt(k)] = rel[k]
           /\ \A k \in 1 .. m : SymAt(n, k) \in DOMAIN file /\ file[SymAt(n, k)] = sym[k]
<1>1. /\ \A k \in Int : RelAt(k) = 16 + 8 * k /\ SymAt(n, k) = 12 + 8 * n + 12 * k
      /\ CodeSize \in Nat /\ CodeSize > 0
  BY ImageAssumption DEF RelAt, SymAt, SizeOfHeader, SizeOfRelocation, SizeOfSymbol
<1>2. code >= 24 + 8 * n + 12 * m
  BY <1>1
<1> PICK size \in Nat : size = CodeSize /\ size > 0
  BY <1>1
<1> DEFINE Differ(a) == a # 0 /\ a # code /\ a # code + size
<1>3. /\ code # 0 /\ code + size # 0 /\ code + size # code
      /\ \A k \in 1 .. n : Differ(16 + 8 * k) /\ 16 + 8 * k < 24 + 8 * n
      /\ \A k \in 1 .. m : Differ(12 + 8 * n + 12 * k) /\ ~(12 + 8 * n + 12 * k < 24 + 8 * n)
      /\ \A j, k \in 1 .. n : 16 + 8 * j = 16 + 8 * k => j = k
      /\ \A j, k \in 1 .. m : 12 + 8 * n + 12 * j = 12 + 8 * n + 12 * k => j = k
  <2> HIDE DEF Differ
  <2>1. \A k \in 1 .. n : Differ(16 + 8 * k) /\ 16 + 8 * k < 24 + 8 * n
    BY <1>2, PlacesDiffer DEF Differ
  <2>2. \A k \in 1 .. m : Differ(12 + 8 * n + 12 * k) /\ ~(12 + 8 * n + 12 * k < 24 + 8 * n)
    BY <1>2, PlacesDiffer DEF Differ
  <2> QED
    BY <1>2, <2>1, <2>2, PlacesDiffer
<1>4. SymAt(n, 1) = 24 + 8 * n /\ (\A k \in 1 .. n : RelAt(k) = 16 + 8 * k)
      /\ \A k \in 1 .. m : SymAt(n, k) = 12 + 8 * n + 12 * k
  <2>1. SymAt(n, 1) = 24 + 8 * n
    <3>1. SymAt(n, 1) = 12 + 8 * n + 12 * 1
      BY <1>1
    <3> QED
      BY <3>1
  <2>2. (\A k \in 1 .. n : k \in Int) /\ \A k \in 1 .. m : k \in Int
    OBVIOUS
  <2> QED
    BY <1>1, <2>1, <2>2
<1>5. /\ {0, code, code + CodeSize} \subseteq DOMAIN file
      /\ file[0] = header /\ file[code] = text /\ file[code + CodeSize] = "data"
  BY <1>3 DEF FileOf
<1>6. ASSUME NEW k \in 1 .. n
      PROVE  RelAt(k) \in DOMAIN file /\ file[RelAt(k)] = rel[k]
  <2>1. PICK a : a = RelAt(k)
    OBVIOUS
  <2>2. Differ(a) /\ a < SymAt(n, 1)
    BY ZenonT(60), <1>3, <1>4, <2>1
  <2>3. (CHOOSE j \in DOMAIN rel : RelAt(j) = a) = k
    <3>1. \A j \in 1 .. n : RelAt(j) = a => j = k
      <4> SUFFICES ASSUME NEW j \in 1 .. n, RelAt(j) = a PROVE j = k
        OBVIOUS
      <4>1. 16 + 8 * j = 16 + 8 * k
        BY <1>4, <2>1
      <4> QED
        BY <1>3, <4>1
    <3> QED
      BY <2>1, <3>1
  <2>4. a \in DOMAIN file
    BY <2>1 DEF FileOf
  <2> QED
    BY <2>1, <2>2, <2>3, <2>4 DEF FileOf
<1>7. ASSUME NEW k \in 1 .. m
      PROVE  SymAt(n, k) \in DOMAIN file /\ file[SymAt(n, k)] = sym[k]
  <2>1. PICK a : a = SymAt(n, k)
    OBVIOUS
  <2>2. Differ(a) /\ ~(a < SymAt(n, 1))
    BY <1>3, <1>4, <2>1
  <2>3. (CHOOSE j \in DOMAIN sym : SymAt(n, j) = a) = k
    <3>1. \A j \in 1 .. m : SymAt(n, j) = a => j = k
      <4> SUFFICES ASSUME NEW j \in 1 .. m, SymAt(n, j) = a PROVE j = k
        OBVIOUS
      <4>1. 12 + 8 * n + 12 * j = 12 + 8 * n + 12 * k
        BY <1>4, <2>1
      <4> QED
        BY <1>3, <4>1
    <3> QED
      BY <2>1, <3>1
  <2>4. a \in DOMAIN file
    BY <2>1 DEF FileOf
  <2> QED
    BY <2>1, <2>2, <2>3, <2>4 DEF FileOf
<1> QED
  BY <1>5, <1>6, <1>7

LEMMA Aligned ==
    ASSUME NEW a \in Nat
    PROVE  /\ AlignUp(a) \in Nat /\ AlignUp(a) >= a
           /\ AlignUp(Base + a) = Base + AlignUp(a)
<1>1. a % 16 \in 0 .. 15
  OBVIOUS
<1>2. (Base + a) % 16 = a % 16
  BY SMTT(60), ImageAssumption
<1>3. Base \in Nat
  BY ImageAssumption
<1> QED
  BY <1>1, <1>2, <1>3 DEF AlignUp

LEMMA ElementsOf ==
    ASSUME NEW S, NEW s \in Seq(S)
    PROVE  /\ Len(s) \in Nat /\ DOMAIN s = 1 .. Len(s)
           /\ \A k \in 1 .. Len(s) : s[k] \in S /\ s[k] \in ToSet(s)
           /\ \A x \in ToSet(s) : x \in S /\ \E k \in 1 .. Len(s) : s[k] = x
BY DEF ToSet

LEMMA NumberOfReferences ==
    ASSUME InputInv
    PROVE  Len(relocs) \in 0 .. MaxRelocs /\ Len(relocs) \in Nat /\ Done \in Nat
<1>1. PICK S \in SUBSET Externals :
        symtab \in Orders(S \cup {Main}) /\ \E n \in 0..MaxRelocs : relocs \in [1..n -> Relocation(S)]
  BY DEF InputInv
<1>2. PICK n \in 0 .. MaxRelocs : relocs \in [1 .. n -> Relocation(S)]
  BY <1>1
<1>3. n \in Nat
  BY ImageAssumption
<1>4. Len(relocs) = n
  BY <1>2, <1>3
<1> QED
  BY <1>3, <1>4 DEF Done, InputInv

LEMMA RelocsDomain ==
    ASSUME InputInv
    PROVE  DOMAIN relocs = 1 .. Len(relocs)
<1>1. PICK S \in SUBSET Externals : \E n \in 0..MaxRelocs : relocs \in [1..n -> Relocation(S)]
  BY DEF InputInv
<1>2. PICK n \in 0..MaxRelocs : relocs \in [1..n -> Relocation(S)]
  BY <1>1
<1>3. n \in Nat
  BY ImageAssumption
<1> QED
  BY <1>2, <1>3

LEMMA FileUntouched ==
    ASSUME NEW file, FileHolds(file),
           symtab' = symtab, relocs' = relocs, pointers' = pointers,
           external' = external, local' = local, exported' = exported,
           index' = index, packed' = packed
    PROVE  FileHolds(file)'
<1>1. SymbolsOf(Externals)' = SymbolsOf(Externals)
  BY DEF SymbolsOf
<1>2. ExternalSymbols' = ExternalSymbols
  BY <1>1 DEF ExternalSymbols
<1>3. ExportedSymbols' = ExportedSymbols
  BY DEF ExportedSymbols, SymbolsOf
<1>4. \A k : OffsetToSymbol(k)' = OffsetToSymbol(k)
  BY <1>2, <1>3 DEF OffsetToSymbol, NumberOfExported
<1>5. PatchedText' = PatchedText
  BY DEF PatchedText, References
<1>6. NumRelocs' = NumRelocs /\ CodePlace' = CodePlace
  BY <1>2 DEF NumRelocs, CodePlace
<1> QED
  BY <1>2, <1>4, <1>5, <1>6 DEF FileHolds

(* What the generator writes.                                               *)
LEMMA FileIsWritten ==
    ASSUME InputInv, ExtractInv, PackInv, WriteImage, stage' # "rejected"
    PROVE  FileHolds(image')
<1>1. /\ external \in Seq(Extract(Externals)) /\ local \in Seq(Extract(Internals))
      /\ packed \in Seq(Extract(Externals)) /\ index \in Nat
      /\ ToSet(packed) \subseteq ToSet(external)
  <2>1. stage = "pack" /\ i = Len(external)
    BY DEF WriteImage
  <2>2. Packs(packed, external, i)
    BY <2>1 DEF PackInv
  <2>3. index \in Nat
    <3>1. IsFiniteSet(NamesIn(external))
      <4>1. NamesIn(external) \subseteq Externals
        <5>1. external \in Seq(Extract(Externals))
          BY DEF ExtractInv
        <5>2. \A k \in DOMAIN external : external[k] \in Extract(Externals)
          BY <5>1, ElementsOf
        <5> QED
          BY <5>2 DEF NamesIn, Extract
      <4> QED
        BY <4>1, FS_Subset, ImageAssumption
    <3> QED
      BY <3>1, FS_CardinalityType DEF ExtractInv
  <2> QED
    BY <2>2, <2>3 DEF ExtractInv, Packs
<1>2. pointers \in Seq([word : 0..(DataWords - 1), name : Internals])
  BY ImageAssumption DEF InputInv
<1>3. PICK np \in Nat, nl \in Nat, nd \in Nat :
        np = Len(packed) /\ nl = Len(local) /\ nd = Len(pointers)
  BY <1>1, <1>2
<1>4. /\ ExportedSymbols = <<Main>> /\ ExternalSymbols \in Seq(Externals)
  BY SymbolsOfTheFile
<1>5. PICK m \in Nat : m = Len(ExternalSymbols)
  BY <1>4
<1> DEFINE R == [index : Int, offset : Int]
           a == [k \in DOMAIN packed |-> [index |-> packed[k].lot, offset |-> OffsetToSymbol(k)]]
           b == [k \in DOMAIN local |-> [index |-> local[k].lot * 2 + SectionBit(local[k].name),
                                         offset |-> ImageValue(local[k].name)]]
<1>6. a \in Seq(R) /\ Len(a) = np
  <2>1. ASSUME NEW k \in 1 .. np
        PROVE  [index |-> packed[k].lot, offset |-> OffsetToSymbol(k)] \in R
    <3>1. packed[k] \in Extract(Externals) /\ packed[k] \in ToSet(external)
      <4>1. packed[k] \in Extract(Externals) /\ packed[k] \in ToSet(packed)
        BY <1>1, <1>3, ElementsOf
      <4> QED
        BY <1>1, <4>1
    <3>2. PICK j \in 1 .. m : ExternalSymbols[j] = packed[k].name
      <4>1. packed[k] \in Extracts
        BY <3>1 DEF Extracts
      <4>2. packed[k].at \in 1 .. Len(relocs) /\ packed[k].name = relocs[packed[k].at].name
        <5>1. /\ packed[k].at <= Done /\ Done <= Len(relocs)
              /\ packed[k].name = relocs[packed[k].at].name
          BY <4>1 DEF ExtractInv, Agree
        <5>2. packed[k].at \in Places
          BY <3>1 DEF Extract
        <5>3. Len(relocs) \in Nat /\ Done \in Nat
          BY NumberOfReferences
        <5> QED
          BY <5>1, <5>2, <5>3 DEF Places
      <4>3. packed[k].name \in Externals
        BY <3>1 DEF Extract
      <4> QED
        BY <1>5, <4>2, <4>3, SymbolsOfTheFile
    <3>3. PositionIn(ExternalSymbols, packed[k].name) \in 1 .. m
      BY <1>4, <1>5, <3>2 DEF PositionIn
    <3>4. OffsetToSymbol(k) \in Int
      <4>1. Len(ExportedSymbols) = 1
        BY <1>4
      <4> QED
        BY <1>3, <3>3, <4>1 DEF OffsetToSymbol, NumberOfExported, SizeOfRelocation, SizeOfSymbol
    <3> QED
      BY <3>1, <3>4 DEF Extract
  <2>2. DOMAIN packed = 1 .. np
    BY <1>1, <1>3
  <2> HIDE DEF R
  <2> QED
    BY <2>1, <2>2
<1>7. b \in Seq(R) /\ Len(b) = nl
  <2>1. ASSUME NEW k \in 1 .. nl
        PROVE  [index |-> local[k].lot * 2 + SectionBit(local[k].name),
                offset |-> ImageValue(local[k].name)] \in R
    <3>1. local[k].lot \in Nat /\ local[k].name \in Internals
      <4>1. local[k] \in Extract(Internals)
        BY <1>1, <1>3, ElementsOf
      <4> QED
        BY <4>1 DEF Extract
    <3>2. SectionBit(local[k].name) \in Int
      BY DEF SectionBit
    <3>3. ImageValue(local[k].name) \in Int
      BY <3>1, ImageAssumption DEF ImageValue
    <3> QED
      BY <3>1, <3>2, <3>3
  <2>2. DOMAIN local = 1 .. nl
    BY <1>1, <1>3
  <2> HIDE DEF R
  <2> QED
    BY <2>1, <2>2
<1>8. DataRelocations \in Seq(R) /\ Len(DataRelocations) = nd
  <2>1. ASSUME NEW k \in 1 .. nd
        PROVE  [index |-> pointers[k].word + index, offset |-> Values[pointers[k].name]] \in R
    <3>1. pointers[k].word \in Int /\ pointers[k].name \in Internals
      <4> DEFINE P == [word : 0..(DataWords - 1), name : Internals]
      <4>1. pointers \in Seq(P)
        BY <1>2
      <4>2. pointers[k] \in P
        <5> HIDE DEF P
        <5> QED
          BY <1>3, <4>1, ElementsOf
      <4> QED
        BY <4>2, ImageAssumption
    <3>2. Values[pointers[k].name] \in Int
      BY <3>1, ImageAssumption
    <3> QED
      BY <1>1, <3>1, <3>2
  <2>2. DOMAIN pointers = 1 .. nd
    BY <1>2, <1>3
  <2> HIDE DEF R
  <2> QED
    BY <2>1, <2>2 DEF DataRelocations
<1>9. PICK rel : rel = ImageRelocations
  OBVIOUS
<1>10. /\ rel \in Seq(R) /\ Len(rel) = np + nl + nd
       /\ \A k \in 1 .. np : rel[k] = a[k]
       /\ \A k \in 1 .. nl : rel[np + k] = b[k]
  <2>1. rel = a \o b \o DataRelocations
    BY <1>9 DEF ImageRelocations
  <2> PICK c : c = DataRelocations
    OBVIOUS
  <2> HIDE DEF R, a, b
  <2>2. PICK x \in Seq(R), y \in Seq(R), z \in Seq(R) : x = a /\ y = b /\ z = c
    BY <1>6, <1>7, <1>8
  <2>3. /\ x \o y \o z \in Seq(R) /\ Len(x \o y \o z) = Len(x) + Len(y) + Len(z)
        /\ \A k \in 1 .. Len(x) : (x \o y \o z)[k] = x[k]
        /\ \A k \in 1 .. Len(y) : (x \o y \o z)[Len(x) + k] = y[k]
    <3>1. x \in Seq(R) /\ y \in Seq(R) /\ z \in Seq(R)
      OBVIOUS
    <3>2. x \o y \o z \in Seq(R)
      BY <3>1, ThreeParts
    <3>3. Len(x \o y \o z) = Len(x) + Len(y) + Len(z)
      BY <3>1, ThreeParts
    <3>4. \A k \in 1 .. Len(x) : (x \o y \o z)[k] = x[k]
      BY <3>1, ThreeParts
    <3>5. \A k \in 1 .. Len(y) : (x \o y \o z)[Len(x) + k] = y[k]
      BY <3>1, ThreeParts
    <3> QED
      BY <3>2, <3>3, <3>4, <3>5
  <2>4. rel = x \o y \o z /\ Len(x) = np /\ Len(y) = nl /\ Len(z) = nd
    BY <1>6, <1>7, <1>8, <2>1, <2>2
  <2> QED
    BY <2>2, <2>3, <2>4
<1>11. PICK sym : sym = ImageSymbols
  OBVIOUS
<1>12. /\ DOMAIN sym = 1 .. m + 1 /\ Len(sym) = m + 1
       /\ sym[1] = [code |-> Main, offset |-> Values[Main]]
       /\ \A k \in 1 .. m : sym[k + 1] = [code |-> ExternalSymbols[k], offset |-> 0]
  <2> DEFINE M == [code : Externals \cup {Main}, offset : Int]
             c == [k \in DOMAIN ExportedSymbols |->
                    [code |-> ExportedSymbols[k], offset |-> ImageValue(ExportedSymbols[k])]]
             d == [k \in DOMAIN ExternalSymbols |-> [code |-> ExternalSymbols[k], offset |-> 0]]
  <2>1. ImageValue(Main) = Values[Main] /\ Values[Main] \in Int
    BY ImageAssumption DEF ImageValue, SectionBit
  <2>2. c \in Seq(M) /\ Len(c) = 1 /\ c[1] = [code |-> Main, offset |-> Values[Main]]
    <3>1. DOMAIN ExportedSymbols = 1 .. 1 /\ ExportedSymbols[1] = Main
      BY <1>4
    <3>2. c = [k \in 1 .. 1 |-> [code |-> Main, offset |-> Values[Main]]]
      BY <2>1, <3>1
    <3>3. [code |-> Main, offset |-> Values[Main]] \in M
      BY <2>1
    <3> HIDE DEF M, c
    <3> QED
      BY <3>2, <3>3
  <2>3. d \in Seq(M) /\ Len(d) = m /\ \A k \in 1 .. m : d[k] = [code |-> ExternalSymbols[k], offset |-> 0]
    <3>1. DOMAIN ExternalSymbols = 1 .. m
      BY <1>4, <1>5
    <3>2. \A k \in 1 .. m : [code |-> ExternalSymbols[k], offset |-> 0] \in M
      BY <1>4, <1>5
    <3> HIDE DEF M
    <3> QED
      BY <3>1, <3>2
  <2>4. sym = c \o d
    BY <1>11 DEF ImageSymbols
  <2> HIDE DEF M, c, d
  <2>5. /\ sym \in Seq(M) /\ Len(sym) = 1 + m
        /\ \A k \in 1 .. 1 + m : sym[k] = IF k <= 1 THEN c[k] ELSE d[k - 1]
    <3>1. PICK x \in Seq(M), y \in Seq(M) : x = c /\ y = d
      BY <2>2, <2>3
    <3>2. /\ x \o y \in Seq(M) /\ Len(x \o y) = Len(x) + Len(y)
          /\ \A k \in 1 .. Len(x) + Len(y) : (x \o y)[k] = IF k <= Len(x) THEN x[k] ELSE y[k - Len(x)]
      BY ConcatProperties
    <3>3. Len(x) = 1 /\ Len(y) = m /\ sym = x \o y
      BY <2>2, <2>3, <2>4, <3>1
    <3> QED
      BY <3>1, <3>2, <3>3
  <2>6. \A k \in 1 .. m : k + 1 \in 1 .. 1 + m /\ ~(k + 1 <= 1) /\ (k + 1) - 1 = k
    OBVIOUS
  <2>7. 1 + m = m + 1 /\ 1 \in 1 .. 1 + m
    OBVIOUS
  <2> QED
    BY <2>2, <2>3, <2>5, <2>6, <2>7
<1>13. PICK n \in Nat : n = np + nl + nd
  OBVIOUS
<1>14. PICK code : code = AlignUp(SymAt(n, m + 2))
  OBVIOUS
<1>15. code \in Nat /\ code >= SymAt(n, (m + 1) + 1) /\ code = CodePlace
  <2>1. SymAt(n, m + 2) \in Nat
    BY DEF SymAt, RelAt, SizeOfHeader, SizeOfRelocation, SizeOfSymbol
  <2>2. (m + 1) + 1 = m + 2
    OBVIOUS
  <2>3. CodePlace = code
    BY <1>3, <1>5, <1>13, <1>14 DEF CodePlace, NumRelocs
  <2> QED
    BY <1>14, <2>1, <2>2, <2>3, Aligned
<1> DEFINE header == [external |-> Len(packed), local |-> Len(local),
                      data |-> Len(pointers), symbols |-> Len(ExternalSymbols)]
<1>16. image' = FileOf(rel, sym, n, header, PatchedText, code)
  <2>1. Len(rel) = n /\ Len(sym) + 1 = m + 2
    BY <1>10, <1>12, <1>13
  <2>2. image' = FileOf(ImageRelocations, ImageSymbols, Len(ImageRelocations), header, PatchedText,
                        AlignUp(SymAt(Len(ImageRelocations), Len(ImageSymbols) + 1)))
    BY DEF WriteImage, FileOf, SymAt, RelAt, Enter
  <2> HIDE DEF header
  <2> QED
    BY <1>9, <1>11, <1>14, <2>1, <2>2
<1>17. PICK file : file = image'
  OBVIOUS
<1>18. /\ {0, code, code + CodeSize} \subseteq DOMAIN file
       /\ file[0] = header /\ file[code] = PatchedText /\ file[code + CodeSize] = "data"
       /\ \A k \in 1 .. n : RelAt(k) \in DOMAIN file /\ file[RelAt(k)] = rel[k]
       /\ \A k \in 1 .. m + 1 : SymAt(n, k) \in DOMAIN file /\ file[SymAt(n, k)] = sym[k]
  <2>1. DOMAIN rel = 1 .. n /\ m + 1 \in Nat
    BY <1>10, <1>13
  <2> HIDE DEF header
  <2> QED
    BY <1>12, <1>15, <1>16, <1>17, <2>1, PartsOfTheFile
<1>19. NumRelocs = n
  BY <1>3, <1>13 DEF NumRelocs
<1>20. \A k \in 1 .. np : k \in 1 .. n /\ rel[k] = [index |-> packed[k].lot, offset |-> OffsetToSymbol(k)]
  <2>1. DOMAIN packed = 1 .. np /\ \A k \in 1 .. np : k \in 1 .. n
    BY <1>1, <1>3, <1>13, ElementsOf
  <2>2. \A k \in 1 .. np : a[k] = [index |-> packed[k].lot, offset |-> OffsetToSymbol(k)]
    BY <2>1
  <2> HIDE DEF a
  <2> QED
    BY <1>10, <2>1, <2>2
<1>21. \A k \in 1 .. nl :
        np + k \in 1 .. n
        /\ rel[np + k] = [index |-> local[k].lot * 2 + SectionBit(local[k].name),
                          offset |-> ImageValue(local[k].name)]
  <2>1. DOMAIN local = 1 .. nl /\ \A k \in 1 .. nl : np + k \in 1 .. n
    BY <1>1, <1>3, <1>13, ElementsOf
  <2>2. \A k \in 1 .. nl : b[k] = [index |-> local[k].lot * 2 + SectionBit(local[k].name),
                                   offset |-> ImageValue(local[k].name)]
    BY <2>1
  <2> HIDE DEF b
  <2> QED
    BY <1>10, <2>1, <2>2
<1>22. 1 \in 1 .. m + 1 /\ \A k \in 1 .. m : k + 1 \in 1 .. m + 1
  OBVIOUS
<1> QED
  BY <1>3, <1>5, <1>12, <1>15, <1>17, <1>18, <1>19, <1>20, <1>21, <1>22 DEF FileHolds

-----------------------------------------------------------------------------
(* The generator looks at the references.                                   *)

(* Another reference to an external symbol.                                 *)
LEMMA OneMoreExternal ==
    ASSUME NEW E, NEW X \in SUBSET E, NEW rs, NEW d \in Nat, NEW n \in Nat, NEW m \in Nat,
           Agree(E, X, rs, d, n), \A r \in E : r.at \in Nat /\ r.lot \in Nat,
           NEW e, e.at = d + 1, e.lot \in Nat, e.name = rs[d + 1].name,
           \/ e.lot = n /\ m = n + 1 /\ \A r \in X : r.name # e.name
           \/ m = n /\ \E r \in X : r.name = e.name /\ r.lot = e.lot
    PROVE  Agree(E \cup {e}, X \cup {e}, rs, d + 1, m)
<1>1. \A r \in E : r.at <= d /\ r.at # d + 1 /\ r.lot < n /\ r.lot # n /\ r.name = rs[r.at].name
  BY DEF Agree
<1>2. n <= m /\ e.lot < m
  <2>1. CASE e.lot = n /\ m = n + 1
    BY <2>1
  <2>2. CASE m = n /\ \E r \in X : r.lot = e.lot
    BY <1>1, <2>2
  <2> QED
    BY <2>1, <2>2
<1>3. \A r \in E \cup {e} : r.at <= d + 1 /\ r.lot < m /\ r.name = rs[r.at].name
  <2>1. ASSUME NEW r \in E PROVE r.at <= d + 1 /\ r.lot < m /\ r.name = rs[r.at].name
    <3>1. r.at \in Nat /\ r.lot \in Nat /\ r.at <= d /\ r.lot < n /\ r.name = rs[r.at].name
      BY <1>1
    <3> QED
      BY <1>2, <3>1
  <2> QED
    BY <1>2, <2>1
<1>4. ASSUME NEW r \in E \cup {e}, NEW q \in E \cup {e}, r.at = q.at PROVE r = q
  BY <1>1, <1>4 DEF Agree
<1>5. ASSUME NEW r \in E PROVE r.lot = e.lot => r.name = e.name
  <2>1. CASE e.lot = n
    BY <1>1, <2>1
  <2>2. CASE \E q \in X : q.name = e.name /\ q.lot = e.lot
    BY <2>2 DEF Agree
  <2> QED
    BY <2>1, <2>2
<1>6. ASSUME NEW r \in E \cup {e}, NEW q \in E \cup {e}, r.lot = q.lot PROVE r.name = q.name
  BY <1>5, <1>6 DEF Agree
<1>7. ASSUME NEW r \in X PROVE r.name = e.name => r.lot = e.lot
  BY DEF Agree
<1>8. ASSUME NEW r \in X \cup {e}, NEW q \in X \cup {e}, r.name = q.name PROVE r.lot = q.lot
  BY <1>7, <1>8 DEF Agree
<1>9. ASSUME NEW k \in 1 .. d + 1, rs[k].type = "GOT_BREL" PROVE \E r \in E \cup {e} : r.at = k
  <2>1. k \in 1 .. d \/ k = d + 1
    OBVIOUS
  <2> QED
    BY <1>9, <2>1 DEF Agree
<1> QED
  BY <1>3, <1>4, <1>6, <1>8, <1>9 DEF Agree

(* Another reference to one of the module's own symbols.                    *)
LEMMA OneMoreInternal ==
    ASSUME NEW E, NEW X \in SUBSET E, NEW rs, NEW d \in Nat, NEW n \in Nat,
           Agree(E, X, rs, d, n), \A r \in E : r.at \in Nat /\ r.lot \in Nat,
           NEW e, e.at = d + 1, e.lot = n, e.name = rs[d + 1].name
    PROVE  Agree(E \cup {e}, X, rs, d + 1, n + 1)
<1>1. \A r \in E : r.at <= d /\ r.at # d + 1 /\ r.lot < n /\ r.lot # n /\ r.name = rs[r.at].name
  BY DEF Agree
<1>2. \A r \in E \cup {e} : r.at <= d + 1 /\ r.lot < n + 1 /\ r.name = rs[r.at].name
  BY <1>1
<1>3. ASSUME NEW r \in E \cup {e}, NEW q \in E \cup {e}, r.at = q.at PROVE r = q
  BY <1>1, <1>3 DEF Agree
<1>4. ASSUME NEW r \in E \cup {e}, NEW q \in E \cup {e}, r.lot = q.lot PROVE r.name = q.name
  BY <1>1, <1>4 DEF Agree
<1>5. ASSUME NEW k \in 1 .. d + 1, rs[k].type = "GOT_BREL" PROVE \E r \in E \cup {e} : r.at = k
  <2>1. k \in 1 .. d \/ k = d + 1
    OBVIOUS
  <2> QED
    BY <1>5, <2>1 DEF Agree
<1> QED
  BY <1>2, <1>3, <1>4, <1>5 DEF Agree

LEMMA ToSetAppend ==
    ASSUME NEW S, NEW s \in Seq(S), NEW e \in S
    PROVE  ToSet(Append(s, e)) = ToSet(s) \cup {e} /\ NamesIn(Append(s, e)) = NamesIn(s) \cup {e.name}
<1>1. PICK n \in Nat : n = Len(s) /\ DOMAIN s = 1 .. n
  OBVIOUS
<1>2. PICK t : t = Append(s, e)
  OBVIOUS
<1>3. DOMAIN t = 1 .. n + 1 /\ t[n + 1] = e /\ \A k \in 1 .. n : t[k] = s[k]
  BY <1>1, <1>2, AppendProperties
<1>4. 1 .. n + 1 = (1 .. n) \cup {n + 1}
  OBVIOUS
<1> QED
  BY <1>1, <1>2, <1>3, <1>4 DEF ToSet, NamesIn

LEMMA ExtractsType ==
    ASSUME ExtractInv
    PROVE  /\ \A r \in Extracts : r.at \in Nat /\ r.at \in Places /\ r.lot \in Nat
           /\ \A r \in ToSet(external) : r.name \in Externals
           /\ \A r \in ToSet(local) : r.name \in Internals
           /\ IsFiniteSet(NamesIn(external)) /\ Len(local) \in Nat
           /\ Cardinality(NamesIn(external)) \in Nat /\ index \in Nat
<1>1. \A r \in ToSet(external) : r \in Extract(Externals)
  BY ElementsOf DEF ExtractInv
<1>2. \A r \in ToSet(local) : r \in Extract(Internals)
  BY ElementsOf DEF ExtractInv
<1>3. \A r \in Extracts : r.at \in Nat /\ r.at \in Places /\ r.lot \in Nat
  BY <1>1, <1>2 DEF Extracts, Extract, Places
<1>4. NamesIn(external) \subseteq Externals
  <2>1. \A k \in DOMAIN external : external[k] \in ToSet(external)
    BY DEF ToSet
  <2> QED
    BY <1>1, <2>1 DEF NamesIn, Extract
<1>5. IsFiniteSet(NamesIn(external)) /\ Cardinality(NamesIn(external)) \in Nat
  BY <1>4, FS_Subset, FS_CardinalityType, ImageAssumption
<1>6. Len(local) \in Nat
  BY ElementsOf DEF ExtractInv
<1> QED
  BY <1>1, <1>2, <1>3, <1>5, <1>6 DEF Extract, ExtractInv

LEMMA ExtractExternalStep ==
    ASSUME InputInv, ExtractInv, ExtractExternal
    PROVE  ExtractInv'
<1>1. /\ stage = "extract" /\ i < Len(relocs) /\ relocs[i + 1].name \in Externals
      /\ i' = i + 1 /\ stage' = stage /\ relocs' = relocs /\ local' = local
      /\ exported' = exported
  BY DEF ExtractExternal, Extracting, input
<1>2. i \in Nat /\ Len(relocs) \in 0 .. MaxRelocs /\ Done = i /\ Done' = i + 1
  BY <1>1, NumberOfReferences DEF InputInv, Done
<1>3. i + 1 \in Places /\ i + 1 <= Len(relocs)
  BY <1>1, <1>2, ImageAssumption DEF Places
<1>4. PICK name : name = relocs[i + 1].name
  OBVIOUS
<1>5. PICK old : old = HasRelocation(external, name)
  OBVIOUS
<1>6. PICK entry : entry = IF old THEN IndexOfRelocation(external, name) ELSE index
  OBVIOUS
<1> DEFINE e == [name |-> name, at |-> i + 1, lot |-> entry]
<1>7. external' = Append(external, e) /\ index' = IF old THEN index ELSE index + 1
  BY <1>4, <1>5, <1>6 DEF ExtractExternal
<1>8. /\ external \in Seq(Extract(Externals)) /\ ToSet(external) \subseteq Extracts
      /\ DOMAIN external = 1 .. Len(external) /\ Len(external) \in Nat
      /\ \A k \in DOMAIN external : external[k] \in ToSet(external)
  BY DEF ExtractInv, Extracts, ToSet
<1>9. ASSUME old
      PROVE  \E r \in ToSet(external) : r.name = name /\ r.lot = entry
  <2>1. \E k \in 1 .. Len(external) : external[k].name = name
    BY <1>5, <1>8, <1>9 DEF HasRelocation
  <2> DEFINE K == {k \in 1 .. Len(external) : external[k].name = name}
  <2>2. PICK k \in K : \A j \in K : k <= j
    <3>1. K \subseteq Nat /\ K # {}
      BY <2>1
    <3> HIDE DEF K
    <3> QED
      BY <3>1, LeastNatural
  <2>3. /\ k \in DOMAIN external /\ external[k].name = name
        /\ \A j \in 1 .. (k - 1) : external[j].name # name
    <3>1. k \in 1 .. Len(external) /\ external[k].name = name
      BY <2>2
    <3>2. \A j \in 1 .. (k - 1) : j \in 1 .. Len(external) /\ ~(k <= j)
      BY <1>8, <3>1
    <3> QED
      BY <1>8, <2>2, <3>1, <3>2
  <2>4. PICK c : c = CHOOSE j \in DOMAIN external :
                external[j].name = name /\ \A l \in 1 .. (j - 1) : external[l].name # name
    OBVIOUS
  <2>5. c \in DOMAIN external /\ external[c].name = name
    BY <2>3, <2>4
  <2>6. entry = external[c].lot
    BY <1>5, <1>6, <1>9, <2>4 DEF IndexOfRelocation
  <2> QED
    BY <1>8, <2>5, <2>6
<1>10. ASSUME ~old
       PROVE  entry = index /\ \A r \in ToSet(external) : r.name # name
  BY <1>5, <1>6, <1>10 DEF HasRelocation, ToSet
<1>11. index \in Nat /\ index' \in Nat /\ entry \in Nat
  <2>1. index \in Nat
    BY ExtractsType
  <2>2. CASE old
    BY <1>7, <1>8, <1>9, <2>1, <2>2, ExtractsType
  <2>3. CASE ~old
    BY <1>7, <1>10, <2>1, <2>3
  <2> QED
    BY <2>1, <2>2, <2>3
<1>12. e \in Extract(Externals)
  BY <1>1, <1>3, <1>4, <1>11 DEF Extract
<1>13. /\ external' \in Seq(Extract(Externals)) /\ ToSet(external)' = ToSet(external) \cup {e}
       /\ NamesIn(external)' = NamesIn(external) \cup {name}
  <2>1. PICK t : t = Append(external, e)
    OBVIOUS
  <2> HIDE DEF e
  <2>2. t \in Seq(Extract(Externals)) /\ ToSet(t) = ToSet(external) \cup {e}
        /\ NamesIn(t) = NamesIn(external) \cup {e.name}
    BY <1>8, <1>12, <2>1, ToSetAppend, AppendProperties
  <2>3. e.name = name
    BY DEF e
  <2> QED
    BY <1>7, <2>1, <2>2, <2>3
<1>14. Extracts' = Extracts \cup {e}
  BY <1>1, <1>13 DEF Extracts
<1>15. Agree(Extracts \cup {e}, ToSet(external) \cup {e}, relocs, i + 1, index')
  <2>1. PICK m \in Nat : m = index'
    BY <1>11
  <2>2. PICK E, X : E = Extracts /\ X = ToSet(external)
    OBVIOUS
  <2>3. X \in SUBSET E /\ Agree(E, X, relocs, i, index) /\ \A r \in E : r.at \in Nat /\ r.lot \in Nat
    BY <1>2, <1>8, <2>2, ExtractsType DEF ExtractInv
  <2>4. \/ e.lot = index /\ m = index + 1 /\ \A r \in X : r.name # e.name
        \/ m = index /\ \E r \in X : r.name = e.name /\ r.lot = e.lot
    BY <1>7, <1>9, <1>10, <2>1, <2>2
  <2>5. e.at = i + 1 /\ e.lot \in Nat /\ e.name = relocs[i + 1].name
    BY <1>4, <1>11
  <2> HIDE DEF e
  <2> QED
    BY <1>2, <1>11, <2>1, <2>2, <2>3, <2>4, <2>5, OneMoreExternal
<1>16. index' = Cardinality(NamesIn(external) \cup {name}) + Len(local)
  <2>1. index = Cardinality(NamesIn(external)) + Len(local)
    BY DEF ExtractInv
  <2>2. name \in NamesIn(external) <=> old
    BY <1>5 DEF HasRelocation, NamesIn
  <2>3. /\ IsFiniteSet(NamesIn(external)) /\ Cardinality(NamesIn(external)) \in Nat
        /\ Len(local) \in Nat
    BY ExtractsType
  <2>4. Cardinality(NamesIn(external) \cup {name}) =
            IF old THEN Cardinality(NamesIn(external)) ELSE Cardinality(NamesIn(external)) + 1
    BY <2>2, <2>3, FS_AddElement
  <2> QED
    BY <1>7, <2>1, <2>3, <2>4
<1>17. local' \in Seq(Extract(Internals)) /\ Len(local)' = Len(local)
  BY <1>1 DEF ExtractInv
<1> HIDE DEF e
<1> QED
  BY <1>1, <1>2, <1>3, <1>13, <1>14, <1>15, <1>16, <1>17 DEF ExtractInv

LEMMA ExtractInternalStep ==
    ASSUME InputInv, ExtractInv, ExtractInternal
    PROVE  ExtractInv'
<1>1. /\ stage = "extract" /\ i < Len(relocs) /\ relocs[i + 1].name \in Internals
      /\ i' = i + 1 /\ stage' = stage /\ relocs' = relocs /\ external' = external
      /\ index' = index + 1 /\ exported' = exported
  BY DEF ExtractInternal, Extracting, input
<1>2. i \in Nat /\ Len(relocs) \in 0 .. MaxRelocs /\ Done = i /\ Done' = i + 1
  BY <1>1, NumberOfReferences DEF InputInv, Done
<1>3. i + 1 \in Places /\ i + 1 <= Len(relocs)
  BY <1>1, <1>2, ImageAssumption DEF Places
<1>4. index \in Nat
  BY ExtractsType
<1> DEFINE e == [name |-> relocs[i + 1].name, at |-> i + 1, lot |-> index]
<1>5. local' = Append(local, e) /\ local \in Seq(Extract(Internals))
  BY DEF ExtractInternal, ExtractInv
<1>6. e \in Extract(Internals) /\ e.at = i + 1 /\ e.lot = index /\ e.name = relocs[i + 1].name
  BY <1>1, <1>3, <1>4 DEF Extract
<1> HIDE DEF e
<1>7. /\ local' \in Seq(Extract(Internals)) /\ ToSet(local)' = ToSet(local) \cup {e}
      /\ Len(local)' = Len(local) + 1
  <2>1. PICK t : t = Append(local, e)
    OBVIOUS
  <2>2. t \in Seq(Extract(Internals)) /\ ToSet(t) = ToSet(local) \cup {e} /\ Len(t) = Len(local) + 1
    BY <1>5, <1>6, <2>1, ToSetAppend, AppendProperties
  <2> QED
    BY <1>5, <2>1, <2>2
<1>8. Extracts' = Extracts \cup {e}
  BY <1>1, <1>7 DEF Extracts
<1>9. Agree(Extracts \cup {e}, ToSet(external), relocs, i + 1, index + 1)
  <2>1. PICK E, X : E = Extracts /\ X = ToSet(external)
    OBVIOUS
  <2>2. X \in SUBSET E /\ Agree(E, X, relocs, i, index) /\ \A r \in E : r.at \in Nat /\ r.lot \in Nat
    BY <1>2, <2>1, ExtractsType DEF ExtractInv, Extracts
  <2> QED
    BY <1>2, <1>4, <1>6, <2>1, <2>2, OneMoreInternal
<1>10. index + 1 = Cardinality(NamesIn(external)) + (Len(local) + 1)
  BY ExtractsType DEF ExtractInv
<1>11. ToSet(external)' = ToSet(external) /\ NamesIn(external)' = NamesIn(external)
  BY <1>1
<1> QED
  BY <1>1, <1>2, <1>3, <1>7, <1>8, <1>9, <1>10, <1>11 DEF ExtractInv

LEMMA ExtractKept ==
    ASSUME InputInv, ExtractInv, [Next]_vars, ~MainReferred, stage' # "rejected"
    PROVE  ExtractInv'
<1>1. ASSUME relocs' = relocs, external' = external, local' = local, index' = index,
             exported' = exported, Done' = Done
      PROVE  ExtractInv'
  <2>1. Extracts' = Extracts
    BY <1>1 DEF Extracts
  <2> QED
    BY <1>1, <2>1 DEF ExtractInv
<1>2. CASE SkipCall
  <2>1. /\ stage = "extract" /\ i < Len(relocs) /\ relocs[i + 1].type = "THM_CALL"
        /\ i' = i + 1 /\ stage' = stage /\ relocs' = relocs
        /\ external' = external /\ local' = local /\ index' = index /\ exported' = exported
    BY <1>2 DEF SkipCall, Extracting, input, generated
  <2>2. Done = i /\ Done' = i + 1 /\ i \in Nat /\ Len(relocs) \in Nat
    BY <2>1, NumberOfReferences DEF Done, InputInv
  <2>3. Extracts' = Extracts /\ ToSet(external)' = ToSet(external) /\ NamesIn(external)' = NamesIn(external)
    BY <2>1 DEF Extracts
  <2>4. Agree(Extracts, ToSet(external), relocs, i + 1, index)
    <3>1. Agree(Extracts, ToSet(external), relocs, i, index)
      BY <2>2 DEF ExtractInv
    <3>2. \A r \in Extracts : r.at \in Nat
      BY ExtractsType
    <3>3. \A r \in Extracts : r.at <= i + 1
      BY <2>2, <3>1, <3>2 DEF Agree
    <3>4. \A k \in 1 .. i + 1 : k \in 1 .. i \/ k = i + 1
      BY <2>2
    <3>5. \A k \in 1 .. i + 1 : relocs[k].type = "GOT_BREL" => \E r \in Extracts : r.at = k
      BY <2>1, <3>1, <3>4 DEF Agree
    <3> QED
      BY <3>1, <3>3, <3>5 DEF Agree
  <2> QED
    BY <2>1, <2>2, <2>3, <2>4 DEF ExtractInv
<1>3. CASE Extracted
  <2>1. stage = "extract" /\ i = Len(relocs) /\ stage' = "pack"
    BY <1>3 DEF Extracted, Enter
  <2>2. /\ relocs' = relocs /\ external' = external /\ local' = local /\ index' = index
        /\ exported' = exported
    BY <1>3 DEF Extracted, input, generated
  <2>3. Done' = Done
    BY <2>1, <2>2 DEF Done
  <2> QED
    BY <1>1, <2>2, <2>3
<1>4. CASE \/ PackExternal \/ WriteImage \/ Load \/ LoadRefused \/ ResolveExternal \/ ResolvedExternals
           \/ ResolveLocal \/ ResolvedLocals \/ ResolveData \/ ResolvedData
  <2>1. stage # "extract" /\ stage' # "extract"
    BY <1>4 DEF PackExternal, WriteImage, Load, LoadRefused, ResolveExternal, ResolvedExternals,
                ResolveLocal, ResolvedLocals, ResolveData, ResolvedData, Enter
  <2>2. /\ relocs' = relocs /\ external' = external /\ local' = local /\ index' = index
        /\ exported' = exported
    BY <1>4 DEF PackExternal, WriteImage, Load, LoadRefused, ResolveExternal, ResolvedExternals,
                ResolveLocal, ResolvedLocals, ResolveData, ResolvedData, input, generated
  <2>3. Done' = Done
    BY <2>1, <2>2 DEF Done
  <2> QED
    BY <1>1, <2>2, <2>3
<1>5. CASE UNCHANGED vars
  <2>1. /\ relocs' = relocs /\ external' = external /\ local' = local /\ index' = index
        /\ stage' = stage /\ i' = i /\ exported' = exported
    BY <1>5 DEF vars, input, generated
  <2>2. Done' = Done
    BY <2>1 DEF Done
  <2> QED
    BY <1>1, <2>1, <2>2
<1>6. ~ExtractExported
  <2>1. SUFFICES ASSUME ExtractExported
                 PROVE  FALSE
    OBVIOUS
  <2>2. i < Len(relocs) /\ relocs[i + 1].type = "GOT_BREL" /\ relocs[i + 1].name = Main
    BY <2>1 DEF ExtractExported, Extracting
  <2>3. i + 1 \in 1 .. Len(relocs)
    BY <2>2, NumberOfReferences DEF InputInv
  <2>4. relocs[i + 1] \in ToSet(relocs)
    BY <2>3, RelocsDomain DEF ToSet
  <2> QED
    BY <2>2, <2>4 DEF MainReferred
<1>7. ~UnknownRelocation
  BY DEF UnknownRelocation, Enter
<1> QED
  BY <1>2, <1>3, <1>4, <1>5, <1>6, <1>7, ExtractExternalStep, ExtractInternalStep DEF Next

LEMMA InputKept ==
    ASSUME InputInv, [Next]_vars
    PROVE  InputInv'
<1>1. symtab' = symtab /\ relocs' = relocs /\ pointers' = pointers
  BY DEF Next, vars, input, SkipCall, ExtractExternal, ExtractInternal, ExtractExported,
         UnknownRelocation, Extracted, PackExternal,
         WriteImage, Load, LoadRefused, ResolveExternal, ResolvedExternals, ResolveLocal, ResolvedLocals,
         ResolveData, ResolvedData
<1>2. i \in Nat /\ stage \in Stages
  BY DEF InputInv
<1>3. i' \in Nat /\ stage' \in Stages
  <2>1. CASE SkipCall \/ ExtractExternal \/ ExtractInternal \/ ExtractExported
    BY <1>2, <2>1 DEF SkipCall, ExtractExternal, ExtractInternal, ExtractExported, Extracting
  <2>2. CASE PackExternal \/ ResolveExternal \/ ResolveLocal \/ ResolveData
    BY <1>2, <2>2 DEF PackExternal, ResolveExternal, ResolveLocal, ResolveData
  <2>3. CASE \/ UnknownRelocation \/ Extracted \/ WriteImage \/ Load \/ LoadRefused
           \/ ResolvedExternals \/ ResolvedLocals \/ ResolvedData
    BY <2>3 DEF UnknownRelocation, Extracted, WriteImage, Load, LoadRefused, ResolvedExternals,
                ResolvedLocals, ResolvedData,
                Enter, Stages
  <2>4. CASE UNCHANGED vars
    BY <1>2, <2>4 DEF vars
  <2> QED
    BY <2>1, <2>2, <2>3, <2>4 DEF Next
<1> QED
  BY <1>1, <1>3 DEF InputInv

-----------------------------------------------------------------------------
(* The generator packs the external ones.                                   *)

LEMMA PackedName ==
    ASSUME Packs(packed, external, i), ExtractInv, i \in Nat, i < Len(external), PackExternal
    PROVE  Packs(packed', external, i + 1)
<1>1. /\ external \in Seq(Extract(Externals)) /\ packed \in Seq(Extract(Externals))
      /\ external' = external
  BY DEF ExtractInv, Packs, PackExternal
<1>2. /\ i + 1 \in 1 .. Len(external)
      /\ external[i + 1] \in Extract(Externals) /\ external[i + 1] \in ToSet(external)
  <2>1. i + 1 \in 1 .. Len(external)
    BY <1>1, ElementsOf
  <2> QED
    BY <1>1, <2>1, ElementsOf
<1>3. PICK e : e = external[i + 1]
  OBVIOUS
<1>4. 1 .. i + 1 = (1 .. i) \cup {i + 1}
  OBVIOUS
<1>5. {external[k].name : k \in 1 .. i + 1} = {external[k].name : k \in 1 .. i} \cup {e.name}
  BY <1>3, <1>4
<1>6. PICK n \in Nat : n = Len(packed) /\ DOMAIN packed = 1 .. n
  BY <1>1, ElementsOf
<1>7. CASE HasRelocation(packed, e.name)
  <2>1. packed' = packed
    BY <1>3, <1>7 DEF PackExternal
  <2>2. e.name \in NamesIn(packed)
    BY <1>7 DEF HasRelocation, NamesIn
  <2>3. NamesIn(packed) = {external[k].name : k \in 1 .. i + 1}
    BY <1>5, <2>2 DEF Packs
  <2> QED
    BY <1>1, <2>1, <2>3 DEF Packs
<1>8. CASE ~HasRelocation(packed, e.name)
  <2>1. packed' = Append(packed, e)
    BY <1>3, <1>8 DEF PackExternal
  <2>2. PICK t : t = Append(packed, e)
    OBVIOUS
  <2>3. /\ t \in Seq(Extract(Externals)) /\ ToSet(t) = ToSet(packed) \cup {e}
        /\ NamesIn(t) = NamesIn(packed) \cup {e.name}
        /\ Len(t) = n + 1 /\ t[n + 1] = e /\ \A k \in 1 .. n : t[k] = packed[k]
    BY <1>1, <1>2, <1>3, <1>6, <2>2, ToSetAppend, AppendProperties
  <2>4. DOMAIN t = 1 .. n + 1
    BY <2>3, ElementsOf
  <2>5. \A k \in 1 .. n : packed[k].name # e.name
    BY <1>6, <1>8 DEF HasRelocation
  <2>6. e.name \notin NamesIn(packed)
    BY <1>6, <2>5 DEF NamesIn
  <2>7. n + 1 = Cardinality(NamesIn(t))
    <3>1. NamesIn(packed) \subseteq Externals
      <4>1. \A k \in 1 .. n : packed[k] \in Extract(Externals)
        BY <1>1, <1>6, ElementsOf
      <4> QED
        BY <1>6, <4>1 DEF NamesIn, Extract
    <3>2. IsFiniteSet(NamesIn(packed))
      BY <3>1, FS_Subset, ImageAssumption
    <3>3. n = Cardinality(NamesIn(packed))
      BY <1>6 DEF Packs
    <3> QED
      BY ZenonT(60), <2>3, <2>6, <3>2, <3>3, FS_AddElement
  <2>8. ASSUME NEW j \in 1 .. n + 1, NEW k \in 1 .. n + 1, t[j].name = t[k].name PROVE j = k
    <3>1. (j \in 1 .. n \/ j = n + 1) /\ (k \in 1 .. n \/ k = n + 1)
      OBVIOUS
    <3>2. \A a, b \in 1 .. n : packed[a].name = packed[b].name => a = b
      BY <1>6 DEF Packs
    <3> QED
      BY <2>3, <2>5, <2>8, <3>1, <3>2
  <2>9. NamesIn(t) = {external[k].name : k \in 1 .. i + 1}
    BY <1>5, <2>3 DEF Packs
  <2>10. ToSet(t) \subseteq ToSet(external)
    BY <1>2, <1>3, <2>3 DEF Packs
  <2> QED
    BY <1>1, <2>1, <2>2, <2>3, <2>4, <2>7, <2>8, <2>9, <2>10 DEF Packs
<1> QED
  BY <1>7, <1>8

LEMMA PackKept ==
    ASSUME InputInv, ExtractInv, PackInv, [Next]_vars, stage' # "rejected"
    PROVE  PackInv'
<1>1. CASE \/ SkipCall \/ ExtractExternal \/ ExtractInternal \/ ExtractExported
  <2>1. stage = "extract" /\ stage' = "extract" /\ packed' = packed
    BY <1>1 DEF SkipCall, ExtractExternal, ExtractInternal, ExtractExported, Extracting, generated
  <2> QED
    BY <2>1 DEF PackInv
<1>2. CASE Extracted
  <2>1. stage' = "pack" /\ i' = 0 /\ packed' = <<>> /\ external' = external
    BY <1>2 DEF Extracted, Enter, generated, PackInv
  <2>2. NamesIn(<<>>) = {} /\ ToSet(<<>>) = {} /\ <<>> \in Seq(Extract(Externals))
    BY DEF NamesIn, ToSet
  <2>3. Packs(<<>>, external, 0)
    BY <2>2, FS_EmptySet DEF Packs
  <2>4. 0 <= Len(external)
    BY ElementsOf DEF ExtractInv
  <2> QED
    BY <2>1, <2>3, <2>4 DEF PackInv
<1>3. CASE PackExternal
  <2>1. /\ stage = "pack" /\ stage' = "pack" /\ i' = i + 1 /\ i < Len(external)
        /\ external' = external
    BY <1>3 DEF PackExternal
  <2>2. i \in Nat /\ Len(external) \in Nat
    BY ElementsOf DEF ExtractInv, InputInv
  <2>3. Packs(packed', external, i + 1)
    BY <1>3, <2>1, <2>2, PackedName DEF PackInv
  <2> QED
    BY <2>1, <2>2, <2>3 DEF PackInv
<1>4. CASE WriteImage
  <2>1. /\ stage = "pack" /\ i = Len(external) /\ stage' \in {"load", "rejected"}
        /\ packed' = packed /\ external' = external
    BY <1>4 DEF WriteImage, Enter, generated
  <2> QED
    BY <2>1 DEF PackInv
<1>5. CASE \/ Load \/ LoadRefused \/ ResolveExternal \/ ResolvedExternals
           \/ ResolveLocal \/ ResolvedLocals \/ ResolveData \/ ResolvedData
  <2>1. stage \notin {"extract", "pack"} /\ stage' \notin {"extract", "pack"}
    BY <1>5 DEF Load, LoadRefused, ResolveExternal, ResolvedExternals,
                ResolveLocal, ResolvedLocals, ResolveData, ResolvedData, Enter
  <2>2. packed' = packed /\ external' = external
    BY <1>5 DEF Load, LoadRefused, ResolveExternal, ResolvedExternals,
                ResolveLocal, ResolvedLocals, ResolveData, ResolvedData, generated
  <2> QED
    BY <2>1, <2>2 DEF PackInv
<1>6. CASE UNCHANGED vars
  BY <1>6 DEF vars, generated, PackInv
<1>7. ~UnknownRelocation
  BY DEF UnknownRelocation, Enter
<1> QED
  BY <1>1, <1>2, <1>3, <1>4, <1>5, <1>6, <1>7 DEF Next

LEMMA FileKept ==
    ASSUME InputInv, ExtractInv, PackInv, ImageInv, [Next]_vars, stage' # "rejected"
    PROVE  ImageInv'
<1>1. ASSUME NEW file, FileHolds(file), image' = file,
             symtab' = symtab, relocs' = relocs, pointers' = pointers,
             external' = external, local' = local, exported' = exported,
             index' = index, packed' = packed
      PROVE  ImageInv'
  <2>1. FileHolds(file)'
    BY <1>1, FileUntouched
  <2> QED
    BY <1>1, <2>1 DEF ImageInv, FileHolds
<1>2. CASE \/ SkipCall \/ ExtractExternal \/ ExtractInternal \/ ExtractExported
           \/ UnknownRelocation \/ Extracted \/ PackExternal
  <2>1. stage' \notin Written
    BY <1>2 DEF SkipCall, ExtractExternal, ExtractInternal, ExtractExported, UnknownRelocation,
                Extracting, Extracted, PackExternal,
                Enter, Written
  <2> QED
    BY <2>1 DEF ImageInv
<1>3. CASE WriteImage
  <2>1. /\ symtab' = symtab /\ relocs' = relocs /\ pointers' = pointers
        /\ external' = external /\ local' = local /\ exported' = exported
        /\ index' = index /\ packed' = packed
    BY <1>3 DEF WriteImage, input, generated
  <2>2. PICK file : file = image'
    OBVIOUS
  <2>3. FileHolds(file)
    BY <1>3, <2>2, FileIsWritten
  <2> QED
    BY <1>1, <2>1, <2>2, <2>3
<1>4. CASE \/ Load \/ LoadRefused \/ ResolveExternal \/ ResolvedExternals
           \/ ResolveLocal \/ ResolvedLocals \/ ResolveData \/ ResolvedData
  <2>1. stage \in Written
    BY <1>4 DEF Load, LoadRefused, ResolveExternal, ResolvedExternals, ResolveLocal, ResolvedLocals,
                ResolveData, ResolvedData, Written
  <2>2. /\ symtab' = symtab /\ relocs' = relocs /\ pointers' = pointers /\ image' = image
        /\ external' = external /\ local' = local /\ exported' = exported
        /\ index' = index /\ packed' = packed
    BY <1>4 DEF Load, LoadRefused, ResolveExternal, ResolvedExternals, ResolveLocal, ResolvedLocals,
                ResolveData, ResolvedData, input, generated
  <2>3. PICK file : file = image
    OBVIOUS
  <2>4. FileHolds(file)
    BY <2>1, <2>3 DEF ImageInv
  <2> QED
    BY <1>1, <2>2, <2>3, <2>4
<1>5. CASE UNCHANGED vars
  <2>1. /\ symtab' = symtab /\ relocs' = relocs /\ pointers' = pointers /\ image' = image
        /\ external' = external /\ local' = local /\ exported' = exported
        /\ index' = index /\ packed' = packed
        /\ stage' = stage
    BY <1>5 DEF vars, input, generated
  <2>2. CASE stage \in Written
    <3>1. PICK file : file = image
      OBVIOUS
    <3>2. FileHolds(file)
      BY <2>2, <3>1 DEF ImageInv
    <3> QED
      BY <1>1, <2>1, <3>1, <3>2
  <2>3. CASE stage \notin Written
    BY <2>1, <2>3 DEF ImageInv
  <2> QED
    BY <2>2, <2>3
<1> QED
  BY <1>2, <1>3, <1>4, <1>5 DEF Next

-----------------------------------------------------------------------------
(* What the loader reads.                                                   *)

LEMMA AtPlace ==
    ASSUME NEW a \in Int, a \in DOMAIN image
    PROVE  At(Base + a) = image[a]
<1>1. (Base + a) - Base = a
  BY ImageAssumption
<1> QED
  BY <1>1 DEF At

LEMMA EntriesInAll ==
    ASSUME ExtractInv, PackInv, stage \notin {"extract", "pack"}
    PROVE  /\ packed \in Seq(Extract(Externals)) /\ Len(packed) \in Nat /\ Len(local) \in Nat
           /\ index = Len(packed) + Len(local) /\ index \in Nat
           /\ \A k \in 1 .. Len(packed) : packed[k] \in ToSet(external) /\ packed[k] \in Extracts
           /\ \A k \in 1 .. Len(local) : local[k] \in Extracts
           /\ NamesIn(packed) = NamesIn(external)
<1>1. Packs(packed, external, Len(external)) /\ external \in Seq(Extract(Externals))
      /\ local \in Seq(Extract(Internals))
  BY DEF PackInv, ExtractInv
<1>2. packed \in Seq(Extract(Externals)) /\ Len(packed) \in Nat /\ Len(local) \in Nat
  BY <1>1, ElementsOf DEF Packs
<1>3. NamesIn(packed) = NamesIn(external)
  <2>1. DOMAIN external = 1 .. Len(external)
    BY <1>1, ElementsOf
  <2> QED
    BY <1>1, <2>1 DEF Packs, NamesIn
<1>4. index = Len(packed) + Len(local)
  BY <1>1, <1>3 DEF ExtractInv, Packs
<1>5. \A k \in 1 .. Len(packed) : packed[k] \in ToSet(external)
  <2>1. \A k \in 1 .. Len(packed) : packed[k] \in ToSet(packed)
    BY <1>2, ElementsOf
  <2> QED
    BY <1>1, <2>1 DEF Packs
<1>6. \A k \in 1 .. Len(local) : local[k] \in ToSet(local)
  BY <1>1, ElementsOf
<1> QED
  BY <1>2, <1>3, <1>4, <1>5, <1>6 DEF Extracts

LEMMA HeaderIsRead ==
    ASSUME ImageInv, stage \in Written
    PROVE  /\ Header.external = Len(packed) /\ Header.local = Len(local)
           /\ Header.data = Len(pointers) /\ Header.symbols = Len(ExternalSymbols)
<1>1. Base = Base + 0
  BY ImageAssumption
<1>2. 0 \in DOMAIN image
  BY DEF ImageInv, FileHolds
<1>3. Header = image[0]
  BY <1>1, <1>2, AtPlace DEF Header
<1> QED
  BY <1>3 DEF ImageInv, FileHolds

LEMMA RelocationPlace ==
    ASSUME NEW k \in Nat, RelAt(k) \in DOMAIN image
    PROVE  RelocationAt(k) = image[RelAt(k)]
<1>1. RelAt(k) \in Int
  BY DEF RelAt, SizeOfHeader, SizeOfRelocation
<1>2. RelocationAddress + SizeOfRelocation * (k - 1) = Base + RelAt(k)
  BY ImageAssumption DEF RelocationAddress, RelAt, SizeOfHeader, SizeOfRelocation
<1> QED
  BY <1>1, <1>2, AtPlace DEF RelocationAt

LEMMA PointersNumber ==
    ASSUME InputInv
    PROVE  Len(pointers) \in Nat
<1>1. pointers \in Seq([word : 0..(DataWords - 1), name : Internals])
  BY ImageAssumption DEF InputInv
<1> QED
  BY <1>1

(* The k-th symbol of the file, as the loader reaches it.                   *)
LEMMA SymbolIsRead ==
    ASSUME InputInv, ExtractInv, PackInv, ImageInv, stage \in Written
    PROVE  /\ Len(ExternalSymbols) \in Nat /\ NumRelocs \in Nat
           /\ SymbolAddress = Base + SymAt(NumRelocs, 1)
           /\ At(Base + SymAt(NumRelocs, 1)) = [code |-> Main, offset |-> Values[Main]]
           /\ \A k \in 1 .. Len(ExternalSymbols) :
                At(Base + SymAt(NumRelocs, k + 1)) = [code |-> ExternalSymbols[k], offset |-> 0]
<1>1. Len(ExternalSymbols) \in Nat
  BY SymbolsOfTheFile, ElementsOf
<1>2. PICK np \in Nat, nl \in Nat, nd \in Nat :
        np = Len(packed) /\ nl = Len(local) /\ nd = Len(pointers)
  <2>1. stage \notin {"extract", "pack"}
    BY DEF Written
  <2> QED
    BY <2>1, EntriesInAll, PointersNumber
<1>3. NumRelocs = np + nl + nd
  BY <1>2 DEF NumRelocs
<1>4. SymbolAddress = Base + SymAt(NumRelocs, 1)
  <2>1. SymbolAddress = Base + 24 + 8 * (np + nl + nd)
    BY <1>2, HeaderIsRead DEF SymbolAddress, RelocationAddress, SizeOfHeader, SizeOfRelocation
  <2>2. SymAt(NumRelocs, 1) = 24 + 8 * (np + nl + nd)
    BY <1>3 DEF SymAt, RelAt, SizeOfHeader, SizeOfRelocation, SizeOfSymbol
  <2> QED
    BY <2>1, <2>2, ImageAssumption
<1>5. \A k \in Int : SymAt(NumRelocs, k) \in Int
  BY <1>3 DEF SymAt, RelAt, SizeOfHeader, SizeOfRelocation, SizeOfSymbol
<1>6. FileHolds(image)
  BY DEF ImageInv
<1>7. At(Base + SymAt(NumRelocs, 1)) = [code |-> Main, offset |-> Values[Main]]
  <2>1. PICK a \in Int : a = SymAt(NumRelocs, 1)
    BY <1>5
  <2>2. a \in DOMAIN image /\ image[a] = [code |-> Main, offset |-> Values[Main]]
    BY <1>6, <2>1 DEF FileHolds
  <2> QED
    BY <2>1, <2>2, AtPlace
<1>8. ASSUME NEW k \in 1 .. Len(ExternalSymbols)
      PROVE  At(Base + SymAt(NumRelocs, k + 1)) = [code |-> ExternalSymbols[k], offset |-> 0]
  <2>1. SymAt(NumRelocs, k + 1) \in Int
    BY <1>1, <1>5
  <2> QED
    BY <1>6, <2>1, AtPlace DEF FileHolds
<1> QED
  BY <1>1, <1>3, <1>4, <1>7, <1>8

LEMMA MainIsRead ==
    ASSUME InputInv, ExtractInv, PackInv, ImageInv, stage \in Written
    PROVE  /\ FoundMain # {}
           /\ LET k == CHOOSE k \in FoundMain : \A j \in FoundMain : k <= j
              IN  At(SymbolAddress + SizeOfSymbol * (k - 1)).offset = Values[Main]
<1>1. SymbolAddress + SizeOfSymbol * (1 - 1) = Base + SymAt(NumRelocs, 1)
  <2>1. SymAt(NumRelocs, 1) \in Int
    BY SymbolIsRead DEF SymAt, RelAt, SizeOfHeader, SizeOfRelocation, SizeOfSymbol
  <2> QED
    BY <2>1, SymbolIsRead, ImageAssumption DEF SizeOfSymbol
<1>2. At(SymbolAddress + SizeOfSymbol * (1 - 1)) = [code |-> Main, offset |-> Values[Main]]
  BY <1>1, SymbolIsRead
<1>3. [code |-> Main, offset |-> Values[Main]] # Nothing
  BY ImageAssumption
<1>4. NumberOfSymbols \in Nat /\ NumberOfSymbols >= 1
  BY HeaderIsRead, SymbolIsRead DEF NumberOfSymbols
<1>5. 1 \in FoundMain
  BY <1>2, <1>3, <1>4 DEF FoundMain
<1>6. \A j \in FoundMain : 1 <= j /\ j \in Nat
  BY <1>4 DEF FoundMain
<1>7. (CHOOSE k \in FoundMain : \A j \in FoundMain : k <= j) = 1
  <2>1. \A k \in FoundMain : (\A j \in FoundMain : k <= j) => k = 1
    <3> SUFFICES ASSUME NEW k \in FoundMain, \A j \in FoundMain : k <= j PROVE k = 1
      OBVIOUS
    <3>1. k <= 1 /\ 1 <= k /\ k \in Nat
      BY <1>5, <1>6
    <3> QED
      BY <3>1
  <2> QED
    BY <1>5, <1>6, <2>1
<1>8. PICK k : k = CHOOSE n \in FoundMain : \A j \in FoundMain : n <= j
  OBVIOUS
<1>9. At(SymbolAddress + SizeOfSymbol * (k - 1)).offset = Values[Main]
  <2>1. k = 1
    BY <1>7, <1>8
  <2>2. \A j : j = 1 => At(SymbolAddress + SizeOfSymbol * (j - 1))
                          = [code |-> Main, offset |-> Values[Main]]
    BY <1>2
  <2>3. At(SymbolAddress + SizeOfSymbol * (k - 1)) = [code |-> Main, offset |-> Values[Main]]
    BY <2>1, <2>2
  <2> QED
    BY <2>3
<1> QED
  BY <1>5, <1>8, <1>9

LEMMA ExternalIsRead ==
    ASSUME InputInv, ExtractInv, PackInv, ImageInv, stage \in Written, NEW k \in 1 .. Len(packed)
    PROVE  /\ RelocationAt(k).index = packed[k].lot
           /\ At(RelocationAddress + SizeOfRelocation * (k - 1) + RelocationAt(k).offset)
                = [code |-> packed[k].name, offset |-> 0]
<1>1. stage \notin {"extract", "pack"}
  BY DEF Written
<1>2. FileHolds(image)
  BY DEF ImageInv
<1>3. PICK np \in Nat, nl \in Nat, nd \in Nat :
        np = Len(packed) /\ nl = Len(local) /\ nd = Len(pointers)
  BY <1>1, EntriesInAll, PointersNumber
<1>4. k \in Nat /\ k \in 1 .. np
  BY <1>3
<1>5. RelocationAt(k) = [index |-> packed[k].lot, offset |-> OffsetToSymbol(k)]
  BY <1>2, <1>4, RelocationPlace DEF FileHolds
<1>6. PICK j \in 1 .. Len(ExternalSymbols) :
        j = PositionIn(ExternalSymbols, packed[k].name) /\ ExternalSymbols[j] = packed[k].name
  <2>1. packed[k] \in Extracts /\ packed[k] \in ToSet(external)
    BY <1>1, EntriesInAll
  <2>2. packed[k].name = relocs[packed[k].at].name /\ packed[k].at \in 1 .. Len(relocs)
    <3>1. packed[k].at <= Len(relocs) /\ packed[k].name = relocs[packed[k].at].name
      BY <1>1, <2>1 DEF ExtractInv, Agree, Done
    <3>2. packed[k].at \in Places /\ packed[k].at \in Nat /\ Len(relocs) \in Nat
      BY <2>1, ExtractsType, NumberOfReferences
    <3> QED
      BY <3>1, <3>2, ImageAssumption DEF Places
  <2>3. packed[k].name \in Externals
    BY <2>1, ExtractsType
  <2>4. \E l \in 1 .. Len(ExternalSymbols) : ExternalSymbols[l] = packed[k].name
    BY <2>2, <2>3, SymbolsOfTheFile
  <2>5. DOMAIN ExternalSymbols = 1 .. Len(ExternalSymbols)
    BY SymbolsOfTheFile, ElementsOf
  <2> QED
    BY <2>4, <2>5 DEF PositionIn
<1>7. PICK m \in Nat : m = Len(ExternalSymbols)
  BY SymbolIsRead
<1>8. Len(ExportedSymbols) = 1
  <2>1. ExportedSymbols = <<Main>>
    BY SymbolsOfTheFile
  <2> QED
    BY <2>1
<1>9. OffsetToSymbol(k) = (np + nl + nd - (k - 1)) * 8 + (1 + j - 1) * 12
  BY <1>3, <1>6, <1>8 DEF ExtractInv, OffsetToSymbol, NumberOfExported, SizeOfRelocation, SizeOfSymbol
<1>10. RelocationAddress + SizeOfRelocation * (k - 1) + OffsetToSymbol(k) = Base + SymAt(NumRelocs, j + 1)
  <2>1. NumRelocs = np + nl + nd /\ j \in Nat
    BY <1>3, <1>7 DEF NumRelocs
  <2>2. SymAt(NumRelocs, j + 1) = 24 + 8 * (np + nl + nd) + 12 * j
    BY <2>1 DEF SymAt, RelAt, SizeOfHeader, SizeOfRelocation, SizeOfSymbol
  <2>3. RelocationAddress + SizeOfRelocation * (k - 1) = Base + 24 + 8 * (k - 1)
    BY DEF RelocationAddress, SizeOfHeader, SizeOfRelocation
  <2>4. Base \in Nat
    BY ImageAssumption
  <2> QED
    BY <1>4, <1>9, <2>1, <2>2, <2>3, <2>4
<1>11. RelocationAt(k).index = packed[k].lot /\ RelocationAt(k).offset = OffsetToSymbol(k)
  BY <1>5
<1> QED
  BY <1>6, <1>10, <1>11, SymbolIsRead

LEMMA LocalIsRead ==
    ASSUME ExtractInv, PackInv, ImageInv, stage \in Written, NEW k \in 1 .. Len(local)
    PROVE  /\ RelocationAt(Header.external + k).index \div 2 = local[k].lot
           /\ <<IF (RelocationAt(Header.external + k).index % 2) = 0 THEN "text" ELSE "data",
                RelocationAt(Header.external + k).offset>> = RuntimeAddress(local[k].name)
<1>1. stage \notin {"extract", "pack"}
  BY DEF Written
<1>2. FileHolds(image)
  BY DEF ImageInv
<1>3. Len(packed) \in Nat /\ Len(local) \in Nat
  BY <1>1, EntriesInAll
<1>4. Len(packed) + k \in Nat /\ Header.external + k = Len(packed) + k
  BY SMTT(60), <1>3, HeaderIsRead
<1>5. PICK l \in Nat : l = local[k].lot
  BY <1>1, EntriesInAll, ExtractsType
<1>6. PICK name : name = local[k].name
  OBVIOUS
<1>7. RelocationAt(Header.external + k) =
        [index |-> l * 2 + SectionBit(name), offset |-> ImageValue(name)]
  BY <1>2, <1>4, <1>5, <1>6, RelocationPlace DEF FileHolds
<1>8. name \in Internals /\ name \notin Externals
  <2>1. local[k] \in ToSet(local)
    BY <1>3, ElementsOf DEF ExtractInv
  <2> QED
    BY <1>6, <2>1, ExtractsType, ImageAssumption
<1>9. CASE Sections[name] = "text"
  <2>1. SectionBit(name) = 0 /\ ImageValue(name) = Values[name]
    BY <1>9 DEF SectionBit, ImageValue
  <2>2. (l * 2 + 0) \div 2 = l /\ (l * 2 + 0) % 2 = 0
    OBVIOUS
  <2>3. RuntimeAddress(name) = <<"text", Values[name]>>
    BY <1>8, <1>9 DEF RuntimeAddress
  <2> QED
    BY <1>5, <1>6, <1>7, <2>1, <2>2, <2>3
<1>10. CASE Sections[name] # "text"
  <2>1. SectionBit(name) = 1 /\ ImageValue(name) = Values[name] - CodeSize
    BY <1>10 DEF SectionBit, ImageValue
  <2>2. (l * 2 + 1) \div 2 = l /\ (l * 2 + 1) % 2 = 1
    OBVIOUS
  <2>3. RuntimeAddress(name) = <<"data", Values[name] - CodeSize>>
    BY <1>8, <1>10 DEF RuntimeAddress
  <2>4. PICK r : r = RelocationAt(Header.external + k)
    OBVIOUS
  <2>5. r.index = l * 2 + 1 /\ r.offset = Values[name] - CodeSize
    BY <1>7, <2>1, <2>4
  <2>6. r.index \div 2 = l /\ r.index % 2 = 1
    BY <2>2, <2>5
  <2>7. <<IF (r.index % 2) = 0 THEN "text" ELSE "data", r.offset>> = RuntimeAddress(name)
    BY <2>3, <2>5, <2>6
  <2> QED
    BY <1>5, <1>6, <2>4, <2>6, <2>7
<1> QED
  BY <1>9, <1>10

-----------------------------------------------------------------------------
(* The loader fills the lot.                                                *)

Put(table, k, address) == [table EXCEPT ![k] = address]

(* A write to an entry of the lot.                                          *)
LEMMA LotWritten ==
    ASSUME NEW D, lot = [k \in D |-> lot[k]], NEW l \in D, NEW address, Write("lot", l, address)
    PROVE  lot' = Put(lot, l, address)
<1>1. PICK word \in Reached("lot", l) :
        lot' = [n \in DOMAIN lot |-> IF word = <<"lot", n>> THEN address ELSE lot[n]]
  BY DEF Write
<1>2. DOMAIN lot = D
  OBVIOUS
<1>3. word = <<"lot", l>>
  BY <1>1, <1>2 DEF Reached, Words
<1>4. \A n : word = <<"lot", n>> <=> n = l
  BY <1>3
<1>5. lot' = [n \in D |-> IF n = l THEN address ELSE lot[n]]
  BY <1>1, <1>2, <1>4
<1> QED
  BY <1>2, <1>5 DEF Put

(* Whatever is written, the lot and the data keep their sizes.              *)
LEMMA SizesStay ==
    ASSUME NEW D, lot = [k \in D |-> lot[k]], NEW E, data = [k \in E |-> data[k]],
           NEW block, NEW l, NEW address, Write(block, l, address)
    PROVE  lot' = [k \in D |-> lot'[k]] /\ data' = [k \in E |-> data'[k]]
<1>1. DOMAIN lot = D /\ DOMAIN data = E
  OBVIOUS
<1>2. PICK word \in Reached(block, l) :
        /\ lot' = [n \in DOMAIN lot |-> IF word = <<"lot", n>> THEN address ELSE lot[n]]
        /\ data' = [n \in DOMAIN data |-> IF word = <<"data", n>> THEN address ELSE data[n]]
  BY DEF Write
<1> QED
  BY <1>1, <1>2

(* A write to a word of the data leaves the lot alone.                      *)
LEMMA DataWritten ==
    ASSUME NEW D, lot = [k \in D |-> lot[k]], NEW E, data = [k \in E |-> data[k]],
           NEW l \in E, NEW address, Write("data", l, address)
    PROVE  lot' = lot
<1>1. DOMAIN lot = D /\ DOMAIN data = E
  OBVIOUS
<1>2. PICK word \in Reached("data", l) :
        lot' = [n \in DOMAIN lot |-> IF word = <<"lot", n>> THEN address ELSE lot[n]]
  BY DEF Write
<1>3. word = <<"data", l>>
  BY <1>1, <1>2 DEF Reached, Words
<1>4. \A n : word # <<"lot", n>>
  BY <1>3
<1>5. lot' = [n \in D |-> lot[n]]
  BY <1>1, <1>2, <1>4
<1> QED
  BY <1>5

(* An entry is written once more only with what it has.                     *)
LEMMA PutKeeps ==
    ASSUME NEW D, NEW table, table = [k \in D |-> table[k]], NEW l \in D, NEW address,
           NEW entries, NEW n \in Nat, Addresses(table, entries, n),
           \A k \in 1 .. n : entries[k].lot = l => RuntimeAddress(entries[k].name) = address,
           \A k \in 1 .. n : entries[k].lot \in D
    PROVE  Addresses(Put(table, l, address), entries, n)
<1>1. PICK new : new = Put(table, l, address)
  OBVIOUS
<1>2. \A k \in D : new[k] = IF k = l THEN address ELSE table[k]
  BY <1>1 DEF Put
<1>3. \A k \in 1 .. n : new[entries[k].lot] = RuntimeAddress(entries[k].name)
  BY <1>2 DEF Addresses
<1> QED
  BY <1>1, <1>3 DEF Addresses

LEMMA PutType ==
    ASSUME NEW D, NEW table, table = [k \in D |-> table[k]], NEW l \in D, NEW address
    PROVE  /\ Put(table, l, address) = [k \in D |-> Put(table, l, address)[k]]
           /\ Put(table, l, address)[l] = address
BY DEF Put

LEMMA OneMoreAddress ==
    ASSUME NEW table, NEW entries, NEW n \in Nat, Addresses(table, entries, n),
           table[entries[n + 1].lot] = RuntimeAddress(entries[n + 1].name)
    PROVE  Addresses(table, entries, n + 1)
<1>1. \A k \in 1 .. n + 1 : k \in 1 .. n \/ k = n + 1
  OBVIOUS
<1> QED
  BY <1>1 DEF Addresses

(* An entry of the lot takes the address of its symbol, the others keep theirs. *)
LEMMA LotTakes ==
    ASSUME ExtractInv, PackInv, stage \notin {"extract", "pack"},
           lot = [k \in 0..(index - 1) |-> lot[k]], data = [k \in 0..(DataWords - 1) |-> data[k]],
           NEW e \in Extracts, NEW address,
           address = RuntimeAddress(e.name), Write("lot", e.lot, address)
    PROVE  /\ lot' = [k \in 0..(index - 1) |-> lot'[k]]
           /\ data' = [k \in 0..(DataWords - 1) |-> data'[k]]
           /\ lot'[e.lot] = address
           /\ \A n \in Nat : n <= Len(packed) /\ Addresses(lot, packed, n) => Addresses(lot', packed, n)
           /\ \A n \in Nat : n <= Len(local) /\ Addresses(lot, local, n) => Addresses(lot', local, n)
<1>1. \A r \in Extracts : r.lot \in 0..(index - 1) /\ (r.lot = e.lot => r.name = e.name)
  <2>1. \A r \in Extracts : r.lot \in Nat /\ r.lot < index /\ index \in Nat
    BY ExtractsType DEF ExtractInv, Agree
  <2>2. \A r \in Extracts : r.lot = e.lot => r.name = e.name
    BY DEF ExtractInv, Agree
  <2> QED
    BY <2>1, <2>2
<1>2. PICK D : D = 0..(index - 1)
  OBVIOUS
<1>3. PICK new : new = Put(lot, e.lot, address)
  OBVIOUS
<1>4. lot = [k \in D |-> lot[k]] /\ e.lot \in D
  BY <1>1, <1>2
<1>9. lot' = new
  BY <1>3, <1>4, LotWritten
<1>10. data' = [k \in 0..(DataWords - 1) |-> data'[k]]
  BY <1>4, SizesStay
<1>5. new = [k \in D |-> new[k]] /\ new[e.lot] = address
  BY <1>3, <1>4, PutType
<1>6. \A r \in Extracts : r.lot = e.lot => RuntimeAddress(r.name) = address
  BY <1>1
<1>7. ASSUME NEW n \in Nat, n <= Len(packed), Addresses(lot, packed, n)
      PROVE  Addresses(new, packed, n)
  <2>1. \A k \in 1 .. n : k \in 1 .. Len(packed)
    BY <1>7, EntriesInAll
  <2>2. \A k \in 1 .. n : packed[k] \in Extracts
    BY <2>1, EntriesInAll
  <2>3. \A k \in 1 .. n : packed[k].lot \in D
    BY <1>1, <1>2, <2>2
  <2>4. \A k \in 1 .. n : packed[k].lot = e.lot => RuntimeAddress(packed[k].name) = address
    BY <1>6, <2>2
  <2> QED
    BY <1>3, <1>4, <1>7, <2>3, <2>4, PutKeeps
<1>8. ASSUME NEW n \in Nat, n <= Len(local), Addresses(lot, local, n)
      PROVE  Addresses(new, local, n)
  <2>1. \A k \in 1 .. n : k \in 1 .. Len(local)
    BY <1>8, EntriesInAll
  <2>2. \A k \in 1 .. n : local[k] \in Extracts
    BY <2>1, EntriesInAll
  <2>3. \A k \in 1 .. n : local[k].lot \in D
    BY <1>1, <1>2, <2>2
  <2>4. \A k \in 1 .. n : local[k].lot = e.lot => RuntimeAddress(local[k].name) = address
    BY <1>6, <2>2
  <2> QED
    BY <1>3, <1>4, <1>8, <2>3, <2>4, PutKeeps
<1> QED
  BY <1>2, <1>5, <1>7, <1>8, <1>9, <1>10

LEMMA ResolveExternalStep ==
    ASSUME InputInv, ExtractInv, PackInv, ImageInv, LoadInv, ResolveExternal
    PROVE  LoadInv'
<1>1. /\ stage = "external" /\ stage \in Written /\ stage \in Filling /\ stage' = stage
      /\ stage \notin {"extract", "pack"}
      /\ i' = i + 1 /\ packed' = packed /\ local' = local /\ index' = index /\ start' = start
  BY DEF ResolveExternal, Written, Filling, generated
<1>2. i \in Nat /\ Len(packed) \in Nat /\ Header.external = Len(packed)
  BY <1>1, EntriesInAll, HeaderIsRead DEF InputInv
<1>3. PICK k \in 1 .. Len(packed) : k = i + 1 /\ k - 1 = i
  <2>1. i < Len(packed)
    BY <1>2 DEF ResolveExternal
  <2>2. i + 1 \in 1 .. Len(packed) /\ (i + 1) - 1 = i
    BY <1>2, <2>1
  <2> QED
    BY <2>2
<1>4. PICK r : r = RelocationAt(k)
  OBVIOUS
<1>5. PICK place : place = RelocationAddress + SizeOfRelocation * i + r.offset
  OBVIOUS
<1>6. r.index = packed[k].lot /\ At(place) = [code |-> packed[k].name, offset |-> 0]
  BY <1>1, <1>3, <1>4, <1>5, ExternalIsRead
<1>7. packed[k] \in Extracts /\ packed[k].name \in Externals
  <2>1. packed[k] \in ToSet(external) /\ packed[k] \in Extracts
    BY <1>1, EntriesInAll
  <2> QED
    BY <2>1, ExtractsType
<1>8. CodesAt(place) = {packed[k].name}
  <2>1. [code |-> packed[k].name, offset |-> 0] \in [code : Externals \cup {Main}, offset : Int]
    BY <1>7
  <2>2. At(place) # Nothing /\ At(place).code = packed[k].name
    BY <1>6, <2>1, ImageAssumption
  <2> QED
    BY <2>2 DEF CodesAt
<1>9. PICK code \in CodesAt(place) :
        IF FindSymbol(code) # Nothing
        THEN Write("lot", r.index, FindSymbol(code)) /\ complete' = complete
        ELSE complete' = FALSE /\ lot' = lot /\ data' = data
  BY <1>3, <1>4, <1>5 DEF ResolveExternal
<1>10. code = packed[k].name
  BY <1>8, <1>9
<1>11. /\ lot = [n \in 0..(index - 1) |-> lot[n]] /\ data = [n \in 0..(DataWords - 1) |-> data[n]]
       /\ start = <<"text", Values[Main]>>
       /\ i <= Len(packed) /\ (complete => Addresses(lot, packed, i))
  BY <1>1 DEF LoadInv
<1>12. i + 1 <= Len(packed)
  BY <1>3
<1>13. CASE FindSymbol(code) # Nothing
  <2>1. PICK address : address = RuntimeAddress(packed[k].name)
    OBVIOUS
  <2>2. PICK e \in Extracts : e = packed[k]
    BY <1>7
  <2>3. Write("lot", e.lot, address) /\ complete' = complete
    <3>1. FindSymbol(code) = <<"system", packed[k].name>>
      BY <1>10, <1>13 DEF FindSymbol
    <3>2. address = <<"system", packed[k].name>>
      BY <1>7, <2>1 DEF RuntimeAddress
    <3> QED
      BY <1>6, <1>9, <1>13, <2>2, <3>1, <3>2
  <2>4. /\ lot' = [n \in 0..(index - 1) |-> lot'[n]] /\ lot'[packed[k].lot] = address
        /\ data' = [n \in 0..(DataWords - 1) |-> data'[n]]
        /\ complete => Addresses(lot', packed, i)
    BY <1>1, <1>2, <1>11, <2>1, <2>2, <2>3, LotTakes
  <2>5. PICK new : new = lot'
    OBVIOUS
  <2>6. complete => Addresses(new, packed, i + 1)
    BY <1>2, <1>3, <2>1, <2>4, <2>5, OneMoreAddress
  <2> QED
    BY <1>1, <1>11, <1>12, <2>3, <2>4, <2>5, <2>6 DEF LoadInv
<1>14. CASE FindSymbol(code) = Nothing
  BY <1>1, <1>9, <1>11, <1>12, <1>14 DEF LoadInv
<1> QED
  BY <1>13, <1>14

LEMMA ResolveLocalStep ==
    ASSUME InputInv, ExtractInv, PackInv, ImageInv, LoadInv, ResolveLocal
    PROVE  LoadInv'
<1>1. /\ stage = "local" /\ stage \in Written /\ stage \in Filling /\ stage' = stage
      /\ stage \notin {"extract", "pack"}
      /\ i' = i + 1 /\ packed' = packed /\ local' = local /\ index' = index /\ start' = start
  BY DEF ResolveLocal, Written, Filling, generated
<1>2. /\ i \in Nat /\ Len(packed) \in Nat /\ Len(local) \in Nat
      /\ Header.external = Len(packed) /\ Header.local = Len(local)
  BY <1>1, EntriesInAll, HeaderIsRead DEF InputInv
<1>3. PICK k \in 1 .. Len(local) : k = i + 1 /\ Header.external + i + 1 = Header.external + k
  <2>1. i < Len(local)
    BY <1>2 DEF ResolveLocal
  <2>2. i + 1 \in 1 .. Len(local) /\ Header.external + i + 1 = Header.external + (i + 1)
    BY <1>2, <2>1
  <2> QED
    BY <2>2
<1>4. PICK r : r = RelocationAt(Header.external + k)
  OBVIOUS
<1>5. PICK address : address = RuntimeAddress(local[k].name)
  OBVIOUS
<1>6. r.index \div 2 = local[k].lot
      /\ <<IF (r.index % 2) = 0 THEN "text" ELSE "data", r.offset>> = address
  BY <1>1, <1>4, <1>5, LocalIsRead
<1>7. Write("lot", local[k].lot, address)
  <2>1. Write("lot", r.index \div 2, <<IF (r.index % 2) = 0 THEN "text" ELSE "data", r.offset>>)
    BY <1>3, <1>4 DEF ResolveLocal
  <2> QED
    BY <1>6, <2>1
<1>8. /\ lot = [n \in 0..(index - 1) |-> lot[n]] /\ data = [n \in 0..(DataWords - 1) |-> data[n]]
      /\ start = <<"text", Values[Main]>>
      /\ Addresses(lot, packed, Len(packed)) /\ Addresses(lot, local, i) /\ i <= Len(local)
  BY <1>1 DEF LoadInv
<1>9. PICK e \in Extracts : e = local[k]
  BY <1>1, EntriesInAll
<1>10. /\ lot' = [n \in 0..(index - 1) |-> lot'[n]] /\ lot'[e.lot] = address
       /\ data' = [n \in 0..(DataWords - 1) |-> data'[n]]
       /\ Addresses(lot', packed, Len(packed)) /\ Addresses(lot', local, i)
  <2>1. Len(packed) <= Len(packed)
    BY <1>2
  <2> QED
    BY <1>1, <1>2, <1>5, <1>7, <1>8, <1>9, <2>1, LotTakes
<1>11. PICK new : new = lot'
  OBVIOUS
<1>12. Addresses(new, local, i + 1)
  BY <1>2, <1>3, <1>5, <1>9, <1>10, <1>11, OneMoreAddress
<1>13. i + 1 <= Len(local)
  BY <1>3
<1> QED
  BY <1>1, <1>8, <1>10, <1>11, <1>12, <1>13 DEF LoadInv

(* What the data relocations write is known from the file.                  *)
LEMMA DataWritesStay ==
    ASSUME image' = image
    PROVE  DataWritesInside' <=> DataWritesInside
BY DEF DataWritesInside, AppliedToData, RelocationAt, Header, At

LEMMA LoadKept ==
    ASSUME InputInv, ExtractInv, PackInv, ImageInv, LoadInv, [Next]_vars, stage' # "rejected"
    PROVE  LoadInv'
<1>1. CASE \/ SkipCall \/ ExtractExternal \/ ExtractInternal \/ ExtractExported \/ Extracted
           \/ UnknownRelocation \/ PackExternal \/ WriteImage \/ LoadRefused
  <2>1. stage' \in {"extract", "pack", "load", "rejected", "failed"}
    BY <1>1 DEF SkipCall, ExtractExternal, ExtractInternal, ExtractExported, Extracting, Extracted,
                UnknownRelocation, PackExternal, WriteImage, LoadRefused, Enter
  <2> QED
    BY <2>1 DEF LoadInv, Filling
<1>2. CASE Load
  <2>1. /\ stage = "load" /\ stage' = "external" /\ i' = 0 /\ stage \in Written
        /\ packed' = packed /\ index' = index /\ stage \notin {"extract", "pack"}
    BY <1>2 DEF Load, Enter, Written, generated
  <2>2. Len(packed) \in Nat /\ Len(local) \in Nat /\ index = Len(packed) + Len(local)
    BY <2>1, EntriesInAll
  <2>3. Header.external + Header.local - 1 = index - 1
    BY SMTT(60), <2>1, <2>2, HeaderIsRead
  <2>4. lot' = [k \in 0..(index - 1) |-> Nothing]
    BY <1>2, <2>3 DEF Load, AllocateLot
  <2>5. start' = <<"text", Values[Main]>>
    BY <1>2, <2>1, MainIsRead DEF Load, StartOfMain
  <2>6. Addresses(lot', packed, 0)
    BY DEF Addresses
  <2>7. lot' = [k \in 0..(index - 1) |-> lot'[k]]
    BY <2>4
  <2>8. 0 <= Len(packed)
    BY <2>2
  <2>9. data' = [k \in 0..(DataWords - 1) |-> data'[k]]
    BY <1>2 DEF Load, AllocateData
  <2> QED
    BY <2>1, <2>5, <2>6, <2>7, <2>8, <2>9 DEF LoadInv
<1>3. CASE ResolvedExternals
  <2>1. /\ stage = "external" /\ stage \in Filling /\ i = Header.external /\ stage \in Written
        /\ stage \notin {"extract", "pack"}
        /\ packed' = packed /\ local' = local /\ index' = index /\ lot' = lot /\ start' = start
        /\ data' = data
    BY <1>3 DEF ResolvedExternals, Filling, Written, generated, loaded
  <2>2. IF complete THEN stage' = "local" /\ i' = 0 ELSE stage' = "failed"
    BY <1>3 DEF ResolvedExternals, Enter
  <2>3. i = Len(packed) /\ Len(local) \in Nat
    BY <2>1, HeaderIsRead, EntriesInAll
  <2>4. Addresses(lot, local, 0) /\ 0 <= Len(local)
    BY <2>3 DEF Addresses
  <2> QED
    BY <2>1, <2>2, <2>3, <2>4 DEF LoadInv, Filling
<1>4. CASE ResolvedLocals
  <2>1. /\ stage = "local" /\ stage \in Filling /\ i = Header.local /\ stage' = "data"
        /\ stage \in Written
        /\ packed' = packed /\ local' = local /\ index' = index /\ lot' = lot /\ start' = start
        /\ data' = data
    BY <1>4 DEF ResolvedLocals, Enter, Filling, Written, generated, loaded
  <2>2. i = Len(local)
    BY <2>1, HeaderIsRead
  <2> QED
    BY <2>1, <2>2 DEF LoadInv
<1>5. CASE ResolveData
  <2>1. /\ stage = "data" /\ stage \in Filling /\ stage' = "data" /\ i < Header.data
        /\ packed' = packed /\ local' = local /\ index' = index /\ start' = start
        /\ image' = image
    BY <1>5 DEF ResolveData, Filling, generated
  <2>2. PICK r : r = AppliedToData(i + 1)
    OBVIOUS
  <2>3. Write("data", r.index, <<"data", r.offset>>)
    BY <1>5, <2>2 DEF ResolveData
  <2>4. /\ lot = [n \in 0..(index - 1) |-> lot[n]] /\ data = [n \in 0..(DataWords - 1) |-> data[n]]
        /\ start = <<"text", Values[Main]>>
        /\ DataWritesInside =>
                Addresses(lot, packed, Len(packed)) /\ Addresses(lot, local, Len(local))
    BY <2>1 DEF LoadInv
  <2>5. /\ lot' = [n \in 0..(index - 1) |-> lot'[n]] /\ data' = [n \in 0..(DataWords - 1) |-> data'[n]]
    BY <2>3, <2>4, SizesStay
  <2>6. DataWritesInside' <=> DataWritesInside
    BY <2>1, DataWritesStay
  <2>7. ASSUME DataWritesInside
        PROVE  lot' = lot
    <3>1. i + 1 \in 1 .. Header.data
      <4>1. Header.data \in Nat /\ i \in Nat
        <5>1. stage \in Written
          BY <2>1 DEF Written
        <5> QED
          BY <5>1, HeaderIsRead, PointersNumber DEF InputInv
      <4> QED
        BY <2>1, <4>1
    <3>2. r.index \in 0..(DataWords - 1)
      BY <2>2, <2>7, <3>1 DEF DataWritesInside
    <3> QED
      BY <2>3, <2>4, <3>2, DataWritten
  <2> QED
    BY <2>1, <2>4, <2>5, <2>6, <2>7 DEF LoadInv
<1>7. CASE ResolvedData
  <2>1. /\ stage = "data" /\ stage \in Filling /\ stage' = "loaded" /\ data' = data
        /\ packed' = packed /\ local' = local /\ index' = index /\ lot' = lot /\ start' = start
        /\ image' = image
    BY <1>7 DEF ResolvedData, Enter, Filling, generated, loaded
  <2>2. DataWritesInside' <=> DataWritesInside
    BY <2>1, DataWritesStay
  <2> QED
    BY <2>1, <2>2 DEF LoadInv
<1>6. CASE UNCHANGED vars
  <2>1. /\ stage' = stage /\ i' = i /\ complete' = complete
        /\ packed' = packed /\ local' = local /\ index' = index /\ lot' = lot /\ start' = start
        /\ data' = data /\ (DataWritesInside' <=> DataWritesInside)
    BY <1>6, DataWritesStay DEF vars, generated, loaded
  <2> QED
    BY <2>1 DEF LoadInv
<1> QED
  BY <1>1, <1>2, <1>3, <1>4, <1>5, <1>6, <1>7, ResolveExternalStep, ResolveLocalStep DEF Next

-----------------------------------------------------------------------------

LEMMA RejectedStays ==
    ASSUME [Next]_vars, stage' # "rejected"
    PROVE  relocs' = relocs /\ stage # "rejected"
BY DEF Next, vars, input, SkipCall, ExtractExternal, ExtractInternal, ExtractExported, Extracting,
       UnknownRelocation, Extracted, PackExternal, WriteImage, Load, LoadRefused, ResolveExternal,
       ResolvedExternals, ResolveLocal, ResolvedLocals, ResolveData, ResolvedData

(* Together the invariants are inductive.                                   *)
THEOREM ImageInductive == Spec => []ImageInvs
<1>1. Init => ImageInvs
  <2> SUFFICES ASSUME Init
               PROVE  ImageInvs
    OBVIOUS
  <2>1. /\ stage = "extract" /\ i = 0 /\ external = <<>> /\ local = <<>> /\ exported = <<>>
        /\ index = 0 /\ packed = <<>>
    BY DEF Init
  <2>2. InputInv
    <3>1. PICK S \in SUBSET Externals :
            /\ symtab \in Orders(S \cup {Main})
            /\ relocs \in UNION {[1..n -> Relocation(S)] : n \in 0..MaxRelocs}
      BY DEF Init
    <3>2. \E n \in 0..MaxRelocs : relocs \in [1..n -> Relocation(S)]
      BY <3>1
    <3>3. pointers \in Pointers
      BY DEF Init
    <3> QED
      BY <2>1, <3>1, <3>2, <3>3 DEF InputInv, Stages
  <2>3. ExtractInv
    <3>1. ToSet(external) = {} /\ ToSet(local) = {} /\ NamesIn(external) = {}
      BY <2>1 DEF ToSet, NamesIn
    <3>2. Extracts = {} /\ Done = 0
      BY <2>1, <3>1 DEF Extracts, Done
    <3>3. Agree(Extracts, ToSet(external), relocs, Done, index)
      BY <3>1, <3>2 DEF Agree
    <3>4. index = Cardinality(NamesIn(external)) + Len(local)
      BY <2>1, <3>1, FS_EmptySet
    <3>5. Done <= Len(relocs)
      BY <2>2, <3>2, NumberOfReferences
    <3>6. external \in Seq(Extract(Externals)) /\ local \in Seq(Extract(Internals))
      BY <2>1
    <3> QED
      BY <2>1, <3>3, <3>4, <3>5, <3>6 DEF ExtractInv
  <2> QED
    BY <2>1, <2>2, <2>3 DEF ImageInvs, Generated, PackInv, ImageInv, LoadInv, Written, Filling
<1>2. ImageInvs /\ [Next]_vars => ImageInvs'
  <2> SUFFICES ASSUME ImageInvs, [Next]_vars
               PROVE  ImageInvs'
    OBVIOUS
  <2>1. InputInv /\ InputInv'
    BY InputKept DEF ImageInvs
  <2>2. ASSUME ~MainReferred', stage' # "rejected"
        PROVE  Generated'
    <3>1. relocs' = relocs /\ stage # "rejected"
      BY <2>2, RejectedStays
    <3>2. ~MainReferred
      BY <2>2, <3>1 DEF MainReferred
    <3>3. Generated
      BY <3>1, <3>2 DEF ImageInvs
    <3> QED
      BY <2>1, <2>2, <3>2, <3>3, ExtractKept, PackKept, FileKept, LoadKept DEF Generated
  <2> QED
    BY <2>1, <2>2 DEF ImageInvs
<1> QED
  BY <1>1, <1>2, PTL DEF Spec

(* The text of the file, patched at the places of the references.           *)
LEMMA TextIsPatched ==
    ASSUME ExtractInv
    PROVE  /\ PatchedText # Nothing
           /\ \A r \in Extracts : PatchedText[r.at] = 4 * r.lot
<1>1. PICK at : at = {r.at : r \in Extracts}
  OBVIOUS
<1>2. PatchedText = [k \in at |-> 4 * (CHOOSE r \in Extracts : r.at = k).lot]
  <2>1. References = Extracts
    BY DEF References, Extracts, ExtractInv, ToSet
  <2> QED
    BY <1>1, <2>1 DEF PatchedText
<1>3. ASSUME NEW r \in Extracts
      PROVE  (CHOOSE q \in Extracts : q.at = r.at) = r
  <2>1. \A q \in Extracts : q.at = r.at => q = r
    BY DEF ExtractInv, Agree
  <2> QED
    BY <2>1
<1>4. \A r \in Extracts : r.at \in at /\ PatchedText[r.at] = 4 * r.lot
  BY <1>1, <1>2, <1>3
<1>5. \A r \in Extracts : r.at \in Places /\ r.lot \in Nat
  BY ExtractsType
<1>6. at \in SUBSET (1..MaxRelocs)
  BY <1>1, <1>5 DEF Places
<1>7. PatchedText \in [at -> Nat]
  <2>1. \A k \in at : \E r \in Extracts : r.at = k
    BY <1>1
  <2>2. \A k \in at : PatchedText[k] \in Nat
    BY <1>4, <1>5, <2>1
  <2> QED
    BY <1>2, <2>2
<1>8. PatchedText # Nothing
  BY <1>6, <1>7, ImageAssumption
<1> QED
  BY <1>4, <1>8

LEMMA CodeIsRead ==
    ASSUME InputInv, ExtractInv, PackInv, ImageInv, stage \in Written
    PROVE  At(CodeAddress) = PatchedText /\ At(CodeAddress + CodeSize) = "data"
<1>1. PICK n \in Nat, m \in Nat : n = NumRelocs /\ m = Len(ExternalSymbols)
  BY SymbolIsRead
<1>2. PICK a \in Nat : a = SymAt(n, m + 2)
  BY DEF SymAt, RelAt, SizeOfHeader, SizeOfRelocation, SizeOfSymbol
<1>3. SymbolAddress + SizeOfSymbol * NumberOfSymbols = Base + a
  <2>1. NumberOfSymbols = m + 1
    BY <1>1, HeaderIsRead DEF NumberOfSymbols
  <2>2. SymbolAddress = Base + SymAt(n, 1)
    BY <1>1, SymbolIsRead
  <2>3. SymAt(n, 1) \in Nat /\ a = SymAt(n, 1) + 12 * (m + 1)
    BY <1>2 DEF SymAt, RelAt, SizeOfHeader, SizeOfRelocation, SizeOfSymbol
  <2>4. Base \in Nat
    BY ImageAssumption
  <2> QED
    BY <2>1, <2>2, <2>3, <2>4 DEF SizeOfSymbol
<1>4. PICK code \in Nat : code = CodePlace /\ CodeAddress = Base + code
  <2>1. CodeAddress = Base + AlignUp(a) /\ AlignUp(a) \in Nat
    BY <1>2, <1>3, Aligned DEF CodeAddress
  <2>2. CodePlace = AlignUp(a)
    BY <1>1, <1>2 DEF CodePlace
  <2> QED
    BY <2>1, <2>2
<1>5. FileHolds(image)
  BY DEF ImageInv
<1>6. At(CodeAddress) = PatchedText
  <2>1. code \in DOMAIN image /\ image[code] = PatchedText
    BY <1>4, <1>5 DEF FileHolds
  <2> QED
    BY <1>4, <2>1, AtPlace
<1>7. At(CodeAddress + CodeSize) = "data"
  <2>1. PICK end \in Nat : end = code + CodeSize
    BY ImageAssumption
  <2>2. end \in DOMAIN image /\ image[end] = "data"
    BY <1>4, <1>5, <2>1 DEF FileHolds
  <2>3. CodeAddress + CodeSize = Base + end
    BY <1>4, <2>1, ImageAssumption
  <2> QED
    BY <2>1, <2>2, <2>3, AtPlace
<1> QED
  BY <1>6, <1>7

(* A loaded module is the program that was linked: it starts at main, and   *)
(* every reference of its text names an entry of the offset table with the  *)
(* address of its symbol, for any number and order of symbols and           *)
(* references, as long as the text does not refer to main and no relocation *)
(* of the data is of a word behind the data (generate_binary.py,            *)
(* dynamic_linker.cpp).                                                     *)
THEOREM LoadedIsLinked == Spec => []ReferencesResolve
<1>1. ImageInvs => ReferencesResolve
  <2> SUFFICES ASSUME ImageInvs, stage = "loaded", ~MainReferred, DataWritesInside
               PROVE  /\ start = <<"text", Values[Main]>>
                      /\ At(CodeAddress) # Nothing /\ At(CodeAddress + CodeSize) = "data"
                      /\ \A k \in DOMAIN relocs : relocs[k].type = "GOT_BREL" =>
                          LET offset == At(CodeAddress)[k] IN
                          /\ (offset % 4) = 0 /\ offset \div 4 \in DOMAIN lot
                          /\ lot[offset \div 4] = RuntimeAddress(relocs[k].name)
    BY DEF ReferencesResolve
  <2> USE DEF ImageInvs, Generated
  <2>1. stage \in Written /\ stage \in Filling /\ stage \notin {"extract", "pack"}
    BY DEF Written, Filling
  <2>2. At(CodeAddress) = PatchedText /\ At(CodeAddress + CodeSize) = "data"
    BY <2>1, CodeIsRead
  <2>3. PatchedText # Nothing
    BY TextIsPatched
  <2>4. /\ start = <<"text", Values[Main]>> /\ lot = [k \in 0..(index - 1) |-> lot[k]]
        /\ Addresses(lot, packed, Len(packed)) /\ Addresses(lot, local, Len(local))
    BY <2>1 DEF LoadInv
  <2>5. ASSUME NEW k \in DOMAIN relocs, relocs[k].type = "GOT_BREL"
        PROVE  LET offset == At(CodeAddress)[k] IN
               /\ (offset % 4) = 0 /\ offset \div 4 \in DOMAIN lot
               /\ lot[offset \div 4] = RuntimeAddress(relocs[k].name)
    <3>1. k \in 1 .. Done
      <4>1. DOMAIN relocs = 1 .. Len(relocs)
        <5>1. PICK S \in SUBSET Externals : \E n \in 0..MaxRelocs : relocs \in [1..n -> Relocation(S)]
          BY DEF InputInv
        <5>2. PICK n \in 0..MaxRelocs : relocs \in [1..n -> Relocation(S)]
          BY <5>1
        <5>3. n \in Nat
          BY ImageAssumption
        <5> QED
          BY <5>2, <5>3
      <4> QED
        BY <2>1, <4>1 DEF Done
    <3>2. PICK r \in Extracts : r.at = k
      BY <2>5, <3>1 DEF ExtractInv, Agree
    <3>3. r.lot \in Nat /\ r.lot < index /\ index \in Nat /\ r.name = relocs[k].name
      BY <3>2, ExtractsType DEF ExtractInv, Agree
    <3>4. lot[r.lot] = RuntimeAddress(r.name)
      <4>1. CASE r \in ToSet(local)
        <5>1. PICK j \in 1 .. Len(local) : local[j] = r
          BY <4>1, ElementsOf DEF ExtractInv
        <5> QED
          BY <2>4, <5>1 DEF Addresses
      <4>2. CASE r \in ToSet(external)
        <5>1. r.name \in NamesIn(external)
          BY <4>2 DEF NamesIn, ToSet
        <5>2. r.name \in NamesIn(packed) /\ DOMAIN packed = 1 .. Len(packed)
          BY <2>1, <5>1, EntriesInAll, ElementsOf
        <5>3. PICK j \in 1 .. Len(packed) : packed[j].name = r.name
          BY <5>2 DEF NamesIn
        <5>4. packed[j] \in ToSet(external)
          BY <2>1, EntriesInAll
        <5>5. packed[j].lot = r.lot
          BY <4>2, <5>3, <5>4 DEF ExtractInv, Agree
        <5> QED
          BY <2>4, <5>3, <5>5 DEF Addresses
      <4> QED
        BY <4>1, <4>2 DEF Extracts
    <3>5. PICK offset : offset = At(CodeAddress)[k]
      OBVIOUS
    <3>6. offset = 4 * r.lot
      BY <2>2, <3>2, <3>5, TextIsPatched
    <3>7. PICK l \in Nat : l = r.lot
      BY <3>3
    <3>8. offset % 4 = 0 /\ offset \div 4 = l
      BY <3>6, <3>7
    <3>9. l \in DOMAIN lot
      BY <2>4, <3>3, <3>7
    <3> QED
      BY <3>3, <3>4, <3>5, <3>7, <3>8, <3>9
  <2> QED
    BY <2>2, <2>3, <2>4, <2>5
<1> QED
  BY <1>1, ImageInductive, PTL
=============================================================================
