----------------------------- MODULE FilesProofs -----------------------------
(***************************************************************************)
(* Proofs about Files for any number of processes, descriptors, files and  *)
(* bytes: the descriptor table of a process, what it reads and what names  *)
(* stand for.                                                              *)
(***************************************************************************)
EXTENDS Files, InductionLemmas, SequenceTheorems, FiniteSetTheorems, WellFoundedInduction, TLAPS

Entry  == [path : Seq(Nat), dir : BOOLEAN, data : Seq(Bytes)]
Handle == [node : Int, pos : Nat]

(* What one slot must satisfy, given the file system fs.                    *)
SlotOK(fs, h, read) ==
    /\ h.node <= Len(fs)
    /\ h.node = 0 => h = Empty
    /\ h.node > 0 => /\ h.pos <= Len(fs[h.node].data)
                     /\ read = SubSeq(fs[h.node].data, 1, h.pos)

(* The inductive invariant.                                                 *)
FilesType ==
    /\ files \in Seq(Entry)
    /\ Len(files) >= 1

TableType ==
    /\ bits \in [Procs -> SUBSET Fds]
    /\ slot \in [Procs -> [Fds -> Handle]]
    /\ seen \in [Procs -> [Fds -> Seq(Bytes)]]

TableInv == \A p \in Procs : \A fd \in Fds :
    /\ fd \in bits[p] <=> slot[p][fd].node # 0
    /\ SlotOK(files, slot[p][fd], seen[p][fd])

FInv == FilesType /\ TableType /\ TableInv

(* What every step may do to the files: entries stay where they are under    *)
(* their names, and data grows at its end.                                  *)
Grows(old, new) ==
    /\ Len(old) <= Len(new)
    /\ \A i \in 1..Len(old) :
          /\ new[i].path = old[i].path
          /\ Len(old[i].data) <= Len(new[i].data)
          /\ \A k \in 1..Len(old[i].data) : new[i].data[k] = old[i].data[k]

-----------------------------------------------------------------------------
(* Sequences.                                                               *)

(* A sequence and one that continues it have the same beginnings.           *)
LEMMA SamePrefix ==
    ASSUME NEW S, NEW s \in Seq(S), NEW t \in Seq(S), NEW n \in Nat,
           n <= Len(s), Len(s) <= Len(t),
           \A k \in 1..Len(s) : t[k] = s[k]
    PROVE  SubSeq(t, 1, n) = SubSeq(s, 1, n)
<1>1. SubSeq(t, 1, n) \in Seq(S) /\ SubSeq(s, 1, n) \in Seq(S)
  BY SubSeqProperties
<1>2. Len(SubSeq(t, 1, n)) = Len(SubSeq(s, 1, n))
  BY SubSeqProperties
<1>3. \A i \in 1..Len(SubSeq(s, 1, n)) : SubSeq(t, 1, n)[i] = SubSeq(s, 1, n)[i]
  BY SubSeqProperties
<1> QED
  BY <1>1, <1>2, <1>3, SeqEqual

(* Two neighbouring pieces make one.                                        *)
LEMMA JoinedPrefix ==
    ASSUME NEW S, NEW s \in Seq(S), NEW m \in Nat, NEW n \in Nat, m + n <= Len(s)
    PROVE  SubSeq(s, 1, m) \o SubSeq(s, m + 1, m + n) = SubSeq(s, 1, m + n)
<1> DEFINE a == SubSeq(s, 1, m)
           b == SubSeq(s, m + 1, m + n)
           c == SubSeq(s, 1, m + n)
<1>1. a \in Seq(S) /\ Len(a) = m /\ \A i \in 1..m : a[i] = s[i]
  BY SubSeqProperties
<1>2. b \in Seq(S) /\ Len(b) = n /\ \A i \in 1..n : b[i] = s[m + i]
  BY SubSeqProperties
<1>3. c \in Seq(S) /\ Len(c) = m + n /\ \A i \in 1..(m + n) : c[i] = s[i]
  BY SubSeqProperties
<1> HIDE DEF a, b, c
<1> DEFINE d == a \o b
<1>4. /\ d \in Seq(S) /\ Len(d) = m + n
      /\ \A i \in 1..(m + n) : d[i] = IF i <= m THEN a[i] ELSE b[i - m]
  BY <1>1, <1>2, ConcatProperties
<1> HIDE DEF d
<1>5. \A i \in 1..(m + n) : d[i] = c[i]
  <2> SUFFICES ASSUME NEW i \in 1..(m + n)
               PROVE  d[i] = c[i]
    OBVIOUS
  <2>1. CASE i <= m
    BY <2>1, <1>1, <1>3, <1>4
  <2>2. CASE ~(i <= m)
    <3>1. i - m \in 1..n /\ m + (i - m) = i
      BY <2>2
    <3> QED
      BY <2>2, <3>1, <1>2, <1>3, <1>4
  <2> QED
    BY <2>1, <2>2
<1> QED
  <2>1. d = c
    BY <1>3, <1>4, <1>5, SeqEqual
  <2> QED
    BY <2>1 DEF a, b, c, d

-----------------------------------------------------------------------------
(* Names.                                                                   *)

(* A set of positions has a least one.                                      *)
LEMMA LeastPosition ==
    ASSUME NEW n \in Nat, NEW E \in SUBSET (1..n), E # {}
    PROVE  \E i \in E : \A j \in E : i <= j
<1> DEFINE T == {1..i : i \in E}
<1>1. T \subseteq FiniteSubsetsOf(1..n)
  <2> SUFFICES ASSUME NEW i \in E
               PROVE  1..i \in FiniteSubsetsOf(1..n)
    OBVIOUS
  <2>1. IsFiniteSet(1..i)
    BY FS_Interval
  <2> QED
    BY <2>1 DEF FiniteSubsetsOf
<1>2. PICK t \in T : \A u \in T : ~(<<u, t>> \in StrictSubsetOrdering(1..n))
  <2>1. T # {}
    OBVIOUS
  <2> HIDE DEF T
  <2> QED
    BY <1>1, <2>1, FS_StrictSubsetOrderingWellFounded, WFMin
<1>3. PICK i \in E : t = 1..i
  OBVIOUS
<1>4. ASSUME NEW j \in E, j < i
      PROVE  FALSE
  <2>1. 1..j \in T /\ 1..j \subseteq 1..i /\ i \in 1..i /\ i \notin 1..j
    BY <1>4
  <2>2. 1..j \in SUBSET (1..n) /\ 1..i \in SUBSET (1..n)
    OBVIOUS
  <2>3. <<1..j, 1..i>> \in StrictSubsetOrdering(1..n)
    BY <2>1, <2>2 DEF StrictSubsetOrdering
  <2> QED
    BY <1>2, <1>3, <2>1, <2>3
<1> QED
  BY <1>4

(* Get returns the first entry of a name, and 0 only when there is none.    *)
LEMMA GetFirst ==
    ASSUME FilesType, NEW path
    PROVE  /\ Get(path) \in 0..Len(files)
           /\ path = <<>> => Get(path) = 1
           /\ path # <<>> /\ Get(path) = 0 => Entries(path) = {}
           /\ path # <<>> /\ Get(path) # 0 =>
                 /\ Get(path) \in Entries(path)
                 /\ \A j \in Entries(path) : Get(path) <= j
<1>1. CASE path = <<>>
  BY <1>1 DEF Get, FilesType
<1>2. CASE path # <<>> /\ Entries(path) = {}
  BY <1>2 DEF Get, FilesType
<1>3. CASE path # <<>> /\ Entries(path) # {}
  <2>1. Entries(path) \in SUBSET Nat /\ Entries(path) \subseteq 2..Len(files)
    BY DEF Entries, FilesType
  <2>2. PICK i \in Entries(path) : \A j \in Entries(path) : i <= j
    <3>1. Entries(path) \in SUBSET (1..Len(files)) /\ Len(files) \in Nat
      BY DEF Entries, FilesType
    <3> QED
      BY <1>3, <3>1, LeastPosition
  <2>3. Get(path) \in Entries(path) /\ \A j \in Entries(path) : Get(path) <= j
    BY <1>3, <2>2 DEF Get
  <2> QED
    BY <1>3, <2>1, <2>3 DEF FilesType
<1> QED
  BY <1>1, <1>2, <1>3

(* As the files grow, a name keeps its file.                                *)
LEMMA NamesKept ==
    ASSUME FilesType, FilesType', Grows(files, files'), NEW path, Get(path) # 0
    PROVE  Get(path)' = Get(path)
<1>1. CASE path = <<>>
  BY <1>1 DEF Get
<1>2. CASE path # <<>>
  <2> DEFINE g == Get(path)
  <2>1. g \in Entries(path) /\ \A j \in Entries(path) : g <= j
    BY <1>2, GetFirst
  <2>2. g \in Entries(path)'
    BY <2>1 DEF Entries, Grows, FilesType
  <2>3. \A j \in Entries(path)' : g <= j
    <3> SUFFICES ASSUME NEW j \in Entries(path)', j < g
                 PROVE  FALSE
      BY <2>1 DEF Entries, FilesType
    <3>1. j \in Entries(path)
      BY <2>1 DEF Entries, Grows, FilesType
    <3> QED
      BY <2>1, <3>1 DEF Entries, FilesType
  <2>4. /\ Get(path)' \in Entries(path)'
        /\ \A j \in Entries(path)' : Get(path)' <= j
    <3>1. Entries(path)' \in SUBSET Nat
      BY DEF Entries, FilesType
    <3>2. Get(path)' = CHOOSE i \in Entries(path)' : \A j \in Entries(path)' : i <= j
      BY <1>2, <2>2 DEF Get
    <3> QED
      BY <2>2, <2>3, <3>2
  <2>5. Get(path)' \in Nat /\ g \in Nat
    BY <2>1, <2>4 DEF Entries, FilesType
  <2> QED
    BY <2>2, <2>3, <2>4, <2>5
<1> QED
  BY <1>1, <1>2

-----------------------------------------------------------------------------
(* The files only grow.                                                     *)

(* A step that leaves the files alone keeps what they promise. *)
LEMMA GrowsReflexive ==
    ASSUME FilesType, UNCHANGED files
    PROVE  FilesType' /\ Grows(files, files')
BY DEF FilesType, Grows

(* A new entry goes behind the others.                                      *)
LEMMA AppendGrows ==
    ASSUME FilesType, NEW e \in Entry, files' = Append(files, e)
    PROVE  FilesType' /\ Grows(files, files') /\ Len(files') = Len(files) + 1
<1>1. /\ files' \in Seq(Entry) /\ Len(files') = Len(files) + 1
      /\ \A i \in 1..Len(files) : files'[i] = files[i]
  BY AppendProperties DEF FilesType
<1> QED
  BY <1>1 DEF FilesType, Grows

(* What is behind a slot stays as long as nobody touches the slot.          *)
LEMMA SlotSurvives ==
    ASSUME FInv, FilesType', Grows(files, files'), NEW p \in Procs, NEW fd \in Fds
    PROVE  SlotOK(files', slot[p][fd], seen[p][fd])
<1> DEFINE h == slot[p][fd]
<1>1. h \in Handle /\ SlotOK(files, h, seen[p][fd])
  BY DEF FInv, TableType, TableInv
<1>2. h.node <= Len(files')
  BY <1>1 DEF SlotOK, Grows, FInv, FilesType, Handle
<1>3. CASE h.node > 0
  <2> DEFINE i == h.node
             old == files[i].data
             new == files'[i].data
  <2>1. i \in 1..Len(files)
    BY <1>1, <1>3 DEF SlotOK, Handle, FInv, FilesType
  <2>2. files[i] \in Entry /\ files'[i] \in Entry
    BY <1>2, <1>3, <2>1 DEF FInv, FilesType, Grows
  <2>3. /\ old \in Seq(Bytes) /\ new \in Seq(Bytes)
        /\ Len(old) <= Len(new)
        /\ \A k \in 1..Len(old) : new[k] = old[k]
    BY <2>1, <2>2 DEF Entry, Grows
  <2>4. h.pos \in Nat /\ h.pos <= Len(old) /\ seen[p][fd] = SubSeq(old, 1, h.pos)
    BY <1>1, <1>3 DEF SlotOK, Handle
  <2>5. SubSeq(new, 1, h.pos) = SubSeq(old, 1, h.pos)
    BY <2>3, <2>4, SamePrefix
  <2>6. h.pos <= Len(new)
    BY SMTT(60), <2>3, <2>4
  <2> QED
    BY <1>1, <1>2, <2>4, <2>5, <2>6 DEF SlotOK
<1> QED
  BY <1>1, <1>2, <1>3 DEF SlotOK, Handle

(* The table when nobody touches it.                                        *)
LEMMA TableUntouched ==
    ASSUME FInv, FilesType', Grows(files, files'), UNCHANGED <<bits, slot, seen>>
    PROVE  FInv'
<1>1. TableType'
  BY DEF FInv, TableType
<1>2. TableInv'
  BY SlotSurvives DEF FInv, TableInv
<1> QED
  BY <1>1, <1>2 DEF FInv

(* The table when one slot gets new contents.                               *)
LEMMA SlotChanged ==
    ASSUME FInv, FilesType', Grows(files, files'),
           NEW p \in Procs, NEW fd \in Fds, NEW b \in SUBSET Fds,
           NEW h \in Handle, NEW read \in Seq(Bytes),
           SlotOK(files', h, read),
           fd \in b <=> h.node # 0,
           b \ {fd} = bits[p] \ {fd},
           bits' = [bits EXCEPT ![p] = b],
           slot' = [slot EXCEPT ![p][fd] = h],
           seen' = [seen EXCEPT ![p][fd] = read]
    PROVE  FInv'
<1>1. TableType'
  BY DEF FInv, TableType
<1>2. ASSUME NEW q \in Procs, NEW f \in Fds
      PROVE  /\ f \in bits'[q] <=> slot'[q][f].node # 0
             /\ SlotOK(files', slot'[q][f], seen'[q][f])
  <2>1. CASE q = p /\ f = fd
    <3>1. bits'[q] = b /\ slot'[q][f] = h /\ seen'[q][f] = read
      BY <2>1 DEF FInv, TableType
    <3> QED
      BY <2>1, <3>1
  <2>2. CASE ~(q = p /\ f = fd)
    <3>1. slot'[q][f] = slot[q][f] /\ seen'[q][f] = seen[q][f]
      BY <2>2 DEF FInv, TableType
    <3>2. f \in bits'[q] <=> f \in bits[q]
      BY <2>2 DEF FInv, TableType
    <3> QED
      BY <3>1, <3>2, SlotSurvives DEF FInv, TableInv
  <2> QED
    BY <2>1, <2>2
<1>3. TableInv'
  BY <1>2 DEF TableInv
<1> QED
  BY <1>1, <1>3 DEF FInv

-----------------------------------------------------------------------------
(* The actions.                                                             *)

(* The beginning of length 0 is empty. *)
LEMMA EmptyBeginning ==
    ASSUME NEW S, NEW s \in Seq(S)
    PROVE  SubSeq(s, 1, 0) = <<>>
BY SubSeqEmpty

(* add_file, with a file of the new file system.                            *)
LEMMA AddFileStep ==
    ASSUME FInv, FilesType', Grows(files, files'),
           NEW p \in Procs, NEW node \in 1..Len(files'), AddFile(p, node)
    PROVE  FInv'
<1>1. CASE UNCHANGED <<bits, slot, seen>>
  BY <1>1, TableUntouched
<1>2. CASE ~UNCHANGED <<bits, slot, seen>>
  <2> DEFINE h == [node |-> node, pos |-> 0]
  <2>1. PICK fd \in Fds \ bits[p] :
            /\ bits' = [bits EXCEPT ![p] = @ \cup {fd}]
            /\ slot' = [slot EXCEPT ![p][fd] = h]
            /\ seen' = [seen EXCEPT ![p][fd] = <<>>]
    BY <1>2 DEF AddFile
  <2> DEFINE b == bits[p] \cup {fd}
  <2>2. bits' = [bits EXCEPT ![p] = b]
    BY <2>1
  <2>3. b \in SUBSET Fds /\ fd \in b /\ b \ {fd} = bits[p] \ {fd}
    BY <2>1 DEF FInv, TableType
  <2>4. h \in Handle /\ h.node = node /\ h.pos = 0 /\ node # 0
    BY DEF Handle, FilesType
  <2>5. <<>> \in Seq(Bytes)
    OBVIOUS
  <2>6. files'[node].data \in Seq(Bytes)
    <3>1. files'[node] \in Entry
      BY DEF FilesType
    <3> QED
      BY <3>1 DEF Entry
  <2>7. SlotOK(files', h, <<>>)
    BY <2>4, <2>6, EmptyBeginning, LenProperties DEF SlotOK
  <2> HIDE DEF b, h
  <2> QED
    BY <2>1, <2>2, <2>3, <2>4, <2>5, <2>7, SlotChanged
<1> QED
  BY <1>1, <1>2

(* open for reading preserves the invariant. *)
LEMMA OpenReadStep ==
    ASSUME FInv, NEW p \in Procs, NEW path \in Paths, OpenRead(p, path)
    PROVE  FInv' /\ Grows(files, files')
<1>1. FilesType' /\ Grows(files, files')
  BY GrowsReflexive DEF OpenRead, FInv
<1>2. Get(path) \in 1..Len(files')
  BY GetFirst DEF OpenRead, FInv
<1> QED
  BY <1>1, <1>2, AddFileStep DEF OpenRead

(* open with other flags preserves the invariant. *)
LEMMA OpenOtherStep ==
    ASSUME FInv, NEW p \in Procs, NEW path \in Paths, OpenOther(p, path)
    PROVE  FInv' /\ Grows(files, files')
<1>1. FilesType' /\ Grows(files, files')
  BY GrowsReflexive DEF OpenOther, FInv
<1>2. Get(path) \in 1..Len(files')
  BY GetFirst DEF OpenOther, FInv
<1> QED
  BY <1>1, <1>2, AddFileStep DEF OpenOther

(* The entry that create or mkdir appends.                                  *)
LEMMA NewEntry ==
    ASSUME NEW path \in Paths
    PROVE  File(path) \in Entry /\ Directory(path) \in Entry
<1>1. path \in Seq(Nat)
  BY FilesAssumption
<1> QED
  BY <1>1 DEF File, Directory, Entry

(* create preserves the invariant. *)
LEMMA CreateStep ==
    ASSUME FInv, NEW p \in Procs, NEW path \in Paths, Create(p, path)
    PROVE  FInv' /\ Grows(files, files')
<1>1. FilesType' /\ Grows(files, files')
  BY NewEntry, AppendGrows DEF Create, FInv
<1> QED
  BY <1>1, TableUntouched DEF Create

(* open(O_CREAT) preserves it: the new handle is at the entry that is last. *)
LEMMA OpenCreatedStep ==
    ASSUME FInv, NEW p \in Procs, OpenCreated(p)
    PROVE  FInv' /\ Grows(files, files')
<1>1. FilesType' /\ Grows(files, files') /\ files' = files
  BY GrowsReflexive DEF OpenCreated, FInv
<1>2. Len(files) \in 1..Len(files')
  BY <1>1 DEF FInv, FilesType
<1> QED
  BY <1>1, <1>2, AddFileStep DEF OpenCreated

(* mkdir preserves the invariant. *)
LEMMA MkdirStep ==
    ASSUME FInv, NEW p \in Procs, NEW path \in Paths, Mkdir(p, path)
    PROVE  FInv' /\ Grows(files, files')
<1>1. FilesType' /\ Grows(files, files')
  BY NewEntry, AppendGrows DEF Mkdir, FInv
<1> QED
  BY <1>1, TableUntouched DEF Mkdir

(* Steps that leave files and table alone.                                  *)
LEMMA OtherStep ==
    ASSUME FInv, UNCHANGED <<files, bits, slot, seen>>
    PROVE  FInv' /\ Grows(files, files')
<1>1. FilesType' /\ Grows(files, files')
  BY GrowsReflexive DEF FInv
<1> QED
  BY <1>1, TableUntouched

(* close preserves the invariant: slot and bit go together. *)
LEMMA CloseStep ==
    ASSUME FInv, NEW p \in Procs, NEW fd \in Fds, Close(p, fd)
    PROVE  FInv' /\ Grows(files, files')
<1> DEFINE b == bits[p] \ {fd}
<1>1. FilesType' /\ Grows(files, files')
  BY GrowsReflexive DEF Close, FInv
<1>2. /\ bits' = [bits EXCEPT ![p] = b]
      /\ slot' = [slot EXCEPT ![p][fd] = Empty]
      /\ seen' = [seen EXCEPT ![p][fd] = <<>>]
  BY DEF Close, RemoveFile
<1>3. b \in SUBSET Fds /\ fd \notin b /\ b \ {fd} = bits[p] \ {fd}
  BY DEF FInv, TableType
<1>4. Empty \in Handle /\ Empty.node = 0 /\ <<>> \in Seq(Bytes)
  BY DEF Empty, Handle
<1>5. SlotOK(files', Empty, <<>>)
  BY <1>1, <1>4 DEF SlotOK, FilesType
<1> HIDE DEF b
<1> QED
  BY <1>1, <1>2, <1>3, <1>4, <1>5, SlotChanged

(* A read returns the next part of the file and moves behind it.            *)
LEMMA ReadStep ==
    ASSUME FInv, NEW p \in Procs, NEW fd \in Fds, NEW n \in Nat, Read(p, fd, n)
    PROVE  FInv' /\ Grows(files, files')
<1> DEFINE h   == slot[p][fd]
           d   == files[h.node].data
           len == ReadLength(h, n)
           new == [node |-> h.node, pos |-> h.pos + len]
           all == SubSeq(d, 1, h.pos + len)
<1>1. FilesType' /\ Grows(files, files')
  BY GrowsReflexive DEF Read, FInv
<1>2. fd \in bits[p] /\ GetFile(p, fd) = h
  BY DEF Read, GetFile, Empty
<1>3. /\ h.node > 0 /\ bits' = bits
      /\ slot' = [slot EXCEPT ![p][fd] = [h EXCEPT !.pos = @ + len]]
      /\ seen' = [seen EXCEPT ![p][fd] = @ \o SubSeq(d, h.pos + 1, h.pos + len)]
  BY <1>2 DEF Read
<1>4. h \in Handle /\ SlotOK(files, h, seen[p][fd])
  BY DEF FInv, TableType, TableInv
<1>5. h.node \in 1..Len(files) /\ d \in Seq(Bytes)
  <2>1. h.node \in 1..Len(files)
    BY <1>3, <1>4 DEF SlotOK, Handle, FInv, FilesType
  <2>2. files[h.node] \in Entry
    BY <2>1 DEF FInv, FilesType
  <2> QED
    BY <2>1, <2>2 DEF Entry
<1>6. h.pos \in Nat /\ h.pos <= Len(d) /\ seen[p][fd] = SubSeq(d, 1, h.pos)
  BY <1>3, <1>4 DEF SlotOK, Handle
<1>7. len \in Nat /\ h.pos + len <= Len(d)
  <2>1. len = IF h.pos >= Len(d) THEN 0
              ELSE IF Len(d) - h.pos > n THEN n ELSE Len(d) - h.pos
    BY DEF ReadLength
  <2> HIDE DEF d, h, len
  <2>2. Len(d) \in Nat
    BY <1>5, LenProperties
  <2>3. h.pos \in Nat /\ h.pos <= Len(d)
    BY <1>6
  <2> QED
    BY <2>1, <2>2, <2>3
<1>8. all = seen[p][fd] \o SubSeq(d, h.pos + 1, h.pos + len)
  <2> HIDE DEF len, d
  <2> QED
    BY <1>5, <1>6, <1>7, JoinedPrefix
<1>9. all \in Seq(Bytes)
  <2> HIDE DEF len, d
  <2> QED
    BY SMTT(60), <1>5, <1>6, <1>7, SubSeqProperties
<1>10. new \in Handle /\ SlotOK(files', new, all)
  <2>1. new.node = h.node /\ new.pos = h.pos + len
    OBVIOUS
  <2>2. files' = files
    BY DEF Read
  <2> QED
    <3> HIDE DEF len, new
    <3>1. new.node = h.node /\ h.node \in Nat /\ h.node # 0 /\ h.node <= Len(files)
      BY <2>1, <1>3, <1>5 DEF FInv, FilesType
    <3>2. new.pos \in Nat /\ new.pos <= Len(d) /\ all = SubSeq(d, 1, new.pos)
      BY <2>1, <1>6, <1>7
    <3>3. new \in Handle
      BY SMTT(60), <1>6, <1>7, <3>1 DEF Handle, new
    <3> QED
      BY <2>2, <3>1, <3>2, <3>3 DEF SlotOK
<1>11. slot' = [slot EXCEPT ![p][fd] = new]
  <2>1. [h EXCEPT !.pos = @ + len] = new
    BY <1>4 DEF Handle
  <2> QED
    BY <1>3, <2>1
<1>12. seen' = [seen EXCEPT ![p][fd] = all]
  BY <1>3, <1>8
<1>13. bits' = [bits EXCEPT ![p] = bits[p]] /\ bits[p] \in SUBSET Fds
  BY <1>3 DEF FInv, TableType
<1>14. new.node # 0
  BY <1>3
<1> HIDE DEF new, all
<1> QED
  BY <1>1, <1>2, <1>9, <1>10, <1>11, <1>12, <1>13, <1>14, SlotChanged

(* A write adds to the end of one file.                                     *)
LEMMA WriteStep ==
    ASSUME FInv, NEW p \in Procs, NEW fd \in Fds, NEW byte \in Bytes, Write(p, fd, byte)
    PROVE  FInv' /\ Grows(files, files')
<1> DEFINE i == GetFile(p, fd).node
           d == files[i].data
<1>1. i \in 1..Len(files)
  BY DEF Write, GetFile, Empty, FInv, TableType, TableInv, SlotOK, Handle, FilesType
<1>2. d \in Seq(Bytes) /\ files[i] \in Entry
  <2>1. files[i] \in Entry
    BY <1>1 DEF FInv, FilesType
  <2> QED
    BY <2>1 DEF Entry
<1>3. files' = [files EXCEPT ![i].data = Append(d, byte)]
  BY DEF Write, WriteData
<1>4. /\ Append(d, byte) \in Seq(Bytes) /\ Len(Append(d, byte)) = Len(d) + 1
      /\ \A k \in 1..Len(d) : Append(d, byte)[k] = d[k]
  BY <1>2, AppendProperties
<1> DEFINE e == [files[i] EXCEPT !.data = Append(d, byte)]
<1>5. e \in Entry /\ e.path = files[i].path /\ e.data = Append(d, byte)
  BY <1>2, <1>4 DEF Entry
<1>6. files' = [files EXCEPT ![i] = e]
  BY <1>3
<1> HIDE DEF e
<1>7. /\ files' \in Seq(Entry) /\ Len(files') = Len(files)
      /\ files'[i] = e
      /\ \A j \in 1..Len(files) : j # i => files'[j] = files[j]
  BY <1>1, <1>5, <1>6, ExceptSeq DEF FInv, FilesType
<1>8. FilesType'
  BY <1>7 DEF FInv, FilesType
<1>9. Grows(files, files')
  <2> SUFFICES ASSUME NEW j \in 1..Len(files)
               PROVE  /\ files'[j].path = files[j].path
                      /\ Len(files[j].data) <= Len(files'[j].data)
                      /\ \A k \in 1..Len(files[j].data) :
                            files'[j].data[k] = files[j].data[k]
    BY <1>7 DEF Grows, FInv, FilesType
  <2>1. CASE j = i
    BY <2>1, <1>2, <1>4, <1>5, <1>7
  <2>2. CASE j # i
    <3>0. files[j] \in Entry
      BY DEF FInv, FilesType
    <3>1. files[j].data \in Seq(Bytes)
      BY <3>0 DEF Entry
    <3> QED
      BY <2>2, <3>1, <1>7
  <2> QED
    BY <2>1, <2>2
<1> QED
  BY <1>8, <1>9, TableUntouched DEF Write

(* The descriptors of a new process are in order.                           *)
LEMMA BornOK ==
    ASSUME NEW tty \in BOOLEAN
    PROVE  /\ Born(tty) \in [Fds -> Handle]
           /\ \A fd \in Fds : fd \in Std <=> Born(tty)[fd].node # 0
           /\ \A fd \in Fds : /\ Born(tty)[fd].node <= 0
                              /\ Born(tty)[fd].node = 0 => Born(tty)[fd] = Empty
           /\ Std \subseteq Fds
<1>1. /\ Tty \in Handle /\ Tty.node = -1
      /\ NoTty \in Handle /\ NoTty.node = -2
      /\ Empty \in Handle /\ Empty.node = 0
  BY DEF Tty, NoTty, Empty, Handle
<1>2. \A fd \in Fds :
         Born(tty)[fd] = IF fd \notin Std THEN Empty ELSE IF tty THEN Tty ELSE NoTty
  BY DEF Born
<1>3. Std \subseteq Fds
  BY FilesAssumption DEF Std, Fds
<1>4. Born(tty) \in [Fds -> Handle]
  BY <1>1 DEF Born
<1> QED
  BY <1>1, <1>2, <1>3, <1>4

(* The end of a process preserves the invariant. *)
LEMMA RespawnStep ==
    ASSUME FInv, NEW p \in Procs, Respawn(p)
    PROVE  FInv' /\ Grows(files, files')
<1> PICK tty \in BOOLEAN : slot' = [slot EXCEPT ![p] = Born(tty)]
  BY DEF Respawn
<1>1. FilesType' /\ Grows(files, files')
  BY GrowsReflexive DEF Respawn, FInv
<1>2. TableType'
  <2>1. [fd \in Fds |-> <<>>] \in [Fds -> Seq(Bytes)]
    OBVIOUS
  <2> QED
    BY <2>1, BornOK DEF Respawn, FInv, TableType
<1>3. ASSUME NEW q \in Procs, NEW fd \in Fds
      PROVE  /\ fd \in bits'[q] <=> slot'[q][fd].node # 0
             /\ SlotOK(files', slot'[q][fd], seen'[q][fd])
  <2>1. CASE q = p
    <3>1. bits'[q] = Std /\ slot'[q][fd] = Born(tty)[fd]
      BY <2>1 DEF Respawn, FInv, TableType
    <3>2. Born(tty)[fd].node \in Int /\ Len(files') \in Nat
      BY <1>1, BornOK DEF Handle, FilesType
    <3> QED
      BY <3>1, <3>2, BornOK DEF SlotOK
  <2>2. CASE q # p
    <3>1. /\ bits'[q] = bits[q] /\ slot'[q][fd] = slot[q][fd]
          /\ seen'[q][fd] = seen[q][fd]
      BY <2>2 DEF Respawn, FInv, TableType
    <3> QED
      BY <3>1, <1>1, SlotSurvives DEF FInv, TableInv
  <2> QED
    BY <2>1, <2>2
<1> QED
  BY <1>1, <1>2, <1>3 DEF FInv, TableInv

-----------------------------------------------------------------------------
(* The invariant.                                                           *)

(* The invariant holds at boot. *)
LEMMA InitFInv == Init => FInv
<1> SUFFICES ASSUME Init
             PROVE  FInv
  OBVIOUS
<1> PICK tty \in [Procs -> BOOLEAN] : slot = [p \in Procs |-> Born(tty[p])]
  BY DEF Init
<1>1. FilesType
  <2>1. Directory(<<>>) \in Entry
    BY NewEntry, FilesAssumption
  <2> QED
    BY <2>1 DEF Init, FilesType
<1>2. TableType
  <2>1. [fd \in Fds |-> <<>>] \in [Fds -> Seq(Bytes)]
    OBVIOUS
  <2> QED
    BY <2>1, BornOK DEF Init, TableType
<1>3. ASSUME NEW p \in Procs, NEW fd \in Fds
      PROVE  /\ fd \in bits[p] <=> slot[p][fd].node # 0
             /\ SlotOK(files, slot[p][fd], seen[p][fd])
  <2>1. bits[p] = Std /\ slot[p][fd] = Born(tty[p])[fd]
    BY DEF Init
  <2>2. Born(tty[p])[fd].node \in Int /\ Len(files) \in Nat
    BY <1>1, BornOK DEF Handle, FilesType
  <2> QED
    BY <2>1, <2>2, BornOK DEF SlotOK
<1> QED
  BY <1>1, <1>2, <1>3 DEF FInv, TableInv

(* Every step preserves the invariant, and files only grow. *)
LEMMA NextFInv == FInv /\ [Next]_vars => FInv' /\ Grows(files, files')
<1> SUFFICES ASSUME FInv, [Next]_vars
             PROVE  FInv' /\ Grows(files, files')
  OBVIOUS
<1>1. CASE UNCHANGED vars
  BY <1>1, OtherStep DEF vars
<1>2. ASSUME NEW p \in Procs, NEW path \in Paths,
             OpenRead(p, path) \/ Create(p, path) \/ OpenOther(p, path)
                \/ Mkdir(p, path)
      PROVE  FInv' /\ Grows(files, files')
  BY <1>2, OpenReadStep, CreateStep, OpenOtherStep, MkdirStep
<1>3. ASSUME NEW p \in Procs, NEW path \in Paths, Chdir(p, path) \/ OpenDir(p, path)
      PROVE  FInv' /\ Grows(files, files')
  BY <1>3, OtherStep DEF Chdir, OpenDir
<1>4. ASSUME NEW p \in Procs, NEW fd \in Fds,
             \/ Close(p, fd)
             \/ \E n \in 1..MaxSize : Read(p, fd, n)
             \/ \E byte \in Bytes : Write(p, fd, byte)
      PROVE  FInv' /\ Grows(files, files')
  <2>1. 1..MaxSize \subseteq Nat
    BY FilesAssumption
  <2> QED
    BY <1>4, <2>1, CloseStep, ReadStep, WriteStep
<1>5. ASSUME NEW p \in Procs, ReadDir(p) \/ CloseDir(p)
      PROVE  FInv' /\ Grows(files, files')
  BY <1>5, OtherStep DEF ReadDir, CloseDir
<1>6. ASSUME NEW p \in Procs, Respawn(p) \/ OpenCreated(p)
      PROVE  FInv' /\ Grows(files, files')
  BY <1>6, RespawnStep, OpenCreatedStep
<1> QED
  BY <1>1, <1>2, <1>3, <1>4, <1>5, <1>6 DEF Next, Call

(* The descriptor tables are in order and what every descriptor has read is *)
(* the beginning of its file, in every reachable state.                     *)
THEOREM FilesInductive == Spec => []FInv
<1>1. FInv /\ [Next]_vars => FInv'
  BY NextFInv
<1> QED
  BY InitFInv, <1>1, PTL DEF Spec

(* A bit of fd_map_ is set exactly when its slot of fd_ holds a file, but for *)
(* the descriptors that a process without a terminal was born with.         *)
THEOREM SlotsAgree == Spec => []SlotsMatchBits
<1>1. FInv => SlotsMatchBits
  <2> SUFFICES ASSUME FInv, NEW p \in Procs, NEW fd \in Fds
               PROVE  fd \in bits[p] <=> slot[p][fd] # Empty
    BY DEF SlotsMatchBits, FInv, TableType
  <2>1. Empty.node = 0
    BY DEF Empty
  <2> QED
    BY <2>1 DEF FInv, TableInv, SlotOK
<1> QED
  BY FilesInductive, <1>1, PTL

(* A process reads the bytes of a file in order and without gaps, whoever   *)
(* appends to it meanwhile.                                                 *)
THEOREM ReadsFollowTheFile == Spec => []ReadsArePrefixes
<1>1. FInv => ReadsArePrefixes
  BY DEF FInv, TableType, TableInv, SlotOK, ReadsArePrefixes
<1> QED
  BY FilesInductive, <1>1, PTL

(* A path that names a file names it for ever.                              *)
THEOREM NamesStay == Spec => NamesAreStable
<1>1. ASSUME FInv, [Next]_vars
      PROVE  [\A path \in Paths : Get(path) # 0 => Get(path)' = Get(path)]_vars
  <2>1. FInv' /\ Grows(files, files')
    BY <1>1, NextFInv
  <2> QED
    BY <1>1, <2>1, NamesKept DEF FInv
<1> QED
  BY FilesInductive, <1>1, PTL DEF Spec, NamesAreStable

-----------------------------------------------------------------------------
(* Files implements Descriptors.                                            *)

Held == [p \in Procs |-> [fd \in Fds |-> IF fd \in bits[p] THEN slot[p][fd].node ELSE 0]]

(* The mapping gives every descriptor the file in its slot.                 *)
LEMMA HeldIsNode ==
    ASSUME FInv
    PROVE  /\ \A p \in Procs : \A fd \in Fds : Held[p][fd] = slot[p][fd].node
           /\ Held = [p \in Procs |-> [fd \in Fds |-> slot[p][fd].node]]
<1>1. \A p \in Procs : \A fd \in Fds :
        (IF fd \in bits[p] THEN slot[p][fd].node ELSE 0) = slot[p][fd].node
  BY DEF FInv, TableInv
<1> QED
  BY <1>1 DEF Held

(* The initial tables are fresh tables. *)
LEMMA InitImplements == Init => Abstract!Init
<1> SUFFICES ASSUME Init, NEW p \in Procs, NEW fd \in Fds
             PROVE  Held[p][fd] # 0 <=> fd < NumStd
  BY DEF Abstract!Init, Abstract!Fresh, Abstract!Fds, Fds, Held
<1> PICK tty \in [Procs -> BOOLEAN] : slot = [q \in Procs |-> Born(tty[q])]
  BY DEF Init
<1>1. Held[p][fd] = Born(tty[p])[fd].node
  BY InitFInv, HeldIsNode DEF Init
<1>2. fd \in Std <=> fd < NumStd
  BY FilesAssumption DEF Std, Fds
<1> QED
  BY <1>1, <1>2, BornOK

(* Steps that leave the table alone, or read, are not visible.              *)
LEMMA SameNodes ==
    ASSUME FInv, FInv',
           \A p \in Procs : \A fd \in Fds : slot'[p][fd].node = slot[p][fd].node
    PROVE  Held' = Held
<1>1. Held = [p \in Procs |-> [fd \in Fds |-> slot[p][fd].node]]
  BY HeldIsNode
<1>2. Held' = [p \in Procs |-> [fd \in Fds |-> slot'[p][fd].node]]
  <2>1. \A p \in Procs : \A fd \in Fds :
           (IF fd \in bits'[p] THEN slot'[p][fd].node ELSE 0) = slot'[p][fd].node
    BY DEF FInv, TableInv
  <2> QED
    BY <2>1 DEF Held
<1> QED
  BY <1>1, <1>2

(* One slot changes: one entry of the abstract table changes.               *)
LEMMA OneNode ==
    ASSUME FInv, FInv', NEW p \in Procs, NEW fd \in Fds, NEW h \in Handle,
           slot' = [slot EXCEPT ![p][fd] = h]
    PROVE  /\ Held' = [Held EXCEPT ![p][fd] = h.node]
           /\ Held'[p][fd] = h.node
<1>1. Held = [q \in Procs |-> [f \in Fds |-> slot[q][f].node]]
  BY HeldIsNode
<1>2. Held' = [q \in Procs |-> [f \in Fds |-> slot'[q][f].node]]
  <2>1. \A q \in Procs : \A f \in Fds :
           (IF f \in bits'[q] THEN slot'[q][f].node ELSE 0) = slot'[q][f].node
    BY DEF FInv, TableInv
  <2> QED
    BY <2>1 DEF Held
<1>3. \A q \in Procs : \A f \in Fds :
         slot'[q][f].node = IF q = p /\ f = fd THEN h.node ELSE slot[q][f].node
  BY DEF FInv, TableType
<1>4. Held'[p][fd] = h.node
  BY <1>2, <1>3
<1>5. Held' = [Held EXCEPT ![p] = [Held[p] EXCEPT ![fd] = h.node]]
  <2> DEFINE row == [Held[p] EXCEPT ![fd] = h.node]
  <2>1. row = [f \in Fds |-> IF f = fd THEN h.node ELSE slot[p][f].node]
    BY <1>1
  <2>2. row = [f \in Fds |-> slot'[p][f].node]
    BY <2>1, <1>3
  <2>3. \A q \in Procs : q # p => [f \in Fds |-> slot'[q][f].node] = Held[q]
    BY <1>1, <1>3
  <2> HIDE DEF row
  <2>4. [Held EXCEPT ![p] = row] = [q \in Procs |-> IF q = p THEN row ELSE Held[q]]
    BY DEF Held
  <2>5. \A q \in Procs : [f \in Fds |-> slot'[q][f].node] = IF q = p THEN row ELSE Held[q]
    <3> TAKE q \in Procs
    <3>1. CASE q = p
      BY <2>2, <3>1
    <3>2. CASE q # p
      BY <2>3, <3>2
    <3> QED
      BY <3>1, <3>2
  <2>6. Held' = [Held EXCEPT ![p] = row]
    BY <1>2, <2>4, <2>5
  <2> QED
    BY <2>6 DEF row
<1> QED
  BY <1>4, <1>5

(* add_file allocates the least free descriptor or does nothing. *)
LEMMA AddFileAllocates ==
    ASSUME FInv, FInv', NEW p \in Procs, NEW node \in Nat \ {0}, AddFile(p, node)
    PROVE  Held' = Held \/ Abstract!Allocate(p)
<1>1. CASE UNCHANGED <<bits, slot, seen>>
  BY <1>1, SameNodes
<1>2. CASE ~UNCHANGED <<bits, slot, seen>>
  <2> DEFINE h == [node |-> node, pos |-> 0]
  <2>1. PICK fd \in Fds \ bits[p] :
            /\ 0..(fd - 1) \subseteq bits[p]
            /\ slot' = [slot EXCEPT ![p][fd] = h]
    BY <1>2 DEF AddFile
  <2>2. h \in Handle /\ h.node = node
    BY DEF Handle
  <2>3. Held' = [Held EXCEPT ![p][fd] = node] /\ Held'[p][fd] = node
    BY <2>1, <2>2, OneNode
  <2>4. Held[p][fd] = 0
    BY <2>1 DEF Held
  <2>5. \A lower \in 0..(fd - 1) : Held[p][lower] # 0
    <3> SUFFICES ASSUME NEW lower \in 0..(fd - 1)
                 PROVE  Held[p][lower] # 0
      OBVIOUS
    <3>1. lower \in Fds /\ lower \in bits[p]
      BY <2>1 DEF FInv, TableType
    <3> QED
      BY <3>1, HeldIsNode DEF FInv, TableInv
  <2>6. fd \in Abstract!Fds
    BY <2>1 DEF Abstract!Fds, Fds
  <2> QED
    BY <2>3, <2>4, <2>5, <2>6 DEF Abstract!Allocate, Held
<1> QED
  BY <1>1, <1>2

(* close releases one descriptor. *)
LEMMA CloseReleases ==
    ASSUME FInv, FInv', NEW p \in Procs, NEW fd \in Fds, Close(p, fd)
    PROVE  Abstract!Release(p)
<1>1. Empty \in Handle /\ Empty.node = 0
  BY DEF Empty, Handle
<1>2. Held' = [Held EXCEPT ![p][fd] = 0]
  BY <1>1, OneNode DEF Close, RemoveFile
<1>3. Held[p][fd] # 0
  BY HeldIsNode DEF Close, RemoveFile, FInv, TableInv
<1>4. fd \in Abstract!Fds
  BY DEF Abstract!Fds, Fds
<1> QED
  BY <1>2, <1>3, <1>4 DEF Abstract!Release, Held

(* A new process gets a fresh table. *)
LEMMA RespawnResets ==
    ASSUME FInv, FInv', NEW p \in Procs, Respawn(p)
    PROVE  Abstract!Reset(p)
<1> PICK tty \in BOOLEAN : slot' = [slot EXCEPT ![p] = Born(tty)]
  BY DEF Respawn
<1> PICK born : born = Born(tty)
  OBVIOUS
<1> DEFINE nodes == [fd \in Fds |-> IF fd \in Std THEN born[fd].node ELSE 0]
<1>1. Held' = [Held EXCEPT ![p] = nodes]
  <2>1. \A q \in Procs : /\ bits'[q] = IF q = p THEN Std ELSE bits[q]
                         /\ slot'[q] = IF q = p THEN born ELSE slot[q]
    BY DEF Respawn, FInv, TableType
  <2>2. \A q \in Procs : q # p =>
           Held[q] = [fd \in Fds |-> IF fd \in bits'[q] THEN slot'[q][fd].node ELSE 0]
    BY <2>1 DEF Held
  <2>3. nodes = [fd \in Fds |-> IF fd \in bits'[p] THEN slot'[p][fd].node ELSE 0]
    BY <2>1
  <2> HIDE DEF nodes
  <2>4. [Held EXCEPT ![p] = nodes] = [q \in Procs |-> IF q = p THEN nodes ELSE Held[q]]
    BY DEF Held
  <2>5. \A q \in Procs : (IF q = p THEN nodes ELSE Held[q]) =
           [fd \in Fds |-> IF fd \in bits'[q] THEN slot'[q][fd].node ELSE 0]
    <3> TAKE q \in Procs
    <3>1. CASE q = p
      BY <2>3, <3>1
    <3>2. CASE q # p
      BY <2>2, <3>2
    <3> QED
      BY <3>1, <3>2
  <2> QED
    BY <2>4, <2>5 DEF Held
<1>2. Held'[p] = nodes
  BY <1>1 DEF Held
<1>3. \A fd \in Fds : nodes[fd] # 0 <=> fd < NumStd
  BY BornOK, FilesAssumption DEF Std, Fds
<1>4. Abstract!Fresh(Held'[p])
  BY <1>2, <1>3 DEF Abstract!Fresh, Abstract!Fds, Fds
<1> HIDE DEF nodes
<1>5. Held' = [Held EXCEPT ![p] = Held'[p]]
  BY <1>1, <1>2
<1> QED
  BY <1>4, <1>5 DEF Abstract!Reset, Held

(* Every step is one of Descriptors or changes nothing it sees. *)
LEMMA StepImplements ==
    FInv /\ FInv' /\ [Next]_vars => [Abstract!Next]_Held
<1> SUFFICES ASSUME FInv, FInv', [Next]_vars
             PROVE  Held' = Held \/ Abstract!Next
  OBVIOUS
<1>1. CASE UNCHANGED <<bits, slot>>
  BY <1>1 DEF Held
<1>2. ASSUME NEW p \in Procs,
             \/ \E path \in Paths : OpenRead(p, path) \/ OpenOther(p, path)
             \/ OpenCreated(p)
      PROVE  Held' = Held \/ Abstract!Next
  <2>1. PICK node \in Nat \ {0} : AddFile(p, node)
    <3>1. (\A path \in Paths : Get(path) \in Nat) /\ Len(files) \in Nat \ {0}
      BY GetFirst DEF FInv, FilesType
    <3> QED
      BY <1>2, <3>1 DEF OpenRead, OpenCreated, OpenOther
  <2> QED
    BY <2>1, AddFileAllocates DEF Abstract!Next
<1>3. ASSUME NEW p \in Procs, NEW fd \in Fds, Close(p, fd)
      PROVE  Abstract!Next
  BY <1>3, CloseReleases DEF Abstract!Next
<1>4. ASSUME NEW p \in Procs, NEW fd \in Fds, NEW n \in 1..MaxSize, Read(p, fd, n)
      PROVE  Held' = Held
  <2> DEFINE h   == GetFile(p, fd)
             new == [h EXCEPT !.pos = @ + ReadLength(h, n)]
  <2>1. h = slot[p][fd] /\ h \in Handle
    BY <1>4 DEF Read, GetFile, Empty, FInv, TableType
  <2>2. slot' = [slot EXCEPT ![p][fd] = new]
    BY <1>4 DEF Read
  <2>3. new.node = h.node
    BY <2>1 DEF Handle
  <2> HIDE DEF new, h
  <2>4. ASSUME NEW q \in Procs, NEW f \in Fds
        PROVE  slot'[q][f].node = slot[q][f].node
    <3>1. CASE q = p /\ f = fd
      BY <2>1, <2>2, <2>3, <3>1 DEF FInv, TableType
    <3>2. CASE ~(q = p /\ f = fd)
      BY <2>2, <3>2 DEF FInv, TableType
    <3> QED
      BY <3>1, <3>2
  <2> QED
    BY SMTT(60), <2>4, SameNodes
<1>5. ASSUME NEW p \in Procs, Respawn(p)
      PROVE  Abstract!Next
  BY <1>5, RespawnResets DEF Abstract!Next
<1>6. ASSUME NEW p \in Procs, NEW path \in Paths,
             Create(p, path) \/ Mkdir(p, path) \/ Chdir(p, path) \/ OpenDir(p, path)
      PROVE  UNCHANGED <<bits, slot>>
  BY <1>6 DEF Create, Mkdir, Chdir, OpenDir
<1>7. ASSUME NEW p \in Procs, NEW fd \in Fds, NEW byte \in Bytes, Write(p, fd, byte)
      PROVE  UNCHANGED <<bits, slot>>
  BY <1>7 DEF Write
<1>8. ASSUME NEW p \in Procs, ReadDir(p) \/ CloseDir(p)
      PROVE  UNCHANGED <<bits, slot>>
  BY <1>8 DEF ReadDir, CloseDir
<1> QED
  BY <1>1, <1>2, <1>3, <1>4, <1>5, <1>6, <1>7, <1>8 DEF Next, Call, vars

(* Whatever processes open, close, read and write, and however they come and*)
(* go, their descriptors behave like those of Descriptors.                  *)
THEOREM FilesImplementDescriptors == Spec => ImplementsDescriptors
<1>1. FInv /\ [Next]_vars => FInv'
  BY NextFInv
<1> QED
  BY InitFInv, InitImplements, StepImplements, <1>1, PTL
  DEF Spec, ImplementsDescriptors, Abstract!Spec, Held

-----------------------------------------------------------------------------
(* Listings.                                                                *)

Increasing(l) == l \in Seq(Nat) /\ \A i, j \in 1 .. Len(l) : i < j => l[i] < l[j]

Names(l) == {l[i] : i \in 1 .. Len(l)}

LEMMA InsertType ==
    ASSUME NEW l \in Seq(Nat), NEW n \in Nat
    PROVE  /\ InsertWithOrder(l, n) \in Seq(Nat)
           /\ \/ InsertWithOrder(l, n) = Append(l, n) /\ \A i \in 1 .. Len(l) : l[i] <= n
              \/ \E at \in 1 .. Len(l) :
                    /\ n < l[at] /\ \A i \in 1 .. at - 1 : l[i] <= n
                    /\ InsertWithOrder(l, n) =
                            [i \in 1 .. Len(l) + 1 |-> IF i < at THEN l[i]
                                                        ELSE IF i = at THEN n ELSE l[i - 1]]
<1> DEFINE greater == {i \in DOMAIN l : n < l[i]}
<1>1. PICK m \in Nat : m = Len(l)
  OBVIOUS
<1>2. DOMAIN l = 1 .. m /\ \A i \in 1 .. m : l[i] \in Nat
  BY <1>1
<1>3. CASE greater = {}
  <2>1. InsertWithOrder(l, n) = Append(l, n)
    BY <1>3 DEF InsertWithOrder
  <2>2. \A i \in 1 .. m : l[i] <= n
    BY <1>2, <1>3
  <2> QED
    BY <1>1, <2>1, <2>2, AppendProperties
<1>4. CASE greater # {}
  <2>1. PICK at : at = CHOOSE i \in greater : \A j \in greater : i <= j
    OBVIOUS
  <2>2. at \in greater /\ \A j \in greater : at <= j
    <3>1. greater \subseteq Nat
      BY <1>2
    <3>2. \E i \in greater : \A j \in greater : i <= j
      <4> HIDE DEF greater
      <4> QED
        BY <1>4, <3>1, LeastNatural
    <3> HIDE DEF greater
    <3> QED
      BY <2>1, <3>2
  <2>3. at \in 1 .. m /\ n < l[at] /\ \A i \in 1 .. at - 1 : l[i] <= n
    <3>1. at \in 1 .. m /\ n < l[at]
      BY <1>2, <2>2
    <3>2. ASSUME NEW i \in 1 .. at - 1 PROVE l[i] <= n
      <4>1. i \in 1 .. m /\ ~(at <= i)
        BY <3>1
      <4>2. ~(n < l[i])
        BY <1>2, <2>2, <4>1
      <4> QED
        BY <1>2, <4>1, <4>2
    <3> QED
      BY <3>1, <3>2
  <2> PICK k \in Nat : k = m - at + 1
    BY <2>3
  <2>4. InsertWithOrder(l, n) = SubSeq(l, 1, at - 1) \o <<n>> \o SubSeq(l, at, Len(l))
    <3>1. InsertWithOrder(l, n) = InsertAt(l, at, n)
      BY <1>4, <2>1 DEF InsertWithOrder
    <3> QED
      BY <3>1 DEF InsertAt
  <2>5. SubSeq(l, 1, at - 1) = [i \in 1 .. at - 1 |-> l[i]]
    BY <1>1, <2>3
  <2>6. SubSeq(l, at, Len(l)) = [i \in 1 .. k |-> l[i + at - 1]]
    BY <1>1, <2>3
  <2> DEFINE new == [i \in 1 .. m + 1 |-> IF i < at THEN l[i] ELSE IF i = at THEN n ELSE l[i - 1]]
  <2>7. PICK a : a = [i \in 1 .. at - 1 |-> l[i]]
    OBVIOUS
  <2>8. PICK b : b = [i \in 1 .. k |-> l[i + at - 1]]
    OBVIOUS
  <2>9. a \in Seq(Nat) /\ Len(a) = at - 1 /\ \A i \in 1 .. at - 1 : a[i] = l[i]
    <3>1. at - 1 \in Nat /\ \A i \in 1 .. at - 1 : i \in 1 .. m
      BY <2>3
    <3> QED
      BY <1>2, <2>7, <3>1
  <2>10. b \in Seq(Nat) /\ Len(b) = k /\ \A i \in 1 .. k : b[i] = l[i + at - 1]
    <3>1. \A i \in 1 .. k : i + at - 1 \in 1 .. m
      BY <2>3
    <3>2. \A i \in 1 .. k : l[i + at - 1] \in Nat
      BY <1>2, <3>1
    <3> QED
      BY <2>8, <3>2
  <2>11. PICK c \in Seq(Nat) : c = a \o <<n>> /\ Len(c) = at
                               /\ \A i \in 1 .. at : c[i] = IF i < at THEN l[i] ELSE n
    <3>1. <<n>> \in Seq(Nat) /\ Len(<<n>>) = 1 /\ <<n>>[1] = n
      OBVIOUS
    <3>2. a \o <<n>> \in Seq(Nat) /\ Len(a \o <<n>>) = at
      BY <2>3, <2>9, <3>1
    <3>3. ASSUME NEW i \in 1 .. at PROVE (a \o <<n>>)[i] = IF i < at THEN l[i] ELSE n
      <4>1. CASE i < at
        <5>1. i \in 1 .. at - 1
          BY <2>3, <4>1
        <5> QED
          BY <2>9, <3>1, <4>1, <5>1
      <4>2. CASE i = at
        BY <2>3, <2>9, <3>1, <4>2
      <4>3. i < at \/ i = at
        BY <2>3
      <4> QED
        BY <4>1, <4>2, <4>3
    <3> QED
      BY <3>2, <3>3
  <2>12. c \o b = new
    <3>1. Len(c \o b) = m + 1 /\ c \o b \in Seq(Nat)
      <4>1. at + k = m + 1
        BY <2>3
      <4>2. c \o b \in Seq(Nat) /\ Len(c \o b) = Len(c) + Len(b)
        BY <2>10, ConcatProperties
      <4> QED
        BY <2>10, <2>11, <4>1, <4>2
    <3>2. ASSUME NEW i \in 1 .. m + 1 PROVE (c \o b)[i] = new[i]
      <4>1. CASE i <= at
        <5>1. i \in 1 .. at
          BY <2>3, <4>1
        <5>2. (c \o b)[i] = c[i]
          BY <2>10, <2>11, <5>1
        <5> QED
          BY <2>3, <2>11, <5>1, <5>2
      <4>2. CASE i > at
        <5>1. i - at \in 1 .. k /\ i - at + at - 1 = i - 1 /\ i # at /\ ~(i < at)
          BY <2>3, <4>2
        <5>2. i \in 1 .. Len(c) + Len(b) /\ ~(i <= Len(c)) /\ i - Len(c) = i - at
          <6>1. i \in 1 .. at + k /\ ~(i <= at)
            BY <2>3, <4>2
          <6>2. Len(c) = at /\ Len(b) = k
            BY <2>10, <2>11
          <6> HIDE DEF new
          <6> QED
            BY <6>1, <6>2
        <5>3. (c \o b)[i] = b[i - at]
          BY <2>10, <5>2, ConcatProperties
        <5> QED
          BY <2>10, <5>1, <5>3
      <4>3. i <= at \/ i > at
        BY <2>3
      <4> HIDE DEF new
      <4> QED
        BY <4>1, <4>2, <4>3
    <3>3. DOMAIN (c \o b) = 1 .. m + 1 /\ c \o b = [i \in 1 .. m + 1 |-> (c \o b)[i]]
      <4>1. PICK t \in Seq(Nat) : t = c \o b /\ Len(t) = m + 1
        BY <3>1
      <4>2. t \in [1 .. m + 1 -> Nat]
        BY <4>1, LenProperties
      <4>3. DOMAIN t = 1 .. m + 1 /\ t = [i \in 1 .. m + 1 |-> t[i]]
        BY <4>2
      <4> QED
        BY <4>1, <4>3
    <3> HIDE DEF new
    <3>4. new = [i \in 1 .. m + 1 |-> new[i]]
      BY DEF new
    <3> QED
      BY <3>2, <3>3, <3>4
  <2>13. c \o b \in Seq(Nat)
    BY <2>10, <2>11
  <2>14. InsertWithOrder(l, n) = new /\ InsertWithOrder(l, n) \in Seq(Nat)
    BY <2>4, <2>5, <2>6, <2>7, <2>8, <2>11, <2>12, <2>13
  <2> QED
    BY <1>1, <2>3, <2>14
<1> QED
  BY <1>3, <1>4

(* A new name goes to its place.                                            *)
LEMMA InsertKeepsOrder ==
    ASSUME NEW l, Increasing(l), NEW n \in Nat, n \notin Names(l)
    PROVE  Increasing(InsertWithOrder(l, n)) /\ Names(InsertWithOrder(l, n)) = Names(l) \cup {n}
<1>1. PICK m \in Nat : m = Len(l)
  BY DEF Increasing
<1>2. /\ l \in Seq(Nat) /\ \A i \in 1 .. m : l[i] \in Nat /\ l[i] # n
      /\ \A i, j \in 1 .. m : i < j => l[i] < l[j]
  BY <1>1 DEF Increasing, Names
<1>3. PICK new : new = InsertWithOrder(l, n)
  OBVIOUS
<1>4. new \in Seq(Nat)
  BY <1>2, <1>3, InsertType
<1>5. CASE new = Append(l, n) /\ \A i \in 1 .. m : l[i] <= n
  <2>1. Len(new) = m + 1 /\ new[m + 1] = n /\ \A i \in 1 .. m : new[i] = l[i]
    BY <1>1, <1>2, <1>5
  <2>2. ASSUME NEW i \in 1 .. m + 1, NEW j \in 1 .. m + 1, i < j PROVE new[i] < new[j]
    <3>1. i \in 1 .. m /\ (j \in 1 .. m \/ j = m + 1)
      BY <2>2
    <3>2. l[i] \in Nat /\ l[i] # n /\ l[i] <= n
      BY <1>2, <1>5, <3>1
    <3> QED
      BY <1>2, <2>1, <2>2, <3>1, <3>2
  <2>3. {new[i] : i \in 1 .. m + 1} = {l[i] : i \in 1 .. m} \cup {n}
    BY <2>1
  <2> QED
    BY SMTT(60), <1>1, <1>3, <1>4, <2>1, <2>2, <2>3 DEF Increasing, Names
<1>6. ASSUME NEW at \in 1 .. m, n < l[at], \A i \in 1 .. at - 1 : l[i] <= n,
             new = [i \in 1 .. m + 1 |-> IF i < at THEN l[i] ELSE IF i = at THEN n ELSE l[i - 1]]
      PROVE  Increasing(new) /\ Names(new) = Names(l) \cup {n}
  <2>1. Len(new) = m + 1 /\ new[at] = n
    BY <1>6
  <2>2. \A i \in 1 .. m + 1 : i < at => i \in 1 .. m /\ new[i] = l[i] /\ new[i] < n
    <3> SUFFICES ASSUME NEW i \in 1 .. m + 1, i < at
                 PROVE  i \in 1 .. m /\ new[i] = l[i] /\ new[i] < n
      OBVIOUS
    <3>1. i \in 1 .. m /\ i \in 1 .. at - 1
      OBVIOUS
    <3>2. l[i] \in Nat /\ l[i] # n /\ l[i] <= n
      BY <1>2, <1>6, <3>1
    <3> QED
      BY <1>6, <3>1, <3>2
  <2>3. \A i \in 1 .. m + 1 : i > at => i - 1 \in 1 .. m /\ new[i] = l[i - 1] /\ n < new[i]
    <3> SUFFICES ASSUME NEW i \in 1 .. m + 1, i > at
                 PROVE  i - 1 \in 1 .. m /\ new[i] = l[i - 1] /\ n < new[i]
      OBVIOUS
    <3>1. i - 1 \in 1 .. m /\ at <= i - 1
      OBVIOUS
    <3>2. l[i - 1] \in Nat /\ l[at] \in Nat /\ (at = i - 1 \/ l[at] < l[i - 1])
      BY <1>2, <3>1
    <3> QED
      BY <1>6, <3>1, <3>2
  <2>4. ASSUME NEW i \in 1 .. m + 1, NEW j \in 1 .. m + 1, i < j PROVE new[i] < new[j]
    <3>1. CASE j < at
      BY <1>2, <2>2, <2>4, <3>1
    <3>2. CASE i > at
      <4>1. i - 1 \in 1 .. m /\ j - 1 \in 1 .. m /\ i - 1 < j - 1
        BY <2>4, <3>2
      <4> QED
        BY <1>2, <2>3, <2>4, <3>2, <4>1
    <3>3. CASE i = at
      BY <2>1, <2>3, <2>4, <3>3
    <3>4. CASE j = at
      BY <2>1, <2>2, <2>4, <3>4
    <3>5. CASE i < at /\ j > at
      <4>1. new[i] < n /\ n < new[j]
        BY <2>2, <2>3, <3>5
      <4>2. new[i] \in Nat /\ new[j] \in Nat
        BY <1>4, <2>1
      <4> QED
        BY <4>1, <4>2
    <3> QED
      BY <2>4, <3>1, <3>2, <3>3, <3>4, <3>5
  <2>5. {new[i] : i \in 1 .. m + 1} = {l[i] : i \in 1 .. m} \cup {n}
    <3>1. ASSUME NEW i \in 1 .. m + 1 PROVE new[i] \in {l[j] : j \in 1 .. m} \cup {n}
      <4>1. i < at \/ i = at \/ i > at
        OBVIOUS
      <4> QED
        BY <2>1, <2>2, <2>3, <4>1
    <3>2. ASSUME NEW i \in 1 .. m PROVE l[i] \in {new[j] : j \in 1 .. m + 1}
      <4>1. CASE i < at
        <5>1. i \in 1 .. m + 1 /\ new[i] = l[i]
          BY <2>2, <4>1
        <5> QED
          BY <5>1
      <4>2. CASE ~(i < at)
        <5>1. i + 1 \in 1 .. m + 1 /\ i + 1 > at /\ (i + 1) - 1 = i
          BY <4>2
        <5>2. new[i + 1] = l[i]
          BY <2>3, <5>1
        <5> QED
          BY <5>1, <5>2
      <4> QED
        BY <4>1, <4>2
    <3>3. n \in {new[j] : j \in 1 .. m + 1}
      BY <2>1
    <3> QED
      BY <3>1, <3>2, <3>3
  <2> QED
    BY <1>1, <1>4, <2>1, <2>4, <2>5 DEF Increasing, Names
<1> QED
  BY <1>1, <1>2, <1>3, <1>5, <1>6, InsertType

(* Different entries of a directory have different names.                   *)
EntriesDiffer(fs) ==
    /\ \A i \in 2 .. Len(fs) : fs[i].path \in Seq(Nat \ {0})
    /\ \A i, j \in 2 .. Len(fs) : fs[i].path = fs[j].path => i = j

LEMMA NameAndParent ==
    ASSUME NEW f, f.path \in Seq(Nat \ {0}), NEW g, g.path \in Seq(Nat \ {0})
    PROVE  /\ Name(f) \in Nat
           /\ Name(f) = Name(g) /\ Parent(f) = Parent(g) => f.path = g.path
<1>1. ASSUME NEW s \in Seq(Nat \ {0}), s # <<>>
      PROVE  Last(s) \in Nat \ {0} /\ s = Append(Front(s), Last(s))
  <2>1. PICK n \in Nat : Len(s) = n + 1
    <3>1. Len(s) \in Nat /\ Len(s) # 0
      BY <1>1
    <3>2. Len(s) - 1 \in Nat /\ Len(s) = (Len(s) - 1) + 1
      BY <3>1
    <3> QED
      BY <3>2
  <2>2. Last(s) = s[n + 1] /\ Front(s) = [i \in 1 .. n |-> s[i]]
    BY <2>1 DEF Last, Front
  <2>3. s[n + 1] \in Nat \ {0} /\ \A i \in 1 .. n : s[i] \in Nat \ {0}
    BY <2>1
  <2>4. PICK front \in Seq(Nat \ {0}) : front = Front(s) /\ Len(front) = n
                                        /\ \A i \in 1 .. n : front[i] = s[i]
    <3>1. PICK front : front = [i \in 1 .. n |-> s[i]]
      OBVIOUS
    <3>2. front \in Seq(Nat \ {0}) /\ Len(front) = n /\ \A i \in 1 .. n : front[i] = s[i]
      BY <2>3, <3>1
    <3> QED
      BY <2>2, <3>1, <3>2
  <2>5. PICK t \in Seq(Nat \ {0}) : t = Append(front, s[n + 1])
    BY <2>3, AppendProperties
  <2>6. Len(t) = n + 1 /\ \A i \in 1 .. n + 1 : t[i] = s[i]
    BY <2>3, <2>4, <2>5
  <2>7. t = s
    BY <2>1, <2>6, SeqEqual
  <2> QED
    BY SMTT(60), <2>2, <2>3, <2>4, <2>5, <2>7
<1>2. CASE f.path = <<>> \/ g.path = <<>>
  BY <1>1, <1>2 DEF Name
<1>3. CASE f.path # <<>> /\ g.path # <<>>
  BY <1>1, <1>3 DEF Name, Parent
<1> QED
  BY <1>2, <1>3

(* Each entry is inserted after the ones before it.                         *)
Lists(l, fs, path) ==
    /\ l[1] = <<>>
    /\ \A i \in 2 .. Len(fs) :
        l[i] = IF Parent(fs[i]) = path THEN InsertWithOrder(l[i - 1], Name(fs[i])) ELSE l[i - 1]

LEMMA ListExists ==
    ASSUME files \in Seq(Entry), Len(files) >= 1, EntriesDiffer(files), NEW path
    PROVE  \E l : Lists(l, files, path) /\ List(path) = l[Len(files)]
<1> DEFINE n == Len(files)
           Next1(i, t) == IF i = 1 THEN <<>>
                          ELSE IF Parent(files[i]) = path THEN InsertWithOrder(t, Name(files[i]))
                          ELSE t
           Def(e) == e = [i \in 1 .. n |-> Next1(i, e[i - 1])]
           it == CHOOSE e : Def(e)
           A == Seq(Nat)
           step == [q \in Nat \X A |-> IF q[1] \in 1 .. n THEN Next1(q[1], q[2]) ELSE <<>>]
<1>1. n \in Nat
  OBVIOUS
<1>2. step \in [Nat \X A -> A]
  <2>1. <<>> \in A
    OBVIOUS
  <2>2. ASSUME NEW i \in 1 .. n, NEW t \in A PROVE Next1(i, t) \in A
    <3>1. CASE i = 1
      BY <2>1, <3>1
    <3>2. CASE i # 1
      <4>1. i \in 2 .. n
        BY <3>2
      <4>2. Name(files[i]) \in Nat
        BY <4>1, NameAndParent DEF EntriesDiffer
      <4>3. InsertWithOrder(t, Name(files[i])) \in A
        BY <4>2, InsertType
      <4> QED
        BY <3>2, <4>3
    <3> QED
      BY <3>1, <3>2
  <2> HIDE DEF A, Next1, n
  <2> QED
    BY <2>1, <2>2
<1>3. PICK f \in [0 .. n -> A] : Iterated(f, n, <<>>, step)
  <2>1. <<>> \in A
    OBVIOUS
  <2> HIDE DEF A, step, n
  <2> QED
    BY <1>1, <1>2, <2>1, Iterates
<1>4. ASSUME NEW i \in 1 .. n PROVE f[i] = Next1(i, f[i - 1])
  <2>1. f[i] = step[<<i, f[i - 1]>>]
    <3> HIDE DEF step
    <3> QED
      BY <1>3 DEF Iterated
  <2>2. i - 1 \in 0 .. n
    BY <1>1
  <2>3. <<i, f[i - 1]>> \in Nat \X A
    <3> HIDE DEF A
    <3> QED
      BY SMTT(60), <1>3, <2>2
  <2> HIDE DEF A, Next1
  <2> QED
    BY <2>1, <2>3
<1>5. Def([i \in 1 .. n |-> f[i]])
  <2> DEFINE g == [i \in 1 .. n |-> f[i]]
  <2>1. \A i \in 1 .. n : Next1(i, f[i - 1]) = Next1(i, g[i - 1])
    <3> SUFFICES ASSUME NEW i \in 1 .. n PROVE Next1(i, f[i - 1]) = Next1(i, g[i - 1])
      OBVIOUS
    <3>1. CASE i = 1
      BY <3>1
    <3>2. CASE i # 1
      <4>1. i - 1 \in 1 .. n
        BY <1>1, <3>2
      <4>2. g[i - 1] = f[i - 1]
        BY <4>1
      <4> HIDE DEF g
      <4> QED
        BY <4>2
    <3> QED
      BY <3>1, <3>2
  <2>2. \A i \in 1 .. n : f[i] = Next1(i, g[i - 1])
    <3> HIDE DEF Next1, g
    <3> QED
      BY <1>4, <2>1
  <2> HIDE DEF Next1
  <2> QED
    BY <2>2
<1>6. Def(it)
  <2> HIDE DEF Def
  <2> QED
    BY <1>5
<1>7. List(path) = it[n]
  BY DEF List
<1>8. Lists(it, files, path)
  <2>1. ASSUME NEW i \in 1 .. n PROVE it[i] = Next1(i, it[i - 1])
    <3> HIDE DEF it, Next1
    <3> QED
      BY <1>6
  <2>2. 1 \in 1 .. n /\ \A i \in 2 .. n : i \in 1 .. n /\ i # 1
    BY <1>1
  <2> HIDE DEF it
  <2> QED
    BY <2>1, <2>2 DEF Lists
<1> QED
  BY <1>7, <1>8

(* A listing has the names of a directory once each, in their order.        *)
LEMMA ListsInOrder ==
    ASSUME files \in Seq(Entry), Len(files) >= 1, EntriesDiffer(files), NEW path
    PROVE  Increasing(List(path))
<1>1. PICK l : Lists(l, files, path) /\ List(path) = l[Len(files)]
  BY ListExists
<1>2. PICK n \in Nat : n = Len(files) /\ n >= 1
  OBVIOUS
<1> DEFINE Listed(i) == {Name(files[k]) : k \in {j \in 2 .. i : Parent(files[j]) = path}}
           Good(i) == Increasing(l[i]) /\ Names(l[i]) = Listed(i)
           N == {i \in Nat : i + 1 <= n => Good(i + 1)}
<1>3. 0 \in N
  <2>1. l[1] = <<>>
    BY <1>1 DEF Lists
  <2>2. Increasing(<<>>) /\ Names(<<>>) = {}
    BY DEF Increasing, Names
  <2>3. Listed(1) = {}
    OBVIOUS
  <2>4. Good(0 + 1)
    BY <2>1, <2>2, <2>3
  <2> HIDE DEF Good
  <2> QED
    BY <2>4
<1>4. ASSUME NEW i \in Nat, i \in N PROVE i + 1 \in N
  <2> SUFFICES ASSUME (i + 1) + 1 <= n PROVE Good((i + 1) + 1)
    OBVIOUS
  <2>1. PICK k \in Nat : k = i + 1 /\ k >= 1 /\ k + 1 <= n
    OBVIOUS
  <2>2. Increasing(l[k]) /\ Names(l[k]) = Listed(k)
    BY <1>4, <2>1
  <2>3. k + 1 \in 2 .. n /\ (k + 1) - 1 = k
    BY <2>1
  <2>4. l[k + 1] = IF Parent(files[k + 1]) = path THEN InsertWithOrder(l[k], Name(files[k + 1]))
                   ELSE l[k]
    BY <1>1, <1>2, <2>3 DEF Lists
  <2>5. 2 .. k + 1 = (2 .. k) \cup {k + 1}
    BY <2>1
  <2>6. CASE Parent(files[k + 1]) # path
    <3>1. Listed(k + 1) = Listed(k)
      BY <2>5, <2>6
    <3> QED
      BY <2>1, <2>2, <2>4, <2>6, <3>1
  <2>7. CASE Parent(files[k + 1]) = path
    <3>1. Listed(k + 1) = Listed(k) \cup {Name(files[k + 1])}
      BY <2>5, <2>7
    <3>2. Name(files[k + 1]) \in Nat
      BY <1>2, <2>3, NameAndParent DEF EntriesDiffer
    <3>3. Name(files[k + 1]) \notin Listed(k)
      <4> SUFFICES ASSUME NEW j \in 2 .. k, Parent(files[j]) = path,
                          Name(files[j]) = Name(files[k + 1])
                   PROVE  FALSE
        OBVIOUS
      <4>1. j \in 2 .. n /\ j # k + 1
        BY <2>1
      <4>2. files[j].path = files[k + 1].path
        BY <1>2, <2>3, <2>7, <4>1, NameAndParent DEF EntriesDiffer
      <4> QED
        BY <1>2, <2>3, <4>1, <4>2 DEF EntriesDiffer
    <3>4. Increasing(l[k + 1]) /\ Names(l[k + 1]) = Names(l[k]) \cup {Name(files[k + 1])}
      BY <2>2, <2>4, <2>7, <3>2, <3>3, InsertKeepsOrder
    <3> QED
      BY <2>1, <2>2, <3>1, <3>4
  <2> QED
    BY <2>6, <2>7
<1>5. n - 1 \in Nat /\ n - 1 \in N
  <2>1. Nat \subseteq N
    <3> HIDE DEF N
    <3> QED
      BY <1>3, <1>4, NaturalInduction
  <2>2. n - 1 \in Nat
    BY <1>2
  <2> HIDE DEF N
  <2> QED
    BY <2>1, <2>2
<1>6. Good(n)
  <2> HIDE DEF Good
  <2>1. (n - 1) + 1 = n
    BY <1>2
  <2> QED
    BY <1>2, <1>5, <2>1
<1> QED
  BY <1>1, <1>2, <1>6

-----------------------------------------------------------------------------
(* Directory streams.                                                       *)

Stream == [state : {"open", "ended", "closed"}, list : Seq(Nat), last : Int]

(* A stream holds a listing and stands before it or at one of its names.    *)
StreamOK(s) == Increasing(s.list) /\ (s.last = None \/ s.last \in Names(s.list))

StreamsInv ==
    /\ EntriesDiffer(files)
    /\ stream \in [Procs -> Stream]
    /\ \A p \in Procs : StreamOK(stream[p])

(* Where readdir finds the next name of l after the name last.              *)
Position(l, last) ==
    IF last = None THEN 1
    ELSE 1 + CHOOSE i \in {k \in DOMAIN l : l[k] = last} :
                        \A j \in {k \in DOMAIN l : l[k] = last} : i <= j

LEMMA NextName ==
    ASSUME NEW l, Increasing(l), NEW last, last = None \/ last \in Names(l)
    PROVE  /\ Position(l, last) \notin DOMAIN l => \A n \in Names(l) : ~(n > last)
           /\ Position(l, last) \in DOMAIN l =>
                 /\ Position(l, last) > 1 => l[Position(l, last)] # 0
                 /\ l[Position(l, last)] \in Names(l) /\ l[Position(l, last)] > last
                 /\ \A n \in Names(l) : n > last => l[Position(l, last)] <= n
<1>1. PICK m \in Nat : m = Len(l)
  BY DEF Increasing
<1>2. /\ DOMAIN l = 1 .. m /\ \A i \in 1 .. m : l[i] \in Nat
      /\ \A i, j \in 1 .. m : i < j => l[i] < l[j]
  BY <1>1 DEF Increasing
<1>3. Names(l) = {l[i] : i \in 1 .. m}
  BY <1>1 DEF Names
<1>4. CASE last = None
  <2>1. Position(l, last) = 1 /\ last = -1
    BY <1>4 DEF Position, None
  <2>2. \A i \in 1 .. m : 1 \in 1 .. m /\ (i = 1 \/ l[1] < l[i])
    BY <1>2
  <2>3. \A i \in 1 .. m : l[1] \in Nat /\ l[1] <= l[i]
    BY <1>2, <2>2
  <2>4. 1 \notin 1 .. m => Names(l) = {}
    BY <1>3
  <2> QED
    BY <1>2, <1>3, <2>1, <2>3, <2>4
<1>5. CASE last # None
  <2>1. PICK at \in 1 .. m : l[at] = last
    BY <1>3, <1>5
  <2>2. {k \in DOMAIN l : l[k] = last} = {at}
    <3>1. \A k \in 1 .. m : k < at \/ k = at \/ at < k
      OBVIOUS
    <3>2. \A k \in 1 .. m : k # at => l[k] # l[at]
      BY <1>2, <2>1, <3>1
    <3> QED
      BY <1>2, <2>1, <3>2
  <2>3. Position(l, last) = at + 1
    <3>1. (CHOOSE i \in {at} : \A j \in {at} : i <= j) = at
      OBVIOUS
    <3> QED
      BY <1>5, <2>2, <3>1 DEF Position
  <2>4. \A i \in 1 .. m : l[i] > last => i \in at + 1 .. m
    <3> SUFFICES ASSUME NEW i \in 1 .. m, l[i] > last, ~(i \in at + 1 .. m)
                 PROVE  FALSE
      OBVIOUS
    <3>1. i = at \/ i < at
      OBVIOUS
    <3>2. l[i] \in Nat /\ l[at] \in Nat /\ l[i] <= l[at]
      BY <1>2, <3>1
    <3> QED
      BY <2>1, <3>2
  <2>5. CASE at = m
    <3>1. at + 1 \notin DOMAIN l /\ at + 1 .. m = {}
      BY <1>2, <2>5
    <3> QED
      BY <1>3, <2>3, <2>4, <3>1
  <2>6. CASE at < m
    <3>1. at + 1 \in 1 .. m /\ at < at + 1 /\ at + 1 > 1
      BY <2>6
    <3>2. l[at + 1] \in Nat /\ last \in Nat /\ l[at + 1] > last
      BY <1>2, <2>1, <3>1
    <3>3. \A i \in at + 1 .. m : i \in 1 .. m /\ (i = at + 1 \/ at + 1 < i)
      OBVIOUS
    <3>4. \A i \in at + 1 .. m : l[i] \in Nat /\ l[at + 1] <= l[i]
      BY <1>2, <3>1, <3>2, <3>3
    <3>5. \A n \in Names(l) : n > last => l[at + 1] <= n
      BY <1>3, <2>4, <3>4
    <3>6. l[at + 1] \in Names(l) /\ l[at + 1] # 0
      BY <1>3, <3>1, <3>2
    <3> QED
      BY <1>2, <2>3, <3>1, <3>2, <3>5, <3>6
  <2>7. at = m \/ at < m
    OBVIOUS
  <2> QED
    BY <2>5, <2>6, <2>7
<1> QED
  BY <1>4, <1>5

(* Nothing but create and mkdir makes an entry, and both of a new path.     *)
LEMMA EntriesStayDifferent ==
    ASSUME FInv, EntriesDiffer(files), Recreate = FALSE, [Next]_vars
    PROVE  EntriesDiffer(files')
<1> USE DEF FInv
<1>1. ASSUME NEW path \in Paths, NEW e, e.path = path, Entries(path) = {},
             files' = Append(files, e)
      PROVE  EntriesDiffer(files')
  <2>1. PICK n \in Nat : n = Len(files) /\ n >= 1
    BY DEF FilesType
  <2>2. Len(files') = n + 1 /\ files'[n + 1] = e /\ \A i \in 1 .. n : files'[i] = files[i]
    BY <1>1, <2>1 DEF FilesType
  <2>3. \A i \in 2 .. n : files[i].path # path
    BY <1>1, <2>1 DEF Entries
  <2>4. path \in Seq(Nat \ {0})
    BY FilesAssumption
  <2>5. \A i \in 2 .. n + 1 : i = n + 1 \/ (i \in 2 .. n /\ i \in 1 .. n)
    OBVIOUS
  <2>6. \A i \in 2 .. n + 1 : files'[i].path \in Seq(Nat \ {0})
    BY <1>1, <2>1, <2>2, <2>4, <2>5 DEF EntriesDiffer
  <2>7. ASSUME NEW i \in 2 .. n + 1, NEW j \in 2 .. n + 1, files'[i].path = files'[j].path
        PROVE  i = j
    BY <1>1, <2>1, <2>2, <2>3, <2>5, <2>7 DEF EntriesDiffer
  <2> QED
    BY <2>2, <2>6, <2>7 DEF EntriesDiffer
<1>2. ASSUME NEW i \in 1 .. Len(files), NEW byte,
             files' = [files EXCEPT ![i].data = Append(@, byte)]
      PROVE  EntriesDiffer(files')
  <2>1. PICK n \in Nat : n = Len(files) /\ n >= 1
    BY DEF FilesType
  <2>2. DOMAIN files = 1 .. n /\ \A k \in 1 .. n : files[k] \in Entry
    BY <2>1 DEF FilesType
  <2>3. DOMAIN files' = 1 .. n
    BY <1>2, <2>2
  <2>4. \A k \in 1 .. n : files'[k].path = files[k].path
    BY <1>2, <2>2 DEF Entry
  <2>5. Len(files') = n
    <3>1. files' = [k \in 1 .. n |-> files'[k]]
      BY <1>2, <2>2
    <3> QED
      BY <2>1, <3>1
  <2>6. 2 .. n \subseteq 1 .. n
    OBVIOUS
  <2> QED
    BY <2>1, <2>4, <2>5, <2>6 DEF EntriesDiffer
<1>3. CASE UNCHANGED files
  BY <1>3
<1>4. CASE Next
  <2> PICK p \in Procs :
        \/ \E path \in Paths : \/ OpenRead(p, path)
                               \/ Create(p, path)
                               \/ OpenOther(p, path)
                               \/ Mkdir(p, path)
                               \/ Chdir(p, path)
                               \/ OpenDir(p, path)
        \/ \E fd \in Fds : \/ Close(p, fd)
                           \/ \E n \in 1..MaxSize : Read(p, fd, n)
                           \/ \E byte \in Bytes : Write(p, fd, byte)
        \/ ReadDir(p)
        \/ CloseDir(p)
        \/ Respawn(p)
        \/ OpenCreated(p)
    BY <1>4 DEF Next, Call
  <2>1. ASSUME NEW path \in Paths, Create(p, path) PROVE EntriesDiffer(files')
    <3>1. Get(path) = 0 /\ files' = Append(files, File(path))
      BY <2>1 DEF Create
    <3>2. Entries(path) = {}
      BY <3>1, GetFirst
    <3> QED
      BY <1>1, <3>1, <3>2 DEF File
  <2>2. ASSUME NEW path \in Paths, Mkdir(p, path) PROVE EntriesDiffer(files')
    <3>1. Entries(path) = {} /\ files' = Append(files, Directory(path))
      BY <2>2 DEF Mkdir
    <3> QED
      BY <1>1, <3>1 DEF Directory
  <2>3. ASSUME NEW path \in Paths,
               OpenRead(p, path) \/ OpenOther(p, path) \/ Chdir(p, path) \/ OpenDir(p, path)
        PROVE  UNCHANGED files
    BY <2>3 DEF OpenRead, OpenOther, Chdir, OpenDir
  <2>4. ASSUME NEW fd \in Fds, NEW byte \in Bytes, Write(p, fd, byte)
        PROVE  EntriesDiffer(files')
    <3>1. PICK file : file = GetFile(p, fd)
      OBVIOUS
    <3>2. file.node > 0 /\ files' = [files EXCEPT ![file.node].data = Append(@, byte)]
      BY <2>4, <3>1 DEF Write, WriteData
    <3>3. file = slot[p][fd]
      BY <3>1, <3>2 DEF GetFile, Empty
    <3>4. file.node \in 1 .. Len(files)
      BY SMTT(60), <3>2, <3>3 DEF TableInv, TableType, SlotOK, FilesType, Handle
    <3> QED
      BY <1>2, <3>2, <3>4
  <2>5. ASSUME NEW fd \in Fds, Close(p, fd) \/ \E n \in 1..MaxSize : Read(p, fd, n)
        PROVE  UNCHANGED files
    BY SMTT(60), <2>5 DEF Close, Read
  <2>6. ASSUME ReadDir(p) \/ CloseDir(p) \/ Respawn(p) \/ OpenCreated(p)
        PROVE  UNCHANGED files
    BY <2>6 DEF ReadDir, CloseDir, Respawn, OpenCreated
  <2> QED
    BY <1>3, <2>1, <2>2, <2>3, <2>4, <2>5, <2>6
<1> QED
  BY <1>3, <1>4 DEF vars

(* What a step may do to a stream.                                          *)
Continues(s, t) ==
    s.state = "open" /\ t # s =>
        \/ t = NoStream
        \/ t.state = "ended" /\ \A n \in Names(s.list) : ~(n > s.last)
        \/ t.last \in Names(s.list) /\ t.last > s.last
           /\ \A n \in Names(s.list) : n > s.last => t.last <= n

LEMMA FreshStream == NoStream \in Stream /\ StreamOK(NoStream)
<1>1. Increasing(<<>>)
  BY DEF Increasing
<1> QED
  BY <1>1 DEF NoStream, Stream, StreamOK, None

LEMMA StreamStep ==
    ASSUME StreamsInv, FInv, [Next]_vars, NEW p \in Procs
    PROVE  /\ stream' \in [Procs -> Stream]
           /\ StreamOK(stream'[p])
           /\ Continues(stream[p], stream'[p])
<1>1. stream \in [Procs -> Stream] /\ \A q \in Procs : stream[q] \in Stream /\ StreamOK(stream[q])
  BY DEF StreamsInv
<1>2. ASSUME UNCHANGED stream
      PROVE  /\ stream' \in [Procs -> Stream] /\ StreamOK(stream'[p])
             /\ Continues(stream[p], stream'[p])
  BY <1>1, <1>2 DEF Continues
<1>3. ASSUME NEW q \in Procs, NEW t \in Stream, StreamOK(t), Continues(stream[q], t),
             stream' = [stream EXCEPT ![q] = t]
      PROVE  /\ stream' \in [Procs -> Stream] /\ StreamOK(stream'[p])
             /\ Continues(stream[p], stream'[p])
  <2>1. stream' \in [Procs -> Stream] /\ stream'[p] = IF p = q THEN t ELSE stream[p]
    BY <1>1, <1>3
  <2>2. CASE p = q
    BY <1>3, <2>1, <2>2
  <2>3. CASE p # q
    BY <1>1, <2>1, <2>3 DEF Continues
  <2> QED
    BY <2>2, <2>3, <2>1
<1>4. CASE Next
  <2> PICK q \in Procs :
        \/ \E path \in Paths : \/ OpenRead(q, path)
                               \/ Create(q, path)
                               \/ OpenOther(q, path)
                               \/ Mkdir(q, path)
                               \/ Chdir(q, path)
                               \/ OpenDir(q, path)
        \/ \E fd \in Fds : \/ Close(q, fd)
                           \/ \E n \in 1..MaxSize : Read(q, fd, n)
                           \/ \E byte \in Bytes : Write(q, fd, byte)
        \/ ReadDir(q)
        \/ CloseDir(q)
        \/ Respawn(q)
        \/ OpenCreated(q)
    BY <1>4 DEF Next, Call
  <2>1. ASSUME NEW path \in Paths, OpenDir(q, path)
        PROVE  \E t \in Stream : /\ StreamOK(t) /\ Continues(stream[q], t)
                                 /\ stream' = [stream EXCEPT ![q] = t]
    <3>1. PICK l : l = List(path)
      OBVIOUS
    <3>2. Increasing(l)
      BY <3>1, ListsInOrder DEF StreamsInv, FInv, FilesType
    <3> DEFINE t == [state |-> "open", list |-> l, last |-> None]
    <3>3. t \in Stream /\ StreamOK(t)
      BY <3>2 DEF Stream, StreamOK, None, Increasing
    <3>4. stream[q].state # "open" /\ stream' = [stream EXCEPT ![q] = t]
      BY <2>1, <3>1 DEF OpenDir
    <3>5. Continues(stream[q], t)
      BY <3>4 DEF Continues
    <3> QED
      BY <3>3, <3>4, <3>5
  <2>2. ASSUME ReadDir(q)
        PROVE  \E t \in Stream : /\ StreamOK(t) /\ Continues(stream[q], t)
                                 /\ stream' = [stream EXCEPT ![q] = t]
    <3>1. PICK s : s = stream[q]
      OBVIOUS
    <3>2. s \in Stream /\ StreamOK(s)
      BY <1>1, <3>1
    <3>3. PICK next : next = Position(s.list, s.last)
      BY SMTT(60)
    <3>4. /\ s.state = "open"
          /\ IF next \notin DOMAIN s.list
             THEN stream' = [stream EXCEPT ![q].state = "ended"]
             ELSE stream' = [stream EXCEPT ![q].last =
                                IF next > 1 /\ s.list[next] = 0 THEN None ELSE s.list[next]]
      BY <2>2, <3>1, <3>3 DEF ReadDir, Position
    <3>5. CASE next \notin DOMAIN s.list
      <4> DEFINE t == [s EXCEPT !.state = "ended"]
      <4>1. \A n \in Names(s.list) : ~(n > s.last)
        BY <3>2, <3>3, <3>5, NextName DEF StreamOK
      <4>2. stream' = [stream EXCEPT ![q] = t]
        BY <1>1, <3>1, <3>4, <3>5
      <4>3. /\ t \in Stream /\ t.state = "ended" /\ t.list = s.list /\ t.last = s.last
        BY <3>2 DEF Stream
      <4>4. StreamOK(t) /\ Continues(s, t)
        BY <3>2, <4>1, <4>3 DEF StreamOK, Continues
      <4> QED
        BY <3>1, <4>2, <4>3, <4>4
    <3>6. CASE next \in DOMAIN s.list
      <4>1. PICK n : n = s.list[next]
        OBVIOUS
      <4>2. /\ next > 1 => n # 0
            /\ n \in Names(s.list) /\ n > s.last
            /\ \A k \in Names(s.list) : k > s.last => n <= k
        BY <3>2, <3>3, <3>6, <4>1, NextName DEF StreamOK
      <4>3. n \in Int
        BY <3>2, <4>2 DEF StreamOK, Increasing, Names
      <4> DEFINE t == [s EXCEPT !.last = n]
      <4>4. stream' = [stream EXCEPT ![q] = t]
        BY <1>1, <3>1, <3>4, <3>6, <4>1, <4>2
      <4>5. t \in Stream /\ t.list = s.list /\ t.last = n
        BY <3>2, <4>3 DEF Stream
      <4>6. StreamOK(t) /\ Continues(s, t)
        BY <3>2, <4>2, <4>5 DEF StreamOK, Continues
      <4> QED
        BY <3>1, <4>4, <4>5, <4>6
    <3> QED
      BY <3>5, <3>6
  <2>3. ASSUME CloseDir(q) \/ Respawn(q)
        PROVE  \E t \in Stream : /\ StreamOK(t) /\ Continues(stream[q], t)
                                 /\ stream' = [stream EXCEPT ![q] = t]
    <3>1. stream' = [stream EXCEPT ![q] = NoStream]
      BY <2>3 DEF CloseDir, Respawn
    <3>2. Continues(stream[q], NoStream)
      BY DEF Continues
    <3> QED
      BY <3>1, <3>2, FreshStream
  <2>4. ASSUME NEW path \in Paths,
               OpenRead(q, path) \/ Create(q, path) \/ OpenOther(q, path)
               \/ Mkdir(q, path) \/ Chdir(q, path)
        PROVE  UNCHANGED stream
    BY <2>4 DEF OpenRead, Create, OpenOther, Mkdir, Chdir
  <2>6. ASSUME OpenCreated(q)
        PROVE  UNCHANGED stream
    BY <2>6 DEF OpenCreated
  <2>5. ASSUME NEW fd \in Fds, Close(q, fd) \/ (\E n \in 1..MaxSize : Read(q, fd, n))
                               \/ \E byte \in Bytes : Write(q, fd, byte)
        PROVE  UNCHANGED stream
    BY <2>5 DEF Close, Read, Write
  <2> QED
    BY <1>2, <1>3, <2>1, <2>2, <2>3, <2>4, <2>5, <2>6
<1> QED
  BY <1>2, <1>4 DEF vars

(* While nobody creates a path that exists, a directory stream goes through *)
(* the names it had at opendir once each and in order (RamFs::list,         *)
(* readdir).                                                                *)
THEOREM StreamsGoInOrder == (Recreate = FALSE) => (Spec => StreamReturnsEach)
<1> SUFFICES ASSUME Recreate = FALSE
             PROVE  Spec => StreamReturnsEach
  OBVIOUS
<1>1. Init => StreamsInv
  <2> SUFFICES ASSUME Init
               PROVE  StreamsInv
    OBVIOUS
  <2>1. Len(files) = 1
    BY DEF Init
  <2>2. EntriesDiffer(files)
    BY <2>1 DEF EntriesDiffer
  <2> QED
    BY <2>2, FreshStream DEF Init, StreamsInv
<1>2. StreamsInv /\ FInv /\ [Next]_vars => StreamsInv'
  <2> SUFFICES ASSUME StreamsInv, FInv, [Next]_vars
               PROVE  StreamsInv'
    OBVIOUS
  <2>1. EntriesDiffer(files')
    BY EntriesStayDifferent DEF StreamsInv
  <2>2. \A p \in Procs : stream' \in [Procs -> Stream] /\ StreamOK(stream'[p])
    BY StreamStep
  <2>3. Procs = {} => stream' \in [Procs -> Stream]
    <3>1. Procs = {} => stream' = stream
      BY DEF Next, vars
    <3> QED
      BY <3>1 DEF StreamsInv
  <2> QED
    BY <2>1, <2>2, <2>3 DEF StreamsInv
<1>3. StreamsInv /\ FInv /\ [Next]_vars => [\A p \in Procs :
        LET s     == stream[p]
            t     == stream'[p]
            after == {n \in Range(s.list) : n > s.last}
        IN  s.state = "open" /\ t # s =>
                \/ t = NoStream
                \/ t.state = "ended" /\ after = {}
                \/ t.last \in after /\ \A n \in after : t.last <= n]_vars
  <2> SUFFICES ASSUME StreamsInv, FInv, [Next]_vars, NEW p \in Procs
               PROVE  LET s     == stream[p]
                          t     == stream'[p]
                          after == {n \in Range(s.list) : n > s.last}
                      IN  s.state = "open" /\ t # s =>
                              \/ t = NoStream
                              \/ t.state = "ended" /\ after = {}
                              \/ t.last \in after /\ \A n \in after : t.last <= n
    OBVIOUS
  <2>1. Continues(stream[p], stream'[p])
    BY StreamStep
  <2>2. Range(stream[p].list) = Names(stream[p].list)
    <3>1. stream[p].list \in Seq(Nat)
      BY DEF StreamsInv, StreamOK, Increasing
    <3>2. DOMAIN stream[p].list = 1 .. Len(stream[p].list)
      BY <3>1
    <3> QED
      BY <3>2 DEF Range, Names
  <2> QED
    BY <2>1, <2>2 DEF Continues
<1> QED
  BY FilesInductive, <1>1, <1>2, <1>3, PTL DEF Spec, StreamReturnsEach
=============================================================================
