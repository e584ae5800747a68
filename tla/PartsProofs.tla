----------------------------- MODULE PartsProofs ------------------------------
(***************************************************************************)
(* Proofs about the parts that keep their state to themselves: open files, *)
(* contexts, heap, symbol numbers, printf, paths, drivers, and how numbers *)
(* are printed.                                                            *)
(***************************************************************************)
EXTENDS Parts, InductionLemmas, SequenceTheorems, FiniteSetTheorems, TLAPS

-----------------------------------------------------------------------------
(* Open files.                                                              *)

Holding == Nodes \cup {"none"}

Vectors == [data : Seq(Letters), capacity : Nat, moved : Nat]

(* A read knows how much it will copy and where from, a write what is left. *)
Calls ==
    {Idle} \cup [op : {"read"}, length : Nat, at : Vectors]
           \cup [op : {"write"}, rest : Seq(Letters), size : Nat]

OpenFilesTypeOK ==
    /\ open \in [Handles -> [node : Holding, position : Nat]]
    /\ vector \in Vectors
    /\ call \in [Handles -> Calls]
    /\ taken \in [Handles -> Seq(Letters \cup {Junk})]
    /\ raced \in [Handles -> BOOLEAN]

(* Only the RamFs file has calls that take more than one step, and a        *)
(* descriptor stays open while it is in one.                                *)
CallsHaveFiles ==
    \A h \in Handles : call[h] # Idle => open[h].node = "ram"

(* As long as the vector has not moved, a read copies what is still there.  *)
ReadsAreInside ==
    \A h \in Handles : call[h].op = "read" /\ call[h].at.moved = vector.moved =>
        open[h].position + call[h].length <= Len(vector.data)

ReadsAreOld ==
    \A h \in Handles : call[h].op = "read" => call[h].at.moved <= vector.moved

HasRead(h, content) ==
    /\ open[h].position <= Len(content)
    /\ Len(taken[h]) = open[h].position
    /\ \A k \in 1 .. open[h].position : taken[h][k] = content[k]

ReadSoFar ==
    \A h \in Handles : IsOpen(h) /\ ~raced[h] =>
        /\ open[h].node = "ram" => HasRead(h, vector.data)
        /\ open[h].node = "rom" => HasRead(h, RomData)
        /\ open[h].node \notin {"ram", "rom"} => HasRead(h, <<>>)

OpenFilesInv ==
    /\ OpenFilesTypeOK /\ CallsHaveFiles /\ ReadsAreInside /\ ReadsAreOld /\ ReadSoFar

LEMMA OpenFilesFacts ==
    /\ RomData \in Seq(Letters) /\ Requests \subseteq Nat /\ Writer \in Handles
    /\ Idle \in Calls /\ Idle.op = "none"
    /\ Closed.node = "none" /\ Closed \in [node : Holding, position : Nat]
BY OpenFilesAssumption DEF Idle, Calls, Closed, Holding

(* What a call in progress consists of, one kind at a time.                 *)
LEMMA CallKinds ==
    ASSUME NEW c \in Calls
    PROVE  /\ c # Idle /\ c.op # "write" => c.op = "read"
           /\ c.op = "read" => /\ c # Idle /\ c.length \in Nat
                               /\ c.at \in Vectors /\ c.at.moved \in Nat /\ c.at.data \in Seq(Letters)
           /\ c.op = "write" => c # Idle /\ c.rest \in Seq(Letters) /\ c.size \in Nat
BY DEF Calls, Idle, Vectors

LEMMA LengthIsInside ==
    ASSUME NEW whole \in Nat, NEW from \in Nat, NEW asked \in Nat, from < whole
    PROVE  Length(whole, from, asked) \in Nat /\ from + Length(whole, from, asked) <= whole
BY DEF Length

(* A descriptor that is taken for a node.                                   *)
LEMMA TakeKeeps ==
    ASSUME NEW h \in Handles, NEW node \in Holding, OpenFilesInv, Take(h, node),
           call[h] = Idle, UNCHANGED <<vector, call>>
    PROVE  OpenFilesInv'
<1>1. /\ open' \in [Handles -> [node : Holding, position : Nat]]
      /\ taken' \in [Handles -> Seq(Letters \cup {Junk})] /\ raced' \in [Handles -> BOOLEAN]
  <2>1. [node |-> node, position |-> 0] \in [node : Holding, position : Nat]
    OBVIOUS
  <2>2. <<>> \in Seq(Letters \cup {Junk})
    BY EmptySeq
  <2> QED
    BY <2>1, <2>2 DEF OpenFilesInv, OpenFilesTypeOK, Take
<1>2. \A g \in Handles \ {h} : open'[g] = open[g] /\ taken'[g] = taken[g] /\ raced'[g] = raced[g]
  BY DEF OpenFilesInv, OpenFilesTypeOK, Take
<1>3. open'[h].position = 0 /\ taken'[h] = <<>>
  BY DEF OpenFilesInv, OpenFilesTypeOK, Take
<1>4. call'[h] = Idle /\ call'[h].op # "read"
  BY OpenFilesFacts
<1>5. <<>> \in Seq(Letters) /\ RomData \in Seq(Letters) /\ vector.data \in Seq(Letters)
  BY OpenFilesFacts, EmptySeq DEF OpenFilesInv, OpenFilesTypeOK, Vectors
<1>6. ReadSoFar'
  <2>1. \A content \in Seq(Letters) : HasRead(h, content)'
    BY <1>3, LenProperties DEF HasRead
  <2>2. \A g \in Handles \ {h} : \A content : HasRead(g, content)' <=> HasRead(g, content)
    BY <1>2 DEF HasRead
  <2>3. \A g \in Handles \ {h} : IsOpen(g)' <=> IsOpen(g)
    BY <1>2 DEF IsOpen
  <2> QED
    BY <1>2, <1>5, <2>1, <2>2, <2>3 DEF OpenFilesInv, ReadSoFar
<1> QED
  BY <1>1, <1>2, <1>4, <1>6
  DEF OpenFilesInv, OpenFilesTypeOK, CallsHaveFiles, ReadsAreInside, ReadsAreOld

LEMMA OpenFilesSame ==
    ASSUME OpenFilesInv, UNCHANGED <<open, vector, call, taken, raced>>
    PROVE  OpenFilesInv'
BY DEF OpenFilesInv, OpenFilesTypeOK, CallsHaveFiles, ReadsAreInside, ReadsAreOld, ReadSoFar,
       IsOpen, HasRead

LEMMA ClosedIsIdle ==
    ASSUME OpenFilesInv, NEW h \in Handles, ~IsOpen(h) \/ open[h].node # "ram"
    PROVE  call[h] = Idle
BY OpenFilesFacts DEF OpenFilesInv, CallsHaveFiles, IsOpen, Closed

(* One descriptor's call changes, into one that has its file.               *)
LEMMA CallKeeps ==
    ASSUME OpenFilesInv, NEW h \in Handles, NEW c \in Calls,
           c # Idle => open[h].node = "ram",
           c.op = "read" => /\ c.at = vector
                            /\ open[h].position + c.length <= Len(vector.data),
           call' = [call EXCEPT ![h] = c], UNCHANGED <<open, vector, taken, raced>>
    PROVE  OpenFilesInv'
<1>1. call' \in [Handles -> Calls] /\ call'[h] = c /\ \A g \in Handles \ {h} : call'[g] = call[g]
  BY DEF OpenFilesInv, OpenFilesTypeOK
<1>2. OpenFilesTypeOK'
  BY <1>1 DEF OpenFilesInv, OpenFilesTypeOK
<1>3. CallsHaveFiles'
  BY <1>1 DEF OpenFilesInv, CallsHaveFiles
<1>4. vector.moved \in Nat
  BY DEF OpenFilesInv, OpenFilesTypeOK, Vectors
<1>5. ReadsAreInside'
  BY <1>1 DEF OpenFilesInv, ReadsAreInside
<1>6. ReadsAreOld'
  BY <1>1, <1>4 DEF OpenFilesInv, ReadsAreOld
<1>7. ReadSoFar'
  BY DEF OpenFilesInv, ReadSoFar, IsOpen, HasRead
<1> QED
  BY <1>2, <1>3, <1>5, <1>6, <1>7 DEF OpenFilesInv

LEMMA ReadMore ==
    ASSUME OpenFilesTypeOK, NEW h \in Handles, NEW content, HasRead(h, content),
           NEW bytes \in Seq(Letters \cup {Junk}),
           open'[h].position = open[h].position + Len(bytes),
           taken'[h] = taken[h] \o bytes,
           open[h].position + Len(bytes) <= Len(content),
           \A k \in 1 .. Len(bytes) : bytes[k] = content[open[h].position + k]
    PROVE  HasRead(h, content)'
<1>1. taken[h] \in Seq(Letters \cup {Junk}) /\ open[h].position \in Nat
  BY DEF OpenFilesTypeOK
<1>2. /\ Len(taken[h]) = open[h].position
      /\ \A k \in 1 .. Len(taken[h]) : taken[h][k] = content[k]
  BY DEF HasRead
<1>3. \A k \in 1 .. Len(bytes) : bytes[k] = content[Len(taken[h]) + k]
  BY <1>2
<1>4. \A k \in 1 .. Len(taken[h]) + Len(bytes) : (taken[h] \o bytes)[k] = content[k]
  <2> SUFFICES ASSUME NEW k \in 1 .. Len(taken[h]) + Len(bytes)
               PROVE  (taken[h] \o bytes)[k] = content[k]
    OBVIOUS
  <2>1. Len(taken[h]) \in Nat /\ Len(bytes) \in Nat
    BY <1>1, LenProperties
  <2>2. (taken[h] \o bytes)[k] = IF k <= Len(taken[h]) THEN taken[h][k] ELSE bytes[k - Len(taken[h])]
    BY <1>1, ConcatProperties
  <2>3. CASE k <= Len(taken[h])
    BY <1>2, <2>1, <2>2, <2>3
  <2>4. CASE ~(k <= Len(taken[h]))
    <3>1. k - Len(taken[h]) \in 1 .. Len(bytes) /\ Len(taken[h]) + (k - Len(taken[h])) = k
      BY <2>1, <2>4
    <3> QED
      BY <1>3, <2>2, <2>4, <3>1
  <2> QED
    BY <2>3, <2>4
<1>5. Len(taken[h] \o bytes) = open[h].position + Len(bytes)
  BY <1>1, <1>2, ConcatProperties
<1> QED
  BY <1>2, <1>4, <1>5 DEF HasRead

(* Descriptor h has read bytes which follow in what it stands for.          *)
LEMMA ReadKeeps ==
    ASSUME OpenFilesInv, NEW h \in Handles, NEW bytes \in Seq(Letters \cup {Junk}),
           call' = [call EXCEPT ![h] = Idle], UNCHANGED vector,
           open' = [open EXCEPT ![h].position = @ + Len(bytes)],
           taken' = [taken EXCEPT ![h] = @ \o bytes],
           raced' \in [Handles -> BOOLEAN],
           \A g \in Handles \ {h} : raced'[g] = raced[g],
           NEW content \in Seq(Letters), IsOpen(h),
           open[h].node = "ram" => content = vector.data,
           open[h].node = "rom" => content = RomData,
           open[h].node \in {"ram", "rom"},
           ~raced'[h] => /\ ~raced[h] /\ open[h].position + Len(bytes) <= Len(content)
                         /\ \A k \in 1 .. Len(bytes) : bytes[k] = content[open[h].position + k]
    PROVE  OpenFilesInv'
<1> DEFINE from == open[h].position
<1>1. from \in Nat /\ Len(bytes) \in Nat /\ taken[h] \in Seq(Letters \cup {Junk})
  BY LenProperties DEF OpenFilesInv, OpenFilesTypeOK
<1>2. /\ open'[h] = [node |-> open[h].node, position |-> from + Len(bytes)]
      /\ \A g \in Handles \ {h} : open'[g] = open[g]
      /\ open' \in [Handles -> [node : Holding, position : Nat]]
  BY <1>1 DEF OpenFilesInv, OpenFilesTypeOK
<1>3. /\ taken'[h] = taken[h] \o bytes
      /\ \A g \in Handles \ {h} : taken'[g] = taken[g]
      /\ taken' \in [Handles -> Seq(Letters \cup {Junk})]
  BY <1>1, ConcatProperties DEF OpenFilesInv, OpenFilesTypeOK
<1>4. /\ call' \in [Handles -> Calls] /\ call'[h] = Idle
      /\ \A g \in Handles \ {h} : call'[g] = call[g]
  BY OpenFilesFacts DEF OpenFilesInv, OpenFilesTypeOK
<1>5. OpenFilesTypeOK'
  BY <1>2, <1>3, <1>4 DEF OpenFilesInv, OpenFilesTypeOK
<1>6. CallsHaveFiles' /\ ReadsAreInside' /\ ReadsAreOld'
  BY <1>2, <1>4, OpenFilesFacts DEF OpenFilesInv, CallsHaveFiles, ReadsAreInside, ReadsAreOld
<1>7. ASSUME ~raced'[h] PROVE HasRead(h, content)'
  <2>1. HasRead(h, content)
    BY <1>7 DEF OpenFilesInv, ReadSoFar
  <2>2. OpenFilesTypeOK /\ open'[h].position = from + Len(bytes) /\ taken'[h] = taken[h] \o bytes
    BY <1>2, <1>3 DEF OpenFilesInv
  <2>3. /\ from + Len(bytes) <= Len(content)
        /\ \A k \in 1 .. Len(bytes) : bytes[k] = content[from + k]
    BY <1>7
  <2> QED
    BY <2>1, <2>2, <2>3, ReadMore
<1>8. ReadSoFar'
  <2>1. \A g \in Handles \ {h} : \A text : HasRead(g, text)' <=> HasRead(g, text)
    BY <1>2, <1>3 DEF HasRead
  <2>2. \A g \in Handles \ {h} : IsOpen(g)' <=> IsOpen(g)
    BY <1>2 DEF IsOpen
  <2>3. open'[h].node = open[h].node
    BY <1>2
  <2> QED
    BY <1>2, <1>7, <2>1, <2>2, <2>3 DEF OpenFilesInv, ReadSoFar
<1> QED
  BY <1>5, <1>6, <1>8 DEF OpenFilesInv

LEMMA StartReadKeeps ==
    ASSUME OpenFilesInv, NEW h \in Handles, StartRead(h) PROVE OpenFilesInv'
<1>1. vector \in Vectors /\ vector.data \in Seq(Letters) /\ Len(vector.data) \in Nat
      /\ open[h].position \in Nat
  BY LenProperties DEF OpenFilesInv, OpenFilesTypeOK, Vectors
<1>2. PICK asked \in Requests :
        LET whole == Len(vector.data)
            position == open[h].position
        IN  IF position >= whole
            THEN Returns(0) /\ UNCHANGED call
            ELSE /\ call' = [call EXCEPT ![h] =
                        [op |-> "read", length |-> Length(whole, position, asked), at |-> vector]]
                 /\ UNCHANGED result
  BY DEF StartRead
<1>3. open[h].node = "ram" /\ UNCHANGED <<open, vector, taken, raced>>
  BY DEF StartRead
<1>4. CASE open[h].position >= Len(vector.data)
  BY <1>2, <1>3, <1>4, OpenFilesSame
<1>5. CASE ~(open[h].position >= Len(vector.data))
  <2> DEFINE length == Length(Len(vector.data), open[h].position, asked)
             c == [op |-> "read", length |-> length, at |-> vector]
  <2>1. length \in Nat /\ open[h].position + length <= Len(vector.data)
    BY <1>1, <1>5, OpenFilesFacts, LengthIsInside
  <2>2. c \in Calls /\ c.op = "read" /\ c.at = vector /\ c.length = length
    BY <1>1, <2>1 DEF Calls
  <2>3. call' = [call EXCEPT ![h] = c]
    BY <1>2, <1>5
  <2> HIDE DEF c, length
  <2> QED
    BY <1>3, <2>1, <2>2, <2>3, CallKeeps
<1> QED
  BY <1>4, <1>5

LEMMA FinishReadKeeps ==
    ASSUME OpenFilesInv, NEW h \in Handles, FinishRead(h) PROVE OpenFilesInv'
<1> DEFINE c == call[h]
           from == open[h].position
           source == IF c.at.moved = vector.moved THEN vector.data ELSE c.at.data
<1>1. PICK kept \in {c.at.moved = vector.moved, TRUE} :
        taken' = [taken EXCEPT ![h] = @ \o
                    [k \in 1 .. c.length |->
                        IF kept /\ from + k \in DOMAIN source THEN source[from + k] ELSE Junk]]
  BY DEF FinishRead
<1> DEFINE bytes == [k \in 1 .. c.length |->
                        IF kept /\ from + k \in DOMAIN source THEN source[from + k] ELSE Junk]
<1>2. c \in Calls /\ c.op = "read" /\ from \in Nat /\ vector.data \in Seq(Letters)
  BY DEF OpenFilesInv, OpenFilesTypeOK, FinishRead, Vectors
<1>3. c # Idle /\ c.length \in Nat /\ c.at.data \in Seq(Letters)
  BY <1>2, CallKinds
<1>4. source \in Seq(Letters)
  BY <1>2, <1>3
<1>5. bytes \in Seq(Letters \cup {Junk}) /\ Len(bytes) = c.length
  <2>1. \A k \in 1 .. c.length : bytes[k] \in Letters \cup {Junk}
    BY <1>4, ElementOfSeq, LenProperties
  <2>2. bytes \in [1 .. c.length -> Letters \cup {Junk}]
    BY <2>1
  <2> HIDE DEF bytes
  <2> QED
    BY <1>3, <2>2, IsASeq, LenProperties
<1>6. open[h].node = "ram" /\ IsOpen(h)
  BY <1>2, <1>3, OpenFilesFacts DEF OpenFilesInv, CallsHaveFiles, IsOpen
<1>7. /\ raced' = [raced EXCEPT ![h] = @ \/ c.at.moved # vector.moved]
      /\ open' = [open EXCEPT ![h].position = @ + c.length]
      /\ call' = [call EXCEPT ![h] = Idle] /\ UNCHANGED vector
  BY DEF FinishRead
<1>8. raced \in [Handles -> BOOLEAN]
  BY DEF OpenFilesInv, OpenFilesTypeOK
<1>9. /\ raced' \in [Handles -> BOOLEAN]
      /\ \A g \in Handles \ {h} : raced'[g] = raced[g]
      /\ raced'[h] = (raced[h] \/ c.at.moved # vector.moved)
  BY <1>7, <1>8
<1>10. ASSUME ~raced'[h]
       PROVE  /\ ~raced[h] /\ from + Len(bytes) <= Len(vector.data)
              /\ \A k \in 1 .. Len(bytes) : bytes[k] = vector.data[from + k]
  <2>1. ~raced[h] /\ c.at.moved = vector.moved
    BY <1>9, <1>10
  <2>2. from + c.length <= Len(vector.data)
    BY <1>2, <2>1 DEF OpenFilesInv, ReadsAreInside
  <2>3. kept = TRUE /\ source = vector.data
    BY <2>1
  <2>4. \A k \in 1 .. c.length : from + k \in DOMAIN vector.data
    BY <1>2, <1>3, <2>2, LenProperties
  <2>5. \A k \in 1 .. c.length : bytes[k] = vector.data[from + k]
    BY SMTT(60), <2>3, <2>4
  <2> QED
    BY <2>1, <2>2, <2>5, <1>5
<1>11. /\ open' = [open EXCEPT ![h].position = @ + Len(bytes)]
       /\ taken' = [taken EXCEPT ![h] = @ \o bytes]
  BY <1>1, <1>5, <1>7
<1> HIDE DEF bytes, source
<1> QED
  BY <1>2, <1>5, <1>6, <1>7, <1>9, <1>10, <1>11, ReadKeeps

LEMMA ReadRomKeeps ==
    ASSUME OpenFilesInv, NEW h \in Handles, ReadRom(h) PROVE OpenFilesInv'
<1> DEFINE from == open[h].position
           Count(asked) == IF from >= Len(RomData) THEN 0 ELSE Length(Len(RomData), from, asked)
           Bytes(n) == [k \in 1 .. n |->
                            IF from + k \in DOMAIN RomData THEN RomData[from + k] ELSE Junk]
<1>1. PICK asked \in Requests :
        /\ taken' = [taken EXCEPT ![h] = @ \o Bytes(Count(asked))]
        /\ open' = [open EXCEPT ![h].position = @ + Count(asked)]
  BY DEF ReadRom
<1> DEFINE length == Count(asked)
           bytes == Bytes(length)
<1>2. /\ call[h] = Idle /\ open[h].node = "rom" /\ IsOpen(h)
      /\ UNCHANGED <<vector, call, raced>>
  BY OpenFilesFacts DEF ReadRom, Ready, IsOpen
<1>3. from \in Nat /\ RomData \in Seq(Letters) /\ Len(RomData) \in Nat /\ asked \in Nat
  BY OpenFilesFacts, LenProperties DEF OpenFilesInv, OpenFilesTypeOK
<1>4. length \in Nat /\ (length # 0 => from + length <= Len(RomData))
  <2>1. CASE from >= Len(RomData)
    BY <2>1
  <2>2. CASE from < Len(RomData)
    <3>1. length = Length(Len(RomData), from, asked)
      BY <1>3, <2>2
    <3>2. /\ Length(Len(RomData), from, asked) \in Nat
          /\ from + Length(Len(RomData), from, asked) <= Len(RomData)
      BY <1>3, <2>2, LengthIsInside
    <3> QED
      BY <3>1, <3>2
  <2> QED
    BY <1>3, <2>1, <2>2
<1>5. bytes \in Seq(Letters \cup {Junk}) /\ Len(bytes) = length
  <2>1. \A k \in 1 .. length : bytes[k] \in Letters \cup {Junk}
    BY <1>3, ElementOfSeq, LenProperties
  <2>2. bytes \in [1 .. length -> Letters \cup {Junk}]
    BY <2>1
  <2> HIDE DEF bytes, length
  <2> QED
    BY <1>4, <2>2, IsASeq, LenProperties
<1>6. \A k \in 1 .. Len(bytes) : bytes[k] = RomData[from + k]
  <2>1. \A k \in 1 .. length : from + k \in DOMAIN RomData
    BY <1>3, <1>4, LenProperties
  <2> QED
    BY <2>1, <1>5
<1>7. /\ call' = [call EXCEPT ![h] = Idle] /\ raced' \in [Handles -> BOOLEAN]
      /\ \A g \in Handles : raced'[g] = raced[g]
  BY <1>2 DEF OpenFilesInv, OpenFilesTypeOK
<1>8. ASSUME ~raced'[h] PROVE ~raced[h] /\ from + Len(bytes) <= Len(RomData)
  <2>1. ~raced[h]
    BY <1>7, <1>8
  <2>2. from <= Len(RomData)
    BY <1>2, <2>1 DEF OpenFilesInv, ReadSoFar, HasRead
  <2> QED
    BY <1>3, <1>4, <1>5, <2>1, <2>2
<1>9. /\ open' = [open EXCEPT ![h].position = @ + Len(bytes)]
      /\ taken' = [taken EXCEPT ![h] = @ \o bytes]
  BY <1>1, <1>5
<1> HIDE DEF bytes, length
<1> QED
  BY <1>2, <1>3, <1>5, <1>6, <1>7, <1>8, <1>9, ReadKeeps

LEMMA StartWriteKeeps ==
    ASSUME OpenFilesInv, NEW h \in Handles, StartWrite(h) PROVE OpenFilesInv'
<1>6. PICK bytes \in UNION {[1 .. n -> Letters] : n \in Requests} :
        call' = [call EXCEPT ![h] = [op |-> "write", rest |-> bytes, size |-> Len(bytes)]]
  BY DEF StartWrite
<1>1. PICK n \in Requests : bytes \in [1 .. n -> Letters]
  OBVIOUS
<1>2. n \in Nat /\ bytes \in Seq(Letters)
  BY <1>1, OpenFilesFacts, IsASeq
<1> DEFINE c == [op |-> "write", rest |-> bytes, size |-> Len(bytes)]
<1>3. c \in Calls /\ c.op # "read"
  BY <1>2, LenProperties DEF Calls
<1>4. open[h].node = "ram" /\ UNCHANGED <<open, vector, taken, raced>>
  BY DEF StartWrite
<1>5. call' = [call EXCEPT ![h] = c]
  BY <1>6
<1> HIDE DEF c
<1> QED
  BY <1>3, <1>4, <1>5, CallKeeps

LEMMA FinishWriteKeeps ==
    ASSUME OpenFilesInv, NEW h \in Handles, FinishWrite(h) PROVE OpenFilesInv'
<1>1. Idle \in Calls /\ Idle.op # "read"
  BY OpenFilesFacts
<1>2. call' = [call EXCEPT ![h] = Idle] /\ UNCHANGED <<open, vector, taken, raced>>
  BY DEF FinishWrite
<1> QED
  BY <1>1, <1>2, CallKeeps

(* A byte more: who is reading copies from the old memory, or what was      *)
(* there when it looked and still is.                                       *)
LEMMA PushByteKeeps ==
    ASSUME OpenFilesInv, NEW h \in Handles, PushByte(h) PROVE OpenFilesInv'
<1> DEFINE byte == Head(call[h].rest)
<1>1. /\ vector \in Vectors /\ vector.data \in Seq(Letters)
      /\ vector.moved \in Nat /\ vector.capacity \in Nat
  BY DEF OpenFilesInv, OpenFilesTypeOK, Vectors
<1>2. call[h] \in Calls /\ call[h].op = "write" /\ call[h].rest # <<>>
  BY DEF PushByte, OpenFilesInv, OpenFilesTypeOK
<1>3. call[h].rest \in Seq(Letters) /\ call[h].size \in Nat /\ call[h] # Idle
  BY <1>2, CallKinds
<1>4. byte \in Letters /\ Tail(call[h].rest) \in Seq(Letters)
  BY <1>2, <1>3, HeadTailProperties
<1>5. /\ vector'.data = Append(vector.data, byte)
      /\ vector' \in Vectors
      /\ vector'.moved >= vector.moved
  <2>1. Append(vector.data, byte) \in Seq(Letters)
    BY <1>1, <1>4, AppendProperties
  <2> QED
    BY <1>1, <2>1 DEF PushByte, Vectors
<1>6. /\ Len(vector'.data) = Len(vector.data) + 1 /\ Len(vector.data) \in Nat
      /\ \A k \in 1 .. Len(vector.data) : vector'.data[k] = vector.data[k]
  BY <1>1, <1>4, <1>5, AppendProperties, LenProperties
<1>7. UNCHANGED <<open, taken, raced>>
  BY DEF PushByte
<1>8. /\ call'[h] \in Calls /\ call'[h].op = "write"
      /\ \A g \in Handles \ {h} : call'[g] = call[g]
      /\ call' \in [Handles -> Calls]
  <2> DEFINE c == [call[h] EXCEPT !.rest = Tail(@)]
  <2>1. call[h] \in [op : {"write"}, rest : Seq(Letters), size : Nat]
    BY <1>2 DEF Calls, Idle
  <2>2. c \in Calls /\ c.op = "write"
    BY <2>1, <1>4 DEF Calls
  <2>3. call' = [call EXCEPT ![h] = c]
    BY DEF PushByte
  <2> HIDE DEF c
  <2> QED
    BY <2>2, <2>3 DEF OpenFilesInv, OpenFilesTypeOK
<1>9. OpenFilesTypeOK'
  BY <1>5, <1>7, <1>8 DEF OpenFilesInv, OpenFilesTypeOK
<1>10. CallsHaveFiles'
  BY <1>3, <1>7, <1>8 DEF OpenFilesInv, CallsHaveFiles
<1>11. \A g \in Handles : call'[g].op = "read" =>
        g # h /\ call'[g] = call[g] /\ call[g].at.moved \in Nat /\ call[g].length \in Nat
  <2> SUFFICES ASSUME NEW g \in Handles, call'[g].op = "read"
               PROVE  g # h /\ call'[g] = call[g] /\ call[g].at.moved \in Nat
                      /\ call[g].length \in Nat
    OBVIOUS
  <2>1. g # h /\ call'[g] = call[g] /\ call[g] \in Calls
    BY <1>8 DEF OpenFilesInv, OpenFilesTypeOK
  <2> QED
    BY <2>1, CallKinds
<1>12. ReadsAreOld'
  BY <1>1, <1>5, <1>11 DEF OpenFilesInv, ReadsAreOld, Vectors
<1>13. ReadsAreInside'
  <2> SUFFICES ASSUME NEW g \in Handles, call'[g].op = "read",
                      call'[g].at.moved = vector'.moved
               PROVE  open'[g].position + call'[g].length <= Len(vector'.data)
    BY DEF ReadsAreInside
  <2>1. call[g].at.moved = vector.moved /\ call[g].op = "read"
    BY <1>1, <1>5, <1>11 DEF OpenFilesInv, ReadsAreOld, Vectors
  <2>2. open[g].position + call[g].length <= Len(vector.data)
    BY <2>1 DEF OpenFilesInv, ReadsAreInside
  <2>3. open[g].position \in Nat
    BY DEF OpenFilesInv, OpenFilesTypeOK
  <2> QED
    BY <2>2, <2>3, <1>6, <1>7, <1>11
<1>14. ReadSoFar'
  <2>1. ASSUME NEW g \in Handles, HasRead(g, vector.data) PROVE HasRead(g, vector.data)'
    <3>1. open[g].position \in Nat
      BY DEF OpenFilesInv, OpenFilesTypeOK
    <3> QED
      BY SMTT(60), <2>1, <3>1, <1>6, <1>7 DEF HasRead
  <2>2. \A g \in Handles : \A text : HasRead(g, text)' <=> HasRead(g, text)
    BY <1>7 DEF HasRead
  <2> QED
    BY <1>7, <2>1, <2>2 DEF OpenFilesInv, ReadSoFar, IsOpen
<1> QED
  BY <1>9, <1>10, <1>12, <1>13, <1>14 DEF OpenFilesInv

LEMMA CloseFileKeeps ==
    ASSUME OpenFilesInv, NEW h \in Handles, CloseFile(h) PROVE OpenFilesInv'
<1>1. /\ open' \in [Handles -> [node : Holding, position : Nat]]
      /\ open'[h] = Closed /\ \A g \in Handles \ {h} : open'[g] = open[g]
      /\ UNCHANGED <<vector, call, taken, raced>> /\ call[h] = Idle
  BY OpenFilesFacts DEF CloseFile, Ready, OpenFilesInv, OpenFilesTypeOK
<1>2. OpenFilesTypeOK'
  BY <1>1 DEF OpenFilesInv, OpenFilesTypeOK
<1>3. CallsHaveFiles' /\ ReadsAreInside' /\ ReadsAreOld'
  BY <1>1, OpenFilesFacts DEF OpenFilesInv, CallsHaveFiles, ReadsAreInside, ReadsAreOld
<1>4. ReadSoFar'
  BY <1>1 DEF OpenFilesInv, ReadSoFar, IsOpen, HasRead
<1> QED
  BY <1>2, <1>3, <1>4 DEF OpenFilesInv

(* Every call of a descriptor keeps the invariant.                          *)
LEMMA OpenFilesKept ==
    ASSUME OpenFilesInv, OpenFilesNext PROVE OpenFilesInv'
<1>1. PICK h \in Handles :
        \/ \E node \in Nodes : OpenNode(h, node)
        \/ \E g \in Handles : Clone(h, g)
        \/ CloseFile(h)
        \/ StartRead(h) \/ FinishRead(h) \/ ReadRom(h) \/ ReadNothing(h)
        \/ StartWrite(h) \/ PushByte(h) \/ FinishWrite(h) \/ WriteNothing(h) \/ WriteTty(h)
        \/ Lseek(h)
  BY DEF OpenFilesNext
<1>2. ASSUME NEW node \in Nodes, OpenNode(h, node) PROVE OpenFilesInv'
  <2>1. ~IsOpen(h) /\ UNCHANGED <<vector, call>> /\ node \in Holding
    BY <1>2 DEF OpenNode, Holding
  <2>2. Take(h, node) \/ UNCHANGED <<open, taken, raced>>
    BY <1>2 DEF OpenNode
  <2> QED
    BY <2>1, <2>2, ClosedIsIdle, TakeKeeps, OpenFilesSame
<1>3. ASSUME NEW g \in Handles, Clone(h, g) PROVE OpenFilesInv'
  <2>1. ~IsOpen(g) /\ UNCHANGED <<vector, call>> /\ open[h].node \in Holding
    BY <1>3 DEF Clone, OpenFilesInv, OpenFilesTypeOK
  <2>2. Take(g, open[h].node) \/ UNCHANGED <<open, taken, raced>>
    BY <1>3 DEF Clone
  <2> QED
    BY <2>1, <2>2, ClosedIsIdle, TakeKeeps, OpenFilesSame
<1>4. CASE ReadNothing(h) \/ WriteNothing(h) \/ WriteTty(h) \/ Lseek(h)
  BY <1>4, OpenFilesSame DEF ReadNothing, WriteNothing, WriteTty, Lseek
<1> QED
  BY <1>1, <1>2, <1>3, <1>4, CloseFileKeeps, StartReadKeeps, FinishReadKeeps, ReadRomKeeps,
     StartWriteKeeps, PushByteKeeps, FinishWriteKeeps

LEMMA OpenFilesStart ==
    ASSUME OpenFilesInit PROVE OpenFilesInv
<1>1. /\ open = [h \in Handles |-> Closed] /\ vector = [data |-> <<>>, capacity |-> 0, moved |-> 0]
      /\ call = [h \in Handles |-> Idle] /\ taken = [h \in Handles |-> <<>>]
      /\ raced = [h \in Handles |-> FALSE]
  BY DEF OpenFilesInit
<1>2. <<>> \in Seq(Letters) /\ <<>> \in Seq(Letters \cup {Junk})
  BY EmptySeq
<1>3. vector \in Vectors
  BY <1>1, <1>2 DEF Vectors
<1>4. OpenFilesTypeOK
  BY <1>1, <1>2, <1>3, OpenFilesFacts DEF OpenFilesTypeOK
<1>5. \A h \in Handles : open[h] = Closed /\ call[h] = Idle /\ call[h].op = "none"
  BY <1>1, OpenFilesFacts
<1>6. CallsHaveFiles /\ ReadsAreInside /\ ReadsAreOld /\ ReadSoFar
  BY <1>5 DEF CallsHaveFiles, ReadsAreInside, ReadsAreOld, ReadSoFar, IsOpen
<1> QED
  BY <1>4, <1>6 DEF OpenFilesInv

(* What has been read is the beginning of the file, as a sequence.          *)
LEMMA ReadAsSequence ==
    ASSUME NEW S, NEW s \in Seq(S), NEW T, NEW c \in Seq(T), NEW n \in Nat, n <= Len(c),
           Len(s) = n, \A k \in 1 .. n : s[k] = c[k]
    PROVE  s = SubSeq(c, 1, n)
<1>1. DOMAIN s = 1 .. n
  BY LenProperties
<1>2. SubSeq(c, 1, n) \in Seq(T) /\ Len(SubSeq(c, 1, n)) = n
      /\ \A k \in 1 .. n : SubSeq(c, 1, n)[k] = c[k]
  BY SubSeqProperties, LenProperties
<1>3. s \in Seq(S \cup T) /\ SubSeq(c, 1, n) \in Seq(S \cup T)
  BY <1>2, SeqMonotonic
<1> QED
  BY <1>2, <1>3, SeqEqual

LEMMA OpenFilesReads ==
    ASSUME OpenFilesInv PROVE ReadsContinue
<1> SUFFICES ASSUME NEW h \in Handles, IsOpen(h), ~raced[h]
             PROVE  /\ open[h].position <= Len(Content(open[h].node))
                    /\ taken[h] = SubSeq(Content(open[h].node), 1, open[h].position)
  BY DEF ReadsContinue
<1>1. <<>> \in Seq(Letters) /\ RomData \in Seq(Letters) /\ vector.data \in Seq(Letters)
  BY OpenFilesFacts, EmptySeq DEF OpenFilesInv, OpenFilesTypeOK, Vectors
<1>2. Content(open[h].node) \in Seq(Letters) /\ HasRead(h, Content(open[h].node))
  BY <1>1 DEF OpenFilesInv, ReadSoFar, Content
<1>3. taken[h] \in Seq(Letters \cup {Junk}) /\ open[h].position \in Nat
  BY DEF OpenFilesInv, OpenFilesTypeOK
<1> QED
  BY <1>2, <1>3, ReadAsSequence DEF HasRead

(* Whatever descriptors read, write and clone in between, and however the   *)
(* steps of a read and a write of the RamFs file interleave, what a         *)
(* descriptor has read is the beginning of its file, unless the data moved  *)
(* under one of its reads (ramfs_file.cpp, romfs_file.cpp).                 *)
THEOREM ReadsAreInOrder == PartsSpec => []ReadsContinue
<1>1. PartsInit => OpenFilesInv
  BY OpenFilesStart DEF PartsInit
<1>2. OpenFilesInv /\ [PartsNext]_partsVars => OpenFilesInv'
  <2> SUFFICES ASSUME OpenFilesInv, [PartsNext]_partsVars PROVE OpenFilesInv'
    OBVIOUS
  <2>1. OpenFilesNext \/ UNCHANGED openVars
    BY DEF PartsNext, partsVars
  <2> QED
    BY <2>1, OpenFilesKept, OpenFilesSame DEF openVars
<1> QED
  BY <1>1, <1>2, OpenFilesReads, PTL DEF PartsSpec

-----------------------------------------------------------------------------
(* Contexts.                                                                *)

(* What a process computes with, and all that can stand in a word.          *)
Computed == Tasks \cup {Entry}
Stackable == Computed \cup {Mark, Clobbered}

Depths == -Below .. StackWords

ContextTypeOK ==
    /\ stack \in [Tasks -> [Words -> Stackable]]
    /\ stack_pointer \in [Tasks -> Words]
    /\ running \in Tasks
    /\ registers \in [scratch : Computed \cup {Clobbered}, kept : Computed, psp : Depths]
    /\ left \in [Tasks -> [registers : [scratch : Computed, kept : Computed, psp : Depths],
                           words : Seq(Stackable)]]
    /\ mode \in {"thread", "entered", "stored", "exiting", "exited", "restored", "lost"}

(* The words on the stack of a process are those it left there.             *)
WordsAreLeft(t) ==
    /\ left[t].registers.psp + Len(left[t].words) = StackWords
    /\ \A k \in 1 .. Len(left[t].words) :
            stack[t][left[t].registers.psp + k - 1] = left[t].words[k]

(* A process that does not run has both halves of its registers on its      *)
(* stack, where its stack pointer points to.                                *)
Stored(t) ==
    /\ left[t].registers.psp = stack_pointer[t] + 2
    /\ stack[t][stack_pointer[t]] = left[t].registers.kept
    /\ stack[t][stack_pointer[t] + 1] = left[t].registers.scratch

(* In a handler one half is on the stack, the other still in the registers. *)
HalfStored ==
    /\ left[running].registers.psp = registers.psp + 1
    /\ registers.kept = left[running].registers.kept
    /\ registers.psp \in Words
    /\ stack[running][registers.psp] = left[running].registers.scratch

Resumable ==
    /\ \A t \in Tasks : WordsAreLeft(t)
    /\ \A t \in Tasks : t # running \/ mode \in {"stored", "exited", "lost"} => Stored(t)
    /\ mode = "thread" => registers = left[running].registers
    /\ mode \in {"entered", "exiting", "restored"} => HalfStored

(* How far down the stack of a process reaches.                             *)
Depth(t) ==
    IF t = running /\ mode \in {"thread", "entered", "exiting", "restored"}
    THEN registers.psp ELSE stack_pointer[t]

(* Who has come as far as the mark has overwritten it or stepped over it.   *)
MarkIsGone(t) == stack[t][0] # Mark \/ t \in skipped

Guarded ==
    /\ \A t \in Tasks : Depth(t) <= 0 \/ t \in outside => MarkIsGone(t)
    /\ OverflowIsCaught

(* Only a process that exits stops being there while it runs.               *)
Living == mode # "exited" => running \in alive

ContextInv == ContextTypeOK /\ Resumable /\ Guarded /\ Living

LEMMA ContextFacts ==
    /\ StackWords \in Nat /\ Below \in Nat /\ StackWords > 2
    /\ Words \subseteq Int /\ 0 \in Words /\ Words \subseteq Depths
    /\ StackWords - 2 \in Words /\ StackWords - 1 \in Words /\ StackWords \in Depths
    /\ Mark \notin Computed \cup {Clobbered}
    /\ Computed \subseteq Stackable /\ Clobbered \in Stackable /\ Entry \in Computed
    /\ Tasks \subseteq Computed
BY ContextsAssumption DEF Words, Depths, Computed, Stackable

(* One word more.                                                           *)
LEMMA WithOneWord ==
    ASSUME NEW words \in [Words -> Stackable], NEW sp \in Int, NEW x \in Stackable
    PROVE  With(words, sp, <<x>>) = [a \in Words |-> IF a = sp THEN x ELSE words[a]]
<1>1. Len(<<x>>) = 1 /\ <<x>>[1] = x
  OBVIOUS
<1> DEFINE Written(a) == IF a \in sp .. sp + Len(<<x>>) - 1 THEN <<x>>[a - sp + 1] ELSE words[a]
<1>2. ASSUME NEW a \in Words PROVE Written(a) = IF a = sp THEN x ELSE words[a]
  <2>1. a \in Int /\ (a \in sp .. sp + 1 - 1 <=> a = sp)
    BY ContextFacts
  <2>2. a = sp => a - sp + 1 = 1
    BY <2>1
  <2> QED
    BY <2>1, <2>2, <1>1
<1>3. With(words, sp, <<x>>) = [a \in Words |-> Written(a)]
  BY DEF With
<1>4. With(words, sp, <<x>>) = [a \in Words |-> IF a = sp THEN x ELSE words[a]]
  BY <1>2, <1>3
<1> QED
  BY <1>4

(* A stack as ArmProcess::ArmProcess lays it out.                           *)
LEMMA NewStackWords ==
    ASSUME NEW arg \in Computed
    PROVE  /\ NewStack(arg) \in [Words -> Stackable]
           /\ NewStack(arg)[StackWords - 2] = Entry
           /\ NewStack(arg)[StackWords - 1] = arg
           /\ NewStack(arg)[0] = Mark
<1> DEFINE pair == SoftwareFrame(Fresh) \o HardwareFrame([Fresh EXCEPT !.scratch = arg])
<1>1. pair = <<Entry, arg>>
  <2>1. SoftwareFrame(Fresh) = <<Entry>> /\ HardwareFrame([Fresh EXCEPT !.scratch = arg]) = <<arg>>
    BY DEF SoftwareFrame, HardwareFrame, Fresh
  <2>2. <<Entry>> \o <<arg>> = <<Entry, arg>>
    <3>1. <<Entry>> \in Seq(Computed) /\ <<arg>> \in Seq(Computed) /\ <<Entry, arg>> \in Seq(Computed)
      BY ContextFacts
    <3>2. /\ <<Entry>> \o <<arg>> \in Seq(Computed) /\ Len(<<Entry>> \o <<arg>>) = 2
          /\ (<<Entry>> \o <<arg>>)[1] = Entry /\ (<<Entry>> \o <<arg>>)[2] = arg
      BY <3>1, ConcatProperties
    <3>3. \A k \in 1 .. 2 : (<<Entry>> \o <<arg>>)[k] = <<Entry, arg>>[k]
      BY <3>2
    <3>4. Len(<<Entry, arg>>) = 2
      OBVIOUS
    <3> QED
      BY <3>1, <3>2, <3>3, <3>4, SeqEqual
  <2> QED
    BY <2>1, <2>2
<1>2. Len(<<Entry, arg>>) = 2 /\ <<Entry, arg>>[1] = Entry /\ <<Entry, arg>>[2] = arg
  OBVIOUS
<1>3. NewStack(arg) = With([a \in Words |-> IF a = 0 THEN Mark ELSE Entry], StackWords - 2, <<Entry, arg>>)
  BY <1>1 DEF NewStack
<1>4. NewStack(arg) = [a \in Words |-> IF a \in StackWords - 2 .. StackWords - 1
                                      THEN <<Entry, arg>>[a - (StackWords - 2) + 1]
                                      ELSE IF a = 0 THEN Mark ELSE Entry]
  BY <1>2, <1>3, ContextFacts DEF With
<1>5. \A a \in Words : a \in StackWords - 2 .. StackWords - 1 =>
        a - (StackWords - 2) + 1 = 1 \/ a - (StackWords - 2) + 1 = 2
  BY ContextFacts
<1>6. \A a \in Words : NewStack(arg)[a] \in Stackable
  <2> SUFFICES ASSUME NEW a \in Words PROVE NewStack(arg)[a] \in Stackable
    OBVIOUS
  <2>1. CASE a \in StackWords - 2 .. StackWords - 1
    BY <2>1, <1>2, <1>4, <1>5, ContextFacts
  <2>2. CASE a \notin StackWords - 2 .. StackWords - 1
    BY <2>2, <1>4, ContextFacts DEF Stackable, Computed
  <2> QED
    BY <2>1, <2>2
<1>7. NewStack(arg)[StackWords - 2] = Entry /\ NewStack(arg)[StackWords - 1] = arg
  <2>1. /\ (StackWords - 2) - (StackWords - 2) + 1 = 1
        /\ (StackWords - 1) - (StackWords - 2) + 1 = 2
        /\ StackWords - 2 \in StackWords - 2 .. StackWords - 1
        /\ StackWords - 1 \in StackWords - 2 .. StackWords - 1
    BY ContextFacts
  <2> QED
    BY <2>1, <1>2, <1>4, ContextFacts
<1>8. NewStack(arg)[0] = Mark
  <2>1. 0 \notin StackWords - 2 .. StackWords - 1
    BY ContextFacts
  <2> QED
    BY <2>1, <1>4, ContextFacts
<1> QED
  BY <1>4, <1>6, <1>7, <1>8

(* One process's stack changes: the others keep what they have.             *)
LEMMA OthersKeep ==
    ASSUME ContextTypeOK, NEW t \in Tasks, NEW u \in Tasks \ {t},
           stack'[u] = stack[u], left'[u] = left[u], stack_pointer'[u] = stack_pointer[u]
    PROVE  (WordsAreLeft(u) => WordsAreLeft(u)') /\ (Stored(u) => Stored(u)')
BY DEF WordsAreLeft, Stored

(* A word x that the running process puts below its stack pointer.          *)
LEMMA GrowWords ==
    ASSUME ContextTypeOK, NEW x \in Stackable, Grow(<<x>>), registers.psp \in Depths
    PROVE  /\ registers.psp - 1 \in Words
           /\ stack' \in [Tasks -> [Words -> Stackable]]
           /\ stack'[running] = [stack[running] EXCEPT ![registers.psp - 1] = x]
           /\ \A u \in Tasks \ {running} : stack'[u] = stack[u]
           /\ outside' = IF registers.psp <= 0 THEN outside \cup {running} ELSE outside
<1> DEFINE sp == registers.psp - 1
<1>1. Len(<<x>>) = 1
  OBVIOUS
<1>2. sp >= -Below /\ stack' = [stack EXCEPT ![running] = With(@, sp, <<x>>)]
      /\ outside' = IF sp < 0 THEN outside \cup {running} ELSE outside
  BY <1>1 DEF Grow
<1>3. sp \in Words /\ sp \in Int
  BY <1>2, ContextFacts DEF Depths, Words
<1>4. stack[running] \in [Words -> Stackable] /\ running \in Tasks /\ stack \in [Tasks -> [Words -> Stackable]]
  BY DEF ContextTypeOK
<1>5. With(stack[running], sp, <<x>>) = [a \in Words |-> IF a = sp THEN x ELSE stack[running][a]]
  BY <1>3, <1>4, WithOneWord
<1>6. With(stack[running], sp, <<x>>) = [stack[running] EXCEPT ![sp] = x]
  BY <1>3, <1>4, <1>5
<1>7. stack' = [stack EXCEPT ![running] = [stack[running] EXCEPT ![sp] = x]]
  BY <1>2, <1>6
<1>8. [stack[running] EXCEPT ![sp] = x] \in [Words -> Stackable]
  BY <1>4
<1>9. sp < 0 <=> registers.psp <= 0
  BY <1>3, ContextFacts DEF Depths
<1> QED
  BY <1>2, <1>3, <1>4, <1>7, <1>8, <1>9

(* A word of the running process that is popped.                            *)
LEMMA PoppedWords ==
    ASSUME ContextTypeOK, NEW t \in Tasks, NEW sp \in Words, Popped(t, sp)
    PROVE  /\ stack' \in [Tasks -> [Words -> Stackable]]
           /\ \A u \in Tasks \ {t} : stack'[u] = stack[u]
           /\ \A a \in Words \ {sp} : stack'[t][a] = stack[t][a]
           /\ stack'[t][0] = stack[t][0] 
BY ContextFacts DEF Popped, ContextTypeOK

LEMMA CreateKeeps ==
    ASSUME ContextInv, NEW t \in Tasks, Create(t) PROVE ContextInv'
<1> DEFINE arg == running
<1>1. arg \in Computed /\ t # running /\ t \in Tasks
  BY ContextFacts DEF Create, ContextInv, ContextTypeOK, Living
<1> HIDE DEF arg
<1>2. /\ stack' = [stack EXCEPT ![t] = NewStack(arg)]
      /\ left' = [left EXCEPT ![t] = [registers |-> [Fresh EXCEPT !.scratch = arg], words |-> <<>>]]
      /\ stack_pointer' = [stack_pointer EXCEPT ![t] = StackWords - 2]
      /\ outside' = outside \ {t} /\ skipped' = skipped \ {t}
      /\ UNCHANGED <<running, registers, mode>> /\ mode = "thread"
  BY DEF Create, arg
<1>3. [Fresh EXCEPT !.scratch = arg] = [scratch |-> arg, kept |-> Entry, psp |-> StackWords]
  BY DEF Fresh
<1>4. <<>> \in Seq(Stackable) /\ Len(<<>>) = 0
  BY EmptySeq
<1>5. ContextTypeOK'
  <2>1. stack' \in [Tasks -> [Words -> Stackable]]
    BY <1>1, <1>2, NewStackWords DEF ContextInv, ContextTypeOK
  <2>2. stack_pointer' \in [Tasks -> Words]
    BY <1>2, ContextFacts DEF ContextInv, ContextTypeOK
  <2>3. left' \in [Tasks -> [registers : [scratch : Computed, kept : Computed, psp : Depths],
                             words : Seq(Stackable)]]
    BY <1>1, <1>2, <1>3, <1>4, ContextFacts DEF ContextInv, ContextTypeOK
  <2> QED
    BY <1>2, <2>1, <2>2, <2>3 DEF ContextInv, ContextTypeOK
<1>6. \A u \in Tasks \ {t} : stack'[u] = stack[u] /\ left'[u] = left[u]
                             /\ stack_pointer'[u] = stack_pointer[u]
  BY <1>2 DEF ContextInv, ContextTypeOK
<1>7. /\ stack'[t] = NewStack(arg) /\ stack_pointer'[t] = StackWords - 2
      /\ left'[t].registers = [scratch |-> arg, kept |-> Entry, psp |-> StackWords]
      /\ left'[t].words = <<>>
  BY <1>2, <1>3 DEF ContextInv, ContextTypeOK
<1>8. Stored(t)' /\ WordsAreLeft(t)'
  <2>1. StackWords = (StackWords - 2) + 2 /\ (StackWords - 2) + 1 = StackWords - 1
        /\ StackWords + 0 = StackWords
    BY ContextFacts
  <2> QED
    BY <1>1, <1>4, <1>7, <2>1, NewStackWords DEF Stored, WordsAreLeft
<1>9. Resumable'
  <2>1. \A u \in Tasks : WordsAreLeft(u)'
    BY <1>6, <1>8, OthersKeep DEF ContextInv, Resumable
  <2>2. \A u \in Tasks : u # running' \/ mode' \in {"stored", "exited", "lost"} => Stored(u)'
    BY <1>2, <1>6, <1>8, OthersKeep DEF ContextInv, Resumable
  <2>3. mode' = "thread" /\ registers' = left'[running'].registers
    BY <1>1, <1>2, <1>6 DEF ContextInv, Resumable, ContextTypeOK
  <2> QED
    BY <2>1, <2>2, <2>3 DEF Resumable
<1>10. Guarded'
  <2>1. OverflowIsCaught'
    BY <1>2 DEF OverflowIsCaught
  <2>2. ASSUME NEW u \in Tasks, Depth(u)' <= 0 \/ u \in outside' PROVE MarkIsGone(u)'
    <3>1. CASE u = t
      BY <3>1, <2>2, <1>1, <1>2, <1>7, ContextFacts DEF Depth
    <3>2. CASE u # t
      <4>1. Depth(u)' = Depth(u)
        BY <3>2, <1>2, <1>6 DEF Depth
      <4>2. (u \in outside' <=> u \in outside) /\ (u \in skipped' <=> u \in skipped)
        BY <3>2, <1>2
      <4>3. MarkIsGone(u)
        BY <2>2, <4>1, <4>2 DEF ContextInv, Guarded
      <4> QED
        BY <3>2, <4>2, <4>3, <1>6 DEF MarkIsGone
    <3> QED
      BY <3>1, <3>2
  <2> QED
    BY <2>1, <2>2 DEF Guarded
<1>11. Living'
  BY <1>2 DEF Create, ContextInv, Living
<1> QED
  BY <1>5, <1>9, <1>10, <1>11 DEF ContextInv

LEMMA ComputeKeeps ==
    ASSUME ContextInv, Compute PROVE ContextInv'
<1>1. /\ mode = "thread" /\ registers' = [registers EXCEPT !.scratch = running, !.kept = running]
      /\ left' = [left EXCEPT ![running].registers.scratch = running,
                              ![running].registers.kept = running]
      /\ UNCHANGED <<stack, stack_pointer, alive, running, mode, outside, skipped>>
  BY DEF Compute
<1>2. running \in Tasks /\ running \in Computed /\ registers = left[running].registers
      /\ left \in [Tasks -> [registers : [scratch : Computed, kept : Computed, psp : Depths],
                             words : Seq(Stackable)]]
  BY <1>1, ContextFacts DEF ContextInv, ContextTypeOK, Resumable
<1>3. /\ left'[running].registers = registers' /\ left'[running].words = left[running].words
      /\ registers'.psp = registers.psp
      /\ left'[running].registers.psp = left[running].registers.psp
      /\ registers' \in [scratch : Computed, kept : Computed, psp : Depths]
      /\ \A u \in Tasks \ {running} : left'[u] = left[u]
      /\ left' \in [Tasks -> [registers : [scratch : Computed, kept : Computed, psp : Depths],
                              words : Seq(Stackable)]]
  <2> DEFINE R == [scratch : Computed, kept : Computed, psp : Depths]
             L == [registers : R, words : Seq(Stackable)]
  <2>1. PICK l \in L : l = left[running] /\ l.registers = registers
    BY <1>2
  <2>2. PICK r \in R : r = registers
    BY <2>1
  <2>3. registers' \in R /\ registers'.psp = registers.psp
    BY <1>1, <1>2, <2>2
  <2>4. DOMAIN left' = Tasks /\ \A u \in Tasks \ {running} : left'[u] = left[u]
    BY <1>1, <1>2
  <2>5. left'[running] = [registers |-> registers', words |-> l.words]
    <3>1. left'[running].words = l.words /\ left'[running].registers = registers'
      BY <1>1, <1>2, <2>1
    <3>2. left'[running] = [registers |-> left'[running].registers, words |-> left'[running].words]
      BY <1>1, <1>2, <2>1
    <3> QED
      BY <3>1, <3>2
  <2>6. [registers |-> registers', words |-> l.words] \in L
    BY <2>1, <2>3
  <2>7. left' \in [Tasks -> L]
    <3> HIDE DEF L
    <3>1. left \in [Tasks -> L] /\ running \in Tasks
      BY <1>2 DEF L
    <3>2. left' = [u \in Tasks |-> left'[u]]
      BY <1>1, <3>1
    <3> QED
      BY <2>4, <2>5, <2>6, <3>1, <3>2
  <2> QED
    BY <2>1, <2>3, <2>4, <2>5, <2>7
<1>4. ContextTypeOK'
  BY <1>1, <1>3 DEF ContextInv, ContextTypeOK
<1>5. Resumable'
  <2>1. WordsAreLeft(running)'
    BY <1>1, <1>2, <1>3 DEF ContextInv, Resumable, WordsAreLeft
  <2> QED
    BY <2>1, <1>1, <1>3, OthersKeep DEF ContextInv, Resumable
<1>6. Guarded' /\ Living'
  BY <1>1, <1>3 DEF ContextInv, Guarded, Living, OverflowIsCaught, Depth, MarkIsGone
<1> QED
  BY <1>4, <1>5, <1>6 DEF ContextInv

(* The mark when the running process has written word x.                    *)
LEMMA GrowGuards ==
    ASSUME ContextInv, NEW x \in Computed \cup {Clobbered}, Grow(<<x>>),
           mode \in {"thread", "entered"}, mode' # "restored",
           UNCHANGED <<running, skipped>>,
           \A u \in Tasks \ {running} : Depth(u)' = Depth(u),
           Depth(running)' = registers.psp - 1
    PROVE  Guarded'
<1>1. registers.psp \in Depths /\ x \in Stackable /\ x # Mark /\ running \in Tasks
  BY ContextFacts DEF ContextInv, ContextTypeOK
<1>2. /\ registers.psp - 1 \in Words
      /\ stack'[running] = [stack[running] EXCEPT ![registers.psp - 1] = x]
      /\ \A u \in Tasks \ {running} : stack'[u] = stack[u]
      /\ outside' = IF registers.psp <= 0 THEN outside \cup {running} ELSE outside
  BY <1>1, GrowWords DEF ContextInv
<1>3. OverflowIsCaught'
  BY DEF OverflowIsCaught
<1>4. ASSUME NEW u \in Tasks, Depth(u)' <= 0 \/ u \in outside' PROVE MarkIsGone(u)'
  <2>1. CASE u # running
    BY <2>1, <1>2, <1>4 DEF ContextInv, Guarded, MarkIsGone
  <2>2. CASE u = running
    <3>1. Depth(running) = registers.psp /\ registers.psp \in Int
      BY <1>1, ContextFacts DEF Depth, Depths
    <3>2. stack[running] \in [Words -> Stackable]
      BY DEF ContextInv, ContextTypeOK
    <3>3. CASE registers.psp = 1
      BY <3>2, <3>3, <2>2, <1>1, <1>2, ContextFacts DEF MarkIsGone
    <3>4. CASE registers.psp # 1
      <4>1. registers.psp <= 0 \/ running \in outside
        BY <3>1, <3>4, <2>2, <1>2, <1>4
      <4>2. MarkIsGone(running)
        BY <4>1, <3>1, <1>1 DEF ContextInv, Guarded
      <4>3. stack'[running][0] = stack[running][0]
        BY <3>1, <3>2, <3>4, <1>2, ContextFacts
      <4> QED
        BY <4>2, <4>3, <2>2 DEF MarkIsGone
    <3> QED
      BY <3>3, <3>4
  <2> QED
    BY <2>1, <2>2
<1> QED
  BY <1>3, <1>4 DEF Guarded

(* What left records of each process, one function at a time.               *)
LeftType == [registers : [scratch : Computed, kept : Computed, psp : Depths], words : Seq(Stackable)]

LEMMA PrefixedWord ==
    ASSUME NEW x \in Stackable, NEW w \in Seq(Stackable)
    PROVE  /\ <<x>> \o w \in Seq(Stackable) /\ Len(<<x>> \o w) = Len(w) + 1
           /\ (<<x>> \o w)[1] = x
           /\ \A k \in 2 .. Len(w) + 1 : (<<x>> \o w)[k] = w[k - 1]
<1>1. <<x>> \in Seq(Stackable) /\ Len(<<x>>) = 1 /\ <<x>>[1] = x /\ Len(w) \in Nat
  BY LenProperties
<1>2. /\ <<x>> \o w \in Seq(Stackable) /\ Len(<<x>> \o w) = 1 + Len(w)
      /\ \A k \in 1 .. 1 + Len(w) : (<<x>> \o w)[k] = IF k <= 1 THEN <<x>>[k] ELSE w[k - 1]
  BY <1>1, ConcatProperties
<1> QED
  BY <1>1, <1>2

(* What is recorded of t when its stack grows by x.                         *)
LEMMA LeftDeeper ==
    ASSUME NEW t \in Tasks, left \in [Tasks -> LeftType], NEW x \in Stackable,
           left[t].registers.psp - 1 \in Depths,
           left' = [left EXCEPT ![t].registers.psp = @ - 1, ![t].words = <<x>> \o @]
    PROVE  /\ left' \in [Tasks -> LeftType] /\ \A u \in Tasks \ {t} : left'[u] = left[u]
           /\ left'[t] = [registers |-> [left[t].registers EXCEPT !.psp = @ - 1],
                          words |-> <<x>> \o left[t].words]
<1>1. <<x>> \o left[t].words \in Seq(Stackable)
  BY PrefixedWord DEF LeftType
<1> QED
  BY <1>1 DEF LeftType

(* The k-th of n words from p - 1 on, up to the top of the stack.           *)
LEMMA HigherWord ==
    ASSUME NEW p \in Int, NEW n \in Nat, NEW k \in 2 .. n + 1,
           p + n = StackWords, p - 1 >= -Below
    PROVE  p + (k - 1) - 1 \in Words \ {p - 1}
BY ContextFacts DEF Words

(* The running process puts word x on its stack, by a write or not.         *)
Deeper(x) ==
    /\ mode = "thread" /\ registers.psp - 1 \in Words
    /\ left' \in [Tasks -> LeftType] /\ \A u \in Tasks \ {running} : left'[u] = left[u]
    /\ left'[running] = [registers |-> registers', words |-> <<x>> \o left[running].words]
    /\ registers' = [registers EXCEPT !.psp = @ - 1]
    /\ stack' \in [Tasks -> [Words -> Stackable]]
    /\ \A u \in Tasks \ {running} : stack'[u] = stack[u]
    /\ \A a \in Words \ {registers.psp - 1} : stack'[running][a] = stack[running][a]
    /\ stack'[running][registers.psp - 1] = x
    /\ stack_pointer' = stack_pointer /\ alive' = alive /\ running' = running /\ mode' = mode

LEMMA DeeperLeft ==
    ASSUME ContextInv, NEW x \in Stackable, Deeper(x)
    PROVE  ContextTypeOK' /\ Resumable' /\ Living'
<1> DEFINE w == left[running].words
           p == registers.psp
<1>1. /\ running \in Tasks /\ registers = left[running].registers
      /\ p \in Int /\ w \in Seq(Stackable) /\ stack[running] \in [Words -> Stackable]
      /\ registers \in [scratch : Computed, kept : Computed, psp : Depths]
  <2>1. running \in Tasks /\ registers = left[running].registers
    BY DEF ContextInv, ContextTypeOK, Resumable, Deeper
  <2>2. /\ left[running] \in [registers : [scratch : Computed, kept : Computed, psp : Depths],
                              words : Seq(Stackable)]
        /\ stack[running] \in [Words -> Stackable]
    BY <2>1 DEF ContextInv, ContextTypeOK
  <2>3. registers \in [scratch : Computed, kept : Computed, psp : Depths] /\ w \in Seq(Stackable)
    BY <2>1, <2>2
  <2>4. p \in Int
    BY <2>3, ContextFacts DEF Depths
  <2> QED
    BY <2>1, <2>2, <2>3, <2>4
<1>2. <<x>> \o w \in Seq(Stackable) /\ p - 1 \in Depths /\ p - 1 \in Words
  BY <1>1, ContextFacts, PrefixedWord DEF Deeper
<1>3. registers' \in [scratch : Computed, kept : Computed, psp : Depths] /\ registers'.psp = p - 1
  BY <1>1, <1>2 DEF Deeper
<1>4. /\ stack_pointer' = stack_pointer /\ alive' = alive
      /\ running' = running /\ mode' = mode /\ mode = "thread"
      /\ \A u \in Tasks \ {running} : stack'[u] = stack[u] /\ left'[u] = left[u]
  BY DEF Deeper
<1>5. left'[running].registers = registers' /\ left'[running].words = <<x>> \o w
  BY DEF Deeper
<1>6. p + Len(w) = StackWords /\ \A k \in 1 .. Len(w) : stack[running][p + k - 1] = w[k]
  BY <1>1 DEF ContextInv, Resumable, WordsAreLeft
<1>7. ContextTypeOK'
  BY <1>3, <1>4 DEF ContextInv, ContextTypeOK, LeftType, Deeper
<1>8. WordsAreLeft(running)'
  <2>1. Len(<<x>> \o w) = Len(w) + 1 /\ Len(w) \in Nat
    BY <1>1, PrefixedWord, LenProperties
  <2>6. p + Len(w) = StackWords /\ p \in Int /\ p - 1 >= -Below
    BY <1>1, <1>2, <1>6 DEF Words
  <2>2. (p - 1) + Len(<<x>> \o w) = StackWords
    BY <2>1, <2>6
  <2>3. stack'[running][p - 1] = x
    BY DEF Deeper
  <2>4. \A a \in Words \ {p - 1} : stack'[running][a] = stack[running][a]
    BY DEF Deeper
  <2>5. ASSUME NEW k \in 1 .. Len(w) + 1 PROVE stack'[running][(p - 1) + k - 1] = (<<x>> \o w)[k]
    <3>1. CASE k = 1
      <4>1. (p - 1) + k - 1 = p - 1
        BY <1>1, <3>1
      <4> QED
        BY <1>1, <2>3, <3>1, <4>1, PrefixedWord
    <3>2. CASE k # 1
      <4>1. k \in 2 .. Len(w) + 1 /\ k - 1 \in 1 .. Len(w) /\ (p - 1) + k - 1 = p + (k - 1) - 1
        BY <1>1, <2>1, <3>2
      <4>2. p + (k - 1) - 1 \in Words \ {p - 1}
        BY <2>1, <2>6, <4>1, HigherWord
      <4>3. (<<x>> \o w)[k] = w[k - 1]
        BY <1>1, <4>1, PrefixedWord
      <4>4. stack[running][p + (k - 1) - 1] = w[k - 1]
        BY <1>6, <4>1
      <4> QED
        BY <2>4, <4>1, <4>2, <4>3, <4>4
    <3> QED
      BY <3>1, <3>2
  <2> QED
    BY <1>3, <1>4, <1>5, <2>1, <2>2, <2>5 DEF WordsAreLeft
<1>9. Resumable'
  <2>1. ContextTypeOK /\ \A u \in Tasks : WordsAreLeft(u) /\ (u # running => Stored(u))
    BY DEF ContextInv, Resumable
  <2>2. \A u \in Tasks \ {running} : WordsAreLeft(u)' /\ Stored(u)'
    BY <1>1, <1>4, <2>1, OthersKeep
  <2>3. registers' = left'[running'].registers
    BY <1>4, <1>5
  <2> QED
    BY <1>1, <1>4, <1>8, <2>2, <2>3 DEF Resumable
<1>10. Living'
  BY <1>4 DEF ContextInv, Living
<1> QED
  BY <1>7, <1>9, <1>10

LEMMA PushWordKeeps ==
    ASSUME ContextInv, PushWord PROVE ContextInv'
<1>1. /\ mode = "thread" /\ Grow(<<running>>)
      /\ registers' = [registers EXCEPT !.psp = @ - 1]
      /\ left' = [left EXCEPT ![running].registers.psp = @ - 1,
                              ![running].words = <<running>> \o @]
      /\ UNCHANGED <<stack_pointer, alive, running, mode, skipped>>
  BY DEF PushWord
<1>2. running \in Stackable /\ running \in Computed /\ running \in Tasks
      /\ registers.psp \in Depths /\ ContextTypeOK
  BY ContextFacts DEF ContextInv, ContextTypeOK
<1>3. /\ registers.psp - 1 \in Words /\ stack' \in [Tasks -> [Words -> Stackable]]
      /\ stack'[running] = [stack[running] EXCEPT ![registers.psp - 1] = running]
      /\ \A u \in Tasks \ {running} : stack'[u] = stack[u]
  BY <1>1, <1>2, GrowWords
<1>4. /\ stack'[running][registers.psp - 1] = running
      /\ \A a \in Words \ {registers.psp - 1} : stack'[running][a] = stack[running][a]
  BY <1>2, <1>3 DEF ContextTypeOK
<1>8. /\ left' \in [Tasks -> LeftType] /\ \A u \in Tasks \ {running} : left'[u] = left[u]
      /\ left'[running] = [registers |-> registers', words |-> <<running>> \o left[running].words]
  <2>1. left \in [Tasks -> LeftType] /\ registers = left[running].registers
    BY <1>1 DEF ContextInv, ContextTypeOK, Resumable, LeftType
  <2>2. left[running].registers.psp - 1 \in Depths
    BY <1>3, <2>1, ContextFacts
  <2> QED
    BY <1>1, <1>2, <2>1, <2>2, LeftDeeper
<1>5. ContextTypeOK' /\ Resumable' /\ Living'
  <2>1. Deeper(running)
    BY <1>1, <1>2, <1>3, <1>4, <1>8 DEF Deeper
  <2> QED
    BY <1>2, <2>1, DeeperLeft
<1>6. /\ \A u \in Tasks \ {running} : Depth(u)' = Depth(u)
      /\ Depth(running)' = registers.psp - 1
  BY <1>1, <1>2 DEF Depth, ContextTypeOK
<1>7. Guarded'
  BY <1>1, <1>2, <1>6, GrowGuards
<1> QED
  BY <1>5, <1>7 DEF ContextInv

LEMMA ReserveKeeps ==
    ASSUME ContextInv, Reserve PROVE ContextInv'
<1> DEFINE x == stack[running][registers.psp - 1]
<1>1. /\ mode = "thread" /\ registers.psp > -Below
      /\ registers' = [registers EXCEPT !.psp = @ - 1]
      /\ left' = [left EXCEPT ![running].registers.psp = @ - 1,
                              ![running].words = <<x>> \o @]
      /\ skipped' = IF registers.psp = 1 THEN skipped \cup {running} ELSE skipped
      /\ UNCHANGED <<stack, stack_pointer, alive, running, mode, outside>>
  BY DEF Reserve
<1>2. ContextTypeOK /\ running \in Tasks /\ registers.psp \in Depths
      /\ stack \in [Tasks -> [Words -> Stackable]]
  BY DEF ContextInv, ContextTypeOK
<1>3. registers.psp - 1 \in Words /\ registers.psp \in Int
  BY <1>1, <1>2, ContextFacts DEF Depths, Words
<1>4. x \in Stackable
  BY <1>2, <1>3
<1> HIDE DEF x
<1>8. /\ left' \in [Tasks -> LeftType] /\ \A u \in Tasks \ {running} : left'[u] = left[u]
      /\ left'[running] = [registers |-> registers', words |-> <<x>> \o left[running].words]
  <2>1. left \in [Tasks -> LeftType] /\ registers = left[running].registers
    BY <1>1 DEF ContextInv, ContextTypeOK, Resumable, LeftType
  <2>2. left[running].registers.psp - 1 \in Depths
    BY <1>3, <2>1, ContextFacts
  <2> QED
    BY <1>1, <1>2, <1>4, <2>1, <2>2, LeftDeeper
<1>5. ContextTypeOK' /\ Resumable' /\ Living'
  <2>1. stack' = stack /\ stack[running][registers.psp - 1] = x
    BY <1>1 DEF x
  <2>2. Deeper(x)
    BY <1>1, <1>2, <1>3, <1>8, <2>1 DEF Deeper
  <2> QED
    BY <1>4, <2>2, DeeperLeft
<1>6. /\ \A u \in Tasks \ {running} : Depth(u)' = Depth(u)
      /\ Depth(running) = registers.psp /\ Depth(running)' = registers.psp - 1
  BY <1>1, <1>2 DEF Depth, ContextTypeOK
<1>7. Guarded'
  <2>1. OverflowIsCaught'
    BY <1>1 DEF OverflowIsCaught
  <2>2. ASSUME NEW u \in Tasks, Depth(u)' <= 0 \/ u \in outside' PROVE MarkIsGone(u)'
    <3>1. MarkIsGone(u) => MarkIsGone(u)'
      BY <1>1 DEF MarkIsGone
    <3>2. CASE u = running /\ registers.psp = 1
      BY <3>2, <1>1 DEF MarkIsGone
    <3>3. CASE ~(u = running /\ registers.psp = 1)
      <4>1. Depth(u) <= 0 \/ u \in outside
        BY <3>3, <2>2, <1>1, <1>3, <1>6
      <4> QED
        BY <3>1, <4>1 DEF ContextInv, Guarded
    <3> QED
      BY <3>2, <3>3
  <2> QED
    BY <2>1, <2>2 DEF Guarded
<1> QED
  BY <1>5, <1>7 DEF ContextInv

(* What is recorded of t when a word is popped.                             *)
LEMMA LeftHigher ==
    ASSUME NEW t \in Tasks, left \in [Tasks -> LeftType], left[t].words # <<>>,
           left[t].registers.psp + 1 \in Depths,
           left' = [left EXCEPT ![t].registers.psp = @ + 1, ![t].words = Tail(@)]
    PROVE  /\ left' \in [Tasks -> LeftType] /\ \A u \in Tasks \ {t} : left'[u] = left[u]
           /\ left'[t] = [registers |-> [left[t].registers EXCEPT !.psp = @ + 1],
                          words |-> Tail(left[t].words)]
<1>1. Tail(left[t].words) \in Seq(Stackable)
  BY HeadTailProperties DEF LeftType
<1> QED
  BY <1>1 DEF LeftType

(* The words above the one that is popped.                                  *)
LEMMA LowerWord ==
    ASSUME NEW p \in Int, NEW n \in Nat, NEW k \in 1 .. n, p + n + 1 = StackWords, p >= -Below
    PROVE  (p + 1) + k - 1 \in Words \ {p} /\ (p + 1) + k - 1 = p + (k + 1) - 1 /\ k + 1 \in 1 .. n + 1
BY ContextFacts DEF Words

(* A word that is written below them.                                       *)
LEMMA WordAbove ==
    ASSUME NEW p \in Int, NEW n \in Nat, NEW k \in 1 .. n, p + n = StackWords, p - 1 >= -Below
    PROVE  p + k - 1 \in Words \ {p - 1}
BY ContextFacts DEF Words

LEMMA PopWordKeeps ==
    ASSUME ContextInv, PopWord PROVE ContextInv'
<1> DEFINE w == left[running].words
           p == registers.psp
<1>1. /\ running \in Tasks /\ registers = left[running].registers /\ mode = "thread"
      /\ p \in Depths /\ p \in Int /\ w \in Seq(Stackable) /\ left \in [Tasks -> LeftType]
      /\ registers \in [scratch : Computed, kept : Computed, psp : Depths]
  BY ContextFacts DEF ContextInv, ContextTypeOK, Resumable, Depths, PopWord, LeftType
<1>2. p < StackWords
  BY DEF PopWord
<1>3. p \in Words /\ p >= -Below /\ p + 1 \in Depths
  BY <1>1, <1>2, ContextFacts DEF Depths, Words
<1>4. /\ p + Len(w) = StackWords /\ Len(w) \in Nat
  BY <1>1, LenProperties DEF ContextInv, Resumable, WordsAreLeft
<1>5. \A k \in 1 .. Len(w) : stack[running][p + k - 1] = w[k]
  BY <1>1 DEF ContextInv, Resumable, WordsAreLeft
<1>6. w # <<>>
  BY <1>1, <1>2, <1>4, EmptySeq
<1>7. /\ registers' = [registers EXCEPT !.psp = @ + 1]
      /\ stack_pointer' = stack_pointer /\ alive' = alive /\ running' = running
      /\ mode' = mode /\ outside' = outside /\ skipped' = skipped
  BY DEF PopWord
<1>8. /\ left' \in [Tasks -> LeftType] /\ \A u \in Tasks \ {running} : left'[u] = left[u]
      /\ left'[running].registers = registers' /\ left'[running].words = Tail(w)
  <2>1. left' = [left EXCEPT ![running].registers.psp = @ + 1, ![running].words = Tail(@)]
    BY DEF PopWord
  <2>2. /\ left' \in [Tasks -> LeftType] /\ \A u \in Tasks \ {running} : left'[u] = left[u]
        /\ left'[running] = [registers |-> [left[running].registers EXCEPT !.psp = @ + 1],
                             words |-> Tail(left[running].words)]
    BY <1>1, <1>3, <1>6, <2>1, LeftHigher
  <2> QED
    BY <1>1, <1>7, <2>2
<1>9. /\ stack' \in [Tasks -> [Words -> Stackable]]
      /\ \A u \in Tasks \ {running} : stack'[u] = stack[u]
      /\ \A a \in Words \ {p} : stack'[running][a] = stack[running][a]
      /\ stack'[running][0] = stack[running][0]
  BY <1>1, <1>3, PoppedWords DEF ContextInv, PopWord
<1>10. registers' \in [scratch : Computed, kept : Computed, psp : Depths] /\ registers'.psp = p + 1
  BY <1>1, <1>3, <1>7
<1>11. ContextTypeOK'
  BY <1>7, <1>8, <1>9, <1>10 DEF ContextInv, ContextTypeOK, LeftType
<1>12. WordsAreLeft(running)'
  <2>1. Tail(w) \in Seq(Stackable) /\ Len(Tail(w)) = Len(w) - 1
        /\ \A k \in 1 .. Len(w) - 1 : Tail(w)[k] = w[k + 1]
    BY <1>1, <1>6, HeadTailProperties
  <2>2. (p + 1) + Len(Tail(w)) = StackWords /\ Len(w) - 1 \in Nat
    BY <1>1, <1>4, <1>6, <2>1, EmptySeq, LenProperties
  <2>3. ASSUME NEW k \in 1 .. Len(w) - 1 PROVE stack'[running][(p + 1) + k - 1] = Tail(w)[k]
    <3>1. p + (Len(w) - 1) + 1 = StackWords
      BY <1>1, <1>4
    <3>2. /\ (p + 1) + k - 1 \in Words \ {p} /\ (p + 1) + k - 1 = p + (k + 1) - 1
          /\ k + 1 \in 1 .. (Len(w) - 1) + 1
      BY <1>1, <1>3, <2>2, <3>1, LowerWord
    <3>3. k + 1 \in 1 .. Len(w)
      BY <1>4, <3>2
    <3> QED
      BY <1>5, <1>9, <2>1, <3>2, <3>3
  <2> QED
    BY <1>7, <1>8, <1>10, <2>1, <2>2, <2>3 DEF WordsAreLeft
<1>13. Resumable'
  <2>1. ContextTypeOK /\ \A u \in Tasks : WordsAreLeft(u) /\ (u # running => Stored(u))
    BY DEF ContextInv, Resumable
  <2>2. \A u \in Tasks \ {running} : WordsAreLeft(u)' /\ Stored(u)'
    BY <1>1, <1>7, <1>8, <1>9, <2>1, OthersKeep
  <2> QED
    BY <1>1, <1>7, <1>8, <1>12, <2>2 DEF Resumable
<1>14. Guarded'
  <2>1. OverflowIsCaught'
    BY <1>1, <1>7 DEF OverflowIsCaught
  <2>2. \A u \in Tasks : MarkIsGone(u) => MarkIsGone(u)'
    BY <1>7, <1>9 DEF MarkIsGone
  <2>3. \A u \in Tasks : Depth(u)' <= 0 => Depth(u) <= 0
    BY <1>1, <1>7, <1>10 DEF Depth
  <2> QED
    BY <1>7, <2>1, <2>2, <2>3 DEF ContextInv, Guarded
<1>15. Living'
  BY <1>7 DEF ContextInv, Living
<1> QED
  BY <1>11, <1>13, <1>14, <1>15 DEF ContextInv

(* Any exception, of a process that goes on or one that exits.              *)
LEMMA EnterKeeps ==
    ASSUME ContextInv, EnterException \/ TriggerExit PROVE ContextInv'
<1>1. /\ mode = "thread" /\ mode' \in {"entered", "exiting"} /\ Grow(<<registers.scratch>>)
      /\ registers' = [registers EXCEPT !.psp = @ - 1, !.scratch = Clobbered]
      /\ stack_pointer' = stack_pointer /\ alive' = alive /\ running' = running
      /\ left' = left /\ skipped' = skipped
  BY DEF EnterException, TriggerExit, HardwareFrame
<1>2. /\ running \in Tasks /\ registers = left[running].registers /\ ContextTypeOK
      /\ registers \in [scratch : Computed, kept : Computed, psp : Depths]
      /\ registers.scratch \in Stackable /\ registers.psp \in Depths
  BY <1>1, ContextFacts DEF ContextInv, ContextTypeOK, Resumable
<1>3. /\ registers.psp - 1 \in Words /\ registers.psp \in Int
      /\ stack' \in [Tasks -> [Words -> Stackable]]
      /\ stack'[running] = [stack[running] EXCEPT ![registers.psp - 1] = registers.scratch]
      /\ \A u \in Tasks \ {running} : stack'[u] = stack[u]
  BY <1>1, <1>2, GrowWords, ContextFacts DEF Depths
<1>4. /\ stack'[running][registers.psp - 1] = registers.scratch
      /\ \A a \in Words \ {registers.psp - 1} : stack'[running][a] = stack[running][a]
  BY <1>2, <1>3 DEF ContextTypeOK
<1>5. /\ registers'.psp = registers.psp - 1 /\ registers'.kept = registers.kept
      /\ registers' \in [scratch : Computed \cup {Clobbered}, kept : Computed, psp : Depths]
  BY <1>1, <1>2, <1>3, ContextFacts
<1>6. ContextTypeOK'
  BY <1>1, <1>2, <1>3, <1>5 DEF ContextTypeOK
<1>7. WordsAreLeft(running)'
  <2>1. left[running].words \in Seq(Stackable) /\ Len(left[running].words) \in Nat
    BY <1>2, LenProperties DEF ContextTypeOK
  <2>2. registers.psp + Len(left[running].words) = StackWords
    BY <1>2 DEF ContextInv, Resumable, WordsAreLeft
  <2>3. \A k \in 1 .. Len(left[running].words) :
            stack[running][registers.psp + k - 1] = left[running].words[k]
    BY <1>2 DEF ContextInv, Resumable, WordsAreLeft
  <2>4. ASSUME NEW k \in 1 .. Len(left[running].words)
        PROVE  registers.psp + k - 1 \in Words \ {registers.psp - 1}
    <3>1. registers.psp - 1 >= -Below
      BY <1>3 DEF Words
    <3> QED
      BY <1>3, <2>1, <2>2, <3>1, WordAbove
  <2> QED
    BY <1>1, <1>2, <1>4, <2>2, <2>3, <2>4 DEF WordsAreLeft
<1>8. HalfStored'
  BY <1>1, <1>2, <1>3, <1>4, <1>5 DEF HalfStored
<1>9. Resumable'
  <2>1. \A u \in Tasks : WordsAreLeft(u) /\ (u # running => Stored(u))
    BY DEF ContextInv, Resumable
  <2>2. \A u \in Tasks \ {running} : WordsAreLeft(u)' /\ Stored(u)'
    BY <1>1, <1>2, <1>3, <2>1, OthersKeep
  <2> QED
    BY <1>1, <1>2, <1>7, <1>8, <2>2 DEF Resumable
<1>10. Guarded'
  <2>1. \A u \in Tasks \ {running} : Depth(u)' = Depth(u)
    BY <1>1 DEF Depth
  <2>2. Depth(running)' = registers.psp - 1
    BY <1>1, <1>5 DEF Depth
  <2>3. UNCHANGED <<running, skipped>>
    BY <1>1
  <2> QED
    BY <1>1, <1>2, <2>1, <2>2, <2>3, GrowGuards
<1>11. Living'
  BY <1>1 DEF ContextInv, Living
<1> QED
  BY <1>6, <1>9, <1>10, <1>11 DEF ContextInv

(* store_and_switch_to_next_task: the other half.                           *)
LEMMA StoreContextKeeps ==
    ASSUME ContextInv, StoreContext PROVE ContextInv'
<1> DEFINE p == registers.psp
<1>1. /\ mode = "entered" /\ mode' = "stored" /\ Grow(<<registers.kept>>)
      /\ stack_pointer' = [stack_pointer EXCEPT ![running] = registers.psp - 1]
      /\ registers' = registers /\ alive' = alive /\ running' = running
      /\ left' = left /\ skipped' = skipped
  BY DEF StoreContext, SoftwareFrame, UpdateStackPointer
<1>2. /\ running \in Tasks /\ ContextTypeOK /\ HalfStored
      /\ registers.kept \in Stackable /\ registers.kept \in Computed /\ p \in Depths
      /\ stack_pointer \in [Tasks -> Words] /\ stack \in [Tasks -> [Words -> Stackable]]
  BY <1>1, ContextFacts DEF ContextInv, ContextTypeOK, Resumable
<1>3. /\ p - 1 \in Words /\ p \in Int /\ p \in Words
      /\ stack' \in [Tasks -> [Words -> Stackable]]
      /\ stack'[running] = [stack[running] EXCEPT ![p - 1] = registers.kept]
      /\ \A u \in Tasks \ {running} : stack'[u] = stack[u]
  BY <1>1, <1>2, GrowWords, ContextFacts DEF Depths, HalfStored
<1>4. /\ stack'[running][p - 1] = registers.kept
      /\ \A a \in Words \ {p - 1} : stack'[running][a] = stack[running][a]
  BY <1>2, <1>3
<1>5. /\ stack_pointer' \in [Tasks -> Words] /\ stack_pointer'[running] = p - 1
      /\ \A u \in Tasks \ {running} : stack_pointer'[u] = stack_pointer[u]
  BY <1>1, <1>2, <1>3
<1>6. ContextTypeOK'
  BY <1>1, <1>2, <1>3, <1>5 DEF ContextTypeOK
<1>7. left[running].registers.psp = p + 1 /\ registers.kept = left[running].registers.kept
      /\ stack[running][p] = left[running].registers.scratch
  BY <1>2 DEF HalfStored
<1>8. WordsAreLeft(running)'
  <2>1. left[running].words \in Seq(Stackable) /\ Len(left[running].words) \in Nat
    BY <1>2, LenProperties DEF ContextTypeOK
  <2>2. /\ (p + 1) + Len(left[running].words) = StackWords
        /\ \A k \in 1 .. Len(left[running].words) :
            stack[running][(p + 1) + k - 1] = left[running].words[k]
    BY <1>2, <1>7 DEF ContextInv, Resumable, WordsAreLeft
  <2>3. ASSUME NEW k \in 1 .. Len(left[running].words)
        PROVE  (p + 1) + k - 1 \in Words \ {p - 1}
    <3>1. PICK n \in Nat : n = Len(left[running].words)
      BY <2>1
    <3>2. p \in Int /\ p >= -Below
      BY <1>3, ContextFacts DEF Words
    <3>3. Below \in Nat /\ StackWords \in Nat
      BY ContextFacts
    <3>4. (p + 1) + n = StackWords /\ k \in 1 .. n
      BY <2>2, <3>1
    <3>5. /\ p + 1 \in Int /\ (p + 1) - 1 >= -Below /\ (p + 1) + k - 1 # p - 1
          /\ p + (n + 1) = StackWords
      BY <3>2, <3>3, <3>4
    <3> QED
      BY <2>1, <2>2, <3>1, <3>5, WordAbove
  <2> QED
    BY <1>1, <1>4, <1>7, <2>2, <2>3 DEF WordsAreLeft
<1>9. Stored(running)'
  <2>1. p + 1 = (p - 1) + 2 /\ (p - 1) + 1 = p /\ p \in Words \ {p - 1}
    BY <1>3
  <2> QED
    BY <1>1, <1>4, <1>5, <1>7, <2>1 DEF Stored
<1>10. Resumable'
  <2>1. \A u \in Tasks : WordsAreLeft(u) /\ (u # running => Stored(u))
    BY DEF ContextInv, Resumable
  <2>2. \A u \in Tasks \ {running} : WordsAreLeft(u)' /\ Stored(u)'
    BY <1>1, <1>2, <1>3, <1>5, <2>1, OthersKeep
  <2> QED
    BY <1>1, <1>8, <1>9, <2>2 DEF Resumable
<1>11. Guarded'
  <2>1. \A u \in Tasks \ {running} : Depth(u)' = Depth(u)
    BY <1>1, <1>5 DEF Depth
  <2>2. Depth(running)' = p - 1
    BY <1>1, <1>5 DEF Depth
  <2>3. UNCHANGED <<running, skipped>>
    BY <1>1
  <2> QED
    BY <1>1, <1>2, <2>1, <2>2, <2>3, GrowGuards
<1>12. Living'
  BY <1>1 DEF ContextInv, Living
<1> QED
  BY <1>6, <1>10, <1>11, <1>12 DEF ContextInv

(* process_exit: the running process leaves a stack that is as good as new. *)
LEMMA ExitProcessKeeps ==
    ASSUME ContextInv, ExitProcess PROVE ContextInv'
<1>1. /\ mode = "exiting" /\ mode' = "exited"
      /\ outside' = outside \ {running} /\ skipped' = skipped \ {running}
      /\ stack' = [stack EXCEPT ![running] = NewStack(Entry)]
      /\ left' = [left EXCEPT ![running] = [registers |-> Fresh, words |-> <<>>]]
      /\ stack_pointer' = [stack_pointer EXCEPT ![running] = StackWords - 2]
      /\ running' = running /\ registers' = registers
  BY DEF ExitProcess
<1>2. Fresh = [scratch |-> Entry, kept |-> Entry, psp |-> StackWords]
  BY DEF Fresh
<1>3. <<>> \in Seq(Stackable) /\ Len(<<>>) = 0
  BY EmptySeq
<1>4. /\ NewStack(Entry) \in [Words -> Stackable]
      /\ NewStack(Entry)[StackWords - 2] = Entry /\ NewStack(Entry)[StackWords - 1] = Entry
  BY ContextFacts, NewStackWords
<1>5. ContextTypeOK'
  BY <1>1, <1>2, <1>3, <1>4, ContextFacts DEF ContextInv, ContextTypeOK
<1>6. /\ running \in Tasks
      /\ \A u \in Tasks \ {running} : stack'[u] = stack[u] /\ left'[u] = left[u]
                                      /\ stack_pointer'[u] = stack_pointer[u]
  BY <1>1 DEF ContextInv, ContextTypeOK
<1>7. /\ stack'[running] = NewStack(Entry) /\ stack_pointer'[running] = StackWords - 2
      /\ left'[running].registers = Fresh /\ left'[running].words = <<>>
  BY <1>1 DEF ContextInv, ContextTypeOK
<1>8. Stored(running)' /\ WordsAreLeft(running)'
  <2>1. StackWords = (StackWords - 2) + 2 /\ (StackWords - 2) + 1 = StackWords - 1
        /\ StackWords + 0 = StackWords
    BY ContextFacts
  <2> QED
    BY <1>1, <1>2, <1>3, <1>4, <1>7, <2>1 DEF Stored, WordsAreLeft
<1>9. Resumable'
  <2>1. ContextTypeOK /\ \A u \in Tasks : WordsAreLeft(u) /\ (u # running => Stored(u))
    BY DEF ContextInv, Resumable
  <2>2. \A u \in Tasks \ {running} : WordsAreLeft(u)' /\ Stored(u)'
    BY <1>6, <2>1, OthersKeep
  <2> QED
    BY <1>1, <1>8, <2>2 DEF Resumable
<1>10. Guarded'
  <2>1. OverflowIsCaught'
    BY <1>1 DEF OverflowIsCaught
  <2>2. ASSUME NEW u \in Tasks \ {running}, Depth(u)' <= 0 \/ u \in outside'
        PROVE  MarkIsGone(u)'
    <3>1. Depth(u)' = Depth(u) /\ (u \in outside' <=> u \in outside)
          /\ (u \in skipped' <=> u \in skipped)
      BY <1>1, <1>6 DEF Depth
    <3>2. MarkIsGone(u)
      BY <2>2, <3>1 DEF ContextInv, Guarded
    <3> QED
      BY <1>6, <3>1, <3>2 DEF MarkIsGone
  <2>3. ~(Depth(running)' <= 0) /\ running \notin outside'
    BY <1>1, <1>7, ContextFacts DEF Depth
  <2> QED
    BY <1>1, <2>1, <2>2, <2>3 DEF Guarded
<1>11. Living'
  BY <1>1 DEF Living
<1> QED
  BY <1>5, <1>9, <1>10, <1>11 DEF ContextInv

(* switch_to_next_task.                                                     *)
LEMMA RestoreContextKeeps ==
    ASSUME ContextInv, NEW t \in Tasks, RestoreContext(t) PROVE ContextInv'
<1> DEFINE sp == CurrentStackPointer(t)
<1>1. /\ mode \in {"stored", "exited"} /\ t \in alive /\ running' = t
      /\ stack_pointer' = stack_pointer /\ alive' = alive /\ left' = left
      /\ outside' = outside /\ skipped' = skipped
  BY DEF RestoreContext
<1>2. /\ ContextTypeOK /\ \A u \in Tasks : WordsAreLeft(u) /\ Stored(u)
  BY <1>1 DEF ContextInv, Resumable
<1>3. CASE sp \in Words
  <2>1. /\ registers' = [registers EXCEPT !.kept = stack[t][sp], !.psp = sp + 1]
        /\ Popped(t, sp) /\ mode' = "restored"
    BY <1>3 DEF RestoreContext
  <2>2. sp = stack_pointer[t] /\ stack[t][0] = Mark
    <3>1. ~(-Below - 1 \in Words)
      BY ContextFacts DEF Words
    <3> QED
      BY <1>3, <3>1 DEF CurrentStackPointer, ValidateStack
  <2> HIDE DEF sp
  <2>3. /\ left[t].registers.psp = sp + 2 /\ stack[t][sp] = left[t].registers.kept
        /\ stack[t][sp + 1] = left[t].registers.scratch
    BY <1>2, <2>2 DEF Stored
  <2>4. /\ stack' \in [Tasks -> [Words -> Stackable]]
        /\ \A u \in Tasks \ {t} : stack'[u] = stack[u]
        /\ \A a \in Words \ {sp} : stack'[t][a] = stack[t][a]
        /\ stack'[t][0] = stack[t][0]
    BY <1>2, <1>3, <2>1, PoppedWords
  <2>5. /\ sp \in Int /\ sp + 2 \in Depths /\ sp + 2 \in Int /\ left[t].registers.kept \in Computed
        /\ left[t].words \in Seq(Stackable)
    BY <1>2, <1>3, <2>3, ContextFacts DEF ContextTypeOK
  <2>6. sp + 1 \in Words
    BY <1>3, <2>5, ContextFacts DEF Words, Depths
  <2>7. /\ registers'.psp = sp + 1 /\ registers'.kept = left[t].registers.kept
        /\ registers' \in [scratch : Computed \cup {Clobbered}, kept : Computed, psp : Depths]
    BY <1>2, <2>1, <2>3, <2>5, <2>6, ContextFacts DEF ContextTypeOK
  <2>8. ContextTypeOK'
    BY <1>1, <1>2, <2>1, <2>4, <2>7 DEF ContextTypeOK
  <2>9. WordsAreLeft(t)'
    <3>1. /\ (sp + 2) + Len(left[t].words) = StackWords /\ Len(left[t].words) \in Nat
          /\ \A k \in 1 .. Len(left[t].words) : stack[t][(sp + 2) + k - 1] = left[t].words[k]
      BY <1>2, <2>3, <2>5, LenProperties DEF WordsAreLeft
    <3>2. ASSUME NEW k \in 1 .. Len(left[t].words) PROVE (sp + 2) + k - 1 \in Words \ {sp}
      <4>1. /\ (sp + 2) - 1 >= -Below /\ (sp + 2) + k - 1 # sp
        BY <1>3, <2>5, <3>1, ContextFacts DEF Words
      <4> QED
        BY <2>5, <3>1, <4>1, WordAbove
    <3> QED
      BY <1>1, <2>3, <2>4, <3>1, <3>2 DEF WordsAreLeft
  <2>10. HalfStored'
    <3>1. sp + 2 = (sp + 1) + 1 /\ sp + 1 \in Words \ {sp}
      BY <2>5, <2>6
    <3> QED
      BY <1>1, <2>3, <2>4, <2>6, <2>7, <3>1 DEF HalfStored
  <2>11. Resumable'
    <3>1. \A u \in Tasks \ {t} : WordsAreLeft(u)' /\ Stored(u)'
      BY <1>1, <1>2, <2>4, OthersKeep
    <3> QED
      BY <1>1, <2>1, <2>9, <2>10, <3>1 DEF Resumable
  <2>0a. ~(t \in outside /\ t \notin skipped)
    BY <2>2 DEF ContextInv, Guarded, MarkIsGone
  <2>13. Guarded'
    <3>1. OverflowIsCaught'
      BY <1>1, <2>0a DEF OverflowIsCaught
    <3>2. \A u \in Tasks : MarkIsGone(u) => MarkIsGone(u)'
      BY <1>1, <2>4 DEF MarkIsGone
    <3>3. \A u \in Tasks \ {t} : Depth(u)' = Depth(u)
      BY <1>1, <2>1 DEF Depth
    <3>4. Depth(t) = sp /\ registers'.psp = sp + 1
      BY <1>1, <2>2, <2>7 DEF Depth
    <3>5. \A u \in Tasks : Depth(u)' <= 0 => Depth(u) <= 0
      <4>1. ASSUME Depth(t)' <= 0 PROVE Depth(t) <= 0
        BY <1>1, <2>1, <2>5, <3>4, <4>1 DEF Depth
      <4> QED
        BY <3>3, <4>1
    <3> QED
      BY <1>1, <3>1, <3>2, <3>5 DEF ContextInv, Guarded
  <2>14. Living'
    BY <1>1 DEF Living
  <2> QED
    BY <2>8, <2>11, <2>13, <2>14 DEF ContextInv
<1>4. CASE sp \notin Words
  <2>1. mode' = "lost" /\ registers' = registers /\ stack' = stack
    BY <1>4 DEF RestoreContext
  <2>2. ContextTypeOK'
    BY <1>1, <1>2, <2>1 DEF ContextTypeOK
  <2>3. Resumable'
    <3>1. \A u \in Tasks : WordsAreLeft(u)' /\ Stored(u)'
      BY <1>1, <1>2, <2>1 DEF WordsAreLeft, Stored
    <3> QED
      BY <2>1, <3>1 DEF Resumable
  <2>4. Guarded'
    <3>1. \A u \in Tasks : Depth(u)' = Depth(u)
      BY <1>1, <2>1 DEF Depth
    <3> QED
      BY <1>1, <2>1, <3>1 DEF ContextInv, Guarded, MarkIsGone, OverflowIsCaught
  <2>5. Living'
    BY <1>1 DEF Living
  <2> QED
    BY <2>2, <2>3, <2>4, <2>5 DEF ContextInv
<1> QED
  BY <1>3, <1>4

LEMMA ReturnKeeps ==
    ASSUME ContextInv, ReturnFromException PROVE ContextInv'
<1> DEFINE p == registers.psp
<1>1. /\ mode \in {"entered", "restored"} /\ mode' = "thread" /\ Popped(running, p)
      /\ registers' = [registers EXCEPT !.scratch = stack[running][p], !.psp = @ + 1]
      /\ stack_pointer' = stack_pointer /\ alive' = alive /\ running' = running /\ left' = left
      /\ outside' = outside /\ skipped' = skipped
  BY DEF ReturnFromException
<1>2. /\ ContextTypeOK /\ running \in Tasks /\ p \in Words /\ p \in Int
      /\ registers \in [scratch : Computed \cup {Clobbered}, kept : Computed, psp : Depths]
      /\ left[running].registers \in [scratch : Computed, kept : Computed, psp : Depths]
      /\ left[running].registers.psp = p + 1
      /\ registers.kept = left[running].registers.kept
      /\ stack[running][p] = left[running].registers.scratch
  BY <1>1, ContextFacts DEF ContextInv, ContextTypeOK, Resumable, HalfStored
<1>3. registers' = left[running].registers
  <2>1. registers' = [scratch |-> stack[running][p], kept |-> registers.kept, psp |-> p + 1]
    BY <1>1, <1>2
  <2>2. left[running].registers = [scratch |-> left[running].registers.scratch,
                                   kept |-> left[running].registers.kept,
                                   psp |-> left[running].registers.psp]
    BY <1>2
  <2> QED
    BY <2>1, <2>2, <1>2
<1>4. /\ stack' \in [Tasks -> [Words -> Stackable]]
      /\ \A u \in Tasks \ {running} : stack'[u] = stack[u]
      /\ \A a \in Words \ {p} : stack'[running][a] = stack[running][a]
      /\ stack'[running][0] = stack[running][0]
  BY <1>1, <1>2, PoppedWords
<1>5. ContextTypeOK'
  BY <1>1, <1>2, <1>3, <1>4 DEF ContextTypeOK
<1>6. WordsAreLeft(running)'
  <2>1. left[running].words \in Seq(Stackable) /\ Len(left[running].words) \in Nat
    BY <1>2, LenProperties DEF ContextTypeOK
  <2>2. /\ (p + 1) + Len(left[running].words) = StackWords
        /\ \A k \in 1 .. Len(left[running].words) :
            stack[running][(p + 1) + k - 1] = left[running].words[k]
    BY <1>2 DEF ContextInv, Resumable, WordsAreLeft
  <2>3. ASSUME NEW k \in 1 .. Len(left[running].words) PROVE (p + 1) + k - 1 \in Words \ {p}
    <3>1. p >= -Below
      BY <1>2, ContextFacts DEF Words
    <3>2. (p + 1) + Len(left[running].words) = StackWords
      BY <2>2
    <3>3. p \in Int /\ Len(left[running].words) \in Int
      BY <1>2, <2>1
    <3>4. p + Len(left[running].words) + 1 = StackWords
      BY <3>2, <3>3
    <3> QED
      BY <2>1, <3>1, <3>3, <3>4, LowerWord
  <2> QED
    BY <1>1, <1>2, <1>4, <2>2, <2>3 DEF WordsAreLeft
<1>7. Resumable'
  <2>1. \A u \in Tasks : WordsAreLeft(u) /\ (u # running => Stored(u))
    BY DEF ContextInv, Resumable
  <2>2. \A u \in Tasks \ {running} : WordsAreLeft(u)' /\ Stored(u)'
    BY <1>1, <1>2, <1>4, <2>1, OthersKeep
  <2> QED
    BY <1>1, <1>3, <1>6, <2>2 DEF Resumable
<1>8. Guarded'
  <2>1. OverflowIsCaught'
    BY <1>1 DEF OverflowIsCaught
  <2>2. \A u \in Tasks : MarkIsGone(u) => MarkIsGone(u)'
    BY <1>1, <1>4 DEF MarkIsGone
  <2>3. \A u \in Tasks : Depth(u)' <= 0 => Depth(u) <= 0
    BY <1>1, <1>2, <1>3 DEF Depth
  <2> QED
    BY <1>1, <2>1, <2>2, <2>3 DEF ContextInv, Guarded
<1>9. Living'
  BY <1>1 DEF ContextInv, Living
<1> QED
  BY <1>5, <1>7, <1>8, <1>9 DEF ContextInv

LEMMA ContextsStart ==
    ASSUME ContextsInit PROVE ContextInv
<1>1. /\ stack = [t \in Tasks |-> NewStack(Entry)]
      /\ stack_pointer = [t \in Tasks |-> StackWords - 2]
      /\ running \in Tasks /\ alive = {running} /\ registers = Fresh /\ mode = "thread"
      /\ left = [t \in Tasks |-> [registers |-> Fresh, words |-> <<>>]]
      /\ outside = {}
  BY DEF ContextsInit
<1>2. Fresh = [scratch |-> Entry, kept |-> Entry, psp |-> StackWords]
  BY DEF Fresh
<1>3. <<>> \in Seq(Stackable) /\ Len(<<>>) = 0
  BY EmptySeq
<1>4. /\ NewStack(Entry) \in [Words -> Stackable]
      /\ NewStack(Entry)[StackWords - 2] = Entry /\ NewStack(Entry)[StackWords - 1] = Entry
  BY ContextFacts, NewStackWords
<1>5. ContextTypeOK
  BY <1>1, <1>2, <1>3, <1>4, ContextFacts DEF ContextTypeOK
<1>6. \A t \in Tasks : WordsAreLeft(t) /\ Stored(t)
  <2>1. StackWords = (StackWords - 2) + 2 /\ (StackWords - 2) + 1 = StackWords - 1
        /\ StackWords + 0 = StackWords
    BY ContextFacts
  <2> QED
    BY <1>1, <1>2, <1>3, <1>4, <2>1 DEF Stored, WordsAreLeft
<1>7. Resumable
  BY <1>1, <1>6 DEF Resumable
<1>8. Guarded
  BY <1>1, <1>2, ContextFacts DEF Guarded, Depth, OverflowIsCaught
<1>9. Living
  BY <1>1 DEF Living
<1> QED
  BY <1>5, <1>7, <1>8, <1>9 DEF ContextInv

LEMMA ContextsKept ==
    ASSUME ContextInv, ContextsNext \/ UNCHANGED contextVars PROVE ContextInv'
<1>1. CASE UNCHANGED contextVars
  <2>1. /\ stack' = stack /\ stack_pointer' = stack_pointer /\ alive' = alive
        /\ running' = running /\ registers' = registers /\ mode' = mode /\ left' = left
        /\ outside' = outside /\ skipped' = skipped
    BY <1>1 DEF contextVars
  <2>2. ContextTypeOK' /\ Living'
    BY <2>1 DEF ContextInv, ContextTypeOK, Living
  <2>3. Resumable'
    BY <2>1 DEF ContextInv, Resumable, WordsAreLeft, Stored, HalfStored
  <2>4. Guarded'
    BY <2>1 DEF ContextInv, Guarded, OverflowIsCaught, MarkIsGone, Depth
  <2> QED
    BY <2>2, <2>3, <2>4 DEF ContextInv
<1> QED
  BY <1>1, CreateKeeps, ComputeKeeps, PushWordKeeps, ReserveKeeps, PopWordKeeps, EnterKeeps,
     StoreContextKeeps, ExitProcessKeeps, RestoreContextKeeps, ReturnKeeps
  DEF ContextsNext, ExitHandler

LEMMA ContextsResume ==
    ASSUME ContextInv PROVE ResumesOwnRegisters /\ OverflowIsCaught
<1> SUFFICES ASSUME mode = "thread"
             PROVE  /\ registers = left[running].registers
                    /\ \A k \in DOMAIN left[running].words :
                            stack[running][registers.psp + k - 1] = left[running].words[k]
  BY DEF ResumesOwnRegisters, ContextInv, Guarded
<1>1. running \in Tasks /\ left[running].words \in Seq(Stackable)
      /\ registers = left[running].registers
  BY DEF ContextInv, ContextTypeOK, Resumable
<1>2. DOMAIN left[running].words = 1 .. Len(left[running].words)
  BY <1>1, LenProperties
<1> QED
  BY <1>1, <1>2 DEF ContextInv, Resumable, WordsAreLeft

(* However often and to whomever PendSV switches, and whoever is created or *)
(* exits in between, a process goes on with the registers and the words on  *)
(* its stack that it left (context_switch.s, arm_process.cpp).              *)
THEOREM ContextsAreOwn == PartsSpec => []ResumesOwnRegisters
<1>1. PartsInit => ContextInv
  BY ContextsStart DEF PartsInit
<1>2. ContextInv /\ [PartsNext]_partsVars => ContextInv'
  BY ContextsKept DEF PartsNext, partsVars
<1> QED
  BY <1>1, <1>2, ContextsResume, PTL DEF PartsSpec

(* A process that has written below its stack never gets its registers      *)
(* back, unless it stepped over the mark (ArmProcess::validate_stack).      *)
THEOREM OverflowsAreCaught == PartsSpec => []OverflowIsCaught
<1>1. PartsInit => ContextInv
  BY ContextsStart DEF PartsInit
<1>2. ContextInv /\ [PartsNext]_partsVars => ContextInv'
  BY ContextsKept DEF PartsNext, partsVars
<1> QED
  BY <1>1, <1>2, ContextsResume, PTL DEF PartsSpec

-----------------------------------------------------------------------------
(* The heap.                                                                *)

CallsInSbrk == [step : {"bounded", "taken"}, increment : Nat, end : Nat]

HeapTypeOK ==
    /\ heapEnd \in Nat
    /\ sbrk \in [Callers -> {NoCall} \union CallsInSbrk]
    /\ regions \in Seq([from : Nat, to : Nat, own : BOOLEAN])

(* A call that no other one ran into is the only one, and what it has read  *)
(* of the end still holds.                                                  *)
CallsAlone ==
    \A c \in InCall \ crossed :
        /\ InCall = {c} /\ sbrk[c].end = heapEnd
        /\ heapEnd + sbrk[c].increment <= HeapSize

(* No end that is still in use is below what such a call was given.         *)
OwnIsBelow ==
    \A i \in DOMAIN regions : regions[i].own =>
        /\ regions[i].to <= HeapSize /\ regions[i].to <= heapEnd
        /\ \A c \in InCall : regions[i].to <= sbrk[c].end

OwnIsApart ==
    \A i, k \in DOMAIN regions : i # k /\ regions[i].own /\ regions[k].own =>
        Apart(regions[i], regions[k])

HeapInv == HeapTypeOK /\ CallsAlone /\ OwnIsBelow /\ OwnIsApart

LEMMA HeapConstants == HeapSize \in Nat /\ \A n \in Increments : n \in Nat
  BY HeapAssumption DEF HeapAssumption

LEMMA CallerKinds ==
    ASSUME HeapTypeOK, NEW c \in Callers
    PROVE  /\ c \in InCall <=> sbrk[c] \in CallsInSbrk
           /\ c \in InCall => sbrk[c].end \in Nat /\ sbrk[c].increment \in Nat
           /\ sbrk[c].step \in {"bounded", "taken"} => c \in InCall
  BY DEF HeapTypeOK, InCall, CallsInSbrk, NoCall

LEMMA RegionFacts ==
    ASSUME HeapTypeOK, NEW i \in DOMAIN regions
    PROVE  regions[i].from \in Nat /\ regions[i].to \in Nat /\ regions[i].own \in BOOLEAN
  <1> DEFINE R == [from : Nat, to : Nat, own : BOOLEAN]
  <1>1. regions \in Seq(R)
    BY DEF HeapTypeOK
  <1>2. regions[i] \in R
    <2> HIDE DEF R
    <2> QED
      BY <1>1
  <1> QED
    BY <1>2

(* A call takes an end.                                                     *)
LEMMA TakenCall ==
    ASSUME NEW s \in CallsInSbrk, NEW end \in Nat
    PROVE  /\ [s EXCEPT !.step = "taken", !.end = end] \in CallsInSbrk
           /\ [s EXCEPT !.step = "taken", !.end = end].end = end
           /\ [s EXCEPT !.step = "taken", !.end = end].increment = s.increment
  BY DEF CallsInSbrk

LEMMA CheckBoundKeeps ==
    ASSUME HeapInv, NEW c \in Callers, CheckBound(c)
    PROVE  HeapInv'
  <1>0. HeapTypeOK /\ CallsAlone /\ OwnIsBelow /\ OwnIsApart
    BY DEF HeapInv
  <1>1. /\ heapEnd' = heapEnd /\ regions' = regions
        /\ c \notin InCall
        /\ crossed' = IF InCall = {} THEN crossed \ {c} ELSE crossed \union InCall \union {c}
    BY DEF CheckBound, InCall
  <1>2. heapEnd \in Nat /\ HeapSize \in Nat
    BY <1>0, HeapConstants DEF HeapTypeOK
  <1>3. OwnIsApart'
    BY <1>0, <1>1 DEF OwnIsApart
  <1>4. CASE sbrk' = sbrk
    <2>1. InCall' = InCall
      BY <1>4 DEF InCall
    <2>2. HeapTypeOK'
      BY <1>0, <1>1, <1>4 DEF HeapTypeOK
    <2>3. CallsAlone'
      BY <1>0, <1>1, <1>4, <2>1 DEF CallsAlone
    <2>4. OwnIsBelow'
      BY <1>0, <1>1, <1>4, <2>1 DEF OwnIsBelow
    <2> QED
      BY <1>3, <2>2, <2>3, <2>4 DEF HeapInv
  <1>5. CASE sbrk' # sbrk
    <2>1. PICK n \in Increments :
            /\ heapEnd + n <= HeapSize
            /\ sbrk' = [sbrk EXCEPT ![c] = [step |-> "bounded", increment |-> n, end |-> heapEnd]]
      <3>1. \E n \in Increments :
              sbrk' = IF heapEnd + n > HeapSize THEN sbrk
                      ELSE [sbrk EXCEPT ![c] = [step |-> "bounded", increment |-> n, end |-> heapEnd]]
        BY DEF CheckBound
      <3> QED
        BY <3>1, <1>2, <1>5, HeapConstants
    <2>2. n \in Nat
      BY HeapConstants
    <2>3. [step |-> "bounded", increment |-> n, end |-> heapEnd] \in CallsInSbrk
      BY <2>2, <1>2 DEF CallsInSbrk
    <2>4. HeapTypeOK'
      BY <1>0, <1>1, <2>1, <2>3 DEF HeapTypeOK
    <2>5. \A d \in Callers \ {c} : sbrk'[d] = sbrk[d]
      BY <1>0, <2>1 DEF HeapTypeOK
    <2>6. sbrk'[c] = [step |-> "bounded", increment |-> n, end |-> heapEnd]
      BY <1>0, <2>1 DEF HeapTypeOK
    <2>7. InCall' = InCall \union {c}
      BY <2>5, <2>6 DEF InCall, NoCall
    <2>8. CallsAlone'
      <3>1. CASE InCall = {}
        BY <3>1, <1>1, <1>2, <2>1, <2>6, <2>7 DEF CallsAlone
      <3>2. CASE InCall # {}
        BY <3>2, <1>1, <2>7 DEF CallsAlone
      <3> QED
        BY <3>1, <3>2
    <2>9. OwnIsBelow'
      <3> SUFFICES ASSUME NEW i \in DOMAIN regions, regions[i].own
                   PROVE  /\ regions[i].to <= HeapSize /\ regions[i].to <= heapEnd
                          /\ \A d \in InCall' : regions[i].to <= sbrk'[d].end
        BY <1>1 DEF OwnIsBelow
      <3>1. /\ regions[i].to <= HeapSize /\ regions[i].to <= heapEnd
            /\ \A d \in InCall : regions[i].to <= sbrk[d].end
        BY <1>0 DEF OwnIsBelow
      <3>2. \A d \in InCall : d \in Callers \ {c}
        BY <1>1 DEF InCall
      <3> QED
        BY <3>1, <3>2, <2>5, <2>6, <2>7
    <2> QED
      BY <1>3, <2>4, <2>8, <2>9 DEF HeapInv
  <1> QED
    BY <1>4, <1>5

LEMMA TakeEndKeeps ==
    ASSUME HeapInv, NEW c \in Callers, TakeEnd(c)
    PROVE  HeapInv'
  <1>0. HeapTypeOK /\ CallsAlone /\ OwnIsBelow /\ OwnIsApart
    BY DEF HeapInv
  <1>1. /\ heapEnd' = heapEnd /\ regions' = regions
        /\ crossed' = crossed
    BY DEF TakeEnd
  <1>2. heapEnd \in Nat /\ HeapSize \in Nat
    BY <1>0, HeapConstants DEF HeapTypeOK
  <1>3. OwnIsApart'
    BY <1>0, <1>1 DEF OwnIsApart
  <1>4. c \in InCall /\ sbrk[c] \in CallsInSbrk
    BY <1>0, CallerKinds DEF TakeEnd
  <1>5. PICK previous \in {sbrk[c].end, heapEnd} :
            sbrk' = [sbrk EXCEPT ![c] = [sbrk[c] EXCEPT !.step = "taken", !.end = previous]]
    BY DEF TakeEnd
  <1>6. previous \in Nat
    BY <1>0, <1>2, <1>4, CallerKinds
  <1>7. PICK moved \in CallsInSbrk :
            /\ moved = [sbrk[c] EXCEPT !.step = "taken", !.end = previous]
            /\ moved.end = previous /\ moved.increment = sbrk[c].increment
    BY <1>4, <1>6, TakenCall
  <1>8. sbrk' = [sbrk EXCEPT ![c] = moved]
    BY <1>5, <1>7
  <1>9. HeapTypeOK'
    BY <1>0, <1>1, <1>8 DEF HeapTypeOK
  <1>10. sbrk'[c] = moved /\ \A d \in Callers \ {c} : sbrk'[d] = sbrk[d]
    BY <1>0, <1>8 DEF HeapTypeOK
  <1>11. InCall' = InCall
    BY <1>4, <1>9, <1>10, moved \in CallsInSbrk DEF InCall, CallsInSbrk, NoCall
  <1>12. CallsAlone'
    <2> SUFFICES ASSUME NEW d \in InCall \ crossed
                 PROVE  /\ InCall = {d} /\ sbrk'[d].end = heapEnd
                        /\ heapEnd + sbrk'[d].increment <= HeapSize
      BY <1>1, <1>11 DEF CallsAlone
    <2>1. /\ InCall = {d} /\ sbrk[d].end = heapEnd
          /\ heapEnd + sbrk[d].increment <= HeapSize
      BY <1>0 DEF CallsAlone
    <2>2. d = c
      BY <2>1, <1>4
    <2> QED
      BY <2>1, <2>2, <1>5, <1>7, <1>10
  <1>13. OwnIsBelow'
    <2> SUFFICES ASSUME NEW i \in DOMAIN regions, regions[i].own
                 PROVE  /\ regions[i].to <= HeapSize /\ regions[i].to <= heapEnd
                        /\ \A d \in InCall : regions[i].to <= sbrk'[d].end
      BY <1>1, <1>11 DEF OwnIsBelow
    <2>1. /\ regions[i].to <= HeapSize /\ regions[i].to <= heapEnd
          /\ \A d \in InCall : regions[i].to <= sbrk[d].end
      BY <1>0 DEF OwnIsBelow
    <2>2. \A d \in InCall : d \in Callers
      BY DEF InCall
    <2> QED
      BY <2>1, <2>2, <1>4, <1>5, <1>7, <1>10
  <1> QED
    BY <1>3, <1>9, <1>12, <1>13 DEF HeapInv

LEMMA MoveEndKeeps ==
    ASSUME HeapInv, NEW c \in Callers, MoveEnd(c)
    PROVE  HeapInv'
  <1>0. HeapTypeOK /\ CallsAlone /\ OwnIsBelow /\ OwnIsApart
    BY DEF HeapInv
  <1>1. crossed' = crossed
    BY DEF MoveEnd
  <1>2. heapEnd \in Nat /\ HeapSize \in Nat
    BY <1>0, HeapConstants DEF HeapTypeOK
  <1>4. c \in InCall
    BY <1>0, CallerKinds DEF MoveEnd
  <1> DEFINE region == [from |-> sbrk[c].end, to |-> sbrk[c].end + sbrk[c].increment,
                        own |-> c \notin crossed]
  <1>5. sbrk[c].end \in Nat /\ sbrk[c].increment \in Nat
    BY <1>0, <1>4, CallerKinds
  <1>6. sbrk[c].end + sbrk[c].increment \in Nat /\ heapEnd + sbrk[c].increment \in Nat
    BY <1>2, <1>5
  <1>7. region \in [from : Nat, to : Nat, own : BOOLEAN]
    BY <1>5, <1>6
  <1>8. /\ region.from = sbrk[c].end /\ region.to = sbrk[c].end + sbrk[c].increment
        /\ region.own <=> c \notin crossed
    OBVIOUS
  <1>9. /\ regions' = Append(regions, region)
        /\ sbrk' = [sbrk EXCEPT ![c] = NoCall]
        /\ heapEnd' = sbrk[c].end + sbrk[c].increment \/ heapEnd' = heapEnd + sbrk[c].increment
    BY DEF MoveEnd
  <1> HIDE DEF region
  <1>10. regions \in Seq([from : Nat, to : Nat, own : BOOLEAN])
    BY <1>0 DEF HeapTypeOK
  <1>11. /\ regions' \in Seq([from : Nat, to : Nat, own : BOOLEAN])
         /\ Len(regions) \in Nat /\ DOMAIN regions = 1 .. Len(regions)
         /\ DOMAIN regions' = 1 .. Len(regions) + 1
         /\ regions'[Len(regions) + 1] = region
         /\ \A i \in DOMAIN regions : regions'[i] = regions[i]
    BY <1>7, <1>9, <1>10
  <1>12. HeapTypeOK'
    BY <1>0, <1>6, <1>9, <1>11 DEF HeapTypeOK
  <1>13. sbrk'[c] = NoCall /\ \A d \in Callers \ {c} : sbrk'[d] = sbrk[d]
    BY <1>0, <1>9 DEF HeapTypeOK
  <1>14. InCall' = InCall \ {c}
    BY <1>13 DEF InCall
  <1>15. CallsAlone'
    <2> SUFFICES ASSUME NEW d \in InCall' \ crossed' PROVE FALSE
      BY DEF CallsAlone
    <2>1. InCall = {d} /\ d # c
      BY <1>0, <1>1, <1>14 DEF CallsAlone
    <2> QED
      BY <2>1, <1>4
  <1>16. \A i \in DOMAIN regions : regions[i].own =>
            /\ regions[i].to \in Nat
            /\ regions[i].to <= HeapSize /\ regions[i].to <= heapEnd
            /\ \A d \in InCall : regions[i].to <= sbrk[d].end
    BY <1>0, RegionFacts DEF OwnIsBelow
  <1>17. c \notin crossed =>
            /\ InCall = {c} /\ region.from = heapEnd
            /\ region.to = heapEnd + sbrk[c].increment /\ region.to <= HeapSize
            /\ region.to = heapEnd'
    BY <1>0, <1>4, <1>8, <1>9 DEF CallsAlone
  <1>18. OwnIsBelow'
    <2> SUFFICES ASSUME NEW i \in DOMAIN regions', regions'[i].own
                 PROVE  /\ regions'[i].to <= HeapSize /\ regions'[i].to <= heapEnd'
                        /\ \A d \in InCall' : regions'[i].to <= sbrk'[d].end
      BY DEF OwnIsBelow
    <2>1. CASE i \in DOMAIN regions
      <3>1. regions'[i] = regions[i] /\ regions[i].own
        BY <2>1, <1>11
      <3>2. /\ regions[i].to \in Nat
            /\ regions[i].to <= HeapSize /\ regions[i].to <= heapEnd
            /\ \A d \in InCall : regions[i].to <= sbrk[d].end
        BY <2>1, <3>1, <1>16
      <3>3. regions[i].to <= heapEnd'
        <4>1. PICK x, n \in Nat : x = sbrk[c].end /\ n = sbrk[c].increment
          BY <1>5
        <4>2. PICK t \in Nat : t = regions[i].to /\ t <= heapEnd /\ t <= x
          BY <1>4, <3>2, <4>1
        <4>3. t <= x + n /\ t <= heapEnd + n
          BY <1>2, <4>2
        <4> QED
          BY <1>9, <4>1, <4>2, <4>3
      <3>4. \A d \in InCall' : d \in InCall /\ sbrk'[d] = sbrk[d]
        BY <1>13, <1>14 DEF InCall
      <3> QED
        BY <3>1, <3>2, <3>3, <3>4
    <2>2. CASE i = Len(regions) + 1
      <3>1. regions'[i] = region /\ c \notin crossed
        BY <2>2, <1>8, <1>11
      <3>2. region.to <= HeapSize /\ region.to = heapEnd' /\ InCall' = {}
        BY <3>1, <1>14, <1>17
      <3> QED
        BY <3>1, <3>2, <1>12 DEF HeapTypeOK
    <2> QED
      BY <2>1, <2>2, <1>11
  <1>19. OwnIsApart'
    <2>1. \A i \in DOMAIN regions : regions[i].own /\ region.own =>
            Apart(regions[i], region) /\ Apart(region, regions[i])
      BY <1>8, <1>16, <1>17 DEF Apart
    <2> SUFFICES ASSUME NEW i \in DOMAIN regions', NEW k \in DOMAIN regions', i # k,
                        regions'[i].own, regions'[k].own
                 PROVE  Apart(regions'[i], regions'[k])
      BY DEF OwnIsApart
    <2>2. CASE i \in DOMAIN regions /\ k \in DOMAIN regions
      BY <2>2, <1>0, <1>11 DEF OwnIsApart
    <2>3. CASE i \in DOMAIN regions /\ k = Len(regions) + 1
      BY <2>1, <2>3, <1>11
    <2>4. CASE i = Len(regions) + 1 /\ k \in DOMAIN regions
      BY <2>1, <2>4, <1>11
    <2> QED
      BY <2>2, <2>3, <2>4, <1>11
  <1> QED
    BY <1>12, <1>15, <1>18, <1>19 DEF HeapInv

(* What the other parts leave alone.                                        *)
LEMMA SbrkSame ==
    ASSUME HeapInv, heapEnd' = heapEnd, sbrk' = sbrk, regions' = regions, crossed' = crossed
    PROVE  HeapInv'
  <1>1. InCall' = InCall
    BY DEF InCall
  <1>2. HeapTypeOK'
    BY DEF HeapInv, HeapTypeOK
  <1>3. CallsAlone'
    BY <1>1 DEF HeapInv, CallsAlone
  <1>4. OwnIsBelow'
    BY <1>1 DEF HeapInv, OwnIsBelow
  <1>5. OwnIsApart'
    BY DEF HeapInv, OwnIsApart
  <1> QED
    BY <1>2, <1>3, <1>4, <1>5 DEF HeapInv

LEMMA HeapStart ==
    ASSUME HeapInit
    PROVE  HeapInv
  <1>1. /\ heapEnd = 0 /\ sbrk = [c \in Callers |-> NoCall]
        /\ regions = <<>> /\ crossed = {}
    BY DEF HeapInit
  <1>2. InCall = {}
    BY <1>1 DEF InCall
  <1>3. HeapTypeOK
    BY <1>1 DEF HeapTypeOK
  <1>4. CallsAlone /\ OwnIsBelow /\ OwnIsApart
    BY <1>1, <1>2 DEF CallsAlone, OwnIsBelow, OwnIsApart
  <1> QED
    BY <1>3, <1>4 DEF HeapInv

LEMMA HeapKept ==
    ASSUME HeapInv, [PartsNext]_partsVars
    PROVE  HeapInv'
  <1>1. CASE UNCHANGED heapVars
    <2>1. heapEnd' = heapEnd /\ sbrk' = sbrk /\ regions' = regions /\ crossed' = crossed
      BY <1>1 DEF heapVars
    <2> QED
      BY <2>1, SbrkSame
  <1>2. CASE HeapNext
    <2>1. ASSUME NEW c \in Callers, CheckBound(c) PROVE HeapInv'
      BY <2>1, CheckBoundKeeps
    <2>2. ASSUME NEW c \in Callers, TakeEnd(c) PROVE HeapInv'
      BY <2>2, TakeEndKeeps
    <2>3. ASSUME NEW c \in Callers, MoveEnd(c) PROVE HeapInv'
      BY <2>3, MoveEndKeeps
    <2> QED
      BY <1>2, <2>1, <2>2, <2>3 DEF HeapNext
  <1> QED
    BY <1>1, <1>2 DEF PartsNext, partsVars

LEMMA HeapOwns == HeapInv => HeapIsOwn
  BY DEF HeapInv, OwnIsBelow, OwnIsApart, HeapIsOwn

(* However calls of _sbrk of any processes interleave, and however often    *)
(* the compiled code reads the end of the heap, what a call got that no     *)
(* other one ran into is inside the heap and shares no byte with what       *)
(* another such call got (syscalls.cpp).  Calls that ran into each other    *)
(* may have been given the same memory.                                     *)
THEOREM HeapIsHandedOutOnce == PartsSpec => []HeapIsOwn
  <1>1. PartsInit => HeapInv
    BY HeapStart DEF PartsInit
  <1>2. HeapInv /\ [PartsNext]_partsVars => HeapInv'
    BY HeapKept
  <1> QED
    BY <1>1, <1>2, HeapOwns, PTL DEF PartsSpec

-----------------------------------------------------------------------------
(* The count of the memory in use.                                          *)

Total(f) == SumOver(f, DOMAIN f)

Sized(f) == IsFiniteSet(DOMAIN f) /\ f \in [DOMAIN f -> Int]

LEMMA TotalWithOneMore ==
    ASSUME NEW f, Sized(f), NEW b, b \notin DOMAIN f, NEW n \in Int, NEW g,
           g = [x \in DOMAIN f \union {b} |-> IF x = b THEN n ELSE f[x]]
    PROVE  Sized(g) /\ Total(g) = Total(f) + n
  <1> DEFINE S == DOMAIN f
  <1>1. IsFiniteSet(S) /\ b \notin S /\ f \in [S -> Int]
    BY DEF Sized
  <1>2. DOMAIN g = S \union {b} /\ g[b] = n /\ \A x \in S : f[x] = g[x]
    OBVIOUS
  <1>3. g \in [S \union {b} -> Int]
    BY <1>1
  <1>4. SumOver(f, S) \in Int
    BY <1>1, SumIsInteger
  <1>5. SumOver(g, S \union {b}) = g[b] + SumOver(f, S)
    <2> HIDE DEF S
    <2> QED
      BY <1>1, <1>2, <1>3, SumOfOneMore
  <1>6. IsFiniteSet(S \union {b})
    BY <1>1, FS_AddElement
  <1> QED
    BY <1>2, <1>3, <1>4, <1>5, <1>6 DEF Sized, Total

LEMMA TotalWithOneLess ==
    ASSUME NEW f, Sized(f), NEW b \in DOMAIN f, NEW g, g = [x \in DOMAIN f \ {b} |-> f[x]]
    PROVE  f[b] \in Int /\ Total(f) \in Int /\ Total(g) = Total(f) - f[b]
  <1> DEFINE S == DOMAIN g
  <1>1. S = DOMAIN f \ {b} /\ b \notin S /\ S \union {b} = DOMAIN f
    OBVIOUS
  <1>2. IsFiniteSet(S)
    BY <1>1, FS_RemoveElement DEF Sized
  <1>3. f \in [S \union {b} -> Int] /\ g \in [S -> Int] /\ f[b] \in Int
    BY <1>1 DEF Sized
  <1>4. \A x \in S : g[x] = f[x]
    OBVIOUS
  <1>5. SumOver(g, S) \in Int
    BY <1>2, <1>3, SumIsInteger
  <1>6. SumOver(f, S \union {b}) = f[b] + SumOver(g, S)
    <2> HIDE DEF S
    <2> QED
      BY <1>1, <1>2, <1>3, <1>4, SumOfOneMore
  <1> QED
    BY <1>1, <1>3, <1>5, <1>6 DEF Total

MallocTypeOK ==
    /\ Sized(blocks) /\ usage \in Int /\ miscounted \in BOOLEAN
    /\ counting \in [Callers -> {NoCount} \union [to : Int, freed : SUBSET Blocks]]

(* The blocks when a caller has stored its count.                           *)
Remaining(c) == [x \in DOMAIN blocks \ counting[c].freed |-> blocks[x]]

(* Without a miscount one caller at most is about to store, and what it     *)
(* stores is right for what is left by then.                                *)
CountIsRight ==
    ~miscounted =>
        /\ Counting = {} => usage = Total(blocks)
        /\ \A c \in Counting : Counting = {c} /\ counting[c].to = Total(Remaining(c))

MallocInv == MallocTypeOK /\ CountIsRight

LEMMA MallocConstants == WordBytes \in Nat
  BY MallocAssumption DEF MallocAssumption

(* A load: the count that will be stored.                                   *)
LEMMA LoadFacts ==
    ASSUME MallocTypeOK, NEW c \in Callers, NEW amount \in Int, NEW freed \in SUBSET Blocks,
           LoadUsage(c, amount, freed)
    PROVE  /\ usage' = usage /\ usage' \in Int
           /\ counting' \in [Callers -> {NoCount} \union [to : Int, freed : SUBSET Blocks]]
           /\ counting'[c].to = usage + amount /\ counting'[c].freed = freed
           /\ Counting' = Counting \union {c}
  <1> DEFINE Stores == [to : Int, freed : SUBSET Blocks]
  <1>1. PICK r \in Stores : r = [to |-> usage + amount, freed |-> freed]
    <2>1. PICK n \in Int : n = usage + amount
      BY DEF MallocTypeOK
    <2>2. [to |-> n, freed |-> freed] \in Stores
      OBVIOUS
    <2> QED
      BY <2>1, <2>2
  <1>2. r # NoCount
    BY <1>1 DEF NoCount
  <1>3. counting' = [counting EXCEPT ![c] = r] /\ counting[c] = NoCount
    BY <1>1 DEF LoadUsage
  <1>4. counting'[c] = r /\ \A d \in Callers \ {c} : counting'[d] = counting[d]
    BY <1>3 DEF MallocTypeOK
  <1>5. counting' \in [Callers -> {NoCount} \union Stores]
    BY <1>3 DEF MallocTypeOK
  <1>6. Counting' = Counting \union {c}
    BY <1>2, <1>4 DEF Counting
  <1> QED
    BY <1>1, <1>4, <1>5, <1>6 DEF LoadUsage, MallocTypeOK

LEMMA WrapMallocKeeps ==
    ASSUME MallocInv, NEW c \in Callers, NEW n \in Increments, WrapMalloc(c, n)
    PROVE  MallocInv'
  <1>0. MallocTypeOK /\ CountIsRight
    BY DEF MallocInv
  <1>1. PICK b \in Blocks \ DOMAIN blocks :
            blocks' = [x \in DOMAIN blocks \union {b} |->
                        IF x = b THEN n + WordBytes ELSE blocks[x]]
    BY DEF WrapMalloc
  <1>2. PICK change \in Int : change = n + WordBytes
    BY HeapConstants, MallocConstants
  <1>3. Sized(blocks') /\ Total(blocks') = Total(blocks) + change
    <2>1. Sized(blocks) /\ b \notin DOMAIN blocks
      BY <1>0, <1>1 DEF MallocTypeOK
    <2>2. blocks' = [x \in DOMAIN blocks \union {b} |-> IF x = b THEN change ELSE blocks[x]]
      BY <1>1, <1>2
    <2> QED
      BY <2>1, <2>2, TotalWithOneMore
  <1>4. LoadUsage(c, change, {}) /\ miscounted' = (miscounted \/ Counting # {})
    BY <1>2 DEF WrapMalloc
  <1>5. /\ usage' \in Int
        /\ counting' \in [Callers -> {NoCount} \union [to : Int, freed : SUBSET Blocks]]
        /\ counting'[c].to = usage + change /\ counting'[c].freed = {}
        /\ Counting' = Counting \union {c}
    BY <1>0, <1>2, <1>4, LoadFacts
  <1>6. MallocTypeOK'
    BY <1>3, <1>4, <1>5 DEF MallocTypeOK
  <1>7. CountIsRight'
    <2> SUFFICES ASSUME ~miscounted'
                 PROVE  Counting' = {c} /\ counting'[c].to = Total(Remaining(c)')
      BY DEF CountIsRight
    <2>1. ~miscounted /\ Counting = {}
      BY <1>0, <1>4 DEF MallocTypeOK
    <2>2. usage = Total(blocks)
      BY <1>0, <2>1 DEF CountIsRight
    <2>3. Remaining(c)' = blocks'
      <3>1. Remaining(c)' = [x \in DOMAIN blocks' |-> blocks'[x]]
        BY <1>5 DEF Remaining
      <3>2. blocks' = [x \in DOMAIN blocks' |-> blocks'[x]]
        BY <1>1
      <3> QED
        BY <3>1, <3>2
    <2> QED
      BY <1>3, <1>5, <2>1, <2>2, <2>3
  <1> QED
    BY <1>6, <1>7 DEF MallocInv

LEMMA WrapFreeKeeps ==
    ASSUME MallocInv, NEW c \in Callers, NEW b \in Blocks, WrapFree(c, b)
    PROVE  MallocInv'
  <1>0. MallocTypeOK /\ CountIsRight
    BY DEF MallocInv
  <1>1. b \in DOMAIN blocks /\ blocks' = blocks
    BY DEF WrapFree
  <1> DEFINE fewer == [x \in DOMAIN blocks \ {b} |-> blocks[x]]
  <1>2. blocks[b] \in Int /\ Total(blocks) \in Int /\ Total(fewer) = Total(blocks) - blocks[b]
    BY <1>0, <1>1, TotalWithOneLess DEF MallocTypeOK
  <1>3. PICK change \in Int : change = -blocks[b]
    BY <1>2
  <1>4. LoadUsage(c, change, {b}) /\ miscounted' = (miscounted \/ Counting # {})
    BY <1>3 DEF WrapFree
  <1>5. /\ usage' \in Int
        /\ counting' \in [Callers -> {NoCount} \union [to : Int, freed : SUBSET Blocks]]
        /\ counting'[c].to = usage + change /\ counting'[c].freed = {b}
        /\ Counting' = Counting \union {c}
    BY <1>0, <1>3, <1>4, LoadFacts
  <1>6. MallocTypeOK'
    BY <1>0, <1>1, <1>4, <1>5 DEF MallocTypeOK
  <1>7. CountIsRight'
    <2> SUFFICES ASSUME ~miscounted'
                 PROVE  Counting' = {c} /\ counting'[c].to = Total(Remaining(c)')
      BY DEF CountIsRight
    <2>1. ~miscounted /\ Counting = {}
      BY <1>0, <1>4 DEF MallocTypeOK
    <2>2. usage = Total(blocks)
      BY <1>0, <2>1 DEF CountIsRight
    <2>3. Remaining(c)' = fewer
      BY <1>1, <1>5 DEF Remaining
    <2>4. usage + change = Total(fewer)
      BY <1>2, <1>3, <2>2
    <2> QED
      BY <1>5, <2>1, <2>3, <2>4
  <1> QED
    BY <1>6, <1>7 DEF MallocInv

(* A count for NULL: nothing is claimed of it.                              *)
LEMMA NullKeeps ==
    ASSUME MallocInv, NEW c \in Callers, NEW amount \in Int, LoadUsage(c, amount, {}),
           miscounted' = TRUE, blocks' = blocks
    PROVE  MallocInv'
  <1>1. MallocTypeOK
    BY DEF MallocInv
  <1>2. /\ usage' \in Int
        /\ counting' \in [Callers -> {NoCount} \union [to : Int, freed : SUBSET Blocks]]
    BY <1>1, LoadFacts
  <1> QED
    BY <1>1, <1>2 DEF MallocInv, MallocTypeOK, CountIsRight

LEMMA StoreUsageKeeps ==
    ASSUME MallocInv, NEW c \in Callers, StoreUsage(c)
    PROVE  MallocInv'
  <1>0. MallocTypeOK /\ CountIsRight
    BY DEF MallocInv
  <1>1. /\ counting[c] # NoCount /\ usage' = counting[c].to
        /\ blocks' = Remaining(c) /\ counting' = [counting EXCEPT ![c] = NoCount]
        /\ miscounted' = miscounted
    BY DEF StoreUsage, Remaining
  <1>2. counting[c].to \in Int /\ c \in Counting
    BY <1>0, <1>1 DEF MallocTypeOK, Counting
  <1>3. Sized(blocks')
    <2>1. DOMAIN blocks' \subseteq DOMAIN blocks /\ blocks' \in [DOMAIN blocks' -> Int]
      BY <1>0, <1>1 DEF Remaining, MallocTypeOK, Sized
    <2> QED
      BY <1>0, <2>1, FS_Subset DEF MallocTypeOK, Sized
  <1>4. counting' \in [Callers -> {NoCount} \union [to : Int, freed : SUBSET Blocks]]
    BY <1>0, <1>1 DEF MallocTypeOK
  <1>5. MallocTypeOK'
    BY <1>0, <1>1, <1>2, <1>3, <1>4 DEF MallocTypeOK
  <1>6. Counting' = Counting \ {c}
    BY <1>0, <1>1 DEF MallocTypeOK, Counting
  <1>7. CountIsRight'
    <2> SUFFICES ASSUME ~miscounted' PROVE Counting' = {} /\ usage' = Total(blocks')
      BY DEF CountIsRight
    <2>1. Counting = {c} /\ counting[c].to = Total(Remaining(c))
      BY <1>0, <1>1, <1>2 DEF CountIsRight
    <2> QED
      BY <1>1, <1>6, <2>1
  <1> QED
    BY <1>5, <1>7 DEF MallocInv

LEMMA MallocStart ==
    ASSUME MallocInit
    PROVE  MallocInv
  <1>1. /\ blocks = [b \in {} |-> 0] /\ usage = 0
        /\ counting = [c \in Callers |-> NoCount] /\ miscounted = FALSE
    BY DEF MallocInit
  <1>2. DOMAIN blocks = {} /\ blocks \in [{} -> Int]
    BY <1>1
  <1>3. Sized(blocks)
    BY <1>2, FS_EmptySet DEF Sized
  <1>4. Total(blocks) = 0
    BY <1>2, SumOfNone DEF Total
  <1>5. MallocTypeOK
    <2>1. \A S : NoCount \in {NoCount} \union S
      OBVIOUS
    <2>2. usage \in Int
      BY <1>1
    <2>3. miscounted \in BOOLEAN
      BY <1>1, Zenon
    <2>4. counting \in [Callers -> {NoCount} \union [to : Int, freed : SUBSET Blocks]]
      BY <1>1, <2>1
    <2> QED
      BY <1>3, <2>2, <2>3, <2>4 DEF MallocTypeOK
  <1>6. Counting = {}
    BY <1>1 DEF Counting
  <1>7. CountIsRight
    BY <1>1, <1>4, <1>6 DEF CountIsRight
  <1> QED
    BY <1>5, <1>7 DEF MallocInv

LEMMA MallocKept ==
    ASSUME MallocInv, [PartsNext]_partsVars
    PROVE  MallocInv'
  <1>1. CASE UNCHANGED mallocVars
    <2>1. blocks' = blocks /\ usage' = usage /\ counting' = counting /\ miscounted' = miscounted
      BY <1>1 DEF mallocVars
    <2> QED
      BY <2>1 DEF MallocInv, MallocTypeOK, CountIsRight, Counting, Remaining
  <1>2. CASE MallocNext
    <2>1. ASSUME NEW c \in Callers, NEW n \in Increments, WrapMalloc(c, n) PROVE MallocInv'
      BY <2>1, WrapMallocKeeps
    <2>2. ASSUME NEW c \in Callers, NEW n \in Increments, WrapMallocNull(c, n) PROVE MallocInv'
      <3>1. n + WordBytes \in Int
        BY HeapConstants, MallocConstants
      <3> QED
        BY <2>2, <3>1, NullKeeps DEF WrapMallocNull
    <2>3. ASSUME NEW c \in Callers, NEW n \in Increments, WrapFreeNull(c, n) PROVE MallocInv'
      <3>1. -n \in Int
        BY HeapConstants
      <3> QED
        BY <2>3, <3>1, NullKeeps DEF WrapFreeNull
    <2>4. ASSUME NEW c \in Callers, NEW b \in Blocks, WrapFree(c, b) PROVE MallocInv'
      BY <2>4, WrapFreeKeeps
    <2>5. ASSUME NEW c \in Callers, StoreUsage(c) PROVE MallocInv'
      BY <2>5, StoreUsageKeeps
    <2> QED
      BY <1>2, <2>1, <2>2, <2>3, <2>4, <2>5 DEF MallocNext
  <1> QED
    BY <1>1, <1>2 DEF PartsNext, partsVars

LEMMA CountShows == MallocInv => UsageIsCounted
  BY DEF MallocInv, CountIsRight, UsageIsCounted, Total, SumOver

(* Whatever blocks are taken and given back, in whatever order and by       *)
(* whichever processes, the count of the memory in use is what the blocks   *)
(* hold, as long as the allocator always had a block, NULL was never freed  *)
(* and no two updates of the count overlapped (malloc.cpp).                 *)
THEOREM UsageIsThatOfBlocks == PartsSpec => []UsageIsCounted
  <1>1. PartsInit => MallocInv
    BY MallocStart DEF PartsInit
  <1>2. MallocInv /\ [PartsNext]_partsVars => MallocInv'
    BY MallocKept
  <1> QED
    BY <1>1, <1>2, CountShows, PTL DEF PartsSpec

-----------------------------------------------------------------------------
(* Symbol numbers.                                                          *)

FixedEnumerators == {<<0, name, Fixed[name]>> : name \in DOMAIN Fixed}

(* The number of a library's enumerator is in its range, and given out.     *)
GivenOut(e) ==
    \E l \in Libraries, name \in Names, n \in Nat :
        /\ e = <<l, name, n>> /\ Ranges[l].start <= n /\ n < Ranges[l].stop
        /\ l <= library /\ (l = library => n < index)

(* A symbol stands in the files with a number.                              *)
HasNumber(l, name) == \E n : <<l, name, n>> \in enum

CodesTypeOK ==
    /\ headers \in [Libraries -> Seq(Seq(Names))]
    /\ macros \in [Libraries -> Seq(Names)]
    /\ {library, include, next} \subseteq Nat \ {0} /\ DOMAIN entries \subseteq Nat
    /\ step = "number" => \A l \in Libraries : headers[l] # <<>>
    /\ Numbering => include <= Len(headers[library]) /\ index \in Nat /\ Ranges[library].start <= index
    /\ step = "fixed" => /\ enum = {} /\ codes = <<>> /\ entries = <<>> /\ library = 1
                         /\ include = 1 /\ next = 1 /\ \A l \in Libraries : macros[l] = <<>>
    /\ step # "fixed" => FixedEnumerators \subseteq enum

EnumeratorsAreGiven == \A e \in enum : e \in FixedEnumerators \/ GivenOut(e)

NumbersAreOwn == \A d, e \in enum : d[3] = e[3] => d = e

CodesHaveNumbers == \A name \in DOMAIN codes : \E l : <<l, name, codes[name]>> \in enum

MacrosHaveNumbers ==
    /\ \A l \in Libraries : \A k \in 1 .. Len(macros[l]) : HasNumber(l, macros[l][k])
    /\ Numbering => \A k \in 1 .. Len(Declarations) : k < next => HasNumber(library, Declarations[k])

EntriesHaveNumbers ==
    \A k \in DOMAIN entries : \E l : <<l, entries[k].address, entries[k].code>> \in enum

CodesInv ==
    /\ CodesTypeOK /\ EnumeratorsAreGiven /\ NumbersAreOwn
    /\ CodesHaveNumbers /\ MacrosHaveNumbers /\ EntriesHaveNumbers

LEMMA CodeConstants ==
    /\ \A a, b \in DOMAIN Fixed : Fixed[a] = Fixed[b] => a = b
    /\ \A l \in Libraries : \A a \in DOMAIN Fixed : Fixed[a] \notin Ranges[l].start .. Ranges[l].stop - 1
    /\ \A l, m \in Libraries : l < m => Ranges[l].stop <= Ranges[m].start
    /\ \A l \in Libraries : Ranges[l].start \in Nat /\ Ranges[l].stop \in Nat
    /\ Libraries = 1 .. Len(Ranges) /\ Len(Ranges) \in Nat
    /\ IsFiniteSet(Names) /\ DOMAIN Fixed \subseteq Names /\ Listed \subseteq DOMAIN Fixed
    /\ Missing \notin Names
  <1> DEFINE R == [start : Nat, stop : Nat]
  <1>1. Ranges \in Seq(R)
    BY SymbolCodesAssumption DEF SymbolCodesAssumption
  <1>2. \A l \in Libraries : Ranges[l] \in R
    <2> HIDE DEF R
    <2> QED
      BY <1>1 DEF Libraries
  <1>3. \A l \in Libraries : Ranges[l].start \in Nat /\ Ranges[l].stop \in Nat
    BY <1>2
  <1>4. Libraries = 1 .. Len(Ranges) /\ Len(Ranges) \in Nat
    <2> HIDE DEF R
    <2> QED
      BY <1>1 DEF Libraries
  <1> QED
    BY <1>3, <1>4, SymbolCodesAssumption DEF SymbolCodesAssumption, Libraries

(* Where only the place in the headers changes, or a macro.                 *)
LEMMA HeaderTypes ==
    ASSUME NEW h \in Header
    PROVE  h \in Seq(Names)
  <1>1. PICK k \in 0 .. MaxNames : h \in [1 .. k -> Names]
    BY DEF Header
  <1>2. MaxNames \in Nat
    BY SymbolCodesAssumption DEF SymbolCodesAssumption
  <1> QED
    BY <1>1, <1>2

LEMMA DeclarationTypes ==
    ASSUME CodesTypeOK, Numbering
    PROVE  /\ Declarations \in Seq(Names) /\ headers[library] \in Seq(Seq(Names))
           /\ Len(Declarations) \in Nat /\ Len(headers[library]) \in Nat
           /\ \A k \in 1 .. Len(Declarations) : Declarations[k] \in Names
  <1>1. headers[library] \in Seq(Seq(Names)) /\ include \in 1 .. Len(headers[library])
    BY DEF CodesTypeOK, Numbering
  <1>2. headers[library][include] \in Seq(Names) /\ Len(headers[library]) \in Nat
    <2> DEFINE B == Seq(Names)
    <2> HIDE DEF B
    <2>1. headers[library] \in Seq(B)
      BY <1>1 DEF B
    <2>2. headers[library][include] \in B /\ Len(headers[library]) \in Nat
      BY <2>1, <1>1
    <2> QED
      BY <2>2 DEF B
  <1> QED
    BY <1>1, <1>2 DEF Declarations

(* What is given out stays so when the next library or number is taken.     *)
LEMMA GivenOutStays ==
    ASSUME NEW e, GivenOut(e), library \in Nat, library' \in Nat,
           \/ library' = library /\ index' = index
           \/ library' > library
           \/ library' = library /\ index \in Nat /\ index' = index + 1
    PROVE  GivenOut(e)'
  <1>1. PICK l \in Libraries, name \in Names, n \in Nat :
            /\ e = <<l, name, n>> /\ Ranges[l].start <= n /\ n < Ranges[l].stop
            /\ l <= library /\ (l = library => n < index)
    BY DEF GivenOut
  <1>2. l \in Nat
    BY CodeConstants
  <1>3. l <= library' /\ (l = library' => n < index')
    BY <1>1, <1>2
  <1> QED
    BY <1>1, <1>3 DEF GivenOut

LEMMA NumberFixedKeeps ==
    ASSUME CodesInv, NumberFixed
    PROVE  CodesInv'
  <1>1. /\ step = "fixed" /\ step' = "number" /\ codes' = Fixed /\ enum' = FixedEnumerators
        /\ index' = Ranges[1].start /\ library' = library /\ include' = include /\ next' = next
        /\ macros' = macros /\ entries' = entries
    BY DEF NumberFixed, FixedEnumerators
  <1>2. /\ library = 1 /\ include = 1 /\ next = 1 /\ entries = <<>>
        /\ macros \in [Libraries -> Seq(Names)] /\ \A l \in Libraries : macros[l] = <<>>
    BY <1>1 DEF CodesInv, CodesTypeOK
  <1>3. /\ headers' \in [Libraries -> Seq(Seq(Names))]
        /\ \A l \in Libraries : headers'[l] # <<>> /\ Len(headers'[l]) \in Nat /\ Len(headers'[l]) >= 1
    <2>1. headers' \in [Libraries -> UNION {[1 .. n -> Header] : n \in 1 .. MaxHeaders}]
      BY DEF NumberFixed
    <2>2. ASSUME NEW l \in Libraries
          PROVE  /\ headers'[l] \in Seq(Seq(Names)) /\ headers'[l] # <<>>
                 /\ Len(headers'[l]) \in Nat /\ Len(headers'[l]) >= 1
      <3>1. PICK n \in 1 .. MaxHeaders : headers'[l] \in [1 .. n -> Header]
        BY <2>1
      <3> DEFINE B == Seq(Names)
      <3>2. headers'[l] \in [1 .. n -> B]
        BY <3>1, HeaderTypes
      <3>3. n \in Nat /\ n >= 1
        BY SymbolCodesAssumption DEF SymbolCodesAssumption
      <3> HIDE DEF B
      <3>4. headers'[l] \in Seq(B) /\ Len(headers'[l]) = n
        BY <3>2, <3>3
      <3>5. headers'[l] # <<>>
        BY <3>3, <3>4
      <3> QED
        BY <3>3, <3>4, <3>5 DEF B
    <2>3. headers' = [l \in Libraries |-> headers'[l]]
      BY <2>1
    <2> DEFINE C == Seq(Seq(Names))
    <2>4. \A l \in Libraries : headers'[l] \in C
      BY <2>2
    <2>5. headers' \in [Libraries -> C]
      <3> HIDE DEF C
      <3> QED
        BY <2>3, <2>4
    <2> QED
      BY <2>2, <2>5
  <1>4. CodesTypeOK'
    <2>1. 1 \in Libraries => Ranges[1].start \in Nat
      BY CodeConstants
    <2>2. library' \in Libraries =>
            include' <= Len(headers'[library']) /\ index' \in Nat /\ Ranges[library'].start <= index'
      BY <2>1, <1>1, <1>2, <1>3
    <2> QED
      BY <1>1, <1>2, <1>3, <2>2 DEF CodesTypeOK, Numbering, Libraries
  <1>5. EnumeratorsAreGiven'
    BY <1>1 DEF EnumeratorsAreGiven
  <1>6. NumbersAreOwn'
    BY <1>1, CodeConstants DEF NumbersAreOwn, FixedEnumerators
  <1>7. CodesHaveNumbers'
    <2> SUFFICES ASSUME NEW name \in DOMAIN Fixed
                 PROVE  <<0, name, Fixed[name]>> \in FixedEnumerators
      BY <1>1 DEF CodesHaveNumbers
    <2> QED
      BY DEF FixedEnumerators
  <1>8. MacrosHaveNumbers'
    <2>1. \A l \in Libraries : Len(macros'[l]) = 0
      BY <1>1, <1>2
    <2>2. \A k \in 1 .. Len(Declarations') : ~(k < next')
      BY <1>1, <1>2
    <2> QED
      BY <2>1, <2>2 DEF MacrosHaveNumbers, Libraries
  <1>9. EntriesHaveNumbers'
    BY <1>1, <1>2 DEF EntriesHaveNumbers
  <1> QED
    BY <1>4, <1>5, <1>6, <1>7, <1>8, <1>9 DEF CodesInv

(* Where the enumerators are those there were, and the place has not gone   *)
(* back.                                                                    *)
LEMMA EnumeratorsSame ==
    ASSUME CodesInv, CodesTypeOK', step # "fixed", enum' = enum, codes' = codes, entries' = entries,
           \/ library' = library /\ index' = index
           \/ library' = library + 1
    PROVE  EnumeratorsAreGiven' /\ NumbersAreOwn' /\ CodesHaveNumbers' /\ EntriesHaveNumbers'
  <1>1. library \in Nat /\ library' \in Nat
    BY DEF CodesInv, CodesTypeOK
  <1>2. EnumeratorsAreGiven'
    <2> SUFFICES ASSUME NEW e \in enum, e \notin FixedEnumerators PROVE GivenOut(e)'
      BY DEF EnumeratorsAreGiven
    <2>1. GivenOut(e)
      BY DEF CodesInv, EnumeratorsAreGiven
    <2>2. (library' = library /\ index' = index) \/ library' > library
      BY <1>1
    <2> QED
      BY <1>1, <2>1, <2>2, GivenOutStays
  <1> QED
    BY <1>2 DEF CodesInv, NumbersAreOwn, CodesHaveNumbers, EntriesHaveNumbers

LEMMA NumberDeclarationKeeps ==
    ASSUME CodesInv, NumberDeclaration
    PROVE  CodesInv'
  <1>0. /\ CodesTypeOK /\ EnumeratorsAreGiven /\ NumbersAreOwn
        /\ CodesHaveNumbers /\ MacrosHaveNumbers /\ EntriesHaveNumbers
    BY DEF CodesInv
  <1>1. /\ Numbering /\ step = "number" /\ library \in Libraries /\ next <= Len(Declarations)
        /\ headers' = headers /\ enabled' = enabled /\ library' = library /\ include' = include
        /\ macros' = macros /\ entries' = entries
    BY DEF NumberDeclaration, Numbering
  <1>2. /\ index \in Nat /\ Ranges[library].start <= index /\ include <= Len(headers[library])
        /\ {library, include, next} \subseteq Nat \ {0}
    BY <1>0, <1>1 DEF CodesTypeOK
  <1>3. CASE index >= Ranges[library].stop - 1
    <2>1. step' = "raised" /\ next' = next /\ index' = index /\ codes' = codes /\ enum' = enum
      BY <1>3 DEF NumberDeclaration
    <2>2. CodesTypeOK'
      BY <1>0, <1>1, <1>2, <2>1 DEF CodesTypeOK, Numbering, Libraries
    <2>3. MacrosHaveNumbers'
      BY <1>0, <1>1, <2>1 DEF MacrosHaveNumbers, Numbering, HasNumber
    <2>4. EnumeratorsAreGiven' /\ NumbersAreOwn' /\ CodesHaveNumbers' /\ EntriesHaveNumbers'
      BY <1>1, <2>1, <2>2, EnumeratorsSame
    <2> QED
      BY <2>2, <2>3, <2>4 DEF CodesInv
  <1>4. CASE ~(index >= Ranges[library].stop - 1)
    <2>0. PICK name \in Names : name = Declarations[next]
      BY <1>0, <1>1, <1>2, DeclarationTypes
    <2>0a. PICK new : new = <<library, name, index>>
      OBVIOUS
    <2>1. /\ step' = step /\ next' = next + 1 /\ index' = index + 1
          /\ codes' = [a \in DOMAIN codes \cup {name} |-> IF a = name THEN index ELSE codes[a]]
          /\ enum' = enum \cup {new}
      BY <1>4, <2>0, <2>0a DEF NumberDeclaration
    <2>2. /\ Ranges[library].start \in Nat /\ Ranges[library].stop \in Nat
          /\ index < Ranges[library].stop /\ library \in Nat
      BY <1>1, <1>2, <1>4, CodeConstants
    <2>3. CodesTypeOK'
      <3>1. index' \in Nat /\ Ranges[library].start <= index' /\ next' \in Nat \ {0}
        BY <1>2, <2>1, <2>2
      <3>2. FixedEnumerators \subseteq enum'
        BY <1>0, <1>1, <2>1 DEF CodesTypeOK
      <3> QED
        BY <1>0, <1>1, <1>2, <2>1, <3>1, <3>2 DEF CodesTypeOK, Numbering, Libraries
    <2>4. GivenOut(new)'
      <3>1. /\ new = <<library, name, index>>
            /\ Ranges[library].start <= index /\ index < Ranges[library].stop
            /\ library <= library' /\ (library = library' => index < index')
        BY <1>1, <1>2, <2>0a, <2>1, <2>2
      <3>2. library \in Libraries /\ index \in Nat
        BY <1>1, <1>2
      <3>3. \E l \in Libraries, a \in Names, n \in Nat :
              /\ new = <<l, a, n>> /\ Ranges[l].start <= n /\ n < Ranges[l].stop
              /\ l <= library' /\ (l = library' => n < index')
        BY <3>1, <3>2, Zenon
      <3> QED
        BY <3>3 DEF GivenOut
    <2>5. EnumeratorsAreGiven'
      <3> SUFFICES ASSUME NEW e \in enum, e \notin FixedEnumerators PROVE GivenOut(e)'
        BY <2>1, <2>4 DEF EnumeratorsAreGiven
      <3>1. GivenOut(e)
        BY <1>0 DEF EnumeratorsAreGiven
      <3> QED
        BY <1>1, <1>2, <2>1, <2>2, <3>1, GivenOutStays
    <2>6. \A e \in enum : e[3] # index
      <3> SUFFICES ASSUME NEW e \in enum, e[3] = index PROVE FALSE
        OBVIOUS
      <3>1. CASE e \in FixedEnumerators
        <4>1. PICK a \in DOMAIN Fixed : e = <<0, a, Fixed[a]>>
          BY <3>1 DEF FixedEnumerators
        <4>2. Fixed[a] = index
          BY <4>1
        <4>3. index \in Ranges[library].start .. Ranges[library].stop - 1
          BY <1>2, <2>2
        <4> QED
          BY <1>1, <4>2, <4>3, CodeConstants
      <3>2. CASE GivenOut(e)
        <4>1. PICK l \in Libraries, a \in Names, n \in Nat :
                /\ e = <<l, a, n>> /\ Ranges[l].start <= n /\ n < Ranges[l].stop
                /\ l <= library /\ (l = library => n < index)
          BY <3>2 DEF GivenOut
        <4>2. n = index
          BY <4>1
        <4>3. l \in Nat /\ Ranges[l].stop \in Nat /\ Ranges[l].start \in Nat
          BY CodeConstants
        <4>4. l < library
          BY <1>2, <2>2, <4>1, <4>2, <4>3
        <4>5. Ranges[l].stop <= Ranges[library].start
          BY <1>1, <4>4, CodeConstants
        <4> QED
          BY <1>2, <2>2, <4>1, <4>2, <4>3, <4>5
      <3> QED
        BY <1>0, <3>1, <3>2 DEF EnumeratorsAreGiven
    <2>7. NumbersAreOwn'
      <3>1. new[3] = index
        BY <2>0a
      <3> QED
        BY <1>0, <2>1, <2>6, <3>1 DEF NumbersAreOwn
    <2>8. CodesHaveNumbers'
      <3> SUFFICES ASSUME NEW a \in DOMAIN codes \cup {name} PROVE \E l : <<l, a, codes'[a]>> \in enum'
        BY <2>1 DEF CodesHaveNumbers
      <3>1. CASE a = name
        <4>1. <<library, a, codes'[a]>> = new
          BY <2>0a, <2>1, <3>1
        <4> QED
          BY <2>1, <4>1
      <3>2. CASE a # name
        <4>1. a \in DOMAIN codes /\ codes'[a] = codes[a]
          BY <2>1, <3>2
        <4>2. PICK l : <<l, a, codes[a]>> \in enum
          BY <1>0, <4>1 DEF CodesHaveNumbers
        <4> QED
          BY <2>1, <4>1, <4>2
      <3> QED
        BY <3>1, <3>2
    <2>9. \A l, a : HasNumber(l, a) => HasNumber(l, a)'
      BY <2>1 DEF HasNumber
    <2>10. MacrosHaveNumbers'
      <3>1. Declarations' = Declarations
        BY <1>1 DEF Declarations
      <3> QED
        <4>1. \E n : <<library, Declarations[next], n>> \in enum'
          <5>1. new \in enum' /\ new = <<library, Declarations[next], index>>
            BY <2>0, <2>0a, <2>1
          <5> QED
            BY <5>1
        <4>2. ASSUME NEW k \in 1 .. Len(Declarations), k < next'
              PROVE  \E n : <<library, Declarations[k], n>> \in enum'
          <5>1. CASE k = next
            BY <4>1, <5>1
          <5>2. CASE k < next
            <6>1. HasNumber(library, Declarations[k])
              BY <1>0, <1>1, <5>2 DEF MacrosHaveNumbers
            <6> QED
              BY <6>1, <2>1 DEF HasNumber
          <5>3. Len(Declarations) \in Nat
            BY <1>0, <1>1, DeclarationTypes
          <5>4. k < next + 1 /\ k \in Nat /\ next \in Nat
            BY <4>2, <5>3, <1>2, <2>1
          <5>5. k = next \/ k < next
            BY <5>4
          <5> QED
            BY <5>1, <5>2, <5>5, Zenon
        <4> QED
          BY <1>0, <1>1, <2>9, <3>1, <4>2 DEF MacrosHaveNumbers, HasNumber
    <2>11. EntriesHaveNumbers'
      BY <1>0, <1>1, <2>1 DEF EntriesHaveNumbers
    <2> QED
      BY <2>3, <2>5, <2>7, <2>8, <2>10, <2>11 DEF CodesInv
  <1> QED
    BY <1>3, <1>4

LEMMA NextIncludeKeeps ==
    ASSUME CodesInv, NextInclude
    PROVE  CodesInv'
  <1>0. CodesTypeOK /\ MacrosHaveNumbers
    BY DEF CodesInv
  <1>1. /\ Numbering /\ step = "number" /\ library \in Libraries /\ include < Len(headers[library])
        /\ include' = include + 1 /\ next' = 1
        /\ headers' = headers /\ enabled' = enabled /\ step' = step /\ library' = library
        /\ index' = index /\ codes' = codes /\ enum' = enum /\ macros' = macros /\ entries' = entries
    BY DEF NextInclude, Numbering
  <1>2. include \in Nat /\ Len(headers[library]) \in Nat
    BY <1>0, <1>1, DeclarationTypes DEF CodesTypeOK
  <1>3. include' \in Nat \ {0} /\ include' <= Len(headers[library])
    BY <1>1, <1>2
  <1>4. CodesTypeOK'
    BY <1>0, <1>1, <1>3 DEF CodesTypeOK, Numbering, Libraries
  <1>5. MacrosHaveNumbers'
    <2>1. \A k \in 1 .. Len(Declarations') : ~(k < next')
      BY <1>1
    <2> QED
      BY <1>0, <1>1, <2>1 DEF MacrosHaveNumbers, HasNumber
  <1>6. EnumeratorsAreGiven' /\ NumbersAreOwn' /\ CodesHaveNumbers' /\ EntriesHaveNumbers'
    BY <1>1, <1>4, EnumeratorsSame
  <1> QED
    BY <1>4, <1>5, <1>6 DEF CodesInv

LEMMA WriteMacroKeeps ==
    ASSUME CodesInv, WriteMacro
    PROVE  CodesInv'
  <1>0. CodesTypeOK /\ MacrosHaveNumbers
    BY DEF CodesInv
  <1>1. /\ Numbering /\ step = "number" /\ library \in Libraries /\ next > Len(Declarations)
        /\ include' = 1 /\ next' = 1 /\ library' = library + 1
        /\ macros' = [macros EXCEPT ![library] = Declarations]
        /\ index' = IF library + 1 \in Libraries THEN Ranges[library + 1].start ELSE index
        /\ headers' = headers /\ enabled' = enabled /\ step' = step
        /\ codes' = codes /\ enum' = enum /\ entries' = entries
    BY DEF WriteMacro, Numbering
  <1>2. /\ Declarations \in Seq(Names) /\ library \in Nat
        /\ \A l \in Libraries : Len(headers[l]) >= 1
    <2>1. ASSUME NEW l \in Libraries PROVE Len(headers[l]) >= 1
      <3> DEFINE B == Seq(Names)
      <3> HIDE DEF B
      <3>1. headers[l] \in Seq(B) /\ headers[l] # <<>>
        BY <1>0, <1>1 DEF CodesTypeOK, B
      <3> QED
        BY <3>1
    <2> QED
      BY <1>0, <1>1, <2>1, DeclarationTypes DEF CodesTypeOK
  <1>3. library' \in Nat \ {0} /\ macros' \in [Libraries -> Seq(Names)]
    BY <1>0, <1>1, <1>2 DEF CodesTypeOK
  <1>4. library' \in Libraries =>
            include' <= Len(headers'[library']) /\ index' \in Nat /\ Ranges[library'].start <= index'
    BY <1>1, <1>2, CodeConstants
  <1>5. CodesTypeOK'
    BY <1>0, <1>1, <1>3, <1>4 DEF CodesTypeOK, Numbering, Libraries
  <1>6. MacrosHaveNumbers'
    <2>1. \A k \in 1 .. Len(Declarations') : ~(k < next')
      BY <1>1
    <2>2. ASSUME NEW l \in Libraries, NEW k \in 1 .. Len(macros'[l])
          PROVE  HasNumber(l, macros'[l][k])
      <3>1. CASE l = library
        <4>1. macros'[l] = Declarations
          BY <1>0, <1>1, <3>1 DEF CodesTypeOK
        <4>2. k < next
          BY <4>1, <1>0, <1>1, <1>2 DEF CodesTypeOK
        <4> QED
          BY <1>0, <1>1, <3>1, <4>1, <4>2 DEF MacrosHaveNumbers
      <3>2. CASE l # library
        <4>1. macros'[l] = macros[l]
          BY <1>0, <1>1, <3>2 DEF CodesTypeOK
        <4> QED
          BY <1>0, <4>1 DEF MacrosHaveNumbers
      <3> QED
        BY <3>1, <3>2
    <2>3. \A l \in Libraries : \A k \in 1 .. Len(macros'[l]) : \E n : <<l, macros'[l][k], n>> \in enum'
      <3>1. enum' = enum
        BY <1>1
      <3> SUFFICES ASSUME NEW l \in Libraries, NEW k \in 1 .. Len(macros'[l])
                   PROVE  \E n : <<l, macros'[l][k], n>> \in enum
        BY <3>1
      <3>2. HasNumber(l, macros'[l][k])
        BY <2>2
      <3> QED
        BY <3>2 DEF HasNumber
    <2> QED
      BY <2>1, <2>3 DEF MacrosHaveNumbers, HasNumber
  <1>7. EnumeratorsAreGiven' /\ NumbersAreOwn' /\ CodesHaveNumbers' /\ EntriesHaveNumbers'
    BY <1>1, <1>5, EnumeratorsSame
  <1> QED
    BY <1>5, <1>6, <1>7 DEF CodesInv

LEMMA WriteSymbolsKeeps ==
    ASSUME CodesInv, WriteSymbols
    PROVE  CodesInv'
  <1>1. /\ step = "number" /\ step' = "build"
        /\ include' = include /\ next' = next /\ library' = library /\ macros' = macros
        /\ index' = index /\ headers' = headers /\ enabled' = enabled
        /\ codes' = codes /\ enum' = enum /\ entries' = entries
    BY DEF WriteSymbols
  <1>2. CodesTypeOK'
    BY <1>1 DEF CodesInv, CodesTypeOK, Numbering
  <1>3. MacrosHaveNumbers'
    BY <1>1 DEF CodesInv, MacrosHaveNumbers, Numbering, HasNumber
  <1>4. EnumeratorsAreGiven' /\ NumbersAreOwn' /\ CodesHaveNumbers' /\ EntriesHaveNumbers'
    BY <1>1, <1>2, EnumeratorsSame
  <1> QED
    BY <1>2, <1>3, <1>4 DEF CodesInv

(* Entries of the environment that an enumerator stands for.                *)
OwnEntries ==
    {x \in [code : {e[3] : e \in enum}, address : Names] : \E l : <<l, x.address, x.code>> \in enum}

LEMMA EnumeratorTriples ==
    ASSUME EnumeratorsAreGiven, NEW e \in enum
    PROVE  e = <<e[1], e[2], e[3]>>
  <1>1. CASE e \in FixedEnumerators
    BY <1>1 DEF FixedEnumerators
  <1>2. CASE GivenOut(e)
    BY <1>2 DEF GivenOut
  <1> QED
    BY <1>1, <1>2 DEF EnumeratorsAreGiven

LEMMA EnumeratorIs ==
    ASSUME EnumeratorsAreGiven, NEW l, NEW name \in Names, HasNumber(l, name)
    PROVE  SymbolAddress(Enumerator(l, name), name) \in OwnEntries
  <1> DEFINE e == CHOOSE d \in enum : d[1] = l /\ d[2] = name
  <1>1. \E d \in enum : d[1] = l /\ d[2] = name
    <2>1. PICK n : <<l, name, n>> \in enum
      BY DEF HasNumber
    <2> QED
      BY <2>1
  <1>2. e \in enum /\ e[1] = l /\ e[2] = name
    BY <1>1
  <1>3. Enumerator(l, name) = e[3]
    BY DEF Enumerator
  <1> HIDE DEF e
  <1>4. <<l, name, e[3]>> \in enum
    BY <1>2, EnumeratorTriples
  <1>5. e[3] \in {d[3] : d \in enum}
    BY <1>2
  <1> QED
    BY <1>3, <1>4, <1>5 DEF SymbolAddress, OwnEntries

LEMMA ListedAreOwn ==
    ASSUME EnumeratorsAreGiven, FixedEnumerators \subseteq enum
    PROVE  ListedEntries \in Seq(OwnEntries)
  <1> DEFINE S == {SymbolAddress(Enumerator(0, name), name) : name \in Listed}
  <1>1. IsFiniteSet(S)
    <2>1. IsFiniteSet(Listed)
      BY CodeConstants, FS_Subset
    <2> DEFINE f == [name \in Listed |-> SymbolAddress(Enumerator(0, name), name)]
    <2>2. f \in Surjection(Listed, S)
      BY DEF Surjection
    <2> HIDE DEF f, S
    <2> QED
      BY <2>1, <2>2, FS_Surjection DEF ExistsSurjection
  <1>2. S \subseteq OwnEntries
    <2> SUFFICES ASSUME NEW name \in Listed
                 PROVE  SymbolAddress(Enumerator(0, name), name) \in OwnEntries
      OBVIOUS
    <2>1. name \in DOMAIN Fixed /\ name \in Names
      BY CodeConstants
    <2>2. <<0, name, Fixed[name]>> \in enum
      BY <2>1 DEF FixedEnumerators
    <2>3. HasNumber(0, name)
      BY <2>2 DEF HasNumber
    <2> QED
      BY <2>1, <2>3, EnumeratorIs
  <1>3. ListedEntries = SetToSeq(S)
    BY DEF ListedEntries
  <1> HIDE DEF S
  <1>4. SetToSeq(S) \in [1 .. Cardinality(S) -> S] /\ Cardinality(S) \in Nat
    BY <1>1, SetAsSequence
  <1> QED
    BY <1>2, <1>3, <1>4

LEMMA MacrosAreOwn ==
    ASSUME CodesTypeOK, EnumeratorsAreGiven, MacrosHaveNumbers, NEW l \in Libraries
    PROVE  MacroEntries(l) \in Seq(OwnEntries)
  <1>1. macros[l] \in Seq(Names)
    BY DEF CodesTypeOK
  <1>2. ASSUME NEW k \in DOMAIN macros[l]
        PROVE  SymbolAddress(Enumerator(l, macros[l][k]), macros[l][k]) \in OwnEntries
    <2>1. macros[l][k] \in Names /\ HasNumber(l, macros[l][k])
      BY <1>1 DEF MacrosHaveNumbers
    <2> QED
      BY <2>1, EnumeratorIs
  <1>3. DOMAIN macros[l] = 1 .. Len(macros[l]) /\ Len(macros[l]) \in Nat
    BY <1>1
  <1> QED
    BY <1>2, <1>3 DEF MacroEntries

LEMMA BuildKernelKeeps ==
    ASSUME CodesInv, BuildKernel
    PROVE  CodesInv'
  <1>0. /\ CodesTypeOK /\ EnumeratorsAreGiven /\ NumbersAreOwn
        /\ CodesHaveNumbers /\ MacrosHaveNumbers /\ EntriesHaveNumbers
    BY DEF CodesInv
  <1> DEFINE parts == [l \in Libraries |-> IF l \in enabled THEN MacroEntries(l) ELSE <<>>]
  <1>1. /\ step = "build" /\ step' = "done" /\ entries' = ListedEntries \o FlattenSeq(parts)
        /\ include' = include /\ next' = next /\ library' = library /\ macros' = macros
        /\ index' = index /\ headers' = headers /\ enabled' = enabled
        /\ codes' = codes /\ enum' = enum
    BY DEF BuildKernel
  <1>2. CodesTypeOK'
    BY <1>0, <1>1 DEF CodesTypeOK, Numbering
  <1>3. ListedEntries \in Seq(OwnEntries)
    BY <1>0, <1>1, ListedAreOwn DEF CodesTypeOK
  <1>4. parts \in Seq(Seq(OwnEntries))
    <2> DEFINE B == Seq(OwnEntries)
    <2>1. \A l \in Libraries : MacroEntries(l) \in B /\ <<>> \in B
      BY <1>0, MacrosAreOwn
    <2>2. parts \in Seq(B)
      <3> HIDE DEF B
      <3> QED
        BY <2>1, CodeConstants
    <2> QED
      BY <2>2
  <1>5. FlattenSeq(parts) \in Seq(OwnEntries)
    <2> HIDE DEF parts
    <2> QED
      BY <1>4, FlattenType
  <1>6. entries' \in Seq(OwnEntries)
    <2> HIDE DEF parts
    <2> QED
      BY <1>1, <1>3, <1>5
  <1>7. EntriesHaveNumbers'
    <2> SUFFICES ASSUME NEW k \in DOMAIN entries'
                 PROVE  \E l : <<l, entries'[k].address, entries'[k].code>> \in enum
      BY <1>1 DEF EntriesHaveNumbers
    <2>1. entries'[k] \in OwnEntries
      BY <1>6
    <2> QED
      BY <2>1 DEF OwnEntries
  <1>8. MacrosHaveNumbers'
    BY <1>0, <1>1 DEF MacrosHaveNumbers, Numbering, HasNumber
  <1>9. EnumeratorsAreGiven'
    BY <1>0, <1>1 DEF EnumeratorsAreGiven, GivenOut
  <1>10. NumbersAreOwn' /\ CodesHaveNumbers'
    BY <1>0, <1>1 DEF NumbersAreOwn, CodesHaveNumbers
  <1> QED
    BY <1>2, <1>7, <1>8, <1>9, <1>10 DEF CodesInv

LEMMA CodesStart ==
    ASSUME SymbolCodesInit
    PROVE  CodesInv
  <1>1. /\ headers = [l \in Libraries |-> <<>>] /\ step = "fixed" /\ library = 1 /\ include = 1
        /\ next = 1 /\ codes = <<>> /\ enum = {} /\ entries = <<>>
        /\ macros = [l \in Libraries |-> <<>>]
    BY DEF SymbolCodesInit
  <1>2. <<>> \in Seq(Seq(Names)) /\ <<>> \in Seq(Names)
    OBVIOUS
  <1> DEFINE C == Seq(Seq(Names))
             B == Seq(Names)
  <1>3. headers \in [Libraries -> C] /\ macros \in [Libraries -> B]
    <2>1. <<>> \in C /\ <<>> \in B
      BY <1>2
    <2> HIDE DEF C, B
    <2> QED
      BY <1>1, <2>1
  <1>4. CodesTypeOK
    BY <1>1, <1>3 DEF CodesTypeOK, Numbering
  <1>5. EnumeratorsAreGiven /\ NumbersAreOwn /\ CodesHaveNumbers /\ EntriesHaveNumbers
    BY <1>1 DEF EnumeratorsAreGiven, NumbersAreOwn, CodesHaveNumbers, EntriesHaveNumbers
  <1>6. MacrosHaveNumbers
    BY <1>1 DEF MacrosHaveNumbers, Numbering
  <1> QED
    BY <1>4, <1>5, <1>6 DEF CodesInv

LEMMA CodesKept ==
    ASSUME CodesInv, [PartsNext]_partsVars
    PROVE  CodesInv'
  <1>1. CASE UNCHANGED codeVars
    <2>1. /\ include' = include /\ next' = next /\ library' = library /\ macros' = macros
          /\ index' = index /\ headers' = headers /\ enabled' = enabled /\ step' = step
          /\ codes' = codes /\ enum' = enum /\ entries' = entries
      BY <1>1 DEF codeVars
    <2>2. CodesTypeOK'
      BY <2>1 DEF CodesInv, CodesTypeOK, Numbering
    <2>3. MacrosHaveNumbers'
      <3>1. Declarations' = Declarations /\ (Numbering' <=> Numbering)
        BY <2>1 DEF Declarations, Numbering
      <3>2. \A l, name : HasNumber(l, name)' <=> HasNumber(l, name)
        BY <2>1 DEF HasNumber
      <3> QED
        BY <2>1, <3>1, <3>2 DEF CodesInv, MacrosHaveNumbers
    <2>4. EnumeratorsAreGiven'
      BY <2>1 DEF CodesInv, EnumeratorsAreGiven, GivenOut
    <2>5. NumbersAreOwn' /\ CodesHaveNumbers' /\ EntriesHaveNumbers'
      BY <2>1 DEF CodesInv, NumbersAreOwn, CodesHaveNumbers, EntriesHaveNumbers
    <2> QED
      BY <2>2, <2>3, <2>4, <2>5 DEF CodesInv
  <1>2. CASE SymbolCodesNext
    BY <1>2, NumberFixedKeeps, NumberDeclarationKeeps, NextIncludeKeeps, WriteMacroKeeps,
       WriteSymbolsKeeps, BuildKernelKeeps DEF SymbolCodesNext
  <1> QED
    BY <1>1, <1>2 DEF PartsNext, partsVars

LEMMA CodesResolve == CodesInv => SymbolsAreOwn
  <1> SUFFICES ASSUME CodesInv, NEW name \in Names PROVE Resolved(name) \in {name, Missing}
    BY DEF SymbolsAreOwn
  <1> DEFINE found == {k \in DOMAIN entries : entries[k].code = codes[name]}
             first == CHOOSE k \in found : \A m \in found : k <= m
  <1>1. CASE name \notin DOMAIN codes \/ found = {}
    BY <1>1 DEF Resolved, FindSymbol
  <1>2. CASE name \in DOMAIN codes /\ found # {}
    <2>1. ASSUME NEW k \in found PROVE entries[k].address = name
      <3>1. PICK l : <<l, name, codes[name]>> \in enum
        BY <1>2 DEF CodesInv, CodesHaveNumbers
      <3>2. PICK m : <<m, entries[k].address, codes[name]>> \in enum
        BY DEF CodesInv, EntriesHaveNumbers
      <3>3. <<l, name, codes[name]>> = <<m, entries[k].address, codes[name]>>
        BY <3>1, <3>2 DEF CodesInv, NumbersAreOwn
      <3> QED
        BY <3>3
    <2>2. found \subseteq Nat
      BY DEF CodesInv, CodesTypeOK
    <2>3. first \in found
      <3>1. \E k \in found : \A m \in found : k <= m
        <4> HIDE DEF found
        <4> QED
          BY <1>2, <2>2, LeastNatural
      <3> HIDE DEF found
      <3> QED
        BY <3>1
    <2>4. Resolved(name) = entries[first].address
      BY <1>2 DEF Resolved, FindSymbol
    <2> HIDE DEF first
    <2> QED
      BY <2>1, <2>3, <2>4
  <1> QED
    BY <1>1, <1>2

(* Whatever declarations the headers have, in whatever order, and whichever *)
(* libraries are built in, a number in a module's file stands for the       *)
(* symbol that the module named, or for none (generate_api.py, spawn.cpp,   *)
(* environment.hpp).                                                        *)
THEOREM NumbersNameOneSymbol == PartsSpec => []SymbolsAreOwn
  <1>1. PartsInit => CodesInv
    BY CodesStart DEF PartsInit
  <1>2. CodesInv /\ [PartsNext]_partsVars => CodesInv'
    BY CodesKept
  <1> QED
    BY <1>1, <1>2, CodesResolve, PTL DEF PartsSpec

-----------------------------------------------------------------------------
(* printf.                                                                  *)

(* Escapes, for any text.                                                   *)
EscapesOf(text) ==
    LET escapes[i \in 0 .. Len(text)] == i > 0 /\ text[i] = "%" /\ ~escapes[i - 1]
    IN  escapes

LEMMA EscapesAreOf == Escapes = EscapesOf(format)
  BY DEF Escapes, EscapesOf

LEMMA EscapesExist ==
    ASSUME NEW text, Len(text) \in Nat
    PROVE  \A i \in 0 .. Len(text) :
                EscapesOf(text)[i] <=> i > 0 /\ text[i] = "%" /\ ~EscapesOf(text)[i - 1]
  <1> DEFINE n == Len(text)
             Def(e) == e = [i \in 0 .. n |-> i > 0 /\ text[i] = "%" /\ ~e[i - 1]]
             it == CHOOSE e : Def(e)
             turn == [p \in Nat \X {0, 1} |-> IF text[p[1]] = "%" /\ p[2] = 0 THEN 1 ELSE 0]
  <1>1. PICK g \in [0 .. n -> {0, 1}] : Iterated(g, n, 0, turn)
    <2>1. turn \in [Nat \X {0, 1} -> {0, 1}]
      OBVIOUS
    <2>2. PICK A : A = {0, 1}
      OBVIOUS
    <2>3. 0 \in A /\ turn \in [Nat \X A -> A]
      BY <2>1, <2>2
    <2> HIDE DEF turn
    <2>4. \E g \in [0 .. n -> A] : Iterated(g, n, 0, turn)
      BY <2>3, Iterates
    <2> QED
      BY <2>2, <2>4
  <1>2. ASSUME NEW i \in 1 .. n
        PROVE  g[i] = IF text[i] = "%" /\ g[i - 1] = 0 THEN 1 ELSE 0
    <2>1. g[i] = turn[<<i, g[i - 1]>>]
      <3> HIDE DEF turn
      <3> QED
        BY <1>1 DEF Iterated
    <2>2. i - 1 \in 0 .. n
      OBVIOUS
    <2>3. g[i - 1] \in {0, 1}
      BY <2>2
    <2>4. <<i, g[i - 1]>> \in Nat \X {0, 1}
      BY <2>3
    <2> QED
      BY <2>1, <2>4
  <1>3. g[0] = 0
    BY <1>1 DEF Iterated
  <1> DEFINE e == [i \in 0 .. n |-> g[i] = 1]
  <1>4. \A i \in 0 .. n : e[i] <=> i > 0 /\ text[i] = "%" /\ ~e[i - 1]
    <2> SUFFICES ASSUME NEW i \in 0 .. n PROVE e[i] <=> i > 0 /\ text[i] = "%" /\ ~e[i - 1]
      OBVIOUS
    <2>1. CASE i = 0
      BY <2>1, <1>3
    <2>2. CASE i # 0
      <3>1. i \in 1 .. n /\ i - 1 \in 0 .. n
        BY <2>2
      <3>2. g[i - 1] \in {0, 1} /\ (e[i - 1] <=> g[i - 1] = 1) /\ (e[i] <=> g[i] = 1)
        BY <3>1
      <3> HIDE DEF e
      <3> QED
        BY <1>2, <3>1, <3>2
    <2> QED
      BY <2>1, <2>2
  <1>5. Def(e)
    <2>1. \A i \in 0 .. n : e[i] = (i > 0 /\ text[i] = "%" /\ ~e[i - 1])
      <3>1. \A i \in 0 .. n : e[i] \in BOOLEAN
        OBVIOUS
      <3> HIDE DEF e
      <3> QED
        BY <1>4, <3>1
    <2>2. e = [i \in 0 .. n |-> e[i]]
      OBVIOUS
    <2> HIDE DEF e
    <2> QED
      BY <2>1, <2>2
  <1>6. Def(it)
    <2> HIDE DEF Def, e
    <2> QED
      BY <1>5
  <1>7. EscapesOf(text) = it
    BY DEF EscapesOf
  <1> HIDE DEF it
  <1> QED
    BY <1>6, <1>7

Pieces == Characters \cup [as : Characters, number : Nat]

(* What the first k characters of the format show.                          *)
ShownBy(k) == FlattenSeq([i \in 1 .. k |-> Shows(i)])
LEMMA EscapesFacts ==
    ASSUME format \in Seq(Characters)
    PROVE  \A i \in 0 .. Len(format) :
                Escapes[i] <=> i > 0 /\ format[i] = "%" /\ ~Escapes[i - 1]
  <1>1. Len(format) \in Nat
    OBVIOUS
  <1> QED
    BY <1>1, EscapesAreOf, EscapesExist

LEMMA ArgumentType ==
    ASSUME NEW i \in Nat
    PROVE  /\ ArgumentOf(i) \in Nat
           /\ IsFiniteSet({j \in 1 .. i : Escapes[j - 1] /\ TakesArgument(format[j])})
  <1>1. IsFiniteSet(1 .. i)
    BY FS_Interval
  <1>2. IsFiniteSet({j \in 1 .. i : Escapes[j - 1] /\ TakesArgument(format[j])})
    BY <1>1, FS_Subset
  <1> QED
    BY <1>2, FS_CardinalityType DEF ArgumentOf

LEMMA ShowsType ==
    ASSUME format \in Seq(Characters), NEW i \in 1 .. Len(format)
    PROVE  Shows(i) \in Seq(Pieces)
  <1>1. i \in Nat /\ format[i] \in Characters
    <2>1. Len(format) \in Nat
      OBVIOUS
    <2> QED
      BY <2>1
  <1>2. ArgumentOf(i) \in Nat
    BY <1>1, ArgumentType
  <1>3. [as |-> format[i], number |-> ArgumentOf(i)] \in Pieces /\ format[i] \in Pieces
    BY <1>1, <1>2 DEF Pieces
  <1> QED
    BY <1>3 DEF Shows

LEMMA ShownByType ==
    ASSUME format \in Seq(Characters), NEW k \in 0 .. Len(format)
    PROVE  /\ [i \in 1 .. k |-> Shows(i)] \in Seq(Seq(Pieces))
           /\ ShownBy(k) \in Seq(Pieces)
  <1> DEFINE B == Seq(Pieces)
             shows == [i \in 1 .. k |-> Shows(i)]
  <1>1. \A i \in 1 .. k : Shows(i) \in B
    BY ShowsType
  <1>2. shows \in Seq(B)
    <2> HIDE DEF B
    <2> QED
      BY <1>1
  <1>3. FlattenSeq(shows) \in Seq(Pieces)
    <2> HIDE DEF shows
    <2> QED
      BY <1>2, FlattenType
  <1> QED
    BY <1>2, <1>3 DEF ShownBy

LEMMA ShownByMore ==
    ASSUME format \in Seq(Characters), NEW k \in Nat, k + 1 <= Len(format)
    PROVE  ShownBy(k + 1) = ShownBy(k) \o Shows(k + 1)
  <1> DEFINE shows == [i \in 1 .. k |-> Shows(i)]
             more == [i \in 1 .. k + 1 |-> Shows(i)]
  <1>1. shows \in Seq(Seq(Pieces)) /\ k \in 0 .. Len(format) /\ k + 1 \in 1 .. Len(format)
    BY ShownByType
  <1>2. Shows(k + 1) \in Seq(Pieces)
    BY <1>1, ShowsType
  <1>3. more = Append(shows, Shows(k + 1))
    <2>1. Len(shows) = k /\ \A i \in 1 .. k : shows[i] = Shows(i)
      OBVIOUS
    <2>2. DOMAIN Append(shows, Shows(k + 1)) = 1 .. k + 1
      BY <2>1
    <2>3. \A i \in 1 .. k + 1 : Append(shows, Shows(k + 1))[i] = Shows(i)
      BY <2>1
    <2> QED
      BY <2>2, <2>3
  <1>4. FlattenSeq(Append(shows, Shows(k + 1))) = FlattenSeq(shows) \o Shows(k + 1)
    <2> HIDE DEF shows
    <2> QED
      BY <1>1, <1>2, FlattenAppend
  <1> QED
    BY <1>3, <1>4 DEF ShownBy

(* Text without a percent sign shows itself.                                *)
LEMMA PlainShows ==
    ASSUME format \in Seq(Characters), NEW p \in Nat, NEW m \in Nat, p <= m, m <= Len(format),
           ~Escapes[p], \A j \in p + 1 .. m : format[j] # "%"
    PROVE  /\ \A j \in p .. m : ~Escapes[j]
           /\ \A j \in p + 1 .. m : Shows(j) = <<format[j]>>
  <1>1. \A j \in p .. m : ~Escapes[j]
    <2> SUFFICES ASSUME NEW j \in p .. m, j # p PROVE ~Escapes[j]
      OBVIOUS
    <2>1. j \in p + 1 .. m /\ j \in 0 .. Len(format)
      OBVIOUS
    <2> QED
      BY <2>1, EscapesFacts
  <1>2. \A j \in p + 1 .. m : j \in p .. m /\ j - 1 \in p .. m
    OBVIOUS
  <1> QED
    BY <1>1, <1>2 DEF Shows

LEMMA PieceOneMore ==
    ASSUME NEW A, NEW s \in Seq(A), NEW p \in Nat, NEW n \in Nat, p <= n, n + 1 <= Len(s)
    PROVE  /\ SubSeq(s, p + 1, n) \in Seq(A) /\ <<s[n + 1]>> \in Seq(A)
           /\ SubSeq(s, p + 1, n + 1) = SubSeq(s, p + 1, n) \o <<s[n + 1]>>
  <1>1. PICK l \in Nat : l = Len(s) /\ n + 1 <= l
    OBVIOUS
  <1>2. \A i \in 1 .. l : s[i] \in A
    BY <1>1
  <1>3. PICK k \in Nat : k = n - p
    OBVIOUS
  <1>4. SubSeq(s, p + 1, n) = [i \in 1 .. k |-> s[i + p]]
    <2>1. SubSeq(s, p + 1, n) = [i \in 1 .. n - (p + 1) + 1 |-> s[i + (p + 1) - 1]]
      OBVIOUS
    <2>2. n - (p + 1) + 1 = k /\ \A i \in 1 .. k : i + (p + 1) - 1 = i + p
      BY <1>3
    <2> QED
      BY <2>1, <2>2
  <1>5. SubSeq(s, p + 1, n + 1) = [i \in 1 .. k + 1 |-> s[i + p]]
    <2>1. SubSeq(s, p + 1, n + 1) = [i \in 1 .. (n + 1) - (p + 1) + 1 |-> s[i + (p + 1) - 1]]
      OBVIOUS
    <2>2. (n + 1) - (p + 1) + 1 = k + 1 /\ \A i \in 1 .. k + 1 : i + (p + 1) - 1 = i + p
      BY <1>3
    <2> QED
      BY <2>1, <2>2
  <1>6. \A i \in 1 .. k + 1 : i + p \in 1 .. l
    BY <1>1, <1>3
  <1>7. k + 1 + p = n + 1 /\ n + 1 \in 1 .. l
    BY <1>1, <1>3
  <1> QED
    BY <1>2, <1>4, <1>5, <1>6, <1>7

ShowsItself(p, n) == ShownBy(n) = ShownBy(p) \o SubSeq(format, p + 1, n)

LEMMA ShowsOneMore ==
    ASSUME format \in Seq(Characters), NEW p \in Nat, NEW n \in Nat, p <= n, n + 1 <= Len(format),
           ShowsItself(p, n), Shows(n + 1) = <<format[n + 1]>>
    PROVE  ShowsItself(p, n + 1)
  <1>1. PICK l \in Nat : l = Len(format)
    OBVIOUS
  <1>2. p \in 0 .. Len(format) /\ n + 1 \in 1 .. Len(format)
    BY <1>1
  <1>3. ShownBy(n + 1) = ShownBy(n) \o Shows(n + 1)
    BY ShownByMore
  <1>4. PICK s \in Seq(Characters) : s = SubSeq(format, p + 1, n)
    BY PieceOneMore
  <1>5. PICK c \in Characters : c = format[n + 1]
    BY <1>2
  <1>6. SubSeq(format, p + 1, n + 1) = s \o <<c>>
    BY <1>4, <1>5, PieceOneMore
  <1>7. PICK x \in Seq(Pieces) : x = ShownBy(p)
    BY <1>2, ShownByType
  <1>8. s \in Seq(Pieces) /\ <<c>> \in Seq(Pieces)
    BY DEF Pieces
  <1>9. (x \o s) \o <<c>> = x \o (s \o <<c>>)
    <2>1. PICK u \in Seq(Pieces) : u = <<c>>
      BY <1>8
    <2>2. (x \o s) \o u = x \o (s \o u)
      BY SMTT(60), <1>8, ConcatAssociative
    <2> QED
      BY <2>1, <2>2
  <1> QED
    BY <1>3, <1>4, <1>5, <1>6, <1>7, <1>9 DEF ShowsItself

LEMMA PlainShown ==
    ASSUME format \in Seq(Characters), NEW p \in Nat, NEW m \in Nat, p <= m, m <= Len(format),
           \A j \in p + 1 .. m : Shows(j) = <<format[j]>>
    PROVE  ShownBy(m) = ShownBy(p) \o SubSeq(format, p + 1, m)
  <1> DEFINE N == {k \in Nat : p + k <= m => ShowsItself(p, p + k)}
  <1>1. 0 \in N
    <2>1. SubSeq(format, p + 1, p) = <<>>
      OBVIOUS
    <2>2. Len(format) \in Nat
      OBVIOUS
    <2>3. ShownBy(p) \in Seq(Pieces)
      BY <2>2, ShownByType
    <2>4. ShowsItself(p, p)
      BY <2>1, <2>3 DEF ShowsItself
    <2> QED
      BY <2>4
  <1>2. ASSUME NEW k \in Nat, k \in N PROVE k + 1 \in N
    <2> SUFFICES ASSUME p + (k + 1) <= m PROVE ShowsItself(p, p + (k + 1))
      OBVIOUS
    <2>1. PICK n \in Nat : n = p + k
      OBVIOUS
    <2>2. Len(format) \in Nat
      OBVIOUS
    <2>3. p <= n /\ n + 1 <= Len(format) /\ n + 1 \in p + 1 .. m /\ p + (k + 1) = n + 1
      BY <2>1, <2>2
    <2>4. ShowsItself(p, n)
      BY <1>2, <2>1, <2>3
    <2>5. Shows(n + 1) = <<format[n + 1]>>
      BY <2>3
    <2> QED
      BY <2>3, <2>4, <2>5, ShowsOneMore
  <1>3. Nat \subseteq N
    <2> HIDE DEF N
    <2> QED
      BY <1>1, <1>2, NaturalInduction
  <1>4. m - p \in Nat /\ p + (m - p) = m /\ m <= m
    OBVIOUS
  <1>5. p + (m - p) <= m => ShowsItself(p, p + (m - p))
    BY <1>3, <1>4
  <1>6. ShowsItself(p, m)
    BY <1>4, <1>5
  <1> QED
    BY <1>6 DEF ShowsItself

(* No argument is asked for in it.                                          *)
LEMMA PlainAsksNothing ==
    ASSUME NEW p \in Nat, NEW m \in Nat, p <= m, \A j \in p .. m - 1 : ~Escapes[j]
    PROVE  ArgumentOf(m) = ArgumentOf(p)
  <1>1. {j \in 1 .. m : Escapes[j - 1] /\ TakesArgument(format[j])}
            = {j \in 1 .. p : Escapes[j - 1] /\ TakesArgument(format[j])}
    <2>1. \A j \in 1 .. m : Escapes[j - 1] => j \in 1 .. p
      <3> SUFFICES ASSUME NEW j \in 1 .. m, j > p PROVE ~Escapes[j - 1]
        OBVIOUS
      <3>1. j - 1 \in p .. m - 1
        OBVIOUS
      <3> QED
        BY <3>1
    <2> QED
      BY <2>1
  <1> QED
    BY <1>1 DEF ArgumentOf

LEMMA AsksOne ==
    ASSUME NEW q \in Nat, Escapes[q]
    PROVE  ArgumentOf(q + 1) = IF TakesArgument(format[q + 1]) THEN ArgumentOf(q) + 1 ELSE ArgumentOf(q)
  <1> DEFINE asks(i) == {j \in 1 .. i : Escapes[j - 1] /\ TakesArgument(format[j])}
  <1>1. (q + 1) - 1 = q /\ 1 .. q + 1 = (1 .. q) \union {q + 1} /\ q + 1 \notin 1 .. q
    OBVIOUS
  <1>2. asks(q + 1) = IF TakesArgument(format[q + 1]) THEN asks(q) \union {q + 1} ELSE asks(q)
    BY <1>1
  <1>3. IsFiniteSet(asks(q)) /\ q + 1 \notin asks(q)
    BY <1>1, ArgumentType
  <1>4. Cardinality(asks(q) \union {q + 1}) = Cardinality(asks(q)) + 1
    <2> HIDE DEF asks
    <2> QED
      BY <1>3, FS_AddElement
  <1>5. ArgumentOf(q) = Cardinality(asks(q)) /\ ArgumentOf(q + 1) = Cardinality(asks(q + 1))
    BY DEF ArgumentOf
  <1> HIDE DEF asks
  <1> QED
    BY <1>2, <1>4, <1>5

-----------------------------------------------------------------------------

(* The loop has read p characters, and the last of them asks for none more. *)
HasReadTo(p) ==
    /\ rest = SubSeq(format, p + 1, Len(format)) /\ ~Escapes[p]
    /\ output = ShownBy(p) /\ argument = 1 + ArgumentOf(p)

PrintInv ==
    /\ format \in Seq(Characters) /\ size \in Nat
    /\ returned = -1 => \E p \in 0 .. Len(format) : HasReadTo(p)
    /\ returned # -1 => output = ShownBy(Len(format))

LEMMA PrintSame ==
    ASSUME format' = format
    PROVE  /\ Escapes' = Escapes
           /\ \A k : ShownBy(k)' = ShownBy(k) /\ ArgumentOf(k)' = ArgumentOf(k)
  BY DEF Escapes, ShownBy, Shows, ArgumentOf

LEMMA RestIs ==
    ASSUME format \in Seq(Characters), NEW p \in 0 .. Len(format), HasReadTo(p)
    PROVE  /\ Len(format) \in Nat /\ p \in Nat /\ p <= Len(format)
           /\ rest \in Seq(Characters) /\ Len(rest) = Len(format) - p /\ Len(rest) \in Nat
           /\ DOMAIN rest = 1 .. Len(rest)
           /\ \A j \in 1 .. Len(rest) : rest[j] = format[p + j]
           /\ \A m \in 0 .. Len(rest) :
                /\ SubSeq(rest, 1, m) = SubSeq(format, p + 1, p + m)
                /\ SubSeq(rest, m + 1, Len(rest)) = SubSeq(format, p + m + 1, Len(format))
  BY DEF HasReadTo

LEMMA PositionIs ==
    ASSUME rest \in Seq(Characters), Percents # {}
    PROVE  /\ Position \in 1 .. Len(rest) /\ rest[Position] = "%"
           /\ \A j \in 1 .. Position - 1 : rest[j] # "%"
  <1>1. Percents \subseteq 1 .. Len(rest) /\ Len(rest) \in Nat
    BY DEF Percents
  <1>2. \E i \in Percents : \A j \in Percents : i <= j
    <2>1. Percents \subseteq Nat
      BY <1>1
    <2> QED
      BY <2>1, LeastNatural
  <1>3. Position \in Percents /\ \A j \in Percents : Position <= j
    BY <1>2 DEF Position
  <1>4. ASSUME NEW j \in 1 .. Position - 1 PROVE rest[j] # "%"
    <2>1. j \in 1 .. Len(rest) /\ ~(Position <= j)
      BY <1>1, <1>3
    <2> QED
      BY <1>3, <2>1 DEF Percents
  <1> QED
    BY <1>1, <1>3, <1>4 DEF Percents

LEMMA CallPrintfKeeps ==
    ASSUME PrintInv, CallPrintf
    PROVE  PrintInv'
  <1>1. format' \in Seq(Characters)
    <2>1. PICK n \in 0 .. MaxFormat : format' \in [1 .. n -> Characters]
      BY DEF CallPrintf, Formats
    <2>2. n \in Nat
      BY PrintfAssumption DEF PrintfAssumption
    <2> QED
      BY <2>1, <2>2
  <1>2. /\ returned' = -1 /\ rest' = format' /\ argument' = 1 /\ output' = <<>> /\ size' = 0
    BY DEF CallPrintf
  <1>3. rest' = SubSeq(format', 0 + 1, Len(format'))
    BY <1>1, <1>2
  <1>4. ~Escapes'[0]
    <2>1. Escapes' = EscapesOf(format')
      BY DEF Escapes, EscapesOf
    <2>2. Len(format') \in Nat /\ 0 \in 0 .. Len(format')
      BY <1>1
    <2>3. EscapesOf(format')[0] => 0 > 0
      BY <2>2, EscapesExist
    <2> QED
      BY <2>1, <2>3
  <1>5. ShownBy(0)' = <<>>
    <2>1. [i \in 1 .. 0 |-> Shows(i)'] = <<>>
      OBVIOUS
    <2>2. FlattenSeq([i \in 1 .. 0 |-> Shows(i)']) = <<>>
      BY <2>1, FlattenNone
    <2> QED
      BY <2>2 DEF ShownBy
  <1>6. ArgumentOf(0)' = 0
    <2>1. {j \in 1 .. 0 : Escapes'[j - 1] /\ TakesArgument(format'[j])} = {}
      OBVIOUS
    <2>2. Cardinality({j \in 1 .. 0 : Escapes'[j - 1] /\ TakesArgument(format'[j])}) = 0
      BY <2>1, FS_EmptySet
    <2> QED
      BY <2>2 DEF ArgumentOf, TakesArgument
  <1>7. HasReadTo(0)'
    BY <1>2, <1>3, <1>4, <1>5, <1>6 DEF HasReadTo
  <1>8. 0 \in 0 .. Len(format')
    BY <1>1
  <1> QED
    BY <1>1, <1>2, <1>7, <1>8 DEF PrintInv

(* The call has written all that the format shows.                          *)
LEMMA PrintEnds ==
    ASSUME PrintInv, format' = format, size' \in Nat, returned' \in Nat,
           output' = ShownBy(Len(format))
    PROVE  PrintInv'
  <1>1. PICK n : n = Len(format)
    OBVIOUS
  <1>2. ShownBy(n)' = ShownBy(n)
    BY PrintSame
  <1>3. returned' # -1
    OBVIOUS
  <1>4. output' = ShownBy(Len(format))'
    BY <1>1, <1>2 DEF ShownBy
  <1> QED
    BY <1>3, <1>4 DEF PrintInv

LEMMA PrintRestKeeps ==
    ASSUME PrintInv, PrintRest
    PROVE  PrintInv'
  <1>1. /\ returned = -1 /\ Percents = {} /\ output' = output \o rest
        /\ returned' = size + Len(rest) /\ format' = format /\ size' = size
    BY DEF PrintRest, Emit
  <1>2. format \in Seq(Characters) /\ size \in Nat
    BY DEF PrintInv
  <1>3. PICK p \in 0 .. Len(format) : HasReadTo(p)
    BY <1>1 DEF PrintInv
  <1>4. /\ Len(format) \in Nat /\ p \in Nat /\ p <= Len(format)
        /\ rest \in Seq(Characters) /\ Len(rest) = Len(format) - p /\ Len(rest) \in Nat
        /\ DOMAIN rest = 1 .. Len(rest)
        /\ \A j \in 1 .. Len(rest) : rest[j] = format[p + j]
    BY <1>2, <1>3, RestIs
  <1>5. \A j \in p + 1 .. Len(format) : format[j] # "%"
    <2> SUFFICES ASSUME NEW j \in p + 1 .. Len(format), format[j] = "%" PROVE FALSE
      OBVIOUS
    <2>1. j - p \in 1 .. Len(rest) /\ p + (j - p) = j
      BY <1>4
    <2>2. j - p \in Percents
      BY <1>4, <2>1 DEF Percents
    <2> QED
      BY <1>1, <2>2
  <1>6. ~Escapes[p] /\ output = ShownBy(p) /\ rest = SubSeq(format, p + 1, Len(format))
    BY <1>3 DEF HasReadTo
  <1>7. PICK n \in Nat : n = Len(format)
    BY <1>4
  <1>8. p <= n /\ n <= Len(format) /\ \A j \in p + 1 .. n : format[j] # "%"
    BY <1>4, <1>5, <1>7
  <1>9. \A j \in p + 1 .. n : Shows(j) = <<format[j]>>
    BY <1>2, <1>4, <1>6, <1>8, PlainShows
  <1>10. ShownBy(n) = ShownBy(p) \o SubSeq(format, p + 1, n)
    BY <1>2, <1>4, <1>8, <1>9, PlainShown
  <1>11. output' = ShownBy(Len(format)) /\ size' \in Nat /\ returned' \in Nat
    BY <1>1, <1>2, <1>4, <1>6, <1>7, <1>10
  <1> QED
    BY <1>1, <1>11, PrintEnds

(* Up to the next percent sign, at q, and with it.                          *)
LEMMA UpToPercent ==
    ASSUME PrintInv, NEW p \in 0 .. Len(format), HasReadTo(p), Percents # {}
    PROVE  /\ p + Position \in 1 .. Len(format) /\ Position \in Nat
           /\ Before \in Seq(Characters)
           /\ Escapes[p + Position] /\ Shows(p + Position) = <<>>
           /\ ShownBy(p + Position) = output \o Before
           /\ ShownBy(p + Position) \in Seq(Pieces)
           /\ ArgumentOf(p + Position) = ArgumentOf(p)
  <1>1. format \in Seq(Characters)
    BY DEF PrintInv
  <1>2. /\ Len(format) \in Nat /\ p \in Nat /\ p <= Len(format)
        /\ rest \in Seq(Characters) /\ Len(rest) = Len(format) - p /\ Len(rest) \in Nat
        /\ \A j \in 1 .. Len(rest) : rest[j] = format[p + j]
        /\ \A m \in 0 .. Len(rest) : SubSeq(rest, 1, m) = SubSeq(format, p + 1, p + m)
    BY <1>1, RestIs
  <1>3. PICK m \in Nat : /\ m + 1 = Position /\ m + 1 \in 1 .. Len(rest) /\ rest[m + 1] = "%"
                         /\ \A j \in 1 .. m : rest[j] # "%"
    <2>1. /\ Position \in 1 .. Len(rest) /\ rest[Position] = "%"
          /\ \A j \in 1 .. Position - 1 : rest[j] # "%"
      BY <1>2, PositionIs
    <2>2. Position - 1 \in Nat /\ (Position - 1) + 1 = Position
      BY <2>1
    <2> QED
      BY <2>1, <2>2
  <1>4. PICK q \in Nat : q = p + m /\ q + 1 = p + Position /\ p <= q /\ q + 1 <= Len(format)
    BY <1>2, <1>3
  <1>5. \A j \in p + 1 .. q : format[j] # "%"
    <2> SUFFICES ASSUME NEW j \in p + 1 .. q PROVE format[j] # "%"
      OBVIOUS
    <2>1. j - p \in 1 .. m /\ p + (j - p) = j /\ j - p \in 1 .. Len(rest)
      BY <1>2, <1>3, <1>4
    <2> QED
      BY <1>2, <1>3, <2>1
  <1>6. ~Escapes[p] /\ output = ShownBy(p)
    BY DEF HasReadTo
  <1>7. q <= Len(format) /\ q \in p .. q /\ q + 1 \in 0 .. Len(format) /\ q + 1 \in 1 .. Len(format)
    BY <1>2, <1>4
  <1>8. /\ \A j \in p .. q : ~Escapes[j]
        /\ \A j \in p + 1 .. q : Shows(j) = <<format[j]>>
    BY <1>1, <1>2, <1>4, <1>5, <1>6, <1>7, PlainShows
  <1>9. ShownBy(q) = ShownBy(p) \o SubSeq(format, p + 1, q)
    BY <1>1, <1>2, <1>4, <1>7, <1>8, PlainShown
  <1>10. Before = SubSeq(format, p + 1, q) /\ Before \in Seq(Characters)
    <2>1. Position - 1 = m /\ m \in 0 .. Len(rest)
      BY <1>3
    <2> QED
      BY <1>2, <1>4, <2>1 DEF Before
  <1>11. format[q + 1] = "%"
    BY <1>2, <1>3, <1>4
  <1>12. Escapes[q + 1]
    <2>1. (q + 1) - 1 = q /\ q + 1 > 0
      OBVIOUS
    <2> QED
      BY <1>1, <1>7, <1>8, <1>11, <2>1, EscapesFacts
  <1>13. Shows(q + 1) = <<>>
    BY <1>12 DEF Shows
  <1>14. ShownBy(q + 1) = ShownBy(q) /\ ShownBy(q) \in Seq(Pieces)
    <2>1. ShownBy(q + 1) = ShownBy(q) \o Shows(q + 1)
      BY <1>1, <1>4, ShownByMore
    <2>2. ShownBy(q) \in Seq(Pieces)
      BY <1>1, <1>4, <1>7, ShownByType
    <2> QED
      BY <1>13, <2>1, <2>2
  <1>15. ArgumentOf(q + 1) = ArgumentOf(p)
    <2>1. PICK m1 \in Nat : m1 = q + 1 /\ m1 - 1 = q /\ p <= m1
      BY <1>4
    <2>2. \A j \in p .. m1 - 1 : ~Escapes[j]
      BY <1>8, <2>1
    <2>3. p \in Nat
      BY <1>2
    <2>4. ArgumentOf(m1) = ArgumentOf(p)
      BY <2>1, <2>2, <2>3, PlainAsksNothing
    <2> QED
      BY <2>1, <2>4
  <1>16. PICK r : r = p + Position
    OBVIOUS
  <1>17. r = q + 1 /\ Position \in Nat
    BY <1>3, <1>4, <1>16
  <1>18. ShownBy(r) = output \o Before /\ ShownBy(r) \in Seq(Pieces)
    BY <1>6, <1>9, <1>10, <1>14, <1>17
  <1>19. r \in 1 .. Len(format) /\ Escapes[r] /\ Shows(r) = <<>> /\ ArgumentOf(r) = ArgumentOf(p)
    BY <1>7, <1>12, <1>13, <1>15, <1>17
  <1> QED
    BY <1>10, <1>16, <1>17, <1>18, <1>19

LEMMA EndOnPercentKeeps ==
    ASSUME PrintInv, EndOnPercent
    PROVE  PrintInv'
  <1>1. /\ returned = -1 /\ Percents # {} /\ Position = Len(rest) /\ output' = output \o Before
        /\ size' = size + Len(Before) /\ returned' = size' + Len(rest) /\ format' = format
    BY DEF EndOnPercent, Emit
  <1>2. format \in Seq(Characters) /\ size \in Nat
    BY DEF PrintInv
  <1>3. PICK p \in 0 .. Len(format) : HasReadTo(p)
    BY <1>1 DEF PrintInv
  <1>4. Len(rest) = Len(format) - p /\ Len(rest) \in Nat /\ Len(format) \in Nat
    BY <1>2, <1>3, RestIs
  <1>5. ShownBy(p + Position) = output \o Before /\ Before \in Seq(Characters)
    BY <1>1, <1>3, UpToPercent
  <1>6. p + Position = Len(format)
    BY <1>1, <1>4
  <1>7. output' = ShownBy(Len(format)) /\ size' \in Nat /\ returned' \in Nat
    BY <1>1, <1>2, <1>4, <1>5, <1>6
  <1> QED
    BY <1>1, <1>7, PrintEnds

LEMMA ConvertKeeps ==
    ASSUME PrintInv, Convert
    PROVE  PrintInv'
  <1> DEFINE specifier == rest[Position + 1]
  <1>1. /\ returned = -1 /\ Percents # {} /\ Position < Len(rest)
        /\ output' = output \o (Before \o Conversion(specifier))
        /\ argument' = IF TakesArgument(specifier) THEN argument + 1 ELSE argument
        /\ size' = size + Len(Before) /\ format' = format
        /\ IF Position + 1 = Len(rest) THEN returned' = size' + Len(rest)
           ELSE rest' = AfterSpecifier /\ returned' = returned
    BY DEF Convert, Emit
  <1>2. format \in Seq(Characters) /\ size \in Nat
    BY DEF PrintInv
  <1>3. PICK p \in 0 .. Len(format) : HasReadTo(p)
    BY <1>1 DEF PrintInv
  <1>4. /\ Len(format) \in Nat /\ p \in Nat /\ p <= Len(format)
        /\ rest \in Seq(Characters) /\ Len(rest) = Len(format) - p /\ Len(rest) \in Nat
        /\ \A j \in 1 .. Len(rest) : rest[j] = format[p + j]
        /\ \A m \in 0 .. Len(rest) :
                SubSeq(rest, m + 1, Len(rest)) = SubSeq(format, p + m + 1, Len(format))
    BY <1>2, <1>3, RestIs
  <1>5. PICK q \in Nat : q = p + Position
    <2>1. p + Position \in 1 .. Len(format)
      BY <1>1, <1>3, UpToPercent
    <2>2. PICK r : r = p + Position
      OBVIOUS
    <2>3. r \in Nat
      BY <1>4, <2>1, <2>2
    <2> QED
      BY <2>2, <2>3
  <1>6. /\ q \in 1 .. Len(format) /\ Position \in Nat /\ Before \in Seq(Characters)
        /\ Escapes[q] /\ ShownBy(q) = output \o Before /\ ShownBy(q) \in Seq(Pieces)
        /\ ArgumentOf(q) = ArgumentOf(p)
    BY <1>1, <1>3, <1>5, UpToPercent
  <1>7. q + 1 <= Len(format) /\ q + 1 \in 0 .. Len(format) /\ q + 1 \in 1 .. Len(format)
        /\ p + (Position + 1) = q + 1 /\ Position + 1 \in 1 .. Len(rest)
    BY <1>1, <1>4, <1>5, <1>6
  <1>8. specifier = format[q + 1]
    BY <1>4, <1>7
  <1>9. ArgumentOf(q) \in Nat /\ argument = 1 + ArgumentOf(q)
    BY <1>3, <1>6, ArgumentType DEF HasReadTo
  <1>10. ArgumentOf(q + 1) = IF TakesArgument(specifier) THEN ArgumentOf(q) + 1 ELSE ArgumentOf(q)
    BY <1>6, <1>8, AsksOne
  <1>11. ~Escapes[q + 1]
    <2>1. (q + 1) - 1 = q
      OBVIOUS
    <2> QED
      BY <1>2, <1>6, <1>7, <2>1, EscapesFacts
  <1>12. Shows(q + 1) = Conversion(specifier)
    <2>1. (q + 1) - 1 = q
      OBVIOUS
    <2> HIDE DEF specifier
    <2>2. TakesArgument(specifier) => ArgumentOf(q + 1) = argument
      BY <1>9, <1>10
    <2> QED
      BY <1>6, <1>8, <1>11, <2>1, <2>2 DEF Shows, Conversion
  <1>13. ShownBy(q + 1) = output'
    <2>1. ShownBy(q + 1) = ShownBy(q) \o Shows(q + 1)
      BY <1>2, <1>7, ShownByMore
    <2>2. Shows(q + 1) \in Seq(Pieces)
      BY <1>2, <1>7, ShowsType
    <2>3. output \in Seq(Pieces) /\ Before \in Seq(Pieces)
      <3>1. output = ShownBy(p)
        BY <1>3 DEF HasReadTo
      <3> QED
        BY <1>2, <1>3, <1>6, <3>1, ShownByType DEF Pieces
    <2>4. PICK c \in Seq(Pieces) : c = Shows(q + 1)
      BY <2>2
    <2>5. (output \o Before) \o c = output \o (Before \o c)
      BY SMTT(60), <2>3
    <2> HIDE DEF specifier
    <2> QED
      BY <1>1, <1>6, <1>12, <2>1, <2>4, <2>5
  <1>14. size' \in Nat
    BY <1>1, <1>2, <1>6
  <1>15. CASE Position + 1 = Len(rest)
    <2>1. q + 1 = Len(format)
      BY <1>4, <1>7, <1>15
    <2>2. output' = ShownBy(Len(format))
      BY <1>13, <2>1
    <2>3. returned' = size' + Len(rest)
      BY <1>1, <1>15
    <2>4. returned' \in Nat
      BY <1>4, <1>14, <2>3
    <2> QED
      BY <1>1, <1>14, <2>2, <2>4, PrintEnds
  <1>16. CASE Position + 1 # Len(rest)
    <2>1. rest' = SubSeq(format, (q + 1) + 1, Len(format))
      <3>1. Position + 1 \in 0 .. Len(rest) /\ (Position + 1) + 1 = Position + 2
            /\ p + (Position + 1) + 1 = (q + 1) + 1
        BY <1>4, <1>5, <1>6, <1>7
      <3>2. rest' = SubSeq(rest, (Position + 1) + 1, Len(rest))
        BY <1>1, <1>16, <3>1 DEF AfterSpecifier
      <3> QED
        BY <1>4, <3>1, <3>2
    <2>2. argument' = 1 + ArgumentOf(q + 1)
      <3> HIDE DEF specifier
      <3> QED
        BY <1>1, <1>9, <1>10
    <2>3. PICK r \in 0 .. Len(format) : r = q + 1
      BY <1>7
    <2>4. HasReadTo(r)'
      <3>1. ShownBy(r)' = ShownBy(r) /\ ArgumentOf(r)' = ArgumentOf(r) /\ Escapes' = Escapes
        BY <1>1, PrintSame
      <3>2. rest' = SubSeq(format', r + 1, Len(format')) /\ ~Escapes'[r]
        BY <1>1, <1>11, <2>1, <2>3, <3>1
      <3> QED
        BY <1>13, <2>2, <2>3, <3>1, <3>2 DEF HasReadTo
    <2>5. returned' = -1
      BY <1>1, <1>16
    <2> QED
      BY <1>1, <1>2, <1>14, <2>4, <2>5 DEF PrintInv
  <1> QED
    BY <1>15, <1>16

LEMMA PrintStart ==
    ASSUME PrintfInit
    PROVE  PrintInv
  <1>1. format = <<>> /\ output = <<>> /\ size = 0 /\ returned = 0
    BY DEF PrintfInit
  <1>2. ShownBy(0) = <<>>
    <2>1. [i \in 1 .. 0 |-> Shows(i)] = <<>>
      OBVIOUS
    <2> QED
      BY <2>1, FlattenNone DEF ShownBy
  <1>3. Len(format) = 0 /\ returned # -1
    BY <1>1
  <1> QED
    BY <1>1, <1>2, <1>3 DEF PrintInv

LEMMA PrintKept ==
    ASSUME PrintInv, [PartsNext]_partsVars
    PROVE  PrintInv'
  <1>1. CASE UNCHANGED printVars
    <2>1. /\ format' = format /\ rest' = rest /\ argument' = argument /\ output' = output
          /\ size' = size /\ returned' = returned
      BY <1>1 DEF printVars
    <2>2. CASE returned # -1
      <3>1. PICK n : n = Len(format)
        OBVIOUS
      <3>2. ShownBy(n)' = ShownBy(n)
        BY <2>1, PrintSame
      <3>3. output' = ShownBy(Len(format))'
        BY <2>1, <2>2, <3>1, <3>2 DEF PrintInv, ShownBy
      <3> QED
        BY <2>1, <2>2, <3>3 DEF PrintInv
    <2>3. CASE returned = -1
      <3>1. PICK p \in 0 .. Len(format) : HasReadTo(p)
        BY <2>3 DEF PrintInv
      <3>2. ShownBy(p)' = ShownBy(p) /\ ArgumentOf(p)' = ArgumentOf(p) /\ Escapes' = Escapes
        BY <2>1, PrintSame
      <3>3. HasReadTo(p)'
        BY <2>1, <3>1, <3>2 DEF HasReadTo
      <3> QED
        BY <2>1, <2>3, <3>3 DEF PrintInv
    <2> QED
      BY <2>2, <2>3
  <1>2. CASE PrintfNext
    BY <1>2, CallPrintfKeeps, PrintRestKeeps, EndOnPercentKeeps, ConvertKeeps DEF PrintfNext
  <1> QED
    BY <1>1, <1>2 DEF PartsNext, partsVars

LEMMA PrintShows == PrintInv => PrintsText
  <1> SUFFICES ASSUME PrintInv, returned # -1
               PROVE  output = FlattenSeq([i \in DOMAIN format |-> Shows(i)])
    BY DEF PrintsText
  <1>1. DOMAIN format = 1 .. Len(format)
    BY DEF PrintInv
  <1> QED
    BY <1>1 DEF PrintInv, ShownBy

(* Of every format with no other conversions than "%c", "%s" and "%d",      *)
(* wherever they stand, printf writes each character between them once and  *)
(* each argument where it is asked for (printf.hpp).                        *)
THEOREM FormatsAreFollowed == PartsSpec => []PrintsText
  <1>1. PartsInit => PrintInv
    BY PrintStart DEF PartsInit
  <1>2. PrintInv /\ [PartsNext]_partsVars => PrintInv'
    BY PrintKept
  <1> QED
    BY <1>1, <1>2, PrintShows, PTL DEF PartsSpec

-----------------------------------------------------------------------------
(* The text of paths.                                                       *)

(* The piece that ends at each place of a text, and the names so far.       *)
EndsAt(t, n) == t[n] # Slash /\ (n = Len(t) \/ t[n + 1] = Slash)

PiecesUpTo(p, t) ==
    /\ p[0] = <<>>
    /\ \A n \in 1 .. Len(t) : p[n] = IF t[n] = Slash THEN <<>> ELSE Append(p[n - 1], t[n])

NamesUpTo(f, p, t) ==
    /\ f[0] = <<>>
    /\ \A n \in 1 .. Len(t) : f[n] = IF EndsAt(t, n) THEN Append(f[n - 1], p[n]) ELSE f[n - 1]

Scans(p, f, t, S) ==
    /\ p \in [0 .. Len(t) -> Seq(S)] /\ f \in [0 .. Len(t) -> Seq(Seq(S))]
    /\ PiecesUpTo(p, t) /\ NamesUpTo(f, p, t)

(* The first name of a text stands from s to q.                             *)
FirstName(t, s, q) ==
    /\ s \in 1 .. Len(t) /\ \A i \in 1 .. s - 1 : t[i] = Slash
    /\ q \in s .. Len(t) /\ \A i \in s .. q : t[i] # Slash
    /\ q = Len(t) \/ t[q + 1] = Slash

(* What is left of a text behind q, where a slash follows or nothing.       *)
IsLeft(u, t, q) ==
    /\ q \in 0 .. Len(t) /\ (q = Len(t) \/ t[q + 1] = Slash)
    /\ Len(u) = Len(t) - q /\ \A i \in 1 .. Len(u) : u[i] = t[q + i]

LEMMA ScanExists ==
    ASSUME NEW S, NEW t \in Seq(S)
    PROVE  \E p, f : Scans(p, f, t, S) /\ NamesIn(t) = f[Len(t)]
  <1>0. PICK m \in Nat : m = Len(t) /\ \A i \in 1 .. m : t[i] \in S
    BY LenProperties, ElementOfSeq
  <1>1. PICK A : A = Seq(S)
    OBVIOUS
  <1>2. PICK B : B = Seq(Seq(S))
    OBVIOUS
  <1>3. <<>> \in A /\ <<>> \in B
    BY <1>1, <1>2, EmptySeq
  <1> DEFINE Piece(w, n) == IF n = 0 \/ t[n] = Slash THEN <<>> ELSE Append(w[n - 1], t[n])
             DefP(w) == w = [n \in 0 .. Len(t) |-> Piece(w, n)]
             ip == CHOOSE w : DefP(w)
             turnP == [x \in Nat \X A |-> IF x[1] \in 1 .. m /\ t[x[1]] # Slash THEN Append(x[2], t[x[1]]) ELSE <<>>]
  <1>4. PICK p \in [0 .. m -> A] : Iterated(p, m, <<>>, turnP)
    <2>1. turnP \in [Nat \X A -> A]
      <3>1. \A x \in Nat \X A : x[1] \in 1 .. m => Append(x[2], t[x[1]]) \in A
        BY <1>0, <1>1, AppendProperties
      <3> QED
        BY <1>3, <3>1
    <2> HIDE DEF turnP
    <2> QED
      BY <1>3, <2>1, Iterates
  <1>5. ASSUME NEW n \in 1 .. m
        PROVE  p[n] = IF t[n] = Slash THEN <<>> ELSE Append(p[n - 1], t[n])
    <2>1. p[n] = turnP[<<n, p[n - 1]>>]
      <3> HIDE DEF turnP
      <3> QED
        BY <1>4 DEF Iterated
    <2>2. n - 1 \in 0 .. m /\ n \in Nat
      OBVIOUS
    <2>3. <<n, p[n - 1]>> \in Nat \X A
      BY <2>2
    <2> QED
      BY <2>1, <2>3
  <1>6. p[0] = <<>>
    BY <1>4 DEF Iterated
  <1>7. DefP(p)
    <2>1. ASSUME NEW n \in 0 .. m PROVE p[n] = Piece(p, n)
      <3>1. CASE n = 0
        BY <1>6, <3>1
      <3>2. CASE n # 0
        <4>1. n \in 1 .. m
          BY <3>2
        <4>2. p[n] = IF t[n] = Slash THEN <<>> ELSE Append(p[n - 1], t[n])
          BY <1>5, <4>1
        <4> QED
          BY <3>2, <4>2
      <3> QED
        BY <3>1, <3>2
    <2>2. p = [n \in 0 .. m |-> p[n]]
      OBVIOUS
    <2> HIDE DEF Piece
    <2> QED
      BY <1>0, <2>1, <2>2
  <1>8. DefP(ip)
    <2> HIDE DEF DefP
    <2> QED
      BY <1>7
  <1>9. PICK q : q = ip
    BY Zenon
  <1>10. q = p
    <2>1. q = [n \in 0 .. m |-> Piece(q, n)]
      BY <1>0, <1>8, <1>9
    <2>2. \A n \in 0 .. m : q[n] = Piece(q, n)
      <3> HIDE DEF Piece
      <3> QED
        BY <2>1
    <2> DEFINE T == {n \in Nat : n <= m => q[n] = p[n]}
    <2>3. 0 \in T
      BY <1>6, <2>2
    <2>4. ASSUME NEW n \in Nat, n \in T PROVE n + 1 \in T
      <3> SUFFICES ASSUME n + 1 <= m PROVE q[n + 1] = p[n + 1]
        OBVIOUS
      <3>1. n + 1 \in 1 .. m /\ n + 1 \in 0 .. m /\ (n + 1) - 1 = n /\ n + 1 # 0
        OBVIOUS
      <3>2. q[n] = p[n]
        BY <2>4
      <3>3. q[n + 1] = Piece(q, n + 1)
        <4> HIDE DEF Piece
        <4> QED
          BY <2>2, <3>1
      <3> QED
        BY <1>5, <3>1, <3>2, <3>3
    <2>5. Nat \subseteq T
      <3> HIDE DEF T
      <3> QED
        BY <2>3, <2>4, NaturalInduction
    <2>6. \A n \in 0 .. m : q[n] = p[n]
      BY <2>5
    <2>7. p = [n \in 0 .. m |-> p[n]] /\ q = [n \in 0 .. m |-> q[n]]
      <3> HIDE DEF Piece
      <3> QED
        BY <2>1, <2>2
    <2> QED
      BY <2>6, <2>7
  <1> DEFINE Name(w, v, n) ==
                 IF n = 0 THEN <<>>
                 ELSE IF t[n] # Slash /\ (n = Len(t) \/ t[n + 1] = Slash) THEN Append(w[n - 1], v[n]) ELSE w[n - 1]
             DefF(w, v) == w = [n \in 0 .. Len(t) |-> Name(w, v, n)]
             jf(v) == CHOOSE w : DefF(w, v)
             turnF == [x \in Nat \X B |-> IF x[1] \in 1 .. m /\ EndsAt(t, x[1]) THEN Append(x[2], p[x[1]]) ELSE x[2]]
  <1>11. PICK f \in [0 .. m -> B] : Iterated(f, m, <<>>, turnF)
    <2>1. turnF \in [Nat \X B -> B]
      <3>1. \A x \in Nat \X B : x[1] \in 1 .. m => Append(x[2], p[x[1]]) \in B
        <4>1. \A i \in 1 .. m : p[i] \in Seq(S)
          BY <1>1
        <4> QED
          BY <1>2, <4>1, AppendProperties
      <3> QED
        BY <3>1
    <2> HIDE DEF turnF
    <2> QED
      BY <1>3, <2>1, Iterates
  <1>12. ASSUME NEW n \in 1 .. m
        PROVE  f[n] = IF EndsAt(t, n) THEN Append(f[n - 1], p[n]) ELSE f[n - 1]
    <2>1. f[n] = turnF[<<n, f[n - 1]>>]
      <3> HIDE DEF turnF
      <3> QED
        BY <1>11 DEF Iterated
    <2>2. n - 1 \in 0 .. m /\ n \in Nat
      OBVIOUS
    <2>3. <<n, f[n - 1]>> \in Nat \X B
      BY <2>2
    <2> QED
      BY <2>1, <2>3
  <1>13. f[0] = <<>>
    BY <1>11 DEF Iterated
  <1>14. DefF(f, p)
    <2>1. ASSUME NEW n \in 0 .. m PROVE f[n] = Name(f, p, n)
      <3>1. CASE n = 0
        BY <1>13, <3>1
      <3>2. CASE n # 0
        <4>1. n \in 1 .. m
          BY <3>2
        <4>2. f[n] = IF EndsAt(t, n) THEN Append(f[n - 1], p[n]) ELSE f[n - 1]
          BY <1>12, <4>1
        <4> QED
          BY <3>2, <4>2 DEF EndsAt
      <3> QED
        BY <3>1, <3>2
    <2>2. f = [n \in 0 .. m |-> f[n]]
      OBVIOUS
    <2> HIDE DEF Name
    <2> QED
      BY <1>0, <2>1, <2>2
  <1>15. DefF(jf(p), p)
    <2> HIDE DEF DefF
    <2> QED
      BY <1>14
  <1>16. NamesIn(t) = jf(ip)[Len(t)]
    BY DEF NamesIn
  <1>17. PICK h : h = jf(p)
    BY Zenon
  <1>18. h = [n \in 0 .. m |-> Name(h, p, n)]
    <2>1. DefF(h, p)
      <3> HIDE DEF DefF
      <3> QED
        BY <1>15, <1>17
    <2> HIDE DEF Name
    <2> QED
      BY <1>0, <2>1
  <1>19. \A n \in 0 .. m : h[n] = Name(h, p, n)
    <2> HIDE DEF Name
    <2> QED
      BY <1>18
  <1>20. NamesUpTo(h, p, t) /\ PiecesUpTo(p, t)
    <2>1. h[0] = <<>>
      BY <1>19
    <2>2. \A n \in 1 .. m : n \in 0 .. m /\ n # 0
      OBVIOUS
    <2>3. \A n \in 1 .. m : h[n] = IF EndsAt(t, n) THEN Append(h[n - 1], p[n]) ELSE h[n - 1]
      BY <1>19, <2>2 DEF EndsAt
    <2> QED
      BY <1>0, <1>5, <1>6, <2>1, <2>3 DEF NamesUpTo, PiecesUpTo
  <1>21. h \in [0 .. m -> B]
    <2> DEFINE T == {n \in Nat : n <= m => h[n] \in B}
    <2>1. 0 \in T
      BY <1>3, <1>20 DEF NamesUpTo
    <2>2. ASSUME NEW n \in Nat, n \in T PROVE n + 1 \in T
      <3> SUFFICES ASSUME n + 1 <= m PROVE h[n + 1] \in B
        OBVIOUS
      <3>1. n + 1 \in 1 .. m /\ (n + 1) - 1 = n
        OBVIOUS
      <3>2. h[n] \in B /\ p[n + 1] \in Seq(S)
        BY <1>1, <2>2, <3>1
      <3>3. Append(h[n], p[n + 1]) \in B
        BY <1>2, <3>2, AppendProperties
      <3> QED
        BY <1>0, <1>20, <3>1, <3>2, <3>3 DEF NamesUpTo
    <2>3. Nat \subseteq T
      <3> HIDE DEF T
      <3> QED
        BY <2>1, <2>2, NaturalInduction
    <2>4. \A n \in 0 .. m : h[n] \in B
      BY <2>3
    <2>5. h = [n \in 0 .. m |-> h[n]]
      <3> HIDE DEF Name
      <3> QED
        BY <1>18, <1>19
    <2> QED
      BY <2>4, <2>5
  <1>22. NamesIn(t) = h[Len(t)]
    <2> HIDE DEF jf, ip
    <2> QED
      BY <1>9, <1>10, <1>16, <1>17
  <1> HIDE DEF jf, ip
  <1> QED
    BY <1>0, <1>1, <1>2, <1>20, <1>21, <1>22 DEF Scans

(* Slashes at the start of a text give no name.                             *)
LEMMA NoNameYet ==
    ASSUME NEW S, NEW t \in Seq(S), NEW p, NEW f, PiecesUpTo(p, t), NamesUpTo(f, p, t),
           NEW b \in 0 .. Len(t), \A i \in 1 .. b : t[i] = Slash
    PROVE  \A n \in 0 .. b : p[n] = <<>> /\ f[n] = <<>>
  <1>0. PICK m \in Nat : m = Len(t)
    BY LenProperties
  <1> DEFINE T == {n \in Nat : n <= b => p[n] = <<>> /\ f[n] = <<>>}
  <1>1. 0 \in T
    BY DEF PiecesUpTo, NamesUpTo
  <1>2. ASSUME NEW n \in Nat, n \in T PROVE n + 1 \in T
    <2> SUFFICES ASSUME n + 1 <= b PROVE p[n + 1] = <<>> /\ f[n + 1] = <<>>
      OBVIOUS
    <2>1. n + 1 \in 1 .. m /\ n + 1 \in 1 .. b /\ (n + 1) - 1 = n
      BY <1>0
    <2>2. t[n + 1] = Slash /\ ~ EndsAt(t, n + 1)
      BY <2>1 DEF EndsAt
    <2>3. p[n + 1] = <<>>
      BY <1>0, <2>1, <2>2 DEF PiecesUpTo
    <2>4. f[n + 1] = f[n]
      BY <1>0, <2>1, <2>2 DEF NamesUpTo
    <2> QED
      BY <1>2, <2>3, <2>4
  <1>3. Nat \subseteq T
    <2> HIDE DEF T
    <2> QED
      BY <1>1, <1>2, NaturalInduction
  <1> QED
    BY <1>0, <1>3

LEMMA NoNames ==
    ASSUME NEW S, NEW t \in Seq(S), \A i \in 1 .. Len(t) : t[i] = Slash
    PROVE  NamesIn(t) = <<>>
  <1>1. PICK p, f : Scans(p, f, t, S) /\ NamesIn(t) = f[Len(t)]
    BY ScanExists
  <1>2. PiecesUpTo(p, t) /\ NamesUpTo(f, p, t)
    BY <1>1 DEF Scans
  <1>3. Len(t) \in 0 .. Len(t)
    BY LenProperties
  <1>4. \A n \in 0 .. Len(t) : p[n] = <<>> /\ f[n] = <<>>
    BY <1>2, <1>3, NoNameYet
  <1> QED
    BY <1>1, <1>3, <1>4

(* The characters from the first that is no slash to the next slash are the *)
(* first name.                                                              *)
LEMMA FirstNameEnds ==
    ASSUME NEW S, NEW t \in Seq(S), NEW p, NEW f, PiecesUpTo(p, t), NamesUpTo(f, p, t),
           NEW s, NEW q, FirstName(t, s, q)
    PROVE  f[q] = <<SubSeq(t, s, q)>>
  <1>a. /\ s \in 1 .. Len(t) /\ \A i \in 1 .. s - 1 : t[i] = Slash
        /\ q \in s .. Len(t) /\ \A i \in s .. q : t[i] # Slash
        /\ q = Len(t) \/ t[q + 1] = Slash
    BY DEF FirstName
  <1> USE <1>a
  <1>0. PICK m \in Nat : m = Len(t) /\ \A i \in 1 .. m : t[i] \in S
    BY LenProperties, ElementOfSeq
  <1>1. s - 1 \in 0 .. m /\ s \in 1 .. m /\ q \in s .. m /\ q \in 1 .. m
    BY <1>0
  <1>2. p[s - 1] = <<>> /\ f[s - 1] = <<>>
    <2>1. \A n \in 0 .. s - 1 : p[n] = <<>> /\ f[n] = <<>>
      BY <1>0, <1>1, NoNameYet
    <2> QED
      BY <1>1, <2>1
  <1> DEFINE T == {k \in Nat : s + k <= q =>
                      p[s + k] = SubSeq(t, s, s + k) /\ (s + k < q => f[s + k] = <<>>)}
  <1>3. \A n \in s .. q : n < q => ~ EndsAt(t, n)
    BY <1>0, <1>1 DEF EndsAt
  <1>4. \A n \in s .. q : p[n] = Append(p[n - 1], t[n]) /\ (n < q => f[n] = f[n - 1])
    <2> SUFFICES ASSUME NEW n \in s .. q
                 PROVE  p[n] = Append(p[n - 1], t[n]) /\ (n < q => f[n] = f[n - 1])
      OBVIOUS
    <2>1. n \in 1 .. Len(t) /\ t[n] # Slash
      BY <1>0, <1>1
    <2> QED
      BY <1>3, <2>1 DEF PiecesUpTo, NamesUpTo
  <1>5. \A n \in s .. q : SubSeq(t, s, n) = SubSeq(t, s, n - 1) \o <<t[n]>> /\ SubSeq(t, s, n - 1) \in Seq(S) /\ t[n] \in S
    <2> SUFFICES ASSUME NEW n \in s .. q
                 PROVE  SubSeq(t, s, n) = SubSeq(t, s, n - 1) \o <<t[n]>> /\ SubSeq(t, s, n - 1) \in Seq(S) /\ t[n] \in S
      OBVIOUS
    <2>1. s \in 1 .. Len(t) /\ n \in s .. Len(t) /\ n - 1 \in Int /\ s \in Int
      BY <1>0, <1>1
    <2>2. \A i \in s .. n - 1 : t[i] \in S
      BY <1>0, <1>1
    <2>3. SubSeq(t, s, n) = SubSeq(t, s, n - 1) \o <<t[n]>>
      BY <2>1, SubSeqRecursiveSecond
    <2>4. SubSeq(t, s, n - 1) \in Seq(S)
      BY <2>1, <2>2, SubSeqProperties
    <2> QED
      BY <1>0, <1>1, <2>3, <2>4
  <1>6. SubSeq(t, s, s - 1) = <<>>
    BY <1>1, SubSeqEmpty
  <1>7. \A n \in s .. q : SubSeq(t, s, n) = Append(SubSeq(t, s, n - 1), t[n])
    BY <1>5, AppendIsConcat
  <1>8. 0 \in T
    <2>1. s \in s .. q /\ s + 0 = s
      BY <1>1
    <2>2. p[s] = SubSeq(t, s, s)
      BY <1>2, <1>4, <1>6, <1>7, <2>1
    <2>3. s < q => f[s] = <<>>
      BY <1>2, <1>4, <2>1
    <2> QED
      BY <2>1, <2>2, <2>3
  <1>9. ASSUME NEW k \in Nat, k \in T PROVE k + 1 \in T
    <2> SUFFICES ASSUME s + (k + 1) <= q
                 PROVE  /\ p[s + (k + 1)] = SubSeq(t, s, s + (k + 1))
                        /\ s + (k + 1) < q => f[s + (k + 1)] = <<>>
      OBVIOUS
    <2>1. s + (k + 1) \in s .. q /\ (s + (k + 1)) - 1 = s + k /\ s + k < q
      BY <1>1
    <2>2. p[s + k] = SubSeq(t, s, s + k) /\ f[s + k] = <<>>
      BY <1>1, <1>9, <2>1
    <2>3. PICK n \in s .. q : n = s + (k + 1) /\ n - 1 = s + k
      BY <2>1
    <2>4. p[n] = SubSeq(t, s, n)
      BY <1>4, <1>7, <2>2, <2>3, ZenonT(60)
    <2>5. n < q => f[n] = <<>>
      BY <1>4, <2>2, <2>3
    <2> QED
      BY <2>3, <2>4, <2>5
  <1>10. Nat \subseteq T
    <2> HIDE DEF T
    <2> QED
      BY <1>8, <1>9, NaturalInduction
  <1>11. p[q] = SubSeq(t, s, q)
    <2>1. q - s \in Nat /\ s + (q - s) = q
      BY <1>1
    <2> QED
      BY <1>10, <2>1
  <1>12. f[q - 1] = <<>>
    <2>1. CASE q = s
      BY <1>2, <2>1
    <2>2. CASE q # s
      <3>1. PICK k \in Nat : s + k = q - 1 /\ s + k < q /\ s + k <= q
        <4>1. (q - 1) - s \in Nat /\ s + ((q - 1) - s) = q - 1 /\ q - 1 < q
          BY <1>1, <2>2
        <4> QED
          BY <1>1, <4>1
      <3>2. k \in T
        BY <1>10
      <3>3. f[s + k] = <<>>
        BY <3>1, <3>2
      <3> QED
        BY <3>1, <3>3
    <2> QED
      BY <2>1, <2>2
  <1>13. EndsAt(t, q)
    BY <1>1 DEF EndsAt
  <1>14. f[q] = Append(f[q - 1], p[q])
    BY <1>0, <1>1, <1>13 DEF NamesUpTo
  <1> QED
    BY <1>11, <1>12, <1>14

(* Behind a slash the names are those of what is left.                      *)
LEMMA NamesBehind ==
    ASSUME NEW S, NEW t \in Seq(S), NEW p, NEW f, Scans(p, f, t, S),
           NEW u \in Seq(S), NEW r, NEW g, Scans(r, g, u, S), NEW q, IsLeft(u, t, q)
    PROVE  f[Len(t)] = Joined(f[q], g[Len(u)])
  <1>c. /\ PiecesUpTo(p, t) /\ NamesUpTo(f, p, t) /\ PiecesUpTo(r, u) /\ NamesUpTo(g, r, u)
        /\ g \in [0 .. Len(u) -> Seq(Seq(S))] /\ r \in [0 .. Len(u) -> Seq(S)]
        /\ f \in [0 .. Len(t) -> Seq(Seq(S))]
    BY DEF Scans
  <1>b. /\ q \in 0 .. Len(t) /\ (q = Len(t) \/ t[q + 1] = Slash)
        /\ Len(u) = Len(t) - q /\ \A i \in 1 .. Len(u) : u[i] = t[q + i]
    BY DEF IsLeft
  <1> USE <1>b, <1>c
  <1>d. PICK b \in Seq(Seq(S)) : b = f[q]
    OBVIOUS
  <1>0. PICK m \in Nat, l \in Nat : m = Len(t) /\ l = Len(u) /\ l = m - q
    BY LenProperties
  <1>a. q \in Nat /\ q <= m
    BY <1>0
  <1>1. PICK B : B = Seq(S)
    OBVIOUS
  <1> DEFINE T == {k \in Nat : k <= l => f[q + k] = b \o g[k] /\ (k >= 1 => p[q + k] = r[k])}
  <1>2. 0 \in T
    <2>1. g[0] = <<>> /\ q + 0 = q /\ f[q] = b
      BY <1>0, <1>d DEF NamesUpTo
    <2>2. b \o <<>> = b
      BY <1>1, ConcatEmptySeq
    <2>3. f[q + 0] = b \o g[0]
      BY <2>1, <2>2, Zenon
    <2>4. ~ (0 >= 1)
      OBVIOUS
    <2> QED
      BY <2>3, <2>4
  <1>3. ASSUME NEW k \in Nat, k \in T PROVE k + 1 \in T
    <2>a. k + 1 \in Nat
      OBVIOUS
    <2> SUFFICES ASSUME k + 1 <= l
                 PROVE  f[q + (k + 1)] = b \o g[k + 1] /\ p[q + (k + 1)] = r[k + 1]
      BY <2>a, Zenon
    <2>1. PICK n \in 1 .. m, j \in 1 .. l :
              /\ n = q + (k + 1) /\ n - 1 = q + k /\ j = k + 1 /\ j - 1 = k /\ n = q + j
              /\ j = l <=> n = m
              /\ j # l => n + 1 = q + (j + 1) /\ j + 1 \in 1 .. l
      <3>1. /\ q + (k + 1) \in 1 .. m /\ (q + (k + 1)) - 1 = q + k /\ k + 1 \in 1 .. l /\ (k + 1) - 1 = k
            /\ k + 1 = l <=> q + (k + 1) = m
            /\ k + 1 # l => (q + (k + 1)) + 1 = q + ((k + 1) + 1) /\ (k + 1) + 1 \in 1 .. l
        <4>1. l = m - q
          BY <1>0
        <4> QED
          BY <1>a, <4>1
      <3> QED
        BY <3>1
    <2>2. u[j] = t[n] /\ (j # l => u[j + 1] = t[n + 1])
      BY <1>0, <2>1
    <2>3. EndsAt(u, j) <=> EndsAt(t, n)
      BY <1>0, <2>1, <2>2 DEF EndsAt
    <2>4. f[n - 1] = b \o g[j - 1] /\ (k >= 1 => p[n - 1] = r[j - 1])
      BY <1>3, <2>1
    <2>5. p[n] = r[j]
      <3>1. p[n] = (IF t[n] = Slash THEN <<>> ELSE Append(p[n - 1], t[n]))
        BY <1>0 DEF PiecesUpTo
      <3>2. r[j] = (IF u[j] = Slash THEN <<>> ELSE Append(r[j - 1], u[j]))
        BY <1>0 DEF PiecesUpTo
      <3>3. CASE t[n] = Slash
        BY <2>2, <3>1, <3>2, <3>3
      <3>4. CASE t[n] # Slash
        <4>1. k >= 1
          <5>1. CASE k = 0
            <6>1. n = q + 1 /\ q # m
              BY <1>0, <2>1, <5>1
            <6> QED
              BY <1>0, <3>4, <6>1
          <5> QED
            BY <5>1
        <4> QED
          BY <2>2, <2>4, <3>1, <3>2, <3>4, <4>1
      <3> QED
        BY <3>3, <3>4
    <2>6. f[n] = b \o g[j]
      <3>1. f[n] = (IF EndsAt(t, n) THEN Append(f[n - 1], p[n]) ELSE f[n - 1])
        BY <1>0 DEF NamesUpTo
      <3>2. g[j] = (IF EndsAt(u, j) THEN Append(g[j - 1], r[j]) ELSE g[j - 1])
        BY <1>0 DEF NamesUpTo
      <3>3. g[j - 1] \in Seq(B) /\ r[j] \in B /\ b \in Seq(B)
        <4>1. j - 1 \in 0 .. Len(u) /\ j \in 0 .. Len(u)
          BY <1>0
        <4>2. g[j - 1] \in Seq(Seq(S)) /\ r[j] \in Seq(S)
          BY <4>1
        <4> QED
          BY <1>1, <4>2
      <3>a. PICK w, e : w = g[j - 1] /\ e = r[j]
        OBVIOUS
      <3>b. b \in Seq(B) /\ w \in Seq(B) /\ e \in B
        BY <3>3, <3>a
      <3>4. Append(b \o g[j - 1], r[j]) = b \o Append(g[j - 1], r[j])
        <4>1. PICK x : x = <<e>>
          OBVIOUS
        <4>2. x \in Seq(B) /\ b \o w \in Seq(B)
          BY ONLY <3>b, <4>1, ConcatProperties
        <4>3. Append(b \o w, e) = (b \o w) \o <<e>> /\ Append(w, e) = w \o <<e>>
          BY ONLY <3>b, <4>2, AppendIsConcat
        <4>4. (b \o w) \o x = b \o (w \o x)
          BY ONLY <3>b, <4>2, ConcatAssociative, SMTT(60)
        <4> QED
          BY <3>a, <4>1, <4>3, <4>4
      <3> QED
        BY <2>3, <2>4, <2>5, <3>1, <3>2, <3>4
    <2> QED
      BY <2>1, <2>5, <2>6
  <1>4. Nat \subseteq T
    <2> HIDE DEF T
    <2> QED
      BY <1>2, <1>3, NaturalInduction
  <1>5. l \in T
    <2> HIDE DEF T
    <2> QED
      BY <1>4
  <1>6. q + l = m /\ l <= l
    BY <1>0, <1>a
  <1>7. f[q + l] = b \o g[l]
    BY <1>5, <1>6
  <1> QED
    BY <1>0, <1>6, <1>7, <1>d DEF Joined

(* A text has the names of what follows its first name, and that one before *)
(* them.                                                                    *)
LEMMA FirstNameFirst ==
    ASSUME NEW S, NEW t \in Seq(S),
           NEW s, NEW q, FirstName(t, s, q)
    PROVE  /\ NamesIn(t) = <<SubSeq(t, s, q)>> \o NamesIn(SubSeq(t, q + 1, Len(t)))
           /\ SubSeq(t, s, q) \in Seq(S) /\ SubSeq(t, s, q) # <<>>
           /\ SubSeq(t, q + 1, Len(t)) \in Seq(S)
           /\ NamesIn(SubSeq(t, q + 1, Len(t))) \in Seq(Seq(S))
  <1>a. s \in 1 .. Len(t) /\ q \in s .. Len(t) /\ (q = Len(t) \/ t[q + 1] = Slash)
    BY DEF FirstName
  <1>0. PICK m \in Nat : m = Len(t) /\ \A i \in 1 .. m : t[i] \in S
    BY LenProperties, ElementOfSeq
  <1>1. PICK a : a = SubSeq(t, s, q)
    OBVIOUS
  <1>2. PICK u : u = SubSeq(t, q + 1, Len(t))
    OBVIOUS
  <1>3. a \in Seq(S) /\ a # <<>> /\ <<a>> \in Seq(Seq(S))
    <2>1. s \in Int /\ q \in Int /\ s <= q /\ \A i \in s .. q : t[i] \in S
      BY <1>0, <1>a
    <2>2. SubSeq(t, s, q) \in Seq(S) /\ Len(SubSeq(t, s, q)) = q - s + 1
      BY <2>1, SubSeqProperties
    <2>3. Len(a) >= 1 /\ Len(<<>>) = 0
      BY <1>1, <2>1, <2>2, EmptySeq
    <2>4. a \in Seq(S)
      BY <1>1, <2>2
    <2> QED
      BY <2>3, <2>4
  <1>4. u \in Seq(S) /\ Len(u) = Len(t) - q /\ \A i \in 1 .. Len(u) : u[i] = t[q + i]
    <2>1. q + 1 \in Int /\ m \in Int /\ \A i \in q + 1 .. m : t[i] \in S
      BY <1>0, <1>a
    <2>2. /\ u \in Seq(S) /\ Len(u) = IF q + 1 <= m THEN m - (q + 1) + 1 ELSE 0
          /\ \A i \in 1 .. m - (q + 1) + 1 : u[i] = t[(q + 1) + i - 1]
      BY <1>0, <1>2, <2>1, SubSeqProperties
    <2>3. Len(u) = m - q /\ m - (q + 1) + 1 = m - q
      BY <1>0, <1>a, <2>2
    <2>4. ASSUME NEW i \in 1 .. m - q PROVE u[i] = t[q + i]
      <3>1. (q + 1) + i - 1 = q + i /\ i \in 1 .. m - (q + 1) + 1
        BY <1>a, <2>3
      <3> QED
        BY <2>2, <3>1
    <2> QED
      BY <1>0, <2>2, <2>3, <2>4
  <1>5. PICK p, f : Scans(p, f, t, S) /\ NamesIn(t) = f[Len(t)]
    BY ScanExists
  <1>6. PICK r, g : Scans(r, g, u, S) /\ NamesIn(u) = g[Len(u)]
    BY <1>4, ScanExists
  <1>7. f[q] = <<a>>
    <2>1. PiecesUpTo(p, t) /\ NamesUpTo(f, p, t)
      BY <1>5 DEF Scans
    <2>2. f[q] = <<SubSeq(t, s, q)>>
      BY <2>1, FirstNameEnds
    <2> QED
      BY <1>1, <2>2
  <1>8. IsLeft(u, t, q)
    BY <1>0, <1>4, <1>a DEF IsLeft
  <1>9. f[Len(t)] = Joined(f[q], g[Len(u)])
    <2>1. Scans(p, f, t, S) /\ Scans(r, g, u, S) /\ t \in Seq(S) /\ u \in Seq(S)
      BY <1>4, <1>5, <1>6
    <2> QED
      BY ONLY <1>8, <2>1, NamesBehind
  <1>10. NamesIn(u) \in Seq(Seq(S))
    <2>1. Len(u) \in 0 .. Len(u)
      BY <1>4, LenProperties
    <2> QED
      BY <1>6, <2>1 DEF Scans
  <1> QED
    BY <1>1, <1>2, <1>3, <1>4, <1>5, <1>6, <1>7, <1>9, <1>10 DEF Joined

(* The least of a set of naturals.                                          *)
LEMMA LeastIs ==
    ASSUME NEW I, I \subseteq Nat, I # {}
    PROVE  Min(I) \in I /\ \A x \in I : Min(I) <= x
  <1>1. \E n \in I : \A x \in I : n <= x
    BY LeastNatural
  <1> QED
    BY <1>1 DEF Min

LEMMA FirstOtherIs ==
    ASSUME NEW S, NEW t \in Seq(S)
    PROVE  \/ FirstOther(t) = 0 /\ \A i \in 1 .. Len(t) : t[i] = Slash
           \/ /\ FirstOther(t) \in 1 .. Len(t) /\ t[FirstOther(t)] # Slash
              /\ \A i \in 1 .. FirstOther(t) - 1 : t[i] = Slash
  <1>0. PICK m \in Nat : m = Len(t)
    BY LenProperties
  <1>1. PICK I : I = {i \in 1 .. Len(t) : t[i] # Slash}
    OBVIOUS
  <1>2. FirstOther(t) = IF I # {} THEN Min(I) ELSE 0
    BY <1>1 DEF FirstOther, SelectInSeq
  <1>3. CASE I = {}
    BY <1>1, <1>2, <1>3
  <1>4. CASE I # {}
    <2>1. I \subseteq Nat
      BY <1>0, <1>1
    <2>2. PICK k : k = Min(I)
      OBVIOUS
    <2>3. k \in I /\ \A x \in I : k <= x
      BY <1>4, <2>1, <2>2, LeastIs
    <2>4. \A i \in 1 .. k - 1 : i \in 1 .. m /\ ~ (k <= i)
      BY <1>0, <1>1, <2>3
    <2>5. \A i \in 1 .. k - 1 : t[i] = Slash
      BY <1>0, <1>1, <2>3, <2>4
    <2> QED
      BY <1>1, <1>2, <1>4, <2>2, <2>3, <2>5
  <1> QED
    BY <1>3, <1>4

LEMMA FirstSlashIs ==
    ASSUME NEW S, NEW t \in Seq(S)
    PROVE  \/ FirstSlash(t) = 0 /\ \A i \in 1 .. Len(t) : t[i] # Slash
           \/ /\ FirstSlash(t) \in 1 .. Len(t) /\ t[FirstSlash(t)] = Slash
              /\ \A i \in 1 .. FirstSlash(t) - 1 : t[i] # Slash
  <1>0. PICK m \in Nat : m = Len(t)
    BY LenProperties
  <1>1. PICK I : I = {i \in 1 .. Len(t) : t[i] = Slash}
    OBVIOUS
  <1>2. FirstSlash(t) = IF I # {} THEN Min(I) ELSE 0
    BY <1>1 DEF FirstSlash, SelectInSeq
  <1>3. CASE I = {}
    BY <1>1, <1>2, <1>3
  <1>4. CASE I # {}
    <2>1. I \subseteq Nat
      BY <1>0, <1>1
    <2>2. PICK k : k = Min(I)
      OBVIOUS
    <2>3. k \in I /\ \A x \in I : k <= x
      BY <1>4, <2>1, <2>2, LeastIs
    <2>4. \A i \in 1 .. k - 1 : i \in 1 .. m /\ ~ (k <= i)
      BY <1>0, <1>1, <2>3
    <2>5. \A i \in 1 .. k - 1 : t[i] # Slash
      BY <1>0, <1>1, <2>3, <2>4
    <2> QED
      BY <1>1, <1>2, <1>4, <2>2, <2>3, <2>5
  <1> QED
    BY <1>3, <1>4

(* The end of a text from some place on.                                    *)
LEMMA EndOfText ==
    ASSUME NEW S, NEW t \in Seq(S), NEW s \in 1 .. Len(t)
    PROVE  /\ SubSeq(t, s, Len(t)) \in Seq(S)
           /\ Len(SubSeq(t, s, Len(t))) = Len(t) - s + 1
           /\ \A i \in 1 .. Len(t) - s + 1 : SubSeq(t, s, Len(t))[i] = t[s + i - 1]
  <1>0. PICK m \in Nat : m = Len(t) /\ \A i \in 1 .. m : t[i] \in S
    BY LenProperties, ElementOfSeq
  <1>1. s \in Int /\ m \in Int /\ s <= m /\ \A i \in s .. m : t[i] \in S
    BY <1>0
  <1> QED
    BY <1>0, <1>1, SubSeqProperties

(* The name from s to q, and what follows it.                               *)
CutAt(t, s, q) == [part |-> SubSeq(t, s, q), rest |-> SubSeq(t, q + 1, Len(t))]

HasSlash(t) == FirstSlash(t) # 0

(* The first slash of a text, or the place behind its end.                  *)
SlashOrEnd(t) == IF FirstSlash(t) = 0 THEN Len(t) + 1 ELSE FirstSlash(t)

LEMMA CutWithoutSlash ==
    ASSUME NEW S, NEW t \in Seq(S), NEW s \in 1 .. Len(t), t[s] # Slash,
           \A i \in 1 .. s - 1 : t[i] = Slash,
           NEW path \in Seq(S), path = SubSeq(t, s, Len(t)), ~ HasSlash(path)
    PROVE  \E q : FirstName(t, s, q) /\ Split(path, SlashOrEnd(path)) = CutAt(t, s, q)
  <1>0. PICK m \in Nat, l \in Nat : m = Len(t) /\ l = Len(path)
    BY LenProperties
  <1>1. l = m - s + 1 /\ \A i \in 1 .. l : path[i] = t[s + i - 1]
    BY <1>0, EndOfText
  <1>2. \A i \in 1 .. l : path[i] # Slash
    <2>1. 0 \notin 1 .. Len(path)
      BY <1>0
    <2>2. \A i \in 1 .. Len(path) : path[i] # Slash
      BY <2>1, FirstSlashIs DEF HasSlash
    <2> QED
      BY <1>0, <2>2
  <1>3. ASSUME NEW i \in s .. m PROVE t[i] # Slash
    <2>1. i - s + 1 \in 1 .. l /\ s + (i - s + 1) - 1 = i
      BY <1>0, <1>1
    <2>2. PICK k \in 1 .. l : s + k - 1 = i
      BY <2>1
    <2> QED
      BY <1>1, <1>2, <2>2
  <1>4. FirstName(t, s, Len(t))
    BY <1>0, <1>3 DEF FirstName
  <1>5. SubSeq(t, m + 1, m) = <<>>
    BY SubSeqEmpty
  <1>6. SubSeq(path, l + 1, l) = <<>>
    BY SubSeqEmpty
  <1>7. (l + 1) - 1 = l /\ SubSeq(path, 1, l) = path
    BY <1>0, SubSeqFull
  <1> QED
    BY <1>0, <1>4, <1>5, <1>6, <1>7 DEF Split, CutAt, SlashOrEnd, HasSlash

LEMMA CutAtSlash ==
    ASSUME NEW S, NEW t \in Seq(S), NEW s \in 1 .. Len(t), t[s] # Slash,
           \A i \in 1 .. s - 1 : t[i] = Slash,
           NEW path \in Seq(S), path = SubSeq(t, s, Len(t)), HasSlash(path)
    PROVE  \E q : FirstName(t, s, q) /\ Split(path, SlashOrEnd(path)) = CutAt(t, s, q)
  <1>0. PICK m \in Nat, l \in Nat : m = Len(t) /\ l = Len(path)
    BY LenProperties
  <1>1. l = m - s + 1 /\ \A i \in 1 .. l : path[i] = t[s + i - 1]
    BY <1>0, EndOfText
  <1>2. PICK x : x = FirstSlash(path)
    OBVIOUS
  <1>3. x \in 1 .. l /\ path[x] = Slash /\ \A i \in 1 .. x - 1 : path[i] # Slash
    BY <1>0, <1>2, FirstSlashIs DEF HasSlash
  <1>4. x # 1
    <2>1. s + 1 - 1 = s /\ 1 \in 1 .. l
      BY <1>0, <1>1
    <2>2. path[1] = t[s]
      BY <1>1, <2>1
    <2> QED
      BY <1>3, <2>2
  <1>5. PICK q \in s .. m : q = s + (x - 1) - 1 /\ q + 1 = s + x - 1 /\ q # m /\ q + 1 \in s .. m
    BY <1>0, <1>1, <1>3, <1>4
  <1>6. t[q + 1] = Slash
    BY <1>1, <1>3, <1>5
  <1>7. ASSUME NEW i \in s .. q PROVE t[i] # Slash
    <2>1. i - s + 1 \in 1 .. x - 1 /\ i - s + 1 \in 1 .. l /\ s + (i - s + 1) - 1 = i
      BY <1>0, <1>1, <1>3, <1>5
    <2>2. PICK k \in 1 .. x - 1 : k \in 1 .. l /\ s + k - 1 = i
      BY <2>1
    <2> QED
      BY <1>1, <1>3, <2>2
  <1>8. FirstName(t, s, q)
    BY <1>0, <1>5, <1>6, <1>7 DEF FirstName
  <1>9. SubSeq(path, 1, x - 1) = SubSeq(t, s, q)
    <2>1. /\ s \in 1 .. Len(t) /\ m \in 1 .. Len(t) /\ 1 \in 1 .. m - s + 1 /\ x - 1 \in 1 .. m - s + 1
          /\ s + 1 - 1 = s
      BY <1>0, <1>1, <1>3, <1>4
    <2>2. SubSeq(SubSeq(t, s, m), 1, x - 1) = SubSeq(t, s + 1 - 1, s + (x - 1) - 1)
      BY <2>1, SubSeqOfSubSeq
    <2> QED
      BY <1>0, <1>5, <2>1, <2>2
  <1>10. SubSeq(path, x, l) = SubSeq(t, q + 1, m)
    <2>1. /\ s \in 1 .. Len(t) /\ m \in 1 .. Len(t) /\ l \in 1 .. m - s + 1 /\ x \in 1 .. m - s + 1
          /\ s + l - 1 = m
      BY <1>0, <1>1, <1>3, <1>4
    <2>2. SubSeq(SubSeq(t, s, m), x, l) = SubSeq(t, s + x - 1, s + l - 1)
      BY <2>1, SubSeqOfSubSeq
    <2> QED
      BY <1>0, <1>5, <2>1, <2>2
  <1> QED
    BY <1>0, <1>2, <1>8, <1>9, <1>10 DEF Split, CutAt, SlashOrEnd, HasSlash

(* Both functions take the first name off a text.                           *)
LEMMA CutsTakeFirstName ==
    ASSUME NEW S, NEW t \in Seq(S), NEW c \in {GetNextPart(t), GetLastPart(t)}
    PROVE  \/ c = [part |-> <<>>, rest |-> <<>>] /\ \A i \in 1 .. Len(t) : t[i] = Slash
           \/ \E s, q : FirstName(t, s, q) /\ c = CutAt(t, s, q)
  <1>1. PICK s : s = FirstOther(t)
    OBVIOUS
  <1>2. CASE s = 0
    <2>1. c = [part |-> <<>>, rest |-> <<>>]
      BY <1>1, <1>2 DEF GetNextPart, GetLastPart
    <2>2. 0 \notin 1 .. Len(t)
      BY LenProperties
    <2>3. \A i \in 1 .. Len(t) : t[i] = Slash
      BY <1>1, <1>2, <2>2, FirstOtherIs
    <2> QED
      BY <2>1, <2>3
  <1>3. CASE s # 0
    <2>1. s \in 1 .. Len(t) /\ t[s] # Slash /\ \A i \in 1 .. s - 1 : t[i] = Slash
      BY <1>1, <1>3, FirstOtherIs
    <2>2. PICK path \in Seq(S) : path = SubSeq(t, s, Len(t))
      BY <2>1, EndOfText
    <2>3. CASE ~ HasSlash(path)
      <3>1. c = [part |-> path, rest |-> <<>>] \/ c = Split(path, SlashOrEnd(path))
        BY <1>1, <1>3, <2>2, <2>3 DEF GetNextPart, GetLastPart, SlashOrEnd, HasSlash
      <3>2. Split(path, SlashOrEnd(path)) = [part |-> path, rest |-> <<>>]
        <4>1. PICK l \in Nat : l = Len(path)
          BY LenProperties
        <4>2. (l + 1) - 1 = l /\ SubSeq(path, 1, l) = path /\ SubSeq(path, l + 1, l) = <<>>
          BY <4>1, SubSeqFull, SubSeqEmpty
        <4> QED
          BY <2>3, <4>1, <4>2 DEF Split, SlashOrEnd, HasSlash
      <3>3. \E q : FirstName(t, s, q) /\ Split(path, SlashOrEnd(path)) = CutAt(t, s, q)
        BY <2>1, <2>2, <2>3, CutWithoutSlash
      <3> QED
        BY <3>1, <3>2, <3>3
    <2>4. CASE HasSlash(path)
      <3>1. c = Split(path, SlashOrEnd(path))
        BY <1>1, <1>3, <2>2, <2>4 DEF GetNextPart, GetLastPart, SlashOrEnd, HasSlash
      <3>2. \E q : FirstName(t, s, q) /\ Split(path, SlashOrEnd(path)) = CutAt(t, s, q)
        BY <2>1, <2>2, <2>4, CutAtSlash
      <3> QED
        BY <3>1, <3>2
    <2> QED
      BY <2>3, <2>4
  <1> QED
    BY <1>2, <1>3

-----------------------------------------------------------------------------
(* The working directory, and paths that are taken apart.                   *)

Letter == (UNION {ToSet(t) : t \in Texts}) \cup {Slash}
Character == UNION {ToSet(t) : t \in Views}

(* The array holds the text that was kept last and its end, which stands    *)
(* behind the array for the longest text.                                   *)
CwdIsKept ==
    /\ changed \in Seq(Letter) /\ Zero \notin Letter /\ Len(changed) <= PathMax
    /\ DOMAIN characters = 0 .. PathMax
    /\ \A i \in 1 .. Len(changed) : characters[i - 1] = changed[i]
    /\ characters[Len(changed)] = Zero

GivesWhatFits ==
    told.text = SubSeq(told.of, 1, IF Len(told.of) < told.size THEN Len(told.of) ELSE told.size - 1)

TakesNames ==
    /\ view \in Seq(Character)
    /\ names \in [path : Seq(Character), taken : Seq(Seq(Character))]
    /\ NamesIn(view) \in Seq(Seq(Character))
    /\ names.taken \o NamesIn(view) = NamesIn(names.path)

PathsInv == CwdIsKept /\ GivesWhatFits /\ TakesNames

LEMMA TextsAreTexts ==
    /\ \A t \in Texts : t \in Seq(Letter)
    /\ Zero \notin Letter
    /\ \A t \in Views : t \in Seq(Character)
  <1>1. \A t \in Texts : t \in Seq(UNION {ToSet(u) : u \in Texts})
    BY PathsAssumption
  <1>2. UNION {ToSet(u) : u \in Texts} \subseteq Letter
    BY DEF Letter
  <1>3. \A t \in Texts : t \in Seq(Letter)
    <2> SUFFICES ASSUME NEW t \in Texts PROVE t \in Seq(Letter)
      OBVIOUS
    <2>1. PICK A : A = UNION {ToSet(u) : u \in Texts}
      OBVIOUS
    <2> QED
      BY <1>1, <1>2, <2>1, SeqMonotonic
  <1>4. Zero \notin Letter
    BY PathsAssumption DEF Letter
  <1>5. \A t \in Views : t \in Seq(Character)
    BY PathsAssumption DEF Character
  <1> QED
    BY <1>3, <1>4, <1>5

(* get_cwd gives the text that was kept.                                    *)
LEMMA GetCwdIsChanged ==
    ASSUME CwdIsKept
    PROVE  GetCwd = changed
  <1>1. PICK m \in Nat : m = Len(changed) /\ m <= PathMax /\ PathMax \in Nat
    BY PathsAssumption, LenProperties DEF CwdIsKept
  <1>2. \A i \in 1 .. m : changed[i] # Zero
    BY <1>1, ElementOfSeq DEF CwdIsKept
  <1>3. \A i \in 0 .. m - 1 : characters[i] # Zero
    <2> SUFFICES ASSUME NEW i \in 0 .. m - 1 PROVE characters[i] # Zero
      OBVIOUS
    <2>1. PICK k \in 1 .. m : k - 1 = i
      <3>1. i + 1 \in 1 .. m /\ (i + 1) - 1 = i
        BY <1>1
      <3> QED
        BY <3>1
    <2> QED
      BY <1>1, <1>2, <2>1 DEF CwdIsKept
  <1>4. characters[m] = Zero /\ m \in DOMAIN characters
    BY <1>1 DEF CwdIsKept
  <1> DEFINE Ends(n) == characters[n] = Zero /\ \A i \in 0 .. n - 1 : characters[i] # Zero
  <1>5. \A n \in DOMAIN characters : Ends(n) => n = m
    <2> SUFFICES ASSUME NEW n \in 0 .. PathMax, Ends(n) PROVE n = m
      BY DEF CwdIsKept
    <2>1. ~ (n < m)
      <3>1. n < m => n \in 0 .. m - 1
        BY <1>1
      <3> QED
        BY <1>3, <3>1
    <2>2. ~ (m < n)
      <3>1. m < n => m \in 0 .. n - 1
        BY <1>1
      <3> QED
        BY <1>4, <3>1
    <2> QED
      BY <1>1, <2>1, <2>2
  <1>6. (CHOOSE n \in DOMAIN characters : Ends(n)) = m
    <2>1. Ends(m)
      BY <1>3, <1>4
    <2> HIDE DEF Ends
    <2> QED
      BY <1>4, <1>5, <2>1
  <1>7. GetCwd = [i \in 1 .. m |-> characters[i - 1]]
    BY <1>6 DEF GetCwd
  <1>8. changed = [i \in 1 .. m |-> changed[i]]
    BY <1>1, LenProperties DEF CwdIsKept
  <1>9. \A i \in 1 .. m : characters[i - 1] = changed[i]
    BY <1>1 DEF CwdIsKept
  <1> QED
    BY <1>7, <1>8, <1>9

LEMMA ChangeDirectoryKeeps ==
    ASSUME PathsInv, ChangeDirectory
    PROVE  PathsInv'
  <1>1. told' = told /\ view' = view /\ names' = names
    BY DEF ChangeDirectory
  <1>2. GivesWhatFits' /\ TakesNames'
    <2>1. NamesIn(view)' = NamesIn(view) /\ NamesIn(names.path)' = NamesIn(names.path)
      BY <1>1 DEF NamesIn
    <2> QED
      BY <1>1, <2>1 DEF PathsInv, GivesWhatFits, TakesNames
  <1>3. PICK text \in Texts : SetCwd(text)
    BY DEF ChangeDirectory
  <1>4. PICK l \in Nat : l = Len(text) /\ text \in Seq(Letter) /\ PathMax \in Nat
    BY TextsAreTexts, PathsAssumption, LenProperties
  <1>5. CASE l > PathMax
    <2>1. characters' = characters /\ changed' = changed
      BY <1>3, <1>4, <1>5 DEF SetCwd
    <2> QED
      BY <1>2, <2>1 DEF PathsInv, CwdIsKept
  <1>6. CASE l <= PathMax
    <2>1. /\ characters' = [i \in DOMAIN characters |->
                IF i < l THEN text[i + 1] ELSE IF i = l THEN Zero ELSE characters[i]]
          /\ changed' = text
      BY <1>3, <1>4, <1>6 DEF SetCwd
    <2>2. DOMAIN characters = 0 .. PathMax /\ Zero \notin Letter
      BY DEF PathsInv, CwdIsKept
    <2>3. DOMAIN characters' = 0 .. PathMax
      BY <2>1, <2>2
    <2>4. \A i \in 1 .. l : characters'[i - 1] = text[i]
      <3> SUFFICES ASSUME NEW i \in 1 .. l PROVE characters'[i - 1] = text[i]
        OBVIOUS
      <3>1. i - 1 \in 0 .. PathMax /\ i - 1 < l /\ (i - 1) + 1 = i
        BY <1>4, <1>6
      <3> QED
        BY <2>1, <2>2, <3>1
    <2>5. characters'[l] = Zero
      <3>1. l \in 0 .. PathMax /\ ~ (l < l)
        BY <1>4, <1>6
      <3> QED
        BY <2>1, <2>2, <3>1
    <2>6. CwdIsKept'
      BY <1>4, <1>6, <2>1, <2>2, <2>3, <2>4, <2>5 DEF CwdIsKept, Letter
    <2> QED
      BY <1>2, <2>6 DEF PathsInv
  <1> QED
    BY <1>4, <1>5, <1>6

LEMMA CopyCwdKeeps ==
    ASSUME PathsInv, CopyCwd
    PROVE  PathsInv'
  <1>1. characters' = characters /\ changed' = changed /\ view' = view /\ names' = names
    BY DEF CopyCwd
  <1>2. CwdIsKept' /\ TakesNames'
    <2>1. NamesIn(view)' = NamesIn(view) /\ NamesIn(names.path)' = NamesIn(names.path)
      BY <1>1 DEF NamesIn
    <2> QED
      BY <1>1, <2>1 DEF PathsInv, CwdIsKept, TakesNames
  <1>3. PICK c : c = changed
    OBVIOUS
  <1>4. GetCwd = c
    BY <1>3, GetCwdIsChanged DEF PathsInv
  <1>5. PICK m \in Nat : m = Len(c)
    BY <1>3, LenProperties DEF PathsInv, CwdIsKept
  <1>6. PICK room \in Sizes :
            told' = [size |-> room,
                     text |-> SubSeq(c, 1, IF room - 1 > Len(c) THEN Len(c) ELSE room - 1),
                     of |-> c]
    BY <1>3, <1>4 DEF CopyCwd
  <1>7. room \in Nat
    BY PathsAssumption
  <1>8. (IF room - 1 > m THEN m ELSE room - 1) = (IF m < room THEN m ELSE room - 1)
    BY <1>7
  <1>9. GivesWhatFits'
    <2>1. PICK n : n = IF room - 1 > m THEN m ELSE room - 1
      OBVIOUS
    <2>2. told'.text = SubSeq(c, 1, n) /\ told'.of = c /\ told'.size = room
      BY <1>5, <1>6, <2>1
    <2>3. n = IF m < room THEN m ELSE room - 1
      BY <1>8, <2>1
    <2> QED
      BY <1>5, <2>2, <2>3 DEF GivesWhatFits
  <1> QED
    BY <1>2, <1>9 DEF PathsInv

LEMMA NamesType ==
    ASSUME NEW S, NEW t \in Seq(S)
    PROVE  NamesIn(t) \in Seq(Seq(S))
  <1>1. PICK p, f : Scans(p, f, t, S) /\ NamesIn(t) = f[Len(t)]
    BY ScanExists
  <1>2. Len(t) \in 0 .. Len(t)
    BY LenProperties
  <1> QED
    BY <1>1, <1>2 DEF Scans

LEMMA BeginPathKeeps ==
    ASSUME PathsInv, BeginPath
    PROVE  PathsInv'
  <1>1. characters' = characters /\ changed' = changed /\ told' = told
    BY DEF BeginPath
  <1>2. CwdIsKept' /\ GivesWhatFits'
    BY <1>1 DEF PathsInv, CwdIsKept, GivesWhatFits
  <1>3. PICK v \in Views : v = view' /\ names' = [path |-> v, taken |-> <<>>]
    BY DEF BeginPath
  <1>4. v \in Seq(Character)
    BY TextsAreTexts
  <1>5. PICK a \in Seq(Seq(Character)) : a = NamesIn(v)
    BY <1>4, NamesType
  <1>6. <<>> \o a = a
    BY ConcatEmptySeq
  <1>7. NamesIn(view)' = a /\ NamesIn(names.path)' = a
    BY <1>3, <1>5 DEF NamesIn
  <1>8. names' \in [path : Seq(Character), taken : Seq(Seq(Character))]
    BY <1>3, <1>4
  <1>9. TakesNames'
    BY <1>3, <1>4, <1>6, <1>7, <1>8 DEF TakesNames
  <1> QED
    BY <1>2, <1>9 DEF PathsInv

LEMMA TakePartKeeps ==
    ASSUME PathsInv, TakePart
    PROVE  PathsInv'
  <1>1. characters' = characters /\ changed' = changed /\ told' = told
    BY DEF TakePart
  <1>2. CwdIsKept' /\ GivesWhatFits'
    BY <1>1 DEF PathsInv, CwdIsKept, GivesWhatFits
  <1>3. PICK S : S = Seq(Character)
    OBVIOUS
  <1>4. PICK v \in Seq(Character), path \in Seq(Character), before \in Seq(S) :
            v = view /\ names = [path |-> path, taken |-> before]
    BY <1>3 DEF PathsInv, TakesNames
  <1>5. NamesIn(v) \in Seq(S) /\ before \o NamesIn(v) = NamesIn(path)
    BY <1>3, <1>4 DEF PathsInv, TakesNames
  <1>6. PICK c \in {GetNextPart(v), GetLastPart(v)} :
            /\ view' = c.rest
            /\ names' = IF c.part = <<>> THEN names
                        ELSE [names EXCEPT !.taken = Append(@, c.part)]
    BY <1>4 DEF TakePart
  <1>7. CASE c = [part |-> <<>>, rest |-> <<>>] /\ \A i \in 1 .. Len(v) : v[i] = Slash
    <2>1. view' = <<>> /\ names' = names
      BY <1>6, <1>7
    <2>2. <<>> \in Seq(Character) /\ Len(<<>>) = 0
      BY EmptySeq
    <2>3. NamesIn(v) = <<>>
      BY <1>7, NoNames
    <2>4. NamesIn(<<>>) = <<>>
      <3>1. PICK e \in Seq(Character) : e = <<>> /\ Len(e) = 0
        BY <2>2
      <3>2. \A i \in 1 .. Len(e) : e[i] = Slash
        BY <3>1
      <3> QED
        BY <3>1, <3>2, NoNames
    <2>5. NamesIn(view)' = NamesIn(v) /\ NamesIn(names.path)' = NamesIn(names.path)
      BY <2>1, <2>3, <2>4 DEF NamesIn
    <2>6. TakesNames'
      BY <1>3, <1>4, <1>5, <2>1, <2>2, <2>5 DEF PathsInv, TakesNames
    <2> QED
      BY <1>2, <2>6 DEF PathsInv
  <1>8. CASE \E s, q : FirstName(v, s, q) /\ c = CutAt(v, s, q)
    <2>1. PICK s, q : FirstName(v, s, q) /\ c = CutAt(v, s, q)
      BY <1>8
    <2>2. PICK name, behind :
              /\ name = SubSeq(v, s, q) /\ behind = SubSeq(v, q + 1, Len(v))
              /\ c = [part |-> name, rest |-> behind]
      BY <2>1 DEF CutAt
    <2>3. /\ NamesIn(v) = <<name>> \o NamesIn(behind)
          /\ name \in S /\ name # <<>> /\ behind \in Seq(Character)
          /\ NamesIn(behind) \in Seq(S)
      BY <1>3, <2>1, <2>2, FirstNameFirst, ZenonT(60)
    <2>4. view' = behind /\ names' = [path |-> path, taken |-> Append(before, name)]
      BY <1>4, <1>6, <2>2, <2>3
    <2>5. PICK more \in Seq(S) : more = Append(before, name)
      BY <2>3, AppendProperties
    <2>6. PICK one \in Seq(S) : one = <<name>>
      <3>1. name \in S
        BY <2>3
      <3>2. <<name>> \in Seq(S)
        BY ONLY <3>1
      <3> QED
        BY <3>2
    <2>7. more = before \o one
      BY <2>3, <2>5, <2>6, AppendIsConcat
    <2>8. PICK others \in Seq(S) : others = NamesIn(behind)
      BY <2>3
    <2>9. (before \o one) \o others = before \o (one \o others)
      BY ConcatAssociative, SMTT(60)
    <2>10. more \o others = NamesIn(path)
      BY <1>5, <2>3, <2>6, <2>7, <2>8, <2>9
    <2>11. NamesIn(view)' = others /\ NamesIn(names.path)' = NamesIn(path)
      <3>1. names'.path = path
        BY <2>4
      <3> QED
        BY <2>4, <2>8, <3>1 DEF NamesIn
    <2>12. names'.taken = more /\ names' \in [path : Seq(Character), taken : Seq(Seq(Character))]
      BY <1>3, <2>4, <2>5
    <2>13. TakesNames'
      BY <1>3, <2>3, <2>4, <2>10, <2>11, <2>12 DEF TakesNames
    <2> QED
      BY <1>2, <2>13 DEF PathsInv
  <1> QED
    BY <1>6, <1>7, <1>8, CutsTakeFirstName

LEMMA PathsStart ==
    ASSUME PathsInit
    PROVE  PathsInv
  <1>1. /\ characters = [i \in 0 .. PathMax |-> IF i = 0 THEN Slash ELSE Zero]
        /\ told = [size |-> 2, text |-> <<Slash>>, of |-> <<Slash>>]
        /\ changed = <<Slash>> /\ view = <<>> /\ names = [path |-> <<>>, taken |-> <<>>]
    BY DEF PathsInit
  <1>2. PathMax \in Nat /\ PathMax >= 2
    BY PathsAssumption
  <1>3. CwdIsKept
    <2>1. Slash \in Letter /\ Zero \notin Letter
      BY TextsAreTexts DEF Letter
    <2>2. changed \in Seq(Letter) /\ Len(changed) = 1 /\ changed[1] = Slash
      BY <1>1, <2>1
    <2>3. DOMAIN characters = 0 .. PathMax /\ characters[0] = Slash /\ characters[1] = Zero
      BY <1>1, <1>2
    <2>4. \A i \in 1 .. 1 : i = 1 /\ i - 1 = 0
      OBVIOUS
    <2> QED
      BY <1>2, <2>1, <2>2, <2>3, <2>4 DEF CwdIsKept
  <1>4. GivesWhatFits
    <2>1. PICK t \in Seq({Slash}) : t = <<Slash>> /\ Len(t) = 1
      <3>1. <<Slash>> \in Seq({Slash})
        OBVIOUS
      <3>2. Len(<<Slash>>) = 1
        OBVIOUS
      <3> QED
        BY <3>1, <3>2
    <2>2. t = SubSeq(t, 1, 1)
      BY <2>1, SubSeqFull
    <2>3. told.of = t /\ told.text = t /\ told.size = 2
      BY <1>1, <2>1
    <2> QED
      BY <2>1, <2>2, <2>3 DEF GivesWhatFits
  <1>5. TakesNames
    <2>1. PICK e \in Seq(Character) : e = <<>>
      BY EmptySeq
    <2>2. <<>> \in Seq(Seq(Character))
      BY EmptySeq
    <2>3. NamesIn(e) = <<>>
      <3>1. Len(e) = 0
        BY <2>1, EmptySeq
      <3>2. \A i \in 1 .. Len(e) : e[i] = Slash
        BY <3>1
      <3> QED
        BY <3>2, NoNames
    <2>4. <<>> \o <<>> = <<>>
      BY <2>2, ConcatEmptySeq
    <2>5. view = e /\ names.path = e /\ names.taken = <<>> /\ names \in [path : Seq(Character), taken : Seq(Seq(Character))]
      BY <1>1, <2>1, <2>2
    <2> QED
      BY <2>2, <2>3, <2>4, <2>5 DEF TakesNames
  <1> QED
    BY <1>3, <1>4, <1>5 DEF PathsInv

LEMMA PathsKept ==
    ASSUME PathsInv, [PartsNext]_partsVars
    PROVE  PathsInv'
  <1>1. CASE UNCHANGED pathVars
    <2>1. /\ characters' = characters /\ told' = told /\ changed' = changed
          /\ view' = view /\ names' = names
      BY <1>1 DEF pathVars
    <2>2. NamesIn(view)' = NamesIn(view) /\ NamesIn(names.path)' = NamesIn(names.path)
      BY <2>1 DEF NamesIn
    <2> QED
      BY <2>1, <2>2 DEF PathsInv, CwdIsKept, GivesWhatFits, TakesNames
  <1>2. CASE PathsNext
    BY <1>2, ChangeDirectoryKeeps, CopyCwdKeeps, BeginPathKeeps, TakePartKeeps DEF PathsNext
  <1> QED
    BY <1>1, <1>2 DEF PartsNext, partsVars

(* A process has the working directory it changed to last, whole, and as    *)
(* much of it as fits is what getcwd gives; and a path is taken apart into  *)
(* its names, for texts of any length (process.cpp, dirent_utils.cpp).      *)
THEOREM PathsStayWhole == PartsSpec => []PathsAreKept
  <1>1. PartsInit => PathsInv
    BY PathsStart DEF PartsInit
  <1>2. PathsInv /\ [PartsNext]_partsVars => PathsInv'
    BY PathsKept
  <1>3. PathsInv => PathsAreKept
    BY DEF PathsInv, GivesWhatFits, TakesNames, PathsAreKept
  <1> QED
    BY <1>1, <1>2, <1>3, PTL DEF PartsSpec

-----------------------------------------------------------------------------
(* The block device.                                                        *)

(* Who is between init and deinit finds the device initialised: nothing     *)
(* ever resets was_initialized_, as decrement never returns zero.           *)
StorageInv ==
    /\ \A a \in Addresses \ cleared : memory[a] = stored[a]
    /\ \A a \in DOMAIN expected : delivered[a] = expected[a]
    /\ DOMAIN expected \subseteq DOMAIN delivered
    /\ cleared \subseteq Addresses
    /\ using # {} => initialized

(* The operations of every user preserve it (ram_block_device.cpp).         *)
LEMMA StorageStep ==
    ASSUME StorageInv, StorageNext \/ UNCHANGED storageVars
    PROVE  StorageInv'
<1>1. ASSUME NEW u \in Users, DeviceInit(u) PROVE StorageInv'
  <2>1. memory' = Zeros /\ initialized' = TRUE
    BY <1>1 DEF DeviceInit
  <2>2. CASE using = {}
    <3>1. stored' = Zeros /\ cleared' = {} /\ delivered' = <<>> /\ expected' = <<>>
      BY <1>1, <2>2 DEF DeviceInit
    <3> QED
      BY <2>1, <3>1 DEF StorageInv
  <2>3. CASE using # {}
    <3>1. cleared' = Addresses /\ delivered' = delivered /\ expected' = expected
      BY <1>1, <2>3 DEF DeviceInit
    <3>2. \A a \in Addresses \ cleared' : memory'[a] = stored'[a]
      BY <3>1
    <3> QED
      BY <2>1, <3>1, <3>2 DEF StorageInv
  <2> QED
    BY <2>2, <2>3
<1>2. ASSUME NEW u \in Users, DeviceInitFails(u) PROVE StorageInv'
  BY <1>2 DEF StorageInv, DeviceInitFails, histories
<1>3. ASSUME NEW u \in Users, DeviceDeinit(u) PROVE StorageInv'
  BY <1>3 DEF StorageInv, DeviceDeinit, ranges, histories
<1>4. ASSUME NEW u \in Users, DeviceWrite(u) PROVE StorageInv'
  <2>1. initialized
    BY <1>4 DEF StorageInv, DeviceWrite
  <2>2. UNCHANGED <<initialized, using, delivered, expected>>
    BY <1>4 DEF DeviceWrite
  <2>3. \/ UNCHANGED <<memory, stored, cleared>>
        \/ \E range, byte : /\ memory' = Put(memory, range, byte) /\ stored' = Put(stored, range, byte)
                            /\ cleared' = cleared \ range
    BY <1>4, <2>1 DEF DeviceWrite, PerformWrite, histories
  <2>4. cleared' \subseteq Addresses /\ \A a \in Addresses \ cleared' : memory'[a] = stored'[a]
    BY <2>3 DEF StorageInv, Put
  <2> QED
    BY <2>2, <2>4 DEF StorageInv
<1>5. ASSUME NEW u \in Users, DeviceRead(u) PROVE StorageInv'
  <2>1. initialized
    BY <1>5 DEF StorageInv, DeviceRead
  <2>2. UNCHANGED <<memory, initialized, using, stored, cleared>>
    BY <1>5 DEF DeviceRead, histories
  <2>3. \/ UNCHANGED <<delivered, expected>>
        \/ \E address \in 0 .. Word - 1, length \in 0 .. Word - 1 :
              /\ ValidRead(address, length) /\ OneWord(address, length)
              /\ delivered' = [a \in address .. address + length - 1 |-> memory[a]]
              /\ expected' = [a \in (address .. address + length - 1) \ cleared |-> stored[a]]
    BY <1>5, <2>1 DEF DeviceRead, PerformRead
  <2>4. ASSUME NEW address \in 0 .. Word - 1, NEW length \in 0 .. Word - 1,
               ValidRead(address, length), OneWord(address, length)
        PROVE  address .. address + length - 1 \subseteq Addresses
    <3>1. Word \in Nat /\ DeviceSize \in Nat
      BY StorageAssumption DEF StorageAssumption
    <3>2. address \in Nat /\ length \in Nat /\ address + length < Word
      BY <2>4, <3>1 DEF OneWord
    <3>3. (address + length) % Word = address + length
      BY <3>1, <3>2
    <3>4. address + length <= DeviceSize
      BY <2>4, <3>3 DEF ValidRead, ValidRange
    <3> QED
      BY <3>1, <3>2, <3>4 DEF Addresses
  <2>5. /\ \A a \in DOMAIN expected' : delivered'[a] = expected'[a]
        /\ DOMAIN expected' \subseteq DOMAIN delivered'
    <3>1. CASE UNCHANGED <<delivered, expected>>
      BY <3>1 DEF StorageInv
    <3>2. ASSUME NEW range, range \subseteq Addresses,
                 delivered' = [a \in range |-> memory[a]],
                 expected' = [a \in range \ cleared |-> stored[a]]
          PROVE  /\ \A a \in DOMAIN expected' : delivered'[a] = expected'[a]
                 /\ DOMAIN expected' \subseteq DOMAIN delivered'
      BY <3>2 DEF StorageInv
    <3> QED
      BY <2>3, <2>4, <3>1, <3>2
  <2> QED
    BY <2>2, <2>5 DEF StorageInv
<1>6. ASSUME NEW u \in Users, DeviceErase(u) PROVE StorageInv'
  BY <1>6 DEF StorageInv, DeviceErase, PerformErase, histories
<1>7. CASE UNCHANGED storageVars
  BY <1>7 DEF StorageInv, storageVars, ranges, histories
<1> QED
  BY <1>1, <1>2, <1>3, <1>4, <1>5, <1>6, <1>7 DEF StorageNext

-----------------------------------------------------------------------------
(* The display.                                                             *)

Labels == {"out", "wait", "copy", "home"}
Frames == [Cells -> Colours]

(* Types, and frame = painted: what a write leaves in the buffer is what it *)
(* should paint, so that the screen is all that can go wrong.               *)
DisplayTypes ==
    /\ frame \in Frames /\ screen \in Frames /\ painted = frame
    /\ cursor \in [{"column", "page"} -> Nat]
    /\ cursor.column < Columns /\ cursor.page < Pages
    /\ sent \in 0 .. Size
    /\ at \in [Painters -> Labels]
    /\ commands \in [Painters -> 0 .. 6]
    /\ overlapped \in BOOLEAN

(* One process at most is past the wait, and then the DMA rests.            *)
OnePast ==
    /\ \A p, q \in Painters : Past(p) /\ Past(q) => p = q
    /\ \A p \in Painters : Past(p) => ~busy

(* The controller between two commands of setHome: behind of them are left. *)
HomeTo(behind) ==
    /\ behind = 6 => operands[2] = 0
    /\ behind = 5 => operands = <<"column", 2>>
    /\ behind = 4 => operands = <<"column", 1>> /\ cursor.column = 0
    /\ behind = 3 => operands = <<"column", 0>> /\ cursor.column = 0
    /\ behind = 2 => operands = <<"page", 2>> /\ cursor.column = 0
    /\ behind = 1 => operands = <<"page", 1>> /\ cursor.column = 0 /\ cursor.page = 0
    /\ behind = 0 => operands = <<"page", 0>> /\ cursor.column = 0 /\ cursor.page = 0

Homing ==
    /\ \A p \in Painters : at[p] = "home" => HomeTo(commands[p])
    /\ (\A p \in Painters : at[p] # "home") => operands[2] = 0

(* The DMA is where the cursor is, and what is behind it is on the screen.  *)
Place == cursor.page * Columns + cursor.column

Painting ==
    /\ busy => Place = sent
    /\ \A i \in Cells : i < sent /\ (\A p \in Painters : ~Past(p)) => screen[i] = frame[i]

(* The parameters are numbers.                                              *)
LEMMA SizeIsNat == Size \in Nat \ {0} /\ Columns \in Nat \ {0} /\ Pages \in Nat \ {0}
BY DisplayAssumption DEF Size

(* The types, as lists of facts that the provers handle one by one.         *)
LEMMA TypesWrite ==
    ASSUME NEW p \in Painters, DisplayTypes, Write(p) PROVE DisplayTypes'
BY DEF DisplayTypes, Write, Labels

(* The types are kept: memcpy into the frame buffer, ssd1306_file.cpp.      *)
LEMMA TypesCopy ==
    ASSUME NEW p \in Painters, DisplayTypes, Copy(p) PROVE DisplayTypes'
<1>1. PICK colour \in Colours, count \in 1 .. Size :
        frame' = Overlay(frame, colour, count) /\ painted' = Overlay(painted, colour, count)
  BY DEF Copy
<1>2. Overlay(frame, colour, count) \in Frames
  BY <1>1 DEF DisplayTypes, Overlay, Frames
<1>3. commands' \in [Painters -> 0 .. 6]
  BY DEF DisplayTypes, Copy, Home
<1> QED
  BY <1>1, <1>2, <1>3 DEF DisplayTypes, Copy, Labels

(* The types are kept: Ssd1306::setHome.                                    *)
LEMMA TypesSetHome ==
    ASSUME NEW p \in Painters, DisplayTypes, SetHome(p) PROVE DisplayTypes'
<1>1. commands[p] \in 0 .. 6 /\ commands[p] > 0
  BY DEF DisplayTypes, SetHome
<1>2. commands[p] - 1 \in 0 .. 6
  BY <1>1
<1>3. commands' \in [Painters -> 0 .. 6]
  BY <1>2 DEF DisplayTypes, SetHome
<1>4. cursor' = [c \in {"column", "page"} |-> IF operands = <<c, 2>> THEN 0 ELSE cursor[c]]
  BY DEF DisplayTypes, SetHome, Command
<1>5. cursor' \in [{"column", "page"} -> Nat] /\ cursor'.column < Columns /\ cursor'.page < Pages
  BY <1>4, SizeIsNat DEF DisplayTypes
<1> QED
  BY <1>3, <1>5 DEF DisplayTypes, SetHome

(* The types are kept: the start of the transfer.                           *)
LEMMA TypesStartDma ==
    ASSUME NEW p \in Painters, DisplayTypes, StartDma(p) PROVE DisplayTypes'
BY SizeIsNat DEF DisplayTypes, StartDma, Labels

(* Cells and places, and the step from one to the next.                     *)
LEMMA Places ==
    ASSUME NEW C \in Nat \ {0}, NEW P \in Nat \ {0},
           NEW c \in Nat, NEW p \in Nat, c < C, p < P
    PROVE  /\ p * C + c \in 0 .. C * P - 1
           /\ c + 1 = C => p * C + c + 1 = (p + 1) * C
           /\ c + 1 = C /\ p + 1 = P => p * C + c + 1 = C * P
           /\ (c + 1) % C = IF c + 1 < C THEN c + 1 ELSE 0
           /\ (p + 1) % P = IF p + 1 < P THEN p + 1 ELSE 0
<1>1. p * C + C = (p + 1) * C /\ (p + 1) * C = C * (p + 1)
  BY SMT
<1>2. PICK k \in Nat : P = p + 1 + k
  <2>1. P - (p + 1) \in Nat
    BY SMT
  <2> QED
    BY <2>1, SMT
<1>3. C * P = C * (p + 1) + C * k
  BY <1>2, SMT
<1>4. C * k \in Nat /\ p * C \in Nat /\ C * (p + 1) \in Nat
  BY <1>2, SMT
<1>5. p * C + c \in 0 .. C * P - 1
  BY <1>1, <1>3, <1>4, SMT
<1>6. c + 1 = C => p * C + c + 1 = (p + 1) * C
  BY <1>1, <1>4, SMT
<1>7. c + 1 = C /\ p + 1 = P => p * C + c + 1 = C * P
  BY <1>6, <1>1, SMT
<1>8. (c + 1) % C = IF c + 1 < C THEN c + 1 ELSE 0
  BY SMT
<1>9. (p + 1) % P = IF p + 1 < P THEN p + 1 ELSE 0
  BY SMT
<1> QED
  BY <1>5, <1>6, <1>7, <1>8, <1>9

(* A byte of the DMA goes to the place of the cursor, which moves on by one *)
(* as long as there is a place behind it.                                   *)
LEMMA DmaMoves ==
    ASSUME DisplayTypes, Dma
    PROVE  /\ Place \in Cells
           /\ cursor' \in [{"column", "page"} -> Nat]
           /\ cursor'.column < Columns /\ cursor'.page < Pages
           /\ Place + 1 < Size => Place' = Place + 1
<1> DEFINE c == cursor.column  p == cursor.page
<1>1. c \in Nat /\ p \in Nat /\ c < Columns /\ p < Pages
  BY DEF DisplayTypes
<1>2. /\ p * Columns + c \in 0 .. Columns * Pages - 1
      /\ c + 1 = Columns => p * Columns + c + 1 = (p + 1) * Columns
      /\ c + 1 = Columns /\ p + 1 = Pages => p * Columns + c + 1 = Columns * Pages
      /\ (c + 1) % Columns = IF c + 1 < Columns THEN c + 1 ELSE 0
      /\ (p + 1) % Pages = IF p + 1 < Pages THEN p + 1 ELSE 0
  <2> HIDE DEF c, p
  <2> QED
    BY <1>1, SizeIsNat, Places
<1>3. /\ cursor'.column = (c + 1) % Columns
      /\ cursor'.page = IF c + 1 < Columns THEN p ELSE (p + 1) % Pages
      /\ cursor' = [column |-> cursor'.column, page |-> cursor'.page]
  BY DEF Dma
<1>4. cursor'.column \in Nat /\ cursor'.page \in Nat
      /\ cursor'.column < Columns /\ cursor'.page < Pages
  <2> HIDE DEF c, p
  <2> QED
    BY <1>1, <1>2, <1>3, SizeIsNat
<1>5. cursor' \in [{"column", "page"} -> Nat]
  BY <1>3, <1>4
<1>6. Place \in Cells
  BY <1>2 DEF Place, Cells, Size
<1>7. p * Columns + c + 1 < Columns * Pages =>
        cursor'.page * Columns + cursor'.column = p * Columns + c + 1
  <2> DEFINE cc == cursor'.column  pp == cursor'.page
  <2>1. /\ cc = (IF c + 1 < Columns THEN c + 1 ELSE 0)
        /\ pp = IF c + 1 < Columns THEN p ELSE IF p + 1 < Pages THEN p + 1 ELSE 0
    BY <1>2, <1>3
  <2> HIDE DEF c, p, cc, pp
  <2>2. CASE c + 1 < Columns
    BY <2>1, <2>2, <1>1, SizeIsNat DEF cc, pp
  <2>3. CASE c + 1 = Columns /\ p + 1 < Pages
    <3>1. cc = 0 /\ pp = p + 1
      BY <2>1, <2>3, <1>1, SizeIsNat
    <3>2. pp * Columns + cc = (p + 1) * Columns
      BY <3>1, <1>1, SizeIsNat
    <3> QED
      BY <3>2, <2>3, <1>2 DEF cc, pp
  <2>4. CASE c + 1 = Columns /\ p + 1 = Pages
    <3>1. p * Columns + c + 1 = Columns * Pages /\ Columns * Pages \in Nat
      BY <1>2, <2>4, SizeIsNat
    <3> QED
      BY <3>1
  <2> QED
    BY <2>2, <2>3, <2>4, <1>1, SizeIsNat
<1> QED
  BY <1>4, <1>5, <1>6, <1>7 DEF Place, Size

(* The types are kept: the transfer, byte by byte.                          *)
LEMMA TypesDma ==
    ASSUME DisplayTypes, Dma PROVE DisplayTypes'
<1>1. frame[sent] \in Colours /\ sent + 1 \in 0 .. Size
  <2>1. sent \in 0 .. Size /\ sent < Size /\ frame \in Frames
    BY DEF DisplayTypes, Dma, busy
  <2>2. sent \in Cells /\ sent + 1 \in 0 .. Size
    BY <2>1, SizeIsNat DEF Cells
  <2> QED
    BY <2>1, <2>2 DEF Frames
<1>2. screen' = [screen EXCEPT ![Place] = frame[sent]]
  BY DEF Dma, Place
<1>3. screen' \in Frames
  BY <1>1, <1>2 DEF DisplayTypes, Frames
<1> QED
  BY <1>1, <1>3, DmaMoves DEF DisplayTypes, Dma

(* Every step keeps the types.                                              *)
LEMMA DisplayTypesStep ==
    ASSUME DisplayTypes, DisplayNext \/ UNCHANGED displayVars PROVE DisplayTypes'
<1>1. ASSUME NEW p \in Painters, Wait(p) PROVE DisplayTypes'
  BY <1>1 DEF DisplayTypes, Wait, Labels
<1>2. CASE UNCHANGED displayVars
  BY <1>2 DEF DisplayTypes, displayVars
<1> QED
  BY <1>1, <1>2, TypesWrite, TypesCopy, TypesSetHome, TypesStartDma, TypesDma DEF DisplayNext

-----------------------------------------------------------------------------
(* The actions and what makes a frame whole.                                *)

Whole == OnePast /\ Homing /\ Painting

(* Who passes the wait finds the screen painted and the DMA at rest.        *)
LEMMA WholeWrite ==
    ASSUME NEW p \in Painters, DisplayTypes, Whole, Write(p) PROVE Whole'
<1>1. /\ at' = [at EXCEPT ![p] = "wait"] /\ at[p] = "out"
      /\ UNCHANGED <<frame, screen, cursor, operands, sent, commands>>
  BY DEF Write
<1>2. \A q \in Painters : Past(q)' = Past(q)
  BY <1>1 DEF Past, DisplayTypes
<1>4. OnePast'
  BY <1>1, <1>2 DEF Whole, OnePast, busy
<1>5. Homing'
  BY <1>1 DEF Whole, Homing, DisplayTypes, HomeTo
<1>6. Painting'
  BY <1>1, <1>2 DEF Whole, Painting, Place, busy
<1> QED
  BY <1>4, <1>5, <1>6 DEF Whole

(* Nobody else is past the wait, or the writes overlap.                     *)
LEMMA WholeWait ==
    ASSUME NEW p \in Painters, DisplayTypes, Whole, Wait(p), ~overlapped' PROVE Whole'
<1>1. /\ at' = [at EXCEPT ![p] = "copy"] /\ at[p] = "wait" /\ ~busy
      /\ UNCHANGED <<frame, screen, cursor, operands, sent, commands>>
      /\ \A q \in Painters : ~Past(q)
  BY DEF Wait
<1>2. Past(p)' /\ \A q \in Painters \ {p} : ~Past(q)'
  BY <1>1 DEF Past, DisplayTypes
<1>3. OnePast'
  BY <1>1, <1>2 DEF OnePast, busy
<1>4. \A q \in Painters : at[q] # "home" /\ at'[q] # "home"
  BY <1>1, <1>2 DEF Past, DisplayTypes
<1>5. Homing'
  BY <1>1, <1>4 DEF Whole, Homing, DisplayTypes
<1>6. Painting'
  BY <1>1, <1>2 DEF Painting, busy
<1> QED
  BY <1>3, <1>5, <1>6 DEF Whole

(* The buffer takes the new frame while nothing is being sent.              *)
LEMMA WholeCopy ==
    ASSUME NEW p \in Painters, DisplayTypes, Whole, Copy(p) PROVE Whole'
<1>1. /\ at' = [at EXCEPT ![p] = "home"] /\ at[p] = "copy"
      /\ UNCHANGED <<screen, cursor, operands, sent>>
      /\ commands'[p] = 6
  BY DEF Copy, Home, DisplayTypes
<1>2. \A q \in Painters : Past(q)' = Past(q)
  BY <1>1 DEF Past, DisplayTypes
<1>3. Past(p) /\ \A q \in Painters \ {p} : at[q] \in {"out", "wait"}
  BY <1>1 DEF Whole, OnePast, Past
<1>4. OnePast'
  BY <1>1, <1>2 DEF Whole, OnePast, busy
<1>5. operands[2] = 0
  BY <1>1, <1>3 DEF Whole, Homing
<1>6. HomeTo(commands[p])'
  BY <1>1, <1>5 DEF HomeTo
<1>7. Homing'
  <2>2. \A q \in Painters : at'[q] = "home" => q = p
    BY <1>1, <1>3 DEF DisplayTypes
  <2>3. at'[p] = "home"
    BY <1>1 DEF DisplayTypes
  <2> QED
    BY <1>6, <2>2, <2>3 DEF Homing, HomeTo
<1>8. Painting'
  BY <1>1, <1>2, <1>3 DEF Whole, Painting, OnePast, busy
<1> QED
  BY <1>4, <1>7, <1>8 DEF Whole

(* Each command brings the controller one step on.                          *)
LEMMA CommandLeads ==
    ASSUME NEW p \in Painters, DisplayTypes, HomeTo(commands[p]), SetHome(p)
    PROVE  HomeTo(commands[p])'
<1> DEFINE behind == commands[p]
<1>1. behind \in 1 .. 6 /\ commands'[p] = behind - 1
  BY DEF DisplayTypes, SetHome
<1>2. /\ operands' = IF operands[2] = 0 THEN <<Home[7 - behind], 2>>
                     ELSE <<operands[1], operands[2] - 1>>
      /\ cursor'.column = IF operands = <<"column", 2>> THEN 0 ELSE cursor.column
      /\ cursor'.page = IF operands = <<"page", 2>> THEN 0 ELSE cursor.page
  BY DEF DisplayTypes, SetHome, Command, Home
<1>3. Home[1] = "column" /\ Home[4] = "page"
  BY DEF Home
<1>4. CASE behind = 6
  BY <1>1, <1>2, <1>3, <1>4 DEF HomeTo
<1>5. CASE behind = 5
  BY <1>1, <1>2, <1>5 DEF HomeTo
<1>6. CASE behind = 4
  BY <1>1, <1>2, <1>6 DEF HomeTo
<1>7. CASE behind = 3
  BY <1>1, <1>2, <1>3, <1>7 DEF HomeTo
<1>8. CASE behind = 2
  BY <1>1, <1>2, <1>8 DEF HomeTo
<1>9. CASE behind = 1
  BY <1>1, <1>2, <1>9 DEF HomeTo
<1> QED
  BY <1>1, <1>4, <1>5, <1>6, <1>7, <1>8, <1>9

(* Each command of setHome moves the controller towards home.               *)
LEMMA WholeSetHome ==
    ASSUME NEW p \in Painters, DisplayTypes, Whole, SetHome(p) PROVE Whole'
<1>1. /\ at[p] = "home" /\ UNCHANGED <<frame, screen, sent, at>>
      /\ \A q \in Painters \ {p} : commands'[q] = commands[q]
  BY DEF SetHome, DisplayTypes
<1>2. Past(p) /\ ~busy /\ \A q \in Painters \ {p} : at[q] \in {"out", "wait"}
  BY <1>1 DEF Whole, OnePast, Past
<1>3. HomeTo(commands[p])'
  BY <1>1, CommandLeads DEF Whole, Homing
<1>4. OnePast'
  BY <1>1 DEF Whole, OnePast, Past, busy
<1>5. Homing'
  BY <1>1, <1>2, <1>3 DEF Whole, Homing
<1>6. Painting'
  BY <1>1, <1>2 DEF Painting, busy, Past
<1> QED
  BY <1>4, <1>5, <1>6 DEF Whole

(* The transfer starts at home with nothing sent.                           *)
LEMMA WholeStartDma ==
    ASSUME NEW p \in Painters, DisplayTypes, Whole, StartDma(p) PROVE Whole'
<1>1. /\ at' = [at EXCEPT ![p] = "out"] /\ at[p] = "home" /\ commands[p] = 0
      /\ sent' = 0 /\ UNCHANGED <<cursor, operands>>
      /\ \A q \in Painters \ {p} : commands'[q] = commands[q]
  BY DEF StartDma, DisplayTypes
<1>2. \A q \in Painters \ {p} : at[q] \in {"out", "wait"}
  BY <1>1 DEF Whole, OnePast, Past
<1>3. \A q \in Painters : at'[q] \in {"out", "wait"} /\ (at'[q] = "wait" => q # p)
  BY <1>1, <1>2 DEF DisplayTypes
<1>4. operands[2] = 0 /\ cursor.column = 0 /\ cursor.page = 0
  BY <1>1 DEF Whole, Homing, HomeTo
<1>5. OnePast'
  BY <1>3 DEF OnePast, Past
<1>6. \A q \in Painters : at'[q] = "wait" => at[q] = "wait"
  BY <1>1, <1>3 DEF DisplayTypes
<1>7. Homing'
  BY <1>1, <1>3, <1>4, <1>6 DEF Whole, Homing
<1>8. Place' = 0
  BY <1>1, <1>4, SizeIsNat DEF Place
<1>9. Painting'
  BY <1>1, <1>8 DEF Painting, busy, Cells
<1> QED
  BY <1>5, <1>7, <1>9 DEF Whole

(* Each byte goes to the place that follows the last one.                   *)
LEMMA WholeDma ==
    ASSUME DisplayTypes, Whole, Dma PROVE Whole'
<1>1. /\ busy /\ sent' = sent + 1 /\ sent \in Nat
      /\ UNCHANGED <<frame, operands, at, commands>>
      /\ screen' = [screen EXCEPT ![Place] = frame[sent]]
  BY SizeIsNat DEF Dma, Place, DisplayTypes
<1>2. \A q \in Painters : at[q] \in {"out", "wait"} /\ ~Past(q) /\ ~Past(q)'
  BY <1>1 DEF Whole, OnePast, Past
<1>3. Place = sent /\ \A i \in Cells : i < sent => screen[i] = frame[i]
  BY <1>1, <1>2 DEF Whole, Painting
<1>4. OnePast'
  BY <1>2 DEF OnePast
<1>5. Homing'
  BY <1>1, <1>2 DEF Whole, Homing
<1>6. busy' => Place' = sent'
  BY <1>1, <1>3, DmaMoves DEF busy, Size
<1>7. \A i \in Cells : i < sent' => screen'[i] = frame'[i]
  <2>1. DOMAIN screen = Cells /\ Place \in Cells
    BY DmaMoves DEF DisplayTypes, Frames
  <2>2. \A i \in Cells : screen'[i] = IF i = sent THEN frame[sent] ELSE screen[i]
    BY <1>1, <1>3, <2>1
  <2>3. \A i \in Cells : i < sent' => i = sent \/ i < sent
    BY <1>1, SizeIsNat DEF Cells
  <2> QED
    BY <1>1, <1>3, <2>2, <2>3
<1> QED
  BY <1>4, <1>5, <1>6, <1>7 DEF Whole, Painting

-----------------------------------------------------------------------------

(* The invariant of both devices.                                           *)
DriversInv == StorageInv /\ DisplayTypes /\ (~overlapped => Whole)

(* Both parts together, as long as no two writes overlap.                   *)
LEMMA DisplayStep ==
    ASSUME DisplayTypes, ~overlapped => Whole, DisplayNext \/ UNCHANGED displayVars
    PROVE  DisplayTypes' /\ (~overlapped' => Whole')
<1>1. DisplayTypes'
  BY DisplayTypesStep
<1>2. ~overlapped' => ~overlapped
  BY DEF DisplayNext, displayVars, Write, Wait, Copy, SetHome, StartDma, Dma
<1>3. CASE UNCHANGED displayVars
  BY <1>1, <1>2, <1>3 DEF displayVars, Whole, OnePast, Past, busy, Homing, HomeTo, Painting, Place
<1>4. CASE DisplayNext
  BY <1>1, <1>2, <1>4, WholeWrite, WholeWait, WholeCopy, WholeSetHome, WholeStartDma, WholeDma
     DEF DisplayNext
<1> QED
  BY <1>3, <1>4

(* Nobody is painting and nobody uses the device.                           *)
LEMMA DriversStart == Init => DriversInv
<1> SUFFICES ASSUME Init PROVE DriversInv
  OBVIOUS
<1>1. StorageInv
  BY DEF Init, StorageInit, StorageInv
<1>2. frame \in Frames /\ screen = frame /\ painted = frame /\ sent = Size /\ sent \in 0 .. Size
  BY DisplayAssumption, SizeIsNat DEF Init, DisplayInit, Frames
<1>4. commands \in [Painters -> 0 .. 6]
  BY DEF Init, DisplayInit
<1>5. /\ cursor \in [{"column", "page"} -> Nat]
      /\ cursor.column < Columns /\ cursor.page < Pages
  BY SizeIsNat DEF Init, DisplayInit, Origin
<1>6. DisplayTypes
  BY <1>2, <1>4, <1>5 DEF DisplayTypes, Init, DisplayInit, Labels
<1>7. \A p \in Painters : at[p] = "out" /\ ~Past(p)
  BY DEF Init, DisplayInit, Past
<1>8. ~busy /\ operands[2] = 0
  BY <1>2 DEF busy, Init, DisplayInit
<1>9. Whole
  BY <1>2, <1>7, <1>8 DEF Whole, OnePast, Homing, Painting
<1> QED
  BY <1>1, <1>6, <1>9 DEF DriversInv

(* The invariant holds, whatever the processes draw and store.              *)
THEOREM DriversInductive == Spec => []DriversInv
<1>1. ASSUME DriversInv, [Next]_vars PROVE DriversInv'
  <2>1. (DisplayNext \/ UNCHANGED displayVars) /\ (StorageNext \/ UNCHANGED storageVars)
    BY <1>1 DEF Next, vars
  <2> QED
    BY <1>1, <2>1, DisplayStep, StorageStep DEF DriversInv
<1> QED
  BY <1>1, DriversStart, PTL DEF Spec

(* Frames reach the screen whole, for any display and any processes, as     *)
(* long as no two writes pass the wait at once (ssd1306_file.cpp).          *)
THEOREM FramesReachTheScreen == Spec => []FramesAreWhole
<1>1. DriversInv => FramesAreWhole
  <2> SUFFICES ASSUME DriversInv, ~overlapped, ~busy, \A p \in Painters : ~Past(p)
               PROVE  screen = painted
    BY DEF FramesAreWhole
  <2>1. sent = Size /\ frame \in Frames /\ screen \in Frames /\ painted = frame
    BY SizeIsNat DEF DriversInv, DisplayTypes, busy
  <2>2. \A i \in Cells : screen[i] = frame[i]
    BY <2>1, SizeIsNat DEF DriversInv, Whole, Painting, Cells
  <2> QED
    BY <2>1, <2>2 DEF Frames
<1> QED
  BY <1>1, DriversInductive, PTL

(* What a write between init and deinit stored is in the memory, for any    *)
(* number of users that come and go, until an init by another user clears   *)
(* the device (ram_block_device.cpp).                                       *)
THEOREM StoredBytesStay == Spec => []WritesAreKept
<1>1. DriversInv => WritesAreKept
  BY DEF DriversInv, StorageInv, WritesAreKept
<1> QED
  BY <1>1, DriversInductive, PTL

-----------------------------------------------------------------------------
(* Induction for sequences: what holds of none and of one element more.     *)
LEMMA SequenceInduction ==
    ASSUME NEW S, NEW T, <<>> \in T,
           \A s \in Seq(S) : \A x \in S : s \in T => Append(s, x) \in T
    PROVE  Seq(S) \subseteq T
  <1> DEFINE N == {n \in Nat : \A s \in Seq(S) : Len(s) = n => s \in T}
  <1>1. 0 \in N
    <2> SUFFICES ASSUME NEW s \in Seq(S), Len(s) = 0 PROVE s \in T
      OBVIOUS
    <2>1. s = <<>>
      BY EmptySeq
    <2> QED
      BY <2>1
  <1>2. ASSUME NEW n \in Nat, n \in N PROVE n + 1 \in N
    <2> SUFFICES ASSUME NEW s \in Seq(S), Len(s) = n + 1 PROVE s \in T
      OBVIOUS
    <2>1. \A i \in 1 .. n + 1 : s[i] \in S
      BY ElementOfSeq
    <2>2. PICK f : f = SubSeq(s, 1, n)
      OBVIOUS
    <2>3. \A i \in 1 .. n : s[i] \in S
      BY <2>1
    <2>4. f \in Seq(S) /\ Len(f) = n
      <3>1. f \in Seq(S) /\ Len(f) = IF 1 <= n THEN n - 1 + 1 ELSE 0
        BY <2>2, <2>3, SubSeqProperties
      <3> QED
        BY <3>1
    <2>5. PICK x \in S : x = s[n + 1]
      BY <2>1
    <2>6. f \in T
      BY <1>2, <2>4
    <2>7. 1 \in 1 .. Len(s) /\ n + 1 \in 1 .. Len(s) /\ (n + 1) - 1 = n
      OBVIOUS
    <2>8. SubSeq(s, 1, n + 1) = f \o <<x>>
      BY <2>2, <2>5, <2>7, SubSeqRecursiveSecond
    <2>9. SubSeq(s, 1, n + 1) = s
      BY SubSeqFull
    <2>10. s = Append(f, x)
      BY <2>4, <2>8, <2>9, AppendIsConcat
    <2> QED
      BY <2>4, <2>6, <2>10
  <1>3. Nat \subseteq N
    <2> HIDE DEF N
    <2> QED
      BY <1>1, <1>2, NaturalInduction
  <1>4. \A s \in Seq(S) : Len(s) \in N
    BY <1>3, LenProperties
  <1> QED
    BY <1>4

(* Induction over all smaller numbers.                                      *)
LEMMA DescentInduction ==
    ASSUME NEW T, \A n \in Nat : (\A m \in Nat : m < n => m \in T) => n \in T
    PROVE  Nat \subseteq T
  <1> SUFFICES ASSUME Nat \ T # {} PROVE FALSE
    OBVIOUS
  <1>1. PICK n \in Nat \ T : \A m \in Nat \ T : n <= m
    BY LeastNatural
  <1>2. \A m \in Nat : m < n => m \in T
    BY <1>1
  <1> QED
    BY <1>1, <1>2

-----------------------------------------------------------------------------
(* Printing numbers.                                                        *)

Bases == {2, 8, 10, 16}

(* The last digit of a number, and the number without it.                   *)
LEMMA Divided ==
    ASSUME NEW b \in Bases, NEW n \in Nat, n # 0
    PROVE  /\ n % b \in 0 .. b - 1 /\ n \div b \in Nat /\ n \div b < n
           /\ n = (n \div b) * b + (n % b)
  BY DEF Bases

(* A number with one digit more.                                            *)
LEMMA Composed ==
    ASSUME NEW b \in Bases, NEW q \in Nat, NEW x \in 0 .. b - 1
    PROVE  /\ q * b + x \in Nat /\ q <= q * b + x /\ (q # 0 \/ x # 0 => q * b + x # 0)
           /\ (q * b + x) % b = x /\ (q * b + x) \div b = q
  BY DEF Bases

Digits(b) == 0 .. b - 1

(* g gives the digits of all numbers up to m.                               *)
DigitsUpTo(g, m, b) ==
    \A n \in 0 .. m : g[n] = IF n = 0 THEN <<>> ELSE <<n % b>> \o g[n \div b]

LEMMA DigitsExist ==
    ASSUME NEW b \in Bases, NEW m \in Nat
    PROVE  \E g \in [0 .. m -> Seq(Digits(b))] : DigitsUpTo(g, m, b)
  <1> DEFINE A == Seq(Digits(b))
             T == {k \in Nat : \E g \in [0 .. k -> A] : DigitsUpTo(g, k, b)}
  <1>1. 0 \in T
    <2>1. PICK g : g = [n \in 0 .. 0 |-> <<>>]
      OBVIOUS
    <2>2. <<>> \in A
      BY EmptySeq
    <2>3. g \in [0 .. 0 -> A]
      BY <2>1, <2>2
    <2>4. \A n \in 0 .. 0 : n = 0 /\ g[n] = <<>>
      BY <2>1
    <2>5. DigitsUpTo(g, 0, b)
      BY <2>4 DEF DigitsUpTo
    <2> QED
      BY <2>3, <2>5
  <1>2. ASSUME NEW k \in Nat, k \in T PROVE k + 1 \in T
    <2>1. PICK g \in [0 .. k -> A] : DigitsUpTo(g, k, b)
      BY <1>2
    <2>2. PICK q \in 0 .. k, x \in Digits(b) : q = (k + 1) \div b /\ x = (k + 1) % b
      <3>1. PICK n \in Nat : n = k + 1
        OBVIOUS
      <3>2. n # 0
        BY <3>1
      <3>3. n % b \in 0 .. b - 1 /\ n \div b \in Nat /\ n \div b < n
        BY <3>2, Divided
      <3>4. n \div b \in 0 .. k
        <4>1. PICK q \in Nat : q = n \div b
          BY <3>3
        <4>2. q \in 0 .. k
          BY <3>1, <3>3, <4>1
        <4> QED
          BY <4>1, <4>2
      <3>5. n \div b \in 0 .. k /\ n % b \in Digits(b)
        BY <3>3, <3>4 DEF Digits
      <3> QED
        BY ONLY <3>1, <3>5
    <2>3. PICK e \in A : e = <<x>> \o g[q]
      <3>1. <<x>> \in A /\ g[q] \in A
        OBVIOUS
      <3> QED
        BY <3>1, ConcatProperties
    <2>4. PICK h : h = [n \in 0 .. k + 1 |-> IF n = k + 1 THEN e ELSE g[n]]
      OBVIOUS
    <2>5. h \in [0 .. k + 1 -> A]
      <3>1. \A n \in 0 .. k + 1 : n # k + 1 => n \in 0 .. k
        OBVIOUS
      <3> HIDE DEF A
      <3> QED
        BY <2>4, <3>1
    <2>6. \A n \in 0 .. k : h[n] = g[n]
      <3>1. \A n \in 0 .. k : n \in 0 .. k + 1 /\ n # k + 1
        OBVIOUS
      <3> QED
        BY <2>4, <3>1
    <2>7. h[k + 1] = e
      <3>1. k + 1 \in 0 .. k + 1
        OBVIOUS
      <3> QED
        BY <2>4, <3>1
    <2>8. ASSUME NEW n \in 0 .. k + 1
          PROVE  h[n] = IF n = 0 THEN <<>> ELSE <<n % b>> \o h[n \div b]
      <3>1. CASE n = k + 1
        <4>1. h[q] = g[q]
          BY <2>6
        <4>2. h[n] = <<x>> \o h[q]
          BY <2>3, <2>7, <3>1, <4>1
        <4>3. n \div b = q /\ n % b = x /\ n # 0
          BY <2>2, <3>1
        <4> QED
          BY ONLY <4>2, <4>3
      <3>2. CASE n = 0
        <4>1. 0 \in 0 .. k
          OBVIOUS
        <4>2. g[0] = <<>>
          BY <2>1, <4>1 DEF DigitsUpTo
        <4>3. h[0] = g[0]
          BY <2>6, <4>1
        <4> QED
          BY ONLY <3>2, <4>2, <4>3
      <3>3. CASE n # 0 /\ n # k + 1
        <4>1. n \in 0 .. k /\ n \in Nat
          BY <3>3
        <4>2. n \div b \in 0 .. k
          BY <3>3, <4>1, Divided
        <4>3. g[n] = <<n % b>> \o g[n \div b]
          BY <2>1, <3>3, <4>1 DEF DigitsUpTo
        <4> QED
          BY <2>6, <3>3, <4>1, <4>2, <4>3
      <3> QED
        BY <3>1, <3>2, <3>3
    <2>9. DigitsUpTo(h, k + 1, b)
      BY <2>8 DEF DigitsUpTo
    <2> QED
      BY <2>5, <2>9
  <1>3. Nat \subseteq T
    <2> HIDE DEF T
    <2> QED
      BY <1>1, <1>2, NaturalInduction
  <1> QED
    BY <1>3

LEMMA DigitsAgree ==
    ASSUME NEW b \in Bases, NEW m \in Nat, NEW g, DigitsUpTo(g, m, b),
           NEW k \in 0 .. m, NEW h, DigitsUpTo(h, k, b)
    PROVE  g[k] = h[k]
  <1> DEFINE T == {n \in Nat : n <= k => g[n] = h[n]}
  <1>1. ASSUME NEW n \in Nat, \A i \in Nat : i < n => i \in T PROVE n \in T
    <2> SUFFICES ASSUME n <= k PROVE g[n] = h[n]
      OBVIOUS
    <2>1. n \in 0 .. m /\ n \in 0 .. k
      OBVIOUS
    <2>2. CASE n = 0
      BY <2>1, <2>2 DEF DigitsUpTo
    <2>3. CASE n # 0
      <3>1. PICK q \in Nat : q = n \div b /\ q < n
        BY <2>3, Divided
      <3>2. g[q] = h[q]
        BY <1>1, <3>1
      <3>3. g[n] = <<n % b>> \o g[q] /\ h[n] = <<n % b>> \o h[q]
        BY <2>1, <2>3, <3>1 DEF DigitsUpTo
      <3> QED
        BY <3>2, <3>3
    <2> QED
      BY <2>2, <2>3
  <1>2. Nat \subseteq T
    <2> HIDE DEF T
    <2> QED
      BY <1>1, DescentInduction
  <1> QED
    BY <1>2

LEMMA DigitsOfIs ==
    ASSUME NEW b \in Bases, NEW m \in Nat
    PROVE  \E g : DigitsUpTo(g, m, b) /\ DigitsOf(m, b) = g[m] /\ g[m] \in Seq(Digits(b))
  <1> DEFINE Piece(w, n) == IF n = 0 THEN <<>> ELSE <<n % b>> \o w[n \div b]
             Def(w) == w = [n \in 0 .. m |-> Piece(w, n)]
             d == CHOOSE w : Def(w)
  <1>1. PICK g \in [0 .. m -> Seq(Digits(b))] : DigitsUpTo(g, m, b)
    BY DigitsExist
  <1>2. Def(g)
    <2>1. \A n \in 0 .. m : g[n] = Piece(g, n)
      BY <1>1 DEF DigitsUpTo
    <2>2. g = [n \in 0 .. m |-> g[n]]
      OBVIOUS
    <2> HIDE DEF Piece
    <2> QED
      BY <2>1, <2>2
  <1>3. Def(d)
    <2> HIDE DEF Def
    <2> QED
      BY <1>2
  <1>4. PICK h : h = d
    BY Zenon
  <1>5. DigitsUpTo(h, m, b)
    <2>1. Def(h)
      <3> HIDE DEF Def
      <3> QED
        BY <1>3, <1>4
    <2>2. \A n \in 0 .. m : h[n] = Piece(h, n)
      <3> HIDE DEF Piece
      <3> QED
        BY <2>1
    <2> QED
      BY <2>2 DEF DigitsUpTo
  <1>6. DigitsOf(m, b) = d[m]
    BY DEF DigitsOf
  <1>7. g[m] = h[m]
    <2>1. m \in 0 .. m
      OBVIOUS
    <2> QED
      BY <1>1, <1>5, <2>1, DigitsAgree
  <1>8. g[m] \in Seq(Digits(b))
    <2>1. m \in 0 .. m
      OBVIOUS
    <2> QED
      BY <2>1
  <1> HIDE DEF d
  <1> QED
    BY <1>1, <1>4, <1>6, <1>7, <1>8

(* The digits of a number are its last one and those of what is left.       *)
LEMMA DigitsAre ==
    ASSUME NEW b \in Bases, NEW n \in Nat
    PROVE  /\ DigitsOf(n, b) \in Seq(Digits(b))
           /\ n = 0 => DigitsOf(n, b) = <<>>
           /\ n # 0 => DigitsOf(n, b) = <<n % b>> \o DigitsOf(n \div b, b)
  <1>1. PICK g : DigitsUpTo(g, n, b) /\ DigitsOf(n, b) = g[n] /\ g[n] \in Seq(Digits(b))
    BY DigitsOfIs
  <1>2. n \in 0 .. n
    OBVIOUS
  <1>3. DigitsOf(n, b) \in Seq(Digits(b)) /\ (n = 0 => DigitsOf(n, b) = <<>>)
    BY <1>1, <1>2 DEF DigitsUpTo
  <1>4. ASSUME n # 0 PROVE DigitsOf(n, b) = <<n % b>> \o DigitsOf(n \div b, b)
    <2>1. PICK q \in 0 .. n : q = n \div b /\ q \in Nat
      BY <1>4, Divided
    <2>2. PICK h : DigitsUpTo(h, q, b) /\ DigitsOf(q, b) = h[q] /\ h[q] \in Seq(Digits(b))
      BY <2>1, DigitsOfIs
    <2>3. g[q] = h[q]
      <3>1. DigitsUpTo(g, n, b) /\ DigitsUpTo(h, q, b) /\ q \in 0 .. n /\ n \in Nat /\ b \in Bases
        BY <1>1, <2>2
      <3> HIDE DEF DigitsUpTo
      <3> QED
        BY ONLY <3>1, DigitsAgree
    <2>4. g[n] = <<n % b>> \o g[q]
      BY <1>1, <1>2, <1>4, <2>1 DEF DigitsUpTo
    <2> QED
      BY <1>1, <2>1, <2>2, <2>3, <2>4
  <1> QED
    BY <1>3, <1>4

-----------------------------------------------------------------------------

(* v gives what the first digits stand for, up to the m-th of them.         *)
TurnsUpTo(v, s, m, b, hold) ==
    \A n \in 0 .. m : v[n] = IF n = 0 THEN 0 ELSE hold[v[n - 1] * b + s[n]]

LEMMA TurnsExist ==
    ASSUME NEW b \in Bases, NEW s \in Seq(Digits(b)), NEW hold \in [Int -> Int],
           NEW m \in Nat, m <= Len(s)
    PROVE  \E v \in [0 .. m -> Int] : TurnsUpTo(v, s, m, b, hold)
  <1> DEFINE T == {k \in Nat : k <= Len(s) => \E v \in [0 .. k -> Int] : TurnsUpTo(v, s, k, b, hold)}
  <1>1. 0 \in T
    <2>1. PICK v : v = [n \in 0 .. 0 |-> 0]
      OBVIOUS
    <2>2. v \in [0 .. 0 -> Int]
      BY <2>1
    <2>3. \A n \in 0 .. 0 : n = 0 /\ v[n] = 0
      BY <2>1
    <2>4. TurnsUpTo(v, s, 0, b, hold)
      BY <2>3 DEF TurnsUpTo
    <2> QED
      BY <2>2, <2>4
  <1>2. ASSUME NEW k \in Nat, k \in T PROVE k + 1 \in T
    <2> SUFFICES ASSUME k + 1 <= Len(s)
                 PROVE  \E v \in [0 .. k + 1 -> Int] : TurnsUpTo(v, s, k + 1, b, hold)
      OBVIOUS
    <2>1. PICK v \in [0 .. k -> Int] : TurnsUpTo(v, s, k, b, hold)
      <3>1. k <= Len(s)
        BY LenProperties
      <3> QED
        BY <1>2, <3>1
    <2>2. PICK e \in Int : e = hold[v[k] * b + s[k + 1]]
      <3>1. PICK u \in Int : u = v[k]
        OBVIOUS
      <3>2. PICK x \in Digits(b) : x = s[k + 1]
        <4>1. s[k + 1] \in Digits(b)
          BY ElementOfSeq
        <4> QED
          BY ONLY <4>1
      <3>3. PICK z \in Int : z = u * b + x
        <4>1. x \in Int /\ b \in {2, 8, 10, 16}
          BY DEF Digits, Bases
        <4> QED
          BY <4>1
      <3>4. z = v[k] * b + s[k + 1]
        BY <3>1, <3>2, <3>3
      <3>5. hold[z] \in Int
        OBVIOUS
      <3> QED
        BY <3>4, <3>5
    <2>3. PICK w : w = [n \in 0 .. k + 1 |-> IF n = k + 1 THEN e ELSE v[n]]
      OBVIOUS
    <2>4. w \in [0 .. k + 1 -> Int]
      <3>1. \A n \in 0 .. k + 1 : n # k + 1 => n \in 0 .. k
        OBVIOUS
      <3> QED
        BY <2>3, <3>1
    <2>5. \A n \in 0 .. k : w[n] = v[n]
      <3>1. \A n \in 0 .. k : n \in 0 .. k + 1 /\ n # k + 1
        OBVIOUS
      <3> QED
        BY <2>3, <3>1
    <2>6. w[k + 1] = e
      <3>1. k + 1 \in 0 .. k + 1
        OBVIOUS
      <3> QED
        BY <2>3, <3>1
    <2>7. ASSUME NEW n \in 0 .. k + 1
          PROVE  w[n] = IF n = 0 THEN 0 ELSE hold[w[n - 1] * b + s[n]]
      <3>1. CASE n = k + 1
        <4>1. w[k] = v[k]
          BY <2>5
        <4>2. n # 0 /\ n - 1 = k
          BY <3>1
        <4> QED
          BY <2>2, <2>6, <3>1, <4>1, <4>2
      <3>2. CASE n # k + 1
        <4>1. n \in 0 .. k
          BY <3>2
        <4>2. w[n] = v[n] /\ (n # 0 => w[n - 1] = v[n - 1])
          <5>1. n # 0 => n - 1 \in 0 .. k
            BY <4>1
          <5> QED
            BY <2>5, <4>1, <5>1
        <4>3. v[n] = IF n = 0 THEN 0 ELSE hold[v[n - 1] * b + s[n]]
          BY <2>1, <4>1 DEF TurnsUpTo
        <4> QED
          BY <4>2, <4>3
      <3> QED
        BY <3>1, <3>2
    <2>8. TurnsUpTo(w, s, k + 1, b, hold)
      BY <2>7 DEF TurnsUpTo
    <2> QED
      BY <2>4, <2>8
  <1>3. Nat \subseteq T
    <2> HIDE DEF T
    <2> QED
      BY <1>1, <1>2, NaturalInduction
  <1> QED
    BY <1>3

LEMMA TurnsAgree ==
    ASSUME NEW b, NEW m \in Nat, NEW hold, NEW v, NEW s, TurnsUpTo(v, s, m, b, hold),
           NEW w, NEW t, TurnsUpTo(w, t, m, b, hold), \A n \in 1 .. m : s[n] = t[n]
    PROVE  v[m] = w[m]
  <1> DEFINE T == {n \in Nat : n <= m => v[n] = w[n]}
  <1>1. 0 \in T
    <2>1. 0 \in 0 .. m
      OBVIOUS
    <2>2. v[0] = 0 /\ w[0] = 0
      BY <2>1 DEF TurnsUpTo
    <2> QED
      BY <2>2
  <1>2. ASSUME NEW n \in Nat, n \in T PROVE n + 1 \in T
    <2> SUFFICES ASSUME n + 1 <= m PROVE v[n + 1] = w[n + 1]
      OBVIOUS
    <2>1. v[n] = w[n]
      BY <1>2
    <2>2. PICK k \in 0 .. m : k = n + 1 /\ k # 0 /\ k - 1 = n /\ k \in 1 .. m
      OBVIOUS
    <2>3. v[k] = hold[v[k - 1] * b + s[k]] /\ w[k] = hold[w[k - 1] * b + t[k]]
      BY <2>2 DEF TurnsUpTo
    <2>4. s[k] = t[k]
      BY <2>2
    <2> QED
      BY <2>1, <2>2, <2>3, <2>4
  <1>3. Nat \subseteq T
    <2> HIDE DEF T
    <2> QED
      BY <1>1, <1>2, NaturalInduction
  <1> QED
    BY <1>3

LEMMA TurnedIs ==
    ASSUME NEW b \in Bases, NEW s \in Seq(Digits(b)), NEW hold \in [Int -> Int]
    PROVE  \E v : /\ TurnsUpTo(v, s, Len(s), b, hold)
                  /\ Turned(s, b, hold) = v[Len(s)] /\ v[Len(s)] \in Int
  <1> DEFINE Piece(w, n) == IF n = 0 THEN 0 ELSE hold[w[n - 1] * b + s[n]]
             Def(w) == w = [n \in 0 .. Len(s) |-> Piece(w, n)]
             d == CHOOSE w : Def(w)
  <1>m. PICK m \in Nat : m = Len(s)
    BY LenProperties
  <1>1. PICK v \in [0 .. m -> Int] : TurnsUpTo(v, s, m, b, hold)
    <2>1. m <= Len(s)
      BY <1>m
    <2> QED
      BY <2>1, TurnsExist
  <1>2. Def(v)
    <2>1. \A n \in 0 .. m : v[n] = Piece(v, n)
      BY <1>1 DEF TurnsUpTo
    <2>2. v = [n \in 0 .. m |-> v[n]]
      OBVIOUS
    <2> HIDE DEF Piece
    <2> QED
      BY <1>m, <2>1, <2>2
  <1>3. Def(d)
    <2> HIDE DEF Def
    <2> QED
      BY <1>2
  <1>4. PICK w : w = d
    BY Zenon
  <1>5. TurnsUpTo(w, s, m, b, hold)
    <2>1. Def(w)
      <3> HIDE DEF Def
      <3> QED
        BY <1>3, <1>4
    <2>2. \A n \in 0 .. m : w[n] = Piece(w, n)
      <3> HIDE DEF Piece
      <3> QED
        BY <1>m, <2>1
    <2> QED
      BY <2>2 DEF TurnsUpTo
  <1>6. Turned(s, b, hold) = d[Len(s)]
    BY DEF Turned
  <1>7. PICK u : u = v
    OBVIOUS
  <1>8. u[m] = w[m]
    <2>1. TurnsUpTo(u, s, m, b, hold)
      BY <1>1, <1>7
    <2>2. \A n \in 1 .. m : s[n] = s[n]
      OBVIOUS
    <2> QED
      BY <1>5, <2>1, <2>2, TurnsAgree
  <1>9. u[m] \in Int
    <2>1. m \in 0 .. m
      OBVIOUS
    <2> QED
      BY <1>7, <2>1
  <1> HIDE DEF d
  <1> QED
    BY <1>4, <1>5, <1>6, <1>8, <1>9, <1>m

(* The digits turned round, one after the other.                            *)
LEMMA TurnedAre ==
    ASSUME NEW b \in Bases, NEW hold \in [Int -> Int]
    PROVE  /\ Turned(<<>>, b, hold) = 0
           /\ \A s \in Seq(Digits(b)) : \A x \in Digits(b) :
                 /\ Turned(s, b, hold) \in Int
                 /\ Turned(Append(s, x), b, hold) = hold[Turned(s, b, hold) * b + x]
  <1>1. Turned(<<>>, b, hold) = 0
    <2>1. PICK s \in Seq(Digits(b)) : s = <<>> /\ Len(s) = 0
      BY EmptySeq
    <2>2. PICK v : TurnsUpTo(v, s, Len(s), b, hold) /\ Turned(s, b, hold) = v[Len(s)]
      BY TurnedIs
    <2>3. v[0] = 0
      <3>1. 0 \in 0 .. Len(s)
        BY <2>1
      <3> QED
        BY <2>2, <3>1 DEF TurnsUpTo
    <2> QED
      BY <2>1, <2>2, <2>3
  <1>2. ASSUME NEW s \in Seq(Digits(b)), NEW x \in Digits(b)
        PROVE  /\ Turned(s, b, hold) \in Int
               /\ Turned(Append(s, x), b, hold) = hold[Turned(s, b, hold) * b + x]
    <2>1. PICK t \in Seq(Digits(b)) : t = Append(s, x)
      BY AppendProperties
    <2>2. PICK m \in Nat : m = Len(s) /\ Len(t) = m + 1
      BY <2>1
    <2>3. (\A n \in 1 .. m : t[n] = s[n]) /\ t[m + 1] = x
      BY <2>1, <2>2
    <2>4. PICK v : TurnsUpTo(v, s, Len(s), b, hold) /\ Turned(s, b, hold) = v[Len(s)] /\ v[Len(s)] \in Int
      BY TurnedIs
    <2>5. PICK w : TurnsUpTo(w, t, Len(t), b, hold) /\ Turned(t, b, hold) = w[Len(t)]
      BY TurnedIs
    <2>6. TurnsUpTo(v, s, m, b, hold)
      BY <2>2, <2>4
    <2>7. TurnsUpTo(w, t, m, b, hold)
      <3>1. TurnsUpTo(w, t, m + 1, b, hold)
        BY <2>2, <2>5
      <3>2. \A n \in 0 .. m : n \in 0 .. m + 1
        OBVIOUS
      <3> QED
        BY <3>1, <3>2 DEF TurnsUpTo
    <2>8. w[m] = v[m]
      BY <2>3, <2>6, <2>7, TurnsAgree
    <2>9. w[m + 1] = hold[w[m] * b + t[m + 1]]
      <3>1. PICK k \in 0 .. m + 1 : k = m + 1 /\ k # 0 /\ k - 1 = m
        OBVIOUS
      <3>2. TurnsUpTo(w, t, m + 1, b, hold)
        BY <2>2, <2>5
      <3>3. w[k] = hold[w[k - 1] * b + t[k]]
        BY <3>1, <3>2 DEF TurnsUpTo
      <3> QED
        BY <3>1, <3>3
    <2> QED
      BY <2>1, <2>2, <2>3, <2>4, <2>5, <2>8, <2>9
  <1> QED
    BY <1>1, <1>2

-----------------------------------------------------------------------------

(* The value is a number, and its next digit is the next one of its value.  *)
LEMMA ValueAre ==
    ASSUME NEW b \in Bases
    PROVE  /\ Value(<<>>, b) = 0
           /\ \A s \in Seq(Digits(b)) : Value(s, b) \in Nat
           /\ \A s \in Seq(Digits(b)) : \A x \in Digits(b) :
                 Value(Append(s, x), b) = (Value(s, b) * b) + x
  <1>1. PICK hold \in [Int -> Int] : hold = [x \in Int |-> x]
    OBVIOUS
  <1>2. \A s : Value(s, b) = Turned(s, b, hold)
    BY <1>1 DEF Value
  <1>3. Value(<<>>, b) = 0
    BY <1>2, TurnedAre
  <1>4. ASSUME NEW s \in Seq(Digits(b)), NEW x \in Digits(b)
        PROVE  Value(s, b) \in Int /\ Value(Append(s, x), b) = (Value(s, b) * b) + x
    <2>1. PICK v \in Int : v = Turned(s, b, hold) /\ Turned(Append(s, x), b, hold) = hold[v * b + x]
      BY TurnedAre
    <2>2. PICK z \in Int : z = v * b + x
      <3>1. x \in Int /\ b \in {2, 8, 10, 16}
        BY DEF Digits, Bases
      <3> QED
        BY <3>1
    <2>3. hold[z] = z
      BY <1>1
    <2> QED
      BY <1>2, <2>1, <2>2, <2>3
  <1>5. \A s \in Seq(Digits(b)) : Value(s, b) \in Nat
    <2> DEFINE T == {s \in Seq(Digits(b)) : Value(s, b) \in Nat}
    <2>1. <<>> \in T
      BY <1>3, EmptySeq
    <2>2. ASSUME NEW s \in Seq(Digits(b)), NEW x \in Digits(b), s \in T
          PROVE  Append(s, x) \in T
      <3>1. PICK v \in Nat : v = Value(s, b)
        BY <2>2
      <3>2. x \in 0 .. b - 1 /\ b \in {2, 8, 10, 16}
        BY DEF Digits, Bases
      <3>3. v * b + x \in Nat
        BY <3>2, SMTT(60)
      <3>4. Append(s, x) \in Seq(Digits(b))
        BY AppendProperties
      <3> QED
        BY <1>4, <3>1, <3>3, <3>4
    <2>3. Seq(Digits(b)) \subseteq T
      <3> HIDE DEF T
      <3> QED
        BY <2>1, <2>2, SequenceInduction
    <2> QED
      BY <2>3
  <1> QED
    BY <1>3, <1>4, <1>5

LEMMA DigitsOfComposed ==
    ASSUME NEW b \in Bases, NEW q \in Nat, NEW x \in Digits(b), q # 0 \/ x # 0
    PROVE  DigitsOf((q * b) + x, b) = <<x>> \o DigitsOf(q, b)
  <1>1. x \in 0 .. b - 1
    BY DEF Digits
  <1>2. PICK n \in Nat : n = (q * b) + x
    BY <1>1, Composed
  <1>3. n # 0 /\ n % b = x /\ n \div b = q
    BY <1>1, <1>2, Composed
  <1>4. DigitsOf(n, b) = <<n % b>> \o DigitsOf(n \div b, b)
    BY <1>3, DigitsAre
  <1> QED
    BY ONLY <1>2, <1>3, <1>4

ZerosBehind(k) == [i \in 1 .. k |-> 0]

LEMMA ZerosAre ==
    ASSUME NEW b \in Bases, NEW k \in Nat
    PROVE  ZerosBehind(k) \in Seq(Digits(b)) /\ Len(ZerosBehind(k)) = k
  <1>1. 0 \in Digits(b)
    BY DEF Digits, Bases
  <1> QED
    BY <1>1 DEF ZerosBehind

LEMMA ReverseAre ==
    ASSUME NEW S, NEW s \in Seq(S)
    PROVE  /\ Reverse(s) \in Seq(S) /\ Len(Reverse(s)) = Len(s)
           /\ \A i \in 1 .. Len(s) : Reverse(s)[i] = s[(Len(s) - i) + 1]
  <1>1. PICK m \in Nat : m = Len(s)
    BY LenProperties
  <1>2. \A i \in 1 .. m : (m - i) + 1 \in 1 .. m
    OBVIOUS
  <1>3. \A i \in 1 .. m : s[(m - i) + 1] \in S
    BY <1>1, <1>2, ElementOfSeq
  <1>4. Reverse(s) = [i \in 1 .. m |-> s[(m - i) + 1]]
    BY <1>1 DEF Reverse
  <1> QED
    BY <1>1, <1>3, <1>4

(* The last digit comes first when they are turned round.                   *)
LEMMA ReverseAppend ==
    ASSUME NEW S, NEW s \in Seq(S), NEW x \in S
    PROVE  Reverse(Append(s, x)) = <<x>> \o Reverse(s)
  <1>1. PICK m \in Nat : m = Len(s)
    BY LenProperties
  <1>2. PICK t \in Seq(S) : t = Append(s, x)
    BY AppendProperties
  <1>3. Len(t) = m + 1 /\ t[m + 1] = x /\ \A i \in 1 .. m : t[i] = s[i]
    BY <1>1, <1>2, AppendProperties
  <1>4. PICK r \in Seq(S) : r = Reverse(s) /\ Len(r) = m /\ \A i \in 1 .. m : r[i] = s[(m - i) + 1]
    BY <1>1, ReverseAre
  <1>5. PICK u \in Seq(S) : u = Reverse(t) /\ Len(u) = m + 1 /\ \A i \in 1 .. m + 1 : u[i] = t[(m + 1 - i) + 1]
    <2>1. Reverse(t) \in Seq(S) /\ Len(Reverse(t)) = m + 1
      BY <1>3, ReverseAre
    <2>2. \A i \in 1 .. m + 1 : Reverse(t)[i] = t[(m + 1 - i) + 1]
      BY <1>3, ReverseAre, SMTT(60)
    <2> QED
      BY <2>1, <2>2
  <1>6. PICK a \in Seq(S) : a = <<x>> /\ Len(a) = 1 /\ a[1] = x
    <2>1. <<x>> \in Seq(S) /\ Len(<<x>>) = 1 /\ <<x>>[1] = x
      OBVIOUS
    <2> QED
      BY ONLY <2>1
  <1>7. PICK w \in Seq(S) : w = a \o r /\ Len(w) = m + 1 /\ \A i \in 1 .. m + 1 : w[i] = IF i <= 1 THEN a[i] ELSE r[i - 1]
    <2>1. PICK w \in Seq(S) : w = a \o r /\ Len(w) = 1 + m
      <3>1. a \o r \in Seq(S) /\ Len(a \o r) = Len(a) + Len(r)
        BY ConcatProperties
      <3>2. PICK w : w = a \o r
        OBVIOUS
      <3>3. w \in Seq(S) /\ Len(w) = 1 + m
        BY <1>4, <1>6, <3>1, <3>2
      <3> QED
        BY <3>2, <3>3
    <2>2. \A i \in 1 .. 1 + m : w[i] = IF i <= 1 THEN a[i] ELSE r[i - 1]
      BY <1>4, <1>6, <2>1, ConcatProperties
    <2>3. 1 + m = m + 1
      OBVIOUS
    <2> QED
      BY <2>1, <2>2, <2>3
  <1>8. ASSUME NEW i \in 1 .. m + 1 PROVE u[i] = w[i]
    <2>1. CASE i = 1
      <3>1. 1 \in 1 .. m + 1 /\ (m + 1 - 1) + 1 = m + 1
        OBVIOUS
      <3>2. u[1] = t[m + 1]
        BY <1>5, <3>1
      <3>3. w[1] = a[1]
        BY <1>7, <3>1
      <3> QED
        BY <1>3, <1>6, <2>1, <3>2, <3>3
    <2>2. CASE i # 1
      <3>1. PICK j \in 1 .. m : j = i - 1 /\ (m - j) + 1 \in 1 .. m /\ (m + 1 - i) + 1 = (m - j) + 1
        BY <2>2
      <3>2. u[i] = t[(m - j) + 1]
        BY <1>5, <3>1
      <3>3. w[i] = r[j]
        <4>1. ~ (i <= 1)
          BY <2>2
        <4> QED
          BY <1>7, <3>1, <4>1
      <3>4. r[j] = s[(m - j) + 1] /\ t[(m - j) + 1] = s[(m - j) + 1]
        BY <1>3, <1>4, <3>1
      <3> QED
        BY <3>2, <3>3, <3>4
    <2> QED
      BY <2>1, <2>2
  <1>9. u = w
    BY <1>5, <1>7, <1>8, SeqEqual
  <1> QED
    BY <1>2, <1>4, <1>5, <1>6, <1>7, <1>9

-----------------------------------------------------------------------------

(* k digits are zero, and the next one, if there is one, is not.            *)
LeadingZeros(s, k) ==
    /\ k \in 0 .. Len(s)
    /\ \A i \in 1 .. k : s[i] = 0
    /\ k = Len(s) \/ s[k + 1] # 0

LEMMA LeadingZerosBefore ==
    ASSUME NEW b \in Bases, NEW s \in Seq(Digits(b)), NEW x \in Digits(b), NEW k,
           LeadingZeros(Append(s, x), k)
    PROVE  /\ k \in Nat
           /\ k = Len(s) + 1 => x = 0 /\ LeadingZeros(s, Len(s))
           /\ k # Len(s) + 1 => LeadingZeros(s, k) /\ (k # Len(s) \/ x # 0)
  <1>1. PICK m \in Nat : m = Len(s)
    BY LenProperties
  <1>2. PICK t \in Seq(Digits(b)) : t = Append(s, x)
    BY AppendProperties
  <1>3. Len(t) = m + 1 /\ t[m + 1] = x /\ \A i \in 1 .. m : t[i] = s[i]
    BY <1>1, <1>2, AppendProperties
  <1>4. k \in 0 .. m + 1 /\ (\A i \in 1 .. k : t[i] = 0) /\ (k = m + 1 \/ t[k + 1] # 0)
    BY <1>2, <1>3 DEF LeadingZeros
  <1>5. CASE k = m + 1
    <2>1. x = 0
      BY <1>3, <1>4, <1>5
    <2>2. \A i \in 1 .. m : s[i] = 0
      BY <1>3, <1>4, <1>5
    <2>3. LeadingZeros(s, m)
      BY <1>1, <2>2 DEF LeadingZeros
    <2> QED
      BY <1>1, <1>5, <2>1, <2>3
  <1>6. CASE k # m + 1
    <2>1. k \in 0 .. m /\ t[k + 1] # 0
      BY <1>4, <1>6
    <2>2. \A i \in 1 .. k : s[i] = 0
      BY <1>3, <1>4, <2>1
    <2>3. k # m => s[k + 1] # 0
      <3>1. k # m => k + 1 \in 1 .. m
        BY <2>1
      <3> QED
        BY <1>3, <2>1, <3>1
    <2>4. LeadingZeros(s, k)
      BY <1>1, <2>1, <2>2, <2>3 DEF LeadingZeros
    <2> QED
      BY <1>1, <1>3, <1>6, <2>1, <2>4
  <1> QED
    BY <1>5, <1>6

LEMMA ZerosOneMore ==
    ASSUME NEW k \in Nat
    PROVE  ZerosBehind(k + 1) = <<0>> \o ZerosBehind(k)
  <1>1. 0 \in Int
    OBVIOUS
  <1>2. PICK z : z = ZerosBehind(k)
    OBVIOUS
  <1>3. z \in Seq(Int) /\ Len(z) = k /\ \A i \in 1 .. k : z[i] = 0
    BY <1>2 DEF ZerosBehind
  <1>4. PICK y : y = ZerosBehind(k + 1)
    OBVIOUS
  <1>5. y \in Seq(Int) /\ Len(y) = k + 1 /\ \A i \in 1 .. k + 1 : y[i] = 0
    BY <1>4 DEF ZerosBehind
  <1>6. PICK a \in Seq(Int) : a = <<0>> /\ Len(a) = 1 /\ a[1] = 0
    <2>1. <<0>> \in Seq(Int) /\ Len(<<0>>) = 1 /\ <<0>>[1] = 0
      OBVIOUS
    <2> QED
      BY ONLY <2>1
  <1>7. PICK w : w = a \o z
    OBVIOUS
  <1>8. w \in Seq(Int) /\ Len(w) = 1 + k /\ \A i \in 1 .. 1 + k : w[i] = IF i <= 1 THEN a[i] ELSE z[i - 1]
    <2>1. w \in Seq(Int) /\ Len(w) = Len(a) + Len(z)
      BY <1>3, <1>7, ConcatProperties
    <2>2. \A i \in 1 .. Len(a) + Len(z) : w[i] = IF i <= Len(a) THEN a[i] ELSE z[i - Len(a)]
      BY <1>3, <1>7, ConcatProperties
    <2> QED
      BY <1>3, <1>6, <2>1, <2>2
  <1>9. ASSUME NEW i \in 1 .. k + 1 PROVE y[i] = w[i]
    <2>1. CASE i = 1
      BY <1>5, <1>6, <1>8, <2>1
    <2>2. CASE i # 1
      <3>1. i - 1 \in 1 .. k /\ ~ (i <= 1) /\ i \in 1 .. 1 + k
        BY <2>2
      <3>2. w[i] = z[i - 1]
        BY <1>8, <3>1
      <3>3. z[i - 1] = 0
        BY <1>3, <3>1
      <3> QED
        BY <1>5, <3>2, <3>3
    <2> QED
      BY <2>1, <2>2
  <1>10. y = w
    <2>1. Len(y) = Len(w) /\ \A i \in 1 .. Len(y) : y[i] = w[i]
      BY <1>5, <1>8, <1>9
    <2> QED
      BY <1>5, <1>8, <2>1, SeqEqual
  <1> QED
    BY <1>2, <1>4, <1>6, <1>7, <1>10

(* The number that digits stand for has them all but the leading zeros, the *)
(* last one first: with those behind them they are the digits turned round. *)
IsTurnedRound(s, k, b) ==
    /\ Value(s, b) = 0 <=> k = Len(s)
    /\ DigitsOf(Value(s, b), b) \o ZerosBehind(k) = Reverse(s)

LEMMA ValueIsTurnedRound ==
    ASSUME NEW b \in Bases, NEW s \in Seq(Digits(b)), NEW k, LeadingZeros(s, k)
    PROVE  IsTurnedRound(s, k, b)
  <1> DEFINE T == {t \in Seq(Digits(b)) : \A i : LeadingZeros(t, i) => IsTurnedRound(t, i, b)}
  <1>0. 0 \in Nat /\ DigitsOf(0, b) = <<>>
    BY DigitsAre
  <1>1. <<>> \in T
    <2>1. PICK e \in Seq(Digits(b)) : e = <<>> /\ Len(e) = 0
      BY EmptySeq
    <2>2. ASSUME NEW i, LeadingZeros(e, i) PROVE IsTurnedRound(e, i, b)
      <3>1. i = 0
        BY <2>1, <2>2 DEF LeadingZeros
      <3>2. Value(e, b) = 0
        BY <2>1, ValueAre
      <3>3. ZerosBehind(0) = <<>>
        BY DEF ZerosBehind
      <3>4. Reverse(e) = <<>>
        BY <2>1, ReverseAre, EmptySeq
      <3>5. DigitsOf(Value(e, b), b) \o ZerosBehind(i) = <<>> \o <<>>
        BY <1>0, <3>1, <3>2, <3>3
      <3>6. <<>> \o <<>> = <<>>
        OBVIOUS
      <3> QED
        BY <2>1, <3>1, <3>2, <3>4, <3>5, <3>6 DEF IsTurnedRound
    <2> QED
      BY <2>1, <2>2
  <1>2. ASSUME NEW t \in Seq(Digits(b)), NEW x \in Digits(b), t \in T
        PROVE  Append(t, x) \in T
    <2>1. PICK u \in Seq(Digits(b)) : u = Append(t, x)
      BY AppendProperties
    <2>2. PICK m \in Nat : m = Len(t) /\ Len(u) = m + 1
      BY <2>1, AppendProperties, LenProperties
    <2>3. PICK v \in Nat : v = Value(t, b) /\ Value(u, b) = (v * b) + x
      BY <2>1, ValueAre
    <2>4. Reverse(u) = <<x>> \o Reverse(t)
      BY <2>1, ReverseAppend
    <2>5. x \in 0 .. b - 1
      BY DEF Digits
    <2>6. ASSUME NEW i, LeadingZeros(u, i) PROVE IsTurnedRound(u, i, b)
      <3>1. /\ i \in Nat
            /\ i = Len(t) + 1 => x = 0 /\ LeadingZeros(t, Len(t))
            /\ i # Len(t) + 1 => LeadingZeros(t, i) /\ (i # Len(t) \/ x # 0)
        <4>1. LeadingZeros(Append(t, x), i)
          BY <2>1, <2>6
        <4> QED
          BY <4>1, LeadingZerosBefore
      <3>2. CASE i = m + 1
        <4>1. x = 0 /\ IsTurnedRound(t, m, b)
          BY <1>2, <2>2, <3>1, <3>2
        <4>2. v = 0
          BY <2>2, <2>3, <4>1 DEF IsTurnedRound
        <4>3. <<>> \o ZerosBehind(m) = Reverse(t)
          BY <1>0, <2>3, <4>1, <4>2 DEF IsTurnedRound
        <4>4. PICK z \in Seq(Digits(b)) : z = ZerosBehind(m)
          BY ZerosAre
        <4>5. Reverse(t) = z
          BY <4>3, <4>4, ConcatEmptySeq
        <4>6. ZerosBehind(i) = <<0>> \o z
          BY <3>2, <4>4, ZerosOneMore
        <4>7. Reverse(u) = ZerosBehind(i)
          BY <2>4, <4>1, <4>5, <4>6
        <4>8. Value(u, b) = 0
          <5>1. 0 * b + 0 = 0
            BY DEF Bases
          <5> QED
            BY <2>3, <4>1, <4>2, <5>1
        <4>9. ZerosBehind(i) \in Seq(Digits(b))
          BY <3>1, ZerosAre
        <4>10. DigitsOf(Value(u, b), b) \o ZerosBehind(i) = Reverse(u)
          <5>1. <<>> \o ZerosBehind(i) = ZerosBehind(i)
            BY <4>9, ConcatEmptySeq
          <5> QED
            BY <1>0, <4>7, <4>8, <5>1
        <4> QED
          BY <2>2, <3>2, <4>8, <4>10 DEF IsTurnedRound
      <3>3. CASE i # m + 1
        <4>1. IsTurnedRound(t, i, b) /\ (i # m \/ x # 0)
          BY <1>2, <2>2, <3>1, <3>3
        <4>2. v # 0 \/ x # 0
          BY <2>2, <2>3, <4>1 DEF IsTurnedRound
        <4>3. PICK n \in Nat : n = Value(u, b) /\ n # 0
          BY <2>3, <2>5, <4>2, Composed
        <4>4. DigitsOf(n, b) = <<x>> \o DigitsOf(v, b)
          BY <2>3, <4>2, <4>3, DigitsOfComposed
        <4>5. DigitsOf(v, b) \o ZerosBehind(i) = Reverse(t)
          BY <2>3, <4>1 DEF IsTurnedRound
        <4>6. PICK a \in Seq(Digits(b)), p \in Seq(Digits(b)), z \in Seq(Digits(b)) :
                 a = <<x>> /\ p = DigitsOf(v, b) /\ z = ZerosBehind(i)
          <5>1. <<x>> \in Seq(Digits(b))
            OBVIOUS
          <5>2. DigitsOf(v, b) \in Seq(Digits(b))
            BY DigitsAre
          <5>3. ZerosBehind(i) \in Seq(Digits(b))
            BY <3>1, ZerosAre
          <5> QED
            BY ONLY <5>1, <5>2, <5>3
        <4>7. (a \o p) \o z = a \o (p \o z)
          BY ConcatAssociative, SMTT(60)
        <4>8. DigitsOf(n, b) \o ZerosBehind(i) = Reverse(u)
          BY ONLY <2>4, <4>4, <4>5, <4>6, <4>7
        <4> QED
          BY <2>2, <3>3, <4>3, <4>8 DEF IsTurnedRound
      <3> QED
        BY <3>2, <3>3
    <2> QED
      BY <2>1, <2>6
  <1>3. Seq(Digits(b)) \subseteq T
    <2> HIDE DEF T
    <2> QED
      BY <1>1, <1>2, SequenceInduction
  <1> QED
    BY <1>3

LEMMA FirstAndRest ==
    ASSUME NEW S, NEW x \in S, NEW s \in Seq(S), NEW y \in S, NEW t \in Seq(S),
           <<x>> \o s = <<y>> \o t
    PROVE  x = y /\ s = t
  <1>1. PICK a : a = <<x>>
    OBVIOUS
  <1>2. PICK c : c = <<y>>
    OBVIOUS
  <1>3. a \in Seq(S) /\ Len(a) = 1 /\ a[1] = x /\ c \in Seq(S) /\ Len(c) = 1 /\ c[1] = y
    BY <1>1, <1>2
  <1>4. PICK n \in Nat, m \in Nat : n = Len(s) /\ m = Len(t)
    BY LenProperties
  <1>5. PICK u : u = a \o s
    OBVIOUS
  <1>6. PICK w : w = c \o t
    OBVIOUS
  <1>7. u = w
    BY <1>1, <1>2, <1>5, <1>6
  <1>8. /\ \A i \in 1 .. Len(a) + Len(s) : u[i] = IF i <= Len(a) THEN a[i] ELSE s[i - Len(a)]
        /\ \A i \in 1 .. Len(c) + Len(t) : w[i] = IF i <= Len(c) THEN c[i] ELSE t[i - Len(c)]
    BY <1>3, <1>5, <1>6, ConcatProperties
  <1>9. /\ \A i \in 1 .. 1 + n : u[i] = IF i <= 1 THEN a[i] ELSE s[i - 1]
        /\ \A i \in 1 .. 1 + m : w[i] = IF i <= 1 THEN c[i] ELSE t[i - 1]
    BY <1>3, <1>4, <1>8
  <1>10. x = y
    <2>1. 1 \in 1 .. 1 + n /\ 1 \in 1 .. 1 + m
      OBVIOUS
    <2>2. u[1] = a[1] /\ w[1] = c[1]
      BY <1>9, <2>1
    <2> QED
      BY <1>3, <1>7, <2>2
  <1>11. s = t
    <2>1. a = c
      BY <1>1, <1>2, <1>10
    <2>2. a \o s = a \o t
      BY <1>5, <1>6, <1>7, <2>1
    <2> QED
      BY <1>3, <2>2, ConcatSimplifications
  <1> QED
    BY <1>10, <1>11

(* Different numbers have different digits.                                 *)
LEMMA DigitsDiffer ==
    ASSUME NEW b \in Bases, NEW n \in Nat, NEW m \in Nat, DigitsOf(n, b) = DigitsOf(m, b)
    PROVE  n = m
  <1> DEFINE T == {i \in Nat : \A j \in Nat : DigitsOf(i, b) = DigitsOf(j, b) => i = j}
  <1>1. ASSUME NEW i \in Nat, \A h \in Nat : h < i => h \in T PROVE i \in T
    <2> SUFFICES ASSUME NEW j \in Nat, DigitsOf(i, b) = DigitsOf(j, b) PROVE i = j
      OBVIOUS
    <2>1. ASSUME NEW h \in Nat, h # 0
          PROVE  \E x \in Digits(b), q \in Nat :
                    /\ x = h % b /\ q = h \div b /\ q < h
                    /\ h = (q * b) + x
                    /\ DigitsOf(h, b) = <<x>> \o DigitsOf(q, b)
      <3>1. h % b \in 0 .. b - 1 /\ h \div b \in Nat /\ h \div b < h /\ h = ((h \div b) * b) + (h % b)
        BY <2>1, Divided
      <3>2. PICK x, q : x = h % b /\ q = h \div b
        OBVIOUS
      <3>3. x \in 0 .. b - 1 /\ q \in Nat /\ q < h /\ h = (q * b) + x
        BY <3>1, <3>2
      <3>4. x \in Digits(b)
        BY <3>3 DEF Digits
      <3>5. DigitsOf(h, b) = <<h % b>> \o DigitsOf(h \div b, b)
        BY <2>1, DigitsAre
      <3>6. DigitsOf(h, b) = <<x>> \o DigitsOf(q, b)
        BY ONLY <3>2, <3>5
      <3> QED
        BY <3>2, <3>3, <3>4, <3>6
    <2>2. ASSUME NEW h \in Nat, h # 0 PROVE DigitsOf(h, b) # <<>>
      <3>1. PICK x \in Digits(b), q \in Nat : DigitsOf(h, b) = <<x>> \o DigitsOf(q, b)
        BY <2>1, <2>2
      <3>2. PICK a \in Seq(Digits(b)), p \in Seq(Digits(b)) : a = <<x>> /\ p = DigitsOf(q, b)
        <4>1. <<x>> \in Seq(Digits(b))
          OBVIOUS
        <4>2. DigitsOf(q, b) \in Seq(Digits(b))
          BY DigitsAre
        <4> QED
          BY ONLY <4>1, <4>2
      <3>3. a # <<>>
        BY <3>2
      <3>4. a \o p # <<>>
        BY <3>3, ConcatEqualIffEmpty
      <3> QED
        BY <3>1, <3>2, <3>4
    <2>3. CASE i = 0
      <3>1. DigitsOf(j, b) = <<>>
        BY <2>3, DigitsAre
      <3> QED
        BY <2>2, <2>3, <3>1
    <2>4. CASE i # 0
      <3>1. j # 0
        <4>1. DigitsOf(0, b) = <<>>
          BY DigitsAre
        <4> QED
          BY <2>2, <2>4, <4>1
      <3>2. PICK x \in Digits(b), q \in Nat :
               q < i /\ i = (q * b) + x /\ DigitsOf(i, b) = <<x>> \o DigitsOf(q, b)
        BY <2>1, <2>4
      <3>3. PICK y \in Digits(b), r \in Nat :
               j = (r * b) + y /\ DigitsOf(j, b) = <<y>> \o DigitsOf(r, b)
        BY <2>1, <3>1
      <3>4. PICK s \in Seq(Digits(b)), t \in Seq(Digits(b)) : s = DigitsOf(q, b) /\ t = DigitsOf(r, b)
        BY DigitsAre
      <3>5. <<x>> \o s = <<y>> \o t
        BY <3>2, <3>3, <3>4
      <3>6. x = y /\ s = t
        BY ONLY <3>5, FirstAndRest
      <3>7. q = r
        <4>1. q \in T
          BY <1>1, <3>2
        <4> QED
          BY <3>4, <3>6, <4>1
      <3> QED
        BY <3>2, <3>3, <3>6, <3>7
    <2> QED
      BY <2>3, <2>4
  <1>2. Nat \subseteq T
    <2> HIDE DEF T
    <2> QED
      BY <1>1, DescentInduction
  <1> QED
    BY <1>2

(* A number other than zero has a digit other than zero.                    *)
LEMMA SomeDigit ==
    ASSUME NEW b \in Bases, NEW n \in Nat, n # 0
    PROVE  \E i \in 1 .. Len(DigitsOf(n, b)) : DigitsOf(n, b)[i] # 0
  <1> DEFINE T == {h \in Nat : h # 0 => \E i \in 1 .. Len(DigitsOf(h, b)) : DigitsOf(h, b)[i] # 0}
  <1>1. ASSUME NEW h \in Nat, \A j \in Nat : j < h => j \in T PROVE h \in T
    <2> SUFFICES ASSUME h # 0
                 PROVE  \E i \in 1 .. Len(DigitsOf(h, b)) : DigitsOf(h, b)[i] # 0
      OBVIOUS
    <2>1. h % b \in 0 .. b - 1 /\ h \div b \in Nat /\ h \div b < h /\ h = ((h \div b) * b) + (h % b)
      BY Divided
    <2>2. PICK x \in Digits(b) : x = h % b
      BY <2>1 DEF Digits
    <2>3. PICK q \in Nat : q = h \div b /\ q < h /\ h = (q * b) + x
      BY <2>1, <2>2
    <2>4. q # 0 \/ x # 0
      <3>1. 0 * b + 0 = 0
        BY DEF Bases
      <3> QED
        BY <2>3, <3>1
    <2>5. PICK a \in Seq(Digits(b)) : a = <<x>> /\ Len(a) = 1 /\ a[1] = x
      <3>1. <<x>> \in Seq(Digits(b)) /\ Len(<<x>>) = 1 /\ <<x>>[1] = x
        OBVIOUS
      <3> QED
        BY ONLY <3>1
    <2>6. PICK p \in Seq(Digits(b)) : p = DigitsOf(q, b)
      BY DigitsAre
    <2>7. PICK d \in Seq(Digits(b)) : d = DigitsOf(h, b)
      BY DigitsAre
    <2>8. d = a \o p
      <3>1. DigitsOf(h, b) = <<h % b>> \o DigitsOf(h \div b, b)
        BY DigitsAre
      <3> QED
        BY ONLY <2>2, <2>3, <2>5, <2>6, <2>7, <3>1
    <2>9. PICK m \in Nat : m = Len(p)
      BY LenProperties
    <2>10. Len(d) = 1 + m /\ \A i \in 1 .. 1 + m : d[i] = IF i <= 1 THEN a[i] ELSE p[i - 1]
      <3>1. Len(a \o p) = Len(a) + Len(p)
        BY ConcatProperties
      <3>2. \A i \in 1 .. Len(a) + Len(p) : (a \o p)[i] = IF i <= Len(a) THEN a[i] ELSE p[i - Len(a)]
        BY ConcatProperties
      <3> QED
        BY <2>5, <2>8, <2>9, <3>1, <3>2
    <2>11. CASE x # 0
      <3>1. 1 \in 1 .. Len(d) /\ d[1] # 0
        BY <2>5, <2>10, <2>11
      <3> QED
        BY <2>7, <3>1
    <2>12. CASE x = 0
      <3>1. q \in T
        BY <1>1, <2>3
      <3>2. PICK i \in 1 .. m : p[i] # 0
        BY <2>4, <2>6, <2>9, <2>12, <3>1
      <3>3. i + 1 \in 1 .. 1 + m /\ ~ (i + 1 <= 1) /\ (i + 1) - 1 = i
        OBVIOUS
      <3>4. d[i + 1] = p[i]
        BY <2>10, <3>3
      <3> QED
        BY <2>7, <2>10, <3>2, <3>3, <3>4
    <2> QED
      BY <2>11, <2>12
  <1>2. Nat \subseteq T
    <2> HIDE DEF T
    <2> QED
      BY <1>1, DescentInduction
  <1> QED
    BY <1>2

(* The zeros that reverse_number counts are those the turning loses.        *)
LEMMA ZerosAtEndLead ==
    ASSUME NEW b \in Bases, NEW n \in Nat, n # 0
    PROVE  LeadingZeros(DigitsOf(n, b), ZerosAtEnd(n, b)) /\ ZerosAtEnd(n, b) \in Nat
  <1>1. PICK d \in Seq(Digits(b)) : d = DigitsOf(n, b)
    BY DigitsAre
  <1>2. PICK m \in Nat : m = Len(d)
    BY LenProperties
  <1>3. PICK i \in 1 .. m : d[i] # 0 /\ \A j \in 1 .. m : d[j] # 0 => i <= j
    <2> DEFINE N == {j \in 1 .. m : d[j] # 0}
    <2>1. PICK j \in N : TRUE
      BY <1>1, <1>2, SomeDigit
    <2>2. N \subseteq Nat
      OBVIOUS
    <2>3. N # {}
      BY <2>1
    <2>4. PICK i \in N : \A h \in N : i <= h
      <3> HIDE DEF N
      <3> QED
        BY <2>2, <2>3, LeastNatural
    <2> QED
      BY <2>4
  <1>4. PICK k \in 0 .. m - 1 : k = i - 1 /\ k + 1 = i
    OBVIOUS
  <1>5. d[k + 1] # 0 /\ \A j \in 1 .. k : d[j] = 0
    <2>1. \A j \in 1 .. k : j \in 1 .. m /\ ~ (i <= j)
      BY <1>4
    <2> QED
      BY <1>3, <1>4, <2>1
  <1>6. ZerosAtEnd(n, b) = CHOOSE h \in 0 .. m - 1 : d[h + 1] # 0 /\ \A j \in 1 .. h : d[j] = 0
    BY <1>1, <1>2 DEF ZerosAtEnd
  <1>7. PICK z : z = ZerosAtEnd(n, b)
    OBVIOUS
  <1>8. z \in 0 .. m - 1 /\ d[z + 1] # 0 /\ \A j \in 1 .. z : d[j] = 0
    BY <1>5, <1>6, <1>7
  <1>9. LeadingZeros(d, z)
    BY <1>2, <1>8 DEF LeadingZeros
  <1> QED
    BY <1>1, <1>7, <1>8, <1>9

(* A number's digits and the zeros at its end are its digits turned round   *)
(* if it is the one that those digits stand for, and only then.             *)
LEMMA OnlyItsValue ==
    ASSUME NEW b \in Bases, NEW n \in Nat, n # 0, NEW r \in Nat
    PROVE  DigitsOf(r, b) \o ZerosBehind(ZerosAtEnd(n, b)) = Reverse(DigitsOf(n, b))
              <=> r = Value(DigitsOf(n, b), b)
  <1>1. PICK d \in Seq(Digits(b)) : d = DigitsOf(n, b)
    BY DigitsAre
  <1>2. PICK k \in Nat : k = ZerosAtEnd(n, b) /\ LeadingZeros(d, k)
    BY <1>1, ZerosAtEndLead
  <1>3. PICK v \in Nat : v = Value(d, b)
    BY ValueAre
  <1>4. DigitsOf(v, b) \o ZerosBehind(k) = Reverse(d)
    BY <1>2, <1>3, ValueIsTurnedRound DEF IsTurnedRound
  <1>5. PICK p \in Seq(Digits(b)), q \in Seq(Digits(b)), z \in Seq(Digits(b)) :
           p = DigitsOf(v, b) /\ q = DigitsOf(r, b) /\ z = ZerosBehind(k)
    BY DigitsAre, ZerosAre
  <1>6. ASSUME q \o z = p \o z PROVE r = v
    <2>1. q = p
      BY <1>6, ConcatSimplifications
    <2> QED
      BY <1>5, <2>1, DigitsDiffer
  <1>7. r = v => q = p
    BY <1>5
  <1>8. p \o z = Reverse(d)
    BY <1>4, <1>5
  <1>9. q \o z = Reverse(d) <=> r = v
    BY <1>6, <1>7, <1>8
  <1> QED
    BY ONLY <1>1, <1>2, <1>3, <1>5, <1>9

-----------------------------------------------------------------------------
(* The types that hold the numbers.                                         *)

LEMMA ValuesAre == Values \in Nat /\ Half \in Nat \ {0} /\ Values = 2 * Half
  <1>0. Bits \in Nat /\ Bits # 0
    BY NumbersAssumption
  <1> DEFINE Piece(w, n) == IF n = 0 THEN 1 ELSE 2 * w[n - 1]
             Def(w) == w = [n \in 0 .. Bits |-> Piece(w, n)]
             d == CHOOSE w : Def(w)
  <1>1. PICK f \in [0 .. Bits -> Nat] : f[0] = 1 /\ \A i \in 1 .. Bits : f[i] = 2 * f[i - 1]
    <2>1. PICK doubled : doubled = [p \in Nat \X Nat |-> 2 * p[2]]
      OBVIOUS
    <2>2. doubled \in [Nat \X Nat -> Nat]
      BY <2>1
    <2>3. PICK f \in [0 .. Bits -> Nat] : Iterated(f, Bits, 1, doubled)
      BY <1>0, <2>2, Iterates
    <2>4. ASSUME NEW i \in 1 .. Bits PROVE f[i] = 2 * f[i - 1]
      <3>1. f[i] = doubled[<<i, f[i - 1]>>]
        BY <2>3 DEF Iterated
      <3>2. i \in Nat /\ i - 1 \in 0 .. Bits
        BY <1>0
      <3>3. PICK y \in Nat : y = f[i - 1]
        BY <3>2
      <3>4. doubled[<<i, y>>] = 2 * y
        BY <2>1, <3>2
      <3> QED
        BY <3>1, <3>3, <3>4
    <2>5. f[0] = 1
      BY <2>3 DEF Iterated
    <2> QED
      BY <2>4, <2>5
  <1>2. Def(f)
    <2>1. \A n \in 0 .. Bits : f[n] = Piece(f, n)
      <3>1. \A n \in 0 .. Bits : n = 0 \/ n \in 1 .. Bits
        BY <1>0
      <3> QED
        BY <1>1, <3>1
    <2>2. f = [n \in 0 .. Bits |-> f[n]]
      OBVIOUS
    <2> HIDE DEF Piece
    <2> QED
      BY <2>1, <2>2
  <1>3. Def(d)
    <2> HIDE DEF Def
    <2> QED
      BY <1>2
  <1>4. PICK w : w = d
    BY Zenon
  <1>5. \A n \in 0 .. Bits : w[n] = Piece(w, n)
    <2>1. Def(w)
      <3> HIDE DEF Def
      <3> QED
        BY <1>3, <1>4
    <2> HIDE DEF Piece
    <2> QED
      BY <2>1
  <1>6. Values = d[Bits]
    BY DEF Values
  <1>7. \A n \in Nat : n <= Bits => w[n] \in Nat \ {0}
    <2> DEFINE T == {n \in Nat : n <= Bits => w[n] \in Nat \ {0}}
    <2>1. 0 \in T
      <3>1. 0 \in 0 .. Bits
        BY <1>0
      <3> QED
        BY <1>5, <3>1
    <2>2. ASSUME NEW n \in Nat, n \in T PROVE n + 1 \in T
      <3> SUFFICES ASSUME n + 1 <= Bits PROVE w[n + 1] \in Nat \ {0}
        OBVIOUS
      <3>1. n + 1 \in 0 .. Bits /\ n + 1 # 0 /\ (n + 1) - 1 = n
        BY <1>0
      <3>2. w[n + 1] = 2 * w[n]
        BY <1>5, <3>1
      <3>3. w[n] \in Nat \ {0}
        BY <1>0, <2>2
      <3> QED
        BY <3>2, <3>3
    <2>3. Nat \subseteq T
      <3> HIDE DEF T
      <3> QED
        BY <2>1, <2>2, NaturalInduction
    <2> QED
      BY <2>3
  <1>8. PICK h \in Nat \ {0} : h = w[Bits - 1]
    <2>1. Bits - 1 \in Nat /\ Bits - 1 <= Bits
      BY <1>0
    <2> QED
      BY <1>7, <2>1
  <1>9. w[Bits] = 2 * h
    <2>1. Bits \in 0 .. Bits
      BY <1>0
    <2> QED
      BY <1>0, <1>5, <1>8, <2>1
  <1>10. Values = 2 * h
    <2> HIDE DEF d
    <2> QED
      BY <1>4, <1>6, <1>9
  <1>11. (2 * h) \div 2 = h
    OBVIOUS
  <1>12. Half = h
    BY <1>10, <1>11 DEF Half
  <1> QED
    BY <1>10, <1>12

(* Two numbers that a type with so many values cannot tell apart.           *)
Alike(x, y) == \E c \in Int : x = y + (c * Values)

LEMMA AlikeNext ==
    ASSUME NEW b \in Bases, NEW d \in Int, NEW x \in Int, NEW y \in Int, Alike(x, y),
           NEW u \in Int, u = (x * b) + d, NEW w \in Int, w = (y * b) + d,
           NEW z \in Int, Alike(z, u)
    PROVE  Alike(z, w)
  <1>1. PICK M \in Nat : M = Values
    BY ValuesAre
  <1>2. PICK c \in Int : x = y + (c * M)
    BY <1>1 DEF Alike
  <1>3. PICK e \in Int : z = u + (e * M)
    BY <1>1 DEF Alike
  <1>4. z = w + (((c * b) + e) * M)
    <2>1. b \in {2, 8, 10, 16}
      BY DEF Bases
    <2>2. PICK m \in Int, k \in Int : m = c * M /\ k = e * M
      OBVIOUS
    <2>3. z = ((y * b) + d) + ((m * b) + k)
      BY <1>2, <1>3, <2>1, <2>2
    <2>4. ((c * b) + e) * M = (m * b) + k
      BY <2>1, <2>2
    <2> QED
      BY <2>3, <2>4
  <1>5. (c * b) + e \in Int
    BY DEF Bases
  <1> QED
    BY <1>1, <1>4, <1>5 DEF Alike

LEMMA AlikeEqual ==
    ASSUME NEW lo \in Int, NEW x \in lo .. lo + Values - 1, NEW y \in lo .. lo + Values - 1,
           Alike(x, y)
    PROVE  x = y
  <1>1. PICK M \in Nat : M = Values
    BY ValuesAre
  <1>2. PICK c \in Int : x = y + (c * M)
    BY <1>1 DEF Alike
  <1>3. PICK p \in 0 .. M - 1, q \in 0 .. M - 1 : p = x - lo /\ q = y - lo
    BY <1>1
  <1>4. p = q + (c * M)
    BY <1>1, <1>2, <1>3
  <1>5. p = q
    BY ONLY <1>4, M \in Nat, c \in Int, p \in 0 .. M - 1, q \in 0 .. M - 1
  <1> QED
    BY <1>1, <1>3, <1>5

(* What a type makes of digits is what they stand for if the type has it,   *)
(* and only then.                                                           *)
(* A type that holds numbers from lo on: it keeps what it can of each.      *)
Holds(hold, lo) ==
    /\ hold \in [Int -> Int]
    /\ 0 \in lo .. lo + Values - 1
    /\ \A x \in Int : hold[x] \in lo .. lo + Values - 1 /\ Alike(hold[x], x)

IsHeld(s, b, hold, lo) ==
    /\ Turned(s, b, hold) \in lo .. lo + Values - 1
    /\ Value(s, b) \in lo .. lo + Values - 1 <=> Value(s, b) = Turned(s, b, hold)

LEMMA HeldValue ==
    ASSUME NEW b \in Bases, NEW lo \in Int, NEW hold, Holds(hold, lo), NEW s \in Seq(Digits(b))
    PROVE  IsHeld(s, b, hold, lo)
  <1> DEFINE R == lo .. lo + Values - 1
             T == {t \in Seq(Digits(b)) : Turned(t, b, hold) \in R /\ Alike(Turned(t, b, hold), Value(t, b))}
  <1>0. hold \in [Int -> Int] /\ 0 \in R /\ \A x \in Int : hold[x] \in R /\ Alike(hold[x], x)
    BY DEF Holds
  <1>1. <<>> \in T
    <2>1. Turned(<<>>, b, hold) = 0 /\ Value(<<>>, b) = 0
      BY <1>0, TurnedAre, ValueAre
    <2>2. Alike(0, 0)
      <3>1. 0 = 0 + (0 * Values) /\ 0 \in Int
        BY ValuesAre
      <3> QED
        BY <3>1 DEF Alike
    <2> QED
      BY <1>0, <2>1, <2>2, EmptySeq
  <1>2. ASSUME NEW t \in Seq(Digits(b)), NEW x \in Digits(b), t \in T PROVE Append(t, x) \in T
    <2>1. PICK v \in Int : v = Turned(t, b, hold) /\ Turned(Append(t, x), b, hold) = hold[v * b + x]
      BY <1>0, TurnedAre
    <2>2. PICK w \in Nat : w = Value(t, b) /\ Value(Append(t, x), b) = (w * b) + x
      BY ValueAre
    <2>3. x \in Int /\ b \in {2, 8, 10, 16}
      BY DEF Digits, Bases
    <2>4. PICK y \in Int : y = (v * b) + x
      BY <2>3
    <2>5. PICK z \in Int : z = hold[y] /\ z \in R /\ Alike(z, y)
      BY <1>0
    <2>6. Alike(v, w)
      BY <1>2, <2>1, <2>2
    <2>7. PICK u \in Int : u = (w * b) + x /\ Alike(z, u)
      <3>1. PICK u \in Int : u = (w * b) + x
        BY <2>3
      <3>2. Alike(z, u)
        <4>1. PICK e \in Int : e = x
          BY <2>3
        <4>2. y = (v * b) + e /\ u = (w * b) + e
          BY <2>4, <3>1, <4>1
        <4>3. w \in Int /\ Alike(z, y)
          BY <2>5
        <4> QED
          BY <2>6, <4>2, <4>3, AlikeNext, ZenonT(30)
      <3> QED
        BY <3>1, <3>2
    <2>8. Append(t, x) \in Seq(Digits(b))
      BY AppendProperties
    <2>9. Turned(Append(t, x), b, hold) = z
      BY <2>1, <2>4, <2>5
    <2> QED
      BY <2>2, <2>5, <2>7, <2>8, <2>9
  <1>3. Seq(Digits(b)) \subseteq T
    <2> HIDE DEF T
    <2> QED
      BY <1>1, <1>2, SequenceInduction
  <1>4. PICK v \in Int : v = Value(s, b)
    BY ValueAre
  <1>5. PICK r \in R : r = Turned(s, b, hold) /\ Alike(r, v)
    BY <1>3, <1>4
  <1>6. v \in R => r = v
    BY <1>5, AlikeEqual
  <1> QED
    BY <1>4, <1>5, <1>6 DEF IsHeld

(* Both kinds of types do, and the signed one keeps its own numbers but not *)
(* the negative of the least of them.                                       *)
LEMMA WrappedAre ==
    /\ Wrapped \in [Int -> Int] /\ WrappedRound \in [Int -> Int]
    /\ \A x \in Int : Wrapped[x] \in 0 .. 0 + Values - 1 /\ Alike(Wrapped[x], x)
    /\ \A x \in Int : WrappedRound[x] \in -Half .. -Half + Values - 1 /\ Alike(WrappedRound[x], x)
    /\ \A x \in Signed : WrappedRound[x] = x
    /\ WrappedRound[Half] = -Half
  <1>1. PICK M \in Nat, h \in Nat \ {0} : M = Values /\ h = Half /\ M = 2 * h
    BY ValuesAre
  <1>2. Wrapped = [x \in Int |-> x % M]
    BY <1>1 DEF Wrapped
  <1>3. WrappedRound = [x \in Int |-> ((x + h) % M) - h]
    BY <1>1 DEF WrappedRound
  <1>4. ASSUME NEW y \in Int
        PROVE  \E c \in Int : y % M \in 0 .. M - 1 /\ y % M = y + (c * M)
    <2>1. PICK q \in Int, r \in 0 .. M - 1 : q = y \div M /\ r = y % M /\ y = (q * M) + r
      BY <1>1
    <2>2. PICK c \in Int : c = -q
      OBVIOUS
    <2>3. r = y + (c * M)
      BY <2>1, <2>2
    <2> QED
      BY <2>1, <2>2, <2>3
  <1>5. ASSUME NEW x \in Int
        PROVE  Wrapped[x] \in 0 .. 0 + Values - 1 /\ Alike(Wrapped[x], x)
    <2>1. PICK c \in Int, r \in 0 .. M - 1 : r = x % M /\ r = x + (c * M)
      BY <1>4
    <2>2. Wrapped[x] = r
      BY <1>2, <2>1
    <2> QED
      BY <1>1, <2>1, <2>2 DEF Alike
  <1>6. ASSUME NEW x \in Int
        PROVE  WrappedRound[x] \in -Half .. -Half + Values - 1 /\ Alike(WrappedRound[x], x)
    <2>1. PICK y \in Int : y = x + h
      OBVIOUS
    <2>2. PICK c \in Int, r \in 0 .. M - 1 : r = y % M /\ r = y + (c * M)
      BY <1>4
    <2>3. WrappedRound[x] = r - h
      BY <1>3, <2>1, <2>2
    <2>4. PICK z \in Int : z = r - h
      OBVIOUS
    <2>5. z = x + (c * M)
      BY <2>1, <2>2, <2>4
    <2>6. z \in -h .. -h + M - 1
      BY <2>4
    <2> QED
      BY <1>1, <2>3, <2>4, <2>5, <2>6 DEF Alike
  <1>7. ASSUME NEW x \in Signed PROVE WrappedRound[x] = x
    <2>1. x \in -h .. h - 1
      BY <1>1 DEF Signed
    <2>2. PICK y \in 0 .. M - 1 : y = x + h
      BY <1>1, <2>1
    <2>3. y % M = y
      BY <1>1
    <2> QED
      BY <1>3, <2>1, <2>2, <2>3
  <1>8. WrappedRound[Half] = -Half
    <2>1. (h + h) % M = 0
      <3>1. h + h = M
        BY <1>1
      <3>2. M % M = 0
        BY <1>1
      <3> QED
        BY <3>1, <3>2
    <2> QED
      BY <1>1, <1>3, <2>1
  <1>9. Wrapped \in [Int -> Int] /\ WrappedRound \in [Int -> Int]
    <2>1. ASSUME NEW x \in Int PROVE x % M \in Int /\ ((x + h) % M) - h \in Int
      BY <1>1
    <2> QED
      BY <1>2, <1>3, <2>1
  <1> QED
    BY <1>5, <1>6, <1>7, <1>8, <1>9

(* The digits a number should have, and those that are printed when the     *)
(* number turned round is r.                                                *)
RightDigits(n, b) == IF n = 0 THEN <<0>> ELSE Reverse(DigitsOf(n, b))
DigitsAndZeros(r, n, b) == DigitsOf(r, b) \o ZerosBehind(ZerosAtEnd(n, b))

LEMMA RightDigitsAre ==
    ASSUME NEW b \in Bases, NEW n \in Nat
    PROVE  RightDigits(n, b) \in Seq(Digits(b)) /\ Len(RightDigits(n, b)) # 0
  <1>1. CASE n = 0
    <2>1. 0 \in Digits(b)
      BY DEF Digits, Bases
    <2>2. <<0>> \in Seq(Digits(b)) /\ Len(<<0>>) = 1
      BY <2>1
    <2> QED
      BY <1>1, <2>2 DEF RightDigits
  <1>2. CASE n # 0
    <2>1. PICK d \in Seq(Digits(b)) : d = DigitsOf(n, b)
      BY DigitsAre
    <2>2. RightDigits(n, b) = Reverse(d)
      BY <1>2, <2>1 DEF RightDigits
    <2>3. Reverse(d) \in Seq(Digits(b)) /\ Len(Reverse(d)) = Len(d)
      BY ReverseAre
    <2>4. Len(d) # 0
      <3>1. PICK i \in 1 .. Len(d) : d[i] # 0
        BY <1>2, <2>1, SomeDigit
      <3> QED
        BY <3>1, LenProperties
    <2> QED
      BY <2>2, <2>3, <2>4
  <1> QED
    BY <1>1, <1>2

LEMMA BodyIsRight ==
    ASSUME NEW b \in Bases, NEW n \in Nat, NEW r \in Nat, n = 0 => r = 0
    PROVE  /\ DigitsAndZeros(r, n, b) \in Seq(Digits(b))
           /\ DigitsAndZeros(r, n, b) = RightDigits(n, b) <=> r = Value(DigitsOf(n, b), b)
  <1>1. CASE n = 0
    <2>1. DigitsOf(n, b) = <<>> /\ DigitsOf(r, b) = <<>>
      BY <1>1, DigitsAre
    <2>2. ZerosAtEnd(n, b) = 1
      BY <1>1 DEF ZerosAtEnd
    <2>3. ZerosBehind(1) = <<0>>
      BY DEF ZerosBehind
    <2>4. RightDigits(n, b) = <<0>>
      BY <1>1 DEF RightDigits
    <2>5. 0 \in Digits(b)
      BY DEF Digits, Bases
    <2>6. PICK z \in Seq(Digits(b)) : z = <<0>> /\ Len(z) = 1
      <3>1. <<0>> \in Seq(Digits(b)) /\ Len(<<0>>) = 1
        BY <2>5
      <3> QED
        BY ONLY <3>1
    <2>7. <<>> \o z = z
      BY ConcatEmptySeq
    <2>8. DigitsAndZeros(r, n, b) = z
      BY <2>1, <2>2, <2>3, <2>6, <2>7 DEF DigitsAndZeros
    <2>9. r = Value(DigitsOf(n, b), b)
      BY <1>1, <2>1, ValueAre
    <2> QED
      BY <2>4, <2>6, <2>8, <2>9
  <1>2. CASE n # 0
    <2>5. PICK p \in Seq(Digits(b)), z \in Seq(Digits(b)) :
             p = DigitsOf(r, b) /\ z = ZerosBehind(ZerosAtEnd(n, b))
      BY <1>2, DigitsAre, ZerosAre, ZerosAtEndLead
    <2>6. p \o z \in Seq(Digits(b))
      BY ConcatProperties
    <2>7. DigitsAndZeros(r, n, b) = p \o z
      BY <2>5 DEF DigitsAndZeros
    <2>8. DigitsAndZeros(r, n, b) = RightDigits(n, b) <=> r = Value(DigitsOf(n, b), b)
      BY <1>2, OnlyItsValue DEF DigitsAndZeros, RightDigits
    <2> QED
      BY <2>6, <2>7, <2>8
  <1> QED
    BY <1>1, <1>2

(* A number of an unsigned type is printed right if its digits turned round *)
(* are one, too, and only then.                                             *)
LEMMA UnsignedPrinted ==
    ASSUME NEW b \in Bases, NEW n \in Unsigned
    PROVE  /\ n \in Nat
           /\ Printed(n, b) = RightDigits(n, b) <=> Value(DigitsOf(n, b), b) \in Unsigned
           /\ RightDigits(n, b) \in Seq(Digits(b)) /\ Printed(n, b) \in Seq(Digits(b))
  <1>1. PICK M \in Nat \ {0} : M = Values
    BY ValuesAre
  <1>2. Unsigned = 0 .. 0 + Values - 1
    BY <1>1 DEF Unsigned
  <1>3. n \in Nat
    BY <1>2
  <1>4. PICK d \in Seq(Digits(b)) : d = DigitsOf(n, b)
    BY <1>3, DigitsAre
  <1>5. 0 \in 0 .. 0 + Values - 1
    BY <1>1
  <1>6. /\ Turned(d, b, Wrapped) \in 0 .. 0 + Values - 1
        /\ Value(d, b) \in 0 .. 0 + Values - 1 <=> Value(d, b) = Turned(d, b, Wrapped)
    <2>1. Holds(Wrapped, 0)
      BY <1>5, WrappedAre DEF Holds
    <2>2. IsHeld(d, b, Wrapped, 0)
      BY <2>1, HeldValue
    <2> QED
      BY <2>2 DEF IsHeld
  <1>7. PICK r \in Nat : r = Reversed(n, b) /\ (Value(d, b) \in Unsigned <=> Value(d, b) = r)
    <2>1. Reversed(n, b) = Turned(d, b, Wrapped)
      BY <1>4 DEF Reversed
    <2> QED
      BY <1>1, <1>2, <1>6, <2>1
  <1>8. n = 0 => r = 0
    <2>1. n = 0 => d = <<>>
      BY <1>4, DigitsAre
    <2>2. Turned(<<>>, b, Wrapped) = 0
      BY WrappedAre, TurnedAre
    <2> QED
      BY <1>4, <1>7, <2>1, <2>2 DEF Reversed
  <1>9. Printed(n, b) = DigitsAndZeros(r, n, b)
    BY <1>7 DEF Printed, DigitsAndZeros, ZerosBehind
  <1> QED
    BY <1>3, <1>4, <1>7, <1>8, <1>9, BodyIsRight, RightDigitsAre

(* So is one of a signed type if its digits turned round are no greater     *)
(* than the greatest of its numbers; the least of them has no positive one. *)
LEMMA SignedPrinted ==
    ASSUME NEW b \in Bases, NEW number \in Signed,
           NEW amount, amount = (IF number < 0 THEN -number ELSE number),
           NEW sign, sign = (IF number < 0 THEN <<Minus>> ELSE <<>>)
    PROVE  /\ amount \in Nat
           /\ PrintedSigned(number, b) = sign \o RightDigits(amount, b)
                 <=> amount \in Positive /\ Value(DigitsOf(amount, b), b) \in Positive
  <1>1. PICK h \in Nat \ {0} : h = Half /\ Values = 2 * h
    BY ValuesAre
  <1>2. Positive = 0 .. h - 1 /\ Signed = -h .. h - 1 /\ -Half .. -Half + Values - 1 = -h .. h - 1
    BY <1>1 DEF Positive, Signed
  <1>3. amount \in 0 .. h
    BY <1>2
  <1>4. PICK g \in Seq(Int) : g = sign
    <2>1. <<Minus>> \in Seq(Int)
      BY DEF Minus
    <2>2. <<>> \in Seq(Int)
      OBVIOUS
    <2>3. sign \in Seq(Int)
      BY <2>1, <2>2
    <2> QED
      BY ONLY <2>3
  <1>5. Garbled \in Seq(Int) /\ Len(Garbled) = 1 /\ Garbled[1] = -2
    BY DEF Garbled
  <1>6. ASSUME NEW s \in Seq(Digits(b)) PROVE s \in Seq(Int) /\ (Len(s) # 0 => s # Garbled)
    <2>1. Digits(b) \subseteq Int /\ -2 \notin Digits(b)
      BY DEF Digits, Bases
    <2>2. s \in Seq(Int)
      BY <2>1, SeqMonotonic
    <2>3. ASSUME Len(s) # 0 PROVE s[1] \in Digits(b)
      <3>1. 1 \in 1 .. Len(s)
        BY <2>3, LenProperties
      <3> QED
        BY <3>1, ElementOfSeq
    <2> QED
      BY <1>5, <2>1, <2>2, <2>3
  <1>7. ASSUME NEW u \in Seq(Int), NEW w \in Seq(Int)
        PROVE  g \o u = g \o w <=> u = w
    BY <1>4, ConcatSimplifications
  <1>8. PICK k : k = WrappedRound[amount]
    OBVIOUS
  <1>9. PrintedSigned(number, b) =
           IF k < 0 \/ ReversedSigned(k, b) < 0 THEN g \o Garbled
           ELSE g \o DigitsOf(ReversedSigned(k, b), b) \o ZerosBehind(ZerosAtEnd(k, b))
    BY <1>4, <1>8 DEF PrintedSigned, ZerosBehind
  <1>10. RightDigits(amount, b) \in Seq(Digits(b)) /\ Len(RightDigits(amount, b)) # 0
    <2>1. amount \in Nat
      BY <1>3
    <2> QED
      BY <2>1, RightDigitsAre
  <1>11. RightDigits(amount, b) \in Seq(Int) /\ g \o Garbled # g \o RightDigits(amount, b)
    BY <1>5, <1>6, <1>7, <1>10
  <1>12. CASE amount = h
    <2>1. k < 0
      <3>1. k = -h
        BY <1>1, <1>8, <1>12, WrappedAre
      <3> QED
        BY <3>1
    <2>2. amount \notin Positive
      BY <1>2, <1>12
    <2> QED
      BY <1>3, <1>4, <1>9, <1>11, <2>1, <2>2, SMTT(60)
  <1>13. CASE amount # h
    <2>1. amount \in Positive /\ amount \in Signed /\ amount \in Nat
      BY <1>2, <1>3, <1>13
    <2>2. k = amount
      BY <1>8, <2>1, WrappedAre
    <2>3. PICK d \in Seq(Digits(b)) : d = DigitsOf(amount, b)
      BY <2>1, DigitsAre
    <2>4. -Half \in Int /\ 0 \in -Half .. -Half + Values - 1
      BY <1>1
    <2>5. IsHeld(d, b, WrappedRound, -Half)
      <3>1. Holds(WrappedRound, -Half)
        BY <2>4, WrappedAre DEF Holds
      <3> QED
        BY <2>4, <3>1, HeldValue
    <2>6. PICK v \in Nat : v = Value(d, b)
      BY ValueAre
    <2>7. PICK r \in -h .. h - 1 : r = ReversedSigned(amount, b) /\ (v \in Positive <=> v = r)
      <3>1. PICK r : r = ReversedSigned(amount, b)
        OBVIOUS
      <3>2. r = Turned(d, b, WrappedRound)
        BY <2>3, <3>1 DEF ReversedSigned
      <3>3. r \in -h .. h - 1 /\ (v \in -h .. h - 1 <=> v = r)
        <4>1. r \in -Half .. -Half + Values - 1 /\ (v \in -Half .. -Half + Values - 1 <=> v = r)
          BY <2>5, <2>6, <3>2 DEF IsHeld
        <4> QED
          BY ONLY <1>2, <4>1
      <3>4. v \in Positive <=> v = r
        BY <1>2, <2>6, <3>3
      <3> QED
        BY <3>1, <3>3, <3>4
    <2>8. ~ (k < 0)
      BY <2>1, <2>2
    <2>9. CASE r < 0
      <3>1. v \notin Positive
        BY <2>6, <2>7, <2>9
      <3> QED
        BY <1>4, <1>9, <1>11, <2>1, <2>2, <2>3, <2>6, <2>7, <2>9, <3>1
    <2>10. CASE ~ (r < 0)
      <3>1. r \in Nat
        BY <2>7, <2>10
      <3>2. amount = 0 => r = 0
        <4>1. amount = 0 => d = <<>>
          BY <2>1, <2>3, DigitsAre
        <4>2. Turned(<<>>, b, WrappedRound) = 0
          BY WrappedAre, TurnedAre
        <4> QED
          BY <2>3, <2>7, <4>1, <4>2 DEF ReversedSigned
      <3>3. PrintedSigned(number, b) = (g \o DigitsOf(r, b)) \o ZerosBehind(ZerosAtEnd(amount, b))
        BY <1>9, <2>2, <2>7, <2>8, <2>10
      <3>4. PICK p \in Seq(Int), z \in Seq(Int) :
               p = DigitsOf(r, b) /\ z = ZerosBehind(ZerosAtEnd(amount, b))
        <4>1. DigitsOf(r, b) \in Seq(Int)
          BY <1>6, <3>1, DigitsAre
        <4>2. ZerosAtEnd(amount, b) \in Nat
          <5>1. CASE amount = 0
            BY <5>1 DEF ZerosAtEnd
          <5>2. CASE amount # 0
            BY <2>1, <5>2, ZerosAtEndLead
          <5> QED
            BY <5>1, <5>2
        <4>3. ZerosBehind(ZerosAtEnd(amount, b)) \in Seq(Int)
          BY <1>6, <4>2, ZerosAre
        <4> QED
          BY ONLY <4>1, <4>3
      <3>5. (g \o p) \o z = g \o (p \o z)
        BY ONLY g \in Seq(Int), p \in Seq(Int), z \in Seq(Int), ConcatAssociative, SMTT(60)
      <3>6. DigitsAndZeros(r, amount, b) = p \o z
        BY <3>4 DEF DigitsAndZeros
      <3>7. PrintedSigned(number, b) = g \o DigitsAndZeros(r, amount, b)
        BY ONLY <3>3, <3>4, <3>5, <3>6
      <3>8. DigitsAndZeros(r, amount, b) \in Seq(Digits(b))
        BY <2>1, <3>1, <3>2, BodyIsRight
      <3>9. DigitsAndZeros(r, amount, b) \in Seq(Int)
        BY <1>6, <3>8
      <3>10. DigitsAndZeros(r, amount, b) = RightDigits(amount, b) <=> r = v
        BY <2>1, <2>3, <2>6, <3>1, <3>2, BodyIsRight
      <3>11. PrintedSigned(number, b) = g \o RightDigits(amount, b) <=> r = v
        <4>1. PICK y \in Seq(Int), w \in Seq(Int) :
                 y = DigitsAndZeros(r, amount, b) /\ w = RightDigits(amount, b)
          BY <1>11, <3>9
        <4>2. g \o y = g \o w <=> y = w
          BY <1>7
        <4> QED
          BY ONLY <3>7, <3>10, <4>1, <4>2
      <3> QED
        BY <1>4, <2>1, <2>3, <2>6, <2>7, <3>11
    <2> QED
      BY <2>9, <2>10
  <1> QED
    BY <1>3, <1>12, <1>13

(* The writer has one of its bases, and what it printed last is right when  *)
(* it can be.                                                               *)
WriterInv == base \in Flags /\ PrintsNumbers

LEMMA BasesOfFlags == \A flag \in Flags : GetBase(flag) \in Bases
  BY DEF Flags, GetBase, Bases

LEMMA WriterStart == NumbersInit => WriterInv
  <1> SUFFICES ASSUME NumbersInit PROVE WriterInv
    OBVIOUS
  <1>1. base = "dec" /\ shown = [number |-> 0, base |-> 10, text |-> <<0>>, values |-> Unsigned]
    BY DEF NumbersInit
  <1>2. shown.number = 0 /\ shown.base = 10 /\ shown.text = <<0>> /\ shown.values = Unsigned
    BY <1>1
  <1>3. 10 \in Bases
    BY DEF Bases
  <1>4. DigitsOf(0, 10) = <<>>
    BY <1>3, DigitsAre
  <1>5. Value(<<>>, 10) = 0
    BY <1>3, ValueAre
  <1>6. 0 \in Unsigned
    BY ValuesAre DEF Unsigned
  <1>7. <<>> \o <<0>> = <<0>>
    BY ConcatEmptySeq
  <1>8. PrintsNumbers
    BY <1>2, <1>4, <1>5, <1>6, <1>7 DEF PrintsNumbers
  <1> QED
    BY <1>1, <1>8 DEF WriterInv, Flags

LEMMA WriterStep == WriterInv /\ [NumbersNext]_numberVars => WriterInv'
  <1> SUFFICES ASSUME WriterInv, [NumbersNext]_numberVars PROVE WriterInv'
    OBVIOUS
  <1>0. base \in Flags /\ PrintsNumbers
    BY DEF WriterInv
  <1>b. PICK b \in Bases : b = GetBase(base)
    BY <1>0, BasesOfFlags
  <1>1. ASSUME NEW flag \in Flags, SetBase(flag) PROVE WriterInv'
    <2>1. base' \in Flags /\ shown' = shown
      BY <1>1 DEF SetBase, SetFlag
    <2> QED
      BY <1>0, <2>1 DEF WriterInv, PrintsNumbers
  <1>2. ASSUME NEW n \in Unsigned, WriteNumber(n) PROVE WriterInv'
    <2>1. PICK text : text = Printed(n, b)
      OBVIOUS
    <2>2. shown' = [number |-> n, base |-> b, text |-> text, values |-> Unsigned] /\ base' = base
      BY <1>2, <1>b, <2>1 DEF WriteNumber
    <2>3. shown'.number = n /\ shown'.base = b /\ shown'.text = text /\ shown'.values = Unsigned
      BY <2>2
    <2>4. n \in Nat /\ ~ (n < 0)
      <3>1. n \in Nat
        BY UnsignedPrinted
      <3> QED
        BY <3>1
    <2>5. PICK y : y = RightDigits(n, b)
      OBVIOUS
    <2>6. text = y <=> Value(DigitsOf(n, b), b) \in Unsigned
      BY <2>1, <2>5, UnsignedPrinted
    <2>7. <<>> \o y = y
      BY <2>4, <2>5, RightDigitsAre, ConcatEmptySeq
    <2>8. y = IF n = 0 THEN <<0>> ELSE Reverse(DigitsOf(n, b))
      BY <2>5 DEF RightDigits
    <2>9. PrintsNumbers'
      BY <2>3, <2>4, <2>6, <2>7, <2>8 DEF PrintsNumbers
    <2> QED
      BY <1>0, <2>2, <2>9 DEF WriterInv
  <1>3. ASSUME NEW n \in Signed, WriteSigned(n) PROVE WriterInv'
    <2>1. PICK text : text = PrintedSigned(n, b)
      OBVIOUS
    <2>2. shown' = [number |-> n, base |-> b, text |-> text, values |-> Positive] /\ base' = base
      BY <1>3, <1>b, <2>1 DEF WriteSigned
    <2>3. shown'.number = n /\ shown'.base = b /\ shown'.text = text /\ shown'.values = Positive
      BY <2>2
    <2>4. PICK amount : amount = IF n < 0 THEN -n ELSE n
      OBVIOUS
    <2>5. PICK sign : sign = IF n < 0 THEN <<Minus>> ELSE <<>>
      OBVIOUS
    <2>6. text = sign \o RightDigits(amount, b)
             <=> amount \in Positive /\ Value(DigitsOf(amount, b), b) \in Positive
      BY <2>1, <2>4, <2>5, SignedPrinted
    <2>7. RightDigits(amount, b) = IF amount = 0 THEN <<0>> ELSE Reverse(DigitsOf(amount, b))
      BY DEF RightDigits
    <2>8. PrintsNumbers'
      BY <2>3, <2>4, <2>5, <2>6, <2>7 DEF PrintsNumbers
    <2> QED
      BY <1>0, <2>2, <2>8 DEF WriterInv
  <1>4. CASE UNCHANGED numberVars
    <2>1. base' = base /\ shown' = shown
      BY <1>4 DEF numberVars
    <2> QED
      BY <1>0, <2>1 DEF WriterInv, PrintsNumbers
  <1> QED
    BY <1>1, <1>2, <1>3, <1>4 DEF NumbersNext

(* A number is printed right if, and only if, its digits turned round are a *)
(* number of its type: for a type of any width, every number of it and each *)
(* of the four bases (usart_printer.hpp).                                   *)
THEOREM NumbersArePrinted == Spec => []PrintsNumbers
<1>1. Init => WriterInv
  BY WriterStart DEF Init
<1>2. WriterInv /\ [Next]_vars => WriterInv'
  <2> SUFFICES ASSUME WriterInv, [Next]_vars PROVE WriterInv'
    OBVIOUS
  <2>1. [NumbersNext]_numberVars
    BY DEF Next, vars
  <2> QED
    BY <2>1, WriterStep
<1>3. WriterInv => PrintsNumbers
  BY DEF WriterInv
<1> QED
  BY <1>1, <1>2, <1>3, PTL DEF Spec

-----------------------------------------------------------------------------
(* The composition of all parts does what the drivers do, or leaves them    *)
(* alone: what is proved of them holds for it, too (main.cpp).              *)
THEOREM PartsImplementDrivers == PartsSpec => Spec
<1>1. PartsInit => Init
  BY DEF PartsInit
<1>2. [PartsNext]_partsVars => [Next]_vars
  BY DEF PartsNext, partsVars, vars
<1> QED
  BY <1>1, <1>2, PTL DEF PartsSpec, Spec
=============================================================================
