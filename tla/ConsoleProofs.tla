---------------------------- MODULE ConsoleProofs ----------------------------
(***************************************************************************)
(* What Console promises, for every number of readers, keys and buffers:   *)
(* the line that a program gets is the line that was typed, and it is the  *)
(* line the user saw.                                                      *)
(***************************************************************************)
EXTENDS Console, InductionLemmas

(* What editing makes of a text, key after key.                             *)
Edits(f, text, ks) ==
    /\ f \in [0 .. Len(ks) -> Seq(Keys)] /\ f[0] = text
    /\ \A j \in 1 .. Len(ks) : f[j] = EditKey(f[j - 1], ks[j])

LEMMA FrontIs ==
    ASSUME NEW A, NEW s \in Seq(A), s # <<>>
    PROVE  /\ Front(s) \in Seq(A) /\ Len(Front(s)) = Len(s) - 1
           /\ \A j \in 1 .. Len(s) - 1 : Front(s)[j] = s[j]
  <1>1. PICK m \in Nat : Len(s) = m + 1
    <2>1. Len(s) \in Nat /\ Len(s) # 0
      OBVIOUS
    <2>2. Len(s) - 1 \in Nat /\ Len(s) = (Len(s) - 1) + 1
      BY <2>1
    <2> QED
      BY <2>2
  <1>2. Front(s) = [j \in 1 .. m |-> s[j]]
    BY <1>1 DEF Front
  <1>3. \A j \in 1 .. m : s[j] \in A
    BY <1>1
  <1> QED
    BY SMTT(60), <1>1, <1>2, <1>3

LEMMA FrontOfMore ==
    ASSUME NEW A, NEW s \in Seq(A), NEW a \in A
    PROVE  /\ Front(Append(s, a)) = s /\ Last(Append(s, a)) = a
           /\ Append(s, a) # <<>> /\ Append(s, a) \in Seq(A)
  BY DEF Front, Last

LEMMA EditKeyType ==
    ASSUME NEW text \in Seq(Keys), NEW k \in Keys
    PROVE  EditKey(text, k) \in Seq(Keys)
  <1>1. text # <<>> => Front(text) \in Seq(Keys)
    BY FrontIs
  <1> QED
    BY <1>1 DEF EditKey

LEMMA EditsExist ==
    ASSUME NEW text \in Seq(Keys), NEW ks \in Seq(Keys)
    PROVE  \E f : Edits(f, text, ks)
  <1>1. PICK m \in Nat : m = Len(ks)
    OBVIOUS
  <1>2. CASE m = 0
    <2> DEFINE f == [j \in 0 .. 0 |-> text]
    <2>1. f \in [0 .. Len(ks) -> Seq(Keys)] /\ f[0] = text
      BY <1>1, <1>2
    <2>2. \A j \in 1 .. Len(ks) : FALSE
      BY <1>1, <1>2
    <2> HIDE DEF f
    <2>3. Edits(f, text, ks)
      BY <2>1, <2>2 DEF Edits
    <2> QED
      BY <2>3
  <1>3. CASE m # 0
    <2> DEFINE A == Seq(Keys)
               step == [p \in Nat \X A |-> IF p[1] \in 1 .. m THEN EditKey(p[2], ks[p[1]])
                                           ELSE text]
    <2>1. step \in [Nat \X A -> A]
      <3>1. ASSUME NEW j \in Nat, NEW t \in A, j \in 1 .. m PROVE EditKey(t, ks[j]) \in A
        BY <1>1, <3>1, EditKeyType
      <3> HIDE DEF A
      <3>2. text \in A
        BY DEF A
      <3> QED
        BY <3>1, <3>2
    <2>2. PICK f \in [0 .. m -> A] : Iterated(f, m, text, step)
      <3>1. text \in A
        OBVIOUS
      <3> HIDE DEF A, step
      <3> QED
        BY <2>1, <3>1, Iterates
    <2>3. f[0] = text
      BY <2>2 DEF Iterated
    <2>4. ASSUME NEW j \in 1 .. m PROVE f[j] = EditKey(f[j - 1], ks[j])
      <3>1. f[j] = step[<<j, f[j - 1]>>]
        <4> HIDE DEF step
        <4> QED
          BY <2>2 DEF Iterated
      <3>2. j - 1 \in 0 .. m
        OBVIOUS
      <3>3. f[j - 1] \in A
        <4> HIDE DEF A
        <4> QED
          BY <3>2
      <3>4. <<j, f[j - 1]>> \in Nat \X A
        <4> HIDE DEF A
        <4> QED
          BY <3>3
      <3> HIDE DEF A
      <3> QED
        BY <3>1, <3>4
    <2> QED
      BY <1>1, <2>3, <2>4 DEF Edits
  <1> QED
    BY <1>2, <1>3

LEMMA EditIs ==
    ASSUME NEW text, NEW ks, Len(ks) \in Nat, NEW f, Edits(f, text, ks)
    PROVE  EditFrom(text, ks) = f[Len(ks)]
  <1> DEFINE m == Len(ks)
             Def(e) == e = [j \in 0 .. m |-> IF j = 0 THEN text ELSE EditKey(e[j - 1], ks[j])]
             it == CHOOSE e : Def(e)
  <1>1. EditFrom(text, ks) = it[m]
    BY DEF EditFrom
  <1>2. Def(f)
    <2>1. f = [j \in 0 .. m |-> f[j]]
      BY DEF Edits
    <2>2. \A j \in 0 .. m : j # 0 => j \in 1 .. m
      OBVIOUS
    <2>3. \A j \in 0 .. m : f[j] = IF j = 0 THEN text ELSE EditKey(f[j - 1], ks[j])
      BY <2>2 DEF Edits
    <2> HIDE DEF m
    <2> QED
      BY <2>1, <2>3
  <1>3. Def(it)
    <2> HIDE DEF Def
    <2> QED
      BY <1>2
  <1> HIDE DEF it
  <1> DEFINE N == {j \in Nat : j <= m => it[j] = f[j]}
  <1>4. 0 \in N
    BY <1>3 DEF Edits
  <1>5. ASSUME NEW j \in Nat, j \in N PROVE j + 1 \in N
    <2> SUFFICES ASSUME j + 1 <= m PROVE it[j + 1] = f[j + 1]
      OBVIOUS
    <2>1. j + 1 \in 0 .. m /\ j + 1 \in 1 .. m /\ j + 1 # 0 /\ (j + 1) - 1 = j
      OBVIOUS
    <2>2. it[j + 1] = EditKey(it[j], ks[j + 1])
      BY <1>3, <2>1
    <2>3. f[j + 1] = EditKey(f[j], ks[j + 1])
      BY <2>1 DEF Edits
    <2>4. it[j] = f[j]
      BY <1>5
    <2> QED
      BY <2>2, <2>3, <2>4
  <1>6. m \in N
    <2> HIDE DEF N
    <2> QED
      BY <1>4, <1>5, NaturalInduction
  <1> QED
    BY <1>1, <1>6

(* Editing with no key, with one more at the end, with one at the start.    *)
LEMMA EditNone ==
    ASSUME NEW text \in Seq(Keys)
    PROVE  EditFrom(text, <<>>) = text
  <1>1. <<>> \in Seq(Keys) /\ Len(<<>>) = 0
    OBVIOUS
  <1>2. PICK f : Edits(f, text, <<>>)
    BY <1>1, EditsExist
  <1>3. EditFrom(text, <<>>) = f[0]
    BY <1>1, <1>2, EditIs
  <1> QED
    BY <1>2, <1>3 DEF Edits

LEMMA EditType ==
    ASSUME NEW text \in Seq(Keys), NEW ks \in Seq(Keys)
    PROVE  EditFrom(text, ks) \in Seq(Keys)
  <1>1. PICK f : Edits(f, text, ks)
    BY EditsExist
  <1>2. Len(ks) \in Nat /\ Len(ks) \in 0 .. Len(ks)
    OBVIOUS
  <1>3. EditFrom(text, ks) = f[Len(ks)]
    BY <1>1, <1>2, EditIs
  <1>4. f[Len(ks)] \in Seq(Keys)
    BY <1>1, <1>2 DEF Edits
  <1> QED
    BY <1>3, <1>4

LEMMA EditMore ==
    ASSUME NEW text \in Seq(Keys), NEW ks \in Seq(Keys), NEW k \in Keys
    PROVE  EditFrom(text, Append(ks, k)) = EditKey(EditFrom(text, ks), k)
  <1>1. PICK more \in Seq(Keys) : more = Append(ks, k)
    <2>1. Append(ks, k) \in Seq(Keys)
      BY AppendProperties
    <2> QED
      BY <2>1
  <1>2. PICK m \in Nat : m = Len(ks)
    OBVIOUS
  <1>3. Len(more) = m + 1 /\ more[m + 1] = k /\ \A j \in 1 .. m : more[j] = ks[j]
    BY <1>1, <1>2
  <1>4. PICK f : Edits(f, text, more)
    BY EditsExist
  <1>5. EditFrom(text, more) = f[m + 1]
    BY <1>3, <1>4, EditIs
  <1>6. f \in [0 .. m + 1 -> Seq(Keys)] /\ f[0] = text
        /\ \A j \in 1 .. m + 1 : f[j] = EditKey(f[j - 1], more[j])
    BY <1>3, <1>4 DEF Edits
  <1> DEFINE g == [j \in 0 .. m |-> f[j]]
  <1>7. Edits(g, text, ks)
    <2>1. g \in [0 .. m -> Seq(Keys)] /\ g[0] = text
      <3>1. \A j \in 0 .. m : j \in 0 .. m + 1
        OBVIOUS
      <3> QED
        BY <1>6, <3>1
    <2>2. ASSUME NEW j \in 1 .. m PROVE g[j] = EditKey(g[j - 1], ks[j])
      <3>1. j \in 0 .. m /\ j - 1 \in 0 .. m /\ j \in 1 .. m + 1
        OBVIOUS
      <3>2. f[j] = EditKey(f[j - 1], ks[j])
        BY <1>3, <1>6, <3>1
      <3> QED
        BY <3>1, <3>2
    <2> HIDE DEF g
    <2> QED
      BY <1>2, <2>1, <2>2 DEF Edits
  <1>8. EditFrom(text, ks) = f[m]
    <2>1. EditFrom(text, ks) = g[m]
      <3> HIDE DEF g
      <3> QED
        BY <1>2, <1>7, EditIs
    <2> QED
      BY <2>1
  <1>9. f[m + 1] = EditKey(f[m], k)
    <2>1. m + 1 \in 1 .. m + 1 /\ (m + 1) - 1 = m
      OBVIOUS
    <2> QED
      BY SMTT(60), <1>3, <1>6, <2>1
  <1> QED
    BY <1>1, <1>5, <1>8, <1>9

LEMMA EditFirst ==
    ASSUME NEW text \in Seq(Keys), NEW ks \in Seq(Keys), ks # <<>>
    PROVE  EditFrom(text, ks) = EditFrom(EditKey(text, Head(ks)), Tail(ks))
  <1>1. PICK m \in Nat : Len(ks) = m + 1
    <2>1. Len(ks) - 1 \in Nat /\ Len(ks) = (Len(ks) - 1) + 1
      OBVIOUS
    <2> QED
      BY <2>1
  <1>2. PICK t \in Seq(Keys) : t = Tail(ks)
    <2>1. Tail(ks) \in Seq(Keys)
      BY HeadTailProperties
    <2> QED
      BY <2>1
  <1>3. Len(t) = m /\ Head(ks) = ks[1] /\ \A j \in 1 .. m : t[j] = ks[j + 1]
    BY <1>1, <1>2
  <1>4. PICK f : Edits(f, text, ks)
    BY EditsExist
  <1>5. EditFrom(text, ks) = f[m + 1]
    BY <1>1, <1>4, EditIs
  <1>6. f \in [0 .. m + 1 -> Seq(Keys)] /\ f[0] = text
        /\ \A j \in 1 .. m + 1 : f[j] = EditKey(f[j - 1], ks[j])
    BY <1>1, <1>4 DEF Edits
  <1>7. f[1] = EditKey(text, Head(ks))
    <2>1. 1 \in 1 .. m + 1 /\ 1 - 1 = 0
      OBVIOUS
    <2> QED
      BY <1>3, <1>6, <2>1
  <1> DEFINE g == [j \in 0 .. m |-> f[j + 1]]
  <1>8. Edits(g, f[1], t)
    <2>1. g \in [0 .. m -> Seq(Keys)] /\ g[0] = f[1]
      <3>1. 0 \in 0 .. m /\ 0 + 1 = 1 /\ \A j \in 0 .. m : j + 1 \in 0 .. m + 1
        OBVIOUS
      <3> QED
        BY <1>6, <3>1
    <2>2. ASSUME NEW j \in 1 .. m PROVE g[j] = EditKey(g[j - 1], t[j])
      <3>1. j \in 0 .. m /\ j - 1 \in 0 .. m /\ j + 1 \in 1 .. m + 1 /\ (j + 1) - 1 = j
            /\ (j - 1) + 1 = j
        OBVIOUS
      <3>2. f[j + 1] = EditKey(f[j], ks[j + 1])
        BY <1>6, <3>1
      <3>3. g[j] = f[j + 1] /\ g[j - 1] = f[j]
        BY <3>1
      <3> QED
        BY <1>3, <3>2, <3>3
    <2> HIDE DEF g
    <2> QED
      BY <1>3, <2>1, <2>2 DEF Edits
  <1>9. EditFrom(f[1], t) = f[m + 1]
    <2>1. EditFrom(f[1], t) = g[m]
      <3> HIDE DEF g
      <3> QED
        BY <1>3, <1>8, EditIs
    <2> QED
      BY <2>1
  <1> QED
    BY SMTT(60), <1>2, <1>5, <1>7, <1>9

-----------------------------------------------------------------------------
(* A reader in the middle of a line: its call, index, room, size, buffer,   *)
(* the keys it has read, and the number of keys in the ring and of keys     *)
(* typed.                                                                   *)

TextOf(re, b) == [j \in 1 .. re + 1 |-> b[j - 1]]

ReaderOk(c, re, room, s, b, ks, waiting, typed) ==
    IF c = "none" THEN re = -1 /\ ks = <<>>
    ELSE /\ c \in {"fgets", "scanf"}
         /\ re \in Int /\ re >= -1 /\ room \in Int /\ s \in Nat /\ ks \in Seq(Keys)
         /\ re + 1 < s /\ re + 1 <= Len(ks) /\ Len(ks) + waiting <= typed
         /\ DOMAIN b = 0 .. s - 1 /\ TextOf(re, b) = Edit(ks)
         /\ IF c = "fgets" THEN re + room = s - 1 /\ room > 1
            ELSE s = MaxKeys + 1 /\ room = s

LEMMA KeyKinds ==
    /\ Erase \in Keys /\ Enter \in Keys /\ Erase # Enter
    /\ \A c \in Chars : c \in Keys /\ c # Erase /\ c # Enter
  BY ConsoleAssumption DEF ConsoleAssumption, Keys

LEMMA TextStarts ==
    ASSUME NEW b
    PROVE  TextOf(-1, b) = <<>> /\ Edit(<<>>) = <<>>
  <1>1. TextOf(-1, b) = <<>>
    BY DEF TextOf
  <1>2. <<>> \in Seq(Keys)
    OBVIOUS
  <1> QED
    BY <1>1, <1>2, EditNone DEF Edit

(* What a stored key and an erased one do to the text in the buffer.        *)
LEMMA TextGrows ==
    ASSUME NEW re \in Int, re >= -1, NEW s \in Nat, re + 1 < s, NEW b, DOMAIN b = 0 .. s - 1, NEW k
    PROVE  TextOf(re + 1, [b EXCEPT ![re + 1] = k]) = Append(TextOf(re, b), k)
  <1>1. PICK m \in Nat : m = re + 1
    BY SMT
  <1>2. PICK d : d = [b EXCEPT ![m] = k]
    OBVIOUS
  <1>3. d[m] = k /\ \A j \in 1 .. m : d[j - 1] = b[j - 1]
    <2>1. m \in 0 .. s - 1 /\ \A j \in 1 .. m : j - 1 # m /\ j - 1 \in 0 .. s - 1
      BY <1>1
    <2> QED
      BY <1>2, <2>1
  <1>4. TextOf(re, b) = [j \in 1 .. m |-> b[j - 1]]
    BY <1>1 DEF TextOf
  <1>5. TextOf(re + 1, d) = [j \in 1 .. m + 1 |-> d[j - 1]]
    BY <1>1 DEF TextOf
  <1> DEFINE t == [j \in 1 .. m |-> b[j - 1]]
  <1>6. Append(t, k) = [j \in 1 .. m + 1 |-> IF j <= m THEN t[j] ELSE k]
    <2>1. Len(t) = m
      OBVIOUS
    <2> QED
      BY <2>1
  <1>7. \A j \in 1 .. m + 1 : d[j - 1] = IF j <= m THEN t[j] ELSE k
    <2> SUFFICES ASSUME NEW j \in 1 .. m + 1 PROVE d[j - 1] = IF j <= m THEN t[j] ELSE k
      OBVIOUS
    <2>1. CASE j <= m
      <3>1. j \in 1 .. m
        BY <2>1
      <3> QED
        BY <2>1, <3>1, <1>3
    <2>2. CASE ~(j <= m)
      <3>1. j - 1 = m
        BY <2>2
      <3> QED
        BY <2>2, <3>1, <1>3
    <2> QED
      BY <2>1, <2>2
  <1> HIDE DEF t
  <1>8. TextOf(re + 1, d) = Append(t, k)
    BY <1>5, <1>6, <1>7
  <1> QED
    BY <1>1, <1>2, <1>4, <1>8 DEF t

LEMMA TextShrinks ==
    ASSUME NEW re \in Int, re >= -1, NEW b, TextOf(re, b) \in Seq(Keys)
    PROVE  /\ TextOf(re, b) = <<>> <=> re = -1
           /\ Len(TextOf(re, b)) = re + 1
           /\ re >= 0 => Front(TextOf(re, b)) = TextOf(re - 1, b)
  <1>1. PICK m \in Nat : m = re + 1
    BY SMT
  <1>2. PICK t \in Seq(Keys) : t = TextOf(re, b)
    OBVIOUS
  <1>3. t = [j \in 1 .. m |-> b[j - 1]]
    BY <1>1, <1>2 DEF TextOf
  <1>4. Len(t) = m /\ (t = <<>> <=> m = 0)
    BY <1>3
  <1>5. ASSUME re >= 0 PROVE Front(t) = TextOf(re - 1, b)
    <2>1. Front(t) = [j \in 1 .. m - 1 |-> t[j]]
      <3>1. m - 1 \in Nat
        BY <1>1, <1>5
      <3> QED
        BY <1>4, <3>1 DEF Front
    <2>2. \A j \in 1 .. m - 1 : t[j] = b[j - 1]
      <3>1. \A j \in 1 .. m - 1 : j \in 1 .. m
        OBVIOUS
      <3> QED
        BY <1>3, <3>1
    <2>3. m - 1 = (re - 1) + 1
      BY <1>1
    <2> QED
      BY <2>1, <2>2, <2>3 DEF TextOf
  <1> QED
    BY <1>1, <1>2, <1>4, <1>5

LEMMA ReaderText ==
    ASSUME NEW c, NEW re, NEW room, NEW s, NEW b, NEW ks, NEW waiting, NEW typed,
           ReaderOk(c, re, room, s, b, ks, waiting, typed), c # "none"
    PROVE  TextOf(re, b) \in Seq(Keys) /\ TextOf(re, b) = Edit(ks)
  <1>1. ks \in Seq(Keys) /\ TextOf(re, b) = Edit(ks) /\ <<>> \in Seq(Keys)
    BY DEF ReaderOk
  <1> QED
    BY <1>1, EditType DEF Edit

Written(d, b, j, k) == d = [b EXCEPT ![j] = k]

(* A key that the loop goes on after.                                       *)
LEMMA ReaderStores ==
    ASSUME NEW c, NEW re, NEW room, NEW s, NEW b, NEW ks, NEW waiting \in Nat, NEW typed \in 0 .. MaxKeys,
           ReaderOk(c, re, room, s, b, ks, waiting + 1, typed), c # "none",
           NEW k \in Keys, k # Erase, k # Enter,
           NEW takes \in {0, 1}, takes = 1 <=> c = "fgets", room - takes # 1,
           NEW d, Written(d, b, re + 1, k)
    PROVE  ReaderOk(c, re + 1, room - takes, s, d, Append(ks, k), waiting, typed)
  <1>1. /\ c \in {"fgets", "scanf"}
        /\ re \in Int /\ re >= -1 /\ room \in Int /\ s \in Nat /\ ks \in Seq(Keys)
        /\ re + 1 < s /\ re + 1 <= Len(ks) /\ Len(ks) + (waiting + 1) <= typed
        /\ DOMAIN b = 0 .. s - 1 /\ TextOf(re, b) = Edit(ks)
        /\ IF c = "fgets" THEN re + room = s - 1 /\ room > 1
           ELSE s = MaxKeys + 1 /\ room = s
    BY DEF ReaderOk
  <1>2. PICK more : more = Append(ks, k)
    OBVIOUS
  <1>3. more \in Seq(Keys) /\ Len(more) = Len(ks) + 1
    BY <1>1, <1>2, AppendProperties
  <1>4. d = [b EXCEPT ![re + 1] = k]
    BY DEF Written
  <1>5. TextOf(re + 1, d) = Append(TextOf(re, b), k)
    <2>1. re \in Int /\ re >= -1 /\ s \in Nat /\ re + 1 < s /\ DOMAIN b = 0 .. s - 1
      BY <1>1
    <2>2. TextOf(re + 1, [b EXCEPT ![re + 1] = k]) = Append(TextOf(re, b), k)
      BY ZenonT(60), <2>1, TextGrows
    <2> QED
      BY <1>4, <2>2
  <1>6. TextOf(re, b) \in Seq(Keys)
    BY ReaderText
  <1>7. EditKey(TextOf(re, b), k) = Append(TextOf(re, b), k)
    BY DEF EditKey
  <1>8. Edit(more) = EditKey(Edit(ks), k)
    <2>1. <<>> \in Seq(Keys)
      OBVIOUS
    <2> QED
      BY <1>1, <1>2, <2>1, EditMore DEF Edit
  <1>9. DOMAIN d = 0 .. s - 1
    BY <1>1, <1>4
  <1>10. PICK l \in Nat : l = Len(ks)
    BY <1>1
  <1>11. MaxKeys \in Nat /\ typed \in Nat /\ typed <= MaxKeys
    BY ConsoleAssumption DEF ConsoleAssumption
  <1>12. (re + 1) + 1 < s /\ (re + 1) + 1 <= l + 1 /\ (l + 1) + waiting <= typed
         /\ re + 1 \in Int /\ re + 1 >= -1 /\ room - takes \in Int
    <2>1. l + (waiting + 1) <= typed /\ re + 1 <= l
      BY <1>1, <1>10
    <2>2. CASE c = "fgets"
      <3>1. re + room = s - 1 /\ room > 1 /\ room # 2 /\ takes = 1
        BY <1>1, <2>2
      <3> QED
        BY <1>1, <2>1, <3>1
    <2>3. CASE c # "fgets"
      <3>1. s = MaxKeys + 1 /\ takes = 0
        BY <1>1, <2>3
      <3> QED
        BY <1>1, <1>11, <2>1, <3>1
    <2> QED
      BY <2>2, <2>3
  <1>13. IF c = "fgets" THEN (re + 1) + (room - takes) = s - 1 /\ room - takes > 1
         ELSE s = MaxKeys + 1 /\ room - takes = s
    BY <1>1
  <1>14. ReaderOk(c, re + 1, room - takes, s, d, more, waiting, typed)
    BY <1>1, <1>3, <1>5, <1>7, <1>8, <1>9, <1>10, <1>12, <1>13 DEF ReaderOk
  <1> QED
    BY <1>2, <1>14

LEMMA TextAfterKey ==
    ASSUME NEW c, NEW re, NEW room, NEW s, NEW b, NEW ks, NEW waiting, NEW typed,
           ReaderOk(c, re, room, s, b, ks, waiting, typed), c # "none",
           NEW k, k # Erase, k # Enter, NEW d, Written(d, b, re + 1, k)
    PROVE  TextOf(re + 1, d) = EditKey(TextOf(re, b), k)
  <1>1. re \in Int /\ re >= -1 /\ s \in Nat /\ re + 1 < s /\ DOMAIN b = 0 .. s - 1
    BY DEF ReaderOk
  <1>2. TextOf(re + 1, [b EXCEPT ![re + 1] = k]) = Append(TextOf(re, b), k)
    BY ZenonT(60), <1>1, TextGrows
  <1> QED
    BY <1>2 DEF Written, EditKey

LEMMA ReaderErases ==
    ASSUME NEW c, NEW re, NEW room, NEW s, NEW b, NEW ks, NEW waiting \in Nat, NEW typed \in 0 .. MaxKeys,
           ReaderOk(c, re, room, s, b, ks, waiting + 1, typed), c # "none",
           NEW takes \in {0, 1}, takes = 1 <=> c = "fgets"
    PROVE  /\ re < 0 => /\ ReaderOk(c, re, room, s, b, Append(ks, Erase), waiting, typed)
                        /\ TextOf(re, b) = EditKey(TextOf(re, b), Erase)
           /\ re >= 0 => /\ ReaderOk(c, re - 1, room + takes, s, b, Append(ks, Erase), waiting, typed)
                         /\ TextOf(re - 1, b) = EditKey(TextOf(re, b), Erase)
           /\ re \in Int
  <1>1. /\ c \in {"fgets", "scanf"}
        /\ re \in Int /\ re >= -1 /\ room \in Int /\ s \in Nat /\ ks \in Seq(Keys)
        /\ re + 1 < s /\ re + 1 <= Len(ks) /\ Len(ks) + (waiting + 1) <= typed
        /\ DOMAIN b = 0 .. s - 1 /\ TextOf(re, b) = Edit(ks)
        /\ IF c = "fgets" THEN re + room = s - 1 /\ room > 1
           ELSE s = MaxKeys + 1 /\ room = s
    BY DEF ReaderOk
  <1>2. PICK more : more = Append(ks, Erase)
    OBVIOUS
  <1>3. Erase \in Keys /\ Erase # Enter
    BY KeyKinds
  <1>4. more \in Seq(Keys) /\ Len(more) = Len(ks) + 1
    BY <1>1, <1>2, <1>3, AppendProperties
  <1>5. TextOf(re, b) \in Seq(Keys)
    BY ReaderText
  <1>6. Edit(more) = EditKey(TextOf(re, b), Erase)
    <2>1. <<>> \in Seq(Keys)
      OBVIOUS
    <2> QED
      BY <1>1, <1>2, <1>3, <2>1, EditMore DEF Edit
  <1>7. PICK l \in Nat : l = Len(ks)
    BY <1>1
  <1>8. (l + 1) + waiting <= typed /\ re + 1 <= l + 1
    BY <1>1, <1>7
  <1>9. ASSUME re < 0
        PROVE  /\ ReaderOk(c, re, room, s, b, more, waiting, typed)
               /\ TextOf(re, b) = EditKey(TextOf(re, b), Erase)
    <2>1. TextOf(re, b) = <<>>
      <3>1. re = -1
        BY <1>1, <1>9
      <3> QED
        BY <1>1, <1>5, <3>1, TextShrinks
    <2>2. EditKey(TextOf(re, b), Erase) = <<>>
      BY <1>3, <2>1 DEF EditKey
    <2> QED
      BY <1>1, <1>4, <1>6, <1>7, <1>8, <2>1, <2>2 DEF ReaderOk
  <1>10. ASSUME re >= 0
         PROVE  /\ ReaderOk(c, re - 1, room + takes, s, b, more, waiting, typed)
                /\ TextOf(re - 1, b) = EditKey(TextOf(re, b), Erase)
    <2>1. TextOf(re, b) # <<>> /\ Front(TextOf(re, b)) = TextOf(re - 1, b)
      <3>1. re # -1
        BY <1>10
      <3> QED
        BY <1>1, <1>5, <1>10, <3>1, TextShrinks
    <2>2. EditKey(TextOf(re, b), Erase) = TextOf(re - 1, b)
      BY <1>3, <2>1 DEF EditKey
    <2>3. /\ re - 1 \in Int /\ re - 1 >= -1 /\ room + takes \in Int
          /\ (re - 1) + 1 < s /\ (re - 1) + 1 <= l + 1
      BY <1>1, <1>8, <1>10
    <2>4. IF c = "fgets" THEN (re - 1) + (room + takes) = s - 1 /\ room + takes > 1
          ELSE s = MaxKeys + 1 /\ room + takes = s
      BY <1>1
    <2> QED
      BY <1>1, <1>4, <1>6, <1>7, <1>8, <2>2, <2>3, <2>4 DEF ReaderOk
  <1> QED
    BY <1>1, <1>2, <1>9, <1>10

-----------------------------------------------------------------------------
(* The invariant.                                                           *)

ConsoleTypes ==
    /\ ring \in Seq(Keys) /\ Len(ring) <= RingSize /\ Len(ring) <= keys /\ keys \in 0 .. MaxKeys
    /\ count \in Nat /\ screen \in Seq(Keys)
    /\ DOMAIN call = Readers /\ DOMAIN readed = Readers /\ DOMAIN n = Readers
    /\ DOMAIN buffer = Readers /\ DOMAIN size = Readers /\ DOMAIN line = Readers
    /\ DOMAIN consumed = Readers

ReadersOk ==
    \A r \in Readers : ReaderOk(call[r], readed[r], n[r], size[r], buffer[r], consumed[r],
                                Len(ring), keys)

(* What can be erased is what the user sees behind the last output.         *)
CountsWhatIsSeen ==
    "unseen" \notin events /\ "behind" \notin events => count = Len(screen) /\ prompt

OneReader ==
    "shared" \notin events =>
        \A q, r \in Readers : call[q] # "none" /\ call[r] # "none" => q = r

ScreenOk ==
    events = {} =>
        /\ \A r \in Readers : call[r] # "none" => EditFrom(Text(r), ring) = screen
        /\ (\A r \in Readers : call[r] = "none") => EditFrom(<<>>, ring) = screen

ConsoleInv == ConsoleTypes /\ ReadersOk /\ CountsWhatIsSeen /\ OneReader /\ ScreenOk

LEMMA TextIs == \A r : Text(r) = TextOf(readed[r], buffer[r])
  BY DEF Text, TextOf

(* Keys that are typed, or taken by somebody else.                          *)
LEMMA ReaderWaits ==
    ASSUME NEW c, NEW re, NEW room, NEW s, NEW b, NEW ks, NEW waiting \in Nat, NEW typed \in Nat,
           ReaderOk(c, re, room, s, b, ks, waiting, typed),
           NEW later \in Nat, NEW more \in Nat, later + typed <= waiting + more
    PROVE  ReaderOk(c, re, room, s, b, ks, later, more)
  <1>1. CASE c # "none"
    <2>1. PICK l \in Nat : l = Len(ks)
      BY <1>1 DEF ReaderOk
    <2>2. l + waiting <= typed
      BY <1>1, <2>1 DEF ReaderOk
    <2>3. l + later <= more
      BY <2>2
    <2> QED
      BY <1>1, <2>1, <2>3 DEF ReaderOk
  <1> QED
    BY <1>1 DEF ReaderOk

OthersSame(r) ==
    /\ \A q \in Readers \ {r} :
        /\ call'[q] = call[q] /\ readed'[q] = readed[q] /\ n'[q] = n[q] /\ size'[q] = size[q]
        /\ buffer'[q] = buffer[q] /\ consumed'[q] = consumed[q]
    /\ DOMAIN call' = Readers /\ DOMAIN readed' = Readers /\ DOMAIN n' = Readers
    /\ DOMAIN buffer' = Readers /\ DOMAIN size' = Readers /\ DOMAIN line' = Readers
    /\ DOMAIN consumed' = Readers

LEMMA ReadersKept ==
    ASSUME ConsoleTypes, ReadersOk, NEW r \in Readers, OthersSame(r),
           ring' \in Seq(Keys), keys' \in Nat, Len(ring') + keys <= Len(ring) + keys',
           ReaderOk(call'[r], readed'[r], n'[r], size'[r], buffer'[r], consumed'[r],
                    Len(ring'), keys')
    PROVE  ReadersOk'
  <1> SUFFICES ASSUME NEW q \in Readers
               PROVE  ReaderOk(call'[q], readed'[q], n'[q], size'[q], buffer'[q], consumed'[q],
                               Len(ring'), keys')
    BY DEF ReadersOk
  <1>1. CASE q = r
    BY <1>1
  <1>2. CASE q # r
    <2>1. ReaderOk(call[q], readed[q], n[q], size[q], buffer[q], consumed[q], Len(ring), keys)
      BY DEF ReadersOk
    <2>2. /\ call'[q] = call[q] /\ readed'[q] = readed[q] /\ n'[q] = n[q] /\ size'[q] = size[q]
          /\ buffer'[q] = buffer[q] /\ consumed'[q] = consumed[q]
      BY <1>2 DEF OthersSame
    <2>3. Len(ring) \in Nat /\ Len(ring') \in Nat /\ keys \in Nat
      BY DEF ConsoleTypes
    <2>4. ReaderOk(call[q], readed[q], n[q], size[q], buffer[q], consumed[q], Len(ring'), keys')
      BY <2>1, <2>3, ReaderWaits
    <2> QED
      BY <2>2, <2>4
  <1> QED
    BY <1>1, <1>2

(* No reader moves.                                                         *)
LEMMA ReadersWait ==
    ASSUME ConsoleTypes, ReadersOk, UNCHANGED locals,
           ring' \in Seq(Keys), keys' \in Nat, Len(ring') + keys <= Len(ring) + keys'
    PROVE  ReadersOk' /\ \A r \in Readers : call'[r] = call[r] /\ Text(r)' = Text(r)
  <1>1. /\ call' = call /\ readed' = readed /\ n' = n /\ size' = size
        /\ buffer' = buffer /\ consumed' = consumed /\ line' = line
    BY DEF locals
  <1>2. ASSUME NEW r \in Readers
        PROVE  ReaderOk(call'[r], readed'[r], n'[r], size'[r], buffer'[r], consumed'[r],
                        Len(ring'), keys')
    <2>1. ReaderOk(call[r], readed[r], n[r], size[r], buffer[r], consumed[r], Len(ring), keys)
      BY DEF ReadersOk
    <2>2. Len(ring) \in Nat /\ Len(ring') \in Nat /\ keys \in Nat
      BY DEF ConsoleTypes
    <2>3. ReaderOk(call[r], readed[r], n[r], size[r], buffer[r], consumed[r], Len(ring'), keys')
      BY <2>1, <2>2, ReaderWaits
    <2> QED
      BY <1>1, <2>3
  <1>3. ReadersOk'
    BY <1>2 DEF ReadersOk
  <1> QED
    BY <1>1, <1>3 DEF Text

LEMMA PushIs ==
    ASSUME ConsoleTypes, NEW k \in Keys, Push(k), Note(k)
    PROVE  /\ ring' \in Seq(Keys) /\ Len(ring') <= RingSize /\ Len(ring') <= keys'
           /\ keys' \in 0 .. MaxKeys /\ Len(ring') + keys <= Len(ring) + keys'
           /\ "lost" \notin events' => ring' = Append(ring, k)
           /\ "unseen" \notin events' => echo = TRUE /\ "unseen" \notin events
           /\ k # Enter /\ "behind" \notin events' => "behind" \notin events
           /\ k # Enter /\ events' = {} => events = {}
           /\ "shared" \in events => "shared" \in events'
  <1>1. PICK l \in Nat : l = Len(ring) /\ l <= RingSize /\ l <= keys
    BY DEF ConsoleTypes
  <1>2. RingSize \in Nat \ {0} /\ MaxKeys \in Nat /\ keys \in Nat /\ ring \in Seq(Keys)
    BY ConsoleAssumption DEF ConsoleAssumption, ConsoleTypes
  <1>3. keys < MaxKeys /\ keys' = keys + 1
    BY DEF Note
  <1>4. /\ l = RingSize => "lost" \in events'
        /\ ~echo => "unseen" \in events'
        /\ k # Enter => events \subseteq events'
        /\ events \ {"behind"} \subseteq events'
    BY <1>1 DEF Note
  <1>5. echo \/ ~echo
    OBVIOUS
  <1>6. PICK more \in Seq(Keys) : more = Append(ring, k) /\ Len(more) = l + 1
    BY <1>1, <1>2, AppendProperties
  <1>7. CASE l < RingSize
    <2>1. ring' = more
      BY <1>1, <1>6, <1>7 DEF Push
    <2> QED
      BY <1>1, <1>2, <1>3, <1>4, <1>6, <1>7, <2>1
  <1>8. CASE ~(l < RingSize)
    <2>1. l = RingSize /\ ring # <<>>
      BY <1>1, <1>2, <1>8
    <2>2. PICK rest \in Seq(Keys) : rest = Tail(ring) /\ Len(rest) = l - 1
      BY <1>1, <1>2, <2>1, HeadTailProperties
    <2>3. PICK new \in Seq(Keys) : new = Append(rest, k) /\ Len(new) = l
      <3>1. Append(rest, k) \in Seq(Keys) /\ Len(Append(rest, k)) = Len(rest) + 1
        BY AppendProperties
      <3>2. Len(rest) + 1 = l
        BY <2>2
      <3> QED
        BY <3>1, <3>2
    <2>4. ring' \in {ring, new}
      BY <1>1, <1>8, <2>2, <2>3 DEF Push
    <2>5. ring' \in Seq(Keys) /\ Len(ring') = l
      <3>1. CASE ring' = ring
        BY <1>1, <1>2, <3>1
      <3>2. CASE ring' = new
        BY <2>3, <3>2
      <3> QED
        BY <2>4, <3>1, <3>2
    <2> QED
      BY <1>1, <1>2, <1>3, <1>4, <2>1, <2>5
  <1> QED
    BY <1>1, <1>7, <1>8

(* A key that does to the screen what it does to a line.                    *)
LEMMA TypingKeeps ==
    ASSUME ConsoleInv, NEW k \in Keys, Push(k), Note(k), UNCHANGED locals,
           count' \in Nat, screen' \in Seq(Keys), CountsWhatIsSeen',
           events' = {} => screen' = EditKey(screen, k)
    PROVE  ConsoleInv'
  <1>1. /\ ring' \in Seq(Keys) /\ Len(ring') <= RingSize /\ Len(ring') <= keys'
        /\ keys' \in 0 .. MaxKeys /\ Len(ring') + keys <= Len(ring) + keys'
        /\ "lost" \notin events' => ring' = Append(ring, k)
        /\ k # Enter /\ events' = {} => events = {}
        /\ "shared" \in events => "shared" \in events'
    BY PushIs DEF ConsoleInv
  <1>2. /\ call' = call /\ readed' = readed /\ n' = n /\ size' = size
        /\ buffer' = buffer /\ consumed' = consumed /\ line' = line
    BY DEF locals
  <1>3. keys' \in Nat
    BY <1>1
  <1>4. ReadersOk' /\ \A r \in Readers : call'[r] = call[r] /\ Text(r)' = Text(r)
    BY <1>1, <1>3, ReadersWait DEF ConsoleInv
  <1>5. ConsoleTypes'
    BY <1>1, <1>2 DEF ConsoleInv, ConsoleTypes
  <1>6. OneReader'
    BY <1>1, <1>2 DEF ConsoleInv, OneReader
  <1>7. ScreenOk'
    <2> SUFFICES ASSUME events' = {}
                 PROVE  /\ \A r \in Readers : call'[r] # "none" => EditFrom(Text(r)', ring') = screen'
                        /\ (\A r \in Readers : call'[r] = "none") => EditFrom(<<>>, ring') = screen'
      BY DEF ScreenOk
    <2>1. ring' = Append(ring, k) /\ screen' = EditKey(screen, k) /\ (k # Enter => events = {})
      BY <1>1
    <2>2. ring \in Seq(Keys) /\ <<>> \in Seq(Keys)
      BY DEF ConsoleInv, ConsoleTypes
    <2>3. ASSUME NEW r \in Readers, call'[r] # "none" PROVE EditFrom(Text(r)', ring') = screen'
      <3>1. EditKey(EditFrom(Text(r), ring), k) = EditKey(screen, k)
        BY <1>4, <2>1, <2>3 DEF ConsoleInv, ScreenOk, EditKey
      <3>2. ReaderOk(call[r], readed[r], n[r], size[r], buffer[r], consumed[r], Len(ring), keys)
        BY DEF ConsoleInv, ReadersOk
      <3>3. Text(r) \in Seq(Keys)
        BY <1>4, <2>3, <3>2, ReaderText, TextIs
      <3>4. EditFrom(Text(r), Append(ring, k)) = EditKey(EditFrom(Text(r), ring), k)
        BY <2>2, <3>3, EditMore
      <3> QED
        BY <1>4, <2>1, <3>1, <3>4
    <2>4. ASSUME \A r \in Readers : call'[r] = "none" PROVE EditFrom(<<>>, ring') = screen'
      <3>1. EditKey(EditFrom(<<>>, ring), k) = EditKey(screen, k)
        BY <1>4, <2>1, <2>4 DEF ConsoleInv, ScreenOk, EditKey
      <3>2. EditFrom(<<>>, Append(ring, k)) = EditKey(EditFrom(<<>>, ring), k)
        BY <2>2, EditMore
      <3> QED
        BY <2>1, <3>1, <3>2
    <2> QED
      BY <2>3, <2>4
  <1> QED
    BY <1>4, <1>5, <1>6, <1>7 DEF ConsoleInv

LEMMA TypeEraseKeeps ==
    ASSUME ConsoleInv, TypeErase
    PROVE  ConsoleInv'
  <1>1. Erase \in Keys /\ Erase # Enter /\ Push(Erase) /\ Note(Erase) /\ UNCHANGED locals
    BY KeyKinds DEF TypeErase
  <1>2. count \in Nat /\ screen \in Seq(Keys) /\ ConsoleTypes
    BY DEF ConsoleInv, ConsoleTypes
  <1>3. "unseen" \notin events' /\ "behind" \notin events' =>
            echo = TRUE /\ "unseen" \notin events /\ "behind" \notin events
    BY <1>1, <1>2, PushIs
  <1>4. "unseen" \notin events' /\ "behind" \notin events' => count = Len(screen) /\ prompt
    BY <1>3 DEF ConsoleInv, CountsWhatIsSeen
  <1>5. screen # <<>> => /\ Front(screen) \in Seq(Keys) /\ Len(Front(screen)) = Len(screen) - 1
                         /\ EditKey(screen, Erase) = Front(screen)
    BY <1>1, <1>2, FrontIs DEF EditKey
  <1>6. screen = <<>> <=> Len(screen) = 0
    BY <1>2
  <1>7. EditKey(<<>>, Erase) = <<>>
    BY DEF EditKey
  <1>8. CASE count > 0
    <2>1. /\ count' = count - 1
          /\ IF echo /\ screen # <<>> THEN screen' = Front(screen) /\ prompt' = prompt
             ELSE screen' = screen
      BY <1>8 DEF TypeErase
    <2>2. count' \in Nat /\ screen' \in Seq(Keys)
      BY <1>2, <1>5, <1>8, <2>1
    <2>3. ASSUME "unseen" \notin events' /\ "behind" \notin events'
          PROVE  count' = Len(screen') /\ prompt' /\ screen' = EditKey(screen, Erase)
      <3>1. echo = TRUE /\ screen # <<>> /\ count = Len(screen) /\ prompt
        BY <1>3, <1>4, <1>6, <1>8, <2>3
      <3> QED
        BY <1>5, <2>1, <3>1
    <2>4. CountsWhatIsSeen'
      BY <2>3 DEF CountsWhatIsSeen
    <2> QED
      BY <1>1, <2>2, <2>3, <2>4, TypingKeeps
  <1>9. CASE ~(count > 0)
    <2>1. count' = count /\ screen' = screen /\ prompt' = prompt
      BY <1>9 DEF TypeErase, terminal
    <2>2. events' = {} => screen' = EditKey(screen, Erase)
      BY <1>2, <1>4, <1>6, <1>7, <1>9, <2>1
    <2>3. CountsWhatIsSeen'
      BY <1>4, <2>1 DEF CountsWhatIsSeen
    <2> QED
      BY <1>1, <1>2, <2>1, <2>2, <2>3, TypingKeeps
  <1> QED
    BY <1>8, <1>9

LEMMA TypeEnterKeeps ==
    ASSUME ConsoleInv, TypeEnter
    PROVE  ConsoleInv'
  <1>1. Enter \in Keys /\ Push(Enter) /\ Note(Enter) /\ UNCHANGED locals
    BY KeyKinds DEF TypeEnter
  <1>2. screen \in Seq(Keys) /\ ConsoleTypes
    BY DEF ConsoleInv, ConsoleTypes
  <1>3. "unseen" \notin events' => echo = TRUE /\ "unseen" \notin events
    BY <1>1, <1>2, PushIs
  <1>4. count' = 0 /\ screen' = (IF echo THEN <<>> ELSE screen) /\ prompt' = (prompt \/ echo)
    BY DEF TypeEnter
  <1>5. "unseen" \notin events' => screen' = <<>> /\ prompt'
    BY <1>3, <1>4
  <1>6. screen' \in Seq(Keys) /\ count' \in Nat /\ EditKey(screen, Enter) = <<>>
    BY <1>2, <1>4 DEF EditKey
  <1>7. CountsWhatIsSeen'
    BY <1>4, <1>5 DEF CountsWhatIsSeen
  <1> QED
    BY <1>1, <1>5, <1>6, <1>7, TypingKeeps

LEMMA TypeCharKeeps ==
    ASSUME ConsoleInv, NEW c \in Chars, TypeChar(c)
    PROVE  ConsoleInv'
  <1>1. c \in Keys /\ c # Erase /\ c # Enter /\ Push(c) /\ Note(c) /\ UNCHANGED locals
    BY KeyKinds DEF TypeChar
  <1>2. screen \in Seq(Keys) /\ count \in Nat /\ ConsoleTypes
    BY DEF ConsoleInv, ConsoleTypes
  <1>3. "unseen" \notin events' /\ "behind" \notin events' =>
            echo = TRUE /\ "unseen" \notin events /\ "behind" \notin events
    BY <1>1, <1>2, PushIs
  <1>4. count' = count + 1 /\ screen' = (IF echo THEN Append(screen, c) ELSE screen) /\ prompt' = prompt
    BY DEF TypeChar
  <1>5. Append(screen, c) \in Seq(Keys) /\ Len(Append(screen, c)) = Len(screen) + 1
        /\ EditKey(screen, c) = Append(screen, c)
    BY <1>1, <1>2, AppendProperties DEF EditKey
  <1>6. "unseen" \notin events' /\ "behind" \notin events' =>
            screen' = Append(screen, c) /\ prompt' /\ count' = Len(screen')
    BY <1>3, <1>4, <1>5 DEF ConsoleInv, CountsWhatIsSeen
  <1>7. screen' \in Seq(Keys) /\ count' \in Nat
    BY <1>2, <1>4, <1>5
  <1>8. CountsWhatIsSeen'
    BY <1>6 DEF CountsWhatIsSeen
  <1> QED
    BY <1>1, <1>5, <1>6, <1>7, <1>8, TypingKeeps

-----------------------------------------------------------------------------
(* Calls start.                                                             *)

LEMMA StartKeeps ==
    ASSUME ConsoleInv, NEW r \in Readers, NEW function \in {"fgets", "scanf"}, NEW s \in Nat,
           s > 0, function = "fgets" => s > 1, function = "scanf" => s = MaxKeys + 1,
           Start(r, function, s)
    PROVE  ConsoleInv'
  <1>1. /\ call[r] = "none" /\ call' = [call EXCEPT ![r] = function]
        /\ line' = [line EXCEPT ![r] = <<>>]
        /\ size' = [size EXCEPT ![r] = s] /\ n' = [n EXCEPT ![r] = s]
        /\ buffer' = [buffer EXCEPT ![r] = [j \in 0 .. s - 1 |-> Nul]]
        /\ events' = events \cup Sharing(r)
        /\ ring' = ring /\ count' = count /\ echo' = echo /\ screen' = screen /\ prompt' = prompt
        /\ readed' = readed /\ consumed' = consumed /\ keys' = keys
    BY DEF Start, driver, terminal
  <1>2. /\ DOMAIN call = Readers /\ DOMAIN readed = Readers /\ DOMAIN n = Readers
        /\ DOMAIN buffer = Readers /\ DOMAIN size = Readers /\ DOMAIN line = Readers
        /\ DOMAIN consumed = Readers /\ ring \in Seq(Keys) /\ Len(ring) \in Nat
        /\ keys \in Nat /\ Len(ring) <= keys
    BY DEF ConsoleInv, ConsoleTypes
  <1>3. OthersSame(r)
    BY <1>1, <1>2 DEF OthersSame
  <1>4. /\ call'[r] = function /\ readed'[r] = readed[r] /\ n'[r] = s /\ size'[r] = s
        /\ buffer'[r] = [j \in 0 .. s - 1 |-> Nul] /\ consumed'[r] = consumed[r]
    BY <1>1, <1>2
  <1>5. readed[r] = -1 /\ consumed[r] = <<>>
    BY <1>1 DEF ConsoleInv, ReadersOk, ReaderOk
  <1>6. PICK b : b = [j \in 0 .. s - 1 |-> Nul]
    OBVIOUS
  <1>7. ReaderOk(function, -1, s, s, b, <<>>, Len(ring), keys)
    <2>1. DOMAIN b = 0 .. s - 1 /\ TextOf(-1, b) = Edit(<<>>)
      BY <1>6, TextStarts
    <2>2. <<>> \in Seq(Keys) /\ Len(<<>>) = 0
      OBVIOUS
    <2>3. -1 + 1 = 0 /\ -1 + s = s - 1 /\ -1 \in Int /\ -1 >= -1 /\ s \in Int
      OBVIOUS
    <2>4. function # "none" /\ (function # "fgets" => function = "scanf")
      OBVIOUS
    <2> QED
      BY <1>2, <2>1, <2>2, <2>3, <2>4 DEF ReaderOk
  <1>8. ReadersOk'
    <2>1. ReaderOk(call'[r], readed'[r], n'[r], size'[r], buffer'[r], consumed'[r], Len(ring'), keys')
      BY <1>1, <1>4, <1>5, <1>6, <1>7
    <2>2. ring' \in Seq(Keys) /\ keys' \in Nat /\ Len(ring') + keys <= Len(ring) + keys'
      BY <1>1, <1>2
    <2> QED
      BY <1>3, <2>1, <2>2, ReadersKept DEF ConsoleInv
  <1>9. ConsoleTypes'
    BY <1>1, <1>2 DEF ConsoleInv, ConsoleTypes
  <1>10. CountsWhatIsSeen'
    <2>1. events \subseteq events'
      BY <1>1
    <2> QED
      BY <1>1, <2>1 DEF ConsoleInv, CountsWhatIsSeen
  <1>11. ASSUME "shared" \notin events' PROVE \A q \in Readers \ {r} : call[q] = "none"
    BY <1>1, <1>11 DEF Sharing
  <1>12. OneReader'
    <2> SUFFICES ASSUME "shared" \notin events', NEW p \in Readers, NEW q \in Readers,
                        call'[p] # "none", call'[q] # "none"
                 PROVE  p = q
      BY DEF OneReader
    <2>1. \A x \in Readers \ {r} : call'[x] = "none"
      BY <1>3, <1>11 DEF OthersSame
    <2> QED
      BY <2>1
  <1>13. ScreenOk'
    <2> SUFFICES ASSUME events' = {}
                 PROVE  /\ \A q \in Readers : call'[q] # "none" => EditFrom(Text(q)', ring') = screen'
                        /\ (\A q \in Readers : call'[q] = "none") => EditFrom(<<>>, ring') = screen'
      BY DEF ScreenOk
    <2>1. \A q \in Readers : call[q] = "none"
      BY <1>1, <1>11
    <2>2. events = {}
      BY <1>1
    <2>3. EditFrom(<<>>, ring) = screen
      BY <2>1, <2>2 DEF ConsoleInv, ScreenOk
    <2>4. Text(r)' = <<>>
      <3>1. Text(r)' = TextOf(readed'[r], buffer'[r])
        BY DEF Text, TextOf
      <3> QED
        BY <1>4, <1>5, <3>1, TextStarts
    <2>5. call'[r] # "none" /\ \A q \in Readers \ {r} : call'[q] = "none"
      BY <1>3, <1>4, <2>1 DEF OthersSame
    <2> QED
      BY <1>1, <2>3, <2>4, <2>5
  <1> QED
    BY <1>8, <1>9, <1>10, <1>12, <1>13 DEF ConsoleInv

LEMMA StartFgetsKeeps ==
    ASSUME ConsoleInv, NEW r \in Readers, StartFgets(r)
    PROVE  ConsoleInv'
  <1>1. PICK s \in Sizes : Start(r, "fgets", s)
    BY DEF StartFgets
  <1>2. s \in Nat /\ s > 0 /\ s > 1
    BY ConsoleAssumption DEF ConsoleAssumption
  <1> QED
    BY <1>1, <1>2, StartKeeps

LEMMA StartScanfKeeps ==
    ASSUME ConsoleInv, NEW r \in Readers, StartScanf(r)
    PROVE  ConsoleInv'
  <1>1. MaxKeys + 1 \in Nat /\ MaxKeys + 1 > 0
    BY ConsoleAssumption DEF ConsoleAssumption
  <1> QED
    BY <1>1, StartKeeps DEF StartScanf

-----------------------------------------------------------------------------
(* Calls take keys.                                                         *)

(* The key moves from the ring to the reader's text.                        *)
Moves(r, k) ==
    /\ k = Head(ring) /\ ring' = Tail(ring) /\ count' = count /\ screen' = screen
    /\ prompt' = prompt /\ keys' = keys /\ OthersSame(r) /\ events \subseteq events'

LEMMA TakingKeeps ==
    ASSUME ConsoleInv, NEW r \in Readers, call[r] # "none", ring # <<>>, NEW k, Moves(r, k),
           ReaderOk(call'[r], readed'[r], n'[r], size'[r], buffer'[r], consumed'[r],
                    Len(ring'), keys'),
           events' = {} => IF call'[r] = "none" THEN EditKey(Text(r), k) = <<>>
                           ELSE Text(r)' = EditKey(Text(r), k)
    PROVE  ConsoleInv'
  <1>1. /\ DOMAIN call = Readers /\ DOMAIN readed = Readers /\ DOMAIN n = Readers
        /\ DOMAIN buffer = Readers /\ DOMAIN size = Readers /\ DOMAIN line = Readers
        /\ DOMAIN consumed = Readers /\ ring \in Seq(Keys) /\ Len(ring) \in Nat
        /\ keys \in Nat /\ Len(ring) <= keys /\ Len(ring) <= RingSize /\ RingSize \in Nat
    BY ConsoleAssumption DEF ConsoleInv, ConsoleTypes, ConsoleAssumption
  <1>2. PICK rest \in Seq(Keys) : rest = Tail(ring) /\ Len(rest) = Len(ring) - 1
    BY <1>1, HeadTailProperties
  <1>3. /\ ring' = rest /\ count' = count /\ screen' = screen /\ prompt' = prompt
        /\ keys' = keys /\ OthersSame(r) /\ events \subseteq events' /\ k = Head(ring)
    BY <1>2 DEF Moves
  <1>4. ring' \in Seq(Keys) /\ keys' \in Nat /\ Len(ring') + keys <= Len(ring) + keys'
        /\ Len(ring') <= keys' /\ Len(ring') <= RingSize
    BY <1>1, <1>2, <1>3
  <1>5. ReadersOk'
    BY <1>3, <1>4, ReadersKept DEF ConsoleInv
  <1>6. ConsoleTypes'
    BY <1>1, <1>3, <1>4 DEF ConsoleInv, ConsoleTypes, OthersSame
  <1>7. CountsWhatIsSeen'
    BY <1>3 DEF ConsoleInv, CountsWhatIsSeen
  <1>8. ASSUME "shared" \notin events' PROVE \A q \in Readers \ {r} : call'[q] = "none"
    BY <1>3, <1>8 DEF ConsoleInv, OneReader, OthersSame
  <1>9. OneReader'
    BY <1>8 DEF OneReader
  <1>10. ScreenOk'
    <2> SUFFICES ASSUME events' = {}
                 PROVE  /\ \A q \in Readers : call'[q] # "none" => EditFrom(Text(q)', ring') = screen'
                        /\ (\A q \in Readers : call'[q] = "none") => EditFrom(<<>>, ring') = screen'
      BY DEF ScreenOk
    <2>1. events = {} /\ \A q \in Readers \ {r} : call'[q] = "none"
      BY <1>3, <1>8
    <2>2. EditFrom(Text(r), ring) = screen
      BY <2>1 DEF ConsoleInv, ScreenOk
    <2>3. Text(r) \in Seq(Keys)
      <3>1. ReaderOk(call[r], readed[r], n[r], size[r], buffer[r], consumed[r], Len(ring), keys)
        BY DEF ConsoleInv, ReadersOk
      <3> QED
        BY <3>1, ReaderText, TextIs
    <2>4. EditFrom(EditKey(Text(r), k), ring') = screen'
      BY SMTT(60), <1>1, <1>2, <1>3, <2>2, <2>3, EditFirst
    <2> QED
      BY <2>1, <2>4
  <1> QED
    BY <1>5, <1>6, <1>7, <1>9, <1>10 DEF ConsoleInv

LEMMA ReadingIs ==
    ASSUME ConsoleInv, NEW r \in Readers, call[r] # "none", ring # <<>>
    PROVE  /\ DOMAIN call = Readers /\ DOMAIN readed = Readers /\ DOMAIN n = Readers
           /\ DOMAIN buffer = Readers /\ DOMAIN size = Readers /\ DOMAIN line = Readers
           /\ DOMAIN consumed = Readers
           /\ Head(ring) \in Keys /\ keys \in 0 .. MaxKeys
           /\ \E waiting \in Nat :
                /\ Len(Tail(ring)) = waiting
                /\ ReaderOk(call[r], readed[r], n[r], size[r], buffer[r], consumed[r],
                            waiting + 1, keys)
           /\ Text(r) \in Seq(Keys) /\ Text(r) = Edit(consumed[r])
  <1>1. ring \in Seq(Keys)
    BY DEF ConsoleInv, ConsoleTypes
  <1>2. Head(ring) \in Keys /\ Tail(ring) \in Seq(Keys) /\ Len(Tail(ring)) = Len(ring) - 1
    BY <1>1, HeadTailProperties
  <1>3. PICK waiting \in Nat : waiting = Len(Tail(ring))
    <2>1. Len(Tail(ring)) \in Nat
      BY <1>2, LenProperties
    <2> QED
      BY <2>1
  <1>4. Len(ring) = waiting + 1
    BY <1>1, <1>2, <1>3
  <1>5. ReaderOk(call[r], readed[r], n[r], size[r], buffer[r], consumed[r], Len(ring), keys)
    BY DEF ConsoleInv, ReadersOk
  <1>6. Text(r) \in Seq(Keys) /\ Text(r) = Edit(consumed[r])
    BY <1>5, ReaderText, TextIs
  <1>7. ReaderOk(call[r], readed[r], n[r], size[r], buffer[r], consumed[r], waiting + 1, keys)
    BY <1>4, <1>5
  <1> QED
    BY <1>2, <1>3, <1>6, <1>7 DEF ConsoleInv, ConsoleTypes

LEMMA EraseKeeps ==
    ASSUME ConsoleInv, NEW r \in Readers, NEW function \in {"fgets", "scanf"}, Reading(r, function),
           NEW room \in {0, 1}, room = 1 <=> function = "fgets",
           Head(ring) = Erase, TakeKey(r), Continue(r), Undo(r, room)
    PROVE  ConsoleInv'
  <1>1. call[r] = function /\ call[r] # "none" /\ ring # <<>>
    BY DEF Reading
  <1>2. /\ DOMAIN call = Readers /\ DOMAIN readed = Readers /\ DOMAIN n = Readers
        /\ DOMAIN buffer = Readers /\ DOMAIN size = Readers /\ DOMAIN line = Readers
        /\ DOMAIN consumed = Readers /\ keys \in 0 .. MaxKeys
    BY <1>1, ReadingIs
  <1>3. PICK waiting \in Nat :
            /\ Len(Tail(ring)) = waiting
            /\ ReaderOk(call[r], readed[r], n[r], size[r], buffer[r], consumed[r], waiting + 1, keys)
    BY <1>1, ReadingIs
  <1>4. /\ ring' = Tail(ring) /\ count' = count /\ screen' = screen /\ prompt' = prompt /\ keys' = keys
        /\ consumed' = [consumed EXCEPT ![r] = Append(consumed[r], Erase)]
        /\ call' = call /\ size' = size /\ line' = line /\ buffer' = buffer /\ events' = events
        /\ IF readed[r] >= 0
           THEN readed' = [readed EXCEPT ![r] = readed[r] - 1] /\ n' = [n EXCEPT ![r] = n[r] + room]
           ELSE readed' = readed /\ n' = n
    BY DEF TakeKey, Continue, Undo, terminal
  <1>5. OthersSame(r)
    BY <1>2, <1>4 DEF OthersSame
  <1>6. Moves(r, Erase)
    BY <1>4, <1>5 DEF Moves
  <1>7. /\ readed[r] < 0 =>
            /\ ReaderOk(call[r], readed[r], n[r], size[r], buffer[r], Append(consumed[r], Erase), waiting, keys)
            /\ TextOf(readed[r], buffer[r]) = EditKey(TextOf(readed[r], buffer[r]), Erase)
        /\ readed[r] >= 0 =>
            /\ ReaderOk(call[r], readed[r] - 1, n[r] + room, size[r], buffer[r],
                        Append(consumed[r], Erase), waiting, keys)
            /\ TextOf(readed[r] - 1, buffer[r]) = EditKey(TextOf(readed[r], buffer[r]), Erase)
        /\ readed[r] \in Int
    BY <1>1, <1>2, <1>3, ReaderErases
  <1>8. Text(r) = TextOf(readed[r], buffer[r]) /\ Text(r)' = TextOf(readed'[r], buffer'[r])
    BY DEF Text, TextOf
  <1>9. /\ ReaderOk(call'[r], readed'[r], n'[r], size'[r], buffer'[r], consumed'[r], Len(ring'), keys')
        /\ Text(r)' = EditKey(Text(r), Erase)
    <2>1. CASE readed[r] >= 0
      <3>1. readed'[r] = readed[r] - 1 /\ n'[r] = n[r] + room /\ consumed'[r] = Append(consumed[r], Erase)
        BY <1>2, <1>4, <2>1
      <3> QED
        BY <1>3, <1>4, <1>7, <1>8, <2>1, <3>1
    <2>2. CASE ~(readed[r] >= 0)
      <3>1. readed'[r] = readed[r] /\ n'[r] = n[r] /\ consumed'[r] = Append(consumed[r], Erase)
        BY <1>2, <1>4, <2>2
      <3>2. readed[r] < 0
        BY <1>7, <2>2
      <3> QED
        BY <1>3, <1>4, <1>7, <1>8, <3>1, <3>2
    <2> QED
      BY <2>1, <2>2
  <1>10. call'[r] # "none"
    BY <1>1, <1>4
  <1> QED
    BY <1>1, <1>6, <1>9, <1>10, TakingKeeps

(* The line is full only for _fgets.                                        *)
LEMMA FullIs ==
    ASSUME ConsoleInv, NEW r \in Readers, NEW function \in {"fgets", "scanf"}, Reading(r, function),
           NEW room \in {0, 1}, room = 1 <=> function = "fgets", n[r] - room = 1
    PROVE  function = "fgets" /\ size[r] \in Int /\ readed[r] + 1 = size[r] - 2
  <1>1. call[r] = function /\ call[r] # "none" /\ ring # <<>>
    BY DEF Reading
  <1>2. keys \in 0 .. MaxKeys /\ MaxKeys \in Nat
    BY <1>1, ReadingIs, ConsoleAssumption DEF ConsoleAssumption
  <1>3. PICK waiting \in Nat :
            ReaderOk(call[r], readed[r], n[r], size[r], buffer[r], consumed[r], waiting + 1, keys)
    BY <1>1, ReadingIs
  <1>4. /\ readed[r] \in Int /\ n[r] \in Int /\ size[r] \in Nat /\ consumed[r] \in Seq(Keys)
        /\ Len(consumed[r]) + (waiting + 1) <= keys
        /\ IF call[r] = "fgets" THEN readed[r] + n[r] = size[r] - 1 /\ n[r] > 1
           ELSE size[r] = MaxKeys + 1 /\ n[r] = size[r]
    BY <1>1, <1>3 DEF ReaderOk
  <1>5. function = "fgets"
    <2> SUFFICES ASSUME function # "fgets" PROVE FALSE
      OBVIOUS
    <2>1. n[r] = MaxKeys + 1 /\ room = 0
      BY <1>1, <1>4
    <2>2. MaxKeys = 0
      BY <1>2, <2>1
    <2>3. PICK l \in Nat : l = Len(consumed[r])
      BY <1>4, LenProperties
    <2>4. l + (waiting + 1) <= keys
      BY <1>4, <2>3
    <2>5. keys = 0
      BY <1>2, <2>2
    <2> QED
      BY <2>4, <2>5
  <1>6. n[r] = 2 /\ readed[r] + n[r] = size[r] - 1
    BY <1>1, <1>4, <1>5
  <1> QED
    BY <1>4, <1>5, <1>6

(* What Return leaves in the line is the text.                              *)
LEMMA ReturnedText ==
    ASSUME NEW re \in Int, re >= -1, NEW s \in Nat, re + 1 < s, NEW b, DOMAIN b = 0 .. s - 1, NEW k,
           NEW d, Written(d, b, re + 1, k)
    PROVE  [j \in 1 .. re + 1 |-> d[j - 1]] = TextOf(re, b)
  <1>1. \A j \in 1 .. re + 1 : j - 1 # re + 1
    OBVIOUS
  <1>2. PICK l : l = re + 1 /\ d = [b EXCEPT ![l] = k]
    BY DEF Written
  <1>3. \A j \in 1 .. re + 1 : d[j - 1] = b[j - 1]
    <2> SUFFICES ASSUME NEW j \in 1 .. re + 1 PROVE d[j - 1] = b[j - 1]
      OBVIOUS
    <2>1. PICK i : i = j - 1
      OBVIOUS
    <2>2. i # l /\ i \in DOMAIN b
      BY <1>1, <1>2, <2>1
    <2>3. [b EXCEPT ![l] = k][i] = b[i]
      BY <2>2, Zenon
    <2> QED
      BY <1>2, <2>1, <2>3
  <1> QED
    BY <1>3 DEF TextOf

LEMMA StoreKeeps ==
    ASSUME ConsoleInv, NEW r \in Readers, NEW function \in {"fgets", "scanf"}, Reading(r, function),
           NEW room \in {0, 1}, room = 1 <=> function = "fgets",
           Head(ring) # Erase, TakeKey(r), Store(r, room)
    PROVE  ConsoleInv'
  <1>1. call[r] = function /\ call[r] # "none" /\ ring # <<>>
    BY DEF Reading
  <1>2. /\ DOMAIN call = Readers /\ DOMAIN readed = Readers /\ DOMAIN n = Readers
        /\ DOMAIN buffer = Readers /\ DOMAIN size = Readers /\ DOMAIN line = Readers
        /\ DOMAIN consumed = Readers /\ keys \in 0 .. MaxKeys /\ Head(ring) \in Keys
    BY <1>1, ReadingIs
  <1>3. PICK waiting \in Nat :
            /\ Len(Tail(ring)) = waiting
            /\ ReaderOk(call[r], readed[r], n[r], size[r], buffer[r], consumed[r], waiting + 1, keys)
    BY <1>1, ReadingIs
  <1>4. PICK k \in Keys : k = Head(ring) /\ k # Erase
    BY <1>2
  <1>5. /\ ring' = Tail(ring) /\ count' = count /\ screen' = screen /\ prompt' = prompt /\ keys' = keys
        /\ events' = events \cup (IF k # Enter /\ n[r] - room = 1 THEN {"cut"} ELSE {})
    BY <1>4 DEF TakeKey, Store, terminal
  <1>6. CASE k = Enter \/ n[r] - room = 1
    <2>1. /\ call' = [call EXCEPT ![r] = "none"] /\ readed' = [readed EXCEPT ![r] = -1]
          /\ n' = [n EXCEPT ![r] = 0] /\ size' = [size EXCEPT ![r] = 0]
          /\ buffer' = [buffer EXCEPT ![r] = <<>>] /\ consumed' = [consumed EXCEPT ![r] = <<>>]
          /\ DOMAIN line' = DOMAIN line
      BY <1>4, <1>6 DEF Store, Return, Forget
    <2>2. OthersSame(r)
      BY <1>2, <2>1 DEF OthersSame
    <2>3. call'[r] = "none" /\ readed'[r] = -1 /\ consumed'[r] = <<>>
      BY <1>2, <2>1
    <2>4. ReaderOk(call'[r], readed'[r], n'[r], size'[r], buffer'[r], consumed'[r], Len(ring'), keys')
      BY <2>3 DEF ReaderOk
    <2>5. events' = {} => EditKey(Text(r), k) = <<>>
      <3>1. events' = {} => k = Enter
        BY <1>5, <1>6
      <3> QED
        BY <3>1 DEF EditKey
    <2>6. Moves(r, k)
      BY <1>4, <1>5, <2>2 DEF Moves
    <2> QED
      BY <1>1, <2>3, <2>4, <2>5, <2>6, TakingKeeps
  <1>7. CASE k # Enter /\ n[r] - room # 1
    <2> DEFINE last == readed[r] + 1
               stored == [buffer[r] EXCEPT ![last] = k]
    <2>1. /\ call' = call /\ readed' = [readed EXCEPT ![r] = last]
          /\ n' = [n EXCEPT ![r] = n[r] - room] /\ size' = size /\ line' = line
          /\ buffer' = [buffer EXCEPT ![r] = stored]
          /\ consumed' = [consumed EXCEPT ![r] = Append(consumed[r], k)]
      BY <1>4, <1>7 DEF Store, Continue
    <2>2. /\ ReaderOk(call[r], last, n[r] - room, size[r], stored, Append(consumed[r], k), waiting, keys)
          /\ TextOf(last, stored) = EditKey(TextOf(readed[r], buffer[r]), k)
      <3>1. /\ ReaderOk(call[r], readed[r], n[r], size[r], buffer[r], consumed[r], waiting + 1, keys)
            /\ call[r] # "none" /\ k # Erase /\ k # Enter /\ keys \in 0 .. MaxKeys
            /\ room = 1 <=> call[r] = "fgets"
            /\ n[r] - room # 1
        BY <1>1, <1>2, <1>3, <1>4, <1>7
      <3>2. PICK d : d = stored
        OBVIOUS
      <3>3. Written(d, buffer[r], readed[r] + 1, k)
        BY <3>2 DEF Written
      <3> HIDE DEF stored
      <3>4. /\ ReaderOk(call[r], readed[r] + 1, n[r] - room, size[r], d, Append(consumed[r], k), waiting, keys)
            /\ TextOf(readed[r] + 1, d) = EditKey(TextOf(readed[r], buffer[r]), k)
        <4>1. PICK m : m = n[r]
          OBVIOUS
        <4>2. m - room # 1 /\ ReaderOk(call[r], readed[r], m, size[r], buffer[r], consumed[r], waiting + 1, keys)
          BY <3>1, <4>1
        <4>3. ReaderOk(call[r], readed[r] + 1, m - room, size[r], d, Append(consumed[r], k), waiting, keys)
          BY <3>1, <3>3, <4>2, ReaderStores
        <4>4. TextOf(readed[r] + 1, d) = EditKey(TextOf(readed[r], buffer[r]), k)
          BY <3>1, <3>3, TextAfterKey
        <4> QED
          BY <4>1, <4>3, <4>4
      <3> QED
        BY <3>2, <3>4
    <2> HIDE DEF last, stored
    <2>3. OthersSame(r)
      BY <1>2, <2>1 DEF OthersSame
    <2>4. /\ call'[r] = call[r] /\ readed'[r] = last /\ n'[r] = n[r] - room /\ size'[r] = size[r]
          /\ buffer'[r] = stored /\ consumed'[r] = Append(consumed[r], k)
      BY <1>2, <2>1
    <2>5. Text(r)' = EditKey(Text(r), k)
      <3>1. Text(r) = TextOf(readed[r], buffer[r]) /\ Text(r)' = TextOf(readed'[r], buffer'[r])
        BY DEF Text, TextOf
      <3> QED
        BY <2>2, <2>4, <3>1
    <2>6. ReaderOk(call'[r], readed'[r], n'[r], size'[r], buffer'[r], consumed'[r], Len(ring'), keys')
      BY <1>3, <1>5, <2>2, <2>4
    <2>7. Moves(r, k)
      BY <1>4, <1>5, <2>3 DEF Moves
    <2>8. call'[r] # "none"
      BY <1>1, <2>4
    <2> QED
      BY <1>1, <2>5, <2>6, <2>7, <2>8, TakingKeeps
  <1> QED
    BY <1>6, <1>7

LEMMA RawReadKeeps ==
    ASSUME ConsoleInv, NEW s \in ReadSizes, RawRead(s)
    PROVE  ConsoleInv'
  <1>1. /\ ring' = SubSeq(ring, s + 1, Len(ring)) /\ events' = events \cup {"shared"}
        /\ count' = count /\ screen' = screen /\ prompt' = prompt /\ keys' = keys
        /\ UNCHANGED locals
    BY DEF RawRead, terminal
  <1>2. /\ call' = call /\ readed' = readed /\ n' = n /\ size' = size
        /\ buffer' = buffer /\ consumed' = consumed /\ line' = line
    BY <1>1 DEF locals
  <1>3. ring \in Seq(Keys) /\ s \in Nat /\ keys \in Nat /\ Len(ring) <= keys /\ Len(ring) <= RingSize
        /\ RingSize \in Nat
    BY ConsoleAssumption DEF ConsoleInv, ConsoleTypes, ConsoleAssumption
  <1>4. PICK l \in Nat : l = Len(ring)
    BY <1>3
  <1>5. PICK rest \in Seq(Keys) : rest = ring' /\ Len(rest) <= l
    <2>1. \A j \in s + 1 .. l : ring[j] \in Keys
      BY <1>3, <1>4
    <2>2. /\ SubSeq(ring, s + 1, l) \in Seq(Keys)
          /\ Len(SubSeq(ring, s + 1, l)) = IF s + 1 <= l THEN l - (s + 1) + 1 ELSE 0
      BY <1>3, <2>1, SubSeqProperties
    <2>3. Len(SubSeq(ring, s + 1, l)) <= l
      BY <1>3, <2>2
    <2> QED
      BY <1>1, <1>4, <2>2, <2>3
  <1>6. ring' \in Seq(Keys) /\ keys' \in Nat /\ Len(ring') + keys <= Len(ring) + keys'
        /\ Len(ring') <= keys' /\ Len(ring') <= RingSize
    <2>1. Len(rest) \in Nat
      OBVIOUS
    <2> QED
      BY <1>1, <1>3, <1>4, <1>5, <2>1
  <1>7. ReadersOk'
    BY <1>1, <1>6, ReadersWait DEF ConsoleInv
  <1>8. ConsoleTypes'
    BY <1>1, <1>2, <1>6 DEF ConsoleInv, ConsoleTypes
  <1>9. CountsWhatIsSeen' /\ OneReader' /\ ScreenOk'
    BY <1>1 DEF ConsoleInv, CountsWhatIsSeen, OneReader, ScreenOk
  <1> QED
    BY <1>7, <1>8, <1>9 DEF ConsoleInv

(* Output behind which nothing is counted changes nothing on the screen.    *)
LEMMA OutputKeeps ==
    ASSUME ConsoleInv, Output
    PROVE  ConsoleInv'
  <1>1. /\ ring' = ring /\ count' = count /\ prompt' = prompt /\ keys' = keys
        /\ screen' = <<>> /\ events' = events \cup (IF count > 0 THEN {"behind"} ELSE {})
        /\ call' = call /\ readed' = readed /\ n' = n /\ size' = size
        /\ buffer' = buffer /\ consumed' = consumed /\ line' = line
    BY DEF Output, driver, locals
  <1>2. count \in Nat /\ screen \in Seq(Keys) /\ <<>> \in Seq(Keys) /\ Len(<<>>) = 0
    BY DEF ConsoleInv, ConsoleTypes
  <1>3. ConsoleTypes'
    BY <1>1, <1>2 DEF ConsoleInv, ConsoleTypes
  <1>4. ReadersOk'
    BY <1>1 DEF ConsoleInv, ReadersOk
  <1>5. OneReader'
    BY <1>1 DEF ConsoleInv, OneReader
  <1>6. ASSUME "unseen" \notin events' /\ "behind" \notin events'
        PROVE  events' = events /\ screen' = screen /\ count' = 0 /\ prompt'
    <2>1. events' = events /\ count = 0
      BY <1>1, <1>2, <1>6
    <2>2. Len(screen) = 0 /\ prompt
      BY <1>6, <2>1 DEF ConsoleInv, CountsWhatIsSeen
    <2> QED
      BY <1>1, <1>2, <2>1, <2>2
  <1>7. CountsWhatIsSeen'
    BY <1>1, <1>2, <1>6 DEF CountsWhatIsSeen
  <1>8. ScreenOk'
    <2> SUFFICES ASSUME events' = {} PROVE ScreenOk'
      BY DEF ScreenOk
    <2>1. events = {} /\ screen' = screen
      BY <1>6
    <2>2. \A r : Text(r)' = Text(r)
      BY <1>1 DEF Text
    <2> QED
      BY <1>1, <2>1, <2>2 DEF ConsoleInv, ScreenOk
  <1> QED
    BY <1>3, <1>4, <1>5, <1>7, <1>8 DEF ConsoleInv

(* Nobody takes a key or types one.                                         *)
LEMMA ConsoleSame ==
    ASSUME ConsoleInv, UNCHANGED <<ring, count, terminal, locals, keys, events>>
    PROVE  ConsoleInv'
  <1>1. /\ ring' = ring /\ count' = count /\ screen' = screen /\ prompt' = prompt
        /\ keys' = keys /\ events' = events
        /\ call' = call /\ readed' = readed /\ n' = n /\ size' = size
        /\ buffer' = buffer /\ consumed' = consumed /\ line' = line
    BY DEF terminal, locals
  <1>2. ConsoleTypes'
    BY <1>1 DEF ConsoleInv, ConsoleTypes
  <1>3. ReadersOk'
    BY <1>1 DEF ConsoleInv, ReadersOk
  <1>4. CountsWhatIsSeen' /\ OneReader'
    BY <1>1 DEF ConsoleInv, CountsWhatIsSeen, OneReader
  <1>5. ScreenOk'
    <2>1. \A r : Text(r)' = Text(r)
      BY <1>1 DEF Text
    <2> QED
      BY <1>1, <2>1 DEF ConsoleInv, ScreenOk
  <1> QED
    BY <1>2, <1>3, <1>4, <1>5 DEF ConsoleInv

LEMMA ConsoleStarts == Init => ConsoleInv
  <1> SUFFICES ASSUME Init PROVE ConsoleInv
    OBVIOUS
  <1>1. <<>> \in Seq(Keys) /\ Len(<<>>) = 0
    OBVIOUS
  <1>2. ConsoleTypes
    BY <1>1, ConsoleAssumption DEF Init, ConsoleTypes, ConsoleAssumption
  <1>3. ReadersOk
    BY DEF Init, ReadersOk, ReaderOk
  <1>4. CountsWhatIsSeen /\ OneReader
    BY <1>1 DEF Init, CountsWhatIsSeen, OneReader
  <1>5. ScreenOk
    <2>1. EditFrom(<<>>, <<>>) = <<>>
      BY <1>1, EditNone
    <2> QED
      BY <2>1 DEF Init, ScreenOk
  <1> QED
    BY <1>2, <1>3, <1>4, <1>5 DEF ConsoleInv

LEMMA ConsoleKept == ConsoleInv /\ [Next]_vars => ConsoleInv'
  <1> SUFFICES ASSUME ConsoleInv, [Next]_vars PROVE ConsoleInv'
    OBVIOUS
  <1>1. CASE TypeErase \/ TypeEnter \/ \E c \in Chars : TypeChar(c)
    BY <1>1, TypeEraseKeeps, TypeEnterKeeps, TypeCharKeeps
  <1>2. ASSUME NEW r \in Readers, StartFgets(r) \/ StartScanf(r)
        PROVE  ConsoleInv'
    BY <1>2, StartFgetsKeeps, StartScanfKeeps
  <1>3. ASSUME NEW r \in Readers, FgetsErase(r) \/ FgetsKey(r) \/ ScanfErase(r) \/ ScanfKey(r)
        PROVE  ConsoleInv'
    <2>1. /\ 1 = 1 <=> "fgets" = "fgets"
          /\ 0 = 1 <=> "scanf" = "fgets"
      OBVIOUS
    <2>2. CASE FgetsErase(r)
      BY <2>1, <2>2, EraseKeeps DEF FgetsErase
    <2>3. CASE ScanfErase(r)
      BY <2>1, <2>3, EraseKeeps DEF ScanfErase
    <2>4. CASE FgetsKey(r)
      BY <2>1, <2>4, StoreKeeps DEF FgetsKey
    <2>5. CASE ScanfKey(r)
      BY <2>1, <2>5, StoreKeeps DEF ScanfKey
    <2> QED
      BY <1>3, <2>2, <2>3, <2>4, <2>5
  <1>4. CASE \E s \in ReadSizes : RawRead(s)
    BY <1>4, RawReadKeeps
  <1>5. CASE SetEcho
    BY <1>5, ConsoleSame DEF SetEcho
  <1>6. CASE Output
    BY <1>6, OutputKeeps
  <1>7. CASE UNCHANGED vars
    BY <1>7, ConsoleSame DEF vars, driver
  <1> QED
    BY <1>1, <1>2, <1>3, <1>4, <1>5, <1>6, <1>7 DEF Next

(* The inductive invariant: each reader's buffer holds its keys edited, the *)
(* keys of the ring were typed behind them; and in a line without unseen    *)
(* keys and without output behind typed keys the interrupt counts what is   *)
(* on the screen, and the screen shows what all of it makes                 *)
(* (usart_driver.cpp, usart_file.cpp, printf.cpp).                          *)
THEOREM ConsoleInductive == Spec => []ConsoleInv
  BY ConsoleStarts, ConsoleKept, PTL DEF Spec

(* Whatever is typed while a line is read, and whoever else reads, the      *)
(* buffer of _fgets and scanf holds the edited line and never overflows.    *)
THEOREM LinesAreHeld == Spec => []BufferHoldsLine
  <1>1. ConsoleInv => BufferHoldsLine
    <2> SUFFICES ASSUME ConsoleInv, NEW r \in Readers, call[r] # "none"
                 PROVE  /\ readed[r] + 1 < size[r]
                        /\ Text(r) = Edit(consumed[r])
                        /\ call[r] = "fgets" => readed[r] + n[r] = size[r] - 1 /\ n[r] > 1
      BY DEF BufferHoldsLine
    <2>1. ReaderOk(call[r], readed[r], n[r], size[r], buffer[r], consumed[r], Len(ring), keys)
      BY DEF ConsoleInv, ReadersOk
    <2> QED
      BY <2>1, TextIs DEF ReaderOk
  <1> QED
    BY <1>1, ConsoleInductive, PTL

(* The erase key, pressed at any moment, leaves the prompt and any other    *)
(* output alone, while the user sees what is typed and nothing is written   *)
(* behind typed keys of the same line (usart_driver.cpp, line 53).          *)
THEOREM PromptIsKept == Spec => []PromptStays
  <1>1. ConsoleInv => PromptStays
    BY DEF ConsoleInv, CountsWhatIsSeen, PromptStays
  <1> QED
    BY <1>1, ConsoleInductive, PTL

(* What the user sees is what the program will get, for a ring, a buffer    *)
(* and a line of any length, and for output of any programs that does not   *)
(* come between the keys of one line.                                       *)
THEOREM ScreenIsTrue == Spec => []ScreenShowsLine
  <1>1. ConsoleInv => ScreenShowsLine
    BY DEF ConsoleInv, ScreenOk, ScreenShowsLine
  <1> QED
    BY <1>1, ConsoleInductive, PTL

LEMMA StoreReturns ==
    ASSUME ConsoleInv, NEW r \in Readers, NEW function \in {"fgets", "scanf"}, Reading(r, function),
           NEW room \in {0, 1}, room = 1 <=> function = "fgets",
           Head(ring) # Erase, Store(r, room), call'[r] = "none"
    PROVE  LET k == Append(consumed[r], Head(ring)) IN
           IF Last(k) = Enter THEN line'[r] = Edit(Front(k))
           ELSE /\ line'[r] = Front(Edit(k))
                /\ Len(line'[r]) = size[r] - 2 /\ call[r] = "fgets"
  <1>1. call[r] = function /\ call[r] # "none" /\ ring # <<>>
    BY DEF Reading
  <1>2. DOMAIN line = Readers /\ Head(ring) \in Keys /\ DOMAIN call = Readers
        /\ Text(r) \in Seq(Keys) /\ Text(r) = Edit(consumed[r])
    BY <1>1, ReadingIs
  <1>3. PICK waiting \in Nat :
            ReaderOk(call[r], readed[r], n[r], size[r], buffer[r], consumed[r], waiting + 1, keys)
    BY <1>1, ReadingIs
  <1>4. /\ readed[r] \in Int /\ readed[r] >= -1 /\ size[r] \in Nat /\ readed[r] + 1 < size[r]
        /\ DOMAIN buffer[r] = 0 .. size[r] - 1 /\ consumed[r] \in Seq(Keys)
    BY <1>1, <1>3 DEF ReaderOk
  <1>5. PICK k \in Keys : k = Head(ring) /\ k # Erase
    BY <1>2
  <1>6. k = Enter \/ n[r] - room = 1
    BY <1>1, <1>5 DEF Store, Continue
  <1>7. line' = [line EXCEPT ![r] = [j \in 1 .. readed[r] + 1 |->
                    [buffer[r] EXCEPT ![readed[r] + 1] = k][j - 1]]]
    BY <1>5, <1>6 DEF Store, Return
  <1>8. [j \in 1 .. readed[r] + 1 |-> [buffer[r] EXCEPT ![readed[r] + 1] = k][j - 1]]
            = TextOf(readed[r], buffer[r])
    <2>1. PICK s \in Nat : s = size[r]
      BY <1>4
    <2>2. PICK re \in Int : re = readed[r]
      BY <1>4
    <2>3. PICK b : b = buffer[r]
      OBVIOUS
    <2>4. re >= -1 /\ re + 1 < s /\ DOMAIN b = 0 .. s - 1
      BY <1>4, <2>1, <2>2, <2>3
    <2>5. PICK d : d = [b EXCEPT ![re + 1] = k]
      OBVIOUS
    <2>6. Written(d, b, re + 1, k)
      BY <2>5 DEF Written
    <2>7. [j \in 1 .. re + 1 |-> d[j - 1]] = TextOf(re, b)
      BY <2>4, <2>6, ReturnedText
    <2> QED
      BY <2>2, <2>3, <2>5, <2>7
  <1>9. line'[r] = Text(r)
    BY <1>2, <1>7, <1>8, TextIs
  <1>10. PICK ks \in Seq(Keys) : ks = Append(consumed[r], k)
    BY <1>4, AppendProperties
  <1>11. Last(ks) = k /\ Front(ks) = consumed[r]
    BY <1>4, <1>10, FrontOfMore
  <1>12. ASSUME k = Enter PROVE line'[r] = Edit(Front(ks))
    BY <1>2, <1>9, <1>11
  <1>13. ASSUME k # Enter
         PROVE  line'[r] = Front(Edit(ks)) /\ Len(line'[r]) = size[r] - 2 /\ call[r] = "fgets"
    <2>1. function = "fgets" /\ readed[r] + 1 = size[r] - 2
      BY <1>6, <1>13, FullIs
    <2>2. Edit(ks) = EditKey(Text(r), k)
      <3>1. <<>> \in Seq(Keys)
        OBVIOUS
      <3>2. PICK taken \in Seq(Keys) : taken = consumed[r]
        BY <1>4
      <3>3. EditFrom(<<>>, Append(taken, k)) = EditKey(EditFrom(<<>>, taken), k)
        BY <3>1, EditMore
      <3> QED
        BY <1>2, <1>10, <3>2, <3>3 DEF Edit
    <2>3. EditKey(Text(r), k) = Append(Text(r), k)
      BY <1>5, <1>13 DEF EditKey
    <2>4. Front(Edit(ks)) = Text(r)
      BY <1>2, <2>2, <2>3, FrontOfMore
    <2>5. Len(Text(r)) = readed[r] + 1
      BY <1>2, <1>4, TextIs, TextShrinks
    <2> QED
      BY <1>1, <1>9, <2>1, <2>4, <2>5
  <1> QED
    BY <1>5, <1>10, <1>11, <1>12, <1>13

(* A line that is returned is the one that was typed, edited; one that      *)
(* fills the buffer of _fgets lacks its last character, and no other does.  *)
THEOREM LinesAreReturned == Spec => ReturnsEditedLine
  <1> DEFINE Returns(r) ==
        LET k == Append(consumed[r], Head(ring)) IN
        IF Last(k) = Enter THEN line'[r] = Edit(Front(k))
        ELSE /\ line'[r] = Front(Edit(k))
             /\ Len(line'[r]) = size[r] - 2 /\ call[r] = "fgets"
      Step == \A r \in Readers : call[r] # "none" /\ call'[r] = "none" => Returns(r)
  <1>1. ConsoleInv /\ [Next]_vars => Step
    <2> SUFFICES ASSUME ConsoleInv, [Next]_vars, NEW r \in Readers,
                        call[r] # "none", call'[r] = "none"
                 PROVE  Returns(r)
      OBVIOUS
    <2>1. DOMAIN call = Readers
      BY DEF ConsoleInv, ConsoleTypes
    <2>2. /\ 1 = 1 <=> "fgets" = "fgets"
          /\ 0 = 1 <=> "scanf" = "fgets"
      OBVIOUS
    <2>3. call' # call
      OBVIOUS
    <2>4. ~(TypeErase \/ TypeEnter \/ \E c \in Chars : TypeChar(c))
      BY <2>3 DEF TypeErase, TypeEnter, TypeChar, locals
    <2>5. ~((\E s \in ReadSizes : RawRead(s)) \/ Output \/ SetEcho \/ UNCHANGED vars)
      BY <2>3 DEF RawRead, Output, SetEcho, vars, locals
    <2>6. PICK q \in Readers : \/ StartFgets(q) \/ StartScanf(q)
                               \/ FgetsErase(q) \/ FgetsKey(q) \/ ScanfErase(q) \/ ScanfKey(q)
      BY <2>4, <2>5 DEF Next
    <2>7. ~FgetsErase(q) /\ ~ScanfErase(q)
      BY <2>3 DEF FgetsErase, ScanfErase, Continue
    <2>8. ~StartFgets(q) /\ ~StartScanf(q)
      <3>1. ASSUME NEW function \in {"fgets", "scanf"}, NEW s, Start(q, function, s) PROVE FALSE
        <4>1. call' = [call EXCEPT ![q] = function] /\ function # "none"
          BY <3>1 DEF Start
        <4> QED
          BY <2>1, <4>1
      <3> QED
        BY <3>1 DEF StartFgets, StartScanf
    <2>9. q = r
      <3>1. call' = call \/ call' = [call EXCEPT ![q] = "none"]
        BY <2>6, <2>7, <2>8 DEF FgetsKey, ScanfKey, Store, Return, Continue
      <3> QED
        BY <2>1, <3>1
    <2>10. CASE FgetsKey(r)
      BY <2>2, <2>10, StoreReturns DEF FgetsKey
    <2>11. CASE ScanfKey(r)
      BY <2>2, <2>11, StoreReturns DEF ScanfKey
    <2> QED
      BY <2>6, <2>7, <2>8, <2>9, <2>10, <2>11
  <1>2. ConsoleInv /\ [Next]_vars => [Step]_vars
    BY <1>1
  <1> QED
    BY <1>2, ConsoleInductive, PTL DEF Spec, ReturnsEditedLine
=============================================================================
