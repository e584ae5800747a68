----------------------------- MODULE ShellProofs ------------------------------
(***************************************************************************)
(* What listings show can be opened, and the shell runs what its lines     *)
(* mean, for any ROM image, any files, any lines and any nested shells.    *)
(***************************************************************************)
EXTENDS Shell, InductionLemmas

-----------------------------------------------------------------------------
(* Paths.                                                                   *)

(* What the drivers and programs are called: a name that began with "rom"   *)
(* or "dev" would be taken for a path below that mount point.               *)
NamesAreApart ==
    \A n \in Drivers \union Apps : ~StartsWith(n, "rom") /\ ~StartsWith(n, "dev")

IsPath(p) == p \in Seq(Range(p))

LEMMA PathIs ==
    ASSUME NEW S, NEW p \in Seq(S)
    PROVE  IsPath(p) /\ Range(p) \subseteq S
  <1>1. PICK n \in Nat : n = Len(p) /\ DOMAIN p = 1 .. n
    BY LenProperties
  <1>2. p = [i \in 1 .. n |-> p[i]]
    BY <1>1
  <1>3. \A i \in 1 .. n : p[i] \in Range(p) /\ p[i] \in S
    BY <1>1, ElementOfSeq DEF Range
  <1>4. [i \in 1 .. n |-> p[i]] \in Seq(Range(p))
    BY <1>3, IsASeq
  <1>5. Range(p) \subseteq S
    BY <1>1, <1>3 DEF Range
  <1> QED
    BY <1>2, <1>4, <1>5 DEF IsPath

LEMMA PathLength ==
    ASSUME NEW p, IsPath(p)
    PROVE  /\ Len(p) \in Nat /\ DOMAIN p = 1 .. Len(p) /\ p = [i \in 1 .. Len(p) |-> p[i]]
           /\ p = <<>> <=> Len(p) = 0
           /\ \A i \in 1 .. Len(p) : p[i] \in Range(p)
  <1>1. PICK S : S = Range(p) /\ p \in Seq(S)
    BY DEF IsPath
  <1>2. Len(p) \in Nat /\ DOMAIN p = 1 .. Len(p) /\ (p = <<>> <=> Len(p) = 0)
    BY <1>1, LenProperties, EmptySeq
  <1>3. p = [i \in 1 .. Len(p) |-> p[i]]
    BY <1>1, <1>2
  <1> QED
    BY <1>2, <1>3 DEF Range

LEMMA PathOver ==
    ASSUME NEW p, IsPath(p), NEW S, Range(p) \subseteq S
    PROVE  p \in Seq(S)
  <1>1. PICK n \in Nat : n = Len(p) /\ p = [i \in 1 .. n |-> p[i]] /\ \A i \in 1 .. n : p[i] \in Range(p)
    BY PathLength
  <1>2. \A i \in 1 .. n : p[i] \in S
    BY <1>1
  <1>3. [i \in 1 .. n |-> p[i]] \in Seq(S)
    BY <1>2, IsASeq
  <1> QED
    BY <1>1, <1>3

(* A path and one name more.                                                *)
LEMMA OneNameMore ==
    ASSUME NEW p, IsPath(p), NEW w
    PROVE  /\ IsPath(Append(p, w)) /\ Append(p, w) # <<>> /\ Len(Append(p, w)) = Len(p) + 1
           /\ Last(Append(p, w)) = w /\ Front(Append(p, w)) = p
           /\ DOMAIN Append(p, w) = 1 .. Len(p) + 1
           /\ Append(p, w)[Len(p) + 1] = w /\ \A i \in 1 .. Len(p) : Append(p, w)[i] = p[i]
           /\ Range(Append(p, w)) = Range(p) \union {w}
  <1>0. PICK S : S = Range(p) \union {w}
    OBVIOUS
  <1>1. S = Range(p) \union {w} /\ p \in Seq(S) /\ w \in S
    <2>1. Range(p) \subseteq S /\ w \in S
      BY <1>0
    <2> QED
      BY <1>0, <2>1, PathOver
  <1>2. Append(p, w) \in Seq(S) /\ Len(Append(p, w)) = Len(p) + 1 /\ Len(p) \in Nat
    BY <1>1, AppendProperties, LenProperties
  <1>3. /\ Append(p, w)[Len(p) + 1] = w /\ \A i \in 1 .. Len(p) : Append(p, w)[i] = p[i]
        /\ DOMAIN Append(p, w) = 1 .. Len(p) + 1
    BY <1>1, <1>2, AppendProperties, LenProperties
  <1>4. IsPath(Append(p, w)) /\ Append(p, w) # <<>>
    <2>1. Len(Append(p, w)) # 0 /\ Len(<<>>) = 0
      BY <1>2
    <2> QED
      BY <1>2, <2>1, PathIs
  <1>5. Front(Append(p, w)) = p
    <2>1. p = [i \in 1 .. Len(p) |-> p[i]]
      BY PathLength
    <2>2. Front(Append(p, w)) = [i \in 1 .. Len(p) |-> Append(p, w)[i]]
      BY <1>2 DEF Front
    <2> QED
      BY <1>3, <2>1, <2>2
  <1>6. Range(Append(p, w)) = Range(p) \union {w}
    <2>1. DOMAIN p = 1 .. Len(p)
      BY PathLength
    <2> QED
      BY <1>2, <1>3, <2>1 DEF Range
  <1> QED
    BY <1>2, <1>3, <1>4, <1>5, <1>6 DEF Last

(* A path without its last name.                                            *)
LEMMA OneNameLess ==
    ASSUME NEW p, IsPath(p), p # <<>>
    PROVE  /\ IsPath(Front(p)) /\ Append(Front(p), Last(p)) = p
           /\ Range(Front(p)) \subseteq Range(p) /\ Last(p) \in Range(p)
           /\ Len(Front(p)) = Len(p) - 1
  <1>1. PICK n \in Nat \ {0} : n = Len(p) /\ DOMAIN p = 1 .. n
    BY PathLength
  <1>2. Front(p) = [i \in 1 .. n - 1 |-> p[i]]
    BY <1>1 DEF Front
  <1>3. \A i \in 1 .. n : p[i] \in Range(p)
    BY <1>1, PathLength
  <1>4. Front(p) \in Seq(Range(p))
    <2>1. \A i \in 1 .. n - 1 : p[i] \in Range(p)
      BY <1>1, <1>3
    <2>2. n - 1 \in Nat
      BY <1>1
    <2> QED
      BY <1>2, <2>1, <2>2, IsASeq
  <1>5. IsPath(Front(p)) /\ Range(Front(p)) \subseteq Range(p)
    BY <1>4, PathIs
  <1>6. Len(Front(p)) = n - 1 /\ \A i \in 1 .. n - 1 : Front(p)[i] = p[i]
    BY <1>1, <1>2
  <1>7. Append(Front(p), p[n]) = p
    <2>0. PICK f, w : f = Front(p) /\ w = p[n] /\ IsPath(f) /\ Len(f) = n - 1
                      /\ \A i \in 1 .. n - 1 : f[i] = p[i]
      BY <1>5, <1>6
    <2>01. /\ IsPath(Append(f, w)) /\ Len(Append(f, w)) = Len(f) + 1
           /\ Append(f, w)[Len(f) + 1] = w /\ \A i \in 1 .. Len(f) : Append(f, w)[i] = f[i]
      BY <2>0, OneNameMore
    <2>02. Len(f) + 1 = n
      BY <1>1, <2>0
    <2>03. PICK q : q = Append(f, w)
      OBVIOUS
    <2>1. q = Append(Front(p), p[n]) /\ IsPath(q) /\ Len(q) = n /\ q[n] = p[n]
          /\ \A i \in 1 .. n - 1 : q[i] = p[i]
      BY <1>1, <2>0, <2>01, <2>02, <2>03
    <2>2. \A i \in 1 .. n : q[i] = p[i]
      BY <2>1
    <2>3. q = [i \in 1 .. n |-> q[i]] /\ p = [i \in 1 .. n |-> p[i]]
      BY <1>1, <2>1, PathLength
    <2> QED
      BY <2>1, <2>2, <2>3
  <1>8. Last(p) = p[n] /\ p[n] \in Range(p)
    BY <1>1, <1>3 DEF Last
  <1> QED
    BY <1>1, <1>5, <1>6, <1>7, <1>8

(* One name and a path.                                                     *)
LEMMA OneNameBefore ==
    ASSUME NEW m, NEW p, IsPath(p)
    PROVE  /\ IsPath(<<m>> \o p) /\ <<m>> \o p # <<>> /\ Len(<<m>> \o p) = Len(p) + 1
           /\ (<<m>> \o p)[1] = m /\ \A i \in 1 .. Len(p) : (<<m>> \o p)[i + 1] = p[i]
           /\ Tail(<<m>> \o p) = p
           /\ Range(<<m>> \o p) = Range(p) \union {m}
           /\ p # <<>> => Last(<<m>> \o p) = Last(p)
  <1>0. PICK S : S = Range(p) \union {m}
    OBVIOUS
  <1>1. S = Range(p) \union {m} /\ p \in Seq(S) /\ m \in S
    <2>1. Range(p) \subseteq S /\ m \in S
      BY <1>0
    <2> QED
      BY <1>0, <2>1, PathOver
  <1>2. PICK n \in Nat : n = Len(p) /\ DOMAIN p = 1 .. n
    BY PathLength
  <1>3. PICK q : q = <<m>> \o p
    OBVIOUS
  <1>4. <<m>> \in Seq(S) /\ Len(<<m>>) = 1 /\ <<m>>[1] = m
    BY <1>1
  <1>5. q \in Seq(S) /\ Len(q) = n + 1
    BY <1>1, <1>2, <1>3, <1>4, ConcatProperties
  <1>6. q[1] = m /\ \A i \in 1 .. n : q[i + 1] = p[i]
    BY <1>1, <1>2, <1>3, <1>4, ConcatProperties
  <1>7. IsPath(q) /\ q # <<>> /\ DOMAIN q = 1 .. n + 1
    BY <1>5, PathIs, EmptySeq, LenProperties
  <1>8. Tail(q) = p
    <2>1. Tail(q) = [i \in 1 .. n |-> q[i + 1]]
      <3>1. Len(q) - 1 = n
        BY <1>2, <1>5
      <3>2. Tail(q) \in Seq(S) /\ Len(Tail(q)) = n /\ \A i \in 1 .. n : Tail(q)[i] = q[i + 1]
        BY <1>5, <1>7, <3>1, HeadTailProperties
      <3>3. Tail(q) = [i \in 1 .. n |-> Tail(q)[i]]
        BY <3>2, PathIs, PathLength
      <3> QED
        BY <3>2, <3>3
    <2>2. p = [i \in 1 .. n |-> p[i]]
      BY <1>2, PathLength
    <2> QED
      BY <1>6, <2>1, <2>2
  <1>9. Range(q) = Range(p) \union {m}
    <2>1. \A i \in 1 .. n + 1 : i = 1 \/ (i - 1 \in 1 .. n /\ q[i] = p[i - 1])
      <3> SUFFICES ASSUME NEW i \in 1 .. n + 1, i # 1 PROVE i - 1 \in 1 .. n /\ q[i] = p[i - 1]
        OBVIOUS
      <3>1. i - 1 \in 1 .. n /\ (i - 1) + 1 = i
        OBVIOUS
      <3> QED
        BY <1>6, <3>1
    <2>2. Range(q) \subseteq Range(p) \union {m}
      <3> SUFFICES ASSUME NEW i \in 1 .. n + 1 PROVE q[i] \in Range(p) \union {m}
        BY <1>7 DEF Range
      <3>1. CASE i = 1
        BY <1>6, <3>1
      <3>2. CASE i # 1
        BY <1>2, <2>1, <3>2 DEF Range
      <3> QED
        BY <3>1, <3>2
    <2>3. \A i \in 1 .. n : i + 1 \in 1 .. n + 1 /\ 1 \in 1 .. n + 1
      OBVIOUS
    <2>4. 1 \in 1 .. n + 1
      OBVIOUS
    <2>5. Range(p) \union {m} \subseteq Range(q)
      BY <1>2, <1>6, <1>7, <2>3, <2>4 DEF Range
    <2> QED
      BY <2>2, <2>5
  <1>10. p # <<>> => Last(q) = Last(p)
    <2> SUFFICES ASSUME p # <<>> PROVE q[n + 1] = p[n]
      BY <1>2, <1>5 DEF Last
    <2>1. n \in 1 .. n
      BY <1>2, PathLength
    <2> QED
      BY <1>6, <2>1
  <1> QED
    BY <1>2, <1>3, <1>5, <1>6, <1>7, <1>8, <1>9, <1>10

-----------------------------------------------------------------------------
(* The choice of a mount point.                                             *)

(* What kernel_process mounts, in its order; the ROM may be missing.        *)
R == MountAt(<<>>, "RamFs")
M == MountAt(<<"rom">>, "RomFS")
D == MountAt(<<"dev">>, "DevFs")
A == MountAt(<<"bin">>, "AppFs")

WithRom == mounts \in {<<R, M>>, <<R, M, D, A>>}
Booted == mounts \in {<<R, D, A>>, <<R, M, D, A>>}
MountsInv == mounts \in {<<>>, <<R>>, <<R, M>>, <<R, D, A>>, <<R, M, D, A>>}

(* The text of a mount point of one name occurs in a path.                  *)
Occurs(m, p) == \E j \in 1 .. Len(p) : StartsWith(p[j], m)

LEMMA OccursIs ==
    ASSUME NEW p, IsPath(p), NEW m
    PROVE  OccursIn(<<m>>, p) <=> Occurs(m, p)
  <1>1. PICK n \in Nat : n = Len(p)
    BY PathLength
  <1>2. Len(<<m>>) = 1 /\ <<m>> # <<>> /\ Last(<<m>>) = m
    BY DEF Last
  <1>3. \A i \in 0 .. n - 1 : i + 1 \in 1 .. n
    BY <1>1
  <1>4. \A j \in 1 .. n : j - 1 \in 0 .. n - 1 /\ (j - 1) + 1 = j
    BY <1>1
  <1>5. 1 .. 1 - 1 = {}
    OBVIOUS
  <1>6. OccursIn(<<m>>, p) <=> \E i \in 0 .. n - 1 : StartsWith(p[i + 1], m)
    BY <1>1, <1>2, <1>5 DEF OccursIn
  <1> QED
    BY <1>1, <1>3, <1>4, <1>6 DEF Occurs

LEMMA OneElement ==
    ASSUME NEW s, NEW i \in Int
    PROVE  SubSeq(s, i, i) = <<s[i]>>
  <1>1. PICK q, x : q = SubSeq(s, i, i) /\ x = s[i]
    OBVIOUS
  <1>2. \A j \in i .. i : s[j] \in {x}
    BY <1>1
  <1>3. q \in Seq({x}) /\ Len(q) = 1 /\ q[1] = s[1 + i - 1]
    <2>1. q \in Seq({x}) /\ Len(q) = (IF i <= i THEN i - i + 1 ELSE 0)
          /\ \A j \in 1 .. i - i + 1 : q[j] = s[i + j - 1]
      BY <1>1, <1>2, SubSeqProperties
    <2>2. i - i + 1 = 1 /\ 1 \in 1 .. 1 /\ i + 1 - 1 = 1 + i - 1
      OBVIOUS
    <2> QED
      BY <2>1, <2>2
  <1>4. 1 + i - 1 = i
    OBVIOUS
  <1>5. <<x>> \in Seq({x}) /\ Len(<<x>>) = 1 /\ <<x>>[1] = x
    OBVIOUS
  <1>6. Len(q) = Len(<<x>>) /\ \A j \in 1 .. Len(q) : q[j] = <<x>>[j]
    BY <1>1, <1>3, <1>4, <1>5
  <1>7. q = <<x>>
    BY <1>3, <1>5, <1>6, SeqEqual
  <1> QED
    BY <1>1, <1>7

LEMMA RelativeToRoot ==
    ASSUME NEW p, IsPath(p)
    PROVE  Relative(p, <<>>) = p
  <1>1. PICK n \in Nat : n = Len(p) /\ p = [i \in 1 .. n |-> p[i]]
    BY PathLength
  <1> DEFINE C(k) == /\ k <= Len(p) /\ SubSeq(p, 1, k) = SubSeq(<<>>, 1, k)
                     /\ k < Len(<<>>) /\ k < Len(p) => p[k + 1] # <<>>[k + 1]
             common == CHOOSE k \in 0 .. Len(<<>>) : C(k)
  <1>2. C(0) /\ 0 .. Len(<<>>) = {0}
    BY <1>1
  <1> HIDE DEF C
  <1>3. common = 0
    BY <1>2
  <1>4. Relative(p, <<>>) = [i \in 1 .. Len(<<>>) - common |-> ".."] \o SubSeq(p, common + 1, Len(p))
    BY DEF Relative, C
  <1> HIDE DEF common
  <1>5. [i \in 1 .. Len(<<>>) - common |-> ".."] = <<>>
    <2>1. 1 .. Len(<<>>) - common = {}
      BY <1>3
    <2> QED
      BY <2>1
  <1>6. SubSeq(p, common + 1, Len(p)) = p
    BY <1>1, <1>3
  <1> QED
    BY <1>4, <1>5, <1>6, ConcatEmptySeq DEF IsPath

LEMMA RelativeToMount ==
    ASSUME NEW p, IsPath(p), p # <<>>, NEW m
    PROVE  Relative(p, <<m>>) = IF p[1] = m THEN Tail(p) ELSE <<"..">> \o p
  <1>1. PICK n \in Nat : n = Len(p) /\ p = [i \in 1 .. n |-> p[i]] /\ n # 0
    BY PathLength
  <1> DEFINE C(k) == /\ k <= Len(p) /\ SubSeq(p, 1, k) = SubSeq(<<m>>, 1, k)
                     /\ k < Len(<<m>>) /\ k < Len(p) => p[k + 1] # <<m>>[k + 1]
             common == CHOOSE k \in 0 .. Len(<<m>>) : C(k)
  <1>2. 0 .. Len(<<m>>) = {0, 1}
    OBVIOUS
  <1>3. C(0) <=> p[1] # m
    BY <1>1
  <1>4. C(1) <=> p[1] = m
    <2>1. SubSeq(p, 1, 1) = <<p[1]>> /\ SubSeq(<<m>>, 1, 1) = <<m>>
      BY OneElement
    <2> QED
      BY <1>1, <2>1
  <1>5. Relative(p, <<m>>) = [i \in 1 .. Len(<<m>>) - common |-> ".."] \o SubSeq(p, common + 1, Len(p))
    BY DEF Relative
  <1> HIDE DEF C
  <1>6. common = IF p[1] = m THEN 1 ELSE 0
    BY <1>2, <1>3, <1>4
  <1> HIDE DEF common
  <1>7. CASE p[1] = m
    <2>1. [i \in 1 .. Len(<<m>>) - common |-> ".."] = <<>>
      <3>1. 1 .. Len(<<m>>) - common = {}
        BY <1>6, <1>7
      <3> QED
        BY <3>1
    <2>2. SubSeq(p, common + 1, Len(p)) = Tail(p)
      BY <1>1, <1>6, <1>7
    <2>3. IsPath(Tail(p))
      BY <1>1, HeadTailProperties, PathIs DEF IsPath
    <2> QED
      BY <1>5, <1>7, <2>1, <2>2, <2>3, ConcatEmptySeq DEF IsPath
  <1>8. CASE p[1] # m
    <2>1. [i \in 1 .. Len(<<m>>) - common |-> ".."] = <<"..">>
      <3>1. 1 .. Len(<<m>>) - common = 1 .. 1
        BY <1>6, <1>8
      <3> QED
        BY <3>1
    <2>2. SubSeq(p, common + 1, Len(p)) = p
      BY <1>1, <1>6, <1>8
    <2> QED
      BY <1>5, <1>8, <2>1, <2>2
  <1> QED
    BY <1>7, <1>8

Found(p) == {i \in DOMAIN mounts : OccursIn(mounts[i].point, p)}
IsBest(k, p) == \A j \in Found(p) \ {k} : ~Longer(j, k) /\ (j < k => Longer(k, j))

LEMMA BestIs ==
    ASSUME NEW p, NEW k \in Found(p), IsBest(k, p), DOMAIN mounts \subseteq Nat \ {0}
    PROVE  BestMount(p) = k
  <1>1. Found(p) \subseteq Nat \ {0} /\ Found(p) # {}
    BY DEF Found
  <1>2. BestMount(p) = CHOOSE i \in Found(p) : IsBest(i, p)
    BY <1>1 DEF BestMount, Found, IsBest
  <1>3. \A i \in Found(p) : IsBest(i, p) => i = k
    <2> SUFFICES ASSUME NEW i \in Found(p), IsBest(i, p), i # k PROVE FALSE
      OBVIOUS
    <2>1. ~Longer(i, k) /\ (i < k => Longer(k, i))
      BY DEF IsBest
    <2>2. ~Longer(k, i) /\ (k < i => Longer(i, k))
      BY DEF IsBest
    <2>3. i < k \/ k < i
      BY <1>1
    <2> QED
      BY <2>1, <2>2, <2>3
  <1> HIDE DEF Found, IsBest
  <1> QED
    BY <1>2, <1>3

LEMMA MountFacts ==
    /\ R.point = <<>> /\ M.point = <<"rom">> /\ D.point = <<"dev">> /\ A.point = <<"bin">>
    /\ R.fs = "RamFs" /\ M.fs = "RomFS" /\ D.fs = "DevFs" /\ A.fs = "AppFs"
    /\ TextLength(R.point) = 1 /\ TextLength(M.point) = 4
    /\ TextLength(D.point) = 4 /\ TextLength(A.point) = 4
  <1>1. <<"rom">> # <<>> /\ <<"dev">> # <<>> /\ <<"bin">> # <<>>
    OBVIOUS
  <1>2. Len(<<"rom">>) = 1 /\ Len(<<"dev">>) = 1 /\ Len(<<"bin">>) = 1
    OBVIOUS
  <1> QED
    BY <1>1, <1>2 DEF R, M, D, A, MountAt, TextLength

LEMMA PointsFound ==
    ASSUME NEW p, IsPath(p)
    PROVE  /\ OccursIn(R.point, p) /\ (OccursIn(M.point, p) <=> Occurs("rom", p))
           /\ (OccursIn(D.point, p) <=> Occurs("dev", p)) /\ (OccursIn(A.point, p) <=> Occurs("bin", p))
  <1>1. OccursIn(R.point, p)
    BY MountFacts DEF OccursIn
  <1> QED
    BY <1>1, OccursIs, MountFacts

LEMMA BestOfOne ==
    ASSUME NEW p, IsPath(p), mounts = <<R>>
    PROVE  BestMount(p) = 1
  <1>1. DOMAIN mounts = {1} /\ mounts[1] = R
    OBVIOUS
  <1>2. Found(p) = {1}
    BY <1>1, PointsFound DEF Found
  <1> QED
    BY <1>1, <1>2, BestIs DEF IsBest

LEMMA BestOfTwo ==
    ASSUME NEW p, IsPath(p), mounts = <<R, M>>
    PROVE  BestMount(p) = IF Occurs("rom", p) THEN 2 ELSE 1
  <1>1. DOMAIN mounts = {1, 2} /\ mounts[1] = R /\ mounts[2] = M
    OBVIOUS
  <1>2. \A i : i \in Found(p) <=> i = 1 \/ (i = 2 /\ Occurs("rom", p))
    BY <1>1, PointsFound DEF Found
  <1>3. Longer(2, 1) /\ ~Longer(1, 2)
    BY <1>1, MountFacts DEF Longer
  <1>4. CASE Occurs("rom", p)
    <2>1. 2 \in Found(p) /\ IsBest(2, p)
      BY <1>2, <1>3, <1>4 DEF IsBest
    <2> QED
      BY <1>1, <1>4, <2>1, BestIs
  <1>5. CASE ~Occurs("rom", p)
    <2>1. 1 \in Found(p) /\ IsBest(1, p)
      BY <1>2, <1>3, <1>5 DEF IsBest
    <2> QED
      BY <1>1, <1>5, <2>1, BestIs
  <1> QED
    BY <1>4, <1>5

LEMMA BestOfThree ==
    ASSUME NEW p, IsPath(p), mounts = <<R, D, A>>
    PROVE  BestMount(p) = IF Occurs("dev", p) THEN 2 ELSE IF Occurs("bin", p) THEN 3 ELSE 1
  <1>1. DOMAIN mounts = {1, 2, 3} /\ mounts[1] = R /\ mounts[2] = D /\ mounts[3] = A
    OBVIOUS
  <1>2. \A i : i \in Found(p) <=> i = 1 \/ (i = 2 /\ Occurs("dev", p)) \/ (i = 3 /\ Occurs("bin", p))
    BY <1>1, PointsFound DEF Found
  <1>3. \A i, j \in {1, 2, 3} : Longer(i, j) <=> i # 1 /\ j = 1
    BY <1>1, MountFacts DEF Longer
  <1>4. CASE Occurs("dev", p)
    <2>1. 2 \in Found(p) /\ IsBest(2, p)
      BY <1>2, <1>3, <1>4 DEF IsBest
    <2> QED
      BY <1>1, <1>4, <2>1, BestIs
  <1>5. CASE ~Occurs("dev", p) /\ Occurs("bin", p)
    <2>1. 3 \in Found(p) /\ IsBest(3, p)
      BY <1>2, <1>3, <1>5 DEF IsBest
    <2> QED
      BY <1>1, <1>5, <2>1, BestIs
  <1>6. CASE ~Occurs("dev", p) /\ ~Occurs("bin", p)
    <2>1. 1 \in Found(p) /\ IsBest(1, p)
      BY <1>2, <1>3, <1>6 DEF IsBest
    <2> QED
      BY <1>1, <1>6, <2>1, BestIs
  <1> QED
    BY <1>4, <1>5, <1>6

LEMMA BestOfFour ==
    ASSUME NEW p, IsPath(p), mounts = <<R, M, D, A>>
    PROVE  BestMount(p) = IF Occurs("rom", p) THEN 2 ELSE IF Occurs("dev", p) THEN 3
                          ELSE IF Occurs("bin", p) THEN 4 ELSE 1
  <1>1. DOMAIN mounts = {1, 2, 3, 4} /\ mounts[1] = R /\ mounts[2] = M /\ mounts[3] = D /\ mounts[4] = A
    OBVIOUS
  <1>2. \A i : i \in Found(p) <=> i = 1 \/ (i = 2 /\ Occurs("rom", p)) \/ (i = 3 /\ Occurs("dev", p))
                                   \/ (i = 4 /\ Occurs("bin", p))
    BY <1>1, PointsFound DEF Found
  <1>3. \A i, j \in {1, 2, 3, 4} : Longer(i, j) <=> i # 1 /\ j = 1
    BY <1>1, MountFacts, SMTT(60) DEF Longer
  <1>4. CASE Occurs("rom", p)
    <2>1. 2 \in Found(p) /\ IsBest(2, p)
      BY <1>2, <1>3, <1>4 DEF IsBest
    <2> QED
      BY <1>1, <1>4, <2>1, BestIs
  <1>5. CASE ~Occurs("rom", p) /\ Occurs("dev", p)
    <2>1. 3 \in Found(p) /\ IsBest(3, p)
      BY <1>2, <1>3, <1>5 DEF IsBest
    <2> QED
      BY <1>1, <1>5, <2>1, BestIs
  <1>6. CASE ~Occurs("rom", p) /\ ~Occurs("dev", p) /\ Occurs("bin", p)
    <2>1. 4 \in Found(p) /\ IsBest(4, p)
      BY <1>2, <1>3, <1>6 DEF IsBest
    <2> QED
      BY <1>1, <1>6, <2>1, BestIs
  <1>7. CASE ~Occurs("rom", p) /\ ~Occurs("dev", p) /\ ~Occurs("bin", p)
    <2>1. 1 \in Found(p) /\ IsBest(1, p)
      BY <1>2, <1>3, <1>7 DEF IsBest
    <2> QED
      BY <1>1, <1>7, <2>1, BestIs
  <1> QED
    BY <1>4, <1>5, <1>6, <1>7

(* The mount point that a path is given to.                                 *)
Goes(p, m) == BestMount(p) # 0 /\ mounts[BestMount(p)] = m

LEMMA WhereItGoes ==
    ASSUME NEW p, IsPath(p), MountsInv, mounts # <<>>
    PROVE  /\ WithRom /\ Occurs("rom", p) => Goes(p, M)
           /\ Booted /\ ~(WithRom /\ Occurs("rom", p)) /\ Occurs("dev", p) => Goes(p, D)
           /\ Booted /\ ~(WithRom /\ Occurs("rom", p)) /\ ~Occurs("dev", p) /\ Occurs("bin", p) => Goes(p, A)
           /\ ~(WithRom /\ Occurs("rom", p)) /\ ~(Booted /\ (Occurs("dev", p) \/ Occurs("bin", p))) => Goes(p, R)
  <1>1. CASE mounts = <<R>>
    <2>1. ~WithRom /\ ~Booted
      <3>1. Len(<<R>>) = 1 /\ Len(<<R, M>>) = 2 /\ Len(<<R, D, A>>) = 3 /\ Len(<<R, M, D, A>>) = 4
        OBVIOUS
      <3> QED
        BY <1>1, <3>1 DEF WithRom, Booted
    <2> QED
      BY <1>1, <2>1, BestOfOne DEF Goes
  <1>2. CASE mounts = <<R, M>>
    <2>1. WithRom /\ ~Booted
      <3>1. Len(<<R>>) = 1 /\ Len(<<R, M>>) = 2 /\ Len(<<R, D, A>>) = 3 /\ Len(<<R, M, D, A>>) = 4
        OBVIOUS
      <3> QED
        BY <1>2, <3>1 DEF WithRom, Booted
    <2> QED
      BY <1>2, <2>1, BestOfTwo DEF Goes
  <1>3. CASE mounts = <<R, D, A>>
    <2>1. ~WithRom /\ Booted
      <3>1. Len(<<R>>) = 1 /\ Len(<<R, M>>) = 2 /\ Len(<<R, D, A>>) = 3 /\ Len(<<R, M, D, A>>) = 4
        OBVIOUS
      <3> QED
        BY <1>3, <3>1 DEF WithRom, Booted
    <2> QED
      BY <1>3, <2>1, BestOfThree DEF Goes
  <1>4. CASE mounts = <<R, M, D, A>>
    <2>1. WithRom /\ Booted
      BY <1>4 DEF WithRom, Booted
    <2> QED
      BY <1>4, <2>1, BestOfFour DEF Goes
  <1> QED
    BY <1>1, <1>2, <1>3, <1>4 DEF MountsInv

(* Upwards from a mount point there is nothing, but for DeviceFs.           *)
LEMMA NothingAbove ==
    ASSUME NEW p, IsPath(p), p # <<>>
    PROVE  /\ RomGet(<<"..">> \o p) = "none" /\ AppGet(<<"..">> \o p) = "none"
           /\ DeviceGet(<<"..">> \o p) = IF Last(p) \in DeviceList THEN "device" ELSE "none"
           /\ RomList(<<"..">> \o p) = {}
  <1>1. PICK q : q = <<"..">> \o p
    OBVIOUS
  <1>2. q # <<>> /\ ".." \in Range(q) /\ Len(q) = Len(p) + 1 /\ Last(q) = Last(p)
    BY <1>1, OneNameBefore
  <1>3. q \notin DOMAIN Rom
    BY <1>2, NamespaceAssumption DEF IsNormal
  <1>4. q \notin {<<a>> : a \in AppList}
    <2>1. Len(p) \in Nat /\ Len(p) # 0
      BY PathLength
    <2>2. \A a : Len(<<a>>) = 1
      OBVIOUS
    <2> QED
      BY <1>2, <2>1, <2>2, SMTT(60)
  <1>5. RomGet(q) = "none" /\ AppGet(q) = "none" /\ RomList(q) = {}
    BY <1>2, <1>3, <1>4 DEF RomGet, AppGet, RomList, KindIn
  <1>6. DeviceGet(q) = IF Last(p) \in DeviceList THEN "device" ELSE "none"
    BY <1>2 DEF DeviceGet
  <1> QED
    BY <1>1, <1>5, <1>6

LEMMA GoesRom ==
    ASSUME NEW p, IsPath(p), p # <<>>, Goes(p, M)
    PROVE  /\ Get(p) = IF p[1] = "rom" THEN RomGet(Tail(p)) ELSE "none"
           /\ List(p) = IF p[1] = "rom" THEN RomList(Tail(p)) ELSE {}
  <1>1. Get(p) = RomGet(Relative(p, <<"rom">>)) /\ List(p) = RomList(Relative(p, <<"rom">>))
    BY MountFacts DEF Goes, Get, List, GetFrom, ListFrom
  <1>2. Relative(p, <<"rom">>) = IF p[1] = "rom" THEN Tail(p) ELSE <<"..">> \o p
    BY RelativeToMount
  <1> QED
    BY <1>1, <1>2, NothingAbove

LEMMA GoesDevices ==
    ASSUME NEW p, IsPath(p), p # <<>>, Goes(p, D)
    PROVE  /\ Get(p) = IF p[1] = "dev" THEN DeviceGet(Tail(p))
                       ELSE IF Last(p) \in DeviceList THEN "device" ELSE "none"
           /\ List(p) = DeviceList
  <1>1. Get(p) = DeviceGet(Relative(p, <<"dev">>)) /\ List(p) = DeviceList
    BY MountFacts DEF Goes, Get, List, GetFrom, ListFrom
  <1>2. Relative(p, <<"dev">>) = IF p[1] = "dev" THEN Tail(p) ELSE <<"..">> \o p
    BY RelativeToMount
  <1> QED
    BY <1>1, <1>2, NothingAbove

LEMMA GoesApps ==
    ASSUME NEW p, IsPath(p), p # <<>>, Goes(p, A)
    PROVE  /\ Get(p) = IF p[1] = "bin" THEN AppGet(Tail(p)) ELSE "none"
           /\ List(p) = AppList
  <1>1. Get(p) = AppGet(Relative(p, <<"bin">>)) /\ List(p) = AppList
    BY MountFacts DEF Goes, Get, List, GetFrom, ListFrom
  <1>2. Relative(p, <<"bin">>) = IF p[1] = "bin" THEN Tail(p) ELSE <<"..">> \o p
    BY RelativeToMount
  <1> QED
    BY <1>1, <1>2, NothingAbove

LEMMA GoesRam ==
    ASSUME NEW p, IsPath(p), Goes(p, R)
    PROVE  Get(p) = RamGet(p) /\ List(p) = RamList(p)
  <1>1. Get(p) = RamGet(Relative(p, <<>>)) /\ List(p) = RamList(Relative(p, <<>>))
    BY MountFacts DEF Goes, Get, List, GetFrom, ListFrom
  <1> QED
    BY <1>1, RelativeToRoot

(* What is mounted, each once.                                              *)
LEMMA MountsHave ==
    ASSUME MountsInv, mounts # <<>>
    PROVE  /\ \A i \in DOMAIN mounts : i \in Nat /\ mounts[i] \in {R, M, D, A}
           /\ \A i, j \in DOMAIN mounts : mounts[i] = mounts[j] => i = j
           /\ \E i \in DOMAIN mounts : mounts[i] = R
           /\ WithRom <=> \E i \in DOMAIN mounts : mounts[i] = M
           /\ Booted <=> \E i \in DOMAIN mounts : mounts[i] = D
           /\ Booted <=> \E i \in DOMAIN mounts : mounts[i] = A
  <1>1. R # M /\ R # D /\ R # A /\ M # D /\ M # A /\ D # A
    BY MountFacts
  <1>2. Len(<<R>>) = 1 /\ Len(<<R, M>>) = 2 /\ Len(<<R, D, A>>) = 3 /\ Len(<<R, M, D, A>>) = 4
    OBVIOUS
  <1>3. CASE mounts = <<R>>
    <2>1. DOMAIN mounts = {1} /\ mounts[1] = R
      BY <1>3
    <2>2. ~WithRom /\ ~Booted
      BY <1>2, <1>3 DEF WithRom, Booted
    <2> QED
      BY <1>1, <2>1, <2>2
  <1>4. CASE mounts = <<R, M>>
    <2>1. DOMAIN mounts = {1, 2} /\ mounts[1] = R /\ mounts[2] = M
      BY <1>4
    <2>2. WithRom /\ ~Booted
      BY <1>2, <1>4 DEF WithRom, Booted
    <2> QED
      BY <1>1, <2>1, <2>2
  <1>5. CASE mounts = <<R, D, A>>
    <2>1. DOMAIN mounts = {1, 2, 3} /\ mounts[1] = R /\ mounts[2] = D /\ mounts[3] = A
      BY <1>5
    <2>2. ~WithRom /\ Booted
      BY <1>2, <1>5 DEF WithRom, Booted
    <2> QED
      BY <1>1, <2>1, <2>2
  <1>6. CASE mounts = <<R, M, D, A>>
    <2>1. DOMAIN mounts = {1, 2, 3, 4} /\ mounts[1] = R /\ mounts[2] = M /\ mounts[3] = D /\ mounts[4] = A
      BY <1>6
    <2>2. WithRom /\ Booted
      BY <1>6 DEF WithRom, Booted
    <2> QED
      BY <1>1, <2>1, <2>2
  <1> QED
    BY <1>3, <1>4, <1>5, <1>6 DEF MountsInv

(* The mount point that a path goes through, or the root.                   *)
Owns(m, p) == p # <<>> /\ m.point = <<p[1]>>

LEMMA OwnersAre ==
    ASSUME NEW p, IsPath(p), MountsInv, mounts # <<>>
    PROVE  \A i \in DOMAIN mounts : i \in OwnersOf(p) <=> mounts[i] = R \/ Owns(mounts[i], p)
  <1>1. PICK n \in Nat : n = Len(p) /\ (p = <<>> <=> n = 0)
    BY PathLength
  <1>2. IsPrefix(<<>>, p)
    <2>1. SubSeq(p, 1, 0) = <<>> /\ SubSeq(<<>>, 1, 0) = <<>>
      BY SubSeqEmpty
    <2> QED
      BY <1>1, <2>1 DEF IsPrefix
  <1>3. ASSUME NEW m PROVE IsPrefix(<<m>>, p) <=> p # <<>> /\ <<m>> = <<p[1]>>
    <2>1. SubSeq(p, 1, 1) = <<p[1]>> /\ SubSeq(<<m>>, 1, 1) = <<m>> /\ Len(<<m>>) = 1
      BY OneElement
    <2> QED
      BY <1>1, <2>1 DEF IsPrefix
  <1> SUFFICES ASSUME NEW i \in DOMAIN mounts
               PROVE  i \in OwnersOf(p) <=> mounts[i] = R \/ Owns(mounts[i], p)
    OBVIOUS
  <1>4. mounts[i] \in {R, M, D, A}
    BY MountsHave
  <1>5. i \in OwnersOf(p) <=> IsPrefix(mounts[i].point, p)
    BY DEF OwnersOf
  <1>6. R # M /\ R # D /\ R # A
    BY MountFacts
  <1>7. <<"rom">> # <<>> /\ <<"dev">> # <<>> /\ <<"bin">> # <<>>
    OBVIOUS
  <1>8. CASE mounts[i] = R
    BY <1>2, <1>5, <1>8, MountFacts
  <1>9. CASE mounts[i] = M
    BY <1>3, <1>5, <1>6, <1>9, MountFacts DEF Owns
  <1>10. CASE mounts[i] = D
    BY <1>3, <1>5, <1>6, <1>10, MountFacts DEF Owns
  <1>11. CASE mounts[i] = A
    BY <1>3, <1>5, <1>6, <1>11, MountFacts DEF Owns
  <1> QED
    BY <1>4, <1>8, <1>9, <1>10, <1>11

LEMMA OwnerMeans ==
    ASSUME NEW p, IsPath(p), MountsInv, mounts # <<>>,
           NEW k \in DOMAIN mounts, Owns(mounts[k], p) \/ (mounts[k] = R /\ \A i \in DOMAIN mounts : ~Owns(mounts[i], p))
    PROVE  LET past == SubSeq(p, Len(mounts[k].point) + 1, Len(p))
           IN  Meaning(p) = IF mounts[k].fs = "DevFs" /\ Len(past) > 1 THEN "none" ELSE GetFrom(mounts[k].fs, past)
  <1>1. k \in OwnersOf(p)
    BY OwnersAre
  <1>2. \A i \in OwnersOf(p) : i \in DOMAIN mounts
    BY DEF OwnersOf
  <1>3. \A i \in DOMAIN mounts : Len(mounts[i].point) = IF mounts[i] = R THEN 0 ELSE 1
    <2>1. Len(<<>>) = 0 /\ Len(<<"rom">>) = 1 /\ Len(<<"dev">>) = 1 /\ Len(<<"bin">>) = 1
      OBVIOUS
    <2>2. \A i \in DOMAIN mounts : mounts[i] \in {R, M, D, A}
      BY MountsHave
    <2>3. R # M /\ R # D /\ R # A
      BY MountFacts
    <2> QED
      BY <2>1, <2>2, <2>3, MountFacts
  <1>4. \A i \in OwnersOf(p) : i # k => mounts[i] = R /\ mounts[k] # R
    <2> SUFFICES ASSUME NEW i \in OwnersOf(p), i # k PROVE mounts[i] = R /\ mounts[k] # R
      OBVIOUS
    <2>1. i \in DOMAIN mounts /\ mounts[i] # mounts[k]
      BY <1>2, MountsHave
    <2>2. mounts[i] = R \/ Owns(mounts[i], p)
      BY <2>1, OwnersAre
    <2>3. CASE Owns(mounts[k], p)
      <3>1. mounts[i] = R \/ mounts[i].point = mounts[k].point
        BY <2>2, <2>3 DEF Owns
      <3>2. mounts[i] \in {R, M, D, A} /\ mounts[k] \in {R, M, D, A}
        BY <2>1, MountsHave
      <3>3. <<"rom">> # <<"dev">> /\ <<"rom">> # <<"bin">> /\ <<"dev">> # <<"bin">>
            /\ <<"rom">> # <<>> /\ <<"dev">> # <<>> /\ <<"bin">> # <<>>
        OBVIOUS
      <3>4. \A a, b \in {R, M, D, A} : a.point = b.point => a = b
        BY <3>3, MountFacts
      <3> QED
        BY <2>1, <3>1, <3>2, <3>4
    <2>4. CASE mounts[k] = R /\ ~Owns(mounts[i], p)
      BY <2>1, <2>2, <2>4
    <2> QED
      BY <2>1, <2>3, <2>4
  <1> DEFINE Most(i) == \A j \in OwnersOf(p) : Len(mounts[j].point) <= Len(mounts[i].point)
  <1>5. Most(k)
    BY <1>2, <1>3, <1>4
  <1>6. \A i \in OwnersOf(p) : Most(i) => i = k
    BY <1>1, <1>2, <1>3, <1>4
  <1>7. OwnersOf(p) # {}
    BY <1>1
  <1> DEFINE it == CHOOSE i \in OwnersOf(p) : Most(i)
             past(i) == SubSeq(p, Len(mounts[i].point) + 1, Len(p))
  <1>8. Meaning(p) = IF OwnersOf(p) = {} THEN "none"
                     ELSE IF mounts[it].fs = "DevFs" /\ Len(past(it)) > 1 THEN "none"
                     ELSE GetFrom(mounts[it].fs, past(it))
    BY DEF Meaning
  <1> HIDE DEF Most
  <1>9. it = k
    BY <1>1, <1>5, <1>6
  <1> HIDE DEF it
  <1> QED
    BY <1>7, <1>8, <1>9

LEMMA MeaningIs ==
    ASSUME NEW p, IsPath(p), MountsInv, mounts # <<>>
    PROVE  /\ p # <<>> /\ p[1] = "rom" /\ WithRom => Meaning(p) = RomGet(Tail(p))
           /\ p # <<>> /\ p[1] = "dev" /\ Booted =>
                Meaning(p) = IF Len(Tail(p)) > 1 THEN "none" ELSE DeviceGet(Tail(p))
           /\ p # <<>> /\ p[1] = "bin" /\ Booted => Meaning(p) = AppGet(Tail(p))
           /\ p = <<>> \/ ~((p[1] = "rom" /\ WithRom) \/ (p[1] \in {"dev", "bin"} /\ Booted)) => Meaning(p) = RamGet(p)
  <1>1. Len(<<>>) + 1 = 1 /\ Len(<<"rom">>) + 1 = 2 /\ Len(<<"dev">>) + 1 = 2 /\ Len(<<"bin">>) + 1 = 2
    OBVIOUS
  <1>2. p # <<>> => Tail(p) = SubSeq(p, 2, Len(p))
    BY TailIsSubSeq DEF IsPath
  <1>3. SubSeq(p, 1, Len(p)) = p
    BY SubSeqFull DEF IsPath
  <1>4. \A m : Owns(m, p) <=> p # <<>> /\ m.point = <<p[1]>>
    BY DEF Owns
  <1>5. ASSUME p # <<>>, p[1] = "rom", WithRom PROVE Meaning(p) = RomGet(Tail(p))
    <2>1. PICK k \in DOMAIN mounts : mounts[k] = M
      BY <1>5, MountsHave
    <2>2. Owns(mounts[k], p)
      BY <1>4, <1>5, <2>1, MountFacts
    <2>3. Meaning(p) = GetFrom("RomFS", Tail(p))
      BY <1>1, <1>2, <1>5, <2>1, <2>2, OwnerMeans, MountFacts
    <2> QED
      BY <2>3 DEF GetFrom
  <1>6. ASSUME p # <<>>, p[1] = "dev", Booted
        PROVE  Meaning(p) = IF Len(Tail(p)) > 1 THEN "none" ELSE DeviceGet(Tail(p))
    <2>1. PICK k \in DOMAIN mounts : mounts[k] = D
      BY <1>6, MountsHave
    <2>2. Owns(mounts[k], p)
      BY <1>4, <1>6, <2>1, MountFacts
    <2>3. Meaning(p) = IF Len(Tail(p)) > 1 THEN "none" ELSE GetFrom("DevFs", Tail(p))
      BY <1>1, <1>2, <1>6, <2>1, <2>2, OwnerMeans, MountFacts
    <2> QED
      BY <2>3 DEF GetFrom
  <1>7. ASSUME p # <<>>, p[1] = "bin", Booted PROVE Meaning(p) = AppGet(Tail(p))
    <2>1. PICK k \in DOMAIN mounts : mounts[k] = A
      BY <1>7, MountsHave
    <2>2. Owns(mounts[k], p)
      BY <1>4, <1>7, <2>1, MountFacts
    <2>3. Meaning(p) = GetFrom("AppFs", Tail(p))
      BY <1>1, <1>2, <1>7, <2>1, <2>2, OwnerMeans, MountFacts
    <2> QED
      BY <2>3 DEF GetFrom
  <1>8. ASSUME p = <<>> \/ ~((p[1] = "rom" /\ WithRom) \/ (p[1] \in {"dev", "bin"} /\ Booted))
        PROVE  Meaning(p) = RamGet(p)
    <2>1. PICK k \in DOMAIN mounts : mounts[k] = R
      BY MountsHave
    <2>2. \A i \in DOMAIN mounts : ~Owns(mounts[i], p)
      <3> SUFFICES ASSUME NEW i \in DOMAIN mounts, Owns(mounts[i], p) PROVE FALSE
        OBVIOUS
      <3>1. p # <<>> /\ mounts[i].point = <<p[1]>> /\ mounts[i] \in {R, M, D, A}
        BY <1>4, MountsHave
      <3>2. \A x : <<x>> # <<>> /\ \A y : <<x>> = <<y>> => x = y
        OBVIOUS
      <3>3. mounts[i] # R
        BY <3>1, <3>2, MountFacts
      <3>4. CASE mounts[i] = M
        BY <1>8, <3>1, <3>2, <3>4, MountFacts, MountsHave
      <3>5. CASE mounts[i] = D
        BY <1>8, <3>1, <3>2, <3>5, MountFacts, MountsHave
      <3>6. CASE mounts[i] = A
        BY <1>8, <3>1, <3>2, <3>6, MountFacts, MountsHave
      <3> QED
        BY <3>1, <3>3, <3>4, <3>5, <3>6
    <2>3. Meaning(p) = GetFrom("RamFs", p)
      BY <1>1, <1>3, <2>1, <2>2, OwnerMeans, MountFacts
    <2> QED
      BY <2>3 DEF GetFrom
  <1> QED
    BY <1>5, <1>6, <1>7, <1>8

-----------------------------------------------------------------------------
(* What names lead to.                                                      *)

KernelDirectories == {<<"bin">>, <<"dev">>, <<"config">>, <<"rom">>}

(* RamFs has no say over a path with the name of another mount point in it. *)
Hidden(p) == (WithRom /\ Occurs("rom", p)) \/ (Booted /\ (Occurs("dev", p) \/ Occurs("bin", p)))

(* What the constructors and programs can have made.                        *)
RegistriesInv == DeviceList \subseteq Drivers /\ AppList \subseteq Apps

RamInv ==
    \A q \in DOMAIN ram :
        /\ IsPath(q) /\ ram[q] \in {"dir", "data"}
        /\ ram[q] = "dir" => q \in KernelDirectories
        /\ Hidden(q) => q \in {<<"rom">>, <<"dev">>, <<"bin">>}

NamesInv == MountsInv /\ mounts # <<>> /\ RegistriesInv /\ RamInv

(* The directories one can be in.                                           *)
InRam(d) == d = <<>> \/ (d \in KernelDirectories /\ d \in DOMAIN ram /\ ram[d] = "dir" /\ ~Hidden(d))
InRom(d) == WithRom /\ d # <<>> /\ d[1] = "rom" /\ RomGet(Tail(d)) = "dir"
InApps(d) == Booted /\ d = <<"bin">>
CanBeIn(d) == IsPath(d) /\ (InRam(d) \/ InRom(d) \/ InApps(d))

LEMMA KernelNames ==
    \A n \in {"rom", "dev", "bin", "config", "shell.cfg"} : \A m \in {"rom", "dev", "bin"} :
        StartsWith(n, m) <=> n = m
  BY NamespaceAssumption DEF StartsWith

LEMMA OneName ==
    ASSUME NEW w
    PROVE  /\ IsPath(<<w>>) /\ <<w>> # <<>> /\ Len(<<w>>) = 1 /\ <<w>>[1] = w /\ Tail(<<w>>) = <<>>
           /\ Last(<<w>>) = w /\ Front(<<w>>) = <<>> /\ Append(<<>>, w) = <<w>>
           /\ \A m : Occurs(m, <<w>>) <=> StartsWith(w, m)
  <1>1. <<w>> \in Seq({w}) /\ Len(<<w>>) = 1 /\ <<w>>[1] = w /\ <<w>> # <<>>
    OBVIOUS
  <1>2. Tail(<<w>>) = <<>>
    OBVIOUS
  <1>3. Front(<<w>>) = <<>>
    BY <1>1 DEF Front
  <1>4. 1 .. 1 = {1}
    OBVIOUS
  <1>5. IsPath(<<w>>)
    BY <1>1, PathIs
  <1>6. Append(<<>>, w) = <<w>>
    OBVIOUS
  <1>7. ASSUME NEW m PROVE Occurs(m, <<w>>) <=> StartsWith(w, m)
    BY <1>1, <1>4 DEF Occurs
  <1> QED
    BY <1>1, <1>2, <1>3, <1>5, <1>6, <1>7 DEF Last

LEMMA TwoNames ==
    ASSUME NEW m, NEW w
    PROVE  Append(<<m>>, w) = <<m, w>> /\ Tail(<<m, w>>) = <<w>>
  <1>1. PICK p : p = <<m, w>>
    OBVIOUS
  <1>2. p = Append(<<m>>, w) /\ Tail(p) = <<w>>
    BY <1>1
  <1> QED
    BY <1>1, <1>2

LEMMA NoName ==
    /\ IsPath(<<>>) /\ Len(<<>>) = 0 /\ \A m : ~Occurs(m, <<>>)
  <1>1. <<>> \in Seq({}) /\ Len(<<>>) = 0
    OBVIOUS
  <1>2. IsPath(<<>>)
    BY <1>1, PathIs
  <1>3. 1 .. 0 = {}
    OBVIOUS
  <1> QED
    BY <1>1, <1>2, <1>3 DEF Occurs

LEMMA OccursMore ==
    ASSUME NEW p, IsPath(p), NEW w
    PROVE  \A m : Occurs(m, Append(p, w)) <=> Occurs(m, p) \/ StartsWith(w, m)
  <1>1. PICK n, q : n \in Nat /\ n = Len(p) /\ q = Append(p, w)
    BY PathLength
  <1>2. Len(q) = n + 1 /\ q[n + 1] = w /\ \A i \in 1 .. n : q[i] = p[i]
    BY <1>1, OneNameMore
  <1>3. \A i : i \in 1 .. n + 1 <=> i \in 1 .. n \/ i = n + 1
    BY <1>1
  <1>4. ASSUME NEW m PROVE Occurs(m, q) <=> Occurs(m, p) \/ StartsWith(w, m)
    BY <1>1, <1>2, <1>3 DEF Occurs
  <1> QED
    BY <1>1, <1>4

LEMMA FirstOccurs ==
    ASSUME NEW p, IsPath(p), p # <<>>, NEW m, p[1] = m
    PROVE  Occurs(m, p)
  <1>1. Len(p) \in Nat /\ Len(p) # 0
    BY PathLength
  <1>2. 1 \in 1 .. Len(p)
    BY <1>1
  <1> QED
    BY <1>2 DEF Occurs, StartsWith

LEMMA TailIs ==
    ASSUME NEW p, IsPath(p), p # <<>>
    PROVE  /\ IsPath(Tail(p)) /\ Len(Tail(p)) = Len(p) - 1
           /\ \A i \in 1 .. Len(p) - 1 : Tail(p)[i] = p[i + 1]
  <1>1. PICK S : S = Range(p) /\ p \in Seq(S)
    BY DEF IsPath
  <1>2. Tail(p) \in Seq(S) /\ Len(Tail(p)) = Len(p) - 1 /\ \A i \in 1 .. Len(Tail(p)) : Tail(p)[i] = p[i + 1]
    BY <1>1, HeadTailProperties
  <1>3. IsPath(Tail(p))
    BY <1>2, PathIs
  <1> QED
    BY <1>2, <1>3

(* One name more after a path with some.                                    *)
LEMMA TailMore ==
    ASSUME NEW p, IsPath(p), p # <<>>, NEW w
    PROVE  Append(p, w)[1] = p[1] /\ Tail(Append(p, w)) = Append(Tail(p), w) /\ IsPath(Tail(p))
  <1>1. PICK n \in Nat \ {0} : n = Len(p)
    BY PathLength
  <1>2. PICK t, q, u, v : t = Tail(p) /\ q = Append(p, w) /\ u = Tail(q) /\ v = Append(t, w)
    OBVIOUS
  <1>3. IsPath(t) /\ Len(t) = n - 1 /\ \A i \in 1 .. n - 1 : t[i] = p[i + 1]
    BY <1>1, <1>2, TailIs
  <1>5. IsPath(q) /\ q # <<>> /\ Len(q) = n + 1 /\ q[n + 1] = w /\ \A i \in 1 .. n : q[i] = p[i]
    BY <1>1, <1>2, OneNameMore
  <1>6. IsPath(u) /\ Len(u) = n /\ \A i \in 1 .. n : u[i] = q[i + 1]
    <2>1. Len(q) - 1 = n
      BY <1>5
    <2>2. IsPath(u) /\ Len(u) = Len(q) - 1 /\ \A i \in 1 .. Len(q) - 1 : u[i] = q[i + 1]
      BY <1>2, <1>5, TailIs
    <2> QED
      BY <2>1, <2>2
  <1>7. IsPath(v) /\ Len(v) = n /\ v[n] = w /\ \A i \in 1 .. n - 1 : v[i] = t[i]
    <2>1. Len(t) + 1 = n
      BY <1>3
    <2>2. IsPath(v) /\ Len(v) = Len(t) + 1 /\ v[Len(t) + 1] = w /\ \A i \in 1 .. Len(t) : v[i] = t[i]
      BY <1>2, <1>3, OneNameMore
    <2> QED
      BY <1>3, <2>1, <2>2
  <1>8. \A i \in 1 .. n : u[i] = v[i]
    <2> SUFFICES ASSUME NEW i \in 1 .. n PROVE u[i] = v[i]
      OBVIOUS
    <2>1. CASE i = n
      BY <1>5, <1>6, <1>7, <2>1
    <2>2. CASE i # n
      <3>1. i \in 1 .. n - 1 /\ i + 1 \in 1 .. n
        BY <2>2
      <3> QED
        BY <1>3, <1>5, <1>6, <1>7, <3>1
    <2> QED
      BY <2>1, <2>2
  <1>9. u = v
    BY <1>6, <1>7, <1>8, PathLength
  <1>10. q[1] = p[1]
    <2>1. 1 \in 1 .. n
      OBVIOUS
    <2> QED
      BY <1>5, <2>1
  <1> QED
    BY <1>2, <1>3, <1>9, <1>10

(* A path of one name.                                                      *)
LEMMA OnlyName ==
    ASSUME NEW p, IsPath(p), p # <<>>, Tail(p) = <<>>
    PROVE  p = <<p[1]>>
  <1>1. PICK n \in Nat \ {0} : n = Len(p)
    BY PathLength
  <1>2. Len(Tail(p)) = n - 1
    BY <1>1, HeadTailProperties DEF IsPath
  <1>3. n = 1
    BY <1>2
  <1>4. p = [i \in 1 .. 1 |-> p[i]]
    BY <1>1, <1>3, PathLength
  <1> QED
    BY <1>4

(* No driver and no program has a name that a mount point's is part of.     *)
LEMMA NamesOwn ==
    ASSUME NamesAreApart, RegistriesInv
    PROVE  \A n : n \in DeviceList \/ n \in AppList => ~StartsWith(n, "rom") /\ ~StartsWith(n, "dev")
  BY DEF NamesAreApart, RegistriesInv

LEMMA TreeKinds ==
    ASSUME RamInv, NEW p
    PROVE  /\ RomGet(p) \in {"none", "dir", "data", "program"}
           /\ p \in DOMAIN Rom => RomGet(p) = Rom[p] /\ RomGet(p) # "none"
           /\ p \notin DOMAIN Rom => RomGet(p) = "none"
           /\ RamGet(p) \in {"none", "dir", "data"}
           /\ p # <<>> /\ p \in DOMAIN ram => RamGet(p) = ram[p] /\ RamGet(p) # "none"
           /\ p # <<>> /\ p \notin DOMAIN ram => RamGet(p) = "none"
           /\ DeviceGet(p) \in {"none", "device", "devices"}
           /\ AppGet(p) \in {"none", "app", "apps"}
  <1>1. RomGet(p) \in {"none", "dir", "data", "program"} /\ (p \in DOMAIN Rom => RomGet(p) = Rom[p] /\ RomGet(p) # "none")
        /\ (p \notin DOMAIN Rom => RomGet(p) = "none")
    BY NamespaceAssumption DEF RomGet, KindIn
  <1>2. RamGet(p) \in {"none", "dir", "data"}
    BY DEF RamGet, KindIn, RamInv
  <1>3. p # <<>> /\ p \in DOMAIN ram => RamGet(p) = ram[p] /\ RamGet(p) # "none"
    BY DEF RamGet, KindIn, RamInv
  <1>4. p # <<>> /\ p \notin DOMAIN ram => RamGet(p) = "none"
    BY DEF RamGet, KindIn
  <1>5. DeviceGet(p) \in {"none", "device", "devices"} /\ AppGet(p) \in {"none", "app", "apps"}
    BY DEF DeviceGet, AppGet
  <1> QED
    BY <1>1, <1>2, <1>3, <1>4, <1>5

(* A name joined to a directory of RamFs that no mount point hides.         *)
LEMMA RamNameMeans ==
    ASSUME NamesInv, NamesAreApart, NEW d, IsPath(d), InRam(d), NEW w
    PROVE  Get(Append(d, w)) = Meaning(Append(d, w))
  <1>1. PICK p : p = Append(d, w) /\ IsPath(p) /\ p # <<>> /\ Last(p) = w
    BY OneNameMore, ZenonT(60)
  <1>2. \A m : Occurs(m, p) <=> Occurs(m, d) \/ StartsWith(w, m)
    BY <1>1, OccursMore
  <1>3. MountsInv /\ mounts # <<>> /\ RegistriesInv /\ RamInv
    BY DEF NamesInv
  <1>4. w \in DeviceList => ~StartsWith(w, "rom") /\ ~StartsWith(w, "dev")
    BY <1>3, NamesOwn
  <1>5. CASE d = <<>>
    <2>1. p = <<w>> /\ p[1] = w /\ Tail(p) = <<>> /\ Len(Tail(p)) = 0 /\ ~\E m : Occurs(m, d)
      BY <1>1, <1>5, OneName, NoName
    <2>2. \A m : <<m>> = p => m = w
      BY <2>1
    <2>3. Hidden(p) /\ w \notin {"rom", "dev", "bin"} => RamGet(p) = "none"
      <3> SUFFICES ASSUME Hidden(p), w \notin {"rom", "dev", "bin"} PROVE RamGet(p) = "none"
        OBVIOUS
      <3>1. p \notin {<<"rom">>, <<"dev">>, <<"bin">>}
        BY <2>2
      <3>2. p \notin DOMAIN ram
        BY <1>3, <3>1 DEF RamInv
      <3> QED
        BY <1>1, <1>3, <3>2, TreeKinds
    <2>4. CASE WithRom /\ Occurs("rom", p)
      <3>1. Get(p) = IF w = "rom" THEN RomGet(Tail(p)) ELSE "none"
        BY <1>1, <1>3, <2>1, <2>4, WhereItGoes, GoesRom
      <3>2. w \notin {"dev", "bin"}
        BY <1>2, <2>1, <2>4, KernelNames
      <3>3. Meaning(p) = IF w = "rom" THEN RomGet(Tail(p)) ELSE RamGet(p)
        BY <1>1, <1>3, <2>1, <2>4, <3>2, MeaningIs
      <3> QED
        BY <1>1, <2>3, <2>4, <3>1, <3>2, <3>3 DEF Hidden
    <2>5. CASE ~(WithRom /\ Occurs("rom", p)) /\ Booted /\ Occurs("dev", p)
      <3>1. Get(p) = IF w = "dev" THEN DeviceGet(Tail(p)) ELSE IF w \in DeviceList THEN "device" ELSE "none"
        BY <1>1, <1>3, <2>1, <2>5, WhereItGoes, GoesDevices
      <3>2. StartsWith(w, "dev") /\ w \notin DeviceList /\ w # "bin" /\ w # "rom"
        BY <1>2, <1>4, <2>1, <2>5, KernelNames
      <3>3. Meaning(p) = IF w = "dev" THEN DeviceGet(Tail(p)) ELSE RamGet(p)
        <4>1. CASE w = "dev"
          <5>1. Meaning(p) = IF Len(Tail(p)) > 1 THEN "none" ELSE DeviceGet(Tail(p))
            BY <1>1, <1>3, <2>1, <2>5, <4>1, MeaningIs
          <5>2. ~(0 > 1)
            OBVIOUS
          <5> QED
            BY <2>1, <4>1, <5>1, <5>2
        <4>2. CASE w # "dev"
          BY <1>1, <1>3, <2>1, <2>5, <3>2, <4>2, MeaningIs
        <4> QED
          BY <4>1, <4>2
      <3> QED
        BY <1>1, <2>3, <2>5, <3>1, <3>2, <3>3 DEF Hidden
    <2>6. CASE ~(WithRom /\ Occurs("rom", p)) /\ Booted /\ ~Occurs("dev", p) /\ Occurs("bin", p)
      <3>1. Get(p) = IF w = "bin" THEN AppGet(Tail(p)) ELSE "none"
        BY <1>1, <1>3, <2>1, <2>6, WhereItGoes, GoesApps
      <3>2. w # "dev" /\ w # "rom"
        BY <1>2, <2>1, <2>6, KernelNames
      <3>3. Meaning(p) = IF w = "bin" THEN AppGet(Tail(p)) ELSE RamGet(p)
        BY <1>1, <1>3, <2>1, <2>6, <3>2, MeaningIs
      <3> QED
        BY <1>1, <2>3, <2>6, <3>1, <3>2, <3>3 DEF Hidden
    <2>7. CASE ~Hidden(p)
      <3>1. Get(p) = RamGet(p)
        BY <1>1, <1>3, <2>7, WhereItGoes, GoesRam DEF Hidden
      <3>2. ~((w = "rom" /\ WithRom) \/ (w \in {"dev", "bin"} /\ Booted))
        BY <1>2, <2>7 DEF Hidden, StartsWith
      <3>3. Meaning(p) = RamGet(p)
        BY <1>1, <1>3, <2>1, <3>2, MeaningIs
      <3> QED
        BY <1>1, <3>1, <3>3
    <2> QED
      BY <2>4, <2>5, <2>6, <2>7 DEF Hidden
  <1>6. CASE d # <<>>
    <2>1. d \in KernelDirectories /\ ~Hidden(d)
      BY <1>6 DEF InRam
    <2>2. PICK x \in {"bin", "dev", "config", "rom"} : d = <<x>>
      BY <2>1 DEF KernelDirectories
    <2>3. p[1] = x /\ Len(p) = 2
      <3>1. d # <<>> /\ d[1] = x /\ Len(d) = 1
        BY <2>2, OneName
      <3>2. p[1] = x
        BY <1>1, <3>1, TailMore
      <3>3. Len(p) = 1 + 1
        BY <1>1, <3>1, OneNameMore
      <3> QED
        BY <3>2, <3>3
    <2>4. ~((x = "rom" /\ WithRom) \/ (x \in {"dev", "bin"} /\ Booted))
      BY <2>1, <2>2, OneName DEF Hidden, StartsWith
    <2>5. Meaning(p) = RamGet(p)
      BY <1>1, <1>3, <2>3, <2>4, MeaningIs
    <2>6. Hidden(p) => RamGet(p) = "none"
      <3>1. \A m : Len(<<m>>) = 1
        OBVIOUS
      <3>2. p \notin {<<"rom">>, <<"dev">>, <<"bin">>}
        BY <2>3, <3>1
      <3> QED
        BY <1>1, <1>3, <3>2, TreeKinds DEF RamInv
    <2>7. CASE WithRom /\ Occurs("rom", p)
      <3>1. Get(p) = "none"
        BY <1>1, <1>3, <2>3, <2>4, <2>7, WhereItGoes, GoesRom
      <3> QED
        BY <1>1, <2>5, <2>6, <2>7, <3>1 DEF Hidden
    <2>8. CASE ~(WithRom /\ Occurs("rom", p)) /\ Booted /\ Occurs("dev", p)
      <3>1. ~Occurs("dev", d)
        BY <2>1, <2>8 DEF Hidden
      <3>2. w \notin DeviceList
        BY <1>2, <1>4, <2>8, <3>1
      <3>3. Get(p) = "none"
        BY <1>1, <1>3, <2>3, <2>4, <2>8, <3>2, WhereItGoes, GoesDevices
      <3> QED
        BY <1>1, <2>5, <2>6, <2>8, <3>3 DEF Hidden
    <2>9. CASE ~(WithRom /\ Occurs("rom", p)) /\ Booted /\ ~Occurs("dev", p) /\ Occurs("bin", p)
      <3>1. Get(p) = "none"
        BY <1>1, <1>3, <2>3, <2>4, <2>9, WhereItGoes, GoesApps
      <3> QED
        BY <1>1, <2>5, <2>6, <2>9, <3>1 DEF Hidden
    <2>10. CASE ~Hidden(p)
      <3>1. Get(p) = RamGet(p)
        BY <1>1, <1>3, <2>10, WhereItGoes, GoesRam DEF Hidden
      <3> QED
        BY <1>1, <2>5, <3>1
    <2> QED
      BY <2>7, <2>8, <2>9, <2>10 DEF Hidden
  <1> QED
    BY <1>5, <1>6

(* In the ROM image, whatever the names.                                    *)
LEMMA RomPathMeans ==
    ASSUME NamesInv, NEW p, IsPath(p), p # <<>>, p[1] = "rom", WithRom
    PROVE  Get(p) = RomGet(Tail(p)) /\ Meaning(p) = RomGet(Tail(p)) /\ List(p) = RomList(Tail(p))
  <1>1. Goes(p, M)
    BY FirstOccurs, WhereItGoes DEF NamesInv
  <1> QED
    BY <1>1, GoesRom, MeaningIs DEF NamesInv

(* Among the programs of the kernel image.                                  *)
LEMMA AppNameMeans ==
    ASSUME NamesInv, NamesAreApart, Booted, NEW w
    PROVE  /\ Get(<<"bin", w>>) = Meaning(<<"bin", w>>)
           /\ w \in AppList => Get(<<"bin", w>>) = "app"
  <1>1. PICK p : p = <<"bin", w>>
    OBVIOUS
  <1>2. p = Append(<<"bin">>, w)
    BY <1>1
  <1>3. IsPath(p) /\ p # <<>> /\ Last(p) = w
    BY <1>2, OneName, OneNameMore
  <1>4. p[1] = "bin" /\ Tail(p) = <<w>>
    BY <1>1
  <1>5. \A m : Occurs(m, p) <=> StartsWith("bin", m) \/ StartsWith(w, m)
    BY <1>2, OneName, OccursMore
  <1>6. MountsInv /\ mounts # <<>> /\ RegistriesInv /\ RamInv
    BY DEF NamesInv
  <1>7. Meaning(p) = AppGet(Tail(p))
    BY <1>3, <1>4, <1>6, MeaningIs
  <1>8. AppGet(<<w>>) = IF w \in AppList THEN "app" ELSE "none"
    <2>1. <<w>> # <<>> /\ \A a : <<w>> = <<a>> => w = a
      OBVIOUS
    <2> QED
      BY <2>1 DEF AppGet
  <1>9. w \in DeviceList \/ w \in AppList => ~StartsWith(w, "rom") /\ ~StartsWith(w, "dev")
    BY <1>6, NamesOwn
  <1>10. CASE WithRom /\ Occurs("rom", p)
    <2>1. Get(p) = "none"
      BY <1>3, <1>4, <1>6, <1>10, WhereItGoes, GoesRom
    <2>2. w \notin AppList
      BY <1>5, <1>9, <1>10, KernelNames
    <2> QED
      BY <1>1, <1>4, <1>7, <1>8, <2>1, <2>2
  <1>11. CASE ~(WithRom /\ Occurs("rom", p)) /\ Occurs("dev", p)
    <2>1. StartsWith(w, "dev")
      BY <1>5, <1>11, KernelNames
    <2>2. w \notin AppList /\ w \notin DeviceList
      BY <1>9, <2>1
    <2>3. Get(p) = "none"
      BY <1>3, <1>4, <1>6, <1>11, <2>2, WhereItGoes, GoesDevices
    <2> QED
      BY <1>1, <1>4, <1>7, <1>8, <2>2, <2>3
  <1>12. CASE ~(WithRom /\ Occurs("rom", p)) /\ ~Occurs("dev", p)
    <2>1. Occurs("bin", p)
      BY <1>3, <1>4, FirstOccurs
    <2>2. Get(p) = AppGet(Tail(p))
      BY <1>3, <1>4, <1>6, <1>12, <2>1, WhereItGoes, GoesApps
    <2> QED
      BY <1>1, <1>4, <1>7, <1>8, <2>2
  <1> QED
    BY <1>10, <1>11, <1>12

(* A name joined to any directory one can be in.                            *)
LEMMA NameMeans ==
    ASSUME NamesInv, NamesAreApart, NEW d, CanBeIn(d), NEW w
    PROVE  Get(Append(d, w)) = Meaning(Append(d, w))
  <1>1. CASE InRam(d)
    BY <1>1, RamNameMeans DEF CanBeIn
  <1>2. CASE InRom(d)
    <2>1. WithRom /\ d # <<>> /\ d[1] = "rom" /\ IsPath(d)
      BY <1>2 DEF InRom, CanBeIn
    <2>2. IsPath(Append(d, w)) /\ Append(d, w) # <<>> /\ Append(d, w)[1] = "rom"
      BY <2>1, OneNameMore, TailMore
    <2> QED
      BY <2>1, <2>2, RomPathMeans
  <1>3. CASE InApps(d)
    BY <1>3, TwoNames, AppNameMeans DEF InApps
  <1> QED
    BY <1>1, <1>2, <1>3 DEF CanBeIn

(* Such a directory is found, where it should be.                           *)
LEMMA DirectoryMeans ==
    ASSUME NamesInv, NEW d, CanBeIn(d)
    PROVE  /\ Get(d) = Meaning(d) /\ Get(d) \in {"dir", "apps"}
           /\ InRam(d) => List(d) = RamList(d)
           /\ InRom(d) => List(d) = RomList(Tail(d))
           /\ InApps(d) => List(d) = AppList
  <1>1. MountsInv /\ mounts # <<>> /\ RegistriesInv /\ RamInv /\ IsPath(d)
    BY DEF NamesInv, CanBeIn
  <1>2. ASSUME InRam(d) PROVE Get(d) = Meaning(d) /\ Get(d) = "dir" /\ List(d) = RamList(d)
    <2>1. ~Hidden(d)
      BY <1>2, NoName DEF InRam, Hidden
    <2>2. Goes(d, R)
      BY <1>1, <2>1, WhereItGoes DEF Hidden
    <2>3. Get(d) = RamGet(d) /\ List(d) = RamList(d)
      BY <1>1, <2>2, GoesRam
    <2>4. d = <<>> \/ ~((d[1] = "rom" /\ WithRom) \/ (d[1] \in {"dev", "bin"} /\ Booted))
      BY <1>1, <2>1, FirstOccurs DEF Hidden
    <2>5. Meaning(d) = RamGet(d)
      BY <1>1, <2>4, MeaningIs
    <2>6. RamGet(d) = "dir"
      BY <1>1, <1>2, TreeKinds DEF InRam, RamGet
    <2> QED
      BY <2>3, <2>5, <2>6
  <1>3. ASSUME InRom(d) PROVE Get(d) = Meaning(d) /\ Get(d) = "dir" /\ List(d) = RomList(Tail(d))
    <2>1. WithRom /\ d # <<>> /\ d[1] = "rom" /\ RomGet(Tail(d)) = "dir"
      BY <1>3 DEF InRom
    <2> QED
      BY <1>1, <2>1, RomPathMeans
  <1>4. ASSUME InApps(d) PROVE Get(d) = Meaning(d) /\ Get(d) = "apps" /\ List(d) = AppList
    <2>1. Booted /\ d = <<"bin">> /\ d # <<>> /\ d[1] = "bin" /\ Tail(d) = <<>>
      BY <1>4, OneName DEF InApps
    <2>2. ~Occurs("rom", d) /\ ~Occurs("dev", d) /\ Occurs("bin", d)
      BY <2>1, OneName, KernelNames
    <2>3. Goes(d, A)
      BY <1>1, <2>1, <2>2, WhereItGoes
    <2>4. Get(d) = AppGet(<<>>) /\ List(d) = AppList
      BY <1>1, <2>1, <2>3, GoesApps
    <2>5. Meaning(d) = AppGet(<<>>)
      BY <1>1, <2>1, MeaningIs
    <2>6. AppGet(<<>>) = "apps"
      BY DEF AppGet
    <2> QED
      BY <2>4, <2>5, <2>6
  <1> QED
    BY <1>2, <1>3, <1>4 DEF CanBeIn

(* One can go up from it.                                                   *)
LEMMA DirectoryAbove ==
    ASSUME NamesInv, NEW d, CanBeIn(d), d # <<>>
    PROVE  CanBeIn(Front(d))
  <1>0. CanBeIn(<<>>)
    BY NoName DEF CanBeIn, InRam
  <1>1. CASE Front(d) = <<>>
    BY <1>0, <1>1
  <1>2. CASE InRam(d) \/ InApps(d)
    BY <1>0, <1>2, OneName DEF InRam, InApps, KernelDirectories
  <1>3. CASE InRom(d) /\ Front(d) # <<>>
    <2>1. WithRom /\ d # <<>> /\ d[1] = "rom" /\ RomGet(Tail(d)) = "dir" /\ IsPath(d)
      BY <1>3 DEF InRom, CanBeIn
    <2>2. PICK f : f = Front(d) /\ IsPath(f) /\ Append(f, Last(d)) = d /\ f # <<>>
      BY <1>3, <2>1, OneNameLess
    <2>3. d[1] = f[1] /\ Tail(d) = Append(Tail(f), Last(d)) /\ IsPath(Tail(f))
      BY <2>2, TailMore
    <2>4. Front(Tail(d)) = Tail(f) /\ Tail(d) # <<>>
      BY <2>3, OneNameMore, ZenonT(60)
    <2>5. Tail(d) \in DOMAIN Rom
      BY <2>1 DEF RomGet, KindIn
    <2>6. Tail(f) \in DOMAIN Rom /\ Rom[Tail(f)] = "dir"
      BY <2>4, <2>5, NamespaceAssumption
    <2>7. RomGet(Tail(f)) = "dir"
      BY <2>6 DEF RomGet, KindIn
    <2>8. InRom(f)
      BY <2>1, <2>2, <2>3, <2>7 DEF InRom
    <2> QED
      BY <2>2, <2>8 DEF CanBeIn
  <1> QED
    BY <1>1, <1>2, <1>3 DEF CanBeIn

(* What chdir takes for a directory is one.                                 *)
LEMMA WhereOneGets ==
    ASSUME NamesInv, NEW p, IsPath(p), IsDirectory(Get(p))
    PROVE  CanBeIn(p)
  <1>1. MountsInv /\ mounts # <<>> /\ RegistriesInv /\ RamInv /\ Get(p) \in {"dir", "apps"}
    BY DEF NamesInv, IsDirectory
  <1>2. CASE p = <<>>
    BY <1>2, NoName DEF CanBeIn, InRam
  <1>3. CASE p # <<>> /\ WithRom /\ Occurs("rom", p)
    <2>1. Get(p) = IF p[1] = "rom" THEN RomGet(Tail(p)) ELSE "none"
      BY <1>1, <1>3, WhereItGoes, GoesRom
    <2>2. p[1] = "rom" /\ RomGet(Tail(p)) = "dir"
      BY <1>1, <2>1, TreeKinds
    <2> QED
      BY <1>3, <2>2 DEF CanBeIn, InRom
  <1>4. CASE p # <<>> /\ ~(WithRom /\ Occurs("rom", p)) /\ Booted /\ Occurs("dev", p)
    <2>1. Get(p) \in {"none", "device", "devices"}
      BY <1>1, <1>4, WhereItGoes, GoesDevices, TreeKinds
    <2> QED
      BY <1>1, <2>1
  <1>5. CASE p # <<>> /\ ~(WithRom /\ Occurs("rom", p)) /\ Booted /\ ~Occurs("dev", p) /\ Occurs("bin", p)
    <2>1. Get(p) = IF p[1] = "bin" THEN AppGet(Tail(p)) ELSE "none"
      BY <1>1, <1>5, WhereItGoes, GoesApps
    <2>2. p[1] = "bin" /\ AppGet(Tail(p)) \in {"dir", "apps"}
      BY <1>1, <2>1
    <2>3. Tail(p) = <<>>
      BY <2>2 DEF AppGet
    <2>4. p = <<"bin">>
      BY <1>5, <2>2, <2>3, OnlyName
    <2> QED
      BY <1>5, <2>4 DEF CanBeIn, InApps
  <1>6. CASE p # <<>> /\ ~Hidden(p)
    <2>1. Get(p) = RamGet(p)
      BY <1>1, <1>6, WhereItGoes, GoesRam DEF Hidden
    <2>2. p \in DOMAIN ram /\ ram[p] = "dir"
      BY <1>1, <1>6, <2>1, TreeKinds
    <2> QED
      BY <1>1, <1>6, <2>2 DEF CanBeIn, InRam, RamInv
  <1> QED
    BY <1>2, <1>3, <1>4, <1>5, <1>6 DEF Hidden

-----------------------------------------------------------------------------
(* What listings show.                                                      *)

(* Every directory is one that one can be in, or that of the devices.       *)
LEMMA DirectoriesAre ==
    ASSUME NamesInv, NEW d \in Directories
    PROVE  CanBeIn(d) \/ (Booted /\ d = <<"dev">>)
  <1>1. MountsInv /\ mounts # <<>> /\ RegistriesInv /\ RamInv
    BY DEF NamesInv
  <1>2. PICK i \in DOMAIN mounts : \E x \in TreePaths(mounts[i].fs) :
            d = mounts[i].point \o x /\ GetFrom(mounts[i].fs, x) \in {"dir", "apps", "devices"}
    BY DEF Directories
  <1>20. PICK x \in TreePaths(mounts[i].fs) :
            d = mounts[i].point \o x /\ GetFrom(mounts[i].fs, x) \in {"dir", "apps", "devices"}
    BY <1>2
  <1>3. mounts[i] \in {R, M, D, A}
    BY <1>1, MountsHave
  <1>4. CASE mounts[i] = R
    <2>1. x \in DOMAIN ram \union {<<>>} /\ RamGet(x) = "dir"
      BY <1>1, <1>20, <1>4, MountFacts, TreeKinds DEF TreePaths, GetFrom
    <2>2. IsPath(x)
      BY <1>1, <2>1, NoName DEF RamInv
    <2>3. d = x
      BY <1>20, <1>4, <2>2, MountFacts, ConcatEmptySeq DEF IsPath
    <2>4. CASE x = <<>> \/ ~Hidden(x)
      <3>1. x # <<>> => x \in KernelDirectories /\ x \in DOMAIN ram /\ ram[x] = "dir"
        BY <1>1, <2>1, TreeKinds DEF RamInv
      <3> QED
        BY <2>2, <2>3, <2>4, <3>1 DEF CanBeIn, InRam
    <2>5. CASE x # <<>> /\ Hidden(x)
      <3>1. x \in {<<"rom">>, <<"dev">>, <<"bin">>}
        BY <1>1, <2>1, <2>5 DEF RamInv
      <3>2. CASE x = <<"rom">>
        <4>1. WithRom
          BY <2>5, <3>2, OneName, KernelNames DEF Hidden
        <4>2. RomGet(<<>>) = "dir"
          BY NamespaceAssumption DEF RomGet, KindIn
        <4> QED
          BY <2>2, <2>3, <3>2, <4>1, <4>2, OneName DEF CanBeIn, InRom
      <3>3. CASE x = <<"dev">>
        BY <2>3, <2>5, <3>3, OneName, KernelNames DEF Hidden
      <3>4. CASE x = <<"bin">>
        <4>1. Booted
          BY <2>5, <3>4, OneName, KernelNames DEF Hidden
        <4> QED
          BY <2>2, <2>3, <3>4, <4>1 DEF CanBeIn, InApps
      <3> QED
        BY <3>1, <3>2, <3>3, <3>4
    <2> QED
      BY <2>4, <2>5
  <1>5. CASE mounts[i] = M
    <2>1. x \in DOMAIN Rom /\ RomGet(x) = "dir"
      BY <1>1, <1>20, <1>5, MountFacts, TreeKinds DEF TreePaths, GetFrom
    <2>2. IsPath(x)
      BY <2>1, NamespaceAssumption DEF IsNormal, IsPath
    <2>3. WithRom
      BY <1>1, <1>5, MountsHave
    <2>4. d = <<"rom">> \o x
      BY <1>20, <1>5, MountFacts
    <2> QED
      BY <2>1, <2>2, <2>3, <2>4, OneNameBefore DEF CanBeIn, InRom
  <1>6. CASE mounts[i] \in {D, A}
    <2>1. x = <<>> /\ Booted
      BY <1>1, <1>20, <1>6, MountFacts, MountsHave DEF TreePaths
    <2>2. d = mounts[i].point
      BY <1>20, <1>6, <2>1, MountFacts
    <2> QED
      BY <1>6, <2>1, <2>2, MountFacts, OneName DEF CanBeIn, InApps
  <1> QED
    BY <1>3, <1>4, <1>5, <1>6

LEMMA ListedLeads ==
    ASSUME NamesInv, NamesAreApart
    PROVE  NamesLead
  <1> SUFFICES ASSUME NEW d \in Directories, NEW n \in List(d)
               PROVE  Get(Append(d, n)) = Meaning(Append(d, n)) /\ Get(Append(d, n)) # "none"
    BY DEF NamesLead
  <1>1. MountsInv /\ mounts # <<>> /\ RegistriesInv /\ RamInv
    BY DEF NamesInv
  <1>2. ASSUME CanBeIn(d), InRam(d) PROVE Get(Append(d, n)) # "none"
    <2>1. n \in Children(ram, d)
      BY <1>2, DirectoryMeans DEF RamList
    <2>2. PICK q \in DOMAIN ram : q # <<>> /\ Front(q) = d /\ Last(q) = n
      BY <2>1 DEF Children
    <2>3. IsPath(q) /\ Append(d, n) = q
      BY <1>1, <2>2, OneNameLess DEF RamInv
    <2>4. CASE ~Hidden(q)
      <3>1. Get(q) = RamGet(q)
        BY <1>1, <2>3, <2>4, WhereItGoes, GoesRam DEF Hidden
      <3> QED
        BY <1>1, <2>2, <2>3, <3>1, TreeKinds
    <2>5. CASE Hidden(q) /\ q = <<"rom">>
      <3>1. WithRom
        BY <2>5, OneName, KernelNames DEF Hidden
      <3>2. RomGet(<<>>) = "dir"
        BY NamespaceAssumption DEF RomGet, KindIn
      <3>3. CanBeIn(q)
        BY <2>3, <2>5, <3>1, <3>2, OneName DEF CanBeIn, InRom
      <3> QED
        BY <2>3, <3>3, DirectoryMeans
    <2>6. CASE Hidden(q) /\ q = <<"bin">>
      <3>1. Booted
        BY <2>6, OneName, KernelNames DEF Hidden
      <3>2. CanBeIn(q)
        BY <2>3, <2>6, <3>1 DEF CanBeIn, InApps
      <3> QED
        BY <2>3, <3>2, DirectoryMeans
    <2>7. CASE Hidden(q) /\ q = <<"dev">>
      <3>1. Booted /\ ~Occurs("rom", q) /\ Occurs("dev", q) /\ q # <<>> /\ q[1] = "dev" /\ Tail(q) = <<>>
        BY <2>7, OneName, KernelNames DEF Hidden
      <3>2. Get(q) = DeviceGet(<<>>)
        BY <1>1, <2>3, <3>1, WhereItGoes, GoesDevices
      <3> QED
        BY <2>3, <3>2 DEF DeviceGet
    <2> QED
      BY <1>1, <2>4, <2>5, <2>6, <2>7 DEF RamInv
  <1>3. ASSUME CanBeIn(d), InRom(d) PROVE Get(Append(d, n)) # "none"
    <2>1. WithRom /\ d # <<>> /\ d[1] = "rom" /\ IsPath(d)
      BY <1>3 DEF InRom, CanBeIn
    <2>2. n \in Children(Rom, Tail(d))
      BY <1>3, DirectoryMeans DEF RomList
    <2>3. PICK q \in DOMAIN Rom : q # <<>> /\ Front(q) = Tail(d) /\ Last(q) = n
      BY <2>2 DEF Children
    <2>4. IsPath(q) /\ Append(Tail(d), n) = q
      BY <2>3, NamespaceAssumption, OneNameLess DEF IsNormal, IsPath
    <2>5. /\ IsPath(Append(d, n)) /\ Append(d, n) # <<>> /\ Append(d, n)[1] = "rom"
          /\ Tail(Append(d, n)) = q
      BY <2>1, <2>4, OneNameMore, TailMore
    <2>6. Get(Append(d, n)) = RomGet(q)
      BY <2>1, <2>5, RomPathMeans
    <2> QED
      BY <1>1, <2>6, TreeKinds
  <1>4. ASSUME CanBeIn(d), InApps(d) PROVE Get(Append(d, n)) # "none"
    <2>1. n \in AppList /\ Booted /\ d = <<"bin">>
      BY <1>4, DirectoryMeans DEF InApps
    <2> QED
      BY <2>1, TwoNames, AppNameMeans
  <1>5. ASSUME Booted, d = <<"dev">>
        PROVE  Get(Append(d, n)) = Meaning(Append(d, n)) /\ Get(Append(d, n)) # "none"
    <2>1. IsPath(d) /\ d # <<>> /\ d[1] = "dev" /\ ~Occurs("rom", d) /\ Occurs("dev", d)
      BY <1>5, OneName, KernelNames
    <2>2. Goes(d, D)
      BY <1>1, <1>5, <2>1, WhereItGoes
    <2>3. n \in DeviceList
      BY <2>1, <2>2, GoesDevices
    <2>4. ~StartsWith(n, "rom")
      BY <1>1, <2>3, NamesOwn
    <2>50. PICK p : p = Append(d, n)
      OBVIOUS
    <2>5. p = Append(d, n) /\ IsPath(p) /\ p # <<>> /\ Last(p) = n
      BY <2>1, <2>50, OneNameMore
    <2>60. ~Occurs("rom", p) /\ Occurs("dev", p)
      BY <2>1, <2>4, <2>5, OccursMore
    <2>61. p = <<"dev", n>>
      BY <1>5, <2>5, TwoNames
    <2>6. p[1] = "dev" /\ Tail(p) = <<n>> /\ ~Occurs("rom", p) /\ Occurs("dev", p)
      BY <2>60, <2>61, TwoNames
    <2>7. Goes(p, D)
      BY <1>1, <1>5, <2>5, <2>6, WhereItGoes
    <2>8. Get(p) = DeviceGet(<<n>>)
      BY <2>5, <2>6, <2>7, GoesDevices
    <2>9. Meaning(p) = DeviceGet(<<n>>)
      <3>1. Len(<<n>>) = 1 /\ ~(1 > 1)
        OBVIOUS
      <3>2. Meaning(p) = IF Len(<<n>>) > 1 THEN "none" ELSE DeviceGet(<<n>>)
        BY <1>1, <1>5, <2>5, <2>6, MeaningIs
      <3> QED
        BY <3>1, <3>2
    <2>10. DeviceGet(<<n>>) = "device"
      BY <2>3, OneName DEF DeviceGet
    <2> QED
      BY <2>5, <2>8, <2>9, <2>10
  <1>6. CanBeIn(d) => Get(Append(d, n)) = Meaning(Append(d, n))
    BY NameMeans
  <1> QED
    BY <1>2, <1>3, <1>4, <1>5, <1>6, DirectoriesAre DEF CanBeIn

-----------------------------------------------------------------------------
(* The inductive invariant.                                                 *)

(* Boot: what is mounted and what stands in RamFs so far.                   *)
KernelFiles == KernelDirectories \union {<<"config", "shell.cfg">>}

BootInv ==
    /\ MountsInv /\ RegistriesInv /\ RamInv /\ free \in Nat
    /\ phase \in {"constructors", "boot"} => mounts = <<>> /\ DOMAIN ram = {} /\ free = Descriptors
    /\ phase = "rom" => mounts = <<R>>
    /\ phase = "devices" => mounts \in {<<R>>, <<R, M>>}
    /\ phase \in {"rom", "devices"} => DOMAIN ram \subseteq KernelFiles
    /\ phase \notin {"constructors", "boot", "rom", "devices"} => Booted

(* The working directory is a directory.                                    *)
WhereInv ==
    /\ phase \in {"constructors", "boot", "rom", "devices"} => cwd = <<>>
    /\ phase \notin {"constructors", "boot"} => CanBeIn(cwd)

(* Where the words of a line begin.                                         *)
Words(l) == {i \in 1 .. Len(l) : l[i] # Space}

(* The line with a terminator behind each word that was cut off.            *)
Cut(l, marks) == [i \in 1 .. Len(l) |-> IF i - 1 \in marks /\ (\E j \in Words(l) : j > i) THEN Nul ELSE l[i]]

Increasing(a) == \A i, j \in DOMAIN a : i < j => a[i] < a[j]

(* What the splitter has done to a line: the words before r[1] have been    *)
(* cut off, all if r is empty.                                              *)
IsCut(l, a, b, r) ==
    /\ a \in Seq(Words(l)) /\ Increasing(a)
    /\ b = Cut(l, Range(a))
    /\ \/ r = <<1, 0>> /\ Range(a) = Words(l)
       \/ /\ r \in (Nat \ {0}) \X (1 .. Len(l)) /\ r[1] <= r[2]
          /\ Range(a) = {i \in Words(l) : i < r[1]}
          /\ r[1] - 1 \notin Words(l)
          /\ Words(l) \subseteq 1 .. r[2]
          /\ \E i \in Words(l) : r[1] <= i

CutInv == IsCut(line, argv, buffer, rest)

LineInv ==
    /\ phase \in {"constructors", "boot", "rom", "devices", "prompt"} => argv = <<>>
    /\ phase \in {"split", "search", "exec", "running"} => line \in Lines /\ ~Blank(line)
    /\ phase \in {"split", "search"} => ~IsAbsolute(WordsOf(line)[1])
    /\ phase \in {"split", "search", "exec", "running"} /\ ~IsAbsolute(WordsOf(line)[1]) => CutInv
    /\ phase \in {"search", "exec", "running"} /\ ~IsAbsolute(WordsOf(line)[1]) => rest = <<1, 0>>

(* What was looked for so far.                                              *)
TargetInv ==
    /\ phase = "search" => ~HasFile(Here(line)) \/ free = 0
    /\ phase \in {"exec", "running"} => target = Intended(line) \/ free = 0

PlaceInv == BootInv /\ WhereInv

ShellInv == PlaceInv /\ LineInv /\ TargetInv

LEMMA NamesAreInv ==
    ASSUME BootInv, phase \notin {"constructors", "boot"}
    PROVE  NamesInv
  <1>1. mounts # <<>>
    <2>1. Len(<<R>>) = 1 /\ Len(<<R, M>>) = 2 /\ Len(<<R, D, A>>) = 3 /\ Len(<<R, M, D, A>>) = 4 /\ Len(<<>>) = 0
      OBVIOUS
    <2>2. mounts \in {<<R>>, <<R, M>>, <<R, D, A>>, <<R, M, D, A>>}
      BY DEF BootInv, Booted
    <2> QED
      BY <2>1, <2>2
  <1> QED
    BY <1>1 DEF BootInv, NamesInv

LEMMA MeaningKept ==
    ASSUME mounts' = mounts, ram' = ram, drivers' = drivers, apps' = apps
    PROVE  \A p : HasFile(p)' <=> HasFile(p)
  BY DEF HasFile, Meaning, OwnersOf, GetFrom, RamGet, RomGet, DeviceGet, AppGet, DeviceList, AppList, KindIn

LEMMA InitInv ==
    ASSUME Init
    PROVE  ShellInv
  <1>1. BootInv
    <2>1. DeviceList = {} /\ AppList = {} /\ DOMAIN ram = {}
      BY DEF Init, NamespaceInit, DeviceList, AppList, Range
    <2>2. free \in Nat /\ free = Descriptors
      BY ShellAssumption DEF Init
    <2> QED
      BY <2>1, <2>2 DEF Init, NamespaceInit, BootInv, MountsInv, RegistriesInv, RamInv
  <1> QED
    BY <1>1 DEF Init, ShellInv, PlaceInv, WhereInv, LineInv, TargetInv

(* Nothing but the names and the phase.                                     *)
LEMMA WhereKept ==
    ASSUME mounts' = mounts, ram' = ram
    PROVE  \A d : CanBeIn(d)' <=> CanBeIn(d)
  BY DEF CanBeIn, InRam, InRom, InApps, Hidden, WithRom, Booted

-----------------------------------------------------------------------------
(* Boot and the names.                                                      *)

LEMMA KernelFilesShow ==
    \A q \in KernelFiles :
        IsPath(q) /\ \A m \in {"rom", "dev", "bin"} : Occurs(m, q) => q = <<m>>
  <1>1. ASSUME NEW x \in {"bin", "dev", "config", "rom"}
        PROVE  IsPath(<<x>>) /\ \A m \in {"rom", "dev", "bin"} : Occurs(m, <<x>>) => <<x>> = <<m>>
    BY <1>1, OneName, KernelNames
  <1>2. IsPath(<<"config", "shell.cfg">>)
        /\ \A m \in {"rom", "dev", "bin"} : ~Occurs(m, <<"config", "shell.cfg">>)
    <2>1. Append(<<"config">>, "shell.cfg") = <<"config", "shell.cfg">>
      BY TwoNames
    <2>2. IsPath(<<"config">>)
      BY OneName
    <2>3. IsPath(Append(<<"config">>, "shell.cfg"))
      BY <2>2, OneNameMore
    <2>4. ASSUME NEW m \in {"rom", "dev", "bin"} PROVE ~Occurs(m, Append(<<"config">>, "shell.cfg"))
      BY <2>2, OneName, OccursMore, KernelNames
    <2> QED
      BY <2>1, <2>3, <2>4
  <1> QED
    BY <1>1, <1>2 DEF KernelFiles, KernelDirectories

LEMMA QuietBoot ==
    ASSUME BootInv, UNCHANGED names, free' \in Nat,
           phase \notin {"constructors", "boot", "rom", "devices"},
           phase' \notin {"constructors", "boot", "rom", "devices"}
    PROVE  BootInv'
  <1>1. mounts' = mounts /\ ram' = ram /\ drivers' = drivers /\ apps' = apps
    BY DEF names, registries
  <1>2. MountsInv' /\ RegistriesInv' /\ Booted'
    BY <1>1 DEF BootInv, MountsInv, RegistriesInv, DeviceList, AppList, Booted
  <1>3. RamInv'
    BY <1>1 DEF BootInv, RamInv, Hidden, WithRom, Booted
  <1> QED
    BY <1>2, <1>3 DEF BootInv

LEMMA RegisteredAreKnown ==
    ASSUME RegistriesInv, Construct
    PROVE  RegistriesInv'
  <1> USE DEF RegistriesInv, DeviceList, AppList
  <1>1. ASSUME NEW s, NEW x
        PROVE  Range(Append(s, x)) \subseteq Range(s) \union {x}
    <2> QED
      BY DEF Range
  <1> QED
    BY <1>1 DEF Construct, RegisterDriver, AddDriver, RegisterExecutable

LEMMA ConstructBoot ==
    ASSUME PlaceInv, Construct
    PROVE  BootInv' /\ WhereInv'
  <1>1. /\ phase = "constructors" /\ phase' = phase /\ free' = free /\ cwd' = cwd
        /\ mounts' = mounts /\ ram' = ram
    BY DEF Construct, RegisterDriver, RegisterExecutable
  <1>2. RegistriesInv'
    BY RegisteredAreKnown DEF PlaceInv, BootInv
  <1>3. MountsInv' /\ RamInv' /\ free' \in Nat
    BY <1>1 DEF PlaceInv, BootInv, MountsInv, RamInv, Hidden, WithRom, Booted
  <1> QED
    BY <1>1, <1>2, <1>3 DEF PlaceInv, BootInv, WhereInv

LEMMA EnterMainBoot ==
    ASSUME PlaceInv, EnterMain
    PROVE  BootInv' /\ WhereInv'
  <1>1. /\ phase = "constructors" /\ phase' = "boot" /\ free' = free /\ cwd' = cwd
        /\ mounts' = mounts /\ ram' = ram /\ drivers' = drivers /\ apps' = apps
    BY DEF EnterMain, names, registries
  <1>2. MountsInv' /\ RamInv' /\ free' \in Nat /\ RegistriesInv'
    BY <1>1 DEF PlaceInv, BootInv, MountsInv, RamInv, Hidden, WithRom, Booted, RegistriesInv, DeviceList, AppList
  <1> QED
    BY <1>1, <1>2 DEF PlaceInv, BootInv, WhereInv

(* At the root one is always in a directory.                                *)
LEMMA AtTheRoot ==
    CanBeIn(<<>>)'
  BY NoName DEF CanBeIn, InRam

LEMMA MountRamBoot ==
    ASSUME PlaceInv, MountRam
    PROVE  BootInv' /\ WhereInv'
  <1>1. /\ phase = "boot" /\ phase' = "rom" /\ free' = free - 1 /\ cwd' = cwd
        /\ mounts' = <<R>> /\ drivers' = drivers /\ apps' = apps
    BY DEF MountRam, registries, R
  <1>2. DOMAIN ram' \subseteq KernelFiles
        /\ \A q \in DOMAIN ram' : ram'[q] \in {"dir", "data"} /\ (ram'[q] = "dir" => q \in KernelDirectories)
    <2>1. Len(<<"config", "shell.cfg">>) = 2 /\ Len(<<"bin">>) = 1 /\ Len(<<"dev">>) = 1 /\ Len(<<"config">>) = 1
      OBVIOUS
    <2> QED
      BY <2>1 DEF MountRam, KernelFiles, KernelDirectories
  <1>3. ~WithRom' /\ ~Booted' /\ MountsInv'
    <2>1. Len(<<R>>) = 1 /\ Len(<<R, M>>) = 2 /\ Len(<<R, D, A>>) = 3 /\ Len(<<R, M, D, A>>) = 4
      OBVIOUS
    <2> QED
      BY <1>1, <2>1 DEF WithRom, Booted, MountsInv
  <1>4. RamInv'
    BY <1>2, <1>3, KernelFilesShow DEF RamInv, Hidden
  <1>5. free' \in Nat
    BY <1>1, ShellAssumption DEF PlaceInv, BootInv
  <1>6. RegistriesInv'
    BY <1>1 DEF PlaceInv, BootInv, RegistriesInv, DeviceList, AppList
  <1>7. cwd' = <<>>
    BY <1>1 DEF PlaceInv, WhereInv
  <1> QED
    BY <1>1, <1>2, <1>3, <1>4, <1>5, <1>6, <1>7, AtTheRoot DEF BootInv, WhereInv

LEMMA MountRomBoot ==
    ASSUME PlaceInv, MountRom
    PROVE  BootInv' /\ WhereInv'
  <1>1. /\ phase = "rom" /\ phase' = "devices" /\ free' = free /\ cwd' = cwd
        /\ drivers' = drivers /\ apps' = apps /\ mounts = <<R>>
        /\ RamInv /\ DOMAIN ram \subseteq KernelFiles
    BY DEF MountRom, registries, PlaceInv, BootInv
  <1>2. mounts' \in {<<R>>, <<R, M>>}
    <2>1. Append(<<R>>, M) = <<R, M>>
      BY TwoNames
    <2> QED
      BY <1>1, <2>1 DEF MountRom, M, names
  <1>3. DOMAIN ram' \subseteq KernelFiles
        /\ \A q \in DOMAIN ram' : ram'[q] \in {"dir", "data"} /\ (ram'[q] = "dir" => q \in KernelDirectories)
    <2>1. CASE ram' = WithDirectories({<<"rom">>})
      BY <1>1, <2>1 DEF WithDirectories, RamInv, KernelFiles, KernelDirectories
    <2>2. CASE ram' = ram
      BY <1>1, <2>2 DEF RamInv
    <2> QED
      BY <2>1, <2>2 DEF MountRom, names
  <1>4. RamInv'
    BY <1>3, KernelFilesShow DEF RamInv, Hidden
  <1>5. MountsInv' /\ RegistriesInv'
    BY <1>1, <1>2 DEF MountsInv, PlaceInv, BootInv, RegistriesInv, DeviceList, AppList
  <1>6. cwd' = <<>> /\ free' \in Nat
    BY <1>1 DEF PlaceInv, WhereInv, BootInv
  <1> QED
    BY <1>1, <1>2, <1>3, <1>4, <1>5, <1>6, AtTheRoot DEF BootInv, WhereInv

LEMMA TwoBehind ==
    ASSUME NEW a, NEW b, NEW c, NEW d
    PROVE  <<a>> \o <<c, d>> = <<a, c, d>> /\ <<a, b>> \o <<c, d>> = <<a, b, c, d>>
  <1>1. PICK S : S = {a, b, c, d}
    OBVIOUS
  <1>2. /\ <<a>> \in Seq(S) /\ <<a, b>> \in Seq(S) /\ <<c, d>> \in Seq(S) /\ <<a, c, d>> \in Seq(S)
        /\ <<a, b, c, d>> \in Seq(S)
    BY <1>1
  <1>3. PICK p, q : p = <<a>> \o <<c, d>> /\ q = <<a, b>> \o <<c, d>>
    OBVIOUS
  <1>4. /\ p \in Seq(S) /\ Len(p) = 3 /\ p[1] = a /\ p[2] = c /\ p[3] = d
        /\ q \in Seq(S) /\ Len(q) = 4 /\ q[1] = a /\ q[2] = b /\ q[3] = c /\ q[4] = d
    BY <1>2, <1>3
  <1>5. p = [i \in 1 .. 3 |-> p[i]] /\ q = [i \in 1 .. 4 |-> q[i]]
    BY <1>4, PathIs, PathLength
  <1>6. p = <<a, c, d>>
    BY <1>4, <1>5
  <1>7. q = <<a, b, c, d>>
    BY <1>4, <1>5
  <1> QED
    BY <1>3, <1>6, <1>7

LEMMA MountDevicesBoot ==
    ASSUME PlaceInv, MountDevices
    PROVE  BootInv' /\ WhereInv'
  <1>1. /\ phase = "devices" /\ phase' = "prompt" /\ cwd' = cwd /\ ram' = ram
        /\ drivers' = drivers /\ apps' = apps /\ mounts \in {<<R>>, <<R, M>>}
        /\ RamInv /\ DOMAIN ram \subseteq KernelFiles /\ free \in Nat
    BY DEF MountDevices, StartShell, registries, PlaceInv, BootInv
  <1>2. mounts' \in {<<R, D, A>>, <<R, M, D, A>>}
    <2>1. <<R>> \o <<D, A>> = <<R, D, A>> /\ <<R, M>> \o <<D, A>> = <<R, M, D, A>>
      BY TwoBehind
    <2>2. mounts' = mounts \o <<D, A>>
      BY DEF MountDevices, D, A
    <2> QED
      BY <1>1, <2>1, <2>2
  <1>3. RamInv'
    BY <1>1, KernelFilesShow DEF RamInv, Hidden
  <1>4. MountsInv' /\ RegistriesInv' /\ Booted'
    BY <1>1, <1>2 DEF MountsInv, Booted, PlaceInv, BootInv, RegistriesInv, DeviceList, AppList
  <1>5. free' \in Nat
    BY <1>1 DEF MountDevices, StartShell
  <1>6. cwd' = <<>>
    BY <1>1 DEF PlaceInv, WhereInv
  <1> QED
    BY <1>1, <1>3, <1>4, <1>5, <1>6, AtTheRoot DEF BootInv, WhereInv

(* A file is created only where no mount point hides it.                    *)
LEMMA CreateKeeps ==
    ASSUME NamesInv, NEW path, IsPath(path), Create(path), mounts' = mounts
    PROVE  RamInv' /\ \A q \in DOMAIN ram : q \in DOMAIN ram' /\ ram'[q] = ram[q]
  <1>1. MountsInv /\ mounts # <<>> /\ RegistriesInv /\ RamInv
    BY DEF NamesInv
  <1>2. \A q : Hidden(q)' <=> Hidden(q)
    BY DEF Hidden, WithRom, Booted
  <1>3. CASE Hidden(path)
    <2>1. Goes(path, M) \/ Goes(path, D) \/ Goes(path, A)
      BY <1>1, <1>3, WhereItGoes DEF Hidden
    <2>2. mounts[BestMount(path)].fs # "RamFs"
      BY <2>1, MountFacts DEF Goes
    <2>3. ram' = ram
      BY <2>2 DEF Create
    <2> QED
      BY <1>1, <1>2, <2>3 DEF RamInv
  <1>4. CASE ~Hidden(path)
    <2>1. Goes(path, R)
      BY <1>1, <1>4, WhereItGoes DEF Hidden
    <2>2. ram' = RamCreate(Relative(path, <<>>))
      BY <2>1, MountFacts DEF Goes, Create
    <2>3. ram' = RamCreate(path)
      BY <2>2, RelativeToRoot
    <2>4. /\ DOMAIN ram' = DOMAIN ram \union {path}
          /\ \A q \in DOMAIN ram' : ram'[q] = IF q \in DOMAIN ram THEN ram[q] ELSE "data"
      BY <2>3 DEF RamCreate
    <2>5. \A q \in DOMAIN ram' : q \in DOMAIN ram \/ (q = path /\ ram'[q] = "data")
      BY <2>4
    <2>6. RamInv'
      <3> SUFFICES ASSUME NEW q \in DOMAIN ram'
                   PROVE  /\ IsPath(q) /\ ram'[q] \in {"dir", "data"}
                          /\ ram'[q] = "dir" => q \in KernelDirectories
                          /\ Hidden(q)' => q \in {<<"rom">>, <<"dev">>, <<"bin">>}
        BY DEF RamInv
      <3>1. CASE q \in DOMAIN ram
        BY <1>1, <1>2, <2>4, <3>1 DEF RamInv
      <3>2. CASE q = path /\ ram'[q] = "data"
        BY <1>2, <1>4, <3>2
      <3> QED
        BY <2>5, <3>1, <3>2
    <2> QED
      BY <2>4, <2>6
  <1> QED
    BY <1>3, <1>4

LEMMA OtherProgramBoot ==
    ASSUME PlaceInv, OtherProgram
    PROVE  BootInv' /\ WhereInv'
  <1>1. /\ phase = "running" /\ phase' = "prompt" /\ free' = free /\ cwd' = cwd
        /\ mounts' = mounts /\ drivers' = drivers /\ apps' = apps
    BY DEF OtherProgram, Returned, registries
  <1>2. NamesInv /\ RamInv /\ CanBeIn(cwd)
    BY <1>1, NamesAreInv DEF PlaceInv, WhereInv, BootInv
  <1>3. RamInv' /\ \A q \in DOMAIN ram : q \in DOMAIN ram' /\ ram'[q] = ram[q]
    <2>1. CASE ram' = ram
      <3>1. \A q : Hidden(q)' <=> Hidden(q)
        BY <1>1 DEF Hidden, WithRom, Booted
      <3> QED
        BY <1>2, <2>1, <3>1 DEF RamInv
    <2>2. CASE \E path \in Creatable : Create(path)
      <3>1. PICK path \in Creatable : Create(path)
        BY <2>2
      <3>2. IsPath(path)
        BY ShellAssumption DEF IsNormal, IsPath
      <3> QED
        BY <1>1, <1>2, <3>1, <3>2, CreateKeeps
    <2> QED
      BY <2>1, <2>2 DEF OtherProgram
  <1>4. Booted' /\ MountsInv' /\ RegistriesInv' /\ free' \in Nat
    BY <1>1 DEF PlaceInv, BootInv, MountsInv, Booted, RegistriesInv, DeviceList, AppList
  <1>5. CanBeIn(cwd)'
    <2>1. \A d : InRam(d) => InRam(d)'
      BY <1>1, <1>3 DEF InRam, Hidden, WithRom, Booted
    <2>2. \A d : (InRom(d) => InRom(d)') /\ (InApps(d) => InApps(d)')
      BY <1>1 DEF InRom, InApps, WithRom, Booted
    <2> QED
      BY <1>1, <1>2, <2>1, <2>2 DEF CanBeIn
  <1> QED
    BY <1>1, <1>3, <1>4, <1>5 DEF BootInv, WhereInv

(* Where a command or an argument leads is a path.                          *)
LEMMA JoinIsPath ==
    ASSUME NEW d, IsPath(d), NEW w
    PROVE  IsPath(Join(d, w))
  <1>1. CASE IsAbsolute(w)
    BY <1>1, ShellAssumption DEF Join, IsAbsolute, IsNormal, IsPath
  <1>2. CASE ~IsAbsolute(w) /\ w = ".." /\ d # <<>>
    BY <1>2, OneNameLess DEF Join
  <1>3. CASE ~IsAbsolute(w) /\ w = ".." /\ d = <<>>
    BY <1>3, NoName DEF Join
  <1>4. CASE ~IsAbsolute(w) /\ w # ".."
    BY <1>4, OneNameMore DEF Join
  <1> QED
    BY <1>1, <1>2, <1>3, <1>4

LEMMA CdBoot ==
    ASSUME PlaceInv, Cd
    PROVE  BootInv' /\ WhereInv'
  <1>1. /\ phase = "running" /\ phase' = "prompt" /\ free' = free /\ UNCHANGED names
        /\ mounts' = mounts /\ ram' = ram
        /\ (cwd' = cwd \/ (cwd' = ArgumentPath /\ IsDirectory(Get(ArgumentPath))))
    BY DEF Cd, Running, Returned, names
  <1>2. NamesInv /\ CanBeIn(cwd) /\ free \in Nat
    BY <1>1, NamesAreInv DEF PlaceInv, WhereInv, BootInv
  <1>3. BootInv'
    BY <1>1, <1>2, QuietBoot DEF PlaceInv
  <1>4. PICK d : d = cwd'
    OBVIOUS
  <1>5. CanBeIn(d)
    <2>1. IsPath(ArgumentPath)
      BY <1>2, JoinIsPath DEF ArgumentPath, CanBeIn
    <2> QED
      BY <1>1, <1>2, <1>4, <2>1, WhereOneGets
  <1>6. CanBeIn(d)'
    BY <1>1, <1>5, WhereKept
  <1>7. CanBeIn(cwd)'
    BY <1>4, <1>6 DEF CanBeIn, InRam, InRom, InApps
  <1> QED
    BY <1>1, <1>3, <1>7 DEF WhereInv

(* All the others leave names and directory alone.                          *)
LEMMA QuietWhere ==
    ASSUME PlaceInv, UNCHANGED <<names, cwd>>, free' \in Nat,
           phase \notin {"constructors", "boot", "rom", "devices"},
           phase' \notin {"constructors", "boot", "rom", "devices"}
    PROVE  BootInv' /\ WhereInv'
  <1>1. UNCHANGED names /\ cwd' = cwd /\ mounts' = mounts /\ ram' = ram
    BY DEF names
  <1>2. BootInv'
    BY <1>1, QuietBoot DEF PlaceInv
  <1>3. CanBeIn(cwd)
    BY DEF PlaceInv, WhereInv
  <1>4. CanBeIn(cwd)'
    BY <1>1, <1>3 DEF CanBeIn, InRam, InRom, InApps, Hidden, WithRom, Booted
  <1> QED
    BY <1>2, <1>4 DEF WhereInv

-----------------------------------------------------------------------------
(* The words of a line.                                                     *)

WordsSoFar(g, l) ==
    /\ g[0] = <<>>
    /\ \A n \in 1 .. Len(l) : g[n] = IF IsWord(l[n]) THEN Append(g[n - 1], l[n]) ELSE g[n - 1]

LEMMA WordsExist ==
    ASSUME NEW l, IsPath(l)
    PROVE  \E g : WordsSoFar(g, l) /\ WordsOf(l) = g[Len(l)]
  <1>0. PICK m \in Nat : m = Len(l)
    BY PathLength
  <1>1. PICK S : m = Len(l) /\ S = Seq(Range(l)) /\ <<>> \in S
    <2>1. <<>> \in Seq(Range(l))
      BY EmptySeq
    <2> QED
      BY <1>0, <2>1
  <1>2. \A i \in 1 .. m : l[i] \in Range(l)
    BY <1>1, PathLength
  <1> DEFINE Body(w, n) == IF n = 0 THEN <<>> ELSE IF IsWord(l[n]) THEN Append(w[n - 1], l[n]) ELSE w[n - 1]
             Def(w) == w = [n \in 0 .. Len(l) |-> Body(w, n)]
             it == CHOOSE w : Def(w)
             turn == [p \in Nat \X S |-> IF p[1] \in 1 .. m /\ IsWord(l[p[1]]) THEN Append(p[2], l[p[1]]) ELSE p[2]]
  <1>3. PICK g \in [0 .. m -> S] : Iterated(g, m, <<>>, turn)
    <2>1. turn \in [Nat \X S -> S]
      <3>1. \A p \in Nat \X S : p[1] \in 1 .. m => Append(p[2], l[p[1]]) \in S
        BY <1>1, <1>2, AppendProperties
      <3> QED
        BY <3>1
    <2> HIDE DEF turn
    <2> QED
      BY <1>1, <2>1, Iterates
  <1>4. ASSUME NEW n \in 1 .. m
        PROVE  g[n] = IF IsWord(l[n]) THEN Append(g[n - 1], l[n]) ELSE g[n - 1]
    <2>1. g[n] = turn[<<n, g[n - 1]>>]
      <3> HIDE DEF turn
      <3> QED
        BY <1>3 DEF Iterated
    <2>2. n - 1 \in 0 .. m /\ n \in Nat
      OBVIOUS
    <2>3. <<n, g[n - 1]>> \in Nat \X S
      BY <2>2
    <2> QED
      BY <2>1, <2>3
  <1>5. g[0] = <<>>
    BY <1>3 DEF Iterated
  <1>6. Def(g)
    <2>1. \A n \in 0 .. m : g[n] = Body(g, n)
      BY <1>4, <1>5
    <2>2. g = [n \in 0 .. m |-> g[n]]
      OBVIOUS
    <2> HIDE DEF Body
    <2> QED
      BY <1>1, <2>1, <2>2
  <1>7. Def(it)
    <2> HIDE DEF Def
    <2> QED
      BY <1>6
  <1>8. WordsOf(l) = it[Len(l)]
    BY DEF WordsOf
  <1>9. WordsSoFar(it, l)
    <2>0. PICK h : h = it
      BY SMTT(60)
    <2>1. h = [n \in 0 .. m |-> Body(h, n)]
      BY <1>1, <1>7, <2>0
    <2>2. \A n \in 0 .. m : h[n] = Body(h, n)
      <3> HIDE DEF Body
      <3> QED
        BY <2>1
    <2>3. h[0] = <<>>
      BY <2>2
    <2>4. \A n \in 1 .. m : n \in 0 .. m /\ n # 0
      OBVIOUS
    <2>5. \A n \in 1 .. m : h[n] = IF IsWord(l[n]) THEN Append(h[n - 1], l[n]) ELSE h[n - 1]
      BY <2>2, <2>4
    <2> HIDE DEF it
    <2> QED
      BY <1>1, <2>0, <2>3, <2>5 DEF WordsSoFar
  <1> HIDE DEF it
  <1> QED
    BY <1>8, <1>9

(* They are those at the positions where a word begins, in order.           *)
WordsAt(l) == {i \in 1 .. Len(l) : IsWord(l[i])}

LEMMA WordsListed ==
    ASSUME NEW l, IsPath(l), NEW a \in Seq(Nat), Increasing(a),
           Range(a) = WordsAt(l)
    PROVE  WordsOf(l) = [k \in 1 .. Len(a) |-> l[a[k]]]
  <1>1. PICK g : WordsSoFar(g, l) /\ WordsOf(l) = g[Len(l)]
    BY WordsExist
  <1>2. PICK m \in Nat : m = Len(l)
    BY PathLength
  <1>3. PICK c \in Nat : c = Len(a) /\ DOMAIN a = 1 .. c /\ \A k \in 1 .. c : a[k] \in Nat
    BY LenProperties, ElementOfSeq
  <1>4. \A k \in 1 .. c : a[k] \in 1 .. m /\ IsWord(l[a[k]])
    BY <1>2, <1>3 DEF Range, WordsAt
  <1>5. \A i \in 1 .. m : IsWord(l[i]) => \E k \in 1 .. c : a[k] = i
    BY <1>2, <1>3 DEF Range, WordsAt
  <1>6. \A i, j \in 1 .. c : i < j => a[i] < a[j]
    BY <1>3 DEF Increasing
  <1> DEFINE Upto(n, b) == \A k \in 1 .. c : a[k] <= n <=> k <= b
             T == {n \in Nat : n <= m => \A b \in 0 .. c : Upto(n, b) => g[n] = [k \in 1 .. b |-> l[a[k]]]}
  <1>7. 0 \in T
    <2> SUFFICES ASSUME NEW b \in 0 .. c, Upto(0, b) PROVE g[0] = [k \in 1 .. b |-> l[a[k]]]
      OBVIOUS
    <2>1. b = 0
      <3> SUFFICES ASSUME b # 0 PROVE FALSE
        OBVIOUS
      <3>1. 1 \in 1 .. c /\ 1 <= b
        OBVIOUS
      <3>2. a[1] <= 0 /\ a[1] \in 1 .. m
        BY <1>4, <3>1
      <3> QED
        BY <3>2
    <2>2. [k \in 1 .. b |-> l[a[k]]] = <<>>
      <3>1. 1 .. b = {}
        BY <2>1
      <3> QED
        BY <3>1
    <2> QED
      BY <1>1, <2>2 DEF WordsSoFar
  <1>8. ASSUME NEW n \in Nat, n \in T PROVE n + 1 \in T
    <2> HIDE DEF Upto
    <2> SUFFICES ASSUME n + 1 <= m, NEW b \in 0 .. c, Upto(n + 1, b)
                 PROVE  g[n + 1] = [k \in 1 .. b |-> l[a[k]]]
      OBVIOUS
    <2> USE DEF Upto
    <2>1. n + 1 \in 1 .. m /\ (n + 1) - 1 = n /\ n <= m
      OBVIOUS
    <2>2. g[n + 1] = IF IsWord(l[n + 1]) THEN Append(g[n], l[n + 1]) ELSE g[n]
      BY <1>1, <1>2, <2>1 DEF WordsSoFar
    <2>3. CASE IsWord(l[n + 1])
      <3>1. PICK k \in 1 .. c : a[k] = n + 1
        BY <1>5, <2>1, <2>3
      <3>2. k <= b
        BY <3>1
      <3>3. k = b
        <4> SUFFICES ASSUME k < b PROVE FALSE
          BY <3>2
        <4>1. b \in 1 .. c /\ a[b] <= n + 1
          OBVIOUS
        <4>2. a[k] < a[b] /\ a[b] \in Nat
          BY <1>3, <1>6, <4>1
        <4> QED
          BY <3>1, <4>1, <4>2
      <3>4. Upto(n, b - 1)
        <4> SUFFICES ASSUME NEW j \in 1 .. c PROVE a[j] <= n <=> j <= b - 1
          OBVIOUS
        <4>1. a[j] <= n + 1 <=> j <= b
          OBVIOUS
        <4>2. a[j] \in Nat
          BY <1>3
        <4>3. j < b => a[j] < a[b]
          BY <1>6, <3>3
        <4>4. j = b => a[j] = n + 1
          BY <3>1, <3>3
        <4>5. a[b] = n + 1
          BY <3>1, <3>3
        <4> QED
          BY <4>1, <4>2, <4>3, <4>4, <4>5
      <3>5. b - 1 \in 0 .. c
        BY <3>3
      <3>6. g[n] = [j \in 1 .. b - 1 |-> l[a[j]]]
        <4> HIDE DEF Upto
        <4> QED
          BY <1>8, <2>1, <3>4, <3>5
      <3>7. Append([j \in 1 .. b - 1 |-> l[a[j]]], l[a[b]]) = [j \in 1 .. b |-> l[a[j]]]
        <4> DEFINE F(j) == l[a[j]]
        <4>1. b \in Nat \ {0}
          BY <3>3
        <4> HIDE DEF F, Upto
        <4>2. Append([j \in 1 .. b - 1 |-> F(j)], F(b)) = [j \in 1 .. b |-> F(j)]
          BY <4>1
        <4> QED
          BY <4>2 DEF F
      <3>8. l[n + 1] = l[a[b]]
        BY <3>1, <3>3
      <3> HIDE DEF Upto, T
      <3> QED
        BY <2>2, <2>3, <3>6, <3>7, <3>8
    <2>4. CASE ~IsWord(l[n + 1])
      <3>1. \A k \in 1 .. c : a[k] # n + 1
        BY <1>4, <2>4
      <3>2. Upto(n, b)
        <4> SUFFICES ASSUME NEW j \in 1 .. c PROVE a[j] <= n <=> j <= b
          OBVIOUS
        <4>1. a[j] <= n + 1 <=> j <= b
          OBVIOUS
        <4>2. a[j] \in Nat /\ a[j] # n + 1
          BY <1>3, <3>1
        <4> QED
          BY <4>1, <4>2
      <3> HIDE DEF Upto
      <3> QED
        BY <1>8, <2>1, <2>2, <2>4, <3>2
    <2> QED
      BY <2>3, <2>4
  <1>9. Nat \subseteq T
    <2> HIDE DEF T
    <2> QED
      BY <1>7, <1>8, NaturalInduction
  <1>10. Upto(m, c)
    <2> SUFFICES ASSUME NEW k \in 1 .. c PROVE a[k] <= m <=> k <= c
      OBVIOUS
    <2>1. a[k] \in 1 .. m
      BY <1>4
    <2> QED
      BY <2>1
  <1>11. m \in T /\ m <= m /\ c \in 0 .. c
    BY <1>9
  <1>12. g[m] = [k \in 1 .. c |-> l[a[k]]]
    <2> HIDE DEF Upto
    <2> QED
      BY <1>10, <1>11
  <1> QED
    BY <1>1, <1>2, <1>3, <1>12

LEMMA LineFacts ==
    ASSUME NEW l \in Lines
    PROVE  /\ IsPath(l) /\ \A i \in 1 .. Len(l) : l[i] # Nul
           /\ \A i \in 1 .. Len(l) - 1 : l[i] = Space \/ l[i + 1] = Space
           /\ Words(l) = WordsAt(l)
  <1>1. PICK S : S = (UNION {Range(x) : x \in Lines}) \ {Nul}
    OBVIOUS
  <1>2. l \in Seq(S) /\ Nul \notin S
    BY <1>1, ShellAssumption
  <1>3. \A i \in 1 .. Len(l) : l[i] # Nul
    BY <1>2, ElementOfSeq
  <1>4. IsPath(l)
    BY <1>2, PathIs
  <1>5. \A i \in 1 .. Len(l) - 1 : l[i] = Space \/ l[i + 1] = Space
    BY ShellAssumption
  <1> QED
    BY <1>3, <1>4, <1>5 DEF Words, WordsAt, IsWord

LEMMA NotBlank ==
    ASSUME NEW l \in Lines, ~Blank(l)
    PROVE  Words(l) # {}
  <1> SUFFICES ASSUME Words(l) = {} PROVE WordsOf(l) = <<>>
    BY DEF Blank
  <1>1. <<>> \in Seq(Nat) /\ Range(<<>>) = {} /\ Increasing(<<>>) /\ Len(<<>>) = 0
    BY DEF Range, Increasing
  <1>2. IsPath(l) /\ WordsAt(l) = {}
    BY LineFacts
  <1>3. PICK a : a = <<>>
    OBVIOUS
  <1>4. a \in Seq(Nat) /\ Increasing(a) /\ Range(a) = WordsAt(l) /\ Len(a) = 0
    BY <1>1, <1>2, <1>3
  <1>5. WordsOf(l) = [k \in 1 .. Len(a) |-> l[a[k]]]
    <2> HIDE DEF Increasing
    <2> QED
      BY <1>2, <1>4, WordsListed, ZenonT(60)
  <1>6. 1 .. 0 = {}
    OBVIOUS
  <1> QED
    BY <1>4, <1>5, <1>6

LEMMA LeastIs ==
    ASSUME NEW T, T \subseteq Nat, T # {}
    PROVE  Least(T) \in T /\ \A j \in T : Least(T) <= j
  <1>1. \E i \in T : \A j \in T : i <= j
    BY LeastNatural
  <1> QED
    BY <1>1 DEF Least

LEMMA GreatestIs ==
    ASSUME NEW T, T \subseteq Nat, T # {}, NEW n \in Nat, \A j \in T : j <= n
    PROVE  Greatest(T) \in T /\ \A j \in T : j <= Greatest(T)
  <1>1. \E i \in T : \A j \in T : j <= i
    BY GreatestOfBounded
  <1> QED
    BY <1>1 DEF Greatest

(* The first word is where the line's first character is that is no blank.  *)
LEMMA FirstWord ==
    ASSUME NEW l \in Lines, ~Blank(l)
    PROVE  LET from == Least({i \in DOMAIN l : l[i] # Space})
           IN  from \in Words(l) /\ WordsOf(l)[1] = l[from] /\ from \in 1 .. Len(l)
  <1>1. PICK m \in Nat : m = Len(l) /\ DOMAIN l = 1 .. m
    BY LineFacts, PathLength
  <1>2. PICK f : f = Least({i \in DOMAIN l : l[i] # Space})
    OBVIOUS
  <1>3. f \in Words(l) /\ \A j \in Words(l) : f <= j
    <2>1. Words(l) = {i \in DOMAIN l : l[i] # Space}
      BY <1>1 DEF Words
    <2>2. Words(l) \subseteq Nat /\ Words(l) # {}
      BY <1>1, NotBlank DEF Words
    <2> QED
      BY <1>2, <2>1, <2>2, LeastIs
  <1>4. f \in 1 .. m /\ \A i \in 1 .. m : IsWord(l[i]) => f <= i
    BY <1>1, <1>3, LineFacts DEF WordsAt
  <1>5. IsWord(l[f])
    BY <1>3, LineFacts DEF WordsAt
  <1>6. PICK g : WordsSoFar(g, l) /\ WordsOf(l) = g[Len(l)]
    BY WordsExist, LineFacts
  <1> DEFINE T == {n \in Nat : n <= m => /\ n < f => g[n] = <<>>
                                         /\ n >= f => g[n] \in Seq(Range(l)) /\ g[n] # <<>> /\ g[n][1] = l[f]}
  <1>7. 0 \in T
    BY <1>4, <1>6 DEF WordsSoFar
  <1>8. ASSUME NEW n \in Nat, n \in T PROVE n + 1 \in T
    <2> SUFFICES ASSUME n + 1 <= m
                 PROVE  /\ n + 1 < f => g[n + 1] = <<>>
                        /\ n + 1 >= f => g[n + 1] \in Seq(Range(l)) /\ g[n + 1] # <<>> /\ g[n + 1][1] = l[f]
      OBVIOUS
    <2>1. n + 1 \in 1 .. m /\ (n + 1) - 1 = n /\ n <= m
      OBVIOUS
    <2>2. g[n + 1] = IF IsWord(l[n + 1]) THEN Append(g[n], l[n + 1]) ELSE g[n]
      BY <1>1, <1>6, <2>1 DEF WordsSoFar
    <2>3. l[n + 1] \in Range(l)
      BY <1>1, <2>1 DEF Range
    <2>4. CASE n + 1 < f
      BY <1>4, <1>8, <2>1, <2>2, <2>4
    <2>5. CASE n + 1 = f
      <3>1. g[n] = <<>>
        BY <1>4, <1>8, <2>1, <2>5
      <3>2. g[n + 1] = <<l[f]>>
        BY <1>5, <2>2, <2>5, <3>1, OneName
      <3> QED
        BY <2>3, <2>5, <3>2
    <2>6. CASE n + 1 > f
      <3>1. g[n] \in Seq(Range(l)) /\ g[n] # <<>> /\ g[n][1] = l[f]
        BY <1>4, <1>8, <2>1, <2>6
      <3>2. PICK q, x : q = g[n] /\ x = l[n + 1]
        OBVIOUS
      <3>3. /\ Append(q, x) \in Seq(Range(l)) /\ Append(q, x) # <<>> /\ Append(q, x)[1] = l[f]
        <4>1. q \in Seq(Range(l)) /\ x \in Range(l) /\ q # <<>> /\ q[1] = l[f] /\ IsPath(q)
          BY <2>3, <3>1, <3>2, PathIs
        <4>2. Append(q, x) # <<>> /\ Append(q, x)[1] = q[1]
          BY <4>1, OneNameMore, TailMore
        <4>3. Append(q, x) \in Seq(Range(l))
          BY <4>1, AppendProperties
        <4> QED
          BY <4>1, <4>2, <4>3
      <3> HIDE DEF T
      <3> QED
        BY <1>4, <2>2, <2>6, <3>1, <3>2, <3>3
    <2>7. f \in Nat
      BY <1>4
    <2> HIDE DEF T
    <2> QED
      BY <2>4, <2>5, <2>6, <2>7
  <1>9. Nat \subseteq T
    <2> HIDE DEF T
    <2> QED
      BY <1>7, <1>8, NaturalInduction
  <1>10. m \in T
    BY <1>9
  <1>11. g[m][1] = l[f]
    BY <1>4, <1>10
  <1> QED
    BY <1>1, <1>2, <1>3, <1>4, <1>6, <1>11

-----------------------------------------------------------------------------
(* The splitter.                                                            *)

LEMMA CutIs ==
    ASSUME NEW l \in Lines, NEW S
    PROVE  /\ Cut(l, S) \in Seq(Range(l) \union {Nul}) /\ Len(Cut(l, S)) = Len(l)
           /\ DOMAIN Cut(l, S) = 1 .. Len(l) /\ Cut(l, S) = [i \in 1 .. Len(l) |-> Cut(l, S)[i]]
           /\ \A i \in 1 .. Len(l) :
                Cut(l, S)[i] = IF i - 1 \in S /\ (\E j \in Words(l) : j > i) THEN Nul ELSE l[i]
  <1>1. PICK m \in Nat : m = Len(l) /\ \A i \in 1 .. m : l[i] \in Range(l)
    BY LineFacts, PathLength
  <1> DEFINE F(i) == IF i - 1 \in S /\ (\E j \in Words(l) : j > i) THEN Nul ELSE l[i]
  <1>2. Cut(l, S) = [i \in 1 .. m |-> F(i)]
    BY <1>1 DEF Cut
  <1>3. \A i \in 1 .. m : F(i) \in Range(l) \union {Nul}
    BY <1>1
  <1>4. \A i \in 1 .. m : F(i) = IF i - 1 \in S /\ (\E j \in Words(l) : j > i) THEN Nul ELSE l[i]
    OBVIOUS
  <1> HIDE DEF F
  <1>5. [i \in 1 .. m |-> F(i)] \in Seq(Range(l) \union {Nul})
    BY <1>3, IsASeq
  <1>6. Len([i \in 1 .. m |-> F(i)]) = m
    OBVIOUS
  <1> QED
    BY <1>1, <1>2, <1>4, <1>5, <1>6

(* The words that are left, as get_next_part sees them.                     *)
LEMMA WordsLeft ==
    ASSUME NEW l \in Lines, NEW a, NEW b, NEW r, IsCut(l, a, b, r), r[1] <= r[2]
    PROVE  /\ r[1] \in Nat \ {0} /\ r[2] \in 1 .. Len(l)
           /\ \A i \in r[1] .. r[2] : i \in 1 .. Len(l) /\ b[i] = l[i]
           /\ {i \in r[1] .. r[2] : b[i] # Space} = {i \in Words(l) : r[1] <= i}
           /\ {i \in Words(l) : r[1] <= i} # {}
           /\ Range(a) = {i \in Words(l) : i < r[1]}
           /\ Words(l) \subseteq 1 .. r[2]
  <1>1. ~(r = <<1, 0>>)
    OBVIOUS
  <1>2. /\ r \in (Nat \ {0}) \X (1 .. Len(l)) /\ Range(a) = {i \in Words(l) : i < r[1]}
        /\ r[1] - 1 \notin Words(l) /\ Words(l) \subseteq 1 .. r[2] /\ \E i \in Words(l) : r[1] <= i
        /\ b = Cut(l, Range(a))
    BY <1>1 DEF IsCut
  <1>3. PICK m \in Nat, x \in Nat \ {0}, y \in Nat : m = Len(l) /\ x = r[1] /\ y = r[2] /\ y \in 1 .. m
    <2>1. Len(l) \in Nat
      BY LineFacts, PathLength
    <2>2. r[1] \in Nat \ {0} /\ r[2] \in 1 .. Len(l)
      BY <1>2
    <2> QED
      BY <2>1, <2>2
  <1>4. \A i \in x .. y : i \in 1 .. m
    BY <1>3
  <1>5. ASSUME NEW i \in x .. y PROVE b[i] = l[i]
    <2>1. i - 1 \notin Range(a)
      <3> SUFFICES ASSUME i - 1 \in Range(a) PROVE FALSE
        OBVIOUS
      <3>1. i - 1 < x /\ i - 1 \in Words(l)
        BY <1>2, <1>3
      <3>2. i - 1 = x - 1
        BY <1>3, <3>1
      <3> QED
        BY <1>2, <1>3, <3>1, <3>2
    <2>2. PICK S : S = Range(a)
      OBVIOUS
    <2>3. Cut(l, S)[i] = IF i - 1 \in S /\ (\E j \in Words(l) : j > i) THEN Nul ELSE l[i]
      BY <1>3, <1>4, CutIs, ZenonT(60)
    <2> QED
      BY <1>2, <2>1, <2>2, <2>3
  <1>6. \A i \in 1 .. m : i \in Words(l) <=> l[i] # Space
    BY <1>3 DEF Words
  <1>7. \A i \in Words(l) : i \in 1 .. y
    BY <1>2, <1>3
  <1>8. {i \in x .. y : b[i] # Space} = {i \in Words(l) : x <= i}
    BY <1>3, <1>4, <1>5, <1>6, <1>7
  <1>9. {i \in Words(l) : x <= i} # {}
    BY <1>2, <1>3
  <1> QED
    BY <1>2, <1>3, <1>4, <1>5, <1>8, <1>9

LEMMA AppendIncreasing ==
    ASSUME NEW S, S \subseteq Nat, NEW a \in Seq(S), Increasing(a), NEW x \in S, \A y \in Range(a) : y < x
    PROVE  Append(a, x) \in Seq(S) /\ Increasing(Append(a, x)) /\ Range(Append(a, x)) = Range(a) \union {x}
  <1>1. PICK n \in Nat : n = Len(a) /\ DOMAIN a = 1 .. n /\ IsPath(a)
    BY LenProperties, PathIs
  <1>2. PICK q : q = Append(a, x)
    OBVIOUS
  <1>3. /\ q[n + 1] = x /\ (\A i \in 1 .. n : q[i] = a[i]) /\ DOMAIN q = 1 .. n + 1
        /\ Range(q) = Range(a) \union {x} /\ q \in Seq(S)
    BY <1>1, <1>2, OneNameMore, AppendProperties
  <1>4. \A i \in 1 .. n : a[i] < x /\ a[i] \in Nat
    BY <1>1, ElementOfSeq DEF Range
  <1>5. \A i, j \in 1 .. n : i < j => a[i] < a[j]
    BY <1>1 DEF Increasing
  <1>6. ASSUME NEW i \in 1 .. n + 1, NEW j \in 1 .. n + 1, i < j PROVE q[i] < q[j]
    <2>1. i \in 1 .. n
      BY <1>6
    <2>2. CASE j = n + 1
      BY <1>3, <1>4, <2>1, <2>2
    <2>3. CASE j # n + 1
      <3>1. j \in 1 .. n
        BY <2>3
      <3> QED
        BY <1>3, <1>5, <1>6, <2>1, <3>1
    <2> QED
      BY <2>2, <2>3
  <1>7. Increasing(q)
    BY <1>3, <1>6 DEF Increasing
  <1> QED
    BY <1>2, <1>3, <1>7

LEMMA CutOn ==
    ASSUME NEW l \in Lines, NEW a, NEW b, NEW r, IsCut(l, a, b, r), r[1] <= r[2],
           NEW words, words = {i \in r[1] .. r[2] : b[i] # Space},
           NEW blanks, blanks = {i \in Least(words) .. Greatest(words) : b[i] = Space}
    PROVE  /\ blanks = {} => IsCut(l, Append(a, Least(words)), b, <<1, 0>>)
           /\ blanks # {} => IsCut(l, Append(a, Least(words)), [b EXCEPT ![Least(blanks)] = Nul],
                                   <<Least(blanks) + 1, Greatest(words)>>)
  <1>1. PICK m \in Nat, x \in Nat \ {0}, y \in Nat : m = Len(l) /\ x = r[1] /\ y = r[2] /\ y \in 1 .. m
    <2>1. Len(l) \in Nat
      BY LineFacts, PathLength
    <2> QED
      BY <2>1, WordsLeft
  <1>2. /\ words = {i \in Words(l) : x <= i} /\ words # {} /\ Words(l) \subseteq 1 .. y
        /\ Range(a) = {i \in Words(l) : i < x}
        /\ \A i \in x .. y : i \in 1 .. m /\ b[i] = l[i]
    BY <1>1, WordsLeft
  <1>3. PICK W : W = Words(l)
    OBVIOUS
  <1>4. W \subseteq 1 .. m /\ (\A i \in 1 .. m : i \in W <=> l[i] # Space)
    BY <1>1, <1>3 DEF Words
  <1>5. PICK f, g : f = Least(words) /\ g = Greatest(words)
    OBVIOUS
  <1>6. f \in words /\ (\A j \in words : f <= j) /\ g \in words /\ (\A j \in words : j <= g)
    <2>1. words \subseteq Nat /\ \A j \in words : j <= m
      BY <1>2, <1>3, <1>4
    <2> QED
      BY <1>2, <1>5, <2>1, LeastIs, GreatestIs
  <1>7. f \in W /\ g \in W /\ x <= f /\ f <= g /\ g <= y /\ f \in 1 .. m /\ g \in 1 .. m
    BY <1>2, <1>3, <1>4, <1>6
  <1>8. /\ a \in Seq(W) /\ Increasing(a) /\ b = Cut(l, Range(a))
    BY <1>3 DEF IsCut
  <1>9. /\ Append(a, f) \in Seq(W) /\ Increasing(Append(a, f)) /\ Range(Append(a, f)) = Range(a) \union {f}
    <2>1. \A i \in Range(a) : i < f
      BY <1>1, <1>2, <1>3, <1>4, <1>7
    <2>2. W \subseteq Nat
      BY <1>4
    <2>3. a \in Seq(W) /\ Increasing(a) /\ f \in W
      BY <1>7, <1>8
    <2> HIDE DEF Increasing
    <2>4. PICK S : S = W
      OBVIOUS
    <2>5. S \subseteq Nat /\ a \in Seq(S) /\ Increasing(a) /\ f \in S /\ \A i \in Range(a) : i < f
      BY <2>1, <2>2, <2>3, <2>4
    <2>7. Append(a, f) \in Seq(S)
      BY ONLY <2>5, AppendIncreasing
    <2>8. Increasing(Append(a, f))
      BY ONLY <2>5, AppendIncreasing
    <2>9. Range(Append(a, f)) = Range(a) \union {f}
      BY <2>5, OneNameMore, PathIs
    <2>6. /\ Append(a, f) \in Seq(S) /\ Increasing(Append(a, f))
          /\ Range(Append(a, f)) = Range(a) \union {f}
      BY <2>7, <2>8, <2>9
    <2> QED
      BY <2>4, <2>6
  <1>10. f < g => f + 1 \in 1 .. m /\ f + 1 <= g /\ f + 1 \notin W /\ f + 1 \in x .. y
    <2> SUFFICES ASSUME f < g PROVE f + 1 \in 1 .. m /\ f + 1 <= g /\ f + 1 \notin W /\ f + 1 \in x .. y
      OBVIOUS
    <2>1. f + 1 \in 1 .. m /\ f + 1 <= g /\ f \in 1 .. m - 1 /\ f + 1 \in x .. y
      BY <1>7
    <2>2. l[f] = Space \/ l[f + 1] = Space
      BY <1>1, <2>1, LineFacts
    <2> QED
      BY <1>4, <1>7, <2>1, <2>2
  <1>11. \A i : i \in blanks <=> i \in f .. g /\ l[i] = Space
    BY <1>2, <1>5, <1>7
  <1>12. \A i \in W : i \in Range(a) \/ (f <= i /\ i <= g)
    <2> SUFFICES ASSUME NEW i \in W PROVE i \in Range(a) \/ (f <= i /\ i <= g)
      OBVIOUS
    <2>1. i \in Nat
      BY <1>4
    <2>2. CASE i < x
      BY <1>2, <1>3, <2>2
    <2>3. CASE x <= i
      BY <1>2, <1>3, <1>6, <2>3
    <2> QED
      BY <1>1, <2>1, <2>2, <2>3
  <1>13. ASSUME blanks = {} PROVE IsCut(l, Append(a, f), b, <<1, 0>>)
    <2>1. f = g
      <3> SUFFICES ASSUME f < g PROVE FALSE
        BY <1>7
      <3>1. f + 1 \in blanks
        BY <1>4, <1>7, <1>10, <1>11
      <3> QED
        BY <1>13, <3>1
    <2>2. Range(Append(a, f)) = W
      <3>1. \A i \in W : i \in Range(a) \/ i = f
        BY <1>7, <1>12, <1>4, <2>1
      <3>2. Range(a) \subseteq W
        BY <1>2, <1>3
      <3> QED
        BY <1>7, <1>9, <3>1, <3>2
    <2>3. b = Cut(l, Range(Append(a, f)))
      <3>1. \A i \in 1 .. m : Cut(l, Range(Append(a, f)))[i] = b[i]
        <4> SUFFICES ASSUME NEW i \in 1 .. m PROVE Cut(l, Range(Append(a, f)))[i] = b[i]
          OBVIOUS
        <4>1. ~\E j \in W : j > f + 1
          <5> SUFFICES ASSUME NEW j \in W, j > f + 1 PROVE FALSE
            OBVIOUS
          <5>1. j \in Nat /\ j >= x
            BY <1>4, <1>7
          <5>2. j \in words
            BY <1>2, <1>3, <5>1
          <5>3. j <= f
            BY <1>6, <2>1, <5>2
          <5> QED
            BY <1>7, <5>1, <5>3
        <4>2. i - 1 = f => i = f + 1
          BY <1>7
        <4>3. i - 1 \in Range(Append(a, f)) <=> i - 1 \in Range(a) \/ i - 1 = f
          BY <1>9
        <4>4. /\ b[i] = (IF i - 1 \in Range(a) /\ (\E j \in W : j > i) THEN Nul ELSE l[i])
              /\ Cut(l, Range(Append(a, f)))[i]
                    = (IF i - 1 \in Range(Append(a, f)) /\ (\E j \in W : j > i) THEN Nul ELSE l[i])
          BY <1>1, <1>3, <1>8, CutIs, ZenonT(60)
        <4> QED
          BY <4>1, <4>2, <4>3, <4>4
      <3>2. /\ b = [i \in 1 .. m |-> b[i]]
            /\ Cut(l, Range(Append(a, f))) = [i \in 1 .. m |-> Cut(l, Range(Append(a, f)))[i]]
        BY <1>1, <1>8, CutIs
      <3> QED
        BY <3>1, <3>2
    <2> QED
      BY <1>3, <1>9, <2>2, <2>3 DEF IsCut
  <1>14. ASSUME blanks # {}
         PROVE  IsCut(l, Append(a, f), [b EXCEPT ![Least(blanks)] = Nul], <<Least(blanks) + 1, g>>)
    <2>1. f < g
      <3> SUFFICES ASSUME f = g PROVE FALSE
        BY <1>7
      <3>1. PICK i : i \in blanks
        BY <1>14
      <3>2. i = f /\ l[i] = Space
        BY <1>7, <1>11, <3>1
      <3> QED
        BY <1>4, <1>7, <3>2
    <2>2. PICK e : e = Least(blanks)
      OBVIOUS
    <2>3. e = f + 1
      <3>1. f + 1 \in blanks
        BY <1>4, <1>7, <1>10, <1>11, <2>1
      <3>2. \A i \in blanks : i \in Nat /\ i # f /\ f <= i
        BY <1>4, <1>7, <1>11
      <3>3. e \in blanks /\ \A j \in blanks : e <= j
        <4>1. blanks \subseteq Nat
          BY <3>2
        <4> QED
          BY <1>14, <2>2, <4>1, LeastIs
      <3> QED
        BY <1>7, <3>1, <3>2, <3>3
    <2>4. e \in 1 .. m /\ e \notin W /\ e < g
      <3>1. e \in 1 .. m /\ e <= g /\ e \notin W
        BY <1>10, <2>1, <2>3
      <3> QED
        BY <1>7, <3>1
    <2>5. Range(Append(a, f)) = {i \in W : i < e + 1}
      <3>1. \A i \in Range(a) : i \in W /\ i < e + 1
        BY <1>1, <1>2, <1>3, <1>4, <1>7, <2>3
      <3>2. ASSUME NEW i \in W, i < e + 1 PROVE i \in Range(a) \/ i = f
        <4>1. i \in Nat /\ i # e
          BY <1>4, <2>4
        <4>2. i <= f
          BY <1>7, <2>3, <3>2, <4>1
        <4> QED
          BY <1>7, <1>12, <4>1, <4>2
      <3>3. f < e + 1
        BY <1>7, <2>3
      <3> QED
        BY <1>7, <1>9, <3>1, <3>2, <3>3
    <2>6. [b EXCEPT ![e] = Nul] = Cut(l, Range(Append(a, f)))
      <3>1. PICK c : c = [b EXCEPT ![e] = Nul]
        OBVIOUS
      <3>2. DOMAIN b = 1 .. m
        BY <1>1, <1>8, CutIs
      <3>3. c = [i \in 1 .. m |-> c[i]] /\ \A i \in 1 .. m : c[i] = IF i = e THEN Nul ELSE b[i]
        BY <2>4, <3>1, <3>2
      <3>4. \A i \in 1 .. m : Cut(l, Range(Append(a, f)))[i] = c[i]
        <4> SUFFICES ASSUME NEW i \in 1 .. m PROVE Cut(l, Range(Append(a, f)))[i] = c[i]
          OBVIOUS
        <4>1. i - 1 = f <=> i = e
          BY <1>7, <2>3
        <4>2. i - 1 \in Range(Append(a, f)) <=> i - 1 \in Range(a) \/ i - 1 = f
          BY <1>9
        <4>3. /\ b[i] = (IF i - 1 \in Range(a) /\ (\E j \in W : j > i) THEN Nul ELSE l[i])
              /\ Cut(l, Range(Append(a, f)))[i]
                    = (IF i - 1 \in Range(Append(a, f)) /\ (\E j \in W : j > i) THEN Nul ELSE l[i])
          BY <1>1, <1>3, <1>8, CutIs, ZenonT(60)
        <4>4. i = e => \E j \in W : j > i
          BY <1>7, <2>4
        <4> QED
          BY <3>3, <4>1, <4>2, <4>3, <4>4
      <3>5. Cut(l, Range(Append(a, f))) = [i \in 1 .. m |-> Cut(l, Range(Append(a, f)))[i]]
        BY <1>1, CutIs
      <3> QED
        BY <3>1, <3>3, <3>4, <3>5
    <2>7. PICK s : s = <<e + 1, g>>
      OBVIOUS
    <2>8. s \in (Nat \ {0}) \X (1 .. m) /\ s[1] <= s[2] /\ s[1] = e + 1 /\ s[2] = g
      BY <1>7, <2>4, <2>7
    <2>9. s[1] - 1 \notin W
      BY <2>4, <2>8
    <2>10. W \subseteq 1 .. s[2]
      <3> SUFFICES ASSUME NEW i \in W PROVE i <= g
        BY <1>4, <1>7, <2>8
      <3>1. i \in Nat
        BY <1>4
      <3>2. CASE i \in Range(a)
        BY <1>1, <1>2, <1>7, <3>1, <3>2
      <3>3. CASE i \notin Range(a)
        BY <1>12, <3>3
      <3> QED
        BY <3>2, <3>3
    <2>11. \E i \in W : s[1] <= i
      BY <1>7, <2>8
    <2>12. Range(Append(a, f)) = {i \in W : i < s[1]}
      BY <2>5, <2>8
    <2> QED
      BY <1>1, <1>3, <1>9, <2>2, <2>6, <2>7, <2>8, <2>9, <2>10, <2>11, <2>12 DEF IsCut
  <1> QED
    BY <1>5, <1>13, <1>14

(* Once all words have been cut off.                                        *)
LEMMA AllCut ==
    ASSUME NEW l \in Lines, ~Blank(l), NEW a, NEW b, NEW r, IsCut(l, a, b, r), ~(r[1] <= r[2])
    PROVE  /\ r = <<1, 0>> /\ a \in Seq(Nat) /\ Len(a) \in Nat \ {0} /\ Range(a) = Words(l)
           /\ WordsOf(l) = [k \in 1 .. Len(a) |-> l[a[k]]]
           /\ \A i \in Words(l) : i \in 1 .. Len(l) /\ b[i] = l[i]
  <1>1. r = <<1, 0>> /\ Range(a) = Words(l) /\ a \in Seq(Words(l)) /\ Increasing(a) /\ b = Cut(l, Range(a))
    BY DEF IsCut
  <1>2. PICK m \in Nat : m = Len(l)
    BY LineFacts, PathLength
  <1>3. PICK W : W = Words(l)
    OBVIOUS
  <1>4. W \subseteq 1 .. m /\ (\A i \in 1 .. m : i \in W <=> l[i] # Space) /\ W # {} /\ W \subseteq Nat
    BY <1>2, <1>3, NotBlank DEF Words
  <1>5. PICK c \in Nat : c = Len(a) /\ DOMAIN a = 1 .. c /\ \A k \in 1 .. c : a[k] \in W
    BY <1>1, <1>3, LenProperties, ElementOfSeq
  <1>6. a \in Seq(Nat)
    <2>1. a = [k \in 1 .. c |-> a[k]] /\ \A k \in 1 .. c : a[k] \in Nat
      BY <1>1, <1>4, <1>5, PathIs, PathLength
    <2> QED
      BY <2>1, IsASeq
  <1>7. c # 0
    <2> SUFFICES ASSUME c = 0 PROVE FALSE
      OBVIOUS
    <2>1. Range(a) = {}
      BY <1>5 DEF Range
    <2> QED
      BY <1>1, <1>3, <1>4, <2>1
  <1>8. IsPath(l) /\ Range(a) = WordsAt(l)
    BY <1>1, LineFacts
  <1>9. WordsOf(l) = [k \in 1 .. Len(a) |-> l[a[k]]]
    <2> HIDE DEF Increasing
    <2> QED
      BY <1>1, <1>6, <1>8, WordsListed
  <1>10. ASSUME NEW i \in W PROVE i \in 1 .. m /\ b[i] = l[i]
    <2>1. i \in 1 .. m /\ l[i] # Space
      BY <1>4
    <2>2. i - 1 \notin W
      <3> SUFFICES ASSUME i - 1 \in W PROVE FALSE
        OBVIOUS
      <3>1. i - 1 \in 1 .. m - 1 /\ (i - 1) + 1 = i /\ i - 1 \in 1 .. m
        BY <1>4, <2>1
      <3>2. l[i - 1] = Space \/ l[i] = Space
        BY <1>2, <3>1, LineFacts
      <3>3. l[i - 1] # Space
        BY <1>4, <3>1
      <3> QED
        BY <2>1, <3>2, <3>3
    <2>3. Cut(l, W)[i] = IF i - 1 \in W /\ (\E j \in Words(l) : j > i) THEN Nul ELSE l[i]
      BY <1>2, <2>1, CutIs
    <2> QED
      BY <1>1, <1>3, <2>1, <2>2, <2>3
  <1> QED
    BY <1>1, <1>2, <1>3, <1>5, <1>6, <1>7, <1>9, <1>10

(* Before the first is.                                                     *)
LEMMA NotCut ==
    ASSUME NEW l \in Lines, ~Blank(l)
    PROVE  IsCut(l, <<>>, l, <<1, Len(l)>>)
  <1>1. PICK m \in Nat : m = Len(l) /\ DOMAIN l = 1 .. m /\ l = [i \in 1 .. m |-> l[i]]
    BY LineFacts, PathLength
  <1>2. Words(l) # {} /\ Words(l) \subseteq 1 .. m
    BY <1>1, NotBlank DEF Words
  <1>3. m \in 1 .. m
    BY <1>2
  <1>4. PICK a : a = <<>>
    OBVIOUS
  <1>5. Range(a) = {} /\ Increasing(a) /\ a \in Seq(Words(l))
    BY <1>4 DEF Range, Increasing
  <1>6. l = Cut(l, {})
    <2>1. \A i \in 1 .. m : Cut(l, {})[i] = l[i]
      BY <1>1, CutIs
    <2>2. Cut(l, {}) = [i \in 1 .. m |-> Cut(l, {})[i]]
      BY <1>1, CutIs
    <2> QED
      BY <1>1, <2>1, <2>2
  <1>7. {i \in Words(l) : i < 1} = {} /\ 0 \notin Words(l)
    BY <1>2
  <1>8. \E i \in Words(l) : 1 <= i
    BY <1>2
  <1>9. PICK r : r = <<1, m>>
    OBVIOUS
  <1>10. r \in (Nat \ {0}) \X (1 .. m) /\ r[1] = 1 /\ r[2] = m /\ r[1] <= r[2]
    BY <1>3, <1>9
  <1>11. IsCut(l, a, l, r)
    BY <1>1, <1>2, <1>5, <1>6, <1>7, <1>8, <1>10 DEF IsCut
  <1> QED
    BY <1>1, <1>4, <1>9, <1>11

-----------------------------------------------------------------------------
(* What a step does to the line and to what was looked for.                 *)

(* The line is done with, or is not there yet.                              *)
LEMMA Quits ==
    ASSUME phase' \notin {"split", "search", "exec", "running"},
           argv' = <<>> \/ phase' \in {"idle", "fault"}
    PROVE  LineInv' /\ TargetInv'
  BY DEF LineInv, TargetInv

LEMMA BootLine ==
    ASSUME LineInv, Boot
    PROVE  LineInv' /\ TargetInv'
  <1>1. argv = <<>>
    BY DEF LineInv, Boot, Construct, EnterMain, MountRam, MountRom, MountDevices
  <1>2. argv' = argv /\ phase' \in {"constructors", "boot", "rom", "devices", "prompt"}
    BY DEF Boot, Construct, EnterMain, MountRam, MountRom, MountDevices, StartShell, parsing
  <1> QED
    BY <1>1, <1>2, Quits

(* Nothing that was looked for changes.                                     *)
LEMMA IntendedKept ==
    ASSUME UNCHANGED <<names, cwd, line>>
    PROVE  Intended(line)' = Intended(line) /\ (HasFile(Here(line))' <=> HasFile(Here(line)))
  <1>1. mounts' = mounts /\ ram' = ram /\ drivers' = drivers /\ apps' = apps /\ cwd' = cwd /\ line' = line
    BY DEF names, registries
  <1>2. PICK p : p = Here(line)
    OBVIOUS
  <1>3. Here(line)' = p
    BY <1>1, <1>2 DEF Here
  <1>4. HasFile(p)' <=> HasFile(p)
    BY <1>1, MeaningKept
  <1>5. HasFile(Here(line))' <=> HasFile(Here(line))
    BY <1>2, <1>3, <1>4
  <1>6. PICK w : w = WordsOf(line)[1]
    OBVIOUS
  <1>7. (WordsOf(line)[1])' = w
    BY <1>1, <1>6
  <1>8. Intended(line) = IF IsAbsolute(w) THEN PathOf[w] ELSE IF HasFile(p) THEN p ELSE Append(PathDirectory, w)
    BY <1>2, <1>6 DEF Intended
  <1>9. Intended(line)' = IF IsAbsolute(w) THEN PathOf[w] ELSE IF HasFile(p)' THEN p ELSE Append(PathDirectory, w)
    BY <1>2, <1>3, <1>4, <1>5, <1>7 DEF Intended
  <1> QED
    BY <1>4, <1>5, <1>8, <1>9

LEMMA TargetKept ==
    ASSUME TargetInv, UNCHANGED <<names, cwd, line, target, free>>,
           phase' = phase \/ (phase = "exec" /\ phase' \in {"running", "fault"})
    PROVE  TargetInv'
  <1>1. Intended(line)' = Intended(line) /\ (HasFile(Here(line))' <=> HasFile(Here(line)))
    BY IntendedKept
  <1> QED
    BY <1>1 DEF TargetInv

(* The line neither, as far as it has been cut.                             *)
LEMMA LineKept ==
    ASSUME LineInv, UNCHANGED <<line, parsing>>,
           \/ phase' = phase
           \/ phase = "split" /\ rest = <<1, 0>> /\ phase' \in {"search", "exec"}
           \/ phase = "search" /\ phase' = "exec"
           \/ phase = "exec" /\ phase' \in {"running", "fault"}
    PROVE  LineInv'
  <1>1. line' = line /\ argv' = argv /\ buffer' = buffer /\ rest' = rest
    BY DEF parsing
  <1>2. CutInv' <=> CutInv
    BY <1>1 DEF CutInv
  <1>3. WordsOf(line)' = WordsOf(line) /\ (Blank(line)' <=> Blank(line))
    BY <1>1
  <1> QED
    BY <1>1, <1>2, <1>3 DEF LineInv

(* A path, with nothing behind it.                                          *)
LEMMA ReadAbsoluteLine ==
    ASSUME LineInv, NEW l \in Lines, ReadAbsolute(l)
    PROVE  LineInv' /\ TargetInv'
  <1>1. PICK from : from = Least({i \in DOMAIN l : l[i] # Space})
    OBVIOUS
  <1>2. ~Blank(l) /\ IsAbsolute(l[from])
    BY <1>1 DEF ReadAbsolute, Read
  <1>3. WordsOf(l)[1] = l[from]
    BY <1>1, <1>2, FirstWord
  <1>4. CASE target' = PathOf[l[from]] /\ phase' = "exec" /\ line' = l
    <2>1. PICK w : w = WordsOf(l)[1] /\ IsAbsolute(w) /\ target' = PathOf[w]
      BY <1>2, <1>3, <1>4
    <2>2. (WordsOf(line)[1])' = w
      BY <1>4, <2>1
    <2>3. Intended(line)' = PathOf[w]
      BY <2>1, <2>2 DEF Intended
    <2>4. TargetInv'
      BY <1>4, <2>1, <2>3 DEF TargetInv
    <2>5. ~Blank(line)' /\ (line \in Lines)'
      BY <1>2, <1>4
    <2>6. LineInv'
      BY <1>4, <2>1, <2>2, <2>5 DEF LineInv
    <2> QED
      BY <2>4, <2>6
  <1>5. CASE Done /\ phase' = "prompt"
    BY <1>5, Quits DEF Done, Forget
  <1> QED
    BY <1>1, <1>4, <1>5 DEF ReadAbsolute

LEMMA ReadCommandLine ==
    ASSUME LineInv, NEW l \in Lines, ReadCommand(l)
    PROVE  LineInv' /\ TargetInv'
  <1>1. PICK from : from = Least({i \in DOMAIN l : l[i] # Space})
    OBVIOUS
  <1>2. ~Blank(l) /\ ~IsAbsolute(l[from]) /\ phase = "prompt" /\ phase' = "split" /\ argv' = argv
        /\ line' = l /\ buffer' = l /\ rest' = <<1, Len(l)>>
    BY <1>1 DEF ReadCommand, Read
  <1>3. WordsOf(l)[1] = l[from]
    BY <1>1, <1>2, FirstWord
  <1>4. argv' = <<>>
    BY <1>2 DEF LineInv
  <1>5. CutInv'
    <2>1. IsCut(l, <<>>, l, <<1, Len(l)>>)
      BY <1>2, NotCut
    <2> QED
      BY <1>2, <1>4, <2>1 DEF CutInv
  <1>6. ~Blank(line)' /\ ~IsAbsolute(WordsOf(line)[1])'
    BY <1>2, <1>3
  <1>7. LineInv'
    BY <1>2, <1>5, <1>6 DEF LineInv
  <1>8. TargetInv'
    BY <1>2 DEF TargetInv
  <1> QED
    BY <1>7, <1>8

(* The next word is cut off.                                                *)
LEMMA SplitLine ==
    ASSUME LineInv, Split
    PROVE  LineInv' /\ TargetInv'
  <1>1. phase = "split" /\ rest[1] <= rest[2] /\ line' = line /\ line \in Lines /\ ~Blank(line)
        /\ ~IsAbsolute(WordsOf(line)[1]) /\ CutInv
    BY DEF Split, LineInv
  <1>2. CASE phase' = "fault"
    BY <1>2, Quits
  <1>3. CASE NextPart /\ phase' = phase
    <2>1. PICK words : words = {i \in rest[1] .. rest[2] : buffer[i] # Space}
      OBVIOUS
    <2>2. PICK blanks : blanks = {i \in Least(words) .. Greatest(words) : buffer[i] = Space}
      OBVIOUS
    <2>3. /\ argv' = Append(argv, Least(words))
          /\ IF blanks = {} THEN rest' = <<1, 0>> /\ buffer' = buffer
             ELSE /\ rest' = <<Least(blanks) + 1, Greatest(words)>>
                  /\ buffer' = [buffer EXCEPT ![Least(blanks)] = Nul]
      BY <1>3, <2>1, <2>2 DEF NextPart
    <2>4. PICK l, a, b, r : l = line /\ a = argv /\ b = buffer /\ r = rest
      OBVIOUS
    <2>5. l \in Lines /\ IsCut(l, a, b, r) /\ r[1] <= r[2]
      BY <1>1, <2>4 DEF CutInv
    <2>6. words = {i \in r[1] .. r[2] : b[i] # Space} /\ blanks = {i \in Least(words) .. Greatest(words) : b[i] = Space}
      BY <2>1, <2>2, <2>4
    <2>7. /\ blanks = {} => IsCut(l, Append(a, Least(words)), b, <<1, 0>>)
          /\ blanks # {} => IsCut(l, Append(a, Least(words)), [b EXCEPT ![Least(blanks)] = Nul],
                                   <<Least(blanks) + 1, Greatest(words)>>)
      BY <2>5, <2>6, CutOn
    <2>8. IsCut(l, argv', buffer', rest')
      BY <2>3, <2>4, <2>7
    <2>9. CutInv'
      BY <1>1, <2>4, <2>8 DEF CutInv
    <2>10. ~Blank(line)' /\ ~IsAbsolute(WordsOf(line)[1])' /\ (line \in Lines)'
      BY <1>1
    <2>11. LineInv'
      BY <1>1, <1>3, <2>9, <2>10 DEF LineInv
    <2>12. TargetInv'
      BY <1>1, <1>3 DEF TargetInv
    <2> QED
      BY <2>11, <2>12
  <1> QED
    BY <1>2, <1>3 DEF Split

-----------------------------------------------------------------------------
(* The three searches of a command find the same.                           *)

LEMMA JoinMeans ==
    ASSUME NamesInv, NamesAreApart, NEW d, CanBeIn(d), NEW w, ~IsAbsolute(w)
    PROVE  Get(Join(d, w)) = Meaning(Join(d, w))
  <1>1. CASE w = ".." /\ d = <<>>
    BY <1>1, DirectoryMeans DEF Join
  <1>2. CASE w = ".." /\ d # <<>>
    BY <1>2, DirectoryAbove, DirectoryMeans DEF Join
  <1>3. CASE w # ".."
    BY <1>3, NameMeans DEF Join
  <1> QED
    BY <1>1, <1>2, <1>3

(* What was cut off first is the first word.                                *)
LEMMA CommandIs ==
    ASSUME CutInv, line \in Lines, ~Blank(line), ~(rest[1] <= rest[2])
    PROVE  rest = <<1, 0>> /\ Command = WordsOf(line)[1]
  <1>1. PICK l, a, b, r : l = line /\ a = argv /\ b = buffer /\ r = rest
    OBVIOUS
  <1>2. l \in Lines /\ ~Blank(l) /\ IsCut(l, a, b, r) /\ ~(r[1] <= r[2])
    BY <1>1 DEF CutInv
  <1>3. /\ r = <<1, 0>> /\ a \in Seq(Nat) /\ Len(a) \in Nat \ {0} /\ Range(a) = Words(l)
        /\ WordsOf(l) = [k \in 1 .. Len(a) |-> l[a[k]]]
        /\ \A i \in Words(l) : b[i] = l[i]
    BY <1>2, AllCut
  <1>4. WordsOf(l)[1] = l[a[1]] /\ 1 \in DOMAIN a
    BY <1>3, LenProperties
  <1>5. a[1] \in Range(a)
    BY <1>4 DEF Range
  <1> QED
    BY <1>1, <1>3, <1>4, <1>5 DEF Command

LEMMA AllIsCut ==
    ASSUME LineInv, phase \in {"split", "search"}, rest[1] > rest[2]
    PROVE  /\ rest = <<1, 0>> /\ Command = WordsOf(line)[1]
           /\ line \in Lines /\ ~Blank(line) /\ ~IsAbsolute(WordsOf(line)[1])
  <1>1. line \in Lines /\ ~Blank(line) /\ ~IsAbsolute(WordsOf(line)[1]) /\ CutInv
    BY DEF LineInv
  <1>2. rest = <<1, 0>> \/ (rest[1] \in Nat /\ rest[2] \in Nat)
    <2>1. \A n : n \in 1 .. Len(line) => n \in Nat
      OBVIOUS
    <2> QED
      BY <1>1, <2>1 DEF CutInv, IsCut
  <1>3. ~(rest[1] <= rest[2])
    <2>1. CASE rest = <<1, 0>>
      BY <2>1
    <2> QED
      BY <1>2, <2>1
  <1> QED
    BY <1>1, <1>3, CommandIs

LEMMA LookHereLine ==
    ASSUME LineInv, LookHere
    PROVE  LineInv'
  <1>1. phase = "split" /\ rest = <<1, 0>> /\ phase' \in {"exec", "search"} /\ UNCHANGED <<line, parsing>>
    BY AllIsCut DEF LookHere
  <1> QED
    BY <1>1, LineKept

LEMMA LookHereTarget ==
    ASSUME PlaceInv, LineInv, NamesAreApart, LookHere
    PROVE  TargetInv'
  <1>1. /\ phase = "split" /\ rest[1] > rest[2] /\ UNCHANGED <<names, cwd, line>> /\ free' = free
        /\ phase' \in {"exec", "search"} /\ free \in Nat
    BY DEF LookHere, PlaceInv, BootInv
  <1>2. Command = WordsOf(line)[1] /\ ~IsAbsolute(WordsOf(line)[1])
    BY <1>1, AllIsCut
  <1>3. PICK p : p = Join(cwd, Command)
    OBVIOUS
  <1>4. p = Here(line)
    BY <1>2, <1>3 DEF Here
  <1>5. Get(p) = Meaning(p)
    <2>1. NamesInv /\ CanBeIn(cwd)
      BY <1>1, NamesAreInv DEF PlaceInv, WhereInv
    <2> QED
      BY <1>2, <1>3, <2>1, JoinMeans
  <1>6. CanRead(p) <=> free > 0 /\ HasFile(p)
    BY <1>5 DEF CanRead, HasFile, IsDirectory
  <1>7. Intended(line)' = Intended(line) /\ (HasFile(Here(line))' <=> HasFile(Here(line)))
    BY <1>1, IntendedKept
  <1>8. CASE CanRead(p)
    <2>1. phase' = "exec" /\ target' = p
      BY <1>3, <1>8 DEF LookHere
    <2>2. Intended(line) = p
      BY <1>2, <1>4, <1>6, <1>8 DEF Intended
    <2> QED
      BY <1>7, <2>1, <2>2 DEF TargetInv
  <1>9. CASE ~CanRead(p)
    <2>1. phase' = "search"
      BY <1>3, <1>9 DEF LookHere
    <2>2. ~HasFile(Here(line)) \/ free = 0
      BY <1>1, <1>4, <1>6, <1>9
    <2> QED
      BY <1>1, <1>7, <2>1, <2>2 DEF TargetInv
  <1> QED
    BY <1>8, <1>9

(* In the search the line has been cut.                                     *)
LEMMA SearchedIsCut ==
    ASSUME LineInv, phase = "search"
    PROVE  rest = <<1, 0>> /\ Command = WordsOf(line)[1] /\ ~IsAbsolute(WordsOf(line)[1])
  <1>1. rest = <<1, 0>>
    BY DEF LineInv
  <1> QED
    BY <1>1, AllIsCut

LEMMA SearchPathLine ==
    ASSUME LineInv, SearchPath
    PROVE  LineInv'
  <1>1. phase = "search" /\ phase' \in {"fault", "exec", "prompt"}
    BY DEF SearchPath
  <1>2. CASE phase' = "fault"
    BY <1>2, Quits
  <1>3. CASE phase' = "prompt"
    BY <1>3, Quits DEF SearchPath, Done, Forget
  <1>4. CASE phase' = "exec"
    <2>1. UNCHANGED <<line, parsing>>
      BY <1>4 DEF SearchPath
    <2> QED
      BY <1>1, <1>4, <2>1, LineKept
  <1> QED
    BY <1>1, <1>2, <1>3, <1>4

LEMMA SearchPathTarget ==
    ASSUME LineInv, TargetInv, SearchPath
    PROVE  TargetInv'
  <1>1. /\ phase = "search" /\ phase' \in {"fault", "exec", "prompt"} /\ UNCHANGED <<names, cwd, free>>
        /\ ~HasFile(Here(line)) \/ free = 0
    BY DEF SearchPath, TargetInv
  <1>2. CASE phase' \in {"fault", "prompt"}
    BY <1>2 DEF TargetInv
  <1>3. CASE phase' = "exec"
    <2>1. target' = Append(PathDirectory, Command) /\ line' = line
      BY <1>3 DEF SearchPath
    <2>2. Intended(line)' = Intended(line)
      BY <1>1, <2>1, IntendedKept
    <2>3. ~HasFile(Here(line)) => Intended(line) = target'
      BY <1>1, <2>1, SearchedIsCut DEF Intended
    <2> QED
      BY <1>1, <1>3, <2>2, <2>3 DEF TargetInv
  <1> QED
    BY <1>1, <1>2, <1>3

-----------------------------------------------------------------------------
(* The invariant is inductive.                                              *)

(* A line that is done with: blank, "exit", not found, or back at the       *)
(* prompt after a program.                                                  *)
LEMMA DoneLine ==
    ASSUME LineInv,
           \/ \E l \in Lines : ReadBlank(l) \/ ReadExit(l)
           \/ ExecFails \/ ExecShell \/ Program \/ InteractiveProgram
    PROVE  LineInv' /\ TargetInv'
  <1>1. ASSUME NEW l \in Lines, ReadBlank(l) \/ ReadExit(l)
        PROVE  argv' = <<>> /\ phase' \in {"prompt", "idle"}
    BY <1>1 DEF ReadBlank, ReadExit, Read, Done, Forget
  <1>2. ExecFails => (argv' = <<>> /\ phase' = "prompt") \/ phase' = "fault"
    BY DEF ExecFails, Returned, Done, Forget
  <1>3. ExecShell => argv' = <<>> /\ phase' = "prompt"
    BY DEF ExecShell, StartShell, Done, Forget
  <1>4. Program \/ InteractiveProgram => argv' = <<>> /\ phase' = "prompt"
    <2>1. \A rc : Returned(rc) => argv' = <<>> /\ phase' = "prompt"
      BY DEF Returned, Done, Forget
    <2> QED
      BY <2>1 DEF Program, Cd, Cat, Ls, OtherProgram, InteractiveProgram
  <1> QED
    BY <1>1, <1>2, <1>3, <1>4, Quits

LEMMA ModuleLine ==
    ASSUME LineInv, ExecModule
    PROVE  LineInv'
  <1>1. phase = "exec" /\ phase' \in {"running", "fault"} /\ UNCHANGED <<line, parsing>>
    BY DEF ExecModule
  <1> QED
    BY <1>1, LineKept

LEMMA LineStep ==
    ASSUME LineInv, [Next]_vars
    PROVE  LineInv'
  <1>1. CASE \E l \in Lines : ReadAbsolute(l) \/ ReadCommand(l)
    BY <1>1, ReadAbsoluteLine, ReadCommandLine
  <1>2. CASE Parse
    BY <1>2, SplitLine, LookHereLine, SearchPathLine DEF Parse
  <1>3. CASE ExecModule
    BY <1>3, ModuleLine
  <1>4. CASE Boot
    BY <1>4, BootLine
  <1>5. CASE \/ \E l \in Lines : ReadBlank(l) \/ ReadExit(l)
             \/ ExecFails \/ ExecShell \/ Program \/ InteractiveProgram
    BY <1>5, DoneLine
  <1>6. CASE UNCHANGED vars
    BY <1>6, LineKept DEF vars
  <1> QED
    BY <1>1, <1>2, <1>3, <1>4, <1>5, <1>6 DEF Next, Execute

LEMMA TargetStep ==
    ASSUME NamesAreApart, ShellInv, [Next]_vars
    PROVE  TargetInv'
  <1>0. PlaceInv /\ LineInv /\ TargetInv
    BY DEF ShellInv
  <1>1. CASE \E l \in Lines : ReadAbsolute(l) \/ ReadCommand(l)
    BY <1>0, <1>1, ReadAbsoluteLine, ReadCommandLine
  <1>2. CASE Parse
    BY <1>0, <1>2, SplitLine, LookHereTarget, SearchPathTarget DEF Parse
  <1>3. CASE ExecModule
    <2>1. phase = "exec" /\ phase' \in {"running", "fault"} /\ UNCHANGED <<names, cwd, line, target, free>>
      BY <1>3 DEF ExecModule
    <2> QED
      BY <1>0, <2>1, TargetKept
  <1>4. CASE Boot
    BY <1>0, <1>4, BootLine
  <1>5. CASE \/ \E l \in Lines : ReadBlank(l) \/ ReadExit(l)
             \/ ExecFails \/ ExecShell \/ Program \/ InteractiveProgram
    BY <1>0, <1>5, DoneLine
  <1>6. CASE UNCHANGED vars
    BY <1>0, <1>6, TargetKept DEF vars
  <1> QED
    BY <1>1, <1>2, <1>3, <1>4, <1>5, <1>6 DEF Next, Execute

LEMMA WhereStep ==
    ASSUME PlaceInv, [Next]_vars
    PROVE  BootInv' /\ WhereInv'
  <1>0. free \in Nat
    BY DEF PlaceInv, BootInv
  <1>1. CASE Boot
    BY <1>1, ConstructBoot, EnterMainBoot, MountRamBoot, MountRomBoot, MountDevicesBoot DEF Boot
  <1>2. CASE \E l \in Lines : ReadBlank(l) \/ ReadExit(l) \/ ReadAbsolute(l) \/ ReadCommand(l)
    <2>1. /\ phase = "prompt" /\ phase' \in {"prompt", "idle", "exec", "split"}
          /\ UNCHANGED <<names, cwd>> /\ free' = free
      BY <1>2 DEF ReadBlank, ReadExit, ReadAbsolute, ReadCommand, Read
    <2> QED
      BY <1>0, <2>1, QuietWhere
  <1>3. CASE Parse
    <2>1. /\ phase \in {"split", "search"} /\ phase' \in {"split", "search", "exec", "prompt", "fault"}
          /\ UNCHANGED <<names, cwd>> /\ free' = free
      BY <1>3 DEF Parse, Split, LookHere, SearchPath
    <2> QED
      BY <1>0, <2>1, QuietWhere
  <1>4. CASE Execute \/ Cat \/ Ls \/ InteractiveProgram
    <2>1. \A rc : Returned(rc) => phase' = "prompt"
      BY DEF Returned
    <2>2. /\ phase \in {"exec", "running"} /\ phase' \in {"prompt", "running", "fault"}
          /\ UNCHANGED <<names, cwd>> /\ free' \in Nat
      BY <1>0, <1>4, <2>1 DEF Execute, ExecFails, ExecShell, ExecModule, StartShell, Cat, Ls, Running,
           InteractiveProgram
    <2> QED
      BY <2>2, QuietWhere
  <1>5. CASE Cd \/ OtherProgram
    BY <1>5, CdBoot, OtherProgramBoot
  <1>6. CASE UNCHANGED vars
    <2>1. /\ phase' = phase /\ mounts' = mounts /\ ram' = ram /\ drivers' = drivers /\ apps' = apps /\ cwd' = cwd
          /\ free' = free
      BY <1>6 DEF vars, names, registries
    <2>2. MountsInv' /\ RegistriesInv' /\ (Booted' <=> Booted)
      BY <2>1 DEF PlaceInv, BootInv, MountsInv, RegistriesInv, DeviceList, AppList, Booted
    <2>3. RamInv'
      BY <2>1 DEF PlaceInv, BootInv, RamInv, Hidden, WithRom, Booted
    <2>4. WhereInv'
      BY <2>1 DEF PlaceInv, WhereInv, CanBeIn, InRam, InRom, InApps, Hidden, WithRom, Booted
    <2> QED
      BY <2>1, <2>2, <2>3, <2>4 DEF PlaceInv, BootInv
  <1> QED
    BY <1>1, <1>2, <1>3, <1>4, <1>5, <1>6 DEF Next, Program, PlaceInv

-----------------------------------------------------------------------------
(* What the arguments are.                                                  *)

(* One word is the words of a line where nothing but blanks follow it.      *)
LEMMA OneWord ==
    ASSUME NEW s, IsPath(s), Len(s) >= 1, IsWord(s[1]), \A i \in 2 .. Len(s) : s[i] = Space
    PROVE  WordsOf(s) = <<s[1]>>
  <1>1. PICK a : a = <<1>>
    OBVIOUS
  <1>2. a \in Seq(Nat) /\ Len(a) = 1 /\ a[1] = 1 /\ DOMAIN a = {1} /\ Range(a) = {1} /\ Increasing(a)
    BY <1>1 DEF Range, Increasing
  <1>3. PICK m \in Nat : m = Len(s) /\ m >= 1
    BY PathLength
  <1>4. WordsAt(s) = {1}
    <2>1. \A i \in 1 .. m : i = 1 \/ i \in 2 .. m
      BY <1>3
    <2> QED
      BY <1>3, <2>1 DEF WordsAt, IsWord
  <1>5. WordsOf(s) = [k \in 1 .. Len(a) |-> s[a[k]]]
    <2>1. a \in Seq(Nat) /\ Increasing(a)
      BY <1>2
    <2>2. Range(a) = WordsAt(s)
      BY <1>2, <1>4
    <2> QED
      BY ONLY IsPath(s), <2>1, <2>2, WordsListed
  <1>6. [k \in 1 .. 1 |-> s[a[k]]] = <<s[1]>>
    <2>1. \A k \in 1 .. 1 : s[a[k]] = s[1]
      BY <1>2
    <2>2. [k \in 1 .. 1 |-> s[a[k]]] = [k \in 1 .. 1 |-> s[1]]
      BY <2>1
    <2>3. [k \in 1 .. 1 |-> s[1]] = <<s[1]>>
      OBVIOUS
    <2> QED
      BY <2>2, <2>3
  <1> QED
    BY <1>2, <1>5, <1>6

(* What stands in the buffer at and behind a word that was cut off.         *)
LEMMA BehindAWord ==
    ASSUME NEW l \in Lines, ~Blank(l), NEW a, NEW b, IsCut(l, a, b, <<1, 0>>), NEW k \in 1 .. Len(a)
    PROVE  /\ a[k] \in 1 .. Len(l) /\ b[a[k]] = l[a[k]] /\ IsWord(l[a[k]]) /\ Len(b) = Len(l) /\ IsPath(b)
           /\ k < Len(a) => a[k] + 1 \in 1 .. Len(l) /\ b[a[k] + 1] = Nul
           /\ k = Len(a) => \A j \in a[k] + 1 .. Len(l) : b[j] = Space
  <1>1. PICK m \in Nat : m = Len(l)
    BY LineFacts, PathLength
  <1>2. PICK r : r = <<1, 0>>
    OBVIOUS
  <1>3. PICK W : W = Words(l)
    OBVIOUS
  <1>4. /\ a \in Seq(Nat) /\ Range(a) = W /\ Increasing(a) /\ b = Cut(l, W)
        /\ \A i \in W : i \in 1 .. m /\ b[i] = l[i]
    <2>1. IsCut(l, a, b, r) /\ ~(r[1] <= r[2])
      BY <1>2
    <2>2. a \in Seq(Nat) /\ Range(a) = Words(l) /\ \A i \in Words(l) : i \in 1 .. Len(l) /\ b[i] = l[i]
      BY <2>1, AllCut
    <2> QED
      BY <1>1, <1>3, <2>1, <2>2 DEF IsCut
  <1>5. PICK c \in Nat : c = Len(a) /\ DOMAIN a = 1 .. c
    BY <1>4, LenProperties
  <1>6. /\ \A i \in 1 .. c : a[i] \in W /\ a[i] \in 1 .. m
        /\ \A i, j \in 1 .. c : i < j => a[i] < a[j]
        /\ \A i \in W : \E j \in 1 .. c : a[j] = i
    BY <1>4, <1>5 DEF Range, Increasing
  <1>7. \A i \in 1 .. m : (i \in W <=> l[i] # Space) /\ (i \in W <=> IsWord(l[i]))
    BY <1>1, <1>3, LineFacts DEF Words, WordsAt
  <1>8. PICK x \in 1 .. m : x = a[k] /\ x \in W /\ k \in 1 .. c
    BY <1>5, <1>6
  <1>9. /\ IsPath(b) /\ Len(b) = m
        /\ \A i \in 1 .. m : b[i] = IF i - 1 \in W /\ (\E j \in W : j > i) THEN Nul ELSE l[i]
    BY <1>1, <1>3, <1>4, CutIs, PathIs, ZenonT(60)
  <1>10. ASSUME k < c PROVE x + 1 \in 1 .. m /\ b[x + 1] = Nul
    <2>1. PICK y \in 1 .. m : y = a[c] /\ y \in W /\ x < y
      BY <1>5, <1>6, <1>8, <1>10
    <2>2. x + 1 \in 1 .. m /\ x \in 1 .. m - 1
      BY <2>1
    <2>3. x + 1 # y
      <3>1. l[x] = Space \/ l[x + 1] = Space
        BY <1>1, <2>2, LineFacts
      <3> QED
        BY <1>7, <1>8, <2>1, <3>1
    <2>4. (x + 1) - 1 \in W /\ y > x + 1
      BY <1>8, <2>1, <2>3
    <2> QED
      BY <1>9, <2>1, <2>2, <2>4
  <1>11. ASSUME k = c, NEW j \in x + 1 .. m PROVE b[j] = Space
    <2>1. \A i \in W : i <= x
      <3> SUFFICES ASSUME NEW i \in W PROVE i <= x
        OBVIOUS
      <3>1. PICK n \in 1 .. c : a[n] = i
        BY <1>6
      <3>2. n < c \/ n = c
        OBVIOUS
      <3> QED
        BY <1>6, <1>8, <1>11, <3>1, <3>2
    <2>2. j \in 1 .. m /\ j > x
      BY <1>8
    <2>3. ~\E i \in W : i > j
      <3> SUFFICES ASSUME NEW i \in W, i > j PROVE FALSE
        OBVIOUS
      <3>1. i \in 1 .. m /\ i <= x
        BY <1>4, <2>1
      <3> QED
        BY <2>2, <3>1
    <2>4. j \notin W
      BY <2>1, <2>2
    <2> QED
      BY <1>7, <1>9, <2>2, <2>3, <2>4
  <1> QED
    BY <1>1, <1>4, <1>5, <1>7, <1>8, <1>9, <1>10, <1>11

LEMMA PartOf ==
    ASSUME NEW b, IsPath(b), NEW x \in 1 .. Len(b), NEW e \in x .. Len(b)
    PROVE  /\ IsPath(SubSeq(b, x, e)) /\ Len(SubSeq(b, x, e)) = e - x + 1
           /\ \A i \in 1 .. e - x + 1 : SubSeq(b, x, e)[i] = b[x + i - 1]
  <1>1. PICK S : S = Range(b)
    OBVIOUS
  <1>2. b \in Seq(S)
    BY <1>1 DEF IsPath
  <1>3. SubSeq(b, x, e) \in Seq(S) /\ Len(SubSeq(b, x, e)) = e - x + 1
        /\ \A i \in 1 .. e - x + 1 : SubSeq(b, x, e)[i] = b[x + i - 1]
    BY <1>2
  <1> QED
    BY <1>3, PathIs

(* An argument is its word, and blanks behind the last one.                 *)
LEMMA ArgumentIs ==
    ASSUME line \in Lines, ~Blank(line), CutInv, rest = <<1, 0>>, NEW k \in 1 .. Len(argv)
    PROVE  /\ WordsOf(StringAt(argv[k])) = <<line[argv[k]]>> /\ StringAt(argv[k])[1] = line[argv[k]]
           /\ k < Len(argv) => Len(StringAt(argv[k])) = 1
  <1>1. PICK l, a, b : l = line /\ a = argv /\ b = buffer
    OBVIOUS
  <1>2. PICK x, m : x = a[k] /\ m = Len(b)
    OBVIOUS
  <1>3. /\ x \in 1 .. m /\ b[x] = l[x] /\ IsWord(l[x]) /\ m = Len(l) /\ IsPath(b)
        /\ k < Len(a) => x + 1 \in 1 .. m /\ b[x + 1] = Nul
        /\ k = Len(a) => \A j \in x + 1 .. m : b[j] = Space
    <2>1. l \in Lines /\ ~Blank(l) /\ IsCut(l, a, b, <<1, 0>>) /\ k \in 1 .. Len(a)
      BY <1>1 DEF CutInv
    <2> QED
      BY <1>2, <2>1, BehindAWord
  <1>4. m \in Nat /\ Space # Nul
    BY <1>3, PathLength, ShellAssumption
  <1>5. PICK ends : ends = {j \in x .. m : b[j] = Nul}
    OBVIOUS
  <1>6. PICK s : s = StringAt(x)
    OBVIOUS
  <1>7. s = SubSeq(b, x, IF ends = {} THEN m ELSE Least(ends) - 1)
    BY <1>1, <1>2, <1>5, <1>6 DEF StringAt
  <1>8. CASE k < Len(a)
    <2>1. x + 1 \in ends /\ x \notin ends /\ ends \subseteq Nat /\ \A j \in ends : x <= j
      BY <1>3, <1>4, <1>5, <1>8 DEF IsWord
    <2>2. PICK e : e = Least(ends)
      OBVIOUS
    <2>3. e \in ends /\ \A j \in ends : e <= j
      BY <2>1, <2>2, LeastIs
    <2>4. e = x + 1
      <3>1. e \in Nat /\ x \in Nat /\ x <= e /\ e # x /\ e <= x + 1
        BY <1>3, <2>1, <2>3
      <3> QED
        BY <3>1
    <2>5. s = SubSeq(b, x, x)
      <3>1. ends # {} /\ Least(ends) - 1 = x
        BY <1>3, <2>1, <2>2, <2>4
      <3> QED
        BY <1>7, <3>1
    <2>6. x \in x .. m /\ x - x + 1 = 1 /\ 1 \in 1 .. 1 /\ x + 1 - 1 = x
      BY <1>3, <1>4
    <2>7. IsPath(s) /\ Len(s) = 1 /\ s[1] = b[x]
      <3>1. IsPath(b) /\ x \in 1 .. Len(b) /\ x \in x .. Len(b)
        BY <1>2, <1>3, <2>6
      <3>2. /\ IsPath(SubSeq(b, x, x)) /\ Len(SubSeq(b, x, x)) = x - x + 1
            /\ \A i \in 1 .. x - x + 1 : SubSeq(b, x, x)[i] = b[x + i - 1]
        BY ONLY <3>1, PartOf
      <3> QED
        BY <2>5, <2>6, <3>2
    <2>8. WordsOf(s) = <<s[1]>>
      <3>1. \A i \in 2 .. Len(s) : s[i] = Space
        BY <2>7
      <3>2. IsPath(s) /\ Len(s) >= 1 /\ IsWord(s[1])
        BY <1>3, <2>7
      <3> QED
        BY ONLY <3>1, <3>2, OneWord
    <2> QED
      BY <1>1, <1>2, <1>3, <1>6, <2>7, <2>8
  <1>9. CASE ~(k < Len(a))
    <2>1. k = Len(a)
      <3>1. Len(a) \in Nat
        BY <1>1, LenProperties DEF CutInv, IsCut
      <3> QED
        BY <1>1, <1>9, <3>1
    <2>2. ends = {}
      <3> SUFFICES ASSUME NEW j \in ends PROVE FALSE
        OBVIOUS
      <3>1. j \in x .. m /\ b[j] = Nul
        BY <1>5
      <3>2. j = x \/ j \in x + 1 .. m
        BY <1>3, <3>1
      <3> QED
        BY <1>3, <1>4, <2>1, <3>1, <3>2 DEF IsWord
    <2>3. s = SubSeq(b, x, m)
      BY <1>7, <2>2
    <2>4. m \in x .. m /\ m - x + 1 \in Nat /\ m - x + 1 >= 1 /\ x + 1 - 1 = x
      BY <1>3, <1>4
    <2>5. /\ IsPath(s) /\ Len(s) = m - x + 1
          /\ \A i \in 1 .. m - x + 1 : s[i] = b[x + i - 1]
      <3>1. IsPath(b) /\ x \in 1 .. Len(b) /\ m \in x .. Len(b)
        BY <1>2, <1>3, <2>4
      <3>2. /\ IsPath(SubSeq(b, x, m)) /\ Len(SubSeq(b, x, m)) = m - x + 1
            /\ \A i \in 1 .. m - x + 1 : SubSeq(b, x, m)[i] = b[x + i - 1]
        BY ONLY <3>1, PartOf
      <3> QED
        BY <2>3, <3>2
    <2>6. s[1] = b[x]
      BY <2>4, <2>5
    <2>7. ASSUME NEW i \in 2 .. Len(s) PROVE s[i] = Space
      <3>1. i \in 1 .. m - x + 1 /\ x + i - 1 \in x + 1 .. m
        BY <1>3, <1>4, <2>5
      <3> QED
        BY <1>3, <2>1, <2>5, <3>1
    <2>8. Len(s) >= 1
      BY <2>4, <2>5
    <2>9. WordsOf(s) = <<s[1]>>
      BY <1>3, <2>5, <2>6, <2>7, <2>8, OneWord
    <2> QED
      BY <1>1, <1>2, <1>3, <1>6, <1>9, <2>6, <2>9
  <1> QED
    BY <1>8, <1>9

LEMMA ArgumentsAre ==
    ASSUME LineInv
    PROVE  ArgumentsAreWords
  <1> SUFFICES ASSUME phase \in {"exec", "running"}, ~IsAbsolute(WordsOf(line)[1])
               PROVE  /\ Len(argv) = Len(WordsOf(line))
                      /\ \A i \in DOMAIN argv :
                            /\ WordsOf(StringAt(argv[i])) = <<WordsOf(line)[i]>>
                            /\ StringAt(argv[i])[1] = WordsOf(line)[i]
                            /\ i < Len(argv) => Len(StringAt(argv[i])) = 1
    BY DEF ArgumentsAreWords
  <1>1. line \in Lines /\ ~Blank(line) /\ CutInv /\ rest = <<1, 0>>
    BY DEF LineInv
  <1>2. PICK l, a, b, r : l = line /\ a = argv /\ b = buffer /\ r = rest
    OBVIOUS
  <1>3. a \in Seq(Nat) /\ WordsOf(l) = [k \in 1 .. Len(a) |-> l[a[k]]]
    <2>1. l \in Lines /\ ~Blank(l) /\ IsCut(l, a, b, r) /\ ~(r[1] <= r[2])
      BY <1>1, <1>2 DEF CutInv
    <2> QED
      BY <2>1, AllCut
  <1>4. PICK c \in Nat : c = Len(a) /\ DOMAIN a = 1 .. c
    BY <1>3, LenProperties
  <1>5. PICK w : w = WordsOf(l)
    OBVIOUS
  <1>6. Len(w) = c /\ \A k \in 1 .. c : w[k] = l[a[k]]
    <2>1. w = [k \in 1 .. c |-> l[a[k]]]
      BY <1>3, <1>4, <1>5
    <2> QED
      BY <2>1
  <1>7. ASSUME NEW i \in 1 .. c
        PROVE  /\ WordsOf(StringAt(argv[i])) = <<w[i]>> /\ StringAt(argv[i])[1] = w[i]
               /\ i < Len(argv) => Len(StringAt(argv[i])) = 1
    <2>1. i \in 1 .. Len(argv) /\ w[i] = line[argv[i]]
      BY <1>2, <1>4, <1>6
    <2> QED
      BY <1>1, <2>1, ArgumentIs
  <1> QED
    BY <1>2, <1>4, <1>5, <1>6, <1>7

-----------------------------------------------------------------------------
(* The theorems.                                                            *)

(* The file systems are mounted as kernel_process mounts them, no file of   *)
(* RamFs but a mount point is hidden by one, and the working directory is a *)
(* directory, whatever programs and cd do (main.cpp, vfs.cpp, chdir).       *)
THEOREM PlacesAreKept == Spec => []PlaceInv
  <1>1. Init => PlaceInv
    BY InitInv DEF ShellInv
  <1>2. PlaceInv /\ [Next]_vars => PlaceInv'
    BY WhereStep DEF PlaceInv
  <1> QED
    BY <1>1, <1>2, PTL DEF Spec

(* The buffer is the line with a terminator behind each word but the last,  *)
(* and argv has where the words begin that the splitter has taken           *)
(* (shell/main.cpp, Splitter).                                              *)
THEOREM LineIsCut == Spec => []LineInv
  <1>1. Init => LineInv
    BY InitInv DEF ShellInv
  <1>2. LineInv /\ [Next]_vars => LineInv'
    BY LineStep
  <1> QED
    BY <1>1, <1>2, PTL DEF Spec

(* The two, and what was looked for: the inductive invariant.               *)
THEOREM ShellInductive ==
    ASSUME NamesAreApart
    PROVE  Spec => []ShellInv
  <1>1. Init => ShellInv
    BY InitInv
  <1>2. ShellInv /\ [Next]_vars => ShellInv'
    <2> SUFFICES ASSUME ShellInv, [Next]_vars PROVE ShellInv'
      OBVIOUS
    <2>1. PlaceInv'
      BY WhereStep DEF ShellInv, PlaceInv
    <2>2. LineInv'
      BY LineStep DEF ShellInv
    <2>3. TargetInv'
      BY TargetStep
    <2> QED
      BY <2>1, <2>2, <2>3 DEF ShellInv
  <1> QED
    BY <1>1, <1>2, PTL DEF Spec

(* Every name a listing shows leads to its file, whatever was mounted,      *)
(* registered and created, if no driver and no program is called after a    *)
(* mount point (mount_points.cpp, vfs.cpp).                                 *)
THEOREM ListedNamesLead ==
    ASSUME NamesAreApart
    PROVE  Spec => []ListedIsReachable
  <1>1. PlaceInv => ListedIsReachable
    BY NamesAreInv, ListedLeads DEF PlaceInv, ListedIsReachable
  <1> QED
    BY <1>1, PlacesAreKept, PTL

(* The program that runs is the one the line asks for (shell/main.cpp).     *)
THEOREM RunsTheCommand ==
    ASSUME NamesAreApart
    PROVE  Spec => []RunsWhatWasMeant
  <1>1. ShellInv => RunsWhatWasMeant
    BY DEF ShellInv, TargetInv, RunsWhatWasMeant
  <1> QED
    BY <1>1, ShellInductive, PTL

(* A program's arguments are the words of the line, however many and with   *)
(* blanks wherever (shell/main.cpp, Splitter::get_next_part).               *)
THEOREM WordsArrive == Spec => []ArgumentsAreWords
  <1>1. LineInv => ArgumentsAreWords
    BY ArgumentsAre
  <1> QED
    BY <1>1, LineIsCut, PTL

(* "Command not found" is said only of a command that is in neither         *)
(* directory (shell/main.cpp).                                              *)
LEMMA NotInThePath ==
    ASSUME NamesInv, Booted, CanOpenDir(PathDirectory), NEW w, w \notin List(PathDirectory)
    PROVE  Meaning(Append(PathDirectory, w)) = "none"
  <1>1. MountsInv /\ mounts # <<>> /\ RegistriesInv /\ RamInv
    BY DEF NamesInv
  <1>2. PICK p : p = <<"rom", "bin">>
    OBVIOUS
  <1>3. p = Append(<<"rom">>, "bin") /\ Tail(p) = <<"bin">>
    BY <1>2, TwoNames
  <1>4. IsPath(p) /\ p # <<>> /\ p[1] = "rom" /\ ~Occurs("dev", p) /\ Occurs("bin", p)
    <2>1. IsPath(<<"rom">>) /\ \A m : Occurs(m, <<"rom">>) <=> StartsWith("rom", m)
      BY OneName
    <2>2. IsPath(p) /\ p # <<>> /\ \A m : Occurs(m, p) <=> StartsWith("rom", m) \/ StartsWith("bin", m)
      BY <1>3, <2>1, OneNameMore, OccursMore
    <2> QED
      BY <1>2, <2>2, KernelNames
  <1>5. p = PathDirectory
    BY <1>2 DEF PathDirectory
  <1>6. CASE ~WithRom
    <2>1. Goes(p, A)
      BY <1>1, <1>4, <1>6, WhereItGoes
    <2>2. Get(p) = "none"
      BY <1>4, <2>1, GoesApps
    <2> QED
      BY <1>5, <2>2 DEF CanOpenDir
  <1>7. CASE WithRom
    <2>1. Get(p) = RomGet(<<"bin">>) /\ List(p) = RomList(<<"bin">>)
      BY <1>3, <1>4, <1>7, RomPathMeans
    <2>2. PICK q : q = Append(p, w)
      OBVIOUS
    <2>3. IsPath(q) /\ q # <<>> /\ q[1] = "rom" /\ Tail(q) = Append(<<"bin">>, w)
      BY <1>3, <1>4, <2>2, OneNameMore, TailMore
    <2>4. Meaning(q) = RomGet(Tail(q))
      BY <1>7, <2>3, RomPathMeans
    <2>5. PICK t : t = Tail(q)
      OBVIOUS
    <2>6. t # <<>> /\ Front(t) = <<"bin">> /\ Last(t) = w
      <3>1. PICK b : b = <<"bin">>
        OBVIOUS
      <3>2. IsPath(b) /\ t = Append(b, w)
        BY <2>3, <2>5, <3>1, OneName
      <3>3. t # <<>> /\ Front(t) = b /\ Last(t) = w
        BY <3>2, OneNameMore
      <3> QED
        BY <3>1, <3>3
    <2>7. t \notin DOMAIN Rom
      <3> SUFFICES ASSUME t \in DOMAIN Rom PROVE FALSE
        OBVIOUS
      <3>1. Rom[<<"bin">>] = "dir" /\ <<"bin">> \in DOMAIN Rom
        BY <2>6, NamespaceAssumption
      <3>2. RomGet(<<"bin">>) = "dir"
        BY <3>1 DEF RomGet, KindIn
      <3>3. w \in Children(Rom, <<"bin">>)
        BY <2>6 DEF Children
      <3> QED
        BY <1>5, <2>1, <3>2, <3>3 DEF RomList
    <2>8. RomGet(t) = "none"
      BY <2>7 DEF RomGet, KindIn
    <2> QED
      BY <1>5, <2>2, <2>4, <2>5, <2>8
  <1> QED
    BY <1>6, <1>7

THEOREM NotFoundWhereThereIsNone ==
    ASSUME NamesAreApart
    PROVE  Spec => NotFoundIsTrue
  <1> DEFINE IsTrue == phase = "search" /\ told' /\ free > 0 =>
                          /\ ~HasFile(Here(line))
                          /\ Meaning(Append(PathDirectory, WordsOf(line)[1])) = "none"
  <1>1. ASSUME ShellInv, [Next]_vars PROVE [IsTrue]_vars
    <2> SUFFICES ASSUME Next, phase = "search", told', free > 0
                 PROVE  /\ ~HasFile(Here(line))
                        /\ Meaning(Append(PathDirectory, WordsOf(line)[1])) = "none"
      BY <1>1
    <2>1. SearchPath
      BY DEF Next, Boot, Construct, EnterMain, MountRam, MountRom, MountDevices, Parse, Split, LookHere,
             Execute, ExecFails, ExecShell, ExecModule, Program, Cd, Cat, Ls, OtherProgram, InteractiveProgram, Running,
             ReadBlank, ReadExit, ReadAbsolute, ReadCommand, Read
    <2>2. phase' = "prompt" /\ CanOpenDir(PathDirectory) /\ Command \notin List(PathDirectory)
      BY <2>1 DEF SearchPath
    <2>3. ~HasFile(Here(line))
      BY <1>1 DEF ShellInv, TargetInv
    <2>4. Command = WordsOf(line)[1]
      BY <1>1, SearchedIsCut DEF ShellInv
    <2>5. NamesInv /\ Booted
      BY <1>1, NamesAreInv DEF ShellInv, PlaceInv, BootInv
    <2>6. Meaning(Append(PathDirectory, Command)) = "none"
      BY <2>2, <2>5, NotInThePath
    <2> QED
      BY <2>3, <2>4, <2>6
  <1>2. ShellInv /\ [Next]_vars => [IsTrue]_vars
    BY <1>1
  <1>3. Spec => [][IsTrue]_vars
    <2> HIDE DEF IsTrue
    <2> QED
      BY <1>2, ShellInductive, PTL DEF Spec
  <1> QED
    BY <1>3 DEF NotFoundIsTrue
=============================================================================
