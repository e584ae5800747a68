--------------------------- MODULE InductionLemmas ---------------------------
(***************************************************************************)
(* Induction stated about sets and functions instead of predicates.  The   *)
(* library's theorems take a predicate as a parameter; these take the set  *)
(* of the values it holds for.                                             *)
(***************************************************************************)
EXTENDS Integers, Sequences, FiniteSets, SequencesExt, SequenceTheorems,
        FiniteSetTheorems, WellFoundedInduction, TLAPS

(* A set of naturals has a least element.                                   *)
LEMMA LeastNatural ==
    ASSUME NEW T, T \subseteq Nat, T # {}
    PROVE  \E n \in T : \A m \in T : n <= m
  <1>1. \E R : /\ IsWellFoundedOn(R, Nat)
               /\ \A m, n \in Nat : m < n => <<m, n>> \in R
    <2>1. IsWellFoundedOn(OpToRel(<, Nat), Nat)
      BY NatLessThanWellFounded
    <2>2. \A m, n \in Nat : m < n => <<m, n>> \in OpToRel(<, Nat)
      BY DEF OpToRel
    <2> QED
      BY <2>1, <2>2
  <1>2. PICK R : IsWellFoundedOn(R, Nat) /\ \A m, n \in Nat : m < n => <<m, n>> \in R
    BY <1>1
  <1>3. PICK n \in T : \A m \in T : ~ (<<m, n>> \in R)
    <2>1. IsWellFoundedOn(R, Nat)
      BY <1>2
    <2> QED
      BY <2>1, WFMin, Zenon
  <1>4. \A m \in T : n <= m
    <2> SUFFICES ASSUME NEW m \in T PROVE ~(m < n)
      OBVIOUS
    <2> QED
      BY <1>2, <1>3
  <1> QED
    BY <1>4

(* Induction: a set that has 0 and with n also n + 1 has every natural.     *)
LEMMA NaturalInduction ==
    ASSUME NEW T, 0 \in T, \A n \in Nat : n \in T => n + 1 \in T
    PROVE  Nat \subseteq T
  <1> SUFFICES ASSUME Nat \ T # {} PROVE FALSE
    OBVIOUS
  <1>1. PICK n \in Nat \ T : \A m \in Nat \ T : n <= m
    BY LeastNatural
  <1>2. n - 1 \in Nat
    BY <1>1
  <1>3. n - 1 \in T
    BY <1>1, <1>2
  <1> QED
    BY <1>1, <1>2, <1>3

(* A set of naturals with an upper bound has a greatest element.            *)
LEMMA GreatestOfBounded ==
    ASSUME NEW T, T \subseteq Nat, T # {}, NEW b \in Nat, \A n \in T : n <= b
    PROVE  \E n \in T : \A m \in T : m <= n
  <1> DEFINE U == {c \in Nat : \A n \in T : n <= c}
  <1>1. PICK c \in U : \A d \in U : c <= d
    <2>1. b \in U
      OBVIOUS
    <2> HIDE DEF U
    <2>2. U \subseteq Nat
      BY DEF U
    <2> QED
      BY <2>1, <2>2, LeastNatural
  <1>2. c \in T
    <2> SUFFICES ASSUME c \notin T PROVE FALSE
      OBVIOUS
    <2>1. \A n \in T : n \in Nat /\ n <= c /\ n # c
      BY <1>1
    <2>2. c \in Nat /\ \A n \in T : n \in Nat /\ n <= c - 1
      BY <2>1
    <2>3. c - 1 \in Nat
      <3>1. PICK n \in T : TRUE
        OBVIOUS
      <3>2. n \in Nat /\ n <= c - 1
        BY <3>1, <2>2
      <3> QED
        BY <3>2, <2>2
    <2>4. c - 1 \in U
      BY <2>2, <2>3
    <2> QED
      BY <1>1, <2>4
  <1> QED
    BY <1>1, <1>2

(* A finite set of naturals has a greatest element.                         *)
LEMMA GreatestOfFinite ==
    ASSUME NEW T, T \subseteq Nat, T # {}, IsFiniteSet(T)
    PROVE  \E n \in T : \A m \in T : m <= n
  <1>1. PICK k \in Nat : ExistsSurjection(1..k, T)
    BY FS_NatSurjection
  <1>2. PICK f \in [1..k -> T] : \A t \in T : \E i \in 1..k : f[i] = t
    BY <1>1 DEF ExistsSurjection, Surjection
  <1> DEFINE G == {n \in Nat : \E b \in Nat : \A i \in 1..k : i <= n => f[i] <= b}
  <1>3. 0 \in G
    OBVIOUS
  <1>4. ASSUME NEW n \in Nat, n \in G PROVE n + 1 \in G
    <2>1. PICK b \in Nat : \A i \in 1..k : i <= n => f[i] <= b
      BY <1>4
    <2>2. CASE n + 1 \in 1..k
      <3> DEFINE c == IF f[n + 1] <= b THEN b ELSE f[n + 1]
      <3>1. f[n + 1] \in Nat
        BY <2>2
      <3>2. c \in Nat /\ b <= c /\ f[n + 1] <= c
        BY <3>1
      <3> HIDE DEF c
      <3>3. ASSUME NEW i \in 1..k, i <= n + 1 PROVE f[i] <= c
        <4>1. CASE i = n + 1
          BY <4>1, <3>2
        <4>2. CASE i <= n
          <5>1. f[i] \in Nat /\ f[i] <= b
            BY <4>2, <2>1
          <5> QED
            BY <5>1, <3>2
        <4> QED
          BY <3>3, <4>1, <4>2
      <3> QED
        BY <3>2, <3>3
    <2>3. CASE n + 1 \notin 1..k
      <3>1. ASSUME NEW i \in 1..k, i <= n + 1 PROVE f[i] <= b
        <4>1. i # n + 1
          BY <2>3
        <4> QED
          BY <3>1, <4>1, <2>1
      <3> QED
        BY <3>1
    <2> QED
      BY <2>2, <2>3
  <1>5. k \in G
    <2> HIDE DEF G
    <2> QED
      BY <1>3, <1>4, NaturalInduction
  <1>6. PICK b \in Nat : \A i \in 1..k : f[i] <= b
    BY <1>5
  <1>7. \A t \in T : t <= b
    BY <1>2, <1>6
  <1> QED
    BY <1>7, GreatestOfBounded

-----------------------------------------------------------------------------
(* Sums over finite sets.                                                   *)

SumOver(F, S) == MapThenSumSet(LAMBDA b : F[b], S)

(* g gives the sum of F over each part of S, one element after another.     *)
Sums(F, S, g) ==
    /\ g = [s \in SUBSET S |-> g[s]]
    /\ \A s \in SUBSET S :
        g[s] = IF s = {} THEN 0 ELSE F[CHOOSE x \in s : TRUE] + g[s \ {CHOOSE x \in s : TRUE}]

(* What holds of a set when it holds of the smaller ones holds of all finite *)
(* ones.                                                                    *)
LEMMA SmallerFirst ==
    ASSUME NEW S, IsFiniteSet(S), NEW T,
           \A s \in SUBSET S : (\A t \in SUBSET S : Cardinality(t) < Cardinality(s) => t \in T) => s \in T
    PROVE  SUBSET S \subseteq T
  <1> DEFINE N == {n \in Nat : \A s \in SUBSET S : Cardinality(s) < n => s \in T}
  <1>1. \A s \in SUBSET S : Cardinality(s) \in Nat
    BY FS_Subset, FS_CardinalityType
  <1>2. 0 \in N
    BY <1>1
  <1>3. ASSUME NEW n \in Nat, n \in N PROVE n + 1 \in N
    <2> SUFFICES ASSUME NEW s \in SUBSET S, Cardinality(s) < n + 1 PROVE s \in T
      OBVIOUS
    <2>1. \A t \in SUBSET S : Cardinality(t) < Cardinality(s) => Cardinality(t) < n
      BY <1>1
    <2>2. \A t \in SUBSET S : Cardinality(t) < Cardinality(s) => t \in T
      BY <2>1, <1>3
    <2> QED
      BY <2>2
  <1>4. Nat \subseteq N
    <2> HIDE DEF N
    <2> QED
      BY <1>2, <1>3, NaturalInduction
  <1> SUFFICES ASSUME NEW s \in SUBSET S PROVE s \in T
    OBVIOUS
  <1>5. Cardinality(s) + 1 \in Nat /\ Cardinality(s) < Cardinality(s) + 1
    BY <1>1
  <1>6. Cardinality(s) + 1 \in N
    BY <1>4, <1>5
  <1> QED
    BY <1>5, <1>6

LEMMA LessOne ==
    ASSUME NEW S, IsFiniteSet(S), NEW s \in SUBSET S, NEW x \in s
    PROVE  /\ s \ {x} \in SUBSET S
           /\ Cardinality(s \ {x}) < Cardinality(s)
           /\ Cardinality(s) \in Nat /\ Cardinality(s \ {x}) = Cardinality(s) - 1
  <1>1. IsFiniteSet(s)
    BY FS_Subset
  <1>2. Cardinality(s) \in Nat
    BY <1>1, FS_CardinalityType
  <1>3. Cardinality(s \ {x}) = Cardinality(s) - 1
    BY <1>1, FS_RemoveElement
  <1> QED
    BY <1>2, <1>3

(* There is such a function: the parts of up to n elements have one.        *)
LEMMA SumsExist ==
    ASSUME NEW S, IsFiniteSet(S), NEW F \in [S -> Int]
    PROVE  \E g : Sums(F, S, g)
  <1> DEFINE Up(n) == {s \in SUBSET S : Cardinality(s) <= n}
             c(s) == CHOOSE x \in s : TRUE
             N == {n \in Nat : \E g \in [Up(n) -> Int] :
                    \A s \in Up(n) : g[s] = IF s = {} THEN 0 ELSE F[c(s)] + g[s \ {c(s)}]}
  <1>1. \A s \in SUBSET S : Cardinality(s) \in Nat
    BY FS_Subset, FS_CardinalityType
  <1>2. \A s \in SUBSET S : s # {} => c(s) \in s
    OBVIOUS
  <1>3. 0 \in N
    <2>1. \A s \in Up(0) : s = {}
      <3> SUFFICES ASSUME NEW s \in Up(0), s # {} PROVE FALSE
        OBVIOUS
      <3>1. PICK x \in s : TRUE
        OBVIOUS
      <3>2. Cardinality(s) \in Nat /\ Cardinality(s \ {x}) = Cardinality(s) - 1
        BY <3>1, LessOne
      <3>3. Cardinality(s \ {x}) \in Nat
        BY <1>1
      <3> QED
        BY <3>2, <3>3
    <2> DEFINE g == [s \in Up(0) |-> 0]
    <2>2. g \in [Up(0) -> Int]
      OBVIOUS
    <2>3. \A s \in Up(0) : g[s] = IF s = {} THEN 0 ELSE F[c(s)] + g[s \ {c(s)}]
      BY <2>1
    <2> HIDE DEF g, Up, c
    <2> QED
      BY <2>2, <2>3
  <1>4. ASSUME NEW n \in Nat, n \in N PROVE n + 1 \in N
    <2>1. PICK g \in [Up(n) -> Int] :
            \A s \in Up(n) : g[s] = IF s = {} THEN 0 ELSE F[c(s)] + g[s \ {c(s)}]
      BY <1>4
    <2> DEFINE h == [s \in Up(n + 1) |-> IF s = {} THEN 0 ELSE F[c(s)] + g[s \ {c(s)}]]
    <2>2. \A s \in Up(n + 1) : s # {} => /\ c(s) \in s
                                         /\ s \ {c(s)} \in Up(n)
      <3> SUFFICES ASSUME NEW s \in Up(n + 1), s # {}
                   PROVE  c(s) \in s /\ s \ {c(s)} \in Up(n)
        OBVIOUS
      <3>1. c(s) \in s
        BY <1>2
      <3> HIDE DEF c
      <3>2. /\ s \ {c(s)} \in SUBSET S
            /\ Cardinality(s) \in Nat /\ Cardinality(s \ {c(s)}) = Cardinality(s) - 1
        BY <3>1, LessOne
      <3> QED
        BY <3>1, <3>2
    <2>3. h \in [Up(n + 1) -> Int]
      <3> SUFFICES ASSUME NEW s \in Up(n + 1), s # {} PROVE F[c(s)] + g[s \ {c(s)}] \in Int
        OBVIOUS
      <3>1. c(s) \in S
        BY <2>2
      <3> HIDE DEF c
      <3>2. F[c(s)] \in Int
        BY <3>1
      <3>3. g[s \ {c(s)}] \in Int
        BY <2>1, <2>2
      <3> QED
        BY <3>2, <3>3
    <2>4. \A s \in Up(n) : s \in Up(n + 1) /\ h[s] = g[s]
      <3> SUFFICES ASSUME NEW s \in Up(n) PROVE s \in Up(n + 1) /\ h[s] = g[s]
        OBVIOUS
      <3>1. s \in Up(n + 1)
        BY <1>1
      <3> HIDE DEF c
      <3> QED
        BY <3>1, <2>1
    <2>5. \A s \in Up(n + 1) : h[s] = IF s = {} THEN 0 ELSE F[c(s)] + h[s \ {c(s)}]
      <3> SUFFICES ASSUME NEW s \in Up(n + 1)
                   PROVE  h[s] = IF s = {} THEN 0 ELSE F[c(s)] + h[s \ {c(s)}]
        OBVIOUS
      <3>1. s # {} => h[s \ {c(s)}] = g[s \ {c(s)}]
        BY <2>2, <2>4
      <3> HIDE DEF c
      <3> QED
        BY <3>1
    <2>6. \E k \in [Up(n + 1) -> Int] :
            \A s \in Up(n + 1) : k[s] = IF s = {} THEN 0 ELSE F[c(s)] + k[s \ {c(s)}]
      <3> HIDE DEF h, Up, c
      <3> WITNESS h \in [Up(n + 1) -> Int]
      <3> QED
        BY <2>5
    <2>7. n + 1 \in Nat
      OBVIOUS
    <2> HIDE DEF Up, c
    <2> QED
      BY <2>6, <2>7, Zenon
  <1>5. Cardinality(S) \in Nat
    BY FS_CardinalityType
  <1>6. Cardinality(S) \in N
    <2> HIDE DEF N
    <2>1. Nat \subseteq N
      BY <1>3, <1>4, NaturalInduction
    <2> QED
      BY <2>1, <1>5
  <1>7. Up(Cardinality(S)) = SUBSET S
    BY FS_Subset
  <1>8. PICK g \in [SUBSET S -> Int] :
            \A s \in SUBSET S : g[s] = IF s = {} THEN 0 ELSE F[c(s)] + g[s \ {c(s)}]
    BY <1>6, <1>7
  <1>9. g = [s \in SUBSET S |-> g[s]]
    BY <1>8
  <1>10. Sums(F, S, g)
    <2> USE DEF Sums
    <2> QED
      BY <1>8, <1>9, Zenon
  <1> QED
    BY <1>10

LEMMA SumsType ==
    ASSUME NEW S, IsFiniteSet(S), NEW F \in [S -> Int], NEW g, Sums(F, S, g)
    PROVE  \A s \in SUBSET S : g[s] \in Int
  <1> DEFINE T == {s \in SUBSET S : g[s] \in Int}
  <1>1. ASSUME NEW s \in SUBSET S, \A t \in SUBSET S : Cardinality(t) < Cardinality(s) => t \in T
        PROVE  s \in T
    <2>1. CASE s = {}
      <3>1. g[s] = 0
        BY <2>1 DEF Sums
      <3> QED
        BY <3>1
    <2>2. CASE s # {}
      <3>1. PICK x \in s : g[s] = F[x] + g[s \ {x}]
        BY <2>2 DEF Sums
      <3>2. s \ {x} \in T
        BY <1>1, LessOne
      <3>3. F[x] \in Int /\ g[s \ {x}] \in Int
        BY <3>2
      <3> QED
        BY <3>1, <3>3
    <2> QED
      BY <2>1, <2>2
  <1>2. SUBSET S \subseteq T
    <2> HIDE DEF T
    <2> QED
      BY <1>1, SmallerFirst
  <1> QED
    BY <1>2

(* Whichever element comes first.                                           *)
LEMMA SumsAnyOrder ==
    ASSUME NEW S, IsFiniteSet(S), NEW F \in [S -> Int], NEW g, Sums(F, S, g)
    PROVE  \A s \in SUBSET S : \A x \in s : g[s] = F[x] + g[s \ {x}]
  <1> DEFINE T == {s \in SUBSET S : \A x \in s : g[s] = F[x] + g[s \ {x}]}
  <1>1. ASSUME NEW s \in SUBSET S, \A t \in SUBSET S : Cardinality(t) < Cardinality(s) => t \in T
        PROVE  s \in T
    <2> SUFFICES ASSUME NEW x \in s PROVE g[s] = F[x] + g[s \ {x}]
      OBVIOUS
    <2>1. PICK y \in s : g[s] = F[y] + g[s \ {y}]
      BY DEF Sums
    <2>2. CASE x = y
      BY <2>1, <2>2
    <2>3. CASE x # y
      <3>1. s \ {y} \in T /\ s \ {x} \in T
        BY <1>1, LessOne
      <3>2. PICK r \in SUBSET S : r = (s \ {y}) \ {x} /\ r = (s \ {x}) \ {y}
        OBVIOUS
      <3>3. g[s \ {y}] = F[x] + g[r]
        BY <3>1, <3>2, <2>3
      <3>4. g[s \ {x}] = F[y] + g[r]
        BY <3>1, <3>2, <2>3
      <3>5. g[r] \in Int
        BY SumsType
      <3>6. F[x] \in Int /\ F[y] \in Int
        OBVIOUS
      <3> QED
        BY <2>1, <3>3, <3>4, <3>5, <3>6
    <2> QED
      BY <2>2, <2>3
  <1>2. SUBSET S \subseteq T
    <2> HIDE DEF T
    <2> QED
      BY <1>1, SmallerFirst
  <1> QED
    BY <1>2

(* A sum depends on the values of what is summed alone.                     *)
LEMMA SumsSame ==
    ASSUME NEW S, NEW R, IsFiniteSet(S), S \subseteq R, NEW F, NEW G, \A x \in S : F[x] = G[x],
           NEW f, Sums(F, S, f), NEW g, Sums(G, R, g)
    PROVE  f[S] = g[S]
  <1> DEFINE T == {s \in SUBSET S : f[s] = g[s]}
  <1>1. ASSUME NEW s \in SUBSET S, \A t \in SUBSET S : Cardinality(t) < Cardinality(s) => t \in T
        PROVE  s \in T
    <2>0. s \in SUBSET R
      OBVIOUS
    <2>1. CASE s = {}
      BY <2>0, <2>1 DEF Sums
    <2>2. CASE s # {}
      <3>1. PICK x \in s : x = CHOOSE y \in s : TRUE
        BY <2>2
      <3>2. f[s] = F[x] + f[s \ {x}]
        BY <3>1, <2>2 DEF Sums
      <3>3. g[s] = G[x] + g[s \ {x}]
        BY <3>1, <2>0, <2>2 DEF Sums
      <3>4. s \ {x} \in T
        BY <1>1, LessOne
      <3> QED
        BY <3>2, <3>3, <3>4
    <2> QED
      BY <2>1, <2>2
  <1>2. SUBSET S \subseteq T
    <2> HIDE DEF T
    <2> QED
      BY <1>1, SmallerFirst
  <1> QED
    BY <1>2

LEMMA SumOverSums ==
    ASSUME NEW S, IsFiniteSet(S), NEW F \in [S -> Int]
    PROVE  \E g : Sums(F, S, g) /\ SumOver(F, S) = g[S]
  <1> DEFINE c(s) == CHOOSE x \in s : TRUE
             Def(g) == g = [s \in SUBSET S |-> IF s = {} THEN 0 ELSE F[c(s)] + g[s \ {c(s)}]]
             it == CHOOSE g : Def(g)
  <1>1. \E g : Def(g)
    <2>1. PICK g : Sums(F, S, g)
      BY SumsExist
    <2>2. g = [s \in SUBSET S |-> g[s]]
      BY <2>1 DEF Sums
    <2>3. \A s \in SUBSET S : g[s] = IF s = {} THEN 0 ELSE F[c(s)] + g[s \ {c(s)}]
      BY <2>1 DEF Sums
    <2>4. Def(g)
      <3> HIDE DEF c
      <3> QED
        BY <2>2, <2>3
    <2> QED
      BY <2>4
  <1>2. Def(it)
    <2> HIDE DEF Def
    <2> QED
      BY <1>1
  <1>3. Sums(F, S, it)
    <2> HIDE DEF it
    <2> QED
      BY <1>2 DEF Sums
  <1>4. SumOver(F, S) = it[S]
    BY DEF SumOver, MapThenSumSet, MapThenFoldSet
  <1> HIDE DEF it
  <1> QED
    BY <1>3, <1>4

LEMMA SumOfNone ==
    ASSUME NEW F, F \in [{} -> Int]
    PROVE  SumOver(F, {}) = 0
  <1>1. PICK g : Sums(F, {}, g) /\ SumOver(F, {}) = g[{}]
    BY SumOverSums, FS_EmptySet
  <1> QED
    BY <1>1 DEF Sums

(* One element more, the others as they were.                               *)
LEMMA SumOfOneMore ==
    ASSUME NEW S, IsFiniteSet(S), NEW x, x \notin S,
           NEW F \in [S -> Int], NEW G \in [S \union {x} -> Int], \A y \in S : F[y] = G[y]
    PROVE  SumOver(G, S \union {x}) = G[x] + SumOver(F, S)
  <1>1. IsFiniteSet(S \union {x})
    BY FS_AddElement
  <1>2. PICK f : Sums(F, S, f) /\ SumOver(F, S) = f[S]
    BY SumOverSums
  <1>3. PICK g : Sums(G, S \union {x}, g) /\ SumOver(G, S \union {x}) = g[S \union {x}]
    BY <1>1, SumOverSums
  <1>4. g[S \union {x}] = G[x] + g[(S \union {x}) \ {x}]
    BY <1>1, <1>3, SumsAnyOrder
  <1>5. (S \union {x}) \ {x} = S
    OBVIOUS
  <1>6. f[S] = g[S]
    BY <1>2, <1>3, SumsSame
  <1> QED
    BY <1>2, <1>3, <1>4, <1>5, <1>6

LEMMA SumIsInteger ==
    ASSUME NEW S, IsFiniteSet(S), NEW F \in [S -> Int]
    PROVE  SumOver(F, S) \in Int
  <1>1. PICK g : Sums(F, S, g) /\ SumOver(F, S) = g[S]
    BY SumOverSums
  <1> QED
    BY <1>1, SumsType

-----------------------------------------------------------------------------
(* Recursion over the numbers from 0 on.                                    *)

Iterated(f, n, a, step) ==
    f[0] = a /\ \A i \in 1 .. n : f[i] = step[<<i, f[i - 1]>>]

LEMMA Iterates ==
    ASSUME NEW A, NEW a \in A, NEW step \in [Nat \X A -> A], NEW n \in Nat
    PROVE  \E f \in [0 .. n -> A] : Iterated(f, n, a, step)
  <1> DEFINE N == {k \in Nat : \E f \in [0 .. k -> A] : Iterated(f, k, a, step)}
  <1>1. 0 \in N
    <2> DEFINE f == [i \in 0 .. 0 |-> a]
    <2>1. f \in [0 .. 0 -> A] /\ f[0] = a
      OBVIOUS
    <2>2. \A i \in 1 .. 0 : f[i] = step[<<i, f[i - 1]>>]
      OBVIOUS
    <2> HIDE DEF f
    <2>3. Iterated(f, 0, a, step)
      BY <2>1, <2>2 DEF Iterated
    <2> QED
      BY <2>1, <2>3
  <1>2. ASSUME NEW k \in Nat, k \in N PROVE k + 1 \in N
    <2>1. PICK f \in [0 .. k -> A] :
                f[0] = a /\ \A i \in 1 .. k : f[i] = step[<<i, f[i - 1]>>]
      BY <1>2 DEF Iterated
    <2> DEFINE g == [i \in 0 .. k + 1 |-> IF i = k + 1 THEN step[<<k + 1, f[k]>>] ELSE f[i]]
    <2>2. step[<<k + 1, f[k]>>] \in A
      OBVIOUS
    <2>3. g \in [0 .. k + 1 -> A]
      BY <2>2
    <2>4. g[0] = a
      BY <2>1
    <2>5. ASSUME NEW i \in 1 .. k + 1 PROVE g[i] = step[<<i, g[i - 1]>>]
      <3>1. CASE i = k + 1
        <4>1. i - 1 = k /\ k \in 0 .. k + 1 /\ k # k + 1
          BY <3>1
        <4>2. g[i - 1] = f[k]
          BY <4>1
        <4>3. g[i] = step[<<k + 1, f[k]>>]
          BY <3>1
        <4> HIDE DEF g
        <4> QED
          BY <3>1, <4>2, <4>3
      <3>2. CASE i \in 1 .. k
        <4>1. g[i] = f[i] /\ g[i - 1] = f[i - 1]
          BY <3>2
        <4> QED
          BY <3>2, <4>1, <2>1
      <3> QED
        BY <3>1, <3>2
    <2>6. k + 1 \in Nat
      OBVIOUS
    <2> HIDE DEF g
    <2>7. Iterated(g, k + 1, a, step)
      BY <2>4, <2>5 DEF Iterated
    <2> QED
      BY <2>3, <2>6, <2>7
  <1>3. Nat \subseteq N
    <2> HIDE DEF N
    <2> QED
      BY <1>1, <1>2, NaturalInduction
  <1> QED
    BY <1>3

-----------------------------------------------------------------------------
(* Sequences of sequences, one after the other.                             *)

Joined(s, u) == s \o u

Flattens(seqs, f) ==
    /\ f[1] = seqs[1]
    /\ \A i \in 2 .. Len(seqs) : f[i] = Joined(f[i - 1], seqs[i])

LEMMA JoinedType ==
    \A A : \A s, u \in Seq(A) : Joined(s, u) \in Seq(A) /\ Joined(<<>>, u) = u
  BY DEF Joined

(* What a sequence of sequences consists of.                                *)
LEMMA PiecesOf ==
    ASSUME NEW B, NEW seqs \in Seq(B)
    PROVE  /\ Len(seqs) \in Nat /\ DOMAIN seqs = 1 .. Len(seqs)
           /\ \A i \in 1 .. Len(seqs) : seqs[i] \in B
           /\ seqs # <<>> => Len(seqs) >= 1
           /\ \A s \in B : /\ Append(seqs, s) \in Seq(B)
                           /\ Len(Append(seqs, s)) = Len(seqs) + 1
                           /\ Append(seqs, s)[Len(seqs) + 1] = s
                           /\ \A i \in 1 .. Len(seqs) : Append(seqs, s)[i] = seqs[i]
  OBVIOUS

LEMMA FlattenExists ==
    ASSUME NEW A, NEW seqs \in Seq(Seq(A)), seqs # <<>>
    PROVE  \E f \in [1 .. Len(seqs) -> Seq(A)] : Flattens(seqs, f)
  <1> DEFINE n == Len(seqs)
             B == Seq(A)
             step == [p \in Nat \X B |->
                        IF p[1] \in 1 .. n THEN Joined(p[2], seqs[p[1]]) ELSE p[2]]
  <1>1. n \in Nat /\ n >= 1 /\ \A i \in 1 .. n : seqs[i] \in B
    BY PiecesOf
  <1>2. <<>> \in B /\ \A s, u \in B : Joined(s, u) \in B /\ Joined(<<>>, u) = u
    BY JoinedType
  <1> HIDE DEF B, n
  <1>3. step \in [Nat \X B -> B]
    BY <1>1, <1>2
  <1>4. ASSUME NEW i \in 1 .. n, NEW s \in B PROVE step[<<i, s>>] = Joined(s, seqs[i])
    <2>1. <<i, s>> \in Nat \X B
      BY <1>1
    <2> QED
      BY <2>1
  <1>5. \E g \in [0 .. n -> B] : Iterated(g, n, <<>>, step)
    <2> HIDE DEF step
    <2>1. <<>> \in B /\ n \in Nat
      BY <1>1, <1>2
    <2> QED
      BY <1>3, <2>1, Iterates
  <1>6. PICK g \in [0 .. n -> B] :
            g[0] = <<>> /\ \A i \in 1 .. n : g[i] = step[<<i, g[i - 1]>>]
    <2> HIDE DEF step
    <2> QED
      BY <1>5 DEF Iterated
  <1> HIDE DEF step
  <1>7. ASSUME NEW i \in 1 .. n PROVE g[i] = Joined(g[i - 1], seqs[i])
    <2>1. i - 1 \in 0 .. n
      BY <1>1
    <2>2. g[i - 1] \in B
      BY <2>1
    <2> QED
      BY <1>4, <1>6, <2>2
  <1>8. g[1] = seqs[1]
    <2>1. 1 \in 1 .. n /\ 1 - 1 = 0
      BY <1>1
    <2>2. g[1] = Joined(<<>>, seqs[1])
      BY <2>1, <1>6, <1>7
    <2> QED
      BY <2>1, <2>2, <1>1, <1>2
  <1> DEFINE f == [i \in 1 .. n |-> g[i]]
  <1>9. f \in [1 .. n -> B]
    BY <1>1
  <1>10. ASSUME NEW i \in 2 .. n PROVE f[i] = Joined(f[i - 1], seqs[i])
    <2>1. i \in 1 .. n /\ i - 1 \in 1 .. n
      BY <1>1
    <2>2. f[i] = g[i] /\ f[i - 1] = g[i - 1]
      BY <2>1
    <2> HIDE DEF f
    <2> QED
      BY <2>1, <2>2, <1>7
  <1>11. f[1] = seqs[1]
    BY <1>1, <1>8
  <1> HIDE DEF f
  <1>12. Flattens(seqs, f)
    BY <1>10, <1>11 DEF Flattens, n
  <1> QED
    BY <1>9, <1>12 DEF n, B

LEMMA FlattenUnique ==
    ASSUME NEW seqs, NEW n \in Nat, n >= 1, n <= Len(seqs), Len(seqs) \in Nat,
           NEW f, Flattens(seqs, f), NEW g, Flattens(seqs, g)
    PROVE  f[n] = g[n]
  <1> DEFINE N == {k \in Nat : k + 1 <= Len(seqs) => f[k + 1] = g[k + 1]}
  <1>1. 0 \in N
    BY DEF Flattens
  <1>2. ASSUME NEW k \in Nat, k \in N PROVE k + 1 \in N
    <2> SUFFICES ASSUME (k + 1) + 1 <= Len(seqs) PROVE f[(k + 1) + 1] = g[(k + 1) + 1]
      OBVIOUS
    <2>1. (k + 1) + 1 \in 2 .. Len(seqs) /\ ((k + 1) + 1) - 1 = k + 1
      OBVIOUS
    <2>2. f[k + 1] = g[k + 1]
      BY <1>2
    <2> QED
      BY <2>1, <2>2 DEF Flattens
  <1>3. Nat \subseteq N
    <2> HIDE DEF N
    <2> QED
      BY <1>1, <1>2, NaturalInduction
  <1>4. n - 1 \in N /\ (n - 1) + 1 = n
    BY <1>3
  <1> QED
    BY <1>4

LEMMA FlattenIs ==
    ASSUME NEW A, NEW seqs \in Seq(Seq(A)), seqs # <<>>
    PROVE  \E f \in [1 .. Len(seqs) -> Seq(A)] :
                Flattens(seqs, f) /\ FlattenSeq(seqs) = f[Len(seqs)]
  <1> DEFINE n == Len(seqs)
             Def(f) == f = [i \in 1 .. n |-> IF i = 1 THEN seqs[i] ELSE Joined(f[i - 1], seqs[i])]
             it == CHOOSE f : Def(f)
  <1>1. n \in Nat /\ n >= 1
    BY PiecesOf
  <1>2. PICK f \in [1 .. n -> Seq(A)] : Flattens(seqs, f)
    BY FlattenExists
  <1>3. Def(f)
    <2>1. f = [i \in 1 .. n |-> f[i]]
      BY <1>2
    <2>2. ASSUME NEW i \in 1 .. n
          PROVE  f[i] = IF i = 1 THEN seqs[i] ELSE Joined(f[i - 1], seqs[i])
      <3>1. i # 1 => i \in 2 .. n
        BY <1>1
      <3> QED
        BY <3>1, <1>2 DEF Flattens
    <2> QED
      BY <2>1, <2>2
  <1>4. Def(it)
    <2> HIDE DEF Def
    <2> QED
      BY <1>3
  <1>5. Flattens(seqs, it)
    <2> HIDE DEF it
    <2>1. \A i \in 1 .. n : it[i] = IF i = 1 THEN seqs[i] ELSE Joined(it[i - 1], seqs[i])
      BY <1>4, Zenon
    <2>2. 1 \in 1 .. n /\ \A i \in 2 .. n : i \in 1 .. n /\ i # 1
      BY <1>1
    <2> QED
      BY <2>1, <2>2 DEF Flattens
  <1>6. FlattenSeq(seqs) = it[n]
    BY <1>1 DEF FlattenSeq, Joined
  <1>7. it[n] = f[n]
    <2> HIDE DEF it
    <2> QED
      BY <1>1, <1>2, <1>5, FlattenUnique
  <1> HIDE DEF it
  <1> QED
    BY <1>2, <1>6, <1>7

LEMMA FlattenNone == FlattenSeq(<<>>) = <<>>
  BY DEF FlattenSeq

LEMMA FlattenType ==
    ASSUME NEW A, NEW seqs \in Seq(Seq(A))
    PROVE  FlattenSeq(seqs) \in Seq(A)
  <1>1. CASE seqs = <<>>
    <2>1. FlattenSeq(seqs) = <<>>
      BY <1>1, FlattenNone
    <2> QED
      BY <2>1
  <1>2. CASE seqs # <<>>
    <2>1. PICK f \in [1 .. Len(seqs) -> Seq(A)] : FlattenSeq(seqs) = f[Len(seqs)]
      BY <1>2, FlattenIs
    <2>2. Len(seqs) \in 1 .. Len(seqs)
      BY <1>2, PiecesOf
    <2> QED
      BY <2>1, <2>2
  <1> QED
    BY <1>1, <1>2

LEMMA FlattenAppend ==
    ASSUME NEW A, NEW seqs \in Seq(Seq(A)), NEW s \in Seq(A)
    PROVE  FlattenSeq(Append(seqs, s)) = FlattenSeq(seqs) \o s
  <1> DEFINE n == Len(seqs)
  <1>0. PICK more \in Seq(Seq(A)) :
            /\ more = Append(seqs, s) /\ Len(more) = n + 1
            /\ more[n + 1] = s /\ \A i \in 1 .. n : more[i] = seqs[i]
    <2> DEFINE B == Seq(A)
    <2>1. seqs \in Seq(B) /\ s \in B
      OBVIOUS
    <2> HIDE DEF B
    <2>2. Append(seqs, s) \in Seq(B) /\ Len(Append(seqs, s)) = n + 1
      BY <2>1, PiecesOf
    <2>3. Append(seqs, s)[n + 1] = s /\ \A i \in 1 .. n : Append(seqs, s)[i] = seqs[i]
      BY <2>1, PiecesOf
    <2> QED
      BY <2>2, <2>3 DEF B
  <1>1. n \in Nat /\ more # <<>>
    <2>1. n \in Nat
      BY PiecesOf
    <2>2. Len(more) # 0
      BY <1>0, <2>1
    <2> QED
      BY <2>1, <2>2
  <1>2. PICK g \in [1 .. Len(more) -> Seq(A)] :
            Flattens(more, g) /\ FlattenSeq(more) = g[Len(more)]
    BY <1>1, FlattenIs
  <1>3. CASE seqs = <<>>
    <2>1. n = 0
      BY <1>3
    <2>2. FlattenSeq(more) = s
      BY <2>1, <1>0, <1>2 DEF Flattens
    <2>3. FlattenSeq(seqs) = <<>>
      BY <1>3, FlattenNone
    <2>4. Joined(<<>>, s) = s
      BY JoinedType
    <2> QED
      BY <1>0, <2>2, <2>3, <2>4 DEF Joined
  <1>4. CASE seqs # <<>>
    <2>1. n >= 1
      BY <1>4, PiecesOf
    <2>2. PICK f \in [1 .. n -> Seq(A)] : Flattens(seqs, f) /\ FlattenSeq(seqs) = f[n]
      BY <1>4, FlattenIs
    <2>3. Flattens(seqs, g)
      <3>1. g[1] = seqs[1]
        BY <1>0, <1>1, <1>2, <2>1 DEF Flattens
      <3>2. ASSUME NEW i \in 2 .. n PROVE g[i] = Joined(g[i - 1], seqs[i])
        <4>1. i \in 1 .. n /\ i \in 2 .. Len(more)
          BY <1>0, <1>1
        <4> QED
          BY <4>1, <1>0, <1>2 DEF Flattens
      <3> QED
        BY <3>1, <3>2 DEF Flattens
    <2>4. f[n] = g[n]
      <3>1. n \in Nat /\ n <= n
        BY <1>1
      <3> QED
        BY <3>1, <2>1, <2>2, <2>3, FlattenUnique
    <2>5. n + 1 \in 2 .. Len(more) /\ (n + 1) - 1 = n
      BY <1>0, <1>1, <2>1
    <2>6. g[n + 1] = Joined(g[n], s)
      BY <2>5, <1>0, <1>2 DEF Flattens
    <2> QED
      BY <1>0, <1>2, <2>2, <2>4, <2>6 DEF Joined
  <1> QED
    BY <1>3, <1>4

(* The elements of a finite set as a sequence.                              *)
LEMMA SetAsSequence ==
    ASSUME NEW S, IsFiniteSet(S)
    PROVE  /\ SetToSeq(S) \in [1 .. Cardinality(S) -> S]
           /\ \A a, b \in 1 .. Cardinality(S) : SetToSeq(S)[a] = SetToSeq(S)[b] => a = b
           /\ Cardinality(S) \in Nat
  <1>1. PICK n \in Nat : ExistsBijection(1 .. n, S)
    BY FS_NatBijection
  <1>2. Cardinality(S) = n
    BY <1>1, FS_CountingElements
  <1>3. PICK f \in Bijection(1 .. n, S) : TRUE
    BY <1>1 DEF ExistsBijection
  <1>4. f \in [1 .. n -> S] /\ IsInjective(f)
    BY <1>3 DEF Bijection, Injection
  <1>5. \E g \in [1 .. Cardinality(S) -> S] : IsInjective(g)
    BY <1>2, <1>4
  <1>6. SetToSeq(S) \in [1 .. Cardinality(S) -> S] /\ IsInjective(SetToSeq(S))
    BY <1>5 DEF SetToSeq
  <1> QED
    BY <1>2, <1>6 DEF IsInjective
=============================================================================
