---------------------------- MODULE QueueLemmas ----------------------------
(* What the proofs need to know of queues: how many items of a set are in a sequence   *)
(* (Num), in a family of sequences (NumIn), and in part of one (Only, FlattenSeq), and    *)
(* what pushing, popping, joining and filtering do to those numbers. Items are counted      *)
(* by their positions, so nothing here recurses; where a definition does, its function is    *)
(* unfolded once by induction on a set of positions (UpTo).                                  *)
EXTENDS Queues, SequencesExt, FiniteSetTheorems, WellFoundedInduction, SequenceTheorems, TLAPS

\* Induction, said of a set: the positions that have what is inherited are all of them.
LEMMA UpTo ==
  ASSUME NEW n \in Nat, NEW A \in SUBSET (0..n), 0 \in A,
         \A k \in 1..n : k - 1 \in A => k \in A
  PROVE  A = 0..n
<1> DEFINE B == (0..n) \ A
<1>1. IsWellFoundedOn(OpToRel(<, Nat), Nat)
  BY NatLessThanWellFounded
<1>2. ASSUME B # {} PROVE FALSE
  <2>1. PICK x \in B : \A y \in B : ~(<<y, x>> \in OpToRel(<, Nat))
    <3>1. B \subseteq Nat
      OBVIOUS
    <3>2. QED
      BY <1>1, <1>2, <3>1, WFMin
  <2>2. \A y \in Nat : <<y, x>> \in OpToRel(<, Nat) <=> <<y, x>> \in {ss \in Nat \X Nat : ss[1] < ss[2]}
    BY Zenon DEF OpToRel
  <2>3. x # 0 /\ x \in Nat /\ x \in 1..n /\ x - 1 \in 0..n /\ x - 1 < x
    OBVIOUS
  <2>4. <<x - 1, x>> \in {ss \in Nat \X Nat : ss[1] < ss[2]}
    BY <2>3
  <2>5. x - 1 \notin B
    <3>1. x - 1 \in Nat
      BY <2>3
    <3>2. QED
      BY <3>1, <2>1, <2>2, <2>4, Zenon
  <2>6. QED
    BY <2>3, <2>5
<1>3. QED
  BY <1>2

\* f is the recursion of Only, position by position.
Unfolds(f, M, s, S) ==
  /\ f \in [0..Len(s) -> Seq(M)]
  /\ f[0] = <<>> /\ Only(s, S) = f[Len(s)]
  /\ \A i \in 1..Len(s) : f[i] = IF s[i] \in S THEN Append(f[i - 1], s[i]) ELSE f[i - 1]

\* The recursion has such a function.
LEMMA OnlyDef ==
  ASSUME NEW M, NEW s \in Seq(M), NEW S
  PROVE  \E f : Unfolds(f, M, s, S)
<1> DEFINE Step(g, i) == IF i = 0 THEN <<>> ELSE IF s[i] \in S THEN Append(g[i - 1], s[i]) ELSE g[i - 1]
           Good(g, k) == g \in [0..k -> Seq(M)] /\ \A i \in 0..k : g[i] = Step(g, i)
           A == {k \in 0..Len(s) : \E g : Good(g, k)}
<1>0. Len(s) \in Nat
  OBVIOUS
<1>1. 0 \in A
  <2>1. Good([i \in 0..0 |-> <<>>], 0)
    OBVIOUS
  <2>2. \E g : Good(g, 0)
    <3> HIDE DEF Good
    <3>1. QED
      BY <2>1
  <2>3. QED
    BY <2>2, <1>0
<1>2. ASSUME NEW k \in 1..Len(s), k - 1 \in A PROVE k \in A
  <2>1. PICK g : Good(g, k - 1)
    BY <1>2
  <2> DEFINE h == [i \in 0..k |-> IF i = k THEN (IF s[i] \in S THEN Append(g[i - 1], s[i]) ELSE g[i - 1]) ELSE g[i]]
  <2>2. g[k - 1] \in Seq(M) /\ s[k] \in M
    BY <2>1
  <2>3. h \in [0..k -> Seq(M)]
    <3>1. ASSUME NEW i \in 0..k PROVE h[i] \in Seq(M)
      BY <2>1, <2>2
    <3>2. QED
      BY <3>1
  <2>4. ASSUME NEW i \in 0..k PROVE h[i] = Step(h, i)
    <3>1. CASE i = k
      <4>1. h[i] = IF s[i] \in S THEN Append(g[i - 1], s[i]) ELSE g[i - 1]
        BY <3>1
      <4>2. h[i - 1] = g[i - 1]
        BY <3>1
      <4>3. QED
        BY <4>1, <4>2, <3>1
    <3>2. CASE i # k
      <4>1. h[i] = g[i] /\ i \in 0..(k - 1)
        BY <3>2
      <4>2. i # 0 => h[i - 1] = g[i - 1]
        BY <3>2
      <4>3. g[i] = Step(g, i)
        BY <2>1, <4>1
      <4>4. QED
        BY <4>1, <4>2, <4>3
    <3>3. QED
      BY <3>1, <3>2
  <2>5. \E x : Good(x, k)
    <3> HIDE DEF h, Step
    <3>1. Good(h, k)
      BY <2>3, <2>4
    <3> HIDE DEF Good
    <3>2. QED
      BY <3>1
  <2>6. QED
    <3> HIDE DEF Good
    <3>1. QED
      BY <2>5, <1>0
<1>3. PICK g : Good(g, Len(s))
  <2>1. A = 0..Len(s)
    <3> HIDE DEF A
    <3>1. A \in SUBSET (0..Len(s)) /\ Len(s) \in Nat
      BY DEF A
    <3>2. QED
      BY <1>1, <1>2, <3>1, UpTo
  <2>2. Len(s) \in A
    BY <2>1
  <2>3. QED
    BY <2>2
<1>4. g = [i \in 0..Len(s) |-> IF i = 0 THEN <<>> ELSE IF s[i] \in S THEN Append(g[i - 1], s[i]) ELSE g[i - 1]]
  BY <1>3
<1>5. PICK f : /\ f = [i \in 0..Len(s) |-> IF i = 0 THEN <<>> ELSE IF s[i] \in S THEN Append(f[i - 1], s[i]) ELSE f[i - 1]]
               /\ Only(s, S) = f[Len(s)]
  BY <1>4, Zenon DEF Only
<1>6. /\ f[0] = <<>>
      /\ \A i \in 1..Len(s) : f[i] = IF s[i] \in S THEN Append(f[i - 1], s[i]) ELSE f[i - 1]
  <2>1. ASSUME NEW i \in 0..Len(s)
        PROVE  f[i] = IF i = 0 THEN <<>> ELSE IF s[i] \in S THEN Append(f[i - 1], s[i]) ELSE f[i - 1]
    BY <1>5, Zenon
  <2>2. 0 \in 0..Len(s) /\ \A i \in 1..Len(s) : i \in 0..Len(s) /\ i # 0
    BY <1>0
  <2>3. QED
    BY <2>1, <2>2, Zenon
<1>7. f \in [0..Len(s) -> Seq(M)]
  <2> DEFINE C == {k \in 0..Len(s) : f[k] \in Seq(M)}
  <2>1. 0 \in C
    <3>1. f[0] \in Seq(M)
      BY <1>6, EmptySeq, Zenon
    <3>2. QED
      BY <3>1, <1>0
  <2>2. ASSUME NEW k \in 1..Len(s), k - 1 \in C PROVE k \in C
    <3>1. f[k - 1] \in Seq(M) /\ s[k] \in M
      BY <2>2
    <3>2. f[k] = Append(f[k - 1], s[k]) \/ f[k] = f[k - 1]
      BY <1>6, Zenon
    <3>3. f[k] \in Seq(M)
      BY <3>1, <3>2, AppendProperties, ZenonT(60)
    <3>4. QED
      BY <3>3, <1>0
  <2>3. C \in SUBSET (0..Len(s)) /\ Len(s) \in Nat
    OBVIOUS
  <2>4. C = 0..Len(s)
    <3> HIDE DEF C
    <3>1. QED
      BY <2>1, <2>2, <2>3, UpTo
  <2>5. QED
    BY <2>4, <1>5
<1>8. Unfolds(f, M, s, S)
  BY <1>5, <1>6, <1>7, Zenon DEF Unfolds
<1>9. QED
  BY <1>8

\* out is what s has in S: e tells where each item of out stands in s.
Embeds(e, out, s, S) ==
  /\ e \in [1..Len(out) -> 1..Len(s)]
  /\ \A k \in 1..Len(out) : out[k] = s[e[k]] /\ s[e[k]] \in S
  /\ \A k, l \in 1..Len(out) : k < l => e[k] < e[l]
  /\ \A i \in 1..Len(s) : s[i] \in S => \E k \in 1..Len(out) : e[k] = i

\* Only keeps the items in S, each once and in order, and no other.
LEMMA OnlyEmbeds ==
  ASSUME NEW M, NEW s \in Seq(M), NEW S
  PROVE  Only(s, S) \in Seq(M) /\ \E e : Embeds(e, Only(s, S), s, S)
<1>0. PICK f : Unfolds(f, M, s, S)
  BY OnlyDef
<1>1. /\ f \in [0..Len(s) -> Seq(M)]
      /\ f[0] = <<>> /\ Only(s, S) = f[Len(s)]
      /\ \A i \in 1..Len(s) : f[i] = IF s[i] \in S THEN Append(f[i - 1], s[i]) ELSE f[i - 1]
  BY <1>0 DEF Unfolds
<1>2. Len(s) \in Nat
  OBVIOUS
<1> DEFINE Fits(e, n) ==
             /\ e \in [1..Len(f[n]) -> 1..n]
             /\ \A k \in 1..Len(f[n]) : f[n][k] = s[e[k]] /\ s[e[k]] \in S
             /\ \A k, l \in 1..Len(f[n]) : k < l => e[k] < e[l]
             /\ \A i \in 1..n : s[i] \in S => \E k \in 1..Len(f[n]) : e[k] = i
           A == {n \in 0..Len(s) : \E e : Fits(e, n)}
<1>3. 0 \in A
  <2>1. Fits(<<>>, 0)
    BY <1>1
  <2> HIDE DEF Fits
  <2>2. QED
    BY <2>1, <1>2
<1>4. ASSUME NEW n \in 1..Len(s), n - 1 \in A PROVE n \in A
  <2>1. PICK d : Fits(d, n - 1)
    BY <1>4
  <2>2. n \in Nat /\ n - 1 \in Nat /\ n - 1 \in 0..Len(s) /\ f[n - 1] \in Seq(M) /\ Len(f[n - 1]) \in Nat /\ s[n] \in M
    BY SMTT(60), <1>1, <1>2
  <2>3. CASE s[n] \notin S
    <3>1. f[n] = f[n - 1]
      BY <1>1, <2>3
    <3>2. Fits(d, n)
      <4>1. d \in [1..Len(f[n]) -> 1..n]
        BY <2>1, <2>2, <3>1
      <4>2. \A i \in 1..n : s[i] \in S => \E k \in 1..Len(f[n]) : d[k] = i
        BY <2>1, <2>2, <3>1, <2>3
      <4>3. QED
        BY <2>1, <2>2, <3>1, <4>1, <4>2
    <3> HIDE DEF Fits
    <3>3. QED
      BY <3>2, <1>2
  <2>4. CASE s[n] \in S
    <3> DEFINE m == Len(f[n - 1]) + 1
               e == [k \in 1..m |-> IF k = m THEN n ELSE d[k]]
    <3>1. f[n] = Append(f[n - 1], s[n])
      BY <1>1, <2>4
    <3>2. /\ Len(f[n]) = m /\ f[n][m] = s[n]
          /\ \A k \in 1..(m - 1) : f[n][k] = f[n - 1][k]
      BY <2>2, <3>1
    <3>3. m \in Nat /\ m - 1 = Len(f[n - 1])
      BY <2>2
    <3> HIDE DEF m
    <3>4. \A k \in 1..m : k # m => k \in 1..(m - 1) /\ d[k] \in 1..(n - 1) /\ e[k] = d[k]
      <4>1. ASSUME NEW k \in 1..m, k # m PROVE k \in 1..(m - 1) /\ e[k] = d[k]
        BY <3>3, <4>1
      <4>2. d \in [1..(m - 1) -> 1..(n - 1)]
        BY <2>1, <3>3
      <4> HIDE DEF e
      <4>3. QED
        BY <4>1, <4>2
    <3>5. e[m] = n
      <4>1. m \in 1..m
        BY <2>2 DEF m
      <4>2. QED
        BY <4>1
    <3>6. e \in [1..m -> 1..n]
      BY <3>3, <3>4, <2>2
    <3>7. \A k \in 1..m : f[n][k] = s[e[k]] /\ s[e[k]] \in S
      BY <2>1, <2>4, <3>2, <3>3, <3>4, <3>5
    <3>8. \A k, l \in 1..m : k < l => e[k] < e[l]
      BY SMTT(60), <2>1, <2>2, <3>3, <3>4, <3>5
    <3>9. ASSUME NEW i \in 1..n, s[i] \in S PROVE \E k \in 1..m : e[k] = i
      <4>1. CASE i = n
        <5>1. m \in 1..m
          BY <2>2 DEF m
        <5> HIDE DEF e
        <5>2. QED
          BY <3>5, <4>1, <5>1
      <4>2. CASE i # n
        <5>1. i \in 1..(n - 1)
          BY <4>2, <2>2
        <5>2. PICK k \in 1..(m - 1) : d[k] = i
          BY <5>1, <2>1, <3>3, <3>9
        <5>3. k \in 1..m /\ k # m
          BY <3>3
        <5>4. e[k] = i
          BY <5>2, <5>3, <3>4
        <5>5. QED
          BY <5>3, <5>4
      <4>3. QED
        BY <4>1, <4>2
    <3>10. Fits(e, n)
      <4> HIDE DEF e
      <4>1. QED
        BY <3>2, <3>6, <3>7, <3>8, <3>9
    <3> HIDE DEF Fits, e
    <3>11. QED
      BY <3>10, <1>2
  <2>5. QED
    BY <2>3, <2>4
<1>5. A = 0..Len(s)
  <2> HIDE DEF A
  <2>1. A \in SUBSET (0..Len(s)) /\ Len(s) \in Nat
    BY DEF A
  <2>2. QED
    BY <1>3, <1>4, <2>1, UpTo
<1>6. PICK e : Fits(e, Len(s))
  <2>1. Len(s) \in A
    <3> HIDE DEF A
    <3>1. QED
      BY <1>5, <1>2
  <2>2. QED
    BY <2>1
<1>7. Only(s, S) \in Seq(M)
  BY <1>1, <1>2
<1>8. Embeds(e, Only(s, S), s, S)
  BY <1>1, <1>6, Zenon DEF Embeds
<1>9. QED
  BY <1>7, <1>8

-----------------------------------------------------------------------------
(* Counting                                                                        *)

\* Where the items of T are.
Positions(s, T) == {i \in 1..Len(s) : s[i] \in T}
\* What one item counts for.
One(m, T) == IF m \in T THEN 1 ELSE 0

\* Two sets apart are counted one after the other.
LEMMA DisjointUnion ==
  ASSUME NEW A, NEW B, NEW C, IsFiniteSet(A), IsFiniteSet(B), A \cup B = C, A \cap B = {}
  PROVE  IsFiniteSet(C) /\ Cardinality(C) = Cardinality(A) + Cardinality(B)
<1>1. Cardinality(A \cap B) = 0
  BY FS_EmptySet
<1>2. Cardinality(A) \in Nat /\ Cardinality(B) \in Nat
  BY FS_CardinalityType
<1>3. IsFiniteSet(A \cup B) /\ Cardinality(A \cup B) = Cardinality(A) + Cardinality(B) - Cardinality(A \cap B)
  BY FS_Union
<1>4. IsFiniteSet(C) /\ Cardinality(C) = Cardinality(A) + Cardinality(B) - Cardinality(A \cap B)
  BY <1>3, Zenon
<1>5. PICK k : k = Cardinality(A \cap B)
  OBVIOUS
<1>6. k = 0 /\ Cardinality(C) = Cardinality(A) + Cardinality(B) - k
  BY <1>1, <1>4, <1>5, Zenon
<1>7. QED
  BY <1>2, <1>4, <1>6

\* A queue has as many items of T as positions that hold one.
LEMMA NumPositions ==
  ASSUME NEW M, NEW s \in Seq(M), NEW T
  PROVE  /\ Num(s, T) = Cardinality(Positions(s, T))
         /\ IsFiniteSet(Positions(s, T)) /\ Num(s, T) \in Nat /\ Num(s, T) <= Len(s)
<1>1. DOMAIN s = 1..Len(s) /\ Len(s) \in Nat
  OBVIOUS
<1>2. Num(s, T) = Cardinality(Positions(s, T))
  BY <1>1, Zenon DEF Num, Positions
<1>3. IsFiniteSet(1..Len(s)) /\ Cardinality(1..Len(s)) = Len(s)
  BY SMTT(60), <1>1, FS_Interval
<1>4. Positions(s, T) \subseteq 1..Len(s)
  BY DEF Positions
<1>5. QED
  BY <1>2, <1>3, <1>4, FS_Subset, FS_CardinalityType

\* A queue has none of T if none of its items is.
LEMMA NumZero ==
  ASSUME NEW M, NEW s \in Seq(M), NEW T
  PROVE  Num(s, T) = 0 <=> \A i \in 1..Len(s) : s[i] \notin T
<1>1. Num(s, T) = 0 <=> Positions(s, T) = {}
  BY NumPositions, FS_EmptySet
<1>2. QED
  BY <1>1 DEF Positions

\* An empty queue has none.
LEMMA NumEmpty ==
  ASSUME NEW T
  PROVE  Num(<<>>, T) = 0
<1>1. PICK s \in Seq({}) : s = <<>> /\ Len(s) = 0
  BY EmptySeq
<1>2. \A i \in 1..Len(s) : s[i] \notin T
  BY <1>1
<1>3. Num(s, T) = 0
  BY <1>2, NumZero
<1>4. QED
  BY <1>1, <1>3

\* All items count when all are in T.
LEMMA NumAll ==
  ASSUME NEW M, NEW s \in Seq(M), NEW T, M \subseteq T
  PROVE  Num(s, T) = Len(s)
<1>1. Positions(s, T) = 1..Len(s)
  BY DEF Positions
<1>2. Len(s) \in Nat
  OBVIOUS
<1>3. Cardinality(1..Len(s)) = Len(s)
  BY SMTT(60), <1>2, FS_Interval
<1>4. QED
  BY <1>1, <1>3, NumPositions

\* A larger set counts for no less.
LEMMA NumMono ==
  ASSUME NEW M, NEW s \in Seq(M), NEW T, NEW U, \A m \in M : m \in T => m \in U
  PROVE  Num(s, T) <= Num(s, U)
<1>1. Positions(s, T) \subseteq Positions(s, U)
  BY DEF Positions
<1>2. QED
  BY <1>1, NumPositions, FS_Subset

\* Sets that agree on the items count for the same.
LEMMA NumSame ==
  ASSUME NEW M, NEW s \in Seq(M), NEW T, NEW U, \A m \in M : m \in T <=> m \in U
  PROVE  Num(s, T) = Num(s, U)
<1>1. Positions(s, T) = Positions(s, U)
  BY DEF Positions
<1>2. QED
  BY <1>1, NumPositions

\* A set in two parts counts for both.
LEMMA NumSplit ==
  ASSUME NEW M, NEW s \in Seq(M), NEW T, NEW U, NEW V,
         \A m \in M : m \in T <=> m \in U \/ m \in V, \A m \in M : ~(m \in U /\ m \in V)
  PROVE  Num(s, T) = Num(s, U) + Num(s, V)
<1>1. Positions(s, T) = Positions(s, U) \cup Positions(s, V)
  BY DEF Positions
<1>2. Positions(s, U) \cap Positions(s, V) = {}
  BY DEF Positions
<1>3. IsFiniteSet(Positions(s, U)) /\ IsFiniteSet(Positions(s, V))
  BY NumPositions
<1>4. Cardinality(Positions(s, T)) = Cardinality(Positions(s, U)) + Cardinality(Positions(s, V))
  BY <1>1, <1>2, <1>3, DisjointUnion
<1>5. QED
  BY <1>4, NumPositions

\* A list with an item of T has a positive count of T.
LEMMA NumSome ==
  ASSUME NEW M, NEW s \in Seq(M), NEW T, NEW i \in 1..Len(s), s[i] \in T
  PROVE  Num(s, T) \in Nat /\ Num(s, T) >= 1
<1>1. Num(s, T) \in Nat
  BY NumPositions
<1>2. Num(s, T) # 0
  BY NumZero
<1>3. QED
  BY <1>1, <1>2

\* Two of them count for two.
LEMMA NumTwo ==
  ASSUME NEW M, NEW s \in Seq(M), NEW T, NEW i \in 1..Len(s), NEW j \in 1..Len(s),
         s[i] \in T, s[j] \in T, i # j
  PROVE  Num(s, T) >= 2
<1>1. IsFiniteSet(Positions(s, T)) /\ Num(s, T) = Cardinality(Positions(s, T))
  BY NumPositions
<1>2. i \in Positions(s, T) /\ j \in Positions(s, T)
  BY DEF Positions
<1>3. PICK R : R = Positions(s, T) \ {i}
  OBVIOUS
<1>4. IsFiniteSet(R) /\ Cardinality(R) = Cardinality(Positions(s, T)) - 1
  BY <1>1, <1>2, <1>3, FS_RemoveElement
<1>5. j \in R
  BY <1>2, <1>3
<1>6. Cardinality(R) \in Nat /\ Cardinality(R) # 0
  BY <1>4, <1>5, FS_CardinalityType, FS_EmptySet
<1>7. Cardinality(Positions(s, T)) \in Nat
  BY <1>1, FS_CardinalityType
<1>8. QED
  BY <1>1, <1>4, <1>6, <1>7

\* Two queues whose items in T and in U stand at corresponding positions have as many.
LEMMA NumMatch ==
  ASSUME NEW M, NEW N, NEW s \in Seq(M), NEW t \in Seq(N), NEW T, NEW U,
         NEW e, e \in Bijection(Positions(s, T), Positions(t, U))
  PROVE  Num(s, T) = Num(t, U)
<1>1. ExistsBijection(Positions(s, T), Positions(t, U))
  BY DEF ExistsBijection
<1>2. QED
  BY <1>1, NumPositions, FS_Bijection

\* A queue after another has what both have.
LEMMA NumConcat ==
  ASSUME NEW M, NEW s \in Seq(M), NEW t \in Seq(M), NEW T
  PROVE  Num(s \o t, T) = Num(s, T) + Num(t, T)
<1>1. PICK u \in Seq(M) : u = s \o t
  BY ConcatProperties
<1>2. /\ Len(u) = Len(s) + Len(t)
      /\ \A i \in 1..Len(u) : u[i] = IF i <= Len(s) THEN s[i] ELSE t[i - Len(s)]
  BY <1>1, ConcatProperties
<1>3. Len(s) \in Nat /\ Len(t) \in Nat
  OBVIOUS
<1> DEFINE U == {k \in Positions(u, T) : k > Len(s)}
           e == [i \in Positions(t, T) |-> i + Len(s)]
<1>4. Positions(u, T) = Positions(s, T) \cup U /\ Positions(s, T) \cap U = {}
  BY <1>2, <1>3 DEF Positions
<1>5. e \in Bijection(Positions(t, T), U)
  <2>1. ASSUME NEW i \in Positions(t, T) PROVE i + Len(s) \in U
    BY <1>2, <1>3 DEF Positions
  <2>2. ASSUME NEW k \in U PROVE \E i \in Positions(t, T) : e[i] = k
    <3>1. k - Len(s) \in Positions(t, T)
      BY <1>2, <1>3 DEF Positions
    <3>2. e[k - Len(s)] = k
      BY <3>1, <1>3 DEF Positions
    <3>3. QED
      BY <3>1, <3>2
  <2>3. \A i, j \in Positions(t, T) : e[i] = e[j] => i = j
    BY <1>3 DEF Positions
  <2>4. e \in [Positions(t, T) -> U]
    BY <2>1
  <2> HIDE DEF e, U
  <2>5. QED
    BY <2>2, <2>3, <2>4 DEF Bijection, Injection, Surjection, IsInjective
<1> HIDE DEF e
<1>6. ExistsBijection(Positions(t, T), U)
  BY <1>5 DEF ExistsBijection
<1>7. /\ IsFiniteSet(Positions(s, T)) /\ IsFiniteSet(Positions(t, T))
      /\ Cardinality(Positions(s, T)) = Num(s, T) /\ Cardinality(Positions(t, T)) = Num(t, T)
      /\ Cardinality(Positions(u, T)) = Num(u, T)
      /\ Num(s, T) \in Nat /\ Num(t, T) \in Nat
  BY NumPositions
<1> HIDE DEF U
<1>8. IsFiniteSet(U) /\ Cardinality(U) = Num(t, T)
  BY <1>6, <1>7, FS_Bijection
<1>9. Cardinality(Positions(u, T)) = Cardinality(Positions(s, T)) + Cardinality(U)
  BY <1>4, <1>7, <1>8, DisjointUnion
<1>10. QED
  BY <1>1, <1>7, <1>8, <1>9

\* A queue of one item.
LEMMA Single ==
  ASSUME NEW M, NEW m \in M
  PROVE  <<m>> \in Seq(M) /\ Len(<<m>>) = 1 /\ <<m>>[1] = m
OBVIOUS

\* What it counts for.
LEMMA NumOne ==
  ASSUME NEW m, NEW T
  PROVE  Num(<<m>>, T) = One(m, T)
<1>1. PICK s \in Seq({m}) : s = <<m>> /\ Len(s) = 1 /\ s[1] = m
  <2>1. m \in {m}
    OBVIOUS
  <2>2. QED
    BY <2>1, Single, Zenon
<1>2. CASE m \in T
  <2>1. {m} \subseteq T
    BY <1>2
  <2>2. Num(s, T) = 1
    BY <1>1, <2>1, NumAll
  <2>3. QED
    BY <1>1, <1>2, <2>2 DEF One
<1>3. CASE m \notin T
  <2>1. \A i \in 1..Len(s) : s[i] \notin T
    BY <1>1, <1>3
  <2>2. Num(s, T) = 0
    BY <2>1, NumZero
  <2>3. QED
    BY <1>1, <1>3, <2>2 DEF One
<1>4. QED
  BY <1>2, <1>3

\* One more item at the end.
LEMMA NumPush ==
  ASSUME NEW M, NEW s \in Seq(M), NEW m \in M, NEW T
  PROVE  Num(Append(s, m), T) = Num(s, T) + One(m, T)
<1>1. PICK t \in Seq(M) : t = <<m>>
  BY Single, Zenon
<1>2. Append(s, m) = s \o t
  BY <1>1, AppendIsConcat, Zenon
<1>3. Num(s \o t, T) = Num(s, T) + Num(t, T)
  BY NumConcat
<1>4. Num(t, T) = One(m, T)
  BY <1>1, NumOne, Zenon
<1>5. QED
  BY <1>2, <1>3, <1>4, Zenon

\* A queue is its first item and the rest.
LEMMA HeadFirst ==
  ASSUME NEW M, NEW s \in Seq(M), s # <<>>
  PROVE  /\ Head(s) \in M /\ Tail(s) \in Seq(M)
         /\ <<Head(s)>> \in Seq(M) /\ s = <<Head(s)>> \o Tail(s)
<1>1. PICK h \in M : h = Head(s)
  BY HeadTailProperties, Zenon
<1>2. PICK t \in Seq(M) : t = Tail(s)
  BY HeadTailProperties, Zenon
<1>3. PICK u \in Seq(M) : u = <<h>> /\ Len(u) = 1 /\ u[1] = h
  BY Single, Zenon
<1>4. Len(s) \in Nat /\ Len(s) # 0 /\ h = s[1] /\ Len(t) = Len(s) - 1 /\ \A i \in 1..Len(t) : t[i] = s[i + 1]
  BY <1>1, <1>2
<1>5. PICK v \in Seq(M) : v = u \o t
  BY ConcatProperties, Zenon
<1>6. Len(v) = Len(s) /\ \A i \in 1..Len(v) : v[i] = IF i <= 1 THEN u[i] ELSE t[i - 1]
  BY <1>3, <1>4, <1>5, ConcatProperties
<1>7. ASSUME NEW i \in 1..Len(v) PROVE v[i] = s[i]
  BY <1>3, <1>4, <1>6
<1>8. v = s
  BY <1>6, <1>7, SeqEqual
<1>9. QED
  BY <1>1, <1>2, <1>3, <1>5, <1>8

\* One item less at the head.
LEMMA NumPop ==
  ASSUME NEW M, NEW s \in Seq(M), s # <<>>, NEW T
  PROVE  Num(s, T) = One(Head(s), T) + Num(Tail(s), T)
<1>1. PICK u \in Seq(M), t \in Seq(M) : u = <<Head(s)>> /\ t = Tail(s)
  BY HeadFirst, Zenon
<1>2. s = u \o t
  BY <1>1, HeadFirst, Zenon
<1>3. Num(u \o t, T) = Num(u, T) + Num(t, T)
  BY NumConcat
<1>4. Num(u, T) = One(Head(s), T)
  BY <1>1, NumOne, Zenon
<1>5. QED
  BY <1>1, <1>2, <1>3, <1>4, Zenon

\* What Only keeps counts for what is in both sets.
LEMMA NumOnly ==
  ASSUME NEW M, NEW s \in Seq(M), NEW S, NEW T
  PROVE  Num(Only(s, S), T) = Num(s, S \cap T)
<1>1. PICK out \in Seq(M) : out = Only(s, S)
  BY OnlyEmbeds
<1>2. PICK e : Embeds(e, out, s, S)
  BY <1>1, OnlyEmbeds
<1>3. /\ e \in [1..Len(out) -> 1..Len(s)]
      /\ \A k \in 1..Len(out) : out[k] = s[e[k]] /\ s[e[k]] \in S
      /\ \A k, l \in 1..Len(out) : k < l => e[k] < e[l]
      /\ \A i \in 1..Len(s) : s[i] \in S => \E k \in 1..Len(out) : e[k] = i
  BY <1>2 DEF Embeds
<1> DEFINE g == [k \in Positions(out, T) |-> e[k]]
<1>4. ASSUME NEW k \in Positions(out, T) PROVE e[k] \in Positions(s, S \cap T)
  BY <1>3 DEF Positions
<1>5. g \in [Positions(out, T) -> Positions(s, S \cap T)]
  BY <1>4
<1>6. ASSUME NEW k \in Positions(out, T), NEW l \in Positions(out, T), g[k] = g[l] PROVE k = l
  <2>1. k \in 1..Len(out) /\ l \in 1..Len(out) /\ e[k] = e[l] /\ e[k] \in Int /\ e[l] \in Int
    BY <1>3, <1>6 DEF Positions
  <2>2. ~(k < l) /\ ~(l < k)
    BY <1>3, <2>1
  <2>3. QED
    BY <2>1, <2>2
<1>7. ASSUME NEW i \in Positions(s, S \cap T) PROVE \E k \in Positions(out, T) : g[k] = i
  <2>1. i \in 1..Len(s) /\ s[i] \in S /\ s[i] \in T
    BY DEF Positions
  <2>2. PICK k \in 1..Len(out) : e[k] = i
    BY <1>3, <2>1
  <2>3. k \in Positions(out, T)
    BY <1>3, <2>1, <2>2 DEF Positions
  <2>4. QED
    BY <2>2, <2>3
<1> HIDE DEF g
<1>8. Num(out, T) = Num(s, S \cap T)
  <2>1. PICK U : U = S \cap T
    OBVIOUS
  <2>2. g \in [Positions(out, T) -> Positions(s, U)]
    BY <1>5, <2>1, Zenon
  <2>3. \A i \in Positions(s, U) : \E k \in Positions(out, T) : g[k] = i
    BY <1>7, <2>1, Zenon
  <2>4. g \in Bijection(Positions(out, T), Positions(s, U))
    BY <1>6, <2>2, <2>3 DEF Bijection, Injection, Surjection, IsInjective
  <2>5. Num(out, T) = Num(s, U)
    BY <2>4, NumMatch
  <2>6. QED
    BY <2>1, <2>5, Zenon
<1>9. QED
  BY <1>1, <1>8

\* What Only keeps is in S.
LEMMA OnlyIn ==
  ASSUME NEW M, NEW s \in Seq(M), NEW S
  PROVE  Only(s, S) \in Seq(M \cap S)
<1>1. PICK out \in Seq(M) : out = Only(s, S)
  BY OnlyEmbeds
<1>2. PICK e : Embeds(e, out, s, S)
  BY <1>1, OnlyEmbeds
<1>3. \A k \in 1..Len(out) : out[k] \in M \cap S
  BY <1>2 DEF Embeds
<1>4. QED
  BY <1>1, <1>3

(* A queue made from another item by item.                                            *)
LEMMA NumMap ==
  ASSUME NEW M, NEW N, NEW s \in Seq(M), NEW t \in Seq(N), NEW T, NEW U, Len(s) = Len(t),
         \A i \in 1..Len(s) : s[i] \in T <=> t[i] \in U
  PROVE  Num(s, T) = Num(t, U)
<1>1. Positions(s, T) = Positions(t, U)
  BY DEF Positions
<1>2. QED
  BY <1>1, NumPositions

-----------------------------------------------------------------------------
(* Families of queues                                                                *)

\* The items of T in all the queues, by queue and position.
Slots(q, T) == UNION {{x} \X {i \in DOMAIN q[x] : q[x][i] \in T} : x \in DOMAIN q}

\* Which those are.
LEMMA SlotsOf ==
  ASSUME NEW M, NEW X, NEW q \in [X -> Seq(M)], NEW T
  PROVE  \A z : z \in Slots(q, T) <=> \E x \in X : \E i \in Positions(q[x], T) : z = <<x, i>>
<1>1. \A x \in X : {i \in DOMAIN q[x] : q[x][i] \in T} = Positions(q[x], T)
  BY DEF Positions
<1>2. DOMAIN q = X
  OBVIOUS
<1>3. Slots(q, T) = UNION {{x} \X {i \in DOMAIN q[x] : q[x][i] \in T} : x \in X}
  BY <1>2, Zenon DEF Slots
<1>4. ASSUME NEW z PROVE z \in Slots(q, T) <=> \E x \in X : z \in {x} \X {i \in DOMAIN q[x] : q[x][i] \in T}
  BY <1>3, Zenon
<1>5. ASSUME NEW z, NEW x \in X, NEW P
      PROVE  z \in {x} \X P <=> \E i \in P : z = <<x, i>>
  OBVIOUS
<1>6. ASSUME NEW z, NEW x \in X
      PROVE  z \in {x} \X {i \in DOMAIN q[x] : q[x][i] \in T} <=> \E i \in Positions(q[x], T) : z = <<x, i>>
  <2>1. PICK P : P = {i \in DOMAIN q[x] : q[x][i] \in T}
    OBVIOUS
  <2>2. P = Positions(q[x], T)
    BY <1>1, <2>1, Zenon
  <2>3. z \in {x} \X P <=> \E i \in P : z = <<x, i>>
    BY <1>5
  <2>4. QED
    BY <2>1, <2>2, <2>3, Zenon
<1>7. QED
  BY <1>4, <1>6, Zenon

(* The slots of one queue, apart from those of the others.                           *)
SlotsAt(q, T, x) == {z \in Slots(q, T) : z[1] = x}
SlotsOff(q, T, x) == {z \in Slots(q, T) : z[1] # x}

\* The slots of queue x are as many as its items of T.
SplitAt(q, T, x) ==
  /\ SlotsAt(q, T, x) \cup SlotsOff(q, T, x) = Slots(q, T)
  /\ SlotsAt(q, T, x) \cap SlotsOff(q, T, x) = {}
  /\ IsFiniteSet(SlotsAt(q, T, x)) /\ Cardinality(SlotsAt(q, T, x)) = Num(q[x], T)

\* A family's slots are those of one queue and those of the others.
LEMMA SlotsSplit ==
  ASSUME NEW M, NEW X, NEW q \in [X -> Seq(M)], NEW T, NEW x \in X
  PROVE  SplitAt(q, T, x)
<1> DEFINE P == {z \in Slots(q, T) : z[1] = x}
           R == {z \in Slots(q, T) : z[1] # x}
           e == [i \in Positions(q[x], T) |-> <<x, i>>]
<1>1. \A i \in Positions(q[x], T) : <<x, i>> \in P
  BY SlotsOf
<1>2. \A z \in P : \E i \in Positions(q[x], T) : e[i] = z
  BY SlotsOf
<1>3. e \in [Positions(q[x], T) -> P]
  BY <1>1
<1>4. \A i, j \in Positions(q[x], T) : e[i] = e[j] => i = j
  OBVIOUS
<1>5. P \cup R = Slots(q, T) /\ P \cap R = {}
  OBVIOUS
<1> HIDE DEF P, R, e
<1>6. e \in Bijection(Positions(q[x], T), P)
  BY <1>2, <1>3, <1>4 DEF Bijection, Injection, Surjection, IsInjective
<1>7. ExistsBijection(Positions(q[x], T), P)
  BY <1>6 DEF ExistsBijection
<1>8. q[x] \in Seq(M)
  OBVIOUS
<1>9. IsFiniteSet(Positions(q[x], T)) /\ Num(q[x], T) = Cardinality(Positions(q[x], T))
  BY <1>8, NumPositions
<1>10. IsFiniteSet(P) /\ Cardinality(P) = Num(q[x], T)
  BY <1>7, <1>9, FS_Bijection
<1>11. QED
  BY <1>5, <1>10, Zenon DEF P, R, SlotsAt, SlotsOff, SplitAt

\* Finitely many queues have finitely many items of T.
LEMMA SlotsFinite ==
  ASSUME NEW M, NEW X, IsFiniteSet(X), NEW q \in [X -> Seq(M)], NEW T
  PROVE  /\ IsFiniteSet(Slots(q, T)) /\ NumIn(q, T) = Cardinality(Slots(q, T))
         /\ NumIn(q, T) \in Nat
<1> DEFINE P(x) == {x} \X {i \in DOMAIN q[x] : q[x][i] \in T}
           F == {P(x) : x \in X}
           g == [x \in X |-> P(x)]
<1>1. g \in [X -> F] /\ \A s \in F : \E x \in X : g[x] = s
  OBVIOUS
<1>2. ASSUME NEW x \in X PROVE IsFiniteSet(P(x))
  <2>1. q[x] \in Seq(M)
    OBVIOUS
  <2>2. {i \in DOMAIN q[x] : q[x][i] \in T} = Positions(q[x], T)
    BY <2>1 DEF Positions
  <2>3. IsFiniteSet(Positions(q[x], T)) /\ IsFiniteSet({x})
    BY <2>1, NumPositions, FS_Singleton
  <2>4. IsFiniteSet({x} \X Positions(q[x], T))
    BY <2>3, FS_Product
  <2>5. QED
    BY <2>2, <2>4, Zenon
<1>3. \A s \in F : IsFiniteSet(s)
  BY <1>2
<1> HIDE DEF g, P
<1>4. IsFiniteSet(F)
  <2> HIDE DEF F
  <2>1. g \in Surjection(X, F)
    BY <1>1 DEF Surjection
  <2>2. QED
    BY <2>1, FS_Surjection
<1>5. IsFiniteSet(UNION F)
  BY <1>3, <1>4, FS_UNION
<1>6. DOMAIN q = X
  OBVIOUS
<1>7. Slots(q, T) = UNION F
  BY <1>6, Zenon DEF Slots, F, P
<1>8. NumIn(q, T) = Cardinality(Slots(q, T))
  BY Zenon DEF NumIn, Slots
<1>9. QED
  BY <1>5, <1>7, <1>8, FS_CardinalityType

(* One queue of a family changes: the total changes by as much.                        *)
SameBut(q, r, X, x) == \A y \in X : y # x => r[y] = q[y]

\* What the family gains is what the queue x gains.
Shifts(q, r, x, T) == NumIn(r, T) + Num(q[x], T) = NumIn(q, T) + Num(r[x], T)

\* So it is when no other queue changes.
LEMMA NumInChange ==
  ASSUME NEW M, NEW X, IsFiniteSet(X), NEW q \in [X -> Seq(M)], NEW r \in [X -> Seq(M)],
         NEW x \in X, SameBut(q, r, X, x), NEW T
  PROVE  Shifts(q, r, x, T)
<1> DEFINE P == SlotsAt(q, T, x)
           R == SlotsOff(q, T, x)
           P2 == SlotsAt(r, T, x)
           R2 == SlotsOff(r, T, x)
<1>1. /\ P \cup R = Slots(q, T) /\ P \cap R = {} /\ R = {z \in Slots(q, T) : z[1] # x}
      /\ IsFiniteSet(P) /\ Cardinality(P) = Num(q[x], T)
  <2>1. /\ P \cup R = Slots(q, T) /\ P \cap R = {}
        /\ IsFiniteSet(P) /\ Cardinality(P) = Num(q[x], T)
    <3>1. SplitAt(q, T, x)
      BY SlotsSplit, Zenon
    <3>2. QED
      BY <3>1, Zenon DEF SplitAt
  <2>2. R = {z \in Slots(q, T) : z[1] # x}
    BY Zenon DEF SlotsOff
  <2>3. QED
    BY <2>1, <2>2, Zenon
<1>2. /\ P2 \cup R2 = Slots(r, T) /\ P2 \cap R2 = {} /\ R2 = {z \in Slots(r, T) : z[1] # x}
      /\ IsFiniteSet(P2) /\ Cardinality(P2) = Num(r[x], T)
  <2>1. /\ P2 \cup R2 = Slots(r, T) /\ P2 \cap R2 = {}
        /\ IsFiniteSet(P2) /\ Cardinality(P2) = Num(r[x], T)
    <3>1. SplitAt(r, T, x)
      BY SlotsSplit, Zenon
    <3>2. QED
      BY <3>1, Zenon DEF SplitAt
  <2>2. R2 = {z \in Slots(r, T) : z[1] # x}
    BY Zenon DEF SlotsOff
  <2>3. QED
    BY <2>1, <2>2, Zenon
<1> HIDE DEF P, R, P2, R2
<1>3. R = R2
  <2>1. \A y \in X : y # x => Positions(r[y], T) = Positions(q[y], T)
    BY DEF Positions, SameBut
  <2>2. ASSUME NEW z, z \in R PROVE z \in R2
    <3>1. PICK y \in X : \E i \in Positions(q[y], T) : z = <<y, i>>
      BY <1>1, <2>2, SlotsOf
    <3>2. PICK i \in Positions(q[y], T) : z = <<y, i>>
      BY <3>1
    <3>3. y # x
      BY <3>2, <2>2, <1>1
    <3>4. i \in Positions(r[y], T)
      BY <3>3, <2>1
    <3>5. z \in Slots(r, T)
      BY <3>4, <3>2, SlotsOf
    <3>6. QED
      BY <3>2, <3>3, <3>5, <1>2
  <2>3. ASSUME NEW z, z \in R2 PROVE z \in R
    <3>1. PICK y \in X : \E i \in Positions(r[y], T) : z = <<y, i>>
      BY <1>2, <2>3, SlotsOf
    <3>2. PICK i \in Positions(r[y], T) : z = <<y, i>>
      BY <3>1
    <3>3. y # x
      BY <3>2, <2>3, <1>2
    <3>4. i \in Positions(q[y], T)
      BY <3>3, <2>1
    <3>5. z \in Slots(q, T)
      BY <3>4, <3>2, SlotsOf
    <3>6. QED
      BY <3>2, <3>3, <3>5, <1>1
  <2>4. QED
    BY <2>2, <2>3
<1>4. /\ IsFiniteSet(Slots(q, T)) /\ NumIn(q, T) = Cardinality(Slots(q, T))
      /\ NumIn(r, T) = Cardinality(Slots(r, T))
  BY SlotsFinite
<1>5. IsFiniteSet(R)
  <2>1. R \subseteq Slots(q, T)
    BY <1>1
  <2>2. QED
    BY <2>1, <1>4, FS_Subset
<1>6. Cardinality(R) \in Nat /\ Cardinality(P) \in Nat /\ Cardinality(P2) \in Nat
  BY <1>1, <1>2, <1>5, FS_CardinalityType
<1>7. Cardinality(Slots(q, T)) = Cardinality(P) + Cardinality(R)
  BY <1>1, <1>5, DisjointUnion
<1>8. Cardinality(Slots(r, T)) = Cardinality(P2) + Cardinality(R)
  BY <1>2, <1>3, <1>5, DisjointUnion
<1>9. NumIn(r, T) + Num(q[x], T) = NumIn(q, T) + Num(r[x], T)
  BY <1>1, <1>2, <1>4, <1>6, <1>7, <1>8
<1>10. QED
  BY <1>9, Zenon DEF Shifts

\* A family has none of T if none of its queues has.
LEMMA NumInZero ==
  ASSUME NEW M, NEW X, IsFiniteSet(X), NEW q \in [X -> Seq(M)], NEW T
  PROVE  NumIn(q, T) = 0 <=> \A x \in X : Num(q[x], T) = 0
<1>1. NumIn(q, T) = 0 <=> Slots(q, T) = {}
  BY SlotsFinite, FS_EmptySet
<1>2. Slots(q, T) = {} <=> \A x \in X : Positions(q[x], T) = {}
  <2>1. \A z : z \in Slots(q, T) <=> \E x \in X : \E i \in Positions(q[x], T) : z = <<x, i>>
    BY SlotsOf
  <2>2. QED
    BY <2>1, Zenon
<1>3. ASSUME NEW x \in X PROVE Positions(q[x], T) = {} <=> Num(q[x], T) = 0
  <2>1. q[x] \in Seq(M)
    OBVIOUS
  <2>2. QED
    BY <2>1, NumPositions, FS_EmptySet
<1>4. QED
  BY <1>1, <1>2, <1>3

\* A larger set counts for no less.
LEMMA NumInMono ==
  ASSUME NEW M, NEW X, IsFiniteSet(X), NEW q \in [X -> Seq(M)], NEW T, NEW U,
         \A m \in M : m \in T => m \in U
  PROVE  NumIn(q, T) <= NumIn(q, U)
<1>1. \A x \in X : Positions(q[x], T) \subseteq Positions(q[x], U)
  BY DEF Positions
<1>2. Slots(q, T) \subseteq Slots(q, U)
  BY <1>1, SlotsOf
<1>3. QED
  BY <1>2, SlotsFinite, FS_Subset

\* One queue has no more than the family.
LEMMA NumInAt ==
  ASSUME NEW M, NEW X, IsFiniteSet(X), NEW q \in [X -> Seq(M)], NEW T, NEW x \in X
  PROVE  Num(q[x], T) <= NumIn(q, T)
<1>1. Cardinality(SlotsAt(q, T, x)) = Num(q[x], T)
  <2>1. SplitAt(q, T, x)
    BY SlotsSplit
  <2>2. QED
    BY <2>1 DEF SplitAt
<1>2. SlotsAt(q, T, x) \subseteq Slots(q, T)
  BY DEF SlotsAt
<1>3. QED
  BY <1>1, <1>2, SlotsFinite, FS_Subset

\* Sets that agree on the items count for the same.
LEMMA NumInSame ==
  ASSUME NEW M, NEW X, IsFiniteSet(X), NEW q \in [X -> Seq(M)], NEW T, NEW U,
         \A m \in M : m \in T <=> m \in U
  PROVE  NumIn(q, T) = NumIn(q, U)
<1>1. NumIn(q, T) <= NumIn(q, U) /\ NumIn(q, U) <= NumIn(q, T)
  BY NumInMono
<1>2. NumIn(q, T) \in Nat /\ NumIn(q, U) \in Nat
  BY SlotsFinite
<1>3. QED
  BY <1>1, <1>2

-----------------------------------------------------------------------------
(* FlattenSeq: a queue of queues as one queue                                         *)

\* f is the recursion of FlattenSeq, queue by queue.
Flattens(f, M, ss) ==
  /\ f \in [0..Len(ss) -> Seq(M)]
  /\ f[0] = <<>> /\ f[Len(ss)] = FlattenSeq(ss)
  /\ \A i \in 1..Len(ss) : f[i] = f[i - 1] \o ss[i]

\* The recursion has such a function.
LEMMA FlattenDef ==
  ASSUME NEW M, NEW ss \in Seq(Seq(M))
  PROVE  \E f : Flattens(f, M, ss)
<1>0. Len(ss) \in Nat /\ \A i \in 1..Len(ss) : ss[i] \in Seq(M)
  OBVIOUS
<1>1. CASE Len(ss) = 0
  <2>1. FlattenSeq(ss) = <<>>
    <3>1. ss = <<>>
      BY <1>1
    <3>2. FlattenSeq(ss) = ss
      BY <1>1 DEF FlattenSeq
    <3>3. QED
      BY <3>1, <3>2
  <2>2. PICK z \in Seq(M) : z = <<>>
    BY EmptySeq
  <2>3. PICK f : f = [i \in 0..0 |-> z]
    OBVIOUS
  <2>4. f \in [0..Len(ss) -> Seq(M)] /\ f[0] = z /\ f[Len(ss)] = z
    BY <1>1, <2>2, <2>3
  <2>5. Flattens(f, M, ss)
    BY <1>1, <2>1, <2>2, <2>4 DEF Flattens
  <2>6. QED
    BY <2>5
<1>2. CASE Len(ss) # 0
  <2> DEFINE Good(g, k) == g \in [1..k -> Seq(M)] /\ \A i \in 1..k : g[i] = IF i = 1 THEN ss[i] ELSE g[i - 1] \o ss[i]
             A == {k \in 0..Len(ss) : \E g : Good(g, k)}
  <2>1. 0 \in A
    <3>1. Good(<<>>, 0)
      OBVIOUS
    <3> HIDE DEF Good
    <3>2. QED
      BY <3>1, <1>0
  <2>2. ASSUME NEW k \in 1..Len(ss), k - 1 \in A PROVE k \in A
    <3>1. PICK g : Good(g, k - 1)
      BY <2>2
    <3> DEFINE h == [i \in 1..k |-> IF i # k THEN g[i] ELSE IF i = 1 THEN ss[i] ELSE g[i - 1] \o ss[i]]
    <3>2. k # 1 => g[k - 1] \in Seq(M)
      BY <3>1, <1>0
    <3>3. k # 1 => g[k - 1] \o ss[k] \in Seq(M)
      BY <3>2, <1>0, ConcatProperties
    <3>4. h \in [1..k -> Seq(M)]
      <4>1. ASSUME NEW i \in 1..k PROVE h[i] \in Seq(M)
        <5>1. CASE i = k
          BY <5>1, <3>3, <1>0
        <5>2. CASE i # k
          <6>1. i \in 1..(k - 1)
            BY <5>2
          <6>2. QED
            BY <5>2, <6>1, <3>1
        <5>3. QED
          BY <5>1, <5>2
      <4>2. QED
        BY <4>1
    <3>5. ASSUME NEW i \in 1..k PROVE h[i] = IF i = 1 THEN ss[i] ELSE h[i - 1] \o ss[i]
      <4>1. CASE i = k
        <5>1. i # 1 => h[i - 1] = g[i - 1]
          BY <4>1
        <5>2. h[i] = IF i = 1 THEN ss[i] ELSE g[i - 1] \o ss[i]
          BY <4>1
        <5>3. QED
          BY <5>1, <5>2, Zenon
      <4>2. CASE i # k
        <5>1. i \in 1..(k - 1)
          BY <4>2
        <5>2. h[i] = g[i] /\ (i # 1 => h[i - 1] = g[i - 1])
          BY <4>2
        <5>3. g[i] = IF i = 1 THEN ss[i] ELSE g[i - 1] \o ss[i]
          BY <3>1, <5>1
        <5>4. QED
          BY <5>2, <5>3, Zenon
      <4>3. QED
        BY <4>1, <4>2
    <3>6. Good(h, k)
      <4> HIDE DEF h
      <4>1. QED
        BY <3>4, <3>5
    <3> HIDE DEF Good, h
    <3>7. QED
      BY <3>6, <1>0
  <2>3. PICK g : Good(g, Len(ss))
    <3>1. A = 0..Len(ss)
      <4> HIDE DEF A
      <4>1. A \in SUBSET (0..Len(ss)) /\ Len(ss) \in Nat
        BY <1>0 DEF A
      <4>2. QED
        BY <2>1, <2>2, <4>1, UpTo
    <3>2. Len(ss) \in A
      <4> HIDE DEF A
      <4>1. QED
        BY <3>1, <1>0
    <3>3. QED
      BY <3>2
  <2>4. g = [i \in 1..Len(ss) |-> IF i = 1 THEN ss[i] ELSE g[i - 1] \o ss[i]]
    BY <2>3
  <2>5. PICK f : /\ f = [i \in 1..Len(ss) |-> IF i = 1 THEN ss[i] ELSE f[i - 1] \o ss[i]]
                 /\ FlattenSeq(ss) = f[Len(ss)]
    BY <1>2, <2>4, Zenon DEF FlattenSeq
  <2>6. ASSUME NEW i \in 1..Len(ss) PROVE f[i] = IF i = 1 THEN ss[i] ELSE f[i - 1] \o ss[i]
    BY <2>5, Zenon
  <2> DEFINE h == [i \in 0..Len(ss) |-> IF i = 0 THEN <<>> ELSE f[i]]
  <2>7. h[0] = <<>> /\ h[Len(ss)] = FlattenSeq(ss) /\ \A i \in 1..Len(ss) : h[i] = f[i]
    <3>1. h[0] = <<>> /\ h[Len(ss)] = f[Len(ss)] /\ \A i \in 1..Len(ss) : h[i] = f[i]
      BY <1>0, <1>2
    <3> HIDE DEF h
    <3>2. QED
      BY <3>1, <2>5, Zenon
  <2> DEFINE C == {k \in 0..Len(ss) : h[k] \in Seq(M)}
  <2>8. ASSUME NEW k \in 1..Len(ss), h[k - 1] \in Seq(M)
        PROVE  h[k] = h[k - 1] \o ss[k] /\ h[k] \in Seq(M)
    <3> HIDE DEF h
    <3>1. CASE k = 1
      <4>1. h[k] = ss[k] /\ h[k - 1] = <<>>
        BY <2>6, <2>7, <3>1
      <4>2. <<>> \o ss[k] = ss[k]
        BY <1>0, ConcatEmptySeq
      <4>3. QED
        BY <4>1, <4>2, <1>0
    <3>2. CASE k # 1
      <4>1. k - 1 \in 1..Len(ss)
        BY <3>2, <1>0
      <4>2. h[k] = h[k - 1] \o ss[k]
        BY <4>1, <3>2, <2>6, <2>7
      <4>3. QED
        BY <4>2, <2>8, <1>0, ConcatProperties
    <3>3. QED
      BY <3>1, <3>2
  <2>9. 0 \in C
    <3>1. h[0] \in Seq(M)
      BY <2>7, EmptySeq
    <3>2. QED
      BY <3>1, <1>0
  <2>10. ASSUME NEW k \in 1..Len(ss), k - 1 \in C PROVE k \in C
    <3>1. h[k] \in Seq(M)
      BY <2>8, <2>10
    <3>2. QED
      BY <3>1, <1>0
  <2>11. C = 0..Len(ss)
    <3>1. C \in SUBSET (0..Len(ss)) /\ Len(ss) \in Nat
      BY <1>0
    <3> HIDE DEF C
    <3>2. QED
      BY <2>9, <2>10, <3>1, UpTo
  <2>12. \A k \in 0..Len(ss) : h[k] \in Seq(M)
    BY <2>11
  <2>13. h \in [0..Len(ss) -> Seq(M)]
    BY <2>12
  <2>14. \A i \in 1..Len(ss) : h[i] = h[i - 1] \o ss[i]
    <3>1. \A i \in 1..Len(ss) : i - 1 \in 0..Len(ss)
      BY <1>0
    <3> HIDE DEF h
    <3>2. QED
      BY <2>8, <2>12, <3>1
  <2> HIDE DEF h, C
  <2>15. Flattens(h, M, ss)
    BY <2>7, <2>13, <2>14, Zenon DEF Flattens
  <2>16. QED
    BY <2>15
<1>3. QED
  BY <1>1, <1>2

\* No queues make an empty one.
LEMMA FlatEmpty == FlattenSeq(<<>>) = <<>>
<1>1. Len(<<>>) = 0
  OBVIOUS
<1>2. QED
  BY <1>1, Zenon DEF FlattenSeq

(* What determines the result.                                                         *)
LEMMA FlattenUnique ==
  ASSUME NEW M, NEW ss \in Seq(Seq(M)), NEW f, Flattens(f, M, ss),
         NEW g, g[0] = <<>>, \A i \in 1..Len(ss) : g[i] = g[i - 1] \o ss[i]
  PROVE  FlattenSeq(ss) = g[Len(ss)]
<1>0. Len(ss) \in Nat
  OBVIOUS
<1> DEFINE C == {k \in 0..Len(ss) : f[k] = g[k]}
<1>1. 0 \in C
  BY <1>0 DEF Flattens
<1>2. ASSUME NEW k \in 1..Len(ss), k - 1 \in C PROVE k \in C
  <2>1. f[k - 1] = g[k - 1]
    BY <1>2
  <2>2. f[k] = f[k - 1] \o ss[k] /\ g[k] = g[k - 1] \o ss[k]
    BY Zenon DEF Flattens
  <2>3. f[k] = g[k]
    BY <2>1, <2>2, Zenon
  <2>4. QED
    BY <2>3, <1>0
<1>3. C \in SUBSET (0..Len(ss))
  OBVIOUS
<1>4. C = 0..Len(ss)
  <2> HIDE DEF C
  <2>1. QED
    BY <1>0, <1>1, <1>2, <1>3, UpTo
<1>5. f[Len(ss)] = g[Len(ss)]
  <2>1. Len(ss) \in C
    <3> HIDE DEF C
    <3>1. QED
      BY <1>0, <1>4
  <2>2. QED
    BY <2>1
<1>6. QED
  BY <1>5 DEF Flattens

\* One more queue at the end.
LEMMA FlatPush ==
  ASSUME NEW M, NEW ss \in Seq(Seq(M)), NEW s \in Seq(M)
  PROVE  /\ FlattenSeq(ss) \in Seq(M)
         /\ FlattenSeq(Append(ss, s)) = FlattenSeq(ss) \o s
<1>1. PICK f : Flattens(f, M, ss)
  BY FlattenDef
<1>2. PICK tt \in Seq(Seq(M)) : tt = Append(ss, s)
  BY AppendProperties
<1>3. PICK g : Flattens(g, M, tt)
  BY FlattenDef
<1>4. Len(ss) \in Nat /\ Len(tt) = Len(ss) + 1 /\ tt[Len(tt)] = s /\ \A i \in 1..Len(ss) : tt[i] = ss[i]
  BY <1>2, AppendProperties
<1>5. g[0] = <<>> /\ \A i \in 1..Len(tt) : g[i] = g[i - 1] \o tt[i]
  BY <1>3 DEF Flattens
<1>6. \A i \in 1..Len(ss) : g[i] = g[i - 1] \o ss[i]
  <2>1. ASSUME NEW i \in 1..Len(ss) PROVE i \in 1..Len(tt) /\ tt[i] = ss[i]
    BY <1>4
  <2>2. QED
    BY <1>5, <2>1, Zenon
<1>7. FlattenSeq(ss) = g[Len(ss)]
  BY <1>1, <1>5, <1>6, FlattenUnique
<1>8. g[Len(tt)] = g[Len(tt) - 1] \o tt[Len(tt)]
  <2>1. Len(tt) \in 1..Len(tt)
    BY <1>4
  <2>2. QED
    BY <1>5, <2>1, Zenon
<1>9. Len(tt) - 1 = Len(ss)
  BY <1>4
<1>10. g[Len(tt)] = FlattenSeq(ss) \o s
  BY <1>4, <1>7, <1>8, <1>9, Zenon
<1>11. FlattenSeq(tt) = g[Len(tt)]
  BY <1>3 DEF Flattens
<1>12. FlattenSeq(ss) \in Seq(M)
  BY SMTT(60), <1>1, <1>4 DEF Flattens
<1>13. QED
  BY <1>2, <1>10, <1>11, <1>12, Zenon

\* It does not matter which two are joined first.
Associates(a, b, c) == (a \o b) \o c = a \o (b \o c)

\* Concatenation is associative.
LEMMA Assoc ==
  ASSUME NEW M, NEW a \in Seq(M), NEW b \in Seq(M), NEW c \in Seq(M)
  PROVE  Associates(a, b, c)
<1>1. PICK u \in Seq(M) : u = a \o b
  BY ConcatProperties
<1>2. PICK v \in Seq(M) : v = b \o c
  BY ConcatProperties
<1>3. PICK x \in Seq(M) : x = u \o c
  BY ConcatProperties
<1>4. PICK y \in Seq(M) : y = a \o v
  BY ConcatProperties
<1>5. Len(a) \in Nat /\ Len(b) \in Nat /\ Len(c) \in Nat
  OBVIOUS
<1>6. Len(u) = Len(a) + Len(b) /\ \A i \in 1..Len(u) : u[i] = IF i <= Len(a) THEN a[i] ELSE b[i - Len(a)]
  BY <1>1
<1>7. Len(v) = Len(b) + Len(c) /\ \A i \in 1..Len(v) : v[i] = IF i <= Len(b) THEN b[i] ELSE c[i - Len(b)]
  BY <1>2
<1>8. Len(x) = Len(u) + Len(c) /\ \A i \in 1..Len(x) : x[i] = IF i <= Len(u) THEN u[i] ELSE c[i - Len(u)]
  BY <1>3
<1>9. Len(y) = Len(a) + Len(v) /\ \A i \in 1..Len(y) : y[i] = IF i <= Len(a) THEN a[i] ELSE v[i - Len(a)]
  BY <1>4
<1>10. Len(x) = Len(y)
  BY <1>5, <1>6, <1>7, <1>8, <1>9
<1>11. ASSUME NEW i \in 1..Len(x) PROVE x[i] = y[i]
  <2>1. CASE i <= Len(a)
    <3>1. i <= Len(u) /\ i \in 1..Len(u) /\ i \in 1..Len(y)
      BY <2>1, <1>5, <1>6, <1>7, <1>8, <1>9
    <3>2. x[i] = u[i] /\ u[i] = a[i] /\ y[i] = a[i]
      BY <3>1, <2>1, <1>6, <1>8, <1>9, Zenon
    <3>3. QED
      BY <3>2
  <2>2. CASE ~(i <= Len(a)) /\ i <= Len(u)
    <3>1. /\ i \in 1..Len(u) /\ i \in 1..Len(y) /\ i - Len(a) \in 1..Len(v)
          /\ i - Len(a) <= Len(b)
      BY <2>2, <1>5, <1>6, <1>7, <1>8, <1>9
    <3>2. x[i] = u[i] /\ u[i] = b[i - Len(a)] /\ y[i] = v[i - Len(a)] /\ v[i - Len(a)] = b[i - Len(a)]
      BY <3>1, <2>2, <1>6, <1>7, <1>8, <1>9, Zenon
    <3>3. QED
      BY <3>2
  <2>3. CASE ~(i <= Len(a)) /\ ~(i <= Len(u))
    <3>1. /\ i \in 1..Len(y) /\ i - Len(a) \in 1..Len(v)
          /\ ~(i - Len(a) <= Len(b)) /\ i - Len(u) = (i - Len(a)) - Len(b)
      BY <2>3, <1>5, <1>6, <1>7, <1>8, <1>9
    <3>2. /\ x[i] = c[i - Len(u)] /\ y[i] = v[i - Len(a)]
          /\ v[i - Len(a)] = c[(i - Len(a)) - Len(b)]
      BY <3>1, <2>3, <1>7, <1>8, <1>9, Zenon
    <3>3. QED
      BY <3>1, <3>2, Zenon
  <2>4. QED
    BY <2>1, <2>2, <2>3
<1>12. x = y
  BY <1>10, <1>11, SeqEqual
<1>13. QED
  BY <1>1, <1>2, <1>3, <1>4, <1>12, Zenon DEF Associates

\* One queue less at the head.
LEMMA FlatPop ==
  ASSUME NEW M, NEW ss \in Seq(Seq(M)), ss # <<>>
  PROVE  FlattenSeq(ss) = Head(ss) \o FlattenSeq(Tail(ss))
<1>1. PICK f : Flattens(f, M, ss)
  BY FlattenDef
<1>2. PICK tt \in Seq(Seq(M)), s \in Seq(M) : tt = Tail(ss) /\ s = Head(ss)
  BY HeadTailProperties
<1>3. PICK g : Flattens(g, M, tt)
  BY FlattenDef
<1>4. Len(ss) \in Nat /\ Len(ss) # 0 /\ Len(tt) = Len(ss) - 1 /\ s = ss[1] /\ \A i \in 1..Len(tt) : tt[i] = ss[i + 1]
  BY <1>2
<1>5. PICK h : h = [i \in 0..Len(ss) |-> IF i = 0 THEN <<>> ELSE s \o g[i - 1]]
  OBVIOUS
<1>6. h[0] = <<>> /\ \A i \in 1..Len(ss) : h[i] = s \o g[i - 1]
  <2>1. 0 \in 0..Len(ss) /\ \A i \in 1..Len(ss) : i \in 0..Len(ss) /\ i # 0
    BY <1>4
  <2>2. \A i \in 0..Len(ss) : h[i] = IF i = 0 THEN <<>> ELSE s \o g[i - 1]
    BY <1>5, Zenon
  <2>3. QED
    BY <2>1, <2>2, Zenon
<1>7. g[0] = <<>> /\ g \in [0..Len(tt) -> Seq(M)] /\ \A i \in 1..Len(tt) : g[i] = g[i - 1] \o tt[i]
  BY <1>3 DEF Flattens
<1>8. ASSUME NEW i \in 1..Len(ss) PROVE h[i] = h[i - 1] \o ss[i]
  <2>1. CASE i = 1
    <3>0. i - 1 = 0
      BY <2>1
    <3>1. h[i] = s \o <<>> /\ h[i - 1] = <<>> /\ ss[i] = s
      BY <2>1, <3>0, <1>4, <1>6, <1>7, Zenon
    <3>2. s \o <<>> = s /\ <<>> \o s = s
      BY ConcatEmptySeq
    <3>3. QED
      BY <3>1, <3>2, Zenon
  <2>2. CASE i # 1
    <3>1. i - 1 \in 1..Len(ss) /\ i - 1 \in 1..Len(tt) /\ i - 1 - 1 \in 0..Len(tt) /\ (i - 1) + 1 = i
      BY <2>2, <1>4
    <3>2. PICK j : j = i - 1
      OBVIOUS
    <3>3. /\ h[i] = s \o g[j] /\ h[j] = s \o g[j - 1] /\ g[j] = g[j - 1] \o tt[j] /\ tt[j] = ss[i]
          /\ g[j - 1] \in Seq(M) /\ tt[j] \in Seq(M)
      <4>1. j \in 1..Len(ss) /\ j \in 1..Len(tt) /\ j - 1 \in 0..Len(tt) /\ j + 1 = i
        BY <3>1, <3>2
      <4>2. h[j] = s \o g[j - 1] /\ g[j] = g[j - 1] \o tt[j] /\ g[j - 1] \in Seq(M)
        BY <4>1, <1>6, <1>7
      <4>3. tt[j] = ss[i]
        BY <4>1, <1>4
      <4>4. tt[j] \in Seq(M)
        BY <4>1
      <4>5. h[i] = s \o g[j]
        BY <1>6, <3>2
      <4>6. QED
        BY <4>2, <4>3, <4>4, <4>5
    <3>4. s \o (g[j - 1] \o tt[j]) = (s \o g[j - 1]) \o tt[j]
      <4>1. PICK a \in Seq(M), b \in Seq(M) : a = g[j - 1] /\ b = tt[j]
        BY <3>3
      <4>2. Associates(s, a, b)
        BY Assoc
      <4>3. QED
        BY <4>1, <4>2, Zenon DEF Associates
    <3>5. QED
      BY <3>2, <3>3, <3>4, Zenon
  <2>3. QED
    BY <2>1, <2>2
<1>9. FlattenSeq(ss) = h[Len(ss)]
  BY <1>1, <1>6, <1>8, FlattenUnique
<1>10. h[Len(ss)] = s \o g[Len(tt)]
  <2>1. Len(ss) \in 1..Len(ss) /\ Len(ss) - 1 = Len(tt)
    BY <1>4
  <2>2. QED
    BY <1>6, <2>1
<1>11. FlattenSeq(tt) = g[Len(tt)]
  BY <1>3 DEF Flattens
<1>12. QED
  BY <1>2, <1>9, <1>10, <1>11, Zenon

\* The item e is somewhere in s.
Has(s, e) == \E i \in 1..Len(s) : s[i] = e

\* No two items of s are the same.
Distinct(s) == \A i, j \in 1..Len(s) : s[i] = s[j] => i = j

\* No two items are the same when the queue is an injective function.
LEMMA DistinctInjective ==
  ASSUME NEW M, NEW s \in Seq(M)
  PROVE  IsInjective(s) <=> Distinct(s)
<1>1. DOMAIN s = 1..Len(s)
  OBVIOUS
<1>2. QED
  BY <1>1 DEF IsInjective, Distinct

\* What a queue keeps when some are taken out of it: each once, and none that is new.
LEMMA OnlyKeeps ==
  ASSUME NEW M, NEW s \in Seq(M), NEW S, Distinct(s)
  PROVE  /\ Only(s, S) \in Seq(M) /\ Distinct(Only(s, S))
         /\ \A k \in 1..Len(Only(s, S)) : \E i \in 1..Len(s) : Only(s, S)[k] = s[i] /\ s[i] \in S
<1>1. PICK out \in Seq(M) : out = Only(s, S)
  BY OnlyEmbeds
<1>2. PICK e : Embeds(e, out, s, S)
  BY <1>1, OnlyEmbeds
<1>3. /\ e \in [1..Len(out) -> 1..Len(s)]
      /\ \A k \in 1..Len(out) : out[k] = s[e[k]] /\ s[e[k]] \in S
      /\ \A k, l \in 1..Len(out) : k < l => e[k] < e[l]
      /\ Len(out) \in Nat /\ Len(s) \in Nat
  BY <1>2 DEF Embeds
<1>4. Distinct(out)
  <2> SUFFICES ASSUME NEW k \in 1..Len(out), NEW l \in 1..Len(out), out[k] = out[l]
               PROVE  k = l
    BY DEF Distinct
  <2>1. e[k] \in 1..Len(s) /\ e[l] \in 1..Len(s) /\ s[e[k]] = s[e[l]]
    BY <1>3
  <2>2. e[k] = e[l]
    BY <2>1 DEF Distinct
  <2>3. ~(k < l) /\ ~(l < k)
    BY <2>1, <2>2, <1>3
  <2> QED BY <2>3, <1>3
<1>5. \A k \in 1..Len(out) : \E i \in 1..Len(s) : out[k] = s[i] /\ s[i] \in S
  BY <1>3
<1> QED BY <1>1, <1>4, <1>5

\* y is s, of length m, followed by t, of length n.
Joins(s, t, y, m, n) ==
  /\ m = Len(s) /\ n = Len(t) /\ Len(y) = m + n
  /\ \A i \in 1..m : i \in 1..(m + n) /\ y[i] = s[i]
  /\ \A k \in 1..n : k + m \in 1..(m + n) /\ y[k + m] = t[k]
  /\ \A i \in 1..(m + n) : i \in 1..m \/ \E k \in 1..n : i = k + m

(* The positions of a concatenation: those of the first part, and those of the second    *)
(* moved by the first part's length.                                                      *)
LEMMA ConcatPositions ==
  ASSUME NEW M, NEW s \in Seq(M), NEW t \in Seq(M), NEW y, y = s \o t
  PROVE  \E m, n \in Nat : Joins(s, t, y, m, n)
<1>1. /\ y \in Seq(M) /\ Len(y) = Len(s) + Len(t)
      /\ \A i \in 1..(Len(s) + Len(t)) : y[i] = IF i <= Len(s) THEN s[i] ELSE t[i - Len(s)]
  BY ConcatProperties
<1>2. PICK m \in Nat, n \in Nat : m = Len(s) /\ n = Len(t)
  OBVIOUS
<1>3. \A i \in 1..(m + n) : y[i] = IF i <= m THEN s[i] ELSE t[i - m]
  BY <1>1, <1>2, Zenon
<1>4. ASSUME NEW i \in 1..m PROVE i \in 1..(m + n) /\ y[i] = s[i]
  <2>1. i \in 1..(m + n) /\ i <= m
    OBVIOUS
  <2>2. QED
    BY <1>3, <2>1, Zenon
<1>5. ASSUME NEW k \in 1..n PROVE k + m \in 1..(m + n) /\ y[k + m] = t[k]
  <2>1. k + m \in 1..(m + n) /\ ~(k + m <= m) /\ (k + m) - m = k
    OBVIOUS
  <2>2. QED
    BY <1>3, <2>1, Zenon
<1>6. ASSUME NEW i \in 1..(m + n), i \notin 1..m PROVE \E k \in 1..n : i = k + m
  <2>1. i - m \in 1..n /\ i = (i - m) + m
    BY <1>6
  <2>2. QED
    BY <2>1
<1>7. Len(y) = m + n
  BY <1>1, <1>2, Zenon
<1>8. Joins(s, t, y, m, n)
  BY <1>2, <1>4, <1>5, <1>6, <1>7, Zenon DEF Joins
<1>9. QED
  BY <1>8, Zenon

\* What is in a concatenation is in one of its parts.
LEMMA ConcatHas ==
  ASSUME NEW M, NEW s \in Seq(M), NEW t \in Seq(M), NEW y, y = s \o t
  PROVE  \A e : Has(y, e) <=> (Has(s, e) \/ Has(t, e))
<1>1. PICK m \in Nat, n \in Nat : Joins(s, t, y, m, n)
  BY ConcatPositions, Zenon
<1>2. /\ m = Len(s) /\ n = Len(t) /\ Len(y) = m + n
  BY <1>1, Zenon DEF Joins
<1>3. /\ \A i \in 1..m : i \in 1..(m + n) /\ y[i] = s[i]
      /\ \A k \in 1..n : k + m \in 1..(m + n) /\ y[k + m] = t[k]
      /\ \A i \in 1..(m + n) : i \in 1..m \/ \E k \in 1..n : i = k + m
  BY <1>1, Zenon DEF Joins
<1>4. ASSUME NEW e, Has(y, e) PROVE Has(s, e) \/ Has(t, e)
  <2>1. PICK i \in 1..(m + n) : y[i] = e
    BY <1>2, <1>4, Zenon DEF Has
  <2>2. CASE i \in 1..m
    BY <1>2, <1>3, <2>1, <2>2, Zenon DEF Has
  <2>3. CASE i \notin 1..m
    <3>1. PICK k \in 1..n : i = k + m
      BY <1>3, <2>3, Zenon
    <3>2. QED
      BY <1>2, <1>3, <2>1, <3>1, Zenon DEF Has
  <2>4. QED
    BY <2>2, <2>3, Zenon
<1>5. ASSUME NEW e, Has(s, e) PROVE Has(y, e)
  BY <1>2, <1>3, <1>5, Zenon DEF Has
<1>6. ASSUME NEW e, Has(t, e) PROVE Has(y, e)
  <2>1. PICK k \in 1..n : t[k] = e
    BY <1>2, <1>6, Zenon DEF Has
  <2>2. k + m \in 1..(m + n) /\ y[k + m] = e
    BY <1>3, <2>1, Zenon
  <2>3. QED
    BY <1>2, <2>2, Zenon DEF Has
<1>7. QED
  BY <1>4, <1>5, <1>6, Zenon

\* Two queues without repetition and apart make one without repetition.
LEMMA ConcatDistinct ==
  ASSUME NEW M, NEW s \in Seq(M), NEW t \in Seq(M), NEW y, y = s \o t,
         Distinct(s), Distinct(t), \A e : ~(Has(s, e) /\ Has(t, e))
  PROVE  Distinct(y)
<1>1. PICK m \in Nat, n \in Nat : Joins(s, t, y, m, n)
  BY ConcatPositions, Zenon
<1>2. /\ m = Len(s) /\ n = Len(t) /\ Len(y) = m + n
  BY <1>1, Zenon DEF Joins
<1>3. /\ \A i \in 1..m : i \in 1..(m + n) /\ y[i] = s[i]
      /\ \A k \in 1..n : k + m \in 1..(m + n) /\ y[k + m] = t[k]
      /\ \A i \in 1..(m + n) : i \in 1..m \/ \E k \in 1..n : i = k + m
  BY <1>1, Zenon DEF Joins
<1>4. ASSUME NEW i \in 1..m, NEW k \in 1..n PROVE y[i] # y[k + m]
  <2>1. Has(s, s[i]) /\ Has(t, t[k])
    BY <1>2, Zenon DEF Has
  <2>2. s[i] # t[k]
    BY <2>1, Zenon
  <2>3. QED
    BY <1>3, <2>2, Zenon
<1>5. ASSUME NEW i \in 1..m, NEW j \in 1..m, y[i] = y[j] PROVE i = j
  <2>1. s[i] = s[j]
    BY <1>3, <1>5, Zenon
  <2>2. QED
    BY <1>2, <2>1, Zenon DEF Distinct
<1>6. ASSUME NEW i \in 1..n, NEW j \in 1..n, y[i + m] = y[j + m] PROVE i = j
  <2>1. t[i] = t[j]
    BY <1>3, <1>6, Zenon
  <2>2. QED
    BY <1>2, <2>1, Zenon DEF Distinct
<1>7. ASSUME NEW i \in 1..(m + n), NEW j \in 1..(m + n), y[i] = y[j] PROVE i = j
  <2>1. CASE i \in 1..m /\ j \in 1..m
    BY <1>5, <1>7, <2>1, Zenon
  <2>2. CASE i \in 1..m /\ j \notin 1..m
    <3>1. PICK k \in 1..n : j = k + m
      BY <1>3, <2>2, Zenon
    <3>2. QED
      BY <1>4, <1>7, <2>2, <3>1, Zenon
  <2>3. CASE i \notin 1..m /\ j \in 1..m
    <3>1. PICK k \in 1..n : i = k + m
      BY <1>3, <2>3, Zenon
    <3>2. QED
      BY <1>4, <1>7, <2>3, <3>1, Zenon
  <2>4. CASE i \notin 1..m /\ j \notin 1..m
    <3>1. PICK k \in 1..n : i = k + m
      BY <1>3, <2>4, Zenon
    <3>2. PICK l \in 1..n : j = l + m
      BY <1>3, <2>4, Zenon
    <3>3. k = l
      BY <1>6, <1>7, <3>1, <3>2, Zenon
    <3>4. QED
      BY <3>1, <3>2, <3>3, Zenon
  <2>5. QED
    BY <2>1, <2>2, <2>3, <2>4, Zenon
<1>8. QED
  BY <1>2, <1>7, Zenon DEF Distinct

(***************************************************************************)
(* Numbered items in line                                                    *)
(***************************************************************************)
\* The numbers of the items of s that are in S, and that they rise along s.
IdsIn(s, S) == {s[i].id : i \in {j \in DOMAIN s : s[j] \in S}}
Rising(s, S) == \A i, j \in DOMAIN s : i < j /\ s[i] \in S /\ s[j] \in S => s[i].id < s[j].id

Below(A, B) == \A x \in A, y \in B : x < y

\* s has become t by losing items, and by losing some and gaining the numbers N at its end.
Thinned(s, t, S) == IdsIn(t, S) \subseteq IdsIn(s, S) /\ (Rising(s, S) => Rising(t, S))
Gained(s, t, S, N) ==
  /\ IdsIn(t, S) \subseteq IdsIn(s, S) \cup N
  /\ Rising(s, S) /\ Below(IdsIn(s, S), N) => Rising(t, S)

\* Seven queues in line: the numbers rise along each, from each to the later ones, and up to n.
Lined(L, K, n) ==
  /\ \A k \in 1..7 : Rising(L[k], K[k])
  /\ \A k, l \in 1..7 : k < l => Below(IdsIn(L[k], K[k]), IdsIn(L[l], K[l]))
  /\ \A k \in 1..7 : \A x \in IdsIn(L[k], K[k]) : x <= n

\* The numbers of an empty queue, and of one with nothing in S.
LEMMA IdsEmpty == \A S : IdsIn(<<>>, S) = {} /\ Rising(<<>>, S)
BY DEF IdsIn, Rising

LEMMA IdsNone ==
  ASSUME NEW s, NEW S, \A i \in DOMAIN s : s[i] \notin S
  PROVE  IdsIn(s, S) = {} /\ Rising(s, S)
BY DEF IdsIn, Rising

\* Which numbers are in a queue.
LEMMA InIds ==
  ASSUME NEW s, NEW S, NEW x
  PROVE  x \in IdsIn(s, S) <=> \E i \in DOMAIN s : s[i] \in S /\ s[i].id = x
BY DEF IdsIn

LEMMA ThinnedSame == \A s, S : Thinned(s, s, S)
BY DEF Thinned

\* Items in the order they had, and no others.
LEMMA ThinnedBy ==
  ASSUME NEW M, NEW s \in Seq(M), NEW t \in Seq(M), NEW S, NEW e \in [1..Len(t) -> 1..Len(s)],
         \A k \in 1..Len(t) : t[k] = s[e[k]],
         \A k, l \in 1..Len(t) : k < l => e[k] < e[l]
  PROVE  Thinned(s, t, S)
<1>1. DOMAIN s = 1..Len(s) /\ DOMAIN t = 1..Len(t)
  OBVIOUS
<1>2. IdsIn(t, S) \subseteq IdsIn(s, S)
  <2> SUFFICES ASSUME NEW x, x \in IdsIn(t, S) PROVE x \in IdsIn(s, S)
    OBVIOUS
  <2>1. PICK k \in 1..Len(t) : t[k] \in S /\ t[k].id = x
    BY <1>1, InIds
  <2>2. e[k] \in 1..Len(s) /\ s[e[k]] \in S /\ s[e[k]].id = x
    BY <2>1
  <2> QED BY <2>2, <1>1, InIds
<1>3. Rising(s, S) => Rising(t, S)
  BY <1>1 DEF Rising
<1> QED BY <1>2, <1>3 DEF Thinned

\* What Only keeps.
LEMMA ThinnedOnly ==
  ASSUME NEW M, NEW s \in Seq(M), NEW T, NEW S
  PROVE  Only(s, T) \in Seq(M) /\ Thinned(s, Only(s, T), S)
<1>1. PICK t \in Seq(M) : t = Only(s, T)
  BY OnlyEmbeds
<1>2. PICK e : Embeds(e, t, s, T)
  BY <1>1, OnlyEmbeds
<1>3. Thinned(s, t, S)
  BY <1>2, ThinnedBy DEF Embeds
<1> QED BY <1>1, <1>3

\* Two queues, one behind the other.
LEMMA IdsConcat ==
  ASSUME NEW M, NEW s \in Seq(M), NEW t \in Seq(M), NEW S
  PROVE  /\ IdsIn(s \o t, S) = IdsIn(s, S) \cup IdsIn(t, S)
         /\ Rising(s \o t, S) <=> Rising(s, S) /\ Rising(t, S) /\ Below(IdsIn(s, S), IdsIn(t, S))
<1>1. PICK y : y = s \o t
  OBVIOUS
<1>2. PICK m \in Nat, n \in Nat : Joins(s, t, y, m, n)
  BY <1>1, ConcatPositions
<1>3. DOMAIN s = 1..m /\ DOMAIN t = 1..n /\ DOMAIN y = 1..(m + n)
  BY <1>1, <1>2 DEF Joins
<1>4. IdsIn(y, S) = IdsIn(s, S) \cup IdsIn(t, S)
  <2>1. ASSUME NEW x, x \in IdsIn(y, S) PROVE x \in IdsIn(s, S) \cup IdsIn(t, S)
    <3>1. PICK i \in 1..(m + n) : y[i] \in S /\ y[i].id = x
      BY <2>1, <1>3, InIds
    <3>2. CASE i \in 1..m
      BY <3>1, <3>2, <1>2, <1>3, InIds DEF Joins
    <3>3. CASE \E k \in 1..n : i = k + m
      <4>1. PICK k \in 1..n : i = k + m
        BY <3>3
      <4>2. t[k] \in S /\ t[k].id = x
        BY <4>1, <3>1, <1>2 DEF Joins
      <4> QED BY <4>2, <1>3, InIds
    <3> QED BY <3>2, <3>3, <1>2 DEF Joins
  <2>2. ASSUME NEW x, x \in IdsIn(s, S) PROVE x \in IdsIn(y, S)
    <3>1. PICK i \in 1..m : s[i] \in S /\ s[i].id = x
      BY <2>2, <1>3, InIds
    <3> QED BY <3>1, <1>2, <1>3, InIds DEF Joins
  <2>3. ASSUME NEW x, x \in IdsIn(t, S) PROVE x \in IdsIn(y, S)
    <3>1. PICK k \in 1..n : t[k] \in S /\ t[k].id = x
      BY <2>3, <1>3, InIds
    <3>2. k + m \in 1..(m + n) /\ y[k + m] = t[k]
      BY <1>2 DEF Joins
    <3> QED BY <3>1, <3>2, <1>3, InIds
  <2> QED BY <2>1, <2>2, <2>3
<1>5. ASSUME Rising(y, S) PROVE Rising(s, S) /\ Rising(t, S) /\ Below(IdsIn(s, S), IdsIn(t, S))
  <2>1. Rising(s, S)
    BY <1>2, <1>3, <1>5 DEF Joins, Rising
  <2>2. Rising(t, S)
    <3> SUFFICES ASSUME NEW i \in 1..n, NEW j \in 1..n, i < j, t[i] \in S, t[j] \in S
                 PROVE  t[i].id < t[j].id
      BY <1>3 DEF Rising
    <3>1. i + m \in 1..(m + n) /\ j + m \in 1..(m + n) /\ i + m < j + m /\ y[i + m] = t[i] /\ y[j + m] = t[j]
      BY <1>2 DEF Joins
    <3> QED BY <3>1, <1>3, <1>5 DEF Rising
  <2>3. Below(IdsIn(s, S), IdsIn(t, S))
    <3> SUFFICES ASSUME NEW a, a \in IdsIn(s, S), NEW b, b \in IdsIn(t, S) PROVE a < b
      BY DEF Below
    <3>1. PICK i \in 1..m : s[i] \in S /\ s[i].id = a
      BY <1>3, InIds
    <3>2. PICK k \in 1..n : t[k] \in S /\ t[k].id = b
      BY <1>3, InIds
    <3>3. i \in 1..(m + n) /\ k + m \in 1..(m + n) /\ i < k + m /\ y[i] = s[i] /\ y[k + m] = t[k]
      BY <1>2 DEF Joins
    <3> QED BY <3>1, <3>2, <3>3, <1>3, <1>5 DEF Rising
  <2> QED BY <2>1, <2>2, <2>3
<1>6. ASSUME Rising(s, S), Rising(t, S), Below(IdsIn(s, S), IdsIn(t, S)) PROVE Rising(y, S)
  <2> SUFFICES ASSUME NEW i \in 1..(m + n), NEW j \in 1..(m + n), i < j, y[i] \in S, y[j] \in S
               PROVE  y[i].id < y[j].id
    BY <1>3 DEF Rising
  <2>1. CASE i \in 1..m /\ j \in 1..m
    BY <2>1, <1>2, <1>3, <1>6 DEF Joins, Rising
  <2>2. CASE i \in 1..m /\ \E l \in 1..n : j = l + m
    <3>1. PICK l \in 1..n : j = l + m
      BY <2>2
    <3>2. s[i] = y[i] /\ t[l] = y[j]
      BY <2>2, <3>1, <1>2 DEF Joins
    <3>3. y[i].id \in IdsIn(s, S) /\ y[j].id \in IdsIn(t, S)
      BY <2>2, <3>1, <3>2, <1>3, InIds
    <3> QED BY <3>3, <1>6 DEF Below
  <2>3. CASE (\E k \in 1..n : i = k + m) /\ \E l \in 1..n : j = l + m
    <3>1. PICK k \in 1..n, l \in 1..n : i = k + m /\ j = l + m
      BY <2>3
    <3>2. t[k] = y[i] /\ t[l] = y[j] /\ k < l
      BY <3>1, <1>2 DEF Joins
    <3> QED BY <3>1, <3>2, <1>3, <1>6 DEF Rising
  <2>4. ~(j \in 1..m /\ \E k \in 1..n : i = k + m)
    BY <1>2
  <2> QED BY <2>1, <2>2, <2>3, <2>4, <1>2 DEF Joins
<1> QED BY <1>1, <1>4, <1>5, <1>6

\* A queue behind another that grows by it.
LEMMA GainedConcat ==
  ASSUME NEW M, NEW s \in Seq(M), NEW t \in Seq(M), NEW S, Rising(t, S)
  PROVE  /\ Gained(s, s \o t, S, IdsIn(t, S))
         /\ IdsIn(t, S) = {} => Thinned(s, s \o t, S)
BY IdsConcat DEF Gained, Thinned, Below

\* One item at the end.
LEMMA GainedPush ==
  ASSUME NEW M, NEW s \in Seq(M), NEW x \in M, NEW S
  PROVE  /\ x \notin S => Thinned(s, Append(s, x), S)
         /\ Gained(s, Append(s, x), S, {x.id})
<1>0. <<x>> \in Seq(M)
  OBVIOUS
<1>1. PICK t \in Seq(M) : t = <<x>>
  BY <1>0
<1>2. DOMAIN t = {1} /\ t[1] = x
  BY <1>1
<1>3. Rising(t, S) /\ IdsIn(t, S) \subseteq {x.id} /\ (x \notin S => IdsIn(t, S) = {})
  BY <1>2 DEF Rising, IdsIn
<1>4. Append(s, x) = s \o t
  BY <1>1
<1>5. Thinned(s, s \o t, S) \/ x \in S
  BY <1>3, GainedConcat
<1>6. Gained(s, s \o t, S, {x.id})
  BY <1>3, GainedConcat DEF Gained, Below
<1> QED BY <1>4, <1>5, <1>6

\* The first item taken: its number is below what stays.
LEMMA ThinnedPop ==
  ASSUME NEW M, NEW s \in Seq(M), s # <<>>, NEW S
  PROVE  /\ Thinned(s, Tail(s), S)
         /\ Head(s) \in S => /\ Head(s).id \in IdsIn(s, S)
                             /\ Rising(s, S) => Below({Head(s).id}, IdsIn(Tail(s), S))
<1>1. PICK h \in M, u \in Seq(M), t \in Seq(M) : h = Head(s) /\ u = Tail(s) /\ t = <<h>> /\ s = t \o u
  BY HeadFirst
<1>2. DOMAIN t = {1} /\ t[1] = h
  BY <1>1
<1>3. h \in S => IdsIn(t, S) = {h.id}
  BY <1>2 DEF IdsIn
<1>a. /\ IdsIn(t \o u, S) = IdsIn(t, S) \cup IdsIn(u, S)
      /\ Rising(t \o u, S) => Rising(u, S) /\ Below(IdsIn(t, S), IdsIn(u, S))
  BY IdsConcat
<1>4. IdsIn(s, S) = IdsIn(t, S) \cup IdsIn(u, S)
  BY <1>1, <1>a, Zenon
<1>5. Rising(s, S) => Rising(u, S) /\ Below(IdsIn(t, S), IdsIn(u, S))
  BY <1>1, <1>a, Zenon
<1>6. Thinned(s, u, S)
  BY <1>4, <1>5 DEF Thinned
<1> QED BY <1>1, <1>3, <1>4, <1>5, <1>6

(* Something passes from one queue of a line to an earlier one, past none: the line    *)
(* stays a line. What is lost meanwhile does not matter.                                 *)
LEMMA LinePasses ==
  ASSUME NEW L, NEW L2, NEW K, NEW n, Lined(L, K, n), NEW to \in 1..7, NEW from \in 1..7, to < from,
         NEW N, N \subseteq IdsIn(L[from], K[from]), Below(N, IdsIn(L2[from], K[from])),
         Gained(L[to], L2[to], K[to], N),
         \A k \in 1..7 : k # to => Thinned(L[k], L2[k], K[k]),
         \A k \in 1..7 : to < k /\ k < from => IdsIn(L2[k], K[k]) = {}
  PROVE  Lined(L2, K, n)
<1> DEFINE A(k) == IdsIn(L[k], K[k])
           B(k) == IdsIn(L2[k], K[k])
<1>1. /\ \A k, l \in 1..7 : k < l => Below(A(k), A(l))
      /\ \A k \in 1..7 : Rising(L[k], K[k]) /\ \A x \in A(k) : x <= n
  BY DEF Lined
<1>2. /\ \A k \in 1..7 : k # to => B(k) \subseteq A(k) /\ Rising(L2[k], K[k])
      /\ B(to) \subseteq A(to) \cup N
  BY <1>1 DEF Thinned, Gained
<1>3. N \subseteq A(from) /\ Below(N, B(from)) /\ \A k \in 1..7 : to < k /\ k < from => B(k) = {}
  OBVIOUS
<1>4. Rising(L2[to], K[to])
  <2>1. Below(A(to), N)
    BY <1>1, <1>3 DEF Below
  <2> QED BY <1>1, <2>1 DEF Gained
<1>5. \A k \in 1..7 : \A x \in B(k) : x <= n
  BY <1>1, <1>2, <1>3
<1> HIDE DEF A, B
<1>6. ASSUME NEW k \in 1..7, NEW l \in 1..7, k < l, NEW x \in B(k), NEW y \in B(l) PROVE x < y
  <2>1. CASE x \in A(k) /\ y \in A(l)
    BY <2>1, <1>1, <1>6 DEF Below
  <2>2. CASE k = to /\ x \in N
    <3>1. l # to /\ y \in A(l)
      BY <2>2, <1>2, <1>6
    <3>2. CASE l < from
      BY <2>2, <3>2, <1>3, <1>6
    <3>3. CASE l = from
      BY <2>2, <3>3, <1>3, <1>6 DEF Below
    <3>4. CASE l > from
      BY <2>2, <3>1, <3>4, <1>1, <1>3, <1>6 DEF Below
    <3> QED BY <3>2, <3>3, <3>4
  <2>3. CASE l = to /\ y \in N
    <3>1. k # to /\ k < from /\ x \in A(k) /\ y \in A(from)
      BY <2>3, <1>2, <1>3, <1>6
    <3> QED BY <3>1, <1>1 DEF Below
  <2> QED BY <2>1, <2>2, <2>3, <1>2, <1>6
<1>7. \A k, l \in 1..7 : k < l => Below(B(k), B(l))
  BY <1>6 DEF Below
<1> QED BY <1>2, <1>4, <1>5, <1>7 DEF Lined, B

\* Some are lost.
LEMMA LineThins ==
  ASSUME NEW L, NEW L2, NEW K, NEW n, Lined(L, K, n),
         \A k \in 1..7 : Thinned(L[k], L2[k], K[k])
  PROVE  Lined(L2, K, n)
BY DEF Lined, Thinned, Below

\* A new one comes last.
LEMMA LineGrows ==
  ASSUME NEW L, NEW L2, NEW K, NEW n \in Nat, Lined(L, K, n),
         \A k \in 1..7 : \A x \in IdsIn(L[k], K[k]) : x \in Nat,
         Gained(L[7], L2[7], K[7], {n + 1}),
         \A k \in 1..6 : Thinned(L[k], L2[k], K[k])
  PROVE  Lined(L2, K, n + 1)
<1> DEFINE A(k) == IdsIn(L[k], K[k])
           B(k) == IdsIn(L2[k], K[k])
<1>1. /\ \A k, l \in 1..7 : k < l => Below(A(k), A(l))
      /\ \A k \in 1..7 : Rising(L[k], K[k]) /\ \A x \in A(k) : x <= n /\ x \in Nat
  BY DEF Lined
<1>2. \A k \in 1..7 : Below(A(k), {n + 1})
  BY <1>1 DEF Below
<1>3. \A k \in 1..7 : Rising(L2[k], K[k]) /\ B(k) \subseteq A(k) \cup (IF k = 7 THEN {n + 1} ELSE {})
  <2> TAKE k \in 1..7
  <2>1. CASE k = 7
    BY <2>1, <1>1, <1>2 DEF Gained
  <2>2. CASE k \in 1..6
    BY <2>2, <1>1 DEF Thinned
  <2> QED BY <2>1, <2>2
<1> HIDE DEF A, B
<1>4. \A k \in 1..7 : \A x \in B(k) : x <= n + 1
  BY <1>1, <1>3
<1>5. ASSUME NEW k \in 1..7, NEW l \in 1..7, k < l, NEW x \in B(k), NEW y \in B(l) PROVE x < y
  <2>1. x \in A(k)
    BY <1>3, <1>5
  <2>2. y \in A(l) \/ y = n + 1
    BY <1>3, <1>5
  <2> QED BY <2>1, <2>2, <1>1, <1>2, <1>5 DEF Below
<1> QED BY <1>3, <1>4, <1>5 DEF Lined, Below, B
=============================================================================
