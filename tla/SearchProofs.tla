---------------------------- MODULE SearchProofs ----------------------------
(***************************************************************************)
(* Proofs about Search, and about the imports and the reader it extends:    *)
(* for any files, translations, processes, requests and contents.           *)
(***************************************************************************)
EXTENDS Search, FiniteSetTheorems, FunctionTheorems, SequenceTheorems, TLAPS

-----------------------------------------------------------------------------
(* Numbers, folds and orders. *)

\* A set of numbers has a least one. With that, induction over numbers is an
\* argument about the set of those that lack a property.
LEMMA LeastNat ==
  ASSUME NEW T \in SUBSET Nat, T # {}
  PROVE  \E m \in T : \A k \in T : m <= k
<1>1. IsWellFoundedOn(OpToRel(<, Nat), Nat)
  BY NatLessThanWellFounded
<1>2. PICK m \in T : \A k \in T : ~ (<<k, m>> \in OpToRel(<, Nat))
  BY <1>1, WFMin
<1>3. ASSUME NEW k \in T PROVE m <= k
  <2>1. m \in Nat /\ k \in Nat
    OBVIOUS
  <2>2. ~(k < m)
    BY <1>2, <2>1 DEF OpToRel
  <2> QED BY <2>1, <2>2
<1> QED BY <1>3

\* Induction up to n, for a set of the numbers that have a property.
LEMMA UpTo ==
  ASSUME NEW n \in Nat, NEW P, 0 \in P, \A i \in 1 .. n : i - 1 \in P => i \in P
  PROVE  \A i \in 0 .. n : i \in P
<1> DEFINE T == {i \in 0 .. n : i \notin P}
<1> SUFFICES ASSUME T # {} PROVE FALSE
  OBVIOUS
<1>0. T \in SUBSET Nat
  OBVIOUS
<1>1. PICK m \in T : \A k \in T : m <= k
  <2> HIDE DEF T
  <2> QED BY <1>0, LeastNat
<1>2. m \in 1 .. n /\ m - 1 \in 0 .. n
  BY <1>1
<1>3. m - 1 \in P
  BY <1>1, <1>2
<1> QED BY <1>1, <1>2, <1>3

\* A fold of the functions step[1], ... step[n] exists.
Steps(n, S) == [1 .. n -> [S -> S]]
Folds(n, S, s0, step) ==
  {f \in [0 .. n -> S] : f[0] = s0 /\ \A i \in 1 .. n : f[i] = step[i][f[i - 1]]}

LEMMA FoldExists ==
  ASSUME NEW n \in Nat, NEW S, NEW s0 \in S, NEW step \in Steps(n, S)
  PROVE  Folds(n, S, s0, step) # {}
<1> DEFINE Fold(m) == {f \in [0 .. m -> S] : f[0] = s0 /\ \A i \in 1 .. m : f[i] = step[i][f[i - 1]]}
           P == {m \in 0 .. n : Fold(m) # {}}
<1>1. 0 \in P
  <2>1. [i \in 0 .. 0 |-> s0] \in Fold(0)
    OBVIOUS
  <2> QED BY <2>1
<1>2. ASSUME NEW m \in 1 .. n, m - 1 \in P PROVE m \in P
  <2>1. PICK f \in Fold(m - 1) : TRUE
    BY <1>2
  <2> DEFINE g == [i \in 0 .. m |-> IF i = m THEN step[m][f[m - 1]] ELSE f[i]]
  <2>2. f \in [0 .. m - 1 -> S] /\ f[0] = s0 /\ \A i \in 1 .. m - 1 : f[i] = step[i][f[i - 1]]
    BY <2>1
  <2>3. step[m][f[m - 1]] \in S
    BY <2>2 DEF Steps
  <2>4. g \in [0 .. m -> S]
    BY <2>2, <2>3
  <2>5. g[0] = s0
    BY <2>2
  <2>6. ASSUME NEW i \in 1 .. m PROVE g[i] = step[i][g[i - 1]]
    <3>1. i - 1 \in 0 .. m /\ i - 1 # m
      OBVIOUS
    <3>2. g[i - 1] = f[i - 1]
      BY <3>1
    <3>3. CASE i = m
      <4>1. g[m] = step[m][f[m - 1]]
        OBVIOUS
      <4> QED BY <3>2, <3>3, <4>1
    <3>4. CASE i # m
      <4>1. g[i] = f[i] /\ i \in 1 .. m - 1
        BY <3>4
      <4> QED BY <2>2, <3>2, <4>1
    <3> QED BY <3>3, <3>4
  <2>7. g \in Fold(m)
    BY <2>4, <2>5, <2>6
  <2>8. m \in 0 .. n
    OBVIOUS
  <2> HIDE DEF g, Fold
  <2> QED BY <2>7, <2>8
<1>3. n \in P
  <2> HIDE DEF P
  <2>1. \A i \in 0 .. n : i \in P
    BY <1>1, <1>2, UpTo
  <2> QED BY <2>1
<1> QED BY <1>3 DEF Folds

\* A finite set can be put in the order of a key that tells its elements apart.
LEMMA Sorted ==
  ASSUME NEW S, IsFiniteSet(S), NEW key \in [S -> Int], \A u, v \in S : key[u] = key[v] => u = v
  PROVE  \E s \in [1 .. Cardinality(S) -> S] : \A i, k \in DOMAIN s : i < k => key[s[i]] < key[s[k]]
<1> DEFINE n == Cardinality(S)
           below(v) == {u \in S : key[u] <= key[v]}
           rank == [v \in S |-> Cardinality(below(v))]
<1>1. n \in Nat
  BY FS_CardinalityType
<1>2. ASSUME NEW v \in S PROVE IsFiniteSet(below(v)) /\ rank[v] \in 1 .. n
  <2>1. below(v) \in SUBSET S /\ v \in below(v)
    OBVIOUS
  <2>2. IsFiniteSet(below(v)) /\ Cardinality(below(v)) <= n
    BY <2>1, FS_Subset
  <2>3. Cardinality(below(v)) \in Nat /\ Cardinality(below(v)) # 0
    BY <2>1, <2>2, FS_CardinalityType, FS_EmptySet
  <2> QED BY <1>1, <2>2, <2>3
<1>3. ASSUME NEW u \in S, NEW v \in S, key[u] < key[v] PROVE rank[u] < rank[v]
  <2>1. below(u) \in SUBSET below(v) /\ v \in below(v) /\ v \notin below(u)
    BY <1>3
  <2>2. Cardinality(below(u)) <= Cardinality(below(v)) /\ Cardinality(below(u)) # Cardinality(below(v))
    BY <1>2, <2>1, FS_Subset
  <2>3. rank[u] \in Nat /\ rank[v] \in Nat
    BY <1>2
  <2> QED BY <2>2, <2>3
<1>4. rank \in [S -> 1 .. n]
  BY <1>2
<1> HIDE DEF rank
<1>5. \A u, v \in S : rank[u] = rank[v] => u = v
  <2> SUFFICES ASSUME NEW u \in S, NEW v \in S, rank[u] = rank[v], u # v PROVE FALSE
    OBVIOUS
  <2>1. key[u] < key[v] \/ key[v] < key[u]
    OBVIOUS
  <2>2. rank[u] \in Nat /\ rank[v] \in Nat
    BY <1>4
  <2> QED BY <1>3, <2>1, <2>2
<1>6. rank \in Injection(S, 1 .. n)
  BY <1>4, <1>5, Fun_IsInj
<1>7. IsFiniteSet(1 .. n) /\ Cardinality(1 .. n) = n
  BY <1>1, FS_Interval
<1>8. rank \in Surjection(S, 1 .. n)
  BY <1>6, <1>7, FS_Injection
<1>9. \A i \in 1 .. n : \E v \in S : rank[v] = i
  BY <1>8, Fun_SurjectionProperties
<1> DEFINE s == [i \in 1 .. n |-> CHOOSE v \in S : rank[v] = i]
<1>10. s \in [1 .. n -> S] /\ \A i \in 1 .. n : rank[s[i]] = i
  BY <1>9
<1> HIDE DEF s
<1>11. ASSUME NEW i \in 1 .. n, NEW k \in 1 .. n, i < k PROVE key[s[i]] < key[s[k]]
  <2>1. s[i] \in S /\ s[k] \in S /\ rank[s[i]] = i /\ rank[s[k]] = k
    BY <1>10
  <2>2. key[s[i]] \in Int /\ key[s[k]] \in Int
    BY <2>1
  <2>3. ~(key[s[k]] < key[s[i]]) /\ key[s[i]] # key[s[k]]
    <3>1. ~(rank[s[k]] < rank[s[i]])
      BY <1>11, <2>1
    <3>2. s[i] # s[k]
      BY <1>11, <2>1
    <3> QED BY <1>3, <2>1, <3>1, <3>2
  <2> QED BY <2>2, <2>3
<1> QED BY <1>10, <1>11

\* A function that numbers the elements of a set names each of them.
LEMMA OntoItself ==
  ASSUME NEW S, IsFiniteSet(S), NEW s \in [1 .. Cardinality(S) -> S], \A i, k \in DOMAIN s : s[i] = s[k] => i = k
  PROVE  Range(s) = S
<1>1. Cardinality(S) \in Nat
  BY FS_CardinalityType
<1>2. s \in Injection(1 .. Cardinality(S), S)
  BY Fun_IsInj
<1>3. Cardinality(1 .. Cardinality(S)) = Cardinality(S)
  BY <1>1, FS_Interval
<1>4. s \in Surjection(1 .. Cardinality(S), S)
  BY <1>2, <1>3, FS_Injection
<1> QED BY <1>4, Fun_SurjectionProperties

\* The image of a finite set under a function is finite.
LEMMA ImageFinite ==
  ASSUME NEW S, IsFiniteSet(S), NEW T, NEW f \in [S -> T], \A t \in T : \E x \in S : f[x] = t
  PROVE  IsFiniteSet(T)
<1>1. f \in Surjection(S, T)
  BY Fun_IsSurj
<1> QED BY <1>1, FS_Surjection

\* A finite set of integers has a greatest and a least element, and Max and Min are they.
LEMMA MaxOf ==
  ASSUME NEW S \in SUBSET Int, IsFiniteSet(S), S # {}
  PROVE  Max(S) \in S /\ \A x \in S : x <= Max(S)
<1> DEFINE n == Cardinality(S)
           key == [x \in S |-> x]
<1>1. n \in Nat /\ n # 0
  BY FS_CardinalityType, FS_EmptySet
<1>2. PICK s \in [1 .. n -> S] : \A i, k \in DOMAIN s : i < k => key[s[i]] < key[s[k]]
  <2>1. key \in [S -> Int] /\ \A u, v \in S : key[u] = key[v] => u = v
    OBVIOUS
  <2> HIDE DEF key
  <2> QED BY <2>1, Sorted
<1>3. ASSUME NEW i \in 1 .. n, NEW k \in 1 .. n, i < k PROVE s[i] < s[k]
  BY <1>2, <1>3
<1>4. ASSUME NEW i \in 1 .. n, NEW k \in 1 .. n, s[i] = s[k] PROVE i = k
  <2>1. s[i] \in Int
    BY <1>2
  <2>2. ~(i < k) /\ ~(k < i)
    BY <1>3, <1>4, <2>1
  <2> QED BY <1>1, <2>2
<1>5. Range(s) = S
  BY <1>1, <1>2, <1>4, OntoItself
<1>6. \A x \in S : s[n] >= x
  <2> SUFFICES ASSUME NEW i \in 1 .. n PROVE s[n] >= s[i]
    BY <1>2, <1>5 DEF Range
  <2>1. n \in 1 .. n /\ (i < n \/ i = n)
    <3> HIDE DEF n
    <3> QED BY <1>1
  <2>2. s[i] \in Int /\ s[n] \in Int
    BY <1>2, <2>1
  <2> QED BY <1>3, <2>1, <2>2
<1>7. s[n] \in S
  BY <1>1, <1>2
<1>8. Max(S) \in S /\ \A y \in S : Max(S) >= y
  BY <1>6, <1>7 DEF Max
<1> QED BY <1>8

-----------------------------------------------------------------------------
(* Sets of numbers in order. *)

LEMMA MinIs ==
  ASSUME NEW S \in SUBSET Nat, S # {}
  PROVE  Min(S) \in S /\ \A j \in S : Min(S) <= j
BY LeastNat DEF Min

LEMMA MaxIs ==
  ASSUME NEW n \in Nat, NEW S \in SUBSET (0 .. n), S # {}
  PROVE  Max(S) \in S /\ \A j \in S : j <= Max(S)
<1> DEFINE T == {n - j : j \in S}
<1>0. \A j \in S : j \in 0 .. n /\ n - j \in Nat
  OBVIOUS
<1>1. T \in SUBSET Nat /\ T # {}
  BY <1>0
<1>2. PICK m \in T : \A k \in T : m <= k
  BY <1>1, LeastNat
<1>3. PICK x \in S : m = n - x
  BY <1>2
<1>4. \A j \in S : n - j \in T
  OBVIOUS
<1>5. \A j \in S : j <= x
  <2> SUFFICES ASSUME NEW j \in S PROVE j <= x
    OBVIOUS
  <2>1. n - x <= n - j
    BY <1>2, <1>3, <1>4
  <2>2. j \in Nat /\ x \in Nat
    OBVIOUS
  <2> QED BY <2>1, <2>2
<1> QED BY <1>5 DEF Max

\* The place of i in the order of S.
RankIn(S, i) == Cardinality({j \in S : j <= i})

LEMMA Ranks ==
  ASSUME NEW S \in SUBSET Nat, IsFiniteSet(S)
  PROVE  /\ Cardinality(S) \in Nat
         /\ \A i \in S : RankIn(S, i) \in 1 .. Cardinality(S)
         /\ \A i, j \in S : i < j => RankIn(S, i) < RankIn(S, j)
         /\ \A k \in 1 .. Cardinality(S) : \E i \in S : RankIn(S, i) = k
<1> DEFINE n == Cardinality(S)
           below(v) == {j \in S : j <= v}
           rank == [v \in S |-> RankIn(S, v)]
<1>0. \A j \in S : j \in Nat
  OBVIOUS
<1>1. n \in Nat
  BY FS_CardinalityType
<1>2. ASSUME NEW v \in S PROVE IsFiniteSet(below(v)) /\ RankIn(S, v) \in 1 .. n
  <2>1. below(v) \in SUBSET S /\ v \in below(v)
    BY <1>0
  <2>2. IsFiniteSet(below(v)) /\ Cardinality(below(v)) <= n
    BY <2>1, FS_Subset
  <2>3. Cardinality(below(v)) \in Nat /\ Cardinality(below(v)) # 0
    BY <2>1, <2>2, FS_CardinalityType, FS_EmptySet
  <2>4. RankIn(S, v) = Cardinality(below(v))
    BY DEF RankIn
  <2> HIDE DEF n, below
  <2> QED BY <1>1, <2>2, <2>3, <2>4
<1>3. ASSUME NEW u \in S, NEW v \in S, u < v PROVE RankIn(S, u) < RankIn(S, v)
  <2>0. v \in below(v) /\ v \notin below(u) /\ \A j \in S : j <= u => j <= v
    BY <1>0, <1>3
  <2>1. below(u) \in SUBSET below(v) /\ v \in below(v) /\ v \notin below(u)
    BY <2>0
  <2>2. Cardinality(below(u)) <= Cardinality(below(v)) /\ Cardinality(below(u)) # Cardinality(below(v))
    BY <1>2, <2>1, FS_Subset
  <2>3. RankIn(S, u) \in Nat /\ RankIn(S, v) \in Nat
    <3> HIDE DEF n, below
    <3> QED BY <1>1, <1>2
  <2>4. RankIn(S, u) = Cardinality(below(u)) /\ RankIn(S, v) = Cardinality(below(v))
    BY DEF RankIn
  <2> HIDE DEF below
  <2> QED BY <2>2, <2>3, <2>4
<1>4. rank \in [S -> 1 .. n]
  BY <1>2
<1>5. \A u, v \in S : rank[u] = rank[v] => u = v
  <2> SUFFICES ASSUME NEW u \in S, NEW v \in S, rank[u] = rank[v], u # v PROVE FALSE
    OBVIOUS
  <2>1. u < v \/ v < u
    OBVIOUS
  <2>2. RankIn(S, u) \in Nat /\ RankIn(S, v) \in Nat
    <3> HIDE DEF n, below
    <3> QED BY <1>1, <1>2
  <2> QED BY <1>3, <2>1, <2>2
<1> HIDE DEF rank
<1>6. rank \in Injection(S, 1 .. n)
  BY <1>4, <1>5, Fun_IsInj
<1>7. IsFiniteSet(1 .. n) /\ Cardinality(1 .. n) = n
  BY <1>1, FS_Interval
<1>8. rank \in Surjection(S, 1 .. n)
  BY <1>6, <1>7, FS_Injection
<1>9. \A k \in 1 .. n : \E v \in S : rank[v] = k
  BY <1>8, Fun_SurjectionProperties
<1> QED BY <1>1, <1>2, <1>3, <1>9 DEF rank

\* InOrder numbers a set of numbers from the least to the greatest.
LEMMA InOrderIs ==
  ASSUME NEW S \in SUBSET Nat, IsFiniteSet(S)
  PROVE  /\ Cardinality(S) \in Nat
         /\ InOrder(S) \in [1 .. Cardinality(S) -> S]
         /\ \A i \in S : RankIn(S, i) \in 1 .. Cardinality(S) /\ InOrder(S)[RankIn(S, i)] = i
<1>1. \A i, j \in S : RankIn(S, i) = RankIn(S, j) => i = j
  <2> SUFFICES ASSUME NEW i \in S, NEW j \in S, RankIn(S, i) = RankIn(S, j), i # j PROVE FALSE
    OBVIOUS
  <2>1. i < j \/ j < i
    OBVIOUS
  <2>2. RankIn(S, i) \in Nat /\ RankIn(S, j) \in Nat
    BY Ranks
  <2> QED BY <2>1, <2>2, Ranks
<1>2. InOrder(S) = [k \in 1 .. Cardinality(S) |-> CHOOSE i \in S : RankIn(S, i) = k]
  BY DEF InOrder, RankIn
<1>3. InOrder(S) \in [1 .. Cardinality(S) -> S]
  BY <1>2, Ranks
<1>4. ASSUME NEW i \in S PROVE InOrder(S)[RankIn(S, i)] = i
  BY <1>1, <1>2, Ranks
<1> QED BY <1>3, <1>4, Ranks

\* What g gives the elements of S, in their order.
Gives(S, T, g) == g \in [S -> T]
Arranged(S, g) == [k \in 1 .. Cardinality(S) |-> g[InOrder(S)[k]]]

LEMMA ArrangedType ==
  ASSUME NEW S \in SUBSET Nat, IsFiniteSet(S), NEW T, NEW g, Gives(S, T, g)
  PROVE  Arranged(S, g) \in Seq(T) /\ Len(Arranged(S, g)) = Cardinality(S)
<1>1. Arranged(S, g) \in [1 .. Cardinality(S) -> T] /\ Cardinality(S) \in Nat
  BY InOrderIs DEF Arranged, Gives
<1> QED BY <1>1

\* A greater number comes last.
LEMMA InOrderAdd ==
  ASSUME NEW S \in SUBSET Nat, IsFiniteSet(S), NEW i \in Nat, \A j \in S : j < i
  PROVE  /\ IsFiniteSet(S \cup {i}) /\ Cardinality(S \cup {i}) = Cardinality(S) + 1
         /\ InOrder(S \cup {i})[Cardinality(S) + 1] = i
         /\ \A k \in 1 .. Cardinality(S) : InOrder(S \cup {i})[k] = InOrder(S)[k]
<1> DEFINE T == S \cup {i}
<1>0. \A j \in S : j \in Nat /\ j < i
  OBVIOUS
<1>1. i \notin S /\ T \in SUBSET Nat
  BY <1>0
<1>2. IsFiniteSet(T) /\ Cardinality(T) = Cardinality(S) + 1
  BY <1>1, FS_AddElement
<1>3. {j \in T : j <= i} = T
  <2>1. \A j \in T : j <= i
    BY <1>0
  <2> QED BY <2>1
<1>4. RankIn(T, i) = Cardinality(S) + 1
  BY <1>2, <1>3 DEF RankIn
<1>5. ASSUME NEW k \in 1 .. Cardinality(S) PROVE InOrder(T)[k] = InOrder(S)[k]
  <2>1. PICK j \in S : RankIn(S, j) = k
    BY Ranks
  <2>2. {m \in T : m <= j} = {m \in S : m <= j}
    BY <1>0
  <2>3. RankIn(T, j) = k
    BY <2>1, <2>2 DEF RankIn
  <2> HIDE DEF T
  <2>4. InOrder(T)[k] = j
    BY <1>1, <1>2, <2>3, InOrderIs DEF T
  <2>5. InOrder(S)[k] = j
    BY <2>1, InOrderIs
  <2> QED BY <2>4, <2>5
<1>6. InOrder(T)[RankIn(T, i)] = i
  <2> HIDE DEF T
  <2> QED BY <1>1, <1>2, InOrderIs DEF T
<1> QED BY <1>2, <1>4, <1>5, <1>6

Extends(h, g, R, S, i, T) ==
  /\ S \in SUBSET Nat /\ IsFiniteSet(S) /\ i \in Nat /\ (\A j \in S : j < i) /\ R = S \cup {i}
  /\ Gives(S, T, g) /\ Gives(R, T, h) /\ \A j \in S : h[j] = g[j]

LEMMA ArrangedAdd ==
  ASSUME NEW S, NEW i, NEW R, NEW T, NEW g, NEW h, Extends(h, g, R, S, i, T)
  PROVE  Arranged(R, h) = Append(Arranged(S, g), h[i])
<1>0. R = S \cup {i}
  BY DEF Extends
<1> USE DEF Extends
<1> DEFINE n == Cardinality(S)
<1>1. n \in Nat /\ Cardinality(S \cup {i}) = n + 1
  BY InOrderAdd, FS_CardinalityType
<1>2. Arranged(S, g) \in Seq(T) /\ Len(Arranged(S, g)) = n
  BY ArrangedType
<1>3. ASSUME NEW k \in 1 .. n PROVE Arranged(R, h)[k] = Arranged(S, g)[k]
  <2>1. InOrder(S)[k] \in S
    BY InOrderIs
  <2>2. InOrder(S \cup {i})[k] = InOrder(S)[k]
    BY InOrderAdd
  <2>3. k \in 1 .. n + 1
    BY <1>1
  <2> QED BY <1>0, <1>1, <2>1, <2>2, <2>3 DEF Arranged
<1>4. Arranged(R, h)[n + 1] = h[i]
  <2>1. InOrder(S \cup {i})[n + 1] = i /\ n + 1 \in 1 .. n + 1
    BY <1>1, InOrderAdd
  <2> QED BY <1>0, <1>1, <2>1 DEF Arranged
<1>5. DOMAIN Arranged(R, h) = 1 .. n + 1 /\ Arranged(R, h) = [k \in 1 .. n + 1 |-> Arranged(R, h)[k]]
  BY <1>0, <1>1 DEF Arranged
<1> HIDE DEF n
<1>6. Append(Arranged(S, g), h[i]) = [k \in 1 .. n + 1 |-> IF k = n + 1 THEN h[i] ELSE Arranged(S, g)[k]]
  <2> DEFINE s == Arranged(S, g)
             y == h[i]
  <2>1. s \in Seq(T) /\ Len(s) = n /\ y \in T
    BY <1>2 DEF Gives
  <2> HIDE DEF s, y
  <2>2. Append(s, y) = [k \in 1 .. n + 1 |-> IF k = n + 1 THEN y ELSE s[k]]
    <3>1. /\ Append(s, y) \in Seq(T) /\ Len(Append(s, y)) = n + 1
          /\ Append(s, y)[n + 1] = y /\ \A k \in 1 .. n : Append(s, y)[k] = s[k]
      BY <1>1, <2>1, AppendProperties
    <3>2. PICK q \in Seq(T) : q = Append(s, y)
      BY <3>1
    <3>3. Len(q) = n + 1
      BY <3>1, <3>2
    <3>4. q \in [1 .. n + 1 -> T]
      BY <3>3
    <3>5. \A k \in 1 .. n + 1 : q[k] = IF k = n + 1 THEN y ELSE s[k]
      BY <1>1, <3>1, <3>2
    <3> QED BY <3>2, <3>4, <3>5
  <2> QED BY <2>2 DEF s, y
<1>7. \A k \in 1 .. n + 1 : Arranged(R, h)[k] = IF k = n + 1 THEN h[i] ELSE Arranged(S, g)[k]
  BY <1>1, <1>3, <1>4
<1> QED BY <1>5, <1>6, <1>7

\* Only what the greatest element gives has changed.
LEMMA ArrangedLast ==
  ASSUME NEW S \in SUBSET Nat, IsFiniteSet(S), NEW v \in S, \A j \in S : j <= v,
         NEW T, NEW g, Gives(S, T, g), NEW h, Gives(S, T, h), \A j \in S \ {v} : h[j] = g[j]
  PROVE  /\ Cardinality(S) \in Nat \ {0} /\ Arranged(S, g)[Cardinality(S)] = g[v]
         /\ Arranged(S, h) = [Arranged(S, g) EXCEPT ![Cardinality(S)] = h[v]]
<1> DEFINE n == Cardinality(S)
<1>1. {j \in S : j <= v} = S
  OBVIOUS
<1>2. RankIn(S, v) = n
  BY <1>1 DEF RankIn
<1>3. n \in Nat \ {0} /\ InOrder(S)[n] = v
  BY <1>2, InOrderIs
<1>4. ASSUME NEW k \in 1 .. n, k # n PROVE InOrder(S)[k] \in S \ {v}
  <2>1. PICK j \in S : RankIn(S, j) = k
    BY Ranks
  <2>2. InOrder(S)[k] = j
    BY <2>1, InOrderIs
  <2> QED BY <1>2, <1>4, <2>1, <2>2
<1>5. Arranged(S, g)[n] = g[v] /\ Arranged(S, h)[n] = h[v]
  BY <1>3 DEF Arranged
<1>6. \A k \in 1 .. n : k # n => Arranged(S, h)[k] = Arranged(S, g)[k]
  BY <1>4 DEF Arranged
<1>7. DOMAIN Arranged(S, g) = 1 .. n /\ DOMAIN Arranged(S, h) = 1 .. n
      /\ Arranged(S, h) = [k \in 1 .. n |-> Arranged(S, h)[k]]
  BY DEF Arranged
<1> HIDE DEF n
<1>8. [Arranged(S, g) EXCEPT ![n] = h[v]] = [k \in 1 .. n |-> IF k = n THEN h[v] ELSE Arranged(S, g)[k]]
  BY <1>7
<1>9. \A k \in 1 .. n : Arranged(S, h)[k] = IF k = n THEN h[v] ELSE Arranged(S, g)[k]
  BY <1>5, <1>6
<1> QED BY <1>3, <1>5, <1>7, <1>8, <1>9 DEF n

-----------------------------------------------------------------------------
(* Imports. *)

TextVerses == UNION {Kept[a] : a \in Archives}
VerseRow   == [code : Codes, verse : TextVerses]

\* The job of a process that runs nothing, is in its transaction, has shown verses or failed.
InTxJob == [phase : InTx, code : Codes, lang : Langs, archive : Archives, kept : SUBSET TextVerses,
            row : Translation \cup {NoRow}, deleted : SUBSET VerseRow]
ShownJob == [phase : {"shown"}, archive : Archives, kept : SUBSET TextVerses]
Refusal  == [phase |-> "failed"]
JobOK(j) == job[j] \in {Idle, Refusal} \cup InTxJob \cup ShownJob

ShelfOK == \E s \in Shelves : shelf = s.commands
TablesOK ==
  /\ verses \subseteq VerseRow
  /\ trans \in [Codes -> Translation \cup {NoRow}]
JobsOK ==
  /\ job = [j \in Jobs |-> job[j]]
  /\ \A j \in Jobs : JobOK(j)

\* What a transaction has locked and seen is still so when it commits: nobody
\* else writes the translation, its row or its verses meanwhile.
Holds(j) == job[j].phase \in {"delete", "copy", "commit"}
AloneOK == \A j, k \in Jobs : Holds(j) /\ Holds(k) /\ job[j].code = job[k].code => j = k
TxOK(j) ==
  /\ job[j].phase \in InTx \cup {"shown"} =>
       Passes(job[j].archive) /\ job[j].kept = Kept[job[j].archive]
  /\ Holds(j) => job[j].row = Upserted(j)
  /\ job[j].phase \in {"copy", "commit"} => job[j].deleted = {r \in verses : r.code = job[j].code}

IngestInv == ShelfOK /\ TablesOK /\ JobsOK /\ AloneOK /\ \A j \in Jobs : TxOK(j)

LEMMA CommandTypes ==
  ASSUME ShelfOK, NEW k \in shelf
  PROVE  k.code \in Codes /\ k.lang \in Langs /\ k.archive \in Archives
<1>1. PICK s \in Shelves : shelf = s.commands
  BY DEF ShelfOK
<1>2. k.code \in Codes /\ k.lang \in Langs
  BY <1>1, IngestAssumption DEF IngestAssumption
<1>3. k \in UNION {t.commands : t \in Shelves}
  BY <1>1
<1> QED BY <1>2, <1>3 DEF Archives

LEMMA IngestInitInv == IngestInit => IngestInv
<1> SUFFICES ASSUME IngestInit PROVE IngestInv
  OBVIOUS
<1>1. ShelfOK /\ TablesOK /\ JobsOK
  BY DEF IngestInit, ShelfOK, TablesOK, JobsOK, JobOK
<1>2. \A j \in Jobs : job[j].phase = "idle"
  BY DEF IngestInit, Idle
<1> QED BY <1>1, <1>2 DEF IngestInv, AloneOK, TxOK, Holds, Running, InTx

\* A step of one process that leaves the tables alone disturbs no other.
LEMMA JobStep ==
  ASSUME IngestInv, NEW j \in Jobs, UNCHANGED <<shelf, verses, trans>>,
         NEW b, job' = [job EXCEPT ![j] = b],
         JobOK(j)', TxOK(j)',
         Holds(j)' => \A k \in Jobs \ {j} : Holds(k) => job[k].code # b.code
  PROVE  IngestInv'
<1>1. job' = [k \in Jobs |-> job'[k]] /\ job'[j] = b /\ \A k \in Jobs \ {j} : job'[k] = job[k]
  BY DEF IngestInv, JobsOK
<1>2. ASSUME NEW k \in Jobs \ {j} PROVE JobOK(k)' /\ TxOK(k)' /\ (Holds(k)' <=> Holds(k))
  <2>1. JobOK(k) /\ TxOK(k) /\ job'[k] = job[k]
    BY <1>1 DEF IngestInv, JobsOK
  <2> QED BY <2>1 DEF JobOK, TxOK, Holds, Running, Upserted, SourceOf
<1>3. ShelfOK' /\ TablesOK'
  BY DEF IngestInv, ShelfOK, TablesOK
<1>4. JobsOK'
  BY <1>1, <1>2 DEF JobsOK
<1>5. AloneOK'
  BY <1>1, <1>2 DEF AloneOK, Holds, IngestInv
<1> QED BY <1>2, <1>3, <1>4, <1>5 DEF IngestInv

LEMMA PrepareStep == ASSUME IngestInv, NEW j \in Jobs, Prepare(j) PROVE IngestInv'
<1>1. PICK k \in shelf :
        job' = [job EXCEPT ![j] =
            IF Passes(k.archive) /\ ~k.dryRun
            THEN [phase |-> "source", code |-> k.code, lang |-> k.lang, archive |-> k.archive,
                  kept |-> Kept[k.archive], row |-> NoRow, deleted |-> {}]
            ELSE IF Passes(k.archive) THEN [phase |-> "shown", archive |-> k.archive, kept |-> Kept[k.archive]]
            ELSE [phase |-> "failed"]]
  BY DEF Prepare
<1>2. k.code \in Codes /\ k.lang \in Langs /\ k.archive \in Archives
  BY CommandTypes DEF IngestInv
<1>3. Kept[k.archive] \in SUBSET TextVerses
  BY <1>2 DEF TextVerses
<1> DEFINE begun == [phase |-> "source", code |-> k.code, lang |-> k.lang, archive |-> k.archive,
                     kept |-> Kept[k.archive], row |-> NoRow, deleted |-> {}]
           shown == [phase |-> "shown", archive |-> k.archive, kept |-> Kept[k.archive]]
<1>4. UNCHANGED <<shelf, verses, trans>>
  BY DEF Prepare
<1>5. j \in DOMAIN job
  BY DEF IngestInv, JobsOK
<1>6. CASE Passes(k.archive) /\ job' = [job EXCEPT ![j] = begun]
  <2>1. job'[j] = begun
    BY <1>5, <1>6
  <2>2. begun \in InTxJob /\ begun.phase = "source" /\ begun.kept = Kept[begun.archive] /\ begun.archive = k.archive
    BY <1>2, <1>3 DEF InTxJob, InTx
  <2> HIDE DEF begun
  <2>3. Passes(begun.archive)
    BY <1>6, <2>2
  <2>4. JobOK(j)'
    BY <2>1, <2>2 DEF JobOK
  <2>5. ~Holds(j)' /\ TxOK(j)'
    BY <2>1, <2>2, <2>3 DEF TxOK, Holds
  <2> QED BY <1>4, <1>6, <2>4, <2>5, JobStep
<1>7. CASE Passes(k.archive) /\ job' = [job EXCEPT ![j] = shown]
  <2>1. job'[j] = shown
    BY <1>5, <1>7
  <2>2. shown \in ShownJob /\ shown.phase = "shown" /\ shown.kept = Kept[shown.archive] /\ shown.archive = k.archive
    BY <1>2, <1>3 DEF ShownJob
  <2> HIDE DEF shown
  <2>3. Passes(shown.archive)
    BY <1>7, <2>2
  <2>4. JobOK(j)'
    BY <2>1, <2>2 DEF JobOK
  <2>5. ~Holds(j)' /\ TxOK(j)'
    BY <2>1, <2>2, <2>3 DEF TxOK, Holds
  <2> QED BY <1>4, <1>7, <2>4, <2>5, JobStep
<1>8. CASE job' = [job EXCEPT ![j] = Refusal]
  <2>1. job'[j] = Refusal /\ Refusal.phase = "failed"
    BY <1>5, <1>8 DEF Refusal
  <2>2. JobOK(j)'
    BY <2>1 DEF JobOK
  <2>3. ~Holds(j)' /\ TxOK(j)'
    BY <2>1 DEF TxOK, Holds, InTx
  <2> QED BY <1>4, <1>8, <2>2, <2>3, JobStep
<1> QED BY <1>1, <1>6, <1>7, <1>8 DEF Refusal

\* A process in its transaction has a job with all its fields.
LEMMA RunningJob ==
  ASSUME IngestInv, NEW j \in Jobs, Running(j)
  PROVE  job[j] \in InTxJob /\ j \in DOMAIN job
BY DEF IngestInv, JobsOK, JobOK, Running, InTx, Idle, ShownJob, Refusal

LEMMA UpsertSourceStep == ASSUME IngestInv, NEW j \in Jobs, UpsertSource(j) PROVE IngestInv'
<1>1. job[j] \in InTxJob /\ j \in DOMAIN job /\ Passes(job[j].archive) /\ job[j].kept = Kept[job[j].archive]
  BY RunningJob DEF UpsertSource, Running, InTx, IngestInv, TxOK
<1> DEFINE b == [job[j] EXCEPT !.phase = "translation"]
<1>2. job' = [job EXCEPT ![j] = b] /\ UNCHANGED <<shelf, verses, trans>>
  BY DEF UpsertSource
<1>3. job'[j] = b
  BY <1>1, <1>2
<1>4. b \in InTxJob /\ b.phase = "translation" /\ b.kept = job[j].kept /\ b.archive = job[j].archive
  BY <1>1 DEF InTxJob, InTx
<1> HIDE DEF b
<1>5. JobOK(j)' /\ TxOK(j)' /\ ~Holds(j)'
  BY <1>1, <1>3, <1>4 DEF JobOK, TxOK, Holds
<1> QED BY <1>2, <1>5, JobStep

LEMMA UpsertedType == ASSUME TablesOK, NEW j \in Jobs, job[j] \in InTxJob PROVE Upserted(j) \in Translation
<1>1. job[j].code \in Codes /\ job[j].lang \in Langs /\ job[j].archive \in Archives
  BY DEF InTxJob
<1>2. trans[job[j].code] \in Translation \cup {NoRow}
  BY <1>1 DEF TablesOK
<1>3. SourceOf(j) \in Source
  BY <1>1 DEF SourceOf, Source
<1> QED BY <1>1, <1>2, <1>3 DEF Upserted, Translation

LEMMA UpsertTranslationStep == ASSUME IngestInv, NEW j \in Jobs, UpsertTranslation(j) PROVE IngestInv'
<1>1. job[j] \in InTxJob /\ j \in DOMAIN job /\ Passes(job[j].archive) /\ job[j].kept = Kept[job[j].archive]
  BY RunningJob DEF UpsertTranslation, Running, InTx, IngestInv, TxOK
<1> DEFINE b == [job[j] EXCEPT !.phase = "delete", !.row = Upserted(j)]
<1>2. job' = [job EXCEPT ![j] = b] /\ UNCHANGED <<shelf, verses, trans>>
  BY DEF UpsertTranslation
<1>3. job'[j] = b
  BY <1>1, <1>2
<1>4. Upserted(j) \in Translation
  BY <1>1, UpsertedType DEF IngestInv
<1>5. /\ b \in InTxJob /\ b.phase = "delete" /\ b.row = Upserted(j) /\ b.kept = job[j].kept
      /\ b.archive = job[j].archive /\ b.code = job[j].code /\ b.lang = job[j].lang
  BY <1>1, <1>4 DEF InTxJob, InTx
<1> HIDE DEF b
<1>6. Upserted(j)' = Upserted(j)
  BY <1>2, <1>3, <1>5 DEF Upserted, SourceOf
<1>7. JobOK(j)' /\ TxOK(j)'
  BY <1>1, <1>3, <1>5, <1>6 DEF JobOK, TxOK
<1>8. \A k \in Jobs \ {j} : Holds(k) => job[k].code # b.code
  BY <1>5 DEF UpsertTranslation, TranslationFree, Others, Running, HoldsTranslation, Holds, InTx
<1> QED BY <1>2, <1>7, <1>8, JobStep

LEMMA DeleteStep == ASSUME IngestInv, NEW j \in Jobs, DeleteVerses(j) PROVE IngestInv'
<1>1. job[j] \in InTxJob /\ j \in DOMAIN job /\ TxOK(j) /\ Holds(j)
  BY RunningJob DEF DeleteVerses, Running, InTx, IngestInv, Holds
<1> DEFINE b == [job[j] EXCEPT !.phase = "copy", !.deleted = {r \in verses : r.code = job[j].code}]
<1>2. job' = [job EXCEPT ![j] = b] /\ UNCHANGED <<shelf, verses, trans>>
  BY DEF DeleteVerses
<1>3. job'[j] = b
  BY <1>1, <1>2
<1>4. {r \in verses : r.code = job[j].code} \subseteq VerseRow
  BY DEF IngestInv, TablesOK
<1>5. /\ b \in InTxJob /\ b.phase = "copy" /\ b.row = job[j].row /\ b.kept = job[j].kept
      /\ b.archive = job[j].archive /\ b.code = job[j].code /\ b.lang = job[j].lang
      /\ b.deleted = {r \in verses : r.code = job[j].code}
  BY <1>1, <1>4 DEF InTxJob, InTx
<1> HIDE DEF b
<1>6. Upserted(j)' = Upserted(j)
  BY <1>2, <1>3, <1>5 DEF Upserted, SourceOf
<1>7. JobOK(j)' /\ TxOK(j)'
  BY <1>1, <1>2, <1>3, <1>5, <1>6 DEF JobOK, TxOK, Running, Holds, InTx
<1>8. \A k \in Jobs \ {j} : Holds(k) => job[k].code # b.code
  BY <1>1, <1>5 DEF IngestInv, AloneOK
<1> QED BY <1>2, <1>7, <1>8, JobStep

\* A process that ends, or goes back to the beginning, lets everything go.
LEMMA IdleStep ==
  ASSUME IngestInv, NEW j \in Jobs, UNCHANGED <<shelf, verses, trans>>, job' = [job EXCEPT ![j] = Idle]
  PROVE  IngestInv'
<1>1. job'[j] = Idle
  BY DEF IngestInv, JobsOK
<1>2. JobOK(j)' /\ TxOK(j)' /\ ~Holds(j)'
  BY <1>1 DEF JobOK, TxOK, Holds, Running, InTx, Idle
<1> QED BY <1>2, JobStep

LEMMA CopyStep == ASSUME IngestInv, NEW j \in Jobs, CopyVerses(j) PROVE IngestInv'
<1>1. job[j] \in InTxJob /\ j \in DOMAIN job /\ TxOK(j) /\ Holds(j)
  BY RunningJob DEF CopyVerses, Running, InTx, IngestInv, Holds
<1>2. UNCHANGED <<shelf, verses, trans>>
  BY DEF CopyVerses
<1>3. CASE Collides(j)
  <2>1. job' = [job EXCEPT ![j] = Idle]
    BY <1>3 DEF CopyVerses
  <2> QED BY <1>2, <2>1, IdleStep
<1>4. CASE ~Collides(j)
  <2> DEFINE b == [job[j] EXCEPT !.phase = "commit"]
  <2>1. job' = [job EXCEPT ![j] = b]
    BY <1>4 DEF CopyVerses
  <2>2. job'[j] = b
    BY <1>1, <2>1
  <2>3. /\ b \in InTxJob /\ b.phase = "commit" /\ b.row = job[j].row /\ b.kept = job[j].kept
        /\ b.archive = job[j].archive /\ b.code = job[j].code /\ b.lang = job[j].lang
        /\ b.deleted = job[j].deleted
    BY <1>1 DEF InTxJob, InTx
  <2> HIDE DEF b
  <2>4. Upserted(j)' = Upserted(j)
    BY <1>2, <2>2, <2>3 DEF Upserted, SourceOf
  <2>5. JobOK(j)' /\ TxOK(j)'
    BY <1>1, <1>2, <2>2, <2>3, <2>4 DEF JobOK, TxOK, Running, Holds, InTx, CopyVerses
  <2>6. \A k \in Jobs \ {j} : Holds(k) => job[k].code # b.code
    BY <1>1, <2>3 DEF IngestInv, AloneOK
  <2> QED BY <1>2, <2>1, <2>5, <2>6, JobStep
<1> QED BY <1>3, <1>4

\* What a commit does: the text of one translation becomes that of the archive,
\* its row counts up and names the archive, and nothing else changes.
LEMMA CommitEffect ==
  ASSUME IngestInv, NEW j \in Jobs, Commit(j)
  PROVE  /\ job[j] \in InTxJob /\ j \in DOMAIN job
         /\ trans' = [trans EXCEPT ![job[j].code] = Upserted(j)]
         /\ Upserted(j) \in Translation
         /\ TextAt(job[j].code, verses') = Kept[job[j].archive]
         /\ \A c \in Codes \ {job[j].code} : TextAt(c, verses') = TextAt(c, verses)
         /\ \A c \in Codes \ {job[j].code} : {r \in verses' : r.code = c} = {r \in verses : r.code = c}
         /\ verses' \subseteq VerseRow
<1>1. job[j] \in InTxJob /\ j \in DOMAIN job /\ TxOK(j) /\ Holds(j)
  BY RunningJob DEF Commit, Running, InTx, IngestInv, Holds
<1> DEFINE c0 == job[j].code
           kept == Kept[job[j].archive]
<1>2. Upserted(j) \in Translation
  BY <1>1, UpsertedType DEF IngestInv
<1>3. trans' = [trans EXCEPT ![c0] = Upserted(j)]
  BY <1>1 DEF Commit, TxOK
<1>4. verses' = (verses \ {r \in verses : r.code = c0}) \cup {[code |-> c0, verse |-> v] : v \in kept}
  BY <1>1 DEF Commit, TxOK, Holds, Running, InTx, RowsOf
<1>5. kept \in SUBSET TextVerses /\ c0 \in Codes /\ verses \subseteq VerseRow
  BY <1>1 DEF InTxJob, TxOK, Running, InTx, Holds, IngestInv, TablesOK
<1>6. verses' \subseteq VerseRow
  BY <1>4, <1>5 DEF VerseRow
<1>7. TextAt(c0, verses') = kept
  <2>1. {s \in verses' : s.code = c0} = {[code |-> c0, verse |-> v] : v \in kept}
    BY <1>4
  <2> HIDE DEF kept, c0
  <2>2. ASSUME NEW v \in kept PROVE \E r \in {[code |-> c0, verse |-> w] : w \in kept} : r.verse = v
    <3>1. [code |-> c0, verse |-> v] \in {[code |-> c0, verse |-> w] : w \in kept}
      OBVIOUS
    <3>2. [code |-> c0, verse |-> v].verse = v
      OBVIOUS
    <3> QED BY <3>1, <3>2
  <2>3. ASSUME NEW r \in {[code |-> c0, verse |-> w] : w \in kept} PROVE r.verse \in kept
    <3>1. PICK w \in kept : r = [code |-> c0, verse |-> w]
      OBVIOUS
    <3> QED BY <3>1
  <2> QED BY <2>1, <2>2, <2>3 DEF TextAt
<1>8. ASSUME NEW c \in Codes \ {c0} PROVE {r \in verses' : r.code = c} = {r \in verses : r.code = c}
  BY <1>4
<1>9. ASSUME NEW c \in Codes \ {c0} PROVE TextAt(c, verses') = TextAt(c, verses)
  BY <1>8 DEF TextAt
<1> QED BY <1>1, <1>2, <1>3, <1>6, <1>7, <1>8, <1>9

LEMMA CommitStep == ASSUME IngestInv, NEW j \in Jobs, Commit(j) PROVE IngestInv'
<1> DEFINE c0 == job[j].code
<1>1. /\ job[j] \in InTxJob /\ j \in DOMAIN job /\ c0 \in Codes
      /\ trans' = [trans EXCEPT ![c0] = Upserted(j)] /\ Upserted(j) \in Translation
      /\ \A c \in Codes \ {c0} : {r \in verses' : r.code = c} = {r \in verses : r.code = c}
      /\ verses' \subseteq VerseRow
  BY CommitEffect DEF InTxJob
<1>2. job' = [job EXCEPT ![j] = Idle] /\ shelf' = shelf /\ Holds(j)
  BY DEF Commit, Holds
<1>3. /\ job' = [k \in Jobs |-> job'[k]] /\ job'[j] = Idle
      /\ \A k \in Jobs \ {j} : job'[k] = job[k]
  BY <1>1, <1>2 DEF IngestInv, JobsOK
<1>4. ASSUME NEW k \in Jobs \ {j} PROVE JobOK(k)' /\ TxOK(k)' /\ (Holds(k)' <=> Holds(k))
  <2>1. JobOK(k) /\ TxOK(k) /\ job'[k] = job[k]
    BY <1>3 DEF IngestInv, JobsOK
  <2>2. JobOK(k)' /\ (Holds(k)' <=> Holds(k)) /\ (Running(k)' <=> Running(k))
    BY <2>1 DEF JobOK, Holds, Running
  <2>3. Holds(k) => job[k].code \in Codes \ {c0}
    BY <1>1, <1>2, <2>1, RunningJob DEF IngestInv, AloneOK, Holds, Running, InTx, InTxJob
  <2>4. Holds(k) => Upserted(k)' = Upserted(k)
    BY <1>1, <2>1, <2>3 DEF Upserted, SourceOf, IngestInv, TablesOK
  <2>5. Holds(k) => {r \in verses' : r.code = job[k].code} = {r \in verses : r.code = job[k].code}
    BY <1>1, <2>3
  <2>6. TxOK(k)'
    BY <2>1, <2>2, <2>4, <2>5 DEF TxOK, Holds
  <2> QED BY <2>2, <2>6
<1>5. JobOK(j)' /\ TxOK(j)' /\ ~Holds(j)'
  BY <1>3 DEF JobOK, TxOK, Holds, Running, InTx, Idle
<1>6. ShelfOK' /\ JobsOK'
  BY <1>2, <1>3, <1>4, <1>5 DEF ShelfOK, JobsOK, IngestInv
<1>7. TablesOK'
  BY <1>1 DEF TablesOK, IngestInv
<1>8. AloneOK'
  BY <1>3, <1>4, <1>5 DEF AloneOK, IngestInv
<1> QED BY <1>4, <1>5, <1>6, <1>7, <1>8 DEF IngestInv

LEMMA ImportStep == ASSUME IngestInv, NEW j \in Jobs, Import(j) PROVE IngestInv'
<1>1. CASE Exit(j)
  BY <1>1, IdleStep DEF Exit
<1> QED
  BY <1>1, PrepareStep, UpsertSourceStep, UpsertTranslationStep, DeleteStep, CopyStep, CommitStep DEF Import

LEMMA IngestKept == ASSUME IngestInv, UNCHANGED ingestVars PROVE IngestInv'
<1>1. \A j \in Jobs : TxOK(j)' <=> TxOK(j)
  BY DEF ingestVars, TxOK, Running, Holds, Upserted, SourceOf
<1>2. ShelfOK' /\ TablesOK' /\ JobsOK' /\ AloneOK'
  BY DEF IngestInv, ingestVars, ShelfOK, TablesOK, JobsOK, JobOK, AloneOK, Holds
<1> QED BY <1>1, <1>2 DEF IngestInv

LEMMA IngestStep == IngestInv /\ [Next]_vars => IngestInv'
BY ImportStep, IngestKept DEF Next, IngestNext, vars, bibleVars

-----------------------------------------------------------------------------
(* The imports implement the store in which a text is replaced at once.     *)

LEMMA TextStoreInit == IngestInit => Texts!Init
<1> SUFFICES ASSUME IngestInit PROVE Texts!Init
  OBVIOUS
<1>1. \A c \in Codes : TextAt(c, verses) = {} /\ trans[c] = NoRow
  BY DEF IngestInit, TextAt
<1> QED BY <1>1 DEF Texts!Init

LEMMA CommitReplaces == ASSUME IngestInv, NEW j \in Jobs, Commit(j) PROVE Texts!Next
<1>0. PICK c0 \in Codes : c0 = job[j].code
  BY CommitEffect DEF InTxJob
<1> DEFINE a0 == job[j].archive
           text    == [c \in Codes |-> TextAt(c, verses)]
           version == [c \in Codes |-> IF trans[c] = NoRow THEN 0 ELSE trans[c].version]
           source  == [c \in Codes |-> IF trans[c] = NoRow THEN NoRow ELSE trans[c].source.sha256]
<1>1. /\ c0 \in Codes /\ a0 \in Archives
      /\ trans' = [trans EXCEPT ![c0] = Upserted(j)]
      /\ Upserted(j) \in Translation
      /\ TextAt(c0, verses') = Kept[a0]
      /\ \A c \in Codes \ {c0} : TextAt(c, verses') = TextAt(c, verses)
  BY <1>0, CommitEffect DEF InTxJob
<1>2. trans \in [Codes -> Translation \cup {NoRow}]
  BY DEF IngestInv, TablesOK
<1>3. NoRow \notin Translation
  BY IngestAssumption DEF IngestAssumption, Translation, Source
<1>4. /\ Upserted(j) # NoRow
      /\ Upserted(j).source.sha256 = a0
      /\ Upserted(j).version = version[c0] + 1
  BY <1>0, <1>1, <1>3 DEF Upserted, SourceOf
<1>5. source' = [source EXCEPT ![c0] = a0]
  BY <1>1, <1>2, <1>4
<1>6. version' = [version EXCEPT ![c0] = version[c0] + 1]
  BY <1>1, <1>2, <1>4
<1>7. text' = [text EXCEPT ![c0] = Kept[a0]]
  BY <1>1
<1>8. source'[c0] = a0
  BY <1>1, <1>5
<1>9. Texts!Replace(c0)
  BY <1>1, <1>5, <1>6, <1>7, <1>8 DEF Texts!Replace
<1>10. \E c \in Codes : Texts!Replace(c)
  BY <1>1, <1>9
<1> QED BY <1>10 DEF Texts!Next

LEMMA TextStoreStep == IngestInv /\ [Next]_vars => [Texts!Next]_(Texts!vars)
<1> SUFFICES ASSUME IngestInv, [Next]_vars PROVE [Texts!Next]_(Texts!vars)
  OBVIOUS
<1>1. CASE UNCHANGED <<verses, trans>>
  BY <1>1 DEF Texts!vars, TextAt
<1>2. ASSUME NEW j \in Jobs, Import(j) PROVE Commit(j) \/ UNCHANGED <<verses, trans>>
  BY <1>2 DEF Import, Prepare, UpsertSource, UpsertTranslation, DeleteVerses, CopyVerses, Exit
<1> QED
  BY <1>1, <1>2, CommitReplaces DEF Next, IngestNext, vars, bibleVars, ingestVars

(* However imports overlap, wait, fail and are killed, the text of a          *)
(* translation changes only as a whole, in one step that counts its version   *)
(* up and names the archive the text came from (main.go:134-179).             *)
THEOREM ImportsReplaceTexts == Spec => ImplementsTextStore
<1>1. Init => IngestInv /\ Texts!Init
  BY IngestInitInv, TextStoreInit DEF Init
<1>2. IngestInv /\ [Next]_vars => IngestInv' /\ [Texts!Next]_(Texts!vars)
  BY IngestStep, TextStoreStep
<1> QED BY <1>1, <1>2, PTL DEF Spec, ImplementsTextStore, Texts!Spec

-----------------------------------------------------------------------------
(* What the parser makes of a file. *)

Names == STRING \cup {NoBook}
VerseRec == [book : Names, chapter : Nat \ {0}, verse : Nat, text : Words]
ParserState ==
  {p \in [book : Names, chapter : Nat, out : Seq(VerseRec), cur : BOOLEAN,
          first : BOOLEAN, skip : BOOLEAN, failed : BOOLEAN] : p.cur => p.out # <<>>}

LEMMA StartType == Start \in ParserState
<1>1. <<>> \in Seq(VerseRec)
  OBVIOUS
<1>2. Start \in [book : Names, chapter : Nat, out : Seq(VerseRec), cur : BOOLEAN,
                  first : BOOLEAN, skip : BOOLEAN, failed : BOOLEAN]
  BY <1>1 DEF Start, Names
<1>3. Start.cur = FALSE
  BY DEF Start
<1> QED BY <1>2, <1>3 DEF ParserState

LEMMA WriteType ==
  ASSUME NEW p \in ParserState, NEW s \in STRING
  PROVE  Write(p, s) \in ParserState
<1>1. CASE ~p.cur
  BY <1>1 DEF Write
<1>2. CASE p.cur
  <2> DEFINE n == Len(p.out)
             text == Append(p.out[n].text, s)
             out == [p.out EXCEPT ![n] = [p.out[n] EXCEPT !.text = text]]
  <2>1. p.out \in Seq(VerseRec) /\ n \in Nat \ {0} /\ p.out[n] \in VerseRec
    BY <1>2 DEF ParserState
  <2>2. text \in Words
    BY <2>1 DEF VerseRec, Words
  <2>3. [p.out[n] EXCEPT !.text = text] \in VerseRec
    BY <2>1, <2>2 DEF VerseRec
  <2>4. out \in Seq(VerseRec) /\ out # <<>>
    BY <2>1, <2>3
  <2>5. Write(p, s) = [p EXCEPT !.out = out]
    BY <1>2, <2>1 DEF Write, ParserState, VerseRec
  <2> HIDE DEF out
  <2> QED BY <2>4, <2>5 DEF ParserState
<1> QED BY <1>1, <1>2

LEMMA ReadVerseType ==
  ASSUME NEW p \in ParserState, NEW k \in Token
  PROVE  ReadVerse(p, k) \in ParserState
<1>1. CASE p.book = NoBook \/ p.chapter = 0 \/ k.n = BadNumber
  BY <1>1 DEF ReadVerse, Failed, ParserState
<1>2. CASE ~(p.book = NoBook \/ p.chapter = 0 \/ k.n = BadNumber)
  <2> DEFINE v == [book |-> p.book, chapter |-> p.chapter, verse |-> k.n, text |-> <<>>]
             out == Append(p.out, v)
  <2>1. <<>> \in Words
    BY DEF Words
  <2>2. v \in VerseRec
    BY <1>2, <2>1 DEF VerseRec, ParserState, Token
  <2>3. p.out \in Seq(VerseRec)
    BY DEF ParserState
  <2>4. out \in Seq(VerseRec) /\ out # <<>>
    BY <2>2, <2>3
  <2>5. ReadVerse(p, k) = [p EXCEPT !.cur = TRUE, !.out = out]
    BY <1>2 DEF ReadVerse
  <2> HIDE DEF out
  <2> QED BY <2>4, <2>5 DEF ParserState
<1> QED BY <1>1, <1>2

LEMMA ReadType ==
  ASSUME NEW p \in ParserState, NEW k \in Token
  PROVE  Read(p, k) \in ParserState
<1> DEFINE q == CASE k.t = "id"   -> ReadId(p, k)
                  [] k.t = "head" -> ReadHeading(p)
                  [] k.t = "c"    -> ReadChapter(p, k)
                  [] k.t = "v"    -> ReadVerse(p, k)
                  [] k.t = "w"    -> Write(p, k.s)
                  [] OTHER        -> p
<1>1. k.s \in STRING
  BY DEF Token
<1>2. ReadId(p, k) \in ParserState
  BY <1>1, WriteType DEF ReadId, Failed, ParserState, Names
<1>3. ReadHeading(p) \in ParserState
  BY DEF ReadHeading, ParserState
<1>4. ReadChapter(p, k) \in ParserState
  BY DEF ReadChapter, Failed, ParserState, Token
<1>5. q \in ParserState
  BY <1>1, <1>2, <1>3, <1>4, ReadVerseType, WriteType
<1> HIDE DEF q
<1>6. [p EXCEPT !.first = TRUE, !.skip = FALSE] \in ParserState /\ [q EXCEPT !.first = FALSE] \in ParserState
  BY <1>5 DEF ParserState
<1>7. Read(p, k) \in {p, [p EXCEPT !.first = TRUE, !.skip = FALSE], [q EXCEPT !.first = FALSE]}
  BY DEF Read, q
<1> QED BY <1>6, <1>7

\* Parse as the states of a run.
Runs(src) ==
  {a \in [0 .. Len(src) -> ParserState] :
     /\ a[0] = Start
     /\ \A i \in 1 .. Len(src) : a[i] = IF Stays(src, i) THEN Read(a[i - 1], src[i]) ELSE a[i - 1]}

LEMMA ParseRuns ==
  ASSUME NEW src \in Seq(Token)
  PROVE  \E a \in Runs(src) : Parse(src) = a[Len(src)]
<1> DEFINE n == Len(src)
           F(f) == [i \in 0 .. n |-> IF i = 0 THEN Start
                                     ELSE IF Stays(src, i) THEN Read(f[i - 1], src[i]) ELSE f[i - 1]]
           step == [i \in 1 .. n |-> [p \in ParserState |-> IF Stays(src, i) THEN Read(p, src[i]) ELSE p]]
           after == CHOOSE f : f = F(f)
<1>1. n \in Nat
  OBVIOUS
<1>2. step \in Steps(n, ParserState)
  BY ReadType DEF Steps
<1>3. PICK f \in [0 .. n -> ParserState] : f[0] = Start /\ \A i \in 1 .. n : f[i] = step[i][f[i - 1]]
  <2> HIDE DEF step, n, F, after
  <2>1. Folds(n, ParserState, Start, step) # {}
    BY <1>1, <1>2, StartType, FoldExists
  <2> QED BY <2>1 DEF Folds
<1>4. f = F(f)
  <2>1. ASSUME NEW i \in 1 .. n PROVE f[i] = IF Stays(src, i) THEN Read(f[i - 1], src[i]) ELSE f[i - 1]
    <3>1. f[i - 1] \in ParserState
      BY <1>3
    <3> QED BY <1>3, <3>1
  <2> QED BY <1>3, <2>1
<1>5. after = F(after)
  BY <1>4
<1> HIDE DEF after
<1>6. \A i \in 0 .. n : after[i] \in ParserState
  <2> DEFINE P == {i \in 0 .. n : after[i] \in ParserState}
  <2>1. 0 \in P
    BY <1>1, <1>5, StartType
  <2>2. ASSUME NEW i \in 1 .. n, i - 1 \in P PROVE i \in P
    <3>1. after[i] = IF Stays(src, i) THEN Read(after[i - 1], src[i]) ELSE after[i - 1]
      BY <1>5
    <3>2. src[i] \in Token /\ after[i - 1] \in ParserState
      BY <2>2
    <3> QED BY <3>1, <3>2, ReadType
  <2> HIDE DEF P
  <2>3. \A i \in 0 .. n : i \in P
    BY <1>1, <2>1, <2>2, UpTo
  <2> QED BY <2>3 DEF P
<1>7. Parse(src) = after[n]
  BY DEF Parse, after
<1>8. after[0] = Start /\ \A i \in 1 .. n : after[i] = IF Stays(src, i) THEN Read(after[i - 1], src[i]) ELSE after[i - 1]
  BY <1>1, <1>5
<1>9. after \in [0 .. n -> ParserState]
  <2>1. DOMAIN after = 0 .. n /\ after = [i \in 0 .. n |-> after[i]]
    BY <1>5
  <2> QED BY <1>6, <2>1
<1>10. after \in Runs(src)
  BY <1>8, <1>9 DEF Runs
<1> QED BY <1>7, <1>10

\* Whatever the file, Parse returns verses: each with a book, the number of a
\* chapter and of a verse, and words.
LEMMA ParseType ==
  ASSUME NEW src \in Seq(Token)
  PROVE  Parse(src) \in ParserState
<1>1. PICK a \in Runs(src) : Parse(src) = a[Len(src)]
  BY ParseRuns
<1>2. Len(src) \in 0 .. Len(src)
  OBVIOUS
<1> QED BY <1>1, <1>2 DEF Runs

-----------------------------------------------------------------------------
(* Parse returns what Reference says. *)

\* The places that noteRe and closeRe leave, the lines and what is read of them.
Live(src)      == {i \in 1 .. Len(src) : Stays(src, i)}
UpToBreak(src, i) == {j \in Live(src) : j <= i /\ \A m \in Live(src) : j <= m /\ m < i => src[m].t # "nl"}
LineStart(src, i) == Min(UpToBreak(src, i))
ReadAt(src)    == {i \in Live(src) : src[LineStart(src, i)].t \notin {"id", "head"}}
Kinds(src, T)  == {i \in ReadAt(src) : src[i].t \in T}
BookMarks(src) == {i \in Live(src) : src[i].t = "id" /\ LineStart(src, i) = i}

\* The line that is open once place i was read.
LineAt(src, i) == {j \in Live(src) : j <= i /\ \A m \in Live(src) : j <= m /\ m <= i => src[m].t # "nl"}

LEMMA LiveStays ==
  ASSUME NEW src \in Seq(Token), NEW i \in 1 .. Len(src)
  PROVE  i \in Live(src) <=> Stays(src, i)
BY DEF Live

\* A place that is read extends the line, begins one, or ends it.
LEMMA LineGrows ==
  ASSUME NEW src \in Seq(Token), NEW i \in Live(src)
  PROVE  /\ i \in Nat \ {0}
         /\ src[i].t = "nl" => LineAt(src, i) = {}
         /\ src[i].t # "nl" => LineAt(src, i) = LineAt(src, i - 1) \cup {i}
         /\ \A j \in LineAt(src, i - 1) : j \in Nat /\ j < i
         /\ LineStart(src, i) = IF LineAt(src, i - 1) = {} THEN i ELSE Min(LineAt(src, i - 1))
         /\ LineStart(src, i) = i <=> LineAt(src, i - 1) = {}
         /\ src[i].t # "nl" => Min(LineAt(src, i)) = LineStart(src, i)
<1>1. \A j \in Live(src) : j \in Nat \ {0}
  BY DEF Live
<1>2. \A j \in LineAt(src, i - 1) : j \in Live(src) /\ j \in Nat /\ j < i
  BY <1>1 DEF LineAt
<1>3. src[i].t = "nl" => LineAt(src, i) = {}
  BY <1>1 DEF LineAt
<1>4. ASSUME src[i].t # "nl" PROVE LineAt(src, i) = LineAt(src, i - 1) \cup {i}
  <2>1. ASSUME NEW j \in LineAt(src, i) PROVE j \in LineAt(src, i - 1) \cup {i}
    BY <1>1, <2>1 DEF LineAt
  <2>2. ASSUME NEW j \in LineAt(src, i - 1) PROVE j \in LineAt(src, i)
    BY <1>1, <1>4, <2>2 DEF LineAt
  <2>3. i \in LineAt(src, i)
    BY <1>1, <1>4 DEF LineAt
  <2> QED BY <2>1, <2>2, <2>3
<1>5. UpToBreak(src, i) = LineAt(src, i - 1) \cup {i}
  <2>1. ASSUME NEW j \in UpToBreak(src, i) PROVE j \in LineAt(src, i - 1) \cup {i}
    BY <1>1, <2>1 DEF LineAt, UpToBreak
  <2>2. ASSUME NEW j \in LineAt(src, i - 1) PROVE j \in UpToBreak(src, i)
    BY <1>1, <2>2 DEF LineAt, UpToBreak
  <2>3. i \in UpToBreak(src, i)
    BY <1>1 DEF UpToBreak
  <2> QED BY <2>1, <2>2, <2>3
<1>8. src[i].t # "nl" => Min(LineAt(src, i)) = LineStart(src, i)
  BY <1>4, <1>5 DEF LineStart
<1>6. CASE LineAt(src, i - 1) = {}
  <2>1. UpToBreak(src, i) = {i}
    BY <1>5, <1>6
  <2>2. LineStart(src, i) \in {i}
    BY <1>1, <2>1, MinIs DEF LineStart
  <2> QED BY <1>1, <1>2, <1>3, <1>4, <1>6, <1>8, <2>2
<1>7. CASE LineAt(src, i - 1) # {}
  <2> DEFINE S == LineAt(src, i - 1)
             x == Min(S)
             y == LineStart(src, i)
  <2>1. S \in SUBSET Nat
    BY <1>2
  <2>2. x \in S /\ \A j \in S : x <= j
    BY <1>7, <2>1, MinIs
  <2>3. x < i /\ x \in Nat
    BY <1>2, <2>2
  <2>4. S \cup {i} \in SUBSET Nat
    BY <1>1, <2>1
  <2>5. y \in S \cup {i} /\ \A j \in S \cup {i} : y <= j
    BY <1>5, <2>4, MinIs DEF LineStart
  <2> HIDE DEF S, x, y
  <2>6. y \in Nat /\ y <= x
    BY <1>1, <2>1, <2>2, <2>5
  <2>7. y \in S
    BY <1>1, <2>3, <2>5, <2>6
  <2>8. y = x
    BY <2>2, <2>3, <2>6, <2>7
  <2> QED BY <1>1, <1>2, <1>3, <1>4, <1>7, <1>8, <2>3, <2>8 DEF S, x, y
<1> QED BY <1>6, <1>7

\* What was read up to place i, and the parser's variables in these terms.
Upto(S, i) == {j \in S : j <= i}
BookAt(src, i) == LET S == Upto(BookMarks(src), i) IN IF S = {} THEN NoBook ELSE src[Max(S)].s
ChapterAt(src, i) == LET S == Upto(Kinds(src, {"c"}), i) IN IF S = {} THEN 0 ELSE src[Max(S)].n
InVerse(src, i) == LET S == Upto(Kinds(src, {"c", "v"}), i) IN S # {} /\ src[Max(S)].t = "v"
MarksAt(src, i) == Upto(Kinds(src, {"v"}), i)
WordsAt(src, v, i) ==
  {j \in Upto(Kinds(src, {"w", "id"}), i) : v < j /\ \A e \in Kinds(src, {"c", "v"}) : v < e => j < e}
SaidAt(src, v, i) == Arranged(WordsAt(src, v, i), [j \in WordsAt(src, v, i) |-> src[j].s])
VerseAt(src, v, i) ==
  [book |-> BookAt(src, v - 1), chapter |-> ChapterAt(src, v - 1), verse |-> src[v].n, text |-> SaidAt(src, v, i)]
OutAt(src, i) == Arranged(MarksAt(src, i), [v \in MarksAt(src, i) |-> VerseAt(src, v, i)])

LineIs(src, i, p) ==
  /\ p.first <=> LineAt(src, i) = {}
  /\ p.skip <=> LineAt(src, i) # {} /\ src[Min(LineAt(src, i))].t \in {"id", "head"}
PlaceIs(src, i, p) ==
  /\ p.book = BookAt(src, i) /\ p.chapter = ChapterAt(src, i)
  /\ p.cur <=> InVerse(src, i)
Placed(src, i) == \A v \in MarksAt(src, i) : BookAt(src, v - 1) # NoBook /\ ChapterAt(src, v - 1) # 0
StateIs(src, i, p) == LineIs(src, i, p) /\ PlaceIs(src, i, p) /\ p.out = OutAt(src, i) /\ Placed(src, i)

\* All sets here are finite sets of places.
LEMMA PlaceSets ==
  ASSUME NEW src \in Seq(Token)
  PROVE  /\ Len(src) \in Nat
         /\ IsFiniteSet(Live(src)) /\ Live(src) \in SUBSET (1 .. Len(src))
         /\ ReadAt(src) \in SUBSET Live(src) /\ BookMarks(src) \in SUBSET Live(src)
         /\ \A T : Kinds(src, T) \in SUBSET Live(src)
<1>1. Len(src) \in Nat /\ IsFiniteSet(1 .. Len(src))
  BY FS_Interval
<1>2. Live(src) \in SUBSET (1 .. Len(src))
  BY DEF Live
<1>3. IsFiniteSet(Live(src))
  BY <1>1, <1>2, FS_Subset
<1>4. ReadAt(src) \in SUBSET Live(src) /\ BookMarks(src) \in SUBSET Live(src)
  BY DEF ReadAt, BookMarks
<1>5. \A T : Kinds(src, T) \in SUBSET Live(src)
  BY <1>4 DEF Kinds
<1> QED BY <1>1, <1>2, <1>3, <1>4, <1>5

LEMMA UptoStep ==
  ASSUME NEW S \in SUBSET Nat, NEW i \in Nat \ {0}
  PROVE  /\ i \in S => Upto(S, i) = Upto(S, i - 1) \cup {i} /\ Max(Upto(S, i)) = i /\ Upto(S, i) # {}
         /\ i \notin S => Upto(S, i) = Upto(S, i - 1)
         /\ \A j \in Upto(S, i - 1) : j \in S /\ j \in Nat /\ j < i
<1>0. \A j \in S : j \in Nat
  OBVIOUS
<1>1. \A j \in S : j <= i <=> j <= i - 1 \/ j = i
  BY <1>0
<1>2. \A j \in Upto(S, i - 1) : j \in S /\ j \in Nat /\ j < i
  BY <1>0 DEF Upto
<1>3. i \in S => Upto(S, i) = Upto(S, i - 1) \cup {i}
  BY <1>0, <1>1 DEF Upto
<1>4. i \notin S => Upto(S, i) = Upto(S, i - 1)
  BY <1>0, <1>1 DEF Upto
<1>5. ASSUME i \in S PROVE Max(Upto(S, i)) = i
  <2>0. \A j \in S : j <= i => j \in 0 .. i
    BY <1>0
  <2>1. i \in Upto(S, i) /\ \A j \in Upto(S, i) : j \in 0 .. i
    BY <1>5, <2>0 DEF Upto
  <2>3. Upto(S, i) \in SUBSET (0 .. i) /\ Upto(S, i) # {}
    BY <2>1
  <2>2. Max(Upto(S, i)) \in Upto(S, i) /\ i <= Max(Upto(S, i))
    BY <2>1, <2>3, MaxIs
  <2> QED BY <2>1, <2>2
<1> QED BY <1>2, <1>3, <1>4, <1>5

\* What a read place changes of the parser's variables.
LEMMA PlaceStep ==
  ASSUME NEW src \in Seq(Token), NEW i \in Live(src)
  PROVE  /\ BookAt(src, i) = IF i \in BookMarks(src) THEN src[i].s ELSE BookAt(src, i - 1)
         /\ ChapterAt(src, i) = IF i \in ReadAt(src) /\ src[i].t = "c" THEN src[i].n ELSE ChapterAt(src, i - 1)
         /\ InVerse(src, i) <=> IF i \in ReadAt(src) /\ src[i].t \in {"c", "v"} THEN src[i].t = "v"
                                                                        ELSE InVerse(src, i - 1)
<1>1. i \in Nat \ {0} /\ BookMarks(src) \in SUBSET Nat /\ \A T : Kinds(src, T) \in SUBSET Nat
  BY PlaceSets
<1>2. \A T : i \in Kinds(src, T) <=> i \in ReadAt(src) /\ src[i].t \in T
  BY DEF Kinds
<1>3. BookAt(src, i) = IF i \in BookMarks(src) THEN src[i].s ELSE BookAt(src, i - 1)
  BY <1>1, UptoStep DEF BookAt
<1>4. ChapterAt(src, i) = IF i \in Kinds(src, {"c"}) THEN src[i].n ELSE ChapterAt(src, i - 1)
  BY <1>1, UptoStep DEF ChapterAt
<1>5. InVerse(src, i) <=> IF i \in Kinds(src, {"c", "v"}) THEN src[i].t = "v" ELSE InVerse(src, i - 1)
  BY <1>1, UptoStep DEF InVerse
<1> QED BY <1>2, <1>3, <1>4, <1>5

\* What the parser makes of a place depends on the line it stands in.
LEMMA ReadsWhere ==
  ASSUME NEW src \in Seq(Token), NEW i \in Live(src), NEW p \in ParserState, LineIs(src, i - 1, p)
  PROVE  /\ i \in ReadAt(src) <=> ~p.skip /\ ~(p.first /\ src[i].t \in {"id", "head"})
         /\ i \in BookMarks(src) <=> p.first /\ src[i].t = "id"
         /\ p.skip => ~p.first
<1>1. CASE LineAt(src, i - 1) = {}
  <2>1. p.first /\ ~p.skip /\ LineStart(src, i) = i
    BY <1>1, LineGrows DEF LineIs
  <2> QED BY <2>1 DEF ReadAt, BookMarks
<1>2. CASE LineAt(src, i - 1) # {}
  <2>1. ~p.first /\ LineStart(src, i) = Min(LineAt(src, i - 1)) /\ LineStart(src, i) # i
        /\ (p.skip <=> src[LineStart(src, i)].t \in {"id", "head"})
    BY <1>2, LineGrows DEF LineIs
  <2> QED BY <2>1 DEF ReadAt, BookMarks
<1> QED BY <1>1, <1>2

\* The fields that a place changes, when it is not refused.
Acts(p, k) == k.t # "nl" /\ ~p.skip
Written(p, k) == [p.out EXCEPT ![Len(p.out)].text = Append(@, k.s)]
Begun(p, k) == Append(p.out, [book |-> p.book, chapter |-> p.chapter, verse |-> k.n, text |-> <<>>])

LEMMA WriteFields ==
  ASSUME NEW p \in ParserState, NEW s
  PROVE  /\ Write(p, s).first = p.first /\ Write(p, s).skip = p.skip
         /\ Write(p, s).book = p.book /\ Write(p, s).chapter = p.chapter /\ Write(p, s).cur = p.cur
         /\ Write(p, s).failed = p.failed
         /\ Write(p, s).out = IF p.cur THEN [p.out EXCEPT ![Len(p.out)].text = Append(@, s)] ELSE p.out
BY DEF Write, ParserState

LEMMA ReadQType ==
  ASSUME NEW p \in ParserState, NEW k \in Token
  PROVE  (CASE k.t = "id"   -> ReadId(p, k)
            [] k.t = "head" -> ReadHeading(p)
            [] k.t = "c"    -> ReadChapter(p, k)
            [] k.t = "v"    -> ReadVerse(p, k)
            [] k.t = "w"    -> Write(p, k.s)
            [] OTHER        -> p) \in ParserState
<1>1. k.s \in STRING
  BY DEF Token
<1>2. ReadId(p, k) \in ParserState
  BY <1>1, WriteType DEF ReadId, Failed, ParserState, Names
<1>3. ReadHeading(p) \in ParserState
  BY DEF ReadHeading, ParserState
<1>4. ReadChapter(p, k) \in ParserState
  BY DEF ReadChapter, Failed, ParserState, Token
<1> QED BY <1>1, <1>2, <1>3, <1>4, ReadVerseType, WriteType

LEMMA ReadFields ==
  ASSUME NEW p \in ParserState, NEW k \in Token, ~Read(p, k).failed, p.skip => ~p.first
  PROVE  /\ ~p.failed
         /\ Read(p, k).first <=> k.t = "nl"
         /\ Read(p, k).skip <=> k.t # "nl" /\ (p.skip \/ (p.first /\ k.t \in {"id", "head"}))
         /\ Read(p, k).book = IF Acts(p, k) /\ p.first /\ k.t = "id" THEN k.s ELSE p.book
         /\ Read(p, k).chapter = IF Acts(p, k) /\ k.t = "c" THEN k.n ELSE p.chapter
         /\ Read(p, k).cur <=> IF Acts(p, k) /\ k.t \in {"c", "v"} THEN k.t = "v" ELSE p.cur
         /\ Acts(p, k) /\ k.t = "v" => p.book # NoBook /\ p.chapter # 0
         /\ Read(p, k).out = IF Acts(p, k) /\ k.t = "v" THEN Begun(p, k)
                             ELSE IF Acts(p, k) /\ p.cur /\ (k.t = "w" \/ (k.t = "id" /\ ~p.first)) THEN Written(p, k)
                             ELSE p.out
<1> DEFINE q == CASE k.t = "id"   -> ReadId(p, k)
                  [] k.t = "head" -> ReadHeading(p)
                  [] k.t = "c"    -> ReadChapter(p, k)
                  [] k.t = "v"    -> ReadVerse(p, k)
                  [] k.t = "w"    -> Write(p, k.s)
                  [] OTHER        -> p
<1>0. Read(p, k) = IF p.failed THEN p
                   ELSE IF k.t = "nl" THEN [p EXCEPT !.first = TRUE, !.skip = FALSE]
                   ELSE IF p.skip THEN p
                   ELSE [q EXCEPT !.first = FALSE]
  BY DEF Read
<1> HIDE DEF q
<1>1. ~p.failed
  BY <1>0
<1>2. CASE k.t = "nl"
  <2>1. Read(p, k) = [p EXCEPT !.first = TRUE, !.skip = FALSE]
    BY <1>0, <1>1, <1>2
  <2> QED BY <1>1, <1>2, <2>1 DEF Acts, ParserState
<1>3. CASE k.t # "nl" /\ p.skip
  <2>1. Read(p, k) = p
    BY <1>0, <1>1, <1>3
  <2> QED BY <1>1, <1>3, <2>1 DEF Acts, ParserState
<1>4. CASE Acts(p, k)
  <2>0. k.t # "nl" /\ ~p.skip
    BY <1>4 DEF Acts
  <2>1. Read(p, k) = [q EXCEPT !.first = FALSE]
    BY <1>0, <1>1, <2>0
  <2>2. q \in ParserState
    BY ReadQType DEF q
  <2>3. /\ Read(p, k).first = FALSE /\ Read(p, k).skip = q.skip
        /\ Read(p, k).book = q.book /\ Read(p, k).chapter = q.chapter /\ Read(p, k).cur = q.cur
        /\ Read(p, k).out = q.out /\ Read(p, k).failed = q.failed
    BY <2>1, <2>2 DEF ParserState
  <2>4. CASE k.t = "id"
    <3>1. q = ReadId(p, k)
      BY <2>4 DEF q
    <3>2. CASE p.first
      <4>1. k.s # NoBook
        BY <2>3, <3>1, <3>2 DEF ReadId, Failed, ParserState
      <4>2. q = [p EXCEPT !.book = k.s, !.skip = TRUE]
        BY <3>1, <3>2, <4>1 DEF ReadId
      <4> QED BY <1>1, <2>0, <2>3, <2>4, <3>2, <4>2 DEF Acts, ParserState
    <3>3. CASE ~p.first
      <4>1. q = Write(p, k.s)
        BY <3>1, <3>3 DEF ReadId
      <4>2. /\ q.skip = p.skip /\ q.book = p.book /\ q.chapter = p.chapter /\ q.cur = p.cur
            /\ q.out = IF p.cur THEN Written(p, k) ELSE p.out
        BY <4>1, WriteFields DEF Written
      <4> QED BY <1>1, <2>0, <2>3, <2>4, <3>3, <4>2 DEF Acts
    <3> QED BY <3>2, <3>3
  <2>5. CASE k.t = "head"
    <3>1. q = [p EXCEPT !.skip = p.first]
      BY <2>5 DEF q, ReadHeading
    <3> QED BY <1>1, <2>0, <2>3, <2>5, <3>1 DEF Acts, ParserState
  <2>6. CASE k.t = "c"
    <3>1. q = ReadChapter(p, k)
      BY <2>6 DEF q
    <3>2. k.n # BadNumber
      BY <2>3, <3>1 DEF ReadChapter, Failed, ParserState
    <3>3. q = [p EXCEPT !.chapter = k.n, !.cur = FALSE]
      BY <3>1, <3>2 DEF ReadChapter
    <3> QED BY <1>1, <2>0, <2>3, <2>6, <3>3 DEF Acts, ParserState
  <2>7. CASE k.t = "v"
    <3>1. q = ReadVerse(p, k)
      BY <2>7 DEF q
    <3>2. ~(p.book = NoBook \/ p.chapter = 0 \/ k.n = BadNumber)
      BY <2>3, <3>1 DEF ReadVerse, Failed, ParserState
    <3>3. q = [p EXCEPT !.cur = TRUE, !.out = Begun(p, k)]
      BY <3>1, <3>2 DEF ReadVerse, Begun
    <3> QED BY <1>1, <2>0, <2>3, <2>7, <3>2, <3>3 DEF Acts, ParserState
  <2>8. CASE k.t = "w"
    <3>1. q = Write(p, k.s)
      BY <2>8 DEF q
    <3>2. /\ q.skip = p.skip /\ q.book = p.book /\ q.chapter = p.chapter /\ q.cur = p.cur
          /\ q.out = IF p.cur THEN Written(p, k) ELSE p.out
      BY <3>1, WriteFields DEF Written
    <3> QED BY <1>1, <2>0, <2>3, <2>8, <3>2 DEF Acts
  <2>9. CASE k.t \notin {"id", "head", "c", "v", "w"}
    <3>1. q = p
      BY <2>9 DEF q
    <3> QED BY <1>1, <2>0, <2>3, <2>9, <3>1 DEF Acts, ParserState
  <2> QED BY <2>4, <2>5, <2>6, <2>7, <2>8, <2>9
<1> QED BY <1>2, <1>3, <1>4 DEF Acts

\* A word belongs to the verse that is open.
LEMMA OpenVerse ==
  ASSUME NEW src \in Seq(Token), NEW i \in Live(src), NEW v \in MarksAt(src, i - 1)
  PROVE  /\ v \in Nat /\ v < i
         /\ (\A e \in Kinds(src, {"c", "v"}) : v < e /\ e # i => i < e)
              <=> InVerse(src, i - 1) /\ v = Max(MarksAt(src, i - 1))
<1> DEFINE E == Kinds(src, {"c", "v"})
           V == Kinds(src, {"v"})
           Ei == Upto(E, i - 1)
           Vi == Upto(V, i - 1)
<1>1. i \in Nat \ {0} /\ E \in SUBSET Nat /\ V \in SUBSET Nat
  BY PlaceSets
<1>2. V \in SUBSET E /\ \A e \in E : src[e].t = "v" => e \in V
  BY DEF Kinds
<1>3. \A e \in V : src[e].t = "v"
  BY DEF Kinds
<1> HIDE DEF E, V
<1>4. \A j \in E : j \in Nat
  BY <1>1
<1>5. /\ \A j : j \in Ei <=> j \in E /\ j <= i - 1
      /\ \A j : j \in Vi <=> j \in V /\ j <= i - 1
  BY DEF Upto
<1>6. v \in V /\ v \in E /\ v \in Nat /\ v < i /\ v \in Ei /\ v \in Vi
  BY <1>1, <1>2, <1>4, <1>5 DEF MarksAt, V
<1>7. \A j \in E : j <= i - 1 => j \in 0 .. i - 1
  BY <1>1, <1>4
<1> HIDE DEF Ei, Vi
<1>8. Ei \in SUBSET (0 .. i - 1) /\ Vi \in SUBSET (0 .. i - 1) /\ i - 1 \in Nat
  <2>1. \A j \in Ei : j \in 0 .. i - 1
    BY <1>5, <1>7
  <2>2. \A j \in Vi : j \in 0 .. i - 1
    BY <1>2, <1>5, <1>7
  <2>3. i - 1 \in Nat
    BY <1>1
  <2> QED BY <2>1, <2>2, <2>3
<1>9. PICK x \in Ei : x = Max(Ei) /\ \A j \in Ei : j <= x
  BY <1>6, <1>8, MaxIs
<1>10. PICK y \in Vi : y = Max(Vi) /\ \A j \in Vi : j <= y
  BY <1>6, <1>8, MaxIs
<1>11. x \in E /\ x \in Nat /\ x < i /\ y \in V /\ y \in E /\ y \in Ei /\ y \in Nat
  BY <1>1, <1>2, <1>4, <1>5, <1>8, <1>9, <1>10
<1>12. InVerse(src, i - 1) <=> src[x].t = "v"
  BY <1>6, <1>9 DEF InVerse, Ei, E
<1>13. MarksAt(src, i - 1) = Vi
  BY DEF MarksAt, Vi, V
<1>14. ASSUME \A e \in E : v < e /\ e # i => i < e PROVE src[x].t = "v" /\ v = y
  <2>1. v <= x
    BY <1>6, <1>9
  <2>2. v = x
    <3>1. ~(v < x)
      <4>1. x # i /\ ~(i < x)
        BY <1>1, <1>11
      <4> QED BY <1>11, <1>14, <4>1
    <3> QED BY <1>6, <1>11, <2>1, <3>1
  <2>3. v <= y /\ y <= x
    BY <1>6, <1>9, <1>10, <1>11
  <2> QED BY <1>3, <1>6, <1>11, <2>2, <2>3
<1>15. ASSUME src[x].t = "v", v = y, NEW e \in E, v < e, e # i PROVE i < e
  <2>1. x \in Vi
    BY <1>1, <1>2, <1>5, <1>11, <1>15
  <2>2. x <= v
    BY <1>10, <1>15, <2>1
  <2>3. e \notin Ei
    <3>1. e \in Nat
      BY <1>4
    <3>2. ~(e <= x)
      BY <1>6, <1>11, <1>15, <2>2, <3>1
    <3> QED BY <1>9, <3>2
  <2> QED BY <1>1, <1>4, <1>5, <1>15, <2>3
<1> QED BY <1>6, <1>10, <1>12, <1>13, <1>14, <1>15 DEF E

LEMMA WordsStep ==
  ASSUME NEW src \in Seq(Token), NEW i \in Live(src), NEW v \in MarksAt(src, i - 1)
  PROVE  /\ WordsAt(src, v, i) =
              IF i \in Kinds(src, {"w", "id"}) /\ InVerse(src, i - 1) /\ v = Max(MarksAt(src, i - 1))
              THEN WordsAt(src, v, i - 1) \cup {i} ELSE WordsAt(src, v, i - 1)
         /\ \A j \in WordsAt(src, v, i - 1) : j \in Nat /\ j < i
<1> DEFINE E == Kinds(src, {"c", "v"})
           K == Kinds(src, {"w", "id"})
<1>1. i \in Nat \ {0} /\ E \in SUBSET Nat /\ K \in SUBSET Nat
  BY PlaceSets
<1>2. i \in K => i \notin E
  BY DEF Kinds
<1> HIDE DEF E, K
<1>3. /\ i \in K => Upto(K, i) = Upto(K, i - 1) \cup {i}
      /\ i \notin K => Upto(K, i) = Upto(K, i - 1)
      /\ \A j \in Upto(K, i - 1) : j \in Nat /\ j < i
  BY <1>1, UptoStep
<1>4. \A m : WordsAt(src, v, m) = {j \in Upto(K, m) : v < j /\ \A e \in E : v < e => j < e}
  BY DEF WordsAt, K, E
<1>5. \A j \in WordsAt(src, v, i - 1) : j \in Nat /\ j < i
  BY <1>3, <1>4
<1>6. CASE i \notin K
  BY <1>3, <1>4, <1>5, <1>6 DEF K
<1>7. CASE i \in K
  <2>1. v < i /\ ((\A e \in E : v < e => i < e) <=> InVerse(src, i - 1) /\ v = Max(MarksAt(src, i - 1)))
    BY <1>2, <1>7, OpenVerse DEF E
  <2>2. WordsAt(src, v, i) = IF \A e \in E : v < e => i < e THEN WordsAt(src, v, i - 1) \cup {i}
                             ELSE WordsAt(src, v, i - 1)
    <3> DEFINE All(j) == \A e \in E : v < e => j < e
               X == Upto(K, i - 1)
               Y == Upto(K, i)
    <3>1. Y = X \cup {i}
      BY <1>3, <1>7
    <3> HIDE DEF X, Y, All
    <3>2. WordsAt(src, v, i - 1) = {j \in X : v < j /\ All(j)} /\ WordsAt(src, v, i) = {j \in Y : v < j /\ All(j)}
      BY <1>4 DEF X, Y, All
    <3>3. {j \in Y : v < j /\ All(j)} = IF All(i) THEN {j \in X : v < j /\ All(j)} \cup {i} ELSE {j \in X : v < j /\ All(j)}
      BY <2>1, <3>1
    <3> QED BY <3>2, <3>3 DEF All
  <2> QED BY <1>5, <1>7, <2>1, <2>2 DEF K
<1> QED BY <1>6, <1>7

\* The words of a verse, with one more or as they were.
LEMMA SaidStep ==
  ASSUME NEW src \in Seq(Token), NEW i \in Live(src), NEW v \in MarksAt(src, i - 1)
  PROVE  SaidAt(src, v, i) =
           IF i \in Kinds(src, {"w", "id"}) /\ InVerse(src, i - 1) /\ v = Max(MarksAt(src, i - 1))
           THEN Append(SaidAt(src, v, i - 1), src[i].s) ELSE SaidAt(src, v, i - 1)
<1> DEFINE W == WordsAt(src, v, i - 1)
           X == WordsAt(src, v, i)
<1>1. W \in SUBSET Live(src) /\ X \in SUBSET Live(src)
  BY PlaceSets DEF WordsAt, Upto
<1>2. \A j \in Live(src) : j \in Nat /\ src[j].s \in STRING
  <2>1. \A j \in Live(src) : j \in 1 .. Len(src)
    BY PlaceSets
  <2>2. \A j \in 1 .. Len(src) : src[j] \in Token
    OBVIOUS
  <2>3. \A j \in 1 .. Len(src) : src[j].s \in STRING
    BY <2>2 DEF Token
  <2> QED BY <2>1, <2>3
<1>3. IsFiniteSet(W) /\ W \in SUBSET Nat /\ i \in Nat
  BY <1>1, <1>2, PlaceSets, FS_Subset
<1>4. \A j \in W : j < i
  BY WordsStep
<1>5. [j \in W |-> src[j].s] \in [W -> STRING] /\ [j \in X |-> src[j].s] \in [X -> STRING]
  BY <1>1, <1>2
<1> HIDE DEF W, X
<1>6. CASE X = W \cup {i}
  <2> DEFINE g == [j \in W |-> src[j].s]
             h == [j \in W \cup {i} |-> src[j].s]
  <2>1. g \in [W -> STRING] /\ h \in [W \cup {i} -> STRING] /\ (\A j \in W : h[j] = g[j]) /\ h[i] = src[i].s
    BY <1>5, <1>6
  <2>q. Gives(W, STRING, g) /\ Gives(X, STRING, h)
    BY <1>6, <2>1 DEF Gives
  <2> HIDE DEF g, h
  <2>2. Arranged(X, h) = Append(Arranged(W, g), h[i])
    <3>1. Extends(h, g, X, W, i, STRING)
      BY <1>3, <1>4, <1>6, <2>1, <2>q DEF Extends
    <3> QED BY <3>1, ArrangedAdd
  <2>3. SaidAt(src, v, i) = Append(SaidAt(src, v, i - 1), src[i].s)
    BY <1>6, <2>1, <2>2 DEF SaidAt, g, h, W, X
  <2>4. i \notin W /\ i \in X
    BY <1>3, <1>4, <1>6
  <2> QED BY <2>3, <2>4, WordsStep DEF W, X
<1>7. CASE X = W /\ i \notin W
  <2>1. SaidAt(src, v, i) = SaidAt(src, v, i - 1)
    BY <1>7 DEF SaidAt, W, X
  <2> QED BY <1>7, <2>1, WordsStep DEF W, X
<1> QED BY <1>3, <1>4, <1>6, <1>7, WordsStep DEF W, X

\* Where a verse is open, the last marker of a verse is its.
LEMMA OpenMark ==
  ASSUME NEW src \in Seq(Token), NEW i \in Nat, InVerse(src, i)
  PROVE  MarksAt(src, i) # {}
<1> DEFINE E == Kinds(src, {"c", "v"})
           Ei == Upto(E, i)
<1>1. E \in SUBSET Nat
  BY PlaceSets
<1>2. Ei # {} /\ src[Max(Ei)].t = "v"
  BY DEF InVerse
<1>3. \A j \in Ei : j \in 0 .. i
  BY <1>1 DEF Upto
<1>4. \A j \in Ei : j \in E /\ j <= i
  BY DEF Upto
<1> HIDE DEF Ei
<1>5. Ei \in SUBSET (0 .. i)
  BY <1>3
<1>6. Max(Ei) \in Ei
  BY <1>2, <1>5, MaxIs
<1>7. PICK x \in E : x <= i /\ src[x].t = "v"
  BY <1>2, <1>4, <1>6
<1>8. x \in Kinds(src, {"v"})
  BY <1>7 DEF Kinds
<1> QED BY <1>7, <1>8 DEF MarksAt, Upto

\* The markers of verses up to a place, and the greatest.
LEMMA MarksFacts ==
  ASSUME NEW src \in Seq(Token), NEW i \in Nat
  PROVE  /\ MarksAt(src, i) \in SUBSET Nat /\ IsFiniteSet(MarksAt(src, i))
         /\ \A v \in MarksAt(src, i) : v <= i
         /\ MarksAt(src, i) # {} =>
              /\ Max(MarksAt(src, i)) \in MarksAt(src, i)
              /\ \A v \in MarksAt(src, i) : v <= Max(MarksAt(src, i))
<1> DEFINE M == MarksAt(src, i)
<1>1. M \in SUBSET Live(src)
  BY PlaceSets DEF MarksAt, Upto
<1>2. \A v \in M : v <= i
  BY DEF MarksAt, Upto
<1>3. \A v \in M : v \in Nat
  BY <1>1, PlaceSets
<1> HIDE DEF M
<1>4. IsFiniteSet(M) /\ M \in SUBSET Nat
  BY <1>1, <1>3, PlaceSets, FS_Subset
<1>5. \A v \in M : v \in 0 .. i
  BY <1>2, <1>3
<1>6. M \in SUBSET (0 .. i)
  BY <1>5
<1>7. M # {} => Max(M) \in M /\ \A v \in M : v <= Max(M)
  BY <1>6, MaxIs
<1> QED BY <1>2, <1>4, <1>7 DEF M

LEMMA NoWordsYet ==
  ASSUME NEW src \in Seq(Token), NEW i \in Live(src)
  PROVE  SaidAt(src, i, i) = <<>>
<1>1. i \in Nat /\ Kinds(src, {"w", "id"}) \in SUBSET Nat
  BY PlaceSets
<1>2. WordsAt(src, i, i) = {}
  <2>1. \A j \in Upto(Kinds(src, {"w", "id"}), i) : j \in Nat /\ j <= i
    BY <1>1 DEF Upto
  <2> QED BY <1>1, <2>1 DEF WordsAt
<1>3. Cardinality({}) = 0 /\ 1 .. 0 = {}
  BY FS_EmptySet
<1> QED BY <1>2, <1>3 DEF SaidAt, Arranged

\* The verses of Parse, after each place that it reads.
LEMMA OutSame ==
  ASSUME NEW src \in Seq(Token), NEW i \in Nat \ {0}, MarksAt(src, i) = MarksAt(src, i - 1),
         \A v \in MarksAt(src, i) : SaidAt(src, v, i) = SaidAt(src, v, i - 1)
  PROVE  OutAt(src, i) = OutAt(src, i - 1)
<1>1. \A v \in MarksAt(src, i) : VerseAt(src, v, i) = VerseAt(src, v, i - 1)
  BY DEF VerseAt
<1>2. [v \in MarksAt(src, i) |-> VerseAt(src, v, i)] = [v \in MarksAt(src, i - 1) |-> VerseAt(src, v, i - 1)]
  BY <1>1
<1> QED BY <1>2 DEF OutAt

LEMMA OutBegins ==
  ASSUME NEW src \in Seq(Token), NEW i \in Kinds(src, {"v"})
  PROVE  OutAt(src, i) = Append(OutAt(src, i - 1),
           [book |-> BookAt(src, i - 1), chapter |-> ChapterAt(src, i - 1), verse |-> src[i].n, text |-> <<>>])
<1> DEFINE M == MarksAt(src, i - 1)
           N == MarksAt(src, i)
           T == {VerseAt(src, v, i) : v \in N}
           g == [v \in M |-> VerseAt(src, v, i - 1)]
           h == [v \in N |-> VerseAt(src, v, i)]
<1>1. i \in Live(src) /\ i \in Nat \ {0} /\ i - 1 \in Nat
  BY PlaceSets
<1>2. N = M \cup {i} /\ \A v \in M : v < i
  BY <1>1, PlaceSets, UptoStep DEF MarksAt
<1>3. src[i].t = "v" /\ i \notin Kinds(src, {"w", "id"})
  BY DEF Kinds
<1>4. \A v \in M : SaidAt(src, v, i) = SaidAt(src, v, i - 1)
  BY <1>1, <1>3, SaidStep
<1>5. \A v \in M : VerseAt(src, v, i) = VerseAt(src, v, i - 1)
  BY <1>4 DEF VerseAt
<1>6. M \in SUBSET Nat /\ IsFiniteSet(M)
  BY <1>1, MarksFacts
<1> HIDE DEF M, N
<1>7. Gives(M, T, g) /\ Gives(N, T, h) /\ (\A v \in M : h[v] = g[v]) /\ h[i] = VerseAt(src, i, i)
  BY <1>2, <1>5 DEF Gives
<1>8. OutAt(src, i) = Arranged(N, h) /\ OutAt(src, i - 1) = Arranged(M, g)
  BY DEF OutAt, M, N
<1> HIDE DEF g, h, T
<1>9. Extends(h, g, N, M, i, T)
  BY <1>1, <1>2, <1>6, <1>7 DEF Extends
<1>10. VerseAt(src, i, i) =
         [book |-> BookAt(src, i - 1), chapter |-> ChapterAt(src, i - 1), verse |-> src[i].n, text |-> <<>>]
  BY <1>1, NoWordsYet DEF VerseAt
<1> QED BY <1>7, <1>8, <1>9, <1>10, ArrangedAdd

LEMMA OutGrows ==
  ASSUME NEW src \in Seq(Token), NEW i \in Kinds(src, {"w", "id"}), InVerse(src, i - 1)
  PROVE  OutAt(src, i) =
           [OutAt(src, i - 1) EXCEPT ![Len(OutAt(src, i - 1))].text = Append(@, src[i].s)]
<1> DEFINE M == MarksAt(src, i - 1)
           x == Max(M)
           T == {VerseAt(src, v, i) : v \in M} \cup {VerseAt(src, v, i - 1) : v \in M}
           g == [v \in M |-> VerseAt(src, v, i - 1)]
           h == [v \in M |-> VerseAt(src, v, i)]
           n == Cardinality(M)
<1>1. i \in Live(src) /\ i \in Nat \ {0} /\ i - 1 \in Nat
  BY PlaceSets
<1>2. i \notin Kinds(src, {"v"})
  BY DEF Kinds
<1>3. MarksAt(src, i) = M
  <2>1. Kinds(src, {"v"}) \in SUBSET Nat
    BY PlaceSets
  <2> QED BY <1>1, <1>2, <2>1, UptoStep DEF MarksAt
<1>4. M # {}
  BY <1>1, OpenMark
<1>5. M \in SUBSET Nat /\ IsFiniteSet(M) /\ x \in M /\ \A v \in M : v <= x
  BY <1>1, <1>4, MarksFacts
<1>6. \A v \in M : SaidAt(src, v, i) = IF v = x THEN Append(SaidAt(src, v, i - 1), src[i].s)
                                         ELSE SaidAt(src, v, i - 1)
  BY <1>1, SaidStep
<1>7. OutAt(src, i) = Arranged(M, h) /\ OutAt(src, i - 1) = Arranged(M, g)
  BY <1>3 DEF OutAt
<1> HIDE DEF M, x
<1>8. \A v \in M : v # x => VerseAt(src, v, i) = VerseAt(src, v, i - 1)
  BY <1>6 DEF VerseAt
<1>9. VerseAt(src, x, i) = [VerseAt(src, x, i - 1) EXCEPT !.text = Append(@, src[i].s)]
  <2>2. SaidAt(src, x, i) = Append(SaidAt(src, x, i - 1), src[i].s)
    BY <1>5, <1>6
  <2> DEFINE old == SaidAt(src, x, i - 1)
             new == SaidAt(src, x, i)
             b == BookAt(src, x - 1)
             c == ChapterAt(src, x - 1)
             d == src[x].n
             w == src[i].s
  <2>3. /\ VerseAt(src, x, i - 1) = [book |-> b, chapter |-> c, verse |-> d, text |-> old]
        /\ VerseAt(src, x, i) = [book |-> b, chapter |-> c, verse |-> d, text |-> new]
    BY DEF VerseAt
  <2> HIDE DEF old, new, b, c, d, w
  <2>4. new = Append(old, w)
    BY <2>2 DEF old, new, w
  <2>5. [book |-> b, chapter |-> c, verse |-> d, text |-> new]
          = [[book |-> b, chapter |-> c, verse |-> d, text |-> old] EXCEPT !.text = Append(@, w)]
    <3> DEFINE r == [book |-> b, chapter |-> c, verse |-> d, text |-> old]
    <3>1. r.text = old /\ [r EXCEPT !.text = new] = [book |-> b, chapter |-> c, verse |-> d, text |-> new]
      OBVIOUS
    <3>2. Append(r.text, w) = new
      BY <2>4, <3>1
    <3>3. [r EXCEPT !.text = Append(@, w)] = [r EXCEPT !.text = new]
      <4> HIDE DEF r
      <4> QED BY <3>2
    <3> QED BY <3>1, <3>3
  <2> QED BY <2>3, <2>5 DEF w
<1>10. Gives(M, T, g) /\ Gives(M, T, h) /\ (\A v \in M \ {x} : h[v] = g[v])
       /\ g[x] = VerseAt(src, x, i - 1) /\ h[x] = VerseAt(src, x, i)
  BY <1>5, <1>8 DEF Gives
<1> HIDE DEF g, h, T
<1>11. /\ n \in Nat \ {0} /\ Arranged(M, g)[n] = g[x]
       /\ Arranged(M, h) = [Arranged(M, g) EXCEPT ![n] = h[x]]
  BY <1>5, <1>10, ArrangedLast
<1>12. Len(Arranged(M, g)) = n
  BY <1>5, <1>10, ArrangedType
<1> HIDE DEF n
<1> QED BY <1>7, <1>9, <1>10, <1>11, <1>12

LEMMA LineStep ==
  ASSUME NEW src \in Seq(Token), NEW i \in Live(src), NEW p \in ParserState, LineIs(src, i - 1, p),
         NEW q, q.first <=> src[i].t = "nl",
         q.skip <=> src[i].t # "nl" /\ (p.skip \/ (p.first /\ src[i].t \in {"id", "head"}))
  PROVE  LineIs(src, i, q)
<1>1. CASE src[i].t = "nl"
  <2>1. LineAt(src, i) = {}
    BY <1>1, LineGrows
  <2> QED BY <1>1, <2>1 DEF LineIs
<1>2. CASE src[i].t # "nl"
  <2>1. LineAt(src, i) # {} /\ Min(LineAt(src, i)) = LineStart(src, i)
        /\ LineStart(src, i) = IF LineAt(src, i - 1) = {} THEN i ELSE Min(LineAt(src, i - 1))
    BY <1>2, LineGrows
  <2>2. p.skip \/ (p.first /\ src[i].t \in {"id", "head"}) <=> src[LineStart(src, i)].t \in {"id", "head"}
    BY <2>1 DEF LineIs
  <2> QED BY <1>2, <2>1, <2>2 DEF LineIs
<1> QED BY <1>1, <1>2

\* A place that is read.
LEMMA StateStep ==
  ASSUME NEW src \in Seq(Token), NEW i \in Live(src), NEW p \in ParserState, StateIs(src, i - 1, p),
         ~Read(p, src[i]).failed
  PROVE  StateIs(src, i, Read(p, src[i]))
<1> DEFINE k == src[i]
           q == Read(p, k)
<1>0. i \in Nat \ {0} /\ i - 1 \in Nat /\ k \in Token
  BY PlaceSets
<1>1. LineIs(src, i - 1, p) /\ PlaceIs(src, i - 1, p) /\ p.out = OutAt(src, i - 1) /\ Placed(src, i - 1)
  BY DEF StateIs
<1>2. /\ i \in ReadAt(src) <=> ~p.skip /\ ~(p.first /\ k.t \in {"id", "head"})
      /\ i \in BookMarks(src) <=> p.first /\ k.t = "id"
      /\ p.skip => ~p.first
  BY <1>1, ReadsWhere
<1>3. \A T : i \in Kinds(src, T) <=> i \in ReadAt(src) /\ k.t \in T
  BY DEF Kinds
<1>4. /\ q.first <=> k.t = "nl"
      /\ q.skip <=> k.t # "nl" /\ (p.skip \/ (p.first /\ k.t \in {"id", "head"}))
      /\ q.book = IF Acts(p, k) /\ p.first /\ k.t = "id" THEN k.s ELSE p.book
      /\ q.chapter = IF Acts(p, k) /\ k.t = "c" THEN k.n ELSE p.chapter
      /\ q.cur <=> IF Acts(p, k) /\ k.t \in {"c", "v"} THEN k.t = "v" ELSE p.cur
      /\ Acts(p, k) /\ k.t = "v" => p.book # NoBook /\ p.chapter # 0
      /\ q.out = IF Acts(p, k) /\ k.t = "v" THEN Begun(p, k)
                 ELSE IF Acts(p, k) /\ p.cur /\ (k.t = "w" \/ (k.t = "id" /\ ~p.first)) THEN Written(p, k)
                 ELSE p.out
  BY <1>0, <1>2, ReadFields
<1> HIDE DEF q
<1>5. LineIs(src, i, q)
  BY <1>1, <1>4, LineStep
<1>6. PlaceIs(src, i, q)
  <2>1. q.book = BookAt(src, i)
    BY <1>1, <1>2, <1>4, PlaceStep DEF PlaceIs, Acts
  <2>2. q.chapter = ChapterAt(src, i)
    BY <1>1, <1>2, <1>4, PlaceStep DEF PlaceIs, Acts
  <2>3. q.cur <=> InVerse(src, i)
    BY <1>1, <1>2, <1>4, PlaceStep DEF PlaceIs, Acts
  <2> QED BY <2>1, <2>2, <2>3 DEF PlaceIs
<1>7. CASE i \in Kinds(src, {"v"})
  <2>1. Acts(p, k) /\ k.t = "v"
    BY <1>2, <1>3, <1>7 DEF Acts
  <2>2. q.out = Begun(p, k) /\ p.book # NoBook /\ p.chapter # 0
    BY <1>4, <2>1
  <2>3. q.out = OutAt(src, i)
    BY <1>1, <1>7, <2>2, OutBegins DEF Begun, PlaceIs
  <2>4. MarksAt(src, i) = MarksAt(src, i - 1) \cup {i}
    <3>1. Kinds(src, {"v"}) \in SUBSET Nat
      BY PlaceSets
    <3> QED BY <1>0, <1>7, <3>1, UptoStep DEF MarksAt
  <2>5. Placed(src, i)
    BY <1>1, <2>2, <2>4 DEF Placed, PlaceIs
  <2> QED BY <1>5, <1>6, <2>3, <2>5 DEF StateIs, q
<1>8. CASE i \notin Kinds(src, {"v"})
  <2>1. MarksAt(src, i) = MarksAt(src, i - 1)
    <3>1. Kinds(src, {"v"}) \in SUBSET Nat
      BY PlaceSets
    <3> QED BY <1>0, <1>8, <3>1, UptoStep DEF MarksAt
  <2>2. Placed(src, i)
    BY <1>1, <2>1 DEF Placed
  <2>3. ~(Acts(p, k) /\ k.t = "v")
    BY <1>2, <1>3, <1>8 DEF Acts
  <2>4. CASE i \in Kinds(src, {"w", "id"}) /\ InVerse(src, i - 1)
    <3>1. Acts(p, k) /\ p.cur /\ (k.t = "w" \/ (k.t = "id" /\ ~p.first))
      BY <1>1, <1>2, <1>3, <2>4 DEF Acts, PlaceIs
    <3>2. q.out = Written(p, k)
      BY <1>4, <2>3, <3>1
    <3>3. q.out = OutAt(src, i)
      BY <1>1, <2>4, <3>2, OutGrows DEF Written
    <3> QED BY <1>5, <1>6, <2>2, <3>3 DEF StateIs, q
  <2>5. CASE ~(i \in Kinds(src, {"w", "id"}) /\ InVerse(src, i - 1))
    <3>1. ~(Acts(p, k) /\ p.cur /\ (k.t = "w" \/ (k.t = "id" /\ ~p.first)))
      BY <1>1, <1>2, <1>3, <2>5 DEF Acts, PlaceIs
    <3>2. q.out = p.out
      BY <1>4, <2>3, <3>1
    <3>3. \A v \in MarksAt(src, i) : SaidAt(src, v, i) = SaidAt(src, v, i - 1)
      BY <2>1, <2>5, SaidStep
    <3>4. q.out = OutAt(src, i)
      BY <1>0, <1>1, <2>1, <3>2, <3>3, OutSame
    <3> QED BY <1>5, <1>6, <2>2, <3>4 DEF StateIs, q
  <2> QED BY <2>4, <2>5
<1> QED BY <1>7, <1>8

\* A place that Parse has cut out.
LEMMA StillStep ==
  ASSUME NEW src \in Seq(Token), NEW i \in 1 .. Len(src), i \notin Live(src), NEW p, StateIs(src, i - 1, p)
  PROVE  StateIs(src, i, p)
<1>1. i \in Nat \ {0} /\ i - 1 \in Nat
  OBVIOUS
<1>2. \A S : S \in SUBSET Live(src) => Upto(S, i) = Upto(S, i - 1)
  <2> SUFFICES ASSUME NEW S \in SUBSET Live(src) PROVE Upto(S, i) = Upto(S, i - 1)
    OBVIOUS
  <2>1. S \in SUBSET Nat /\ i \notin S
    BY PlaceSets
  <2> QED BY <1>1, <2>1, UptoStep
<1>3. \A T : Upto(Kinds(src, T), i) = Upto(Kinds(src, T), i - 1)
  BY <1>2, PlaceSets
<1>4. Upto(BookMarks(src), i) = Upto(BookMarks(src), i - 1)
  BY <1>2, PlaceSets
<1>5. LineAt(src, i) = LineAt(src, i - 1)
  <2>1. \A j \in Live(src) : j \in Nat /\ j # i
    BY PlaceSets
  <2>2. \A j \in Live(src) : j <= i <=> j <= i - 1
    BY <1>1, <2>1
  <2> QED BY <2>2 DEF LineAt
<1>6. BookAt(src, i) = BookAt(src, i - 1) /\ ChapterAt(src, i) = ChapterAt(src, i - 1)
      /\ (InVerse(src, i) <=> InVerse(src, i - 1)) /\ MarksAt(src, i) = MarksAt(src, i - 1)
  BY <1>3, <1>4 DEF BookAt, ChapterAt, InVerse, MarksAt
<1>7. \A v : SaidAt(src, v, i) = SaidAt(src, v, i - 1)
  BY <1>3 DEF SaidAt, WordsAt
<1>8. OutAt(src, i) = OutAt(src, i - 1)
  BY <1>1, <1>6, <1>7, OutSame
<1> QED BY <1>5, <1>6, <1>8 DEF StateIs, LineIs, PlaceIs, Placed

LEMMA StartIs ==
  ASSUME NEW src \in Seq(Token)
  PROVE  StateIs(src, 0, Start)
<1>1. \A S : S \in SUBSET Live(src) => Upto(S, 0) = {}
  <2> SUFFICES ASSUME NEW S \in SUBSET Live(src) PROVE Upto(S, 0) = {}
    OBVIOUS
  <2>1. \A j \in S : j \in 1 .. Len(src)
    BY PlaceSets
  <2> QED BY <2>1 DEF Upto
<1>2. (\A T : Upto(Kinds(src, T), 0) = {}) /\ Upto(BookMarks(src), 0) = {}
  BY <1>1, PlaceSets
<1>3. LineAt(src, 0) = {}
  <2>1. \A j \in Live(src) : j \in 1 .. Len(src)
    BY PlaceSets
  <2> QED BY <2>1 DEF LineAt
<1>4. MarksAt(src, 0) = {}
  BY <1>2 DEF MarksAt
<1>5. OutAt(src, 0) = <<>>
  <2>1. Cardinality({}) = 0 /\ 1 .. 0 = {}
    BY FS_EmptySet
  <2> QED BY <1>4, <2>1 DEF OutAt, Arranged
<1>6. /\ Start.book = NoBook /\ Start.chapter = 0 /\ Start.out = <<>> /\ Start.cur = FALSE
      /\ Start.first = TRUE /\ Start.skip = FALSE
  BY DEF Start
<1>7. LineIs(src, 0, Start)
  BY <1>3, <1>6 DEF LineIs
<1>8. PlaceIs(src, 0, Start)
  BY <1>2, <1>6 DEF PlaceIs, BookAt, ChapterAt, InVerse
<1> QED BY <1>4, <1>5, <1>6, <1>7, <1>8 DEF StateIs, Placed

LEMMA ParseIs ==
  ASSUME NEW src \in Seq(Token), ~Parse(src).failed
  PROVE  StateIs(src, Len(src), Parse(src))
<1> DEFINE n == Len(src)
<1>1. PICK a \in Runs(src) : Parse(src) = a[n]
  BY ParseRuns
<1>2. /\ a \in [0 .. n -> ParserState] /\ a[0] = Start
      /\ \A i \in 1 .. n : a[i] = IF Stays(src, i) THEN Read(a[i - 1], src[i]) ELSE a[i - 1]
  BY <1>1 DEF Runs
<1> DEFINE P == {i \in 0 .. n : ~a[i].failed => StateIs(src, i, a[i])}
<1>3. n \in Nat
  OBVIOUS
<1>4. 0 \in P
  BY <1>2, <1>3, StartIs
<1>5. ASSUME NEW i \in 1 .. n, i - 1 \in P PROVE i \in P
  <2> SUFFICES ASSUME ~a[i].failed PROVE StateIs(src, i, a[i])
    OBVIOUS
  <2>0. a[i - 1] \in ParserState
    BY <1>2
  <2>1. CASE Stays(src, i)
    <3>1. i \in Live(src)
      BY <2>1, LiveStays
    <3>2. a[i] = Read(a[i - 1], src[i])
      BY <1>2, <2>1
    <3>3. ~a[i - 1].failed
      BY <3>2 DEF Read
    <3>4. StateIs(src, i - 1, a[i - 1])
      BY <1>5, <3>3
    <3> QED BY <2>0, <3>1, <3>2, <3>4, StateStep
  <2>2. CASE ~Stays(src, i)
    <3>1. i \notin Live(src)
      BY <2>2, LiveStays
    <3>2. a[i] = a[i - 1]
      BY <1>2, <2>2
    <3>3. StateIs(src, i - 1, a[i - 1])
      BY <1>5, <3>2
    <3> QED BY <3>1, <3>2, <3>3, StillStep
  <2> QED BY <2>1, <2>2
<1> HIDE DEF P
<1>6. n \in P
  <2>1. \A i \in 0 .. n : i \in P
    BY <1>3, <1>4, <1>5, UpTo
  <2> QED BY <1>3, <2>1
<1> QED BY <1>1, <1>6 DEF P

\* What Parse returns, of any file, in the words used here.
OfKind(src, T)   == {i \in Live(src) : src[i].t \in T}
EndsOf(src, i)   == {j \in ReadAt(src) \cap OfKind(src, {"c", "v"}) : i < j} \cup {Len(src) + 1}
WordsOf(src, i)  == {j \in ReadAt(src) \cap OfKind(src, {"w", "id"}) : i < j /\ j < Min(EndsOf(src, i))}
MarksOf(src)     == InOrder(ReadAt(src) \cap OfKind(src, {"v"}))
LastOf(src, S, i) == src[Max({j \in S : j < i})]
VerseOf(src, i) ==
  [book    |-> LastOf(src, {j \in OfKind(src, {"id"}) : LineStart(src, j) = j}, i).s,
   chapter |-> LastOf(src, ReadAt(src) \cap OfKind(src, {"c"}), i).n,
   verse   |-> src[i].n,
   text    |-> [k \in 1 .. Len(InOrder(WordsOf(src, i))) |-> src[InOrder(WordsOf(src, i))[k]].s]]
Returned(src) == [m \in 1 .. Len(MarksOf(src)) |-> VerseOf(src, MarksOf(src)[m])]

\* The words of a verse are those read between it and the next \v or \c.
LEMMA SaidIs ==
  ASSUME NEW src \in Seq(Token), NEW v \in Kinds(src, {"v"})
  PROVE  /\ WordsOf(src, v) = WordsAt(src, v, Len(src))
         /\ IsFiniteSet(WordsOf(src, v)) /\ WordsOf(src, v) \in SUBSET Nat
<1> DEFINE n == Len(src)
           E == {j \in ReadAt(src) \cap {i \in Live(src) : src[i].t \in {"c", "v"}} : v < j} \cup {n + 1}
           W == {j \in ReadAt(src) \cap {i \in Live(src) : src[i].t \in {"w", "id"}} : v < j /\ j < Min(E)}
           K == Kinds(src, {"w", "id"})
           F == Kinds(src, {"c", "v"})
<1>1. n \in Nat /\ (\A j \in Live(src) : j \in 1 .. n) /\ \A j \in ReadAt(src) : j \in Live(src)
  BY PlaceSets
<1>2. \A T : ReadAt(src) \cap {i \in Live(src) : src[i].t \in T} = Kinds(src, T)
  BY <1>1 DEF Kinds
<1>3. E = {j \in F : v < j} \cup {n + 1}
  BY <1>2
<1>4. W = {j \in K : v < j /\ j < Min(E)}
  BY <1>2
<1>5. (\A j \in F : j \in Nat) /\ (\A j \in K : j \in 1 .. n)
  BY <1>1 DEF Kinds
<1> HIDE DEF F, K
<1>6. E \in SUBSET Nat /\ E # {}
  BY <1>1, <1>3, <1>5
<1>7. Min(E) \in E /\ \A e \in E : Min(E) <= e
  <2> HIDE DEF E
  <2> QED BY <1>6, MinIs
<1>8. n + 1 \in E
  OBVIOUS
<1> HIDE DEF E
<1>9. Min(E) \in Nat
  BY <1>6, <1>7
<1>10. ASSUME NEW j \in K PROVE j < Min(E) <=> \A e \in F : v < e => j < e
  <2>1. j \in Nat /\ j < n + 1
    BY <1>1, <1>5
  <2>2. ASSUME j < Min(E), NEW e \in F, v < e PROVE j < e
    <3>1. e \in E /\ e \in Nat
      BY <1>3, <1>5, <2>2
    <3> QED BY <1>7, <1>9, <2>1, <2>2, <3>1
  <2>3. ASSUME \A e \in F : v < e => j < e PROVE j < Min(E)
    BY <1>3, <1>7, <2>1, <2>3
  <2> QED BY <2>2, <2>3
<1>11. Upto(K, n) = K
  BY <1>1, <1>5 DEF Upto
<1>12. WordsAt(src, v, n) = {j \in Upto(K, n) : v < j /\ \A e \in F : v < e => j < e}
  BY DEF WordsAt, K, F
<1>13. W = WordsAt(src, v, n)
  BY <1>4, <1>10, <1>11, <1>12
<1>14. W \in SUBSET Live(src) /\ W \in SUBSET Nat
  BY <1>1
<1>15. IsFiniteSet(W)
  <2> HIDE DEF W
  <2> QED BY <1>14, PlaceSets, FS_Subset
<1> QED BY <1>13, <1>14, <1>15 DEF E, W, WordsOf, EndsOf, OfKind

LEMMA VerseIs ==
  ASSUME NEW src \in Seq(Token), Placed(src, Len(src)), NEW v \in Kinds(src, {"v"})
  PROVE  VerseOf(src, v) = VerseAt(src, v, Len(src))
<1> DEFINE n == Len(src)
<1>1. v \in Nat \ {0} /\ v <= n /\ n \in Nat /\ v - 1 \in Nat
  BY PlaceSets
<1>2. v \in MarksAt(src, n)
  BY <1>1 DEF MarksAt, Upto
<1>3. BookAt(src, v - 1) # NoBook /\ ChapterAt(src, v - 1) # 0
  BY <1>2 DEF Placed
<1>4. \A S : S \in SUBSET Live(src) => {j \in S : j < v} = Upto(S, v - 1)
  <2> SUFFICES ASSUME NEW S \in SUBSET Live(src) PROVE {j \in S : j < v} = Upto(S, v - 1)
    OBVIOUS
  <2>1. \A j \in S : j \in Nat
    BY PlaceSets
  <2>2. \A j \in S : j < v <=> j <= v - 1
    BY <1>1, <2>1
  <2> QED BY <2>2 DEF Upto
<1>5. LastOf(src, {j \in OfKind(src, {"id"}) : LineStart(src, j) = j}, v).s = BookAt(src, v - 1)
  <2>1. {j \in OfKind(src, {"id"}) : LineStart(src, j) = j} = BookMarks(src)
    BY DEF OfKind, BookMarks
  <2>2. {j \in BookMarks(src) : j < v} = Upto(BookMarks(src), v - 1)
    BY <1>4, PlaceSets
  <2> QED BY <1>3, <2>1, <2>2 DEF LastOf, BookAt
<1>6. LastOf(src, ReadAt(src) \cap OfKind(src, {"c"}), v).n = ChapterAt(src, v - 1)
  <2>1. ReadAt(src) \cap OfKind(src, {"c"}) = Kinds(src, {"c"})
    BY PlaceSets DEF OfKind, Kinds
  <2>2. {j \in Kinds(src, {"c"}) : j < v} = Upto(Kinds(src, {"c"}), v - 1)
    BY <1>4, PlaceSets
  <2> QED BY <1>3, <2>1, <2>2 DEF LastOf, ChapterAt
<1>7. [k \in 1 .. Len(InOrder(WordsOf(src, v))) |-> src[InOrder(WordsOf(src, v))[k]].s] = SaidAt(src, v, n)
  <2> DEFINE W == WordsOf(src, v)
  <2>1. W = WordsAt(src, v, n) /\ W \in SUBSET Nat /\ IsFiniteSet(W)
    BY SaidIs
  <2> HIDE DEF W
  <2>2. Cardinality(W) \in Nat /\ InOrder(W) \in [1 .. Cardinality(W) -> W]
    BY <2>1, InOrderIs
  <2>3. Len(InOrder(W)) = Cardinality(W) /\ \A k \in 1 .. Cardinality(W) : InOrder(W)[k] \in W
    BY <2>2
  <2>4. SaidAt(src, v, n) = [k \in 1 .. Cardinality(W) |-> [j \in W |-> src[j].s][InOrder(W)[k]]]
    BY <2>1 DEF SaidAt, Arranged
  <2>5. [k \in 1 .. Cardinality(W) |-> [j \in W |-> src[j].s][InOrder(W)[k]]]
          = [k \in 1 .. Len(InOrder(W)) |-> src[InOrder(W)[k]].s]
    BY <2>3
  <2> QED BY <2>4, <2>5 DEF W
<1> QED BY <1>5, <1>6, <1>7 DEF VerseOf, VerseAt

LEMMA ParseReturns ==
  ASSUME NEW src \in Seq(Token), ~Parse(src).failed
  PROVE  Parse(src).out = Returned(src)
<1> DEFINE n == Len(src)
           M == MarksAt(src, n)
<1>1. Parse(src).out = OutAt(src, n) /\ Placed(src, n)
  BY ParseIs DEF StateIs
<1>2. n \in Nat
  OBVIOUS
<1>3. M = Kinds(src, {"v"})
  <2>1. \A j \in Kinds(src, {"v"}) : j \in 1 .. n
    BY PlaceSets
  <2> QED BY <2>1 DEF MarksAt, Upto
<1>4. ReadAt(src) \cap OfKind(src, {"v"}) = M
  BY <1>3, PlaceSets DEF OfKind, Kinds
<1>5. M \in SUBSET Nat /\ IsFiniteSet(M)
  BY <1>2, MarksFacts
<1>6. \A v \in M : VerseOf(src, v) = VerseAt(src, v, n)
  BY <1>1, <1>3, VerseIs
<1>7. OutAt(src, n) = [k \in 1 .. Cardinality(M) |-> [v \in M |-> VerseAt(src, v, n)][InOrder(M)[k]]]
  BY DEF OutAt, Arranged
<1> HIDE DEF M
<1>8. Cardinality(M) \in Nat /\ InOrder(M) \in [1 .. Cardinality(M) -> M]
  BY <1>5, InOrderIs
<1>9. Len(InOrder(M)) = Cardinality(M) /\ \A k \in 1 .. Cardinality(M) : InOrder(M)[k] \in M
  BY <1>8
<1>10. Returned(src) = [m \in 1 .. Len(InOrder(M)) |-> VerseOf(src, InOrder(M)[m])]
  BY <1>4 DEF Returned, MarksOf
<1>11. [k \in 1 .. Cardinality(M) |-> [v \in M |-> VerseAt(src, v, n)][InOrder(M)[k]]]
         = [m \in 1 .. Len(InOrder(M)) |-> VerseOf(src, InOrder(M)[m])]
  BY <1>6, <1>9
<1> QED BY <1>1, <1>7, <1>10, <1>11

\* In a well-formed file the text that the patterns remove is the notes.
OutOfNotes(src) == {i \in 1 .. Len(src) : src[i].t # "close" /\ ~\E a \in 1 .. i : NoteOf(src, a, i)}

LEMMA NotesAreRemoved ==
  ASSUME NEW src \in Seq(Token), WellFormed(src)
  PROVE  OutOfNotes(src) = Live(src)
<1> DEFINE n == Len(src)
<1>0. n \in Nat
  OBVIOUS
<1>1. ASSUME NEW i \in 1 .. n, InNote(src, i) PROVE \E a \in 1 .. i : NoteOf(src, a, i)
  <2>1. PICK j \in 1 .. i : src[j].t = "open" /\ \A m \in j .. i - 1 : src[m].t # "close"
    BY <1>1 DEF InNote
  <2>2. j \in 1 .. n
    BY <1>0
  <2>3. PICK b \in j .. n : Ends(src, j, b)
    BY <2>1, <2>2 DEF WellFormed
  <2>4. b \notin j .. i - 1
    BY <2>1, <2>3 DEF Ends
  <2>5. b \in i .. n
    BY <1>0, <2>2, <2>3, <2>4
  <2>6. \A m \in j .. i - 1 : ~Ends(src, j, m)
    BY <2>1 DEF Ends
  <2> QED BY <2>1, <2>3, <2>5, <2>6 DEF NoteOf
<1>2. ASSUME NEW i \in 1 .. n, NEW a \in 1 .. i, NoteOf(src, a, i) PROVE InNote(src, i)
  <2>1. src[a].t = "open" /\ \A m \in a .. i - 1 : ~Ends(src, a, m)
    BY <1>2 DEF NoteOf
  <2>2. PICK k \in i .. n : src[k].t = "close"
    BY <1>2 DEF NoteOf, Ends
  <2>3. a \in 1 .. n
    BY <1>0
  <2>4. PICK b \in a .. n : Ends(src, a, b) /\ \A m \in a .. b - 1 : src[m].t # "close"
    BY <2>1, <2>3 DEF WellFormed
  <2>5. b \notin a .. i - 1
    BY <2>1, <2>4
  <2>6. \A m \in a .. i - 1 : m \in a .. b - 1
    BY <1>0, <2>3, <2>4, <2>5
  <2> QED BY <2>1, <2>2, <2>4, <2>6 DEF InNote
<1> QED BY <1>1, <1>2 DEF OutOfNotes, Live, Stays

\* There, a heading or \id that is read begins its line.
LEMMA HeadingsBegin ==
  ASSUME NEW src \in Seq(Token), WellFormed(src), NEW i \in Live(src),
         NEW h \in UpToBreak(src, i), src[h].t \in {"id", "head"}
  PROVE  LineStart(src, i) = h
<1> DEFINE n == Len(src)
<1>1. n \in Nat /\ h \in 1 .. n /\ i \in 1 .. n /\ h <= i /\ h \in Live(src)
  BY DEF UpToBreak, Live
<1>2. \A j \in UpToBreak(src, i) : j \in Nat /\ j \in 1 .. n /\ \A m \in Live(src) : j <= m /\ m < i => src[m].t # "nl"
  BY DEF UpToBreak, Live
<1>3. ASSUME NEW j \in UpToBreak(src, i), j < h PROVE FALSE
  <2> DEFINE g == h - 1
  <2>1. g \in 1 .. n /\ j <= g /\ g < i
    BY <1>1, <1>2, <1>3
  <2>2. src[g].t = "nl"
    BY <1>1, <1>2, <1>3 DEF WellFormed
  <2>3. ASSUME InNote(src, g) PROVE FALSE
    <3>1. PICK a \in 1 .. g : /\ src[a].t = "open" /\ \A m \in a .. g - 1 : src[m].t # "close"
                              /\ \E k \in g .. n : src[k].t = "close"
      BY <2>3 DEF InNote
    <3>2. PICK k \in g .. n : src[k].t = "close"
      BY <3>1
    <3>3. k \in h .. n
      BY <1>1, <2>1, <2>2, <3>2
    <3>4. a \in 1 .. h /\ \A m \in a .. h - 1 : m \in a .. g - 1 \/ m = g
      BY <1>1, <2>1
    <3>5. \A m \in a .. h - 1 : src[m].t # "close"
      BY <2>2, <3>1, <3>4
    <3>6. InNote(src, h)
      BY <3>1, <3>2, <3>3, <3>4, <3>5 DEF InNote
    <3> QED BY <1>1, <3>6 DEF Live, Stays
  <2>4. g \in Live(src)
    BY <2>1, <2>2, <2>3 DEF Live, Stays
  <2> QED BY <1>2, <2>1, <2>2, <2>4
<1>4. UpToBreak(src, i) \in SUBSET Nat
  BY <1>2
<1>5. Min(UpToBreak(src, i)) \in UpToBreak(src, i) /\ Min(UpToBreak(src, i)) <= h
  BY <1>4, MinIs
<1>6. ~(Min(UpToBreak(src, i)) < h)
  BY <1>3, <1>5
<1>7. Min(UpToBreak(src, i)) \in Nat /\ h \in Nat
  BY <1>2, <1>5
<1> QED BY <1>5, <1>6, <1>7 DEF LineStart

LEMMA LinesAreRead ==
  ASSUME NEW src \in Seq(Token), WellFormed(src)
  PROVE  /\ ReadAt(src) = {i \in Live(src) : ~\E h \in OfKind(src, {"id", "head"}) :
                             h <= i /\ \A m \in Live(src) : h <= m /\ m < i => src[m].t # "nl"}
         /\ {j \in OfKind(src, {"id"}) : LineStart(src, j) = j} = OfKind(src, {"id"})
         /\ ReadAt(src) \cap OfKind(src, {"w", "id"}) = ReadAt(src) \cap OfKind(src, {"w"})
<1>0. \A i \in Live(src) : i \in Nat
  BY DEF Live
<1>1. ASSUME NEW i \in Live(src) PROVE UpToBreak(src, i) \in SUBSET Nat /\ i \in UpToBreak(src, i)
  BY <1>0 DEF UpToBreak
<1>2. ASSUME NEW i \in Live(src) PROVE LineStart(src, i) \in UpToBreak(src, i)
  BY <1>1, MinIs DEF LineStart
<1>3. ASSUME NEW i \in Live(src)
      PROVE  src[LineStart(src, i)].t \in {"id", "head"}
               <=> \E h \in OfKind(src, {"id", "head"}) :
                     h <= i /\ \A m \in Live(src) : h <= m /\ m < i => src[m].t # "nl"
  <2>1. ASSUME src[LineStart(src, i)].t \in {"id", "head"}
        PROVE  \E h \in OfKind(src, {"id", "head"}) :
                 h <= i /\ \A m \in Live(src) : h <= m /\ m < i => src[m].t # "nl"
    <3>1. PICK h \in UpToBreak(src, i) : h = LineStart(src, i)
      BY <1>2
    <3> QED BY <2>1, <3>1 DEF UpToBreak, OfKind
  <2>2. ASSUME NEW h \in OfKind(src, {"id", "head"}),
               h <= i, \A m \in Live(src) : h <= m /\ m < i => src[m].t # "nl"
        PROVE  src[LineStart(src, i)].t \in {"id", "head"}
    <3>1. h \in UpToBreak(src, i) /\ src[h].t \in {"id", "head"}
      BY <2>2 DEF UpToBreak, OfKind
    <3> QED BY <3>1, HeadingsBegin
  <2> QED BY <2>1, <2>2
<1>4. ASSUME NEW i \in OfKind(src, {"id"}) PROVE LineStart(src, i) = i
  <2>1. i \in Live(src) /\ src[i].t \in {"id", "head"}
    BY DEF OfKind
  <2> QED BY <1>1, <2>1, HeadingsBegin
<1>5. ASSUME NEW i \in ReadAt(src), src[i].t = "id" PROVE FALSE
  <2>1. i \in Live(src)
    BY DEF ReadAt
  <2>2. LineStart(src, i) = i
    BY <1>4, <1>5, <2>1 DEF OfKind
  <2> QED BY <1>5, <2>2 DEF ReadAt
<1>6. ReadAt(src) \cap OfKind(src, {"w", "id"}) = ReadAt(src) \cap OfKind(src, {"w"})
  BY <1>5 DEF OfKind
<1> QED BY <1>3, <1>4, <1>6 DEF ReadAt

\* Reference, with the places that it counts and those that it reads given.
ReadOn(src, plain) ==
  {i \in plain : ~\E h \in {k \in plain : src[k].t \in {"id", "head"}} :
                  h <= i /\ \A m \in plain : h <= m /\ m < i => src[m].t # "nl"}
SaysOn(src, plain, read) ==
  LET Of(T) == {i \in plain : src[i].t \in T}
      Following(i) == {j \in read \cap Of({"c", "v"}) : i < j} \cup {Len(src) + 1}
      Said(i) == {j \in read \cap Of({"w"}) : i < j /\ j < Min(Following(i))}
      marks == InOrder(read \cap Of({"v"}))
  IN  [m \in 1 .. Len(marks) |->
        [book    |-> src[Max({j \in Of({"id"}) : j < marks[m]})].s,
         chapter |-> src[Max({j \in read \cap Of({"c"}) : j < marks[m]})].n,
         verse   |-> src[marks[m]].n,
         text    |-> [n \in 1 .. Len(InOrder(Said(marks[m]))) |-> src[InOrder(Said(marks[m]))[n]].s]]]

LEMMA ReferenceIs ==
  ASSUME NEW src \in Seq(Token), WellFormed(src)
  PROVE  Reference(src) = Returned(src)
<1> DEFINE Following(i) == {j \in ReadAt(src) \cap OfKind(src, {"c", "v"}) : i < j} \cup {Len(src) + 1}
           Said(i) == {j \in ReadAt(src) \cap OfKind(src, {"w"}) : i < j /\ j < Min(Following(i))}
           marks == InOrder(ReadAt(src) \cap OfKind(src, {"v"}))
<1>1. Reference(src) =
        [m \in 1 .. Len(marks) |->
          [book    |-> src[Max({j \in OfKind(src, {"id"}) : j < marks[m]})].s,
           chapter |-> src[Max({j \in ReadAt(src) \cap OfKind(src, {"c"}) : j < marks[m]})].n,
           verse   |-> src[marks[m]].n,
           text    |-> [k \in 1 .. Len(InOrder(Said(marks[m]))) |-> src[InOrder(Said(marks[m]))[k]].s]]]
  <2>1. Reference(src) = SaysOn(src, OutOfNotes(src), ReadOn(src, OutOfNotes(src)))
    BY DEF Reference, SaysOn, ReadOn, OutOfNotes
  <2>2. OutOfNotes(src) = Live(src)
    BY NotesAreRemoved
  <2>3. ReadOn(src, Live(src)) = ReadAt(src)
    BY LinesAreRead DEF ReadOn, OfKind
  <2>4. Reference(src) = SaysOn(src, Live(src), ReadAt(src))
    BY <2>1, <2>2, <2>3
  <2> QED BY <2>4 DEF SaysOn, OfKind
<1>2. \A i : Said(i) = WordsOf(src, i)
  BY LinesAreRead DEF WordsOf, EndsOf
<1>3. marks = MarksOf(src)
  BY DEF MarksOf
<1> HIDE DEF Said, marks
<1>4. Reference(src) =
        [m \in 1 .. Len(MarksOf(src)) |->
          [book    |-> src[Max({j \in OfKind(src, {"id"}) : j < MarksOf(src)[m]})].s,
           chapter |-> src[Max({j \in ReadAt(src) \cap OfKind(src, {"c"}) : j < MarksOf(src)[m]})].n,
           verse   |-> src[MarksOf(src)[m]].n,
           text    |-> [k \in 1 .. Len(InOrder(WordsOf(src, MarksOf(src)[m]))) |->
                          src[InOrder(WordsOf(src, MarksOf(src)[m]))[k]].s]]]
  BY <1>1, <1>2, <1>3
<1> QED BY <1>4, LinesAreRead DEF Returned, VerseOf, LastOf

\* What Parse returns is what the file says, if it is well formed.
LEMMA ParseIsReference ==
  ASSUME NEW src \in Seq(Token), WellFormed(src), ~Parse(src).failed
  PROVE  Parse(src).out = Reference(src)
BY ParseReturns, ReferenceIs

-----------------------------------------------------------------------------
(* What an import keeps of the files of an archive. *)

\* A sequence of sequences is flattened to one with the same elements.
LEMMA FlattenType ==
  ASSUME NEW S, NEW seqs \in Seq(Seq(S))
  PROVE  FlattenSeq(seqs) \in Seq(S)
<1> DEFINE n == Len(seqs)
           T == Seq(S)
           F(f) == [i \in 1 .. n |-> IF i = 1 THEN seqs[i] ELSE f[i - 1] \o seqs[i]]
           step == [i \in 1 .. n |-> [q \in T |-> q \o seqs[i]]]
           flat == CHOOSE f : f = F(f)
<1>1. n \in Nat /\ seqs \in [1 .. n -> T]
  OBVIOUS
<1>2. CASE n = 0
  <2>1. FlattenSeq(seqs) = seqs /\ seqs = <<>>
    BY <1>2 DEF FlattenSeq
  <2> QED BY <2>1
<1>3. CASE n # 0
  <2>1. step \in Steps(n, T)
    BY <1>1 DEF Steps
  <2>2. <<>> \in T
    OBVIOUS
  <2>3. PICK f \in [0 .. n -> T] : f[0] = <<>> /\ \A i \in 1 .. n : f[i] = step[i][f[i - 1]]
    <3> HIDE DEF step, n, F, flat, T
    <3>1. Folds(n, T, <<>>, step) # {}
      BY <1>1, <2>1, <2>2, FoldExists
    <3> QED BY <3>1 DEF Folds
  <2>4. ASSUME NEW i \in 1 .. n PROVE f[i] = f[i - 1] \o seqs[i] /\ f[i - 1] \in T
    <3>1. f[i] = step[i][f[i - 1]] /\ f[i - 1] \in T
      <4> HIDE DEF T, step, n
      <4> QED BY <1>1, <2>3
    <3> QED BY <3>1
  <2>5. f[1] = seqs[1]
    <3>1. 1 \in 1 .. n /\ 1 - 1 = 0
      <4> HIDE DEF n
      <4> QED BY <1>1, <1>3
    <3>2. seqs[1] \in Seq(S)
      BY <1>1, <3>1
    <3>3. f[1] = f[0] \o seqs[1]
      BY <2>4, <3>1
    <3>4. f[0] = <<>>
      BY <2>3
    <3> QED BY <3>2, <3>3, <3>4, ConcatEmptySeq
  <2> DEFINE g == [i \in 1 .. n |-> f[i]]
  <2>6. g = F(g)
    <3>1. ASSUME NEW i \in 1 .. n PROVE g[i] = IF i = 1 THEN seqs[i] ELSE g[i - 1] \o seqs[i]
      <4>1. i # 1 => i - 1 \in 1 .. n
        BY <1>1
      <4> QED BY <2>4, <2>5, <4>1
    <3> QED BY <3>1
  <2>7. flat = F(flat)
    BY <2>6
  <2> HIDE DEF flat
  <2>8. \A i \in 0 .. n : i \in {m \in 0 .. n : m = 0 \/ flat[m] \in T}
    <3> DEFINE P == {m \in 0 .. n : m = 0 \/ flat[m] \in T}
    <3>1. 0 \in P
      BY <1>1
    <3>2. ASSUME NEW i \in 1 .. n, i - 1 \in P PROVE i \in P
      <4>1. flat[i] = IF i = 1 THEN seqs[i] ELSE flat[i - 1] \o seqs[i]
        BY <2>7
      <4>2. seqs[i] \in T /\ (i # 1 => flat[i - 1] \in T)
        BY <1>1, <3>2
      <4>3. flat[i] \in T
        BY <4>1, <4>2
      <4> QED BY <4>3
    <3> HIDE DEF P
    <3>3. \A i \in 0 .. n : i \in P
      BY <1>1, <3>1, <3>2, UpTo
    <3> QED BY <3>3 DEF P
  <2>9. FlattenSeq(seqs) = flat[n]
    BY <1>3 DEF FlattenSeq, flat
  <2> QED BY <1>1, <1>3, <2>8, <2>9
<1> QED BY <1>2, <1>3

LEMMA AllVersesType == ASSUME NEW a \in Archives PROVE AllVerses(a) \in Seq(VerseRec)
<1>1. a \in Seq(Seq(Token))
  BY IngestAssumption DEF IngestAssumption, Archives
<1> DEFINE outs == [f \in DOMAIN a |-> Parsed(a)[f].out]
<1>2. ASSUME NEW f \in DOMAIN a PROVE outs[f] \in Seq(VerseRec)
  <2>1. a[f] \in Seq(Token)
    BY <1>1
  <2>2. Parse(a[f]) \in ParserState
    BY <2>1, ParseType
  <2> QED BY <2>2 DEF Parsed, ParserState
<1>3. outs \in Seq(Seq(VerseRec))
  <2> HIDE DEF outs
  <2>1. DOMAIN a = 1 .. Len(a) /\ Len(a) \in Nat
    BY <1>1
  <2>2. outs = [f \in 1 .. Len(a) |-> outs[f]]
    BY <2>1 DEF outs
  <2> QED BY <1>2, <2>1, <2>2
<1> QED BY <1>3, FlattenType DEF AllVerses

\* The verses that an import keeps: finitely many, and one for each reference.
LEMMA KeptType ==
  ASSUME NEW a \in Archives
  PROVE  /\ Kept[a] \subseteq VerseRec /\ IsFiniteSet(Kept[a])
         /\ \A u, v \in Kept[a] : RefOf(u) = RefOf(v) => u = v
<1> DEFINE vs == AllVerses(a)
           D == {i \in DOMAIN vs : IsKept(vs, i)}
           f == [i \in D |-> vs[i]]
<1>1. vs \in Seq(VerseRec)
  BY AllVersesType
<1>2. Kept[a] = {vs[i] : i \in D}
  BY DEF Kept, KeptOf
<1> HIDE DEF vs
<1>3. D \in SUBSET (1 .. Len(vs)) /\ Len(vs) \in Nat
  BY <1>1
<1>4. IsFiniteSet(D)
  <2> HIDE DEF D
  <2>1. IsFiniteSet(1 .. Len(vs))
    BY <1>3, FS_Interval
  <2> QED BY <1>3, <2>1, FS_Subset
<1>5. IsFiniteSet(Kept[a])
  <2>1. f \in [D -> Kept[a]] /\ \A v \in Kept[a] : \E i \in D : f[i] = v
    BY <1>2
  <2> HIDE DEF f, D
  <2> QED BY <1>4, <2>1, ImageFinite
<1>6. ASSUME NEW i \in D, NEW k \in D, RefOf(vs[i]) = RefOf(vs[k]), i < k PROVE FALSE
  <2>1. i \in 1 .. k - 1
    BY <1>3, <1>6
  <2> QED BY <1>6, <2>1 DEF IsKept
<1>7. ASSUME NEW i \in D, NEW k \in D, RefOf(vs[i]) = RefOf(vs[k]) PROVE i = k
  <2>1. i \in Nat /\ k \in Nat
    BY <1>3
  <2>2. ~(i < k) /\ ~(k < i)
    BY <1>6, <1>7
  <2> QED BY <2>1, <2>2
<1> QED BY <1>1, <1>2, <1>5, <1>7

\* Of each reference of a known book, the first verse that has text.
LEMMA FirstIsKept ==
  ASSUME NEW a \in WellMade, ~Refused(a)
  PROVE  Kept[a] = ReadingText[a]
<1> DEFINE vs == AllVerses(a)
           With(r) == {i \in DOMAIN vs : RefOf(vs[i]) = r /\ vs[i].text # <<>>}
           refs == {RefOf(vs[i]) : i \in DOMAIN vs}
<1>0. a \in Archives /\ \A f \in DOMAIN a : WellFormed(a[f])
  BY DEF WellMade
<1>1. a \in Seq(Seq(Token))
  BY <1>0, IngestAssumption DEF IngestAssumption, Archives
<1>2. FileVerses(a) = vs
  <2>1. ASSUME NEW f \in DOMAIN a PROVE Parsed(a)[f].out = Reference(a[f])
    <3>1. a[f] \in Seq(Token)
      BY <1>1
    <3>2. ~Parse(a[f]).failed
      BY DEF Refused, Parsed
    <3> QED BY <1>0, <3>1, <3>2, ParseIsReference DEF Parsed
  <2>2. [f \in DOMAIN a |-> Reference(a[f])] = [f \in DOMAIN a |-> Parsed(a)[f].out]
    BY <2>1
  <2> QED BY <2>2 DEF FileVerses, AllVerses
<1>3. ReadingText[a] = {vs[Min(With(r))] : r \in {q \in refs : q[1] \in KnownBooks /\ With(q) # {}}}
  BY <1>0, <1>2 DEF TextIn, ReadingText
<1>4. Kept[a] = {vs[i] : i \in {k \in DOMAIN vs : IsKept(vs, k)}}
  BY <1>0 DEF Kept, KeptOf
<1>5. vs \in Seq(VerseRec)
  BY <1>0, AllVersesType
<1> HIDE DEF vs
<1>6. (\A i \in DOMAIN vs : i \in 1 .. Len(vs)) /\ Len(vs) \in Nat
  BY <1>5
<1>7. \A r : With(r) \in SUBSET Nat
  BY <1>6
<1>8. \A i : RefOf(vs[i])[1] = vs[i].book
  BY DEF RefOf
<1>9. ASSUME NEW i \in DOMAIN vs, IsKept(vs, i)
      PROVE  \E r \in refs : r[1] \in KnownBooks /\ With(r) # {} /\ i = Min(With(r))
  <2> DEFINE r == RefOf(vs[i])
             m == Min(With(r))
  <2>1. r[1] \in KnownBooks /\ i \in With(r) /\ r \in refs
    BY <1>8, <1>9 DEF IsKept
  <2>2. m \in With(r) /\ m <= i
    <3> HIDE DEF With, r
    <3> QED BY <1>7, <2>1, MinIs
  <2>3. m \in DOMAIN vs /\ RefOf(vs[m]) = r /\ vs[m].text # <<>>
    BY <2>2
  <2> HIDE DEF m
  <2>4. ~(m \in 1 .. i - 1)
    BY <1>9, <2>3 DEF IsKept
  <2>5. m = i
    BY <1>6, <2>2, <2>3, <2>4
  <2> QED BY <2>1, <2>5 DEF m
<1>10. ASSUME NEW r \in refs, r[1] \in KnownBooks, With(r) # {}
       PROVE  Min(With(r)) \in DOMAIN vs /\ IsKept(vs, Min(With(r)))
  <2> DEFINE i == Min(With(r))
  <2>1. i \in With(r) /\ \A k \in With(r) : i <= k
    <3> HIDE DEF With
    <3> QED BY <1>7, <1>10, MinIs
  <2>2. i \in DOMAIN vs /\ RefOf(vs[i]) = r /\ vs[i].text # <<>>
    BY <2>1
  <2> HIDE DEF i
  <2>3. ASSUME NEW k \in 1 .. i - 1, RefOf(vs[k]) = RefOf(vs[i]) PROVE vs[k].text = <<>>
    <3>1. k \in DOMAIN vs /\ ~(i <= k)
      BY <1>5, <1>6, <2>2
    <3> QED BY <2>1, <2>2, <2>3, <3>1
  <2>4. vs[i].book \in KnownBooks
    BY <1>8, <1>10, <2>2
  <2> QED BY <2>2, <2>3, <2>4 DEF IsKept, i
<1> HIDE DEF With, refs
<1> QED BY <1>3, <1>4, <1>9, <1>10

-----------------------------------------------------------------------------
(* The reader: every text it can meet, and what it makes of a chapter. *)

PossibleTexts == {{}} \cup {Kept[a] : a \in Archives}

LEMMA PossibleTextType ==
  ASSUME NEW text \in PossibleTexts
  PROVE  /\ text \subseteq VerseRec /\ IsFiniteSet(text)
         /\ \A u, v \in text : RefOf(u) = RefOf(v) => u = v
<1>1. CASE text = {}
  BY <1>1, FS_EmptySet
<1>2. CASE \E a \in Archives : text = Kept[a]
  BY <1>2, KeptType
<1> QED BY <1>1, <1>2 DEF PossibleTexts

\* ORDER BY verse names every verse of the chapter, each once, by rising numbers.
LEMMA ByVerseOrders ==
  ASSUME NEW text \in PossibleTexts, NEW b, NEW n, NEW vs, vs = ChapterOf(text, b, n)
  PROVE  /\ Cardinality(vs) \in Nat /\ (Cardinality(vs) = 0 <=> vs = {})
         /\ ByVerse(vs) \in [1 .. Cardinality(vs) -> vs]
         /\ \A i, k \in DOMAIN ByVerse(vs) : i < k => ByVerse(vs)[i].verse < ByVerse(vs)[k].verse
         /\ Range(ByVerse(vs)) = vs
         /\ \A v \in vs : v.verse \in Nat
<1> DEFINE key == [v \in vs |-> v.verse]
<1>1. vs \in SUBSET text /\ \A v \in vs : v \in VerseRec /\ v.book = b /\ v.chapter = n
  BY PossibleTextType DEF ChapterOf
<1>2. IsFiniteSet(vs) /\ Cardinality(vs) \in Nat /\ (Cardinality(vs) = 0 <=> vs = {})
  BY <1>1, PossibleTextType, FS_Subset, FS_CardinalityType, FS_EmptySet
<1>3. \A v \in vs : v.verse \in Nat
  BY <1>1 DEF VerseRec
<1>4. key \in [vs -> Int] /\ \A v \in vs : key[v] = v.verse
  BY <1>3
<1>5. \A u, v \in vs : key[u] = key[v] => u = v
  <2> SUFFICES ASSUME NEW u \in vs, NEW v \in vs, u.verse = v.verse PROVE u = v
    BY <1>4
  <2>1. RefOf(u) = RefOf(v)
    BY <1>1 DEF RefOf
  <2> QED BY <1>1, <2>1, PossibleTextType
<1> HIDE DEF key
<1>6. PICK s \in [1 .. Cardinality(vs) -> vs] : \A i, k \in DOMAIN s : i < k => key[s[i]] < key[s[k]]
  BY <1>2, <1>4, <1>5, Sorted
<1>7. \A i, k \in DOMAIN s : i < k => s[i].verse < s[k].verse
  BY <1>4, <1>6
<1>8. /\ ByVerse(vs) \in [1 .. Cardinality(vs) -> vs]
      /\ \A i, k \in DOMAIN ByVerse(vs) : i < k => ByVerse(vs)[i].verse < ByVerse(vs)[k].verse
  BY <1>7 DEF ByVerse
<1> DEFINE o == ByVerse(vs)
<1>9. \A i, k \in DOMAIN o : o[i] = o[k] => i = k
  <2> SUFFICES ASSUME NEW i \in DOMAIN o, NEW k \in DOMAIN o, o[i] = o[k] PROVE i = k
    OBVIOUS
  <2>1. i \in Nat /\ k \in Nat /\ o[i].verse \in Nat
    BY <1>2, <1>3, <1>8
  <2>2. ~(i < k) /\ ~(k < i)
    BY <1>8, <2>1
  <2> QED BY <2>1, <2>2
<1>10. Range(o) = vs
  <2> HIDE DEF o
  <2> QED BY <1>2, <1>8, <1>9, OntoItself DEF o
<1> QED BY <1>2, <1>3, <1>8, <1>10

ChapterAsks == [op : {"chapter"}, code : Codes, book : KnownBooks, chapter : Chapters, parallel : Codes \cup {NoCode}]
BookAsks == [op : {"books"}, code : Codes]
ListAsks == [op : {"translations"}, lang : Langs \cup {NoLang}]
Searching == {"reference", "reference verse", "bible", "egw", "beliefs", "hymns", "video", "groups"}

\* Since a request came, what is committed of a translation has been witnessed.
TextsOK == \A c \in Codes : TextAt(c, verses) \in PossibleTexts
SeenOK ==
  /\ seen \in [Codes -> SUBSET PossibleTexts]
  /\ pc # "idle" => \A c \in Codes : TextAt(c, verses) \in seen[c]

\* The verses that were read are a chapter of a text that was committed.
RowsRead == rows # <<>> /\ \E text \in seen[ask.code] : rows = ByVerse(ChapterOf(text, ask.book, Int32(ask.chapter)))
AskOK ==
  /\ pc = "translation" => ask \in ChapterAsks \cup BookAsks
  /\ pc \in {"verses", "name", "parallel", "parallel verses"} => ask \in ChapterAsks /\ tr.code = ask.code
  /\ pc = "books" => ask \in BookAsks /\ tr.code = ask.code
  /\ pc = "list" => ask \in ListAsks
  /\ pc \in Searching => ask \in SearchAsks
  /\ pc = "answered" => ask \in Asks \cup SearchAsks
Served200 == ask.op = "chapter" /\ answer.status = 200
FoundOK ==
  /\ pc \in {"name", "parallel", "parallel verses"} => RowsRead
  /\ pc \in {"parallel", "parallel verses"} => ask.parallel \in Codes
  /\ pc = "parallel verses" => ptr.code = ask.parallel
  /\ pc # "answered" => answer = NoAnswer
  /\ ask.op = "translations" /\ answer.status = 200 => answer.codes \subseteq Codes
  /\ Served200 /\ answer.parallel # NoCode => ask.parallel \in Codes

\* What ChapterOfOneImport and ParallelIsSameVerse say, of every number: the
\* chapter of the remainder that the queries get is served.
ServedOfOneImport ==
  /\ Served200 =>
       \E text \in seen[ask.code] :
         /\ ChapterOf(text, ask.book, Int32(ask.chapter)) # {}
         /\ LinesOf(Range(answer.lines)) = LinesOf(ChapterOf(text, ask.book, Int32(ask.chapter)))
         /\ \A i, k \in DOMAIN answer.lines : i < k => answer.lines[i].verse < answer.lines[k].verse
  /\ ask.op = "chapter" /\ answer = NotFound("chapter") =>
       \E text \in seen[ask.code] : ChapterOf(text, ask.book, Int32(ask.chapter)) = {}
ServedSameVerse ==
  Served200 /\ answer.parallel # NoCode =>
    \E text \in seen[ask.parallel] : \A i \in DOMAIN answer.lines :
      LET line == answer.lines[i]
          other == {v \in ChapterOf(text, ask.book, Int32(ask.chapter)) : v.verse = line.verse}
      IN  IF other = {} THEN line.parallel = NoText ELSE \E v \in other : line.parallel = v.text

ReaderPromises == ServedOfOneImport /\ ServedSameVerse /\ OfferedCanBeOpened
ReadOK == SeenOK /\ AskOK /\ FoundOK /\ ReaderPromises
ReaderInv == IngestInv /\ TextsOK /\ ReadOK

\* An answer that gives nothing promises nothing.
GivesNothing == ask.op = "search" \/ (answer.status # 200 /\ answer # NotFound("chapter"))

LEMMA NothingGiven == (GivesNothing => ReaderPromises) /\ (GivesNothing' => ReaderPromises')
<1>1. NotFound("chapter").status = 404
  BY DEF NotFound
<1> QED
  BY <1>1 DEF GivesNothing, ReaderPromises, ServedOfOneImport, ServedSameVerse, OfferedCanBeOpened, Served200

LEMMA ReaderInit == Init => ReaderInv
<1> SUFFICES ASSUME Init PROVE ReaderInv
  OBVIOUS
<1>1. IngestInv
  BY IngestInitInv DEF Init
<1>2. TextsOK
  BY DEF Init, IngestInit, TextsOK, TextAt, PossibleTexts
<1>3. pc = "idle" /\ answer = NoAnswer /\ seen = [c \in Codes |-> {}]
  BY DEF Init, ReadInit
<1>4. SeenOK /\ AskOK /\ FoundOK
  BY <1>3 DEF SeenOK, AskOK, FoundOK, Searching, NoAnswer, Served200
<1>5. ReaderPromises
  BY <1>3, NothingGiven DEF NoAnswer, GivesNothing, NotFound
<1> QED BY <1>1, <1>2, <1>4, <1>5 DEF ReaderInv, ReadOK

LEMMA TextsStep == IngestInv /\ TextsOK /\ [Next]_vars => TextsOK'
<1> SUFFICES ASSUME IngestInv, TextsOK, [Next]_vars PROVE TextsOK'
  OBVIOUS
<1>1. CASE verses' = verses
  BY <1>1 DEF TextsOK
<1>2. ASSUME NEW j \in Jobs, Commit(j) PROVE TextsOK'
  <2>1. job[j].code \in Codes /\ job[j].archive \in Archives
    BY <1>2, CommitEffect DEF InTxJob
  <2>2. /\ TextAt(job[j].code, verses') = Kept[job[j].archive]
        /\ \A c \in Codes \ {job[j].code} : TextAt(c, verses') = TextAt(c, verses)
    BY <1>2, CommitEffect
  <2>3. ASSUME NEW c \in Codes PROVE TextAt(c, verses') \in PossibleTexts
    BY <2>1, <2>2 DEF TextsOK, PossibleTexts
  <2> QED BY <2>3 DEF TextsOK
<1>3. ASSUME NEW j \in Jobs, Import(j) PROVE Commit(j) \/ verses' = verses
  BY <1>3 DEF Import, Prepare, UpsertSource, UpsertTranslation, DeleteVerses, CopyVerses, Exit
<1> QED BY <1>1, <1>2, <1>3 DEF Next, IngestNext, vars, bibleVars, ingestVars

\* Wherever a text changes, the row of its translation does: seen records it.
LEMMA ImportsAreSeen ==
  ASSUME IngestInv, TextsOK, SeenOK, IngestNext, Witness, TextsOK', pc' = pc
  PROVE  SeenOK' /\ \A c \in Codes : seen[c] \subseteq seen'[c]
<1>1. \A c \in Codes : seen'[c] \in {seen[c], seen[c] \cup {TextAt(c, verses')}}
  BY DEF Witness
<1>2. seen' \in [Codes -> SUBSET PossibleTexts]
  <2>1. ASSUME NEW c \in Codes PROVE seen'[c] \in SUBSET PossibleTexts
    BY <1>1 DEF SeenOK, TextsOK
  <2>2. seen' = [c \in Codes |-> seen'[c]]
    BY DEF Witness
  <2> QED BY <2>1, <2>2
<1>3. ASSUME NEW c \in Codes, pc # "idle" PROVE TextAt(c, verses') \in seen'[c]
  <2>1. PICK j \in Jobs : Import(j)
    BY DEF IngestNext
  <2>2. CASE ~Commit(j)
    <3>1. verses' = verses
      BY <2>1, <2>2 DEF Import, Prepare, UpsertSource, UpsertTranslation, DeleteVerses, CopyVerses, Exit
    <3>2. TextAt(c, verses') \in seen[c]
      BY <1>3, <3>1 DEF SeenOK
    <3> QED BY <1>1, <3>2
  <2>3. CASE Commit(j)
    <3>1. CASE c = job[j].code
      <4>1. trans'[c] = Upserted(j) /\ Upserted(j) \in Translation
        BY <2>3, <3>1, CommitEffect DEF IngestInv, TablesOK
      <4>2. trans[c] \in Translation => Upserted(j).version = trans[c].version + 1
        <5>1. NoRow \notin Translation
          BY IngestAssumption DEF IngestAssumption, Translation, Source
        <5> QED BY <3>1, <5>1 DEF Upserted
      <4>3. trans'[c] # trans[c]
        BY <4>1, <4>2 DEF Translation
      <4> QED BY <1>3, <4>3 DEF Witness
    <3>2. CASE c # job[j].code
      <4>1. TextAt(c, verses') = TextAt(c, verses)
        BY <2>3, <3>2, CommitEffect
      <4>2. TextAt(c, verses') \in seen[c]
        BY <1>3, <4>1 DEF SeenOK
      <4> QED BY <1>1, <4>2
    <3> QED BY <3>1, <3>2
  <2> QED BY <2>2, <2>3
<1> QED BY <1>1, <1>2, <1>3 DEF SeenOK

\* What was true of the texts that were seen stays true of more of them.
LEMMA SeenGrows ==
  ASSUME AskOK, FoundOK, ReaderPromises, UNCHANGED <<pc, ask, tr, rows, name, ptr, answer>>,
         \A c \in Codes : seen[c] \subseteq seen'[c]
  PROVE  AskOK' /\ FoundOK' /\ ReaderPromises'
<1>1. AskOK'
  BY DEF AskOK
<1>2. pc \in {"name", "parallel", "parallel verses"} => RowsRead'
  BY DEF FoundOK, RowsRead, AskOK, ChapterAsks
<1>3. FoundOK'
  BY <1>2 DEF FoundOK, Served200
<1> SUFFICES ReaderPromises'
  BY <1>1, <1>3
<1>4. CASE pc # "answered"
  <2>1. answer'.status = 0
    <3>1. answer = NoAnswer
      BY <1>4 DEF FoundOK
    <3>2. answer' = answer /\ NoAnswer.status = 0
      BY DEF NoAnswer
    <3> QED BY <3>1, <3>2
  <2>2. GivesNothing'
    BY <2>1 DEF GivesNothing, NotFound
  <2> QED BY <2>2, NothingGiven
<1>5. CASE pc = "answered"
  <2>1. ask \in ChapterAsks \cup BookAsks \cup ListAsks \cup SearchAsks
    BY <1>5 DEF AskOK, Asks, ChapterAsks, BookAsks, ListAsks
  <2>2. CASE ask.op = "search"
    BY <2>2, NothingGiven DEF GivesNothing
  <2>3. CASE ask \in ChapterAsks
    <3>1. ask.op = "chapter" /\ ask.code \in Codes /\ ask.parallel \in Codes \cup {NoCode}
      BY <2>3 DEF ChapterAsks
    <3>2. ServedOfOneImport'
      BY <3>1 DEF ReaderPromises, ServedOfOneImport, Served200
    <3>3. ServedSameVerse'
      <4>1. Served200 /\ answer.parallel # NoCode => seen[ask.parallel] \subseteq seen'[ask.parallel]
        BY DEF FoundOK
      <4> QED BY <4>1 DEF ReaderPromises, ServedSameVerse, Served200
    <3>4. OfferedCanBeOpened'
      BY <3>1 DEF OfferedCanBeOpened
    <3> QED BY <3>2, <3>3, <3>4 DEF ReaderPromises
  <2>4. CASE ask \in BookAsks
    <3>1. ask.op = "books" /\ ask.code \in Codes
      BY <2>4 DEF BookAsks
    <3>2. ServedOfOneImport' /\ ServedSameVerse'
      BY <3>1 DEF ServedOfOneImport, ServedSameVerse, Served200
    <3>3. OfferedCanBeOpened'
      BY <3>1 DEF ReaderPromises, OfferedCanBeOpened
    <3> QED BY <3>2, <3>3 DEF ReaderPromises
  <2>5. CASE ask \in ListAsks
    <3>1. ask.op = "translations"
      BY <2>5 DEF ListAsks
    <3>2. ServedOfOneImport' /\ ServedSameVerse'
      BY <3>1 DEF ServedOfOneImport, ServedSameVerse, Served200
    <3>3. OfferedCanBeOpened'
      <4>1. answer.status = 200 => \A c \in answer.codes : seen[c] \subseteq seen'[c]
        BY <3>1 DEF FoundOK
      <4>2. answer.status = 200 => \A c \in answer.codes : \E text \in seen[c] : text # {}
        BY <3>1 DEF ReaderPromises, OfferedCanBeOpened
      <4> QED BY <3>1, <4>1, <4>2 DEF OfferedCanBeOpened
    <3> QED BY <3>2, <3>3 DEF ReaderPromises
  <2> QED BY <2>1, <2>2, <2>3, <2>4, <2>5, SearchAssumption DEF SearchAssumption
<1> QED BY <1>4, <1>5

\* An answer ends the request; the texts that were seen do not change.
LEMMA AnswerStep ==
  ASSUME ReadOK, pc # "idle", ask \in Asks \cup SearchAsks, UNCHANGED verses,
         NEW a, Answer(a), ReaderPromises',
         a.status = 200 => /\ ask.op = "translations" => a.codes \subseteq Codes
                           /\ ask.op = "chapter" /\ a.parallel # NoCode => ask.parallel \in Codes
  PROVE  ReadOK'
<1>1. pc' = "answered" /\ ask' = ask /\ seen' = seen /\ answer' = a
  BY DEF Answer
<1>2. SeenOK'
  BY <1>1 DEF ReadOK, SeenOK
<1>3. AskOK'
  BY <1>1 DEF AskOK, Searching
<1>4. FoundOK'
  BY <1>1 DEF FoundOK, Served200
<1> QED BY <1>2, <1>3, <1>4 DEF ReadOK

\* An answer that gives nothing is always possible.
LEMMA AnswerNothing ==
  ASSUME ReadOK, pc # "idle", ask \in Asks \cup SearchAsks, UNCHANGED verses,
         NEW a, Answer(a), ask.op = "search" \/ (a.status # 200 /\ a # NotFound("chapter"))
  PROVE  ReadOK'
<1>1. GivesNothing'
  BY DEF Answer, GivesNothing
<1> QED BY <1>1, NothingGiven, AnswerStep

\* A step to the next statement of a request keeps what was answered: nothing.
LEMMA NextStatement ==
  ASSUME ReadOK, pc \notin {"idle", "answered"}, UNCHANGED <<ask, answer, seen, verses>>,
         pc' # "answered", AskOK', FoundOK'
  PROVE  ReadOK'
<1>1. SeenOK'
  BY DEF ReadOK, SeenOK
<1>2. answer' = NoAnswer
  BY DEF FoundOK
<1>3. GivesNothing'
  BY <1>2 DEF GivesNothing, NoAnswer, NotFound
<1> QED BY <1>1, <1>3, NothingGiven DEF ReadOK

LEMMA AskKinds ==
  /\ \A a \in ChapterAsks : a.op = "chapter" /\ a.code \in Codes /\ a.parallel \in Codes \cup {NoCode} /\ a \in Asks
  /\ \A a \in BookAsks : a.op = "books" /\ a.code \in Codes /\ a \in Asks
  /\ \A a \in ListAsks : a.op = "translations" /\ a \in Asks
  /\ \A a \in SearchAsks : a.op = "search"
  /\ \A a \in Asks : a \in ChapterAsks \cup BookAsks \cup ListAsks
BY SearchAssumption DEF SearchAssumption, Asks, ChapterAsks, BookAsks, ListAsks

LEMMA AskReadStep == ASSUME ReaderInv, Ask, UNCHANGED ingestVars PROVE ReadOK'
<1>1. PICK a \in Asks : Request(a) /\ pc' = IF a.op = "translations" THEN "list" ELSE "translation"
  BY DEF Ask
<1>2. ask' = a /\ answer' = NoAnswer /\ seen' = [c \in Codes |-> {TextAt(c, verses)}] /\ verses' = verses
  BY <1>1 DEF Request, ingestVars
<1>3. SeenOK'
  BY <1>2 DEF SeenOK, ReaderInv, TextsOK
<1>4. AskOK'
  BY <1>1, <1>2, AskKinds DEF AskOK, Searching
<1>5. GivesNothing'
  BY <1>2 DEF GivesNothing, NoAnswer, NotFound
<1>6. FoundOK'
  BY <1>1, <1>2 DEF FoundOK, Served200, NoAnswer
<1> QED BY <1>3, <1>4, <1>5, <1>6, NothingGiven DEF ReadOK

LEMMA FindTranslationStep == ASSUME ReaderInv, FindTranslation, UNCHANGED ingestVars PROVE ReadOK'
<1>1. /\ ReadOK /\ pc = "translation" /\ verses' = verses
      /\ ask \in ChapterAsks \cup BookAsks /\ ask \in Asks
  BY AskKinds DEF ReaderInv, ReadOK, FindTranslation, AskOK, ingestVars
<1> DEFINE t == GetTranslation(ask.code)
<1>2. CASE t = NoRow
  <2>1. Answer(NotFound("translation"))
    BY <1>2 DEF FindTranslation
  <2>2. NotFound("translation").status # 200 /\ NotFound("translation") # NotFound("chapter")
    BY DEF NotFound
  <2> HIDE DEF t
  <2> QED BY <1>1, <2>1, <2>2, AnswerNothing
<1>3. CASE t # NoRow
  <2>1. t.code = ask.code
    BY <1>3 DEF GetTranslation
  <2>2. /\ tr' = t /\ pc' = IF ask.op = "chapter" THEN "verses" ELSE "books"
        /\ UNCHANGED <<ask, rows, name, ptr, answer, seen>>
    BY <1>3 DEF FindTranslation
  <2> HIDE DEF t
  <2>3. AskOK'
    BY <1>1, <2>1, <2>2, AskKinds DEF AskOK, Searching
  <2>4. FoundOK'
    BY <1>1, <2>2 DEF FoundOK, ReadOK, Served200, NoAnswer
  <2> QED BY <1>1, <2>2, <2>3, <2>4, NextStatement
<1> QED BY <1>2, <1>3

\* The text that a statement reads is one that was seen.
LEMMA ReadsSeenText ==
  ASSUME ReaderInv, pc # "idle", NEW c \in Codes
  PROVE  TextAt(c, verses) \in seen[c] /\ TextAt(c, verses) \in PossibleTexts
BY DEF ReaderInv, ReadOK, SeenOK, TextsOK

LEMMA ReadVersesStep == ASSUME ReaderInv, ReadVerses, UNCHANGED ingestVars PROVE ReadOK'
<1>1. /\ ReadOK /\ pc = "verses" /\ verses' = verses
      /\ ask \in ChapterAsks /\ tr.code = ask.code
  BY DEF ReaderInv, ReadOK, ReadVerses, AskOK, ingestVars
<1>2. ask \in Asks /\ ask.op = "chapter" /\ ask.code \in Codes
  BY <1>1, AskKinds
<1> DEFINE text == TextAt(ask.code, verses)
           chapter == ChapterOf(text, ask.book, Int32(ask.chapter))
           vs == ListChapterVerses(tr.code, ask.book, Int32(ask.chapter))
<1>3. text \in seen[ask.code] /\ text \in PossibleTexts
  BY <1>1, <1>2, ReadsSeenText
<1>4. vs = ByVerse(chapter)
  BY <1>1 DEF ListChapterVerses
<1>5. CASE vs = <<>>
  <2>1. Answer(NotFound("chapter"))
    BY <1>5 DEF ReadVerses
  <2>2. chapter = {}
    <3> HIDE DEF text, vs
    <3> DEFINE ch == ChapterOf(text, ask.book, Int32(ask.chapter))
    <3>1. Cardinality(ch) \in Nat /\ (Cardinality(ch) = 0 <=> ch = {}) /\ ByVerse(ch) \in [1 .. Cardinality(ch) -> ch]
      BY <1>3, ByVerseOrders
    <3>2. DOMAIN ByVerse(ch) = {}
      BY <1>4, <1>5
    <3> HIDE DEF ch
    <3>3. Cardinality(ch) = 0
      BY <3>1, <3>2
    <3> QED BY <3>1, <3>3 DEF ch
  <2>3. ReaderPromises'
    <3>1. answer' = NotFound("chapter") /\ ask' = ask /\ seen' = seen /\ NotFound("chapter").status # 200
      BY <2>1 DEF Answer, NotFound
    <3>2. text \in seen'[ask.code] /\ chapter = {}
      BY <1>3, <2>2, <3>1
    <3> HIDE DEF text
    <3> QED BY <3>1, <3>2 DEF ReaderPromises, ServedOfOneImport, ServedSameVerse, OfferedCanBeOpened, Served200
  <2>4. NotFound("chapter").status # 200
    BY DEF NotFound
  <2> QED BY <1>1, <1>2, <2>1, <2>3, <2>4, AnswerStep
<1>6. CASE vs # <<>>
  <2>1. rows' = vs /\ pc' = "name" /\ UNCHANGED <<ask, tr, name, ptr, answer, seen>>
    BY <1>6 DEF ReadVerses
  <2>2. AskOK'
    BY <1>1, <2>1 DEF AskOK, Searching
  <2>3. RowsRead'
    <3> HIDE DEF vs, text
    <3> QED BY <1>3, <1>4, <1>6, <2>1 DEF RowsRead
  <2>4. FoundOK'
    BY <1>1, <2>1, <2>3 DEF FoundOK, ReadOK, Served200, NoAnswer
  <2> QED BY <1>1, <2>1, <2>2, <2>4, NextStatement
<1> QED BY <1>5, <1>6

\* The lines of an answer are the rows that were read, with any other text beside them.
LEMMA LinesAreChapter ==
  ASSUME ReaderInv, ask \in ChapterAsks, RowsRead, NEW parallel,
         answer'.status = 200, answer'.lines = Lines(parallel), UNCHANGED <<ask, seen>>
  PROVE  ServedOfOneImport'
<1>1. PICK text \in seen[ask.code] : rows # <<>> /\ rows = ByVerse(ChapterOf(text, ask.book, Int32(ask.chapter)))
  BY DEF RowsRead
<1> DEFINE chapter == ChapterOf(text, ask.book, Int32(ask.chapter))
           lines == answer'.lines
<1>2. text \in PossibleTexts
  BY <1>1, AskKinds DEF ReaderInv, ReadOK, SeenOK
<1>3. /\ rows \in [1 .. Cardinality(chapter) -> chapter] /\ Cardinality(chapter) \in Nat
      /\ (Cardinality(chapter) = 0 <=> chapter = {})
      /\ \A i, k \in DOMAIN rows : i < k => rows[i].verse < rows[k].verse
      /\ Range(rows) = chapter
  BY <1>1, <1>2, ByVerseOrders
<1> HIDE DEF chapter
<1>4. chapter # {}
  BY <1>1, <1>3
<1>5. DOMAIN lines = DOMAIN rows /\ \A i \in DOMAIN rows : lines[i].verse = rows[i].verse /\ lines[i].text = rows[i].text
  BY DEF Lines
<1> HIDE DEF lines
<1>6. LinesOf(Range(lines)) = LinesOf(chapter)
  <2>1. LinesOf(Range(lines)) = {[verse |-> lines[i].verse, text |-> lines[i].text] : i \in DOMAIN rows}
    BY <1>5 DEF LinesOf, Range
  <2>2. LinesOf(chapter) = {[verse |-> rows[i].verse, text |-> rows[i].text] : i \in DOMAIN rows}
    BY <1>3 DEF LinesOf, Range
  <2> QED BY <1>5, <2>1, <2>2
<1>7. \A i, k \in DOMAIN lines : i < k => lines[i].verse < lines[k].verse
  BY <1>3, <1>5
<1>8. answer' # NotFound("chapter")
  BY DEF NotFound
<1>9. text \in seen'[ask'.code] /\ chapter = ChapterOf(text, ask'.book, Int32(ask'.chapter))
  BY <1>1 DEF chapter
<1> QED BY <1>4, <1>6, <1>7, <1>8, <1>9 DEF ServedOfOneImport, lines

LEMMA ReadNameStep == ASSUME ReaderInv, ReadName, UNCHANGED ingestVars PROVE ReadOK'
<1>1. /\ ReadOK /\ pc = "name" /\ verses' = verses /\ RowsRead
      /\ ask \in ChapterAsks /\ tr.code = ask.code
  BY DEF ReaderInv, ReadOK, ReadName, AskOK, FoundOK, ingestVars
<1>2. ask \in Asks /\ ask.op = "chapter" /\ ask.code \in Codes /\ ask.parallel \in Codes \cup {NoCode}
  BY <1>1, AskKinds
<1>3. CASE ask.parallel = NoCode
  <2> DEFINE a == [status |-> 200, name |-> GetBookName(ask.book, tr.lang), lines |-> Lines(NoParallel), parallel |-> NoCode]
  <2>1. Answer(a)
    BY <1>3 DEF ReadName
  <2>2. a.status = 200 /\ a.lines = Lines(NoParallel) /\ a.parallel = NoCode
    OBVIOUS
  <2> HIDE DEF a
  <2>3. answer' = a /\ ask' = ask /\ seen' = seen
    BY <2>1 DEF Answer
  <2>4. ServedOfOneImport'
    BY <1>1, <2>2, <2>3, LinesAreChapter
  <2>5. ServedSameVerse' /\ OfferedCanBeOpened'
    BY <1>2, <2>2, <2>3 DEF ServedSameVerse, OfferedCanBeOpened
  <2> QED BY <1>1, <1>2, <2>1, <2>2, <2>4, <2>5, AnswerStep DEF ReaderPromises
<1>4. CASE ask.parallel # NoCode
  <2>1. pc' = "parallel" /\ UNCHANGED <<ask, tr, rows, ptr, answer, seen>>
    BY <1>4 DEF ReadName
  <2>2. AskOK'
    BY <1>1, <2>1 DEF AskOK, Searching
  <2>3. FoundOK'
    BY <1>1, <1>2, <1>4, <2>1 DEF FoundOK, ReadOK, Served200, NoAnswer, RowsRead
  <2> QED BY <1>1, <2>1, <2>2, <2>3, NextStatement
<1> QED BY <1>3, <1>4

LEMMA FindParallelStep == ASSUME ReaderInv, FindParallel, UNCHANGED ingestVars PROVE ReadOK'
<1>1. /\ ReadOK /\ pc = "parallel" /\ verses' = verses /\ RowsRead
      /\ ask \in ChapterAsks /\ ask \in Asks /\ tr.code = ask.code /\ ask.parallel \in Codes
  BY AskKinds DEF ReaderInv, ReadOK, FindParallel, AskOK, FoundOK, ingestVars
<1> DEFINE t == GetTranslation(ask.parallel)
<1>2. CASE t = NoRow
  <2>1. Answer(NotFound("parallel translation"))
    BY <1>2 DEF FindParallel
  <2>2. NotFound("parallel translation").status # 200 /\ NotFound("parallel translation") # NotFound("chapter")
    <3>1. NotFound("parallel translation").what # NotFound("chapter").what
      BY DEF NotFound
    <3>2. NotFound("parallel translation").status # 200
      BY DEF NotFound
    <3> QED BY <3>1, <3>2
  <2> HIDE DEF t
  <2> QED BY <1>1, <2>1, <2>2, AnswerNothing
<1>3. CASE t # NoRow
  <2>1. t.code = ask.parallel
    BY <1>3 DEF GetTranslation
  <2>2. ptr' = t /\ pc' = "parallel verses" /\ UNCHANGED <<ask, tr, rows, name, answer, seen>>
    BY <1>3 DEF FindParallel
  <2> HIDE DEF t
  <2>3. AskOK'
    BY <1>1, <2>2 DEF AskOK, Searching
  <2>4. FoundOK'
    BY <1>1, <2>1, <2>2 DEF FoundOK, ReadOK, Served200, NoAnswer, RowsRead
  <2> QED BY <1>1, <2>2, <2>3, <2>4, NextStatement
<1> QED BY <1>2, <1>3

LEMMA ReadParallelStep == ASSUME ReaderInv, ReadParallel, UNCHANGED ingestVars PROVE ReadOK'
<1>1. /\ ReadOK /\ pc = "parallel verses" /\ verses' = verses /\ RowsRead
      /\ ask \in ChapterAsks /\ ask \in Asks /\ ask.parallel \in Codes /\ ptr.code = ask.parallel
  BY AskKinds DEF ReaderInv, ReadOK, ReadParallel, AskOK, FoundOK, ingestVars
<1>2. ask.op = "chapter"
  BY <1>1, AskKinds
<1> DEFINE text == TextAt(ask.parallel, verses)
           chapter == ChapterOf(text, ask.book, Int32(ask.chapter))
           ps == ByVerse(chapter)
           beside == [i \in DOMAIN rows |-> AlignedText(ps, i)]
           a == [status |-> 200, name |-> name, lines |-> Lines(beside), parallel |-> ptr.code]
<1>3. Answer(a)
  BY <1>1 DEF ReadParallel, ListChapterVerses
<1>4. a.status = 200 /\ a.lines = Lines(beside) /\ a.parallel = ask.parallel
  BY <1>1
<1> HIDE DEF a
<1>5. answer' = a /\ ask' = ask /\ seen' = seen
  BY <1>3 DEF Answer
<1>6. ServedOfOneImport'
  BY <1>1, <1>4, <1>5, LinesAreChapter
<1>7. text \in seen[ask.parallel] /\ text \in PossibleTexts
  BY <1>1, ReadsSeenText
<1> HIDE DEF text
<1>8. /\ Cardinality(chapter) \in Nat /\ ps \in [1 .. Cardinality(chapter) -> chapter] /\ Range(ps) = chapter
  BY <1>7, ByVerseOrders
<1> HIDE DEF chapter, ps
<1>9. ASSUME NEW i \in DOMAIN rows
      PROVE  LET other == {v \in chapter : v.verse = rows[i].verse}
             IN  IF other = {} THEN AlignedText(ps, i) = NoText ELSE \E v \in other : AlignedText(ps, i) = v.text
  <2> DEFINE other == {v \in chapter : v.verse = rows[i].verse}
             same == {k \in DOMAIN ps : ps[k].verse = rows[i].verse}
  <2>1. CASE same = {}
    <3>1. other = {}
      <4> SUFFICES ASSUME NEW v \in other PROVE FALSE
        OBVIOUS
      <4>1. PICK k \in DOMAIN ps : ps[k] = v
        BY <1>8 DEF Range
      <4> QED BY <2>1, <4>1
    <3> QED BY <2>1, <3>1 DEF AlignedText
  <2>2. CASE same # {}
    <3>1. same \in SUBSET (1 .. Cardinality(chapter)) /\ IsFiniteSet(1 .. Cardinality(chapter))
      BY <1>8, FS_Interval
    <3>2. same \in SUBSET Int /\ IsFiniteSet(same)
      <4> HIDE DEF same
      <4>1. IsFiniteSet(same)
        BY <3>1, FS_Subset
      <4>2. same \in SUBSET Int
        BY <1>8, <3>1
      <4> QED BY <4>1, <4>2
    <3>3. Max(same) \in same
      <4> HIDE DEF same
      <4> QED BY <2>2, <3>2, MaxOf
    <3> DEFINE m == Max(same)
    <3>4. AlignedText(ps, i) = ps[m].text
      BY <2>2 DEF AlignedText
    <3> HIDE DEF m
    <3>5. ps[m] \in other
      BY <1>8, <3>3 DEF m
    <3> QED BY <3>4, <3>5
  <2> QED BY <2>1, <2>2
<1>10. ServedSameVerse'
  <2>1. /\ DOMAIN answer'.lines = DOMAIN rows
        /\ \A i \in DOMAIN rows : answer'.lines[i].verse = rows[i].verse /\ answer'.lines[i].parallel = AlignedText(ps, i)
    BY <1>4, <1>5 DEF Lines
  <2>2. text \in seen'[ask'.parallel] /\ chapter = ChapterOf(text, ask'.book, Int32(ask'.chapter))
    BY <1>5, <1>7 DEF chapter
  <2> QED BY <1>9, <2>1, <2>2 DEF ServedSameVerse, chapter
<1>11. OfferedCanBeOpened'
  BY <1>2, <1>5 DEF OfferedCanBeOpened
<1> QED BY <1>1, <1>2, <1>3, <1>4, <1>6, <1>10, <1>11, AnswerStep DEF ReaderPromises

\* The number of chapters of a book is that of its last chapter, or none.
LEMMA ChapterCountIsLast ==
  ASSUME NEW text \in PossibleTexts, NEW b
  PROVE  IF ChapterCount(text, b) = 0 THEN ~\E v \in text : v.book = b
         ELSE ChapterOf(text, b, ChapterCount(text, b)) # {}
<1> DEFINE of == {u \in text : u.book = b}
           chapters == {v.chapter : v \in of}
           all == chapters \cup {0}
           f == [v \in of |-> v.chapter]
<1>1. text \subseteq VerseRec /\ IsFiniteSet(text) /\ of \in SUBSET text
  BY PossibleTextType
<1>2. IsFiniteSet(of)
  <2> HIDE DEF of
  <2> QED BY <1>1, FS_Subset
<1>3. IsFiniteSet(chapters)
  <2>1. f \in [of -> chapters] /\ \A n \in chapters : \E v \in of : f[v] = n
    OBVIOUS
  <2> HIDE DEF f, of, chapters
  <2> QED BY <1>2, <2>1, ImageFinite
<1>4. all \in SUBSET Nat /\ \A n \in chapters : n # 0
  BY <1>1 DEF VerseRec
<1>5. IsFiniteSet(all) /\ all # {} /\ all \in SUBSET Int
  <2> HIDE DEF chapters
  <2> QED BY <1>3, <1>4, FS_AddElement
<1>6. Max(all) \in all /\ \A n \in all : n <= Max(all)
  <2> HIDE DEF all
  <2> QED BY <1>5, MaxOf
<1>7. ChapterCount(text, b) = Max(all)
  BY DEF ChapterCount
<1> DEFINE last == Max(all)
<1>8. CASE last = 0
  <2> SUFFICES ASSUME NEW v \in of PROVE FALSE
    BY <1>7, <1>8
  <2>1. v.chapter \in chapters
    OBVIOUS
  <2>2. v.chapter \in Nat /\ v.chapter # 0 /\ v.chapter <= last
    BY <1>4, <1>6, <2>1
  <2> QED BY <1>8, <2>2
<1>9. CASE last # 0
  <2>1. PICK v \in of : v.chapter = last
    BY <1>6, <1>9
  <2>2. v \in ChapterOf(text, b, last)
    BY <2>1 DEF ChapterOf
  <2> QED BY <1>7, <1>9, <2>2
<1> QED BY <1>8, <1>9

LEMMA ReadBooksStep == ASSUME ReaderInv, ReadBooks, UNCHANGED ingestVars PROVE ReadOK'
<1>1. /\ ReadOK /\ pc = "books" /\ verses' = verses
      /\ ask \in BookAsks /\ ask \in Asks /\ ask.op = "books" /\ ask.code \in Codes /\ tr.code = ask.code
  BY AskKinds DEF ReaderInv, ReadOK, ReadBooks, AskOK, ingestVars
<1> DEFINE text == TextAt(ask.code, verses)
           a == [status |-> 200, books |-> ListBooks(ask.code, tr.lang)]
<1>2. Answer(a) /\ a.status = 200 /\ a.books = ListBooks(ask.code, tr.lang)
  BY <1>1 DEF ReadBooks
<1> HIDE DEF a
<1>3. answer' = a /\ ask' = ask /\ seen' = seen
  BY <1>2 DEF Answer
<1>4. text \in seen[ask.code] /\ text \in PossibleTexts
  BY <1>1, ReadsSeenText
<1>5. ASSUME NEW b \in a.books
      PROVE  IF b.chapters = 0 THEN ~\E v \in text : v.book = b.book
             ELSE ChapterOf(text, b.book, b.chapters) # {}
  <2>1. PICK k \in KnownBooks : b = [book |-> k, name |-> NameOrFallback(k, tr.lang), chapters |-> ChapterCount(text, k)]
    BY <1>2 DEF ListBooks
  <2>2. b.book = k /\ b.chapters = ChapterCount(text, k)
    BY <2>1
  <2> HIDE DEF text
  <2> QED BY <1>4, <2>2, ChapterCountIsLast
<1>6. OfferedCanBeOpened'
  <2> HIDE DEF text
  <2> QED BY <1>1, <1>3, <1>4, <1>5 DEF OfferedCanBeOpened
<1>7. ServedOfOneImport' /\ ServedSameVerse'
  BY <1>1, <1>3 DEF ServedOfOneImport, ServedSameVerse, Served200
<1> QED BY <1>1, <1>2, <1>6, <1>7, AnswerStep DEF ReaderPromises

LEMMA ReadTranslationsStep == ASSUME ReaderInv, ReadTranslations, UNCHANGED ingestVars PROVE ReadOK'
<1>1. ReadOK /\ pc = "list" /\ verses' = verses /\ ask \in ListAsks /\ ask \in Asks /\ ask.op = "translations"
  BY AskKinds DEF ReaderInv, ReadOK, ReadTranslations, AskOK, ingestVars
<1> DEFINE a == [status |-> 200, codes |-> ListTranslations(ask.lang)]
<1>2. Answer(a) /\ a.status = 200 /\ a.codes = ListTranslations(ask.lang)
  BY <1>1 DEF ReadTranslations
<1> HIDE DEF a
<1>3. answer' = a /\ ask' = ask /\ seen' = seen
  BY <1>2 DEF Answer
<1>4. ASSUME NEW c \in a.codes PROVE c \in Codes /\ \E text \in seen[c] : text # {}
  <2>1. c \in Codes /\ TextAt(c, verses) # {}
    BY <1>2 DEF ListTranslations, HasText
  <2>2. TextAt(c, verses) \in seen[c]
    BY <1>1, <2>1, ReadsSeenText
  <2> QED BY <2>1, <2>2
<1>5. OfferedCanBeOpened'
  BY <1>1, <1>3, <1>4 DEF OfferedCanBeOpened
<1>6. ServedOfOneImport' /\ ServedSameVerse'
  BY <1>1, <1>3 DEF ServedOfOneImport, ServedSameVerse, Served200
<1> QED BY <1>1, <1>2, <1>4, <1>5, <1>6, AnswerStep DEF ReaderPromises

LEMMA DoneStep == ASSUME ReaderInv, Done PROVE ReadOK'
<1>1. pc' = "idle" /\ ask' = NoAsk /\ answer' = NoAnswer /\ seen' = [c \in Codes |-> {}]
  BY DEF Done
<1>2. SeenOK'
  BY <1>1 DEF SeenOK
<1>3. AskOK' /\ FoundOK'
  BY <1>1 DEF AskOK, FoundOK, Searching, Served200, NoAnswer
<1>4. GivesNothing'
  BY <1>1 DEF GivesNothing, NoAnswer, NotFound
<1> QED BY <1>2, <1>3, <1>4, NothingGiven DEF ReadOK

LEMMA FailReadStep == ASSUME ReaderInv, FailRead, UNCHANGED ingestVars PROVE ReadOK'
<1>1. ReadOK /\ pc # "idle" /\ verses' = verses /\ Answer([status |-> 500])
  BY DEF ReaderInv, FailRead, ingestVars
<1>2. ask \in Asks \cup SearchAsks
  BY AskKinds DEF ReaderInv, ReadOK, FailRead, AskOK
<1>3. [status |-> 500].status # 200 /\ [status |-> 500] # NotFound("chapter")
  BY DEF NotFound
<1> QED BY <1>1, <1>2, <1>3, AnswerNothing

LEMMA ReadsStep == ASSUME ReaderInv, Reads, UNCHANGED ingestVars PROVE ReadOK'
BY AskReadStep, FindTranslationStep, ReadVersesStep, ReadNameStep, FindParallelStep, ReadParallelStep,
   ReadBooksStep, ReadTranslationsStep, DoneStep, FailReadStep DEF Reads

\* A step of a search that goes on to its next statement.
LEMMA SearchGoesOn ==
  ASSUME ReaderInv, pc \in Searching, pc' \in Searching, UNCHANGED <<ask, answer, seen, verses>>
  PROVE  ReadOK'
<1>1. ReadOK /\ ask \in SearchAsks /\ ask.op = "search" /\ answer = NoAnswer
  BY AskKinds DEF ReaderInv, ReadOK, AskOK, FoundOK, Searching
<1>2. AskOK' /\ FoundOK'
  BY <1>1 DEF AskOK, FoundOK, Searching, Served200
<1> QED BY <1>1, <1>2, NextStatement DEF Searching

LEMMA SearchStepsRead == ASSUME ReaderInv, SearchSteps, UNCHANGED ingestVars PROVE ReadOK'
<1>1. verses' = verses
  BY DEF ingestVars
<1>2. CASE AskSearch
  <2>1. PICK a \in SearchAsks :
          /\ ask' = a
          /\ \/ pc' = "reference" /\ answer' = NoAnswer
             \/ pc' = "answered" /\ answer' = [status |-> 400]
    BY <1>2 DEF AskSearch
  <2>2. seen' = [c \in Codes |-> {TextAt(c, verses)}]
    BY <1>2 DEF AskSearch
  <2>3. a.op = "search"
    BY AskKinds
  <2>4. SeenOK'
    BY <1>1, <2>2 DEF SeenOK, ReaderInv, TextsOK
  <2>5. AskOK' /\ FoundOK'
    BY <2>1, <2>3 DEF AskOK, FoundOK, Searching, Served200
  <2>6. GivesNothing'
    BY <2>1, <2>3 DEF GivesNothing
  <2> QED BY <2>4, <2>5, <2>6, NothingGiven DEF ReadOK
<1>3. CASE FindBook \/ FindVerse
  BY <1>1, <1>3, SearchGoesOn DEF FindBook, FindVerse, Searching
<1>4. CASE SearchBible \/ SearchParagraphs \/ SearchDoctrine \/ SearchHymnals \/ SearchFeed
  BY <1>1, <1>4, SearchGoesOn
  DEF SearchBible, SearchParagraphs, SearchDoctrine, SearchHymnals, SearchFeed, Scope, Goto, Searching
<1>5. CASE ReturnGroups \/ FailSearch
  <2>1. pc \in Searching /\ \E a : Answer(a)
    <3>1. \A s \in Range(Scopes) : s \in Searching
      <4>1. DOMAIN Scopes = 1 .. 5
        BY DEF Scopes
      <4>2. \A i \in 1 .. 5 : Scopes[i] \in Searching
        <5>1. /\ Scopes[1] = "bible" /\ Scopes[2] = "egw" /\ Scopes[3] = "beliefs"
              /\ Scopes[4] = "hymns" /\ Scopes[5] = "video"
          BY DEF Scopes
        <5>2. \A i \in 1 .. 5 : i \in {1, 2, 3, 4, 5}
          OBVIOUS
        <5> QED BY <5>1, <5>2 DEF Searching
      <4> QED BY <4>1, <4>2 DEF Range
    <3>2. pc \in {"reference", "reference verse", "groups"} => pc \in Searching
      BY DEF Searching
    <3>3. CASE ReturnGroups
      BY <3>2, <3>3 DEF ReturnGroups
    <3>4. CASE FailSearch
      BY <3>1, <3>2, <3>4 DEF FailSearch
    <3> QED BY <1>5, <3>3, <3>4
  <2>2. ReadOK /\ ask \in SearchAsks /\ ask.op = "search" /\ pc # "idle"
    BY <2>1, AskKinds DEF ReaderInv, ReadOK, AskOK, Searching
  <2> QED BY <1>1, <2>1, <2>2, AnswerNothing
<1> QED BY <1>2, <1>3, <1>4, <1>5 DEF SearchSteps

LEMMA ReaderStep == ReaderInv /\ [Next]_vars => ReaderInv'
<1> SUFFICES ASSUME ReaderInv, [Next]_vars PROVE ReaderInv'
  OBVIOUS
<1>1. IngestInv' /\ TextsOK'
  BY IngestStep, TextsStep DEF ReaderInv
<1>2. CASE SearchSteps /\ UNCHANGED ingestVars
  BY <1>1, <1>2, SearchStepsRead DEF ReaderInv
<1>3. CASE Reads /\ UNCHANGED <<ingestVars, typed, groups>>
  BY <1>1, <1>3, ReadsStep DEF ReaderInv
<1>4. CASE IngestNext /\ Witness /\ UNCHANGED <<pc, ask, tr, rows, name, ptr, answer, typed, groups>>
  <2>1. SeenOK' /\ \A c \in Codes : seen[c] \subseteq seen'[c]
    BY <1>1, <1>4, ImportsAreSeen DEF ReaderInv, ReadOK
  <2>2. AskOK' /\ FoundOK' /\ ReaderPromises'
    BY <1>4, <2>1, SeenGrows DEF ReaderInv, ReadOK
  <2> QED BY <1>1, <2>1, <2>2 DEF ReaderInv, ReadOK
<1>5. CASE UNCHANGED vars
  <2>1. SeenOK' /\ \A c \in Codes : seen[c] \subseteq seen'[c]
    BY <1>5 DEF ReaderInv, ReadOK, SeenOK, vars, bibleVars, ingestVars, readVars
  <2>2. AskOK' /\ FoundOK' /\ ReaderPromises'
    BY <1>5, <2>1, SeenGrows DEF ReaderInv, ReadOK, vars, bibleVars, readVars
  <2> QED BY <1>1, <2>1, <2>2 DEF ReaderInv, ReadOK
<1> QED BY <1>2, <1>3, <1>4, <1>5 DEF Next

LEMMA ReaderIsInvariant == Spec => []ReaderInv
BY ReaderInit, ReaderStep, PTL DEF Spec

(* What an import writes or a dry run shows has no markup in it and is, of     *)
(* well-formed files, their reading text: of each reference of a known book    *)
(* the first verse with words, all of them and no others (usfm.go:65-155,      *)
(* main.go:95-119).                                                          *)
THEOREM OnlyTextIsKept == Spec => []OnlyReadingText
<1>1. ReaderInv => OnlyReadingText
  <2> SUFFICES ASSUME ReaderInv, NEW j \in Jobs, job[j].phase \in InTx \cup {"shown"}
               PROVE  /\ \A v \in job[j].kept : Markup \notin Range(v.text)
                      /\ job[j].archive \in WellMade => job[j].kept = ReadingText[job[j].archive]
    BY DEF OnlyReadingText
  <2>1. Passes(job[j].archive) /\ job[j].kept = Kept[job[j].archive]
    BY DEF ReaderInv, IngestInv, TxOK
  <2>2. ~Refused(job[j].archive) /\ ~HasMarkup(job[j].kept)
    BY <2>1 DEF Passes
  <2> QED BY <2>1, <2>2, FirstIsKept DEF HasMarkup
<1> QED BY <1>1, ReaderIsInvariant, PTL

\* Of a number that is an int32 the queries get that number.
LEMMA Int32Same ==
  ASSUME NEW n, IsInt32(n)
  PROVE  Int32(n) = n
<1> DEFINE h == IntSize \div 2
<1>1. IntSize \in Nat \ {0} /\ IntSize % 2 = 0
  BY ReaderAssumption DEF ReaderAssumption
<1>2. IntSize = 2 * h /\ h \in Nat
  BY <1>1
<1>3. n \in -h .. h - 1
  BY DEF IsInt32
<1> HIDE DEF h
<1>4. n + h \in 0 .. IntSize - 1
  BY <1>1, <1>2, <1>3
<1>5. (n + h) % IntSize = n + h
  BY <1>1, <1>4
<1> QED BY <1>2, <1>3, <1>5 DEF Int32, h

(* A chapter is answered from one import's text, whole and in order, and is   *)
(* not found only if a text that was committed while the request ran lacks it  *)
(* (server.go:171-226 under main.go:134-177).                                *)
THEOREM ChapterIsOneImports == Spec => []ChapterOfOneImport
<1>1. ServedOfOneImport => ChapterOfOneImport
  BY Int32Same DEF ServedOfOneImport, ChapterOfOneImport, AskedChapter, Chapter200, Served200
<1> QED BY <1>1, ReaderIsInvariant, PTL DEF ReaderInv, ReadOK, ReaderPromises

(* The text beside a verse is that verse of the other translation, and all of  *)
(* it from one of its imports (server.go:213-222).                            *)
THEOREM ParallelVersesMatch == Spec => []ParallelIsSameVerse
<1>1. ServedSameVerse => ParallelIsSameVerse
  BY Int32Same DEF ServedSameVerse, ParallelIsSameVerse, AskedChapter, Chapter200, Served200
<1> QED BY <1>1, ReaderIsInvariant, PTL DEF ReaderInv, ReadOK, ReaderPromises

(* A listed translation had text while the request ran, and every book with    *)
(* chapters has verses in its last one (content.sql).                         *)
THEOREM OffersCanBeOpened == Spec => []OfferedCanBeOpened
BY ReaderIsInvariant, PTL DEF ReaderInv, ReadOK, ReaderPromises

-----------------------------------------------------------------------------
(* Search: the window of a snippet, and the rows of a LIMIT. *)

LEMMA MinMaxOfTwo ==
  ASSUME NEW x \in Int, NEW y \in Int
  PROVE  /\ Min({x, y}) = IF x <= y THEN x ELSE y
         /\ Max({x, y}) = IF x <= y THEN y ELSE x
<1>1. ASSUME NEW m \in {x, y}, \A z \in {x, y} : m =< z PROVE m = IF x <= y THEN x ELSE y
  BY <1>1
<1>2. ASSUME NEW m \in {x, y}, \A z \in {x, y} : m >= z PROVE m = IF x <= y THEN y ELSE x
  BY <1>2
<1>3. /\ \E m \in {x, y} : \A z \in {x, y} : m =< z
      /\ \E m \in {x, y} : \A z \in {x, y} : m >= z
  <2>1. CASE x <= y
    BY <2>1
  <2>2. CASE y <= x
    BY <2>2
  <2> QED BY <2>1, <2>2
<1>4. Min({x, y}) \in {x, y} /\ \A z \in {x, y} : Min({x, y}) =< z
  BY <1>3 DEF Min
<1>5. Max({x, y}) \in {x, y} /\ \A z \in {x, y} : Max({x, y}) >= z
  BY <1>3 DEF Max
<1> QED BY <1>1, <1>2, <1>4, <1>5

LEMMA OccursAt ==
  ASSUME NEW text \in Words, NEW q \in Words, Occurs(q, text) # {}
  PROVE  Min(Occurs(q, text)) \in 0 .. Len(text) - Len(q)
<1> DEFINE at == Occurs(q, text)
<1>1. at \subseteq 0 .. Len(text) - Len(q) /\ Len(text) \in Nat /\ Len(q) \in Nat
  BY DEF Occurs, Words
<1>2. at \in SUBSET Nat
  BY <1>1
<1>3. \E m \in at : \A k \in at : m <= k
  <2> HIDE DEF at
  <2> QED BY <1>2, LeastNat DEF at
<1>4. Min(at) \in at
  BY <1>3 DEF Min
<1> QED BY <1>1, <1>4

\* The window is as wide as there is room, and the first match begins in it; with
\* none it is the beginning.
LEMMA SnippetFits ==
  ASSUME NEW text \in Words, NEW q \in Words
  PROVE  LET s == Snippet(text, q)
         IN  /\ 0 <= s.from /\ s.to <= Len(text)
             /\ s.to - s.from = Min({SnippetRunes, Len(text)})
             /\ q # <<>> /\ Occurs(q, text) # {} => s.from <= Min(Occurs(q, text)) /\ Min(Occurs(q, text)) < s.to
             /\ q = <<>> \/ Occurs(q, text) = {} => s.from = 0
<1> DEFINE s == Snippet(text, q)
           n == Len(text)
           w == SnippetRunes
           at == Min(Occurs(q, text))
           found == q # <<>> /\ Occurs(q, text) # {}
<1>1. n \in Nat /\ w \in Nat \ {0} /\ Len(q) \in Nat /\ (q # <<>> => Len(q) # 0)
  BY SearchAssumption DEF SearchAssumption, Words
<1>2. Min({w, n}) = IF w <= n THEN w ELSE n
  BY <1>1, MinMaxOfTwo
<1>3. found => at \in 0 .. n - Len(q)
  BY OccursAt
<1>4. found => at \in Nat /\ at < n
  <2> HIDE DEF n, at, found
  <2> QED BY <1>1, <1>3 DEF found
<1>5. CASE n <= w
  <2>1. s = [from |-> 0, to |-> n]
    BY <1>5 DEF Snippet
  <2> HIDE DEF s, n, w, at, found
  <2>2. s.from = 0 /\ s.to = n
    BY <2>1
  <2>3. (IF w <= n THEN w ELSE n) = n
    BY <1>1, <1>5
  <2>4. s.from = 0
    BY <2>2
  <2> QED BY <1>1, <1>2, <1>4, <1>5, <2>2, <2>3, <2>4 DEF found, s, n, w, at
<1>6. CASE w < n
  <2> DEFINE start == IF q = <<>> \/ Occurs(q, text) = {} THEN 0 ELSE SnippetStart(n, at)
  <2>1. s = [from |-> start, to |-> start + w]
    BY <1>1, <1>6 DEF Snippet
  <2>2. w \div 3 \in Nat /\ w \div 3 < w
    <3> HIDE DEF w
    <3> QED BY <1>1
  <2>3. found => /\ start \in Nat /\ start <= n - w
                 /\ start <= at /\ at < start + w
    <3> SUFFICES ASSUME found PROVE start \in Nat /\ start <= n - w /\ start <= at /\ at < start + w
      OBVIOUS
    <3> DEFINE third == w \div 3
               low == Min({at - third, n - w})
    <3>1. start = Max({0, low})
      BY DEF SnippetStart
    <3> HIDE DEF n, w, at, found, third, start
    <3>2. at - third \in Int /\ n - w \in Int
      BY <1>1, <1>4, <2>2 DEF third
    <3>3. low = IF at - third <= n - w THEN at - third ELSE n - w
      BY <3>2, MinMaxOfTwo
    <3> HIDE DEF low
    <3>4. low \in Int
      BY <3>2, <3>3
    <3>5. start = IF 0 <= low THEN low ELSE 0
      BY <3>1, <3>4, MinMaxOfTwo
    <3>6. third \in Nat /\ third < w
      BY <2>2 DEF third
    <3> QED BY <1>1, <1>4, <1>6, <3>2, <3>3, <3>5, <3>6
  <2>4. ~found => start = 0
    OBVIOUS
  <2> HIDE DEF s, start, n, w, at, found
  <2>5. s.from = start /\ s.to = start + w
    BY <2>1
  <2>6. start \in Nat /\ start + w <= n
    BY <1>1, <1>6, <2>3, <2>4
  <2>7. Min({w, n}) = w /\ s.to - s.from = w
    BY <1>1, <1>2, <1>6, <2>5, <2>6
  <2>8. ~found => s.from = 0
    BY <2>4, <2>5
  <2> QED BY <1>1, <2>3, <2>5, <2>6, <2>7, <2>8 DEF found, s, n, w, at
<1> QED BY <1>1, <1>5, <1>6

\* LIMIT n: at most n rows, all of the table.
LEMMA LimitedRows ==
  ASSUME NEW S, IsFiniteSet(S), NEW n \in Nat, NEW found \in Limited(S, n)
  PROVE  found \in Seq(S) /\ Len(found) <= n
<1>1. Cardinality(S) \in Nat
  BY FS_CardinalityType
<1>2. PICK f \in [1 .. Cardinality(S) -> S] : found = SubSeq(f, 1, Min({n, Len(f)}))
  BY DEF Limited, Orders
<1>3. f \in Seq(S) /\ Len(f) = Cardinality(S)
  BY <1>1, <1>2
<1> DEFINE m == Min({n, Len(f)})
<1>4. m \in Nat /\ m <= n /\ m <= Len(f)
  BY <1>1, <1>3, MinMaxOfTwo
<1> HIDE DEF m
<1>5. \A i \in 1 .. m : f[i] \in S
  BY <1>1, <1>3, <1>4
<1>6. SubSeq(f, 1, m) \in Seq(S) /\ Len(SubSeq(f, 1, m)) = IF 1 <= m THEN m - 1 + 1 ELSE 0
  BY <1>4, <1>5, SubSeqProperties
<1>7. found = SubSeq(f, 1, m)
  BY <1>2 DEF m
<1>8. Len(SubSeq(f, 1, m)) <= n
  BY <1>4, <1>6
<1> QED BY <1>6, <1>7, <1>8

LEMMA HymnRows ==
  ASSUME NEW q, NEW l, NEW found \in SearchHymns(q, l)
  PROVE  found \in Seq(Hymns) /\ Len(found) <= PerGroup
<1> DEFINE S == {h \in Hymns : h.lang = l /\ (<<h.number>> = q \/ Includes(h.title, q) \/ Resembles(h.title, q))}
           exact == {h \in S : <<h.number>> = q}
           rest == S \ exact
           c == Cardinality(S)
           n == PerGroup
<1>1. IsFiniteSet(Hymns) /\ n \in Nat /\ S \in SUBSET Hymns /\ exact \in SUBSET S /\ rest \in SUBSET S
  BY SearchAssumption DEF SearchAssumption
<1>2. PICK f \in Orders(exact), g \in Orders(rest) : found = SubSeq(f \o g, 1, Min({n, c}))
  <2>1. found \in {SubSeq(o[1] \o o[2], 1, Min({n, c})) : o \in Orders(exact) \X Orders(rest)}
    BY DEF SearchHymns
  <2> HIDE DEF n, c, exact, rest, S
  <2>2. PICK o \in Orders(exact) \X Orders(rest) : found = SubSeq(o[1] \o o[2], 1, Min({n, c}))
    BY <2>1
  <2>3. o[1] \in Orders(exact) /\ o[2] \in Orders(rest)
    OBVIOUS
  <2> QED BY <2>2, <2>3
<1>3. exact \cup rest = S /\ exact \cap rest = {}
  BY <1>1
<1> HIDE DEF S, exact, rest
<1>4. IsFiniteSet(S)
  BY <1>1, FS_Subset
<1>5. IsFiniteSet(exact) /\ IsFiniteSet(rest)
  BY <1>1, <1>4, FS_Subset
<1>6. Cardinality(exact) \in Nat /\ Cardinality(rest) \in Nat /\ c \in Nat
  BY <1>4, <1>5, FS_CardinalityType
<1>7. c = Cardinality(exact) + Cardinality(rest)
  <2>1. Cardinality(exact \cup rest) = Cardinality(exact) + Cardinality(rest) - Cardinality(exact \cap rest)
    BY <1>5, FS_Union
  <2>2. Cardinality(exact \cap rest) = 0
    BY <1>3, FS_EmptySet
  <2>3. Cardinality(S) = Cardinality(exact) + Cardinality(rest) - 0
    BY <1>3, <2>1, <2>2
  <2> QED BY <1>6, <2>3
<1>8. f \in [1 .. Cardinality(exact) -> exact] /\ g \in [1 .. Cardinality(rest) -> rest]
  BY <1>2 DEF Orders
<1>9. /\ f \in Seq(S) /\ Len(f) = Cardinality(exact)
      /\ g \in Seq(S) /\ Len(g) = Cardinality(rest)
  BY <1>1, <1>6, <1>8
<1> DEFINE fg == f \o g
           m == Min({n, c})
<1>10. fg \in Seq(S) /\ Len(fg) = c
  BY <1>7, <1>9, ConcatProperties
<1>11. m \in Nat /\ m <= n /\ m <= c
  BY <1>1, <1>6, MinMaxOfTwo
<1> HIDE DEF fg, m, c, n
<1>12. \A i \in 1 .. m : fg[i] \in Hymns
  BY <1>1, <1>6, <1>10, <1>11
<1>13. SubSeq(fg, 1, m) \in Seq(Hymns) /\ Len(SubSeq(fg, 1, m)) = IF 1 <= m THEN m - 1 + 1 ELSE 0
  BY <1>11, <1>12, SubSeqProperties
<1>14. found = SubSeq(fg, 1, m)
  BY <1>2 DEF fg, m, c, n
<1>15. Len(SubSeq(fg, 1, m)) <= n
  BY <1>1, <1>11, <1>13
<1> QED BY <1>13, <1>14, <1>15 DEF n

\* A sequence of its own elements, with one more.
LEMMA AppendOne ==
  ASSUME NEW s, s \in Seq(Range(s)), NEW x
  PROVE  /\ Append(s, x) \in Seq(Range(Append(s, x)))
         /\ Range(Append(s, x)) = Range(s) \cup {x}
<1> DEFINE n == Len(s)
           t == Append(s, x)
           S == Range(s) \cup {x}
<1>1. s \in Seq(S) /\ n \in Nat
  BY SeqMonotonic
<1>2. /\ t \in Seq(S) /\ Len(t) = n + 1
      /\ \A i \in 1 .. n : t[i] = s[i]
      /\ t[n + 1] = x
  <2>1. x \in S
    OBVIOUS
  <2> HIDE DEF S
  <2> QED BY <1>1, <2>1, AppendProperties
<1>3. DOMAIN t = 1 .. n + 1 /\ DOMAIN s = 1 .. n
  BY <1>1, <1>2
<1> HIDE DEF t, n
<1>4. \A i \in 1 .. n + 1 : i \in 1 .. n \/ i = n + 1
  BY <1>1
<1>5. n + 1 \in 1 .. n + 1 /\ \A i \in 1 .. n : i \in 1 .. n + 1
  BY <1>1
<1>6. Range(t) = S
  BY <1>2, <1>3, <1>4, <1>5 DEF Range
<1> QED BY <1>2, <1>6 DEF t

-----------------------------------------------------------------------------
(* Search: the hits of a group. *)

HitsOf(q)    == {Hit(RefOf(v), v.text, q) : v \in TextVerses}
Fits(hit)    == /\ 0 <= hit.snippet.from /\ hit.snippet.to <= Len(hit.text)
                /\ hit.snippet.to - hit.snippet.from = Min({SnippetRunes, Len(hit.text)})
Shows(hit, q) == IF Occurs(q, hit.text) = {} THEN hit.snippet.from = 0
                 ELSE hit.snippet.from <= Min(Occurs(q, hit.text)) /\ Min(Occurs(q, hit.text)) < hit.snippet.to

\* The typed verse stands first if there is one, and no other hit is the first's verse.
TypedOK == typed = NoHit \/ (typed \in HitsOf(<<>>) /\ ask.ref # NoRef /\ typed.ref \in TypedRefs)
BibleList(s) ==
  /\ typed # NoHit => s # <<>> /\ s[1] = typed
  /\ \A i \in 2 .. Len(s) : s[i].ref # s[1].ref
  /\ \A i \in DOMAIN s : s[i] \in HitsOf(ask.q) \/ (i = 1 /\ typed # NoHit /\ s[i] = typed)
BibleLists == {s \in Seq(HitsOf(ask.q) \cup {typed}) : BibleList(s)}

LEMMA AddHitType ==
  ASSUME NEW s \in BibleLists, NEW hit \in HitsOf(ask.q)
  PROVE  AddHit(s, hit) \in BibleLists
<1>1. CASE Repeats(s, hit)
  BY <1>1 DEF AddHit
<1>2. CASE ~Repeats(s, hit)
  <2> DEFINE S == HitsOf(ask.q) \cup {typed}
             n == Len(s)
             t == Append(s, hit)
  <2>1. s \in Seq(S) /\ BibleList(s) /\ hit \in S /\ n \in Nat
    BY DEF BibleLists
  <2>2. AddHit(s, hit) = t
    BY <1>2 DEF AddHit
  <2>3. t \in Seq(S) /\ Len(t) = n + 1 /\ (\A i \in 1 .. n : t[i] = s[i]) /\ t[n + 1] = hit
    <3> HIDE DEF S
    <3> QED BY <2>1, AppendProperties
  <2>4. DOMAIN t = 1 .. n + 1 /\ DOMAIN s = 1 .. n
    BY <2>1, <2>3
  <2>5. n # 0 => s[1].ref # hit.ref
    BY <1>2, <2>1 DEF Repeats
  <2> HIDE DEF S, n, t
  <2>6. ASSUME NEW i \in 2 .. n + 1 PROVE t[i].ref # t[1].ref
    <3>1. n # 0 /\ 1 \in 1 .. n /\ t[1] = s[1]
      BY <2>1, <2>3
    <3>2. CASE i = n + 1
      BY <2>3, <2>5, <3>1, <3>2
    <3>3. CASE i # n + 1
      <4>1. i \in 2 .. n /\ i \in 1 .. n
        BY <2>1, <3>3
      <4>2. s[i].ref # s[1].ref
        BY <2>1, <4>1 DEF BibleList, n
      <4> QED BY <2>3, <3>1, <4>1, <4>2
    <3> QED BY <3>2, <3>3
  <2>7. ASSUME NEW i \in 1 .. n + 1 PROVE t[i] \in HitsOf(ask.q) \/ (i = 1 /\ typed # NoHit /\ t[i] = typed)
    <3>1. CASE i = n + 1
      BY <2>3, <3>1
    <3>2. CASE i # n + 1
      <4>1. i \in 1 .. n
        BY <2>1, <3>2
      <4> QED BY <2>1, <2>3, <2>4, <4>1 DEF BibleList
    <3> QED BY <3>1, <3>2
  <2>8. typed # NoHit => t # <<>> /\ t[1] = typed
    <3>1. typed # NoHit => s # <<>> /\ s[1] = typed
      BY <2>1 DEF BibleList
    <3>2. s # <<>> => n # 0
      BY <2>1 DEF n
    <3>3. n # 0 => 1 \in 1 .. n
      BY <2>1
    <3>4. t # <<>>
      BY <2>1, <2>3
    <3> QED BY <2>3, <3>1, <3>2, <3>3, <3>4
  <2>9. BibleList(t)
    BY <2>3, <2>4, <2>6, <2>7, <2>8 DEF BibleList
  <2> QED BY <2>2, <2>3, <2>9 DEF BibleLists, S
<1> QED BY <1>1, <1>2

LEMMA BibleHitsType ==
  ASSUME NEW found, found \in Seq(VerseRow)
  PROVE  BibleHits(found) \in BibleLists /\ Len(BibleHits(found)) <= PerGroup
<1> DEFINE n == Len(found)
           T == BibleLists
           s0 == IF typed = NoHit THEN <<>> ELSE <<typed>>
           hit(i) == Hit(RefOf(found[i].verse), found[i].verse.text, ask.q)
           F(f) == [i \in 0 .. n |-> IF i = 0 THEN IF typed = NoHit THEN <<>> ELSE <<typed>>
                                     ELSE AddHit(f[i - 1], hit(i))]
           step == [i \in 1 .. n |-> [s \in T |-> AddHit(s, hit(i))]]
           hits == CHOOSE f : f = F(f)
           all == hits[n]
           m == Min({PerGroup, Len(all)})
<1>1. n \in Nat /\ PerGroup \in Nat /\ 1 <= PerGroup
  BY SearchAssumption DEF SearchAssumption
<1>2. s0 \in T
  <2>1. CASE typed = NoHit
    BY <2>1 DEF BibleLists, BibleList
  <2>2. CASE typed # NoHit
    <3>1. <<typed>> \in Seq(HitsOf(ask.q) \cup {typed}) /\ Len(<<typed>>) = 1 /\ DOMAIN <<typed>> = {1} /\ <<typed>>[1] = typed
      OBVIOUS
    <3>2. BibleList(<<typed>>)
      BY <2>2, <3>1 DEF BibleList
    <3> QED BY <2>2, <3>1, <3>2 DEF BibleLists
  <2> QED BY <2>1, <2>2
<1>3. ASSUME NEW i \in 1 .. n PROVE hit(i) \in HitsOf(ask.q)
  <2>1. found[i] \in VerseRow
    BY <1>1
  <2>2. found[i].verse \in TextVerses
    BY <2>1 DEF VerseRow
  <2> QED BY <2>2 DEF HitsOf
<1>4. step \in Steps(n, T)
  BY <1>3, AddHitType DEF Steps
<1>5. PICK f \in [0 .. n -> T] : f[0] = s0 /\ \A i \in 1 .. n : f[i] = step[i][f[i - 1]]
  <2> HIDE DEF step, n, hits, T, s0
  <2>1. Folds(n, T, s0, step) # {}
    BY <1>1, <1>2, <1>4, FoldExists
  <2> QED BY <2>1 DEF Folds
<1>6. f = F(f)
  <2>1. ASSUME NEW i \in 1 .. n PROVE f[i] = AddHit(f[i - 1], hit(i))
    <3>1. f[i - 1] \in T
      BY <1>5
    <3> QED BY <1>5, <3>1
  <2> QED BY <1>5, <2>1
<1>7. hits = F(hits)
  BY <1>6
<1> HIDE DEF hits
<1>8. \A i \in 0 .. n : hits[i] \in T
  <2> DEFINE P == {i \in 0 .. n : hits[i] \in T}
  <2>1. 0 \in P
    BY <1>1, <1>2, <1>7
  <2>2. ASSUME NEW i \in 1 .. n, i - 1 \in P PROVE i \in P
    <3>1. hits[i] = AddHit(hits[i - 1], hit(i))
      <4>1. i \in 0 .. n /\ i # 0
        BY <1>1
      <4> HIDE DEF n, hit
      <4> QED BY <1>7, <4>1
    <3>2. hit(i) \in HitsOf(ask.q) /\ hits[i - 1] \in T
      BY <1>3, <2>2
    <3> HIDE DEF T
    <3>3. hits[i] \in T
      BY <3>1, <3>2, AddHitType DEF T
    <3> QED BY <3>3
  <2> HIDE DEF P
  <2>3. \A i \in 0 .. n : i \in P
    BY <1>1, <2>1, <2>2, UpTo
  <2> QED BY <2>3 DEF P
<1>9. all \in Seq(HitsOf(ask.q) \cup {typed}) /\ BibleList(all) /\ Len(all) \in Nat
  BY <1>1, <1>8 DEF BibleLists
<1>10. BibleHits(found) = SubSeq(all, 1, m)
  BY DEF BibleHits, hits
<1>11. m \in Nat /\ m <= PerGroup /\ m <= Len(all) /\ (Len(all) # 0 => m # 0)
  BY <1>1, <1>9, MinMaxOfTwo
<1> HIDE DEF all, m
<1> DEFINE s == SubSeq(all, 1, m)
<1>12. s \in Seq(HitsOf(ask.q) \cup {typed}) /\ Len(s) = m /\ \A i \in 1 .. m : s[i] = all[i]
  <2>1. \A i \in 1 .. m : all[i] \in HitsOf(ask.q) \cup {typed}
    BY <1>9, <1>11
  <2>2. /\ s \in Seq(HitsOf(ask.q) \cup {typed})
        /\ Len(s) = IF 1 <= m THEN m - 1 + 1 ELSE 0
        /\ \A i \in 1 .. m - 1 + 1 : s[i] = all[1 + i - 1]
    BY <1>11, <2>1, SubSeqProperties
  <2> HIDE DEF s
  <2>3. Len(s) = m
    BY <1>11, <2>2
  <2>4. ASSUME NEW i \in 1 .. m PROVE s[i] = all[i]
    <3>1. i \in 1 .. m - 1 + 1 /\ 1 + i - 1 = i
      BY <1>11
    <3> QED BY <2>2, <3>1
  <2> QED BY <2>2, <2>3, <2>4
<1> HIDE DEF s
<1>13. BibleList(s)
  <2>1. DOMAIN s = 1 .. m /\ DOMAIN all = 1 .. Len(all)
    BY <1>9, <1>12
  <2>2. \A i \in 1 .. m : i \in DOMAIN all
    BY <1>9, <1>11, <2>1
  <2>3. ASSUME NEW i \in 2 .. m PROVE s[i].ref # s[1].ref
    <3>1. i \in 1 .. m /\ 1 \in 1 .. m /\ i \in 2 .. Len(all)
      BY <1>9, <1>11
    <3> QED BY <1>9, <1>12, <3>1 DEF BibleList
  <2>4. ASSUME NEW i \in DOMAIN s PROVE s[i] \in HitsOf(ask.q) \/ (i = 1 /\ typed # NoHit /\ s[i] = typed)
    <3>1. i \in 1 .. m /\ i \in DOMAIN all
      BY <2>1, <2>2
    <3> QED BY <1>9, <1>12, <3>1 DEF BibleList
  <2>5. typed # NoHit => s # <<>> /\ s[1] = typed
    <3>1. typed # NoHit => Len(all) # 0 /\ all[1] = typed
      BY <1>9 DEF BibleList
    <3>2. m # 0 => 1 \in 1 .. m
      BY <1>11
    <3>3. m # 0 => s # <<>>
      BY <1>12
    <3> QED BY <1>11, <1>12, <3>1, <3>2, <3>3
  <2> QED BY <1>12, <2>3, <2>4, <2>5 DEF BibleList
<1> QED BY <1>10, <1>11, <1>12, <1>13 DEF BibleLists, s

-----------------------------------------------------------------------------
(* Search: the groups of an answer. *)

HitOK(g, hit) ==
  IF g.scope = "hymns" THEN hit.snippet = Whole(hit.text)
  ELSE Fits(hit) /\ (Shows(hit, ask.q) \/ IsTyped(g, hit))
GroupOK(g) ==
  /\ Len(g.hits) <= PerGroup
  /\ g.scope = "bible" => \A i \in 2 .. Len(g.hits) : g.hits[i].ref # g.hits[1].ref
  /\ \A hit \in Range(g.hits) : HitOK(g, hit)
GroupsOK == groups \in Seq(Range(groups)) /\ \A g \in Range(groups) : GroupOK(g)

SearchOK ==
  /\ IsFiniteSet(verses)
  /\ pc \in Searching => ask.q # <<>>
  /\ pc = "reference verse" => ask.ref # NoRef /\ name \in FindBookByName(ask.ref.name, ask.lang)
  /\ pc # "bible" => typed = NoHit
  /\ TypedOK
  /\ pc \notin Searching => groups = <<>>
  /\ GroupsOK
  /\ Found => \A g \in Range(answer.groups) : GroupOK(g)
SearchInv == ReaderInv /\ SearchOK

\* What a group promises depends on the request alone.
LEMMA SameTyped == UNCHANGED ask => TypedRefs' = TypedRefs
BY DEF TypedRefs, TypedVerse

LEMMA SameGroup == UNCHANGED ask => \A g : GroupOK(g)' <=> GroupOK(g)
BY SameTyped DEF GroupOK, HitOK, IsTyped

LEMMA HitFits ==
  ASSUME NEW ref, NEW text \in Words, NEW q \in Words
  PROVE  LET hit == Hit(ref, text, q) IN Fits(hit) /\ (q # <<>> => Shows(hit, q))
<1> DEFINE hit == Hit(ref, text, q)
           s == Snippet(text, q)
<1>1. hit.text = text /\ hit.snippet = s
  BY DEF Hit
<1> HIDE DEF hit, s
<1>2. /\ 0 <= s.from /\ s.to <= Len(text)
      /\ s.to - s.from = Min({SnippetRunes, Len(text)})
      /\ q # <<>> /\ Occurs(q, text) # {} => s.from <= Min(Occurs(q, text)) /\ Min(Occurs(q, text)) < s.to
      /\ q = <<>> \/ Occurs(q, text) = {} => s.from = 0
  BY SnippetFits DEF s
<1> QED BY <1>1, <1>2 DEF Fits, Shows, hit

LEMMA TextVerseType == \A v \in TextVerses : v \in VerseRec /\ v.text \in Words
<1> SUFFICES ASSUME NEW v \in TextVerses PROVE v \in VerseRec /\ v.text \in Words
  OBVIOUS
<1>1. PICK a \in Archives : v \in Kept[a]
  BY DEF TextVerses
<1>2. v \in VerseRec
  BY <1>1, KeptType
<1> QED BY <1>2 DEF VerseRec

LEMMA HitsOfFit ==
  ASSUME NEW q \in Words, NEW hit \in HitsOf(q)
  PROVE  Fits(hit) /\ (q # <<>> => Shows(hit, q))
<1>1. PICK v \in TextVerses : hit = Hit(RefOf(v), v.text, q)
  BY DEF HitsOf
<1> QED BY <1>1, TextVerseType, HitFits

\* One more group of hits, or none when there are none.
LEMMA AddGroupOK ==
  ASSUME GroupsOK, NEW scope, NEW hits, AddGroup(scope, hits), UNCHANGED ask,
         GroupOK([scope |-> scope, hits |-> hits])
  PROVE  GroupsOK'
<1> DEFINE g0 == [scope |-> scope, hits |-> hits]
<1>1. CASE groups' = groups
  BY <1>1, SameGroup DEF GroupsOK
<1>2. CASE groups' = Append(groups, g0)
  <2>1. groups' \in Seq(Range(groups')) /\ Range(groups') = Range(groups) \cup {g0}
    <3> HIDE DEF g0
    <3> QED BY <1>2, AppendOne DEF GroupsOK
  <2>2. \A g \in Range(groups') : GroupOK(g)
    BY <2>1 DEF GroupsOK
  <2>3. \A g : GroupOK(g)' <=> GroupOK(g)
    BY SameGroup
  <2> QED BY <2>1, <2>2, <2>3 DEF GroupsOK
<1> QED BY <1>1, <1>2 DEF AddGroup

\* The group of another scope: texts, or hymns with their categories.
LEMMA ScopeGroupOK ==
  ASSUME NEW scope, scope # "bible", NEW S, NEW found \in Seq(S), Len(found) <= PerGroup,
         scope # "hymns" => \A r \in S : r.text \in Words,
         ask.q \in Words, ask.q # <<>>
  PROVE  GroupOK([scope |-> scope, hits |-> [i \in DOMAIN found |-> HitIn(scope, found[i])]])
<1> DEFINE hits == [i \in DOMAIN found |-> HitIn(scope, found[i])]
           g == [scope |-> scope, hits |-> hits]
<1>1. DOMAIN found = 1 .. Len(found) /\ Len(found) \in Nat
  OBVIOUS
<1>2. Len(hits) = Len(found) /\ DOMAIN hits = DOMAIN found
  BY <1>1
<1>3. ASSUME NEW i \in DOMAIN found
      PROVE  IF scope = "hymns" THEN hits[i].snippet = Whole(hits[i].text)
             ELSE Fits(hits[i]) /\ Shows(hits[i], ask.q)
  <2>1. hits[i] = HitIn(scope, found[i])
    OBVIOUS
  <2> HIDE DEF hits
  <2>2. CASE scope = "hymns"
    <3>1. hits[i] = [ref |-> found[i].ref, text |-> found[i].category, snippet |-> Whole(found[i].category)]
      BY <2>1, <2>2 DEF HitIn
    <3> QED BY <2>2, <3>1
  <2>3. CASE scope # "hymns"
    <3>1. hits[i] = Hit(found[i].ref, found[i].text, ask.q)
      BY <2>1, <2>3 DEF HitIn
    <3>2. found[i].text \in Words
      BY <1>1, <2>3
    <3> QED BY <2>3, <3>1, <3>2, HitFits
  <2> QED BY <2>2, <2>3
<1>4. g.scope = scope /\ g.hits = hits
  OBVIOUS
<1> HIDE DEF g
<1>5. \A hit \in Range(hits) : HitOK(g, hit)
  <2> HIDE DEF hits
  <2> QED BY <1>2, <1>3, <1>4 DEF Range, HitOK
<1> HIDE DEF hits
<1> QED BY <1>2, <1>4, <1>5 DEF GroupOK, g, hits

LEMMA SearchInitInv == Init => SearchInv
<1> SUFFICES ASSUME Init PROVE SearchInv
  OBVIOUS
<1>1. ReaderInv
  BY ReaderInit
<1>2. IsFiniteSet(verses)
  BY FS_EmptySet DEF Init, IngestInit
<1>3. pc = "idle" /\ answer = NoAnswer /\ typed = NoHit /\ groups = <<>>
  BY DEF Init, ReadInit, SearchInit
<1>4. Range(groups) = {} /\ groups \in Seq(Range(groups))
  BY <1>3 DEF Range
<1>5. ~Found
  BY <1>3 DEF Found, NoAnswer
<1>6. GroupsOK /\ TypedOK
  <2>1. TypedOK
    BY <1>3 DEF TypedOK
  <2>2. GroupsOK
    BY <1>4 DEF GroupsOK
  <2> QED BY <2>1, <2>2
<1> QED BY <1>1, <1>2, <1>3, <1>5, <1>6 DEF SearchInv, SearchOK, Searching

\* A step that reads only: no import changes the tables or the request.
LEMMA VersesFinite == IngestInv /\ IsFiniteSet(verses) /\ [Next]_vars => IsFiniteSet(verses')
<1> SUFFICES ASSUME IngestInv, IsFiniteSet(verses), [Next]_vars PROVE IsFiniteSet(verses')
  OBVIOUS
<1>1. CASE verses' = verses
  BY <1>1
<1>2. ASSUME NEW j \in Jobs, Commit(j) PROVE IsFiniteSet(verses')
  <2> DEFINE c0 == job[j].code
             kept == Kept[job[j].archive]
             new == {[code |-> c0, verse |-> v] : v \in kept}
             f == [v \in kept |-> [code |-> c0, verse |-> v]]
  <2>1. job[j].archive \in Archives /\ TxOK(j) /\ Holds(j) /\ Running(j)
    BY <1>2, CommitEffect DEF InTxJob, IngestInv, Holds, Commit, Running, InTx
  <2>2. verses' = (verses \ {r \in verses : r.code = c0}) \cup new
    BY <1>2, <2>1 DEF Commit, TxOK, Holds, InTx, RowsOf
  <2>3. IsFiniteSet(kept)
    BY <2>1, KeptType
  <2>4. f \in [kept -> new] /\ \A r \in new : \E v \in kept : f[v] = r
    OBVIOUS
  <2> HIDE DEF f, new, kept
  <2>5. IsFiniteSet(new)
    BY <2>3, <2>4, ImageFinite
  <2>6. (verses \ {r \in verses : r.code = c0}) \in SUBSET verses
    OBVIOUS
  <2>7. IsFiniteSet(verses \ {r \in verses : r.code = c0})
    BY <2>6, FS_Subset
  <2> QED BY <2>2, <2>5, <2>7, FS_Union
<1>3. ASSUME NEW j \in Jobs, Import(j) PROVE Commit(j) \/ verses' = verses
  BY <1>3 DEF Import, Prepare, UpsertSource, UpsertTranslation, DeleteVerses, CopyVerses, Exit
<1> QED BY <1>1, <1>2, <1>3 DEF Next, IngestNext, vars, bibleVars, ingestVars

\* A step that leaves the search and its answer alone.
LEMMA SearchKept ==
  ASSUME SearchOK, IsFiniteSet(verses'), UNCHANGED <<pc, ask, name, answer, typed, groups>>
  PROVE  SearchOK'
<1>1. \A g : GroupOK(g)' <=> GroupOK(g)
  BY SameGroup
<1>2. GroupsOK'
  BY <1>1 DEF SearchOK, GroupsOK
<1>3. TypedOK'
  BY SameTyped DEF SearchOK, TypedOK
<1>4. Found' => \A g \in Range(answer'.groups) : GroupOK(g)'
  BY <1>1 DEF SearchOK, Found
<1> QED BY <1>2, <1>3, <1>4 DEF SearchOK

\* A step of a reader's request: no search is answered.
LEMMA ReadsAreNoSearch ==
  ASSUME SearchInv, Reads
  PROVE  pc \notin Searching /\ pc' \notin Searching /\ pc' # "bible" /\ ~Found'
<1>1. pc \notin Searching /\ pc' \notin Searching /\ pc' # "bible" /\ ~Found'
  <2>1. CASE Ask \/ Done
    <3>1. answer' = NoAnswer /\ pc \notin Searching /\ pc' \notin Searching /\ pc' # "bible"
      BY <2>1 DEF Ask, Done, Request, Searching
    <3> QED BY <3>1 DEF Found, NoAnswer
  <2>2. CASE ~(Ask \/ Done)
    <3>1. pc \in {"translation", "verses", "name", "parallel", "parallel verses", "books", "list"} /\ ask' = ask
      BY <2>2 DEF Reads, FindTranslation, ReadVerses, ReadName, FindParallel, ReadParallel, ReadBooks,
         ReadTranslations, FailRead, Answer
    <3>2. ask.op # "search"
      BY <3>1, AskKinds DEF SearchInv, ReaderInv, ReadOK, AskOK
    <3>3. pc' \in {"translation", "verses", "name", "parallel", "parallel verses", "books", "list", "answered"}
      BY <2>2 DEF Reads, FindTranslation, ReadVerses, ReadName, FindParallel, ReadParallel, ReadBooks,
         ReadTranslations, FailRead, Answer
    <3> QED BY <3>1, <3>2, <3>3 DEF Found, Searching
  <2> QED BY <2>1, <2>2
<1> QED BY <1>1

LEMMA ReadsFindNothing ==
  ASSUME SearchInv, Reads, UNCHANGED <<ingestVars, typed, groups>>
  PROVE  SearchOK'
<1>1. pc \notin Searching /\ pc' \notin Searching /\ pc' # "bible" /\ ~Found'
  BY ReadsAreNoSearch
<1>2. groups = <<>> /\ groups' = groups /\ typed' = typed /\ verses' = verses /\ typed = NoHit
  BY <1>1 DEF SearchInv, SearchOK, ingestVars, Searching
<1>3. Range(groups') = {} /\ groups' \in Seq(Range(groups'))
  BY <1>2 DEF Range
<1>4. TypedOK'
  BY <1>2 DEF TypedOK
<1>5. GroupsOK'
  BY <1>3 DEF GroupsOK
<1>6. pc' # "reference verse"
  BY <1>1 DEF Searching
<1> QED BY <1>1, <1>2, <1>4, <1>5, <1>6 DEF SearchOK, SearchInv

LEMMA NothingFound == \A a : a \in {NoAnswer, [status |-> 400], [status |-> 500]} => a.status # 200
BY DEF NoAnswer

\* A step of a search that goes on: the typed verse is found or used, a group comes.
LEMMA SearchOn ==
  ASSUME SearchInv, pc \in Searching, pc' \in Searching, UNCHANGED <<ask, answer, verses>>,
         pc' = "reference verse" => ask.ref # NoRef /\ name' \in FindBookByName(ask.ref.name, ask.lang),
         pc' # "bible" => typed' = NoHit,
         TypedOK', GroupsOK'
  PROVE  SearchOK'
<1>1. answer = NoAnswer
  BY DEF SearchInv, ReaderInv, ReadOK, FoundOK, Searching
<1>2. ~Found'
  BY <1>1, NothingFound DEF Found
<1> QED BY <1>2 DEF SearchInv, SearchOK

LEMMA SameGroups == GroupsOK /\ UNCHANGED <<groups, ask>> => GroupsOK'
<1> QED BY SameGroup DEF GroupsOK

\* While a search runs, its request has words to look for.
LEMMA SearchAsk ==
  ASSUME SearchInv, pc \in Searching
  PROVE  /\ ask \in SearchAsks /\ ask.q \in Words /\ ask.q # <<>> /\ ask.op = "search"
         /\ answer = NoAnswer /\ GroupsOK /\ TypedOK /\ IsFiniteSet(verses) /\ verses \subseteq VerseRow
<1>1. ask \in SearchAsks
  BY DEF SearchInv, ReaderInv, ReadOK, AskOK
<1>2. answer = NoAnswer
  BY DEF SearchInv, ReaderInv, ReadOK, FoundOK, Searching
<1>3. ask.q \in Words /\ ask.op = "search"
  BY <1>1, SearchAssumption DEF SearchAssumption
<1>4. verses \subseteq VerseRow
  BY DEF SearchInv, ReaderInv, IngestInv, TablesOK
<1> QED BY <1>1, <1>2, <1>3, <1>4 DEF SearchInv, SearchOK

LEMMA AskSearchStep == ASSUME SearchInv, AskSearch, UNCHANGED ingestVars PROVE SearchOK'
<1>1. PICK a \in SearchAsks :
        /\ ask' = a
        /\ IF Accepted(a) THEN pc' = "reference" /\ answer' = NoAnswer
           ELSE pc' = "answered" /\ answer' = [status |-> 400]
  BY DEF AskSearch
<1>2. pc = "idle" /\ UNCHANGED <<verses, typed, groups>>
  BY DEF AskSearch, ingestVars
<1>3. pc \notin Searching
  BY <1>2 DEF Searching
<1>4. typed = NoHit /\ groups = <<>> /\ IsFiniteSet(verses)
  BY <1>2, <1>3 DEF SearchInv, SearchOK
<1>5. pc' \in Searching => ask'.q # <<>>
  BY <1>1 DEF Accepted, Searching
<1>6. pc' # "reference verse" /\ ~Found'
  <2>1. answer'.status # 200
    BY <1>1, NothingFound
  <2>2. pc' # "reference verse"
    BY <1>1
  <2> QED BY <2>1, <2>2 DEF Found
<1>7. Range(groups') = {} /\ groups' \in Seq(Range(groups'))
  BY <1>2, <1>4 DEF Range
<1>8. GroupsOK'
  BY <1>7 DEF GroupsOK
<1>9. TypedOK'
  BY <1>2, <1>4 DEF TypedOK
<1> QED BY <1>2, <1>4, <1>5, <1>6, <1>8, <1>9 DEF SearchOK

LEMMA FindBookStep == ASSUME SearchInv, FindBook, UNCHANGED ingestVars PROVE SearchOK'
<1>1. pc \in Searching /\ pc' \in Searching /\ typed = NoHit /\ UNCHANGED <<ask, answer, typed, groups, verses>>
  BY DEF FindBook, Searching, SearchInv, SearchOK, ingestVars
<1>2. pc' = "reference verse" => ask.ref # NoRef /\ name' \in FindBookByName(ask.ref.name, ask.lang)
  BY DEF FindBook
<1>3. TypedOK' /\ GroupsOK'
  BY <1>1, SearchAsk, SameGroups DEF TypedOK
<1> QED BY <1>1, <1>2, <1>3, SearchOn

LEMMA FindVerseStep == ASSUME SearchInv, FindVerse, UNCHANGED ingestVars PROVE SearchOK'
<1>1. /\ pc = "reference verse" /\ pc' = "bible" /\ typed = NoHit /\ ask.ref # NoRef
      /\ name \in FindBookByName(ask.ref.name, ask.lang)
      /\ UNCHANGED <<ask, answer, groups, verses>>
  BY DEF FindVerse, SearchInv, SearchOK, ingestVars
<1>2. pc \in Searching /\ pc' \in Searching
  BY <1>1 DEF Searching
<1>3. CASE typed' = typed
  BY <1>1, <1>2, <1>3, SearchAsk, SameGroups, SearchOn DEF TypedOK
<1>4. CASE \E r \in verses : /\ typed' = Hit(RefOf(r.verse), r.verse.text, <<>>)
                             /\ RefOf(r.verse) = <<name, ask.ref.chapter, TypedVerse>>
  <2>1. PICK r \in verses : /\ typed' = Hit(RefOf(r.verse), r.verse.text, <<>>)
                            /\ RefOf(r.verse) = <<name, ask.ref.chapter, TypedVerse>>
    BY <1>4
  <2>2. r \in VerseRow
    BY <1>2, SearchAsk
  <2>3. r.verse \in TextVerses
    BY <2>2 DEF VerseRow
  <2>4. typed' \in HitsOf(<<>>)
    BY <2>1, <2>3 DEF HitsOf
  <2>5. typed'.ref \in TypedRefs
    BY <1>1, <2>1 DEF Hit, TypedRefs
  <2>6. TypedOK'
    BY <1>1, <2>4, <2>5, SameTyped DEF TypedOK, HitsOf
  <2> QED BY <1>1, <1>2, <2>6, SearchAsk, SameGroups, SearchOn
<1> QED BY <1>3, <1>4 DEF FindVerse, GetVerseInLang

\* The verses that a search finds.
LEMMA FoundVerses ==
  ASSUME SearchInv, pc \in Searching, NEW found \in SearchVerses(ask.q, ask.lang)
  PROVE  found \in Seq(VerseRow)
<1> DEFINE S == {r \in verses : trans[r.code].lang = ask.lang /\ FullText(r.verse.text, ask.q)}
<1>1. S \in SUBSET verses /\ PerGroup \in Nat /\ found \in Limited(S, PerGroup)
  BY SearchAssumption DEF SearchAssumption, SearchVerses
<1> HIDE DEF S
<1>2. IsFiniteSet(S) /\ S \subseteq VerseRow
  BY <1>1, SearchAsk, FS_Subset
<1>3. found \in Seq(S)
  BY <1>1, <1>2, LimitedRows
<1> QED BY <1>2, <1>3, SeqMonotonic

LEMMA SearchBibleStep == ASSUME SearchInv, SearchBible, UNCHANGED ingestVars PROVE SearchOK'
<1>1. pc = "bible" /\ pc' = "egw" /\ typed' = NoHit /\ UNCHANGED <<ask, answer, verses>>
  BY DEF SearchBible, Goto, ingestVars
<1>2. pc \in Searching /\ pc' \in Searching
  BY <1>1 DEF Searching
<1>3. PICK found \in SearchVerses(ask.q, ask.lang) : AddGroup("bible", BibleHits(found))
  BY DEF SearchBible
<1> DEFINE hits == BibleHits(found)
           g == [scope |-> "bible", hits |-> hits]
<1>4. found \in Seq(VerseRow)
  BY <1>2, <1>3, FoundVerses
<1>5. hits \in BibleLists /\ Len(hits) <= PerGroup
  BY <1>4, BibleHitsType
<1> HIDE DEF hits
<1>6. BibleList(hits) /\ hits \in Seq(HitsOf(ask.q) \cup {typed})
  BY <1>5 DEF BibleLists
<1>7. ASSUME NEW i \in DOMAIN hits
      PROVE  /\ Fits(hits[i])
             /\ Shows(hits[i], ask.q) \/ (ask.ref # NoRef /\ hits[i] = hits[1] /\ hits[i].ref \in TypedRefs)
  <2>1. CASE hits[i] \in HitsOf(ask.q)
    BY <1>2, <2>1, SearchAsk, HitsOfFit
  <2>2. CASE i = 1 /\ typed # NoHit /\ hits[i] = typed
    <3>1. typed \in HitsOf(<<>>) /\ ask.ref # NoRef /\ typed.ref \in TypedRefs
      BY <1>2, <2>2, SearchAsk DEF TypedOK
    <3>2. <<>> \in Words
      BY DEF Words
    <3> QED BY <2>2, <3>1, <3>2, HitsOfFit
  <2> QED BY <1>6, <2>1, <2>2 DEF BibleList
<1>8. GroupOK(g)
  <2>1. g.scope = "bible" /\ g.hits = hits
    OBVIOUS
  <2>2. \A hit \in Range(hits) : HitOK(g, hit)
    <3> HIDE DEF g
    <3> QED BY <1>7, <2>1 DEF Range, HitOK, IsTyped
  <2>3. \A i \in 2 .. Len(hits) : hits[i].ref # hits[1].ref
    BY <1>6 DEF BibleList
  <2> HIDE DEF g
  <2> QED BY <1>5, <2>1, <2>2, <2>3 DEF GroupOK
<1>9. GroupsOK'
  BY <1>1, <1>2, <1>3, <1>8, SearchAsk, AddGroupOK DEF hits
<1>10. TypedOK' /\ pc' # "reference verse"
  BY <1>1 DEF TypedOK
<1> QED BY <1>1, <1>2, <1>9, <1>10, SearchOn

\* A scope other than the Bible: its group, or nothing when it is not wanted.
LEMMA ScopeStep ==
  ASSUME SearchInv, NEW scope \in Searching \ {"bible"}, NEW next \in Searching \ {"bible", "reference verse"},
         NEW results, NEW S, Scope(scope, next, results), UNCHANGED ingestVars,
         \A found \in results : found \in Seq(S) /\ Len(found) <= PerGroup,
         scope # "hymns" => \A r \in S : r.text \in Words
  PROVE  SearchOK'
<1>1. /\ pc = scope /\ pc' = next /\ UNCHANGED <<ask, answer, typed, verses>>
      /\ pc \in Searching /\ pc' \in Searching /\ typed = NoHit
  BY DEF Scope, Goto, SearchInv, SearchOK, ingestVars
<1>2. GroupsOK'
  <2>1. CASE groups' = groups
    BY <1>1, <2>1, SearchAsk, SameGroups
  <2>2. ASSUME NEW found \in results,
               AddGroup(scope, [i \in DOMAIN found |-> HitIn(scope, found[i])])
        PROVE  GroupsOK'
    <3>1. GroupOK([scope |-> scope, hits |-> [i \in DOMAIN found |-> HitIn(scope, found[i])]])
      BY <1>1, SearchAsk, ScopeGroupOK
    <3> QED BY <1>1, <2>2, <3>1, SearchAsk, AddGroupOK
  <2> QED BY <2>1, <2>2 DEF Scope
<1>3. TypedOK'
  BY <1>1 DEF TypedOK
<1> QED BY <1>1, <1>2, <1>3, SearchOn

LEMMA ScopesStep ==
  ASSUME SearchInv, SearchParagraphs \/ SearchDoctrine \/ SearchHymnals \/ SearchFeed, UNCHANGED ingestVars
  PROVE  SearchOK'
<1>1. /\ {"egw", "beliefs", "hymns", "video"} \subseteq Searching \ {"bible"}
      /\ {"beliefs", "hymns", "video", "groups"} \subseteq Searching \ {"bible", "reference verse"}
  BY DEF Searching
<1>2. /\ PerGroup \in Nat /\ IsFiniteSet(Paragraphs) /\ IsFiniteSet(BeliefTexts) /\ IsFiniteSet(Videos)
      /\ \A r \in Paragraphs \cup BeliefTexts \cup Videos : r.text \in Words
  BY SearchAssumption DEF SearchAssumption
<1>3. ASSUME NEW rows_, IsFiniteSet(rows_), NEW S \in SUBSET rows_, NEW found \in Limited(S, PerGroup)
      PROVE  found \in Seq(rows_) /\ Len(found) <= PerGroup
  BY <1>2, <1>3, FS_Subset, LimitedRows, SeqMonotonic
<1>4. CASE SearchParagraphs
  <2>1. \A found \in SearchEgw(ask.q, ask.lang) : found \in Seq(Paragraphs) /\ Len(found) <= PerGroup
    BY <1>2, <1>3 DEF SearchEgw
  <2> QED BY <1>1, <1>2, <1>4, <2>1, ScopeStep DEF SearchParagraphs
<1>5. CASE SearchDoctrine
  <2>1. \A found \in SearchBeliefs(ask.q, ask.lang) : found \in Seq(BeliefTexts) /\ Len(found) <= PerGroup
    BY <1>2, <1>3 DEF SearchBeliefs
  <2> QED BY <1>1, <1>2, <1>5, <2>1, ScopeStep DEF SearchDoctrine
<1>6. CASE SearchHymnals
  <2>1. \A found \in SearchHymns(ask.q, ask.lang) : found \in Seq(Hymns) /\ Len(found) <= PerGroup
    BY HymnRows
  <2> QED BY <1>1, <1>2, <1>6, <2>1, ScopeStep DEF SearchHymnals
<1>7. CASE SearchFeed
  <2>1. \A found \in SearchVideos(ask.q, ask.lang) : found \in Seq(Videos) /\ Len(found) <= PerGroup
    BY <1>2, <1>3 DEF SearchVideos
  <2> QED BY <1>1, <1>2, <1>7, <2>1, ScopeStep DEF SearchFeed
<1> QED BY <1>4, <1>5, <1>6, <1>7

LEMMA SearchEnds ==
  ASSUME SearchInv, ReturnGroups \/ FailSearch, UNCHANGED ingestVars
  PROVE  SearchOK'
<1>1. pc' = "answered" /\ ask' = ask /\ groups' = <<>> /\ typed' = NoHit /\ verses' = verses
  BY DEF ReturnGroups, FailSearch, Answer, SearchInv, SearchOK, ingestVars
<1>2. Found' => \A g \in Range(answer'.groups) : GroupOK(g)
  <2>1. CASE ReturnGroups
    <3>1. answer' = [status |-> 200, groups |-> groups]
      BY <2>1 DEF ReturnGroups, Answer
    <3>2. answer'.groups = groups
      BY <3>1
    <3> QED BY <3>2 DEF SearchInv, SearchOK, GroupsOK
  <2>2. CASE FailSearch
    <3>1. answer' = [status |-> 500]
      BY <2>2 DEF FailSearch, Answer
    <3>2. answer'.status # 200
      BY <3>1
    <3> QED BY <3>2 DEF Found
  <2> QED BY <2>1, <2>2
<1>3. \A g : GroupOK(g)' <=> GroupOK(g)
  BY <1>1, SameGroup
<1>4. Range(groups') = {} /\ groups' \in Seq(Range(groups'))
  BY <1>1 DEF Range
<1>5. GroupsOK' /\ TypedOK'
  <2>1. TypedOK'
    BY <1>1 DEF TypedOK
  <2>2. GroupsOK'
    BY <1>4 DEF GroupsOK
  <2> QED BY <2>1, <2>2
<1>6. pc' \notin Searching /\ pc' # "reference verse" /\ IsFiniteSet(verses')
  BY <1>1 DEF Searching, SearchInv, SearchOK
<1> QED BY <1>1, <1>2, <1>3, <1>5, <1>6 DEF SearchOK

LEMMA SearchStep == SearchInv /\ [Next]_vars => SearchInv'
<1> SUFFICES ASSUME SearchInv, [Next]_vars PROVE SearchInv'
  OBVIOUS
<1>1. ReaderInv' /\ IsFiniteSet(verses')
  BY ReaderStep, VersesFinite DEF SearchInv, SearchOK, ReaderInv
<1>2. CASE SearchSteps /\ UNCHANGED ingestVars
  BY <1>1, <1>2, AskSearchStep, FindBookStep, FindVerseStep, SearchBibleStep, ScopesStep, SearchEnds
  DEF SearchSteps, SearchInv
<1>3. CASE Reads /\ UNCHANGED <<ingestVars, typed, groups>>
  BY <1>1, <1>3, ReadsFindNothing DEF SearchInv
<1>4. CASE IngestNext /\ Witness /\ UNCHANGED <<pc, ask, tr, rows, name, ptr, answer, typed, groups>>
  BY <1>1, <1>4, SearchKept DEF SearchInv
<1>5. CASE UNCHANGED vars
  BY <1>1, <1>5, SearchKept DEF SearchInv, vars, bibleVars, readVars
<1> QED BY <1>2, <1>3, <1>4, <1>5 DEF Next

LEMMA SearchIsInvariant == Spec => []SearchInv
BY SearchInitInv, SearchStep, PTL DEF Spec

-----------------------------------------------------------------------------
(* Search: the typed verse, if it stands. *)

\* A typed verse that stood since the search came is found, stays and is answered.
IsFirst(gs) == \E g \in BibleGroups(gs) : g.hits[1].ref \in TypedRefs
AfterBible == {"egw", "beliefs", "hymns", "video", "groups"}
FirstOK ==
  /\ stood \subseteq Standing
  /\ pc = "bible" /\ TypedStood => typed # NoHit
  /\ pc \in AfterBible /\ TypedStood => IsFirst(groups)
  /\ Found /\ TypedStood => IsFirst(answer.groups)

LEMMA StoodStands == Remember => stood' \subseteq Standing'
BY DEF Remember

\* What stood at the end of a step of a search stood before.
LEMMA StillStood ==
  ASSUME Remember, pc # "idle", UNCHANGED ask, TypedStood'
  PROVE  TypedStood
<1>1. stood' \subseteq stood
  BY DEF Remember
<1>2. TypedRefs' = TypedRefs
  BY SameTyped
<1>3. Wants("bible")' <=> Wants("bible")
  BY DEF Wants
<1> QED BY <1>1, <1>2, <1>3 DEF TypedStood

\* A step that keeps the request, its place, its answer and its groups.
LEMMA FirstKept ==
  ASSUME FirstOK, stood' \subseteq Standing', UNCHANGED <<pc, ask, answer, typed, groups>>,
         pc # "idle" /\ TypedStood' => TypedStood, answer = NoAnswer \/ pc # "idle"
  PROVE  FirstOK'
<1>1. \A gs : IsFirst(gs)' <=> IsFirst(gs)
  BY SameTyped DEF IsFirst, BibleGroups
<1>2. pc \in AfterBible => pc # "idle"
  BY DEF AfterBible
<1>3. Found => pc # "idle"
  BY DEF Found, NoAnswer
<1>4. Found' <=> Found
  BY DEF Found
<1>5. IsFirst(groups)' <=> IsFirst(groups)
  BY SameTyped DEF IsFirst, BibleGroups
<1>6. IsFirst(answer.groups)' <=> IsFirst(answer.groups)
  BY SameTyped DEF IsFirst, BibleGroups
<1>7. pc = "bible" => pc # "idle"
  OBVIOUS
<1> QED BY <1>2, <1>3, <1>4, <1>5, <1>6, <1>7 DEF FirstOK

\* A step that answers nothing and leaves the search before its queries, or none.
LEMMA NothingFirst ==
  ASSUME Remember, ~Found', pc' # "bible", pc' \notin AfterBible
  PROVE  FirstOK'
BY StoodStands DEF FirstOK

LEMMA FindBookFirst == ASSUME SearchInv, FirstOK, FindBook, Remember PROVE FirstOK'
<1>1. pc = "reference" /\ UNCHANGED <<ask, answer>>
  BY DEF FindBook
<1>2. ~Found' /\ TypedRefs' = TypedRefs
  <2>1. answer = NoAnswer
    BY <1>1, SearchAsk DEF Searching
  <2> QED BY <1>1, <2>1, NothingFound, SameTyped DEF Found
<1>3. CASE ~Wants("bible")
  <2>1. pc' = "egw" /\ ~TypedStood'
    BY <1>1, <1>3 DEF FindBook, TypedStood, Wants
  <2> QED BY <1>2, <2>1, StoodStands DEF FirstOK
<1>4. CASE Wants("bible") /\ (ask.ref = NoRef \/ FindBookByName(ask.ref.name, ask.lang) = {})
  <2>1. pc' = "bible"
    BY <1>4 DEF FindBook
  <2>2. ask.ref # NoRef => TypedRefs = {}
    BY <1>4 DEF TypedRefs
  <2>3. ~TypedStood'
    BY <1>1, <1>2, <2>2 DEF TypedStood
  <2> QED BY <1>2, <2>1, <2>3, StoodStands DEF FirstOK, AfterBible
<1>5. CASE Wants("bible") /\ ask.ref # NoRef /\ FindBookByName(ask.ref.name, ask.lang) # {}
  <2>1. pc' = "reference verse"
    BY <1>5 DEF FindBook
  <2> QED BY <1>2, <2>1, NothingFirst DEF AfterBible
<1> QED BY <1>3, <1>4, <1>5

LEMMA FindVerseFirst == ASSUME SearchInv, FirstOK, FindVerse, Remember PROVE FirstOK'
<1>1. /\ pc = "reference verse" /\ pc' = "bible" /\ UNCHANGED <<ask, answer>>
      /\ name \in FindBookByName(ask.ref.name, ask.lang)
  BY DEF FindVerse, SearchInv, SearchOK
<1>2. ~Found'
  <2>1. answer = NoAnswer
    BY <1>1, SearchAsk DEF Searching
  <2> QED BY <1>1, <2>1, NothingFound DEF Found
<1>3. ASSUME TypedStood' PROVE typed' # NoHit
  <2>1. TypedStood
    <3>1. pc # "idle"
      BY <1>1
    <3> QED BY <1>1, <1>3, <3>1, StillStood
  <2> DEFINE ref == <<name, ask.ref.chapter, TypedVerse>>
  <2>2. ref \in TypedRefs
    BY <1>1 DEF TypedRefs
  <2> HIDE DEF ref
  <2>3. <<ask.lang, ref>> \in Standing
    BY <2>1, <2>2 DEF TypedStood, FirstOK
  <2>4. PICK r \in verses : <<ask.lang, ref>> = <<trans[r.code].lang, RefOf(r.verse)>>
    BY <2>3 DEF Standing
  <2>5. trans[r.code].lang = ask.lang /\ RefOf(r.verse) = ref
    BY <2>4
  <2>6. r \in GetVerseInLang(ask.lang, name, ask.ref.chapter, TypedVerse)
    BY <2>5 DEF GetVerseInLang, ref
  <2>7. PICK q \in verses : typed' = Hit(RefOf(q.verse), q.verse.text, <<>>)
    BY <2>6 DEF FindVerse, GetVerseInLang
  <2>8. DOMAIN Hit(RefOf(q.verse), q.verse.text, <<>>) = {"ref", "text", "snippet"} /\ DOMAIN NoHit = {"ref"}
    BY DEF Hit, NoHit
  <2>9. "text" \notin {"ref"}
    OBVIOUS
  <2> QED BY <2>7, <2>8, <2>9
<1>4. pc' \notin AfterBible
  BY <1>1 DEF AfterBible
<1> QED BY <1>1, <1>2, <1>3, <1>4, StoodStands DEF FirstOK

\* A group more leaves the Bible's where it is.
LEMMA GroupsGrow ==
  ASSUME GroupsOK, NEW scope, NEW hits, AddGroup(scope, hits), UNCHANGED ask, IsFirst(groups)
  PROVE  IsFirst(groups)'
<1>1. PICK g \in BibleGroups(groups) : g.hits[1].ref \in TypedRefs
  BY DEF IsFirst
<1>2. CASE groups' = groups
  BY <1>1, <1>2, SameTyped DEF IsFirst, BibleGroups
<1>3. CASE groups' = Append(groups, [scope |-> scope, hits |-> hits])
  <2> DEFINE g0 == [scope |-> scope, hits |-> hits]
  <2>1. Range(groups') = Range(groups) \cup {g0}
    <3> HIDE DEF g0
    <3> QED BY <1>3, AppendOne DEF GroupsOK, g0
  <2>2. g \in BibleGroups(groups)'
    BY <1>1, <2>1 DEF BibleGroups
  <2> QED BY <1>1, <2>2, SameTyped DEF IsFirst
<1> QED BY <1>2, <1>3 DEF AddGroup

LEMMA SearchBibleFirst == ASSUME SearchInv, FirstOK, SearchBible, Remember PROVE FirstOK'
<1>1. pc = "bible" /\ pc' = "egw" /\ UNCHANGED <<ask, answer>>
  BY DEF SearchBible, Goto
<1>2. pc \in Searching /\ pc # "idle"
  BY <1>1 DEF Searching
<1>3. ~Found'
  <2>1. answer = NoAnswer
    BY <1>2, SearchAsk
  <2> QED BY <1>1, <2>1, NothingFound DEF Found
<1>4. PICK found \in SearchVerses(ask.q, ask.lang) : AddGroup("bible", BibleHits(found))
  BY DEF SearchBible
<1>5. ASSUME TypedStood' PROVE IsFirst(groups)'
  <2>1. typed # NoHit
    BY <1>1, <1>2, <1>5, StillStood DEF FirstOK
  <2>2. typed.ref \in TypedRefs
    BY <1>2, <2>1, SearchAsk DEF TypedOK
  <2> DEFINE hits == BibleHits(found)
             g0 == [scope |-> "bible", hits |-> hits]
  <2>3. found \in Seq(VerseRow)
    BY <1>2, FoundVerses
  <2>4. hits \in BibleLists
    BY <2>3, BibleHitsType
  <2>5. hits # <<>> /\ hits[1] = typed
    BY <2>1, <2>4 DEF BibleLists, BibleList
  <2>6. groups' = Append(groups, g0)
    BY <1>4, <2>5 DEF AddGroup
  <2>7. g0.scope = "bible" /\ g0.hits[1] = typed
    BY <2>5
  <2> HIDE DEF g0
  <2>8. Range(groups') = Range(groups) \cup {g0}
    BY <1>2, <2>6, SearchAsk, AppendOne DEF GroupsOK
  <2>9. g0 \in BibleGroups(groups)'
    BY <2>7, <2>8 DEF BibleGroups
  <2> QED BY <1>1, <2>2, <2>7, <2>9, SameTyped DEF IsFirst
<1> QED BY <1>1, <1>3, <1>5, StoodStands DEF FirstOK

LEMMA ScopeFirst ==
  ASSUME SearchInv, FirstOK, Remember, NEW scope \in AfterBible, NEW next \in AfterBible, NEW results,
         Scope(scope, next, results)
  PROVE  FirstOK'
<1>1. pc = scope /\ pc' = next /\ UNCHANGED <<ask, answer>>
  BY DEF Scope, Goto
<1>2. pc \in Searching /\ pc # "idle" /\ pc' # "bible"
  BY <1>1 DEF Searching, AfterBible
<1>3. ~Found'
  <2>1. answer = NoAnswer
    BY <1>2, SearchAsk
  <2> QED BY <1>1, <2>1, NothingFound DEF Found
<1>4. ASSUME TypedStood' PROVE IsFirst(groups)'
  <2>1. IsFirst(groups) /\ GroupsOK
    BY <1>1, <1>2, <1>4, StillStood, SearchAsk DEF FirstOK
  <2>2. CASE groups' = groups
    BY <1>1, <2>1, <2>2, SameTyped DEF IsFirst, BibleGroups
  <2>3. ASSUME NEW found \in results, AddGroup(scope, [i \in DOMAIN found |-> HitIn(scope, found[i])])
        PROVE  IsFirst(groups)'
    BY <1>1, <2>1, <2>3, GroupsGrow
  <2> QED BY <2>2, <2>3 DEF Scope
<1> QED BY <1>2, <1>3, <1>4, StoodStands DEF FirstOK

LEMMA ReturnFirst == ASSUME SearchInv, FirstOK, ReturnGroups, Remember PROVE FirstOK'
<1>1. pc = "groups" /\ pc' = "answered" /\ UNCHANGED ask /\ answer' = [status |-> 200, groups |-> groups]
  BY DEF ReturnGroups, Answer
<1>2. pc \in AfterBible /\ pc # "idle" /\ pc' \notin AfterBible /\ pc' # "bible"
  BY <1>1 DEF AfterBible
<1>3. answer'.groups = groups
  BY <1>1
<1>4. ASSUME TypedStood' PROVE IsFirst(answer.groups)'
  <2>1. IsFirst(groups)
    BY <1>1, <1>2, <1>4, StillStood DEF FirstOK
  <2> QED BY <1>1, <1>3, <2>1, SameTyped DEF IsFirst, BibleGroups
<1> QED BY <1>2, <1>4, StoodStands DEF FirstOK

LEMMA FirstStep ==
  ASSUME SearchInv, FirstOK, [Next]_vars
  PROVE  FirstOK'
<1>1. CASE SearchSteps /\ Remember
  <2>1. CASE AskSearch
    <3>1. pc' \in {"reference", "answered"} /\ answer' \in {NoAnswer, [status |-> 400]}
      BY <2>1 DEF AskSearch
    <3>2. ~Found'
      BY <3>1, NothingFound DEF Found
    <3>3. pc' # "bible" /\ pc' \notin AfterBible
      BY <3>1 DEF AfterBible
    <3> QED BY <1>1, <3>2, <3>3, NothingFirst
  <2>2. CASE FailSearch
    <3>1. pc' = "answered" /\ answer' = [status |-> 500]
      BY <2>2 DEF FailSearch, Answer
    <3>2. ~Found'
      BY <3>1, NothingFound DEF Found
    <3>3. pc' # "bible" /\ pc' \notin AfterBible
      BY <3>1 DEF AfterBible
    <3> QED BY <1>1, <3>2, <3>3, NothingFirst
  <2>3. {"egw", "beliefs", "hymns", "video", "groups"} \subseteq AfterBible
    BY DEF AfterBible
  <2>4. CASE SearchParagraphs
    BY <1>1, <2>3, <2>4, ScopeFirst DEF SearchParagraphs
  <2>5. CASE SearchDoctrine
    BY <1>1, <2>3, <2>5, ScopeFirst DEF SearchDoctrine
  <2>6. CASE SearchHymnals
    BY <1>1, <2>3, <2>6, ScopeFirst DEF SearchHymnals
  <2>7. CASE SearchFeed
    BY <1>1, <2>3, <2>7, ScopeFirst DEF SearchFeed
  <2> QED BY <1>1, <2>1, <2>2, <2>4, <2>5, <2>6, <2>7, FindBookFirst, FindVerseFirst, SearchBibleFirst, ReturnFirst
          DEF SearchSteps
<1>2. CASE Reads /\ Remember
  <2>1. pc' \notin Searching /\ ~Found'
    BY <1>2, ReadsAreNoSearch
  <2>2. pc' # "bible" /\ pc' \notin AfterBible
    BY <2>1 DEF AfterBible, Searching
  <2> QED BY <1>2, <2>1, <2>2, NothingFirst
<1>3. ASSUME UNCHANGED <<pc, ask, answer, typed, groups>>, Remember \/ UNCHANGED <<stood, trans, verses>>
      PROVE  FirstOK'
  <2>1. stood' \subseteq Standing'
    BY <1>3, StoodStands DEF FirstOK, Standing
  <2>2. ASSUME pc # "idle", TypedStood' PROVE TypedStood
    <3>1. CASE Remember
      BY <1>3, <2>2, <3>1, StillStood
    <3>2. CASE UNCHANGED <<stood, trans, verses>>
      BY <1>3, <2>2, <3>2, SameTyped DEF TypedStood, Wants
    <3> QED BY <1>3, <3>1, <3>2
  <2>3. answer = NoAnswer \/ pc # "idle"
    BY DEF SearchInv, ReaderInv, ReadOK, FoundOK
  <2> QED BY <1>3, <2>1, <2>2, <2>3, FirstKept
<1>4. CASE IngestNext /\ UNCHANGED <<pc, ask, answer, typed, groups>> /\ Remember
  BY <1>3, <1>4
<1>5. CASE UNCHANGED vars
  BY <1>3, <1>5 DEF vars, bibleVars, ingestVars, readVars
<1> QED BY <1>1, <1>2, <1>4, <1>5 DEF Next

LEMMA FirstInit == Init => FirstOK
<1> SUFFICES ASSUME Init PROVE FirstOK
  OBVIOUS
<1>1. pc = "idle" /\ answer = NoAnswer /\ stood = {}
  BY DEF Init, ReadInit, SearchInit
<1> QED BY <1>1, NothingFound DEF FirstOK, AfterBible, Found

LEMMA FirstIsInvariant == Spec => [](SearchInv /\ FirstOK)
BY SearchInitInv, FirstInit, SearchStep, FirstStep, PTL DEF Spec

(* A typed verse that stands in the language from the request to the answer    *)
(* is the first hit of the Bible's group, also when imports replace the text   *)
(* between its query and the search; the first hit comes once; and no group is *)
(* longer than a group may be (search.go:51-77).                              *)
THEOREM TypedVerseStandsOnce == Spec => []TypedVerseOnce
<1>1. SearchInv /\ FirstOK => TypedVerseOnce
  <2> SUFFICES ASSUME SearchInv, FirstOK, Found
               PROVE  /\ TypedStood => \E g \in BibleGroups(answer.groups) : g.hits[1].ref \in TypedRefs
                      /\ \A g \in BibleGroups(answer.groups) : \A i \in 2 .. Len(g.hits) : g.hits[i].ref # g.hits[1].ref
                      /\ \A g \in Range(answer.groups) : Len(g.hits) <= PerGroup
    BY DEF TypedVerseOnce
  <2>1. \A g \in Range(answer.groups) : GroupOK(g)
    BY DEF SearchInv, SearchOK
  <2>2. TypedStood => IsFirst(answer.groups)
    BY DEF FirstOK
  <2> QED BY <2>1, <2>2 DEF GroupOK, IsFirst, BibleGroups
<1> QED BY <1>1, FirstIsInvariant, PTL

(* A snippet lies within its text, is as wide as there is room, and shows the   *)
(* place where the words of the query first stand as they were typed; with no  *)
(* such place it is the beginning, as after a match of folded accents; and a   *)
(* hymn's category is shown whole (search.go:112-114, 170-190).               *)
THEOREM SnippetsShowMatch == Spec => []SnippetShowsMatch
<1>1. SearchInv => SnippetShowsMatch
  <2> SUFFICES ASSUME SearchInv, Found, NEW g \in Range(answer.groups), NEW hit \in Range(g.hits)
               PROVE  IF g.scope = "hymns" THEN hit.snippet = Whole(hit.text)
                      ELSE /\ 0 <= hit.snippet.from /\ hit.snippet.to <= Len(hit.text)
                           /\ hit.snippet.to - hit.snippet.from = Min({SnippetRunes, Len(hit.text)})
                           /\ IF IsTyped(g, hit) THEN TRUE
                              ELSE IF Occurs(ask.q, hit.text) = {} THEN hit.snippet.from = 0
                              ELSE /\ hit.snippet.from <= Min(Occurs(ask.q, hit.text))
                                   /\ Min(Occurs(ask.q, hit.text)) < hit.snippet.to
    BY DEF SnippetShowsMatch
  <2>1. HitOK(g, hit)
    BY DEF SearchInv, SearchOK, GroupOK
  <2> QED BY <2>1 DEF HitOK, Fits, Shows
<1> QED BY <1>1, SearchIsInvariant, PTL
=============================================================================
