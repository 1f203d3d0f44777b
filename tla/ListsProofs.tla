----------------------------- MODULE ListsProofs -----------------------------
(***************************************************************************)
(* Lemmas about lists.                                                     *)
(***************************************************************************)
EXTENDS Lists, SequencesExt, FiniteSetTheorems, WellFoundedInduction, NaturalsInduction, TLAPS

Distinct(s) == \A i, j \in DOMAIN s : s[i] = s[j] => i = j

LEMMA SeqFacts ==
  ASSUME NEW E, NEW s \in Seq(E)
  PROVE  /\ Len(s) \in Nat /\ DOMAIN s = 1 .. Len(s) /\ s \in [1 .. Len(s) -> E]
         /\ \A i \in DOMAIN s : s[i] \in E
OBVIOUS

LEMMA SeqFrom ==
  ASSUME NEW E, NEW n \in Nat, NEW s \in [1 .. n -> E]
  PROVE  s \in Seq(E) /\ Len(s) = n /\ DOMAIN s = 1 .. n
OBVIOUS

LEMMA SeqWider ==
  ASSUME NEW K, NEW E, K \subseteq E, NEW s \in Seq(K)
  PROVE  s \in Seq(E)
<1>1. Len(s) \in Nat /\ s \in [1 .. Len(s) -> E]
  <2>1. s \in [1 .. Len(s) -> K]  BY SeqFacts
  <2> QED  BY <2>1, SeqFacts
<1> QED  BY <1>1

\* The places of K are numbered from 1, without gaps, in their order.
LEMMA RankFacts ==
  ASSUME NEW n \in Nat, NEW K \in SUBSET (1 .. n)
  PROVE  /\ Cardinality(K) \in Nat
         /\ \A i \in K : Rank(K, i) \in 1 .. Cardinality(K)
         /\ \A i, j \in K : i < j => Rank(K, i) < Rank(K, j)
         /\ \A m \in 1 .. Cardinality(K) : \E i \in K : Rank(K, i) = m
<1> DEFINE Upto(i) == {k \in K : k <= i}
<1>1. IsFiniteSet(K)
  <2>1. IsFiniteSet(1 .. n)  BY FS_Interval
  <2> QED  BY <2>1, FS_Subset
<1>2. Cardinality(K) \in Nat  BY <1>1, FS_CardinalityType
<1>3. ASSUME NEW i \in K PROVE Rank(K, i) \in 1 .. Cardinality(K)
  <2>1. Upto(i) \in SUBSET K /\ i \in Upto(i)  OBVIOUS
  <2>2. IsFiniteSet(Upto(i)) /\ Cardinality(Upto(i)) <= Cardinality(K)  BY <1>1, <2>1, FS_Subset
  <2>3. Cardinality(Upto(i)) \in Nat /\ Cardinality(Upto(i)) # 0
    BY <2>1, <2>2, FS_CardinalityType, FS_EmptySet
  <2> QED  BY <1>2, <2>2, <2>3 DEF Rank
<1>4. ASSUME NEW i \in K, NEW j \in K, i < j PROVE Rank(K, i) < Rank(K, j)
  <2>1. Upto(i) \in SUBSET Upto(j) /\ j \in Upto(j) /\ j \notin Upto(i)
    <3>1. i \in Nat /\ j \in Nat /\ \A k \in K : k \in Nat  OBVIOUS
    <3>2. j \in Upto(j) /\ j \notin Upto(i)  BY <1>4, <3>1
    <3>3. ASSUME NEW k \in Upto(i) PROVE k \in Upto(j)  BY <1>4, <3>1
    <3> QED  BY <3>2, <3>3
  <2>2. Upto(j) \in SUBSET K /\ IsFiniteSet(Upto(j))
    <3>1. Upto(j) \in SUBSET K  OBVIOUS
    <3> QED  BY <1>1, <3>1, FS_Subset
  <2>3. Cardinality(Upto(i)) <= Cardinality(Upto(j)) /\ Cardinality(Upto(i)) # Cardinality(Upto(j))
    BY <2>1, <2>2, FS_Subset
  <2> QED  BY <1>3, <2>3 DEF Rank
<1>5. ASSUME NEW m \in 1 .. Cardinality(K) PROVE \E i \in K : Rank(K, i) = m
  <2> DEFINE f == [i \in K |-> Rank(K, i)]
             T == 1 .. Cardinality(K)
  <2>1. f \in [K -> T]  BY <1>3
  <2>2. \A i, j \in K : f[i] = f[j] => i = j  BY <1>3, <1>4
  <2>3. f \in Injection(K, T)  BY <2>1, <2>2 DEF Injection, IsInjective
  <2>4. IsFiniteSet(T) /\ Cardinality(T) = Cardinality(K)  BY <1>2, FS_Interval
  <2>5. f \in Surjection(K, T)  BY <2>3, <2>4, FS_Injection
  <2> QED  BY <2>5 DEF Surjection
<1> QED  BY <1>2, <1>3, <1>4, <1>5

\* Sorted lists the numbers of K, each once, in their order.
LEMMA SortedFacts ==
  ASSUME NEW n \in Nat, NEW K \in SUBSET (1 .. n)
  PROVE  /\ Sorted(K) \in Seq(K) /\ Range(Sorted(K)) = K
         /\ \A i, j \in DOMAIN Sorted(K) : i < j => Sorted(K)[i] < Sorted(K)[j]
<1> DEFINE N == Cardinality(K)
           t == Sorted(K)
<1>1. /\ N \in Nat
      /\ \A i \in K : Rank(K, i) \in 1 .. N
      /\ \A i, j \in K : i < j => Rank(K, i) < Rank(K, j)
      /\ \A m \in 1 .. N : \E i \in K : Rank(K, i) = m
  BY RankFacts
<1>2. t = [m \in 1 .. N |-> CHOOSE i \in K : Rank(K, i) = m]  BY DEF Sorted
<1> HIDE DEF N
<1>3. \A m \in 1 .. N : t[m] \in K /\ Rank(K, t[m]) = m  BY <1>1, <1>2
<1>4. t \in [1 .. N -> K]  BY <1>2, <1>3
<1> HIDE DEF t
<1>5. DOMAIN t = 1 .. N /\ t \in Seq(K)  BY <1>1, <1>4
<1>6. \A i, j \in K : Rank(K, i) = Rank(K, j) => i = j
  <2> SUFFICES ASSUME NEW i \in K, NEW j \in K, Rank(K, i) = Rank(K, j) PROVE i = j  OBVIOUS
  <2>1. i \in 1 .. n /\ j \in 1 .. n  OBVIOUS
  <2>2. ~ (i < j) /\ ~ (j < i)  BY <1>1
  <2> QED  BY <2>1, <2>2
<1>7. Range(t) = K
  <2>1. ASSUME NEW i \in K PROVE i \in Range(t)
    <3>1. Rank(K, i) \in 1 .. N  BY <1>1
    <3>2. t[Rank(K, i)] = i  BY <1>3, <1>6, <3>1
    <3> QED  BY <1>5, <3>1, <3>2 DEF Range
  <2>2. Range(t) \subseteq K  BY <1>3, <1>5 DEF Range
  <2> QED  BY <2>1, <2>2
<1>8. ASSUME NEW i \in 1 .. N, NEW j \in 1 .. N, i < j PROVE t[i] < t[j]
  <2>1. t[i] \in 1 .. n /\ t[j] \in 1 .. n /\ Rank(K, t[i]) = i /\ Rank(K, t[j]) = j  BY <1>3
  <2>2. t[i] # t[j] /\ ~ (t[j] < t[i])  BY <1>1, <1>3, <1>8, <2>1
  <2> QED  BY <2>1, <2>2
<1> QED  BY <1>5, <1>7, <1>8 DEF t

\* What Without keeps: the elements that are not in S, in their order.
LEMMA WithoutFacts ==
  ASSUME NEW E, NEW s \in Seq(E), NEW S
  PROVE  /\ Without(s, S) \in Seq(E)
         /\ Range(Without(s, S)) = Range(s) \ S
         /\ \E at \in [DOMAIN Without(s, S) -> DOMAIN s] :
              /\ \A n \in DOMAIN Without(s, S) : Without(s, S)[n] = s[at[n]]
              /\ \A m, n \in DOMAIN Without(s, S) : m < n => at[m] < at[n]
<1> DEFINE keep == {i \in DOMAIN s : s[i] \notin S}
           at == Sorted(keep)
           t == Without(s, S)
<1>1. Len(s) \in Nat /\ DOMAIN s = 1 .. Len(s) /\ keep \in SUBSET (1 .. Len(s))  OBVIOUS
<1>2. /\ at \in Seq(keep) /\ Range(at) = keep
      /\ \A i, j \in DOMAIN at : i < j => at[i] < at[j]
  <2> HIDE DEF keep
  <2> QED  BY <1>1, SortedFacts
<1>3. t = [n \in DOMAIN at |-> s[at[n]]]  BY DEF Without
<1> HIDE DEF at, t
<1>4. DOMAIN at = 1 .. Len(at) /\ Len(at) \in Nat /\ \A n \in DOMAIN at : at[n] \in keep  BY <1>2
<1>5. t \in Seq(E) /\ DOMAIN t = DOMAIN at
  <2>1. \A i \in DOMAIN s : s[i] \in E  OBVIOUS
  <2>2. t \in [1 .. Len(at) -> E]  BY <1>3, <1>4, <2>1
  <2> QED  BY <1>3, <1>4, <2>2
<1>6. Range(t) = Range(s) \ S
  <2>1. ASSUME NEW n \in DOMAIN t PROVE t[n] \in Range(s) \ S
    BY <1>3, <1>4, <1>5 DEF Range
  <2>2. ASSUME NEW i \in keep PROVE s[i] \in Range(t)
    <3>1. PICK n \in DOMAIN at : at[n] = i  BY <1>2 DEF Range
    <3>2. t[n] = s[i]  BY <1>3, <3>1
    <3> QED  BY <1>5, <3>2 DEF Range
  <2> QED  BY <2>1, <2>2 DEF Range
<1>7. at \in [DOMAIN t -> DOMAIN s]
  <2>1. at = [n \in DOMAIN t |-> at[n]]  BY <1>2, <1>4, <1>5
  <2> QED  BY <1>4, <1>5, <2>1
<1>8. \E a \in [DOMAIN t -> DOMAIN s] :
        /\ \A n \in DOMAIN t : t[n] = s[a[n]]
        /\ \A m, n \in DOMAIN t : m < n => a[m] < a[n]
  BY <1>2, <1>3, <1>5, <1>7
<1> QED  BY <1>5, <1>6, <1>8 DEF t

LEMMA WithoutDistinct ==
  ASSUME NEW E, NEW s \in Seq(E), NEW S, Distinct(s)
  PROVE  Distinct(Without(s, S))
<1> DEFINE t == Without(s, S)
<1>1. PICK at \in [DOMAIN t -> DOMAIN s] :
        /\ \A n \in DOMAIN t : t[n] = s[at[n]]
        /\ \A m, n \in DOMAIN t : m < n => at[m] < at[n]
  BY WithoutFacts
<1>2. t \in Seq(E)  BY WithoutFacts
<1> HIDE DEF t
<1>3. DOMAIN t = 1 .. Len(t) /\ Len(t) \in Nat  BY <1>2
<1>4. ASSUME NEW m \in DOMAIN t, NEW n \in DOMAIN t, t[m] = t[n] PROVE m = n
  <2>1. at[m] = at[n]  BY <1>1, <1>4 DEF Distinct
  <2>2. ~ (m < n) /\ ~ (n < m)  BY <1>1, <2>1
  <2> QED  BY <1>3, <2>2
<1> QED  BY <1>4 DEF Distinct, t

\* Whatever t has before its place k, s has before its place i.
Before(t, k, s, i) == \A j \in 1 .. k - 1 : \E m \in 1 .. i - 1 : t[j] = s[m]

\* What stands before an element that is kept stood before it already.
LEMMA WithoutOrder ==
  ASSUME NEW E, NEW s \in Seq(E), NEW S, NEW i \in DOMAIN s, s[i] \notin S, Distinct(s)
  PROVE  \E k \in DOMAIN Without(s, S) :
            Without(s, S)[k] = s[i] /\ Before(Without(s, S), k, s, i)
<1> DEFINE t == Without(s, S)
<1>1. PICK at \in [DOMAIN t -> DOMAIN s] :
        /\ \A n \in DOMAIN t : t[n] = s[at[n]]
        /\ \A m, n \in DOMAIN t : m < n => at[m] < at[n]
  BY WithoutFacts
<1>2. t \in Seq(E) /\ Range(t) = Range(s) \ S  BY WithoutFacts
<1> HIDE DEF t
<1>3. DOMAIN t = 1 .. Len(t) /\ Len(t) \in Nat  BY <1>2
<1>4. PICK k \in DOMAIN t : t[k] = s[i]  BY <1>2 DEF Range
<1>5. at[k] = i  BY <1>1, <1>4 DEF Distinct
<1>6. ASSUME NEW j \in 1 .. k - 1 PROVE \E m \in 1 .. i - 1 : t[j] = s[m]
  <2>1. j \in DOMAIN t /\ j < k  BY <1>3
  <2>2. at[j] < i /\ at[j] \in DOMAIN s /\ t[j] = s[at[j]]  BY <1>1, <1>5, <2>1
  <2>3. at[j] \in 1 .. i - 1  BY <2>2
  <2> QED  BY <2>2, <2>3
<1> QED  BY <1>4, <1>6 DEF Before, t

\* A set of numbers that is not empty has a least one.
LEMMA LeastNat ==
  ASSUME NEW T \in SUBSET Nat, T # {}
  PROVE  \E m \in T : \A k \in T : m <= k
<1> DEFINE R == OpToRel(<, Nat)
<1>1. IsWellFoundedOn(R, Nat)  BY NatLessThanWellFounded
<1>2. PICK x \in T : \A y \in T : ~ (<<y, x>> \in R)
  <2> HIDE DEF R
  <2> QED  BY <1>1, WFMin, Zenon
<1>3. \A y \in T : ~ (y < x)  BY <1>2 DEF OpToRel
<1>4. x \in Nat /\ \A k \in T : k \in Nat  OBVIOUS
<1> QED  BY <1>3, <1>4

\* What holds at 0 and goes on holding holds up to n.
LEMMA Upwards ==
  ASSUME NEW n \in Nat, NEW T, 0 \in T, \A i \in 1 .. n : i - 1 \in T => i \in T
  PROVE  0 .. n \subseteq T
<1> DEFINE F == (0 .. n) \ T
<1>1. SUFFICES ASSUME F # {} PROVE FALSE  OBVIOUS
<1>2. PICK k \in F : \A j \in F : k <= j
  <2>1. F \in SUBSET Nat  OBVIOUS
  <2> HIDE DEF F
  <2> QED  BY <1>1, <2>1, LeastNat
<1>3. k \in 1 .. n /\ k - 1 \in 0 .. n /\ ~ (k <= k - 1)  OBVIOUS
<1>4. k - 1 \in T  BY <1>2, <1>3
<1> QED  BY <1>3, <1>4

\* f has a at 0, and step gives each value from the last.
Steps(f, n, T, a, step) ==
  f \in [0 .. n -> T] /\ f[0] = a /\ \A i \in 1 .. n : f[i] = step[<<f[i - 1], i>>]

\* A function can be given by its value at 0 and a step from each value to the next.
LEMMA StepsExist ==
  ASSUME NEW n \in Nat, NEW T, NEW a \in T, NEW step \in [T \X (1 .. n) -> T]
  PROVE  \E f : Steps(f, n, T, a, step)
<1> DEFINE Fits(f, k) == f[0] = a /\ \A i \in 1 .. k : f[i] = step[<<f[i - 1], i>>]
           U == {k \in 0 .. n : \E f \in [0 .. k -> T] : Fits(f, k)}
<1>1. 0 \in U
  <2> DEFINE f == [i \in 0 .. 0 |-> a]
  <2>1. f \in [0 .. 0 -> T] /\ f[0] = a /\ 1 .. 0 = {}  OBVIOUS
  <2> HIDE DEF f
  <2>2. Fits(f, 0)  BY <2>1
  <2> QED  BY <2>1, <2>2
<1>2. ASSUME NEW k \in 1 .. n, k - 1 \in U PROVE k \in U
  <2>1. PICK f \in [0 .. k - 1 -> T] : Fits(f, k - 1)  BY <1>2
  <2> DEFINE v == step[<<f[k - 1], k>>]
             g == [i \in 0 .. k |-> IF i = k THEN v ELSE f[i]]
  <2>2. v \in T
    <3>1. f[k - 1] \in T  OBVIOUS
    <3> QED  BY <3>1
  <2>3. g \in [0 .. k -> T]
    <3> HIDE DEF v
    <3>1. \A i \in 0 .. k : i # k => i \in 0 .. k - 1  OBVIOUS
    <3> QED  BY <2>2, <3>1
  <2>4. \A i \in 0 .. k : g[i] = IF i = k THEN v ELSE f[i]  OBVIOUS
  <2> HIDE DEF g
  <2>5. g[0] = a  BY <2>1, <2>4
  <2>6. ASSUME NEW i \in 1 .. k PROVE g[i] = step[<<g[i - 1], i>>]
    <3>1. i - 1 \in 0 .. k /\ i - 1 # k /\ i \in 0 .. k  OBVIOUS
    <3>2. g[i - 1] = f[i - 1]  BY <2>4, <3>1
    <3>3. CASE i = k  BY <2>4, <3>1, <3>2, <3>3
    <3>4. CASE i # k
      <4>1. i \in 1 .. k - 1  BY <3>4
      <4> QED  BY <2>1, <2>4, <3>1, <3>2, <3>4, <4>1
    <3> QED  BY <3>3, <3>4
  <2>7. Fits(g, k)  BY <2>5, <2>6
  <2>8. k \in 0 .. n  OBVIOUS
  <2> QED  BY <2>3, <2>7, <2>8
<1>3. 0 .. n \subseteq U
  <2> HIDE DEF U
  <2> QED  BY <1>1, <1>2, Upwards
<1>4. \E f \in [0 .. n -> T] : Fits(f, n)  BY <1>3
<1> QED  BY <1>4 DEF Steps

\* The same, as one equation.
StepsFrom(f, n, a, step) == f = [i \in 0 .. n |-> IF i = 0 THEN a ELSE step[<<f[i - 1], i>>]]

LEMMA EquationExists ==
  ASSUME NEW n \in Nat, NEW T, NEW a \in T, NEW step \in [T \X (1 .. n) -> T]
  PROVE  \E f : f \in [0 .. n -> T] /\ StepsFrom(f, n, a, step)
<1>1. PICK f : f \in [0 .. n -> T] /\ f[0] = a /\ \A i \in 1 .. n : f[i] = step[<<f[i - 1], i>>]
  <2>1. \E f : Steps(f, n, T, a, step)  BY StepsExist
  <2> QED  BY <2>1 DEF Steps
<1>2. \A i \in 0 .. n : f[i] = IF i = 0 THEN a ELSE step[<<f[i - 1], i>>]
  <2>1. \A i \in 0 .. n : i # 0 => i \in 1 .. n  OBVIOUS
  <2> QED  BY <1>1, <2>1
<1>3. f = [i \in 0 .. n |-> f[i]]  BY <1>1
<1>4. StepsFrom(f, n, a, step)  BY <1>2, <1>3 DEF StepsFrom
<1> QED  BY <1>1, <1>4

\* A concatenation holds what its two parts hold.
LEMMA ConcatRange ==
  ASSUME NEW E, NEW a \in Seq(E), NEW b \in Seq(E)
  PROVE  a \o b \in Seq(E) /\ Range(a \o b) = Range(a) \cup Range(b)
<1> DEFINE c == a \o b
<1>1. c \in Seq(E) /\ Len(c) = Len(a) + Len(b)  OBVIOUS
<1>2. \A i \in 1 .. Len(c) : c[i] = IF i <= Len(a) THEN a[i] ELSE b[i - Len(a)]  OBVIOUS
<1>3. DOMAIN a = 1 .. Len(a) /\ DOMAIN b = 1 .. Len(b) /\ DOMAIN c = 1 .. Len(c)
      /\ Len(a) \in Nat /\ Len(b) \in Nat  BY <1>1
<1> HIDE DEF c
<1>4. ASSUME NEW x \in Range(c) PROVE x \in Range(a) \cup Range(b)
  <2>1. PICK i \in 1 .. Len(c) : x = c[i]  BY <1>3 DEF Range
  <2>2. CASE i <= Len(a)
    <3>1. i \in 1 .. Len(a) /\ x = a[i]  BY <1>2, <1>3, <2>1, <2>2
    <3> QED  BY <1>3, <3>1 DEF Range
  <2>3. CASE i > Len(a)
    <3>1. i - Len(a) \in 1 .. Len(b) /\ x = b[i - Len(a)]  BY <1>1, <1>2, <1>3, <2>1, <2>3
    <3> QED  BY <1>3, <3>1 DEF Range
  <2> QED  BY <1>3, <2>1, <2>2, <2>3
<1>5. ASSUME NEW x \in Range(a) PROVE x \in Range(c)
  <2>1. PICK i \in 1 .. Len(a) : x = a[i]  BY <1>3 DEF Range
  <2>2. i \in 1 .. Len(c) /\ x = c[i]  BY <1>1, <1>2, <1>3, <2>1
  <2> QED  BY <1>3, <2>2 DEF Range
<1>6. ASSUME NEW x \in Range(b) PROVE x \in Range(c)
  <2>1. PICK i \in 1 .. Len(b) : x = b[i]  BY <1>3 DEF Range
  <2>2. i + Len(a) \in 1 .. Len(c) /\ ~ (i + Len(a) <= Len(a)) /\ (i + Len(a)) - Len(a) = i
    BY <1>1, <1>3, <2>1
  <2>3. x = c[i + Len(a)]  BY <1>2, <2>1, <2>2
  <2> QED  BY <1>3, <2>2, <2>3 DEF Range
<1> QED  BY <1>1, <1>4, <1>5, <1>6 DEF c

\* Where the elements of two lists stand when they are one.
LEMMA ConcatFacts ==
  ASSUME NEW E, NEW a \in Seq(E), NEW b \in Seq(E)
  PROVE  /\ Len(a \o b) = Len(a) + Len(b)
         /\ \A i \in 1 .. Len(a) : (a \o b)[i] = a[i]
         /\ \A i \in 1 .. Len(b) : (a \o b)[Len(a) + i] = b[i]
<1>1. Len(a \o b) = Len(a) + Len(b) /\ Len(a) \in Nat /\ Len(b) \in Nat  OBVIOUS
<1>2. \A i \in 1 .. Len(a) : (a \o b)[i] = a[i]  OBVIOUS
<1>3. \A i \in 1 .. Len(b) : (a \o b)[Len(a) + i] = b[i]  OBVIOUS
<1> QED  BY <1>1, <1>2, <1>3

\* A set of places that is not empty has a last one.
LEMMA GreatestNat ==
  ASSUME NEW n \in Nat, NEW T \in SUBSET (1 .. n), T # {}
  PROVE  \E m \in T : \A k \in T : m >= k
<1> DEFINE U == {n - k : k \in T}
<1>1. U \in SUBSET Nat /\ U # {}
  <2>1. \A k \in T : n - k \in Nat  OBVIOUS
  <2> QED  BY <2>1
<1>2. PICK u \in U : \A w \in U : u <= w
  <2> HIDE DEF U
  <2> QED  BY <1>1, LeastNat
<1>3. PICK m \in T : u = n - m  OBVIOUS
<1>4. ASSUME NEW k \in T PROVE m >= k
  <2>1. n - m <= n - k  BY <1>2, <1>3
  <2>2. m \in 1 .. n /\ k \in 1 .. n  OBVIOUS
  <2> QED  BY <2>1, <2>2
<1> QED  BY <1>4

\* FlattenSeq of lists holds what the lists hold, and nothing else.
LEMMA FlattenFacts ==
  ASSUME NEW E, NEW ss \in Seq(Seq(E))
  PROVE  /\ FlattenSeq(ss) \in Seq(E)
         /\ Range(FlattenSeq(ss)) = UNION {Range(ss[i]) : i \in DOMAIN ss}
<1> DEFINE N == Len(ss)
           Step(f, k) == [i \in 1 .. k |-> IF i = 1 THEN ss[i] ELSE f[i - 1] \o ss[i]]
           Upto(k) == UNION {Range(ss[i]) : i \in 1 .. k}
           Fits(f, k) == f = Step(f, k)
           Good(f, k) == f[k] \in Seq(E) /\ Range(f[k]) = Upto(k)
<1>1. N \in Nat /\ DOMAIN ss = 1 .. N /\ \A i \in 1 .. N : ss[i] \in Seq(E)  OBVIOUS
<1> HIDE DEF N
<1>2. \A k \in 1 .. N : \E f : Fits(f, k)
  <2> DEFINE T == {k \in 1 .. N : ~ \E f : Fits(f, k)}
  <2>1. SUFFICES ASSUME T # {} PROVE FALSE  OBVIOUS
  <2>2. PICK k \in T : \A j \in T : k <= j
    <3>1. T \in SUBSET Nat
      <4> HIDE DEF Fits
      <4> QED  OBVIOUS
    <3> HIDE DEF T
    <3> QED  BY <2>1, <3>1, LeastNat
  <2>3. k \in 1 .. N /\ ~ \E f : Fits(f, k)
    <3> HIDE DEF Fits
    <3> QED  OBVIOUS
  <2>4. CASE k = 1
    <3> DEFINE g == [i \in 1 .. 1 |-> ss[i]]
    <3>1. Fits(g, 1)  OBVIOUS
    <3> QED  BY <2>3, <2>4, <3>1
  <2>5. CASE k # 1
    <3>1. k - 1 \in 1 .. N /\ k - 1 \notin T
      <4> HIDE DEF T
      <4>1. k \in Int /\ k - 1 \in 1 .. N  BY <1>1, <2>3, <2>5
      <4> QED  BY <2>2, <4>1
    <3>2. PICK f : Fits(f, k - 1)
      <4> HIDE DEF Fits
      <4> QED  BY <3>1
    <3> DEFINE g == [i \in 1 .. k |-> IF i < k THEN f[i] ELSE f[k - 1] \o ss[k]]
    <3>3. \A i \in 1 .. k - 1 : f[i] = IF i = 1 THEN ss[i] ELSE f[i - 1] \o ss[i]  BY <3>2
    <3>4. ASSUME NEW i \in 1 .. k PROVE g[i] = IF i = 1 THEN ss[i] ELSE g[i - 1] \o ss[i]
      <4>0. k \in Nat /\ i \in Nat /\ k > 1 /\ i <= k  BY <1>1, <2>3, <2>5
      <4>1. CASE i < k
        <5>1. i \in 1 .. k - 1 /\ g[i] = f[i]  BY <4>0, <4>1
        <5>2. i # 1 => i - 1 \in 1 .. k /\ i - 1 < k  BY <4>0, <4>1
        <5>3. i # 1 => g[i - 1] = f[i - 1]  BY <5>2
        <5> QED  BY <3>3, <5>1, <5>3
      <4>2. CASE i = k
        <5>1. k \in 1 .. k /\ k - 1 \in 1 .. k /\ k - 1 < k /\ ~ (k < k)  BY <4>0
        <5>2. \A j \in 1 .. k : g[j] = IF j < k THEN f[j] ELSE f[k - 1] \o ss[k]  OBVIOUS
        <5> HIDE DEF g
        <5>3. g[k] = f[k - 1] \o ss[k]  BY <2>3, <4>0, <5>1, <5>2
        <5>4. g[k - 1] = f[k - 1]  BY <4>0, <5>1, <5>2
        <5>5. k # 1  BY <4>0
        <5>6. g[k] = IF k = 1 THEN ss[k] ELSE g[k - 1] \o ss[k]  BY <5>3, <5>4, <5>5, Zenon
        <5> QED  BY <4>2, <5>6, Zenon
      <4> QED  BY <1>1, <2>3, <4>1, <4>2
    <3>5. Fits(g, k)
      <4>1. DOMAIN g = 1 .. k /\ g = [i \in 1 .. k |-> g[i]]  OBVIOUS
      <4> HIDE DEF g
      <4> QED  BY <3>4, <4>1
    <3> HIDE DEF Fits, g
    <3> QED  BY <2>3, <3>5
  <2> QED  BY <2>4, <2>5
<1>3. ASSUME NEW f, Fits(f, N) PROVE \A k \in 1 .. N : Good(f, k)
  <2> DEFINE T == {k \in 1 .. N : ~ Good(f, k)}
  <2>0. SUFFICES ASSUME T # {} PROVE FALSE  OBVIOUS
  <2>1. PICK k \in T : \A j \in T : k <= j
    <3>1. T \in SUBSET Nat
      <4> HIDE DEF Good
      <4> QED  OBVIOUS
    <3> HIDE DEF T
    <3> QED  BY <2>0, <3>1, LeastNat
  <2>2. k \in 1 .. N /\ ~ Good(f, k)
    <3> HIDE DEF Good
    <3> QED  OBVIOUS
  <2>3. \A i \in 1 .. N : f[i] = IF i = 1 THEN ss[i] ELSE f[i - 1] \o ss[i]  BY <1>3
  <2>4. CASE k = 1
    <3>0. f[1] = ss[1]  BY <2>2, <2>3, <2>4
    <3>1. f[1] = ss[1] /\ Upto(1) = Range(ss[1])
      <4>1. 1 .. 1 = {1}  OBVIOUS
      <4> QED  BY <3>0, <4>1
    <3> QED  BY <1>1, <2>2, <2>4, <3>1
  <2>5. CASE k # 1
    <3>1. k - 1 \in 1 .. N /\ k - 1 \notin T
      <4> HIDE DEF T
      <4>1. k \in Int /\ k - 1 \in 1 .. N  BY <1>1, <2>2, <2>5
      <4> QED  BY <2>1, <4>1
    <3>2. Good(f, k - 1)
      <4> HIDE DEF Good
      <4> QED  BY <3>1
    <3>3. f[k] = f[k - 1] \o ss[k] /\ ss[k] \in Seq(E)  BY <1>1, <2>2, <2>3, <2>5
    <3>4. f[k] \in Seq(E) /\ Range(f[k]) = Range(f[k - 1]) \cup Range(ss[k])
      <4> DEFINE a == f[k - 1]  b == ss[k]
      <4>1. a \in Seq(E) /\ b \in Seq(E)  BY <3>2, <3>3
      <4> HIDE DEF a, b
      <4>2. a \o b \in Seq(E) /\ Range(a \o b) = Range(a) \cup Range(b)  BY <4>1, ConcatRange
      <4> QED  BY <3>3, <4>2 DEF a, b
    <3>5. Upto(k) = Upto(k - 1) \cup Range(ss[k])
      <4>1. 1 .. k = (1 .. k - 1) \cup {k}  BY <1>1, <2>2
      <4> QED  BY <4>1
    <3> QED  BY <2>2, <3>2, <3>4, <3>5
  <2> QED  BY <2>4, <2>5
<1>4. CASE N = 0
  <2>1. ss = <<>>  BY <1>4 DEF N
  <2>2. FlattenSeq(ss) = <<>>  BY <2>1 DEF FlattenSeq
  <2>3. Range(<<>>) = {} /\ UNION {Range(ss[i]) : i \in DOMAIN ss} = {}
    <3>1. DOMAIN ss = {}  BY <1>1, <1>4
    <3> QED  BY <3>1 DEF Range
  <2> QED  BY <2>2, <2>3
<1>5. CASE N # 0
  <2> DEFINE fl == CHOOSE f : Fits(f, N)
  <2>1. N \in 1 .. N /\ Fits(fl, N)
    <3>1. N \in 1 .. N  BY <1>1, <1>5
    <3>2. \E f : Fits(f, N)  BY <1>2, <3>1
    <3> HIDE DEF Fits
    <3> QED  BY <3>1, <3>2
  <2>2. FlattenSeq(ss) = fl[N]  BY <1>5 DEF FlattenSeq, N
  <2> HIDE DEF fl
  <2>3. Good(fl, N)  BY <1>3, <2>1
  <2> QED  BY <1>1, <2>2, <2>3
<1> QED  BY <1>1, <1>4, <1>5

-----------------------------------------------------------------------------
(* Loops.                                                                  *)

\* f is what a recursive definition says: a at 0, and a step from each value to the
\* next; its values are in T.
Loop(f, n, T, a, step) ==
  f \in [0 .. n -> T] /\ f = [i \in 0 .. n |-> IF i = 0 THEN a ELSE step[f[i - 1]]]

LEMMA LoopExists ==
  ASSUME NEW n \in Nat, NEW T, NEW a \in T, NEW step \in [T -> T]
  PROVE  \E f : Loop(f, n, T, a, step)
<1> DEFINE each == [p \in T \X (1 .. n) |-> step[p[1]]]
<1>1. each \in [T \X (1 .. n) -> T]
  <2>1. \A p \in T \X (1 .. n) : step[p[1]] \in T  OBVIOUS
  <2> QED  BY <2>1
<1>2. PICK f : f \in [0 .. n -> T] /\ f[0] = a /\ \A i \in 1 .. n : f[i] = each[<<f[i - 1], i>>]
  <2> HIDE DEF each
  <2>1. \E f : Steps(f, n, T, a, each)  BY <1>1, StepsExist
  <2> QED  BY <2>1 DEF Steps
<1>3. \A i \in 1 .. n : i - 1 \in 0 .. n /\ f[i] = step[f[i - 1]]
  <2> SUFFICES ASSUME NEW i \in 1 .. n PROVE i - 1 \in 0 .. n /\ f[i] = step[f[i - 1]]  OBVIOUS
  <2>1. i - 1 \in 0 .. n  OBVIOUS
  <2>2. <<f[i - 1], i>> \in T \X (1 .. n)  BY <1>2, <2>1
  <2>3. each[<<f[i - 1], i>>] = step[f[i - 1]]  BY <2>2
  <2> HIDE DEF each
  <2> QED  BY <1>2, <2>1, <2>3
<1>4. \A i \in 0 .. n : f[i] = IF i = 0 THEN a ELSE step[f[i - 1]]
  <2>1. \A i \in 0 .. n : i # 0 => i \in 1 .. n  OBVIOUS
  <2> HIDE DEF each
  <2> QED  BY <1>2, <1>3, <2>1
<1>5. f = [i \in 0 .. n |-> IF i = 0 THEN a ELSE step[f[i - 1]]]
  <2> HIDE DEF each
  <2> QED  BY <1>2, <1>4
<1> QED  BY <1>2, <1>5 DEF Loop

-----------------------------------------------------------------------------
(* Lists that go upwards.                                                  *)

Rising(f, n) == \A i, j \in 1 .. n : i < j => f[i] < f[j]

\* What stands before place k of a rising list.
LEMMA RisingCount ==
  ASSUME NEW n \in Nat, NEW f \in [1 .. n -> Nat], Rising(f, n), NEW k \in 0 .. n
  PROVE  Cardinality({f[i] : i \in 1 .. k}) = k
<1> DEFINE S == {f[i] : i \in 1 .. k}
           g == [i \in 1 .. k |-> f[i]]
<1>1. IsFiniteSet(1 .. k) /\ Cardinality(1 .. k) = k
  BY FS_Interval
<1>2. g \in [1 .. k -> S]  OBVIOUS
<1>3. \A i, j \in 1 .. k : g[i] = g[j] => i = j
  <2> SUFFICES ASSUME NEW i \in 1 .. k, NEW j \in 1 .. k, g[i] = g[j] PROVE i = j  OBVIOUS
  <2>1. i \in 1 .. n /\ j \in 1 .. n  OBVIOUS
  <2>2. f[i] = f[j] /\ f[i] \in Nat  BY <2>1
  <2>3. ~ (i < j) /\ ~ (j < i)  BY <2>1, <2>2 DEF Rising
  <2> QED  BY <2>3
<1>4. \A x \in S : \E i \in 1 .. k : g[i] = x  OBVIOUS
<1> HIDE DEF S, g
<1>5. g \in Bijection(1 .. k, S)
  BY <1>2, <1>3, <1>4 DEF Bijection, Injection, IsInjective, Surjection
<1>6. ExistsBijection(1 .. k, S)  BY <1>5 DEF ExistsBijection
<1>7. Cardinality(S) = k  BY <1>1, <1>6, FS_Bijection
<1> QED  BY <1>7 DEF S

\* Sorted finds the one rising list of the numbers of K.
LEMMA SortedIs ==
  ASSUME NEW n \in Nat, NEW K \in SUBSET Nat, NEW f \in [1 .. n -> K], Rising(f, n),
         \A x \in K : \E i \in 1 .. n : f[i] = x
  PROVE  Sorted(K) = f
<1>1. \A i \in 1 .. n : f[i] \in K /\ f[i] \in Nat  OBVIOUS
<1>2. f \in [1 .. n -> Nat]  BY <1>1
<1>3. Cardinality(K) = n
  <2>1. K = {f[i] : i \in 1 .. n}  BY <1>1
  <2>2. n \in 0 .. n  OBVIOUS
  <2> QED  BY <1>2, <2>1, <2>2, RisingCount
<1>4. ASSUME NEW i \in 1 .. n PROVE Rank(K, f[i]) = i
  <2>1. {x \in K : x <= f[i]} = {f[j] : j \in 1 .. i}
    <3>1. ASSUME NEW j \in 1 .. n PROVE f[j] <= f[i] <=> j \in 1 .. i
      BY <1>1 DEF Rising
    <3>2. ASSUME NEW x \in {x \in K : x <= f[i]} PROVE x \in {f[j] : j \in 1 .. i}
      <4>1. PICK j \in 1 .. n : f[j] = x  OBVIOUS
      <4>2. j \in 1 .. i  BY <3>1, <4>1
      <4> QED  BY <4>1, <4>2
    <3>3. ASSUME NEW j \in 1 .. i PROVE f[j] \in {x \in K : x <= f[i]}
      <4>1. j \in 1 .. n  OBVIOUS
      <4> QED  BY <1>1, <3>1, <4>1
    <3> QED  BY <3>2, <3>3
  <2>2. i \in 0 .. n  OBVIOUS
  <2> QED  BY <1>2, <2>1, <2>2, RisingCount DEF Rank
<1>5. ASSUME NEW i \in 1 .. n PROVE (CHOOSE x \in K : Rank(K, x) = i) = f[i]
  <2>1. \A x \in K : Rank(K, x) = i => x = f[i]
    <3> SUFFICES ASSUME NEW x \in K, Rank(K, x) = i PROVE x = f[i]  OBVIOUS
    <3>1. PICK j \in 1 .. n : f[j] = x  OBVIOUS
    <3>2. Rank(K, x) = j  BY <1>4, <3>1
    <3> QED  BY <3>1, <3>2
  <2>2. f[i] \in K /\ Rank(K, f[i]) = i  BY <1>1, <1>4
  <2> QED  BY <2>1, <2>2
<1>6. f = [i \in 1 .. n |-> f[i]]  OBVIOUS
<1> QED  BY <1>3, <1>5, <1>6 DEF Sorted

=============================================================================
