---------------------------- MODULE ObjectsProofs ----------------------------
(***************************************************************************)
(* Theorems about objects.                                                 *)
(*                                                                         *)
(* Names, for any arguments and things: an argument finds the nth of the   *)
(* things that its words name (TheNamedIsFound).  What one_argument gives  *)
(* in turn are the pieces of a string between blanks; the rest of a turn   *)
(* always starts where one of them may.                                    *)
(*                                                                         *)
(* Objects, for any characters, rooms and heap of objects: a thing is in   *)
(* one place (the invariant IInv below).                                   *)
(***************************************************************************)
EXTENDS Objects, Names, ListsProofs

-----------------------------------------------------------------------------
(* Names: strings.                                                         *)

Strings == Seq(STRING)

LEMMA SubFacts ==
  ASSUME NEW s \in Strings, NEW i \in 1 .. Len(s) + 1, NEW j \in 0 .. Len(s)
  PROVE  /\ SubSeq(s, i, j) \in Strings
         /\ Len(SubSeq(s, i, j)) = IF i <= j THEN j - i + 1 ELSE 0
         /\ \A m \in 1 .. j - i + 1 : SubSeq(s, i, j)[m] = s[i + m - 1]
BY DEF Strings

LEMMA SameStrings ==
  ASSUME NEW a \in Strings, NEW b \in Strings, Len(a) = Len(b),
         \A m \in 1 .. Len(a) : a[m] = b[m]
  PROVE  a = b
BY DEF Strings

\* The first of some places, 0 if there is none.
Least(I) == IF I # {} THEN Min(I) ELSE 0

LEMMA LeastFacts ==
  ASSUME NEW n \in Nat, NEW I \in SUBSET (1 .. n)
  PROVE  IF I = {} THEN Least(I) = 0
         ELSE Least(I) \in I /\ Least(I) \in 1 .. n /\ \A k \in I : Least(I) <= k
<1>1. CASE I = {}
  BY <1>1 DEF Least
<1>2. CASE I # {}
  <2>1. I \in SUBSET Nat  OBVIOUS
  <2>2. PICK m \in I : \A k \in I : m <= k  BY <1>2, <2>1, LeastNat
  <2>3. Min(I) \in I /\ \A k \in I : Min(I) <= k  BY <2>2 DEF Min
  <2> QED  BY <1>2, <2>3 DEF Least
<1> QED  BY <1>1, <1>2

\* What is left of s from its k-th character on.
From(s, k) == SubSeq(s, k, Len(s))

LEMMA FromFacts ==
  ASSUME NEW s \in Strings, NEW k \in 1 .. Len(s) + 1
  PROVE  /\ From(s, k) \in Strings /\ Len(From(s, k)) = Len(s) - k + 1
         /\ \A m \in 1 .. Len(s) - k + 1 : From(s, k)[m] = s[k + m - 1]
         /\ From(s, k) = <<>> <=> k = Len(s) + 1
         /\ \A i \in 1 .. Len(From(s, k)) + 1, j \in 0 .. Len(From(s, k)) :
              SubSeq(From(s, k), i, j) = SubSeq(s, k + i - 1, k + j - 1)
         /\ \A i \in 1 .. Len(From(s, k)) + 1 : From(From(s, k), i) = From(s, k + i - 1)
<1> DEFINE t == From(s, k)
           n == Len(s)
<1>1. n \in Nat  BY DEF Strings
<1>2. t \in Strings /\ Len(t) = n - k + 1 /\ \A m \in 1 .. n - k + 1 : t[m] = s[k + m - 1]
  <2>1. n \in 0 .. n  BY <1>1
  <2>2. (IF k <= n THEN n - k + 1 ELSE 0) = n - k + 1  BY <1>1
  <2> QED  BY <2>1, <2>2, SubFacts DEF From
<1>3. t = <<>> <=> k = n + 1  BY <1>1, <1>2 DEF Strings
<1>4. ASSUME NEW i \in 1 .. Len(t) + 1, NEW j \in 0 .. Len(t)
      PROVE  SubSeq(t, i, j) = SubSeq(s, k + i - 1, k + j - 1)
  <2>1. k + i - 1 \in 1 .. n + 1 /\ k + j - 1 \in 0 .. n  BY <1>1, <1>2
  <2> DEFINE a == SubSeq(t, i, j)
             b == SubSeq(s, k + i - 1, k + j - 1)
  <2>2. /\ a \in Strings /\ Len(a) = IF i <= j THEN j - i + 1 ELSE 0
        /\ \A m \in 1 .. j - i + 1 : a[m] = t[i + m - 1]
    BY <1>2, SubFacts
  <2>3. /\ b \in Strings /\ Len(b) = IF i <= j THEN j - i + 1 ELSE 0
        /\ \A m \in 1 .. j - i + 1 : b[m] = s[k + i + m - 2]
    <3>1. /\ b \in Strings
          /\ Len(b) = IF k + i - 1 <= k + j - 1 THEN (k + j - 1) - (k + i - 1) + 1 ELSE 0
          /\ \A m \in 1 .. (k + j - 1) - (k + i - 1) + 1 : b[m] = s[(k + i - 1) + m - 1]
      <4> HIDE DEF b
      <4> QED  BY <2>1, SubFacts DEF b
    <3> HIDE DEF b, t
    <3>2. (k + j - 1) - (k + i - 1) + 1 = j - i + 1 /\ (k + i - 1 <= k + j - 1 <=> i <= j)
      BY <1>1, <1>2
    <3>3. \A m \in Int : (k + i - 1) + m - 1 = k + i + m - 2  OBVIOUS
    <3> QED  BY <3>1, <3>2, <3>3
  <2>4. \A m \in 1 .. j - i + 1 : t[i + m - 1] = s[k + i + m - 2]
    <3> SUFFICES ASSUME NEW m \in 1 .. j - i + 1 PROVE t[i + m - 1] = s[k + i + m - 2]
      OBVIOUS
    <3> HIDE DEF t
    <3>1. i + m - 1 \in 1 .. n - k + 1  BY <1>1, <1>2
    <3>2. k + (i + m - 1) - 1 = k + i + m - 2  BY <1>1
    <3> QED  BY <1>2, <3>1, <3>2
  <2> HIDE DEF a, b, t
  <2>5. \A m \in 1 .. Len(a) : a[m] = b[m]  BY <2>2, <2>3, <2>4
  <2>6. a = b  BY <2>2, <2>3, <2>5, SameStrings
  <2> QED  BY <2>6 DEF a, b
<1>5. ASSUME NEW i \in 1 .. Len(t) + 1 PROVE From(t, i) = From(s, k + i - 1)
  <2>1. Len(t) \in 0 .. Len(t) /\ k + Len(t) - 1 = n  BY <1>1, <1>2
  <2> HIDE DEF t
  <2> QED  BY <1>4, <2>1 DEF From
<1> QED  BY <1>2, <1>3, <1>4, <1>5

-----------------------------------------------------------------------------
(* Names: one_argument.                                                    *)

\* s begins with blanks, up to its a-th character.
Skips(s, a) ==
  /\ a \in 1 .. Len(s) + 1 /\ \A k \in 1 .. a - 1 : s[k] = Space
  /\ a <= Len(s) => s[a] # Space

LEMMA SkipFacts ==
  ASSUME NEW s \in Strings
  PROVE  \E a : Skips(s, a) /\ SkipBlanks(s) = From(s, a)
<1> DEFINE n == Len(s)
           I == {i \in 1 .. n : s[i] # Space}
           p == Least(I)
<1>1. n \in Nat  BY DEF Strings
<1>2. SkipBlanks(s) = IF p = 0 THEN <<>> ELSE SubSeq(s, p, n)
  BY DEF SkipBlanks, SelectInSeq, Least
<1>3. I \in SUBSET (1 .. n)  OBVIOUS
<1>4. IF I = {} THEN p = 0 ELSE p \in I /\ p \in 1 .. n /\ \A k \in I : p <= k
  <2> HIDE DEF n, I
  <2> QED  BY <1>1, <1>3, LeastFacts
<1> HIDE DEF p
<1>5. CASE I = {}
  <2>1. n + 1 \in 1 .. Len(s) + 1  BY <1>1
  <2>2. From(s, n + 1) = <<>>  BY <2>1, FromFacts
  <2>3. Skips(s, n + 1)  BY <1>1, <1>5 DEF Skips
  <2> QED  BY <1>2, <1>4, <1>5, <2>2, <2>3
<1>6. CASE I # {}
  <2>1. Skips(s, p)
    <3>1. p \in 1 .. n /\ s[p] # Space  BY <1>4, <1>6
    <3>2. ASSUME NEW k \in 1 .. p - 1 PROVE s[k] = Space
      <4>1. k \in 1 .. n /\ ~ (p <= k)  BY <1>1, <3>1
      <4> QED  BY <1>4, <1>6, <4>1
    <3> QED  BY <1>1, <3>1, <3>2 DEF Skips
  <2>2. p # 0  BY <1>4, <1>6
  <2>3. SkipBlanks(s) = From(s, p)  BY <1>2, <2>2 DEF From
  <2> QED  BY <2>1, <2>3
<1> QED  BY <1>5, <1>6

\* The argument that begins s ends before its e-th character, the next is at r.
Ends(s, e, r) ==
  /\ e \in 1 .. Len(s) + 1 /\ r \in e .. Len(s) + 1
  /\ \A k \in 1 .. e - 1 : s[k] # Space
  /\ \A k \in e .. r - 1 : s[k] = Space
  /\ e <= Len(s) => s[e] = Space
  /\ r <= Len(s) => s[r] # Space

LEMMA UntilFacts ==
  ASSUME NEW s \in Strings
  PROVE  \E e, r : /\ Ends(s, e, r)
                  /\ Until(s, Space) = [arg |-> SubSeq(s, 1, e - 1), rest |-> From(s, r)]
<1> DEFINE n == Len(s)
           I == {i \in 1 .. n : s[i] = Space}
           p == Least(I)
<1>1. n \in Nat  BY DEF Strings
<1>2. Until(s, Space) = IF p = 0 THEN [arg |-> s, rest |-> <<>>]
                        ELSE [arg |-> SubSeq(s, 1, p - 1), rest |-> SkipBlanks(From(s, p + 1))]
  BY DEF Until, SelectInSeq, Least, From
<1>3. I \in SUBSET (1 .. n)  OBVIOUS
<1>4. IF I = {} THEN p = 0 ELSE p \in I /\ p \in 1 .. n /\ \A k \in I : p <= k
  <2> HIDE DEF n, I
  <2> QED  BY <1>1, <1>3, LeastFacts
<1> HIDE DEF p
<1>5. CASE I = {}
  <2>1. n + 1 \in 1 .. Len(s) + 1  BY <1>1
  <2>2. From(s, n + 1) = <<>>  BY <2>1, FromFacts
  <2>3. Ends(s, n + 1, n + 1)  BY <1>1, <1>5 DEF Ends
  <2>4. SubSeq(s, 1, (n + 1) - 1) = s
    <3>1. (n + 1) - 1 = n  BY <1>1
    <3>2. SubSeq(s, 1, n) \in Strings /\ Len(SubSeq(s, 1, n)) = n
          /\ \A m \in 1 .. n : SubSeq(s, 1, n)[m] = s[m]
      BY <1>1 DEF Strings
    <3> QED  BY <3>1, <3>2, SameStrings
  <2> QED  BY <1>2, <1>4, <1>5, <2>2, <2>3, <2>4
<1>6. CASE I # {}
  <2>1. p \in 1 .. n /\ s[p] = Space  BY <1>4, <1>6
  <2>2. p + 1 \in 1 .. Len(s) + 1  BY <1>1, <2>1
  <2> DEFINE t == From(s, p + 1)
  <2>3. /\ t \in Strings /\ Len(t) = n - p
        /\ \A m \in 1 .. n - p : t[m] = s[p + m]
    <3>1. /\ t \in Strings /\ Len(t) = n - (p + 1) + 1
          /\ \A m \in 1 .. n - (p + 1) + 1 : t[m] = s[(p + 1) + m - 1]
      BY <2>2, FromFacts
    <3> HIDE DEF t
    <3>2. n - (p + 1) + 1 = n - p
      <4> HIDE DEF n
      <4> QED  BY <1>1, <2>1
    <3>3. ASSUME NEW m \in 1 .. n - p PROVE t[m] = s[p + m]
      <4>1. (p + 1) + m - 1 = p + m  BY <2>1
      <4> QED  BY <3>1, <3>2, <4>1
    <3> QED  BY <3>1, <3>2, <3>3
  <2>4. \A i \in 1 .. Len(t) + 1 : From(t, i) = From(s, (p + 1) + i - 1)
    BY <2>2, FromFacts
  <2> HIDE DEF t
  <2>5. PICK a : Skips(t, a) /\ SkipBlanks(t) = From(t, a)  BY <2>3, SkipFacts
  <2>6. /\ a \in 1 .. n - p + 1 /\ \A k \in 1 .. a - 1 : t[k] = Space
        /\ a <= n - p => t[a] # Space
    BY <2>3, <2>5 DEF Skips
  <2>7. From(t, a) = From(s, p + a)
    <3>1. (p + 1) + a - 1 = p + a  BY <2>1, <2>6
    <3> QED  BY <2>3, <2>4, <2>6, <3>1
  <2>8. Ends(s, p, p + a)
    <3>1. p + a \in p .. n + 1  BY <1>1, <2>1, <2>6
    <3>2. ASSUME NEW k \in 1 .. p - 1 PROVE s[k] # Space
      <4>1. k \in 1 .. n /\ ~ (p <= k)  BY <1>1, <2>1
      <4> QED  BY <1>4, <1>6, <4>1
    <3>3. ASSUME NEW k \in p .. (p + a) - 1 PROVE s[k] = Space
      <4>1. CASE k = p  BY <2>1, <4>1
      <4>2. CASE k # p
        <5>1. k - p \in 1 .. a - 1 /\ k - p \in 1 .. n - p /\ p + (k - p) = k
          <6> HIDE DEF n, I
          <6> QED  BY <1>1, <2>1, <2>6, <4>2
        <5> QED  BY <2>3, <2>6, <5>1
      <4> QED  BY <4>1, <4>2
    <3>4. ASSUME p + a <= n PROVE s[p + a] # Space
      <4>1. a \in 1 .. n - p /\ a <= n - p  BY <1>1, <2>1, <2>6, <3>4
      <4> QED  BY <2>3, <2>6, <4>1
    <3>5. p \in 1 .. n + 1 /\ (p <= n => s[p] = Space)
      <4> HIDE DEF n, I
      <4> QED  BY <1>1, <2>1
    <3>6. /\ p \in 1 .. n + 1 /\ p + a \in p .. n + 1
          /\ \A k \in 1 .. p - 1 : s[k] # Space
          /\ \A k \in p .. (p + a) - 1 : s[k] = Space
          /\ p <= n => s[p] = Space
          /\ p + a <= n => s[p + a] # Space
      <4> HIDE DEF n
      <4> QED  BY <3>1, <3>2, <3>3, <3>4, <3>5
    <3> QED  BY <3>6, Zenon DEF Ends
  <2>9. p # 0  BY <2>1
  <2> QED  BY <1>2, <2>5, <2>7, <2>8, <2>9 DEF t
<1> QED  BY <1>5, <1>6

LEMMA QuotesFacts ==
  ASSUME NEW s \in Strings, NoQuotes(s)
  PROVE  /\ \A i \in 1 .. Len(s) : s[i] \notin DOMAIN Closing
         /\ \A i \in 1 .. Len(s) + 1, j \in 0 .. Len(s) : NoQuotes(SubSeq(s, i, j))
         /\ \A k \in 1 .. Len(s) + 1 : NoQuotes(From(s, k))
<1>1. \A i \in 1 .. Len(s) : s[i] \notin DOMAIN Closing
  <2>1. DOMAIN s = 1 .. Len(s)  BY DEF Strings
  <2> QED  BY <2>1 DEF NoQuotes, Range, Quotes
<1>2. ASSUME NEW i \in 1 .. Len(s) + 1, NEW j \in 0 .. Len(s)
      PROVE  NoQuotes(SubSeq(s, i, j))
  <2> DEFINE t == SubSeq(s, i, j)
  <2>1. /\ t \in Strings /\ Len(t) = IF i <= j THEN j - i + 1 ELSE 0
        /\ \A m \in 1 .. j - i + 1 : t[m] = s[i + m - 1]
    BY SubFacts
  <2> HIDE DEF t
  <2>2. ASSUME NEW m \in DOMAIN t PROVE t[m] \notin Quotes
    <3>1. Len(s) \in Nat /\ m \in 1 .. Len(t)  BY <2>1 DEF Strings
    <3>2. m \in 1 .. j - i + 1  BY <2>1, <3>1
    <3>3. i + m - 1 \in 1 .. Len(s)  BY <3>1, <3>2
    <3> QED  BY <1>1, <2>1, <3>2, <3>3 DEF Quotes
  <2>3. NoQuotes(t)  BY <2>2 DEF NoQuotes, Range
  <2> QED  BY <2>3 DEF t
<1>3. ASSUME NEW k \in 1 .. Len(s) + 1 PROVE NoQuotes(From(s, k))
  <2>1. Len(s) \in 0 .. Len(s)  BY DEF Strings
  <2> QED  BY <1>2, <2>1 DEF From
<1> QED  BY <1>1, <1>2, <1>3

\* From its k-th character on, s has blanks up to a, an argument up to e, blanks up to r.
Word(s, k, a, e, r) ==
  /\ a \in k .. Len(s) + 1 /\ e \in a .. Len(s) + 1 /\ r \in e .. Len(s) + 1
  /\ \A i \in k .. a - 1 : s[i] = Space
  /\ a <= Len(s) => s[a] # Space
  /\ \A i \in a .. e - 1 : s[i] # Space
  /\ e <= Len(s) => s[e] = Space
  /\ \A i \in e .. r - 1 : s[i] = Space
  /\ r <= Len(s) => s[r] # Space

LEMMA FirstArgument ==
  ASSUME NEW s \in Strings, NoQuotes(s)
  PROVE  first_arg(s) = Until(s, Space)
<1>1. s # <<>> => Head(s) = s[1] /\ 1 \in 1 .. Len(s)  BY DEF Strings
<1>2. ~ (s # <<>> /\ Head(s) \in DOMAIN Closing)  BY <1>1, QuotesFacts
<1> QED  BY <1>2 DEF first_arg

LEMMA OneArgument ==
  ASSUME NEW s \in Strings, NoQuotes(s), NEW k \in 1 .. Len(s) + 1
  PROVE  \E a, e, r : /\ Word(s, k, a, e, r)
                     /\ one_argument(From(s, k)) =
                          [arg |-> SubSeq(s, a, e - 1), rest |-> From(s, r)]
<1> DEFINE n == Len(s)
           u == From(s, k)
<1>1. n \in Nat  BY DEF Strings
<1>2. /\ u \in Strings /\ Len(u) = n - k + 1
      /\ \A m \in 1 .. n - k + 1 : u[m] = s[k + m - 1]
      /\ \A i \in 1 .. Len(u) + 1 : From(u, i) = From(s, k + i - 1)
  BY FromFacts
<1> HIDE DEF u
<1>3. PICK x : Skips(u, x) /\ SkipBlanks(u) = From(u, x)  BY <1>2, SkipFacts
<1>4. /\ x \in 1 .. Len(u) + 1 /\ \A i \in 1 .. x - 1 : u[i] = Space
      /\ x <= Len(u) => u[x] # Space
  BY <1>3 DEF Skips
<1> DEFINE a == k + x - 1
           v == From(s, a)
<1>5. a \in k .. n + 1
  <2> HIDE DEF n
  <2> QED  BY <1>1, <1>2, <1>4
<1>6. SkipBlanks(u) = v  BY <1>2, <1>3, <1>4
<1>7. ASSUME NEW i \in k .. a - 1 PROVE s[i] = Space
  <2> HIDE DEF n
  <2>1. i - k + 1 \in 1 .. x - 1 /\ i - k + 1 \in 1 .. n - k + 1 /\ k + (i - k + 1) - 1 = i
    BY <1>1, <1>2, <1>4
  <2> QED  BY <1>2, <1>4, <2>1
<1>8. ASSUME a <= n PROVE s[a] # Space
  <2> HIDE DEF n
  <2>1. x \in 1 .. n - k + 1 /\ x <= Len(u)  BY <1>1, <1>2, <1>4, <1>8
  <2> QED  BY <1>2, <1>4, <2>1
<1> HIDE DEF a
<1>9. a \in 1 .. Len(s) + 1 /\ a \in Nat  BY <1>1, <1>5
<1>10. /\ v \in Strings /\ Len(v) = n - a + 1
       /\ \A m \in 1 .. n - a + 1 : v[m] = s[a + m - 1]
       /\ \A i \in 1 .. Len(v) + 1, j \in 0 .. Len(v) :
            SubSeq(v, i, j) = SubSeq(s, a + i - 1, a + j - 1)
       /\ \A i \in 1 .. Len(v) + 1 : From(v, i) = From(s, a + i - 1)
  BY <1>9, FromFacts
<1>11. NoQuotes(v)  BY <1>9, QuotesFacts
<1> HIDE DEF v
<1>12. PICK y, z : /\ Ends(v, y, z)
                   /\ Until(v, Space) = [arg |-> SubSeq(v, 1, y - 1), rest |-> From(v, z)]
  BY <1>10, UntilFacts
<1>13. /\ y \in 1 .. Len(v) + 1 /\ z \in y .. Len(v) + 1
       /\ \A i \in 1 .. y - 1 : v[i] # Space
       /\ \A i \in y .. z - 1 : v[i] = Space
       /\ y <= Len(v) => v[y] = Space
       /\ z <= Len(v) => v[z] # Space
  BY <1>12 DEF Ends
<1>14. y \in Nat /\ z \in Nat  BY <1>1, <1>9, <1>10, <1>13
<1>15. one_argument(u) = [arg |-> SubSeq(v, 1, y - 1), rest |-> From(v, z)]
  BY <1>6, <1>10, <1>11, <1>12, FirstArgument DEF one_argument
<1> DEFINE e == a + y - 1
           r == a + z - 1
<1>16. SubSeq(v, 1, y - 1) = SubSeq(s, a, e - 1) /\ From(v, z) = From(s, r)
  <2>1. 1 \in 1 .. Len(v) + 1 /\ y - 1 \in 0 .. Len(v) /\ z \in 1 .. Len(v) + 1
    <3> HIDE DEF n
    <3> QED  BY <1>1, <1>9, <1>10, <1>13
  <2>2. a + 1 - 1 = a /\ a + (y - 1) - 1 = (a + y - 1) - 1  BY <1>9, <1>14
  <2> QED  BY <1>10, <2>1, <2>2
<1>17. Word(s, k, a, e, r)
  <2>1. e \in a .. n + 1 /\ r \in e .. n + 1
    <3> HIDE DEF n
    <3> QED  BY <1>1, <1>9, <1>5, <1>10, <1>13, <1>14
  <2>2. ASSUME NEW i \in a .. e - 1 PROVE s[i] # Space
    <3> HIDE DEF n
    <3>1. i - a + 1 \in 1 .. y - 1 /\ i - a + 1 \in 1 .. n - a + 1 /\ a + (i - a + 1) - 1 = i
      BY <1>1, <1>5, <1>9, <1>10, <1>13, <1>14
    <3> QED  BY <1>10, <1>13, <3>1
  <2>3. ASSUME e <= n PROVE s[e] = Space
    <3> HIDE DEF n
    <3>1. y \in 1 .. n - a + 1 /\ y <= Len(v)  BY <1>1, <1>5, <1>9, <1>10, <1>13, <1>14, <2>3
    <3> QED  BY <1>10, <1>13, <3>1
  <2>4. ASSUME NEW i \in e .. r - 1 PROVE s[i] = Space
    <3> HIDE DEF n
    <3>1. i - a + 1 \in y .. z - 1 /\ i - a + 1 \in 1 .. n - a + 1 /\ a + (i - a + 1) - 1 = i
      BY <1>1, <1>5, <1>9, <1>10, <1>13, <1>14
    <3> QED  BY <1>10, <1>13, <3>1
  <2>5. ASSUME r <= n PROVE s[r] # Space
    <3> HIDE DEF n
    <3>1. z \in 1 .. n - a + 1 /\ z <= Len(v)  BY <1>1, <1>5, <1>9, <1>10, <1>13, <1>14, <2>5
    <3> QED  BY <1>10, <1>13, <3>1
  <2> HIDE DEF e, r
  <2> QED  BY <1>5, <1>7, <1>8, <2>1, <2>2, <2>3, <2>4, <2>5 DEF Word
<1> HIDE DEF e, r
<1> QED  BY <1>15, <1>16, <1>17 DEF u

-----------------------------------------------------------------------------
(* Names: the arguments of a string are its pieces.                        *)

IsPiece(s, x, y) ==
  /\ x \in 1 .. Len(s) /\ y \in x .. Len(s)
  /\ \A i \in x .. y : s[i] # Space
  /\ x = 1 \/ s[x - 1] = Space
  /\ y = Len(s) \/ s[y + 1] = Space

\* The pieces that begin before the k-th character.
Begun(s, k) == {p \in Strings : \E x, y : IsPiece(s, x, y) /\ x < k /\ p = SubSeq(s, x, y)}

LEMMA PiecesFacts ==
  ASSUME NEW s \in Strings
  PROVE  /\ Pieces(s) = {p \in Strings : \E x, y : IsPiece(s, x, y) /\ p = SubSeq(s, x, y)}
         /\ \A x, y : IsPiece(s, x, y) => SubSeq(s, x, y) \in Strings /\ SubSeq(s, x, y) # <<>>
         /\ Begun(s, 1) = {} /\ Begun(s, Len(s) + 1) = Pieces(s)
<1> DEFINE n == Len(s)
           T == {b \in (1 .. n) \X (1 .. n) :
                   /\ b[1] <= b[2] /\ \A k \in b[1] .. b[2] : s[k] # Space
                   /\ (b[1] = 1 \/ s[b[1] - 1] = Space)
                   /\ (b[2] = n \/ s[b[2] + 1] = Space)}
<1>1. n \in Nat  BY DEF Strings
<1>2. \A x, y : IsPiece(s, x, y) => /\ SubSeq(s, x, y) \in Strings /\ SubSeq(s, x, y) # <<>>
                                   /\ x \in 1 .. n /\ y \in 1 .. n /\ x <= y
  <2> SUFFICES ASSUME NEW x, NEW y, IsPiece(s, x, y)
               PROVE  /\ SubSeq(s, x, y) \in Strings /\ SubSeq(s, x, y) # <<>>
                      /\ x \in 1 .. n /\ y \in 1 .. n /\ x <= y
    OBVIOUS
  <2>1. x \in 1 .. n /\ y \in 1 .. n /\ x <= y  BY <1>1 DEF IsPiece
  <2>2. x \in 1 .. Len(s) + 1 /\ y \in 0 .. Len(s)  BY <1>1, <2>1
  <2> DEFINE t == SubSeq(s, x, y)
  <2>3. t \in Strings /\ Len(t) = IF x <= y THEN y - x + 1 ELSE 0  BY <2>2, SubFacts
  <2> HIDE DEF t, n
  <2>4. Len(t) # 0  BY <2>1, <2>3
  <2>5. t # <<>>  BY <2>4
  <2> QED  BY <2>1, <2>3, <2>5 DEF t
<1>3. \A x, y \in 1 .. n : IsPiece(s, x, y) <=> <<x, y>> \in T
  <2> SUFFICES ASSUME NEW x \in 1 .. n, NEW y \in 1 .. n
               PROVE  IsPiece(s, x, y) <=> <<x, y>> \in T
    OBVIOUS
  <2>1. <<x, y>> \in (1 .. n) \X (1 .. n)  OBVIOUS
  <2>2. y \in x .. n <=> x <= y  BY <1>1
  <2> QED  BY <2>1, <2>2 DEF IsPiece
<1>4. Pieces(s) = {SubSeq(s, b[1], b[2]) : b \in T}  BY DEF Pieces
<1>5. T \subseteq (1 .. n) \X (1 .. n)  OBVIOUS
<1> HIDE DEF T, n
<1>6. \A p : p \in Pieces(s) <=> \E x, y : IsPiece(s, x, y) /\ p = SubSeq(s, x, y)
  <2>1. ASSUME NEW p \in Pieces(s) PROVE \E x, y : IsPiece(s, x, y) /\ p = SubSeq(s, x, y)
    <3>1. PICK b \in T : p = SubSeq(s, b[1], b[2])  BY <1>4
    <3>2. b[1] \in 1 .. n /\ b[2] \in 1 .. n /\ b = <<b[1], b[2]>>  BY <1>5
    <3> QED  BY <1>3, <3>1, <3>2
  <2>2. ASSUME NEW x, NEW y, IsPiece(s, x, y) PROVE SubSeq(s, x, y) \in Pieces(s)
    <3>1. <<x, y>> \in T  BY <1>2, <1>3, <2>2
    <3>2. SubSeq(s, <<x, y>>[1], <<x, y>>[2]) = SubSeq(s, x, y)  OBVIOUS
    <3> QED  BY <1>4, <3>1, <3>2
  <2> QED  BY <2>1, <2>2
<1>7. \A x : x \in 1 .. n => ~ (x < 1) /\ x < n + 1  BY <1>1
<1>8. Begun(s, 1) = {} /\ Begun(s, Len(s) + 1) = Pieces(s)
  <2>1. Begun(s, 1) = {}  BY <1>2, <1>7 DEF Begun
  <2>2. ASSUME NEW p PROVE p \in Begun(s, n + 1) <=> p \in Pieces(s)
    <3>1. ASSUME p \in Begun(s, n + 1) PROVE p \in Pieces(s)  BY <1>6, <3>1 DEF Begun
    <3>2. ASSUME p \in Pieces(s) PROVE p \in Begun(s, n + 1)
      <4>1. PICK x, y : IsPiece(s, x, y) /\ p = SubSeq(s, x, y)  BY <1>6, <3>2
      <4>2. x < n + 1 /\ p \in Strings  BY <1>2, <1>7, <4>1
      <4> QED  BY <4>1, <4>2 DEF Begun
    <3> QED  BY <3>1, <3>2
  <2>3. \A p : p \in Begun(s, n + 1) <=> p \in Pieces(s)  BY <2>2
  <2>4. Begun(s, n + 1) \subseteq Pieces(s) /\ Pieces(s) \subseteq Begun(s, n + 1)
    BY <2>3, Zenon
  <2> QED  BY <2>1, <2>4 DEF n
<1>9. Pieces(s) = {p \in Strings : \E x, y : IsPiece(s, x, y) /\ p = SubSeq(s, x, y)}
  <2> DEFINE Q == {p \in Strings : \E x, y : IsPiece(s, x, y) /\ p = SubSeq(s, x, y)}
  <2>1. ASSUME NEW p \in Pieces(s) PROVE p \in Q
    <3>1. PICK x, y : IsPiece(s, x, y) /\ p = SubSeq(s, x, y)  BY <1>6
    <3>2. p \in Strings  BY <1>2, <3>1
    <3> QED  BY <3>1, <3>2
  <2>2. ASSUME NEW p \in Q PROVE p \in Pieces(s)  BY <1>6
  <2> QED  BY <2>1, <2>2
<1> QED  BY <1>2, <1>8, <1>9

\* A string begins here, or ends, or has a blank before.
At(s, k) == k \in 1 .. Len(s) + 1 /\ (k = 1 \/ k = Len(s) + 1 \/ s[k - 1] = Space)

\* From its k-th character on, s gives turn, and the next begins at m.
Gives(s, k, turn, m) ==
  /\ At(s, m) /\ turn.rest = From(s, m) /\ turn.arg \in Strings
  /\ IF turn.arg = <<>> THEN Begun(s, k) = Pieces(s)
     ELSE k < m /\ Begun(s, m) = Begun(s, k) \cup {turn.arg}

LEMMA GivesFacts ==
  ASSUME NEW s \in Strings, NoQuotes(s), NEW k, At(s, k)
  PROVE  \E m : Gives(s, k, one_argument(From(s, k)), m)
<1> DEFINE n == Len(s)
           turn == one_argument(From(s, k))
<1>1. n \in Nat  BY DEF Strings
<1>2. k \in 1 .. Len(s) + 1 /\ k \in 1 .. n + 1 /\ (k = 1 \/ k = n + 1 \/ s[k - 1] = Space)
  BY DEF At
<1>3. PICK a, e, r : /\ Word(s, k, a, e, r)
                     /\ turn = [arg |-> SubSeq(s, a, e - 1), rest |-> From(s, r)]
  BY <1>2, OneArgument
<1> HIDE DEF turn
<1>4. /\ a \in k .. n + 1 /\ e \in a .. n + 1 /\ r \in e .. n + 1
      /\ \A i \in k .. a - 1 : s[i] = Space
      /\ a <= n => s[a] # Space
      /\ \A i \in a .. e - 1 : s[i] # Space
      /\ e <= n => s[e] = Space
      /\ \A i \in e .. r - 1 : s[i] = Space
      /\ r <= n => s[r] # Space
  BY <1>3 DEF Word
<1>5. turn.arg = SubSeq(s, a, e - 1) /\ turn.rest = From(s, r)  BY <1>3
<1>6. \A x, y : IsPiece(s, x, y) <=>
        /\ x \in 1 .. n /\ y \in x .. n
        /\ \A i \in x .. y : s[i] # Space
        /\ x = 1 \/ s[x - 1] = Space
        /\ y = n \/ s[y + 1] = Space
  BY DEF IsPiece
<1>7. /\ Pieces(s) = {p \in Strings : \E x, y : IsPiece(s, x, y) /\ p = SubSeq(s, x, y)}
      /\ \A x, y : IsPiece(s, x, y) => SubSeq(s, x, y) \in Strings /\ SubSeq(s, x, y) # <<>>
  BY PiecesFacts
<1>8. /\ SubSeq(s, a, e - 1) \in Strings
      /\ Len(SubSeq(s, a, e - 1)) = IF a <= e - 1 THEN (e - 1) - a + 1 ELSE 0
  <2>1. a \in 1 .. n + 1 /\ e - 1 \in 0 .. n
    <3> HIDE DEF n
    <3> QED  BY <1>1, <1>2, <1>4
  <2> QED  BY <2>1, SubFacts
<1>9. At(s, r)
  <2>1. r \in 1 .. n + 1 /\ (r = 1 \/ r = n + 1 \/ s[r - 1] = Space)
    <3> HIDE DEF n
    <3>1. CASE r = n + 1  BY <1>1, <1>2, <1>4, <3>1
    <3>2. CASE r # n + 1
      <4>1. r <= n /\ e <= n /\ r # e  BY <1>1, <1>2, <1>4, <3>2
      <4>2. r - 1 \in e .. r - 1  BY <1>1, <1>2, <1>4, <4>1
      <4> QED  BY <1>1, <1>2, <1>4, <4>1, <4>2
    <3> QED  BY <3>1, <3>2
  <2> QED  BY <2>1 DEF At
<1> HIDE DEF n
<1>10. CASE a = n + 1
  <2>1. e = n + 1  BY <1>1, <1>2, <1>4, <1>10
  <2>2. turn.arg = <<>>  BY <1>1, <1>5, <1>8, <1>10, <2>1 DEF Strings
  <2>3. ASSUME NEW x, NEW y, IsPiece(s, x, y) PROVE x < k
    <3>1. x \in 1 .. n /\ s[x] # Space  BY <1>1, <1>6, <2>3
    <3> QED  BY <1>1, <1>2, <1>4, <1>10, <3>1
  <2>4. Begun(s, k) = Pieces(s)  BY <1>7, <2>3 DEF Begun
  <2> QED  BY <1>5, <1>8, <1>9, <2>2, <2>4 DEF Gives, turn
<1>11. CASE a # n + 1
  <2>1. a <= n /\ a < e /\ a <= e - 1 /\ k < r  BY <1>1, <1>2, <1>4, <1>11
  <2>2. IsPiece(s, a, e - 1)
    <3>1. a \in 1 .. n /\ e - 1 \in a .. n  BY <1>1, <1>2, <1>4, <2>1
    <3>2. a = 1 \/ s[a - 1] = Space
      <4>1. CASE a = k  BY <1>1, <1>2, <2>1, <4>1
      <4>2. CASE a # k
        <5>1. a - 1 \in k .. a - 1  BY <1>1, <1>2, <1>4, <4>2
        <5> QED  BY <1>4, <5>1
      <4> QED  BY <4>1, <4>2
    <3>3. e - 1 = n \/ s[(e - 1) + 1] = Space
      <4>1. (e - 1) + 1 = e /\ (e - 1 = n \/ e <= n)  BY <1>1, <1>2, <1>4
      <4> QED  BY <1>4, <4>1
    <3> QED  BY <1>4, <1>6, <3>1, <3>2, <3>3
  <2>3. ASSUME NEW x, NEW y, IsPiece(s, x, y), x < r, ~ (x < k)
        PROVE  x = a /\ y = e - 1
    <3>1. /\ x \in 1 .. n /\ y \in x .. n /\ s[x] # Space
          /\ x = 1 \/ s[x - 1] = Space
          /\ y = n \/ s[y + 1] = Space
          /\ \A i \in x .. y : s[i] # Space
      BY <1>1, <1>6, <2>3
    <3>2. x \notin k .. a - 1 /\ x \notin e .. r - 1  BY <1>4, <3>1
    <3>3. x \in a .. e - 1  BY <1>1, <1>2, <1>4, <2>3, <3>1, <3>2
    <3>4. x = a
      <4>1. CASE x = 1  BY <1>1, <1>2, <1>4, <3>3, <4>1
      <4>2. CASE s[x - 1] = Space
        <5>1. x - 1 \notin a .. e - 1  BY <1>4, <4>2
        <5> QED  BY <1>1, <1>2, <1>4, <3>3, <5>1
      <4> QED  BY <3>1, <4>1, <4>2
    <3>5. ~ (e <= y)
      <4> SUFFICES ASSUME e <= y PROVE FALSE  OBVIOUS
      <4>1. e <= n /\ e \in x .. y  BY <1>1, <1>2, <1>4, <3>1, <3>3
      <4> QED  BY <1>4, <3>1, <4>1
    <3>6. ~ (y < e - 1)
      <4> SUFFICES ASSUME y < e - 1 PROVE FALSE  OBVIOUS
      <4>1. y # n /\ y + 1 \in a .. e - 1  BY <1>1, <1>2, <1>4, <3>1, <3>4
      <4> QED  BY <1>4, <3>1, <4>1
    <3> QED  BY <1>1, <1>2, <1>4, <3>1, <3>4, <3>5, <3>6
  <2>4. Begun(s, r) = Begun(s, k) \cup {turn.arg}
    <3>1. turn.arg \in Begun(s, r)
      <4>1. a < r  BY <1>1, <1>2, <1>4, <2>1
      <4> QED  BY <1>5, <1>8, <2>2, <4>1 DEF Begun
    <3>2. ASSUME NEW p \in Begun(s, k) PROVE p \in Begun(s, r)
      <4>1. PICK x, y : IsPiece(s, x, y) /\ x < k /\ p = SubSeq(s, x, y) /\ p \in Strings
        BY DEF Begun
      <4>2. x < r  BY <1>1, <1>2, <1>4, <1>6, <2>1, <4>1
      <4> QED  BY <4>1, <4>2 DEF Begun
    <3>3. ASSUME NEW p \in Begun(s, r) PROVE p \in Begun(s, k) \cup {turn.arg}
      <4>1. PICK x, y : IsPiece(s, x, y) /\ x < r /\ p = SubSeq(s, x, y) /\ p \in Strings
        BY DEF Begun
      <4>2. CASE x < k  BY <4>1, <4>2 DEF Begun
      <4>3. CASE ~ (x < k)  BY <1>5, <2>3, <4>1, <4>3
      <4> QED  BY <4>2, <4>3
    <3> QED  BY <3>1, <3>2, <3>3
  <2>5. turn.arg # <<>>  BY <1>5, <1>7, <2>2
  <2> QED  BY <1>5, <1>8, <1>9, <2>1, <2>4, <2>5 DEF Gives, turn
<1> QED  BY <1>10, <1>11

-----------------------------------------------------------------------------
(* Names: the loop of Parts.                                               *)

TurnsOf(s, f) ==
  f = [i \in 0 .. Len(s) + 1 |->
         IF i = 0 THEN [arg |-> <<>>, rest |-> s] ELSE one_argument(f[i - 1].rest)]

LEMMA TurnsExist ==
  ASSUME NEW s \in Strings, NoQuotes(s)
  PROVE  \E f : TurnsOf(s, f)
<1> DEFINE n == Len(s) + 1
           T == [arg : Strings, rest : {t \in Strings : NoQuotes(t)}]
           first == [arg |-> <<>>, rest |-> s]
           step == [t \in T |-> one_argument(t.rest)]
<1>1. n \in Nat  BY DEF Strings
<1>2. first \in T  BY DEF Strings
<1>3. step \in [T -> T]
  <2>1. ASSUME NEW t \in T PROVE one_argument(t.rest) \in T
    <3> DEFINE u == t.rest
    <3>1. u \in Strings /\ NoQuotes(u)  OBVIOUS
    <3> HIDE DEF u
    <3>2. At(u, 1) /\ 1 \in 1 .. Len(u) + 1  BY <3>1 DEF At, Strings
    <3>3. From(u, 1) = u
      <4>1. Len(u) \in Nat /\ From(u, 1) \in Strings /\ Len(From(u, 1)) = Len(u) - 1 + 1
            /\ \A m \in 1 .. Len(u) - 1 + 1 : From(u, 1)[m] = u[1 + m - 1]
        BY <3>1, <3>2, FromFacts DEF Strings
      <4>2. Len(u) - 1 + 1 = Len(u) /\ \A m \in 1 .. Len(u) : 1 + m - 1 = m  BY <4>1
      <4>3. \A m \in 1 .. Len(u) : From(u, 1)[m] = u[m]  BY <4>1, <4>2
      <4> QED  BY <3>1, <4>1, <4>2, <4>3, SameStrings
    <3>4. PICK m : Gives(u, 1, one_argument(u), m)  BY <3>1, <3>2, <3>3, GivesFacts
    <3>5. PICK a, e, r : one_argument(u) = [arg |-> SubSeq(u, a, e - 1), rest |-> From(u, r)]
      BY <3>1, <3>2, <3>3, OneArgument
    <3>6. /\ one_argument(u).arg \in Strings /\ one_argument(u).rest = From(u, m)
          /\ m \in 1 .. Len(u) + 1
      BY <3>4 DEF Gives, At
    <3>7. From(u, m) \in Strings /\ NoQuotes(From(u, m))  BY <3>1, <3>6, FromFacts, QuotesFacts
    <3> DEFINE o == one_argument(u)
    <3>8. o = [arg |-> o.arg, rest |-> o.rest]  BY <3>5
    <3> HIDE DEF o
    <3>9. o \in T  BY <3>6, <3>7, <3>8 DEF o
    <3> QED  BY <3>9 DEF o, u
  <2> HIDE DEF T
  <2> QED  BY <2>1
<1>4. PICK f : f \in [0 .. n -> T] /\ f = [i \in 0 .. n |-> IF i = 0 THEN first ELSE step[f[i - 1]]]
  <2> HIDE DEF n, T, first, step
  <2>1. \E f : Loop(f, n, T, first, step)  BY <1>1, <1>2, <1>3, LoopExists
  <2> QED  BY <2>1 DEF Loop
<1>5. \A i \in 0 .. n : f[i] = IF i = 0 THEN first ELSE one_argument(f[i - 1].rest)
  <2> SUFFICES ASSUME NEW i \in 0 .. n
               PROVE  f[i] = IF i = 0 THEN first ELSE one_argument(f[i - 1].rest)
    OBVIOUS
  <2>1. f[i] = IF i = 0 THEN first ELSE step[f[i - 1]]
    <3> HIDE DEF n, T, first, step
    <3> QED  BY <1>4
  <2>2. ASSUME i # 0 PROVE f[i - 1] \in T
    <3>1. i - 1 \in 0 .. n
      <4> HIDE DEF n
      <4> QED  BY <1>1, <2>2
    <3> HIDE DEF n, T, first, step
    <3> QED  BY <1>4, <3>1
  <2>3. ASSUME i # 0 PROVE step[f[i - 1]] = one_argument(f[i - 1].rest)
    <3> HIDE DEF T
    <3> QED  BY <2>2, <2>3
  <2> HIDE DEF n, T, first, step
  <2> QED  BY <2>1, <2>3
<1>6. f = [i \in 0 .. n |-> IF i = 0 THEN first ELSE one_argument(f[i - 1].rest)]
  <2> HIDE DEF n, T, first, step
  <2>1. f = [i \in 0 .. n |-> f[i]]  BY <1>4
  <2> QED  BY <1>5, <2>1
<1> QED  BY <1>6 DEF TurnsOf

\* Parts are the pieces, in some order.
LEMMA PartsFacts ==
  ASSUME NEW s \in Strings, NoQuotes(s)
  PROVE  Parts(s) \in Seq(Strings) /\ Range(Parts(s)) = Pieces(s)
<1> DEFINE n == Len(s)
           turn == CHOOSE f : TurnsOf(s, f)
           E == {i \in 1 .. n + 1 : turn[i].arg = <<>>}
           empty == Min(E)
<1>1. n \in Nat  BY DEF Strings
<1>2. Parts(s) = [i \in 1 .. empty - 1 |-> turn[i].arg]  BY DEF Parts, TurnsOf
<1>3. TurnsOf(s, turn)  BY TurnsExist
<1> HIDE DEF turn
<1>4. turn[0] = [arg |-> <<>>, rest |-> s]
      /\ \A i \in 1 .. n + 1 : turn[i] = one_argument(turn[i - 1].rest)
  <2>1. 0 \in 0 .. n + 1 /\ \A i \in 1 .. n + 1 : i \in 0 .. n + 1 /\ i # 0  BY <1>1
  <2> QED  BY <1>3, <2>1 DEF TurnsOf
<1> HIDE DEF n
<1> DEFINE Full(i) == \A j \in 1 .. i : turn[j].arg # <<>>
           Args(i) == {turn[j].arg : j \in 1 .. i}
           Right(i, k) == /\ At(s, k) /\ turn[i].rest = From(s, k)
                          /\ Full(i) => i < k /\ Begun(s, k) = Args(i)
           U == {i \in 0 .. n + 1 : \E k : Right(i, k)}
<1>5. 0 \in U
  <2>1. At(s, 1) /\ 1 \in 1 .. Len(s) + 1  BY <1>1 DEF At, n
  <2>2. From(s, 1) = s
    <3>1. n \in Nat /\ From(s, 1) \in Strings /\ Len(From(s, 1)) = n - 1 + 1
          /\ \A m \in 1 .. n - 1 + 1 : From(s, 1)[m] = s[1 + m - 1]
      BY <1>1, <2>1, FromFacts DEF n
    <3>2. n - 1 + 1 = n /\ \A m \in 1 .. n : 1 + m - 1 = m  BY <3>1
    <3>3. \A m \in 1 .. n : From(s, 1)[m] = s[m]  BY <3>1, <3>2
    <3> QED  BY <3>1, <3>2, <3>3, SameStrings DEF n
  <2>3. Begun(s, 1) = {}  BY PiecesFacts
  <2>4. Args(0) = {}  OBVIOUS
  <2>5. turn[0].rest = From(s, 1)  BY <1>4, <2>2
  <2>6. Right(0, 1)  BY <2>1, <2>3, <2>4, <2>5
  <2>7. 0 \in 0 .. n + 1  BY <1>1
  <2> HIDE DEF Right
  <2> QED  BY <2>6, <2>7
<1>6. ASSUME NEW i \in 1 .. n + 1, NEW k, Right(i - 1, k)
      PROVE  \E m : Gives(s, k, turn[i], m) /\ Right(i, m)
  <2>1. turn[i] = one_argument(From(s, k))  BY <1>4, <1>6
  <2>2. PICK m : Gives(s, k, turn[i], m)  BY <1>6, <2>1, GivesFacts
  <2>3. At(s, m) /\ turn[i].rest = From(s, m)  BY <2>2 DEF Gives
  <2>4. ASSUME Full(i) PROVE i < m /\ Begun(s, m) = Args(i)
    <3>1. i \in 1 .. i /\ 1 .. i = (1 .. i - 1) \cup {i}  BY <1>1
    <3>2. Full(i - 1) /\ turn[i].arg # <<>>  BY <2>4, <3>1
    <3>3. i - 1 < k /\ Begun(s, k) = Args(i - 1)  BY <1>6, <3>2
    <3>4. k < m /\ Begun(s, m) = Begun(s, k) \cup {turn[i].arg}  BY <2>2, <3>2 DEF Gives
    <3>5. k \in Int /\ m \in Int  BY <1>1, <1>6, <2>3 DEF At, n
    <3>6. Args(i) = Args(i - 1) \cup {turn[i].arg}  BY <3>1
    <3>7. i < m  BY <3>3, <3>4, <3>5
    <3> HIDE DEF Args
    <3> QED  BY <3>3, <3>4, <3>6, <3>7
  <2> QED  BY <2>2, <2>3, <2>4
<1>7. 0 .. n + 1 \subseteq U
  <2>1. ASSUME NEW i \in 1 .. n + 1, i - 1 \in U PROVE i \in U
    <3>1. PICK k : Right(i - 1, k)  BY <2>1
    <3>2. i \in 0 .. n + 1  BY <1>1
    <3> HIDE DEF Right
    <3> QED  BY <1>6, <3>1, <3>2
  <2>2. n + 1 \in Nat  BY <1>1
  <2> HIDE DEF U
  <2> QED  BY <1>5, <2>1, <2>2, Upwards
<1>8. E # {}
  <2> SUFFICES ASSUME E = {} PROVE FALSE  OBVIOUS
  <2>1. n + 1 \in 0 .. n + 1 /\ Full(n + 1)  BY <1>1
  <2>2. PICK k : Right(n + 1, k)  BY <1>7, <2>1
  <2>3. k \in 1 .. n + 1 /\ n + 1 < k  BY <2>1, <2>2 DEF At, n
  <2> QED  BY <1>1, <2>3
<1>9. empty \in E /\ \A i \in E : empty <= i
  <2>1. E \in SUBSET Nat  OBVIOUS
  <2> HIDE DEF E
  <2>2. PICK m \in E : \A i \in E : m <= i  BY <1>8, <2>1, LeastNat
  <2> QED  BY <2>2 DEF Min
<1> HIDE DEF empty
<1>10. empty \in 1 .. n + 1 /\ turn[empty].arg = <<>> /\ Full(empty - 1)
  <2>1. empty \in 1 .. n + 1 /\ turn[empty].arg = <<>>  BY <1>9
  <2>2. ASSUME NEW j \in 1 .. empty - 1 PROVE turn[j].arg # <<>>
    <3>1. j \in 1 .. n + 1 /\ ~ (empty <= j)  BY <1>1, <2>1
    <3> QED  BY <1>9, <3>1
  <2> QED  BY <2>1, <2>2
<1>11. Args(empty - 1) = Pieces(s)
  <2>1. empty - 1 \in 0 .. n + 1  BY <1>1, <1>10
  <2>2. PICK k : Right(empty - 1, k)  BY <1>7, <2>1
  <2>3. PICK m : Gives(s, k, turn[empty], m)  BY <1>6, <1>10, <2>2
  <2>4. Begun(s, k) = Pieces(s)  BY <1>10, <2>3 DEF Gives
  <2> QED  BY <1>10, <2>2, <2>4
<1>12. \A i \in 1 .. empty - 1 : turn[i].arg \in Strings
  <2> SUFFICES ASSUME NEW i \in 1 .. empty - 1 PROVE turn[i].arg \in Strings  OBVIOUS
  <2>1. i \in 1 .. n + 1 /\ i - 1 \in 0 .. n + 1  BY <1>1, <1>10
  <2>2. PICK k : Right(i - 1, k)  BY <1>7, <2>1
  <2>3. PICK m : Gives(s, k, turn[i], m)  BY <1>6, <2>1, <2>2
  <2> QED  BY <2>3 DEF Gives
<1>13. Parts(s) \in Seq(Strings) /\ DOMAIN Parts(s) = 1 .. empty - 1
  <2>1. empty - 1 \in Nat /\ Parts(s) \in [1 .. empty - 1 -> Strings]
    BY <1>1, <1>2, <1>10, <1>12
  <2> QED  BY <2>1, SeqFrom
<1>14. Range(Parts(s)) = Args(empty - 1)  BY <1>2, <1>13 DEF Range
<1> QED  BY <1>11, <1>13, <1>14

-----------------------------------------------------------------------------
(* Names: is_name.                                                         *)

LEMMA HitFacts ==
  ASSUME NEW str, NEW part, NEW names \in Seq(Strings)
  PROVE  LET h == Hit(str, part, names)
         IN /\ h \in 0 .. Len(names)
            /\ h # 0 <=> \E n \in Range(names) : Begins(str, n) \/ Begins(part, n)
            /\ h # 0 => names[h] \in Range(names)
<1> DEFINE n == Len(names)
           I == {j \in 1 .. n : Begins(str, names[j]) \/ Begins(part, names[j])}
           h == Least(I)
<1>1. n \in Nat /\ DOMAIN names = 1 .. n  OBVIOUS
<1>2. Hit(str, part, names) = h  BY DEF Hit, SelectInSeq, Least
<1>3. I \in SUBSET (1 .. n)  OBVIOUS
<1>4. IF I = {} THEN h = 0 ELSE h \in I /\ h \in 1 .. n
  <2> HIDE DEF n, I
  <2> QED  BY <1>1, <1>3, LeastFacts
<1>5. I # {} <=> \E m \in Range(names) : Begins(str, m) \/ Begins(part, m)
  BY <1>1 DEF Range
<1> HIDE DEF h, n
<1>6. h \in 0 .. n /\ (h # 0 <=> I # {})
  <2> HIDE DEF I
  <2> QED  BY <1>1, <1>4
<1>7. h # 0 => names[h] \in Range(names)
  <2>1. h # 0 => h \in 1 .. n  BY <1>1, <1>6
  <2> QED  BY <1>1, <2>1 DEF Range
<1> HIDE DEF I
<1> QED  BY <1>2, <1>5, <1>6, <1>7 DEF n

\* Each of the parts begins a name, or the whole string does.
LEMMA MatchesFacts ==
  ASSUME NEW str, NEW parts \in Seq(Strings), NEW names \in Seq(Strings)
  PROVE  Matches(str, parts, names) <=>
           \/ \E n \in Range(names) : Begins(str, n)
           \/ \A w \in Range(parts) : \E n \in Range(names) : Begins(w, n)
<1> DEFINE n == Len(parts)
           hits == [i \in DOMAIN parts |-> Hit(str, parts[i], names)]
           I == {i \in 1 .. Len(hits) : hits[i] = 0}
           J == {i \in 1 .. Len(hits) : hits[i] # 0 /\ Begins(str, names[hits[i]])}
<1>1. n \in Nat /\ DOMAIN parts = 1 .. n  OBVIOUS
<1>2. \A i \in 1 .. n :
        /\ hits[i] \in 0 .. Len(names)
        /\ hits[i] # 0 <=> \E m \in Range(names) : Begins(str, m) \/ Begins(parts[i], m)
        /\ hits[i] # 0 => names[hits[i]] \in Range(names)
  <2> SUFFICES ASSUME NEW i \in 1 .. n
               PROVE  /\ hits[i] \in 0 .. Len(names)
                      /\ hits[i] # 0 <=>
                           \E m \in Range(names) : Begins(str, m) \/ Begins(parts[i], m)
                      /\ hits[i] # 0 => names[hits[i]] \in Range(names)
    OBVIOUS
  <2>1. hits[i] = Hit(str, parts[i], names)  BY <1>1
  <2> HIDE DEF hits, n
  <2> QED  BY <2>1, HitFacts
<1>3. Len(hits) = n /\ DOMAIN hits = 1 .. n
  <2>1. hits \in [1 .. n -> 0 .. Len(names)]
    <3>1. hits = [i \in 1 .. n |-> hits[i]]  BY <1>1
    <3> HIDE DEF hits, n
    <3> QED  BY <1>2, <3>1
  <2> HIDE DEF hits, n
  <2> QED  BY <1>1, <2>1, SeqFrom
<1>4. Matches(str, parts, names) <=> Least(I) = 0 \/ Least(J) \in 1 .. Least(I) - 1
  BY DEF Matches, SelectInSeq, Least
<1>5. /\ IF I = {} THEN Least(I) = 0 ELSE Least(I) \in 1 .. n
      /\ IF J = {} THEN Least(J) = 0 ELSE Least(J) \in 1 .. n
  <2>1. I \in SUBSET (1 .. n) /\ J \in SUBSET (1 .. n)  BY <1>3
  <2> HIDE DEF I, J, n
  <2> QED  BY <1>1, <2>1, LeastFacts
<1> HIDE DEF hits
<1>6. CASE \E m \in Range(names) : Begins(str, m)
  <2>1. I = {}  BY <1>2, <1>3, <1>6
  <2> QED  BY <1>4, <1>5, <1>6, <2>1
<1>7. CASE ~ \E m \in Range(names) : Begins(str, m)
  <2>1. J = {}  BY <1>2, <1>3, <1>7
  <2>2. Matches(str, parts, names) <=> I = {}
    <3> HIDE DEF I, J, n
    <3>1. ~ (0 \in 1 .. Least(I) - 1)  BY <1>1, <1>5
    <3> QED  BY <1>1, <1>4, <1>5, <2>1, <3>1
  <2>3. I = {} <=> \A i \in 1 .. n : \E m \in Range(names) : Begins(parts[i], m)
    BY <1>2, <1>3, <1>7
  <2>4. (\A i \in 1 .. n : \E m \in Range(names) : Begins(parts[i], m))
          <=> \A w \in Range(parts) : \E m \in Range(names) : Begins(w, m)
    BY <1>1 DEF Range
  <2> HIDE DEF I
  <2> QED  BY <1>7, <2>2, <2>3, <2>4
<1> QED  BY <1>6, <1>7

\* What a piece of a string begins with has no blank: it is one piece.
LEMMA WholeFacts ==
  ASSUME NEW s \in Strings, NEW list \in Strings, NEW m \in Pieces(list), Begins(s, m)
  PROVE  \A w \in Pieces(s) : w = s
<1>1. PICK x, y : IsPiece(list, x, y) /\ m = SubSeq(list, x, y)  BY PiecesFacts
<1>2. Len(list) \in Nat /\ Len(s) \in Nat  BY DEF Strings
<1>3. x \in 1 .. Len(list) /\ y \in x .. Len(list) /\ \A i \in x .. y : list[i] # Space
  BY <1>1 DEF IsPiece
<1>4. /\ m \in Strings /\ Len(m) = y - x + 1
      /\ \A i \in 1 .. y - x + 1 : m[i] = list[x + i - 1]
  <2>1. x \in 1 .. Len(list) + 1 /\ y \in 0 .. Len(list) /\ x <= y  BY <1>2, <1>3
  <2> QED  BY <1>1, <2>1, SubFacts
<1>5. \A i \in 1 .. Len(m) : m[i] # Space
  <2> SUFFICES ASSUME NEW i \in 1 .. Len(m) PROVE m[i] # Space  OBVIOUS
  <2>1. x + i - 1 \in x .. y /\ i \in 1 .. y - x + 1  BY <1>2, <1>3, <1>4
  <2> QED  BY <1>3, <1>4, <2>1
<1>6. s # <<>> /\ Len(s) <= Len(m) /\ \A i \in 1 .. Len(s) : LOWER(s[i]) = LOWER(m[i])
  BY DEF Begins
<1>7. \A i \in 1 .. Len(s) : s[i] # Space
  <2> SUFFICES ASSUME NEW i \in 1 .. Len(s), s[i] = Space PROVE FALSE  OBVIOUS
  <2>1. i \in 1 .. Len(m)  BY <1>2, <1>3, <1>4, <1>6
  <2>2. LOWER(Space) = LOWER(m[i]) /\ m[i] # Space  BY <1>5, <1>6, <2>1
  <2> QED  BY <2>2 DEF LOWER, Space
<1>8. ASSUME NEW w \in Pieces(s) PROVE w = s
  <2>1. PICK p, q : IsPiece(s, p, q) /\ w = SubSeq(s, p, q)  BY PiecesFacts
  <2>2. /\ p \in 1 .. Len(s) /\ q \in p .. Len(s)
        /\ p = 1 \/ s[p - 1] = Space
        /\ q = Len(s) \/ s[q + 1] = Space
    BY <2>1 DEF IsPiece
  <2>3. p = 1
    <3> SUFFICES ASSUME p # 1 PROVE FALSE  OBVIOUS
    <3>1. p - 1 \in 1 .. Len(s)  BY <1>2, <2>2
    <3> QED  BY <1>7, <2>2, <3>1
  <2>4. q = Len(s)
    <3> SUFFICES ASSUME q # Len(s) PROVE FALSE  OBVIOUS
    <3>1. q + 1 \in 1 .. Len(s)  BY <1>2, <2>2
    <3> QED  BY <1>7, <2>2, <3>1
  <2>5. SubSeq(s, 1, Len(s)) = s
    <3>1. SubSeq(s, 1, Len(s)) \in Strings /\ Len(SubSeq(s, 1, Len(s))) = Len(s)
          /\ \A i \in 1 .. Len(s) : SubSeq(s, 1, Len(s))[i] = s[i]
      BY <1>2 DEF Strings
    <3> QED  BY <3>1, SameStrings
  <2> QED  BY <2>1, <2>3, <2>4, <2>5
<1> QED  BY <1>8

\* A thing that the words name.
Named(words, name) ==
  \/ name = <<>>
  \/ words # <<>> /\ \A w \in Pieces(words) : \E n \in Pieces(name) : Begins(w, n)

LEMMA NameFacts ==
  ASSUME NEW s \in Strings, NoQuotes(s), NEW list \in Strings, NoQuotes(list)
  PROVE  is_name(s, list) <=> Named(s, list)
<1>1. /\ Parts(s) \in Seq(Strings) /\ Range(Parts(s)) = Pieces(s)
      /\ Parts(list) \in Seq(Strings) /\ Range(Parts(list)) = Pieces(list)
  BY PartsFacts
<1>2. Matches(s, Parts(s), Parts(list)) <=>
        \/ \E n \in Pieces(list) : Begins(s, n)
        \/ \A w \in Pieces(s) : \E n \in Pieces(list) : Begins(w, n)
  BY <1>1, MatchesFacts
<1>3. (\E n \in Pieces(list) : Begins(s, n)) =>
        \A w \in Pieces(s) : \E n \in Pieces(list) : Begins(w, n)
  <2> SUFFICES ASSUME NEW n \in Pieces(list), Begins(s, n)
               PROVE  \A w \in Pieces(s) : Begins(w, n)
    OBVIOUS
  <2>1. \A w \in Pieces(s) : w = s  BY WholeFacts
  <2> QED  BY <2>1
<1> QED  BY <1>2, <1>3 DEF is_name, Named

-----------------------------------------------------------------------------
(* Names: the searches.                                                    *)

LEMMA NumberFacts ==
  ASSUME NEW s \in Strings, NoQuotes(s)
  PROVE  number_argument(s).arg \in Strings /\ NoQuotes(number_argument(s).arg)
<1> DEFINE n == Len(s)
           I == {i \in 1 .. n : s[i] = "."}
           p == Least(I)
<1>1. n \in Nat  BY DEF Strings
<1>2. number_argument(s).arg = IF p = 0 THEN s ELSE SubSeq(s, p + 1, Len(s))
  BY DEF number_argument, SelectInSeq, Least
<1>3. p \in 0 .. n
  <2>1. I \in SUBSET (1 .. n)  OBVIOUS
  <2> HIDE DEF n, I
  <2> QED  BY <1>1, <2>1, LeastFacts
<1> HIDE DEF p
<1>4. p + 1 \in 1 .. Len(s) + 1 /\ Len(s) \in 0 .. Len(s)  BY <1>1, <1>3
<1>5. SubSeq(s, p + 1, Len(s)) \in Strings /\ NoQuotes(SubSeq(s, p + 1, Len(s)))
  BY <1>4, SubFacts, QuotesFacts
<1> QED  BY <1>2, <1>5

\* The number with which Sorted lists an element is its rank.
LEMMA SortedRank ==
  ASSUME NEW n \in Nat, NEW K \in SUBSET (1 .. n)
  PROVE  \A m : /\ m \in DOMAIN Sorted(K) => Sorted(K)[m] \in K /\ Rank(K, Sorted(K)[m]) = m
               /\ \A i \in K : Rank(K, i) = m => m \in DOMAIN Sorted(K)
<1>1. /\ \A i \in K : Rank(K, i) \in 1 .. Cardinality(K)
      /\ \A m \in 1 .. Cardinality(K) : \E i \in K : Rank(K, i) = m
  BY RankFacts
<1>2. Sorted(K) = [m \in 1 .. Cardinality(K) |-> CHOOSE i \in K : Rank(K, i) = m]  BY DEF Sorted
<1>3. DOMAIN Sorted(K) = 1 .. Cardinality(K)
      /\ \A m \in 1 .. Cardinality(K) : Sorted(K)[m] \in K /\ Rank(K, Sorted(K)[m]) = m
  BY <1>1, <1>2
<1> QED  BY <1>1, <1>3

\* The things of some places that the words name, and the one with the number.
Of(w, words, places) ==
  {i \in DOMAIN w : w[i].place \in places /\ (w[i].seen /\ Named(words, w[i].name))}

Nth(w, x, places) == {i \in Of(w, x.arg, places) : Rank(Of(w, x.arg, places), i) = x.number}

\* What a search answers: a thing of the set, or null if it is empty.
Answers(a, S) == IF S = {} THEN a = 0 ELSE a \in S /\ a # 0

Unquoted(w) == \A i \in DOMAIN w : NoQuotes(w[i].name)

LEMMA SearchFacts ==
  ASSUME NEW arg \in Strings, NoQuotes(arg), world \in Seq(Things), Unquoted(world), NEW places
  PROVE  Answers(Search(arg, places), Nth(world, number_argument(arg), places))
<1> DEFINE x == number_argument(arg)
           n == Len(world)
           K == Of(world, x.arg, places)
           T == {i \in DOMAIN world : /\ world[i].place \in places /\ world[i].seen
                                     /\ is_name(x.arg, world[i].name)}
<1>1. n \in Nat /\ DOMAIN world = 1 .. n /\ \A i \in DOMAIN world : world[i] \in Things
  BY SeqFacts
<1>2. x.arg \in Strings /\ NoQuotes(x.arg)  BY NumberFacts
<1>3. Search(arg, places) = IF x.number \in DOMAIN Sorted(T) THEN Sorted(T)[x.number] ELSE 0
  BY DEF Search
<1> HIDE DEF x
<1>4. \A i \in DOMAIN world : is_name(x.arg, world[i].name) <=> Named(x.arg, world[i].name)
  <2> SUFFICES ASSUME NEW i \in DOMAIN world
               PROVE  is_name(x.arg, world[i].name) <=> Named(x.arg, world[i].name)
    OBVIOUS
  <2>1. world[i].name \in Strings /\ NoQuotes(world[i].name)
    BY <1>1, NamesAssumption DEF Unquoted, Strings
  <2> QED  BY <1>2, <2>1, NameFacts
<1>5. T = K  BY <1>4, Zenon DEF Of
<1>6. K \in SUBSET (1 .. n)  BY <1>1 DEF Of
<1> HIDE DEF T, K, n
<1>7. \A m : /\ m \in DOMAIN Sorted(K) => Sorted(K)[m] \in K /\ Rank(K, Sorted(K)[m]) = m
            /\ \A i \in K : Rank(K, i) = m => m \in DOMAIN Sorted(K)
  BY <1>1, <1>6, SortedRank
<1>8. \A i \in K : i # 0  BY <1>1, <1>6
<1>9. Nth(world, x, places) = {i \in K : Rank(K, i) = x.number}  BY DEF Nth, K
<1>10. CASE x.number \in DOMAIN Sorted(K)
  <2> DEFINE i == Sorted(K)[x.number]
  <2>1. i \in K /\ Rank(K, i) = x.number  BY <1>7, <1>10
  <2>2. Search(arg, places) = i  BY <1>3, <1>5, <1>10
  <2> HIDE DEF i
  <2> QED  BY <1>8, <1>9, <2>1, <2>2 DEF Answers, x
<1>11. CASE x.number \notin DOMAIN Sorted(K)
  <2>1. Search(arg, places) = 0  BY <1>3, <1>5, <1>11
  <2>2. Nth(world, x, places) = {}  BY <1>7, <1>9, <1>11
  <2> QED  BY <2>1, <2>2 DEF Answers, x
<1> QED  BY <1>10, <1>11

LEMMA FirstFacts ==
  ASSUME NEW n \in 1 .. 3, NEW answers, Len(answers) = n
  PROVE  First(answers) = IF answers[1] # 0 \/ n = 1 THEN answers[1]
                          ELSE IF answers[2] # 0 \/ n = 2 THEN answers[2] ELSE answers[3]
<1> DEFINE I == {i \in 1 .. n : answers[i] # 0}
           p == Least(I)
<1>1. First(answers) = IF p = 0 THEN 0 ELSE answers[p]
  BY DEF First, SelectInSeq, Least
<1>2. IF I = {} THEN p = 0 ELSE p \in I /\ p \in 1 .. n /\ \A k \in I : p <= k
  <2>1. I \in SUBSET (1 .. n) /\ n \in Nat  OBVIOUS
  <2> HIDE DEF I
  <2> QED  BY <2>1, LeastFacts
<1> HIDE DEF p
<1>3. CASE I = {}
  <2>1. answers[1] = 0 /\ (n # 1 => answers[2] = 0) /\ (n = 3 => answers[3] = 0)  BY <1>3
  <2>2. n = 1 \/ n = 2 \/ n = 3  OBVIOUS
  <2> HIDE DEF I
  <2> QED  BY <1>1, <1>2, <1>3, <2>1, <2>2
<1>4. CASE I # {}
  <2>1. p \in 1 .. n /\ answers[p] # 0 /\ \A k \in 1 .. n : k < p => answers[k] = 0
    BY <1>2, <1>4
  <2>2. First(answers) = answers[p]  BY <1>1, <2>1
  <2>3. p = 1 \/ p = 2 \/ p = 3  BY <2>1
  <2> QED  BY <2>1, <2>2, <2>3
<1> QED  BY <1>3, <1>4

\* Where a thing is looked for, in this order.
Found(w, arg, answer) ==
  LET x == number_argument(arg)
      onFloor == Nth(w, x, {"floor"})
      asCarried == Nth(w, x, {"carried"})
      asWorn == Nth(w, x, {"worn"})
      anywhere == Nth(w, x, {"floor", "carried", "worn", "elsewhere"})
      named == IF onFloor # {} THEN onFloor ELSE IF asCarried # {} THEN asCarried
               ELSE IF asWorn # {} THEN asWorn ELSE anywhere
  IN IF named = {} THEN answer = 0 ELSE answer \in named

LEMMA WorldFacts ==
  ASSUME NEW arg \in Strings, NoQuotes(arg), world \in Seq(Things), Unquoted(world)
  PROVE  Found(world, arg, get_obj_world(arg))
<1> DEFINE x == number_argument(arg)
           onFloor == Search(arg, {"floor"})
           asCarried == Search(arg, {"carried"})
           asWorn == Search(arg, {"worn"})
           anywhere == Search(arg, {"floor", "carried", "worn", "elsewhere"})
           here == [i \in 1 .. 3 |-> Search(arg, {<<"floor", "carried", "worn">>[i]})]
           both == <<get_obj_here(arg), anywhere>>
<1>1. /\ Answers(onFloor, Nth(world, x, {"floor"}))
      /\ Answers(asCarried, Nth(world, x, {"carried"}))
      /\ Answers(asWorn, Nth(world, x, {"worn"}))
      /\ Answers(anywhere, Nth(world, x, {"floor", "carried", "worn", "elsewhere"}))
  BY SearchFacts
<1>2. here[1] = onFloor /\ here[2] = asCarried /\ here[3] = asWorn /\ Len(here) = 3
  <2>1. here[1] = onFloor /\ here[2] = asCarried /\ here[3] = asWorn
    <3> DEFINE three == <<"floor", "carried", "worn">>
    <3>1. three[1] = "floor" /\ three[2] = "carried" /\ three[3] = "worn"  OBVIOUS
    <3>2. here = [i \in 1 .. 3 |-> Search(arg, {three[i]})]  OBVIOUS
    <3> HIDE DEF three, here
    <3>3. \A i \in 1 .. 3 : here[i] = Search(arg, {three[i]})  BY <3>2
    <3>4. here[1] = Search(arg, {three[1]}) /\ here[2] = Search(arg, {three[2]})
          /\ here[3] = Search(arg, {three[3]})
      BY <3>3
    <3> QED  BY <3>1, <3>4, Zenon
  <2>2. Len(here) = 3
    <3>1. here \in [1 .. 3 -> {here[i] : i \in 1 .. 3}]  OBVIOUS
    <3> HIDE DEF here
    <3> QED  BY <3>1, SeqFrom
  <2> QED  BY <2>1, <2>2
<1>3. get_obj_here(arg) = First(here)  BY DEF get_obj_here
<1>4. get_obj_world(arg) = First(both)  BY DEF get_obj_world
<1> HIDE DEF onFloor, asCarried, asWorn, anywhere, here, x
<1>5. get_obj_here(arg) = IF onFloor # 0 THEN onFloor
                          ELSE IF asCarried # 0 THEN asCarried ELSE asWorn
  <2>1. 3 \in 1 .. 3  OBVIOUS
  <2> QED  BY <1>2, <1>3, <2>1, FirstFacts
<1>6. get_obj_world(arg) = IF get_obj_here(arg) # 0 THEN get_obj_here(arg) ELSE anywhere
  <2>1. Len(both) = 2 /\ both[1] = get_obj_here(arg) /\ both[2] = anywhere  OBVIOUS
  <2> HIDE DEF both
  <2>2. 2 \in 1 .. 3  OBVIOUS
  <2> QED  BY <1>4, <2>1, <2>2, FirstFacts
<1> QED  BY <1>1, <1>5, <1>6 DEF Found, Answers, x

-----------------------------------------------------------------------------
(* Names: the searches find what was named.                                *)

FindsInv == world \in Seq(Things) /\ FindsTheNamed

\* FindsTheNamed, of given values.
Finds(w, arg, answer) ==
  arg # NoArgument /\ NoQuotes(arg) /\ Unquoted(w) => Found(w, arg, answer)

LEMMA FindsInvInit == NamesInit => FindsInv
<1> SUFFICES ASSUME NamesInit PROVE FindsInv  OBVIOUS
<1>1. PICK n \in 0 .. MaxThings : world \in [1 .. n -> Things]  BY DEF NamesInit
<1>2. n \in Nat  BY NamesAssumption
<1>3. world \in Seq(Things)  BY <1>1, <1>2, SeqFrom
<1>4. FindsTheNamed  BY Zenon DEF NamesInit, FindsTheNamed
<1> QED  BY <1>3, <1>4 DEF FindsInv

LEMMA FindsInvStep == FindsInv /\ [NamesNext]_namesVars => FindsInv'
<1> SUFFICES ASSUME FindsInv, [NamesNext]_namesVars PROVE FindsInv'  OBVIOUS
<1>1. /\ FindsTheNamed <=> Finds(world, argument, found)
      /\ FindsTheNamed' <=> Finds(world', argument', found')
  <2>1. FindsTheNamed <=> Finds(world, argument, found)
    BY Zenon DEF FindsTheNamed, Finds, Found, Nth, Of, Named, Unquoted, Rank
  <2>2. FindsTheNamed' <=> Finds(world', argument', found')
    BY Zenon DEF FindsTheNamed, Finds, Found, Nth, Of, Named, Unquoted, Rank
  <2> QED  BY <2>1, <2>2
<1>2. world \in Seq(Things) /\ FindsTheNamed  BY DEF FindsInv
<1>3. CASE Ask
  <2>1. PICK a \in Arguments : argument' = a /\ found' = get_obj_world(a)  BY <1>3 DEF Ask
  <2>2. world' = world  BY <1>3 DEF Ask
  <2>3. a \in Strings  BY NamesAssumption DEF Strings
  <2>4. Finds(world, a, get_obj_world(a))  BY <1>2, <2>3, WorldFacts DEF Finds
  <2>5. FindsTheNamed'  BY <1>1, <2>1, <2>2, <2>4
  <2> QED  BY <1>2, <2>2, <2>5 DEF FindsInv
<1>4. CASE Done
  <2>1. world' = world /\ argument' = NoArgument  BY <1>4 DEF Done
  <2>2. FindsTheNamed'  BY <1>1, <2>1 DEF Finds
  <2> QED  BY <1>2, <2>1, <2>2 DEF FindsInv
<1>5. CASE UNCHANGED namesVars
  <2>1. world' = world /\ argument' = argument /\ found' = found  BY <1>5 DEF namesVars
  <2>2. FindsTheNamed'  BY <1>1, <1>2, <2>1
  <2> QED  BY <1>2, <2>1, <2>2 DEF FindsInv
<1> QED  BY <1>3, <1>4, <1>5 DEF NamesNext

\* one_argument, is_name, number_argument, get_obj_here and get_obj_world: an argument
\* without quotes finds the nth of the things that its words name.
THEOREM TheNamedIsFound == NamesSpec => []FindsTheNamed
<1>1. FindsInv => FindsTheNamed  BY DEF FindsInv
<1> QED  BY FindsInvInit, FindsInvStep, <1>1, PTL DEF NamesSpec

-----------------------------------------------------------------------------
(* Objects: where a thing is.                                              *)

\* What OnePlace needs to be inductive: players stand in a room, and the local
\* variables of reset_room name what is in the world, a lastOBJ that is in
\* nothing.
Standing == \A c \in Players \cap first_character : at[c] \in Rooms

ResetLocals ==
  /\ Commands => lastNPC = None /\ lastOBJ = None
  /\ lastNPC # None => lastNPC \in first_character
  /\ lastOBJ # None => lastOBJ \in first_object /\ inObj[lastOBJ] = None

IInv == TypeOK /\ OnePlace /\ Standing /\ ResetLocals

USE ObjectsAssumption

LEMMA InitIInv == Init => IInv
<1> SUFFICES ASSUME Init PROVE IInv
  OBVIOUS
<1>1. TypeOK
  BY DEF Init, TypeOK
<1>2. OnePlace
  BY DEF Init, OnePlace, Chars
<1>3. Standing /\ ResetLocals
  BY DEF Init, Standing, ResetLocals
<1> QED BY <1>1, <1>2, <1>3 DEF IInv

Worlds == [wearLoc : [Objs -> Slots \cup {WEAR_NONE}], bugs : BOOLEAN]

\* Whatever is worn or tried, things are worn at slots.
LEMMA EquipType ==
  ASSUME NEW w \in Worlds, NEW held, NEW o \in Objs, NEW s \in Slots
  PROVE  equip_char(w, held, o, s) \in Worlds
  BY DEF equip_char, Worlds

LEMMA SlotsType ==
  ASSUME NEW o \in Objs
  PROVE  /\ Len(SlotsOf[o]) \in 0 .. 2 /\ DOMAIN SlotsOf[o] = 1 .. Len(SlotsOf[o])
         /\ \A i \in DOMAIN SlotsOf[o] : SlotsOf[o][i] \in Slots
         /\ SlotsOf[o] # <<>> => Len(SlotsOf[o]) > 0
<1>1. CASE SlotsOf[o] = <<>>
  BY <1>1
<1>2. CASE \E s \in Slots : SlotsOf[o] = <<s>>
  BY <1>2
<1>3. CASE SlotsOf[o] \in Slots \X Slots
  <2>1. PICK s \in Slots, t \in Slots : SlotsOf[o] = <<s, t>>
    BY <1>3
  <2> QED BY <2>1
<1> QED BY <1>1, <1>2, <1>3

LEMMA WearType ==
  ASSUME NEW w \in Worlds, NEW held \in SUBSET Objs, NEW o \in Objs,
         NEW fReplace \in BOOLEAN
  PROVE  wear_obj(w, held, o, fReplace) \subseteq Worlds
<1> DEFINE slots == SlotsOf[o]
           Taken(x, i) == WornAt(x, held, slots[i]) # {}
           full == \A i \in DOMAIN slots : Taken(w, i)
           Put(x) == IF Len(slots) = 1 THEN equip_char(x, held, o, slots[1])
                     ELSE IF ~Taken(x, 1) THEN equip_char(x, held, o, slots[1])
                     ELSE IF ~Taken(x, 2) THEN equip_char(x, held, o, slots[2])
                     ELSE x
<1>1. ASSUME NEW x \in Worlds, slots # <<>> PROVE Put(x) \in Worlds
  <2>1. slots[1] \in Slots /\ (Len(slots) = 1 \/ slots[2] \in Slots)
    BY <1>1, SlotsType
  <2> QED BY <1>1, <2>1, EquipType
<1>2. slots # <<>> => Removed(w, held, slots[1]) \subseteq Worlds
  BY DEF Removed, Worlds, WornAt
<1>3. CASE slots = <<>>
  BY <1>3 DEF wear_obj
<1>4. CASE slots # <<>> /\ ~full
  <2>1. wear_obj(w, held, o, fReplace) = {Put(w)}
    BY <1>4 DEF wear_obj
  <2> QED BY <1>4, <1>1, <2>1
<1>5. CASE slots # <<>> /\ full /\ fReplace
  <2>1. wear_obj(w, held, o, fReplace) = {Put(x) : x \in Removed(w, held, slots[1])}
    BY <1>5 DEF wear_obj
  <2> HIDE DEF Put
  <2> QED BY <1>5, <1>1, <1>2, <2>1
<1>6. CASE slots # <<>> /\ full /\ ~fReplace
  BY <1>6 DEF wear_obj
<1> QED BY <1>3, <1>4, <1>5, <1>6

-----------------------------------------------------------------------------
(* Each action preserves IInv.                                             *)

\* The parts of IInv that do not look at who wears what.
LEMMA WornSteps ==
  ASSUME IInv, NEW w \in Worlds, Wears(w),
         UNCHANGED <<people, first_object, lists, backs, reset>>
  PROVE  IInv'
  BY DEF IInv, TypeOK, OnePlace, Standing, ResetLocals, Commands, Worlds, Wears,
         people, lists, backs, reset

LEMMA WorldType ==
  ASSUME TypeOK
  PROVE  /\ World(wearLoc) \in Worlds
         /\ \A S \in SUBSET Objs : World(Unworn(S)) \in Worlds
         /\ \A loc \in [Objs -> Slots \cup {WEAR_NONE}] : World(loc) \in Worlds
  BY DEF TypeOK, World, Worlds, Unworn

LEMMA WearsType ==
  ASSUME NEW w \in Worlds, Wears(w)
  PROVE  wearLoc' \in [Objs -> Slots \cup {WEAR_NONE}] /\ bugs' \in BOOLEAN
  BY DEF Worlds, Wears

\* Extraction takes objects off every list and clears their pointers.
LEMMA ExtractIInv ==
  ASSUME IInv, NEW S \in SUBSET first_object, extract_obj(S), UNCHANGED reset,
         Commands, first_character' \subseteq first_character,
         at' \in [Chars -> Rooms \cup {None}],
         \A c \in first_character' : at'[c] = at[c],
         \A o \in Objs \ S : carriedBy[o] \in first_character' \cup {None}
  PROVE  IInv'
<1> DEFINE gone == S \cup UNION {contains[o] : o \in S}
<1> USE DEF IInv
<1>1. gone \subseteq Objs
  BY DEF TypeOK
<1>2. TypeOK'
  BY <1>1 DEF TypeOK, extract_obj, Points, Unworn, reset
<1>3. OnePlace'
  <2>1. \A o \in Objs : o \notin gone => inObj[o] \notin gone
    BY DEF TypeOK, OnePlace
  <2> QED BY <1>1, <2>1 DEF TypeOK, OnePlace, extract_obj, Points
<1>4. Standing' /\ ResetLocals'
  BY DEF Standing, ResetLocals, Commands, reset, TypeOK, Chars
<1> QED BY <1>2, <1>3, <1>4

LEMMA CharacterIInv ==
  ASSUME IInv, NEW c \in Chars,
         \/ c \in Players /\ (Enter(c) \/ move_char(c) \/ do_wear_all(c))
         \/ Depart(c)
  PROVE  IInv'
<1> USE DEF IInv
<1>1. CASE c \in Players /\ Enter(c)
  <2>1. PICK S \in SUBSET (Objs \ first_object) :
          /\ New(S)
          /\ carrying' = [carrying EXCEPT ![c] = S]
          /\ Points(S, c, None, None)
          /\ Wears(World(Unworn(S)))
    BY <1>1 DEF Enter
  <2>2. wearLoc' \in [Objs -> Slots \cup {WEAR_NONE}] /\ bugs' \in BOOLEAN
    BY <2>1, WorldType, WearsType
  <2>3. carrying[c] = {}
    BY <1>1 DEF Enter, TypeOK, OnePlace
  <2>4. TypeOK'
    BY <1>1, <2>1, <2>2 DEF Enter, TypeOK, New, Points, reset
  <2>5. OnePlace'
    BY <1>1, <2>1, <2>3 DEF Enter, TypeOK, OnePlace, New, Points
  <2>6. Standing' /\ ResetLocals'
    BY <1>1, <2>1 DEF Enter, TypeOK, Standing, ResetLocals, Commands, reset, Chars
  <2> QED BY <2>4, <2>5, <2>6
<1>2. CASE c \in Players /\ move_char(c)
  BY <1>2 DEF move_char, TypeOK, OnePlace, Standing, ResetLocals, Commands, Chars,
              lists, backs, worn, reset
<1>3. CASE c \in Players /\ do_wear_all(c)
  <2>1. PICK loc \in [Objs -> Slots \cup {WEAR_NONE}] : Wears(World(loc))
    BY <1>3 DEF do_wear_all
  <2>2. UNCHANGED <<people, first_object, lists, backs, reset>>
    BY <1>3 DEF do_wear_all
  <2> QED BY <2>1, <2>2, WorldType, WornSteps
<1>4. CASE Depart(c)
  <2>1. carrying[c] \subseteq first_object
    BY DEF TypeOK, OnePlace
  <2>2. \A o \in Objs \ carrying[c] : carriedBy[o] \in first_character' \cup {None}
    BY <1>4 DEF Depart, TypeOK, OnePlace
  <2>3. at' \in [Chars -> Rooms \cup {None}]
    BY <1>4 DEF Depart, TypeOK
  <2>4. \A d \in first_character' : at'[d] = at[d]
    BY <1>4 DEF Depart, TypeOK
  <2> QED BY <1>4, <2>1, <2>2, <2>3, <2>4, ExtractIInv DEF Depart
<1> QED BY <1>1, <1>2, <1>3, <1>4

LEMMA CommandIInv ==
  ASSUME IInv, NEW c \in Players, NEW o \in Objs,
         do_get(c, o) \/ do_drop(c, o) \/ do_wear(c, o)
  PROVE  IInv'
<1> USE DEF IInv, Chars
<1>1. CASE do_get(c, o)
  <2>1. at[c] \in Rooms /\ inRoom[o] = at[c]
    BY <1>1 DEF do_get, TypeOK, OnePlace, Standing
  <2>2. TypeOK'
    BY <1>1, <2>1 DEF do_get, TypeOK, obj_from_room, Points, people, worn, reset
  <2>3. OnePlace'
    BY <1>1, <2>1 DEF do_get, TypeOK, OnePlace, obj_from_room, Points, people
  <2>4. Standing' /\ ResetLocals'
    BY <1>1 DEF do_get, Standing, ResetLocals, Commands, people, reset
  <2> QED BY <2>2, <2>3, <2>4
<1>2. CASE do_drop(c, o)
  <2>1. at[c] \in Rooms /\ carriedBy[o] = c
    BY <1>2 DEF do_drop, TypeOK, OnePlace, Standing
  <2>2. TypeOK'
    BY <1>2, <2>1 DEF do_drop, TypeOK, obj_from_char, Points, people, worn, reset
  <2>3. OnePlace'
    BY <1>2, <2>1 DEF do_drop, TypeOK, OnePlace, obj_from_char, Points, people
  <2>4. Standing' /\ ResetLocals'
    BY <1>2 DEF do_drop, Standing, ResetLocals, Commands, people, reset
  <2> QED BY <2>2, <2>3, <2>4
<1>3. CASE do_wear(c, o)
  <2>1. PICK w \in wear_obj(World(wearLoc), carrying[c], o, TRUE) : Wears(w)
    BY <1>3 DEF do_wear
  <2>2. w \in Worlds
    BY <2>1, WearType, WorldType DEF TypeOK
  <2>3. UNCHANGED <<people, first_object, lists, backs, reset>>
    BY <1>3 DEF do_wear
  <2> QED BY <2>1, <2>2, <2>3, WornSteps
<1> QED BY <1>1, <1>2, <1>3

\* What the steps of a reset have in common: the world only grows, by an
\* object that is nowhere, or where lastNPC or the room hold it.
LEMMA LoadsIInv ==
  ASSUME IInv, NEW o \in Objs, ResetLoads(o), NEW w \in Worlds, Wears(w),
         \/ /\ UNCHANGED <<carrying, objects>>
            /\ Points({o}, None, None, None)
         \/ /\ objects' = [objects EXCEPT ![resetting] = @ \cup {o}]
            /\ UNCHANGED carrying
            /\ Points({o}, None, resetting, None)
         \/ /\ lastNPC # None
            /\ carrying' = [carrying EXCEPT ![lastNPC] = @ \cup {o}]
            /\ UNCHANGED objects
            /\ Points({o}, lastNPC, None, None)
  PROVE  IInv'
<1> USE DEF IInv, Chars
<1>1. TypeOK'
  BY WearsType DEF TypeOK, ResetLoads, New, Points, people, Commands
<1>2. OnePlace'
  BY DEF TypeOK, OnePlace, ResetLocals, ResetLoads, New, Points, people, Commands
<1>3. Standing' /\ ResetLocals'
  BY DEF TypeOK, OnePlace, Standing, ResetLocals, ResetLoads, New, Points, people, Commands
<1> QED BY <1>1, <1>2, <1>3

LEMMA ResetIInv ==
  ASSUME IInv, NEW o \in Objs,
         Delete(o) \/ ResetObj(o) \/ ResetGive(o) \/ ResetEquip(o) \/ ResetPut(o)
  PROVE  IInv'
<1> USE DEF IInv
<1>1. CASE Delete(o)
  <2>1. {o} \in SUBSET first_object
    BY <1>1 DEF Delete
  <2> QED
    BY <1>1, <2>1, ExtractIInv DEF Delete, TypeOK, OnePlace, people
<1>2. CASE ResetObj(o) \/ ResetGive(o)
  <2>1. ResetLoads(o) /\ Wears(World(Unworn({o}))) /\ World(Unworn({o})) \in Worlds
    BY <1>2, WorldType DEF ResetObj, ResetGive
  <2> QED BY <1>2, <2>1, LoadsIInv DEF ResetObj, ResetGive
<1>3. CASE ResetEquip(o)
  <2>1. World(Unworn({o})) \in Worlds /\ carrying'[lastNPC] \in SUBSET Objs
    BY <1>3, WorldType DEF ResetEquip, TypeOK, Chars
  <2>2. PICK w \in Worlds : Wears(w)
    <3>1. CASE \E x \in wear_obj(World(Unworn({o})), carrying'[lastNPC], o, FALSE) : Wears(x)
      BY <2>1, <3>1, WearType
    <3>2. CASE \E s \in Slots : Wears(equip_char(World(Unworn({o})), carrying'[lastNPC], o, s))
      BY <2>1, <3>2, EquipType
    <3> QED BY <1>3, <3>1, <3>2 DEF ResetEquip
  <2> QED BY <1>3, <2>2, LoadsIInv DEF ResetEquip
<1>4. CASE ResetPut(o)
  <2>1. wearLoc' \in [Objs -> Slots \cup {WEAR_NONE}] /\ bugs' \in BOOLEAN
    BY <1>4, WorldType, WearsType DEF ResetPut
  <2>2. TypeOK'
    <3>1. lastOBJ \in Objs
      BY <1>4 DEF ResetPut, TypeOK
    <3>2. /\ carriedBy' \in [Objs -> Chars \cup {None}]
          /\ inRoom' \in [Objs -> Rooms \cup {None}]
          /\ inObj' \in [Objs -> Objs \cup {None}]
      BY <1>4, <3>1 DEF ResetPut, TypeOK, Points
    <3>3. contains' \in [Objs -> SUBSET Objs]
      BY <1>4, <3>1 DEF ResetPut, TypeOK
    <3>4. first_object' \subseteq Objs
      BY <1>4 DEF ResetPut, TypeOK, New
    <3>5. UNCHANGED <<first_character, at, carrying, objects, resetting, lastNPC, lastOBJ>>
      BY <1>4 DEF ResetPut, people, reset
    <3> QED BY <2>1, <3>2, <3>3, <3>4, <3>5 DEF TypeOK
  <2>3. OnePlace'
    BY <1>4 DEF ResetPut, TypeOK, OnePlace, ResetLocals, New, Points, people
  <2>4. Standing' /\ ResetLocals'
    BY <1>4 DEF ResetPut, TypeOK, OnePlace, Standing, ResetLocals, Commands, New, Points,
                people, reset
  <2> QED BY <2>2, <2>3, <2>4
<1> QED BY <1>1, <1>2, <1>3, <1>4

LEMMA NextIInv == IInv /\ [Next]_vars => IInv'
<1> SUFFICES ASSUME IInv, [Next]_vars PROVE IInv'
  OBVIOUS
<1>1. ASSUME NEW c \in Players, Enter(c) \/ move_char(c) \/ do_wear_all(c) PROVE IInv'
  BY <1>1, CharacterIInv DEF Chars
<1>2. ASSUME NEW c \in Chars, Depart(c) PROVE IInv'
  BY <1>2, CharacterIInv
<1>3. ASSUME NEW r \in Rooms, reset_room(r) PROVE IInv'
  BY <1>3 DEF reset_room, IInv, TypeOK, OnePlace, Standing, ResetLocals, Commands,
              people, lists, backs, worn
<1>4. ASSUME NEW c \in Npcs, ResetNpc(c) PROVE IInv'
  BY <1>4 DEF ResetNpc, IInv, TypeOK, OnePlace, Standing, ResetLocals, Commands,
              Chars, lists, backs, worn
<1>5. CASE ResetDone
  BY <1>5 DEF ResetDone, IInv, TypeOK, OnePlace, Standing, ResetLocals, Commands,
              people, lists, backs, worn
<1>6. CASE UNCHANGED vars
  BY <1>6 DEF vars, people, lists, backs, worn, reset, IInv, TypeOK, OnePlace,
              Standing, ResetLocals, Commands
<1> QED
  BY <1>1, <1>2, <1>3, <1>4, <1>5, <1>6, CommandIInv, ResetIInv DEF Next

LEMMA Invariance == Spec => []IInv
  BY InitIInv, NextIInv, PTL DEF Spec

\* The variables keep their types, for any characters, rooms, objects and slots.
THEOREM TypeCorrect == Spec => []TypeOK
  BY Invariance, PTL DEF IInv

\* Whatever is picked up, dropped, worn, loaded and extracted in whatever
\* order, every object is on the one list its pointers name, and nobody who
\* holds one has been freed (util.c, extract_obj, extract_char).
THEOREM InOnePlace == Spec => []OnePlace
  BY Invariance, PTL DEF IInv

-----------------------------------------------------------------------------
(* What wearing does to the slots of one character.                        *)

\* From w to x, with held carried: nothing else changes, no slot that was
\* taken is free, and no slot has two objects that did not have them.
Keeps(w, x, held) ==
  /\ \A p \in Objs \ held : x.wearLoc[p] = w.wearLoc[p]
  /\ \A s \in Slots :
       /\ WornAt(w, held, s) # {} => WornAt(x, held, s) # {}
       /\ \A p, q \in WornAt(x, held, s) :
            p # q => \E u, v \in WornAt(w, held, s) : u # v

LEMMA EquipKeeps ==
  ASSUME NEW w \in Worlds, NEW held \in SUBSET Objs, NEW o \in held,
         w.wearLoc[o] = WEAR_NONE, NEW s \in Slots
  PROVE  Keeps(w, equip_char(w, held, o, s), held)
<1>1. CASE WornAt(w, held, s) # {}
  BY <1>1 DEF equip_char, Keeps, WornAt, Worlds
<1>2. CASE WornAt(w, held, s) = {}
  <2> DEFINE x == equip_char(w, held, o, s)
  <2>1. x = [w EXCEPT !.wearLoc[o] = s]
    BY <1>2 DEF equip_char
  <2>2. /\ x.wearLoc[o] = s
        /\ \A p \in Objs \ {o} : x.wearLoc[p] = w.wearLoc[p]
    BY <2>1 DEF Worlds
  <2> HIDE DEF x
  <2>3. \A t \in Slots : WornAt(x, held, t) = IF t = s THEN {o} ELSE WornAt(w, held, t)
    BY <1>2, <2>2 DEF WornAt
  <2>4. Keeps(w, x, held)
    BY <1>2, <2>2, <2>3 DEF Keeps, WornAt
  <2> QED BY <2>4 DEF x
<1> QED BY <1>1, <1>2

\* Emptying a slot and putting something there, if it is empty then.
LEMMA ReplaceKeeps ==
  ASSUME NEW w \in Worlds, NEW held \in SUBSET Objs, NEW o \in held,
         w.wearLoc[o] = WEAR_NONE, NEW s \in Slots, NEW x \in Removed(w, held, s)
  PROVE  /\ WornAt(x, held, s) # {} => Keeps(w, x, held)
         /\ WornAt(x, held, s) = {} => Keeps(w, equip_char(x, held, o, s), held)
<1>1. PICK r \in WornAt(w, held, s) : x = [w EXCEPT !.wearLoc[r] = WEAR_NONE]
  BY DEF Removed
<1>2. /\ r \in held /\ r # o /\ w.wearLoc[r] = s
      /\ x \in Worlds /\ x.wearLoc[r] = WEAR_NONE
      /\ \A p \in Objs \ {r} : x.wearLoc[p] = w.wearLoc[p]
  BY <1>1 DEF WornAt, Worlds
<1>3. \A t \in Slots : WornAt(x, held, t) = WornAt(w, held, t) \ {r}
  BY <1>2 DEF WornAt
<1>4. \A t \in Slots : t # s => WornAt(x, held, t) = WornAt(w, held, t)
  BY <1>2, <1>3 DEF WornAt
<1>5. WornAt(x, held, s) # {} => Keeps(w, x, held)
  BY <1>2, <1>3, <1>4 DEF Keeps
<1>6. ASSUME WornAt(x, held, s) = {} PROVE Keeps(w, equip_char(x, held, o, s), held)
  <2> DEFINE y == equip_char(x, held, o, s)
  <2>1. y = [x EXCEPT !.wearLoc[o] = s]
    BY <1>6 DEF equip_char
  <2>2. /\ y.wearLoc[o] = s
        /\ \A p \in Objs \ {o} : y.wearLoc[p] = x.wearLoc[p]
    BY <1>2, <2>1 DEF Worlds
  <2> HIDE DEF y
  <2>3. x.wearLoc[o] = WEAR_NONE
    BY <1>2
  <2>4. \A t \in Slots : WornAt(y, held, t) = IF t = s THEN {o} ELSE WornAt(w, held, t)
    BY <1>4, <1>6, <2>2, <2>3 DEF WornAt
  <2>5. Keeps(w, y, held)
    BY <1>2, <2>2, <2>4 DEF Keeps
  <2> QED BY <2>5 DEF y
<1> QED BY <1>5, <1>6

LEMMA WearKeeps ==
  ASSUME NEW w \in Worlds, NEW held \in SUBSET Objs, NEW o \in held,
         w.wearLoc[o] = WEAR_NONE, NEW fReplace \in BOOLEAN,
         NEW x \in wear_obj(w, held, o, fReplace)
  PROVE  Keeps(w, x, held)
<1> DEFINE slots == SlotsOf[o]
           Taken(y, i) == WornAt(y, held, slots[i]) # {}
           full == \A i \in DOMAIN slots : Taken(w, i)
           Put(y) == IF Len(slots) = 1 THEN equip_char(y, held, o, slots[1])
                     ELSE IF ~Taken(y, 1) THEN equip_char(y, held, o, slots[1])
                     ELSE IF ~Taken(y, 2) THEN equip_char(y, held, o, slots[2])
                     ELSE y
<1>1. Keeps(w, w, held)
  BY DEF Keeps
<1>2. ASSUME slots # <<>> PROVE /\ slots[1] \in Slots
                                /\ Len(slots) = 1 \/ (slots[2] \in Slots /\ 2 \in DOMAIN slots)
                                /\ 1 \in DOMAIN slots
  BY <1>2, SlotsType
<1>3. CASE slots = <<>>
  BY <1>1, <1>3 DEF wear_obj
<1>4. CASE slots # <<>> /\ ~full
  <2>1. x = Put(w)
    BY <1>4 DEF wear_obj
  <2> QED BY <1>1, <1>2, <1>4, <2>1, EquipKeeps
<1>5. CASE slots # <<>> /\ full /\ fReplace
  <2>1. PICK y \in Removed(w, held, slots[1]) : x = Put(y)
    <3>1. wear_obj(w, held, o, fReplace) = {Put(y) : y \in Removed(w, held, slots[1])}
      BY <1>5 DEF wear_obj
    <3> HIDE DEF Put
    <3> QED BY <3>1
  <2>2. PICK r \in held : /\ y = [w EXCEPT !.wearLoc[r] = WEAR_NONE]
                          /\ w.wearLoc[r] = slots[1]
    BY <2>1 DEF Removed, WornAt
  <2>3. CASE WornAt(y, held, slots[1]) = {}
    <3>1. x = equip_char(y, held, o, slots[1])
      BY <2>1, <2>3
    <3> QED BY <1>2, <1>5, <2>1, <2>3, <3>1, ReplaceKeeps
  <2>4. CASE WornAt(y, held, slots[1]) # {}
    <3>1. Keeps(w, y, held)
      BY <1>2, <1>5, <2>1, <2>4, ReplaceKeeps
    <3>2. CASE Len(slots) = 1
      <4>1. x.wearLoc = y.wearLoc
        BY <2>1, <2>2, <2>4, <3>2 DEF equip_char, Worlds
      <4> QED BY <3>1, <4>1 DEF Keeps, WornAt
    <3>3. CASE Len(slots) # 1
      <4>1. CASE x = y
        BY <3>1, <4>1
      <4>2. CASE WornAt(y, held, slots[2]) = {}
        <5>1. slots[2] \in Slots /\ slots[2] # slots[1]
          BY <1>2, <1>5, <2>4, <3>3, <4>2
        <5>2. WornAt(w, held, slots[2]) = {}
          BY <2>2, <4>2, <5>1 DEF WornAt, Worlds
        <5> QED BY <1>2, <1>5, <3>3, <5>2
      <4> QED BY <2>1, <2>4, <3>3, <4>1, <4>2
    <3> QED BY <3>2, <3>3
  <2> QED BY <2>3, <2>4
<1>6. CASE slots # <<>> /\ full /\ ~fReplace
  BY <1>1, <1>6 DEF wear_obj
<1> QED BY <1>3, <1>4, <1>5, <1>6

-----------------------------------------------------------------------------
(* What each step does to the slots of every character.                    *)

SlotsKept ==
  \A c \in Chars, s \in Slots :
    Worn(c, s) # {} /\ Worn(c, s)' = {} => Worn(c, s) \cap carrying'[c] = {}

DoubledByGet ==
  \A c \in Chars, s \in Slots :
    Doubled(c, s)' /\ ~Doubled(c, s) =>
      \E o \in carrying'[c] \ carrying[c] :
         inRoom[o] = at[c] /\ inRoom[o] # None /\ wearLoc[o] = s

\* Everybody keeps what they wear or loses it, and gets only what is not worn.
LEMMA UnwornGrowth ==
  ASSUME \A c \in Chars : \A o \in carrying'[c] :
           \/ o \in carrying[c] /\ wearLoc'[o] = wearLoc[o]
           \/ o \notin carrying[c] /\ wearLoc'[o] \notin Slots
  PROVE  SlotsKept /\ DoubledByGet
<1>1. SlotsKept
  BY DEF SlotsKept, Worn
<1>2. DoubledByGet
  BY DEF DoubledByGet, Doubled, Worn
<1> QED BY <1>1, <1>2

\* One character's wearing keeps the slots of all.
LEMMA KeepsAll ==
  ASSUME TypeOK, OnePlace, NEW c \in Chars, NEW w \in Worlds, NEW x \in Worlds,
         Wears(x), Keeps(w, x, carrying'[c]),
         \A d \in Chars :
           /\ carrying[d] \subseteq carrying'[d]
           /\ d # c => carrying'[d] = carrying[d] /\ carrying[d] \cap carrying'[c] = {}
           /\ \A o \in carrying[d] : w.wearLoc[o] = wearLoc[o]
           /\ \A o \in carrying'[d] \ carrying[d] : w.wearLoc[o] = WEAR_NONE
  PROVE  SlotsKept /\ DoubledByGet
<1>1. \A s \in Slots : Worn(c, s) = WornAt(w, carrying'[c], s)
  <2>1. \A o \in carrying[c] : o \in carrying'[c] /\ w.wearLoc[o] = wearLoc[o]
    OBVIOUS
  <2>2. \A o \in carrying'[c] : o \in carrying[c] \/ w.wearLoc[o] \notin Slots
    OBVIOUS
  <2> QED BY <2>1, <2>2 DEF Worn, WornAt
<1>2. \A s \in Slots : Worn(c, s)' = WornAt(x, carrying'[c], s)
  BY DEF Worn, WornAt, Wears
<1>3. \A d \in Chars \ {c}, s \in Slots : Worn(d, s)' = Worn(d, s)
  <2> SUFFICES ASSUME NEW d \in Chars \ {c}, NEW s \in Slots
               PROVE  Worn(d, s)' = Worn(d, s)
    OBVIOUS
  <2>1. carrying'[d] = carrying[d] /\ carrying[d] \subseteq Objs \ carrying'[c]
    BY DEF TypeOK
  <2>2. \A o \in carrying[d] : wearLoc'[o] = wearLoc[o]
    BY <2>1 DEF Wears, Keeps
  <2> QED BY <2>1, <2>2 DEF Worn
<1>4. SlotsKept
  BY <1>1, <1>2, <1>3 DEF SlotsKept, Keeps
<1>5. DoubledByGet
  BY <1>1, <1>2, <1>3 DEF DoubledByGet, Doubled, Keeps
<1> QED BY <1>4, <1>5

LEMMA SlotsStep == IInv /\ [Next]_vars => SlotsKept /\ DoubledByGet
<1> SUFFICES ASSUME IInv, [Next]_vars PROVE SlotsKept /\ DoubledByGet
  OBVIOUS
<1> USE DEF IInv
<1>1. ASSUME NEW c \in Players, Enter(c) PROVE SlotsKept /\ DoubledByGet
  <2>1. PICK S \in SUBSET (Objs \ first_object) :
          /\ carrying' = [carrying EXCEPT ![c] = S]
          /\ wearLoc' = Unworn(S)
    BY <1>1 DEF Enter, Wears, World
  <2>2. \A d \in Chars : carrying[d] \subseteq first_object
    BY DEF TypeOK, OnePlace
  <2> QED BY <2>1, <2>2, UnwornGrowth DEF TypeOK, Unworn, Chars
<1>2. ASSUME NEW S \in SUBSET Objs, extract_obj(S) PROVE SlotsKept /\ DoubledByGet
  BY <1>2, UnwornGrowth DEF extract_obj, TypeOK, Unworn
<1>3. ASSUME UNCHANGED <<carrying, wearLoc>> PROVE SlotsKept /\ DoubledByGet
  BY <1>3, UnwornGrowth
<1>4. ASSUME NEW c \in Players, NEW o \in Objs, do_get(c, o) PROVE SlotsKept /\ DoubledByGet
  <2>1. /\ inRoom[o] = at[c] /\ inRoom[o] # None
        /\ carrying' = [carrying EXCEPT ![c] = @ \cup {o}]
        /\ wearLoc' = wearLoc
    BY <1>4 DEF do_get, TypeOK, OnePlace, Standing, worn, Chars
  <2>2. SlotsKept
    BY <2>1 DEF SlotsKept, Worn, TypeOK
  <2>3. DoubledByGet
    BY <2>1 DEF DoubledByGet, Doubled, Worn, TypeOK
  <2> QED BY <2>2, <2>3
<1>5. ASSUME NEW c \in Players, NEW o \in Objs, do_drop(c, o) PROVE SlotsKept /\ DoubledByGet
  BY <1>5, UnwornGrowth DEF do_drop, obj_from_char, TypeOK, worn
<1>6. ASSUME NEW c \in Players, NEW w \in Worlds, Keeps(World(wearLoc), w, carrying[c]),
             Wears(w), UNCHANGED carrying
      PROVE  SlotsKept /\ DoubledByGet
  <2>1. \A d \in Chars : d # c => carrying[d] \cap carrying[c] = {}
    BY DEF TypeOK, OnePlace, Chars
  <2> QED BY <1>6, <2>1, KeepsAll, WorldType DEF World, Chars
<1>7. ASSUME NEW c \in Players, NEW o \in Objs, do_wear(c, o) PROVE SlotsKept /\ DoubledByGet
  <2>1. PICK w \in wear_obj(World(wearLoc), carrying[c], o, TRUE) : Wears(w)
    BY <1>7 DEF do_wear
  <2>2. carrying[c] \in SUBSET Objs /\ o \in carrying[c] /\ World(wearLoc).wearLoc[o] = WEAR_NONE
    BY <1>7 DEF do_wear, TypeOK, World, Chars
  <2>3. w \in Worlds
    BY <2>1, <2>2, WearType, WorldType
  <2>4. Keeps(World(wearLoc), w, carrying[c])
    BY <2>1, <2>2, WearKeeps, WorldType
  <2> QED BY <1>7, <2>1, <2>3, <2>4, <1>6 DEF do_wear, lists
<1>8. ASSUME NEW c \in Players, do_wear_all(c) PROVE SlotsKept /\ DoubledByGet
  <2>1. PICK loc \in [Objs -> Slots \cup {WEAR_NONE}] :
          /\ \A o \in Objs : loc[o] # wearLoc[o] =>
               /\ o \in carrying[c] /\ wearLoc[o] = WEAR_NONE
               /\ WornAt(World(loc), carrying[c], loc[o]) = {o}
          /\ Wears(World(loc))
    BY <1>8 DEF do_wear_all
  <2>2. Keeps(World(wearLoc), World(loc), carrying[c])
    BY <2>1 DEF Keeps, WornAt, World, TypeOK, Chars
  <2> QED BY <1>8, <2>1, <2>2, <1>6, WorldType DEF do_wear_all, lists
<1>9. ASSUME NEW o \in Objs, ResetObj(o) \/ ResetGive(o) \/ ResetPut(o)
      PROVE  SlotsKept /\ DoubledByGet
  <2>1. /\ \A d \in Chars : o \notin carrying[d] /\ carrying'[d] \subseteq carrying[d] \cup {o}
        /\ wearLoc' = Unworn({o})
    BY <1>9 DEF ResetObj, ResetGive, ResetPut, ResetLoads, New, Wears, World, TypeOK, OnePlace, Chars
  <2> QED BY <2>1, UnwornGrowth DEF Unworn, TypeOK
<1>10. ASSUME NEW o \in Objs, ResetEquip(o) PROVE SlotsKept /\ DoubledByGet
  <2> DEFINE w == World(Unworn({o}))
             held == carrying'[lastNPC]
  <2>1. /\ lastNPC \in Chars /\ o \in held /\ held \in SUBSET Objs
        /\ w \in Worlds /\ w.wearLoc[o] = WEAR_NONE
        /\ o \notin first_object
        /\ carrying' = [carrying EXCEPT ![lastNPC] = @ \cup {o}]
    BY <1>10, WorldType DEF ResetEquip, ResetLoads, New, TypeOK, Chars, World, Unworn
  <2>2. PICK x \in Worlds : Wears(x) /\ Keeps(w, x, held)
    <3> HIDE DEF w, held
    <3>1. CASE \E x \in wear_obj(w, held, o, FALSE) : Wears(x)
      BY <2>1, <3>1, WearType, WearKeeps
    <3>2. CASE \E s \in Slots : Wears(equip_char(w, held, o, s))
      BY <2>1, <3>2, EquipType, EquipKeeps
    <3> QED BY <1>10, <3>1, <3>2 DEF ResetEquip, w, held
  <2>3. \A d \in Chars : o \notin carrying[d]
    BY <2>1 DEF TypeOK, OnePlace
  <2>4. \A d \in Chars : d # lastNPC =>
          carrying'[d] = carrying[d] /\ carrying[d] \cap carrying'[lastNPC] = {}
    BY <2>1, <2>3 DEF TypeOK, OnePlace
  <2>5. \A d \in Chars :
          /\ carrying[d] \subseteq carrying'[d]
          /\ \A p \in carrying[d] : w.wearLoc[p] = wearLoc[p]
          /\ \A p \in carrying'[d] \ carrying[d] : w.wearLoc[p] = WEAR_NONE
    BY <2>1, <2>3, <2>4 DEF World, Unworn, TypeOK
  <2>6. w \in Worlds /\ lastNPC \in Chars /\ Keeps(w, x, carrying'[lastNPC])
    BY <2>1, <2>2
  <2>7. \A d \in Chars :
          /\ carrying[d] \subseteq carrying'[d]
          /\ d # lastNPC => carrying'[d] = carrying[d] /\ carrying[d] \cap carrying'[lastNPC] = {}
          /\ \A p \in carrying[d] : w.wearLoc[p] = wearLoc[p]
          /\ \A p \in carrying'[d] \ carrying[d] : w.wearLoc[p] = WEAR_NONE
    BY <2>4, <2>5
  <2> HIDE DEF w
  <2> QED BY <2>2, <2>6, <2>7, KeepsAll
<1>11. ASSUME NEW c \in Chars, Depart(c) PROVE SlotsKept /\ DoubledByGet
  BY <1>11, <1>2 DEF Depart, TypeOK
<1>12. ASSUME NEW o \in Objs, Delete(o) PROVE SlotsKept /\ DoubledByGet
  BY <1>12, <1>2 DEF Delete
<1>13. ASSUME \/ \E c \in Players : move_char(c)
              \/ \E r \in Rooms : reset_room(r)
              \/ \E c \in Npcs : ResetNpc(c)
              \/ ResetDone \/ UNCHANGED vars
       PROVE  SlotsKept /\ DoubledByGet
  BY <1>3, <1>13 DEF move_char, reset_room, ResetNpc, ResetDone, vars, lists, worn
<1> QED
  BY <1>1, <1>4, <1>5, <1>7, <1>8, <1>9, <1>10, <1>11, <1>12, <1>13 DEF Next

\* Wearing something never loses what was worn: a slot becomes free only when
\* the object leaves the character (wear_obj, drop, extract_obj).
THEOREM Freed == Spec => FreedByLeaving
  BY Invariance, SlotsStep, PTL DEF Spec, FreedByLeaving, SlotsKept

\* Only getting what was dropped while it was worn makes two objects share a
\* slot (drop and get of command.c, which leave wearLoc alone).
THEOREM DoubledBy == Spec => DoubledOnlyByGet
  BY Invariance, SlotsStep, PTL DEF Spec, DoubledOnlyByGet, DoubledByGet

-----------------------------------------------------------------------------
(* Objects implements Places.                                              *)

LEMMA PlaceIs ==
  ASSUME IInv, NEW o \in Objs
  PROVE  /\ PlaceOf[o] = "free" <=> o \notin first_object
         /\ \A c \in Chars : PlaceOf[o] = c <=> carriedBy[o] = c
         /\ \A r \in Rooms : PlaceOf[o] = r <=> inRoom[o] = r
         /\ \A h \in Objs : PlaceOf[o] = h <=> inObj[o] = h
  BY DEF IInv, TypeOK, OnePlace, PlaceOf

\* New objects come to one holder.
LEMMA CreateStep ==
  ASSUME IInv, NEW S \in SUBSET Objs, New(S),
         NEW c \in Chars \cup {None}, NEW r \in Rooms \cup {None}, NEW h \in Objs \cup {None},
         Points(S, c, r, h), h # None => h \in first_object
  PROVE  Abstract!Create \/ UNCHANGED PlaceOf
<1>1. CASE S = {}
  BY <1>1 DEF New, Points, PlaceOf, IInv, TypeOK
<1>2. CASE S # {}
  <2> DEFINE p == IF c # None THEN c ELSE IF r # None THEN r
                  ELSE IF h # None THEN h ELSE "nowhere"
  <2>1. \A o \in S : PlaceOf[o] = "free"
    BY PlaceIs DEF New
  <2>2. p \in Objs => PlaceOf[p] # "free"
    <3> SUFFICES ASSUME p \in Objs PROVE p \in first_object
      BY PlaceIs
    <3> QED OBVIOUS
  <2>3. PlaceOf' = [o \in Objs |-> IF o \in S THEN p ELSE PlaceOf[o]]
    BY DEF New, Points, PlaceOf, IInv, TypeOK
  <2>4. p \in Objs \cup Chars \cup Rooms \cup {"nowhere"}
    OBVIOUS
  <2> HIDE DEF p
  <2> QED BY <1>2, <2>1, <2>2, <2>3, <2>4 DEF Abstract!Create
<1> QED BY <1>1, <1>2

LEMMA DestroyStep ==
  ASSUME IInv, NEW S \in SUBSET first_object, extract_obj(S)
  PROVE  Abstract!Destroy \/ UNCHANGED PlaceOf
<1> DEFINE gone == S \cup UNION {contains[o] : o \in S}
<1>1. gone \subseteq Objs /\ gone \subseteq first_object
  BY DEF IInv, TypeOK, OnePlace
<1>2. /\ first_object' = first_object \ gone
      /\ Points(gone, None, None, None)
  BY DEF extract_obj
<1>3. PlaceOf' = [o \in Objs |-> IF o \in gone THEN "free" ELSE PlaceOf[o]]
  BY <1>1, <1>2 DEF Points, PlaceOf, IInv, TypeOK
<1>4. \A o \in Objs : PlaceOf[o] \in gone => o \in gone
  <2> SUFFICES ASSUME NEW o \in Objs, PlaceOf[o] \in gone PROVE o \in gone
    OBVIOUS
  <2>1. inObj[o] \in gone
    BY <1>1, PlaceIs
  <2>2. inObj[o] \in S
    BY <1>1, <2>1 DEF IInv, TypeOK, OnePlace
  <2> QED BY <1>1, <2>2 DEF IInv, TypeOK, OnePlace
<1>5. \A o \in gone : PlaceOf[o] # "free"
  BY <1>1, PlaceIs
<1>6. CASE gone = {}
  BY <1>3, <1>6 DEF PlaceOf
<1>7. CASE gone # {}
  <2> HIDE DEF gone
  <2> QED BY <1>1, <1>3, <1>4, <1>5, <1>7 DEF Abstract!Destroy
<1> QED BY <1>6, <1>7

LEMMA StepRefines ==
  ASSUME IInv, [Next]_vars
  PROVE  Abstract!Next \/ UNCHANGED PlaceOf
<1> USE DEF Abstract!Next
<1>1. ASSUME NEW c \in Players, Enter(c) PROVE Abstract!Next \/ UNCHANGED PlaceOf
  BY <1>1, CreateStep DEF Enter, Chars
<1>2. ASSUME NEW c \in Chars, Depart(c) PROVE Abstract!Next \/ UNCHANGED PlaceOf
  <2>1. carrying[c] \subseteq first_object
    BY DEF IInv, TypeOK, OnePlace
  <2> QED BY <1>2, <2>1, DestroyStep DEF Depart
<1>3. ASSUME NEW o \in Objs, Delete(o) PROVE Abstract!Next \/ UNCHANGED PlaceOf
  BY <1>3, DestroyStep DEF Delete
<1>4. ASSUME NEW c \in Players, NEW o \in Objs, do_get(c, o) PROVE Abstract!Next
  <2>1. at[c] \in Rooms /\ inRoom[o] = at[c] /\ c \in Chars
    BY <1>4 DEF do_get, IInv, TypeOK, OnePlace, Standing, Chars
  <2>2. PlaceOf[o] = at[c]
    BY <2>1, PlaceIs
  <2>3. PlaceOf' = [PlaceOf EXCEPT ![o] = c]
    <3>1. o \in first_object /\ c # None
      BY <2>1 DEF IInv, OnePlace
    <3>2. first_object' = first_object /\ Points({o}, c, None, None)
      BY <1>4 DEF do_get
    <3> QED BY <3>1, <3>2 DEF Points, PlaceOf
  <2> QED BY <2>1, <2>2, <2>3 DEF Abstract!Move
<1>5. ASSUME NEW c \in Players, NEW o \in Objs, do_drop(c, o) PROVE Abstract!Next
  <2>1. at[c] \in Rooms /\ carriedBy[o] = c /\ c \in Chars
    BY <1>5 DEF do_drop, IInv, TypeOK, OnePlace, Standing, Chars
  <2>2. PlaceOf[o] = c
    BY <2>1, PlaceIs
  <2>3. PlaceOf' = [PlaceOf EXCEPT ![o] = at[c]]
    <3>1. o \in first_object /\ at[c] # None
      BY <2>1 DEF IInv, OnePlace
    <3>2. first_object' = first_object /\ Points({o}, None, at[c], None)
      BY <1>5 DEF do_drop
    <3> QED BY <3>1, <3>2 DEF Points, PlaceOf
  <2> QED BY <2>1, <2>2, <2>3 DEF Abstract!Move
<1>6. ASSUME NEW o \in Objs, ResetObj(o) \/ ResetGive(o) \/ ResetEquip(o) \/ ResetPut(o)
      PROVE  Abstract!Next \/ UNCHANGED PlaceOf
  <2>1. /\ New({o})
        /\ \/ Points({o}, None, None, None) \/ Points({o}, None, resetting, None)
           \/ Points({o}, lastNPC, None, None)
           \/ Points({o}, None, None, lastOBJ)
        /\ lastOBJ # None => lastOBJ \in first_object
    BY <1>6 DEF ResetObj, ResetGive, ResetEquip, ResetPut, ResetLoads, IInv, ResetLocals
  <2> QED BY <2>1, CreateStep DEF IInv, TypeOK, Chars
<1>7. ASSUME UNCHANGED <<first_object, carriedBy, inRoom, inObj>> PROVE UNCHANGED PlaceOf
  BY <1>7 DEF PlaceOf
<1>8. ASSUME \/ \E c \in Players : move_char(c) \/ do_wear_all(c)
             \/ \E c \in Players, o \in Objs : do_wear(c, o)
             \/ \E r \in Rooms : reset_room(r)
             \/ \E c \in Npcs : ResetNpc(c)
             \/ ResetDone \/ UNCHANGED vars
      PROVE  UNCHANGED PlaceOf
  BY <1>7, <1>8 DEF move_char, do_wear_all, do_wear, reset_room, ResetNpc, ResetDone,
                    vars, backs
<1> QED
  BY <1>1, <1>2, <1>3, <1>4, <1>5, <1>6, <1>8 DEF Next

\* The lists and pointers of Objects keep one place for each object, which
\* changes only as Places says.
THEOREM Implementation == Spec => PlacesSpec
<1>1. Init => Abstract!Init
  BY DEF Init, Abstract!Init, PlaceOf
<1>2. IInv /\ [Next]_vars => [Abstract!Next]_PlaceOf
  BY StepRefines
<1> QED
  BY <1>1, <1>2, Invariance, PTL DEF Spec, PlacesSpec, Abstract!Spec
=============================================================================
