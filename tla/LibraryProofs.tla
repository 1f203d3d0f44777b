--------------------------- MODULE LibraryProofs ---------------------------
(***************************************************************************)
(* Theorems about the hash tables, the map, the importer, explored rooms   *)
(* and the text editor.                                                    *)
(*                                                                         *)
(* HashMap, for any keys not below zero and any elements: a search gives   *)
(* the element its key was last given (EachKeyHasItsElement).  A prime     *)
(* size makes the probes of a key visit every slot, so an insertion finds  *)
(* a free one; and every key in the table is reached through active slots  *)
(* of other keys, which an insertion and a rehash keep true.               *)
(*                                                                         *)
(* Automap, for any rooms, exits and depth: what is drawn stands where     *)
(* exits lead (RoomsStandRight).  Rooms that are drawn stay, so every      *)
(* place that an exit was followed from is there when the map is done.     *)
(*                                                                         *)
(* Importer, for any vnums, directions and bounds: whatever files are      *)
(* read and whatever fails, the exits that a commit saves join rows        *)
(* (ExitsJoinRows), the resets it writes name rows (ResetsNameRows), and   *)
(* what is given goes to its own npc or object (SubsGoWithTheirs).  Until  *)
(* a commit nothing of this is on disk: the argument is that what the      *)
(* indexes name, and therefore what a reset names, stands in an area that  *)
(* will be saved, unless a record was destroyed (freed) or the areas were  *)
(* (stale), and then a commit ends the program instead.                    *)
(*                                                                         *)
(* Explored, for any number of rooms, lists and flags: the rooms that come *)
(* back are those that were saved and were in room_hash then               *)
(* (TheExploredComeBack).  The lengths written so far read as the places   *)
(* in the walk of the rooms that are set, but for the run that goes on;    *)
(* below ID_HASH each list has one room and a place is an id.              *)
(*                                                                         *)
(* TextEditor, for any texts and lines: a step of the editor does to the   *)
(* menu what it says (TheLineIsEdited).  The argument is how a text falls  *)
(* into lines, given by where each begins and ends: get_line, count_lines  *)
(* and string_linedel are each shown to agree with it.                     *)
(***************************************************************************)
EXTENDS Importer, HashMap, Automap, Explored, TextEditor, ListsProofs, SequenceTheorems

-----------------------------------------------------------------------------
(* Hash tables: arithmetic.                                                *)

LEMMA DivMod ==
  ASSUME NEW a \in Nat, NEW n \in Nat \ {0}
  PROVE  (a \div n) \in Nat /\ a % n \in 0 .. n - 1 /\ a = n * (a \div n) + (a % n)
<1>1. a = n * (a \div n) + (a % n) /\ a % n \in 0 .. n - 1 /\ (a \div n) \in Int
  OBVIOUS
<1>2. (a \div n) >= 0
  OBVIOUS
<1> QED  BY <1>1, <1>2

LEMMA ModOf ==
  ASSUME NEW a \in Nat, NEW n \in Nat \ {0}, NEW q \in Int, NEW r \in 0 .. n - 1, a = n * q + r
  PROVE  a % n = r
OBVIOUS

\* A prime divides no product of two smaller numbers.
LEMMA NoZeroDivisors ==
  ASSUME NEW n \in Nat, n >= 2, IsPrime(n), NEW s \in 1 .. n - 1, NEW b \in 1 .. n - 1
  PROVE  (b * s) % n # 0
<1> DEFINE T == {a \in 1 .. n - 1 : (a * s) % n = 0}
<1> SUFFICES ASSUME T # {} PROVE FALSE
  OBVIOUS
<1>1. PICK a \in T : \A k \in T : a <= k
  <2>1. T \in SUBSET Nat  OBVIOUS
  <2> HIDE DEF T
  <2> QED  BY <2>1, LeastNat
<1>2. a \in 1 .. n - 1 /\ (a * s) % n = 0  BY <1>1
<1> HIDE DEF T
<1>3. CASE a = 1
  <2>1. s % n = s  BY ModOf
  <2> QED  BY <1>2, <1>3, <2>1
<1>4. CASE a # 1
  <2> DEFINE q == n \div a  r == n % a  c == (a * s) \div n
  <2>1. q \in Nat /\ r \in 0 .. a - 1 /\ n = a * q + r  BY <1>2, DivMod
  <2>2. r # 0  BY <1>2, <1>4 DEF IsPrime
  <2>3. a * s \in Nat  BY <1>2
  <2>4. c \in Nat /\ a * s = n * c
    <3> DEFINE x == a * s
    <3>1. x \in Nat /\ x % n = 0  BY <1>2, <2>3
    <3> HIDE DEF x
    <3> DEFINE y == x \div n  z == x % n
    <3>2. n \in Nat \ {0}  OBVIOUS
    <3>3. y \in Nat /\ x = n * y + z  BY <3>1, <3>2, DivMod, Zenon
    <3>4. z = 0  BY <3>1
    <3> HIDE DEF y, z
    <3>5. y \in Nat /\ x = n * y  BY <3>3, <3>4
    <3> QED  BY <3>5 DEF x, y
  <2> HIDE DEF q, r, c
  <2>5. r * s = n * (s - q * c)
    <3>1. r * s = (n - a * q) * s  BY <2>1, <1>2
    <3>2. (n - a * q) * s = n * s - q * (a * s)
      <4>1. a \in Int /\ q \in Int /\ s \in Int /\ n \in Int  BY <2>1, <1>2
      <4>2. \A u, v, w \in Int : (u - v) * w = u * w - v * w  OBVIOUS
      <4>3. \A u, v, w \in Int : (u * v) * w = v * (u * w)  OBVIOUS
      <4>4. a * q \in Int  BY <4>1
      <4> QED  BY <4>1, <4>2, <4>3, <4>4
    <3>3. n * s - q * (a * s) = n * s - q * (n * c)  BY <2>4
    <3>4. n * s - q * (n * c) = n * (s - q * c)  BY <2>1, <2>4
    <3> QED  BY <3>1, <3>2, <3>3, <3>4
  <2>6. r * s \in Nat /\ s - q * c \in Int  BY <2>1, <2>4
  <2>7. (r * s) % n = 0
    <3> HIDE DEF T
    <3> DEFINE x == r * s  y == s - q * c
    <3>1. x \in Nat /\ y \in Int /\ x = n * y + 0  BY <2>5, <2>6
    <3> HIDE DEF x, y
    <3>2. x % n = 0  BY <3>1, ModOf
    <3> QED  BY <3>2 DEF x
  <2>8. r \in T  BY <2>1, <2>2, <2>7, <1>2 DEF T
  <2> QED  BY <2>8, <1>1, <2>1
<1> QED  BY <1>3, <1>4

-----------------------------------------------------------------------------
(* Hash tables: probes.                                                    *)

\* The sizes of tables that hold something: odd primes, and 1.
Sound(n) == n \in Nat /\ n % 2 = 1 /\ IsPrime(n)

Step(k, n) == Rem(k, n - 2) + 1

\* No two numbers below the size take a search to the same slot.
LEMMA StepFacts ==
  ASSUME NEW k \in Nat, NEW n, Sound(n)
  PROVE  /\ Rem(k, n) = k % n /\ k % n \in 0 .. n - 1 /\ n \in Nat \ {0}
         /\ Step(k, n) \in Nat \ {0}
         /\ \A b \in 1 .. n - 1 : (b * Step(k, n)) % n # 0
<1>1. n \in Nat /\ n % 2 = 1 /\ IsPrime(n)  BY DEF Sound
<1>2. n >= 1  BY <1>1
<1>3. Rem(k, n) = k % n  BY <1>1, <1>2 DEF Rem
<1>4. k % n \in 0 .. n - 1  BY <1>1, <1>2, DivMod
<1>5. CASE n = 1
  <2>1. Rem(k, n - 2) = k % 1  BY <1>5 DEF Rem
  <2>2. k % 1 = 0  BY ModOf
  <2> QED  BY <1>3, <1>4, <1>5, <2>1, <2>2 DEF Step
<1>6. CASE n # 1
  <2>1. n >= 3  BY <1>1, <1>2, <1>6
  <2> DEFINE m == n - 2
  <2>2. m \in Nat \ {0} /\ m < n - 1  BY <2>1, <1>1
  <2>3. Rem(k, m) = k % m  BY <2>2 DEF Rem
  <2>4. k % m \in 0 .. m - 1
    <3> HIDE DEF m
    <3> QED  BY <2>2, DivMod
  <2>5. Step(k, n) \in 1 .. n - 1
    <3>1. Step(k, n) = (k % m) + 1  BY <2>3 DEF Step
    <3> HIDE DEF m
    <3> QED  BY <3>1, <2>2, <2>4, <1>1
  <2>6. \A b \in 1 .. n - 1 : (b * Step(k, n)) % n # 0  BY <2>1, <2>5, <1>1, NoZeroDivisors
  <2> QED  BY <1>1, <1>2, <1>3, <1>4, <2>5, <2>6
<1> QED  BY <1>5, <1>6

\* A search visits every slot, each once.
LEMMA ProbeFacts ==
  ASSUME NEW k \in Nat, NEW n, Sound(n)
  PROVE  /\ n \in Nat \ {0}
         /\ Probe(k, n) \in [0 .. n - 1 -> 0 .. n - 1]
         /\ \A i, j \in 0 .. n - 1 : Probe(k, n)[i] = Probe(k, n)[j] => i = j
         /\ \A j \in 0 .. n - 1 : \E i \in 0 .. n - 1 : Probe(k, n)[i] = j
<1> DEFINE st == Step(k, n)  h == k % n  p == Probe(k, n)
<1>1. /\ Rem(k, n) = h /\ h \in 0 .. n - 1 /\ n \in Nat \ {0} /\ st \in Nat \ {0}
      /\ \A b \in 1 .. n - 1 : (b * st) % n # 0
  BY StepFacts
<1>2. p = [i \in 0 .. n - 1 |-> Rem(h + i * st, n)]  BY <1>1 DEF Probe, Step
<1> HIDE DEF st, h, p
<1>3. \A i \in 0 .. n - 1 : h + i * st \in Nat  BY <1>1
<1>4. \A i \in 0 .. n - 1 :
        /\ p[i] \in 0 .. n - 1
        /\ \E q \in Nat : h + i * st = n * q + p[i]
  <2> TAKE i \in 0 .. n - 1
  <2> DEFINE x == h + i * st  q == x \div n  r == x % n
  <2>1. x \in Nat  BY <1>3
  <2>2. p[i] = Rem(x, n)  BY <1>2
  <2> HIDE DEF x
  <2>3. Rem(x, n) = r  BY <2>1, <1>1 DEF Rem
  <2>4. q \in Nat /\ r \in 0 .. n - 1 /\ x = n * q + r  BY <2>1, <1>1, DivMod, Zenon
  <2> HIDE DEF q, r
  <2> QED  BY <2>2, <2>3, <2>4 DEF x
<1>5. \A i, j \in 0 .. n - 1 : i < j => p[i] # p[j]
  <2> SUFFICES ASSUME NEW i \in 0 .. n - 1, NEW j \in 0 .. n - 1, i < j, p[i] = p[j]
               PROVE  FALSE
    OBVIOUS
  <2>1. PICK q \in Nat : h + i * st = n * q + p[i]  BY <1>4
  <2>2. PICK o \in Nat : h + j * st = n * o + p[j]  BY <1>4
  <2> DEFINE x == (j - i) * st  y == o - q
  <2>3. x = n * y + 0
    <3>1. x = (h + j * st) - (h + i * st)  BY <1>1
    <3>2. p[i] \in Nat /\ p[j] = p[i]  BY <1>4
    <3>3. x = (n * o + p[i]) - (n * q + p[i])  BY <2>1, <2>2, <3>1, <3>2
    <3>4. \A u, v, w \in Int : (u + w) - (v + w) = u - v  OBVIOUS
    <3>5. x = n * o - n * q  BY <3>2, <3>3, <3>4, <1>1
    <3> QED  BY <3>5, <1>1
  <2>4. x \in Nat /\ y \in Int
    <3>1. j - i \in Nat  OBVIOUS
    <3> QED  BY <3>1, <1>1
  <2>5. x % n # 0
    <3>1. j - i \in 1 .. n - 1  BY <1>1
    <3> QED  BY <3>1, <1>1
  <2> HIDE DEF x, y
  <2> QED  BY <2>3, <2>4, <2>5, <1>1, ModOf
<1>6. p \in [0 .. n - 1 -> 0 .. n - 1]  BY <1>2, <1>4
<1>7. \A i, j \in 0 .. n - 1 : p[i] = p[j] => i = j  BY <1>5, <1>1
<1>8. \A j \in 0 .. n - 1 : \E i \in 0 .. n - 1 : p[i] = j
  <2> DEFINE S == 0 .. n - 1
  <2>1. IsFiniteSet(S)  BY <1>1, FS_Interval
  <2> HIDE DEF S
  <2>2. p \in Injection(S, S)  BY <1>6, <1>7 DEF Injection, IsInjective, S
  <2>3. p \in Surjection(S, S)  BY <2>1, <2>2, FS_Injection
  <2>4. \A j \in S : \E i \in S : p[i] = j  BY <2>3 DEF Surjection
  <2> QED  BY <2>4 DEF S
<1> QED  BY <1>1, <1>6, <1>7, <1>8 DEF p

-----------------------------------------------------------------------------
(* Hash tables: what they hold.                                            *)

Slots == [data : Values \cup {Null}, key : Keys \cup {0}, active : BOOLEAN]

\* The slot with key k that a search reaches through active slots of other keys.
Reaches(h, n, k, a) ==
  /\ h.slot[Probe(k, n)[a]].active /\ h.slot[Probe(k, n)[a]].key = k
  /\ \A b \in 0 .. a - 1 :
       h.slot[Probe(k, n)[b]].active /\ h.slot[Probe(k, n)[b]].key # k

Found(h, n, k) == \E a \in 0 .. n - 1 : Reaches(h, n, k, a)

ActiveIn(h, n) == {i \in 0 .. n - 1 : h.slot[i].active}
GivenIn(g) == {k \in Keys : g[k] # Null}

TableType(h, n) ==
  h \in [slot : [0 .. n - 1 -> Slots], count : Nat, stray : {FALSE}]

\* An active slot has its key's element, and no other slot has the key.
SlotsRight(h, n, g) ==
  /\ \A i \in 0 .. n - 1 :
       /\ h.slot[i].active = (h.slot[i].data # Null)
       /\ h.slot[i].active => h.slot[i].key \in Keys /\ h.slot[i].data = g[h.slot[i].key]
  /\ \A i, j \in ActiveIn(h, n) : h.slot[i].key = h.slot[j].key => i = j

CountRight(h, n, g) ==
  h.count = Cardinality(ActiveIn(h, n)) /\ h.count = Cardinality(GivenIn(g))

\* h, of size n, holds what g gives the keys.
Holds(h, n, g) ==
  /\ n = 0 \/ Sound(n)
  /\ TableType(h, n) /\ SlotsRight(h, n, g) /\ CountRight(h, n, g)
  /\ \A k \in GivenIn(g) : Found(h, n, k)

\* The inductive invariant.
HashInv ==
  given \in [Keys -> Values \cup {Null}] /\ Holds(hm, Size(hm), given)

LEMMA SizeFacts ==
  ASSUME NEW n \in Nat, NEW h, NEW X, h.slot \in [0 .. n - 1 -> X]
  PROVE  Size(h) = n /\ IsFiniteSet(0 .. n - 1) /\ Cardinality(0 .. n - 1) = n
<1> DEFINE m == n - 1
<1>1. 0 \in Int /\ m \in Int /\ m - 0 + 1 = n /\ (0 > m <=> n = 0)  OBVIOUS
<1> HIDE DEF m
<1>2. IsFiniteSet(0 .. m) /\ Cardinality(0 .. m) = IF 0 > m THEN 0 ELSE m - 0 + 1
  BY <1>1, FS_Interval
<1>3. IsFiniteSet(0 .. m) /\ Cardinality(0 .. m) = n  BY <1>1, <1>2
<1>4. IsFiniteSet(0 .. n - 1) /\ Cardinality(0 .. n - 1) = n  BY <1>3 DEF m
<1>5. DOMAIN h.slot = 0 .. n - 1  OBVIOUS
<1> QED  BY <1>4, <1>5 DEF Size

\* The probe that ends the search of k.
EndsAt(h, n, k, stops, a) ==
  /\ Probe(k, n)[a] \in stops /\ StopsAt(h, k, stops) = Probe(k, n)[a]
  /\ \A b \in 0 .. a - 1 : Probe(k, n)[b] \in (0 .. n - 1) \ stops

Ends(h, n, k, stops) == \E a \in 0 .. n - 1 : EndsAt(h, n, k, stops, a)

\* A search stops at the first slot of its probes that ends it.
LEMMA StopsFacts ==
  ASSUME NEW k \in Nat, NEW n, Sound(n), NEW h, NEW X, h.slot \in [0 .. n - 1 -> X],
         NEW stops \in SUBSET (0 .. n - 1), stops # {}
  PROVE  Ends(h, n, k, stops)
<1> DEFINE p == Probe(k, n)
           D == 0 .. n - 1
           ends == {i \in DOMAIN p : p[i] \notin DOMAIN h.slot \/ p[i] \in stops}
<1>1. /\ n \in Nat \ {0} /\ p \in [D -> D] /\ \A j \in D : \E i \in D : p[i] = j
  BY ProbeFacts
<1>2. Size(h) = n  BY <1>1, SizeFacts
<1>3. StopsAt(h, k, stops) =
        IF ends = {} THEN -1 ELSE p[CHOOSE i \in ends : \A j \in ends : i <= j]
  BY <1>2 DEF StopsAt
<1> HIDE DEF p
<1>4. ends = {i \in D : p[i] \in stops}  BY <1>1
<1>5. ends # {}  BY <1>1, <1>4
<1>6. ends \in SUBSET Nat  BY <1>4, <1>1
<1> HIDE DEF ends
<1>7. \E i \in ends : \A j \in ends : i <= j  BY <1>5, <1>6, LeastNat
<1> DEFINE a == CHOOSE i \in ends : \A j \in ends : i <= j
<1>8. a \in ends /\ \A j \in ends : a <= j  BY <1>7
<1>9. StopsAt(h, k, stops) = p[a]  BY <1>3, <1>5
<1> HIDE DEF a
<1>10. a \in 0 .. n - 1 /\ p[a] \in stops  BY <1>8, <1>4
<1>11. \A b \in 0 .. a - 1 : p[b] \in D \ stops
  <2> TAKE b \in 0 .. a - 1
  <2>1. a \in Nat /\ a <= n - 1 /\ n \in Nat  BY <1>10, <1>1
  <2>2. b \in D /\ ~(a <= b)  BY <2>1
  <2> QED  BY <2>2, <1>1, <1>4, <1>8
<1> QED  BY <1>9, <1>10, <1>11 DEF p, Ends, EndsAt

\* The a-th probe of k's insertion finds a slot for it: the key's own when it is in the
\* table, and a free one when not.
Takes(h, n, g, k, a) ==
  LET i == Probe(k, n)[a]
  IN /\ i \in 0 .. n - 1 /\ StopsAt(h, k, Free(h) \cup Named(h, k)) = i
     /\ h.slot[i].active <=> g[k] # Null
     /\ h.slot[i].active => h.slot[i].key = k
     /\ \A b \in 0 .. a - 1 :
          /\ Probe(k, n)[b] \in 0 .. n - 1
          /\ h.slot[Probe(k, n)[b]].active /\ h.slot[Probe(k, n)[b]].key # k

LEMMA TakesSlot ==
  ASSUME NEW h, NEW n, NEW g \in [Keys -> Values \cup {Null}], Sound(n), Holds(h, n, g),
         h.count < n, NEW k \in Keys
  PROVE  \E a \in 0 .. n - 1 : Takes(h, n, g, k, a)
<1> DEFINE p == Probe(k, n)
           D == 0 .. n - 1
           stops == Free(h) \cup Named(h, k)
<1>1. k \in Nat  BY KeysAssumption
<1>2. /\ n \in Nat \ {0} /\ p \in [D -> D] /\ \A i, j \in D : p[i] = p[j] => i = j
  BY <1>1, ProbeFacts
<1>3. TableType(h, n) /\ SlotsRight(h, n, g) /\ CountRight(h, n, g)
  BY DEF Holds
<1>4. h.slot \in [D -> Slots]  BY <1>3 DEF TableType
<1>5. stops = {i \in D : ~h.slot[i].active \/ h.slot[i].key = k}
  <2>1. DOMAIN h.slot = D  BY <1>4
  <2>2. Free(h) = {i \in D : ~h.slot[i].active} /\ Named(h, k) = {i \in D : h.slot[i].key = k}
    BY <2>1 DEF Free, Named
  <2> QED  BY <2>2
<1>6. stops # {}
  <2>1. SUFFICES ASSUME stops = {} PROVE FALSE
    OBVIOUS
  <2>2. ActiveIn(h, n) = D  BY <1>5, <2>1 DEF ActiveIn
  <2>3. h.count = Cardinality(D)  BY <1>3, <2>2 DEF CountRight
  <2>4. Cardinality(D) = n  BY <1>2, <1>4, SizeFacts
  <2> QED  BY <2>3, <2>4, <1>2
<1> HIDE DEF stops, p
<1>7. stops \in SUBSET D  BY <1>5
<1>8. PICK a \in D : /\ p[a] \in stops /\ StopsAt(h, k, stops) = p[a]
                    /\ \A b \in 0 .. a - 1 : p[b] \in D \ stops
  <2>1. stops \in SUBSET (0 .. n - 1) /\ h.slot \in [0 .. n - 1 -> Slots]  BY <1>4, <1>7
  <2>2. Ends(h, n, k, stops)  BY <2>1, <1>1, <1>6, StopsFacts
  <2> QED  BY <2>2 DEF p, Ends, EndsAt
<1> DEFINE i == p[a]
<1>9. i \in D /\ (~h.slot[i].active \/ h.slot[i].key = k)  BY <1>8, <1>5
<1>10. \A b \in 0 .. a - 1 : p[b] \in D /\ h.slot[p[b]].active /\ h.slot[p[b]].key # k
  BY <1>8, <1>5
<1>11. h.slot[i].active => h.slot[i].key = k  BY <1>9
<1>12. ASSUME h.slot[i].active PROVE g[k] # Null
  <2> HIDE DEF i
  <2>1. i \in 0 .. n - 1 /\ h.slot[i].active = (h.slot[i].data # Null)
        /\ h.slot[i].data = g[h.slot[i].key]
    BY <1>3, <1>9, <1>12 DEF SlotsRight
  <2> QED  BY <1>11, <1>12, <2>1
<1>13. ASSUME g[k] # Null PROVE h.slot[i].active
  <2>1. Found(h, n, k)  BY <1>13 DEF Holds, GivenIn
  <2>2. PICK c \in D : Reaches(h, n, k, c)  BY <2>1 DEF Found
  <2>3. /\ h.slot[p[c]].active /\ h.slot[p[c]].key = k
        /\ \A b \in 0 .. c - 1 : h.slot[p[b]].active /\ h.slot[p[b]].key # k
    BY <2>2 DEF Reaches, p
  <2>4. CASE a < c
    <3>1. a \in 0 .. c - 1  BY <2>4
    <3> QED  BY <3>1, <2>3
  <2>5. CASE c < a
    <3>1. c \in 0 .. a - 1  BY <2>5
    <3> QED  BY <3>1, <2>3, <1>10
  <2>6. CASE a = c
    BY <2>6, <2>3
  <2> QED  BY <2>4, <2>5, <2>6, <1>2
<1> QED
  <2>1. h.slot[i].active <=> g[k] # Null  BY <1>12, <1>13
  <2> QED  BY <1>8, <1>9, <1>10, <1>11, <2>1 DEF stops, p, Takes

LEMMA PlacedHolds ==
  ASSUME NEW h, NEW n, NEW g \in [Keys -> Values \cup {Null}], Sound(n), Holds(h, n, g),
         h.count < n, NEW k \in Keys, NEW v \in Values
  PROVE  Holds(Placed(h, k, v), n, [g EXCEPT ![k] = v])
<1> DEFINE p == Probe(k, n)
           D == 0 .. n - 1
           h2 == Placed(h, k, v)
           g2 == [g EXCEPT ![k] = v]
<1>1. PICK a \in D : Takes(h, n, g, k, a)  BY TakesSlot
<1> DEFINE i == p[a]
<1>2. /\ i \in D /\ StopsAt(h, k, Free(h) \cup Named(h, k)) = i
      /\ h.slot[i].active <=> g[k] # Null
      /\ h.slot[i].active => h.slot[i].key = k
      /\ \A b \in 0 .. a - 1 : p[b] \in D /\ h.slot[p[b]].active /\ h.slot[p[b]].key # k
  BY <1>1 DEF Takes
<1>3. TableType(h, n) /\ SlotsRight(h, n, g) /\ CountRight(h, n, g)
  BY DEF Holds
<1>4. h.slot \in [D -> Slots] /\ h.stray = FALSE /\ h.count \in Nat /\ n \in Nat
  BY <1>3 DEF TableType, Sound
<1>5. k \in Nat /\ Null \notin Values  BY KeysAssumption, HashMapAssumption
<1>6. \A b, c \in D : p[b] = p[c] => b = c  BY <1>5, ProbeFacts
<1>7. h2 = [h EXCEPT !.slot[i] = [data |-> v, key |-> k, active |-> TRUE],
                     !.count = IF h.slot[i].active THEN @ ELSE @ + 1]
  <2>1. i \in DOMAIN h.slot /\ ~h.stray  BY <1>2, <1>4
  <2> QED  BY <1>2, <2>1 DEF Placed
<1> HIDE DEF p, h2
<1> DEFINE new == [data |-> v, key |-> k, active |-> TRUE]
<1>8. new \in Slots  BY DEF Slots
<1>9. /\ h2.slot = [h.slot EXCEPT ![i] = new] /\ h2.stray = FALSE
      /\ h2.count = IF h.slot[i].active THEN h.count ELSE h.count + 1
      /\ TableType(h2, n)
  <2>1. h \in [slot : [D -> Slots], count : Nat, stray : {FALSE}]  BY <1>3 DEF TableType
  <2> DEFINE X == [h.slot EXCEPT ![i] = new]
             c == IF h.slot[i].active THEN h.count ELSE h.count + 1
  <2>2. i \in D  BY <1>2
  <2> HIDE DEF new, i
  <2>3. X \in [D -> Slots]  BY <2>2, <1>4, <1>8
  <2>4. c \in Nat  BY <1>4
  <2>5. h2 = [h EXCEPT !.slot = X, !.count = c]  BY <1>7, <2>1 DEF new, i
  <2> HIDE DEF X, c
  <2>6. h2.slot = X /\ h2.count = c /\ h2.stray = FALSE  BY <2>1, <2>5, <1>4
  <2>7. h2 \in [slot : [D -> Slots], count : Nat, stray : {FALSE}]
    BY <2>1, <2>3, <2>4, <2>5
  <2> QED  BY <2>6, <2>7 DEF TableType, X, c
<1>10. /\ h2.slot[i] = new
       /\ \A j \in D : j # i => h2.slot[j] = h.slot[j]
  BY <1>9, <1>4, <1>2
<1>11. g2[k] = v /\ (\A c \in Keys : c # k => g2[c] = g[c])
       /\ g2 \in [Keys -> Values \cup {Null}]
  OBVIOUS
<1> HIDE DEF new, g2, i
<1>12. new.data = v /\ new.key = k /\ new.active = TRUE  BY DEF new
<1>13. \A j \in D : h.slot[j].active /\ h.slot[j].key = k => j = i
  <2> SUFFICES ASSUME NEW j \in D, h.slot[j].active, h.slot[j].key = k PROVE j = i
    OBVIOUS
  <2>1. h.slot[j].data = g[k] /\ h.slot[j].data # Null  BY <1>3 DEF SlotsRight
  <2>2. h.slot[i].active /\ h.slot[i].key = k  BY <2>1, <1>2 DEF i
  <2>3. i \in ActiveIn(h, n) /\ j \in ActiveIn(h, n)  BY <2>2, <1>2 DEF ActiveIn, i
  <2> QED  BY <2>2, <2>3, <1>3 DEF SlotsRight
<1>14. SlotsRight(h2, n, g2)
  <2>1. ASSUME NEW j \in D
        PROVE  /\ h2.slot[j].active = (h2.slot[j].data # Null)
               /\ h2.slot[j].active =>
                    h2.slot[j].key \in Keys /\ h2.slot[j].data = g2[h2.slot[j].key]
    <3>1. CASE j = i
      BY <3>1, <1>10, <1>11, <1>12, <1>5
    <3>2. CASE j # i
      <4>1. h2.slot[j] = h.slot[j]  BY <3>2, <1>10
      <4>2. h.slot[j].active = (h.slot[j].data # Null)  BY <1>3 DEF SlotsRight
      <4>3. ASSUME h.slot[j].active
            PROVE  h.slot[j].key \in Keys /\ h.slot[j].data = g2[h.slot[j].key]
        <5>1. h.slot[j].key \in Keys /\ h.slot[j].data = g[h.slot[j].key]
          BY <1>3, <4>3 DEF SlotsRight
        <5>2. h.slot[j].key # k  BY <4>3, <3>2, <1>13
        <5> QED  BY <5>1, <5>2, <1>11
      <4> QED  BY <4>1, <4>2, <4>3
    <3> QED  BY <3>1, <3>2
  <2>2. ASSUME NEW x \in ActiveIn(h2, n), NEW y \in ActiveIn(h2, n),
               h2.slot[x].key = h2.slot[y].key
        PROVE  x = y
    <3>1. x \in D /\ y \in D /\ h2.slot[x].active /\ h2.slot[y].active  BY DEF ActiveIn
    <3>2. CASE x = i
      <4>1. h2.slot[y].key = k  BY <2>2, <3>2, <1>10, <1>12
      <4> QED  BY <4>1, <3>1, <3>2, <1>10, <1>13
    <3>3. CASE y = i
      <4>1. h2.slot[x].key = k  BY <2>2, <3>3, <1>10, <1>12
      <4> QED  BY <4>1, <3>1, <3>3, <1>10, <1>13
    <3>4. CASE x # i /\ y # i
      <4>1. h2.slot[x] = h.slot[x] /\ h2.slot[y] = h.slot[y]  BY <3>1, <3>4, <1>10
      <4>2. x \in ActiveIn(h, n) /\ y \in ActiveIn(h, n)  BY <3>1, <4>1 DEF ActiveIn
      <4> QED  BY <2>2, <4>1, <4>2, <1>3 DEF SlotsRight
    <3> QED  BY <3>2, <3>3, <3>4
  <2> QED  BY <2>1, <2>2 DEF SlotsRight
<1>15. CountRight(h2, n, g2)
  <2>1. ActiveIn(h2, n) = ActiveIn(h, n) \cup {i}  BY <1>2, <1>10, <1>12 DEF ActiveIn, i
  <2>2. GivenIn(g2) = GivenIn(g) \cup {k}  BY <1>5, <1>11 DEF GivenIn
  <2>3. IsFiniteSet(ActiveIn(h, n))
    <3>1. ActiveIn(h, n) \in SUBSET D /\ IsFiniteSet(D)  BY <1>4, SizeFacts DEF ActiveIn
    <3> QED  BY <3>1, FS_Subset
  <2>4. IsFiniteSet(GivenIn(g))
    <3>1. GivenIn(g) \in SUBSET Keys  BY DEF GivenIn
    <3> QED  BY <3>1, KeysAssumption, FS_Subset
  <2>5. i \in ActiveIn(h, n) <=> h.slot[i].active  BY <1>2 DEF ActiveIn, i
  <2>6. k \in GivenIn(g) <=> h.slot[i].active  BY <1>2 DEF GivenIn, i
  <2>7. /\ Cardinality(ActiveIn(h2, n)) = IF i \in ActiveIn(h, n)
             THEN Cardinality(ActiveIn(h, n)) ELSE Cardinality(ActiveIn(h, n)) + 1
        /\ Cardinality(GivenIn(g2)) = IF k \in GivenIn(g)
             THEN Cardinality(GivenIn(g)) ELSE Cardinality(GivenIn(g)) + 1
    BY <2>1, <2>2, <2>3, <2>4, FS_AddElement
  <2>8. h.count = Cardinality(ActiveIn(h, n)) /\ h.count = Cardinality(GivenIn(g))
    BY <1>3 DEF CountRight
  <2> QED  BY <2>5, <2>6, <2>7, <2>8, <1>9 DEF CountRight
<1>16. ASSUME NEW c \in GivenIn(g2) PROVE Found(h2, n, c)
  <2>1. CASE c = k
    <3>1. ASSUME NEW b \in 0 .. a - 1
          PROVE  h2.slot[p[b]].active /\ h2.slot[p[b]].key # k
      <4>1. p[b] \in D /\ h.slot[p[b]].active /\ h.slot[p[b]].key # k  BY <1>2
      <4>2. b \in D /\ b # a
        <5>1. a \in Nat /\ a <= n - 1  BY <1>1, <1>4
        <5> QED  BY <5>1, <1>4
      <4>3. p[b] # i  BY <4>2, <1>6 DEF i
      <4> QED  BY <4>1, <4>3, <1>10
    <3>2. h2.slot[p[a]].active /\ h2.slot[p[a]].key = k  BY <1>10, <1>12 DEF i
    <3>3. Reaches(h2, n, k, a)  BY <3>1, <3>2 DEF Reaches, p
    <3> QED  BY <3>3, <2>1 DEF Found
  <2>2. CASE c # k
    <3>1. c \in GivenIn(g) /\ c \in Nat  BY <2>2, <1>11, KeysAssumption DEF GivenIn
    <3>2. PICK e \in D : Reaches(h, n, c, e)  BY <3>1 DEF Holds, Found
    <3> DEFINE q == Probe(c, n)
    <3>3. q \in [D -> D]  BY <3>1, ProbeFacts
    <3>4. /\ h.slot[q[e]].active /\ h.slot[q[e]].key = c
          /\ \A b \in 0 .. e - 1 : h.slot[q[b]].active /\ h.slot[q[b]].key # c
      BY <3>2 DEF Reaches
    <3> HIDE DEF q
    <3>5. q[e] # i  BY <3>4, <2>2, <1>2 DEF i
    <3>6. h2.slot[q[e]].active /\ h2.slot[q[e]].key = c  BY <3>3, <3>4, <3>5, <1>10
    <3>7. ASSUME NEW b \in 0 .. e - 1
          PROVE  h2.slot[q[b]].active /\ h2.slot[q[b]].key # c
      <4>1. b \in D
        <5>1. e \in Nat /\ e <= n - 1  BY <3>2, <1>4
        <5> QED  BY <5>1, <1>4
      <4>2. CASE q[b] = i
        BY <4>2, <2>2, <1>10, <1>12
      <4>3. CASE q[b] # i
        BY <4>1, <4>3, <3>3, <3>4, <1>10
      <4> QED  BY <4>2, <4>3
    <3>8. Reaches(h2, n, c, e)  BY <3>6, <3>7 DEF Reaches, q
    <3> QED  BY <3>8, <3>2 DEF Found
  <2> QED  BY <2>1, <2>2
<1> QED  BY <1>9, <1>14, <1>15, <1>16 DEF Holds, h2, g2

-----------------------------------------------------------------------------
(* Hash tables: growth.                                                    *)

LEMMA NextFacts ==
  ASSUME NEW n \in 0 .. Cardinality(Keys)
  PROVE  Sound(NextSize(n)) /\ NextSize(n) \in Nat /\ n < NextSize(n)
<1> DEFINE odd == {m \in 2 * n + 1 .. 4 * n + 3 : m % 2 = 1 /\ IsPrime(m)}
<1>1. odd # {}
  <2>1. \E m \in 2 * n + 1 .. 4 * n + 3 : m % 2 = 1 /\ IsPrime(m)  BY SizesAssumption
  <2> QED  BY <2>1
<1>2. odd \in SUBSET Nat /\ \A m \in odd : n < m /\ m % 2 = 1 /\ IsPrime(m)
  BY KeysAssumption, FS_CardinalityType
<1>3. NextSize(n) = CHOOSE m \in odd : \A o \in odd : m <= o  BY DEF NextSize
<1> HIDE DEF odd
<1>4. \E m \in odd : \A o \in odd : m <= o  BY <1>1, <1>2, LeastNat
<1>5. NextSize(n) \in odd  BY <1>3, <1>4
<1> QED  BY <1>2, <1>5 DEF Sound

Nothing == [k \in Keys |-> Null]

LEMMA ZeroedHolds ==
  ASSUME NEW n \in Nat, n = 0 \/ Sound(n)
  PROVE  Holds(Zeroed(n), n, Nothing)
<1> DEFINE z == Zeroed(n)
<1>1. TableType(z, n)  BY DEF Zeroed, TableType, Slots
<1>2. \A i \in 0 .. n - 1 : z.slot[i].active = FALSE /\ z.slot[i].data = Null  BY DEF Zeroed
<1>3. z.count = 0  BY DEF Zeroed
<1> HIDE DEF z
<1>4. ActiveIn(z, n) = {} /\ GivenIn(Nothing) = {}  BY <1>2 DEF ActiveIn, GivenIn, Nothing
<1>5. SlotsRight(z, n, Nothing)  BY <1>2, <1>4 DEF SlotsRight
<1>6. CountRight(z, n, Nothing)  BY <1>3, <1>4, FS_EmptySet DEF CountRight
<1> QED  BY <1>1, <1>4, <1>5, <1>6 DEF Holds, z

\* The tables of a size, whatever they hold.
Tables(n) == [slot : [0 .. n - 1 -> Slots], count : Nat, stray : BOOLEAN]

LEMMA PlacedType ==
  ASSUME NEW n, NEW t \in Tables(n), NEW k \in Keys \cup {0}, NEW v \in Values \cup {Null}
  PROVE  Placed(t, k, v) \in Tables(n)
<1> DEFINE i == StopsAt(t, k, Free(t) \cup Named(t, k))
           new == [data |-> v, key |-> k, active |-> TRUE]
           X == [t.slot EXCEPT ![i] = new]
           c == IF t.slot[i].active THEN t.count ELSE t.count + 1
<1>1. t.slot \in [0 .. n - 1 -> Slots] /\ t.count \in Nat  BY DEF Tables
<1>2. new \in Slots  BY DEF Slots
<1>3. Placed(t, k, v) = IF t.stray \/ i \notin DOMAIN t.slot THEN [t EXCEPT !.stray = TRUE]
                        ELSE [t EXCEPT !.slot = X, !.count = c]
  BY DEF Placed
<1> HIDE DEF i, new
<1>4. X \in [0 .. n - 1 -> Slots]
  <2> DEFINE D == 0 .. n - 1
  <2>1. t.slot \in [D -> Slots]  BY <1>1
  <2> HIDE DEF D
  <2>2. X \in [D -> Slots]  BY <2>1, <1>2
  <2> QED  BY <2>2 DEF D
<1>5. c \in Nat  BY <1>1
<1> HIDE DEF X, c
<1>6. [t EXCEPT !.stray = TRUE] \in Tables(n)  BY DEF Tables
<1>7. [t EXCEPT !.slot = X, !.count = c] \in Tables(n)  BY <1>4, <1>5 DEF Tables
<1> QED  BY <1>3, <1>6, <1>7

LEMMA MovedType ==
  ASSUME NEW n, NEW t \in Tables(n), NEW s \in Slots
  PROVE  Moved(t, s) \in Tables(n)
<1>1. s.key \in Keys \cup {0} /\ s.data \in Values \cup {Null}  BY DEF Slots
<1>2. Placed(t, s.key, s.data) \in Tables(n)  BY <1>1, PlacedType
<1> QED  BY <1>2 DEF Moved

\* The tables that rehash goes through, one for each slot it moves.
MovedAll(h, n, f) ==
  f = [i \in 0 .. n |-> IF i = 0 THEN Zeroed(NextSize(n)) ELSE Moved(f[i - 1], h.slot[n - i])]

LEMMA RehashedFacts ==
  ASSUME NEW h, NEW n \in 0 .. Cardinality(Keys), h.slot \in [0 .. n - 1 -> Slots]
  PROVE  \E f : MovedAll(h, n, f) /\ Rehashed(h) = f[n]
<1> DEFINE N == NextSize(n)
           T == Tables(N)
           a == Zeroed(N)
           step == [x \in T \X (1 .. n) |-> Moved(x[1], h.slot[n - x[2]])]
<1>1. N \in Nat /\ Sound(N) /\ n \in Nat  BY NextFacts, KeysAssumption, FS_CardinalityType
<1> HIDE DEF N
<1>2. a \in T  BY <1>1 DEF Zeroed, Tables, Slots
<1> HIDE DEF T, a
<1>3. step \in [T \X (1 .. n) -> T]
  <2>1. ASSUME NEW x \in T \X (1 .. n) PROVE Moved(x[1], h.slot[n - x[2]]) \in T
    <3>1. x[1] \in Tables(N) /\ n - x[2] \in 0 .. n - 1  BY <1>1 DEF T
    <3>2. h.slot[n - x[2]] \in Slots  BY <3>1
    <3> QED  BY <3>1, <3>2, MovedType DEF T
  <2> QED  BY <2>1
<1>4. PICK f : f \in [0 .. n -> T] /\ f[0] = a /\ \A i \in 1 .. n : f[i] = step[<<f[i - 1], i>>]
  <2> HIDE DEF step
  <2>1. \E f : Steps(f, n, T, a, step)  BY <1>1, <1>2, <1>3, StepsExist
  <2> QED  BY <2>1 DEF Steps
<1>5. \A i \in 1 .. n : f[i] = Moved(f[i - 1], h.slot[n - i])
  <2> SUFFICES ASSUME NEW i \in 1 .. n PROVE f[i] = Moved(f[i - 1], h.slot[n - i])
    OBVIOUS
  <2>1. i - 1 \in 0 .. n  BY <1>1
  <2>2. <<f[i - 1], i>> \in T \X (1 .. n)  BY <1>4, <2>1
  <2>3. step[<<f[i - 1], i>>] = Moved(f[i - 1], h.slot[n - i])  BY <2>2
  <2> HIDE DEF step
  <2> QED  BY <1>4, <2>3
<1>6. MovedAll(h, n, f)
  <2> HIDE DEF step
  <2>1. \A i \in 0 .. n : i # 0 => i \in 1 .. n  BY <1>1
  <2>2. \A i \in 0 .. n : f[i] = IF i = 0 THEN a ELSE Moved(f[i - 1], h.slot[n - i])
    BY <1>4, <1>5, <2>1
  <2>3. f = [i \in 0 .. n |-> IF i = 0 THEN a ELSE Moved(f[i - 1], h.slot[n - i])]
    BY <1>4, <2>2
  <2> QED  BY <2>3 DEF MovedAll, a, N
<1> DEFINE g == CHOOSE e : MovedAll(h, n, e)
<1>7. Size(h) = n  BY <1>1, SizeFacts
<1>8. Rehashed(h) = g[n]  BY <1>7 DEF Rehashed, MovedAll
<1>9. MovedAll(h, n, g)  BY <1>6
<1> QED  BY <1>8, <1>9

\* What the last i slots gave.
GivenBy(h, n, g, i) ==
  [k \in Keys |-> IF \E j \in n - i .. n - 1 : h.slot[j].active /\ h.slot[j].key = k
                  THEN g[k] ELSE Null]

LEMMA CountFacts ==
  ASSUME NEW h, NEW n \in Nat, NEW g, Holds(h, n, g)
  PROVE  h.count <= n /\ IsFiniteSet(GivenIn(g)) /\ h.count \in 0 .. Cardinality(Keys)
<1>1. TableType(h, n) /\ CountRight(h, n, g)  BY DEF Holds
<1>2. h.slot \in [0 .. n - 1 -> Slots] /\ h.count \in Nat  BY <1>1 DEF TableType
<1>3. IsFiniteSet(0 .. n - 1) /\ Cardinality(0 .. n - 1) = n  BY <1>2, SizeFacts
<1>4. Cardinality(ActiveIn(h, n)) <= n
  <2>1. ActiveIn(h, n) \in SUBSET (0 .. n - 1)  BY DEF ActiveIn
  <2> QED  BY <1>3, <2>1, FS_Subset
<1>5. IsFiniteSet(GivenIn(g)) /\ Cardinality(GivenIn(g)) <= Cardinality(Keys)
  <2>1. GivenIn(g) \in SUBSET Keys  BY DEF GivenIn
  <2> QED  BY <2>1, KeysAssumption, FS_Subset
<1>6. Cardinality(Keys) \in Nat  BY KeysAssumption, FS_CardinalityType
<1> QED  BY <1>1, <1>2, <1>4, <1>5, <1>6 DEF CountRight

LEMMA MovedHolds ==
  ASSUME NEW h, NEW n \in Nat, NEW g \in [Keys -> Values \cup {Null}], Holds(h, n, g),
         NEW N, Sound(N), n < N, NEW i \in 1 .. n,
         NEW t, Holds(t, N, GivenBy(h, n, g, i - 1))
  PROVE  Holds(Moved(t, h.slot[n - i]), N, GivenBy(h, n, g, i))
<1> DEFINE j == n - i
           s == h.slot[j]
           before == GivenBy(h, n, g, i - 1)
           now == GivenBy(h, n, g, i)
<1>1. j \in 0 .. n - 1 /\ n - i .. n - 1 = (n - (i - 1) .. n - 1) \cup {j}
  OBVIOUS
<1>2. TableType(h, n) /\ SlotsRight(h, n, g) /\ CountRight(h, n, g)  BY DEF Holds
<1>3. s \in Slots  BY <1>1, <1>2 DEF TableType
<1>4. CASE ~s.active
  <2>1. \A k \in Keys :
          (\E x \in n - i .. n - 1 : h.slot[x].active /\ h.slot[x].key = k) <=>
          (\E x \in n - (i - 1) .. n - 1 : h.slot[x].active /\ h.slot[x].key = k)
    <3> HIDE DEF j
    <3> QED  BY <1>1, <1>4
  <2>2. now = before  BY <2>1 DEF GivenBy
  <2>3. Moved(t, s) = t  BY <1>4 DEF Moved
  <2> QED  BY <2>2, <2>3
<1>5. CASE s.active
  <2> DEFINE k == s.key
             v == s.data
  <2>1. k \in Keys /\ v = g[k] /\ v # Null  BY <1>1, <1>2, <1>5 DEF SlotsRight
  <2>2. v \in Values  BY <2>1
  <2>3. before \in [Keys -> Values \cup {Null}]  BY DEF GivenBy
  <2>4. now = [before EXCEPT ![k] = v]
    <3>1. \A c \in Keys : c # k =>
            ((\E x \in n - i .. n - 1 : h.slot[x].active /\ h.slot[x].key = c) <=>
             (\E x \in n - (i - 1) .. n - 1 : h.slot[x].active /\ h.slot[x].key = c))
      <4> HIDE DEF j
      <4> QED  BY <1>1
    <3>2. \E x \in n - i .. n - 1 : h.slot[x].active /\ h.slot[x].key = k
      <4>1. j \in n - i .. n - 1  BY <1>1
      <4> QED  BY <4>1, <1>5
    <3>3. \A c \in Keys : now[c] = IF c = k THEN v ELSE before[c]
      <4> HIDE DEF j, k, v
      <4>1. now[k] = g[k]  BY <3>2, <2>1 DEF GivenBy
      <4>2. \A c \in Keys : c # k => now[c] = before[c]  BY <3>1 DEF GivenBy
      <4> HIDE DEF now, before
      <4> QED  BY <4>1, <4>2, <2>1
    <3>4. now \in [Keys -> Values \cup {Null}]  BY DEF GivenBy
    <3> HIDE DEF now, before, k, v
    <3> QED  BY <2>1, <2>3, <3>3, <3>4
  <2>5. t.count < N
    <3>1. N \in Nat  BY DEF Sound
    <3>2. IsFiniteSet(GivenIn(g)) /\ h.count <= n /\ h.count \in Nat
      BY <1>2, CountFacts DEF TableType
    <3>3. GivenIn(before) \in SUBSET GivenIn(g)  BY DEF GivenIn, GivenBy
    <3>4. Cardinality(GivenIn(before)) <= Cardinality(GivenIn(g))  BY <3>2, <3>3, FS_Subset
    <3>5. t.count = Cardinality(GivenIn(before)) /\ t.count \in Nat
      BY DEF Holds, CountRight, TableType
    <3>6. h.count = Cardinality(GivenIn(g))  BY <1>2 DEF CountRight
    <3> HIDE DEF before
    <3> QED  BY <3>1, <3>2, <3>4, <3>5, <3>6
  <2>6. Moved(t, s) = Placed(t, k, v)  BY <1>5 DEF Moved
  <2> HIDE DEF before, now, k, v
  <2>7. Holds(t, N, before)  BY DEF before
  <2>8. Holds(Placed(t, k, v), N, [before EXCEPT ![k] = v])
    BY <2>1, <2>2, <2>3, <2>5, <2>7, PlacedHolds
  <2>9. Holds(Moved(t, s), N, now)  BY <2>4, <2>6, <2>8
  <2> QED  BY <2>9 DEF now
<1> QED  BY <1>4, <1>5

\* The larger table holds what the table held.
LEMMA RehashedHolds ==
  ASSUME NEW h, NEW n \in Nat, NEW g \in [Keys -> Values \cup {Null}], Holds(h, n, g),
         n <= h.count
  PROVE  /\ Holds(Rehashed(h), NextSize(n), g) /\ Sound(NextSize(n))
         /\ Rehashed(h).count < NextSize(n)
<1> DEFINE N == NextSize(n)
           G(i) == GivenBy(h, n, g, i)
<1>1. n \in 0 .. Cardinality(Keys) /\ h.count <= n
  BY CountFacts, KeysAssumption, FS_CardinalityType
<1>2. Sound(N) /\ N \in Nat /\ n < N  BY <1>1, NextFacts
<1>3. h.slot \in [0 .. n - 1 -> Slots]  BY DEF Holds, TableType
<1>4. PICK f : MovedAll(h, n, f) /\ Rehashed(h) = f[n]  BY <1>1, <1>3, RehashedFacts
<1>5. f = [i \in 0 .. n |-> IF i = 0 THEN Zeroed(N) ELSE Moved(f[i - 1], h.slot[n - i])]
  BY <1>4 DEF MovedAll
<1> HIDE DEF N
<1>6. f[0] = Zeroed(N) /\ \A i \in 1 .. n : f[i] = Moved(f[i - 1], h.slot[n - i])
  <2>1. 0 \in 0 .. n /\ \A i \in 1 .. n : i \in 0 .. n /\ i # 0  OBVIOUS
  <2> QED  BY <1>5, <2>1
<1> DEFINE U == {i \in 0 .. n : Holds(f[i], N, G(i))}
<1>7. 0 \in U
  <2>1. G(0) = Nothing  BY DEF GivenBy, Nothing
  <2>2. Holds(f[0], N, Nothing)  BY <1>2, <1>6, ZeroedHolds
  <2> QED  BY <2>1, <2>2
<1>8. ASSUME NEW i \in 1 .. n, i - 1 \in U PROVE i \in U
  <2>1. Holds(f[i - 1], N, G(i - 1))  BY <1>8
  <2>2. Holds(Moved(f[i - 1], h.slot[n - i]), N, G(i))  BY <1>2, <2>1, MovedHolds
  <2>3. i \in 0 .. n  OBVIOUS
  <2> QED  BY <1>6, <2>2, <2>3
<1> HIDE DEF U
<1>9. n \in U
  <2>1. 0 .. n \subseteq U  BY <1>7, <1>8, Upwards
  <2> QED  BY <2>1
<1>10. Holds(f[n], N, G(n))  BY <1>9 DEF U
<1>11. G(n) = g
  <2>1. n - n .. n - 1 = 0 .. n - 1  OBVIOUS
  <2>2. ASSUME NEW k \in Keys, g[k] # Null
        PROVE  \E j \in n - n .. n - 1 : h.slot[j].active /\ h.slot[j].key = k
    <3>1. k \in GivenIn(g) /\ k \in Nat  BY <2>2, KeysAssumption DEF GivenIn
    <3>2. PICK a \in 0 .. n - 1 : Reaches(h, n, k, a)  BY <3>1 DEF Holds, Found
    <3>3. n # 0  BY <3>2
    <3>4. Sound(n)  BY <3>3 DEF Holds
    <3>5. Probe(k, n)[a] \in 0 .. n - 1
      <4>1. Probe(k, n) \in [0 .. n - 1 -> 0 .. n - 1]  BY <3>1, <3>4, ProbeFacts
      <4> QED  BY <3>2, <4>1
    <3> QED  BY <2>1, <3>2, <3>5 DEF Reaches
  <2>3. \A k \in Keys : (IF \E j \in n - n .. n - 1 : h.slot[j].active /\ h.slot[j].key = k
                        THEN g[k] ELSE Null) = g[k]
    BY <2>2
  <2>4. g = [k \in Keys |-> g[k]]  OBVIOUS
  <2> QED  BY <2>3, <2>4 DEF GivenBy
<1>12. Holds(Rehashed(h), N, g)  BY <1>4, <1>10, <1>11
<1>13. Rehashed(h).count < N
  <2>1. Rehashed(h).count = Cardinality(GivenIn(g)) /\ h.count = Cardinality(GivenIn(g))
    BY <1>12 DEF Holds, CountRight
  <2>2. h.count \in Nat  BY DEF Holds, TableType
  <2> QED  BY <1>1, <1>2, <2>1, <2>2
<1> QED  BY <1>2, <1>12, <1>13 DEF N

-----------------------------------------------------------------------------
(* Hash tables: the theorem.                                               *)

LEMMA HoldsSize ==
  ASSUME NEW h, NEW n \in Nat, NEW g, Holds(h, n, g)
  PROVE  Size(h) = n
<1>1. h.slot \in [0 .. n - 1 -> Slots]  BY DEF Holds, TableType
<1> QED  BY <1>1, SizeFacts

LEMMA HashInitInv == HashInit => HashInv
<1> SUFFICES ASSUME HashInit PROVE HashInv
  OBVIOUS
<1>1. StartSize \in Nat /\ (StartSize = 0 \/ Sound(StartSize))
  BY HashMapAssumption, SizesAssumption DEF Sound
<1>2. Holds(Zeroed(StartSize), StartSize, Nothing)  BY <1>1, ZeroedHolds
<1>3. Size(Zeroed(StartSize)) = StartSize  BY <1>1, <1>2, HoldsSize
<1> QED  BY <1>2, <1>3 DEF HashInit, HashInv, Nothing

LEMMA HashNextInv == HashInv /\ [HashNext]_hashVars => HashInv'
<1> SUFFICES ASSUME HashInv, [HashNext]_hashVars PROVE HashInv'
  OBVIOUS
<1>1. CASE UNCHANGED hashVars
  BY <1>1 DEF hashVars, HashInv
<1>2. CASE HashNext
  <2>1. PICK k \in Keys, v \in Values : hm_insert(k, v)  BY <1>2 DEF HashNext
  <2> DEFINE n == Size(hm)
             h == IF n <= hm.count THEN Rehashed(hm) ELSE hm
             m == IF n <= hm.count THEN NextSize(n) ELSE n
             g == [given EXCEPT ![k] = v]
  <2>2. given \in [Keys -> Values \cup {Null}] /\ Holds(hm, n, given)  BY DEF HashInv
  <2>3. n \in Nat  BY <2>2 DEF Holds, Sound
  <2>4. hm.count \in Nat  BY <2>2 DEF Holds, TableType
  <2>5. hm' = Placed(h, k, v) /\ given' = g  BY <2>1 DEF hm_insert
  <2> HIDE DEF n
  <2>6. Holds(h, m, given) /\ Sound(m) /\ h.count < m
    <3>1. CASE n <= hm.count
      BY <2>2, <2>3, <3>1, RehashedHolds
    <3>2. CASE ~(n <= hm.count)
      <4>1. n # 0 /\ hm.count < n  BY <2>3, <2>4, <3>2
      <4> QED  BY <4>1, <2>2, <3>2 DEF Holds
    <3> QED  BY <3>1, <3>2
  <2> HIDE DEF h, m
  <2>7. Holds(hm', m, given')  BY <2>2, <2>5, <2>6, PlacedHolds
  <2>8. m \in Nat  BY <2>6 DEF Sound
  <2>9. Size(hm') = m  BY <2>7, <2>8, HoldsSize
  <2>10. given' \in [Keys -> Values \cup {Null}]  BY <2>2, <2>5
  <2> QED  BY <2>7, <2>9, <2>10 DEF HashInv
<1> QED  BY <1>1, <1>2

\* A search of a key that was given goes on to its slot; no other key's slot ends it.
LEMMA GetFacts ==
  ASSUME HashInv, NEW k \in Keys
  PROVE  hm_get(k) = given[k]
<1> DEFINE n == Size(hm)
           D == 0 .. n - 1
           stops == Named(hm, k) \cup Unused(hm)
           i == StopsAt(hm, k, stops)
<1>1. Holds(hm, n, given) /\ given \in [Keys -> Values \cup {Null}]  BY DEF HashInv
<1>2. TableType(hm, n) /\ SlotsRight(hm, n, given) /\ CountRight(hm, n, given) /\ n \in Nat
  BY <1>1 DEF Holds, Sound
<1> HIDE DEF n
<1>3. hm.slot \in [D -> Slots] /\ hm.count \in Nat  BY <1>2 DEF TableType
<1>4. hm_get(k) = IF hm.count > 0 /\ i \in DOMAIN hm.slot /\ hm.slot[i].active
                     /\ hm.slot[i].key = k
                  THEN hm.slot[i].data ELSE Null
  BY DEF hm_get
<1>5. stops = {j \in D : hm.slot[j].key = k \/ hm.slot[j].data = Null}
  <2>1. DOMAIN hm.slot = D  BY <1>3
  <2>2. Named(hm, k) = {j \in D : hm.slot[j].key = k}
        /\ Unused(hm) = {j \in D : hm.slot[j].data = Null}
    BY <2>1 DEF Named, Unused
  <2> QED  BY <2>2
<1> HIDE DEF stops, i
<1>6. CASE given[k] = Null
  <2>1. ASSUME i \in DOMAIN hm.slot, hm.slot[i].active, hm.slot[i].key = k PROVE FALSE
    BY <1>2, <1>3, <1>6, <2>1 DEF SlotsRight
  <2> QED  BY <1>4, <1>6, <2>1
<1>7. CASE given[k] # Null
  <2>1. k \in GivenIn(given) /\ k \in Nat  BY <1>7, KeysAssumption DEF GivenIn
  <2>2. PICK a \in D : Reaches(hm, n, k, a)  BY <1>1, <2>1 DEF Holds, Found
  <2>3. Sound(n)  BY <1>1, <2>2 DEF Holds
  <2> DEFINE p == Probe(k, n)
  <2>4. p \in [D -> D]  BY <2>1, <2>3, ProbeFacts
  <2>5. /\ hm.slot[p[a]].active /\ hm.slot[p[a]].key = k
        /\ \A b \in 0 .. a - 1 : hm.slot[p[b]].active /\ hm.slot[p[b]].key # k
    BY <2>2 DEF Reaches
  <2> HIDE DEF p
  <2>6. p[a] \in D /\ p[a] \in stops  BY <1>5, <2>4, <2>5
  <2>7. Ends(hm, n, k, stops)
    <3>1. stops # {} /\ stops \in SUBSET (0 .. n - 1)  BY <1>5, <2>6
    <3> QED  BY <3>1, <1>3, <2>1, <2>3, StopsFacts
  <2>8. PICK c \in D : EndsAt(hm, n, k, stops, c)  BY <2>7 DEF Ends
  <2>9. p[c] \in stops /\ i = p[c] /\ \A b \in 0 .. c - 1 : p[b] \notin stops
    BY <2>8 DEF EndsAt, p, i
  <2>10. a = c
    <3>1. CASE a < c
      <4>1. a \in 0 .. c - 1  BY <3>1
      <4> QED  BY <4>1, <2>6, <2>9
    <3>2. CASE c < a
      <4>1. c \in 0 .. a - 1  BY <3>2
      <4>2. p[c] \in D /\ hm.slot[p[c]].active /\ hm.slot[p[c]].key # k  BY <4>1, <2>4, <2>5
      <4>3. hm.slot[p[c]].data # Null  BY <4>2, <1>2 DEF SlotsRight
      <4> QED  BY <4>2, <4>3, <2>9, <1>5
    <3> QED  BY <3>1, <3>2, <1>2
  <2>11. i \in D /\ hm.slot[i].active /\ hm.slot[i].key = k  BY <2>5, <2>6, <2>9, <2>10
  <2>12. hm.slot[i].data = given[k]  BY <2>11, <1>2 DEF SlotsRight
  <2>13. hm.count > 0
    <3>1. IsFiniteSet(GivenIn(given))  BY <1>1, <1>2, CountFacts
    <3>2. Cardinality(GivenIn(given)) # 0  BY <3>1, <2>1, FS_EmptySet
    <3>3. hm.count = Cardinality(GivenIn(given))  BY <1>2 DEF CountRight
    <3> QED  BY <1>3, <3>2, <3>3
  <2> QED  BY <1>3, <1>4, <2>11, <2>12, <2>13
<1> QED  BY <1>6, <1>7

LEMMA HashInvGets == HashInv => GetsWhatWasGiven
<1> SUFFICES ASSUME HashInv PROVE GetsWhatWasGiven
  OBVIOUS
<1> DEFINE n == Size(hm)
<1>1. Holds(hm, n, given) /\ given \in [Keys -> Values \cup {Null}]  BY DEF HashInv
<1>2. TableType(hm, n) /\ CountRight(hm, n, given) /\ n \in Nat
  BY <1>1 DEF Holds, Sound
<1>3. hm.count <= n  BY <1>1, <1>2, CountFacts
<1>4. hm.count = Cardinality({k \in Keys : given[k] # Null})  BY <1>2 DEF CountRight, GivenIn
<1>5. ~hm.stray /\ \A i \in DOMAIN hm.slot : hm.slot[i] \in Slots
  <2> HIDE DEF n
  <2> QED  BY <1>2 DEF TableType
<1>6. HashTypeOK  BY <1>1, <1>3, <1>4, <1>5 DEF HashTypeOK, Slots
<1> QED  BY <1>6, GetFacts DEF GetsWhatWasGiven

\* hm_get answers with the element a key was last given, for any number of keys and
\* elements, however they collide and however often the table grows.
THEOREM EachKeyHasItsElement == HashSpec => []GetsWhatWasGiven
<1>1. HashSpec => []HashInv
  BY HashInitInv, HashNextInv, PTL DEF HashSpec
<1> QED  BY <1>1, HashInvGets, PTL

-----------------------------------------------------------------------------
(* The map: places and directions.                                         *)

RoomAt(p) == (p[1] - MAPX) % 2 = 0 /\ (p[2] - MAPY) % 2 = 0

\* What is drawn at p is where an exit of a drawn room leads.
Led(m, p) ==
  IF RoomAt(p)
  THEN p = Middle \/ \E q \in Points, d \in Directions :
         /\ RoomAt(q) /\ m[q] # Nowhere
         /\ get_exit_dir(d, get_exit_dir(d, q)) = p /\ exits[m[q]][d] = m[p]
  ELSE \E q \in Points, d \in Directions :
         /\ RoomAt(q) /\ m[q] # Nowhere
         /\ get_exit_dir(d, q) = p /\ exits[m[q]][d] = m[p]

Right(m) == m \in Maps /\ \A p \in Points : m[p] # Nowhere => Led(m, p)

\* Rooms that were drawn stay.
Grows(m, n) == \A p \in Points : RoomAt(p) /\ m[p] # Nowhere => n[p] = m[p]

ExitsType == exits \in [Rooms -> [Directions -> Rooms \cup {Nowhere}]]

\* Two steps in a direction lead from a room's place over a passage's to a room's.
LEMMA DirFacts ==
  ASSUME NEW p \in Points, NEW d \in Directions,
         ~BOUNDARY(get_exit_dir(d, p)), ~BOUNDARY(get_exit_dir(d, get_exit_dir(d, p)))
  PROVE  /\ get_exit_dir(d, p) \in Points
         /\ get_exit_dir(d, get_exit_dir(d, p)) \in Points
         /\ get_exit_dir(d, get_exit_dir(d, p)) # p
         /\ RoomAt(p) => /\ ~RoomAt(get_exit_dir(d, p))
                         /\ RoomAt(get_exit_dir(d, get_exit_dir(d, p)))
<1> USE AutomapAssumption
<1> DEFINE x == p[1]  y == p[2]  M == MAPX  N == MAPY
<1>1. /\ M \in Nat /\ N \in Nat /\ x \in Int /\ y \in Int /\ x \in 0 .. M * 2 /\ y \in 0 .. N * 2
      /\ p = <<x, y>>
  BY DEF Points, RoomAt
<1> HIDE DEF x, y, M, N
<1>2. Points = (0 .. M * 2) \X (0 .. N * 2)  BY <1>1 DEF Points, M, N
<1>3. \A q : RoomAt(q) <=> (q[1] - M) % 2 = 0 /\ (q[2] - N) % 2 = 0  BY <1>1 DEF RoomAt, M, N
<1>4. \A q : BOUNDARY(q) <=> (q[1] < 0 \/ q[2] < 0 \/ q[1] > M * 2 \/ q[2] > N * 2)
  BY <1>1 DEF BOUNDARY, M, N
<1>5. CASE d = 0
  <2>1. get_exit_dir(d, p) = <<x, y - 1>>  BY <1>1, <1>5 DEF get_exit_dir
  <2>2. get_exit_dir(d, <<x, y - 1>>) = <<x, y - 2>>  BY <1>1, <1>5 DEF get_exit_dir
  <2> QED  BY <1>1, <1>2, <1>3, <1>4, <2>1, <2>2
<1>6. CASE d = 1
  <2>1. get_exit_dir(d, p) = <<x + 1, y>>  BY <1>1, <1>6 DEF get_exit_dir
  <2>2. get_exit_dir(d, <<x + 1, y>>) = <<x + 2, y>>  BY <1>1, <1>6 DEF get_exit_dir
  <2> QED  BY <1>1, <1>2, <1>3, <1>4, <2>1, <2>2
<1>7. CASE d = 2
  <2>1. get_exit_dir(d, p) = <<x, y + 1>>  BY <1>1, <1>7 DEF get_exit_dir
  <2>2. get_exit_dir(d, <<x, y + 1>>) = <<x, y + 2>>  BY <1>1, <1>7 DEF get_exit_dir
  <2> QED  BY <1>1, <1>2, <1>3, <1>4, <2>1, <2>2
<1>8. CASE d = 3
  <2>1. get_exit_dir(d, p) = <<x - 1, y>>  BY <1>1, <1>8 DEF get_exit_dir
  <2>2. get_exit_dir(d, <<x - 1, y>>) = <<x - 2, y>>  BY <1>1, <1>8 DEF get_exit_dir
  <2> QED  BY <1>1, <1>2, <1>3, <1>4, <2>1, <2>2
<1>9. CASE d = 4
  <2>1. get_exit_dir(d, p) = <<-1, -1>>  BY <1>9 DEF get_exit_dir
  <2> QED  BY <1>4, <2>1
<1> QED  BY <1>5, <1>6, <1>7, <1>8, <1>9 DEF Directions

\* One more place is drawn, where an exit leads, and no other room's place.
LEMMA DrawnFacts ==
  ASSUME NEW m, Right(m), NEW x \in Points, NEW v \in Rooms,
         RoomAt(x) => m[x] \in {v, Nowhere}, Led([m EXCEPT ![x] = v], x)
  PROVE  Right([m EXCEPT ![x] = v]) /\ Grows(m, [m EXCEPT ![x] = v])
<1> DEFINE n == [m EXCEPT ![x] = v]
<1>1. m \in Maps /\ n \in Maps /\ n[x] = v /\ \A p \in Points : p # x => n[p] = m[p]
  BY DEF Right, Maps
<1> HIDE DEF n
<1>2. \A q \in Points : RoomAt(q) /\ m[q] # Nowhere => n[q] = m[q]  BY <1>1
<1>3. Grows(m, n)  BY <1>2 DEF Grows
<1>4. ASSUME NEW p \in Points, n[p] # Nowhere PROVE Led(n, p)
  <2>1. CASE p = x  BY <2>1 DEF n
  <2>2. CASE p # x
    <3>1. n[p] = m[p] /\ Led(m, p)  BY <1>1, <1>4, <2>2 DEF Right
    <3> QED  BY <1>2, <3>1 DEF Led
  <2> QED  BY <2>1, <2>2
<1>5. Right(n)  BY <1>1, <1>4 DEF Right
<1> QED  BY <1>3, <1>5 DEF n

-----------------------------------------------------------------------------
(* The map: map_exits.                                                     *)

Calls == Maps \X Rooms \X Points

\* What a call of map_exits does: the map it leaves is right and has the rooms of
\* the map with the room it was called for.
Draws(draw) ==
  /\ draw \in [Calls -> Maps]
  /\ \A x \in Calls :
       RoomAt(x[3]) /\ Right([x[1] EXCEPT ![x[3]] = x[2]]) =>
         Right(draw[x]) /\ Grows([x[1] EXCEPT ![x[3]] = x[2]], draw[x])

LEMMA GrowsOn ==
  ASSUME NEW a, NEW b, NEW c, Grows(a, b), Grows(b, c)
  PROVE  Grows(a, c)
BY DEF Grows

LEMMA DoorFacts ==
  ASSUME ExitsType, NEW draw, Draws(draw), NEW m \in Maps, NEW r \in Rooms, NEW p \in Points,
         NEW door \in Directions
  PROVE  /\ Door(draw, m, r, p, door) \in Maps
         /\ Right(m) /\ RoomAt(p) /\ m[p] = r =>
              Right(Door(draw, m, r, p, door)) /\ Grows(m, Door(draw, m, r, p, door))
<1> USE AutomapAssumption
<1> DEFINE to == exits[r][door]
           exit == get_exit_dir(door, p)
           next == get_exit_dir(door, exit)
           passage == [m EXCEPT ![exit] = to]
           skips == to = Nowhere \/ to \in Unseen \/ BOUNDARY(exit) \/ BOUNDARY(next)
           res == Door(draw, m, r, p, door)
<1>1. res = IF skips THEN m
            ELSE IF GoesOn(passage, next, to) THEN draw[<<passage, to, next>>] ELSE passage
  BY DEF Door
<1>2. CASE skips
  <2>1. res = m  BY <1>1, <1>2
  <2>2. Grows(m, m)  BY DEF Grows
  <2> HIDE DEF res
  <2> QED  BY <2>1, <2>2 DEF res
<1>3. CASE ~skips
  <2>1. to \in Rooms
    <3>1. to \in Rooms \cup {Nowhere}  BY DEF ExitsType
    <3> QED  BY <1>3, <3>1
  <2>2. /\ exit \in Points /\ next \in Points /\ next # p
        /\ RoomAt(p) => ~RoomAt(exit) /\ RoomAt(next)
    BY <1>3, DirFacts
  <2> HIDE DEF to
  <2>3. passage \in Maps
    <3> HIDE DEF exit
    <3> QED  BY <2>1, <2>2 DEF Maps
  <2>4. <<passage, to, next>> \in Calls  BY <2>1, <2>2, <2>3 DEF Calls
  <2>5. res \in Maps  BY <1>1, <1>3, <2>3, <2>4 DEF Draws
  <2>6. ASSUME Right(m), RoomAt(p), m[p] = r PROVE Right(res) /\ Grows(m, res)
    <3>1. r # Nowhere /\ p # exit /\ passage[p] = r /\ passage[exit] = to
      BY <2>2, <2>3, <2>6 DEF Maps
    <3>2. Led(passage, exit)
      <4>1. RoomAt(p) /\ passage[p] # Nowhere /\ get_exit_dir(door, p) = exit
            /\ exits[passage[p]][door] = passage[exit]
        BY <2>6, <3>1 DEF to
      <4> QED  BY <2>2, <2>6, <4>1 DEF Led
    <3>3. Right(passage) /\ Grows(m, passage)
      <4> HIDE DEF exit
      <4> QED  BY <2>1, <2>2, <2>6, <3>2, DrawnFacts
    <3>4. CASE ~GoesOn(passage, next, to)
      <4>1. res = passage  BY <1>1, <1>3, <3>4
      <4> QED  BY <3>3, <4>1
    <3>5. CASE GoesOn(passage, next, to)
      <4> DEFINE call == <<passage, to, next>>
                 drawn == [passage EXCEPT ![next] = to]
      <4>1. res = draw[call]  BY <1>1, <1>3, <3>5
      <4>2. passage[next] \in {to, Nowhere}  BY <3>5 DEF GoesOn
      <4>3. drawn[next] = to /\ drawn[p] = r
        <5> HIDE DEF passage
        <5>1. \A q \in Points : drawn[q] = IF q = next THEN to ELSE passage[q]  BY <2>3 DEF Maps
        <5> HIDE DEF next, drawn
        <5> QED  BY <2>2, <3>1, <5>1
      <4>4. Led(drawn, next)
        <5>1. RoomAt(p) /\ drawn[p] # Nowhere /\ get_exit_dir(door, get_exit_dir(door, p)) = next
              /\ exits[drawn[p]][door] = drawn[next]
          BY <2>6, <3>1, <4>3 DEF to
        <5> HIDE DEF drawn
        <5> QED  BY <2>2, <2>6, <5>1 DEF Led
      <4>5. Right(drawn) /\ Grows(passage, drawn)
        <5> HIDE DEF passage, next
        <5> QED  BY <2>1, <2>2, <3>3, <4>2, <4>4, DrawnFacts
      <4>6. Right(draw[call]) /\ Grows(drawn, draw[call])
        <5>1. call[1] = passage /\ call[2] = to /\ call[3] = next  OBVIOUS
        <5> HIDE DEF call, passage, next, drawn
        <5>2. drawn = [call[1] EXCEPT ![call[3]] = call[2]]  BY <5>1 DEF drawn
        <5> QED  BY <2>2, <2>4, <2>6, <4>5, <5>1, <5>2 DEF Draws, call
      <4> QED  BY <3>3, <4>1, <4>5, <4>6, GrowsOn
    <3> QED  BY <3>4, <3>5
  <2> QED  BY <2>5, <2>6
<1> QED  BY <1>2, <1>3

LEMMA DoorsFacts ==
  ASSUME ExitsType, NEW draw, Draws(draw), NEW m \in Maps, NEW r \in Rooms, NEW p \in Points
  PROVE  /\ Doors(draw, m, r, p) \in Maps
         /\ Right(m) /\ RoomAt(p) /\ m[p] = r =>
              Right(Doors(draw, m, r, p)) /\ Grows(m, Doors(draw, m, r, p))
<1> USE AutomapAssumption
<1> DEFINE step == [x \in Maps \X (1 .. 5) |-> Door(draw, x[1], r, p, x[2] - 1)]
           Is(f) == f = [n \in 0 .. 5 |-> IF n = 0 THEN m ELSE Door(draw, f[n - 1], r, p, n - 1)]
<1>1. \A a \in Maps, n \in 1 .. 5 : n - 1 \in Directions /\ Door(draw, a, r, p, n - 1) \in Maps
  <2> SUFFICES ASSUME NEW a \in Maps, NEW n \in 1 .. 5
               PROVE  n - 1 \in Directions /\ Door(draw, a, r, p, n - 1) \in Maps
    OBVIOUS
  <2>1. n - 1 \in Directions  BY DEF Directions
  <2> QED  BY <2>1, DoorFacts
<1>2. \E f : Is(f)
  <2>1. step \in [Maps \X (1 .. 5) -> Maps]
    <3>1. ASSUME NEW x \in Maps \X (1 .. 5) PROVE Door(draw, x[1], r, p, x[2] - 1) \in Maps
      <4>1. x[1] \in Maps /\ x[2] \in 1 .. 5  OBVIOUS
      <4> QED  BY <1>1, <4>1
    <3> QED  BY <3>1
  <2>2. PICK f : f \in [0 .. 5 -> Maps] /\ f[0] = m /\ \A n \in 1 .. 5 : f[n] = step[<<f[n - 1], n>>]
    <3> HIDE DEF step, Is
    <3>1. \E f : Steps(f, 5, Maps, m, step)  BY <2>1, StepsExist
    <3> QED  BY <3>1 DEF Steps
  <2>3. \A n \in 1 .. 5 : f[n] = Door(draw, f[n - 1], r, p, n - 1)
    <3> SUFFICES ASSUME NEW n \in 1 .. 5 PROVE f[n] = Door(draw, f[n - 1], r, p, n - 1)  OBVIOUS
    <3>1. n - 1 \in 0 .. 5  OBVIOUS
    <3>2. <<f[n - 1], n>> \in Maps \X (1 .. 5)  BY <2>2, <3>1
    <3>3. step[<<f[n - 1], n>>] = Door(draw, f[n - 1], r, p, n - 1)  BY <3>2
    <3> HIDE DEF step
    <3> QED  BY <2>2, <3>3
  <2>4. f = [n \in 0 .. 5 |-> IF n = 0 THEN m ELSE Door(draw, f[n - 1], r, p, n - 1)]
    <3> HIDE DEF step
    <3>1. \A n \in 0 .. 5 : n # 0 => n \in 1 .. 5  OBVIOUS
    <3>2. \A n \in 0 .. 5 : f[n] = IF n = 0 THEN m ELSE Door(draw, f[n - 1], r, p, n - 1)
      BY <2>2, <2>3, <3>1
    <3> QED  BY <2>2, <3>2
  <2> QED  BY <2>4
<1> DEFINE g == CHOOSE f : Is(f)
<1>3. Is(g)
  <2> HIDE DEF Is
  <2> QED  BY <1>2
<1>4. Doors(draw, m, r, p) = g[5]  BY DEF Doors
<1> HIDE DEF g
<1>5. \A n \in 0 .. 5 : g[n] = IF n = 0 THEN m ELSE Door(draw, g[n - 1], r, p, n - 1)  BY <1>3
<1> DEFINE start == Right(m) /\ RoomAt(p) /\ m[p] = r
           U == {n \in 0 .. 5 : g[n] \in Maps /\ (start => Right(g[n]) /\ Grows(m, g[n]))}
<1>6. 0 \in U
  <2>1. g[0] = m /\ Grows(m, m)  BY <1>5 DEF Grows
  <2> QED  BY <2>1
<1>7. \A n \in 1 .. 5 : n - 1 \in U => n \in U
  <2> SUFFICES ASSUME NEW n \in 1 .. 5, n - 1 \in U PROVE n \in U  OBVIOUS
  <2> DEFINE a == g[n - 1]
             d == n - 1
  <2>1. n \in 0 .. 5 /\ n # 0 /\ d \in Directions  BY <1>1
  <2>2. g[n] = Door(draw, a, r, p, d)  BY <1>5, <2>1
  <2>3. a \in Maps /\ (start => Right(a) /\ Grows(m, a))  OBVIOUS
  <2>4. start => a[p] = r
    <3>1. r # Nowhere  OBVIOUS
    <3> HIDE DEF a
    <3> QED  BY <2>3, <3>1 DEF Grows
  <2> HIDE DEF a, d
  <2>5. /\ g[n] \in Maps
        /\ start => Right(g[n]) /\ Grows(a, g[n])
    <3>1. /\ Door(draw, a, r, p, d) \in Maps
          /\ Right(a) /\ RoomAt(p) /\ a[p] = r =>
               Right(Door(draw, a, r, p, d)) /\ Grows(a, Door(draw, a, r, p, d))
      BY <2>1, <2>3, DoorFacts
    <3> QED  BY <2>2, <2>3, <2>4, <3>1
  <2>6. start => Grows(m, g[n])
    <3> HIDE DEF start
    <3> QED  BY <2>3, <2>5, GrowsOn
  <2> QED  BY <2>1, <2>5, <2>6
<1>8. 5 \in U
  <2> HIDE DEF U
  <2> QED  BY <1>6, <1>7, Upwards
<1> QED  BY <1>4, <1>8

\* The body of map_exits, with draw for the calls an exit further on.
Body(left, draw) ==
  [x \in Calls |->
     LET drawn == [x[1] EXCEPT ![x[3]] = x[2]]
     IN IF left = 0 THEN drawn ELSE Doors(draw, drawn, x[2], x[3])]

LEMMA BodyFacts ==
  ASSUME ExitsType, NEW left, NEW draw, left # 0 => Draws(draw)
  PROVE  Draws(Body(left, draw))
<1> USE AutomapAssumption
<1> DEFINE Drawn(x) == [x[1] EXCEPT ![x[3]] = x[2]]
<1>1. ASSUME NEW x \in Calls
      PROVE  /\ Body(left, draw)[x] \in Maps
             /\ RoomAt(x[3]) /\ Right(Drawn(x)) =>
                  Right(Body(left, draw)[x]) /\ Grows(Drawn(x), Body(left, draw)[x])
  <2> DEFINE d == Drawn(x)
  <2>1. x[1] \in Maps /\ x[2] \in Rooms /\ x[3] \in Points  BY DEF Calls
  <2>2. d \in Maps /\ d[x[3]] = x[2]  BY <2>1 DEF Maps
  <2>3. Body(left, draw)[x] = IF left = 0 THEN d ELSE Doors(draw, d, x[2], x[3])  BY DEF Body
  <2> HIDE DEF d
  <2>4. CASE left = 0
    <3>1. Grows(d, d)  BY DEF Grows
    <3> QED  BY <2>2, <2>3, <2>4, <3>1 DEF d
  <2>5. CASE left # 0
    <3>1. /\ Doors(draw, d, x[2], x[3]) \in Maps
          /\ Right(d) /\ RoomAt(x[3]) =>
               Right(Doors(draw, d, x[2], x[3])) /\ Grows(d, Doors(draw, d, x[2], x[3]))
      BY <2>1, <2>2, <2>5, DoorsFacts
    <3> QED  BY <2>3, <2>5, <3>1 DEF d
  <2> QED  BY <2>4, <2>5
<1>2. Body(left, draw) \in [Calls -> Maps]
  <2> DEFINE E(x) == LET drawn == [x[1] EXCEPT ![x[3]] = x[2]]
                     IN IF left = 0 THEN drawn ELSE Doors(draw, drawn, x[2], x[3])
  <2>1. Body(left, draw) = [x \in Calls |-> E(x)]  BY DEF Body
  <2>2. \A x \in Calls : E(x) \in Maps
    <3>1. \A x \in Calls : Body(left, draw)[x] = E(x)  BY <2>1
    <3> HIDE DEF E
    <3> QED  BY <1>1, <3>1
  <2> HIDE DEF E
  <2> QED  BY <2>1, <2>2
<1> QED  BY <1>1, <1>2 DEF Draws

LEMMA MapExitsFacts ==
  ASSUME ExitsType
  PROVE  \A left \in 0 .. MAXDEPTH : Draws(map_exits[left])
<1> USE AutomapAssumption
<1> DEFINE T == {draw \in [Calls -> Maps] : Draws(draw)}
           N == MAXDEPTH
           base == Body(0, <<>>)
           step == [draw \in T |-> Body(1, draw)]
           Is(f) == f = [left \in 0 .. MAXDEPTH |->
             [x \in Maps \X Rooms \X Points |->
               LET drawn == [x[1] EXCEPT ![x[3]] = x[2]]
               IN IF left = 0 THEN drawn ELSE Doors(f[left - 1], drawn, x[2], x[3])]]
<1>1. N \in Nat /\ base \in T
  <2>1. Draws(base)  BY BodyFacts
  <2> QED  BY <2>1 DEF Draws
<1>2. step \in [T -> T]
  <2>1. ASSUME NEW draw \in T PROVE Body(1, draw) \in T
    <3>1. Draws(Body(1, draw))  BY BodyFacts
    <3> QED  BY <3>1 DEF Draws
  <2> HIDE DEF T
  <2> QED  BY <2>1
<1>3. ASSUME NEW f, Is(f)
      PROVE  \A left \in 0 .. N : f[left] = IF left = 0 THEN base ELSE Body(1, f[left - 1])
  <2> SUFFICES ASSUME NEW left \in 0 .. N
               PROVE  f[left] = IF left = 0 THEN base ELSE Body(1, f[left - 1])
    OBVIOUS
  <2>1. f[left] = Body(left, f[left - 1])  BY <1>3 DEF Body, Calls
  <2>2. CASE left = 0
    <3>1. Body(0, f[left - 1]) = base  BY DEF Body
    <3> QED  BY <2>1, <2>2, <3>1
  <2>3. CASE left # 0
    <3>1. Body(left, f[left - 1]) = Body(1, f[left - 1])  BY <2>3 DEF Body
    <3> QED  BY <2>1, <2>3, <3>1
  <2> QED  BY <2>2, <2>3
<1>4. \E f : Is(f)
  <2>1. PICK f : f \in [0 .. N -> T] /\ f = [i \in 0 .. N |-> IF i = 0 THEN base ELSE step[f[i - 1]]]
    <3> HIDE DEF base, step, N, T, Is
    <3>1. \E f : Loop(f, N, T, base, step)  BY <1>1, <1>2, LoopExists
    <3> QED  BY <3>1 DEF Loop
  <2>2. ASSUME NEW i \in 0 .. N
        PROVE  f[i] = [x \in Maps \X Rooms \X Points |->
                         LET drawn == [x[1] EXCEPT ![x[3]] = x[2]]
                         IN IF i = 0 THEN drawn ELSE Doors(f[i - 1], drawn, x[2], x[3])]
    <3> SUFFICES f[i] = Body(i, f[i - 1])  BY DEF Body, Calls
    <3>1. CASE i = 0
      <4>1. f[i] = base  BY <2>1, <3>1
      <4>2. Body(0, f[i - 1]) = base  BY DEF Body
      <4> QED  BY <3>1, <4>1, <4>2
    <3>2. CASE i # 0
      <4>1. i - 1 \in 0 .. N  BY <3>2
      <4> HIDE DEF base
      <4>2. f[i] = step[f[i - 1]]  BY <2>1, <3>2
      <4>3. f[i - 1] \in T  BY <2>1, <4>1
      <4>4. f[i] = Body(1, f[i - 1])
        <5> HIDE DEF T
        <5> QED  BY <4>2, <4>3
      <4>5. Body(1, f[i - 1]) = Body(i, f[i - 1])  BY <3>2 DEF Body
      <4> QED  BY <4>4, <4>5
    <3> QED  BY <3>1, <3>2
  <2>3. f = [left \in 0 .. N |-> f[left]]
    <3> HIDE DEF base, step, T
    <3> QED  BY <2>1
  <2>4. Is(f)
    <3> HIDE DEF base, step, T
    <3> QED  BY <2>2, <2>3
  <2> QED  BY <2>4
<1> DEFINE g == CHOOSE f : Is(f)
<1>5. Is(g)
  <2> HIDE DEF Is
  <2> QED  BY <1>4
<1>6. map_exits = g  BY DEF map_exits
<1> HIDE DEF g
<1>7. \A left \in 0 .. N : g[left] = IF left = 0 THEN base ELSE Body(1, g[left - 1])
  <2> HIDE DEF Is, base
  <2> QED  BY <1>3, <1>5
<1> DEFINE U == {left \in 0 .. N : Draws(g[left])}
<1>8. 0 \in U
  <2>1. g[0] = base /\ 0 \in 0 .. N  BY <1>1, <1>7
  <2> QED  BY <1>1, <2>1
<1>9. \A left \in 1 .. N : left - 1 \in U => left \in U
  <2> SUFFICES ASSUME NEW left \in 1 .. N, left - 1 \in U PROVE left \in U  OBVIOUS
  <2>1. left \in 0 .. N /\ left # 0  BY <1>1
  <2>2. g[left] = Body(1, g[left - 1])  BY <1>7, <2>1
  <2>3. Draws(Body(1, g[left - 1]))
    <3> DEFINE draw == g[left - 1]
    <3>1. Draws(draw)  OBVIOUS
    <3> HIDE DEF draw
    <3>2. Draws(Body(1, draw))  BY <3>1, BodyFacts
    <3> QED  BY <3>2 DEF draw
  <2> QED  BY <2>1, <2>2, <2>3
<1>10. 0 .. N \subseteq U
  <2> HIDE DEF U, N
  <2> QED  BY <1>1, <1>8, <1>9, Upwards
<1> QED  BY <1>6, <1>10

-----------------------------------------------------------------------------
(* The map: the theorem.                                                   *)

AutomapInv == ExitsType /\ inRoom \in Rooms

LEMMA DrawMapFacts ==
  ASSUME AutomapInv
  PROVE  Right(draw_map)
<1> USE AutomapAssumption
<1>1. Blank \in Maps /\ \A p \in Points : Blank[p] = Nowhere  BY DEF Blank, Maps
<1>2. Middle \in Points /\ RoomAt(Middle)
  <2>1. \A M \in Nat : M \in 0 .. M * 2 /\ (M - M) % 2 = 0  OBVIOUS
  <2>2. Middle[1] = MAPX /\ Middle[2] = MAPY  BY DEF Middle
  <2> QED  BY <2>1, <2>2 DEF Middle, Points, RoomAt
<1>3. CASE inRoom \in Unseen
  <2>1. draw_map = Blank  BY <1>3 DEF draw_map
  <2> QED  BY <1>1, <2>1 DEF Right
<1>4. CASE inRoom \notin Unseen
  <2> DEFINE x == <<Blank, inRoom, Middle>>
             drawn == [Blank EXCEPT ![Middle] = inRoom]
             draw == map_exits[MAXDEPTH]
  <2>1. draw_map = draw[x]  BY <1>4 DEF draw_map
  <2>2. Draws(draw)
    <3>1. MAXDEPTH \in 0 .. MAXDEPTH  OBVIOUS
    <3> QED  BY <3>1, MapExitsFacts DEF AutomapInv
  <2>3. x \in Calls  BY <1>1, <1>2 DEF Calls, AutomapInv
  <2>4. Right(Blank)  BY <1>1 DEF Right
  <2>5. Led(drawn, Middle)  BY <1>2 DEF Led
  <2>6. Right(drawn)
    <3> HIDE DEF drawn
    <3>1. drawn = [Blank EXCEPT ![Middle] = inRoom]  BY DEF drawn
    <3> QED  BY <1>1, <1>2, <2>4, <2>5, <3>1, DrawnFacts DEF AutomapInv
  <2>7. Right(draw[x])
    <3>1. x[1] = Blank /\ x[2] = inRoom /\ x[3] = Middle  OBVIOUS
    <3> HIDE DEF x, draw
    <3> QED  BY <1>2, <2>2, <2>3, <2>6, <3>1 DEF Draws
  <2> QED  BY <2>1, <2>7
<1> QED  BY <1>3, <1>4

LEMMA AutomapNextInv == ASSUME AutomapInv, [AutomapNext]_automapVars PROVE AutomapInv'
<1> USE DEF AutomapInv, ExitsType
<1>1. CASE Dig  BY <1>1 DEF Dig
<1>2. CASE Move  BY <1>2 DEF Move
<1>3. CASE Fill  BY <1>3 DEF Fill, Dug
<1>4. CASE UNCHANGED automapVars  BY <1>4 DEF automapVars
<1> QED  BY <1>1, <1>2, <1>3, <1>4 DEF AutomapNext

\* map_exits: the map shows rooms where exits lead, for any graph of exits, however they
\* turn back on each other, and any depth; no room is drawn over another.
THEOREM RoomsStandRight == AutomapSpec => []RoomsAreWhereExitsLead
<1>1. AutomapInit => AutomapInv  BY DEF AutomapInit, AutomapInv, ExitsType
<1>2. AutomapInv => RoomsAreWhereExitsLead
  <2> SUFFICES ASSUME AutomapInv PROVE RoomsAreWhereExitsLead  OBVIOUS
  <2> DEFINE m == draw_map
  <2>1. Right(m)  BY DrawMapFacts
  <2>2. DOMAIN m = Points  BY <2>1 DEF Right, Maps
  <2> HIDE DEF m
  <2>3. \A p \in {p \in DOMAIN m : m[p] # Nowhere} : Led(m, p)  BY <2>1, <2>2 DEF Right
  <2> QED  BY <2>2, <2>3 DEF RoomsAreWhereExitsLead, Led, RoomAt, m
<1> QED  BY <1>1, <1>2, AutomapNextInv, PTL DEF AutomapSpec

-----------------------------------------------------------------------------
(* The importer: the inductive invariant.                                  *)

Parts == {"MOBILES", "OBJECTS", "ROOMS", "RESETS"}
Fields == {"npcs", "objects", "rooms"}

SubReset == [type : {"P", "G", "E"}, arg1 : ItemVnums, room : Nat, line : Nat, taken : BOOLEAN]
TmpReset == [type : {"M", "O", "D"}, arg1 : Nat, room : Nat, line : Nat, subs : Seq(SubReset)]
Area == [npcs : Seq(ItemVnums), objects : Seq(ItemVnums), rooms : Seq(Vnums)]

FileTypes ==
  /\ section \in Parts \cup {"no", "file"}
  /\ list \in BOOLEAN /\ stale \in BOOLEAN /\ freed \in BOOLEAN /\ lost \in BOOLEAN
  /\ import_areas \in Seq(Area)
  /\ indexes \in Indexes \cup {None}
  /\ temp_resets \in Seq(TmpReset)
  /\ last \in [iLastRoom : Nat, iLastObj : Nat, last_reset : Nat]
  /\ line \in Nat /\ after \in [line : Nat, taken : BOOLEAN]

\* A file that is open has indexes, a section that is read has an area.
Reading ==
  /\ section # "no" => indexes \in Indexes
  /\ section \in Parts /\ ~lost => import_areas # <<>>

\* The vnums of the records linked to the areas.
InAreas(field) == UNION {Range(area[field]) : area \in Range(import_areas)}

\* What an index finds will be saved.
Indexed ==
  indexes \in Indexes /\ ~freed /\ ~stale =>
    /\ indexes.npc \subseteq InAreas("npcs")
    /\ indexes.obj \subseteq InAreas("objects")
    /\ DOMAIN indexes.room \subseteq InAreas("rooms")

\* What a reset names was found by an index.
Checked(ix, res) ==
  /\ ix \in Indexes
  /\ res.type = "M" => res.arg1 \in ix.npc
  /\ res.type = "O" => res.arg1 \in ix.obj
  /\ \A j \in DOMAIN res.subs : res.subs[j].arg1 \in ix.obj

\* What goes with a reset is for its room, and was written after it.
Together(res) ==
  \A j \in DOMAIN res.subs :
    /\ res.subs[j].room = res.room
    /\ res.subs[j].taken => res.subs[j].line = res.line

Recorded == \A res \in Range(temp_resets) : Checked(indexes, res) /\ Together(res)

\* last_reset is never another than the newest reset, and iLastRoom and iLastObj are its.
Newest ==
  last.last_reset # 0 =>
    /\ last.last_reset = Len(temp_resets)
    /\ temp_resets[1].type = "M" => temp_resets[1].room = last.iLastRoom
    /\ temp_resets[1].type = "O" => temp_resets[1].room = last.iLastObj
    /\ after.taken => temp_resets[1].line = after.line

File == FileTypes /\ Reading /\ Indexed /\ Recorded /\ Newest

\* What a text can name when there are c rows of npcs and o of objects.
Row(c, o) == {n \in [table : {"character", "object"}, id : Nat] :
                n.id \in 1 .. (IF n.table = "character" THEN c ELSE o)}

\* The tables name rows only.
Game ==
  /\ tables.character \in Nat /\ tables.object \in Nat
  /\ tables.room \in Seq(Seq(Row(tables.character, tables.object)))
  /\ tables.exit \subseteq [from : DOMAIN tables.room, dir : Dirs, to : DOMAIN tables.room]
  /\ live \subseteq DOMAIN tables.room

IInv == File /\ Game

-----------------------------------------------------------------------------
(* The importer: what import_commit computes.                              *)

\* An id is among those given to what is saved, and not 0 for what is there.
LEMMA IdFacts ==
  ASSUME NEW E, NEW s \in Seq(E), NEW n \in Nat, NEW v
  PROVE  /\ IdAmong(v, s, n) \in 0 .. n + Len(s)
         /\ v \in Range(s) => IdAmong(v, s, n) \in 1 .. n + Len(s)
<1> DEFINE I == {i \in 1 .. Len(s) : s[i] = v}
           i0 == SelectInSeq(s, LAMBDA w : w = v)
<1>1. Len(s) \in Nat /\ DOMAIN s = 1 .. Len(s)  OBVIOUS
<1>2. i0 = IF I # {} THEN Min(I) ELSE 0  BY DEF SelectInSeq
<1>3. I # {} => Min(I) \in I
  <2> SUFFICES ASSUME I # {} PROVE Min(I) \in I  OBVIOUS
  <2>1. I \in SUBSET Nat  OBVIOUS
  <2> HIDE DEF I
  <2>2. PICK m \in I : \A k \in I : m <= k  BY <2>1, LeastNat
  <2> QED  BY <2>2 DEF Min
<1>4. v \in Range(s) => I # {}  BY <1>1 DEF Range
<1>5. i0 \in 0 .. Len(s) /\ (v \in Range(s) => i0 \in 1 .. Len(s))  BY <1>1, <1>2, <1>3, <1>4
<1>6. IdAmong(v, s, n) = IF i0 = 0 THEN 0 ELSE n + i0  BY DEF IdAmong
<1> HIDE DEF i0, I
<1> QED  BY <1>1, <1>5, <1>6

\* The records of all areas, in the order in which they are saved.
LEMMA OfFacts ==
  ASSUME import_areas \in Seq(Area)
  PROVE  /\ Of("npcs") \in Seq(ItemVnums) /\ Range(Of("npcs")) = InAreas("npcs")
         /\ Of("objects") \in Seq(ItemVnums) /\ Range(Of("objects")) = InAreas("objects")
         /\ Of("rooms") \in Seq(Vnums) /\ Range(Of("rooms")) = InAreas("rooms")
<1> DEFINE ss(field) == [i \in 1 .. Len(import_areas) |-> import_areas[i][field]]
<1>1. Len(import_areas) \in Nat /\ DOMAIN import_areas = 1 .. Len(import_areas)  OBVIOUS
<1>2. \A i \in 1 .. Len(import_areas) : import_areas[i] \in Area  OBVIOUS
<1>3. ASSUME NEW E, NEW field, \A i \in 1 .. Len(import_areas) : import_areas[i][field] \in Seq(E)
      PROVE  Of(field) \in Seq(E) /\ Range(Of(field)) = InAreas(field)
  <2>1. ss(field) \in Seq(Seq(E))  BY <1>1, <1>3
  <2>2. /\ FlattenSeq(ss(field)) \in Seq(E)
        /\ Range(FlattenSeq(ss(field))) = UNION {Range(ss(field)[i]) : i \in DOMAIN ss(field)}
    <3> HIDE DEF ss
    <3> QED  BY <2>1, FlattenFacts
  <2>3. UNION {Range(ss(field)[i]) : i \in DOMAIN ss(field)} = InAreas(field)
    BY <1>1 DEF InAreas, Range
  <2> QED  BY <2>2, <2>3 DEF Of
<1>4. \A i \in 1 .. Len(import_areas) : /\ import_areas[i]["npcs"] \in Seq(ItemVnums)
                                        /\ import_areas[i]["objects"] \in Seq(ItemVnums)
                                        /\ import_areas[i]["rooms"] \in Seq(Vnums)
  BY <1>2 DEF Area
<1> QED  BY <1>3, <1>4

\* The text of a reset names what has a row when the areas have been saved.
LEMMA TextFacts ==
  ASSUME IInv, indexes \in Indexes, ~stale, ~freed, NEW r
  PROVE  ResetText(r) \in Seq(Row(tables.character + Len(Of("npcs")),
                                  tables.object + Len(Of("objects"))))
<1> DEFINE c == tables.character + Len(Of("npcs"))
           o == tables.object + Len(Of("objects"))
           Name(table, v) == [table |-> table, id |-> ResetId(table, v)]
<1>1. /\ tables.character \in Nat /\ tables.object \in Nat
      /\ import_areas \in Seq(Area) /\ temp_resets \in Seq(TmpReset)
  BY DEF IInv, File, Game, FileTypes
<1>2. /\ Of("npcs") \in Seq(ItemVnums) /\ Range(Of("npcs")) = InAreas("npcs")
      /\ Of("objects") \in Seq(ItemVnums) /\ Range(Of("objects")) = InAreas("objects")
  BY <1>1, OfFacts
<1>3. indexes.npc \subseteq InAreas("npcs") /\ indexes.obj \subseteq InAreas("objects")
  BY DEF IInv, File, Indexed
<1>4. ASSUME NEW v \in indexes.npc PROVE Name("character", v) \in Row(c, o)
  <2>1. ResetId("character", v) = IdAmong(v, Of("npcs"), tables.character)  BY DEF ResetId
  <2>2. ResetId("character", v) \in 1 .. c  BY <1>1, <1>2, <1>3, <2>1, IdFacts
  <2> HIDE DEF c, o
  <2> QED  BY <2>2 DEF Row
<1>5. ASSUME NEW v \in indexes.obj PROVE Name("object", v) \in Row(c, o)
  <2>1. ResetId("object", v) = IdAmong(v, Of("objects"), tables.object)  BY DEF ResetId
  <2>2. ResetId("object", v) \in 1 .. o  BY <1>1, <1>2, <1>3, <2>1, IdFacts
  <2> HIDE DEF c, o
  <2> QED  BY <2>2 DEF Row
<1> HIDE DEF c, o
<1>6. ASSUME NEW res \in Range(temp_resets) PROVE import_finalize_reset(res) \in Seq(Row(c, o))
  <2>1. res \in TmpReset /\ Checked(indexes, res)
    BY <1>1 DEF IInv, File, Recorded, Range
  <2>2. CASE res.type = "D"
    <3>1. import_finalize_reset(res) = <<>>  BY <2>2 DEF import_finalize_reset
    <3> QED  BY <3>1
  <2>3. CASE res.type # "D"
    <3> DEFINE first == Name(IF res.type = "M" THEN "character" ELSE "object", res.arg1)
               subs == [i \in DOMAIN res.subs |-> Name("object", res.subs[i].arg1)]
    <3>1. first \in Row(c, o)
      <4>1. res.type \in {"M", "O"}  BY <2>1, <2>3 DEF TmpReset
      <4>2. CASE res.type = "M"
        <5>1. first = Name("character", res.arg1)  BY <4>2
        <5> QED  BY <1>4, <2>1, <4>2, <5>1 DEF Checked
      <4>3. CASE res.type = "O"
        <5>1. first = Name("object", res.arg1)  BY <4>3
        <5> QED  BY <1>5, <2>1, <4>3, <5>1 DEF Checked
      <4> QED  BY <4>1, <4>2, <4>3
    <3>2. subs \in Seq(Row(c, o))
      <4>1. DOMAIN res.subs = 1 .. Len(res.subs) /\ Len(res.subs) \in Nat
        <5>1. res.subs \in Seq(SubReset)  BY <2>1 DEF TmpReset
        <5> QED  BY <5>1
      <4>2. ASSUME NEW i \in DOMAIN res.subs PROVE Name("object", res.subs[i].arg1) \in Row(c, o)
        BY <1>5, <2>1 DEF Checked
      <4> HIDE DEF Name
      <4> QED  BY <4>1, <4>2
    <3>3. import_finalize_reset(res) = <<first>> \o subs  BY <2>3 DEF import_finalize_reset
    <3> HIDE DEF first, subs
    <3> QED  BY <3>1, <3>2, <3>3
  <2> QED  BY <2>2, <2>3
<1>7. CASE SelectLastInSeq(temp_resets, LAMBDA t : t.room = r) = 0
  <2>1. ResetText(r) = <<>>  BY <1>7 DEF ResetText
  <2> QED  BY <2>1 DEF c, o
<1>8. CASE SelectLastInSeq(temp_resets, LAMBDA t : t.room = r) # 0
  <2> DEFINE I == {i \in 1 .. Len(temp_resets) : temp_resets[i].room = r}
             i0 == SelectLastInSeq(temp_resets, LAMBDA t : t.room = r)
  <2>1. I # {} /\ i0 = Max(I)  BY <1>8 DEF SelectLastInSeq
  <2>2. Len(temp_resets) \in Nat /\ DOMAIN temp_resets = 1 .. Len(temp_resets)  BY <1>1
  <2>3. i0 \in 1 .. Len(temp_resets)
    <3>1. I \in SUBSET (1 .. Len(temp_resets))  OBVIOUS
    <3> HIDE DEF I
    <3>2. PICK m \in I : \A k \in I : m >= k  BY <2>1, <2>2, <3>1, GreatestNat
    <3>3. Max(I) \in I  BY <3>2 DEF Max
    <3> QED  BY <2>1, <3>1, <3>3
  <2>4. ResetText(r) = import_finalize_reset(temp_resets[i0])  BY <1>8 DEF ResetText
  <2> HIDE DEF i0
  <2>5. temp_resets[i0] \in Range(temp_resets)  BY <2>2, <2>3 DEF Range
  <2> QED  BY <1>6, <2>4, <2>5 DEF c, o
<1> QED  BY <1>7, <1>8

\* The exits that are saved join rooms of the game, of any of the areas.
LEMMA ExitFacts ==
  ASSUME IInv, indexes \in Indexes, ~stale, ~freed,
         NEW Rows, Rows = 1 .. Len(tables.room) + Len(Of("rooms"))
  PROVE  /\ \A i \in 1 .. Len(import_areas) + 1 : LiveAt(i) \subseteq Rows
         /\ \A i \in DOMAIN import_areas :
              import_finalize_exits(i) \subseteq [from : Rows, dir : Dirs, to : Rows]
<1>1. /\ Len(tables.room) \in Nat /\ live \subseteq 1 .. Len(tables.room)
      /\ import_areas \in Seq(Area)
  BY DEF IInv, File, Game, FileTypes
<1>2. Of("rooms") \in Seq(Vnums) /\ Range(Of("rooms")) = InAreas("rooms")  BY <1>1, OfFacts
<1>3. DOMAIN indexes.room \subseteq InAreas("rooms")  BY DEF IInv, File, Indexed
<1>4. Len(import_areas) \in Nat /\ DOMAIN import_areas = 1 .. Len(import_areas)
      /\ Len(Of("rooms")) \in Nat
  BY <1>1, <1>2
<1>5. ASSUME NEW v \in InAreas("rooms"), NEW i PROVE RoomId(v, i) \in Rows
  BY <1>1, <1>2, IdFacts DEF RoomId
<1>6. ASSUME NEW i \in 1 .. Len(import_areas) + 1 PROVE LiveAt(i) \subseteq Rows
  <2>1. \A j \in 1 .. i - 1 : j \in DOMAIN import_areas  BY <1>4
  <2>2. \A r \in UNION {Range(import_areas[j].rooms) : j \in 1 .. i - 1} : r \in InAreas("rooms")
    BY <2>1 DEF InAreas, Range
  <2>3. \A r \in UNION {Range(import_areas[j].rooms) : j \in 1 .. i - 1} : RoomId(r, i) \in Rows
    BY <1>5, <2>2
  <2>4. live \subseteq Rows  BY <1>1, <1>4
  <2> QED  BY <2>3, <2>4 DEF LiveAt
<1>7. ASSUME NEW i \in DOMAIN import_areas, NEW e \in import_finalize_exits(i)
      PROVE  e \in [from : Rows, dir : Dirs, to : Rows]
  <2> DEFINE To(v) == IF v \in DOMAIN indexes.room THEN RoomId(v, i)
                      ELSE IF v \in LiveAt(i) THEN v ELSE None
  <2>1. PICK p \in Range(import_areas[i].rooms) \X Dirs :
          /\ indexes.room[p[1]][p[2]] # None /\ To(indexes.room[p[1]][p[2]]) # None
          /\ e = [from |-> RoomId(p[1], i), dir |-> p[2], to |-> To(indexes.room[p[1]][p[2]])]
    BY DEF import_finalize_exits
  <2>2. p[1] \in InAreas("rooms") /\ p[2] \in Dirs
    <3>1. import_areas[i] \in Range(import_areas)  BY DEF Range
    <3> QED  BY <3>1 DEF InAreas
  <2>3. i \in 1 .. Len(import_areas) + 1  BY <1>4
  <2>4. ASSUME NEW v, To(v) # None PROVE To(v) \in Rows
    <3>1. CASE v \in DOMAIN indexes.room  BY <1>3, <1>5, <3>1
    <3>2. CASE v \notin DOMAIN indexes.room  BY <1>6, <2>3, <2>4, <3>2
    <3> QED  BY <3>1, <3>2
  <2> HIDE DEF To
  <2> QED  BY <1>5, <2>1, <2>2, <2>4
<1> QED  BY <1>6, <1>7

-----------------------------------------------------------------------------
(* The importer: reading of files.                                         *)

LEMMA GameKept ==
  ASSUME Game, UNCHANGED <<tables, live>>
  PROVE  Game'
BY DEF Game

LEMMA Prepended ==
  ASSUME NEW E, NEW x \in E, NEW s \in Seq(E)
  PROVE  /\ <<x>> \o s \in Seq(E) /\ Len(<<x>> \o s) = Len(s) + 1 /\ (<<x>> \o s)[1] = x
         /\ Range(<<x>> \o s) = {x} \cup Range(s)
<1>1. <<x>> \in Seq(E) /\ Len(<<x>>) = 1 /\ <<x>>[1] = x  OBVIOUS
<1>2. Range(<<x>>) = {x}  BY <1>1 DEF Range
<1> DEFINE a == <<x>>
<1> HIDE DEF a
<1>3. a \in Seq(E) /\ Range(a) = {x}  BY <1>1, <1>2 DEF a
<1>4. a \o s \in Seq(E) /\ Range(a \o s) = {x} \cup Range(s)  BY <1>3, ConcatRange
<1>5. <<x>> \o s \in Seq(E) /\ Range(<<x>> \o s) = {x} \cup Range(s)  BY <1>4 DEF a
<1>6. Len(<<x>> \o s) = Len(s) + 1 /\ (<<x>> \o s)[1] = x  OBVIOUS
<1> QED  BY <1>5, <1>6

LEMMA NothingRead ==
  /\ <<>> \in Seq(Area) /\ <<>> \in Seq(TmpReset)
  /\ NoResets \in [iLastRoom : Nat, iLastObj : Nat, last_reset : Nat]
  /\ [line |-> 0, taken |-> TRUE] \in [line : Nat, taken : BOOLEAN]
BY DEF NoResets

\* After import_cleanup nothing of the files is left.
LEMMA Cleaned ==
  ASSUME FileTypes, import_cleanup, section' = "no", list' \in BOOLEAN, lost' \in BOOLEAN,
         UNCHANGED line
  PROVE  File'
<1>1. FileTypes'
  <2>1. stale' \in BOOLEAN
    <3>1. stale' = (stale \/ import_areas # <<>>)  BY DEF import_cleanup
    <3> QED  BY <3>1, Zenon
  <2> QED  BY <2>1, NothingRead DEF FileTypes, import_cleanup
<1>2. indexes' \notin Indexes  BY ImporterAssumption DEF import_cleanup
<1>3. Reading' /\ Indexed'  BY <1>2 DEF Reading, Indexed, Parts
<1>4. Recorded' /\ Newest'  BY DEF import_cleanup, Recorded, Newest, NoResets, Range
<1> QED  BY <1>1, <1>3, <1>4 DEF File

LEMMA InitIInv == Init => IInv
<1> SUFFICES ASSUME Init PROVE IInv  OBVIOUS
<1>1. FileTypes  BY NothingRead DEF Init, FileTypes
<1>2. indexes \notin Indexes  BY ImporterAssumption DEF Init
<1>3. Reading /\ Indexed  BY <1>2 DEF Init, Reading, Indexed, Parts
<1>4. Recorded /\ Newest  BY DEF Init, Recorded, Newest, NoResets, Range
<1>5. Game
  <2>1. tables.room = <<<<>>>> /\ tables.character = 0 /\ tables.object = 0 /\ tables.exit = {}
    BY DEF Init
  <2>2. tables.room \in Seq(Seq(Row(0, 0))) /\ DOMAIN tables.room = {1}  BY <2>1
  <2> QED  BY <2>1, <2>2 DEF Init, Game
<1> QED  BY <1>1, <1>3, <1>4, <1>5 DEF IInv, File

LEMMA StepRestart == IInv /\ Restart => IInv'
<1> SUFFICES ASSUME IInv, Restart PROVE IInv'  OBVIOUS
<1>1. FileTypes'  BY NothingRead DEF IInv, File, Restart, MemoryCleared, FileTypes
<1>2. indexes' \notin Indexes  BY ImporterAssumption DEF Restart, MemoryCleared
<1>3. Reading' /\ Indexed'  BY <1>2 DEF Restart, MemoryCleared, Reading, Indexed, Parts
<1>4. Recorded' /\ Newest'  BY DEF Restart, MemoryCleared, Recorded, Newest, NoResets, Range
<1>5. Game'  BY DEF IInv, Game, Restart
<1> QED  BY <1>1, <1>3, <1>4, <1>5 DEF IInv, File

\* What does not touch areas, indexes and resets.
LEMMA SectionsKeep ==
  ASSUME IInv, UNCHANGED <<areas, indexes, freed, temp_resets, tables, live>>,
         section' \in Parts \cup {"no", "file"}, list' \in BOOLEAN, lost' \in BOOLEAN,
         line' \in Nat,
         \/ last' = last /\ after' = after
         \/ last' = NoResets /\ after' = [line |-> 0, taken |-> TRUE],
         section' # "no" => indexes \in Indexes,
         section' \in Parts /\ ~lost' => import_areas # <<>>
  PROVE  IInv'
<1>1. FileTypes'
  <2>1. last' \in [iLastRoom : Nat, iLastObj : Nat, last_reset : Nat]
        /\ after' \in [line : Nat, taken : BOOLEAN]
    BY NothingRead DEF IInv, File, FileTypes
  <2>2. import_areas' = import_areas /\ stale' = stale /\ indexes' = indexes /\ freed' = freed
        /\ temp_resets' = temp_resets
    BY DEF areas
  <2> QED  BY <2>1, <2>2 DEF IInv, File, FileTypes
<1>2. Reading'  BY DEF Reading, areas
<1>3. Indexed'  BY DEF IInv, File, Indexed, InAreas, areas
<1>4. Recorded'  BY DEF IInv, File, Recorded, Checked, Together
<1>5. Newest'  BY DEF IInv, File, Newest, NoResets
<1>6. Game'  BY GameKept DEF IInv
<1> QED  BY <1>1, <1>2, <1>3, <1>4, <1>5, <1>6 DEF IInv, File

LEMMA StepSections ==
  ASSUME IInv
  PROVE  /\ \A s \in Parts : Section(s) => IInv'
         /\ EndSection => IInv'
         /\ EndFile => IInv'
<1>0. line \in Nat /\ list \in BOOLEAN /\ lost \in BOOLEAN  BY DEF IInv, File, FileTypes
<1>1. ASSUME NEW s \in Parts, Section(s) PROVE IInv'
  <2>1. UNCHANGED <<areas, indexes, freed, temp_resets, tables, live>> /\ line' \in Nat
        /\ list' \in BOOLEAN /\ lost' \in BOOLEAN
    BY <1>0, <1>1 DEF Section
  <2>2. section' \in Parts \cup {"no", "file"} /\ indexes \in Indexes
    BY <1>1 DEF Section, IInv, File, Reading
  <2>3. section' \in Parts /\ ~lost' => import_areas # <<>>  BY <1>1 DEF Section, Parts
  <2>4. last' = NoResets /\ after' = [line |-> 0, taken |-> TRUE]  BY <1>1 DEF Section
  <2> QED  BY <2>1, <2>2, <2>3, <2>4, SectionsKeep
<1>2. ASSUME EndSection PROVE IInv'
  <2>1. UNCHANGED <<areas, indexes, freed, temp_resets, last, tables, live, after>> /\ line' \in Nat
        /\ list' \in BOOLEAN /\ lost' \in BOOLEAN /\ section' = "file"
    BY <1>0, <1>2 DEF EndSection, Returns
  <2>2. indexes \in Indexes  BY <1>2 DEF EndSection, IInv, File, Reading
  <2>3. "file" \notin Parts  BY DEF Parts
  <2>4. last' = last /\ after' = after  BY <2>1
  <2> QED  BY <2>1, <2>2, <2>3, <2>4, SectionsKeep
<1>3. ASSUME EndFile PROVE IInv'
  <2>1. UNCHANGED <<areas, indexes, freed, temp_resets, last, tables, live, after>> /\ line' \in Nat
        /\ list' \in BOOLEAN /\ lost' \in BOOLEAN /\ section' = "no"
    BY <1>0, <1>3 DEF EndFile
  <2>2. "no" \notin Parts  BY DEF Parts
  <2>3. last' = last /\ after' = after  BY <2>1
  <2> QED  BY <2>1, <2>2, <2>3, SectionsKeep
<1> QED  BY <1>1, <1>2, <1>3

LEMMA StepFileFails == IInv /\ FileFails => IInv'
<1> SUFFICES ASSUME IInv, FileFails PROVE IInv'  OBVIOUS
<1>1. FileTypes  BY DEF IInv, File
<1>2. import_cleanup /\ section' = "no" /\ UNCHANGED <<list, tables, live, line>>  BY DEF FileFails
<1>3. list' \in BOOLEAN /\ lost' \in BOOLEAN
  <2>1. list \in BOOLEAN /\ freed \in BOOLEAN  BY <1>1 DEF FileTypes
  <2>2. list' = list /\ lost' \in {list, list \/ freed}  BY DEF FileFails
  <2> QED  BY <2>1, <2>2
<1> QED  BY <1>1, <1>2, <1>3, Cleaned, GameKept DEF IInv

LEMMA StepFile == IInv /\ import_rom_file => IInv'
<1> SUFFICES ASSUME IInv, import_rom_file PROVE IInv'  OBVIOUS
<1>1. NoIndexes \in Indexes /\ NoIndexes.npc = {} /\ NoIndexes.obj = {} /\ DOMAIN NoIndexes.room = {}
  <2>1. <<>> \in [{} -> Exits]  OBVIOUS
  <2> QED  BY <2>1 DEF NoIndexes, Indexes
<1>2. /\ UNCHANGED <<areas, freed, temp_resets, last, tables, live, line, after, lost>>
      /\ section' = "file" /\ list' \in BOOLEAN
      /\ indexes' = IF indexes = None THEN NoIndexes ELSE indexes
  BY DEF import_rom_file
<1>3. FileTypes'  BY <1>1, <1>2 DEF IInv, File, FileTypes, areas
<1>4. Reading'  BY <1>1, <1>2 DEF IInv, File, FileTypes, Reading, Parts
<1>5. CASE indexes = None
  <2>1. indexes \notin Indexes  BY <1>5, ImporterAssumption
  <2>2. Indexed'  BY <1>1, <1>2, <1>5 DEF Indexed
  <2>3. Recorded'  BY <1>2, <2>1 DEF IInv, File, Recorded, Checked
  <2>4. Newest'  BY <1>2 DEF IInv, File, Newest
  <2> QED  BY <1>2, <1>3, <1>4, <2>2, <2>3, <2>4, GameKept DEF IInv, File
<1>6. CASE indexes # None
  <2>1. indexes' = indexes  BY <1>2, <1>6
  <2>2. Indexed'  BY <1>2, <2>1 DEF IInv, File, Indexed, InAreas, areas
  <2>3. Recorded'  BY <1>2, <2>1 DEF IInv, File, Recorded, Checked, Together
  <2>4. Newest'  BY <1>2 DEF IInv, File, Newest
  <2> QED  BY <1>2, <1>3, <1>4, <2>2, <2>3, <2>4, GameKept DEF IInv, File
<1> QED  BY <1>5, <1>6

-----------------------------------------------------------------------------
(* The importer: areas and their records.                                  *)

LEMMA StepArea == IInv /\ import_rom_area => IInv'
<1> SUFFICES ASSUME IInv, import_rom_area PROVE IInv'  OBVIOUS
<1>1. /\ UNCHANGED <<section, list, stale, indexes, freed, temp_resets, last, tables, live, after, lost>>
      /\ section = "file" /\ line' = line + 1
      /\ import_areas' = <<NewArea>> \o import_areas
  BY DEF import_rom_area, Reads, reading
<1>2. NewArea \in Area /\ import_areas \in Seq(Area)
  <2>1. <<>> \in Seq(ItemVnums) /\ <<>> \in Seq(Vnums)  OBVIOUS
  <2>2. NewArea \in Area  BY <2>1 DEF NewArea, Area
  <2> QED  BY <2>2 DEF IInv, File, FileTypes
<1>3. import_areas' \in Seq(Area) /\ Range(import_areas') = {NewArea} \cup Range(import_areas)
  BY <1>1, <1>2, Prepended
<1>4. FileTypes'  BY <1>1, <1>3 DEF IInv, File, FileTypes
<1>5. Reading'  BY <1>1 DEF IInv, File, Reading, Parts
<1>6. \A f \in Fields : InAreas(f) \subseteq InAreas(f)'  BY <1>3 DEF InAreas
<1>7. Indexed'  BY <1>1, <1>6 DEF IInv, File, Indexed, Fields
<1>8. Recorded' /\ Newest'  BY <1>1 DEF IInv, File, Recorded, Newest, Checked, Together
<1> QED  BY <1>1, <1>4, <1>5, <1>7, <1>8, GameKept DEF IInv, File

\* A record that is linked to its area stands there, with all that stood there.
LEMMA InAreaFacts ==
  ASSUME import_areas \in Seq(Area), import_areas # <<>>, NEW field \in Fields, NEW v,
         field = "rooms" => v \in Vnums, field # "rooms" => v \in ItemVnums,
         InArea(field, v)
  PROVE  /\ import_areas' \in Seq(Area) /\ import_areas' # <<>> /\ stale' = stale
         /\ \A f \in Fields : InAreas(f) \subseteq InAreas(f)'
         /\ v \in InAreas(field)'
<1> DEFINE a == import_areas[1]
           x == <<v>> \o a[field]
           b == [a EXCEPT ![field] = x]
           V(f) == IF f = "rooms" THEN Vnums ELSE ItemVnums
<1>1. Len(import_areas) \in Nat \ {0} /\ DOMAIN import_areas = 1 .. Len(import_areas)  OBVIOUS
<1>2. a \in Area /\ 1 \in DOMAIN import_areas  BY <1>1
<1>3. \A f \in Fields : a[f] \in Seq(V(f)) /\ v \in V(field)
  BY <1>2 DEF Area, Fields
<1>4. x \in Seq(V(field)) /\ Range(x) = {v} \cup Range(a[field])
  <2> HIDE DEF a, V
  <2> QED  BY <1>3, Prepended
<1>5. import_areas' = [import_areas EXCEPT ![1] = b] /\ stale' = stale  BY DEF InArea
<1>6. b \in Area /\ (\A f \in Fields : Range(a[f]) \subseteq Range(b[f])) /\ v \in Range(b[field])
  <2>1. DOMAIN a = Fields /\ a = [f \in Fields |-> a[f]]  BY <1>2 DEF Area, Fields
  <2> HIDE DEF a, x
  <2>2. \A f \in Fields : b[f] = IF f = field THEN x ELSE a[f]  BY <2>1
  <2>3. DOMAIN b = Fields  BY <2>1
  <2> HIDE DEF b
  <2>4. \A f \in Fields : b[f] \in Seq(V(f))  BY <1>3, <1>4, <2>2
  <2>5. b \in Area
    <3>1. /\ b["npcs"] \in Seq(ItemVnums) /\ b["objects"] \in Seq(ItemVnums)
          /\ b["rooms"] \in Seq(Vnums)
      BY <2>4 DEF Fields
    <3>2. b = [f \in Fields |-> b[f]]
      <4>1. [a EXCEPT ![field] = x] = [f \in Fields |-> [a EXCEPT ![field] = x][f]]  BY <2>1
      <4> QED  BY <4>1 DEF b
    <3> QED  BY <2>3, <3>1, <3>2 DEF Area, Fields
  <2> QED  BY <1>4, <2>2, <2>5
<1> HIDE DEF a, b
<1>7. import_areas' \in Seq(Area) /\ Len(import_areas') = Len(import_areas)
      /\ (\A k \in DOMAIN import_areas : import_areas'[k] = IF k = 1 THEN b ELSE import_areas[k])
  BY <1>1, <1>5, <1>6
<1>8. ASSUME NEW f \in Fields, NEW w \in InAreas(f) PROVE w \in InAreas(f)'
  <2>1. PICK k \in DOMAIN import_areas : w \in Range(import_areas[k][f])  BY DEF InAreas, Range
  <2>2. w \in Range(import_areas'[k][f])  BY <1>6, <1>7, <2>1 DEF a
  <2>3. import_areas'[k] \in Range(import_areas')  BY <1>1, <1>7 DEF Range
  <2> QED  BY <2>2, <2>3 DEF InAreas
<1>9. v \in InAreas(field)'
  <2>1. import_areas'[1] \in Range(import_areas') /\ import_areas'[1] = b
    BY <1>1, <1>2, <1>7 DEF Range
  <2> QED  BY <1>6, <2>1 DEF InAreas
<1>10. import_areas' # <<>>  BY <1>1, <1>7
<1> QED  BY <1>5, <1>7, <1>8, <1>9, <1>10

\* A record was put into its index.
LEMMA IndexGrows ==
  ASSUME IInv, NEW s \in Parts, Reads(s), indexes' \in Indexes,
         indexes.npc \subseteq indexes'.npc, indexes.obj \subseteq indexes'.obj,
         import_areas' \in Seq(Area), import_areas' # <<>>, stale' = stale, freed' \in BOOLEAN,
         Indexed', section' \in Parts \cup {"file"}, list' = list,
         UNCHANGED <<temp_resets, last, tables, live, after, lost>>
  PROVE  IInv'
<1>1. line' \in Nat  BY DEF IInv, File, FileTypes, Reads
<1>2. FileTypes'  BY <1>1 DEF IInv, File, FileTypes
<1>3. Reading'  BY DEF Reading
<1>4. Recorded'
  <2> SUFFICES ASSUME NEW res \in Range(temp_resets) PROVE Checked(indexes', res) /\ Together(res)
    BY DEF Recorded, Together
  <2>1. Checked(indexes, res) /\ Together(res)  BY DEF IInv, File, Recorded
  <2> QED  BY <2>1 DEF Checked
<1>5. Newest'  BY DEF IInv, File, Newest
<1> QED  BY <1>2, <1>3, <1>4, <1>5, GameKept DEF IInv, File

\* A vnum twice leaves the section and changes nothing.
LEMMA Duplicated ==
  ASSUME IInv, NEW s \in Parts, Reads(s), Returns,
         UNCHANGED <<areas, indexes, freed, temp_resets, last, tables, live, after, lost>>
  PROVE  IInv'
<1>1. line' \in Nat /\ list' \in BOOLEAN /\ lost' \in BOOLEAN
  BY DEF IInv, File, FileTypes, Reads, Returns
<1>2. section' = "file" /\ indexes \in Indexes
  BY DEF IInv, File, Reading, Reads, Returns, Parts
<1>3. "file" \notin Parts  BY DEF Parts
<1>4. last' = last /\ after' = after  OBVIOUS
<1> QED  BY <1>1, <1>2, <1>3, <1>4, SectionsKeep

\* What is known while a section is read.
LEMMA InSection ==
  ASSUME IInv, NEW s \in Parts, Reads(s)
  PROVE  /\ indexes \in Indexes /\ import_areas \in Seq(Area) /\ import_areas # <<>>
         /\ freed \in BOOLEAN /\ section = s /\ Indexed
         /\ indexes.npc \subseteq ItemVnums /\ indexes.obj \subseteq ItemVnums
BY DEF IInv, File, FileTypes, Reading, Reads, Parts, Indexes

LEMMA RoomRead ==
  ASSUME NEW v \in Vnums \cup ItemVnums, NEW leads \in Exits, indexes \in Indexes
  PROVE  /\ [indexes EXCEPT !.room = WithRoom(v, leads)] \in Indexes
         /\ DOMAIN WithRoom(v, leads) = DOMAIN indexes.room \cup {v}
<1> DEFINE rs == indexes.room
           new == WithRoom(v, leads)
<1>1. PICK vs \in SUBSET (Vnums \cup ItemVnums) : rs \in [vs -> Exits]  BY DEF Indexes
<1>2. DOMAIN rs = vs /\ \A w \in vs : rs[w] \in Exits  BY <1>1
<1>3. new \in [vs \cup {v} -> Exits]
  <2> HIDE DEF rs
  <2> QED  BY <1>2 DEF WithRoom, rs
<1>4. vs \cup {v} \in SUBSET (Vnums \cup ItemVnums)  OBVIOUS
<1> HIDE DEF new
<1>5. new \in UNION {[ws -> Exits] : ws \in SUBSET (Vnums \cup ItemVnums)}  BY <1>3, <1>4
<1>6. [indexes EXCEPT !.room = new] \in Indexes  BY <1>5 DEF Indexes
<1> QED  BY <1>2, <1>3, <1>6 DEF new

LEMMA StepMobiles ==
  ASSUME IInv, NEW v \in ItemVnums, import_rom_mobiles(v)
  PROVE  IInv'
<1>1. Reads("MOBILES") /\ "MOBILES" \in Parts /\ "npcs" \in Fields /\ "npcs" # "rooms"
      /\ UNCHANGED <<freed, temp_resets, last, tables, live, after, lost>>
  BY DEF import_rom_mobiles, Parts, Fields
<1>2. CASE v \in indexes.npc
  <2>1. Returns /\ UNCHANGED <<areas, indexes>>  BY <1>2 DEF import_rom_mobiles
  <2> QED  BY <1>1, <2>1, Duplicated
<1>3. CASE v \notin indexes.npc
  <2>1. indexes' = [indexes EXCEPT !.npc = @ \cup {v}] /\ InArea("npcs", v) /\ UNCHANGED reading
    BY <1>3 DEF import_rom_mobiles
  <2>2. /\ indexes \in Indexes /\ import_areas \in Seq(Area) /\ import_areas # <<>> /\ Indexed
        /\ freed \in BOOLEAN /\ section = "MOBILES"
    BY <1>1, InSection
  <2>3. /\ import_areas' \in Seq(Area) /\ import_areas' # <<>> /\ stale' = stale
        /\ \A f \in Fields : InAreas(f) \subseteq InAreas(f)'
        /\ v \in InAreas("npcs")'
    BY <1>1, <2>1, <2>2, InAreaFacts
  <2>4. /\ indexes' \in Indexes /\ indexes'.npc = indexes.npc \cup {v}
        /\ indexes'.obj = indexes.obj /\ indexes'.room = indexes.room
    BY <2>1, <2>2 DEF Indexes
  <2>5. Indexed'  BY <1>1, <2>2, <2>3, <2>4 DEF Indexed, Fields
  <2>6. section' = section /\ list' = list  BY <2>1 DEF reading
  <2> QED  BY <1>1, <2>2, <2>3, <2>4, <2>5, <2>6, IndexGrows
<1> QED  BY <1>2, <1>3

LEMMA StepObjects ==
  ASSUME IInv, NEW v \in ItemVnums, import_rom_objects(v)
  PROVE  IInv'
<1>1. Reads("OBJECTS") /\ "OBJECTS" \in Parts /\ "objects" \in Fields /\ "objects" # "rooms"
      /\ UNCHANGED <<freed, temp_resets, last, tables, live, after, lost>>
  BY DEF import_rom_objects, Parts, Fields
<1>2. CASE v \in indexes.obj
  <2>1. Returns /\ UNCHANGED <<areas, indexes>>  BY <1>2 DEF import_rom_objects
  <2> QED  BY <1>1, <2>1, Duplicated
<1>3. CASE v \notin indexes.obj
  <2>1. indexes' = [indexes EXCEPT !.obj = @ \cup {v}] /\ InArea("objects", v) /\ UNCHANGED reading
    BY <1>3 DEF import_rom_objects
  <2>2. /\ indexes \in Indexes /\ import_areas \in Seq(Area) /\ import_areas # <<>> /\ Indexed
        /\ freed \in BOOLEAN /\ section = "OBJECTS"
    BY <1>1, InSection
  <2>3. /\ import_areas' \in Seq(Area) /\ import_areas' # <<>> /\ stale' = stale
        /\ \A f \in Fields : InAreas(f) \subseteq InAreas(f)'
        /\ v \in InAreas("objects")'
    BY <1>1, <2>1, <2>2, InAreaFacts
  <2>4. /\ indexes' \in Indexes /\ indexes'.obj = indexes.obj \cup {v}
        /\ indexes'.npc = indexes.npc /\ indexes'.room = indexes.room
    BY <2>1, <2>2 DEF Indexes
  <2>5. Indexed'  BY <1>1, <2>2, <2>3, <2>4 DEF Indexed, Fields
  <2>6. section' = section /\ list' = list  BY <2>1 DEF reading
  <2> QED  BY <1>1, <2>2, <2>3, <2>4, <2>5, <2>6, IndexGrows
<1> QED  BY <1>2, <1>3

LEMMA StepRooms ==
  ASSUME IInv, NEW v \in Vnums, NEW leads \in Exits, import_rom_rooms(v, leads)
  PROVE  IInv'
<1>1. Reads("ROOMS") /\ "ROOMS" \in Parts /\ "rooms" \in Fields
      /\ UNCHANGED <<freed, temp_resets, last, tables, live, after, lost>>
  BY DEF import_rom_rooms, Parts, Fields
<1>2. CASE v \in DOMAIN indexes.room
  <2>1. Returns /\ UNCHANGED <<areas, indexes>>  BY <1>2 DEF import_rom_rooms
  <2> QED  BY <1>1, <2>1, Duplicated
<1>3. CASE v \notin DOMAIN indexes.room
  <2>1. /\ indexes' = [indexes EXCEPT !.room = WithRoom(v, leads)]
        /\ InArea("rooms", v) /\ UNCHANGED reading
    BY <1>3 DEF import_rom_rooms
  <2>2. /\ indexes \in Indexes /\ import_areas \in Seq(Area) /\ import_areas # <<>> /\ Indexed
        /\ freed \in BOOLEAN /\ section = "ROOMS"
    BY <1>1, InSection
  <2>3. /\ import_areas' \in Seq(Area) /\ import_areas' # <<>> /\ stale' = stale
        /\ \A f \in Fields : InAreas(f) \subseteq InAreas(f)'
        /\ v \in InAreas("rooms")'
    BY <1>1, <2>1, <2>2, InAreaFacts
  <2>4. /\ indexes' \in Indexes /\ DOMAIN indexes'.room = DOMAIN indexes.room \cup {v}
        /\ indexes'.npc = indexes.npc /\ indexes'.obj = indexes.obj
    <3>1. indexes' \in Indexes /\ DOMAIN WithRoom(v, leads) = DOMAIN indexes.room \cup {v}
      BY <2>1, <2>2, RoomRead
    <3>2. indexes'.room = WithRoom(v, leads) /\ indexes'.npc = indexes.npc
          /\ indexes'.obj = indexes.obj
      BY <2>1, <2>2 DEF Indexes
    <3> QED  BY <3>1, <3>2
  <2>5. Indexed'  BY <1>1, <2>2, <2>3, <2>4 DEF Indexed, Fields
  <2>6. section' = section /\ list' = list  BY <2>1 DEF reading
  <2> QED  BY <1>1, <2>2, <2>3, <2>4, <2>5, <2>6, IndexGrows
<1> QED  BY <1>2, <1>3

LEMMA StepBadRecord ==
  ASSUME IInv, NEW v \in ItemVnums, BadRecord(v)
  PROVE  IInv'
<1>1. freed' = TRUE /\ Returns /\ UNCHANGED <<areas, temp_resets, last, tables, live, after, lost>>
  BY DEF BadRecord
<1>2. Indexed' /\ section' = "file" /\ list' = list /\ freed' \in BOOLEAN
      /\ import_areas' = import_areas /\ stale' = stale
  BY <1>1 DEF Indexed, Returns, areas
<1>3. ASSUME NEW s \in Parts, Reads(s), indexes' \in Indexes,
             indexes.npc \subseteq indexes'.npc, indexes.obj \subseteq indexes'.obj
      PROVE  IInv'
  <2>1. import_areas \in Seq(Area) /\ import_areas # <<>>  BY <1>3, InSection
  <2> QED  BY <1>1, <1>2, <1>3, <2>1, IndexGrows
<1>4. CASE Reads("MOBILES") /\ indexes' = [indexes EXCEPT !.npc = @ \cup {v}]
  <2>1. "MOBILES" \in Parts  BY DEF Parts
  <2>2. indexes \in Indexes  BY <1>4, <2>1, InSection
  <2>3. indexes' \in Indexes /\ indexes'.npc = indexes.npc \cup {v} /\ indexes'.obj = indexes.obj
    BY <1>4, <2>2 DEF Indexes
  <2> QED  BY <1>3, <1>4, <2>1, <2>3
<1>5. CASE Reads("OBJECTS") /\ indexes' = [indexes EXCEPT !.obj = @ \cup {v}]
  <2>1. "OBJECTS" \in Parts  BY DEF Parts
  <2>2. indexes \in Indexes  BY <1>5, <2>1, InSection
  <2>3. indexes' \in Indexes /\ indexes'.obj = indexes.obj \cup {v} /\ indexes'.npc = indexes.npc
    BY <1>5, <2>2 DEF Indexes
  <2> QED  BY <1>3, <1>5, <2>1, <2>3
<1>6. CASE Reads("ROOMS") /\ indexes' = [indexes EXCEPT !.room = WithRoom(v, [d \in Dirs |-> None])]
  <2>1. "ROOMS" \in Parts /\ [d \in Dirs |-> None] \in Exits  BY DEF Parts, Exits
  <2>2. indexes \in Indexes  BY <1>6, <2>1, InSection
  <2>3. indexes' \in Indexes  BY <1>6, <2>1, <2>2, RoomRead
  <2>4. indexes'.npc = indexes.npc /\ indexes'.obj = indexes.obj  BY <1>6, <2>2 DEF Indexes
  <2> QED  BY <1>3, <1>6, <2>1, <2>3, <2>4
<1> QED  BY <1>4, <1>5, <1>6 DEF BadRecord

-----------------------------------------------------------------------------
(* The importer: resets.                                                   *)

\* What a line of resets leaves alone.
LEMMA ResetsKeep ==
  ASSUME IInv, Reads("RESETS"),
         UNCHANGED <<reading, areas, indexes, freed, tables, live, lost>>,
         temp_resets' \in Seq(TmpReset), Recorded', Newest',
         last' \in [iLastRoom : Nat, iLastObj : Nat, last_reset : Nat],
         after' \in [line : Nat, taken : BOOLEAN]
  PROVE  IInv'
<1>1. line' \in Nat  BY DEF IInv, File, FileTypes, Reads
<1>2. FileTypes'  BY <1>1 DEF IInv, File, FileTypes, reading, areas
<1>3. Reading'  BY DEF IInv, File, Reading, reading, areas
<1>4. Indexed'  BY DEF IInv, File, Indexed, InAreas, areas
<1> QED  BY <1>2, <1>3, <1>4, GameKept DEF IInv, File

LEMMA InResets ==
  ASSUME IInv, Reads("RESETS")
  PROVE  /\ indexes \in Indexes /\ line' \in Nat /\ temp_resets \in Seq(TmpReset) /\ Recorded /\ Newest
         /\ last \in [iLastRoom : Nat, iLastObj : Nat, last_reset : Nat]
         /\ after \in [line : Nat, taken : BOOLEAN]
         /\ \A v \in Vnums \cup ItemVnums : v \in Nat
<1>1. "RESETS" \in Parts  BY DEF Parts
<1>2. indexes \in Indexes  BY <1>1, InSection
<1>3. FileTypes /\ Recorded /\ Newest  BY DEF IInv, File
<1>4. line' \in Nat  BY <1>3 DEF FileTypes, Reads
<1>5. \A v \in Vnums \cup ItemVnums : v \in Nat  BY ImporterAssumption
<1> QED  BY <1>2, <1>3, <1>4, <1>5 DEF FileTypes

\* A reset that names nothing, or a vnum that is not there.
LEMMA Dropped ==
  ASSUME IInv, Reads("RESETS"), Drops,
         UNCHANGED <<reading, areas, indexes, freed, last, tables, live, lost>>
  PROVE  IInv'
<1>1. after' = [line |-> line', taken |-> FALSE] /\ temp_resets' = temp_resets  BY DEF Drops
<1>2. after' \in [line : Nat, taken : BOOLEAN] /\ ~after'.taken  BY <1>1, InResets
<1>3. Recorded'  BY <1>1, InResets DEF Recorded, Checked, Together
<1>4. Newest'  BY <1>1, <1>2, InResets DEF Newest
<1> QED  BY <1>1, <1>2, <1>3, <1>4, InResets, ResetsKeep

\* A reset becomes the newest one, and last_reset.
LEMMA Linked ==
  ASSUME IInv, Reads("RESETS"), NEW type \in {"M", "O", "D"}, NEW v \in Nat, NEW r \in Nat,
         Links(type, v, r),
         type = "M" => v \in indexes.npc, type = "O" => v \in indexes.obj,
         last'.last_reset = Len(temp_resets) + 1,
         last' \in [iLastRoom : Nat, iLastObj : Nat, last_reset : Nat],
         type = "M" => last'.iLastRoom = r, type = "O" => last'.iLastObj = r,
         UNCHANGED <<reading, areas, indexes, freed, tables, live, lost>>
  PROVE  IInv'
<1> DEFINE x == Reset(type, v, r)
<1>1. temp_resets' = <<x>> \o temp_resets /\ after' = [line |-> line', taken |-> TRUE]  BY DEF Links
<1>2. /\ x \in TmpReset /\ x.type = type /\ x.arg1 = v /\ x.room = r /\ x.line = line'
      /\ x.subs = <<>>
  <2>1. <<>> \in Seq(SubReset)  OBVIOUS
  <2> QED  BY <2>1, InResets DEF Reset, TmpReset
<1> HIDE DEF x
<1>3. /\ temp_resets' \in Seq(TmpReset) /\ Len(temp_resets') = Len(temp_resets) + 1
      /\ temp_resets'[1] = x /\ Range(temp_resets') = {x} \cup Range(temp_resets)
  BY <1>1, <1>2, InResets, Prepended
<1>4. Recorded'
  <2>1. Checked(indexes', x) /\ Together(x)  BY <1>2, InResets DEF Checked, Together
  <2>2. ASSUME NEW res \in Range(temp_resets) PROVE Checked(indexes', res) /\ Together(res)
    BY InResets DEF Recorded, Checked
  <2> QED  BY <1>3, <2>1, <2>2 DEF Recorded, Together
<1>5. Newest'  BY <1>1, <1>2, <1>3 DEF Newest
<1>6. after' \in [line : Nat, taken : BOOLEAN]  BY <1>1, InResets
<1> QED  BY <1>3, <1>4, <1>5, <1>6, ResetsKeep

\* P, G and E change the newest reset or none.
LEMMA SubFacts ==
  ASSUME IInv, Reads("RESETS"), NEW type \in {"P", "G", "E"}, NEW rm \in Nat, NEW of,
         NEW v \in ItemVnums, Sub(type, rm, of, v),
         last.last_reset # 0 /\ temp_resets[1].type \in of => rm = temp_resets[1].room,
         UNCHANGED indexes
  PROVE  /\ temp_resets' \in Seq(TmpReset) /\ Recorded' /\ Len(temp_resets') = Len(temp_resets)
         /\ temp_resets' # temp_resets => last.last_reset # 0 /\ temp_resets[1].type \in of
         /\ last.last_reset # 0 => /\ temp_resets'[1].type = temp_resets[1].type
                                   /\ temp_resets'[1].room = temp_resets[1].room
                                   /\ temp_resets'[1].line = temp_resets[1].line
<1> DEFINE sub == [type |-> type, arg1 |-> v, room |-> rm,
                   line |-> after.line, taken |-> after.taken]
           old == temp_resets[1]
           subs == <<sub>> \o old.subs
           new == [old EXCEPT !.subs = subs]
           k == Len(temp_resets) + 1 - last.last_reset
           Finds == /\ v \in indexes.obj /\ rm \in DOMAIN indexes.room /\ last.last_reset # 0
                    /\ temp_resets[k].type \in of
<1>0. /\ indexes \in Indexes /\ temp_resets \in Seq(TmpReset) /\ Recorded /\ Newest
      /\ last.last_reset \in Nat /\ after.line \in Nat /\ after.taken \in BOOLEAN
  BY InResets
<1>1. Len(temp_resets) \in Nat /\ DOMAIN temp_resets = 1 .. Len(temp_resets)  BY <1>0
<1>2. temp_resets' = IF Finds THEN [temp_resets EXCEPT ![k].subs = <<sub>> \o @] ELSE temp_resets
  BY DEF Sub
<1>3. CASE ~ Finds
  <2>1. temp_resets' = temp_resets  BY <1>2, <1>3
  <2>2. Recorded'  BY <1>0, <2>1 DEF Recorded, Checked, Together
  <2> QED  BY <1>0, <2>1, <2>2
<1>4. CASE Finds
  <2>1. k = 1 /\ 1 \in DOMAIN temp_resets /\ last.last_reset # 0
    <3>1. last.last_reset # 0 /\ last.last_reset = Len(temp_resets)  BY <1>0, <1>4 DEF Newest
    <3> QED  BY <1>1, <3>1
  <2>2. old.type \in of /\ rm = old.room /\ v \in indexes.obj  BY <1>4, <2>1
  <2>3. temp_resets' = [temp_resets EXCEPT ![1] = new]
    <3>1. temp_resets' = [temp_resets EXCEPT ![k].subs = <<sub>> \o @]  BY <1>2, <1>4
    <3> HIDE DEF sub, k
    <3> QED  BY <2>1, <3>1
  <2>4. old \in TmpReset /\ old \in Range(temp_resets) /\ sub \in SubReset
    BY <1>0, <2>1 DEF Range, SubReset
  <2>5. Checked(indexes, old) /\ Together(old)  BY <1>0, <2>4 DEF Recorded
  <2>6. old.subs \in Seq(SubReset)  BY <2>4 DEF TmpReset
  <2>7. sub.arg1 = v /\ sub.room = rm /\ sub.taken = after.taken /\ sub.line = after.line  OBVIOUS
  <2>8. after.taken => old.line = after.line  BY <1>0, <2>1 DEF Newest
  <2> HIDE DEF sub, k, Finds, old
  <2>9. subs \in Seq(SubReset) /\ Range(subs) = {sub} \cup Range(old.subs)  BY <2>4, <2>6, Prepended
  <2> HIDE DEF subs
  <2>10. /\ new \in TmpReset /\ new.subs = subs /\ new.type = old.type /\ new.arg1 = old.arg1
         /\ new.room = old.room /\ new.line = old.line
    BY <2>4, <2>9 DEF TmpReset
  <2> HIDE DEF new
  <2>11. \A j \in DOMAIN subs : subs[j] \in {sub} \cup Range(old.subs)  BY <2>9 DEF Range
  <2>12. \A s \in Range(old.subs) : s.arg1 \in indexes.obj /\ s.room = old.room
                                    /\ (s.taken => s.line = old.line)
    BY <2>5 DEF Checked, Together, Range
  <2>13. Checked(indexes', new) /\ Together(new)
    <3>1. \A j \in DOMAIN subs : subs[j].arg1 \in indexes.obj  BY <2>2, <2>7, <2>11, <2>12
    <3>2. \A j \in DOMAIN subs : subs[j].room = old.room  BY <2>2, <2>7, <2>11, <2>12
    <3>3. \A j \in DOMAIN subs : subs[j].taken => subs[j].line = old.line
      BY <2>7, <2>8, <2>11, <2>12
    <3> QED  BY <2>5, <2>10, <3>1, <3>2, <3>3 DEF Checked, Together
  <2>14. /\ temp_resets' \in Seq(TmpReset) /\ Len(temp_resets') = Len(temp_resets)
         /\ temp_resets'[1] = new
    BY <1>0, <1>1, <2>1, <2>3, <2>10
  <2>15. \A res \in Range(temp_resets') : res = new \/ res \in Range(temp_resets)
    BY <1>1, <2>1, <2>3 DEF Range
  <2>16. Recorded'
    <3> SUFFICES ASSUME NEW res \in Range(temp_resets') PROVE Checked(indexes', res) /\ Together(res)
      BY DEF Recorded, Together
    <3>1. CASE res = new  BY <2>13, <3>1
    <3>2. CASE res \in Range(temp_resets)  BY <1>0, <3>2 DEF Recorded, Checked
    <3> QED  BY <2>15, <3>1, <3>2
  <2> QED  BY <2>1, <2>2, <2>10, <2>14, <2>16 DEF old
<1> QED  BY <1>3, <1>4

LEMMA StepResetM ==
  ASSUME IInv, NEW v \in ItemVnums, NEW r \in Vnums, ResetM(v, r)
  PROVE  IInv'
<1>1. Reads("RESETS") /\ UNCHANGED <<reading, areas, indexes, freed, tables, live, lost>>
  BY DEF ResetM
<1>2. v \in Nat /\ r \in Nat /\ last \in [iLastRoom : Nat, iLastObj : Nat, last_reset : Nat]
      /\ Len(temp_resets) \in Nat
  BY <1>1, InResets
<1>3. CASE v \in indexes.npc /\ r \in DOMAIN indexes.room
  <2>1. Links("M", v, r)
        /\ last' = [last EXCEPT !.iLastRoom = r, !.last_reset = Len(temp_resets) + 1]
    BY <1>3 DEF ResetM
  <2>2. /\ last' \in [iLastRoom : Nat, iLastObj : Nat, last_reset : Nat]
        /\ last'.last_reset = Len(temp_resets) + 1 /\ last'.iLastRoom = r
    <3> DEFINE n == Len(temp_resets) + 1
    <3>1. n \in Nat /\ last' = [last EXCEPT !.iLastRoom = r, !.last_reset = n]  BY <1>2, <2>1
    <3> HIDE DEF n
    <3>2. last' \in [iLastRoom : Nat, iLastObj : Nat, last_reset : Nat]
          /\ last'.last_reset = n /\ last'.iLastRoom = r
      BY <1>2, <3>1
    <3> QED  BY <3>2 DEF n
  <2> QED  BY <1>1, <1>2, <1>3, <2>1, <2>2, Linked
<1>4. CASE ~ (v \in indexes.npc /\ r \in DOMAIN indexes.room)
  <2>1. Drops /\ UNCHANGED last  BY <1>4 DEF ResetM
  <2> QED  BY <1>1, <2>1, Dropped
<1> QED  BY <1>3, <1>4

LEMMA StepResetO ==
  ASSUME IInv, NEW v \in ItemVnums, NEW r \in Vnums, ResetO(v, r)
  PROVE  IInv'
<1>1. Reads("RESETS") /\ UNCHANGED <<reading, areas, indexes, freed, tables, live, lost>>
  BY DEF ResetO
<1>2. v \in Nat /\ r \in Nat /\ last \in [iLastRoom : Nat, iLastObj : Nat, last_reset : Nat]
      /\ Len(temp_resets) \in Nat
  BY <1>1, InResets
<1>3. CASE v \in indexes.obj /\ r \in DOMAIN indexes.room
  <2>1. Links("O", v, r)
        /\ last' = [last EXCEPT !.iLastObj = r, !.last_reset = Len(temp_resets) + 1]
    BY <1>3 DEF ResetO
  <2>2. /\ last' \in [iLastRoom : Nat, iLastObj : Nat, last_reset : Nat]
        /\ last'.last_reset = Len(temp_resets) + 1 /\ last'.iLastObj = r
    <3> DEFINE n == Len(temp_resets) + 1
    <3>1. n \in Nat /\ last' = [last EXCEPT !.iLastObj = r, !.last_reset = n]  BY <1>2, <2>1
    <3> HIDE DEF n
    <3>2. last' \in [iLastRoom : Nat, iLastObj : Nat, last_reset : Nat]
          /\ last'.last_reset = n /\ last'.iLastObj = r
      BY <1>2, <3>1
    <3> QED  BY <3>2 DEF n
  <2> QED  BY <1>1, <1>2, <1>3, <2>1, <2>2, Linked
<1>4. CASE ~ (v \in indexes.obj /\ r \in DOMAIN indexes.room)
  <2>1. Drops /\ UNCHANGED last  BY <1>4 DEF ResetO
  <2> QED  BY <1>1, <2>1, Dropped
<1> QED  BY <1>3, <1>4

LEMMA StepResetD ==
  ASSUME IInv, NEW r \in Vnums, ResetD(r)
  PROVE  IInv'
<1>1. Reads("RESETS") /\ UNCHANGED <<reading, areas, indexes, freed, tables, live, lost>>
  BY DEF ResetD
<1>2. r \in Nat /\ last \in [iLastRoom : Nat, iLastObj : Nat, last_reset : Nat]
      /\ Len(temp_resets) \in Nat
  BY <1>1, InResets
<1>3. CASE Links("D", 0, r) /\ last' = [last EXCEPT !.last_reset = Len(temp_resets) + 1]
  <2>1. /\ last' \in [iLastRoom : Nat, iLastObj : Nat, last_reset : Nat]
        /\ last'.last_reset = Len(temp_resets) + 1
    BY <1>2, <1>3
  <2> QED  BY <1>1, <1>2, <1>3, <2>1, Linked
<1>4. CASE Drops /\ UNCHANGED last  BY <1>1, <1>4, Dropped
<1> QED  BY <1>3, <1>4 DEF ResetD

LEMMA StepResetP ==
  ASSUME IInv, NEW v \in ItemVnums, ResetP(v)
  PROVE  IInv'
<1> DEFINE of == {"O", "G", "E"}
<1>1. /\ Reads("RESETS") /\ Sub("P", last.iLastObj, of, v)
      /\ UNCHANGED <<reading, areas, indexes, freed, last, tables, live, after, lost>>
  BY DEF ResetP
<1>2. /\ last \in [iLastRoom : Nat, iLastObj : Nat, last_reset : Nat] /\ Newest
      /\ after \in [line : Nat, taken : BOOLEAN] /\ temp_resets \in Seq(TmpReset)
  BY <1>1, InResets
<1>3. last.last_reset # 0 /\ temp_resets[1].type \in of => last.iLastObj = temp_resets[1].room
  <2> SUFFICES ASSUME last.last_reset # 0, temp_resets[1].type \in of
               PROVE  last.iLastObj = temp_resets[1].room
    OBVIOUS
  <2>1. temp_resets[1] \in TmpReset  BY <1>2 DEF Newest
  <2>2. temp_resets[1].type = "O"  BY <2>1 DEF TmpReset
  <2> QED  BY <1>2, <2>2 DEF Newest
<1> HIDE DEF of
<1>4. last.iLastObj \in Nat  BY <1>2
<1>5. /\ temp_resets' \in Seq(TmpReset) /\ Recorded' /\ Len(temp_resets') = Len(temp_resets)
      /\ last.last_reset # 0 => /\ temp_resets'[1].type = temp_resets[1].type
                                /\ temp_resets'[1].room = temp_resets[1].room
                                /\ temp_resets'[1].line = temp_resets[1].line
  BY <1>1, <1>3, <1>4, SubFacts
<1>6. Newest'  BY <1>1, <1>2, <1>5 DEF Newest
<1> QED  BY <1>1, <1>2, <1>5, <1>6, ResetsKeep

LEMMA StepResetGive ==
  ASSUME IInv, NEW type \in {"G", "E"}, NEW v \in ItemVnums, ResetGive(type, v)
  PROVE  IInv'
<1>1. /\ Reads("RESETS") /\ Sub(type, last.iLastRoom, {"M"}, v)
      /\ last' = IF temp_resets' # temp_resets THEN [last EXCEPT !.iLastObj = last.iLastRoom] ELSE last
      /\ UNCHANGED <<reading, areas, indexes, freed, tables, live, after, lost>>
  BY DEF ResetGive
<1>2. /\ last \in [iLastRoom : Nat, iLastObj : Nat, last_reset : Nat] /\ Newest
      /\ after \in [line : Nat, taken : BOOLEAN] /\ temp_resets \in Seq(TmpReset)
  BY <1>1, InResets
<1>3. last.last_reset # 0 /\ temp_resets[1].type \in {"M"} => last.iLastRoom = temp_resets[1].room
  BY <1>2 DEF Newest
<1>4. last.iLastRoom \in Nat  BY <1>2
<1>5. /\ temp_resets' \in Seq(TmpReset) /\ Recorded' /\ Len(temp_resets') = Len(temp_resets)
      /\ temp_resets' # temp_resets => last.last_reset # 0 /\ temp_resets[1].type \in {"M"}
      /\ last.last_reset # 0 => /\ temp_resets'[1].type = temp_resets[1].type
                                /\ temp_resets'[1].room = temp_resets[1].room
                                /\ temp_resets'[1].line = temp_resets[1].line
  BY <1>1, <1>3, <1>4, SubFacts
<1>6. /\ last' \in [iLastRoom : Nat, iLastObj : Nat, last_reset : Nat]
      /\ last'.last_reset = last.last_reset /\ last'.iLastRoom = last.iLastRoom
      /\ temp_resets[1].type = "O" => last'.iLastObj = last.iLastObj
  BY <1>1, <1>2, <1>5
<1>7. Newest'  BY <1>1, <1>2, <1>5, <1>6 DEF Newest
<1> QED  BY <1>1, <1>2, <1>5, <1>6, <1>7, ResetsKeep

-----------------------------------------------------------------------------
(* The importer: import_commit.                                            *)

LEMMA MoreRows ==
  ASSUME NEW c \in Nat, NEW o \in Nat, NEW c2 \in Nat, NEW o2 \in Nat, c <= c2, o <= o2
  PROVE  Row(c, o) \subseteq Row(c2, o2)
BY DEF Row

LEMMA StepCommit == IInv /\ import_commit => IInv'
<1> SUFFICES ASSUME IInv, import_commit PROVE IInv'  OBVIOUS
<1>0. section = "no" /\ section' = "no" /\ list' = list /\ line' = line
  BY DEF import_commit, reading
<1>1. CASE indexes = None \/ stale \/ freed
  <2>1. lost' = TRUE /\ UNCHANGED <<areas, indexes, freed, temp_resets, last, tables, live, after>>
    BY <1>1 DEF import_commit
  <2>2. "no" \notin Parts /\ line \in Nat /\ list \in BOOLEAN
    BY DEF Parts, IInv, File, FileTypes
  <2>3. last' = last /\ after' = after  BY <2>1
  <2> QED  BY <1>0, <2>1, <2>2, <2>3, SectionsKeep
<1>2. CASE ~ (indexes = None \/ stale \/ freed)
  <2> DEFINE npcs == Of("npcs")
             objects == Of("objects")
             rooms == Of("rooms")
             c == tables.character + Len(npcs)
             o == tables.object + Len(objects)
             texts == [i \in DOMAIN rooms |-> ResetText(rooms[i])]
             Rows == 1 .. Len(tables.room) + Len(rooms)
             leads == UNION {import_finalize_exits(i) : i \in DOMAIN import_areas}
  <2>1. /\ tables' = [character |-> c, object |-> o, room |-> tables.room \o texts,
                      exit |-> tables.exit \cup leads]
        /\ live' = LiveAt(Len(import_areas) + 1)
        /\ import_cleanup /\ lost' = lost
    BY <1>2 DEF import_commit
  <2>2. indexes \in Indexes /\ ~stale /\ ~freed /\ import_areas \in Seq(Area)
        /\ list \in BOOLEAN /\ lost \in BOOLEAN
    BY <1>2 DEF IInv, File, FileTypes
  <2>3. File'  BY <1>0, <2>1, <2>2, Cleaned DEF IInv, File
  <2>4. /\ npcs \in Seq(ItemVnums) /\ objects \in Seq(ItemVnums) /\ rooms \in Seq(Vnums)
    BY <2>2, OfFacts
  <2>5. /\ tables.character \in Nat /\ tables.object \in Nat
        /\ tables.room \in Seq(Seq(Row(tables.character, tables.object)))
        /\ tables.exit \subseteq [from : DOMAIN tables.room, dir : Dirs, to : DOMAIN tables.room]
    BY DEF IInv, Game
  <2>6. \A i \in DOMAIN rooms : ResetText(rooms[i]) \in Seq(Row(c, o))  BY <2>2, TextFacts
  <2>7. /\ LiveAt(Len(import_areas) + 1) \subseteq Rows
        /\ \A i \in DOMAIN import_areas :
             import_finalize_exits(i) \subseteq [from : Rows, dir : Dirs, to : Rows]
    <3>1. Len(import_areas) + 1 \in 1 .. Len(import_areas) + 1  BY <2>2
    <3> HIDE DEF Rows
    <3>2. /\ \A i \in 1 .. Len(import_areas) + 1 : LiveAt(i) \subseteq Rows
          /\ \A i \in DOMAIN import_areas :
               import_finalize_exits(i) \subseteq [from : Rows, dir : Dirs, to : Rows]
      BY <2>2, ExitFacts DEF Rows
    <3> QED  BY <3>1, <3>2
  <2> HIDE DEF npcs, objects, rooms
  <2>8. Len(npcs) \in Nat /\ Len(objects) \in Nat /\ Len(rooms) \in Nat
        /\ DOMAIN rooms = 1 .. Len(rooms) /\ Len(tables.room) \in Nat
        /\ DOMAIN tables.room = 1 .. Len(tables.room)
    BY <2>4, <2>5
  <2>9. Row(tables.character, tables.object) \subseteq Row(c, o) /\ c \in Nat /\ o \in Nat
    BY <2>5, <2>8, MoreRows
  <2> HIDE DEF c, o
  <2>10. tables.room \in Seq(Seq(Row(c, o)))
    <3>1. \A i \in 1 .. Len(tables.room) : tables.room[i] \in Seq(Row(c, o))
      <4> SUFFICES ASSUME NEW i \in 1 .. Len(tables.room) PROVE tables.room[i] \in Seq(Row(c, o))
        OBVIOUS
      <4>1. tables.room[i] \in Seq(Row(tables.character, tables.object))  BY <2>5
      <4> QED  BY <2>9, <4>1
    <3>2. tables.room = [i \in 1 .. Len(tables.room) |-> tables.room[i]]  BY <2>5
    <3> QED  BY <2>8, <3>1, <3>2
  <2>11. texts \in Seq(Seq(Row(c, o))) /\ Len(texts) = Len(rooms)
    <3>1. texts \in [1 .. Len(rooms) -> Seq(Row(c, o))]  BY <2>6, <2>8
    <3> HIDE DEF texts
    <3> QED  BY <2>8, <3>1
  <2> HIDE DEF texts
  <2>12. tables.room \o texts \in Seq(Seq(Row(c, o))) /\ DOMAIN (tables.room \o texts) = Rows
    <3> DEFINE S == Seq(Row(c, o))
               now == tables.room
    <3> HIDE DEF S
    <3>1. now \in Seq(S) /\ texts \in Seq(S)  BY <2>10, <2>11 DEF S
    <3> HIDE DEF now
    <3>2. now \o texts \in Seq(S) /\ Len(now \o texts) = Len(now) + Len(texts)  BY <3>1
    <3>3. DOMAIN (now \o texts) = 1 .. Len(now) + Len(rooms)  BY <2>11, <3>2
    <3> QED  BY <3>2, <3>3 DEF S, now
  <2>13. tables.exit \cup leads \subseteq [from : Rows, dir : Dirs, to : Rows]
    <3>1. DOMAIN tables.room \subseteq Rows  BY <2>8
    <3>2. tables.exit \subseteq [from : Rows, dir : Dirs, to : Rows]
      <4> HIDE DEF Rows
      <4> QED  BY <2>5, <3>1
    <3> HIDE DEF Rows
    <3> QED  BY <2>7, <3>2
  <2> HIDE DEF Rows, leads
  <2>14. tables'.character = c /\ tables'.object = o /\ tables'.room = tables.room \o texts
         /\ tables'.exit = tables.exit \cup leads
    BY <2>1
  <2>15. Game'  BY <2>1, <2>7, <2>9, <2>12, <2>13, <2>14 DEF Game
  <2> QED  BY <2>3, <2>15 DEF IInv
<1> QED  BY <1>1, <1>2

-----------------------------------------------------------------------------
(* The importer: the theorems.                                             *)

LEMMA StepIInv == IInv /\ [Next]_vars => IInv'
<1> SUFFICES ASSUME IInv, [Next]_vars PROVE IInv'  OBVIOUS
<1>1. CASE import_rom_file  BY <1>1, StepFile
<1>2. CASE import_rom_area  BY <1>2, StepArea
<1>3. CASE EndSection  BY <1>3, StepSections
<1>4. CASE EndFile  BY <1>4, StepSections
<1>5. CASE FileFails  BY <1>5, StepFileFails
<1>6. CASE \E s \in {"MOBILES", "OBJECTS", "ROOMS", "RESETS"} : Section(s)
  BY <1>6, StepSections DEF Parts
<1>7. CASE \E v \in ItemVnums : import_rom_mobiles(v) \/ import_rom_objects(v)
  BY <1>7, StepMobiles, StepObjects
<1>8. CASE \E v \in Vnums, leads \in Exits : import_rom_rooms(v, leads)  BY <1>8, StepRooms
<1>9. CASE \E v \in ItemVnums : BadRecord(v)  BY <1>9, StepBadRecord
<1>10. CASE \E v \in ItemVnums, r \in Vnums : ResetM(v, r) \/ ResetO(v, r)
  BY <1>10, StepResetM, StepResetO
<1>11. CASE \E v \in ItemVnums : ResetP(v) \/ \E type \in {"G", "E"} : ResetGive(type, v)
  BY <1>11, StepResetP, StepResetGive
<1>12. CASE \E r \in Vnums : ResetD(r)  BY <1>12, StepResetD
<1>13. CASE import_commit  BY <1>13, StepCommit
<1>14. CASE Restart  BY <1>14, StepRestart
<1>15. CASE UNCHANGED vars
  <2>1. UNCHANGED <<areas, indexes, freed, temp_resets, tables, live, last, after, section, list, lost, line>>
    BY <1>15 DEF vars, reading
  <2>2. FileTypes /\ Reading  BY DEF IInv, File
  <2>3. /\ section' \in Parts \cup {"no", "file"} /\ list' \in BOOLEAN /\ lost' \in BOOLEAN
        /\ line' \in Nat /\ (section' # "no" => indexes \in Indexes)
        /\ (section' \in Parts /\ ~lost' => import_areas # <<>>)
    BY <2>1, <2>2 DEF FileTypes, Reading
  <2>4. last' = last /\ after' = after  BY <2>1
  <2> QED  BY <2>1, <2>3, <2>4, SectionsKeep
<1> QED
  BY <1>1, <1>2, <1>3, <1>4, <1>5, <1>6, <1>7, <1>8, <1>9, <1>10, <1>11, <1>12, <1>13, <1>14, <1>15
  DEF Next

\* The reading of files and its commits (server/importer.c) keep IInv.
THEOREM ImporterInvariant == Spec => []IInv
<1>1. Init => IInv  BY InitIInv
<1>2. IInv /\ [Next]_vars => IInv'  BY StepIInv
<1> QED  BY <1>1, <1>2, PTL DEF Spec

\* import_finalize_exits: whatever areas and files two rooms are of, an exit that is
\* saved leads from a room with a row to a room with one.
THEOREM SavedExitsJoinRows == Spec => []ExitsJoinRows
<1>1. IInv => ExitsJoinRows  BY DEF IInv, Game, ExitsJoinRows
<1> QED  BY <1>1, ImporterInvariant, PTL

\* import_finalize_reset: the text of a reset names npcs and objects that were saved
\* before it, in this commit.
THEOREM SavedResetsNameRows == Spec => []ResetsNameRows
<1>1. IInv => ResetsNameRows
  <2> SUFFICES ASSUME IInv, NEW r \in DOMAIN tables.room, NEW i \in DOMAIN tables.room[r]
               PROVE  tables.room[r][i].id \in 1 .. tables[tables.room[r][i].table]
    BY DEF ResetsNameRows
  <2> DEFINE n == tables.room[r][i]
  <2>1. n \in Row(tables.character, tables.object)
    <3>1. tables.room \in Seq(Seq(Row(tables.character, tables.object)))  BY DEF IInv, Game
    <3>2. tables.room[r] \in Seq(Row(tables.character, tables.object))  BY <3>1
    <3> QED  BY <3>2
  <2> HIDE DEF n
  <2>2. n.table \in {"character", "object"}
        /\ n.id \in 1 .. (IF n.table = "character" THEN tables.character ELSE tables.object)
    BY <2>1 DEF Row
  <2>3. n.id \in 1 .. tables[n.table]  BY <2>2
  <2> QED  BY <2>3 DEF n
<1> QED  BY <1>1, ImporterInvariant, PTL

\* import_rom_resets: what is given, worn or put goes with the npc or the object before it
\* in the file, and into that one's room.
THEOREM SubsStayTogether == Spec => []SubsGoWithTheirs
<1>1. IInv => SubsGoWithTheirs
  <2> SUFFICES ASSUME IInv, NEW i \in DOMAIN temp_resets
               PROVE  \A j \in DOMAIN temp_resets[i].subs :
                        /\ temp_resets[i].subs[j].room = temp_resets[i].room
                        /\ temp_resets[i].subs[j].taken => temp_resets[i].subs[j].line = temp_resets[i].line
    BY DEF SubsGoWithTheirs
  <2>1. temp_resets[i] \in Range(temp_resets)  BY DEF Range
  <2>2. Together(temp_resets[i])  BY <2>1 DEF IInv, File, Recorded
  <2> QED  BY <2>2 DEF Together
<1> QED  BY <1>1, ImporterInvariant, PTL

-----------------------------------------------------------------------------
(* Explored rooms: flags.                                                  *)

FlagType == Seq(SUBSET (0 .. Word - 1))

Bits(flags) == {x \in Nat : is_set(flags, x)}

\* Where a bit stands: pos and bit in the word.
LEMMA PlaceFacts ==
  ASSUME NEW x \in Nat
  PROVE  /\ (x \div Word) \in Nat /\ (x % Word) \in 0 .. Word - 1
         /\ \A y \in Nat : (x \div Word) = (y \div Word) /\ (x % Word) = (y % Word) => x = y
<1>1. Word \in Nat \ {0}  BY ExploredAssumption
<1>2. \A y \in Nat : (y \div Word) \in Nat /\ y % Word \in 0 .. Word - 1
                     /\ y = Word * (y \div Word) + (y % Word)
  BY <1>1, DivMod
<1>3. ASSUME NEW y \in Nat, (x \div Word) = (y \div Word), (x % Word) = (y % Word) PROVE x = y
  <2>1. x = Word * (x \div Word) + (x % Word) /\ y = Word * (y \div Word) + (y % Word)  BY <1>2
  <2> QED  BY <1>3, <2>1, Zenon
<1> QED  BY <1>2, <1>3

LEMMA SetBitFacts ==
  ASSUME NEW flags \in FlagType, NEW bit \in Nat
  PROVE  set_bit(flags, bit) \in FlagType /\ Bits(set_bit(flags, bit)) = Bits(flags) \cup {bit}
<1> DEFINE W == SUBSET (0 .. Word - 1)
           pos == bit \div Word  m == bit % Word
           f == IF pos >= Len(flags) THEN resize_bits(flags, pos) ELSE flags
           t == set_bit(flags, bit)
<1>1. flags \in Seq(W) /\ Len(flags) \in Nat /\ \A i \in 1 .. Len(flags) : flags[i] \in W
  BY DEF FlagType
<1>2. pos \in Nat /\ m \in 0 .. Word - 1  BY PlaceFacts
<1>3. t = [f EXCEPT ![pos + 1] = f[pos + 1] \cup {m}]  BY DEF set_bit
<1> HIDE DEF W, pos, m, t
<1>4. /\ f \in Seq(W) /\ pos < Len(f) /\ Len(f) \in Nat /\ Len(flags) <= Len(f)
      /\ \A i \in 1 .. Len(f) : f[i] = IF i <= Len(flags) THEN flags[i] ELSE {}
  <2>1. CASE pos >= Len(flags)
    <3> DEFINE g == [i \in 1 .. pos + 1 |-> IF i <= Len(flags) THEN flags[i] ELSE {}]
    <3>1. f = g  BY <2>1 DEF resize_bits
    <3>2. {} \in W  BY DEF W
    <3>3. \A i \in 1 .. pos + 1 : i <= Len(flags) => i \in 1 .. Len(flags)  BY <1>1, <1>2
    <3>4. g \in [1 .. pos + 1 -> W]  BY <1>1, <3>2, <3>3
    <3>5. \A i \in 1 .. pos + 1 : g[i] = IF i <= Len(flags) THEN flags[i] ELSE {}  OBVIOUS
    <3>6. pos + 1 \in Nat  BY <1>2
    <3> HIDE DEF g, f
    <3>7. f \in Seq(W) /\ Len(f) = pos + 1  BY <3>1, <3>4, <3>6, SeqFrom
    <3> QED  BY <1>1, <1>2, <2>1, <3>1, <3>5, <3>7
  <2>2. CASE ~ (pos >= Len(flags))
    <3>1. f = flags  BY <2>2
    <3> HIDE DEF f
    <3> QED  BY <1>1, <1>2, <2>2, <3>1
  <2> QED  BY <2>1, <2>2
<1> HIDE DEF f
<1> DEFINE n == Len(f)
<1>5. pos + 1 \in 1 .. n /\ DOMAIN f = 1 .. n /\ f \in [1 .. n -> W]
  BY <1>2, <1>4
<1> HIDE DEF n
<1>6. f[pos + 1] \cup {m} \in W  BY <1>2, <1>5 DEF W
<1>7. t \in [1 .. n -> W]  BY <1>3, <1>5, <1>6
<1>8. t \in Seq(W) /\ Len(t) = n  BY <1>4, <1>7, SeqFrom DEF n
<1>9. \A i \in 1 .. n : t[i] = IF i = pos + 1 THEN f[i] \cup {m} ELSE f[i]  BY <1>3, <1>5
<1>10. ASSUME NEW x \in Nat PROVE is_set(t, x) <=> is_set(flags, x) \/ x = bit
  <2> DEFINE p == x \div Word  r == x % Word
  <2>1. p \in Nat /\ (p = pos /\ r = m <=> x = bit)  BY PlaceFacts DEF pos, m
  <2>2. is_set(t, x) <=> p < n /\ r \in t[p + 1]  BY <1>8 DEF is_set
  <2>3. is_set(flags, x) <=> p < Len(flags) /\ r \in flags[p + 1]  BY DEF is_set
  <2> HIDE DEF p, r
  <2>4. CASE p < n
    <3>1. p + 1 \in 1 .. n /\ (p + 1 = pos + 1 <=> p = pos) /\ (p + 1 <= Len(flags) <=> p < Len(flags))
      BY <1>1, <1>2, <1>4, <2>1, <2>4 DEF n
    <3>2. t[p + 1] = IF p = pos THEN f[p + 1] \cup {m} ELSE f[p + 1]  BY <1>9, <3>1
    <3>3. f[p + 1] = IF p < Len(flags) THEN flags[p + 1] ELSE {}  BY <1>4, <3>1 DEF n
    <3>4. r \in t[p + 1] <=> (p < Len(flags) /\ r \in flags[p + 1]) \/ (p = pos /\ r = m)
      BY <3>2, <3>3
    <3> QED  BY <2>1, <2>2, <2>3, <2>4, <3>4
  <2>5. CASE ~ (p < n)
    <3>1. ~ (p < Len(flags)) /\ p # pos  BY <1>1, <1>2, <1>4, <2>1, <2>5 DEF n
    <3> QED  BY <2>1, <2>2, <2>3, <2>5, <3>1
  <2> QED  BY <2>4, <2>5
<1>11. Bits(t) = Bits(flags) \cup {bit}  BY <1>10 DEF Bits
<1> QED  BY <1>8, <1>11 DEF t, W, FlagType

LEMMA NewFlag == new_flag \in FlagType /\ Bits(new_flag) = {}
<1>1. new_flag \in FlagType /\ Len(new_flag) = 0  BY DEF new_flag, FlagType
<1>2. \A x \in Nat : ~ is_set(new_flag, x)
  <2> TAKE x \in Nat
  <2>1. (x \div Word) \in Nat  BY PlaceFacts
  <2> QED  BY <1>1, <2>1 DEF is_set
<1> QED  BY <1>1, <1>2 DEF Bits

\* The flags while a run is set.
RunOf(f, flags, from, n) ==
  f = [i \in 0 .. n |-> IF i = 0 THEN flags ELSE set_bit(f[i - 1], (from + i) - 1)]

LEMMA RunExists ==
  ASSUME NEW flags \in FlagType, NEW from \in Nat, NEW n \in Nat
  PROVE  \E f : RunOf(f, flags, from, n)
<1> DEFINE step == [x \in FlagType \X (1 .. n) |-> set_bit(x[1], (from + x[2]) - 1)]
<1>1. step \in [FlagType \X (1 .. n) -> FlagType]
  <2>1. ASSUME NEW x \in FlagType \X (1 .. n) PROVE set_bit(x[1], (from + x[2]) - 1) \in FlagType
    <3>1. x[1] \in FlagType /\ (from + x[2]) - 1 \in Nat  OBVIOUS
    <3> QED  BY <3>1, SetBitFacts
  <2> QED  BY <2>1
<1>2. \A v \in FlagType, i \in 1 .. n : step[<<v, i>>] = set_bit(v, (from + i) - 1)
  <2> SUFFICES ASSUME NEW v \in FlagType, NEW i \in 1 .. n
               PROVE  step[<<v, i>>] = set_bit(v, (from + i) - 1)
    OBVIOUS
  <2> DEFINE x == <<v, i>>
  <2>1. x \in FlagType \X (1 .. n) /\ x[1] = v /\ x[2] = i  OBVIOUS
  <2> HIDE DEF x
  <2>2. step[x] = set_bit(x[1], (from + x[2]) - 1)  BY <2>1
  <2> QED  BY <2>1, <2>2 DEF x
<1> HIDE DEF step
<1>3. PICK f : f \in [0 .. n -> FlagType] /\ StepsFrom(f, n, flags, step)  BY <1>1, EquationExists
<1>4. \A i \in 0 .. n : i # 0 => i - 1 \in 0 .. n /\ f[i - 1] \in FlagType /\ i \in 1 .. n  BY <1>3
<1>5. f = [i \in 0 .. n |-> IF i = 0 THEN flags ELSE step[<<f[i - 1], i>>]]
  BY <1>3 DEF StepsFrom
<1>6. \A i \in 0 .. n : i # 0 => step[<<f[i - 1], i>>] = set_bit(f[i - 1], (from + i) - 1)
  BY <1>2, <1>4
<1>7. RunOf(f, flags, from, n)  BY <1>5, <1>6 DEF RunOf
<1> QED  BY <1>7

LEMMA SetBitsFacts ==
  ASSUME NEW flags \in FlagType, NEW from \in Nat, NEW n \in Nat
  PROVE  /\ SetBits(flags, from, n) \in FlagType
         /\ Bits(SetBits(flags, from, n)) = Bits(flags) \cup (from .. (from + n) - 1)
<1> DEFINE f == CHOOSE g : RunOf(g, flags, from, n)
<1>1. RunOf(f, flags, from, n)  BY RunExists
<1>2. SetBits(flags, from, n) = f[n]  BY Zenon DEF SetBits, RunOf
<1> HIDE DEF f
<1>3. \A i \in 0 .. n : f[i] = IF i = 0 THEN flags ELSE set_bit(f[i - 1], (from + i) - 1)
  BY <1>1 DEF RunOf
<1> DEFINE T == {i \in Nat : f[i] \in FlagType /\ Bits(f[i]) = Bits(flags) \cup (from .. (from + i) - 1)}
<1>4. 0 \in T
  <2>1. f[0] = flags  BY <1>3
  <2>2. from .. (from + 0) - 1 = {}  OBVIOUS
  <2> QED  BY <2>1, <2>2
<1>5. ASSUME NEW i \in 1 .. n, i - 1 \in T PROVE i \in T
  <2> DEFINE j == i - 1  x == (from + i) - 1
  <2>1. f[j] \in FlagType /\ Bits(f[j]) = Bits(flags) \cup (from .. (from + j) - 1)  BY <1>5
  <2>2. f[i] = set_bit(f[j], x)  BY <1>3
  <2>3. x \in Nat  OBVIOUS
  <2>4. f[i] \in FlagType /\ Bits(f[i]) = Bits(f[j]) \cup {x}
    <3> HIDE DEF j, x
    <3> QED  BY <2>1, <2>2, <2>3, SetBitFacts
  <2>5. from .. x = (from .. (from + j) - 1) \cup {x}  OBVIOUS
  <2> QED  BY <2>1, <2>4, <2>5
<1>6. 0 .. n \subseteq T
  <2> HIDE DEF T
  <2> QED  BY <1>4, <1>5, Upwards
<1>7. n \in T  BY <1>6
<1> QED  BY <1>2, <1>7

-----------------------------------------------------------------------------
(* Explored rooms: the lengths of runs, read.                              *)

ReadType == [flags : FlagType, index : Nat, bit : BOOLEAN]

ReadFirst == [flags |-> new_flag, index |-> 0, bit |-> FALSE]

LEMMA ReadFacts ==
  ASSUME NEW s \in ReadType, NEW n \in Nat
  PROVE  Read(s, n) \in ReadType
<1>1. s.flags \in FlagType /\ s.index \in Nat /\ s.bit \in BOOLEAN  BY DEF ReadType
<1>2. SetBits(s.flags, s.index, n) \in FlagType  BY <1>1, SetBitsFacts
<1>3. CASE n = 0  BY <1>3 DEF Read
<1>4. CASE n # 0
  <2> DEFINE F == IF s.bit THEN SetBits(s.flags, s.index, n) ELSE s.flags
  <2>1. F \in FlagType  BY <1>1, <1>2
  <2>2. Read(s, n) = [flags |-> F, index |-> s.index + n, bit |-> ~s.bit]  BY <1>4 DEF Read
  <2> HIDE DEF F
  <2>3. s.index + n \in Nat /\ (~s.bit) \in BOOLEAN  BY <1>1
  <2> QED  BY <2>1, <2>2, <2>3 DEF ReadType
<1> QED  BY <1>3, <1>4

\* The state after each length.
ReadOf(f, rle) == f = [n \in 0 .. Len(rle) |-> IF n = 0 THEN ReadFirst ELSE Read(f[n - 1], rle[n])]

LEMMA ReadExists ==
  ASSUME NEW rle \in Seq(Nat)
  PROVE  \E f : ReadOf(f, rle)
<1> DEFINE n == Len(rle)
           step == [x \in ReadType \X (1 .. n) |-> Read(x[1], rle[x[2]])]
<1>1. n \in Nat /\ \A i \in 1 .. n : rle[i] \in Nat  OBVIOUS
<1>2. ReadFirst \in ReadType  BY NewFlag DEF ReadFirst, ReadType
<1> HIDE DEF n
<1>3. step \in [ReadType \X (1 .. n) -> ReadType]
  <2>1. ASSUME NEW x \in ReadType \X (1 .. n) PROVE Read(x[1], rle[x[2]]) \in ReadType
    <3>1. x[1] \in ReadType /\ rle[x[2]] \in Nat  BY <1>1
    <3> QED  BY <3>1, ReadFacts
  <2> QED  BY <2>1
<1>4. \A v \in ReadType, i \in 1 .. n : step[<<v, i>>] = Read(v, rle[i])
  <2> SUFFICES ASSUME NEW v \in ReadType, NEW i \in 1 .. n
               PROVE  step[<<v, i>>] = Read(v, rle[i])
    OBVIOUS
  <2> DEFINE x == <<v, i>>
  <2>1. x \in ReadType \X (1 .. n) /\ x[1] = v /\ x[2] = i  OBVIOUS
  <2> HIDE DEF x
  <2>2. step[x] = Read(x[1], rle[x[2]])  BY <2>1
  <2> QED  BY <2>1, <2>2 DEF x
<1> HIDE DEF step
<1>5. PICK f : f \in [0 .. n -> ReadType] /\ StepsFrom(f, n, ReadFirst, step)
  BY <1>1, <1>2, <1>3, EquationExists
<1>6. \A i \in 0 .. n : i # 0 => i - 1 \in 0 .. n /\ f[i - 1] \in ReadType /\ i \in 1 .. n
  BY <1>1, <1>5
<1>7. f = [i \in 0 .. n |-> IF i = 0 THEN ReadFirst ELSE step[<<f[i - 1], i>>]]
  BY <1>5 DEF StepsFrom
<1>8. \A i \in 0 .. n : i # 0 => step[<<f[i - 1], i>>] = Read(f[i - 1], rle[i])
  BY <1>4, <1>6
<1>9. ReadOf(f, rle)  BY <1>7, <1>8 DEF ReadOf, n
<1> QED  BY <1>9

\* The same, without the equation.
ReadBy(f, rle) ==
  /\ f[0] = ReadFirst
  /\ \A i \in 1 .. Len(rle) : f[i] = Read(f[i - 1], rle[i])
  /\ \A i \in 0 .. Len(rle) : f[i] \in ReadType
  /\ Decoding(rle) = f[Len(rle)]

LEMMA DecodingFacts ==
  ASSUME NEW rle \in Seq(Nat)
  PROVE  (\E f : ReadBy(f, rle)) /\ Decoding(rle) \in ReadType
<1> DEFINE f == CHOOSE g : ReadOf(g, rle)
           n == Len(rle)
           T == {i \in Nat : f[i] \in ReadType}
<1>1. ReadOf(f, rle)  BY ReadExists
<1>2. Decoding(rle) = f[Len(rle)]  BY Zenon DEF Decoding, ReadOf, ReadFirst
<1> HIDE DEF f
<1>3. n \in Nat /\ \A i \in 1 .. n : rle[i] \in Nat /\ i \in 0 .. n /\ i # 0  OBVIOUS
<1>4. \A i \in 0 .. n : f[i] = IF i = 0 THEN ReadFirst ELSE Read(f[i - 1], rle[i])
  BY <1>1 DEF ReadOf
<1> HIDE DEF n
<1>5. f[0] = ReadFirst /\ \A i \in 1 .. n : f[i] = Read(f[i - 1], rle[i])  BY <1>3, <1>4
<1>6. 0 \in T
  <2>1. ReadFirst \in ReadType  BY NewFlag DEF ReadFirst, ReadType
  <2> QED  BY <1>5, <2>1
<1>7. ASSUME NEW i \in 1 .. n, i - 1 \in T PROVE i \in T
  <2>1. f[i - 1] \in ReadType /\ rle[i] \in Nat /\ i \in Nat  BY <1>3, <1>7
  <2>2. Read(f[i - 1], rle[i]) \in ReadType  BY <2>1, ReadFacts
  <2> QED  BY <1>5, <2>1, <2>2
<1>8. 0 .. n \subseteq T
  <2> HIDE DEF T
  <2> QED  BY <1>3, <1>6, <1>7, Upwards
<1>9. \A i \in 0 .. n : f[i] \in ReadType  BY <1>8
<1>10. ReadBy(f, rle)  BY <1>2, <1>5, <1>9 DEF ReadBy, n
<1>11. n \in 0 .. n  BY <1>3
<1> QED  BY <1>2, <1>9, <1>10, <1>11 DEF n

\* One more length is read after the others.
LEMMA ReadAppend ==
  ASSUME NEW rle \in Seq(Nat), NEW c \in Nat
  PROVE  Append(rle, c) \in Seq(Nat) /\ Decoding(Append(rle, c)) = Read(Decoding(rle), c)
<1> DEFINE more == Append(rle, c)
           n == Len(rle)
<1>1. more \in Seq(Nat) /\ Len(more) = n + 1 /\ n \in Nat /\ more[n + 1] = c
      /\ \A i \in 1 .. n : more[i] = rle[i]
  OBVIOUS
<1> HIDE DEF more
<1>2. PICK f : ReadBy(f, rle)  BY DecodingFacts
<1>3. PICK g : ReadBy(g, more)  BY <1>1, DecodingFacts
<1> DEFINE T == {i \in Nat : g[i] = f[i]}
<1> HIDE DEF n
<1>4. 0 \in T  BY <1>2, <1>3 DEF ReadBy
<1>5. ASSUME NEW i \in 1 .. n, i - 1 \in T PROVE i \in T
  <2>1. i \in 1 .. Len(rle) /\ i \in 1 .. Len(more) /\ i \in Nat  BY <1>1 DEF n
  <2>2. f[i] = Read(f[i - 1], rle[i]) /\ g[i] = Read(g[i - 1], more[i])
    BY <1>2, <1>3, <2>1 DEF ReadBy
  <2>3. g[i - 1] = f[i - 1] /\ more[i] = rle[i]  BY <1>1, <1>5
  <2>4. g[i] = f[i]  BY <2>2, <2>3, Zenon
  <2> QED  BY <2>1, <2>4
<1>6. 0 .. n \subseteq T
  <2> HIDE DEF T
  <2> QED  BY <1>1, <1>4, <1>5, Upwards
<1>7. g[n] = f[n]  BY <1>1, <1>6
<1>8. Decoding(more) = g[n + 1] /\ Decoding(rle) = f[n]  BY <1>1, <1>2, <1>3 DEF ReadBy, n
<1>9. n + 1 \in 1 .. Len(more) /\ (n + 1) - 1 = n  BY <1>1
<1>10. \A i \in 1 .. Len(more) : g[i] = Read(g[i - 1], more[i])  BY <1>3 DEF ReadBy
<1>11. g[n + 1] = Read(g[(n + 1) - 1], more[n + 1])  BY <1>9, <1>10, Zenon
<1>12. Decoding(more) = Read(Decoding(rle), c)  BY <1>1, <1>7, <1>8, <1>9, <1>11, Zenon
<1> QED  BY <1>1, <1>12 DEF more

-----------------------------------------------------------------------------
(* Explored rooms: the lengths of runs, counted.                           *)

CountType == [out : Seq(Nat \ {0}), count : Nat \ {0}, bit : BOOLEAN]

CountFirst == [out |-> <<>>, count |-> 1, bit |-> FALSE]

LEMMA CountedFacts ==
  ASSUME NEW s \in CountType, NEW set \in BOOLEAN
  PROVE  Counted(s, set) \in CountType
<1>1. s.out \in Seq(Nat \ {0}) /\ s.count \in Nat \ {0} /\ s.bit \in BOOLEAN  BY DEF CountType
<1>2. CASE set = s.bit
  <2>1. Counted(s, set) = [s EXCEPT !.count = @ + 1]  BY <1>2 DEF Counted
  <2>2. s.count + 1 \in Nat \ {0}  BY <1>1
  <2> QED  BY <2>1, <2>2 DEF CountType
<1>3. CASE set # s.bit
  <2>1. Counted(s, set) = [out |-> Append(s.out, s.count), count |-> 1, bit |-> ~s.bit]
    BY <1>3 DEF Counted
  <2>2. Append(s.out, s.count) \in Seq(Nat \ {0}) /\ 1 \in Nat \ {0} /\ (~s.bit) \in BOOLEAN
    BY <1>1
  <2> QED  BY <2>1, <2>2 DEF CountType
<1> QED  BY <1>2, <1>3

\* The run after each room of the walk.
CountOf(f, flags, walk) ==
  f = [n \in 0 .. Len(walk) |-> IF n = 0 THEN CountFirst
                                ELSE Counted(f[n - 1], is_set(flags, walk[n]))]

LEMMA SetType == \A flags, x : is_set(flags, x) \in BOOLEAN
BY DEF is_set

LEMMA CountExists ==
  ASSUME NEW flags \in FlagType, NEW walk \in Seq(Nat)
  PROVE  \E f : CountOf(f, flags, walk)
<1> DEFINE n == Len(walk)
           step == [x \in CountType \X (1 .. n) |-> Counted(x[1], is_set(flags, walk[x[2]]))]
<1>1. n \in Nat  OBVIOUS
<1>2. CountFirst \in CountType  BY DEF CountFirst, CountType
<1> HIDE DEF n
<1>3. step \in [CountType \X (1 .. n) -> CountType]
  <2>1. ASSUME NEW x \in CountType \X (1 .. n)
        PROVE  Counted(x[1], is_set(flags, walk[x[2]])) \in CountType
    <3>1. x[1] \in CountType /\ is_set(flags, walk[x[2]]) \in BOOLEAN  BY SetType
    <3> QED  BY <3>1, CountedFacts
  <2> QED  BY <2>1
<1>4. \A v \in CountType, i \in 1 .. n : step[<<v, i>>] = Counted(v, is_set(flags, walk[i]))
  <2> SUFFICES ASSUME NEW v \in CountType, NEW i \in 1 .. n
               PROVE  step[<<v, i>>] = Counted(v, is_set(flags, walk[i]))
    OBVIOUS
  <2> DEFINE x == <<v, i>>
  <2>1. x \in CountType \X (1 .. n) /\ x[1] = v /\ x[2] = i  OBVIOUS
  <2> HIDE DEF x
  <2>2. step[x] = Counted(x[1], is_set(flags, walk[x[2]]))  BY <2>1
  <2>3. step[x] = Counted(v, is_set(flags, walk[i]))  BY <2>1, <2>2, Zenon
  <2> QED  BY <2>3 DEF x
<1> HIDE DEF step
<1>5. PICK f : f \in [0 .. n -> CountType] /\ StepsFrom(f, n, CountFirst, step)
  BY <1>1, <1>2, <1>3, EquationExists
<1>6. \A i \in 0 .. n : i # 0 => i - 1 \in 0 .. n /\ f[i - 1] \in CountType /\ i \in 1 .. n
  BY <1>1, <1>5
<1>7. f = [i \in 0 .. n |-> IF i = 0 THEN CountFirst ELSE step[<<f[i - 1], i>>]]
  BY <1>5 DEF StepsFrom
<1>8. \A i \in 0 .. n : i # 0 => step[<<f[i - 1], i>>] = Counted(f[i - 1], is_set(flags, walk[i]))
  BY <1>4, <1>6
<1>9. f = [i \in 0 .. n |-> IF i = 0 THEN CountFirst
                            ELSE Counted(f[i - 1], is_set(flags, walk[i]))]
  BY <1>7, <1>8, Zenon
<1>10. CountOf(f, flags, walk)  BY <1>9 DEF CountOf, n
<1> QED  BY <1>10

\* What was counted of the first n rooms of the walk reads as the places of those
\* that are set, but for the run that is not finished; all its rooms are alike.
RunsOf(st, flags, walk, n) ==
  LET r == Decoding(st.out)
  IN /\ st \in CountType /\ r \in ReadType
     /\ r.bit = st.bit
     /\ r.index + st.count = n + 1
     /\ \A x \in Nat : is_set(r.flags, x) <=> 1 <= x /\ x < r.index /\ is_set(flags, walk[x])
     /\ \A x \in r.index .. n : x >= 1 => (is_set(flags, walk[x]) <=> st.bit)
     /\ r.index = 0 => ~st.bit

\* The same, when the run is finished.
LEMMA RunFinished ==
  ASSUME NEW st, NEW flags, NEW walk, NEW n \in Nat, RunsOf(st, flags, walk, n)
  PROVE  LET r == Decoding(Append(st.out, st.count))
         IN /\ r \in ReadType /\ r.index = n + 1 /\ r.bit = ~st.bit
            /\ \A x \in Nat : is_set(r.flags, x) <=> 1 <= x /\ x <= n /\ is_set(flags, walk[x])
<1> DEFINE r == Decoding(st.out)  s == Decoding(Append(st.out, st.count))  c == st.count
<1>1. /\ st \in CountType /\ r \in ReadType /\ r.bit = st.bit /\ r.index + c = n + 1
      /\ \A x \in Nat : is_set(r.flags, x) <=> 1 <= x /\ x < r.index /\ is_set(flags, walk[x])
      /\ \A x \in r.index .. n : x >= 1 => (is_set(flags, walk[x]) <=> st.bit)
      /\ r.index = 0 => ~st.bit
  BY DEF RunsOf
<1>2. st.out \in Seq(Nat) /\ c \in Nat /\ c # 0 /\ st.bit \in BOOLEAN
  <2>1. st.out \in Seq(Nat \ {0}) /\ c \in Nat \ {0} /\ st.bit \in BOOLEAN  BY <1>1 DEF CountType
  <2>2. Nat \ {0} \subseteq Nat  OBVIOUS
  <2>3. st.out \in Seq(Nat)  BY <2>1, <2>2, SeqWider
  <2> QED  BY <2>1, <2>3
<1>3. s = Read(r, c)  BY <1>2, ReadAppend
<1>4. r.flags \in FlagType /\ r.index \in Nat /\ r.bit \in BOOLEAN  BY <1>1 DEF ReadType
<1> HIDE DEF r, s, c
<1>5. s \in ReadType  BY <1>1, <1>2, <1>3, ReadFacts
<1> DEFINE F == IF r.bit THEN SetBits(r.flags, r.index, c) ELSE r.flags
<1>6. s = [flags |-> F, index |-> r.index + c, bit |-> ~r.bit]  BY <1>2, <1>3 DEF Read
<1>7. SetBits(r.flags, r.index, c) \in FlagType
      /\ Bits(SetBits(r.flags, r.index, c)) = Bits(r.flags) \cup (r.index .. (r.index + c) - 1)
  <2> DEFINE e == r.flags  i == r.index
  <2>1. e \in FlagType /\ i \in Nat /\ c \in Nat  BY <1>2, <1>4
  <2> HIDE DEF e, i, F
  <2>2. SetBits(e, i, c) \in FlagType /\ Bits(SetBits(e, i, c)) = Bits(e) \cup (i .. (i + c) - 1)
    BY <2>1, SetBitsFacts
  <2> QED  BY <2>2 DEF e, i
<1>8. \A x \in Nat : is_set(F, x) <=> is_set(r.flags, x) \/ (r.bit /\ x \in r.index .. (r.index + c) - 1)
  <2>1. CASE r.bit
    <3>1. F = SetBits(r.flags, r.index, c)  BY <2>1
    <3> HIDE DEF F
    <3>2. \A x \in Nat : x \in Bits(F) <=> x \in Bits(r.flags) \/ x \in r.index .. (r.index + c) - 1
      BY <1>7, <3>1
    <3> QED  BY <2>1, <3>2 DEF Bits
  <2>2. CASE ~r.bit
    <3>1. F = r.flags  BY <2>2
    <3> QED  BY <2>2, <3>1
  <2> QED  BY <2>1, <2>2
<1> HIDE DEF F
<1>9. s.flags = F /\ s.index = r.index + c /\ s.bit = ~r.bit  BY <1>6
<1>10. ASSUME NEW x \in Nat
       PROVE  is_set(F, x) <=> 1 <= x /\ x <= n /\ is_set(flags, walk[x])
  <2> DEFINE i == r.index
             in == is_set(flags, walk[x])
  <2>1. i \in Nat /\ i + c = n + 1  BY <1>1, <1>4
  <2>2. is_set(F, x) <=> (1 <= x /\ x < i /\ in) \/ (st.bit /\ x \in i .. (i + c) - 1)
    <3>1. is_set(r.flags, x) <=> 1 <= x /\ x < i /\ in  BY <1>1
    <3> QED  BY <1>1, <1>8, <3>1
  <2>3. x \in i .. n /\ x >= 1 => (in <=> st.bit)  BY <1>1
  <2>4. i = 0 => ~st.bit  BY <1>1
  <2> HIDE DEF i, in
  <2>5. i .. (i + c) - 1 = i .. n  BY <1>2, <2>1
  <2>6. CASE x < i
    <3>1. x \notin i .. n /\ (x < i => x <= n)  BY <1>2, <2>1, <2>6
    <3> QED  BY <2>2, <2>5, <2>6, <3>1 DEF in
  <2>7. CASE ~ (x < i) /\ x >= 1
    <3>1. x \in i .. n <=> x <= n  BY <2>1, <2>7
    <3> QED  BY <2>2, <2>3, <2>5, <2>7, <3>1 DEF in
  <2>8. CASE x = 0
    <3>1. x \in i .. n => i = 0  BY <2>1, <2>8
    <3> QED  BY <2>2, <2>4, <2>5, <2>8, <3>1
  <2> QED  BY <2>6, <2>7, <2>8
<1> QED  BY <1>1, <1>5, <1>9, <1>10 DEF s, c

LEMMA RunGoesOn ==
  ASSUME NEW st, NEW flags, NEW walk, NEW n \in Nat, RunsOf(st, flags, walk, n)
  PROVE  RunsOf(Counted(st, is_set(flags, walk[n + 1])), flags, walk, n + 1)
<1> DEFINE r == Decoding(st.out)  set == is_set(flags, walk[n + 1])  t == Counted(st, set)
<1>1. /\ st \in CountType /\ r \in ReadType /\ r.bit = st.bit /\ r.index + st.count = n + 1
      /\ \A x \in Nat : is_set(r.flags, x) <=> 1 <= x /\ x < r.index /\ is_set(flags, walk[x])
      /\ \A x \in r.index .. n : x >= 1 => (is_set(flags, walk[x]) <=> st.bit)
      /\ r.index = 0 => ~st.bit
  BY DEF RunsOf
<1>2. set \in BOOLEAN /\ st.bit \in BOOLEAN /\ st.count \in Nat /\ r.index \in Nat
  BY <1>1, SetType DEF CountType, ReadType
<1>3. t \in CountType  BY <1>1, <1>2, CountedFacts
<1>4. CASE set = st.bit
  <2>1. t = [st EXCEPT !.count = st.count + 1]  BY <1>4 DEF Counted
  <2>2. t.out = st.out /\ t.bit = st.bit /\ t.count = st.count + 1  BY <1>1, <2>1 DEF CountType
  <2>3. r.index + t.count = (n + 1) + 1  BY <1>1, <1>2, <2>2
  <2>4. \A x \in r.index .. n + 1 : x \in r.index .. n \/ x = n + 1  BY <1>2
  <2>5. \A x \in r.index .. n + 1 : x >= 1 => (is_set(flags, walk[x]) <=> t.bit)
    BY <1>1, <1>4, <2>2, <2>4
  <2> HIDE DEF t, set
  <2>6. Decoding(t.out) = r  BY <2>2
  <2> HIDE DEF r
  <2> QED  BY <1>1, <1>3, <2>2, <2>3, <2>5, <2>6 DEF RunsOf, t, set
<1>5. CASE set # st.bit
  <2> DEFINE s == Decoding(Append(st.out, st.count))
  <2>1. t = [out |-> Append(st.out, st.count), count |-> 1, bit |-> ~st.bit]  BY <1>5 DEF Counted
  <2>2. t.out = Append(st.out, st.count) /\ t.bit = ~st.bit /\ t.count = 1  BY <2>1
  <2>3. /\ s \in ReadType /\ s.index = n + 1 /\ s.bit = ~st.bit
        /\ \A x \in Nat : is_set(s.flags, x) <=> 1 <= x /\ x <= n /\ is_set(flags, walk[x])
    BY RunFinished
  <2>4. s.index + t.count = (n + 1) + 1 /\ s.index # 0  BY <2>2, <2>3
  <2>5. \A x \in Nat : x <= n <=> x < s.index  BY <2>3
  <2>6. \A x \in s.index .. n + 1 : x = n + 1  BY <2>3
  <2>7. set <=> t.bit  BY <1>2, <1>5, <2>2
  <2>8. \A x \in s.index .. n + 1 : x >= 1 => (is_set(flags, walk[x]) <=> t.bit)  BY <2>6, <2>7
  <2>9. Decoding(t.out) = s  BY <2>2
  <2>10. \A x \in Nat : is_set(s.flags, x) <=> 1 <= x /\ x < s.index /\ is_set(flags, walk[x])
    BY <2>3, <2>5
  <2>11. s.bit = t.bit  BY <2>2, <2>3
  <2> HIDE DEF t, set, s
  <2>12. RunsOf(t, flags, walk, n + 1)
    BY <1>3, <2>3, <2>4, <2>8, <2>9, <2>10, <2>11, Zenon DEF RunsOf
  <2> QED  BY <2>12 DEF t, set
<1> QED  BY <1>4, <1>5

\* What get_explored_rle writes, convert_explored_rle reads as the places in the
\* walk of the rooms that are set.
LEMMA RunsFacts ==
  ASSUME NEW flags \in FlagType, NEW walk \in Seq(Nat)
  PROVE  /\ Runs(flags, walk, 1) # <<>>
         /\ convert_explored_rle(Runs(flags, walk, 1)) \in FlagType
         /\ Bits(convert_explored_rle(Runs(flags, walk, 1))) =
              {x \in 1 .. Len(walk) : is_set(flags, walk[x])}
<1> DEFINE f == CHOOSE g : CountOf(g, flags, walk)
           n == Len(walk)
           T == {i \in Nat : RunsOf(f[i], flags, walk, i)}
<1>1. CountOf(f, flags, walk)  BY CountExists
<1>2. Counting(flags, walk, 1) = f[Len(walk)]  BY Zenon DEF Counting, CountOf, CountFirst
<1> HIDE DEF f
<1>3. n \in Nat  OBVIOUS
<1>4. \A i \in 0 .. n : f[i] = IF i = 0 THEN CountFirst
                               ELSE Counted(f[i - 1], is_set(flags, walk[i]))
  BY <1>1 DEF CountOf
<1> HIDE DEF n
<1>5. 0 \in T
  <2>1. f[0] = CountFirst /\ CountFirst.out = <<>> /\ CountFirst.count = 1 /\ CountFirst.bit = FALSE
    BY <1>3, <1>4 DEF CountFirst
  <2>2. CountFirst \in CountType  BY DEF CountFirst, CountType
  <2>3. Decoding(<<>>) = ReadFirst /\ Decoding(<<>>) \in ReadType
    <3>1. <<>> \in Seq(Nat) /\ Len(<<>>) = 0  OBVIOUS
    <3>2. PICK g : ReadBy(g, <<>>)  BY <3>1, DecodingFacts
    <3> QED  BY <3>1, <3>2, DecodingFacts DEF ReadBy
  <2>4. ReadFirst.flags = new_flag /\ ReadFirst.index = 0 /\ ReadFirst.bit = FALSE  BY DEF ReadFirst
  <2>5. \A x \in Nat : ~ is_set(new_flag, x)  BY NewFlag DEF Bits
  <2>6. \A x \in Nat : ~ (1 <= x /\ x < 0)  OBVIOUS
  <2>7. \A x \in 0 .. 0 : ~ (x >= 1)  OBVIOUS
  <2> DEFINE r == Decoding(CountFirst.out)
  <2>8. r = ReadFirst  BY <2>1, <2>3
  <2>9. r \in ReadType /\ r.flags = new_flag /\ r.index = 0 /\ r.bit = FALSE  BY <2>3, <2>4, <2>8
  <2> HIDE DEF r
  <2>10. RunsOf(CountFirst, flags, walk, 0)
    <3>1. r.index + CountFirst.count = 0 + 1  BY <2>1, <2>9
    <3>2. \A x \in Nat : is_set(r.flags, x) <=> 1 <= x /\ x < r.index /\ is_set(flags, walk[x])
      BY <2>5, <2>6, <2>9
    <3>3. \A x \in r.index .. 0 : x >= 1 => (is_set(flags, walk[x]) <=> CountFirst.bit)  BY <2>7, <2>9
    <3> QED  BY <2>1, <2>2, <2>9, <3>1, <3>2, <3>3 DEF RunsOf, r
  <2> QED  BY <2>1, <2>10
<1>6. ASSUME NEW i \in 1 .. n, i - 1 \in T PROVE i \in T
  <2> DEFINE j == i - 1
  <2>1. j \in Nat /\ j + 1 = i /\ i \in 0 .. n /\ i # 0 /\ i \in Nat  BY <1>3
  <2>2. f[i] = Counted(f[j], is_set(flags, walk[i]))  BY <1>4, <2>1
  <2>3. RunsOf(f[j], flags, walk, j)  BY <1>6
  <2> HIDE DEF j
  <2>4. RunsOf(Counted(f[j], is_set(flags, walk[j + 1])), flags, walk, j + 1)  BY <2>1, <2>3, RunGoesOn
  <2>5. RunsOf(f[i], flags, walk, i)  BY <2>1, <2>2, <2>4
  <2> QED  BY <2>1, <2>5
<1>7. 0 .. n \subseteq T
  <2> HIDE DEF T
  <2> QED  BY <1>3, <1>5, <1>6, Upwards
<1> DEFINE st == f[n]  rle == Append(st.out, st.count)  r == Decoding(rle)
<1>8. RunsOf(st, flags, walk, n)  BY <1>3, <1>7
<1>9. Runs(flags, walk, 1) = rle  BY <1>2 DEF Runs, n
<1> HIDE DEF st
<1>10. /\ r \in ReadType
       /\ \A x \in Nat : is_set(r.flags, x) <=> 1 <= x /\ x <= n /\ is_set(flags, walk[x])
  BY <1>3, <1>8, RunFinished
<1>11. rle # <<>>
  <2>1. st.out \in Seq(Nat \ {0}) /\ st.count \in Nat \ {0}  BY <1>8 DEF RunsOf, CountType
  <2>2. Len(rle) = Len(st.out) + 1 /\ Len(st.out) \in Nat  BY <2>1
  <2>3. Len(<<>>) = 0  OBVIOUS
  <2> HIDE DEF rle
  <2> QED  BY <2>2, <2>3
<1> HIDE DEF rle
<1>12. convert_explored_rle(rle) = r.flags  BY DEF convert_explored_rle
<1>13. r.flags \in FlagType  BY <1>10 DEF ReadType
<1> HIDE DEF r
<1>14. Bits(r.flags) = {x \in 1 .. n : is_set(flags, walk[x])}
  <2>1. \A x : x \in 1 .. n <=> x \in Nat /\ 1 <= x /\ x <= n  BY <1>3
  <2> QED  BY <1>10, <2>1 DEF Bits
<1> QED  BY <1>9, <1>11, <1>12, <1>13, <1>14 DEF n

-----------------------------------------------------------------------------
(* Explored rooms: the walk, while all ids are smaller than ID_HASH.       *)

UpTo(k) == [i \in 1 .. k |-> i]

LEMMA OneList ==
  ASSUME NEW k \in Nat, k < ID_HASH, NEW h \in 0 .. ID_HASH - 1
  PROVE  Loaded(k)[h] = IF h \in 1 .. k THEN <<h>> ELSE <<>>
<1> DEFINE K == {r \in 1 .. k : r % ID_HASH = h}
<1>1. ID_HASH \in Nat \ {0}  BY ExploredAssumption
<1>2. \A r \in 1 .. k : r % ID_HASH = r
  <2> TAKE r \in 1 .. k
  <2>1. r \in 0 .. ID_HASH - 1 /\ 0 \in Int /\ ID_HASH * 0 + r = r  BY <1>1
  <2> QED  BY <1>1, <2>1, ModOf
<1>3. K = {r \in 1 .. k : r = h}  BY <1>2
<1>4. Loaded(k)[h] = Reverse(Sorted(K))  BY DEF Loaded
<1> HIDE DEF K
<1>5. CASE h \in 1 .. k
  <2> DEFINE f == [i \in 1 .. 1 |-> h]
  <2>1. K = {h} /\ h \in Nat  BY <1>3, <1>5
  <2>2. f \in [1 .. 1 -> K] /\ f[1] = h  BY <2>1
  <2>3. Rising(f, 1)  BY DEF Rising
  <2>4. \A x \in K : \E i \in 1 .. 1 : f[i] = x  BY <2>1, <2>2
  <2>5. K \in SUBSET Nat /\ 1 \in Nat  BY <2>1
  <2> HIDE DEF f
  <2>6. Sorted(K) = f  BY <2>2, <2>3, <2>4, <2>5, SortedIs
  <2>7. f = <<h>>  BY DEF f
  <2>8. Reverse(<<h>>) = <<h>>  BY DEF Reverse
  <2> QED  BY <1>4, <1>5, <2>6, <2>7, <2>8
<1>6. CASE h \notin 1 .. k
  <2> DEFINE f == [i \in 1 .. 0 |-> h]
  <2>1. K = {}  BY <1>3, <1>6
  <2>2. f \in [1 .. 0 -> K]  OBVIOUS
  <2>3. Rising(f, 0)  BY DEF Rising
  <2>4. \A x \in K : \E i \in 1 .. 0 : f[i] = x  BY <2>1
  <2>5. K \in SUBSET Nat /\ 0 \in Nat  BY <2>1
  <2> HIDE DEF f
  <2>6. Sorted(K) = f  BY <2>2, <2>3, <2>4, <2>5, SortedIs
  <2>7. f = <<>>  BY DEF f
  <2>8. Reverse(<<>>) = <<>>  BY DEF Reverse
  <2> QED  BY <1>4, <1>6, <2>6, <2>7, <2>8
<1> QED  BY <1>5, <1>6

\* The walk up to each list.
WalkOf(f, hash) ==
  f = [n \in 0 .. ID_HASH |-> IF n = 0 THEN <<>> ELSE f[n - 1] \o hash[n - 1]]

LEMMA UpToMore ==
  ASSUME NEW k \in Nat
  PROVE  UpTo(k) \o <<>> = UpTo(k) /\ UpTo(k) \o <<k + 1>> = UpTo(k + 1) /\ UpTo(0) = <<>>
         /\ UpTo(k) \in Seq(Nat) /\ Len(UpTo(k)) = k
<1> DEFINE a == UpTo(k)  b == <<k + 1>>
<1>1. a \in [1 .. k -> Nat] /\ \A i \in 1 .. k : a[i] = i  BY DEF UpTo
<1> HIDE DEF a
<1>2. a \in Seq(Nat) /\ Len(a) = k  BY <1>1, SeqFrom
<1>3. a \o <<>> = a  BY <1>2
<1>4. b \in Seq(Nat) /\ Len(b) = 1 /\ b[1] = k + 1  OBVIOUS
<1> HIDE DEF b
<1>5. a \o b \in Seq(Nat) /\ Len(a \o b) = k + 1
      /\ \A i \in 1 .. k + 1 : (a \o b)[i] = IF i <= k THEN a[i] ELSE b[i - k]
  <2>1. \A t \in Seq(Nat), u \in Seq(Nat) :
          /\ t \o u \in Seq(Nat) /\ Len(t \o u) = Len(t) + Len(u)
          /\ \A i \in 1 .. Len(t) + Len(u) : (t \o u)[i] = IF i <= Len(t) THEN t[i] ELSE u[i - Len(t)]
    OBVIOUS
  <2> QED  BY <1>2, <1>4, <2>1
<1>6. \A i \in 1 .. k + 1 : (a \o b)[i] = i
  <2> TAKE i \in 1 .. k + 1
  <2>1. i <= k => i \in 1 .. k  OBVIOUS
  <2>2. ~ (i <= k) => i = k + 1 /\ i - k = 1  OBVIOUS
  <2>3. CASE i <= k  BY <1>1, <1>5, <2>1, <2>3
  <2>4. CASE ~ (i <= k)  BY <1>4, <1>5, <2>2, <2>4
  <2> QED  BY <2>3, <2>4
<1>7. a \o b = [i \in 1 .. k + 1 |-> (a \o b)[i]]
  <2> DEFINE c == a \o b
  <2>1. c \in Seq(Nat) /\ Len(c) = k + 1  BY <1>5
  <2> HIDE DEF c
  <2>2. c = [i \in 1 .. k + 1 |-> c[i]]  BY <2>1
  <2> QED  BY <2>2 DEF c
<1>8. a \o b = UpTo(k + 1)  BY <1>6, <1>7 DEF UpTo
<1>9. UpTo(0) = <<>>  BY DEF UpTo
<1> QED  BY <1>2, <1>3, <1>8, <1>9 DEF a, b

LEMMA WalkIs ==
  ASSUME NEW k \in Nat, k < ID_HASH
  PROVE  Walk(Loaded(k)) = UpTo(k)
<1> DEFINE hash == Loaded(k)
           m(n) == IF n = 0 THEN 0 ELSE IF n - 1 <= k THEN n - 1 ELSE k
           f == CHOOSE g : WalkOf(g, hash)
           w == [n \in 0 .. ID_HASH |-> UpTo(m(n))]
           T == {n \in Nat : f[n] = UpTo(m(n))}
<1>1. ID_HASH \in Nat \ {0}  BY ExploredAssumption
<1>2. Walk(hash) = f[ID_HASH]  BY Zenon DEF Walk, WalkOf
<1>3. ASSUME NEW n \in 1 .. ID_HASH
      PROVE  UpTo(m(n - 1)) \o hash[n - 1] = UpTo(m(n))
  <2> DEFINE h == n - 1
  <2>1. h \in 0 .. ID_HASH - 1  BY <1>1
  <2>2. hash[h] = IF h \in 1 .. k THEN <<h>> ELSE <<>>  BY <2>1, OneList
  <2>3. m(h) \in Nat /\ m(n) \in Nat  BY <2>1
  <2>4. CASE h \in 1 .. k
    <3>1. m(n) = h /\ m(h) + 1 = h  BY <2>4
    <3> HIDE DEF hash, m, h
    <3>2. UpTo(m(h)) \o <<m(h) + 1>> = UpTo(m(h) + 1)  BY <2>3, UpToMore
    <3>3. hash[h] = <<h>>  BY <2>2, <2>4
    <3>4. UpTo(m(h)) \o hash[h] = UpTo(m(n))  BY <3>1, <3>2, <3>3
    <3> QED  BY <3>4 DEF h
  <2>5. CASE h \notin 1 .. k
    <3>1. m(n) = m(h)  BY <2>1, <2>5
    <3> HIDE DEF hash, m, h
    <3>2. UpTo(m(h)) \o <<>> = UpTo(m(h))  BY <2>3, UpToMore
    <3>3. hash[h] = <<>>  BY <2>2, <2>5
    <3>4. UpTo(m(h)) \o hash[h] = UpTo(m(n))  BY <3>1, <3>2, <3>3
    <3> QED  BY <3>4 DEF h
  <2> QED  BY <2>4, <2>5
<1>4. m(0) = 0 /\ UpTo(0) = <<>>  BY UpToMore
<1> HIDE DEF hash, m
<1>5. WalkOf(w, hash)
  <2>1. \A n \in 0 .. ID_HASH : n # 0 => n \in 1 .. ID_HASH /\ n - 1 \in 0 .. ID_HASH  BY <1>1
  <2>2. \A n \in 0 .. ID_HASH : w[n] = UpTo(m(n))  OBVIOUS
  <2>3. w = [n \in 0 .. ID_HASH |-> w[n]]  OBVIOUS
  <2> HIDE DEF w
  <2>4. \A n \in 0 .. ID_HASH : w[n] = IF n = 0 THEN <<>> ELSE w[n - 1] \o hash[n - 1]
    <3> TAKE n \in 0 .. ID_HASH
    <3>1. CASE n = 0  BY <1>4, <2>2, <3>1
    <3>2. CASE n # 0
      <4>1. n \in 1 .. ID_HASH /\ n - 1 \in 0 .. ID_HASH  BY <2>1, <3>2
      <4>2. w[n - 1] = UpTo(m(n - 1)) /\ w[n] = UpTo(m(n))  BY <2>2, <4>1
      <4>3. w[n] = w[n - 1] \o hash[n - 1]  BY <1>3, <4>1, <4>2
      <4> QED  BY <3>2, <4>3
    <3> QED  BY <3>1, <3>2
  <2>5. w = [n \in 0 .. ID_HASH |-> IF n = 0 THEN <<>> ELSE w[n - 1] \o hash[n - 1]]
    BY <2>3, <2>4, Zenon
  <2> QED  BY <2>5, Zenon DEF WalkOf
<1>6. WalkOf(f, hash)  BY <1>5, Zenon
<1> HIDE DEF f, w
<1>7. \A n \in 0 .. ID_HASH : f[n] = IF n = 0 THEN <<>> ELSE f[n - 1] \o hash[n - 1]
  BY <1>6 DEF WalkOf
<1>8. 0 \in T
  <2>1. 0 \in 0 .. ID_HASH  BY <1>1
  <2> QED  BY <1>4, <1>7, <2>1
<1>9. ASSUME NEW n \in 1 .. ID_HASH, n - 1 \in T PROVE n \in T
  <2>1. n \in 0 .. ID_HASH /\ n # 0 /\ n \in Nat  BY <1>1
  <2>2. f[n] = f[n - 1] \o hash[n - 1]  BY <1>7, <2>1
  <2>3. f[n - 1] = UpTo(m(n - 1))  BY <1>9
  <2>4. f[n] = UpTo(m(n))  BY <1>3, <2>2, <2>3
  <2> QED  BY <2>1, <2>4
<1>10. 0 .. ID_HASH \subseteq T
  <2> HIDE DEF T
  <2> QED  BY <1>1, <1>8, <1>9, Upwards
<1>11. f[ID_HASH] = UpTo(m(ID_HASH))  BY <1>1, <1>10
<1>12. m(ID_HASH) = k  BY <1>1 DEF m
<1> QED  BY <1>2, <1>11, <1>12 DEF hash

-----------------------------------------------------------------------------
(* Explored rooms: how many.                                               *)

LEMMA DivOf ==
  ASSUME NEW a \in Nat, NEW n \in Nat \ {0}, NEW q \in Int, NEW r \in 0 .. n - 1, a = n * q + r
  PROVE  a \div n = q
OBVIOUS

\* The bits of one element of the flags.
Layer(flags, n) == {x \in Bits(flags) : x \div Word = n}

\* The bits of the first n elements.
Below(flags, n) == {x \in Bits(flags) : x \div Word < n}

LEMMA LayerFacts ==
  ASSUME NEW flags \in FlagType, NEW n \in Nat, n < Len(flags)
  PROVE  IsFiniteSet(Layer(flags, n)) /\ Cardinality(Layer(flags, n)) = Cardinality(flags[n + 1])
<1> DEFINE S == flags[n + 1]
           L == Layer(flags, n)
           f == [b \in S |-> Word * n + b]
<1>1. Word \in Nat \ {0}  BY ExploredAssumption
<1>2. S \in SUBSET (0 .. Word - 1) /\ Len(flags) \in Nat
  <2>1. n + 1 \in 1 .. Len(flags)  BY DEF FlagType
  <2> QED  BY <2>1 DEF FlagType
<1>3. IsFiniteSet(S)
  <2>1. IsFiniteSet(0 .. Word - 1)  BY <1>1, FS_Interval
  <2> QED  BY <1>2, <2>1, FS_Subset
<1> HIDE DEF S
<1>4. \A b \in S : /\ Word * n + b \in Nat /\ (Word * n + b) \div Word = n
                   /\ (Word * n + b) % Word = b
  <2> TAKE b \in S
  <2>1. b \in 0 .. Word - 1  BY <1>2
  <2> DEFINE a == Word * n + b
  <2>2. a \in Nat /\ a = Word * n + b /\ n \in Int  BY <1>1, <2>1
  <2> HIDE DEF a
  <2>3. a \div Word = n /\ a % Word = b  BY <1>1, <2>1, <2>2, DivOf, ModOf
  <2> QED  BY <2>2, <2>3
<1>5. \A x : x \in L <=> x \in Nat /\ x \div Word = n /\ (x % Word) \in S
  <2>1. \A x : x \in L <=> x \in Nat /\ is_set(flags, x) /\ x \div Word = n  BY DEF Layer, Bits
  <2>2. \A x : x \div Word = n => (is_set(flags, x) <=> (x % Word) \in S)  BY DEF is_set, S
  <2> QED  BY <2>1, <2>2
<1>6. f \in [S -> L]
  <2>1. \A b \in S : Word * n + b \in L
    <3> TAKE b \in S
    <3> DEFINE a == Word * n + b
    <3>1. a \in Nat /\ a \div Word = n /\ a % Word = b  BY <1>4
    <3> HIDE DEF a, L
    <3>2. a \in L  BY <1>5, <3>1
    <3> QED  BY <3>2 DEF a
  <2> QED  BY <2>1
<1>7. \A b \in S, c \in S : f[b] = f[c] => b = c
  <2> SUFFICES ASSUME NEW b \in S, NEW c \in S, f[b] = f[c] PROVE b = c  OBVIOUS
  <2>1. Word * n + b = Word * n + c  OBVIOUS
  <2>2. (Word * n + b) % Word = b /\ (Word * n + c) % Word = c  BY <1>4
  <2> QED  BY <2>1, <2>2, Zenon
<1>8. \A x \in L : \E b \in S : f[b] = x
  <2> TAKE x \in L
  <2>1. x \in Nat /\ x \div Word = n /\ (x % Word) \in S  BY <1>5
  <2>2. x = Word * (x \div Word) + (x % Word)  BY <1>1, <2>1, DivMod
  <2>3. x = Word * n + (x % Word)  BY <2>1, <2>2, Zenon
  <2>4. f[x % Word] = x  BY <2>1, <2>3
  <2> QED  BY <2>1, <2>4
<1> HIDE DEF f, L
<1>9. f \in Bijection(S, L)
  BY <1>6, <1>7, <1>8 DEF Bijection, Injection, IsInjective, Surjection
<1>10. ExistsBijection(S, L)  BY <1>9 DEF ExistsBijection
<1>11. IsFiniteSet(L) /\ Cardinality(L) = Cardinality(S)  BY <1>3, <1>10, FS_Bijection
<1> QED  BY <1>11 DEF L, S

LEMMA UnionApart ==
  ASSUME NEW a, NEW b, IsFiniteSet(a), IsFiniteSet(b), a \cap b = {}
  PROVE  IsFiniteSet(a \cup b) /\ Cardinality(a \cup b) = Cardinality(a) + Cardinality(b)
<1>1. /\ IsFiniteSet(a \cup b)
      /\ Cardinality(a \cup b) = Cardinality(a) + Cardinality(b) - Cardinality(a \cap b)
  BY FS_Union, Zenon
<1>2. Cardinality(a \cap b) = 0  BY FS_EmptySet
<1>3. Cardinality(a) \in Nat /\ Cardinality(b) \in Nat  BY FS_CardinalityType
<1> QED  BY <1>1, <1>2, <1>3

LEMMA BelowFacts ==
  ASSUME NEW flags \in FlagType
  PROVE  /\ Below(flags, 0) = {} /\ Below(flags, Len(flags)) = Bits(flags)
         /\ \A n \in 0 .. Len(flags) : IsFiniteSet(Below(flags, n))
         /\ \A n \in 1 .. Len(flags) :
              Cardinality(Below(flags, n)) = Cardinality(Below(flags, n - 1)) + Cardinality(flags[n])
<1> DEFINE N == Len(flags)
           B(n) == Below(flags, n)
           T == {n \in Nat : n <= N => IsFiniteSet(B(n))}
<1>1. N \in Nat  BY DEF FlagType
<1>2. \A x \in Bits(flags) : x \in Nat /\ (x \div Word) \in Nat /\ (x \div Word) < N
  BY PlaceFacts DEF Bits, is_set
<1>3. B(0) = {}  BY <1>2 DEF Below
<1>4. B(N) = Bits(flags)  BY <1>2 DEF Below
<1>5. ASSUME NEW n \in 1 .. N
      PROVE  /\ n - 1 \in Nat /\ n - 1 < N /\ (n - 1) + 1 = n
             /\ B(n) = B(n - 1) \cup Layer(flags, n - 1)
             /\ B(n - 1) \cap Layer(flags, n - 1) = {}
             /\ IsFiniteSet(Layer(flags, n - 1))
             /\ Cardinality(Layer(flags, n - 1)) = Cardinality(flags[n])
  <2> DEFINE j == n - 1
  <2>1. j \in Nat /\ j < N /\ j + 1 = n  BY <1>1
  <2>2. \A q \in Nat : (q < n <=> q < j \/ q = j) /\ ~ (q < j /\ q = j)  BY <2>1
  <2>3. B(n) = B(j) \cup Layer(flags, j) /\ B(j) \cap Layer(flags, j) = {}
    <3> HIDE DEF j
    <3> QED  BY <1>2, <2>2 DEF Below, Layer
  <2>4. IsFiniteSet(Layer(flags, j)) /\ Cardinality(Layer(flags, j)) = Cardinality(flags[j + 1])
    <3> HIDE DEF j
    <3> QED  BY <2>1, LayerFacts
  <2>5. Cardinality(Layer(flags, j)) = Cardinality(flags[n])  BY <2>1, <2>4
  <2> QED  BY <2>1, <2>3, <2>4, <2>5
<1> HIDE DEF B
<1>6. IsFiniteSet(B(0)) /\ Cardinality({}) = 0 /\ IsFiniteSet({})  BY <1>3, FS_EmptySet
<1>7. 0 \in T  BY <1>6
<1>8. ASSUME NEW n \in 1 .. N, n - 1 \in T PROVE n \in T
  <2>1. n \in Nat /\ n - 1 <= N  BY <1>1
  <2>2. IsFiniteSet(B(n - 1))  BY <1>8, <2>1
  <2> DEFINE a == B(n - 1)  b == Layer(flags, n - 1)
  <2>3. IsFiniteSet(a) /\ IsFiniteSet(b) /\ a \cap b = {} /\ B(n) = a \cup b  BY <1>5, <2>2
  <2> HIDE DEF a, b
  <2>4. IsFiniteSet(a \cup b)  BY <2>3, UnionApart
  <2>5. IsFiniteSet(B(n))  BY <2>3, <2>4
  <2> QED  BY <2>1, <2>5
<1>9. 0 .. N \subseteq T
  <2> HIDE DEF T
  <2> QED  BY <1>1, <1>7, <1>8, Upwards
<1>10. \A n \in 0 .. N : IsFiniteSet(B(n))
  <2> TAKE n \in 0 .. N
  <2>1. n \in T /\ n <= N  BY <1>1, <1>9
  <2> QED  BY <2>1
<1>11. ASSUME NEW n \in 1 .. N
       PROVE  Cardinality(B(n)) = Cardinality(B(n - 1)) + Cardinality(flags[n])
  <2> DEFINE a == B(n - 1)  b == Layer(flags, n - 1)
  <2>1. n - 1 \in 0 .. N  BY <1>1
  <2>2. IsFiniteSet(a) /\ IsFiniteSet(b) /\ a \cap b = {} /\ B(n) = a \cup b
        /\ Cardinality(b) = Cardinality(flags[n])
    BY <1>5, <1>10, <2>1
  <2> HIDE DEF a, b
  <2>3. Cardinality(a \cup b) = Cardinality(a) + Cardinality(b)  BY <2>2, UnionApart
  <2> QED  BY <2>2, <2>3 DEF a
<1> QED  BY <1>3, <1>4, <1>10, <1>11 DEF B, N

RoomsOf(f, flags) ==
  f = [n \in 0 .. Len(flags) |-> IF n = 0 THEN 0 ELSE f[n - 1] + Cardinality(flags[n])]

\* roomcount counts the bits.
LEMMA RoomCountIs ==
  ASSUME NEW flags \in FlagType
  PROVE  roomcount(flags) = Cardinality(Bits(flags))
<1> DEFINE N == Len(flags)
           C(n) == Cardinality(Below(flags, n))
           f == CHOOSE g : RoomsOf(g, flags)
           w == [n \in 0 .. N |-> C(n)]
           T == {n \in Nat : f[n] = C(n)}
<1>1. N \in Nat  BY DEF FlagType
<1>2. roomcount(flags) = f[N]  BY Zenon DEF roomcount, RoomsOf
<1>3. C(0) = 0  BY BelowFacts, FS_EmptySet
<1>4. \A n \in 1 .. N : C(n) = C(n - 1) + Cardinality(flags[n])  BY BelowFacts
<1>5. C(N) = Cardinality(Bits(flags))  BY BelowFacts
<1> HIDE DEF C
<1>6. RoomsOf(w, flags)
  <2> HIDE DEF N
  <2>1. \A n \in 0 .. N : n # 0 => n \in 1 .. N /\ n - 1 \in 0 .. N  BY <1>1
  <2>2. \A n \in 0 .. N : w[n] = C(n)  OBVIOUS
  <2>3. w = [n \in 0 .. N |-> w[n]]  OBVIOUS
  <2> HIDE DEF w
  <2>4. \A n \in 0 .. N : w[n] = IF n = 0 THEN 0 ELSE w[n - 1] + Cardinality(flags[n])
    <3> TAKE n \in 0 .. N
    <3>1. CASE n = 0  BY <1>3, <2>2, <3>1
    <3>2. CASE n # 0
      <4>1. n \in 1 .. N /\ n - 1 \in 0 .. N  BY <2>1, <3>2
      <4>2. w[n - 1] = C(n - 1) /\ w[n] = C(n)  BY <2>2, <4>1
      <4>3. w[n] = w[n - 1] + Cardinality(flags[n])  BY <1>4, <4>1, <4>2
      <4> QED  BY <3>2, <4>3
    <3> QED  BY <3>1, <3>2
  <2>5. w = [n \in 0 .. N |-> IF n = 0 THEN 0 ELSE w[n - 1] + Cardinality(flags[n])]
    BY <2>3, <2>4, Zenon
  <2> QED  BY <2>5, Zenon DEF RoomsOf, N
<1>7. RoomsOf(f, flags)  BY <1>6, Zenon
<1> HIDE DEF f, w
<1>8. \A n \in 0 .. N : f[n] = IF n = 0 THEN 0 ELSE f[n - 1] + Cardinality(flags[n])
  BY <1>7 DEF RoomsOf
<1> HIDE DEF N
<1>9. 0 \in T
  <2>1. 0 \in 0 .. N  BY <1>1
  <2> QED  BY <1>3, <1>8, <2>1
<1>10. ASSUME NEW n \in 1 .. N, n - 1 \in T PROVE n \in T
  <2>1. n \in 0 .. N /\ n # 0 /\ n \in Nat  BY <1>1
  <2>2. f[n] = f[n - 1] + Cardinality(flags[n])  BY <1>8, <2>1
  <2>3. f[n - 1] = C(n - 1)  BY <1>10
  <2>4. f[n] = C(n)  BY <1>4, <2>2, <2>3
  <2> QED  BY <2>1, <2>4
<1>11. 0 .. N \subseteq T
  <2> HIDE DEF T
  <2> QED  BY <1>1, <1>9, <1>10, Upwards
<1>12. f[N] = C(N)  BY <1>1, <1>11
<1> QED  BY <1>2, <1>5, <1>12

-----------------------------------------------------------------------------
(* Explored rooms: what comes back.                                        *)

\* As long as all ids are smaller than ID_HASH, the rooms that come back are those
\* that were set and were in room_hash.
LEMMA WhatComesBack ==
  ASSUME NEW flags \in FlagType, NEW k \in Nat, k < ID_HASH
  PROVE  LET rle == get_explored_rle(flags, Loaded(k))
         IN /\ rle # <<>> /\ convert_explored_rle(rle) \in FlagType
            /\ Bits(convert_explored_rle(rle)) = {x \in 1 .. k : x \in Bits(flags)}
<1> DEFINE w == UpTo(k)
<1>1. Walk(Loaded(k)) = w  BY WalkIs
<1>2. w \in Seq(Nat) /\ Len(w) = k /\ \A x \in 1 .. k : w[x] = x  BY UpToMore DEF UpTo
<1>3. get_explored_rle(flags, Loaded(k)) = Runs(flags, w, 1)  BY <1>1, Zenon DEF get_explored_rle
<1> HIDE DEF w
<1>4. /\ Runs(flags, w, 1) # <<>>
      /\ convert_explored_rle(Runs(flags, w, 1)) \in FlagType
      /\ Bits(convert_explored_rle(Runs(flags, w, 1))) = {x \in 1 .. Len(w) : is_set(flags, w[x])}
  BY <1>2, RunsFacts
<1>5. {x \in 1 .. Len(w) : is_set(flags, w[x])} = {x \in 1 .. k : x \in Bits(flags)}
  BY <1>2 DEF Bits
<1> QED  BY <1>3, <1>4, <1>5

LEMMA SetIs ==
  ASSUME NEW flags, NEW n \in 0 .. MaxRoom, Bits(flags) \subseteq 1 .. n
  PROVE  Set(flags) = Bits(flags)
<1>1. MaxRoom \in Nat  BY ExploredAssumption
<1>2. Flags \subseteq Nat /\ 1 .. n \subseteq Flags  BY <1>1 DEF Flags
<1>3. \A x : x \in Bits(flags) <=> x \in Nat /\ is_set(flags, x)  BY DEF Bits
<1> QED  BY <1>2, <1>3 DEF Set

\* room_hash has the first k rooms, and none only if there are none.
HashOf(hash, n) == \E k \in 0 .. n : hash = Loaded(k) /\ (k = 0 => n = 0)

\* The flags are of rooms that there are.
FlagsOf(flags, n) == flags \in FlagType /\ Bits(flags) \subseteq 1 .. n

\* The column was written by get_explored_rle.
WrittenOf(rle, set, n) ==
  \E flags \in FlagType, k \in 0 .. n :
    rle = get_explored_rle(flags, Loaded(k)) /\ set = Set(flags) /\ Bits(flags) \subseteq 1 .. n

ExploredInv ==
  /\ room \in 0 .. MaxRoom
  /\ room < ID_HASH =>
       /\ HashOf(room_hash, room)
       /\ explored # NoFlags => FlagsOf(explored, room)
       /\ disk # <<>> => WrittenOf(disk, saved, room)

LEMMA MoreRooms ==
  ASSUME NEW n \in Nat, NEW flags, NEW rle, NEW set
  PROVE  /\ FlagsOf(flags, n) => FlagsOf(flags, n + 1)
         /\ WrittenOf(rle, set, n) => WrittenOf(rle, set, n + 1)
<1>1. 1 .. n \subseteq 1 .. n + 1 /\ 0 .. n \subseteq 0 .. n + 1  OBVIOUS
<1>2. FlagsOf(flags, n) => FlagsOf(flags, n + 1)  BY <1>1 DEF FlagsOf
<1>3. ASSUME WrittenOf(rle, set, n) PROVE WrittenOf(rle, set, n + 1)
  <2>1. PICK f \in FlagType, k \in 0 .. n :
          rle = get_explored_rle(f, Loaded(k)) /\ set = Set(f) /\ Bits(f) \subseteq 1 .. n
    BY <1>3 DEF WrittenOf
  <2>2. k \in 0 .. n + 1 /\ Bits(f) \subseteq 1 .. n + 1  BY <1>1, <2>1
  <2> QED  BY <2>1, <2>2 DEF WrittenOf
<1> QED  BY <1>2, <1>3

\* A player who comes back: his flags are of rooms that there are; those that were
\* saved and are not among them come after all that are.
LEMMA Back ==
  ASSUME NEW n \in 0 .. MaxRoom, n < ID_HASH, NEW rle, NEW set, WrittenOf(rle, set, n)
  PROVE  LET flags == convert_explored_rle(rle)
         IN /\ FlagsOf(flags, n) /\ Set(flags) \subseteq set
            /\ roomcount(flags) = Cardinality(Set(flags))
            /\ \A r \in set \ Set(flags) : \A q \in 1 .. n : q > r => q \notin Set(flags)
<1> DEFINE flags == convert_explored_rle(rle)
<1>1. PICK f \in FlagType, k \in 0 .. n :
        rle = get_explored_rle(f, Loaded(k)) /\ set = Set(f) /\ Bits(f) \subseteq 1 .. n
  BY DEF WrittenOf
<1>2. n \in Nat /\ k \in Nat /\ k < ID_HASH /\ 1 .. k \subseteq 1 .. n
  BY ExploredAssumption
<1>3. flags \in FlagType /\ Bits(flags) = {x \in 1 .. k : x \in Bits(f)}
  BY <1>1, <1>2, WhatComesBack
<1> HIDE DEF flags
<1>4. FlagsOf(flags, n) /\ Bits(flags) \subseteq 1 .. n  BY <1>2, <1>3 DEF FlagsOf
<1>5. Set(flags) = Bits(flags) /\ set = Bits(f)  BY <1>1, <1>4, SetIs
<1>6. roomcount(flags) = Cardinality(Set(flags))  BY <1>3, <1>5, RoomCountIs
<1>7. \A r \in set \ Set(flags) : \A q \in 1 .. n : q > r => q \notin Set(flags)
  <2> SUFFICES ASSUME NEW r \in set \ Set(flags), NEW q \in 1 .. n, q > r, q \in Set(flags)
               PROVE  FALSE
    OBVIOUS
  <2>1. r \in 1 .. n /\ r \notin 1 .. k /\ q \in 1 .. k  BY <1>1, <1>3, <1>5
  <2> QED  BY <1>2, <2>1
<1> QED  BY <1>3, <1>4, <1>5, <1>6, <1>7 DEF flags

LEMMA ExploredStart ==
  ASSUME ExploredInit
  PROVE  ExploredInv
<1>1. room = 0 /\ room_hash = Loaded(0) /\ explored = NoFlags /\ disk = <<>>  BY DEF ExploredInit
<1>2. room \in 0 .. MaxRoom /\ 0 \in 0 .. room  BY <1>1, ExploredAssumption
<1>3. HashOf(room_hash, room)  BY <1>1, <1>2 DEF HashOf
<1> QED  BY <1>1, <1>2, <1>3 DEF ExploredInv

\* The first room is at its place.
LEMMA FirstRoom ==
  ASSUME 1 < ID_HASH
  PROVE  Loaded(1) = [Loaded(0) EXCEPT ![1 % ID_HASH] = <<1>> \o Loaded(0)[1 % ID_HASH]]
<1> DEFINE a == Loaded(0)  b == Loaded(1)  H == 0 .. ID_HASH - 1
<1>1. ID_HASH \in Nat \ {0}  BY ExploredAssumption
<1>2. a = [h \in H |-> a[h]] /\ b = [h \in H |-> b[h]]  BY DEF Loaded
<1>3. \A h \in H : a[h] = <<>>
  <2> TAKE h \in H
  <2>1. h \notin 1 .. 0 /\ 0 < ID_HASH  BY <1>1
  <2>2. a[h] = IF h \in 1 .. 0 THEN <<h>> ELSE <<>>  BY <2>1, OneList
  <2> HIDE DEF a, H
  <2> QED  BY <2>1, <2>2, Zenon
<1>4. \A h \in H : b[h] = IF h = 1 THEN <<1>> ELSE <<>>
  <2> TAKE h \in H
  <2>1. h \in 1 .. 1 <=> h = 1  OBVIOUS
  <2>2. b[h] = IF h \in 1 .. 1 THEN <<h>> ELSE <<>>  BY OneList
  <2> HIDE DEF b, H
  <2>3. CASE h = 1  BY <2>1, <2>2, <2>3, Zenon
  <2>4. CASE h # 1  BY <2>1, <2>2, <2>4, Zenon
  <2> QED  BY <2>3, <2>4
<1>5. 1 % ID_HASH = 1 /\ 1 \in H
  <2>1. 1 \in 0 .. ID_HASH - 1 /\ ID_HASH * 0 + 1 = 1  BY <1>1
  <2> QED  BY <1>1, <2>1, ModOf
<1>6. <<1>> \o <<>> = <<1>>  OBVIOUS
<1> HIDE DEF a, b, H
<1> DEFINE c == [a EXCEPT ![1] = <<1>> \o a[1]]
<1>7. c = [h \in H |-> IF h = 1 THEN <<1>> \o a[1] ELSE a[h]]  BY <1>2, <1>5
<1>8. \A h \in H : (IF h = 1 THEN <<1>> \o a[1] ELSE a[h]) = b[h]  BY <1>3, <1>4, <1>5, <1>6
<1>9. c = b  BY <1>2, <1>7, <1>8
<1> QED  BY <1>5, <1>9 DEF a, b

LEMMA ExploredStep ==
  ASSUME ExploredInv, [ExploredNext]_exploredVars
  PROVE  ExploredInv'
<1>1. room \in 0 .. MaxRoom /\ room \in Nat /\ MaxRoom \in Nat /\ ID_HASH \in Nat
  BY ExploredAssumption DEF ExploredInv
<1>2. CASE load_rooms
  <2>1. /\ room' = room /\ room_hash' = Loaded(room) /\ explored' = NoFlags
        /\ disk' = disk /\ saved' = saved
    BY <1>2 DEF load_rooms
  <2>2. HashOf(room_hash', room')
    <3>1. room \in 0 .. room  BY <1>1
    <3> QED  BY <2>1, <3>1 DEF HashOf
  <2> QED  BY <2>1, <2>2 DEF ExploredInv
<1>3. CASE get_default_room
  <2>1. /\ Walk(room_hash) = <<>> /\ room < MaxRoom /\ room' = room + 1
        /\ room_hash' = [room_hash EXCEPT ![(room + 1) % ID_HASH] =
                           <<room + 1>> \o room_hash[(room + 1) % ID_HASH]]
        /\ explored' = explored /\ disk' = disk /\ saved' = saved
    BY <1>3 DEF get_default_room
  <2>2. room' \in 0 .. MaxRoom /\ (room' < ID_HASH => room < ID_HASH)  BY <1>1, <2>1
  <2>3. ASSUME room' < ID_HASH PROVE HashOf(room_hash', room')
    <3>1. PICK k \in 0 .. room : room_hash = Loaded(k) /\ (k = 0 => room = 0)
      BY <2>2, <2>3 DEF ExploredInv, HashOf
    <3>2. k \in Nat /\ k < ID_HASH  BY <1>1, <2>2, <2>3
    <3>3. UpTo(k) = <<>> /\ Len(UpTo(k)) = k
      <4>1. Walk(Loaded(k)) = UpTo(k)  BY <3>2, WalkIs
      <4> QED  BY <2>1, <3>1, <3>2, <4>1, UpToMore
    <3>4. k = 0 /\ room = 0
      <4>1. Len(<<>>) = 0  OBVIOUS
      <4>2. k = 0  BY <3>3, <4>1
      <4> QED  BY <3>1, <4>2
    <3>5. room + 1 = 1 /\ 1 < ID_HASH  BY <2>1, <2>3, <3>4
    <3>6. room_hash' = Loaded(1) /\ room' = 1  BY <2>1, <3>1, <3>4, <3>5, FirstRoom
    <3>7. 1 \in 0 .. 1 /\ 1 # 0  OBVIOUS
    <3> QED  BY <3>6, <3>7 DEF HashOf
  <2>4. room < ID_HASH => /\ explored # NoFlags => FlagsOf(explored, room + 1)
                          /\ disk # <<>> => WrittenOf(disk, saved, room + 1)
    BY <1>1, MoreRooms DEF ExploredInv
  <2> QED  BY <2>1, <2>2, <2>3, <2>4 DEF ExploredInv
<1>4. CASE save_room
  <2>1. /\ Walk(room_hash) # <<>> /\ room < MaxRoom /\ room' = room + 1 /\ room_hash' = room_hash
        /\ explored' = explored /\ disk' = disk /\ saved' = saved
    BY <1>4 DEF save_room
  <2>2. room' \in 0 .. MaxRoom /\ (room' < ID_HASH => room < ID_HASH)  BY <1>1, <2>1
  <2>3. ASSUME room' < ID_HASH PROVE HashOf(room_hash', room')
    <3>1. PICK k \in 0 .. room : room_hash = Loaded(k) /\ (k = 0 => room = 0)
      BY <2>2, <2>3 DEF ExploredInv, HashOf
    <3>2. k \in Nat /\ k < ID_HASH /\ k \in 0 .. room'  BY <1>1, <2>1, <2>2, <2>3
    <3>3. k # 0
      <4>1. Walk(Loaded(k)) = UpTo(k)  BY <3>2, WalkIs
      <4>2. UpTo(0) = <<>>  BY UpToMore
      <4> QED  BY <2>1, <3>1, <4>1, <4>2
    <3> QED  BY <2>1, <3>1, <3>2, <3>3 DEF HashOf
  <2>4. room < ID_HASH => /\ explored # NoFlags => FlagsOf(explored, room + 1)
                          /\ disk # <<>> => WrittenOf(disk, saved, room + 1)
    BY <1>1, MoreRooms DEF ExploredInv
  <2> QED  BY <2>1, <2>2, <2>3, <2>4 DEF ExploredInv
<1>5. CASE Enter
  <2>1. /\ room' = room /\ room_hash' = room_hash /\ disk' = disk /\ saved' = saved
        /\ explored' = IF disk = <<>> THEN new_flag ELSE convert_explored_rle(disk)
    BY <1>5 DEF Enter
  <2>2. ASSUME room < ID_HASH PROVE FlagsOf(explored', room)
    <3>1. CASE disk = <<>>  BY <2>1, <3>1, NewFlag DEF FlagsOf
    <3>2. CASE disk # <<>>
      <4>1. WrittenOf(disk, saved, room)  BY <2>2, <3>2 DEF ExploredInv
      <4>2. FlagsOf(convert_explored_rle(disk), room)  BY <1>1, <2>2, <4>1, Back
      <4> QED  BY <2>1, <3>2, <4>2
    <3> QED  BY <3>1, <3>2
  <2> QED  BY <2>1, <2>2 DEF ExploredInv
<1>6. CASE char_to_room
  <2>1. PICK r \in 1 .. room : explored # NoFlags /\ explored' = set_bit(explored, r)
    BY <1>6 DEF char_to_room
  <2>2. room' = room /\ room_hash' = room_hash /\ disk' = disk /\ saved' = saved
    BY <1>6 DEF char_to_room
  <2>3. ASSUME room < ID_HASH PROVE FlagsOf(explored', room)
    <3>1. explored \in FlagType /\ Bits(explored) \subseteq 1 .. room
      BY <2>1, <2>3 DEF ExploredInv, FlagsOf
    <3>2. r \in Nat  OBVIOUS
    <3>3. explored' \in FlagType /\ Bits(explored') = Bits(explored) \cup {r}
      BY <2>1, <3>1, <3>2, SetBitFacts
    <3> QED  BY <3>1, <3>3 DEF FlagsOf
  <2> QED  BY <2>2, <2>3 DEF ExploredInv
<1>7. CASE save_player
  <2>1. /\ explored # NoFlags /\ disk' = get_explored_rle(explored, room_hash)
        /\ saved' = Set(explored) /\ room' = room /\ room_hash' = room_hash /\ explored' = explored
    BY <1>7 DEF save_player
  <2>2. ASSUME room < ID_HASH PROVE WrittenOf(disk', saved', room)
    <3>1. PICK k \in 0 .. room : room_hash = Loaded(k)
      BY <2>2 DEF ExploredInv, HashOf
    <3>2. explored \in FlagType /\ Bits(explored) \subseteq 1 .. room
      BY <2>1, <2>2 DEF ExploredInv, FlagsOf
    <3> QED  BY <2>1, <3>1, <3>2 DEF WrittenOf
  <2> QED  BY <2>1, <2>2 DEF ExploredInv
<1>8. CASE do_explored_reset
  <2>1. /\ room' = room /\ room_hash' = room_hash /\ disk' = disk /\ saved' = saved
        /\ explored' = new_flag
    BY <1>8 DEF do_explored_reset
  <2>2. FlagsOf(new_flag, room)  BY NewFlag DEF FlagsOf
  <2> QED  BY <2>1, <2>2 DEF ExploredInv
<1>9. CASE Leave
  <2>1. /\ room' = room /\ room_hash' = room_hash /\ disk' = disk /\ saved' = saved
        /\ explored' = NoFlags
    BY <1>9 DEF Leave
  <2> QED  BY <2>1 DEF ExploredInv
<1>10. CASE UNCHANGED exploredVars
  BY <1>10 DEF exploredVars, ExploredInv
<1> QED
  BY <1>2, <1>3, <1>4, <1>5, <1>6, <1>7, <1>8, <1>9, <1>10 DEF ExploredNext

\* get_explored_rle, convert_explored_rle (explored.c), set_bit, roomcount (flag.c): a
\* player who comes back has explored rooms he had when he was saved, as many as
\* roomcount says, and lacks none of those but rooms that were not in room_hash then,
\* as long as all ids are smaller than ID_HASH: whatever was explored, however long.
THEOREM TheExploredComeBack == ExploredSpec => ExploredComesBack
<1>1. ExploredInit => ExploredInv  BY ExploredStart
<1>2. ExploredInv /\ [ExploredNext]_exploredVars => ExploredInv'  BY ExploredStep
<1>3. ExploredInv /\ [ExploredNext]_exploredVars =>
        [Enter /\ disk # <<>> /\ room < ID_HASH =>
           /\ Set(explored') \subseteq saved
           /\ roomcount(explored') = Cardinality(Set(explored'))
           /\ \A r \in saved \ Set(explored') :
                \A q \in 1 .. room : q > r => q \notin Set(explored')]_exploredVars
  <2> SUFFICES ASSUME ExploredInv, Enter, disk # <<>>, room < ID_HASH
               PROVE  /\ Set(explored') \subseteq saved
                      /\ roomcount(explored') = Cardinality(Set(explored'))
                      /\ \A r \in saved \ Set(explored') :
                           \A q \in 1 .. room : q > r => q \notin Set(explored')
    OBVIOUS
  <2> DEFINE flags == convert_explored_rle(disk)
  <2>1. explored' = flags  BY DEF Enter
  <2>2. room \in 0 .. MaxRoom /\ WrittenOf(disk, saved, room)  BY DEF ExploredInv
  <2>3. /\ Set(flags) \subseteq saved
        /\ roomcount(flags) = Cardinality(Set(flags))
        /\ \A r \in saved \ Set(flags) : \A q \in 1 .. room : q > r => q \notin Set(flags)
    BY <2>2, Back
  <2> HIDE DEF flags
  <2> QED  BY <2>1, <2>3
<1> QED  BY <1>1, <1>2, <1>3, PTL DEF ExploredSpec, ExploredComesBack

-----------------------------------------------------------------------------
(* The text editor: how a text falls into lines.                           *)

LEMMA EndsDiffer == NL # CR
BY DEF NL, CR

Chars == STRING \cup {NL, CR}

\* Where the line after the \n at p begins.
After(s, p) == IF p < Len(s) /\ s[p + 1] = CR THEN p + 2 ELSE p + 1

\* Line k begins at b[k] and has its \n at q[k]; what begins at b[n + 1] has none.
Splits(s, n, b, q) ==
  /\ s \in Seq(Chars) /\ n \in Nat
  /\ b \in [1 .. n + 1 -> Nat \ {0}] /\ q \in [1 .. n -> 1 .. Len(s)]
  /\ b[1] = 1
  /\ \A k \in 1 .. n :
       /\ b[k] <= q[k] /\ s[q[k]] = NL /\ b[k + 1] = After(s, q[k])
       /\ \A i \in b[k] .. q[k] - 1 : s[i] # NL
  /\ \A i \in b[n + 1] .. Len(s) : s[i] # NL
  /\ \A k \in 1 .. n + 1 : b[k] <= Len(s) => s[b[k]] # CR

SplitsLines(s) == \E n, b, q : Splits(s, n, b, q)

LEMMA SplitsFacts ==
  ASSUME NEW s, NEW n, NEW b, NEW q, Splits(s, n, b, q)
  PROVE  /\ Len(s) \in Nat /\ n \in Nat
         /\ \A k \in 1 .. n + 1 : b[k] \in 1 .. Len(s) + 1
         /\ \A k \in 1 .. n : /\ q[k] \in b[k] .. Len(s) /\ b[k + 1] \in {q[k] + 1, q[k] + 2}
                              /\ b[k + 1] = q[k] + 2 => s[q[k] + 1] = CR
         /\ \A j, k \in 1 .. n + 1 : j < k => q[j] < b[k] /\ b[j] < b[k]
         /\ Rising(q, n)
<1>1. /\ s \in Seq(Chars) /\ Len(s) \in Nat /\ n \in Nat
      /\ b \in [1 .. n + 1 -> Nat \ {0}] /\ q \in [1 .. n -> 1 .. Len(s)]
      /\ b[1] = 1
      /\ \A k \in 1 .. n :
           /\ b[k] <= q[k] /\ s[q[k]] = NL /\ b[k + 1] = After(s, q[k])
           /\ \A i \in b[k] .. q[k] - 1 : s[i] # NL
  BY DEF Splits
<1>2. \A k \in 1 .. n : k \in 1 .. n + 1 /\ k + 1 \in 1 .. n + 1 /\ q[k] \in 1 .. Len(s)
                        /\ b[k] \in Nat \ {0} /\ b[k + 1] \in Nat \ {0}
  <2>1. \A k \in 1 .. n : k \in 1 .. n + 1 /\ k + 1 \in 1 .. n + 1 BY <1>1
  <2> QED BY <1>1, <2>1
<1>3. ASSUME NEW k \in 1 .. n
      PROVE  /\ q[k] \in b[k] .. Len(s) /\ b[k + 1] \in {q[k] + 1, q[k] + 2}
             /\ b[k + 1] = q[k] + 2 => s[q[k] + 1] = CR
             /\ b[k + 1] <= Len(s) + 1
  <2>1. b[k] <= q[k] /\ b[k + 1] = After(s, q[k])  BY <1>1
  <2>2. q[k] \in 1 .. Len(s) /\ b[k] \in Nat \ {0}  BY <1>2
  <2>3. q[k] \in b[k] .. Len(s)  BY <1>1, <2>1, <2>2
  <2>4. \/ b[k + 1] = q[k] + 1
        \/ b[k + 1] = q[k] + 2 /\ s[q[k] + 1] = CR /\ q[k] < Len(s)
    BY <2>1 DEF After
  <2> QED  BY <1>1, <2>2, <2>3, <2>4
<1>4. ASSUME NEW k \in 1 .. n + 1 PROVE b[k] \in 1 .. Len(s) + 1
  <2>1. CASE k = 1  BY <1>1, <2>1
  <2>2. CASE k # 1
    <3>1. k - 1 \in 1 .. n /\ (k - 1) + 1 = k  BY <1>1, <2>2
    <3>2. b[k] <= Len(s) + 1 /\ b[k] \in Nat \ {0}  BY <1>2, <1>3, <3>1
    <3> QED  BY <1>1, <3>2
  <2> QED  BY <2>1, <2>2
<1>5. ASSUME NEW j \in 1 .. n + 1, NEW k \in 1 .. n + 1, j < k PROVE q[j] < b[k] /\ b[j] < b[k]
  <2> DEFINE T == {d \in Nat : (j + 1) + d <= n + 1 => q[j] < b[(j + 1) + d]}
  <2>1. j \in 1 .. n /\ k - (j + 1) \in Nat /\ (j + 1) + (k - (j + 1)) = k  BY <1>1, <1>5
  <2>2. 0 \in T
    <3>1. q[j] < b[j + 1]  BY <1>2, <1>3, <2>1
    <3>2. (j + 1) + 0 = j + 1 OBVIOUS
    <3> QED  BY <3>1, <3>2
  <2>3. ASSUME NEW d \in 1 .. k - (j + 1), d - 1 \in T PROVE d \in T
    <3>1. SUFFICES ASSUME (j + 1) + d <= n + 1 PROVE q[j] < b[(j + 1) + d]  BY <2>1
    <3> DEFINE i == (j + 1) + (d - 1)
    <3>2. i \in 1 .. n /\ i + 1 = (j + 1) + d /\ i <= n + 1  BY <1>1, <2>1, <3>1
    <3>3. q[j] < b[i]  BY <2>3, <3>2
    <3> HIDE DEF i
    <3>4. b[i] <= q[i] /\ q[i] < b[i + 1]  BY <1>2, <1>3, <3>2
    <3>5. q[j] \in Nat /\ b[i] \in Nat /\ q[i] \in Nat /\ b[i + 1] \in Nat  BY <1>2, <2>1, <3>2
    <3>6. q[j] < b[i + 1]  BY <3>3, <3>4, <3>5
    <3> QED  BY <3>2, <3>6
  <2>4. 0 .. k - (j + 1) \subseteq T
    <3> HIDE DEF T
    <3> QED  BY <2>1, <2>2, <2>3, Upwards
  <2>5. k - (j + 1) \in T  BY <2>1, <2>4
  <2>6. q[j] < b[k]  BY <1>1, <2>1, <2>5
  <2>7. b[j] <= q[j] /\ b[j] \in Nat /\ q[j] \in Nat /\ b[k] \in Nat  BY <1>1, <1>2, <2>1
  <2> QED  BY <2>6, <2>7
<1>6. Rising(q, n)
  <2> SUFFICES ASSUME NEW j \in 1 .. n, NEW k \in 1 .. n, j < k PROVE q[j] < q[k]
    BY DEF Rising
  <2>1. q[j] < b[k] /\ b[k] <= q[k]  BY <1>2, <1>3, <1>5
  <2>2. q[j] \in Nat /\ b[k] \in Nat /\ q[k] \in Nat  BY <1>2
  <2> QED  BY <2>1, <2>2
<1> QED  BY <1>1, <1>3, <1>4, <1>5, <1>6

\* Line k with what ends it; k = n + 1 is what has no end.
InLine(s, n, b, k, i) == k \in 1 .. n + 1 /\ b[k] <= i /\ (k <= n => i < b[k + 1])

\* Every character is of one line.
LEMMA LineExists ==
  ASSUME NEW s, NEW n, NEW b, NEW q, Splits(s, n, b, q), NEW i \in 1 .. Len(s)
  PROVE  \E k \in 1 .. n + 1 : InLine(s, n, b, k, i)
<1> DEFINE T == {k \in 1 .. n + 1 : b[k] <= i}
<1>1. n \in Nat /\ n + 1 \in Nat /\ b[1] = 1 /\ 1 \in 1 .. n + 1
  BY DEF Splits
<1>2. \A k \in 1 .. n + 1 : b[k] \in 1 .. Len(s) + 1 /\ Len(s) \in Nat  BY SplitsFacts
<1>3. T # {} /\ T \in SUBSET (1 .. n + 1)  BY <1>1
<1> HIDE DEF T
<1>4. PICK k \in T : \A j \in T : k >= j  BY <1>1, <1>3, GreatestNat
<1>5. k \in 1 .. n + 1 /\ b[k] <= i  BY <1>4 DEF T
<1>6. ASSUME k <= n PROVE i < b[k + 1]
  <2>1. k + 1 \in 1 .. n + 1 /\ ~ (k >= k + 1)  BY <1>1, <1>5, <1>6
  <2>2. ~ (b[k + 1] <= i)  BY <1>4, <2>1 DEF T
  <2> QED  BY <1>2, <2>1, <2>2
<1> QED  BY <1>5, <1>6 DEF InLine

LEMMA NewlinesAre ==
  ASSUME NEW s, NEW n, NEW b, NEW q, Splits(s, n, b, q)
  PROVE  Newlines(s) = {q[k] : k \in 1 .. n}
<1>1. /\ n \in Nat /\ Len(s) \in Nat
      /\ \A k \in 1 .. n : /\ b[k] <= q[k] /\ s[q[k]] = NL
                           /\ \A i \in b[k] .. q[k] - 1 : s[i] # NL
      /\ \A i \in b[n + 1] .. Len(s) : s[i] # NL
  BY SplitsFacts DEF Splits
<1>2. /\ \A k \in 1 .. n + 1 : b[k] \in 1 .. Len(s) + 1
      /\ \A k \in 1 .. n : /\ q[k] \in b[k] .. Len(s) /\ b[k + 1] \in {q[k] + 1, q[k] + 2}
                           /\ b[k + 1] = q[k] + 2 => s[q[k] + 1] = CR
  BY SplitsFacts
<1>3. ASSUME NEW i \in Newlines(s) PROVE i \in {q[k] : k \in 1 .. n}
  <2>1. i \in 1 .. Len(s) /\ s[i] = NL  BY DEF Newlines
  <2>2. PICK k \in 1 .. n + 1 : InLine(s, n, b, k, i)  BY <2>1, LineExists
  <2>3. b[k] <= i /\ b[k] \in Nat /\ i \in Nat /\ (k <= n => i < b[k + 1])
    BY <1>2, <2>1, <2>2 DEF InLine
  <2>4. k \in 1 .. n
    <3>1. SUFFICES ASSUME k = n + 1 PROVE FALSE  BY <1>1
    <3> QED  BY <1>1, <2>1, <2>3, <3>1
  <2>5. q[k] \in Nat /\ b[k + 1] \in {q[k] + 1, q[k] + 2} /\ ~ (i \in b[k] .. q[k] - 1)
    BY <1>1, <1>2, <2>1, <2>3, <2>4
  <2>6. i = q[k] \/ (i = q[k] + 1 /\ b[k + 1] = q[k] + 2)
    BY <2>3, <2>4, <2>5
  <2>7. i = q[k]  BY <1>2, <2>1, <2>4, <2>6, EndsDiffer
  <2> QED  BY <2>4, <2>7
<1>4. ASSUME NEW k \in 1 .. n PROVE q[k] \in Newlines(s)
  <2>1. q[k] \in 1 .. Len(s)  BY DEF Splits
  <2> QED  BY <1>1, <2>1 DEF Newlines
<1> QED  BY <1>3, <1>4

LEMMA CountLines ==
  ASSUME NEW s, NEW n, NEW b, NEW q, Splits(s, n, b, q)
  PROVE  count_lines(s) = n
<1>1. n \in Nat /\ Rising(q, n) /\ q \in [1 .. n -> 1 .. Len(s)]  BY SplitsFacts DEF Splits
<1>2. q \in [1 .. n -> Nat] /\ n \in 0 .. n  BY <1>1
<1> QED  BY <1>1, <1>2, NewlinesAre, RisingCount DEF count_lines

\* LineOf is the line that the character is of.
LEMMA LineOfIs ==
  ASSUME NEW s, NEW n, NEW b, NEW q, Splits(s, n, b, q), NEW i \in 1 .. Len(s),
         NEW k \in 1 .. n + 1, InLine(s, n, b, k, i)
  PROVE  LineOf(s, i) = k
<1>1. /\ n \in Nat /\ Len(s) \in Nat
      /\ \A j \in 1 .. n + 1 : b[j] \in 1 .. Len(s) + 1
      /\ \A j \in 1 .. n : /\ q[j] \in b[j] .. Len(s) /\ b[j + 1] \in {q[j] + 1, q[j] + 2}
                           /\ b[j + 1] = q[j] + 2 => s[q[j] + 1] = CR
      /\ \A j, m \in 1 .. n + 1 : j < m => q[j] < b[m] /\ b[j] < b[m]
      /\ Rising(q, n)
  BY SplitsFacts
<1>2. /\ \A j \in 1 .. n : /\ s[q[j]] = NL
                           /\ \A x \in b[j] .. q[j] - 1 : s[x] # NL
      /\ \A x \in b[n + 1] .. Len(s) : s[x] # NL
      /\ \A j \in 1 .. n + 1 : b[j] <= Len(s) => s[b[j]] # CR
  BY DEF Splits
<1>3. b[k] <= i /\ (k <= n => i < b[k + 1]) /\ b[k] \in Nat \ {0}  BY <1>1 DEF InLine
<1>4. q \in [1 .. n -> Nat]
  <2>1. q \in [1 .. n -> 1 .. Len(s)]  BY DEF Splits
  <2> QED  BY <2>1
<1>5. ASSUME NEW m \in 0 .. n, \A j \in 1 .. n : q[j] < i <=> j <= m
      PROVE  Cardinality({j \in Newlines(s) : j < i}) = m
  <2>1. {j \in Newlines(s) : j < i} = {q[j] : j \in 1 .. m}
    <3>1. Newlines(s) = {q[j] : j \in 1 .. n}  BY NewlinesAre
    <3>2. \A j \in 1 .. n : j <= m <=> j \in 1 .. m  BY <1>1
    <3>3. \A j \in 1 .. m : j \in 1 .. n  BY <1>1
    <3> QED  BY <1>5, <3>1, <3>2, <3>3
  <2>2. n \in Nat /\ Rising(q, n)  BY <1>1
  <2>3. Cardinality({q[j] : j \in 1 .. m}) = m  BY <1>4, <2>2, RisingCount
  <2> QED  BY <2>1, <2>3
<1>6. CASE k = n + 1 \/ i <= q[k]
  <2>1. ~ (i > 1 /\ s[i - 1] = NL /\ s[i] = CR)
    <3>1. SUFFICES ASSUME i > 1, s[i - 1] = NL, s[i] = CR PROVE FALSE  OBVIOUS
    <3>2. i # b[k]  BY <1>2, <3>1
    <3>3. i - 1 \in 1 .. Len(s) /\ b[k] <= i - 1  BY <1>1, <1>3, <3>1, <3>2
    <3>4. CASE k = n + 1  BY <1>1, <1>2, <3>1, <3>3, <3>4
    <3>5. CASE k \in 1 .. n /\ i <= q[k]
      <4>1. i - 1 \in b[k] .. q[k] - 1  BY <1>1, <1>3, <1>4, <3>3, <3>5
      <4> QED  BY <1>2, <3>1, <3>5, <4>1
    <3> QED  BY <1>1, <1>6, <3>4, <3>5
  <2>2. k - 1 \in 0 .. n  BY <1>1
  <2>3. ASSUME NEW j \in 1 .. n PROVE q[j] < i <=> j <= k - 1
    <3>1. CASE j < k
      <4>1. j \in 1 .. n + 1 /\ q[j] < b[k] /\ q[j] \in Nat  BY <1>1, <1>4, <3>1
      <4> QED  BY <1>1, <1>3, <3>1, <4>1
    <3>2. CASE j >= k
      <4>1. k \in 1 .. n /\ i <= q[k]  BY <1>1, <1>6, <3>2
      <4>2. q[k] <= q[j]
        <5>1. q[k] \in Nat /\ q[j] \in Nat  BY <1>4, <4>1
        <5>2. k < j => q[k] < q[j]  BY <1>1, <4>1 DEF Rising
        <5>3. k < j \/ j = k  BY <1>1, <3>2
        <5> QED  BY <5>1, <5>2, <5>3
      <4> QED  BY <1>1, <1>4, <3>2, <4>1, <4>2
    <3> QED  BY <1>1, <3>1, <3>2
  <2>4. Cardinality({j \in Newlines(s) : j < i}) = k - 1  BY <1>5, <2>2, <2>3
  <2> QED  BY <1>1, <2>1, <2>4 DEF LineOf
<1>7. CASE k \in 1 .. n /\ i > q[k]
  <2>1. i = q[k] + 1 /\ b[k + 1] = q[k] + 2 /\ s[i] = CR /\ s[i - 1] = NL /\ i > 1
    <3>1. q[k] \in b[k] .. Len(s) /\ b[k + 1] \in {q[k] + 1, q[k] + 2} /\ q[k] \in Nat  BY <1>1, <1>4, <1>7
    <3>2. i < b[k + 1]  BY <1>1, <1>3, <1>7
    <3>3. i = q[k] + 1 /\ b[k + 1] = q[k] + 2  BY <1>3, <1>7, <3>1, <3>2
    <3>4. i - 1 = q[k] /\ i > 1  BY <1>3, <3>1, <3>3
    <3> QED  BY <1>1, <1>2, <1>7, <3>3, <3>4
  <2>2. ASSUME NEW j \in 1 .. n PROVE q[j] < i <=> j <= k
    <3>1. CASE j <= k
      <4>1. q[j] \in Nat /\ q[k] \in Nat  BY <1>4, <1>7
      <4>2. q[j] <= q[k]  BY <1>1, <1>7, <3>1, <4>1 DEF Rising
      <4>3. q[j] < i  BY <2>1, <4>1, <4>2
      <4> QED  BY <3>1, <4>3
    <3>2. CASE j > k
      <4>1. k + 1 \in 1 .. n + 1 /\ j \in 1 .. n + 1 /\ b[j] <= q[j]  BY <1>1, <1>4, <1>7
      <4>2. b[k + 1] <= b[j]  BY <1>1, <3>2, <4>1
      <4>3. b[k + 1] \in Nat /\ b[j] \in Nat /\ q[j] \in Nat  BY <1>1, <1>4, <4>1
      <4>4. ~ (q[j] < i)
        <5>1. i < b[k + 1]  BY <1>3, <1>7
        <5> HIDE DEF InLine
        <5>2. \A x, y, z \in Nat : i < x /\ x <= y /\ y <= z => ~ (z < i)  OBVIOUS
        <5> QED  BY <4>1, <4>2, <4>3, <5>1, <5>2
      <4>5. ~ (j <= k)  BY <1>1, <1>7, <3>2
      <4> QED  BY <4>4, <4>5
    <3> QED  BY <1>1, <3>1, <3>2
  <2>3. k \in 0 .. n  BY <1>1, <1>7
  <2>4. Cardinality({j \in Newlines(s) : j < i}) = k  BY <1>5, <2>2, <2>3
  <2> QED  BY <2>1, <2>4 DEF LineOf
<1>8. k = n + 1 \/ k \in 1 .. n  BY <1>1
<1>9. \/ k = n + 1 \/ i <= q[k]
      \/ k \in 1 .. n /\ i > q[k]
  BY <1>4, <1>8
<1> QED  BY <1>6, <1>7, <1>9

\* s without what stands from place c to before d.
Cut(s, c, d) == [i \in 1 .. Len(s) - (d - c) |-> IF i < c THEN s[i] ELSE s[i + (d - c)]]

LEMMA DeleteIs ==
  ASSUME NEW s, NEW n, NEW b, NEW q, Splits(s, n, b, q), NEW k \in 1 .. n
  PROVE  string_linedel(s, k) = Cut(s, b[k], b[k + 1])
<1> DEFINE N == Len(s)  c == b[k]  d == b[k + 1]  w == d - c  m == N - w
           lineOf == [i \in 1 .. N |-> LineOf(s, i)]
           K == {i \in 1 .. N : lineOf[i] # k}
           f == [i \in 1 .. m |-> IF i < c THEN i ELSE i + w]
<1>1. N \in Nat /\ n \in Nat /\ c \in 1 .. N + 1 /\ d \in 1 .. N + 1 /\ c < d
  <2>1. n \in Nat /\ N \in Nat /\ k \in 1 .. n + 1 /\ k + 1 \in 1 .. n + 1 /\ k < k + 1
    BY SplitsFacts
  <2> QED  BY <2>1, SplitsFacts
<1>2. \A i \in 1 .. N : LineOf(s, i) = k <=> i \in c .. d - 1
  <2> TAKE i \in 1 .. N
  <2>1. PICK j \in 1 .. n + 1 : InLine(s, n, b, j, i)  BY LineExists
  <2>2. LineOf(s, i) = j  BY <2>1, LineOfIs
  <2>3. ASSUME j = k PROVE i \in c .. d - 1  BY <1>1, <2>1, <2>3 DEF InLine
  <2>4. ASSUME i \in c .. d - 1 PROVE LineOf(s, i) = k
    <3>1. k \in 1 .. n + 1  BY <1>1
    <3>2. InLine(s, n, b, k, i)  BY <1>1, <2>4, <3>1 DEF InLine
    <3> QED  BY <3>1, <3>2, LineOfIs
  <2> QED  BY <2>2, <2>3, <2>4
<1>3. string_linedel(s, k) = [i \in DOMAIN Sorted(K) |-> s[Sorted(K)[i]]]
  BY DEF string_linedel, LeftOut
<1> HIDE DEF N, c, d
<1>4. K = {i \in 1 .. N : i \notin c .. d - 1}  BY <1>2
<1> HIDE DEF lineOf, K
<1>5. m \in Nat /\ w \in Nat  BY <1>1
<1>6. f \in [1 .. m -> K]
  <2>1. ASSUME NEW i \in 1 .. m PROVE (IF i < c THEN i ELSE i + w) \in K  BY <1>1, <1>4
  <2> QED  BY <2>1
<1>7. Rising(f, m)
  <2>1. \A i \in 1 .. m : f[i] = IF i < c THEN i ELSE i + w  OBVIOUS
  <2> HIDE DEF f
  <2> QED  BY <1>1, <2>1 DEF Rising
<1>8. \A x \in K : \E i \in 1 .. m : f[i] = x
  <2> SUFFICES ASSUME NEW x \in K PROVE \E i \in 1 .. m : f[i] = x  OBVIOUS
  <2>1. CASE x < c
    <3>1. x \in 1 .. m  BY <1>1, <1>4, <2>1
    <3> QED  BY <2>1, <3>1
  <2>2. CASE ~ (x < c)
    <3>1. x - w \in 1 .. m /\ ~ (x - w < c) /\ (x - w) + w = x  BY <1>1, <1>4, <2>2
    <3>2. f[x - w] = x  BY <3>1
    <3> QED  BY <3>1, <3>2
  <2> QED  BY <2>1, <2>2
<1>9. K \in SUBSET Nat  BY <1>4
<1>10. Sorted(K) = f
  <2> HIDE DEF f, m
  <2> QED  BY <1>5, <1>6, <1>7, <1>8, <1>9, SortedIs
<1>11. string_linedel(s, k) = [i \in 1 .. m |-> s[f[i]]]  BY <1>3, <1>10
<1>12. \A i \in 1 .. m : s[f[i]] = IF i < c THEN s[i] ELSE s[i + w]  OBVIOUS
<1> HIDE DEF f
<1>13. string_linedel(s, k) = [i \in 1 .. m |-> IF i < c THEN s[i] ELSE s[i + w]]  BY <1>11, <1>12
<1> QED  BY <1>13 DEF Cut, c, d, N

\* Without lines there is none to delete.
LEMMA DeleteNone ==
  ASSUME NEW s, NEW n, NEW b, NEW q, Splits(s, n, b, q), n = 0
  PROVE  string_linedel(s, 0) = s
<1> DEFINE N == Len(s)
           lineOf == [i \in 1 .. N |-> LineOf(s, i)]
           K == {i \in 1 .. N : lineOf[i] # 0}
           f == [i \in 1 .. N |-> i]
<1>1. N \in Nat /\ s \in Seq(Chars)  BY DEF Splits
<1>2. \A i \in 1 .. N : LineOf(s, i) # 0
  <2> TAKE i \in 1 .. N
  <2>1. PICK j \in 1 .. n + 1 : InLine(s, n, b, j, i)  BY LineExists
  <2>2. LineOf(s, i) = j  BY <2>1, LineOfIs
  <2> QED  BY <2>2
<1>3. string_linedel(s, 0) = [i \in DOMAIN Sorted(K) |-> s[Sorted(K)[i]]]
  BY DEF string_linedel, LeftOut
<1>4. s = [i \in 1 .. N |-> s[i]]  BY <1>1
<1> HIDE DEF N
<1>5. K = 1 .. N  BY <1>2
<1> HIDE DEF K, lineOf
<1>6. /\ f \in [1 .. N -> K] /\ Rising(f, N) /\ K \in SUBSET Nat
      /\ \A x \in K : \E i \in 1 .. N : f[i] = x
  BY <1>5 DEF Rising
<1>7. Sorted(K) = f
  <2> HIDE DEF f
  <2> QED  BY <1>1, <1>6, SortedIs
<1>8. string_linedel(s, 0) = [i \in 1 .. N |-> s[f[i]]]  BY <1>3, <1>7
<1>9. \A i \in 1 .. N : s[f[i]] = s[i]  OBVIOUS
<1> QED  BY <1>4, <1>8, <1>9

\* The lines of a text without its line k.
CutBegins(n, b, k) == [j \in 1 .. n |-> IF j <= k THEN b[j] ELSE b[j + 1] - (b[k + 1] - b[k])]
CutEnds(n, b, q, k) == [j \in 1 .. n - 1 |-> IF j < k THEN q[j] ELSE q[j + 1] - (b[k + 1] - b[k])]

LEMMA CutSplits ==
  ASSUME NEW s, NEW n, NEW b, NEW q, Splits(s, n, b, q), NEW k \in 1 .. n
  PROVE  Splits(Cut(s, b[k], b[k + 1]), n - 1, CutBegins(n, b, k), CutEnds(n, b, q, k))
<1> DEFINE N == Len(s)  c == b[k]  d == b[k + 1]  w == d - c
           t == Cut(s, c, d)
           p == CutBegins(n, b, k)
           r == CutEnds(n, b, q, k)
<1>1. /\ n \in Nat /\ N \in Nat
      /\ \A j \in 1 .. n + 1 : b[j] \in 1 .. N + 1
      /\ \A j \in 1 .. n : q[j] \in b[j] .. N
      /\ \A j, m \in 1 .. n + 1 : j < m => q[j] < b[m] /\ b[j] < b[m]
  BY SplitsFacts
<1>2. /\ s \in Seq(Chars) /\ b[1] = 1
      /\ \A j \in 1 .. n : /\ s[q[j]] = NL /\ b[j + 1] = After(s, q[j])
                           /\ \A x \in b[j] .. q[j] - 1 : s[x] # NL
      /\ \A x \in b[n + 1] .. N : s[x] # NL
      /\ \A j \in 1 .. n + 1 : b[j] <= N => s[b[j]] # CR
  BY DEF Splits
<1>3. k \in 1 .. n + 1 /\ k + 1 \in 1 .. n + 1 /\ c \in 1 .. N + 1 /\ d \in 1 .. N + 1 /\ c < d
      /\ w \in Nat \ {0}
  <2>1. k \in 1 .. n + 1 /\ k + 1 \in 1 .. n + 1 /\ k < k + 1  BY <1>1
  <2>2. c \in 1 .. N + 1 /\ d \in 1 .. N + 1 /\ c < d  BY <1>1, <2>1
  <2> QED  BY <1>1, <2>1, <2>2
<1> HIDE DEF N
<1>4. t = [i \in 1 .. N - w |-> IF i < c THEN s[i] ELSE s[i + w]]  BY DEF Cut, N
<1>5. p = [j \in 1 .. n |-> IF j <= k THEN b[j] ELSE b[j + 1] - w]  BY DEF CutBegins
<1>6. r = [j \in 1 .. n - 1 |-> IF j < k THEN q[j] ELSE q[j + 1] - w]  BY DEF CutEnds
<1> HIDE DEF t, p, r
<1>7. t \in Seq(Chars) /\ Len(t) = N - w /\ N - w \in Nat /\ c - 1 <= N - w
  <2>1. N - w \in Nat /\ c - 1 <= N - w  BY <1>1, <1>3
  <2>2. \A i \in 1 .. N : s[i] \in Chars  BY <1>2 DEF N
  <2>3. \A i \in 1 .. N - w : (IF i < c THEN s[i] ELSE s[i + w]) \in Chars  BY <1>1, <1>3, <2>2
  <2>4. t \in [1 .. N - w -> Chars]  BY <1>4, <2>3
  <2> QED  BY <2>1, <2>4, SeqFrom
<1>8. \A i \in 1 .. N - w : t[i] = IF i < c THEN s[i] ELSE s[i + w]  BY <1>4
<1> HIDE DEF c, d, w
<1>9. \A j \in 1 .. n : /\ j < k => p[j] = b[j] /\ p[j] < c
                        /\ j >= k => p[j] = b[j + 1] - w /\ b[j + 1] >= d /\ c = d - w
                        /\ p[j] \in Nat \ {0}
  <2> TAKE j \in 1 .. n
  <2>1. CASE j < k
    <3>1. j \in 1 .. n + 1 /\ b[j] < c /\ b[j] \in 1 .. N + 1  BY <1>1, <1>3, <2>1 DEF c
    <3> QED  BY <1>1, <1>5, <2>1, <3>1
  <2>2. CASE j >= k
    <3>1. j + 1 \in 1 .. n + 1 /\ b[j + 1] >= d /\ b[j + 1] \in 1 .. N + 1
      BY <1>1, <1>3, <2>2 DEF d
    <3>2. c = d - w  BY <1>3 DEF w
    <3>3. p[j] = b[j + 1] - w  BY <1>1, <1>3, <1>5, <2>2, <3>1, <3>2 DEF c, d
    <3> QED  BY <1>1, <1>3, <2>2, <3>1, <3>2, <3>3
  <2> QED  BY <1>1, <2>1, <2>2
<1>10. \A j \in 1 .. n - 1 :
         /\ j < k => r[j] = q[j] /\ r[j] < c
         /\ j >= k => r[j] = q[j + 1] - w /\ q[j + 1] >= d
         /\ r[j] \in 1 .. N - w
  <2> TAKE j \in 1 .. n - 1
  <2>1. CASE j < k
    <3>1. j \in 1 .. n + 1 /\ j \in 1 .. n /\ q[j] < c /\ q[j] \in b[j] .. N /\ b[j] \in 1 .. N + 1
      BY <1>1, <1>3, <2>1 DEF c
    <3> QED  BY <1>1, <1>3, <1>6, <1>7, <2>1, <3>1
  <2>2. CASE j >= k
    <3>1. j + 1 \in 1 .. n /\ j \in 1 .. n /\ q[j + 1] >= b[j + 1] /\ b[j + 1] >= d
          /\ q[j + 1] <= N /\ q[j + 1] \in Nat /\ b[j + 1] \in Nat
      <4>1. j + 1 \in 1 .. n /\ j \in 1 .. n /\ j + 1 \in 1 .. n + 1  BY <1>1
      <4>2. b[j + 1] \in 1 .. N + 1 /\ q[j + 1] \in b[j + 1] .. N  BY <1>1, <4>1
      <4>3. b[j + 1] >= d  BY <1>9, <2>2, <4>1
      <4> QED  BY <1>1, <4>1, <4>2, <4>3
    <3>2. r[j] = q[j + 1] - w  BY <1>1, <1>6, <2>2
    <3>3. d \in Nat /\ q[j + 1] >= d /\ c = d - w  BY <1>3, <3>1 DEF w
    <3> QED  BY <1>1, <1>3, <2>2, <3>1, <3>2, <3>3
  <2> QED  BY <1>1, <2>1, <2>2
<1>11. p \in [1 .. (n - 1) + 1 -> Nat \ {0}] /\ r \in [1 .. n - 1 -> 1 .. Len(t)] /\ p[1] = 1
       /\ n - 1 \in Nat
  <2>1. (n - 1) + 1 = n /\ n - 1 \in Nat /\ 1 \in 1 .. n  BY <1>1
  <2>2. p \in [1 .. n -> Nat \ {0}]  BY <1>5, <1>9
  <2>3. r \in [1 .. n - 1 -> 1 .. Len(t)]  BY <1>6, <1>7, <1>10
  <2>4. p[1] = 1  BY <1>2, <1>5, <2>1
  <2> QED  BY <2>1, <2>2, <2>3, <2>4
\* the lines before k
<1>12. ASSUME NEW j \in 1 .. n - 1, j < k
       PROVE  /\ p[j] <= r[j] /\ t[r[j]] = NL /\ p[j + 1] = After(t, r[j])
              /\ \A i \in p[j] .. r[j] - 1 : t[i] # NL
  <2>1. j \in 1 .. n /\ j + 1 \in 1 .. n /\ j + 1 \in 1 .. n + 1  BY <1>1
  <2>2. /\ p[j] = b[j] /\ r[j] = q[j] /\ q[j] < c /\ q[j] \in 1 .. N - w
        /\ b[j] \in Nat \ {0} /\ b[j] <= q[j]
    <3>1. p[j] = b[j] /\ r[j] = q[j] /\ r[j] < c /\ r[j] \in 1 .. N - w /\ p[j] \in Nat \ {0}
      BY <1>9, <1>10, <1>12, <2>1
    <3>2. b[j] <= q[j]  BY <1>1, <2>1
    <3> QED  BY <3>1, <3>2
  <2>3. t[r[j]] = NL  BY <1>2, <1>8, <2>1, <2>2
  <2>4. ASSUME NEW i \in p[j] .. r[j] - 1 PROVE t[i] # NL
    <3>1. i \in b[j] .. q[j] - 1 /\ i \in 1 .. N - w /\ i < c  BY <1>1, <1>3, <2>2
    <3> QED  BY <1>2, <1>8, <2>1, <3>1
  <2>5. p[j + 1] = b[j + 1]
    <3>1. j + 1 <= k  BY <1>12
    <3> QED  BY <1>5, <2>1, <3>1
  <2>6. b[j + 1] <= c
    <3>1. j + 1 < k \/ j + 1 = k  BY <1>12
    <3> QED  BY <1>1, <1>3, <2>1, <3>1 DEF c
  <2>7. b[j + 1] = After(s, q[j])  BY <1>2, <2>1
  <2>8. After(t, q[j]) = After(s, q[j])
    <3>1. CASE q[j] + 1 < c
      <4>1. q[j] + 1 \in 1 .. N - w /\ q[j] < N - w /\ q[j] < N  BY <1>1, <1>3, <1>7, <2>2, <3>1
      <4>2. t[q[j] + 1] = s[q[j] + 1]  BY <1>8, <3>1, <4>1
      <4> QED  BY <1>7, <4>1, <4>2 DEF After, N
    <3>2. CASE q[j] + 1 = c
      <4>1. After(s, q[j]) = q[j] + 1  BY <2>2, <2>6, <2>7, <3>2 DEF After
      <4>2. ~ (q[j] < N - w /\ t[q[j] + 1] = CR)
        <5>1. SUFFICES ASSUME q[j] < N - w, t[c] = CR PROVE FALSE  BY <3>2
        <5>2. c \in 1 .. N - w /\ c + w = d /\ d <= N  BY <1>1, <1>3, <2>2, <3>2, <5>1 DEF w
        <5>3. t[c] = s[d]  BY <1>3, <1>8, <5>2
        <5> QED  BY <1>2, <1>3, <5>1, <5>2, <5>3 DEF d
      <4> QED  BY <1>7, <4>1, <4>2 DEF After
    <3> QED  BY <1>3, <2>2, <3>1, <3>2
  <2> QED  BY <2>2, <2>3, <2>4, <2>5, <2>7, <2>8
\* those after it
<1>13. ASSUME NEW j \in 1 .. n - 1, j >= k
       PROVE  /\ p[j] <= r[j] /\ t[r[j]] = NL /\ p[j + 1] = After(t, r[j])
              /\ \A i \in p[j] .. r[j] - 1 : t[i] # NL
  <2>1. j \in 1 .. n /\ j + 1 \in 1 .. n /\ (j + 1) + 1 \in 1 .. n + 1  BY <1>1
  <2> DEFINE x == q[j + 1]  y == b[j + 1]
  <2>2. /\ p[j] = y - w /\ r[j] = x - w /\ y >= d /\ c = d - w /\ y \in Nat /\ x \in y .. N
        /\ x \in Nat /\ r[j] \in 1 .. N - w
    <3>1. p[j] = y - w /\ y >= d /\ c = d - w  BY <1>9, <1>13, <2>1
    <3>2. r[j] = x - w /\ r[j] \in 1 .. N - w  BY <1>10, <1>13
    <3>3. x \in y .. N /\ y \in 1 .. N + 1
      <4>1. j + 1 \in 1 .. n + 1  BY <1>1, <2>1
      <4> QED  BY <1>1, <2>1, <4>1
    <3> QED  BY <1>1, <3>1, <3>2, <3>3
  <2>3. s[x] = NL /\ b[(j + 1) + 1] = After(s, x) /\ \A i \in y .. x - 1 : s[i] # NL
    BY <1>2, <2>1
  <2>4. p[j + 1] = b[(j + 1) + 1] - w  BY <1>5, <1>13, <2>1
  <2> HIDE DEF x, y
  <2>5. \A i \in 1 .. N - w : i >= c => t[i] = s[i + w] /\ i + w \in 1 .. N
    BY <1>1, <1>3, <1>8
  <2>6. r[j] >= c /\ r[j] + w = x  BY <1>3, <2>2
  <2>7. t[r[j]] = NL  BY <2>2, <2>3, <2>5, <2>6
  <2>8. ASSUME NEW i \in p[j] .. r[j] - 1 PROVE t[i] # NL
    <3>1. i >= c /\ i \in 1 .. N - w /\ i + w \in y .. x - 1  BY <1>1, <1>3, <2>2
    <3> QED  BY <2>3, <2>5, <3>1
  <2>9. After(t, r[j]) = After(s, x) - w
    <3>1. r[j] < N - w <=> x < N  BY <1>1, <1>3, <2>2
    <3>2. ASSUME x < N PROVE t[r[j] + 1] = s[x + 1]
      <4>1. r[j] + 1 \in 1 .. N - w /\ r[j] + 1 >= c /\ (r[j] + 1) + w = x + 1
        BY <1>1, <1>3, <2>2, <2>6, <3>2
      <4> QED  BY <2>5, <4>1
    <3>3. (r[j] + 1) = (x + 1) - w /\ (r[j] + 2) = (x + 2) - w  BY <1>3, <2>2
    <3>4. After(t, r[j]) = IF r[j] < N - w /\ t[r[j] + 1] = CR THEN r[j] + 2 ELSE r[j] + 1
      BY <1>7 DEF After
    <3>5. After(s, x) = IF x < N /\ s[x + 1] = CR THEN x + 2 ELSE x + 1
      BY DEF After, N
    <3> QED  BY <3>1, <3>2, <3>3, <3>4, <3>5
  <2>10. p[j] <= r[j]  BY <1>3, <2>2
  <2> QED  BY <2>3, <2>4, <2>7, <2>8, <2>9, <2>10
<1>14. ASSUME NEW i \in p[(n - 1) + 1] .. Len(t) PROVE t[i] # NL
  <2>1. (n - 1) + 1 = n /\ n \in 1 .. n /\ n >= k /\ n + 1 \in 1 .. n + 1  BY <1>1
  <2>2. p[n] = b[n + 1] - w /\ b[n + 1] >= d /\ c = d - w  BY <1>9, <2>1
  <2>3. b[n + 1] \in Nat  BY <1>1, <2>1
  <2>4. i >= c /\ i \in 1 .. N - w /\ i + w \in b[n + 1] .. N
    BY <1>1, <1>3, <1>7, <2>1, <2>2, <2>3
  <2>5. t[i] = s[i + w]  BY <1>3, <1>8, <2>4
  <2> QED  BY <1>2, <2>4, <2>5
<1>15. ASSUME NEW j \in 1 .. (n - 1) + 1, p[j] <= Len(t) PROVE t[p[j]] # CR
  <2>1. j \in 1 .. n /\ j \in 1 .. n + 1 /\ j + 1 \in 1 .. n + 1  BY <1>1
  <2>2. CASE j < k
    <3>1. p[j] = b[j] /\ p[j] < c /\ p[j] \in 1 .. N - w /\ b[j] <= N
      BY <1>1, <1>3, <1>7, <1>9, <1>15, <2>1, <2>2
    <3>2. t[p[j]] = s[b[j]]  BY <1>8, <3>1
    <3> QED  BY <1>2, <2>1, <3>1, <3>2
  <2>3. CASE j >= k
    <3>1. p[j] = b[j + 1] - w /\ b[j + 1] >= d /\ c = d - w /\ b[j + 1] \in Nat /\ p[j] \in Nat \ {0}
      BY <1>1, <1>9, <2>1, <2>3
    <3>2. p[j] >= c /\ p[j] \in 1 .. N - w /\ p[j] + w = b[j + 1] /\ b[j + 1] <= N
      BY <1>1, <1>3, <1>7, <1>15, <3>1
    <3>3. t[p[j]] = s[b[j + 1]]  BY <1>3, <1>8, <3>2
    <3> QED  BY <1>2, <2>1, <3>2, <3>3
  <2> QED  BY <1>1, <2>1, <2>2, <2>3
<1>16. \A j \in 1 .. n - 1 :
         /\ p[j] <= r[j] /\ t[r[j]] = NL /\ p[j + 1] = After(t, r[j])
         /\ \A i \in p[j] .. r[j] - 1 : t[i] # NL
  <2> TAKE j \in 1 .. n - 1
  <2>1. j < k \/ j >= k  BY <1>1
  <2> QED  BY <1>12, <1>13, <2>1
<1>17. Splits(t, n - 1, p, r)  BY <1>7, <1>11, <1>14, <1>15, <1>16 DEF Splits
<1> QED  BY <1>17 DEF t, p, r, c, d

\* The lines of a text with one more at its end.
Added(s, ln) == (s \o ln) \o <<NL, CR>>
AddBegins(n, b, len) == [j \in 1 .. n + 2 |-> IF j <= n + 1 THEN b[j] ELSE len + 1]
AddEnds(n, q, len) == [j \in 1 .. n + 1 |-> IF j <= n THEN q[j] ELSE len - 1]

LEMMA AddedFacts ==
  ASSUME NEW s \in Seq(Chars), NEW ln \in Seq(Chars)
  PROVE  /\ Added(s, ln) \in Seq(Chars) /\ Len(Added(s, ln)) = Len(s) + Len(ln) + 2
         /\ Len(s) \in Nat /\ Len(ln) \in Nat
         /\ \A i \in 1 .. Len(s) : Added(s, ln)[i] = s[i]
         /\ \A i \in 1 .. Len(ln) : Added(s, ln)[Len(s) + i] = ln[i]
         /\ Added(s, ln)[Len(s) + Len(ln) + 1] = NL
         /\ Added(s, ln)[Len(s) + Len(ln) + 2] = CR
<1> DEFINE u == s \o ln  e == <<NL, CR>>
<1>1. e \in Seq(Chars) /\ Len(e) = 2 /\ e[1] = NL /\ e[2] = CR  BY DEF Chars
<1>2. u \in Seq(Chars) /\ Len(u) = Len(s) + Len(ln) /\ Len(s) \in Nat /\ Len(ln) \in Nat
  OBVIOUS
<1>3. /\ \A i \in 1 .. Len(s) : u[i] = s[i]
      /\ \A i \in 1 .. Len(ln) : u[Len(s) + i] = ln[i]
  BY ConcatFacts
<1> HIDE DEF u, e
<1>4. /\ Len(u \o e) = Len(u) + Len(e) /\ u \o e \in Seq(Chars)
      /\ \A i \in 1 .. Len(u) : (u \o e)[i] = u[i]
      /\ \A i \in 1 .. Len(e) : (u \o e)[Len(u) + i] = e[i]
  <2>1. u \o e \in Seq(Chars)  BY <1>1, <1>2
  <2>2. u \in Seq(Chars) /\ e \in Seq(Chars)  BY <1>1, <1>2
  <2>3. /\ Len(u \o e) = Len(u) + Len(e)
        /\ \A i \in 1 .. Len(u) : (u \o e)[i] = u[i]
        /\ \A i \in 1 .. Len(e) : (u \o e)[Len(u) + i] = e[i]
    BY <2>2, ConcatFacts
  <2> QED  BY <2>1, <2>3
<1>5. Added(s, ln) = u \o e  BY DEF Added, u, e
<1> DEFINE t == u \o e
<1> HIDE DEF t
<1>6. Len(t) = Len(s) + Len(ln) + 2 /\ t \in Seq(Chars)  BY <1>1, <1>2, <1>4 DEF t
<1>7. \A i \in 1 .. Len(s) : t[i] = s[i]  BY <1>2, <1>3, <1>4 DEF t
<1>8. \A i \in 1 .. Len(ln) : t[Len(s) + i] = ln[i]
  <2> TAKE i \in 1 .. Len(ln)
  <2>1. Len(s) + i \in 1 .. Len(u)  BY <1>2
  <2> QED  BY <1>3, <1>4, <2>1 DEF t
<1>9. t[Len(s) + Len(ln) + 1] = NL /\ t[Len(s) + Len(ln) + 2] = CR
  <2>1. 1 \in 1 .. Len(e) /\ 2 \in 1 .. Len(e)  BY <1>1
  <2>2. t[Len(u) + 1] = NL /\ t[Len(u) + 2] = CR  BY <1>1, <1>4, <2>1 DEF t
  <2> QED  BY <1>2, <2>2
<1> QED  BY <1>2, <1>5, <1>6, <1>7, <1>8, <1>9 DEF t

LEMMA AddSplits ==
  ASSUME NEW s, NEW n, NEW b, NEW q, Splits(s, n, b, q),
         NEW ln \in Seq(Chars), \A i \in 1 .. Len(ln) : ln[i] \notin {NL, CR}
  PROVE  LET len == Len(s) + Len(ln) + 2
         IN Splits(Added(s, ln), n + 1, AddBegins(n, b, len), AddEnds(n, q, len))
<1> DEFINE N == Len(s)  m == Len(ln)  len == N + m + 2
           t == Added(s, ln)
           p == AddBegins(n, b, len)
           r == AddEnds(n, q, len)
<1>1. /\ n \in Nat /\ N \in Nat
      /\ \A j \in 1 .. n + 1 : b[j] \in 1 .. N + 1
      /\ \A j \in 1 .. n : q[j] \in b[j] .. N
  BY SplitsFacts
<1>2. /\ s \in Seq(Chars) /\ b[1] = 1 /\ b \in [1 .. n + 1 -> Nat \ {0}]
      /\ \A j \in 1 .. n : /\ s[q[j]] = NL /\ b[j + 1] = After(s, q[j])
                           /\ \A x \in b[j] .. q[j] - 1 : s[x] # NL
      /\ \A x \in b[n + 1] .. N : s[x] # NL
      /\ \A j \in 1 .. n + 1 : b[j] <= N => s[b[j]] # CR
  BY DEF Splits
<1>3. /\ t \in Seq(Chars) /\ Len(t) = len /\ m \in Nat
      /\ \A i \in 1 .. N : t[i] = s[i]
      /\ \A i \in 1 .. m : t[N + i] = ln[i]
      /\ t[(N + m) + 1] = NL /\ t[(N + m) + 2] = CR
  BY <1>2, AddedFacts
<1>4. \A i \in 1 .. m : ln[i] # NL /\ ln[i] # CR  OBVIOUS
<1>5. p = [j \in 1 .. n + 2 |-> IF j <= n + 1 THEN b[j] ELSE len + 1]  BY DEF AddBegins
<1>6. r = [j \in 1 .. n + 1 |-> IF j <= n THEN q[j] ELSE len - 1]  BY DEF AddEnds
<1> HIDE DEF N, m, t, p, r
<1>7. len = (N + m) + 2 /\ len \in Nat /\ len - 1 = (N + m) + 1  BY <1>1, <1>3
<1> HIDE DEF len
<1>8. t[N + 1] # CR
  <2>1. CASE m = 0  BY <1>1, <1>3, <2>1, EndsDiffer
  <2>2. CASE m # 0
    <3>1. 1 \in 1 .. m  BY <1>3, <2>2
    <3> QED  BY <1>3, <1>4, <3>1
  <2> QED  BY <2>1, <2>2
<1>9. \A i \in N + 1 .. len - 2 : t[i] # NL
  <2> TAKE i \in N + 1 .. len - 2
  <2>1. i - N \in 1 .. m /\ N + (i - N) = i  BY <1>1, <1>3, <1>7
  <2> QED  BY <1>3, <1>4, <2>1
<1>10. /\ p \in [1 .. (n + 1) + 1 -> Nat \ {0}] /\ r \in [1 .. n + 1 -> 1 .. Len(t)]
       /\ p[1] = 1 /\ n + 1 \in Nat
  <2>1. (n + 1) + 1 = n + 2 /\ n + 1 \in Nat /\ 1 \in 1 .. n + 2 /\ 1 <= n + 1  BY <1>1
  <2>2. p \in [1 .. n + 2 -> Nat \ {0}]
    <3>1. \A j \in 1 .. n + 2 : j <= n + 1 => j \in 1 .. n + 1  BY <1>1
    <3> QED  BY <1>2, <1>5, <1>7, <3>1
  <2>3. \A j \in 1 .. n + 1 : j <= n => j \in 1 .. n + 1 /\ j \in 1 .. n  BY <1>1
  <2>4. \A j \in 1 .. n + 1 : (IF j <= n THEN q[j] ELSE len - 1) \in 1 .. len
    <3> TAKE j \in 1 .. n + 1
    <3>1. j <= n => q[j] \in b[j] .. N /\ b[j] \in 1 .. N + 1  BY <1>1, <2>3
    <3> QED  BY <1>1, <1>3, <1>7, <3>1
  <2>5. r \in [1 .. n + 1 -> 1 .. Len(t)]  BY <1>3, <1>6, <2>4
  <2> QED  BY <1>2, <1>5, <2>1, <2>2, <2>5
<1>11. ASSUME NEW j \in 1 .. n
       PROVE  /\ p[j] <= r[j] /\ t[r[j]] = NL /\ p[j + 1] = After(t, r[j])
              /\ \A i \in p[j] .. r[j] - 1 : t[i] # NL
  <2>1. j \in 1 .. n + 1 /\ j \in 1 .. n + 2 /\ j + 1 \in 1 .. n + 1 /\ j + 1 \in 1 .. n + 2
    BY <1>1
  <2>2. p[j] = b[j] /\ r[j] = q[j] /\ p[j + 1] = b[j + 1]  BY <1>1, <1>5, <1>6, <2>1
  <2>3. q[j] \in b[j] .. N /\ b[j] \in 1 .. N + 1  BY <1>1, <2>1
  <2>4. \A i \in b[j] .. q[j] : t[i] = s[i]
    <3>1. \A i \in b[j] .. q[j] : i \in 1 .. N  BY <1>1, <2>3
    <3> QED  BY <1>3, <3>1
  <2>5. t[q[j]] = NL /\ \A i \in b[j] .. q[j] - 1 : t[i] # NL
    <3>1. q[j] \in b[j] .. q[j] /\ \A i \in b[j] .. q[j] - 1 : i \in b[j] .. q[j]
      BY <1>1, <2>3
    <3> QED  BY <1>2, <2>4, <3>1
  <2>6. After(t, q[j]) = After(s, q[j])
    <3>1. CASE q[j] < N
      <4>1. q[j] + 1 \in 1 .. N /\ q[j] < len  BY <1>1, <1>3, <1>7, <2>3, <3>1
      <4> QED  BY <1>3, <3>1, <4>1 DEF After, N
    <3>2. CASE q[j] = N  BY <1>3, <1>8, <3>2, <1>1 DEF After, N
    <3> QED  BY <1>1, <2>3, <3>1, <3>2
  <2>7. b[j + 1] = After(s, q[j])  BY <1>2
  <2>8. b[j] <= q[j]  BY <1>1, <2>3
  <2> QED  BY <2>2, <2>5, <2>6, <2>7, <2>8
<1>12. /\ p[n + 1] <= r[n + 1] /\ t[r[n + 1]] = NL /\ p[(n + 1) + 1] = After(t, r[n + 1])
       /\ \A i \in p[n + 1] .. r[n + 1] - 1 : t[i] # NL
  <2>1. n + 1 \in 1 .. n + 1 /\ n + 1 \in 1 .. n + 2 /\ (n + 1) + 1 \in 1 .. n + 2
        /\ ~ (n + 1 <= n) /\ ~ ((n + 1) + 1 <= n + 1)
    BY <1>1
  <2>2. p[n + 1] = b[n + 1] /\ r[n + 1] = len - 1 /\ p[(n + 1) + 1] = len + 1
    BY <1>5, <1>6, <2>1
  <2>3. b[n + 1] \in 1 .. N + 1  BY <1>1, <2>1
  <2>4. b[n + 1] <= len - 1  BY <1>1, <1>3, <1>7, <2>3
  <2>5. t[len - 1] = NL /\ t[len] = CR  BY <1>3, <1>7
  <2>6. After(t, len - 1) = len + 1
    <3>1. (len - 1) + 1 = len /\ len - 1 < len /\ (len - 1) + 2 = len + 1  BY <1>7
    <3> QED  BY <1>3, <2>5, <3>1 DEF After
  <2>7. ASSUME NEW i \in b[n + 1] .. (len - 1) - 1 PROVE t[i] # NL
    <3>1. CASE i <= N
      <4>1. i \in 1 .. N /\ i \in b[n + 1] .. N  BY <1>1, <2>3, <3>1
      <4> QED  BY <1>2, <1>3, <4>1
    <3>2. CASE ~ (i <= N)
      <4>1. i \in N + 1 .. len - 2  BY <1>1, <1>7, <2>3, <3>2
      <4> QED  BY <1>9, <4>1
    <3> QED  BY <3>1, <3>2
  <2> QED  BY <2>2, <2>4, <2>5, <2>6, <2>7
<1>13. \A i \in p[(n + 1) + 1] .. Len(t) : t[i] # NL
  <2>1. (n + 1) + 1 \in 1 .. n + 2 /\ ~ ((n + 1) + 1 <= n + 1)  BY <1>1
  <2>2. p[(n + 1) + 1] = len + 1  BY <1>5, <2>1
  <2> QED  BY <1>3, <1>7, <2>2
<1>14. ASSUME NEW j \in 1 .. (n + 1) + 1, p[j] <= Len(t) PROVE t[p[j]] # CR
  <2>1. j \in 1 .. n + 2  BY <1>1
  <2>2. CASE j <= n + 1
    <3>1. j \in 1 .. n + 1 /\ p[j] = b[j] /\ b[j] \in 1 .. N + 1  BY <1>1, <1>5, <2>1, <2>2
    <3>2. CASE b[j] = N + 1  BY <1>8, <3>1, <3>2
    <3>3. CASE b[j] # N + 1
      <4>1. b[j] \in 1 .. N /\ b[j] <= N  BY <1>1, <3>1, <3>3
      <4> QED  BY <1>2, <1>3, <3>1, <4>1
    <3> QED  BY <3>2, <3>3
  <2>3. CASE ~ (j <= n + 1)
    <3>1. p[j] = len + 1  BY <1>5, <2>1, <2>3
    <3> QED  BY <1>3, <1>7, <1>14, <3>1
  <2> QED  BY <2>2, <2>3
<1>15. \A j \in 1 .. n + 1 :
         /\ p[j] <= r[j] /\ t[r[j]] = NL /\ p[j + 1] = After(t, r[j])
         /\ \A i \in p[j] .. r[j] - 1 : t[i] # NL
  <2> TAKE j \in 1 .. n + 1
  <2>1. j \in 1 .. n \/ j = n + 1  BY <1>1
  <2> QED  BY <1>11, <1>12, <2>1
<1>16. Splits(t, n + 1, p, r)  BY <1>3, <1>10, <1>13, <1>14, <1>15 DEF Splits
<1> QED  BY <1>16 DEF t, p, r, len, N, m

\* The empty text has no lines.
LEMMA EmptySplits == Splits(<<>>, 0, [j \in 1 .. 1 |-> 1], <<>>)
<1>1. Len(<<>>) = 0 /\ <<>> \in Seq(Chars) /\ 1 .. 0 = {}  OBVIOUS
<1> QED  BY <1>1 DEF Splits

\* A text whose lines do not begin with \r falls into lines.
LEMMA TextSplits ==
  ASSUME NEW s \in Texts
  PROVE  SplitsLines(s)
<1> DEFINE N == Len(s)
           K == Newlines(s)
           q == Sorted(K)
           n == Len(q)
           b == [k \in 1 .. n + 1 |-> IF k = 1 THEN 1 ELSE After(s, q[k - 1])]
<1>1. /\ s \in Seq(Chars) /\ N \in Nat
      /\ \A i \in 1 .. N : s[i] = CR => i > 1 /\ ~ (i > 2 /\ s[i - 1] = CR /\ s[i - 2] = NL)
  <2>1. STRING \subseteq Chars  BY DEF Chars
  <2>2. s \in Seq(STRING)  BY TextsAssumption DEF IsText
  <2>3. s \in Seq(Chars)  BY <2>1, <2>2, SeqWider
  <2> QED  BY <2>3, TextsAssumption DEF IsText
<1>2. K \in SUBSET (1 .. N) /\ \A i \in 1 .. N : i \in K <=> s[i] = NL  BY DEF Newlines
<1> HIDE DEF N, K
<1>3. /\ q \in Seq(K) /\ Range(q) = K
      /\ \A i, j \in DOMAIN q : i < j => q[i] < q[j]
  BY <1>1, <1>2, SortedFacts
<1> HIDE DEF q
<1>4. DOMAIN q = 1 .. n /\ n \in Nat /\ q \in [1 .. n -> K]  BY <1>3, SeqFacts
<1>5. \A i \in 1 .. N : s[i] = NL => \E j \in 1 .. n : q[j] = i  BY <1>2, <1>3, <1>4 DEF Range
<1> HIDE DEF n
<1>6. \A j \in 1 .. n : q[j] \in 1 .. N /\ s[q[j]] = NL  BY <1>2, <1>4
<1>7. \A k \in 1 .. n + 1 : b[k] = IF k = 1 THEN 1 ELSE After(s, q[k - 1])  OBVIOUS
<1> HIDE DEF b
<1>8. ASSUME NEW j \in 1 .. n
      PROVE  /\ b[j + 1] = After(s, q[j]) /\ j + 1 \in 1 .. n + 1
             /\ After(s, q[j]) \in q[j] + 1 .. N + 1
             /\ \A i \in q[j] + 1 .. After(s, q[j]) - 1 : s[i] # NL
  <2>1. j + 1 \in 1 .. n + 1 /\ j + 1 # 1 /\ (j + 1) - 1 = j  BY <1>4
  <2>2. b[j + 1] = After(s, q[j])  BY <1>7, <2>1
  <2>3. CASE q[j] < N /\ s[q[j] + 1] = CR
    <3>1. After(s, q[j]) = q[j] + 2  BY <2>3 DEF After, N
    <3>2. \A i \in q[j] + 1 .. (q[j] + 2) - 1 : i = q[j] + 1  BY <1>6, <1>1
    <3> QED  BY <1>1, <1>6, <2>1, <2>2, <2>3, <3>1, <3>2, EndsDiffer
  <2>4. CASE ~ (q[j] < N /\ s[q[j] + 1] = CR)
    <3>1. After(s, q[j]) = q[j] + 1  BY <2>4 DEF After, N
    <3> QED  BY <1>1, <1>6, <2>1, <2>2, <3>1
  <2> QED  BY <2>3, <2>4
<1>9. ASSUME NEW k \in 1 .. n + 1 PROVE b[k] \in 1 .. N + 1
  <2>1. CASE k = 1  BY <1>1, <1>7, <2>1
  <2>2. CASE k # 1
    <3>1. k - 1 \in 1 .. n /\ (k - 1) + 1 = k  BY <1>4, <2>2
    <3>2. b[k] \in q[k - 1] + 1 .. N + 1 /\ q[k - 1] \in 1 .. N  BY <1>6, <1>8, <3>1
    <3> QED  BY <1>1, <3>2
  <2> QED  BY <2>1, <2>2
\* a \n from the beginning of line k on is that of line k or a later one
<1>10. ASSUME NEW k \in 1 .. n + 1, NEW j \in 1 .. n, b[k] <= q[j] PROVE k <= j
  <2>1. SUFFICES ASSUME j < k PROVE FALSE  BY <1>4
  <2>2. k - 1 \in 1 .. n /\ (k - 1) + 1 = k /\ (j < k - 1 \/ j = k - 1)  BY <1>4, <2>1
  <2>3. b[k] \in q[k - 1] + 1 .. N + 1 /\ q[k - 1] \in 1 .. N  BY <1>6, <1>8, <2>2
  <2>4. q[j] <= q[k - 1]  BY <1>3, <1>4, <1>6, <2>2
  <2> QED  BY <1>1, <1>6, <1>10, <2>3, <2>4
<1>11. ASSUME NEW k \in 1 .. n
       PROVE  b[k] <= q[k] /\ \A i \in b[k] .. q[k] - 1 : s[i] # NL
  <2>1. k \in 1 .. n + 1 /\ b[k] \in 1 .. N + 1 /\ q[k] \in 1 .. N  BY <1>4, <1>6, <1>9
  <2>2. b[k] <= q[k]
    <3>1. CASE k = 1  BY <1>7, <2>1, <3>1
    <3>2. CASE k # 1
      <4>1. k - 1 \in 1 .. n /\ (k - 1) + 1 = k /\ k - 1 < k  BY <1>4, <3>2
      <4>2. q[k - 1] < q[k]  BY <1>3, <1>4, <4>1
      <4>3. b[k] = After(s, q[k - 1]) /\ q[k - 1] \in 1 .. N  BY <1>6, <1>8, <4>1
      <4>4. ~ (q[k] \in q[k - 1] + 1 .. b[k] - 1)  BY <1>6, <1>8, <4>1, <4>3
      <4> QED  BY <1>1, <2>1, <4>2, <4>3, <4>4
    <3> QED  BY <3>1, <3>2
  <2>3. ASSUME NEW i \in b[k] .. q[k] - 1 PROVE s[i] # NL
    <3>1. SUFFICES ASSUME s[i] = NL PROVE FALSE  OBVIOUS
    <3>2. i \in 1 .. N  BY <1>1, <2>1
    <3>3. PICK j \in 1 .. n : q[j] = i  BY <1>5, <3>1, <3>2
    <3>4. k <= j  BY <1>10, <2>1, <3>3
    <3>5. q[k] <= q[j]
      <4>1. k < j \/ k = j  BY <3>4
      <4>2. k < j => q[k] < q[j]  BY <1>3, <1>4
      <4>3. q[j] \in 1 .. N  BY <1>6
      <4> QED  BY <2>1, <4>1, <4>2, <4>3
    <3> QED  BY <2>1, <3>3, <3>5
  <2> QED  BY <2>2, <2>3
<1>12. ASSUME NEW i \in b[n + 1] .. N PROVE s[i] # NL
  <2>1. SUFFICES ASSUME s[i] = NL PROVE FALSE  OBVIOUS
  <2>2. n + 1 \in 1 .. n + 1  BY <1>4
  <2>3. b[n + 1] \in 1 .. N + 1  BY <1>9, <2>2
  <2>4. i \in 1 .. N  BY <1>1, <2>3
  <2>5. PICK j \in 1 .. n : q[j] = i  BY <1>5, <2>1, <2>4
  <2>6. n + 1 <= j  BY <1>10, <2>2, <2>3, <2>5
  <2> QED  BY <1>4, <2>6
<1>13. ASSUME NEW k \in 1 .. n + 1, b[k] <= N PROVE s[b[k]] # CR
  <2>1. b[k] \in 1 .. N  BY <1>1, <1>9, <1>13
  <2>2. CASE k = 1  BY <1>1, <1>7, <2>1, <2>2
  <2>3. CASE k # 1
    <3>1. k - 1 \in 1 .. n /\ (k - 1) + 1 = k  BY <1>4, <2>3
    <3> DEFINE x == q[k - 1]
    <3>2. b[k] = After(s, x) /\ x \in 1 .. N /\ s[x] = NL  BY <1>6, <1>8, <3>1
    <3> HIDE DEF x
    <3>3. CASE x < N /\ s[x + 1] = CR
      <4>1. b[k] = x + 2  BY <3>2, <3>3 DEF After, N
      <4>2. x + 2 \in 1 .. N /\ x + 2 > 2 /\ (x + 2) - 1 = x + 1 /\ (x + 2) - 2 = x
        BY <1>1, <2>1, <3>2, <4>1
      <4>3. ~ (s[x + 2] = CR)  BY <1>1, <3>2, <3>3, <4>2
      <4> QED  BY <4>1, <4>3
    <3>4. CASE ~ (x < N /\ s[x + 1] = CR)
      <4>1. b[k] = x + 1  BY <3>2, <3>4 DEF After, N
      <4>2. x < N  BY <1>1, <2>1, <3>2, <4>1
      <4> QED  BY <3>4, <4>1, <4>2
    <3> QED  BY <3>3, <3>4
  <2> QED  BY <2>2, <2>3
<1>14. b \in [1 .. n + 1 -> Nat \ {0}] /\ b[1] = 1 /\ q \in [1 .. n -> 1 .. N]
  <2>1. 1 \in 1 .. n + 1  BY <1>4
  <2>2. DOMAIN b = 1 .. n + 1 /\ b = [k \in 1 .. n + 1 |-> b[k]]  BY DEF b
  <2>3. \A k \in 1 .. n + 1 : b[k] \in Nat \ {0}  BY <1>1, <1>9
  <2> QED  BY <1>2, <1>4, <1>7, <2>1, <2>2, <2>3
<1>15. Splits(s, n, b, q)
  <2>1. \A j \in 1 .. n : b[j + 1] = After(s, q[j])  BY <1>8
  <2> QED  BY <1>1, <1>4, <1>6, <1>11, <1>12, <1>13, <1>14, <2>1 DEF Splits, N
<1> QED  BY <1>15 DEF SplitsLines

-----------------------------------------------------------------------------
(* The text editor: the menu.                                              *)

LEMMA SubSeqFacts ==
  ASSUME NEW s \in Seq(Chars), NEW a \in 1 .. Len(s) + 1, NEW z \in a - 1 .. Len(s)
  PROVE  /\ SubSeq(s, a, z) \in Seq(Chars) /\ Len(SubSeq(s, a, z)) = (z - a) + 1
         /\ SubSeq(s, a, z) = [i \in 1 .. (z - a) + 1 |-> s[(a + i) - 1]]
<1> DEFINE x == SubSeq(s, a, z)  n == (z - a) + 1
<1>1. Len(s) \in Nat /\ n \in Nat /\ a \in Nat /\ z \in Int  OBVIOUS
<1>2. x \in Seq(Chars) /\ Len(x) = n
  <2>1. \A i \in a .. z : s[i] \in Chars  OBVIOUS
  <2> QED  BY <2>1
<1>3. \A i \in 1 .. n : x[i] = s[(a + i) - 1]  OBVIOUS
<1>4. x = [i \in 1 .. n |-> x[i]]
  <2> HIDE DEF x, n
  <2> QED  BY <1>1, <1>2
<1> HIDE DEF x, n
<1>5. x = [i \in 1 .. n |-> s[(a + i) - 1]]  BY <1>3, <1>4
<1> QED  BY <1>2, <1>5 DEF x, n

\* A part of what s has from a on.
LEMMA SubOfSub ==
  ASSUME NEW s \in Seq(Chars), NEW a \in 1 .. Len(s) + 1,
         NEW i \in 1 .. (Len(s) - a) + 2, NEW j \in i - 1 .. (Len(s) - a) + 1
  PROVE  SubSeq(SubSeq(s, a, Len(s)), i, j) = SubSeq(s, (a + i) - 1, (a + j) - 1)
<1> DEFINE N == Len(s)  x == SubSeq(s, a, N)  m == (N - a) + 1
           b == (a + i) - 1  z == (a + j) - 1  k == (j - i) + 1
<1>1. /\ N \in Nat /\ m \in Nat /\ a \in Nat /\ N \in a - 1 .. N
      /\ i \in 1 .. m + 1 /\ j \in i - 1 .. m
      /\ b \in 1 .. N + 1 /\ z \in b - 1 .. N /\ (z - b) + 1 = k /\ i \in Nat /\ j \in Int
  OBVIOUS
<1>2. x \in Seq(Chars) /\ Len(x) = m /\ x = [c \in 1 .. m |-> s[(a + c) - 1]]
  BY <1>1, SubSeqFacts
<1>3. SubSeq(s, b, z) = [c \in 1 .. k |-> s[(b + c) - 1]]
  <2> HIDE DEF b, z, k
  <2> QED  BY <1>1, SubSeqFacts
<1> HIDE DEF x, m, N
<1>4. SubSeq(x, i, j) = [c \in 1 .. k |-> x[(i + c) - 1]]
  BY <1>1, <1>2, SubSeqFacts
<1>5. \A c \in 1 .. k : x[(i + c) - 1] = s[(b + c) - 1]
  <2> TAKE c \in 1 .. k
  <2>1. (i + c) - 1 \in 1 .. m /\ (a + ((i + c) - 1)) - 1 = (b + c) - 1  BY <1>1
  <2> QED  BY <1>2, <2>1
<1> HIDE DEF b, z, k
<1>6. SubSeq(x, i, j) = SubSeq(s, b, z)  BY <1>3, <1>4, <1>5
<1> QED  BY <1>6 DEF x, b, z, N

LEMMA TailOfSub ==
  ASSUME NEW s \in Seq(Chars), NEW a \in 1 .. Len(s)
  PROVE  LET x == SubSeq(s, a, Len(s))
         IN x # <<>> /\ Head(x) = s[a] /\ Tail(x) = SubSeq(s, a + 1, Len(s))
<1> DEFINE N == Len(s)  x == SubSeq(s, a, N)
<1>1. N \in Nat /\ a \in 1 .. N + 1 /\ N \in a - 1 .. N /\ (N - a) + 1 # 0 /\ N \in a .. N
  OBVIOUS
<1>2. Len(x) = (N - a) + 1  BY <1>1, SubSeqFacts
<1>3. Head(x) = s[a] /\ Tail(x) = SubSeq(s, a + 1, N)  BY <1>1, HeadTailOfSubSeq
<1>4. x # <<>>
  <2> HIDE DEF x, N
  <2> QED  BY <1>1, <1>2
<1> QED  BY <1>3, <1>4

LEMMA GetLineIs ==
  ASSUME NEW s \in Seq(Chars), NEW a \in 1 .. Len(s), NEW p \in a .. Len(s), s[p] = NL,
         \A i \in a .. p - 1 : s[i] # NL
  PROVE  LET x == SubSeq(s, a, Len(s))
         IN /\ x # <<>>
            /\ get_line(x).line = SubSeq(s, a, p - 1)
            /\ get_line(x).rest = SubSeq(s, After(s, p), Len(s))
<1> DEFINE N == Len(s)  x == SubSeq(s, a, N)  m == (p - a) + 1
           I == {i \in 1 .. Len(x) : x[i] = NL}
           i0 == SelectInSeq(x, LAMBDA c : c = NL)
           rest == SubSeq(x, i0 + 1, Len(x))
<1>1. /\ N \in Nat /\ a \in Nat /\ p \in Nat /\ a \in 1 .. N + 1 /\ N \in a - 1 .. N
      /\ m \in 1 .. (N - a) + 1
  OBVIOUS
<1>2. x \in Seq(Chars) /\ Len(x) = (N - a) + 1
      /\ x = [c \in 1 .. (N - a) + 1 |-> s[(a + c) - 1]]
  BY <1>1, SubSeqFacts
<1>3. x # <<>>  BY TailOfSub
<1>4. get_line(x) = IF i0 = 0 THEN [line |-> x, rest |-> <<>>]
                    ELSE [line |-> SubSeq(x, 1, i0 - 1),
                          rest |-> IF rest # <<>> /\ Head(rest) = CR THEN Tail(rest) ELSE rest]
  BY DEF get_line
<1>5. i0 = IF I # {} THEN Min(I) ELSE 0  BY DEF SelectInSeq
<1> HIDE DEF i0
<1>6. m \in I /\ \A i \in I : m <= i /\ i \in Nat
  <2>1. (a + m) - 1 = p  BY <1>1
  <2> HIDE DEF x, m, N
  <2>2. m \in I  BY <1>1, <1>2, <2>1
  <2>3. ASSUME NEW i \in I PROVE m <= i /\ i \in Nat
    <3>1. i \in 1 .. (N - a) + 1 /\ x[i] = NL  BY <1>2
    <3>2. s[(a + i) - 1] = NL  BY <1>2, <3>1
    <3>3. ~ ((a + i) - 1 \in a .. p - 1)  BY <3>2
    <3> QED  BY <1>1, <2>1, <3>1, <3>3
  <2> QED  BY <2>2, <2>3
<1> HIDE DEF I
<1>7. Min(I) = m
  <2>1. m \in Nat  BY <1>1
  <2> HIDE DEF m
  <2>2. \A y \in I : (\A i \in I : y <= i) => y = m  BY <1>6, <2>1
  <2> QED  BY <1>6, <2>2 DEF Min
<1>8. i0 = m /\ i0 # 0
  <2>1. I # {} /\ m # 0  BY <1>1, <1>6
  <2> QED  BY <1>5, <1>7, <2>1
<1>9. SubSeq(x, 1, i0 - 1) = SubSeq(s, a, p - 1)
  <2>1. 1 \in 1 .. (N - a) + 2 /\ m - 1 \in 1 - 1 .. (N - a) + 1
        /\ (a + 1) - 1 = a /\ (a + (m - 1)) - 1 = p - 1
    BY <1>1
  <2> HIDE DEF m
  <2>2. SubSeq(x, 1, m - 1) = SubSeq(s, (a + 1) - 1, (a + (m - 1)) - 1)  BY <1>1, <2>1, SubOfSub
  <2> QED  BY <1>8, <2>1, <2>2
<1>10. rest = SubSeq(s, p + 1, N)
  <2> DEFINE z == (N - a) + 1
  <2>1. m + 1 \in 1 .. (N - a) + 2 /\ z \in (m + 1) - 1 .. (N - a) + 1
        /\ (a + (m + 1)) - 1 = p + 1 /\ (a + z) - 1 = N
    BY <1>1
  <2>2. Len(x) = z  BY <1>2
  <2> HIDE DEF m, z, x
  <2>3. SubSeq(SubSeq(s, a, N), m + 1, z) = SubSeq(s, (a + (m + 1)) - 1, (a + z) - 1)
    BY <1>1, <2>1, SubOfSub
  <2> QED  BY <1>8, <2>1, <2>2, <2>3 DEF x
<1> HIDE DEF rest, x
<1>11. (IF rest # <<>> /\ Head(rest) = CR THEN Tail(rest) ELSE rest)
         = SubSeq(s, After(s, p), N)
  <2>1. CASE p < N
    <3>1. p + 1 \in 1 .. N /\ (p + 1) + 1 = p + 2  BY <1>1, <2>1
    <3>2. rest # <<>> /\ Head(rest) = s[p + 1] /\ Tail(rest) = SubSeq(s, p + 2, N)
      BY <1>10, <3>1, TailOfSub DEF N
    <3>3. After(s, p) = IF s[p + 1] = CR THEN p + 2 ELSE p + 1  BY <2>1 DEF After, N
    <3> QED  BY <1>10, <3>2, <3>3
  <2>2. CASE ~ (p < N)
    <3>1. p = N  BY <1>1, <2>2
    <3>2. After(s, p) = p + 1  BY <2>2 DEF After, N
    <3>3. rest = <<>>
      <4>1. N + 1 \in 1 .. N + 1 /\ N \in (N + 1) - 1 .. N /\ (N - (N + 1)) + 1 = 0  BY <1>1
      <4>2. SubSeq(s, N + 1, N) \in Seq(Chars) /\ Len(SubSeq(s, N + 1, N)) = 0
        BY <4>1, SubSeqFacts DEF N
      <4> DEFINE e == SubSeq(s, N + 1, N)
      <4>3. e \in Seq(Chars) /\ Len(e) = 0  BY <4>2
      <4> HIDE DEF e
      <4>4. e = <<>>  BY <4>3
      <4> QED  BY <1>10, <3>1, <4>4 DEF e
    <3> QED  BY <1>10, <3>2, <3>3
  <2> QED  BY <2>1, <2>2
<1>12. get_line(x).line = SubSeq(s, a, p - 1) /\ get_line(x).rest = SubSeq(s, After(s, p), N)
  <2> DEFINE r == IF rest # <<>> /\ Head(rest) = CR THEN Tail(rest) ELSE rest
  <2>1. get_line(x) = [line |-> SubSeq(x, 1, i0 - 1), rest |-> r]  BY <1>4, <1>8
  <2>2. r = SubSeq(s, After(s, p), N)  BY <1>11
  <2> DEFINE l == SubSeq(x, 1, i0 - 1)
  <2>3. l = SubSeq(s, a, p - 1)  BY <1>9
  <2>4. get_line(x) = [line |-> l, rest |-> r]  BY <2>1
  <2> HIDE DEF r, l
  <2>5. get_line(x).line = l /\ get_line(x).rest = r  BY <2>4
  <2> QED  BY <2>2, <2>3, <2>5
<1> QED  BY <1>3, <1>12 DEF x, N

\* The lines of a text whose last one has its end, as the menu shows them.
LinesOf(s, n, b, q) == [k \in 1 .. n |-> SubSeq(s, b[k], q[k] - 1)]

\* rest is what is left of s after each line.
RestsOf(s, rest) ==
  rest = [k \in 0 .. Len(s) |-> IF k = 0 THEN s ELSE get_line(rest[k - 1]).rest]

LEMMA RestsAre ==
  ASSUME NEW s, NEW n, NEW b, NEW q, Splits(s, n, b, q), b[n + 1] = Len(s) + 1
  PROVE  /\ n <= Len(s)
         /\ \E rest : RestsOf(s, rest)
         /\ \A rest : RestsOf(s, rest) =>
              \A k \in 0 .. Len(s) :
                rest[k] = IF k <= n THEN SubSeq(s, b[k + 1], Len(s)) ELSE <<>>
<1> DEFINE N == Len(s)
           g == [k \in 0 .. N |-> IF k <= n THEN SubSeq(s, b[k + 1], N) ELSE <<>>]
<1>1. /\ n \in Nat /\ N \in Nat
      /\ \A j \in 1 .. n + 1 : b[j] \in 1 .. N + 1
      /\ \A j \in 1 .. n : q[j] \in b[j] .. N
      /\ \A j, m \in 1 .. n + 1 : j < m => q[j] < b[m] /\ b[j] < b[m]
      /\ Rising(q, n)
  BY SplitsFacts
<1>2. /\ s \in Seq(Chars) /\ b[1] = 1
      /\ \A j \in 1 .. n : /\ s[q[j]] = NL /\ b[j + 1] = After(s, q[j])
                           /\ \A x \in b[j] .. q[j] - 1 : s[x] # NL
  BY DEF Splits
<1>3. n <= N
  <2>1. count_lines(s) = n  BY CountLines
  <2>2. Newlines(s) \in SUBSET (1 .. N)  BY DEF Newlines
  <2>3. IsFiniteSet(1 .. N) /\ Cardinality(1 .. N) = N
    <3>1. N \in Nat  BY <1>1
    <3> HIDE DEF N
    <3> QED  BY <3>1, FS_Interval
  <2>4. Cardinality(Newlines(s)) <= N  BY <2>2, <2>3, FS_Subset
  <2> QED  BY <2>1, <2>4 DEF count_lines
<1>4. ASSUME NEW k \in 1 .. n
      PROVE  get_line(SubSeq(s, b[k], N)).rest = SubSeq(s, b[k + 1], N)
  <2>1. k \in 1 .. n + 1  BY <1>1
  <2>2. b[k] \in 1 .. Len(s) /\ q[k] \in b[k] .. Len(s)
    <3>1. b[k] \in 1 .. N + 1 /\ q[k] \in b[k] .. N  BY <1>1, <2>1
    <3> QED  BY <1>1, <3>1
  <2> QED  BY <1>2, <2>2, GetLineIs
<1>5. SubSeq(s, b[n + 1], N) = <<>>
  <2> DEFINE e == SubSeq(s, N + 1, N)
  <2>1. N + 1 \in 1 .. N + 1 /\ N \in (N + 1) - 1 .. N /\ (N - (N + 1)) + 1 = 0  BY <1>1
  <2>2. e \in Seq(Chars) /\ Len(e) = 0  BY <1>2, <2>1, SubSeqFacts
  <2> HIDE DEF e
  <2>3. e = <<>>  BY <2>2
  <2> QED  BY <2>3 DEF e
<1>6. get_line(<<>>).rest = <<>>
  <2>1. SelectInSeq(<<>>, LAMBDA c : c = NL) = 0
    <3>1. {i \in 1 .. Len(<<>>) : <<>>[i] = NL} = {}  OBVIOUS
    <3> QED  BY <3>1 DEF SelectInSeq
  <2>2. get_line(<<>>) = [line |-> <<>>, rest |-> <<>>]  BY <2>1 DEF get_line
  <2> QED  BY <2>2
<1>7. SubSeq(s, b[1], N) = s
  <2>1. 1 \in 1 .. N + 1 /\ N \in 1 - 1 .. N /\ (N - 1) + 1 = N  BY <1>1
  <2>2. SubSeq(s, 1, N) = [i \in 1 .. N |-> s[(1 + i) - 1]]
    <3>1. SubSeq(s, 1, N) = [i \in 1 .. (N - 1) + 1 |-> s[(1 + i) - 1]]  BY <1>2, <2>1, SubSeqFacts
    <3> QED  BY <2>1, <3>1
  <2>3. \A i \in 1 .. N : s[(1 + i) - 1] = s[i]
    <3>1. \A i \in 1 .. N : (1 + i) - 1 = i  BY <1>1
    <3> QED  BY <3>1
  <2>4. s = [i \in 1 .. N |-> s[i]]  BY <1>2
  <2> QED  BY <1>2, <2>2, <2>3, <2>4
<1> HIDE DEF N
<1> DEFINE v(k) == IF k <= n THEN SubSeq(s, b[k + 1], N) ELSE <<>>
<1>8. v(0) = s
  <2>1. 0 <= n /\ 0 + 1 = 1  BY <1>1
  <2> QED  BY <1>7, <2>1
<1>9. ASSUME NEW k \in 1 .. N PROVE get_line(v(k - 1)).rest = v(k)
  <2>1. k - 1 \in Nat /\ (k - 1) + 1 = k  BY <1>1
  <2>2. CASE k <= n
    <3>1. k \in 1 .. n /\ k - 1 <= n  BY <1>1, <2>2
    <3>2. v(k - 1) = SubSeq(s, b[k], N)  BY <2>1, <3>1
    <3>3. v(k) = SubSeq(s, b[k + 1], N)  BY <2>2
    <3> QED  BY <1>4, <3>1, <3>2, <3>3
  <2>3. CASE ~ (k <= n)
    <3>1. v(k) = <<>>  BY <2>3
    <3>2. v(k - 1) = <<>>
      <4>1. CASE k - 1 <= n
        <5>1. k - 1 = n  BY <1>1, <2>3, <4>1
        <5> QED  BY <1>5, <2>1, <4>1, <5>1
      <4>2. CASE ~ (k - 1 <= n)  BY <4>2
      <4> QED  BY <4>1, <4>2
    <3> QED  BY <1>6, <3>1, <3>2
  <2> QED  BY <2>2, <2>3
<1> HIDE DEF v
<1>10. \E rest : RestsOf(s, rest)
  <2> DEFINE r == [k \in 0 .. N |-> v(k)]
  <2>1. \A k \in 0 .. N : r[k] = v(k)  OBVIOUS
  <2>2. DOMAIN r = 0 .. N /\ r = [k \in 0 .. N |-> r[k]]  OBVIOUS
  <2> HIDE DEF r
  <2>3. ASSUME NEW k \in 0 .. N PROVE r[k] = IF k = 0 THEN s ELSE get_line(r[k - 1]).rest
    <3>1. CASE k = 0  BY <1>8, <2>1, <3>1
    <3>2. CASE k # 0
      <4>1. k \in 1 .. N /\ k - 1 \in 0 .. N  BY <1>1, <3>2
      <4>2. r[k - 1] = v(k - 1) /\ r[k] = v(k)  BY <2>1, <4>1
      <4>3. get_line(v(k - 1)).rest = v(k)  BY <1>9, <4>1
      <4> QED  BY <3>2, <4>2, <4>3
    <3> QED  BY <3>1, <3>2
  <2>4. RestsOf(s, r)  BY <2>2, <2>3 DEF RestsOf, N
  <2> QED  BY <2>4
<1>11. ASSUME NEW rest, RestsOf(s, rest) PROVE \A k \in 0 .. N : rest[k] = v(k)
  <2>1. \A k \in 0 .. N : rest[k] = IF k = 0 THEN s ELSE get_line(rest[k - 1]).rest
    BY <1>11 DEF RestsOf, N
  <2> DEFINE T == {k \in Nat : rest[k] = v(k)}
  <2>2. 0 \in T
    <3>1. 0 \in 0 .. N  BY <1>1
    <3> QED  BY <1>8, <2>1, <3>1
  <2>3. ASSUME NEW k \in 1 .. N, k - 1 \in T PROVE k \in T
    <3>1. k \in 0 .. N /\ k # 0 /\ k \in Nat  BY <1>1
    <3>2. rest[k] = get_line(rest[k - 1]).rest  BY <2>1, <3>1
    <3>3. rest[k - 1] = v(k - 1)  BY <2>3
    <3>4. get_line(v(k - 1)).rest = v(k)  BY <1>9
    <3> QED  BY <3>1, <3>2, <3>3, <3>4
  <2>4. 0 .. N \subseteq T
    <3> HIDE DEF T
    <3> QED  BY <1>1, <2>2, <2>3, Upwards
  <2> QED  BY <2>4
<1>12. \A k \in 0 .. N : v(k) = IF k <= n THEN SubSeq(s, b[k + 1], N) ELSE <<>>  BY DEF v
<1> QED  BY <1>3, <1>10, <1>11, <1>12 DEF N

LEMMA MenuIs ==
  ASSUME NEW s, NEW n, NEW b, NEW q, Splits(s, n, b, q), b[n + 1] = Len(s) + 1
  PROVE  Menu(s) = LinesOf(s, n, b, q)
<1> DEFINE N == Len(s)
           rest == CHOOSE r : RestsOf(s, r)
           D == {m \in 1 .. N : rest[m - 1] # <<>>}
<1>1. n <= N /\ RestsOf(s, rest)  BY RestsAre
<1>2. \A k \in 0 .. N : rest[k] = IF k <= n THEN SubSeq(s, b[k + 1], N) ELSE <<>>
  <2> HIDE DEF rest
  <2> QED  BY <1>1, RestsAre
<1>3. Menu(s) = [k \in D |-> get_line(rest[k - 1]).line]  BY Zenon DEF Menu, RestsOf
<1> HIDE DEF rest
<1>4. /\ n \in Nat /\ N \in Nat
      /\ \A j \in 1 .. n + 1 : b[j] \in 1 .. N + 1
      /\ \A j \in 1 .. n : q[j] \in b[j] .. N
  BY SplitsFacts
<1>5. /\ s \in Seq(Chars)
      /\ \A j \in 1 .. n : s[q[j]] = NL /\ \A x \in b[j] .. q[j] - 1 : s[x] # NL
  BY DEF Splits
<1>6. ASSUME NEW k \in 1 .. n
      PROVE  /\ rest[k - 1] # <<>>
             /\ get_line(rest[k - 1]).line = SubSeq(s, b[k], q[k] - 1)
  <2>1. k \in 1 .. n + 1 /\ k - 1 \in 0 .. N /\ k - 1 <= n /\ (k - 1) + 1 = k  BY <1>1, <1>4
  <2>2. b[k] \in 1 .. Len(s) /\ q[k] \in b[k] .. Len(s)
    <3>1. b[k] \in 1 .. N + 1 /\ q[k] \in b[k] .. N  BY <1>4, <2>1
    <3> QED  BY <1>4, <3>1
  <2>3. rest[k - 1] = SubSeq(s, b[k], N)  BY <1>2, <2>1
  <2> QED  BY <1>5, <2>2, <2>3, GetLineIs
<1>7. D = 1 .. n
  <2>1. ASSUME NEW k \in D PROVE k \in 1 .. n
    <3>1. k \in 1 .. N /\ k - 1 \in 0 .. N /\ rest[k - 1] # <<>>  BY <1>4
    <3>2. k - 1 <= n  BY <1>2, <3>1
    <3>3. k - 1 # n
      <4>1. SUFFICES ASSUME k - 1 = n PROVE FALSE  OBVIOUS
      <4>2. rest[k - 1] = SubSeq(s, b[n + 1], N)  BY <1>2, <3>1, <3>2, <4>1
      <4> DEFINE e == SubSeq(s, N + 1, N)
      <4>3. N + 1 \in 1 .. N + 1 /\ N \in (N + 1) - 1 .. N /\ (N - (N + 1)) + 1 = 0  BY <1>4
      <4>4. e \in Seq(Chars) /\ Len(e) = 0  BY <1>5, <4>3, SubSeqFacts
      <4> HIDE DEF e
      <4>5. e = <<>>  BY <4>4
      <4> QED  BY <3>1, <4>2, <4>5 DEF e
    <3> QED  BY <1>4, <3>1, <3>2, <3>3
  <2>2. ASSUME NEW k \in 1 .. n PROVE k \in D
    <3>1. k \in 1 .. N  BY <1>1, <1>4
    <3> QED  BY <1>6, <3>1
  <2> QED  BY <2>1, <2>2
<1> HIDE DEF D
<1> QED  BY <1>3, <1>6, <1>7 DEF LinesOf

-----------------------------------------------------------------------------
(* The text editor: EditsThatLine.                                         *)

LEMMA CompleteIs ==
  ASSUME NEW s, NEW n, NEW b, NEW q, Splits(s, n, b, q), Complete(s)
  PROVE  b[n + 1] = Len(s) + 1
<1> DEFINE N == Len(s)
<1>1. /\ n \in Nat /\ N \in Nat
      /\ \A j \in 1 .. n + 1 : b[j] \in 1 .. N + 1
      /\ \A j \in 1 .. n : q[j] \in b[j] .. N
      /\ \A j, m \in 1 .. n + 1 : j < m => q[j] < b[m] /\ b[j] < b[m]
  BY SplitsFacts
<1>2. /\ s \in Seq(Chars) /\ b[1] = 1
      /\ \A j \in 1 .. n : b[j + 1] = After(s, q[j])
      /\ \A x \in b[n + 1] .. N : s[x] # NL
  BY DEF Splits
<1>3. n + 1 \in 1 .. n + 1 /\ b[n + 1] \in 1 .. N + 1  BY <1>1
<1>4. CASE s = <<>>
  <2>1. N = 0  BY <1>4
  <2> HIDE DEF N
  <2> QED  BY <1>3, <2>1 DEF N
<1>5. CASE N > 0 /\ s[N] = NL
  <2>1. ~ (N \in b[n + 1] .. N)  BY <1>2, <1>5
  <2> QED  BY <1>1, <1>3, <2>1
<1>6. CASE N > 1 /\ s[N] = CR /\ s[N - 1] = NL
  <2>1. N - 1 \in 1 .. N /\ (N - 1) + 1 = N  BY <1>1, <1>6
  <2>2. N - 1 \in Newlines(s)  BY <1>6, <2>1 DEF Newlines
  <2>3. PICK j \in 1 .. n : q[j] = N - 1  BY <2>2, NewlinesAre
  <2>4. b[j + 1] = N + 1
    <3>1. After(s, N - 1) = (N - 1) + 2  BY <1>1, <1>6, <2>1 DEF After
    <3> QED  BY <1>1, <1>2, <2>3, <3>1
  <2>5. j + 1 \in 1 .. n + 1 /\ (j + 1 < n + 1 \/ j + 1 = n + 1)  BY <1>1
  <2>6. b[j + 1] <= b[n + 1]
    <3>1. j + 1 < n + 1 => b[j + 1] < b[n + 1]  BY <1>1, <1>3, <2>5
    <3>2. b[j + 1] \in 1 .. N + 1  BY <1>1, <2>5
    <3> QED  BY <1>3, <2>5, <3>1, <3>2
  <2> QED  BY <1>1, <1>3, <2>4, <2>6
<1>7. s # <<>> => N > 0
  <2>1. s # <<>> => N # 0  BY <1>2
  <2> QED  BY <1>1, <2>1
<1> QED  BY <1>4, <1>5, <1>6, <1>7 DEF Complete

LEMMA LinesFacts ==
  ASSUME NEW s, NEW n, NEW b, NEW q, Splits(s, n, b, q)
  PROVE  /\ LinesOf(s, n, b, q) \in Seq(Seq(Chars)) /\ Len(LinesOf(s, n, b, q)) = n
         /\ DOMAIN LinesOf(s, n, b, q) = 1 .. n
         /\ \A k \in 1 .. n :
              /\ LinesOf(s, n, b, q)[k] = SubSeq(s, b[k], q[k] - 1)
              /\ LinesOf(s, n, b, q)[k]
                   = [i \in 1 .. q[k] - b[k] |-> s[(b[k] + i) - 1]]
              /\ b[k] \in 1 .. Len(s) + 1 /\ q[k] \in b[k] .. Len(s)
<1> DEFINE N == Len(s)  m == LinesOf(s, n, b, q)
<1>1. /\ n \in Nat /\ N \in Nat
      /\ \A j \in 1 .. n + 1 : b[j] \in 1 .. N + 1
      /\ \A j \in 1 .. n : q[j] \in b[j] .. N
  BY SplitsFacts
<1>2. s \in Seq(Chars)  BY DEF Splits
<1>3. m = [k \in 1 .. n |-> SubSeq(s, b[k], q[k] - 1)]  BY DEF LinesOf
<1> HIDE DEF m
<1>4. ASSUME NEW k \in 1 .. n
      PROVE  /\ SubSeq(s, b[k], q[k] - 1) \in Seq(Chars)
             /\ SubSeq(s, b[k], q[k] - 1) = [i \in 1 .. q[k] - b[k] |-> s[(b[k] + i) - 1]]
             /\ b[k] \in 1 .. Len(s) + 1 /\ q[k] \in b[k] .. Len(s)
  <2> DEFINE x == b[k]  y == q[k]
  <2>1. k \in 1 .. n + 1  BY <1>1
  <2>2. x \in 1 .. N + 1 /\ y \in x .. N  BY <1>1, <2>1
  <2>3. y - 1 \in x - 1 .. N /\ ((y - 1) - x) + 1 = y - x  BY <1>1, <2>2
  <2> HIDE DEF x, y
  <2>4. SubSeq(s, x, y - 1) \in Seq(Chars)
        /\ SubSeq(s, x, y - 1) = [i \in 1 .. ((y - 1) - x) + 1 |-> s[(x + i) - 1]]
    BY <1>2, <2>2, <2>3, SubSeqFacts
  <2>5. SubSeq(s, x, y - 1) = [i \in 1 .. y - x |-> s[(x + i) - 1]]  BY <2>3, <2>4
  <2> QED  BY <2>2, <2>4, <2>5 DEF x, y
<1>5. m \in [1 .. n -> Seq(Chars)]  BY <1>3, <1>4
<1>6. m \in Seq(Seq(Chars)) /\ Len(m) = n /\ DOMAIN m = 1 .. n  BY <1>1, <1>5, SeqFrom
<1>7. \A k \in 1 .. n : m[k] = SubSeq(s, b[k], q[k] - 1)  BY <1>3
<1> QED  BY <1>4, <1>6, <1>7 DEF m

\* What the menu shows of a text without its line k.
LEMMA CutLines ==
  ASSUME NEW s, NEW n, NEW b, NEW q, Splits(s, n, b, q), NEW k \in 1 .. n
  PROVE  LinesOf(Cut(s, b[k], b[k + 1]), n - 1, CutBegins(n, b, k), CutEnds(n, b, q, k))
           = RemoveAt(LinesOf(s, n, b, q), k)
<1> DEFINE N == Len(s)  c == b[k]  d == b[k + 1]  w == d - c
           t == Cut(s, c, d)
           p == CutBegins(n, b, k)
           r == CutEnds(n, b, q, k)
           M == LinesOf(s, n, b, q)
           L == LinesOf(t, n - 1, p, r)
           R == RemoveAt(M, k)
<1>1. /\ n \in Nat /\ N \in Nat
      /\ \A j \in 1 .. n + 1 : b[j] \in 1 .. N + 1
      /\ \A j, m \in 1 .. n + 1 : j < m => q[j] < b[m] /\ b[j] < b[m]
  BY SplitsFacts
<1>2. Splits(t, n - 1, p, r)  BY CutSplits
<1>3. /\ M \in Seq(Seq(Chars)) /\ Len(M) = n
      /\ \A j \in 1 .. n : /\ M[j] = [i \in 1 .. q[j] - b[j] |-> s[(b[j] + i) - 1]]
                           /\ b[j] \in 1 .. N + 1 /\ q[j] \in b[j] .. N
  BY LinesFacts
<1>4. /\ L \in Seq(Seq(Chars)) /\ Len(L) = n - 1
      /\ \A j \in 1 .. n - 1 : /\ L[j] = [i \in 1 .. r[j] - p[j] |-> t[(p[j] + i) - 1]]
                               /\ p[j] \in 1 .. Len(t) + 1 /\ r[j] \in p[j] .. Len(t)
  <2> HIDE DEF t, p, r
  <2> QED  BY <1>2, LinesFacts
<1>5. /\ R \in Seq(Seq(Chars)) /\ Len(R) = n - 1
      /\ \A j \in 1 .. n - 1 : R[j] = IF j < k THEN M[j] ELSE M[j + 1]
  <2> HIDE DEF M
  <2> DEFINE u == SubSeq(M, 1, k - 1)  v == SubSeq(M, k + 1, n)
  <2>1. /\ u \in Seq(Seq(Chars)) /\ Len(u) = k - 1
        /\ \A j \in 1 .. k - 1 : u[j] = M[j]
    BY <1>1, <1>3
  <2>2. /\ v \in Seq(Seq(Chars)) /\ Len(v) = n - k
        /\ \A j \in 1 .. n - k : v[j] = M[k + j]
    <3>1. \A j \in k + 1 .. n : M[j] \in Seq(Chars)  BY <1>1, <1>3
    <3> QED  BY <1>1, <1>3, <3>1
  <2>3. R = u \o v  BY <1>3 DEF RemoveAt
  <2> HIDE DEF u, v, R
  <2>4. /\ Len(u \o v) = Len(u) + Len(v) /\ u \o v \in Seq(Seq(Chars))
        /\ \A j \in 1 .. Len(u) : (u \o v)[j] = u[j]
        /\ \A j \in 1 .. Len(v) : (u \o v)[Len(u) + j] = v[j]
    <3>1. u \in Seq(Seq(Chars)) /\ v \in Seq(Seq(Chars))  BY <2>1, <2>2
    <3>2. u \o v \in Seq(Seq(Chars))  BY <3>1
    <3>3. /\ Len(u \o v) = Len(u) + Len(v)
          /\ \A j \in 1 .. Len(u) : (u \o v)[j] = u[j]
          /\ \A j \in 1 .. Len(v) : (u \o v)[Len(u) + j] = v[j]
      BY <3>1, ConcatFacts
    <3> QED  BY <3>2, <3>3
  <2>5. ASSUME NEW j \in 1 .. n - 1 PROVE R[j] = IF j < k THEN M[j] ELSE M[j + 1]
    <3>1. CASE j < k
      <4>1. j \in 1 .. k - 1 /\ j \in 1 .. Len(u)  BY <1>1, <2>1, <3>1
      <4> QED  BY <2>1, <2>3, <2>4, <3>1, <4>1
    <3>2. CASE ~ (j < k)
      <4>1. (j - k) + 1 \in 1 .. n - k /\ (k - 1) + ((j - k) + 1) = j /\ k + ((j - k) + 1) = j + 1
        BY <1>1, <3>2
      <4>2. (u \o v)[(k - 1) + ((j - k) + 1)] = v[(j - k) + 1]  BY <2>1, <2>2, <2>4, <4>1
      <4>3. v[(j - k) + 1] = M[k + ((j - k) + 1)]  BY <2>2, <4>1
      <4> QED  BY <2>3, <3>2, <4>1, <4>2, <4>3
    <3> QED  BY <3>1, <3>2
  <2>6. Len(R) = n - 1 /\ R \in Seq(Seq(Chars))  BY <1>1, <2>1, <2>2, <2>3, <2>4
  <2> QED  BY <2>5, <2>6
<1>6. c \in 1 .. N + 1 /\ d \in 1 .. N + 1 /\ c < d /\ w \in Nat
      /\ k \in 1 .. n + 1 /\ k + 1 \in 1 .. n + 1
  <2>1. k \in 1 .. n + 1 /\ k + 1 \in 1 .. n + 1 /\ k < k + 1  BY <1>1
  <2>2. c \in 1 .. N + 1 /\ d \in 1 .. N + 1 /\ c < d  BY <1>1, <2>1
  <2> QED  BY <1>1, <2>1, <2>2
<1> HIDE DEF N
<1>7. t = [i \in 1 .. N - w |-> IF i < c THEN s[i] ELSE s[i + w]]  BY DEF Cut, N
<1>8. p = [j \in 1 .. n |-> IF j <= k THEN b[j] ELSE b[j + 1] - w]  BY DEF CutBegins
<1>9. r = [j \in 1 .. n - 1 |-> IF j < k THEN q[j] ELSE q[j + 1] - w]  BY DEF CutEnds
<1> HIDE DEF t, p, r, M, L, R
<1>10. \A i \in 1 .. N - w : t[i] = IF i < c THEN s[i] ELSE s[i + w]  BY <1>7
<1>11. ASSUME NEW j \in 1 .. n - 1 PROVE L[j] = R[j]
  <2>1. j \in 1 .. n /\ j \in 1 .. n + 1 /\ j + 1 \in 1 .. n /\ j + 1 \in 1 .. n + 1  BY <1>1
  <2>2. CASE j < k
    <3> DEFINE x == b[j]  y == q[j]
    <3>1. p[j] = x /\ r[j] = y  BY <1>1, <1>8, <1>9, <2>1, <2>2
    <3>2. x \in 1 .. N + 1 /\ y \in x .. N /\ y < c  BY <1>1, <1>3, <1>6, <2>1, <2>2
    <3>3. L[j] = [i \in 1 .. y - x |-> t[(x + i) - 1]]  BY <1>4, <3>1
    <3>4. R[j] = [i \in 1 .. y - x |-> s[(x + i) - 1]]  BY <1>3, <1>5, <2>1, <2>2
    <3> HIDE DEF x, y, c, d
    <3>5. \A i \in 1 .. y - x : t[(x + i) - 1] = s[(x + i) - 1]
      <4> TAKE i \in 1 .. y - x
      <4>1. (x + i) - 1 \in 1 .. N - w /\ (x + i) - 1 < c  BY <1>1, <1>6, <3>2 DEF w
      <4> QED  BY <1>10, <4>1
    <3> QED  BY <3>3, <3>4, <3>5
  <2>3. CASE ~ (j < k)
    <3> DEFINE x == b[j + 1]  y == q[j + 1]
    <3>1. p[j] = x - w
      <4>1. CASE j = k
        <5>1. p[k] = c /\ x = d  BY <1>1, <1>8, <2>1, <4>1
        <5> HIDE DEF c, d, x
        <5> QED  BY <1>1, <1>6, <4>1, <5>1 DEF w
      <4>2. CASE j # k  BY <1>1, <1>8, <2>1, <2>3, <4>2
      <4> QED  BY <4>1, <4>2
    <3>2. r[j] = y - w  BY <1>9, <2>3
    <3>3. x \in 1 .. N + 1 /\ y \in x .. N  BY <1>3, <2>1
    <3>4. x >= d
      <4>1. j + 1 = k + 1 \/ k + 1 < j + 1  BY <1>1, <2>3
      <4> QED  BY <1>1, <1>6, <2>1, <4>1
    <3>5. R[j] = [i \in 1 .. y - x |-> s[(x + i) - 1]]  BY <1>3, <1>5, <2>1, <2>3
    <3>6. L[j] = [i \in 1 .. (y - w) - (x - w) |-> t[((x - w) + i) - 1]]  BY <1>4, <3>1, <3>2
    <3> HIDE DEF x, y, c, d
    <3>7. (y - w) - (x - w) = y - x  BY <1>1, <1>6, <3>3
    <3>8. \A i \in 1 .. y - x : t[((x - w) + i) - 1] = s[(x + i) - 1]
      <4> TAKE i \in 1 .. y - x
      <4>1. ((x - w) + i) - 1 \in 1 .. N - w /\ ~ (((x - w) + i) - 1 < c)
            /\ (((x - w) + i) - 1) + w = (x + i) - 1
        BY <1>1, <1>6, <3>3, <3>4 DEF w
      <4> QED  BY <1>10, <4>1
    <3> QED  BY <3>5, <3>6, <3>7, <3>8
  <2> QED  BY <2>2, <2>3
<1>12. L = R
  <2>1. L = [j \in 1 .. n - 1 |-> L[j]] /\ R = [j \in 1 .. n - 1 |-> R[j]]
    <3>1. DOMAIN L = 1 .. n - 1 /\ DOMAIN R = 1 .. n - 1  BY <1>4, <1>5
    <3> QED  BY <1>4, <1>5, <3>1
  <2> QED  BY <1>11, <2>1
<1> QED  BY <1>12 DEF L, R, M, t, p, r, c, d

\* What the menu shows of a text with one more line.
LEMMA AddLines ==
  ASSUME NEW s, NEW n, NEW b, NEW q, Splits(s, n, b, q), b[n + 1] = Len(s) + 1,
         NEW ln \in Seq(Chars), \A i \in 1 .. Len(ln) : ln[i] \notin {NL, CR}
  PROVE  LET len == Len(s) + Len(ln) + 2
         IN LinesOf(Added(s, ln), n + 1, AddBegins(n, b, len), AddEnds(n, q, len))
              = Append(LinesOf(s, n, b, q), ln)
<1> DEFINE N == Len(s)  m == Len(ln)  len == N + m + 2
           t == Added(s, ln)
           p == AddBegins(n, b, len)
           r == AddEnds(n, q, len)
           M == LinesOf(s, n, b, q)
           L == LinesOf(t, n + 1, p, r)
           R == Append(M, ln)
<1>1. n \in Nat /\ N \in Nat /\ m \in Nat  BY SplitsFacts
<1>2. Splits(t, n + 1, p, r)  BY AddSplits
<1>3. /\ M \in Seq(Seq(Chars)) /\ Len(M) = n
      /\ \A j \in 1 .. n : /\ M[j] = [i \in 1 .. q[j] - b[j] |-> s[(b[j] + i) - 1]]
                           /\ b[j] \in 1 .. N + 1 /\ q[j] \in b[j] .. N
  <2>1. M \in Seq(Seq(Chars)) /\ Len(M) = n  BY LinesFacts
  <2>2. ASSUME NEW j \in 1 .. n
        PROVE  /\ M[j] = [i \in 1 .. q[j] - b[j] |-> s[(b[j] + i) - 1]]
               /\ b[j] \in 1 .. N + 1 /\ q[j] \in b[j] .. N
    BY LinesFacts
  <2> QED  BY <2>1, <2>2, Zenon
<1>4. /\ L \in Seq(Seq(Chars)) /\ Len(L) = n + 1
      /\ \A j \in 1 .. n + 1 : L[j] = [i \in 1 .. r[j] - p[j] |-> t[(p[j] + i) - 1]]
  <2> HIDE DEF t, p, r
  <2> QED  BY <1>2, LinesFacts
<1>5. s \in Seq(Chars)  BY DEF Splits
<1>6. /\ \A i \in 1 .. N : t[i] = s[i]
      /\ \A i \in 1 .. m : t[N + i] = ln[i]
  BY <1>5, AddedFacts
<1>7. p = [j \in 1 .. n + 2 |-> IF j <= n + 1 THEN b[j] ELSE len + 1]  BY DEF AddBegins
<1>8. r = [j \in 1 .. n + 1 |-> IF j <= n THEN q[j] ELSE len - 1]  BY DEF AddEnds
<1>9. /\ R \in Seq(Seq(Chars)) /\ Len(R) = n + 1 /\ R[n + 1] = ln
      /\ \A j \in 1 .. n : R[j] = M[j]
  <2> HIDE DEF M
  <2> QED  BY <1>1, <1>3
<1>10. ln = [i \in 1 .. m |-> ln[i]]  OBVIOUS
<1> HIDE DEF N, m, t, p, r, M, L, R
<1>11. ASSUME NEW j \in 1 .. n PROVE L[j] = R[j]
  <2> DEFINE x == b[j]  y == q[j]
  <2>1. j \in 1 .. n + 1 /\ j \in 1 .. n + 2 /\ j <= n + 1 /\ j <= n  BY <1>1
  <2>2. p[j] = x /\ r[j] = y  BY <1>7, <1>8, <2>1
  <2>3. x \in 1 .. N + 1 /\ y \in x .. N  BY <1>3
  <2>4. L[j] = [i \in 1 .. y - x |-> t[(x + i) - 1]]  BY <1>4, <2>1, <2>2
  <2>5. R[j] = [i \in 1 .. y - x |-> s[(x + i) - 1]]  BY <1>3, <1>9
  <2> HIDE DEF x, y
  <2>6. \A i \in 1 .. y - x : t[(x + i) - 1] = s[(x + i) - 1]
    <3> TAKE i \in 1 .. y - x
    <3>1. (x + i) - 1 \in 1 .. N  BY <1>1, <2>3
    <3> QED  BY <1>6, <3>1
  <2> QED  BY <2>4, <2>5, <2>6
<1>12. L[n + 1] = R[n + 1]
  <2>1. n + 1 \in 1 .. n + 1 /\ n + 1 \in 1 .. n + 2 /\ ~ (n + 1 <= n)  BY <1>1
  <2>2. p[n + 1] = N + 1 /\ r[n + 1] = len - 1  BY <1>7, <1>8, <2>1 DEF N
  <2>3. L[n + 1] = [i \in 1 .. (len - 1) - (N + 1) |-> t[((N + 1) + i) - 1]]  BY <1>4, <2>1, <2>2
  <2>4. (len - 1) - (N + 1) = m  BY <1>1
  <2> HIDE DEF len
  <2>5. \A i \in 1 .. m : t[((N + 1) + i) - 1] = ln[i]
    <3> TAKE i \in 1 .. m
    <3>1. ((N + 1) + i) - 1 = N + i  BY <1>1
    <3> QED  BY <1>6, <3>1
  <2> QED  BY <1>9, <1>10, <2>3, <2>4, <2>5
<1>13. L = R
  <2>1. L = [j \in 1 .. n + 1 |-> L[j]] /\ R = [j \in 1 .. n + 1 |-> R[j]]
    <3>1. DOMAIN L = 1 .. n + 1 /\ DOMAIN R = 1 .. n + 1  BY <1>4, <1>9
    <3> QED  BY <1>4, <1>9, <3>1
  <2>2. \A j \in 1 .. n + 1 : j \in 1 .. n \/ j = n + 1  BY <1>1
  <2> QED  BY <1>11, <1>12, <2>1, <2>2
<1> QED  BY <1>13 DEF L, R, M, t, p, r, len, N, m

\* The inductive invariant: the text falls into lines.
EditorInv == SplitsLines(text)

\* What a step does to a text that falls into lines: t is s without its line k, or s.
LEMMA Deleted ==
  ASSUME NEW s, NEW n, NEW b, NEW q, Splits(s, n, b, q), NEW k \in 1 .. n
  PROVE  /\ SplitsLines(string_linedel(s, k))
         /\ Complete(s) => /\ DOMAIN Menu(s) = 1 .. n
                           /\ Menu(string_linedel(s, k)) = RemoveAt(Menu(s), k)
<1> DEFINE t == Cut(s, b[k], b[k + 1])  p == CutBegins(n, b, k)  r == CutEnds(n, b, q, k)
<1>1. string_linedel(s, k) = t  BY DeleteIs
<1>2. Splits(t, n - 1, p, r)  BY CutSplits
<1>3. SplitsLines(t)  BY <1>2 DEF SplitsLines
<1>4. ASSUME Complete(s)
      PROVE  DOMAIN Menu(s) = 1 .. n /\ Menu(t) = RemoveAt(Menu(s), k)
  <2>1. b[n + 1] = Len(s) + 1  BY <1>4, CompleteIs
  <2>2. Menu(s) = LinesOf(s, n, b, q)  BY <2>1, MenuIs
  <2>3. p[(n - 1) + 1] = Len(t) + 1
    <3> DEFINE N == Len(s)  w == b[k + 1] - b[k]
    <3>1. /\ n \in Nat /\ N \in Nat
          /\ \A j \in 1 .. n + 1 : b[j] \in 1 .. N + 1
          /\ \A i, j \in 1 .. n + 1 : i < j => q[i] < b[j] /\ b[i] < b[j]
      BY SplitsFacts
    <3>2. k \in 1 .. n + 1 /\ k + 1 \in 1 .. n + 1 /\ k < k + 1 /\ n \in 1 .. n /\ (n - 1) + 1 = n
      BY <3>1
    <3>3. w \in Nat /\ b[k] \in Nat /\ b[k + 1] \in 1 .. N + 1 /\ b[k] \in 1 .. N + 1 /\ w = b[k + 1] - b[k]
          /\ N - w \in Nat
      <4>1. b[k] \in 1 .. N + 1 /\ b[k + 1] \in 1 .. N + 1 /\ b[k] < b[k + 1]  BY <3>1, <3>2
      <4> QED  BY <3>1, <4>1
    <3>4. Len(t) = N - w
      <4> HIDE DEF N, w
      <4>1. t = [i \in 1 .. N - w |-> IF i < b[k] THEN s[i] ELSE s[i + w]]  BY DEF Cut, N, w
      <4>2. t \in Seq(Chars)  BY <1>2 DEF Splits
      <4> HIDE DEF t
      <4>3. DOMAIN t = 1 .. N - w  BY <4>1
      <4>4. DOMAIN t = 1 .. Len(t) /\ Len(t) \in Nat  BY <4>2
      <4> QED  BY <3>3, <4>3, <4>4
    <3>5. p[n] = IF n <= k THEN b[n] ELSE b[n + 1] - w  BY <3>2 DEF CutBegins
    <3>6. p[n] = b[n + 1] - w
      <4>1. CASE n = k
        <5> DEFINE x == b[k]  y == b[k + 1]
        <5>1. p[n] = x /\ b[n + 1] = y /\ x \in Nat /\ y \in Nat /\ w = y - x  BY <3>3, <3>5, <4>1
        <5> HIDE DEF x, y, w, p
        <5> QED  BY <5>1
      <4>2. CASE n # k
        <5>1. ~ (n <= k)  BY <3>1, <4>2
        <5> QED  BY <3>5, <5>1
      <4> QED  BY <4>1, <4>2
    <3> HIDE DEF N, w, p, t
    <3> QED  BY <2>1, <3>1, <3>2, <3>3, <3>4, <3>6 DEF N
  <2>4. Menu(t) = LinesOf(t, n - 1, p, r)
    <3> HIDE DEF t, p, r
    <3> QED  BY <1>2, <2>3, MenuIs
  <2>5. LinesOf(t, n - 1, p, r) = RemoveAt(LinesOf(s, n, b, q), k)  BY CutLines
  <2> QED  BY <2>2, <2>4, <2>5, LinesFacts
<1> HIDE DEF t
<1> QED  BY <1>1, <1>3, <1>4

LEMMA MenuHas ==
  ASSUME NEW s, SplitsLines(s), Complete(s)
  PROVE  DOMAIN Menu(s) = 1 .. count_lines(s)
<1>1. PICK n, b, q : Splits(s, n, b, q)  BY DEF SplitsLines
<1>2. Menu(s) = LinesOf(s, n, b, q)  BY <1>1, CompleteIs, MenuIs
<1> QED  BY <1>1, <1>2, CountLines, LinesFacts

LEMMA LineAdded ==
  ASSUME NEW s, SplitsLines(s), NEW ln \in Lines
  PROVE  /\ SplitsLines(Added(s, ln))
         /\ Complete(s) => Menu(Added(s, ln)) = Append(Menu(s), ln)
<1>1. PICK n, b, q : Splits(s, n, b, q)  BY DEF SplitsLines
<1>2. ln \in Seq(Chars) /\ \A i \in 1 .. Len(ln) : ln[i] \notin {NL, CR}
  <2>1. STRING \subseteq Chars /\ ln \in Seq(STRING)  BY TextsAssumption DEF Chars, IsLine
  <2>2. ln \in Seq(Chars)  BY <2>1, SeqWider
  <2> QED  BY <2>2, TextsAssumption DEF IsLine
<1> DEFINE len == Len(s) + Len(ln) + 2
           t == Added(s, ln)
           p == AddBegins(n, b, len)
           r == AddEnds(n, q, len)
<1>3. Splits(t, n + 1, p, r)  BY <1>1, <1>2, AddSplits
<1>4. SplitsLines(t)  BY <1>3 DEF SplitsLines
<1>5. ASSUME Complete(s) PROVE Menu(t) = Append(Menu(s), ln)
  <2>1. b[n + 1] = Len(s) + 1  BY <1>1, <1>5, CompleteIs
  <2>2. Menu(s) = LinesOf(s, n, b, q)  BY <1>1, <2>1, MenuIs
  <2>3. p[(n + 1) + 1] = Len(t) + 1
    <3>1. n \in Nat /\ s \in Seq(Chars)  BY <1>1 DEF Splits
    <3>2. (n + 1) + 1 \in 1 .. n + 2 /\ ~ ((n + 1) + 1 <= n + 1)  BY <3>1
    <3>3. p[(n + 1) + 1] = len + 1  BY <3>2 DEF AddBegins
    <3>4. Len(t) = len  BY <1>2, <3>1, AddedFacts
    <3> QED  BY <3>3, <3>4
  <2>4. Menu(t) = LinesOf(t, n + 1, p, r)
    <3> HIDE DEF t, p, r
    <3> QED  BY <1>3, <2>3, MenuIs
  <2>5. LinesOf(t, n + 1, p, r) = Append(LinesOf(s, n, b, q), ln)  BY <1>1, <1>2, <2>1, AddLines
  <2> QED  BY <2>2, <2>4, <2>5
<1> QED  BY <1>4, <1>5

\* What EditsThatLine says of a step from text s, where next was typed, to text t.
Edits(s, next, t) ==
  Complete(s) =>
    Menu(t) = CASE next.op = "delete" /\ next.n \in DOMAIN Menu(s) -> RemoveAt(Menu(s), next.n)
                [] next.op = "add" -> Append(Menu(s), next.line)
                [] next.op \in {"clear", "none"} -> Menu(t)
                [] OTHER -> Menu(s)

LEMMA EditorStep ==
  ASSUME EditorInv, EditorNext
  PROVE  EditorInv' /\ Edits(text, typed', text')
<1>1. SplitsLines(text)  BY DEF EditorInv
<1>2. PICK n, b, q : Splits(text, n, b, q)  BY <1>1 DEF SplitsLines
<1>3. count_lines(text) = n /\ n \in Nat  BY <1>2, CountLines, SplitsFacts
<1>4. Complete(text) => DOMAIN Menu(text) = 1 .. n  BY <1>1, <1>3, MenuHas
<1>5. ASSUME NEW k \in Nat, typed'.op = "delete", typed'.n = k,
             text' = IF k \in 1 .. n THEN string_linedel(text, k) ELSE text
      PROVE  SplitsLines(text') /\ Edits(text, typed', text')
  <2>1. CASE k \in 1 .. n
    <3>1. text' = string_linedel(text, k)  BY <1>5, <2>1
    <3>2. SplitsLines(text') /\ (Complete(text) => Menu(text') = RemoveAt(Menu(text), k))
      BY <1>2, <2>1, <3>1, Deleted
    <3> QED  BY <1>4, <1>5, <2>1, <3>2 DEF Edits
  <2>2. CASE k \notin 1 .. n
    <3>1. text' = text  BY <1>5, <2>2
    <3> QED  BY <1>1, <1>4, <1>5, <2>2, <3>1 DEF Edits
  <2> QED  BY <2>1, <2>2
<1>6. CASE DeleteLast
  <2>1. typed'.op = "delete" /\ typed'.n = n /\ text' = string_linedel(text, n)
    BY <1>3, <1>6 DEF DeleteLast, Does
  <2>2. n = 0 => string_linedel(text, n) = text  BY <1>2, DeleteNone
  <2>3. n # 0 => n \in 1 .. n  BY <1>3
  <2>4. text' = IF n \in 1 .. n THEN string_linedel(text, n) ELSE text  BY <2>1, <2>2, <2>3
  <2> QED  BY <1>3, <1>5, <2>1, <2>4 DEF EditorInv
<1>7. CASE Clear
  <2>1. typed'.op = "clear" /\ text' = <<>>  BY <1>7 DEF Clear, Does
  <2>2. SplitsLines(<<>>)  BY EmptySplits DEF SplitsLines
  <2> QED  BY <2>1, <2>2 DEF EditorInv, Edits
<1>8. CASE Reopen
  <2>1. typed'.op = "none" /\ text' \in Texts  BY <1>8 DEF Reopen
  <2>2. SplitsLines(text')  BY <2>1, TextSplits
  <2> QED  BY <2>1, <2>2 DEF EditorInv, Edits
<1>9. ASSUME NEW k \in 0 .. count_lines(text) + 1, DeleteLine(k)
      PROVE  EditorInv' /\ Edits(text, typed', text')
  <2>1. k \in Nat  BY <1>3
  <2>2. typed'.op = "delete" /\ typed'.n = k
        /\ text' = IF k \in 1 .. n THEN string_linedel(text, k) ELSE text
    BY <1>3, <1>9 DEF DeleteLine, Does
  <2> QED  BY <1>5, <2>1, <2>2 DEF EditorInv
<1>10. ASSUME NEW k \in 0 .. count_lines(text) + 1, InsertLine(k)
       PROVE  EditorInv' /\ Edits(text, typed', text')
  <2>1. typed'.op = "insert" /\ text' = text  BY <1>10 DEF InsertLine, Does
  <2> QED  BY <1>1, <2>1 DEF EditorInv, Edits
<1>11. ASSUME NEW ln \in Lines, AddLine(ln)
       PROVE  EditorInv' /\ Edits(text, typed', text')
  <2>1. typed'.op = "add" /\ typed'.line = ln /\ text' = Added(text, ln)
    BY <1>11 DEF AddLine, Added
  <2>2. SplitsLines(text') /\ (Complete(text) => Menu(text') = Append(Menu(text), ln))
    BY <1>1, <2>1, LineAdded
  <2> QED  BY <2>1, <2>2 DEF EditorInv, Edits
<1> QED  BY <1>6, <1>7, <1>8, <1>9, <1>10, <1>11 DEF EditorNext

\* edit_text: whatever texts the editor is opened on, and whatever is typed, a deletion
\* takes the line that the menu shows under its number, and no other, and a line that is
\* typed comes after all of them.
THEOREM TheLineIsEdited == EditorSpec => EditsThatLine
<1>1. EditorInit => EditorInv
  BY TextSplits DEF EditorInit, EditorInv
<1>2. EditorInv /\ [EditorNext]_editorVars => EditorInv'
  <2>1. EditorInv /\ UNCHANGED editorVars => EditorInv'  BY DEF EditorInv, editorVars
  <2> QED  BY <2>1, EditorStep
<1>3. EditorInv /\ [EditorNext]_editorVars =>
        [Complete(text) =>
           Menu(text') = CASE typed'.op = "delete" /\ typed'.n \in DOMAIN Menu(text) ->
                                     RemoveAt(Menu(text), typed'.n)
                             [] typed'.op = "add" -> Append(Menu(text), typed'.line)
                             [] typed'.op \in {"clear", "none"} -> Menu(text')
                             [] OTHER -> Menu(text)]_editorVars
  BY EditorStep, Zenon DEF Edits
<1> QED  BY <1>1, <1>2, <1>3, PTL DEF EditorSpec, EditsThatLine

=============================================================================
