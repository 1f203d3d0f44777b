------------------------------- MODULE HashMap -------------------------------
(***************************************************************************)
(* hashmap.c: open addressing with double hashing.  A slot that was never  *)
(* used has no data and ends every search; an insertion takes the first    *)
(* slot without the ACTIVE flag.  Nobody calls hm_remove, which would take *)
(* the flag and leave key and data; it is left out.  The map of an         *)
(* object's or a room's extra descriptions starts as zeroed memory         *)
(* (StartSize 0) and is keyed by the hash_key of a word; the importer's    *)
(* indexes start at a prime size and are keyed by numbers.                 *)
(*                                                                         *)
(* identifier_t and unsigned long have WordBits bits here.  is_prime is    *)
(* taken to be right, and to accept 1 as the code's test does.             *)
(***************************************************************************)
EXTENDS Integers, SequencesExt

CONSTANTS Ids,        \* numbers given to hm_insert and hm_get
          Words,      \* strings given to sm_insert: sequences of characters
          Values,     \* the elements, none of them a null pointer
          Null,
          StartSize,  \* the size of the table before the first insertion
          WordBits

ASSUME HashMapAssumption ==
  /\ Ids \subseteq Int /\ StartSize \in Nat /\ WordBits \in Nat
  /\ Null \notin Values

VARIABLES
  hm,    \* the hashmap: its slots, its count, and whether a slot outside the
         \* table was read or written
  given  \* history: the element each key was last given, or Null

hashVars == <<hm, given>>

\* hash_key: djb2 in an unsigned long.
hash_key(w) == FoldLeft(LAMBDA h, c : (h * 33 + c) % 2 ^ WordBits, 5381, w)

\* The conversion from unsigned long to the signed identifier_t.
AsIdentifier(u) == IF u >= 2 ^ (WordBits - 1) THEN u - 2 ^ WordBits ELSE u

Keys == Ids \cup {AsIdentifier(hash_key(w)) : w \in Words}

\* The search of a key below zero leaves the table.
ASSUME KeysAssumption == IsFiniteSet(Keys) /\ Keys \subseteq Nat

\* C's remainder has the sign of the dividend; no divisor here is 0.
Rem(a, b) == LET n == IF b < 0 THEN -b ELSE b
             IN IF a < 0 THEN -((-a) % n) ELSE a % n

-----------------------------------------------------------------------------
(* Slots and probes.                                                       *)

Size(h) == Cardinality(DOMAIN h.slot)

Zeroed(n) ==
  [slot  |-> [i \in 0 .. n - 1 |-> [data |-> Null, key |-> 0, active |-> FALSE]],
   count |-> 0, stray |-> FALSE]

IsPrime(n) == \A m \in 2 .. n - 1 : n % m # 0

\* find_prime_greater_than(n << 1).
NextSize(n) == LET odd == {m \in 2 * n + 1 .. 4 * n + 3 : m % 2 = 1 /\ IsPrime(m)}
               IN CHOOSE m \in odd : \A o \in odd : m <= o

\* The sizes of tables are odd primes (and 0, and the 1 that is_prime accepts); of the
\* numbers find_prime_greater_than tries, one below twice the first is prime.
ASSUME SizesAssumption ==
  /\ StartSize = 0 \/ (StartSize % 2 = 1 /\ IsPrime(StartSize))
  /\ \A n \in 0 .. Cardinality(Keys) :
       \E m \in 2 * n + 1 .. 4 * n + 3 : m % 2 = 1 /\ IsPrime(m)

\* The slots a key's search visits, in order.
Probe(k, n) ==
  LET step == Rem(k, n - 2) + 1
  IN [i \in 0 .. n - 1 |-> Rem(Rem(k, n) + i * step, n)]

Named(h, k) == {i \in DOMAIN h.slot : h.slot[i].key = k}
Unused(h) == {i \in DOMAIN h.slot : h.slot[i].data = Null}
Free(h) == {i \in DOMAIN h.slot : ~h.slot[i].active}

\* The slot a search of key k stops at when those of stops end it, -1 when it
\* visits them all; a slot outside the table stops it too.
StopsAt(h, k, stops) ==
  LET p == Probe(k, Size(h))
      ends == {i \in DOMAIN p : p[i] \notin DOMAIN h.slot \/ p[i] \in stops}
  IN IF ends = {} THEN -1 ELSE p[CHOOSE i \in ends : \A j \in ends : i <= j]

-----------------------------------------------------------------------------
(* The operations.                                                         *)

\* The body of hm_insert: over the key's own slot, or into the first slot that
\* is not active.  A search that stops at neither would rehash and start
\* again; at a prime size it visits every slot, and GetsWhatWasGiven says so.
Placed(h, k, v) ==
  LET i == StopsAt(h, k, Free(h) \cup Named(h, k))
  IN IF h.stray \/ i \notin DOMAIN h.slot THEN [h EXCEPT !.stray = TRUE]
     ELSE [h EXCEPT !.slot[i] = [data |-> v, key |-> k, active |-> TRUE],
                    !.count = IF h.slot[i].active THEN @ ELSE @ + 1]

\* rehash: the active elements go to a larger table, the last slot first.
Moved(h, s) == IF s.active THEN Placed(h, s.key, s.data) ELSE h

Rehashed(h) ==
  LET n == Size(h)
      moved[i \in 0 .. n] == IF i = 0 THEN Zeroed(NextSize(n))
                             ELSE Moved(moved[i - 1], h.slot[n - i])
  IN moved[n]

hm_insert(k, v) ==
  /\ hm' = Placed(IF Size(hm) <= hm.count THEN Rehashed(hm) ELSE hm, k, v)
  /\ given' = [given EXCEPT ![k] = v]

\* Mutant: an active slot with another key ends the search.
hm_get_NoProbe(k) ==
  LET i == StopsAt(hm, k, DOMAIN hm.slot)
  IN IF i \in DOMAIN hm.slot /\ hm.slot[i].active /\ hm.slot[i].key = k
     THEN hm.slot[i].data ELSE Null

\* hm_get: the slot with the key, unless an unused one comes first.
hm_get(k) ==
  LET i == StopsAt(hm, k, Named(hm, k) \cup Unused(hm))
  IN IF hm.count > 0 /\ i \in DOMAIN hm.slot /\ hm.slot[i].active
        /\ hm.slot[i].key = k
     THEN hm.slot[i].data ELSE Null

\* new_hashmap, or memory that was cleared when StartSize is 0.
HashInit == hm = Zeroed(StartSize) /\ given = [k \in Keys |-> Null]

\* What the program does: it never removes.
HashNext == ~hm.stray /\ \E k \in Keys, v \in Values : hm_insert(k, v)

HashSpec == HashInit /\ [][HashNext]_hashVars

-----------------------------------------------------------------------------
(* Properties.                                                             *)

\* What is in the table has its key, each key is counted once, and every search of an
\* insertion stayed in the table and found its slot there.
HashTypeOK ==
  /\ \A i \in DOMAIN hm.slot :
       hm.slot[i] \in [data : Values \cup {Null}, key : Keys \cup {0},
                       active : BOOLEAN]
  /\ hm.count = Cardinality({k \in Keys : given[k] # Null}) /\ hm.count <= Size(hm)
  /\ ~hm.stray
  /\ given \in [Keys -> Values \cup {Null}]

\* hm_get answers with the element the key was last given, through every
\* collision and every rehash, and with nothing for a key that has none.
GetsWhatWasGiven == HashTypeOK /\ \A k \in Keys : hm_get(k) = given[k]
=============================================================================
