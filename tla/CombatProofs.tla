----------------------------- MODULE CombatProofs -----------------------------
(***************************************************************************)
(* Theorems about Combat, for every set of addresses, rooms and levels.    *)
(***************************************************************************)
EXTENDS Combat, ListsProofs

Kinds == {"free", "pc", "npc"}

WorldType ==
  [list : Seq(Chars), kind : [Chars -> Kinds], inRoom : [Chars -> Rooms \cup {None}],
   fighting : [Chars -> Chars \cup {None}], level : [Chars -> Nat],
   experience : [Chars -> Nat], kills : Nat, orphaned : BOOLEAN]

\* Nobody who is allocated fights what is not.
NoneDangles(w) ==
  \A b \in Chars : w.kind[b] # "free" =>
    w.fighting[b] = None \/ w.kind[w.fighting[b]] # "free"

\* The list names the allocated once each, with everyone in a room and every
\* player of the world in one; and nobody dangles unless someone was orphaned.
Healthy(w) ==
  /\ w \in WorldType
  /\ Distinct(w.list)
  /\ \A a \in Range(w.list) :
        w.kind[a] # "free" /\ (w.kind[a] = "pc" => w.inRoom[a] # None)
  /\ \A a \in Chars : w.inRoom[a] # None => a \in Range(w.list)
  /\ \A a \in Chars : w.kind[a] = "pc" => w.level[a] # 0
  /\ w.orphaned \/ NoneDangles(w)

\* What a round may do to the world: fights end, and people are freed.
Later(w, x) ==
  /\ \A c \in Chars : x.fighting[c] \in {w.fighting[c], None}
  /\ \A c \in Chars : \/ x.kind[c] = w.kind[c] /\ x.inRoom[c] = w.inRoom[c]
                      \/ x.kind[c] = "free" /\ x.inRoom[c] = None
  /\ \/ x.list = w.list
     \/ \E v \in Chars : x.kind[v] = "free" /\ x.list = Without(w.list, {v})

-----------------------------------------------------------------------------
(* The operations on a world.                                              *)

LEMMA ListElements == ASSUME NEW l \in Seq(Chars) PROVE Range(l) \subseteq Chars
BY DEF Range

LEMMA MaxOfTwo ==
  ASSUME NEW x \in Int, NEW y \in Int
  PROVE  Max({x, y}) \in {x, y} /\ Max({x, y}) >= x /\ Max({x, y}) >= y
<1>1. \E m \in {x, y} : \A k \in {x, y} : m >= k
  <2>1. CASE x >= y  BY <2>1
  <2>2. CASE y >= x  BY <2>2
  <2> QED  BY <2>1, <2>2
<1> QED  BY <1>1 DEF Max

LEMMA LinkedHealthy ==
  ASSUME NEW w, Healthy(w), NEW a \in Chars, NEW r \in Rooms \cup {None},
         a \notin Range(w.list), w.kind[a] # "free", w.kind[a] = "pc" => r # None
  PROVE  Healthy(Linked(w, a, r)) /\ Linked(w, a, r).kills = w.kills
<1> DEFINE x == Linked(w, a, r)
<1>1. w \in WorldType  BY DEF Healthy
<1>2. w.list \in Seq(Chars) /\ w.inRoom \in [Chars -> Rooms \cup {None}]  BY <1>1 DEF WorldType
<1>0. /\ x.list = <<a>> \o w.list /\ x.inRoom = [w.inRoom EXCEPT ![a] = r]
      /\ x.kind = w.kind /\ x.fighting = w.fighting /\ x.level = w.level
      /\ x.orphaned = w.orphaned /\ x.kills = w.kills
      /\ x \in WorldType
  <2>1. <<a>> \o w.list \in Seq(Chars) /\ [w.inRoom EXCEPT ![a] = r] \in [Chars -> Rooms \cup {None}]
    BY <1>2
  <2>2. x = [w EXCEPT !.list = <<a>> \o w.list, !.inRoom = [w.inRoom EXCEPT ![a] = r]]
    BY <1>1 DEF Linked, WorldType
  <2> QED  BY <1>1, <2>1, <2>2 DEF WorldType
<1> HIDE DEF x
<1>3. Range(x.list) = {a} \cup Range(w.list)
  <2>1. \A i \in DOMAIN w.list : i + 1 \in DOMAIN x.list /\ x.list[i + 1] = w.list[i]  BY <1>0, <1>2
  <2>2. \A i \in DOMAIN x.list : x.list[i] = a \/ (i - 1 \in DOMAIN w.list /\ x.list[i] = w.list[i - 1])
    BY <1>0, <1>2
  <2>3. 1 \in DOMAIN x.list /\ x.list[1] = a  BY <1>0, <1>2
  <2> QED  BY <2>1, <2>2, <2>3 DEF Range
<1>4. Distinct(x.list)
  <2>1. \A i \in DOMAIN x.list : i # 1 => x.list[i] \in Range(w.list) /\ x.list[i] = w.list[i - 1]
                                          /\ i - 1 \in DOMAIN w.list
    BY <1>0, <1>2 DEF Range
  <2>2. x.list[1] = a /\ DOMAIN x.list \subseteq Nat  BY <1>0, <1>2
  <2>3. Distinct(w.list)  BY DEF Healthy
  <2> QED  BY <2>1, <2>2, <2>3 DEF Distinct
<1>5. NoneDangles(w) => NoneDangles(x)  BY <1>0 DEF NoneDangles
<1>6. Range(w.list) \subseteq Chars  BY <1>2, ListElements
<1> QED  BY <1>0, <1>2, <1>3, <1>4, <1>5, <1>6 DEF Healthy, x

LEMMA UnlinkedHealthy ==
  ASSUME NEW w, Healthy(w), NEW a \in Chars
  PROVE  /\ Healthy(Unlinked(w, a)) /\ Unlinked(w, a).kills = w.kills
         /\ Unlinked(w, a).list = Without(w.list, {a})
         /\ Range(Unlinked(w, a).list) = Range(w.list) \ {a}
         /\ Unlinked(w, a).kind = w.kind /\ Unlinked(w, a).fighting = w.fighting
         /\ Unlinked(w, a).level = w.level /\ Unlinked(w, a).experience = w.experience
         /\ Unlinked(w, a).orphaned = w.orphaned
<1> DEFINE x == Unlinked(w, a)
<1>1. w.list \in Seq(Chars) /\ Distinct(w.list) /\ w.inRoom \in [Chars -> Rooms \cup {None}]
  BY DEF Healthy, WorldType
<1>2. /\ Without(w.list, {a}) \in Seq(Chars)
      /\ Range(Without(w.list, {a})) = Range(w.list) \ {a}
      /\ Distinct(Without(w.list, {a}))
  BY <1>1, WithoutFacts, WithoutDistinct
<1>3. /\ x \in WorldType /\ x.list = Without(w.list, {a})
      /\ x.inRoom = [w.inRoom EXCEPT ![a] = None]
      /\ x.kind = w.kind /\ x.fighting = w.fighting /\ x.level = w.level
      /\ x.experience = w.experience
      /\ x.orphaned = w.orphaned /\ x.kills = w.kills
  BY <1>2 DEF Unlinked, Healthy, WorldType
<1> HIDE DEF x
<1>4. NoneDangles(w) => NoneDangles(x)  BY <1>3 DEF NoneDangles
<1> QED  BY <1>1, <1>2, <1>3, <1>4, ListElements DEF Healthy, x

\* Freeing a orphans whoever fights it, and nobody else.
LEMMA ExtractedHealthy ==
  ASSUME NEW w, Healthy(w), NEW a \in Chars
  PROVE  LET x == Extracted(w, a)
         IN /\ Healthy(x) /\ x.kills = w.kills /\ Later(w, x)
            /\ x.fighting = w.fighting /\ x.kind[a] = "free"
<1> DEFINE u == Unlinked(w, a)
           lost == w.orphaned \/ \E b \in Chars \ {a} : w.kind[b] # "free" /\ w.fighting[b] = a
           x == Extracted(w, a)
<1>1. /\ Healthy(u) /\ u.kills = w.kills /\ u.list = Without(w.list, {a})
      /\ Range(u.list) = Range(w.list) \ {a}
      /\ u.inRoom = [w.inRoom EXCEPT ![a] = None]
      /\ u.kind = w.kind /\ u.fighting = w.fighting
      /\ u.level = w.level /\ u.experience = w.experience /\ u.orphaned = w.orphaned
  <2>1. u.inRoom = [w.inRoom EXCEPT ![a] = None]  BY DEF Unlinked, Healthy, WorldType
  <2> QED  BY <2>1, UnlinkedHealthy
<1>2. u \in WorldType /\ w \in WorldType  BY <1>1 DEF Healthy
<1>3. /\ w.kind \in [Chars -> Kinds] /\ w.level \in [Chars -> Nat] /\ w.experience \in [Chars -> Nat]
      /\ w.fighting \in [Chars -> Chars \cup {None}] /\ w.orphaned \in BOOLEAN
      /\ w.inRoom \in [Chars -> Rooms \cup {None}]
  BY <1>2 DEF WorldType
<1>4. x = [u EXCEPT !.kind = [w.kind EXCEPT ![a] = "free"], !.level = [w.level EXCEPT ![a] = 0],
                    !.experience = [w.experience EXCEPT ![a] = 0], !.orphaned = lost]
  <2> HIDE DEF u
  <2> QED  BY <1>1, <1>2 DEF Extracted, WorldType, u
<1>5. lost \in BOOLEAN  BY <1>3
<1> HIDE DEF u, x, lost
<1>6. /\ x.kind = [w.kind EXCEPT ![a] = "free"] /\ x.level = [w.level EXCEPT ![a] = 0]
      /\ x.orphaned = lost /\ x.fighting = w.fighting /\ x.kills = w.kills
      /\ x.list = u.list /\ x.inRoom = u.inRoom
      /\ x \in WorldType
  <2>1. /\ [w.kind EXCEPT ![a] = "free"] \in [Chars -> Kinds]
        /\ [w.level EXCEPT ![a] = 0] \in [Chars -> Nat]
        /\ [w.experience EXCEPT ![a] = 0] \in [Chars -> Nat]
    BY <1>3 DEF Kinds
  <2> QED  BY <1>1, <1>2, <1>4, <1>5, <2>1 DEF WorldType
<1>7. x.orphaned \/ NoneDangles(x)
  <2> SUFFICES ASSUME ~ lost, NEW b \in Chars, x.kind[b] # "free",
                      w.fighting[b] # None
               PROVE  x.kind[w.fighting[b]] # "free"
    BY <1>3, <1>6 DEF NoneDangles
  <2>1. b # a /\ w.kind[b] # "free"  BY <1>3, <1>6
  <2>2. ~ w.orphaned /\ w.fighting[b] # a  BY <2>1 DEF lost
  <2>3. w.kind[w.fighting[b]] # "free"  BY <2>1, <2>2 DEF Healthy, NoneDangles
  <2> QED  BY <1>3, <1>6, <2>2, <2>3
<1>8. Healthy(x)
  <2>1. Distinct(x.list)  BY <1>1, <1>6 DEF Healthy
  <2>2. \A b \in Range(x.list) : b # a /\ b \in Chars /\ u.kind[b] # "free"
                                   /\ (u.kind[b] = "pc" => u.inRoom[b] # None)
    BY <1>1, <1>2, <1>6, ListElements DEF Healthy, WorldType
  <2>3. \A b \in Chars : x.inRoom[b] # None => b \in Range(x.list)  BY <1>1, <1>6 DEF Healthy
  <2>4. \A b \in Chars : x.kind[b] = "pc" => x.level[b] # 0
    BY <1>1, <1>3, <1>6 DEF Healthy
  <2>5. \A b \in Range(x.list) : x.kind[b] # "free" /\ (x.kind[b] = "pc" => x.inRoom[b] # None)
    BY <1>1, <1>3, <1>6, <2>2
  <2> QED  BY <1>6, <1>7, <2>1, <2>3, <2>4, <2>5 DEF Healthy
<1>9. Later(w, x)  BY <1>1, <1>3, <1>6 DEF Later
<1> QED  BY <1>3, <1>6, <1>8, <1>9 DEF x

\* Experience and levels stay numbers, and nothing else changes.
LEMMA GainKeeps ==
  ASSUME NEW w, Healthy(w), NEW a \in Chars, NEW gain \in Gains
  PROVE  LET x == gain_exp(w, a, gain)
         IN /\ Healthy(x) /\ x.kills = w.kills /\ x.list = w.list /\ x.kind = w.kind
            /\ x.inRoom = w.inRoom /\ x.fighting = w.fighting /\ x.orphaned = w.orphaned
<1> DEFINE x == gain_exp(w, a, gain)
           tolvl == ToLevel[w.level[a]]
           exp == Max({tolvl, w.experience[a] + gain})
<1>1. w \in WorldType /\ w.level \in [Chars -> Nat] /\ w.experience \in [Chars -> Nat]
  BY DEF Healthy, WorldType
<1>2. CASE w.kind[a] # "pc" \/ w.level[a] > MAX_PLAYABLE_LEVEL  BY <1>2 DEF gain_exp
<1>3. CASE ~ (w.kind[a] # "pc" \/ w.level[a] > MAX_PLAYABLE_LEVEL)
  <2>1. w.level[a] \in 1 .. MAX_PLAYABLE_LEVEL  BY <1>1, <1>3, CombatAssumption DEF Healthy
  <2>2. tolvl \in Nat /\ w.experience[a] + gain \in Int  BY <1>1, <2>1, CombatAssumption
  <2>3. exp \in Nat
    <3> DEFINE sum == w.experience[a] + gain
    <3> HIDE DEF tolvl, sum
    <3>1. exp \in {tolvl, sum} /\ exp >= tolvl /\ exp >= sum
      <4>1. tolvl \in Int /\ sum \in Int  BY <2>2 DEF sum
      <4> QED  BY <4>1, MaxOfTwo DEF sum
    <3>2. sum \in Int  BY <2>2 DEF sum
    <3> HIDE DEF exp
    <3> QED  BY <2>2, <3>1, <3>2
  <2> DEFINE l == IF exp >= tolvl THEN MAX_PLAYABLE_LEVEL ELSE w.level[a]
  <2>4. l \in Nat \ {0}  BY <1>1, <2>1, CombatAssumption
  <2>5. x = [w EXCEPT !.experience = [w.experience EXCEPT ![a] = exp],
                      !.level = [w.level EXCEPT ![a] = l]]
    <3> HIDE DEF exp, tolvl
    <3> QED  BY <1>1, <1>3 DEF gain_exp, WorldType, exp, tolvl
  <2> HIDE DEF x, exp, tolvl, l
  <2>6. [w.experience EXCEPT ![a] = exp] \in [Chars -> Nat] /\ [w.level EXCEPT ![a] = l] \in [Chars -> Nat]
    BY <1>1, <2>3, <2>4
  <2>7. /\ x \in WorldType /\ x.level = [w.level EXCEPT ![a] = l]
        /\ x.kills = w.kills /\ x.list = w.list /\ x.kind = w.kind
        /\ x.inRoom = w.inRoom /\ x.fighting = w.fighting /\ x.orphaned = w.orphaned
    BY <1>1, <2>5, <2>6 DEF WorldType
  <2>8. \A b \in Chars : x.kind[b] = "pc" => x.level[b] # 0  BY <1>1, <2>4, <2>7 DEF Healthy
  <2>9. NoneDangles(w) => NoneDangles(x)  BY <2>7 DEF NoneDangles
  <2> QED  BY <2>7, <2>8, <2>9 DEF Healthy, x
<1> QED  BY <1>2, <1>3

\* a fights no more, after n deaths.
Peaceful(w, a, n) == [w EXCEPT !.fighting[a] = None, !.kills = n]

\* Ending fights leaves a healthy world.
LEMMA PeaceHealthy ==
  ASSUME NEW w, Healthy(w), NEW a \in Chars, NEW n \in Nat
  PROVE  LET x == Peaceful(w, a, n)
         IN /\ Healthy(x) /\ x.kills = n /\ x.list = w.list /\ x.kind = w.kind
            /\ x.inRoom = w.inRoom
            /\ \A c \in Chars : x.fighting[c] = IF c = a THEN None ELSE w.fighting[c]
<1> DEFINE x == Peaceful(w, a, n)
<1>1. w \in WorldType /\ w.fighting \in [Chars -> Chars \cup {None}]
  BY DEF Healthy, WorldType
<1>2. [w.fighting EXCEPT ![a] = None] \in [Chars -> Chars \cup {None}]  BY <1>1
<1>3. /\ x \in WorldType /\ x.kills = n /\ x.list = w.list /\ x.kind = w.kind /\ x.level = w.level
      /\ x.inRoom = w.inRoom /\ x.fighting = [w.fighting EXCEPT ![a] = None] /\ x.orphaned = w.orphaned
  BY <1>1, <1>2 DEF WorldType, Peaceful
<1> HIDE DEF x
<1>4. NoneDangles(w) => NoneDangles(x)  BY <1>1, <1>3 DEF NoneDangles
<1> QED  BY <1>1, <1>3, <1>4 DEF Healthy, x

\* A kill is one death and ends the killer's fight.
LEMMA KilledFacts ==
  ASSUME NEW w, Healthy(w), NEW a \in Chars, NEW victim \in Chars, a # victim,
         NEW gain \in Gains
  PROVE  LET x == Killed(w, a, victim, gain)
         IN /\ Healthy(x) /\ x.kills = w.kills + 1 /\ Later(w, x) /\ x.fighting[a] = None
<1> DEFINE p == Peaceful(w, a, w.kills + 1)
           won == gain_exp(p, a, gain)
           x == Killed(w, a, victim, gain)
<1>1. w \in WorldType /\ w.kills \in Nat /\ w.fighting \in [Chars -> Chars \cup {None}]
  BY DEF Healthy, WorldType
<1>2. p = [w EXCEPT !.fighting[a] = None, !.kills = @ + 1]  BY <1>1 DEF WorldType, Peaceful
<1>3. /\ Healthy(p) /\ p.kills = w.kills + 1 /\ p.list = w.list /\ p.kind = w.kind
      /\ p.inRoom = w.inRoom
      /\ \A c \in Chars : p.fighting[c] = IF c = a THEN None ELSE w.fighting[c]
  <2> DEFINE n == w.kills + 1
  <2>1. n \in Nat  BY <1>1
  <2> HIDE DEF n, won, x
  <2>2. /\ Healthy(Peaceful(w, a, n)) /\ Peaceful(w, a, n).kills = n
        /\ Peaceful(w, a, n).list = w.list /\ Peaceful(w, a, n).kind = w.kind
        /\ Peaceful(w, a, n).inRoom = w.inRoom
    BY <2>1, PeaceHealthy
  <2>3. \A c \in Chars : Peaceful(w, a, n).fighting[c] = IF c = a THEN None ELSE w.fighting[c]
    BY <2>1, PeaceHealthy
  <2> QED  BY <2>2, <2>3 DEF n
<1>4. x = IF won.kind[victim] = "npc" THEN Extracted(won, victim)
          ELSE [won EXCEPT !.fighting[victim] = None]
  BY <1>2 DEF Killed
<1> HIDE DEF p
<1>5. /\ Healthy(won) /\ won.kills = w.kills + 1 /\ won.list = w.list /\ won.kind = w.kind
      /\ won.inRoom = w.inRoom
      /\ \A c \in Chars : won.fighting[c] = IF c = a THEN None ELSE w.fighting[c]
  BY <1>3, GainKeeps
<1> HIDE DEF won, x
<1>6. CASE won.kind[victim] = "npc"
  <2>1. x = Extracted(won, victim)  BY <1>4, <1>6
  <2>2. /\ Healthy(x) /\ x.kills = w.kills + 1 /\ Later(won, x) /\ x.fighting = won.fighting
    BY <1>5, <2>1, ExtractedHealthy
  <2> QED  BY <1>1, <1>5, <2>2 DEF Later, x
<1>7. CASE won.kind[victim] # "npc"
  <2>1. won \in WorldType /\ won.kills \in Nat  BY <1>5 DEF Healthy, WorldType
  <2>2. x = [won EXCEPT !.fighting[victim] = None, !.kills = won.kills]
    BY <1>4, <1>7, <2>1 DEF WorldType
  <2>3. /\ Healthy(x) /\ x.kills = w.kills + 1 /\ x.list = w.list /\ x.kind = w.kind
        /\ x.inRoom = w.inRoom
        /\ \A c \in Chars : x.fighting[c] = IF c = victim THEN None ELSE won.fighting[c]
    <3>1. x = Peaceful(won, victim, won.kills)  BY <2>2 DEF Peaceful
    <3> DEFINE y == won
               n == won.kills
    <3>2. Healthy(y) /\ n \in Nat  BY <1>5, <2>1
    <3> HIDE DEF y, n
    <3>3. Healthy(Peaceful(y, victim, n)) /\ Peaceful(y, victim, n).kills = n
          /\ Peaceful(y, victim, n).list = y.list /\ Peaceful(y, victim, n).kind = y.kind
          /\ Peaceful(y, victim, n).inRoom = y.inRoom
      BY <3>2, PeaceHealthy
    <3>4. \A c \in Chars : Peaceful(y, victim, n).fighting[c] = IF c = victim THEN None ELSE y.fighting[c]
      BY <3>2, PeaceHealthy
    <3> QED  BY <1>5, <3>1, <3>3, <3>4 DEF y, n
  <2> QED  BY <1>1, <1>5, <2>3 DEF Later, x
<1> QED  BY <1>6, <1>7

\* After a round: one death at most, and what Later says.
LEMMA RoundFacts ==
  ASSUME NEW w, Healthy(w), w.kills = 0, NEW a \in Chars, NEW victim \in Chars,
         NEW x \in multi_hit(w, a, victim)
  PROVE  Healthy(x) /\ x.kills \in 0 .. 1 /\ Later(w, x)
<1>1. ASSUME NEW y \in one_hit(w, a, victim)
      PROVE  y = w \/ (a # victim /\ \E gain \in Gains : y = Killed(w, a, victim, gain))
  BY <1>1 DEF one_hit, damage
<1>2. ASSUME NEW y \in one_hit(w, a, victim), y.fighting[a] = victim PROVE y = w
  <2>1. victim # None  BY CombatAssumption
  <2> QED  BY <1>1, <1>2, <2>1, KilledFacts
<1>3. x \in one_hit(w, a, victim)
  BY <1>2 DEF multi_hit
<1>4. Later(w, w)  BY DEF Later
<1> QED  BY <1>1, <1>3, <1>4, KilledFacts

-----------------------------------------------------------------------------
(* The inductive invariant.                                                *)

\* a fights nobody who is in another room.
Settled(w, a) ==
  \/ w.inRoom[a] = None \/ w.fighting[a] = None
  \/ w.kind[w.fighting[a]] = "free"
  \/ w.inRoom[w.fighting[a]] = w.inRoom[a]

\* Where violence_update is: whoever is listed before ch had a turn.
Walks ==
  ch # None =>
    /\ orphaned \/ kind[ch] # "free"
    /\ kind[ch] # "free" =>
         \E i \in DOMAIN first_character :
            first_character[i] = ch /\ \A j \in 1 .. i - 1 : first_character[j] \in turns
    /\ \A a \in turns : Settled(World, a)

IInv ==
  /\ Healthy(World)
  /\ corrupt \in BOOLEAN /\ ch \in Chars \cup {None} /\ turns \subseteq Chars
  /\ kills \in 0 .. 1
  /\ Walks

LEMMA WorldFields ==
  /\ World.list = first_character /\ World.kind = kind /\ World.inRoom = inRoom
  /\ World.fighting = fighting /\ World.level = level /\ World.experience = experience
  /\ World.kills = 0 /\ World.orphaned = orphaned
BY DEF World

LEMMA WorldFieldsNext ==
  /\ World'.list = first_character' /\ World'.kind = kind' /\ World'.inRoom = inRoom'
  /\ World'.fighting = fighting' /\ World'.level = level' /\ World'.experience = experience'
  /\ World'.kills = 0 /\ World'.orphaned = orphaned'
BY DEF World

LEMMA TypeFromWorld == ASSUME IInv PROVE TypeOK
<1>1. World \in WorldType  BY DEF IInv, Healthy
<1>2. /\ first_character \in Seq(Chars) /\ kind \in [Chars -> {"free", "pc", "npc"}]
      /\ inRoom \in [Chars -> Rooms \cup {None}] /\ fighting \in [Chars -> Chars \cup {None}]
      /\ level \in [Chars -> Nat] /\ experience \in [Chars -> Nat] /\ orphaned \in BOOLEAN
  BY <1>1, WorldFields DEF WorldType, Kinds
<1> QED  BY <1>2 DEF IInv, TypeOK

\* The world the step made is healthy, and nobody in it waits for a turn that
\* will not come.
LEMMA BecomesHealthy ==
  ASSUME NEW w, Healthy(w), w.kills \in 0 .. 1, NEW next \in Chars \cup {None},
         Becomes(w, next)
  PROVE  /\ Healthy(World)' /\ kills' \in 0 .. 1 /\ corrupt' = corrupt /\ ch' = next
         /\ next = None \/ orphaned' \/ kind'[next] # "free"
<1>1. w \in WorldType /\ w.orphaned \in BOOLEAN  BY DEF Healthy, WorldType
<1>2. /\ first_character' = w.list /\ kind' = w.kind /\ inRoom' = w.inRoom
      /\ fighting' = w.fighting /\ level' = w.level /\ experience' = w.experience
      /\ orphaned' = (w.orphaned \/ (next # None /\ w.kind[next] = "free"))
      /\ kills' = w.kills /\ ch' = next /\ corrupt' = corrupt
  BY DEF Becomes
<1>3. World' \in WorldType
  <2>1. orphaned' \in BOOLEAN  BY <1>1, <1>2
  <2> QED  BY <1>1, <1>2, <2>1 DEF World, WorldType
<1>4. NoneDangles(w) => NoneDangles(World)'  BY <1>2, WorldFieldsNext DEF NoneDangles
<1>5. Healthy(World)'  BY <1>2, <1>3, <1>4, WorldFieldsNext DEF Healthy
<1> QED  BY <1>2, <1>5

LEMMA BetweenRuns ==
  ASSUME IInv, NEW w, Healthy(w), w.kills \in 0 .. 1, Becomes(w, None), UNCHANGED turns
  PROVE  IInv'
<1>1. /\ Healthy(World)' /\ kills' \in 0 .. 1 /\ corrupt' = corrupt /\ ch' = None
  BY BecomesHealthy
<1> QED  BY <1>1 DEF IInv, Walks

LEMMA EmptiedInv ==
  ASSUME NEW lost \in BOOLEAN, Emptied(lost)
  PROVE  IInv'
<1>1. /\ corrupt' = lost /\ orphaned' = FALSE /\ ch' = None /\ first_character' = <<>>
      /\ kind' = [a \in Chars |-> "free"] /\ inRoom' = [a \in Chars |-> None]
      /\ fighting' = [a \in Chars |-> None] /\ level' = [a \in Chars |-> 0]
      /\ experience' = [a \in Chars |-> 0] /\ kills' = 0 /\ turns' = {}
  BY DEF Emptied
<1>2. World' \in WorldType
  <2>1. first_character' \in Seq(Chars) /\ Range(first_character') = {}  BY <1>1 DEF Range
  <2> QED  BY <1>1, <2>1 DEF World, WorldType, Kinds
<1>3. Range(first_character') = {} /\ Distinct(first_character')  BY <1>1 DEF Range, Distinct
<1>4. NoneDangles(World)'  BY <1>1, WorldFieldsNext DEF NoneDangles
<1>5. Healthy(World)'  BY <1>1, <1>2, <1>3, <1>4, WorldFieldsNext DEF Healthy
<1> QED  BY <1>1, <1>5 DEF IInv, Walks

LEMMA InitInv == Init => IInv
<1> SUFFICES ASSUME Init PROVE IInv  OBVIOUS
<1>1. World \in WorldType
  <2>1. first_character \in Seq(Chars)  BY DEF Init
  <2> QED  BY <2>1 DEF World, WorldType, Kinds, Init
<1>2. Range(first_character) = {} /\ Distinct(first_character)  BY DEF Init, Range, Distinct
<1>3. NoneDangles(World)  BY WorldFields DEF NoneDangles, Init
<1>4. Healthy(World)  BY <1>1, <1>2, <1>3, WorldFields DEF Healthy, Init
<1>5. ch = None /\ turns \subseteq Chars /\ kills \in 0 .. 1  BY DEF Init
<1>6. corrupt \in BOOLEAN  BY Zenon DEF Init
<1> QED  BY <1>4, <1>5, <1>6 DEF IInv, Walks

\* Who had its turn stays settled when fights end and people are freed.
LEMMA LaterSettled ==
  ASSUME NEW w, Healthy(w), NEW x, Later(w, x), NEW a \in Chars, Settled(w, a)
  PROVE  Settled(x, a)
<1>1. w.fighting[a] \in Chars \cup {None}  BY DEF Healthy, WorldType
<1>2. CASE w.fighting[a] = None \/ x.fighting[a] = None  BY <1>2 DEF Later, Settled
<1>3. CASE x.fighting[a] # None
  <2>1. x.fighting[a] = w.fighting[a] /\ w.fighting[a] \in Chars  BY <1>1, <1>3 DEF Later
  <2> QED  BY <2>1 DEF Later, Settled
<1> QED  BY <1>2, <1>3

\* Where the walk is in the list, after a round.
LEMMA LaterOrder ==
  ASSUME NEW w, Healthy(w), NEW x, Later(w, x), NEW i \in DOMAIN w.list,
         x.kind[w.list[i]] # "free"
  PROVE  \E k \in DOMAIN x.list : x.list[k] = w.list[i] /\ Before(x.list, k, w.list, i)
<1>1. w.list \in Seq(Chars) /\ Distinct(w.list)  BY DEF Healthy, WorldType
<1>2. CASE x.list = w.list
  <2>1. Before(x.list, i, w.list, i)  BY <1>2 DEF Before
  <2> QED  BY <1>2, <2>1
<1>3. ASSUME NEW v \in Chars, x.kind[v] = "free", x.list = Without(w.list, {v})
      PROVE  \E k \in DOMAIN x.list : x.list[k] = w.list[i] /\ Before(x.list, k, w.list, i)
  <2> DEFINE l == w.list
             V == {v}
  <2>1. l \in Seq(Chars) /\ i \in DOMAIN l /\ l[i] \notin V /\ Distinct(l)  BY <1>1, <1>3
  <2> HIDE DEF l, V
  <2>2. \E k \in DOMAIN Without(l, V) : Without(l, V)[k] = l[i] /\ Before(Without(l, V), k, l, i)
    BY <2>1, WithoutOrder
  <2> QED  BY <1>3, <2>2 DEF l, V
<1> QED  BY <1>2, <1>3 DEF Later

LEMMA LaterRange ==
  ASSUME NEW w, Healthy(w), NEW x, Later(w, x)
  PROVE  Range(x.list) \subseteq Range(w.list)
<1>1. w.list \in Seq(Chars)  BY DEF Healthy, WorldType
<1>2. \A v : Range(Without(w.list, {v})) = Range(w.list) \ {v}  BY <1>1, WithoutFacts
<1> QED  BY <1>2 DEF Later

-----------------------------------------------------------------------------
(* Commands, between two runs of violence_update.                          *)

\* A Character of a player who stands in the world.
LEMMA CommanderStands ==
  ASSUME IInv, NEW a \in Chars, kind[a] = "pc", InWorld(a)
  PROVE  inRoom[a] # None
BY WorldFields DEF IInv, Healthy, InWorld

\* new_char: nobody dangles because of who is allocated.
LEMMA AllocatedHealthy ==
  ASSUME IInv, NEW a \in Chars, kind[a] = "free", NEW k \in {"pc", "npc"}, NEW l \in Nat \ {0}
  PROVE  LET x == Allocated(World, a, k, l)
         IN /\ Healthy(x) /\ x.kills = 0 /\ x.kind[a] = k /\ a \notin Range(x.list)
<1> DEFINE w == World
           x == Allocated(World, a, k, l)
<1>1. /\ w \in WorldType /\ w.kills = 0 /\ Healthy(w) /\ w.kind[a] = "free"
  BY WorldFields DEF IInv, Healthy
<1> HIDE DEF w
<1>2. /\ w.kind \in [Chars -> Kinds] /\ w.level \in [Chars -> Nat] /\ w.experience \in [Chars -> Nat]
      /\ w.fighting \in [Chars -> Chars \cup {None}] /\ w.list \in Seq(Chars)
  BY <1>1 DEF WorldType
<1>3. x = [w EXCEPT !.kind = [w.kind EXCEPT ![a] = k], !.fighting = [w.fighting EXCEPT ![a] = None],
                    !.level = [w.level EXCEPT ![a] = l],
                    !.experience = [w.experience EXCEPT ![a] = 0]]
  BY <1>1 DEF Allocated, WorldType, w
<1> HIDE DEF x
<1>4. /\ [w.kind EXCEPT ![a] = k] \in [Chars -> Kinds]
      /\ [w.fighting EXCEPT ![a] = None] \in [Chars -> Chars \cup {None}]
      /\ [w.level EXCEPT ![a] = l] \in [Chars -> Nat]
      /\ [w.experience EXCEPT ![a] = 0] \in [Chars -> Nat]
  BY <1>2 DEF Kinds
<1>5. /\ x \in WorldType /\ x.kind = [w.kind EXCEPT ![a] = k]
      /\ x.fighting = [w.fighting EXCEPT ![a] = None] /\ x.level = [w.level EXCEPT ![a] = l]
      /\ x.list = w.list /\ x.inRoom = w.inRoom /\ x.kills = w.kills /\ x.orphaned = w.orphaned
  BY <1>1, <1>3, <1>4 DEF WorldType
<1>6. NoneDangles(w) => NoneDangles(x)  BY <1>1, <1>2, <1>5 DEF NoneDangles
<1>7. a \notin Range(w.list)  BY <1>1 DEF Healthy
<1>8. \A b \in Range(x.list) : x.kind[b] # "free" /\ (x.kind[b] = "pc" => x.inRoom[b] # None)
  <2>1. \A b \in Range(w.list) : b \in Chars /\ b # a  BY <1>2, <1>7, ListElements
  <2> QED  BY <1>1, <1>2, <1>5, <2>1 DEF Healthy
<1>9. \A b \in Chars : x.kind[b] = "pc" => x.level[b] # 0  BY <1>1, <1>2, <1>5 DEF Healthy
<1> QED  BY <1>1, <1>2, <1>5, <1>6, <1>7, <1>8, <1>9 DEF Healthy, x

LEMMA WorldHealthy == ASSUME IInv PROVE Healthy(World) /\ World.kills = 0 /\ World \in WorldType
BY WorldFields DEF IInv, Healthy

LEMMA EnterInv == ASSUME IInv, NEW a \in Chars, Enter(a) PROVE IInv'
<1>1. PICK l \in Levels, r \in Rooms : Becomes(Linked(Allocated(World, a, "pc", l), a, r), None)
  BY DEF Enter
<1> DEFINE w == Allocated(World, a, "pc", l)
           x == Linked(w, a, r)
<1>2. l \in Nat \ {0} /\ r \in Rooms \cup {None} /\ r # None  BY CombatAssumption
<1>3. kind[a] = "free" /\ UNCHANGED turns  BY DEF Enter
<1>4. Healthy(w) /\ w.kills = 0 /\ w.kind[a] = "pc" /\ a \notin Range(w.list)
  BY <1>2, <1>3, AllocatedHealthy
<1> HIDE DEF w
<1>5. Healthy(x) /\ x.kills = 0  BY <1>2, <1>4, LinkedHealthy
<1>6. Becomes(x, None)  BY <1>1 DEF w
<1> HIDE DEF x
<1> QED  BY <1>3, <1>5, <1>6, BetweenRuns

LEMMA ResetInv == ASSUME IInv, NEW a \in Chars, Reset(a) PROVE IInv'
<1>1. PICK r \in Rooms \cup {None} : Becomes(Linked(Allocated(World, a, "npc", 1), a, r), None)
  BY DEF Reset
<1> DEFINE w == Allocated(World, a, "npc", 1)
           x == Linked(w, a, r)
<1>3. kind[a] = "free" /\ UNCHANGED turns  BY DEF Reset
<1>4. Healthy(w) /\ w.kills = 0 /\ w.kind[a] = "npc" /\ a \notin Range(w.list)
  BY <1>3, AllocatedHealthy
<1> HIDE DEF w
<1>5. Healthy(x) /\ x.kills = 0  BY <1>4, LinkedHealthy
<1>6. Becomes(x, None)  BY <1>1 DEF w
<1> HIDE DEF x
<1> QED  BY <1>3, <1>5, <1>6, BetweenRuns

LEMMA WithdrawInv == ASSUME IInv, NEW a \in Chars, Withdraw(a) PROVE IInv'
<1> DEFINE w == World
           x == Unlinked(w, a)
<1>1. Healthy(w) /\ w.kills = 0  BY WorldHealthy
<1> HIDE DEF w
<1>2. Healthy(x) /\ x.kills = 0  BY <1>1, UnlinkedHealthy
<1>3. Becomes(x, None) /\ UNCHANGED turns  BY DEF Withdraw, w
<1> HIDE DEF x
<1> QED  BY <1>2, <1>3, BetweenRuns

LEMMA ReturnInv == ASSUME IInv, NEW a \in Chars, Return(a) PROVE IInv'
<1>1. PICK r \in Rooms : Becomes(Linked(World, a, r), None)  BY DEF Return
<1> DEFINE w == World
           x == Linked(w, a, r)
<1>2. r \in Rooms \cup {None} /\ r # None  BY CombatAssumption
<1>3. Healthy(w) /\ w.kills = 0 /\ a \notin Range(w.list) /\ w.kind[a] # "free"
  BY WorldHealthy, WorldFields DEF Return, InWorld
<1> HIDE DEF w
<1>4. Healthy(x) /\ x.kills = 0  BY <1>2, <1>3, LinkedHealthy
<1>5. Becomes(x, None) /\ UNCHANGED turns  BY <1>1 DEF Return, w
<1> HIDE DEF x
<1> QED  BY <1>4, <1>5, BetweenRuns

LEMMA DepartInv == ASSUME IInv, NEW a \in Chars, Depart(a) PROVE IInv'
<1> DEFINE w == World
           x == Extracted(w, a)
<1>1. Healthy(w) /\ w.kills = 0  BY WorldHealthy
<1> HIDE DEF w
<1>2. Healthy(x) /\ x.kills = 0  BY <1>1, ExtractedHealthy
<1>3. Becomes(x, None) /\ UNCHANGED turns  BY DEF Depart, w
<1> HIDE DEF x
<1> QED  BY <1>2, <1>3, BetweenRuns

LEMMA MoveInv == ASSUME IInv, NEW a \in Chars, move_char(a) PROVE IInv'
<1>1. PICK r \in Rooms : Becomes([World EXCEPT !.inRoom[a] = r], None)  BY DEF move_char
<1> DEFINE w == World
           x == [w EXCEPT !.inRoom[a] = r]
<1>2. /\ Healthy(w) /\ w.kills = 0 /\ w \in WorldType /\ a \in Range(w.list)
  BY WorldHealthy, WorldFields DEF move_char, InWorld
<1>3. Becomes(x, None) /\ UNCHANGED turns /\ r # None  BY <1>1, CombatAssumption DEF move_char
<1> HIDE DEF w
<1>4. w.inRoom \in [Chars -> Rooms \cup {None}] /\ w.list \in Seq(Chars)  BY <1>2 DEF WorldType
<1>5. [w.inRoom EXCEPT ![a] = r] \in [Chars -> Rooms \cup {None}]  BY <1>4
<1>6. /\ x \in WorldType /\ x.inRoom = [w.inRoom EXCEPT ![a] = r] /\ x.list = w.list
      /\ x.kind = w.kind /\ x.fighting = w.fighting /\ x.level = w.level
      /\ x.kills = w.kills /\ x.orphaned = w.orphaned
  BY <1>2, <1>5 DEF WorldType
<1> HIDE DEF x
<1>7. NoneDangles(w) => NoneDangles(x)  BY <1>6 DEF NoneDangles
<1>8. Healthy(x) /\ x.kills = 0  BY <1>2, <1>3, <1>4, <1>6, <1>7, ListElements DEF Healthy
<1> QED  BY <1>3, <1>8, BetweenRuns

-----------------------------------------------------------------------------
(* Fights and violence_update.                                             *)

LEMMA KillInv == ASSUME IInv, NEW a \in Chars, do_kill(a) PROVE IInv'
<1>1. PICK victim \in Chars :
        /\ inRoom[victim] = inRoom[a]
        /\ \E w \in multi_hit([World EXCEPT !.fighting[victim] = a, !.fighting[a] = victim], a, victim) :
              Becomes(w, None)
  BY DEF do_kill
<1> DEFINE w == World
           x == [w EXCEPT !.fighting[victim] = a, !.fighting[a] = victim]
<1>2. PICK y \in multi_hit(x, a, victim) : Becomes(y, None)  BY <1>1
<1>3. /\ Healthy(w) /\ w.kills = 0 /\ w \in WorldType
      /\ w.inRoom[a] # None /\ w.inRoom[victim] # None
  BY <1>1, WorldHealthy, WorldFields, CommanderStands DEF do_kill
<1>4. UNCHANGED turns  BY DEF do_kill
<1> HIDE DEF w
<1>5. w.fighting \in [Chars -> Chars \cup {None}] /\ w.kind[a] # "free" /\ w.kind[victim] # "free"
  BY <1>3 DEF Healthy, WorldType
<1> DEFINE f == [w.fighting EXCEPT ![victim] = a, ![a] = victim]
<1>6. x = [w EXCEPT !.fighting = f]  BY <1>3 DEF WorldType
<1> HIDE DEF x
<1>7. f \in [Chars -> Chars \cup {None}]  BY <1>5
<1>8. /\ x \in WorldType /\ x.inRoom = w.inRoom /\ x.fighting = f /\ x.list = w.list
      /\ x.kind = w.kind /\ x.level = w.level /\ x.kills = w.kills /\ x.orphaned = w.orphaned
  <2> HIDE DEF f
  <2> QED  BY <1>3, <1>6, <1>7 DEF WorldType
<1>9. NoneDangles(w) => NoneDangles(x)  BY <1>5, <1>8 DEF NoneDangles
<1>10. Healthy(x) /\ x.kills = 0  BY <1>3, <1>8, <1>9 DEF Healthy
<1>11. Healthy(y) /\ y.kills \in 0 .. 1  BY <1>10, RoundFacts
<1> QED  BY <1>2, <1>4, <1>11, BetweenRuns

LEMMA KickInv == ASSUME IInv, NEW a \in Chars, do_kick(a) PROVE IInv'
<1>1. CASE Corrupts  BY <1>1, EmptiedInv DEF Corrupts
<1>2. CASE ~ Corrupts
  <2> DEFINE victim == fighting[a]
             w == World
  <2>1. victim \in Chars
    <3>1. fighting \in [Chars -> Chars \cup {None}]  BY TypeFromWorld DEF TypeOK
    <3> QED  BY <3>1 DEF do_kick
  <2>2. PICK y \in multi_hit(w, a, victim) : Becomes(y, None)  BY <1>2 DEF do_kick
  <2>3. Healthy(w) /\ w.kills = 0 /\ UNCHANGED turns  BY <1>2, WorldHealthy DEF do_kick
  <2> HIDE DEF w, victim
  <2>4. Healthy(y) /\ y.kills \in 0 .. 1  BY <2>1, <2>2, <2>3, RoundFacts
  <2> QED  BY <2>2, <2>3, <2>4, BetweenRuns
<1> QED  BY <1>1, <1>2

LEMMA BeginInv == ASSUME IInv, violence_update PROVE IInv'
<1> DEFINE w == World
           next == Head(first_character)
<1>1. first_character \in Seq(Chars) /\ first_character # <<>> /\ turns' = {}
  BY TypeFromWorld DEF TypeOK, violence_update
<1>2. next \in Chars /\ next = first_character[1] /\ 1 \in DOMAIN first_character  BY <1>1
<1>3. Becomes(w, next)  BY DEF violence_update
<1>4. Healthy(w) /\ w.kills \in 0 .. 1 /\ w.list = first_character  BY WorldHealthy, WorldFields
<1> HIDE DEF w, next
<1>5. /\ Healthy(World)' /\ kills' \in 0 .. 1 /\ corrupt' = corrupt /\ ch' = next
      /\ next = None \/ orphaned' \/ kind'[next] # "free"
  BY <1>2, <1>3, <1>4, BecomesHealthy
<1>6. first_character' = first_character  BY <1>3, <1>4 DEF Becomes
<1>7. \A j \in 1 .. 1 - 1 : first_character'[j] \in turns'  OBVIOUS
<1>8. \E i \in DOMAIN first_character' :
         first_character'[i] = ch' /\ \A j \in 1 .. i - 1 : first_character'[j] \in turns'
  BY <1>2, <1>5, <1>6, <1>7
<1>9. orphaned' \/ kind'[ch'] # "free"  BY <1>2, <1>5, CombatAssumption
<1>10. Walks'  BY <1>1, <1>8, <1>9 DEF Walks
<1> QED  BY <1>1, <1>2, <1>5, <1>10 DEF IInv

\* What ch becomes when i is its place.
LEMMA FollowingFacts ==
  ASSUME NEW i \in DOMAIN first_character, Distinct(first_character),
         first_character \in Seq(Chars)
  PROVE  LET next == Following(first_character[i])
         IN IF i = Len(first_character) THEN next = None
            ELSE i + 1 \in DOMAIN first_character /\ next = first_character[i + 1]
<1> DEFINE a == first_character[i]
           p == CHOOSE j \in DOMAIN first_character : first_character[j] = a
<1>1. p \in DOMAIN first_character /\ first_character[p] = a  OBVIOUS
<1>2. p = i  BY <1>1 DEF Distinct
<1>3. Following(a) = IF p = Len(first_character) THEN None ELSE first_character[p + 1]
  BY DEF Following
<1> HIDE DEF p, a
<1> QED  BY <1>2, <1>3 DEF a

\* When the walk is over everyone left had a turn and is settled.
Over == \A a \in Range(first_character') : a \in turns' /\ Settled(World, a)'

LEMMA TurnTaken ==
  ASSUME IInv, ch # None, kind[ch] # "free", NEW w, Healthy(w), w.kills \in 0 .. 1,
         Later(World, w), Settled(w, ch), Becomes(w, Following(ch)), turns' = turns \cup {ch}
  PROVE  IInv' /\ (ch' = None => Over)
<1> DEFINE list == first_character
           next == Following(ch)
<1>1. PICK i \in DOMAIN list : list[i] = ch /\ \A j \in 1 .. i - 1 : list[j] \in turns
  BY DEF IInv, Walks
<1>2. /\ list \in Seq(Chars) /\ Distinct(list) /\ Healthy(World) /\ World.list = list
      /\ ch \in Chars /\ turns \subseteq Chars
  <2>1. Healthy(World) /\ World.list = list  BY WorldHealthy, WorldFields
  <2> QED  BY <2>1, TypeFromWorld DEF IInv, Healthy, TypeOK
<1>3. IF i = Len(list) THEN next = None ELSE i + 1 \in DOMAIN list /\ next = list[i + 1]
  BY <1>1, <1>2, FollowingFacts
<1>4. next \in Chars \cup {None}  BY <1>2, <1>3
<1> HIDE DEF next, list
<1>5. /\ Healthy(World)' /\ kills' \in 0 .. 1 /\ corrupt' = corrupt /\ ch' = next
      /\ next = None \/ orphaned' \/ kind'[next] # "free"
  BY <1>4, BecomesHealthy DEF next
<1>6. /\ first_character' = w.list /\ kind' = w.kind /\ inRoom' = w.inRoom /\ fighting' = w.fighting
  BY DEF Becomes
<1>7. \A a \in turns' : Settled(w, a)
  <2>1. \A a \in turns : Settled(World, a)  BY DEF IInv, Walks
  <2> QED  BY <1>2, <2>1, LaterSettled
<1>8. \A a \in turns' : Settled(World, a)'  BY <1>6, <1>7, WorldFieldsNext DEF Settled
<1>9. \A m \in 1 .. i : list[m] \in turns'  BY <1>1, <1>2
<1>10. CASE next = None
  <2>1. i = Len(list)
    <3>1. None \notin Chars  BY CombatAssumption
    <3>2. i # Len(list) => next \in Chars  BY <1>2, <1>3
    <3> QED  BY <1>10, <3>1, <3>2
  <2>2. Range(w.list) \subseteq Range(list)  BY <1>2, LaterRange
  <2>3. Range(list) \subseteq turns'  BY <1>2, <1>9, <2>1 DEF Range
  <2>4. Over  BY <1>6, <1>8, <2>2, <2>3 DEF Over
  <2>5. Walks'  BY <1>5, <1>10 DEF Walks
  <2> QED  BY <1>2, <1>4, <1>5, <2>4, <2>5 DEF IInv
<1>11. CASE next # None
  <2>1. i + 1 \in DOMAIN list /\ next = list[i + 1]
    <3>1. i # Len(list)  BY <1>3, <1>11
    <3> QED  BY <1>3, <3>1
  <2>2. ASSUME kind'[next] # "free"
        PROVE  \E k \in DOMAIN w.list : w.list[k] = next /\ \A j \in 1 .. k - 1 : w.list[j] \in turns'
    <3> DEFINE n == i + 1
               v == World
    <3>1. Healthy(v) /\ v.list = list /\ Later(v, w) /\ n \in DOMAIN v.list /\ w.kind[v.list[n]] # "free"
      BY <1>2, <1>6, <2>1, <2>2
    <3> HIDE DEF n, v
    <3>2. PICK k \in DOMAIN w.list : w.list[k] = v.list[n] /\ Before(w.list, k, v.list, n)
      BY <3>1, LaterOrder
    <3>3. w.list[k] = next  BY <2>1, <3>1, <3>2 DEF n
    <3>4. \A j \in 1 .. k - 1 : w.list[j] \in turns'
      <4>1. n - 1 = i /\ i \in Nat  BY <1>2 DEF n
      <4> QED  BY <1>9, <3>1, <3>2, <4>1 DEF Before
    <3> QED  BY <3>3, <3>4
  <2>3. Walks'  BY <1>5, <1>6, <1>8, <1>11, <2>2 DEF Walks
  <2> QED  BY <1>2, <1>4, <1>5, <1>11, <2>3 DEF IInv
<1> QED  BY <1>10, <1>11

LEMMA ViolenceInv ==
  ASSUME IInv, Violence
  PROVE  IInv' /\ (ch' = None /\ ~ corrupt' => Over)
<1>1. CASE Corrupts
  <2>1. IInv'  BY <1>1, EmptiedInv DEF Corrupts
  <2>2. corrupt' = TRUE  BY <1>1 DEF Corrupts, Emptied
  <2> QED  BY <2>1, <2>2
<1>2. CASE ~ Corrupts
  <2> DEFINE v == World
             victim == fighting[ch]
  <2>1. /\ ch # None /\ ch \in Chars /\ kind[ch] # "free" /\ turns' = turns \cup {ch}
        /\ victim \in Chars \cup {None}
    BY <1>2, TypeFromWorld DEF Violence, IInv, TypeOK
  <2>2. /\ Healthy(v) /\ v.kills = 0 /\ v \in WorldType
        /\ v.inRoom = inRoom /\ v.kind = kind /\ v.fighting = fighting /\ v.list = first_character
    BY WorldHealthy, WorldFields
  <2>3. Later(v, v)  BY DEF Later
  <2>4. CASE (victim = None \/ inRoom[ch] = None) /\ Becomes(v, Following(ch))
    <3>1. Settled(v, ch)  BY <2>2, <2>4 DEF Settled
    <3> HIDE DEF v, victim
    <3>2. v.kills \in 0 .. 1  BY <2>2
    <3> QED  BY <2>1, <2>2, <2>3, <2>4, <3>1, <3>2, TurnTaken DEF v
  <2>5. CASE /\ victim # None /\ inRoom[victim] = inRoom[ch]
             /\ \E w \in multi_hit(v, ch, victim) : Becomes(w, Following(ch))
    <3>1. PICK w \in multi_hit(v, ch, victim) : Becomes(w, Following(ch))  BY <2>5
    <3>2. Settled(v, ch)  BY <2>2, <2>5 DEF Settled
    <3>3. victim \in Chars  BY <2>1, <2>5
    <3> HIDE DEF v, victim
    <3>4. Healthy(w) /\ w.kills \in 0 .. 1 /\ Later(v, w)  BY <2>1, <2>2, <3>1, <3>3, RoundFacts
    <3>5. Settled(w, ch)  BY <2>1, <2>2, <3>2, <3>4, LaterSettled
    <3> QED  BY <2>1, <3>1, <3>4, <3>5, TurnTaken DEF v
  <2>6. CASE Becomes([v EXCEPT !.fighting[ch] = None], Following(ch))
    <3> DEFINE w == [v EXCEPT !.fighting[ch] = None]
    <3> HIDE DEF v, victim
    <3>1. w = Peaceful(v, ch, 0)  BY <2>2 DEF Peaceful, WorldType
    <3> HIDE DEF w
    <3>2. /\ Healthy(w) /\ w.kills = 0 /\ w.list = v.list /\ w.kind = v.kind /\ w.inRoom = v.inRoom
      BY <2>1, <2>2, <3>1, PeaceHealthy
    <3>3. \A c \in Chars : w.fighting[c] = IF c = ch THEN None ELSE v.fighting[c]
      BY <2>1, <2>2, <3>1, PeaceHealthy
    <3>4. Later(v, w) /\ Settled(w, ch)  BY <2>1, <3>2, <3>3 DEF Later, Settled
    <3>5. w.kills \in 0 .. 1  BY <3>2
    <3>6. Becomes(w, Following(ch))  BY <2>6 DEF w
    <3> QED  BY <2>1, <3>2, <3>4, <3>5, <3>6, TurnTaken DEF v
  <2> QED  BY <1>2, <2>1, <2>4, <2>5, <2>6 DEF Violence
<1> QED  BY <1>1, <1>2

LEMMA NextInv == IInv /\ [Next]_vars => IInv'
<1> SUFFICES ASSUME IInv, [Next]_vars PROVE IInv'  OBVIOUS
<1>1. CASE Restart  BY <1>1, EmptiedInv DEF Restart
<1>2. CASE violence_update  BY <1>2, BeginInv
<1>3. CASE Violence  BY <1>3, ViolenceInv
<1>4. ASSUME NEW a \in Chars,
             \/ Enter(a) \/ Withdraw(a) \/ Return(a) \/ Depart(a) \/ Reset(a)
             \/ move_char(a) \/ do_kill(a) \/ do_kick(a)
      PROVE  IInv'
  BY <1>4, EnterInv, WithdrawInv, ReturnInv, DepartInv, ResetInv, MoveInv, KillInv, KickInv
<1>5. CASE UNCHANGED vars
  BY <1>5 DEF IInv, Walks, Healthy, NoneDangles, Settled, World, vars, people
<1> QED  BY <1>1, <1>2, <1>3, <1>4, <1>5 DEF Next

THEOREM CombatInvariant == Spec => []IInv
BY InitInv, NextInv, PTL DEF Spec

-----------------------------------------------------------------------------
(* What the runs check.                                                    *)

\* set_playing, extract_char, do_logout, damage: however a Character comes and
\* goes, the list of the world names every one that is in it once, names
\* nobody who was freed, and whoever stands in a room is on it.
THEOREM WorldAlwaysListed == Spec => []WorldIsListed
<1>1. IInv => WorldIsListed
  BY TypeFromWorld, WorldFields DEF WorldIsListed, IInv, Healthy, Distinct, InWorld
<1> QED  BY <1>1, CombatInvariant, PTL

\* multi_hit, damage: a fight that was won is not won again by the second hit.
THEOREM AlwaysOneDeath == Spec => []OneDeathAtATime
<1>1. IInv => OneDeathAtATime  BY DEF IInv, OneDeathAtATime
<1> QED  BY <1>1, CombatInvariant, PTL

\* violence_update, do_kick: a freed Character is followed only after it was
\* freed under someone who fought it, or under the loop.
THEOREM OnlyOrphansCorrupt == Spec => CorruptOnlyByOrphans
<1>1. IInv /\ [Next]_vars => [~corrupt /\ corrupt' => orphaned]_vars
  <2> SUFFICES ASSUME IInv, Next, ~corrupt, corrupt' PROVE orphaned  OBVIOUS
  <2>1. orphaned \/ NoneDangles(World)  BY WorldFields DEF IInv, Healthy
  <2>2. CASE Violence
    <3>1. CASE kind[ch] = "free"  BY <2>2, <3>1 DEF Violence, IInv, Walks
    <3>2. CASE kind[ch] # "free"
      <4>1. Corrupts  BY <2>2, <3>2 DEF Violence, Becomes
      <4> QED  BY <2>1, <2>2, <3>2, WorldFields DEF NoneDangles, Violence, IInv, Becomes
    <3> QED  BY <3>1, <3>2
  <2>3. ASSUME NEW a \in Chars, do_kick(a) PROVE orphaned
    BY <2>1, <2>3, WorldFields DEF NoneDangles, do_kick, Becomes
  <2>4. ASSUME NEW w, NEW next, Becomes(w, next) PROVE FALSE
    BY <2>4 DEF Becomes
  <2>5. ~ Restart  BY DEF Restart
  <2>6. ~ violence_update  BY <2>4 DEF violence_update
  <2>7. ASSUME NEW a \in Chars
        PROVE  ~ (Enter(a) \/ Withdraw(a) \/ Return(a) \/ Depart(a) \/ Reset(a) \/ move_char(a) \/ do_kill(a))
    BY <2>4 DEF Enter, Withdraw, Return, Depart, Reset, move_char, do_kill
  <2> QED  BY <2>2, <2>3, <2>5, <2>6, <2>7 DEF Next
<1> QED  BY <1>1, CombatInvariant, PTL DEF Spec, CorruptOnlyByOrphans

\* violence_update: the loop reads ch->next before the round, and still
\* everyone who is left when it ends had a turn, and fights nobody who is in
\* another room.
THEOREM EveryoneHasATurn == Spec => EveryoneHadATurn
<1> DEFINE Turn == ch # None /\ ch' = None /\ ~corrupt' =>
                     \A a \in Range(first_character') :
                       /\ a \in turns'
                       /\ \/ inRoom'[a] = None \/ fighting'[a] = None
                          \/ kind'[fighting'[a]] = "free"
                          \/ inRoom'[fighting'[a]] = inRoom'[a]
<1>1. IInv /\ [Next]_vars => [Turn]_vars
  <2> SUFFICES ASSUME IInv, Next, ch # None, ch' = None, ~corrupt' PROVE Turn  OBVIOUS
  <2>1. CASE Violence
    <3>1. Over  BY <2>1, ViolenceInv
    <3> QED  BY <3>1, WorldFieldsNext DEF Over, Settled
  <2>2. CASE Restart
    <3>1. Range(first_character') = {}  BY <2>2 DEF Restart, Emptied, Range
    <3> QED  BY <3>1
  <2> QED
    BY <2>1, <2>2 DEF Next, violence_update, Commands, Enter, Withdraw, Return, Depart, Reset,
                      move_char, do_kill, do_kick
<1> QED  BY <1>1, CombatInvariant, PTL DEF Spec, EveryoneHadATurn
=============================================================================
