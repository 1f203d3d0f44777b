----------------------------- MODULE LoopProofs -----------------------------
(***************************************************************************)
(* Proofs about what happens in the passes of game_loop.                   *)
(*                                                                         *)
(* Updates: types, and the shields, hunger and hit points that ticks,      *)
(* saves and loads leave, for any number of players and NPCs.              *)
(*                                                                         *)
(* ClientIO: what read_line_from_client, process_telnet and                *)
(* parse_input_buffer make of the bytes of a connection, the count of      *)
(* repeated commands and the pager, for buffers and limits of any size.    *)
(* A definition by recursion is a function of the number of rounds; what   *)
(* holds of a round holds of all (LoopExists and the lemma of each loop).  *)
(***************************************************************************)
EXTENDS Updates, ClientIO, ListsProofs


Character ==
  [hit : Int, resists : 0 .. MaxResists + 1, condition : [Conditions -> Floor .. 0],
   position : {"fighting", "standing"}, affect : (0 .. Duration) \cup {None}, desert : BOOLEAN]

-----------------------------------------------------------------------------
(* The operators of the tick.                                              *)

LEMMA MaxOfTwo ==
  ASSUME NEW a \in Int, NEW b \in Int
  PROVE  /\ Max({a, b}) \in {a, b}
         /\ Max({a, b}) >= a /\ Max({a, b}) >= b
<1>1. \E x \in {a, b} : \A y \in {a, b} : x >= y
  <2>1. CASE a >= b  BY <2>1
  <2>2. CASE b >= a  BY <2>2
  <2> QED  BY <2>1, <2>2
<1> QED  BY <1>1 DEF Max

LEMMA MinOfTwo ==
  ASSUME NEW a \in Int, NEW b \in Int
  PROVE  /\ Min({a, b}) \in {a, b}
         /\ Min({a, b}) <= a /\ Min({a, b}) <= b
<1>1. \E x \in {a, b} : \A y \in {a, b} : x <= y
  <2>1. CASE a >= b  BY <2>1
  <2>2. CASE b >= a  BY <2>2
  <2> QED  BY <2>1, <2>2
<1> QED  BY <1>1 DEF Min

\* hit_gain never lifts anybody over the most.
LEMMA RegainedBound ==
  ASSUME NEW c, NEW ch \in Character
  PROVE  Regained(c, ch) \in Int /\ Regained(c, ch) <= MaxHit
<1> USE UpdatesAssumption DEF Character
<1>1. Gain(c, ch) \in Int
  <2> DEFINE least == 3
             most == Con - 3 + Level
  <2>0. least \in Int /\ most \in Int  OBVIOUS
  <2> HIDE DEF least, most
  <2>1. Max({least, most}) \in Int
    <3>1. Max({least, most}) \in {least, most}  BY <2>0, MaxOfTwo
    <3> QED  BY <2>0, <3>1
  <2>2. ch.condition["hunger"] \in Int /\ ch.condition["thirst"] \in Int  BY DEF Conditions
  <2> QED  BY <2>1, <2>2 DEF Gain, least, most
<1>2. hit_gain(c, ch) \in Int /\ hit_gain(c, ch) <= MaxHit - ch.hit
  <2> DEFINE gain == Gain(c, ch)
             left == MaxHit - ch.hit
  <2>1. gain \in Int /\ left \in Int  BY <1>1
  <2>2. hit_gain(c, ch) = Min({gain, left})  BY DEF hit_gain
  <2> HIDE DEF gain, left
  <2>3. Min({gain, left}) \in {gain, left} /\ Min({gain, left}) <= left  BY <2>1, MinOfTwo
  <2> QED  BY <2>1, <2>2, <2>3 DEF left
<1> QED  BY <1>2 DEF Regained

\* gain_condition: hunger stops at -1, and so does thirst out of the desert.
LEMMA ConditionBound ==
  ASSUME NEW c, NEW ch \in Character, NEW k \in Conditions
  PROVE  /\ gain_condition(c, ch, k) \in Floor .. 0
         /\ (k # "thirst" \/ ~ch.desert) /\ ch.condition[k] >= -1 => gain_condition(c, ch, k) >= -1
<1> DEFINE value == IF k = "thirst" /\ ch.desert THEN -2 ELSE -1
           sum == ch.condition[k] + (IF ch.condition[k] < 0 THEN value + 1 ELSE value)
           least == IF k = "drunk" THEN 0 ELSE Floor
<1> USE UpdatesAssumption
<1>1. ch.condition[k] \in Floor .. 0  BY DEF Character
<1>2. sum \in Int /\ sum <= 0  BY <1>1
<1>3. least \in Floor .. 0  OBVIOUS
<1> HIDE DEF sum, least
<1>4. /\ Max({least, sum}) \in {least, sum}
      /\ Max({least, sum}) >= least /\ Max({least, sum}) >= sum
  <2>1. least \in Int  BY <1>3
  <2> QED  BY <1>2, <2>1, MaxOfTwo
<1>5. gain_condition(c, ch, k) = IF c \in Npcs THEN 0 ELSE Max({least, sum})
  BY DEF gain_condition, least, sum
<1>6. (k # "thirst" \/ ~ch.desert) /\ ch.condition[k] >= -1 => sum >= -1
  BY <1>1 DEF sum
<1> QED  BY <1>2, <1>3, <1>4, <1>5, <1>6

Sound(ch) == ch.affect # None => ch.resists >= 1

\* A tick keeps a character one.
LEMMA TickedCharacter ==
  ASSUME NEW c, NEW ch \in Character, Sound(ch)
  PROVE  /\ Ticked(c, ch) \in Character /\ Sound(Ticked(c, ch))
         /\ Ticked(c, ch).hit = Regained(c, ch)
         /\ Ticked(c, ch).condition = [k \in Conditions |-> gain_condition(c, ch, k)]
         /\ Ticked(c, ch).desert = ch.desert
         /\ ch.resists = (IF ch.affect = None THEN 0 ELSE 1) =>
              Ticked(c, ch).resists = IF Ticked(c, ch).affect = None THEN 0 ELSE 1
<1> USE UpdatesAssumption
<1> DEFINE regained == [ch EXCEPT !.hit = Regained(c, ch),
                                  !.condition = [k \in Conditions |-> gain_condition(c, ch, k)]]
<1>1. [k \in Conditions |-> gain_condition(c, ch, k)] \in [Conditions -> Floor .. 0]
  BY ConditionBound
<1>2. regained \in Character
  BY <1>1, RegainedBound DEF Character
<1>3. /\ regained.hit = Regained(c, ch)
      /\ regained.condition = [k \in Conditions |-> gain_condition(c, ch, k)]
      /\ regained.desert = ch.desert /\ regained.affect = ch.affect /\ regained.resists = ch.resists
  BY DEF Character
<1>4. Ticked(c, ch) = affect_update(regained)
  BY DEF Ticked
<1> HIDE DEF regained
<1>5. CASE regained.affect = None
  BY <1>2, <1>3, <1>4, <1>5 DEF affect_update, Sound
<1>6. CASE regained.affect # None /\ regained.affect > 0
  <2> DEFINE less == regained.affect - 1
  <2>1. Ticked(c, ch) = [regained EXCEPT !.affect = less]
    BY <1>4, <1>6 DEF affect_update
  <2>2. regained.affect \in 1 .. Duration
    BY <1>2, <1>6 DEF Character
  <2>3. less \in (0 .. Duration) \cup {None} /\ less # None
    BY <2>2
  <2> HIDE DEF less
  <2>4. Ticked(c, ch) \in Character
    BY <1>2, <2>1, <2>3 DEF Character
  <2>5. Ticked(c, ch).affect # None
    BY <1>2, <2>1, <2>3 DEF Character
  <2> QED  BY <1>2, <1>3, <1>6, <2>1, <2>4, <2>5 DEF Character, Sound
<1>7. CASE regained.affect # None /\ ~(regained.affect > 0)
  <2> DEFINE less == regained.resists - 1
  <2>1. Ticked(c, ch) = [regained EXCEPT !.resists = less, !.affect = None]
    <3>1. Ticked(c, ch) = affect_remove(regained)
      BY <1>4, <1>7 DEF affect_update
    <3> QED  BY <1>2, <3>1 DEF affect_remove, affect_modify, Character
  <2>2. regained.resists \in 1 .. MaxResists + 1 /\ less \in 0 .. MaxResists + 1
    BY <1>2, <1>3, <1>7 DEF Character, Sound
  <2> HIDE DEF less
  <2>3. Ticked(c, ch) \in Character
    BY <1>2, <2>1, <2>2 DEF Character
  <2> QED  BY <1>2, <1>3, <1>7, <2>1, <2>2, <2>3 DEF Character, Sound, less
<1> QED  BY <1>5, <1>6, <1>7

-----------------------------------------------------------------------------
(* Types.                                                                  *)

IInv ==
  /\ char \in [Players \cup Npcs -> Character \cup {None}]
  /\ disk \in [Players -> Stored \cup {None}]
  /\ pulse_tick \in 0 .. PULSE_TICK
  /\ shielded \subseteq Players /\ parched \subseteq Players
  /\ \A c \in InWorld : Sound(char[c])

LEMMA IInvTypes == IInv => TypeOK
BY DEF IInv, TypeOK, InWorld, Character

LEMMA InitTypes == Init => IInv
<1> SUFFICES ASSUME Init PROVE IInv  OBVIOUS
<1> QED  BY UpdatesAssumption DEF Init, IInv, InWorld

\* An action that gives one character a new value.
LEMMA OneChanges ==
  ASSUME IInv, NEW c \in Players \cup Npcs, NEW x \in Character \cup {None},
         x # None => Sound(x), char' = [char EXCEPT ![c] = x],
         UNCHANGED <<disk, pulse_tick, shielded>>, parched' \subseteq Players
  PROVE  IInv'
BY DEF IInv, InWorld

LEMMA NewCharacter == NewChar \in Character /\ Sound(NewChar)
BY UpdatesAssumption DEF NewChar, Character, Sound

\* What Load makes of a row.
OfRow(p) ==
  [hit |-> disk[p].hit, resists |-> disk[p].resists, condition |-> disk[p].condition,
   position |-> "fighting", affect |-> None, desert |-> FALSE]

\* What save_player makes of a character.
Row(p) == [hit |-> char[p].hit, resists |-> char[p].resists, condition |-> char[p].condition]

LEMMA StepTypes == IInv /\ [Next]_vars => IInv'
<1> SUFFICES ASSUME IInv, [Next]_vars PROVE IInv'  OBVIOUS
<1> USE UpdatesAssumption
<1>1. ASSUME NEW c \in Players \cup Npcs, Create(c) PROVE IInv'
  <2>1. char' = [char EXCEPT ![c] = NewChar] /\ UNCHANGED <<disk, pulse_tick, shielded, parched>>
    BY <1>1 DEF Create
  <2>2. parched' \subseteq Players  BY <2>1 DEF IInv
  <2> QED  BY <2>1, <2>2, NewCharacter, OneChanges
<1>2. ASSUME NEW p \in Players, Load(p) PROVE IInv'
  <2>1. char' = [char EXCEPT ![p] = OfRow(p)] /\ UNCHANGED <<disk, pulse_tick, shielded, parched>>
    BY <1>2 DEF Load, load_affect_by_id, OfRow
  <2>2. OfRow(p) \in Character /\ Sound(OfRow(p))
    BY <1>2 DEF Load, load_affect_by_id, OfRow, IInv, Stored, Character, Sound
  <2>3. parched' \subseteq Players  BY <2>1 DEF IInv
  <2> QED  BY <2>1, <2>2, <2>3, OneChanges
<1>3. ASSUME NEW p \in Players, save_player(p) PROVE IInv'
  <2>1. char[p] \in Character  BY <1>3 DEF save_player, IInv
  <2>2. Row(p) \in Stored  BY <2>1 DEF Row, Character, Stored
  <2>3. disk' = [disk EXCEPT ![p] = Row(p)] /\ shielded' \subseteq Players
        /\ UNCHANGED <<char, pulse_tick, parched>>
    BY <1>3 DEF save_player, Row, IInv
  <2> QED  BY <2>2, <2>3 DEF IInv, InWorld
<1>4. ASSUME NEW p \in Players, Leave(p) PROVE IInv'
  <2>1. char' = [char EXCEPT ![p] = None] /\ UNCHANGED <<disk, pulse_tick, shielded, parched>>
    BY <1>4 DEF Leave
  <2>2. parched' \subseteq Players  BY <2>1 DEF IInv
  <2> QED  BY <2>1, <2>2, OneChanges
<1>5. ASSUME NEW p \in Players, move_char(p) PROVE IInv'
  <2> DEFINE x == [char[p] EXCEPT !.desert = ~@]
  <2>1. char' = [char EXCEPT ![p] = x] /\ UNCHANGED <<disk, pulse_tick, shielded>>
        /\ parched' \subseteq Players
    BY <1>5 DEF move_char, IInv
  <2>2. char[p] \in Character /\ Sound(char[p])  BY <1>5 DEF move_char, IInv, InWorld
  <2>3. x \in Character /\ Sound(x)  BY <2>2 DEF Character, Sound
  <2> HIDE DEF x
  <2> QED  BY <2>1, <2>3, OneChanges
<1>6. ASSUME NEW c \in Players \cup Npcs, damage(c) PROVE IInv'
  <2>1. char[c] \in Character /\ Sound(char[c])  BY <1>6 DEF damage, IInv, InWorld
  <2>2. PICK dam \in 1 .. MaxHit :
          /\ char' = [char EXCEPT ![c] =
                        IF char[c].hit - dam <= 0 /\ c \in Npcs THEN None
                        ELSE [char[c] EXCEPT !.hit = char[c].hit - dam]]
          /\ UNCHANGED <<disk, pulse_tick, shielded, parched>>
    BY <1>6 DEF damage
  <2> DEFINE hit == char[c].hit - dam
             wounded == [char[c] EXCEPT !.hit = hit]
             x == IF hit <= 0 /\ c \in Npcs THEN None ELSE wounded
  <2>3. char' = [char EXCEPT ![c] = x]  BY <2>2
  <2>4. hit \in Int  BY <2>1 DEF Character
  <2> HIDE DEF hit
  <2>5. wounded \in Character /\ Sound(wounded)  BY <2>1, <2>4 DEF Character, Sound
  <2> HIDE DEF wounded
  <2>6. x \in Character \cup {None} /\ (x # None => Sound(x))  BY <2>5
  <2>7. parched' \subseteq Players  BY <2>2 DEF IInv
  <2> HIDE DEF x
  <2> QED  BY <2>2, <2>3, <2>6, <2>7, OneChanges
<1>7. ASSUME NEW p \in Players, do_cast(p) PROVE IInv'
  <2> DEFINE more == char[p].resists + 1
             lasts == Duration
             x == [char[p] EXCEPT !.resists = more, !.affect = lasts]
  <2>1. char[p] \in Character /\ char[p].resists <= MaxResists
    BY <1>7 DEF do_cast, IInv
  <2>2. char' = [char EXCEPT ![p] = x] /\ UNCHANGED <<disk, pulse_tick, shielded, parched>>
    BY <1>7, <2>1 DEF do_cast, affect_to_char, affect_modify, Character
  <2>3. /\ more \in 0 .. MaxResists + 1 /\ more >= 1
        /\ lasts \in (0 .. Duration) \cup {None}
    BY <2>1 DEF Character
  <2> HIDE DEF more, lasts
  <2>4. x \in Character /\ Sound(x)  BY <2>1, <2>3 DEF Character, Sound
  <2>5. parched' \subseteq Players  BY <2>2 DEF IInv
  <2> HIDE DEF x
  <2> QED  BY <2>2, <2>4, <2>5, OneChanges
<1>8. CASE update_handler
  <2>1. pulse_tick' \in 0 .. PULSE_TICK /\ UNCHANGED <<disk, shielded, parched>>
    BY <1>8 DEF update_handler, IInv
  <2>2. CASE UNCHANGED char
    BY <2>1, <2>2 DEF IInv, InWorld
  <2>3. CASE character_update
    <3>1. char' = [c \in Players \cup Npcs |-> IF char[c] = None THEN None ELSE Ticked(c, char[c])]
      BY <2>3 DEF character_update, IInv
    <3>2. \A c \in InWorld : Ticked(c, char[c]) \in Character /\ Sound(Ticked(c, char[c]))
      BY TickedCharacter DEF IInv, InWorld
    <3> QED  BY <2>1, <3>1, <3>2 DEF IInv, InWorld
  <2> QED  BY <1>8, <2>2, <2>3 DEF update_handler
<1>9. CASE do_tick
  BY <1>9 DEF do_tick, IInv, InWorld
<1>10. CASE UNCHANGED vars
  BY <1>10 DEF vars, IInv, InWorld
<1> QED  BY <1>1, <1>2, <1>3, <1>4, <1>5, <1>6, <1>7, <1>8, <1>9, <1>10 DEF Next

LEMMA Types == Spec => []IInv
BY InitTypes, StepTypes, PTL DEF Spec

\* The variables of Updates keep their types: no condition leaves its range, and no
\* affect that is removed takes a resist that was not given.
THEOREM TypeCorrect == Spec => []TypeOK
BY Types, IInvTypes, PTL
-----------------------------------------------------------------------------
(* Shields.                                                                *)

Resists(ch) == IF ch.affect = None THEN 0 ELSE 1

Shield(q) ==
  /\ char[q] # None => char[q].resists = Resists(char[q])
  /\ disk[q] # None => disk[q].resists = 0

\* Who no shield has marked is as at the start.
Shields == \A p \in Players \ shielded : Shield(p)

LEMMA StepShields == IInv /\ Shields /\ [Next]_vars => Shields'
<1> SUFFICES ASSUME IInv, Shields, [Next]_vars, NEW q \in Players, q \notin shielded'
             PROVE  Shield(q)'
  BY DEF Shields
<1> USE UpdatesAssumption DEF IInv
<1>0. q \notin shielded => Shield(q)
  BY DEF Shields
<1>1. ASSUME NEW c \in Players \cup Npcs, Create(c) PROVE Shield(q)'
  BY <1>0, <1>1 DEF Shield, Create, NewChar, Resists
<1>2. ASSUME NEW p \in Players, Load(p) PROVE Shield(q)'
  BY <1>0, <1>2 DEF Shield, Load, load_affect_by_id, Resists
<1>3. ASSUME NEW p \in Players, save_player(p) PROVE Shield(q)'
  BY <1>0, <1>3 DEF Shield, save_player, Resists
<1>4. ASSUME NEW p \in Players, Leave(p) PROVE Shield(q)'
  BY <1>0, <1>4 DEF Shield, Leave
<1>5. ASSUME NEW p \in Players, move_char(p) PROVE Shield(q)'
  BY <1>0, <1>5 DEF Shield, move_char, Character, Resists
<1>6. ASSUME NEW c \in Players \cup Npcs, damage(c) PROVE Shield(q)'
  BY <1>0, <1>6 DEF Shield, damage, InWorld, Character, Resists
<1>7. ASSUME NEW p \in Players, do_cast(p) PROVE Shield(q)'
  BY <1>0, <1>7 DEF Shield, do_cast, affect_to_char, affect_modify, Character, Resists
<1>8. CASE update_handler
  <2>1. UNCHANGED <<disk, shielded>>
    BY <1>8 DEF update_handler
  <2>2. CASE UNCHANGED char
    BY <1>0, <2>1, <2>2 DEF Shield
  <2>3. CASE character_update
    <3>1. char'[q] = IF char[q] = None THEN None ELSE Ticked(q, char[q])
      BY <2>3 DEF character_update
    <3>2. char[q] # None => char[q] \in Character /\ Sound(char[q])
      BY DEF InWorld
    <3>3. char[q] # None /\ char[q].resists = Resists(char[q]) =>
            Ticked(q, char[q]).resists = Resists(Ticked(q, char[q]))
      BY <3>2, TickedCharacter DEF Resists
    <3> QED  BY <1>0, <2>1, <3>1, <3>3 DEF Shield
  <2> QED  BY <1>8, <2>2, <2>3 DEF update_handler
<1>9. CASE do_tick
  BY <1>0, <1>9 DEF do_tick, Shield
<1>10. CASE UNCHANGED vars
  BY <1>0, <1>10 DEF vars, Shield
<1> QED  BY <1>1, <1>2, <1>3, <1>4, <1>5, <1>6, <1>7, <1>8, <1>9, <1>10 DEF Next

\* Saves, loads, ticks and casts in any order leave a bonus without a shield only to
\* players that were saved under one.
THEOREM ShieldsComeOff == Spec => []ShieldComesOff
<1>1. Init => Shields  BY DEF Init, Shields, Shield
<1>2. IInv /\ Shields => ShieldComesOff  BY DEF Shields, Shield, ShieldComesOff, Resists
<1> QED  BY <1>1, <1>2, StepShields, Types, PTL DEF Spec
-----------------------------------------------------------------------------
(* Hunger and thirst.                                                      *)

Fed(q) ==
  /\ char[q] # None =>
       /\ char[q].condition["hunger"] >= -1
       /\ char[q].desert => q \in parched
       /\ q \in parched \/ char[q].condition["thirst"] >= -1
  /\ disk[q] # None =>
       /\ disk[q].condition["hunger"] >= -1
       /\ q \in parched \/ disk[q].condition["thirst"] >= -1

AllFed == \A q \in Players : Fed(q)

LEMMA StepFed == IInv /\ AllFed /\ [Next]_vars => AllFed'
<1> SUFFICES ASSUME IInv, AllFed, [Next]_vars, NEW q \in Players PROVE Fed(q)'
  BY DEF AllFed
<1> USE UpdatesAssumption DEF IInv, AllFed, Fed, Conditions
<1>1. ASSUME NEW c \in Players \cup Npcs, Create(c) PROVE Fed(q)'
  BY <1>1 DEF Create, NewChar
<1>2. ASSUME NEW p \in Players, Load(p) PROVE Fed(q)'
  BY <1>2 DEF Load, load_affect_by_id
<1>3. ASSUME NEW p \in Players, save_player(p) PROVE Fed(q)'
  BY <1>3 DEF save_player
<1>4. ASSUME NEW p \in Players, Leave(p) PROVE Fed(q)'
  BY <1>4 DEF Leave
<1>5. ASSUME NEW p \in Players, move_char(p) PROVE Fed(q)'
  BY <1>5 DEF move_char, Character
<1>6. ASSUME NEW c \in Players \cup Npcs, damage(c) PROVE Fed(q)'
  BY <1>6 DEF damage, InWorld, Character
<1>7. ASSUME NEW p \in Players, do_cast(p) PROVE Fed(q)'
  BY <1>7 DEF do_cast, affect_to_char, affect_modify, Character
<1>8. CASE update_handler
  <2>1. UNCHANGED <<disk, parched>>
    BY <1>8 DEF update_handler
  <2>2. CASE UNCHANGED char
    BY <2>1, <2>2
  <2>3. CASE character_update
    <3>1. char'[q] = IF char[q] = None THEN None ELSE Ticked(q, char[q])
      BY <2>3 DEF character_update
    <3>2. CASE char[q] = None
      BY <2>1, <3>1, <3>2
    <3>3. CASE char[q] # None
      <4>1. char[q] \in Character /\ Sound(char[q])
        BY <3>3 DEF InWorld
      <4> DEFINE next == Ticked(q, char[q])
      <4>0. /\ char'[q] = next /\ next.desert = char[q].desert
            /\ next.condition = [k \in Conditions |-> gain_condition(q, char[q], k)]
        BY <3>1, <3>3, <4>1, TickedCharacter
      <4> HIDE DEF next
      <4>2. /\ char'[q].condition["hunger"] = gain_condition(q, char[q], "hunger")
            /\ char'[q].condition["thirst"] = gain_condition(q, char[q], "thirst")
            /\ char'[q].desert = char[q].desert
        BY <4>0
      <4>3. gain_condition(q, char[q], "hunger") >= -1
        BY <3>3, <4>1, ConditionBound
      <4>4. ~char[q].desert /\ char[q].condition["thirst"] >= -1 =>
              gain_condition(q, char[q], "thirst") >= -1
        BY <4>1, ConditionBound
      <4> QED  BY <2>1, <3>3, <4>2, <4>3, <4>4
    <3> QED  BY <3>2, <3>3
  <2> QED  BY <1>8, <2>2, <2>3 DEF update_handler
<1>9. CASE do_tick
  BY <1>9 DEF do_tick
<1>10. CASE UNCHANGED vars
  BY <1>10 DEF vars
<1> QED  BY <1>1, <1>2, <1>3, <1>4, <1>5, <1>6, <1>7, <1>8, <1>9, <1>10 DEF Next

\* Nobody starves: hunger never sinks below -1, and thirst only of who was in
\* a desert, whatever the messages of gain_condition say about it.
NobodyStarves ==
  \A p \in Players : char[p] # None =>
    /\ char[p].condition["hunger"] >= -1
    /\ p \notin parched => char[p].condition["thirst"] >= -1

\* gain_condition halves a loss of one to nothing below zero, so that the hunger it
\* warns of and would let sink further never comes.
THEOREM NobodyEverStarves == Spec => []NobodyStarves
<1>1. Init => AllFed  BY DEF Init, AllFed, Fed
<1>2. AllFed => NobodyStarves  BY DEF AllFed, Fed, NobodyStarves
<1> QED  BY <1>1, <1>2, StepFed, Types, PTL DEF Spec

-----------------------------------------------------------------------------
(* Hit points.                                                             *)

\* No regeneration, save or load leaves anybody with more hit points than the
\* most, whatever hit them in between.
WithinMax ==
  /\ \A c \in InWorld : char[c].hit <= MaxHit
  /\ \A p \in Players : disk[p] # None => disk[p].hit <= MaxHit

LEMMA StepWithinMax == IInv /\ WithinMax /\ [Next]_vars => WithinMax'
<1> SUFFICES ASSUME IInv, WithinMax, [Next]_vars PROVE WithinMax'  OBVIOUS
<1> USE UpdatesAssumption DEF IInv, WithinMax, InWorld
<1>1. ASSUME NEW c \in Players \cup Npcs, Create(c) PROVE WithinMax'
  BY <1>1 DEF Create, NewChar
<1>2. ASSUME NEW p \in Players, Load(p) PROVE WithinMax'
  BY <1>2 DEF Load, load_affect_by_id
<1>3. ASSUME NEW p \in Players, save_player(p) PROVE WithinMax'
  BY <1>3 DEF save_player
<1>4. ASSUME NEW p \in Players, Leave(p) PROVE WithinMax'
  BY <1>4 DEF Leave
<1>5. ASSUME NEW p \in Players, move_char(p) PROVE WithinMax'
  BY <1>5 DEF move_char, Character
<1>6. ASSUME NEW c \in Players \cup Npcs, damage(c) PROVE WithinMax'
  BY <1>6 DEF damage, Character
<1>7. ASSUME NEW p \in Players, do_cast(p) PROVE WithinMax'
  BY <1>7 DEF do_cast, affect_to_char, affect_modify, Character
<1>8. CASE update_handler
  <2>1. UNCHANGED disk
    BY <1>8 DEF update_handler
  <2>2. CASE UNCHANGED char
    BY <2>1, <2>2
  <2>3. CASE character_update
    <3>1. char' = [c \in Players \cup Npcs |-> IF char[c] = None THEN None ELSE Ticked(c, char[c])]
      BY <2>3 DEF character_update
    <3>2. ASSUME NEW c \in InWorld PROVE Ticked(c, char[c]).hit <= MaxHit
      <4>1. char[c] \in Character /\ Sound(char[c])  OBVIOUS
      <4>2. Ticked(c, char[c]).hit = Regained(c, char[c])  BY ONLY <4>1, TickedCharacter
      <4>3. Regained(c, char[c]) <= MaxHit  BY ONLY <4>1, RegainedBound
      <4> QED  BY <4>2, <4>3
    <3>3. ASSUME NEW c \in InWorld' PROVE char'[c].hit <= MaxHit
      <4>1. c \in InWorld /\ char'[c] = Ticked(c, char[c])  BY <3>1
      <4> QED  BY <4>1, <3>2
    <3> QED  BY <2>1, <3>3
  <2> QED  BY <1>8, <2>2, <2>3 DEF update_handler
<1>9. CASE do_tick
  BY <1>9 DEF do_tick
<1>10. CASE UNCHANGED vars
  BY <1>10 DEF vars
<1> QED  BY <1>1, <1>2, <1>3, <1>4, <1>5, <1>6, <1>7, <1>8, <1>9, <1>10 DEF Next

\* hit_gain and damage keep hit points within the most a character can have.
THEOREM HitsWithinMax == Spec => []WithinMax
<1>1. Init => WithinMax  BY DEF Init, WithinMax, InWorld
<1> QED  BY <1>1, StepWithinMax, Types, PTL DEF Spec

-----------------------------------------------------------------------------
(* The input buffer.                                                       *)

\* Bytes of which the last is the r-th that was sent, and arrays of them.
Bytes(r) == (STRING \cup {"NUL"}) \X (0 .. r)
Buffers(r) == [0 .. Room + 1 -> Bytes(r)]

NoNul(buf, a, b) == \A j \in a .. b : K(buf, j) # "NUL"

\* Up to the first NUL, bytes come in the order they were sent, and after the u-th.
Ordered(buf, u) ==
  \A k \in 0 .. Room + 1 :
    NoNul(buf, 0, k) => u < buf[k][2] /\ \A j \in 0 .. k - 1 : buf[j][2] < buf[k][2]

LEMMA AtFacts ==
  ASSUME NEW r \in Nat, NEW buf \in Buffers(r), NEW i \in Int
  PROVE  /\ At(buf, i) \in Bytes(r)
         /\ K(buf, i) = IF i \in 0 .. Room + 1 THEN buf[i][1] ELSE "NUL"
         /\ i \in 0 .. Room + 1 => At(buf, i) = buf[i]
<1>1. DOMAIN buf = 0 .. Room + 1 /\ \A j \in 0 .. Room + 1 : buf[j] \in Bytes(r)
  BY DEF Buffers
<1>2. Nul \in Bytes(r) /\ Nul[1] = "NUL"
  <2>1. 0 \in 0 .. r /\ "NUL" \in STRING \cup {"NUL"}  OBVIOUS
  <2> QED  BY <2>1 DEF Nul, Bytes
<1>3. At(buf, i) \in Bytes(r)  BY <1>1, <1>2 DEF At
<1> QED  BY <1>1, <1>2, <1>3 DEF At, K

\* memmove: a byte that is not behind a NUL afterwards stands where it did, or came
\* from behind the option, and nothing between was a NUL.
LEMMA MovedFacts ==
  ASSUME NEW r \in Nat, NEW buf \in Buffers(r),
         NEW index \in 0 .. Room + 1, NEW i \in index .. Room + 3
  PROVE  /\ Moved(buf, index, i) \in Buffers(r)
         /\ \A k \in 0 .. index - 1 : Moved(buf, index, i)[k] = buf[k]
         /\ \A k \in index .. Room + 1 :
              NoNul(Moved(buf, index, i), 0, k) =>
                /\ k + i - index \in 0 .. Room + 1
                /\ Moved(buf, index, i)[k] = buf[k + i - index]
                /\ NoNul(buf, i, k + i - index)
<1> USE ClientIOAssumption
<1> DEFINE Nuls == {j \in i .. i + Room + 2 : K(buf, j) = "NUL"}
           IsFirst(j) == K(buf, j) = "NUL" /\ \A k \in i .. j - 1 : K(buf, k) # "NUL"
           nul == CHOOSE j \in i .. i + Room + 2 : IsFirst(j)
           new == Moved(buf, index, i)
<1>1. Room \in Nat /\ i \in Nat /\ index \in Nat /\ index <= i  OBVIOUS
<1>2. \E j \in i .. i + Room + 2 : IsFirst(j)
  <2>1. i + Room + 2 \in Nuls
    <3>1. i + Room + 2 \in Int /\ i + Room + 2 \notin 0 .. Room + 1  BY <1>1
    <3>2. K(buf, i + Room + 2) = "NUL"  BY <3>1, AtFacts
    <3>3. i + Room + 2 \in i .. i + Room + 2  BY <1>1
    <3> QED  BY <3>2, <3>3
  <2>2. Nuls \in SUBSET Nat  BY <1>1
  <2>3. PICK m \in Nuls : \A j \in Nuls : m <= j
    <3> HIDE DEF Nuls
    <3> QED  BY <2>1, <2>2, LeastNat
  <2>4. ASSUME NEW k \in i .. m - 1 PROVE K(buf, k) # "NUL"
    <3>1. k \in i .. i + Room + 2 /\ ~ (m <= k)  BY <1>1
    <3> QED  BY <2>3, <3>1
  <2> QED  BY <2>3, <2>4
<1>3. nul \in i .. i + Room + 2 /\ IsFirst(nul)
  <2> HIDE DEF IsFirst
  <2> QED  BY <1>2
<1>4. nul \in Nat /\ i <= nul /\ (nul < Room + 2 \/ nul = Room + 2 \/ nul = i)
  <2>1. CASE nul > Room + 2 /\ nul > i
    <3>1. nul - 1 \in i .. nul - 1 /\ nul - 1 \notin 0 .. Room + 1 /\ nul - 1 \in Int  BY <1>1, <1>3, <2>1
    <3>2. K(buf, nul - 1) = "NUL"  BY <3>1, AtFacts
    <3> QED  BY <1>3, <3>1, <3>2
  <2>2. nul \in Nat /\ i <= nul  BY <1>1, <1>3
  <2> HIDE DEF nul
  <2> QED  BY <1>1, <2>1, <2>2
<1>5. new = [j \in 0 .. Room + 1 |-> IF j \in index .. index + nul - i THEN At(buf, j + i - index) ELSE buf[j]]
  <2>1. DOMAIN buf = 0 .. Room + 1  BY DEF Buffers
  <2> QED  BY <2>1 DEF Moved
<1> HIDE DEF nul, new, Nuls
<1>6. new \in Buffers(r)
  <2>1. ASSUME NEW j \in 0 .. Room + 1 PROVE new[j] \in Bytes(r)
    <3>1. j + i - index \in Int  BY <1>1
    <3>2. At(buf, j + i - index) \in Bytes(r)  BY <3>1, AtFacts
    <3>3. buf[j] \in Bytes(r)  BY DEF Buffers
    <3> QED  BY <1>5, <3>2, <3>3
  <2> QED  BY <1>5, <2>1 DEF Buffers
<1>7. ASSUME NEW k \in 0 .. index - 1 PROVE new[k] = buf[k]
  <2>1. k \in 0 .. Room + 1 /\ k \notin index .. index + nul - i  BY <1>1, <1>4
  <2> QED  BY <1>5, <2>1
<1>8. ASSUME NEW k \in index .. Room + 1, NoNul(new, 0, k)
      PROVE  /\ k + i - index \in 0 .. Room + 1 /\ new[k] = buf[k + i - index]
             /\ NoNul(buf, i, k + i - index)
  <2> DEFINE z == index + nul - i
  <2>1. z \in Int /\ index <= z /\ k \in Int  BY <1>1, <1>4
  <2>2. k < z
    <3> SUFFICES ASSUME z <= k PROVE FALSE  BY <2>1
    <3>1. z \in 0 .. k /\ z \in index .. z /\ z \in 0 .. Room + 1  BY <1>1, <2>1
    <3>2. new[z] = At(buf, z + i - index) /\ z + i - index = nul  BY <1>1, <1>4, <1>5, <3>1
    <3>3. K(new, z) = "NUL"
      <4>1. K(new, z) = new[z][1]
        <5> HIDE DEF z
        <5> QED  BY <1>6, <2>1, <3>1, AtFacts
      <4>2. new[z][1] = K(buf, nul)  BY <3>2 DEF K
      <4> QED  BY <1>3, <4>1, <4>2
    <3> QED  BY <3>1, <3>3, <1>8 DEF NoNul
  <2>3. k \in 0 .. Room + 1 /\ k \in index .. z  BY <1>1, <2>1, <2>2
  <2>4. k + i - index \in i .. nul - 1  BY <1>1, <1>4, <2>1, <2>2
  <2>5. k + i - index \in 0 .. Room + 1
    <3>1. k + i - index \in Int  BY <1>1, <2>1
    <3>2. K(buf, k + i - index) # "NUL"  BY <1>3, <2>4
    <3> QED  BY <3>1, <3>2, AtFacts
  <2>6. new[k] = buf[k + i - index]
    <3>1. new[k] = At(buf, k + i - index)  BY <1>5, <2>3
    <3>2. k + i - index \in Int  BY <1>1, <2>1
    <3>3. At(buf, k + i - index) = buf[k + i - index]  BY <2>5, <3>2, AtFacts
    <3> QED  BY <3>1, <3>3
  <2>7. NoNul(buf, i, k + i - index)
    <3>1. ASSUME NEW j \in i .. k + i - index PROVE j \in i .. nul - 1  BY <1>1, <1>4, <2>4
    <3> QED  BY <1>3, <3>1 DEF NoNul
  <2> QED  BY <2>5, <2>6, <2>7
<1> QED  BY <1>6, <1>7, <1>8 DEF new

LEMMA SuboptionFacts ==
  ASSUME NEW r \in Nat, NEW buf \in Buffers(r), NEW i \in Nat, K(buf, i + 1) = "SB"
  PROVE  Suboption(buf, i) = i \/ Suboption(buf, i) \in i + 2 .. Room + 1
<1> USE ClientIOAssumption
<1> DEFINE Stops == {j \in i + 2 .. Room + 2 :
                       K(buf, j) = "SE" \/ (K(buf, j) = "NUL" /\ K(buf, j + 1) = "NUL")}
           IsFirst(k) == \A m \in Stops : k <= m
           j == CHOOSE k \in Stops : IsFirst(k)
<1>1. i + 1 \in 0 .. Room + 1
  <2>1. i + 1 \in Int  OBVIOUS
  <2> QED  BY <2>1, AtFacts
<1>2. Room + 2 \in Stops
  <2>1. Room + 2 \in Int /\ Room + 2 \notin 0 .. Room + 1  OBVIOUS
  <2>2. Room + 3 \in Int /\ Room + 3 \notin 0 .. Room + 1 /\ (Room + 2) + 1 = Room + 3  OBVIOUS
  <2>3. K(buf, Room + 2) = "NUL" /\ K(buf, Room + 3) = "NUL"  BY <2>1, <2>2, AtFacts
  <2>4. Room + 2 \in i + 2 .. Room + 2  BY <1>1
  <2> QED  BY <2>2, <2>3, <2>4
<1>3. \E k \in Stops : IsFirst(k)
  <2>1. Stops \in SUBSET Nat  OBVIOUS
  <2> HIDE DEF Stops
  <2> QED  BY <1>2, <2>1, LeastNat
<1>4. j \in Stops
  <2> HIDE DEF IsFirst, Stops
  <2> QED  BY <1>3
<1>5. Suboption(buf, i) = IF K(buf, j) = "SE" THEN j ELSE i  BY DEF Suboption
<1> HIDE DEF j
<1>6. CASE K(buf, j) = "SE"
  <2>1. j \in i + 2 .. Room + 2 /\ j \in Int  BY <1>4
  <2>2. j \in 0 .. Room + 1  BY <1>6, <2>1, AtFacts
  <2> QED  BY <1>5, <1>6, <2>1, <2>2
<1>7. CASE K(buf, j) # "SE"  BY <1>5, <1>7
<1> QED  BY <1>6, <1>7

\* What process_telnet has while it goes over the options that start at index: it
\* changes nothing before them and nothing behind them.
Rounds(buf, index, r) ==
  {o \in [buf : Buffers(r), at : index .. Room + 3, naws : BOOLEAN, on : BOOLEAN] :
     \A j \in 0 .. Room + 1 : j < index \/ o.at <= j => o.buf[j] = buf[j]}

LEMMA OptionFacts ==
  ASSUME NEW r \in Nat, NEW buf \in Buffers(r), NEW index \in Nat, NEW o \in Rounds(buf, index, r)
  PROVE  Option(o) \in Rounds(buf, index, r)
<1> USE ClientIOAssumption
<1> DEFINE i == o.at
           opt == K(o.buf, i + 1)
           se == Suboption(o.buf, i)
           named == K(o.buf, i + 2) = "NAWS" /\ K(o.buf, se - 1) = "IAC"
           stop == [o EXCEPT !.on = FALSE]
           sb == [o EXCEPT !.buf = IF named THEN [o.buf EXCEPT ![se - 1] = Nul] ELSE o.buf,
                           !.at = se + 1, !.naws = o.naws \/ named]
<1>1. /\ o \in [buf : Buffers(r), at : index .. Room + 3, naws : BOOLEAN, on : BOOLEAN]
      /\ \A j \in 0 .. Room + 1 : j < index \/ i <= j => o.buf[j] = buf[j]
  BY DEF Rounds
<1>2. o.buf \in Buffers(r) /\ i \in Nat /\ index <= i /\ i <= Room + 3  BY <1>1
<1>3. CASE ~o.on \/ K(o.buf, i) # "IAC" \/ opt = "IAC" \/ (opt = "SB" /\ se = i)
  <2>1. stop \in Rounds(buf, index, r)  BY <1>1 DEF Rounds
  <2>2. Option(o) = stop  BY <1>3 DEF Option
  <2> QED  BY <2>1, <2>2
<1>4. ASSUME ~(~o.on \/ K(o.buf, i) # "IAC" \/ opt = "IAC" \/ (opt = "SB" /\ se = i))
      PROVE  /\ i <= Room + 1
             /\ Option(o) = IF opt = "SB" THEN sb
                            ELSE IF K(o.buf, i + 2) # "NUL" THEN [o EXCEPT !.at = i + 3]
                            ELSE IF opt = "WILL" THEN [stop EXCEPT !.at = i + 3] ELSE stop
  <2>1. Option(o) = IF opt = "SB" THEN sb
                    ELSE IF K(o.buf, i + 2) # "NUL" THEN [o EXCEPT !.at = i + 3]
                    ELSE IF opt = "WILL" THEN [stop EXCEPT !.at = i + 3] ELSE stop
    BY <1>4 DEF Option
  <2>2. i \in 0 .. Room + 1
    <3>1. i \in Int /\ K(o.buf, i) # "NUL"  BY <1>2, <1>4
    <3> QED  BY <1>2, <3>1, AtFacts
  <2> QED  BY <2>1, <2>2
<1>5. ASSUME i <= Room + 1, opt = "SB", se # i PROVE sb \in Rounds(buf, index, r)
  <2> DEFINE new == IF named THEN [o.buf EXCEPT ![se - 1] = Nul] ELSE o.buf
  <2>1. se \in i + 2 .. Room + 1
    <3> HIDE DEF i
    <3> QED  BY <1>2, <1>5, SuboptionFacts
  <2> HIDE DEF i, opt, se, named
  <2>2. se - 1 \in 0 .. Room + 1 /\ index <= se - 1 /\ se + 1 \in index .. Room + 3  BY <1>2, <2>1
  <2>3. Nul \in Bytes(r)
    <3>1. 0 \in 0 .. r /\ "NUL" \in STRING \cup {"NUL"}  OBVIOUS
    <3> QED  BY <3>1 DEF Nul, Bytes
  <2>4. new \in Buffers(r) /\ \A j \in 0 .. Room + 1 : j # se - 1 => new[j] = o.buf[j]
    <3> DEFINE at == se - 1
    <3>1. at \in 0 .. Room + 1  BY <2>2
    <3>2. new = IF named THEN [o.buf EXCEPT ![at] = Nul] ELSE o.buf  OBVIOUS
    <3> HIDE DEF at, new
    <3>3. new \in Buffers(r) /\ \A j \in 0 .. Room + 1 : j # at => new[j] = o.buf[j]
      BY <1>2, <2>3, <3>1, <3>2 DEF Buffers
    <3> QED  BY <3>3 DEF at
  <2> HIDE DEF new
  <2>5. sb = [o EXCEPT !.buf = new, !.at = se + 1, !.naws = o.naws \/ named]  BY DEF new
  <2>6. named \in BOOLEAN  BY DEF named
  <2>7. /\ sb.buf = new /\ sb.at = se + 1
        /\ sb \in [buf : Buffers(r), at : index .. Room + 3, naws : BOOLEAN, on : BOOLEAN]
    BY <1>1, <2>2, <2>4, <2>5, <2>6
  <2>8. ASSUME NEW j \in 0 .. Room + 1, j < index \/ se + 1 <= j PROVE new[j] = buf[j]
    <3>1. j # se - 1 /\ (j < index \/ i <= j)  BY <1>2, <2>1, <2>2, <2>8
    <3> QED  BY <1>1, <2>4, <3>1
  <2> HIDE DEF sb
  <2> QED  BY <2>7, <2>8 DEF Rounds
<1>6. ASSUME i <= Room + 1, K(o.buf, i + 2) # "NUL" PROVE [o EXCEPT !.at = i + 3] \in Rounds(buf, index, r)
  <2>1. i + 2 \in Int /\ i + 2 \in 0 .. Room + 1
    <3>1. i + 2 \in Int  BY <1>2
    <3> QED  BY <1>2, <1>6, <3>1, AtFacts
  <2> DEFINE at == i + 3
             new == [o EXCEPT !.at = at]
  <2>2. at \in index .. Room + 3 /\ i <= at  BY <1>2, <2>1
  <2> HIDE DEF at
  <2>3. \A j \in 0 .. Room + 1 : at <= j => i <= j  BY <1>2, <2>2
  <2>4. new.buf = o.buf /\ new.at = at  BY <1>1
  <2>5. new \in [buf : Buffers(r), at : index .. Room + 3, naws : BOOLEAN, on : BOOLEAN]  BY <1>1, <2>2
  <2>6. new \in Rounds(buf, index, r)  BY <1>1, <2>3, <2>4, <2>5 DEF Rounds
  <2> QED  BY <2>6 DEF at
<1>7. ASSUME opt = "WILL" PROVE [stop EXCEPT !.at = i + 3] \in Rounds(buf, index, r)
  <2>1. i + 1 \in Int /\ i + 1 \in 0 .. Room + 1
    <3>1. i + 1 \in Int  BY <1>2
    <3> QED  BY <1>2, <1>7, <3>1, AtFacts
  <2> DEFINE at == i + 3
             new == [stop EXCEPT !.at = at]
  <2>2. at \in index .. Room + 3 /\ i <= at  BY <1>2, <2>1
  <2> HIDE DEF at
  <2>3. \A j \in 0 .. Room + 1 : at <= j => i <= j  BY <1>2, <2>2
  <2>4. new.buf = o.buf /\ new.at = at  BY <1>1
  <2>5. new \in [buf : Buffers(r), at : index .. Room + 3, naws : BOOLEAN, on : BOOLEAN]  BY <1>1, <2>2
  <2>6. new \in Rounds(buf, index, r)  BY <1>1, <2>3, <2>4, <2>5 DEF Rounds
  <2> QED  BY <2>6 DEF at
<1>8. stop \in Rounds(buf, index, r)  BY <1>1 DEF Rounds
<1> HIDE DEF i, opt, se, named, stop, sb
<1> QED  BY <1>3, <1>4, <1>5, <1>6, <1>7, <1>8

LEMMA OptionsFacts ==
  ASSUME NEW r \in Nat, NEW buf \in Buffers(r), NEW index \in 0 .. Room + 1, NEW naws \in BOOLEAN
  PROVE  Options(buf, index, naws) \in Rounds(buf, index, r)
<1> USE ClientIOAssumption
<1> DEFINE n == Room + 2
           T == Rounds(buf, index, r)
           a == [buf |-> buf, at |-> index, naws |-> naws, on |-> TRUE]
           step == [o \in T |-> Option(o)]
           Is(f) == f = [i \in 0 .. n |-> IF i = 0 THEN a ELSE Option(f[i - 1])]
<1>1. n \in Nat /\ a \in T  BY DEF Rounds
<1>2. \A o \in T : Option(o) \in T
  <2>1. index \in Nat  OBVIOUS
  <2> QED  BY <2>1, OptionFacts
<1> HIDE DEF n, T, a
<1>3. \E f : Is(f)
  <2>1. step \in [T -> T]  BY <1>2
  <2>2. PICK f : f \in [0 .. n -> T] /\ f = [i \in 0 .. n |-> IF i = 0 THEN a ELSE step[f[i - 1]]]
    <3> HIDE DEF step, Is
    <3>1. \E f : Loop(f, n, T, a, step)  BY <1>1, <2>1, LoopExists
    <3> QED  BY <3>1 DEF Loop
  <2>3. ASSUME NEW i \in 0 .. n, i # 0 PROVE step[f[i - 1]] = Option(f[i - 1])
    <3>1. i - 1 \in 0 .. n  BY <1>1, <2>3
    <3> QED  BY <2>2, <3>1
  <2>4. f = [i \in 0 .. n |-> IF i = 0 THEN a ELSE Option(f[i - 1])]
    <3> HIDE DEF step
    <3> QED  BY <2>2, <2>3
  <2> QED  BY <2>4
<1> DEFINE g == CHOOSE f : Is(f)
<1>4. Is(g)
  <2> HIDE DEF Is
  <2> QED  BY <1>3
<1>5. Options(buf, index, naws) = g[n]  BY DEF Options, n, a
<1> HIDE DEF g
<1>6. \A i \in 0 .. n : g[i] = IF i = 0 THEN a ELSE Option(g[i - 1])  BY <1>4
<1> DEFINE U == {i \in 0 .. n : g[i] \in T}
<1>7. 0 \in U  BY <1>1, <1>6
<1>8. \A i \in 1 .. n : i - 1 \in U => i \in U
  <2> SUFFICES ASSUME NEW i \in 1 .. n, i - 1 \in U PROVE i \in U  OBVIOUS
  <2>1. i \in 0 .. n /\ i # 0 /\ g[i - 1] \in T  BY <1>1
  <2> QED  BY <1>2, <1>6, <2>1
<1>9. n \in U
  <2> HIDE DEF U
  <2>1. 0 .. n \subseteq U  BY <1>1, <1>7, <1>8, Upwards
  <2> QED  BY <1>1, <2>1
<1> QED  BY <1>5, <1>9 DEF T

\* What the search for the end of a line has: there is no NUL before where it is, and
\* unless it went beyond the end of the input, the bytes are in order if they were.
Searches(buf, u, r) ==
  {p \in [buf : Buffers(r), at : 0 .. Room + 2, naws : BOOLEAN, past : BOOLEAN] :
     /\ NoNul(p.buf, 0, p.at - 1)
     /\ ~p.past /\ Ordered(buf, u) => Ordered(p.buf, u)}

LEMMA ProcessFacts ==
  ASSUME NEW r \in Nat, NEW u \in Nat, NEW buf \in Buffers(r), NEW p \in Searches(buf, u, r),
         p.at <= Room + 1
  PROVE  process_telnet(p) \in Searches(buf, u, r) /\ process_telnet(p).at = p.at
<1> USE ClientIOAssumption
<1> DEFINE index == p.at
           o == Options(p.buf, index, p.naws)
           new == Moved(o.buf, index, o.at)
           beyond == \E j \in index .. o.at - 1 : K(p.buf, j) = "NUL"
           q == [p EXCEPT !.buf = new, !.naws = o.naws, !.past = p.past \/ beyond]
<1>1. /\ p \in [buf : Buffers(r), at : 0 .. Room + 2, naws : BOOLEAN, past : BOOLEAN]
      /\ NoNul(p.buf, 0, index - 1)
      /\ ~p.past /\ Ordered(buf, u) => Ordered(p.buf, u)
  BY DEF Searches
<1>2. p.buf \in Buffers(r) /\ index \in 0 .. Room + 1 /\ p.naws \in BOOLEAN  BY <1>1
<1>3. o \in Rounds(p.buf, index, r)
  <2> HIDE DEF index
  <2> QED  BY <1>2, OptionsFacts
<1>4. process_telnet(p) = q  BY DEF process_telnet
<1> HIDE DEF index, o
<1>5. /\ o.buf \in Buffers(r) /\ o.at \in index .. Room + 3 /\ o.naws \in BOOLEAN
      /\ \A j \in 0 .. Room + 1 : j < index \/ o.at <= j => o.buf[j] = p.buf[j]
  BY <1>3 DEF Rounds
<1>6. /\ new \in Buffers(r)
      /\ \A k \in 0 .. index - 1 : new[k] = o.buf[k]
      /\ \A k \in index .. Room + 1 :
           NoNul(new, 0, k) =>
             /\ k + o.at - index \in 0 .. Room + 1
             /\ new[k] = o.buf[k + o.at - index]
             /\ NoNul(o.buf, o.at, k + o.at - index)
  <2> DEFINE b == o.buf
             at == o.at
  <2>1. b \in Buffers(r) /\ at \in index .. Room + 3  BY <1>5
  <2> HIDE DEF b, at
  <2>2. /\ Moved(b, index, at) \in Buffers(r)
        /\ \A k \in 0 .. index - 1 : Moved(b, index, at)[k] = b[k]
        /\ \A k \in index .. Room + 1 :
             NoNul(Moved(b, index, at), 0, k) =>
               /\ k + at - index \in 0 .. Room + 1
               /\ Moved(b, index, at)[k] = b[k + at - index]
               /\ NoNul(b, at, k + at - index)
    BY <1>2, <2>1, MovedFacts
  <2> QED  BY <2>2 DEF b, at
<1> HIDE DEF new
<1>7. ASSUME NEW k \in 0 .. index - 1 PROVE new[k] = p.buf[k] /\ K(new, k) = K(p.buf, k)
  <2>1. k \in 0 .. Room + 1 /\ k < index /\ k \in Int  BY <1>2
  <2>2. new[k] = p.buf[k]  BY <1>5, <1>6, <2>1
  <2> QED  BY <1>2, <1>6, <2>1, <2>2, AtFacts
<1>8. NoNul(new, 0, index - 1)  BY <1>1, <1>7 DEF NoNul
<1>9. ASSUME ~beyond, Ordered(p.buf, u) PROVE Ordered(new, u)
  <2> DEFINE d == o.at - index
             From(k) == IF k < index THEN k ELSE k + d
  <2>1. d \in Nat /\ index \in Nat /\ o.at \in Nat /\ o.at = index + d  BY <1>2, <1>5
  <2>2. ASSUME NEW k \in 0 .. Room + 1, NoNul(new, 0, k)
        PROVE  From(k) \in 0 .. Room + 1 /\ new[k] = p.buf[From(k)] /\ NoNul(p.buf, 0, From(k))
    <3>1. CASE k < index
      <4>1. k \in 0 .. index - 1 /\ From(k) = k  BY <2>1, <3>1
      <4>2. NoNul(p.buf, 0, k)
        <5>1. \A j \in 0 .. k : j \in 0 .. index - 1  BY <2>1, <4>1
        <5> QED  BY <1>1, <5>1 DEF NoNul
      <4> QED  BY <1>7, <4>1, <4>2
    <3>2. CASE ~ (k < index)
      <4> DEFINE m == k + d
      <4>1. From(k) = m /\ k + o.at - index = m /\ k \in index .. Room + 1 /\ m \in Nat /\ o.at <= m
        BY <2>1, <3>2
      <4>2. m \in 0 .. Room + 1 /\ new[k] = o.buf[m] /\ NoNul(o.buf, o.at, m)
        BY <1>6, <2>2, <4>1
      <4> HIDE DEF m, d
      <4>3. o.buf[m] = p.buf[m]  BY <1>5, <4>1, <4>2
      <4>4. ASSUME NEW j \in 0 .. m PROVE K(p.buf, j) # "NUL"
        <5>1. j \in 0 .. Room + 1 /\ j \in Int  BY <4>2
        <5>2. CASE j < index
          <6>1. j \in 0 .. index - 1  BY <2>1, <5>1, <5>2
          <6> QED  BY <1>1, <6>1 DEF NoNul
        <5>3. CASE index <= j /\ j < o.at
          <6>1. j \in index .. o.at - 1  BY <2>1, <5>1, <5>3
          <6> QED  BY <1>9, <6>1
        <5>4. CASE o.at <= j
          <6>1. j \in o.at .. m  BY <2>1, <5>1, <5>4
          <6>2. K(o.buf, j) # "NUL"  BY <4>2, <6>1 DEF NoNul
          <6>3. o.buf[j] = p.buf[j]  BY <1>5, <5>1, <5>4
          <6> QED  BY <1>2, <1>5, <5>1, <6>2, <6>3, AtFacts
        <5> QED  BY <2>1, <5>1, <5>2, <5>3, <5>4
      <4> QED  BY <4>1, <4>2, <4>3, <4>4 DEF NoNul
    <3> QED  BY <3>1, <3>2
  <2>3. ASSUME NEW k \in 0 .. Room + 1, NoNul(new, 0, k)
        PROVE  u < new[k][2] /\ \A j \in 0 .. k - 1 : new[j][2] < new[k][2]
    <3>1. From(k) \in 0 .. Room + 1 /\ new[k] = p.buf[From(k)] /\ NoNul(p.buf, 0, From(k))
      BY <2>2, <2>3
    <3>2. ASSUME NEW j \in 0 .. k - 1 PROVE From(j) \in 0 .. From(k) - 1 /\ new[j] = p.buf[From(j)]
      <4>1. j \in 0 .. Room + 1 /\ NoNul(new, 0, j)
        <5>1. \A l \in 0 .. j : l \in 0 .. k  OBVIOUS
        <5> QED  BY <2>3, <5>1 DEF NoNul
      <4>2. From(j) \in 0 .. Room + 1 /\ new[j] = p.buf[From(j)]  BY <2>2, <4>1
      <4>3. From(j) < From(k)
        <5> HIDE DEF d
        <5> QED  BY <2>1
      <4> HIDE DEF From
      <4> QED  BY <3>1, <4>2, <4>3
    <3> HIDE DEF From
    <3>3. u < p.buf[From(k)][2] /\ \A j \in 0 .. From(k) - 1 : p.buf[j][2] < p.buf[From(k)][2]
      BY <1>9, <3>1 DEF Ordered
    <3> QED  BY <3>1, <3>2, <3>3
  <2> QED  BY <2>3 DEF Ordered
<1> HIDE DEF beyond
<1>10. /\ q \in [buf : Buffers(r), at : 0 .. Room + 2, naws : BOOLEAN, past : BOOLEAN]
       /\ q.buf = new /\ q.at = index /\ q.past = (p.past \/ beyond)
  <2>1. beyond \in BOOLEAN  BY DEF beyond
  <2> QED  BY <1>1, <1>5, <1>6, <2>1 DEF index
<1> HIDE DEF q
<1> QED  BY <1>1, <1>4, <1>8, <1>9, <1>10 DEF Searches, index

LEMMA SearchFacts ==
  ASSUME NEW r \in Nat, NEW u \in Nat, NEW buf \in Buffers(r), NEW p \in Searches(buf, u, r)
  PROVE  Search(p) \in Searches(buf, u, r)
<1> USE ClientIOAssumption
<1> DEFINE q == IF K(p.buf, p.at) = "IAC" THEN process_telnet(p) ELSE p
           next == [q EXCEPT !.at = p.at + 1]
<1>1. p \in [buf : Buffers(r), at : 0 .. Room + 2, naws : BOOLEAN, past : BOOLEAN]
  BY DEF Searches
<1>2. q \in Searches(buf, u, r) /\ q.at = p.at
  <2>1. CASE K(p.buf, p.at) = "IAC"
    <3>1. p.at <= Room + 1
      <4>1. p.at \in Int /\ p.buf \in Buffers(r)  BY <1>1
      <4>2. p.at \in 0 .. Room + 1  BY <2>1, <4>1, AtFacts
      <4> QED  BY <4>2
    <3> QED  BY <2>1, <3>1, ProcessFacts
  <2> QED  BY <2>1
<1>3. Search(p) = IF K(p.buf, p.at) \in Ends THEN p ELSE IF K(q.buf, q.at) = "NUL" THEN q ELSE next
  BY DEF Search
<1> HIDE DEF q
<1>4. ASSUME K(q.buf, q.at) # "NUL" PROVE next \in Searches(buf, u, r)
  <2>1. /\ q \in [buf : Buffers(r), at : 0 .. Room + 2, naws : BOOLEAN, past : BOOLEAN]
        /\ NoNul(q.buf, 0, q.at - 1)
        /\ ~q.past /\ Ordered(buf, u) => Ordered(q.buf, u)
    BY <1>2 DEF Searches
  <2>2. q.at \in 0 .. Room + 1
    <3>1. q.at \in Int /\ q.buf \in Buffers(r)  BY <2>1
    <3> QED  BY <1>4, <3>1, AtFacts
  <2>3. NoNul(q.buf, 0, q.at)
    <3>1. \A j \in 0 .. q.at : j = q.at \/ j \in 0 .. q.at - 1  BY <2>2
    <3> QED  BY <1>4, <2>1, <3>1 DEF NoNul
  <2> DEFINE at == p.at + 1
  <2>4. at \in 0 .. Room + 2 /\ at - 1 = q.at  BY <1>2, <2>2
  <2> HIDE DEF at
  <2>5. next = [q EXCEPT !.at = at]  BY DEF at
  <2> HIDE DEF next
  <2>6. /\ next \in [buf : Buffers(r), at : 0 .. Room + 2, naws : BOOLEAN, past : BOOLEAN]
        /\ next.buf = q.buf /\ next.at = at /\ next.past = q.past
    BY <2>1, <2>4, <2>5
  <2> QED  BY <2>1, <2>3, <2>4, <2>6 DEF Searches
<1> HIDE DEF next
<1> QED  BY <1>2, <1>3, <1>4

LEMMA FoundFacts ==
  ASSUME NEW r \in Nat, NEW u \in Nat, NEW buf \in Buffers(r)
  PROVE  Found(buf) \in Searches(buf, u, r)
<1> USE ClientIOAssumption
<1> DEFINE n == Room + 2
           T == Searches(buf, u, r)
           a == [buf |-> buf, at |-> 0, naws |-> FALSE, past |-> FALSE]
           step == [p \in T |-> Search(p)]
           Is(f) == f = [i \in 0 .. n |-> IF i = 0 THEN a ELSE Search(f[i - 1])]
<1>1. n \in Nat /\ a \in T
  <2>1. NoNul(buf, 0, -1)
    <3>1. 0 .. -1 = {}  OBVIOUS
    <3> QED  BY <3>1 DEF NoNul
  <2>2. 0 \in 0 .. Room + 2 /\ 0 - 1 = -1  OBVIOUS
  <2> QED  BY <2>1, <2>2 DEF Searches
<1>2. \A p \in T : Search(p) \in T  BY SearchFacts
<1> HIDE DEF n, T, a
<1>3. \E f : Is(f)
  <2>1. step \in [T -> T]  BY <1>2
  <2>2. PICK f : f \in [0 .. n -> T] /\ f = [i \in 0 .. n |-> IF i = 0 THEN a ELSE step[f[i - 1]]]
    <3> HIDE DEF step, Is
    <3>1. \E f : Loop(f, n, T, a, step)  BY <1>1, <2>1, LoopExists
    <3> QED  BY <3>1 DEF Loop
  <2>3. ASSUME NEW i \in 0 .. n, i # 0 PROVE step[f[i - 1]] = Search(f[i - 1])
    <3>1. i - 1 \in 0 .. n  BY <1>1, <2>3
    <3> QED  BY <2>2, <3>1
  <2>4. f = [i \in 0 .. n |-> IF i = 0 THEN a ELSE Search(f[i - 1])]
    <3> HIDE DEF step
    <3> QED  BY <2>2, <2>3
  <2> QED  BY <2>4
<1> DEFINE g == CHOOSE f : Is(f)
<1>4. Is(g)
  <2> HIDE DEF Is
  <2> QED  BY <1>3
<1>5. Found(buf) = g[n]  BY DEF Found, n, a
<1> HIDE DEF g
<1>6. \A i \in 0 .. n : g[i] = IF i = 0 THEN a ELSE Search(g[i - 1])  BY <1>4
<1> DEFINE U == {i \in 0 .. n : g[i] \in T}
<1>7. 0 \in U  BY <1>1, <1>6
<1>8. \A i \in 1 .. n : i - 1 \in U => i \in U
  <2> SUFFICES ASSUME NEW i \in 1 .. n, i - 1 \in U PROVE i \in U  OBVIOUS
  <2>1. i \in 0 .. n /\ i # 0 /\ g[i - 1] \in T  BY <1>1
  <2> QED  BY <1>2, <1>6, <2>1
<1>9. n \in U
  <2> HIDE DEF U
  <2>1. 0 .. n \subseteq U  BY <1>1, <1>7, <1>8, Upwards
  <2> QED  BY <1>1, <2>1
<1> QED  BY <1>5, <1>9 DEF T

-----------------------------------------------------------------------------
(* Lines.                                                                  *)

\* A line that the search has found ends before any NUL.
LEMMA LineEndFacts ==
  ASSUME NEW r \in Nat, NEW buf \in Buffers(r), NEW at \in 0 .. Room + 2,
         NoNul(buf, 0, at - 1), K(buf, at) \in Ends
  PROVE  LineEnd(buf) \in 0 .. Room + 1 /\ K(buf, LineEnd(buf)) \in Ends /\ NoNul(buf, 0, LineEnd(buf))
<1> USE ClientIOAssumption
<1> DEFINE S == {i \in 0 .. Room + 1 : K(buf, i) \in Ends}
           Is(i) == K(buf, i) \in Ends /\ \A j \in 0 .. i - 1 : K(buf, j) \notin Ends
           e == CHOOSE i \in DOMAIN buf : Is(i)
<1>1. DOMAIN buf = 0 .. Room + 1  BY DEF Buffers
<1>2. at \in S
  <2>1. at \in Int  OBVIOUS
  <2>2. K(buf, at) # "NUL"  BY DEF Ends
  <2>3. at \in 0 .. Room + 1  BY <2>1, <2>2, AtFacts
  <2> QED  BY <2>3
<1>3. PICK m \in S : \A k \in S : m <= k
  <2>1. S \in SUBSET Nat  OBVIOUS
  <2> HIDE DEF S
  <2> QED  BY <1>2, <2>1, LeastNat
<1>4. Is(m)
  <2>1. ASSUME NEW j \in 0 .. m - 1 PROVE K(buf, j) \notin Ends
    <3>1. j \in 0 .. Room + 1 /\ ~ (m <= j)  OBVIOUS
    <3> QED  BY <1>3, <3>1
  <2> QED  BY <1>3, <2>1
<1>5. e \in DOMAIN buf /\ Is(e)
  <2>1. m \in DOMAIN buf  BY <1>1, <1>3
  <2> HIDE DEF Is
  <2> QED  BY <1>4, <2>1
<1>6. e = LineEnd(buf)  BY DEF LineEnd
<1> HIDE DEF e
<1>7. NoNul(buf, 0, e)
  <2> SUFFICES ASSUME NEW j \in 0 .. e PROVE K(buf, j) # "NUL"  BY DEF NoNul
  <2>1. e <= at
    <3> SUFFICES ASSUME at < e PROVE FALSE  BY <1>1, <1>5
    <3>1. at \in 0 .. e - 1  BY <1>1, <1>5
    <3> QED  BY <1>5, <3>1
  <2>2. j \in 0 .. at - 1 \/ j = at  BY <1>1, <1>5, <2>1
  <2>3. K(buf, at) # "NUL"  BY DEF Ends
  <2> QED  BY <2>2, <2>3 DEF NoNul
<1> QED  BY <1>1, <1>5, <1>6, <1>7

\* s is made of bytes before the i-th, in their order and after the u-th sent.
Chars(s, buf, u, i) ==
  \A a \in DOMAIN s :
    /\ \E j \in 0 .. i - 1 : s[a] = buf[j]
    /\ u < s[a][2]
    /\ \A b \in 1 .. a - 1 : s[b][2] < s[a][2]

LEMMA TypedFacts ==
  ASSUME NEW r \in Nat, NEW s \in Seq(Bytes(r)), NEW byte \in Bytes(r)
  PROVE  /\ Typed(s, byte) \in Seq(Bytes(r))
         /\ \/ Typed(s, byte) = Append(s, byte)
            \/ /\ DOMAIN Typed(s, byte) \subseteq DOMAIN s
               /\ \A a \in DOMAIN Typed(s, byte) : Typed(s, byte)[a] = s[a]
<1> DEFINE E == Bytes(r)
<1>1. CASE byte[1] = "BS"
  <2>1. CASE s = <<>>  BY <1>1, <2>1 DEF Typed
  <2>2. CASE s # <<>>
    <3>1. Typed(s, byte) = SubSeq(s, 1, Len(s) - 1)  BY <1>1, <2>2 DEF Typed, Front
    <3>2. /\ SubSeq(s, 1, Len(s) - 1) \in Seq(E)
          /\ DOMAIN SubSeq(s, 1, Len(s) - 1) \subseteq DOMAIN s
          /\ \A a \in DOMAIN SubSeq(s, 1, Len(s) - 1) : SubSeq(s, 1, Len(s) - 1)[a] = s[a]
      <4> HIDE DEF E
      <4>1. s \in Seq(E)  BY DEF E
      <4>2. Len(s) \in Nat /\ Len(s) # 0  BY <2>2, <4>1
      <4> QED  BY <2>2, <4>1, <4>2
    <3> QED  BY <3>1, <3>2
  <2> QED  BY <2>1, <2>2
<1>2. CASE byte[1] # "BS"
  <2>1. Typed(s, byte) = s \/ Typed(s, byte) = Append(s, byte)  BY <1>2 DEF Typed
  <2>2. Append(s, byte) \in Seq(E)
    <3> HIDE DEF E
    <3>1. s \in Seq(E) /\ byte \in E  BY DEF E
    <3> QED  BY <3>1
  <2> QED  BY <2>1, <2>2
<1> QED  BY <1>1, <1>2

LEMMA CharsStep ==
  ASSUME NEW r \in Nat, NEW u \in Nat, NEW buf \in Buffers(r), NEW s \in Seq(Bytes(r)),
         NEW i \in 0 .. Room + 1, NoNul(buf, 0, i), Ordered(buf, u), Chars(s, buf, u, i)
  PROVE  Chars(Typed(s, buf[i]), buf, u, i + 1)
<1> USE ClientIOAssumption
<1> DEFINE t == Typed(s, buf[i])
           E == Bytes(r)
<1>1. buf[i] \in E  BY DEF Buffers
<1>2. /\ t \in Seq(E)
      /\ \/ t = Append(s, buf[i])
         \/ DOMAIN t \subseteq DOMAIN s /\ \A a \in DOMAIN t : t[a] = s[a]
  <2> DEFINE byte == buf[i]
  <2>1. byte \in Bytes(r)  BY <1>1
  <2> HIDE DEF byte
  <2>2. /\ Typed(s, byte) \in Seq(Bytes(r))
        /\ \/ Typed(s, byte) = Append(s, byte)
           \/ /\ DOMAIN Typed(s, byte) \subseteq DOMAIN s
              /\ \A a \in DOMAIN Typed(s, byte) : Typed(s, byte)[a] = s[a]
    BY <2>1, TypedFacts
  <2> QED  BY <2>2 DEF byte
<1>3. \A a \in DOMAIN s :
        /\ \E j \in 0 .. i - 1 : s[a] = buf[j]
        /\ u < s[a][2]
        /\ \A b \in 1 .. a - 1 : s[b][2] < s[a][2]
  BY DEF Chars
<1>4. s \in Seq(E) /\ Len(s) \in Nat /\ DOMAIN s = 1 .. Len(s)
  <2>1. s \in Seq(E)  OBVIOUS
  <2> HIDE DEF E
  <2> QED  BY <2>1
<1>5. \A j \in 0 .. i - 1 : j \in 0 .. (i + 1) - 1  OBVIOUS
<1> HIDE DEF t, E
<1>6. CASE t = Append(s, buf[i])
  <2> DEFINE n == Len(s) + 1
  <2>1. DOMAIN t = 1 .. n /\ t[n] = buf[i] /\ \A a \in DOMAIN s : t[a] = s[a]  BY <1>1, <1>4, <1>6
  <2>2. u < buf[i][2] /\ \A j \in 0 .. i - 1 : buf[j][2] < buf[i][2]  BY DEF Ordered
  <2>3. ASSUME NEW a \in DOMAIN t
        PROVE  /\ \E j \in 0 .. (i + 1) - 1 : t[a] = buf[j]
               /\ u < t[a][2]
               /\ \A b \in 1 .. a - 1 : t[b][2] < t[a][2]
    <3>1. CASE a \in DOMAIN s
      <4>1. t[a] = s[a] /\ \A b \in 1 .. a - 1 : b \in DOMAIN s /\ t[b] = s[b]  BY <1>4, <2>1, <3>1
      <4> QED  BY <1>3, <1>5, <3>1, <4>1
    <3>2. CASE a \notin DOMAIN s
      <4>1. a = n  BY <1>4, <2>1, <3>2
      <4>2. \A b \in 1 .. a - 1 : b \in DOMAIN s /\ t[b] = s[b]  BY <1>4, <2>1, <4>1
      <4>3. i \in 0 .. (i + 1) - 1  OBVIOUS
      <4>4. \A b \in 1 .. a - 1 : t[b][2] < t[a][2]
        <5> SUFFICES ASSUME NEW b \in 1 .. a - 1 PROVE t[b][2] < t[a][2]  OBVIOUS
        <5>1. PICK j \in 0 .. i - 1 : s[b] = buf[j]  BY <1>3, <4>2
        <5> QED  BY <2>1, <2>2, <4>1, <4>2, <5>1
      <4> QED  BY <2>1, <2>2, <4>1, <4>3, <4>4
    <3> QED  BY <3>1, <3>2
  <2> QED  BY <2>3 DEF Chars, t
<1>7. CASE DOMAIN t \subseteq DOMAIN s /\ \A a \in DOMAIN t : t[a] = s[a]
  <2>1. Len(t) \in Nat /\ DOMAIN t = 1 .. Len(t)  BY <1>2
  <2>2. ASSUME NEW a \in DOMAIN t
        PROVE  /\ \E j \in 0 .. (i + 1) - 1 : t[a] = buf[j]
               /\ u < t[a][2]
               /\ \A b \in 1 .. a - 1 : t[b][2] < t[a][2]
    <3>1. \A b \in 1 .. a - 1 : b \in DOMAIN t  BY <2>1
    <3> QED  BY <1>3, <1>5, <1>7, <3>1
  <2> QED  BY <2>2 DEF Chars, t
<1> QED  BY <1>2, <1>6, <1>7

LEMMA LineFacts ==
  ASSUME NEW r \in Nat, NEW u \in Nat, NEW buf \in Buffers(r),
         LineEnd(buf) \in 0 .. Room + 1, NoNul(buf, 0, LineEnd(buf))
  PROVE  /\ Line(buf) \in Seq(Bytes(r))
         /\ Ordered(buf, u) => Chars(Line(buf), buf, u, LineEnd(buf))
<1> USE ClientIOAssumption
<1> DEFINE n == LineEnd(buf)
           T == Seq(Bytes(r))
           step == [p \in T \X (1 .. n) |-> Typed(p[1], buf[p[2] - 1])]
           Is(f) == f = [i \in 0 .. n |-> IF i = 0 THEN <<>> ELSE Typed(f[i - 1], buf[i - 1])]
<1>1. n \in Nat /\ n <= Room + 1 /\ <<>> \in T /\ NoNul(buf, 0, n)  OBVIOUS
<1>2. \A s \in T, i \in 1 .. n : buf[i - 1] \in Bytes(r) /\ Typed(s, buf[i - 1]) \in T
  <2> SUFFICES ASSUME NEW s \in T, NEW i \in 1 .. n
               PROVE  buf[i - 1] \in Bytes(r) /\ Typed(s, buf[i - 1]) \in T
    OBVIOUS
  <2>1. i - 1 \in 0 .. Room + 1  BY <1>1
  <2>2. buf[i - 1] \in Bytes(r)  BY <2>1 DEF Buffers
  <2> QED  BY <2>2, TypedFacts
<1> HIDE DEF n, T
<1>3. \E f : Is(f)
  <2>1. step \in [T \X (1 .. n) -> T]
    <3>1. ASSUME NEW p \in T \X (1 .. n) PROVE Typed(p[1], buf[p[2] - 1]) \in T
      <4>1. p[1] \in T /\ p[2] \in 1 .. n  OBVIOUS
      <4> QED  BY <1>2, <4>1
    <3> QED  BY <3>1
  <2>2. PICK f : f \in [0 .. n -> T] /\ f[0] = <<>> /\ \A i \in 1 .. n : f[i] = step[<<f[i - 1], i>>]
    <3> HIDE DEF step, Is
    <3>1. \E f : Steps(f, n, T, <<>>, step)  BY <1>1, <2>1, StepsExist
    <3> QED  BY <3>1 DEF Steps
  <2>3. \A i \in 1 .. n : f[i] = Typed(f[i - 1], buf[i - 1])
    <3> SUFFICES ASSUME NEW i \in 1 .. n PROVE f[i] = Typed(f[i - 1], buf[i - 1])  OBVIOUS
    <3>1. i - 1 \in 0 .. n  BY <1>1
    <3>2. <<f[i - 1], i>> \in T \X (1 .. n)  BY <2>2, <3>1
    <3>3. step[<<f[i - 1], i>>] = Typed(f[i - 1], buf[i - 1])  BY <3>2
    <3> HIDE DEF step
    <3> QED  BY <2>2, <3>3
  <2>4. f = [i \in 0 .. n |-> IF i = 0 THEN <<>> ELSE Typed(f[i - 1], buf[i - 1])]
    <3> HIDE DEF step
    <3>1. \A i \in 0 .. n : i # 0 => i \in 1 .. n  BY <1>1
    <3>2. \A i \in 0 .. n : f[i] = IF i = 0 THEN <<>> ELSE Typed(f[i - 1], buf[i - 1])
      BY <2>2, <2>3, <3>1
    <3> QED  BY <2>2, <3>2
  <2> QED  BY <2>4
<1> DEFINE g == CHOOSE f : Is(f)
<1>4. Is(g)
  <2> HIDE DEF Is
  <2> QED  BY <1>3
<1>5. Line(buf) = g[n]  BY DEF Line, n
<1> HIDE DEF g
<1>6. \A i \in 0 .. n : g[i] = IF i = 0 THEN <<>> ELSE Typed(g[i - 1], buf[i - 1])  BY <1>4
<1> DEFINE U == {i \in 0 .. n : g[i] \in T /\ (Ordered(buf, u) => Chars(g[i], buf, u, i))}
<1>7. 0 \in U
  <2>1. g[0] = <<>> /\ 0 \in 0 .. n  BY <1>1, <1>6
  <2>2. Chars(<<>>, buf, u, 0)  BY DEF Chars
  <2> QED  BY <1>1, <2>1, <2>2
<1>8. \A i \in 1 .. n : i - 1 \in U => i \in U
  <2> SUFFICES ASSUME NEW i \in 1 .. n, i - 1 \in U PROVE i \in U  OBVIOUS
  <2> DEFINE k == i - 1
  <2>1. i \in 0 .. n /\ i # 0 /\ k \in 0 .. Room + 1 /\ k + 1 = i /\ k <= n  BY <1>1
  <2>2. g[k] \in T /\ (Ordered(buf, u) => Chars(g[k], buf, u, k)) /\ g[i] = Typed(g[k], buf[k])
    BY <1>6, <2>1
  <2>3. NoNul(buf, 0, k)
    <3>1. \A j \in 0 .. k : j \in 0 .. n  BY <1>1, <2>1
    <3> QED  BY <1>1, <3>1 DEF NoNul
  <2>4. g[i] \in T  BY <1>2, <2>2
  <2> HIDE DEF k
  <2>5. Ordered(buf, u) => Chars(g[i], buf, u, i)
    <3> SUFFICES ASSUME Ordered(buf, u) PROVE Chars(g[i], buf, u, i)  OBVIOUS
    <3> DEFINE s == g[k]
    <3>1. s \in Seq(Bytes(r)) /\ Chars(s, buf, u, k)  BY <2>2 DEF T
    <3> HIDE DEF s
    <3>2. Chars(Typed(s, buf[k]), buf, u, k + 1)  BY <2>1, <2>3, <3>1, CharsStep
    <3> QED  BY <2>1, <2>2, <3>2 DEF s
  <2> QED  BY <2>1, <2>4, <2>5
<1>9. n \in U
  <2> HIDE DEF U
  <2>1. 0 .. n \subseteq U  BY <1>1, <1>7, <1>8, Upwards
  <2> QED  BY <1>1, <2>1
<1> QED  BY <1>5, <1>9 DEF T, n

\* The last byte that was in a command, after a line.
After(chars, u) == IF chars = <<>> THEN u ELSE Last(chars)[2]

LEMMA AfterFacts ==
  ASSUME NEW r \in Nat, NEW u \in 0 .. r, NEW s \in Seq(Bytes(r))
  PROVE  /\ After(s, u) \in 0 .. r
         /\ After(s, u) = u \/ \E a \in DOMAIN s : After(s, u) = s[a][2]
<1>1. CASE s = <<>>  BY <1>1 DEF After
<1>2. CASE s # <<>>
  <2> DEFINE E == Bytes(r)
             n == Len(s)
  <2>1. n \in DOMAIN s /\ s[n] \in E
    <3> HIDE DEF E
    <3>1. s \in Seq(E)  BY DEF E
    <3>2. Len(s) \in Nat /\ Len(s) # 0  BY <1>2, <3>1
    <3> QED  BY <3>1, <3>2
  <2>2. After(s, u) = s[n][2]  BY <1>2 DEF After, Last
  <2> HIDE DEF n
  <2>3. s[n][2] \in 0 .. r  BY <2>1 DEF Bytes
  <2> QED  BY <2>1, <2>2, <2>3
<1> QED  BY <1>1, <1>2

\* What is left after a line is in order, and later than the line.
LEMMA RestFacts ==
  ASSUME NEW r \in Nat, NEW u \in 0 .. r, NEW buf \in Buffers(r),
         LineEnd(buf) \in 0 .. Room + 1, K(buf, LineEnd(buf)) \in Ends, NoNul(buf, 0, LineEnd(buf))
  PROVE  /\ Rest(buf) \in Buffers(r)
         /\ Ordered(buf, u) => Ordered(Rest(buf), After(Line(buf), u))
<1> USE ClientIOAssumption
<1> DEFINE e == LineEnd(buf)
           i == IF {K(buf, e), K(buf, e + 1)} = Ends THEN e + 2 ELSE e + 1
           new == Moved(buf, 0, i)
           v == After(Line(buf), u)
<1>1. Rest(buf) = new  BY DEF Rest
<1>2. i \in e + 1 .. Room + 3 /\ e \in 0 .. Room + 1 /\ NoNul(buf, 0, e)  OBVIOUS
<1>3. \A j \in 0 .. i - 1 : K(buf, j) # "NUL"
  <2>1. CASE {K(buf, e), K(buf, e + 1)} = Ends
    <3>1. K(buf, e + 1) # "NUL"  BY <2>1 DEF Ends
    <3>2. \A j \in 0 .. i - 1 : j = e + 1 \/ j \in 0 .. e  BY <2>1
    <3> QED  BY <1>2, <3>1, <3>2 DEF NoNul
  <2>2. CASE {K(buf, e), K(buf, e + 1)} # Ends
    <3>1. \A j \in 0 .. i - 1 : j \in 0 .. e  BY <2>2
    <3> QED  BY <1>2, <3>1 DEF NoNul
  <2> QED  BY <2>1, <2>2
<1>4. Line(buf) \in Seq(Bytes(r)) /\ (Ordered(buf, u) => Chars(Line(buf), buf, u, e))
  <2>1. u \in Nat  OBVIOUS
  <2> QED  BY <2>1, LineFacts
<1> HIDE DEF e, i
<1>5. /\ new \in Buffers(r)
      /\ \A k \in 0 .. Room + 1 :
           NoNul(new, 0, k) =>
             k + i \in 0 .. Room + 1 /\ new[k] = buf[k + i] /\ NoNul(buf, i, k + i)
  <2>1. 0 \in 0 .. Room + 1 /\ i \in 0 .. Room + 3  BY <1>2
  <2>2. /\ new \in Buffers(r)
        /\ \A k \in 0 .. Room + 1 :
             NoNul(new, 0, k) =>
               k + i - 0 \in 0 .. Room + 1 /\ new[k] = buf[k + i - 0] /\ NoNul(buf, i, k + i - 0)
    BY <2>1, MovedFacts
  <2>3. \A k \in 0 .. Room + 1 : k + i - 0 = k + i  BY <2>1
  <2> QED  BY <2>2, <2>3
<1> HIDE DEF new
<1>6. ASSUME Ordered(buf, u) PROVE Ordered(new, v)
  <2>1. u < buf[e][2] /\ \A j \in 0 .. e - 1 : buf[j][2] < buf[e][2]  BY <1>2, <1>6 DEF Ordered
  <2>2. v \in 0 .. r /\ v < buf[e][2]
    <3> DEFINE s == Line(buf)
    <3>1. s \in Seq(Bytes(r)) /\ Chars(s, buf, u, e)  BY <1>4, <1>6
    <3> HIDE DEF s
    <3>2. After(s, u) \in 0 .. r /\ (After(s, u) = u \/ \E a \in DOMAIN s : After(s, u) = s[a][2])
      BY <3>1, AfterFacts
    <3>3. ASSUME NEW a \in DOMAIN s PROVE s[a][2] < buf[e][2]
      <4>1. PICK j \in 0 .. e - 1 : s[a] = buf[j]  BY <3>1 DEF Chars
      <4> QED  BY <2>1, <4>1
    <3> QED  BY <2>1, <3>2, <3>3 DEF s
  <2>3. ASSUME NEW k \in 0 .. Room + 1, NoNul(new, 0, k)
        PROVE  /\ k + i \in 0 .. Room + 1 /\ new[k] = buf[k + i] /\ buf[e][2] < buf[k + i][2]
               /\ \A j \in 0 .. k + i - 1 : buf[j][2] < buf[k + i][2]
    <3>1. k + i \in 0 .. Room + 1 /\ new[k] = buf[k + i] /\ NoNul(buf, i, k + i)  BY <1>5, <2>3
    <3>2. NoNul(buf, 0, k + i)
      <4> SUFFICES ASSUME NEW j \in 0 .. k + i PROVE K(buf, j) # "NUL"  BY DEF NoNul
      <4>1. j \in 0 .. i - 1 \/ j \in i .. k + i  BY <1>2
      <4> QED  BY <1>3, <3>1, <4>1 DEF NoNul
    <3>3. \A j \in 0 .. k + i - 1 : buf[j][2] < buf[k + i][2]
      <4> DEFINE m == k + i
      <4>1. m \in 0 .. Room + 1 /\ NoNul(buf, 0, m)  BY <3>1, <3>2
      <4> HIDE DEF m
      <4>2. \A j \in 0 .. m - 1 : buf[j][2] < buf[m][2]  BY <1>6, <4>1 DEF Ordered
      <4>3. m = k + i /\ m - 1 = k + i - 1  BY <1>2 DEF m
      <4> QED  BY <4>2, <4>3
    <3>4. e \in 0 .. k + i - 1  BY <1>2
    <3> QED  BY <3>1, <3>3, <3>4
  <2>4. \A k \in 0 .. Room + 1 : buf[k][2] \in Nat
    <3>1. \A k \in 0 .. Room + 1 : buf[k] \in Bytes(r)  BY DEF Buffers
    <3> QED  BY <3>1 DEF Bytes
  <2> HIDE DEF v
  <2>5. ASSUME NEW k \in 0 .. Room + 1, NoNul(new, 0, k)
        PROVE  v < new[k][2] /\ \A j \in 0 .. k - 1 : new[j][2] < new[k][2]
    <3>1. /\ k + i \in 0 .. Room + 1 /\ new[k] = buf[k + i] /\ buf[e][2] < buf[k + i][2]
          /\ \A j \in 0 .. k + i - 1 : buf[j][2] < buf[k + i][2]
      BY <2>3, <2>5
    <3>2. v < new[k][2]
      <4>1. v \in Nat /\ buf[e][2] \in Nat /\ buf[k + i][2] \in Nat  BY <1>2, <2>2, <2>4, <3>1
      <4> QED  BY <2>2, <3>1, <4>1
    <3>3. ASSUME NEW j \in 0 .. k - 1 PROVE new[j][2] < new[k][2]
      <4>1. j \in 0 .. Room + 1 /\ NoNul(new, 0, j)
        <5>1. \A l \in 0 .. j : l \in 0 .. k  OBVIOUS
        <5> QED  BY <2>5, <5>1 DEF NoNul
      <4>2. new[j] = buf[j + i]  BY <2>3, <4>1
      <4>3. j + i \in 0 .. k + i - 1  BY <1>2
      <4> QED  BY <3>1, <4>2, <4>3
    <3> QED  BY <3>2, <3>3
  <2> QED  BY <2>5 DEF Ordered
<1> QED  BY <1>1, <1>5, <1>6 DEF v

-----------------------------------------------------------------------------
(* Pages.                                                                  *)

LEMMA CharFacts ==
  ASSUME NEW text \in Texts, NEW p \in Nat
  PROVE  Len(text) \in Nat /\ (Char(text, p) = "NUL" <=> Len(text) <= p)
<1>1. text \in Seq({"x", "NL", "CR"})  BY ClientIOAssumption
<1>2. p < Len(text) => text[p + 1] \in {"x", "NL", "CR"}
  <2>1. p < Len(text) => p + 1 \in 1 .. Len(text)  BY <1>1
  <2> QED  BY <1>1, <2>1
<1> QED  BY <1>1, <1>2 DEF Char

\* Where a page ends: it has something when it may have a line.
LEMMA PageEndFacts ==
  ASSUME NEW text \in Texts, NEW p \in 0 .. Len(text), NEW lines \in Int
  PROVE  /\ PageEnd(text, p, lines) \in p .. Len(text)
         /\ lines > 0 /\ p < Len(text) => p < PageEnd(text, p, lines)
<1> DEFINE n == Len(text) + 1
           T == [at : p .. Len(text), toggle : BOOLEAN, lines : Int]
           a == [at |-> p, toggle |-> TRUE, lines |-> lines]
           step == [s \in T |-> Scan(text, s)]
           Is(f) == f = [i \in 0 .. n |-> IF i = 0 THEN a ELSE Scan(text, f[i - 1])]
<1>1. Len(text) \in Nat /\ n \in Nat /\ n # 0 /\ p \in Nat
  <2>1. Len(text) \in Nat  BY CharFacts
  <2> QED  BY <2>1
<1>2. a \in T /\ a.at = p /\ a.lines = lines  BY <1>1
<1>3. ASSUME NEW s \in T
      PROVE  /\ Scan(text, s) \in T /\ s.at <= Scan(text, s).at
             /\ s.at < Len(text) /\ s.lines > 0 => s.at < Scan(text, s).at
  <2> DEFINE end == Char(text, s.at) \in Ends
             next == [at |-> s.at + 1, toggle |-> s.toggle # end,
                      lines |-> IF end /\ s.toggle THEN s.lines - 1 ELSE s.lines]
             Stops == ~(end /\ s.toggle) /\ (Char(text, s.at) = "NUL" \/ s.lines <= 0)
  <2>1. s.at \in Nat /\ s.at <= Len(text) /\ s.lines \in Int /\ p <= s.at  BY <1>1
  <2>2. Char(text, s.at) = "NUL" <=> Len(text) <= s.at  BY <2>1, CharFacts
  <2>3. Scan(text, s) = IF Stops THEN s ELSE next  BY DEF Scan
  <2>4. ~Stops => s.at < Len(text)
    <3>1. end => Char(text, s.at) # "NUL"  BY DEF Ends
    <3> HIDE DEF end
    <3> QED  BY <1>1, <2>1, <2>2, <3>1
  <2>5. s.at < Len(text) => next \in T /\ next.at = s.at + 1
    <3>1. end \in BOOLEAN  OBVIOUS
    <3> HIDE DEF end
    <3> QED  BY <1>1, <2>1, <3>1
  <2>6. s.at < Len(text) /\ s.lines > 0 => ~Stops  BY <1>1, <2>1, <2>2
  <2> HIDE DEF Stops, next
  <2> QED  BY <1>1, <2>1, <2>3, <2>4, <2>5, <2>6
<1> HIDE DEF n, T, a
<1>4. \E f : Is(f)
  <2>1. step \in [T -> T]  BY <1>3
  <2>2. PICK f : f \in [0 .. n -> T] /\ f = [i \in 0 .. n |-> IF i = 0 THEN a ELSE step[f[i - 1]]]
    <3> HIDE DEF step, Is
    <3>1. \E f : Loop(f, n, T, a, step)  BY <1>1, <1>2, <2>1, LoopExists
    <3> QED  BY <3>1 DEF Loop
  <2>3. ASSUME NEW i \in 0 .. n, i # 0 PROVE step[f[i - 1]] = Scan(text, f[i - 1])
    <3>1. i - 1 \in 0 .. n  BY <1>1, <2>3
    <3> QED  BY <2>2, <3>1
  <2>4. f = [i \in 0 .. n |-> IF i = 0 THEN a ELSE Scan(text, f[i - 1])]
    <3> HIDE DEF step
    <3> QED  BY <2>2, <2>3
  <2> QED  BY <2>4
<1> DEFINE g == CHOOSE f : Is(f)
<1>5. Is(g)
  <2> HIDE DEF Is
  <2> QED  BY <1>4
<1>6. PageEnd(text, p, lines) = g[n].at  BY DEF PageEnd, n, a
<1> HIDE DEF g
<1>7. \A i \in 0 .. n : g[i] = IF i = 0 THEN a ELSE Scan(text, g[i - 1])  BY <1>5
<1> DEFINE U == {i \in 0 .. n : /\ g[i] \in T
                                /\ i # 0 /\ lines > 0 /\ p < Len(text) => p < g[i].at}
<1>8. 0 \in U  BY <1>1, <1>2, <1>7
<1>9. \A i \in 1 .. n : i - 1 \in U => i \in U
  <2> SUFFICES ASSUME NEW i \in 1 .. n, i - 1 \in U PROVE i \in U  OBVIOUS
  <2> DEFINE k == i - 1
             s == g[k]
  <2>1. i \in 0 .. n /\ i # 0 /\ k \in 0 .. n  BY <1>1
  <2>2. g[i] = Scan(text, s) /\ s \in T /\ (k # 0 /\ lines > 0 /\ p < Len(text) => p < s.at)
    BY <1>7, <2>1
  <2>3. k = 0 => s.at = p /\ s.lines = lines  BY <1>2, <1>7, <2>1
  <2> HIDE DEF s, k
  <2>4. /\ g[i] \in T /\ s.at <= g[i].at
        /\ s.at < Len(text) /\ s.lines > 0 => s.at < g[i].at
    BY <1>3, <2>2
  <2>5. s.at \in Nat /\ g[i].at \in Nat  BY <1>1, <2>2, <2>4 DEF T
  <2>6. lines > 0 /\ p < Len(text) => p < g[i].at  BY <1>1, <2>2, <2>3, <2>4, <2>5
  <2> QED  BY <2>1, <2>4, <2>6
<1>10. n \in U
  <2> HIDE DEF U
  <2>1. 0 .. n \subseteq U  BY <1>1, <1>8, <1>9, Upwards
  <2> QED  BY <1>1, <2>1
<1>11. g[n].at \in p .. Len(text)  BY <1>10 DEF T
<1> QED  BY <1>1, <1>6, <1>10, <1>11

LEMMA BackUpFacts ==
  ASSUME NEW text, NEW p \in Nat, NEW lines \in Int
  PROVE  BackUp(text, p, lines) \in 0 .. p
<1> DEFINE T == [at : 0 .. p, toggle : BOOLEAN, lines : Int]
           a == [at |-> p, toggle |-> TRUE, lines |-> lines]
           step == [s \in T |-> Back(text, s)]
           Is(f) == f = [i \in 0 .. p |-> IF i = 0 THEN a ELSE Back(text, f[i - 1])]
<1>1. a \in T  OBVIOUS
<1>2. ASSUME NEW s \in T PROVE Back(text, s) \in T
  <2> DEFINE end == Char(text, s.at) \in Ends
             next == [at |-> s.at - 1, toggle |-> s.toggle # end,
                      lines |-> IF end /\ s.toggle THEN s.lines - 1 ELSE s.lines]
  <2>1. Back(text, s) = IF s.at = 0 \/ (end /\ s.toggle /\ s.lines = 1) THEN s ELSE next  BY DEF Back
  <2>2. end \in BOOLEAN  OBVIOUS
  <2> HIDE DEF end
  <2>3. s.at # 0 => next \in T  BY <2>2
  <2> QED  BY <2>1, <2>3
<1> HIDE DEF T, a
<1>3. \E f : Is(f)
  <2>1. step \in [T -> T]  BY <1>2
  <2>2. PICK f : f \in [0 .. p -> T] /\ f = [i \in 0 .. p |-> IF i = 0 THEN a ELSE step[f[i - 1]]]
    <3> HIDE DEF step, Is
    <3>1. \E f : Loop(f, p, T, a, step)  BY <1>1, <2>1, LoopExists
    <3> QED  BY <3>1 DEF Loop
  <2>3. ASSUME NEW i \in 0 .. p, i # 0 PROVE step[f[i - 1]] = Back(text, f[i - 1])
    <3>1. i - 1 \in 0 .. p  BY <2>3
    <3> QED  BY <2>2, <3>1
  <2>4. f = [i \in 0 .. p |-> IF i = 0 THEN a ELSE Back(text, f[i - 1])]
    <3> HIDE DEF step
    <3> QED  BY <2>2, <2>3
  <2> QED  BY <2>4
<1> DEFINE g == CHOOSE f : Is(f)
<1>4. Is(g)
  <2> HIDE DEF Is
  <2> QED  BY <1>3
<1>5. BackUp(text, p, lines) = g[p].at  BY DEF BackUp, a
<1> HIDE DEF g
<1>6. \A i \in 0 .. p : g[i] = IF i = 0 THEN a ELSE Back(text, g[i - 1])  BY <1>4
<1> DEFINE U == {i \in 0 .. p : g[i] \in T}
<1>7. 0 \in U  BY <1>1, <1>6
<1>8. \A i \in 1 .. p : i - 1 \in U => i \in U
  <2> SUFFICES ASSUME NEW i \in 1 .. p, i - 1 \in U PROVE i \in U  OBVIOUS
  <2>1. i \in 0 .. p /\ i # 0 /\ g[i - 1] \in T  OBVIOUS
  <2> QED  BY <1>2, <1>6, <2>1
<1>9. p \in U
  <2> HIDE DEF U
  <2>1. 0 .. p \subseteq U  BY <1>7, <1>8, Upwards
  <2> QED  BY <2>1
<1> QED  BY <1>5, <1>9 DEF T

-----------------------------------------------------------------------------
(* The inductive invariant.                                                *)

Received == sent - Len(wire)

\* What is on the wire is what was sent and not received, and what is in the buffer
\* up to its first NUL is in order and was in no command yet.
InputInv ==
  /\ sent \in 0 .. MaxSent
  /\ wire \in Seq(STRING \X Nat) /\ Len(wire) <= sent
  /\ \A i \in DOMAIN wire : wire[i][2] = Received + i
  /\ inbuf \in Buffers(Received)
  /\ upto \in 0 .. Received
  /\ ~overran => Ordered(inbuf, upto)

\* A command came at most once more in a row than was counted; after quit either the
\* client leaves, or the pager took it as any key and ended.
CountInv ==
  /\ repeat \in 0 .. Limit - 1 /\ row \in Nat /\ row <= Limit
  /\ handler => row <= repeat + 1 /\ (last = Quit => showstr = Nothing /\ row <= 1)

\* The pager stands where the last page ended, and has something to show from there.
PagerInv ==
  /\ showstr # Nothing =>
       /\ showstr.text \in Texts /\ showstr.point \in 0 .. Len(showstr.text)
       /\ \E q \in showstr.point .. Len(showstr.text) - 1 : Char(showstr.text, q) \notin Ends
  /\ showstr # Nothing /\ shown # Nothing => showstr.point = shown.to
  /\ shown # Nothing => shown \in Page

RestInv ==
  /\ handler \in BOOLEAN /\ fCommand \in BOOLEAN /\ overran \in BOOLEAN
  /\ scrHeight \in Heights /\ outtop \in 0 .. OutMax /\ turn \in {"input", "output"}
  /\ lost \in {"no", "freed", "stack"}

ClientInv == InputInv /\ CountInv /\ PagerInv /\ RestInv

LEMMA InvType == ASSUME ClientInv PROVE SpamStops
<1>1. sent \in Nat /\ Received \in Int /\ Received <= sent
  <2>1. Len(wire) \in Nat  BY DEF ClientInv, InputInv
  <2> QED  BY <2>1, ClientIOAssumption DEF ClientInv, InputInv, Received
<1>2. upto \in 0 .. sent  BY <1>1 DEF ClientInv, InputInv
<1>3. DOMAIN inbuf = 0 .. Room + 1  BY DEF ClientInv, InputInv, Buffers
<1> QED  BY <1>2, <1>3 DEF ClientInv, InputInv, CountInv, PagerInv, RestInv, ClientTypeOK, SpamStops

\* A new connection, with nothing received.
LEMMA EmptyFacts == Empty \in Buffers(0) /\ \A u \in Nat : Ordered(Empty, u)
<1> USE ClientIOAssumption
<1>1. Nul \in Bytes(0)
  <2>1. 0 \in 0 .. 0 /\ "NUL" \in STRING \cup {"NUL"}  OBVIOUS
  <2> QED  BY <2>1 DEF Nul, Bytes
<1>2. Empty \in Buffers(0)  BY <1>1 DEF Empty, Buffers
<1>3. K(Empty, 0) = "NUL"
  <2>1. 0 \in Int /\ 0 \in Nat /\ 0 \in 0 .. Room + 1  OBVIOUS
  <2>2. K(Empty, 0) = Empty[0][1]  BY <1>2, <2>1, AtFacts
  <2>3. Empty[0] = Nul  BY <2>1 DEF Empty
  <2> QED  BY <2>2, <2>3 DEF Nul
<1>4. ASSUME NEW k \in 0 .. Room + 1 PROVE ~NoNul(Empty, 0, k)
  <2>1. 0 \in 0 .. k  OBVIOUS
  <2> QED  BY <1>3, <2>1 DEF NoNul
<1> QED  BY <1>2, <1>4 DEF Ordered

LEMMA NewInput ==
  ASSUME wire = <<>>, sent = 0, inbuf = Empty, upto = 0
  PROVE  InputInv
<1>1. wire \in Seq(STRING \X Nat) /\ Len(wire) = 0 /\ DOMAIN wire = {}  OBVIOUS
<1>2. Received = 0
  <2>1. Received = 0 - 0  BY <1>1 DEF Received
  <2> QED  BY <2>1
<1> QED  BY <1>1, <1>2, EmptyFacts, ClientIOAssumption DEF InputInv

LEMMA InitInv == ASSUME ClientInit PROVE ClientInv
<1>1. InputInv  BY NewInput DEF ClientInit
<1>2. CountInv  BY ClientIOAssumption DEF ClientInit, CountInv, Quit
<1>3. PagerInv  BY DEF ClientInit, PagerInv
<1>4. RestInv
  <2>1. 1 \in 0 .. OutMax  BY ClientIOAssumption
  <2>2. /\ outtop \in 0 .. OutMax /\ scrHeight \in Heights
        /\ turn \in {"input", "output"} /\ lost \in {"no", "freed", "stack"}
    BY <2>1 DEF ClientInit
  <2>3. handler \in BOOLEAN /\ fCommand \in BOOLEAN /\ overran \in BOOLEAN  BY Zenon DEF ClientInit
  <2> QED  BY <2>2, <2>3 DEF RestInv
<1> QED  BY <1>1, <1>2, <1>3, <1>4 DEF ClientInv

LEMMA ClosesInv == ASSUME Closes PROVE ClientInv'
<1>1. InputInv'
  <2>1. wire' \in Seq(STRING \X Nat) /\ Len(wire') = 0 /\ DOMAIN wire' = {}  BY DEF Closes
  <2>2. Received' = 0
    <3>1. Received' = sent' - Len(wire') /\ sent' = 0  BY DEF Received, Closes
    <3> QED  BY <2>1, <3>1
  <2>3. Empty \in Buffers(0) /\ Ordered(Empty, 0)  BY EmptyFacts
  <2> QED  BY <2>1, <2>2, <2>3, ClientIOAssumption DEF InputInv, Closes
<1>2. CountInv'  BY ClientIOAssumption DEF Closes, CountInv, Quit
<1>3. PagerInv'  BY DEF Closes, PagerInv
<1>4. RestInv'
  <2>1. 1 \in 0 .. OutMax  BY ClientIOAssumption
  <2>2. /\ outtop' \in 0 .. OutMax /\ scrHeight' \in Heights
        /\ turn' \in {"input", "output"} /\ lost' \in {"no", "freed", "stack"}
    BY <2>1 DEF Closes
  <2>3. handler' \in BOOLEAN /\ fCommand' \in BOOLEAN /\ overran' \in BOOLEAN  BY Zenon DEF Closes
  <2> QED  BY <2>2, <2>3 DEF RestInv
<1> QED  BY <1>1, <1>2, <1>3, <1>4 DEF ClientInv

LEMMA SendInv == ASSUME ClientInv, Send PROVE ClientInv'
<1> USE ClientIOAssumption DEF ClientInv
<1>1. PICK p \in Pieces :
        /\ sent + Len(p) <= MaxSent
        /\ wire' = wire \o [i \in DOMAIN p |-> <<p[i], sent + i>>]
        /\ sent' = sent + Len(p)
        /\ UNCHANGED <<inbuf, last, repeat, command, upto, overran, row, output, handler, fCommand, turn>>
  BY DEF Send
<1> DEFINE more == [i \in DOMAIN p |-> <<p[i], sent + i>>]
           E == STRING \X Nat
<1>2. p \in Seq(STRING) /\ Len(p) \in Nat /\ DOMAIN p = 1 .. Len(p)  OBVIOUS
<1>3. wire \in Seq(E) /\ Len(wire) \in Nat /\ DOMAIN wire = 1 .. Len(wire) /\ sent \in Nat  BY DEF InputInv
<1>4. more \in Seq(E) /\ Len(more) = Len(p)
  <2>1. \A i \in 1 .. Len(p) : <<p[i], sent + i>> \in E  BY <1>2, <1>3
  <2>2. more \in [1 .. Len(p) -> E]  BY <1>2, <2>1
  <2> HIDE DEF more, E
  <2> QED  BY <1>2, <2>2, SeqFrom
<1>5. \A i \in 1 .. Len(p) : more[i][2] = sent + i  BY <1>2
<1> HIDE DEF more, E
<1>6. /\ wire' \in Seq(E) /\ Len(wire') = Len(wire) + Len(p)
      /\ DOMAIN wire' = 1 .. Len(wire) + Len(p)
      /\ \A i \in 1 .. Len(wire) + Len(p) : wire'[i] = IF i <= Len(wire) THEN wire[i] ELSE more[i - Len(wire)]
  BY <1>1, <1>2, <1>3, <1>4 DEF more
<1>7. Received' = Received  BY <1>1, <1>2, <1>3, <1>6 DEF Received
<1>8. ASSUME NEW i \in DOMAIN wire' PROVE wire'[i][2] = Received' + i
  <2>1. CASE i <= Len(wire)
    <3>1. i \in DOMAIN wire  BY <1>3, <1>6, <2>1
    <3>2. wire[i][2] = Received + i  BY <3>1 DEF InputInv
    <3> QED  BY <1>6, <1>7, <2>1, <3>2
  <2>2. CASE ~ (i <= Len(wire))
    <3> DEFINE k == i - Len(wire)
    <3>1. k \in 1 .. Len(p) /\ wire'[i] = more[k]  BY <1>2, <1>3, <1>6, <2>2
    <3>2. more[k][2] = sent + k
      <4> HIDE DEF k
      <4> QED  BY <1>5, <3>1
    <3>3. Received + i = sent + k /\ i \in Int  BY <1>2, <1>3, <1>6 DEF Received
    <3> QED  BY <1>7, <3>1, <3>2, <3>3
  <2> QED  BY <2>1, <2>2
<1>9. InputInv'
  <2>1. /\ wire' \in Seq(STRING \X Nat) /\ Len(wire') <= sent' /\ sent' \in 0 .. MaxSent
    BY <1>1, <1>2, <1>3, <1>6 DEF E, InputInv
  <2>2. inbuf' \in Buffers(Received') /\ upto' \in 0 .. Received' /\ (~overran' => Ordered(inbuf', upto'))
    BY <1>1, <1>7 DEF InputInv
  <2> QED  BY <1>8, <2>1, <2>2 DEF InputInv
<1>10. CountInv' /\ PagerInv' /\ RestInv'
  BY <1>1 DEF CountInv, PagerInv, RestInv, output
<1> QED  BY <1>9, <1>10

\* What the search goes over: the buffer as it was, or what was read.
Input(n) == IF n = 0 THEN inbuf ELSE Read(n)

LEMMA ReadFacts ==
  ASSUME ClientInv, NEW n \in 0 .. Len(wire), n <= Room, wire' = SubSeq(wire, n + 1, Len(wire)), UNCHANGED sent
  PROVE  /\ wire' \in Seq(STRING \X Nat) /\ Len(wire') <= sent'
         /\ Received' = Received + n /\ Received \in Nat
         /\ \A i \in DOMAIN wire' : wire'[i][2] = Received' + i
         /\ Input(n) \in Buffers(Received + n)
         /\ ~overran => Ordered(Input(n), upto)
<1> USE ClientIOAssumption DEF ClientInv
<1> DEFINE r == Received
           E == STRING \X Nat
           L == Len(wire)
<1>1. /\ wire \in Seq(E) /\ L \in Nat /\ DOMAIN wire = 1 .. L /\ sent \in Nat /\ L <= sent
      /\ \A i \in 1 .. L : wire[i] \in E
  <2>1. wire \in Seq(E)  BY DEF InputInv
  <2>2. L \in Nat /\ DOMAIN wire = 1 .. L /\ \A i \in 1 .. L : wire[i] \in E
    <3> HIDE DEF E
    <3> QED  BY <2>1
  <2> QED  BY <2>1, <2>2 DEF InputInv
<1>2. r \in Nat /\ r + L = sent /\ n \in Nat /\ n <= L  BY <1>1 DEF Received
<1>3. \A i \in 1 .. L : wire[i][2] = r + i  BY <1>1 DEF InputInv
<1>4. inbuf \in Buffers(r) /\ upto \in 0 .. r /\ (~overran => Ordered(inbuf, upto))  BY DEF InputInv
<1>5. /\ wire' \in Seq(E) /\ Len(wire') = L - n /\ DOMAIN wire' = 1 .. L - n
      /\ \A i \in 1 .. L - n : wire'[i] = wire[i + n]
  <2>1. wire' = SubSeq(wire, n + 1, L)  OBVIOUS
  <2> HIDE DEF E, L
  <2> QED  BY <1>1, <1>2, <2>1
<1>6. DOMAIN wire' = 1 .. L - n  BY <1>5
<1>7. Received' = r + n
  <2>1. Received' = sent' - Len(wire') /\ sent' = sent  BY DEF Received
  <2> HIDE DEF r, L, E
  <2> QED  BY <1>1, <1>2, <1>5, <2>1
<1> HIDE DEF r, E, L
<1>8. ASSUME NEW i \in DOMAIN wire' PROVE wire'[i][2] = Received' + i
  <2> DEFINE k == i + n
  <2>1. k \in 1 .. L /\ wire'[i] = wire[k] /\ i \in Int  BY <1>1, <1>2, <1>5, <1>6
  <2>2. wire[k][2] = r + k
    <3> HIDE DEF k
    <3> QED  BY <1>3, <2>1
  <2> QED  BY <1>2, <1>7, <2>1, <2>2
<1>9. CASE n = 0
  <2>1. Input(n) = inbuf /\ r + n = r  BY <1>2, <1>9 DEF Input
  <2> QED  BY <1>1, <1>2, <1>4, <1>5, <1>7, <1>8, <2>1 DEF r, E
<1>10. CASE n # 0
  <2> DEFINE buf == Read(n)
  <2>1. DOMAIN inbuf = 0 .. Room + 1 /\ \A i \in 0 .. Room + 1 : inbuf[i] \in Bytes(r)
    BY <1>4 DEF Buffers
  <2>2. buf = [i \in 0 .. Room + 1 |->
                 IF i < n THEN wire[i + 1] ELSE IF i \in {n, n + 1} THEN Nul ELSE inbuf[i]]
    BY <2>1 DEF Read
  <2> HIDE DEF buf
  <2>3. ASSUME NEW b \in Bytes(r) PROVE b \in Bytes(r + n)
    <3>1. \A x \in 0 .. r : x \in 0 .. r + n  BY <1>2
    <3> QED  BY <3>1 DEF Bytes
  <2>4. Nul \in Bytes(r + n)
    <3>1. 0 \in 0 .. r + n /\ "NUL" \in STRING \cup {"NUL"}  BY <1>2
    <3> QED  BY <3>1 DEF Nul, Bytes
  <2>5. ASSUME NEW i \in 0 .. Room + 1, i < n
        PROVE  buf[i] \in Bytes(r + n) /\ buf[i] = wire[i + 1] /\ buf[i][2] = r + i + 1
    <3> DEFINE k == i + 1
    <3>1. k \in 1 .. L /\ buf[i] = wire[k] /\ r + k \in 0 .. r + n
      <4>1. i \in Nat /\ k \in 1 .. L /\ r + k \in 0 .. r + n  BY <1>1, <1>2, <2>5
      <4>2. buf[i] = wire[i + 1]  BY <2>2, <2>5
      <4> QED  BY <4>1, <4>2
    <3>2. wire[k] \in E /\ wire[k][2] = r + k
      <4> HIDE DEF k
      <4> QED  BY <1>1, <1>3, <3>1
    <3>3. wire[k] \in Bytes(r + n)
      <4> HIDE DEF k
      <4> QED  BY <3>1, <3>2 DEF Bytes, E
    <3>4. r + i + 1 = r + k  BY <1>2
    <3> QED  BY <3>1, <3>2, <3>3, <3>4
  <2>6. ASSUME NEW i \in 0 .. Room + 1 PROVE buf[i] \in Bytes(r + n)
    <3>1. CASE i < n  BY <2>5, <3>1
    <3>2. CASE ~ (i < n)  BY <2>1, <2>2, <2>3, <2>4, <3>2
    <3> QED  BY <3>1, <3>2
  <2>7. buf \in Buffers(r + n)  BY <2>2, <2>6 DEF Buffers
  <2>8. ASSUME NEW k \in 0 .. Room + 1, NoNul(buf, 0, k) PROVE k < n
    <3> SUFFICES ASSUME n <= k PROVE FALSE  BY <1>2
    <3>1. n \in 0 .. k /\ n \in 0 .. Room + 1 /\ n \in Int /\ r + n \in Nat  BY <1>2
    <3>2. K(buf, n) = buf[n][1]  BY <2>7, <3>1, AtFacts
    <3>3. buf[n] = Nul  BY <2>2, <3>1
    <3>4. K(buf, n) = "NUL"  BY <3>2, <3>3 DEF Nul
    <3> QED  BY <2>8, <3>1, <3>4 DEF NoNul
  <2>9. Ordered(buf, upto)
    <3> SUFFICES ASSUME NEW k \in 0 .. Room + 1, NoNul(buf, 0, k)
                 PROVE  upto < buf[k][2] /\ \A j \in 0 .. k - 1 : buf[j][2] < buf[k][2]
      BY DEF Ordered
    <3>1. k < n  BY <2>8
    <3>2. buf[k][2] = r + k + 1 /\ upto <= r  BY <1>4, <2>5, <3>1
    <3>3. ASSUME NEW j \in 0 .. k - 1 PROVE buf[j][2] < buf[k][2]
      <4>1. j \in 0 .. Room + 1 /\ j < n /\ j < k  BY <1>2, <3>1
      <4>2. buf[j][2] = r + j + 1  BY <2>5, <4>1
      <4>3. r + j + 1 < r + k + 1  BY <1>2, <4>1
      <4> QED  BY <3>2, <4>2, <4>3
    <3>4. upto < r + k + 1  BY <1>2, <1>4, <3>2
    <3> QED  BY <3>2, <3>3, <3>4
  <2>10. Input(n) = buf  BY <1>10 DEF Input, buf
  <2> QED  BY <1>1, <1>2, <1>5, <1>7, <1>8, <2>7, <2>9, <2>10 DEF r, E
<1> QED  BY <1>9, <1>10

\* write_to_client
LEMMA WritesFacts ==
  ASSUME RestInv, NEW paging, Writes(paging)
  PROVE  outtop' \in 0 .. OutMax /\ lost' \in {"no", "freed", "stack"}
<1>1. OutMax \in Nat /\ outtop \in 0 .. OutMax /\ lost \in {"no", "freed", "stack"}
  BY ClientIOAssumption DEF RestInv
<1>2. CASE outtop < OutMax  BY <1>1, <1>2 DEF Writes
<1>3. CASE ~ (outtop < OutMax)  BY <1>1, <1>3 DEF Writes
<1> QED  BY <1>2, <1>3

\* show_string: a page that is the next one has something and starts where the pager
\* was; any other key ends the pager.
LEMMA ShowFacts ==
  ASSUME PagerInv, RestInv, NEW text \in Texts, NEW p \in 0 .. Len(text), NEW key, NEW h \in Heights,
         show_string(text, p, key, h), showstr # Nothing \/ key = "enter"
  PROVE  /\ PagerInv'
         /\ outtop' \in 0 .. OutMax /\ lost' \in {"no", "freed", "stack"}
         /\ key = "q" => showstr' = Nothing
         /\ \/ shown' = shown
            \/ /\ shown'.next => key = "enter" /\ showstr # Nothing
               /\ key = "enter" => shown'.from = p /\ (p < Len(text) => p < shown'.to)
<1> DEFINE from == Start(text, p, key, h)
           to == PageEnd(text, from, h - 2)
<1>1. Len(text) \in Nat /\ p \in Nat
  <2>1. text \in Seq({"x", "NL", "CR"})  BY ClientIOAssumption
  <2>2. Len(text) \in Nat  BY <2>1
  <2> QED  BY <2>2
<1>2. h \in Nat /\ h - 2 \in Int /\ h - 2 > 0 /\ h - 1 \in Int /\ 2 * h - 3 \in Int
  <2>1. h \in Nat /\ h \notin 0 .. 2  BY ClientIOAssumption
  <2>2. h > 2  BY <2>1
  <2> QED  BY <2>1, <2>2
<1>3. CASE key \in {"enter", "r", "b"}
  <2>1. /\ showstr' = Remaining(text, to)
        /\ shown' = [from |-> from, to |-> to, next |-> key = "enter" /\ showstr # Nothing]
        /\ Writes(TRUE)
    BY <1>3 DEF show_string
  <2>2. from \in 0 .. Len(text) /\ (key = "enter" => from = p)
    <3>1. CASE key = "r"
      <4>1. from = BackUp(text, p, h - 1)  BY <3>1 DEF Start
      <4>2. BackUp(text, p, h - 1) \in 0 .. p  BY <1>1, <1>2, BackUpFacts
      <4> QED  BY <1>1, <3>1, <4>1, <4>2
    <3>2. CASE key = "b"
      <4>1. from = BackUp(text, p, 2 * h - 3)  BY <3>2 DEF Start
      <4>2. BackUp(text, p, 2 * h - 3) \in 0 .. p  BY <1>1, <1>2, BackUpFacts
      <4> QED  BY <1>1, <3>2, <4>1, <4>2
    <3>3. CASE key = "enter"  BY <3>3 DEF Start
    <3> QED  BY <1>3, <3>1, <3>2, <3>3
  <2> HIDE DEF from
  <2>3. to \in from .. Len(text) /\ (from < Len(text) => from < to)
    <3> DEFINE n == h - 2
    <3>1. n \in Int /\ n > 0  BY <1>2
    <3> HIDE DEF n
    <3>2. PageEnd(text, from, n) \in from .. Len(text) /\ (from < Len(text) => from < PageEnd(text, from, n))
      BY <2>2, <3>1, PageEndFacts
    <3> QED  BY <3>2 DEF n
  <2> HIDE DEF to
  <2>4. to \in Nat /\ to \in 0 .. Len(text) /\ from \in Nat
    <3> DEFINE L == Len(text)
    <3>1. L \in Nat /\ from \in 0 .. L /\ to \in from .. L  BY <1>1, <2>2, <2>3
    <3> HIDE DEF L
    <3>2. to \in Nat /\ to \in 0 .. L /\ from \in Nat  BY <3>1
    <3> QED  BY <3>2 DEF L
  <2>5. shown'.from = from /\ shown'.to = to /\ shown'.next = (key = "enter" /\ showstr # Nothing)
    BY <2>1
  <2>6. shown' \in Page
    <3>1. (key = "enter" /\ showstr # Nothing) \in BOOLEAN  OBVIOUS
    <3> QED  BY <2>1, <2>4, <3>1 DEF Page
  <2>7. showstr' # Nothing =>
          /\ showstr' = [text |-> text, point |-> to]
          /\ \E q \in to .. Len(text) - 1 : Char(text, q) \notin Ends
    BY <2>1 DEF Remaining
  <2>8. showstr' # Nothing =>
          /\ showstr'.text = text /\ showstr'.point = to
          /\ \E q \in to .. Len(text) - 1 : Char(text, q) \notin Ends
    <3> SUFFICES ASSUME showstr' # Nothing
                 PROVE  /\ showstr'.text = text /\ showstr'.point = to
                        /\ \E q \in to .. Len(text) - 1 : Char(text, q) \notin Ends
      OBVIOUS
    <3>1. showstr' = [text |-> text, point |-> to]  BY <2>7
    <3>2. showstr'.text = text /\ showstr'.point = to  BY <3>1
    <3> QED  BY <2>7, <3>2
  <2>9. PagerInv'
    <3>1. ASSUME showstr' # Nothing
          PROVE  /\ showstr'.text \in Texts /\ showstr'.point \in 0 .. Len(showstr'.text)
                 /\ \E q \in showstr'.point .. Len(showstr'.text) - 1 : Char(showstr'.text, q) \notin Ends
                 /\ showstr'.point = shown'.to
      <4>1. showstr'.text = text /\ showstr'.point = to
            /\ \E q \in to .. Len(text) - 1 : Char(text, q) \notin Ends
        BY <2>8, <3>1
      <4> QED  BY <2>4, <2>5, <4>1
    <3> QED  BY <2>6, <3>1 DEF PagerInv
  <2>10. outtop' \in 0 .. OutMax /\ lost' \in {"no", "freed", "stack"}  BY <2>1, WritesFacts
  <2>11. key # "q"  BY <1>3
  <2> QED  BY <2>2, <2>3, <2>5, <2>9, <2>10, <2>11
<1>4. CASE key = "h"
  <2>1. Writes(TRUE) /\ showstr' = showstr /\ shown' = shown  BY <1>4 DEF show_string
  <2>2. outtop' \in 0 .. OutMax /\ lost' \in {"no", "freed", "stack"}  BY <2>1, WritesFacts
  <2>3. PagerInv'  BY <2>1 DEF PagerInv
  <2> QED  BY <1>4, <2>1, <2>2, <2>3
<1>5. CASE key \notin {"enter", "r", "b", "h"}
  <2>1. showstr' = Nothing /\ shown' = shown /\ outtop' = outtop /\ lost' = lost
    BY <1>5 DEF show_string
  <2>2. PagerInv'  BY <2>1 DEF PagerInv
  <2> QED  BY <1>5, <2>1, <2>2 DEF RestInv
<1> QED  BY <1>3, <1>4, <1>5

\* client_command_parser: who quits without the pager leaves; to the pager quit is a
\* key that ends it.
LEMMA ParserFacts ==
  ASSUME PagerInv, RestInv, NEW word, NEW h \in Heights, client_command_parser(word, h)
  PROVE  /\ PagerInv'
         /\ outtop' \in 0 .. OutMax /\ lost' \in {"no", "freed", "stack"} /\ handler' \in BOOLEAN
         /\ word = Quit => showstr' = Nothing /\ (showstr = Nothing => ~handler')
         /\ handler' => handler \/ word # Quit
         /\ shown' # shown /\ shown' # Nothing /\ shown # Nothing /\ shown'.next =>
              shown'.from <= shown.to /\ shown'.to > shown.to
<1> DEFINE key == Key(word)
<1>1. word = Quit => key = "q"  BY DEF Key, Quit
<1>2. handler \in BOOLEAN  BY DEF RestInv
<1>3. CASE showstr # Nothing
  <2> DEFINE text == showstr.text
             p == showstr.point
  <2>1. show_string(text, p, key, h) /\ handler' = handler  BY <1>3 DEF client_command_parser
  <2>2. text \in Texts /\ p \in 0 .. Len(text)  BY <1>3 DEF PagerInv
  <2>3. p < Len(text)
    <3>1. PICK q \in p .. Len(text) - 1 : Char(text, q) \notin Ends  BY <1>3 DEF PagerInv
    <3>2. Len(text) \in Nat
      <4>1. text \in Seq({"x", "NL", "CR"})  BY <2>2, ClientIOAssumption
      <4> QED  BY <4>1
    <3> HIDE DEF text, p
    <3> QED  BY <2>2, <3>1, <3>2
  <2>4. shown # Nothing => p = shown.to  BY <1>3 DEF PagerInv
  <2> HIDE DEF text, p, key
  <2>5. /\ PagerInv'
        /\ outtop' \in 0 .. OutMax /\ lost' \in {"no", "freed", "stack"}
        /\ key = "q" => showstr' = Nothing
        /\ \/ shown' = shown
           \/ /\ shown'.next => key = "enter" /\ showstr # Nothing
              /\ key = "enter" => shown'.from = p /\ (p < Len(text) => p < shown'.to)
    BY <1>3, <2>1, <2>2, ShowFacts
  <2>6. ASSUME shown' # shown, shown # Nothing, shown'.next
        PROVE  shown'.from <= shown.to /\ shown'.to > shown.to
    <3>1. shown'.from = p /\ p < shown'.to /\ p = shown.to  BY <2>3, <2>4, <2>5, <2>6
    <3>2. p \in Int  BY <2>2
    <3> QED  BY <3>1, <3>2
  <2> QED  BY <1>1, <1>2, <1>3, <2>1, <2>5, <2>6
<1>4. CASE showstr = Nothing /\ key = "p"
  <2>1. PICK text \in Texts : show_string(text, 0, "enter", h)  BY <1>4 DEF client_command_parser
  <2>2. handler' = handler  BY <1>4 DEF client_command_parser
  <2>3. 0 \in 0 .. Len(text)
    <3>1. text \in Seq({"x", "NL", "CR"})  BY ClientIOAssumption
    <3>2. Len(text) \in Nat  BY <3>1
    <3> QED  BY <3>2
  <2>4. /\ PagerInv'
        /\ outtop' \in 0 .. OutMax /\ lost' \in {"no", "freed", "stack"}
        /\ shown' = shown \/ (shown'.next => showstr # Nothing)
    BY <2>1, <2>3, ShowFacts
  <2> HIDE DEF key
  <2> QED  BY <1>1, <1>2, <1>4, <2>2, <2>4
<1>5. CASE showstr = Nothing /\ key # "p"
  <2>1. handler' = (word # Quit) /\ Writes(FALSE) /\ showstr' = showstr /\ shown' = shown
    BY <1>5 DEF client_command_parser
  <2>2. outtop' \in 0 .. OutMax /\ lost' \in {"no", "freed", "stack"}  BY <2>1, WritesFacts
  <2>3. PagerInv'  BY <2>1 DEF PagerInv
  <2>4. handler' \in BOOLEAN /\ (word = Quit => ~handler')  BY <2>1
  <2> QED  BY <1>5, <2>1, <2>2, <2>3, <2>4
<1> QED  BY <1>3, <1>4, <1>5

LEMMA RepeatsFacts ==
  ASSUME CountInv, NEW typed \in Seq(STRING \cup {"NUL"})
  PROVE  LET r == Repeats(typed)
             word == Command(typed)
         IN /\ r \in Nat /\ r <= Limit
            /\ r >= Limit => word = Quit
            /\ r < Limit /\ word = last /\ ~(Len(word) < 2) => r = repeat + 1
<1>1. Limit \in Nat /\ repeat \in 0 .. Limit - 1  BY ClientIOAssumption DEF CountInv
<1> DEFINE r == Repeats(typed)
           word == Command(typed)
           bang == typed # <<>> /\ typed[1] = "!"
<1>2. Len(typed) \in Nat
  <2> DEFINE E == STRING \cup {"NUL"}
  <2>1. typed \in Seq(E)  OBVIOUS
  <2> HIDE DEF E
  <2> QED  BY <2>1
<1>3. r = IF bang THEN repeat + 1
          ELSE IF Len(typed) > 1 THEN (IF typed # last THEN 0 ELSE repeat + 1) ELSE repeat
  BY DEF Repeats
<1>4. word = IF r >= Limit THEN Quit ELSE IF bang THEN last ELSE typed  BY DEF Command
<1> HIDE DEF r, word, bang
<1>5. r \in Nat /\ r <= Limit  BY <1>1, <1>3
<1>6. ASSUME r < Limit, word = last, ~(Len(word) < 2) PROVE r = repeat + 1
  <2>1. CASE bang  BY <1>3, <2>1
  <2>2. CASE ~bang
    <3>1. word = typed  BY <1>1, <1>4, <1>5, <1>6, <2>2
    <3>2. Len(typed) > 1 /\ typed = last  BY <1>2, <1>6, <3>1
    <3> QED  BY <1>3, <2>2, <3>2
  <2> QED  BY <2>1, <2>2
<1> QED  BY <1>4, <1>5, <1>6 DEF r, word

LEMMA TakesInv ==
  ASSUME CountInv, PagerInv, RestInv, handler, NEW r \in Nat, NEW chars \in Seq(Bytes(r)),
         NEW h \in Heights, Takes(chars, h)
  PROVE  CountInv'
<1> USE ClientIOAssumption
<1> DEFINE typed == Word(chars)
           word == Command(typed)
           n == Repeats(typed)
<1>1. typed \in Seq(STRING \cup {"NUL"})
  <2> DEFINE E == Bytes(r)
             F == STRING \cup {"NUL"}
  <2>1. Len(chars) \in Nat /\ DOMAIN chars = 1 .. Len(chars) /\ \A i \in DOMAIN chars : chars[i] \in E
    <3>1. chars \in Seq(E)  OBVIOUS
    <3> HIDE DEF E
    <3> QED  BY <3>1
  <2>2. \A i \in DOMAIN chars : chars[i][1] \in F  BY <2>1 DEF Bytes
  <2>3. typed = [i \in 1 .. Len(chars) |-> chars[i][1]]  BY <2>1 DEF Word
  <2> HIDE DEF E, F, typed
  <2>4. typed \in [1 .. Len(chars) -> F]  BY <2>1, <2>2, <2>3
  <2>5. typed \in Seq(F)  BY <2>1, <2>4, SeqFrom
  <2> QED  BY <2>5 DEF F
<1>2. /\ n \in Nat /\ n <= Limit
      /\ n >= Limit => word = Quit
      /\ n < Limit /\ word = last /\ ~(Len(word) < 2) => n = repeat + 1
  <2> HIDE DEF typed
  <2> QED  BY <1>1, RepeatsFacts
<1>3. /\ last' = word
      /\ repeat' = IF n >= Limit THEN 0 ELSE n
      /\ row' = IF Len(word) < 2 THEN 0 ELSE IF word = last THEN row + 1 ELSE 1
      /\ client_command_parser(word, h)
  BY DEF Takes
<1> HIDE DEF typed, word, n
<1>4. word = Quit => showstr' = Nothing /\ (showstr = Nothing => ~handler')  BY <1>3, ParserFacts
<1>5. /\ Limit \in Nat /\ Limit >= 2 /\ repeat \in 0 .. Limit - 1 /\ row \in Nat
      /\ row <= repeat + 1 /\ (last = Quit => showstr = Nothing /\ row <= 1)
  <2>1. Limit >= 2  OBVIOUS
  <2> QED  BY <2>1 DEF CountInv
<1>6. repeat' \in 0 .. Limit - 1  BY <1>2, <1>3, <1>5
<1>7. row' \in Nat  BY <1>3, <1>5
<1>8. CASE n >= Limit
  <2>1. word = Quit /\ repeat' = 0  BY <1>2, <1>3, <1>8
  <2>2. CASE last = Quit
    <3>1. row' <= 2 /\ ~handler'  BY <1>3, <1>4, <1>5, <2>1, <2>2
    <3>2. row' <= Limit  BY <1>5, <1>7, <3>1
    <3> QED  BY <1>6, <1>7, <3>1, <3>2 DEF CountInv
  <2>3. CASE last # Quit
    <3>1. row' <= 1  BY <1>3, <1>5, <2>1, <2>3
    <3>2. row' <= repeat' + 1 /\ row' <= Limit  BY <1>5, <1>7, <2>1, <3>1
    <3> QED  BY <1>4, <1>6, <1>7, <2>1, <3>1, <3>2 DEF CountInv
  <2> QED  BY <2>2, <2>3
<1>9. CASE ~(n >= Limit)
  <2>1. n < Limit /\ repeat' = n  BY <1>2, <1>3, <1>5, <1>9
  <2>2. CASE word = last /\ ~(Len(word) < 2)
    <3>1. row' = row + 1 /\ n = repeat + 1  BY <1>2, <1>3, <2>1, <2>2
    <3>2. row' <= repeat' + 1 /\ row' <= Limit  BY <1>2, <1>5, <2>1, <3>1
    <3>3. last' = Quit => ~handler'  BY <1>3, <1>4, <1>5, <2>2
    <3> QED  BY <1>6, <1>7, <3>2, <3>3 DEF CountInv
  <2>3. CASE ~(word = last /\ ~(Len(word) < 2))
    <3>1. row' <= 1  BY <1>3, <2>3
    <3>2. row' <= repeat' + 1 /\ row' <= Limit  BY <1>2, <1>5, <1>7, <2>1, <3>1
    <3> QED  BY <1>3, <1>4, <1>6, <1>7, <3>1, <3>2 DEF CountInv
  <2> QED  BY <2>2, <2>3
<1> QED  BY <1>8, <1>9

\* The bytes of a command are in the order they were sent, and behind those of earlier
\* commands.
InTurn(s, u) == \A i \in DOMAIN s : s[i][2] > (IF i = 1 THEN u ELSE s[i - 1][2])

LEMMA InTurnFacts ==
  ASSUME NEW r \in Nat, NEW u \in 0 .. r, NEW buf, NEW i, NEW s \in Seq(Bytes(r)), Chars(s, buf, u, i)
  PROVE  InTurn(s, u)
<1> SUFFICES ASSUME NEW a \in DOMAIN s PROVE s[a][2] > (IF a = 1 THEN u ELSE s[a - 1][2])
  BY DEF InTurn
<1>1. Len(s) \in Nat /\ DOMAIN s = 1 .. Len(s) /\ \A b \in DOMAIN s : s[b] \in Bytes(r)
  <2> DEFINE E == Bytes(r)
  <2>1. s \in Seq(E)  OBVIOUS
  <2> HIDE DEF E
  <2>2. Len(s) \in Nat /\ DOMAIN s = 1 .. Len(s) /\ \A b \in DOMAIN s : s[b] \in E  BY <2>1
  <2> QED  BY <2>2 DEF E
<1>2. a \in Nat /\ (a # 1 => a - 1 \in DOMAIN s /\ a - 1 \in 1 .. a - 1)  BY <1>1
<1>3. \A b \in DOMAIN s : s[b][2] \in Nat  BY <1>1 DEF Bytes
<1>4. u < s[a][2] /\ \A b \in 1 .. a - 1 : s[b][2] < s[a][2]  BY DEF Chars
<1>5. CASE a = 1  BY <1>3, <1>4, <1>5
<1>6. CASE a # 1
  <2>1. s[a - 1][2] < s[a][2] /\ s[a - 1][2] \in Nat /\ s[a][2] \in Nat  BY <1>2, <1>3, <1>4, <1>6
  <2> QED  BY <1>6, <2>1
<1> QED  BY <1>5, <1>6

\* The pass that carries out a line: the invariant, and what the action properties say
\* of it.
LEMMA InputPassInv ==
  ASSUME ClientInv, InputPass
  PROVE  /\ ClientInv'
         /\ fCommand' /\ ~overran' => InTurn(command', upto)
         /\ shown' # shown /\ shown' # Nothing /\ shown # Nothing /\ shown'.next =>
              shown'.from <= shown.to /\ shown'.to > shown.to
<1> USE ClientIOAssumption
<1>1. handler /\ turn' = "output" /\ sent' = sent  BY DEF InputPass
<1>2. PICK n \in 0 .. Len(wire) :
        /\ n <= Room
        /\ wire' = SubSeq(wire, n + 1, Len(wire))
        /\ \E f \in {Found(IF n = 0 THEN inbuf ELSE Read(n))} :
             LET line == K(f.buf, f.at) \in Ends IN
             /\ fCommand' = line
             /\ inbuf' = IF line THEN Rest(f.buf) ELSE f.buf
             /\ overran' = (overran \/ f.past)
             /\ scrHeight' \in IF f.naws THEN Heights ELSE {scrHeight}
             /\ IF line THEN Takes(Line(f.buf), scrHeight')
                ELSE UNCHANGED <<last, repeat, command, upto, row, showstr, outtop, shown, lost, handler>>
  BY DEF InputPass
<1> DEFINE f == Found(Input(n))
           line == K(f.buf, f.at) \in Ends
           chars == Line(f.buf)
           r == Received + n
<1>3. /\ fCommand' = line
      /\ inbuf' = IF line THEN Rest(f.buf) ELSE f.buf
      /\ overran' = (overran \/ f.past)
      /\ scrHeight' \in IF f.naws THEN Heights ELSE {scrHeight}
      /\ IF line THEN Takes(chars, scrHeight')
         ELSE UNCHANGED <<last, repeat, command, upto, row, showstr, outtop, shown, lost, handler>>
  BY <1>2 DEF Input
<1>4. /\ wire' \in Seq(STRING \X Nat) /\ Len(wire') <= sent'
      /\ Received' = r /\ r \in Nat
      /\ \A i \in DOMAIN wire' : wire'[i][2] = Received' + i
      /\ Input(n) \in Buffers(r)
      /\ ~overran => Ordered(Input(n), upto)
  <2> HIDE ClientIOAssumption
  <2>1. /\ wire' \in Seq(STRING \X Nat) /\ Len(wire') <= sent'
        /\ Received' = Received + n /\ Received \in Nat
        /\ \A i \in DOMAIN wire' : wire'[i][2] = Received' + i
        /\ Input(n) \in Buffers(Received + n)
        /\ ~overran => Ordered(Input(n), upto)
    BY <1>1, <1>2, ReadFacts
  <2>2. r \in Nat  BY <2>1
  <2> QED  BY <2>1, <2>2
<1>5. upto \in 0 .. r /\ upto \in Nat
  <2>1. upto \in 0 .. Received /\ Received \in Nat  BY <1>1, <1>2, ReadFacts DEF ClientInv, InputInv
  <2> QED  BY <2>1
<1> HIDE DEF r
<1>6. f \in Searches(Input(n), upto, r)  BY <1>4, <1>5, FoundFacts
<1> HIDE DEF f
<1>7. /\ f.buf \in Buffers(r) /\ f.at \in 0 .. Room + 2 /\ f.past \in BOOLEAN
      /\ NoNul(f.buf, 0, f.at - 1)
      /\ ~f.past /\ Ordered(Input(n), upto) => Ordered(f.buf, upto)
  BY <1>6 DEF Searches
<1>8. ~overran' => ~overran /\ Ordered(f.buf, upto)
  <2>1. ~overran' => ~overran /\ ~f.past  BY <1>3
  <2> QED  BY <1>4, <1>7, <2>1
<1>9. scrHeight' \in Heights
  <2>1. scrHeight \in Heights  BY DEF ClientInv, RestInv
  <2> QED  BY <1>3, <2>1
<1>10. fCommand' \in BOOLEAN /\ overran' \in BOOLEAN
  <2>1. fCommand' \in BOOLEAN  BY <1>3
  <2>2. overran' \in BOOLEAN  BY <1>3
  <2> QED  BY <2>1, <2>2
<1>11. sent' \in 0 .. MaxSent  BY <1>1 DEF ClientInv, InputInv
<1>12. CountInv /\ PagerInv /\ RestInv  BY DEF ClientInv
<1>13. CASE line
  <2>1. /\ LineEnd(f.buf) \in 0 .. Room + 1 /\ K(f.buf, LineEnd(f.buf)) \in Ends
        /\ NoNul(f.buf, 0, LineEnd(f.buf))
    <3> DEFINE buf == f.buf
               at == f.at
    <3>1. buf \in Buffers(r) /\ at \in 0 .. Room + 2 /\ NoNul(buf, 0, at - 1) /\ K(buf, at) \in Ends
      BY <1>7, <1>13
    <3> HIDE DEF buf, at
    <3>2. LineEnd(buf) \in 0 .. Room + 1 /\ K(buf, LineEnd(buf)) \in Ends /\ NoNul(buf, 0, LineEnd(buf))
      BY <1>4, <3>1, LineEndFacts
    <3> QED  BY <3>2 DEF buf
  <2>2. /\ chars \in Seq(Bytes(r))
        /\ Ordered(f.buf, upto) => Chars(chars, f.buf, upto, LineEnd(f.buf))
    BY <1>4, <1>5, <1>7, <2>1, LineFacts
  <2>3. /\ Rest(f.buf) \in Buffers(r)
        /\ Ordered(f.buf, upto) => Ordered(Rest(f.buf), After(chars, upto))
    BY <1>4, <1>5, <1>7, <2>1, RestFacts
  <2>4. Takes(chars, scrHeight')  BY <1>3, <1>13
  <2> HIDE DEF chars
  <2>5. command' = chars /\ upto' = After(chars, upto) /\ client_command_parser(Command(Word(chars)), scrHeight')
    BY <2>4 DEF Takes, After
  <2>6. After(chars, upto) \in 0 .. r  BY <1>4, <1>5, <2>2, AfterFacts
  <2>7. InputInv'
    <3>1. inbuf' \in Buffers(Received') /\ upto' \in 0 .. Received'  BY <1>3, <1>4, <1>13, <2>3, <2>5, <2>6
    <3>2. ~overran' => Ordered(inbuf', upto')  BY <1>3, <1>8, <1>13, <2>3, <2>5
    <3> QED  BY <1>4, <1>11, <3>1, <3>2 DEF InputInv
  <2>8. CountInv'  BY <1>1, <1>4, <1>9, <1>12, <2>2, <2>4, TakesInv
  <2>9. /\ PagerInv'
        /\ outtop' \in 0 .. OutMax /\ lost' \in {"no", "freed", "stack"} /\ handler' \in BOOLEAN
        /\ shown' # shown /\ shown' # Nothing /\ shown # Nothing /\ shown'.next =>
             shown'.from <= shown.to /\ shown'.to > shown.to
    <3> DEFINE word == Command(Word(chars))
    <3>1. client_command_parser(word, scrHeight')  BY <2>5
    <3> HIDE DEF word
    <3> QED  BY <1>9, <1>12, <3>1, ParserFacts
  <2>10. RestInv'  BY <1>1, <1>9, <1>10, <2>9 DEF RestInv
  <2>11. ~overran' => InTurn(command', upto)
    <3>1. Chars(chars, f.buf, upto, LineEnd(f.buf)) => InTurn(chars, upto)
      <4> DEFINE buf == f.buf
                 end == LineEnd(f.buf)
      <4> HIDE DEF buf, end
      <4>1. Chars(chars, buf, upto, end) => InTurn(chars, upto)  BY <1>4, <1>5, <2>2, InTurnFacts
      <4> QED  BY <4>1 DEF buf, end
    <3> QED  BY <1>8, <2>2, <2>5, <3>1
  <2> QED  BY <2>7, <2>8, <2>9, <2>10, <2>11 DEF ClientInv
<1>14. CASE ~line
  <2>1. UNCHANGED <<last, repeat, command, upto, row, showstr, outtop, shown, lost, handler>> /\ inbuf' = f.buf
    BY <1>3, <1>14
  <2>2. InputInv'
    <3>1. inbuf' \in Buffers(Received') /\ upto' \in 0 .. Received'  BY <1>4, <1>5, <1>7, <2>1
    <3>2. ~overran' => Ordered(inbuf', upto')  BY <1>8, <2>1
    <3> QED  BY <1>4, <1>11, <3>1, <3>2 DEF InputInv
  <2>3. CountInv'  BY <1>12, <2>1 DEF CountInv
  <2>4. PagerInv'  BY <1>12, <2>1 DEF PagerInv
  <2>5. RestInv'  BY <1>1, <1>9, <1>10, <1>12, <2>1 DEF RestInv
  <2>6. ~fCommand'  BY <1>3, <1>14
  <2> QED  BY <2>1, <2>2, <2>3, <2>4, <2>5, <2>6 DEF ClientInv
<1> QED  BY <1>13, <1>14

\* What neither reads nor carries anything out keeps the parts of the invariant about
\* the input and the pager.
LEMMA QuietInv ==
  ASSUME ClientInv, UNCHANGED <<input, scrHeight, showstr, shown, handler, fCommand>>,
         outtop' \in 0 .. OutMax, lost' \in {"no", "freed", "stack"}, turn' \in {"input", "output"}
  PROVE  ClientInv'
<1>1. UNCHANGED <<wire, sent, inbuf, last, repeat, command, upto, overran, row>>  BY DEF input
<1>2. InputInv'  BY <1>1 DEF ClientInv, InputInv, Received
<1>3. CountInv'  BY <1>1 DEF ClientInv, CountInv
<1>4. PagerInv'  BY DEF ClientInv, PagerInv
<1>5. RestInv'  BY <1>1 DEF ClientInv, RestInv
<1> QED  BY <1>2, <1>3, <1>4, <1>5 DEF ClientInv

LEMMA OutputPassFacts ==
  ASSUME ClientInv, OutputPass
  PROVE  /\ outtop' \in 0 .. OutMax /\ lost' \in {"no", "freed", "stack"} /\ turn' = "input"
         /\ UNCHANGED <<input, scrHeight, showstr, shown, handler, fCommand>>
<1>1. turn' = "input" /\ UNCHANGED <<input, scrHeight, showstr, shown, handler, fCommand>>
  BY DEF OutputPass
<1>2. outtop \in 0 .. OutMax /\ lost \in {"no", "freed", "stack"} /\ RestInv  BY DEF ClientInv, RestInv
<1>3. CASE process_output
  <2>1. CASE outtop < OutMax
    <3>1. outtop' = 0 /\ lost' = lost  BY <1>3, <2>1 DEF process_output
    <3> QED  BY <1>1, <1>2, <3>1, ClientIOAssumption
  <2>2. CASE ~(outtop < OutMax)
    <3>1. Writes(showstr # Nothing)  BY <1>3, <2>2 DEF process_output
    <3> DEFINE paging == showstr # Nothing
    <3>2. Writes(paging)  BY <3>1
    <3> HIDE DEF paging
    <3>3. outtop' \in 0 .. OutMax /\ lost' \in {"no", "freed", "stack"}  BY <1>2, <3>2, WritesFacts
    <3> QED  BY <1>1, <3>3
  <2> QED  BY <2>1, <2>2
<1>4. CASE UNCHANGED <<outtop, lost>>  BY <1>1, <1>2, <1>4
<1> QED  BY <1>3, <1>4 DEF OutputPass

LEMMA HearFacts ==
  ASSUME ClientInv, Hear
  PROVE  /\ outtop' \in 0 .. OutMax /\ lost' \in {"no", "freed", "stack"} /\ turn' = turn
         /\ UNCHANGED <<input, scrHeight, showstr, shown, handler, fCommand>>
<1> DEFINE paging == showstr # Nothing
<1>1. Writes(paging) /\ RestInv  BY DEF Hear, ClientInv
<1> HIDE DEF paging
<1>2. outtop' \in 0 .. OutMax /\ lost' \in {"no", "freed", "stack"}  BY <1>1, WritesFacts
<1> QED  BY <1>2 DEF Hear

LEMMA ClientNextInv == ASSUME ClientInv, [ClientNext]_client PROVE ClientInv'
<1>1. turn \in {"input", "output"}  BY DEF ClientInv, RestInv
<1>2. CASE Send  BY <1>2, SendInv
<1>3. CASE InputPass  BY <1>3, InputPassInv
<1>4. CASE Hear  BY <1>1, <1>4, HearFacts, QuietInv
<1>5. CASE OutputPass  BY <1>5, OutputPassFacts, QuietInv
<1>6. CASE Leaves \/ Restart  BY <1>6, ClosesInv DEF Leaves, Restart
<1>7. CASE UNCHANGED client
  <2>1. /\ UNCHANGED <<input, scrHeight, showstr, shown, handler, fCommand>>
        /\ turn' = turn /\ outtop' = outtop /\ lost' = lost
    BY <1>7 DEF client, output
  <2>2. outtop \in 0 .. OutMax /\ lost \in {"no", "freed", "stack"}  BY DEF ClientInv, RestInv
  <2> QED  BY <1>1, <2>1, <2>2, QuietInv
<1> QED  BY <1>2, <1>3, <1>4, <1>5, <1>6, <1>7 DEF ClientNext

\* Whatever comes over the connection, however it is cut into reads, what
\* parse_input_buffer has in its buffer, its count of repeated commands and the pager's
\* place fit together.
THEOREM ClientInvariant == ClientSpec => []ClientInv
<1>1. ClientInit => ClientInv  BY InitInv
<1>2. ClientInv /\ [ClientNext]_client => ClientInv'  BY ClientNextInv
<1> QED  BY <1>1, <1>2, PTL DEF ClientSpec

\* parse_input_buffer: no command of two letters or more comes more often in a row than
\* the limit, typed or by !, for any limit, any input and any window.
THEOREM SpamIsStopped == ClientSpec => []SpamStops
<1>1. ClientInv => SpamStops  BY InvType
<1> QED  BY <1>1, ClientInvariant, PTL

\* parse_input_buffer, process_telnet: commands are made of the bytes that were sent,
\* in their order and none twice, until an option is read beyond the end of the input.
THEOREM CommandsInOrder == ClientSpec => InOrder
<1> DEFINE A == turn = "input" /\ turn' = "output" /\ fCommand' /\ ~overran' =>
                  \A i \in DOMAIN command' :
                    command'[i][2] > (IF i = 1 THEN upto ELSE command'[i - 1][2])
<1>1. ClientInv /\ [ClientNext]_client => [A]_client
  <2> SUFFICES ASSUME ClientInv, ClientNext, turn = "input", turn' = "output", fCommand', ~overran'
               PROVE  InTurn(command', upto)
    BY DEF InTurn
  <2>1. CASE Send  BY <2>1 DEF Send
  <2>2. CASE InputPass  BY <2>2, InputPassInv
  <2>3. CASE Hear  BY <2>3 DEF Hear
  <2>4. CASE OutputPass  BY <2>4 DEF OutputPass
  <2>5. CASE Leaves \/ Restart  BY <2>5 DEF Leaves, Restart, Closes
  <2> QED  BY <2>1, <2>2, <2>3, <2>4, <2>5 DEF ClientNext
<1>2. []ClientInv /\ [][ClientNext]_client => [][A]_client  BY <1>1, PTL
<1> QED  BY <1>2, ClientInvariant, PTL DEF ClientSpec, InOrder

\* show_string: the next page of a text starts where the last one ended and goes on,
\* whatever was shown in between and however the window's height changed.
THEOREM PagesGoOn == ClientSpec => NothingSkipped
<1> DEFINE A == shown' # shown /\ shown' # Nothing /\ shown # Nothing /\ shown'.next =>
                  shown'.from <= shown.to /\ shown'.to > shown.to
<1>1. ClientInv /\ [ClientNext]_client => [A]_client
  <2> SUFFICES ASSUME ClientInv, ClientNext, shown' # shown, shown' # Nothing, shown # Nothing, shown'.next
               PROVE  shown'.from <= shown.to /\ shown'.to > shown.to
    OBVIOUS
  <2>1. CASE Send  BY <2>1 DEF Send, output
  <2>2. CASE InputPass  BY <2>2, InputPassInv
  <2>3. CASE Hear  BY <2>3 DEF Hear
  <2>4. CASE OutputPass  BY <2>4 DEF OutputPass
  <2>5. CASE Leaves \/ Restart  BY <2>5 DEF Leaves, Restart, Closes
  <2> QED  BY <2>1, <2>2, <2>3, <2>4, <2>5 DEF ClientNext
<1>2. []ClientInv /\ [][ClientNext]_client => [][A]_client  BY <1>1, PTL
<1> QED  BY <1>2, ClientInvariant, PTL DEF ClientSpec, NothingSkipped

=============================================================================
