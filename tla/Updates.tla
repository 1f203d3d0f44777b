------------------------------ MODULE Updates -------------------------------
(***************************************************************************)
(* The ticks of server/update.c: what a character regains, how conditions  *)
(* sink and affects wear off; the affects of affect.c with the spell that  *)
(* gives one (skill.c), and what saving and loading keep of all this       *)
(* (character.c, player.c).                                                *)
(*                                                                         *)
(* The only spell that affects anyone is energy_shield.  No command feeds  *)
(* a player or changes a position.  Mana and move are like hit but nothing *)
(* spends them.  An affect's level and flags have no effect.               *)
(***************************************************************************)
EXTENDS Integers, FiniteSetsExt

CONSTANTS
  Players, Npcs,
  None,
  Level, Con,    \* everybody's
  MaxHit,        \* everybody's
  MinHit,        \* bound: a player with less is not hit any more
  PULSE_TICK,    \* runs of update_handler between two ticks
  Duration,      \* ticks an energy shield lasts
  Floor,         \* the least a condition sinks to
  MaxResists     \* bound: resists a spell still adds to

ASSUME UpdatesAssumption ==
  /\ Players \cap Npcs = {} /\ Level \in Nat /\ Con \in Nat
  /\ MaxHit \in Nat \ {0} /\ MinHit \in Int /\ MinHit <= 0
  /\ PULSE_TICK \in Nat \ {0} /\ Duration \in Nat /\ None \notin Nat
  /\ Floor \in Int /\ Floor < -1 /\ MaxResists \in Nat

VARIABLES
  char,        \* char[c]: the Character in the world, or None
  disk,        \* disk[p]: the row of a player
  pulse_tick,
  shielded,    \* history: players loaded from what was saved under a shield
  parched      \* history: players that were in a desert

vars == <<char, disk, pulse_tick, shielded, parched>>

Conditions == {"drunk", "hunger", "thirst"}
InWorld == {c \in Players \cup Npcs : char[c] # None}
\* resists counts multiples of the shield's modifier above 100.
Stored == [hit : Int, resists : 0 .. MaxResists + 1,
           condition : [Conditions -> Floor .. 0]]

TypeOK ==
  /\ \A c \in InWorld :
       /\ char[c].hit \in Int
       /\ char[c].resists \in 0 .. MaxResists + 1
       /\ char[c].condition \in [Conditions -> Floor .. 0]
       /\ char[c].position \in {"fighting", "standing"}
       /\ char[c].affect \in 0 .. Duration \cup {None}
       /\ char[c].desert \in BOOLEAN
  /\ \A p \in Players : disk[p] = None \/ disk[p] \in Stored
  /\ pulse_tick \in 0 .. PULSE_TICK
  /\ shielded \subseteq Players /\ parched \subseteq Players

-----------------------------------------------------------------------------
(* Coming, going, saving.                                                  *)

NewChar == [hit |-> MaxHit, resists |-> 0, condition |-> [k \in Conditions |-> 0],
            position |-> "standing", affect |-> None, desert |-> FALSE]

Init ==
  /\ char = [c \in Players \cup Npcs |-> None]
  /\ disk = [p \in Players |-> None]
  /\ pulse_tick = 0
  /\ shielded = {} /\ parched = {}

\* A new player, or the NPC of a reset.
Create(c) ==
  /\ char[c] = None /\ (c \in Players => disk[c] = None)
  /\ char' = [char EXCEPT ![c] = NewChar]
  /\ UNCHANGED <<disk, pulse_tick, shielded, parched>>

\* An affect has no row: save_affect names a column that the table does not have.
load_affect_by_id == None

\* load_player_by_id.  The position was saved by its name and is read as a
\* number: the first one.
Load(p) ==
  /\ char[p] = None /\ disk[p] # None
  /\ char' = [char EXCEPT ![p] =
       [hit |-> disk[p].hit, resists |-> disk[p].resists, condition |-> disk[p].condition,
        position |-> "fighting", affect |-> load_affect_by_id, desert |-> FALSE]]
  /\ UNCHANGED <<disk, pulse_tick, shielded, parched>>

\* save_player: the resists as they are.  The affect is not stored, which is
\* not noticed.
save_player(p) ==
  /\ char[p] # None
  /\ disk' = [disk EXCEPT ![p] =
       [hit |-> char[p].hit, resists |-> char[p].resists, condition |-> char[p].condition]]
  /\ shielded' = IF char[p].affect # None THEN shielded \cup {p} ELSE shielded
  /\ UNCHANGED <<char, pulse_tick, parched>>

\* Quits, logs out, loses the link; some ways out save before.
Leave(p) ==
  /\ char[p] # None
  /\ char' = [char EXCEPT ![p] = None]
  /\ UNCHANGED <<disk, pulse_tick, shielded, parched>>

move_char(p) ==
  /\ char[p] # None
  /\ char' = [char EXCEPT ![p].desert = ~@]
  /\ parched' = parched \cup {p}
  /\ UNCHANGED <<disk, pulse_tick, shielded>>

\* An NPC without hit points is extracted; a player stays.
damage(c) ==
  /\ c \in InWorld
  /\ \E dam \in 1 .. MaxHit :
       LET hit == char[c].hit - dam
       IN /\ hit >= MinHit
          /\ char' = [char EXCEPT ![c] = IF hit <= 0 /\ c \in Npcs THEN None
                                         ELSE [char[c] EXCEPT !.hit = hit]]
  /\ UNCHANGED <<disk, pulse_tick, shielded, parched>>

-----------------------------------------------------------------------------
(* Affects.                                                                *)

\* affect_apply_resists through affect_modify.
affect_modify(ch, fAdd) == [ch EXCEPT !.resists = IF fAdd THEN @ + 1 ELSE @ - 1]

affect_to_char(ch, duration) == [affect_modify(ch, TRUE) EXCEPT !.affect = duration]

\* Mutant: the affect is unlinked and goes on.
affect_remove_NoModify(ch) == [ch EXCEPT !.affect = None]

affect_remove(ch) == [affect_modify(ch, FALSE) EXCEPT !.affect = None]

\* cast: energy_shield is refused to who is_affected by it.
do_cast(p) ==
  /\ char[p] # None /\ char[p].affect = None /\ char[p].resists <= MaxResists
  /\ char' = [char EXCEPT ![p] = affect_to_char(char[p], Duration)]
  /\ UNCHANGED <<disk, pulse_tick, shielded, parched>>

\* Mutant: an affect at its end is not removed.
affect_update_Stays(ch) ==
  IF ch.affect = None THEN ch
  ELSE IF ch.affect > 0 THEN [ch EXCEPT !.affect = @ - 1] ELSE ch

affect_update(ch) ==
  IF ch.affect = None THEN ch
  ELSE IF ch.affect > 0 THEN [ch EXCEPT !.affect = @ - 1] ELSE affect_remove(ch)

-----------------------------------------------------------------------------
(* The tick.                                                               *)

\* hit_gain, before it is limited.
Gain(c, ch) ==
  IF c \in Npcs THEN (10 + Level) \div (IF ch.position = "fighting" THEN 3 ELSE 2)
  ELSE LET gain == Max({3, Con - 3 + Level}) \div (IF ch.position = "fighting" THEN 6 ELSE 4)
           Half(g, k) == IF ch.condition[k] >= 20 THEN g \div 2 ELSE g
       IN Half(Half(gain, "hunger"), "thirst")

hit_gain(c, ch) == Min({Gain(c, ch), MaxHit - ch.hit})

Regained(c, ch) == IF ch.hit < MaxHit THEN ch.hit + hit_gain(c, ch) ELSE MaxHit

\* gain_condition with the value -1.  Halving it below zero gives zero.
gain_condition(c, ch, k) ==
  LET value == IF k = "thirst" /\ ch.desert THEN -2 ELSE -1
      halved == IF ch.condition[k] < 0 THEN value + 1 ELSE value
  IN IF c \in Npcs THEN 0 ELSE Max({IF k = "drunk" THEN 0 ELSE Floor, ch.condition[k] + halved})

Ticked(c, ch) ==
  affect_update([ch EXCEPT !.hit = Regained(c, ch),
                           !.condition = [k \in Conditions |-> gain_condition(c, ch, k)]])

character_update == char' = [c \in DOMAIN char |-> IF char[c] = None THEN None ELSE Ticked(c, char[c])]

update_handler ==
  /\ IF pulse_tick - 1 <= 0 THEN pulse_tick' = PULSE_TICK /\ character_update
                            ELSE pulse_tick' = pulse_tick - 1 /\ UNCHANGED char
  /\ UNCHANGED <<disk, shielded, parched>>

\* do_tick of an immortal: the next run of update_handler is a tick.
do_tick ==
  /\ pulse_tick # 0 /\ pulse_tick' = 0
  /\ UNCHANGED <<char, disk, shielded, parched>>

Next ==
  \/ update_handler \/ do_tick
  \/ \E c \in Players \cup Npcs : Create(c) \/ damage(c)
  \/ \E p \in Players : Load(p) \/ save_player(p) \/ Leave(p) \/ move_char(p) \/ do_cast(p)

\* game_loop runs update_handler in each of its rounds.
Spec == Init /\ [][Next]_vars /\ WF_vars(update_handler)

-----------------------------------------------------------------------------
(* Properties.                                                             *)

\* Who is not shielded resists as at the start, except a player that was
\* saved under a shield: the save keeps the bonus and not the affect, so that
\* the bonus stays for good and each such save adds one.
ShieldComesOff ==
  \A p \in Players \ shielded : char[p] # None =>
    char[p].resists = IF char[p].affect = None THEN 0 ELSE 1

\* A shield ends, while ticks come: they may not be stopped by anyone who
\* casts, saves or moves in between.
ShieldWearsOff ==
  \A p \in Players :
    (char[p] # None /\ char[p].affect # None) ~> (char[p] = None \/ char[p].affect = None)
=============================================================================
