------------------------------- MODULE Combat -------------------------------
(***************************************************************************)
(* Fights: fight.c, kill, kick and the moves of server/command.c,          *)
(* violence_update of server/update.c, and the ways a Character comes into *)
(* the world and goes: set_playing, do_logout, extract_char, load_npc.     *)
(*                                                                         *)
(* A Character points at the one it fights.  Nobody looks for those        *)
(* pointers when a Character is freed, and violence_update walks           *)
(* first_character with the next element saved before the round.  As in    *)
(* Session, Characters are heap addresses that are reused; a step that     *)
(* reads one that is not allocated leaves memory the module does not       *)
(* follow: corrupt, until the process is started again.                    *)
(*                                                                         *)
(* Hit points are left out: any hit may be the last one, for a player who  *)
(* was killed before as well, whose points stay below zero until a tick.   *)
(***************************************************************************)
EXTENDS Integers, SequencesExt, Lists

CONSTANTS
  Chars,      \* addresses a Character can be allocated at
  Rooms,
  None,       \* the null pointer
  MAX_PLAYABLE_LEVEL,
  ToLevel,    \* exp_to_level by level
  Levels,     \* the levels players come with; immortals are above the maximum
  Gains       \* what xp_compute returns

ASSUME CombatAssumption ==
  /\ None \notin Chars \cup Rooms
  /\ MAX_PLAYABLE_LEVEL \in Nat \ {0}
  /\ Levels \subseteq Nat \ {0} /\ Gains \subseteq Int
  /\ ToLevel \in [1 .. MAX_PLAYABLE_LEVEL -> Nat]

VARIABLES
  corrupt,
  ch,               \* the loop variable of violence_update; None outside
  first_character,  \* the list of characters in the world
  kind,             \* "free", "pc" or "npc": what is allocated at an address
  inRoom,
  fighting,
  level,
  experience,
  kills,            \* history: deaths in the last step
  orphaned,         \* history: a Character was freed that another was fighting,
                    \* or that violence_update was about to visit
  turns             \* history: who had a turn in this violence_update

people == <<kind, inRoom, fighting, level, experience>>
vars   == <<corrupt, ch, first_character, people, kills, orphaned, turns>>

TypeOK ==
  /\ corrupt \in BOOLEAN /\ orphaned \in BOOLEAN
  /\ ch \in Chars \cup {None}
  /\ first_character \in Seq(Chars)
  /\ kind \in [Chars -> {"free", "pc", "npc"}]
  /\ inRoom \in [Chars -> Rooms \cup {None}]
  /\ fighting \in [Chars -> Chars \cup {None}]
  /\ level \in [Chars -> Nat] /\ experience \in [Chars -> Nat]
  /\ kills \in Nat
  /\ turns \subseteq Chars

Init ==
  /\ corrupt = FALSE /\ orphaned = FALSE
  /\ ch = None
  /\ first_character = <<>>
  /\ kind = [a \in Chars |-> "free"]
  /\ inRoom = [a \in Chars |-> None]
  /\ fighting = [a \in Chars |-> None]
  /\ level = [a \in Chars |-> 0] /\ experience = [a \in Chars |-> 0]
  /\ kills = 0
  /\ turns = {}

\* Memory is lost, or the process is started again.
Emptied(lost) ==
  /\ corrupt' = lost /\ orphaned' = FALSE
  /\ ch' = None
  /\ first_character' = <<>>
  /\ kind' = [a \in Chars |-> "free"]
  /\ inRoom' = [a \in Chars |-> None]
  /\ fighting' = [a \in Chars |-> None]
  /\ level' = [a \in Chars |-> 0] /\ experience' = [a \in Chars |-> 0]
  /\ kills' = 0
  /\ turns' = {}

Corrupts == Emptied(TRUE)
Restart == corrupt /\ Emptied(FALSE)

-----------------------------------------------------------------------------
(* A round changes the world several times before it is over; the world is *)
(* a record, and what a function of the code does to it one of a set of    *)
(* worlds, one for each roll of the dice.                                  *)

World == [list |-> first_character, kind |-> kind, inRoom |-> inRoom,
          fighting |-> fighting, level |-> level, experience |-> experience,
          kills |-> 0, orphaned |-> orphaned]

\* The world becomes w, and violence_update goes on with next.
Becomes(w, next) ==
  /\ first_character' = w.list
  /\ kind' = w.kind
  /\ inRoom' = w.inRoom
  /\ fighting' = w.fighting
  /\ level' = w.level
  /\ experience' = w.experience
  /\ kills' = w.kills
  /\ orphaned' = (w.orphaned \/ (next # None /\ w.kind[next] = "free"))
  /\ ch' = next
  /\ corrupt' = corrupt

\* LINK on first_character and char_to_room.
Linked(w, a, r) == [w EXCEPT !.list = <<a>> \o @, !.inRoom[a] = r]

\* Mutant: nothing is unlinked.
Unlinked_StaysListed(w, a) == [w EXCEPT !.inRoom[a] = None]

\* UNLINK and char_from_room.
Unlinked(w, a) == [w EXCEPT !.list = Without(@, {a}), !.inRoom[a] = None]

\* extract_char(a, true).  What the memory holds stays there, as far as a
\* Character allocated later could fight with it.
Extracted(w, a) ==
  [Unlinked(w, a) EXCEPT
     !.kind[a] = "free",
     !.level[a] = 0,
     !.experience[a] = 0,
     !.orphaned = @ \/ \E b \in Chars \ {a} : w.kind[b] # "free" /\ w.fighting[b] = a]

\* gain_exp: what the next level takes is computed once, experience is raised
\* to it, and the loop goes on until the last level.
gain_exp(w, a, gain) ==
  IF w.kind[a] # "pc" \/ w.level[a] > MAX_PLAYABLE_LEVEL THEN w
  ELSE LET tolvl == ToLevel[w.level[a]]
           exp   == Max({tolvl, w.experience[a] + gain})
       IN [w EXCEPT !.experience[a] = exp,
                    !.level[a] = IF exp >= tolvl THEN MAX_PLAYABLE_LEVEL ELSE @]

\* damage, when victim dies: an NPC is freed, a player only stops fighting.
Killed(w, a, victim, gain) ==
  LET won == gain_exp([w EXCEPT !.fighting[a] = None, !.kills = @ + 1], a, gain)
  IN IF won.kind[victim] = "npc" THEN Extracted(won, victim)
     ELSE [won EXCEPT !.fighting[victim] = None]

\* damage: a miss or a wound, or the end.
damage(w, a, victim) == {w} \cup {Killed(w, a, victim, gain) : gain \in Gains}

one_hit(w, a, victim) ==
  IF victim = a \/ w.inRoom[a] # w.inRoom[victim] THEN {w}
  ELSE damage(w, a, victim)

\* Mutant: the second hit does not ask whether the fight is over.
multi_hit_Twice(w, a, victim) ==
  one_hit(w, a, victim) \cup UNION {one_hit(x, a, victim) : x \in one_hit(w, a, victim)}

\* multi_hit: perhaps a second hit, unless the first one ended the fight.
multi_hit(w, a, victim) ==
  LET once == one_hit(w, a, victim)
  IN once \cup UNION {one_hit(x, a, victim) :
                        x \in {y \in once : y.fighting[a] = victim}}

-----------------------------------------------------------------------------
(* Coming and going, between two runs of violence_update.                  *)

Commands == ~corrupt /\ ch = None

InWorld(a) == a \in Range(first_character)

\* Mutant: the memory is not cleared.
Allocated_Dirty(w, a, k, l) ==
  [w EXCEPT !.kind[a] = k, !.level[a] = l, !.experience[a] = 0]

\* new_char: the memory is cleared.
Allocated(w, a, k, l) ==
  [w EXCEPT !.kind[a] = k, !.fighting[a] = None, !.level[a] = l,
            !.experience[a] = 0]

\* load_player_by_id or new_char, and set_playing.
Enter(a) ==
  /\ Commands /\ kind[a] = "free"
  /\ \E l \in Levels, r \in Rooms :
        Becomes(Linked(Allocated(World, a, "pc", l), a, r), None)
  /\ UNCHANGED turns

\* do_logout, or do_delete before it is confirmed.
Withdraw(a) ==
  /\ Commands /\ kind[a] = "pc" /\ InWorld(a)
  /\ Becomes(Unlinked(World, a), None)
  /\ UNCHANGED turns

\* client_confirm_delete_char, not confirmed: set_playing again.
Return(a) ==
  /\ Commands /\ kind[a] = "pc" /\ ~InWorld(a)
  /\ \E r \in Rooms : Becomes(Linked(World, a, r), None)
  /\ UNCHANGED turns

\* The session ends or the deletion is confirmed.
Depart(a) ==
  /\ Commands /\ kind[a] = "pc"
  /\ Becomes(Extracted(World, a), None)
  /\ UNCHANGED turns

\* reset_room's npc: loaded, listed, and put into the room unless it holds
\* enough of them.
Reset(a) ==
  /\ Commands /\ kind[a] = "free"
  /\ \E r \in Rooms \cup {None} :
        Becomes(Linked(Allocated(World, a, "npc", 1), a, r), None)
  /\ UNCHANGED turns

move_char(a) ==
  /\ Commands /\ kind[a] = "pc" /\ InWorld(a)
  /\ \E r \in Rooms : Becomes([World EXCEPT !.inRoom[a] = r], None)
  /\ UNCHANGED turns

-----------------------------------------------------------------------------
(* Fighting.                                                               *)

do_kill(a) ==
  /\ Commands /\ kind[a] = "pc" /\ InWorld(a)
  /\ \E victim \in Chars :
       /\ inRoom[victim] = inRoom[a]
       /\ \E w \in multi_hit([World EXCEPT !.fighting[victim] = a,
                                           !.fighting[a] = victim], a, victim) :
             Becomes(w, None)
  /\ UNCHANGED turns

do_kick(a) ==
  /\ Commands /\ kind[a] = "pc" /\ InWorld(a)
  /\ fighting[a] # None
  /\ \/ /\ kind[fighting[a]] # "free"
        /\ \E w \in multi_hit(World, a, fighting[a]) : Becomes(w, None)
        /\ UNCHANGED turns
     \/ kind[fighting[a]] = "free" /\ Corrupts

\* Mutant: every other character is passed over.
Following_Skips(a) ==
  LET i == CHOOSE j \in DOMAIN first_character : first_character[j] = a
  IN IF i + 2 > Len(first_character) THEN None ELSE first_character[i + 2]

\* ch->next.
Following(a) ==
  LET i == CHOOSE j \in DOMAIN first_character : first_character[j] = a
  IN IF i = Len(first_character) THEN None ELSE first_character[i + 1]

violence_update ==
  /\ Commands /\ first_character # <<>>
  /\ Becomes(World, Head(first_character))
  /\ turns' = {}

\* One turn of the loop of violence_update; what follows ch is read first.
Violence ==
  /\ ~corrupt /\ ch # None
  /\ IF kind[ch] = "free"
     THEN Corrupts
     ELSE LET victim == fighting[ch]
          IN \/ /\ victim = None \/ inRoom[ch] = None
                /\ Becomes(World, Following(ch))
                /\ turns' = turns \cup {ch}
             \/ /\ victim # None /\ inRoom[ch] # None
                /\ kind[victim] # "free"
                /\ IF inRoom[victim] = inRoom[ch]
                   THEN \E w \in multi_hit(World, ch, victim) :
                           Becomes(w, Following(ch))
                   ELSE Becomes([World EXCEPT !.fighting[ch] = None], Following(ch))
                /\ turns' = turns \cup {ch}
             \/ /\ victim # None /\ inRoom[ch] # None
                /\ kind[victim] = "free" /\ Corrupts

Next ==
  \/ Restart
  \/ violence_update \/ Violence
  \/ \E a \in Chars :
       \/ Enter(a) \/ Withdraw(a) \/ Return(a) \/ Depart(a) \/ Reset(a)
       \/ move_char(a) \/ do_kill(a) \/ do_kick(a)

Spec == Init /\ [][Next]_vars

-----------------------------------------------------------------------------
(* Properties.                                                             *)

\* The list names every character once, all of them allocated, and whoever
\* stands in a room is on it.
WorldIsListed ==
  /\ TypeOK
  /\ \A i, j \in DOMAIN first_character :
        first_character[i] = first_character[j] => i = j
  /\ \A a \in Chars : InWorld(a) => kind[a] # "free"
  /\ \A a \in Chars : inRoom[a] # None => InWorld(a)

\* A command or a turn kills, and pays for, one victim at most.
OneDeathAtATime == kills <= 1

\* Memory is lost only after a Character was freed that someone else was
\* fighting, or that the loop of violence_update was about to visit.
CorruptOnlyByOrphans == [][~corrupt /\ corrupt' => orphaned]_vars

\* When violence_update is over everyone left had one turn, and nobody fights
\* a character that is in another room.
EveryoneHadATurn ==
  [][ch # None /\ ch' = None /\ ~corrupt' =>
       \A a \in Range(first_character') :
         /\ a \in turns'
         /\ \/ inRoom'[a] = None \/ fighting'[a] = None
            \/ kind'[fighting'[a]] = "free"
            \/ inRoom'[fighting'[a]] = inRoom'[a]]_vars

=============================================================================
