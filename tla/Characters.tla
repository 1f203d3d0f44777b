----------------------------- MODULE Characters -----------------------------
(***************************************************************************)
(* Characters in the database: the tables character, player and nonplayer  *)
(* as player.c, nonplayer.c, character.c and account.c write and read them *)
(* through db.c, for the sessions of the accounts, the builders' editors   *)
(* of players and NPCs (server/olc_player.c, olc_npc.c) and a process that *)
(* may end between any two statements.                                     *)
(*                                                                         *)
(* A character has a row in character and one in player or nonplayer,      *)
(* which are to have the same number.  sql_insert_query leaves the id      *)
(* column out: character counts on, player and nonplayer take the number   *)
(* after their last.  Every account has a player, of the account's name;   *)
(* data stands for all that the player table keeps of one.                 *)
(***************************************************************************)
EXTENDS Naturals, FiniteSetsExt

CONSTANTS
  Accounts,  \* and their players
  Npc,       \* the name of an NPC
  MaxId,     \* bound: characters ever inserted
  None

VARIABLES
  playing,    \* playing[a]: the Character of the account's session, or None
  character,  \* the table: id to name
  lastId,     \* the last id of character
  player,     \* the table: rowid to account, data and, as history, for whom it was inserted
  saving,     \* saving[a]: between the statements of save_player, what the second one is, or "no"
  trouble     \* history: what happened that the tables do not survive

vars == <<playing, character, lastId, player, saving, trouble>>

Names == Accounts \cup {Npc}

TypeOK ==
  /\ \A a \in Accounts : playing[a] # None =>
       playing[a] \in [id : 0 .. MaxId, name : Names, data : Accounts]
  /\ DOMAIN character \subseteq 1 .. lastId /\ lastId \in 0 .. MaxId
  /\ \A i \in DOMAIN character : character[i] \in Names
  /\ DOMAIN player \subseteq 1 .. MaxId
  /\ \A i \in DOMAIN player : player[i] \in [account : Accounts, data : Accounts, for : Accounts]
  /\ saving \in [Accounts -> {"no", "insert", "update"}]
  /\ trouble \subseteq {"npc", "torn", "edit"}

Init ==
  /\ playing = [a \in Accounts |-> None]
  /\ character = [i \in {} |-> Npc] /\ lastId = 0
  /\ player = [i \in {} |-> None]
  /\ saving = [a \in Accounts |-> "no"]
  /\ trouble = {}

-----------------------------------------------------------------------------
(* Statements.                                                             *)

With(table, id, row) == [i \in DOMAIN table \cup {id} |-> IF i = id THEN row ELSE table[i]]
Deleted(table, id) == [i \in DOMAIN table \ {id} |-> table[i]]

\* sql_insert_query into player: the id column is left out.
Inserted(table, row) == With(table, Max({0} \cup DOMAIN table) + 1, row)

\* sql_update_query: nothing happens, and nobody is told, if there is no row.
Updated(table, id, row) == IF id \in DOMAIN table THEN [table EXCEPT ![id] = row] ELSE table

\* load_account_players: the view pc_chars.
Listed(a) == {i \in DOMAIN player \cap DOMAIN character : player[i].account = a}

-----------------------------------------------------------------------------
(* The session of an account.                                              *)

Idle == \A a \in Accounts : saving[a] = "no"

\* A new character of the menus; it has no id until it is saved.
new_player(a) ==
  /\ Idle /\ playing[a] = None /\ Listed(a) = {}
  /\ playing' = [playing EXCEPT ![a] = [id |-> 0, name |-> a, data |-> a]]
  /\ UNCHANGED <<character, lastId, player, saving, trouble>>

\* load_player_by_id of what the account lists.
load_player_by_id(a) ==
  /\ Idle /\ playing[a] = None
  /\ \E i \in Listed(a) :
       playing' = [playing EXCEPT ![a] =
                     [id |-> i, name |-> character[i], data |-> player[i].data]]
  /\ UNCHANGED <<character, lastId, player, saving, trouble>>

\* save_player as far as save_character.
save_character(a) ==
  /\ Idle /\ playing[a] # None
  /\ LET ch == playing[a]
     IN IF ch.id = 0
        THEN /\ lastId < MaxId /\ lastId' = lastId + 1
             /\ character' = With(character, lastId + 1, ch.name)
             /\ playing' = [playing EXCEPT ![a].id = lastId + 1]
        ELSE /\ character' = Updated(character, ch.id, ch.name)
             /\ UNCHANGED <<lastId, playing>>
  /\ saving' = [saving EXCEPT ![a] = IF playing[a].id = 0 THEN "insert" ELSE "update"]
  /\ UNCHANGED <<player, trouble>>

\* Mutant: what was saved is inserted once more.
PlayerRow_Again(a, insert) ==
  LET ch == playing[a]
      row == [account |-> a, data |-> ch.data, for |-> ch.name]
  IN Inserted(player, row)

\* The row of player after the second statement.
PlayerRow(a, insert) ==
  LET ch == playing[a]
      row == [account |-> a, data |-> ch.data, for |-> ch.name]
  IN IF insert THEN Inserted(player, row)
     ELSE IF ch.id \in DOMAIN player
          THEN Updated(player, ch.id, [row EXCEPT !.for = player[ch.id].for]) ELSE player

\* The rest of save_player.  The insert may fail by itself, which is reported
\* but not undone: the character has an id now.
save_player(a) ==
  /\ saving[a] # "no"
  /\ \/ /\ player' = PlayerRow(a, saving[a] = "insert")
        /\ DOMAIN player' \subseteq 1 .. MaxId
        /\ UNCHANGED trouble
     \/ /\ saving[a] = "insert"
        /\ trouble' = trouble \cup {"torn"}
        /\ UNCHANGED player
  /\ saving' = [saving EXCEPT ![a] = "no"]
  /\ UNCHANGED <<playing, character, lastId>>

\* quit and the like.
quit(a) ==
  /\ Idle /\ playing[a] # None
  /\ playing' = [playing EXCEPT ![a] = None]
  /\ UNCHANGED <<character, lastId, player, saving, trouble>>

\* Mutant: the row of player goes as well, as the statement is meant to do.
delete_player_Both(a) ==
  /\ Idle /\ playing[a] # None
  /\ character' = Deleted(character, playing[a].id)
  /\ player' = Deleted(player, playing[a].id)
  /\ playing' = [playing EXCEPT ![a] = None]
  /\ UNCHANGED <<lastId, saving, trouble>>

\* client_confirm_delete_char: the second statement of delete_player names a
\* column that no row of player has a value in.
delete_player(a) ==
  /\ Idle /\ playing[a] # None
  /\ character' = Deleted(character, playing[a].id)
  /\ playing' = [playing EXCEPT ![a] = None]
  /\ UNCHANGED <<lastId, player, saving, trouble>>

\* The process ends, perhaps in the middle of save_player.
Restart ==
  /\ playing' = [a \in Accounts |-> None]
  /\ trouble' = IF \E a \in Accounts : saving[a] = "insert" THEN trouble \cup {"torn"} ELSE trouble
  /\ saving' = [a \in Accounts |-> "no"]
  /\ UNCHANGED <<character, lastId, player>>

-----------------------------------------------------------------------------
(* The editors.                                                            *)

\* save_npc of a new NPC, by the npc editor, an area or the importer.
save_npc ==
  /\ Idle /\ lastId < MaxId
  /\ lastId' = lastId + 1
  /\ character' = With(character, lastId + 1, Npc)
  /\ trouble' = trouble \cup {"npc"}
  /\ UNCHANGED <<playing, player, saving>>

delete_npc ==
  /\ Idle
  /\ \E i \in DOMAIN character : character[i] = Npc /\ character' = Deleted(character, i)
  /\ UNCHANGED <<playing, lastId, player, saving, trouble>>

\* edit player, of one who is not playing, and save: load_player_by_name joins
\* without a condition, which gives the first row of player, and save_player
\* writes the builder's account.
player_editor(b) ==
  /\ Idle /\ playing[b] # None /\ player # <<>>
  /\ \E i \in DOMAIN character :
       /\ character[i] \in Accounts
       /\ \A a \in Accounts : playing[a] # None => playing[a].name # character[i]
       /\ i \in DOMAIN player
       /\ player' = Updated(player, i, [account |-> b, data |-> player[Min(DOMAIN player)].data,
                                        for |-> player[i].for])
  /\ trouble' = trouble \cup {"edit"}
  /\ UNCHANGED <<playing, character, lastId, saving>>

Next ==
  \/ Restart \/ save_npc \/ delete_npc
  \/ \E a \in Accounts :
       \/ new_player(a) \/ load_player_by_id(a) \/ save_character(a) \/ save_player(a)
       \/ quit(a) \/ delete_player(a) \/ player_editor(a)

Spec == Init /\ [][Next]_vars

-----------------------------------------------------------------------------
(* Properties.                                                             *)

\* The rows of a character have the same number, although nothing but the order
\* of the inserts sees to it, over restarts and deletions; until an NPC is
\* saved or a save stops half way.
RowsInStep ==
  (trouble \subseteq {"edit"} /\ Idle) =>
    /\ DOMAIN player = 1 .. lastId
    /\ \A i \in DOMAIN character : character[i] = player[i].for

\* Who logs in finds the own character as it was left, unless an NPC was saved,
\* a save stopped half way or a builder saved somebody who was not playing.
PlaysOwn ==
  trouble = {} =>
    \A a \in Accounts : playing[a] # None => playing[a].name = a /\ playing[a].data = a
=============================================================================
