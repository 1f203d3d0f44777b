------------------------------- MODULE Session -------------------------------
(***************************************************************************)
(* The life of a player's connection: the game loop of server/server.c     *)
(* (one thread, four passes an iteration) and the handlers of              *)
(* server/client.c, from the login prompt to the account menu, the game    *)
(* and the way out.  A connection owns an Account, and the Account points  *)
(* at the Character being played; the Character points back at the         *)
(* connection and is threaded on three intrusive lists.  Nothing keeps     *)
(* those pointers in step but the order in which the handlers run.         *)
(*                                                                         *)
(* Characters are heap addresses: conn[a] is a->pc->conn while a is        *)
(* allocated and None once destroy_char freed it, and an address that was  *)
(* freed can be handed out again while an old pointer still names it.      *)
(* Freeing what is freed already, or a Character the session does not own, *)
(* leaves the heap to the C library: the module says so (server =          *)
(* "corrupt"), promises nothing from there on and follows the sessions no  *)
(* further.                                                                *)
(* What the database answers is any answer it can give.                    *)
(***************************************************************************)
EXTENDS Naturals, FiniteSets

CONSTANTS Clients,  \* client descriptors (slots that are reused)
          Chars,    \* addresses a Character can be allocated at
          None      \* the null pointer

ASSUME SessionAssumption == None \notin Clients \cup Chars

\* The handlers before the account's password has been given.
Login == {"get_account_name", "get_account_password", "create_account",
          "create_account_password", "confirm_account_password"}

\* The handlers of a session that is at its account, not in the world.
AtMenu == {"create_account_email", "get_timezone", "account_menu",
           "confirm_account_delete", "create_new_char", "get_char_sex",
           "get_race", "get_class"}

\* The handlers of a session whose character stands in the world; "note"
\* is any of the connection_note_ handlers.
InGame == {"command_parser", "note"}

\* "null" is handler == 0, "closed" a descriptor with no Client.
Handlers == Login \cup AtMenu \cup InGame
              \cup {"confirm_delete_char", "null", "closed"}

VARIABLES
  server,           \* "up", "stopping" (do_shutdown ran), "corrupt" or "dead"
  phase,            \* the pass of game_loop that is running
  todo,             \* the clients that pass has still to visit
  handler,          \* Client.handler
  account,          \* Client.account: "none", "live" or "freed"
  players,          \* Account.players: "none", "list" or "loop"
  playing,          \* Account.playing
  password_retries, \* Client.password_retries
  conn,             \* Character.pc->conn, None for unallocated memory
  first_character,  \* the list of characters in the world (players only)
  first_player,     \* the list of players in the world
  inRoom,           \* the characters on some room's list
  proven            \* history: this session gave its account's password

loop    == <<server, phase, todo>>
session == <<handler, account, players, playing, password_retries, proven>>
world   == <<conn, first_character, first_player, inRoom>>
vars    == <<loop, session, world>>

TypeOK ==
  /\ server \in {"up", "stopping", "corrupt", "dead"}
  /\ phase \in {"accept", "kick", "input", "output"}
  /\ todo \subseteq Clients
  /\ handler \in [Clients -> Handlers]
  /\ account \in [Clients -> {"none", "live", "freed"}]
  /\ players \in [Clients -> {"none", "list", "loop"}]
  /\ playing \in [Clients -> Chars \cup {None}]
  /\ password_retries \in [Clients -> 0 .. 2]
  /\ conn \in [Chars -> Clients \cup {None}]
  /\ first_character \subseteq Chars
  /\ first_player \subseteq Chars
  /\ inRoom \subseteq Chars
  /\ proven \in [Clients -> BOOLEAN]

Init ==
  /\ server = "up"
  /\ phase = "accept"
  /\ todo = {}
  /\ handler = [c \in Clients |-> "closed"]
  /\ account = [c \in Clients |-> "none"]
  /\ players = [c \in Clients |-> "none"]
  /\ playing = [c \in Clients |-> None]
  /\ password_retries = [c \in Clients |-> 0]
  /\ conn = [a \in Chars |-> None]
  /\ first_character = {}
  /\ first_player = {}
  /\ inRoom = {}
  /\ proven = [c \in Clients |-> FALSE]

-----------------------------------------------------------------------------
(* Pointers and lists.                                                     *)

Open == {c \in Clients : handler[c] # "closed"}

\* account->playing names a Character that is allocated and this session's.
Owns(c) == playing[c] # None /\ conn[playing[c]] = c

\* account->playing names a Character that is freed or another session's.
Stale(c) == playing[c] # None /\ conn[playing[c]] # c

\* The addresses no pointer names: freed, or leaked by a handler that
\* overwrote account->playing.
Forgotten == {a \in Chars : a \notin first_player
                              /\ \A c \in Clients : playing[c] # a}

\* What malloc can return.  Exhausting Chars bounds the model, not the code.
Allocatable == {a \in Chars : conn[a] = None} \cup Forgotten

\* LINK and char_to_room of set_playing, on the list heads.
Linked(a) ==
  /\ first_character' = first_character \cup {a}
  /\ first_player' = first_player \cup {a}
  /\ inRoom' = inRoom \cup {a}

\* char_from_room and the two UNLINKs.
Unlinked(a) ==
  /\ first_character' = first_character \ {a}
  /\ first_player' = first_player \ {a}
  /\ inRoom' = inRoom \ {a}

\* The end of what the module follows: the process is gone with its memory
\* ("dead": it exited, or walks for ever a list that loops), or its heap is
\* no longer what the code believes ("corrupt").
Lost(end) ==
  /\ server' = end
  /\ phase' = "accept"
  /\ todo' = {}
  /\ handler' = [c \in Clients |-> "closed"]
  /\ account' = [c \in Clients |-> "none"]
  /\ players' = [c \in Clients |-> "none"]
  /\ playing' = [c \in Clients |-> None]
  /\ password_retries' = [c \in Clients |-> 0]
  /\ conn' = [a \in Chars |-> None]
  /\ first_character' = {}
  /\ first_player' = {}
  /\ inRoom' = {}
  /\ proven' = [c \in Clients |-> FALSE]

Dies == Lost("dead")
Corrupts == Lost("corrupt")

Running == server \in {"up", "stopping"}

-----------------------------------------------------------------------------
(* Leaving: extract_char, free_account and close_client.                   *)

\* extract_char(a, true): off the lists, then destroy_char.
Extracted(a) ==
  /\ Unlinked(a)
  /\ conn' = [conn EXCEPT ![a] = None]

\* free_account extracts the Character account->playing names.
FreesCharacter(c) ==
  IF playing[c] = None
  THEN UNCHANGED world
  ELSE Extracted(playing[c])

\* Mutant: free_account does not ask whether account->playing is null.
BadFree_NoNullCheck(c) ==
  \/ account[c] = "freed" \/ players[c] = "loop"
  \/ account[c] = "live" /\ ~Owns(c)

\* free_account frees what is not there to free: an Account freed before, a
\* Character that is freed or another session's, or, round and round, the
\* nodes of a players list that loops.
BadFree(c) == account[c] = "freed" \/ Stale(c) \/ players[c] = "loop"

\* Mutant: only a client at the command prompt frees its Character.
CloseClient_KeepsCharacter(c) ==
  /\ ~BadFree(c)
  /\ IF handler[c] = "command_parser" THEN FreesCharacter(c) ELSE UNCHANGED world
  /\ handler' = [handler EXCEPT ![c] = "closed"]
  /\ account' = [account EXCEPT ![c] = "none"]
  /\ players' = [players EXCEPT ![c] = "none"]
  /\ playing' = [playing EXCEPT ![c] = None]
  /\ password_retries' = [password_retries EXCEPT ![c] = 0]
  /\ proven' = [proven EXCEPT ![c] = FALSE]

\* close_client: the Client leaves first_client and is freed with its
\* Account and the Character that Account names.
CloseClient(c) ==
  /\ ~BadFree(c)
  /\ FreesCharacter(c)
  /\ handler' = [handler EXCEPT ![c] = "closed"]
  /\ account' = [account EXCEPT ![c] = "none"]
  /\ players' = [players EXCEPT ![c] = "none"]
  /\ playing' = [playing EXCEPT ![c] = None]
  /\ password_retries' = [password_retries EXCEPT ![c] = 0]
  /\ proven' = [proven EXCEPT ![c] = FALSE]

-----------------------------------------------------------------------------
(* The passes of game_loop.                                                *)

InPass(p, c) == Running /\ phase = p /\ c \in todo

Visited(c) == todo' = todo \ {c} /\ UNCHANGED <<server, phase>>

\* A pass over first_client: the clients it visits are those that were
\* open when it began.
BeginPass(p) ==
  /\ phase' = p
  /\ todo' = Open
  /\ UNCHANGED <<server, session, world>>

\* initialize_client: at most one connection is accepted an iteration.
Accept(c) ==
  /\ Running /\ phase = "accept"
  /\ handler[c] = "closed"
  /\ handler' = [handler EXCEPT ![c] = "get_account_name"]
  /\ phase' = "kick"
  /\ todo' = Open \cup {c}
  /\ UNCHANGED <<server, account, players, playing, password_retries,
                 proven, world>>

AcceptNone == Running /\ phase = "accept" /\ BeginPass("kick")

\* The kick-out pass: a socket exception or handler == 0 closes the client.
Kick(c) ==
  /\ InPass("kick", c)
  /\ \/ CloseClient(c) /\ Visited(c)
     \/ BadFree(c) /\ Corrupts

\* Mutant: a cleared handler alone does not close the client.
NotKicked_ExceptionOnly(c) ==
  InPass("kick", c) /\ Visited(c) /\ UNCHANGED <<session, world>>

NotKicked(c) ==
  /\ InPass("kick", c)
  /\ handler[c] # "null"
  /\ Visited(c)
  /\ UNCHANGED <<session, world>>

\* Mutant: only sessions in the world get a turn.
KickDone_PlayersOnly ==
  /\ Running /\ phase = "kick" /\ todo = {}
  /\ phase' = "input"
  /\ todo' = {c \in Open : handler[c] \in InGame}
  /\ UNCHANGED <<server, session, world>>

KickDone == /\ Running /\ phase = "kick" /\ todo = {}
            /\ BeginPass("input")

\* recv fails or the peer is gone: the client is closed on the spot.
LinkLost(c) ==
  /\ InPass("input", c)
  /\ \/ CloseClient(c) /\ Visited(c)
     \/ BadFree(c) /\ Corrupts

\* No complete line this iteration, or one the handler answers with a
\* prompt and nothing else.
Idle(c) ==
  /\ InPass("input", c)
  /\ Visited(c)
  /\ UNCHANGED <<session, world>>

InputDone == /\ Running /\ phase = "input" /\ todo = {}
             /\ BeginPass("output")

\* process_output: a write error closes the client.
Output(c) ==
  /\ InPass("output", c)
  /\ \/ Visited(c) /\ UNCHANGED <<session, world>>
     \/ CloseClient(c) /\ Visited(c)
     \/ BadFree(c) /\ Corrupts

\* Back to the while condition: after do_shutdown the process ends here.
IterationDone ==
  /\ Running /\ phase = "output" /\ todo = {}
  /\ IF server = "stopping"
     THEN Dies
     ELSE /\ phase' = "accept"
          /\ UNCHANGED <<server, todo, session, world>>

\* A corrupt heap may end the process at any moment, or never.
Crash == server = "corrupt" /\ Lost("dead")

\* An operator starts the server again.
Restart ==
  /\ server = "dead"
  /\ server' = "up"
  /\ UNCHANGED <<phase, todo, session, world>>

-----------------------------------------------------------------------------
(* The handlers before the account menu.                                   *)

\* The input pass hands client c a line while its handler is h.
Line(c, h) == InPass("input", c) /\ handler[c] = h

Becomes(c, h) == handler' = [handler EXCEPT ![c] = h]

\* load_account, that finds the login: load_account_players links the same
\* node once for each row, so the players of an account with two characters
\* are a list without end.
load_account(c) ==
  \E list \in {"none", "list", "loop"} : players' = [players EXCEPT ![c] = list]

client_get_account_name(c) ==
  /\ Line(c, "get_account_name") /\ Visited(c)
  /\ account' = [account EXCEPT ![c] = "live"]
  /\ playing' = [playing EXCEPT ![c] = None]
  /\ \/ Becomes(c, "create_account")
        /\ players' = [players EXCEPT ![c] = "none"]
     \/ Becomes(c, "get_account_password") /\ load_account(c)
  /\ UNCHANGED <<password_retries, proven, world>>

client_create_account(c) ==
  /\ Line(c, "create_account") /\ Visited(c)
  /\ \/ Becomes(c, "create_account_password")
     \/ Becomes(c, "get_account_name")
  /\ UNCHANGED <<account, players, playing, password_retries, proven, world>>

client_create_account_password(c) ==
  /\ Line(c, "create_account_password") /\ Visited(c)
  /\ Becomes(c, "confirm_account_password")
  /\ UNCHANGED <<account, players, playing, password_retries, proven, world>>

client_confirm_account_password(c) ==
  /\ Line(c, "confirm_account_password") /\ Visited(c)
  /\ \/ Becomes(c, "create_account_password") /\ UNCHANGED proven
     \/ Becomes(c, "create_account_email")
        /\ proven' = [proven EXCEPT ![c] = TRUE]
  /\ UNCHANGED <<account, players, playing, password_retries, world>>

client_create_account_email(c) ==
  /\ Line(c, "create_account_email") /\ Visited(c)
  /\ Becomes(c, "get_timezone")
  /\ UNCHANGED <<account, players, playing, password_retries, proven, world>>

\* client_display_account_menu walks account->players to its end.  Sessions
\* that come from the menu, or from a new account, have a list that ends.
ShowMenu(c) == players[c] # "loop" /\ Becomes(c, "account_menu")
ShowMenuHangs(c) == players[c] = "loop" /\ Dies

client_get_timezone(c) ==
  /\ Line(c, "get_timezone") /\ Visited(c)
  /\ Becomes(c, "account_menu")
  /\ UNCHANGED <<account, players, playing, password_retries, proven, world>>

-----------------------------------------------------------------------------
(* Entering the world.                                                     *)

\* set_playing: LINK on both lists and char_to_room.  LINK on a character
\* that is listed already would close the list on itself (LinkedOnce).
SetPlaying(c, a) == Linked(a) /\ Becomes(c, "command_parser")

\* load_player_by_id or new_char: a Character of c at a fresh address.
NewChar(c, a) ==
  /\ a \in Allocatable
  /\ conn' = [conn EXCEPT ![a] = c]
  /\ playing' = [playing EXCEPT ![c] = a]

\* The load fails only when the query cannot be prepared.
LoadFails(c) ==
  /\ playing' = [playing EXCEPT ![c] = None]
  /\ UNCHANGED world

LoadAndPlay(c) ==
  \E a \in Allocatable : NewChar(c, a) /\ SetPlaying(c, a)

\* Mutant: no return after the third wrong password.
WrongPassword_FallsThrough(c) ==
  /\ Line(c, "get_account_password") /\ Visited(c)
  /\ IF password_retries[c] >= 2
     THEN ShowMenu(c) /\ UNCHANGED password_retries
     ELSE /\ password_retries' = [password_retries EXCEPT ![c] = @ + 1]
          /\ UNCHANGED handler
  /\ UNCHANGED <<account, players, playing, proven, world>>

WrongPassword(c) ==
  /\ Line(c, "get_account_password") /\ Visited(c)
  /\ IF password_retries[c] >= 2
     THEN Becomes(c, "null") /\ UNCHANGED password_retries
     ELSE /\ password_retries' = [password_retries EXCEPT ![c] = @ + 1]
          /\ UNCHANGED handler
  /\ UNCHANGED <<account, players, playing, proven, world>>

\* The right password: the character autologinId names enters the world,
\* and without one the menu is shown.  When the load fails the handler
\* still asks for the password.
RightPassword(c) ==
  /\ Line(c, "get_account_password")
  /\ \/ /\ Visited(c)
        /\ proven' = [proven EXCEPT ![c] = TRUE]
        /\ \/ ShowMenu(c) /\ UNCHANGED <<playing, world>>
           \/ players[c] # "none" /\ LoadAndPlay(c)
           \/ players[c] # "none" /\ LoadFails(c) /\ UNCHANGED handler
        /\ UNCHANGED <<account, players, password_retries>>
     \/ ShowMenuHangs(c)

client_get_account_password(c) == WrongPassword(c) \/ RightPassword(c)

\* client_account_menu: a number plays that character; (C)reate, (D)elete
\* account, (E)xit.
client_account_menu(c) ==
  /\ Line(c, "account_menu") /\ Visited(c)
  /\ \/ players[c] # "none" /\ LoadAndPlay(c)
     \/ players[c] # "none" /\ LoadFails(c) /\ UNCHANGED handler
     \/ /\ \/ Becomes(c, "create_new_char")
           \/ Becomes(c, "confirm_account_delete")
           \/ Becomes(c, "null")
        /\ UNCHANGED <<playing, world>>
  /\ UNCHANGED <<account, players, password_retries, proven>>

client_create_new_char(c) ==
  /\ Line(c, "create_new_char") /\ Visited(c)
  /\ Becomes(c, "get_char_sex")
  /\ \E a \in Allocatable : NewChar(c, a)
  /\ UNCHANGED <<account, players, password_retries, proven, first_character,
                 first_player, inRoom>>

\* client_get_char_sex and client_get_race write to account->playing.
client_get_char_sex(c) ==
  /\ Line(c, "get_char_sex") /\ Visited(c)
  /\ Becomes(c, "get_race")
  /\ UNCHANGED <<account, players, playing, password_retries, proven, world>>

client_get_race(c) ==
  /\ Line(c, "get_race") /\ Visited(c)
  /\ Becomes(c, "get_class")
  /\ UNCHANGED <<account, players, playing, password_retries, proven, world>>

client_get_class(c) ==
  /\ Line(c, "get_class") /\ Visited(c)
  /\ SetPlaying(c, playing[c])
  /\ players' = [players EXCEPT ![c] = IF @ = "none" THEN "list" ELSE @]
  /\ UNCHANGED <<account, playing, password_retries, proven, conn>>

\* client_confirm_account_delete: free_account takes the Character along and
\* leaves conn->account pointing at freed memory for close_client.
client_confirm_account_delete(c) ==
  /\ Line(c, "confirm_account_delete")
  /\ \/ /\ Visited(c)
        /\ Becomes(c, "account_menu")
        /\ UNCHANGED <<account, players, playing, password_retries, proven,
                       world>>
     \/ /\ ~BadFree(c) /\ Visited(c)
        /\ FreesCharacter(c)
        /\ account' = [account EXCEPT ![c] = "freed"]
        /\ Becomes(c, "null")
        /\ UNCHANGED <<players, playing, password_retries, proven>>
     \/ BadFree(c) /\ Corrupts

-----------------------------------------------------------------------------
(* In the world.  A command runs for ch = account->playing and reaches the *)
(* connection through ch->pc->conn.                                        *)

Command(c) == Line(c, "command_parser")

\* A client whose account, or whose character, is no memory to read from.
NotPrintable(d) ==
  \/ account[d] # "live"
  \/ playing[d] # None /\ conn[playing[d]] = None

\* Mutant: do_quit with its commented-out extract_char(ch, true) restored.
do_quit_Extracts(c) ==
  /\ Command(c) /\ Visited(c)
  /\ Extracted(playing[c])
  /\ Becomes(c, "null")
  /\ UNCHANGED <<account, players, playing, password_retries, proven>>

\* do_quit only clears the handler: the character stays in the world until
\* the next kick-out pass.
do_quit(c) ==
  /\ Command(c) /\ Visited(c)
  /\ Becomes(c, "null")
  /\ UNCHANGED <<account, players, playing, password_retries, proven, world>>

\* Mutant: do_logout leaves first_player as it is.
do_logout_StaysListed(c) ==
  /\ Command(c)
  /\ \/ /\ Visited(c)
        /\ first_character' = first_character \ {playing[c]}
        /\ inRoom' = inRoom \ {playing[c]}
        /\ ShowMenu(c)
        /\ UNCHANGED <<account, players, playing, password_retries, proven,
                       conn, first_player>>
     \/ ShowMenuHangs(c)

do_logout(c) ==
  /\ Command(c)
  /\ \/ /\ Visited(c)
        /\ Unlinked(playing[c])
        /\ ShowMenu(c)
        /\ UNCHANGED <<account, players, playing, password_retries, proven,
                       conn>>
     \/ ShowMenuHangs(c)

\* Mutant: do_delete asks for confirmation without unlinking the character.
do_delete_StaysListed(c) ==
  /\ Command(c) /\ Visited(c)
  /\ Becomes(c, "confirm_delete_char")
  /\ UNCHANGED <<account, players, playing, password_retries, proven, world>>

do_delete(c) ==
  /\ Command(c) /\ Visited(c)
  /\ Unlinked(playing[c])
  /\ Becomes(c, "confirm_delete_char")
  /\ UNCHANGED <<account, players, playing, password_retries, proven, conn>>

\* do_sockets follows the account and the character of every client, logged
\* in or not: it dies on a null account, and may die on a freed one.
do_sockets(c) ==
  /\ Command(c)
  /\ \E d \in Open : NotPrintable(d)
  /\ Dies

do_shutdown(c) ==
  /\ Command(c)
  /\ server' = "stopping"
  /\ todo' = todo \ {c}
  /\ UNCHANGED <<phase, session, world>>

note_write(c) ==
  /\ Command(c) /\ Visited(c)
  /\ Becomes(c, "note")
  /\ UNCHANGED <<account, players, playing, password_retries, proven, world>>

\* connection_note_finish: posting and cancelling both return to the game.
connection_note_finish(c) ==
  /\ Line(c, "note") /\ Visited(c)
  /\ Becomes(c, "command_parser")
  /\ UNCHANGED <<account, players, playing, password_retries, proven, world>>

\* client_confirm_delete_char: anything but the password puts the character
\* back; the password frees it and leaves account->playing as it was.
client_confirm_delete_char(c) ==
  /\ Line(c, "confirm_delete_char")
  /\ \/ /\ Visited(c)
        /\ SetPlaying(c, playing[c])
        /\ UNCHANGED <<account, players, playing, password_retries, proven,
                       conn>>
     \/ /\ Visited(c)
        /\ Extracted(playing[c])
        /\ ShowMenu(c)
        /\ UNCHANGED <<account, players, playing, password_retries, proven>>
     \/ ShowMenuHangs(c)

-----------------------------------------------------------------------------
Handler(c) ==
  \/ client_get_account_name(c)
  \/ client_create_account(c)
  \/ client_create_account_password(c)
  \/ client_confirm_account_password(c)
  \/ client_create_account_email(c)
  \/ client_get_timezone(c)
  \/ client_get_account_password(c)
  \/ client_account_menu(c)
  \/ client_create_new_char(c)
  \/ client_get_char_sex(c)
  \/ client_get_race(c)
  \/ client_get_class(c)
  \/ client_confirm_account_delete(c)
  \/ client_confirm_delete_char(c)
  \/ connection_note_finish(c)

Commands(c) ==
  \/ do_quit(c)
  \/ do_logout(c)
  \/ do_delete(c)
  \/ do_shutdown(c)
  \/ do_sockets(c)
  \/ note_write(c)

game_loop ==
  \/ AcceptNone
  \/ KickDone
  \/ InputDone
  \/ IterationDone
  \/ \E c \in Clients :
       \/ Accept(c)
       \/ Kick(c) \/ NotKicked(c)
       \/ LinkLost(c) \/ Idle(c)
       \/ Handler(c) \/ Commands(c)
       \/ Output(c)

Next == game_loop \/ Crash \/ Restart

Spec == Init /\ [][Next]_vars

\* The process runs as long as it lives: the operating system schedules it
\* and every pass over the clients is finite.
FairSpec == Spec /\ WF_vars(game_loop)

-----------------------------------------------------------------------------
(* Properties.                                                             *)

\* The handlers that follow account->playing without a check.
UsesPlaying == InGame \cup {"get_char_sex", "get_race", "get_class",
                            "confirm_delete_char"}

\* A handler that uses account->playing finds its own session's Character,
\* whatever was freed and reused meanwhile.  The character stands in the
\* world while the session is at the command prompt or writing a note
\* (do_quit leaves it there for one pass more), and first_player names
\* nobody else: no freed memory, no player without a connection.
PlayersAreOwned ==
  /\ \A c \in Clients :
        /\ handler[c] \in UsesPlaying => Owns(c)
        /\ handler[c] \in InGame => playing[c] \in first_player
  /\ \A a \in first_player : \E c \in Clients :
        /\ conn[a] = c /\ playing[c] = a
        /\ handler[c] \in InGame \cup {"null"}

\* A character is only linked while it is on no list: LINK on a member would
\* close the list on itself and the next walk over it would never end.
LinkedOnce ==
  [][\A c \in Clients :
       handler[c] # handler'[c] /\ handler'[c] = "command_parser"
       /\ handler[c] # "note"
       => playing'[c] \notin first_player]_vars

\* The three lists set_playing, do_logout, do_delete and extract_char keep by
\* hand name the same players.
ListsAgree == first_character = first_player /\ inRoom = first_player

\* Nobody reaches an account's menu, a character or the world without having
\* given that account's password on this connection.
Authenticated ==
  \A c \in Clients :
    \/ handler[c] \in AtMenu \cup InGame \cup {"confirm_delete_char"}
    \/ playing[c] # None
    => proven[c]

\* Only the confirmed deletion of the character or of the account leaves a
\* session naming a Character that is not its own: no other session, and no
\* reuse of an address, does that to it.
StaleOnlyByDeletion ==
  [][\A c \in Clients :
       ~Stale(c) /\ Stale(c)' =>
          \/ handler[c] = "confirm_delete_char" /\ handler'[c] = "account_menu"
          \/ handler[c] = "confirm_account_delete" /\ handler'[c] = "null"]_vars

\* The heap is corrupted only through a session that deleted its character
\* or its account, or whose account has several characters.  The process is
\* lost only when told to stop, on the character list of such an account, or
\* when someone in the world asks for the sockets while another session has
\* no account or a character that is gone.
LostOnlyForCause ==
  [][/\ server' = "corrupt" /\ server # "corrupt" =>
          \E c \in Clients :
             Stale(c) \/ account[c] = "freed" \/ players[c] = "loop"
     /\ server' = "dead" /\ Running =>
          \/ server = "stopping"
          \/ \E c \in Clients : players[c] = "loop"
          \/ \E c, d \in Open : /\ handler[c] = "command_parser"
                                /\ account[d] # "live" \/ Stale(d)]_vars

\* A session whose handler was cleared (do_quit, (E)xit, three wrong
\* passwords, a deleted account) is disconnected, if the process lives.
LeavingEnds ==
  \A c \in Clients :
    handler[c] = "null" ~> (handler[c] = "closed" \/ ~Running)

\* Every connection gets its turn in the input pass again and again.
EveryoneIsServed ==
  \A c \in Clients :
    handler[c] # "closed" ~>
       \/ handler[c] = "closed" \/ ~Running
       \/ phase = "input" /\ c \in todo

-----------------------------------------------------------------------------
(* The sessions implement Presence.                                        *)

StageOf(h) ==
  CASE h = "closed" -> "out"
    [] h \in Login -> "login"
    [] h \in AtMenu \cup {"confirm_delete_char"} -> "menu"
    [] h \in InGame -> "world"
    [] h = "null" -> "leaving"

Abstract == INSTANCE Presence
              WITH stage <- [c \in Clients |-> StageOf(handler[c])],
                   visible <- {conn[a] : a \in first_player}

\* The handlers and their pointers keep the promise of Presence: every step
\* of the game loop is one of its steps or leaves it alone.
PresenceSpec == Abstract!Spec
=============================================================================
