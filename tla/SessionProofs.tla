---------------------------- MODULE SessionProofs ----------------------------
(***************************************************************************)
(* Theorems about Session, for any set of connections and any heap.        *)
(***************************************************************************)
EXTENDS Session, TLAPS

\* What the properties need to be inductive: a session holds no character
\* before it has logged in, and the players of an account at its menu are a
\* list that ends, as those of a new account do.
Lifecycle ==
  \A c \in Clients :
    /\ handler[c] \in Login \cup {"closed"} => playing[c] = None
    /\ handler[c] \in AtMenu => players[c] # "loop"
    /\ handler[c] \in {"create_account", "create_account_password",
                       "confirm_account_password"} => players[c] = "none"

IInv == TypeOK /\ PlayersAreOwned /\ ListsAgree /\ Authenticated /\ Lifecycle

USE SessionAssumption
USE DEF TypeOK, Handlers, Login, AtMenu, InGame, UsesPlaying, Owns, Stale

LEMMA InitIInv == Init => IInv
  BY DEF Init, IInv, PlayersAreOwned, ListsAgree, Authenticated, Lifecycle

\* Losing the process leaves nothing to be inconsistent.
LEMMA LostIInv ==
  ASSUME IInv, NEW end \in {"corrupt", "dead"}, Lost(end)
  PROVE  IInv'
  BY DEF Lost, IInv, PlayersAreOwned, ListsAgree, Authenticated, Lifecycle

\* Closing a client takes its own character off the lists and no other.
LEMMA CloseIInv ==
  ASSUME IInv, NEW c \in Clients, CloseClient(c), Visited(c)
  PROVE  IInv'
<1>1. TypeOK'
  BY DEF CloseClient, FreesCharacter, Extracted, Unlinked, Visited, IInv, world
<1>2. PlayersAreOwned'
  BY DEF CloseClient, FreesCharacter, BadFree, Extracted, Unlinked, IInv,
         PlayersAreOwned, world
<1>3. ListsAgree'
  BY DEF CloseClient, FreesCharacter, Extracted, Unlinked, IInv, ListsAgree, world
<1>4. Authenticated'
  BY DEF CloseClient, IInv, Authenticated
<1>5. Lifecycle'
  BY DEF CloseClient, FreesCharacter, BadFree, Extracted, Unlinked, IInv,
         Lifecycle, world
<1> QED
  BY <1>1, <1>2, <1>3, <1>4, <1>5 DEF IInv

-----------------------------------------------------------------------------
(* The handlers, one lemma per way they touch the world.                   *)

\* Steps that move sessions between handlers and leave every pointer alone.
LEMMA HandlerIInv ==
  ASSUME IInv, NEW c \in Clients,
         \/ client_create_account(c)
         \/ client_create_account_password(c)
         \/ client_confirm_account_password(c)
         \/ client_create_account_email(c)
         \/ client_get_char_sex(c)
         \/ client_get_race(c)
         \/ WrongPassword(c)
         \/ do_quit(c)
         \/ do_shutdown(c)
         \/ note_write(c)
         \/ connection_note_finish(c)
  PROVE  IInv'
<1> USE DEF Line, InPass, Running, Visited, Becomes, Command, world, session,
            IInv, PlayersAreOwned, ListsAgree, Authenticated, Lifecycle
<1>1. CASE client_create_account(c)
  BY <1>1 DEF client_create_account
<1>2. CASE client_create_account_password(c)
  BY <1>2 DEF client_create_account_password
<1>3. CASE client_confirm_account_password(c)
  <2>1. CASE Becomes(c, "create_account_password") /\ UNCHANGED proven
    BY <1>3, <2>1 DEF client_confirm_account_password
  <2>2. CASE /\ Becomes(c, "create_account_email")
             /\ proven' = [proven EXCEPT ![c] = TRUE]
    <3>1. TypeOK' /\ PlayersAreOwned' /\ ListsAgree' /\ Lifecycle'
      BY <1>3, <2>2 DEF client_confirm_account_password
    <3>2. Authenticated'
      BY <1>3, <2>2 DEF client_confirm_account_password
    <3> QED
      BY <3>1, <3>2
  <2> QED
    BY <1>3, <2>1, <2>2 DEF client_confirm_account_password
<1>4. CASE client_create_account_email(c)
  BY <1>4 DEF client_create_account_email
<1>5. CASE client_get_char_sex(c)
  BY <1>5 DEF client_get_char_sex
<1>6. CASE client_get_race(c)
  BY <1>6 DEF client_get_race
<1>7. CASE WrongPassword(c)
  BY <1>7 DEF WrongPassword
<1>8. CASE do_quit(c)
  BY <1>8 DEF do_quit
<1>9. CASE do_shutdown(c)
  BY <1>9 DEF do_shutdown
<1>10. CASE note_write(c)
  BY <1>10 DEF note_write
<1>11. CASE connection_note_finish(c)
  BY <1>11 DEF connection_note_finish
<1> QED
  BY <1>1, <1>2, <1>3, <1>4, <1>5, <1>6, <1>7, <1>8, <1>9, <1>10, <1>11

\* A character at an allocatable address belongs to nobody and is on no list.
LEMMA AllocatableIsFree ==
  ASSUME IInv, NEW a \in Allocatable
  PROVE  /\ a \in Chars \ first_player
         /\ \A d \in Clients : Owns(d) => playing[d] # a
  BY DEF Allocatable, Forgotten, IInv, PlayersAreOwned

\* Loading a character and entering the world with it.
LEMMA LoadIInv ==
  ASSUME IInv, NEW c \in Clients, LoadAndPlay(c), proven'[c],
         handler[c] \in {"get_account_password", "account_menu"},
         proven' \in [Clients -> BOOLEAN],
         \A d \in Clients \ {c} : proven'[d] = proven[d],
         UNCHANGED <<account, players, password_retries>>, Visited(c)
  PROVE  IInv'
<1>1. PICK a \in Allocatable : NewChar(c, a) /\ SetPlaying(c, a)
  BY DEF LoadAndPlay
<1>2. /\ a \in Chars \ first_player
      /\ \A d \in Clients : Owns(d) => playing[d] # a
  BY AllocatableIsFree
<1> USE DEF NewChar, SetPlaying, Linked, Becomes, IInv
<1>3. TypeOK'
  BY <1>1, <1>2 DEF Visited
<1>4. PlayersAreOwned'
  <2>1. ASSUME NEW d \in Clients
        PROVE  /\ handler'[d] \in UsesPlaying => Owns(d)'
               /\ handler'[d] \in InGame => playing'[d] \in first_player'
    BY <1>1, <1>2 DEF PlayersAreOwned
  <2>2. ASSUME NEW b \in first_player'
        PROVE  \E d \in Clients : /\ conn'[b] = d /\ playing'[d] = b
                                  /\ handler'[d] \in InGame \cup {"null"}
    <3>1. CASE b = a
      BY <1>1, <1>2, <3>1
    <3>2. CASE b # a
      <4>1. b \in first_player
        BY <1>1, <2>2, <3>2
      <4>2. PICK d \in Clients : /\ conn[b] = d /\ playing[d] = b
                                 /\ handler[d] \in InGame \cup {"null"}
        BY <4>1 DEF PlayersAreOwned
      <4>3. d # c
        BY <4>2
      <4> QED
        BY <1>1, <1>2, <3>2, <4>2, <4>3
    <3> QED
      BY <3>1, <3>2
  <2> QED
    BY <2>1, <2>2 DEF PlayersAreOwned
<1>5. ListsAgree'
  BY <1>1 DEF ListsAgree
<1>6. Authenticated'
  BY <1>1 DEF Authenticated
<1>7. Lifecycle'
  BY <1>1, <1>2 DEF Lifecycle
<1> QED
  BY <1>3, <1>4, <1>5, <1>6, <1>7

\* The handlers that allocate, link, unlink or free a character.
LEMMA WorldIInv ==
  ASSUME IInv, NEW c \in Clients,
         \/ client_get_account_name(c)
         \/ client_get_timezone(c)
         \/ RightPassword(c)
         \/ client_account_menu(c)
         \/ client_create_new_char(c)
         \/ client_get_class(c)
         \/ client_confirm_account_delete(c)
         \/ client_confirm_delete_char(c)
         \/ do_logout(c)
         \/ do_delete(c)
  PROVE  IInv'
<1> USE DEF Line, InPass, Running, Visited, Becomes, Command, world, IInv,
            ShowMenu, ShowMenuHangs, Dies, Corrupts
<1>a. client_get_account_name(c) => IInv'
  BY DEF client_get_account_name, load_account, PlayersAreOwned, ListsAgree, Authenticated,
         Lifecycle
<1>b. client_get_timezone(c) => IInv'
  BY DEF client_get_timezone, PlayersAreOwned, ListsAgree,
                  Authenticated, Lifecycle
<1>c. ASSUME RightPassword(c)
      PROVE  IInv'
  <2>1. CASE ShowMenuHangs(c)
    BY <2>1, LostIInv
  <2>2. CASE ~ShowMenuHangs(c)
    <3>1. /\ Visited(c) /\ Line(c, "get_account_password")
          /\ proven' = [proven EXCEPT ![c] = TRUE]
          /\ UNCHANGED <<account, players, password_retries>>
      BY <1>c, <2>2 DEF RightPassword
    <3>2. CASE ShowMenu(c) /\ UNCHANGED <<playing, world>>
      BY <3>1, <3>2 DEF PlayersAreOwned, ListsAgree, Authenticated, Lifecycle
    <3>3. CASE LoadAndPlay(c)
      BY <3>1, <3>3, LoadIInv
    <3>4. CASE LoadFails(c) /\ UNCHANGED handler
      BY <3>1, <3>4 DEF LoadFails, PlayersAreOwned, ListsAgree, Authenticated,
                        Lifecycle
    <3> QED
      BY <1>c, <2>2, <3>2, <3>3, <3>4 DEF RightPassword
  <2> QED
    BY <2>1, <2>2
<1>d. ASSUME client_account_menu(c)
      PROVE  IInv'
  <2>1. /\ Visited(c) /\ Line(c, "account_menu")
        /\ UNCHANGED <<account, players, password_retries, proven>>
    BY <1>d DEF client_account_menu
  <2>2. CASE LoadAndPlay(c)
    <3>1. proven[c] = TRUE
      BY <2>1 DEF Authenticated
    <3> QED
      BY <2>1, <2>2, <3>1, LoadIInv
  <2>3. CASE LoadFails(c) /\ UNCHANGED handler
    BY <2>1, <2>3 DEF LoadFails, PlayersAreOwned, ListsAgree, Authenticated,
                      Lifecycle
  <2>4. CASE /\ \/ Becomes(c, "create_new_char")
                \/ Becomes(c, "confirm_account_delete")
                \/ Becomes(c, "null")
             /\ UNCHANGED <<playing, world>>
    BY <2>1, <2>4 DEF PlayersAreOwned, ListsAgree, Authenticated, Lifecycle
  <2> QED
    BY <1>d, <2>2, <2>3, <2>4 DEF client_account_menu
<1>e. ASSUME client_create_new_char(c)
      PROVE  IInv'
  <2>1. PICK a \in Allocatable : NewChar(c, a)
    BY <1>e DEF client_create_new_char
  <2>2. /\ a \in Chars \ first_player
        /\ \A d \in Clients : Owns(d) => playing[d] # a
    BY AllocatableIsFree
  <2>3. TypeOK' /\ ListsAgree' /\ Authenticated'
    BY <1>e, <2>1, <2>2 DEF client_create_new_char, NewChar, ListsAgree,
                            Authenticated
  <2>4. PlayersAreOwned'
    BY <1>e, <2>1, <2>2 DEF client_create_new_char, NewChar, PlayersAreOwned
  <2>5. Lifecycle'
    BY <1>e, <2>1, <2>2 DEF client_create_new_char, NewChar, Lifecycle
  <2> QED
    BY <2>3, <2>4, <2>5
<1>f. client_get_class(c) => IInv'
  BY LostIInv DEF client_get_class, SetPlaying, Linked, PlayersAreOwned,
                  ListsAgree, Authenticated, Lifecycle
<1>g. ASSUME client_confirm_account_delete(c)
      PROVE  IInv'
  <2>1. CASE BadFree(c) /\ Corrupts
    BY <2>1, LostIInv
  <2>2. CASE Becomes(c, "account_menu") /\ UNCHANGED <<account, world>>
    BY <1>g, <2>2, LostIInv
       DEF client_confirm_account_delete, PlayersAreOwned, ListsAgree,
           Authenticated, Lifecycle
  <2>3. CASE /\ ~BadFree(c) /\ FreesCharacter(c) /\ Becomes(c, "null")
             /\ account' = [account EXCEPT ![c] = "freed"]
             /\ UNCHANGED <<players, playing, password_retries, proven>>
             /\ Line(c, "confirm_account_delete") /\ Visited(c)
    <3>1. TypeOK' /\ ListsAgree'
      BY <2>3 DEF FreesCharacter, Extracted, Unlinked, ListsAgree
    <3>2. PlayersAreOwned' /\ Authenticated' /\ Lifecycle'
      BY <2>3 DEF FreesCharacter, BadFree, Extracted, Unlinked,
                  PlayersAreOwned, Authenticated, Lifecycle
    <3> QED
      BY <3>1, <3>2
  <2> QED
    BY <1>g, <2>1, <2>2, <2>3 DEF client_confirm_account_delete
<1>h. ASSUME client_confirm_delete_char(c)
      PROVE  IInv'
  <2>1. Owns(c) /\ proven[c] = TRUE
    BY <1>h DEF client_confirm_delete_char, PlayersAreOwned, Authenticated
  <2>2. CASE SetPlaying(c, playing[c]) /\ UNCHANGED conn
    BY <1>h, <2>1, <2>2
       DEF client_confirm_delete_char, SetPlaying, Linked, Lost,
           PlayersAreOwned, ListsAgree, Authenticated, Lifecycle
  <2>3. CASE Extracted(playing[c]) /\ ShowMenu(c)
    BY <1>h, <2>1, <2>3
       DEF client_confirm_delete_char, Extracted, Unlinked, Lost,
           PlayersAreOwned, ListsAgree, Authenticated, Lifecycle
  <2>4. CASE ShowMenuHangs(c)
    BY <2>4, LostIInv
  <2> QED
    BY <1>h, <2>2, <2>3, <2>4 DEF client_confirm_delete_char
<1>i. do_logout(c) => IInv'
  BY LostIInv DEF do_logout, Unlinked, PlayersAreOwned, ListsAgree,
                  Authenticated, Lifecycle
<1>j. do_delete(c) => IInv'
  BY DEF do_delete, Unlinked, PlayersAreOwned, ListsAgree, Authenticated,
         Lifecycle
<1> QED
  BY <1>a, <1>b, <1>c, <1>d, <1>e, <1>f, <1>g, <1>h, <1>i, <1>j

-----------------------------------------------------------------------------
(* The inductive invariant.                                                *)

LEMMA PassIInv ==
  ASSUME IInv, NEW c \in Clients,
         \/ Accept(c) \/ Kick(c) \/ NotKicked(c) \/ LinkLost(c) \/ Idle(c)
         \/ Output(c)
  PROVE  IInv'
<1>1. CASE Accept(c)
  BY <1>1 DEF Accept, Open, world, Running, IInv, PlayersAreOwned, ListsAgree,
              Authenticated, Lifecycle
<1>2. CASE CloseClient(c) /\ Visited(c)
  BY <1>2, CloseIInv
<1>3. CASE BadFree(c) /\ Corrupts
  BY <1>3, LostIInv DEF Corrupts
<1>4. CASE Visited(c) /\ UNCHANGED <<session, world>>
  BY <1>4 DEF Visited, session, world, IInv, PlayersAreOwned, ListsAgree,
              Authenticated, Lifecycle
<1> QED
  BY <1>1, <1>2, <1>3, <1>4 DEF Kick, NotKicked, LinkLost, Idle, Output

LEMMA NextIInv == IInv /\ [Next]_vars => IInv'
<1> SUFFICES ASSUME IInv, [Next]_vars PROVE IInv'
  OBVIOUS
<1>1. CASE AcceptNone \/ KickDone \/ InputDone
  BY <1>1 DEF AcceptNone, KickDone, InputDone, BeginPass, Open, session, world,
              IInv, PlayersAreOwned, ListsAgree, Authenticated, Lifecycle
<1>2. CASE IterationDone
  BY <1>2, LostIInv
     DEF IterationDone, Dies, session, world, IInv, PlayersAreOwned,
         ListsAgree, Authenticated, Lifecycle
<1>3. ASSUME NEW c \in Clients,
             \/ Accept(c) \/ Kick(c) \/ NotKicked(c) \/ LinkLost(c)
             \/ Idle(c) \/ Output(c)
      PROVE  IInv'
  BY <1>3, PassIInv
<1>4. ASSUME NEW c \in Clients, Handler(c) \/ Commands(c)
      PROVE  IInv'
  BY <1>4, HandlerIInv, WorldIInv, LostIInv
     DEF Handler, Commands, client_get_account_password, do_sockets, Dies
<1>5. CASE Crash
  BY <1>5, LostIInv DEF Crash
<1>6. CASE Restart \/ UNCHANGED vars
  BY <1>6 DEF Restart, vars, loop, session, world, IInv, PlayersAreOwned,
              ListsAgree, Authenticated, Lifecycle
<1> QED
  BY <1>1, <1>2, <1>3, <1>4, <1>5, <1>6 DEF Next, game_loop

LEMMA Invariance == Spec => []IInv
  BY InitIInv, NextIInv, PTL DEF Spec

\* The variables keep their types.
THEOREM TypeCorrect == Spec => []TypeOK
  BY Invariance, PTL DEF IInv

\* The players' list and the sessions agree on who owns whom, whatever the
\* number of connections and however memory is reused.
THEOREM Ownership == Spec => []PlayersAreOwned
  BY Invariance, PTL DEF IInv

\* The world's three lists of players are one.
THEOREM Agreement == Spec => []ListsAgree
  BY Invariance, PTL DEF IInv

\* The account menu, and all that follows it, is behind a password.
THEOREM Authentication == Spec => []Authenticated
  BY Invariance, PTL DEF IInv

-----------------------------------------------------------------------------
(* Steps a session may not take.                                           *)

\* Staleness comes from a Character freed or an address handed out while the
\* session still names it, and the invariant rules out every case but two.
LEMMA StaleStep ==
  ASSUME IInv, [Next]_vars, NEW c \in Clients, ~Stale(c), Stale(c)'
  PROVE  \/ handler[c] = "confirm_delete_char" /\ handler'[c] = "account_menu"
         \/ handler[c] = "confirm_account_delete" /\ handler'[c] = "null"
<1> DEFINE Goal ==
      \/ handler[c] = "confirm_delete_char" /\ handler'[c] = "account_menu"
      \/ handler[c] = "confirm_account_delete" /\ handler'[c] = "null"
<1>1. ~ \E end \in {"corrupt", "dead"} : Lost(end)
  BY DEF Lost
<1>2. UNCHANGED <<playing, conn>> => FALSE
  OBVIOUS
<1>3. ASSUME NEW d \in Clients, CloseClient(d)
      PROVE  FALSE
  BY <1>3 DEF CloseClient, FreesCharacter, BadFree, Extracted, world, IInv
<1>4. ASSUME NEW d \in Clients, NEW a \in Allocatable, NewChar(d, a)
      PROVE  FALSE
  <2>1. \A e \in Clients : Owns(e) => playing[e] # a
    BY AllocatableIsFree
  <2> QED
    BY <1>4, <2>1, AllocatableIsFree DEF NewChar, IInv
<1>5. ASSUME NEW d \in Clients, LoadFails(d)
      PROVE  FALSE
  BY <1>5 DEF LoadFails, world, IInv
<1>6. ASSUME NEW d \in Clients, client_confirm_account_delete(d)
      PROVE  Goal
  BY <1>1, <1>2, <1>6
     DEF client_confirm_account_delete, FreesCharacter, BadFree, Extracted,
         Line, Becomes, Corrupts, world, IInv
<1>7. ASSUME NEW d \in Clients, client_confirm_delete_char(d)
      PROVE  Goal
  BY <1>1, <1>2, <1>7
     DEF client_confirm_delete_char, Extracted, Line, ShowMenu, ShowMenuHangs,
         Becomes, Dies, IInv, PlayersAreOwned
<1>8. ASSUME NEW d \in Clients, Handler(d)
      PROVE  Goal
  BY <1>1, <1>2, <1>4, <1>5, <1>6, <1>7, <1>8
     DEF Handler, client_get_account_name, load_account, client_create_account,
         client_create_account_password, client_confirm_account_password,
         client_create_account_email, client_get_timezone,
         client_get_account_password, WrongPassword, RightPassword,
         client_account_menu, client_create_new_char, client_get_char_sex,
         client_get_race, client_get_class, connection_note_finish,
         LoadAndPlay, ShowMenuHangs, Dies, world, IInv
<1>9. ASSUME NEW d \in Clients, Commands(d)
      PROVE  FALSE
  BY <1>1, <1>2, <1>9
     DEF Commands, do_quit, do_logout, do_delete, do_shutdown, do_sockets,
         note_write, Dies, ShowMenuHangs, world, session
<1>10. ASSUME NEW d \in Clients,
              \/ Accept(d) \/ Kick(d) \/ NotKicked(d) \/ LinkLost(d)
              \/ Idle(d) \/ Output(d)
       PROVE  FALSE
  BY <1>1, <1>2, <1>3, <1>10
     DEF Accept, Kick, NotKicked, LinkLost, Idle, Output, Corrupts, world,
         session
<1>11. AcceptNone \/ KickDone \/ InputDone \/ IterationDone => FALSE
  BY <1>1, <1>2 DEF AcceptNone, KickDone, InputDone, IterationDone, BeginPass,
                    Dies, world, session
<1>12. Crash \/ Restart \/ UNCHANGED vars => FALSE
  BY <1>1, <1>2 DEF Crash, Restart, vars, world, session
<1> QED
  BY <1>8, <1>9, <1>10, <1>11, <1>12 DEF Next, game_loop

\* No other connection, no disconnect and no reuse of memory takes a
\* session's character from it: only its own confirmed deletion does.
THEOREM Staleness == Spec => StaleOnlyByDeletion
<1>1. IInv /\ [Next]_vars =>
        [\A c \in Clients :
           ~Stale(c) /\ Stale(c)' =>
              \/ handler[c] = "confirm_delete_char"
                   /\ handler'[c] = "account_menu"
              \/ handler[c] = "confirm_account_delete"
                   /\ handler'[c] = "null"]_vars
  BY StaleStep
<1> QED
  BY <1>1, Invariance, PTL DEF Spec, StaleOnlyByDeletion

\* The heap is only ever corrupted through what a deletion left behind, and
\* the process only ends when it is told to, in an endless account menu, or
\* at a do_sockets that meets a session without an account to read.
THEOREM Cause == Spec => LostOnlyForCause
<1> DEFINE A == /\ server' = "corrupt" /\ server # "corrupt" =>
                     \E c \in Clients :
                        Stale(c) \/ account[c] = "freed" \/ players[c] = "loop"
                /\ server' = "dead" /\ Running =>
                     \/ server = "stopping"
                     \/ \E c \in Clients : players[c] = "loop"
                     \/ \E c, d \in Open : /\ handler[c] = "command_parser"
                                           /\ account[d] # "live" \/ Stale(d)
<1>1. IInv /\ [Next]_vars => [A]_vars
  <2> SUFFICES ASSUME IInv, [Next]_vars PROVE A
    OBVIOUS
  <2>1. UNCHANGED server => A
    BY DEF IInv, Running
  <2>2. ASSUME NEW c \in Clients, BadFree(c) /\ Corrupts
        PROVE  A
    BY <2>2 DEF BadFree, Corrupts, Lost
  <2>3. ASSUME NEW c \in Clients, ShowMenuHangs(c)
        PROVE  A
    BY <2>3 DEF ShowMenuHangs, Dies, Lost
  <2>4. ASSUME NEW c \in Clients, do_shutdown(c)
        PROVE  A
    BY <2>4 DEF do_shutdown
  <2>5. ASSUME NEW c \in Clients, do_sockets(c)
        PROVE  A
    <3>1. c \in Open /\ handler[c] = "command_parser"
      BY <2>5 DEF do_sockets, Command, Line, Open
    <3>2. server' = "dead"
      BY <2>5 DEF do_sockets, Dies, Lost
    <3>3. PICK d \in Open : account[d] # "live" \/ Stale(d)
      BY <2>5 DEF do_sockets, NotPrintable, IInv, Open
    <3> QED
      BY <3>1, <3>2, <3>3
  <2>6. ASSUME NEW c \in Clients, Handler(c)
        PROVE  A
    BY <2>1, <2>2, <2>3, <2>6
       DEF Handler, client_get_account_name, load_account, client_create_account,
           client_create_account_password, client_confirm_account_password,
           client_create_account_email, client_get_timezone,
           client_get_account_password, WrongPassword, RightPassword,
           client_account_menu, client_create_new_char, client_get_char_sex,
           client_get_race, client_get_class, connection_note_finish,
           client_confirm_account_delete, client_confirm_delete_char,
           Line, Visited
  <2>7. ASSUME NEW c \in Clients, Commands(c)
        PROVE  A
    BY <2>1, <2>3, <2>4, <2>7, <2>5
       DEF Commands, do_quit, do_logout, do_delete, note_write, Visited
  <2>8. ASSUME NEW c \in Clients,
               \/ Accept(c) \/ Kick(c) \/ NotKicked(c) \/ LinkLost(c)
               \/ Idle(c) \/ Output(c)
        PROVE  A
    BY <2>1, <2>2, <2>8
       DEF Accept, Kick, NotKicked, LinkLost, Idle, Output, Visited
  <2>9. AcceptNone \/ KickDone \/ InputDone => A
    BY <2>1 DEF AcceptNone, KickDone, InputDone, BeginPass
  <2>10. IterationDone => A
    BY <2>1 DEF IterationDone, Dies, Lost
  <2>11. Crash \/ Restart \/ UNCHANGED vars => A
    BY <2>1 DEF Crash, Restart, Running, Lost, vars, loop
  <2> QED
    BY <2>6, <2>7, <2>8, <2>9, <2>10, <2>11 DEF Next, game_loop
<1> QED
  BY <1>1, Invariance, PTL DEF Spec, LostOnlyForCause

\* Whoever enters the world was on none of its lists: a fresh character is at
\* an address no list names, and one that is being deleted was taken off.
THEOREM Linking == Spec => LinkedOnce
<1> DEFINE A == \A c \in Clients :
                  handler[c] # handler'[c] /\ handler'[c] = "command_parser"
                  /\ handler[c] # "note"
                  => playing'[c] \notin first_player
<1>1. IInv /\ [Next]_vars => [A]_vars
  <2> SUFFICES ASSUME IInv, [Next]_vars, NEW c \in Clients,
                      handler[c] # handler'[c], handler[c] # "note",
                      handler'[c] = "command_parser"
               PROVE  playing'[c] \notin first_player
    OBVIOUS
  <2> USE DEF Becomes, Line, IInv
  <2>1. ~ \E end \in {"corrupt", "dead"} : Lost(end)
    BY DEF Lost
  <2>2. ASSUME NEW d \in Clients, CloseClient(d)
        PROVE  FALSE
    BY <2>2 DEF CloseClient
  <2>3. ASSUME NEW d \in Clients, NEW a \in Allocatable, NewChar(d, a),
               SetPlaying(d, a)
        PROVE  playing'[c] \notin first_player
    BY <2>3, AllocatableIsFree DEF NewChar, SetPlaying
  <2>4. ASSUME NEW d \in Clients, UNCHANGED playing,
               SetPlaying(d, playing[d]),
               handler[d] \in {"get_class", "confirm_delete_char"}
        PROVE  playing'[c] \notin first_player
    BY <2>4 DEF SetPlaying, PlayersAreOwned
  <2>5. ASSUME NEW d \in Clients, Handler(d)
        PROVE  playing'[c] \notin first_player
    BY <2>1, <2>3, <2>4, <2>5
       DEF Handler, client_get_account_name, load_account, client_create_account,
           client_create_account_password, client_confirm_account_password,
           client_create_account_email, client_get_timezone,
           client_get_account_password, WrongPassword, RightPassword,
           client_account_menu, client_create_new_char, client_get_char_sex,
           client_get_race, client_get_class, connection_note_finish,
           client_confirm_account_delete, client_confirm_delete_char,
           LoadAndPlay, ShowMenu, ShowMenuHangs, Dies, Corrupts
  <2>6. ASSUME NEW d \in Clients, Commands(d)
        PROVE  FALSE
    BY <2>1, <2>6
       DEF Commands, do_quit, do_logout, do_delete, do_shutdown, do_sockets,
           note_write, ShowMenu, ShowMenuHangs, Dies, session
  <2>7. ASSUME NEW d \in Clients,
               \/ Accept(d) \/ Kick(d) \/ NotKicked(d) \/ LinkLost(d)
               \/ Idle(d) \/ Output(d)
        PROVE  FALSE
    BY <2>1, <2>2, <2>7
       DEF Accept, Kick, NotKicked, LinkLost, Idle, Output, Corrupts, session
  <2>8. AcceptNone \/ KickDone \/ InputDone \/ IterationDone => FALSE
    BY <2>1 DEF AcceptNone, KickDone, InputDone, IterationDone, BeginPass,
                Dies, session
  <2>9. Crash \/ Restart \/ UNCHANGED vars => FALSE
    BY <2>1 DEF Crash, Restart, vars, session
  <2> QED
    BY <2>5, <2>6, <2>7, <2>8, <2>9 DEF Next, game_loop
<1> QED
  BY <1>1, Invariance, PTL DEF Spec, LinkedOnce

-----------------------------------------------------------------------------
(* The sessions implement Presence.                                        *)

Stages  == [c \in Clients |-> StageOf(handler[c])]
Visible == {conn[a] : a \in first_player}

\* A connection is visible when its own character is on the list, and then
\* that is the only character of its own there.
LEMMA VisibleIs ==
  ASSUME IInv
  PROVE  /\ Visible \subseteq Clients
         /\ \A c \in Clients :
               c \in Visible <=> Owns(c) /\ playing[c] \in first_player
         /\ \A c \in Clients : c \in Visible =>
               handler[c] \in InGame \cup {"null"}
         /\ \A c \in Clients : \A a \in first_player :
               conn[a] = c => a = playing[c]
  BY DEF Visible, IInv, PlayersAreOwned

LEMMA StageChange ==
  ASSUME IInv, NEW c \in Clients, NEW h \in Handlers, Becomes(c, h)
  PROVE  /\ Stages' = [Stages EXCEPT ![c] = StageOf(h)]
         /\ Stages[c] = StageOf(handler[c])
         /\ StageOf(h) = StageOf(handler[c]) => Stages' = Stages
  BY DEF Stages, Becomes, IInv

LEMMA ListedVisible ==
  ASSUME IInv, NEW c \in Clients, NEW a \in Chars, a \notin first_player,
         Linked(a), conn' = [conn EXCEPT ![a] = c]
  PROVE  Visible' = Visible \cup {c}
  BY DEF Visible, Linked, IInv

LEMMA UnlistedVisible ==
  ASSUME IInv, NEW c \in Clients, Owns(c), Unlinked(playing[c]),
         conn' = conn \/ conn' = [conn EXCEPT ![playing[c]] = None]
  PROVE  Visible' = Visible \ {c}
<1>1. \A a \in first_player : conn[a] = c => a = playing[c]
  BY VisibleIs
<1>2. \A a \in first_player \ {playing[c]} : conn'[a] = conn[a]
  BY DEF IInv
<1> QED
  BY <1>1, <1>2 DEF Visible, Unlinked, IInv

\* Freeing what account->playing names, when it is the session's own or null,
\* takes that session out of sight and no other.
LEMMA FreedVisible ==
  ASSUME IInv, NEW c \in Clients, ~BadFree(c), FreesCharacter(c)
  PROVE  Visible' = Visible \ {c}
<1>1. CASE playing[c] = None
  <2>1. c \notin Visible
    BY <1>1, VisibleIs
  <2> QED
    BY <1>1, <2>1 DEF FreesCharacter, world, Visible
<1>2. CASE playing[c] # None
  BY <1>2, UnlistedVisible DEF FreesCharacter, BadFree, Extracted
<1> QED
  BY <1>1, <1>2

LEMMA LostRefines ==
  ASSUME NEW end, Lost(end)
  PROVE  Stages' = [c \in Clients |-> "out"] /\ Visible' = {}
  BY DEF Lost, Stages, StageOf, Visible

\* One session moves from a stage to another, and Presence allows it.
LEMMA Moves ==
  ASSUME NEW c \in Clients, NEW s, Stages' = [Stages EXCEPT ![c] = s],
         \/ /\ Visible' = Visible
            /\ \/ Stages[c] = "out" /\ s = "login"
               \/ Stages[c] = "login" /\ s = "menu"
               \/ Stages[c] \in {"login", "menu", "world"} /\ s = "leaving"
         \/ /\ Visible' = Visible \cup {c} /\ c \notin Visible
            /\ Stages[c] \in {"login", "menu"} /\ s = "world"
         \/ /\ Visible' = Visible \ {c} /\ c \in Visible
            /\ Stages[c] = "world" /\ s = "menu"
         \/ /\ Visible' = Visible \ {c}
            /\ Stages[c] # "out" /\ s = "out"
  PROVE  Abstract!Next
  BY DEF Stages, Visible, Abstract!Next, Abstract!Connect, Abstract!LogIn,
         Abstract!Enter, Abstract!Withdraw, Abstract!Leave,
         Abstract!Disconnect, Abstract!To

LEMMA Fails ==
  ASSUME NEW end, Lost(end)
  PROVE  Abstract!Next
  BY LostRefines DEF Stages, Visible, Abstract!Next, Abstract!Fail

LEMMA Stutters ==
  ASSUME Stages' = Stages, Visible' = Visible
  PROVE  UNCHANGED Abstract!vars
  BY DEF Stages, Visible, Abstract!vars

\* The handlers that move a session between stages and no character.
LEMMA HandlerRefines ==
  ASSUME IInv, NEW c \in Clients,
         \/ client_get_account_name(c)
         \/ client_create_account(c)
         \/ client_create_account_password(c)
         \/ client_confirm_account_password(c)
         \/ client_create_account_email(c)
         \/ client_get_timezone(c)
         \/ client_get_char_sex(c)
         \/ client_get_race(c)
         \/ WrongPassword(c)
         \/ do_quit(c)
         \/ do_shutdown(c)
         \/ note_write(c)
         \/ connection_note_finish(c)
  PROVE  Abstract!Next \/ UNCHANGED Abstract!vars
<1>1. PICK h \in Handlers :
         \/ Becomes(c, h)
         \/ UNCHANGED handler /\ h = handler[c]
  BY DEF client_get_account_name, load_account, client_create_account,
         client_create_account_password, client_confirm_account_password,
         client_create_account_email, client_get_timezone,
         client_get_char_sex, client_get_race, WrongPassword, do_quit,
         do_shutdown, note_write, connection_note_finish, session, IInv
<1>2. Visible' = Visible
  BY DEF client_get_account_name, load_account, client_create_account,
         client_create_account_password, client_confirm_account_password,
         client_create_account_email, client_get_timezone,
         client_get_char_sex, client_get_race, WrongPassword, do_quit,
         do_shutdown, note_write, connection_note_finish, world, Visible
<1>3. Stages' = [Stages EXCEPT ![c] = StageOf(h)]
  BY <1>1, StageChange DEF Stages
<1>4. \/ StageOf(h) = Stages[c]
      \/ Stages[c] = "login" /\ StageOf(h) = "menu"
      \/ Stages[c] \in {"login", "menu", "world"} /\ StageOf(h) = "leaving"
  BY <1>1 DEF client_get_account_name, load_account, client_create_account,
         client_create_account_password, client_confirm_account_password,
         client_create_account_email, client_get_timezone,
         client_get_char_sex, client_get_race, WrongPassword, do_quit,
         do_shutdown, note_write, connection_note_finish, Line, InPass,
         Command, Becomes, Stages, StageOf, session, IInv
<1>5. CASE StageOf(h) = Stages[c]
  BY <1>2, <1>3, <1>5, Stutters DEF Stages
<1>6. CASE StageOf(h) # Stages[c]
  BY <1>2, <1>3, <1>4, <1>6, Moves
<1> QED
  BY <1>5, <1>6

\* Entering the world, from the login or from the menu.
LEMMA EnterRefines ==
  ASSUME IInv, NEW c \in Clients, NEW a \in Chars, a \notin first_player,
         SetPlaying(c, a), conn' = [conn EXCEPT ![a] = c],
         Stages[c] \in {"login", "menu"}
  PROVE  Abstract!Next
<1>1. Visible' = Visible \cup {c}
  BY ListedVisible DEF SetPlaying
<1>2. Stages' = [Stages EXCEPT ![c] = "world"]
  BY StageChange DEF SetPlaying, StageOf
<1>3. c \notin Visible
  BY VisibleIs DEF Stages, StageOf
<1> QED
  BY <1>1, <1>2, <1>3, Moves

LEMMA LoadRefines ==
  ASSUME IInv, NEW c \in Clients, LoadAndPlay(c),
         handler[c] \in {"get_account_password", "account_menu"}
  PROVE  Abstract!Next
<1>1. PICK a \in Allocatable : NewChar(c, a) /\ SetPlaying(c, a)
  BY DEF LoadAndPlay
<1>2. a \in Chars \ first_player
  BY AllocatableIsFree
<1> QED
  BY <1>1, <1>2, EnterRefines DEF NewChar, Stages, StageOf

\* Nobody at the menu or earlier is in sight, so a new character there
\* changes nothing the others see.
LEMMA UnseenRefines ==
  ASSUME IInv, NEW c \in Clients, NEW a \in Allocatable, NewChar(c, a),
         UNCHANGED first_player
  PROVE  Visible' = Visible
<1>1. a \notin first_player
  BY AllocatableIsFree
<1> QED
  BY <1>1 DEF NewChar, Visible, IInv

LEMMA WorldRefines ==
  ASSUME IInv, NEW c \in Clients,
         \/ RightPassword(c)
         \/ client_account_menu(c)
         \/ client_create_new_char(c)
         \/ client_get_class(c)
         \/ client_confirm_account_delete(c)
         \/ client_confirm_delete_char(c)
         \/ do_logout(c)
         \/ do_delete(c)
  PROVE  Abstract!Next \/ UNCHANGED Abstract!vars
<1> USE DEF Line, InPass, Command, ShowMenu, ShowMenuHangs, Dies, Corrupts
<1>0. ASSUME NEW end, Lost(end)
      PROVE  Abstract!Next
  BY <1>0, Fails
<1>1. CASE RightPassword(c)
  <2>1. CASE Becomes(c, "account_menu") /\ UNCHANGED world
    <3>1. /\ Stages[c] = "login"
          /\ Stages' = [Stages EXCEPT ![c] = "menu"]
      BY <1>1, <2>1, StageChange DEF RightPassword, Lost, StageOf
    <3> QED
      BY <2>1, <3>1, Moves DEF Visible, world
  <2>2. CASE LoadFails(c) /\ UNCHANGED handler
    BY <2>2, Stutters DEF LoadFails, world, Stages, Visible
  <2> QED
    BY <1>0, <1>1, <2>1, <2>2, LoadRefines DEF RightPassword
<1>2. CASE client_account_menu(c)
  <2>1. CASE UNCHANGED <<handler, world>>
    BY <2>1, Stutters DEF Stages, Visible, world
  <2>2. CASE /\ \/ Becomes(c, "create_new_char")
                \/ Becomes(c, "confirm_account_delete")
             /\ UNCHANGED world
    <3>1. PICK h \in {"create_new_char", "confirm_account_delete"} :
             Becomes(c, h)
      BY <2>2
    <3>2. StageOf(h) = "menu" /\ StageOf(handler[c]) = "menu"
      BY <1>2 DEF client_account_menu, StageOf
    <3>3. Stages' = Stages
      BY <3>1, <3>2, StageChange
    <3> QED
      BY <2>2, <3>3, Stutters DEF Visible, world
  <2>3. CASE Becomes(c, "null") /\ UNCHANGED world
    <3>1. /\ Stages[c] = "menu"
          /\ Stages' = [Stages EXCEPT ![c] = "leaving"]
      BY <1>2, <2>3, StageChange DEF client_account_menu, StageOf
    <3> QED
      BY <2>3, <3>1, Moves DEF Visible, world
  <2> QED
    BY <1>2, <2>1, <2>2, <2>3, LoadRefines
       DEF client_account_menu, LoadFails
<1>3. CASE client_create_new_char(c)
  <2>1. Visible' = Visible
    BY <1>3, UnseenRefines DEF client_create_new_char
  <2>2. Stages' = Stages
    BY <1>3, StageChange DEF client_create_new_char, StageOf
  <2> QED
    BY <2>1, <2>2, Stutters
<1>4. CASE client_get_class(c)
  <2>1. Owns(c) /\ playing[c] \in Chars \ first_player
    BY <1>4 DEF client_get_class, IInv, PlayersAreOwned
  <2>2. conn' = [conn EXCEPT ![playing[c]] = c]
    BY <1>4, <2>1 DEF client_get_class, IInv
  <2> QED
    BY <1>4, <2>1, <2>2, EnterRefines
       DEF client_get_class, Stages, StageOf
<1>5. CASE client_confirm_account_delete(c)
  <2>1. CASE Becomes(c, "account_menu") /\ UNCHANGED world
    <3>1. Stages' = Stages
      BY <1>5, <2>1, StageChange DEF client_confirm_account_delete, StageOf
    <3> QED
      BY <2>1, <3>1, Stutters DEF Visible, world
  <2>2. CASE ~BadFree(c) /\ FreesCharacter(c) /\ Becomes(c, "null")
    <3>1. Visible' = Visible
      BY <1>5, <2>2, FreedVisible, VisibleIs DEF client_confirm_account_delete
    <3>2. /\ Stages[c] = "menu"
          /\ Stages' = [Stages EXCEPT ![c] = "leaving"]
      BY <1>5, <2>2, StageChange DEF client_confirm_account_delete, StageOf
    <3> QED
      BY <3>1, <3>2, Moves
  <2> QED
    BY <1>0, <1>5, <2>1, <2>2 DEF client_confirm_account_delete
<1>6. CASE client_confirm_delete_char(c)
  <2>1. Owns(c) /\ playing[c] \in Chars \ first_player
    BY <1>6 DEF client_confirm_delete_char, IInv, PlayersAreOwned
  <2>2. CASE SetPlaying(c, playing[c]) /\ UNCHANGED conn
    <3>1. conn' = [conn EXCEPT ![playing[c]] = c]
      BY <2>1, <2>2 DEF IInv
    <3> QED
      BY <1>6, <2>1, <2>2, <3>1, EnterRefines
         DEF client_confirm_delete_char, Stages, StageOf
  <2>3. CASE Extracted(playing[c]) /\ Becomes(c, "account_menu")
    <3>1. Visible' = Visible
      <4>1. Visible' = Visible \ {c}
        BY <2>1, <2>3, UnlistedVisible DEF Extracted
      <4>2. c \notin Visible
        BY <2>1, VisibleIs
      <4> QED
        BY <4>1, <4>2
    <3>2. Stages' = Stages
      BY <1>6, <2>3, StageChange DEF client_confirm_delete_char, StageOf
    <3> QED
      BY <3>1, <3>2, Stutters
  <2> QED
    BY <1>0, <1>6, <2>2, <2>3 DEF client_confirm_delete_char
<1>7. ASSUME NEW h \in {"account_menu", "confirm_delete_char"},
             handler[c] = "command_parser", Becomes(c, h),
             Unlinked(playing[c]), UNCHANGED conn
      PROVE  Abstract!Next
  <2>1. Owns(c) /\ c \in Visible
    BY <1>7, VisibleIs DEF IInv, PlayersAreOwned
  <2>2. Visible' = Visible \ {c}
    BY <1>7, <2>1, UnlistedVisible
  <2>3. Stages[c] = "world" /\ Stages' = [Stages EXCEPT ![c] = "menu"]
    BY <1>7, StageChange DEF Stages, StageOf
  <2> QED
    BY <2>1, <2>2, <2>3, Moves
<1>8. CASE do_logout(c)
  BY <1>0, <1>7, <1>8 DEF do_logout
<1>9. CASE do_delete(c)
  BY <1>7, <1>9 DEF do_delete
<1> QED
  BY <1>1, <1>2, <1>3, <1>4, <1>5, <1>6, <1>8, <1>9

\* A connection is closed: whatever its stage, it is out and out of sight.
LEMMA CloseRefines ==
  ASSUME IInv, NEW c \in Clients, CloseClient(c)
  PROVE  Abstract!Next \/ UNCHANGED Abstract!vars
<1>1. Visible' = Visible \ {c}
  BY FreedVisible DEF CloseClient
<1>2. Stages' = [Stages EXCEPT ![c] = "out"]
  BY StageChange DEF CloseClient, Becomes, StageOf
<1>3. CASE handler[c] = "closed"
  <2>1. Stages' = Stages
    BY <1>3, StageChange DEF CloseClient, Becomes, StageOf
  <2>2. c \notin Visible
    BY <1>3, VisibleIs
  <2> QED
    BY <1>1, <2>1, <2>2, Stutters
<1>4. CASE handler[c] # "closed"
  <2>1. Stages[c] # "out"
    BY <1>4 DEF Stages, StageOf, IInv
  <2> QED
    BY <1>1, <1>2, <2>1, Moves
<1> QED
  BY <1>3, <1>4

LEMMA PassRefines ==
  ASSUME IInv, NEW c \in Clients,
         \/ Accept(c) \/ Kick(c) \/ NotKicked(c) \/ LinkLost(c) \/ Idle(c)
         \/ Output(c)
  PROVE  Abstract!Next \/ UNCHANGED Abstract!vars
<1>1. CASE Accept(c)
  <2>1. Stages' = [Stages EXCEPT ![c] = "login"] /\ Stages[c] = "out"
    BY <1>1, StageChange DEF Accept, Becomes, StageOf
  <2> QED
    BY <1>1, <2>1, Moves DEF Accept, Visible, world
<1>2. CASE CloseClient(c)
  BY <1>2, CloseRefines
<1>3. CASE Corrupts
  BY <1>3, Fails DEF Corrupts
<1>4. CASE UNCHANGED <<session, world>>
  BY <1>4, Stutters DEF session, world, Stages, Visible
<1> QED
  BY <1>1, <1>2, <1>3, <1>4 DEF Kick, NotKicked, LinkLost, Idle, Output

LEMMA NextRefines ==
  ASSUME IInv, [Next]_vars
  PROVE  Abstract!Next \/ UNCHANGED Abstract!vars
<1>1. CASE UNCHANGED <<session, world>>
  BY <1>1, Stutters DEF session, world, Stages, Visible
<1>2. ASSUME NEW end, Lost(end)
      PROVE  Abstract!Next
  BY <1>2, Fails
<1>3. ASSUME NEW c \in Clients, Handler(c) \/ Commands(c)
      PROVE  Abstract!Next \/ UNCHANGED Abstract!vars
  BY <1>2, <1>3, HandlerRefines, WorldRefines
     DEF Handler, Commands, client_get_account_password, do_sockets, Dies
<1>4. AcceptNone \/ KickDone \/ InputDone => UNCHANGED <<session, world>>
  BY DEF AcceptNone, KickDone, InputDone, BeginPass
<1>5. IterationDone => Lost("dead") \/ UNCHANGED <<session, world>>
  BY DEF IterationDone, Dies
<1>6. Crash => Lost("dead")
  BY DEF Crash
<1>7. Restart \/ UNCHANGED vars => UNCHANGED <<session, world>>
  BY DEF Restart, vars
<1> QED
  BY <1>1, <1>2, <1>3, <1>4, <1>5, <1>6, <1>7, PassRefines DEF Next, game_loop

\* The handlers, their pointers and their lists implement Presence: what the
\* other players see of a session follows its login, its moves between menu
\* and world and its departure, and nothing else.
THEOREM Implementation == Spec => PresenceSpec
<1>1. Init => Abstract!Init
  BY DEF Init, Abstract!Init, StageOf
<1>2. IInv /\ [Next]_vars => [Abstract!Next]_(Abstract!vars)
  BY NextRefines
<1> QED
  BY <1>1, <1>2, Invariance, PTL DEF Spec, PresenceSpec, Abstract!Spec
=============================================================================
