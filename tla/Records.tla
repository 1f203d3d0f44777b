------------------------------ MODULE Records ------------------------------
(***************************************************************************)
(* What stands in the database: the characters, what players own, and      *)
(* rooms and their exits.  The three are written and read apart from each  *)
(* other (a room's rows name no character, and a character's no room that  *)
(* a builder could remove), so a behaviour is one of one of them.          *)
(***************************************************************************)
EXTENDS Characters

CONSTANTS
  Sessions, Players, MaxObj, MaxRow,                  \* Belongings
  Clients, Rooms, Built, MaxDir, MaxRows, MaxCreated  \* Rooms

ASSUME RecordsAssumption ==
  /\ Npc \notin Accounts /\ None \notin Accounts /\ MaxId \in Nat
  /\ MaxObj \in Nat \ {0} /\ MaxRow \in Nat \ {0} /\ IsFiniteSet(Sessions)
  /\ None \notin Players /\ {"nobody", "deleted"} \cap Players = {}
  /\ Built \subseteq Rooms /\ Built # {} /\ None \notin Rooms /\ IsFiniteSet(Rooms)
  /\ None \notin [to : Rooms \cup {None}, id : Nat]  \* nor is it an exit or an object
  /\ None \notin [id : Nat, area : BOOLEAN]
  /\ MaxDir \in Nat \ {0} /\ MaxRows \in Nat /\ MaxCreated \in Nat

VARIABLES
  part,                                                      \* the one whose behaviour it is
  plays, carrying, floor, obj, first_object, stale, object,  \* Belongings
  gone,                                                      \* and its lost
  editing, exits, room_hash, room, exit,                     \* Rooms
  created, saved, deleted, lost

B == INSTANCE Belongings WITH lost <- gone
R == INSTANCE Rooms

bVars == <<plays, carrying, floor, obj, first_object, stale, object, gone>>
rVars == <<editing, exits, room_hash, room, exit, created, saved, deleted, lost>>

RecordsInit == part \in {"Characters", "Belongings", "Rooms"} /\ Init /\ B!Init /\ R!Init

RecordsNext ==
  /\ UNCHANGED part
  /\ \/ part = "Characters" /\ Next /\ UNCHANGED <<bVars, rVars>>
     \/ part = "Belongings" /\ B!Next /\ UNCHANGED <<vars, rVars>>
     \/ part = "Rooms" /\ R!Next /\ UNCHANGED <<vars, bVars>>

RecordsSpec == RecordsInit /\ [][RecordsNext]_<<part, vars, bVars, rVars>>

-----------------------------------------------------------------------------
(* The parts' properties; those of Characters go by their own names.       *)

\* Who plays only ever changes rows of the own character.
SavesOwnRows == B!SavesOwnRows

\* A save keeps everything that is carried.
SaveKeepsAll == B!SaveKeepsAll

\* The next start finds the exits that were saved, and each leads to a room;
\* and all three parts keep their types.
SavedComesBack == TypeOK /\ B!TypeOK /\ R!TypeOK /\ R!SavedComesBack

\* The editor of a freed exit is never the fault of its own builder.
FreedByAnother == R!FreedByAnother
=============================================================================
