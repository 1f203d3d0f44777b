------------------------------- MODULE Rooms --------------------------------
(***************************************************************************)
(* Rooms: room.c, exit.c and area.c, and the editors of the game's online  *)
(* creation that change them: server/olc_room.c, olc_exit.c and olc_area.c *)
(* with the stack of editors and the text editor of server/olc.c.          *)
(*                                                                         *)
(* Builders edit the rooms of the running game.  What they change is in    *)
(* memory until a room or its area is saved, and a process that ends loads *)
(* what the tables hold.  An exit lives at one room and direction: an      *)
(* editor names it by these, and by whether it was freed since.  Names,    *)
(* texts, sectors and flags are left out; the area is one.                 *)
(***************************************************************************)
EXTENDS Lists, SequencesExt, FiniteSetsExt

CONSTANTS
  Clients,
  Rooms,      \* rooms there are or may be created
  Built,      \* the rooms of the first database
  MaxDir,     \* directions are 1 .. MaxDir
  MaxRows,    \* bound: rows of the exit table
  MaxCreated, \* bound: how often a room is created between two starts
  None        \* the null pointer

Dirs == 1 .. MaxDir

VARIABLES
  editing,     \* each client's stack of editors, the current one first
  exits,       \* exits[r][d]: where the exit leads and its row, or None
  room_hash,   \* the rooms get_room_by_id finds and the area lists
  room, exit,  \* the tables; the i-th row of exit has exitId i
  created,     \* history: rooms created since the start
  saved,       \* history: where the exits led when their room was last saved
  deleted,     \* history: <<r, d>> whose saved exit was deleted since the start
  lost         \* why the process is gone, or "no"

history == <<created, saved, deleted>>
vars    == <<editing, exits, room_hash, room, exit, history, lost>>

Kinds == {"room", "exits", "exit", "text", "area"}
Frame(k, r, d) == [kind |-> k, room |-> r, dir |-> d, freed |-> FALSE]
NoExits == [d \in Dirs |-> None]
Exit == [to : Rooms \cup {None}, id : 0 .. MaxRows]

TypeOK ==
  /\ \A c \in Clients : editing[c] \in
       Seq([kind : Kinds, room : Rooms \cup {None}, dir : Dirs \cup {None}, freed : BOOLEAN])
  /\ exits \in [Rooms -> [Dirs -> Exit \cup {None}]]
  /\ Built \subseteq room /\ room_hash \subseteq room /\ room \subseteq Rooms
  /\ exit \in Seq([from : Rooms, dir : Dirs, to : Rooms])
  /\ created \in 0 .. MaxCreated
  /\ saved \in [Rooms -> [Dirs -> Rooms \cup {None}]]
  /\ deleted \subseteq Rooms \X Dirs
  /\ lost \in {"no", "null", "freed"}

-----------------------------------------------------------------------------
(* Loading.                                                                *)

\* load_exits and finalize_exits: "room already has exit" for every row of a
\* direction but the first.
load_exits(r, d) ==
  LET rows == {i \in DOMAIN exit : exit[i].from = r /\ exit[i].dir = d}
      to   == exit[Min(rows)].to
  IN IF rows = {} THEN None
     ELSE [to |-> IF to \in room THEN to ELSE None, id |-> Min(rows)]

Init ==
  /\ editing = [c \in Clients |-> <<>>]
  /\ exits = [r \in Rooms |-> NoExits]
  /\ room_hash = Built /\ room = Built /\ exit = <<>>
  /\ created = 0
  /\ saved = [r \in Rooms |-> NoExits]
  /\ deleted = {}
  /\ lost = "no"

\* The process ends, whether by shutdown or by a crash, and load_areas runs.
Restart ==
  LET loaded == [r \in Rooms |-> [d \in Dirs |-> load_exits(r, d)]]
  IN /\ editing' = [c \in Clients |-> <<>>]
     /\ exits' = loaded
     /\ room_hash' = room
     /\ saved' = [r \in Rooms |-> [d \in Dirs |->
                    IF loaded[r][d] = None THEN None ELSE loaded[r][d].to]]
     /\ created' = 0 /\ deleted' = {}
     /\ lost' = "no"
     /\ UNCHANGED <<room, exit>>

\* A null pointer or freed memory is used; nothing is promised any more.
Loses(cause) ==
  /\ lost' = cause
  /\ editing' = [c \in Clients |-> <<>>]
  /\ UNCHANGED <<exits, room_hash, room, exit>>

-----------------------------------------------------------------------------
(* The stack of editors.                                                   *)

Top(c) == Head(editing[c])
Using(c, kind) == lost = "no" /\ editing[c] # <<>> /\ Top(c).kind = kind

\* What happens when the first editor of stack is shown: the exits editor reads
\* the room behind every exit, the exit editor the exit.
Fault(stack, ex) ==
  IF stack = <<>> THEN "no"
  ELSE LET f == Head(stack)
       IN IF f.freed THEN "freed"
          ELSE IF f.kind = "exits"
                  /\ \E d \in Dirs : ex[f.room][d] # None /\ ex[f.room][d].to = None
               THEN "null" ELSE "no"

\* c's editors become stack, the other clients' those of editors, the exits ex,
\* and the first editor is shown.
Shows(c, stack, editors, ex) ==
  IF Fault(stack, ex) = "no"
  THEN editing' = [editors EXCEPT ![c] = stack] /\ exits' = ex /\ lost' = lost
       /\ UNCHANGED <<room_hash, room, exit>>
  ELSE Loses(Fault(stack, ex))

Push(c, frame, ex) == Shows(c, <<frame>> \o editing[c], editing, ex) /\ UNCHANGED history

finish_editing(c) ==
  /\ lost = "no" /\ editing[c] # <<>>
  /\ Shows(c, Tail(editing[c]), editing, exits) /\ UNCHANGED history

\* destroy_client: the editors are not freed, but nobody finds them any more.
Leave(c) ==
  /\ lost = "no" /\ editing[c] # <<>>
  /\ editing' = [editing EXCEPT ![c] = <<>>]
  /\ UNCHANGED <<exits, room_hash, room, exit, history, lost>>

\* do_edit: a room by its id, the one the builder is in, the area, or a room
\* that is in no list until the game is started again.
edit_room(c) ==
  /\ lost = "no" /\ editing[c] = <<>>
  /\ \E r \in room_hash : Push(c, Frame("room", r, None), exits)

edit_area(c) ==
  /\ lost = "no" /\ editing[c] = <<>>
  /\ Push(c, Frame("area", None, None), exits)

edit_room_create(c) ==
  /\ lost = "no" /\ editing[c] = <<>> /\ created < MaxCreated
  /\ created' = created + 1
  /\ \E r \in Rooms \ room :
       /\ \A x \in Clients : \A i \in DOMAIN editing[x] : editing[x][i].room # r
       /\ Shows(c, <<Frame("room", r, None)>>, editing, [exits EXCEPT ![r] = NoExits])
  /\ UNCHANGED <<saved, deleted>>

\* The description or the reset of a room.
edit_text(c) == Using(c, "room") /\ Push(c, Frame("text", Top(c).room, None), exits)

\* \i#, with a line there is: string_lineadd sets its buffer to null and writes.
string_lineadd(c) == Using(c, "text") /\ Loses("null") /\ UNCHANGED history

edit_exits(c) == Using(c, "room") /\ Push(c, Frame("exits", Top(c).room, None), exits)

-----------------------------------------------------------------------------
(* Exits.                                                                  *)

\* The editors, after the exit at r and d was freed.
Freed(r, d) ==
  [c \in Clients |-> [i \in DOMAIN editing[c] |->
     LET f == editing[c][i]
     IN IF f.kind = "exit" /\ f.room = r /\ f.dir = d THEN [f EXCEPT !.freed = TRUE] ELSE f]]

\* Mutant: an exit that is in the way is freed.
dig_Replaces(c) ==
  /\ Using(c, "room") \/ Using(c, "exits")
  /\ \E d \in Dirs :
       LET r == Top(c).room
       IN /\ Shows(c, <<Frame("exit", r, d)>> \o editing[c], Freed(r, d),
                   [exits EXCEPT ![r][d] = [to |-> None, id |-> 0]])
          /\ UNCHANGED history

\* dig, and create of the exits editor.  The new exit leads nowhere yet.
dig(c) ==
  /\ Using(c, "room") \/ Using(c, "exits")
  /\ \E d \in Dirs :
       LET r == Top(c).room
       IN /\ exits[r][d] = None
          /\ Push(c, Frame("exit", r, d), [exits EXCEPT ![r][d] = [to |-> None, id |-> 0]])

exits_edit(c) ==
  /\ Using(c, "exits")
  /\ \E d \in Dirs : LET r == Top(c).room
                     IN exits[r][d] # None /\ Push(c, Frame("exit", r, d), exits)

\* delete: the exit goes, its row stays.
exits_delete(c) ==
  /\ Using(c, "exits")
  /\ \E d \in Dirs :
       LET r == Top(c).room
       IN /\ exits[r][d] # None
          /\ Shows(c, editing[c], Freed(r, d), [exits EXCEPT ![r][d] = None])
          /\ deleted' = IF exits[r][d].id # 0 THEN deleted \cup {<<r, d>>} ELSE deleted
          /\ UNCHANGED <<created, saved>>

\* A or ToRoom; the flags are set in the same memory.
exit_ToRoom(c) ==
  /\ Using(c, "exit")
  /\ IF Top(c).freed THEN Loses("freed")
     ELSE \E r \in room_hash :
            Shows(c, editing[c], editing, [exits EXCEPT ![Top(c).room][Top(c).dir].to = r])
  /\ UNCHANGED history

-----------------------------------------------------------------------------
(* Saving.                                                                 *)

\* The exits of r that save_exit saves: the others are logged and left out.
HasRoom(r) == {d \in Dirs : exits[r][d] # None /\ exits[r][d].to # None}

\* The directions whose exits are inserted, in the order they are.
ToInsert(r) == Sorted({d \in HasRoom(r) : exits[r][d].id = 0})

Row(r, d) == [from |-> r, dir |-> d, to |-> exits[r][d].to]

\* The exit table after save_exit of every exit of r.
save_exits(table, r) ==
  LET new == ToInsert(r)
      Updated(i) == {d \in HasRoom(r) : exits[r][d].id = i}
      old == [i \in DOMAIN table |->
                IF Updated(i) = {} THEN table[i] ELSE Row(r, CHOOSE d \in Updated(i) : TRUE)]
  IN old \o [i \in DOMAIN new |-> Row(r, new[i])]

\* Mutant: an exit does not learn what row it is.
Inserted_NoId(table, r) == exits[r]

\* The exits of r, with the ids of the rows they were inserted as.
Inserted(table, r) ==
  LET new == ToInsert(r)
  IN [d \in Dirs |-> IF \E i \in DOMAIN new : new[i] = d
                     THEN [exits[r][d] EXCEPT !.id =
                             Len(table) + CHOOSE i \in DOMAIN new : new[i] = d]
                     ELSE exits[r][d]]

\* What save_room leaves of r for the next start.
Written(r) == [d \in Dirs |-> IF d \in HasRoom(r) THEN exits[r][d].to ELSE None]

save_room(c) ==
  /\ Using(c, "room")
  /\ LET r == Top(c).room
     IN /\ Len(exit) + Len(ToInsert(r)) <= MaxRows
        /\ room' = room \cup {r}
        /\ exit' = save_exits(exit, r)
        /\ exits' = [exits EXCEPT ![r] = Inserted(exit, r)]
        /\ saved' = [saved EXCEPT ![r] = Written(r)]
  /\ UNCHANGED <<editing, room_hash, created, deleted, lost>>

\* The exit table after none, one, ..., all of the rooms of all were saved.
Tables(all) ==
  LET table[i \in 0 .. Len(all)] ==
        IF i = 0 THEN exit ELSE save_exits(table[i - 1], all[i])
  IN table

\* save_area, as far as its rooms go.
save_area(c) ==
  /\ Using(c, "area")
  /\ LET all == SetToSeq(room_hash)
         table == Tables(all)
         Before(r) == table[(CHOOSE i \in DOMAIN all : all[i] = r) - 1]
     IN /\ Len(table[Len(all)]) <= MaxRows
        /\ exit' = table[Len(all)]
        /\ exits' = [r \in Rooms |->
             IF r \in room_hash THEN Inserted(Before(r), r) ELSE exits[r]]
        /\ saved' = [r \in Rooms |-> IF r \in room_hash THEN Written(r) ELSE saved[r]]
  /\ UNCHANGED <<editing, room_hash, room, created, deleted, lost>>

-----------------------------------------------------------------------------
Step(c) ==
  \/ edit_room(c) \/ edit_room_create(c) \/ edit_area(c)
  \/ finish_editing(c) \/ Leave(c)
  \/ edit_text(c) \/ string_lineadd(c)
  \/ edit_exits(c) \/ dig(c) \/ exits_edit(c) \/ exits_delete(c) \/ exit_ToRoom(c)
  \/ save_room(c) \/ save_area(c)

Next == Restart \/ \E c \in Clients : Step(c)

Spec == Init /\ [][Next]_vars

-----------------------------------------------------------------------------
(* Properties.                                                             *)

\* What a room's exits were when it was last saved is what the next start
\* finds, except where a saved exit was deleted: its row is still there and
\* wins over the row of the exit that took its place.  And every exit, in memory
\* or in the table, leads to a room the next start will find, so that
\* finalize_exits never has to log an invalid one.
SavedComesBack ==
  /\ \A r \in room, d \in Dirs :
       <<r, d>> \notin deleted =>
         LET e == load_exits(r, d) IN saved[r][d] = IF e = None THEN None ELSE e.to
  /\ \A i \in DOMAIN exit : {exit[i].from, exit[i].to} \subseteq room
  /\ \A r \in Rooms, d \in Dirs : exits[r][d] # None => exits[r][d].to \in room_hash \cup {None}

\* The editor of a freed exit is never the fault of its own builder: another
\* one, in the exits editor of the same room, deleted the exit under it.
FreedByAnother ==
  [][\A c \in Clients : \A i \in DOMAIN editing'[c] :
       editing'[c][i].freed =>
         \/ i \in DOMAIN editing[c] /\ editing[c][i].freed
         \/ \E x \in Clients \ {c} : Using(x, "exits") /\ Top(x).room = editing'[c][i].room]_vars
=============================================================================
