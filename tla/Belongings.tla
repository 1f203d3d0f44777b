----------------------------- MODULE Belongings -----------------------------
(***************************************************************************)
(* What players own, in memory and in the table object: load_char_objs and *)
(* save_char_objs (character.c), loading and saving of objects (object.c), *)
(* the area's list of objects that save_area walks (area.c), and the ways  *)
(* a session or the process ends, of which some save and some do not       *)
(* (server/server.c, main.c, command.c).                                   *)
(*                                                                         *)
(* The table has the columns the code names and the constraints of the     *)
(* repository's database: areaId is not null.  Objects in other objects    *)
(* are left out, they are not saved with a player.  Two sessions may play  *)
(* the same character, since nothing keeps an account from logging in      *)
(* twice.  There is one area.                                              *)
(***************************************************************************)
EXTENDS Lists, SequencesExt, FiniteSetsExt

CONSTANTS
  Sessions, Players,
  MaxObj,     \* bound: objects are at the addresses 1 .. MaxObj
  MaxRow,     \* bound: rows ever inserted into object
  None

VARIABLES
  plays,        \* the character of a session, or None
  carrying,     \* its objects, the last one linked first
  floor,        \* objects in rooms
  obj,          \* obj[o]: row and whether the area is known, or None if free
  first_object, \* the list of all objects, the last one linked first; the
                \* area's is the same while nothing of it was freed
  stale,        \* something was: nothing is ever unlinked from the area's
  object,       \* the table: the i-th row's carriedById, "nobody" or "deleted"
  lost          \* a list with freed objects was walked

world == <<plays, carrying, floor, obj, first_object, stale>>
vars  == <<world, object, lost>>

Addresses == 1 .. MaxObj
Live == {o \in Addresses : obj[o] # None}

TypeOK ==
  /\ plays \in [Sessions -> Players \cup {None}]
  /\ \A s \in Sessions : Range(carrying[s]) \subseteq Live
  /\ floor \subseteq Live
  /\ \A o \in Live : obj[o].id \in 0 .. MaxRow /\ obj[o].area \in BOOLEAN
  /\ Range(first_object) = Live /\ IsInjective(first_object)
  /\ object \in Seq(Players \cup {"nobody", "deleted"})
  /\ stale \in BOOLEAN /\ lost \in BOOLEAN

-----------------------------------------------------------------------------
(* Loading.                                                                *)

\* load_objects at the start: every row, also those that players carry; the
\* area is not on its list yet, so that the objects do not find it.
Boot(table) ==
  LET rows == Sorted({i \in DOMAIN table : table[i] # "deleted"})
  IN /\ Len(rows) <= MaxObj
     /\ obj' = [o \in Addresses |->
          IF o \in DOMAIN rows THEN [id |-> rows[o], area |-> FALSE] ELSE None]
     /\ first_object' = Reverse([i \in DOMAIN rows |-> i])
     /\ stale' = FALSE
     /\ plays' = [s \in Sessions |-> None]
     /\ carrying' = [s \in Sessions |-> <<>>]
     /\ floor' = {}

Init ==
  /\ plays = [s \in Sessions |-> None]
  /\ carrying = [s \in Sessions |-> <<>>]
  /\ floor = {}
  /\ obj = [o \in Addresses |-> IF o = 1 THEN [id |-> 1, area |-> FALSE] ELSE None]
  /\ first_object = <<1>> /\ stale = FALSE
  /\ object = <<"nobody">>
  /\ lost = FALSE

\* The addresses of n new objects, the last one first.
New(n) == LET free == Sorted(Addresses \ Live) IN [i \in 1 .. n |-> free[n + 1 - i]]

\* Objects with the given rows are allocated and linked one after the other.
Allocates(rows) ==
  LET n == Len(rows)
      new == New(n)
  IN /\ n <= Cardinality(Addresses \ Live)
     /\ obj' = [o \in Addresses |->
          IF \E i \in 1 .. n : new[i] = o
          THEN [id |-> rows[n + 1 - CHOOSE i \in 1 .. n : new[i] = o], area |-> TRUE]
          ELSE obj[o]]
     /\ first_object' = new \o first_object

\* reset_room loads an object that lies about, by the number of its row.
load_object ==
  /\ ~lost /\ object[1] # "deleted"
  /\ Allocates(<<1>>)
  /\ floor' = floor \cup Range(New(1))
  /\ UNCHANGED <<plays, carrying, stale, object, lost>>

Rows(table, p) == {i \in DOMAIN table : table[i] = p}

\* load_player_by_id with load_char_objs.
load_char_objs(s, p) ==
  LET rows == Sorted(Rows(object, p))
  IN /\ ~lost /\ plays[s] = None
     /\ plays' = [plays EXCEPT ![s] = p]
     /\ Allocates(rows)
     /\ carrying' = [carrying EXCEPT ![s] = New(Len(rows))]
     /\ UNCHANGED <<floor, stale, object, lost>>

-----------------------------------------------------------------------------
(* Saving.  A store is what saving changes: the table and the rows of the  *)
(* objects.                                                                *)

Store == [object |-> object, id |-> [o \in Live |-> obj[o].id]]

\* Mutant: whoever has the row.
HasRow_Any(st, p, o) == st.id[o] # 0

\* The select of save_char_objs.
HasRow(st, p, o) == st.id[o] \in Rows(st.object, p)

\* save_object of something p carries: updated or inserted anew.
SavedObject(st, p, o) ==
  IF HasRow(st, p, o) THEN [st EXCEPT !.object[st.id[o]] = p]
  ELSE [object |-> Append(st.object, p), id |-> [st.id EXCEPT ![o] = Len(st.object) + 1]]

\* Mutant: the walk starts behind the first object.
Walk_Behind(s) ==
  IF carrying[s] = <<>> THEN {}
  ELSE {first_object[i] : i \in {j \in DOMAIN first_object :
          \E k \in 1 .. j - 1 : first_object[k] = Head(carrying[s])}}

\* Where save_char_objs looks for the object of a row: from the first object
\* that is carried on, but along the list of all objects.
Walk(s) ==
  IF carrying[s] = <<>> THEN {}
  ELSE {first_object[i] : i \in {j \in DOMAIN first_object :
          \E k \in 1 .. j : first_object[k] = Head(carrying[s])}}

\* The store after none, one, ..., all of what s carries was saved.
SavedObjects(st, s) ==
  LET after[n \in 0 .. Len(carrying[s])] ==
        IF n = 0 THEN st ELSE SavedObject(after[n - 1], plays[s], carrying[s][n])
  IN after

\* save_char_objs.
Saved(st, s) ==
  LET p == plays[s]
      after == SavedObjects(st, s)[Len(carrying[s])]
      found == {after.id[o] : o \in Walk(s)}
  IN IF p = None THEN st
     ELSE [after EXCEPT !.object = [i \in DOMAIN after.object |->
             IF after.object[i] = p /\ i \notin found THEN "deleted" ELSE after.object[i]]]

Stores(st) ==
  /\ Len(st.object) <= MaxRow
  /\ object' = st.object
  /\ obj' = [o \in Addresses |-> IF o \in Live THEN [obj[o] EXCEPT !.id = st.id[o]] ELSE None]

save_player(s) ==
  /\ ~lost /\ plays[s] # None
  /\ Stores(Saved(Store, s))
  /\ UNCHANGED <<plays, carrying, floor, first_object, stale, lost>>

\* extract_char: what is carried goes with the character, but stays on the
\* list of the area.
Extracts(s) ==
  /\ plays' = [plays EXCEPT ![s] = None]
  /\ carrying' = [carrying EXCEPT ![s] = <<>>]
  /\ first_object' = Without(first_object, Range(carrying[s]))
  /\ stale' = (stale \/ carrying[s] # <<>>)
  /\ UNCHANGED <<floor, lost>>

\* quit: the loop does not count who has no handler as playing.
quit(s) ==
  /\ ~lost /\ plays[s] # None
  /\ Extracts(s)
  /\ obj' = [o \in Addresses |-> IF Contains(carrying[s], o) THEN None ELSE obj[o]]
  /\ UNCHANGED object

\* The link fails: game_loop saves and closes.
LinkFails(s) ==
  /\ ~lost /\ plays[s] # None
  /\ Extracts(s)
  /\ LET st == Saved(Store, s)
     IN /\ Len(st.object) <= MaxRow
        /\ object' = st.object
        /\ obj' = [o \in Addresses |-> IF Contains(carrying[s], o) \/ o \notin Live THEN None
                                       ELSE [obj[o] EXCEPT !.id = st.id[o]]]

\* shutdown, or killed.
Restart == Boot(object) /\ lost' = FALSE /\ UNCHANGED object

\* The store after none, one, ..., all of the sessions in all were saved.
AllSaved(all) ==
  LET store[n \in 0 .. Len(all)] == IF n = 0 THEN Store ELSE Saved(store[n - 1], all[n])
  IN store

\* Another signal: handle_sig saves whoever plays, and the process ends.
handle_sig ==
  /\ ~lost
  /\ LET all == SetToSeq(Sessions)
         st == AllSaved(all)[Len(all)]
     IN Len(st.object) <= MaxRow /\ object' = st.object /\ Boot(st.object)
  /\ UNCHANGED lost

-----------------------------------------------------------------------------
(* Playing and building.                                                   *)

do_get(s) ==
  /\ ~lost /\ plays[s] # None
  /\ \E o \in floor :
       /\ floor' = floor \ {o}
       /\ carrying' = [carrying EXCEPT ![s] = <<o>> \o @]
  /\ UNCHANGED <<plays, obj, first_object, stale, object, lost>>

do_drop(s) ==
  /\ ~lost
  /\ \E o \in Range(carrying[s]) :
       /\ floor' = floor \cup {o}
       /\ carrying' = [carrying EXCEPT ![s] = Without(@, {o})]
  /\ UNCHANGED <<plays, obj, first_object, stale, object, lost>>

CarriedBy(o) ==
  IF \E s \in Sessions : Contains(carrying[s], o)
  THEN plays[CHOOSE s \in Sessions : Contains(carrying[s], o)] ELSE "nobody"

\* save_object by itself: without an area the row is not changed, and a row
\* that is gone does not come back.
Updated(table, o) ==
  IF obj[o].area /\ obj[o].id # 0 /\ table[obj[o].id] # "deleted"
  THEN [table EXCEPT ![obj[o].id] = CarriedBy(o)] ELSE table

\* The table after none, one, ..., all of the objects were saved.
Updates ==
  LET table[n \in 0 .. Len(first_object)] ==
        IF n = 0 THEN object ELSE Updated(table[n - 1], first_object[n])
  IN table

\* The builder's save of an area.  A freed object on its list is read, or one
\* that took its address and is on the list twice, which closes the list.
save_area ==
  /\ ~lost
  /\ IF stale THEN lost' = TRUE /\ UNCHANGED object
     ELSE object' = Updates[Len(first_object)] /\ UNCHANGED lost
  /\ UNCHANGED world

\* The object editor's save and delete.
edit_save ==
  /\ ~lost
  /\ \E o \in Live : object' = Updated(object, o)
  /\ UNCHANGED <<world, lost>>

edit_delete ==
  /\ ~lost
  /\ \E o \in Live :
       /\ object' = [i \in DOMAIN object |-> IF i = obj[o].id THEN "deleted" ELSE object[i]]
       /\ obj' = [obj EXCEPT ![o] = None]
       /\ floor' = floor \ {o}
       /\ carrying' = [s \in Sessions |-> Without(carrying[s], {o})]
       /\ first_object' = Without(first_object, {o})
  /\ stale' = TRUE
  /\ UNCHANGED <<plays, lost>>

Next ==
  \/ load_object \/ Restart \/ handle_sig \/ save_area \/ edit_save \/ edit_delete
  \/ \E s \in Sessions :
       \/ save_player(s) \/ quit(s) \/ LinkFails(s) \/ do_get(s) \/ do_drop(s)
       \/ \E p \in Players : load_char_objs(s, p)

Spec == Init /\ [][Next]_vars

-----------------------------------------------------------------------------
(* Properties.                                                             *)

\* Who plays only ever changes rows of the own character: by saving, by a link
\* that fails, by a crash.  It takes a builder to move a row from one to another
\* or to take one of who does not play, although sessions that hold copies of
\* the same prototype, or of each other's objects, hold the same row numbers.
SavesOwnRows ==
  [][\/ save_area \/ edit_save \/ edit_delete
     \/ \A i \in DOMAIN object :
          object'[i] # object[i] =>
            object'[i] = "deleted" /\ \E s \in Sessions : plays[s] = object[i]]_vars

\* What a session holds is in the order it came into the game.
InOrder(s) ==
  \A i, j \in DOMAIN carrying[s] : i < j =>
    \E k, l \in DOMAIN first_object :
      k < l /\ first_object[k] = carrying[s][i] /\ first_object[l] = carrying[s][j]

\* A save keeps everything that is carried, as long as it was picked up in the
\* order it came into the game: else the clean-up takes the rows of what came
\* after the object that was picked up last.
SaveKeepsAll ==
  [][\A s \in Sessions : save_player(s) /\ InOrder(s) =>
       \A i \in DOMAIN carrying[s] : object'[obj'[carrying[s][i]].id] = plays[s]]_vars
=============================================================================
