------------------------------ MODULE Importer ------------------------------
(***************************************************************************)
(* server/importer.c: area files of ROM are read into areas, indexes by    *)
(* vnum and temporary resets, and import_commit saves them all in one      *)
(* transaction: areas with their npcs and objects, the text of the resets, *)
(* the rooms, and last the exits between them.  A file is any sequence of  *)
(* sections and records; a record is its vnum, and a room's exits.         *)
(*                                                                         *)
(* import_cleanup frees the areas and leaves import_areas and area_last    *)
(* as they are (stale); what is done with freed memory ends the program    *)
(* (lost).  Names, flags, values, helps, socials, shops and specials are   *)
(* read and have no part here.                                             *)
(***************************************************************************)
EXTENDS Naturals, SequencesExt

CONSTANTS
  Vnums,     \* vnums of rooms, numbers from 1
  ItemVnums, \* vnums of npcs and objects
  Dirs,
  MaxLines,  \* bound: areas and records read
  MaxRooms,  \* bound: rows of room
  None

Exits == [Dirs -> Vnums \cup {None}]

\* Vnums by table, and the exits of the rooms read.
Indexes == [npc : SUBSET ItemVnums, obj : SUBSET ItemVnums,
            room : UNION {[vs -> Exits] : vs \in SUBSET (Vnums \cup ItemVnums)}]

ASSUME ImporterAssumption ==
  Vnums \subseteq Nat /\ ItemVnums \subseteq Nat /\ None \notin Indexes

VARIABLES
  section,       \* the section that is read, "file" between two, "no" without a file
  list,          \* the file is one of a list
  import_areas,  \* the areas, the last one first: vnums, the last one first
  stale,         \* import_areas was freed
  indexes,       \* room_indexes with the rooms' exits, npc_indexes, obj_indexes; or None
  freed,         \* an index has what was freed
  temp_resets,   \* the resets, the last one first
  last,          \* import_rom_resets: iLastRoom, iLastObj and last_reset
  tables,        \* rows: character and object (how many), room (resets), exit
  live,          \* the ids get_room_by_id finds
  line,          \* history: areas and records read
  after,         \* history: the line of the last M, O or D of the section, and whether each
                 \* of them was taken
  lost

reading == <<section, list>>
areas   == <<import_areas, stale>>
vars    == <<reading, areas, indexes, freed, temp_resets, last, tables, live, line, after, lost>>

-----------------------------------------------------------------------------

NoResets == [iLastRoom |-> 0, iLastObj |-> 0, last_reset |-> 0]
NoIndexes == [npc |-> {}, obj |-> {}, room |-> <<>>]
NewArea == [npcs |-> <<>>, objects |-> <<>>, rooms |-> <<>>]

MemoryCleared ==
  /\ section' = "no" /\ list' = FALSE /\ import_areas' = <<>> /\ stale' = FALSE
  /\ indexes' = None /\ freed' = FALSE /\ temp_resets' = <<>> /\ last' = NoResets
  /\ after' = [line |-> 0, taken |-> TRUE] /\ lost' = FALSE

\* The database has a room from before.
Init ==
  /\ section = "no" /\ list = FALSE /\ import_areas = <<>> /\ stale = FALSE
  /\ indexes = None /\ freed = FALSE /\ temp_resets = <<>> /\ last = NoResets
  /\ tables = [character |-> 0, object |-> 0, room |-> <<<<>>>>, exit |-> {}]
  /\ live = {1} /\ line = 0 /\ after = [line |-> 0, taken |-> TRUE] /\ lost = FALSE

Restart == MemoryCleared /\ live' = DOMAIN tables.room /\ UNCHANGED <<tables, line>>

\* An area or a record is read.
Reads(s) == ~lost /\ section = s /\ line < MaxLines /\ line' = line + 1

\* The section's function returns.
Returns == section' = "file" /\ UNCHANGED list

\* A record of an area; area_last may be what was freed.
InArea(field, v) ==
  /\ import_areas' = [import_areas EXCEPT ![1][field] = <<v>> \o @]
  /\ UNCHANGED stale

-----------------------------------------------------------------------------
(* Files and sections.                                                     *)

\* import rom, or the next file of a list
import_rom_file ==
  /\ ~lost /\ section = "no"
  /\ section' = "file" /\ list' \in BOOLEAN
  /\ indexes' = IF indexes = None THEN NoIndexes ELSE indexes
  /\ UNCHANGED <<areas, freed, temp_resets, last, tables, live, line, after, lost>>

\* #AREA, #AREADATA: a new area is linked before what import_areas points to.
import_rom_area ==
  /\ Reads("file")
  /\ import_areas' = <<NewArea>> \o import_areas
  /\ UNCHANGED <<reading, stale, indexes, freed, temp_resets, last, tables, live, after, lost>>

\* #MOBILES, #OBJECTS, #ROOMS, #RESETS: "no area seen yet" returns.
Section(s) ==
  /\ ~lost /\ section = "file"
  /\ section' = IF import_areas = <<>> /\ ~stale THEN "file" ELSE s
  /\ lost' = (import_areas = <<>> /\ stale)
  /\ last' = NoResets /\ after' = [line |-> 0, taken |-> TRUE]
  /\ UNCHANGED <<list, areas, indexes, freed, temp_resets, tables, live, line>>

\* #0, S, or "# not found": what follows is read as the file's.
EndSection ==
  /\ ~lost /\ section \in {"MOBILES", "OBJECTS", "ROOMS", "RESETS"}
  /\ Returns
  /\ UNCHANGED <<areas, indexes, freed, temp_resets, last, tables, live, line, after, lost>>

\* #$
EndFile ==
  /\ ~lost /\ section = "file" /\ section' = "no"
  /\ UNCHANGED <<list, areas, indexes, freed, temp_resets, last, tables, live, line, after, lost>>

\* import_cleanup: hm_foreach may come to a record that was freed before.
import_cleanup ==
  /\ indexes' = None /\ freed' = FALSE /\ temp_resets' = <<>>
  /\ import_areas' = <<>> /\ stale' = (stale \/ import_areas # <<>>)
  /\ last' = NoResets /\ after' = [line |-> 0, taken |-> TRUE]

\* "# not found", "bad section name"; import_rom_area_list closes the file again.
FileFails ==
  /\ ~lost /\ section = "file" /\ section' = "no"
  /\ import_cleanup
  /\ lost' \in {list, list \/ freed}
  /\ UNCHANGED <<list, tables, live, line>>

-----------------------------------------------------------------------------
(* Records.                                                                *)

\* "vnum duplicated" leaves the section.
import_rom_mobiles(v) ==
  /\ Reads("MOBILES")
  /\ IF v \in indexes.npc THEN Returns /\ UNCHANGED <<areas, indexes>>
     ELSE /\ indexes' = [indexes EXCEPT !.npc = @ \cup {v}]
          /\ InArea("npcs", v) /\ UNCHANGED reading
  /\ UNCHANGED <<freed, temp_resets, last, tables, live, after, lost>>

import_rom_objects(v) ==
  /\ Reads("OBJECTS")
  /\ IF v \in indexes.obj THEN Returns /\ UNCHANGED <<areas, indexes>>
     ELSE /\ indexes' = [indexes EXCEPT !.obj = @ \cup {v}]
          /\ InArea("objects", v) /\ UNCHANGED reading
  /\ UNCHANGED <<freed, temp_resets, last, tables, live, after, lost>>

WithRoom(v, exits) ==
  [w \in DOMAIN indexes.room \cup {v} |-> IF w = v THEN exits ELSE indexes.room[w]]

\* exits: the vnum each leads to, or None.
import_rom_rooms(v, exits) ==
  /\ Reads("ROOMS")
  /\ IF v \in DOMAIN indexes.room THEN Returns /\ UNCHANGED <<areas, indexes>>
     ELSE /\ indexes' = [indexes EXCEPT !.room = WithRoom(v, exits)]
          /\ InArea("rooms", v) /\ UNCHANGED reading
  /\ UNCHANGED <<freed, temp_resets, last, tables, live, after, lost>>

\* "flag not found", "Bad where on flag set", "bad door number", "flag not DES": the
\* record is destroyed, and stays in its index.
BadRecord(v) ==
  /\ \/ /\ Reads("MOBILES") /\ v \notin indexes.npc
        /\ indexes' = [indexes EXCEPT !.npc = @ \cup {v}]
     \/ /\ Reads("OBJECTS") /\ v \notin indexes.obj
        /\ indexes' = [indexes EXCEPT !.obj = @ \cup {v}]
     \/ /\ Reads("ROOMS") /\ v \notin DOMAIN indexes.room
        /\ indexes' = [indexes EXCEPT !.room = WithRoom(v, [d \in Dirs |-> None])]
  /\ freed' = TRUE /\ Returns
  /\ UNCHANGED <<areas, temp_resets, last, tables, live, after, lost>>

-----------------------------------------------------------------------------
(* import_rom_resets: M, O, D are linked to temp_resets, P, G, E to        *)
(* last_reset.  last_reset is a place counted from the end of temp_resets. *)

Reset(type, v, r) == [type |-> type, arg1 |-> v, room |-> r, line |-> line', subs |-> <<>>]

Links(type, v, r) ==
  /\ temp_resets' = <<Reset(type, v, r)>> \o temp_resets
  /\ after' = [line |-> line', taken |-> TRUE]

Drops == UNCHANGED temp_resets /\ after' = [line |-> line', taken |-> FALSE]

ResetM(v, r) ==
  /\ Reads("RESETS")
  /\ IF v \in indexes.npc /\ r \in DOMAIN indexes.room
     THEN Links("M", v, r)
          /\ last' = [last EXCEPT !.iLastRoom = r, !.last_reset = Len(temp_resets) + 1]
     ELSE Drops /\ UNCHANGED last
  /\ UNCHANGED <<reading, areas, indexes, freed, tables, live, lost>>

\* Mutant: what is given next is still for the last M.
ResetO_KeepsLast(v, r) ==
  /\ Reads("RESETS")
  /\ IF v \in indexes.obj /\ r \in DOMAIN indexes.room
     THEN Links("O", v, r) /\ last' = [last EXCEPT !.iLastObj = r]
     ELSE Drops /\ UNCHANGED last
  /\ UNCHANGED <<reading, areas, indexes, freed, tables, live, lost>>

ResetO(v, r) ==
  /\ Reads("RESETS")
  /\ IF v \in indexes.obj /\ r \in DOMAIN indexes.room
     THEN Links("O", v, r)
          /\ last' = [last EXCEPT !.iLastObj = r, !.last_reset = Len(temp_resets) + 1]
     ELSE Drops /\ UNCHANGED last
  /\ UNCHANGED <<reading, areas, indexes, freed, tables, live, lost>>

\* P goes with an O (no G or E ever is last_reset), G and E with an M; what goes with
\* none is dropped, and so is what has no room yet.
Sub(types, room, of, v) ==
  LET i == Len(temp_resets) + 1 - last.last_reset
  IN temp_resets' =
       IF v \in indexes.obj /\ room \in DOMAIN indexes.room /\ last.last_reset # 0
          /\ temp_resets[i].type \in of
       THEN [temp_resets EXCEPT ![i].subs = <<[type |-> types, arg1 |-> v, room |-> room,
                                                line |-> after.line, taken |-> after.taken]>> \o @]
       ELSE temp_resets

ResetP(v) ==
  /\ Reads("RESETS")
  /\ Sub("P", last.iLastObj, {"O", "G", "E"}, v)
  /\ UNCHANGED <<reading, areas, indexes, freed, last, tables, live, after, lost>>

\* G and E
ResetGive(type, v) ==
  /\ Reads("RESETS")
  /\ Sub(type, last.iLastRoom, {"M"}, v)
  /\ last' = IF temp_resets' # temp_resets THEN [last EXCEPT !.iLastObj = last.iLastRoom] ELSE last
  /\ UNCHANGED <<reading, areas, indexes, freed, tables, live, after, lost>>

\* A door of a room that there is; it may not be one.
ResetD(r) ==
  /\ Reads("RESETS")
  /\ \/ /\ r \in DOMAIN indexes.room /\ \E d \in Dirs : indexes.room[r][d] # None
        /\ Links("D", 0, r) /\ last' = [last EXCEPT !.last_reset = Len(temp_resets) + 1]
     \/ Drops /\ UNCHANGED last
  /\ UNCHANGED <<reading, areas, indexes, freed, tables, live, lost>>

-----------------------------------------------------------------------------
(* import_commit                                                           *)

Of(field) == FlattenSeq([i \in 1 .. Len(import_areas) |-> import_areas[i][field]])

\* The id a record gets when those of s are saved after n others, 0 when it is not there.
IdAmong(v, s, n) == LET i == SelectInSeq(s, LAMBDA w : w = v) IN IF i = 0 THEN 0 ELSE n + i

\* Mutant: the texts are made before the areas are saved.
ResetId_Unsaved(table, v) == 0

ResetId(table, v) ==
  IF table = "character" THEN IdAmong(v, Of("npcs"), tables.character)
  ELSE IdAmong(v, Of("objects"), tables.object)

\* Mutant: the exits of an area are saved with its rooms.
RoomId_SoFar(v, i) ==
  IdAmong(v, FlattenSeq([j \in DOMAIN import_areas |-> IF j <= i THEN import_areas[j].rooms ELSE <<>>]),
          Len(tables.room))

\* The id of a room when the exits of the i-th area are saved: all rooms have been.
RoomId(v, i) == IdAmong(v, Of("rooms"), Len(tables.room))

\* import_finalize_reset: what the text names; nothing for a door.
import_finalize_reset(res) ==
  LET Name(table, v) == [table |-> table, id |-> ResetId(table, v)]
  IN IF res.type = "D" THEN <<>>
     ELSE <<Name(IF res.type = "M" THEN "character" ELSE "object", res.arg1)>>
          \o [i \in DOMAIN res.subs |-> Name("object", res.subs[i].arg1)]

\* Each reset of a room writes its text over that of the one before.
ResetText(r) ==
  LET i == SelectLastInSeq(temp_resets, LAMBDA t : t.room = r)
  IN IF i = 0 THEN <<>> ELSE import_finalize_reset(temp_resets[i])

\* The rooms load_area has loaded of the areas before the i-th.
LiveAt(i) == live \cup {RoomId(r, i) : r \in UNION {Range(import_areas[j].rooms) : j \in 1 .. i - 1}}

\* import_finalize_exits: a vnum that is not in room_indexes is taken for the id of a room of the
\* game, and the exit is destroyed when there is none.
import_finalize_exits(i) ==
  LET To(v) == IF v \in DOMAIN indexes.room THEN RoomId(v, i)
               ELSE IF v \in LiveAt(i) THEN v ELSE None
      ends == {e \in Range(import_areas[i].rooms) \X Dirs :
                 indexes.room[e[1]][e[2]] # None /\ To(indexes.room[e[1]][e[2]]) # None}
  IN {[from |-> RoomId(e[1], i), dir |-> e[2], to |-> To(indexes.room[e[1]][e[2]])] : e \in ends}

\* Without an index hm_foreach follows a null pointer; what was freed is followed too.
import_commit ==
  /\ ~lost /\ section = "no"
  /\ IF indexes = None \/ stale \/ freed
     THEN lost' = TRUE /\ UNCHANGED <<areas, indexes, freed, temp_resets, last, tables, live, after>>
     ELSE /\ Len(tables.room) + Len(Of("rooms")) <= MaxRooms
          /\ tables' = [character |-> tables.character + Len(Of("npcs")),
                        object |-> tables.object + Len(Of("objects")),
                        room |-> tables.room \o [i \in DOMAIN Of("rooms") |-> ResetText(Of("rooms")[i])],
                        exit |-> tables.exit \cup UNION {import_finalize_exits(i) : i \in DOMAIN import_areas}]
          /\ live' = LiveAt(Len(import_areas) + 1)
          /\ import_cleanup
          /\ UNCHANGED lost
  /\ UNCHANGED <<reading, line>>

Next ==
  \/ import_rom_file \/ import_rom_area \/ EndSection \/ EndFile \/ FileFails
  \/ \E s \in {"MOBILES", "OBJECTS", "ROOMS", "RESETS"} : Section(s)
  \/ \E v \in ItemVnums : import_rom_mobiles(v) \/ import_rom_objects(v)
  \/ \E v \in Vnums, exits \in Exits : import_rom_rooms(v, exits)
  \/ \E v \in ItemVnums : BadRecord(v)
  \/ \E v \in ItemVnums, r \in Vnums : ResetM(v, r) \/ ResetO(v, r)
  \/ \E v \in ItemVnums : ResetP(v) \/ \E type \in {"G", "E"} : ResetGive(type, v)
  \/ \E r \in Vnums : ResetD(r)
  \/ import_commit \/ Restart

Spec == Init /\ [][Next]_vars

-----------------------------------------------------------------------------
(* Properties                                                              *)

\* import_commit: an exit that was saved leads from a room with a row to a room with
\* one, in whatever area and file the two were, and whatever failed before.
ExitsJoinRows ==
  \A e \in tables.exit : e.from \in DOMAIN tables.room /\ e.to \in DOMAIN tables.room

\* import_finalize_reset ("npc not saved", "obj not saved"): every npc and object that
\* the reset of a room names has a row, and so has the room's own.
ResetsNameRows ==
  \A r \in DOMAIN tables.room : \A i \in DOMAIN tables.room[r] :
    tables.room[r][i].id \in 1 .. tables[tables.room[r][i].table]

\* import_rom_resets: what is given, worn or put goes to the npc or the object that the
\* file has last before it, and stands in that one's room, unless that one was dropped
\* (then it goes to the one before).
SubsGoWithTheirs ==
  \A i \in DOMAIN temp_resets : \A j \in DOMAIN temp_resets[i].subs :
    LET sub == temp_resets[i].subs[j]
    IN sub.room = temp_resets[i].room /\ (sub.taken => sub.line = temp_resets[i].line)
=============================================================================
