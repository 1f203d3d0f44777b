------------------------------ MODULE Objects -------------------------------
(***************************************************************************)
(* Objects: object.c and the obj_ and equip_ functions of util.c; get,     *)
(* drop and wear of server/command.c; reset_room of server/update.c; and   *)
(* what happens to the objects of a Character that is loaded or extracted. *)
(*                                                                         *)
(* An object is a heap address; the ones in first_object exist.  It is on  *)
(* one of three kinds of lists (carrying, objects, contains) and has one   *)
(* pointer back for each kind.  The lists are sets: their order only       *)
(* decides which of several objects a search finds, and that is any.       *)
(* What is worn is what is carried with a wearLoc: drop leaves the wearLoc *)
(* as it is, so that what was worn is worn again by whoever gets it.       *)
(***************************************************************************)
EXTENDS Naturals, Sequences

CONSTANTS
  Players, Npcs,  \* addresses of Characters
  Rooms, Objs,
  None,           \* the null pointer
  WEAR_NONE, Slots,
  SlotsOf         \* for each object, the slots its wearFlags let it be worn at:
                  \* none, one, or the pair of wrists or fingers

Chars == Players \cup Npcs

ASSUME ObjectsAssumption ==
  /\ Players \cap Npcs = {} /\ Chars \cap Rooms = {}
  /\ Objs \cap (Chars \cup Rooms) = {}
  /\ None \notin Chars \cup Rooms \cup Objs
  /\ {"free", "nowhere"} \cap (Objs \cup Chars \cup Rooms) = {}
  /\ WEAR_NONE \notin Slots
  /\ SlotsOf \in [Objs -> {<<>>} \cup {<<s>> : s \in Slots} \cup (Slots \X Slots)]

VARIABLES
  first_character,  \* the characters in the world
  at,               \* the room of each
  first_object,     \* the objects that exist
  carrying, objects, contains,  \* the lists of a Character, a Room, an Object
  carriedBy, inRoom, inObj,     \* an object's pointers back
  wearLoc,
  bugs,             \* equip_char logged "already equipped"
  resetting, lastNPC, lastOBJ   \* the room reset_room is at, or None, and its
                                \* local variables

people  == <<first_character, at>>
lists   == <<carrying, objects, contains>>
backs   == <<carriedBy, inRoom, inObj>>
worn    == <<wearLoc, bugs>>
reset   == <<resetting, lastNPC, lastOBJ>>
vars    == <<people, first_object, lists, backs, worn, reset>>

TypeOK ==
  /\ first_character \subseteq Chars
  /\ at \in [Chars -> Rooms \cup {None}]
  /\ first_object \subseteq Objs
  /\ carrying \in [Chars -> SUBSET Objs]
  /\ objects \in [Rooms -> SUBSET Objs]
  /\ contains \in [Objs -> SUBSET Objs]
  /\ carriedBy \in [Objs -> Chars \cup {None}]
  /\ inRoom \in [Objs -> Rooms \cup {None}]
  /\ inObj \in [Objs -> Objs \cup {None}]
  /\ wearLoc \in [Objs -> Slots \cup {WEAR_NONE}]
  /\ bugs \in BOOLEAN
  /\ resetting \in Rooms \cup {None}
  /\ lastNPC \in Npcs \cup {None}
  /\ lastOBJ \in Objs \cup {None}

Init ==
  /\ first_character = {}
  /\ at = [c \in Chars |-> None]
  /\ first_object = {}
  /\ carrying = [c \in Chars |-> {}]
  /\ objects = [r \in Rooms |-> {}]
  /\ contains = [o \in Objs |-> {}]
  /\ carriedBy = [o \in Objs |-> None]
  /\ inRoom = [o \in Objs |-> None]
  /\ inObj = [o \in Objs |-> None]
  /\ wearLoc = [o \in Objs |-> WEAR_NONE]
  /\ bugs = FALSE
  /\ resetting = None /\ lastNPC = None /\ lastOBJ = None

-----------------------------------------------------------------------------
(* Wearing.  A world w is what functions of the code change: where objects *)
(* are worn, and whether equip_char logged a bug.                          *)

World(loc) == [wearLoc |-> loc, bugs |-> bugs]

\* What c, carrying held, wears at slot s; get_eq_char finds one of these.
WornAt(w, held, s) == {o \in held : w.wearLoc[o] = s}

\* Mutant: whether the slot is taken is not asked.
equip_char_Anyhow(w, held, o, s) == [w EXCEPT !.wearLoc[o] = s]

equip_char(w, held, o, s) ==
  IF WornAt(w, held, s) # {} THEN [w EXCEPT !.bugs = TRUE]
  ELSE [w EXCEPT !.wearLoc[o] = s]

\* remove_obj with fReplace.
Removed(w, held, s) ==
  {[w EXCEPT !.wearLoc[o] = WEAR_NONE] : o \in WornAt(w, held, s)}

\* wear_obj, for one who may use the object: the worlds it may lead to.  For a
\* pair of slots the first one is emptied if both are taken.
wear_obj(w, held, o, fReplace) ==
  LET slots == SlotsOf[o]
      Taken(x, i) == WornAt(x, held, slots[i]) # {}
      full == \A i \in DOMAIN slots : Taken(w, i)
      Put(x) == IF Len(slots) = 1 THEN equip_char(x, held, o, slots[1])
                ELSE IF ~Taken(x, 1) THEN equip_char(x, held, o, slots[1])
                ELSE IF ~Taken(x, 2) THEN equip_char(x, held, o, slots[2])
                ELSE x
  IN CASE slots = <<>>                  -> {w}
       [] slots # <<>> /\ ~full         -> {Put(w)}
       [] slots # <<>> /\ full /\ fReplace  -> {Put(x) : x \in Removed(w, held, slots[1])}
       [] slots # <<>> /\ full /\ ~fReplace -> {w}

Wears(w) == wearLoc' = w.wearLoc /\ bugs' = w.bugs

-----------------------------------------------------------------------------
(* Moving objects between lists.                                           *)

obj_from_room(o) == objects' = [objects EXCEPT ![inRoom[o]] = @ \ {o}]

obj_from_char(o) == carrying' = [carrying EXCEPT ![carriedBy[o]] = @ \ {o}]

\* Pointers after obj_to_char, obj_to_room and obj_to_obj; a new object that
\* goes nowhere has none.
Points(S, c, r, h) ==
  /\ carriedBy' = [o \in Objs |-> IF o \in S THEN c ELSE carriedBy[o]]
  /\ inRoom' = [o \in Objs |-> IF o \in S THEN r ELSE inRoom[o]]
  /\ inObj' = [o \in Objs |-> IF o \in S THEN h ELSE inObj[o]]

\* new_object.
New(S) == S \cap first_object = {} /\ first_object' = first_object \cup S

Unworn(S) == [o \in Objs |-> IF o \in S THEN WEAR_NONE ELSE wearLoc[o]]

\* Mutant: what is in an object is kept.
extract_obj_KeepsContents(S) ==
  /\ first_object' = first_object \ S
  /\ carrying' = [c \in Chars |-> carrying[c] \ S]
  /\ objects' = [r \in Rooms |-> objects[r] \ S]
  /\ contains' = [o \in Objs |-> contains[o] \ S]
  /\ Points(S, None, None, None)
  /\ wearLoc' = Unworn(S)
  /\ bugs' = bugs

\* extract_obj for each object of S and what is in it: unlinked from whatever
\* list it is on, and freed.  Nothing in an object holds anything itself.
extract_obj(S) ==
  LET gone == S \cup UNION {contains[o] : o \in S}
  IN /\ first_object' = first_object \ gone
     /\ carrying' = [c \in Chars |-> carrying[c] \ gone]
     /\ objects' = [r \in Rooms |-> objects[r] \ gone]
     /\ contains' = [o \in Objs |-> IF o \in gone THEN {} ELSE contains[o] \ gone]
     /\ Points(gone, None, None, None)
     /\ wearLoc' = Unworn(gone)
     /\ bugs' = bugs

-----------------------------------------------------------------------------
(* Characters and their commands, while no reset runs.                     *)

Commands == resetting = None

\* set_playing, after load_char_objs: S is what the database has for it.
Enter(c) ==
  /\ Commands /\ c \notin first_character
  /\ first_character' = first_character \cup {c}
  /\ \E r \in Rooms : at' = [at EXCEPT ![c] = r]
  /\ \E S \in SUBSET (Objs \ first_object) :
       /\ New(S)
       /\ carrying' = [carrying EXCEPT ![c] = S]
       /\ Points(S, c, None, None)
       /\ Wears(World(Unworn(S)))
  /\ UNCHANGED <<objects, contains, reset>>

\* extract_char(c, true): a session ends, an NPC dies.
Depart(c) ==
  /\ Commands /\ c \in first_character
  /\ first_character' = first_character \ {c}
  /\ at' = [at EXCEPT ![c] = None]
  /\ extract_obj(carrying[c])
  /\ UNCHANGED reset

move_char(c) ==
  /\ Commands /\ c \in Players \cap first_character
  /\ \E r \in Rooms : at' = [at EXCEPT ![c] = r]
  /\ UNCHANGED <<first_character, first_object, lists, backs, worn, reset>>

\* Mutant: the object stays on the list of the room.
do_get_StaysInRoom(c, o) ==
  /\ Commands /\ c \in Players \cap first_character
  /\ o \in objects[at[c]]
  /\ carrying' = [carrying EXCEPT ![c] = @ \cup {o}]
  /\ Points({o}, c, None, None)
  /\ UNCHANGED <<people, first_object, objects, contains, worn, reset>>

do_get(c, o) ==
  /\ Commands /\ c \in Players \cap first_character
  /\ o \in objects[at[c]]
  /\ obj_from_room(o)
  /\ carrying' = [carrying EXCEPT ![c] = @ \cup {o}]
  /\ Points({o}, c, None, None)
  /\ UNCHANGED <<people, first_object, contains, worn, reset>>

\* The object is among what c carries, worn or not.
do_drop(c, o) ==
  /\ Commands /\ c \in Players \cap first_character
  /\ o \in carrying[c]
  /\ obj_from_char(o)
  /\ objects' = [objects EXCEPT ![at[c]] = @ \cup {o}]
  /\ Points({o}, None, at[c], None)
  /\ UNCHANGED <<people, first_object, contains, worn, reset>>

\* wear with the name of an object that is not worn.
do_wear(c, o) ==
  /\ Commands /\ c \in Players \cap first_character
  /\ o \in carrying[c] /\ wearLoc[o] = WEAR_NONE
  /\ \E w \in wear_obj(World(wearLoc), carrying[c], o, TRUE) : Wears(w)
  /\ UNCHANGED <<people, first_object, lists, backs, reset>>

\* wear all, one object after the other: any of those c does not wear may be
\* refused, and the others go to slots of theirs that are free; to the second
\* of a pair when the first is taken.
do_wear_all(c) ==
  /\ Commands /\ c \in Players \cap first_character
  /\ \E loc \in [Objs -> Slots \cup {WEAR_NONE}] :
       LET on == {o \in Objs : loc[o] # wearLoc[o]}
           w  == World(loc)
       IN /\ \A o \in on :
               /\ o \in carrying[c] /\ wearLoc[o] = WEAR_NONE
               /\ \E i \in DOMAIN SlotsOf[o] :
                    /\ loc[o] = SlotsOf[o][i]
                    /\ i = 2 => WornAt(w, carrying[c], SlotsOf[o][1]) # {}
               /\ WornAt(w, carrying[c], loc[o]) = {o}
          /\ Wears(w)
  /\ UNCHANGED <<people, first_object, lists, backs, reset>>

\* object_editor's delete, of any object.
Delete(o) ==
  /\ Commands /\ o \in first_object
  /\ extract_obj({o})
  /\ UNCHANGED <<people, reset>>

-----------------------------------------------------------------------------
(* reset_room: the lines of a room's reset, in any order.                  *)

reset_room(r) ==
  /\ Commands
  /\ resetting' = r
  /\ UNCHANGED <<people, first_object, lists, backs, worn, lastNPC, lastOBJ>>

ResetDone ==
  /\ ~Commands
  /\ resetting' = None /\ lastNPC' = None /\ lastOBJ' = None
  /\ UNCHANGED <<people, first_object, lists, backs, worn>>

\* npc: put into the room unless that has enough of them.
ResetNpc(c) ==
  /\ ~Commands /\ c \notin first_character
  /\ first_character' = first_character \cup {c}
  /\ \E r \in {resetting, None} : at' = [at EXCEPT ![c] = r]
  /\ lastNPC' = c
  /\ UNCHANGED <<first_object, lists, backs, worn, resetting, lastOBJ>>

\* The new object o, not worn, becomes lastOBJ.
ResetLoads(o) ==
  /\ ~Commands
  /\ New({o})
  /\ lastOBJ' = o
  /\ UNCHANGED <<people, contains, resetting, lastNPC>>

\* obj: put into the room unless that has enough.
ResetObj(o) ==
  /\ ResetLoads(o)
  /\ Wears(World(Unworn({o})))
  /\ UNCHANGED carrying
  /\ \/ /\ objects' = [objects EXCEPT ![resetting] = @ \cup {o}]
        /\ Points({o}, None, resetting, None)
     \/ UNCHANGED objects /\ Points({o}, None, None, None)

\* give: given to the last NPC unless it has enough.
ResetGive(o) ==
  /\ ResetLoads(o) /\ lastNPC # None
  /\ Wears(World(Unworn({o})))
  /\ UNCHANGED objects
  /\ \/ /\ carrying' = [carrying EXCEPT ![lastNPC] = @ \cup {o}]
        /\ Points({o}, lastNPC, None, None)
     \/ UNCHANGED carrying /\ Points({o}, None, None, None)

\* equip: worn where the line says, or as wear_obj decides.
ResetEquip(o) ==
  /\ ResetLoads(o) /\ lastNPC # None
  /\ UNCHANGED objects
  /\ carrying' = [carrying EXCEPT ![lastNPC] = @ \cup {o}]
  /\ Points({o}, lastNPC, None, None)
  /\ LET held == carrying'[lastNPC]
         w == World(Unworn({o}))
     IN \/ \E x \in wear_obj(w, held, o, FALSE) : Wears(x)
        \/ \E s \in Slots : Wears(equip_char(w, held, o, s))

\* put: into the last object, which stays the last one.
ResetPut(o) ==
  /\ ~Commands /\ lastOBJ # None
  /\ New({o})
  /\ contains' = [contains EXCEPT ![lastOBJ] = @ \cup {o}]
  /\ Points({o}, None, None, lastOBJ)
  /\ Wears(World(Unworn({o})))
  /\ UNCHANGED <<people, carrying, objects, reset>>

-----------------------------------------------------------------------------
Next ==
  \/ \E c \in Players : Enter(c) \/ move_char(c) \/ do_wear_all(c)
  \/ \E c \in Chars : Depart(c)
  \/ \E c \in Players, o \in Objs : do_get(c, o) \/ do_drop(c, o) \/ do_wear(c, o)
  \/ \E r \in Rooms : reset_room(r)
  \/ \E c \in Npcs : ResetNpc(c)
  \/ \E o \in Objs :
       Delete(o) \/ ResetObj(o) \/ ResetGive(o) \/ ResetEquip(o) \/ ResetPut(o)
  \/ ResetDone

Spec == Init /\ [][Next]_vars

-----------------------------------------------------------------------------
(* Properties.                                                             *)

\* An object is on the list its pointers say and on no other; who holds it is
\* in the world; what is in an object holds nothing.
OnePlace ==
  /\ \A o \in Objs :
       /\ \A c \in Chars : o \in carrying[c] <=> carriedBy[o] = c
       /\ \A r \in Rooms : o \in objects[r] <=> inRoom[o] = r
       /\ \A h \in Objs : o \in contains[h] <=> inObj[o] = h
       /\ carriedBy[o] = None \/ inRoom[o] = None
       /\ inObj[o] # None => carriedBy[o] = None /\ inRoom[o] = None
  /\ \A o \in Objs :
       /\ o \notin first_object => carriedBy[o] = None /\ inRoom[o] = None /\ inObj[o] = None
       /\ carriedBy[o] \in first_character \cup {None}
       /\ inObj[o] # None => inObj[o] \in first_object /\ inObj[inObj[o]] = None

Worn(c, s) == {o \in carrying[c] : wearLoc[o] = s}

\* A slot that is taken becomes free only when what was worn there leaves the
\* character: wearing something else never loses it.
FreedByLeaving ==
  [][\A c \in Chars, s \in Slots :
       Worn(c, s) # {} /\ Worn(c, s)' = {} => Worn(c, s) \cap carrying'[c] = {}]_vars

\* Two objects are worn at one slot.
Doubled(c, s) == \E o, p \in Worn(c, s) : o # p

\* Two objects come to be worn at one slot only when a character gets one that
\* was dropped while it was worn there.
DoubledOnlyByGet ==
  [][\A c \in Chars, s \in Slots :
       Doubled(c, s)' /\ ~Doubled(c, s) =>
         \E o \in carrying'[c] \ carrying[c] :
            inRoom[o] = at[c] /\ inRoom[o] # None /\ wearLoc[o] = s]_vars

\* The place of each object, read off its pointers.
PlaceOf ==
  [o \in Objs |->
     IF o \notin first_object THEN "free"
     ELSE IF carriedBy[o] # None THEN carriedBy[o]
     ELSE IF inRoom[o] # None THEN inRoom[o]
     ELSE IF inObj[o] # None THEN inObj[o] ELSE "nowhere"]

\* Lists and pointers together keep one place for each object.
Abstract == INSTANCE Places WITH
  Free <- "free", Nowhere <- "nowhere", place <- PlaceOf
PlacesSpec == Abstract!Spec

=============================================================================
