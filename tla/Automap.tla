------------------------------ MODULE Automap ------------------------------
(***************************************************************************)
(* The map around a character (map.c): map_exits draws the room at a place *)
(* and goes on through its exits, to the place two further on, as long as  *)
(* no other room was drawn there.  Builders dig exits between two maps.    *)
(***************************************************************************)
EXTENDS Integers, FiniteSets, Sequences, FiniteSetsExt

CONSTANTS
  Rooms,
  Unseen,    \* rooms the character cannot see
  MAXDEPTH,  \* exits from the middle (4)
  MAPX,      \* places from the middle to the sides (10)
  MAPY,      \* and to the top and the bottom (8)
  MaxExits,  \* bound: exits
  Nowhere

ASSUME AutomapAssumption ==
  MAXDEPTH \in Nat /\ MAPX \in Nat /\ MAPY \in Nat /\ Nowhere \notin Rooms

VARIABLES
  exits,   \* exits[r][d]: the room, or Nowhere
  inRoom   \* the character's room

automapVars == <<exits, inRoom>>

\* DIR_NORTH, DIR_EAST, DIR_SOUTH, DIR_WEST, and one of DIR_UP and DIR_DOWN.
Directions == 0 .. 4

\* get_exit_dir: up and down are off the map.
get_exit_dir(door, p) ==
  CASE door = 0 -> <<p[1], p[2] - 1>>
    [] door = 1 -> <<p[1] + 1, p[2]>>
    [] door = 2 -> <<p[1], p[2] + 1>>
    [] door = 3 -> <<p[1] - 1, p[2]>>
    [] OTHER -> <<-1, -1>>

BOUNDARY(p) == p[1] < 0 \/ p[2] < 0 \/ p[1] > MAPX * 2 \/ p[2] > MAPY * 2

Points == (0 .. MAPX * 2) \X (0 .. MAPY * 2)
Blank == [p \in Points |-> Nowhere]

\* Mutant: whatever was drawn there before.
GoesOn_Always(automap, p, to) == TRUE

GoesOn(automap, p, to) == automap[p] \in {to, Nowhere}

Maps == [Points -> Rooms \cup {Nowhere}]

\* A door of the room at p, when its turn comes; draw is map_exits an exit further on.
Door(draw, automap, r, p, door) ==
  LET to == exits[r][door]
      exit == get_exit_dir(door, p)
      next == get_exit_dir(door, exit)
      passage == [automap EXCEPT ![exit] = to]
  IN IF to = Nowhere \/ to \in Unseen \/ BOUNDARY(exit) \/ BOUNDARY(next) THEN automap
     ELSE IF GoesOn(passage, next, to) THEN draw[<<passage, to, next>>]
     ELSE passage

\* The doors of the room at p, one after the other.
Doors(draw, automap, r, p) ==
  LET upto[n \in 0 .. 5] == IF n = 0 THEN automap ELSE Door(draw, upto[n - 1], r, p, n - 1)
  IN upto[5]

\* map_exits, for a room that is seen, with so many exits left to MAXDEPTH: the map
\* after the room and all from there on is drawn, of the map before, the room and
\* its place.
map_exits[left \in 0 .. MAXDEPTH] ==
  [x \in Maps \X Rooms \X Points |->
     LET drawn == [x[1] EXCEPT ![x[3]] = x[2]]
     IN IF left = 0 THEN drawn ELSE Doors(map_exits[left - 1], drawn, x[2], x[3])]

\* draw_map, of the whole map; with a text beside it the depth starts at 2.
Middle == <<MAPX, MAPY>>
draw_map == IF inRoom \in Unseen THEN Blank ELSE map_exits[MAXDEPTH][<<Blank, inRoom, Middle>>]

-----------------------------------------------------------------------------
AutomapInit == exits = [r \in Rooms |-> [d \in Directions |-> Nowhere]] /\ inRoom \in Rooms

Dug == {e \in Rooms \X Directions : exits[e[1]][e[2]] # Nowhere}

\* do_dig and the exit editor, one way.
Dig ==
  /\ Cardinality(Dug) < MaxExits
  /\ \E r \in Rooms \ Unseen, d \in Directions, to \in Rooms :
       exits[r][d] = Nowhere /\ exits' = [exits EXCEPT ![r][d] = to]
  /\ UNCHANGED inRoom

Move ==
  /\ \E d \in Directions : exits[inRoom][d] # Nowhere /\ inRoom' = exits[inRoom][d]
  /\ UNCHANGED exits

\* The exits editor deletes an exit.
Fill ==
  /\ \E e \in Dug : exits' = [exits EXCEPT ![e[1]][e[2]] = Nowhere]
  /\ UNCHANGED inRoom

AutomapNext == Dig \/ Move \/ Fill

AutomapSpec == AutomapInit /\ [][AutomapNext]_automapVars

-----------------------------------------------------------------------------
(* Properties                                                              *)

\* map_exits: a room is drawn where an exit of a room next to it leads to it, in that
\* direction, however the exits turn back on each other; and rooms and passages never
\* take each other's places.
RoomsAreWhereExitsLead ==
  LET automap == draw_map
      IsRoom(p) == (p[1] - MAPX) % 2 = 0 /\ (p[2] - MAPY) % 2 = 0
      Drawn == {p \in DOMAIN automap : automap[p] # Nowhere}
  IN \A p \in Drawn :
       IF IsRoom(p)
       THEN p = Middle \/ \E q \in Drawn, d \in Directions :
              IsRoom(q) /\ get_exit_dir(d, get_exit_dir(d, q)) = p /\ exits[automap[q]][d] = automap[p]
       ELSE \E q \in Drawn, d \in Directions :
              IsRoom(q) /\ get_exit_dir(d, q) = p /\ exits[automap[q]][d] = automap[p]
=============================================================================
