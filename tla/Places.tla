------------------------------- MODULE Places -------------------------------
(***************************************************************************)
(* What Objects promises: every object that exists is in one place, or     *)
(* nowhere yet, and only a few steps move one.                             *)
(***************************************************************************)
CONSTANTS Objs, Chars, Rooms, Free, Nowhere

VARIABLE place

PlacesType == [Objs -> Objs \cup Chars \cup Rooms \cup {Free, Nowhere}]

Init == place = [o \in Objs |-> Free]

\* Objects come into the world in the hands of someone, in a room, in an object
\* that exists, or nowhere.
Create ==
  \E S \in (SUBSET Objs) \ {{}}, h \in Objs \cup Chars \cup Rooms \cup {Nowhere} :
    /\ \A o \in S : place[o] = Free
    /\ h \in Objs => place[h] # Free
    /\ place' = [o \in Objs |-> IF o \in S THEN h ELSE place[o]]

\* Somebody picks an object up, or puts it down.
Move ==
  \E o \in Objs, c \in Chars, r \in Rooms :
    \/ place[o] = r /\ place' = [place EXCEPT ![o] = c]
    \/ place[o] = c /\ place' = [place EXCEPT ![o] = r]

\* Objects are destroyed, with what they hold.
Destroy ==
  \E S \in (SUBSET Objs) \ {{}} :
    /\ \A o \in Objs : place[o] \in S => o \in S
    /\ \A o \in S : place[o] # Free
    /\ place' = [o \in Objs |-> IF o \in S THEN Free ELSE place[o]]

Next == Create \/ Move \/ Destroy

Spec == Init /\ [][Next]_place
=============================================================================
