------------------------------ MODULE Explored ------------------------------
(***************************************************************************)
(* The rooms a player has explored: a flag for each room (flag.c), set     *)
(* when he comes in (char_to_room), saved as the lengths of runs of        *)
(* explored and unexplored rooms in the order of room_hash, and taken for  *)
(* runs of room ids when he is loaded (explored.c).  Rooms are added to    *)
(* the database by get_default_room and the editor; the latter are not in  *)
(* room_hash before the next start.                                        *)
(***************************************************************************)
EXTENDS Lists, Naturals, SequencesExt

CONSTANTS
  MaxRoom,  \* bound: rooms
  ID_HASH,  \* lists of room_hash (256)
  Word,     \* flags in an element of bits (8)
  NoFlags

ASSUME ExploredAssumption ==
  MaxRoom \in Nat /\ ID_HASH \in Nat \ {0} /\ Word \in Nat \ {0}

VARIABLES
  room,       \* the rows of room: 1 .. room
  room_hash,  \* room_hash: lists of ids
  explored,   \* the player's flags while he plays, or NoFlags
  disk,       \* the column explored: the lengths between "0" and "-1"
  saved       \* history: the rooms that were saved

exploredVars == <<room, room_hash, explored, disk, saved>>

Flags == 0 .. MaxRoom

-----------------------------------------------------------------------------
(* flag.c: bits is a sequence of sets of the numbers 0 .. Word - 1.        *)

new_flag == <<>>

is_set(flags, bit) == bit \div Word < Len(flags) /\ (bit % Word) \in flags[bit \div Word + 1]

\* resize_bits: elements from the old size on are zero.
resize_bits(flags, pos) == [i \in 1 .. pos + 1 |-> IF i <= Len(flags) THEN flags[i] ELSE {}]

set_bit(flags, bit) ==
  LET pos == bit \div Word
      f == IF pos >= Len(flags) THEN resize_bits(flags, pos) ELSE flags
  IN [f EXCEPT ![pos + 1] = @ \cup {bit % Word}]

\* roomcount
roomcount(flags) ==
  LET upto[n \in 0 .. Len(flags)] == IF n = 0 THEN 0 ELSE upto[n - 1] + Cardinality(flags[n])
  IN upto[Len(flags)]

-----------------------------------------------------------------------------
(* explored.c                                                              *)

\* The rooms in the order of room_hash.
Walk(hash) ==
  LET upto[n \in 0 .. ID_HASH] == IF n = 0 THEN <<>> ELSE upto[n - 1] \o hash[n - 1]
  IN upto[ID_HASH]

\* The next room of the walk goes on with the run, or begins one.
Counted(s, set) ==
  IF set = s.bit THEN [s EXCEPT !.count = @ + 1]
  ELSE [out |-> Append(s.out, s.count), count |-> 1, bit |-> ~s.bit]

Counting(flags, walk, first) ==
  LET run[n \in 0 .. Len(walk)] == IF n = 0 THEN [out |-> <<>>, count |-> first, bit |-> FALSE]
                                   ELSE Counted(run[n - 1], is_set(flags, walk[n]))
  IN run[Len(walk)]

Runs(flags, walk, first) ==
  LET all == Counting(flags, walk, first) IN Append(all.out, all.count)

\* Mutant: the first run starts empty.
get_explored_rle_FromZero(flags, hash) == Runs(flags, Walk(hash), 0)

\* The first run counts one for the id 0.
get_explored_rle(flags, hash) == Runs(flags, Walk(hash), 1)

\* The bits of a run of n.
SetBits(flags, from, n) ==
  LET upto[i \in 0 .. n] == IF i = 0 THEN flags ELSE set_bit(upto[i - 1], (from + i) - 1)
  IN upto[n]

\* A length of 0 is passed over without changing between set and unset.
Read(s, n) ==
  IF n = 0 THEN s
  ELSE [flags |-> IF s.bit THEN SetBits(s.flags, s.index, n) ELSE s.flags,
        index |-> s.index + n, bit |-> ~s.bit]

Decoding(rle) ==
  LET read[n \in 0 .. Len(rle)] == IF n = 0 THEN [flags |-> new_flag, index |-> 0, bit |-> FALSE]
                                   ELSE Read(read[n - 1], rle[n])
  IN read[Len(rle)]

convert_explored_rle(rle) == Decoding(rle).flags

Set(flags) == {i \in Flags : is_set(flags, i)}

-----------------------------------------------------------------------------
(* Actions                                                                 *)

\* The last one loaded is at the head of its list.
Loaded(n) ==
  [h \in 0 .. ID_HASH - 1 |-> Reverse(Sorted({r \in 1 .. n : r % ID_HASH = h}))]

ExploredInit == room = 0 /\ room_hash = Loaded(0) /\ explored = NoFlags /\ disk = <<>> /\ saved = {}

\* The next start.
load_rooms == room_hash' = Loaded(room) /\ explored' = NoFlags /\ UNCHANGED <<room, disk, saved>>

\* get_default_room, in a world without rooms: it is linked.
get_default_room ==
  /\ Walk(room_hash) = <<>> /\ room < MaxRoom
  /\ room' = room + 1
  /\ room_hash' = [room_hash EXCEPT ![(room + 1) % ID_HASH] = <<room + 1>> \o @]
  /\ UNCHANGED <<explored, disk, saved>>

\* edit room create, and save; who edits is in a room.
save_room ==
  /\ Walk(room_hash) # <<>> /\ room < MaxRoom
  /\ room' = room + 1
  /\ UNCHANGED <<room_hash, explored, disk, saved>>

\* new_player, or load_player_columns
Enter ==
  /\ explored = NoFlags
  /\ explored' = IF disk = <<>> THEN new_flag ELSE convert_explored_rle(disk)
  /\ UNCHANGED <<room, room_hash, disk, saved>>

\* char_to_room; an exit may lead to a room that room_hash does not have yet.
char_to_room ==
  \E r \in 1 .. room :
    /\ explored # NoFlags
    /\ explored' = set_bit(explored, r)
    /\ UNCHANGED <<room, room_hash, disk, saved>>

\* save_player
save_player ==
  /\ explored # NoFlags
  /\ disk' = get_explored_rle(explored, room_hash)
  /\ saved' = Set(explored)
  /\ UNCHANGED <<room, room_hash, explored>>

\* explored reset
do_explored_reset ==
  /\ explored # NoFlags
  /\ explored' = new_flag
  /\ UNCHANGED <<room, room_hash, disk, saved>>

\* do_quit, or the link: saved or not is a step of its own.
Leave == explored # NoFlags /\ explored' = NoFlags /\ UNCHANGED <<room, room_hash, disk, saved>>

ExploredNext ==
  \/ load_rooms \/ get_default_room \/ save_room \/ Enter
  \/ char_to_room \/ save_player \/ do_explored_reset \/ Leave

ExploredSpec == ExploredInit /\ [][ExploredNext]_exploredVars

-----------------------------------------------------------------------------
(* Properties                                                              *)

\* get_explored_rle, convert_explored_rle: a player who comes back has explored the
\* rooms he had when he was saved, but for those that were not in room_hash then, as
\* long as all ids are smaller than ID_HASH; from there on room_hash has another order.
ExploredComesBack ==
  [][Enter /\ disk # <<>> /\ room < ID_HASH =>
       /\ Set(explored') \subseteq saved
       /\ roomcount(explored') = Cardinality(Set(explored'))
       /\ \A r \in saved \ Set(explored') : \A q \in 1 .. room : q > r => q \notin Set(explored')]_exploredVars

=============================================================================
