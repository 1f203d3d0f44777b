---------------------------- MODULE RecordsProofs ----------------------------
(***************************************************************************)
(* Proofs about Records, for any number of accounts, sessions, builders,   *)
(* objects and rooms.  Characters: the two rows of a player have the same  *)
(* number and who logs in finds the own character.  Belongings: who plays  *)
(* only changes rows of the own character, and a save keeps what is        *)
(* carried in order.  Rooms: the next start finds the exits that were      *)
(* saved, and an exit is only freed under an editor by another builder.    *)
(***************************************************************************)
EXTENDS Records, ListsProofs

-----------------------------------------------------------------------------
(* The members of a set one after the other.                               *)

LEMMA SetToSeqFacts ==
  ASSUME NEW S, IsFiniteSet(S)
  PROVE  LET all == R!SetToSeq(S)
         IN all \in Seq(S) /\ Distinct(all) /\ Range(all) = S /\ B!SetToSeq(S) = all
<1> DEFINE all == R!SetToSeq(S)
           n == Cardinality(S)
<1>1. n \in Nat  BY FS_CardinalityType
<1>2. PICK f \in [1 .. n -> S] : \A a, b \in 1 .. n : f[a] = f[b] => a = b
  <2>1. ExistsBijection(1 .. n, S)  BY FS_CardinalityType
  <2> QED  BY <2>1 DEF ExistsBijection, Bijection, Injection, IsInjective
<1>3. R!Cardinality(S) = n  BY DEF R!Cardinality, Cardinality
<1>4. R!IsInjective(f)  BY <1>2 DEF R!IsInjective
<1>5. all \in [1 .. n -> S] /\ R!IsInjective(all)
  BY <1>2, <1>3, <1>4 DEF R!SetToSeq
<1>6. B!SetToSeq(S) = all
  BY DEF B!SetToSeq, R!SetToSeq, B!IsInjective, R!IsInjective, B!Cardinality, R!Cardinality
<1> HIDE DEF all, n
<1>7. \A a, b \in 1 .. n : all[a] = all[b] => a = b  BY <1>5 DEF R!IsInjective
<1>8. all \in Surjection(1 .. n, S)
  <2>1. all \in Injection(1 .. n, S)  BY <1>5, <1>7 DEF Injection, IsInjective
  <2>2. Cardinality(1 .. n) = n  BY <1>1, FS_Interval
  <2> QED  BY <1>1, <2>1, <2>2, FS_Injection DEF n
<1>9. \A q \in S : \E i \in 1 .. n : all[i] = q  BY <1>8 DEF Surjection
<1>10. all \in Seq(S) /\ DOMAIN all = 1 .. n /\ Len(all) = n  BY <1>1, <1>5
<1>11. Range(all) = S  BY <1>5, <1>9, <1>10 DEF Range
<1> QED  BY <1>6, <1>7, <1>10, <1>11 DEF Distinct, all

-----------------------------------------------------------------------------
(* Characters: the inductive invariant.                                    *)

Character(ch) == ch.id \in 0 .. lastId /\ ch = [id |-> ch.id, name |-> ch.name, data |-> ch.data]

Types ==
  /\ lastId \in Nat
  /\ DOMAIN playing = Accounts
  /\ \A a \in Accounts : playing[a] # None => Character(playing[a])
  /\ DOMAIN character \subseteq 1 .. lastId
  /\ saving \in [Accounts -> {"no", "insert", "update"}]
  /\ \A a \in Accounts : saving[a] # "no" => Character(playing[a])

\* Both inserts of every save were made.
AllInserted == (\A a \in Accounts : saving[a] # "insert") /\ DOMAIN player = 1 .. lastId

\* Only a's second one was not: its number is the next of player.
Inserting(a) ==
  /\ saving[a] = "insert" /\ \A b \in Accounts \ {a} : saving[b] = "no"
  /\ lastId \in DOMAIN character /\ DOMAIN player = 1 .. lastId - 1
  /\ playing[a].id = lastId /\ playing[a].name = character[lastId]
  /\ \A b \in Accounts \ {a} : playing[b] # None => playing[b].id # lastId

\* A character that was loaded or saved goes by the name its row was inserted for.
Named(a) ==
  (playing[a] # None \/ saving[a] # "no") /\ playing[a].id \in DOMAIN player =>
    player[playing[a].id].for = playing[a].name

SameNames ==
  /\ \A i \in DOMAIN character \cap DOMAIN player : character[i] = player[i].for
  /\ \A a \in Accounts : Named(a)

InStep ==
  trouble \subseteq {"edit"} => SameNames /\ (AllInserted \/ \E a \in Accounts : Inserting(a))

\* Nobody's row or character is of two accounts.
OwnRow(r, a) == r.account = a /\ r.for = a /\ r.data = a

Own ==
  trouble = {} =>
    /\ \A i \in DOMAIN player : OwnRow(player[i], player[i].account)
    /\ \A a \in Accounts : playing[a] # None \/ saving[a] # "no" =>
         playing[a].name = a /\ playing[a].data = a

CharactersInv == Types /\ InStep /\ Own

-----------------------------------------------------------------------------
(* Characters: statements.                                                 *)

\* After the numbers up to n comes the next.
LEMMA MaxOfInterval ==
  ASSUME NEW n \in Nat
  PROVE  Max({0} \cup 1 .. n) = n
<1>1. n \in {0} \cup 1 .. n /\ \A y \in {0} \cup 1 .. n : n >= y  OBVIOUS
<1> DEFINE m == Max({0} \cup 1 .. n)
<1>2. m \in {0} \cup 1 .. n /\ \A y \in {0} \cup 1 .. n : m >= y  BY <1>1 DEF Max
<1>3. m >= n /\ n >= m /\ m \in Int  BY <1>1, <1>2
<1> QED  BY <1>3

\* sql_insert_query appends to a table without gaps.
LEMMA InsertedRow ==
  ASSUME NEW table, NEW n \in Nat, DOMAIN table = 1 .. n, NEW row
  PROVE  Inserted(table, row) = With(table, n + 1, row)
BY MaxOfInterval DEF Inserted

-----------------------------------------------------------------------------
(* Characters: types.                                                      *)

LEMMA StepTypes == Types /\ [Next]_vars => Types'
<1> SUFFICES ASSUME Types, [Next]_vars PROVE Types'  OBVIOUS
<1>1. ASSUME NEW a \in Accounts, new_player(a) PROVE Types'
  BY <1>1 DEF new_player, Idle, Types, Character
<1>2. ASSUME NEW a \in Accounts, load_player_by_id(a) PROVE Types'
  <2>1. PICK i \in Listed(a) : playing' = [playing EXCEPT ![a] =
                                 [id |-> i, name |-> character[i], data |-> player[i].data]]
    BY <1>2 DEF load_player_by_id
  <2>2. i \in 0 .. lastId  BY DEF Listed, Types
  <2> QED  BY <1>2, <2>1, <2>2 DEF load_player_by_id, Idle, Types, Character
<1>3. ASSUME NEW a \in Accounts, save_character(a) PROVE Types'
  <2>0. playing[a] # None /\ Character(playing[a]) /\ Idle  BY <1>3 DEF save_character, Types
  <2>1. saving' \in [Accounts -> {"no", "insert", "update"}]  BY <1>3 DEF save_character, Types
  <2>2. \A b \in Accounts \ {a} : saving'[b] = "no"  BY <1>3, <2>0 DEF save_character, Types, Idle
  <2>3. CASE playing[a].id = 0
    <3>1. /\ lastId' = lastId + 1 /\ character' = With(character, lastId + 1, playing[a].name)
          /\ playing' = [playing EXCEPT ![a].id = lastId + 1]
      BY <1>3, <2>3 DEF save_character
    <3>2. playing'[a] = [id |-> lastId + 1, name |-> playing[a].name, data |-> playing[a].data]
      BY <2>0, <3>1 DEF Types, Character
    <3>3. \A b \in Accounts : playing'[b] # None \/ b = a => Character(playing[b])'
      <4>1. Character(playing[a])'  BY <3>1, <3>2 DEF Types, Character
      <4>2. \A b \in Accounts \ {a} : playing'[b] = playing[b]  BY <3>1 DEF Types
      <4>3. ASSUME NEW ch, Character(ch) PROVE Character(ch)'  BY <3>1, <4>3 DEF Types, Character
      <4> QED  BY <4>1, <4>2, <4>3 DEF Types
    <3>4. DOMAIN character' \subseteq 1 .. lastId'  BY <3>1 DEF Types, With
    <3> QED  BY <2>1, <2>2, <3>1, <3>2, <3>3, <3>4 DEF Types
  <2>4. CASE playing[a].id # 0
    <3>1. character' = Updated(character, playing[a].id, playing[a].name) /\ UNCHANGED <<lastId, playing>>
      BY <1>3, <2>4 DEF save_character
    <3>2. DOMAIN character' = DOMAIN character  BY <3>1 DEF Updated
    <3> QED  BY <2>0, <2>1, <2>2, <3>1, <3>2 DEF Types, Character
  <2> QED  BY <2>3, <2>4
<1>4. ASSUME NEW a \in Accounts, save_player(a) PROVE Types'
  BY <1>4 DEF save_player, Types, Character
<1>5. ASSUME NEW a \in Accounts, quit(a) PROVE Types'
  BY <1>5 DEF quit, Idle, Types, Character
<1>6. ASSUME NEW a \in Accounts, delete_player(a) PROVE Types'
  BY <1>6 DEF delete_player, Idle, Types, Character, Deleted
<1>7. ASSUME NEW a \in Accounts, player_editor(a) PROVE Types'
  BY <1>7 DEF player_editor, Types, Character
<1>8. CASE Restart
  BY <1>8 DEF Restart, Types, Character
<1>9. CASE save_npc
  BY <1>9 DEF save_npc, Types, Character, With
<1>10. CASE delete_npc
  BY <1>10 DEF delete_npc, Types, Character, Deleted
<1>11. CASE UNCHANGED vars
  BY <1>11 DEF vars, Types, Character
<1> QED  BY <1>1, <1>2, <1>3, <1>4, <1>5, <1>6, <1>7, <1>8, <1>9, <1>10, <1>11 DEF Next

-----------------------------------------------------------------------------
(* The two rows of a player.                                               *)

LEMMA IdleInStep == InStep /\ Idle /\ trouble \subseteq {"edit"} => SameNames /\ AllInserted
BY DEF InStep, Idle, AllInserted, Inserting

\* The rows of player with their names do not change.
LEMMA PlayerUnchanged ==
  ASSUME SameNames, UNCHANGED player,
         \A i \in DOMAIN character' : i \in DOMAIN character /\ character'[i] = character[i],
         \A a \in Accounts : playing'[a] = playing[a] \/ playing'[a] = None,
         \A a \in Accounts : saving'[a] = "no"
  PROVE  SameNames'
BY DEF SameNames, Named

LEMMA StepInStep == Types /\ Types' /\ InStep /\ [Next]_vars => InStep'
<1> SUFFICES ASSUME Types, Types', InStep, [Next]_vars, trouble' \subseteq {"edit"}
             PROVE  SameNames' /\ (AllInserted' \/ \E a \in Accounts : Inserting(a)')
  BY DEF InStep, Inserting
<1>0. trouble \subseteq {"edit"}
  BY DEF Next, vars, new_player, load_player_by_id, save_character, save_player, quit, delete_player,
         player_editor, Restart, save_npc, delete_npc
<1>1. ASSUME NEW a \in Accounts, new_player(a) PROVE SameNames' /\ AllInserted'
  <2>1. SameNames /\ AllInserted  BY <1>0, <1>1, IdleInStep DEF new_player
  <2>2. playing'[a].id = 0 /\ \A b \in Accounts \ {a} : playing'[b] = playing[b]
    BY <1>1 DEF new_player, Types
  <2>3. UNCHANGED <<character, player, saving, lastId>>  BY <1>1 DEF new_player
  <2>4. \A b \in Accounts : Named(b)'
    BY <2>1, <2>2, <2>3 DEF SameNames, Named, AllInserted, Types
  <2> QED  BY <2>1, <2>3, <2>4 DEF SameNames, AllInserted
<1>2. ASSUME NEW a \in Accounts, load_player_by_id(a) PROVE SameNames' /\ AllInserted'
  <2>1. SameNames /\ AllInserted  BY <1>0, <1>2, IdleInStep DEF load_player_by_id
  <2>2. UNCHANGED <<character, player, saving, lastId>>  BY <1>2 DEF load_player_by_id
  <2>3. PICK i \in Listed(a) : playing' = [playing EXCEPT ![a] =
                                 [id |-> i, name |-> character[i], data |-> player[i].data]]
    BY <1>2 DEF load_player_by_id
  <2>4. playing'[a].id = i /\ playing'[a].name = character[i]
        /\ \A b \in Accounts \ {a} : playing'[b] = playing[b]
    BY <2>3 DEF Types
  <2>5. character[i] = player[i].for  BY <2>1 DEF Listed, SameNames
  <2>6. \A b \in Accounts : Named(b)'  BY <2>1, <2>2, <2>4, <2>5 DEF SameNames, Named
  <2> QED  BY <2>1, <2>2, <2>6 DEF SameNames, AllInserted
<1>3. ASSUME NEW a \in Accounts, save_character(a)
      PROVE  SameNames' /\ (AllInserted' \/ Inserting(a)')
  <2>1. SameNames /\ AllInserted  BY <1>0, <1>3, IdleInStep DEF save_character
  <2>2. UNCHANGED player /\ playing[a] # None /\ Character(playing[a])
    BY <1>3 DEF save_character, Types
  <2>3. CASE playing[a].id = 0
    <3>1. /\ lastId' = lastId + 1 /\ character' = With(character, lastId + 1, playing[a].name)
          /\ playing' = [playing EXCEPT ![a].id = lastId + 1]
          /\ saving' = [saving EXCEPT ![a] = "insert"]
      BY <1>3, <2>3 DEF save_character
    <3>2. playing'[a] = [id |-> lastId + 1, name |-> playing[a].name, data |-> playing[a].data]
      BY <2>2, <3>1 DEF Types, Character
    <3>3. playing'[a].id = lastId + 1 /\ playing'[a].name = playing[a].name
          /\ \A b \in Accounts \ {a} : playing'[b] = playing[b]
      BY <3>1, <3>2 DEF Types
    <3>4. /\ DOMAIN character' = DOMAIN character \cup {lastId + 1}
          /\ character'[lastId + 1] = playing[a].name
          /\ \A i \in DOMAIN character : i # lastId + 1 => character'[i] = character[i]
      BY <3>1 DEF With
    <3>5. DOMAIN player = 1 .. lastId /\ lastId + 1 \notin DOMAIN player  BY <2>1 DEF AllInserted, Types
    <3>6. Inserting(a)'
      <4>1. saving'[a] = "insert" /\ \A b \in Accounts \ {a} : saving'[b] = "no"
        BY <1>3, <3>1 DEF save_character, Idle, Types
      <4>2. \A b \in Accounts \ {a} : playing'[b] # None => playing'[b].id # lastId'
        BY <3>1, <3>3 DEF Types, Character
      <4>3. DOMAIN player' = 1 .. lastId' - 1  BY <2>2, <3>1, <3>5 DEF Types
      <4> QED  BY <3>1, <3>3, <3>4, <4>1, <4>2, <4>3 DEF Inserting
    <3>7. \A b \in Accounts : Named(b)'
      BY <2>1, <2>2, <3>3, <3>5, <3>6 DEF SameNames, Named, Inserting
    <3>8. \A i \in DOMAIN character' \cap DOMAIN player' : character'[i] = player'[i].for
      BY <2>1, <2>2, <3>4, <3>5 DEF SameNames
    <3> QED  BY <3>6, <3>7, <3>8 DEF SameNames
  <2>4. CASE playing[a].id # 0
    <3>1. /\ character' = Updated(character, playing[a].id, playing[a].name)
          /\ saving' = [saving EXCEPT ![a] = "update"]
          /\ UNCHANGED <<lastId, playing>>
      BY <1>3, <2>4 DEF save_character
    <3>2. /\ DOMAIN character' = DOMAIN character
          /\ \A i \in DOMAIN character :
               character'[i] = IF i = playing[a].id THEN playing[a].name ELSE character[i]
      BY <3>1 DEF Updated
    <3>3. SameNames'  BY <2>1, <2>2, <3>1, <3>2 DEF SameNames, Named
    <3>4. AllInserted'  BY <2>1, <2>2, <3>1 DEF AllInserted, Types
    <3> QED  BY <3>3, <3>4
  <2> QED  BY <2>3, <2>4
<1>4. ASSUME NEW a \in Accounts, save_player(a) PROVE SameNames' /\ AllInserted'
  <2> DEFINE ch == playing[a]
             row == [account |-> a, data |-> ch.data, for |-> ch.name]
  <2>1. trouble' = trouble \/ trouble' = trouble \cup {"torn"}  BY <1>4 DEF save_player
  <2>2. /\ saving[a] # "no" /\ player' = PlayerRow(a, saving[a] = "insert")
        /\ saving' = [saving EXCEPT ![a] = "no"] /\ UNCHANGED <<playing, character, lastId>>
    BY <1>4, "torn" \notin {"edit"} DEF save_player
  <2>3. SameNames /\ (AllInserted \/ \E b \in Accounts : Inserting(b))  BY <1>0 DEF InStep
  <2>4. CASE saving[a] = "insert"
    <3>1. Inserting(a)  BY <2>3, <2>4 DEF AllInserted, Inserting
    <3>2. lastId - 1 \in Nat /\ (lastId - 1) + 1 = lastId /\ lastId \notin DOMAIN player
      BY <3>1 DEF Inserting, Types
    <3>3. player' = With(player, lastId, row)
      BY <2>2, <2>4, <3>1, <3>2, InsertedRow DEF PlayerRow, Inserting
    <3>4. /\ DOMAIN player' = DOMAIN player \cup {lastId} /\ player'[lastId].for = ch.name
          /\ \A i \in DOMAIN player : player'[i] = player[i]
      BY <3>2, <3>3 DEF With
    <3>5. DOMAIN player' = 1 .. lastId  BY <3>1, <3>2, <3>4 DEF Inserting, Types
    <3>6. \A b \in Accounts : saving'[b] = "no"  BY <2>2, <3>1 DEF Inserting, Types
    <3>7. AllInserted'  BY <2>2, <3>5, <3>6 DEF AllInserted
    <3>8. \A b \in Accounts : Named(b)'
      BY <2>2, <2>3, <3>1, <3>4 DEF SameNames, Named, Inserting
    <3>9. \A i \in DOMAIN character' \cap DOMAIN player' : character'[i] = player'[i].for
      BY <2>2, <2>3, <3>1, <3>4 DEF SameNames, Inserting
    <3> QED  BY <3>7, <3>8, <3>9 DEF SameNames
  <2>5. CASE saving[a] # "insert"
    <3>1. AllInserted  BY <2>2, <2>3, <2>5 DEF Inserting
    <3>2. /\ DOMAIN player' = DOMAIN player
          /\ \A i \in DOMAIN player : player'[i].for = player[i].for
      BY <2>2, <2>5 DEF PlayerRow, Updated
    <3>3. SameNames'  BY <2>2, <2>3, <3>2 DEF SameNames, Named
    <3>4. AllInserted'  BY <2>2, <3>1, <3>2 DEF AllInserted, Types
    <3> QED  BY <3>3, <3>4
  <2> QED  BY <2>4, <2>5
<1>5. ASSUME NEW a \in Accounts, quit(a) PROVE SameNames' /\ AllInserted'
  <2>1. SameNames /\ AllInserted  BY <1>0, <1>5, IdleInStep DEF quit
  <2>2. UNCHANGED <<character, player, saving, lastId>>
        /\ \A b \in Accounts : saving'[b] = "no" /\ (playing'[b] = playing[b] \/ playing'[b] = None)
    BY <1>5 DEF quit, Types, Idle
  <2> QED  BY <2>1, <2>2, PlayerUnchanged DEF AllInserted
<1>6. ASSUME NEW a \in Accounts, delete_player(a) PROVE SameNames' /\ AllInserted'
  <2>1. SameNames /\ AllInserted  BY <1>0, <1>6, IdleInStep DEF delete_player
  <2>2. UNCHANGED <<player, saving, lastId>>
        /\ \A b \in Accounts : saving'[b] = "no" /\ (playing'[b] = playing[b] \/ playing'[b] = None)
    BY <1>6 DEF delete_player, Types, Idle
  <2>3. \A i \in DOMAIN character' : i \in DOMAIN character /\ character'[i] = character[i]
    BY <1>6 DEF delete_player, Deleted
  <2> QED  BY <2>1, <2>2, <2>3, PlayerUnchanged DEF AllInserted
<1>7. ASSUME NEW a \in Accounts, player_editor(a) PROVE SameNames' /\ AllInserted'
  <2>1. SameNames /\ AllInserted  BY <1>0, <1>7, IdleInStep DEF player_editor
  <2>2. UNCHANGED <<playing, character, lastId, saving>>  BY <1>7 DEF player_editor
  <2>3. PICK i \in DOMAIN player : \E d :
          player' = Updated(player, i, [account |-> a, data |-> d, for |-> player[i].for])
    BY <1>7 DEF player_editor
  <2>4. /\ DOMAIN player' = DOMAIN player
        /\ \A j \in DOMAIN player : player'[j].for = player[j].for
    BY <2>3 DEF Updated
  <2>5. SameNames'  BY <2>1, <2>2, <2>4 DEF SameNames, Named
  <2> QED  BY <2>1, <2>2, <2>4, <2>5 DEF AllInserted
<1>8. CASE Restart
  <2>1. trouble' = IF \E a \in Accounts : saving[a] = "insert" THEN trouble \cup {"torn"} ELSE trouble
    BY <1>8 DEF Restart
  <2>2. \A a \in Accounts : saving[a] # "insert"  BY <2>1, "torn" \notin {"edit"}
  <2>3. SameNames /\ AllInserted  BY <1>0, <2>2 DEF InStep, Inserting
  <2>4. /\ UNCHANGED <<character, lastId, player>>
        /\ \A a \in Accounts : playing'[a] = None /\ saving'[a] = "no"
    BY <1>8 DEF Restart
  <2> QED  BY <2>3, <2>4, PlayerUnchanged DEF AllInserted
<1>9. CASE save_npc
  BY <1>9, "npc" \notin {"edit"} DEF save_npc
<1>10. CASE delete_npc
  <2>1. SameNames /\ AllInserted  BY <1>0, <1>10, IdleInStep DEF delete_npc
  <2>2. UNCHANGED <<playing, player, saving, lastId>> /\ \A a \in Accounts : saving'[a] = "no"
    BY <1>10 DEF delete_npc, Idle
  <2>3. \A i \in DOMAIN character' : i \in DOMAIN character /\ character'[i] = character[i]
    BY <1>10 DEF delete_npc, Deleted
  <2> QED  BY <2>1, <2>2, <2>3, PlayerUnchanged DEF AllInserted
<1>11. CASE UNCHANGED vars
  <2>1. UNCHANGED <<playing, character, lastId, player, saving>>  BY <1>11 DEF vars
  <2>2. SameNames'  BY <1>0, <2>1 DEF InStep, SameNames, Named
  <2>3. CASE AllInserted  BY <2>1, <2>2, <2>3 DEF AllInserted
  <2>4. ASSUME NEW a \in Accounts, Inserting(a) PROVE Inserting(a)'  BY <2>1, <2>4 DEF Inserting
  <2> QED  BY <1>0, <2>2, <2>3, <2>4 DEF InStep
<1> QED
  BY <1>1, <1>2, <1>3, <1>4, <1>5, <1>6, <1>7, <1>8, <1>9, <1>10, <1>11 DEF Next

-----------------------------------------------------------------------------
(* Whose characters they are.                                              *)

LEMMA StepOwn == Types /\ InStep /\ Own /\ [Next]_vars => Own'
<1> SUFFICES ASSUME Types, InStep, Own, [Next]_vars, trouble' = {} PROVE Own'
  BY DEF Own
<1>0. trouble = {}
  BY DEF Next, vars, new_player, load_player_by_id, save_character, save_player, quit, delete_player,
         player_editor, Restart, save_npc, delete_npc
<1> DEFINE Plays(a) == playing[a].name = a /\ playing[a].data = a
<1>a. /\ \A i \in DOMAIN player : OwnRow(player[i], player[i].account)
      /\ \A a \in Accounts : playing[a] # None \/ saving[a] # "no" => Plays(a)
  BY <1>0 DEF Own
<1>1. ASSUME NEW a \in Accounts, new_player(a) PROVE Own'
  <2>1. UNCHANGED <<player, saving>> /\ Plays(a)'
        /\ \A b \in Accounts \ {a} : playing'[b] = playing[b]
    BY <1>1 DEF new_player, Types
  <2> QED  BY <1>a, <2>1 DEF Own, OwnRow
<1>2. ASSUME NEW a \in Accounts, load_player_by_id(a) PROVE Own'
  <2>1. PICK i \in Listed(a) : playing' = [playing EXCEPT ![a] =
                                 [id |-> i, name |-> character[i], data |-> player[i].data]]
    BY <1>2 DEF load_player_by_id
  <2>2. playing'[a].name = character[i] /\ playing'[a].data = player[i].data
        /\ \A b \in Accounts \ {a} : playing'[b] = playing[b]
    BY <2>1 DEF Types
  <2>3. SameNames  BY <1>0 DEF InStep
  <2>4. character[i] = player[i].for /\ player[i].account = a  BY <2>3 DEF Listed, SameNames
  <2>5. OwnRow(player[i], a)  BY <1>a, <2>4 DEF Listed
  <2>6. UNCHANGED <<player, saving>> /\ Plays(a)'  BY <1>2, <2>2, <2>4, <2>5 DEF load_player_by_id, OwnRow
  <2> QED  BY <1>a, <2>2, <2>6 DEF Own, OwnRow
<1>3. ASSUME NEW a \in Accounts, save_character(a) PROVE Own'
  <2>1. UNCHANGED player /\ playing[a] # None /\ Character(playing[a]) /\ Plays(a)
    BY <1>3, <1>a DEF save_character, Types
  <2>2. /\ \A b \in Accounts \ {a} : playing'[b] = playing[b] /\ saving'[b] = saving[b]
        /\ playing' = [playing EXCEPT ![a].id = lastId + 1] \/ playing' = playing
    BY <1>3 DEF save_character, Types
  <2>3. playing'[a].name = playing[a].name /\ playing'[a].data = playing[a].data
    BY <2>1, <2>2 DEF Types, Character
  <2> QED  BY <1>a, <2>1, <2>2, <2>3 DEF Own, OwnRow
<1>4. ASSUME NEW a \in Accounts, save_player(a) PROVE Own'
  <2> DEFINE row == [account |-> a, data |-> playing[a].data, for |-> playing[a].name]
  <2>1. UNCHANGED playing /\ saving[a] # "no" /\ Plays(a)  BY <1>4, <1>a DEF save_player
  <2>2. /\ player' = PlayerRow(a, saving[a] = "insert")
        /\ \A b \in Accounts : saving'[b] # "no" => saving[b] # "no"
    BY <1>4 DEF save_player, Types
  <2>3. OwnRow(row, a)  BY <2>1 DEF OwnRow
  <2>4. ASSUME NEW i \in DOMAIN player' PROVE OwnRow(player'[i], player'[i].account)
    <3>1. CASE saving[a] = "insert"
      <4>1. player' = Inserted(player, row)  BY <2>2, <3>1 DEF PlayerRow
      <4>2. player'[i] = row \/ (i \in DOMAIN player /\ player'[i] = player[i])
        BY <2>4, <4>1 DEF Inserted, With
      <4> QED  BY <1>a, <2>3, <4>2 DEF OwnRow
    <3>2. CASE saving[a] # "insert"
      <4>1. i \in DOMAIN player
        BY <2>2, <2>4, <3>2 DEF PlayerRow, Updated
      <4>2. CASE playing[a].id \in DOMAIN player /\ i = playing[a].id
        <5>1. player[i].for = playing[a].name  BY <1>0, <2>1, <4>2 DEF InStep, SameNames, Named
        <5>2. player'[i].account = a /\ player'[i].data = a /\ player'[i].for = a
          BY <2>1, <2>2, <3>2, <4>2, <5>1 DEF PlayerRow, Updated
        <5> QED  BY <5>2 DEF OwnRow
      <4>3. CASE ~ (playing[a].id \in DOMAIN player /\ i = playing[a].id)
        <5>1. player'[i] = player[i]  BY <2>2, <2>4, <3>2, <4>1, <4>3 DEF PlayerRow, Updated
        <5> QED  BY <1>a, <4>1, <5>1
      <4> QED  BY <4>2, <4>3
    <3> QED  BY <3>1, <3>2
  <2> QED  BY <1>a, <2>1, <2>2, <2>4 DEF Own
<1>5. ASSUME NEW a \in Accounts, quit(a) \/ delete_player(a) PROVE Own'
  <2>1. UNCHANGED <<player, saving>> /\ Idle
        /\ \A b \in Accounts : playing'[b] = playing[b] \/ playing'[b] = None
    BY <1>5 DEF quit, delete_player, Types
  <2> QED  BY <1>a, <2>1 DEF Own, OwnRow, Idle
<1>6. ASSUME NEW a \in Accounts, player_editor(a) PROVE Own'
  BY <1>6 DEF player_editor
<1>7. CASE Restart
  <2>1. UNCHANGED player /\ \A a \in Accounts : playing'[a] = None /\ saving'[a] = "no"
    BY <1>7 DEF Restart
  <2> QED  BY <1>a, <2>1 DEF Own, OwnRow
<1>8. CASE save_npc
  BY <1>8 DEF save_npc
<1>9. CASE delete_npc \/ UNCHANGED vars
  BY <1>a, <1>9 DEF delete_npc, vars, Own, OwnRow
<1> QED  BY <1>1, <1>2, <1>3, <1>4, <1>5, <1>6, <1>7, <1>8, <1>9 DEF Next

-----------------------------------------------------------------------------
(* Characters: all of the types.                                           *)

CharacterType == [id : 0 .. MaxId, name : Names, data : Accounts]
PlayerRowType == [account : Accounts, data : Accounts, for : Accounts]

\* A character that is not in the table yet is a player's.
Playing(ch, insert) == ch \in CharacterType /\ (ch.id = 0 \/ insert => ch.name \in Accounts)

Typed ==
  /\ TypeOK
  /\ \A a \in Accounts :
       playing[a] # None \/ saving[a] # "no" => Playing(playing[a], saving[a] = "insert")

LEMMA InitTyped == ASSUME Init PROVE Typed
BY RecordsAssumption DEF Init, Typed, TypeOK

\* One account's character and saving change, the others' do not.
LEMMA TypedKept ==
  ASSUME Typed, NEW a \in Accounts,
         \A b \in Accounts \ {a} : playing'[b] = playing[b] /\ saving'[b] = saving[b],
         playing'[a] # None \/ saving'[a] # "no" => Playing(playing'[a], saving'[a] = "insert"),
         saving' \in [Accounts -> {"no", "insert", "update"}],
         DOMAIN character' \subseteq 1 .. lastId', lastId' \in 0 .. MaxId,
         \A i \in DOMAIN character' : character'[i] \in Names,
         DOMAIN player' \subseteq 1 .. MaxId, \A i \in DOMAIN player' : player'[i] \in PlayerRowType,
         trouble' \subseteq {"npc", "torn", "edit"}
  PROVE  Typed'
<1>1. ASSUME NEW b \in Accounts, playing'[b] # None \/ saving'[b] # "no"
      PROVE  Playing(playing'[b], saving'[b] = "insert")
  <2>1. CASE b = a  BY <1>1, <2>1
  <2>2. CASE b # a  BY <1>1, <2>2 DEF Typed
  <2> QED  BY <2>1, <2>2
<1>2. \A b \in Accounts : playing'[b] # None => playing'[b] \in CharacterType
  BY <1>1 DEF Playing
<1> QED  BY <1>1, <1>2 DEF Typed, TypeOK, CharacterType, PlayerRowType

LEMMA TypedSame == 
  ASSUME Typed
  PROVE  /\ saving \in [Accounts -> {"no", "insert", "update"}]
         /\ DOMAIN character \subseteq 1 .. lastId /\ lastId \in 0 .. MaxId
         /\ \A i \in DOMAIN character : character[i] \in Names
         /\ DOMAIN player \subseteq 1 .. MaxId /\ \A i \in DOMAIN player : player[i] \in PlayerRowType
         /\ trouble \subseteq {"npc", "torn", "edit"}
         /\ \A b \in Accounts : playing[b] # None \/ saving[b] # "no" =>
                                  Playing(playing[b], saving[b] = "insert")
BY DEF Typed, TypeOK, PlayerRowType

LEMMA StepTyped == ASSUME Typed, DOMAIN playing = Accounts, [Next]_vars PROVE Typed'
<1> USE TypedSame, RecordsAssumption
<1>1. CASE UNCHANGED vars  BY <1>1 DEF vars, Typed, TypeOK
<1>2. CASE Restart
  BY <1>2 DEF Restart, Typed, TypeOK
<1>3. CASE save_npc
  <2>1. /\ DOMAIN character' = DOMAIN character \cup {lastId + 1}
        /\ \A i \in DOMAIN character' : character'[i] \in Names
    BY <1>3 DEF save_npc, With, Names
  <2>2. DOMAIN character' \subseteq 1 .. lastId' /\ lastId' \in 0 .. MaxId
    BY <1>3, <2>1 DEF save_npc
  <2> QED  BY <1>3, <2>1, <2>2 DEF save_npc, Typed, TypeOK
<1>4. CASE delete_npc
  <2>1. DOMAIN character' \subseteq DOMAIN character /\ \A i \in DOMAIN character' : character'[i] \in Names
    BY <1>4 DEF delete_npc, Deleted
  <2> QED  BY <1>4, <2>1 DEF delete_npc, Typed, TypeOK
<1>5. ASSUME NEW a \in Accounts, new_player(a) \/ load_player_by_id(a) \/ quit(a) PROVE Typed'
  <2>1. PICK ch : /\ playing' = [playing EXCEPT ![a] = ch]
                  /\ ch = None \/ Playing(ch, FALSE)
                  /\ saving[a] = "no" /\ UNCHANGED <<character, lastId, player, saving, trouble>>
    <3>1. CASE new_player(a)
      <4> DEFINE ch == [id |-> 0, name |-> a, data |-> a]
      <4>1. ch \in CharacterType /\ ch.name = a  BY DEF CharacterType, Names
      <4> HIDE DEF ch
      <4>2. Playing(ch, FALSE)  BY <4>1 DEF Playing
      <4> QED  BY <3>1, <4>2 DEF new_player, Idle, ch
    <3>2. CASE load_player_by_id(a)
      <4>1. PICK i \in Listed(a) :
              playing' = [playing EXCEPT ![a] = [id |-> i, name |-> character[i], data |-> player[i].data]]
        BY <3>2 DEF load_player_by_id
      <4> DEFINE ch == [id |-> i, name |-> character[i], data |-> player[i].data]
      <4>2. /\ i \in DOMAIN player /\ i \in DOMAIN character /\ i \in 0 .. MaxId /\ i # 0
            /\ character[i] \in Names /\ player[i].data \in Accounts
        BY DEF Listed, PlayerRowType
      <4>3. ch \in CharacterType /\ ch.id = i  BY <4>2 DEF CharacterType
      <4> HIDE DEF ch
      <4>4. Playing(ch, FALSE)  BY <4>2, <4>3 DEF Playing
      <4> QED  BY <3>2, <4>1, <4>4 DEF load_player_by_id, Idle, ch
    <3>3. CASE quit(a)  BY <3>3 DEF quit, Idle
    <3> QED  BY <1>5, <3>1, <3>2, <3>3
  <2>2. playing'[a] = ch /\ \A b \in Accounts \ {a} : playing'[b] = playing[b]
    BY <2>1
  <2> QED  BY <2>1, <2>2, TypedKept
<1>6. ASSUME NEW a \in Accounts, save_character(a) PROVE Typed'
  <2> DEFINE ch == playing[a]
  <2>1. Playing(ch, FALSE) /\ saving[a] = "no" /\ ch # None  BY <1>6 DEF save_character, Idle
  <2>2. ch \in CharacterType /\ (ch.id = 0 => ch.name \in Accounts) /\ ch.name \in Names
    BY <2>1 DEF Playing, CharacterType
  <2>3. /\ saving' = [saving EXCEPT ![a] = IF ch.id = 0 THEN "insert" ELSE "update"]
        /\ UNCHANGED <<player, trouble>>
    BY <1>6 DEF save_character
  <2>4. CASE ch.id = 0
    <3>1. /\ lastId < MaxId /\ lastId' = lastId + 1
          /\ character' = With(character, lastId + 1, ch.name)
          /\ playing' = [playing EXCEPT ![a].id = lastId + 1]
      BY <1>6, <2>4 DEF save_character
    <3>2. /\ DOMAIN character' = DOMAIN character \cup {lastId + 1}
          /\ \A i \in DOMAIN character' : character'[i] \in Names
      BY <2>2, <3>1 DEF With
    <3>3. DOMAIN character' \subseteq 1 .. lastId' /\ lastId' \in 0 .. MaxId
      BY <3>1, <3>2
    <3> DEFINE n == lastId + 1
               ch1 == [ch EXCEPT !.id = n]
    <3>4. n \in 0 .. MaxId  BY <3>1
    <3> HIDE DEF n
    <3>5. ch1 \in CharacterType /\ ch1.name = ch.name  BY <2>2, <3>4 DEF CharacterType
    <3>6. playing'[a] = ch1 /\ \A b \in Accounts \ {a} : playing'[b] = playing[b]  BY <3>1 DEF n
    <3> HIDE DEF ch1
    <3>7. Playing(playing'[a], TRUE)  BY <2>2, <2>4, <3>5, <3>6 DEF Playing
    <3>8. saving'[a] = "insert" /\ (\A b \in Accounts \ {a} : saving'[b] = saving[b])
          /\ saving' \in [Accounts -> {"no", "insert", "update"}]
      BY <2>3, <2>4
    <3> QED  BY <2>3, <3>2, <3>3, <3>6, <3>7, <3>8, TypedKept
  <2>5. CASE ch.id # 0
    <3>1. character' = Updated(character, ch.id, ch.name) /\ UNCHANGED <<lastId, playing>>
      BY <1>6, <2>5 DEF save_character
    <3>2. DOMAIN character' = DOMAIN character /\ \A i \in DOMAIN character' : character'[i] \in Names
      BY <2>2, <3>1 DEF Updated
    <3>3. saving'[a] = "update" /\ (\A b \in Accounts \ {a} : saving'[b] = saving[b])
          /\ saving' \in [Accounts -> {"no", "insert", "update"}]
      BY <2>3, <2>5
    <3>4. Playing(playing'[a], saving'[a] = "insert")  BY <2>1, <3>1, <3>3 DEF Playing
    <3> QED  BY <2>3, <3>1, <3>2, <3>3, <3>4, TypedKept
  <2> QED  BY <2>4, <2>5
<1>7. ASSUME NEW a \in Accounts, save_player(a) PROVE Typed'
  <2> DEFINE ch == playing[a]
             insert == saving[a] = "insert"
             row == [account |-> a, data |-> ch.data, for |-> ch.name]
  <2>1. /\ UNCHANGED <<playing, character, lastId>> /\ saving' = [saving EXCEPT ![a] = "no"]
        /\ saving[a] # "no"
    BY <1>7 DEF save_player
  <2>2. Playing(ch, insert)  BY <2>1
  <2>3. \A i \in DOMAIN player' : player'[i] \in PlayerRowType
    <3>1. CASE player' = player  BY <3>1
    <3>2. CASE player' = PlayerRow(a, insert)
      <4>1. CASE insert
        <5>1. row \in PlayerRowType  BY <2>2, <4>1 DEF Playing, CharacterType, PlayerRowType
        <5>2. player' = Inserted(player, row)  BY <3>2, <4>1 DEF PlayerRow
        <5> HIDE DEF row
        <5> QED  BY <5>1, <5>2 DEF Inserted, With
      <4>2. CASE ~ insert
        <5> DEFINE new == [row EXCEPT !.for = player[ch.id].for]
        <5>1. player' = IF ch.id \in DOMAIN player THEN Updated(player, ch.id, new) ELSE player
          BY <3>2, <4>2 DEF PlayerRow
        <5>2. ch.id \in DOMAIN player => new \in PlayerRowType
          <6>1. ch.data \in Accounts  BY <2>2 DEF Playing, CharacterType
          <6>2. new = [account |-> a, data |-> ch.data, for |-> player[ch.id].for]  OBVIOUS
          <6> QED  BY <6>1, <6>2 DEF PlayerRowType
        <5> HIDE DEF new
        <5> QED  BY <5>1, <5>2 DEF Updated
      <4> QED  BY <4>1, <4>2
    <3> QED  BY <1>7, <3>1, <3>2 DEF save_player
  <2>4. DOMAIN player' \subseteq 1 .. MaxId /\ trouble' \subseteq {"npc", "torn", "edit"}
    BY <1>7 DEF save_player
  <2>5. saving'[a] = "no" /\ (\A b \in Accounts \ {a} : saving'[b] = saving[b])
        /\ saving' \in [Accounts -> {"no", "insert", "update"}]
    BY <2>1
  <2>6. Playing(playing'[a], FALSE)  BY <2>1, <2>2 DEF Playing
  <2> QED  BY <2>1, <2>3, <2>4, <2>5, <2>6, TypedKept
<1>8. ASSUME NEW a \in Accounts, delete_player(a) PROVE Typed'
  <2>1. /\ playing' = [playing EXCEPT ![a] = None] /\ UNCHANGED <<lastId, player, saving, trouble>>
        /\ character' = Deleted(character, playing[a].id) /\ saving[a] = "no"
    BY <1>8 DEF delete_player, Idle
  <2>2. DOMAIN character' \subseteq DOMAIN character /\ \A i \in DOMAIN character' : character'[i] \in Names
    BY <2>1 DEF Deleted
  <2>3. playing'[a] = None /\ \A b \in Accounts \ {a} : playing'[b] = playing[b]  BY <2>1
  <2> QED  BY <2>1, <2>2, <2>3, TypedKept
<1>9. ASSUME NEW a \in Accounts, player_editor(a) PROVE Typed'
  <2>1. PICK i \in DOMAIN player :
          player' = Updated(player, i, [account |-> a, data |-> player[Min(DOMAIN player)].data,
                                        for |-> player[i].for])
    BY <1>9 DEF player_editor
  <2> DEFINE row == [account |-> a, data |-> player[Min(DOMAIN player)].data, for |-> player[i].for]
  <2>2. Min(DOMAIN player) \in DOMAIN player
    <3>1. DOMAIN player \in SUBSET Nat /\ DOMAIN player # {}  OBVIOUS
    <3>2. \E k \in DOMAIN player : \A j \in DOMAIN player : k <= j  BY <3>1, LeastNat
    <3> QED  BY <3>2 DEF Min
  <2>3. row \in PlayerRowType
    <3> HIDE DEF Min
    <3> QED  BY <2>2 DEF PlayerRowType
  <2> HIDE DEF row
  <2>4. player' = [player EXCEPT ![i] = row]  BY <2>1 DEF Updated, row
  <2>5. DOMAIN player' \subseteq 1 .. MaxId /\ \A j \in DOMAIN player' : player'[j] \in PlayerRowType
    BY <2>3, <2>4
  <2>6. UNCHANGED <<playing, character, lastId, saving>> /\ trouble' \subseteq {"npc", "torn", "edit"}
    BY <1>9 DEF player_editor
  <2>7. playing'[a] # None \/ saving'[a] # "no" => Playing(playing'[a], saving'[a] = "insert")
    BY <2>6
  <2> QED  BY <2>5, <2>6, <2>7, TypedKept
<1> QED  BY <1>1, <1>2, <1>3, <1>4, <1>5, <1>6, <1>7, <1>8, <1>9 DEF Next

-----------------------------------------------------------------------------
(* Belongings: the inductive invariant.                                    *)

Addresses == B!Addresses
Owners == Players \cup {"nobody", "deleted"}
Object == [id : Nat, area : BOOLEAN]
LiveOf(ob) == {o \in Addresses : ob[o] # None}

\* What is carried is there, carried by one who plays, and not on the floor; the
\* list of all objects has each of them once.
World(pl, ca, fl, ob, fo) ==
  /\ pl \in [Sessions -> Players \cup {None}]
  /\ ca \in [Sessions -> Seq(Addresses)]
  /\ \A s \in Sessions : pl[s] = None => ca[s] = <<>>
  /\ \A s \in Sessions : Range(ca[s]) \subseteq LiveOf(ob) \ fl
  /\ \A s, t \in Sessions : s # t => Range(ca[s]) \cap Range(ca[t]) = {}
  /\ fl \subseteq LiveOf(ob)
  /\ ob \in [Addresses -> Object \cup {None}] /\ \A o \in LiveOf(ob) : ob[o].id <= MaxRow
  /\ fo \in Seq(Addresses) /\ Range(fo) = LiveOf(ob) /\ Distinct(fo)

Table(table) == table \in Seq(Owners) /\ Len(table) \in 1 .. MaxRow

BelongingsInv ==
  /\ World(plays, carrying, floor, obj, first_object)
  /\ Table(object)
  /\ stale \in BOOLEAN /\ gone \in BOOLEAN

-----------------------------------------------------------------------------
(* Belongings: lists of objects.                                           *)

LEMMA AddressesFacts == Addresses = 1 .. MaxObj /\ MaxObj \in Nat /\ MaxObj # 0 /\ MaxRow \in Nat
BY RecordsAssumption DEF Addresses, B!Addresses

LEMMA SameOperators ==
  /\ \A f : B!Range(f) = Range(f)
  /\ \A K : B!Sorted(K) = Sorted(K) /\ B!Cardinality(K) = Cardinality(K)
  /\ \A s, S : B!Without(s, S) = Without(s, S)
<1>1. \A K : B!Cardinality(K) = Cardinality(K)  BY DEF B!Cardinality, Cardinality
<1>2. \A K : B!Sorted(K) = Sorted(K)  BY DEF B!Sorted, Sorted, B!Rank, Rank, B!Cardinality, Cardinality
<1>3. \A s, S : B!Without(s, S) = Without(s, S)  BY <1>2 DEF B!Without, Without
<1> QED  BY <1>1, <1>2, <1>3 DEF B!Range, Range

LEMMA LiveFacts == B!Live = LiveOf(obj)
BY DEF B!Live, LiveOf, Addresses

LEMMA BelongingsTypes == ASSUME BelongingsInv PROVE B!TypeOK
<1>1. \A s \in Sessions : B!Range(carrying[s]) \subseteq B!Live
  BY SameOperators, LiveFacts DEF BelongingsInv, World
<1>2. B!Range(first_object) = B!Live  BY SameOperators, LiveFacts DEF BelongingsInv, World
<1>3. B!IsInjective(first_object)  BY DEF BelongingsInv, World, Distinct, B!IsInjective
<1>4. \A o \in B!Live : obj[o].id \in 0 .. MaxRow /\ obj[o].area \in BOOLEAN
  <2>1. \A o \in B!Live : obj[o] \in Object /\ obj[o].id <= MaxRow
    BY LiveFacts DEF BelongingsInv, World, LiveOf
  <2> QED  BY <2>1, AddressesFacts DEF Object
<1> QED  BY <1>1, <1>2, <1>3, <1>4, LiveFacts DEF B!TypeOK, BelongingsInv, World, Table, Owners

\* Two lists without a common element.
LEMMA ConcatDistinct ==
  ASSUME NEW E, NEW a \in Seq(E), NEW b \in Seq(E), Distinct(a), Distinct(b),
         Range(a) \cap Range(b) = {}
  PROVE  Distinct(a \o b)
<1> DEFINE c == a \o b
<1>1. /\ Len(c) = Len(a) + Len(b) /\ c \in Seq(E)
      /\ \A i \in 1 .. Len(a) : c[i] = a[i]
      /\ \A i \in 1 .. Len(b) : c[Len(a) + i] = b[i]
  BY ConcatFacts, ConcatRange
<1> HIDE DEF c
<1>2. Len(a) \in Nat /\ Len(b) \in Nat /\ DOMAIN a = 1 .. Len(a) /\ DOMAIN b = 1 .. Len(b)
      /\ DOMAIN c = 1 .. Len(c)
  BY <1>1
<1>3. ASSUME NEW i \in DOMAIN c
      PROVE  \/ i \in DOMAIN a /\ c[i] = a[i]
             \/ i - Len(a) \in DOMAIN b /\ c[i] = b[i - Len(a)] /\ i = Len(a) + (i - Len(a))
  <2>1. CASE i \in 1 .. Len(a)  BY <1>1, <1>2, <2>1
  <2>2. CASE i \notin 1 .. Len(a)
    <3> DEFINE k == i - Len(a)
    <3>1. k \in 1 .. Len(b) /\ i = Len(a) + k  BY <1>1, <1>2, <2>2
    <3> HIDE DEF k
    <3>2. c[i] = b[k]  BY <1>1, <3>1
    <3> QED  BY <1>2, <3>1, <3>2 DEF k
  <2> QED  BY <2>1, <2>2
<1>4. ASSUME NEW i \in DOMAIN c, NEW j \in DOMAIN c, c[i] = c[j] PROVE i = j
  <2>1. CASE i \in DOMAIN a /\ c[i] = a[i]
    <3>1. CASE j \in DOMAIN a /\ c[j] = a[j]  BY <1>4, <2>1, <3>1 DEF Distinct
    <3>2. CASE j - Len(a) \in DOMAIN b /\ c[j] = b[j - Len(a)]
      BY <1>4, <2>1, <3>2 DEF Range
    <3> QED  BY <1>3, <3>1, <3>2
  <2>2. CASE i - Len(a) \in DOMAIN b /\ c[i] = b[i - Len(a)] /\ i = Len(a) + (i - Len(a))
    <3>1. CASE j \in DOMAIN a /\ c[j] = a[j]
      BY <1>4, <2>2, <3>1 DEF Range
    <3>2. CASE j - Len(a) \in DOMAIN b /\ c[j] = b[j - Len(a)] /\ j = Len(a) + (j - Len(a))
      <4>1. i - Len(a) = j - Len(a)  BY <1>4, <2>2, <3>2 DEF Distinct
      <4> QED  BY <2>2, <3>2, <4>1
    <3> QED  BY <1>3, <3>1, <3>2
  <2> QED  BY <1>3, <2>1, <2>2
<1> QED  BY <1>4 DEF Distinct, c

\* New objects are at different addresses that were free.
LEMMA NewFacts ==
  ASSUME NEW n \in Nat, n <= Cardinality(Addresses \ LiveOf(obj))
  PROVE  LET new == B!New(n)
         IN /\ new \in Seq(Addresses) /\ DOMAIN new = 1 .. n /\ Len(new) = n
            /\ Range(new) \subseteq Addresses \ LiveOf(obj) /\ Distinct(new)
<1> DEFINE K == Addresses \ LiveOf(obj)
           free == Sorted(K)
           new == B!New(n)
<1>1. new = [i \in 1 .. n |-> free[n + 1 - i]]
  BY SameOperators, LiveFacts DEF B!New, Addresses
<1>2. K \in SUBSET (1 .. MaxObj) /\ MaxObj \in Nat  BY AddressesFacts
<1> HIDE DEF K
<1>3. /\ free \in Seq(K) /\ Range(free) = K
      /\ \A i, j \in DOMAIN free : i < j => free[i] < free[j]
  BY <1>2, SortedFacts
<1>4. DOMAIN free = 1 .. Cardinality(K) /\ Cardinality(K) \in Nat /\ n <= Cardinality(K)
  <2>1. Cardinality(K) \in Nat  BY <1>2, RankFacts
  <2> QED  BY <2>1 DEF Sorted, K
<1> HIDE DEF free, new
<1>5. \A i \in 1 .. n : n + 1 - i \in DOMAIN free  BY <1>4
<1>6. \A i \in 1 .. n : new[i] = free[n + 1 - i] /\ new[i] \in K
  BY <1>1, <1>3, <1>5 DEF Range
<1>7. DOMAIN new = 1 .. n /\ new \in [1 .. n -> Addresses]
  <2>1. \A i \in 1 .. n : new[i] \in Addresses  BY <1>6 DEF K
  <2> QED  BY <1>1, <2>1
<1>8. new \in Seq(Addresses) /\ Len(new) = n  BY <1>7
<1>9. Distinct(new)
  <2> SUFFICES ASSUME NEW i \in 1 .. n, NEW j \in 1 .. n, new[i] = new[j] PROVE i = j
    BY <1>7 DEF Distinct
  <2> DEFINE a == n + 1 - i  b == n + 1 - j
  <2>1. a \in DOMAIN free /\ b \in DOMAIN free /\ free[a] = free[b]  BY <1>5, <1>6
  <2>2. free[a] \in 1 .. MaxObj  BY <1>2, <1>3, <2>1 DEF Range
  <2>3. ~ (a < b) /\ ~ (b < a)
    <3> HIDE DEF a, b
    <3> QED  BY <1>2, <1>3, <2>1, <2>2
  <2> QED  BY <2>3
<1> QED  BY <1>6, <1>7, <1>8, <1>9 DEF Range, new, K

\* The world after objects with the given rows were allocated.
LEMMA AllocatesFacts ==
  ASSUME BelongingsInv, NEW rows \in Seq(1 .. MaxRow), B!Allocates(rows)
  PROVE  LET new == B!New(Len(rows))
         IN /\ new \in Seq(Addresses) /\ Range(new) \cap LiveOf(obj) = {} /\ DOMAIN new = 1 .. Len(rows)
            /\ LiveOf(obj') = LiveOf(obj) \cup Range(new)
            /\ obj' \in [Addresses -> Object \cup {None}] /\ \A o \in LiveOf(obj') : obj'[o].id <= MaxRow
            /\ first_object' \in Seq(Addresses) /\ Distinct(first_object')
            /\ Range(first_object') = LiveOf(obj')
<1> DEFINE n == Len(rows)
           new == B!New(n)
           Nr(o) == CHOOSE i \in 1 .. n : new[i] = o
<1>1. /\ n <= Cardinality(Addresses \ LiveOf(obj)) /\ n \in Nat
      /\ obj' = [o \in Addresses |-> IF \E i \in 1 .. n : new[i] = o
                                     THEN [id |-> rows[n + 1 - Nr(o)], area |-> TRUE] ELSE obj[o]]
      /\ first_object' = new \o first_object
  BY SameOperators, LiveFacts DEF B!Allocates, Addresses
<1>2. /\ new \in Seq(Addresses) /\ DOMAIN new = 1 .. n /\ Len(new) = n
      /\ Range(new) \subseteq Addresses \ LiveOf(obj) /\ Distinct(new)
  BY <1>1, NewFacts
<1> HIDE DEF new
<1>3. ASSUME NEW o \in Range(new)
      PROVE  obj'[o] \in Object /\ obj'[o].id <= MaxRow /\ obj'[o] # None
  <2>1. Nr(o) \in 1 .. n /\ o \in Addresses /\ \E i \in 1 .. n : new[i] = o  BY <1>2 DEF Range
  <2> DEFINE id == rows[n + 1 - Nr(o)]
  <2>2. obj'[o] = [id |-> id, area |-> TRUE]
    <3> HIDE DEF Nr
    <3> QED  BY <1>1, <2>1
  <2>3. id \in 1 .. MaxRow
    <3> HIDE DEF Nr
    <3> DEFINE k == n + 1 - Nr(o)
    <3>1. k \in 1 .. Len(rows)  BY <1>1, <2>1
    <3> HIDE DEF k
    <3>2. rows[k] \in 1 .. MaxRow
      <4> HIDE DEF n
      <4> QED  BY <3>1, SeqFacts
    <3> QED  BY <3>2 DEF k
  <2> HIDE DEF id
  <2>4. id \in Nat /\ id <= MaxRow  BY <2>3, AddressesFacts
  <2>5. obj'[o] \in Object /\ obj'[o].id = id  BY <2>2, <2>4 DEF Object
  <2> QED  BY <2>4, <2>5, RecordsAssumption DEF Object
<1>4. ASSUME NEW o \in Addresses \ Range(new) PROVE obj'[o] = obj[o]
  <2>1. ~ \E i \in 1 .. n : new[i] = o  BY <1>2 DEF Range
  <2> QED  BY <1>1, <2>1
<1>5. /\ obj \in [Addresses -> Object \cup {None}] /\ \A o \in LiveOf(obj) : obj[o].id <= MaxRow
      /\ first_object \in Seq(Addresses) /\ Range(first_object) = LiveOf(obj) /\ Distinct(first_object)
  BY DEF BelongingsInv, World
<1>6. DOMAIN obj' = Addresses /\ obj' = [o \in Addresses |-> obj'[o]]  BY <1>1
<1>7. obj' \in [Addresses -> Object \cup {None}]  BY <1>3, <1>4, <1>5, <1>6
<1>8. LiveOf(obj') = LiveOf(obj) \cup Range(new)  BY <1>2, <1>3, <1>4 DEF LiveOf
<1>9. \A o \in LiveOf(obj') : obj'[o].id <= MaxRow
  <2> SUFFICES ASSUME NEW o \in LiveOf(obj') PROVE obj'[o].id <= MaxRow  OBVIOUS
  <2>1. CASE o \in Range(new)  BY <1>3, <2>1
  <2>2. CASE o \notin Range(new)
    <3>1. o \in LiveOf(obj) /\ o \in Addresses  BY <1>8, <2>2 DEF LiveOf
    <3> QED  BY <1>4, <1>5, <2>2, <3>1
  <2> QED  BY <2>1, <2>2
<1>10. first_object' \in Seq(Addresses) /\ Range(first_object') = Range(new) \cup Range(first_object)
  BY <1>1, <1>2, <1>5, ConcatRange
<1>11. Distinct(first_object')
  <2>1. Range(new) \cap Range(first_object) = {}  BY <1>2, <1>5
  <2> QED  BY <1>1, <1>2, <1>5, <2>1, ConcatDistinct
<1> QED  BY <1>2, <1>5, <1>7, <1>8, <1>9, <1>10, <1>11 DEF new

-----------------------------------------------------------------------------
(* Belongings: starting, allocating, and moving about.                     *)

LEMMA EmptyList == ASSUME NEW E PROVE <<>> \in Seq(E) /\ Range(<<>>) = {} /\ Distinct(<<>>)
BY DEF Range, Distinct

LEMMA InitBelongingsInv == ASSUME B!Init PROVE BelongingsInv
<1> DEFINE first == [id |-> 1, area |-> FALSE]
<1>1. first \in Object /\ first.id = 1  BY DEF Object
<1>2. first # None  BY <1>1, RecordsAssumption DEF Object
<1>3. obj = [o \in Addresses |-> IF o = 1 THEN first ELSE None]  BY DEF B!Init, Addresses
<1> HIDE DEF first
<1>4. 1 \in Addresses  BY AddressesFacts
<1>5. LiveOf(obj) = {1} /\ obj \in [Addresses -> Object \cup {None}]
      /\ \A o \in LiveOf(obj) : obj[o].id <= MaxRow
  <2>1. LiveOf(obj) = {1} /\ obj[1] = first  BY <1>2, <1>3, <1>4 DEF LiveOf
  <2> QED  BY <1>1, <1>3, <2>1, RecordsAssumption
<1>6. first_object \in Seq(Addresses) /\ Range(first_object) = {1} /\ Distinct(first_object)
  BY <1>4 DEF B!Init, Range, Distinct
<1>7. /\ plays = [s \in Sessions |-> None] /\ carrying = [s \in Sessions |-> <<>>] /\ floor = {}
      /\ stale = FALSE /\ gone = FALSE /\ object = <<"nobody">>
  BY DEF B!Init
<1>8. object \in Seq(Owners) /\ Len(object) = 1  BY <1>7 DEF Owners
<1>9. /\ carrying \in [Sessions -> Seq(Addresses)] /\ \A s \in Sessions : carrying[s] = <<>>
      /\ \A s \in Sessions : Range(carrying[s]) = {}
  BY <1>7, EmptyList
<1>10. World(plays, carrying, floor, obj, first_object)
  BY <1>5, <1>6, <1>7, <1>9 DEF World
<1>11. Len(object) \in 1 .. MaxRow  BY <1>8, AddressesFacts, RecordsAssumption
<1> QED  BY <1>7, <1>8, <1>10, <1>11 DEF BelongingsInv, Table

\* The start: an object for every row that was not deleted.
LEMMA BootFacts ==
  ASSUME NEW table, Table(table), B!Boot(table)
  PROVE  World(plays', carrying', floor', obj', first_object') /\ stale' = FALSE
<1> DEFINE K == {i \in DOMAIN table : table[i] # "deleted"}
           rows == Sorted(K)
           n == Len(rows)
           Row(o) == [id |-> rows[o], area |-> FALSE]
<1>1. /\ n <= MaxObj
      /\ obj' = [o \in Addresses |-> IF o \in DOMAIN rows THEN Row(o) ELSE None]
      /\ first_object' = B!Reverse([i \in DOMAIN rows |-> i])
      /\ stale' = FALSE /\ plays' = [s \in Sessions |-> None]
      /\ carrying' = [s \in Sessions |-> <<>>] /\ floor' = {}
  BY SameOperators DEF B!Boot, Addresses
<1>2. K \in SUBSET (1 .. Len(table)) /\ Len(table) \in Nat /\ Len(table) <= MaxRow  BY DEF Table
<1> HIDE DEF K
<1>3. rows \in Seq(K)  BY <1>2, SortedFacts
<1> HIDE DEF rows
<1>4. n \in Nat /\ DOMAIN rows = 1 .. n /\ 1 .. n \subseteq Addresses /\ \A i \in 1 .. n : rows[i] \in K
  BY <1>1, <1>3, AddressesFacts
<1>5. ASSUME NEW o \in 1 .. n PROVE Row(o) \in Object /\ Row(o).id <= MaxRow /\ Row(o) # None
  <2>1. rows[o] \in Nat /\ rows[o] <= MaxRow
    <3>1. rows[o] \in K  BY <1>4
    <3>2. rows[o] \in 1 .. Len(table)  BY <1>2, <3>1
    <3> QED  BY <1>2, <3>2, AddressesFacts
  <2>2. Row(o) \in Object /\ Row(o).id = rows[o]  BY <2>1 DEF Object
  <2> QED  BY <2>1, <2>2, RecordsAssumption DEF Object
<1> HIDE DEF Row
<1>6. /\ LiveOf(obj') = 1 .. n /\ obj' \in [Addresses -> Object \cup {None}]
      /\ \A o \in LiveOf(obj') : obj'[o].id <= MaxRow
  <2>1. \A o \in Addresses : obj'[o] = IF o \in 1 .. n THEN Row(o) ELSE None  BY <1>1, <1>4
  <2>2. LiveOf(obj') = 1 .. n  BY <1>4, <1>5, <2>1 DEF LiveOf
  <2>3. \A o \in LiveOf(obj') : obj'[o].id <= MaxRow  BY <1>4, <1>5, <2>1, <2>2
  <2>4. \A o \in Addresses : obj'[o] \in Object \cup {None}  BY <1>5, <2>1
  <2>5. obj' = [o \in Addresses |-> obj'[o]]  BY <1>1
  <2> QED  BY <2>2, <2>3, <2>4, <2>5
<1>7. /\ first_object' \in Seq(Addresses) /\ Range(first_object') = 1 .. n /\ Distinct(first_object')
  <2> DEFINE up == [i \in DOMAIN rows |-> i]
             down == [i \in 1 .. n |-> n - i + 1]
  <2>1. Len(up) = n /\ DOMAIN up = 1 .. n /\ \A i \in 1 .. n : up[i] = i
    <3>1. up = [i \in 1 .. n |-> i]  BY <1>4
    <3> QED  BY <1>4, <3>1
  <2> HIDE DEF up
  <2>2. B!Reverse(up) = [i \in 1 .. n |-> up[(n - i) + 1]]  BY <2>1 DEF B!Reverse
  <2>3. \A i \in 1 .. n : (n - i) + 1 \in 1 .. n /\ up[(n - i) + 1] = n - i + 1
    <3>1. \A i \in 1 .. n : (n - i) + 1 \in 1 .. n  BY <1>4
    <3> QED  BY <2>1, <3>1
  <2>4. B!Reverse(up) = down  BY <2>2, <2>3
  <2>5. first_object' = down  BY <1>1, <2>4 DEF up
  <2> HIDE DEF n
  <2>6. DOMAIN down = 1 .. n /\ \A i \in 1 .. n : down[i] = n - i + 1  OBVIOUS
  <2>7. \A i \in 1 .. n : n - i + 1 \in 1 .. n /\ n - (n - i + 1) + 1 = i  BY <1>4
  <2>8. down \in [1 .. n -> Addresses]  BY <1>4, <2>6, <2>7
  <2> HIDE DEF down
  <2>9. down \in Seq(Addresses)  BY <1>4, <2>8
  <2>10. Range(down) = 1 .. n
    <3>1. ASSUME NEW i \in 1 .. n PROVE i \in Range(down)
      <4>1. n - i + 1 \in 1 .. n  BY <2>7
      <4>2. down[n - i + 1] = i  BY <1>4, <2>6, <2>7, <4>1
      <4> QED  BY <2>6, <4>1, <4>2 DEF Range
    <3> QED  BY <2>6, <2>7, <3>1 DEF Range
  <2>11. Distinct(down)  BY <1>4, <2>6 DEF Distinct
  <2> QED  BY <2>5, <2>9, <2>10, <2>11
<1>8. /\ carrying' \in [Sessions -> Seq(Addresses)] /\ \A s \in Sessions : carrying'[s] = <<>>
      /\ \A s \in Sessions : Range(carrying'[s]) = {}
  BY <1>1, EmptyList
<1>9. plays' \in [Sessions -> Players \cup {None}]  BY <1>1
<1> QED  BY <1>1, <1>6, <1>7, <1>8, <1>9 DEF World

LEMMA BootInv ==
  ASSUME NEW table, Table(table), B!Boot(table), object' = table, gone' \in BOOLEAN
  PROVE  BelongingsInv'
BY BootFacts DEF BelongingsInv

LEMMA LoadObjectInv == ASSUME BelongingsInv, B!load_object PROVE BelongingsInv'
<1> DEFINE new == B!New(1)
<1>1. /\ B!Allocates(<<1>>) /\ floor' = floor \cup Range(new)
      /\ UNCHANGED <<plays, carrying, stale, object, gone>>
  BY SameOperators DEF B!load_object
<1>2. <<1>> \in Seq(1 .. MaxRow) /\ Len(<<1>>) = 1  BY RecordsAssumption
<1>3. /\ Range(new) \cap LiveOf(obj) = {}
      /\ LiveOf(obj') = LiveOf(obj) \cup Range(new)
      /\ obj' \in [Addresses -> Object \cup {None}] /\ \A o \in LiveOf(obj') : obj'[o].id <= MaxRow
      /\ first_object' \in Seq(Addresses) /\ Distinct(first_object')
      /\ Range(first_object') = LiveOf(obj')
  <2> DEFINE rows == <<1>>
  <2>1. rows \in Seq(1 .. MaxRow) /\ Len(rows) = 1 /\ B!Allocates(rows)  BY <1>1, <1>2
  <2> HIDE DEF rows
  <2>2. /\ Range(B!New(Len(rows))) \cap LiveOf(obj) = {}
        /\ LiveOf(obj') = LiveOf(obj) \cup Range(B!New(Len(rows)))
        /\ obj' \in [Addresses -> Object \cup {None}] /\ \A o \in LiveOf(obj') : obj'[o].id <= MaxRow
        /\ first_object' \in Seq(Addresses) /\ Distinct(first_object')
        /\ Range(first_object') = LiveOf(obj')
    BY <2>1, AllocatesFacts
  <2> QED  BY <2>1, <2>2
<1> HIDE DEF new
<1>4. World(plays', carrying', floor', obj', first_object')
  BY <1>1, <1>3 DEF BelongingsInv, World
<1> QED  BY <1>1, <1>4 DEF BelongingsInv

LEMMA LoadPlayerInv ==
  ASSUME BelongingsInv, NEW s \in Sessions, NEW p \in Players, B!load_char_objs(s, p)
  PROVE  BelongingsInv'
<1> DEFINE K == B!Rows(object, p)
           rows == Sorted(K)
           new == B!New(Len(rows))
<1>1. /\ plays' = [plays EXCEPT ![s] = p] /\ plays[s] = None
      /\ B!Allocates(rows) /\ carrying' = [carrying EXCEPT ![s] = new]
      /\ UNCHANGED <<floor, stale, object, gone>>
  BY SameOperators DEF B!load_char_objs
<1>2. rows \in Seq(1 .. MaxRow)
  <2>1. K \in SUBSET (1 .. Len(object)) /\ Len(object) \in Nat /\ Len(object) <= MaxRow
    BY DEF B!Rows, BelongingsInv, Table
  <2> HIDE DEF K
  <2>2. rows \in Seq(K)  BY <2>1, SortedFacts
  <2>3. K \subseteq 1 .. MaxRow  BY <2>1, AddressesFacts
  <2> HIDE DEF rows
  <2> QED  BY <2>2, <2>3, SeqWider
<1> HIDE DEF rows
<1>3. /\ new \in Seq(Addresses) /\ Range(new) \cap LiveOf(obj) = {}
      /\ LiveOf(obj') = LiveOf(obj) \cup Range(new)
      /\ obj' \in [Addresses -> Object \cup {None}] /\ \A o \in LiveOf(obj') : obj'[o].id <= MaxRow
      /\ first_object' \in Seq(Addresses) /\ Distinct(first_object')
      /\ Range(first_object') = LiveOf(obj')
  BY <1>1, <1>2, AllocatesFacts
<1> HIDE DEF new
<1>4. World(plays, carrying, floor, obj, first_object)  BY DEF BelongingsInv
<1>5. /\ carrying' \in [Sessions -> Seq(Addresses)] /\ carrying'[s] = new
      /\ \A t \in Sessions \ {s} : carrying'[t] = carrying[t]
      /\ plays' \in [Sessions -> Players \cup {None}] /\ plays'[s] = p
      /\ \A t \in Sessions \ {s} : plays'[t] = plays[t]
  BY <1>1, <1>3, <1>4 DEF World
<1>6. p # None  BY RecordsAssumption
<1>7. \A t \in Sessions : plays'[t] = None => carrying'[t] = <<>>  BY <1>4, <1>5, <1>6 DEF World
<1>8. \A t \in Sessions \ {s} : Range(carrying'[t]) \subseteq LiveOf(obj) \ floor
  BY <1>4, <1>5 DEF World
<1>9. Range(new) \cap floor = {}  BY <1>3, <1>4 DEF World
<1>10. \A t \in Sessions : Range(carrying'[t]) \subseteq LiveOf(obj') \ floor
  BY <1>3, <1>5, <1>8, <1>9
<1>11. \A t, u \in Sessions : t # u => Range(carrying'[t]) \cap Range(carrying'[u]) = {}
  <2> SUFFICES ASSUME NEW t \in Sessions, NEW u \in Sessions, t # u
               PROVE  Range(carrying'[t]) \cap Range(carrying'[u]) = {}
    OBVIOUS
  <2>1. CASE t = s  BY <1>3, <1>5, <1>8, <2>1
  <2>2. CASE u = s  BY <1>3, <1>5, <1>8, <2>2
  <2>3. CASE t # s /\ u # s  BY <1>4, <1>5, <2>3 DEF World
  <2> QED  BY <2>1, <2>2, <2>3
<1>12. World(plays', carrying', floor', obj', first_object')
  BY <1>1, <1>3, <1>4, <1>5, <1>7, <1>10, <1>11 DEF World
<1> QED  BY <1>1, <1>12 DEF BelongingsInv

LEMMA ContainsFacts ==
  ASSUME NEW s \in Seq(Addresses), NEW o
  PROVE  B!Contains(s, o) <=> o \in Range(s)
BY SeqFacts DEF B!Contains, Range

LEMMA NothingListed == ASSUME NEW E, NEW s \in Seq(E), Range(s) = {} PROVE s = <<>>
<1>1. Len(s) \in Nat /\ DOMAIN s = 1 .. Len(s)  OBVIOUS
<1>2. 1 \notin DOMAIN s  BY DEF Range
<1>3. Len(s) = 0  BY <1>1, <1>2
<1> QED  BY <1>3

LEMMA GetInv == ASSUME BelongingsInv, NEW s \in Sessions, B!do_get(s) PROVE BelongingsInv'
<1>1. PICK o \in floor :
        /\ floor' = floor \ {o} /\ carrying' = [carrying EXCEPT ![s] = <<o>> \o carrying[s]]
        /\ UNCHANGED <<plays, obj, first_object, stale, object, gone>> /\ plays[s] # None
  BY DEF B!do_get
<1>2. World(plays, carrying, floor, obj, first_object)  BY DEF BelongingsInv
<1> DEFINE one == <<o>>
           more == one \o carrying[s]
<1>3. o \in LiveOf(obj) /\ o \in Addresses  BY <1>2 DEF World, LiveOf
<1>4. one \in Seq(Addresses) /\ Range(one) = {o}  BY <1>3 DEF Range
<1>5. carrying[s] \in Seq(Addresses)  BY <1>2 DEF World
<1> HIDE DEF one
<1>6. more \in Seq(Addresses) /\ Range(more) = {o} \cup Range(carrying[s])
  BY <1>4, <1>5, ConcatRange
<1>7. carrying' = [carrying EXCEPT ![s] = more]  BY <1>1 DEF one
<1> HIDE DEF more
<1>8. /\ carrying' \in [Sessions -> Seq(Addresses)] /\ carrying'[s] = more
      /\ \A t \in Sessions \ {s} : carrying'[t] = carrying[t]
  BY <1>2, <1>6, <1>7 DEF World
<1>9. \A t \in Sessions : o \notin Range(carrying[t])  BY <1>2 DEF World
<1>10. \A t \in Sessions : Range(carrying'[t]) \subseteq LiveOf(obj) \ floor'
  BY <1>1, <1>2, <1>3, <1>6, <1>8 DEF World
<1>11. \A t, u \in Sessions : t # u => Range(carrying'[t]) \cap Range(carrying'[u]) = {}
  <2> SUFFICES ASSUME NEW t \in Sessions, NEW u \in Sessions, t # u
               PROVE  Range(carrying'[t]) \cap Range(carrying'[u]) = {}
    OBVIOUS
  <2>1. Range(carrying[t]) \cap Range(carrying[u]) = {}  BY <1>2 DEF World
  <2> QED  BY <1>6, <1>8, <1>9, <2>1
<1>12. World(plays', carrying', floor', obj', first_object')
  BY <1>1, <1>2, <1>8, <1>10, <1>11 DEF World
<1> QED  BY <1>1, <1>12 DEF BelongingsInv

LEMMA DropInv == ASSUME BelongingsInv, NEW s \in Sessions, B!do_drop(s) PROVE BelongingsInv'
<1>1. PICK o \in Range(carrying[s]) :
        /\ floor' = floor \cup {o} /\ carrying' = [carrying EXCEPT ![s] = Without(carrying[s], {o})]
        /\ UNCHANGED <<plays, obj, first_object, stale, object, gone>>
  BY SameOperators DEF B!do_drop
<1>2. World(plays, carrying, floor, obj, first_object)  BY DEF BelongingsInv
<1> DEFINE less == Without(carrying[s], {o})
<1>3. o \in LiveOf(obj) /\ carrying[s] \in Seq(Addresses)  BY <1>2 DEF World
<1>4. less \in Seq(Addresses) /\ Range(less) = Range(carrying[s]) \ {o}  BY <1>3, WithoutFacts
<1>5. carrying[s] = <<>> => less = <<>>
  <2>1. carrying[s] # <<>>  BY EmptyList
  <2> QED  BY <2>1
<1> HIDE DEF less
<1>6. /\ carrying' \in [Sessions -> Seq(Addresses)] /\ carrying'[s] = less
      /\ \A t \in Sessions \ {s} : carrying'[t] = carrying[t]
  BY <1>1, <1>2, <1>4 DEF World, less
<1>7. \A t \in Sessions \ {s} : o \notin Range(carrying[t])  BY <1>2 DEF World
<1>8. \A t \in Sessions : Range(carrying'[t]) \subseteq LiveOf(obj) \ floor'
  BY <1>1, <1>2, <1>4, <1>6, <1>7 DEF World
<1>9. \A t, u \in Sessions : t # u => Range(carrying'[t]) \cap Range(carrying'[u]) = {}
  <2> SUFFICES ASSUME NEW t \in Sessions, NEW u \in Sessions, t # u
               PROVE  Range(carrying'[t]) \cap Range(carrying'[u]) = {}
    OBVIOUS
  <2>1. Range(carrying[t]) \cap Range(carrying[u]) = {}  BY <1>2 DEF World
  <2>2. \A r \in Sessions : Range(carrying'[r]) \subseteq Range(carrying[r])
    <3> SUFFICES ASSUME NEW r \in Sessions PROVE Range(carrying'[r]) \subseteq Range(carrying[r])
      OBVIOUS
    <3>1. CASE r = s  BY <1>4, <1>6, <3>1
    <3>2. CASE r # s  BY <1>6, <3>2
    <3> QED  BY <3>1, <3>2
  <2> QED  BY <2>1, <2>2
<1>10. \A t \in Sessions : plays[t] = None => carrying'[t] = <<>>  BY <1>2, <1>5, <1>6 DEF World
<1>11. floor' \subseteq LiveOf(obj)  BY <1>1, <1>2, <1>3 DEF World
<1>12. World(plays', carrying', floor', obj', first_object')
  BY <1>1, <1>2, <1>6, <1>8, <1>9, <1>10, <1>11 DEF World
<1> QED  BY <1>1, <1>12 DEF BelongingsInv

\* A session ends and its objects with it.
LEMMA ExtractsWorld ==
  ASSUME BelongingsInv, NEW s \in Sessions, B!Extracts(s),
         obj' \in [Addresses -> Object \cup {None}], \A o \in LiveOf(obj') : obj'[o].id <= MaxRow,
         LiveOf(obj') = LiveOf(obj) \ Range(carrying[s])
  PROVE  World(plays', carrying', floor', obj', first_object') /\ stale' \in BOOLEAN /\ gone' = gone
<1>1. /\ plays' = [plays EXCEPT ![s] = None] /\ carrying' = [carrying EXCEPT ![s] = <<>>]
      /\ first_object' = Without(first_object, Range(carrying[s]))
      /\ stale' = (stale \/ carrying[s] # <<>>) /\ UNCHANGED <<floor, gone>>
  BY SameOperators DEF B!Extracts
<1>2. World(plays, carrying, floor, obj, first_object)  BY DEF BelongingsInv
<1>3. /\ plays' \in [Sessions -> Players \cup {None}] /\ plays'[s] = None /\ carrying'[s] = <<>>
      /\ \A t \in Sessions \ {s} : plays'[t] = plays[t] /\ carrying'[t] = carrying[t]
      /\ carrying' \in [Sessions -> Seq(Addresses)]
  BY <1>1, <1>2, EmptyList DEF World
<1>4. Range(carrying'[s]) = {}  BY <1>3, EmptyList
<1>5. \A t \in Sessions \ {s} : Range(carrying[t]) \cap Range(carrying[s]) = {}  BY <1>2 DEF World
<1>6. \A t \in Sessions : Range(carrying'[t]) \subseteq LiveOf(obj') \ floor'
  BY <1>1, <1>2, <1>3, <1>4, <1>5 DEF World
<1>7. \A t, u \in Sessions : t # u => Range(carrying'[t]) \cap Range(carrying'[u]) = {}
  <2> SUFFICES ASSUME NEW t \in Sessions, NEW u \in Sessions, t # u
               PROVE  Range(carrying'[t]) \cap Range(carrying'[u]) = {}
    OBVIOUS
  <2>1. Range(carrying[t]) \cap Range(carrying[u]) = {}  BY <1>2 DEF World
  <2> QED  BY <1>3, <1>4, <2>1
<1>8. floor' \subseteq LiveOf(obj')  BY <1>1, <1>2 DEF World
<1>9. /\ first_object' \in Seq(Addresses) /\ Range(first_object') = LiveOf(obj')
      /\ Distinct(first_object')
  BY <1>1, <1>2, WithoutFacts, WithoutDistinct DEF World
<1>10. \A t \in Sessions : plays'[t] = None => carrying'[t] = <<>>  BY <1>2, <1>3 DEF World
<1>11. World(plays', carrying', floor', obj', first_object')
  BY <1>3, <1>6, <1>7, <1>8, <1>9, <1>10 DEF World
<1> QED  BY <1>1, <1>11 DEF BelongingsInv

LEMMA QuitInv == ASSUME BelongingsInv, NEW s \in Sessions, B!quit(s) PROVE BelongingsInv'
<1>1. World(plays, carrying, floor, obj, first_object)  BY DEF BelongingsInv
<1>2. /\ B!Extracts(s) /\ object' = object
      /\ obj' = [o \in Addresses |-> IF o \in Range(carrying[s]) THEN None ELSE obj[o]]
  <2>1. carrying[s] \in Seq(Addresses)  BY <1>1 DEF World
  <2> QED  BY <2>1, ContainsFacts DEF B!quit, Addresses
<1>3. /\ obj' \in [Addresses -> Object \cup {None}]
      /\ LiveOf(obj') = LiveOf(obj) \ Range(carrying[s])
      /\ \A o \in LiveOf(obj') : obj'[o].id <= MaxRow
  BY <1>1, <1>2 DEF World, LiveOf
<1> QED  BY <1>2, <1>3, ExtractsWorld DEF BelongingsInv

\* The object editor's delete.
LEMMA DeleteObjectInv == ASSUME BelongingsInv, B!edit_delete PROVE BelongingsInv'
<1>1. PICK o \in LiveOf(obj) :
        /\ object' = [i \in DOMAIN object |-> IF i = obj[o].id THEN "deleted" ELSE object[i]]
        /\ obj' = [obj EXCEPT ![o] = None]
        /\ floor' = floor \ {o}
        /\ carrying' = [s \in Sessions |-> Without(carrying[s], {o})]
        /\ first_object' = Without(first_object, {o})
        /\ stale' = TRUE /\ UNCHANGED <<plays, gone>>
  BY LiveFacts, SameOperators DEF B!edit_delete
<1>2. World(plays, carrying, floor, obj, first_object)  BY DEF BelongingsInv
<1>3. Table(object')
  <2>1. object \in Seq(Owners) /\ Len(object) \in 1 .. MaxRow  BY DEF BelongingsInv, Table
  <2>2. object' \in [1 .. Len(object) -> Owners]
    <3>1. "deleted" \in Owners  BY DEF Owners
    <3> QED  BY <1>1, <2>1, <3>1, SeqFacts
  <2>3. Len(object) \in Nat  BY <2>1, SeqFacts
  <2>4. object' \in Seq(Owners) /\ Len(object') = Len(object)  BY <2>2, <2>3
  <2> QED  BY <2>1, <2>4 DEF Table
<1>4. /\ obj' \in [Addresses -> Object \cup {None}] /\ LiveOf(obj') = LiveOf(obj) \ {o}
      /\ \A q \in LiveOf(obj') : obj'[q].id <= MaxRow
  BY <1>1, <1>2 DEF World, LiveOf
<1>5. \A s \in Sessions : carrying'[s] \in Seq(Addresses) /\ Range(carrying'[s]) = Range(carrying[s]) \ {o}
  <2> SUFFICES ASSUME NEW s \in Sessions
               PROVE  carrying'[s] \in Seq(Addresses) /\ Range(carrying'[s]) = Range(carrying[s]) \ {o}
    OBVIOUS
  <2>1. carrying[s] \in Seq(Addresses) /\ carrying'[s] = Without(carrying[s], {o})
    BY <1>1, <1>2 DEF World
  <2> QED  BY <2>1, WithoutFacts
<1>6. \A s \in Sessions : carrying[s] = <<>> => carrying'[s] = <<>>
  <2> SUFFICES ASSUME NEW s \in Sessions, carrying[s] = <<>> PROVE carrying'[s] = <<>>
    OBVIOUS
  <2> DEFINE c == carrying'[s]
  <2>1. c \in Seq(Addresses) /\ Range(c) = {}  BY <1>5, EmptyList
  <2> HIDE DEF c
  <2>2. c = <<>>  BY <2>1, NothingListed
  <2> QED  BY <2>2 DEF c
<1>7. carrying' \in [Sessions -> Seq(Addresses)]  BY <1>1, <1>5
<1>8. /\ first_object' \in Seq(Addresses) /\ Range(first_object') = LiveOf(obj')
      /\ Distinct(first_object')
  <2>1. /\ first_object \in Seq(Addresses) /\ Range(first_object) = LiveOf(obj)
        /\ Distinct(first_object)
    BY <1>2 DEF World
  <2> DEFINE less == Without(first_object, {o})
  <2>2. less \in Seq(Addresses) /\ Range(less) = Range(first_object) \ {o}  BY <2>1, WithoutFacts
  <2>3. Distinct(less)  BY <2>1, WithoutDistinct
  <2> HIDE DEF less
  <2>4. first_object' = less  BY <1>1 DEF less
  <2> QED  BY <1>4, <2>1, <2>2, <2>3, <2>4
<1>9. \A s \in Sessions : Range(carrying'[s]) \subseteq LiveOf(obj') \ floor'
  BY <1>1, <1>2, <1>4, <1>5 DEF World
<1>10. \A t, u \in Sessions : t # u => Range(carrying'[t]) \cap Range(carrying'[u]) = {}
  <2> SUFFICES ASSUME NEW t \in Sessions, NEW u \in Sessions, t # u
               PROVE  Range(carrying'[t]) \cap Range(carrying'[u]) = {}
    OBVIOUS
  <2>1. Range(carrying[t]) \cap Range(carrying[u]) = {}  BY <1>2 DEF World
  <2> QED  BY <1>5, <2>1
<1>11. World(plays', carrying', floor', obj', first_object')
  BY <1>1, <1>2, <1>4, <1>6, <1>7, <1>8, <1>9, <1>10 DEF World
<1> QED  BY <1>1, <1>3, <1>11 DEF BelongingsInv

-----------------------------------------------------------------------------
(* Belongings: saving an object by itself.                                 *)

LEMMA CarriedByFacts ==
  ASSUME BelongingsInv, NEW o \in LiveOf(obj)
  PROVE  B!CarriedBy(o) \in Owners
<1> DEFINE Has(s) == B!Contains(carrying[s], o)
           s == CHOOSE s \in Sessions : Has(s)
<1>1. B!CarriedBy(o) = IF \E t \in Sessions : Has(t) THEN plays[s] ELSE "nobody"
  BY DEF B!CarriedBy
<1>2. CASE \E t \in Sessions : Has(t)
  <2>1. s \in Sessions /\ Has(s)
    <3> HIDE DEF Has
    <3> QED  BY <1>2
  <2> HIDE DEF s
  <2>2. plays[s] # None
    <3>1. carrying[s] # <<>>
      <4>1. carrying[s] \in Seq(Addresses)  BY <2>1 DEF BelongingsInv, World
      <4> QED  BY <2>1, <4>1, ContainsFacts, EmptyList
    <3> QED  BY <2>1, <3>1 DEF BelongingsInv, World
  <2>3. plays[s] \in Owners  BY <2>1, <2>2 DEF BelongingsInv, World, Owners
  <2> HIDE DEF Has
  <2> QED  BY <1>1, <1>2, <2>3
<1>3. CASE ~ \E t \in Sessions : Has(t)  BY <1>1, <1>3 DEF Owners
<1> QED  BY <1>2, <1>3

LEMMA UpdatedFacts ==
  ASSUME BelongingsInv, NEW table, Table(table), NEW o \in LiveOf(obj)
  PROVE  Table(B!Updated(table, o))
<1> DEFINE i == obj[o].id
           w == B!CarriedBy(o)
<1>1. B!Updated(table, o) = table \/ B!Updated(table, o) = [table EXCEPT ![i] = w]
  BY DEF B!Updated
<1>2. w \in Owners  BY CarriedByFacts
<1> HIDE DEF w, i
<1>3. table \in Seq(Owners) /\ Len(table) \in 1 .. MaxRow /\ Len(table) \in Nat  BY SeqFacts DEF Table
<1> DEFINE n == Len(table)
           t == [table EXCEPT ![i] = w]
<1>4. t \in Seq(Owners) /\ Len(t) = n
  <2>1. n \in Nat /\ DOMAIN table = 1 .. n /\ \A k \in 1 .. n : table[k] \in Owners
    BY <1>3, SeqFacts
  <2>2. DOMAIN t = 1 .. n /\ t = [k \in 1 .. n |-> t[k]] /\ \A k \in 1 .. n : t[k] \in Owners
    <3> HIDE DEF n
    <3> QED  BY <1>2, <2>1
  <2> HIDE DEF t, n
  <2>3. t \in [1 .. n -> Owners]  BY <2>2
  <2> QED  BY <2>1, <2>2, <2>3
<1> QED  BY <1>1, <1>3, <1>4 DEF Table

LEMMA EditSaveInv == ASSUME BelongingsInv, B!edit_save PROVE BelongingsInv'
<1>1. PICK o \in LiveOf(obj) : object' = B!Updated(object, o)  BY LiveFacts DEF B!edit_save
<1>2. Table(object')  BY <1>1, UpdatedFacts DEF BelongingsInv
<1> QED  BY <1>2 DEF B!edit_save, B!world, BelongingsInv

\* The builder's save of an area saves one object after the other.
LEMMA SaveObjectsInv == ASSUME BelongingsInv, B!save_area PROVE BelongingsInv'
<1> DEFINE n == Len(first_object)
           T == {t \in Seq(Owners) : Len(t) \in 1 .. MaxRow}
           step == [p \in T \X (1 .. n) |-> B!Updated(p[1], first_object[p[2]])]
           Is(f) == f = [i \in 0 .. n |-> IF i = 0 THEN object ELSE B!Updated(f[i - 1], first_object[i])]
<1>0. \A t : t \in T <=> Table(t)  BY DEF Table
<1>1. n \in Nat /\ object \in T /\ \A i \in 1 .. n : first_object[i] \in LiveOf(obj)
  <2>1. first_object \in Seq(Addresses) /\ Range(first_object) = LiveOf(obj)
    BY DEF BelongingsInv, World
  <2>2. object \in T  BY <1>0 DEF BelongingsInv
  <2> QED  BY <2>1, <2>2, SeqFacts DEF Range
<1>2. step \in [T \X (1 .. n) -> T]
  <2>1. ASSUME NEW p \in T \X (1 .. n) PROVE B!Updated(p[1], first_object[p[2]]) \in T
    <3>1. Table(p[1]) /\ first_object[p[2]] \in LiveOf(obj)  BY <1>0, <1>1
    <3>2. Table(B!Updated(p[1], first_object[p[2]]))  BY <3>1, UpdatedFacts
    <3> HIDE DEF T
    <3> QED  BY <1>0, <3>2
  <2> HIDE DEF T, n
  <2> QED  BY <2>1
<1> HIDE DEF T
<1>3. PICK f : f \in [0 .. n -> T] /\ f[0] = object /\ \A i \in 1 .. n : f[i] = step[<<f[i - 1], i>>]
  <2> HIDE DEF n, step, Is
  <2>1. \E f : Steps(f, n, T, object, step)  BY <1>1, <1>2, StepsExist
  <2> QED  BY <2>1 DEF Steps
<1>4. \A i \in 1 .. n : i - 1 \in 0 .. n /\ f[i] = B!Updated(f[i - 1], first_object[i])
  <2> SUFFICES ASSUME NEW i \in 1 .. n
               PROVE  i - 1 \in 0 .. n /\ f[i] = B!Updated(f[i - 1], first_object[i])
    OBVIOUS
  <2>1. i - 1 \in 0 .. n  BY <1>1
  <2>2. <<f[i - 1], i>> \in T \X (1 .. n)  BY <1>3, <2>1
  <2>3. step[<<f[i - 1], i>>] = B!Updated(f[i - 1], first_object[i])
    <3> HIDE DEF n
    <3> QED  BY <2>2
  <2> QED  BY <1>3, <2>1, <2>3
<1>5. Is(f)
  <2>1. \A i \in 0 .. n : i # 0 => i \in 1 .. n  BY <1>1
  <2>2. \A i \in 0 .. n : f[i] = IF i = 0 THEN object ELSE B!Updated(f[i - 1], first_object[i])
    <3> HIDE DEF n
    <3> QED  BY <1>3, <1>4, <2>1
  <2> HIDE DEF n
  <2> QED  BY <1>3, <2>2
<1> DEFINE g == B!Updates
<1>6. Is(g)
  <2>1. g = CHOOSE h : Is(h)  BY DEF B!Updates
  <2> HIDE DEF Is
  <2> QED  BY <1>5, <2>1
<1> HIDE DEF g
<1>7. g[n] \in T
  <2> DEFINE G == {i \in 0 .. n : g[i] \in T}
  <2>1. 0 \in G  BY <1>1, <1>6
  <2>2. ASSUME NEW i \in 1 .. n, i - 1 \in G PROVE i \in G
    <3>1. g[i] = B!Updated(g[i - 1], first_object[i]) /\ i \in 0 .. n
      <4>1. i \in 0 .. n /\ i # 0  BY <1>1
      <4> HIDE DEF n
      <4> QED  BY <1>6, <4>1
    <3>2. Table(g[i - 1]) /\ first_object[i] \in LiveOf(obj)  BY <1>0, <1>1, <2>2
    <3>3. Table(g[i])  BY <3>1, <3>2, UpdatedFacts
    <3> QED  BY <1>0, <3>1, <3>3
  <2> HIDE DEF G
  <2>3. 0 .. n \subseteq G  BY <1>1, <2>1, <2>2, Upwards
  <2>4. n \in G  BY <1>1, <2>3
  <2> QED  BY <2>4 DEF G
<1>8. Table(object')
  <2>1. object' = object \/ object' = g[n]  BY DEF B!save_area, g
  <2> QED  BY <1>0, <1>7, <2>1 DEF BelongingsInv
<1>9. UNCHANGED <<plays, carrying, floor, obj, first_object, stale>> /\ gone' \in BOOLEAN
  BY DEF B!save_area, B!world, BelongingsInv
<1> QED  BY <1>8, <1>9 DEF BelongingsInv

-----------------------------------------------------------------------------
(* Belongings: what saving stores.                                         *)

\* A store is the table and the rows of the objects in L.
Stored(st, L) ==
  /\ st \in [object : Seq(Owners), id : [L -> Nat]] /\ Len(st.object) # 0
  /\ \A o \in L : st.id[o] <= MaxRow \/ st.id[o] <= Len(st.object)

\* The row of o is there and says that p carries it.
Has(st, o, p) == st.id[o] \in DOMAIN st.object /\ st.object[st.id[o]] = p

\* What saving may do to the rows that were there: those of a player of P go.
Clears(t, u, P) ==
  /\ Len(t) <= Len(u)
  /\ \A i \in DOMAIN t : u[i] = t[i] \/ (u[i] = "deleted" /\ t[i] \in P)

LEMMA StoreFacts ==
  ASSUME BelongingsInv
  PROVE  Stored(B!Store, LiveOf(obj)) /\ B!Store.object = object
<1> DEFINE id == [o \in LiveOf(obj) |-> obj[o].id]
<1>1. B!Store = [object |-> object, id |-> id]  BY LiveFacts DEF B!Store
<1>2. \A o \in LiveOf(obj) : obj[o] \in Object /\ obj[o].id <= MaxRow
  BY DEF BelongingsInv, World, LiveOf
<1>3. id \in [LiveOf(obj) -> Nat] /\ \A o \in LiveOf(obj) : id[o] <= MaxRow  BY <1>2 DEF Object
<1>4. object \in Seq(Owners) /\ Len(object) # 0
  <2>1. object \in Seq(Owners) /\ Len(object) \in 1 .. MaxRow  BY DEF BelongingsInv, Table
  <2> QED  BY <2>1
<1> HIDE DEF id
<1> QED  BY <1>1, <1>3, <1>4 DEF Stored

LEMMA ClearsSame == ASSUME NEW E, NEW t \in Seq(E), NEW P PROVE Clears(t, t, P)
<1>1. Len(t) <= Len(t)  BY SeqFacts
<1> QED  BY <1>1 DEF Clears

LEMMA ClearsAll ==
  ASSUME NEW t \in Seq(Owners), NEW u \in Seq(Owners), NEW v \in Seq(Owners),
         NEW P \in SUBSET Players, NEW Q \in SUBSET P, Clears(t, u, P), Clears(u, v, Q)
  PROVE  Clears(t, v, P)
<1>1. Len(t) \in Nat /\ Len(u) \in Nat /\ Len(v) \in Nat /\ DOMAIN t = 1 .. Len(t) /\ DOMAIN u = 1 .. Len(u)
  BY SeqFacts
<1>2. Len(t) <= Len(v) /\ DOMAIN t \subseteq DOMAIN u  BY <1>1 DEF Clears
<1>3. "deleted" \notin Players  BY RecordsAssumption
<1>4. \A i \in DOMAIN t : v[i] = t[i] \/ (v[i] = "deleted" /\ t[i] \in P)
  <2> SUFFICES ASSUME NEW i \in DOMAIN t PROVE v[i] = t[i] \/ (v[i] = "deleted" /\ t[i] \in P)
    OBVIOUS
  <2>1. i \in DOMAIN u  BY <1>2
  <2>2. u[i] = t[i] \/ (u[i] = "deleted" /\ t[i] \in P)  BY DEF Clears
  <2>3. v[i] = u[i] \/ (v[i] = "deleted" /\ u[i] \in Q)  BY <2>1 DEF Clears
  <2> QED  BY <1>3, <2>2, <2>3
<1> QED  BY <1>2, <1>4 DEF Clears

\* An object that p carries is updated or inserted: its row says so from then on,
\* and no other row changes.
LEMMA SavedObjectFacts ==
  ASSUME NEW L, NEW st, Stored(st, L), NEW p \in Players, NEW o \in L
  PROVE  LET u == B!SavedObject(st, p, o)
         IN /\ Stored(u, L) /\ Has(u, o, p) /\ Clears(st.object, u.object, {})
            /\ \A q \in L : Has(st, q, p) => Has(u, q, p)
<1> DEFINE u == B!SavedObject(st, p, o)
           n == Len(st.object)
<1>1. /\ st \in [object : Seq(Owners), id : [L -> Nat]] /\ n # 0
      /\ \A q \in L : st.id[q] <= MaxRow \/ st.id[q] <= n
      /\ st.object \in Seq(Owners) /\ st.id \in [L -> Nat]
  BY DEF Stored
<1>2. n \in Nat /\ DOMAIN st.object = 1 .. n /\ \A i \in 1 .. n : st.object[i] \in Owners
  BY <1>1, SeqFacts
<1>3. CASE B!HasRow(st, p, o)
  <2>1. st.id[o] \in DOMAIN st.object /\ st.object[st.id[o]] = p  BY <1>3 DEF B!HasRow, B!Rows
  <2>2. u = [st EXCEPT !.object[st.id[o]] = p]  BY <1>3 DEF B!SavedObject
  <2>3. u = st
    <3> DEFINE i == st.id[o]
               t == [st.object EXCEPT ![i] = p]
    <3>1. t = st.object
      <4>1. st.object = [k \in DOMAIN st.object |-> st.object[k]]  BY <1>1
      <4> HIDE DEF i, n
      <4> QED  BY <2>1, <4>1 DEF i
    <3>2. u = [st EXCEPT !.object = t]  BY <2>2
    <3> HIDE DEF t, u
    <3> QED  BY <1>1, <3>1, <3>2
  <2>4. Clears(st.object, st.object, {})  BY <1>1, ClearsSame
  <2> HIDE DEF u
  <2> QED  BY <2>1, <2>3, <2>4 DEF Has, u
<1>4. CASE ~ B!HasRow(st, p, o)
  <2> DEFINE t == Append(st.object, p)
             id == [st.id EXCEPT ![o] = n + 1]
  <2>1. u = [object |-> t, id |-> id]  BY <1>4 DEF B!SavedObject
  <2>2. p \in Owners  BY DEF Owners
  <2>3. /\ t \in Seq(Owners) /\ Len(t) = n + 1 /\ DOMAIN t = 1 .. n + 1 /\ t[n + 1] = p
        /\ \A i \in 1 .. n : t[i] = st.object[i]
    BY <1>1, <1>2, <2>2
  <2> HIDE DEF t, n
  <2>4. id \in [L -> Nat] /\ id[o] = n + 1 /\ \A q \in L \ {o} : id[q] = st.id[q]
    <3>1. n + 1 \in Nat  BY <1>2
    <3> QED  BY <1>1, <3>1
  <2> HIDE DEF id
  <2>5. u.object = t /\ u.id = id  BY <2>1
  <2>6. Stored(u, L)
    <3>1. \A q \in L : id[q] <= MaxRow \/ id[q] <= n + 1
      <4> SUFFICES ASSUME NEW q \in L PROVE id[q] <= MaxRow \/ id[q] <= n + 1  OBVIOUS
      <4>1. CASE q = o  BY <1>2, <2>4, <4>1
      <4>2. CASE q # o
        <5>1. st.id[q] \in Nat /\ id[q] = st.id[q]  BY <1>1, <2>4, <4>2
        <5> QED  BY <1>1, <1>2, <5>1
      <4> QED  BY <4>1, <4>2
    <3>2. Len(t) # 0  BY <1>2, <2>3
    <3> QED  BY <2>1, <2>3, <2>4, <2>5, <3>1, <3>2 DEF Stored
  <2>7. Has(u, o, p)
    <3>1. n + 1 \in 1 .. n + 1  BY <1>2
    <3> QED  BY <2>3, <2>4, <2>5, <3>1 DEF Has
  <2>8. Clears(st.object, u.object, {})
    <3>1. n <= n + 1  BY <1>2
    <3>2. \A i \in DOMAIN st.object : t[i] = st.object[i]  BY <1>2, <2>3
    <3> QED  BY <2>3, <2>5, <3>1, <3>2 DEF Clears, n
  <2>9. \A q \in L : Has(st, q, p) => Has(u, q, p)
    <3> SUFFICES ASSUME NEW q \in L, Has(st, q, p) PROVE Has(u, q, p)  OBVIOUS
    <3>1. CASE q = o  BY <2>7, <3>1
    <3>2. CASE q # o
      <4>1. id[q] = st.id[q] /\ st.id[q] \in 1 .. n /\ st.object[st.id[q]] = p
        BY <1>2, <2>4, <3>2 DEF Has
      <4>2. id[q] \in 1 .. n + 1  BY <1>2, <4>1
      <4> QED  BY <2>3, <2>5, <4>1, <4>2 DEF Has
    <3> QED  BY <3>1, <3>2
  <2> QED  BY <2>6, <2>7, <2>8, <2>9
<1> QED  BY <1>3, <1>4

\* The stores while the objects of a session are saved.
LEMMA SavedObjectsFacts ==
  ASSUME BelongingsInv, NEW s \in Sessions, plays[s] # None, NEW st, Stored(st, LiveOf(obj))
  PROVE  /\ B!SavedObjects(st, s)[0] = st
         /\ \A i \in 1 .. Len(carrying[s]) :
              B!SavedObjects(st, s)[i] =
                B!SavedObject(B!SavedObjects(st, s)[i - 1], plays[s], carrying[s][i])
<1> DEFINE c == carrying[s]
           n == Len(c)
           p == plays[s]
           L == LiveOf(obj)
           T == {t \in [object : Seq(Owners), id : [L -> Nat]] : Stored(t, L)}
           step == [w \in T \X (1 .. n) |-> B!SavedObject(w[1], p, c[w[2]])]
           Is(f) == f = [i \in 0 .. n |-> IF i = 0 THEN st ELSE B!SavedObject(f[i - 1], p, c[i])]
<1>0. \A t : t \in T <=> Stored(t, L)  BY DEF Stored
<1>1. n \in Nat /\ st \in T /\ p \in Players /\ \A i \in 1 .. n : c[i] \in L
  <2>1. c \in Seq(Addresses) /\ Range(c) \subseteq L  BY DEF BelongingsInv, World
  <2>2. p \in Players  BY DEF BelongingsInv, World
  <2>3. n \in Nat /\ DOMAIN c = 1 .. n  BY <2>1, SeqFacts
  <2> QED  BY <1>0, <2>1, <2>2, <2>3 DEF Range
<1> HIDE DEF T, L, p, c
<1>2. step \in [T \X (1 .. n) -> T]
  <2>1. ASSUME NEW w \in T \X (1 .. n) PROVE B!SavedObject(w[1], p, c[w[2]]) \in T
    <3>1. Stored(w[1], L) /\ c[w[2]] \in L  BY <1>0, <1>1
    <3>2. Stored(B!SavedObject(w[1], p, c[w[2]]), L)  BY <1>1, <3>1, SavedObjectFacts
    <3> QED  BY <1>0, <3>2
  <2> HIDE DEF n
  <2> QED  BY <2>1
<1>3. PICK f : f \in [0 .. n -> T] /\ f[0] = st /\ \A i \in 1 .. n : f[i] = step[<<f[i - 1], i>>]
  <2> HIDE DEF n, step, Is
  <2>1. \E f : Steps(f, n, T, st, step)  BY <1>1, <1>2, StepsExist
  <2> QED  BY <2>1 DEF Steps
<1>4. \A i \in 1 .. n : i - 1 \in 0 .. n /\ f[i] = B!SavedObject(f[i - 1], p, c[i])
  <2> SUFFICES ASSUME NEW i \in 1 .. n
               PROVE  i - 1 \in 0 .. n /\ f[i] = B!SavedObject(f[i - 1], p, c[i])
    OBVIOUS
  <2>1. i - 1 \in 0 .. n  BY <1>1
  <2>2. <<f[i - 1], i>> \in T \X (1 .. n)  BY <1>3, <2>1
  <2>3. step[<<f[i - 1], i>>] = B!SavedObject(f[i - 1], p, c[i])
    <3> HIDE DEF n
    <3> QED  BY <2>2
  <2> QED  BY <1>3, <2>1, <2>3
<1>5. Is(f)
  <2>1. \A i \in 0 .. n : i # 0 => i \in 1 .. n  BY <1>1
  <2>2. \A i \in 0 .. n : f[i] = IF i = 0 THEN st ELSE B!SavedObject(f[i - 1], p, c[i])
    <3> HIDE DEF n
    <3> QED  BY <1>3, <1>4, <2>1
  <2> HIDE DEF n
  <2> QED  BY <1>3, <2>2
<1> DEFINE g == B!SavedObjects(st, s)
<1>6. Is(g)
  <2>1. g = CHOOSE h : Is(h)  BY DEF B!SavedObjects, c, p
  <2> HIDE DEF Is
  <2> QED  BY <1>5, <2>1
<1> HIDE DEF g
<1>7. g[0] = st /\ \A i \in 1 .. n : g[i] = B!SavedObject(g[i - 1], p, c[i])
  <2>1. 0 \in 0 .. n /\ \A i \in 1 .. n : i \in 0 .. n /\ i # 0  BY <1>1
  <2> HIDE DEF n
  <2>2. \A i \in 0 .. n : g[i] = IF i = 0 THEN st ELSE B!SavedObject(g[i - 1], p, c[i])
    BY <1>6
  <2> QED  BY <2>1, <2>2
<1> QED  BY <1>7 DEF g, p, c

\* Everything that is carried is in the table once all of it was saved.
LEMMA AllCarriedSaved ==
  ASSUME BelongingsInv, NEW s \in Sessions, plays[s] # None, NEW st, Stored(st, LiveOf(obj))
  PROVE  LET after == B!SavedObjects(st, s)[Len(carrying[s])]
         IN /\ Stored(after, LiveOf(obj)) /\ Clears(st.object, after.object, {})
            /\ \A o \in Range(carrying[s]) : Has(after, o, plays[s])
<1> DEFINE c == carrying[s]
           n == Len(c)
           p == plays[s]
           L == LiveOf(obj)
           g == B!SavedObjects(st, s)
           Good(i) == /\ Stored(g[i], L) /\ Clears(st.object, g[i].object, {})
                      /\ \A j \in 1 .. i : Has(g[i], c[j], p)
           G == {i \in 0 .. n : Good(i)}
<1>1. g[0] = st /\ \A i \in 1 .. n : g[i] = B!SavedObject(g[i - 1], p, c[i])
  BY SavedObjectsFacts
<1>2. n \in Nat /\ DOMAIN c = 1 .. n /\ p \in Players /\ \A i \in 1 .. n : c[i] \in L
  <2>1. c \in Seq(Addresses) /\ Range(c) \subseteq L /\ p \in Players
    BY DEF BelongingsInv, World
  <2>2. n \in Nat /\ DOMAIN c = 1 .. n  BY <2>1, SeqFacts
  <2> QED  BY <2>1, <2>2 DEF Range
<1> HIDE DEF L, g, p, c, n
<1>3. \A t : Stored(t, L) => t.object \in Seq(Owners)  BY DEF Stored
<1>4. 0 \in G
  <2>1. Stored(st, L)  BY DEF L
  <2>2. Clears(st.object, st.object, {})  BY <1>3, <2>1, ClearsSame
  <2> QED  BY <1>1, <1>2, <2>1, <2>2
<1>5. ASSUME NEW i \in 1 .. n, i - 1 \in G PROVE i \in G
  <2> DEFINE v == g[i - 1]
             u == g[i]
  <2>1. /\ Stored(v, L) /\ Clears(st.object, v.object, {}) /\ \A j \in 1 .. i - 1 : Has(v, c[j], p)
        /\ c[i] \in L /\ u = B!SavedObject(v, p, c[i])
    BY <1>1, <1>2, <1>5
  <2> HIDE DEF v, u
  <2>2. /\ Stored(u, L) /\ Has(u, c[i], p) /\ Clears(v.object, u.object, {})
        /\ \A q \in L : Has(v, q, p) => Has(u, q, p)
    BY <1>2, <2>1, SavedObjectFacts
  <2>3. Clears(st.object, u.object, {})
    <3>1. st.object \in Seq(Owners) /\ u.object \in Seq(Owners) /\ v.object \in Seq(Owners)
      BY <1>3, <2>1, <2>2 DEF L
    <3> QED  BY <2>1, <2>2, <3>1, ClearsAll
  <2>4. \A j \in 1 .. i : Has(u, c[j], p)
    <3>1. \A j \in 1 .. i : j = i \/ j \in 1 .. i - 1  BY <1>2
    <3>2. \A j \in 1 .. i - 1 : c[j] \in L
      <4>1. \A j \in 1 .. i - 1 : j \in 1 .. n  BY <1>2
      <4> QED  BY <1>2, <4>1
    <3> QED  BY <2>1, <2>2, <3>1, <3>2
  <2>5. i \in 0 .. n  BY <1>2
  <2> QED  BY <2>2, <2>3, <2>4, <2>5 DEF u
<1> HIDE DEF G
<1>6. 0 .. n \subseteq G  BY <1>2, <1>4, <1>5, Upwards
<1>7. Good(n)  BY <1>2, <1>6 DEF G
<1>8. \A o \in Range(c) : Has(g[n], o, p)  BY <1>2, <1>7 DEF Range
<1> QED  BY <1>7, <1>8 DEF g, n, p, c, L

\* save_char_objs takes rows of the own character and no other.  What it carries
\* and finds on its way keeps its row.
LEMMA SavedFacts ==
  ASSUME BelongingsInv, NEW s \in Sessions, NEW st, Stored(st, LiveOf(obj))
  PROVE  LET u == B!Saved(st, s)
         IN /\ Stored(u, LiveOf(obj))
            /\ Clears(st.object, u.object, {plays[t] : t \in Sessions} \ {None})
            /\ plays[s] # None => \A o \in Range(carrying[s]) : o \in B!Walk(s) => Has(u, o, plays[s])
<1> DEFINE L == LiveOf(obj)
           p == plays[s]
           P == {plays[t] : t \in Sessions} \ {None}
           u == B!Saved(st, s)
           after == B!SavedObjects(st, s)[Len(carrying[s])]
           found == {after.id[o] : o \in B!Walk(s)}
           t == [i \in DOMAIN after.object |->
                   IF after.object[i] = p /\ i \notin found THEN "deleted" ELSE after.object[i]]
<1>1. Stored(st, L) /\ st.object \in Seq(Owners)  BY DEF Stored
<1>2. CASE p = None
  <2>1. u = st  BY <1>2 DEF B!Saved
  <2> QED  BY <1>1, <1>2, <2>1, ClearsSame
<1>3. CASE p # None
  <2>1. u = [after EXCEPT !.object = t]  BY <1>3 DEF B!Saved
  <2>2. /\ Stored(after, L) /\ Clears(st.object, after.object, {})
        /\ \A o \in Range(carrying[s]) : Has(after, o, p)
    BY <1>3, AllCarriedSaved
  <2> HIDE DEF after
  <2>3. /\ after \in [object : Seq(Owners), id : [L -> Nat]] /\ after.object \in Seq(Owners)
        /\ Len(after.object) # 0
        /\ \A o \in L : after.id[o] <= MaxRow \/ after.id[o] <= Len(after.object)
    BY <2>2 DEF Stored
  <2> DEFINE n == Len(after.object)
  <2>4. n \in Nat /\ DOMAIN after.object = 1 .. n /\ \A i \in 1 .. n : after.object[i] \in Owners
    BY <2>3, SeqFacts
  <2>5. /\ DOMAIN t = 1 .. n
        /\ \A i \in 1 .. n : t[i] = after.object[i] \/ (t[i] = "deleted" /\ after.object[i] = p)
        /\ \A i \in 1 .. n : i \in found => t[i] = after.object[i]
    BY <2>4
  <2>6. t \in Seq(Owners) /\ Len(t) = n
    <3>1. t = [i \in 1 .. n |-> t[i]] /\ \A i \in 1 .. n : t[i] \in Owners
      <4>1. t = [i \in 1 .. n |-> t[i]]  BY <2>4
      <4> HIDE DEF t, n
      <4> QED  BY <2>4, <2>5, <4>1 DEF Owners
    <3> HIDE DEF t, n
    <3>2. t \in [1 .. n -> Owners]  BY <3>1
    <3> QED  BY <2>4, <3>2
  <2> HIDE DEF t
  <2>7. u \in [object : Seq(Owners), id : [L -> Nat]] /\ u.object = t /\ u.id = after.id
    BY <2>1, <2>3, <2>6
  <2> HIDE DEF u
  <2>8. Stored(u, L)  BY <2>3, <2>6, <2>7 DEF Stored
  <2>9. p \in P /\ P \subseteq Players  BY <1>3 DEF BelongingsInv, World
  <2>10. Clears(after.object, t, P)
    <3>1. n <= n  BY <2>4
    <3> QED  BY <2>4, <2>5, <2>6, <2>9, <3>1 DEF Clears
  <2>11. Clears(st.object, t, P)
    <3> HIDE DEF P
    <3>1. Clears(st.object, after.object, P)  BY <2>2 DEF Clears
    <3> QED  BY <1>1, <2>3, <2>6, <2>9, <2>10, <3>1, ClearsAll
  <2>12. \A o \in Range(carrying[s]) : o \in B!Walk(s) => Has(u, o, p)
    <3> SUFFICES ASSUME NEW o \in Range(carrying[s]), o \in B!Walk(s) PROVE Has(u, o, p)
      OBVIOUS
    <3>1. Has(after, o, p)  BY <2>2
    <3>2. after.id[o] \in 1 .. n /\ after.object[after.id[o]] = p /\ after.id[o] \in found
      BY <2>4, <3>1 DEF Has
    <3> HIDE DEF found, n
    <3> QED  BY <2>5, <2>7, <3>2 DEF Has
  <2> QED  BY <2>7, <2>8, <2>11, <2>12 DEF u
<1> QED  BY <1>2, <1>3

-----------------------------------------------------------------------------
(* Belongings: the ways to save.                                           *)

\* Objects with the rows of a store.
LEMMA RowsStored ==
  ASSUME BelongingsInv, NEW st, Stored(st, LiveOf(obj)), Len(st.object) <= MaxRow, NEW D \in SUBSET LiveOf(obj),
         obj' = [o \in Addresses |-> IF o \in D THEN [obj[o] EXCEPT !.id = st.id[o]] ELSE None]
  PROVE  /\ obj' \in [Addresses -> Object \cup {None}] /\ LiveOf(obj') = D
         /\ \A o \in D : obj'[o].id = st.id[o] /\ obj'[o].id <= MaxRow
<1>1. ASSUME NEW o \in D
      PROVE  obj'[o] \in Object /\ obj'[o].id = st.id[o] /\ obj'[o].id <= MaxRow /\ o \in Addresses
  <2>1. o \in LiveOf(obj) /\ o \in Addresses /\ obj[o] \in Object  BY DEF BelongingsInv, World, LiveOf
  <2>2. st.id[o] \in Nat /\ st.id[o] <= MaxRow
    <3>1. st.id[o] \in Nat /\ (st.id[o] <= MaxRow \/ st.id[o] <= Len(st.object)) /\ Len(st.object) \in Nat
      <4>1. st.object \in Seq(Owners)  BY DEF Stored
      <4>2. Len(st.object) \in Nat  BY <4>1, SeqFacts
      <4> QED  BY <2>1, <4>2 DEF Stored
    <3> QED  BY <3>1, AddressesFacts
  <2> DEFINE i == st.id[o]
             x == obj[o]
  <2>3. obj'[o] = [x EXCEPT !.id = i]  BY <2>1
  <2>4. i \in Nat /\ x \in Object  BY <2>1, <2>2
  <2> HIDE DEF i, x
  <2>5. obj'[o] \in Object /\ obj'[o].id = i  BY <2>3, <2>4 DEF Object
  <2> QED  BY <2>1, <2>2, <2>5 DEF i
<1>2. \A o \in Addresses \ D : obj'[o] = None  OBVIOUS
<1>3. obj' = [o \in Addresses |-> obj'[o]]  OBVIOUS
<1>4. obj' \in [Addresses -> Object \cup {None}]  BY <1>1, <1>2, <1>3
<1>5. None \notin Object  BY RecordsAssumption DEF Object
<1>6. LiveOf(obj') = D  BY <1>1, <1>2, <1>5 DEF LiveOf
<1> QED  BY <1>1, <1>4, <1>6

LEMMA StoredTable ==
  ASSUME NEW L, NEW st, Stored(st, L), Len(st.object) <= MaxRow
  PROVE  Table(st.object)
<1>1. st.object \in Seq(Owners) /\ Len(st.object) # 0  BY DEF Stored
<1>2. Len(st.object) \in Nat  BY <1>1, SeqFacts
<1>3. Len(st.object) \in 1 .. MaxRow  BY <1>1, <1>2, AddressesFacts
<1> QED  BY <1>1, <1>3 DEF Table

LEMMA SavePlayerInv == ASSUME BelongingsInv, NEW s \in Sessions, B!save_player(s) PROVE BelongingsInv'
<1> DEFINE st == B!Saved(B!Store, s)
<1>1. /\ Len(st.object) <= MaxRow /\ object' = st.object
      /\ obj' = [o \in Addresses |-> IF o \in LiveOf(obj) THEN [obj[o] EXCEPT !.id = st.id[o]] ELSE None]
      /\ UNCHANGED <<plays, carrying, floor, first_object, stale, gone>>
  BY LiveFacts DEF B!save_player, B!Stores, Addresses
<1>2. Stored(st, LiveOf(obj))
  <2>1. Stored(B!Store, LiveOf(obj))  BY StoreFacts
  <2> QED  BY <2>1, SavedFacts
<1> HIDE DEF st
<1>3. /\ obj' \in [Addresses -> Object \cup {None}] /\ LiveOf(obj') = LiveOf(obj)
      /\ \A o \in LiveOf(obj') : obj'[o].id <= MaxRow
  BY <1>1, <1>2, RowsStored
<1>4. World(plays', carrying', floor', obj', first_object')
  BY <1>1, <1>3 DEF BelongingsInv, World
<1>5. Table(object')  BY <1>1, <1>2, StoredTable
<1> QED  BY <1>1, <1>4, <1>5 DEF BelongingsInv

LEMMA LinkFailsInv == ASSUME BelongingsInv, NEW s \in Sessions, B!LinkFails(s) PROVE BelongingsInv'
<1> DEFINE st == B!Saved(B!Store, s)
           D == LiveOf(obj) \ Range(carrying[s])
<1>1. /\ B!Extracts(s) /\ Len(st.object) <= MaxRow /\ object' = st.object
      /\ obj' = [o \in Addresses |-> IF o \in D THEN [obj[o] EXCEPT !.id = st.id[o]] ELSE None]
  <2>1. carrying[s] \in Seq(Addresses)  BY DEF BelongingsInv, World
  <2>2. \A o : B!Contains(carrying[s], o) <=> o \in Range(carrying[s])  BY <2>1, ContainsFacts
  <2>3. obj' = [o \in Addresses |-> IF B!Contains(carrying[s], o) \/ o \notin LiveOf(obj) THEN None
                                    ELSE [obj[o] EXCEPT !.id = st.id[o]]]
    BY LiveFacts DEF B!LinkFails, Addresses
  <2> HIDE DEF st
  <2>4. obj' = [o \in Addresses |-> IF o \in D THEN [obj[o] EXCEPT !.id = st.id[o]] ELSE None]
    BY <2>2, <2>3
  <2> QED  BY <2>4 DEF B!LinkFails, st
<1>2. Stored(st, LiveOf(obj))
  <2>1. Stored(B!Store, LiveOf(obj))  BY StoreFacts
  <2> QED  BY <2>1, SavedFacts
<1> HIDE DEF st
<1>3. /\ obj' \in [Addresses -> Object \cup {None}] /\ LiveOf(obj') = D
      /\ \A o \in LiveOf(obj') : obj'[o].id <= MaxRow
  BY <1>1, <1>2, RowsStored
<1>4. World(plays', carrying', floor', obj', first_object') /\ stale' \in BOOLEAN /\ gone' = gone
  BY <1>1, <1>3, ExtractsWorld
<1>5. Table(object')  BY <1>1, <1>2, StoredTable
<1> QED  BY <1>4, <1>5 DEF BelongingsInv

\* The sessions in the order they are saved.
LEMMA AllSessions == B!SetToSeq(Sessions) \in Seq(Sessions)
BY SetToSeqFacts, RecordsAssumption

\* Whoever plays is saved, one after the other.
LEMMA AllSavedFacts ==
  ASSUME BelongingsInv, NEW all \in Seq(Sessions)
  PROVE  LET st == B!AllSaved(all)[Len(all)]
         IN Stored(st, LiveOf(obj)) /\ Clears(object, st.object, {plays[t] : t \in Sessions} \ {None})
<1> DEFINE n == Len(all)
           P == {plays[t] : t \in Sessions} \ {None}
           L == LiveOf(obj)
           T == {t \in [object : Seq(Owners), id : [L -> Nat]] : Stored(t, L)}
           st == B!Store
           step == [w \in T \X (1 .. n) |-> B!Saved(w[1], all[w[2]])]
           Is(f) == f = [i \in 0 .. n |-> IF i = 0 THEN st ELSE B!Saved(f[i - 1], all[i])]
<1>0. \A t : t \in T <=> Stored(t, L)  BY DEF Stored
<1>1. n \in Nat /\ st \in T /\ st.object = object /\ \A i \in 1 .. n : all[i] \in Sessions
  <2>1. Stored(st, L) /\ st.object = object  BY StoreFacts
  <2>2. n \in Nat /\ \A i \in 1 .. n : all[i] \in Sessions  BY SeqFacts
  <2> HIDE DEF T, L, st
  <2> QED  BY <1>0, <2>1, <2>2
<1>2. \A t : Stored(t, L) => t.object \in Seq(Owners)  BY DEF Stored
<1>3. ASSUME NEW t \in T, NEW i \in 1 .. n
      PROVE  B!Saved(t, all[i]) \in T /\ Clears(t.object, B!Saved(t, all[i]).object, P)
  <2>1. Stored(t, LiveOf(obj)) /\ all[i] \in Sessions  BY <1>0, <1>1
  <2>2. /\ Stored(B!Saved(t, all[i]), LiveOf(obj))
        /\ Clears(t.object, B!Saved(t, all[i]).object, {plays[x] : x \in Sessions} \ {None})
    BY <2>1, SavedFacts
  <2> HIDE DEF T
  <2> QED  BY <1>0, <2>2
<1>4. P \in SUBSET Players  BY DEF BelongingsInv, World
<1> HIDE DEF T, L, st, P
<1>5. step \in [T \X (1 .. n) -> T]
  <2> HIDE DEF n
  <2> QED  BY <1>3
<1>6. PICK f : f \in [0 .. n -> T] /\ f[0] = st /\ \A i \in 1 .. n : f[i] = step[<<f[i - 1], i>>]
  <2> HIDE DEF n, step, Is
  <2>1. \E f : Steps(f, n, T, st, step)  BY <1>1, <1>5, StepsExist
  <2> QED  BY <2>1 DEF Steps
<1>7. \A i \in 1 .. n : i - 1 \in 0 .. n /\ f[i] = B!Saved(f[i - 1], all[i])
  <2> SUFFICES ASSUME NEW i \in 1 .. n
               PROVE  i - 1 \in 0 .. n /\ f[i] = B!Saved(f[i - 1], all[i])
    OBVIOUS
  <2>1. i - 1 \in 0 .. n  BY <1>1
  <2>2. <<f[i - 1], i>> \in T \X (1 .. n)  BY <1>6, <2>1
  <2>3. step[<<f[i - 1], i>>] = B!Saved(f[i - 1], all[i])
    <3> HIDE DEF n
    <3> QED  BY <2>2
  <2> QED  BY <1>6, <2>1, <2>3
<1>8. Is(f)
  <2>1. \A i \in 0 .. n : i # 0 => i \in 1 .. n  BY <1>1
  <2>2. \A i \in 0 .. n : f[i] = IF i = 0 THEN st ELSE B!Saved(f[i - 1], all[i])
    <3> HIDE DEF n
    <3> QED  BY <1>6, <1>7, <2>1
  <2> HIDE DEF n
  <2> QED  BY <1>6, <2>2
<1> DEFINE g == B!AllSaved(all)
<1>9. Is(g)
  <2>1. g = CHOOSE h : Is(h)  BY DEF B!AllSaved, st
  <2> HIDE DEF Is
  <2> QED  BY <1>8, <2>1
<1> HIDE DEF g
<1>10. g[0] = st /\ \A i \in 1 .. n : g[i] = B!Saved(g[i - 1], all[i])
  <2>1. 0 \in 0 .. n /\ \A i \in 1 .. n : i \in 0 .. n /\ i # 0  BY <1>1
  <2> HIDE DEF n
  <2>2. \A i \in 0 .. n : g[i] = IF i = 0 THEN st ELSE B!Saved(g[i - 1], all[i])
    BY <1>9
  <2> QED  BY <2>1, <2>2
<1> DEFINE Good(i) == g[i] \in T /\ Clears(object, g[i].object, P)
           G == {i \in 0 .. n : Good(i)}
<1>11. 0 \in G
  <2>1. object \in Seq(Owners)  BY DEF BelongingsInv, Table
  <2>2. Clears(object, object, P)  BY <2>1, ClearsSame
  <2> QED  BY <1>1, <1>10, <2>2
<1>12. ASSUME NEW i \in 1 .. n, i - 1 \in G PROVE i \in G
  <2> DEFINE v == g[i - 1]
             u == g[i]
  <2>1. v \in T /\ Clears(object, v.object, P) /\ u = B!Saved(v, all[i])  BY <1>10, <1>12
  <2> HIDE DEF v, u
  <2>2. u \in T /\ Clears(v.object, u.object, P)  BY <1>3, <2>1
  <2>3. Clears(object, u.object, P)
    <3>1. object \in Seq(Owners) /\ u.object \in Seq(Owners) /\ v.object \in Seq(Owners)
      BY <1>0, <1>2, <2>1, <2>2 DEF BelongingsInv, Table
    <3>2. P \in SUBSET P  OBVIOUS
    <3> QED  BY <1>4, <2>1, <2>2, <3>1, <3>2, ClearsAll
  <2>4. i \in 0 .. n  BY <1>1
  <2> QED  BY <2>2, <2>3, <2>4 DEF u
<1> HIDE DEF G
<1>13. 0 .. n \subseteq G  BY <1>1, <1>11, <1>12, Upwards
<1>14. Good(n)  BY <1>1, <1>13 DEF G
<1> QED  BY <1>0, <1>14 DEF g, n, P, L

LEMMA SignalFacts ==
  ASSUME BelongingsInv, B!handle_sig
  PROVE  BelongingsInv' /\ Clears(object, object', {plays[t] : t \in Sessions} \ {None})
<1> DEFINE all == B!SetToSeq(Sessions)
           st == B!AllSaved(all)[Len(all)]
<1>1. Len(st.object) <= MaxRow /\ object' = st.object /\ B!Boot(st.object) /\ gone' = gone
  BY DEF B!handle_sig
<1>2. all \in Seq(Sessions)  BY AllSessions
<1> HIDE DEF all
<1>3. Stored(st, LiveOf(obj)) /\ Clears(object, st.object, {plays[t] : t \in Sessions} \ {None})
  BY <1>2, AllSavedFacts
<1> HIDE DEF st
<1>4. Table(st.object)  BY <1>1, <1>3, StoredTable
<1>5. BelongingsInv'  BY <1>1, <1>4, BootInv DEF BelongingsInv
<1> QED  BY <1>1, <1>3, <1>5

LEMMA RestartBelongingsInv == ASSUME BelongingsInv, B!Restart PROVE BelongingsInv'
<1>1. B!Boot(object) /\ object' = object /\ gone' \in BOOLEAN  BY DEF B!Restart
<1> QED  BY <1>1, BootInv DEF BelongingsInv

LEMMA BelongingsStep == ASSUME BelongingsInv, B!Next PROVE BelongingsInv'
BY LoadObjectInv, RestartBelongingsInv, SignalFacts, SaveObjectsInv, EditSaveInv, DeleteObjectInv,
   SavePlayerInv, QuitInv, LinkFailsInv, GetInv, DropInv, LoadPlayerInv DEF B!Next

LEMMA BelongingsStutter == ASSUME BelongingsInv, UNCHANGED bVars PROVE BelongingsInv'
BY DEF BelongingsInv, bVars

-----------------------------------------------------------------------------
(* Belongings: whose rows a step changes.                                  *)

OwnRows ==
  \A i \in DOMAIN object :
    object'[i] # object[i] => object'[i] = "deleted" /\ \E s \in Sessions : plays[s] = object[i]

LEMMA ClearsOwn ==
  ASSUME Clears(object, object', {plays[t] : t \in Sessions} \ {None}) PROVE OwnRows
BY DEF Clears, OwnRows

LEMMA SavesOwnStep ==
  ASSUME BelongingsInv, B!Next
  PROVE  B!save_area \/ B!edit_save \/ B!edit_delete \/ OwnRows
<1>0. \A s \in Sessions : Clears(object, B!Saved(B!Store, s).object, {plays[t] : t \in Sessions} \ {None})
  <2> SUFFICES ASSUME NEW s \in Sessions
               PROVE  Clears(object, B!Saved(B!Store, s).object, {plays[t] : t \in Sessions} \ {None})
    OBVIOUS
  <2>1. Stored(B!Store, LiveOf(obj)) /\ B!Store.object = object  BY StoreFacts
  <2>2. Clears(B!Store.object, B!Saved(B!Store, s).object, {plays[t] : t \in Sessions} \ {None})
    BY <2>1, SavedFacts
  <2> QED  BY <2>1, <2>2
<1>1. CASE B!load_object \/ B!Restart  BY <1>1 DEF B!load_object, B!Restart, OwnRows
<1>2. CASE B!handle_sig  BY <1>2, SignalFacts, ClearsOwn
<1>3. CASE B!save_area \/ B!edit_save \/ B!edit_delete  BY <1>3
<1>4. ASSUME NEW s \in Sessions, B!save_player(s) \/ B!LinkFails(s) PROVE OwnRows
  <2>1. object' = B!Saved(B!Store, s).object  BY <1>4 DEF B!save_player, B!Stores, B!LinkFails
  <2>2. Clears(object, object', {plays[t] : t \in Sessions} \ {None})  BY <1>0, <2>1
  <2> QED  BY <2>2, ClearsOwn
<1>5. ASSUME NEW s \in Sessions, B!quit(s) \/ B!do_get(s) \/ B!do_drop(s) PROVE OwnRows
  BY <1>5 DEF B!quit, B!do_get, B!do_drop, OwnRows
<1>6. ASSUME NEW s \in Sessions, NEW p \in Players, B!load_char_objs(s, p) PROVE OwnRows
  BY <1>6 DEF B!load_char_objs, OwnRows
<1> QED  BY <1>1, <1>2, <1>3, <1>4, <1>5, <1>6 DEF B!Next

\* What was picked up in the order it came into the game is found on the way.
LEMMA InOrderWalk ==
  ASSUME BelongingsInv, NEW s \in Sessions, B!InOrder(s)
  PROVE  Range(carrying[s]) \subseteq B!Walk(s)
<1> DEFINE c == carrying[s]
           f == first_object
<1>1. c \in Seq(Addresses) /\ f \in Seq(Addresses) /\ Range(c) \subseteq Range(f)
  BY DEF BelongingsInv, World
<1>2. /\ Len(c) \in Nat /\ DOMAIN c = 1 .. Len(c) /\ Len(f) \in Nat /\ DOMAIN f = 1 .. Len(f)
  BY <1>1, SeqFacts
<1> SUFFICES ASSUME NEW i \in DOMAIN c PROVE c[i] \in B!Walk(s)
  BY DEF Range
<1>3. c # <<>> /\ 1 \in DOMAIN c /\ Head(c) = c[1]
  <2>1. Len(c) # 0 /\ 1 \in 1 .. Len(c)  BY <1>2
  <2> QED  BY <1>1, <1>2, <2>1
<1>4. \E l \in DOMAIN f : f[l] = c[i] /\ \E k \in 1 .. l : f[k] = c[1]
  <2>1. CASE i = 1
    <3>1. PICK l \in DOMAIN f : f[l] = c[1]  BY <1>1, <1>3 DEF Range
    <3>2. l \in 1 .. l  BY <1>2
    <3> QED  BY <2>1, <3>1, <3>2
  <2>2. CASE i # 1
    <3>1. 1 < i  BY <1>2, <2>2
    <3>2. PICK k, l \in DOMAIN f : k < l /\ f[k] = c[1] /\ f[l] = c[i]
      BY <1>3, <3>1 DEF B!InOrder
    <3>3. k \in 1 .. l  BY <1>2, <3>2
    <3> QED  BY <3>2, <3>3
  <2> QED  BY <2>1, <2>2
<1> QED  BY <1>3, <1>4 DEF B!Walk

LEMMA KeepsAllStep ==
  ASSUME BelongingsInv, NEW s \in Sessions, B!save_player(s), B!InOrder(s)
  PROVE  \A i \in DOMAIN carrying[s] : object'[obj'[carrying[s][i]].id] = plays[s]
<1> DEFINE st == B!Saved(B!Store, s)
<1>1. /\ Len(st.object) <= MaxRow /\ object' = st.object /\ plays[s] # None
      /\ obj' = [o \in Addresses |-> IF o \in LiveOf(obj) THEN [obj[o] EXCEPT !.id = st.id[o]] ELSE None]
  BY LiveFacts DEF B!save_player, B!Stores, Addresses
<1>2. /\ Stored(st, LiveOf(obj))
      /\ \A o \in Range(carrying[s]) : o \in B!Walk(s) => Has(st, o, plays[s])
  <2>1. Stored(B!Store, LiveOf(obj))  BY StoreFacts
  <2> QED  BY <1>1, <2>1, SavedFacts
<1> HIDE DEF st
<1>3. \A o \in LiveOf(obj) : obj'[o].id = st.id[o]  BY <1>1, <1>2, RowsStored
<1>4. Range(carrying[s]) \subseteq LiveOf(obj)  BY DEF BelongingsInv, World
<1> SUFFICES ASSUME NEW o \in Range(carrying[s]) PROVE object'[obj'[o].id] = plays[s]
  BY DEF Range
<1>5. Has(st, o, plays[s])  BY <1>2, InOrderWalk
<1> QED  BY <1>1, <1>3, <1>4, <1>5 DEF Has

-----------------------------------------------------------------------------
(* Rooms: what the tables keep of exits.                                   *)

Dirs == R!Dirs
ExitRow == [from : Rooms, dir : Dirs, to : Rooms]

\* The rows of the exits of r and d.
RowsOf(table, r, d) == {i \in DOMAIN table : table[i].from = r /\ table[i].dir = d}

\* An exit e of r and d that has a row has one of its own, and leads somewhere.  It
\* is the first one, and has what was saved, unless an exit there was deleted.
KeptAt(table, e, to, left, r, d) ==
  /\ e # None /\ e.id # 0 => e.to # None /\ e.id \in RowsOf(table, r, d)
  /\ <<r, d>> \notin left =>
       IF RowsOf(table, r, d) = {} THEN to = None
       ELSE /\ e # None /\ e.id # 0 /\ to = table[e.id].to
            /\ \A i \in RowsOf(table, r, d) : e.id <= i

Kept(table, ex, sv, left) ==
  \A r \in Rooms, d \in Dirs : KeptAt(table, ex[r][d], sv[r][d], left, r, d)

ExitOf(n) == [to : Rooms \cup {None}, id : 0 .. n]

LEMMA DirsFacts == Dirs = 1 .. MaxDir /\ MaxDir \in Nat
BY RecordsAssumption DEF Dirs, R!Dirs

LEMMA ExitTypes ==
  ASSUME R!TypeOK
  PROVE  /\ \A r \in Rooms, d \in Dirs : exits[r][d] # None => exits[r][d] \in ExitOf(MaxRows)
         /\ exits \in [Rooms -> [Dirs -> ExitOf(MaxRows) \cup {None}]]
         /\ exit \in Seq(ExitRow)
BY DEF R!TypeOK, R!Exit, ExitOf, ExitRow, Dirs

LEMMA ToInsertFacts ==
  ASSUME NEW r \in Rooms
  PROVE  /\ R!ToInsert(r) \in Seq(Dirs)
         /\ Range(R!ToInsert(r)) = {d \in R!HasRoom(r) : exits[r][d].id = 0}
         /\ Distinct(R!ToInsert(r))
<1> DEFINE K == {d \in R!HasRoom(r) : exits[r][d].id = 0}
           t == Sorted(K)
<1>1. R!ToInsert(r) = t  BY DEF R!ToInsert, R!Sorted, R!Rank, R!Cardinality, Sorted, Rank, Cardinality
<1>2. K \in SUBSET (1 .. MaxDir) /\ K \in SUBSET Dirs  BY DirsFacts DEF R!HasRoom, Dirs
<1> HIDE DEF K
<1>3. t \in Seq(K) /\ Range(t) = K /\ \A i, j \in DOMAIN t : i < j => t[i] < t[j]
  BY <1>2, DirsFacts, SortedFacts
<1> HIDE DEF t
<1>4. t \in Seq(Dirs)
  <2> HIDE DEF Dirs
  <2>1. \A i \in 1 .. Len(t) : t[i] \in Dirs
    <3>1. \A i \in 1 .. Len(t) : t[i] \in K  BY <1>3
    <3> QED  BY <1>2, <3>1
  <2>2. Len(t) \in Nat /\ t = [i \in 1 .. Len(t) |-> t[i]]  BY <1>3
  <2>3. t \in [1 .. Len(t) -> Dirs]  BY <2>1, <2>2
  <2> QED  BY <2>2, <2>3
<1>5. Distinct(t)
  <2> SUFFICES ASSUME NEW i \in DOMAIN t, NEW j \in DOMAIN t, t[i] = t[j] PROVE i = j
    BY DEF Distinct
  <2>1. i \in 1 .. Len(t) /\ j \in 1 .. Len(t) /\ Len(t) \in Nat /\ t[i] \in 1 .. MaxDir
    BY <1>4, DirsFacts
  <2>2. ~ (i < j) /\ ~ (j < i)  BY <1>3, <2>1, DirsFacts
  <2> QED  BY <2>1, <2>2
<1> QED  BY <1>1, <1>3, <1>4, <1>5 DEF K

\* The rows of a table after the exits of r were saved.
LEMMA SavedExits ==
  ASSUME R!TypeOK, NEW t \in Seq(ExitRow), NEW r \in Rooms,
         \A d \in Dirs : exits[r][d] # None /\ exits[r][d].id # 0 => exits[r][d].id \in RowsOf(t, r, d)
  PROVE  LET u == R!save_exits(t, r)  new == R!ToInsert(r)
         IN /\ u \in Seq(ExitRow) /\ Len(u) = Len(t) + Len(new)
            /\ \A i \in 1 .. Len(t) :
                 /\ u[i].from = t[i].from /\ u[i].dir = t[i].dir
                 /\ u[i] = t[i] \/ (u[i].from = r /\ u[i].dir \in R!HasRoom(r)
                                      /\ u[i].to = exits[r][u[i].dir].to)
            /\ \A d \in R!HasRoom(r) : exits[r][d].id # 0 => u[exits[r][d].id] = R!Row(r, d)
            /\ \A i \in DOMAIN new : u[Len(t) + i] = R!Row(r, new[i])
<1> DEFINE new == R!ToInsert(r)
           H == R!HasRoom(r)
           Ours(i) == {d \in H : exits[r][d].id = i}
           old == [i \in DOMAIN t |-> IF Ours(i) = {} THEN t[i]
                                      ELSE R!Row(r, CHOOSE d \in Ours(i) : TRUE)]
           added == [i \in DOMAIN new |-> R!Row(r, new[i])]
           u == R!save_exits(t, r)
<1>1. u = old \o added  BY DEF R!save_exits
<1>2. H \subseteq Dirs /\ \A d \in H : exits[r][d] # None /\ exits[r][d].to \in Rooms /\ exits[r][d].id \in Nat
  BY ExitTypes DEF R!HasRoom, Dirs, ExitOf
<1>3. new \in Seq(Dirs) /\ Range(new) \subseteq H  BY ToInsertFacts
<1>4. \A d \in H : R!Row(r, d) \in ExitRow /\ R!Row(r, d).from = r /\ R!Row(r, d).dir = d
                   /\ R!Row(r, d).to = exits[r][d].to
  BY <1>2 DEF R!Row, ExitRow
<1>5. Len(t) \in Nat /\ DOMAIN t = 1 .. Len(t) /\ \A i \in 1 .. Len(t) : t[i] \in ExitRow  OBVIOUS
<1> HIDE DEF H
<1>6. ASSUME NEW i \in 1 .. Len(t), NEW d \in Ours(i)
      PROVE  t[i].from = r /\ t[i].dir = d /\ d \in H /\ Ours(i) = {d} /\ old[i] = R!Row(r, d)
  <2>1. \A e \in Ours(i) : e \in H /\ e \in Dirs /\ i \in RowsOf(t, r, e)
    BY <1>2
  <2>2. \A e \in Ours(i) : t[i].from = r /\ t[i].dir = e  BY <2>1 DEF RowsOf
  <2>3. Ours(i) = {d}  BY <1>6, <2>2
  <2>4. old[i] = R!Row(r, CHOOSE e \in Ours(i) : TRUE)  BY <1>5, <2>3
  <2>5. (CHOOSE e \in Ours(i) : TRUE) = d  BY <2>3
  <2> QED  BY <1>6, <2>1, <2>2, <2>3, <2>4, <2>5
<1>7. \A i \in 1 .. Len(t) : Ours(i) = {} => old[i] = t[i]  BY <1>5
<1>8. DOMAIN old = 1 .. Len(t)  BY <1>5
<1>9. \A i \in 1 .. Len(t) : old[i] \in ExitRow
  <2> HIDE DEF old, Ours
  <2> QED  BY <1>4, <1>5, <1>6, <1>7
<1>10. old = [i \in 1 .. Len(t) |-> old[i]]  BY <1>5
<1>11. DOMAIN new = 1 .. Len(new) /\ Len(new) \in Nat /\ \A i \in DOMAIN new : new[i] \in H
  BY <1>3 DEF Range
<1>12. added \in Seq(ExitRow) /\ Len(added) = Len(new) /\ \A i \in DOMAIN new : added[i] = R!Row(r, new[i])
  <2> HIDE DEF new
  <2>1. added \in [1 .. Len(new) -> ExitRow]  BY <1>4, <1>11
  <2> QED  BY <1>11, <2>1
<1> HIDE DEF old, added, new, u
<1>13. old \in Seq(ExitRow) /\ Len(old) = Len(t)
  <2>1. old \in [1 .. Len(t) -> ExitRow]  BY <1>9, <1>10
  <2> QED  BY <1>5, <2>1
<1>14. /\ u \in Seq(ExitRow) /\ Len(u) = Len(t) + Len(new)
       /\ \A i \in 1 .. Len(t) : u[i] = old[i]
       /\ \A i \in DOMAIN new : u[Len(t) + i] = R!Row(r, new[i])
  <2>1. u \in Seq(ExitRow) /\ Len(u) = Len(old) + Len(added)
    <3>1. u \in Seq(ExitRow)  BY <1>1, <1>12, <1>13, ConcatRange
    <3>2. Len(u) = Len(old) + Len(added)  BY <1>1, <1>12, <1>13, ConcatFacts
    <3> QED  BY <3>1, <3>2
  <2>2. \A i \in 1 .. Len(t) : u[i] = old[i]  BY <1>1, <1>12, <1>13, ConcatFacts
  <2>3. ASSUME NEW i \in DOMAIN new PROVE u[Len(t) + i] = added[i]
    BY <1>1, <1>11, <1>12, <1>13, ConcatFacts
  <2> QED  BY <1>12, <1>13, <2>1, <2>2, <2>3
<1>15. ASSUME NEW i \in 1 .. Len(t)
       PROVE  /\ u[i].from = t[i].from /\ u[i].dir = t[i].dir
              /\ u[i] = t[i] \/ (u[i].from = r /\ u[i].dir \in H /\ u[i].to = exits[r][u[i].dir].to)
  <2> HIDE DEF Ours
  <2>1. CASE Ours(i) = {}  BY <1>7, <1>14, <2>1
  <2>2. CASE Ours(i) # {}
    <3>1. PICK d \in Ours(i) : TRUE  BY <2>2
    <3> QED  BY <1>4, <1>6, <1>14, <3>1
  <2> QED  BY <2>1, <2>2
<1>16. ASSUME NEW d \in H, exits[r][d].id # 0 PROVE u[exits[r][d].id] = R!Row(r, d)
  <2>1. exits[r][d].id \in RowsOf(t, r, d)  BY <1>2, <1>16
  <2>2. exits[r][d].id \in 1 .. Len(t)  BY <1>5, <2>1 DEF RowsOf
  <2>3. d \in Ours(exits[r][d].id)  OBVIOUS
  <2> HIDE DEF Ours
  <2> QED  BY <1>6, <1>14, <2>2, <2>3
<1> QED  BY <1>14, <1>15, <1>16 DEF u, new, H

\* The exits of r after they were saved: those that were inserted know their rows.
LEMMA InsertedFacts ==
  ASSUME R!TypeOK, NEW t \in Seq(ExitRow), NEW r \in Rooms
  PROVE  LET new == R!ToInsert(r)  x == R!Inserted(t, r)
         IN /\ \A d \in Dirs : d \notin Range(new) => x[d] = exits[r][d]
            /\ \A i \in DOMAIN new :
                 x[new[i]] = [to |-> exits[r][new[i]].to, id |-> Len(t) + i]
            /\ DOMAIN x = Dirs /\ x = [d \in Dirs |-> x[d]]
<1> DEFINE new == R!ToInsert(r)
           x == R!Inserted(t, r)
           Nr(d) == CHOOSE i \in DOMAIN new : new[i] = d
<1>1. x = [d \in Dirs |-> IF \E i \in DOMAIN new : new[i] = d
                          THEN [exits[r][d] EXCEPT !.id = Len(t) + Nr(d)] ELSE exits[r][d]]
  BY DEF R!Inserted, Dirs
<1>2. new \in Seq(Dirs) /\ Range(new) = {d \in R!HasRoom(r) : exits[r][d].id = 0} /\ Distinct(new)
  BY ToInsertFacts
<1> HIDE DEF new, x
<1>3. ASSUME NEW i \in DOMAIN new
      PROVE  x[new[i]] = [to |-> exits[r][new[i]].to, id |-> Len(t) + i]
  <2> DEFINE e == exits[r][new[i]]
  <2>1. new[i] \in R!HasRoom(r)
    <3>1. new[i] \in Range(new)  BY DEF Range
    <3> QED  BY <1>2, <3>1
  <2>2. new[i] \in Dirs /\ e # None  BY <2>1 DEF R!HasRoom, Dirs
  <2>3. Nr(new[i]) = i  BY <1>2 DEF Distinct
  <2>4. e \in ExitOf(MaxRows)  BY <2>2, ExitTypes
  <2> HIDE DEF e
  <2>5. \E j \in DOMAIN new : new[j] = new[i]  OBVIOUS
  <2>6. x[new[i]] = [e EXCEPT !.id = Len(t) + i]
    <3> HIDE DEF Nr
    <3> QED  BY <1>1, <2>2, <2>3, <2>5 DEF e
  <2>7. [e EXCEPT !.id = Len(t) + i] = [to |-> e.to, id |-> Len(t) + i]
    <3> DEFINE n == Len(t) + i
    <3> HIDE DEF n
    <3>1. [e EXCEPT !.id = n] = [to |-> e.to, id |-> n]  BY <2>4 DEF ExitOf
    <3> QED  BY <3>1 DEF n
  <2> QED  BY <2>6, <2>7 DEF e
<1>4. ASSUME NEW d \in Dirs, d \notin Range(new) PROVE x[d] = exits[r][d]
  BY <1>1, <1>4 DEF Range
<1>5. DOMAIN x = Dirs /\ x = [d \in Dirs |-> x[d]]  BY <1>1
<1> QED  BY <1>3, <1>4, <1>5 DEF new, x

\* Saving the exits of a room leaves all exits as the tables say.
LEMMA SavedKept ==
  ASSUME R!TypeOK, NEW t \in Seq(ExitRow), NEW r \in Rooms,
         NEW ex, DOMAIN ex = Rooms, ex[r] = exits[r],
         NEW sv, DOMAIN sv = Rooms, NEW left, Kept(t, ex, sv, left)
  PROVE  Kept(R!save_exits(t, r), [ex EXCEPT ![r] = R!Inserted(t, r)],
              [sv EXCEPT ![r] = R!Written(r)], left)
<1> DEFINE u == R!save_exits(t, r)
           new == R!ToInsert(r)
           x == R!Inserted(t, r)
           w == R!Written(r)
           H == R!HasRoom(r)
           ex1 == [ex EXCEPT ![r] = x]
           sv1 == [sv EXCEPT ![r] = w]
<1> DEFINE y == exits[r]
<1>0. \A d \in Dirs : KeptAt(t, y[d], sv[r][d], left, r, d)
  <2>1. ex[r] = y  OBVIOUS
  <2> HIDE DEF y
  <2> QED  BY <2>1 DEF Kept
<1>1. \A d \in Dirs : exits[r][d] # None /\ exits[r][d].id # 0 =>
         exits[r][d].to # None /\ exits[r][d].id \in RowsOf(t, r, d)
  BY <1>0 DEF KeptAt
<1>2. /\ u \in Seq(ExitRow) /\ Len(u) = Len(t) + Len(new)
      /\ \A i \in 1 .. Len(t) :
           /\ u[i].from = t[i].from /\ u[i].dir = t[i].dir
           /\ u[i] = t[i] \/ (u[i].from = r /\ u[i].dir \in H /\ u[i].to = exits[r][u[i].dir].to)
      /\ \A d \in H : exits[r][d].id # 0 => u[exits[r][d].id] = R!Row(r, d)
      /\ \A i \in DOMAIN new : u[Len(t) + i] = R!Row(r, new[i])
  BY <1>1, SavedExits
<1>3. /\ \A d \in Dirs : d \notin Range(new) => x[d] = exits[r][d]
      /\ \A i \in DOMAIN new : x[new[i]] = [to |-> exits[r][new[i]].to, id |-> Len(t) + i]
  BY InsertedFacts
<1>4. new \in Seq(Dirs) /\ Range(new) = {d \in H : exits[r][d].id = 0} /\ Distinct(new)
  BY ToInsertFacts
<1>5. \A d \in Dirs : w[d] = IF d \in H THEN exits[r][d].to ELSE None  BY DEF R!Written, Dirs
<1>6. \A d \in Dirs : d \in H <=> exits[r][d] # None /\ exits[r][d].to # None  BY DEF R!HasRoom, Dirs
<1>7. \A d \in H : R!Row(r, d) = [from |-> r, dir |-> d, to |-> exits[r][d].to]  BY DEF R!Row
<1>8. /\ ex1[r] = x /\ \A q \in Rooms \ {r} : ex1[q] = ex[q]
      /\ sv1[r] = w /\ \A q \in Rooms \ {r} : sv1[q] = sv[q]
  OBVIOUS
<1> HIDE DEF u, new, x, w, H, ex1, sv1
<1>9. /\ DOMAIN t = 1 .. Len(t) /\ DOMAIN u = 1 .. Len(u) /\ DOMAIN new = 1 .. Len(new)
      /\ Len(t) \in Nat /\ Len(new) \in Nat
  BY <1>2, <1>4
<1>10. \A i \in DOMAIN u : i \in 1 .. Len(t) \/ \E k \in DOMAIN new : i = Len(t) + k
  <2>1. \A i \in DOMAIN u : i \in 1 .. Len(t) \/ (i - Len(t) \in 1 .. Len(new) /\ i = Len(t) + (i - Len(t)))
    BY <1>2, <1>9
  <2> QED  BY <1>9, <2>1
<1>11. \A k \in DOMAIN new : new[k] \in H /\ new[k] \in Dirs /\ exits[r][new[k]].id = 0
                             /\ Len(t) + k \in DOMAIN u /\ Len(t) + k \notin 1 .. Len(t)
  BY <1>2, <1>4, <1>9 DEF Range
<1>12. ASSUME NEW q \in Rooms, NEW d \in Dirs, q # r \/ d \notin Range(new)
       PROVE  RowsOf(u, q, d) = RowsOf(t, q, d)
  <2>1. \A k \in DOMAIN new : ~ (u[Len(t) + k].from = q /\ u[Len(t) + k].dir = d)
    BY <1>2, <1>7, <1>11, <1>12 DEF Range
  <2>2. \A i \in 1 .. Len(t) : i \in DOMAIN u  BY <1>2, <1>9
  <2> QED  BY <1>2, <1>9, <1>10, <2>1, <2>2 DEF RowsOf
<1>13. ASSUME NEW q \in Rooms \ {r}, NEW d \in Dirs
       PROVE  KeptAt(u, ex1[q][d], sv1[q][d], left, q, d)
  <2>1. ex1[q] = ex[q] /\ sv1[q] = sv[q]  BY <1>8
  <2>2. RowsOf(u, q, d) = RowsOf(t, q, d)  BY <1>12
  <2>3. \A i \in RowsOf(t, q, d) : u[i] = t[i]  BY <1>2, <1>9 DEF RowsOf
  <2>4. KeptAt(t, ex[q][d], sv[q][d], left, q, d)  BY DEF Kept
  <2> QED  BY <2>1, <2>2, <2>3, <2>4 DEF KeptAt
<1>14. ASSUME NEW d \in Dirs
       PROVE  KeptAt(u, x[d], w[d], left, r, d)
  <2>0. <<r, d>> \notin left =>
           IF RowsOf(t, r, d) = {} THEN sv[r][d] = None
           ELSE /\ exits[r][d] # None /\ exits[r][d].id # 0
                /\ \A i \in RowsOf(t, r, d) : exits[r][d].id <= i
    BY <1>0 DEF KeptAt
  <2>1. CASE d \in Range(new)
    <3>1. PICK k \in DOMAIN new : new[k] = d  BY <2>1 DEF Range
    <3> DEFINE n == Len(t) + k
    <3>2. x[d] = [to |-> exits[r][d].to, id |-> n] /\ d \in H /\ exits[r][d].id = 0
      BY <1>3, <1>11, <3>1
    <3>3. u[n] = [from |-> r, dir |-> d, to |-> exits[r][d].to] /\ n \in DOMAIN u
      BY <1>2, <1>7, <1>11, <3>1
    <3>4. n \in RowsOf(u, r, d)  BY <3>3 DEF RowsOf
    <3>5. exits[r][d].to # None /\ w[d] = exits[r][d].to  BY <1>5, <1>6, <3>2
    <3>6. n # 0 /\ n \in Nat  BY <1>9
    <3>7. x[d] # None
      <4>1. exits[r][d].to \in Rooms \cup {None}
        <5>1. exits[r][d] \in ExitOf(MaxRows)  BY <1>6, <3>2, ExitTypes
        <5> QED  BY <5>1 DEF ExitOf
      <4> HIDE DEF n
      <4>2. x[d] \in [to : Rooms \cup {None}, id : Nat]  BY <3>2, <3>6, <4>1
      <4> QED  BY <4>2, RecordsAssumption
    <3>8. exits[r][d] # None  BY <1>6, <3>2
    <3>9. x[d].to = exits[r][d].to /\ x[d].id = n
      <4> HIDE DEF n
      <4> QED  BY <3>2
    <3>10. ASSUME <<r, d>> \notin left PROVE RowsOf(u, r, d) = {n}
      <4>1. RowsOf(t, r, d) = {}  BY <2>0, <3>2, <3>10
      <4>2. ASSUME NEW i \in RowsOf(u, r, d) PROVE i = n
        <5>1. i \in DOMAIN u /\ u[i].from = r /\ u[i].dir = d  BY DEF RowsOf
        <5>2. CASE i \in 1 .. Len(t)  BY <1>2, <1>9, <4>1, <5>1, <5>2 DEF RowsOf
        <5>3. CASE \E j \in DOMAIN new : i = Len(t) + j
          <6>1. PICK j \in DOMAIN new : i = Len(t) + j  BY <5>3
          <6>2. u[i].dir = new[j]  BY <1>2, <1>7, <1>11, <6>1
          <6>3. j = k  BY <1>4, <3>1, <5>1, <6>2 DEF Distinct
          <6> QED  BY <6>1, <6>3
        <5> QED  BY <1>10, <5>1, <5>2, <5>3
      <4> QED  BY <3>4, <4>2
    <3>11. u[n].to = exits[r][d].to
      <4> HIDE DEF n
      <4> QED  BY <3>3
    <3> HIDE DEF n
    <3> QED  BY <3>4, <3>5, <3>6, <3>7, <3>9, <3>10, <3>11 DEF KeptAt
  <2>2. CASE d \notin Range(new)
    <3>1. x[d] = exits[r][d] /\ RowsOf(u, r, d) = RowsOf(t, r, d)  BY <1>3, <1>12, <2>2
    <3>2. d \in H => exits[r][d].id # 0  BY <1>4, <2>2
    <3>3. ASSUME <<r, d>> \notin left
          PROVE  IF RowsOf(t, r, d) = {} THEN w[d] = None
                 ELSE w[d] = u[exits[r][d].id].to
      <4>1. CASE RowsOf(t, r, d) = {}  BY <1>1, <1>5, <1>6, <3>2, <4>1
      <4>2. CASE RowsOf(t, r, d) # {}
        <5>1. d \in H /\ exits[r][d].id # 0  BY <1>1, <1>6, <2>0, <3>3, <4>2
        <5> QED  BY <1>2, <1>5, <1>7, <4>2, <5>1
      <4> QED  BY <4>1, <4>2
    <3> QED  BY <1>1, <2>0, <3>1, <3>3 DEF KeptAt
  <2> QED  BY <2>1, <2>2
<1>15. ASSUME NEW q \in Rooms, NEW d \in Dirs PROVE KeptAt(u, ex1[q][d], sv1[q][d], left, q, d)
  BY <1>8, <1>13, <1>14
<1> QED  BY <1>15 DEF Kept, u, x, w, ex1, sv1

-----------------------------------------------------------------------------
(* Rooms: the inductive invariant.                                         *)

FrameType ==
  [kind : R!Kinds, room : Rooms \cup {None}, dir : Dirs \cup {None}, freed : BOOLEAN]

\* The i-th editor of a stack.  An exit's is always the first, and its exit is
\* there unless it was freed; nothing else is freed.
Editor(f, i, ex) ==
  /\ f \in FrameType
  /\ f.kind # "area" => f.room \in Rooms
  /\ f.kind = "exit" => i = 1 /\ f.dir \in Dirs /\ (f.freed \/ ex[f.room][f.dir] # None)
  /\ f.freed => f.kind = "exit"

Stack(s, ex) == s \in Seq(FrameType) /\ \A i \in DOMAIN s : Editor(s[i], i, ex)

\* Every exit leads to a room of rooms, or nowhere yet; its row is not past n.
Leads(ex, rooms, n) ==
  /\ ex \in [Rooms -> [Dirs -> ExitOf(n) \cup {None}]]
  /\ \A r \in Rooms, d \in Dirs : ex[r][d] # None => ex[r][d].to \in rooms \cup {None}

\* The rows join rooms of rooms.
Joins(table, rooms) ==
  table \in Seq(ExitRow) /\ \A i \in DOMAIN table : table[i].from \in rooms /\ table[i].to \in rooms

RoomsInv ==
  /\ \A c \in Clients : Stack(editing[c], exits)
  /\ DOMAIN editing = Clients
  /\ Leads(exits, room_hash, MaxRows) /\ Joins(exit, room) /\ Kept(exit, exits, saved, deleted)
  /\ Len(exit) <= MaxRows
  /\ Built \subseteq room /\ room_hash \subseteq room /\ room \subseteq Rooms
  /\ created \in 0 .. MaxCreated
  /\ saved \in [Rooms -> [Dirs -> Rooms \cup {None}]]
  /\ deleted \subseteq Rooms \X Dirs
  /\ lost \in {"no", "null", "freed"}

LEMMA RoomsTypes == ASSUME RoomsInv PROVE R!TypeOK
BY DEF RoomsInv, R!TypeOK, Stack, FrameType, Leads, Joins, ExitOf, ExitRow, R!Exit, Dirs

LEMMA EmptyStack == ASSUME NEW ex PROVE Stack(<<>>, ex)
BY DEF Stack

LEMMA FrameFacts ==
  ASSUME NEW k \in R!Kinds, NEW r \in Rooms \cup {None}, NEW d \in Dirs \cup {None}
  PROVE  /\ R!Frame(k, r, d) \in FrameType /\ R!Frame(k, r, d).kind = k
         /\ R!Frame(k, r, d).room = r /\ R!Frame(k, r, d).dir = d /\ ~ R!Frame(k, r, d).freed
BY DEF R!Frame, FrameType

LEMMA InitRoomsInv == ASSUME R!Init PROVE RoomsInv
<1>1. \A c \in Clients : Stack(editing[c], exits)  BY EmptyStack DEF R!Init
<1>2. exits = [r \in Rooms |-> [d \in Dirs |-> None]] /\ saved = exits
  BY DEF R!Init, R!NoExits, Dirs
<1>3. Leads(exits, room_hash, MaxRows)  BY <1>2 DEF Leads
<1>4. exit = <<>> /\ exit \in Seq(ExitRow) /\ DOMAIN exit = {} /\ Len(exit) <= MaxRows
  BY RecordsAssumption DEF R!Init
<1>5. Kept(exit, exits, saved, deleted)  BY <1>2, <1>4 DEF Kept, KeptAt, RowsOf
<1>6. saved \in [Rooms -> [Dirs -> Rooms \cup {None}]]  BY <1>2
<1> QED  BY <1>1, <1>3, <1>4, <1>5, <1>6, RecordsAssumption DEF R!Init, RoomsInv, Joins

\* Exits that were deleted are told less of.
LEMMA KeptGone ==
  ASSUME NEW table, NEW ex, NEW sv, NEW left, NEW more, left \subseteq more,
         Kept(table, ex, sv, left)
  PROVE  Kept(table, ex, sv, more)
BY DEF Kept, KeptAt

\* Whatever is shown next, the editors and exits are what they should be.
LEMMA ShowsInv ==
  ASSUME RoomsInv, NEW c \in Clients, NEW stack, NEW editors, NEW ex,
         R!Shows(c, stack, editors, ex),
         saved' = saved, created' \in 0 .. MaxCreated,
         deleted \subseteq deleted', deleted' \subseteq Rooms \X Dirs,
         DOMAIN editors = Clients, \A x \in Clients : Stack(editors[x], ex),
         Stack(stack, ex),
         Leads(ex, room_hash, MaxRows), Kept(exit, ex, saved, deleted')
  PROVE  RoomsInv'
<1> DEFINE fault == R!Fault(stack, ex)
<1>1. CASE fault = "no"
  <2>1. /\ editing' = [editors EXCEPT ![c] = stack] /\ exits' = ex /\ lost' = lost
        /\ UNCHANGED <<room_hash, room, exit>>
    BY <1>1 DEF R!Shows
  <2>2. \A x \in Clients : Stack(editing'[x], ex)  BY <2>1
  <2>3. DOMAIN editing' = Clients  BY <2>1
  <2> QED  BY <2>1, <2>2, <2>3 DEF RoomsInv
<1>2. CASE fault # "no"
  <2>1. R!Loses(fault) /\ fault \in {"null", "freed"}  BY <1>2 DEF R!Shows, R!Fault
  <2>2. \A x \in Clients : Stack(editing'[x], exits')  BY <2>1, EmptyStack DEF R!Loses
  <2>3. Kept(exit', exits', saved', deleted')  BY <2>1, KeptGone DEF R!Loses, RoomsInv
  <2> QED  BY <2>1, <2>2, <2>3 DEF RoomsInv, R!Loses
<1> QED  BY <1>1, <1>2

\* A new editor on the stack, which is not on an exit's.
LEMMA PushedStack ==
  ASSUME NEW s, NEW ex, NEW f, Stack(s, ex), Editor(f, 1, ex),
         \A i \in DOMAIN s : s[i].kind # "exit"
  PROVE  Stack(<<f>> \o s, ex)
<1> DEFINE t == <<f>> \o s
<1>1. s \in Seq(FrameType) /\ f \in FrameType  BY DEF Stack, Editor
<1>2. t \in Seq(FrameType) /\ Len(t) = 1 + Len(s) /\ t[1] = f
      /\ \A i \in 2 .. Len(t) : i - 1 \in DOMAIN s /\ t[i] = s[i - 1]
  BY <1>1
<1> HIDE DEF t
<1>3. DOMAIN t = 1 .. Len(t) /\ Len(t) \in Nat  BY <1>2
<1>4. ASSUME NEW i \in DOMAIN t PROVE Editor(t[i], i, ex)
  <2>1. CASE i = 1  BY <1>2, <2>1
  <2>2. CASE i # 1
    <3>1. i \in 2 .. Len(t)  BY <1>3, <2>2
    <3>2. i - 1 \in DOMAIN s /\ t[i] = s[i - 1]  BY <1>2, <3>1
    <3>3. Editor(s[i - 1], i - 1, ex) /\ s[i - 1].kind # "exit"  BY <3>2 DEF Stack
    <3> QED  BY <3>2, <3>3 DEF Editor
  <2> QED  BY <2>1, <2>2
<1> QED  BY <1>2, <1>4 DEF Stack, t

LEMMA PoppedStack ==
  ASSUME NEW s, NEW ex, Stack(s, ex), s # <<>>
  PROVE  Stack(Tail(s), ex) /\ \A i \in DOMAIN Tail(s) : Tail(s)[i] = s[i + 1] /\ ~ s[i + 1].freed
<1> DEFINE t == Tail(s)
<1>1. s \in Seq(FrameType)  BY DEF Stack
<1>2. t \in Seq(FrameType) /\ DOMAIN t = 1 .. Len(s) - 1 /\ DOMAIN s = 1 .. Len(s) /\ Len(s) \in Nat
      /\ \A i \in DOMAIN t : t[i] = s[i + 1]
  BY <1>1
<1> HIDE DEF t
<1>3. ASSUME NEW i \in DOMAIN t PROVE Editor(t[i], i, ex) /\ t[i] = s[i + 1] /\ ~ s[i + 1].freed
  <2>1. i + 1 \in DOMAIN s /\ i + 1 # 1 /\ t[i] = s[i + 1]  BY <1>2
  <2>2. Editor(s[i + 1], i + 1, ex)  BY <2>1 DEF Stack
  <2> QED  BY <2>1, <2>2 DEF Editor
<1> QED  BY <1>2, <1>3 DEF Stack, t

\* The editor in front, and those behind it.
LEMMA TopFacts ==
  ASSUME RoomsInv, NEW c \in Clients, NEW kind, R!Using(c, kind)
  PROVE  /\ editing[c] # <<>> /\ R!Top(c).kind = kind /\ R!Top(c) \in FrameType
         /\ Editor(R!Top(c), 1, exits) /\ R!Top(c) = editing[c][1]
         /\ kind # "exit" => \A i \in DOMAIN editing[c] : editing[c][i].kind # "exit"
<1>1. editing[c] # <<>> /\ R!Top(c).kind = kind /\ R!Top(c) = Head(editing[c])
  BY DEF R!Using, R!Top
<1>2. Stack(editing[c], exits) /\ editing[c] \in Seq(FrameType)  BY DEF RoomsInv, Stack
<1>3. R!Top(c) = editing[c][1] /\ 1 \in DOMAIN editing[c]  BY <1>1, <1>2
<1>4. Editor(R!Top(c), 1, exits)  BY <1>2, <1>3 DEF Stack
<1>5. ASSUME NEW i \in DOMAIN editing[c], editing[c][i].kind = "exit" PROVE kind = "exit"
  BY <1>1, <1>2, <1>3, <1>5 DEF Stack, Editor
<1> QED  BY <1>1, <1>3, <1>4, <1>5 DEF Editor

LEMMA Unshown == ASSUME RoomsInv PROVE \A x \in Clients : Stack(editing[x], exits)
BY DEF RoomsInv

LEMMA PushInv ==
  ASSUME RoomsInv, NEW c \in Clients, NEW f, NEW ex, R!Push(c, f, ex), Editor(f, 1, ex),
         \A x \in Clients : Stack(editing[x], ex),
         \A i \in DOMAIN editing[c] : editing[c][i].kind # "exit",
         Leads(ex, room_hash, MaxRows), Kept(exit, ex, saved, deleted)
  PROVE  RoomsInv'
<1> DEFINE stack == <<f>> \o editing[c]
<1>1. Stack(stack, ex)  BY PushedStack
<1>2. /\ R!Shows(c, stack, editing, ex)
      /\ saved' = saved /\ created' = created /\ deleted' = deleted
  BY DEF R!Push, R!history
<1>3. /\ DOMAIN editing = Clients /\ created \in 0 .. MaxCreated
      /\ deleted \subseteq Rooms \X Dirs
  BY DEF RoomsInv
<1> HIDE DEF stack
<1> QED  BY <1>1, <1>2, <1>3, ShowsInv

\* An editor of something else than an exit is pushed.
LEMMA PushOtherInv ==
  ASSUME RoomsInv, NEW c \in Clients, NEW kind \in {"room", "exits", "text", "area"}, NEW r,
         r \in Rooms \/ (kind = "area" /\ r = None), R!Push(c, R!Frame(kind, r, None), exits),
         editing[c] = <<>> \/ \A i \in DOMAIN editing[c] : editing[c][i].kind # "exit"
  PROVE  RoomsInv'
<1> DEFINE f == R!Frame(kind, r, None)
<1>1. kind \in R!Kinds /\ r \in Rooms \cup {None}  BY DEF R!Kinds
<1>2. Editor(f, 1, exits)  BY <1>1, FrameFacts DEF Editor
<1>3. \A i \in DOMAIN editing[c] : editing[c][i].kind # "exit"  OBVIOUS
<1>4. Leads(exits, room_hash, MaxRows) /\ Kept(exit, exits, saved, deleted)  BY DEF RoomsInv
<1> HIDE DEF f
<1>5. R!Push(c, f, exits)  BY DEF f
<1> QED  BY <1>2, <1>3, <1>4, <1>5, Unshown, PushInv

LEMMA EditInv ==
  ASSUME RoomsInv, NEW c \in Clients,
         R!edit_room(c) \/ R!edit_area(c) \/ R!edit_text(c) \/ R!edit_exits(c)
  PROVE  RoomsInv'
<1>1. CASE R!edit_room(c)
  <2>1. PICK r \in room_hash : R!Push(c, R!Frame("room", r, None), exits)
    BY <1>1 DEF R!edit_room
  <2>2. r \in Rooms /\ editing[c] = <<>>  BY <1>1 DEF R!edit_room, RoomsInv
  <2> QED  BY <2>1, <2>2, PushOtherInv
<1>2. CASE R!edit_area(c)
  BY <1>2, PushOtherInv DEF R!edit_area
<1>3. CASE R!edit_text(c)
  <2>1. R!Using(c, "room") /\ R!Push(c, R!Frame("text", R!Top(c).room, None), exits)
    BY <1>3 DEF R!edit_text
  <2>2. R!Top(c).room \in Rooms /\ \A i \in DOMAIN editing[c] : editing[c][i].kind # "exit"
    BY <2>1, TopFacts DEF Editor
  <2> QED  BY <2>1, <2>2, PushOtherInv
<1>4. CASE R!edit_exits(c)
  <2>1. R!Using(c, "room") /\ R!Push(c, R!Frame("exits", R!Top(c).room, None), exits)
    BY <1>4 DEF R!edit_exits
  <2>2. R!Top(c).room \in Rooms /\ \A i \in DOMAIN editing[c] : editing[c][i].kind # "exit"
    BY <2>1, TopFacts DEF Editor
  <2> QED  BY <2>1, <2>2, PushOtherInv
<1> QED  BY <1>1, <1>2, <1>3, <1>4

LEMMA FinishInv == ASSUME RoomsInv, NEW c \in Clients, R!finish_editing(c) PROVE RoomsInv'
<1> DEFINE stack == Tail(editing[c])
<1>1. /\ R!Shows(c, stack, editing, exits) /\ editing[c] # <<>>
      /\ saved' = saved /\ created' = created /\ deleted' = deleted
  BY DEF R!finish_editing, R!history
<1>2. Stack(stack, exits)  BY <1>1, Unshown, PoppedStack
<1>3. /\ DOMAIN editing = Clients /\ created \in 0 .. MaxCreated
      /\ deleted \subseteq Rooms \X Dirs
      /\ Leads(exits, room_hash, MaxRows) /\ Kept(exit, exits, saved, deleted)
  BY DEF RoomsInv
<1> HIDE DEF stack
<1> QED  BY <1>1, <1>2, <1>3, Unshown, ShowsInv

\* The process is lost, or a builder leaves.
LEMMA LosesInv ==
  ASSUME RoomsInv, NEW c \in Clients,
         R!Leave(c) \/ R!string_lineadd(c)
           \/ (R!exit_ToRoom(c) /\ R!Top(c).freed)
  PROVE  RoomsInv'
<1>1. /\ UNCHANGED <<exits, room_hash, room, exit, saved, created, deleted>>
      /\ editing' = [x \in Clients |-> <<>>] \/ editing' = [editing EXCEPT ![c] = <<>>]
      /\ lost' \in {"no", "null", "freed"}
  BY DEF R!Leave, R!string_lineadd, R!exit_ToRoom, R!Loses, R!history, RoomsInv
<1>2. \A x \in Clients : editing'[x] = <<>> \/ editing'[x] = editing[x]
  BY <1>1 DEF RoomsInv
<1>3. \A x \in Clients : Stack(editing'[x], exits')  BY <1>1, <1>2, EmptyStack, Unshown
<1>4. DOMAIN editing' = Clients  BY <1>1 DEF RoomsInv
<1> QED  BY <1>1, <1>3, <1>4 DEF RoomsInv

\* One exit becomes e, or goes.
LEMMA OneExit ==
  ASSUME RoomsInv, NEW r \in Rooms, NEW d \in Dirs, NEW e, NEW left, deleted \subseteq left,
         e = None \/ (e \in ExitOf(MaxRows) /\ e.to \in room_hash \cup {None}),
         KeptAt(exit, e, saved[r][d], left, r, d)
  PROVE  LET ex == [exits EXCEPT ![r][d] = e]
         IN /\ Leads(ex, room_hash, MaxRows) /\ Kept(exit, ex, saved, left)
            /\ ex[r][d] = e
            /\ \A q \in Rooms, b \in Dirs : <<q, b>> # <<r, d>> => ex[q][b] = exits[q][b]
<1> DEFINE ex == [exits EXCEPT ![r][d] = e]
<1>1. exits \in [Rooms -> [Dirs -> ExitOf(MaxRows) \cup {None}]]  BY DEF RoomsInv, Leads
<1>2. ex[r][d] = e /\ \A q \in Rooms, b \in Dirs : <<q, b>> # <<r, d>> => ex[q][b] = exits[q][b]
  BY <1>1
<1>3. ex \in [Rooms -> [Dirs -> ExitOf(MaxRows) \cup {None}]]
  <2>1. e \in ExitOf(MaxRows) \cup {None}  OBVIOUS
  <2> QED  BY <1>1, <2>1
<1> HIDE DEF ex
<1>4. Leads(ex, room_hash, MaxRows)  BY <1>2, <1>3 DEF Leads, RoomsInv
<1>5. Kept(exit, exits, saved, left)  BY KeptGone DEF RoomsInv
<1>6. ASSUME NEW q \in Rooms, NEW b \in Dirs PROVE KeptAt(exit, ex[q][b], saved[q][b], left, q, b)
  <2>1. CASE <<q, b>> = <<r, d>>  BY <1>2, <2>1
  <2>2. CASE <<q, b>> # <<r, d>>  BY <1>2, <1>5, <2>2 DEF Kept
  <2> QED  BY <2>1, <2>2
<1> QED  BY <1>2, <1>4, <1>6 DEF Kept, ex

\* Editors of exits stay what they are when no exit goes.
LEMMA StackStays ==
  ASSUME NEW s, NEW ex, NEW ex1, Stack(s, ex),
         \A q \in Rooms, b \in Dirs : ex[q][b] # None => ex1[q][b] # None
  PROVE  Stack(s, ex1)
BY DEF Stack, Editor

LEMMA ExitPushed ==
  ASSUME RoomsInv, NEW c \in Clients, R!Using(c, "room") \/ R!Using(c, "exits"),
         NEW d \in Dirs, NEW ex, R!Push(c, R!Frame("exit", R!Top(c).room, d), ex),
         ex[R!Top(c).room][d] # None,
         \A q \in Rooms, b \in Dirs : exits[q][b] # None => ex[q][b] # None,
         Leads(ex, room_hash, MaxRows), Kept(exit, ex, saved, deleted)
  PROVE  RoomsInv'
<1> DEFINE f == R!Frame("exit", R!Top(c).room, d)
<1>1. R!Top(c).room \in Rooms /\ \A i \in DOMAIN editing[c] : editing[c][i].kind # "exit"
  BY TopFacts DEF Editor
<1>2. f \in FrameType /\ f.kind = "exit" /\ f.room = R!Top(c).room /\ f.dir = d /\ ~ f.freed
  <2>1. "exit" \in R!Kinds  BY DEF R!Kinds
  <2> QED  BY <1>1, <2>1, FrameFacts
<1>3. Editor(f, 1, ex)
  <2> HIDE DEF f
  <2> QED  BY <1>1, <1>2 DEF Editor
<1>4. \A x \in Clients : Stack(editing[x], ex)  BY StackStays, Unshown
<1> HIDE DEF f
<1>5. R!Push(c, f, ex)  BY DEF f
<1> QED  BY <1>1, <1>3, <1>4, <1>5, PushInv

LEMMA DigInv == ASSUME RoomsInv, NEW c \in Clients, R!dig(c) PROVE RoomsInv'
<1> DEFINE r == R!Top(c).room
           e == [to |-> None, id |-> 0]
<1>0. R!Using(c, "room") \/ R!Using(c, "exits")  BY DEF R!dig
<1>1. r \in Rooms  BY <1>0, TopFacts DEF Editor
<1>2. PICK d \in Dirs : exits[r][d] = None /\ R!Push(c, R!Frame("exit", r, d), [exits EXCEPT ![r][d] = e])
  BY DEF R!dig, Dirs
<1> DEFINE ex == [exits EXCEPT ![r][d] = e]
<1>3. e \in ExitOf(MaxRows) /\ e.to \in room_hash \cup {None} /\ e # None /\ e.id = 0
  <2>1. e \in ExitOf(MaxRows)  BY RecordsAssumption DEF ExitOf
  <2>2. e \in [to : Rooms \cup {None}, id : Nat]  OBVIOUS
  <2> QED  BY <2>1, <2>2, RecordsAssumption
<1>4. KeptAt(exit, e, saved[r][d], deleted, r, d)
  <2>1. KeptAt(exit, None, saved[r][d], deleted, r, d)  BY <1>1, <1>2 DEF RoomsInv, Kept
  <2> QED  BY <1>3, <2>1 DEF KeptAt
<1> HIDE DEF e, r
<1>5. /\ Leads(ex, room_hash, MaxRows) /\ Kept(exit, ex, saved, deleted) /\ ex[r][d] = e
      /\ \A q \in Rooms, b \in Dirs : <<q, b>> # <<r, d>> => ex[q][b] = exits[q][b]
  BY <1>1, <1>3, <1>4, OneExit
<1> HIDE DEF ex
<1>6. \A q \in Rooms, b \in Dirs : exits[q][b] # None => ex[q][b] # None  BY <1>2, <1>5
<1>7. R!Push(c, R!Frame("exit", R!Top(c).room, d), ex)  BY <1>2 DEF ex, r
<1>8. ex[R!Top(c).room][d] # None  BY <1>3, <1>5 DEF r
<1> QED  BY <1>0, <1>5, <1>6, <1>7, <1>8, ExitPushed

LEMMA ExitsEditInv == ASSUME RoomsInv, NEW c \in Clients, R!exits_edit(c) PROVE RoomsInv'
<1>1. R!Using(c, "exits")  BY DEF R!exits_edit
<1>2. PICK d \in Dirs : /\ exits[R!Top(c).room][d] # None
                        /\ R!Push(c, R!Frame("exit", R!Top(c).room, d), exits)
  BY DEF R!exits_edit, Dirs
<1>3. Leads(exits, room_hash, MaxRows) /\ Kept(exit, exits, saved, deleted)  BY DEF RoomsInv
<1> QED  BY <1>1, <1>2, <1>3, ExitPushed

\* The editors of the exit that goes know it.
LEMMA FreedStacks ==
  ASSUME RoomsInv, NEW r \in Rooms, NEW d \in Dirs, NEW x \in Clients,
         NEW ex, \A q \in Rooms, b \in Dirs : <<q, b>> # <<r, d>> => ex[q][b] = exits[q][b]
  PROVE  Stack(R!Freed(r, d)[x], ex)
<1> DEFINE s == editing[x]
           Known(f) == IF f.kind = "exit" /\ f.room = r /\ f.dir = d THEN [f EXCEPT !.freed = TRUE] ELSE f
           t == [i \in DOMAIN s |-> Known(s[i])]
<1>1. R!Freed(r, d)[x] = t  BY DEF R!Freed
<1>2. Stack(s, exits) /\ s \in Seq(FrameType) /\ Len(s) \in Nat /\ DOMAIN s = 1 .. Len(s)
  BY Unshown DEF Stack
<1>3. ASSUME NEW i \in DOMAIN s PROVE Editor(Known(s[i]), i, ex)
  <2>1. Editor(s[i], i, exits) /\ s[i] \in FrameType  BY <1>2 DEF Stack, Editor
  <2>2. CASE s[i].kind = "exit" /\ s[i].room = r /\ s[i].dir = d
    <3> DEFINE g == [s[i] EXCEPT !.freed = TRUE]
    <3>1. g \in FrameType /\ g.kind = "exit" /\ g.room = r /\ g.dir = d /\ g.freed
      BY <2>1, <2>2 DEF FrameType
    <3>2. Known(s[i]) = g  BY <2>2
    <3> HIDE DEF g
    <3> QED  BY <2>1, <2>2, <3>1, <3>2 DEF Editor
  <2>3. CASE ~ (s[i].kind = "exit" /\ s[i].room = r /\ s[i].dir = d)
    <3>1. Known(s[i]) = s[i]  BY <2>3
    <3> HIDE DEF Known
    <3> QED  BY <2>1, <2>3, <3>1 DEF Editor
  <2> QED  BY <2>2, <2>3
<1>4. t \in Seq(FrameType) /\ DOMAIN t = DOMAIN s /\ \A i \in DOMAIN s : t[i] = Known(s[i])
  <2> HIDE DEF Known, s
  <2>1. \A i \in 1 .. Len(s) : Known(s[i]) \in FrameType  BY <1>2, <1>3 DEF Editor
  <2>2. t \in [1 .. Len(s) -> FrameType]  BY <1>2, <2>1
  <2> QED  BY <1>2, <2>2
<1> HIDE DEF t, Known
<1> QED  BY <1>1, <1>3, <1>4 DEF Stack

LEMMA ExitsDeleteInv == ASSUME RoomsInv, NEW c \in Clients, R!exits_delete(c) PROVE RoomsInv'
<1> DEFINE r == R!Top(c).room
<1>1. R!Using(c, "exits")  BY DEF R!exits_delete
<1>2. PICK d \in Dirs :
        /\ exits[r][d] # None
        /\ R!Shows(c, editing[c], R!Freed(r, d), [exits EXCEPT ![r][d] = None])
        /\ deleted' = IF exits[r][d].id # 0 THEN deleted \cup {<<r, d>>} ELSE deleted
        /\ UNCHANGED <<created, saved>>
  BY DEF R!exits_delete, Dirs
<1>3. r \in Rooms /\ \A i \in DOMAIN editing[c] : editing[c][i].kind # "exit"
  BY <1>1, TopFacts DEF Editor
<1> DEFINE ex == [exits EXCEPT ![r][d] = None]
           editors == R!Freed(r, d)
<1>4. deleted \subseteq deleted' /\ deleted' \subseteq Rooms \X Dirs
  BY <1>2, <1>3 DEF RoomsInv
<1>5. KeptAt(exit, None, saved[r][d], deleted', r, d)
  <2>1. KeptAt(exit, exits[r][d], saved[r][d], deleted, r, d)  BY <1>3 DEF RoomsInv, Kept
  <2> QED  BY <1>2, <2>1 DEF KeptAt
<1>6. DOMAIN editors = Clients  BY DEF R!Freed
<1> HIDE DEF r
<1>7. /\ Leads(ex, room_hash, MaxRows) /\ Kept(exit, ex, saved, deleted')
      /\ \A q \in Rooms, b \in Dirs : <<q, b>> # <<r, d>> => ex[q][b] = exits[q][b]
  BY <1>3, <1>4, <1>5, OneExit
<1>8. R!Shows(c, editing[c], editors, ex)  BY <1>2
<1> HIDE DEF ex
<1>9. \A x \in Clients : Stack(editors[x], ex)  BY <1>3, <1>7, FreedStacks
<1>10. Stack(editing[c], ex)
  BY <1>3, Unshown DEF Stack, Editor
<1>11. DOMAIN editing = Clients /\ saved' = saved /\ created' \in 0 .. MaxCreated
  BY <1>2 DEF RoomsInv
<1> HIDE DEF editors
<1> QED  BY <1>4, <1>6, <1>7, <1>8, <1>9, <1>10, <1>11, ShowsInv

LEMMA ToRoomInv == ASSUME RoomsInv, NEW c \in Clients, R!exit_ToRoom(c) PROVE RoomsInv'
<1>1. CASE R!Top(c).freed  BY <1>1, LosesInv
<1>2. CASE ~ R!Top(c).freed
  <2> DEFINE r == R!Top(c).room
             d == R!Top(c).dir
  <2>1. R!Using(c, "exit") /\ UNCHANGED <<created, saved, deleted>>  BY DEF R!exit_ToRoom, R!history
  <2>2. PICK to \in room_hash : R!Shows(c, editing[c], editing, [exits EXCEPT ![r][d].to = to])
    BY <1>2 DEF R!exit_ToRoom
  <2>3. r \in Rooms /\ d \in Dirs /\ exits[r][d] # None  BY <1>2, <2>1, TopFacts DEF Editor
  <2> DEFINE e == [exits[r][d] EXCEPT !.to = to]
             ex == [exits EXCEPT ![r][d] = e]
  <2>4. exits[r][d] \in ExitOf(MaxRows) /\ to \in Rooms /\ to # None
    BY <2>3, RecordsAssumption DEF RoomsInv, Leads
  <2>5. e \in ExitOf(MaxRows) /\ e.to = to /\ e.id = exits[r][d].id /\ e # None
    <3>1. e \in ExitOf(MaxRows) /\ e.to = to /\ e.id = exits[r][d].id  BY <2>4 DEF ExitOf
    <3>2. e \in [to : Rooms \cup {None}, id : Nat]
      <4> HIDE DEF e
      <4> QED  BY <3>1, RecordsAssumption DEF ExitOf
    <3> HIDE DEF e
    <3> QED  BY <3>1, <3>2, RecordsAssumption
  <2>6. ex = [exits EXCEPT ![r][d].to = to]  OBVIOUS
  <2>7. KeptAt(exit, exits[r][d], saved[r][d], deleted, r, d)  BY <2>3 DEF RoomsInv, Kept
  <2> HIDE DEF r, d, e
  <2>8. KeptAt(exit, e, saved[r][d], deleted, r, d)  BY <2>3, <2>4, <2>5, <2>7 DEF KeptAt
  <2>9. /\ Leads(ex, room_hash, MaxRows) /\ Kept(exit, ex, saved, deleted) /\ ex[r][d] = e
        /\ \A q \in Rooms, b \in Dirs : <<q, b>> # <<r, d>> => ex[q][b] = exits[q][b]
    BY <2>3, <2>5, <2>8, OneExit
  <2>10. R!Shows(c, editing[c], editing, ex)  BY <2>2, <2>6
  <2> HIDE DEF ex
  <2>11. \A q \in Rooms, b \in Dirs : exits[q][b] # None => ex[q][b] # None  BY <2>5, <2>9
  <2>12. \A x \in Clients : Stack(editing[x], ex)  BY <2>11, StackStays, Unshown
  <2>13. /\ DOMAIN editing = Clients /\ created' \in 0 .. MaxCreated /\ saved' = saved
         /\ deleted' = deleted /\ deleted \subseteq Rooms \X Dirs
    BY <2>1 DEF RoomsInv
  <2> QED  BY <2>9, <2>10, <2>12, <2>13, ShowsInv
<1> QED  BY <1>1, <1>2

LEMMA CreateInv == ASSUME RoomsInv, NEW c \in Clients, R!edit_room_create(c) PROVE RoomsInv'
<1>1. PICK r \in Rooms \ room :
        /\ \A x \in Clients : \A i \in DOMAIN editing[x] : editing[x][i].room # r
        /\ R!Shows(c, <<R!Frame("room", r, None)>>, editing, [exits EXCEPT ![r] = R!NoExits])
  BY DEF R!edit_room_create
<1>2. /\ created < MaxCreated /\ created' = created + 1 /\ saved' = saved /\ deleted' = deleted
  BY DEF R!edit_room_create
<1> DEFINE f == R!Frame("room", r, None)
           ex == [exits EXCEPT ![r] = R!NoExits]
           stack == <<f>>
<1>3. /\ exits \in [Rooms -> [Dirs -> ExitOf(MaxRows) \cup {None}]]
      /\ R!NoExits = [d \in Dirs |-> None]
  BY DEF RoomsInv, Leads, R!NoExits, Dirs
<1>4. /\ ex \in [Rooms -> [Dirs -> ExitOf(MaxRows) \cup {None}]]
      /\ \A d \in Dirs : ex[r][d] = None
      /\ \A q \in Rooms \ {r} : ex[q] = exits[q]
  BY <1>3
<1> HIDE DEF ex
<1>5. Leads(ex, room_hash, MaxRows)  BY <1>4 DEF Leads, RoomsInv
<1>6. \A d \in Dirs : RowsOf(exit, r, d) = {}  BY DEF RoomsInv, Joins, RowsOf
<1>7. Kept(exit, ex, saved, deleted)
  <2>1. \A d \in Dirs : KeptAt(exit, exits[r][d], saved[r][d], deleted, r, d)  BY DEF RoomsInv, Kept
  <2>2. \A d \in Dirs : KeptAt(exit, ex[r][d], saved[r][d], deleted, r, d)
    BY <1>4, <1>6, <2>1 DEF KeptAt
  <2>3. \A q \in Rooms \ {r}, d \in Dirs : KeptAt(exit, ex[q][d], saved[q][d], deleted, q, d)
    BY <1>4 DEF RoomsInv, Kept
  <2> QED  BY <2>2, <2>3 DEF Kept
<1>8. ASSUME NEW x \in Clients PROVE Stack(editing[x], ex)
  <2>1. Stack(editing[x], exits) /\ \A i \in DOMAIN editing[x] : editing[x][i].room # r
    BY <1>1, Unshown
  <2> QED  BY <1>4, <2>1 DEF Stack, Editor
<1>9. Stack(stack, ex)
  <2>1. f \in FrameType /\ f.kind = "room" /\ f.room = r /\ ~ f.freed
    <3>1. "room" \in R!Kinds  BY DEF R!Kinds
    <3> QED  BY <3>1, FrameFacts
  <2>2. Editor(f, 1, ex)  BY <2>1 DEF Editor
  <2> HIDE DEF f
  <2>3. Editor(f, 1, ex) /\ f \in FrameType  BY <2>2 DEF Editor
  <2>4. stack \in Seq(FrameType) /\ DOMAIN stack = {1} /\ stack[1] = f  BY <2>3
  <2> HIDE DEF stack
  <2> QED  BY <2>3, <2>4 DEF Stack
<1>10. /\ DOMAIN editing = Clients /\ created' \in 0 .. MaxCreated
       /\ deleted \subseteq Rooms \X Dirs
  BY <1>2, RecordsAssumption DEF RoomsInv
<1>11. R!Shows(c, stack, editing, ex)  BY <1>1 DEF ex
<1> HIDE DEF stack
<1> QED  BY <1>2, <1>5, <1>7, <1>8, <1>9, <1>10, <1>11, ShowsInv

-----------------------------------------------------------------------------
(* Rooms: saving and loading.                                              *)

AnyExit == [to : Rooms \cup {None}, id : Nat]

\* The exits lead to rooms of rooms, or nowhere yet.
AnyLeads(ex, rooms) ==
  /\ ex \in [Rooms -> [Dirs -> AnyExit \cup {None}]]
  /\ \A r \in Rooms, d \in Dirs : ex[r][d] # None => ex[r][d].to \in rooms \cup {None}

\* Where each exit knows its row, none knows a row past the last.
LEMMA Bounded ==
  ASSUME NEW ex, NEW rooms, NEW u \in Seq(ExitRow), NEW sv, NEW left, AnyLeads(ex, rooms),
         Kept(u, ex, sv, left), Len(u) <= MaxRows
  PROVE  Leads(ex, rooms, MaxRows)
<1>1. ASSUME NEW r \in Rooms, NEW d \in Dirs, ex[r][d] # None
      PROVE  ex[r][d] \in ExitOf(MaxRows)
  <2>1. ex[r][d] \in AnyExit /\ KeptAt(u, ex[r][d], sv[r][d], left, r, d)
    BY <1>1 DEF AnyLeads, Kept
  <2>2. ex[r][d].id \in 0 .. MaxRows
    <3>1. CASE ex[r][d].id = 0  BY <3>1, RecordsAssumption
    <3>2. CASE ex[r][d].id # 0
      <4>1. ex[r][d].id \in 1 .. Len(u)  BY <1>1, <2>1, <3>2 DEF KeptAt, RowsOf
      <4> QED  BY <4>1, RecordsAssumption
    <3> QED  BY <3>1, <3>2
  <2> QED  BY <2>1, <2>2 DEF AnyExit, ExitOf
<1>2. ex \in [Rooms -> [Dirs -> ExitOf(MaxRows) \cup {None}]]
  <2>1. \A r \in Rooms : ex[r] \in [Dirs -> ExitOf(MaxRows) \cup {None}]
    BY <1>1 DEF AnyLeads
  <2> QED  BY <2>1 DEF AnyLeads
<1> QED  BY <1>2 DEF Leads, AnyLeads

LEMMA LeadsAny == ASSUME NEW ex, NEW rooms, Leads(ex, rooms, MaxRows) PROVE AnyLeads(ex, rooms)
<1>1. ExitOf(MaxRows) \subseteq AnyExit  BY RecordsAssumption DEF ExitOf, AnyExit
<1>2. ex \in [Rooms -> [Dirs -> AnyExit \cup {None}]]
  <2>1. \A r \in Rooms : ex[r] \in [Dirs -> AnyExit \cup {None}]  BY <1>1 DEF Leads
  <2> QED  BY <2>1 DEF Leads
<1> QED  BY <1>2 DEF Leads, AnyLeads

\* Saved exits are there as before, and lead where they did.
LEMMA InsertedTypes ==
  ASSUME RoomsInv, NEW t \in Seq(ExitRow), NEW r \in Rooms
  PROVE  /\ R!Inserted(t, r) \in [Dirs -> AnyExit \cup {None}]
         /\ \A d \in Dirs : /\ R!Inserted(t, r)[d] # None <=> exits[r][d] # None
                            /\ R!Inserted(t, r)[d] # None => R!Inserted(t, r)[d].to = exits[r][d].to
<1> DEFINE new == R!ToInsert(r)
           x == R!Inserted(t, r)
<1>1. /\ \A d \in Dirs : d \notin Range(new) => x[d] = exits[r][d]
      /\ \A i \in DOMAIN new : x[new[i]] = [to |-> exits[r][new[i]].to, id |-> Len(t) + i]
      /\ DOMAIN x = Dirs /\ x = [d \in Dirs |-> x[d]]
  BY RoomsTypes, InsertedFacts
<1>2. new \in Seq(Dirs) /\ Range(new) = {d \in R!HasRoom(r) : exits[r][d].id = 0}
  BY ToInsertFacts
<1> HIDE DEF x, new
<1>3. ASSUME NEW d \in Dirs
      PROVE  /\ x[d] \in AnyExit \cup {None}
             /\ x[d] # None <=> exits[r][d] # None
             /\ x[d] # None => x[d].to = exits[r][d].to
  <2>1. exits[r][d] \in AnyExit \cup {None}
    <3>1. AnyLeads(exits, room_hash)  BY LeadsAny DEF RoomsInv
    <3> QED  BY <3>1 DEF AnyLeads
  <2>2. CASE d \in Range(new)
    <3>1. PICK i \in DOMAIN new : new[i] = d  BY <2>2 DEF Range
    <3> DEFINE n == Len(t) + i
    <3>2. x[d] = [to |-> exits[r][d].to, id |-> n]  BY <1>1, <3>1
    <3>3. n \in Nat  BY <1>2
    <3> HIDE DEF n
    <3>4. exits[r][d] # None  BY <1>2, <2>2 DEF R!HasRoom
    <3>5. x[d] \in AnyExit  BY <2>1, <3>2, <3>3, <3>4 DEF AnyExit
    <3>6. x[d] # None  BY <3>5, RecordsAssumption DEF AnyExit
    <3>7. x[d].to = exits[r][d].to  BY <3>2
    <3> QED  BY <3>4, <3>5, <3>6, <3>7
  <2>3. CASE d \notin Range(new)  BY <1>1, <2>1, <2>3
  <2> QED  BY <2>2, <2>3
<1> QED  BY <1>1, <1>3 DEF x

\* One room is saved, of which nothing was since the others were.
LEMMA RoomSaved ==
  ASSUME RoomsInv, NEW r \in Rooms, NEW t, NEW ex, NEW sv, NEW rooms, r \in rooms, room_hash \subseteq rooms,
         ex[r] = exits[r], Joins(t, rooms), AnyLeads(ex, room_hash), Kept(t, ex, sv, deleted),
         sv \in [Rooms -> [Dirs -> Rooms \cup {None}]]
  PROVE  LET u == R!save_exits(t, r)
             ex1 == [ex EXCEPT ![r] = R!Inserted(t, r)]
             sv1 == [sv EXCEPT ![r] = R!Written(r)]
         IN /\ Joins(u, rooms) /\ Len(u) = Len(t) + Len(R!ToInsert(r))
            /\ AnyLeads(ex1, room_hash) /\ Kept(u, ex1, sv1, deleted)
            /\ sv1 \in [Rooms -> [Dirs -> Rooms \cup {None}]]
<1> DEFINE u == R!save_exits(t, r)
           x == R!Inserted(t, r)
           w == R!Written(r)
           new == R!ToInsert(r)
           ex1 == [ex EXCEPT ![r] = x]
           sv1 == [sv EXCEPT ![r] = w]
<1>0. R!TypeOK /\ t \in Seq(ExitRow) /\ DOMAIN ex = Rooms /\ DOMAIN sv = Rooms
  BY RoomsTypes DEF Joins, AnyLeads
<1>1. Kept(u, ex1, sv1, deleted)  BY <1>0, SavedKept
<1>2. \A d \in Dirs : exits[r][d] # None /\ exits[r][d].id # 0 => exits[r][d].id \in RowsOf(t, r, d)
  <2>1. \A d \in Dirs : KeptAt(t, exits[r][d], sv[r][d], deleted, r, d)  BY DEF Kept
  <2> QED  BY <2>1 DEF KeptAt
<1>3. /\ u \in Seq(ExitRow) /\ Len(u) = Len(t) + Len(new)
      /\ \A i \in 1 .. Len(t) :
           /\ u[i].from = t[i].from /\ u[i].dir = t[i].dir
           /\ u[i] = t[i] \/ (u[i].from = r /\ u[i].dir \in R!HasRoom(r)
                                /\ u[i].to = exits[r][u[i].dir].to)
      /\ \A i \in DOMAIN new : u[Len(t) + i] = R!Row(r, new[i])
  BY <1>0, <1>2, SavedExits
<1>4. \A d \in R!HasRoom(r) : d \in Dirs /\ exits[r][d].to \in room_hash
  BY DEF R!HasRoom, Dirs, RoomsInv, Leads
<1>5. x \in [Dirs -> AnyExit \cup {None}] /\ \A d \in Dirs : x[d] # None => x[d].to \in room_hash \cup {None}
  <2>1. /\ x \in [Dirs -> AnyExit \cup {None}]
        /\ \A d \in Dirs : /\ x[d] # None <=> exits[r][d] # None
                           /\ x[d] # None => x[d].to = exits[r][d].to
    BY <1>0, InsertedTypes
  <2> HIDE DEF x
  <2> QED  BY <2>1 DEF RoomsInv, Leads
<1>6. w \in [Dirs -> Rooms \cup {None}]
  <2>1. w = [d \in Dirs |-> IF d \in R!HasRoom(r) THEN exits[r][d].to ELSE None]
    BY DEF R!Written, Dirs
  <2>2. \A d \in R!HasRoom(r) : exits[r][d].to \in Rooms  BY <1>4 DEF RoomsInv
  <2> HIDE DEF w
  <2> QED  BY <2>1, <2>2
<1>7. new \in Seq(Dirs) /\ Range(new) \subseteq R!HasRoom(r)  BY ToInsertFacts
<1> HIDE DEF u, x, w, new
<1>8. Joins(u, rooms)
  <2>1. Len(t) \in Nat /\ Len(new) \in Nat /\ DOMAIN u = 1 .. Len(u) /\ DOMAIN new = 1 .. Len(new)
        /\ DOMAIN t = 1 .. Len(t)
    BY <1>0, <1>3, <1>7
  <2>2. ASSUME NEW i \in DOMAIN u PROVE u[i].from \in rooms /\ u[i].to \in rooms
    <3>1. CASE i \in 1 .. Len(t)
      <4>1. t[i].from \in rooms /\ t[i].to \in rooms  BY <2>1, <3>1 DEF Joins
      <4> QED  BY <1>3, <1>4, <3>1, <4>1
    <3>2. CASE i \notin 1 .. Len(t)
      <4> DEFINE k == i - Len(t)
      <4>1. k \in DOMAIN new /\ i = Len(t) + k  BY <1>3, <2>1, <3>2
      <4> HIDE DEF k
      <4>2. u[i] = R!Row(r, new[k]) /\ new[k] \in R!HasRoom(r)  BY <1>3, <1>7, <4>1 DEF Range
      <4>3. u[i].from = r /\ u[i].to = exits[r][new[k]].to  BY <4>2 DEF R!Row
      <4> QED  BY <1>4, <4>2, <4>3
    <3> QED  BY <3>1, <3>2
  <2> QED  BY <1>3, <2>2 DEF Joins
<1>9. AnyLeads(ex1, room_hash)
  <2>1. ex \in [Rooms -> [Dirs -> AnyExit \cup {None}]]  BY DEF AnyLeads
  <2>2. ex1 \in [Rooms -> [Dirs -> AnyExit \cup {None}]] /\ ex1[r] = x
        /\ \A q \in Rooms \ {r} : ex1[q] = ex[q]
    BY <1>5, <2>1
  <2> HIDE DEF ex1
  <2> QED  BY <1>5, <2>2 DEF AnyLeads
<1>10. sv1 \in [Rooms -> [Dirs -> Rooms \cup {None}]]  BY <1>6
<1> HIDE DEF ex1, sv1
<1> QED  BY <1>1, <1>3, <1>8, <1>9, <1>10 DEF u, x, w, new, ex1, sv1

\* Saving leaves every exit there that was.
LEMMA SavedStacks ==
  ASSUME RoomsInv, NEW ex,
         \A q \in Rooms : ex[q] = exits[q] \/ \E t \in Seq(ExitRow) : ex[q] = R!Inserted(t, q)
  PROVE  \A x \in Clients : Stack(editing[x], ex)
<1>1. ASSUME NEW q \in Rooms, NEW b \in Dirs, exits[q][b] # None PROVE ex[q][b] # None
  <2>1. CASE ex[q] = exits[q]  BY <1>1, <2>1
  <2>2. CASE \E t \in Seq(ExitRow) : ex[q] = R!Inserted(t, q)
    <3>1. PICK t \in Seq(ExitRow) : ex[q] = R!Inserted(t, q)  BY <2>2
    <3> QED  BY <1>1, <3>1, InsertedTypes
  <2> QED  BY <2>1, <2>2
<1> QED  BY <1>1, StackStays, Unshown

LEMMA SaveRoomInv == ASSUME RoomsInv, NEW c \in Clients, R!save_room(c) PROVE RoomsInv'
<1> DEFINE r == R!Top(c).room
           u == R!save_exits(exit, r)
           ex1 == [exits EXCEPT ![r] = R!Inserted(exit, r)]
           sv1 == [saved EXCEPT ![r] = R!Written(r)]
           rooms == room \cup {r}
<1>1. R!Using(c, "room") /\ Len(exit) + Len(R!ToInsert(r)) <= MaxRows
  BY DEF R!save_room
<1>2. /\ room' = rooms /\ exit' = u /\ exits' = ex1 /\ saved' = sv1
      /\ UNCHANGED <<editing, room_hash, created, deleted, lost>>
  BY DEF R!save_room
<1>3. r \in Rooms  BY <1>1, TopFacts DEF Editor
<1>4. /\ Joins(exit, rooms) /\ AnyLeads(exits, room_hash) /\ Kept(exit, exits, saved, deleted)
      /\ saved \in [Rooms -> [Dirs -> Rooms \cup {None}]]
      /\ room_hash \subseteq rooms /\ rooms \subseteq Rooms /\ r \in rooms
  BY <1>3, LeadsAny DEF RoomsInv, Joins
<1> HIDE DEF r, rooms
<1>5. /\ Joins(u, rooms) /\ Len(u) = Len(exit) + Len(R!ToInsert(r))
      /\ AnyLeads(ex1, room_hash) /\ Kept(u, ex1, sv1, deleted)
      /\ sv1 \in [Rooms -> [Dirs -> Rooms \cup {None}]]
  BY <1>3, <1>4, RoomSaved
<1>6. Len(u) <= MaxRows /\ u \in Seq(ExitRow)  BY <1>1, <1>5 DEF Joins
<1>7. \A q \in Rooms : ex1[q] = exits[q] \/ \E t \in Seq(ExitRow) : ex1[q] = R!Inserted(t, q)
  <2>1. DOMAIN exits = Rooms /\ exit \in Seq(ExitRow)  BY DEF RoomsInv, Leads, Joins
  <2> QED  BY <2>1
<1> HIDE DEF u, ex1, sv1
<1>8. Leads(ex1, room_hash, MaxRows)  BY <1>5, <1>6, Bounded
<1>9. \A x \in Clients : Stack(editing[x], ex1)  BY <1>7, SavedStacks
<1>10. Built \subseteq rooms  BY DEF RoomsInv, rooms
<1> QED  BY <1>2, <1>4, <1>5, <1>6, <1>8, <1>9, <1>10 DEF RoomsInv

\* The rooms in the order they are saved.
LEMMA AllRooms ==
  ASSUME NEW S \in SUBSET Rooms
  PROVE  LET all == R!SetToSeq(S) IN all \in Seq(S) /\ all \in Seq(Rooms) /\ Distinct(all) /\ Range(all) = S
<1> DEFINE all == R!SetToSeq(S)
<1>1. IsFiniteSet(S)  BY RecordsAssumption, FS_Subset
<1>2. all \in Seq(S) /\ Distinct(all) /\ Range(all) = S  BY <1>1, SetToSeqFacts
<1> HIDE DEF all
<1>3. all \in Seq(Rooms)  BY <1>2, SeqWider
<1> QED  BY <1>2, <1>3 DEF all

\* A table stays a table.
LEMMA SavedTyped ==
  ASSUME RoomsInv, NEW t \in Seq(ExitRow), NEW r \in Rooms
  PROVE  R!save_exits(t, r) \in Seq(ExitRow)
<1> DEFINE new == R!ToInsert(r)
           H == R!HasRoom(r)
           Ours(i) == {d \in H : exits[r][d].id = i}
           old == [i \in DOMAIN t |-> IF Ours(i) = {} THEN t[i]
                                      ELSE R!Row(r, CHOOSE d \in Ours(i) : TRUE)]
           added == [i \in DOMAIN new |-> R!Row(r, new[i])]
<1>1. R!save_exits(t, r) = old \o added  BY DEF R!save_exits
<1>2. \A d \in H : d \in Dirs /\ exits[r][d].to \in Rooms
  BY DEF R!HasRoom, Dirs, RoomsInv, Leads
<1>3. \A d \in H : R!Row(r, d) \in ExitRow  BY <1>2 DEF R!Row, ExitRow
<1>4. new \in Seq(Dirs) /\ Range(new) \subseteq H  BY ToInsertFacts
<1>5. Len(t) \in Nat /\ DOMAIN t = 1 .. Len(t) /\ Len(new) \in Nat /\ DOMAIN new = 1 .. Len(new)
  BY <1>4
<1> HIDE DEF H, new
<1>6. added \in [1 .. Len(new) -> ExitRow]
  <2>1. \A i \in 1 .. Len(new) : new[i] \in H  BY <1>4, <1>5 DEF Range
  <2> QED  BY <1>3, <1>5, <2>1
<1>7. old \in [1 .. Len(t) -> ExitRow]
  <2>1. \A i \in 1 .. Len(t) : Ours(i) # {} => (CHOOSE d \in Ours(i) : TRUE) \in H
    OBVIOUS
  <2>2. \A i \in 1 .. Len(t) : t[i] \in ExitRow  OBVIOUS
  <2> HIDE DEF Ours
  <2> QED  BY <1>3, <1>5, <2>1, <2>2
<1> HIDE DEF old, added
<1>8. old \in Seq(ExitRow)  BY <1>5, <1>7
<1>9. added \in Seq(ExitRow)  BY <1>5, <1>6
<1> QED  BY <1>1, <1>8, <1>9, ConcatRange

\* The tables while an area is saved.
LEMMA TablesFacts ==
  ASSUME RoomsInv, NEW all \in Seq(Rooms)
  PROVE  /\ R!Tables(all)[0] = exit
         /\ \A i \in 1 .. Len(all) :
              R!Tables(all)[i] = R!save_exits(R!Tables(all)[i - 1], all[i])
<1> DEFINE n == Len(all)
           T == Seq(ExitRow)
           step == [p \in T \X (1 .. n) |-> R!save_exits(p[1], all[p[2]])]
           Is(f) == f = [i \in 0 .. n |-> IF i = 0 THEN exit ELSE R!save_exits(f[i - 1], all[i])]
<1>1. n \in Nat /\ exit \in T  BY DEF RoomsInv, Joins
<1>2. step \in [T \X (1 .. n) -> T]
  <2>1. ASSUME NEW p \in T \X (1 .. n) PROVE R!save_exits(p[1], all[p[2]]) \in T
    <3>1. p[1] \in Seq(ExitRow) /\ all[p[2]] \in Rooms  OBVIOUS
    <3> HIDE DEF T
    <3> QED  BY <3>1, SavedTyped DEF T
  <2> HIDE DEF T, n
  <2> QED  BY <2>1
<1>3. PICK f : f \in [0 .. n -> T] /\ f[0] = exit /\ \A i \in 1 .. n : f[i] = step[<<f[i - 1], i>>]
  <2> HIDE DEF n, T, step, Is
  <2>1. \E f : Steps(f, n, T, exit, step)  BY <1>1, <1>2, StepsExist
  <2> QED  BY <2>1 DEF Steps
<1>4. \A i \in 1 .. n : i - 1 \in 0 .. n /\ f[i] = R!save_exits(f[i - 1], all[i])
  <2> SUFFICES ASSUME NEW i \in 1 .. n
               PROVE  i - 1 \in 0 .. n /\ f[i] = R!save_exits(f[i - 1], all[i])
    OBVIOUS
  <2>1. i - 1 \in 0 .. n  BY <1>1
  <2>2. <<f[i - 1], i>> \in T \X (1 .. n)  BY <1>3, <2>1
  <2>3. step[<<f[i - 1], i>>] = R!save_exits(f[i - 1], all[i])
    <3> HIDE DEF T, n
    <3> QED  BY <2>2
  <2> QED  BY <1>3, <2>1, <2>3
<1>5. Is(f)
  <2>1. \A i \in 0 .. n : f[i] = IF i = 0 THEN exit ELSE R!save_exits(f[i - 1], all[i])
    <3>1. \A i \in 0 .. n : i # 0 => i \in 1 .. n  BY <1>1
    <3> HIDE DEF n
    <3> QED  BY <1>3, <1>4, <3>1
  <2> HIDE DEF n, T
  <2> QED  BY <1>3, <2>1
<1>6. Is(CHOOSE g : Is(g))
  <2> HIDE DEF Is
  <2> QED  BY <1>5
<1>7. R!Tables(all) = CHOOSE g : Is(g)  BY DEF R!Tables
<1> DEFINE g == R!Tables(all)
<1>8. Is(g)  BY <1>6, <1>7
<1> HIDE DEF g
<1>9. g[0] = exit /\ \A i \in 1 .. n : g[i] = R!save_exits(g[i - 1], all[i])
  <2>1. 0 \in 0 .. n /\ \A i \in 1 .. n : i \in 0 .. n /\ i # 0  BY <1>1
  <2> HIDE DEF n
  <2>2. \A i \in 0 .. n : g[i] = IF i = 0 THEN exit ELSE R!save_exits(g[i - 1], all[i])
    BY <1>8
  <2> QED  BY <2>1, <2>2
<1> QED  BY <1>9 DEF g

\* The rooms of the area are saved one after the other.
LEMMA SaveAreaInv == ASSUME RoomsInv, NEW c \in Clients, R!save_area(c) PROVE RoomsInv'
<1> DEFINE all == R!SetToSeq(room_hash)
           n == Len(all)
           table == R!Tables(all)
           Pos(r) == CHOOSE i \in DOMAIN all : all[i] = r
           Done(i) == {all[j] : j \in 1 .. i}
           E(i) == [q \in Rooms |-> IF q \in Done(i) THEN R!Inserted(table[Pos(q) - 1], q) ELSE exits[q]]
           S(i) == [q \in Rooms |-> IF q \in Done(i) THEN R!Written(q) ELSE saved[q]]
<1>1. /\ Len(table[n]) <= MaxRows /\ exit' = table[n]
      /\ exits' = [r \in Rooms |-> IF r \in room_hash THEN R!Inserted(table[Pos(r) - 1], r) ELSE exits[r]]
      /\ saved' = [r \in Rooms |-> IF r \in room_hash THEN R!Written(r) ELSE saved[r]]
      /\ UNCHANGED <<editing, room_hash, room, created, deleted, lost>>
  BY DEF R!save_area
<1>2. /\ all \in Seq(room_hash) /\ all \in Seq(Rooms) /\ Distinct(all) /\ Range(all) = room_hash
      /\ room_hash \subseteq Rooms
  <2>1. room_hash \in SUBSET Rooms  BY DEF RoomsInv
  <2> QED  BY <2>1, AllRooms
<1>3. table[0] = exit /\ \A i \in 1 .. n : table[i] = R!save_exits(table[i - 1], all[i])
  <2> HIDE DEF all
  <2> QED  BY <1>2, TablesFacts
<1>4. n \in Nat /\ DOMAIN all = 1 .. n /\ \A i \in 1 .. n : all[i] \in room_hash /\ all[i] \in Rooms
  BY <1>2
<1>5. \A i \in 1 .. n : Pos(all[i]) = i  BY <1>2, <1>4 DEF Distinct
<1> HIDE DEF all, table, Pos
<1> DEFINE Good(i) == /\ Joins(table[i], room) /\ AnyLeads(E(i), room_hash)
                      /\ Kept(table[i], E(i), S(i), deleted)
                      /\ S(i) \in [Rooms -> [Dirs -> Rooms \cup {None}]]
                      /\ \A q \in Rooms : E(i)[q] = exits[q] \/ \E t \in Seq(ExitRow) : E(i)[q] = R!Inserted(t, q)
<1>6. Done(0) = {}  OBVIOUS
<1>7. E(0) = exits /\ S(0) = saved
  <2>1. /\ E(0) = [q \in Rooms |-> exits[q]] /\ S(0) = [q \in Rooms |-> saved[q]]
    <3> HIDE DEF Done
    <3> QED  BY <1>6
  <2> QED  BY <2>1 DEF RoomsInv, Leads
<1>8. Good(0)
  <2> HIDE DEF E, S
  <2>1. AnyLeads(exits, room_hash)  BY LeadsAny DEF RoomsInv
  <2> QED  BY <1>3, <1>7, <2>1 DEF RoomsInv
<1>9. ASSUME NEW i \in 1 .. n, Good(i - 1) PROVE Good(i)
  <2> DEFINE r == all[i]
             t == table[i - 1]
             x == R!Inserted(t, r)
             w == R!Written(r)
  <2>1. r \in Rooms /\ r \in room_hash /\ r \in room  BY <1>4 DEF RoomsInv
  <2>2. Done(i) = Done(i - 1) \cup {r} /\ r \notin Done(i - 1)
    <3>1. \A j \in 1 .. i : j \in 1 .. i - 1 \/ j = i  BY <1>4
    <3>2. \A j \in 1 .. i - 1 : j \in 1 .. i /\ j \in 1 .. n /\ j # i  BY <1>4
    <3>3. i \in 1 .. i  OBVIOUS
    <3>4. \A j \in 1 .. i - 1 : all[j] # all[i]  BY <1>2, <1>4, <3>2 DEF Distinct
    <3> QED  BY <3>1, <3>2, <3>3, <3>4
  <2>3. Pos(r) = i  BY <1>5
  <2> HIDE DEF Done
  <2>4. E(i - 1)[r] = exits[r]  BY <2>1, <2>2
  <2>5. E(i) = [E(i - 1) EXCEPT ![r] = x]
    <3>1. \A q \in Rooms : E(i)[q] = IF q = r THEN x ELSE E(i - 1)[q]
      <4> SUFFICES ASSUME NEW q \in Rooms PROVE E(i)[q] = IF q = r THEN x ELSE E(i - 1)[q]
        OBVIOUS
      <4>1. CASE q = r
        <5>1. E(i)[q] = R!Inserted(table[Pos(q) - 1], q)  BY <2>2, <4>1
        <5> QED  BY <2>3, <4>1, <5>1
      <4>2. CASE q # r  BY <2>2, <4>2
      <4> QED  BY <4>1, <4>2
    <3>2. DOMAIN E(i) = Rooms /\ DOMAIN E(i - 1) = Rooms /\ E(i) = [q \in Rooms |-> E(i)[q]]
      OBVIOUS
    <3> HIDE DEF E, x
    <3> QED  BY <3>1, <3>2
  <2>6. S(i) = [S(i - 1) EXCEPT ![r] = w]
    <3>1. \A q \in Rooms : S(i)[q] = IF q = r THEN w ELSE S(i - 1)[q]
      <4> SUFFICES ASSUME NEW q \in Rooms PROVE S(i)[q] = IF q = r THEN w ELSE S(i - 1)[q]
        OBVIOUS
      <4>1. CASE q = r  BY <2>2, <4>1
      <4>2. CASE q # r  BY <2>2, <4>2
      <4> QED  BY <4>1, <4>2
    <3>2. DOMAIN S(i) = Rooms /\ DOMAIN S(i - 1) = Rooms /\ S(i) = [q \in Rooms |-> S(i)[q]]
      OBVIOUS
    <3> HIDE DEF S, w
    <3> QED  BY <3>1, <3>2
  <2>7. t \in Seq(ExitRow) /\ DOMAIN E(i - 1) = Rooms  BY <1>9 DEF Joins
  <2>8. table[i] = R!save_exits(t, r)  BY <1>3
  <2>9. room_hash \subseteq room  BY DEF RoomsInv
  <2>10. /\ Joins(t, room) /\ AnyLeads(E(i - 1), room_hash) /\ Kept(t, E(i - 1), S(i - 1), deleted)
         /\ S(i - 1) \in [Rooms -> [Dirs -> Rooms \cup {None}]]
         /\ \A q \in Rooms : E(i - 1)[q] = exits[q] \/ \E u \in Seq(ExitRow) : E(i - 1)[q] = R!Inserted(u, q)
    BY <1>9
  <2> HIDE DEF E, S, r, t, Good
  <2>11. /\ Joins(table[i], room) /\ AnyLeads(E(i), room_hash) /\ Kept(table[i], E(i), S(i), deleted)
         /\ S(i) \in [Rooms -> [Dirs -> Rooms \cup {None}]]
    <3> DEFINE ex == E(i - 1)
               sv == S(i - 1)
               u == R!save_exits(t, r)
               ex1 == [ex EXCEPT ![r] = R!Inserted(t, r)]
               sv1 == [sv EXCEPT ![r] = R!Written(r)]
    <3>1. /\ ex[r] = exits[r] /\ Joins(t, room) /\ AnyLeads(ex, room_hash) /\ Kept(t, ex, sv, deleted)
          /\ sv \in [Rooms -> [Dirs -> Rooms \cup {None}]]
      BY <2>4, <2>10
    <3> HIDE DEF ex, sv
    <3>2. /\ Joins(u, room)
          /\ AnyLeads(ex1, room_hash) /\ Kept(u, ex1, sv1, deleted)
          /\ sv1 \in [Rooms -> [Dirs -> Rooms \cup {None}]]
      BY <2>1, <2>9, <3>1, RoomSaved
    <3>3. u = table[i] /\ ex1 = E(i) /\ sv1 = S(i)
      BY <2>5, <2>6, <2>8 DEF x, w, ex, sv
    <3> HIDE DEF u, ex1, sv1
    <3> QED  BY <3>2, <3>3
  <2>12. \A q \in Rooms : E(i)[q] = exits[q] \/ \E u \in Seq(ExitRow) : E(i)[q] = R!Inserted(u, q)
    <3>1. ASSUME NEW q \in Rooms PROVE E(i)[q] = IF q = r THEN x ELSE E(i - 1)[q]
      <4> HIDE DEF x
      <4> QED  BY <2>5, <2>7
    <3> QED  BY <2>7, <2>10, <3>1
  <2> QED  BY <2>11, <2>12 DEF Good
<1>10. Good(n)
  <2> DEFINE G == {i \in 0 .. n : Good(i)}
  <2> HIDE DEF Good
  <2>1. 0 \in G  BY <1>4, <1>8
  <2>2. ASSUME NEW i \in 1 .. n, i - 1 \in G PROVE i \in G
    BY <1>4, <1>9, <2>2
  <2> HIDE DEF G
  <2>3. 0 .. n \subseteq G  BY <1>4, <2>1, <2>2, Upwards
  <2>4. n \in G  BY <1>4, <2>3
  <2> QED  BY <2>4 DEF G
<1>11. Done(n) = room_hash  BY <1>2, <1>4 DEF Range
<1>12. exits' = E(n) /\ saved' = S(n)
  <2> HIDE DEF Done
  <2> QED  BY <1>1, <1>11
<1> HIDE DEF E, S
<1>13. Leads(E(n), room_hash, MaxRows)
  <2>1. table[n] \in Seq(ExitRow)  BY <1>10 DEF Joins
  <2> QED  BY <1>1, <1>10, <2>1, Bounded
<1>14. \A x \in Clients : Stack(editing[x], E(n))  BY <1>10, SavedStacks
<1> QED  BY <1>1, <1>10, <1>12, <1>13, <1>14 DEF RoomsInv

\* The row an exit is loaded from is the first of its place.
LEMMA LoadedExit ==
  ASSUME RoomsInv, NEW r \in Rooms, NEW d \in Dirs
  PROVE  LET rows == RowsOf(exit, r, d)  e == R!load_exits(r, d)
         IN /\ rows = {} => e = None
            /\ rows # {} => /\ e \in ExitOf(MaxRows) /\ e # None /\ e.id # 0
                            /\ e.id \in rows /\ \A i \in rows : e.id <= i
                            /\ e.to = exit[e.id].to /\ e.to \in room
<1> DEFINE rows == RowsOf(exit, r, d)
           m == R!Min(rows)
           e == R!load_exits(r, d)
<1>1. e = IF rows = {} THEN None
          ELSE [to |-> IF exit[m].to \in room THEN exit[m].to ELSE None, id |-> m]
  BY DEF R!load_exits, RowsOf
<1>2. CASE rows = {}
  <2>1. e = None  BY <1>1, <1>2
  <2> HIDE DEF e, rows
  <2> QED  BY <1>2, <2>1 DEF e, rows
<1>3. CASE rows # {}
  <2>1. Joins(exit, room) /\ exit \in Seq(ExitRow) /\ Len(exit) \in Nat /\ Len(exit) <= MaxRows
        /\ room \subseteq Rooms
    BY DEF RoomsInv, Joins
  <2>2. rows \in SUBSET (1 .. Len(exit))  BY <2>1 DEF RowsOf
  <2> HIDE DEF rows
  <2>3. m \in rows /\ \A i \in rows : m <= i
    <3>1. rows \in SUBSET Nat  BY <2>1, <2>2
    <3>2. \E k \in rows : \A i \in rows : k <= i  BY <1>3, <3>1, LeastNat
    <3> QED  BY <3>2 DEF R!Min
  <2> HIDE DEF m
  <2>4. m \in 1 .. Len(exit)  BY <2>2, <2>3
  <2>5. exit[m].to \in room /\ exit[m].to \in Rooms  BY <2>1, <2>4 DEF Joins
  <2>6. e = [to |-> exit[m].to, id |-> m]  BY <1>1, <1>3, <2>5
  <2> HIDE DEF e
  <2>7. m \in 0 .. MaxRows /\ m # 0  BY <2>1, <2>4, RecordsAssumption
  <2>8. e.to = exit[m].to /\ e.id = m  BY <2>6
  <2>9. e \in ExitOf(MaxRows) /\ e \in [to : Rooms \cup {None}, id : Nat]
    BY <2>5, <2>6, <2>7 DEF ExitOf
  <2>10. e # None  BY <2>9, RecordsAssumption
  <2> QED  BY <1>3, <2>3, <2>5, <2>7, <2>8, <2>9, <2>10 DEF e, rows
<1> QED  BY <1>2, <1>3

\* The next start.
LEMMA RestartInv == ASSUME RoomsInv, R!Restart PROVE RoomsInv'
<1> DEFINE loaded == [r \in Rooms |-> [d \in Dirs |-> R!load_exits(r, d)]]
           sv == [r \in Rooms |-> [d \in Dirs |->
                    IF loaded[r][d] = None THEN None ELSE loaded[r][d].to]]
<1>1. /\ editing' = [c \in Clients |-> <<>>] /\ exits' = loaded /\ room_hash' = room
      /\ saved' = sv /\ created' = 0 /\ deleted' = {} /\ lost' = "no"
      /\ UNCHANGED <<room, exit>>
  BY DEF R!Restart, Dirs
<1>2. ASSUME NEW r \in Rooms, NEW d \in Dirs
      PROVE  /\ loaded[r][d] \in ExitOf(MaxRows) \cup {None}
             /\ loaded[r][d] # None => loaded[r][d].to \in room
             /\ sv[r][d] \in Rooms \cup {None}
             /\ KeptAt(exit, loaded[r][d], sv[r][d], {}, r, d)
  <2> DEFINE e == R!load_exits(r, d)
             rows == RowsOf(exit, r, d)
  <2>1. loaded[r][d] = e /\ sv[r][d] = IF e = None THEN None ELSE e.to  OBVIOUS
  <2>2. /\ rows = {} => e = None
        /\ rows # {} => /\ e \in ExitOf(MaxRows) /\ e # None /\ e.id # 0
                        /\ e.id \in rows /\ \A i \in rows : e.id <= i
                        /\ e.to = exit[e.id].to /\ e.to \in room
    BY LoadedExit
  <2>3. room \subseteq Rooms /\ None \notin Rooms  BY RecordsAssumption DEF RoomsInv
  <2> HIDE DEF loaded, sv, e
  <2>4. KeptAt(exit, e, IF e = None THEN None ELSE e.to, {}, r, d)
    <3>1. CASE rows = {}  BY <2>2, <3>1 DEF KeptAt
    <3>2. CASE rows # {}  BY <2>2, <2>3, <3>2 DEF KeptAt
    <3> QED  BY <3>1, <3>2
  <2> QED  BY <2>1, <2>2, <2>3, <2>4
<1>3. loaded \in [Rooms -> [Dirs -> ExitOf(MaxRows) \cup {None}]]
  <2>1. \A r \in Rooms : loaded[r] \in [Dirs -> ExitOf(MaxRows) \cup {None}]
    <3> SUFFICES ASSUME NEW r \in Rooms PROVE loaded[r] \in [Dirs -> ExitOf(MaxRows) \cup {None}]
      OBVIOUS
    <3>1. loaded[r] = [d \in Dirs |-> loaded[r][d]]  OBVIOUS
    <3> HIDE DEF loaded
    <3> QED  BY <1>2, <3>1
  <2>2. loaded = [r \in Rooms |-> loaded[r]]  OBVIOUS
  <2> HIDE DEF loaded
  <2> QED  BY <2>1, <2>2
<1>4. sv \in [Rooms -> [Dirs -> Rooms \cup {None}]]
  <2>1. \A r \in Rooms : sv[r] \in [Dirs -> Rooms \cup {None}]
    <3> SUFFICES ASSUME NEW r \in Rooms PROVE sv[r] \in [Dirs -> Rooms \cup {None}]
      OBVIOUS
    <3>1. sv[r] = [d \in Dirs |-> sv[r][d]]  OBVIOUS
    <3> HIDE DEF sv
    <3> QED  BY <1>2, <3>1
  <2>2. sv = [r \in Rooms |-> sv[r]]  OBVIOUS
  <2> HIDE DEF sv
  <2> QED  BY <2>1, <2>2
<1> HIDE DEF loaded, sv
<1>5. Leads(loaded, room, MaxRows)  BY <1>2, <1>3 DEF Leads
<1>6. Kept(exit, loaded, sv, {})  BY <1>2 DEF Kept
<1>7. \A c \in Clients : Stack(editing'[c], loaded)  BY <1>1, EmptyStack
<1> QED  BY <1>1, <1>4, <1>5, <1>6, <1>7, RecordsAssumption DEF RoomsInv

LEMMA RoomsStep == ASSUME RoomsInv, R!Next PROVE RoomsInv'
<1>1. CASE R!Restart  BY <1>1, RestartInv
<1>2. ASSUME NEW c \in Clients, R!Step(c) PROVE RoomsInv'
  <2>1. CASE R!edit_room(c) \/ R!edit_area(c) \/ R!edit_text(c) \/ R!edit_exits(c)
    BY <2>1, EditInv
  <2>2. CASE R!edit_room_create(c)  BY <2>2, CreateInv
  <2>3. CASE R!finish_editing(c)  BY <2>3, FinishInv
  <2>4. CASE R!Leave(c) \/ R!string_lineadd(c)  BY <2>4, LosesInv
  <2>5. CASE R!dig(c)  BY <2>5, DigInv
  <2>6. CASE R!exits_edit(c)  BY <2>6, ExitsEditInv
  <2>7. CASE R!exits_delete(c)  BY <2>7, ExitsDeleteInv
  <2>8. CASE R!exit_ToRoom(c)  BY <2>8, ToRoomInv
  <2>9. CASE R!save_room(c)  BY <2>9, SaveRoomInv
  <2>10. CASE R!save_area(c)  BY <2>10, SaveAreaInv
  <2> QED
    BY <1>2, <2>1, <2>2, <2>3, <2>4, <2>5, <2>6, <2>7, <2>8, <2>9, <2>10 DEF R!Step
<1> QED  BY <1>1, <1>2 DEF R!Next

LEMMA RoomsStutter ==
  ASSUME RoomsInv, UNCHANGED <<editing, exits, room_hash, room, exit, created, saved, deleted, lost>>
  PROVE  RoomsInv'
<1>1. \A c \in Clients : Stack(editing'[c], exits')  BY Unshown
<1> QED  BY <1>1 DEF RoomsInv

\* What the invariant says of the next start.
LEMMA ComesBack == ASSUME RoomsInv PROVE R!SavedComesBack
<1>1. ASSUME NEW r \in room, NEW d \in R!Dirs, <<r, d>> \notin deleted
      PROVE  saved[r][d] = IF R!load_exits(r, d) = None THEN None ELSE R!load_exits(r, d).to
  <2> DEFINE e == R!load_exits(r, d)
             x == exits[r][d]
             rows == RowsOf(exit, r, d)
  <2>1. r \in Rooms /\ d \in Dirs  BY DEF RoomsInv, Dirs
  <2>2. KeptAt(exit, x, saved[r][d], deleted, r, d)  BY <2>1 DEF RoomsInv, Kept
  <2>3. /\ rows = {} => e = None
        /\ rows # {} => /\ e # None /\ e.id \in rows /\ \A i \in rows : e.id <= i
                        /\ e.to = exit[e.id].to
    BY <2>1, LoadedExit
  <2>4. rows \subseteq Nat  BY DEF RowsOf, RoomsInv, Joins
  <2> HIDE DEF e, x
  <2>5. CASE rows = {}
    <3>1. saved[r][d] = None  BY <1>1, <2>2, <2>5 DEF KeptAt
    <3> QED  BY <2>3, <2>5, <3>1 DEF e
  <2>6. CASE rows # {}
    <3>1. x # None /\ x.id # 0 /\ x.id \in rows /\ saved[r][d] = exit[x.id].to
          /\ \A i \in rows : x.id <= i
      BY <1>1, <2>2, <2>6 DEF KeptAt
    <3>2. e # None /\ e.id \in rows /\ e.to = exit[e.id].to /\ \A i \in rows : e.id <= i
      BY <2>3, <2>6
    <3> HIDE DEF rows
    <3>3. x.id = e.id
      <4>1. x.id \in Nat /\ e.id \in Nat  BY <2>4, <3>1, <3>2
      <4>2. x.id <= e.id /\ e.id <= x.id  BY <3>1, <3>2
      <4> QED  BY <4>1, <4>2
    <3>4. saved[r][d] = IF e = None THEN None ELSE e.to  BY <3>1, <3>2, <3>3
    <3> QED  BY <3>4 DEF e
  <2> QED  BY <2>5, <2>6
<1>2. \A i \in DOMAIN exit : {exit[i].from, exit[i].to} \subseteq room  BY DEF RoomsInv, Joins
<1>3. \A r \in Rooms, d \in R!Dirs : exits[r][d] # None => exits[r][d].to \in room_hash \cup {None}
  BY DEF RoomsInv, Leads, Dirs
<1> HIDE DEF RoomsInv
<1> QED  BY <1>1, <1>2, <1>3 DEF R!SavedComesBack

-----------------------------------------------------------------------------
(* Rooms: who frees an exit under an editor.                               *)

\* Every freed editor of s was freed before, or another builder is deleting exits there.
Fair(c, s) ==
  \A i \in DOMAIN s : s[i].freed =>
    \/ i \in DOMAIN editing[c] /\ editing[c][i].freed
    \/ \E x \in Clients \ {c} : R!Using(x, "exits") /\ R!Top(x).room = s[i].room

LEMMA EmptyFair == ASSUME NEW c, NEW s, s = <<>> PROVE Fair(c, s)
BY DEF Fair

LEMMA SameFair == ASSUME NEW c PROVE Fair(c, editing[c])
BY DEF Fair

LEMMA LosesFair ==
  ASSUME NEW cause, R!Loses(cause)
  PROVE  \A x \in Clients : Fair(x, editing'[x])
<1>1. \A x \in Clients : editing'[x] = <<>>  BY DEF R!Loses
<1> QED  BY <1>1, EmptyFair

LEMMA ShowsFair ==
  ASSUME NEW c \in Clients, NEW stack, NEW editors, NEW ex, DOMAIN editors = Clients,
         R!Shows(c, stack, editors, ex), Fair(c, stack),
         \A x \in Clients \ {c} : Fair(x, editors[x])
  PROVE  \A x \in Clients : Fair(x, editing'[x])
<1>1. CASE R!Fault(stack, ex) = "no"
  <2>1. editing' = [editors EXCEPT ![c] = stack]  BY <1>1 DEF R!Shows
  <2>2. \A x \in Clients : editing'[x] = IF x = c THEN stack ELSE editors[x]  BY <2>1
  <2> QED  BY <2>2
<1>2. CASE R!Fault(stack, ex) # "no"  BY <1>2, LosesFair DEF R!Shows
<1> QED  BY <1>1, <1>2

\* A new editor is not freed, nor is one it is put on.
LEMMA PushFair ==
  ASSUME RoomsInv, NEW c \in Clients, NEW f, NEW ex, R!Push(c, f, ex), f \in FrameType, ~ f.freed,
         \A i \in DOMAIN editing[c] : editing[c][i].kind # "exit"
  PROVE  \A x \in Clients : Fair(x, editing'[x])
<1> DEFINE s == editing[c]
           t == <<f>> \o s
<1>1. s \in Seq(FrameType) /\ \A i \in DOMAIN s : ~ s[i].freed  BY Unshown DEF Stack, Editor
<1>2. /\ t \in Seq(FrameType) /\ Len(t) = 1 + Len(s) /\ t[1] = f
      /\ \A i \in 2 .. Len(t) : i - 1 \in DOMAIN s /\ t[i] = s[i - 1]
  BY <1>1
<1> HIDE DEF t
<1>3. \A i \in DOMAIN t : i = 1 \/ i \in 2 .. Len(t)  BY <1>2
<1>4. \A i \in DOMAIN t : ~ t[i].freed  BY <1>1, <1>2, <1>3
<1>5. Fair(c, t)  BY <1>4 DEF Fair
<1>6. R!Shows(c, t, editing, ex) /\ DOMAIN editing = Clients  BY DEF R!Push, t, RoomsInv
<1> QED  BY <1>5, <1>6, SameFair, ShowsFair

LEMMA EditFair ==
  ASSUME RoomsInv, NEW c \in Clients,
         R!edit_room(c) \/ R!edit_area(c) \/ R!edit_text(c) \/ R!edit_exits(c)
           \/ R!dig(c) \/ R!exits_edit(c)
  PROVE  \A x \in Clients : Fair(x, editing'[x])
<1>1. PICK k \in R!Kinds, r \in Rooms \cup {None}, d \in Dirs \cup {None} :
        /\ \E ex : R!Push(c, R!Frame(k, r, d), ex)
        /\ \A i \in DOMAIN editing[c] : editing[c][i].kind # "exit"
  <2>0. {"room", "exits", "exit", "text", "area"} \subseteq R!Kinds  BY DEF R!Kinds
  <2>1. CASE R!edit_room(c)
    <3>1. PICK r \in room_hash : R!Push(c, R!Frame("room", r, None), exits)
      BY <2>1 DEF R!edit_room
    <3>2. r \in Rooms /\ editing[c] = <<>>  BY <2>1 DEF R!edit_room, RoomsInv
    <3> QED  BY <2>0, <3>1, <3>2
  <2>2. CASE R!edit_area(c)
    <3>1. R!Push(c, R!Frame("area", None, None), exits) /\ editing[c] = <<>>
      BY <2>2 DEF R!edit_area
    <3>2. \A i \in DOMAIN editing[c] : editing[c][i].kind # "exit"  BY <3>1
    <3>3. "area" \in R!Kinds /\ None \in Rooms \cup {None} /\ None \in Dirs \cup {None}  BY <2>0
    <3> HIDE DEF R!Kinds
    <3> QED  BY <3>1, <3>2, <3>3
  <2>3. CASE R!edit_text(c)
    <3>1. R!Using(c, "room") /\ R!Push(c, R!Frame("text", R!Top(c).room, None), exits)
      BY <2>3 DEF R!edit_text
    <3>2. R!Top(c).room \in Rooms /\ \A i \in DOMAIN editing[c] : editing[c][i].kind # "exit"
      BY <3>1, TopFacts DEF Editor
    <3> QED  BY <2>0, <3>1, <3>2
  <2>4. CASE R!edit_exits(c)
    <3>1. R!Using(c, "room") /\ R!Push(c, R!Frame("exits", R!Top(c).room, None), exits)
      BY <2>4 DEF R!edit_exits
    <3>2. R!Top(c).room \in Rooms /\ \A i \in DOMAIN editing[c] : editing[c][i].kind # "exit"
      BY <3>1, TopFacts DEF Editor
    <3> QED  BY <2>0, <3>1, <3>2
  <2>5. CASE R!dig(c)
    <3>1. R!Using(c, "room") \/ R!Using(c, "exits")  BY <2>5 DEF R!dig
    <3>2. PICK d \in Dirs : R!Push(c, R!Frame("exit", R!Top(c).room, d),
                              [exits EXCEPT ![R!Top(c).room][d] = [to |-> None, id |-> 0]])
      BY <2>5 DEF R!dig, Dirs
    <3>3. R!Top(c).room \in Rooms /\ \A i \in DOMAIN editing[c] : editing[c][i].kind # "exit"
      BY <3>1, TopFacts DEF Editor
    <3> QED  BY <2>0, <3>2, <3>3
  <2>6. CASE R!exits_edit(c)
    <3>1. R!Using(c, "exits")  BY <2>6 DEF R!exits_edit
    <3>2. PICK d \in Dirs : R!Push(c, R!Frame("exit", R!Top(c).room, d), exits)
      BY <2>6 DEF R!exits_edit, Dirs
    <3>3. R!Top(c).room \in Rooms /\ \A i \in DOMAIN editing[c] : editing[c][i].kind # "exit"
      BY <3>1, TopFacts DEF Editor
    <3> QED  BY <2>0, <3>2, <3>3
  <2> QED  BY <2>1, <2>2, <2>3, <2>4, <2>5, <2>6
<1> DEFINE f == R!Frame(k, r, d)
<1>2. f \in FrameType /\ ~ f.freed  BY FrameFacts
<1> HIDE DEF f
<1>3. PICK ex : R!Push(c, f, ex)  BY <1>1 DEF f
<1> QED  BY <1>1, <1>2, <1>3, PushFair

LEMMA CreateFair ==
  ASSUME RoomsInv, NEW c \in Clients, R!edit_room_create(c)
  PROVE  \A x \in Clients : Fair(x, editing'[x])
<1>1. PICK r \in Rooms \ room :
        R!Shows(c, <<R!Frame("room", r, None)>>, editing, [exits EXCEPT ![r] = R!NoExits])
  BY DEF R!edit_room_create
<1> DEFINE f == R!Frame("room", r, None)
           stack == <<f>>
           ex == [exits EXCEPT ![r] = R!NoExits]
<1>2. ~ f.freed
  <2>1. "room" \in R!Kinds  BY DEF R!Kinds
  <2> QED  BY <2>1, FrameFacts
<1> HIDE DEF f, ex
<1>3. Fair(c, stack)  BY <1>2 DEF Fair
<1> HIDE DEF stack
<1>4. R!Shows(c, stack, editing, ex) /\ DOMAIN editing = Clients  BY <1>1 DEF stack, f, ex, RoomsInv
<1> QED  BY <1>3, <1>4, SameFair, ShowsFair

LEMMA DeleteFair ==
  ASSUME RoomsInv, NEW c \in Clients, R!exits_delete(c)
  PROVE  \A x \in Clients : Fair(x, editing'[x])
<1> DEFINE r == R!Top(c).room
<1>1. R!Using(c, "exits")  BY DEF R!exits_delete
<1>2. PICK d \in Dirs : R!Shows(c, editing[c], R!Freed(r, d), [exits EXCEPT ![r][d] = None])
  BY DEF R!exits_delete, Dirs
<1> DEFINE editors == R!Freed(r, d)
<1>3. ASSUME NEW x \in Clients \ {c} PROVE Fair(x, editors[x])
  <2> DEFINE s == editing[x]
             Known(f) == IF f.kind = "exit" /\ f.room = r /\ f.dir = d
                         THEN [f EXCEPT !.freed = TRUE] ELSE f
  <2>1. editors[x] = [i \in DOMAIN s |-> Known(s[i])]  BY DEF R!Freed
  <2>2. ASSUME NEW i \in DOMAIN s, Known(s[i]).freed PROVE s[i].freed \/ Known(s[i]).room = r
    <3>1. CASE s[i].kind = "exit" /\ s[i].room = r /\ s[i].dir = d
      <4>1. s[i] \in FrameType  BY Unshown DEF Stack, Editor
      <4>2. Known(s[i]) = [s[i] EXCEPT !.freed = TRUE]  BY <3>1
      <4>3. [s[i] EXCEPT !.freed = TRUE].room = s[i].room  BY <4>1 DEF FrameType
      <4> QED  BY <3>1, <4>2, <4>3
    <3>2. CASE ~ (s[i].kind = "exit" /\ s[i].room = r /\ s[i].dir = d)
      <4>1. Known(s[i]) = s[i]  BY <3>2
      <4> QED  BY <2>2, <4>1
    <3> QED  BY <3>1, <3>2
  <2> HIDE DEF Known, editors
  <2>3. DOMAIN editors[x] = DOMAIN s /\ \A i \in DOMAIN s : editors[x][i] = Known(s[i])  BY <2>1
  <2> QED  BY <1>1, <2>2, <2>3 DEF Fair
<1>4. DOMAIN editors = Clients  BY DEF R!Freed
<1> DEFINE ex == [exits EXCEPT ![r][d] = None]
<1>5. R!Shows(c, editing[c], editors, ex)  BY <1>2
<1> HIDE DEF editors, ex
<1> QED  BY <1>3, <1>4, <1>5, SameFair, ShowsFair

LEMMA StepFair ==
  ASSUME RoomsInv, NEW c \in Clients, R!Step(c)
  PROVE  \A x \in Clients : Fair(x, editing'[x])
<1>0. DOMAIN editing = Clients  BY DEF RoomsInv
<1>1. CASE \/ R!edit_room(c) \/ R!edit_area(c) \/ R!edit_text(c) \/ R!edit_exits(c)
           \/ R!dig(c) \/ R!exits_edit(c)
  BY <1>1, EditFair
<1>2. CASE R!edit_room_create(c)  BY <1>2, CreateFair
<1>3. CASE R!finish_editing(c)
  <2> DEFINE stack == Tail(editing[c])
  <2>1. R!Shows(c, stack, editing, exits) /\ editing[c] # <<>>  BY <1>3 DEF R!finish_editing
  <2>2. \A i \in DOMAIN stack : ~ stack[i].freed  BY <2>1, Unshown, PoppedStack
  <2>3. Fair(c, stack)  BY <2>2 DEF Fair
  <2> HIDE DEF stack
  <2> QED  BY <1>0, <2>1, <2>3, SameFair, ShowsFair
<1>4. CASE R!Leave(c)
  <2>1. editing' = [editing EXCEPT ![c] = <<>>]  BY <1>4 DEF R!Leave
  <2>2. \A x \in Clients : editing'[x] = IF x = c THEN <<>> ELSE editing[x]  BY <1>0, <2>1
  <2> QED  BY <2>2, EmptyFair, SameFair
<1>5. CASE R!string_lineadd(c)  BY <1>5, LosesFair DEF R!string_lineadd
<1>6. CASE R!exits_delete(c)  BY <1>6, DeleteFair
<1>7. CASE R!exit_ToRoom(c)
  <2>1. CASE R!Top(c).freed  BY <1>7, <2>1, LosesFair DEF R!exit_ToRoom
  <2>2. CASE ~ R!Top(c).freed
    <3>1. PICK to \in room_hash :
            R!Shows(c, editing[c], editing, [exits EXCEPT ![R!Top(c).room][R!Top(c).dir].to = to])
      BY <1>7, <2>2 DEF R!exit_ToRoom
    <3> QED  BY <1>0, <3>1, SameFair, ShowsFair
  <2> QED  BY <2>1, <2>2
<1>8. CASE R!save_room(c) \/ R!save_area(c)
  <2>1. editing' = editing  BY <1>8 DEF R!save_room, R!save_area
  <2> QED  BY <2>1, SameFair
<1> QED  BY <1>1, <1>2, <1>3, <1>4, <1>5, <1>6, <1>7, <1>8 DEF R!Step

\* What FreedByAnother says of one step.
LEMMA FreedStep ==
  ASSUME RoomsInv, R!Next \/ editing' = editing
  PROVE  \A c \in Clients : \A i \in DOMAIN editing'[c] :
           editing'[c][i].freed =>
             \/ i \in DOMAIN editing[c] /\ editing[c][i].freed
             \/ \E x \in Clients \ {c} : R!Using(x, "exits") /\ R!Top(x).room = editing'[c][i].room
<1>1. \A c \in Clients : Fair(c, editing'[c])
  <2>1. CASE R!Restart
    <3>1. \A c \in Clients : editing'[c] = <<>>  BY <2>1 DEF R!Restart
    <3> QED  BY <3>1, EmptyFair
  <2>2. CASE \E c \in Clients : R!Step(c)  BY <2>2, StepFair
  <2>3. CASE editing' = editing  BY <2>3, SameFair
  <2> QED  BY <2>1, <2>2, <2>3 DEF R!Next
<1> QED  BY <1>1 DEF Fair

-----------------------------------------------------------------------------
(* The theorems.                                                           *)

LEMMA InitCharactersInv == Init => CharactersInv
BY DEF Init, CharactersInv, Types, InStep, SameNames, Named, AllInserted, Own

LEMMA StepCharactersInv == CharactersInv /\ [Next]_vars => CharactersInv'
BY StepTypes, StepInStep, StepOwn DEF CharactersInv

LEMMA CharactersAlways == RecordsSpec => [](CharactersInv /\ Typed)
<1>1. RecordsInit => CharactersInv /\ Typed  BY InitCharactersInv, InitTyped DEF RecordsInit
<1>2. (CharactersInv /\ Typed) /\ [RecordsNext]_<<part, vars, bVars, rVars>> => (CharactersInv /\ Typed)'
  <2> SUFFICES ASSUME CharactersInv, Typed, [RecordsNext]_<<part, vars, bVars, rVars>>
               PROVE  CharactersInv' /\ Typed'
    OBVIOUS
  <2>1. [Next]_vars  BY DEF RecordsNext
  <2>2. DOMAIN playing = Accounts  BY DEF CharactersInv, Types
  <2> QED  BY <2>1, <2>2, StepCharactersInv, StepTyped
<1> QED  BY <1>1, <1>2, PTL DEF RecordsSpec

LEMMA BelongingsAlways == RecordsSpec => []BelongingsInv
<1>1. RecordsInit => BelongingsInv  BY InitBelongingsInv DEF RecordsInit
<1>2. BelongingsInv /\ [RecordsNext]_<<part, vars, bVars, rVars>> => BelongingsInv'
  <2> SUFFICES ASSUME BelongingsInv, [RecordsNext]_<<part, vars, bVars, rVars>> PROVE BelongingsInv'
    OBVIOUS
  <2>1. B!Next \/ UNCHANGED bVars  BY DEF RecordsNext
  <2> QED  BY <2>1, BelongingsStep, BelongingsStutter
<1> QED  BY <1>1, <1>2, PTL DEF RecordsSpec

LEMMA RoomsAlways == RecordsSpec => []RoomsInv
<1>1. RecordsInit => RoomsInv  BY InitRoomsInv DEF RecordsInit
<1>2. RoomsInv /\ [RecordsNext]_<<part, vars, bVars, rVars>> => RoomsInv'
  <2> SUFFICES ASSUME RoomsInv, [RecordsNext]_<<part, vars, bVars, rVars>> PROVE RoomsInv'
    OBVIOUS
  <2>1. R!Next \/ UNCHANGED rVars  BY DEF RecordsNext
  <2> QED  BY <2>1, RoomsStep, RoomsStutter DEF rVars
<1> QED  BY <1>1, <1>2, PTL DEF RecordsSpec

\* save_player's two inserts give a player the same number in both tables, and
\* no restart, deletion or edit brings them out of step.
THEOREM TablesInStep == RecordsSpec => []RowsInStep
<1>1. CharactersInv => RowsInStep
  <2> SUFFICES ASSUME CharactersInv, trouble \subseteq {"edit"}, Idle
               PROVE  /\ DOMAIN player = 1 .. lastId
                      /\ \A i \in DOMAIN character : character[i] = player[i].for
    BY DEF RowsInStep
  <2>1. SameNames /\ AllInserted  BY IdleInStep DEF CharactersInv
  <2> QED  BY <2>1 DEF CharactersInv, Types, SameNames, AllInserted
<1> QED  BY <1>1, CharactersAlways, PTL

\* load_account_players and load_player_by_id give who logs in the own character.
THEOREM OwnCharacters == RecordsSpec => []PlaysOwn
<1>1. CharactersInv => PlaysOwn  BY DEF CharactersInv, Own, PlaysOwn
<1> QED  BY <1>1, CharactersAlways, PTL

\* Whatever builders edit, save and delete, load_exits finds the exits of every
\* room as save_room or save_area left them, except where exits_delete left the
\* row of a deleted one, and finalize_exits finds a room behind each; and the
\* characters, the objects and the rooms keep their types.
THEOREM TablesComeBack == RecordsSpec => []SavedComesBack
<1>1. (CharactersInv /\ Typed) /\ BelongingsInv /\ RoomsInv => SavedComesBack
  BY RoomsTypes, ComesBack, BelongingsTypes DEF SavedComesBack, Typed
<1> QED  BY <1>1, CharactersAlways, BelongingsAlways, RoomsAlways, PTL

\* It takes the exits editor of somebody else to free the exit under a builder's
\* exit editor: delete frees it and tells nobody.
THEOREM OthersFree == RecordsSpec => FreedByAnother
<1>1. RoomsInv /\ [RecordsNext]_<<part, vars, bVars, rVars>> =>
        [\A c \in Clients : \A i \in DOMAIN editing'[c] :
           editing'[c][i].freed =>
             \/ i \in DOMAIN editing[c] /\ editing[c][i].freed
             \/ \E x \in Clients \ {c} :
                  R!Using(x, "exits") /\ R!Top(x).room = editing'[c][i].room]_(R!vars)
  <2> SUFFICES ASSUME RoomsInv, [RecordsNext]_<<part, vars, bVars, rVars>>
               PROVE  \A c \in Clients : \A i \in DOMAIN editing'[c] :
                        editing'[c][i].freed =>
                          \/ i \in DOMAIN editing[c] /\ editing[c][i].freed
                          \/ \E x \in Clients \ {c} :
                               R!Using(x, "exits") /\ R!Top(x).room = editing'[c][i].room
    OBVIOUS
  <2>1. R!Next \/ editing' = editing  BY DEF RecordsNext, rVars
  <2> QED  BY <2>1, FreedStep
<1> QED  BY <1>1, RoomsAlways, PTL DEF RecordsSpec, FreedByAnother, R!FreedByAnother

\* Whatever sessions save_char_objs saves, alone, one after the other in
\* handle_sig or as a link fails, only rows of their own characters go.
THEOREM OnlyOwnRows == RecordsSpec => SavesOwnRows
<1>1. BelongingsInv /\ [RecordsNext]_<<part, vars, bVars, rVars>> =>
        [\/ B!save_area \/ B!edit_save \/ B!edit_delete
         \/ \A i \in DOMAIN object :
              object'[i] # object[i] =>
                object'[i] = "deleted" /\ \E s \in Sessions : plays[s] = object[i]]_(B!vars)
  <2> SUFFICES ASSUME BelongingsInv, [RecordsNext]_<<part, vars, bVars, rVars>>, ~ UNCHANGED B!vars
               PROVE  B!save_area \/ B!edit_save \/ B!edit_delete \/ OwnRows
    BY DEF OwnRows
  <2>1. B!Next  BY DEF RecordsNext, bVars, B!vars, B!world
  <2> QED  BY <2>1, SavesOwnStep
<1> QED  BY <1>1, BelongingsAlways, PTL DEF RecordsSpec, SavesOwnRows, B!SavesOwnRows

\* save_char_objs walks from the first object that is carried along the list of
\* all objects: it finds, and keeps the rows of, everything that is carried in
\* the order it came into the game.
THEOREM NothingCarriedIsLost == RecordsSpec => SaveKeepsAll
<1>1. BelongingsInv =>
        [\A s \in Sessions : B!save_player(s) /\ B!InOrder(s) =>
           \A i \in DOMAIN carrying[s] : object'[obj'[carrying[s][i]].id] = plays[s]]_(B!vars)
  BY KeepsAllStep
<1> QED  BY <1>1, BelongingsAlways, PTL DEF SaveKeepsAll, B!SaveKeepsAll
=============================================================================
