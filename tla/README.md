# A verification project for muddled

TLA+ modules that model the muddled MUD server, TLC configurations
that check them on small instances, and proofs of the main theorems. The
reference is the code under `src/src`; every definition that stands for code
is listed with its lines in `PROJECT.json` under `map`. Paths below are
relative to `src/src`.

## The system

muddled is one process with one thread. `game_loop` (`server/server.c`) runs
about four times a second: it accepts a connection, closes the clients that
failed or have no handler, reads a line from each of the others and gives it
to that client's handler, runs the updates (fights, resets, ticks), and writes
what was queued. Everything lives in C structures on intrusive lists and is
stored in SQLite. Since there is one thread, "concurrency" here is the
interleaving of the sessions' lines, link failures and updates; what is hard
is that a handler of one session frees, moves or relinks what another session,
an outer loop or a later line of the same session still points at.

| component | state | operations | how it can go wrong | module |
|---|---|---|---|---|
| client sessions (`server/client.c`) | `Client`: handler, account, buffers, pager, retries | one handler for each prompt; reading, paging, writing; `set_playing`, `close_client` | stale `account->playing`, double free, login bypass, lines cut wrongly, overflow that closes the client under its writer | `Session`, `ClientIO` |
| game loop (`server/server.c`) | `first_client`, running flag, pass being run | accept, kick-out, input, updates, output, shutdown, reboot | clients closed under the loop, leavers never closed, nothing saved | `Session`, `ClientIO` |
| telnet (`server/telnet.c`) | options agreed | `process_telnet` in the middle of a line | reads beyond the input | `ClientIO` |
| accounts (`account.c`) | `Account`: players, playing, forum data, note in progress | load, save, delete, free | a players list that loops, forum data never initialised | `Session`, `Forum`, `Characters` |
| characters, players (`character.c`, `player.c`) | `Character`, three lists, rows in two tables | new, load, save, extract, destroy | lists out of step, rows of two tables out of step, saved and live copies differ | `Session`, `Characters`, `Belongings` |
| commands (`server/command*.c`) | none of their own | quit, logout, delete, kill, get, wear, cast, edit, ... | act on stale or half-removed characters | with what they change |
| forums (`forum.c`, `server/command_communication.c`) | notes of each forum, dates, read marks, drafts | write, post, remove, read, catch up, subscribe, save | notes relinked or freed while held, dates out of order, saves that fail unnoticed | `Forum` |
| hash tables (`hashmap.c`) | slots, count | insert, get, rehash | elements lost on collision or growth, slots outside the table | `HashMap` |
| fighting (`fight.c`, `server/update.c`) | `fighting`, hit points, experience | kill, kick, rounds, death, levels | saved list pointers, dead opponents, runaway levels | `Combat` |
| updates, affects (`server/update.c`, `affect.c`) | pulses, conditions, affects | tick, regeneration, affect expiry | conditions and hit points out of range, affects not undone | `Updates` |
| objects, resets (`object.c`, `util.c`, `server/update.c`) | carried, worn, in rooms, in objects | get, drop, wear, remove, reset of a room | in two places at once, worn by nobody | `Objects`, `Places` |
| belongings (`character.c`, `object.c`, `area.c`) | the table of objects | load and save with a player, with an area; crash save | rows of others changed, what is carried deleted | `Belongings` |
| rooms, exits, areas (`room.c`, `exit.c`, `area.c`) | hash tables, exits, their rows | load, save, dig, link, delete | one-sided or doubled exits, exits to rooms that are gone | `Rooms` |
| editors (`server/olc*.c`) | each client's stack of editors | open, change, save, leave | what is edited is freed by another | `Rooms`, `TextEditor`, `Characters` |
| explored rooms, flags (`explored.c`, `flag.c`) | bit vectors, run lengths | set, code, decode | off by one, numbering that differs between save and load | `Explored` |
| names, maps (`str.c`, `object.c`, `map.c`) | none | take arguments apart, find things, draw | the wrong thing found, rooms drawn where they are not | `Names`, `Automap` |
| database (`db.c`) | one connection | insert, update, delete, load | failures taken for success, ids of other rows | `Characters`, `Belongings`, `Rooms`, `Forum` |
| importer (`server/importer.c`) | indexes by vnum, temporary resets | read files, commit | vnums resolved to the wrong id, memory used after the clean-up | `Importer` |
| signals, reboot (`server/main.c`, `server/server.c`) | crash counter | crash save | saving what does not belong to it | `Belongings` |
| channels, websockets, tables, buffers, colours, log | little state | formatting, loading | | not modelled |

How they interact: a `Client` owns an `Account`, which points at the
`Character` it plays; the `Character` points back at the client. The world's
lists (`first_character`, `first_player`, a room's characters) hold the
`Character`. Commands and updates reach a connection through the character;
the loop reaches a character through the client. Forums are global; a note in
progress and the read marks belong to an account, that is, to a session.

`PROJECT.json` lists every component with its status, and every hazard we know
of with its line and the properties that cover it.

## Modules

### Session, Presence, SessionProofs

`Session` models the life of a connection. Each connection has its `handler`,
`account` (none, live, or freed but still named), the shape of the account's
`players` list, `playing`, and `password_retries`. Characters are heap
addresses: `conn[a]` is the client the character at `a` belongs to, or `None`
when nothing is allocated there. An address freed can be allocated again while
an old pointer names it; an address nothing names (a leak) may be too, which
only makes more behaviours. `first_character`, `first_player` and `inRoom` are
kept as three sets because the code keeps three lists by hand.

`game_loop`'s passes are `phase` and `todo`, the clients the pass has not
visited, in any order. There is one action for each handler of
`server/client.c`, and one for each command that touches a session: quit,
logout, delete, sockets, shutdown, note write. Link failures and socket
exceptions can come at any visit. Where the code frees what it does not own,
or walks a looping list, the module says `corrupt` or `dead` and stops
promising; `Restart` is the operator. The answers of the database are
arbitrary.

`Presence` is the abstract specification: where each connection stands and
whose character is visible. The mapping is `StageOf(handler)` and the
connections of `first_player`.

Not in the module: buffers and overflow, which are ClientIO's, and what is
saved, which is that of the modules of Records.

### Lists, ListsProofs

`Lists` is `UNLINK` (`macro.h`) as an operator: a list without some of its
elements, the others in their order. Forum, Combat and Belongings take theirs from it;
`Sorted` puts rows and directions in the order in which the code meets them.
`ListsProofs` has the lemmas on it and on sequences that the proofs of several
modules need.

### ClientIO, LoopProofs

The bytes between the socket and the handlers. A byte is its kind and its
number among all that were sent, so a property can tell whether a command is
made of bytes in the order they came, each used once. `inbuf` is the array of
the code with what earlier reads left behind the NUL; `Found` is the search of
`parse_input_buffer` for the end of a line, with `process_telnet` called on the
way, which moves the rest of the buffer over the option. The kinds stand for
the classes the code tells apart: letters, `!`, the two line ends, backspace,
IAC and the option bytes. `Repeats` and `Command` are the count that turns a
command into quit; `show_string` with `BackUp` and `PageEnd` is the pager, whose
height the other side may change at any time by an option. The loops of the code are
functions of the number of rounds made, each round an operator of its own (`Option`,
`Search`, `Typed`, `Back`, `Scan`) that stays where it is once the loop is over. The output buffer
counts lines, and `Writes` is what the code does when one more does not fit:
it closes and frees the client that its caller goes on using (`lost`).

Two things the code leaves open are stated as conditions of properties: an
option cut off at the end of a read may make `process_telnet` run over the NUL
into stale bytes (`overran`), after which `InOrder` promises nothing until the next
connection; and lines are taken to be shorter than `incomm`.

### Library: HashMap, Explored, Names, TextEditor, Automap, LibraryProofs

Five parts that compute and keep little. They share no state, so Library is
their composition as a choice: a behaviour is one of one of them, and one run
checks all.

* `HashMap`: open addressing with double hashing as in `hashmap.c`, with the growth
  to the next prime. `given` is the reference: the plain function from keys to the
  elements they were last given. Words are hashed by `hash_key` in
  `WordBits`-bit arithmetic; `stray` is an access outside the table.
  `hm_remove` has no caller and is left out.
* `Explored`: a player's explored rooms as a bit vector (`flag.c`), coded as run
  lengths in the order in which `room_hash` lists the rooms when they are saved,
  decoded as runs of ids when they are loaded. The two orders are the same only
  while ids are smaller than `ID_HASH`; the property is stated for those.
* `Names`: `one_argument`, `number_argument`, `is_name` and `get_obj_here` on
  characters; the reference definition speaks of words and of the n-th thing, for
  arguments and names without the quotes that join words to one.
* `TextEditor`: `string_edit` on the text it edits; the reference is the list of
  lines that the menu shows. No line of a text begins with a `\r` and what is typed has
  neither `\n` nor `\r` (`TextsAssumption`): the editor and the importer end a line with
  `\n\r`, and `read_from_client` cuts what comes in at either.
* `Automap`: the recursion of `map_exits` over any graph of exits that builders dig,
  drawn from every room; the reference says where a room may stand. The size and depth
  of the map, fixed in the code, are constants.

The loops and recursions of the code are recursive functions: of the number of slots moved by
a rehash, of arguments taken, of exits left to the depth of the map, of lengths of runs
read, of lines the menu shows.

### Forum, ForumProofs

The forums as sequences of note addresses, the note at each address, and for
each player the note in progress, current forum, read marks and subscriptions.
`disk` is the note table. The clock and `last_note_stamp` give dates. As in
Session, a step that follows a pointer to a note that is gone, frees one that
is listed or links one that is linked makes the heap `corrupt`, and nothing is
followed until the server is restarted. Following the code:

* posting, and forgetting, leave the note in progress;
* `save_note` names a column the table does not have; the failure is taken for
  success and the note gets the id of the row the process inserted last, which
  the module picks freely;
* `load_account_forums` leaves the read marks uninitialised (`Leftovers`);
* what of expiry dates, numbering and formatting is not observable to the
  properties is left out; note check is left out.

### Combat, CombatProofs

Who is in the world, where, and fighting whom. Characters are heap addresses
again, `first_character` is a sequence because `violence_update` walks it with
the next element saved: `ch` is its loop variable, and each turn of the loop
is one step. Within a step the code changes the world several times; `World`
is a record, and `one_hit`, `multi_hit`, `damage`, `gain_exp` take a world to
the worlds the dice may lead to. NPCs come by resets, players by `set_playing`;
they leave by `do_logout`, a deletion or the end of the session, at any point
between two rounds. Hit points are left out: any hit may be the last. What
`xp_compute` returns is the constant `Gains`, what a level takes the constant
`ToLevel`. Who frees a Character does not look for those that fight it, so a
pointer may name freed memory (`corrupt`) or a later Character at the same
address, which the fight then goes on with; `orphaned` remembers that.

### Objects, Places, ObjectsProofs

Where every object is. The code keeps three kinds of lists (what a Character
carries, what lies in a room, what is in an object) and a pointer back for
each; the module keeps all six, as sets and functions, since the order of a
list only decides which of several objects a search finds. Worn is what is
carried with a `wearLoc`. `wear_obj` stands for the cases of the code's switch:
`SlotsOf` says which slots an object's `wearFlags` name, none, one, or the pair
of wrists or fingers. `reset_room` runs without interruption: while
`resetting` names its room only its lines are actions, with its local
variables `lastNPC` and `lastOBJ`. The numbers it counts are choices: enough
or not. Who may use an object (level, class) is a choice as well, being the
same as not trying. Nothing in the code gives an object an affect, so the
loops over an object's affects are empty.

`Places` is the abstract specification: one place for each object, and the few
ways it changes. The mapping reads it off the pointers.

### Updates

Ticks: regeneration, hunger and thirst, and the one affect the game gives, with
the resistance it adds. `save_player` writes hit points, conditions and
resistances; the affect itself is lost because `save_affect` names a column the table
does not have (`load_affect_by_id`), and the position because it is written by
name and read as a number. Damage comes from outside. The pulse is counted by
`update_handler`; `do_tick` of an immortal sets it to zero.

### Records: Rooms, Belongings, Characters, RecordsProofs

What stands in the database, in three parts that read and write different
rows, composed like those of Library. Where the code builds a statement, the
modules say what it does to ids and rows, with the columns the code names and the
constraints of the shipped database (`src/resources/muddled.db`, which lags behind the
code in other respects); where a statement fails, what the caller takes that for.

* `Rooms`: builders with stacks of editors on rooms, exits and areas. `exits` is what
  the game sees, `room` and `exit` are the tables; saving a room writes its
  exits one after the other, deleting an exit leaves its row. A `Frame` of a
  stack knows whether what it edits was freed (`lost` when it is then used).
  `Restart` loads what the tables hold, at any time.
* `Belongings`: what players carry, in memory and as rows. Two sessions may play
  the same character. `save_char_objs` looks for each of its rows among the
  objects behind the first one it carries on the list of *all* objects, and
  deletes those it does not find; `load_objects` loads at the start every row,
  also those players carry. The ways out differ in whether they save:
  `quit`, `LinkFails`, `handle_sig` (a crash, and also a reboot, which always ends in one:
  `mkstemp` is given a string literal), `Restart`.
* `Characters`: the tables `character` and `player`, two rows for each player that are
  to have the same number though nothing says so to the database. `save_player` is two
  steps, with a crash possible between them; `player_editor` writes somebody
  else's row. `trouble` remembers what the tables do not survive.

### Importer, LibraryProofs

`server/importer.c` as an automaton over the sections and records of files, in any
order, good or bad, in any number of files and commits. A record is its vnum
(a room's also has its exits); a reset its letter, vnum and room. `temp_resets`,
`last` and the three indexes are the code's variables; `import_commit` gives
ids in the order in which records are saved, writes the text of the resets with
them and resolves exits. `lost` is any use of what was freed: `import_areas` and
`area_last` dangle after a commit or a failed file (`stale`), destroyed records stay
in their index (`freed`), a file of a list is closed twice.

## What is checked

| run | instance | shows |
|---|---|---|
| `session` | 2 connections, 2 addresses, symmetric | `PlayersAreOwned`: handlers that follow `playing` find their own character, the lists name nobody else; `Authenticated`: nobody is past the login without the password; `LinkedOnce`: no character is linked twice; `StaleOnlyByDeletion` and `LostOnlyForCause`: only confirmed deletions, looping lists and `sockets` break memory; `PresenceSpec`: refinement |
| `session_live` | 2 connections, 1 address, `FairSpec` | `LeavingEnds`: a cleared handler is disconnected; `EveryoneIsServed` |
| `clientio` | 7 bytes, 6 in a read, limit 2, windows of 3 and 4 lines, 2 lines of output | `InOrder`: however the bytes are cut into reads, commands are made of them in their order, each used once; `SpamStops`: no command is carried out more often in a row than the limit; `NothingSkipped`: pages follow each other without a gap |
| `forum` | mortal and immortal, 1 forum, 2 notes, 2 posts | `ListedOnce`, `RemovedIsGone`, `NewestLast`, `CorruptOnlyAfterPosting` |
| `forum_read` | the same, 2 forums, 1 post | `CurrentForumIsReadable`, `CatchupReadsAll` |
| `forum_save` | as `forum` | violated: a save writes no note |
| `combat` | 3 addresses, 2 rooms, a mortal level and an immortal one, symmetric | `WorldIsListed`: list, rooms and allocation agree; `OneDeathAtATime`; `CorruptOnlyByOrphans`: memory breaks only through an opponent or a next character that was freed; `EveryoneHadATurn` |
| `objects` | 1 player, 1 NPC, 1 room, 3 objects for a pair of slots, 1 for a single slot | `OnePlace`: lists and pointers agree and nobody holds what is freed; `DoubledOnlyByGet`: the only way to two objects at a slot; `PlacesSpec`: refinement |
| `updates` | 1 player, 1 NPC, ticks of 2 pulses, a shield of 2 ticks | `ShieldComesOff`: without a shield a player resists as at the start, unless he was saved under one; `ShieldWearsOff`: a shield ends |
| `records` | 2 builders, 2 rooms, 1 direction; 2 sessions, 2 players, 3 objects and rows; 2 accounts, 4 ids | `SavedComesBack`: the next start finds the exits that were saved, and every exit leads to a room; `FreedByAnother`: an editor's exit is freed only by another builder; `SavesOwnRows`: who plays changes rows of the own character only; `SaveKeepsAll`: a save keeps what was picked up in the order of the world's list; `RowsInStep`: the two rows of a player have the same number; `PlaysOwn`: who logs in finds the own character as it was left |
| `library` | 4 colliding numbers, 3 words; 4 rooms on 4 lists; up to 3 things with names of up to 2 words; texts of up to 2 lines; 3 rooms, 4 exits, depth 3 on a map of 7 and 6 places to each side | `GetsWhatWasGiven`, `ExploredComesBack`, `FindsTheNamed`, `EditsThatLine`, `RoomsAreWhereExitsLead` |
| `importer` | 2 rooms, 1 npc and object vnum, 7 records, 3 rows of rooms | `ExitsJoinRows`: saved exits join saved rooms; `ResetsNameRows`: resets name saved npcs and objects; `SubsGoWithTheirs`: what is given or put goes with the last npc or object of the file, in its room |

Type invariants are proved, each as a part of the inductive invariant of its module,
or conjuncts of another invariant of the run, so that no run checks them alone.

Why the bounds are enough. Session: every hazard of a stale pointer needs the
session that has it and one that gets its address; the second address lets a
session lose one character while it has another. ClientIO: a window of 3 lines shows one
line a page, and texts of more pages than one, with both kinds of line ends, fit;
7 bytes are a command, an option of three bytes and another command, cut anywhere,
with a read (6) that may leave bytes of the one before behind it. HashMap: the keys collide
in the first table (3 slots) and in the next (7), and inserting them all
grows it twice from nothing; words of one letter, because `WordBits` is 24
instead of 64 and longer ones reach the sign bit, as words of twelve do in the
code (see Findings). Explored: 4 lists and 4 rooms, of which the fourth is the first
whose order differs between save and load, which `room < ID_HASH` excludes. Automap: with depth 3
exits can come back to a place that was drawn two steps before.
Forum: a
note of the database and one of a player, an author and one who removes, two
posts within one second and across two, and restarts at any point; addresses
are reused as soon as they are free. Combat: three addresses are a
fighter, an opponent and a third who kills it, or takes its address, or stands
behind it on the list; the second room is the one to leave to. `Gains` is
`{0}`, since `gain_exp` does not depend on what was gained.
Objects: a pair of slots is
full with two objects and a third replaces one; the fourth holds others or is
held; the NPC gets what resets give, the player what lies about. Records: two
builders are one who edits and one who deletes under him, two rows of `exit` are
a row and the one that takes its place; three objects are one picked up, one
that comes before it and one after;
four ids are two accounts with a character each and two created after a deletion. Updates: two ticks of a shield in which anything may happen
between, and one save more under a shield (`MaxResists`). Importer: two rooms are an exit and where it leads,
and a row from before takes an id a vnum may be mistaken for; seven records
are an area, its npc, object and room, a reset of each and one more.
`MaxTime` and `MaxPosts` bound the clock
and the posts in the life of a process; `Chars`, `Notes` and `MaxObj` bound the heap.

Fairness. `session_live` assumes `WF_vars(game_loop)` only: the process is
scheduled while it lives, and each pass over the finite list of clients moves
on. Updates assumes `WF_vars(update_handler)`: `game_loop` runs it in each of its
rounds. Nothing is assumed of players, links or the operator.

Deadlock is checked in all runs. Every property of a passing run has a mutant
of the code (`PROJECT.json`, `mutants`; the operators with a suffix in the
modules) that breaks it.

## What is proved

`SessionProofs` proves, for any sets `Clients` and `Chars`, from
`SessionAssumption` alone (the null pointer is no client and no address):

* `TypeCorrect`, `Ownership`, `Agreement`, `Authentication`: the invariants;
* `Linking`, `Staleness`, `Cause`: the action properties;
* `Implementation`: Session implements Presence.

The argument is one inductive invariant, `IInv`. `PlayersAreOwned` is not
inductive by itself: that a closed descriptor names no character and an
account that was freed belongs to a session that is leaving (`Lifecycle`), that
the three lists agree (`ListsAgree`: `extract_char` unlinks from all of them,
and a reader of one must learn of the others), and the history of the login
(`Authenticated`) are needed to preserve it. `SessionProofs` first shows that
each action preserves `IInv`; the action properties and the refinement then
follow from it step by step.

`ObjectsProofs` proves, for any characters, rooms, objects and slots, from
`ObjectsAssumption` (the null pointer and the addresses of the three kinds
differ; an object has no slot, one or a pair):

* `TypeCorrect`, `InOnePlace`: the invariants;
* `Freed`, `DoubledBy`: the action properties;
* `Implementation`: Objects implements Places;

and of Names, for any arguments and any things, from `NamesAssumption` (both are strings of
characters):

* `TheNamedIsFound`: the invariant of the run `library`.

The inductive invariant is again an `IInv`. `OnePlace` needs to know that the
players of the world stand in a room (`Standing`: what is dropped goes there)
and what the local variables of `reset_room` may name between two of its lines
(`ResetLocals`). What a character tries to wear changes nothing but who wears
what at which slot (`WearType`, `WornSteps`); all the ways of wearing share the lemma
`KeepsAll` on the slots they leave taken, from which the two action properties
follow. The mapping to Places does not look at slots.

For Names the state says little and the operators everything. `OneArgument` is what one call takes
off a string, `GivesFacts` that this is the next piece between blanks, and `PartsFacts`, by the number
of calls, that all calls together give the pieces and no more. `MatchesFacts` and `WholeFacts` deal with the way out
of `is_name` for a string that begins a name as a whole, which is then a single piece;
`SearchFacts` with the counting.

`LoopProofs` proves things of two modules, both about what the passes of `game_loop` do. Of
Updates, for any players, NPCs, levels, durations and maximum of hit
points, from `UpdatesAssumption`:

* `TypeCorrect`;
* `ShieldsComeOff`: the invariant of the run, for which only the players under a shield have
  to be told from those that were saved under one (`Shield`);
* `NobodyEverStarves`: outside of deserts hunger and thirst stop far above the floor
  at which the code would hurt a player, because halving -1 gives 0;
* `HitsWithinMax`: no regeneration passes the maximum, also after a load.

Its inductive invariant adds to the types that whoever has the affect has the bonus
that its end takes away (`Sound`), without which resistances could sink below their
type; `RegainedBound` and the lemmas on conditions say what a tick can do to
one character, so that the theorems need no arithmetic of their own.

Of ClientIO, for a buffer, a limit of repetitions, texts, windows and pieces of input of
any size, from `ClientIOAssumption` (a window has at least three lines, as the code
sees to, and the limit is 2 or more; with 1 a second quit in a row would pass it):

* `ClientInvariant`, and from it `SpamIsStopped`: the invariant of the run;
* `CommandsInOrder`, `PagesGoOn`: the action properties.

The invariant has three parts that do not touch each other. `InputInv`: what is on the wire
is what was sent and not received, and up to the first NUL the buffer holds bytes in the
order they were sent, all later than those of earlier commands, unless an option was read
over that NUL. `CountInv`: a command came in a row at most once more than `repeat` says,
as long as the handler is set; the count is reset when it makes a command quit, and that is sound
because quit clears the handler or ends the pager, which is why `CountInv` has to speak of
both. `PagerInv`: the pager's point is where the last page ended, and something other
than line ends follows. For each loop a lemma says what one round keeps and another that
all rounds keep it (`OptionFacts` and `OptionsFacts`, `SearchFacts` and `FoundFacts`, `CharsStep` and
`LineFacts`, `PageEndFacts`, `BackUpFacts`); `MovedFacts` is what `memmove` over an option or a
line leaves in order.

`RecordsProofs` proves of the three parts of Records, from `RecordsAssumption`: the constants of
the parts differ where the code tells the things apart (`None` is no account, player, room,
and not what an exit or object in memory is either; the two marks of a row, "nobody" and
"deleted", are no players), the bounds are numbers and not 0 where `Init` has something there,
and `Rooms` and `Sessions` are finite, since `save_area` and `handle_sig` go through them one after the other.

* Characters, for any accounts and any bound on ids: `TablesInStep`, the two rows of a
  player have the same number (`RowsInStep`), and `OwnCharacters`, who logs in finds the own
  character as it was left (`PlaysOwn`). Between the two inserts of `save_player` the
  tables are one row apart, so the inductive invariant says either that all inserts were made
  (`AllInserted`) or whose second one is still to come, and under which number (`Inserting`).
  That the own character comes back rests on it: the name is read from one table and the
  account from the other.
* Belongings, for any sessions, players and objects: `OnlyOwnRows` (`SavesOwnRows`) and
  `NothingCarriedIsLost` (`SaveKeepsAll`). `World` says that what is carried is allocated,
  is carried by one session only, which plays, and does not lie about, and that the list of all objects has each
  once. Saving goes from store to store; `Clears` is what one may do to the rows of
  the one before, and it composes, so that it holds of an object, of all that a session carries, of one
  session and of all that `handle_sig` saves. The row of what was saved stays its row (`Has`)
  until the clean-up, which spares what the walk finds (`SavedFacts`), and the walk
  finds what was picked up in order (`InOrderWalk`).
* Rooms, for any builders, rooms, directions and bounds: `TablesComeBack` (`SavedComesBack`)
  and `OthersFree` (`FreedByAnother`). `Kept` joins the three places an exit is in: an exit
  in memory that has a row has the first one of its room and direction, and the row says what was last
  saved, unless a deleted exit left it there; `Joins` and `Leads` say that rows and exits name rooms with
  rows. `Kept` is preserved room by room while an area is saved (`RoomSaved`), which is why it
  takes the exits and the table as arguments. `Stack` says of a stack of editors that an exit
  editor is at its top and the only one: so the own delete, for which the
  exits editor must be on top, frees nothing under it.

The types of all three parts are in `TablesComeBack`; those of Characters need `Typed`, by
which a character without a row is a player's.

`CombatProofs` proves, for any addresses, rooms, levels, gains and experience a level
takes, from `CombatAssumption`:

* `WorldAlwaysListed`, `AlwaysOneDeath`: the invariants;
* `OnlyOrphansCorrupt`, `EveryoneHasATurn`: the action properties.

`Healthy` says of a world what `WorldIsListed` says, with its types, that a player has
a level, and that unless somebody was orphaned nobody fights who is gone. The lemmas
named for the operations (linking, extracting, killing, gaining, a round) show that each takes a
healthy world to healthy worlds with one death at most, whatever the dice say;
`Later` is what a round may do to a world. The inductive invariant adds `Walks`:
while `violence_update` is at `ch`, everyone listed before it had a turn and fights nobody in
another room, and `ch` is allocated unless it was orphaned. `EveryoneHadATurn` speaks
of the step in which the loop ends, and follows from that.

`ForumProofs` proves, for any players, levels of access, notes, forums and clock, from
`ForumAssumption` (the first forum is open to everyone, as in the shipped database; a note
is one row, as `noteId` is the key):

* `NotesListedOnce`, `RemovedStaysGone`, `ForumsAreReadable`: the invariants;
* `OnlyPostersCorrupt`, `PostsNewestLast`, `CatchupsReadAll`: the action properties.

The properties are about what was posted and what is on a list, but what breaks them is a note in
progress. So the inductive invariant says of it: who has not posted it owns it and no list
has it (`Unposted`); the questions before the text are asked of such a note only
(`Drafting`). `RowsAreNotes` says that every row is that of a note in memory which knows its
number; it survives a save that gives the wrong number because only notes without one get it.
`StampIsPast` and `Ordered` are what `NewestLast` and `CatchupReadsAll` rest on: the last
stamp is past every note but those written to again after they were posted, and a list is in the
order of its dates but for those.

`LibraryProofs` proves things of five modules. Of
HashMap, for any keys and elements and any size to start with, from `HashMapAssumption`,
`KeysAssumption` (the keys are finitely many and not below zero: at a key below zero the code leaves
the table, see Findings) and `SizesAssumption` (what `find_prime_greater_than` looks for
exists: an odd prime between a number and its double, which is Bertrand's postulate, stated for the numbers
that occur):

* `EachKeyHasItsElement`: the invariant of the run, with `stray` false.

The size of a table is an odd prime and the step of a key's probes is smaller, so
the product of the step and a smaller number is no multiple of the size
(`NoZeroDivisors`) and the probes of a key visit every slot (`ProbeFacts`). The inductive invariant
`Holds` says of a table that a slot is active when it has an element, that its key is the one
the element was given for, that the count is that of the active slots, and that each given key is
reached by its probes through active slots of other keys. Filling a free slot on such a path keeps the other
paths (`PlacedHolds`); a rehash moves the slots one by one into a larger table for
which the same holds of what was moved so far (`MovedHolds`, `RehashedHolds`).

Of Automap, for any rooms, exits, size and depth, from `AutomapAssumption`:

* `RoomsStandRight`: the invariant of the run.

A step of `map_exits` never takes a room off the map and replaces a passage only by
one that is right as well (`GrowsOn`, `DoorFacts`). So what an exit was followed from is
there when the map is done, whatever is drawn later, and the induction over the depth
needs to say of the rest of the recursion only that it draws so (`BodyFacts`).

Of Importer, for any vnums, rooms, directions and files of any length, from `ImporterAssumption` (vnums are numbers):

* `SavedExitsJoinRows`, `SavedResetsNameRows`, `SubsStayTogether`: the invariants.

They speak of the rows of a commit, so the inductive invariant has to speak of
what has been read so far (`File`): what an index finds stands in an area that will be saved,
unless it was freed or its area is one of the stale list (`Indexed`); what
a reset names was found when it was read, and what is given or put stands with the reset before it, in its
room (`Recorded`); and `last_reset` is the newest reset whenever it is set at all
(`Newest`). `Game` is what the tables then hold. A commit is one step in which every area, its npcs,
objects and rooms get their numbers: `FlattenFacts` says where an element of the list of lists stands
in the list of all, from which the lemmas on ids follow.

Of Explored, for any number of rooms, lists and bits in a word, from `ExploredAssumption`:

* `TheExploredComeBack`: the action property `ExploredComesBack`.

Flags are taken for the set of their bits (`Bits`): `set_bit` adds one, whether the vector grows or
not (`SetBitFacts`), and `roomcount` is the size of the set (`RoomCountIs`). The coding is proved
against the decoding: after any number of rooms of the walk, the lengths written so far read as the places
of the rooms that are set, and the run that is not written yet is of rooms that are all like the
bit (`RunsOf`, `RunGoesOn`). So whatever the walk is, what is read are the places in it of what was
set (`RunsFacts`). While ids are smaller than `ID_HASH` each list has one room at most, and
a place in the walk is an id (`WalkIs`). The invariant `ExploredInv` says that `room_hash` has the
first rooms, that flags are of rooms that there are, and that the column was written by `get_explored_rle`.

Of TextEditor, for any texts and lines, from `TextsAssumption`:

* `TheLineIsEdited`: the action property `EditsThatLine`.

A text falls into lines, each given by where it begins and where its `\n` stands, with or
without a `\r` after it (`Splits`). Each of the functions is shown to see these lines: `get_line` takes
the first one (`GetLineIs`), so the menu shows them (`MenuIs`), `count_lines` counts them (`CountLines`), and
`string_linedel` takes a character for one of that line exactly when it is (`LineOfIs`). What is
left after a deletion, and what there is after an addition, falls into the lines one expects
(`CutSplits`, `AddSplits`), so every text the editor holds falls into lines (`EditorInv`).

`ListsProofs` proves what `Sorted` and `Without` do to order, elements and repetitions, and the facts on
least and greatest numbers and on lists of lists that the others cite. The prover cannot instantiate
the library's induction principles, which take an operator as a parameter; where the length of a list
matters, the lemmas argue with a least counterexample instead (`LeastNat`, `Upwards`). In this way `StepsExist`
shows that a function may be given by its first value and a step from each to the next, as the models give the
stores or tables while one thing after the other is saved, and `EquationExists` that the equation by which a loop is
written has a solution.

Every invariant, action property and refinement that a passing run checks is proved. What stays with
TLC is liveness (`LeavingEnds`, `EveryoneIsServed`, `ShieldWearsOff`), which is beyond the
prover.

## Findings

Violated by a run: `forum save` writes no note (`forum.c:492`) although it
reports success (`forum_save`).

Defects that the modules contain because the code does, most of them as
exceptions of a property, which says there are no others of the kind:

* Words of twelve letters or more can hash to a negative number, and
  `hm_insert` then writes in front of the table (`hashmap.c:134`).
* After a save of the forums, removing a note can delete the row of another
  (`forum.c:500`).
* Any kill raises a mortal to the last level that can be played
  (`fight.c:364`).
* What is dropped while it is worn is worn by whoever gets it, and makes a
  later wear fail although it says it did not (`server/command.c:362`;
  `DoubledOnlyByGet`).
* Double frees after deletions, menus of accounts with two characters that hang,
  `sockets` on a client at the name prompt (`LostOnlyForCause`).
* Posting a posted note, removing a note its author still holds
  (`CorruptOnlyAfterPosting`); following an opponent that was freed
  (`CorruptOnlyByOrphans`).
* A player saved under a shield keeps its bonus for good, one more with each
  such save (`ShieldComesOff`).
* Saving deletes the rows of objects that came into the game after the one that was
  picked up last (`SaveKeepsAll`); objects players carry are loaded
  again at each start, as the area's.
* The first saved NPC puts the two tables of players out of step for good, and so
  does a crash within `save_player` (`RowsInStep`); deleting a character leaves
  its row of `player`; a builder who saves a player who is not playing becomes its owner
  (`PlaysOwn`).
* A deleted exit comes back at the next start and wins over its successor
  (`SavedComesBack`); an editor of an exit another builder deleted ends the
  program (`FreedByAnother`).
* An option cut off by the end of a read makes the parser run over the end of its
  input (`InOrder`); output that does not fit frees the client under
  whoever writes (`ClientIO`, `lost`).
* `\i` with the number of a line ends the program (`TextEditor`); a deletion in a
  text whose last line is not terminated takes another line (`EditsThatLine`).
* With 256 rooms or more explored rooms come back as others
  (`ExploredComesBack`).
* A second import in the same process uses freed memory; of the resets of a room only
  the oldest is kept, and a door's reset keeps nothing; what follows a dropped npc is given
  to the one before (`SubsGoWithTheirs`); a vnum that was not imported is taken
  for the id of a room of the game (`Importer`).
* Things without a name answer to every argument, and `2.sword` counts the floor, what is
  carried and what is worn each for itself (`FindsTheNamed`).

## Not modelled

* Websockets: `server/websocket.c` is reached through a handler nobody sets.
* Channels and `act`: delivery of formatted text to who is in a room; no state of
  their own.
* Static tables, buffers, colours, strings not named above, the log, scripts: utilities;
  no property tells their results apart. `strip_color` and `strupper` do not terminate
  their results and `str_replace_all` may not end; no caller is affected by more
  than its text.
* Commands that only show something, and settings of one field.
* `xp_compute` and the dice: constants and choices.
* `show_map`: layout of what Automap draws.
* Helps, socials, shops and specials of the importer: read, and never saved.
* Reboot: cannot succeed (see Belongings), it is a crash.

## Plan

What a next step would take, in order:

1. Compose Session with Belongings, so that the ways out of a session are those that save.
2. `area_update`: which area is reset when, and how many NPCs a reset may leave on
   the list (`server/update.c:79`).
3. The player and object editors' single fields against a character that leaves.
