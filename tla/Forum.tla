-------------------------------- MODULE Forum --------------------------------
(***************************************************************************)
(* The forums: forum.c and the note and forum commands of                  *)
(* server/command_communication.c.  A forum is a linked list of notes in   *)
(* the order they were posted; a player's Account has a current forum, the *)
(* date of the last note read on each forum and a note in progress.        *)
(*                                                                         *)
(* Posting does not let go of the note in progress: the next note write    *)
(* continues the note that is on the forum, and posting it again links a   *)
(* note that is linked already.  Removing a note frees it under whoever    *)
(* has it in progress.  Notes are heap addresses; a step that follows a    *)
(* pointer to a note that is gone, frees a note that is listed, or links   *)
(* one that is linked, leaves memory the module does not follow: corrupt.  *)
(*                                                                         *)
(* The note table has no column date_stamp, which save_note writes: the    *)
(* statement is never prepared, finalising nothing succeeds, and the note  *)
(* takes the id of whatever row the process inserted last.  Deletions do   *)
(* reach the disk, by that id.  A row of the note table is named by the    *)
(* address its note is loaded at; other addresses stand for ids of no row. *)
(***************************************************************************)
EXTENDS Integers, SequencesExt, Lists

CONSTANTS
  Players,     \* players, each with an Account of its own
  Immortals,   \* those of immortal level
  Writers,     \* Writers[f]: who reaches the writeLevel of forum f
  Readers,     \* Readers[f]: who reaches the readLevel of forum f
  NoUnsub,     \* the forums with FORUM_NOUNSUB
  max_forum,
  Notes,       \* addresses a Note can be allocated at
  Addressees,  \* the sets of players a toList can name
  OnDisk,      \* OnDisk[f]: the notes of f in the database at the start
  Leftovers,   \* what an uninitialised lastNote may hold
  MaxTime,     \* bound: the clock stops here
  MaxPosts,    \* bound: notes posted in the life of a process
  None

Forums == 1 .. max_forum

\* No note stands twice on the forums of d.
OnceEach(d) ==
  \A f, g \in Forums : \A i \in DOMAIN d[f], j \in DOMAIN d[g] :
    d[f][i] = d[g][j] => f = g /\ i = j

StartTime == 2  \* later than any note in the database

Stamps == 0 .. MaxTime + MaxPosts

\* A Note: its sender, its recipients, date_stamp, whether there is text, id.
Note == [from : Players \cup {None}, to : SUBSET Players, date : Stamps, text : BOOLEAN,
         row : Notes \cup {None}]

ASSUME ForumAssumption ==
  /\ max_forum \in Nat \ {0}
  /\ Immortals \subseteq Players /\ NoUnsub \subseteq Forums
  /\ Writers \in [Forums -> SUBSET Players]
  /\ Readers \in [Forums -> SUBSET Players]
  /\ Readers[1] = Players  \* as in the database of the repository
  /\ Addressees \subseteq SUBSET Players
  /\ OnDisk \in [Forums -> Seq(Notes)] /\ OnceEach(OnDisk)  \* noteId is the key
  /\ MaxTime \in Nat \ {0, 1} /\ MaxPosts \in Nat
  /\ Leftovers \subseteq 0 .. MaxTime + MaxPosts /\ None \notin Notes \cup Note

VARIABLES
  corrupt,
  current_time,
  last_note_stamp,
  posts,         \* the notes posted by this process, for the bound
  note,          \* the Note at each address, None where there is none
  notes,         \* forum->notes
  disk,          \* the rows of the note table
  handler,       \* where the player is in the writing of a note
  inProgress,    \* account->inProgress
  forum,         \* account->forum
  lastNote,      \* account->forumData[f].lastNote
  unsubscribed,  \* account->forumData[f].unsubscribed
  posted,        \* history: players whose note in progress has been posted
  reopened       \* history: posted notes that were written to again

clock   == <<current_time, last_note_stamp, posts>>
lists   == <<note, notes, disk>>
account == <<inProgress, forum, lastNote, unsubscribed>>
history == <<posted, reopened>>
vars    == <<corrupt, clock, lists, handler, account, history>>

Listed == UNION {ToSet(notes[f]) : f \in Forums}

TypeOK ==
  /\ corrupt \in BOOLEAN
  /\ current_time \in StartTime .. MaxTime
  /\ last_note_stamp \in Stamps
  /\ posts \in 0 .. MaxPosts
  /\ note \in [Notes -> {None} \cup Note]
  /\ \A f \in Forums : ToSet(notes[f]) \cup ToSet(disk[f]) \subseteq Notes
  /\ handler \in [Players -> {"command", "to", "subject", "expire", "text",
                              "finish"}]
  /\ inProgress \in [Players -> Notes \cup {None}]
  /\ forum \in [Players -> Forums]
  /\ lastNote \in [Players -> [Forums -> Stamps]]
  /\ unsubscribed \in [Players -> SUBSET Forums]
  /\ posted \subseteq Players /\ reopened \subseteq Notes

-----------------------------------------------------------------------------
(* Where a process and a session begin.                                    *)

FirstForum == 1

\* load_notes: the rows of d as notes.
Loaded(d) ==
  [n \in Notes |-> IF \E f \in Forums : n \in ToSet(d[f])
                   THEN [from |-> None, to |-> Players, date |-> 1,
                         text |-> TRUE, row |-> n]
                   ELSE None]

\* load_forums, with new Accounts for everyone.
Booted ==
  /\ last_note_stamp' = 0
  /\ posts' = 0
  /\ notes' = disk
  /\ note' = Loaded(disk)
  /\ handler' = [p \in Players |-> "command"]
  /\ inProgress' = [p \in Players |-> None]
  /\ forum' = [p \in Players |-> FirstForum]
  /\ lastNote' = [p \in Players |-> [f \in Forums |-> 0]]
  /\ unsubscribed' = [p \in Players |-> {}]
  /\ posted' = {} /\ reopened' = {}

Init ==
  /\ corrupt = FALSE
  /\ current_time = StartTime
  /\ last_note_stamp = 0
  /\ posts = 0
  /\ disk = OnDisk /\ notes = OnDisk
  /\ note = Loaded(OnDisk)
  /\ handler = [p \in Players |-> "command"]
  /\ inProgress = [p \in Players |-> None]
  /\ forum = [p \in Players |-> FirstForum]
  /\ lastNote = [p \in Players |-> [f \in Forums |-> 0]]
  /\ unsubscribed = [p \in Players |-> {}]
  /\ posted = {} /\ reopened = {}

\* The process ends, in order or not, and is started again.
Restart == Booted /\ corrupt' = FALSE /\ UNCHANGED <<current_time, disk>>

\* The heap is no longer what the lists say.  Until the process is started
\* again nothing is promised, and nothing followed.
Corrupts == Booted /\ corrupt' = TRUE /\ UNCHANGED <<current_time, disk>>

Tick ==
  /\ current_time < MaxTime
  /\ current_time' = current_time + 1
  /\ UNCHANGED <<corrupt, last_note_stamp, posts, lists, handler, account, history>>

-----------------------------------------------------------------------------
(* Writing a note.                                                         *)

\* The player types a line while its handler is h.
Line(p, h) == ~corrupt /\ handler[p] = h

Becomes(p, h) == handler' = [handler EXCEPT ![p] = h]

\* inProgress still names the note the player began.
HasDraft(p) == /\ inProgress[p] # None
               /\ note[inProgress[p]] # None
               /\ note[inProgress[p]].from = p

Draft(p) == note[inProgress[p]]

Dangling(p) == inProgress[p] # None /\ ~HasDraft(p)

\* A note without text is thrown away before another is begun.
Discards(p) == HasDraft(p) /\ ~Draft(p).text

Reopened(p) == reopened' = reopened \cup ({inProgress[p]} \cap Listed)

NewDraft(p, n) ==
  /\ note[n] = None \/ n = inProgress[p]
  /\ note' = [m \in Notes |->
                IF m = n THEN [from |-> p, to |-> {}, date |-> current_time,
                               text |-> FALSE, row |-> None]
                ELSE IF m = inProgress[p] THEN None ELSE note[m]]
  /\ inProgress' = [inProgress EXCEPT ![p] = n]
  /\ posted' = posted \ {p}
  /\ UNCHANGED reopened

note_write(p) ==
  /\ Line(p, "command") /\ p \in Writers[forum[p]]
  /\ \/ /\ inProgress[p] = None \/ Discards(p)
        /\ inProgress[p] \notin Listed
        /\ \E n \in Notes : NewDraft(p, n)
        /\ Becomes(p, "to")
        /\ UNCHANGED <<corrupt, clock, notes, disk, forum, lastNote,
                       unsubscribed>>
     \/ /\ HasDraft(p) /\ ~Discards(p)
        /\ note' = [note EXCEPT ![inProgress[p]].date = current_time]
        /\ Reopened(p)
        /\ Becomes(p, "text")
        /\ UNCHANGED <<corrupt, clock, notes, disk, account, posted>>
     \/ /\ Dangling(p) \/ (Discards(p) /\ inProgress[p] \in Listed)
        /\ Corrupts

connection_note_to(p) ==
  /\ Line(p, "to")
  /\ \E who \in Addressees :
        note' = [note EXCEPT ![inProgress[p]].to = who]
  /\ Becomes(p, "subject")
  /\ UNCHANGED <<corrupt, clock, notes, disk, account, history>>

\* Only an immortal chooses the day the note expires.
connection_note_subject(p) ==
  /\ Line(p, "subject")
  /\ Becomes(p, IF p \in Immortals THEN "expire" ELSE "text")
  /\ UNCHANGED <<corrupt, clock, lists, account, history>>

connection_note_expire(p) ==
  /\ Line(p, "expire")
  /\ Becomes(p, "text")
  /\ UNCHANGED <<corrupt, clock, lists, account, history>>

\* edit_text: a line is added or removed, or \q ends the text.
connection_note_text(p) ==
  /\ Line(p, "text")
  /\ \/ /\ HasDraft(p)
        /\ \E some \in BOOLEAN :
              note' = [note EXCEPT ![inProgress[p]].text = some]
        /\ UNCHANGED <<corrupt, clock, notes, disk, handler, account, history>>
     \/ Dangling(p) /\ Corrupts
     \/ /\ Becomes(p, "finish")
        /\ UNCHANGED <<corrupt, clock, lists, account, history>>

\* Mutant: the clock is taken as it is.
NextStamp_Clock == current_time

\* The date finish_note gives: no two notes of a process get the same.
NextStamp == IF last_note_stamp >= current_time THEN last_note_stamp + 1
             ELSE current_time

finish_note(f, n) ==
  /\ posts < MaxPosts /\ posts' = posts + 1
  /\ last_note_stamp' = NextStamp
  /\ note' = [note EXCEPT ![n].date = NextStamp]
  /\ notes' = [notes EXCEPT ![f] = Append(@, n)]
  /\ UNCHANGED <<current_time, disk>>

\* (P)ost: the note stays in progress.
Post(p) ==
  \/ /\ HasDraft(p) /\ inProgress[p] \notin Listed
     /\ finish_note(forum[p], inProgress[p])
     /\ Becomes(p, "command")
     /\ posted' = posted \cup {p}
     /\ UNCHANGED <<corrupt, account, reopened>>
  \/ /\ Dangling(p) \/ inProgress[p] \in Listed
     /\ Corrupts

\* (C)ontinue.
Continue(p) ==
  \/ /\ HasDraft(p)
     /\ Becomes(p, "text")
     /\ UNCHANGED <<corrupt, clock, lists, account, history>>
  \/ Dangling(p) /\ Corrupts

\* Mutant: the note is freed, and still in progress.
Forget_Frees(p) ==
  /\ Becomes(p, "command")
  /\ note' = IF HasDraft(p) /\ inProgress[p] \notin Listed
             THEN [note EXCEPT ![inProgress[p]] = None] ELSE note
  /\ UNCHANGED <<corrupt, clock, notes, disk, account, history>>

\* (F)orget it: the note stays in progress.
Forget(p) ==
  /\ Becomes(p, "command")
  /\ UNCHANGED <<corrupt, clock, lists, account, history>>

connection_note_finish(p) ==
  Line(p, "finish") /\ (Post(p) \/ Continue(p) \/ Forget(p))

-----------------------------------------------------------------------------
(* Removing notes, and saving them.                                        *)

is_note_to(p, n) == note[n].from = p \/ p \in note[n].to

\* Mutant: the notes are freed and stay on the forum.
Deleted_StaysLinked(f, S) ==
  /\ disk' = [g \in Forums |-> Without(disk[g], {note[n].row : n \in S})]
  /\ note' = [n \in Notes |-> IF n \in S THEN None ELSE note[n]]
  /\ reopened' = reopened \ S
  /\ UNCHANGED notes

\* Mutant: the rows stay.
Deleted_KeepsRow(f, S) ==
  /\ notes' = [notes EXCEPT ![f] = Without(@, S)]
  /\ note' = [n \in Notes |-> IF n \in S THEN None ELSE note[n]]
  /\ reopened' = reopened \ S
  /\ UNCHANGED disk

\* delete_note for the notes of S, all on forum f: a row goes by its id,
\* whatever forum it is on.
Deleted(f, S) ==
  LET rows == {note[n].row : n \in S}
  IN /\ notes' = [notes EXCEPT ![f] = Without(@, S)]
     /\ disk' = [g \in Forums |-> Without(disk[g], rows)]
     /\ note' = [n \in Notes |-> IF n \in S THEN None ELSE note[n]]
     /\ reopened' = reopened \ S

note_remove(p) ==
  LET here == ToSet(notes[forum[p]])
      own  == {n \in here : note[n].from = p}
  IN /\ Line(p, "command")
     /\ \/ \E n \in here : /\ is_note_to(p, n)
                           /\ n \in own \/ p \in Immortals
                           /\ Deleted(forum[p], {n})
        \/ p \in Immortals /\ own # {} /\ Deleted(forum[p], own)
     /\ UNCHANGED <<corrupt, clock, handler, account, posted>>

\* forum save, save_forums: the statements fail unnoticed, and every note
\* that has no id yet gets the one id r.
save_forums(p) ==
  /\ Line(p, "command") /\ p \in Immortals
  /\ \E r \in Notes \cup {None} :
       note' = [n \in Notes |-> IF n \in Listed /\ note[n].row = None
                                THEN [note[n] EXCEPT !.row = r] ELSE note[n]]
  /\ UNCHANGED <<corrupt, clock, notes, disk, handler, account, history>>

-----------------------------------------------------------------------------
(* Reading.                                                                *)

Unread(p, f) == {n \in ToSet(notes[f]) : is_note_to(p, n)
                                           /\ lastNote[p][f] < note[n].date}

\* next_forum: the next one the player reads and subscribes to, or the first.
next_forum(p) ==
  LET after == {f \in forum[p] + 1 .. max_forum :
                  p \in Readers[f] /\ f \notin unsubscribed[p]}
  IN IF after = {} THEN FirstForum ELSE Min(after)

\* note read: shows the first unread note, and does not remember it; without
\* one it moves on.
note_read(p) ==
  /\ Line(p, "command")
  /\ Unread(p, forum[p]) = {}
  /\ forum' = [forum EXCEPT ![p] = next_forum(p)]
  /\ UNCHANGED <<corrupt, clock, lists, handler, inProgress, lastNote,
                 unsubscribed, history>>

\* Mutant: the date of the first note.
note_catchup_First(p) ==
  /\ Line(p, "command")
  /\ notes[forum[p]] # <<>>
  /\ lastNote' = [lastNote EXCEPT ![p][forum[p]] = note[Head(notes[forum[p]])].date]
  /\ UNCHANGED <<corrupt, clock, lists, handler, inProgress, forum,
                 unsubscribed, history>>

\* note catchup, with all or without: only the current forum is marked.
note_catchup(p) ==
  /\ Line(p, "command")
  /\ notes[forum[p]] # <<>>
  /\ lastNote' = [lastNote EXCEPT ![p][forum[p]] = note[Last(notes[forum[p]])].date]
  /\ UNCHANGED <<corrupt, clock, lists, handler, inProgress, forum,
                 unsubscribed, history>>

note_reset(p) ==
  /\ Line(p, "command")
  /\ lastNote' = [lastNote EXCEPT ![p] = [f \in Forums |-> 0]]
  /\ UNCHANGED <<corrupt, clock, lists, handler, inProgress, forum,
                 unsubscribed, history>>

\* Mutant: the level is not asked.
do_forum_NoLevel(p) ==
  /\ Line(p, "command")
  /\ \E f \in Forums : forum' = [forum EXCEPT ![p] = f]
  /\ UNCHANGED <<corrupt, clock, lists, handler, inProgress, lastNote,
                 unsubscribed, history>>

do_forum(p) ==
  /\ Line(p, "command")
  /\ \E f \in Forums : p \in Readers[f] /\ forum' = [forum EXCEPT ![p] = f]
  /\ UNCHANGED <<corrupt, clock, lists, handler, inProgress, lastNote,
                 unsubscribed, history>>

do_subscribe(p) ==
  /\ Line(p, "command")
  /\ \E f \in Forums \ NoUnsub :
        /\ p \in Readers[f]
        /\ unsubscribed' = [unsubscribed EXCEPT ![p] =
                              IF f \in @ THEN @ \ {f} ELSE @ \cup {f}]
  /\ UNCHANGED <<corrupt, clock, lists, handler, inProgress, forum, lastNote,
                 history>>

\* The player leaves and comes back: its Account is new.  A note that was
\* not posted is lost with it (leaked; nothing names its address).  What
\* load_account_forums sets lastNote to was never initialised.
Relogin(p) ==
  /\ ~corrupt
  /\ note' = [n \in Notes |-> IF n = inProgress[p] /\ HasDraft(p) /\ n \notin Listed
                              THEN None ELSE note[n]]
  /\ Becomes(p, "command")
  /\ inProgress' = [inProgress EXCEPT ![p] = None]
  /\ forum' = [forum EXCEPT ![p] = FirstForum]
  /\ \E t \in Leftovers :
        lastNote' = [lastNote EXCEPT ![p] = [f \in Forums |-> t]]
  /\ \E U \in SUBSET {f \in Forums \ NoUnsub : p \in Readers[f]} :
        unsubscribed' = [unsubscribed EXCEPT ![p] = U]
  /\ posted' = posted \ {p}
  /\ UNCHANGED <<corrupt, clock, notes, disk, reopened>>

-----------------------------------------------------------------------------
Next ==
  \/ Restart
  \/ Tick
  \/ \E p \in Players :
       \/ note_write(p)
       \/ connection_note_to(p) \/ connection_note_subject(p)
       \/ connection_note_expire(p) \/ connection_note_text(p)
       \/ connection_note_finish(p)
       \/ note_remove(p) \/ save_forums(p)
       \/ note_read(p) \/ note_catchup(p) \/ note_reset(p)
       \/ do_forum(p) \/ do_subscribe(p)
       \/ Relogin(p)

Spec == Init /\ [][Next]_vars

-----------------------------------------------------------------------------
(* Properties.                                                             *)

\* Every note on a forum is a note that exists, stands there once and on no
\* other forum, and is no player's note that was not posted.
ListedOnce ==
  /\ TypeOK
  /\ OnceEach(notes)
  /\ \A n \in Listed : note[n] # None
  /\ \A p \in Players \ posted : inProgress[p] \notin Listed

\* Memory is only lost through a player who goes on with a note that he has
\* posted already: no removal by another, no reuse of an address, no lost
\* link does it to anybody else.
CorruptOnlyAfterPosting == [][~corrupt /\ corrupt' => posted # {}]_vars

\* A note is posted with a later date than any note this process knows,
\* however many are posted in one second, unless that one was written to
\* again after it was posted.
NewestLast ==
  [][posts' > posts =>
       \E f \in Forums :
         /\ Len(notes'[f]) = Len(notes[f]) + 1
         /\ \A n \in Listed \ reopened : note[n].date < note'[Last(notes'[f])].date]_vars

\* note catchup marks all notes of the current forum as read, unless one of
\* them was written to again after it was posted.
CatchupReadsAll ==
  [][\A p \in Players : note_catchup(p) =>
       \/ Unread(p, forum[p])' = {}
       \/ ToSet(notes[forum[p]]) \cap reopened # {}]_vars

\* The forum a player stands in, and whose notes are shown to him without
\* another check, is one he may read.
CurrentForumIsReadable == \A p \in Players : p \in Readers[forum[p]]

\* What the next start of the server reads is on the forums already: a note
\* that was removed does not come back.
RemovedIsGone ==
  \A f \in Forums : ToSet(disk[f]) \subseteq ToSet(notes[f])

\* When the forums are saved, the next start of the server finds the notes
\* that are on them.
SavedNotesSurvive ==
  [][\A p \in Players : save_forums(p) /\ note' # note =>
       \A f \in Forums : ToSet(notes[f]) \subseteq ToSet(disk'[f])]_vars

=============================================================================
