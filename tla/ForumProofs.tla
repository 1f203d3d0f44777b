----------------------------- MODULE ForumProofs -----------------------------
(***************************************************************************)
(* Theorems about Forum, for every set of players, forums and notes.       *)
(***************************************************************************)
EXTENDS Forum, ListsProofs

Handlers == {"command", "to", "subject", "expire", "text", "finish"}

Types ==
  /\ corrupt \in BOOLEAN
  /\ current_time \in StartTime .. MaxTime
  /\ posts \in 0 .. MaxPosts /\ last_note_stamp \in 0 .. MaxTime + posts
  /\ note \in [Notes -> {None} \cup Note]
  /\ notes \in [Forums -> Seq(Notes)] /\ disk \in [Forums -> Seq(Notes)]
  /\ handler \in [Players -> Handlers]
  /\ inProgress \in [Players -> Notes \cup {None}]
  /\ forum \in [Players -> Forums]
  /\ lastNote \in [Players -> [Forums -> Stamps]]
  /\ unsubscribed \in [Players -> SUBSET Forums]
  /\ posted \subseteq Players /\ reopened \subseteq Notes

\* A note that was not posted is there, its writer's, and on no forum.
Unposted ==
  \A p \in Players \ posted : inProgress[p] = None \/ (HasDraft(p) /\ inProgress[p] \notin Listed)

\* The lines before the text are asked of a note that was not posted.
Drafting ==
  \A p \in Players : handler[p] \in {"to", "subject", "expire"} =>
    p \notin posted /\ inProgress[p] # None

\* A row is that of a note on its forum, which knows it.
RowsAreNotes ==
  \A f \in Forums : \A n \in ToSet(disk[f]) : n \in ToSet(notes[f]) /\ note[n].row = n

\* The stamp is past every note that was not written to again.
StampIsPast ==
  \A n \in Listed \ reopened : note[n].date < StartTime \/ note[n].date <= last_note_stamp

\* The notes of s stand in the order of their dates, but for those of but.
Ordered(s, but) ==
  \A i, j \in DOMAIN s :
    i < j /\ s[i] \notin but /\ s[j] \notin but => note[s[i]].date <= note[s[j]].date

IInv ==
  /\ Types
  /\ OnceEach(notes) /\ OnceEach(disk)
  /\ \A n \in Listed : note[n] # None
  /\ Unposted /\ Drafting
  /\ RowsAreNotes
  /\ CurrentForumIsReadable
  /\ StampIsPast
  /\ \A f \in Forums : Ordered(notes[f], reopened)

-----------------------------------------------------------------------------
(* Lists of notes.                                                         *)

LEMMA ListedFacts ==
  ASSUME Types
  PROVE  /\ Listed \subseteq Notes
         /\ \A n : n \in Listed <=> \E f \in Forums : n \in ToSet(notes[f])
         /\ \A f \in Forums : \A i \in DOMAIN notes[f] : notes[f][i] \in ToSet(notes[f])
         /\ \A f \in Forums : ToSet(notes[f]) \subseteq Notes
<1>1. \A f \in Forums : notes[f] \in Seq(Notes)  BY DEF Types
<1>2. \A f \in Forums : ToSet(notes[f]) \subseteq Notes
  <2> SUFFICES ASSUME NEW f \in Forums PROVE ToSet(notes[f]) \subseteq Notes  OBVIOUS
  <2> QED  BY <1>1 DEF ToSet
<1>3. \A n : n \in Listed <=> \E f \in Forums : n \in ToSet(notes[f])  BY DEF Listed
<1>4. \A f \in Forums : \A i \in DOMAIN notes[f] : notes[f][i] \in ToSet(notes[f])  BY DEF ToSet
<1> QED  BY <1>2, <1>3, <1>4

LEMMA AppendedFacts ==
  ASSUME NEW E, NEW s \in Seq(E), NEW e \in E
  PROVE  /\ Append(s, e) \in Seq(E) /\ Len(Append(s, e)) = Len(s) + 1
         /\ Append(s, e)[Len(s) + 1] = e /\ \A i \in DOMAIN s : Append(s, e)[i] = s[i]
         /\ DOMAIN Append(s, e) = DOMAIN s \cup {Len(s) + 1}
         /\ ToSet(Append(s, e)) = ToSet(s) \cup {e}
<1> DEFINE t == Append(s, e)
<1>1. /\ t \in Seq(E) /\ Len(t) = Len(s) + 1 /\ t[Len(s) + 1] = e
      /\ \A i \in DOMAIN s : t[i] = s[i]
      /\ DOMAIN t = DOMAIN s \cup {Len(s) + 1}
  OBVIOUS
<1> HIDE DEF t
<1>2. ToSet(t) = ToSet(s) \cup {e}  BY <1>1 DEF ToSet
<1> QED  BY <1>1, <1>2 DEF t

LEMMA WithoutSet ==
  ASSUME NEW s \in Seq(Notes), NEW S
  PROVE  Without(s, S) \in Seq(Notes) /\ ToSet(Without(s, S)) = ToSet(s) \ S
<1>1. Range(Without(s, S)) = Range(s) \ S /\ Without(s, S) \in Seq(Notes)  BY WithoutFacts
<1> QED  BY <1>1 DEF Range, ToSet

\* e is d with notes taken out of its forums.
Thinned(d, e) ==
  \A f \in Forums : \E S : e[f] = Without(d[f], S) \/ e[f] = d[f]

LEMMA ThinnedOnce ==
  ASSUME NEW d \in [Forums -> Seq(Notes)], NEW e, Thinned(d, e), OnceEach(d)
  PROVE  OnceEach(e)
<1>1. ASSUME NEW f \in Forums
      PROVE  \E at \in [DOMAIN e[f] -> DOMAIN d[f]] :
               /\ \A n \in DOMAIN e[f] : e[f][n] = d[f][at[n]]
               /\ \A m, n \in DOMAIN e[f] : at[m] = at[n] => m = n
  <2> DEFINE s == d[f]
             t == e[f]
  <2>1. s \in Seq(Notes)  OBVIOUS
  <2>2. PICK S : t = Without(s, S) \/ t = s  BY DEF Thinned
  <2> HIDE DEF s, t
  <2>3. CASE t = s
    <3> DEFINE at == [n \in DOMAIN t |-> n]
    <3>1. at \in [DOMAIN t -> DOMAIN s] /\ \A n \in DOMAIN t : at[n] = n  BY <2>3
    <3> HIDE DEF at
    <3> QED  BY <2>3, <3>1 DEF s, t
  <2>4. CASE t = Without(s, S)
    <3>1. PICK at \in [DOMAIN t -> DOMAIN s] :
            /\ \A n \in DOMAIN t : t[n] = s[at[n]]
            /\ \A m, n \in DOMAIN t : m < n => at[m] < at[n]
      BY <2>1, <2>4, WithoutFacts
    <3>2. t \in Seq(Notes)  BY <2>1, <2>4, WithoutFacts
    <3>3. ASSUME NEW m \in DOMAIN t, NEW n \in DOMAIN t, at[m] = at[n] PROVE m = n
      <4>1. m \in Nat /\ n \in Nat /\ at[m] \in Nat /\ at[n] \in Nat  BY <2>1, <3>1, <3>2
      <4>2. ~ (m < n) /\ ~ (n < m)  BY <3>1, <3>3, <4>1
      <4> QED  BY <4>1, <4>2
    <3> QED  BY <3>1, <3>3 DEF s, t
  <2> QED  BY <2>2, <2>3, <2>4
<1>2. SUFFICES ASSUME NEW f \in Forums, NEW g \in Forums, NEW i \in DOMAIN e[f], NEW j \in DOMAIN e[g],
                      e[f][i] = e[g][j]
               PROVE  f = g /\ i = j
  BY DEF OnceEach
<1>3. PICK at \in [DOMAIN e[f] -> DOMAIN d[f]] :
        /\ \A n \in DOMAIN e[f] : e[f][n] = d[f][at[n]]
        /\ \A m, n \in DOMAIN e[f] : at[m] = at[n] => m = n
  BY <1>1
<1>4. PICK in \in [DOMAIN e[g] -> DOMAIN d[g]] : \A n \in DOMAIN e[g] : e[g][n] = d[g][in[n]]
  BY <1>1
<1>5. f = g /\ at[i] = in[j]  BY <1>2, <1>3, <1>4 DEF OnceEach
<1>6. d[f][at[j]] = d[f][at[i]] /\ at[i] \in DOMAIN d[f] /\ at[j] \in DOMAIN d[f]  BY <1>2, <1>3, <1>5
<1>7. at[i] = at[j]  BY <1>6 DEF OnceEach
<1> QED  BY <1>3, <1>5, <1>7

-----------------------------------------------------------------------------
(* What a step leaves alone.                                               *)

\* What IInv says of the forums, apart from who is writing.
Forumwide ==
  /\ OnceEach(notes) /\ OnceEach(disk)
  /\ \A n \in Listed : note[n] # None
  /\ RowsAreNotes /\ StampIsPast
  /\ \A f \in Forums : Ordered(notes[f], reopened)

\* n is on its forum as it was, but for what is written to it again.
Kept(n) ==
  /\ note'[n] # None
  /\ note[n].row = None \/ note'[n].row = note[n].row
  /\ n \in reopened' \/ note'[n].date = note[n].date

LEMMA ForumsKept ==
  ASSUME IInv, UNCHANGED <<notes, disk, last_note_stamp>>, reopened \subseteq reopened',
         \A n \in Listed : Kept(n)
  PROVE  Forumwide'
<1>1. Listed' = Listed /\ Types  BY DEF Listed, IInv
<1>2. OnceEach(notes)' /\ OnceEach(disk)'  BY DEF IInv, OnceEach
<1>3. \A n \in Listed' : note'[n] # None  BY <1>1 DEF Kept
<1>4. RowsAreNotes'
  <2> SUFFICES ASSUME NEW f \in Forums, NEW n \in ToSet(disk[f])
               PROVE  n \in ToSet(notes[f]) /\ note'[n].row = n
    BY DEF RowsAreNotes
  <2>1. n \in ToSet(notes[f]) /\ note[n].row = n  BY DEF IInv, RowsAreNotes
  <2>2. n \in Listed /\ n # None  BY <1>1, <2>1, ListedFacts, ForumAssumption
  <2> QED  BY <2>1, <2>2 DEF Kept
<1>5. StampIsPast'
  <2> SUFFICES ASSUME NEW n \in Listed, n \notin reopened'
               PROVE  note'[n].date < StartTime \/ note'[n].date <= last_note_stamp'
    BY <1>1 DEF StampIsPast
  <2>1. n \notin reopened /\ note'[n].date = note[n].date  BY DEF Kept
  <2> QED  BY <2>1 DEF IInv, StampIsPast
<1>6. ASSUME NEW f \in Forums PROVE Ordered(notes[f], reopened)'
  <2> SUFFICES ASSUME NEW i \in DOMAIN notes[f], NEW j \in DOMAIN notes[f],
                      i < j, notes[f][i] \notin reopened', notes[f][j] \notin reopened'
               PROVE  note'[notes[f][i]].date <= note'[notes[f][j]].date
    BY DEF Ordered
  <2>1. notes[f][i] \in Listed /\ notes[f][j] \in Listed  BY <1>1, ListedFacts
  <2>2. /\ note'[notes[f][i]].date = note[notes[f][i]].date
        /\ note'[notes[f][j]].date = note[notes[f][j]].date
    BY <2>1 DEF Kept
  <2> QED  BY <2>2 DEF IInv, Ordered
<1> QED  BY <1>2, <1>3, <1>4, <1>5, <1>6 DEF Forumwide

\* What p does leaves the notes the others are writing alone.
LEMMA OthersKeepTheirs ==
  ASSUME IInv, NEW p \in Players,
         \A q \in Players \ {p} : inProgress'[q] = inProgress[q] /\ (q \in posted' <=> q \in posted),
         \A n \in Notes \ Listed : note[n] # None /\ note[n].from # p =>
            note'[n] # None /\ note'[n].from = note[n].from,
         \A n \in Listed' \ Listed : note[n] # None /\ note[n].from = p,
         NEW q \in Players \ {p}, q \notin posted'
  PROVE  inProgress'[q] = None \/ (HasDraft(q)' /\ inProgress'[q] \notin Listed')
<1>1. q \notin posted /\ inProgress'[q] = inProgress[q]  OBVIOUS
<1>2. inProgress[q] \in Notes \cup {None}  BY DEF IInv, Types
<1>3. CASE inProgress[q] # None
  <2>1. HasDraft(q) /\ inProgress[q] \notin Listed  BY <1>1, <1>3 DEF IInv, Unposted
  <2>2. note[inProgress[q]] # None /\ note[inProgress[q]].from = q /\ q # p  BY <2>1 DEF HasDraft
  <2>3. note'[inProgress[q]] # None /\ note'[inProgress[q]].from = q
    BY <1>2, <1>3, <2>1, <2>2
  <2>4. HasDraft(q)'  BY <1>1, <1>3, <2>3 DEF HasDraft
  <2>5. inProgress[q] \notin Listed'  BY <2>1, <2>2
  <2> QED  BY <1>1, <2>4, <2>5
<1> QED  BY <1>1, <1>3

\* A step that writes to no note, and begins and posts none.
LEMMA QuietInv ==
  ASSUME IInv, UNCHANGED <<last_note_stamp, lists, inProgress, posted, reopened>>,
         Types', CurrentForumIsReadable', Drafting'
  PROVE  IInv'
<1>1. UNCHANGED <<notes, disk, note>>  BY DEF lists
<1>2. \A n \in Listed : Kept(n)  BY <1>1 DEF IInv, Kept
<1>3. Forumwide'  BY <1>1, <1>2, ForumsKept
<1>4. Unposted'  BY <1>1 DEF IInv, Unposted, HasDraft, Listed
<1> QED  BY <1>3, <1>4 DEF IInv, Forumwide

\* The handler of p changes, and its note was not just begun.
LEMMA DraftingKept ==
  ASSUME IInv, NEW p \in Players, NEW h, UNCHANGED <<inProgress, posted>>,
         handler' = handler \/ Becomes(p, h),
         h \in {"to", "subject", "expire"} => handler[p] \in {"to", "subject", "expire"}
  PROVE  Drafting'
<1>1. handler \in [Players -> Handlers]  BY DEF IInv, Types
<1>2. \A q \in Players : handler'[q] \in {"to", "subject", "expire"} =>
                           handler[q] \in {"to", "subject", "expire"}
  BY <1>1 DEF Becomes
<1> QED  BY <1>2 DEF IInv, Drafting

-----------------------------------------------------------------------------
(* Steps that leave the notes alone.                                       *)

LEMMA TickInv == ASSUME IInv, Tick PROVE IInv'
<1>1. Types'
  <2>1. current_time' \in StartTime .. MaxTime
    BY ForumAssumption DEF IInv, Types, Tick, StartTime
  <2> QED  BY <2>1 DEF IInv, Types, Tick, lists, account, history
<1>2. Drafting' /\ CurrentForumIsReadable'
  BY DEF IInv, Drafting, CurrentForumIsReadable, Tick, lists, account, history
<1> QED  BY <1>1, <1>2, QuietInv DEF Tick, lists, account, history

LEMMA HandlerInv ==
  ASSUME IInv, NEW p \in Players, NEW h \in Handlers, Becomes(p, h),
         h \in {"to", "subject", "expire"} => handler[p] \in {"to", "subject", "expire"},
         UNCHANGED <<corrupt, clock, lists, account, history>>
  PROVE  IInv'
<1>1. Types'
  <2>1. handler' \in [Players -> Handlers]  BY DEF IInv, Types, Becomes
  <2> QED  BY <2>1 DEF IInv, Types, clock, lists, account, history
<1>2. Drafting'  BY DraftingKept DEF account, history
<1>3. CurrentForumIsReadable'  BY DEF IInv, CurrentForumIsReadable, account
<1> QED  BY <1>1, <1>2, <1>3, QuietInv DEF clock, account, history

LEMMA NextForumFacts ==
  ASSUME IInv, NEW p \in Players
  PROVE  next_forum(p) \in Forums /\ p \in Readers[next_forum(p)]
<1> DEFINE after == {f \in forum[p] + 1 .. max_forum : p \in Readers[f] /\ f \notin unsubscribed[p]}
<1>1. forum[p] \in Nat /\ forum[p] >= 1 /\ max_forum \in Nat /\ max_forum >= 1
  BY ForumAssumption DEF IInv, Types, Forums
<1>2. FirstForum \in Forums /\ p \in Readers[FirstForum]
  BY <1>1, ForumAssumption DEF FirstForum, Forums
<1>3. CASE after = {}  BY <1>2, <1>3 DEF next_forum
<1>4. CASE after # {}
  <2>1. after \in SUBSET Nat  BY <1>1
  <2>2. \E m \in after : \A k \in after : m <= k
    <3> HIDE DEF after
    <3> QED  BY <1>4, <2>1, LeastNat
  <2>3. next_forum(p) = Min(after)  BY <1>4 DEF next_forum
  <2>4. Min(after) \in after
    <3> HIDE DEF after
    <3> QED  BY <2>2 DEF Min
  <2> QED  BY <1>1, <2>3, <2>4 DEF Forums
<1> QED  BY <1>3, <1>4

\* note_read, note_catchup, note_reset, do_forum and do_subscribe.
LEMMA ReadingInv ==
  ASSUME IInv, NEW p \in Players,
         \/ note_read(p) \/ note_catchup(p) \/ note_reset(p) \/ do_forum(p) \/ do_subscribe(p)
  PROVE  IInv'
<1>1. UNCHANGED <<corrupt, clock, lists, handler, inProgress, history>>
  BY DEF note_read, note_catchup, note_reset, do_forum, do_subscribe
<1>2. /\ forum' \in [Players -> Forums]
      /\ \A q \in Players : q \in Readers[forum'[q]]
  <2>1. forum \in [Players -> Forums] /\ \A q \in Players : q \in Readers[forum[q]]
    BY DEF IInv, Types, CurrentForumIsReadable
  <2>2. CASE note_read(p)  BY <2>1, <2>2, NextForumFacts DEF note_read
  <2>3. CASE do_forum(p)  BY <2>1, <2>3 DEF do_forum
  <2>4. CASE forum' = forum  BY <2>1, <2>4
  <2> QED  BY <2>2, <2>3, <2>4 DEF note_catchup, note_reset, do_subscribe
<1>3. lastNote' \in [Players -> [Forums -> Stamps]]
  <2>1. lastNote \in [Players -> [Forums -> Stamps]] /\ forum[p] \in Forums  BY DEF IInv, Types
  <2>2. CASE note_catchup(p)
    <3> DEFINE n == Last(notes[forum[p]])
               s == notes[forum[p]]
    <3>1. s \in Seq(Notes) /\ s # <<>>  BY <2>1, <2>2 DEF IInv, Types, note_catchup
    <3>2. n \in ToSet(s)
      <4> HIDE DEF s
      <4>1. s[Len(s)] \in ToSet(s)  BY <3>1 DEF ToSet
      <4> QED  BY <4>1 DEF Last, s
    <3>3. n \in Notes /\ note[n] \in Note
      <4>1. n \in Listed /\ Types  BY <2>1, <3>2, ListedFacts DEF IInv
      <4> QED  BY <4>1, ListedFacts DEF IInv, Types
    <3>4. note[n].date \in Stamps  BY <3>3 DEF Note
    <3> HIDE DEF n
    <3> QED  BY <2>1, <2>2, <3>4 DEF note_catchup, n
  <2>3. CASE note_reset(p)
    <3>1. 0 \in Stamps  BY ForumAssumption DEF Stamps
    <3> QED  BY <2>1, <2>3, <3>1 DEF note_reset
  <2>4. CASE lastNote' = lastNote  BY <2>1, <2>4
  <2> QED  BY <2>2, <2>3, <2>4 DEF note_read, do_forum, do_subscribe
<1>4. unsubscribed' \in [Players -> SUBSET Forums]
  <2>1. unsubscribed \in [Players -> SUBSET Forums]  BY DEF IInv, Types
  <2>2. CASE do_subscribe(p)  BY <2>1, <2>2 DEF do_subscribe
  <2> QED  BY <2>1, <2>2 DEF note_read, note_catchup, note_reset, do_forum
<1>5. Types'  BY <1>1, <1>2, <1>3, <1>4 DEF IInv, Types, clock, lists, history
<1>6. Drafting' /\ CurrentForumIsReadable'
  BY <1>1, <1>2 DEF IInv, Drafting, CurrentForumIsReadable, history
<1> QED  BY <1>1, <1>5, <1>6, QuietInv DEF clock, history

-----------------------------------------------------------------------------
(* Steps that write to a note.                                             *)

\* Who writes to the note in progress changes neither whose it is nor its row.
LEMMA WritingInv ==
  ASSUME IInv, NEW p \in Players, HasDraft(p), NEW x \in Note,
         x.from = p, x.row = Draft(p).row,
         note' = [note EXCEPT ![inProgress[p]] = x],
         (x.date = Draft(p).date /\ reopened' = reopened) \/ Reopened(p),
         UNCHANGED <<corrupt, clock, notes, disk, account, posted>>,
         NEW h \in Handlers, handler' = handler \/ Becomes(p, h),
         h \in {"to", "subject", "expire"} => handler[p] \in {"to", "subject", "expire"}
  PROVE  IInv'
<1> DEFINE d == inProgress[p]
<1>1. /\ d \in Notes /\ note[d] # None /\ note[d].from = p /\ note[d].row = x.row
      /\ note \in [Notes -> {None} \cup Note] /\ x # None
  BY ForumAssumption DEF IInv, Types, HasDraft, Draft
<1>2. note' = [note EXCEPT ![d] = x]  OBVIOUS
<1>3. Listed' = Listed /\ Listed \subseteq Notes
  BY ListedFacts DEF Listed, IInv
<1>4. reopened' \subseteq Notes /\ reopened \subseteq reopened'
      /\ (d \in Listed => d \in reopened' \/ x.date = note[d].date)
  BY <1>1 DEF IInv, Types, Reopened, Draft
<1> HIDE DEF d
<1>5. \A n \in Listed : Kept(n)
  BY <1>1, <1>2, <1>3, <1>4 DEF Kept, IInv
<1>6. Forumwide'  BY <1>4, <1>5, ForumsKept DEF clock
<1>7. Types'
  <2>1. handler' \in [Players -> Handlers]  BY DEF IInv, Types, Becomes
  <2>2. note' \in [Notes -> {None} \cup Note]  BY <1>1, <1>2
  <2> QED  BY <1>4, <2>1, <2>2 DEF IInv, Types, clock, account
<1>8. Drafting'  BY DraftingKept DEF account
<1>9. CurrentForumIsReadable'  BY DEF IInv, CurrentForumIsReadable, account
<1>10. Unposted'
  <2>1. inProgress' = inProgress /\ posted' = posted  BY DEF account
  <2>2. ASSUME NEW q \in Players \ {p}, q \notin posted'
        PROVE  inProgress'[q] = None \/ (HasDraft(q)' /\ inProgress'[q] \notin Listed)
    BY <1>1, <1>2, <1>3, <2>1, <2>2, OthersKeepTheirs
  <2>3. ASSUME p \notin posted'
        PROVE  HasDraft(p)' /\ inProgress'[p] \notin Listed
    <3>1. d \notin Listed  BY <1>1, <2>1, <2>3, ForumAssumption DEF IInv, Unposted, d
    <3>2. note'[d] = x  BY <1>1, <1>2
    <3> QED  BY <1>1, <2>1, <3>1, <3>2, ForumAssumption DEF HasDraft, d
  <2> QED  BY <1>3, <2>1, <2>2, <2>3 DEF Unposted
<1> QED  BY <1>6, <1>7, <1>8, <1>9, <1>10 DEF IInv, Forumwide

\* The Note a player has in progress.
LEMMA DraftIsNote ==
  ASSUME IInv, NEW p \in Players, HasDraft(p)
  PROVE  inProgress[p] \in Notes /\ Draft(p) \in Note /\ Draft(p).from = p
BY ForumAssumption DEF IInv, Types, HasDraft, Draft

\* Where the lines before the text are asked there is a note to write to.
LEMMA DraftingHasDraft ==
  ASSUME IInv, NEW p \in Players, handler[p] \in {"to", "subject", "expire"}
  PROVE  HasDraft(p) /\ p \notin posted
BY DEF IInv, Drafting, Unposted

LEMMA NoteToInv == ASSUME IInv, NEW p \in Players, connection_note_to(p) PROVE IInv'
<1>1. PICK who \in Addressees : note' = [note EXCEPT ![inProgress[p]].to = who]
  BY DEF connection_note_to
<1>2. handler[p] = "to"  BY DEF connection_note_to, Line
<1>3. HasDraft(p)  BY <1>2, DraftingHasDraft
<1> DEFINE x == [Draft(p) EXCEPT !.to = who]
<1>4. inProgress[p] \in Notes /\ Draft(p) \in Note /\ Draft(p).from = p  BY <1>3, DraftIsNote
<1>5. who \subseteq Players  BY ForumAssumption
<1>6. x \in Note /\ x.from = p /\ x.row = Draft(p).row /\ x.date = Draft(p).date
  BY <1>4, <1>5 DEF Note
<1>7. note' = [note EXCEPT ![inProgress[p]] = x]  BY <1>1 DEF Draft
<1> HIDE DEF x
<1>8. /\ UNCHANGED <<corrupt, clock, notes, disk, account, posted>> /\ reopened' = reopened
      /\ Becomes(p, "subject")
  BY DEF connection_note_to, history
<1>9. "subject" \in Handlers  BY DEF Handlers
<1> QED  BY <1>2, <1>3, <1>6, <1>7, <1>8, <1>9, WritingInv

LEMMA NoteTextInv == ASSUME IInv, NEW p \in Players, connection_note_text(p), ~ Corrupts PROVE IInv'
<1>1. CASE Becomes(p, "finish") /\ UNCHANGED <<corrupt, clock, lists, account, history>>
  <2>1. "finish" \in Handlers  BY DEF Handlers
  <2> QED  BY <1>1, <2>1, HandlerInv
<1>2. CASE /\ HasDraft(p)
           /\ \E some \in BOOLEAN : note' = [note EXCEPT ![inProgress[p]].text = some]
           /\ UNCHANGED <<corrupt, clock, notes, disk, handler, account, history>>
  <2>1. PICK some \in BOOLEAN : note' = [note EXCEPT ![inProgress[p]].text = some]  BY <1>2
  <2> DEFINE x == [Draft(p) EXCEPT !.text = some]
  <2>2. inProgress[p] \in Notes /\ Draft(p) \in Note /\ Draft(p).from = p  BY <1>2, DraftIsNote
  <2>3. x \in Note /\ x.from = p /\ x.row = Draft(p).row /\ x.date = Draft(p).date
    BY <2>2 DEF Note
  <2>4. note' = [note EXCEPT ![inProgress[p]] = x]  BY <2>1 DEF Draft
  <2> HIDE DEF x
  <2>5. "text" \in Handlers  BY DEF Handlers
  <2>6. UNCHANGED <<corrupt, clock, notes, disk, account, posted>> /\ reopened' = reopened
        /\ handler' = handler
    BY <1>2 DEF history
  <2> QED  BY <1>2, <2>3, <2>4, <2>5, <2>6, WritingInv
<1> QED  BY <1>1, <1>2 DEF connection_note_text

\* note_write on a note that has text.
LEMMA ContinueWritingInv ==
  ASSUME IInv, NEW p \in Players, HasDraft(p),
         note' = [note EXCEPT ![inProgress[p]].date = current_time],
         Reopened(p), Becomes(p, "text"), UNCHANGED <<corrupt, clock, notes, disk, account, posted>>
  PROVE  IInv'
<1> DEFINE x == [Draft(p) EXCEPT !.date = current_time]
<1>1. inProgress[p] \in Notes /\ Draft(p) \in Note /\ Draft(p).from = p  BY DraftIsNote
<1>2. current_time \in Stamps
  BY ForumAssumption DEF IInv, Types, Stamps, StartTime
<1>3. x \in Note /\ x.from = p /\ x.row = Draft(p).row  BY <1>1, <1>2 DEF Note
<1>4. note' = [note EXCEPT ![inProgress[p]] = x]  BY DEF Draft
<1> HIDE DEF x
<1>5. "text" \in Handlers  BY DEF Handlers
<1> QED  BY <1>3, <1>4, <1>5, WritingInv

LEMMA SaveInv == ASSUME IInv, NEW p \in Players, save_forums(p) PROVE IInv'
<1>1. PICK r \in Notes \cup {None} :
        note' = [n \in Notes |-> IF n \in Listed /\ note[n].row = None
                                 THEN [note[n] EXCEPT !.row = r] ELSE note[n]]
  BY DEF save_forums
<1>2. UNCHANGED <<corrupt, clock, notes, disk, handler, account, posted, reopened>>
  BY DEF save_forums, history
<1>3. Listed \subseteq Notes /\ \A n \in Listed : note[n] \in Note /\ note[n] # None
  BY ListedFacts DEF IInv, Types
<1>4. \A n \in Notes \ Listed : note'[n] = note[n]  BY <1>1
<1>5. ASSUME NEW n \in Listed
      PROVE  /\ note'[n] \in Note /\ note'[n] # None /\ note'[n].from = note[n].from
             /\ note'[n].date = note[n].date
             /\ note[n].row = None \/ note'[n].row = note[n].row
  <2>1. CASE note[n].row = None
    <3> DEFINE x == [note[n] EXCEPT !.row = r]
    <3>1. note'[n] = x  BY <1>1, <1>3, <2>1
    <3>2. x \in Note /\ x.from = note[n].from /\ x.date = note[n].date  BY <1>3 DEF Note
    <3> HIDE DEF x
    <3> QED  BY <2>1, <3>1, <3>2, ForumAssumption
  <2>2. CASE note[n].row # None
    <3>1. note'[n] = note[n]  BY <1>1, <1>3, <2>2
    <3> QED  BY <1>3, <3>1
  <2> QED  BY <2>1, <2>2
<1>6. \A n \in Listed : Kept(n)  BY <1>5 DEF Kept
<1>7. Forumwide'  BY <1>2, <1>6, ForumsKept DEF clock
<1>8. Types'
  <2>1. note \in [Notes -> {None} \cup Note]  BY DEF IInv, Types
  <2>2. \A n \in Notes : note'[n] \in {None} \cup Note  BY <1>4, <1>5, <2>1
  <2>3. note' = [n \in Notes |-> note'[n]]  BY <1>1
  <2>4. note' \in [Notes -> {None} \cup Note]  BY <2>2, <2>3
  <2> QED  BY <1>2, <2>4 DEF IInv, Types, clock, account
<1>9. Drafting' /\ CurrentForumIsReadable'
  BY <1>2 DEF IInv, Drafting, CurrentForumIsReadable, account
<1>10. Unposted'
  <2>1. Listed' = Listed  BY <1>2 DEF Listed
  <2>2. inProgress' = inProgress /\ posted' = posted  BY <1>2 DEF account
  <2>3. \A q \in Players : inProgress[q] # None => inProgress[q] \in Notes  BY DEF IInv, Types
  <2> QED  BY <1>4, <2>1, <2>2, <2>3 DEF IInv, Unposted, HasDraft
<1> QED  BY <1>7, <1>8, <1>9, <1>10 DEF IInv, Forumwide

-----------------------------------------------------------------------------
(* Steps that begin, lose and post a note.                                 *)

LEMMA NewDraftInv ==
  ASSUME IInv, NEW p \in Players, inProgress[p] = None \/ Discards(p),
         inProgress[p] \notin Listed, NEW n \in Notes, NewDraft(p, n), Becomes(p, "to"),
         UNCHANGED <<corrupt, clock, notes, disk, forum, lastNote, unsubscribed>>
  PROVE  IInv'
<1> DEFINE x == [from |-> p, to |-> {}, date |-> current_time, text |-> FALSE, row |-> None]
           d == inProgress[p]
<1>1. /\ note[n] = None \/ n = d
      /\ note' = [m \in Notes |-> IF m = n THEN x ELSE IF m = d THEN None ELSE note[m]]
      /\ inProgress' = [inProgress EXCEPT ![p] = n]
      /\ posted' = posted \ {p} /\ reopened' = reopened
  BY DEF NewDraft
<1>2. x \in Note /\ x # None /\ x.from = p
  <2>1. current_time \in Stamps  BY ForumAssumption DEF IInv, Types, Stamps, StartTime
  <2>2. x \in Note  BY <2>1 DEF Note
  <2> QED  BY <2>2, ForumAssumption
<1>3. d = None \/ (note[d] # None /\ note[d].from = p)  BY DEF Discards, HasDraft
<1> HIDE DEF x, d
<1>4. Listed' = Listed /\ Listed \subseteq Notes
  BY ListedFacts DEF Listed, IInv
<1>5. n \notin Listed /\ d \notin Listed  BY <1>1 DEF IInv, d
<1>6. \A m \in Listed : note'[m] = note[m]  BY <1>1, <1>4, <1>5
<1>7. Forumwide'
  <2>1. \A m \in Listed : Kept(m)  BY <1>6 DEF Kept, IInv
  <2> QED  BY <1>1, <2>1, ForumsKept DEF clock
<1>8. Types'
  <2>1. note' \in [Notes -> {None} \cup Note]
    <3>1. note \in [Notes -> {None} \cup Note]  BY DEF IInv, Types
    <3> QED  BY <1>1, <1>2, <3>1
  <2>2. handler' \in [Players -> Handlers]  BY DEF IInv, Types, Becomes, Handlers
  <2>3. inProgress' \in [Players -> Notes \cup {None}] /\ posted' \subseteq Players
    BY <1>1 DEF IInv, Types
  <2> QED  BY <1>1, <2>1, <2>2, <2>3 DEF IInv, Types, clock
<1>9. inProgress \in [Players -> Notes \cup {None}] /\ handler \in [Players -> Handlers]
      /\ posted \subseteq Players
  BY DEF IInv, Types
<1>10. Drafting'
  <2> SUFFICES ASSUME NEW q \in Players, handler'[q] \in {"to", "subject", "expire"}
               PROVE  q \notin posted' /\ inProgress'[q] # None
    BY DEF Drafting
  <2>1. CASE q = p  BY <1>1, <1>9, <2>1, ForumAssumption
  <2>2. CASE q # p
    <3>1. handler[q] \in {"to", "subject", "expire"}  BY <1>9, <2>2 DEF Becomes
    <3>2. q \notin posted /\ inProgress[q] # None  BY <3>1 DEF IInv, Drafting
    <3> QED  BY <1>1, <1>9, <2>2, <3>2
  <2> QED  BY <2>1, <2>2
<1>11. CurrentForumIsReadable'  BY DEF IInv, CurrentForumIsReadable
<1>12. Unposted'
  <2>1. ASSUME NEW q \in Players \ {p}, q \notin posted'
        PROVE  inProgress'[q] = None \/ (HasDraft(q)' /\ inProgress'[q] \notin Listed)
    <3>1. \A m \in Notes \ Listed : note[m] # None /\ note[m].from # p =>
             note'[m] # None /\ note'[m].from = note[m].from
      BY <1>1, <1>3, ForumAssumption
    <3>2. \A r \in Players \ {p} : inProgress'[r] = inProgress[r] /\ (r \in posted' <=> r \in posted)
      BY <1>1, <1>9
    <3> QED  BY <1>4, <2>1, <3>1, <3>2, OthersKeepTheirs
  <2>2. HasDraft(p)' /\ inProgress'[p] \notin Listed
    <3>1. inProgress'[p] = n /\ note'[n] = x  BY <1>1, <1>9
    <3>2. n # None  BY ForumAssumption
    <3> QED  BY <1>2, <1>5, <3>1, <3>2 DEF HasDraft
  <2> QED  BY <1>4, <2>1, <2>2 DEF Unposted
<1> QED  BY <1>7, <1>8, <1>10, <1>11, <1>12 DEF IInv, Forumwide

LEMMA ReloginInv == ASSUME IInv, NEW p \in Players, Relogin(p) PROVE IInv'
<1> DEFINE d == inProgress[p]
<1>1. /\ note' = [n \in Notes |-> IF n = d /\ HasDraft(p) /\ n \notin Listed THEN None ELSE note[n]]
      /\ Becomes(p, "command")
      /\ inProgress' = [inProgress EXCEPT ![p] = None]
      /\ forum' = [forum EXCEPT ![p] = FirstForum]
      /\ posted' = posted \ {p} /\ reopened' = reopened
      /\ UNCHANGED <<corrupt, clock, notes, disk>>
  BY DEF Relogin
<1> HIDE DEF d
<1>2. Listed' = Listed /\ Listed \subseteq Notes
  BY <1>1, ListedFacts DEF Listed, IInv
<1>3. \A m \in Listed : note'[m] = note[m]  BY <1>1, <1>2
<1>4. Forumwide'
  <2>1. \A m \in Listed : Kept(m)  BY <1>3 DEF Kept, IInv
  <2> QED  BY <1>1, <2>1, ForumsKept DEF clock
<1>5. /\ inProgress \in [Players -> Notes \cup {None}] /\ handler \in [Players -> Handlers]
      /\ posted \subseteq Players /\ forum \in [Players -> Forums]
      /\ note \in [Notes -> {None} \cup Note]
      /\ lastNote \in [Players -> [Forums -> Stamps]]
      /\ unsubscribed \in [Players -> SUBSET Forums]
  BY DEF IInv, Types
<1>6. FirstForum \in Forums /\ Readers[FirstForum] = Players
  BY ForumAssumption DEF FirstForum, Forums
<1>7. lastNote' \in [Players -> [Forums -> Stamps]]
  <2>1. PICK t \in Leftovers : lastNote' = [lastNote EXCEPT ![p] = [f \in Forums |-> t]]
    BY DEF Relogin
  <2>2. t \in Stamps  BY ForumAssumption DEF Stamps
  <2> QED  BY <1>5, <2>1, <2>2
<1>8. unsubscribed' \in [Players -> SUBSET Forums]
  <2>1. PICK U \in SUBSET {f \in Forums \ NoUnsub : p \in Readers[f]} :
          unsubscribed' = [unsubscribed EXCEPT ![p] = U]
    BY DEF Relogin
  <2>2. U \in SUBSET Forums  OBVIOUS
  <2> QED  BY <1>5, <2>1, <2>2
<1>9. Types'
  <2>1. note' \in [Notes -> {None} \cup Note]  BY <1>1, <1>5
  <2>2. handler' \in [Players -> Handlers]  BY <1>1, <1>5 DEF Becomes, Handlers
  <2>3. /\ inProgress' \in [Players -> Notes \cup {None}] /\ posted' \subseteq Players
        /\ forum' \in [Players -> Forums]
    BY <1>1, <1>5, <1>6
  <2> QED  BY <1>1, <1>7, <1>8, <2>1, <2>2, <2>3 DEF IInv, Types, clock
<1>10. Drafting'
  <2> SUFFICES ASSUME NEW q \in Players, handler'[q] \in {"to", "subject", "expire"}
               PROVE  q \notin posted' /\ inProgress'[q] # None
    BY DEF Drafting
  <2>1. q # p /\ handler[q] = handler'[q]  BY <1>1, <1>5 DEF Becomes
  <2>2. q \notin posted /\ inProgress[q] # None  BY <2>1 DEF IInv, Drafting
  <2> QED  BY <1>1, <1>5, <2>1, <2>2
<1>11. CurrentForumIsReadable'
  BY <1>1, <1>5, <1>6 DEF IInv, CurrentForumIsReadable
<1>12. Unposted'
  <2>1. ASSUME NEW q \in Players \ {p}, q \notin posted'
        PROVE  inProgress'[q] = None \/ (HasDraft(q)' /\ inProgress'[q] \notin Listed)
    <3>1. \A m \in Notes \ Listed : note[m] # None /\ note[m].from # p =>
             note'[m] # None /\ note'[m].from = note[m].from
      BY <1>1 DEF HasDraft, d
    <3>2. \A r \in Players \ {p} : inProgress'[r] = inProgress[r] /\ (r \in posted' <=> r \in posted)
      BY <1>1, <1>5
    <3> QED  BY <1>2, <2>1, <3>1, <3>2, OthersKeepTheirs
  <2>2. inProgress'[p] = None  BY <1>1, <1>5
  <2> QED  BY <1>2, <2>1, <2>2 DEF Unposted
<1> QED  BY <1>4, <1>9, <1>10, <1>11, <1>12 DEF IInv, Forumwide

\* The stamp of a note that is posted: after the start, and after every other.
LEMMA StampFacts ==
  ASSUME IInv
  PROVE  /\ NextStamp \in Nat /\ NextStamp >= StartTime /\ NextStamp > last_note_stamp
         /\ NextStamp <= MaxTime + posts + 1
         /\ \A n \in Listed \ reopened : note[n].date \in Nat /\ note[n].date < NextStamp
<1>1. /\ current_time \in Nat /\ current_time >= StartTime /\ current_time <= MaxTime
      /\ posts \in Nat /\ last_note_stamp \in Nat /\ last_note_stamp <= MaxTime + posts
      /\ MaxTime \in Nat /\ MaxPosts \in Nat
  BY ForumAssumption DEF IInv, Types, StartTime
<1>2. /\ NextStamp \in Nat /\ NextStamp >= StartTime /\ NextStamp > last_note_stamp
      /\ NextStamp <= MaxTime + posts + 1
  BY <1>1 DEF NextStamp, StartTime
<1>3. ASSUME NEW n \in Listed \ reopened PROVE note[n].date \in Nat /\ note[n].date < NextStamp
  <2>1. note[n] \in Note  BY ListedFacts DEF IInv, Types
  <2>2. note[n].date \in Nat  BY <1>1, <2>1 DEF Note, Stamps
  <2>3. note[n].date < StartTime \/ note[n].date <= last_note_stamp  BY DEF IInv, StampIsPast
  <2> QED  BY <1>1, <1>2, <2>2, <2>3 DEF StartTime
<1> QED  BY <1>2, <1>3

LEMMA PostInv ==
  ASSUME IInv, NEW p \in Players, HasDraft(p), inProgress[p] \notin Listed,
         finish_note(forum[p], inProgress[p]), Becomes(p, "command"),
         posted' = posted \cup {p}, UNCHANGED <<corrupt, account, reopened>>
  PROVE  IInv'
<1> DEFINE n == inProgress[p]
           f == forum[p]
           x == [note[n] EXCEPT !.date = NextStamp]
<1>1. /\ posts < MaxPosts /\ posts' = posts + 1 /\ last_note_stamp' = NextStamp
      /\ note' = [note EXCEPT ![n] = x] /\ notes' = [notes EXCEPT ![f] = Append(@, n)]
      /\ UNCHANGED <<current_time, disk>>
  BY DEF finish_note
<1>2. /\ n \in Notes /\ note[n] \in Note /\ note[n].from = p /\ n \notin Listed
      /\ f \in Forums
  BY DraftIsNote DEF Draft, IInv, Types
<1>3. NextStamp \in Stamps
  <2>1. NextStamp \in Nat /\ NextStamp <= MaxTime + posts + 1  BY StampFacts
  <2>2. posts \in Nat /\ posts + 1 <= MaxPosts /\ MaxPosts \in Nat /\ MaxTime \in Nat
    BY <1>1, ForumAssumption DEF IInv, Types
  <2> QED  BY <2>1, <2>2 DEF Stamps
<1>4. x \in Note /\ x # None /\ x.date = NextStamp /\ x.from = p
  <2>1. x \in Note /\ x.date = NextStamp /\ x.from = p  BY <1>2, <1>3 DEF Note
  <2> QED  BY <2>1, ForumAssumption
<1> HIDE DEF x, n, f
<1>5. /\ notes \in [Forums -> Seq(Notes)] /\ note \in [Notes -> {None} \cup Note] /\ Types
      /\ \A g \in Forums : g # f => notes'[g] = notes[g]
      /\ notes'[f] = Append(notes[f], n)
  BY <1>1, <1>2 DEF IInv, Types
<1>6. /\ notes'[f] \in Seq(Notes) /\ ToSet(notes'[f]) = ToSet(notes[f]) \cup {n}
      /\ DOMAIN notes'[f] = DOMAIN notes[f] \cup {Len(notes[f]) + 1}
      /\ notes'[f][Len(notes[f]) + 1] = n
      /\ \A i \in DOMAIN notes[f] : notes'[f][i] = notes[f][i]
      /\ DOMAIN notes[f] = 1 .. Len(notes[f]) /\ Len(notes[f]) \in Nat
  <2> DEFINE s == notes[f]
  <2>1. s \in Seq(Notes)  BY <1>2, <1>5
  <2> HIDE DEF s
  <2>2. /\ Append(s, n) \in Seq(Notes) /\ ToSet(Append(s, n)) = ToSet(s) \cup {n}
        /\ DOMAIN Append(s, n) = DOMAIN s \cup {Len(s) + 1}
        /\ Append(s, n)[Len(s) + 1] = n
        /\ \A i \in DOMAIN s : Append(s, n)[i] = s[i]
    BY <1>2, <2>1, AppendedFacts
  <2>3. DOMAIN s = 1 .. Len(s) /\ Len(s) \in Nat  BY <2>1
  <2> QED  BY <1>5, <2>2, <2>3 DEF s
<1>7. Listed' = Listed \cup {n}
  <2>1. \A g \in Forums : ToSet(notes[g]) \subseteq ToSet(notes'[g])  BY <1>5, <1>6
  <2>2. \A g \in Forums : ToSet(notes'[g]) \subseteq ToSet(notes[g]) \cup {n}  BY <1>5, <1>6
  <2>3. \A m \in Listed' : m \in Listed \cup {n}  BY <2>2 DEF Listed
  <2>4. \A m \in Listed : m \in Listed'  BY <2>1 DEF Listed
  <2>5. n \in Listed'
    <3>1. n \in ToSet(notes'[f])  BY <1>6
    <3> QED  BY <1>2, <3>1 DEF Listed
  <2> QED  BY <2>3, <2>4, <2>5
<1>8. note'[n] = x /\ \A m \in Notes : m # n => note'[m] = note[m]  BY <1>1, <1>2, <1>5
<1>9. \A m \in Listed : m \in Notes /\ m # n /\ note'[m] = note[m]  BY <1>2, <1>5, <1>8, ListedFacts
<1>10. OnceEach(notes)'
  <2>1. \A g \in Forums : \A i \in DOMAIN notes'[g] :
           \/ i \in DOMAIN notes[g] /\ notes'[g][i] = notes[g][i] /\ notes[g][i] # n
           \/ g = f /\ i = Len(notes[f]) + 1 /\ notes'[g][i] = n
    <3>1. \A g \in Forums : \A i \in DOMAIN notes[g] : notes[g][i] # n
      BY <1>2, <1>5, ListedFacts
    <3> QED  BY <1>5, <1>6, <3>1
  <2>2. OnceEach(notes)  BY DEF IInv
  <2> QED  BY <2>1, <2>2 DEF OnceEach
<1>11. OnceEach(disk)'  BY <1>1 DEF IInv, OnceEach
<1>12. \A m \in Listed' : note'[m] # None  BY <1>4, <1>7, <1>8, <1>9 DEF IInv
<1>13. RowsAreNotes'
  <2> SUFFICES ASSUME NEW g \in Forums, NEW m \in ToSet(disk[g])
               PROVE  m \in ToSet(notes'[g]) /\ note'[m].row = m
    BY <1>1 DEF RowsAreNotes
  <2>1. m \in ToSet(notes[g]) /\ note[m].row = m  BY DEF IInv, RowsAreNotes
  <2>2. m \in Listed /\ m \in ToSet(notes'[g])  BY <1>5, <1>6, <2>1, ListedFacts
  <2> QED  BY <1>9, <2>1, <2>2
<1>14. StampIsPast'
  <2>1. NextStamp <= NextStamp  BY StampFacts
  <2> SUFFICES ASSUME NEW m \in Listed', m \notin reopened
               PROVE  note'[m].date < StartTime \/ note'[m].date <= NextStamp
    BY <1>1 DEF StampIsPast
  <2>2. CASE m = n  BY <1>4, <1>8, <2>1, <2>2
  <2>3. CASE m \in Listed
    <3>1. note[m].date \in Nat /\ NextStamp \in Nat /\ note[m].date < NextStamp
      BY <2>3, StampFacts
    <3> QED  BY <1>9, <2>3, <3>1
  <2> QED  BY <1>7, <2>2, <2>3
<1>15. ASSUME NEW g \in Forums PROVE Ordered(notes[g], reopened)'
  <2> SUFFICES ASSUME NEW i \in DOMAIN notes'[g], NEW j \in DOMAIN notes'[g], i < j,
                      notes'[g][i] \notin reopened, notes'[g][j] \notin reopened
               PROVE  note'[notes'[g][i]].date <= note'[notes'[g][j]].date
    BY DEF Ordered
  <2>1. CASE i \in DOMAIN notes[g] /\ j \in DOMAIN notes[g]
    <3>1. notes'[g][i] = notes[g][i] /\ notes'[g][j] = notes[g][j]  BY <1>5, <1>6, <2>1
    <3>2. notes[g][i] \in Listed /\ notes[g][j] \in Listed  BY <1>5, <2>1, ListedFacts
    <3>3. note[notes[g][i]].date <= note[notes[g][j]].date
      <4>1. Ordered(notes[g], reopened)  BY DEF IInv
      <4> QED  BY <2>1, <3>1, <4>1 DEF Ordered
    <3> QED  BY <1>9, <3>1, <3>2, <3>3
  <2>2. CASE ~ (i \in DOMAIN notes[g] /\ j \in DOMAIN notes[g])
    <3>1. g = f  BY <1>5, <2>2
    <3>2. i \in DOMAIN notes[f] /\ j = Len(notes[f]) + 1  BY <1>6, <2>2, <3>1
    <3>3. notes'[g][i] = notes[f][i] /\ notes'[g][j] = n  BY <1>6, <3>1, <3>2
    <3>4. notes[f][i] \in Listed \ reopened  BY <1>2, <1>5, <3>2, <3>3, ListedFacts
    <3>5. note[notes[f][i]].date \in Nat /\ NextStamp \in Nat /\ note[notes[f][i]].date < NextStamp
      BY <3>4, StampFacts
    <3> QED  BY <1>4, <1>8, <1>9, <3>3, <3>4, <3>5
  <2> QED  BY <2>1, <2>2
<1>16. Types'
  <2>1. note' \in [Notes -> {None} \cup Note] /\ notes' \in [Forums -> Seq(Notes)]
    <3>1. Append(notes[f], n) \in Seq(Notes)  BY <1>5, <1>6
    <3> QED  BY <1>1, <1>2, <1>4, <1>5, <3>1
  <2>2. posts' \in 0 .. MaxPosts /\ last_note_stamp' \in 0 .. MaxTime + posts'
    <3>1. NextStamp \in Nat /\ NextStamp <= MaxTime + posts + 1  BY StampFacts
    <3>2. posts \in Nat /\ MaxTime \in Nat /\ MaxPosts \in Nat  BY ForumAssumption DEF IInv, Types
    <3> QED  BY <1>1, <3>1, <3>2
  <2>3. handler' \in [Players -> Handlers] /\ posted' \subseteq Players
    BY DEF IInv, Types, Becomes, Handlers
  <2> QED  BY <1>1, <2>1, <2>2, <2>3 DEF IInv, Types, account
<1>17. handler \in [Players -> Handlers]  BY DEF IInv, Types
<1>18. Drafting'
  <2> SUFFICES ASSUME NEW q \in Players, handler'[q] \in {"to", "subject", "expire"}
               PROVE  q \notin posted' /\ inProgress'[q] # None
    BY DEF Drafting
  <2>1. q # p /\ handler[q] = handler'[q]  BY <1>17 DEF Becomes
  <2>2. q \notin posted /\ inProgress[q] # None  BY <2>1 DEF IInv, Drafting
  <2> QED  BY <2>1, <2>2 DEF account
<1>19. CurrentForumIsReadable'  BY DEF IInv, CurrentForumIsReadable, account
<1>20. Unposted'
  <2>1. ASSUME NEW q \in Players \ {p}, q \notin posted'
        PROVE  inProgress'[q] = None \/ (HasDraft(q)' /\ inProgress'[q] \notin Listed')
    <3>1. \A m \in Notes \ Listed : note[m] # None /\ note[m].from # p =>
             note'[m] # None /\ note'[m].from = note[m].from
      BY <1>2, <1>8
    <3>2. \A r \in Players \ {p} : inProgress'[r] = inProgress[r] /\ (r \in posted' <=> r \in posted)
      BY DEF account
    <3>3. \A m \in Listed' \ Listed : note[m] # None /\ note[m].from = p
      BY <1>2, <1>7, ForumAssumption
    <3> QED  BY <2>1, <3>1, <3>2, <3>3, OthersKeepTheirs
  <2> QED  BY <2>1 DEF Unposted
<1> QED  BY <1>10, <1>11, <1>12, <1>13, <1>14, <1>15, <1>16, <1>18, <1>19, <1>20 DEF IInv

-----------------------------------------------------------------------------
(* Steps that remove notes, and the start of the server.                   *)

LEMMA OnOneForum ==
  ASSUME IInv, NEW f \in Forums, NEW g \in Forums, NEW m \in ToSet(notes[f]), m \in ToSet(notes[g])
  PROVE  f = g
<1>1. PICK i \in DOMAIN notes[f] : notes[f][i] = m  BY DEF ToSet
<1>2. PICK j \in DOMAIN notes[g] : notes[g][j] = m  BY DEF ToSet
<1> QED  BY <1>1, <1>2 DEF IInv, OnceEach

LEMMA DeletedInv ==
  ASSUME IInv, NEW f \in Forums, NEW S \in SUBSET ToSet(notes[f]), Deleted(f, S),
         UNCHANGED <<corrupt, clock, handler, account, posted>>
  PROVE  IInv'
<1> DEFINE rows == {note[n].row : n \in S}
<1>1. /\ notes' = [notes EXCEPT ![f] = Without(@, S)]
      /\ disk' = [g \in Forums |-> Without(disk[g], rows)]
      /\ note' = [n \in Notes |-> IF n \in S THEN None ELSE note[n]]
      /\ reopened' = reopened \ S
  BY DEF Deleted
<1>2. \A m \in S : note[m].row \in rows  OBVIOUS
<1> HIDE DEF rows
<1>3. /\ notes \in [Forums -> Seq(Notes)] /\ disk \in [Forums -> Seq(Notes)]
      /\ note \in [Notes -> {None} \cup Note] /\ Types
  BY DEF IInv, Types
<1>4. \A g \in Forums : notes'[g] = IF g = f THEN Without(notes[g], S) ELSE notes[g]
  BY <1>1, <1>3
<1>5. ASSUME NEW g \in Forums
      PROVE  /\ notes'[g] \in Seq(Notes) /\ disk'[g] \in Seq(Notes)
             /\ ToSet(disk'[g]) = ToSet(disk[g]) \ rows
             /\ ToSet(notes'[g]) = ToSet(notes[g]) \ S
  <2> DEFINE s == notes[g]
             d == disk[g]
  <2>1. s \in Seq(Notes) /\ d \in Seq(Notes)  BY <1>3
  <2>2. disk'[g] = Without(d, rows) /\ notes'[g] = IF g = f THEN Without(s, S) ELSE s
    BY <1>1, <1>4
  <2>3. g # f => ToSet(notes[g]) \cap S = {}  BY OnOneForum
  <2> HIDE DEF s, d
  <2>4. disk'[g] \in Seq(Notes) /\ ToSet(disk'[g]) = ToSet(d) \ rows  BY <2>1, <2>2, WithoutSet
  <2>5. CASE g = f
    <3>1. notes'[g] \in Seq(Notes) /\ ToSet(notes'[g]) = ToSet(s) \ S
      BY <2>1, <2>2, <2>5, WithoutSet
    <3> QED  BY <2>4, <3>1 DEF s, d
  <2>6. CASE g # f  BY <2>1, <2>2, <2>3, <2>4, <2>6 DEF s, d
  <2> QED  BY <2>5, <2>6
<1>6. notes' \in [Forums -> Seq(Notes)] /\ disk' \in [Forums -> Seq(Notes)]
  <2>1. DOMAIN notes' = Forums /\ notes' = [g \in Forums |-> notes'[g]]  BY <1>1, <1>3
  <2>2. disk' = [g \in Forums |-> disk'[g]]  BY <1>1
  <2> QED  BY <1>5, <2>1, <2>2
<1>7. Listed' \subseteq Listed \ S /\ Listed \subseteq Notes
  <2>1. \A m \in Listed' : m \in Listed \ S  BY <1>5 DEF Listed
  <2> QED  BY <1>3, <2>1, ListedFacts
<1>8. \A m \in Notes \ S : note'[m] = note[m]  BY <1>1
<1>9. OnceEach(notes)' /\ OnceEach(disk)'
  <2>1. Thinned(notes, notes')  BY <1>4 DEF Thinned
  <2>2. Thinned(disk, disk')  BY <1>1 DEF Thinned
  <2>3. OnceEach(notes) /\ OnceEach(disk)  BY DEF IInv
  <2>4. OnceEach(notes')  BY <1>3, <2>1, <2>3, ThinnedOnce
  <2>5. OnceEach(disk')  BY <1>3, <2>2, <2>3, ThinnedOnce
  <2> QED  BY <2>4, <2>5
<1>10. \A n \in Listed' : note'[n] # None  BY <1>7, <1>8 DEF IInv
<1>11. RowsAreNotes'
  <2> SUFFICES ASSUME NEW g \in Forums, NEW m \in ToSet(disk'[g])
               PROVE  m \in ToSet(notes'[g]) /\ note'[m].row = m
    BY DEF RowsAreNotes
  <2>1. m \in ToSet(disk[g]) /\ m \notin rows  BY <1>5
  <2>2. m \in ToSet(notes[g]) /\ note[m].row = m  BY <2>1 DEF IInv, RowsAreNotes
  <2>3. m \notin S /\ m \in Notes  BY <1>2, <1>3, <2>1, <2>2, ListedFacts
  <2> QED  BY <1>5, <1>8, <2>2, <2>3
<1>12. StampIsPast'
  <2> SUFFICES ASSUME NEW m \in Listed', m \notin reopened'
               PROVE  note'[m].date < StartTime \/ note'[m].date <= last_note_stamp'
    BY DEF StampIsPast
  <2>1. m \in Listed \ reopened /\ note'[m] = note[m]  BY <1>1, <1>7, <1>8
  <2> QED  BY <2>1 DEF IInv, StampIsPast, clock
<1>13. ASSUME NEW g \in Forums PROVE Ordered(notes[g], reopened)'
  <2> DEFINE s == notes[g]
             t == notes'[g]
  <2>1. s \in Seq(Notes) /\ t \in Seq(Notes) /\ ToSet(t) \cap S = {} /\ ToSet(t) \subseteq Notes
        /\ Ordered(s, reopened)
    <3>1. ToSet(notes[g]) \subseteq Notes  BY <1>3, ListedFacts
    <3> QED  BY <1>3, <1>5, <3>1 DEF IInv
  <2>2. t = IF g = f THEN Without(s, S) ELSE s  BY <1>4
  <2> HIDE DEF s, t
  <2>3. \E at \in [DOMAIN t -> DOMAIN s] :
          /\ \A n \in DOMAIN t : t[n] = s[at[n]]
          /\ \A m, n \in DOMAIN t : m < n => at[m] < at[n]
    <3>1. CASE g = f
      <4>1. t = Without(s, S)  BY <2>2, <3>1
      <4> QED  BY <2>1, <4>1, WithoutFacts
    <3>2. CASE g # f
      <4> DEFINE at == [n \in DOMAIN s |-> n]
      <4>1. t = s  BY <2>2, <3>2
      <4>2. at \in [DOMAIN t -> DOMAIN s] /\ \A n \in DOMAIN t : at[n] = n  BY <4>1
      <4> HIDE DEF at
      <4> QED  BY <4>1, <4>2
    <3> QED  BY <3>1, <3>2
  <2>4. PICK at \in [DOMAIN t -> DOMAIN s] :
          /\ \A n \in DOMAIN t : t[n] = s[at[n]]
          /\ \A m, n \in DOMAIN t : m < n => at[m] < at[n]
    BY <2>3
  <2>5. ASSUME NEW i \in DOMAIN t, NEW j \in DOMAIN t, i < j, t[i] \notin reopened', t[j] \notin reopened'
        PROVE  note'[t[i]].date <= note'[t[j]].date
    <3>1. /\ t[i] \in ToSet(t) /\ t[j] \in ToSet(t)  BY DEF ToSet
    <3>2. /\ t[i] \in Notes \ S /\ t[j] \in Notes \ S  BY <2>1, <3>1
    <3>3. /\ s[at[i]] \notin reopened /\ s[at[j]] \notin reopened /\ at[i] < at[j]
          /\ at[i] \in DOMAIN s /\ at[j] \in DOMAIN s
      BY <1>1, <2>4, <2>5, <3>2
    <3>4. note[s[at[i]]].date <= note[s[at[j]]].date  BY <2>1, <3>3 DEF Ordered
    <3>5. note'[t[i]] = note[t[i]] /\ note'[t[j]] = note[t[j]]  BY <1>8, <3>2
    <3> QED  BY <2>4, <3>4, <3>5
  <2> QED  BY <2>5 DEF Ordered, s, t
<1>14. Types'
  <2>1. note' \in [Notes -> {None} \cup Note]  BY <1>1, <1>3
  <2>2. reopened' \subseteq Notes  BY <1>1 DEF IInv, Types
  <2> QED  BY <1>6, <2>1, <2>2 DEF IInv, Types, clock, account
<1>15. Drafting' /\ CurrentForumIsReadable'
  BY DEF IInv, Drafting, CurrentForumIsReadable, account
<1>16. Unposted'
  <2> SUFFICES ASSUME NEW q \in Players, q \notin posted, inProgress[q] # None
               PROVE  HasDraft(q)' /\ inProgress[q] \notin Listed'
    BY DEF Unposted, account
  <2>1. HasDraft(q) /\ inProgress[q] \notin Listed /\ inProgress[q] \in Notes
    BY DEF IInv, Unposted, Types
  <2>2. inProgress[q] \notin S  BY <1>3, <2>1, ListedFacts
  <2>3. note'[inProgress[q]] = note[inProgress[q]] /\ inProgress' = inProgress
    BY <1>8, <2>1, <2>2 DEF account
  <2> QED  BY <1>7, <2>1, <2>3 DEF HasDraft
<1> QED  BY <1>9, <1>10, <1>11, <1>12, <1>13, <1>14, <1>15, <1>16 DEF IInv

LEMMA RemoveInv == ASSUME IInv, NEW p \in Players, note_remove(p) PROVE IInv'
<1> DEFINE here == ToSet(notes[forum[p]])
<1>1. PICK S \in SUBSET here : Deleted(forum[p], S)
  <2>1. CASE \E n \in here : Deleted(forum[p], {n})  BY <2>1
  <2>2. CASE Deleted(forum[p], {n \in here : note[n].from = p})  BY <2>2
  <2> QED  BY <2>1, <2>2 DEF note_remove
<1>2. UNCHANGED <<corrupt, clock, handler, account, posted>> /\ forum[p] \in Forums
  BY DEF note_remove, IInv, Types
<1> QED  BY <1>1, <1>2, DeletedInv

\* The state of a server that has just started.
Fresh ==
  /\ corrupt \in BOOLEAN /\ current_time \in StartTime .. MaxTime
  /\ last_note_stamp = 0 /\ posts = 0
  /\ disk \in [Forums -> Seq(Notes)] /\ OnceEach(disk)
  /\ notes = disk /\ note = Loaded(disk)
  /\ handler = [p \in Players |-> "command"]
  /\ inProgress = [p \in Players |-> None]
  /\ forum = [p \in Players |-> FirstForum]
  /\ lastNote = [p \in Players |-> [f \in Forums |-> 0]]
  /\ unsubscribed = [p \in Players |-> {}]
  /\ posted = {} /\ reopened = {}

LEMMA FreshInv == Fresh => IInv
<1> SUFFICES ASSUME Fresh PROVE IInv  OBVIOUS
<1> DEFINE x(n) == [from |-> None, to |-> Players, date |-> 1, text |-> TRUE, row |-> n]
<1>1. MaxTime \in Nat /\ MaxTime >= 2 /\ MaxPosts \in Nat /\ 1 \in Forums /\ Readers[1] = Players
  BY ForumAssumption DEF Forums
<1>2. \A n \in Notes : x(n) \in Note /\ x(n) # None /\ x(n).date = 1 /\ x(n).row = n
  <2>1. 1 \in Stamps  BY <1>1 DEF Stamps
  <2>2. \A n \in Notes : x(n) \in Note  BY <2>1 DEF Note
  <2> QED  BY <2>2, ForumAssumption
<1>3. note = [n \in Notes |-> IF \E f \in Forums : n \in ToSet(disk[f]) THEN x(n) ELSE None]
  BY DEF Fresh, Loaded
<1> HIDE DEF x
<1>4. Types
  <2>1. note \in [Notes -> {None} \cup Note]  BY <1>2, <1>3
  <2>2. lastNote \in [Players -> [Forums -> Stamps]]
    <3>1. 0 \in Stamps  BY <1>1 DEF Stamps
    <3> QED  BY <3>1 DEF Fresh
  <2>3. last_note_stamp \in 0 .. MaxTime + posts /\ posts \in 0 .. MaxPosts  BY <1>1 DEF Fresh
  <2> QED  BY <1>1, <2>1, <2>2, <2>3 DEF Types, Fresh, Handlers, FirstForum
<1>5. \A n \in Listed : note[n] = x(n) /\ n \in Notes
  <2>1. \A n \in Listed : \E f \in Forums : n \in ToSet(disk[f])  BY <1>4, ListedFacts DEF Fresh
  <2> QED  BY <1>3, <1>4, <2>1, ListedFacts
<1>6. OnceEach(notes) /\ OnceEach(disk)  BY DEF Fresh
<1>7. \A n \in Listed : note[n] # None  BY <1>2, <1>5
<1>8. Unposted /\ Drafting  BY DEF Unposted, Drafting, Fresh
<1>9. RowsAreNotes
  <2>1. \A f \in Forums : \A n \in ToSet(notes[f]) : n \in Listed  BY <1>4, ListedFacts
  <2> QED  BY <1>2, <1>5, <2>1 DEF RowsAreNotes, Fresh
<1>10. CurrentForumIsReadable  BY <1>1 DEF CurrentForumIsReadable, Fresh, FirstForum
<1>11. StampIsPast  BY <1>2, <1>5 DEF StampIsPast, StartTime
<1>12. ASSUME NEW f \in Forums PROVE Ordered(notes[f], reopened)
  <2>1. \A i \in DOMAIN notes[f] : note[notes[f][i]].date = 1
    <3>1. \A i \in DOMAIN notes[f] : notes[f][i] \in Listed  BY <1>4, ListedFacts
    <3> QED  BY <1>2, <1>5, <3>1
  <2> QED  BY <2>1 DEF Ordered
<1> QED  BY <1>4, <1>6, <1>7, <1>8, <1>9, <1>10, <1>11, <1>12 DEF IInv

LEMMA InitInv == Init => IInv
<1>1. Init => Fresh
  <2> SUFFICES ASSUME Init PROVE Fresh  OBVIOUS
  <2>1. current_time \in StartTime .. MaxTime  BY ForumAssumption DEF Init, StartTime
  <2>2. corrupt \in BOOLEAN  BY Zenon DEF Init
  <2> QED  BY <2>1, <2>2, ForumAssumption DEF Init, Fresh
<1> QED  BY <1>1, FreshInv

LEMMA BootedInv ==
  ASSUME IInv, Booted, UNCHANGED <<current_time, disk>>, corrupt' \in BOOLEAN
  PROVE  IInv'
<1>1. Fresh'
  <2>1. OnceEach(disk')  BY DEF IInv
  <2> QED  BY <2>1 DEF Booted, Fresh, IInv, Types, Loaded
<1>2. Fresh' => IInv'  BY FreshInv, PTL
<1> QED  BY <1>1, <1>2

LEMMA CorruptsInv == ASSUME IInv, Corrupts PROVE IInv'
BY BootedInv DEF Corrupts

-----------------------------------------------------------------------------
(* Every step.                                                             *)

LEMMA NoteWriteInv == ASSUME IInv, NEW p \in Players, note_write(p) PROVE IInv'
<1>1. CASE Corrupts  BY <1>1, CorruptsInv
<1>2. CASE /\ inProgress[p] = None \/ Discards(p)
           /\ inProgress[p] \notin Listed
           /\ \E n \in Notes : NewDraft(p, n)
           /\ Becomes(p, "to")
           /\ UNCHANGED <<corrupt, clock, notes, disk, forum, lastNote, unsubscribed>>
  BY <1>2, NewDraftInv
<1>3. CASE /\ HasDraft(p)
           /\ note' = [note EXCEPT ![inProgress[p]].date = current_time]
           /\ Reopened(p)
           /\ Becomes(p, "text")
           /\ UNCHANGED <<corrupt, clock, notes, disk, account, posted>>
  BY <1>3, ContinueWritingInv
<1> QED  BY <1>1, <1>2, <1>3 DEF note_write

LEMMA NoteFinishInv == ASSUME IInv, NEW p \in Players, connection_note_finish(p) PROVE IInv'
<1>1. CASE Corrupts  BY <1>1, CorruptsInv
<1>2. CASE Post(p) /\ ~ Corrupts  BY <1>2, PostInv DEF Post
<1>3. CASE Becomes(p, "text") /\ UNCHANGED <<corrupt, clock, lists, account, history>>
  BY <1>3, HandlerInv DEF Handlers
<1>4. CASE Forget(p)  BY <1>4, HandlerInv DEF Forget, Handlers
<1> QED  BY <1>1, <1>2, <1>3, <1>4 DEF connection_note_finish, Continue

LEMMA NoteLinesInv ==
  ASSUME IInv, NEW p \in Players,
         \/ connection_note_to(p) \/ connection_note_subject(p)
         \/ connection_note_expire(p) \/ connection_note_text(p)
  PROVE  IInv'
<1>1. CASE connection_note_to(p)  BY <1>1, NoteToInv
<1>2. CASE connection_note_subject(p)
  <2> DEFINE h == IF p \in Immortals THEN "expire" ELSE "text"
  <2>1. h \in Handlers /\ handler[p] = "subject"  BY <1>2 DEF Handlers, connection_note_subject, Line
  <2>2. Becomes(p, h) /\ UNCHANGED <<corrupt, clock, lists, account, history>>
    BY <1>2 DEF connection_note_subject
  <2> HIDE DEF h
  <2> QED  BY <2>1, <2>2, HandlerInv
<1>3. CASE connection_note_expire(p)
  <2>1. "text" \in Handlers  BY DEF Handlers
  <2> QED  BY <1>3, <2>1, HandlerInv DEF connection_note_expire
<1>4. CASE connection_note_text(p)
  <2>1. CASE Corrupts  BY <2>1, CorruptsInv
  <2>2. CASE ~ Corrupts  BY <1>4, <2>2, NoteTextInv
  <2> QED  BY <2>1, <2>2
<1> QED  BY <1>1, <1>2, <1>3, <1>4

LEMMA NextInv == IInv /\ [Next]_vars => IInv'
<1> SUFFICES ASSUME IInv, [Next]_vars PROVE IInv'  OBVIOUS
<1>1. CASE Restart  BY <1>1, BootedInv DEF Restart
<1>2. CASE Tick  BY <1>2, TickInv
<1>3. ASSUME NEW p \in Players, note_write(p) \/ connection_note_finish(p) PROVE IInv'
  BY <1>3, NoteWriteInv, NoteFinishInv
<1>4. ASSUME NEW p \in Players,
             \/ connection_note_to(p) \/ connection_note_subject(p)
             \/ connection_note_expire(p) \/ connection_note_text(p)
      PROVE  IInv'
  BY <1>4, NoteLinesInv
<1>5. ASSUME NEW p \in Players, note_remove(p) \/ save_forums(p) \/ Relogin(p) PROVE IInv'
  BY <1>5, RemoveInv, SaveInv, ReloginInv
<1>6. ASSUME NEW p \in Players,
             note_read(p) \/ note_catchup(p) \/ note_reset(p) \/ do_forum(p) \/ do_subscribe(p)
      PROVE  IInv'
  BY <1>6, ReadingInv
<1>7. CASE UNCHANGED vars
  <2>1. UNCHANGED <<corrupt, clock, lists, handler, account, history>>  BY <1>7 DEF vars
  <2>2. UNCHANGED <<current_time, last_note_stamp, posts, note, notes, disk, inProgress, forum,
                    lastNote, unsubscribed, posted, reopened>>
    BY <2>1 DEF clock, lists, account, history
  <2>3. Types'  BY <2>1, <2>2 DEF IInv, Types
  <2>4. Drafting' /\ CurrentForumIsReadable'
    BY <2>1, <2>2 DEF IInv, Drafting, CurrentForumIsReadable
  <2> QED  BY <2>1, <2>2, <2>3, <2>4, QuietInv
<1> QED  BY <1>1, <1>2, <1>3, <1>4, <1>5, <1>6, <1>7 DEF Next

THEOREM ForumInvariant == Spec => []IInv
BY InitInv, NextInv, PTL DEF Spec

-----------------------------------------------------------------------------
(* What the runs check.                                                    *)

\* finish_note, delete_note, load_notes: whoever writes, posts, saves, removes
\* and leaves in whatever order, a note is on one forum, once, and exists; and
\* it is not still some player's note that was not posted.
THEOREM NotesListedOnce == Spec => []ListedOnce
<1>1. IInv => ListedOnce
  <2> SUFFICES ASSUME IInv PROVE ListedOnce  OBVIOUS
  <2>1. \A f \in Forums : ToSet(notes[f]) \cup ToSet(disk[f]) \subseteq Notes
    <3>1. \A f \in Forums : ToSet(notes[f]) \subseteq Notes  BY ListedFacts DEF IInv
    <3> QED  BY <3>1 DEF IInv, RowsAreNotes
  <2>2. last_note_stamp \in Stamps
    BY ForumAssumption DEF IInv, Types, Stamps
  <2>3. TypeOK  BY <2>1, <2>2 DEF IInv, Types, TypeOK, Handlers
  <2>4. \A p \in Players \ posted : inProgress[p] \notin Listed
    BY ListedFacts, ForumAssumption DEF IInv, Unposted
  <2> QED  BY <2>3, <2>4 DEF IInv, ListedOnce
<1> QED  BY <1>1, ForumInvariant, PTL

\* delete_note: what the next start of the server reads is on its forum now.
THEOREM RemovedStaysGone == Spec => []RemovedIsGone
<1>1. IInv => RemovedIsGone  BY DEF IInv, RowsAreNotes, RemovedIsGone
<1> QED  BY <1>1, ForumInvariant, PTL

\* do_forum, next_forum: nobody stands in a forum above his level.
THEOREM ForumsAreReadable == Spec => []CurrentForumIsReadable
<1>1. IInv => CurrentForumIsReadable  BY DEF IInv
<1> QED  BY <1>1, ForumInvariant, PTL

\* note_write, connection_note_text, connection_note_finish: a note that is
\* gone, or linked twice, is followed only by one who posted it before.
THEOREM OnlyPostersCorrupt == Spec => CorruptOnlyAfterPosting
<1>1. IInv /\ [Next]_vars => [~corrupt /\ corrupt' => posted # {}]_vars
  <2> SUFFICES ASSUME IInv, Next, ~corrupt, corrupt' PROVE posted # {}  OBVIOUS
  <2>1. ASSUME NEW p \in Players, Dangling(p) \/ (inProgress[p] # None /\ inProgress[p] \in Listed)
        PROVE  posted # {}
    BY <2>1 DEF IInv, Unposted, Dangling
  <2>2. None \notin Listed  BY ListedFacts, ForumAssumption DEF IInv
  <2>3. ASSUME NEW p \in Players, note_write(p) PROVE posted # {}
    BY <2>1, <2>2, <2>3 DEF note_write, Discards, HasDraft
  <2>4. ASSUME NEW p \in Players, connection_note_text(p) PROVE posted # {}
    BY <2>1, <2>4 DEF connection_note_text
  <2>5. ASSUME NEW p \in Players, connection_note_finish(p) PROVE posted # {}
    BY <2>1, <2>2, <2>5 DEF connection_note_finish, Post, Continue, Forget
  <2>6. ~ Restart /\ ~ Tick  BY DEF Restart, Tick
  <2>7. ASSUME NEW p \in Players
        PROVE  /\ ~ (connection_note_to(p) \/ connection_note_subject(p) \/ connection_note_expire(p))
               /\ ~ (note_remove(p) \/ save_forums(p) \/ Relogin(p))
               /\ ~ (note_read(p) \/ note_catchup(p) \/ note_reset(p) \/ do_forum(p) \/ do_subscribe(p))
    BY DEF connection_note_to, connection_note_subject, connection_note_expire, note_remove,
           save_forums, Relogin, note_read, note_catchup, note_reset, do_forum, do_subscribe
  <2> QED  BY <2>3, <2>4, <2>5, <2>6, <2>7 DEF Next
<1> QED  BY <1>1, ForumInvariant, PTL DEF Spec, CorruptOnlyAfterPosting

\* finish_note: however many notes are posted in a second, and whatever the
\* clock does, a note is newer than every other that was not written to again.
THEOREM PostsNewestLast == Spec => NewestLast
<1> DEFINE Newest ==
             posts' > posts =>
               \E f \in Forums :
                 /\ Len(notes'[f]) = Len(notes[f]) + 1
                 /\ \A n \in Listed \ reopened : note[n].date < note'[Last(notes'[f])].date
<1>1. IInv /\ [Next]_vars => [Newest]_vars
  <2> SUFFICES ASSUME IInv, Next, posts' > posts
               PROVE  \E f \in Forums :
                        /\ Len(notes'[f]) = Len(notes[f]) + 1
                        /\ \A n \in Listed \ reopened : note[n].date < note'[Last(notes'[f])].date
    OBVIOUS
  <2>1. posts \in Nat  BY ForumAssumption DEF IInv, Types
  <2>2. ~ Booted  BY <2>1 DEF Booted
  <2>3. posts' # posts  BY <2>1
  <2>4. PICK p \in Players : HasDraft(p) /\ finish_note(forum[p], inProgress[p])
    <3>1. ~ Restart /\ ~ Tick /\ ~ Corrupts
      BY <2>2, <2>3 DEF Restart, Tick, Corrupts, clock
    <3>2. ASSUME NEW p \in Players
          PROVE  /\ ~ (connection_note_to(p) \/ connection_note_subject(p) \/ connection_note_expire(p))
                 /\ ~ (note_remove(p) \/ save_forums(p) \/ Relogin(p))
                 /\ ~ (note_read(p) \/ note_catchup(p) \/ note_reset(p) \/ do_forum(p) \/ do_subscribe(p))
                 /\ ~ note_write(p) /\ ~ connection_note_text(p)
      BY <2>3, <3>1 DEF connection_note_to, connection_note_subject, connection_note_expire,
             note_remove, save_forums, Relogin, note_read, note_catchup, note_reset, do_forum,
             do_subscribe, note_write, connection_note_text, clock
    <3>3. PICK p \in Players : connection_note_finish(p)  BY <3>1, <3>2 DEF Next
    <3>4. Post(p)  BY <2>3, <3>1, <3>3 DEF connection_note_finish, Continue, Forget, clock
    <3> QED  BY <3>1, <3>4 DEF Post
  <2> DEFINE f == forum[p]
             d == inProgress[p]
             s == notes[f]
  <2>5. /\ f \in Forums /\ s \in Seq(Notes) /\ d \in Notes /\ note[d] \in Note
        /\ notes \in [Forums -> Seq(Notes)] /\ note \in [Notes -> {None} \cup Note]
    BY <2>4, DraftIsNote DEF IInv, Types, Draft
  <2>6. notes' = [notes EXCEPT ![f] = Append(@, d)] /\ note' = [note EXCEPT ![d].date = NextStamp]
    BY <2>4 DEF finish_note
  <2>7. notes'[f] = Append(s, d)  BY <2>5, <2>6
  <2>8. note'[d].date = NextStamp  BY <2>5, <2>6 DEF Note
  <2> HIDE DEF f, d, s
  <2>9. Len(Append(s, d)) = Len(s) + 1 /\ Last(Append(s, d)) = d
    BY <2>5, AppendedFacts DEF Last
  <2>10. \A n \in Listed \ reopened : note[n].date < NextStamp  BY StampFacts
  <2>11. Len(notes'[f]) = Len(notes[f]) + 1 /\ Last(notes'[f]) = d  BY <2>7, <2>9 DEF s
  <2> QED  BY <2>5, <2>8, <2>10, <2>11
<1> QED  BY <1>1, ForumInvariant, PTL DEF Spec, NewestLast

\* note_catchup: the last note's date is that of the newest, so that nothing on
\* the forum is unread, unless a note there was written to again.
THEOREM CatchupsReadAll == Spec => CatchupReadsAll
<1> DEFINE Caught ==
             \A p \in Players : note_catchup(p) =>
               \/ Unread(p, forum[p])' = {}
               \/ ToSet(notes[forum[p]]) \cap reopened # {}
<1>1. IInv /\ [Next]_vars => [Caught]_vars
  <2> SUFFICES ASSUME IInv, NEW p \in Players, note_catchup(p),
                      ToSet(notes[forum[p]]) \cap reopened = {}
               PROVE  Unread(p, forum[p])' = {}
    OBVIOUS
  <2> DEFINE f == forum[p]
             s == notes[f]
             t == note[Last(s)].date
  <2>1. /\ s # <<>> /\ lastNote' = [lastNote EXCEPT ![p][f] = t]
        /\ note' = note /\ notes' = notes /\ forum' = forum
    BY DEF note_catchup, lists
  <2>2. /\ f \in Forums /\ s \in Seq(Notes) /\ lastNote \in [Players -> [Forums -> Stamps]]
        /\ Ordered(s, reopened) /\ ToSet(s) \cap reopened = {} /\ ToSet(s) \subseteq Listed
        /\ note \in [Notes -> {None} \cup Note]
    BY ListedFacts DEF IInv, Types
  <2> HIDE DEF t
  <2>3. lastNote'[p][f] = t  BY <2>1, <2>2
  <2> HIDE DEF s, f
  <2>4. Len(s) \in DOMAIN s /\ Len(s) \in Nat /\ DOMAIN s = 1 .. Len(s) /\ Last(s) = s[Len(s)]
    BY <2>1, <2>2 DEF Last
  <2>5. ASSUME NEW n \in ToSet(s) PROVE ~ (t < note[n].date)
    <3>1. PICK i \in DOMAIN s : s[i] = n  BY DEF ToSet
    <3>2. \A j \in DOMAIN s : s[j] \in ToSet(s) /\ s[j] \notin reopened  BY <2>2 DEF ToSet
    <3>3. \A m \in ToSet(s) : note[m].date \in Int
      <4>1. \A m \in ToSet(s) : note[m] \in Note  BY <2>2, ListedFacts DEF IInv, Types
      <4> QED  BY <4>1 DEF Note, Stamps
    <3>4. i = Len(s) \/ i < Len(s)  BY <2>4
    <3>5. note[n].date <= t
      <4>1. t \in Int /\ note[n].date \in Int  BY <2>4, <3>2, <3>3 DEF t
      <4>2. CASE i = Len(s)  BY <2>4, <3>1, <4>1, <4>2 DEF t
      <4>3. CASE i < Len(s)
        BY <2>2, <2>4, <3>1, <3>2, <4>3 DEF t, Ordered
      <4> QED  BY <3>4, <4>2, <4>3
    <3> QED  BY <2>4, <3>2, <3>3, <3>5 DEF t
  <2>6. lastNote'[p][forum'[p]] = t /\ notes'[forum'[p]] = s  BY <2>1, <2>3 DEF s, f
  <2>7. Unread(p, forum[p])' = {n \in ToSet(s) : is_note_to(p, n)' /\ t < note[n].date}
    BY <2>1, <2>6 DEF Unread
  <2> QED  BY <2>5, <2>7
<1> QED  BY <1>1, ForumInvariant, PTL DEF Spec, CatchupReadsAll
=============================================================================
