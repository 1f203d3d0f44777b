---------------------------- MODULE TextEditor ----------------------------
(***************************************************************************)
(* The text editor of the online editors (server/olc.c) on a sequence of   *)
(* characters: a line ends with \n, and a \r after it belongs to it.       *)
(* What is typed is a line to append or a command; \i ends the program,    *)
(* since string_lineadd writes through a null pointer.  The buffers (a     *)
(* line's ARG_SIZ, the text's OUT_SIZ * 4) are taken to be large enough.   *)
(***************************************************************************)
EXTENDS Lists, Naturals, SequencesExt

CONSTANTS
  Texts,    \* texts that the editor may be opened on
  Lines,    \* lines that may be typed
  MaxText   \* bound: characters of the text

VARIABLES
  text,   \* *pStr
  typed,  \* history: the last thing typed, [op, n] or [op, line]
  ended   \* the program has ended

editorVars == <<text, typed, ended>>

-----------------------------------------------------------------------------
(* str.c                                                                   *)

NL == "\n"
CR == "\r"

\* No line of a text begins with a \r, as those that the editor and the importer make do
\* not; what is typed is one line (read_from_client).
IsText(s) ==
  /\ s \in Seq(STRING)
  /\ \A i \in 1 .. Len(s) : s[i] = CR => i > 1 /\ ~ (i > 2 /\ s[i - 1] = CR /\ s[i - 2] = NL)

IsLine(line) == line \in Seq(STRING) /\ \A i \in 1 .. Len(line) : line[i] \notin {NL, CR}

ASSUME TextsAssumption == (\A s \in Texts : IsText(s)) /\ \A line \in Lines : IsLine(line)

\* get_line: the characters before a \n, and what follows it.
get_line(s) ==
  LET n == SelectInSeq(s, LAMBDA c : c = NL)
      rest == SubSeq(s, n + 1, Len(s))
  IN IF n = 0 THEN [line |-> s, rest |-> <<>>]
     ELSE [line |-> SubSeq(s, 1, n - 1),
           rest |-> IF rest # <<>> /\ Head(rest) = CR THEN Tail(rest) ELSE rest]

\* string_editor_menu: the lines it numbers from 1.
Menu(s) ==
  LET rest[n \in 0 .. Len(s)] == IF n = 0 THEN s ELSE get_line(rest[n - 1]).rest
  IN [n \in {m \in 1 .. Len(s) : rest[m - 1] # <<>>} |-> get_line(rest[n - 1]).line]

Newlines(s) == {i \in 1 .. Len(s) : s[i] = NL}

count_lines(s) == Cardinality(Newlines(s))

\* The line of string_linedel that a character belongs to: a \r right after a \n is
\* of the line before.
LineOf(s, i) ==
  LET before == Cardinality({j \in Newlines(s) : j < i})
  IN IF s[i] = CR /\ i > 1 /\ s[i - 1] = NL THEN before ELSE before + 1

\* What is left of s when line is taken out, as the function lineOf has it.
LeftOut(s, lineOf, line) ==
  LET kept == Sorted({i \in 1 .. Len(s) : lineOf[i] # line})
  IN [k \in DOMAIN kept |-> s[kept[k]]]

\* Mutant: the \r is left.
string_linedel_KeepsReturn(s, line) ==
  LeftOut(s, [i \in 1 .. Len(s) |-> Cardinality({j \in Newlines(s) : j < i}) + 1], line)

string_linedel(s, line) == LeftOut(s, [i \in 1 .. Len(s) |-> LineOf(s, i)], line)

-----------------------------------------------------------------------------
(* edit_text                                                               *)

Does(op, n) == ~ended /\ typed' = [op |-> op, n |-> n, line |-> <<>>]

EditorInit ==
  text \in Texts /\ typed = [op |-> "none", n |-> 0, line |-> <<>>] /\ ended = FALSE

\* \d and a number.  (A line 0, or one after the last, is refused.)
DeleteLine(n) ==
  /\ Does("delete", n)
  /\ text' = IF n \in 1 .. count_lines(text) THEN string_linedel(text, n) ELSE text
  /\ UNCHANGED ended

\* \d, and also \d and anything that is not a number.
DeleteLast ==
  /\ Does("delete", count_lines(text))
  /\ text' = string_linedel(text, count_lines(text))
  /\ UNCHANGED ended

Clear == Does("clear", 0) /\ text' = <<>> /\ UNCHANGED ended

\* \i and a number
InsertLine(n) ==
  /\ Does("insert", n)
  /\ ended' = (n \in 1 .. count_lines(text))
  /\ UNCHANGED text

\* Anything else.
AddLine(line) ==
  /\ ~ended /\ Len(text) + Len(line) + 2 <= MaxText
  /\ typed' = [op |-> "add", n |-> 0, line |-> line]
  /\ text' = text \o line \o <<NL, CR>>
  /\ UNCHANGED ended

\* The program starts, and the editor is opened on some text.
Reopen ==
  /\ ended
  /\ text' \in Texts /\ typed' = [op |-> "none", n |-> 0, line |-> <<>>] /\ ended' = FALSE

EditorNext ==
  \/ DeleteLast \/ Clear \/ Reopen
  \/ \E n \in 0 .. count_lines(text) + 1 : DeleteLine(n) \/ InsertLine(n)
  \/ \E line \in Lines : AddLine(line)

EditorSpec == EditorInit /\ [][EditorNext]_editorVars

-----------------------------------------------------------------------------
(* Properties                                                              *)

\* The last line is complete.
Complete(s) == s = <<>> \/ s[Len(s)] = NL \/ (Len(s) > 1 /\ s[Len(s)] = CR /\ s[Len(s) - 1] = NL)

\* edit_text, get_line, string_linedel: a deletion takes the line that the menu shows
\* under that number and no other, and a line typed comes after all of them, as long as
\* the text ends with a line end.
EditsThatLine ==
  [][Complete(text) =>
       Menu(text') = CASE typed'.op = "delete" /\ typed'.n \in DOMAIN Menu(text) ->
                                 RemoveAt(Menu(text), typed'.n)
                         [] typed'.op = "add" -> Append(Menu(text), typed'.line)
                         [] typed'.op \in {"clear", "none"} -> Menu(text')
                         [] OTHER -> Menu(text)]_editorVars
=============================================================================
