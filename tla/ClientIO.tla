------------------------------ MODULE ClientIO ------------------------------
(***************************************************************************)
(* What a client (server/client.c) makes of the bytes it receives, and     *)
(* what it sends: read_line_from_client, the telnet options                *)
(* (server/telnet.c), parse_input_buffer with its count of repeated        *)
(* commands, the pager and the output buffer, in the passes of game_loop.  *)
(*                                                                         *)
(* A byte is its kind and its place in all that was sent, by which it is   *)
(* told from others of its kind; inbuf is an array with whatever earlier   *)
(* reads left in it.  Colours, what is written in reply, and negotiation   *)
(* of the options that change nothing here are left out.                   *)
(***************************************************************************)
EXTENDS Integers, SequencesExt

CONSTANTS
  Pieces,   \* what the other side sends at a time: sequences of kinds
  MaxSent,  \* bound: bytes sent on a connection
  Room,     \* bytes that one pass reads (4086)
  Limit,    \* repetitions at which a command becomes quit (45)
  Texts,    \* what a command pages: sequences of "x", "NL" and "CR"
  Heights,  \* heights of the other side's window; the first is 24
  OutMax,   \* what the output buffer holds (32000) in lines
  Nothing

ASSUME ClientIOAssumption ==
  /\ \A p \in Pieces : p # <<>> /\ p \in Seq(STRING)
  /\ MaxSent \in Nat /\ Limit \in Nat \ {0, 1} /\ OutMax \in Nat \ {0}
  /\ Room \in Nat \ {0} /\ Heights \subseteq Nat \ (0 .. 2)
  /\ Texts \subseteq Seq({"x", "NL", "CR"})

VARIABLES
  wire,      \* bytes sent and not received
  sent,      \* how many were sent
  inbuf,     \* the bytes of inbuf, from 0
  last,      \* lastCommand: kinds
  repeat,    \* repeat
  handler,   \* handler # 0
  fCommand,  \* fCommand
  scrHeight, \* scrHeight
  showstr,   \* showstr_head and how far showstr_point is in it, or Nothing
  outtop,    \* outtop, in lines
  turn,      \* the pass of game_loop that comes next: "input" or "output"
  command,   \* history: bytes of the last line taken for a command
  upto,      \* history: the last byte that was in a command
  overran,   \* history: an option was read beyond the end of the input
  row,       \* history: how often the last command, of two letters or more, came in a row
  shown,     \* history: the last page: from, to, and whether it was the next one
  lost       \* history: "no", or what was done to freed or unmapped memory

input == <<wire, sent, inbuf, last, repeat, command, upto, overran, row>>
output == <<scrHeight, showstr, outtop, shown, lost>>
client == <<input, output, handler, fCommand, turn>>

Nul == <<"NUL", 0>>
Word(line) == [i \in DOMAIN line |-> line[i][1]]
Page == [from : Nat, to : Nat, next : BOOLEAN]

ClientTypeOK ==
  /\ sent \in 0 .. MaxSent /\ upto \in 0 .. sent /\ Len(wire) <= sent /\ DOMAIN inbuf = 0 .. Room + 1
  /\ repeat \in 0 .. Limit - 1 /\ row \in Nat
  /\ handler \in BOOLEAN /\ fCommand \in BOOLEAN /\ overran \in BOOLEAN
  /\ scrHeight \in Heights /\ outtop \in 0 .. OutMax /\ turn \in {"input", "output"}
  /\ showstr # Nothing => showstr.text \in Texts /\ showstr.point \in 0 .. Len(showstr.text)
  /\ shown # Nothing => shown \in Page
  /\ lost \in {"no", "freed", "stack"}

Empty == [i \in 0 .. Room + 1 |-> Nul]

\* initialize_client: the greeting and the login prompt are in the buffer.
ClientInit ==
  /\ wire = <<>> /\ sent = 0 /\ inbuf = Empty
  /\ last = <<>> /\ repeat = 0 /\ handler = TRUE /\ fCommand = FALSE
  /\ scrHeight \in Heights /\ showstr = Nothing /\ outtop = 1 /\ turn = "input"
  /\ command = <<>> /\ upto = 0 /\ overran = FALSE /\ row = 0 /\ shown = Nothing /\ lost = "no"

\* close_client, and the next connection.
Closes ==
  /\ wire' = <<>> /\ sent' = 0 /\ inbuf' = Empty
  /\ last' = <<>> /\ repeat' = 0 /\ handler' = TRUE /\ fCommand' = FALSE
  /\ scrHeight' \in Heights /\ showstr' = Nothing /\ outtop' = 1 /\ turn' = "input"
  /\ command' = <<>> /\ upto' = 0 /\ overran' = FALSE /\ row' = 0 /\ shown' = Nothing /\ lost' = "no"

-----------------------------------------------------------------------------
(* Telnet options.                                                         *)

Ends == {"NL", "CR"}
At(buf, i) == IF i \in DOMAIN buf THEN buf[i] ELSE Nul  \* behind it is incomm, empty
K(buf, i) == At(buf, i)[1]

\* memmove: what is at i and after it, with its NUL, comes to index.
Moved(buf, index, i) ==
  LET nul == CHOOSE j \in i .. i + Room + 2 : K(buf, j) = "NUL" /\ \A k \in i .. j - 1 : K(buf, k) # "NUL"
  IN [j \in DOMAIN buf |-> IF j \in index .. index + nul - i THEN At(buf, j + i - index) ELSE buf[j]]

\* Where a suboption that starts at i ends, an SE, or i when two NULs come first.
Suboption(buf, i) ==
  LET Stops == {j \in i + 2 .. Room + 2 :
                  K(buf, j) = "SE" \/ (K(buf, j) = "NUL" /\ K(buf, j + 1) = "NUL")}
      j == CHOOSE k \in Stops : \A m \in Stops : k <= m
  IN IF K(buf, j) = "SE" THEN j ELSE i

\* A round of the loop of process_telnet, and whether another may follow.  Nothing
\* looks at the second byte of an option but DO, WILL and the like being at the end
\* of the input.
Option(o) ==
  LET opt == K(o.buf, o.at + 1)
      se == Suboption(o.buf, o.at)
      named == K(o.buf, o.at + 2) = "NAWS" /\ K(o.buf, se - 1) = "IAC"
      stop == [o EXCEPT !.on = FALSE]
  IN IF ~o.on \/ K(o.buf, o.at) # "IAC" \/ opt = "IAC" \/ (opt = "SB" /\ se = o.at) THEN stop
     ELSE IF opt = "SB"
     THEN [o EXCEPT !.buf = IF named THEN [o.buf EXCEPT ![se - 1] = Nul] ELSE o.buf,
                    !.at = se + 1, !.naws = o.naws \/ named]
     ELSE IF K(o.buf, o.at + 2) # "NUL" THEN [o EXCEPT !.at = o.at + 3]
     ELSE IF opt = "WILL" THEN [stop EXCEPT !.at = o.at + 3] ELSE stop

\* The loop, from index on: where it ends, the input it leaves, and whether the
\* window's size came.
Options(buf, index, naws) ==
  LET round[n \in 0 .. Room + 2] ==
        IF n = 0 THEN [buf |-> buf, at |-> index, naws |-> naws, on |-> TRUE] ELSE Option(round[n - 1])
  IN round[Room + 2]

\* process_telnet at p.at; past: it went beyond the end of the input.
process_telnet(p) ==
  LET o == Options(p.buf, p.at, p.naws)
  IN [p EXCEPT !.buf = Moved(o.buf, p.at, o.at), !.naws = o.naws,
               !.past = p.past \/ \E j \in p.at .. o.at - 1 : K(p.buf, j) = "NUL"]

-----------------------------------------------------------------------------
(* parse_input_buffer                                                      *)

\* A step of the search for the end of a line, which processes options on the way
\* and stops at the end of a line or of the input.  The byte that comes to where an
\* option was is not looked at.
Search(p) ==
  IF K(p.buf, p.at) \in Ends THEN p
  ELSE LET q == IF K(p.buf, p.at) = "IAC" THEN process_telnet(p) ELSE p
       IN IF K(q.buf, q.at) = "NUL" THEN q ELSE [q EXCEPT !.at = p.at + 1]

Found(buf) ==
  LET after[n \in 0 .. Room + 2] ==
        IF n = 0 THEN [buf |-> buf, at |-> 0, naws |-> FALSE, past |-> FALSE] ELSE Search(after[n - 1])
  IN after[Room + 2]

LineEnd(buf) == CHOOSE i \in DOMAIN buf : K(buf, i) \in Ends /\ \A j \in 0 .. i - 1 : K(buf, j) \notin Ends

\* What a byte does to a line: a backspace takes one back, control characters (NAWS
\* is one) and 0xFF are dropped.
Typed(s, byte) ==
  CASE byte[1] = "BS" -> IF s = <<>> THEN s ELSE Front(s)
    [] byte[1] \in {"IAC", "NAWS"} -> s
    [] OTHER -> Append(s, byte)

\* The characters of the first line.
Line(buf) ==
  LET first[n \in 0 .. LineEnd(buf)] == IF n = 0 THEN <<>> ELSE Typed(first[n - 1], buf[n - 1])
  IN first[LineEnd(buf)]

\* Mutant: what follows the line is not moved to the front.
Rest_Keeps(buf) == buf

\* What is left: a line ends with one NL, one CR or both.
Rest(buf) ==
  LET e == LineEnd(buf) IN Moved(buf, 0, IF {K(buf, e), K(buf, e + 1)} = Ends THEN e + 2 ELSE e + 1)

\* Mutant: a repetition by ! does not count.
Repeats_Typed(typed) ==
  IF Len(typed) > 1 THEN (IF typed # last THEN 0 ELSE repeat + 1) ELSE repeat

\* The count of repetitions after a line; a line of one letter, as the directions
\* are, is not counted.
Repeats(typed) ==
  IF typed # <<>> /\ typed[1] = "!" THEN repeat + 1
  ELSE IF Len(typed) > 1 THEN (IF typed # last THEN 0 ELSE repeat + 1)
  ELSE repeat

Quit == <<"q", "q">>

\* The command a line is: ! is the last one, and one that came too often is quit.
Command(typed) ==
  IF Repeats(typed) >= Limit THEN Quit
  ELSE IF typed # <<>> /\ typed[1] = "!" THEN last ELSE typed

-----------------------------------------------------------------------------
(* The pager                                                               *)

Char(text, p) == IF p < Len(text) THEN text[p + 1] ELSE "NUL"

\* A step back, unless lines ends of lines were met: every second NL or CR is one.
Back(text, s) ==
  LET end == Char(text, s.at) \in Ends
  IN IF s.at = 0 \/ (end /\ s.toggle /\ s.lines = 1) THEN s
     ELSE [at |-> s.at - 1, toggle |-> s.toggle # end,
           lines |-> IF end /\ s.toggle THEN s.lines - 1 ELSE s.lines]

\* Backs up from p over some lines.
BackUp(text, p, lines) ==
  LET back[n \in 0 .. p] ==
        IF n = 0 THEN [at |-> p, toggle |-> TRUE, lines |-> lines] ELSE Back(text, back[n - 1])
  IN back[p].at

\* A step of a page, unless it has its lines or the text ends.
Scan(text, s) ==
  LET end == Char(text, s.at) \in Ends
  IN IF ~(end /\ s.toggle) /\ (Char(text, s.at) = "NUL" \/ s.lines <= 0) THEN s
     ELSE [at |-> s.at + 1, toggle |-> s.toggle # end,
           lines |-> IF end /\ s.toggle THEN s.lines - 1 ELSE s.lines]

\* Where a page of some lines that starts at p ends.
PageEnd(text, p, lines) ==
  LET scan[n \in 0 .. Len(text) + 1] ==
        IF n = 0 THEN [at |-> p, toggle |-> TRUE, lines |-> lines] ELSE Scan(text, scan[n - 1])
  IN scan[Len(text) + 1].at

\* What the pager has left at p: nothing, when only blanks follow.
Remaining(text, p) ==
  IF \A q \in p .. Len(text) - 1 : Char(text, q) \in Ends THEN Nothing ELSE [text |-> text, point |-> p]

\* Mutant: the next page starts a line further.
Start_Skips(text, p, key, h) ==
  CASE key = "r" -> BackUp(text, p, h - 1)
    [] key = "b" -> BackUp(text, p, 2 * h - 3)
    [] OTHER -> IF p > 0 /\ p < Len(text) THEN p + 1 ELSE p

\* Where the page starts that a key asks for.
Start(text, p, key, h) ==
  CASE key = "r" -> BackUp(text, p, h - 1)
    [] key = "b" -> BackUp(text, p, 2 * h - 3)
    [] OTHER -> p

\* write_to_client: a line more, unless it does not fit, when the client is closed
\* and freed under whoever writes.  close_client flushes first, and while the pager
\* is on its prompt overflows again, and so on.
Writes(paging) ==
  IF outtop < OutMax THEN outtop' = outtop + 1 /\ lost' = lost
  ELSE outtop' = outtop /\ lost' = IF paging THEN "stack" ELSE "freed"

\* show_string, of a text from p on
show_string(text, p, key, h) ==
  IF key \in {"enter", "r", "b"}
  THEN LET from == Start(text, p, key, h)
           to == PageEnd(text, from, h - 2)
       IN /\ showstr' = Remaining(text, to)
          /\ shown' = [from |-> from, to |-> to, next |-> key = "enter" /\ showstr # Nothing]
          /\ Writes(TRUE)
  ELSE IF key = "h" THEN Writes(TRUE) /\ UNCHANGED <<showstr, shown>>
  ELSE showstr' = Nothing /\ UNCHANGED <<shown, outtop, lost>>

Key(word) == IF word = <<>> THEN "enter" ELSE word[1]

\* client_command_parser: the pager, a command that pages a text, quit, or another.
client_command_parser(word, h) ==
  IF showstr # Nothing
  THEN show_string(showstr.text, showstr.point, Key(word), h) /\ UNCHANGED handler
  ELSE IF Key(word) = "p"
  THEN (\E text \in Texts : show_string(text, 0, "enter", h)) /\ UNCHANGED handler
  ELSE handler' = (word # Quit) /\ Writes(FALSE) /\ UNCHANGED <<showstr, shown>>

-----------------------------------------------------------------------------
(* The passes of game_loop over the client.                                *)

\* The other side: what it sends during a pass is there at the next.
Send ==
  \E p \in Pieces :
    /\ lost = "no" /\ turn = "input" /\ sent + Len(p) <= MaxSent
    /\ wire' = wire \o [i \in DOMAIN p |-> <<p[i], sent + i>>]
    /\ sent' = sent + Len(p)
    /\ UNCHANGED <<inbuf, last, repeat, command, upto, overran, row, output, handler, fCommand, turn>>

\* read_line_from_client takes n bytes and puts them at the start of inbuf, over
\* what was left there, with two NULs.
Read(n) ==
  [i \in DOMAIN inbuf |-> IF i < n THEN wire[i + 1] ELSE IF i \in {n, n + 1} THEN Nul ELSE inbuf[i]]

\* A line is carried out: what it is as a command, the count of repetitions, and its
\* handler.
Takes(chars, h) ==
  LET typed == Word(chars)
      word == Command(typed)
  IN /\ last' = word /\ command' = chars
     /\ upto' = IF chars = <<>> THEN upto ELSE Last(chars)[2]
     /\ repeat' = IF Repeats(typed) >= Limit THEN 0 ELSE Repeats(typed)
     /\ row' = IF Len(word) < 2 THEN 0 ELSE IF word = last THEN row + 1 ELSE 1
     /\ client_command_parser(word, h)

\* The input pass, after a read of n bytes or without one.
InputPass ==
  /\ lost = "no" /\ turn = "input" /\ handler
  /\ turn' = "output" /\ UNCHANGED sent
  /\ \E n \in 0 .. Len(wire) :
       /\ n <= Room
       /\ wire' = SubSeq(wire, n + 1, Len(wire))
       /\ \E f \in {Found(IF n = 0 THEN inbuf ELSE Read(n))} :
            LET line == K(f.buf, f.at) \in Ends IN
            /\ fCommand' = line
            /\ inbuf' = IF line THEN Rest(f.buf) ELSE f.buf
            /\ overran' = (overran \/ f.past)
            /\ scrHeight' \in IF f.naws THEN Heights ELSE {scrHeight}
            /\ IF line THEN Takes(Line(f.buf), scrHeight')
               ELSE UNCHANGED <<last, repeat, command, upto, row, showstr, outtop, shown, lost, handler>>

\* Another client's command, or an update, writes to this one.
Hear ==
  /\ lost = "no" /\ turn = "output"
  /\ Writes(showstr # Nothing)
  /\ UNCHANGED <<input, scrHeight, showstr, shown, handler, fCommand, turn>>

\* process_output: the prompt is one more line; then everything is sent.
process_output ==
  IF outtop < OutMax THEN outtop' = 0 /\ UNCHANGED lost ELSE Writes(showstr # Nothing)

\* The output pass, if the socket takes it.
OutputPass ==
  /\ lost = "no" /\ turn = "output"
  /\ turn' = "input"
  /\ \/ (fCommand \/ outtop > 0) /\ process_output
     \/ UNCHANGED <<outtop, lost>>  \* not ready, or nothing to send
  /\ UNCHANGED <<input, scrHeight, showstr, shown, handler, fCommand>>

\* The kick-out pass finds the handler cleared, or the link is gone.
Leaves == lost = "no" /\ turn = "input" /\ Closes

\* After a crash the server is started again.
Restart == lost # "no" /\ Closes

ClientNext == Send \/ InputPass \/ Hear \/ OutputPass \/ Leaves \/ Restart

ClientSpec == ClientInit /\ [][ClientNext]_client

-----------------------------------------------------------------------------
(* Properties                                                              *)

\* parse_input_buffer, process_telnet: commands are made of bytes in the order they
\* were sent, each at most once, however the bytes are cut into reads, as long as
\* no option was read beyond the end of the input, where earlier reads left theirs.
InOrder ==
  [][turn = "input" /\ turn' = "output" /\ fCommand' /\ ~overran' =>
       \A i \in DOMAIN command' :
         command'[i][2] > (IF i = 1 THEN upto ELSE command'[i - 1][2])]_client

\* parse_input_buffer: no command of two letters or more is carried out more often
\* in a row than the limit, typed or by !.
SpamStops == ClientTypeOK /\ row <= Limit

\* show_string: whatever pages were shown before and however high the window is now,
\* the next page starts no later than the last one ended, and goes on.
NothingSkipped ==
  [][shown' # shown /\ shown' # Nothing /\ shown # Nothing /\ shown'.next =>
       shown'.from <= shown.to /\ shown'.to > shown.to]_client

=============================================================================
