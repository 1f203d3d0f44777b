------------------------------- MODULE Names -------------------------------
(***************************************************************************)
(* How a player's words find a thing: one_argument takes a string apart,   *)
(* is_name compares words with a list of names (str.c), number_argument    *)
(* reads the 2 of 2.sword, and get_obj_here (object.c) looks on the floor, *)
(* then at what is carried, then at what is worn.  A string is a sequence  *)
(* of characters; a behaviour asks for one argument.                       *)
(***************************************************************************)
EXTENDS Lists, Integers, SequencesExt

CONSTANTS
  Arguments,  \* what may be typed
  Things,     \* things that may be here: [name, place, seen]
  MaxThings,  \* bound: things in the world
  NoArgument

ASSUME NamesAssumption ==
  /\ Arguments \subseteq Seq(STRING) /\ \A t \in Things : t.name \in Seq(STRING)
  /\ MaxThings \in Nat

VARIABLES
  world,     \* first_object: the things, those of a place in its own order
  argument,  \* what was typed, or NoArgument
  found      \* what get_obj_world answered, an index of world, or 0 for a null pointer

namesVars == <<world, argument, found>>

-----------------------------------------------------------------------------
(* str.c                                                                   *)

Space == " "
Digit == [c \in {"0", "1", "2", "3"} |->
            CASE c = "0" -> 0 [] c = "1" -> 1 [] c = "2" -> 2 [] OTHER -> 3]

LOWER(c) == IF c = "A" THEN "a" ELSE IF c = "B" THEN "b" ELSE c

\* ~str_prefix(a, b): a, which is not empty, is what b begins with.
Begins(a, b) ==
  /\ a # <<>> /\ Len(a) <= Len(b)
  /\ \A i \in 1 .. Len(a) : LOWER(a[i]) = LOWER(b[i])

\* A blank that starts it is passed over, and so is the next.
SkipBlanks(s) ==
  LET i == SelectInSeq(s, LAMBDA c : c # Space)
  IN IF i = 0 THEN <<>> ELSE SubSeq(s, i, Len(s))

\* What ends an argument that begins with a quote.
Closing == [q \in {"'", "\"", "(", "%"} |-> IF q = "(" THEN ")" ELSE q]

Until(s, cEnd) ==
  LET end == SelectInSeq(s, LAMBDA c : c = cEnd)
  IN IF end = 0 THEN [arg |-> s, rest |-> <<>>]
     ELSE [arg |-> SubSeq(s, 1, end - 1), rest |-> SkipBlanks(SubSeq(s, end + 1, Len(s)))]

\* first_arg: up to a blank, or to the end of what a quote began.
first_arg(s) ==
  IF s # <<>> /\ Head(s) \in DOMAIN Closing THEN Until(Tail(s), Closing[Head(s)])
  ELSE Until(s, Space)

one_argument(s) == first_arg(SkipBlanks(s))

\* What one_argument gives in turn, up to an empty one; each takes a character at least.
Parts(s) ==
  LET turn[i \in 0 .. Len(s) + 1] ==
        IF i = 0 THEN [arg |-> <<>>, rest |-> s] ELSE one_argument(turn[i - 1].rest)
      empty == Min({i \in 1 .. Len(s) + 1 : turn[i].arg = <<>>})
  IN [i \in 1 .. empty - 1 |-> turn[i].arg]

\* Mutant: one word is enough.
is_name_AnyWord(str, namelist) ==
  \/ namelist = <<>>
  \/ /\ str # <<>>
     /\ \E p \in Range(Parts(str)), n \in Range(Parts(namelist)) : Begins(p, n)

\* The name with which the search for a part ends, 0 if with none.
Hit(str, part, names) == SelectInSeq(names, LAMBDA n : Begins(str, n) \/ Begins(part, n))

\* Each part begins a name.  A name that the whole string begins, seen before the
\* part's own, ends the search; no part at all is a match.
Matches(str, parts, names) ==
  LET hits == [i \in DOMAIN parts |-> Hit(str, parts[i], names)]
      whole == SelectInSeq(hits, LAMBDA h : h # 0 /\ Begins(str, names[h]))
      missed == SelectInSeq(hits, LAMBDA h : h = 0)
  IN missed = 0 \/ whole \in 1 .. missed - 1

is_name(str, namelist) ==
  \/ namelist = <<>>
  \/ str # <<>> /\ Matches(str, Parts(str), Parts(namelist))

\* x_argument with a dot: what stands before the first one must be all number.
number_argument(s) ==
  LET p == SelectInSeq(s, LAMBDA c : c = ".")
      digits == SubSeq(s, 1, p - 1)
  IN IF p = 0 THEN [number |-> 1, arg |-> s]
     ELSE [number |-> IF digits # <<>> /\ Range(digits) \subseteq DOMAIN Digit
                      THEN FoldLeft(LAMBDA n, c : 10 * n + Digit[c], 0, digits) ELSE 0,
           arg |-> SubSeq(s, p + 1, Len(s))]

-----------------------------------------------------------------------------
(* object.c: the searches, each of the things of some place.               *)

\* get_obj_list, get_obj_carry, get_obj_wear, and the loop of get_obj_world.
Search(arg, places) ==
  LET x == number_argument(arg)
      named == Sorted({i \in DOMAIN world : /\ world[i].place \in places /\ world[i].seen
                                           /\ is_name(x.arg, world[i].name)})
  IN IF x.number \in DOMAIN named THEN named[x.number] ELSE 0

\* The first answer there is.
First(answers) ==
  LET i == SelectInSeq(answers, LAMBDA a : a # 0) IN IF i = 0 THEN 0 ELSE answers[i]

get_obj_here(arg) ==
  First([i \in 1 .. 3 |-> Search(arg, {<<"floor", "carried", "worn">>[i]})])

get_obj_world(arg) ==
  First(<<get_obj_here(arg), Search(arg, {"floor", "carried", "worn", "elsewhere"})>>)

-----------------------------------------------------------------------------
NamesInit ==
  /\ world \in UNION {[1 .. n -> Things] : n \in 0 .. MaxThings}
  /\ argument = NoArgument /\ found = 0

Ask ==
  /\ argument = NoArgument
  /\ \E a \in Arguments : argument' = a /\ found' = get_obj_world(a)
  /\ UNCHANGED world

\* The command is done.
Done == argument # NoArgument /\ argument' = NoArgument /\ found' = 0 /\ UNCHANGED world

NamesNext == Ask \/ Done

NamesSpec == NamesInit /\ [][NamesNext]_namesVars

-----------------------------------------------------------------------------
(* Properties                                                              *)

\* The longest pieces without a blank.
Pieces(s) ==
  {SubSeq(s, a[1], a[2]) : a \in
     {b \in (1 .. Len(s)) \X (1 .. Len(s)) :
        /\ b[1] <= b[2] /\ \A k \in b[1] .. b[2] : s[k] # Space
        /\ (b[1] = 1 \/ s[b[1] - 1] = Space)
        /\ (b[2] = Len(s) \/ s[b[2] + 1] = Space)}}

Quotes == DOMAIN Closing

NoQuotes(s) == Range(s) \cap Quotes = {}

\* is_name, number_argument, get_obj_here, get_obj_world: an argument n.words finds the
\* nth thing the player sees of those with a name for each of the words, among the
\* things of the first place that has n of them; and a thing without a name answers to
\* all.  Quotes, which join words to one, are in neither the argument nor the names.
FindsTheNamed ==
  /\ argument # NoArgument /\ NoQuotes(argument)
  /\ \A i \in DOMAIN world : NoQuotes(world[i].name)
  =>
    LET x == number_argument(argument)
        Is(i) == /\ world[i].seen
                 /\ \/ world[i].name = <<>>
                    \/ x.arg # <<>> /\ \A w \in Pieces(x.arg) :
                         \E n \in Pieces(world[i].name) : Begins(w, n)
        Of(p) == {i \in DOMAIN world : world[i].place \in p /\ Is(i)}
        Nth(p) == {i \in Of(p) : Cardinality({j \in Of(p) : j <= i}) = x.number}
        floor == Nth({"floor"})
        carried == Nth({"carried"})
        worn == Nth({"worn"})
        all == Nth({"floor", "carried", "worn", "elsewhere"})
        answer == IF floor # {} THEN floor ELSE IF carried # {} THEN carried
                  ELSE IF worn # {} THEN worn ELSE all
    IN IF answer = {} THEN found = 0 ELSE found \in answer
=============================================================================
