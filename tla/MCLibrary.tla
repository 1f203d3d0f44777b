----------------------------- MODULE MCLibrary -----------------------------
\* A small instance of Library for TLC.
EXTENDS Library

\* Words whose hashes fit below the sign bit of 24.  (At 64 bits a word of twelve letters
\* or so reaches it.)
OneLetter == {<<97>>, <<98>>, <<99>>}

\* Arguments with one word, two, a number, a quote, and none; things with one name, with
\* several, and without.
Typed == {s \o w : s \in {<<>>, <<"2", ".">>, <<".">>, <<"1", "0", ".">>},
                   w \in {<<>>, <<"a">>, <<"A", "b">>, <<"b">>, <<"a", " ", "b">>,
                          <<"b", " ", "a", " ">>, <<" ", "b">>, <<"'", "a", " ", "b">>}}
Listed == {<<>>, <<"a", "b">>, <<"b", " ", "a">>, <<"a">>, <<"a", "b", " ", " ", "b">>}
SomeThings == [name : Listed, place : {"floor", "carried", "worn"}, seen : {TRUE}]
              \cup [name : {<<"a">>}, place : {"floor"}, seen : {FALSE}]
              \cup [name : {<<"b">>}, place : {"elsewhere"}, seen : {TRUE}]

\* Texts of up to two lines, of which the last may lack its end.
SomeLines == {<<>>, <<"x">>, <<"y", "z">>}
Ends == {<<"\n">>, <<"\n", "\r">>}
FewTexts == {<<>>} \cup {a \o e : a \in SomeLines, e \in Ends}
            \cup {a \o e \o b \o f : a \in SomeLines, e \in Ends,
                                     b \in SomeLines, f \in Ends \cup {<<>>}}
=============================================================================
