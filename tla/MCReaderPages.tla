---------------------------- MODULE MCReaderPages ----------------------------
(***************************************************************************)
(* ReaderPages for TLC: three snapshots that can be activated, with a      *)
(* channel that only an entry names, an entry that is gone from the second *)
(* and nested channels, and one snapshot for each reason to refuse.        *)
(***************************************************************************)
EXTENDS ReaderPages

File(id, ids) ==
    [dir |-> "content", stem |-> id, ext |-> "md", front |-> TRUE, id |-> id, channels |-> ids]

A == <<"a">>
AB == <<"a", "/", "b">>
X == File(<<"x">>, {A})
Y == File(<<"y">>, {A, AB})
Readme == [X EXCEPT !.stem = <<"y">>, !.ext = "txt", !.front = FALSE]

MCInstalled == [files |-> {X, Y, Readme}, catalog |-> <<A>>]

MCSnapshots == {
    MCInstalled,
    [files |-> {File(<<"x">>, {})}, catalog |-> <<>>],
    \* Refused: an identifier twice, one that is not the file's name, no front
    \* matter, an identifier and a channel with other characters, the catalog.
    [files |-> {X, [X EXCEPT !.dir = "archive"]}, catalog |-> <<>>],
    [files |-> {[X EXCEPT !.stem = <<"y">>]}, catalog |-> <<>>],
    [files |-> {[X EXCEPT !.front = FALSE]}, catalog |-> <<>>],
    [files |-> {File(<<"x", "+">>, {})}, catalog |-> <<>>],
    [files |-> {File(<<"x">>, {<<"c", "+", "+">>})}, catalog |-> <<>>],
    [files |-> {X}, catalog |-> <<A, A>>],
    [files |-> {X}, catalog |-> <<<<"a", "/">>>>]}

Channel(value) == [key |-> "channel", value |-> value]

\* No channel; one after another key; one that no entry has; one spelt with an
\* escape; one cut off in an escape before a good one.
MCTyped == {
    <<>>,
    <<[key |-> "from", value |-> A], Channel(AB)>>,
    <<Channel(<<"c", "+", "1">>)>>,
    <<Channel(<<"c", "%", "2", "B">>), Channel(<<"c", "%", "2">>), Channel(A)>>}
=============================================================================
