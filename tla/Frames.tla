------------------------------- MODULE Frames -------------------------------
(***************************************************************************)
(* add_frames of the fish program (fish.c), which makes a list of blinkers *)
(* from two texts.  A file is read with [c, rest, eof]: its last           *)
(* character, what is unread, and whether a read found nothing.            *)
(***************************************************************************)
EXTENDS Library

COLUMNS == 80
OFFSET == 40

Reader(text) == [c |-> "0", rest |-> text, eof |-> FALSE]

\* A slip one could make, for Fetch.
FetchOn(f) ==
    IF f.rest = <<>> THEN [f EXCEPT !.c = NL, !.eof = TRUE]
    ELSE [f EXCEPT !.c = Head(f.rest), !.rest = Tail(f.rest)]

\* A file whose line has ended waits for the other.
Fetch(f) ==
    IF f.c = NL THEN f
    ELSE IF f.rest = <<>> THEN [f EXCEPT !.c = NL, !.eof = TRUE]
    ELSE [f EXCEPT !.c = Head(f.rest), !.rest = Tail(f.rest)]

NextLine(f) == [f EXCEPT !.c = IF f.eof THEN NL ELSE "0"]

Blank(c) == c \in {SPACE, NL}
Shown(c) == IF c = NL THEN SPACE ELSE c

RECURSIVE AddRow(_, _, _, _)
AddRow(f0, f1, row, col) ==
    LET g0 == Fetch(f0)
        g1 == Fetch(f1)
        blinker == [location |-> row * COLUMNS + col + OFFSET,
                    on_char |-> Shown(g0.c), off_char |-> Shown(g1.c)]
    IN  IF g0.c # NL \/ g1.c # NL THEN
            (IF Blank(g0.c) /\ Blank(g1.c) THEN <<>> ELSE <<blinker>>)
                \o AddRow(g0, g1, row, col + 1)
        ELSE IF g0.eof /\ g1.eof THEN <<>>
        ELSE AddRow(NextLine(g0), NextLine(g1), row + 1, 0)

\* What it adds, in order.
add_frames(text0, text1) == AddRow(Reader(text0), Reader(text1), 0, 0)
=============================================================================
