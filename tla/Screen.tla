-------------------------------- MODULE Screen --------------------------------
(***************************************************************************)
(* What printing does to a screen of text: putc, puts and clear of lib.c,  *)
(* scroll_up of terminal_driver.c.  A screen is what its cells show;       *)
(* printing goes on at a position (x, y).  Attributes are left out, they   *)
(* are the same everywhere.                                                *)
(***************************************************************************)
EXTENDS Integers, Sequences, SequencesExt

CONSTANTS
    NUM_COLS, NUM_ROWS,  \* terminal_driver.h: 80 and 25
    Char,                \* characters that are not ends of lines
    SPACE, NL

ASSUME ScreenAssumption ==
    /\ NUM_COLS \in Nat \ {0} /\ NUM_ROWS \in Nat \ {0, 1}
    /\ NL # SPACE /\ NL \notin Char

LAST_ROW == NUM_ROWS - 1
Cell == 0 .. NUM_COLS * NUM_ROWS - 1
Shown == Char \cup {SPACE}

Blank == [i \in Cell |-> SPACE]

\* screen_x and screen_y.
Position == [x : 0 .. NUM_COLS - 1, y : 0 .. LAST_ROW]
Home == [x |-> 0, y |-> 0]

\* A cursor is the number of a cell; the VGA registers hold any 16-bit value.
CellOf(at) == NUM_COLS * at.y + at.x
PositionOf(cursor) == [x |-> cursor % NUM_COLS, y |-> cursor \div NUM_COLS]

-----------------------------------------------------------------------------
scroll_up(text) ==
    [i \in Cell |-> IF i < LAST_ROW * NUM_COLS THEN text[i + NUM_COLS] ELSE SPACE]

NextCell(at) ==
    [x |-> (at.x + 1) % NUM_COLS,
     y |-> (at.y + (at.x + 1) \div NUM_COLS) % NUM_ROWS]

\* Printing c on s, a screen with a position.  A character in the last cell
\* wraps around to row 0, which is how putc knows that it has to scroll.
putc(s, c) ==
    LET at == [x |-> s.x, y |-> s.y]
        next == IF c = NL THEN [x |-> 0, y |-> s.y + 1] ELSE NextCell(at)
        text == IF c = NL THEN s.text ELSE [s.text EXCEPT ![CellOf(at)] = c]
    IN  IF next.x = 0 /\ (next.y > LAST_ROW \/ next.y = 0)
        THEN [text |-> scroll_up(text), x |-> 0, y |-> LAST_ROW]
        ELSE [text |-> text, x |-> next.x, y |-> next.y]

\* One character after the other.
puts(s, string) ==
    LET after[i \in 0 .. Len(string)] ==
            IF i = 0 THEN s ELSE putc(after[i - 1], string[i])
    IN  after[Len(string)]

\* A screen and a position as one record, and the position of such a record.
On(text, at) == [text |-> text, x |-> at.x, y |-> at.y]
At(s) == [x |-> s.x, y |-> s.y]
=============================================================================
