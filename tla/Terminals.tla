------------------------------ MODULE Terminals ------------------------------
(***************************************************************************)
(* What the terminals on one screen promise: each has a screen, a          *)
(* printing position, a cursor and a line under edit of its own, and what  *)
(* a program or the user does at one terminal changes nothing at another.  *)
(* Which one is on display changes nothing at all.  Display implements     *)
(* this with one video memory, one printing position and one cursor.       *)
(***************************************************************************)
EXTENDS Screen

CONSTANTS Ter, KEYBOARD_BUFFER_SIZE

VARIABLES
    text,    \* per terminal: its cells
    at,      \* per terminal: where its program prints next
    cursor,  \* per terminal: the cell of its cursor
    line,    \* per terminal: the characters of the line under edit
    pos      \* per terminal: how many of them are in front of the cursor

vars == <<text, at, cursor, line, pos>>

Init ==
    /\ text = [t \in Ter |-> Blank]
    /\ at = [t \in Ter |-> Home]
    /\ cursor = [t \in Ter |-> 0]
    /\ line = [t \in Ter |-> <<>>]
    /\ pos = [t \in Ter |-> 0]

\* The screen of t becomes that of s, its program's position becomes there.
Becomes(t, s, there) ==
    /\ text' = [text EXCEPT ![t] = s.text]
    /\ at' = [at EXCEPT ![t] = there]

CursorTo(t, c) == cursor' = [cursor EXCEPT ![t] = c]

-----------------------------------------------------------------------------
\* The program of t writes a character, and the cursor follows it.
Write(t, c) ==
    LET s == putc(On(text[t], at[t]), c) IN
    /\ Becomes(t, s, At(s))
    /\ CursorTo(t, CellOf(s))
    /\ UNCHANGED <<line, pos>>

\* The kernel prints for the program of t; the cursor stays.
Message(t, string) ==
    LET s == puts(On(text[t], at[t]), string) IN
    /\ Becomes(t, s, At(s))
    /\ UNCHANGED <<cursor, line, pos>>

\* The program of t draws into a cell of its screen.
Draw(t, i, c) ==
    /\ text' = [text EXCEPT ![t][i] = c]
    /\ UNCHANGED <<at, cursor, line, pos>>

\* A cleared screen, with a message on it.
Restart(t, string) ==
    LET s == puts(On(Blank, Home), string) IN
    /\ Becomes(t, s, At(s))
    /\ CursorTo(t, 0)
    /\ UNCHANGED <<line, pos>>

\* A new line, empty, or one given up.
NewLine(t) ==
    /\ line' = [line EXCEPT ![t] = <<>>]
    /\ pos' = [pos EXCEPT ![t] = 0]
    /\ UNCHANGED <<text, at, cursor>>

Entered(t) ==
    /\ line' = [line EXCEPT ![t] = Append(@, NL)]
    /\ UNCHANGED <<text, at, cursor, pos>>

-----------------------------------------------------------------------------
\* The user edits the line of t: shown is what is printed from the cursor on.
\* The program's position follows to the end of it, or does not.
Echo(t, from, shown, back) ==
    LET s == puts(On(text[t], PositionOf(from)), shown) IN
    /\ \/ Becomes(t, s, At(s))
       \/ Becomes(t, s, at[t])
    /\ CursorTo(t, CellOf(s) - back)

Insert(t, c) ==
    LET rest == SubSeq(line[t], pos[t] + 1, Len(line[t])) IN
    /\ Echo(t, cursor[t], <<c>> \o rest, Len(rest))
    /\ line' = [line EXCEPT ![t] = InsertAt(@, pos[t] + 1, c)]
    /\ pos' = [pos EXCEPT ![t] = @ + 1]

Erase(t) ==
    LET rest == SubSeq(line[t], pos[t] + 1, Len(line[t])) IN
    /\ pos[t] > 0
    /\ Echo(t, cursor[t] - 1, rest \o <<SPACE>>, Len(rest) + 1)
    /\ line' = [line EXCEPT ![t] = RemoveAt(@, pos[t])]
    /\ pos' = [pos EXCEPT ![t] = @ - 1]

\* A cursor key; the program's position may follow.
Move(t, p, c) ==
    /\ p \in 0 .. Len(line[t])
    /\ pos' = [pos EXCEPT ![t] = p]
    /\ CursorTo(t, c)
    /\ at' \in {at, [at EXCEPT ![t] = PositionOf(c)]}
    /\ UNCHANGED <<text, line>>

Left(t) == Move(t, pos[t] - 1, cursor[t] - 1)
Right(t) == Move(t, pos[t] + 1, cursor[t] + 1)

\* Ctrl+L.
Clear(t) ==
    /\ Becomes(t, On(Blank, Home), Home)
    /\ CursorTo(t, 0)
    /\ UNCHANGED <<line, pos>>

-----------------------------------------------------------------------------
Next ==
    \E t \in Ter :
        \/ \E c \in Char \cup {NL} : Write(t, c)
        \/ Message(t, <<NL>>)
        \/ \E c \in Char : Message(t, <<c, NL>>) \/ Restart(t, <<c, NL>>)
        \/ \E i \in Cell, c \in Char : Draw(t, i, c)
        \/ NewLine(t) \/ Entered(t)
        \/ \E c \in Char : Insert(t, c)
        \/ Erase(t) \/ Left(t) \/ Right(t) \/ Clear(t)

Spec == Init /\ [][Next]_vars
=============================================================================
