------------------------------ MODULE LineEditor ------------------------------
(***************************************************************************)
(* What a terminal promises the program that reads from it: the user edits *)
(* one line, with a cursor, and on Enter the program is given that line,   *)
(* or its beginning when it asked for less.  Nothing is said of buffers.   *)
(***************************************************************************)
EXTENDS Naturals, Sequences

CONSTANTS
    Terminals,
    Typed,      \* what one key can insert: a set of sequences of characters
    Newline,
    LineMax,    \* characters a line can have, the newline not counted
    Wanted      \* numbers of characters a program asks for

VARIABLES
    state,   \* per terminal: "idle", "edit" or "entered"
    text,    \* per terminal: the line being edited or entered
    cursor,  \* per terminal: how many characters are left of the cursor
    out      \* per terminal: what the last read returned

editorVars == <<state, text, cursor, out>>

EditorInit ==
    /\ state = [t \in Terminals |-> "idle"]
    /\ text = [t \in Terminals |-> <<>>]
    /\ cursor = [t \in Terminals |-> 0]
    /\ out = [t \in Terminals |-> <<>>]

\* A read finds no line being edited and starts one.
StartLine(t) ==
    /\ state[t] = "idle"
    /\ state' = [state EXCEPT ![t] = "edit"]
    /\ UNCHANGED <<text, cursor, out>>

Left(t)  == SubSeq(text[t], 1, cursor[t])
Right(t) == SubSeq(text[t], cursor[t] + 1, Len(text[t]))

Insert(t) ==
    /\ state[t] = "edit"
    /\ \E s \in Typed :
          /\ Len(text[t]) + Len(s) <= LineMax
          /\ text' = [text EXCEPT ![t] = Left(t) \o s \o Right(t)]
          /\ cursor' = [cursor EXCEPT ![t] = @ + Len(s)]
    /\ UNCHANGED <<state, out>>

\* The character left of the cursor goes.
Delete(t) ==
    /\ state[t] = "edit" /\ cursor[t] > 0
    /\ text' = [text EXCEPT ![t] = SubSeq(Left(t), 1, cursor[t] - 1) \o Right(t)]
    /\ cursor' = [cursor EXCEPT ![t] = @ - 1]
    /\ UNCHANGED <<state, out>>

Move(t) ==
    /\ state[t] = "edit"
    /\ \E c \in {cursor[t] - 1, cursor[t] + 1} \cap (0 .. Len(text[t])) :
          cursor' = [cursor EXCEPT ![t] = c]
    /\ UNCHANGED <<state, text, out>>

Enter(t) ==
    /\ state[t] = "edit"
    /\ state' = [state EXCEPT ![t] = "entered"]
    /\ UNCHANGED <<text, cursor, out>>

Forget(t) ==
    /\ state[t] = "entered"
    /\ state' = [state EXCEPT ![t] = "idle"]
    /\ text' = [text EXCEPT ![t] = <<>>]
    /\ cursor' = [cursor EXCEPT ![t] = 0]

\* What a program that asks for n characters gets of line s.
Cut(s, n) == CASE n = 0 -> <<>>
               [] n > Len(s) -> Append(s, Newline)
               [] OTHER -> Append(SubSeq(s, 1, n - 1), Newline)

Return(t) ==
    /\ Forget(t)
    /\ \E n \in Wanted : out' = [out EXCEPT ![t] = Cut(text[t], n)]

\* The program was halted before it took the line.
Drop(t) == Forget(t) /\ UNCHANGED out

EditorNext ==
    \E t \in Terminals :
        \/ StartLine(t) \/ Insert(t) \/ Delete(t) \/ Move(t) \/ Enter(t)
        \/ Return(t) \/ Drop(t)

Edits == EditorInit /\ [][EditorNext]_editorVars

\* An entered line is taken.
Taken == \A t \in Terminals : WF_editorVars(Return(t) \/ Drop(t))

EditorSpec == Edits /\ Taken
=============================================================================
