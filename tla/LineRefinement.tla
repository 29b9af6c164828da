---------------------------- MODULE LineRefinement ----------------------------
(***************************************************************************)
(* The line buffers implement LineEditor, for a user who types when a      *)
(* program waits for it: the characters of a row are the line, buf_status  *)
(* and the place of the program in terminal_read are its state.            *)
(***************************************************************************)
EXTENDS LineDiscipline

State(t) ==
    CASE buf_status[t] = 1 -> "edit"
      [] buf_status[t] = 0 /\ pc[t] \in {"wait", "copy"} -> "entered"
      [] OTHER -> "idle"

\* The characters before the newline or the first free byte.
Characters(row) ==
    LET n == CHOOSE n \in 0 .. KEYBOARD_BUFFER_SIZE :
                 /\ \A i \in 0 .. n - 1 : row[i] \notin {NL, NUL}
                 /\ n \in Pos => row[n] \in {NL, NUL}
    IN  [i \in 1 .. n |-> row[i - 1]]

TextOf(t)   == IF State(t) = "idle" THEN <<>> ELSE Characters(key_buffer[t])
CursorOf(t) == IF State(t) = "idle" THEN 0 ELSE buffer_pos[t]

states  == [t \in Ter |-> State(t)]
texts   == [t \in Ter |-> TextOf(t)]
cursors == [t \in Ter |-> CursorOf(t)]

Editor == INSTANCE LineEditor WITH
    Terminals <- Ter,
    Typed <- {<<c>> : c \in Char} \cup {<<SPACE, SPACE, SPACE, SPACE>>},
    Newline <- NL,
    LineMax <- KEYBOARD_BUFFER_SIZE - 1,
    Wanted <- Lengths,
    state <- states, text <- texts, cursor <- cursors, out <- result

\* Programs are given the lines the user edited, whole or cut to the length
\* they asked for (keyboard_handler, terminal_read).
ImplementsLineEditor == Editor!Edits

\* A line once entered does not wait for ever: its program takes it, or is
\* halted (the loop of terminal_read on buf_status).
LinesTaken == Editor!Taken
=============================================================================
