--------------------------------- MODULE Grep ---------------------------------
(***************************************************************************)
(* do_one_file of ece391grep.c: the search of a file for a string, with a  *)
(* buffer of BUFSIZE bytes that is filled, searched line by line, and      *)
(* whose unfinished last line is moved to the front before the next read.  *)
(*                                                                         *)
(* Texts have no NULs.  The byte behind the buffer's contents is read      *)
(* before it is ever written: stack is what the array holds at first.      *)
(***************************************************************************)
EXTENDS Library

CONSTANT BUFSIZE  \* ece391grep.c: 1024

ASSUME GrepAssumption == BUFSIZE \in Nat \ {0}

\* A slip one could make: the moved line is not accounted for.
LastKept(st) == st.last                            \* for LastAfterMove

-----------------------------------------------------------------------------
\* The end of the line that begins at start: its newline, or last.
LineEnd(data, start, last) ==
    Min({last} \cup {i \in start .. last - 1 : data[i] = NL})

\* ece391_strncmp(data + check, s, Len(s)) = 0, for data that ends at end.
FoundAt(data, check, end, s) ==
    /\ check + Len(s) <= end
    /\ \A i \in 1 .. Len(s) : data[check + i - 1] = s[i]

LastAfterMove(st) == st.last - st.line_start

\* ece391_strcpy(data, data + from), for a string that ends at end.
CopiedDown(data, from, end) ==
    [i \in DOMAIN data |-> IF i <= end - from THEN data[from + i] ELSE data[i]]

\* The unfinished line moves to the front of the buffer.
MoveDown(st) ==
    [st EXCEPT !.data = CopiedDown([@ EXCEPT ![st.last] = NUL], st.line_start, st.last),
               !.last = LastAfterMove(st)]

\* One line is searched and, if s occurs in it, printed.
Search(st, end, s) ==
    LET line == [i \in 1 .. end - st.line_start |-> st.data[st.line_start + i - 1]]
        found == \E check \in st.line_start .. end - 1 : FoundAt(st.data, check, end, s)
    IN  [st EXCEPT !.data[end] = NUL,
                   !.out = IF found THEN Append(@, line) ELSE @,
                   !.line_start = end + 1]

\* The lines in the buffer.
RECURSIVE Lines(_, _)
Lines(st, s) ==
    LET end == LineEnd(st.data, st.line_start, st.last)
        searched == Search(st, end, s)
    IN  IF st.data[end] # NL /\ st.cnt # 0 /\ st.line_start # 0 THEN MoveDown(st)
        ELSE IF searched.line_start >= st.last THEN [searched EXCEPT !.last = 0]
        ELSE Lines(searched, s)

\* ece391_read of what fits, at offset of the text.
Filled(st, text) ==
    LET room == BUFSIZE - st.last
        cnt == IF st.offset + room > Len(text) THEN Len(text) - st.offset ELSE room
    IN  [st EXCEPT
            !.data = [i \in DOMAIN @ |-> IF i \in st.last .. st.last + cnt - 1
                                         THEN text[st.offset + i - st.last + 1]
                                         ELSE @[i]],
            !.last = @ + cnt, !.offset = @ + cnt, !.cnt = cnt, !.line_start = 0]

RECURSIVE Rounds(_, _, _)
Rounds(st, s, text) ==
    LET done == Lines(Filled(st, text), s) IN
    IF done.cnt = 0 THEN done ELSE Rounds(done, s, text)

\* The lines that grep prints of a file with this text, in an array that holds
\* stack[0 .. BUFSIZE] when the function is called.
do_one_file(s, text, stack) ==
    Rounds([data |-> stack, last |-> 0, offset |-> 0, cnt |-> 0, line_start |-> 0,
            out |-> <<>>], s, text).out
=============================================================================
