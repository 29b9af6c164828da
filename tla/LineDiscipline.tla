---------------------------- MODULE LineDiscipline ----------------------------
(***************************************************************************)
(* The line buffers between the keyboard and the programs: the part of     *)
(* keyboard.c that edits key_buffer, and terminal_read.                    *)
(*                                                                         *)
(* A key press is handled with interrupts off, one atomic step.            *)
(* terminal_read runs with interrupts on until it copies the line, so keys *)
(* can come between any two of its accesses.  buf_status is 1 while a line *)
(* is edited and 0 from Enter on; a program that reads spins on it.        *)
(*                                                                         *)
(* The rows of key_buffer lie one after the other in memory: position      *)
(* KEYBOARD_BUFFER_SIZE of a terminal is position 0 of the next one.  What *)
(* lies behind the last row is not modelled: it is written without effect  *)
(* on the rest, and read as anything.                                      *)
(***************************************************************************)
EXTENDS Integers, Sequences

CONSTANTS
    TER_NUM,               \* keyboard.h: number of terminals (3)
    KEYBOARD_BUFFER_SIZE,  \* keyboard.h: bytes of a row (128)
    CURSOR_MAX,            \* bound on the model: furthest cursor position
    Char,                  \* characters of the keys that have one
    SPACE, NL, NUL,
    Lengths,               \* sizes of the buffers programs read into
    Readers                \* terminals whose programs read, bound on the model

Ter == 0 .. TER_NUM - 1
Pos == 0 .. KEYBOARD_BUFFER_SIZE - 1
Byte == Char \cup {SPACE, NL, NUL}

ASSUME LineAssumption ==
    /\ TER_NUM \in Nat \ {0}
    /\ KEYBOARD_BUFFER_SIZE \in Nat /\ KEYBOARD_BUFFER_SIZE >= 2
    /\ CURSOR_MAX \in Nat /\ CURSOR_MAX >= KEYBOARD_BUFFER_SIZE
    /\ NUL # NL /\ SPACE \notin {NL, NUL} /\ Char \cap {NL, NUL} = {}
    /\ Lengths \subseteq Nat
    /\ Readers \subseteq Ter

VARIABLES
    key_buffer,  \* per terminal: a row of bytes
    buffer_pos,  \* per terminal: the cursor's position in its row
    buf_status,  \* per terminal: 1 while the line is edited
    cur_ter,     \* the terminal on display
    pc,          \* per terminal: where its program is in terminal_read
    wiped,       \* per terminal: bytes terminal_read has cleared so far
    result,      \* per terminal: what the last terminal_read returned
    entered      \* history: Enter was pressed since terminal_read was called

keyVars  == <<key_buffer, buffer_pos, buf_status>>
readVars == <<pc, wiped, result>>
vars     == <<keyVars, cur_ter, readVars, entered>>

\* "user": in the program; "reset", "wipe": in key_buf_clear; "mark": before
\* buf_status is set; "wait": in the loop; "copy": past it.
Place == {"user", "reset", "wipe", "mark", "wait", "copy"}

TypeOK ==
    /\ key_buffer \in [Ter -> [Pos -> Byte]]
    /\ buffer_pos \in [Ter -> 0 .. CURSOR_MAX]
    /\ buf_status \in [Ter -> {0, 1}]
    /\ cur_ter \in Ter
    /\ pc \in [Ter -> Place]
    /\ wiped \in [Ter -> Pos]
    /\ \A t \in Ter :
          result[t] \in Seq(Byte) /\ Len(result[t]) <= KEYBOARD_BUFFER_SIZE
    /\ entered \in [Ter -> BOOLEAN]

EmptyRow == [i \in Pos |-> NUL]

\* keyboard_init.
Init ==
    /\ key_buffer = [t \in Ter |-> EmptyRow]
    /\ buffer_pos = [t \in Ter |-> 0]
    /\ buf_status = [t \in Ter |-> 0]
    /\ cur_ter = 0
    /\ pc = [t \in Ter |-> "user"]
    /\ wiped = [t \in Ter |-> 0]
    /\ result = [t \in Ter |-> <<>>]
    /\ entered = [t \in Ter |-> FALSE]

-----------------------------------------------------------------------------
(***************************************************************************)
(* Slips one could make in the operators below.                            *)
(***************************************************************************)
Overwritten(row, p, c) == [row EXCEPT ![p] = c]        \* for Inserted
Blanked(row, p)        == [row EXCEPT ![p] = NUL]      \* for Deleted
NoNewline(row)         == row                          \* for WithNewline
NeverFull(t)           == FALSE                        \* for Full
OnePastLast(t)         == wiped[t] = KEYBOARD_BUFFER_SIZE  \* for LastByte
StatusKept(t)          == buf_status                   \* for Marked
OnDisplay(t)           == buf_status[t] # 1 /\ t = cur_ter  \* for LineReady

-----------------------------------------------------------------------------
(***************************************************************************)
(* Rows.                                                                   *)
(***************************************************************************)

\* The loop of add_at_cursor: c goes to p, and what was there moves up as far
\* as the first free byte; the last byte of a row without one is lost.
Inserted(row, p, c) ==
    [i \in Pos |-> IF i = p THEN c
                   ELSE IF i > p /\ \A j \in p .. i - 1 : row[j] # NUL
                        THEN row[i - 1] ELSE row[i]]

\* The loop of delete_bf_cursor: everything behind p moves down, as far as the
\* first free byte; the last byte of a row stays.
Deleted(row, p) ==
    [i \in Pos |-> IF /\ p <= i /\ i < KEYBOARD_BUFFER_SIZE - 1
                      /\ \A j \in p + 1 .. i : row[j] # NUL
                   THEN row[i + 1] ELSE row[i]]

\* Enter puts a newline into the first free byte, if there is one.
WithNewline(row) ==
    [i \in Pos |-> IF row[i] = NUL /\ \A j \in 0 .. i - 1 : row[j] # NUL
                   THEN NL ELSE row[i]]

\* Where position p of terminal t is.
RowOf(t, p) == t + p \div KEYBOARD_BUFFER_SIZE
InArray(t, p) == RowOf(t, p) \in Ter
Cell(t, p) == key_buffer[RowOf(t, p)][p % KEYBOARD_BUFFER_SIZE]

\* buf_check_full: the last byte is kept for Enter.
Full(t) == key_buffer[t][KEYBOARD_BUFFER_SIZE - 2] # NUL

\* buf_check_empty.
Empty(t) == key_buffer[t][0] = NUL

-----------------------------------------------------------------------------
(***************************************************************************)
(* Key presses.                                                            *)
(***************************************************************************)

\* Behind the row of t, c goes to a free byte of another terminal's row.
Spilled(buf, t, p, c) ==
    LET row == RowOf(t, p)
        q == p % KEYBOARD_BUFFER_SIZE
    IN  IF InArray(t, p) /\ buf[row][q] = NUL
        THEN [buf EXCEPT ![row][q] = c] ELSE buf

\* add_at_cursor(c) on terminal t, as a function of the buffers: s.buf and
\* s.pos are those of all terminals, once a line is open on t.
Added(s, t, c) ==
    LET p == s.pos[t] IN
    [buf |-> IF p < KEYBOARD_BUFFER_SIZE
             THEN [s.buf EXCEPT ![t] = Inserted(@, p, c)]
             ELSE Spilled(s.buf, t, p, c),
     pos |-> [s.pos EXCEPT ![t] = p + 1]]

\* The buffers with a line open on t: the one being edited, or a new one that
\* replaces a line already entered.
Opened(t) ==
    IF buf_status[t] = 1 THEN [buf |-> key_buffer, pos |-> buffer_pos]
    ELSE [buf |-> [key_buffer EXCEPT ![t] = EmptyRow],
          pos |-> [buffer_pos EXCEPT ![t] = 0]]

Buffers(s) == key_buffer' = s.buf /\ buffer_pos' = s.pos

\* A key with character c; the few keys the key map has no character for, such
\* as Escape, add a NUL.
KeyChar(c) ==
    /\ ~Full(cur_ter)
    /\ buffer_pos[cur_ter] < CURSOR_MAX
    /\ Buffers(Added(Opened(cur_ter), cur_ter, c))
    /\ buf_status' = [buf_status EXCEPT ![cur_ter] = 1]
    /\ UNCHANGED <<cur_ter, readVars, entered>>

\* Tab adds four spaces, having asked once whether the row is full.
KeyTab ==
    LET Space(s) == Added(s, cur_ter, SPACE) IN
    /\ ~Full(cur_ter)
    /\ buffer_pos[cur_ter] + 4 <= CURSOR_MAX
    /\ Buffers(Space(Space(Space(Space(Opened(cur_ter))))))
    /\ buf_status' = [buf_status EXCEPT ![cur_ter] = 1]
    /\ UNCHANGED <<cur_ter, readVars, entered>>

KeyEnter ==
    /\ key_buffer' = [key_buffer EXCEPT ![cur_ter] = WithNewline(@)]
    /\ buf_status' = [buf_status EXCEPT ![cur_ter] = 0]
    /\ entered' = [entered EXCEPT ![cur_ter] = TRUE]
    /\ UNCHANGED <<buffer_pos, cur_ter, readVars>>

KeyBackspace ==
    LET p == buffer_pos[cur_ter] - 1 IN
    /\ ~Empty(cur_ter) /\ buf_status[cur_ter] = 1
    /\ buffer_pos[cur_ter] # 0
    /\ key_buffer' = [key_buffer EXCEPT ![cur_ter] = Deleted(@, p)]
    /\ buffer_pos' = [buffer_pos EXCEPT ![cur_ter] = p]
    /\ UNCHANGED <<buf_status, cur_ter, readVars, entered>>

KeyLeft ==
    /\ buffer_pos[cur_ter] # 0
    /\ buffer_pos' = [buffer_pos EXCEPT ![cur_ter] = @ - 1]
    /\ UNCHANGED <<key_buffer, buf_status, cur_ter, readVars, entered>>

KeyRight ==
    LET p == buffer_pos[cur_ter] IN
    /\ p # KEYBOARD_BUFFER_SIZE - 2
    /\ p < CURSOR_MAX
    /\ InArray(cur_ter, p) => Cell(cur_ter, p) # NUL
    /\ buffer_pos' = [buffer_pos EXCEPT ![cur_ter] = p + 1]
    /\ UNCHANGED <<key_buffer, buf_status, cur_ter, readVars, entered>>

\* Alt+F1..F3.
KeyTerminal(t) ==
    /\ t # cur_ter
    /\ cur_ter' = t
    /\ UNCHANGED <<keyVars, readVars, entered>>

-----------------------------------------------------------------------------
(***************************************************************************)
(* terminal_read, by the foreground program of terminal t.                 *)
(***************************************************************************)
GoTo(t, from, to) == pc[t] = from /\ pc' = [pc EXCEPT ![t] = to]

\* The test of buf_status: a line being edited is continued.
ReadCall(t) ==
    /\ \/ buf_status[t] = 1 /\ GoTo(t, "user", "wait")
       \/ buf_status[t] # 1 /\ GoTo(t, "user", "reset")
    /\ entered' = [entered EXCEPT ![t] = FALSE]
    /\ UNCHANGED <<keyVars, cur_ter, wiped, result>>

\* key_buf_clear: first the cursor, then byte after byte.
ReadReset(t) ==
    /\ GoTo(t, "reset", "wipe")
    /\ buffer_pos' = [buffer_pos EXCEPT ![t] = 0]
    /\ UNCHANGED <<key_buffer, buf_status, cur_ter, wiped, result, entered>>

LastByte(t) == wiped[t] = KEYBOARD_BUFFER_SIZE - 1

ReadWipe(t) ==
    /\ key_buffer' = [key_buffer EXCEPT ![t][wiped[t]] = NUL]
    /\ \/ /\ ~LastByte(t)
          /\ GoTo(t, "wipe", "wipe")
          /\ wiped' = [wiped EXCEPT ![t] = @ + 1]
       \/ /\ LastByte(t)
          /\ GoTo(t, "wipe", "mark")
          /\ wiped' = [wiped EXCEPT ![t] = 0]
    /\ UNCHANGED <<buffer_pos, buf_status, cur_ter, result, entered>>

Marked(t) == [buf_status EXCEPT ![t] = 1]

ReadMark(t) ==
    /\ GoTo(t, "mark", "wait")
    /\ buf_status' = Marked(t)
    /\ UNCHANGED <<key_buffer, buffer_pos, cur_ter, wiped, result, entered>>

\* The loop ends.  Interrupts stay on for another moment.
LineReady(t) == buf_status[t] # 1

ReadLeave(t) ==
    /\ LineReady(t)
    /\ GoTo(t, "wait", "copy")
    /\ UNCHANGED <<keyVars, cur_ter, wiped, result, entered>>

\* The bytes of a row before its first NUL.
Count(row) ==
    CHOOSE n \in 0 .. KEYBOARD_BUFFER_SIZE :
        /\ \A i \in 0 .. n - 1 : row[i] # NUL
        /\ n \in Pos => row[n] = NUL

\* What the program has got when it asked for length bytes: when that many
\* were there, the last one is replaced by a newline. (When it asked for none,
\* the byte before its buffer is; the program's memory is no part of this.)
Copied(row, length) ==
    [i \in 1 .. (IF length <= Count(row) THEN length ELSE Count(row)) |->
        IF i = length THEN NL ELSE row[i - 1]]

\* The copy, with interrupts off, and the return.
ReadCopy(t) ==
    /\ GoTo(t, "copy", "user")
    /\ \E length \in Lengths :
          result' = [result EXCEPT ![t] = Copied(key_buffer[t], length)]
    /\ UNCHANGED <<keyVars, cur_ter, wiped, entered>>

\* The program is halted (Ctrl+C) while it reads; another one takes its place.
Halted(t) ==
    /\ pc[t] # "user"
    /\ pc' = [pc EXCEPT ![t] = "user"]
    /\ wiped' = [wiped EXCEPT ![t] = 0]
    /\ UNCHANGED <<keyVars, cur_ter, result, entered>>

Reading(t) ==
    \/ ReadCall(t) \/ ReadReset(t) \/ ReadWipe(t) \/ ReadMark(t)
    \/ ReadLeave(t) \/ ReadCopy(t) \/ Halted(t)

-----------------------------------------------------------------------------
\* Keys that add or remove at most one character.
PlainKey ==
    \/ \E c \in Char : KeyChar(c)
    \/ KeyEnter \/ KeyBackspace \/ KeyLeft \/ KeyRight

OtherKey == KeyTab \/ KeyChar(NUL)

Next ==
    \/ PlainKey
    \/ OtherKey
    \/ \E t \in Ter : KeyTerminal(t)
    \/ \E t \in Readers : Reading(t)

Spec == Init /\ [][Next]_vars

\* Keys with one character only, at any time.
PlainNext ==
    \/ PlainKey
    \/ \E t \in Ter : KeyTerminal(t)
    \/ \E t \in Readers : Reading(t)

PlainSpec == Init /\ [][PlainNext]_vars

\* The user types while a program waits for it, and uses Tab where four spaces
\* fit.
Prompted == pc[cur_ter] = "wait" /\ buf_status[cur_ter] = 1
TabFits ==
    /\ KEYBOARD_BUFFER_SIZE >= 5
    /\ key_buffer[cur_ter][KEYBOARD_BUFFER_SIZE - 5] = NUL

OrderlyNext ==
    \/ Prompted /\ PlainKey
    \/ Prompted /\ TabFits /\ KeyTab
    \/ \E t \in Ter : KeyTerminal(t)
    \/ \E t \in Readers : Reading(t)

OrderlySpec == Init /\ [][OrderlyNext]_vars

\* The terminal's time slices come again and again, so a program that spins
\* or copies goes on.
FairOrderlySpec ==
    /\ OrderlySpec
    /\ \A t \in Ter : WF_vars(ReadLeave(t)) /\ WF_vars(ReadCopy(t))

-----------------------------------------------------------------------------
\* terminal_read returns only after Enter, pressed since it was called; a line
\* entered before is never taken for an answer (keyboard_handler sets the
\* status that terminal_read has set itself in several steps).
ReadNeedsEnter == \A t \in Ter : pc[t] = "copy" => entered[t]

\* Characters, then free bytes; the cursor within or right behind the
\* characters; the last byte free for Enter.
EditedRow(t) ==
    \E n \in 0 .. KEYBOARD_BUFFER_SIZE - 1 :
        /\ \A i \in Pos : IF i < n THEN key_buffer[t][i] \notin {NL, NUL}
                          ELSE key_buffer[t][i] = NUL
        /\ buffer_pos[t] \in 0 .. n

\* A line being edited has no gaps and room for its newline, whatever was
\* inserted and deleted wherever the cursor was (add_at_cursor,
\* delete_bf_cursor, move_cursor).
LineShape == \A t \in Ter : buf_status[t] = 1 => EditedRow(t)

\* What a program is about to copy is a whole line: characters, one newline,
\* free bytes.
WholeLine ==
    \A t \in Ter : pc[t] = "copy" =>
        \E n \in Pos : \A i \in Pos :
            IF i < n THEN key_buffer[t][i] \notin {NL, NUL}
            ELSE key_buffer[t][i] = IF i = n THEN NL ELSE NUL

\* A key changes the line of the terminal on display and of no other one,
\* although the rows of key_buffer touch each other.
KeysStayOnDisplay ==
    [][readVars' = readVars =>
          \A t \in Ter \ {cur_ter} :
              /\ key_buffer'[t] = key_buffer[t]
              /\ buffer_pos'[t] = buffer_pos[t]
              /\ buf_status'[t] = buf_status[t]]_vars

-----------------------------------------------------------------------------
(***************************************************************************)
(* A property the repository claims and the code does not have (see the    *)
(* findings in README.md).                                                 *)
(***************************************************************************)

\* terminal_read returns what was typed up to Enter: the line it is about to
\* copy still has its newline (terminal_driver.c:185-229).
LineEntered ==
    \A t \in Ter : pc[t] = "copy" => \E i \in Pos : key_buffer[t][i] = NL
=============================================================================
