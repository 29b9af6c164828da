------------------------------- MODULE Display -------------------------------
(***************************************************************************)
(* Several terminals on one screen: video memory and its backing pages,    *)
(* the printing position, the cursors, and everything that prints.         *)
(*                                                                         *)
(* The kernel prints through one virtual page, behind which is the screen  *)
(* or the backing page of the terminal whose process has the CPU           *)
(* (video_map); programs that called vidmap draw through another one       *)
(* (user_map).  screen_x and screen_y belong to the running process, those *)
(* of the other terminals' processes are in screen_x_buf and screen_y_buf. *)
(* The cursor of the display is in VGA registers, the others in pos_buf.   *)
(* Keys act on the terminal on display, from inside whatever process the   *)
(* interrupt met, and must borrow all of this.                             *)
(*                                                                         *)
(* Every operation here is one step. They run with interrupts off, except  *)
(* that terminal_read prints its newline with interrupts on: a key in the  *)
(* middle of it is taken to come before or after. What processes there are *)
(* is the subject of Process; here each terminal has one in the            *)
(* foreground. How a line is read step by step is the subject of           *)
(* LineDiscipline; here a read opens a line in one step, and returns in    *)
(* another. Printing at a cursor outside the screen would be a store       *)
(* outside video memory, where the kernel's behaviour ends; here it shows  *)
(* nothing. PRINT_MAX bounds how often a behaviour prints.                 *)
(***************************************************************************)
EXTENDS Screen

CONSTANTS
    TER_NUM,               \* keyboard.h: number of terminals (3)
    KEYBOARD_BUFFER_SIZE,  \* keyboard.h: bytes of a line (128)
    Drawing,               \* terminals whose programs have called vidmap
    PRINT_MAX              \* bound on the model

Ter == 0 .. TER_NUM - 1
SCREEN == TER_NUM          \* the page on display; page t is terminal t's
Page == Ter \cup {SCREEN}
UINT16 == 65536

\* A whole line fits on the screen with its prompt, and a cursor in its
\* registers.
ASSUME DisplayAssumption ==
    /\ TER_NUM \in Nat \ {0} /\ Drawing \subseteq Ter /\ PRINT_MAX \in Nat
    /\ KEYBOARD_BUFFER_SIZE \in Nat /\ KEYBOARD_BUFFER_SIZE >= 2
    /\ KEYBOARD_BUFFER_SIZE <= NUM_COLS * LAST_ROW + 1
    /\ NUM_COLS * NUM_ROWS <= UINT16

VARIABLES
    page,         \* what the cells of each page hold
    video_map,    \* the page behind the kernel's video memory
    user_map,     \* the page behind the programs' video memory
    active_ter,   \* the terminal on display (keyboard.c has it as cur_ter)
    process_ter,  \* the terminal of the process that has the CPU
    screen,       \* screen_x and screen_y
    screen_buf,   \* per terminal: screen_x_buf and screen_y_buf
    cursor,       \* the cursor location registers
    pos_buf,      \* per terminal: its cursor while it is not on display
    line,         \* per terminal: key_buffer, up to its first NUL
    buffer_pos,   \* per terminal: the cursor's position in its line
    buf_status,   \* per terminal: 1 while the line is edited
    reading,      \* per terminal: its program waits in terminal_read
    printed       \* how often something was printed

mapVars  == <<video_map, user_map>>
terVars  == <<active_ter, process_ter>>
lineVars == <<line, buffer_pos, buf_status>>
vars == <<page, mapVars, terVars, screen, screen_buf, cursor, pos_buf, lineVars,
          reading, printed>>

TypeOK ==
    /\ page \in [Page -> [Cell -> Shown]]
    /\ video_map \in Page /\ user_map \in Page
    /\ active_ter \in Ter /\ process_ter \in Ter
    /\ screen \in Position /\ screen_buf \in [Ter -> Position]
    /\ cursor \in 0 .. UINT16 - 1 /\ pos_buf \in [Ter -> 0 .. UINT16 - 1]
    /\ \A t \in Ter : /\ line[t] \in Seq(Char \cup {NL})
                      /\ Len(line[t]) <= KEYBOARD_BUFFER_SIZE
    /\ buffer_pos \in [Ter -> 0 .. KEYBOARD_BUFFER_SIZE - 1]
    /\ buf_status \in [Ter -> {0, 1}]
    /\ reading \in [Ter -> BOOLEAN]
    /\ printed \in 0 .. PRINT_MAX

\* The shell of terminal 0 has been started, on a cleared screen.
Init ==
    /\ page = [p \in Page |-> Blank]
    /\ video_map = SCREEN /\ user_map = SCREEN
    /\ active_ter = 0 /\ process_ter = 0
    /\ screen = Home /\ screen_buf = [t \in Ter |-> Home]
    /\ cursor = 0 /\ pos_buf = [t \in Ter |-> 0]
    /\ line = [t \in Ter |-> <<>>]
    /\ buffer_pos = [t \in Ter |-> 0]
    /\ buf_status = [t \in Ter |-> 0]
    /\ reading = [t \in Ter |-> FALSE]
    /\ printed = 0

-----------------------------------------------------------------------------
(***************************************************************************)
(* Slips one could make in the operators below.                            *)
(***************************************************************************)
CursorAtEnd(s, rest)  == CellOf(s)             \* for CursorBack
OneMore(t)            == Len(line[t]) < KEYBOARD_BUFFER_SIZE  \* for Room
LeftAnyhow(t)         == TRUE                  \* for LeftAllowed
OwnPosition(s)        == At(s)                 \* for RunnerPosition

-----------------------------------------------------------------------------
Word16(c) == c % UINT16

\* The page behind video memory while the process of t has the CPU.
MapOf(t) == IF t = active_ter THEN SCREEN ELSE t

Prints == printed < PRINT_MAX /\ printed' = printed + 1

(***************************************************************************)
(* The process that has the CPU.                                           *)
(***************************************************************************)
Here == On(page[video_map], screen)

\* The kernel has printed s for the running process.
Printed(s) ==
    /\ Prints
    /\ page' = [page EXCEPT ![video_map] = s.text]
    /\ screen' = At(s)

\* update_cursor_ter.
update_cursor_ter(pos) ==
    /\ pos_buf' = [pos_buf EXCEPT ![process_ter] = pos]
    /\ cursor' = IF process_ter = active_ter THEN pos ELSE cursor

\* terminal_write, for one character; more of them are as many writes.
Write(c) ==
    LET s == putc(Here, c) IN
    /\ ~reading[process_ter]
    /\ Printed(s)
    /\ update_cursor_ter(CellOf(s))
    /\ UNCHANGED <<mapVars, terVars, screen_buf, lineVars, reading>>

\* A message of the kernel about the running process, such as an exception.
Message(string) ==
    /\ ~reading[process_ter]
    /\ Printed(puts(Here, string))
    /\ UNCHANGED <<mapVars, terVars, screen_buf, cursor, pos_buf, lineVars, reading>>

\* A store into the page that vidmap has given to the program.
Draw(i, c) ==
    /\ process_ter \in Drawing /\ ~reading[process_ter]
    /\ Prints
    /\ page' = [page EXCEPT ![user_map][i] = c]
    /\ UNCHANGED <<mapVars, terVars, screen, screen_buf, cursor, pos_buf,
                   lineVars, reading>>

\* sys_halt of a root shell: clear, which moves the cursor of the display, and
\* a message.
Restart(string) ==
    /\ ~reading[process_ter]
    /\ Printed(puts(On(Blank, Home), string))
    /\ cursor' = 0
    /\ UNCHANGED <<mapVars, terVars, screen_buf, pos_buf, lineVars, reading>>

\* terminal_read is called: a line being edited is continued.
ReadCall ==
    LET t == process_ter IN
    /\ ~reading[t]
    /\ reading' = [reading EXCEPT ![t] = TRUE]
    /\ \/ buf_status[t] = 1 /\ UNCHANGED lineVars
       \/ /\ buf_status[t] # 1
          /\ line' = [line EXCEPT ![t] = <<>>]
          /\ buffer_pos' = [buffer_pos EXCEPT ![t] = 0]
          /\ buf_status' = [buf_status EXCEPT ![t] = 1]
    /\ UNCHANGED <<page, mapVars, terVars, screen, screen_buf, cursor, pos_buf,
                   printed>>

\* terminal_read has seen the end of the line and prints a newline.
ReadReturn ==
    /\ reading[process_ter] /\ buf_status[process_ter] # 1
    /\ reading' = [reading EXCEPT ![process_ter] = FALSE]
    /\ Printed(puts(Here, <<NL>>))
    /\ UNCHANGED <<mapVars, terVars, screen_buf, cursor, pos_buf, lineVars>>

\* switch_process, as far as the display is concerned.
Slice(t) ==
    /\ process_ter' = t
    /\ video_map' = MapOf(t) /\ user_map' = MapOf(t)
    /\ screen_buf' = [screen_buf EXCEPT ![process_ter] = screen]
    /\ screen' = screen_buf'[t]
    /\ UNCHANGED <<page, active_ter, cursor, pos_buf, lineVars, reading, printed>>

Running ==
    \/ \E c \in Char \cup {NL} : Write(c)
    \/ \E c \in Char : Message(<<c, NL>>)
    \/ \E i \in Cell, c \in Char : Draw(i, c)
    \/ ReadCall \/ ReadReturn
    \/ \E t \in Ter : Slice(t)

-----------------------------------------------------------------------------
(***************************************************************************)
(* Keys.  While they print for the display, the process of a hidden        *)
(* terminal may have the CPU.                                              *)
(***************************************************************************)
Hidden == process_ter # active_ter
KeyPage == IF Hidden THEN SCREEN ELSE video_map

RunnerPosition(s) == IF Hidden THEN screen ELSE At(s)

\* The page and the position behind printing are borrowed and given back: a
\* hidden process goes on where it was, and what was printed leaves no trace
\* in the position of the terminal on display.
Borrowed(s) ==
    /\ Prints
    /\ page' = [page EXCEPT ![KeyPage] = s.text]
    /\ screen' = RunnerPosition(s)
    /\ video_map' = IF Hidden THEN process_ter ELSE video_map
    /\ screen_buf' =
          IF Hidden THEN [screen_buf EXCEPT ![process_ter] = screen] ELSE screen_buf

\* Where the cursor goes when rest was printed behind it.
CursorBack(s, rest) == CellOf(s) - Len(rest)

\* The text behind position p of the line of t.
Rest(t, p) == SubSeq(line[t], p + 1, Len(line[t]))

\* buf_check_full.
Room(t) == Len(line[t]) < KEYBOARD_BUFFER_SIZE - 1

\* add_at_cursor, where buf_check_full allows it.
add_at_cursor(c) ==
    LET t == active_ter
        open == buf_status[t] = 1
        rest == IF open THEN Rest(t, buffer_pos[t]) ELSE <<>>
        s == puts(On(page[KeyPage], PositionOf(cursor)), <<c>> \o rest)
    IN  /\ Room(t)
        /\ Borrowed(s)
        /\ cursor' = Word16(CursorBack(s, rest))
        /\ line' = [line EXCEPT ![t] =
                       IF open THEN InsertAt(@, buffer_pos[t] + 1, c) ELSE <<c>>]
        /\ buffer_pos' = [buffer_pos EXCEPT ![t] = IF open THEN @ + 1 ELSE 1]
        /\ buf_status' = [buf_status EXCEPT ![t] = 1]
        /\ UNCHANGED <<user_map, terVars, pos_buf, reading>>

KeyBackspaceAllowed ==
    line[active_ter] # <<>> /\ buf_status[active_ter] = 1

\* delete_bf_cursor: the rest of the line is printed one cell further left, and
\* a space behind it.
delete_bf_cursor ==
    LET t == active_ter
        before == Word16(cursor - 1)
        rest == Rest(t, buffer_pos[t])
        s == puts(On(page[KeyPage], PositionOf(before)), rest \o <<SPACE>>)
    IN  /\ KeyBackspaceAllowed /\ buffer_pos[t] # 0
        /\ Borrowed(s)
        /\ cursor' = before
        /\ line' = [line EXCEPT ![t] = RemoveAt(@, buffer_pos[t])]
        /\ buffer_pos' = [buffer_pos EXCEPT ![t] = @ - 1]
        /\ UNCHANGED <<user_map, terVars, pos_buf, buf_status, reading>>

\* delete_bf_cursor at the start of a line: what was borrowed is not given
\* back.
DeleteNothing ==
    /\ KeyBackspaceAllowed /\ buffer_pos[active_ter] = 0
    /\ Hidden
    /\ video_map' = SCREEN
    /\ screen_buf' = [screen_buf EXCEPT ![process_ter] = screen]
    /\ screen' = screen_buf'[active_ter]
    /\ UNCHANGED <<page, user_map, terVars, cursor, pos_buf, lineVars, reading,
                   printed>>

LeftAllowed(t)  == buffer_pos[t] # 0
RightAllowed(t) == /\ buffer_pos[t] # KEYBOARD_BUFFER_SIZE - 2
                   /\ buffer_pos[t] < Len(line[t])

\* move_cursor, by one to the left or to the right.
move_cursor(by) ==
    LET t == active_ter
        c == Word16(cursor + by)
    IN  /\ IF by < 0 THEN LeftAllowed(t) ELSE RightAllowed(t)
        /\ buffer_pos' = [buffer_pos EXCEPT ![t] = @ + by]
        /\ cursor' = c
        /\ screen_buf' = [screen_buf EXCEPT ![t] = PositionOf(c)]
        /\ UNCHANGED <<page, mapVars, terVars, screen, pos_buf, line, buf_status,
                       reading, printed>>

KeyEnter ==
    /\ line' = [line EXCEPT ![active_ter] =
                   IF Len(@) < KEYBOARD_BUFFER_SIZE THEN Append(@, NL) ELSE @]
    /\ buf_status' = [buf_status EXCEPT ![active_ter] = 0]
    /\ UNCHANGED <<page, mapVars, terVars, screen, screen_buf, cursor, pos_buf,
                   buffer_pos, reading, printed>>

\* Ctrl+L: clear_terminal_scheduling, and the cursor set back.  The line stays
\* as it was.
KeyClear ==
    /\ Prints
    /\ page' = [page EXCEPT ![KeyPage] = Blank]
    /\ screen' = RunnerPosition(On(Blank, Home))
    /\ video_map' = IF Hidden THEN process_ter ELSE video_map
    /\ screen_buf' =
          IF Hidden THEN [screen_buf EXCEPT ![process_ter] = screen,
                                            ![active_ter] = Home]
          ELSE [screen_buf EXCEPT ![active_ter] = Home]
    /\ cursor' = 0
    /\ UNCHANGED <<user_map, terVars, pos_buf, lineVars, reading>>

\* Ctrl+C: a message, printed for the running process, and the foreground
\* program of the display is gone; its line stays as it was.
KeyHalt(string) ==
    /\ Printed(puts(Here, string))
    /\ reading' = [reading EXCEPT ![active_ter] = FALSE]
    /\ UNCHANGED <<mapVars, terVars, screen_buf, cursor, pos_buf, lineVars>>

\* The copy of the screen into the backing page of the terminal that leaves it.
SwitchedOut(p) == IF p = active_ter THEN page[SCREEN] ELSE page[p]

\* switch_video(ter), called for Alt+F1..F3.
switch_video(ter) ==
    /\ ter # active_ter
    /\ page' = [p \in Page |-> IF p = SCREEN THEN page[ter] ELSE SwitchedOut(p)]
    /\ pos_buf' = [pos_buf EXCEPT ![active_ter] = cursor]
    /\ cursor' = pos_buf[ter]
    /\ active_ter' = ter
    /\ video_map' = process_ter
    /\ UNCHANGED <<user_map, process_ter, screen, screen_buf, lineVars, reading,
                   printed>>

Key ==
    \/ \E c \in Char : add_at_cursor(c)
    \/ delete_bf_cursor \/ DeleteNothing
    \/ move_cursor(-1) \/ move_cursor(1)
    \/ KeyEnter \/ KeyClear
    \/ \E c \in Char : KeyHalt(<<c, NL>>)
    \/ \E ter \in Ter : switch_video(ter)

Next ==
    \/ Running
    \/ \E c \in Char : Restart(<<c, NL>>)
    \/ Key

Spec == Init /\ [][Next]_vars

\* No root shell exits.
UserSpec == Init /\ [][Running \/ Key]_vars

-----------------------------------------------------------------------------
(***************************************************************************)
(* The conditions under which the terminals are independent of each other. *)
(* Keys edit a line that a program waits for; the screen is cleared, and   *)
(* programs are interrupted, at an empty line; nothing is deleted at the   *)
(* start of a line from inside a hidden process; a terminal comes on       *)
(* display when its own process does not have the CPU, and does not leave  *)
(* it while its program draws; a root shell restarts on display.           *)
(***************************************************************************)
AtPrompt(t) == reading[t] /\ buf_status[t] = 1

OrderlyKey ==
    LET t == active_ter IN
    \/ /\ AtPrompt(t)
       /\ \/ \E c \in Char : add_at_cursor(c)
          \/ delete_bf_cursor
          \/ move_cursor(-1) \/ move_cursor(1)
          \/ KeyEnter
    \/ line[t] = <<>> /\ KeyClear
    \/ line[t] = <<>> /\ ~Hidden /\ \E c \in Char : KeyHalt(<<c, NL>>)
    \/ \E ter \in Ter :
          /\ process_ter # ter
          /\ process_ter \in Drawing => Hidden
          /\ switch_video(ter)

OrderlyNext ==
    \/ Running
    \/ ~Hidden /\ \E c \in Char : Restart(<<c, NL>>)
    \/ OrderlyKey

OrderlySpec == Init /\ [][OrderlyNext]_vars

-----------------------------------------------------------------------------
\* What the user would see at terminal t, were it on display.
TextOf(t)   == IF t = active_ter THEN page[SCREEN] ELSE page[t]
CursorOf(t) == IF t = active_ter THEN cursor ELSE pos_buf[t]
PlaceOf(t)  == IF t = process_ter THEN screen ELSE screen_buf[t]

\* No cursor leaves the screen: a key at a cursor outside makes the handler
\* print outside video memory (keyboard.c:327, :425, lib.c putc).
OnScreen == \A t \in Ter : CursorOf(t) \in Cell

\* A line that a program waits for is on its terminal's screen, ending where
\* the cursor and its position in the line say, whoever printed or scrolled in
\* between and whichever terminal was on display (keyboard.c:345-443).
LineVisible ==
    \A t \in Ter : AtPrompt(t) =>
        \A i \in 1 .. Len(line[t]) :
            LET cell == CursorOf(t) - buffer_pos[t] + i - 1
            IN  cell \in Cell /\ TextOf(t)[cell] = line[t][i]
=============================================================================
