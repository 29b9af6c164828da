----------------------------- MODULE MCFileSystem -----------------------------
(***************************************************************************)
(* A small file system image: the clock, the directory, and an executable  *)
(* whose name fills its entry and begins with the clock's, of two blocks   *)
(* and a half that are not in order.  Beside the processes that use it,    *)
(* one call of a pure function of the kernel or of a program, for every    *)
(* input of a bounded set, is compared with what it should return; and the *)
(* blinkers of fish, and the interrupt controllers, run on their own.      *)
(***************************************************************************)
EXTENDS PureCalls, Grep, Fish, Frames, Pic, Bags, TLC

Entry(name, filetype, i) ==
    [filename |-> name, filetype |-> filetype, inode_num |-> i]

MCDentries == <<
    Entry(<<"a">>,      RTC_TYPE,  0),
    Entry(<<".">>,      DIR_TYPE,  0),
    Entry(<<"a", "b">>, FILE_TYPE, 1)>>

MCInodes == (0 :> [length |-> 0, data_block_num |-> <<>>])
         @@ (1 :> [length |-> 5, data_block_num |-> <<1, 3, 0>>])

MCBlocks == (0 :> <<"a", "x">>) @@ (1 :> <<"E", "L">>) @@ (3 :> <<"F", "b">>)

\* The last one is off the screen.
MCBlinkers == {
    [location |-> 1, on_char |-> "a", off_char |-> "b", on_length |-> 1, off_length |-> 2],
    [location |-> 2, on_char |-> "x", off_char |-> SPACE, on_length |-> 2, off_length |-> 0],
    [location |-> 3, on_char |-> "E", off_char |-> "L", on_length |-> 1, off_length |-> 1],
    [location |-> 4, on_char |-> "a", off_char |-> "b", on_length |-> 1, off_length |-> 1]}

MCStacks == {<<"x", "x", "x", "x">>, <<"E", "x", "x", "x">>}

MCElf == <<"E", "L", "F", "b">>
MCDir == <<".">>

-----------------------------------------------------------------------------
(***************************************************************************)
(* The calls.                                                              *)
(***************************************************************************)
CONSTANTS
    TEXT_MAX,  \* bytes of a text
    FRAME_MAX  \* bytes of a frame of fish

Texts == [of : {"grep"}, s : {<<"a">>, <<"a", "b">>},
          text : BoundedSeq({"a", "b", NL}, TEXT_MAX)]
Frames == [of : {"frames"}, f0 : BoundedSeq({"a", SPACE, NL}, FRAME_MAX),
           f1 : BoundedSeq({"b", SPACE, NL}, FRAME_MAX)]

Fishes == [of : {"fish"}]
Interrupts == [of : {"interrupts"}]

Calls == KernelCalls \cup Texts \cup Frames

others == <<fishVars, picVars>>
allVars == <<vars, others, call>>

CallInit ==
    /\ Init /\ FishInit /\ PicInit
    /\ call \in Calls \cup Fishes \cup Interrupts \cup {NoCall}

\* The processes run, fish runs, interrupts come, or the call returns.
CallNext ==
    \/ call = NoCall /\ Next /\ UNCHANGED <<others, call>>
    \/ call \in Fishes /\ FishNext /\ UNCHANGED <<vars, picVars, call>>
    \/ call \in Interrupts /\ PicNext /\ UNCHANGED <<vars, fishVars, call>>
    \/ call \in Calls /\ call' = NoCall /\ UNCHANGED <<vars, others>>

CallSpec ==
    /\ CallInit /\ [][CallNext]_allVars
    /\ \A p \in Procs :
          /\ WF_allVars(/\ call = NoCall /\ DirOpenZero(p)
                        /\ UNCHANGED <<others, call>>)
          /\ WF_allVars(/\ call = NoCall /\ dir_idx < dentry_num
                        /\ DirOpenMatch(p) /\ UNCHANGED <<others, call>>)

-----------------------------------------------------------------------------
\* The lines of a text, in order.
Rows(text) ==
    LET ends == {0, Len(text) + 1} \cup {i \in DOMAIN text : text[i] = NL}
        End(i) == CHOOSE e \in ends : Cardinality({d \in ends : d < e}) = i
    IN  [i \in 1 .. Cardinality(ends) - 1 |-> SubSeq(text, End(i - 1) + 1, End(i) - 1)]

\* A newline at a cut of the text.
NewlineAt(text, cut) == SubSeq(text, 1, cut) \o <<NL>> \o SubSeq(text, cut + 1, Len(text))

\* The text as grep sees it: the byte behind a full buffer is read before it is
\* written, once, when a buffer-full ends within a line. If the stack had left
\* a newline there, that line is two for grep.
Seen(text, stack) ==
    LET cuts == {cut \in DOMAIN text : cut % BUFSIZE = 0 /\ text[cut] # NL}
    IN  IF stack[BUFSIZE] = NL /\ cuts # {} THEN NewlineAt(text, Min(cuts)) ELSE text

\* Wherever the boundaries of its buffer fall and whatever the stack holds,
\* grep prints in order every line that has the string, and no other, of a
\* file whose lines fit in the buffer; save that a newline which the stack
\* left behind the buffer breaks one line in two (ece391grep.c:9-66).
GrepPrintsLines ==
    call.of = "grep" =>
        \A stack \in [0 .. BUFSIZE -> {"x", NL}] :
            LET Has(l) == \E i \in 1 .. Len(l) : IsPrefix(call.s, SubSeq(l, i, Len(l)))
            IN  (\A l \in ToSet(Rows(call.text)) : Len(l) <= BUFSIZE) =>
                    do_one_file(call.s, call.text, stack) =
                        SelectSeq(Rows(Seen(call.text, stack)), Has)

-----------------------------------------------------------------------------
\* The pictures blink: at every row and column where one of the two texts has
\* something visible, and nowhere else, add_frames puts one blinker, which
\* shows the character of the first text when on and that of the second when
\* off, a blank where a text's row or the text itself has ended
\* (fish.c:78-148).
FramesBlink ==
    call.of = "frames" =>
        LET At(text, row, col) ==
                LET rows == Rows(text) IN
                IF row + 1 > Len(rows) THEN SPACE
                ELSE IF col + 1 > Len(rows[row + 1]) THEN SPACE
                ELSE rows[row + 1][col + 1]
            places == (0 .. FRAME_MAX) \X (0 .. FRAME_MAX)
            visible == {<<r, c>> \in places : At(call.f0, r, c) # SPACE
                                              \/ At(call.f1, r, c) # SPACE}
            made == add_frames(call.f0, call.f1)
        IN  /\ Len(made) = Cardinality(visible)
            /\ ToSet(made) =
                   {[location |-> rc[1] * COLUMNS + rc[2] + OFFSET,
                     on_char |-> At(call.f0, rc[1], rc[2]),
                     off_char |-> At(call.f1, rc[1], rc[2])] : rc \in visible}
=============================================================================
