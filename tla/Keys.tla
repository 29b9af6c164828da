--------------------------------- MODULE Keys ---------------------------------
(***************************************************************************)
(* From scan codes to what a key means: handle_special, key_array and the  *)
(* branches of keyboard_handler.  What a key then does to the line is the  *)
(* subject of LineDiscipline, what it does to the screen that of Display.  *)
(***************************************************************************)
EXTENDS Integers, Sequences, SequencesExt

\* keyboard.h.  A key's release code is its press code plus RELEASE_CHECK.
RELEASE_CHECK == \h80
L_SHIFT == \h2A
R_SHIFT == \h36
L_CTRL == \h1D
L_ALT == \h38
CAPSLOCK == \h3A
F1_KEY == \h3B
F3_KEY == \h3D
KEY_L == \h26
KEY_C == \h2E
CURSOR_L == \h4B
CURSOR_R == \h4D
BACKSPACE == \h0E
KEY_ENTER == \h1C
KEY_TAB == \h0F
KEY_NEED_IMPLEMENT == \h3A

Released(k) == k + RELEASE_CHECK

\* The positions of letters on the keyboard.
is_letter(k) == k \in \h10 .. \h19 \cup \h1E .. \h26 \cup \h2C .. \h32

\* A slip one could make: caps lock only ever goes on.
CapsOn(m) == [m EXCEPT !.capslock = 1]             \* for CapsToggled

-----------------------------------------------------------------------------
\* shift, ctrl, alt and capslock.
Init0 == [shift |-> 0, ctrl |-> 0, alt |-> 0, capslock |-> 0]

CapsToggled(m) == [m EXCEPT !.capslock = 1 - @]

handle_special(m, k) ==
    CASE k \in {L_SHIFT, R_SHIFT} -> [m EXCEPT !.shift = 1]
      [] k \in {Released(L_SHIFT), Released(R_SHIFT)} -> [m EXCEPT !.shift = 0]
      [] k = L_CTRL -> [m EXCEPT !.ctrl = 1]
      [] k = Released(L_CTRL) -> [m EXCEPT !.ctrl = 0]
      [] k = L_ALT -> [m EXCEPT !.alt = 1]
      [] k = Released(L_ALT) -> [m EXCEPT !.alt = 0]
      [] k = CAPSLOCK -> CapsToggled(m)
      [] OTHER -> m

\* After a sequence of codes.
Modifiers(codes) == FoldLeft(handle_special, Init0, codes)

\* The half of key_array that a key is looked up in: 1 is the shifted one.
Half(m, k) == IF is_letter(k) THEN (m.capslock + m.shift) % 2 ELSE m.shift

\* What keyboard_handler does for a code that is not special.
Meaning(m, k) ==
    CASE m.alt = 1 /\ k \in F1_KEY .. F3_KEY -> <<"terminal", k - F1_KEY>>
      [] m.ctrl = 1 /\ k = KEY_L -> <<"clear">>
      [] m.ctrl = 1 /\ k = KEY_C -> <<"halt">>
      [] k = CURSOR_L -> <<"left">>
      [] k = CURSOR_R -> <<"right">>
      [] k = BACKSPACE -> <<"backspace">>
      [] k = KEY_ENTER -> <<"enter">>
      [] k = KEY_TAB -> <<"tab">>
      [] k < KEY_NEED_IMPLEMENT /\ k \notin {BACKSPACE, KEY_ENTER, KEY_TAB}
            /\ ~(m.ctrl = 1 /\ k \in {KEY_L, KEY_C}) -> <<"char", Half(m, k), k>>
      [] OTHER -> <<"nothing">>
=============================================================================
