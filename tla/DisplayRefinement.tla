-------------------------- MODULE DisplayRefinement --------------------------
(***************************************************************************)
(* Under the conditions of OrderlySpec, the one display and the one        *)
(* printing position of Display implement the independent terminals of     *)
(* Terminals: a terminal's screen, position and cursor are the live ones   *)
(* when it is on display or has the CPU, and the saved ones otherwise.     *)
(***************************************************************************)
EXTENDS Display

texts   == [t \in Ter |-> TextOf(t)]
places  == [t \in Ter |-> PlaceOf(t)]
cursors == [t \in Ter |-> CursorOf(t)]

Abstract == INSTANCE Terminals WITH
    text <- texts, at <- places, cursor <- cursors, pos <- buffer_pos

\* No step of a program, a key, the scheduler or a switch of the display
\* changes what another terminal shows, where its program prints next or where
\* its cursor is (terminal_driver.c:252-306, keyboard.c:345-494,
\* scheduler.c:84-95).
ImplementsTerminals == Abstract!Spec
=============================================================================
