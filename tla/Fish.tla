--------------------------------- MODULE Fish ---------------------------------
(***************************************************************************)
(* The blinkers of the fish program (src/fish): a list of characters that  *)
(* ticks of the RTC drive (blink.S), in memory that mp1_malloc takes from  *)
(* an array (fish.c).                                                      *)
(*                                                                         *)
(* The program calls mp1_ioctl in one order; here the calls come in any.   *)
(* It adds no blinker where it has one, and none at location 0, which      *)
(* marks what is free in the array.                                        *)
(***************************************************************************)
EXTENDS Library, FiniteSets

CONSTANTS
    SLOTS,     \* structures in blink_array (80*25)
    SCREEN,    \* characters on the screen (80*25)
    Blinkers   \* the structures the program adds

ASSUME FishAssumption ==
    /\ SLOTS \in Nat \ {0} /\ SCREEN \in Nat \ {0}
    /\ \A b \in Blinkers : /\ b.location \in Nat \ {0}
                           /\ b.on_length \in Nat /\ b.off_length \in Nat

VARIABLES
    blink_array,   \* slot -> structure
    blink_list,    \* the slots from mp1_list_head along NEXT
    screen,        \* location -> character in video memory
    added,         \* history: the structures added and not removed since
    stale          \* history: the slots that mp1_ioctl_sync drew last

fishVars == <<blink_array, blink_list, screen, added, stale>>

Slot == 1 .. SLOTS
Location == 0 .. SCREEN - 1

Free == [location |-> 0, on_char |-> NUL, off_char |-> NUL,
         on_length |-> 0, off_length |-> 0, countdown |-> 0, status |-> 0]

\* Slips one could make.
AnySlot == {1}                                     \* for FreeSlots
HeadUnlinked(slot) == Tail(blink_list)            \* for Unlinked
OnCharLeft(b) == IF b.status = 1 THEN b.on_char ELSE b.off_char  \* for OtherChar

-----------------------------------------------------------------------------
FishInit ==
    /\ blink_array = [slot \in Slot |-> Free]
    /\ blink_list = <<>>
    /\ screen = [l \in Location |-> SPACE]
    /\ added = {}
    /\ stale = {}

\* mp1_find_helper: the first of the list at a location.
FindHelper(l) ==
    LET at == {i \in DOMAIN blink_list : blink_array[blink_list[i]].location = l}
    IN  IF at = {} THEN {} ELSE {blink_list[Min(at)]}

\* The caller's copy of the structure, or nothing.
mp1_ioctl_find(l) == {blink_array[slot] : slot \in FindHelper(l)}

\* What mp1_malloc takes for free; it returns the first.
FreeSlots == {slot \in Slot : blink_array[slot].location = 0}

mp1_ioctl_add(b) ==
    /\ b.location < SCREEN /\ FreeSlots # {}
    /\ LET slot == Min(FreeSlots) IN
       /\ blink_array' = [blink_array EXCEPT ![slot] =
              [location |-> b.location, on_char |-> b.on_char, off_char |-> b.off_char,
               on_length |-> b.on_length, off_length |-> b.off_length,
               countdown |-> b.on_length, status |-> 1]]
       /\ blink_list' = <<slot>> \o blink_list
       /\ screen' = [screen EXCEPT ![b.location] = b.on_char]
       /\ stale' = stale \ {slot}
    /\ added' = added \cup {b}

\* The link that leads to the slot is set to what follows it.
Unlinked(slot) ==
    RemoveAt(blink_list, CHOOSE i \in DOMAIN blink_list : blink_list[i] = slot)

mp1_ioctl_remove(l) ==
    \E slot \in FindHelper(l) :
        /\ blink_list' = Unlinked(slot)
        /\ blink_array' = [blink_array EXCEPT ![slot] = Free]  \* mp1_free
        /\ added' = {b \in added : b.location # l}
        /\ UNCHANGED <<screen, stale>>

\* The blinker at location to takes over the times and the status of the one
\* at location from.  The test of the status (testb, cmovl) never chooses
\* on_char.
mp1_ioctl_sync(from, to) ==
    \E f \in FindHelper(from), t \in FindHelper(to) :
        LET b == blink_array[f] IN
        /\ blink_array' = [blink_array EXCEPT
               ![t].on_length = b.on_length, ![t].off_length = b.off_length,
               ![t].countdown = b.countdown, ![t].status = b.status]
        /\ screen' = [screen EXCEPT ![to] = blink_array[t].off_char]
        /\ stale' = stale \cup {t}
        /\ UNCHANGED <<blink_list, added>>

\* The blinkers whose countdown ends with this tick, and what they become.
Due == {slot \in ToSet(blink_list) : blink_array[slot].countdown <= 1}

OtherChar(b) == IF b.status = 1 THEN b.off_char ELSE b.on_char

Toggled(b) ==
    [b EXCEPT !.countdown = IF b.status = 1 THEN b.off_length ELSE b.on_length,
              !.status = 1 - @]

mp1_rtc_tasklet ==
    /\ blink_array' = [slot \in Slot |->
           LET b == blink_array[slot] IN
           IF slot \notin ToSet(blink_list) THEN b
           ELSE IF slot \in Due THEN Toggled(b)
           ELSE [b EXCEPT !.countdown = @ - 1]]
    /\ screen' = [l \in Location |->
           LET due == {slot \in Due : blink_array[slot].location = l} IN
           IF due = {} THEN screen[l]
           ELSE OtherChar(blink_array[CHOOSE slot \in due : TRUE])]
    /\ stale' = stale \ Due
    /\ UNCHANGED <<blink_list, added>>

FishNext ==
    \/ \E b \in Blinkers : mp1_ioctl_find(b.location) = {} /\ mp1_ioctl_add(b)
    \/ \E l \in Location : mp1_ioctl_remove(l)
    \/ \E from, to \in Location : mp1_ioctl_sync(from, to)
    \/ mp1_rtc_tasklet

FishSpec == FishInit /\ [][FishNext]_fishVars

-----------------------------------------------------------------------------
\* The list has every structure that is taken in the array, once, and fish
\* finds in it just what it added and did not remove: no slot is given out
\* twice or lost, in whatever order blinkers come and go (blink.S:105-237,
\* fish.c:160-175).
BlinkersKept ==
    /\ IsInjective(blink_list)
    /\ ToSet(blink_list) = Slot \ FreeSlots
    /\ Len(blink_list) = Cardinality(added)
    /\ \A b \in added : \E found \in mp1_ioctl_find(b.location) :
           found.on_char = b.on_char /\ found.off_char = b.off_char

\* The screen shows the character of every blinker's status; only one that
\* was synchronised and did not change since may show the other one
\* (blink.S:49-99, :164-170, :277-285).
BlinkersShown ==
    \A slot \in ToSet(blink_list) :
        LET b == blink_array[slot] IN
        screen[b.location] = IF b.status = 1 /\ slot \notin stale
                             THEN b.on_char ELSE b.off_char
=============================================================================
