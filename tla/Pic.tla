---------------------------------- MODULE Pic ----------------------------------
(***************************************************************************)
(* The two cascaded interrupt controllers (i8259.c), the order in which    *)
(* entry() initialises the devices, and the interrupt handlers of the      *)
(* timer, the keyboard and the clock, as far as they deal with them: where *)
(* each sends its end of interrupt, on every way out it has, and when      *)
(* interrupts are on.                                                      *)
(*                                                                         *)
(* Every gate is an interrupt gate (idt.c:110-114), so a handler starts    *)
(* with interrupts off. keyboard_handler turns them on before it returns,  *)
(* and can be interrupted there: NEST_MAX bounds how often. A switch to    *)
(* another process goes to a stack whose handlers have all sent their end  *)
(* of interrupt, or to a new program: it begins with an empty stack here.  *)
(* The controllers themselves are hardware: each has requests, lines in    *)
(* service and a mask, and lower lines go first.                           *)
(***************************************************************************)
EXTENDS Integers, Sequences, FiniteSetsExt

CONSTANT NEST_MAX   \* bound on the model

PIT_IRQ == 0
KEYBOARD_IRQ == 1
CASCADE == 2
RTC_IRQ == 8
SLAVE_OFFSET == 8

Devices == {PIT_IRQ, KEYBOARD_IRQ, RTC_IRQ}
Line == 0 .. 7
Chip == {"master", "slave"}

VARIABLES
    requests,       \* per chip: the interrupt request register
    in_service,     \* per chip: the in-service register
    mask,           \* per chip: its mask register, as the set of masked lines
    master_mask,    \* the kernel's copies
    slave_mask,
    entry,          \* what entry() does next; "left" when its stack was left
    interrupt_on,   \* the processor's interrupt flag
    handlers,       \* the handlers on the stack, the last one on top
    rtc_line        \* the clock's line is up: register C was not read yet

picVars == <<requests, in_service, mask, master_mask, slave_mask, entry,
             interrupt_on, handlers, rtc_line>>
maskVars == <<mask, master_mask, slave_mask>>
chipVars == <<requests, in_service, maskVars>>

ChipOf(irq) == IF irq < SLAVE_OFFSET THEN "master" ELSE "slave"
LineOf(irq) == irq % SLAVE_OFFSET

-----------------------------------------------------------------------------
\* After i8259_init: all lines masked but the cascade's.
PicInit ==
    /\ requests = [c \in Chip |-> {}]
    /\ in_service = [c \in Chip |-> {}]
    /\ master_mask = Line \ {CASCADE}
    /\ slave_mask = Line
    /\ mask = [c \in Chip |-> IF c = "master" THEN master_mask ELSE slave_mask]
    /\ entry = "keyboard_init"
    /\ interrupt_on = FALSE
    /\ handlers = <<>>
    /\ rtc_line = FALSE

enable_irq(irq) ==
    IF irq < SLAVE_OFFSET
    THEN /\ master_mask' = master_mask \ {irq}
         /\ mask' = [mask EXCEPT !["master"] = master_mask']
         /\ UNCHANGED slave_mask
    ELSE /\ slave_mask' = slave_mask \ {irq - SLAVE_OFFSET}
         /\ mask' = [mask EXCEPT !["slave"] = slave_mask']
         /\ UNCHANGED master_mask

\* entry() goes on when no handler is on its stack.
Boots(step, next) ==
    /\ entry = step /\ handlers = <<>> /\ entry' = next
    /\ UNCHANGED <<requests, in_service, handlers, rtc_line>>

KeyboardInit ==
    /\ Boots("keyboard_init", "change_rate")
    /\ enable_irq(KEYBOARD_IRQ)
    /\ UNCHANGED interrupt_on

\* rtc_init sets the clock's rate first, and that ends in sti(): from here on
\* keys interrupt what is left of entry().
ChangeRate ==
    /\ Boots("change_rate", "rtc_init")
    /\ interrupt_on' = TRUE
    /\ UNCHANGED maskVars

RtcInit ==
    /\ Boots("rtc_init", "pit_init")
    /\ enable_irq(RTC_IRQ)
    /\ UNCHANGED interrupt_on

\* Between its cli() and its sti().
PitInit ==
    /\ Boots("pit_init", "sti")
    /\ enable_irq(PIT_IRQ)
    /\ interrupt_on' = TRUE

Sti ==
    /\ Boots("sti", "hlt")
    /\ interrupt_on' = TRUE
    /\ UNCHANGED maskVars

\* Whether a device's line was unmasked.
Initialised(irq) ==
    CASE irq = KEYBOARD_IRQ -> entry # "keyboard_init"
      [] irq = RTC_IRQ -> entry \notin {"keyboard_init", "change_rate", "rtc_init"}
      [] irq = PIT_IRQ -> entry \in {"sti", "hlt", "left"}

-----------------------------------------------------------------------------
\* The lines of a chip that may interrupt: requested, not masked, and before
\* every line in service.
Ready(chip, asked) ==
    {l \in asked \ mask[chip] : \A s \in in_service[chip] : l < s}

SlaveReady == Ready("slave", requests["slave"])

MasterReady ==
    Ready("master", requests["master"] \cup IF SlaveReady = {} THEN {} ELSE {CASCADE})

\* A device asks for an interrupt. The clock asks only when rtc_init told it
\* to, and again only when register C was read.
Ask(irq) ==
    /\ irq = RTC_IRQ => ~rtc_line /\ entry \notin {"keyboard_init", "change_rate"}
    /\ requests' = [requests EXCEPT ![ChipOf(irq)] = @ \cup {LineOf(irq)}]
    /\ rtc_line' = (rtc_line \/ irq = RTC_IRQ)
    /\ UNCHANGED <<in_service, maskVars, entry, interrupt_on, handlers>>

\* The processor takes the first of what is ready and calls its handler.
Interrupt ==
    /\ interrupt_on /\ MasterReady # {} /\ Len(handlers) < NEST_MAX
    /\ LET first == Min(MasterReady)
           irq == IF first = CASCADE THEN Min(SlaveReady) + SLAVE_OFFSET ELSE first
           taken == {<<"master", first>>, <<ChipOf(irq), LineOf(irq)>>}
       IN  /\ in_service' = [c \in Chip |->
                  in_service[c] \cup {l \in Line : <<c, l>> \in taken}]
           /\ requests' = [requests EXCEPT ![ChipOf(irq)] = @ \ {LineOf(irq)}]
           /\ handlers' = Append(handlers, [irq |-> irq, at |-> "start"])
    /\ interrupt_on' = FALSE
    /\ UNCHANGED <<maskVars, entry, rtc_line>>

-----------------------------------------------------------------------------
\* The lines that send_eoi ends: the slave's and then the cascade's.
Ended(irq) ==
    IF irq < SLAVE_OFFSET THEN {<<"master", irq>>}
    ELSE {<<"slave", irq - SLAVE_OFFSET>>, <<"master", CASCADE>>}

send_eoi(irq) ==
    in_service' = [c \in Chip |-> {l \in in_service[c] : <<c, l>> \notin Ended(irq)}]

Top == handlers[Len(handlers)]
Return == handlers' = SubSeq(handlers, 1, Len(handlers) - 1)

\* The handler of irq, just called, goes on at a later point. What it does on
\* the way, with interrupts still off, is the subject of other modules.
Handles(irq, at) ==
    /\ handlers # <<>> /\ Top = [irq |-> irq, at |-> "start"]
    /\ handlers' = [handlers EXCEPT ![Len(handlers)] = [irq |-> irq, at |-> at]]
    /\ UNCHANGED <<requests, maskVars, entry, interrupt_on, rtc_line>>

\* The timer's handler is going to switch, the clock's to read register C.
PitHandler == Handles(PIT_IRQ, "leave") /\ send_eoi(PIT_IRQ)
RtcHandler == Handles(RTC_IRQ, "return") /\ send_eoi(RTC_IRQ)

\* keyboard_handler ends its interrupt in four places: after Shift, Ctrl, Alt
\* and Caps Lock, before it shows another terminal, before Ctrl+C halts, and
\* after any other key.
SpecialKey == Handles(KEYBOARD_IRQ, "return") /\ send_eoi(KEYBOARD_IRQ)
TerminalKeyUnended == Handles(KEYBOARD_IRQ, "return") /\ UNCHANGED in_service   \* a slip
TerminalKey == Handles(KEYBOARD_IRQ, "return") /\ send_eoi(KEYBOARD_IRQ)
InterruptKey == Handles(KEYBOARD_IRQ, "leave") /\ send_eoi(KEYBOARD_IRQ)
OtherKey == Handles(KEYBOARD_IRQ, "return") /\ send_eoi(KEYBOARD_IRQ)

\* The clock's handler reads register C and returns.
RtcReturns ==
    /\ handlers # <<>> /\ Top = [irq |-> RTC_IRQ, at |-> "return"]
    /\ rtc_line' = FALSE
    /\ Return /\ interrupt_on' = TRUE
    /\ UNCHANGED <<chipVars, entry>>

\* The keyboard's turns interrupts on, and returns.
KeyboardSti ==
    /\ handlers # <<>> /\ Top = [irq |-> KEYBOARD_IRQ, at |-> "return"]
    /\ ~interrupt_on
    /\ interrupt_on' = TRUE
    /\ UNCHANGED <<chipVars, entry, handlers, rtc_line>>

KeyboardReturns ==
    /\ handlers # <<>> /\ Top = [irq |-> KEYBOARD_IRQ, at |-> "return"]
    /\ interrupt_on
    /\ Return
    /\ UNCHANGED <<chipVars, entry, interrupt_on, rtc_line>>

\* The timer's switches to another process, the first time to a shell it
\* starts, and Ctrl+C goes to the parent of the one it halts: another stack, in
\* either case with interrupts on. Ctrl+C before the first process finds
\* nothing to halt and never comes back.
LeaveStack ==
    /\ handlers # <<>> /\ Top.at = "leave"
    /\ Top.irq = KEYBOARD_IRQ => entry = "left"
    /\ handlers' = <<>> /\ interrupt_on' = TRUE /\ entry' = "left"
    /\ UNCHANGED <<chipVars, rtc_line>>

\* A system call turns interrupts off for a while.
Cli ==
    /\ handlers = <<>> /\ entry = "left"
    /\ interrupt_on' = ~interrupt_on
    /\ UNCHANGED <<chipVars, entry, handlers, rtc_line>>

Boot == KeyboardInit \/ ChangeRate \/ RtcInit \/ PitInit \/ Sti
KeyboardHandler == SpecialKey \/ TerminalKey \/ InterruptKey \/ OtherKey

PicNext ==
    \/ Boot \/ Interrupt
    \/ PitHandler \/ RtcHandler \/ KeyboardHandler
    \/ RtcReturns \/ KeyboardSti \/ KeyboardReturns \/ LeaveStack \/ Cli
    \/ \E irq \in Devices : Ask(irq)

PicSpec == PicInit /\ [][PicNext]_picVars

-----------------------------------------------------------------------------
\* No interrupt is left unheard, from the moment the device is initialised,
\* while entry() still initialises others, until long after: whenever the
\* processor can be interrupted nothing is still in service, and a device that
\* asked is next or has only lower lines before it; the clock's line is up only
\* if its handler is yet to run or to read register C (i8259.c:19-99, the three
\* handlers and the four ways out of the keyboard's, keyboard.c:177-266).
InterruptsHeard ==
    /\ interrupt_on => \A c \in Chip : in_service[c] = {}
    /\ interrupt_on =>
           \A irq \in Devices :
               Initialised(irq) /\ LineOf(irq) \in requests[ChipOf(irq)] =>
                   \E l \in MasterReady :
                       l <= IF irq < SLAVE_OFFSET THEN irq ELSE CASCADE
    /\ rtc_line => \/ LineOf(RTC_IRQ) \in requests["slave"]
                   \/ \E i \in DOMAIN handlers : handlers[i].irq = RTC_IRQ
=============================================================================
