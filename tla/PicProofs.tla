------------------------------- MODULE PicProofs -------------------------------
(***************************************************************************)
(* Every end of interrupt reaches the controllers it has to reach, on every*)
(* way out of every handler: whenever the processor can be interrupted,    *)
(* also while entry() still initialises devices, nothing is in service, so *)
(* the next request is heard, however deep the keyboard's handlers are     *)
(* nested.                                                                 *)
(***************************************************************************)
EXTENDS Pic, TLAPS

Handler == [irq : Devices, at : {"start", "return", "leave"}]

\* A handler that can be interrupted.
Ending == [irq |-> KEYBOARD_IRQ, at |-> "return"]

\* What is in service while the handler of irq has not sent its end.
InService(irq) == [c \in Chip |-> {l \in Line : <<c, l>> \in Ended(irq)}]
NoService == [c \in Chip |-> {}]

\* A line is masked until its device is initialised.
MaskTypes ==
    /\ mask = [c \in Chip |-> IF c = "master" THEN master_mask ELSE slave_mask]
    /\ master_mask = {l \in Line \ {CASCADE} :
           /\ l = KEYBOARD_IRQ => ~Initialised(KEYBOARD_IRQ)
           /\ l = PIT_IRQ => ~Initialised(PIT_IRQ)}
    /\ slave_mask = {l \in Line : l = 0 => ~Initialised(RTC_IRQ)}

PicTypes ==
    /\ entry \in {"keyboard_init", "change_rate", "rtc_init", "pit_init", "sti",
                  "hlt", "left"}
    /\ MaskTypes
    /\ requests \in [Chip -> SUBSET Line]
    /\ requests["master"] \subseteq {PIT_IRQ, KEYBOARD_IRQ}
    /\ requests["slave"] \subseteq {0}
    /\ interrupt_on \in BOOLEAN
    /\ rtc_line \in BOOLEAN
    /\ handlers \in Seq(Handler)

\* Only the keyboard's handler is ever interrupted, after its end of
\* interrupt; in service is what the last handler has still to end. The timer
\* interrupts only when entry() has nothing left to initialise.
Stack ==
    /\ \A i \in DOMAIN handlers : i = Len(handlers) \/ handlers[i] = Ending
    /\ interrupt_on /\ handlers # <<>> => Top = Ending
    /\ in_service = IF handlers # <<>> /\ Top.at = "start" THEN InService(Top.irq)
                    ELSE NoService
    /\ handlers # <<>> /\ Top.at = "leave" => Top.irq # RTC_IRQ
    /\ handlers # <<>> /\ Top.irq = PIT_IRQ => Initialised(PIT_IRQ)

\* The clock's line comes down again.
ClockHeard ==
    rtc_line => \/ LineOf(RTC_IRQ) \in requests["slave"]
                \/ handlers # <<>> /\ Top.irq = RTC_IRQ

PicInv == PicTypes /\ Stack /\ ClockHeard

-----------------------------------------------------------------------------
LEMMA IrqFacts ==
    /\ Devices = {0, 1, 8} /\ Line = 0 .. 7 /\ Chip = {"master", "slave"}
    /\ \A irq \in {0, 1} : ChipOf(irq) = "master" /\ LineOf(irq) = irq
                           /\ Ended(irq) = {<<"master", irq>>}
    /\ ChipOf(8) = "slave" /\ LineOf(8) = 0
    /\ Ended(8) = {<<"slave", 0>>, <<"master", 2>>}
  BY DEF Devices, Line, Chip, ChipOf, LineOf, Ended, SLAVE_OFFSET, CASCADE,
         PIT_IRQ, KEYBOARD_IRQ, RTC_IRQ

\* Of the lines that anything is connected to, one goes first.
LEMMA MinLine ==
    ASSUME NEW S \in SUBSET {0, 1, 2}, S # {}
    PROVE  Min(S) \in S
  <1>1. \E x \in S : \A y \in S : x <= y
    <2>1. CASE 0 \in S
      <3>1. \A y \in S : 0 <= y
        OBVIOUS
      <3> QED
        BY <2>1, <3>1
    <2>2. CASE 0 \notin S /\ 1 \in S
      <3>1. \A y \in S : 1 <= y
        BY <2>2
      <3> QED
        BY <2>2, <3>1
    <2>3. CASE S \subseteq {2}
      <3>1. S = {2}
        BY <2>3
      <3> QED
        BY <3>1
    <2> QED
      BY <2>1, <2>2, <2>3
  <1> QED
    BY <1>1 DEF Min

LEMMA PicInitInv == PicInit => PicInv
  <1> SUFFICES ASSUME PicInit PROVE PicInv
    OBVIOUS
  <1>1. handlers \in Seq(Handler)
    BY DEF PicInit
  <1>2. MaskTypes
    BY DEF PicInit, MaskTypes, Initialised, Line, CASCADE, PIT_IRQ, KEYBOARD_IRQ, RTC_IRQ
  <1>3. Stack
    BY DEF PicInit, Stack, NoService
  <1> QED
    BY <1>1, <1>2, <1>3 DEF PicInit, PicInv, PicTypes, ClockHeard, Chip

-----------------------------------------------------------------------------
\* What the processor takes next, and what is in service then.
LEMMA InterruptTakes ==
    ASSUME PicInv, Interrupt
    PROVE  \E irq \in Devices :
               /\ in_service' = InService(irq)
               /\ handlers' = Append(handlers, [irq |-> irq, at |-> "start"])
               /\ requests' = [requests EXCEPT ![ChipOf(irq)] = @ \ {LineOf(irq)}]
               /\ irq = PIT_IRQ => Initialised(PIT_IRQ)
  <1> DEFINE first == Min(MasterReady)
             irq == IF first = CASCADE THEN Min(SlaveReady) + SLAVE_OFFSET ELSE first
             taken == {<<"master", first>>, <<ChipOf(irq), LineOf(irq)>>}
  <1>1. in_service = NoService
    BY DEF PicInv, Stack, Ending, Interrupt
  <1>2. SlaveReady \subseteq {0}
    BY DEF PicInv, PicTypes, SlaveReady, Ready
  <1>3. MasterReady \subseteq {0, 1, 2}
    BY DEF PicInv, PicTypes, MasterReady, Ready, PIT_IRQ, KEYBOARD_IRQ, CASCADE
  <1>4. first \in MasterReady
    BY <1>3, MinLine DEF Interrupt
  <1>5. first = 2 => SlaveReady = {0}
    <2>1. 2 \in MasterReady => SlaveReady # {}
      BY DEF PicInv, PicTypes, MasterReady, Ready, PIT_IRQ, KEYBOARD_IRQ
    <2> HIDE DEF first
    <2> QED
      BY <1>2, <1>4, <2>1
  <1>6. first = 2 => Min(SlaveReady) = 0
    <2>1. {0} \in SUBSET {0, 1, 2} /\ {0} # {}
      OBVIOUS
    <2>2. Min({0}) \in {0}
      BY <2>1, MinLine
    <2> QED
      BY <1>5, <2>2
  <1>7. \/ first = 2 /\ irq = 8
        \/ first \in {0, 1} /\ irq = first
    <2>1. first \in {0, 1, 2}
      BY <1>3, <1>4
    <2> HIDE DEF first
    <2> QED
      BY <1>6, <2>1 DEF CASCADE, SLAVE_OFFSET
  <1>8. /\ in_service' = [c \in Chip |->
               in_service[c] \cup {l \in Line : <<c, l>> \in taken}]
        /\ requests' = [requests EXCEPT ![ChipOf(irq)] = @ \ {LineOf(irq)}]
        /\ handlers' = Append(handlers, [irq |-> irq, at |-> "start"])
    BY DEF Interrupt
  <1> HIDE DEF irq, first
  <1>9. irq \in Devices /\ taken = Ended(irq)
    BY <1>7, IrqFacts
  <1> HIDE DEF taken
  <1>10. in_service' = InService(irq)
    BY <1>1, <1>8, <1>9 DEF InService, NoService
  <1>11. irq = PIT_IRQ => Initialised(PIT_IRQ)
    <2>1. PIT_IRQ \in MasterReady => PIT_IRQ \notin master_mask
      BY DEF MasterReady, Ready, PicInv, PicTypes, MaskTypes, Chip
    <2>2. irq = PIT_IRQ => PIT_IRQ \in MasterReady
      BY <1>4, <1>7 DEF PIT_IRQ
    <2> QED
      BY <2>1, <2>2 DEF PicInv, PicTypes, MaskTypes, PIT_IRQ, KEYBOARD_IRQ, CASCADE, Line
  <1> QED
    BY <1>8, <1>9, <1>10, <1>11

LEMMA InterruptStep ==
    ASSUME PicInv, Interrupt
    PROVE  PicInv'
  <1>1. PICK irq \in Devices :
            /\ in_service' = InService(irq)
            /\ handlers' = Append(handlers, [irq |-> irq, at |-> "start"])
            /\ requests' = [requests EXCEPT ![ChipOf(irq)] = @ \ {LineOf(irq)}]
            /\ irq = PIT_IRQ => Initialised(PIT_IRQ)
    BY InterruptTakes
  <1>2. UNCHANGED <<mask, master_mask, slave_mask, entry, rtc_line>>
        /\ interrupt_on /\ interrupt_on' = FALSE
    BY DEF Interrupt, maskVars
  <1>3. /\ handlers \in Seq(Handler) /\ handlers' \in Seq(Handler)
        /\ Len(handlers) \in Nat
        /\ DOMAIN handlers = 1 .. Len(handlers)
        /\ DOMAIN handlers' = 1 .. Len(handlers')
        /\ Len(handlers') = Len(handlers) + 1
        /\ handlers'[Len(handlers')] = [irq |-> irq, at |-> "start"]
        /\ \A i \in 1 .. Len(handlers) : handlers'[i] = handlers[i]
    BY <1>1 DEF PicInv, PicTypes, Handler
  <1>4. PicTypes'
    <2>1. requests' \in [Chip -> SUBSET Line]
          /\ \A c \in Chip : requests'[c] \subseteq requests[c]
      BY <1>1, IrqFacts DEF PicInv, PicTypes
    <2>2. MaskTypes'
      BY <1>2 DEF PicInv, PicTypes, MaskTypes, Initialised
    <2> QED
      BY <1>2, <1>3, <2>1, <2>2 DEF PicInv, PicTypes, Chip
  <1>5. Stack'
    <2>1. ASSUME NEW i \in DOMAIN handlers', i # Len(handlers')
          PROVE  handlers'[i] = Ending
      <3>1. i \in 1 .. Len(handlers) /\ handlers'[i] = handlers[i]
        BY <1>3, <2>1
      <3>2. CASE i = Len(handlers)
        BY <1>2, <1>3, <3>1, <3>2 DEF PicInv, Stack, Top
      <3>3. CASE i # Len(handlers)
        BY <1>3, <3>1, <3>3 DEF PicInv, Stack
      <3> QED
        BY <3>2, <3>3
    <2>2. handlers' # <<>> /\ Top'.at = "start" /\ Top'.irq = irq
      BY <1>3 DEF Top
    <2>3. in_service' = InService(Top'.irq)
      BY <1>1, <2>2
    <2>4. (in_service = IF handlers # <<>> /\ Top.at = "start" THEN InService(Top.irq)
                        ELSE NoService)'
      BY <2>2, <2>3 DEF InService
    <2>5. irq = PIT_IRQ => Initialised(PIT_IRQ)'
      BY <1>1, <1>2 DEF Initialised
    <2> QED
      BY <1>2, <2>1, <2>2, <2>4, <2>5 DEF Stack
  <1>6. ClockHeard'
    <2>1. CASE irq = RTC_IRQ
      BY <1>3, <2>1 DEF ClockHeard, Top
    <2>2. CASE irq # RTC_IRQ
      <3>1. requests'["slave"] = requests["slave"]
        BY <1>1, <2>2, IrqFacts DEF PicInv, PicTypes, RTC_IRQ
      <3>2. rtc_line => LineOf(RTC_IRQ) \in requests["slave"]
        BY <1>2 DEF PicInv, ClockHeard, Stack, Ending, RTC_IRQ, KEYBOARD_IRQ
      <3> QED
        BY <1>2, <3>1, <3>2 DEF ClockHeard, LineOf
    <2> QED
      BY <2>1, <2>2
  <1> QED
    BY <1>4, <1>5, <1>6 DEF PicInv

\* The last handler is through: nothing is in service, and what is below it
\* is the keyboard's.
LEMMA HandlerFacts ==
    ASSUME PicInv, handlers # <<>>
    PROVE  /\ Len(handlers) \in Nat \ {0} /\ DOMAIN handlers = 1 .. Len(handlers)
           /\ Top \in Handler
           /\ \A i \in 1 .. Len(handlers) - 1 : handlers[i] = Ending
  <1>1. handlers \in Seq(Handler)
    BY DEF PicInv, PicTypes
  <1>2. Len(handlers) \in Nat \ {0} /\ DOMAIN handlers = 1 .. Len(handlers)
    BY <1>1
  <1>3. Top \in Handler
    BY <1>1, <1>2 DEF Top
  <1>4. \A i \in 1 .. Len(handlers) - 1 : handlers[i] = Ending
    <2>1. ASSUME NEW i \in 1 .. Len(handlers) - 1
          PROVE  i \in DOMAIN handlers /\ i # Len(handlers)
      <3> DEFINE n == Len(handlers)
      <3>1. i \in 1 .. n /\ i # n
        <4>1. n \in Nat /\ i \in 1 .. n - 1
          BY <1>2
        <4> HIDE DEF n
        <4> QED
          BY <4>1
      <3> QED
        BY <1>2, <3>1
    <2> QED
      BY <2>1 DEF PicInv, Stack
  <1> QED
    BY <1>2, <1>3, <1>4

\* A handler sends its end of interrupt, on the way to where it goes on.
LEMMA HandlesStep ==
    ASSUME PicInv, NEW irq \in Devices, NEW at \in {"return", "leave"},
           at = "leave" => irq # RTC_IRQ, Handles(irq, at), send_eoi(irq)
    PROVE  PicInv'
  <1> DEFINE n == Len(handlers)
             h == [irq |-> irq, at |-> at]
  <1>1. /\ handlers # <<>> /\ Top.at = "start" /\ Top.irq = irq
        /\ UNCHANGED <<requests, mask, master_mask, slave_mask, entry,
                       interrupt_on, rtc_line>>
        /\ handlers' = [handlers EXCEPT ![n] = h]
    BY DEF Handles, maskVars
  <1>2. /\ n \in Nat \ {0} /\ DOMAIN handlers = 1 .. n /\ Top \in Handler
        /\ \A i \in 1 .. n - 1 : handlers[i] = Ending
    BY <1>1, HandlerFacts
  <1>3. ~interrupt_on
    BY <1>1 DEF PicInv, Stack, Ending
  <1>4. in_service' = NoService
    <2>1. in_service = InService(irq)
      BY <1>1 DEF PicInv, Stack
    <2> QED
      BY <2>1 DEF send_eoi, InService, NoService
  <1>5. /\ handlers' \in Seq(Handler) /\ Len(handlers') = n
        /\ DOMAIN handlers' = 1 .. n /\ handlers' # <<>>
        /\ handlers'[n] = h
        /\ \A i \in 1 .. n - 1 : handlers'[i] = handlers[i]
    <2>1. handlers \in Seq(Handler)
      BY DEF PicInv, PicTypes
    <2>2. h \in Handler
      BY DEF Handler
    <2> HIDE DEF h
    <2>3. handlers' \in Seq(Handler) /\ Len(handlers') = n /\ handlers'[n] = h
      BY <1>1, <1>2, <2>1, <2>2
    <2>4. ASSUME NEW i \in 1 .. n - 1 PROVE handlers'[i] = handlers[i]
      <3> HIDE DEF n, h
      <3>1. i \in DOMAIN handlers /\ i # n
        BY <1>2
      <3> QED
        BY <1>1, <3>1
    <2>5. DOMAIN handlers' = 1 .. n /\ handlers' # <<>>
      BY <1>2, <2>3
    <2> QED
      BY <2>3, <2>4, <2>5
  <1>6. PicTypes'
    <2>1. MaskTypes'
      BY <1>1 DEF PicInv, PicTypes, MaskTypes, Initialised
    <2> QED
      BY <1>1, <1>5, <2>1 DEF PicInv, PicTypes
  <1>7. Stack'
    <2>1. \A i \in DOMAIN handlers' : i = Len(handlers') \/ handlers'[i] = Ending
      BY <1>2, <1>5
    <2>2. Top' = h
      BY <1>5 DEF Top
    <2>3. irq = PIT_IRQ => Initialised(PIT_IRQ)'
      BY <1>1 DEF PicInv, Stack, Initialised
    <2> QED
      BY <1>1, <1>3, <1>4, <2>1, <2>2, <2>3 DEF Stack, NoService
  <1>8. ClockHeard'
    <2>1. handlers' # <<>> /\ Top' = h
      BY <1>5 DEF Top
    <2> QED
      BY <1>1, <2>1 DEF PicInv, ClockHeard, LineOf
  <1> QED
    BY <1>6, <1>7, <1>8 DEF PicInv

LEMMA HandlersStep ==
    ASSUME PicInv, PitHandler \/ RtcHandler \/ KeyboardHandler
    PROVE  PicInv'
  <1>1. CASE PitHandler
    BY <1>1, HandlesStep DEF PitHandler, Devices, PIT_IRQ, RTC_IRQ
  <1>2. CASE RtcHandler
    BY <1>2, HandlesStep DEF RtcHandler, Devices
  <1>3. CASE KeyboardHandler
    BY <1>3, HandlesStep
    DEF KeyboardHandler, SpecialKey, TerminalKey, InterruptKey, OtherKey, Devices,
        KEYBOARD_IRQ, RTC_IRQ
  <1> QED
    BY <1>1, <1>2, <1>3

\* The last handler returns to the one it interrupted.
LEMMA ReturnFacts ==
    ASSUME PicInv, handlers # <<>>, Return
    PROVE  /\ handlers' \in Seq(Handler)
           /\ \A i \in DOMAIN handlers' : handlers'[i] = Ending
           /\ handlers' # <<>> => Top' = Ending
  <1>1. /\ Len(handlers) \in Nat \ {0} /\ DOMAIN handlers = 1 .. Len(handlers)
        /\ \A i \in 1 .. Len(handlers) - 1 : handlers[i] = Ending
    BY HandlerFacts
  <1>2. /\ handlers' \in Seq(Handler)
        /\ Len(handlers') = Len(handlers) - 1
        /\ DOMAIN handlers' = 1 .. Len(handlers) - 1
        /\ \A i \in 1 .. Len(handlers) - 1 : handlers'[i] = handlers[i]
    BY <1>1 DEF Return, PicInv, PicTypes
  <1>3. handlers' # <<>> => Len(handlers') \in DOMAIN handlers'
    BY <1>1, <1>2
  <1> QED
    BY <1>1, <1>2, <1>3 DEF Top

LEMMA ReturnStep ==
    ASSUME PicInv, RtcReturns \/ KeyboardReturns
    PROVE  PicInv'
  <1>1. /\ handlers # <<>> /\ Top.at = "return" /\ Return
        /\ interrupt_on' = TRUE
        /\ UNCHANGED <<requests, in_service, mask, master_mask, slave_mask, entry>>
        /\ \/ rtc_line' = FALSE
           \/ Top.irq # RTC_IRQ /\ rtc_line' = rtc_line
    BY DEF RtcReturns, KeyboardReturns, chipVars, maskVars, PicInv, PicTypes, RTC_IRQ,
           KEYBOARD_IRQ
  <1>2. /\ handlers' \in Seq(Handler)
        /\ \A i \in DOMAIN handlers' : handlers'[i] = Ending
        /\ handlers' # <<>> => Top' = Ending
    BY <1>1, ReturnFacts
  <1>3. PicTypes'
    <2>1. MaskTypes'
      BY <1>1 DEF PicInv, PicTypes, MaskTypes, Initialised
    <2> QED
      BY <1>1, <1>2, <2>1 DEF PicInv, PicTypes
  <1>4. Stack'
    BY <1>1, <1>2 DEF PicInv, Stack, NoService, Ending, PIT_IRQ, KEYBOARD_IRQ
  <1>5. ClockHeard'
    BY <1>1 DEF PicInv, ClockHeard, LineOf
  <1> QED
    BY <1>3, <1>4, <1>5 DEF PicInv

\* Steps that leave the controllers and the clock's line alone, and interrupts
\* on only with nothing in service.
LEMMA KeyboardStiStep ==
    ASSUME PicInv, KeyboardSti
    PROVE  PicInv'
  <1>1. /\ handlers # <<>> /\ Top = Ending
        /\ UNCHANGED <<requests, in_service, mask, master_mask, slave_mask,
                       entry, handlers, rtc_line>>
        /\ interrupt_on' = TRUE
    BY DEF KeyboardSti, chipVars, maskVars, Ending
  <1>2. PicTypes' /\ ClockHeard'
    <2>1. MaskTypes'
      BY <1>1 DEF PicInv, PicTypes, MaskTypes, Initialised
    <2> QED
      BY <1>1, <2>1 DEF PicInv, PicTypes, ClockHeard, Top, LineOf
  <1>3. Stack'
    BY <1>1 DEF PicInv, Stack, Top, InService, NoService, Initialised
  <1> QED
    BY <1>2, <1>3 DEF PicInv

\* When entry()'s stack is left for good, every device is initialised.
LEMMA LeaveStackStep ==
    ASSUME PicInv, LeaveStack
    PROVE  PicInv'
  <1>1. /\ handlers # <<>> /\ Top.at = "leave"
        /\ UNCHANGED <<requests, in_service, mask, master_mask, slave_mask, rtc_line>>
        /\ handlers' = <<>> /\ interrupt_on' = TRUE /\ entry' = "left"
        /\ Top.irq = KEYBOARD_IRQ => entry = "left"
    BY DEF LeaveStack, chipVars, maskVars
  <1>2. Top.irq \in {PIT_IRQ, KEYBOARD_IRQ}
    BY <1>1, HandlerFacts DEF PicInv, Stack, Handler, Devices
  <1>3. entry \in {"sti", "hlt", "left"}
    BY <1>1, <1>2 DEF PicInv, Stack, Initialised, PIT_IRQ, KEYBOARD_IRQ, RTC_IRQ
  <1>4. PicTypes'
    <2>1. MaskTypes'
      BY <1>1, <1>3 DEF PicInv, PicTypes, MaskTypes, Initialised, PIT_IRQ, KEYBOARD_IRQ,
                        RTC_IRQ
    <2>2. handlers' \in Seq(Handler)
      BY <1>1
    <2> QED
      BY <1>1, <2>1, <2>2 DEF PicInv, PicTypes
  <1>5. Stack'
    BY <1>1 DEF PicInv, Stack, NoService
  <1>6. ClockHeard'
    BY <1>1, <1>2 DEF PicInv, ClockHeard, LineOf, PIT_IRQ, KEYBOARD_IRQ, RTC_IRQ
  <1> QED
    BY <1>4, <1>5, <1>6 DEF PicInv

LEMMA CliStep ==
    ASSUME PicInv, Cli
    PROVE  PicInv'
  <1>1. /\ handlers = <<>> /\ handlers' = <<>>
        /\ UNCHANGED <<requests, in_service, mask, master_mask, slave_mask,
                       entry, handlers, rtc_line>>
        /\ interrupt_on' = ~interrupt_on
    BY DEF Cli, chipVars, maskVars
  <1>2. PicTypes' /\ ClockHeard'
    <2>1. MaskTypes'
      BY <1>1 DEF PicInv, PicTypes, MaskTypes, Initialised
    <2> QED
      BY <1>1, <2>1 DEF PicInv, PicTypes, ClockHeard, LineOf
  <1>3. Stack'
    BY <1>1 DEF PicInv, Stack, NoService
  <1> QED
    BY <1>2, <1>3 DEF PicInv

LEMMA AskStep ==
    ASSUME PicInv, NEW irq \in Devices, Ask(irq)
    PROVE  PicInv'
  <1>1. /\ UNCHANGED <<in_service, mask, master_mask, slave_mask, entry,
                       interrupt_on, handlers>>
        /\ requests' = [requests EXCEPT ![ChipOf(irq)] = @ \cup {LineOf(irq)}]
        /\ rtc_line' = (rtc_line \/ irq = RTC_IRQ)
    BY DEF Ask, maskVars
  <1>2. /\ requests' \in [Chip -> SUBSET Line]
        /\ requests'["master"] \subseteq {PIT_IRQ, KEYBOARD_IRQ}
        /\ requests'["slave"] \subseteq {0}
        /\ requests["slave"] \subseteq requests'["slave"]
        /\ irq = RTC_IRQ => LineOf(irq) \in requests'["slave"]
    BY <1>1, IrqFacts DEF PicInv, PicTypes, PIT_IRQ, KEYBOARD_IRQ, RTC_IRQ
  <1>3. PicTypes'
    <2>1. MaskTypes'
      BY <1>1 DEF PicInv, PicTypes, MaskTypes, Initialised
    <2> QED
      BY <1>1, <1>2, <2>1 DEF PicInv, PicTypes
  <1>4. Stack'
    BY <1>1 DEF PicInv, Stack, Top, InService, NoService, Initialised
  <1>5. ClockHeard'
    BY <1>1, <1>2 DEF PicInv, ClockHeard, Top, LineOf
  <1> QED
    BY <1>3, <1>4, <1>5 DEF PicInv

-----------------------------------------------------------------------------
\* entry() goes on, and the masks stay true to how far it is.
LEMMA BootsStep ==
    ASSUME PicInv, handlers = <<>>, MaskTypes', interrupt_on' \in BOOLEAN,
           entry' \in {"change_rate", "rtc_init", "pit_init", "sti", "hlt"},
           UNCHANGED <<requests, in_service, handlers, rtc_line>>
    PROVE  PicInv'
  <1>1. PicTypes'
    BY DEF PicInv, PicTypes
  <1>2. Stack' /\ ClockHeard'
    BY DEF PicInv, Stack, ClockHeard, NoService, LineOf
  <1> QED
    BY <1>1, <1>2 DEF PicInv

LEMMA BootStep ==
    ASSUME PicInv, Boot
    PROVE  PicInv'
  <1> USE DEF Boots, PicInv, PicTypes
  <1>1. CASE KeyboardInit
    <2>1. /\ entry = "keyboard_init" /\ entry' = "change_rate" /\ slave_mask' = slave_mask
          /\ master_mask' = master_mask \ {1}
          /\ mask' = [mask EXCEPT !["master"] = master_mask']
      BY <1>1 DEF KeyboardInit, enable_irq, KEYBOARD_IRQ, SLAVE_OFFSET
    <2>2. mask' = [c \in Chip |-> IF c = "master" THEN master_mask' ELSE slave_mask']
      BY <2>1 DEF MaskTypes, Chip
    <2>3. /\ ~Initialised(KEYBOARD_IRQ) /\ Initialised(KEYBOARD_IRQ)'
          /\ ~Initialised(RTC_IRQ) /\ ~Initialised(RTC_IRQ)'
          /\ ~Initialised(PIT_IRQ) /\ ~Initialised(PIT_IRQ)'
      BY <2>1 DEF Initialised, PIT_IRQ, KEYBOARD_IRQ, RTC_IRQ
    <2>4. MaskTypes'
      BY <2>1, <2>2, <2>3 DEF MaskTypes, PIT_IRQ, KEYBOARD_IRQ, Line
    <2> QED
      BY <1>1, <2>1, <2>4, BootsStep DEF KeyboardInit
  <1>2. CASE ChangeRate
    <2>1. MaskTypes'
      BY <1>2 DEF ChangeRate, maskVars, MaskTypes, Initialised, Chip, PIT_IRQ,
                  KEYBOARD_IRQ, RTC_IRQ
    <2> QED
      BY <1>2, <2>1, BootsStep DEF ChangeRate
  <1>3. CASE RtcInit
    <2>1. /\ entry = "rtc_init" /\ entry' = "pit_init" /\ master_mask' = master_mask
          /\ slave_mask' = slave_mask \ {0}
          /\ mask' = [mask EXCEPT !["slave"] = slave_mask']
      BY <1>3 DEF RtcInit, enable_irq, RTC_IRQ, SLAVE_OFFSET
    <2>2. mask' = [c \in Chip |-> IF c = "master" THEN master_mask' ELSE slave_mask']
      BY <2>1 DEF MaskTypes, Chip
    <2>3. /\ Initialised(KEYBOARD_IRQ) /\ Initialised(KEYBOARD_IRQ)'
          /\ ~Initialised(RTC_IRQ) /\ Initialised(RTC_IRQ)'
          /\ ~Initialised(PIT_IRQ) /\ ~Initialised(PIT_IRQ)'
      BY <2>1 DEF Initialised, PIT_IRQ, KEYBOARD_IRQ, RTC_IRQ
    <2>4. MaskTypes'
      BY <2>1, <2>2, <2>3 DEF MaskTypes, PIT_IRQ, KEYBOARD_IRQ, Line
    <2> QED
      BY <1>3, <2>1, <2>4, BootsStep DEF RtcInit
  <1>4. CASE PitInit
    <2>1. /\ entry = "pit_init" /\ entry' = "sti" /\ slave_mask' = slave_mask
          /\ master_mask' = master_mask \ {0}
          /\ mask' = [mask EXCEPT !["master"] = master_mask']
      BY <1>4 DEF PitInit, enable_irq, PIT_IRQ, SLAVE_OFFSET
    <2>2. mask' = [c \in Chip |-> IF c = "master" THEN master_mask' ELSE slave_mask']
      BY <2>1 DEF MaskTypes, Chip
    <2>3. /\ Initialised(KEYBOARD_IRQ) /\ Initialised(KEYBOARD_IRQ)'
          /\ Initialised(RTC_IRQ) /\ Initialised(RTC_IRQ)'
          /\ ~Initialised(PIT_IRQ) /\ Initialised(PIT_IRQ)'
      BY <2>1 DEF Initialised, PIT_IRQ, KEYBOARD_IRQ, RTC_IRQ
    <2>4. MaskTypes'
      BY <2>1, <2>2, <2>3 DEF MaskTypes, PIT_IRQ, KEYBOARD_IRQ, Line
    <2> QED
      BY <1>4, <2>1, <2>4, BootsStep DEF PitInit
  <1>5. CASE Sti
    <2>1. MaskTypes'
      BY <1>5 DEF Sti, maskVars, MaskTypes, Initialised, Chip, PIT_IRQ, KEYBOARD_IRQ,
                  RTC_IRQ
    <2> QED
      BY <1>5, <2>1, BootsStep DEF Sti
  <1> QED
    BY <1>1, <1>2, <1>3, <1>4, <1>5 DEF Boot

-----------------------------------------------------------------------------
LEMMA PicStep == PicInv /\ [PicNext]_picVars => PicInv'
  <1> SUFFICES ASSUME PicInv, [PicNext]_picVars PROVE PicInv'
    OBVIOUS
  <1>1. CASE PicNext
    BY <1>1, BootStep, InterruptStep, HandlersStep, ReturnStep, KeyboardStiStep,
       LeaveStackStep, CliStep, AskStep DEF PicNext
  <1>2. CASE UNCHANGED picVars
    BY <1>2 DEF PicInv, PicTypes, MaskTypes, Initialised, Stack, ClockHeard, Top,
                InService, NoService, LineOf, picVars
  <1> QED
    BY <1>1, <1>2

\* With nothing in service, what an initialised device asked for is ready.
LEMMA HeardWhenOn ==
    ASSUME PicInv, interrupt_on, NEW irq \in Devices, Initialised(irq),
           LineOf(irq) \in requests[ChipOf(irq)]
    PROVE  (IF irq < SLAVE_OFFSET THEN irq ELSE CASCADE) \in MasterReady
  <1>1. in_service = NoService
    BY DEF PicInv, Stack, Ending
  <1>2. /\ mask["master"] = master_mask /\ mask["slave"] = slave_mask
        /\ CASCADE \notin master_mask
        /\ irq \in {0, 1} => irq \notin master_mask
        /\ irq = 8 => 0 \notin slave_mask
    BY DEF PicInv, PicTypes, MaskTypes, Chip, PIT_IRQ, KEYBOARD_IRQ, RTC_IRQ
  <1>3. CASE irq \in {0, 1}
    BY <1>1, <1>2, <1>3, IrqFacts
    DEF MasterReady, Ready, NoService, PIT_IRQ, KEYBOARD_IRQ, SLAVE_OFFSET
  <1>4. CASE irq = 8
    <2>1. 0 \in SlaveReady
      BY <1>1, <1>2, <1>4, IrqFacts DEF SlaveReady, Ready, NoService
    <2> QED
      BY <1>1, <1>2, <1>4, <2>1, IrqFacts
      DEF MasterReady, Ready, NoService, SLAVE_OFFSET
  <1> QED
    BY <1>3, <1>4, IrqFacts

\* From the first device that entry() initialises on, whatever the order of
\* requests and however deep the keyboard's handlers are nested, every way out
\* of a handler has told both controllers before the processor can be
\* interrupted again (i8259.c:88-99, keyboard.c:177-266).
THEOREM NoInterruptLost == PicSpec => []InterruptsHeard
  <1>1. PicSpec => []PicInv
    BY PicInitInv, PicStep, PTL DEF PicSpec
  <1>2. PicInv => InterruptsHeard
    <2> SUFFICES ASSUME PicInv PROVE InterruptsHeard
      OBVIOUS
    <2>1. interrupt_on => \A c \in Chip : in_service[c] = {}
      BY DEF PicInv, Stack, NoService, Ending
    <2>2. ASSUME interrupt_on, NEW irq \in Devices, Initialised(irq),
                 LineOf(irq) \in requests[ChipOf(irq)]
          PROVE  \E l \in MasterReady :
                     l <= IF irq < SLAVE_OFFSET THEN irq ELSE CASCADE
      BY <2>2, HeardWhenOn, IrqFacts DEF SLAVE_OFFSET, CASCADE
    <2>3. rtc_line => \/ LineOf(RTC_IRQ) \in requests["slave"]
                      \/ \E i \in DOMAIN handlers : handlers[i].irq = RTC_IRQ
      BY HandlerFacts DEF PicInv, ClockHeard, Top
    <2> QED
      BY <2>1, <2>2, <2>3 DEF InterruptsHeard
  <1> QED
    BY <1>1, <1>2, PTL
=============================================================================
