--------------------------------- MODULE Rtc ---------------------------------
(***************************************************************************)
(* The virtualized real-time clock (rtc.c, and the parts of sys_open,      *)
(* sys_read and sys_close that lead to it).                                *)
(*                                                                         *)
(* The chip interrupts at RTC_FREQ_MAX; rtc_handler counts the ticks and   *)
(* raises one flag for the whole system.  rtc_read spins twice with        *)
(* interrupts on, first for the flag, then for a tick that is a multiple   *)
(* of the descriptor's period, and lowers the flag: the readers of several *)
(* terminals run into each other there, and each of them has the CPU only  *)
(* during the time slices of its terminal.                                 *)
(*                                                                         *)
(* A terminal stands for its foreground process, the only one of the       *)
(* terminal that can be in rtc_read; it has at most one RTC descriptor.    *)
(***************************************************************************)
EXTENDS Integers

CONSTANTS
    TER_NUM,       \* keyboard.h: number of terminals (3)
    RTC_FREQ_MAX,  \* rtc.h: frequency of the chip (1024)
    RTC_FREQ_MIN,  \* rtc.h: lowest virtual frequency (2)
    TICK_MAX,      \* largest value of the int32_t tick_counter (2^31 - 1)
    SLICE_MIN,     \* a time slice of 1/100 s has 10 or 11 ticks
    SLICE_MAX,
    Readers,       \* terminals whose programs use the clock
    Requests       \* frequencies they ask for

Ter == 0 .. TER_NUM - 1

\* The period of a new descriptor: the virtual frequency 2 Hz.
MaxPeriod == (RTC_FREQ_MAX \div RTC_FREQ_MIN) \div TER_NUM

ASSUME RtcAssumption ==
    /\ TER_NUM \in Nat \ {0}
    /\ RTC_FREQ_MIN \in Nat \ {0}
    /\ RTC_FREQ_MAX \in Nat /\ RTC_FREQ_MIN <= RTC_FREQ_MAX
    /\ TICK_MAX \in Nat
    /\ SLICE_MIN \in Nat \ {0}
    /\ SLICE_MAX \in Nat /\ SLICE_MIN <= SLICE_MAX
    /\ Readers \subseteq Ter
    /\ Requests \subseteq Int

VARIABLES
    tick_counter,
    interrupt_flag,
    flag,      \* per terminal: the RTC descriptor is in use
    file_pos,  \* per terminal: the period, in ticks, of the RTC descriptor
    pc,        \* per terminal: where its program is
    cpu,       \* the terminal whose time slice it is
    slice,     \* ticks in the time slice so far
    fresh      \* history: a tick came since the terminal last saw a due tick

vars == <<tick_counter, interrupt_flag, flag, file_pos, pc, cpu, slice, fresh>>

\* "user": in the program; "flag", "tick": in the first and the second loop of
\* rtc_read; "clear": past the loops; "dead": halted by an exception.
Place == {"user", "flag", "tick", "clear", "dead"}

TypeOK ==
    /\ tick_counter \in (-TICK_MAX - 1) .. TICK_MAX
    /\ interrupt_flag \in BOOLEAN
    /\ flag \in [Readers -> BOOLEAN]
    /\ file_pos \in [Readers -> 0 .. MaxPeriod]
    /\ pc \in [Readers -> Place]
    /\ cpu \in Ter
    /\ slice \in 0 .. SLICE_MAX
    /\ fresh \in [Readers -> BOOLEAN]

Init ==
    /\ tick_counter = 0
    /\ interrupt_flag = FALSE
    /\ flag = [t \in Readers |-> FALSE]
    /\ file_pos = [t \in Readers |-> 0]
    /\ pc = [t \in Readers |-> "user"]
    /\ cpu = 0
    /\ slice = 0
    /\ fresh = [t \in Readers |-> FALSE]

-----------------------------------------------------------------------------
(***************************************************************************)
(* Slips one could make in the operators below.                            *)
(***************************************************************************)
AnyPowerOfTwo(freq) == \E k \in 0 .. 30 : freq = 2^k  \* for ValidFrequency
FlagKept            == interrupt_flag                \* for FlagAfterRead
FlagNotRaised       == interrupt_flag                \* for FlagAfterTick

-----------------------------------------------------------------------------
FlagAfterTick == TRUE
FlagAfterRead == FALSE

\* rtc_handler: the counter is signed and wraps around.
RtcHandler ==
    /\ slice < SLICE_MAX
    /\ slice' = slice + 1
    /\ tick_counter' = IF tick_counter = TICK_MAX THEN -TICK_MAX - 1
                       ELSE tick_counter + 1
    /\ interrupt_flag' = FlagAfterTick
    /\ fresh' = [t \in Readers |-> TRUE]
    /\ UNCHANGED <<flag, file_pos, pc, cpu>>

\* pit_handler: the next terminal's time slice.
Slice ==
    /\ slice >= SLICE_MIN
    /\ cpu' = (cpu + 1) % TER_NUM
    /\ slice' = 0
    /\ UNCHANGED <<tick_counter, interrupt_flag, flag, file_pos, pc, fresh>>

-----------------------------------------------------------------------------
(***************************************************************************)
(* The program of terminal t.                                              *)
(***************************************************************************)
clockVars == <<tick_counter, interrupt_flag, cpu, slice>>

At(t, place) == cpu = t /\ pc[t] = place
GoTo(t, place) == pc' = [pc EXCEPT ![t] = place]

Open(t) ==
    /\ At(t, "user") /\ ~flag[t]
    /\ flag' = [flag EXCEPT ![t] = TRUE]
    /\ file_pos' = [file_pos EXCEPT ![t] = MaxPeriod]
    /\ UNCHANGED <<clockVars, pc, fresh>>

\* sys_close and rtc_close.
Close(t) ==
    /\ At(t, "user") /\ flag[t]
    /\ flag' = [flag EXCEPT ![t] = FALSE]
    /\ file_pos' = [file_pos EXCEPT ![t] = MaxPeriod]
    /\ UNCHANGED <<clockVars, pc, fresh>>

\* The test of rtc_write: in range and a power of two.
ValidFrequency(freq) ==
    /\ RTC_FREQ_MIN <= freq /\ freq <= RTC_FREQ_MAX
    /\ \E k \in 0 .. 30 : freq = 2^k

\* rtc_write.  A frequency that fails the test changes nothing.
Write(t, freq) ==
    /\ At(t, "user") /\ flag[t]
    /\ ValidFrequency(freq)
    /\ file_pos' = [file_pos EXCEPT ![t] = (RTC_FREQ_MAX \div freq) \div TER_NUM]
    /\ UNCHANGED <<clockVars, flag, pc, fresh>>

\* rtc_read, up to its first loop.
Read(t) ==
    /\ At(t, "user") /\ flag[t]
    /\ GoTo(t, "flag")
    /\ UNCHANGED <<clockVars, flag, file_pos, fresh>>

\* while (!interrupt_flag);
SeeFlag(t) ==
    /\ At(t, "flag") /\ interrupt_flag
    /\ GoTo(t, "tick")
    /\ UNCHANGED <<clockVars, flag, file_pos, fresh>>

\* while (tick_counter % file_pos != 0);
SeeTick(t) ==
    /\ At(t, "tick")
    /\ file_pos[t] # 0 /\ tick_counter % file_pos[t] = 0
    /\ GoTo(t, "clear")
    /\ fresh' = [fresh EXCEPT ![t] = FALSE]
    /\ UNCHANGED <<clockVars, flag, file_pos>>

\* The same with a period of 0: a divide error, so exception_halt.
DivideError(t) ==
    /\ At(t, "tick") /\ file_pos[t] = 0
    /\ GoTo(t, "dead")
    /\ flag' = [flag EXCEPT ![t] = FALSE]
    /\ UNCHANGED <<clockVars, file_pos, fresh>>

\* interrupt_flag = 0; return 0;
Return(t) ==
    /\ At(t, "clear")
    /\ interrupt_flag' = FlagAfterRead
    /\ GoTo(t, "user")
    /\ UNCHANGED <<tick_counter, cpu, slice, flag, file_pos, fresh>>

\* The terminal's next program, whose PCB init_pcb has just filled in.
Replace(t) ==
    /\ At(t, "dead")
    /\ GoTo(t, "user")
    /\ file_pos' = [file_pos EXCEPT ![t] = 0]
    /\ UNCHANGED <<clockVars, flag, fresh>>

Program(t) ==
    \/ Open(t) \/ Close(t) \/ Read(t)
    \/ SeeFlag(t) \/ SeeTick(t) \/ DivideError(t) \/ Return(t) \/ Replace(t)
    \/ \E freq \in Requests : Write(t, freq)

Next ==
    \/ RtcHandler
    \/ Slice
    \/ \E t \in Readers : Program(t)

Spec == Init /\ [][Next]_vars

\* Both clocks run.  A spinning program that has the CPU again and again while
\* its condition holds sees it: an iteration takes nanoseconds, a tick a
\* millisecond.
Fairness ==
    /\ WF_vars(RtcHandler)
    /\ WF_vars(Slice)
    /\ \A t \in Readers :
          SF_vars(SeeFlag(t)) /\ SF_vars(SeeTick(t)) /\ SF_vars(Return(t))

FairSpec == Spec /\ Fairness

-----------------------------------------------------------------------------
\* Two reads of one program never return for the same tick, although the flag
\* and the counter they wait for are shared by all readers and a tick can come
\* between any two of their steps (rtc_read).
OneReadPerTick == \A t \in Readers : pc[t] = "tick" => fresh[t]

\* A read returns, even while the readers of other terminals lower the flag it
\* waits for, when its period is no longer than a time slice (rtc_read).
ReadReturns ==
    \A t \in Readers :
        pc[t] = "flag" /\ file_pos[t] \in 1 .. SLICE_MIN ~> pc[t] = "user"

\* rtc_write accepts only frequencies that rtc_read can serve, as the tests
\* take for granted; the code does not keep to it (see README.md).
NoDivideError == \A t \in Readers : pc[t] # "dead"
=============================================================================
