------------------------------ MODULE RtcProofs ------------------------------
(***************************************************************************)
(* Proofs about the real-time clock, for any number of readers, any        *)
(* frequencies and any width of the tick counter.                          *)
(***************************************************************************)
EXTENDS Rtc, TLAPS

\* While the flag is up every terminal has seen a tick since it last saw a due
\* one, except a terminal that is about to lower the flag.
FlagIsFresh ==
    interrupt_flag => \A t \in Readers : fresh[t] \/ pc[t] = "clear"

RtcInv == TypeOK /\ FlagIsFresh /\ OneReadPerTick

\* Dividing by more gives no more.
LEMMA DivMonotone ==
  ASSUME NEW a \in Nat, NEW b \in Nat \ {0}, NEW c \in Nat, b <= c
  PROVE  a \div c <= a \div b /\ a \div c \in Nat
  <1> DEFINE p == a \div b
             q == a \div c
  <1>1. p \in Nat /\ q \in Nat
    BY SMT
  <1>2. c * q <= a
    BY SMT
  <1>3. a < b * (p + 1)
    BY SMT
  <1>4. b * q <= c * q
    BY <1>1, SMT
  <1>5. b * q < b * (p + 1)
    BY <1>1, <1>2, <1>3, <1>4, SMT
  <1>6. q < p + 1
    BY <1>1, <1>5, SMT
  <1> QED BY <1>1, <1>6

-----------------------------------------------------------------------------
\* The periods rtc_write computes and the one of a new descriptor.
LEMMA PeriodType ==
  ASSUME NEW freq \in Int, ValidFrequency(freq)
  PROVE  /\ MaxPeriod \in Nat
         /\ (RTC_FREQ_MAX \div freq) \div TER_NUM \in 0 .. MaxPeriod
  <1> DEFINE q == RTC_FREQ_MAX \div freq
             m == RTC_FREQ_MAX \div RTC_FREQ_MIN
  <1>1. freq \in Nat /\ RTC_FREQ_MIN <= freq
    BY RtcAssumption DEF ValidFrequency
  <1>2. q \in Nat /\ m \in Nat /\ q <= m
    <2>1. q \in Nat /\ q <= m
      BY <1>1, RtcAssumption, DivMonotone
    <2>2. m \in Nat
      BY RtcAssumption, DivMonotone
    <2> QED BY <2>1, <2>2
  <1> HIDE DEF q, m
  <1>3. q \div TER_NUM \in Nat /\ m \div TER_NUM \in Nat
    BY <1>2, RtcAssumption, SMT
  <1>4. q \div TER_NUM <= m \div TER_NUM
    BY <1>2, RtcAssumption, SMT
  <1> QED BY <1>3, <1>4 DEF MaxPeriod, q, m

\* The period of a new descriptor needs no frequency.
LEMMA MaxPeriodType == MaxPeriod \in Nat
  <1>1. RTC_FREQ_MAX \div RTC_FREQ_MIN \in Nat
    BY RtcAssumption, DivMonotone
  <1> QED BY <1>1, RtcAssumption, SMT DEF MaxPeriod

\* The state after boot.
LEMMA RtcInit == Init => RtcInv
  <1> SUFFICES ASSUME Init PROVE RtcInv
    OBVIOUS
  <1>1. 0 \in (-TICK_MAX - 1) .. TICK_MAX /\ 0 \in 0 .. SLICE_MAX /\ 0 \in Ter
    BY RtcAssumption DEF Ter
  <1>2. 0 \in 0 .. MaxPeriod
    BY MaxPeriodType
  <1>3. TypeOK
    BY <1>1, <1>2 DEF Init, TypeOK, Place
  <1> QED BY <1>3 DEF Init, RtcInv, FlagIsFresh, OneReadPerTick

\* The two interrupts.
LEMMA InterruptInv == ASSUME RtcInv, RtcHandler \/ Slice PROVE RtcInv'
  <1>1. CASE RtcHandler
    <2>1. tick_counter' \in (-TICK_MAX - 1) .. TICK_MAX /\ slice' \in 0 .. SLICE_MAX
      BY <1>1, RtcAssumption DEF RtcInv, TypeOK, RtcHandler
    <2>2. TypeOK'
      BY <1>1, <2>1 DEF RtcInv, TypeOK, RtcHandler, FlagAfterTick
    <2> QED BY <1>1, <2>2 DEF RtcInv, FlagIsFresh, OneReadPerTick, RtcHandler
  <1>2. CASE Slice
    <2>1. cpu' \in Ter /\ slice' \in 0 .. SLICE_MAX
      BY <1>2, RtcAssumption DEF RtcInv, TypeOK, Slice, Ter
    <2> QED BY <1>2, <2>1
            DEF RtcInv, TypeOK, FlagIsFresh, OneReadPerTick, Slice
  <1> QED BY <1>1, <1>2

\* Opening, closing and setting the frequency move no program.
LEMMA DescriptorInv ==
  ASSUME RtcInv, NEW t \in Readers,
         Open(t) \/ Close(t) \/ \E freq \in Requests : Write(t, freq)
  PROVE  RtcInv'
  <1>1. /\ UNCHANGED <<clockVars, pc, fresh>>
        /\ flag' \in [Readers -> BOOLEAN]
    BY DEF RtcInv, TypeOK, Open, Close, Write
  <1>2. file_pos' \in [Readers -> 0 .. MaxPeriod]
    <2>1. CASE Open(t) \/ Close(t)
      BY <2>1, MaxPeriodType DEF RtcInv, TypeOK, Open, Close
    <2>2. ASSUME NEW freq \in Requests, Write(t, freq)
          PROVE  file_pos' \in [Readers -> 0 .. MaxPeriod]
      <3>1. (RTC_FREQ_MAX \div freq) \div TER_NUM \in 0 .. MaxPeriod
        BY <2>2, PeriodType, RtcAssumption DEF Write
      <3> QED BY <2>2, <3>1 DEF RtcInv, TypeOK, Write
    <2> QED BY <2>1, <2>2
  <1> QED BY <1>1, <1>2
          DEF RtcInv, TypeOK, FlagIsFresh, OneReadPerTick, clockVars

\* The steps of rtc_read and what follows a divide error.
LEMMA ReadInv ==
  ASSUME RtcInv, NEW t \in Readers,
         \/ Read(t) \/ SeeFlag(t) \/ SeeTick(t) \/ DivideError(t)
         \/ Return(t) \/ Replace(t)
  PROVE  RtcInv'
  <1>1. /\ UNCHANGED <<tick_counter, cpu, slice>>
        /\ interrupt_flag' \in BOOLEAN
        /\ flag' \in [Readers -> BOOLEAN] /\ fresh' \in [Readers -> BOOLEAN]
        /\ pc' \in [Readers -> Place]
    BY DEF RtcInv, TypeOK, Place, Read, SeeFlag, SeeTick, DivideError, Return,
           Replace, GoTo, FlagAfterRead, clockVars
  <1>2. file_pos' \in [Readers -> 0 .. MaxPeriod]
    BY MaxPeriodType
       DEF RtcInv, TypeOK, Read, SeeFlag, SeeTick, DivideError, Return, Replace
  <1>3. TypeOK'
    BY <1>1, <1>2 DEF RtcInv, TypeOK
  <1>4. FlagIsFresh'
    BY DEF RtcInv, TypeOK, FlagIsFresh, Read, SeeFlag, SeeTick, DivideError,
           Return, Replace, GoTo, At, FlagAfterRead, clockVars
  <1>5. OneReadPerTick'
    BY DEF RtcInv, TypeOK, FlagIsFresh, OneReadPerTick, Read, SeeFlag, SeeTick,
           DivideError, Return, Replace, GoTo, At, clockVars
  <1> QED BY <1>3, <1>4, <1>5 DEF RtcInv

\* Every step preserves the invariant.
LEMMA RtcNext == ASSUME RtcInv, [Next]_vars PROVE RtcInv'
  <1>1. CASE RtcHandler \/ Slice
    BY <1>1, InterruptInv
  <1>2. ASSUME NEW t \in Readers, Program(t) PROVE RtcInv'
    BY <1>2, DescriptorInv, ReadInv DEF Program
  <1>3. CASE UNCHANGED vars
    BY <1>3 DEF RtcInv, TypeOK, FlagIsFresh, OneReadPerTick, vars
  <1> QED BY <1>1, <1>2, <1>3 DEF Next

\* The inductive invariant holds in every reachable state.
THEOREM RtcInvariant == Spec => []RtcInv
  BY RtcInit, RtcNext, PTL DEF Spec

\* No read ever returns for a tick that its program has already been given,
\* however many terminals read the clock (rtc.c, rtc_read).
THEOREM ReadsDistinctTicks == Spec => []OneReadPerTick
  BY RtcInvariant, PTL DEF RtcInv

\* Every period rtc_write accepts is at most the one of 2 Hz, and the tick
\* counter stays a signed integer of its width (rtc.c).
THEOREM RtcTypeCorrect == Spec => []TypeOK
  BY RtcInvariant, PTL DEF RtcInv
=============================================================================
