----------------------------- MODULE ProcessProofs -----------------------------
(***************************************************************************)
(* Proofs for every number of processes and terminals: about Process,      *)
(* whatever the programs and the user do; then about the kernel in an      *)
(* orderly environment, and that it implements JobControl there.           *)
(***************************************************************************)
EXTENDS ProcessRefinement, FiniteSetTheorems, SequenceTheorems, TLAPS

\* Until the first shell starts the process table is empty.
BootState ==
    esp = NULL =>
        /\ process_cnt = 0
        /\ \A p \in Pid : frame[p] = "none" /\ parent_pointer[p] = NULL

\* A process is never recorded as its own parent.
NotOwnParent == \A p \in Pid : parent_pointer[p] # p

\* The inductive invariant.  CpuAgrees tells which stack an operation leaves,
\* LiveIsAllocated that a new pid is none of the live ones, and NotOwnParent
\* that flipping the bit of a halted process leaves its parent's bit alone.
ProcessInv ==
    /\ TypeOK
    /\ CpuAgrees
    /\ LiveIsAllocated
    /\ BootState
    /\ NotOwnParent

-----------------------------------------------------------------------------
\* The round robin always picks a terminal.
LEMMA NextTerType == ASSUME TypeOK PROVE NextTer \in Ter
  BY ProcessAssumption DEF TypeOK, NextTer, Ter

\* The invariant holds when entry() has booted the machine.
LEMMA InitInv == Init => ProcessInv
  <1> SUFFICES ASSUME Init PROVE ProcessInv
    OBVIOUS
  <1>1. 0 \in Pid /\ 0 \in Ter
    BY ProcessAssumption DEF Pid, Ter
  <1>2. TypeOK
    BY <1>1, ProcessAssumption DEF Init, TypeOK, Frame, Fault, VideoPage
  <1>3. CpuAgrees /\ LiveIsAllocated /\ BootState
    BY DEF Init, CpuAgrees, LiveIsAllocated, Live, BootState
  <1>4. NotOwnParent
    BY ProcessAssumption DEF Init, NotOwnParent
  <1> QED BY <1>2, <1>3, <1>4 DEF ProcessInv

\* A step that only sets fault.
LEMMA CrashInv ==
  ASSUME ProcessInv, NEW why \in Fault \ {"none"}, Crash(why),
         pit_cnt' \in 0 .. PIT_MAX, active_ter' \in Ter,
         {video_map', user_map'} \subseteq VideoPage
  PROVE  ProcessInv'
  <1>1. TypeOK'
    BY DEF ProcessInv, TypeOK, Crash, procVars
  <1>2. CpuAgrees'
    BY DEF CpuAgrees, Crash
  <1>3. LiveIsAllocated' /\ BootState' /\ NotOwnParent'
    BY DEF ProcessInv, LiveIsAllocated, Live, BootState, NotOwnParent, Crash,
           procVars
  <1> QED BY <1>1, <1>2, <1>3 DEF ProcessInv

\* Starting a process, whoever had the CPU before: the stack left behind must
\* not be marked as the CPU's, and the parent, if any, must be live.
LEMMA StartInv ==
  ASSUME ProcessInv, NEW p \in NextPid, NEW ter \in Ter,
         NEW parent \in Live \cup {NULL}, NEW left \in [Pid -> Frame],
         \A q \in Pid : left[q] # "cpu",
         \A q \in Pid : left[q] # "none" => q \in avail_pid,
         process_cnt < MAX_PROCESS,
         StartProcess(p, ter, parent, left),
         terminal_pid' \in [Ter -> Pid \cup {NO_PID}],
         pit_cnt' \in 0 .. PIT_MAX, active_ter' \in Ter,
         {video_map', user_map'} \subseteq VideoPage
  PROVE  ProcessInv'
  <1>1. p \in Pid /\ p \notin avail_pid
    BY DEF NextPid, FreePid
  <1>2. parent \in Pid \cup {NULL} /\ parent # p
    BY <1>1, ProcessAssumption DEF ProcessInv, LiveIsAllocated, Live
  <1>3. process_cnt' \in 0 .. UINT_MAX
    BY ProcessAssumption DEF ProcessInv, TypeOK, StartProcess, task_init, init_pcb
  <1>4. TypeOK'
    BY <1>1, <1>2, <1>3 DEF ProcessInv, TypeOK, StartProcess, task_init,
                            init_pcb, Frame, Fault
  <1>5. CpuAgrees'
    BY <1>1 DEF CpuAgrees, StartProcess, task_init, init_pcb
  <1>6. LiveIsAllocated'
    BY <1>1 DEF LiveIsAllocated, Live, StartProcess, task_init, init_pcb
  <1>7. BootState'
    BY <1>1, ProcessAssumption DEF BootState, StartProcess, task_init, init_pcb
  <1>8. NotOwnParent'
    BY <1>1, <1>2 DEF ProcessInv, TypeOK, NotOwnParent, StartProcess, task_init,
                      init_pcb
  <1> QED BY <1>4, <1>5, <1>6, <1>7, <1>8 DEF ProcessInv

\* Halting a process from any stack.
LEMMA HaltToInv ==
  ASSUME ProcessInv, esp # NULL, fault = "none", NEW p \in Pid, HasParent(p),
         HaltTo(p), UNCHANGED <<pit_cnt, active_ter, mapVars>>
  PROVE  ProcessInv'
  <1> DEFINE par == parent_pointer[p]
  <1>1. par \in Pid /\ par # p
    BY DEF ProcessInv, TypeOK, NotOwnParent, HasParent
  <1>2. esp \in Pid /\ get_pcb = esp /\ frame[esp] = "cpu"
    BY DEF ProcessInv, TypeOK, CpuAgrees, get_pcb
  <1>3. CASE frame[par] # "execute"
    <2>1. Crash("dead_frame")
      BY <1>3 DEF HaltTo
    <2> QED BY <2>1, CrashInv DEF ProcessInv, TypeOK, Fault, mapVars
  <1>4. CASE frame[par] = "execute"
    <2>1. par # esp
      BY <1>2, <1>4
    <2>2. frame' = [frame EXCEPT ![esp] = "lost", ![p] = "none", ![par] = "cpu"]
      BY <1>2, <1>4 DEF HaltTo, ReturnToParent
    <2>3. /\ active_process' = par /\ page' = par /\ esp0' = par /\ esp' = par
          /\ fault' = "none" /\ UNCHANGED <<parent_pointer, terminal>>
          /\ process_cnt' = Decrement(process_cnt) /\ avail_pid' = FlipBit(p)
          /\ stdio_open' = [stdio_open EXCEPT ![esp] = FALSE]
          /\ terminal_pid' = [terminal_pid EXCEPT ![terminal[par]] = par]
      BY <1>2, <1>4 DEF HaltTo, CloseFds, ParentForeground
    <2>4. process_cnt' \in 0 .. UINT_MAX
      BY <2>3, ProcessAssumption DEF ProcessInv, TypeOK, Decrement
    <2>5. avail_pid' \subseteq Pid
      BY <2>3 DEF ProcessInv, TypeOK, FlipBit
    <2>6. frame' \in [Pid -> Frame]
      BY <1>1, <1>2, <2>2 DEF ProcessInv, TypeOK, Frame
    <2>7. TypeOK'
      BY <1>1, <1>2, <2>3, <2>4, <2>5, <2>6
         DEF ProcessInv, TypeOK, Fault, mapVars
    <2>8. CpuAgrees'
      <3>1. \A q \in Pid : frame'[q] = "cpu" <=> q = par
        BY <1>1, <1>2, <2>1, <2>2 DEF ProcessInv, TypeOK, CpuAgrees
      <3> QED BY <2>3, <3>1 DEF CpuAgrees
    <2>9. LiveIsAllocated'
      <3>1. esp \in avail_pid /\ par \in avail_pid
        BY <1>1, <1>2, <1>4 DEF ProcessInv, LiveIsAllocated, Live
      <3>2. \A q \in Pid : frame'[q] # "none" => q # p /\ q \in avail_pid
        BY <1>1, <1>2, <2>2, <3>1
           DEF ProcessInv, TypeOK, LiveIsAllocated, Live
      <3> QED BY <2>3, <3>2 DEF LiveIsAllocated, Live, FlipBit
    <2>10. BootState' /\ NotOwnParent'
      BY <1>1, <2>3, ProcessAssumption DEF ProcessInv, BootState, NotOwnParent
    <2> QED BY <2>7, <2>8, <2>9, <2>10 DEF ProcessInv
  <1> QED BY <1>3, <1>4

-----------------------------------------------------------------------------
\* exception_halt from the current stack.
LEMMA ExceptionHaltBodyInv ==
  ASSUME ProcessInv, fault = "none", ExceptionHaltBody,
         UNCHANGED <<pit_cnt, active_ter, mapVars>>
  PROVE  ProcessInv'
  <1>1. get_pcb \in Pid
    <2>1. 0 \in Pid
      BY ProcessAssumption DEF Pid
    <2> QED BY <2>1 DEF ProcessInv, TypeOK, get_pcb
  <1>2. CASE HasParent(get_pcb)
    <2>1. esp # NULL
      BY <1>1, <1>2 DEF ProcessInv, BootState, HasParent
    <2>2. HaltTo(get_pcb)
      BY <1>2 DEF ExceptionHaltBody
    <2> QED BY <1>1, <1>2, <2>1, <2>2, HaltToInv
  <1>3. CASE ~HasParent(get_pcb)
    <2>1. Crash("null_parent")
      BY <1>3 DEF ExceptionHaltBody
    <2> QED BY <2>1, CrashInv DEF ProcessInv, TypeOK, Fault, mapVars
  <1> QED BY <1>2, <1>3

\* The programs' own operations.
LEMMA ExecuteInv == ASSUME ProcessInv, Execute PROVE ProcessInv'
  <1>1. esp \in Pid /\ esp \in Live /\ fault = "none"
    BY DEF ProcessInv, TypeOK, CpuAgrees, Execute, Running, Live
  <1>2. CASE FreePid = {} /\ Crash("no_pid")
    BY <1>2, CrashInv DEF ProcessInv, TypeOK, Execute, Fault, mapVars
  <1>3. ASSUME NEW p \in NextPid, StartProcess(p, ChildTerminal, esp, Called),
               terminal_pid' = [terminal_pid EXCEPT ![active_ter] = p]
        PROVE  ProcessInv'
    <2>1. Called \in [Pid -> Frame]
      BY DEF ProcessInv, TypeOK, Called, Frame
    <2>2. \A q \in Pid : Called[q] # "cpu"
      BY <1>1 DEF ProcessInv, TypeOK, CpuAgrees, Called, Execute, Running
    <2>3. \A q \in Pid : Called[q] # "none" => q \in avail_pid
      BY <1>1 DEF ProcessInv, TypeOK, LiveIsAllocated, Live, Called
    <2>4. p \in Pid
      BY <1>3 DEF NextPid, FreePid
    <2>5. /\ terminal_pid' \in [Ter -> Pid \cup {NO_PID}]
          /\ pit_cnt' \in 0 .. PIT_MAX /\ active_ter' \in Ter
          /\ {video_map', user_map'} \subseteq VideoPage
          /\ ChildTerminal \in Ter /\ process_cnt < MAX_PROCESS
      BY <1>3, <2>4 DEF ProcessInv, TypeOK, Execute, ChildTerminal, mapVars
    <2> QED BY <1>1, <1>3, <2>1, <2>2, <2>3, <2>5, StartInv
  <1> QED BY <1>2, <1>3 DEF Execute

\* sys_halt returns to the parent or restarts a root shell.
LEMMA HaltInv == ASSUME ProcessInv, Halt PROVE ProcessInv'
  <1>1. esp \in Pid /\ esp # NULL /\ fault = "none"
    BY DEF ProcessInv, TypeOK, Halt, Running
  <1>2. UNCHANGED <<pit_cnt, active_ter, mapVars>>
    BY DEF Halt
  <1>3. CASE HasParent(esp) /\ HaltTo(esp)
    BY <1>1, <1>2, <1>3, HaltToInv
  <1>4. CASE ~HasParent(esp) /\ UNCHANGED <<procVars, fault>>
    BY <1>2, <1>4
       DEF ProcessInv, TypeOK, CpuAgrees, LiveIsAllocated, Live, BootState,
           NotOwnParent, procVars, mapVars
  <1> QED BY <1>3, <1>4 DEF Halt

\* An exception in the running program.
LEMMA ExceptionHaltInv == ASSUME ProcessInv, ExceptionHalt PROVE ProcessInv'
  BY ExceptionHaltBodyInv DEF ExceptionHalt, Running

\* The keyboard's.
LEMMA KeyboardHaltInv == ASSUME ProcessInv, KeyboardHalt PROVE ProcessInv'
  <1> DEFINE target == terminal_pid[active_ter]
  <1>1. UNCHANGED <<pit_cnt, active_ter, mapVars>> /\ fault = "none"
    BY DEF KeyboardHalt
  <1>2. CASE HasParent(target) /\ HaltTo(target)
    <2>1. target \in Pid
      BY <1>2 DEF ProcessInv, TypeOK, HasParent
    <2>2. esp # NULL
      BY <1>2, <2>1 DEF ProcessInv, BootState, HasParent
    <2> QED BY <1>1, <1>2, <2>1, <2>2, HaltToInv
  <1>3. CASE ~HasParent(target) /\ ExceptionHaltBody
    BY <1>1, <1>3, ExceptionHaltBodyInv
  <1> QED BY <1>2, <1>3 DEF KeyboardHalt

\* Keys that touch the display and the video map, and no process.
LEMMA DisplayKeyInv ==
  ASSUME ProcessInv,
         \/ KeyboardEcho
         \/ KeyboardNoErase
         \/ \E ter \in Ter : KeyboardSwitch(ter)
  PROVE  ProcessInv'
  <1>1. terminal[active_process] \in Ter
    BY DEF ProcessInv, TypeOK
  <1>2. UNCHANGED <<procVars, pit_cnt, user_map, fault>> /\ active_ter' \in Ter
    BY DEF ProcessInv, TypeOK, KeyboardEcho, KeyboardNoErase, KeyboardSwitch
  <1>3. video_map' \in VideoPage
    BY <1>1 DEF KeyboardEcho, KeyboardNoErase, KeyboardSwitch, RestoredMap,
                VideoPage
  <1>4. TypeOK'
    BY <1>2, <1>3 DEF ProcessInv, TypeOK, procVars
  <1>5. CpuAgrees' /\ LiveIsAllocated' /\ BootState' /\ NotOwnParent'
    BY <1>2 DEF ProcessInv, CpuAgrees, LiveIsAllocated, Live, BootState,
                NotOwnParent, procVars
  <1> QED BY <1>4, <1>5 DEF ProcessInv

\* The timer's: execute_shell, and resuming a saved context.
LEMMA ExecuteShellInv ==
  ASSUME ProcessInv, NEW ter \in Ter, NEW left \in [Pid -> Frame],
         \A q \in Pid : left[q] # "cpu",
         \A q \in Pid : left[q] # "none" => q \in avail_pid,
         ExecuteShell(ter, left),
         pit_cnt' \in 0 .. PIT_MAX, active_ter' \in Ter,
         {video_map', user_map'} \subseteq VideoPage
  PROVE  ProcessInv'
  <1>1. PICK p \in NextPid : /\ StartProcess(p, ter, NULL, left)
                             /\ terminal_pid' = ShellStarted(p, ter)
    BY DEF ExecuteShell
  <1>2. terminal_pid' \in [Ter -> Pid \cup {NO_PID}]
    BY <1>1 DEF ProcessInv, TypeOK, ShellStarted, NextPid, FreePid
  <1>3. process_cnt < MAX_PROCESS
    BY DEF ExecuteShell
  <1> QED BY <1>1, <1>2, <1>3, StartInv

\* What switch_process leaves in frame when it has saved the stack it is on.
LEMMA SavedType ==
  ASSUME ProcessInv, esp # NULL, fault = "none"
  PROVE  /\ Saved = [frame EXCEPT ![esp] = "switch"]
         /\ Saved \in [Pid -> Frame]
         /\ \A q \in Pid : Saved[q] # "cpu"
         /\ \A q \in Pid : Saved[q] # "none" => q \in avail_pid
  <1>1. esp \in Pid /\ get_pcb = esp /\ active_process = esp
        /\ frame[esp] = "cpu"
    BY DEF ProcessInv, TypeOK, CpuAgrees, get_pcb
  <1>2. Saved = [frame EXCEPT ![esp] = "switch"]
    BY <1>1 DEF Saved
  <1>3. Saved \in [Pid -> Frame]
    BY <1>2 DEF ProcessInv, TypeOK, Frame
  <1>4. \A q \in Pid : Saved[q] # "cpu"
    BY <1>1, <1>2 DEF ProcessInv, TypeOK, CpuAgrees
  <1>5. \A q \in Pid : Saved[q] # "none" => q \in avail_pid
    BY <1>1, <1>2 DEF ProcessInv, TypeOK, LiveIsAllocated, Live
  <1> QED BY <1>2, <1>3, <1>4, <1>5

\* switch_process resumes a saved context, or crashes for the want of one.
LEMMA ResumeInv ==
  ASSUME ProcessInv, esp # NULL, fault = "none", NEW p \in Pid, Resume(p),
         pit_cnt' \in 0 .. PIT_MAX, active_ter' \in Ter,
         {video_map', user_map'} \subseteq VideoPage
  PROVE  ProcessInv'
  <1>1. CASE Saved[p] # "switch"
    <2>1. Crash("dead_frame")
      BY <1>1 DEF Resume
    <2> QED BY <2>1, CrashInv DEF Fault
  <1>2. CASE Saved[p] = "switch"
    <2>1. /\ frame' = [Saved EXCEPT ![p] = "cpu"]
          /\ active_process' = p /\ page' = p /\ esp0' = p /\ esp' = p
          /\ fault' = "none"
          /\ UNCHANGED <<process_cnt, avail_pid, parent_pointer, terminal,
                         stdio_open, terminal_pid>>
      BY <1>2 DEF Resume
    <2>2. frame' \in [Pid -> Frame]
      BY <2>1, SavedType DEF Frame
    <2>3. TypeOK'
      BY <2>1, <2>2 DEF ProcessInv, TypeOK, Fault
    <2>4. CpuAgrees'
      BY <2>1, SavedType DEF CpuAgrees
    <2>5. LiveIsAllocated'
      BY <1>2, <2>1, SavedType DEF LiveIsAllocated, Live
    <2>6. BootState' /\ NotOwnParent'
      BY <2>1, ProcessAssumption DEF ProcessInv, BootState, NotOwnParent
    <2> QED BY <2>3, <2>4, <2>5, <2>6 DEF ProcessInv
  <1> QED BY <1>1, <1>2

\* pit_handler: the first shell, a later shell, or a resumed process.
LEMMA PitHandlerInv == ASSUME ProcessInv, PitHandler PROVE ProcessInv'
  <1>1. /\ pit_cnt' \in 0 .. PIT_MAX /\ active_ter' \in Ter
        /\ fault = "none" /\ NextTer \in Ter
    <2>1. NextTer \in Ter
      BY NextTerType DEF ProcessInv
    <2>2. pit_cnt' \in 0 .. PIT_MAX
      BY ProcessAssumption DEF ProcessInv, TypeOK, PitHandler
    <2> QED BY <2>1, <2>2 DEF ProcessInv, TypeOK, PitHandler
  <1>2. CASE /\ process_cnt = 0 /\ ExecuteShell(0, Abandoned)
             /\ UNCHANGED mapVars
    <2>1. 0 \in Ter
      BY ProcessAssumption DEF Ter
    <2>2. Abandoned \in [Pid -> Frame]
      BY DEF ProcessInv, TypeOK, Abandoned, Frame
    <2>3. \A q \in Pid : Abandoned[q] # "cpu"
      BY <1>1
         DEF ProcessInv, TypeOK, CpuAgrees, BootState, Abandoned
    <2>4. \A q \in Pid : Abandoned[q] # "none" => q \in avail_pid
      BY <1>1
         DEF ProcessInv, TypeOK, CpuAgrees, LiveIsAllocated, Live, Abandoned
    <2>5. {video_map', user_map'} \subseteq VideoPage
      BY <1>2 DEF ProcessInv, TypeOK, mapVars
    <2> QED BY <1>1, <1>2, <2>1, <2>2, <2>3, <2>4, <2>5, ExecuteShellInv
  <1>3. ASSUME process_cnt # 0,
               video_map' = SliceMap(NextTer), user_map' = SliceMap(NextTer)
        PROVE  /\ esp # NULL
               /\ {video_map', user_map'} \subseteq VideoPage
    BY <1>1, <1>3 DEF ProcessInv, BootState, SliceMap, VideoPage
  <1>4. CASE /\ process_cnt # 0
             /\ video_map' = SliceMap(NextTer) /\ user_map' = SliceMap(NextTer)
             /\ ExecuteShell(NextTer, Saved)
    BY <1>1, <1>3, <1>4, SavedType, ExecuteShellInv
  <1>5. CASE /\ process_cnt # 0
             /\ video_map' = SliceMap(NextTer) /\ user_map' = SliceMap(NextTer)
             /\ Crash("no_pid")
    BY <1>1, <1>3, <1>5, CrashInv DEF Fault
  <1>6. CASE /\ process_cnt # 0
             /\ video_map' = SliceMap(NextTer) /\ user_map' = SliceMap(NextTer)
             /\ terminal_pid[NextTer] # NO_PID
             /\ Resume(terminal_pid[NextTer])
    <2>1. terminal_pid[NextTer] \in Pid
      BY <1>1, <1>6 DEF ProcessInv, TypeOK
    <2> QED BY <1>1, <1>3, <1>6, <2>1, ResumeInv
  <1> QED BY <1>2, <1>4, <1>5, <1>6 DEF PitHandler

-----------------------------------------------------------------------------
\* Every step of the kernel preserves the invariant.
LEMMA NextInv == ASSUME ProcessInv, [Next]_vars PROVE ProcessInv'
  <1>1. CASE PitHandler
    BY <1>1, PitHandlerInv
  <1>2. CASE Execute
    BY <1>2, ExecuteInv
  <1>3. CASE Halt
    BY <1>3, HaltInv
  <1>4. CASE ExceptionHalt
    BY <1>4, ExceptionHaltInv
  <1>5. CASE KeyboardHalt
    BY <1>5, KeyboardHaltInv
  <1>6. CASE \/ KeyboardEcho
             \/ KeyboardNoErase
             \/ \E ter \in Ter : KeyboardSwitch(ter)
    BY <1>6, DisplayKeyInv
  <1>7. CASE UNCHANGED vars
    BY <1>7
       DEF ProcessInv, TypeOK, CpuAgrees, LiveIsAllocated, Live, BootState,
           NotOwnParent, vars, procVars, mapVars
  <1> QED BY <1>1, <1>2, <1>3, <1>4, <1>5, <1>6, <1>7 DEF Next

\* A new process is given a pid that has none, so no live PCB is written.
LEMMA StartStable ==
  ASSUME ProcessInv, NEW q \in NextPid, NEW ter, NEW parent, NEW left,
         StartProcess(q, ter, parent, left)
  PROVE  \A p \in Live : /\ parent_pointer'[p] = parent_pointer[p]
                         /\ terminal'[p] = terminal[p]
  <1>1. q \notin Live
    BY DEF NextPid, FreePid, ProcessInv, LiveIsAllocated
  <1> QED BY <1>1 DEF StartProcess, task_init, init_pcb, ProcessInv, TypeOK, Live

\* Every other operation leaves all parents and terminals alone.
LEMMA StepStable ==
  ASSUME ProcessInv, [Next]_vars
  PROVE  \A p \in Live : /\ parent_pointer'[p] = parent_pointer[p]
                         /\ terminal'[p] = terminal[p]
  <1> DEFINE Same == UNCHANGED <<parent_pointer, terminal>>
  <1>1. ASSUME NEW p, HaltTo(p) PROVE Same
    BY <1>1 DEF HaltTo, Crash, procVars
  <1>2. CASE PitHandler
    <2>1. ASSUME NEW ter, NEW left, ExecuteShell(ter, left)
          PROVE  \A p \in Live : /\ parent_pointer'[p] = parent_pointer[p]
                                 /\ terminal'[p] = terminal[p]
      BY <2>1, StartStable DEF ExecuteShell
    <2>2. ASSUME NEW p, Resume(p) PROVE Same
      BY <2>2 DEF Resume, Crash, procVars
    <2> QED BY <1>2, <2>1, <2>2 DEF PitHandler, Crash, procVars
  <1>3. CASE Execute
    BY <1>3, StartStable DEF Execute, Crash, procVars
  <1>4. CASE Halt
    BY <1>1, <1>4 DEF Halt, procVars
  <1>5. CASE ExceptionHalt
    BY <1>1, <1>5 DEF ExceptionHalt, ExceptionHaltBody, Crash, procVars
  <1>6. CASE KeyboardHalt
    BY <1>1, <1>6 DEF KeyboardHalt, ExceptionHaltBody, Crash, procVars
  <1>7. CASE \/ KeyboardEcho
             \/ KeyboardNoErase
             \/ \E ter \in Ter : KeyboardSwitch(ter)
    BY <1>7 DEF KeyboardEcho, KeyboardNoErase, KeyboardSwitch, procVars
  <1>8. CASE UNCHANGED vars
    BY <1>8 DEF vars, procVars
  <1> QED BY <1>2, <1>3, <1>4, <1>5, <1>6, <1>7, <1>8 DEF Next

-----------------------------------------------------------------------------
\* The inductive invariant holds in every reachable state.
THEOREM Invariant == Spec => []ProcessInv
  BY InitInv, NextInv, PTL DEF Spec

\* Every variable keeps the type its C declaration gives it.
THEOREM TypeCorrect == Spec => []TypeOK
  BY Invariant, PTL DEF ProcessInv

\* active_process, the mapped page, tss.esp0 and the stack of the CPU always
\* name the same process (scheduler.c, system_call.c).
THEOREM CpuAgreement == Spec => []CpuAgrees
  BY Invariant, PTL DEF ProcessInv

\* task_init never hands out a pid whose stack still holds a context (task.c).
THEOREM NoLivePidReused == Spec => []LiveIsAllocated
  BY Invariant, PTL DEF ProcessInv

\* init_pcb never overwrites the PCB of a process that still runs or waits, so
\* a process keeps its parent and its terminal as long as it lives (pcb.c).
THEOREM PcbsStable == Spec => PcbStable
  <1>1. ProcessInv /\ [Next]_vars
        => [\A p \in Live : /\ parent_pointer'[p] = parent_pointer[p]
                            /\ terminal'[p] = terminal[p]]_vars
    BY StepStable
  <1> QED BY <1>1, Invariant, PTL DEF Spec, PcbStable

-----------------------------------------------------------------------------
(***************************************************************************)
(* The orderly environment.                                                *)
(***************************************************************************)
\* Programs are started only once every terminal has its shell; the first
\* terminal has one from the first timer interrupt on.
ShellsFirst ==
    /\ ~AllStarted => \A p \in Live : frame[p] # "execute" /\ ~HasParent(p)
    /\ esp # NULL => terminal_pid[0] # NO_PID

\* Before the first shell the kernel's zeroed data names terminal 0.
BootTerminal == esp = NULL => terminal[active_process] = 0

\* The inductive invariant.  OneChainPerTerminal gives the context that each
\* jump finds; ShellsFirst bounds the processes there are before the last
\* shell, so that execute_shell always finds a pid; ChildExists,
\* LiveDescriptors and NoBleed are carried along.
OrderlyInv ==
    /\ ProcessInv
    /\ NoFault
    /\ PidAccounting
    /\ OneChainPerTerminal
    /\ ChildExists
    /\ LiveDescriptors
    /\ NoBleed
    /\ ShellsFirst
    /\ BootTerminal

-----------------------------------------------------------------------------
\* There are finitely many pids, and MAX_PROCESS of them.
LEMMA PidFinite == IsFiniteSet(Pid) /\ Cardinality(Pid) = MAX_PROCESS
  BY FS_Interval, ProcessAssumption DEF Pid

\* The pids in use are finitely many.
LEMMA AvailFinite ==
  ASSUME TypeOK
  PROVE  /\ IsFiniteSet(avail_pid)
         /\ Cardinality(avail_pid) \in Nat
  BY PidFinite, FS_Subset, FS_CardinalityType DEF TypeOK

\* While the counter is below the maximum, task_init's search finds a pid.
LEMMA FreePidExists ==
  ASSUME TypeOK, PidAccounting, process_cnt < MAX_PROCESS
  PROVE  FreePid # {}
  <1> SUFFICES ASSUME FreePid = {} PROVE FALSE
    OBVIOUS
  <1>1. avail_pid = Pid
    BY DEF TypeOK, FreePid
  <1> QED BY <1>1, PidFinite, ProcessAssumption DEF PidAccounting

\* After the first shell the counter is not zero.
LEMMA CountPositive ==
  ASSUME OrderlyInv, process_cnt = 0 PROVE esp = NULL /\ avail_pid = {}
  <1>1. avail_pid = {}
    BY AvailFinite, FS_EmptySet DEF OrderlyInv, ProcessInv, PidAccounting
  <1>2. esp # NULL => esp \in Live
    BY DEF OrderlyInv, ProcessInv, TypeOK, CpuAgrees, NoFault, Live
  <1> QED BY <1>1, <1>2 DEF OrderlyInv, PidAccounting

\* Before every terminal has its shell there are fewer processes than
\* terminals: each process is the foreground of a terminal of its own.
LEMMA FewShells ==
  ASSUME OrderlyInv, esp # NULL, NEW ter \in Ter, terminal_pid[ter] = NO_PID
  PROVE  process_cnt < MAX_PROCESS
  <1> DEFINE f == [p \in Live |-> terminal[p]]
             S == Ter \ {ter}
  <1>1. ~AllStarted
    BY DEF AllStarted
  <1>2. \A p \in Live : terminal[p] \in Ter /\ terminal_pid[terminal[p]] = p
    BY <1>1
       DEF OrderlyInv, ProcessInv, TypeOK, ShellsFirst, OneChainPerTerminal,
           LeafIsForeground, Live
  <1>3. \A p \in Live : terminal[p] # ter
    BY <1>2, ProcessAssumption DEF Live, Pid, NO_PID
  <1>4. f \in Injection(Live, S)
    BY <1>2, <1>3 DEF Injection, IsInjective
  <1>5. IsFiniteSet(Ter) /\ Cardinality(Ter) = TER_NUM
    BY FS_Interval, ProcessAssumption DEF Ter
  <1>6. IsFiniteSet(S) /\ Cardinality(S) = TER_NUM - 1
    BY <1>5, FS_RemoveElement
  <1>7. Cardinality(Live) <= Cardinality(S)
    BY <1>4, <1>6, FS_Injection
  <1>8. process_cnt = Cardinality(Live)
    BY DEF OrderlyInv, PidAccounting
  <1>9. process_cnt \in Nat
    BY DEF OrderlyInv, ProcessInv, TypeOK
  <1> QED BY <1>6, <1>7, <1>8, <1>9, ProcessAssumption

\* What the invariant says of the process that has the CPU.
LEMMA RunningProcess ==
  ASSUME OrderlyInv, esp # NULL
  PROVE  /\ esp \in Pid /\ esp \in Live /\ frame[esp] = "cpu"
         /\ get_pcb = esp /\ active_process = esp
         /\ terminal[esp] \in Ter /\ terminal_pid[terminal[esp]] = esp
         /\ \A q \in Pid : frame[q] = "cpu" <=> q = esp
  <1>1. /\ esp \in Pid /\ frame[esp] = "cpu" /\ active_process = esp
        /\ \A q \in Pid : frame[q] = "cpu" <=> q = esp
    BY DEF OrderlyInv, ProcessInv, TypeOK, CpuAgrees, NoFault
  <1>2. esp \in Live /\ get_pcb = esp
    BY <1>1 DEF Live, get_pcb
  <1>3. terminal[esp] \in Ter
    BY <1>1 DEF OrderlyInv, ProcessInv, TypeOK
  <1>4. terminal_pid[terminal[esp]] = esp
    BY <1>1, <1>2 DEF OrderlyInv, OneChainPerTerminal, LeafIsForeground
  <1> QED BY <1>1, <1>2, <1>3, <1>4

-----------------------------------------------------------------------------
\* The boot state.
LEMMA OrderlyInit == Init => OrderlyInv
  <1> SUFFICES ASSUME Init PROVE OrderlyInv
    OBVIOUS
  <1>1. ProcessInv
    BY InitInv
  <1>2. 0 \in Pid
    BY ProcessAssumption DEF Pid, Ter
  <1>3. Live = {}
    BY DEF Init, Live
  <1>4. PidAccounting
    BY <1>3, FS_EmptySet DEF Init, PidAccounting
  <1>5. NoFault /\ OneChainPerTerminal /\ LiveDescriptors
    BY <1>3
       DEF Init, NoFault, OneChainPerTerminal, LeafIsForeground,
           ForegroundIsLeaf, ParentWaits, LiveDescriptors
  <1>6. ChildExists
    BY DEF Init, ChildExists
  <1>7. NoBleed /\ ShellsFirst /\ BootTerminal
    BY <1>2, <1>3 DEF Init, NoBleed, ShellsFirst, BootTerminal
  <1> QED BY <1>1, <1>4, <1>5, <1>6, <1>7 DEF OrderlyInv

\* A new process is one live process more.
LEMMA StartAccounting ==
  ASSUME ProcessInv, PidAccounting, LiveDescriptors,
         NEW p \in NextPid, NEW ter, NEW parent, NEW left \in [Pid -> Frame],
         \A q \in Pid : left[q] # "none" <=> frame[q] # "none",
         StartProcess(p, ter, parent, left)
  PROVE  /\ p \in Pid /\ p \notin Live
         /\ Live' = Live \cup {p}
         /\ PidAccounting' /\ LiveDescriptors'
  <1>1. p \in Pid /\ p \notin avail_pid
    BY DEF NextPid, FreePid
  <1>2. p \notin Live
    BY <1>1 DEF PidAccounting
  <1>3. Live' = Live \cup {p}
    BY <1>1 DEF StartProcess, task_init, init_pcb, Live
  <1>4. Cardinality(avail_pid \cup {p}) = Cardinality(avail_pid) + 1
    BY <1>1, AvailFinite, FS_AddElement DEF ProcessInv
  <1>5. PidAccounting'
    BY <1>3, <1>4 DEF PidAccounting, StartProcess, task_init, init_pcb
  <1>6. LiveDescriptors'
    BY <1>1, <1>3 DEF ProcessInv, TypeOK, LiveDescriptors, Live, StartProcess,
                      task_init, init_pcb
  <1> QED BY <1>1, <1>2, <1>3, <1>5, <1>6

\* sys_execute by a process of the terminal on display.
LEMMA OrderlyExecuteInv ==
  ASSUME OrderlyInv, ProcessInv', OrderlyExecute PROVE OrderlyInv'
  <1>1. esp # NULL /\ process_cnt < MAX_PROCESS /\ AllStarted
        /\ terminal[esp] = active_ter
    BY DEF OrderlyExecute, Execute, Running
  <1>2. FreePid # {}
    BY <1>1, FreePidExists DEF OrderlyInv, ProcessInv
  <1>3. PICK p \in NextPid :
           /\ StartProcess(p, active_ter, esp, Called)
           /\ terminal_pid' = [terminal_pid EXCEPT ![active_ter] = p]
    BY <1>2 DEF OrderlyExecute, Execute, ChildTerminal
  <1>4. Called \in [Pid -> Frame]
        /\ \A q \in Pid : Called[q] # "none" <=> frame[q] # "none"
    BY <1>1, RunningProcess DEF OrderlyInv, ProcessInv, TypeOK, Called, Frame
  <1>5. /\ p \in Pid /\ p \notin Live /\ Live' = Live \cup {p}
        /\ PidAccounting' /\ LiveDescriptors'
    BY <1>3, <1>4, StartAccounting DEF OrderlyInv
  <1>6. /\ fault' = "none" /\ esp' = p /\ active_process' = p
        /\ parent_pointer' = [parent_pointer EXCEPT ![p] = esp]
        /\ terminal' = [terminal EXCEPT ![p] = active_ter]
        /\ frame' = [frame EXCEPT ![esp] = "execute", ![p] = "cpu"]
        /\ UNCHANGED <<active_ter, video_map>>
    BY <1>3 DEF StartProcess, task_init, init_pcb, Called, OrderlyExecute,
                Execute, mapVars
  <1>7. p # NO_PID /\ p # NULL /\ p # esp
    BY <1>1, <1>5, RunningProcess, ProcessAssumption DEF Pid, NO_PID
  <1>8. LeafIsForeground'
    BY <1>1, <1>3, <1>5, <1>6, <1>7, RunningProcess
       DEF OrderlyInv, ProcessInv, TypeOK, OneChainPerTerminal,
           LeafIsForeground, Live
  <1>9. ForegroundIsLeaf'
    BY <1>1, <1>3, <1>5, <1>6, <1>7, RunningProcess
       DEF OrderlyInv, ProcessInv, TypeOK, OneChainPerTerminal,
           ForegroundIsLeaf, LeafIsForeground, Live
  <1>10. ParentWaits'
    <2> SUFFICES ASSUME NEW c \in Live', HasParent(c)'
                 PROVE  /\ frame'[parent_pointer'[c]] = "execute"
                        /\ terminal'[parent_pointer'[c]] = terminal'[c]
                        /\ \A d \in Live' :
                              parent_pointer'[d] = parent_pointer'[c] => d = c
      BY DEF ParentWaits
    \* Nobody waits for a child of the process that has the CPU, nor of a pid
    \* that was free.
    <2>1. \A d \in Live : parent_pointer[d] # esp /\ parent_pointer[d] # p
      <3>1. \A d \in Live : d # NO_PID
        BY ProcessAssumption DEF Live, Pid, NO_PID
      <3>2. \A d \in Live : HasParent(d) => frame[parent_pointer[d]] = "execute"
        BY DEF OrderlyInv, OneChainPerTerminal, ParentWaits
      <3>3. frame[esp] # "execute" /\ frame[p] # "execute"
        BY <1>1, <1>5, RunningProcess DEF Live
      <3> QED BY <1>1, <1>7, <3>1, <3>2, <3>3 DEF HasParent
    <2>2. CASE c = p
      <3>1. parent_pointer'[c] = esp /\ frame'[esp] = "execute"
            /\ terminal'[esp] = terminal'[c]
        BY <1>1, <1>5, <1>6, <1>7, <2>2, RunningProcess
           DEF OrderlyInv, ProcessInv, TypeOK
      <3>2. \A d \in Live' : parent_pointer'[d] = esp => d = c
        BY <1>5, <1>6, <2>1, <2>2 DEF OrderlyInv, ProcessInv, TypeOK, Live
      <3> QED BY <3>1, <3>2
    <2>3. CASE c # p
      <3>1. c \in Live /\ HasParent(c) /\ parent_pointer'[c] = parent_pointer[c]
        BY <1>5, <1>6, <2>3
           DEF OrderlyInv, ProcessInv, TypeOK, HasParent, Live
      <3>2. /\ frame[parent_pointer[c]] = "execute"
            /\ terminal[parent_pointer[c]] = terminal[c]
            /\ parent_pointer[c] \in Pid
        BY <3>1
           DEF OrderlyInv, ProcessInv, TypeOK, OneChainPerTerminal,
               ParentWaits, HasParent, Live
      <3>3. frame'[parent_pointer[c]] = "execute"
            /\ terminal'[parent_pointer[c]] = terminal'[c]
        BY <1>5, <1>6, <2>1, <2>3, <3>1, <3>2
           DEF OrderlyInv, ProcessInv, TypeOK, Live
      <3>4. \A d \in Live' : parent_pointer'[d] = parent_pointer[c] => d = c
        <4> SUFFICES ASSUME NEW d \in Live',
                            parent_pointer'[d] = parent_pointer[c]
                     PROVE  d = c
          OBVIOUS
        <4>1. parent_pointer'[p] = esp /\ parent_pointer[c] # esp
          BY <1>5, <1>6, <2>1, <3>1 DEF OrderlyInv, ProcessInv, TypeOK
        <4>2. d \in Live /\ parent_pointer[d] = parent_pointer[c]
          BY <1>5, <1>6, <4>1 DEF OrderlyInv, ProcessInv, TypeOK, Live
        <4> QED BY <3>1, <4>2
                DEF OrderlyInv, OneChainPerTerminal, ParentWaits
      <3> QED BY <3>1, <3>3, <3>4
    <2> QED BY <2>2, <2>3
  <1>11. ChildExists'
    BY <1>1, <1>5, <1>6, <1>7, RunningProcess
       DEF OrderlyInv, ProcessInv, TypeOK, ChildExists, Live
  <1>12. AllStarted'
    BY <1>1, <1>3, <1>7 DEF OrderlyInv, ProcessInv, TypeOK, AllStarted
  <1>13. 0 \in Ter
    BY ProcessAssumption DEF Ter
  <1>14. NoFault' /\ NoBleed' /\ ShellsFirst' /\ BootTerminal'
    BY <1>1, <1>5, <1>6, <1>7, <1>12, <1>13, RunningProcess
       DEF OrderlyInv, ProcessInv, TypeOK, NoFault, NoBleed, ShellsFirst,
           AllStarted, BootTerminal
  <1> QED BY <1>5, <1>8, <1>9, <1>10, <1>11, <1>14
          DEF OrderlyInv, OneChainPerTerminal

\* The running process, which has a parent, is halted: its parent returns from
\* execute.
LEMMA OrderlyHaltToInv ==
  ASSUME OrderlyInv, ProcessInv', esp # NULL, HasParent(esp), HaltTo(esp),
         UNCHANGED <<active_ter, mapVars>>
  PROVE  OrderlyInv'
  <1> DEFINE par == parent_pointer[esp]
             ter == terminal[esp]
  <1>1. /\ par \in Pid /\ par # esp
        /\ frame[par] = "execute" /\ terminal[par] = ter
        /\ \A d \in Live : parent_pointer[d] = par => d = esp
    BY RunningProcess
       DEF OrderlyInv, ProcessInv, TypeOK, NotOwnParent, HasParent,
           OneChainPerTerminal, ParentWaits
  <1>2. /\ process_cnt' = Decrement(process_cnt)
        /\ avail_pid' = FlipBit(esp)
        /\ stdio_open' = [stdio_open EXCEPT ![esp] = FALSE]
        /\ frame' = [frame EXCEPT ![esp] = "none", ![par] = "cpu"]
        /\ terminal_pid' = [terminal_pid EXCEPT ![ter] = par]
        /\ active_process' = par /\ esp' = par /\ fault' = "none"
        /\ UNCHANGED <<parent_pointer, terminal, active_ter, video_map>>
    BY <1>1, RunningProcess
       DEF OrderlyInv, ProcessInv, TypeOK, HaltTo, CloseFds, ReturnToParent,
           ParentForeground,
           mapVars
  <1>3. Live' = Live \ {esp} /\ par \in Live
    BY <1>1, <1>2, RunningProcess DEF OrderlyInv, ProcessInv, TypeOK, Live
  <1>4. PidAccounting'
    <2>1. esp \in avail_pid /\ avail_pid' = avail_pid \ {esp}
      BY <1>2, RunningProcess DEF OrderlyInv, PidAccounting, FlipBit
    <2>2. Cardinality(avail_pid') = Cardinality(avail_pid) - 1
      BY <2>1, AvailFinite, FS_RemoveElement DEF OrderlyInv, ProcessInv
    <2>3. process_cnt # 0 /\ process_cnt' = process_cnt - 1
      BY <1>2, CountPositive DEF Decrement
    <2> QED BY <1>3, <2>1, <2>2, <2>3 DEF OrderlyInv, PidAccounting
  <1>5. LeafIsForeground'
    <2> SUFFICES ASSUME NEW q \in Live', frame'[q] # "execute"
                 PROVE  /\ frame'[q] \in {"cpu", "switch"}
                        /\ terminal_pid'[terminal'[q]] = q
      BY DEF LeafIsForeground
    <2>1. CASE q = par
      BY <1>1, <1>2, <2>1, RunningProcess
         DEF OrderlyInv, ProcessInv, TypeOK
    <2>2. CASE q # par
      <3>1. q \in Live /\ q # esp /\ q \in Pid /\ frame'[q] = frame[q]
        BY <1>2, <1>3, <2>2 DEF OrderlyInv, ProcessInv, TypeOK, Live
      <3>2. frame[q] \in {"cpu", "switch"} /\ terminal_pid[terminal[q]] = q
        BY <3>1 DEF OrderlyInv, OneChainPerTerminal, LeafIsForeground
      <3>3. terminal[q] # ter
        BY <3>1, <3>2, RunningProcess
      <3> QED BY <1>2, <3>1, <3>2, <3>3 DEF OrderlyInv, ProcessInv, TypeOK
    <2> QED BY <2>1, <2>2
  <1>6. ForegroundIsLeaf'
    <2> SUFFICES ASSUME NEW t \in Ter, terminal_pid'[t] # NO_PID
                 PROVE  /\ frame'[terminal_pid'[t]] \in {"cpu", "switch"}
                        /\ terminal'[terminal_pid'[t]] = t
      BY DEF ForegroundIsLeaf
    <2>1. CASE t = ter
      BY <1>1, <1>2, <2>1 DEF OrderlyInv, ProcessInv, TypeOK
    <2>2. CASE t # ter
      <3>1. terminal_pid'[t] = terminal_pid[t] /\ terminal_pid[t] \in Pid
        BY <1>2, <2>2 DEF OrderlyInv, ProcessInv, TypeOK
      <3>2. /\ frame[terminal_pid[t]] \in {"cpu", "switch"}
            /\ terminal[terminal_pid[t]] = t
        BY <3>1 DEF OrderlyInv, OneChainPerTerminal, ForegroundIsLeaf
      <3> QED BY <1>1, <1>2, <2>2, <3>1, <3>2
              DEF OrderlyInv, ProcessInv, TypeOK
    <2> QED BY <2>1, <2>2
  <1>7. ParentWaits'
    <2> SUFFICES ASSUME NEW c \in Live', HasParent(c)'
                 PROVE  /\ frame'[parent_pointer'[c]] = "execute"
                        /\ terminal'[parent_pointer'[c]] = terminal'[c]
                        /\ \A d \in Live' :
                              parent_pointer'[d] = parent_pointer'[c] => d = c
      BY DEF ParentWaits
    <2>1. c \in Live /\ c # esp /\ HasParent(c)
      BY <1>2, <1>3 DEF HasParent
    <2>2. /\ frame[parent_pointer[c]] = "execute"
          /\ terminal[parent_pointer[c]] = terminal[c]
          /\ \A d \in Live : parent_pointer[d] = parent_pointer[c] => d = c
          /\ parent_pointer[c] \in Pid
      BY <2>1
         DEF OrderlyInv, ProcessInv, TypeOK, OneChainPerTerminal, ParentWaits,
             HasParent, Live
    <2>3. parent_pointer[c] # par /\ parent_pointer[c] # esp
      BY <1>1, <2>1, <2>2, RunningProcess
    <2> QED BY <1>2, <1>3, <2>2, <2>3 DEF OrderlyInv, ProcessInv, TypeOK
  <1>8. ChildExists'
    <2> SUFFICES ASSUME NEW q \in Pid, frame'[q] = "execute"
                 PROVE  \E c \in Live' : parent_pointer'[c] = q
      BY DEF ChildExists
    <2>1. q # par /\ q # esp /\ frame[q] = "execute"
      BY <1>1, <1>2, RunningProcess DEF OrderlyInv, ProcessInv, TypeOK
    <2>2. PICK c \in Live : parent_pointer[c] = q
      BY <2>1 DEF OrderlyInv, ChildExists
    <2> QED BY <1>2, <1>3, <2>1, <2>2
  <1>9. LiveDescriptors'
    BY <1>2, <1>3 DEF OrderlyInv, ProcessInv, TypeOK, LiveDescriptors, Live
  <1>10. AllStarted /\ AllStarted'
    <2>1. AllStarted
      BY RunningProcess DEF OrderlyInv, ShellsFirst
    <2>2. par # NO_PID
      BY <1>1, ProcessAssumption DEF Pid, NO_PID
    <2> QED BY <1>2, <2>1, <2>2
            DEF OrderlyInv, ProcessInv, TypeOK, AllStarted
  <1>11. 0 \in Ter
    BY ProcessAssumption DEF Ter
  <1>12. NoFault' /\ NoBleed' /\ ShellsFirst' /\ BootTerminal'
    BY <1>1, <1>2, <1>10, <1>11, RunningProcess, ProcessAssumption
       DEF OrderlyInv, NoFault, NoBleed, ShellsFirst, AllStarted, BootTerminal
  <1> QED BY <1>4, <1>5, <1>6, <1>7, <1>8, <1>9, <1>12
          DEF OrderlyInv, OneChainPerTerminal

-----------------------------------------------------------------------------
\* The first timer interrupt: the shell of terminal 0 is the only process.
LEMMA OrderlyBootInv ==
  ASSUME OrderlyInv, ProcessInv', process_cnt = 0,
         ExecuteShell(0, Abandoned), UNCHANGED <<active_ter, mapVars>>
  PROVE  OrderlyInv'
  <1>1. esp = NULL /\ Abandoned = frame /\ Live = {}
    BY CountPositive DEF Abandoned, OrderlyInv, PidAccounting
  <1>2. PICK p \in NextPid : /\ StartProcess(p, 0, NULL, frame)
                             /\ terminal_pid' = ShellStarted(p, 0)
    BY <1>1 DEF ExecuteShell
  <1>3. /\ p \in Pid /\ p # NULL /\ Live' = {p}
        /\ PidAccounting' /\ LiveDescriptors'
    BY <1>1, <1>2, StartAccounting, ProcessAssumption
       DEF OrderlyInv, ProcessInv, TypeOK
  <1>4. /\ fault' = "none" /\ esp' = p /\ active_process' = p
        /\ parent_pointer'[p] = NULL /\ terminal'[p] = 0 /\ frame'[p] = "cpu"
        /\ UNCHANGED <<active_ter, video_map>>
    BY <1>2, <1>3 DEF StartProcess, task_init, init_pcb, OrderlyInv,
                      ProcessInv, TypeOK, mapVars
  <1>5. 0 \in Ter /\ terminal_pid' = [t \in Ter |-> IF t = 0 THEN p ELSE NO_PID]
    BY <1>2, ProcessAssumption DEF ShellStarted, Ter
  <1>6. \A q \in Pid : frame'[q] # "none" => q = p
    BY <1>3 DEF Live
  <1>7. LeafIsForeground' /\ ForegroundIsLeaf' /\ ParentWaits' /\ ChildExists'
    BY <1>3, <1>4, <1>5, <1>6
       DEF LeafIsForeground, ForegroundIsLeaf, ParentWaits, HasParent,
           ChildExists
  <1>8. p # NO_PID
    BY <1>3, ProcessAssumption DEF Pid, NO_PID
  <1>9. NoFault' /\ NoBleed' /\ ShellsFirst' /\ BootTerminal'
    BY <1>1, <1>3, <1>4, <1>5, <1>8
       DEF OrderlyInv, NoFault, NoBleed, ShellsFirst, HasParent, BootTerminal
  <1> QED BY <1>3, <1>7, <1>9 DEF OrderlyInv, OneChainPerTerminal

\* A later terminal's first time slice starts its shell.
LEMMA OrderlyShellInv ==
  ASSUME OrderlyInv, ProcessInv', esp # NULL, NEW ter \in Ter,
         terminal_pid[ter] = NO_PID, ExecuteShell(ter, Saved),
         video_map' = SliceMap(ter), UNCHANGED active_ter
  PROVE  OrderlyInv'
  <1>1. ter # 0 /\ ~AllStarted
    BY DEF OrderlyInv, ShellsFirst, AllStarted
  <1>2. PICK p \in NextPid : /\ StartProcess(p, ter, NULL, Saved)
                             /\ terminal_pid' = ShellStarted(p, ter)
    BY DEF ExecuteShell
  <1>3. Saved = [frame EXCEPT ![esp] = "switch"] /\ Saved \in [Pid -> Frame]
    BY SavedType DEF OrderlyInv, NoFault
  <1>4. /\ p \in Pid /\ p \notin Live /\ Live' = Live \cup {p}
        /\ PidAccounting' /\ LiveDescriptors'
    <2>1. \A q \in Pid : Saved[q] # "none" <=> frame[q] # "none"
      BY <1>3, RunningProcess DEF OrderlyInv, ProcessInv, TypeOK
    <2> QED BY <1>2, <1>3, <2>1, StartAccounting DEF OrderlyInv
  <1>5. /\ fault' = "none" /\ esp' = p /\ active_process' = p
        /\ parent_pointer' = [parent_pointer EXCEPT ![p] = NULL]
        /\ terminal' = [terminal EXCEPT ![p] = ter]
        /\ frame' = [frame EXCEPT ![esp] = "switch", ![p] = "cpu"]
        /\ terminal_pid' = [terminal_pid EXCEPT ![ter] = p]
    BY <1>1, <1>2, <1>3
       DEF StartProcess, task_init, init_pcb, ShellStarted, OrderlyInv,
           ProcessInv, TypeOK
  <1>6. p # NO_PID /\ p # NULL /\ p # esp
    BY <1>4, RunningProcess, ProcessAssumption DEF Pid, NO_PID
  \* The processes so far are the shells of other terminals.
  <1>7. \A q \in Live : /\ q \in Pid /\ q # p /\ ~HasParent(q)
                        /\ frame[q] \in {"cpu", "switch"}
                        /\ terminal[q] \in Ter /\ terminal[q] # ter
                        /\ terminal_pid[terminal[q]] = q
    <2> SUFFICES ASSUME NEW q \in Live
                 PROVE  /\ q \in Pid /\ q # p /\ ~HasParent(q)
                        /\ frame[q] \in {"cpu", "switch"}
                        /\ terminal[q] \in Ter /\ terminal[q] # ter
                        /\ terminal_pid[terminal[q]] = q
      OBVIOUS
    <2>1. q \in Pid /\ q # p /\ ~HasParent(q) /\ frame[q] # "execute"
      BY <1>1, <1>4 DEF OrderlyInv, ShellsFirst, Live
    <2>2. /\ frame[q] \in {"cpu", "switch"}
          /\ terminal_pid[terminal[q]] = q /\ terminal[q] \in Ter
      BY <2>1
         DEF OrderlyInv, ProcessInv, TypeOK, OneChainPerTerminal,
             LeafIsForeground
    <2>3. q # NO_PID
      BY <2>1, ProcessAssumption DEF Pid, NO_PID
    <2> QED BY <2>1, <2>2, <2>3
  <1>8. \A q \in Live : /\ frame'[q] \in {"cpu", "switch"} /\ ~HasParent(q)'
                        /\ terminal'[q] = terminal[q]
                        /\ terminal_pid'[terminal[q]] = q
    BY <1>5, <1>7 DEF OrderlyInv, ProcessInv, TypeOK, HasParent
  <1>9. /\ frame'[p] = "cpu" /\ ~HasParent(p)' /\ terminal'[p] = ter
        /\ terminal_pid'[ter] = p
    BY <1>4, <1>5 DEF OrderlyInv, ProcessInv, TypeOK, HasParent
  <1>10. LeafIsForeground' /\ ParentWaits'
    BY <1>4, <1>8, <1>9 DEF LeafIsForeground, ParentWaits
  <1>11. ForegroundIsLeaf'
    <2> SUFFICES ASSUME NEW t \in Ter, terminal_pid'[t] # NO_PID
                 PROVE  /\ frame'[terminal_pid'[t]] \in {"cpu", "switch"}
                        /\ terminal'[terminal_pid'[t]] = t
      BY DEF ForegroundIsLeaf
    <2>1. CASE t = ter
      BY <1>9, <2>1
    <2>2. CASE t # ter
      <3>1. terminal_pid'[t] = terminal_pid[t] /\ terminal_pid[t] \in Pid
        BY <1>5, <2>2 DEF OrderlyInv, ProcessInv, TypeOK
      <3>2. /\ frame[terminal_pid[t]] \in {"cpu", "switch"}
            /\ terminal[terminal_pid[t]] = t
        BY <3>1 DEF OrderlyInv, OneChainPerTerminal, ForegroundIsLeaf
      <3>3. terminal_pid[t] \in Live
        BY <3>1, <3>2 DEF Live
      <3> QED BY <1>8, <3>1, <3>2, <3>3
    <2> QED BY <2>1, <2>2
  <1>12. \A q \in Pid : frame'[q] # "execute"
    <2>1. \A q \in Pid : frame'[q] # "none" => q \in Live \/ q = p
      BY <1>4 DEF Live
    <2> QED BY <1>8, <1>9, <2>1
  <1>13. ChildExists'
    BY <1>12 DEF ChildExists
  <1>14. 0 \in Ter /\ terminal_pid'[0] # NO_PID
    BY <1>1, <1>5, ProcessAssumption
       DEF OrderlyInv, ProcessInv, TypeOK, ShellsFirst, Ter
  <1>15. NoBleed'
    <2>1. video_map' = SCREEN => ter = active_ter
      BY DEF SliceMap, Backing, SCREEN, Ter
    <2> QED BY <1>5, <1>9, <2>1 DEF NoBleed
  <1>16. NoFault' /\ ShellsFirst' /\ BootTerminal'
    BY <1>4, <1>5, <1>6, <1>8, <1>9, <1>14
       DEF NoFault, ShellsFirst, BootTerminal
  <1> QED BY <1>4, <1>10, <1>11, <1>13, <1>15, <1>16
          DEF OrderlyInv, OneChainPerTerminal

\* A time slice of a terminal that has its shell.
LEMMA OrderlyResumeInv ==
  ASSUME OrderlyInv, ProcessInv', esp # NULL, NEW ter \in Ter,
         terminal_pid[ter] # NO_PID, Resume(terminal_pid[ter]),
         video_map' = SliceMap(ter), UNCHANGED active_ter
  PROVE  OrderlyInv'
  <1> DEFINE p == terminal_pid[ter]
  <1>1. /\ p \in Pid /\ frame[p] \in {"cpu", "switch"} /\ terminal[p] = ter
    BY DEF OrderlyInv, ProcessInv, TypeOK, OneChainPerTerminal,
           ForegroundIsLeaf
  <1>2. Saved = [frame EXCEPT ![esp] = "switch"] /\ Saved \in [Pid -> Frame]
    BY SavedType DEF OrderlyInv, NoFault
  <1>3. Saved[p] = "switch"
    BY <1>1, <1>2, RunningProcess DEF OrderlyInv, ProcessInv, TypeOK
  <1>4. /\ frame' = [frame EXCEPT ![esp] = "switch", ![p] = "cpu"]
        /\ active_process' = p /\ esp' = p /\ fault' = "none"
        /\ UNCHANGED <<process_cnt, avail_pid, parent_pointer, terminal,
                       stdio_open, terminal_pid>>
    BY <1>2, <1>3 DEF Resume
  \* Only who is running changes.
  <1>5. \A q \in Pid : \/ frame'[q] = frame[q]
                       \/ {frame[q], frame'[q]} \subseteq {"cpu", "switch"}
    BY <1>1, <1>4, RunningProcess DEF OrderlyInv, ProcessInv, TypeOK
  <1>6. Live' = Live
    BY <1>5 DEF Live
  <1>7. PidAccounting' /\ LiveDescriptors'
    BY <1>4, <1>6 DEF OrderlyInv, PidAccounting, LiveDescriptors
  <1>8. LeafIsForeground'
    BY <1>4, <1>5, <1>6
       DEF OrderlyInv, OneChainPerTerminal, LeafIsForeground, Live
  <1>9. ForegroundIsLeaf'
    BY <1>4, <1>5
       DEF OrderlyInv, ProcessInv, TypeOK, OneChainPerTerminal,
           ForegroundIsLeaf
  <1>10. ParentWaits'
    <2>1. \A c \in Live : HasParent(c) => parent_pointer[c] \in Pid
      BY DEF OrderlyInv, ProcessInv, TypeOK, HasParent, Live
    <2>2. \A c \in Live : HasParent(c) => frame[parent_pointer[c]] = "execute"
      BY DEF OrderlyInv, OneChainPerTerminal, ParentWaits
    <2>3. \A c \in Live : HasParent(c) => frame'[parent_pointer[c]] = "execute"
      BY <1>5, <2>1, <2>2
    <2>4. \A c : HasParent(c)' <=> HasParent(c)
      BY <1>4 DEF HasParent
    <2> QED BY <1>4, <1>6, <2>3, <2>4
            DEF OrderlyInv, OneChainPerTerminal, ParentWaits
  <1>11. ChildExists'
    BY <1>4, <1>5, <1>6 DEF OrderlyInv, ChildExists
  <1>12. NoBleed'
    <2>1. video_map' = SCREEN => ter = active_ter
      BY DEF SliceMap, Backing, SCREEN, Ter
    <2> QED BY <1>1, <1>4, <2>1 DEF NoBleed
  <1>13. ShellsFirst'
    BY <1>4, <1>5, <1>6
       DEF OrderlyInv, ShellsFirst, AllStarted, HasParent, Live
  <1>14. NoFault' /\ BootTerminal'
    BY <1>1, <1>4, ProcessAssumption DEF NoFault, BootTerminal
  <1> QED BY <1>7, <1>8, <1>9, <1>10, <1>11, <1>12, <1>13, <1>14
          DEF OrderlyInv, OneChainPerTerminal

\* A timer interrupt, whichever of its three ways it goes.
LEMMA OrderlyPitInv ==
  ASSUME OrderlyInv, ProcessInv', PitHandler PROVE OrderlyInv'
  <1>1. UNCHANGED active_ter
    BY DEF PitHandler
  <1>2. CASE /\ process_cnt = 0 /\ ExecuteShell(0, Abandoned)
             /\ UNCHANGED mapVars
    BY <1>1, <1>2, OrderlyBootInv
  <1>3. ASSUME process_cnt # 0 PROVE esp # NULL /\ NextTer \in Ter
    BY <1>3, NextTerType DEF OrderlyInv, ProcessInv, BootState
  <1>4. CASE /\ process_cnt # 0 /\ video_map' = SliceMap(NextTer)
             /\ terminal_pid[NextTer] = NO_PID /\ ExecuteShell(NextTer, Saved)
    BY <1>1, <1>3, <1>4, OrderlyShellInv
  <1>5. CASE /\ process_cnt # 0 /\ terminal_pid[NextTer] = NO_PID
             /\ process_cnt >= MAX_PROCESS \/ FreePid = {}
    <2>1. process_cnt < MAX_PROCESS
      BY <1>3, <1>5, FewShells
    <2>2. FreePid # {}
      BY <2>1, FreePidExists DEF OrderlyInv, ProcessInv
    <2> QED BY <1>5, <2>1, <2>2, ProcessAssumption
            DEF OrderlyInv, ProcessInv, TypeOK
  <1>6. CASE /\ process_cnt # 0 /\ video_map' = SliceMap(NextTer)
             /\ terminal_pid[NextTer] # NO_PID
             /\ Resume(terminal_pid[NextTer])
    BY <1>1, <1>3, <1>6, OrderlyResumeInv
  <1> QED BY <1>2, <1>4, <1>5, <1>6 DEF PitHandler

\* A terminal switch, or a key that prints: the page behind video memory is
\* then the backing page of the running process's terminal.
LEMMA OrderlyDisplayInv ==
  ASSUME OrderlyInv, ProcessInv',
         KeyboardEcho \/ \E ter \in Ter : KeyboardSwitch(ter)
  PROVE  OrderlyInv'
  <1>1. UNCHANGED <<procVars, fault>>
    BY DEF KeyboardEcho, KeyboardSwitch
  <1>2. video_map' # SCREEN
    BY DEF OrderlyInv, ProcessInv, TypeOK, KeyboardEcho, KeyboardSwitch,
           RestoredMap, Backing, SCREEN, Ter
  <1> QED BY <1>1, <1>2
          DEF OrderlyInv, NoFault, PidAccounting, OneChainPerTerminal,
              LeafIsForeground, ForegroundIsLeaf, ParentWaits, ChildExists,
              LiveDescriptors, NoBleed, ShellsFirst, AllStarted, BootTerminal,
              HasParent, Live, procVars

\* A step that changes nothing, such as the restart of a root shell.
LEMMA OrderlyStutterInv ==
  ASSUME OrderlyInv, ProcessInv', UNCHANGED <<procVars, fault>>,
         UNCHANGED <<active_ter, mapVars>>
  PROVE  OrderlyInv'
  BY DEF OrderlyInv, NoFault, PidAccounting, OneChainPerTerminal,
         LeafIsForeground, ForegroundIsLeaf, ParentWaits, ChildExists,
         LiveDescriptors, NoBleed, ShellsFirst, AllStarted, BootTerminal,
         HasParent, Live, procVars, mapVars

-----------------------------------------------------------------------------
\* An orderly step is a step of the kernel.
LEMMA OrderlyIsNext == [OrderlyNext]_vars => [Next]_vars
  BY DEF OrderlyNext, Next, OrderlyExecute, OrderlyException, OrderlyCtrlC

\* Every orderly step.
LEMMA OrderlyNextInv ==
  ASSUME OrderlyInv, [OrderlyNext]_vars PROVE OrderlyInv'
  <1>1. ProcessInv'
    BY OrderlyIsNext, NextInv DEF OrderlyInv
  <1>2. CASE PitHandler
    BY <1>1, <1>2, OrderlyPitInv
  <1>3. CASE OrderlyExecute
    BY <1>1, <1>3, OrderlyExecuteInv
  <1>4. CASE Halt
    <2>1. esp # NULL /\ UNCHANGED <<active_ter, mapVars>>
      BY <1>4 DEF Halt, Running
    <2>2. CASE HasParent(esp) /\ HaltTo(esp)
      BY <1>1, <2>1, <2>2, OrderlyHaltToInv
    <2>3. CASE UNCHANGED <<procVars, fault>>
      BY <1>1, <2>1, <2>3, OrderlyStutterInv
    <2> QED BY <1>4, <2>2, <2>3 DEF Halt
  <1>5. CASE OrderlyException
    <2>1. /\ esp # NULL /\ HasParent(esp) /\ ExceptionHaltBody
          /\ UNCHANGED <<active_ter, mapVars>>
      BY <1>5 DEF OrderlyException, ExceptionHalt, Running
    <2>2. HaltTo(esp)
      BY <2>1, RunningProcess DEF ExceptionHaltBody
    <2> QED BY <1>1, <2>1, <2>2, OrderlyHaltToInv
  <1>6. CASE OrderlyCtrlC
    <2>1. /\ terminal_pid[active_ter] = esp /\ HasParent(esp)
          /\ UNCHANGED <<active_ter, mapVars>>
      BY <1>6 DEF OrderlyCtrlC, KeyboardHalt
    <2>2. HaltTo(esp)
      BY <1>6, <2>1 DEF OrderlyCtrlC, KeyboardHalt
    <2>3. esp # NULL
      BY <2>1, ProcessAssumption
         DEF OrderlyInv, ProcessInv, TypeOK, NO_PID, HasParent
    <2> QED BY <1>1, <2>1, <2>2, <2>3, OrderlyHaltToInv
  <1>7. CASE KeyboardEcho \/ \E ter \in Ter : KeyboardSwitch(ter)
    BY <1>1, <1>7, OrderlyDisplayInv
  <1>8. CASE UNCHANGED vars
    BY <1>1, <1>8, OrderlyStutterInv DEF vars
  <1> QED BY <1>2, <1>3, <1>4, <1>5, <1>6, <1>7, <1>8 DEF OrderlyNext

\* The inductive invariant holds in every state an orderly environment reaches.
THEOREM OrderlyInvariant == OrderlySpec => []OrderlyInv
  BY OrderlyInit, OrderlyNextInv, PTL DEF OrderlySpec

\* No saved stack pointer is ever followed to a stack that holds no context,
\* no null parent is dereferenced, no program runs without a pid
\* (switch_process, sys_halt, exception_halt, keyboard_halt, execute_shell).
THEOREM OrderlyNoFault == OrderlySpec => []NoFault
  BY OrderlyInvariant, PTL DEF OrderlyInv

\* process_cnt, avail_pid and the processes there are never disagree (task.c).
THEOREM OrderlyPidAccounting == OrderlySpec => []PidAccounting
  BY OrderlyInvariant, PTL DEF OrderlyInv

\* The processes of each terminal form one chain from its shell to the process
\* in terminal_pid (sys_execute, sys_halt).
THEOREM OrderlyChains == OrderlySpec => []OneChainPerTerminal
  BY OrderlyInvariant, PTL DEF OrderlyInv

\* No parent waits for a child that is gone (sys_execute, sys_halt).
THEOREM OrderlyChildren == OrderlySpec => []ChildExists
  BY OrderlyInvariant, PTL DEF OrderlyInv

\* No process loses its terminal's descriptors to another's halt (close_fds).
THEOREM OrderlyDescriptors == OrderlySpec => []LiveDescriptors
  BY OrderlyInvariant, PTL DEF OrderlyInv

\* The kernel writes to the screen only for the terminal on display
\* (switch_process, switch_video).
THEOREM OrderlyNoBleed == OrderlySpec => []NoBleed
  BY OrderlyInvariant, PTL DEF OrderlyInv

-----------------------------------------------------------------------------
(***************************************************************************)
(* The kernel implements JobControl.  Chain is a recursive function along  *)
(* parent_pointer: that it exists is part of the invariant, and that the   *)
(* parents of processes form no cycle makes it the only one.               *)
(***************************************************************************)

\* f maps every pid to its chain, where C are the children and par the parents.
Solution(f, C, par) ==
    f = [p \in Pid |-> IF p \in C THEN Append(f[par[p]], p) ELSE <<p>>]

\* Some process of every set of pids has its parent outside.
Grounded(C, par) ==
    \A S \in SUBSET Pid : S # {} => \E p \in S : p \in C => par[p] \notin S

LEMMA OneSolution ==
    ASSUME NEW C, NEW par, \A c \in C : par[c] \in Pid, Grounded(C, par),
           NEW f, NEW g, Solution(f, C, par), Solution(g, C, par)
    PROVE  f = g
  <1> DEFINE S == {p \in Pid : f[p] # g[p]}
  <1>1. S = {}
    <2> SUFFICES ASSUME S # {} PROVE FALSE
      OBVIOUS
    <2>1. PICK p \in S : p \in C => par[p] \notin S
      BY DEF Grounded
    <2>2. /\ f[p] = IF p \in C THEN Append(f[par[p]], p) ELSE <<p>>
          /\ g[p] = IF p \in C THEN Append(g[par[p]], p) ELSE <<p>>
      BY DEF Solution
    <2>3. p \in C => f[par[p]] = g[par[p]]
      BY <2>1
    <2> QED
      BY <2>2, <2>3
  <1>2. f = [p \in Pid |-> f[p]] /\ g = [p \in Pid |-> g[p]]
    BY DEF Solution
  <1>3. \A p \in Pid : f[p] = g[p]
    BY <1>1
  <1> QED
    BY <1>2, <1>3

\* A process started by q.
LEMMA ChildAdded ==
    ASSUME NEW C \in SUBSET Pid, NEW par \in [Pid -> Pid \cup {NULL}],
           NEW p \in Pid \ C, NEW q \in Pid \ {p},
           \A c \in C : par[c] \in Pid \ {p}, Grounded(C, par),
           NEW f, Solution(f, C, par)
    PROVE  /\ Grounded(C \cup {p}, [par EXCEPT ![p] = q])
           /\ Solution([f EXCEPT ![p] = Append(f[q], p)], C \cup {p},
                       [par EXCEPT ![p] = q])
  <1> DEFINE D == C \cup {p}
             new == [par EXCEPT ![p] = q]
             g == [f EXCEPT ![p] = Append(f[q], p)]
  <1>1. new[p] = q /\ \A c \in Pid \ {p} : new[c] = par[c]
    OBVIOUS
  <1> HIDE DEF new
  <1>2. Grounded(D, new)
    <2> SUFFICES ASSUME NEW S \in SUBSET Pid, S # {}
                 PROVE  \E r \in S : r \in D => new[r] \notin S
      BY DEF Grounded
    <2>1. CASE S \ {p} = {}
      BY <1>1, <2>1
    <2>2. CASE S \ {p} # {}
      <3>1. PICK r \in S \ {p} : r \in C => par[r] \notin S \ {p}
        BY <2>2 DEF Grounded
      <3>2. r \in D => new[r] \notin S
        BY <1>1, <3>1
      <3> QED
        BY <3>1, <3>2
    <2> QED
      BY <2>1, <2>2
  <1>3. Solution(g, D, new)
    <2>1. /\ f = [r \in Pid |-> f[r]]
          /\ \A r \in Pid : f[r] = IF r \in C THEN Append(f[par[r]], r) ELSE <<r>>
      BY DEF Solution
    <2>2. /\ g = [r \in Pid |-> g[r]] /\ g[p] = Append(f[q], p)
          /\ \A r \in Pid \ {p} : g[r] = f[r]
      BY <2>1
    <2> HIDE DEF g
    <2>3. ASSUME NEW r \in Pid
          PROVE  g[r] = IF r \in D THEN Append(g[new[r]], r) ELSE <<r>>
      <3>1. CASE r = p
        BY <1>1, <2>2, <3>1
      <3>2. CASE r # p
        BY <1>1, <2>1, <2>2, <3>2
      <3> QED
        BY <3>1, <3>2
    <2> QED
      BY <2>2, <2>3 DEF Solution
  <1> QED
    BY <1>2, <1>3 DEF g, new

\* A process halted, which started no other one.
LEMMA ChildRemoved ==
    ASSUME NEW C \in SUBSET Pid, NEW par, NEW p \in Pid,
           \A c \in C : par[c] \in Pid \ {p}, Grounded(C, par),
           NEW f, Solution(f, C, par)
    PROVE  /\ Grounded(C \ {p}, par)
           /\ Solution([f EXCEPT ![p] = <<p>>], C \ {p}, par)
  <1> DEFINE g == [f EXCEPT ![p] = <<p>>]
  <1>1. Grounded(C \ {p}, par)
    BY DEF Grounded
  <1>2. /\ f = [r \in Pid |-> f[r]]
        /\ \A r \in Pid : f[r] = IF r \in C THEN Append(f[par[r]], r) ELSE <<r>>
    BY DEF Solution
  <1>3. /\ g = [r \in Pid |-> g[r]] /\ g[p] = <<p>>
        /\ \A r \in Pid \ {p} : g[r] = f[r]
    BY <1>2
  <1> HIDE DEF g
  <1>4. ASSUME NEW r \in Pid
        PROVE  g[r] = IF r \in C \ {p} THEN Append(g[par[r]], r) ELSE <<r>>
    BY <1>2, <1>3
  <1>5. Solution(g, C \ {p}, par)
    BY <1>3, <1>4 DEF Solution
  <1> QED
    BY <1>1, <1>5 DEF g

\* A shell started: it has no parent.
LEMMA RootAdded ==
    ASSUME NEW C \in SUBSET Pid, NEW par \in [Pid -> Pid \cup {NULL}],
           NEW p \in Pid \ C, Grounded(C, par), NEW f, Solution(f, C, par)
    PROVE  /\ Grounded(C, [par EXCEPT ![p] = NULL])
           /\ Solution(f, C, [par EXCEPT ![p] = NULL])
  <1> DEFINE new == [par EXCEPT ![p] = NULL]
  <1>1. \A c \in C : new[c] = par[c]
    OBVIOUS
  <1> HIDE DEF new
  <1>2. Grounded(C, new)
    <2> SUFFICES ASSUME NEW S \in SUBSET Pid, S # {}
                 PROVE  \E r \in S : r \in C => new[r] \notin S
      BY DEF Grounded
    <2>1. PICK r \in S : r \in C => par[r] \notin S
      BY DEF Grounded
    <2> QED
      BY <1>1, <2>1
  <1>3. Solution(f, C, new)
    <2>1. \A r \in Pid : (IF r \in C THEN Append(f[new[r]], r) ELSE <<r>>)
                         = IF r \in C THEN Append(f[par[r]], r) ELSE <<r>>
      BY <1>1
    <2> QED
      BY <2>1 DEF Solution
  <1> QED
    BY <1>2, <1>3 DEF new

\* A chain of processes consists of processes.
LEMMA ChainsLive ==
    ASSUME NEW L \in SUBSET Pid, NEW C \in SUBSET L, NEW par,
           \A c \in C : par[c] \in L, Grounded(C, par),
           NEW f, Solution(f, C, par)
    PROVE  \A q \in L : f[q] \in Seq(L) /\ f[q] # <<>>
  <1> DEFINE S == {q \in L : ~ (f[q] \in Seq(L) /\ f[q] # <<>>)}
  <1>1. S = {}
    <2> SUFFICES ASSUME S # {} PROVE FALSE
      OBVIOUS
    <2>1. PICK p \in S : p \in C => par[p] \notin S
      BY DEF Grounded
    <2>2. p \in L /\ f[p] = IF p \in C THEN Append(f[par[p]], p) ELSE <<p>>
      BY DEF Solution
    <2>3. CASE p \in C
      <3>1. f[par[p]] \in Seq(L)
        BY <2>1, <2>3
      <3> DEFINE s == f[par[p]]
      <3> HIDE DEF s
      <3>2. Append(s, p) \in Seq(L) /\ Append(s, p) # <<>>
        BY <2>2, <3>1 DEF s
      <3> QED
        BY <2>1, <2>2, <2>3, <3>2 DEF s
    <2>4. CASE p \notin C
      <3>1. <<p>> \in Seq(L) /\ <<p>> # <<>>
        BY <2>2
      <3> QED
        BY <2>1, <2>2, <2>4, <3>1
    <2> QED
      BY <2>3, <2>4
  <1> QED
    BY <1>1

\* The inductive invariant of the refinement: with the chains there are.
ChainInv ==
    /\ OrderlyInv
    /\ Grounded(Children, parent_pointer)
    /\ \E f : Solution(f, Children, parent_pointer)

\* Parents are processes that wait in execute.
LEMMA ParentsLive ==
    ASSUME OrderlyInv
    PROVE  /\ Children \in SUBSET Live /\ Live \in SUBSET Pid
           /\ \A c \in Children : /\ parent_pointer[c] \in Live
                                  /\ frame[parent_pointer[c]] = "execute"
  <1>1. ASSUME NEW c \in Children
        PROVE  parent_pointer[c] \in Pid /\ frame[parent_pointer[c]] = "execute"
    BY DEF OrderlyInv, ProcessInv, TypeOK, OneChainPerTerminal, ParentWaits,
           Children, HasParent, Live
  <1> QED
    BY <1>1 DEF Children, Live

LEMMA ChainIs ==
    ASSUME OrderlyInv, Grounded(Children, parent_pointer),
           NEW f, Solution(f, Children, parent_pointer)
    PROVE  Chain = f
  <1> DEFINE g == CHOOSE g : Solution(g, Children, parent_pointer)
  <1>1. Chain = g
    BY DEF Chain, Solution
  <1>2. Solution(g, Children, parent_pointer)
    OBVIOUS
  <1>3. \A c \in Children : parent_pointer[c] \in Pid
    BY ParentsLive
  <1> HIDE DEF g
  <1> QED
    BY <1>1, <1>2, <1>3, OneSolution

\* The same after a step.
LEMMA ChainWillBe ==
    ASSUME NEW C, C = Children', NEW par, par = parent_pointer',
           \A c \in C : par[c] \in Pid, Grounded(C, par),
           NEW f, Solution(f, C, par)
    PROVE  Chain' = f
  <1> DEFINE g == CHOOSE g : Solution(g, C, par)
  <1>1. Chain' = g
    BY DEF Chain, Solution
  <1>2. Solution(g, C, par)
    OBVIOUS
  <1> HIDE DEF g
  <1> QED
    BY <1>1, <1>2, OneSolution

\* The chains before a step, as a function.
LEMMA ChainNow ==
    ASSUME ChainInv
    PROVE  \E f : /\ Solution(f, Children, parent_pointer) /\ Chain = f
                  /\ \A q \in Live : f[q] \in Seq(Live) /\ f[q] # <<>>
  <1>1. PICK f : Solution(f, Children, parent_pointer)
    BY DEF ChainInv
  <1>2. Chain = f
    BY <1>1, ChainIs DEF ChainInv
  <1>3. \A q \in Live : f[q] \in Seq(Live) /\ f[q] # <<>>
    BY <1>1, ParentsLive, ChainsLive DEF ChainInv
  <1> QED
    BY <1>1, <1>2, <1>3

\* What the terminals show once there is a process.
LEMMA StackIs ==
    ASSUME OrderlyInv, esp # NULL
    PROVE  /\ Cpu = terminal[esp] /\ Cpu \in Ter /\ Cpu # NULL
           /\ JobStack = [ter \in Ter |-> IF terminal_pid[ter] # NO_PID
                                          THEN Chain[terminal_pid[ter]] ELSE <<>>]
           /\ \A ter \in Ter : terminal_pid[ter] # NO_PID => terminal_pid[ter] \in Live
  <1>1. Cpu = terminal[esp] /\ Cpu \in Ter
    BY RunningProcess DEF Cpu
  <1>2. Ter \subseteq Pid
    BY ProcessAssumption DEF Ter, Pid
  <1>3. JobStack = [ter \in Ter |-> IF terminal_pid[ter] # NO_PID
                                    THEN Chain[terminal_pid[ter]] ELSE <<>>]
    BY DEF JobStack, Foreground
  <1>4. ASSUME NEW ter \in Ter, terminal_pid[ter] # NO_PID
        PROVE  terminal_pid[ter] \in Live
    BY <1>4 DEF OrderlyInv, ProcessInv, TypeOK, OneChainPerTerminal,
                ForegroundIsLeaf, Live
  <1> QED
    BY <1>1, <1>2, <1>3, <1>4, ProcessAssumption

\* No pid outside Live is on a stack.
LEMMA FreeIsUnused ==
    ASSUME ChainInv, NEW p \in Pid \ Live
    PROVE  p \in Abstract!Unused
  <1>1. PICK f : Chain = f /\ \A q \in Live : f[q] \in Seq(Live) /\ f[q] # <<>>
    BY ChainNow
  <1>2. ASSUME NEW ter \in Ter PROVE JobStack[ter] \in Seq(Live)
    <2>1. CASE ter \in Foreground
      <3>1. esp # NULL /\ terminal_pid[ter] # NO_PID
        BY <2>1 DEF Foreground
      <3>2. terminal_pid[ter] \in Live
        BY <3>1, StackIs DEF ChainInv
      <3> QED
        BY <1>1, <2>1, <3>2 DEF JobStack
    <2>2. CASE ter \notin Foreground
      <3>1. JobStack[ter] = <<>>
        BY <2>2 DEF JobStack
      <3> QED
        BY <3>1
    <2> QED
      BY <2>1, <2>2
  <1>3. ASSUME NEW ter \in Ter PROVE p \notin Abstract!JobsOf(ter)
    <2> DEFINE s == JobStack[ter]
    <2>1. s \in Seq(Live)
      BY <1>2
    <2> HIDE DEF s
    <2>2. \A i \in DOMAIN s : s[i] \in Live
      BY <2>1
    <2>3. p \notin {s[i] : i \in DOMAIN s}
      BY <2>2
    <2> QED
      BY <2>3 DEF Abstract!JobsOf, s
  <1> QED
    BY <1>3 DEF Abstract!Unused

-----------------------------------------------------------------------------
\* sys_execute puts a process on top of the stack of the running terminal.
LEMMA ExecuteStarts ==
    ASSUME ChainInv, OrderlyInv', OrderlyExecute
    PROVE  ChainInv' /\ Abstract!StartJob
  <1> DEFINE ter == terminal[esp]
             C == Children
             par == parent_pointer
  <1>1. esp # NULL /\ process_cnt < MAX_PROCESS /\ AllStarted /\ ter = active_ter
        /\ OrderlyInv
    BY DEF OrderlyExecute, Execute, Running, ChainInv
  <1>2. FreePid # {}
    BY <1>1, FreePidExists DEF OrderlyInv, ProcessInv
  <1>3. PICK p \in NextPid :
           /\ StartProcess(p, active_ter, esp, Called)
           /\ terminal_pid' = [terminal_pid EXCEPT ![active_ter] = p]
    BY <1>2 DEF OrderlyExecute, Execute, ChildTerminal
  <1>4. Called \in [Pid -> Frame]
        /\ \A q \in Pid : Called[q] # "none" <=> frame[q] # "none"
    BY <1>1, RunningProcess DEF OrderlyInv, ProcessInv, TypeOK, Called, Frame
  <1>5. p \in Pid /\ p \notin Live /\ Live' = Live \cup {p}
    BY <1>1, <1>3, <1>4, StartAccounting DEF OrderlyInv
  <1>6. /\ esp' = p /\ terminal' = [terminal EXCEPT ![p] = ter]
        /\ parent_pointer' = [par EXCEPT ![p] = esp]
        /\ terminal_pid' = [terminal_pid EXCEPT ![ter] = p]
    BY <1>1, <1>3 DEF StartProcess, task_init, init_pcb
  <1>7. /\ esp \in Pid /\ esp \in Live /\ frame[esp] = "cpu" /\ ter \in Ter
        /\ terminal_pid[ter] = esp /\ p # NO_PID /\ p # NULL /\ p # esp
    BY <1>1, <1>5, RunningProcess, ProcessAssumption DEF Pid, NO_PID
  <1>8. par \in [Pid -> Pid \cup {NULL}] /\ terminal \in [Pid -> Ter]
        /\ terminal_pid \in [Ter -> Pid \cup {NO_PID}]
    BY <1>1 DEF OrderlyInv, ProcessInv, TypeOK
  <1>9. Children' = C \cup {p}
    <2>1. ASSUME NEW q \in Pid, q # p PROVE HasParent(q)' <=> HasParent(q)
      BY <1>6, <1>8, <2>1 DEF HasParent
    <2>2. HasParent(p)'
      BY <1>5, <1>6, <1>7, <1>8, ProcessAssumption DEF HasParent
    <2> QED
      BY <1>5, <2>1, <2>2, ParentsLive DEF Children, Live
  <1>10. C \in SUBSET Pid /\ p \in Pid \ C /\ \A c \in C : par[c] \in Pid \ {p}
    BY <1>1, <1>5, ParentsLive
  <1>11. PICK f : /\ Solution(f, C, par) /\ Chain = f
                  /\ \A q \in Live : f[q] \in Seq(Live) /\ f[q] # <<>>
    BY ChainNow
  <1> DEFINE g == [f EXCEPT ![p] = Append(f[esp], p)]
             D == C \cup {p}
             new == [par EXCEPT ![p] = esp]
  <1>12. Grounded(C, par)
    BY DEF ChainInv
  <1> HIDE DEF C, par
  <1>13. Grounded(D, new) /\ Solution(g, D, new)
    <2>1. esp \in Pid \ {p}
      BY <1>7
    <2> QED
      BY <1>8, <1>10, <1>11, <1>12, <2>1, ChildAdded
  <1>14. \A c \in D : new[c] \in Pid
    BY <1>7, <1>8, <1>10
  <1>15. Children' = D /\ parent_pointer' = new
    BY <1>6, <1>9
  <1> HIDE DEF D, new
  <1>16. ChainInv'
    BY <1>13, <1>15 DEF ChainInv
  <1>17. Chain' = g
    <2> HIDE DEF g
    <2> QED
      BY <1>13, <1>14, <1>15, ChainWillBe
  <1>18. \A q \in Pid : g[q] = IF q = p THEN Append(f[esp], p) ELSE f[q]
    <2>1. f = [q \in Pid |-> f[q]]
      BY <1>11 DEF Solution
    <2> QED
      BY <1>5, <2>1
  <1> HIDE DEF g
  <1>19. /\ Cpu = ter /\ ter # NULL
         /\ JobStack = [t \in Ter |-> IF terminal_pid[t] # NO_PID
                                      THEN f[terminal_pid[t]] ELSE <<>>]
    BY <1>1, <1>11, StackIs
  <1>20. /\ Cpu' = ter
         /\ JobStack' = [t \in Ter |-> IF terminal_pid'[t] # NO_PID
                                       THEN g[terminal_pid'[t]] ELSE <<>>]
    <2>1. esp' # NULL /\ terminal'[esp'] = ter
      BY <1>5, <1>6, <1>7, <1>8
    <2> QED
      BY <1>17, <2>1 DEF Cpu, JobStack, Foreground
  <1>21. \A t \in Ter \ {ter} : terminal_pid[t] # p
    <2>1. \A t \in Ter : terminal_pid[t] # NO_PID => terminal_pid[t] \in Live
      BY <1>1, StackIs
    <2> QED
      BY <1>5, <1>7, <2>1
  <1>22. JobStack' = [JobStack EXCEPT ![ter] = Append(@, p)]
    <2>1. \A t \in Ter \ {ter} : terminal_pid'[t] = terminal_pid[t]
      BY <1>6, <1>8
    <2>2. terminal_pid'[ter] = p
      BY <1>6, <1>7, <1>8
    <2>3. \A t \in Ter \ {ter} : terminal_pid[t] # NO_PID
              => g[terminal_pid[t]] = f[terminal_pid[t]]
      BY <1>8, <1>18, <1>21
    <2>4. g[p] = Append(f[esp], p)
      BY <1>5, <1>18
    <2>5. esp # NO_PID
      BY <1>7, ProcessAssumption DEF Pid, NO_PID
    <2>6. ter \in Ter /\ terminal_pid[ter] = esp /\ p # NO_PID
      BY <1>7
    <2> HIDE DEF ter
    <2>7. /\ JobStack = [t \in Ter |-> JobStack[t]]
          /\ JobStack' = [t \in Ter |-> JobStack'[t]]
      BY <1>19, <1>20
    <2>8. JobStack[ter] = f[esp] /\ JobStack'[ter] = Append(f[esp], p)
      BY <1>19, <1>20, <2>2, <2>4, <2>5, <2>6
    <2>9. \A t \in Ter \ {ter} : JobStack'[t] = JobStack[t]
      BY <1>19, <1>20, <2>1, <2>3
    <2> QED
      BY <2>6, <2>7, <2>8, <2>9
  <1>23. p \in Abstract!Unused
    BY <1>5, FreeIsUnused
  <1>24. Abstract!StartJob
    BY <1>19, <1>20, <1>22, <1>23, <1>5 DEF Abstract!StartJob
  <1> QED
    BY <1>16, <1>24

\* A halt uncovers the parent, the next process of the same stack.
LEMMA HaltEnds ==
    ASSUME ChainInv, OrderlyInv', esp # NULL, HasParent(esp), HaltTo(esp)
    PROVE  ChainInv' /\ Abstract!EndJob
  <1> DEFINE ter == terminal[esp]
             C == Children
             par == parent_pointer
             up == par[esp]
             p == esp
  <1>0. OrderlyInv
    BY DEF ChainInv
  <1>1. /\ p \in Pid /\ p \in Live /\ frame[p] = "cpu" /\ ter \in Ter
        /\ terminal_pid[ter] = p /\ get_pcb = p
    BY <1>0, RunningProcess
  <1>2. p \in C
    BY <1>1 DEF Children
  <1>3. /\ C \in SUBSET Pid /\ Live \in SUBSET Pid
        /\ \A c \in C : par[c] \in Live /\ par[c] \in Pid \ {p}
    BY <1>0, <1>1, ParentsLive
  <1>4. up \in Live /\ up \in Pid /\ up # p
        /\ frame[up] = "execute" /\ terminal[up] = ter
    BY <1>0, <1>1, <1>2, <1>3, ParentsLive
       DEF OrderlyInv, OneChainPerTerminal, ParentWaits, Children
  <1>5. /\ par \in [Pid -> Pid \cup {NULL}] /\ terminal \in [Pid -> Ter]
        /\ terminal_pid \in [Ter -> Pid \cup {NO_PID}] /\ frame \in [Pid -> Frame]
    BY <1>0 DEF OrderlyInv, ProcessInv, TypeOK
  <1>6. /\ frame' = [frame EXCEPT ![p] = "none", ![up] = "cpu"]
        /\ terminal_pid' = [terminal_pid EXCEPT ![ter] = up]
        /\ esp' = up /\ UNCHANGED <<parent_pointer, terminal>>
    BY <1>1, <1>4, <1>5 DEF HaltTo, ReturnToParent, ParentForeground
  <1>7. Live' = Live \ {p}
    BY <1>1, <1>4, <1>5, <1>6 DEF Live
  <1>8. Children' = C \ {p} /\ parent_pointer' = par
    BY <1>6, <1>7 DEF Children, HasParent
  <1>9. PICK f : /\ Solution(f, C, par) /\ Chain = f
                 /\ \A q \in Live : f[q] \in Seq(Live) /\ f[q] # <<>>
    BY ChainNow
  <1> DEFINE g == [f EXCEPT ![p] = <<p>>]
             D == C \ {p}
  <1>10. Grounded(C, par)
    BY DEF ChainInv
  <1> HIDE DEF C, par
  <1>11. Grounded(D, par) /\ Solution(g, D, par)
    BY <1>1, <1>3, <1>9, <1>10, ChildRemoved
  <1>12. \A c \in D : par[c] \in Pid
    BY <1>3
  <1> HIDE DEF D
  <1>13. ChainInv'
    <2>1. Children' = D /\ parent_pointer' = par
      BY <1>8 DEF D
    <2> QED
      BY <1>11, <2>1 DEF ChainInv
  <1>14. Chain' = g
    <2>1. Children' = D /\ parent_pointer' = par
      BY <1>8 DEF D
    <2> HIDE DEF g
    <2> QED
      BY <1>11, <1>12, <2>1, ChainWillBe
  <1>15. \A q \in Pid \ {p} : g[q] = f[q]
    <2>1. f = [q \in Pid |-> f[q]]
      BY <1>9 DEF Solution
    <2> QED
      BY <2>1
  <1> HIDE DEF g
  <1>16. f[p] = Append(f[up], p)
    BY <1>1, <1>2, <1>9 DEF Solution, par
  <1>17. /\ Cpu = ter /\ ter # NULL
         /\ JobStack = [t \in Ter |-> IF terminal_pid[t] # NO_PID
                                      THEN f[terminal_pid[t]] ELSE <<>>]
    BY <1>0, <1>9, StackIs
  <1>18. /\ Cpu' = ter
         /\ JobStack' = [t \in Ter |-> IF terminal_pid'[t] # NO_PID
                                       THEN g[terminal_pid'[t]] ELSE <<>>]
    <2>1. esp' # NULL /\ terminal'[esp'] = ter
      BY <1>4, <1>6, ProcessAssumption
    <2> QED
      BY <1>14, <2>1 DEF Cpu, JobStack, Foreground
  <1>19. p # NO_PID /\ up # NO_PID
    BY <1>1, <1>4, ProcessAssumption DEF Pid, NO_PID
  \* No other terminal runs p.
  <1>20. \A t \in Ter \ {ter} : terminal_pid[t] # p
    <2>1. \A t \in Ter : terminal_pid[t] # NO_PID => terminal[terminal_pid[t]] = t
      BY <1>0 DEF OrderlyInv, OneChainPerTerminal, ForegroundIsLeaf
    <2> QED
      BY <1>19, <2>1
  <1>21. JobStack' = [JobStack EXCEPT ![ter] = f[up]]
    <2>1. \A t \in Ter \ {ter} : terminal_pid'[t] = terminal_pid[t]
      BY <1>5, <1>6
    <2>2. terminal_pid'[ter] = up
      BY <1>1, <1>5, <1>6
    <2>3. \A t \in Ter \ {ter} : terminal_pid[t] # NO_PID
              => g[terminal_pid[t]] = f[terminal_pid[t]]
      BY <1>5, <1>15, <1>20
    <2>4. g[up] = f[up]
      BY <1>4, <1>15
    <2> HIDE DEF ter, up
    <2> QED
      BY <1>17, <1>18, <1>19, <2>1, <2>2, <2>3, <2>4
  <1>22. JobStack[ter] = Append(f[up], p)
    BY <1>1, <1>16, <1>17, <1>19
  <1> DEFINE s == f[up]
  <1>23. s \in Seq(Live) /\ s # <<>>
    BY <1>4, <1>9
  <1> HIDE DEF s
  <1>24. /\ Append(s, p) \in Seq(Live) /\ Len(Append(s, p)) = Len(s) + 1
         /\ Len(s) \in Nat /\ Len(s) > 0
    BY <1>1, <1>23
  <1>25. Len(JobStack[ter]) > 1
    BY <1>22, <1>24 DEF s
  <1>26. SubSeq(JobStack[ter], 1, Len(JobStack[ter]) - 1) = s
    <2> DEFINE r == Append(s, p)
    <2>1. /\ r \in Seq(Live) /\ Len(r) - 1 = Len(s)
          /\ \A i \in 1 .. Len(s) : r[i] = s[i]
      BY <1>1, <1>23, <1>24
    <2>2. JobStack[ter] = r
      BY <1>22 DEF s
    <2> HIDE DEF r
    <2>3. \A i \in 1 .. Len(s) : r[i] \in Live
      BY <1>23, <2>1
    <2>4. /\ SubSeq(r, 1, Len(s)) \in Seq(Live) /\ Len(SubSeq(r, 1, Len(s))) = Len(s)
          /\ \A i \in 1 .. Len(s) : SubSeq(r, 1, Len(s))[i] = r[i]
      BY <1>24, <2>1, <2>3, SubSeqProperties
    <2>5. SubSeq(r, 1, Len(s)) = s
      BY <1>23, <2>1, <2>4, SeqEqual
    <2> QED
      BY <2>1, <2>2, <2>5
  <1>27. JobStack' = [JobStack EXCEPT ![ter] = SubSeq(@, 1, Len(@) - 1)]
    BY <1>21, <1>26 DEF s
  <1>28. Abstract!EndJob
    BY <1>17, <1>18, <1>25, <1>27 DEF Abstract!EndJob
  <1> QED
    BY <1>13, <1>28

-----------------------------------------------------------------------------
\* A new shell leaves the chains as they are: it has no parent.
LEMMA ChainsKeptByShell ==
    ASSUME ChainInv, OrderlyInv', NEW p \in Pid \ Live, Live' = Live \cup {p},
           parent_pointer' = [parent_pointer EXCEPT ![p] = NULL]
    PROVE  /\ ChainInv'
           /\ \E f : Chain = f /\ Chain' = f /\ f[p] = <<p>>
  <1> DEFINE C == Children
             par == parent_pointer
             new == [par EXCEPT ![p] = NULL]
  <1>1. par \in [Pid -> Pid \cup {NULL}] /\ OrderlyInv /\ Grounded(C, par)
    BY DEF ChainInv, OrderlyInv, ProcessInv, TypeOK
  <1>2. C \in SUBSET Pid /\ p \in Pid \ C /\ \A c \in C : par[c] \in Pid
    BY <1>1, ParentsLive
  <1>3. PICK f : Solution(f, C, par) /\ Chain = f
    BY ChainNow
  <1>4. Children' = C
    <2>1. ASSUME NEW q \in Pid, q # p PROVE HasParent(q)' <=> HasParent(q)
      BY <1>1, <2>1 DEF HasParent
    <2>2. ~ HasParent(p)'
      BY <1>1 DEF HasParent
    <2> QED
      BY <1>1, <2>1, <2>2, ParentsLive DEF Children
  <1> HIDE DEF C, par
  <1>5. Grounded(C, new) /\ Solution(f, C, new)
    BY <1>1, <1>2, <1>3, RootAdded
  <1>6. \A c \in C : new[c] \in Pid
    BY <1>1, <1>2
  <1>7. Children' = C /\ parent_pointer' = new
    BY <1>4 DEF par
  <1> HIDE DEF new
  <1>8. ChainInv'
    BY <1>5, <1>7 DEF ChainInv
  <1>9. Chain' = f
    BY <1>5, <1>6, <1>7, ChainWillBe
  <1>10. f[p] = <<p>>
    BY <1>2, <1>3 DEF Solution
  <1> QED
    BY <1>3, <1>8, <1>9, <1>10

\* The first timer interrupt starts the shell of the first terminal.
LEMMA BootStarts ==
    ASSUME ChainInv, OrderlyInv', process_cnt = 0, ExecuteShell(0, Abandoned)
    PROVE  ChainInv' /\ Abstract!StartShell(0)
  <1>1. OrderlyInv /\ esp = NULL /\ avail_pid = {} /\ Abandoned = frame /\ Live = {}
    BY CountPositive DEF Abandoned, OrderlyInv, PidAccounting, ChainInv
  <1>2. PICK p \in NextPid : /\ StartProcess(p, 0, NULL, frame)
                             /\ terminal_pid' = ShellStarted(p, 0)
    BY <1>1 DEF ExecuteShell
  <1>3. p \in Pid /\ p # NULL /\ Live' = Live \cup {p}
    BY <1>1, <1>2, StartAccounting, ProcessAssumption
       DEF OrderlyInv, ProcessInv, TypeOK
  <1>4. /\ esp' = p /\ terminal'[p] = 0
        /\ parent_pointer' = [parent_pointer EXCEPT ![p] = NULL]
    BY <1>1, <1>2, <1>3
       DEF StartProcess, task_init, init_pcb, OrderlyInv, ProcessInv, TypeOK
  <1>5. 0 \in Ter /\ terminal_pid' = [t \in Ter |-> IF t = 0 THEN p ELSE NO_PID]
    BY <1>2, ProcessAssumption DEF ShellStarted, Ter
  <1>6. p # NO_PID
    BY <1>3, ProcessAssumption DEF Pid, NO_PID
  <1>7. ChainInv' /\ \E f : Chain = f /\ Chain' = f /\ f[p] = <<p>>
    BY <1>1, <1>3, <1>4, ChainsKeptByShell
  <1>8. JobStack = [t \in Ter |-> <<>>]
    BY <1>1 DEF JobStack, Foreground
  <1>9. /\ Cpu' = 0
        /\ JobStack' = [t \in Ter |-> IF t = 0 THEN <<p>> ELSE <<>>]
    BY <1>3, <1>4, <1>5, <1>6, <1>7 DEF Cpu, JobStack, Foreground
  <1>10. JobStack' = [JobStack EXCEPT ![0] = <<p>>] /\ JobStack[0] = <<>>
    BY <1>5, <1>8, <1>9
  <1>11. p \in Abstract!Unused
    BY <1>1, <1>3, FreeIsUnused
  <1> QED
    BY <1>7, <1>9, <1>10, <1>11 DEF Abstract!StartShell

\* A later terminal's first time slice starts its shell.
LEMMA ShellStarts ==
    ASSUME ChainInv, OrderlyInv', esp # NULL, NEW ter \in Ter,
           terminal_pid[ter] = NO_PID, ExecuteShell(ter, Saved)
    PROVE  ChainInv' /\ Abstract!StartShell(ter)
  <1>1. ter # 0 /\ OrderlyInv
    BY DEF ChainInv, OrderlyInv, ShellsFirst
  <1>2. PICK p \in NextPid : /\ StartProcess(p, ter, NULL, Saved)
                             /\ terminal_pid' = ShellStarted(p, ter)
    BY DEF ExecuteShell
  <1>3. Saved = [frame EXCEPT ![esp] = "switch"] /\ Saved \in [Pid -> Frame]
    BY <1>1, SavedType DEF OrderlyInv, NoFault
  <1>4. p \in Pid /\ p \notin Live /\ Live' = Live \cup {p}
    <2>1. \A q \in Pid : Saved[q] # "none" <=> frame[q] # "none"
      BY <1>1, <1>3, RunningProcess DEF OrderlyInv, ProcessInv, TypeOK
    <2> QED
      BY <1>1, <1>2, <1>3, <2>1, StartAccounting DEF OrderlyInv
  <1>5. /\ esp' = p /\ terminal'[p] = ter
        /\ parent_pointer' = [parent_pointer EXCEPT ![p] = NULL]
        /\ terminal_pid' = [terminal_pid EXCEPT ![ter] = p]
    <2>1. terminal \in [Pid -> Ter] /\ terminal_pid \in [Ter -> Pid \cup {NO_PID}]
      BY <1>1 DEF OrderlyInv, ProcessInv, TypeOK
    <2>2. /\ esp' = p /\ terminal'[p] = ter
          /\ parent_pointer' = [parent_pointer EXCEPT ![p] = NULL]
      BY <1>2, <1>4, <2>1 DEF StartProcess, task_init, init_pcb
    <2>3. terminal_pid' = [t \in Ter |-> IF t = ter THEN p ELSE terminal_pid[t]]
      BY <1>1, <1>2 DEF ShellStarted
    <2> QED
      BY <2>1, <2>2, <2>3
  <1>6. p # NO_PID /\ p # NULL
    BY <1>4, ProcessAssumption DEF Pid, NO_PID
  <1>7. ChainInv' /\ \E f : Chain = f /\ Chain' = f /\ f[p] = <<p>>
    BY <1>4, <1>5, ChainsKeptByShell
  <1>8. PICK f : Chain = f /\ Chain' = f /\ f[p] = <<p>>
    BY <1>7
  <1>9. terminal_pid \in [Ter -> Pid \cup {NO_PID}]
    BY <1>1 DEF OrderlyInv, ProcessInv, TypeOK
  <1>10. JobStack = [t \in Ter |-> IF terminal_pid[t] # NO_PID
                                   THEN f[terminal_pid[t]] ELSE <<>>]
    BY <1>1, <1>8, StackIs
  <1>11. /\ Cpu' = ter
         /\ JobStack' = [t \in Ter |-> IF terminal_pid'[t] # NO_PID
                                       THEN f[terminal_pid'[t]] ELSE <<>>]
    BY <1>5, <1>6, <1>8 DEF Cpu, JobStack, Foreground
  <1>12. JobStack' = [JobStack EXCEPT ![ter] = <<p>>] /\ JobStack[ter] = <<>>
    <2>1. \A t \in Ter \ {ter} : terminal_pid'[t] = terminal_pid[t]
      BY <1>5, <1>9
    <2>2. terminal_pid'[ter] = p
      BY <1>5, <1>9
    <2> QED
      BY <1>6, <1>8, <1>10, <1>11, <2>1, <2>2
  <1>13. p \in Abstract!Unused
    BY <1>4, FreeIsUnused
  <1> QED
    BY <1>7, <1>11, <1>12, <1>13 DEF Abstract!StartShell

\* A time slice of a terminal that has its shell resumes its foreground job.
LEMMA ResumeSlices ==
    ASSUME ChainInv, OrderlyInv', esp # NULL, NEW ter \in Ter,
           terminal_pid[ter] # NO_PID, Resume(terminal_pid[ter])
    PROVE  ChainInv' /\ Abstract!Slice(ter)
  <1> DEFINE p == terminal_pid[ter]
             C == Children
             par == parent_pointer
  <1>1. OrderlyInv /\ Grounded(C, par)
    BY DEF ChainInv
  <1>2. /\ p \in Pid /\ frame[p] \in {"cpu", "switch"} /\ terminal[p] = ter
    BY <1>1 DEF OrderlyInv, ProcessInv, TypeOK, OneChainPerTerminal,
                ForegroundIsLeaf
  <1>3. Saved = [frame EXCEPT ![esp] = "switch"] /\ Saved \in [Pid -> Frame]
    BY <1>1, SavedType DEF OrderlyInv, NoFault
  <1>4. Saved[p] = "switch"
    BY <1>1, <1>2, <1>3, RunningProcess DEF OrderlyInv, ProcessInv, TypeOK
  <1>5. /\ frame' = [frame EXCEPT ![esp] = "switch", ![p] = "cpu"] /\ esp' = p
        /\ UNCHANGED <<parent_pointer, terminal, terminal_pid>>
    BY <1>3, <1>4 DEF Resume
  <1>6. Live' = Live
    <2>1. \A q \in Pid : \/ frame'[q] = frame[q]
                         \/ {frame[q], frame'[q]} \subseteq {"cpu", "switch"}
      BY <1>1, <1>2, <1>5, RunningProcess DEF OrderlyInv, ProcessInv, TypeOK
    <2> QED
      BY <2>1 DEF Live
  <1>7. Children' = C /\ parent_pointer' = par
    BY <1>5, <1>6 DEF Children, HasParent
  <1>8. PICK f : /\ Solution(f, C, par) /\ Chain = f
                 /\ \A q \in Live : f[q] \in Seq(Live) /\ f[q] # <<>>
    BY ChainNow
  <1>9. \A c \in C : par[c] \in Pid
    BY <1>1, ParentsLive
  <1> HIDE DEF C, par
  <1>10. ChainInv'
    BY <1>1, <1>7, <1>8 DEF ChainInv
  <1>11. Chain' = f
    BY <1>1, <1>7, <1>8, <1>9, ChainWillBe
  <1>12. JobStack = [t \in Ter |-> IF terminal_pid[t] # NO_PID
                                   THEN f[terminal_pid[t]] ELSE <<>>]
    BY <1>1, <1>8, StackIs
  <1>13. p # NULL
    BY <1>2, ProcessAssumption
  <1>14. JobStack' = JobStack /\ Cpu' = ter
    BY <1>2, <1>5, <1>11, <1>12, <1>13 DEF Cpu, JobStack, Foreground
  <1>15. JobStack[ter] # <<>>
    <2>1. p \in Live
      BY <1>2 DEF Live
    <2> QED
      BY <1>8, <1>12, <2>1
  <1> QED
    BY <1>10, <1>14, <1>15 DEF Abstract!Slice

\* A step that leaves the processes alone.
LEMMA StacksKept ==
    ASSUME ChainInv, OrderlyInv', UNCHANGED procVars
    PROVE  ChainInv' /\ UNCHANGED Abstract!jobVars
  <1> DEFINE C == Children
             par == parent_pointer
  <1>1. OrderlyInv /\ Grounded(C, par)
    BY DEF ChainInv
  <1>2. UNCHANGED <<frame, parent_pointer, terminal, terminal_pid, esp>>
    BY DEF procVars
  <1>3. Children' = C /\ parent_pointer' = par
    BY <1>2 DEF Children, HasParent, Live
  <1>4. PICK f : Solution(f, C, par) /\ Chain = f
    BY ChainNow
  <1>5. \A c \in C : par[c] \in Pid
    BY <1>1, ParentsLive
  <1> HIDE DEF C, par
  <1>6. ChainInv'
    BY <1>1, <1>3, <1>4 DEF ChainInv
  <1>7. Chain' = f
    BY <1>1, <1>3, <1>4, <1>5, ChainWillBe
  <1>8. JobStack' = JobStack /\ Cpu' = Cpu
    BY <1>2, <1>4, <1>7 DEF Cpu, JobStack, Foreground
  <1> QED
    BY <1>6, <1>8 DEF Abstract!jobVars

-----------------------------------------------------------------------------
\* There are no jobs before the first timer interrupt.
LEMMA NoJobsAtFirst == Init => ChainInv /\ Abstract!JobInit
  <1> SUFFICES ASSUME Init PROVE ChainInv /\ Abstract!JobInit
    OBVIOUS
  <1>1. OrderlyInv
    BY OrderlyInit
  <1>2. Children = {}
    BY DEF Init, Children, Live
  <1>3. Grounded(Children, parent_pointer)
    BY <1>2 DEF Grounded
  <1>4. Solution([p \in Pid |-> <<p>>], Children, parent_pointer)
    BY <1>2 DEF Solution
  <1>5. JobStack = [ter \in Ter |-> <<>>] /\ Cpu = NULL
    BY DEF Init, JobStack, Foreground, Cpu
  <1> QED
    BY <1>1, <1>3, <1>4, <1>5 DEF ChainInv, Abstract!JobInit

\* pit_handler starts a shell or gives a terminal its time slice.
LEMMA PitStartsOrSlices ==
    ASSUME ChainInv, OrderlyInv', PitHandler
    PROVE  ChainInv' /\ Abstract!JobNext
  <1>0. OrderlyInv
    BY DEF ChainInv
  <1>1. ASSUME NEW ter \in Ter, Abstract!StartShell(ter) \/ Abstract!Slice(ter)
        PROVE  Abstract!JobNext
    BY <1>1 DEF Abstract!JobNext
  <1>2. CASE process_cnt = 0 /\ ExecuteShell(0, Abandoned)
    <2>1. 0 \in Ter
      BY ProcessAssumption DEF Ter
    <2> QED
      BY <1>1, <1>2, <2>1, BootStarts
  <1>3. ASSUME process_cnt # 0 PROVE esp # NULL /\ NextTer \in Ter
    BY <1>0, <1>3, NextTerType DEF OrderlyInv, ProcessInv, BootState
  <1>4. CASE /\ process_cnt # 0
             /\ terminal_pid[NextTer] = NO_PID /\ ExecuteShell(NextTer, Saved)
    BY <1>1, <1>3, <1>4, ShellStarts
  <1>5. CASE /\ process_cnt # 0 /\ terminal_pid[NextTer] = NO_PID
             /\ process_cnt >= MAX_PROCESS \/ FreePid = {}
    <2>1. process_cnt < MAX_PROCESS
      BY <1>0, <1>3, <1>5, FewShells
    <2>2. FreePid # {}
      BY <1>0, <2>1, FreePidExists DEF OrderlyInv, ProcessInv
    <2> QED
      BY <1>0, <1>5, <2>1, <2>2, ProcessAssumption
         DEF OrderlyInv, ProcessInv, TypeOK
  <1>6. CASE /\ process_cnt # 0 /\ terminal_pid[NextTer] # NO_PID
             /\ Resume(terminal_pid[NextTer])
    BY <1>1, <1>3, <1>6, ResumeSlices
  <1> QED
    BY <1>2, <1>4, <1>5, <1>6 DEF PitHandler

\* Every orderly step is one of the job control, or changes no stack.
LEMMA JobStep ==
    ASSUME ChainInv, [OrderlyNext]_vars
    PROVE  ChainInv' /\ [Abstract!JobNext]_(Abstract!jobVars)
  <1>1. OrderlyInv /\ OrderlyInv'
    BY OrderlyNextInv DEF ChainInv
  <1>2. ASSUME esp # NULL, HasParent(esp), HaltTo(esp)
        PROVE  ChainInv' /\ Abstract!JobNext
    BY <1>1, <1>2, HaltEnds DEF Abstract!JobNext
  <1>3. CASE PitHandler
    BY <1>1, <1>3, PitStartsOrSlices
  <1>4. CASE OrderlyExecute
    BY <1>1, <1>4, ExecuteStarts DEF Abstract!JobNext
  <1>5. CASE Halt
    <2>1. CASE HasParent(esp) /\ HaltTo(esp)
      BY <1>2, <1>5, <2>1 DEF Halt, Running
    <2>2. CASE UNCHANGED procVars
      BY <1>1, <2>2, StacksKept
    <2> QED
      BY <1>5, <2>1, <2>2 DEF Halt
  <1>6. CASE OrderlyException
    <2>1. esp # NULL /\ HasParent(esp) /\ ExceptionHaltBody
      BY <1>6 DEF OrderlyException, ExceptionHalt, Running
    <2>2. HaltTo(esp)
      BY <1>1, <2>1, RunningProcess DEF ExceptionHaltBody
    <2> QED
      BY <1>2, <2>1, <2>2
  <1>7. CASE OrderlyCtrlC
    <2>1. terminal_pid[active_ter] = esp /\ HasParent(esp)
      BY <1>7 DEF OrderlyCtrlC
    <2>2. HaltTo(esp)
      BY <1>7, <2>1 DEF OrderlyCtrlC, KeyboardHalt
    <2>3. esp # NULL
      BY <1>1, <2>1, ProcessAssumption
         DEF OrderlyInv, ProcessInv, TypeOK, NO_PID, HasParent
    <2> QED
      BY <1>2, <2>1, <2>2, <2>3
  <1>8. CASE KeyboardEcho \/ \E ter \in Ter : KeyboardSwitch(ter)
    <2>1. UNCHANGED procVars
      BY <1>8 DEF KeyboardEcho, KeyboardSwitch
    <2> QED
      BY <1>1, <2>1, StacksKept
  <1>9. CASE UNCHANGED vars
    <2>1. UNCHANGED procVars
      BY <1>9 DEF vars
    <2> QED
      BY <1>1, <2>1, StacksKept
  <1> QED
    BY <1>3, <1>4, <1>5, <1>6, <1>7, <1>8, <1>9 DEF OrderlyNext

\* The kernel implements JobControl: execute stacks a job on the terminal of
\* its parent, an exit, exception or Ctrl+C uncovers the parent, and the timer
\* starts the shells and moves the CPU, on whichever terminal is on display
\* (sys_halt, sys_execute, exception_halt, keyboard_halt and execute_shell in
\* system_call.c; switch_process, scheduler.c:63).
THEOREM KernelImplementsJobControl == OrderlySpec => ImplementsJobControl
  <1>1. ChainInv /\ [OrderlyNext]_vars =>
            ChainInv' /\ [Abstract!JobNext]_(Abstract!jobVars)
    BY JobStep
  <1> QED
    BY NoJobsAtFirst, <1>1, PTL
       DEF OrderlySpec, ImplementsJobControl, Abstract!Jobbing
=============================================================================
