------------------------------- MODULE Process -------------------------------
(***************************************************************************)
(* Processes, job control and the scheduler of the kernel:                 *)
(*                                                                         *)
(*   task.c          the pid allocator (process_cnt, avail_pid)            *)
(*   pcb.c           process control blocks                                *)
(*   system_call.c   sys_execute, sys_halt, exception_halt, keyboard_halt, *)
(*                   execute_shell                                         *)
(*   scheduler.c     pit_handler, switch_process                           *)
(*   terminal_driver.c, keyboard.c   what redirects video memory           *)
(*                                                                         *)
(* The machine has one CPU.  Every operation below runs with interrupts    *)
(* off from its first instruction that matters to its last, so each is one *)
(* atomic step; what interleaves are the operations of the user programs   *)
(* and the timer and keyboard interrupts.                                  *)
(*                                                                         *)
(* A process that does not have the CPU is known only by what its kernel   *)
(* stack holds, so the model keeps that: a context saved by the scheduler, *)
(* a call of execute that waits for its child, or nothing usable.  A jump  *)
(* through a saved stack pointer that does not find what it expects, and a *)
(* dereference of a null parent_pointer in the kernel that no handler      *)
(* survives, leave the behaviour the C code defines: they set fault and    *)
(* end the behaviour.                                                      *)
(***************************************************************************)
EXTENDS Integers, FiniteSets

CONSTANTS
    MAX_PROCESS,  \* task.h: number of pids (6)
    TER_NUM,      \* keyboard.h: number of terminals (3)
    PIT_MAX,      \* largest value of the uint32_t pit_cnt (2^32 - 1)
    UINT_MAX,     \* largest value of the uint32_t process_cnt (2^32 - 1)
    NULL          \* the null pointer

NO_PID == 255     \* (uint8_t)-1 in terminal_pid: no process was started there

Pid == 0 .. MAX_PROCESS - 1
Ter == 0 .. TER_NUM - 1

\* Physical pages the video memory address can be mapped to: the screen, or
\* the backing page of one terminal.
SCREEN == 0
Backing(ter) == ter + 1
VideoPage == {SCREEN} \cup {Backing(ter) : ter \in Ter}

ASSUME ProcessAssumption ==
    /\ TER_NUM \in Nat \ {0}
    /\ MAX_PROCESS \in Nat /\ TER_NUM <= MAX_PROCESS /\ MAX_PROCESS < NO_PID
    /\ PIT_MAX \in Nat
    /\ UINT_MAX \in Nat /\ MAX_PROCESS <= UINT_MAX
    /\ NULL \notin Pid

\* What the kernel stack of a pid holds:
\*   "none"     nothing: the pid has no process
\*   "cpu"      the CPU runs on it (or will, at its next trap)
\*   "switch"   a context saved by switch_process in stack_switch_p
\*   "execute"  a call of sys_execute, saved in stack_p, waiting for its child
\*   "lost"     a context the CPU left without saving it
Frame == {"none", "cpu", "switch", "execute", "lost"}

\* How the kernel left its defined behaviour, if it did:
\*   "dead_frame"   it resumed a stack that holds no context of that kind
\*   "null_parent"  exception_halt followed the null parent_pointer of a shell
\*   "no_pid"       a program was loaded under a pid nobody allocated: the -1
\*                  of task_init, or its uninitialised variable pid
Fault == {"none", "dead_frame", "null_parent", "no_pid"}

VARIABLES
    process_cnt,     \* number of processes
    avail_pid,       \* pids whose bit is set, i.e. that are in use
    parent_pointer,  \* per PCB: the parent's pid, or NULL for a root shell
    terminal,        \* per PCB: the terminal of the process
    stdio_open,      \* per PCB: the flags of descriptors 0 and 1
    frame,           \* per pid: what its kernel stack holds
    terminal_pid,    \* per terminal: the pid to run in its time slices
    active_process,  \* the pid the kernel believes is running
    page,            \* pid whose 4 MB page is mapped at 128 MB
    esp0,            \* pid whose kernel stack the next trap will use
    esp,             \* pid whose kernel stack the CPU uses; NULL at boot
    pit_cnt,         \* timer interrupts so far
    active_ter,      \* the terminal on display (cur_ter in keyboard.c)
    video_map,       \* page behind the kernel's video memory
    user_map,        \* page behind the video memory given to programs
    fault

procVars == <<process_cnt, avail_pid, parent_pointer, terminal, stdio_open,
              frame, terminal_pid, active_process, page, esp0, esp>>
mapVars  == <<video_map, user_map>>
vars     == <<procVars, pit_cnt, active_ter, mapVars, fault>>

TypeOK ==
    /\ process_cnt \in 0 .. UINT_MAX
    /\ avail_pid \subseteq Pid
    /\ parent_pointer \in [Pid -> Pid \cup {NULL}]
    /\ terminal \in [Pid -> Ter]
    /\ stdio_open \in [Pid -> BOOLEAN]
    /\ frame \in [Pid -> Frame]
    /\ terminal_pid \in [Ter -> Pid \cup {NO_PID}]
    /\ active_process \in Pid
    /\ {page, esp0, esp} \subseteq Pid \cup {NULL}
    /\ pit_cnt \in 0 .. PIT_MAX
    /\ active_ter \in Ter
    /\ {video_map, user_map} \subseteq VideoPage
    /\ fault \in Fault

\* entry() has run and spins in hlt: all the kernel's data is still zero, and
\* the boot stack is the region that will be the kernel stack of pid 0.
Init ==
    /\ process_cnt = 0
    /\ avail_pid = {}
    /\ parent_pointer = [p \in Pid |-> NULL]
    /\ terminal = [p \in Pid |-> 0]
    /\ stdio_open = [p \in Pid |-> FALSE]
    /\ frame = [p \in Pid |-> "none"]
    /\ terminal_pid = [ter \in Ter |-> 0]
    /\ active_process = 0
    /\ page = NULL /\ esp0 = NULL /\ esp = NULL
    /\ pit_cnt = 0
    /\ active_ter = 0
    /\ video_map = SCREEN /\ user_map = SCREEN
    /\ fault = "none"

-----------------------------------------------------------------------------
(***************************************************************************)
(* Slips one could make in the operators below, each in place of one of    *)
(* them, to see that the properties notice.                                *)
(***************************************************************************)
PidByCount           == {p \in Pid : p = process_cnt}       \* for NextPid
FlipParentBit(p)     == avail_pid \ {parent_pointer[p]}     \* for FlipBit
ForgetDecrement(n)   == n                                   \* for Decrement
CloseParentFds(p)    == [stdio_open EXCEPT ![parent_pointer[p]] = FALSE]
                                                            \* for CloseFds
KeepForeground(p)    == terminal_pid                        \* for ParentForeground
CallNotSaved         == frame                               \* for Called
ChildOnFirstTerminal == 0                                   \* for ChildTerminal
ScreenAtOnce(ter)    == SCREEN                              \* for RestoredMap
OthersKept(p, ter)   == [terminal_pid EXCEPT ![ter] = p]    \* for ShellStarted
NextBacking(ter)     == Backing(ter + 1)                    \* for SliceMap
LastSkipped          == pit_cnt % (TER_NUM - 1)             \* for NextTer

-----------------------------------------------------------------------------
(***************************************************************************)
(* The pid allocator and the PCB.                                          *)
(***************************************************************************)

\* The kernel does something C does not define; what follows is not modelled.
Crash(why) == fault' = why /\ UNCHANGED procVars

\* get_pcb: the PCB below the stack the CPU is on.
get_pcb == IF esp = NULL THEN 0 ELSE esp

\* parent_pointer is not 0.  (uint8_t)-1 names a PCB that is never filled in.
HasParent(p) == p # NO_PID /\ parent_pointer[p] # NULL

FreePid == Pid \ avail_pid

\* task_init: the lowest pid whose bit is clear.
NextPid == {p \in FreePid : \A q \in FreePid : p <= q}

\* task_init with pid p, and the 128 MB page mapped to it.
task_init(p) ==
    /\ process_cnt' = process_cnt + 1
    /\ avail_pid' = avail_pid \cup {p}
    /\ page' = p

init_pcb(p, parent) ==
    /\ parent_pointer' = [parent_pointer EXCEPT ![p] = parent]
    /\ stdio_open' = [stdio_open EXCEPT ![p] = TRUE]

\* task_init, init_pcb and the assignments that follow them in sys_execute
\* and execute_shell: pid p becomes a process of terminal ter and gets the
\* CPU.  left is frame as the process that had the CPU leaves it.
StartProcess(p, ter, parent, left) ==
    /\ task_init(p)
    /\ init_pcb(p, parent)
    /\ terminal' = [terminal EXCEPT ![p] = ter]
    /\ frame' = [left EXCEPT ![p] = "cpu"]
    /\ active_process' = p
    /\ esp0' = p /\ esp' = p
    /\ fault' = "none"

\* task_halt flips the bit: avail_pid ^= 1 << process_id.
FlipBit(p) == IF p \in avail_pid THEN avail_pid \ {p} ELSE avail_pid \cup {p}

Decrement(n) == IF n = 0 THEN UINT_MAX ELSE n - 1

\* The descriptors that close_fds clears: those of the stack it runs on.
CloseFds(halted) == [stdio_open EXCEPT ![get_pcb] = FALSE]

\* The parent of p becomes the foreground process of its own terminal.
ParentForeground(p) ==
    [terminal_pid EXCEPT ![terminal[parent_pointer[p]]] = parent_pointer[p]]

\* frame when the CPU leaves its stack for good and returns from the call of
\* execute that the parent of p waits in.
ReturnToParent(p) ==
    [frame EXCEPT ![get_pcb] = "lost", ![p] = "none",
                  ![parent_pointer[p]] = "cpu"]

\* The body of sys_halt, exception_halt and keyboard_halt for process p,
\* which has a parent.
HaltTo(p) ==
    LET par == parent_pointer[p] IN
    \/ /\ frame[par] = "execute"
       /\ process_cnt' = Decrement(process_cnt)
       /\ avail_pid' = FlipBit(p)
       /\ stdio_open' = CloseFds(p)
       /\ frame' = ReturnToParent(p)
       /\ terminal_pid' = ParentForeground(p)
       /\ active_process' = par
       /\ page' = par /\ esp0' = par /\ esp' = par
       /\ fault' = "none"
       /\ UNCHANGED <<parent_pointer, terminal>>
    \/ /\ frame[par] # "execute"
       /\ Crash("dead_frame")

\* exception_halt on the current stack.  For a root shell parent_pointer is 0
\* and par_pcb->terminal page-faults in the kernel, whose handler is
\* exception_halt again, and so on until the stack is used up.
ExceptionHaltBody ==
    \/ HasParent(get_pcb) /\ HaltTo(get_pcb)
    \/ ~HasParent(get_pcb) /\ Crash("null_parent")

-----------------------------------------------------------------------------
(***************************************************************************)
(* Operations of the running program.  esp = NULL only before the first    *)
(* program, when none of these can happen.                                 *)
(***************************************************************************)
Running == fault = "none" /\ esp # NULL

\* sys_execute saves its own stack in stack_p before it starts the child.
Called == [frame EXCEPT ![esp] = "execute"]

\* The terminal sys_execute gives to the process it starts: the one on display,
\* whatever the terminal of the parent.
ChildTerminal == active_ter

\* sys_execute.  The early returns (no such executable, no free pid) change
\* nothing.
Execute ==
    /\ Running
    /\ process_cnt < MAX_PROCESS
    /\ \/ \E p \in NextPid :
             /\ StartProcess(p, ChildTerminal, esp, Called)
             /\ terminal_pid' = [terminal_pid EXCEPT ![active_ter] = p]
       \/ FreePid = {} /\ Crash("no_pid")
    /\ UNCHANGED <<pit_cnt, active_ter, mapVars>>

\* sys_halt.  A root shell is started again in place, which changes nothing
\* that is modelled here: it keeps its pid, its PCB and its descriptors.
Halt ==
    /\ Running
    /\ \/ HasParent(esp) /\ HaltTo(esp)
       \/ ~HasParent(esp) /\ UNCHANGED <<procVars, fault>>
    /\ UNCHANGED <<pit_cnt, active_ter, mapVars>>

\* A processor exception: every vector's handler is exception_halt.
ExceptionHalt ==
    /\ Running
    /\ ExceptionHaltBody
    /\ UNCHANGED <<pit_cnt, active_ter, mapVars>>

-----------------------------------------------------------------------------
(***************************************************************************)
(* Keyboard interrupts.                                                    *)
(***************************************************************************)

\* Ctrl+C, keyboard_halt: halts the process of the terminal on display from
\* the stack of whichever process was interrupted.  When the target has no
\* parent (a root shell, or the empty PCB of a terminal not yet started) the
\* null parent_pointer page-faults, and exception_halt then halts the
\* interrupted process.
KeyboardHalt ==
    LET target == terminal_pid[active_ter] IN
    /\ fault = "none"
    /\ \/ HasParent(target) /\ HaltTo(target)
       \/ ~HasParent(target) /\ ExceptionHaltBody
    /\ UNCHANGED <<pit_cnt, active_ter, mapVars>>

\* The page switch_video leaves behind the kernel's video memory.
RestoredMap(ter) == Backing(terminal[active_process])

\* Alt+F1..F3 for another terminal: switch_video.
KeyboardSwitch(ter) ==
    /\ fault = "none"
    /\ ter # active_ter
    /\ active_ter' = ter
    /\ video_map' = RestoredMap(ter)
    /\ UNCHANGED <<procVars, pit_cnt, user_map, fault>>

\* Keys that print on the terminal on display map the screen when the running
\* process belongs to another terminal, and at the end map that one's page
\* again: add_at_cursor, delete_bf_cursor, clear_terminal_scheduling.
KeyboardEcho ==
    /\ fault = "none"
    /\ terminal[active_process] # active_ter
    /\ video_map' = Backing(terminal[active_process])
    /\ UNCHANGED <<procVars, pit_cnt, active_ter, user_map, fault>>

\* Backspace with the cursor at the start of a line that has characters:
\* delete_bf_cursor has mapped the screen by then, and returns.
KeyboardNoErase ==
    /\ fault = "none"
    /\ terminal[active_process] # active_ter
    /\ video_map' = SCREEN
    /\ UNCHANGED <<procVars, pit_cnt, active_ter, user_map, fault>>

-----------------------------------------------------------------------------
(***************************************************************************)
(* The timer interrupt.                                                    *)
(***************************************************************************)

\* terminal_pid when shell p is started on terminal ter: the first shell also
\* marks every other terminal as not started.
ShellStarted(p, ter) ==
    [t \in Ter |-> IF t = ter THEN p
                   ELSE IF ter = 0 THEN NO_PID ELSE terminal_pid[t]]

\* execute_shell(ter) when there is a pid left.
ExecuteShell(ter, left) ==
    /\ process_cnt < MAX_PROCESS
    /\ \E p \in NextPid :
          /\ StartProcess(p, ter, NULL, left)
          /\ terminal_pid' = ShellStarted(p, ter)

\* switch_process saves the stack the CPU is on in the PCB of active_process,
\* so that process finds its context again only if the two agree.
Saved == [frame EXCEPT ![get_pcb] =
             IF active_process = get_pcb THEN "switch" ELSE "lost"]

\* switch_process starting the first shell saves nothing.
Abandoned == IF esp = NULL THEN frame ELSE [frame EXCEPT ![esp] = "lost"]

\* Both mappings of video memory for a time slice of terminal ter.
SliceMap(ter) == IF ter = active_ter THEN SCREEN ELSE Backing(ter)

\* The rest of switch_process when terminal_pid[ter] is a pid: page, esp0 and
\* the stack pointers of the context saved for it.
Resume(p) ==
    \/ /\ Saved[p] = "switch"
       /\ frame' = [Saved EXCEPT ![p] = "cpu"]
       /\ active_process' = p
       /\ page' = p /\ esp0' = p /\ esp' = p
       /\ fault' = "none"
       /\ UNCHANGED <<process_cnt, avail_pid, parent_pointer, terminal,
                      stdio_open, terminal_pid>>
    \/ /\ Saved[p] # "switch"
       /\ Crash("dead_frame")

NextTer == pit_cnt % TER_NUM

\* pit_handler and switch_process.  The first interrupt starts the first shell
\* from the boot context, which is not saved.  execute_shell goes on whatever
\* task_init returned.
PitHandler ==
    /\ fault = "none"
    /\ pit_cnt' = IF pit_cnt = PIT_MAX THEN 0 ELSE pit_cnt + 1
    /\ \/ /\ process_cnt = 0
          /\ ExecuteShell(0, Abandoned)
          /\ UNCHANGED mapVars
       \/ /\ process_cnt # 0
          /\ video_map' = SliceMap(NextTer) /\ user_map' = SliceMap(NextTer)
          /\ \/ /\ terminal_pid[NextTer] = NO_PID
                /\ \/ ExecuteShell(NextTer, Saved)
                   \/ /\ process_cnt >= MAX_PROCESS \/ FreePid = {}
                      /\ Crash("no_pid")
             \/ /\ terminal_pid[NextTer] # NO_PID
                /\ Resume(terminal_pid[NextTer])
    /\ UNCHANGED active_ter

-----------------------------------------------------------------------------
Next ==
    \/ PitHandler
    \/ Execute
    \/ Halt
    \/ ExceptionHalt
    \/ KeyboardHalt
    \/ KeyboardEcho
    \/ KeyboardNoErase
    \/ \E ter \in Ter : KeyboardSwitch(ter)

Spec == Init /\ [][Next]_vars

-----------------------------------------------------------------------------
(***************************************************************************)
(* Properties of every behaviour, however the programs and the user act.   *)
(***************************************************************************)
Live == {p \in Pid : frame[p] # "none"}

\* The kernel keeps four notions of the current process that are assigned in
\* different places: active_process, the 128 MB page, tss.esp0 and the stack
\* the CPU is on.  From the first program on they name the same process, and
\* no other process is recorded as having the CPU.
CpuAgrees ==
    fault = "none" /\ esp # NULL =>
        /\ active_process = esp /\ page = esp /\ esp0 = esp
        /\ \A p \in Pid : frame[p] = "cpu" <=> p = esp

\* A pid whose stack still holds a context is marked in use, so task_init
\* cannot give its PCB, stack and page to another program, even after Ctrl+C
\* has halted processes from other processes' stacks.
LiveIsAllocated == Live \subseteq avail_pid

\* No process ever finds itself with another parent or on another terminal:
\* a PCB is written only while its pid has no process (init_pcb and the
\* assignments after it), never under a process that still runs.
PcbStable ==
    [][\A p \in Live : /\ parent_pointer'[p] = parent_pointer[p]
                       /\ terminal'[p] = terminal[p]]_vars

-----------------------------------------------------------------------------
(***************************************************************************)
(* Properties the repository claims of every behaviour, and the kernel     *)
(* does not have (see the findings in README.md).                          *)
(***************************************************************************)

\* A program runs on the terminal it was started from.
ChildSharesTerminal ==
    \A p \in Live : HasParent(p) => terminal[p] = terminal[parent_pointer[p]]

\* exception_halt and keyboard_halt end any process the way sys_halt does,
\* a root shell included.
HaltsAnyProcess == esp # NULL => fault # "null_parent"
=============================================================================
