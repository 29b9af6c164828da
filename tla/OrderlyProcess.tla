---------------------------- MODULE OrderlyProcess ----------------------------
(***************************************************************************)
(* The kernel of Process in an environment that keeps to the conditions    *)
(* under which its job control works:                                      *)
(*                                                                         *)
(*   - programs are started once every terminal has its shell, and by a    *)
(*     process of the terminal on display;                                 *)
(*   - Ctrl+C is pressed while the foreground program of the terminal on   *)
(*     display has the CPU, and is not aimed at a root shell;              *)
(*   - a root shell raises no exception;                                   *)
(*   - Backspace is not pressed at the start of a line while a process of  *)
(*     another terminal has the CPU.                                       *)
(*                                                                         *)
(* The kernel enforces none of them, and README.md says what goes wrong    *)
(* without each.  Nothing else is restricted: timer interrupts, terminal   *)
(* switches, other keys, exits and exceptions come at any time.            *)
(***************************************************************************)
EXTENDS Process

AllStarted == \A ter \in Ter : terminal_pid[ter] # NO_PID

OrderlyExecute   == AllStarted /\ Execute /\ terminal[esp] = active_ter
OrderlyException == ExceptionHalt /\ HasParent(esp)
OrderlyCtrlC     == KeyboardHalt /\ terminal_pid[active_ter] = esp /\ HasParent(esp)

OrderlyNext ==
    \/ PitHandler
    \/ OrderlyExecute
    \/ Halt
    \/ OrderlyException
    \/ OrderlyCtrlC
    \/ KeyboardEcho
    \/ \E ter \in Ter : KeyboardSwitch(ter)

OrderlySpec == Init /\ [][OrderlyNext]_vars

\* The same with Backspace pressed anywhere, once there is a process.
ErasingNext == OrderlyNext \/ (Running /\ KeyboardNoErase)
ErasingSpec == Init /\ [][ErasingNext]_vars

\* The PIT runs freely and every path through the kernel ends with interrupts
\* enabled again, so timer interrupts keep being served.
FairOrderlySpec == OrderlySpec /\ WF_vars(PitHandler)

-----------------------------------------------------------------------------
\* The kernel never resumes a stack that holds no context, never follows the
\* null parent of a shell and never runs a program without a pid.
NoFault == fault = "none"

\* task.c keeps the number of processes twice, as a counter and as a bit mask;
\* they agree with each other and with the processes there are, so a slot is
\* neither leaked nor handed out while task_init believes the table is full.
PidAccounting ==
    /\ avail_pid = Live
    /\ process_cnt = Cardinality(avail_pid)

\* A process that does not wait for a child is the one its terminal runs.
LeafIsForeground ==
    \A p \in Live :
        \/ frame[p] = "execute"
        \/ frame[p] \in {"cpu", "switch"} /\ terminal_pid[terminal[p]] = p

\* What a started terminal runs is a process of that terminal that can run.
ForegroundIsLeaf ==
    esp # NULL =>
        \A ter \in Ter : terminal_pid[ter] # NO_PID =>
            /\ frame[terminal_pid[ter]] \in {"cpu", "switch"}
            /\ terminal[terminal_pid[ter]] = ter

\* A parent waits in execute, for this child only, on the same terminal.
ParentWaits ==
    \A c \in Live : HasParent(c) =>
        /\ frame[parent_pointer[c]] = "execute"
        /\ terminal[parent_pointer[c]] = terminal[c]
        /\ \A d \in Live : parent_pointer[d] = parent_pointer[c] => d = c

\* The processes of a terminal form one chain: the last one has the terminal's
\* time slices, each other one waits in execute for its one child, which
\* belongs to the same terminal.
OneChainPerTerminal == LeafIsForeground /\ ForegroundIsLeaf /\ ParentWaits

\* No process waits in execute for a child that is gone.
ChildExists ==
    \A p \in Pid : frame[p] = "execute" =>
        \E c \in Live : parent_pointer[c] = p

\* Every process can read and write its terminal: halting one process never
\* closes descriptors of another.
LiveDescriptors == \A p \in Live : stdio_open[p]

\* What the kernel prints for a process reaches the screen only when that
\* process belongs to the terminal on display (switch_process, switch_video,
\* add_at_cursor).  A Backspace at the start of a line breaks it.
NoBleed ==
    video_map = SCREEN => terminal[active_process] = active_ter

\* A time slice of every terminal comes again and again, whatever the programs
\* and the user do meanwhile.
EveryTerminalRuns ==
    \A ter \in Ter : []<>(esp # NULL /\ terminal[esp] = ter)
=============================================================================
