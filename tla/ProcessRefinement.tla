-------------------------- MODULE ProcessRefinement --------------------------
(***************************************************************************)
(* The kernel in an orderly environment implements JobControl: the stack   *)
(* of a terminal is the chain of parent_pointers that ends in its          *)
(* terminal_pid, and the CPU is where esp points.                          *)
(***************************************************************************)
EXTENDS OrderlyProcess, Sequences

\* The processes that another one started.
Children == {p \in Live : HasParent(p)}

\* The processes from the root shell down to p.
Chain[p \in Pid] ==
    IF p \in Children THEN Append(Chain[parent_pointer[p]], p) ELSE <<p>>

\* Before the first shell terminal_pid is zero everywhere, and means nothing.
Foreground == IF esp = NULL THEN {}
              ELSE {ter \in Ter : terminal_pid[ter] # NO_PID}

JobStack == [ter \in Ter |-> IF ter \in Foreground THEN Chain[terminal_pid[ter]]
                             ELSE <<>>]

Cpu == IF esp = NULL THEN NULL ELSE terminal[esp]

Abstract == INSTANCE JobControl WITH
    Jobs <- Pid, Terminals <- Ter, Nowhere <- NULL,
    stack <- JobStack, cpu <- Cpu

\* The kernel implements JobControl: programs nest per terminal, and an exit
\* returns to the program that was interrupted by the start (sys_execute,
\* sys_halt, exception_halt, keyboard_halt, execute_shell, switch_process).
\* That no terminal is passed over is EveryTerminalRuns.
ImplementsJobControl == Abstract!Jobbing
=============================================================================
