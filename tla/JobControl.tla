------------------------------ MODULE JobControl ------------------------------
(***************************************************************************)
(* What the kernel promises of processes and terminals, with none of its   *)
(* bookkeeping: every terminal has a stack of jobs, at the bottom its      *)
(* shell, on top its foreground program.  A program is started on top of   *)
(* the program that starts it and its end uncovers that one again, on the  *)
(* same terminal.  The CPU moves between the terminals; which terminal is  *)
(* on display does not matter to any of it.                                *)
(***************************************************************************)
EXTENDS Naturals, Sequences

CONSTANTS
    Jobs,       \* identities a job can have
    Terminals,  \* the terminals
    Nowhere     \* the CPU before the first shell: not one of the terminals

VARIABLES
    stack,  \* per terminal: its jobs, the shell first
    cpu     \* the terminal whose foreground job has the CPU

jobVars == <<stack, cpu>>

JobsOf(ter) == {stack[ter][i] : i \in DOMAIN stack[ter]}
Unused == {j \in Jobs : \A ter \in Terminals : j \notin JobsOf(ter)}

JobInit ==
    /\ stack = [ter \in Terminals |-> <<>>]
    /\ cpu = Nowhere

\* The terminal's first time slice starts its shell.
StartShell(ter) ==
    /\ stack[ter] = <<>>
    /\ \E j \in Unused : stack' = [stack EXCEPT ![ter] = <<j>>]
    /\ cpu' = ter

\* The foreground job of the running terminal starts another.
StartJob ==
    /\ cpu # Nowhere
    /\ \E j \in Unused : stack' = [stack EXCEPT ![cpu] = Append(@, j)]
    /\ UNCHANGED cpu

\* The foreground job of the running terminal ends; a shell does not.
EndJob ==
    /\ cpu # Nowhere
    /\ Len(stack[cpu]) > 1
    /\ stack' = [stack EXCEPT ![cpu] = SubSeq(@, 1, Len(@) - 1)]
    /\ UNCHANGED cpu

\* A time slice of a terminal.
Slice(ter) ==
    /\ stack[ter] # <<>>
    /\ cpu' = ter
    /\ UNCHANGED stack

JobNext ==
    \/ StartJob
    \/ EndJob
    \/ \E ter \in Terminals : StartShell(ter) \/ Slice(ter)

Jobbing == JobInit /\ [][JobNext]_jobVars

\* No terminal is passed over for ever.
JobSpec ==
    /\ Jobbing
    /\ \A ter \in Terminals : WF_jobVars(StartShell(ter) \/ Slice(ter))
=============================================================================
