------------------------------- MODULE Command -------------------------------
(***************************************************************************)
(* From a line typed at the shell to the program and its argument: the     *)
(* shell's treatment of the line (ece391shell.c), the parsing of a command *)
(* in sys_exeute, the search for the file and the test that it is          *)
(* executable (file_sys_driver.c), and sys_getargs.                        *)
(***************************************************************************)
EXTENDS FileSystem, Library

CONSTANTS
    NAME_LEN,      \* file_sys_driver.h: bytes of a name in an entry (32)
    ARG_BUF_SIZE,  \* pcb.h: bytes of the argument in a PCB (128)
    INODE_NUM,     \* number of inodes of the image
    ELF            \* the four bytes an executable begins with

ASSUME CommandAssumption ==
    /\ NAME_LEN \in Nat \ {0} /\ ARG_BUF_SIZE \in Nat \ {0}
    /\ INODE_NUM \in Nat /\ INODE_NUM >= dentry_num
    /\ Len(ELF) = 4

-----------------------------------------------------------------------------
(***************************************************************************)
(* A slip one could make: the spaces before an argument become part of it.  *)
(***************************************************************************)
SpacesKept(arguments, c)    == Append(arguments, c)         \* for ArgStep

-----------------------------------------------------------------------------
(***************************************************************************)
(* The directory.                                                          *)
(***************************************************************************)

\* The bytes of entry i from its name on: a name of NAME_LEN bytes has no NUL,
\* the type of the file follows, a control character.  Unused entries are zero.
EntryBytes(i) ==
    IF i > dentry_num THEN [k \in 1 .. NAME_LEN + 1 |-> NUL]
    ELSE LET d == dentry_addr[i] IN
         [k \in 1 .. NAME_LEN |->
             IF k <= Len(d.filename) THEN d.filename[k] ELSE NUL]
         \o <<IF d.filetype = RTC_TYPE THEN NUL ELSE "control">>

\* How many bytes are compared.
LongerLen(cur_len, f_len) == IF cur_len > f_len THEN cur_len ELSE f_len

NameMatches(fname, i) ==
    LET bytes == EntryBytes(i)
        len == LongerLen(Smaller(strlen(bytes), NAME_LEN), Len(fname))
    IN  SameString(Append(fname, NUL), bytes, len)

\* The entries that read_dentry_by_name returns, one or none.
read_dentry_by_name(fname) ==
    {i \in 1 .. INODE_NUM :
        /\ NameMatches(fname, i)
        /\ \A j \in 1 .. i - 1 : ~NameMatches(fname, j)
        /\ i <= dentry_num}

-----------------------------------------------------------------------------
(***************************************************************************)
(* Executables.                                                            *)
(***************************************************************************)

\* read_data of one byte, into a variable that holds old.
OneByte(i, offset, old) ==
    LET len == inode[i].length IN
    [ret  |-> IF offset > len THEN -1 ELSE IF offset = len THEN 0 ELSE 1,
     byte |-> IF offset < len THEN read_data(i, offset, 1)[1] ELSE old]

IsElf(bytes) == bytes = ELF

\* The four results are combined with &, so that only four failures fail.  The
\* magic numbers are on the stack and hold anything before they are read.
check_executable(fname, stack) ==
    \E d \in read_dentry_by_name(fname) :
        LET i == dentry_addr[d].inode_num
            reads == [k \in 1 .. 4 |-> OneByte(i, k - 1, stack[k])]
        IN  /\ \E k \in 1 .. 4 : reads[k].ret # -1
            /\ IsElf([k \in 1 .. 4 |-> reads[k].byte])

\* load_executable: what lies at the start of the program's page.
load_executable(fname) ==
    {read_data(dentry_addr[d].inode_num, 0, inode[dentry_addr[d].inode_num].length) :
        d \in read_dentry_by_name(fname)}

-----------------------------------------------------------------------------
(***************************************************************************)
(* The command.                                                            *)
(***************************************************************************)

\* The shell cuts the newline off a line.
ShellCommand(line) ==
    IF line # <<>> /\ Last(line) = NL THEN Front(line) ELSE line

NameStep(st, c) ==
    IF st.done \/ (c = SPACE /\ st.fname # <<>>) THEN [st EXCEPT !.done = TRUE]
    ELSE [st EXCEPT !.read = @ + 1,
                    !.fname = IF c = SPACE THEN @ ELSE Append(@, c)]

ArgStep(arguments, c) ==
    IF c = SPACE /\ arguments = <<>> THEN arguments ELSE Append(arguments, c)

Parsed(command) ==
    LET st == FoldLeft(NameStep, [read |-> 0, fname |-> <<>>, done |-> FALSE], command)
    IN  [fname |-> st.fname,
         arguments |-> FoldLeft(ArgStep, <<>>,
                                SubSeq(command, st.read + 1, Len(command)))]

\* The bytes of the PCB from its argument on, before the argument is stored:
\* init_pcb has cleared the argument; behind it is the process's terminal.
PcbBytes(terminal) == [i \in 1 .. ARG_BUF_SIZE |-> NUL] \o <<terminal>>

Stored(arguments, terminal) ==
    strncpy(PcbBytes(terminal), Append(arguments, NUL), Len(arguments))

\* sys_exeute as far as the command goes: whether it starts a program, which
\* one, and the PCB.
sys_exeute(command, stack, terminal) ==
    LET p == Parsed(command) IN
    [starts |-> check_executable(p.fname, stack),
     image  |-> load_executable(p.fname),
     pcb    |-> Stored(p.arguments, terminal)]

\* What a program finds in a buffer of nbytes; <<>> when sys_getargs fails.
sys_getargs(pcb, nbytes) ==
    LET arg_len == strlen(pcb) + 1 IN
    IF arg_len = 1 \/ arg_len > nbytes THEN <<>>
    ELSE strncpy([i \in 1 .. nbytes |-> "old"], pcb, nbytes)
=============================================================================
