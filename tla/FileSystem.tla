------------------------------ MODULE FileSystem ------------------------------
(***************************************************************************)
(* Descriptors and the read-only file system: sys_open, sys_read and       *)
(* sys_close of system_call.c, and file_sys_driver.c.                      *)
(*                                                                         *)
(* Every process has an array of descriptors of its own, but the position  *)
(* in the directory is one variable of the kernel, dir_idx.  System calls  *)
(* run with interrupts on; dir_read and file_read turn them off, dir_open  *)
(* does not, so other processes run between its steps.                     *)
(*                                                                         *)
(* Reading a descriptor of the clock is the subject of Rtc, reading and    *)
(* writing the terminal that of LineDiscipline.                            *)
(***************************************************************************)
EXTENDS Integers, Sequences, SequencesExt

CONSTANTS
    Procs,        \* the processes
    MAX_FILE,     \* pcb.h: descriptors of a process (8)
    BLOCK_SIZE,   \* file_sys_driver.h: bytes of a data block (4096)
    DIR_IDX_MAX,  \* bound on the model: how far dir_open goes
    dentry_addr,  \* the directory: a sequence of [filename, filetype, inode_num]
    inode,        \* inode number -> [length, data_block_num]
    data_block,   \* data block number -> the sequence of its bytes
    Byte,
    DIR,          \* filename of the directory itself, "."
    Sizes         \* numbers of bytes programs ask for

RTC_TYPE  == 0
DIR_TYPE  == 1
FILE_TYPE == 2

dentry_num == Len(dentry_addr)

Fd == 0 .. MAX_FILE - 1

\* A file system image: its directory has an entry for itself, and the inodes
\* of regular files list as many blocks as their lengths need.
ASSUME FileAssumption ==
    /\ MAX_FILE \in Nat /\ MAX_FILE >= 3
    /\ BLOCK_SIZE \in Nat \ {0}
    /\ Sizes \subseteq Nat
    /\ dentry_num \in Nat /\ DIR_IDX_MAX \in Nat /\ DIR_IDX_MAX >= dentry_num
    /\ \E i \in DOMAIN dentry_addr : dentry_addr[i].filename = DIR
    /\ \A b \in DOMAIN data_block :
          data_block[b] \in Seq(Byte) /\ Len(data_block[b]) = BLOCK_SIZE
    /\ \A i \in DOMAIN dentry_addr :
          LET d == dentry_addr[i] IN
          /\ d.filetype \in {RTC_TYPE, DIR_TYPE, FILE_TYPE}
          /\ d.filetype = FILE_TYPE =>
                /\ d.inode_num \in DOMAIN inode
                /\ inode[d.inode_num].length \in Nat
                /\ inode[d.inode_num].data_block_num \in Seq(DOMAIN data_block)
                /\ inode[d.inode_num].length <=
                       BLOCK_SIZE * Len(inode[d.inode_num].data_block_num)

VARIABLES
    fd_array,  \* per process: its descriptors
    dir_idx,   \* index of the entry that dir_read returns next
    pc,        \* per process: "user", or where it is in dir_open
    got,       \* history, per descriptor: the bytes read since it was opened
    expected,  \* history, per process: the entry its next dir_read should return
    shared     \* history: the directory was open when it was last opened

vars == <<fd_array, dir_idx, pc, got, expected, shared>>

\* A descriptor whose flag is clear.  sys_open fills in all of its fields.
Unused == [op |-> "none", inode_idx |-> 0, file_pos |-> 0]

Used(op, inode_idx) == [op |-> op, inode_idx |-> inode_idx, file_pos |-> 0]

\* The operation table that sys_open chooses for a type of file.  (A clock's
\* period, which it keeps in file_pos, is left to Rtc.)
Table(filetype) == IF filetype = FILE_TYPE THEN "file"
                   ELSE IF filetype = DIR_TYPE THEN "dir" ELSE "rtc"

\* init_pcb.
FreshArray == [fd \in Fd |-> IF fd = 0 THEN Used("stdin", 0)
                             ELSE IF fd = 1 THEN Used("stdout", 0) ELSE Unused]

TypeOK ==
    /\ \A p \in Procs, fd \in Fd :
          LET f == fd_array[p][fd] IN
          /\ f.op \in {"none", "stdin", "stdout", "file", "dir", "rtc"}
          /\ f.op = "file" => f.file_pos \in 0 .. inode[f.inode_idx].length
          /\ got[p][fd] \in Seq(Byte)
    /\ dir_idx \in 0 .. DIR_IDX_MAX
    /\ pc \in [Procs -> {"user", "zero", "match"}]
    /\ expected \in [Procs -> 0 .. DIR_IDX_MAX]
    /\ shared \in BOOLEAN

Init ==
    /\ fd_array = [p \in Procs |-> FreshArray]
    /\ dir_idx = 0
    /\ pc = [p \in Procs |-> "user"]
    /\ got = [p \in Procs |-> [fd \in Fd |-> <<>>]]
    /\ expected = [p \in Procs |-> 0]
    /\ shared = FALSE

-----------------------------------------------------------------------------
(***************************************************************************)
(* Slips one could make in the operators below.                            *)
(***************************************************************************)
FirstAnyhow(p)         == {2}                      \* for FirstFree
AsAsked(offset, n, len) == n                       \* for Clipped
NotAdvanced(pos, bytes) == pos                     \* for PosAfter
NotRewound             == dir_idx                  \* for FirstEntry
RewindAlways(op)       == 0                        \* for IdxAfterClose

-----------------------------------------------------------------------------
(***************************************************************************)
(* Reading.                                                                *)
(***************************************************************************)

\* How much of n bytes at offset a file of length len has.
Clipped(offset, n, len) == IF offset + n > len THEN len - offset ELSE n

\* The place of a byte in the list of data blocks of its inode.
BlockOff(offset) == offset \div BLOCK_SIZE

\* read_data: n bytes of inode i from offset on.
read_data(i, offset, n) ==
    LET ByteAt(o) == data_block[inode[i].data_block_num[BlockOff(o) + 1]]
                               [(o % BLOCK_SIZE) + 1]
    IN  [k \in 1 .. Clipped(offset, n, inode[i].length) |-> ByteAt(offset + k - 1)]

\* fda[fd].file_pos += ret_data;
PosAfter(pos, bytes) == pos + Len(bytes)

\* sys_read and file_read.
ReadFile(p, fd, n) ==
    LET f == fd_array[p][fd]
        bytes == read_data(f.inode_idx, f.file_pos, n)
    IN  /\ pc[p] = "user" /\ f.op = "file"
        /\ fd_array' = [fd_array EXCEPT ![p][fd].file_pos = PosAfter(@, bytes)]
        /\ got' = [got EXCEPT ![p][fd] = @ \o bytes]
        /\ UNCHANGED <<dir_idx, pc, expected, shared>>

\* sys_read and dir_read.  Behind the last entry nothing is returned and
\* nothing changes.
ReadDir(p, fd) ==
    /\ pc[p] = "user" /\ fd_array[p][fd].op = "dir"
    /\ dir_idx < dentry_num
    /\ dir_idx' = dir_idx + 1
    /\ expected' = [expected EXCEPT ![p] = dir_idx + 1]
    /\ UNCHANGED <<fd_array, pc, got, shared>>

-----------------------------------------------------------------------------
(***************************************************************************)
(* Opening and closing.                                                    *)
(***************************************************************************)

\* The descriptor that sys_open finds for p, if there is one.
FirstFree(p) ==
    {fd \in 2 .. MAX_FILE - 1 :
        /\ fd_array[p][fd].op = "none"
        /\ \A e \in 2 .. fd - 1 : fd_array[p][e].op # "none"}

\* The entries that read_dentry_by_name finds, each by its own name.
Found == {dentry_addr[i] : i \in DOMAIN dentry_addr}

DirDescriptors == {d \in Procs \X Fd : fd_array[d[1]][d[2]].op = "dir"}

\* sys_open of the file that entry d describes.  A name that is not found and
\* a full array change nothing.  For a directory dir_open follows.
Open(p, d) ==
    /\ pc[p] = "user"
    /\ \E fd \in FirstFree(p) :
          /\ fd_array' = [fd_array EXCEPT
                             ![p][fd] = Used(Table(d.filetype), d.inode_num)]
          /\ got' = [got EXCEPT ![p][fd] = <<>>]
    /\ \/ /\ d.filetype = DIR_TYPE
          /\ pc' = [pc EXCEPT ![p] = "zero"]
          /\ shared' = (DirDescriptors # {})
       \/ /\ d.filetype # DIR_TYPE
          /\ UNCHANGED <<pc, shared>>
    /\ UNCHANGED <<dir_idx, expected>>

FirstEntry == 0

\* dir_open: dir_idx = 0;
DirOpenZero(p) ==
    /\ pc[p] = "zero"
    /\ dir_idx' = FirstEntry
    /\ pc' = [pc EXCEPT ![p] = "match"]
    /\ UNCHANGED <<fd_array, got, expected, shared>>

\* Whether entry i has the name that is looked for (no other name begins with
\* the directory's).  What lies behind the directory may or may not look like it.
MayMatch(i)  == i < dentry_num => dentry_addr[i + 1].filename = DIR
MayDiffer(i) == i < dentry_num => dentry_addr[i + 1].filename # DIR

\* while (the entry at dir_idx has another name) dir_idx++;
DirOpenMatch(p) ==
    /\ pc[p] = "match"
    /\ \/ /\ MayMatch(dir_idx)
          /\ pc' = [pc EXCEPT ![p] = "user"]
          /\ expected' = [expected EXCEPT ![p] = dir_idx]
          /\ UNCHANGED dir_idx
       \/ /\ MayDiffer(dir_idx) /\ dir_idx < DIR_IDX_MAX
          /\ dir_idx' = dir_idx + 1
          /\ UNCHANGED <<pc, expected>>
    /\ UNCHANGED <<fd_array, got, shared>>

\* dir_idx after the close of the operation table op.
IdxAfterClose(op) == IF op = "dir" THEN 0 ELSE dir_idx

\* sys_close.  Descriptors 0 and 1 cannot be closed.
Close(p, fd) ==
    /\ pc[p] = "user"
    /\ fd > 1 /\ fd_array[p][fd].op # "none"
    /\ dir_idx' = IdxAfterClose(fd_array[p][fd].op)
    /\ fd_array' = [fd_array EXCEPT ![p][fd] = Unused]
    /\ got' = [got EXCEPT ![p][fd] = <<>>]
    /\ UNCHANGED <<pc, expected, shared>>

\* The program of p ends, on its own or in the middle of a call, and another
\* one takes its place: close_fds calls no close, init_pcb starts afresh.
Replaced(p) ==
    /\ fd_array' = [fd_array EXCEPT ![p] = FreshArray]
    /\ got' = [got EXCEPT ![p] = [fd \in Fd |-> <<>>]]
    /\ pc' = [pc EXCEPT ![p] = "user"]
    /\ UNCHANGED <<dir_idx, expected, shared>>

-----------------------------------------------------------------------------
Program(p) ==
    \/ \E d \in Found : Open(p, d)
    \/ \E fd \in Fd : Close(p, fd) \/ ReadDir(p, fd)
    \/ \E fd \in Fd, n \in Sizes : ReadFile(p, fd, n)
    \/ DirOpenZero(p) \/ DirOpenMatch(p)
    \/ Replaced(p)

Next == \E p \in Procs : Program(p)

Spec == Init /\ [][Next]_vars

\* A process in the kernel gets its time slices.  A search that has left the
\* directory is not promised to end.
FairSpec ==
    /\ Spec
    /\ \A p \in Procs :
          /\ WF_vars(DirOpenZero(p))
          /\ WF_vars(dir_idx < dentry_num /\ DirOpenMatch(p))

-----------------------------------------------------------------------------
\* A file's contents: its blocks one after the other, cut to its length.
Contents(i) ==
    LET blocks == inode[i].data_block_num IN
    SubSeq(FlattenSeq([k \in DOMAIN blocks |-> data_block[blocks[k]]]),
           1, inode[i].length)

\* What a program has read from a file since it opened it is the file from its
\* beginning to file_pos, whatever sizes it asked for and however many blocks
\* a read covered (read_data, file_read).
ReadsFromStart ==
    \A p \in Procs, fd \in Fd :
        LET f == fd_array[p][fd] IN
        f.op = "file" => got[p][fd] = SubSeq(Contents(f.inode_idx), 1, f.file_pos)

\* A program that lists the directory while no other does is given entry after
\* entry: whatever the others open, read, close or leave open when they are
\* halted, dir_idx is where its last dir_read left it.
ListingUndisturbed ==
    ~shared =>
        \A p \in Procs, fd \in Fd :
            fd_array[p][fd].op = "dir" /\ pc[p] = "user" => dir_idx = expected[p]

\* A descriptor in use names the same file until it is closed or its program
\* ends: sys_open never hands it out again.
DescriptorKept ==
    [][\A p \in Procs, fd \in Fd :
          LET f == fd_array[p][fd]
              g == fd_array'[p][fd]
          IN  f.op # "none" /\ g.op # "none" =>
                  /\ g.op = f.op /\ g.inode_idx = f.inode_idx
                  /\ g.file_pos >= f.file_pos]_vars

\* Opening the directory returns, unless two programs have it open at a time
\* (dir_open has no bound of its own).
OpenReturns ==
    [](~shared) => \A p \in Procs : pc[p] = "match" ~> pc[p] = "user"
=============================================================================
