------------------------------ MODULE FileProofs ------------------------------
(***************************************************************************)
(* Descriptors and listings, for any image of the file system and any      *)
(* number of processes and descriptors: reads stay within the file,        *)
(* sys_open never hands out a descriptor in use, and a program that lists  *)
(* the directory alone is not disturbed by what the others open and close. *)
(***************************************************************************)
EXTENDS FileSystem, WellFoundedInduction, TLAPS

Ops == {"none", "stdin", "stdout", "file", "dir", "rtc"}

\* What sys_open stores as an inode number.
Indices == {0} \cup {d.inode_num : d \in Found}

Descriptor == [op : Ops, inode_idx : Indices, file_pos : Nat]

\* A regular file: its length is covered by the blocks it lists.
FileInode(i) ==
    /\ i \in DOMAIN inode
    /\ inode[i].length \in Nat
    /\ inode[i].data_block_num \in Seq(DOMAIN data_block)
    /\ inode[i].length <= BLOCK_SIZE * Len(inode[i].data_block_num)

FileTypes ==
    /\ fd_array \in [Procs -> [Fd -> Descriptor]]
    /\ got \in [Procs -> [Fd -> Seq(Byte)]]
    /\ dir_idx \in 0 .. DIR_IDX_MAX
    /\ pc \in [Procs -> {"user", "zero", "match"}]
    /\ expected \in [Procs -> 0 .. DIR_IDX_MAX]
    /\ shared \in BOOLEAN

\* file_pos is within the file.
WithinFile ==
    \A p \in Procs, fd \in Fd :
        LET f == fd_array[p][fd] IN
        f.op = "file" => FileInode(f.inode_idx)
                         /\ f.file_pos <= inode[f.inode_idx].length

\* Nothing replaces the descriptors of the terminal.
TerminalKept ==
    \A p \in Procs : /\ fd_array[p][0] = Used("stdin", 0)
                     /\ fd_array[p][1] = Used("stdout", 0)

\* While nobody opened the directory beside another, one descriptor has it.
OneLister ==
    ~shared => \A p, q \in Procs : \A fd, e \in Fd :
                   fd_array[p][fd].op = "dir" /\ fd_array[q][e].op = "dir" =>
                       p = q /\ fd = e

\* A program within dir_open has the descriptor already.
OpenerLists ==
    \A p \in Procs : pc[p] # "user" => \E fd \in Fd : fd_array[p][fd].op = "dir"

FileInv ==
    /\ FileTypes /\ WithinFile /\ TerminalKept
    /\ OneLister /\ OpenerLists /\ ListingUndisturbed

-----------------------------------------------------------------------------
LEMMA FdFacts == 0 \in Fd /\ 1 \in Fd /\ Fd \subseteq Nat
  BY FileAssumption DEF Fd

LEMMA FreshIsArray == FreshArray \in [Fd -> Descriptor]
  BY DEF FreshArray, Descriptor, Used, Unused, Ops, Indices

LEMMA FreshEnds == FreshArray[0] = Used("stdin", 0) /\ FreshArray[1] = Used("stdout", 0)
  BY FdFacts DEF FreshArray

LEMMA IdxFacts ==
    /\ dentry_num \in Nat /\ DIR_IDX_MAX \in Nat /\ dentry_num <= DIR_IDX_MAX
    /\ 0 \in 0 .. DIR_IDX_MAX
  BY FileAssumption

LEMMA EmptyBytes == <<>> \in Seq(Byte)
  OBVIOUS

LEMMA FileInit == Init => FileInv
  <1> SUFFICES ASSUME Init PROVE FileInv
    OBVIOUS
  <1> USE DEF Init
  <1>1. \A p \in Procs : fd_array[p] = FreshArray
    OBVIOUS
  <1>2. \A p \in Procs, fd \in Fd : fd_array[p][fd].op \notin {"dir", "file"}
    BY <1>1 DEF FreshArray, Used, Unused
  <1>3. FileTypes
    BY FreshIsArray, EmptyBytes, IdxFacts DEF FileTypes
  <1>4. TerminalKept
    BY <1>1, FreshEnds DEF TerminalKept
  <1> QED
    BY <1>2, <1>3, <1>4 DEF FileInv, WithinFile, OneLister, OpenerLists,
                            ListingUndisturbed

-----------------------------------------------------------------------------
(***************************************************************************)
(* Reading a file.                                                         *)
(***************************************************************************)

\* The block that holds a byte is in the list.
LEMMA BlockInList ==
    ASSUME NEW o \in Nat, NEW b \in Nat \ {0}, NEW l \in Nat, o < b * l
    PROVE  o \div b \in Nat /\ o \div b < l /\ o % b \in 0 .. b - 1
  <1>1. o = b * (o \div b) + (o % b) /\ o \div b \in Int /\ o % b \in 0 .. b - 1
    OBVIOUS
  <1>2. o \div b >= 0
    OBVIOUS
  <1>3. ASSUME o \div b >= l PROVE FALSE
    <2> DEFINE q == o \div b
    <2>1. q \in Nat /\ q >= l
      BY <1>1, <1>2, <1>3
    <2>2. b * q >= b * l
      <3> HIDE DEF q
      <3> QED  BY <2>1
    <2> QED
      BY <1>1, <2>1, <2>2
  <1> QED
    BY <1>1, <1>2, <1>3

\* read_data returns bytes of the file, no more than there are.
LEMMA ReadData ==
    ASSUME NEW i, FileInode(i), NEW offset \in 0 .. inode[i].length, NEW n \in Nat
    PROVE  /\ read_data(i, offset, n) \in Seq(Byte)
           /\ offset + Len(read_data(i, offset, n)) <= inode[i].length
  <1> DEFINE m == Clipped(offset, n, inode[i].length)
             ByteAt(o) == data_block[inode[i].data_block_num[BlockOff(o) + 1]]
                                    [(o % BLOCK_SIZE) + 1]
  <1>1. m \in Nat /\ offset + m <= inode[i].length
    BY DEF Clipped, FileInode
  <1>2. ASSUME NEW k \in 1 .. m PROVE ByteAt(offset + k - 1) \in Byte
    <2> DEFINE o == offset + k - 1
               bs == inode[i].data_block_num
    <2>1. o \in Nat /\ o < BLOCK_SIZE * Len(bs) /\ BLOCK_SIZE \in Nat \ {0}
          /\ Len(bs) \in Nat
      BY <1>1, FileAssumption DEF FileInode
    <2>2. BlockOff(o) + 1 \in 1 .. Len(bs) /\ (o % BLOCK_SIZE) + 1 \in 1 .. BLOCK_SIZE
      <3> DEFINE l == Len(bs)
      <3> HIDE DEF o, bs, l
      <3>1. /\ o \div BLOCK_SIZE \in Nat /\ o \div BLOCK_SIZE < l
            /\ o % BLOCK_SIZE \in 0 .. BLOCK_SIZE - 1
        BY <2>1, BlockInList DEF l
      <3>2. l \in Nat /\ BLOCK_SIZE \in Nat
        BY <2>1 DEF l
      <3> QED
        BY <3>1, <3>2 DEF BlockOff, l
    <2>3. bs[BlockOff(o) + 1] \in DOMAIN data_block
      BY <2>2 DEF FileInode
    <2> QED
      BY <2>2, <2>3, FileAssumption
  <1>3. read_data(i, offset, n) = [k \in 1 .. m |-> ByteAt(offset + k - 1)]
    BY DEF read_data
  <1> HIDE DEF m, ByteAt
  <1> QED
    BY <1>1, <1>2, <1>3

-----------------------------------------------------------------------------
(***************************************************************************)
(* Steps.                                                                  *)
(***************************************************************************)

\* A descriptor names the same file, further on, or is closed or new.
Kept ==
    \A p \in Procs, fd \in Fd :
        LET f == fd_array[p][fd]
            g == fd_array'[p][fd]
        IN  f.op # "none" /\ g.op # "none" =>
                /\ g.op = f.op /\ g.inode_idx = f.inode_idx
                /\ g.file_pos >= f.file_pos

\* The parts of the invariant that steps other than Open, Close and ReadFile
\* leave to fd_array.
LEMMA DescriptorsSame ==
    ASSUME FileInv, fd_array' = fd_array, FileTypes', UNCHANGED shared,
           OpenerLists', ListingUndisturbed'
    PROVE  FileInv' /\ Kept
  <1>1. WithinFile' /\ TerminalKept'
    BY DEF FileInv, WithinFile, TerminalKept, FileInode
  <1>2. OneLister'
    BY DEF FileInv, OneLister
  <1>3. Kept
    <2>1. \A p \in Procs, fd \in Fd : fd_array[p][fd].file_pos \in Nat
      BY DEF FileInv, FileTypes, Descriptor
    <2> QED
      BY <2>1 DEF Kept
  <1> QED
    BY <1>1, <1>2, <1>3 DEF FileInv

LEMMA ReadDirStep ==
    ASSUME FileInv, NEW p \in Procs, NEW fd \in Fd, ReadDir(p, fd)
    PROVE  FileInv' /\ Kept
  <1> USE DEF FileInv, FileTypes, ReadDir
  <1>1. dir_idx + 1 \in 0 .. DIR_IDX_MAX
    BY IdxFacts
  <1>2. FileTypes' /\ OpenerLists'
    BY <1>1 DEF OpenerLists
  <1>3. ListingUndisturbed'
    BY <1>1 DEF ListingUndisturbed, OneLister
  <1> QED
    BY <1>2, <1>3, DescriptorsSame

LEMMA DirOpenZeroStep ==
    ASSUME FileInv, NEW p \in Procs, DirOpenZero(p)
    PROVE  FileInv' /\ Kept
  <1> USE DEF FileInv, FileTypes, DirOpenZero
  <1>1. FileTypes' /\ OpenerLists'
    BY IdxFacts DEF OpenerLists, FirstEntry
  <1>2. ListingUndisturbed'
    BY DEF ListingUndisturbed, OneLister, OpenerLists
  <1> QED
    BY <1>1, <1>2, DescriptorsSame

LEMMA DirOpenMatchStep ==
    ASSUME FileInv, NEW p \in Procs, DirOpenMatch(p)
    PROVE  FileInv' /\ Kept
  <1> USE DEF FileInv, FileTypes, DirOpenMatch
  <1>1. FileTypes'
    <2>1. dir_idx' \in 0 .. DIR_IDX_MAX
      BY IdxFacts
    <2>2. pc' \in [Procs -> {"user", "zero", "match"}]
      OBVIOUS
    <2>3. expected' \in [Procs -> 0 .. DIR_IDX_MAX]
      OBVIOUS
    <2> QED
      BY <2>1, <2>2, <2>3
  <1>2. OpenerLists'
    BY DEF OpenerLists
  <1>3. ListingUndisturbed'
    <2> SUFFICES ASSUME ~shared, NEW q \in Procs, NEW fd \in Fd,
                        fd_array[q][fd].op = "dir", pc'[q] = "user"
                 PROVE  dir_idx' = expected'[q]
      BY DEF ListingUndisturbed
    <2>1. q = p
      BY DEF OneLister, OpenerLists
    <2> QED
      BY <2>1
  <1> QED
    BY <1>1, <1>2, <1>3, DescriptorsSame

\* A descriptor of a file is within the file.
Sound(f) ==
    f.op = "file" => FileInode(f.inode_idx)
                     /\ f.file_pos <= inode[f.inode_idx].length

\* One descriptor of p becomes f, the others stay.
SetTo(p, fd, f) ==
    /\ fd_array' \in [Procs -> [Fd -> Descriptor]]
    /\ fd_array'[p][fd] = f
    /\ \A q \in Procs, e \in Fd : q # p \/ e # fd =>
           fd_array'[q][e] = fd_array[q][e]

\* One descriptor of p changes: what the rest of the invariant needs of it.
LEMMA DescriptorStep ==
    ASSUME FileInv, NEW p \in Procs, NEW fd \in Fd, NEW f \in Descriptor,
           fd_array' = [fd_array EXCEPT ![p][fd] = f],
           fd \notin {0, 1}, Sound(f)
    PROVE  WithinFile' /\ TerminalKept' /\ SetTo(p, fd, f)
  <1> USE DEF FileInv, FileTypes
  <1>1. fd_array' \in [Procs -> [Fd -> Descriptor]]
    OBVIOUS
  <1>2. fd_array'[p][fd] = f
    OBVIOUS
  <1>3. \A q \in Procs, e \in Fd : q # p \/ e # fd =>
            fd_array'[q][e] = fd_array[q][e]
    OBVIOUS
  <1>4. WithinFile'
    <2> SUFFICES ASSUME NEW q \in Procs, NEW e \in Fd, fd_array'[q][e].op = "file"
                 PROVE  /\ FileInode(fd_array'[q][e].inode_idx)
                        /\ fd_array'[q][e].file_pos
                               <= inode[fd_array'[q][e].inode_idx].length
      BY DEF WithinFile, FileInode
    <2>1. CASE q = p /\ e = fd
      BY <1>2, <2>1 DEF Sound
    <2>2. CASE q # p \/ e # fd
      BY <1>3, <2>2 DEF WithinFile
    <2> QED
      BY <2>1, <2>2
  <1>5. TerminalKept'
    BY <1>3, FdFacts DEF TerminalKept
  <1> QED
    BY <1>1, <1>2, <1>3, <1>4, <1>5 DEF SetTo

\* All but one descriptor stay, and that one is closed, was free, or moves on.
LEMMA OneMoves ==
    ASSUME FileInv, NEW p \in Procs, NEW fd \in Fd,
           \A q \in Procs, e \in Fd : q # p \/ e # fd =>
               fd_array'[q][e] = fd_array[q][e],
           \/ fd_array[p][fd].op = "none"
           \/ fd_array'[p][fd].op = "none"
           \/ /\ fd_array'[p][fd].op = fd_array[p][fd].op
              /\ fd_array'[p][fd].inode_idx = fd_array[p][fd].inode_idx
              /\ fd_array'[p][fd].file_pos >= fd_array[p][fd].file_pos
    PROVE  Kept
  <1> SUFFICES ASSUME NEW q \in Procs, NEW e \in Fd,
                      fd_array[q][e].op # "none", fd_array'[q][e].op # "none"
               PROVE  /\ fd_array'[q][e].op = fd_array[q][e].op
                      /\ fd_array'[q][e].inode_idx = fd_array[q][e].inode_idx
                      /\ fd_array'[q][e].file_pos >= fd_array[q][e].file_pos
    BY DEF Kept
  <1>1. CASE q = p /\ e = fd
    BY <1>1
  <1>2. CASE q # p \/ e # fd
    <2>1. fd_array'[q][e] = fd_array[q][e]
      BY <1>2
    <2>2. fd_array[q][e].file_pos \in Nat
      BY DEF FileInv, FileTypes, Descriptor
    <2> QED
      BY <2>1, <2>2
  <1> QED
    BY <1>1, <1>2

LEMMA ReadFileStep ==
    ASSUME FileInv, NEW p \in Procs, NEW fd \in Fd, NEW n \in Sizes,
           ReadFile(p, fd, n)
    PROVE  FileInv' /\ Kept
  <1> DEFINE f == fd_array[p][fd]
             bytes == read_data(f.inode_idx, f.file_pos, n)
             pos == f.file_pos + Len(bytes)
             g == [f EXCEPT !.file_pos = pos]
  <1>1. f \in Descriptor /\ f.op = "file" /\ FileInode(f.inode_idx)
        /\ f.file_pos \in 0 .. inode[f.inode_idx].length /\ n \in Nat
    <2>1. f \in Descriptor /\ f.op = "file"
      BY DEF FileInv, FileTypes, ReadFile
    <2>2. FileInode(f.inode_idx) /\ f.file_pos <= inode[f.inode_idx].length
      BY <2>1 DEF FileInv, WithinFile
    <2>3. f.file_pos \in Nat
      BY <2>1 DEF Descriptor
    <2>4. n \in Nat
      BY FileAssumption
    <2>5. inode[f.inode_idx].length \in Nat
      BY <2>2 DEF FileInode
    <2> HIDE DEF f
    <2> QED
      BY <2>1, <2>2, <2>3, <2>4, <2>5
  <1>2. bytes \in Seq(Byte) /\ pos <= inode[f.inode_idx].length
    <2> HIDE DEF f
    <2> QED  BY <1>1, ReadData
  <1>3. pos \in Nat /\ pos >= f.file_pos
    BY <1>1, <1>2
  <1>4. /\ fd_array' = [fd_array EXCEPT ![p][fd] = g]
        /\ got' = [got EXCEPT ![p][fd] = @ \o bytes]
        /\ UNCHANGED <<dir_idx, pc, expected, shared>>
    BY DEF ReadFile, PosAfter, FileInv, FileTypes
  <1> HIDE DEF bytes, pos
  <1>5. /\ g \in Descriptor /\ g.op = "file" /\ g.inode_idx = f.inode_idx
        /\ g.file_pos = pos
    BY <1>1, <1>3 DEF Descriptor
  <1>6. fd \notin {0, 1}
    BY <1>1 DEF FileInv, TerminalKept, Used
  <1> HIDE DEF g
  <1>7. /\ WithinFile' /\ TerminalKept'
        /\ fd_array' \in [Procs -> [Fd -> Descriptor]]
        /\ fd_array'[p][fd] = g
        /\ \A q \in Procs, e \in Fd : q # p \/ e # fd =>
               fd_array'[q][e] = fd_array[q][e]
    <2>1. fd_array' = [fd_array EXCEPT ![p][fd] = g]
      BY <1>4
    <2>2. g \in Descriptor
      BY <1>5
    <2>3. Sound(g)
      BY <1>1, <1>2, <1>5 DEF Sound
    <2>4. WithinFile' /\ TerminalKept' /\ SetTo(p, fd, g)
      BY <1>6, <2>1, <2>2, <2>3, DescriptorStep
    <2> QED
      BY <2>4 DEF SetTo
  <1>8. FileTypes'
    BY <1>2, <1>4, <1>7 DEF FileInv, FileTypes
  <1>9. \A q \in Procs, e \in Fd : fd_array'[q][e].op = fd_array[q][e].op
    BY <1>1, <1>5, <1>7
  <1>10. OneLister' /\ OpenerLists' /\ ListingUndisturbed'
    <2>1. OneLister'
      BY <1>4, <1>9 DEF FileInv, OneLister
    <2>2. OpenerLists'
      BY <1>4, <1>9 DEF FileInv, OpenerLists
    <2>3. ListingUndisturbed'
      BY <1>4, <1>9 DEF FileInv, ListingUndisturbed
    <2> QED
      BY <2>1, <2>2, <2>3
  <1>11. Kept
    <2>1. /\ fd_array'[p][fd].op = fd_array[p][fd].op
          /\ fd_array'[p][fd].inode_idx = fd_array[p][fd].inode_idx
          /\ fd_array'[p][fd].file_pos >= fd_array[p][fd].file_pos
      BY <1>1, <1>3, <1>5, <1>7
    <2> QED
      BY <1>7, <2>1, OneMoves
  <1> QED
    BY <1>7, <1>8, <1>10, <1>11 DEF FileInv

\* sys_open stores a valid descriptor into a free place.
LEMMA OpenStep ==
    ASSUME FileInv, NEW p \in Procs, NEW d \in Found, Open(p, d)
    PROVE  FileInv' /\ Kept
  <1> DEFINE g == Used(Table(d.filetype), d.inode_num)
  <1>1. PICK fd \in FirstFree(p) :
            /\ fd_array' = [fd_array EXCEPT ![p][fd] = g]
            /\ got' = [got EXCEPT ![p][fd] = <<>>]
    BY DEF Open
  <1>2. fd \in Fd /\ fd \notin {0, 1} /\ fd_array[p][fd].op = "none"
    BY <1>1, FileAssumption DEF FirstFree, Fd
  <1>3. /\ g \in Descriptor
        /\ g.op \in {"file", "dir", "rtc"}
        /\ g.op = "file" <=> d.filetype = FILE_TYPE
        /\ g.op = "dir" <=> d.filetype = DIR_TYPE
        /\ g.op = "file" => FileInode(g.inode_idx)
                            /\ g.file_pos <= inode[g.inode_idx].length
    <2>1. d.inode_num \in Indices
      BY DEF Indices
    <2>2. d.filetype = FILE_TYPE => FileInode(d.inode_num)
      BY FileAssumption DEF Found, FileInode
    <2> QED
      BY <2>1, <2>2 DEF Descriptor, Used, Table, Ops, FILE_TYPE, DIR_TYPE, FileInode
  <1> HIDE DEF g
  <1>4. /\ WithinFile' /\ TerminalKept'
        /\ fd_array' \in [Procs -> [Fd -> Descriptor]]
        /\ fd_array'[p][fd] = g
        /\ \A q \in Procs, e \in Fd : q # p \/ e # fd =>
               fd_array'[q][e] = fd_array[q][e]
    <2>1. fd_array' = [fd_array EXCEPT ![p][fd] = g]
      BY <1>1
    <2>2. g \in Descriptor
      BY <1>3
    <2>3. Sound(g)
      BY <1>3 DEF Sound
    <2>4. WithinFile' /\ TerminalKept' /\ SetTo(p, fd, g)
      BY <1>2, <2>1, <2>2, <2>3, DescriptorStep
    <2> QED
      BY <2>4 DEF SetTo
  <1>5. FileTypes'
    <2>1. got' \in [Procs -> [Fd -> Seq(Byte)]]
      BY <1>1, EmptyBytes DEF FileInv, FileTypes
    <2> QED
      BY <1>4, <2>1 DEF FileInv, FileTypes, Open
  <1>6. OpenerLists'
    BY <1>2, <1>3, <1>4 DEF FileInv, FileTypes, OpenerLists, Open
  <1>7. Kept
    BY <1>2, <1>4, OneMoves
  <1>8. OneLister' /\ ListingUndisturbed'
    <2>1. CASE d.filetype = DIR_TYPE
      <3>1. ~shared' => \A q \in Procs, e \in Fd : fd_array[q][e].op # "dir"
        <4> SUFFICES ASSUME NEW q \in Procs, NEW e \in Fd,
                            fd_array[q][e].op = "dir"
                     PROVE  DirDescriptors # {}
          BY <2>1 DEF Open
        <4>1. <<q, e>> \in DirDescriptors
          BY DEF DirDescriptors
        <4> QED
          BY <4>1
      <3>2. pc'[p] # "user"
        BY <2>1 DEF Open, FileInv, FileTypes
      <3>3. ~shared' => \A q \in Procs, e \in Fd :
                            fd_array'[q][e].op = "dir" => q = p /\ e = fd
        BY <1>4, <3>1
      <3> QED
        BY <3>2, <3>3 DEF OneLister, ListingUndisturbed
    <2>2. CASE d.filetype # DIR_TYPE
      <3>1. \A q \in Procs, e \in Fd :
                fd_array'[q][e].op = "dir" => fd_array[q][e].op = "dir"
        BY <1>3, <1>4, <2>2
      <3>2. UNCHANGED <<pc, shared, dir_idx, expected>>
        BY <2>2 DEF Open
      <3>3. OneLister'
        BY <3>1, <3>2 DEF FileInv, OneLister
      <3>4. ListingUndisturbed'
        BY <3>1, <3>2 DEF FileInv, ListingUndisturbed
      <3> QED
        BY <3>3, <3>4
    <2> QED
      BY <2>1, <2>2
  <1> QED
    BY <1>4, <1>5, <1>6, <1>7, <1>8 DEF FileInv

\* sys_close: when it resets dir_idx, nobody else lists.
LEMMA CloseStep ==
    ASSUME FileInv, NEW p \in Procs, NEW fd \in Fd, Close(p, fd)
    PROVE  FileInv' /\ Kept
  <1>1. Unused \in Descriptor /\ Unused.op = "none" /\ fd \notin {0, 1}
    BY DEF Unused, Descriptor, Ops, Indices, Close
  <1>2. /\ WithinFile' /\ TerminalKept'
        /\ fd_array' \in [Procs -> [Fd -> Descriptor]]
        /\ fd_array'[p][fd] = Unused
        /\ \A q \in Procs, e \in Fd : q # p \/ e # fd =>
               fd_array'[q][e] = fd_array[q][e]
    <2>1. Sound(Unused)
      BY <1>1 DEF Sound
    <2>2. fd_array' = [fd_array EXCEPT ![p][fd] = Unused]
      BY DEF Close
    <2>3. WithinFile' /\ TerminalKept' /\ SetTo(p, fd, Unused)
      BY <1>1, <2>1, <2>2, DescriptorStep
    <2> QED
      BY <2>3 DEF SetTo
  <1>3. FileTypes'
    <2>1. got' \in [Procs -> [Fd -> Seq(Byte)]]
      BY EmptyBytes DEF FileInv, FileTypes, Close
    <2>2. dir_idx' \in 0 .. DIR_IDX_MAX
      BY IdxFacts DEF FileInv, FileTypes, Close, IdxAfterClose
    <2> QED
      BY <1>2, <2>1, <2>2 DEF FileInv, FileTypes, Close
  <1>4. \A q \in Procs, e \in Fd :
            fd_array'[q][e].op = "dir" =>
                fd_array[q][e].op = "dir" /\ (q # p \/ e # fd)
    BY <1>1, <1>2
  <1>5. UNCHANGED <<pc, shared, expected>> /\ pc[p] = "user"
    BY DEF Close
  <1>6. OneLister'
    BY <1>4, <1>5 DEF FileInv, OneLister
  <1>7. OpenerLists'
    BY <1>2, <1>5 DEF FileInv, OpenerLists
  <1>8. ListingUndisturbed'
    <2> SUFFICES ASSUME ~shared, NEW q \in Procs, NEW e \in Fd,
                        fd_array'[q][e].op = "dir", pc[q] = "user"
                 PROVE  dir_idx' = expected[q]
      BY <1>5 DEF ListingUndisturbed
    <2>1. fd_array[p][fd].op # "dir"
      BY <1>4 DEF FileInv, OneLister
    <2>2. dir_idx' = dir_idx
      BY <2>1 DEF Close, IdxAfterClose
    <2> QED
      BY <1>4, <2>2 DEF FileInv, ListingUndisturbed
  <1>9. Kept
    BY <1>1, <1>2, OneMoves
  <1> QED
    BY <1>2, <1>3, <1>6, <1>7, <1>8, <1>9 DEF FileInv

\* A new program has the descriptors of the terminal only.
LEMMA ReplacedStep ==
    ASSUME FileInv, NEW p \in Procs, Replaced(p)
    PROVE  FileInv' /\ Kept
  <1>1. /\ fd_array' \in [Procs -> [Fd -> Descriptor]]
        /\ fd_array'[p] = FreshArray
        /\ \A q \in Procs \ {p} : fd_array'[q] = fd_array[q]
    BY FreshIsArray DEF Replaced, FileInv, FileTypes
  <1>2. \A fd \in Fd : FreshArray[fd].op \notin {"dir", "file"}
    BY DEF FreshArray, Used, Unused
  <1>3. FileTypes'
    BY <1>1, EmptyBytes DEF Replaced, FileInv, FileTypes
  <1>4. WithinFile'
    <2> SUFFICES ASSUME NEW q \in Procs, NEW e \in Fd, fd_array'[q][e].op = "file"
                 PROVE  /\ FileInode(fd_array'[q][e].inode_idx)
                        /\ fd_array'[q][e].file_pos
                               <= inode[fd_array'[q][e].inode_idx].length
      BY DEF WithinFile, FileInode
    <2> QED
      BY <1>1, <1>2 DEF FileInv, WithinFile
  <1>5. TerminalKept'
    BY <1>1, FreshEnds DEF FileInv, TerminalKept
  <1>6. \A q \in Procs, e \in Fd :
            fd_array'[q][e].op = "dir" => q # p /\ fd_array[q][e].op = "dir"
    BY <1>1, <1>2
  <1>7. OneLister' /\ ListingUndisturbed'
    BY <1>6 DEF FileInv, FileTypes, OneLister, ListingUndisturbed, Replaced
  <1>8. OpenerLists'
    BY <1>1 DEF FileInv, FileTypes, OpenerLists, Replaced
  <1>9. Kept
    <2> SUFFICES ASSUME NEW q \in Procs, NEW e \in Fd,
                        fd_array[q][e].op # "none", fd_array'[q][e].op # "none"
                 PROVE  /\ fd_array'[q][e].op = fd_array[q][e].op
                        /\ fd_array'[q][e].inode_idx = fd_array[q][e].inode_idx
                        /\ fd_array'[q][e].file_pos >= fd_array[q][e].file_pos
      BY DEF Kept
    <2>1. CASE q # p
      BY <1>1, <2>1 DEF FileInv, FileTypes, Descriptor
    <2>2. CASE q = p
      <3>1. e \in {0, 1}
        BY <1>1, <2>2 DEF FreshArray, Unused
      <3>2. fd_array'[q][e] = fd_array[q][e]
        BY <1>1, <2>2, <3>1, FreshEnds DEF FileInv, TerminalKept
      <3> QED
        BY <3>2 DEF FileInv, FileTypes, Descriptor
    <2> QED
      BY <2>1, <2>2
  <1> QED
    BY <1>3, <1>4, <1>5, <1>7, <1>8, <1>9 DEF FileInv

-----------------------------------------------------------------------------
(***************************************************************************)
(* What is read.                                                           *)
(***************************************************************************)

\* The byte of a file at an offset, as read_data finds it.
FileByte(i, o) ==
    data_block[inode[i].data_block_num[BlockOff(o) + 1]][(o % BLOCK_SIZE) + 1]

\* A file up to an offset.
FileUpTo(i, n) == [k \in 1 .. n |-> FileByte(i, k - 1)]

LEMMA DivisionIs ==
    ASSUME NEW b \in Nat \ {0}, NEW q \in Nat, NEW r \in 0 .. b - 1
    PROVE  (b * q + r) \div b = q /\ (b * q + r) % b = r
  <1> DEFINE o == b * q + r
             d == o \div b
             m == o % b
  <1>1. o \in Nat /\ o = b * d + m /\ d \in Int /\ m \in 0 .. b - 1
    <2>1. b * q \in Nat
      OBVIOUS
    <2>2. o \in Nat
      BY <2>1
    <2> HIDE DEF o
    <2> QED
      BY <2>2
  <1>2. o = b * q + r
    OBVIOUS
  <1> HIDE DEF o, d, m
  <1>3. ASSUME d < q PROVE FALSE
    <2>1. b * (d + 1) <= b * q
      BY <1>1, <1>3
    <2>2. b * (d + 1) = b * d + b
      BY <1>1
    <2> QED
      BY <1>1, <1>2, <2>1, <2>2
  <1>4. ASSUME d > q PROVE FALSE
    <2>1. b * (q + 1) <= b * d
      BY <1>1, <1>4
    <2>2. b * (q + 1) = b * q + b
      OBVIOUS
    <2> QED
      BY <1>1, <1>2, <2>1, <2>2
  <1>5. d = q
    BY <1>1, <1>3, <1>4
  <1>6. m = r
    BY <1>1, <1>2, <1>5
  <1> QED
    BY <1>5, <1>6 DEF o, d, m

LEMMA ConcatIs ==
    ASSUME NEW V, NEW s \in Seq(V), NEW t \in Seq(V), NEW m, NEW n,
           m = Len(s), n = Len(t)
    PROVE  s \o t = [k \in 1 .. m + n |-> IF k <= m THEN s[k] ELSE t[k - m]]
  <1> DEFINE w == s \o t
  <1>1. /\ w \in Seq(V) /\ Len(w) = m + n /\ m \in Nat /\ n \in Nat
        /\ \A k \in 1 .. m : w[k] = s[k]
        /\ \A k \in 1 .. n : w[m + k] = t[k]
    OBVIOUS
  <1> HIDE DEF w
  <1>2. ASSUME NEW k \in 1 .. m + n
        PROVE  w[k] = IF k <= m THEN s[k] ELSE t[k - m]
    <2>1. CASE k <= m
      BY <1>1, <2>1
    <2>2. CASE ~ (k <= m)
      <3>1. k - m \in 1 .. n /\ m + (k - m) = k
        BY <1>1, <2>2
      <3> QED
        BY <1>1, <2>2, <3>1
    <2> QED
      BY <2>1, <2>2
  <1>3. w = [k \in 1 .. m + n |-> w[k]]
    BY <1>1
  <1> QED
    BY <1>2, <1>3 DEF w

\* What the first n blocks of s are, one after the other, if all have b bytes.
Flat(s, b, n) == [k \in 1 .. b * n |-> s[((k - 1) \div b) + 1][((k - 1) % b) + 1]]

LEMMA FlatOne ==
    ASSUME NEW b \in Nat \ {0}, NEW s, s[1] \in Seq(Byte), Len(s[1]) = b
    PROVE  Flat(s, b, 1) = s[1]
  <1>1. ASSUME NEW k \in 1 .. b PROVE (k - 1) \div b = 0 /\ (k - 1) % b = k - 1
    <2>1. k - 1 \in 0 .. b - 1 /\ b * 0 + (k - 1) = k - 1
      OBVIOUS
    <2> QED
      BY <2>1, DivisionIs
  <1>2. b * 1 = b /\ 0 + 1 = 1
    OBVIOUS
  <1>3. Flat(s, b, 1) = [k \in 1 .. b |-> s[1][k]]
    BY <1>1, <1>2 DEF Flat
  <1> QED
    BY <1>3

LEMMA FlatNext ==
    ASSUME NEW b \in Nat \ {0}, NEW n \in Nat, NEW s,
           s[n + 1] \in Seq(Byte), Len(s[n + 1]) = b,
           Flat(s, b, n) \in Seq(Byte)
    PROVE  Flat(s, b, n + 1) = Flat(s, b, n) \o s[n + 1]
  <1> DEFINE At(k) == s[((k - 1) \div b) + 1][((k - 1) % b) + 1]
             m == b * n
  <1>1. m \in Nat /\ b * (n + 1) = m + b
    OBVIOUS
  <1>2. ASSUME NEW k \in m + 1 .. m + b PROVE At(k) = s[n + 1][k - m]
    <2>1. k - m - 1 \in 0 .. b - 1 /\ m + (k - m - 1) = k - 1
      BY <1>1
    <2>2. (k - 1) \div b = n /\ (k - 1) % b = k - m - 1
      BY <2>1, DivisionIs
    <2>3. (k - m - 1) + 1 = k - m
      BY <1>1
    <2> QED
      BY <2>2, <2>3
  <1>3. /\ Flat(s, b, n) = [k \in 1 .. m |-> At(k)]
        /\ Flat(s, b, n + 1) = [k \in 1 .. m + b |-> At(k)]
    BY <1>1 DEF Flat
  <1> DEFINE whole == Flat(s, b, n + 1)
             first == Flat(s, b, n)
             rest == s[n + 1]
  <1>4. Len(first) = m /\ Len(rest) = b
    BY <1>1, <1>3
  <1>5. \A k \in 1 .. m + b : whole[k] = IF k <= m THEN first[k] ELSE rest[k - m]
    BY <1>1, <1>2, <1>3
  <1>6. whole = [k \in 1 .. m + b |-> whole[k]]
    BY <1>3
  <1> HIDE DEF m, At, whole, first, rest
  <1>7. first \o rest = [k \in 1 .. m + b |-> IF k <= m THEN first[k] ELSE rest[k - m]]
    <2>1. first \in Seq(Byte) /\ rest \in Seq(Byte)
      BY DEF first, rest
    <2> QED
      BY <1>4, <2>1, ConcatIs
  <1> QED
    BY <1>5, <1>6, <1>7 DEF whole, first, rest

\* A set of numbers has a least one.
LEMMA Minimum ==
    ASSUME NEW T, T \subseteq Nat, T # {}
    PROVE  \E x \in T : \A y \in T : x <= y
  <1> DEFINE R == OpToRel(<, Nat)
  <1>1. \A x, y \in Nat : x < y => <<x, y>> \in R
    BY DEF OpToRel
  <1>2. IsWellFoundedOn(R, Nat)
    BY NatLessThanWellFounded
  <1> HIDE DEF R
  <1>3. PICK x \in T : \A y \in T : ~ (<<y, x>> \in R)
    BY <1>2, WFMin
  <1>4. \A y \in T : ~ (y < x)
    BY <1>1, <1>3
  <1> QED
    BY <1>3, <1>4

\* The recursive function of FlattenSeq.
Flattens(f, s) ==
    f = [i \in 1 .. Len(s) |-> IF i = 1 THEN s[i] ELSE f[i - 1] \o s[i]]

LEMMA OneFlattening ==
    ASSUME NEW s \in Seq(Seq(Byte)), NEW f, NEW g, Flattens(f, s), Flattens(g, s)
    PROVE  f = g
  <1> DEFINE S == {i \in 1 .. Len(s) : f[i] # g[i]}
  <1>1. S = {}
    <2> SUFFICES ASSUME S # {} PROVE FALSE
      OBVIOUS
    <2>1. PICK i \in S : \A j \in S : i <= j
      <3>1. S \subseteq Nat
        OBVIOUS
      <3> HIDE DEF S
      <3> QED
        BY <3>1, Minimum
    <2>2. /\ f[i] = IF i = 1 THEN s[i] ELSE f[i - 1] \o s[i]
          /\ g[i] = IF i = 1 THEN s[i] ELSE g[i - 1] \o s[i]
      BY DEF Flattens
    <2>3. i # 1 => f[i - 1] = g[i - 1]
      BY <2>1
    <2> QED
      BY <2>2, <2>3
  <1>2. /\ f = [i \in 1 .. Len(s) |-> f[i]]
        /\ g = [i \in 1 .. Len(s) |-> g[i]]
    BY DEF Flattens
  <1> QED
    BY <1>1, <1>2

LEMMA FlattenIs ==
    ASSUME NEW b \in Nat \ {0}, NEW s \in Seq(Seq(Byte)),
           \A i \in 1 .. Len(s) : Len(s[i]) = b
    PROVE  FlattenSeq(s) = Flat(s, b, Len(s))
  <1>1. CASE Len(s) = 0
    <2>1. FlattenSeq(s) = s /\ s = <<>>
      BY <1>1 DEF FlattenSeq
    <2>2. b * Len(s) = 0
      BY <1>1
    <2> QED
      BY <2>1, <2>2 DEF Flat
  <1>2. CASE Len(s) # 0
    <2> DEFINE n == Len(s)
               F == [i \in 1 .. n |-> Flat(s, b, i)]
               g == CHOOSE g : Flattens(g, s)
    <2>1. n \in Nat \ {0} /\ n \in 1 .. n
      BY <1>2
    <2>2. \A i \in 1 .. n : s[i] \in Seq(Byte) /\ Len(s[i]) = b
      OBVIOUS
    <2>3. \A i \in 1 .. n : Flat(s, b, i) \in Seq(Byte)
      <3> SUFFICES ASSUME NEW i \in 1 .. n PROVE Flat(s, b, i) \in Seq(Byte)
        OBVIOUS
      <3>1. b * i \in Nat
        BY <2>1
      <3>2. ASSUME NEW k \in 1 .. b * i
            PROVE  s[((k - 1) \div b) + 1][((k - 1) % b) + 1] \in Byte
        <4>1. k - 1 \in Nat /\ k - 1 < b * i /\ i \in Nat
          BY <2>1, <3>1
        <4>2. /\ (k - 1) \div b \in Nat /\ (k - 1) \div b < i
              /\ (k - 1) % b \in 0 .. b - 1
          BY <2>1, <4>1, BlockInList
        <4>3. ((k - 1) \div b) + 1 \in 1 .. n /\ ((k - 1) % b) + 1 \in 1 .. b
          BY <2>1, <4>2
        <4> QED
          BY <2>2, <4>3
      <3> QED
        BY <3>1, <3>2 DEF Flat
    <2>4. ASSUME NEW i \in 1 .. n
          PROVE  Flat(s, b, i) = IF i = 1 THEN s[i] ELSE F[i - 1] \o s[i]
      <3>1. CASE i = 1
        BY <2>2, <3>1, FlatOne
      <3>2. CASE i # 1
        <4>1. i - 1 \in Nat /\ i - 1 \in 1 .. n /\ (i - 1) + 1 = i
          BY <2>1, <3>2
        <4>2. Flat(s, b, (i - 1) + 1) = Flat(s, b, i - 1) \o s[(i - 1) + 1]
          <5>1. s[(i - 1) + 1] \in Seq(Byte) /\ Len(s[(i - 1) + 1]) = b
            BY <2>2, <4>1
          <5>2. Flat(s, b, i - 1) \in Seq(Byte)
            BY <2>3, <4>1
          <5> QED
            BY <4>1, <5>1, <5>2, FlatNext
        <4> QED
          BY <3>2, <4>1, <4>2
      <3> QED
        BY <3>1, <3>2
    <2>5. Flattens(F, s)
      <3> HIDE DEF F
      <3>1. F = [i \in 1 .. n |-> Flat(s, b, i)]
        BY DEF F
      <3> QED
        BY <2>4, <3>1 DEF Flattens
    <2>6. Flattens(g, s)
      BY <2>5
    <2>7. FlattenSeq(s) = g[n]
      BY <1>2 DEF FlattenSeq, Flattens
    <2>8. F[n] = Flat(s, b, n)
      BY <2>1
    <2> HIDE DEF F, g
    <2>9. g = F
      BY <2>5, <2>6, OneFlattening
    <2> QED
      BY <2>7, <2>8, <2>9
  <1> QED
    BY <1>1, <1>2

\* The contents of a file are its bytes in order.
LEMMA ContentsIs ==
    ASSUME NEW i, FileInode(i)
    PROVE  /\ Contents(i) \in Seq(Byte) /\ Len(Contents(i)) = inode[i].length
           /\ \A n \in 0 .. inode[i].length :
                  SubSeq(Contents(i), 1, n) = FileUpTo(i, n)
  <1> DEFINE bs == inode[i].data_block_num
             s == [k \in DOMAIN bs |-> data_block[bs[k]]]
             len == inode[i].length
             size == BLOCK_SIZE * Len(bs)
             flat == FlattenSeq(s)
  <1>1. /\ len \in Nat /\ bs \in Seq(DOMAIN data_block) /\ len <= size
        /\ BLOCK_SIZE \in Nat \ {0} /\ size \in Nat /\ Len(bs) \in Nat
    BY FileAssumption DEF FileInode
  <1>2. /\ s \in Seq(Seq(Byte)) /\ Len(s) = Len(bs)
        /\ \A k \in 1 .. Len(s) : s[k] = data_block[bs[k]] /\ Len(s[k]) = BLOCK_SIZE
    <2>1. DOMAIN bs = 1 .. Len(bs) /\ \A k \in 1 .. Len(bs) : bs[k] \in DOMAIN data_block
      BY <1>1
    <2>2. \A k \in 1 .. Len(bs) : /\ data_block[bs[k]] \in Seq(Byte)
                                  /\ Len(data_block[bs[k]]) = BLOCK_SIZE
      BY <2>1, FileAssumption
    <2>3. s = [k \in 1 .. Len(bs) |-> data_block[bs[k]]]
      BY <2>1
    <2> HIDE DEF s, bs
    <2>4. s \in Seq(Seq(Byte)) /\ Len(s) = Len(bs)
      BY <1>1, <2>2, <2>3 DEF bs
    <2> QED
      BY <2>2, <2>3, <2>4
  <1>3. flat = Flat(s, BLOCK_SIZE, Len(bs))
    <2> HIDE DEF s, bs
    <2> QED
      BY <1>1, <1>2, FlattenIs DEF flat
  <1>4. ASSUME NEW k \in 1 .. size
        PROVE  /\ s[((k - 1) \div BLOCK_SIZE) + 1][((k - 1) % BLOCK_SIZE) + 1]
                      = FileByte(i, k - 1)
               /\ FileByte(i, k - 1) \in Byte
    <2> DEFINE q == ((k - 1) \div BLOCK_SIZE) + 1
               r == ((k - 1) % BLOCK_SIZE) + 1
    <2>1. q \in 1 .. Len(bs) /\ r \in 1 .. BLOCK_SIZE
      <3>1. k - 1 \in Nat /\ k - 1 < BLOCK_SIZE * Len(bs)
        BY <1>1
      <3> HIDE DEF bs
      <3>2. /\ (k - 1) \div BLOCK_SIZE \in Nat /\ (k - 1) \div BLOCK_SIZE < Len(bs)
            /\ (k - 1) % BLOCK_SIZE \in 0 .. BLOCK_SIZE - 1
        BY <1>1, <3>1, BlockInList
      <3> QED
        BY <1>1, <3>2
    <2>2. FileByte(i, k - 1) = data_block[bs[q]][r]
      BY DEF FileByte, BlockOff
    <2> HIDE DEF s, q, r
    <2>3. s[q] = data_block[bs[q]] /\ s[q] \in Seq(Byte) /\ Len(s[q]) = BLOCK_SIZE
      BY <1>2, <2>1
    <2>4. s[q][r] \in Byte
      BY <2>1, <2>3
    <2> QED
      BY <2>2, <2>3, <2>4 DEF q, r
  <1>5. flat = FileUpTo(i, size)
    <2>1. flat = [k \in 1 .. size |->
                     s[((k - 1) \div BLOCK_SIZE) + 1][((k - 1) % BLOCK_SIZE) + 1]]
      BY <1>3 DEF Flat
    <2> HIDE DEF flat, s, size
    <2> QED
      BY <1>4, <2>1 DEF FileUpTo
  <1> HIDE DEF flat, size, s
  <1>6. flat \in Seq(Byte) /\ Len(flat) = size
    BY <1>1, <1>4, <1>5 DEF FileUpTo
  <1>7. ASSUME NEW n \in 0 .. len
        PROVE  SubSeq(flat, 1, n) = FileUpTo(i, n)
    <2>1. n \in Nat /\ n <= size
      BY <1>1
    <2>2. SubSeq(flat, 1, n) = [k \in 1 .. n |-> flat[k]]
      BY <1>6, <2>1
    <2>3. \A k \in 1 .. n : flat[k] = FileByte(i, k - 1)
      BY <1>1, <1>5, <2>1 DEF FileUpTo
    <2> QED
      BY <2>2, <2>3 DEF FileUpTo
  <1> DEFINE c == Contents(i)
  <1>8. c = FileUpTo(i, len)
    <2>1. c = SubSeq(flat, 1, len)
      BY DEF Contents, flat, s
    <2>2. len \in 0 .. len
      BY <1>1
    <2> HIDE DEF c, len
    <2> QED
      BY <1>7, <2>1, <2>2
  <1>9. c \in Seq(Byte) /\ Len(c) = len
    <2>1. \A k \in 1 .. len : FileByte(i, k - 1) \in Byte
      BY <1>1, <1>4
    <2>2. len \in Nat
      BY <1>1
    <2> HIDE DEF c, len
    <2> QED
      BY <1>8, <2>1, <2>2 DEF FileUpTo
  <1>10. ASSUME NEW n \in 0 .. len PROVE SubSeq(c, 1, n) = FileUpTo(i, n)
    <2>1. n \in Nat /\ n <= len
      BY <1>1
    <2> HIDE DEF c
    <2>2. SubSeq(c, 1, n) = [k \in 1 .. n |-> c[k]]
      BY <1>9, <2>1
    <2>3. \A k \in 1 .. n : c[k] = FileByte(i, k - 1)
      BY <1>1, <1>8, <2>1 DEF FileUpTo
    <2> QED
      BY <2>2, <2>3 DEF FileUpTo
  <1> QED
    BY <1>9, <1>10

\* What read_data returns is the next part of the file.
LEMMA ReadDataIs ==
    ASSUME NEW i, FileInode(i), NEW pos \in 0 .. inode[i].length, NEW n \in Nat
    PROVE  FileUpTo(i, pos) \o read_data(i, pos, n)
               = FileUpTo(i, pos + Len(read_data(i, pos, n)))
  <1> DEFINE bytes == read_data(i, pos, n)
             m == Clipped(pos, n, inode[i].length)
             old == FileUpTo(i, pos)
             new == FileUpTo(i, pos + m)
  <1>1. m \in Nat /\ pos \in Nat
    BY DEF Clipped, FileInode
  <1>2. bytes = [k \in 1 .. m |-> FileByte(i, pos + k - 1)]
    BY DEF read_data, FileByte
  <1> HIDE DEF m, bytes
  <1> DEFINE V == {FileByte(i, o) : o \in Nat}
  <1>3. /\ bytes \in Seq(V) /\ Len(bytes) = m
        /\ old \in Seq(V) /\ Len(old) = pos
    <2>1. \A k \in 1 .. m : pos + k - 1 \in Nat
      BY <1>1
    <2>2. \A k \in 1 .. m : FileByte(i, pos + k - 1) \in V
      BY <2>1
    <2>3. \A k \in 1 .. pos : k - 1 \in Nat
      BY <1>1
    <2>4. \A k \in 1 .. pos : FileByte(i, k - 1) \in V
      BY <2>3
    <2> HIDE DEF V
    <2>5. bytes \in Seq(V) /\ Len(bytes) = m
      BY <1>1, <1>2, <2>2
    <2>6. old \in Seq(V) /\ Len(old) = pos
      BY <1>1, <2>4 DEF FileUpTo
    <2> QED
      BY <2>5, <2>6
  <1> HIDE DEF V
  <1>4. ASSUME NEW k \in 1 .. pos + m
        PROVE  new[k] = IF k <= pos THEN old[k] ELSE bytes[k - pos]
    <2>1. new[k] = FileByte(i, k - 1)
      BY <1>1 DEF FileUpTo
    <2>2. CASE k <= pos
      BY <1>1, <2>1, <2>2 DEF FileUpTo
    <2>3. CASE ~ (k <= pos)
      <3>1. k - pos \in 1 .. m /\ pos + (k - pos) - 1 = k - 1
        BY <1>1, <2>3
      <3> QED
        BY <1>2, <2>1, <2>3, <3>1
    <2> QED
      BY <2>2, <2>3
  <1>5. new = [k \in 1 .. pos + m |-> new[k]]
    BY DEF FileUpTo
  <1> HIDE DEF old, new
  <1>6. old \o bytes = [k \in 1 .. pos + m |-> IF k <= pos THEN old[k] ELSE bytes[k - pos]]
    BY <1>3, ConcatIs
  <1>7. old \o bytes = new
    BY <1>4, <1>5, <1>6
  <1> QED
    BY <1>3, <1>7 DEF old, new, bytes

\* What was read since the open is the file up to file_pos.
ReadSoFar ==
    \A p \in Procs, fd \in Fd :
        LET f == fd_array[p][fd] IN
        f.op = "file" => got[p][fd] = FileUpTo(f.inode_idx, f.file_pos)

LEMMA ReadSoFarInit == Init => ReadSoFar
  BY DEF Init, ReadSoFar, FreshArray, Used, Unused

LEMMA ReadSoFarStep ==
    ASSUME FileInv, ReadSoFar, NEW p \in Procs, Program(p)
    PROVE  ReadSoFar'
  <1> SUFFICES ASSUME NEW q \in Procs, NEW e \in Fd, fd_array'[q][e].op = "file"
               PROVE  got'[q][e] = FileUpTo(fd_array'[q][e].inode_idx,
                                            fd_array'[q][e].file_pos)
    BY DEF ReadSoFar
  <1>1. /\ fd_array \in [Procs -> [Fd -> Descriptor]]
        /\ got \in [Procs -> [Fd -> Seq(Byte)]]
    BY DEF FileInv, FileTypes
  <1>2. ASSUME fd_array'[q][e] = fd_array[q][e], got'[q][e] = got[q][e]
        PROVE  got'[q][e] = FileUpTo(fd_array'[q][e].inode_idx,
                                     fd_array'[q][e].file_pos)
    BY <1>2 DEF ReadSoFar
  <1>3. ASSUME NEW d \in Found, Open(p, d)
        PROVE  got'[q][e] = FileUpTo(fd_array'[q][e].inode_idx,
                                     fd_array'[q][e].file_pos)
    <2> DEFINE u == Used(Table(d.filetype), d.inode_num)
    <2>1. PICK fd \in FirstFree(p) :
              /\ fd_array' = [fd_array EXCEPT ![p][fd] = u]
              /\ got' = [got EXCEPT ![p][fd] = <<>>]
      BY <1>3 DEF Open
    <2>2. fd \in Fd
      BY <2>1, FileAssumption DEF FirstFree, Fd
    <2>3. u.file_pos = 0
      BY DEF Used
    <2> HIDE DEF u
    <2>4. CASE q = p /\ e = fd
      <3>1. fd_array'[q][e] = u /\ got'[q][e] = <<>>
        BY <1>1, <2>1, <2>2, <2>4
      <3> QED
        BY <2>3, <3>1 DEF FileUpTo
    <2>5. CASE ~ (q = p /\ e = fd)
      BY <1>1, <1>2, <2>1, <2>5
    <2> QED
      BY <2>4, <2>5
  <1>4. ASSUME NEW fd \in Fd, Close(p, fd)
        PROVE  got'[q][e] = FileUpTo(fd_array'[q][e].inode_idx,
                                     fd_array'[q][e].file_pos)
    <2>1. /\ fd_array' = [fd_array EXCEPT ![p][fd] = Unused]
          /\ got' = [got EXCEPT ![p][fd] = <<>>]
      BY <1>4 DEF Close
    <2>2. ~ (q = p /\ e = fd)
      BY <1>1, <2>1 DEF Unused
    <2> QED
      BY <1>1, <1>2, <2>1, <2>2
  <1>5. ASSUME NEW fd \in Fd, NEW n \in Sizes, ReadFile(p, fd, n)
        PROVE  got'[q][e] = FileUpTo(fd_array'[q][e].inode_idx,
                                     fd_array'[q][e].file_pos)
    <2> DEFINE f == fd_array[p][fd]
               bytes == read_data(f.inode_idx, f.file_pos, n)
               pos == f.file_pos + Len(bytes)
               g == [f EXCEPT !.file_pos = pos]
    <2>1. /\ f \in Descriptor /\ f.op = "file" /\ FileInode(f.inode_idx)
          /\ f.file_pos \in Nat /\ f.file_pos <= inode[f.inode_idx].length
      <3>1. f \in Descriptor /\ f.op = "file"
        BY <1>1, <1>5 DEF ReadFile
      <3> QED
        BY <3>1 DEF FileInv, WithinFile, Descriptor
    <2>2. /\ fd_array' = [fd_array EXCEPT ![p][fd] = g]
          /\ got' = [got EXCEPT ![p][fd] = @ \o bytes]
      BY <1>1, <1>5 DEF ReadFile, PosAfter
    <2>3. got[p][fd] = FileUpTo(f.inode_idx, f.file_pos)
      BY <2>1 DEF ReadSoFar
    <2> HIDE DEF f
    <2>4. g.inode_idx = f.inode_idx /\ g.file_pos = pos
      BY <2>1 DEF Descriptor
    <2>5. f.file_pos \in 0 .. inode[f.inode_idx].length /\ n \in Nat
      BY <2>1, FileAssumption DEF FileInode
    <2>6. got[p][fd] \o bytes = FileUpTo(f.inode_idx, pos)
      BY <2>1, <2>3, <2>5, ReadDataIs
    <2> HIDE DEF g, pos, bytes
    <2>7. CASE q = p /\ e = fd
      <3>1. fd_array'[q][e] = g /\ got'[q][e] = got[p][fd] \o bytes
        BY <1>1, <2>2, <2>7
      <3> QED
        BY <2>4, <2>6, <3>1
    <2>8. CASE ~ (q = p /\ e = fd)
      BY <1>1, <1>2, <2>2, <2>8
    <2> QED
      BY <2>7, <2>8
  <1>6. CASE Replaced(p)
    <2>1. q # p
      BY <1>1, <1>6 DEF Replaced, FreshArray, Used, Unused
    <2> QED
      BY <1>1, <1>2, <1>6, <2>1 DEF Replaced
  <1>7. CASE \E fd \in Fd : ReadDir(p, fd)
    BY <1>2, <1>7 DEF ReadDir
  <1>8. CASE DirOpenZero(p) \/ DirOpenMatch(p)
    BY <1>2, <1>8 DEF DirOpenZero, DirOpenMatch
  <1> QED
    BY <1>3, <1>4, <1>5, <1>6, <1>7, <1>8 DEF Program

-----------------------------------------------------------------------------
LEMMA FileStep == FileInv /\ Next => FileInv' /\ Kept
  <1> SUFFICES ASSUME FileInv, NEW p \in Procs, Program(p) PROVE FileInv' /\ Kept
    BY DEF Next
  <1> QED
    BY OpenStep, CloseStep, ReadDirStep, ReadFileStep, DirOpenZeroStep,
       DirOpenMatchStep, ReplacedStep DEF Program

LEMMA FileStutter == FileInv /\ UNCHANGED vars => FileInv'
  BY DEF FileInv, FileTypes, WithinFile, TerminalKept, OneLister, OpenerLists,
         ListingUndisturbed, FileInode, vars

LEMMA FileAlways == Spec => []FileInv
  BY FileInit, FileStep, FileStutter, PTL DEF Spec

\* A descriptor is at a position within its file and every read returned
\* bytes of it, whatever programs open, read and close in whatever sizes
\* (file_sys_driver.c:83-130, system_call.c:286-317).
THEOREM FileSystemTypes == Spec => []TypeOK
  <1>1. FileInv => TypeOK
    BY DEF FileInv, FileTypes, WithinFile, TypeOK, Descriptor, Ops, FileInode
  <1> QED
    BY <1>1, FileAlways, PTL

\* Whatever others open, close or leave open, a program that alone has the
\* directory open finds dir_idx where its last dir_read left it
\* (file_sys_driver.c:238-303).
THEOREM ListingsUndisturbed == Spec => []ListingUndisturbed
  <1>1. FileInv => ListingUndisturbed
    BY DEF FileInv
  <1> QED
    BY <1>1, FileAlways, PTL

\* sys_open never hands out a descriptor in use (system_call.c:340-375).
THEOREM DescriptorsKept == Spec => DescriptorKept
  <1>1. FileInv /\ [Next]_vars => [Kept]_vars
    BY FileStep
  <1>2. [Kept]_vars =>
          [\A p \in Procs, fd \in Fd :
              LET f == fd_array[p][fd]
                  g == fd_array'[p][fd]
              IN  f.op # "none" /\ g.op # "none" =>
                      /\ g.op = f.op /\ g.inode_idx = f.inode_idx
                      /\ g.file_pos >= f.file_pos]_vars
    BY DEF Kept
  <1> QED
    BY <1>1, <1>2, FileAlways, PTL DEF Spec, DescriptorKept

\* What a program has read from a file since it opened it is the file from its
\* beginning, whatever the sizes it asked for, the order of the file's blocks
\* and the places where reads begin and end in them (file_sys_driver.c:83-130,
\* :170-215).
THEOREM FilesReadFromStart == Spec => []ReadsFromStart
  <1>1. FileInv /\ ReadSoFar => ReadsFromStart
    <2> SUFFICES ASSUME FileInv, ReadSoFar, NEW p \in Procs, NEW fd \in Fd,
                        fd_array[p][fd].op = "file"
                 PROVE  got[p][fd] = SubSeq(Contents(fd_array[p][fd].inode_idx), 1,
                                            fd_array[p][fd].file_pos)
      BY DEF ReadsFromStart
    <2> DEFINE f == fd_array[p][fd]
    <2>1. FileInode(f.inode_idx) /\ f.file_pos <= inode[f.inode_idx].length
      BY DEF FileInv, WithinFile
    <2>2. f.file_pos \in Nat /\ inode[f.inode_idx].length \in Nat
      BY <2>1 DEF FileInv, FileTypes, Descriptor, FileInode
    <2>3. got[p][fd] = FileUpTo(f.inode_idx, f.file_pos)
      BY DEF ReadSoFar
    <2> HIDE DEF f
    <2>4. f.file_pos \in 0 .. inode[f.inode_idx].length
      BY <2>1, <2>2
    <2>5. SubSeq(Contents(f.inode_idx), 1, f.file_pos) = FileUpTo(f.inode_idx, f.file_pos)
      BY <2>1, <2>4, ContentsIs
    <2> QED
      BY <2>3, <2>5 DEF f
  <1>2. FileInv /\ ReadSoFar /\ [Next]_vars => ReadSoFar'
    <2>1. UNCHANGED vars /\ ReadSoFar => ReadSoFar'
      BY DEF vars, ReadSoFar
    <2> QED
      BY <2>1, ReadSoFarStep DEF Next
  <1> QED
    BY <1>1, <1>2, ReadSoFarInit, FileAlways, PTL DEF Spec
=============================================================================
