------------------------------ MODULE PureCalls ------------------------------
(***************************************************************************)
(* Calls of the kernel's pure functions, each with what it should return:  *)
(* copies in memory (lib.c), numbers that printf prints (lib.c), lines     *)
(* that the shell hands to sys_exeute (system_call.c), and scan codes of   *)
(* modifier keys (keyboard.c).  A call is made with any of its inputs and  *)
(* returns.                                                                *)
(***************************************************************************)
EXTENDS Command, Keys

CONSTANTS
    MEMORY,    \* bytes of memory
    LINE_MAX,  \* bytes of a line
    Letter,    \* characters of a line that are not spaces
    Stacks,    \* what four bytes of the kernel's stack may hold
    CODES_MAX  \* scan codes in a row

ASSUME CallsAssumption ==
    MEMORY \in Nat /\ LINE_MAX \in Nat /\ CODES_MAX \in Nat

\* An image of the file system has every name once, each fits in its entry, and
\* all inodes in the directory list as many blocks as their lengths need.  A
\* line fits in a PCB's argument.  The byte of the stack that stands for the
\* fourth of a shorter file is not that of an executable.
ASSUME ImageAssumption ==
    /\ dentry_addr \in Seq([filename : Seq(Letter),
                            filetype : {RTC_TYPE, DIR_TYPE, FILE_TYPE},
                            inode_num : DOMAIN inode])
    /\ \A i \in DOMAIN dentry_addr :
          LET d == dentry_addr[i] IN
          /\ Len(d.filename) <= NAME_LEN
          /\ \A j \in DOMAIN dentry_addr : dentry_addr[j].filename = d.filename => i = j
          /\ inode[d.inode_num].length \in Nat
          /\ inode[d.inode_num].data_block_num \in Seq(DOMAIN data_block)
          /\ inode[d.inode_num].length <=
                 BLOCK_SIZE * Len(inode[d.inode_num].data_block_num)
    /\ Letter \cap {SPACE, NUL, "control"} = {}
    /\ LINE_MAX < ARG_BUF_SIZE
    /\ ELF \in Seq(Byte)
    /\ \A stack \in Stacks : stack[4] # ELF[4]

VARIABLE call

NoCall == [of |-> "none"]

\* Copies that stay in memory.
Copies ==
    {c \in [of : {"copy"}, dest : 0 .. MEMORY - 1, src : 0 .. MEMORY - 1, n : 0 .. MEMORY] :
        c.dest + c.n <= MEMORY /\ c.src + c.n <= MEMORY}

Prints == [of : {"print"}, v : 0 .. WORD - 1]

CommandLines ==
    [of : {"line"}, line : BoundedSeq(Letter \cup {SPACE}, LINE_MAX), stack : Stacks]

\* A key is down when it was pressed and not released since.
Down(codes, k) ==
    \E i \in DOMAIN codes :
        codes[i] = k /\ \A j \in i + 1 .. Len(codes) : codes[j] # Released(k)

\* A keyboard sends releases of keys that are down, and presses of keys that
\* are not; this user never holds both shift keys.
FromKeyboard(codes) ==
    \A i \in DOMAIN codes :
        LET before == SubSeq(codes, 1, i - 1) IN
        /\ codes[i] < RELEASE_CHECK => ~Down(before, codes[i])
        /\ codes[i] >= RELEASE_CHECK => Down(before, codes[i] - RELEASE_CHECK)
        /\ ~(Down(before, L_SHIFT) /\ Down(before, R_SHIFT))

ModifierCodes == LET keys == {L_SHIFT, R_SHIFT, CAPSLOCK, L_CTRL}
                 IN  keys \cup {Released(k) : k \in keys}

Codes == [of : {"keys"}, codes : {codes \in BoundedSeq(ModifierCodes, CODES_MAX) :
                                     FromKeyboard(codes)}]

KernelCalls == Copies \cup Prints \cup CommandLines \cup Codes

CallsInit == call \in KernelCalls \cup {NoCall}

CallReturns == call \in KernelCalls /\ call' = NoCall

CallsSpec == CallsInit /\ [][CallReturns]_call

-----------------------------------------------------------------------------
\* memcpy, memmove and memset leave memory as if every byte were read before
\* any is written, whatever the alignment of the destination; memmove also
\* where the regions overlap (lib.c:311-464).
MemoryCopied ==
    call.of = "copy" =>
        LET mem == [a \in 0 .. MEMORY - 1 |-> a]
            In(a) == a \in call.dest .. call.dest + call.n - 1
            copied == [a \in DOMAIN mem |-> IF In(a) THEN a - call.dest + call.src ELSE a]
            apart == call.dest <= call.src \/ call.src + call.n <= call.dest
        IN  /\ memmove(mem, call.dest, call.src, call.n) = copied
            /\ apart => memcpy(mem, call.dest, call.src, call.n) = copied
            /\ memset(mem, call.dest, -1, call.n) =
                   [a \in DOMAIN mem |-> IF In(a) THEN -1 ELSE a]

\* The number that digits write.
Value(digits, radix) ==
    LET DigitOf(c) == (CHOOSE i \in DOMAIN lookup : lookup[i] = c) - 1
        step(v, c) == v * radix + DigitOf(c)
    IN  FoldLeft(step, 0, digits)

\* printf prints numbers that read back as the argument, signed or not, with
\* no digit too many, and %#x with exactly eight digits (lib.c:84-298).
NumbersPrinted ==
    call.of = "print" =>
        LET v == call.v
            out(c) == printf(<<"%", c>>, <<v>>)
            sharp == printf(<<"<", "%", "#", "x", "%", "%">>, <<v>>)
            Shortest(digits) == Len(digits) > 1 => Head(digits) # "0"
            signed == out("d")
        IN  /\ Value(out("u"), 10) = v /\ Shortest(out("u"))
            /\ Value(out("x"), 16) = v /\ Shortest(out("x"))
            /\ IF v < WORD \div 2 THEN signed = out("u")
               ELSE /\ Head(signed) = "-" /\ Shortest(Tail(signed))
                    /\ Value(Tail(signed), 10) = WORD - v
            /\ Len(sharp) = 10 /\ Value(SubSeq(sharp, 2, 9), 16) = v

\* What a user means by a line: words separated by spaces, the first of which
\* names a program, and the rest its argument.
Words(line) ==
    LET letters == {i \in DOMAIN line : line[i] # SPACE}
        first == Min(letters)
        gaps == {i \in first .. Len(line) : line[i] = SPACE}
        gap == IF gaps = {} THEN Len(line) + 1 ELSE Min(gaps)
        rest == {i \in letters : i > gap}
    IN  IF letters = {} THEN [name |-> <<>>, rest |-> <<>>]
        ELSE [name |-> SubSeq(line, first, gap - 1),
              rest |-> IF rest = {} THEN <<>> ELSE SubSeq(line, Min(rest), Len(line))]

IsProgram(i) == IsPrefix(ELF, Contents(dentry_addr[i].inode_num))

\* A line entered at the shell starts the program it names, whole, exactly if
\* the directory has an executable of that name, whatever the kernel's stack
\* holds (but the bytes of an executable); the program is given the rest of the
\* line, or no argument, and nothing behind the argument in its PCB is written
\* (system_call.c:61-130, :237-246, file_sys_driver.c:56-271).
CommandsUnderstood ==
    call.of = "line" =>
        LET meant == Words(call.line)
            programs == {i \in DOMAIN dentry_addr :
                            dentry_addr[i].filename = meant.name /\ IsProgram(i)}
            done == sys_exeute(ShellCommand(Append(call.line, NL)), call.stack, "terminal")
            argument == meant.rest \o <<NUL>>
        IN  /\ done.starts <=> programs # {}
            /\ \A i \in programs : done.image = {Contents(dentry_addr[i].inode_num)}
            /\ done.pcb[ARG_BUF_SIZE + 1] = "terminal"
            /\ \A nbytes \in 0 .. LINE_MAX + 1 :
                  LET buf == sys_getargs(done.pcb, nbytes) IN
                  IF meant.rest = <<>> \/ Len(argument) > nbytes THEN buf = <<>>
                  ELSE SubSeq(buf, 1, Len(argument)) = argument

\* However the modifiers were pressed and let go before, a key means what its
\* user expects: a letter is looked up in the shifted half of key_array when
\* caps lock was pressed an odd number of times or a shift key is down, but not
\* both, another key when a shift key is down; with ctrl down, and only then, L
\* clears the screen and C halts; letting C go does nothing (keyboard.c:101-270).
\* What the two halves of key_array hold is data, and no part of this.
KeysMean ==
    call.of = "keys" =>
        LET m == Modifiers(call.codes)
            shifted == Down(call.codes, L_SHIFT) \/ Down(call.codes, R_SHIFT)
            locked == Quantify(DOMAIN call.codes, LAMBDA i : call.codes[i] = CAPSLOCK) % 2 = 1
            Bit(b) == IF b THEN 1 ELSE 0
            ctrl == Down(call.codes, L_CTRL)
        IN  /\ Meaning(m, \h02) = <<"char", Bit(shifted), \h02>>
            /\ Meaning(m, \h10) = <<"char", Bit(shifted # locked), \h10>>
            /\ Meaning(m, KEY_L) = IF ctrl THEN <<"clear">>
                                   ELSE <<"char", Bit(shifted # locked), KEY_L>>
            /\ Meaning(m, KEY_C) = IF ctrl THEN <<"halt">>
                                   ELSE <<"char", Bit(shifted # locked), KEY_C>>
            /\ Meaning(m, Released(KEY_C)) = <<"nothing">>
=============================================================================
