------------------------------- MODULE Library -------------------------------
(***************************************************************************)
(* The C library of the kernel (lib.c) as pure operators: copying and      *)
(* filling memory, comparing and copying strings, numbers and printf.      *)
(*                                                                         *)
(* A memory is a function from addresses to bytes.  A string is a sequence *)
(* that may go on behind its first NUL, as the bytes of an array do.       *)
(***************************************************************************)
EXTENDS Integers, Sequences, SequencesExt

CONSTANTS
    NUL, SPACE, NL,
    WORD  \* how many values a word has (2^32)

\* A word has at most 32 bits.
ASSUME LibraryAssumption ==
    /\ WORD \in Nat \ {0, 1} /\ (WORD - 1) \div 65536 < 65536
    /\ SPACE # NUL /\ NL \notin {NUL, SPACE}

Smaller(m, n) == IF m < n THEN m ELSE n

-----------------------------------------------------------------------------
(***************************************************************************)
(* Slips one could make in the operators below.                            *)
(***************************************************************************)
LeftoverLost(dest, n)     == 0                           \* for Leftover
UpperHalfPlain(v)         == v                           \* for Magnitude

-----------------------------------------------------------------------------
(***************************************************************************)
(* Memory.  memset and memcpy go byte by byte until the destination is     *)
(* aligned, then by four bytes, then byte by byte again.                   *)
(***************************************************************************)
Aligning(dest, n) == Smaller(n, (4 - (dest % 4)) % 4)
Leftover(dest, n) == (n - Aligning(dest, n)) % 4

\* The steps of a copy to dest: offsets and widths.
Units(dest, n) ==
    LET head == Aligning(dest, n)
        words == (n - head) \div 4
    IN  [i \in 1 .. head |-> [at |-> i - 1, width |-> 1]]
        \o [i \in 1 .. words |-> [at |-> head + 4 * (i - 1), width |-> 4]]
        \o [i \in 1 .. Leftover(dest, n) |-> [at |-> head + 4 * words + i - 1, width |-> 1]]

\* One load and one store.
Move(mem, dest, src, width) ==
    [a \in DOMAIN mem |-> IF a \in dest .. dest + width - 1
                          THEN mem[src + (a - dest)] ELSE mem[a]]

memcpy(mem, dest, src, n) ==
    LET step(m, u) == Move(m, dest + u.at, src + u.at, u.width)
    IN  FoldLeft(step, mem, Units(dest, n))

memset(mem, s, c, n) ==
    LET step(m, u) == [a \in DOMAIN m |->
                          IF a - s \in u.at .. u.at + u.width - 1 THEN c ELSE m[a]]
    IN  FoldLeft(step, mem, Units(s, n))

\* From the last byte to the first when the destination lies behind the source.
memmove(mem, dest, src, n) ==
    LET upwards == [i \in 1 .. n |-> i - 1]
        step(m, at) == Move(m, dest + at, src + at, 1)
    IN  FoldLeft(step, mem, IF src >= dest THEN upwards ELSE Reverse(upwards))

-----------------------------------------------------------------------------
(***************************************************************************)
(* Strings.                                                                *)
(***************************************************************************)
strlen(s) ==
    LET stops == {i \in DOMAIN s : s[i] = NUL}
    IN  IF stops = {} THEN Len(s) ELSE Min(stops) - 1

\* strncmp(s1, s2, n) = 0: within n bytes there is no difference before the
\* first NUL.
SameString(s1, s2, n) ==
    \A i \in 1 .. n :
        (\A j \in 1 .. i - 1 : s1[j] = s2[j] /\ s1[j] # NUL) => s1[i] = s2[i]

\* dest after strncpy(dest, src, n): exactly n bytes are stored, NULs behind
\* the end of src.
strncpy(dest, src, n) ==
    [i \in DOMAIN dest |-> IF i > n THEN dest[i]
                           ELSE IF i <= strlen(src) THEN src[i] ELSE NUL]

strrev(s) == Reverse(s)

-----------------------------------------------------------------------------
(***************************************************************************)
(* Numbers.                                                                *)
(***************************************************************************)
lookup == <<"0", "1", "2", "3", "4", "5", "6", "7", "8", "9",
            "A", "B", "C", "D", "E", "F">>

itoa(value, radix) ==
    LET backwards[v \in Nat] ==
            IF v = 0 THEN <<>>
            ELSE <<lookup[(v % radix) + 1]>> \o backwards[v \div radix]
    IN  IF value = 0 THEN <<"0">> ELSE strrev(backwards[value])

\* A word is negative when its highest bit is set; -value is a word again.
Negative(v) == v >= WORD \div 2
Magnitude(v) == (WORD - v) % WORD

\* What %c with flag alternate puts for the argument v.  %#x writes the digits
\* at position 8 of a buffer, zeros from the number of digits to position 7,
\* and puts what begins where the zeros do.
Conversion(c, alternate, v) ==
    LET hex == itoa(v, 16) IN
    CASE c = "x" /\ alternate -> [i \in 1 .. 8 - Len(hex) |-> "0"] \o hex
      [] c = "x" /\ ~alternate -> hex
      [] c = "u" -> itoa(v, 10)
      [] c = "d" -> IF Negative(v) THEN <<"-">> \o itoa(Magnitude(v), 10)
                    ELSE itoa(v, 10)
      [] c = "c" -> <<v>>
      [] c = "s" -> SubSeq(v, 1, strlen(v))

\* printf reads its format character by character: spec is set behind a "%".
printf(format, args) ==
    LET step(st, c) ==
            IF ~st.spec THEN
                IF c = "%" THEN [st EXCEPT !.spec = TRUE, !.alternate = FALSE]
                ELSE [st EXCEPT !.out = Append(@, c)]
            ELSE CASE c = "#" -> [st EXCEPT !.alternate = TRUE]
                   [] c = "%" -> [st EXCEPT !.spec = FALSE, !.out = Append(@, c)]
                   [] c \in {"x", "u", "d", "c", "s"} ->
                        [out |-> st.out \o Conversion(c, st.alternate, args[st.next]),
                         next |-> st.next + 1, spec |-> FALSE, alternate |-> FALSE]
                   [] OTHER -> [st EXCEPT !.spec = FALSE]
    IN  FoldLeft(step, [out |-> <<>>, next |-> 1, spec |-> FALSE,
                        alternate |-> FALSE], format).out
=============================================================================
