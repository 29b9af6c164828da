------------------------------ MODULE LineProofs ------------------------------
(***************************************************************************)
(* Three arguments about lines, for any number of terminals and any length *)
(* of a row: terminal_read waits for Enter, whatever keys are pressed at   *)
(* any moment of it; a line that is typed at the prompt has no gaps, is    *)
(* whole when the program copies it, and stays on its terminal; and every  *)
(* step of the line buffers is then a step of the abstract editor of       *)
(* LineEditor, or none.  That entered lines are taken at last is a         *)
(* liveness property, and stays with model checking.                       *)
(***************************************************************************)
EXTENDS LineRefinement, SequenceTheorems, WellFoundedInduction, TLAPS

\* What of the types the argument needs.
StatusTypes ==
    /\ buf_status \in [Ter -> {0, 1}]
    /\ cur_ter \in Ter
    /\ pc \in [Ter -> Place]
    /\ entered \in [Ter -> BOOLEAN]

\* A program in the loop sees the line closed only if Enter closed it since
\* the program called: the status that it found or set itself was 1.
ClosedByEnter ==
    \A t \in Ter : pc[t] = "wait" /\ buf_status[t] = 0 => entered[t]

ReadInv == StatusTypes /\ ClosedByEnter /\ ReadNeedsEnter

-----------------------------------------------------------------------------
\* Before the first key nobody reads.
LEMMA ReadInit == Init => ReadInv
  <1>1. 0 \in Ter
    BY LineAssumption DEF Ter
  <1> QED
    BY <1>1 DEF Init, ReadInv, StatusTypes, ClosedByEnter, ReadNeedsEnter, Place

\* A key opens a line, or leaves every status as it was, or is Enter; none
\* moves a program.
LEMMA KeyStep ==
    ASSUME ReadInv, UNCHANGED pc,
           \/ /\ buf_status' \in {buf_status, [buf_status EXCEPT ![cur_ter] = 1]}
              /\ cur_ter' \in Ter /\ UNCHANGED entered
           \/ KeyEnter
    PROVE  ReadInv'
  <1> USE DEF ReadInv, StatusTypes, ClosedByEnter, ReadNeedsEnter, Place
  <1>1. CASE KeyEnter
    BY <1>1 DEF KeyEnter
  <1>2. CASE /\ buf_status' \in {buf_status, [buf_status EXCEPT ![cur_ter] = 1]}
             /\ cur_ter' \in Ter /\ UNCHANGED entered
    BY <1>2
  <1> QED
    BY <1>1, <1>2

LEMMA KeysStep ==
    ASSUME ReadInv, PlainKey \/ OtherKey \/ \E t \in Ter : KeyTerminal(t)
    PROVE  ReadInv'
  <1> USE DEF readVars, keyVars
  <1>1. ASSUME NEW c, KeyChar(c) PROVE ReadInv'
    BY <1>1, KeyStep DEF KeyChar, ReadInv, StatusTypes
  <1>2. CASE KeyTab
    BY <1>2, KeyStep DEF KeyTab, ReadInv, StatusTypes
  <1>3. CASE KeyEnter
    BY <1>3, KeyStep DEF KeyEnter
  <1>4. CASE KeyBackspace
    BY <1>4, KeyStep DEF KeyBackspace, ReadInv, StatusTypes
  <1>5. CASE KeyLeft
    BY <1>5, KeyStep DEF KeyLeft, ReadInv, StatusTypes
  <1>6. CASE KeyRight
    BY <1>6, KeyStep DEF KeyRight, ReadInv, StatusTypes
  <1>7. ASSUME NEW t \in Ter, KeyTerminal(t) PROVE ReadInv'
    BY <1>7, KeyStep DEF KeyTerminal, ReadInv, StatusTypes
  <1> QED
    BY <1>1, <1>2, <1>3, <1>4, <1>5, <1>6, <1>7 DEF PlainKey, OtherKey

\* One step of terminal_read.
LEMMA ReadingStep ==
    ASSUME ReadInv, NEW t \in Ter, Reading(t)
    PROVE  ReadInv'
  <1> USE DEF ReadInv, StatusTypes, ClosedByEnter, ReadNeedsEnter, Place, GoTo,
              keyVars
  <1>1. CASE ReadCall(t)
    BY <1>1 DEF ReadCall
  <1>2. CASE ReadReset(t)
    BY <1>2 DEF ReadReset
  <1>3. CASE ReadWipe(t)
    BY <1>3 DEF ReadWipe
  <1>4. CASE ReadMark(t)
    BY <1>4 DEF ReadMark, Marked
  <1>5. CASE ReadLeave(t)
    BY <1>5 DEF ReadLeave, LineReady
  <1>6. CASE ReadCopy(t)
    BY <1>6 DEF ReadCopy
  <1>7. CASE Halted(t)
    BY <1>7 DEF Halted
  <1> QED
    BY <1>1, <1>2, <1>3, <1>4, <1>5, <1>6, <1>7 DEF Reading

LEMMA ReadStep == ReadInv /\ [Next]_vars => ReadInv'
  <1> SUFFICES ASSUME ReadInv, [Next]_vars PROVE ReadInv'
    OBVIOUS
  <1>1. CASE Next
    BY <1>1, KeysStep, ReadingStep, LineAssumption DEF Next
  <1>2. CASE UNCHANGED vars
    BY <1>2 DEF ReadInv, StatusTypes, ClosedByEnter, ReadNeedsEnter, vars,
                keyVars, readVars
  <1> QED
    BY <1>1, <1>2

\* Whatever keys are pressed at whatever moment, terminal_read is past its
\* loop only if Enter was pressed since it was called (terminal_driver.c:
\* 189-227).
THEOREM ReadWaitsForEnter == Spec => []ReadNeedsEnter
  <1>1. Spec => []ReadInv
    BY ReadInit, ReadStep, PTL DEF Spec
  <1>2. ReadInv => ReadNeedsEnter
    BY DEF ReadInv
  <1> QED
    BY <1>1, <1>2, PTL

-----------------------------------------------------------------------------
(***************************************************************************)
(* Lines typed at the prompt.                                              *)
(***************************************************************************)
Row == [Pos -> Byte]

\* A row of n characters and then free bytes; the last byte is free.
Line(row, n) ==
    /\ n \in 0 .. KEYBOARD_BUFFER_SIZE - 1
    /\ \A i \in Pos : IF i < n THEN row[i] \notin {NL, NUL} ELSE row[i] = NUL

\* A row of n characters and a newline.
Entered(row, n) ==
    /\ n \in Pos
    /\ \A i \in Pos : IF i < n THEN row[i] \notin {NL, NUL}
                      ELSE row[i] = IF i = n THEN NL ELSE NUL

\* A character inserted into a line makes it longer by one.
LEMMA InsertedLine ==
    ASSUME NEW row \in Row, NEW n, Line(row, n), n <= KEYBOARD_BUFFER_SIZE - 2,
           NEW p \in 0 .. n, NEW c \in Byte \ {NL, NUL}
    PROVE  Inserted(row, p, c) \in Row /\ Line(Inserted(row, p, c), n + 1)
  <1> DEFINE new == Inserted(row, p, c)
  <1>1. KEYBOARD_BUFFER_SIZE \in Nat /\ n \in Nat /\ p \in Nat
    BY LineAssumption DEF Line
  <1>2. new \in Row
    BY <1>1 DEF Inserted, Row, Pos
  <1>3. ASSUME NEW i \in Pos
        PROVE  IF i < n + 1 THEN new[i] \notin {NL, NUL} ELSE new[i] = NUL
    <2>1. CASE i <= p
      BY <1>1, <1>3, <2>1 DEF Inserted, Line, Pos
    <2>2. CASE i > p /\ i <= n
      <3>1. \A j \in p .. i - 1 : row[j] # NUL
        BY <1>1, <1>3, <2>2 DEF Line, Pos
      <3> QED
        BY <1>1, <1>3, <2>2, <3>1 DEF Inserted, Line, Pos
    <2>3. CASE i > n
      <3>1. n \in p .. i - 1 /\ n \in Pos /\ row[n] = NUL
        BY <1>1, <1>3, <2>3 DEF Line, Pos
      <3>2. new[i] = row[i]
        BY <1>1, <1>3, <2>3, <3>1 DEF Inserted, Pos
      <3> QED
        BY <1>1, <1>3, <2>3, <3>2 DEF Line, Pos
    <2> QED
      BY <1>1, <1>3, <2>1, <2>2, <2>3 DEF Pos
  <1> QED
    BY <1>1, <1>2, <1>3 DEF Line

\* A character deleted from a line makes it shorter by one.
LEMMA DeletedLine ==
    ASSUME NEW row \in Row, NEW n, Line(row, n), NEW p \in 0 .. n - 1
    PROVE  Deleted(row, p) \in Row /\ Line(Deleted(row, p), n - 1)
  <1> DEFINE new == Deleted(row, p)
  <1>1. KEYBOARD_BUFFER_SIZE \in Nat /\ n \in Nat /\ p \in Nat
    BY LineAssumption DEF Line
  <1>2. new \in Row
    BY <1>1 DEF Deleted, Row, Pos
  <1>3. ASSUME NEW i \in Pos
        PROVE  IF i < n - 1 THEN new[i] \notin {NL, NUL} ELSE new[i] = NUL
    <2>1. CASE i < p
      BY <1>1, <1>3, <2>1 DEF Deleted, Line, Pos
    <2>2. CASE p <= i /\ i < n
      <3>1. \A j \in p + 1 .. i : row[j] # NUL
        BY <1>1, <1>3, <2>2 DEF Line, Pos
      <3>2. i < KEYBOARD_BUFFER_SIZE - 1
        BY <1>1, <2>2 DEF Line, Pos
      <3>3. new[i] = row[i + 1]
        BY <1>1, <1>3, <2>2, <3>1, <3>2 DEF Deleted
      <3> QED
        BY <1>1, <1>3, <2>2, <3>2, <3>3 DEF Line, Pos
    <2>3. CASE i >= n
      <3>1. n \in p + 1 .. i /\ n \in Pos /\ row[n] = NUL
        BY <1>1, <1>3, <2>3 DEF Line, Pos
      <3>2. new[i] = row[i]
        BY <1>1, <1>3, <2>3, <3>1 DEF Deleted
      <3> QED
        BY <1>1, <1>3, <2>3, <3>2 DEF Line, Pos
    <2> QED
      BY <1>1, <1>3, <2>1, <2>2, <2>3 DEF Pos
  <1> QED
    BY <1>1, <1>2, <1>3 DEF Line

\* Enter finds the first free byte behind the characters.
LEMMA EnteredLine ==
    ASSUME NEW row \in Row, NEW n, Line(row, n)
    PROVE  WithNewline(row) \in Row /\ Entered(WithNewline(row), n)
  <1> DEFINE new == WithNewline(row)
  <1>1. KEYBOARD_BUFFER_SIZE \in Nat /\ n \in Nat /\ n \in Pos
    BY LineAssumption DEF Line, Pos
  <1>2. new \in Row
    BY <1>1 DEF WithNewline, Row, Pos, Byte
  <1>3. ASSUME NEW i \in Pos
        PROVE  IF i < n THEN new[i] \notin {NL, NUL}
               ELSE new[i] = IF i = n THEN NL ELSE NUL
    <2>1. CASE i < n
      BY <1>1, <1>3, <2>1 DEF WithNewline, Line
    <2>2. CASE i = n
      <3>1. row[i] = NUL /\ \A j \in 0 .. i - 1 : row[j] # NUL
        BY <1>1, <1>3, <2>2 DEF Line, Pos
      <3> QED
        BY <1>1, <1>3, <2>2, <3>1 DEF WithNewline
    <2>3. CASE i > n
      <3>1. n \in 0 .. i - 1 /\ row[n] = NUL /\ row[i] = NUL
        BY <1>1, <1>3, <2>3 DEF Line, Pos
      <3> QED
        BY <1>1, <1>3, <2>3, <3>1 DEF WithNewline
    <2> QED
      BY <1>1, <1>3, <2>1, <2>2, <2>3 DEF Pos
  <1> QED
    BY <1>1, <1>2, <1>3 DEF Entered

-----------------------------------------------------------------------------
\* add_at_cursor on an open line of terminal t: s is as in Added.
Open(s, t, n) ==
    /\ s.buf \in [Ter -> Row] /\ s.pos \in [Ter -> Nat]
    /\ Line(s.buf[t], n) /\ s.pos[t] \in 0 .. n

\* s and r differ on terminal t at most.
ElsewhereSame(s, r, t) ==
    \A u \in Ter \ {t} : s.buf[u] = r.buf[u] /\ s.pos[u] = r.pos[u]

LEMMA AddedLine ==
    ASSUME NEW s, NEW t \in Ter, NEW n, Open(s, t, n),
           n <= KEYBOARD_BUFFER_SIZE - 2, NEW c \in Byte \ {NL, NUL}
    PROVE  Open(Added(s, t, c), t, n + 1) /\ ElsewhereSame(Added(s, t, c), s, t)
  <1> DEFINE p == s.pos[t]
             new == Inserted(s.buf[t], p, c)
  <1>1. n \in Nat /\ p \in 0 .. n /\ p < KEYBOARD_BUFFER_SIZE /\ s.buf[t] \in Row
    BY LineAssumption DEF Open, Line
  <1>2. new \in Row /\ Line(new, n + 1)
    BY <1>1, InsertedLine DEF Open
  <1>3. /\ Added(s, t, c).buf = [s.buf EXCEPT ![t] = new]
        /\ Added(s, t, c).pos = [s.pos EXCEPT ![t] = p + 1]
    <2>1. p < KEYBOARD_BUFFER_SIZE
      BY <1>1
    <2>2. Added(s, t, c) = [buf |-> [s.buf EXCEPT ![t] = new],
                            pos |-> [s.pos EXCEPT ![t] = p + 1]]
      BY <2>1 DEF Added
    <2> QED
      BY <2>2
  <1> HIDE DEF new
  <1>4. Open(Added(s, t, c), t, n + 1)
    <2>1. Added(s, t, c).buf[t] = new /\ Added(s, t, c).pos[t] = p + 1
      BY <1>3 DEF Open
    <2>2. /\ Added(s, t, c).buf \in [Ter -> Row]
          /\ Added(s, t, c).pos \in [Ter -> Nat]
      BY <1>1, <1>2, <1>3 DEF Open
    <2>3. n + 1 \in Nat /\ p + 1 \in 0 .. n + 1
      BY <1>1
    <2> HIDE DEF p
    <2> QED
      BY <1>2, <2>1, <2>2, <2>3 DEF Open
  <1>5. ElsewhereSame(Added(s, t, c), s, t)
    BY <1>3 DEF Open, ElsewhereSame
  <1> QED
    BY <1>4, <1>5

\* Tab, where four spaces fit.
LEMMA TabLine ==
    ASSUME NEW s, NEW t \in Ter, NEW n, Open(s, t, n),
           n <= KEYBOARD_BUFFER_SIZE - 5
    PROVE  LET s4 == Added(Added(Added(Added(s, t, SPACE), t, SPACE), t, SPACE),
                           t, SPACE)
           IN  Open(s4, t, n + 4) /\ ElsewhereSame(s4, s, t)
  <1> DEFINE s1 == Added(s, t, SPACE)
             s2 == Added(s1, t, SPACE)
             s3 == Added(s2, t, SPACE)
             s4 == Added(s3, t, SPACE)
  <1>1. SPACE \in Byte \ {NL, NUL} /\ n \in Nat /\ KEYBOARD_BUFFER_SIZE \in Nat
    BY LineAssumption DEF Byte, Open, Line
  <1>2. Open(s1, t, n + 1) /\ ElsewhereSame(s1, s, t)
    BY <1>1, AddedLine
  <1>3. Open(s2, t, n + 1 + 1) /\ ElsewhereSame(s2, s1, t)
    <2> HIDE DEF s1
    <2> QED  BY <1>1, <1>2, AddedLine
  <1>4. Open(s3, t, n + 1 + 1 + 1) /\ ElsewhereSame(s3, s2, t)
    <2> HIDE DEF s2
    <2> QED  BY <1>1, <1>3, AddedLine
  <1>5. Open(s4, t, n + 1 + 1 + 1 + 1) /\ ElsewhereSame(s4, s3, t)
    <2> HIDE DEF s3
    <2> QED  BY <1>1, <1>4, AddedLine
  <1>6. n + 1 + 1 + 1 + 1 = n + 4
    BY <1>1
  <1>7. ElsewhereSame(s4, s, t)
    <2> HIDE DEF s1, s2, s3, s4
    <2> QED  BY <1>2, <1>3, <1>4, <1>5 DEF ElsewhereSame
  <1> HIDE DEF s4
  <1> QED
    BY <1>5, <1>6, <1>7 DEF s4

-----------------------------------------------------------------------------
PromptTypes ==
    /\ StatusTypes
    /\ key_buffer \in [Ter -> Row]
    /\ buffer_pos \in [Ter -> Nat]
    /\ wiped \in [Ter -> Pos]

\* The row of terminal t, by where its program is in terminal_read.  While
\* terminal_read clears a row, no key touches it.
Fits(t) ==
    /\ buf_status[t] = 1 =>
           \E n \in 0 .. KEYBOARD_BUFFER_SIZE - 1 :
               Line(key_buffer[t], n) /\ buffer_pos[t] \in 0 .. n
    /\ pc[t] \in {"reset", "wipe", "mark", "copy"} => buf_status[t] = 0
    /\ pc[t] \in {"wipe", "mark"} => buffer_pos[t] = 0
    /\ pc[t] # "wipe" => wiped[t] = 0
    /\ pc[t] = "wipe" => \A i \in Pos : i < wiped[t] => key_buffer[t][i] = NUL
    /\ pc[t] = "mark" => \A i \in Pos : key_buffer[t][i] = NUL
    /\ pc[t] \in {"wait", "copy"} /\ buf_status[t] = 0 =>
           \E n \in Pos : Entered(key_buffer[t], n)

PromptInv == PromptTypes /\ \A t \in Ter : Fits(t)

LEMMA PromptInit == Init => PromptInv
  <1>1. 0 \in Ter /\ 0 \in Pos /\ EmptyRow \in Row
    BY LineAssumption DEF Ter, Pos, EmptyRow, Row, Byte
  <1> QED
    BY <1>1 DEF Init, PromptInv, PromptTypes, StatusTypes, Fits, Place

\* Nothing of terminal u changes.
Same(u) ==
    /\ key_buffer'[u] = key_buffer[u] /\ buffer_pos'[u] = buffer_pos[u]
    /\ buf_status'[u] = buf_status[u]

LEMMA SameFits ==
    ASSUME NEW u \in Ter, Fits(u), Same(u), pc'[u] = pc[u], wiped'[u] = wiped[u]
    PROVE  Fits(u)'
  BY DEF Fits, Same, Line, Entered

\* A key that leaves a line a line.
LEMMA LineKey ==
    ASSUME PromptInv, Prompted,
           UNCHANGED <<pc, wiped, cur_ter, entered, buf_status>>,
           key_buffer' \in [Ter -> Row], buffer_pos' \in [Ter -> Nat],
           NEW n, Line(key_buffer'[cur_ter], n), buffer_pos'[cur_ter] \in 0 .. n,
           \A u \in Ter \ {cur_ter} : Same(u)
    PROVE  PromptInv'
  <1>1. PromptTypes'
    BY DEF PromptInv, PromptTypes, StatusTypes
  <1>2. Fits(cur_ter)'
    BY DEF Fits, Prompted, PromptInv, PromptTypes, StatusTypes, Line
  <1>3. ASSUME NEW u \in Ter \ {cur_ter} PROVE Fits(u)'
    BY <1>3, SameFits DEF PromptInv
  <1> QED
    BY <1>1, <1>2, <1>3 DEF PromptInv

\* The line a program waits for.
LEMMA PromptedLine ==
    ASSUME PromptInv, Prompted
    PROVE  \E n \in 0 .. KEYBOARD_BUFFER_SIZE - 1 :
               Open(Opened(cur_ter), cur_ter, n)
  BY DEF PromptInv, PromptTypes, StatusTypes, Prompted, Fits, Open, Opened

\* One step of a key at the prompt: also, the other terminals keep their lines.
OthersSame == \A u \in Ter \ {cur_ter} : Same(u)

LEMMA PromptKeyChar ==
    ASSUME PromptInv, Prompted, NEW c \in Char, KeyChar(c)
    PROVE  PromptInv' /\ OthersSame
  <1> DEFINE s == Opened(cur_ter)
  <1>1. PICK n \in 0 .. KEYBOARD_BUFFER_SIZE - 1 : Open(s, cur_ter, n)
    BY PromptedLine
  <1>2. cur_ter \in Ter /\ s = [buf |-> key_buffer, pos |-> buffer_pos]
    BY DEF PromptInv, PromptTypes, StatusTypes, Prompted, Opened
  <1>3. n <= KEYBOARD_BUFFER_SIZE - 2
    BY <1>1, <1>2, LineAssumption DEF KeyChar, Full, Open, Line, Pos
  <1>4. c \in Byte \ {NL, NUL}
    BY LineAssumption DEF Byte
  <1>5. /\ Open(Added(s, cur_ter, c), cur_ter, n + 1)
        /\ ElsewhereSame(Added(s, cur_ter, c), s, cur_ter)
    BY <1>1, <1>2, <1>3, <1>4, AddedLine
  <1>6. Buffers(Added(s, cur_ter, c))
    BY DEF KeyChar
  <1>7. UNCHANGED <<pc, wiped, cur_ter, entered, buf_status>>
    BY DEF KeyChar, readVars, Prompted, PromptInv, PromptTypes, StatusTypes
  <1> HIDE DEF s
  <1>8. OthersSame
    BY <1>2, <1>5, <1>6, <1>7 DEF OthersSame, Same, ElsewhereSame, Buffers
  <1> QED
    BY <1>5, <1>6, <1>7, <1>8, LineKey DEF OthersSame, Open, Buffers

LEMMA PromptKeyTab ==
    ASSUME PromptInv, Prompted, TabFits, KeyTab
    PROVE  PromptInv' /\ OthersSame
  <1> DEFINE s  == Opened(cur_ter)
             s4 == Added(Added(Added(Added(s, cur_ter, SPACE), cur_ter, SPACE),
                               cur_ter, SPACE), cur_ter, SPACE)
  <1>1. PICK n \in 0 .. KEYBOARD_BUFFER_SIZE - 1 : Open(s, cur_ter, n)
    BY PromptedLine
  <1>2. cur_ter \in Ter /\ s = [buf |-> key_buffer, pos |-> buffer_pos]
    BY DEF PromptInv, PromptTypes, StatusTypes, Prompted, Opened
  <1>3. n <= KEYBOARD_BUFFER_SIZE - 5
    BY <1>1, <1>2, LineAssumption DEF TabFits, Open, Line, Pos
  <1>4. Buffers(s4)
    BY DEF KeyTab
  <1>5. Open(s4, cur_ter, n + 4) /\ ElsewhereSame(s4, s, cur_ter)
    <2> HIDE DEF s
    <2> QED  BY <1>1, <1>2, <1>3, TabLine
  <1>6. UNCHANGED <<pc, wiped, cur_ter, entered, buf_status>>
    BY DEF KeyTab, readVars, Prompted, PromptInv, PromptTypes, StatusTypes
  <1> HIDE DEF s, s4
  <1>7. OthersSame
    BY <1>2, <1>4, <1>5, <1>6 DEF OthersSame, Same, ElsewhereSame, Buffers
  <1> QED
    BY <1>4, <1>5, <1>6, <1>7, LineKey DEF OthersSame, Open, Buffers

\* Enter closes the line and makes it whole.
LEMMA PromptKeyEnter ==
    ASSUME PromptInv, Prompted, KeyEnter
    PROVE  PromptInv' /\ OthersSame
  <1> DEFINE row == key_buffer[cur_ter]
  <1>1. cur_ter \in Ter /\ row \in Row /\ \E n : Line(row, n)
    BY DEF PromptInv, PromptTypes, StatusTypes, Prompted, Fits
  <1>2. PICK n : Entered(WithNewline(row), n) /\ WithNewline(row) \in Row
    BY <1>1, EnteredLine
  <1>3. key_buffer' = [key_buffer EXCEPT ![cur_ter] = WithNewline(row)]
    BY DEF KeyEnter
  <1> HIDE DEF row
  <1>4. OthersSame
    BY <1>1, <1>3 DEF OthersSame, Same, KeyEnter, PromptInv, PromptTypes,
                      StatusTypes
  <1>5. PromptTypes'
    BY <1>1, <1>2, <1>3 DEF KeyEnter, PromptInv, PromptTypes, StatusTypes, readVars
  <1>6. Fits(cur_ter)'
    <2>1. key_buffer'[cur_ter] = WithNewline(row) /\ n \in Pos
      BY <1>1, <1>2, <1>3 DEF PromptInv, PromptTypes, Entered
    <2> QED
      BY <1>1, <1>2, <2>1 DEF Fits, KeyEnter, Prompted, PromptInv, PromptTypes,
                              StatusTypes, readVars
  <1>7. ASSUME NEW u \in Ter \ {cur_ter} PROVE Fits(u)'
    BY <1>4, <1>7, SameFits DEF OthersSame, PromptInv, KeyEnter, readVars
  <1> QED
    BY <1>4, <1>5, <1>6, <1>7 DEF PromptInv, KeyEnter

LEMMA PromptKeyBackspace ==
    ASSUME PromptInv, Prompted, KeyBackspace
    PROVE  PromptInv' /\ OthersSame
  <1> DEFINE row == key_buffer[cur_ter]
             p == buffer_pos[cur_ter] - 1
             new == Deleted(row, p)
  <1>1. PICK n \in 0 .. KEYBOARD_BUFFER_SIZE - 1 :
            Line(row, n) /\ buffer_pos[cur_ter] \in 0 .. n
    BY DEF PromptInv, PromptTypes, StatusTypes, Prompted, Fits
  <1>2. cur_ter \in Ter /\ row \in Row /\ p \in 0 .. n - 1
    BY <1>1 DEF PromptInv, PromptTypes, StatusTypes, KeyBackspace
  <1>3. new \in Row /\ Line(new, n - 1)
    BY <1>1, <1>2, DeletedLine
  <1>4. /\ key_buffer' = [key_buffer EXCEPT ![cur_ter] = new]
        /\ buffer_pos' = [buffer_pos EXCEPT ![cur_ter] = p]
        /\ UNCHANGED <<pc, wiped, cur_ter, entered, buf_status>>
    BY DEF KeyBackspace, readVars
  <1> HIDE DEF new, p
  <1>5. OthersSame
    BY <1>2, <1>4 DEF OthersSame, Same, PromptInv, PromptTypes
  <1>6. /\ key_buffer' \in [Ter -> Row] /\ buffer_pos' \in [Ter -> Nat]
        /\ key_buffer'[cur_ter] = new /\ buffer_pos'[cur_ter] = p
    BY <1>2, <1>3, <1>4 DEF PromptInv, PromptTypes
  <1> QED
    BY <1>2, <1>3, <1>4, <1>5, <1>6, LineKey DEF OthersSame

\* The cursor moves within the line: to the right no further than its end.
LEMMA PromptKeyArrow ==
    ASSUME PromptInv, Prompted, KeyLeft \/ KeyRight
    PROVE  PromptInv' /\ OthersSame
  <1> DEFINE p == buffer_pos[cur_ter]
  <1>1. PICK n \in 0 .. KEYBOARD_BUFFER_SIZE - 1 :
            Line(key_buffer[cur_ter], n) /\ p \in 0 .. n
    BY DEF PromptInv, PromptTypes, StatusTypes, Prompted, Fits
  <1>2. cur_ter \in Ter /\ cur_ter \in Nat /\ KEYBOARD_BUFFER_SIZE \in Nat
    BY LineAssumption DEF PromptInv, PromptTypes, StatusTypes, Ter
  <1>3. /\ UNCHANGED <<key_buffer, pc, wiped, cur_ter, entered, buf_status>>
        /\ \E q \in 0 .. n : buffer_pos' = [buffer_pos EXCEPT ![cur_ter] = q]
    <2>1. CASE KeyLeft
      <3>1. p - 1 \in 0 .. n
        BY <1>1, <2>1 DEF KeyLeft
      <3>2. buffer_pos' = [buffer_pos EXCEPT ![cur_ter] = p - 1]
        BY <2>1 DEF KeyLeft
      <3>3. UNCHANGED <<key_buffer, pc, wiped, cur_ter, entered, buf_status>>
        BY <2>1 DEF KeyLeft, readVars
      <3> QED
        BY <3>1, <3>2, <3>3
    <2>2. CASE KeyRight
      <3>1. p < KEYBOARD_BUFFER_SIZE
        BY <1>1, <1>2
      <3>2. p \div KEYBOARD_BUFFER_SIZE = 0 /\ p % KEYBOARD_BUFFER_SIZE = p
        BY <1>1, <1>2, <3>1
      <3>3. key_buffer[cur_ter][p] # NUL
        BY <1>2, <2>2, <3>2 DEF KeyRight, InArray, RowOf, Cell
      <3>4. p < n
        BY <1>1, <1>2, <3>1, <3>3 DEF Line, Pos
      <3>5. p + 1 \in 0 .. n
        BY <1>1, <3>4
      <3>6. buffer_pos' = [buffer_pos EXCEPT ![cur_ter] = p + 1]
        BY <2>2 DEF KeyRight
      <3>7. UNCHANGED <<key_buffer, pc, wiped, cur_ter, entered, buf_status>>
        BY <2>2 DEF KeyRight, readVars
      <3> HIDE DEF p
      <3> QED
        BY <3>5, <3>6, <3>7
    <2> QED
      BY <2>1, <2>2
  <1>4. PICK q \in 0 .. n : buffer_pos' = [buffer_pos EXCEPT ![cur_ter] = q]
    BY <1>3
  <1>5. OthersSame
    BY <1>2, <1>3, <1>4 DEF OthersSame, Same, PromptInv, PromptTypes
  <1> QED
    BY <1>1, <1>2, <1>3, <1>4, <1>5, LineKey
    DEF OthersSame, PromptInv, PromptTypes

LEMMA PromptKeys ==
    ASSUME PromptInv, Prompted, PlainKey \/ (TabFits /\ KeyTab)
    PROVE  PromptInv' /\ OthersSame
  BY PromptKeyChar, PromptKeyTab, PromptKeyEnter, PromptKeyBackspace,
     PromptKeyArrow DEF PlainKey

-----------------------------------------------------------------------------
\* One step of terminal_read clears nothing but a row that is not edited.
LEMMA PromptReading ==
    ASSUME PromptInv, NEW t \in Ter, Reading(t)
    PROVE  PromptInv'
  <1> USE DEF GoTo, keyVars
  <1>0. KEYBOARD_BUFFER_SIZE \in Nat /\ KEYBOARD_BUFFER_SIZE >= 2 /\ NUL \in Byte
    BY LineAssumption DEF Byte
  <1>1. PromptTypes' /\ \A u \in Ter \ {t} : Fits(u)'
    <2> SUFFICES /\ PromptTypes'
                 /\ \A u \in Ter \ {t} : Same(u) /\ pc'[u] = pc[u]
                                         /\ wiped'[u] = wiped[u]
      BY SameFits DEF PromptInv
    <2> USE DEF PromptInv, PromptTypes, StatusTypes, Same, Place
    <2>1. CASE ReadCall(t)
      BY <2>1 DEF ReadCall
    <2>2. CASE ReadReset(t)
      BY <2>2 DEF ReadReset
    <2>3. CASE ReadWipe(t)
      <3>1. key_buffer' \in [Ter -> Row]
        BY <1>0, <2>3 DEF ReadWipe, Row
      <3>2. wiped' \in [Ter -> Pos]
        BY <1>0, <2>3 DEF ReadWipe, LastByte, Pos
      <3> QED
        BY <2>3, <3>1, <3>2 DEF ReadWipe
    <2>4. CASE ReadMark(t)
      BY <2>4 DEF ReadMark, Marked
    <2>5. CASE ReadLeave(t)
      BY <2>5 DEF ReadLeave
    <2>6. CASE ReadCopy(t)
      BY <2>6 DEF ReadCopy
    <2>7. CASE Halted(t)
      BY <1>0, <2>7 DEF Halted, Pos
    <2> QED
      BY <2>1, <2>2, <2>3, <2>4, <2>5, <2>6, <2>7 DEF Reading
  <1>2. Fits(t)'
    <2> USE DEF PromptInv, PromptTypes, StatusTypes, Fits
    <2>1. CASE ReadCall(t)
      BY <2>1 DEF ReadCall, Line
    <2>2. CASE ReadReset(t)
      BY <2>2 DEF ReadReset, Pos
    <2>3. CASE ReadWipe(t) /\ ~LastByte(t)
      BY <1>0, <2>3 DEF ReadWipe, LastByte, Row, Pos
    <2>4. CASE ReadWipe(t) /\ LastByte(t)
      BY <1>0, <2>4 DEF ReadWipe, LastByte, Row, Pos
    <2>5. CASE ReadMark(t)
      <3>1. Line(key_buffer'[t], 0) /\ buffer_pos'[t] \in 0 .. 0
        BY <1>0, <2>5 DEF ReadMark, Line, Pos
      <3> QED
        BY <1>0, <2>5, <3>1 DEF ReadMark, Marked
    <2>6. CASE ReadLeave(t)
      BY <2>6 DEF ReadLeave, LineReady
    <2>7. CASE ReadCopy(t)
      BY <2>7 DEF ReadCopy
    <2>8. CASE Halted(t)
      BY <2>8 DEF Halted, Line
    <2> QED
      BY <2>1, <2>2, <2>3, <2>4, <2>5, <2>6, <2>7, <2>8 DEF Reading
  <1> QED
    BY <1>1, <1>2 DEF PromptInv

LEMMA PromptTerminal ==
    ASSUME PromptInv, NEW t \in Ter, KeyTerminal(t)
    PROVE  PromptInv'
  <1>1. PromptTypes' /\ \A u \in Ter : Same(u)
    BY DEF KeyTerminal, PromptInv, PromptTypes, StatusTypes, keyVars, readVars, Same
  <1> QED
    BY <1>1, SameFits DEF PromptInv, KeyTerminal, readVars

LEMMA PromptStep == PromptInv /\ [OrderlyNext]_vars => PromptInv'
  <1> SUFFICES ASSUME PromptInv, [OrderlyNext]_vars PROVE PromptInv'
    OBVIOUS
  <1>1. CASE OrderlyNext
    BY <1>1, PromptKeys, PromptReading, PromptTerminal, LineAssumption
    DEF OrderlyNext
  <1>2. CASE UNCHANGED vars
    <2>1. PromptTypes' /\ \A u \in Ter : Same(u)
      BY <1>2 DEF PromptInv, PromptTypes, StatusTypes, vars, keyVars, readVars, Same
    <2> QED
      BY <1>2, <2>1, SameFits DEF PromptInv, vars, readVars
  <1> QED
    BY <1>1, <1>2

LEMMA PromptAlways == OrderlySpec => []PromptInv
  BY PromptInit, PromptStep, PTL DEF OrderlySpec

\* Whatever was inserted and deleted wherever the cursor was, a line typed at
\* the prompt has no gaps and keeps a byte for its newline (keyboard.c:
\* 414-494).
THEOREM LinesHaveShape == OrderlySpec => []LineShape
  <1>1. PromptInv => LineShape
    BY DEF PromptInv, Fits, LineShape, EditedRow, Line
  <1> QED
    BY <1>1, PromptAlways, PTL

\* A program that waited for a line typed at the prompt copies all of it
\* (terminal_driver.c:203-227).
THEOREM LinesAreWhole == OrderlySpec => []WholeLine
  <1>1. PromptInv => WholeLine
    BY DEF PromptInv, PromptTypes, StatusTypes, Fits, WholeLine, Entered
  <1> QED
    BY <1>1, PromptAlways, PTL

\* Keys at the prompt change no line but the one on display, although the
\* rows of all terminals touch each other in memory (keyboard.c:414-449).
THEOREM KeysStay == OrderlySpec => KeysStayOnDisplay
  <1> DEFINE Stay == readVars' = readVars => OthersSame
  <1>1. ASSUME PromptInv, OrderlyNext PROVE Stay
    <2>1. ASSUME NEW t \in Ter, KeyTerminal(t) PROVE OthersSame
      BY <2>1 DEF KeyTerminal, keyVars, OthersSame, Same
    <2>2. ASSUME NEW t \in Ter, Reading(t) PROVE readVars' # readVars
      <3>1. pc[t] \in Place /\ wiped[t] \in Nat /\ t \in DOMAIN pc
            /\ t \in DOMAIN wiped
        BY <1>1, LineAssumption DEF PromptInv, PromptTypes, StatusTypes, Pos
      <3>2. pc' # pc \/ wiped' # wiped
        <4>1. CASE ReadWipe(t)
          BY <3>1, <4>1 DEF ReadWipe, GoTo
        <4>2. CASE Halted(t)
          BY <3>1, <4>2 DEF Halted
        <4>3. CASE ReadCall(t)
          BY <3>1, <4>3 DEF ReadCall, GoTo
        <4>4. CASE ReadReset(t) \/ ReadMark(t) \/ ReadLeave(t) \/ ReadCopy(t)
          BY <3>1, <4>4 DEF ReadReset, ReadMark, ReadLeave, ReadCopy, GoTo
        <4> QED
          BY <2>2, <4>1, <4>2, <4>3, <4>4 DEF Reading
      <3> QED
        BY <3>2 DEF readVars
    <2> QED
      BY <1>1, <2>1, <2>2, PromptKeys, LineAssumption DEF OrderlyNext
  <1>2. PromptInv /\ [OrderlyNext]_vars => [Stay]_vars
    BY <1>1
  <1>3. [Stay]_vars =>
          [readVars' = readVars =>
              \A t \in Ter \ {cur_ter} :
                  /\ key_buffer'[t] = key_buffer[t]
                  /\ buffer_pos'[t] = buffer_pos[t]
                  /\ buf_status'[t] = buf_status[t]]_vars
    BY DEF OthersSame, Same
  <1> QED
    BY <1>2, <1>3, PromptAlways, PTL DEF OrderlySpec, KeysStayOnDisplay

-----------------------------------------------------------------------------
(***************************************************************************)
(* Types, under Spec: keys at any moment, the cursor past its row or not.  *)
(***************************************************************************)

\* A set of numbers that is not empty has a least one.
LEMMA Minimum ==
    ASSUME NEW T, T \subseteq Nat, T # {}
    PROVE  \E x \in T : \A y \in T : x <= y
  <1> DEFINE R == OpToRel(<, Nat)
  <1>1. \A x, y \in Nat : x < y => <<x, y>> \in R
    BY DEF OpToRel
  <1>2. IsWellFoundedOn(R, Nat)
    BY NatLessThanWellFounded
  <1> HIDE DEF R
  <1>3. PICK x \in T : \A y \in T : ~ (<<y, x>> \in R)
    BY <1>2, WFMin
  <1>4. \A y \in T : ~ (y < x)
    BY <1>1, <1>3
  <1> QED
    BY <1>3, <1>4

\* Every row has the number of bytes that Count chooses.
LEMMA CountIs ==
    ASSUME NEW row \in Row
    PROVE  /\ Count(row) \in 0 .. KEYBOARD_BUFFER_SIZE
           /\ \A i \in 0 .. Count(row) - 1 : row[i] # NUL
           /\ Count(row) \in Pos => row[Count(row)] = NUL
  <1> DEFINE Is(n) == /\ \A i \in 0 .. n - 1 : row[i] # NUL
                      /\ n \in Pos => row[n] = NUL
             Free == {i \in Pos : row[i] = NUL}
  <1>1. \E n \in 0 .. KEYBOARD_BUFFER_SIZE : Is(n)
    <2>1. CASE Free = {}
      <3>1. Is(KEYBOARD_BUFFER_SIZE)
        BY <2>1, LineAssumption DEF Pos
      <3> QED
        BY <3>1, LineAssumption
    <2>2. CASE Free # {}
      <3>1. Free \subseteq Nat
        BY DEF Pos
      <3>2. PICK n \in Free : \A i \in Free : n <= i
        <4> HIDE DEF Free
        <4> QED
          BY <2>2, <3>1, Minimum
      <3>3. n \in 0 .. KEYBOARD_BUFFER_SIZE /\ Is(n)
        BY <3>2, LineAssumption DEF Pos
      <3> QED
        BY <3>3
    <2> QED
      BY <2>1, <2>2
  <1>2. Count(row) = CHOOSE n \in 0 .. KEYBOARD_BUFFER_SIZE : Is(n)
    BY DEF Count
  <1> HIDE DEF Is
  <1>3. Count(row) \in 0 .. KEYBOARD_BUFFER_SIZE /\ Is(Count(row))
    BY <1>1, <1>2
  <1> QED
    BY <1>3 DEF Is

\* What a program gets is as long as its buffer and a row at most.
LEMMA CopiedBytes ==
    ASSUME NEW row \in Row, NEW length \in Lengths
    PROVE  /\ Copied(row, length) \in Seq(Byte)
           /\ Len(Copied(row, length)) <= length
           /\ Len(Copied(row, length)) <= KEYBOARD_BUFFER_SIZE
  <1> DEFINE n == IF length <= Count(row) THEN length ELSE Count(row)
  <1>1. /\ n \in Nat /\ n <= length /\ n <= Count(row)
        /\ n <= KEYBOARD_BUFFER_SIZE /\ length \in Nat
    BY CountIs, LineAssumption
  <1> HIDE DEF n
  <1>2. \A i \in 1 .. n : i - 1 \in Pos
    BY <1>1, LineAssumption DEF Pos
  <1>3. \A i \in 1 .. n : (IF i = length THEN NL ELSE row[i - 1]) \in Byte
    BY <1>2 DEF Row, Byte
  <1>4. Copied(row, length) = [i \in 1 .. n |-> IF i = length THEN NL ELSE row[i - 1]]
    BY DEF Copied, n
  <1>5. Copied(row, length) \in Seq(Byte) /\ Len(Copied(row, length)) = n
    BY <1>1, <1>3, <1>4
  <1> QED
    BY <1>1, <1>5

\* Rows stay rows, wherever the position is.
LEMMA RowsStay ==
    ASSUME NEW row \in Row, NEW p \in Nat
    PROVE  /\ \A c \in Byte : Inserted(row, p, c) \in Row
           /\ Deleted(row, p) \in Row
           /\ WithNewline(row) \in Row
           /\ EmptyRow \in Row
  <1>1. \A i \in Pos : (i > p => i - 1 \in Pos)
                       /\ (i < KEYBOARD_BUFFER_SIZE - 1 => i + 1 \in Pos)
    BY LineAssumption DEF Pos
  <1>2. NUL \in Byte /\ NL \in Byte
    BY DEF Byte
  <1> QED
    BY <1>1, <1>2 DEF Row, Inserted, Deleted, WithNewline, EmptyRow

\* The buffers of all terminals, as add_at_cursor finds and leaves them.
Held(s) == s.buf \in [Ter -> Row] /\ s.pos \in [Ter -> Nat]

LEMMA AddedHeld ==
    ASSUME NEW s, Held(s), NEW t \in Ter, NEW c \in Byte
    PROVE  /\ Held(Added(s, t, c))
           /\ Added(s, t, c).pos = [s.pos EXCEPT ![t] = @ + 1]
  <1> DEFINE p == s.pos[t]
             row == RowOf(t, p)
             q == p % KEYBOARD_BUFFER_SIZE
  <1>1. p \in Nat
    BY DEF Held
  <1>2. Spilled(s.buf, t, p, c) \in [Ter -> Row]
    <2>1. q \in Pos
      BY <1>1, LineAssumption DEF Pos
    <2>2. CASE InArray(t, p) /\ s.buf[row][q] = NUL
      <3>1. Spilled(s.buf, t, p, c) = [s.buf EXCEPT ![row][q] = c]
        BY <2>2 DEF Spilled
      <3>2. row \in Ter
        BY <2>2 DEF InArray
      <3> HIDE DEF row, q
      <3> QED
        BY <2>1, <3>1, <3>2 DEF Held, Row
    <2>3. CASE ~(InArray(t, p) /\ s.buf[row][q] = NUL)
      BY <2>3 DEF Spilled, Held
    <2> QED
      BY <2>2, <2>3
  <1>3. [s.buf EXCEPT ![t] = Inserted(@, p, c)] \in [Ter -> Row]
    BY <1>1, RowsStay DEF Held
  <1>4. Added(s, t, c).buf \in [Ter -> Row]
    BY <1>2, <1>3 DEF Added
  <1>5. Added(s, t, c).pos = [s.pos EXCEPT ![t] = @ + 1]
    BY DEF Added
  <1>6. Added(s, t, c).pos \in [Ter -> Nat]
    BY <1>1, <1>5 DEF Held
  <1> QED
    BY <1>4, <1>5, <1>6 DEF Held

-----------------------------------------------------------------------------
\* The types, with result a function.
LineTypes == TypeOK /\ result \in [Ter -> Seq(Byte)]

LEMMA TypesInit == Init => LineTypes
  <1>1. 0 \in Ter /\ 0 \in Pos /\ 0 \in 0 .. CURSOR_MAX /\ KEYBOARD_BUFFER_SIZE \in Nat
    BY LineAssumption DEF Ter, Pos
  <1>2. EmptyRow \in Row
    BY <1>1, RowsStay DEF Row, EmptyRow, Byte
  <1>3. <<>> \in Seq(Byte) /\ Len(<<>>) = 0
    OBVIOUS
  <1> QED
    BY <1>1, <1>2, <1>3 DEF Init, LineTypes, TypeOK, Place, Row

LEMMA OpenedHeld ==
    ASSUME LineTypes, NEW t \in Ter
    PROVE  /\ Held(Opened(t))
           /\ Opened(t).pos[t] \in {0, buffer_pos[t]}
           /\ \A u \in Ter \ {t} : Opened(t).pos[u] = buffer_pos[u]
           /\ buffer_pos \in [Ter -> 0 .. CURSOR_MAX]
  <1>1. EmptyRow \in Row
    BY DEF EmptyRow, Row, Byte
  <1>2. /\ key_buffer \in [Ter -> Row] /\ buffer_pos \in [Ter -> Nat]
        /\ buffer_pos \in [Ter -> 0 .. CURSOR_MAX]
    BY LineAssumption DEF LineTypes, TypeOK, Row
  <1> QED
    BY <1>1, <1>2 DEF Opened, Held

LEMMA TypesChar ==
    ASSUME LineTypes, NEW c \in Byte, KeyChar(c)
    PROVE  LineTypes'
  <1> DEFINE s == Opened(cur_ter)
             r == Added(s, cur_ter, c)
  <1>1. cur_ter \in Ter /\ CURSOR_MAX \in Nat /\ CURSOR_MAX >= 2
    BY LineAssumption DEF LineTypes, TypeOK
  <1>2. Held(s) /\ s.pos[cur_ter] \in {0, buffer_pos[cur_ter]}
    BY <1>1, OpenedHeld
  <1>3. \A u \in Ter \ {cur_ter} : s.pos[u] = buffer_pos[u]
    BY <1>1, OpenedHeld
  <1>4. buffer_pos \in [Ter -> 0 .. CURSOR_MAX]
    BY DEF LineTypes, TypeOK
  <1> HIDE DEF s
  <1>5. Held(r) /\ r.pos = [s.pos EXCEPT ![cur_ter] = @ + 1]
    BY <1>1, <1>2, AddedHeld
  <1> HIDE DEF r
  <1>6. r.pos \in [Ter -> 0 .. CURSOR_MAX]
    BY <1>1, <1>2, <1>3, <1>4, <1>5 DEF Held, KeyChar
  <1>7. key_buffer' = r.buf /\ buffer_pos' = r.pos
    BY DEF KeyChar, Buffers, r, s
  <1>8. buf_status' \in [Ter -> {0, 1}]
    BY DEF KeyChar, LineTypes, TypeOK
  <1> QED
    BY <1>5, <1>6, <1>7, <1>8 DEF KeyChar, LineTypes, TypeOK, Held, Row, readVars

LEMMA TypesTab ==
    ASSUME LineTypes, KeyTab
    PROVE  LineTypes'
  <1> DEFINE Space(s) == Added(s, cur_ter, SPACE)
             s0 == Opened(cur_ter)
             s1 == Space(s0)
             s2 == Space(s1)
             s3 == Space(s2)
             s4 == Space(s3)
  <1>1. cur_ter \in Ter /\ CURSOR_MAX \in Nat /\ SPACE \in Byte
    BY LineAssumption DEF LineTypes, TypeOK, Byte
  <1>2. Held(s0) /\ s0.pos[cur_ter] \in {0, buffer_pos[cur_ter]}
    BY <1>1, OpenedHeld
  <1>3. \A u \in Ter \ {cur_ter} : s0.pos[u] = buffer_pos[u]
    BY <1>1, OpenedHeld
  <1>4. buffer_pos \in [Ter -> 0 .. CURSOR_MAX]
    BY DEF LineTypes, TypeOK
  <1> HIDE DEF s0
  <1>5. Held(s1) /\ s1.pos = [s0.pos EXCEPT ![cur_ter] = @ + 1]
    BY <1>1, <1>2, AddedHeld
  <1> HIDE DEF s1
  <1>6. Held(s2) /\ s2.pos = [s1.pos EXCEPT ![cur_ter] = @ + 1]
    BY <1>1, <1>5, AddedHeld
  <1> HIDE DEF s2
  <1>7. Held(s3) /\ s3.pos = [s2.pos EXCEPT ![cur_ter] = @ + 1]
    BY <1>1, <1>6, AddedHeld
  <1> HIDE DEF s3
  <1>8. Held(s4) /\ s4.pos = [s3.pos EXCEPT ![cur_ter] = @ + 1]
    BY <1>1, <1>7, AddedHeld
  <1>9. key_buffer' = s4.buf /\ buffer_pos' = s4.pos
    BY DEF KeyTab, Buffers, s0, s1, s2, s3
  <1> HIDE DEF s4
  <1>10. s4.pos \in [Ter -> 0 .. CURSOR_MAX]
    <2>1. /\ s4.pos[cur_ter] = s0.pos[cur_ter] + 4
          /\ \A u \in Ter \ {cur_ter} : s4.pos[u] = buffer_pos[u]
      BY <1>1, <1>2, <1>3, <1>5, <1>6, <1>7, <1>8 DEF Held
    <2>2. buffer_pos[cur_ter] + 4 <= CURSOR_MAX
      BY DEF KeyTab
    <2>3. s4.pos[cur_ter] \in 0 .. CURSOR_MAX
      BY <1>1, <1>2, <1>4, <2>1, <2>2
    <2> QED
      BY <1>4, <1>8, <2>1, <2>3 DEF Held
  <1>11. buf_status' \in [Ter -> {0, 1}]
    BY DEF KeyTab, LineTypes, TypeOK
  <1> QED
    BY <1>8, <1>9, <1>10, <1>11 DEF KeyTab, LineTypes, TypeOK, Held, Row, readVars

\* The keys that leave the length of a line or take a character from it.
LEMMA TypesKey ==
    ASSUME LineTypes, KeyEnter \/ KeyBackspace \/ KeyLeft \/ KeyRight
    PROVE  LineTypes'
  <1>1. /\ cur_ter \in Ter /\ CURSOR_MAX \in Nat
        /\ key_buffer \in [Ter -> Row] /\ buffer_pos \in [Ter -> 0 .. CURSOR_MAX]
    BY LineAssumption DEF LineTypes, TypeOK, Row
  <1>2. CASE KeyEnter
    <2>1. key_buffer' \in [Ter -> Row]
      BY <1>1, <1>2, RowsStay DEF KeyEnter
    <2> QED
      BY <1>2, <2>1 DEF KeyEnter, LineTypes, TypeOK, readVars, Row
  <1>3. CASE KeyBackspace
    <2>1. buffer_pos[cur_ter] - 1 \in 0 .. CURSOR_MAX
      BY <1>1, <1>3 DEF KeyBackspace
    <2>2. key_buffer' \in [Ter -> Row] /\ buffer_pos' \in [Ter -> 0 .. CURSOR_MAX]
      BY <1>1, <1>3, <2>1, RowsStay DEF KeyBackspace
    <2> QED
      BY <1>3, <2>2 DEF KeyBackspace, LineTypes, TypeOK, readVars, Row
  <1>4. CASE KeyLeft
    <2>1. buffer_pos' \in [Ter -> 0 .. CURSOR_MAX]
      BY <1>1, <1>4 DEF KeyLeft
    <2> QED
      BY <1>4, <2>1 DEF KeyLeft, LineTypes, TypeOK, readVars
  <1>5. CASE KeyRight
    <2>1. buffer_pos' \in [Ter -> 0 .. CURSOR_MAX]
      BY <1>1, <1>5 DEF KeyRight
    <2> QED
      BY <1>5, <2>1 DEF KeyRight, LineTypes, TypeOK, readVars
  <1> QED
    BY <1>2, <1>3, <1>4, <1>5

LEMMA TypesReading ==
    ASSUME LineTypes, NEW t \in Ter, Reading(t)
    PROVE  LineTypes'
  <1> USE DEF LineTypes, TypeOK, GoTo, Place, keyVars
  <1>1. CASE ReadCall(t)
    BY <1>1 DEF ReadCall
  <1>2. CASE ReadReset(t)
    BY <1>2, LineAssumption DEF ReadReset
  <1>3. CASE ReadWipe(t)
    <2>1. key_buffer' \in [Ter -> [Pos -> Byte]]
      BY <1>3 DEF ReadWipe, Byte
    <2>2. wiped' \in [Ter -> Pos]
      BY <1>3, LineAssumption DEF ReadWipe, LastByte, Pos
    <2> QED
      BY <1>3, <2>1, <2>2 DEF ReadWipe
  <1>4. CASE ReadMark(t)
    BY <1>4 DEF ReadMark, Marked
  <1>5. CASE ReadLeave(t)
    BY <1>5 DEF ReadLeave
  <1>6. CASE ReadCopy(t)
    <2>1. PICK length \in Lengths :
              result' = [result EXCEPT ![t] = Copied(key_buffer[t], length)]
      BY <1>6 DEF ReadCopy
    <2>2. /\ Copied(key_buffer[t], length) \in Seq(Byte)
          /\ Len(Copied(key_buffer[t], length)) <= KEYBOARD_BUFFER_SIZE
      BY CopiedBytes DEF Row
    <2>3. /\ result' \in [Ter -> Seq(Byte)]
          /\ \A u \in Ter : Len(result'[u]) <= KEYBOARD_BUFFER_SIZE
      BY <2>1, <2>2
    <2> QED
      BY <1>6, <2>3 DEF ReadCopy
  <1>7. CASE Halted(t)
    BY <1>7, LineAssumption DEF Halted, Pos
  <1> QED
    BY <1>1, <1>2, <1>3, <1>4, <1>5, <1>6, <1>7 DEF Reading

LEMMA TypesStep == LineTypes /\ [Next]_vars => LineTypes'
  <1> SUFFICES ASSUME LineTypes, [Next]_vars PROVE LineTypes'
    OBVIOUS
  <1>1. ASSUME NEW c \in Char, KeyChar(c) PROVE LineTypes'
    BY <1>1, TypesChar DEF Byte
  <1>2. CASE KeyChar(NUL)
    BY <1>2, TypesChar DEF Byte
  <1>3. ASSUME NEW t \in Ter, KeyTerminal(t) PROVE LineTypes'
    BY <1>3 DEF KeyTerminal, keyVars, readVars, LineTypes, TypeOK
  <1>4. ASSUME NEW t \in Readers, Reading(t) PROVE LineTypes'
    BY <1>4, TypesReading, LineAssumption
  <1>5. CASE UNCHANGED vars
    BY <1>5 DEF vars, keyVars, readVars, LineTypes, TypeOK
  <1> QED
    BY <1>1, <1>2, <1>3, <1>4, <1>5, TypesKey, TypesTab
       DEF Next, PlainKey, OtherKey

\* Whatever keys are pressed, the cursor past its row or not: the rows hold
\* bytes, terminal_read clears within its row, and returns no more bytes than
\* a row has (keyboard.c:352-443, terminal_driver.c:189-227).
THEOREM LineTypesHold == Spec => []TypeOK
  <1>1. Spec => []LineTypes
    BY TypesInit, TypesStep, PTL DEF Spec
  <1>2. LineTypes => TypeOK
    BY DEF LineTypes
  <1> QED
    BY <1>1, <1>2, PTL

-----------------------------------------------------------------------------
\* The characters of a row that has n of them.
LineText(row, n) == [i \in 1 .. n |-> row[i - 1]]

-----------------------------------------------------------------------------
(***************************************************************************)
(* Rows and their texts.                                                   *)
(***************************************************************************)
LEMMA SizeFacts ==
    /\ KEYBOARD_BUFFER_SIZE \in Nat /\ KEYBOARD_BUFFER_SIZE >= 2
    /\ Pos = 0 .. KEYBOARD_BUFFER_SIZE - 1
    /\ NUL # NL /\ NL \in Byte /\ NUL \in Byte
    /\ SPACE \in Byte \ {NL, NUL} /\ \A c \in Char : c \in Byte \ {NL, NUL}
  BY LineAssumption DEF Pos, Byte

LEMMA TextIs ==
    ASSUME NEW row \in Row, NEW n \in 0 .. KEYBOARD_BUFFER_SIZE
    PROVE  /\ LineText(row, n) \in Seq(Byte) /\ Len(LineText(row, n)) = n
           /\ \A i \in 1 .. n : LineText(row, n)[i] = row[i - 1]
  <1>1. \A i \in 1 .. n : i - 1 \in Pos
    BY SizeFacts
  <1>2. \A i \in 1 .. n : row[i - 1] \in Byte
    BY <1>1 DEF Row
  <1> QED
    BY <1>2, SizeFacts DEF LineText

\* A row has one number of characters.
LEMMA CharactersIs ==
    ASSUME NEW row \in Row, NEW n, Line(row, n) \/ Entered(row, n)
    PROVE  n \in Pos /\ n \in Nat /\ Characters(row) = LineText(row, n)
  <1> DEFINE Is(m) == /\ \A i \in 0 .. m - 1 : row[i] \notin {NL, NUL}
                      /\ m \in Pos => row[m] \in {NL, NUL}
             All == 0 .. KEYBOARD_BUFFER_SIZE
             chosen == CHOOSE m \in All : Is(m)
  <1>1. n \in Pos /\ n \in All /\ n \in Nat
    BY SizeFacts DEF Line, Entered
  <1>2. Is(n)
    BY <1>1, SizeFacts DEF Line, Entered
  <1>3. ASSUME NEW m \in All, Is(m) PROVE m = n
    <2>1. CASE m < n
      <3>1. m \in Pos /\ m \in 0 .. n - 1
        BY <1>1, <2>1, SizeFacts
      <3> QED
        BY <1>2, <1>3, <3>1
    <2>2. CASE m > n
      <3>1. n \in 0 .. m - 1
        BY <1>1, <2>2, SizeFacts
      <3> QED
        BY <1>1, <1>2, <1>3, <3>1
    <2> QED
      BY <1>1, <2>1, <2>2, SizeFacts
  <1>4. Characters(row) = LineText(row, chosen)
    BY DEF Characters, LineText
  <1> HIDE DEF Is, All
  <1>5. chosen \in All /\ Is(chosen)
    BY <1>1, <1>2
  <1> HIDE DEF chosen
  <1>6. chosen = n
    BY <1>3, <1>5
  <1> QED
    BY <1>1, <1>4, <1>6

\* The beginning and the rest of a sequence.
LEMMA Parts ==
    ASSUME NEW s \in Seq(Byte), NEW p \in 0 .. Len(s)
    PROVE  /\ SubSeq(s, 1, p) \in Seq(Byte) /\ Len(SubSeq(s, 1, p)) = p
           /\ \A i \in 1 .. p : SubSeq(s, 1, p)[i] = s[i]
           /\ SubSeq(s, p + 1, Len(s)) \in Seq(Byte)
           /\ Len(SubSeq(s, p + 1, Len(s))) = Len(s) - p
           /\ \A i \in 1 .. Len(s) - p : SubSeq(s, p + 1, Len(s))[i] = s[p + i]
  <1> DEFINE n == Len(s)
  <1>1. n \in Nat /\ p \in 0 .. n /\ \A i \in 1 .. n : s[i] \in Byte
    OBVIOUS
  <1> HIDE DEF n
  <1>2. /\ SubSeq(s, 1, p) \in Seq(Byte) /\ Len(SubSeq(s, 1, p)) = p
        /\ \A i \in 1 .. p : SubSeq(s, 1, p)[i] = s[i]
    <2>1. \A i \in 1 .. p : s[i] \in Byte
      BY <1>1
    <2>2. /\ SubSeq(s, 1, p) \in Seq(Byte)
          /\ Len(SubSeq(s, 1, p)) = IF 1 <= p THEN p - 1 + 1 ELSE 0
          /\ \A i \in 1 .. p - 1 + 1 : SubSeq(s, 1, p)[i] = s[1 + i - 1]
      BY <1>1, <2>1, SubSeqProperties
    <2> QED
      BY <1>1, <2>2
  <1>3. /\ SubSeq(s, p + 1, n) \in Seq(Byte) /\ Len(SubSeq(s, p + 1, n)) = n - p
        /\ \A i \in 1 .. n - p : SubSeq(s, p + 1, n)[i] = s[p + i]
    <2>1. \A i \in p + 1 .. n : s[i] \in Byte
      BY <1>1
    <2>2. /\ SubSeq(s, p + 1, n) \in Seq(Byte)
          /\ Len(SubSeq(s, p + 1, n)) = IF p + 1 <= n THEN n - (p + 1) + 1 ELSE 0
          /\ \A i \in 1 .. n - (p + 1) + 1 : SubSeq(s, p + 1, n)[i] = s[p + 1 + i - 1]
      BY <1>1, <2>1, SubSeqProperties
    <2> DEFINE r == SubSeq(s, p + 1, n)
    <2>3. n - (p + 1) + 1 = n - p /\ (~(p + 1 <= n) => n - p = 0)
          /\ \A i \in 1 .. n - p : p + 1 + i - 1 = p + i
      BY <1>1
    <2> HIDE DEF r
    <2>4. r \in Seq(Byte) /\ Len(r) = n - p
      BY <2>2, <2>3 DEF r
    <2>5. \A i \in 1 .. n - p : r[i] = s[p + i]
      BY <2>2, <2>3 DEF r
    <2> QED
      BY <2>4, <2>5 DEF r
  <1> QED
    BY <1>2, <1>3 DEF n

LEMMA ConcatIs ==
    ASSUME NEW s \in Seq(Byte), NEW t \in Seq(Byte)
    PROVE  /\ s \o t \in Seq(Byte) /\ Len(s \o t) = Len(s) + Len(t)
           /\ \A i \in 1 .. Len(s) : (s \o t)[i] = s[i]
           /\ \A i \in 1 .. Len(t) : (s \o t)[Len(s) + i] = t[i]
  OBVIOUS

\* r is t with s put in behind its first p characters, character by character.
Spliced(r, t, p, s) ==
    /\ Len(r) = Len(t) + Len(s)
    /\ \A i \in 1 .. p : r[i] = t[i]
    /\ \A i \in 1 .. Len(s) : r[p + i] = s[i]
    /\ \A i \in 1 .. Len(t) - p : r[p + Len(s) + i] = t[p + i]

\* r is t without its character p.
Shortened(r, t, p) ==
    /\ Len(r) = Len(t) - 1
    /\ \A i \in 1 .. p - 1 : r[i] = t[i]
    /\ \A i \in 1 .. Len(t) - p : r[p - 1 + i] = t[p + i]

LEMMA SplicedIs ==
    ASSUME NEW t \in Seq(Byte), NEW p \in 0 .. Len(t), NEW s \in Seq(Byte),
           NEW r \in Seq(Byte), Spliced(r, t, p, s)
    PROVE  r = SubSeq(t, 1, p) \o s \o SubSeq(t, p + 1, Len(t))
  <1> DEFINE front == SubSeq(t, 1, p)
             back == SubSeq(t, p + 1, Len(t))
             head == front \o s
             whole == head \o back
             n == Len(t)
             k == Len(s)
  <1>1. /\ front \in Seq(Byte) /\ Len(front) = p
        /\ \A i \in 1 .. p : front[i] = t[i]
        /\ back \in Seq(Byte) /\ Len(back) = n - p
        /\ \A i \in 1 .. n - p : back[i] = t[p + i]
    BY Parts
  <1>2. n \in Nat /\ k \in Nat /\ p \in Nat /\ p <= n
    OBVIOUS
  <1> HIDE DEF front, back
  <1>3. /\ head \in Seq(Byte) /\ Len(head) = Len(front) + Len(s)
        /\ \A i \in 1 .. Len(front) : head[i] = front[i]
        /\ \A i \in 1 .. Len(s) : head[Len(front) + i] = s[i]
    <2>1. front \in Seq(Byte)
      BY <1>1
    <2> QED
      BY <2>1, ConcatIs
  <1> HIDE DEF head
  <1>4. /\ whole \in Seq(Byte) /\ Len(whole) = Len(head) + Len(back)
        /\ \A i \in 1 .. Len(head) : whole[i] = head[i]
        /\ \A i \in 1 .. Len(back) : whole[Len(head) + i] = back[i]
    <2>1. head \in Seq(Byte) /\ back \in Seq(Byte)
      BY <1>1, <1>3
    <2> QED
      BY <2>1, ConcatIs
  <1> HIDE DEF whole
  <1>5. /\ Len(r) = n + k
        /\ \A i \in 1 .. p : r[i] = t[i]
        /\ \A i \in 1 .. k : r[p + i] = s[i]
        /\ \A i \in 1 .. n - p : r[p + k + i] = t[p + i]
    BY DEF Spliced
  <1>6. Len(head) = p + k
    BY <1>1, <1>3
  <1> HIDE DEF n, k
  <1>7. Len(whole) = Len(r)
    BY <1>1, <1>2, <1>4, <1>5, <1>6
  <1>8. ASSUME NEW i \in 1 .. n + k PROVE whole[i] = r[i]
    <2>1. CASE i <= p
      <3>1. i \in 1 .. p /\ i \in 1 .. p + k
        BY <1>2, <2>1
      <3>2. whole[i] = head[i] /\ head[i] = front[i]
        BY <1>1, <1>3, <1>4, <1>6, <3>1
      <3> QED
        BY <1>1, <1>5, <3>1, <3>2
    <2>2. CASE i > p /\ i <= p + k
      <3> DEFINE j == i - p
      <3>1. j \in 1 .. k /\ i = p + j /\ i \in 1 .. p + k
        BY <1>2, <2>2
      <3> HIDE DEF j
      <3>2. whole[i] = head[i] /\ head[p + j] = s[j]
        BY <1>1, <1>3, <1>4, <1>6, <3>1 DEF k
      <3> QED
        BY <1>5, <3>1, <3>2
    <2>3. CASE i > p + k
      <3> DEFINE j == i - (p + k)
      <3>1. j \in 1 .. n - p /\ i = p + k + j
        BY <1>2, <2>3
      <3> HIDE DEF j
      <3>2. whole[p + k + j] = back[j] /\ back[j] = t[p + j]
        BY <1>1, <1>4, <1>6, <3>1
      <3> QED
        BY <1>5, <3>1, <3>2
    <2> QED
      BY <1>2, <2>1, <2>2, <2>3
  <1>9. whole = r
    <2>1. \A i \in 1 .. Len(whole) : whole[i] = r[i]
      BY <1>5, <1>7, <1>8
    <2> QED
      BY <1>4, <1>7, <2>1, SeqEqual
  <1> QED
    BY <1>9 DEF whole, head, front, back

LEMMA ShortenedIs ==
    ASSUME NEW t \in Seq(Byte), NEW p \in 1 .. Len(t),
           NEW r \in Seq(Byte), Shortened(r, t, p)
    PROVE  r = SubSeq(SubSeq(t, 1, p), 1, p - 1) \o SubSeq(t, p + 1, Len(t))
  <1> DEFINE left == SubSeq(t, 1, p)
             front == SubSeq(left, 1, p - 1)
             back == SubSeq(t, p + 1, Len(t))
             whole == front \o back
             n == Len(t)
  <1>1. n \in Nat /\ p \in Nat /\ p >= 1 /\ p <= n /\ p \in 0 .. n
    OBVIOUS
  <1>2. /\ left \in Seq(Byte) /\ Len(left) = p
        /\ \A i \in 1 .. p : left[i] = t[i]
        /\ back \in Seq(Byte) /\ Len(back) = n - p
        /\ \A i \in 1 .. n - p : back[i] = t[p + i]
    BY <1>1, Parts
  <1> HIDE DEF left, back
  <1>3. /\ front \in Seq(Byte) /\ Len(front) = p - 1
        /\ \A i \in 1 .. p - 1 : front[i] = left[i]
    <2>1. left \in Seq(Byte) /\ p - 1 \in 0 .. Len(left)
      BY <1>1, <1>2
    <2> QED
      BY <2>1, Parts
  <1> HIDE DEF front
  <1>4. /\ whole \in Seq(Byte) /\ Len(whole) = Len(front) + Len(back)
        /\ \A i \in 1 .. Len(front) : whole[i] = front[i]
        /\ \A i \in 1 .. Len(back) : whole[Len(front) + i] = back[i]
    <2>1. front \in Seq(Byte) /\ back \in Seq(Byte)
      BY <1>2, <1>3
    <2> QED
      BY <2>1, ConcatIs
  <1> HIDE DEF whole
  <1>5. /\ Len(r) = n - 1
        /\ \A i \in 1 .. p - 1 : r[i] = t[i]
        /\ \A i \in 1 .. n - p : r[p - 1 + i] = t[p + i]
    BY DEF Shortened
  <1> HIDE DEF n
  <1>6. Len(whole) = Len(r)
    BY <1>1, <1>2, <1>3, <1>4, <1>5
  <1>7. ASSUME NEW i \in 1 .. n - 1 PROVE whole[i] = r[i]
    <2>1. CASE i <= p - 1
      <3>1. i \in 1 .. p - 1 /\ i \in 1 .. p
        BY <1>1, <2>1
      <3>2. whole[i] = front[i] /\ front[i] = left[i] /\ left[i] = t[i]
        BY <1>2, <1>3, <1>4, <3>1
      <3> QED
        BY <1>5, <3>1, <3>2
    <2>2. CASE i > p - 1
      <3> DEFINE j == i - (p - 1)
      <3>1. j \in 1 .. n - p /\ i = p - 1 + j
        BY <1>1, <2>2
      <3> HIDE DEF j
      <3>2. whole[p - 1 + j] = back[j] /\ back[j] = t[p + j]
        BY <1>2, <1>3, <1>4, <3>1
      <3> QED
        BY <1>5, <3>1, <3>2
    <2> QED
      BY <1>1, <2>1, <2>2
  <1>8. whole = r
    <2>1. \A i \in 1 .. Len(whole) : whole[i] = r[i]
      BY <1>5, <1>6, <1>7
    <2> QED
      BY <1>4, <1>6, <2>1, SeqEqual
  <1> QED
    BY <1>8 DEF whole, front, left, back

-----------------------------------------------------------------------------
(***************************************************************************)
(* The same character added k times.                                       *)
(***************************************************************************)

\* new is old, a row of n characters, with k characters c put in at p.
HasRun(old, new, n, p, c, k) ==
    /\ \A i \in 0 .. p - 1 : new[i] = old[i]
    /\ \A i \in p .. p + k - 1 : new[i] = c
    /\ \A i \in p .. n - 1 : new[i + k] = old[i]

LEMMA NoRun ==
    ASSUME NEW row, NEW n \in Nat, NEW p \in 0 .. n, NEW c
    PROVE  HasRun(row, row, n, p, c, 0)
  BY DEF HasRun

LEMMA LongerRun ==
    ASSUME NEW old, NEW row \in Row, NEW n \in Nat, NEW p \in 0 .. n,
           NEW k \in Nat, NEW c, HasRun(old, row, n, p, c, k),
           Line(row, n + k), n + k <= KEYBOARD_BUFFER_SIZE - 2
    PROVE  HasRun(old, Inserted(row, p + k, c), n, p, c, k + 1)
  <1> DEFINE new == Inserted(row, p + k, c)
  <1>1. KEYBOARD_BUFFER_SIZE \in Nat /\ Pos = 0 .. KEYBOARD_BUFFER_SIZE - 1
    BY SizeFacts
  <1>2. ASSUME NEW i \in Pos, i < p + k PROVE new[i] = row[i]
    BY <1>1, <1>2 DEF Inserted
  <1>3. new[p + k] = c
    BY <1>1 DEF Inserted
  <1>4. ASSUME NEW i \in Pos, i > p + k, i <= n + k PROVE new[i] = row[i - 1]
    <2>1. \A j \in p + k .. i - 1 : row[j] # NUL
      BY <1>1, <1>4 DEF Line
    <2> QED
      BY <1>1, <1>4, <2>1 DEF Inserted
  <1> HIDE DEF new
  <1>5. ASSUME NEW i \in 0 .. p - 1 PROVE new[i] = old[i]
    <2>1. i \in Pos /\ i < p + k
      BY <1>1
    <2> QED
      BY <1>2, <2>1 DEF HasRun
  <1>6. ASSUME NEW i \in p .. p + (k + 1) - 1 PROVE new[i] = c
    <2>1. CASE i = p + k
      BY <1>3, <2>1
    <2>2. CASE i # p + k
      <3>1. i \in Pos /\ i < p + k /\ i \in p .. p + k - 1
        BY <1>1, <2>2
      <3> QED
        BY <1>2, <3>1 DEF HasRun
    <2> QED
      BY <2>1, <2>2
  <1>7. ASSUME NEW i \in p .. n - 1 PROVE new[i + (k + 1)] = old[i]
    <2> DEFINE j == i + (k + 1)
    <2>1. j \in Pos /\ j > p + k /\ j <= n + k /\ j - 1 = i + k
      BY <1>1
    <2> HIDE DEF j
    <2>2. new[j] = row[i + k]
      BY <1>4, <2>1
    <2> QED
      BY <2>2 DEF j, HasRun
  <1> QED
    BY <1>5, <1>6, <1>7 DEF HasRun, new

\* One call of add_at_cursor makes the run longer by one.
LEMMA AddedRun ==
    ASSUME NEW s, NEW t \in Ter, NEW old, NEW n \in Nat, NEW p \in 0 .. n,
           NEW k \in Nat, NEW c \in Byte \ {NL, NUL},
           Open(s, t, n + k), s.pos[t] = p + k,
           HasRun(old, s.buf[t], n, p, c, k), n + k <= KEYBOARD_BUFFER_SIZE - 2
    PROVE  LET r == Added(s, t, c)
           IN  /\ Open(r, t, n + (k + 1)) /\ r.pos[t] = p + (k + 1)
               /\ HasRun(old, r.buf[t], n, p, c, k + 1)
  <1> DEFINE r == Added(s, t, c)
             q == p + k
             new == Inserted(s.buf[t], q, c)
             buf == s.buf
             pos == s.pos
  <1>1. Open(r, t, n + k + 1)
    BY AddedLine
  <1>2. q < KEYBOARD_BUFFER_SIZE /\ q \in Nat /\ n + k + 1 = n + (k + 1)
        /\ q + 1 = p + (k + 1)
    BY SizeFacts
  <1>3. r = [buf |-> [buf EXCEPT ![t] = new], pos |-> [pos EXCEPT ![t] = q + 1]]
    BY <1>2 DEF Added
  <1>4. buf \in [Ter -> Row] /\ pos \in [Ter -> Nat] /\ Line(buf[t], n + k)
    BY DEF Open
  <1>5. HasRun(old, new, n, p, c, k + 1)
    BY <1>4, LongerRun
  <1> HIDE DEF new, q
  <1>6. r.buf[t] = new /\ r.pos[t] = q + 1
    <2> HIDE DEF buf, pos
    <2> QED  BY <1>3, <1>4
  <1> HIDE DEF r
  <1> QED
    BY <1>1, <1>2, <1>5, <1>6 DEF r

-----------------------------------------------------------------------------
(***************************************************************************)
(* What the steps do to the state, the text and the cursor of a terminal.  *)
(***************************************************************************)

\* Of the other terminals nothing changes.
Aside(t) == \A u \in Ter \ {t} : Same(u) /\ pc'[u] = pc[u]

\* Terminal t is in state st, its text is tx and its cursor at cu.
Shows(t, st, tx, cu) == State(t) = st /\ TextOf(t) = tx /\ CursorOf(t) = cu

\* The same after the step.
WillShow(t, st, tx, cu) == State(t)' = st /\ TextOf(t)' = tx /\ CursorOf(t)' = cu

Effect(t, st, tx, cu) ==
    /\ states' = [states EXCEPT ![t] = st]
    /\ texts' = [texts EXCEPT ![t] = tx]
    /\ cursors' = [cursors EXCEPT ![t] = cu]

LEMMA SameShown ==
    ASSUME NEW u \in Ter, Same(u), pc'[u] = pc[u]
    PROVE  State(u)' = State(u) /\ TextOf(u)' = TextOf(u) /\ CursorOf(u)' = CursorOf(u)
  <1>1. State(u)' = State(u)
    BY DEF Same, State
  <1> QED
    BY <1>1 DEF Same, TextOf, CursorOf

LEMMA EffectIs ==
    ASSUME NEW t \in Ter, Aside(t), NEW st, NEW tx, NEW cu, WillShow(t, st, tx, cu)
    PROVE  Effect(t, st, tx, cu)
  <1>1. State(t)' = st /\ TextOf(t)' = tx /\ CursorOf(t)' = cu
    BY DEF WillShow
  <1>2. ASSUME NEW u \in Ter, u # t
        PROVE  /\ State(u)' = State(u) /\ TextOf(u)' = TextOf(u)
               /\ CursorOf(u)' = CursorOf(u)
    BY <1>2, SameShown DEF Aside
  <1>3. states' = [states EXCEPT ![t] = st]
    BY <1>1, <1>2 DEF states
  <1>4. texts' = [texts EXCEPT ![t] = tx]
    BY <1>1, <1>2 DEF texts
  <1>5. cursors' = [cursors EXCEPT ![t] = cu]
    BY <1>1, <1>2 DEF cursors
  <1> QED
    BY <1>3, <1>4, <1>5 DEF Effect

\* A line being edited is what it shows.
LEMMA EditedShows ==
    ASSUME NEW t \in Ter, key_buffer[t] \in Row, buf_status[t] = 1,
           NEW n, Line(key_buffer[t], n)
    PROVE  Shows(t, "edit", LineText(key_buffer[t], n), buffer_pos[t])
  <1>1. State(t) = "edit"
    BY DEF State
  <1>2. TextOf(t) = Characters(key_buffer[t]) /\ CursorOf(t) = buffer_pos[t]
    BY <1>1 DEF TextOf, CursorOf
  <1>3. Characters(key_buffer[t]) = LineText(key_buffer[t], n)
    BY CharactersIs
  <1> QED
    BY <1>1, <1>2, <1>3 DEF Shows

LEMMA EditedShowsNext ==
    ASSUME NEW t \in Ter, key_buffer'[t] \in Row, buf_status'[t] = 1,
           NEW n, Line(key_buffer'[t], n)
    PROVE  WillShow(t, "edit", LineText(key_buffer'[t], n), buffer_pos'[t])
  <1>1. State(t)' = "edit"
    BY DEF State
  <1>2. TextOf(t)' = Characters(key_buffer'[t]) /\ CursorOf(t)' = buffer_pos'[t]
    BY <1>1 DEF TextOf, CursorOf
  <1>3. Characters(key_buffer'[t]) = LineText(key_buffer'[t], n)
    BY CharactersIs
  <1> QED
    BY <1>1, <1>2, <1>3 DEF WillShow

\* A key edits the line of terminal t, from n characters to m.
KeyEdits(t, n, m) ==
    /\ t = cur_ter /\ OthersSame /\ pc' = pc
    /\ buf_status[t] = 1 /\ buf_status'[t] = 1
    /\ key_buffer[t] \in Row /\ key_buffer'[t] \in Row
    /\ Line(key_buffer[t], n) /\ Line(key_buffer'[t], m)
    /\ result' = result

LEMMA KeyEffect ==
    ASSUME NEW t \in Ter, NEW n, NEW m, KeyEdits(t, n, m)
    PROVE  /\ states[t] = "edit" /\ states' = states
           /\ texts[t] = LineText(key_buffer[t], n) /\ cursors[t] = buffer_pos[t]
           /\ texts' = [texts EXCEPT ![t] = LineText(key_buffer'[t], m)]
           /\ cursors' = [cursors EXCEPT ![t] = buffer_pos'[t]]
  <1> DEFINE now == LineText(key_buffer[t], n)
             new == LineText(key_buffer'[t], m)
  <1>1. Shows(t, "edit", now, buffer_pos[t])
    BY EditedShows DEF KeyEdits
  <1>2. WillShow(t, "edit", new, buffer_pos'[t])
    BY EditedShowsNext DEF KeyEdits
  <1>3. Aside(t)
    BY DEF KeyEdits, OthersSame, Aside
  <1> HIDE DEF now, new
  <1>4. Effect(t, "edit", new, buffer_pos'[t])
    BY <1>2, <1>3, EffectIs
  <1>5. states[t] = "edit" /\ texts[t] = now /\ cursors[t] = buffer_pos[t]
    BY <1>1 DEF Shows, states, texts, cursors
  <1>6. states' = states
    BY <1>4, <1>5 DEF Effect, states
  <1> QED
    BY <1>4, <1>5, <1>6 DEF Effect, now, new

-----------------------------------------------------------------------------
(***************************************************************************)
(* Keys are the editor's operations.                                       *)
(***************************************************************************)

\* A run of k characters put into a row is k characters put into its text.
LEMMA RunSpliced ==
    ASSUME NEW old \in Row, NEW row \in Row, NEW n \in Nat, NEW p \in 0 .. n,
           NEW k \in Nat, NEW c, HasRun(old, row, n, p, c, k),
           n + k <= KEYBOARD_BUFFER_SIZE,
           NEW s, Len(s) = k, \A i \in 1 .. k : s[i] = c
    PROVE  Spliced(LineText(row, n + k), LineText(old, n), p, s)
  <1> DEFINE new == LineText(row, n + k)
             text == LineText(old, n)
  <1>1. /\ Len(new) = n + k /\ Len(text) = n
        /\ \A i \in 1 .. n + k : new[i] = row[i - 1]
        /\ \A i \in 1 .. n : text[i] = old[i - 1]
    <2>1. n \in 0 .. KEYBOARD_BUFFER_SIZE /\ n + k \in 0 .. KEYBOARD_BUFFER_SIZE
      BY SizeFacts
    <2> QED
      BY <2>1, TextIs
  <1> HIDE DEF new, text
  <1>2. ASSUME NEW i \in 1 .. p PROVE new[i] = text[i]
    <2>1. i \in 1 .. n + k /\ i \in 1 .. n /\ i - 1 \in 0 .. p - 1
      OBVIOUS
    <2> QED
      BY <1>1, <2>1 DEF HasRun
  <1>3. ASSUME NEW i \in 1 .. k PROVE new[p + i] = s[i]
    <2> DEFINE j == p + i
    <2>1. j \in 1 .. n + k /\ j - 1 \in p .. p + k - 1
      OBVIOUS
    <2> HIDE DEF j
    <2>2. new[j] = c
      BY <1>1, <2>1 DEF HasRun
    <2> QED
      BY <2>2 DEF j
  <1>4. ASSUME NEW i \in 1 .. n - p PROVE new[p + k + i] = text[p + i]
    <2> DEFINE j == p + i
               h == j - 1
               l == p + k + i
    <2>1. j \in 1 .. n /\ h \in p .. n - 1 /\ l \in 1 .. n + k /\ l - 1 = h + k
      OBVIOUS
    <2>2. row[h + k] = old[h]
      <3> HIDE DEF h
      <3> QED  BY <2>1 DEF HasRun
    <2>3. text[j] = old[h]
      <3> HIDE DEF j
      <3> QED  BY <1>1, <2>1 DEF h
    <2> HIDE DEF h, l
    <2>4. new[l] = row[h + k]
      BY <1>1, <2>1
    <2> QED
      BY <2>2, <2>3, <2>4 DEF l
  <1>5. Len(new) = Len(text) + Len(s) /\ Len(text) - p = n - p
    BY <1>1
  <1>6. \A i \in 1 .. Len(text) - p : new[p + Len(s) + i] = text[p + i]
    BY <1>4, <1>5
  <1> QED
    BY <1>2, <1>3, <1>5, <1>6 DEF Spliced, new, text

\* What one key can insert.
Keyed == {<<c>> : c \in Char} \cup {<<SPACE, SPACE, SPACE, SPACE>>}

\* s is k times character c, and a key inserts it.
KeyedRun(s, k, c) ==
    s \in Keyed /\ s \in Seq(Byte) /\ Len(s) = k /\ \A i \in 1 .. k : s[i] = c

\* The step puts k characters c at the cursor, p, of terminal t.
KeyAdds(t, n, p, k, c) ==
    /\ n \in Nat /\ k \in Nat /\ p \in 0 .. n
    /\ KeyEdits(t, n, n + k)
    /\ buffer_pos[t] = p /\ buffer_pos'[t] = p + k
    /\ HasRun(key_buffer[t], key_buffer'[t], n, p, c, k)

LEMMA KeyInserts ==
    ASSUME NEW t \in Ter, NEW n, NEW p, NEW k, NEW c, KeyAdds(t, n, p, k, c),
           NEW s, KeyedRun(s, k, c)
    PROVE  Editor!Insert(t)
  <1> DEFINE text == LineText(key_buffer[t], n)
             new == LineText(key_buffer'[t], n + k)
  <1>0. /\ n \in Nat /\ k \in Nat /\ p \in 0 .. n /\ KeyEdits(t, n, n + k)
        /\ buffer_pos[t] = p /\ buffer_pos'[t] = p + k
        /\ HasRun(key_buffer[t], key_buffer'[t], n, p, c, k)
        /\ s \in Keyed /\ s \in Seq(Byte) /\ Len(s) = k
        /\ \A i \in 1 .. k : s[i] = c
    BY DEF KeyAdds, KeyedRun
  <1>1. /\ states[t] = "edit" /\ states' = states
        /\ texts[t] = text /\ cursors[t] = p
        /\ texts' = [texts EXCEPT ![t] = new]
        /\ cursors' = [cursors EXCEPT ![t] = p + k]
    BY <1>0, KeyEffect
  <1>2. /\ key_buffer[t] \in Row /\ key_buffer'[t] \in Row
        /\ n + k <= KEYBOARD_BUFFER_SIZE - 1
    BY <1>0, SizeFacts DEF KeyEdits, Line
  <1>3. Spliced(new, text, p, s)
    <2>1. n + k <= KEYBOARD_BUFFER_SIZE
      BY <1>0, <1>2, SizeFacts
    <2> QED
      BY <1>0, <1>2, <2>1, RunSpliced
  <1>4. text \in Seq(Byte) /\ Len(text) = n /\ new \in Seq(Byte)
    <2>1. n \in 0 .. KEYBOARD_BUFFER_SIZE /\ n + k \in 0 .. KEYBOARD_BUFFER_SIZE
      BY <1>0, <1>2, SizeFacts
    <2> QED
      BY <1>0, <1>2, <2>1, TextIs
  <1> HIDE DEF text, new
  <1>5. new = SubSeq(text, 1, p) \o s \o SubSeq(text, p + 1, Len(text))
    BY <1>0, <1>3, <1>4, SplicedIs
  <1>6. new = Editor!Left(t) \o s \o Editor!Right(t)
    BY <1>1, <1>5 DEF Editor!Left, Editor!Right
  <1>7. Len(texts[t]) + Len(s) <= KEYBOARD_BUFFER_SIZE - 1
    BY <1>0, <1>1, <1>2, <1>4
  <1>8. /\ texts' = [texts EXCEPT ![t] = Editor!Left(t) \o s \o Editor!Right(t)]
        /\ cursors' = [cursors EXCEPT ![t] = @ + Len(s)]
    BY <1>0, <1>1, <1>6
  <1>9. result' = result
    BY <1>0 DEF KeyEdits
  <1> QED
    BY <1>0, <1>1, <1>7, <1>8, <1>9 DEF Editor!Insert, Keyed

LEMMA OneAdded ==
    ASSUME NEW s, NEW t \in Ter, NEW n \in Nat, Open(s, t, n),
           n <= KEYBOARD_BUFFER_SIZE - 2, NEW c \in Byte \ {NL, NUL}
    PROVE  LET r == Added(s, t, c)
           IN  /\ Open(r, t, n + 1) /\ r.pos[t] = s.pos[t] + 1
               /\ HasRun(s.buf[t], r.buf[t], n, s.pos[t], c, 1)
  <1> DEFINE Is(r, k) ==
                 /\ Open(r, t, n + k) /\ r.pos[t] = s.pos[t] + k
                 /\ HasRun(s.buf[t], r.buf[t], n, s.pos[t], c, k)
             r == Added(s, t, c)
  <1>1. s.pos[t] \in 0 .. n /\ KEYBOARD_BUFFER_SIZE \in Nat
    BY SizeFacts DEF Open
  <1>2. ASSUME NEW k \in 0 .. 0, Is(s, k) PROVE Is(r, k + 1)
    <2>1. k \in Nat /\ n + k <= KEYBOARD_BUFFER_SIZE - 2
      BY <1>1
    <2> QED
      BY <1>1, <1>2, <2>1, AddedRun
  <1>3. Is(s, 0)
    BY <1>1, NoRun DEF Open
  <1> HIDE DEF Is, r
  <1>4. Is(r, 1)
    BY <1>2, <1>3
  <1> QED
    BY <1>4 DEF Is, r

LEMMA CharInserts ==
    ASSUME PromptInv, Prompted, NEW c \in Char, KeyChar(c),
           NEW t \in Ter, t = cur_ter
    PROVE  Editor!Insert(t)
  <1> DEFINE s == Opened(t)
             r == Added(s, t, c)
             old == key_buffer[t]
  <1>1. PICK n \in 0 .. KEYBOARD_BUFFER_SIZE - 1 : Open(s, t, n)
    BY PromptedLine
  <1>2. s = [buf |-> key_buffer, pos |-> buffer_pos] /\ buf_status[t] = 1
        /\ old \in Row /\ buf_status \in [Ter -> {0, 1}]
    BY DEF PromptInv, PromptTypes, StatusTypes, Prompted, Opened
  <1>3. n <= KEYBOARD_BUFFER_SIZE - 2
    BY <1>1, <1>2, LineAssumption DEF KeyChar, Full, Open, Line, Pos
  <1>4. c \in Byte \ {NL, NUL} /\ n \in Nat
    BY SizeFacts
  <1>5. s.buf = key_buffer /\ s.pos = buffer_pos
    BY <1>2
  <1>6. key_buffer' = r.buf /\ buffer_pos' = r.pos
    BY DEF KeyChar, Buffers
  <1>7. pc' = pc /\ result' = result /\ buf_status' = [buf_status EXCEPT ![t] = 1]
    BY DEF KeyChar, readVars
  <1> DEFINE p == buffer_pos[t]
  <1> HIDE DEF s
  <1>8. p \in 0 .. n /\ s.pos[t] = p /\ s.buf[t] = old /\ Line(old, n)
    BY <1>1, <1>5 DEF Open
  <1> HIDE DEF p, old
  <1>9. /\ Open(r, t, n + 1) /\ r.pos[t] = s.pos[t] + 1
        /\ HasRun(s.buf[t], r.buf[t], n, s.pos[t], c, 1)
    BY <1>1, <1>3, <1>4, OneAdded
  <1> HIDE DEF r
  <1>10. r.pos[t] = p + 1 /\ HasRun(old, r.buf[t], n, p, c, 1)
    BY <1>8, <1>9
  <1>11. OthersSame
    BY PromptKeyChar
  <1>12. KeyEdits(t, n, n + 1)
    BY <1>2, <1>6, <1>7, <1>8, <1>9, <1>11 DEF KeyEdits, Open, old
  <1>13. KeyedRun(<<c>>, 1, c)
    BY <1>4 DEF KeyedRun, Keyed
  <1>14. /\ buffer_pos[t] = p /\ buffer_pos'[t] = p + 1
         /\ HasRun(key_buffer[t], key_buffer'[t], n, p, c, 1)
    BY <1>6, <1>10 DEF p, old
  <1>15. KeyAdds(t, n, p, 1, c)
    BY <1>4, <1>8, <1>12, <1>14 DEF KeyAdds
  <1> QED
    BY <1>13, <1>15, KeyInserts

\* Four times the same character, each time in the row the last call left.
LEMMA FourAdded ==
    ASSUME NEW s, NEW t \in Ter, NEW n \in Nat, Open(s, t, n),
           n <= KEYBOARD_BUFFER_SIZE - 5
    PROVE  LET r == Added(Added(Added(Added(s, t, SPACE), t, SPACE), t, SPACE),
                          t, SPACE)
           IN  /\ Open(r, t, n + 4) /\ r.pos[t] = s.pos[t] + 4
               /\ HasRun(s.buf[t], r.buf[t], n, s.pos[t], SPACE, 4)
  <1> DEFINE Is(r, k) ==
                 /\ Open(r, t, n + k) /\ r.pos[t] = s.pos[t] + k
                 /\ HasRun(s.buf[t], r.buf[t], n, s.pos[t], SPACE, k)
             s1 == Added(s, t, SPACE)
             s2 == Added(s1, t, SPACE)
             s3 == Added(s2, t, SPACE)
             s4 == Added(s3, t, SPACE)
  <1>1. SPACE \in Byte \ {NL, NUL} /\ s.pos[t] \in 0 .. n
        /\ KEYBOARD_BUFFER_SIZE \in Nat
    BY SizeFacts DEF Open
  <1>2. ASSUME NEW r, NEW k \in 0 .. 3, Is(r, k) PROVE Is(Added(r, t, SPACE), k + 1)
    <2>1. k \in Nat /\ n + k <= KEYBOARD_BUFFER_SIZE - 2
      BY <1>1
    <2> QED
      BY <1>1, <1>2, <2>1, AddedRun
  <1>3. Is(s, 0)
    BY <1>1, NoRun DEF Open
  <1> HIDE DEF Is
  <1>4. Is(s1, 0 + 1)
    BY <1>2, <1>3
  <1>5. Is(s2, 1 + 1)
    <2>1. Is(s1, 1)
      BY <1>4
    <2> HIDE DEF s1
    <2> QED  BY <1>2, <2>1
  <1>6. Is(s3, 2 + 1)
    <2>1. Is(s2, 2)
      BY <1>5
    <2> HIDE DEF s2
    <2> QED  BY <1>2, <2>1
  <1>7. Is(s4, 3 + 1)
    <2>1. Is(s3, 3)
      BY <1>6
    <2> HIDE DEF s3
    <2> QED  BY <1>2, <2>1
  <1>8. Is(s4, 4)
    BY <1>7
  <1> HIDE DEF s4
  <1> QED
    BY <1>8 DEF Is, s4

LEMMA TabInserts ==
    ASSUME PromptInv, Prompted, TabFits, KeyTab, NEW t \in Ter, t = cur_ter
    PROVE  Editor!Insert(t)
  <1> DEFINE s == Opened(t)
             r == Added(Added(Added(Added(s, t, SPACE), t, SPACE), t, SPACE),
                        t, SPACE)
             four == <<SPACE, SPACE, SPACE, SPACE>>
             p == buffer_pos[t]
             old == key_buffer[t]
  <1>1. PICK n \in 0 .. KEYBOARD_BUFFER_SIZE - 1 : Open(s, t, n)
    BY PromptedLine
  <1>2. s = [buf |-> key_buffer, pos |-> buffer_pos] /\ buf_status[t] = 1
        /\ old \in Row /\ buf_status \in [Ter -> {0, 1}]
    BY DEF PromptInv, PromptTypes, StatusTypes, Prompted, Opened
  <1>3. n <= KEYBOARD_BUFFER_SIZE - 5 /\ n \in Nat
    BY <1>1, <1>2, LineAssumption DEF TabFits, Open, Line, Pos
  <1>4. s.buf = key_buffer /\ s.pos = buffer_pos
    BY <1>2
  <1>5. key_buffer' = r.buf /\ buffer_pos' = r.pos
    BY DEF KeyTab, Buffers
  <1>6. pc' = pc /\ result' = result /\ buf_status' = [buf_status EXCEPT ![t] = 1]
    BY DEF KeyTab, readVars
  <1> HIDE DEF s
  <1>7. /\ Open(r, t, n + 4) /\ r.pos[t] = s.pos[t] + 4
        /\ HasRun(s.buf[t], r.buf[t], n, s.pos[t], SPACE, 4)
    BY <1>1, <1>3, FourAdded
  <1> HIDE DEF r
  <1>8. p \in 0 .. n /\ Line(old, n)
    BY <1>1, <1>4 DEF Open
  <1>9. OthersSame
    BY PromptKeyTab
  <1>10. KeyEdits(t, n, n + 4)
    BY <1>2, <1>5, <1>6, <1>7, <1>8, <1>9 DEF KeyEdits, Open
  <1>11. KeyedRun(four, 4, SPACE)
    <2>1. four \in Keyed /\ four \in Seq(Byte) /\ Len(four) = 4
      BY SizeFacts DEF Keyed
    <2>2. \A i \in 1 .. 4 : four[i] = SPACE
      OBVIOUS
    <2> HIDE DEF four
    <2> QED
      BY <2>1, <2>2 DEF KeyedRun
  <1>12. /\ buffer_pos[t] = p /\ buffer_pos'[t] = p + 4
         /\ HasRun(old, key_buffer'[t], n, p, SPACE, 4)
    BY <1>4, <1>5, <1>7
  <1> HIDE DEF four, p
  <1>13. KeyAdds(t, n, p, 4, SPACE)
    BY <1>3, <1>8, <1>10, <1>12 DEF KeyAdds
  <1> QED
    BY <1>11, <1>13, KeyInserts

\* A character deleted from a row is one deleted from its text.
LEMMA DeletedText ==
    ASSUME NEW row \in Row, NEW n, Line(row, n), NEW p \in 0 .. n - 1
    PROVE  Shortened(LineText(Deleted(row, p), n - 1), LineText(row, n), p + 1)
  <1> DEFINE gone == Deleted(row, p)
             new == LineText(gone, n - 1)
             text == LineText(row, n)
  <1>1. n \in Nat /\ n <= KEYBOARD_BUFFER_SIZE - 1 /\ p \in Nat
        /\ KEYBOARD_BUFFER_SIZE \in Nat /\ Pos = 0 .. KEYBOARD_BUFFER_SIZE - 1
    BY SizeFacts DEF Line
  <1>2. gone \in Row
    BY DeletedLine
  <1>3. ASSUME NEW i \in Pos, i < p PROVE gone[i] = row[i]
    BY <1>1, <1>3 DEF Deleted
  <1>4. ASSUME NEW i \in Pos, p <= i, i < n PROVE gone[i] = row[i + 1]
    <2>1. i < KEYBOARD_BUFFER_SIZE - 1 /\ \A j \in p + 1 .. i : row[j] # NUL
      BY <1>1, <1>4 DEF Line
    <2> QED
      BY <1>1, <1>4, <2>1 DEF Deleted
  <1> HIDE DEF gone
  <1>5. /\ Len(new) = n - 1 /\ Len(text) = n
        /\ \A i \in 1 .. n - 1 : new[i] = gone[i - 1]
        /\ \A i \in 1 .. n : text[i] = row[i - 1]
    <2>1. n \in 0 .. KEYBOARD_BUFFER_SIZE /\ n - 1 \in 0 .. KEYBOARD_BUFFER_SIZE
      BY <1>1
    <2> QED
      BY <1>2, <2>1, TextIs
  <1> HIDE DEF new, text
  <1>6. ASSUME NEW i \in 1 .. p PROVE new[i] = text[i]
    <2> DEFINE j == i - 1
    <2>1. i \in 1 .. n - 1 /\ i \in 1 .. n /\ j \in Pos /\ j < p
      BY <1>1
    <2>2. new[i] = gone[j] /\ text[i] = row[j]
      BY <1>5, <2>1
    <2> HIDE DEF j
    <2> QED
      BY <1>3, <2>1, <2>2
  <1>7. ASSUME NEW i \in 1 .. n - (p + 1) PROVE new[p + i] = text[p + 1 + i]
    <2> DEFINE h == p + i
               j == h - 1
               l == p + 1 + i
    <2>1. h \in 1 .. n - 1 /\ j \in Pos /\ p <= j /\ j < n
          /\ l \in 1 .. n /\ l - 1 = j + 1
      BY <1>1
    <2>2. new[h] = gone[j]
      <3> HIDE DEF h
      <3> QED  BY <1>5, <2>1 DEF j
    <2> HIDE DEF j, l
    <2>3. text[l] = row[j + 1]
      BY <1>5, <2>1
    <2>4. gone[j] = row[j + 1]
      BY <1>4, <2>1
    <2> QED
      BY <2>2, <2>3, <2>4 DEF l
  <1>8. Len(new) = Len(text) - 1 /\ Len(text) = n /\ p + 1 - 1 = p
    BY <1>1, <1>5
  <1>9. /\ \A i \in 1 .. (p + 1) - 1 : new[i] = text[i]
        /\ \A i \in 1 .. Len(text) - (p + 1) : new[(p + 1) - 1 + i] = text[p + 1 + i]
    BY <1>6, <1>7, <1>8
  <1> QED
    BY <1>8, <1>9 DEF Shortened, new, text, gone

LEMMA BackspaceDeletes ==
    ASSUME PromptInv, Prompted, KeyBackspace, NEW t \in Ter, t = cur_ter
    PROVE  Editor!Delete(t)
  <1> DEFINE row == key_buffer[t]
             q == buffer_pos[t]
             p == q - 1
             gone == Deleted(row, p)
  <1>1. PICK n \in 0 .. KEYBOARD_BUFFER_SIZE - 1 : Line(row, n) /\ q \in 0 .. n
    BY DEF PromptInv, PromptTypes, StatusTypes, Prompted, Fits
  <1>2. /\ row \in Row /\ buf_status[t] = 1 /\ buf_status' = buf_status
        /\ pc' = pc /\ result' = result /\ q # 0
        /\ key_buffer' = [key_buffer EXCEPT ![t] = gone]
        /\ buffer_pos' = [buffer_pos EXCEPT ![t] = p]
    BY DEF PromptInv, PromptTypes, Prompted, KeyBackspace, readVars
  <1>3. p \in 0 .. n - 1 /\ p + 1 = q /\ q \in 1 .. n /\ n \in Nat
        /\ n \in 0 .. KEYBOARD_BUFFER_SIZE /\ n - 1 \in 0 .. KEYBOARD_BUFFER_SIZE
    <2>1. q # 0 /\ q \in 0 .. n
      BY <1>1, <1>2
    <2> HIDE DEF q
    <2> QED
      BY <2>1, SizeFacts
  <1> HIDE DEF q
  <1>4. gone \in Row /\ Line(gone, n - 1)
    BY <1>1, <1>2, <1>3, DeletedLine
  <1> DEFINE text == LineText(row, n)
             new == LineText(gone, n - 1)
  <1>5. Shortened(new, text, p + 1)
    BY <1>1, <1>2, <1>3, DeletedText
  <1>6. text \in Seq(Byte) /\ Len(text) = n /\ new \in Seq(Byte)
    <2> HIDE DEF gone
    <2> QED  BY <1>2, <1>3, <1>4, TextIs
  <1>7. key_buffer'[t] = gone /\ buffer_pos'[t] = p
    <2> HIDE DEF gone, p
    <2> QED  BY <1>2 DEF PromptInv, PromptTypes
  <1> HIDE DEF p, gone
  <1>8. KeyEdits(t, n, n - 1)
    <2>1. OthersSame
      BY PromptKeyBackspace
    <2> QED
      BY <1>1, <1>2, <1>4, <1>7, <2>1 DEF KeyEdits
  <1>9. /\ states[t] = "edit" /\ states' = states
        /\ texts[t] = text /\ cursors[t] = q
        /\ texts' = [texts EXCEPT ![t] = new]
        /\ cursors' = [cursors EXCEPT ![t] = p]
    BY <1>7, <1>8, KeyEffect DEF q
  <1> HIDE DEF text, new
  <1>10. new = SubSeq(SubSeq(text, 1, q), 1, q - 1) \o SubSeq(text, q + 1, Len(text))
    <2>1. q \in 1 .. Len(text) /\ Shortened(new, text, q)
      BY <1>3, <1>5, <1>6
    <2> QED
      BY <1>6, <2>1, ShortenedIs
  <1>11. new = SubSeq(Editor!Left(t), 1, cursors[t] - 1) \o Editor!Right(t)
    BY <1>9, <1>10 DEF Editor!Left, Editor!Right
  <1>12. cursors[t] > 0 /\ cursors' = [cursors EXCEPT ![t] = @ - 1]
    BY <1>3, <1>9 DEF p
  <1> QED
    BY <1>2, <1>9, <1>11, <1>12 DEF Editor!Delete

LEMMA ArrowMoves ==
    ASSUME PromptInv, Prompted, KeyLeft \/ KeyRight, NEW t \in Ter, t = cur_ter
    PROVE  Editor!Move(t)
  <1> DEFINE p == buffer_pos[t]
             row == key_buffer[t]
  <1>1. PICK n \in 0 .. KEYBOARD_BUFFER_SIZE - 1 : Line(row, n) /\ p \in 0 .. n
    BY DEF PromptInv, PromptTypes, StatusTypes, Prompted, Fits
  <1>2. t \in Nat /\ KEYBOARD_BUFFER_SIZE \in Nat
    BY SizeFacts DEF Ter
  <1>3. /\ row \in Row /\ buf_status[t] = 1 /\ buffer_pos \in [Ter -> Nat]
        /\ UNCHANGED <<key_buffer, buf_status, pc, result>>
    BY DEF PromptInv, PromptTypes, Prompted, KeyLeft, KeyRight, readVars
  <1>4. PICK q \in {p - 1, p + 1} \cap (0 .. n) : buffer_pos' = [buffer_pos EXCEPT ![t] = q]
    <2>1. CASE KeyLeft
      <3>1. p - 1 \in 0 .. n
        BY <1>1, <2>1 DEF KeyLeft
      <3>2. buffer_pos' = [buffer_pos EXCEPT ![t] = p - 1]
        BY <2>1 DEF KeyLeft
      <3> QED
        BY <3>1, <3>2
    <2>2. CASE KeyRight
      <3>1. p < KEYBOARD_BUFFER_SIZE
        BY <1>1, <1>2
      <3>2. p \div KEYBOARD_BUFFER_SIZE = 0 /\ p % KEYBOARD_BUFFER_SIZE = p
        BY <1>1, <1>2, <3>1
      <3>3. row[p] # NUL
        BY <1>2, <2>2, <3>2 DEF KeyRight, InArray, RowOf, Cell
      <3>4. p < n
        BY <1>1, <1>2, <3>1, <3>3 DEF Line, Pos
      <3>5. p + 1 \in 0 .. n
        BY <1>1, <3>4
      <3>6. buffer_pos' = [buffer_pos EXCEPT ![t] = p + 1]
        BY <2>2 DEF KeyRight
      <3> HIDE DEF p
      <3> QED
        BY <3>5, <3>6
    <2> QED
      BY <2>1, <2>2
  <1>5. buffer_pos'[t] = q
    BY <1>3, <1>4
  <1>6. KeyEdits(t, n, n)
    <2>1. OthersSame
      BY PromptKeyArrow
    <2> QED
      BY <1>1, <1>3, <2>1 DEF KeyEdits
  <1> DEFINE text == LineText(row, n)
  <1>7. text \in Seq(Byte) /\ Len(text) = n
    BY <1>2, <1>3, TextIs
  <1>8. key_buffer'[t] = row
    BY <1>3
  <1>9. /\ states[t] = "edit" /\ states' = states
        /\ texts[t] = text /\ cursors[t] = p
        /\ texts' = [texts EXCEPT ![t] = text]
        /\ cursors' = [cursors EXCEPT ![t] = q]
    <2> HIDE DEF row
    <2> QED  BY <1>5, <1>6, <1>8, KeyEffect DEF row
  <1> HIDE DEF text, p
  <1>10. texts' = texts
    BY <1>9 DEF texts
  <1>11. q \in {cursors[t] - 1, cursors[t] + 1} \cap (0 .. Len(texts[t]))
    BY <1>7, <1>9
  <1> QED
    BY <1>3, <1>9, <1>10, <1>11 DEF Editor!Move

\* Enter ends the line and leaves its characters as they are.
LEMMA EnteredText ==
    ASSUME NEW row \in Row, NEW n, Line(row, n)
    PROVE  LineText(WithNewline(row), n) = LineText(row, n)
  <1>1. n \in Nat /\ n <= KEYBOARD_BUFFER_SIZE - 1 /\ KEYBOARD_BUFFER_SIZE \in Nat
        /\ Pos = 0 .. KEYBOARD_BUFFER_SIZE - 1
    BY SizeFacts DEF Line
  <1>2. ASSUME NEW i \in 1 .. n PROVE WithNewline(row)[i - 1] = row[i - 1]
    <2> DEFINE j == i - 1
    <2>1. j \in Pos /\ j < n
      BY <1>1
    <2> HIDE DEF j
    <2>2. row[j] # NUL
      BY <2>1 DEF Line
    <2>3. WithNewline(row)[j] = row[j]
      BY <2>1, <2>2 DEF WithNewline
    <2> QED
      BY <2>3 DEF j
  <1> QED
    BY <1>2 DEF LineText

-----------------------------------------------------------------------------
(***************************************************************************)
(* Lines entered, and terminals without a line.                            *)
(***************************************************************************)
LEMMA EnteredShows ==
    ASSUME NEW t \in Ter, key_buffer[t] \in Row, buf_status[t] = 0,
           pc[t] \in {"wait", "copy"}, NEW n, Entered(key_buffer[t], n)
    PROVE  Shows(t, "entered", LineText(key_buffer[t], n), buffer_pos[t])
  <1>1. State(t) = "entered"
    BY DEF State
  <1>2. TextOf(t) = Characters(key_buffer[t]) /\ CursorOf(t) = buffer_pos[t]
    BY <1>1 DEF TextOf, CursorOf
  <1>3. Characters(key_buffer[t]) = LineText(key_buffer[t], n)
    BY CharactersIs
  <1> QED
    BY <1>1, <1>2, <1>3 DEF Shows

LEMMA EnteredShowsNext ==
    ASSUME NEW t \in Ter, key_buffer'[t] \in Row, buf_status'[t] = 0,
           pc'[t] \in {"wait", "copy"}, NEW n, Entered(key_buffer'[t], n)
    PROVE  WillShow(t, "entered", LineText(key_buffer'[t], n), buffer_pos'[t])
  <1>1. State(t)' = "entered"
    BY DEF State
  <1>2. TextOf(t)' = Characters(key_buffer'[t]) /\ CursorOf(t)' = buffer_pos'[t]
    BY <1>1 DEF TextOf, CursorOf
  <1>3. Characters(key_buffer'[t]) = LineText(key_buffer'[t], n)
    BY CharactersIs
  <1> QED
    BY <1>1, <1>2, <1>3 DEF WillShow

LEMMA IdleShows ==
    ASSUME NEW t \in Ter, buf_status[t] = 0, pc[t] \notin {"wait", "copy"}
    PROVE  Shows(t, "idle", <<>>, 0)
  BY DEF State, TextOf, CursorOf, Shows

LEMMA IdleShowsNext ==
    ASSUME NEW t \in Ter, buf_status'[t] = 0, pc'[t] \notin {"wait", "copy"}
    PROVE  WillShow(t, "idle", <<>>, 0)
  BY DEF State, TextOf, CursorOf, WillShow

\* A step after which a terminal shows what it showed is none of the editor's.
LEMMA NothingShown ==
    ASSUME NEW t \in Ter, Aside(t), NEW st, NEW tx, NEW cu,
           Shows(t, st, tx, cu), WillShow(t, st, tx, cu), result' = result
    PROVE  UNCHANGED Editor!editorVars
  <1>1. Effect(t, st, tx, cu)
    BY EffectIs
  <1>2. states[t] = st /\ texts[t] = tx /\ cursors[t] = cu
    BY DEF Shows, states, texts, cursors
  <1>3. states' = states /\ texts' = texts /\ cursors' = cursors
    BY <1>1, <1>2 DEF Effect, states, texts, cursors
  <1> QED
    BY <1>3 DEF Editor!editorVars

LEMMA EnterEnters ==
    ASSUME PromptInv, Prompted, KeyEnter, NEW t \in Ter, t = cur_ter
    PROVE  Editor!Enter(t)
  <1> DEFINE row == key_buffer[t]
             whole == WithNewline(row)
  <1>1. PICK n \in 0 .. KEYBOARD_BUFFER_SIZE - 1 : Line(row, n)
    BY DEF PromptInv, PromptTypes, StatusTypes, Prompted, Fits
  <1>2. /\ row \in Row /\ buf_status[t] = 1 /\ pc[t] = "wait"
        /\ key_buffer' = [key_buffer EXCEPT ![t] = whole]
        /\ buf_status' = [buf_status EXCEPT ![t] = 0]
        /\ UNCHANGED <<buffer_pos, pc, result>>
    BY DEF PromptInv, PromptTypes, Prompted, KeyEnter, readVars
  <1>3. whole \in Row /\ Entered(whole, n)
    BY <1>1, <1>2, EnteredLine
  <1> DEFINE text == LineText(row, n)
  <1>4. LineText(whole, n) = text
    BY <1>1, <1>2, EnteredText
  <1>5. Shows(t, "edit", text, buffer_pos[t])
    BY <1>1, <1>2, EditedShows
  <1> HIDE DEF whole
  <1>6. key_buffer'[t] = whole /\ buf_status'[t] = 0 /\ pc'[t] = "wait"
        /\ buffer_pos'[t] = buffer_pos[t]
    BY <1>2 DEF PromptInv, PromptTypes, StatusTypes
  <1>7. WillShow(t, "entered", text, buffer_pos[t])
    BY <1>3, <1>4, <1>6, EnteredShowsNext
  <1>8. Aside(t)
    <2>1. OthersSame
      BY PromptKeyEnter
    <2> QED
      BY <1>2, <2>1 DEF OthersSame, Aside
  <1> HIDE DEF text
  <1>9. Effect(t, "entered", text, buffer_pos[t])
    BY <1>7, <1>8, EffectIs
  <1>10. states[t] = "edit" /\ texts[t] = text /\ cursors[t] = buffer_pos[t]
    BY <1>5 DEF Shows, states, texts, cursors
  <1>11. /\ states' = [states EXCEPT ![t] = "entered"]
         /\ texts' = texts /\ cursors' = cursors
    BY <1>9, <1>10 DEF Effect, texts, cursors
  <1> QED
    BY <1>2, <1>10, <1>11 DEF Editor!Enter

-----------------------------------------------------------------------------
(***************************************************************************)
(* terminal_read.                                                          *)
(***************************************************************************)

\* A row with a line entered has its newline and free bytes behind it.
LEMMA EnteredCount ==
    ASSUME NEW row \in Row, NEW n, Entered(row, n)
    PROVE  Count(row) = n + 1
  <1> DEFINE k == Count(row)
  <1>1. n \in Nat /\ n <= KEYBOARD_BUFFER_SIZE - 1 /\ n \in Pos
        /\ KEYBOARD_BUFFER_SIZE \in Nat /\ Pos = 0 .. KEYBOARD_BUFFER_SIZE - 1
    BY SizeFacts DEF Entered
  <1>2. /\ k \in 0 .. KEYBOARD_BUFFER_SIZE
        /\ \A i \in 0 .. k - 1 : row[i] # NUL
        /\ k \in Pos => row[k] = NUL
    BY CountIs
  <1> HIDE DEF k
  <1>3. ~ (k <= n)
    <2> SUFFICES ASSUME k <= n PROVE FALSE
      OBVIOUS
    <2>1. k \in Pos
      BY <1>1, <1>2
    <2>2. row[k] # NUL
      BY <1>1, <1>2, <2>1, SizeFacts DEF Entered
    <2> QED
      BY <1>2, <2>1, <2>2
  <1>4. ~ (k > n + 1)
    <2> SUFFICES ASSUME k > n + 1 PROVE FALSE
      OBVIOUS
    <2> DEFINE j == n + 1
    <2>1. j \in Pos /\ j \in 0 .. k - 1 /\ ~ (j < n) /\ j # n
      BY <1>1, <1>2
    <2> HIDE DEF j
    <2>2. row[j] = NUL
      BY <2>1 DEF Entered
    <2> QED
      BY <1>2, <2>1, <2>2
  <1> QED
    BY <1>1, <1>2, <1>3, <1>4 DEF k

\* One more character at the end of a sequence.
LEMMA AppendIs ==
    ASSUME NEW s \in Seq(Byte), NEW c \in Byte
    PROVE  /\ Append(s, c) \in Seq(Byte) /\ Len(Append(s, c)) = Len(s) + 1
           /\ \A i \in 1 .. Len(s) : Append(s, c)[i] = s[i]
           /\ Append(s, c)[Len(s) + 1] = c
  OBVIOUS

\* A program that asks for length characters gets the line, or its beginning,
\* and a newline.
LEMMA CopiedIs ==
    ASSUME NEW row \in Row, NEW n, Entered(row, n), NEW length \in Lengths
    PROVE  Copied(row, length) = Editor!Cut(LineText(row, n), length)
  <1> DEFINE got == Copied(row, length)
             text == LineText(row, n)
             short == SubSeq(text, 1, length - 1)
  <1>1. n \in Nat /\ n <= KEYBOARD_BUFFER_SIZE - 1 /\ n \in 0 .. KEYBOARD_BUFFER_SIZE
        /\ length \in Nat /\ n \in Pos
        /\ KEYBOARD_BUFFER_SIZE \in Nat /\ Pos = 0 .. KEYBOARD_BUFFER_SIZE - 1
    BY SizeFacts, LineAssumption DEF Entered
  <1>2. got = [i \in 1 .. (IF length <= n + 1 THEN length ELSE n + 1) |->
                  IF i = length THEN NL ELSE row[i - 1]]
    BY EnteredCount DEF Copied
  <1>3. text \in Seq(Byte) /\ Len(text) = n /\ \A i \in 1 .. n : text[i] = row[i - 1]
    BY <1>1, TextIs
  <1>4. got \in Seq(Byte)
    BY CopiedBytes
  <1>5. row[n] = NL
    BY <1>1 DEF Entered
  <1> HIDE DEF got, text
  <1>6. CASE n < length
    <2> DEFINE cut == Append(text, NL)
    <2>1. /\ cut \in Seq(Byte) /\ Len(cut) = n + 1
          /\ \A i \in 1 .. n : cut[i] = text[i]
          /\ cut[n + 1] = NL
      BY <1>3, AppendIs, SizeFacts
    <2>2. Editor!Cut(text, length) = cut
      BY <1>1, <1>3, <1>6 DEF Editor!Cut
    <2> HIDE DEF cut
    <2>3. got = [i \in 1 .. n + 1 |-> IF i = length THEN NL ELSE row[i - 1]]
      <3>1. (IF length <= n + 1 THEN length ELSE n + 1) = n + 1
        BY <1>1, <1>6
      <3> QED
        BY <1>2, <3>1
    <2>4. Len(got) = n + 1
      BY <1>1, <1>4, <2>3
    <2>5. ASSUME NEW i \in 1 .. n + 1 PROVE got[i] = cut[i]
      <3>1. CASE i = n + 1
        <4>1. i - 1 = n
          BY <1>1, <3>1
        <4> QED
          BY <1>5, <2>1, <2>3, <3>1, <4>1
      <3>2. CASE i # n + 1
        <4>1. i \in 1 .. n /\ i # length
          BY <1>1, <1>6, <3>2
        <4> QED
          BY <1>3, <2>1, <2>3, <4>1
      <3> QED
        BY <3>1, <3>2
    <2>6. got = cut
      BY <1>4, <2>1, <2>4, <2>5, SeqEqual
    <2> QED
      BY <2>2, <2>6 DEF got, text
  <1>7. CASE length <= n /\ length # 0
    <2> DEFINE cut == Append(short, NL)
               m == length - 1
    <2>0. m \in Nat /\ m \in 0 .. n /\ m + 1 = length
      BY <1>1, <1>7
    <2>1. short \in Seq(Byte) /\ Len(short) = m
          /\ \A i \in 1 .. m : short[i] = text[i]
      <3> HIDE DEF m
      <3>1. /\ SubSeq(text, 1, m) \in Seq(Byte) /\ Len(SubSeq(text, 1, m)) = m
            /\ \A i \in 1 .. m : SubSeq(text, 1, m)[i] = text[i]
        BY <1>3, <2>0, Parts
      <3> QED
        BY <3>1 DEF m
    <2>2. Editor!Cut(text, length) = cut
      BY <1>1, <1>3, <1>7 DEF Editor!Cut
    <2> HIDE DEF short, m
    <2>3. /\ cut \in Seq(Byte) /\ Len(cut) = m + 1
          /\ \A i \in 1 .. m : cut[i] = short[i]
          /\ cut[m + 1] = NL
      BY <2>1, AppendIs, SizeFacts
    <2> HIDE DEF cut
    <2>4. got = [i \in 1 .. length |-> IF i = length THEN NL ELSE row[i - 1]]
      <3>1. (IF length <= n + 1 THEN length ELSE n + 1) = length
        BY <1>1, <1>7
      <3> QED
        BY <1>2, <3>1
    <2>5. Len(got) = length
      BY <1>1, <1>4, <2>4
    <2>6. ASSUME NEW i \in 1 .. length PROVE got[i] = cut[i]
      <3>1. CASE i = length
        BY <2>0, <2>3, <2>4, <3>1
      <3>2. CASE i # length
        <4>1. i \in 1 .. m /\ i \in 1 .. n
          BY <1>1, <1>7, <2>0, <3>2
        <4> QED
          BY <1>3, <2>1, <2>3, <2>4, <3>2, <4>1
      <3> QED
        BY <3>1, <3>2
    <2>7. got = cut
      BY <1>4, <2>0, <2>3, <2>5, <2>6, SeqEqual
    <2> QED
      BY <2>2, <2>7 DEF got, text
  <1>8. CASE length = 0
    <2>1. Len(got) = 0
      BY <1>1, <1>2, <1>4, <1>8
    <2>2. got = <<>>
      BY <1>4, <2>1
    <2>3. Editor!Cut(text, length) = <<>>
      BY <1>8 DEF Editor!Cut
    <2> QED
      BY <2>2, <2>3 DEF got, text
  <1> QED
    BY <1>1, <1>6, <1>7, <1>8

\* A step of terminal_read touches its own terminal only.
LEMMA ReadingAside ==
    ASSUME PromptInv, NEW t \in Ter, Reading(t)
    PROVE  Aside(t)
  <1> USE DEF GoTo, keyVars, PromptInv, PromptTypes, StatusTypes, Same, Aside
  <1>1. CASE ReadCall(t)
    BY <1>1 DEF ReadCall
  <1>2. CASE ReadReset(t)
    BY <1>2 DEF ReadReset
  <1>3. CASE ReadWipe(t)
    BY <1>3 DEF ReadWipe
  <1>4. CASE ReadMark(t)
    BY <1>4 DEF ReadMark, Marked
  <1>5. CASE ReadLeave(t)
    BY <1>5 DEF ReadLeave
  <1>6. CASE ReadCopy(t)
    BY <1>6 DEF ReadCopy
  <1>7. CASE Halted(t)
    BY <1>7 DEF Halted
  <1> QED
    BY <1>1, <1>2, <1>3, <1>4, <1>5, <1>6, <1>7 DEF Reading

\* The row is clear and the cursor at its start when the editor starts.
LEMMA ReadMarkStarts ==
    ASSUME PromptInv, NEW t \in Ter, ReadMark(t)
    PROVE  Editor!StartLine(t)
  <1> DEFINE row == key_buffer[t]
  <1>1. /\ row \in Row /\ buf_status[t] = 0 /\ pc[t] = "mark" /\ buffer_pos[t] = 0
        /\ \A i \in Pos : row[i] = NUL
    BY DEF PromptInv, PromptTypes, StatusTypes, Fits, ReadMark, GoTo
  <1>2. /\ key_buffer'[t] = row /\ buf_status'[t] = 1 /\ buffer_pos'[t] = 0
        /\ result' = result
    BY <1>1 DEF PromptInv, PromptTypes, StatusTypes, ReadMark, Marked
  <1>3. Line(row, 0)
    BY <1>1, SizeFacts DEF Line
  <1> HIDE DEF row
  <1>4. LineText(row, 0) = <<>>
    <2>1. 0 \in 0 .. KEYBOARD_BUFFER_SIZE
      BY SizeFacts
    <2>2. LineText(row, 0) \in Seq(Byte) /\ Len(LineText(row, 0)) = 0
      BY <1>1, <2>1, TextIs
    <2> QED
      BY <2>2, EmptySeq
  <1>5. Shows(t, "idle", <<>>, 0)
    BY <1>1, IdleShows
  <1>6. WillShow(t, "edit", <<>>, 0)
    BY <1>1, <1>2, <1>3, <1>4, EditedShowsNext
  <1>7. Effect(t, "edit", <<>>, 0)
    <2>1. Aside(t)
      BY ReadingAside DEF Reading
    <2> QED
      BY <1>6, <2>1, EffectIs
  <1>8. states[t] = "idle" /\ texts[t] = <<>> /\ cursors[t] = 0
    BY <1>5 DEF Shows, states, texts, cursors
  <1>9. states' = [states EXCEPT ![t] = "edit"] /\ texts' = texts /\ cursors' = cursors
    BY <1>7, <1>8 DEF Effect, texts, cursors
  <1> QED
    BY <1>2, <1>8, <1>9 DEF Editor!StartLine

\* The terminal has a line entered before the step and none after it.
Leaves(t, n) ==
    /\ key_buffer[t] \in Row /\ Entered(key_buffer[t], n)
    /\ buf_status[t] = 0 /\ pc[t] \in {"wait", "copy"}
    /\ buf_status'[t] = 0 /\ pc'[t] \notin {"wait", "copy"}
    /\ Aside(t)

LEMMA LeavesForgets ==
    ASSUME NEW t \in Ter, NEW n, Leaves(t, n)
    PROVE  Editor!Forget(t) /\ texts[t] = LineText(key_buffer[t], n)
  <1> DEFINE text == LineText(key_buffer[t], n)
  <1>1. Shows(t, "entered", text, buffer_pos[t])
    BY EnteredShows DEF Leaves
  <1>2. WillShow(t, "idle", <<>>, 0)
    BY IdleShowsNext DEF Leaves
  <1> HIDE DEF text
  <1>3. Effect(t, "idle", <<>>, 0)
    BY <1>2, EffectIs DEF Leaves
  <1>4. states[t] = "entered" /\ texts[t] = text
    BY <1>1 DEF Shows, states, texts
  <1> QED
    BY <1>3, <1>4 DEF Effect, Editor!Forget, text

LEMMA CopyReturns ==
    ASSUME PromptInv, NEW t \in Ter, ReadCopy(t)
    PROVE  Editor!Return(t)
  <1> DEFINE row == key_buffer[t]
  <1>1. /\ row \in Row /\ buf_status[t] = 0 /\ pc[t] = "copy" /\ buf_status' = buf_status
        /\ pc'[t] = "user"
    BY DEF PromptInv, PromptTypes, StatusTypes, Fits, ReadCopy, GoTo, keyVars
  <1>2. PICK n \in Pos : Entered(row, n)
    BY <1>1 DEF PromptInv, Fits
  <1>3. PICK length \in Lengths :
            result' = [result EXCEPT ![t] = Copied(row, length)]
    BY DEF ReadCopy
  <1>4. Aside(t)
    BY ReadingAside DEF Reading
  <1>5. Leaves(t, n)
    BY <1>1, <1>2, <1>4 DEF Leaves
  <1>6. Editor!Forget(t) /\ texts[t] = LineText(row, n)
    BY <1>5, LeavesForgets
  <1>7. Copied(row, length) = Editor!Cut(texts[t], length)
    BY <1>1, <1>2, <1>6, CopiedIs
  <1> HIDE DEF row
  <1>8. \E m \in Lengths : result' = [result EXCEPT ![t] = Editor!Cut(texts[t], m)]
    BY <1>3, <1>7
  <1> QED
    BY <1>6, <1>8 DEF Editor!Return

\* A program halted while it reads: its line is dropped if it was entered, and
\* stays if it is edited still.
LEMMA HaltedDrops ==
    ASSUME PromptInv, NEW t \in Ter, Halted(t)
    PROVE  Editor!Drop(t) \/ UNCHANGED Editor!editorVars
  <1>1. /\ key_buffer[t] \in Row /\ buf_status[t] \in {0, 1} /\ pc'[t] = "user"
        /\ UNCHANGED <<key_buffer, buffer_pos, buf_status, result>>
    BY DEF PromptInv, PromptTypes, StatusTypes, Halted, keyVars
  <1>2. Aside(t)
    BY ReadingAside DEF Reading
  <1>3. CASE buf_status[t] = 1
    <2>1. PICK n \in 0 .. KEYBOARD_BUFFER_SIZE - 1 : Line(key_buffer[t], n)
      BY <1>3 DEF PromptInv, Fits
    <2> DEFINE text == LineText(key_buffer[t], n)
    <2>2. Shows(t, "edit", text, buffer_pos[t])
      BY <1>1, <1>3, <2>1, EditedShows
    <2>3. WillShow(t, "edit", text, buffer_pos[t])
      <3>1. key_buffer'[t] = key_buffer[t] /\ buf_status'[t] = 1
            /\ buffer_pos'[t] = buffer_pos[t]
        BY <1>1, <1>3
      <3> QED
        BY <1>1, <2>1, <3>1, EditedShowsNext
    <2> HIDE DEF text
    <2> QED
      BY <1>1, <1>2, <2>2, <2>3, NothingShown
  <1>4. CASE buf_status[t] = 0 /\ pc[t] \in {"wait", "copy"}
    <2>1. PICK n \in Pos : Entered(key_buffer[t], n)
      BY <1>4 DEF PromptInv, Fits
    <2>2. Leaves(t, n)
      BY <1>1, <1>2, <1>4, <2>1 DEF Leaves
    <2>3. Editor!Forget(t)
      BY <2>2, LeavesForgets
    <2> QED
      BY <1>1, <2>3 DEF Editor!Drop
  <1>5. CASE buf_status[t] = 0 /\ pc[t] \notin {"wait", "copy"}
    <2>1. Shows(t, "idle", <<>>, 0)
      BY <1>5, IdleShows
    <2>2. WillShow(t, "idle", <<>>, 0)
      BY <1>1, <1>5, IdleShowsNext
    <2> QED
      BY <1>1, <1>2, <2>1, <2>2, NothingShown
  <1> QED
    BY <1>1, <1>3, <1>4, <1>5

\* The other steps of terminal_read are none of the editor's.
LEMMA ReadingHidden ==
    ASSUME PromptInv, NEW t \in Ter,
           ReadCall(t) \/ ReadReset(t) \/ ReadWipe(t) \/ ReadLeave(t)
    PROVE  UNCHANGED Editor!editorVars
  <1>1. Aside(t) /\ result' = result
    <2>1. Aside(t)
      BY ReadingAside DEF Reading
    <2> QED
      BY <2>1 DEF ReadCall, ReadReset, ReadWipe, ReadLeave
  <1>2. CASE ReadCall(t) /\ buf_status[t] = 1
    <2>1. PICK n \in 0 .. KEYBOARD_BUFFER_SIZE - 1 : Line(key_buffer[t], n)
      BY <1>2 DEF PromptInv, Fits
    <2> DEFINE text == LineText(key_buffer[t], n)
    <2>2. /\ key_buffer[t] \in Row /\ key_buffer'[t] = key_buffer[t]
          /\ buf_status'[t] = 1 /\ buffer_pos'[t] = buffer_pos[t]
      BY <1>2 DEF PromptInv, PromptTypes, ReadCall, keyVars
    <2>3. Shows(t, "edit", text, buffer_pos[t])
      BY <1>2, <2>1, <2>2, EditedShows
    <2>4. WillShow(t, "edit", text, buffer_pos[t])
      BY <2>1, <2>2, EditedShowsNext
    <2> HIDE DEF text
    <2> QED
      BY <1>1, <2>3, <2>4, NothingShown
  <1>3. CASE (ReadCall(t) /\ buf_status[t] # 1) \/ ReadReset(t) \/ ReadWipe(t)
    <2>1. /\ buf_status[t] = 0 /\ pc[t] \notin {"wait", "copy"}
          /\ buf_status'[t] = 0 /\ pc'[t] \notin {"wait", "copy"}
      BY <1>3 DEF PromptInv, PromptTypes, StatusTypes, Fits, ReadCall, ReadReset,
                  ReadWipe, GoTo, keyVars
    <2>2. Shows(t, "idle", <<>>, 0) /\ WillShow(t, "idle", <<>>, 0)
      BY <2>1, IdleShows, IdleShowsNext
    <2> QED
      BY <1>1, <2>2, NothingShown
  <1>4. CASE ReadLeave(t)
    <2>1. /\ key_buffer[t] \in Row /\ key_buffer'[t] = key_buffer[t]
          /\ buffer_pos'[t] = buffer_pos[t] /\ buf_status[t] = 0
          /\ buf_status'[t] = 0 /\ pc[t] = "wait" /\ pc'[t] = "copy"
      BY <1>4 DEF PromptInv, PromptTypes, StatusTypes, ReadLeave, LineReady, GoTo,
                  keyVars
    <2>2. PICK n \in Pos : Entered(key_buffer[t], n)
      BY <2>1 DEF PromptInv, Fits
    <2> DEFINE text == LineText(key_buffer[t], n)
    <2>3. Shows(t, "entered", text, buffer_pos[t])
      BY <2>1, <2>2, EnteredShows
    <2>4. WillShow(t, "entered", text, buffer_pos[t])
      BY <2>1, <2>2, EnteredShowsNext
    <2> HIDE DEF text
    <2> QED
      BY <1>1, <2>3, <2>4, NothingShown
  <1> QED
    BY <1>2, <1>3, <1>4

-----------------------------------------------------------------------------
(***************************************************************************)
(* The theorem.                                                            *)
(***************************************************************************)
LEMMA EditorStarts == Init => Editor!EditorInit
  <1> SUFFICES ASSUME Init PROVE Editor!EditorInit
    OBVIOUS
  <1>1. ASSUME NEW t \in Ter PROVE Shows(t, "idle", <<>>, 0)
    BY <1>1, IdleShows DEF Init
  <1>2. /\ states = [t \in Ter |-> "idle"] /\ texts = [t \in Ter |-> <<>>]
        /\ cursors = [t \in Ter |-> 0]
    BY <1>1 DEF Shows, states, texts, cursors
  <1> QED
    BY <1>2 DEF Init, Editor!EditorInit

LEMMA KeyStepsEditor ==
    ASSUME PromptInv, Prompted, PlainKey \/ (TabFits /\ KeyTab)
    PROVE  Editor!EditorNext
  <1>1. PICK t \in Ter : t = cur_ter
    BY DEF PromptInv, PromptTypes, StatusTypes
  <1>2. ASSUME NEW c \in Char, KeyChar(c) PROVE Editor!Insert(t)
    BY <1>1, <1>2, CharInserts
  <1>3. CASE TabFits /\ KeyTab
    BY <1>1, <1>3, TabInserts DEF Editor!EditorNext
  <1>4. CASE KeyEnter
    BY <1>1, <1>4, EnterEnters DEF Editor!EditorNext
  <1>5. CASE KeyBackspace
    BY <1>1, <1>5, BackspaceDeletes DEF Editor!EditorNext
  <1>6. CASE KeyLeft \/ KeyRight
    BY <1>1, <1>6, ArrowMoves DEF Editor!EditorNext
  <1> QED
    BY <1>2, <1>3, <1>4, <1>5, <1>6 DEF PlainKey, Editor!EditorNext

LEMMA ReadStepsEditor ==
    ASSUME PromptInv, NEW t \in Ter, Reading(t)
    PROVE  [Editor!EditorNext]_(Editor!editorVars)
  <1>1. CASE ReadMark(t)
    BY <1>1, ReadMarkStarts DEF Editor!EditorNext
  <1>2. CASE ReadCopy(t)
    BY <1>2, CopyReturns DEF Editor!EditorNext
  <1>3. CASE Halted(t)
    BY <1>3, HaltedDrops DEF Editor!EditorNext
  <1>4. CASE ReadCall(t) \/ ReadReset(t) \/ ReadWipe(t) \/ ReadLeave(t)
    BY <1>4, ReadingHidden
  <1> QED
    BY <1>1, <1>2, <1>3, <1>4 DEF Reading

LEMMA EditorStep ==
    PromptInv /\ [OrderlyNext]_vars => [Editor!EditorNext]_(Editor!editorVars)
  <1> SUFFICES ASSUME PromptInv, [OrderlyNext]_vars
               PROVE  [Editor!EditorNext]_(Editor!editorVars)
    OBVIOUS
  <1>1. ASSUME \A t \in Ter : Same(t) /\ pc'[t] = pc[t], result' = result
        PROVE  UNCHANGED Editor!editorVars
    BY <1>1, SameShown DEF Editor!editorVars, states, texts, cursors
  <1>2. CASE Prompted /\ (PlainKey \/ (TabFits /\ KeyTab))
    BY <1>2, KeyStepsEditor
  <1>3. ASSUME NEW t \in Ter, KeyTerminal(t) PROVE UNCHANGED Editor!editorVars
    BY <1>1, <1>3 DEF KeyTerminal, keyVars, readVars, Same
  <1>4. ASSUME NEW t \in Readers, Reading(t)
        PROVE  [Editor!EditorNext]_(Editor!editorVars)
    BY <1>4, ReadStepsEditor, LineAssumption
  <1>5. CASE UNCHANGED vars
    BY <1>1, <1>5 DEF vars, keyVars, readVars, Same
  <1> QED
    BY <1>2, <1>3, <1>4, <1>5 DEF OrderlyNext

\* For a user who types at the prompt, the rows, the cursors and the loop on
\* buf_status are a line editor: each key is one operation on the line, and a
\* program is given the very line that was entered, or its beginning, with a
\* newline at its end (keyboard.c:211-494, terminal_driver.c:182-227).
THEOREM LinesImplementEditor == OrderlySpec => ImplementsLineEditor
  BY EditorStarts, EditorStep, PromptAlways, PTL
  DEF OrderlySpec, ImplementsLineEditor, Editor!Edits
=============================================================================
