----------------------------- MODULE DisplayProofs -----------------------------
(***************************************************************************)
(* Under the conditions of OrderlySpec, for any number of terminals, any   *)
(* size of the screen on which a line fits and any programs that draw:     *)
(* every cursor is on the screen, every line that a program waits for is   *)
(* to be seen where its cursor says, and the one display implements the    *)
(* independent terminals.                                                  *)
(***************************************************************************)
EXTENDS DisplayRefinement, WellFoundedInduction, TLAPS

Text == [Cell -> Shown]
SIZE == NUM_COLS * NUM_ROWS
LAST_LINE == NUM_COLS * LAST_ROW   \* the first cell of the last row

\* A screen and a position on it.
Canvas == [text : Text, x : 0 .. NUM_COLS - 1, y : 0 .. LAST_ROW]

-----------------------------------------------------------------------------
(***************************************************************************)
(* Cells and positions.                                                    *)
(***************************************************************************)
LEMMA SizeFacts ==
    /\ NUM_COLS \in Nat \ {0} /\ LAST_ROW \in Nat \ {0}
    /\ SIZE \in Nat /\ LAST_LINE \in Nat /\ SIZE = LAST_LINE + NUM_COLS
    /\ Cell = 0 .. SIZE - 1 /\ NUM_ROWS = LAST_ROW + 1
    /\ 0 \in Cell
  <1>1. NUM_COLS \in Nat \ {0} /\ LAST_ROW \in Nat \ {0} /\ NUM_ROWS = LAST_ROW + 1
    BY ScreenAssumption DEF LAST_ROW
  <1>2. SIZE = LAST_LINE + NUM_COLS /\ SIZE \in Nat /\ LAST_LINE \in Nat
    BY <1>1 DEF SIZE, LAST_LINE
  <1>3. Cell = 0 .. SIZE - 1
    BY DEF Cell, SIZE
  <1> QED
    BY <1>1, <1>2, <1>3

\* A position is a cell, and a cell has a position.
LEMMA CellOfPosition ==
    ASSUME NEW x \in 0 .. NUM_COLS - 1, NEW y \in 0 .. LAST_ROW
    PROVE  /\ NUM_COLS * y + x \in Cell
           /\ y < LAST_ROW => NUM_COLS * (y + 1) \in Cell
           /\ NUM_COLS * y + x < LAST_LINE + NUM_COLS
  <1>1. y \in Nat /\ LAST_ROW - y \in Nat /\ NUM_COLS \in Nat
    BY SizeFacts
  <1>2. NUM_COLS * (LAST_ROW - y) >= 0
    BY <1>1
  <1>3. LAST_LINE = NUM_COLS * y + NUM_COLS * (LAST_ROW - y)
    BY <1>1, SizeFacts DEF LAST_LINE
  <1>4. NUM_COLS * y \in Nat
    BY <1>1
  <1>5. y < LAST_ROW => NUM_COLS * (y + 1) = NUM_COLS * y + NUM_COLS
    BY <1>1
  <1>6. NUM_COLS * y + x \in Cell /\ NUM_COLS * y + x < LAST_LINE + NUM_COLS
    BY <1>2, <1>3, <1>4, SizeFacts
  <1>7. ASSUME y < LAST_ROW PROVE NUM_COLS * (y + 1) \in Cell
    <2>1. LAST_ROW - (y + 1) \in Nat /\ y + 1 \in Nat
      BY <1>1, <1>7, SizeFacts
    <2>2. NUM_COLS * (LAST_ROW - (y + 1)) >= 0
      BY <1>1, <2>1
    <2>3. LAST_LINE = NUM_COLS * (y + 1) + NUM_COLS * (LAST_ROW - (y + 1))
      BY <1>1, <2>1, SizeFacts DEF LAST_LINE
    <2>4. NUM_COLS * (y + 1) \in Nat
      BY <1>1, <2>1
    <2> QED
      BY <2>2, <2>3, <2>4, SizeFacts
  <1> QED
    BY <1>6, <1>7

LEMMA CanvasCell ==
    ASSUME NEW s \in Canvas
    PROVE  CellOf(s) \in Cell /\ CellOf(s) \in Nat
  <1>1. s.x \in 0 .. NUM_COLS - 1 /\ s.y \in 0 .. LAST_ROW
    BY DEF Canvas
  <1>2. NUM_COLS * s.y + s.x \in Cell
    BY <1>1, CellOfPosition
  <1>3. CellOf(s) \in Cell
    BY <1>2 DEF CellOf
  <1> QED
    BY <1>3, SizeFacts

LEMMA PositionOfCell ==
    ASSUME NEW c \in Cell
    PROVE  /\ PositionOf(c) \in Position
           /\ CellOf(PositionOf(c)) = c
  <1>1. c \in Nat /\ NUM_COLS \in Nat \ {0} /\ c < NUM_COLS * (LAST_ROW + 1)
    BY SizeFacts DEF SIZE
  <1>2. /\ c % NUM_COLS \in 0 .. NUM_COLS - 1 /\ c \div NUM_COLS \in Nat
        /\ c = NUM_COLS * (c \div NUM_COLS) + (c % NUM_COLS)
    BY <1>1
  <1>3. c \div NUM_COLS \in 0 .. LAST_ROW
    <2> DEFINE y == c \div NUM_COLS
               a == NUM_COLS * y
               b == NUM_COLS * (LAST_ROW + 1)
               d == NUM_COLS * (y - (LAST_ROW + 1))
    <2>1. y \in Nat /\ a \in Nat /\ b \in Nat /\ c < b
      BY <1>1, <1>2, SizeFacts
    <2>2. a <= c
      BY <1>1, <1>2, <2>1
    <2>3. SUFFICES ASSUME y >= LAST_ROW + 1 PROVE FALSE
      BY <2>1, SizeFacts
    <2>4. y - (LAST_ROW + 1) \in Nat
      BY <2>1, <2>3, SizeFacts
    <2> HIDE DEF y
    <2>5. d \in Nat /\ a = b + d
      BY <1>1, <2>1, <2>4, SizeFacts
    <2> HIDE DEF a, b, d
    <2> QED
      BY <1>1, <2>1, <2>2, <2>5
  <1> QED
    BY <1>2, <1>3 DEF PositionOf, CellOf, Position

-----------------------------------------------------------------------------
(***************************************************************************)
(* Printing one character.                                                 *)
(***************************************************************************)
\* scroll_up keeps what is not in row 0.
LEMMA ScrollUp ==
    ASSUME NEW text \in Text
    PROVE  /\ scroll_up(text) \in Text
           /\ \A i \in Cell : i >= NUM_COLS => scroll_up(text)[i - NUM_COLS] = text[i]
  <1>1. \A i \in Cell : i < LAST_LINE => i + NUM_COLS \in Cell
    BY SizeFacts
  <1>2. \A i \in Cell : i >= NUM_COLS =>
            i - NUM_COLS \in Cell /\ i - NUM_COLS < LAST_LINE
            /\ (i - NUM_COLS) + NUM_COLS = i
    BY SizeFacts
  <1>3. scroll_up(text) = [i \in Cell |-> IF i < LAST_LINE THEN text[i + NUM_COLS]
                                          ELSE SPACE]
    <2>1. LAST_LINE = LAST_ROW * NUM_COLS
      BY SizeFacts DEF LAST_LINE
    <2> QED
      BY <2>1 DEF scroll_up
  <1> QED
    BY <1>1, <1>2, <1>3 DEF Text, Shown

\* A character goes into the cell of the position; the next one is the next
\* position, the screen having moved up by a row if that was the last cell.
LEMMA PutChar ==
    ASSUME NEW s \in Canvas, NEW c \in Shown
    PROVE  LET p == CellOf(s)
               text == [s.text EXCEPT ![p] = c]
           IN  /\ p \in Cell /\ text \in Text
               /\ putc(s, c) \in Canvas
               /\ \/ /\ p + 1 \in Cell
                     /\ CellOf(putc(s, c)) = p + 1
                     /\ putc(s, c).text = text
                  \/ /\ p + 1 = SIZE
                     /\ CellOf(putc(s, c)) = LAST_LINE
                     /\ putc(s, c).text = scroll_up(text)
  <1> DEFINE p == CellOf(s)
             text == [s.text EXCEPT ![p] = c]
             next == NextCell([x |-> s.x, y |-> s.y])
  <1>1. /\ s.x \in 0 .. NUM_COLS - 1 /\ s.y \in 0 .. LAST_ROW /\ s.text \in Text
        /\ c # NL /\ NUM_COLS \in Nat \ {0} /\ LAST_ROW \in Nat \ {0}
    BY ScreenAssumption, SizeFacts DEF Canvas, Shown
  <1>2. p = NUM_COLS * s.y + s.x /\ p \in Cell
    BY <1>1, CellOfPosition DEF CellOf
  <1>3. text \in Text
    BY <1>1, <1>2 DEF Text
  <1>4. CellOf([x |-> s.x, y |-> s.y]) = p
    BY DEF CellOf
  <1>5. putc(s, c) = IF next.x = 0 /\ (next.y > LAST_ROW \/ next.y = 0)
                     THEN [text |-> scroll_up(text), x |-> 0, y |-> LAST_ROW]
                     ELSE [text |-> text, x |-> next.x, y |-> next.y]
    BY <1>1, <1>4 DEF putc
  <1> HIDE DEF text
  <1>6. CASE s.x + 1 < NUM_COLS
    <2>1. (s.x + 1) % NUM_COLS = s.x + 1 /\ (s.x + 1) \div NUM_COLS = 0
      BY <1>1, <1>6
    <2>2. (s.y + 0) % NUM_ROWS = s.y
      BY <1>1, SizeFacts
    <2>3. next = [x |-> s.x + 1, y |-> s.y]
      BY <2>1, <2>2 DEF NextCell
    <2>4. putc(s, c) = [text |-> text, x |-> s.x + 1, y |-> s.y]
      BY <1>1, <1>5, <2>3
    <2>5. s.x + 1 \in 0 .. NUM_COLS - 1
      BY <1>1, <1>6
    <2>6. CellOf(putc(s, c)) = p + 1
      <3>1. NUM_COLS * s.y \in Int
        BY <1>1
      <3> QED
        BY <1>1, <1>2, <2>4, <3>1 DEF CellOf
    <2>7. p + 1 \in Cell
      <3>1. NUM_COLS * s.y + (s.x + 1) \in Cell
        BY <1>1, <2>5, CellOfPosition
      <3>2. NUM_COLS * s.y \in Int
        BY <1>1
      <3> QED
        BY <1>1, <1>2, <3>1, <3>2
    <2>8. putc(s, c) \in Canvas
      BY <1>1, <1>3, <2>4, <2>5 DEF Canvas
    <2>9. putc(s, c).text = text
      BY <2>4
    <2> QED
      BY <1>2, <1>3, <2>6, <2>7, <2>8, <2>9 DEF text
  <1>7. CASE s.x + 1 = NUM_COLS
    <2>1. (s.x + 1) % NUM_COLS = 0 /\ (s.x + 1) \div NUM_COLS = 1
      BY <1>1, <1>7
    <2>2. next = [x |-> 0, y |-> (s.y + 1) % NUM_ROWS]
      BY <2>1 DEF NextCell
    <2>3. p + 1 = NUM_COLS * (s.y + 1)
      BY <1>1, <1>2, <1>7
    <2>4. CASE s.y < LAST_ROW
      <3>1. (s.y + 1) % NUM_ROWS = s.y + 1
        <4> DEFINE y == s.y + 1
        <4>1. y \in Nat /\ NUM_ROWS \in Nat /\ y < NUM_ROWS
          BY <1>1, <2>4, SizeFacts
        <4> HIDE DEF y
        <4>2. y % NUM_ROWS = y
          BY <4>1
        <4> QED
          BY <4>2 DEF y
      <3>2. putc(s, c) = [text |-> text, x |-> 0, y |-> s.y + 1]
        BY <1>1, <1>5, <2>2, <2>4, <3>1
      <3>3. NUM_COLS * (s.y + 1) \in Cell
        BY <1>1, <2>4, CellOfPosition
      <3>4. CellOf(putc(s, c)) = p + 1
        <4>1. NUM_COLS * (s.y + 1) \in Int
          BY <3>3, SizeFacts
        <4> QED
          BY <2>3, <3>2, <4>1 DEF CellOf
      <3>5. putc(s, c) \in Canvas
        BY <1>1, <1>3, <2>4, <3>2 DEF Canvas
      <3>6. putc(s, c).text = text
        BY <3>2
      <3> QED
        BY <1>2, <1>3, <2>3, <3>3, <3>4, <3>5, <3>6 DEF text
    <2>5. CASE s.y = LAST_ROW
      <3>1. (s.y + 1) % NUM_ROWS = 0
        BY <1>1, <2>5, SizeFacts
      <3>2. putc(s, c) = [text |-> scroll_up(text), x |-> 0, y |-> LAST_ROW]
        BY <1>5, <2>2, <3>1
      <3>3. p + 1 = SIZE
        BY <2>3, <2>5, SizeFacts DEF SIZE
      <3>4. CellOf(putc(s, c)) = LAST_LINE
        <4>1. LAST_LINE \in Nat
          BY SizeFacts
        <4> QED
          BY <3>2, <4>1 DEF CellOf, LAST_LINE
      <3>5. putc(s, c) \in Canvas
        BY <1>1, <1>3, <3>2, ScrollUp DEF Canvas
      <3>6. putc(s, c).text = scroll_up(text)
        BY <3>2
      <3> QED
        BY <1>2, <1>3, <3>3, <3>4, <3>5, <3>6 DEF text
    <2> QED
      BY <1>1, <2>4, <2>5
  <1> QED
    BY <1>1, <1>6, <1>7

\* A newline goes to the next row, or moves the screen up.
LEMMA PutAny ==
    ASSUME NEW s \in Canvas, NEW c \in Shown \cup {NL}
    PROVE  putc(s, c) \in Canvas
  <1>1. CASE c \in Shown
    BY <1>1, PutChar
  <1>2. CASE c = NL
    <2>1. s.text \in Text /\ s.y \in 0 .. LAST_ROW
      BY DEF Canvas
    <2>2. putc(s, c) \in {[text |-> scroll_up(s.text), x |-> 0, y |-> LAST_ROW],
                          [text |-> s.text, x |-> 0, y |-> s.y + 1]}
          /\ (s.y + 1 > LAST_ROW =>
                putc(s, c) = [text |-> scroll_up(s.text), x |-> 0, y |-> LAST_ROW])
      BY <1>2 DEF putc
    <2> QED
      BY <2>1, <2>2, SizeFacts, ScrollUp DEF Canvas
  <1> QED
    BY <1>1, <1>2

-----------------------------------------------------------------------------
(***************************************************************************)
(* Printing a string.  puts is a recursive function: that it exists, and   *)
(* what it has printed after each character, is shown by induction, which  *)
(* rests on every set of numbers having a least one.                       *)
(***************************************************************************)
LEMMA Minimum ==
    ASSUME NEW T, T \subseteq Nat, T # {}
    PROVE  \E x \in T : \A y \in T : x <= y
  <1> DEFINE R == OpToRel(<, Nat)
  <1>1. \A x, y \in Nat : x < y => <<x, y>> \in R
    BY DEF OpToRel
  <1>2. IsWellFoundedOn(R, Nat)
    BY NatLessThanWellFounded
  <1> HIDE DEF R
  <1>3. PICK x \in T : \A y \in T : ~ (<<y, x>> \in R)
    BY <1>2, WFMin
  <1>4. \A y \in T : ~ (y < x)
    BY <1>1, <1>3
  <1> QED
    BY <1>3, <1>4

LEMMA Induction ==
    ASSUME NEW S, 0 \in S, \A n \in Nat : n \in S => n + 1 \in S
    PROVE  Nat \subseteq S
  <1> DEFINE T == Nat \ S
  <1> SUFFICES ASSUME T # {} PROVE FALSE
    OBVIOUS
  <1>1. PICK x \in T : \A y \in T : x <= y
    <2>1. T \subseteq Nat
      OBVIOUS
    <2> HIDE DEF T
    <2> QED
      BY <2>1, Minimum
  <1>2. x # 0 /\ x - 1 \in Nat /\ x - 1 \notin T
    BY <1>1
  <1> QED
    BY <1>2

\* f has what is printed after each character of string, beginning with s.
PrintsTo(s, string, f) ==
    /\ f[0] = s
    /\ \A i \in 1 .. Len(string) : f[i] = putc(f[i - 1], string[i])

LEMMA PutsSteps ==
    ASSUME NEW s, NEW string, Len(string) \in Nat
    PROVE  \E f : PrintsTo(s, string, f) /\ puts(s, string) = f[Len(string)]
  <1> DEFINE Is(m, f) == f = [i \in 0 .. m |-> IF i = 0 THEN s
                                               ELSE putc(f[i - 1], string[i])]
             S == {m \in Nat : \E f : Is(m, f)}
  <1>1. 0 \in S
    <2>1. Is(0, [i \in 0 .. 0 |-> s])
      OBVIOUS
    <2> QED
      BY <2>1
  <1>2. ASSUME NEW m \in Nat, m \in S PROVE m + 1 \in S
    <2>1. PICK f : Is(m, f)
      BY <1>2
    <2> DEFINE g == [i \in 0 .. m + 1 |-> IF i = m + 1 THEN putc(f[m], string[m + 1])
                                          ELSE f[i]]
    <2>2. \A i \in 0 .. m : g[i] = f[i]
      OBVIOUS
    <2>3. g[m + 1] = putc(g[m], string[m + 1])
      BY <2>2
    <2>4. \A i \in 1 .. m : f[i] = putc(f[i - 1], string[i])
      BY <2>1
    <2>5. f[0] = s
      BY <2>1
    <2>6. \A i \in 0 .. m + 1 : g[i] = IF i = 0 THEN s ELSE putc(g[i - 1], string[i])
      <3> SUFFICES ASSUME NEW i \in 0 .. m + 1
                   PROVE  g[i] = IF i = 0 THEN s ELSE putc(g[i - 1], string[i])
        OBVIOUS
      <3>1. CASE i = 0
        BY <2>2, <2>5, <3>1
      <3>2. CASE i = m + 1
        BY <2>3, <3>2
      <3>3. CASE i \in 1 .. m
        <4>1. i \in 0 .. m /\ i - 1 \in 0 .. m /\ i # 0
          BY <3>3
        <4> HIDE DEF g
        <4> QED
          BY <2>2, <2>4, <3>3, <4>1
      <3> QED
        BY <3>1, <3>2, <3>3
    <2>7. Is(m + 1, g)
      <3>1. g = [i \in 0 .. m + 1 |-> g[i]]
        OBVIOUS
      <3> HIDE DEF g
      <3> QED
        BY <2>6, <3>1
    <2> HIDE DEF g, Is
    <2> QED
      BY <2>7
  <1> HIDE DEF S
  <1>3. Len(string) \in S
    BY <1>1, <1>2, Induction
  <1>4. PICK f : Is(Len(string), f)
    BY <1>3 DEF S
  <1> DEFINE h == CHOOSE g : Is(Len(string), g)
  <1>5. Is(Len(string), h)
    BY <1>4
  <1>6. puts(s, string) = h[Len(string)]
    BY DEF puts
  <1> HIDE DEF h
  <1>7. PrintsTo(s, string, h)
    BY <1>5 DEF PrintsTo
  <1> QED
    BY <1>6, <1>7

\* Whatever is printed, the position stays on the screen.
LEMMA PutsAny ==
    ASSUME NEW s \in Canvas, NEW string \in Seq(Shown \cup {NL})
    PROVE  puts(s, string) \in Canvas
  <1>1. Len(string) \in Nat
    OBVIOUS
  <1>2. PICK f : PrintsTo(s, string, f) /\ puts(s, string) = f[Len(string)]
    BY <1>1, PutsSteps
  <1> DEFINE S == {i \in Nat : i <= Len(string) => f[i] \in Canvas}
  <1>3. 0 \in S
    BY <1>2 DEF PrintsTo
  <1>4. ASSUME NEW i \in Nat, i \in S PROVE i + 1 \in S
    <2> SUFFICES ASSUME i + 1 <= Len(string) PROVE f[i + 1] \in Canvas
      OBVIOUS
    <2>1. f[i] \in Canvas /\ i + 1 \in 1 .. Len(string)
      BY <1>1, <1>4
    <2>2. f[i + 1] = putc(f[i], string[i + 1])
      BY <1>2, <2>1 DEF PrintsTo
    <2>3. string[i + 1] \in Shown \cup {NL}
      BY <2>1
    <2> QED
      BY <2>1, <2>2, <2>3, PutAny
  <1> HIDE DEF S
  <1>5. Len(string) \in S
    BY <1>1, <1>3, <1>4, Induction
  <1> QED
    BY <1>2, <1>5 DEF S

\* n characters of string have been printed from cell p on; the screen has
\* moved up by d cells.  What was in front of p is still there, in front.
Shows(r, text, p, string, n, d) ==
    /\ r \in Canvas
    /\ d \in Nat /\ CellOf(r) = p + n - d
    /\ d # 0 => CellOf(r) >= LAST_LINE /\ p + n >= SIZE
    /\ \A j \in 1 .. n : p + j - 1 >= d => r.text[p + j - 1 - d] = string[j]
    /\ \A q \in 0 .. p - 1 : q >= d => r.text[q - d] = text[q]

LEMMA ShowsNext ==
    ASSUME NEW r, NEW text, NEW p \in Cell, NEW string, NEW n \in Nat, NEW d,
           Shows(r, text, p, string, n, d), string[n + 1] \in Shown
    PROVE  \E e : Shows(putc(r, string[n + 1]), text, p, string, n + 1, e)
  <1> DEFINE c == string[n + 1]
             q == CellOf(r)
             u == putc(r, c)
             t == [r.text EXCEPT ![q] = c]
  <1>1. /\ r \in Canvas /\ d \in Nat /\ q = p + n - d /\ p \in Nat
        /\ d # 0 => q >= LAST_LINE /\ p + n >= SIZE
        /\ \A j \in 1 .. n : p + j - 1 >= d => r.text[p + j - 1 - d] = string[j]
        /\ \A k \in 0 .. p - 1 : k >= d => r.text[k - d] = text[k]
    BY SizeFacts DEF Shows
  <1>2. /\ q \in Cell /\ t \in Text /\ u \in Canvas
        /\ \/ q + 1 \in Cell /\ CellOf(u) = q + 1 /\ u.text = t
           \/ q + 1 = SIZE /\ CellOf(u) = LAST_LINE /\ u.text = scroll_up(t)
    BY <1>1, PutChar
  <1>3. r.text \in Text
    BY <1>1 DEF Canvas
  <1>4. t[q] = c /\ \A i \in Cell \ {q} : t[i] = r.text[i]
    BY <1>2, <1>3 DEF Text
  <1> HIDE DEF c, q, u, t
  <1>5. \A j \in 1 .. n + 1 : p + j - 1 >= d =>
            p + j - 1 - d \in Cell /\ t[p + j - 1 - d] = string[j]
    <2> SUFFICES ASSUME NEW j \in 1 .. n + 1, p + j - 1 >= d
                 PROVE  p + j - 1 - d \in Cell /\ t[p + j - 1 - d] = string[j]
      OBVIOUS
    <2>1. p + j - 1 - d \in Cell
      BY <1>1, <1>2, SizeFacts
    <2>2. CASE j = n + 1
      <3>1. p + j - 1 - d = q
        BY <1>1, <2>2
      <3> QED
        BY <1>4, <2>1, <2>2, <3>1 DEF c
    <2>3. CASE j \in 1 .. n
      <3>1. p + j - 1 - d # q
        BY <1>1, <2>3
      <3>2. t[p + j - 1 - d] = r.text[p + j - 1 - d]
        BY <1>4, <2>1, <3>1
      <3> QED
        BY <1>1, <2>1, <2>3, <3>2
    <2> QED
      BY <2>1, <2>2, <2>3
  <1>6. \A k \in 0 .. p - 1 : k >= d => k - d \in Cell /\ t[k - d] = text[k]
    <2> SUFFICES ASSUME NEW k \in 0 .. p - 1, k >= d
                 PROVE  k - d \in Cell /\ t[k - d] = text[k]
      OBVIOUS
    <2>1. k - d \in Cell /\ k - d # q
      BY <1>1, <1>2, SizeFacts
    <2>2. t[k - d] = r.text[k - d]
      BY <1>4, <2>1
    <2> QED
      BY <1>1, <2>1, <2>2
  <1>7. CASE q + 1 \in Cell /\ CellOf(u) = q + 1 /\ u.text = t
    <2>1. Shows(u, text, p, string, n + 1, d)
      BY <1>1, <1>2, <1>5, <1>6, <1>7, SizeFacts DEF Shows
    <2> QED
      BY <2>1 DEF u, c
  <1>8. CASE q + 1 = SIZE /\ CellOf(u) = LAST_LINE /\ u.text = scroll_up(t)
    <2> DEFINE e == d + NUM_COLS
    <2>1. \A i \in Cell : i >= NUM_COLS => u.text[i - NUM_COLS] = t[i]
      BY <1>2, <1>8, ScrollUp
    <2>2. e \in Nat /\ LAST_LINE = p + (n + 1) - e /\ p + (n + 1) >= SIZE
      BY <1>1, <1>8, SizeFacts
    <2>3. ASSUME NEW j \in 1 .. n + 1, p + j - 1 >= e
          PROVE  u.text[p + j - 1 - e] = string[j]
      <3>1. /\ p + j - 1 >= d /\ p + j - 1 - d >= NUM_COLS
            /\ p + j - 1 - e = (p + j - 1 - d) - NUM_COLS
        BY <1>1, <2>3, SizeFacts
      <3> QED
        BY <1>5, <2>1, <3>1
    <2>4. ASSUME NEW k \in 0 .. p - 1, k >= e
          PROVE  u.text[k - e] = text[k]
      <3>1. /\ k >= d /\ k - d >= NUM_COLS
            /\ k - e = (k - d) - NUM_COLS
        BY <1>1, <2>4, SizeFacts
      <3> QED
        BY <1>6, <2>1, <3>1
    <2> HIDE DEF e
    <2>5. Shows(u, text, p, string, n + 1, e)
      BY <1>2, <1>8, <2>2, <2>3, <2>4, SizeFacts DEF Shows
    <2> QED
      BY <2>5 DEF u, c
  <1> QED
    BY <1>2, <1>7, <1>8

\* A string without a newline, as it is shown.
LEMMA PutsShows ==
    ASSUME NEW s \in Canvas, NEW string \in Seq(Shown)
    PROVE  \E d : Shows(puts(s, string), s.text, CellOf(s), string, Len(string), d)
  <1> DEFINE p == CellOf(s)
  <1>1. Len(string) \in Nat
    OBVIOUS
  <1>2. PICK f : PrintsTo(s, string, f) /\ puts(s, string) = f[Len(string)]
    BY <1>1, PutsSteps
  <1>3. p \in Cell /\ p \in Nat
    BY CanvasCell
  <1> DEFINE S == {i \in Nat : i <= Len(string) =>
                       \E d : Shows(f[i], s.text, p, string, i, d)}
  <1>4. 0 \in S
    <2>1. Shows(s, s.text, p, string, 0, 0)
      BY <1>3 DEF Shows
    <2> QED
      BY <1>2, <2>1 DEF PrintsTo
  <1>5. ASSUME NEW i \in Nat, i \in S PROVE i + 1 \in S
    <2> SUFFICES ASSUME i + 1 <= Len(string)
                 PROVE  \E d : Shows(f[i + 1], s.text, p, string, i + 1, d)
      OBVIOUS
    <2>1. i + 1 \in 1 .. Len(string)
      BY <1>1
    <2>2. PICK d : Shows(f[i], s.text, p, string, i, d)
      BY <1>1, <1>5
    <2>3. string[i + 1] \in Shown
      BY <2>1
    <2>4. f[i + 1] = putc(f[i], string[i + 1])
      BY <1>2, <2>1 DEF PrintsTo
    <2> QED
      BY <1>3, <2>2, <2>3, <2>4, ShowsNext
  <1> HIDE DEF S
  <1>6. Len(string) \in S
    BY <1>1, <1>4, <1>5, Induction
  <1> QED
    BY <1>1, <1>2, <1>6 DEF S

-----------------------------------------------------------------------------
(***************************************************************************)
(* Lines.                                                                  *)
(***************************************************************************)
LEMMA ConcatIs ==
    ASSUME NEW A, NEW s \in Seq(A), NEW t \in Seq(A)
    PROVE  /\ s \o t \in Seq(A) /\ Len(s \o t) = Len(s) + Len(t)
           /\ \A i \in 1 .. Len(s) : (s \o t)[i] = s[i]
           /\ \A i \in 1 .. Len(t) : (s \o t)[Len(s) + i] = t[i]
  OBVIOUS

\* The characters behind position p.
LEMMA RestIs ==
    ASSUME NEW string \in Seq(Char), NEW p \in 0 .. Len(string)
    PROVE  LET rest == SubSeq(string, p + 1, Len(string))
           IN  /\ rest \in Seq(Char) /\ Len(rest) = Len(string) - p
               /\ \A j \in 1 .. Len(string) - p : rest[j] = string[p + j]
  <1>1. Len(string) \in Nat /\ p \in Nat /\ p <= Len(string)
    OBVIOUS
  <1>2. \A j \in p + 1 .. Len(string) : string[j] \in Char
    BY <1>1
  <1> QED
    BY <1>1, <1>2

LEMMA InsertAtIs ==
    ASSUME NEW string \in Seq(Char), NEW p \in 0 .. Len(string), NEW c \in Char
    PROVE  LET new == InsertAt(string, p + 1, c)
           IN  /\ new \in Seq(Char) /\ Len(new) = Len(string) + 1
               /\ \A i \in 1 .. Len(string) + 1 :
                     new[i] = IF i <= p THEN string[i]
                              ELSE IF i = p + 1 THEN c ELSE string[i - 1]
  <1> DEFINE front == SubSeq(string, 1, p)
             rest == SubSeq(string, p + 1, Len(string))
  <1>1. Len(string) \in Nat /\ p \in Nat /\ p <= Len(string)
    OBVIOUS
  <1>2. /\ front \in Seq(Char) /\ Len(front) = p
        /\ \A i \in 1 .. p : front[i] = string[i]
    BY <1>1
  <1>3. /\ rest \in Seq(Char) /\ Len(rest) = Len(string) - p
        /\ \A j \in 1 .. Len(string) - p : rest[j] = string[p + j]
    BY RestIs
  <1> DEFINE middle == front \o <<c>>
             new == middle \o rest
  <1>4. InsertAt(string, p + 1, c) = new
    <2>1. (p + 1) - 1 = p
      BY <1>1
    <2> QED
      BY <2>1 DEF InsertAt
  <1> HIDE DEF front, rest
  <1>5. /\ middle \in Seq(Char) /\ Len(middle) = p + 1
        /\ \A i \in 1 .. p : middle[i] = string[i]
        /\ middle[p + 1] = c
    <2>1. <<c>> \in Seq(Char) /\ Len(<<c>>) = 1 /\ <<c>>[1] = c /\ 1 \in 1 .. 1
      OBVIOUS
    <2> QED
      BY <1>1, <1>2, <2>1, ConcatIs
  <1> HIDE DEF middle
  <1>6. /\ new \in Seq(Char) /\ Len(new) = Len(string) + 1
        /\ \A i \in 1 .. p + 1 : new[i] = middle[i]
        /\ \A j \in 1 .. Len(string) - p : new[p + 1 + j] = string[p + j]
    <2>1. /\ new \in Seq(Char) /\ Len(new) = Len(middle) + Len(rest)
          /\ \A i \in 1 .. Len(middle) : new[i] = middle[i]
          /\ \A j \in 1 .. Len(rest) : new[Len(middle) + j] = rest[j]
      <3>1. middle \in Seq(Char) /\ rest \in Seq(Char)
        BY <1>3, <1>5
      <3> QED
        BY <3>1, ConcatIs
    <2> DEFINE n == Len(string)
    <2>2. /\ n \in Nat /\ p \in Nat /\ Len(middle) = p + 1 /\ Len(rest) = n - p
          /\ \A j \in 1 .. n - p : rest[j] = string[p + j]
      BY <1>1, <1>3, <1>5
    <2> HIDE DEF new, n
    <2>3. new \in Seq(Char) /\ \A i \in 1 .. p + 1 : new[i] = middle[i]
      BY <2>1, <2>2
    <2>4. Len(new) = n + 1
      BY <2>1, <2>2
    <2>5. \A j \in 1 .. n - p : new[p + 1 + j] = string[p + j]
      BY <2>1, <2>2
    <2> QED
      BY <2>3, <2>4, <2>5 DEF n
  <1> HIDE DEF new
  <1>7. ASSUME NEW i \in 1 .. Len(string) + 1
        PROVE  new[i] = IF i <= p THEN string[i]
                        ELSE IF i = p + 1 THEN c ELSE string[i - 1]
    <2>1. CASE i <= p
      BY <1>1, <1>5, <1>6, <2>1
    <2>2. CASE i = p + 1
      BY <1>1, <1>5, <1>6, <2>2
    <2>3. CASE i > p + 1
      <3> DEFINE j == i - (p + 1)
      <3>1. j \in 1 .. Len(string) - p /\ p + 1 + j = i /\ p + j = i - 1
        BY <1>1, <2>3
      <3>2. new[i] = string[i - 1]
        BY <1>6, <3>1
      <3> QED
        BY <1>1, <2>3, <3>2
    <2> QED
      BY <1>1, <2>1, <2>2, <2>3
  <1> QED
    BY <1>4, <1>6, <1>7

LEMMA RemoveAtIs ==
    ASSUME NEW string \in Seq(Char), NEW p \in 1 .. Len(string)
    PROVE  LET new == RemoveAt(string, p)
           IN  /\ new \in Seq(Char) /\ Len(new) = Len(string) - 1
               /\ \A i \in 1 .. Len(string) - 1 :
                     new[i] = IF i < p THEN string[i] ELSE string[i + 1]
  <1> DEFINE front == SubSeq(string, 1, p - 1)
             rest == SubSeq(string, p + 1, Len(string))
  <1>1. Len(string) \in Nat /\ p \in Nat /\ p <= Len(string) /\ p >= 1
    OBVIOUS
  <1>2. /\ front \in Seq(Char) /\ Len(front) = p - 1
        /\ \A i \in 1 .. p - 1 : front[i] = string[i]
    BY <1>1
  <1>3. /\ rest \in Seq(Char) /\ Len(rest) = Len(string) - p
        /\ \A j \in 1 .. Len(string) - p : rest[j] = string[p + j]
    BY RestIs
  <1> DEFINE new == front \o rest
  <1>4. RemoveAt(string, p) = new
    BY DEF RemoveAt
  <1> HIDE DEF front, rest
  <1>5. /\ new \in Seq(Char) /\ Len(new) = Len(string) - 1
        /\ \A i \in 1 .. p - 1 : new[i] = string[i]
        /\ \A j \in 1 .. Len(string) - p : new[(p - 1) + j] = string[p + j]
    <2>1. front \in Seq(Char) /\ rest \in Seq(Char)
      BY <1>2, <1>3
    <2>2. /\ new \in Seq(Char) /\ Len(new) = Len(front) + Len(rest)
          /\ \A i \in 1 .. Len(front) : new[i] = front[i]
          /\ \A j \in 1 .. Len(rest) : new[Len(front) + j] = rest[j]
      BY <2>1, ConcatIs
    <2> HIDE DEF new
    <2> QED
      BY <1>1, <1>2, <1>3, <2>2
  <1> HIDE DEF new
  <1>6. ASSUME NEW i \in 1 .. Len(string) - 1
        PROVE  new[i] = IF i < p THEN string[i] ELSE string[i + 1]
    <2>1. CASE i < p
      BY <1>1, <1>5, <2>1
    <2>2. CASE i >= p
      <3> DEFINE j == i - (p - 1)
      <3>1. j \in 1 .. Len(string) - p /\ p + j = i + 1 /\ (p - 1) + j = i
        BY <1>1, <2>2
      <3>2. new[i] = string[i + 1]
        BY <1>5, <3>1
      <3> QED
        BY <1>1, <2>2, <3>2
    <2> QED
      BY <1>1, <2>1, <2>2
  <1> QED
    BY <1>4, <1>5, <1>6

\* A line is shown from cell start on, and there is a cell behind it.
LineAt(text, start, string) ==
    /\ start >= 0 /\ start + Len(string) \in Cell
    /\ \A i \in 1 .. Len(string) : text[start + i - 1] = string[i]

\* Printing a new character and the rest of its line at the cursor.
LEMMA InsertShown ==
    ASSUME NEW s \in Canvas, NEW start \in Int, NEW string \in Seq(Char),
           NEW p \in 0 .. Len(string), NEW c \in Char,
           LineAt(s.text, start, string), CellOf(s) = start + p,
           Len(string) + 1 < KEYBOARD_BUFFER_SIZE
    PROVE  LET rest == SubSeq(string, p + 1, Len(string))
               r == puts(s, <<c>> \o rest)
               cursorAt == CellOf(r) - Len(rest)
           IN  /\ r \in Canvas /\ cursorAt \in Cell
               /\ LineAt(r.text, cursorAt - (p + 1), InsertAt(string, p + 1, c))
  <1> DEFINE rest == SubSeq(string, p + 1, Len(string))
             shown == <<c>> \o rest
             r == puts(s, shown)
             n == Len(string)
             new == InsertAt(string, p + 1, c)
             cursorAt == CellOf(r) - Len(rest)
  <1>1. n \in Nat /\ p \in Nat /\ p <= n /\ start >= 0 /\ n + 1 <= LAST_LINE
    <2>1. KEYBOARD_BUFFER_SIZE \in Nat /\ KEYBOARD_BUFFER_SIZE <= LAST_LINE + 1
      BY DisplayAssumption DEF LAST_LINE
    <2> QED
      BY <2>1, SizeFacts DEF LineAt
  <1>2. /\ rest \in Seq(Char) /\ Len(rest) = n - p
        /\ \A j \in 1 .. n - p : rest[j] = string[p + j]
    BY RestIs
  <1>3. /\ new \in Seq(Char) /\ Len(new) = n + 1
        /\ \A i \in 1 .. n + 1 :
              new[i] = IF i <= p THEN string[i]
                       ELSE IF i = p + 1 THEN c ELSE string[i - 1]
    BY InsertAtIs
  <1> HIDE DEF rest, new
  <1>4. /\ shown \in Seq(Shown) /\ Len(shown) = n - p + 1
        /\ shown[1] = c /\ \A j \in 2 .. n - p + 1 : shown[j] = string[p + j - 1]
    <2>1. <<c>> \in Seq(Char) /\ Len(<<c>>) = 1 /\ <<c>>[1] = c
      OBVIOUS
    <2>2. /\ shown \in Seq(Char) /\ Len(shown) = n - p + 1 /\ shown[1] = c
          /\ \A j \in 2 .. n - p + 1 : shown[j] = rest[j - 1]
      BY <1>1, <1>2, <2>1
    <2>3. \A j \in 2 .. n - p + 1 : j - 1 \in 1 .. n - p /\ p + (j - 1) = p + j - 1
      BY <1>1
    <2>4. Seq(Char) \subseteq Seq(Shown)
      BY DEF Shown
    <2> QED
      BY <1>2, <2>2, <2>3, <2>4
  <1> HIDE DEF shown
  <1>5. PICK d : Shows(r, s.text, start + p, shown, n - p + 1, d)
    BY <1>4, PutsShows
  <1> HIDE DEF r
  <1>6. /\ r \in Canvas /\ d \in Nat /\ CellOf(r) = start + n + 1 - d
        /\ d # 0 => CellOf(r) >= LAST_LINE
    BY <1>1, <1>5 DEF Shows
  <1>7. cursorAt = start + p + 1 - d /\ CellOf(r) \in Cell
    <2>1. CellOf(r) \in Cell
      BY <1>6, CanvasCell
    <2>2. Len(rest) = n - p /\ CellOf(r) = start + n + 1 - d /\ d \in Nat
      BY <1>2, <1>6
    <2> HIDE DEF n
    <2> QED
      BY <1>1, <2>1, <2>2
  <1>8. start - d >= 0
    BY <1>1, <1>6, SizeFacts
  <1>9. ASSUME NEW i \in 1 .. n + 1 PROVE r.text[start - d + i - 1] = new[i]
    <2>1. CASE i <= p
      <3>1. start + i - 1 \in 0 .. start + p - 1 /\ start + i - 1 >= d
            /\ (start + i - 1) - d = start - d + i - 1
        BY <1>1, <1>6, <1>8, <2>1
      <3>2. r.text[(start + i - 1) - d] = s.text[start + i - 1]
        BY <1>5, <3>1 DEF Shows
      <3>3. s.text[start + i - 1] = string[i]
        BY <1>1, <2>1 DEF LineAt
      <3> QED
        BY <1>3, <2>1, <3>1, <3>2, <3>3
    <2>2. CASE i > p
      <3> DEFINE j == i - p
      <3>1. j \in 1 .. n - p + 1 /\ (start + p) + j - 1 >= d
            /\ (start + p) + j - 1 - d = start - d + i - 1
        BY <1>1, <1>6, <1>8, <2>2
      <3>2. r.text[(start + p) + j - 1 - d] = shown[j]
        BY <1>5, <3>1 DEF Shows
      <3>3. shown[j] = new[i]
        <4>1. CASE i = p + 1
          <5>1. j = 1 /\ ~(i <= p)
            BY <1>1, <4>1
          <5> HIDE DEF j
          <5> QED
            BY <1>3, <1>4, <4>1, <5>1
        <4>2. CASE i > p + 1
          <5>1. j \in 2 .. n - p + 1 /\ p + j - 1 = i - 1
            BY <1>1, <4>2
          <5>2. shown[j] = string[p + j - 1]
            BY <1>4, <5>1
          <5>3. new[i] = string[i - 1]
            BY <1>1, <1>3, <4>2
          <5> QED
            BY <5>1, <5>2, <5>3
        <4> QED
          BY <1>1, <2>2, <4>1, <4>2
      <3> QED
        BY <3>1, <3>2, <3>3
    <2> QED
      BY <1>1, <2>1, <2>2
  <1>10. cursorAt \in Cell
    BY <1>1, <1>6, <1>7, <1>8, SizeFacts
  <1>11. LineAt(r.text, cursorAt - (p + 1), new)
    <2>1. cursorAt - (p + 1) = start - d
      BY <1>1, <1>6, <1>7
    <2>2. (start - d) + Len(new) = CellOf(r)
      BY <1>1, <1>3, <1>6
    <2> QED
      BY <1>3, <1>7, <1>8, <1>9, <2>1, <2>2 DEF LineAt
  <1> QED
    BY <1>6, <1>10, <1>11 DEF r, shown, rest, new

\* Printing the rest of a line and a space over the character in front of it:
\* the screen does not move.
LEMMA EraseShown ==
    ASSUME NEW s \in Canvas, NEW start \in Int, NEW string \in Seq(Char),
           NEW p \in 1 .. Len(string),
           LineAt(s.text, start, string), CellOf(s) = start + p - 1
    PROVE  LET rest == SubSeq(string, p + 1, Len(string))
               r == puts(s, rest \o <<SPACE>>)
           IN  /\ r \in Canvas /\ start + p - 1 \in Cell
               /\ CellOf(r) - (Len(rest) + 1) = start + p - 1
               /\ LineAt(r.text, start, RemoveAt(string, p))
  <1> DEFINE rest == SubSeq(string, p + 1, Len(string))
             shown == rest \o <<SPACE>>
             r == puts(s, shown)
             n == Len(string)
             new == RemoveAt(string, p)
  <1>1. n \in Nat /\ p \in Nat /\ p >= 1 /\ p <= n /\ start >= 0 /\ start + n \in Cell
    BY DEF LineAt
  <1>2. /\ rest \in Seq(Char) /\ Len(rest) = n - p
        /\ \A j \in 1 .. n - p : rest[j] = string[p + j]
    BY <1>1, RestIs
  <1>3. /\ new \in Seq(Char) /\ Len(new) = n - 1
        /\ \A i \in 1 .. n - 1 : new[i] = IF i < p THEN string[i] ELSE string[i + 1]
    BY RemoveAtIs
  <1> HIDE DEF rest, new
  <1>4. /\ shown \in Seq(Shown) /\ Len(shown) = n - p + 1
        /\ \A j \in 1 .. n - p : shown[j] = string[p + j]
    <2>1. rest \in Seq(Shown) /\ <<SPACE>> \in Seq(Shown) /\ Len(<<SPACE>>) = 1
      BY <1>2 DEF Shown
    <2>2. /\ shown \in Seq(Shown) /\ Len(shown) = Len(rest) + 1
          /\ \A i \in 1 .. Len(rest) : shown[i] = rest[i]
      BY <2>1, ConcatIs
    <2> HIDE DEF shown
    <2> QED
      BY <1>1, <1>2, <2>2
  <1> HIDE DEF shown
  <1>5. PICK d : Shows(r, s.text, start + p - 1, shown, n - p + 1, d)
    BY <1>4, PutsShows
  <1> HIDE DEF r
  <1>6. d = 0 /\ r \in Canvas /\ CellOf(r) = start + n
    <2>1. (start + p - 1) + (n - p + 1) = start + n /\ start + n < SIZE
      BY <1>1, SizeFacts
    <2>2. /\ r \in Canvas /\ d \in Nat /\ CellOf(r) = (start + p - 1) + (n - p + 1) - d
          /\ d # 0 => (start + p - 1) + (n - p + 1) >= SIZE
      BY <1>5 DEF Shows
    <2> QED
      BY <1>1, <2>1, <2>2, SizeFacts
  <1>7. ASSUME NEW i \in 1 .. n - 1 PROVE r.text[start + i - 1] = new[i]
    <2>1. CASE i < p
      <3>1. start + i - 1 \in 0 .. (start + p - 1) - 1 /\ start + i - 1 >= 0
            /\ (start + i - 1) - 0 = start + i - 1
        BY <1>1, <2>1
      <3>2. r.text[(start + i - 1) - 0] = s.text[start + i - 1]
        BY <1>5, <1>6, <3>1 DEF Shows
      <3>3. s.text[start + i - 1] = string[i]
        BY <1>1, <2>1 DEF LineAt
      <3> QED
        BY <1>3, <2>1, <3>1, <3>2, <3>3
    <2>2. CASE i >= p
      <3> DEFINE j == i - p + 1
      <3>1. j \in 1 .. n - p /\ j \in 1 .. n - p + 1 /\ p + j = i + 1
            /\ (start + p - 1) + j - 1 >= 0
            /\ (start + p - 1) + j - 1 - 0 = start + i - 1
        BY <1>1, <2>2
      <3>2. r.text[(start + p - 1) + j - 1 - 0] = shown[j]
        BY <1>5, <1>6, <3>1 DEF Shows
      <3>3. shown[j] = string[i + 1]
        BY <1>4, <3>1
      <3>4. new[i] = string[i + 1]
        BY <1>1, <1>3, <2>2
      <3> QED
        BY <3>1, <3>2, <3>3, <3>4
    <2> QED
      BY <1>1, <2>1, <2>2
  <1>8. start + p - 1 \in Cell /\ start + (n - 1) \in Cell
    BY <1>1, SizeFacts
  <1>9. LineAt(r.text, start, new)
    BY <1>1, <1>3, <1>7, <1>8 DEF LineAt
  <1>10. CellOf(r) - (Len(rest) + 1) = start + p - 1
    BY <1>1, <1>2, <1>6
  <1> QED
    BY <1>6, <1>8, <1>9, <1>10 DEF r, shown, rest, new

-----------------------------------------------------------------------------
(***************************************************************************)
(* The inductive invariant.                                                *)
(***************************************************************************)
Word == 0 .. UINT16 - 1

PageTypes ==
    /\ page \in [Page -> Text]
    /\ video_map \in Page /\ user_map \in Page
    /\ active_ter \in Ter /\ process_ter \in Ter

PlaceTypes ==
    /\ screen \in Position /\ screen_buf \in [Ter -> Position]
    /\ cursor \in Word /\ pos_buf \in [Ter -> Word]

LineTypes ==
    /\ line \in [Ter -> Seq(Char \cup {NL})]
    /\ \A t \in Ter : Len(line[t]) <= KEYBOARD_BUFFER_SIZE
    /\ buffer_pos \in [Ter -> 0 .. KEYBOARD_BUFFER_SIZE - 1]
    /\ buf_status \in [Ter -> {0, 1}]
    /\ reading \in [Ter -> BOOLEAN]

\* The kernel's video memory is the page of the running process; so is the
\* programs', when the process draws.
Maps ==
    /\ video_map = MapOf(process_ter)
    /\ process_ter \in Drawing => user_map = MapOf(process_ter)

\* What holds of one terminal: the cursor is on the screen; a line under edit
\* has room for its newline, and is empty while no program reads it; one that
\* a program waits for is shown where the cursor says.
GoodLine(text, place, string, pos, status, waits) ==
    /\ place \in Cell
    /\ status = 1 =>
          /\ string \in Seq(Char) /\ Len(string) < KEYBOARD_BUFFER_SIZE
          /\ pos \in 0 .. Len(string)
          /\ waits \/ string = <<>>
    /\ status = 1 /\ waits => LineAt(text, place - pos, string)

Good(t) == GoodLine(texts[t], cursors[t], line[t], buffer_pos[t], buf_status[t],
                    reading[t])

DisplayInv ==
    /\ PageTypes /\ PlaceTypes /\ LineTypes /\ printed \in 0 .. PRINT_MAX
    /\ Maps
    /\ \A t \in Ter : Good(t)

-----------------------------------------------------------------------------
LEMMA TerFacts ==
    /\ 0 \in Ter /\ Ter \subseteq Page /\ SCREEN \in Page /\ SCREEN \notin Ter
    /\ Ter \subseteq Nat /\ Drawing \subseteq Ter
    /\ KEYBOARD_BUFFER_SIZE \in Nat /\ KEYBOARD_BUFFER_SIZE >= 2
    /\ PRINT_MAX \in Nat
  BY DisplayAssumption DEF Ter, Page, SCREEN

\* Every cell fits into the registers of the cursor.
LEMMA CellWord == Cell \subseteq Word /\ \A c \in Cell : Word16(c) = c
  <1>1. SIZE <= UINT16 /\ SIZE \in Nat /\ Cell = 0 .. SIZE - 1
    <2>1. SIZE <= UINT16
      BY DisplayAssumption DEF SIZE
    <2> QED
      BY <2>1, SizeFacts
  <1>2. ASSUME NEW c \in Cell PROVE c \in Word /\ Word16(c) = c
    <2>1. c \in Nat /\ c <= UINT16 - 1 /\ UINT16 \in Nat
      BY <1>1 DEF UINT16
    <2>2. c % UINT16 = c
      BY <2>1 DEF UINT16
    <2>3. c \in 0 .. UINT16 - 1
      BY <2>1
    <2> QED
      BY <2>2, <2>3 DEF Word, Word16
  <1> QED
    BY <1>2

LEMMA OnCanvas ==
    ASSUME NEW text \in Text, NEW at \in Position
    PROVE  /\ On(text, at) \in Canvas /\ On(text, at).text = text
           /\ CellOf(On(text, at)) = CellOf(at)
  BY DEF On, Canvas, Position, CellOf

LEMMA AtPosition ==
    ASSUME NEW s \in Canvas
    PROVE  At(s) \in Position /\ CellOf(At(s)) = CellOf(s) /\ s.text \in Text
  BY DEF At, Canvas, Position, CellOf

LEMMA BlankText == Blank \in Text /\ Home \in Position /\ 0 \in Cell
  BY SizeFacts DEF Blank, Text, Shown, Home, Position

LEMMA MapPage ==
    ASSUME NEW t \in Ter, active_ter \in Ter
    PROVE  /\ MapOf(t) \in Page /\ page[MapOf(t)] = texts[t]
           /\ \A u \in Ter : MapOf(u) = MapOf(t) => u = t
           /\ MapOf(active_ter) = SCREEN
  BY TerFacts DEF MapOf, texts, TextOf

\* Where the kernel prints: at the position of the running process, on its
\* terminal; or, for a key, on the display.
LEMMA HereIs ==
    ASSUME DisplayInv
    PROVE  /\ Here = On(texts[process_ter], places[process_ter]) /\ Here \in Canvas
           /\ KeyPage = SCREEN /\ page[SCREEN] = texts[active_ter]
           /\ texts \in [Ter -> Text] /\ cursors \in [Ter -> Cell]
  <1>1. page[video_map] = texts[process_ter]
    BY MapPage DEF DisplayInv, PageTypes, Maps
  <1>2. places[process_ter] = screen
    BY DEF DisplayInv, PageTypes, places, PlaceOf
  <1>3. page[video_map] \in Text /\ screen \in Position
    BY DEF DisplayInv, PageTypes, PlaceTypes
  <1>4. KeyPage = SCREEN /\ page[SCREEN] = texts[active_ter]
    BY MapPage DEF KeyPage, Hidden, DisplayInv, PageTypes, Maps
  <1>5. texts \in [Ter -> Text]
    BY TerFacts DEF DisplayInv, PageTypes, texts, TextOf
  <1>6. cursors \in [Ter -> Cell]
    <2>1. \A t \in Ter : cursors[t] \in Cell
      BY DEF DisplayInv, Good, GoodLine
    <2> QED
      BY <2>1 DEF cursors
  <1> QED
    BY <1>1, <1>2, <1>3, <1>4, <1>5, <1>6, OnCanvas DEF Here

\* A page changes, and the screen of its terminal with it.
LEMMA Painted ==
    ASSUME PageTypes, NEW u \in Ter, NEW x \in Text,
           page' = [page EXCEPT ![MapOf(u)] = x], active_ter' = active_ter
    PROVE  texts' = [texts EXCEPT ![u] = x] /\ page' \in [Page -> Text]
  <1>1. MapOf(u) \in Page /\ \A t \in Ter : MapOf(t) = MapOf(u) => t = u
    BY MapPage DEF PageTypes
  <1>2. page' \in [Page -> Text]
    BY <1>1 DEF PageTypes
  <1>3. ASSUME NEW t \in Ter PROVE texts'[t] = page'[MapOf(t)]
    BY <1>3, TerFacts DEF texts, TextOf, MapOf
  <1>4. ASSUME NEW t \in Ter PROVE MapOf(t) \in Page /\ page[MapOf(t)] = texts[t]
    BY MapPage DEF PageTypes
  <1>5. ASSUME NEW t \in Ter PROVE texts'[t] = IF t = u THEN x ELSE texts[t]
    BY <1>1, <1>3, <1>4 DEF PageTypes
  <1>6. texts' = [t \in Ter |-> texts'[t]] /\ texts = [t \in Ter |-> texts[t]]
    BY DEF texts
  <1> QED
    BY <1>2, <1>5, <1>6

\* The screens stay.
LEMMA TextsSame ==
    ASSUME UNCHANGED <<page, active_ter>>
    PROVE  texts' = texts
  BY DEF texts, TextOf

LEMMA CursorsSame ==
    ASSUME UNCHANGED <<cursor, pos_buf, active_ter>>
    PROVE  cursors' = cursors
  BY DEF cursors, CursorOf

LEMMA PlacesSame ==
    ASSUME UNCHANGED <<screen, screen_buf, process_ter>>
    PROVE  places' = places
  BY DEF places, PlaceOf

\* The cursor of the display moves.
LEMMA CursorMoves ==
    ASSUME PageTypes, NEW c \in Cell, cursor' = c, UNCHANGED <<pos_buf, active_ter>>
    PROVE  cursors' = [cursors EXCEPT ![active_ter] = c] /\ cursor' \in Word
  BY CellWord DEF cursors, CursorOf, PageTypes

\* The running process prints somewhere else.
LEMMA PlaceMoves ==
    ASSUME PageTypes, NEW x, screen' = x, UNCHANGED <<screen_buf, process_ter>>
    PROVE  places' = [places EXCEPT ![process_ter] = x]
  BY DEF places, PlaceOf, PageTypes

\* A step that leaves all terminals but u as they are.
Same(t) ==
    /\ texts'[t] = texts[t] /\ cursors'[t] = cursors[t]
    /\ line'[t] = line[t] /\ buffer_pos'[t] = buffer_pos[t]
    /\ buf_status'[t] = buf_status[t] /\ reading'[t] = reading[t]

LEMMA OneTerminal ==
    ASSUME DisplayInv, NEW u \in Ter,
           PageTypes', PlaceTypes', LineTypes', printed' \in 0 .. PRINT_MAX, Maps',
           \A t \in Ter \ {u} : Same(t),
           Good(u)'
    PROVE  DisplayInv'
  <1>1. ASSUME NEW t \in Ter \ {u} PROVE Good(t)'
    <2>1. Good(t)
      BY DEF DisplayInv
    <2>2. Same(t)
      OBVIOUS
    <2> QED
      BY <2>1, <2>2 DEF Good, Same
  <1> QED
    BY <1>1 DEF DisplayInv

-----------------------------------------------------------------------------
(***************************************************************************)
(* The operators of Terminals are those of Screen.                         *)
(***************************************************************************)
LEMMA SameOperators ==
    /\ \A s, c : Abstract!putc(s, c) = putc(s, c)
    /\ \A s, string : Abstract!puts(s, string) = puts(s, string)
    /\ \A text, at : Abstract!On(text, at) = On(text, at)
    /\ \A s : Abstract!At(s) = At(s) /\ Abstract!CellOf(s) = CellOf(s)
    /\ \A c : Abstract!PositionOf(c) = PositionOf(c)
    /\ Abstract!Blank = Blank /\ Abstract!Home = Home /\ Abstract!Cell = Cell
  <1> USE DEF Abstract!putc, putc, Abstract!scroll_up, scroll_up,
              Abstract!NextCell, NextCell, Abstract!LAST_ROW, LAST_ROW,
              Abstract!Cell, Cell, Abstract!CellOf, CellOf
  <1>1. \A s, c : Abstract!putc(s, c) = putc(s, c)
    OBVIOUS
  <1>2. \A s, string : Abstract!puts(s, string) = puts(s, string)
    BY DEF Abstract!puts, puts
  <1>3. \A text, at : Abstract!On(text, at) = On(text, at)
    BY DEF Abstract!On, On
  <1>4. \A s : Abstract!At(s) = At(s) /\ Abstract!CellOf(s) = CellOf(s)
    BY DEF Abstract!At, At
  <1>5. \A c : Abstract!PositionOf(c) = PositionOf(c)
    BY DEF Abstract!PositionOf, PositionOf
  <1>6. Abstract!Blank = Blank /\ Abstract!Home = Home /\ Abstract!Cell = Cell
    BY DEF Abstract!Blank, Blank, Abstract!Home, Home
  <1> QED
    BY <1>1, <1>2, <1>3, <1>4, <1>5, <1>6

\* What a step of the terminals is.
TerminalStep == Abstract!Next \/ UNCHANGED Abstract!vars

-----------------------------------------------------------------------------
(***************************************************************************)
(* Programs.                                                               *)
(***************************************************************************)
LEMMA CountStep ==
    ASSUME printed \in 0 .. PRINT_MAX, Prints
    PROVE  printed' \in 0 .. PRINT_MAX
  BY TerFacts DEF Prints

LEMMA WriteStep ==
    ASSUME DisplayInv, NEW u \in Ter, u = process_ter,
           NEW c \in Char \cup {NL}, Write(c)
    PROVE  DisplayInv' /\ TerminalStep
  <1> DEFINE s == putc(Here, c)
  <1>1. ~reading[u] /\ active_ter \in Ter
    BY DEF DisplayInv, PageTypes, Write
  <1>2. s \in Canvas
    BY HereIs, PutAny DEF Shown
  <1>3. s.text \in Text /\ At(s) \in Position /\ CellOf(s) \in Cell
    BY <1>2, AtPosition, CanvasCell
  <1>4. s = putc(On(texts[u], places[u]), c)
    BY HereIs
  <1>5. /\ page' = [page EXCEPT ![video_map] = s.text]
        /\ screen' = At(s)
        /\ pos_buf' = [pos_buf EXCEPT ![u] = CellOf(s)]
        /\ cursor' = IF u = active_ter THEN CellOf(s) ELSE cursor
        /\ UNCHANGED <<mapVars, terVars, screen_buf, lineVars, reading>>
        /\ Prints
    BY DEF Write, Printed, update_cursor_ter
  <1> HIDE DEF s
  <1>6. video_map = MapOf(u)
    BY DEF DisplayInv, Maps
  <1>7. texts' = [texts EXCEPT ![u] = s.text] /\ page' \in [Page -> Text]
    BY <1>1, <1>3, <1>5, <1>6, Painted DEF DisplayInv, terVars
  <1>8. places' = [places EXCEPT ![u] = At(s)]
    BY <1>5, PlaceMoves DEF DisplayInv, terVars
  <1>9. cursors' = [cursors EXCEPT ![u] = CellOf(s)]
    BY <1>1, <1>5 DEF cursors, CursorOf, terVars, DisplayInv, PlaceTypes
  <1>10. PageTypes' /\ LineTypes' /\ Maps' /\ printed' \in 0 .. PRINT_MAX
    BY <1>5, <1>7, CountStep
       DEF DisplayInv, PageTypes, LineTypes, Maps, MapOf, mapVars, terVars, lineVars
  <1>11. PlaceTypes'
    BY <1>3, <1>5, CellWord DEF DisplayInv, PlaceTypes
  <1>12. \A t \in Ter \ {u} : Same(t)
    BY <1>5, <1>7, <1>9 DEF Same, lineVars, texts, cursors
  <1>13. Good(u)'
    <2>1. Good(u)
      BY <1>1 DEF DisplayInv
    <2>2. cursors'[u] = CellOf(s)
      BY <1>1, <1>9 DEF cursors
    <2> QED
      BY <1>1, <1>3, <1>5, <2>1, <2>2 DEF Good, GoodLine, lineVars, terVars
  <1>14. Abstract!Write(u, c)
    <2>1. /\ Abstract!putc(Abstract!On(texts[u], places[u]), c) = s
          /\ Abstract!At(s) = At(s) /\ Abstract!CellOf(s) = CellOf(s)
      BY <1>4, SameOperators
    <2> QED
      BY <1>5, <1>7, <1>8, <1>9, <2>1
         DEF Abstract!Write, Abstract!Becomes, Abstract!CursorTo, lineVars
  <1> QED
    <2>1. DisplayInv'
      BY <1>1, <1>10, <1>11, <1>12, <1>13, OneTerminal
    <2>2. Abstract!Next
      BY <1>1, <1>14 DEF Abstract!Next
    <2> QED
      BY <2>1, <2>2 DEF TerminalStep

\* The kernel prints for the running process, which does not wait for a line
\* after that: its messages, the newline of terminal_read, Ctrl+C.
LEMMA MessageStep ==
    ASSUME DisplayInv, NEW u \in Ter, u = process_ter,
           NEW string \in Seq(Shown \cup {NL}),
           Printed(puts(Here, string)),
           UNCHANGED <<mapVars, terVars, screen_buf, cursor, pos_buf, lineVars>>,
           reading' = [reading EXCEPT ![u] = FALSE],
           buf_status[u] = 1 => line[u] = <<>>
    PROVE  DisplayInv' /\ Abstract!Message(u, string)
  <1> DEFINE s == puts(Here, string)
  <1>1. s \in Canvas
    BY HereIs, PutsAny
  <1>2. s.text \in Text /\ At(s) \in Position
    BY <1>1, AtPosition
  <1>3. s = puts(On(texts[u], places[u]), string)
    BY HereIs
  <1>4. /\ page' = [page EXCEPT ![video_map] = s.text]
        /\ screen' = At(s) /\ Prints
    BY DEF Printed
  <1> HIDE DEF s
  <1>5. video_map = MapOf(u)
    BY DEF DisplayInv, Maps
  <1>6. texts' = [texts EXCEPT ![u] = s.text] /\ page' \in [Page -> Text]
    BY <1>2, <1>4, <1>5, Painted DEF DisplayInv, terVars
  <1>7. places' = [places EXCEPT ![u] = At(s)]
    BY <1>4, PlaceMoves DEF DisplayInv, terVars
  <1>8. cursors' = cursors
    BY CursorsSame DEF terVars
  <1>9. PageTypes' /\ Maps'
    BY <1>6 DEF DisplayInv, PageTypes, Maps, MapOf, mapVars, terVars
  <1>10. PlaceTypes'
    BY <1>2, <1>4 DEF DisplayInv, PlaceTypes
  <1>11. LineTypes' /\ printed' \in 0 .. PRINT_MAX
    BY <1>4, CountStep DEF DisplayInv, LineTypes, lineVars
  <1>12. \A t \in Ter \ {u} : Same(t)
    BY <1>6, <1>8 DEF Same, lineVars, texts, DisplayInv, LineTypes
  <1>13. Good(u)'
    <2>1. Good(u) /\ reading'[u] = FALSE
      BY DEF DisplayInv, LineTypes
    <2> QED
      BY <1>8, <2>1 DEF Good, GoodLine, lineVars
  <1>14. DisplayInv'
    BY <1>9, <1>10, <1>11, <1>12, <1>13, OneTerminal
  <1>15. Abstract!Message(u, string)
    <2>1. /\ Abstract!puts(Abstract!On(texts[u], places[u]), string) = s
          /\ Abstract!At(s) = At(s)
      BY <1>3, SameOperators
    <2> QED
      BY <1>6, <1>7, <1>8, <2>1 DEF Abstract!Message, Abstract!Becomes, lineVars
  <1> QED
    BY <1>14, <1>15

LEMMA DrawStep ==
    ASSUME DisplayInv, NEW u \in Ter, u = process_ter,
           NEW i \in Cell, NEW c \in Char, Draw(i, c)
    PROVE  DisplayInv' /\ TerminalStep
  <1> DEFINE x == [texts[u] EXCEPT ![i] = c]
  <1>1. texts[u] \in Text /\ ~reading[u]
    BY HereIs DEF Draw
  <1>2. x \in Text
    BY <1>1 DEF Text, Shown
  <1>3. user_map = MapOf(u) /\ page[user_map] = texts[u] /\ user_map \in Page
    BY MapPage DEF DisplayInv, PageTypes, Maps, Draw
  <1>4. page' = [page EXCEPT ![MapOf(u)] = x]
    BY <1>3 DEF Draw, DisplayInv, PageTypes
  <1> HIDE DEF x
  <1>5. texts' = [texts EXCEPT ![u] = x] /\ page' \in [Page -> Text]
    BY <1>2, <1>4, Painted DEF DisplayInv, terVars, Draw
  <1>6. cursors' = cursors /\ places' = places
    BY CursorsSame, PlacesSame DEF Draw, terVars
  <1>7. /\ PageTypes' /\ Maps' /\ PlaceTypes' /\ LineTypes'
    BY <1>5 DEF DisplayInv, PageTypes, PlaceTypes, LineTypes, Maps, MapOf, mapVars,
                terVars, lineVars, Draw
  <1>8. printed' \in 0 .. PRINT_MAX
    BY CountStep DEF DisplayInv, Draw
  <1>9. \A t \in Ter \ {u} : Same(t)
    BY <1>5, <1>6 DEF Same, lineVars, texts, Draw
  <1>10. Good(u)'
    <2>1. Good(u)
      BY DEF DisplayInv
    <2> QED
      BY <1>1, <1>6, <2>1 DEF Good, GoodLine, lineVars, Draw
  <1>11. DisplayInv'
    BY <1>7, <1>8, <1>9, <1>10, OneTerminal
  <1>12. Abstract!Draw(u, i, c)
    <2>1. texts' = [texts EXCEPT ![u][i] = c]
      BY <1>5 DEF x, texts
    <2> QED
      BY <1>6, <2>1 DEF Abstract!Draw, Draw, lineVars
  <1>13. Abstract!Next
    BY <1>12, SameOperators DEF Abstract!Next
  <1> QED
    BY <1>11, <1>13 DEF TerminalStep

\* A message on a cleared screen, at the terminal on display.
LEMMA RestartStep ==
    ASSUME DisplayInv, NEW u \in Ter, u = process_ter, ~Hidden,
           NEW string \in Seq(Shown \cup {NL}), Restart(string)
    PROVE  DisplayInv' /\ Abstract!Restart(u, string)
  <1> DEFINE s == puts(On(Blank, Home), string)
  <1>1. s \in Canvas
    BY BlankText, OnCanvas, PutsAny
  <1>2. s.text \in Text /\ At(s) \in Position /\ 0 \in Cell
    BY <1>1, AtPosition, BlankText
  <1>3. /\ page' = [page EXCEPT ![video_map] = s.text]
        /\ screen' = At(s) /\ Prints /\ cursor' = 0 /\ ~reading[u]
        /\ UNCHANGED <<mapVars, terVars, screen_buf, pos_buf, lineVars, reading>>
    BY DEF Restart, Printed
  <1> HIDE DEF s
  <1>4. video_map = MapOf(u) /\ u = active_ter
    BY DEF DisplayInv, Maps, Hidden
  <1>5. texts' = [texts EXCEPT ![u] = s.text] /\ page' \in [Page -> Text]
    BY <1>2, <1>3, <1>4, Painted DEF DisplayInv, terVars
  <1>6. places' = [places EXCEPT ![u] = At(s)]
    BY <1>3, PlaceMoves DEF DisplayInv, terVars
  <1>7. cursors' = [cursors EXCEPT ![u] = 0] /\ cursor' \in Word
    BY <1>2, <1>3, <1>4, CursorMoves DEF terVars, DisplayInv
  <1>8. PageTypes' /\ Maps'
    BY <1>3, <1>5 DEF DisplayInv, PageTypes, Maps, MapOf, mapVars, terVars
  <1>9. PlaceTypes'
    BY <1>2, <1>3, <1>7 DEF DisplayInv, PlaceTypes
  <1>10. LineTypes' /\ printed' \in 0 .. PRINT_MAX
    BY <1>3, CountStep DEF DisplayInv, LineTypes, lineVars
  <1>11. \A t \in Ter \ {u} : Same(t)
    BY <1>3, <1>5, <1>7 DEF Same, lineVars, texts, cursors
  <1>12. Good(u)'
    <2>1. Good(u) /\ cursors'[u] = 0
      BY <1>7 DEF DisplayInv, cursors
    <2> QED
      BY <1>2, <1>3, <2>1 DEF Good, GoodLine, lineVars
  <1>13. DisplayInv'
    BY <1>8, <1>9, <1>10, <1>11, <1>12, OneTerminal
  <1>14. Abstract!Restart(u, string)
    <2>1. /\ Abstract!puts(Abstract!On(Abstract!Blank, Abstract!Home), string) = s
          /\ Abstract!At(s) = At(s)
      BY SameOperators DEF s
    <2> QED
      BY <1>3, <1>5, <1>6, <1>7, <2>1
         DEF Abstract!Restart, Abstract!Becomes, Abstract!CursorTo, lineVars
  <1> QED
    BY <1>13, <1>14

\* A read opens a line, at the cursor.
LEMMA ReadCallStep ==
    ASSUME DisplayInv, NEW u \in Ter, u = process_ter, ReadCall
    PROVE  DisplayInv' /\ TerminalStep
  <1>1. Good(u) /\ ~reading[u]
    BY DEF DisplayInv, ReadCall
  <1>2. texts' = texts /\ cursors' = cursors /\ places' = places
    BY TextsSame, CursorsSame, PlacesSame DEF ReadCall, terVars
  <1>3. PageTypes' /\ Maps' /\ PlaceTypes' /\ printed' \in 0 .. PRINT_MAX
    BY DEF DisplayInv, PageTypes, PlaceTypes, Maps, MapOf, mapVars, terVars, ReadCall
  <1>4. reading' = [reading EXCEPT ![u] = TRUE] /\ reading' \in [Ter -> BOOLEAN]
    BY DEF ReadCall, DisplayInv, LineTypes
  <1>5. cursors[u] \in Cell /\ cursors[u] \in Nat
    BY <1>1, SizeFacts DEF Good, GoodLine
  <1>6. LineAt(texts[u], cursors[u] - 0, <<>>)
    BY <1>5 DEF LineAt
  <1>7. CASE buf_status[u] = 1 /\ UNCHANGED lineVars
    <2>1. LineTypes'
      BY <1>4, <1>7 DEF DisplayInv, LineTypes, lineVars
    <2>2. \A t \in Ter \ {u} : Same(t)
      BY <1>2, <1>4, <1>7 DEF Same, lineVars, DisplayInv, LineTypes
    <2>3. line[u] = <<>> /\ buffer_pos[u] = 0
      BY <1>1, <1>7 DEF Good, GoodLine
    <2>4. Good(u)'
      BY <1>1, <1>2, <1>4, <1>6, <1>7, <2>3
         DEF Good, GoodLine, lineVars, DisplayInv, LineTypes
    <2>5. DisplayInv'
      BY <1>3, <2>1, <2>2, <2>4, OneTerminal
    <2> QED
      BY <1>2, <1>7, <2>5 DEF TerminalStep, Abstract!vars, lineVars
  <1>8. CASE /\ line' = [line EXCEPT ![u] = <<>>]
             /\ buffer_pos' = [buffer_pos EXCEPT ![u] = 0]
             /\ buf_status' = [buf_status EXCEPT ![u] = 1]
    <2>1. LineTypes'
      BY <1>4, <1>8, TerFacts DEF DisplayInv, LineTypes
    <2>2. \A t \in Ter \ {u} : Same(t)
      BY <1>2, <1>4, <1>8 DEF Same, DisplayInv, LineTypes
    <2>3. line'[u] = <<>> /\ buffer_pos'[u] = 0 /\ buf_status'[u] = 1 /\ reading'[u]
      BY <1>4, <1>8 DEF DisplayInv, LineTypes
    <2>4. Good(u)'
      BY <1>2, <1>5, <1>6, <2>3, TerFacts DEF Good, GoodLine
    <2>5. DisplayInv'
      BY <1>3, <2>1, <2>2, <2>4, OneTerminal
    <2>6. Abstract!NewLine(u)
      BY <1>2, <1>8 DEF Abstract!NewLine
    <2>7. Abstract!Next
      BY <2>6 DEF Abstract!Next
    <2> QED
      BY <2>5, <2>7 DEF TerminalStep
  <1> QED
    BY <1>7, <1>8 DEF ReadCall

\* A step that changes nothing of any terminal.
LEMMA NoTerminal ==
    ASSUME DisplayInv, PageTypes', PlaceTypes', printed' \in 0 .. PRINT_MAX, Maps',
           texts' = texts, cursors' = cursors, places' = places,
           UNCHANGED <<lineVars, reading>>
    PROVE  DisplayInv' /\ TerminalStep
  <1>1. LineTypes'
    BY DEF DisplayInv, LineTypes, lineVars
  <1>2. \A t \in Ter : Good(t)'
    BY DEF DisplayInv, Good, lineVars
  <1>3. UNCHANGED Abstract!vars
    BY DEF Abstract!vars, lineVars
  <1> QED
    BY <1>1, <1>2, <1>3 DEF DisplayInv, TerminalStep

\* The next process prints where its terminal's process was.
LEMMA SliceStep ==
    ASSUME DisplayInv, NEW t \in Ter, Slice(t)
    PROVE  DisplayInv' /\ TerminalStep
  <1>1. texts' = texts /\ cursors' = cursors
    BY TextsSame, CursorsSame DEF Slice
  <1>2. /\ screen_buf' = [screen_buf EXCEPT ![process_ter] = screen]
        /\ screen' = screen_buf'[t] /\ process_ter' = t
        /\ screen_buf \in [Ter -> Position] /\ screen \in Position
        /\ process_ter \in Ter
    BY DEF Slice, DisplayInv, PageTypes, PlaceTypes
  <1>3. \A u \in Ter : PlaceOf(u)' = PlaceOf(u)
    BY <1>2 DEF PlaceOf
  <1>4. places' = places
    BY <1>3 DEF places
  <1>5. screen_buf' \in [Ter -> Position] /\ screen' \in Position
    BY <1>2
  <1>6. PageTypes' /\ Maps'
    <2>1. MapOf(t) \in Page
      BY MapPage DEF DisplayInv, PageTypes
    <2> QED
      BY <2>1 DEF Slice, DisplayInv, PageTypes, Maps, MapOf
  <1>7. PlaceTypes' /\ printed' \in 0 .. PRINT_MAX
    BY <1>5 DEF Slice, DisplayInv, PlaceTypes
  <1> QED
    BY <1>1, <1>4, <1>6, <1>7, NoTerminal DEF Slice

-----------------------------------------------------------------------------
(***************************************************************************)
(* Keys.                                                                   *)
(***************************************************************************)
\* A key prints on the display; a hidden process goes on where it was.
LEMMA BorrowedStep ==
    ASSUME DisplayInv, NEW u \in Ter, u = active_ter, NEW s \in Canvas, Borrowed(s),
           UNCHANGED <<user_map, terVars>>
    PROVE  /\ texts' = [texts EXCEPT ![u] = s.text]
           /\ places' \in {places, [places EXCEPT ![u] = At(s)]}
           /\ PageTypes' /\ Maps' /\ printed' \in 0 .. PRINT_MAX
           /\ screen' \in Position /\ screen_buf' \in [Ter -> Position]
  <1>1. s.text \in Text /\ At(s) \in Position
    BY AtPosition
  <1>2. /\ page' = [page EXCEPT ![SCREEN] = s.text] /\ Prints
        /\ screen' = RunnerPosition(s)
        /\ video_map' = IF Hidden THEN process_ter ELSE video_map
        /\ screen_buf' = IF Hidden THEN [screen_buf EXCEPT ![process_ter] = screen]
                         ELSE screen_buf
    BY HereIs DEF Borrowed
  <1>3. MapOf(u) = SCREEN
    BY DEF MapOf
  <1>4. texts' = [texts EXCEPT ![u] = s.text] /\ page' \in [Page -> Text]
    BY <1>1, <1>2, <1>3, Painted DEF DisplayInv, terVars
  <1>5. video_map' = video_map
    BY <1>2 DEF DisplayInv, Maps, MapOf, Hidden
  <1>6. PageTypes' /\ Maps'
    BY <1>4, <1>5 DEF DisplayInv, PageTypes, Maps, MapOf, terVars
  <1>7. screen' \in Position /\ screen_buf' \in [Ter -> Position]
    BY <1>1, <1>2 DEF DisplayInv, PlaceTypes, RunnerPosition
  <1>8. places' \in {places, [places EXCEPT ![u] = At(s)]}
    <2>1. CASE Hidden
      <3>1. /\ screen' = screen /\ process_ter' = process_ter
            /\ screen_buf' = [screen_buf EXCEPT ![process_ter] = screen]
        BY <1>2, <2>1 DEF RunnerPosition, terVars
      <3>2. \A t \in Ter : PlaceOf(t)' = PlaceOf(t)
        BY <3>1 DEF PlaceOf, DisplayInv, PlaceTypes
      <3> QED
        BY <3>2 DEF places
    <2>2. CASE ~Hidden
      <3>1. screen' = At(s) /\ UNCHANGED <<screen_buf, process_ter>> /\ u = process_ter
        BY <1>2, <2>2 DEF RunnerPosition, terVars, Hidden
      <3> QED
        BY <3>1, PlaceMoves DEF DisplayInv
    <2> QED
      BY <2>1, <2>2
  <1> QED
    BY <1>2, <1>4, <1>6, <1>7, <1>8, CountStep DEF DisplayInv

\* What is known of a line at the prompt, on the display.
LEMMA PromptFacts ==
    ASSUME DisplayInv, NEW u \in Ter, u = active_ter, AtPrompt(u)
    PROVE  /\ cursor = cursors[u] /\ cursor \in Cell /\ cursor \in Nat
           /\ line[u] \in Seq(Char) /\ Len(line[u]) \in Nat
           /\ Len(line[u]) < KEYBOARD_BUFFER_SIZE
           /\ buffer_pos[u] \in 0 .. Len(line[u])
           /\ LineAt(texts[u], cursor - buffer_pos[u], line[u])
           /\ LET s == On(page[KeyPage], PositionOf(cursor))
              IN  /\ s \in Canvas /\ s.text = texts[u] /\ CellOf(s) = cursor
                  /\ s = On(texts[u], PositionOf(cursors[u]))
           /\ line \in [Ter -> Seq(Char \cup {NL})]
           /\ buffer_pos \in [Ter -> 0 .. KEYBOARD_BUFFER_SIZE - 1]
           /\ buf_status[u] = 1 /\ reading[u]
  <1>1. cursor = cursors[u]
    BY DEF cursors, CursorOf
  <1>2. Good(u) /\ buf_status[u] = 1 /\ reading[u]
    BY DEF DisplayInv, AtPrompt
  <1>3. /\ cursor \in Cell /\ cursor \in Nat
        /\ line[u] \in Seq(Char) /\ Len(line[u]) \in Nat
        /\ Len(line[u]) < KEYBOARD_BUFFER_SIZE
        /\ buffer_pos[u] \in 0 .. Len(line[u])
        /\ LineAt(texts[u], cursor - buffer_pos[u], line[u])
    BY <1>1, <1>2, SizeFacts DEF Good, GoodLine
  <1>4. PositionOf(cursor) \in Position /\ CellOf(PositionOf(cursor)) = cursor
    BY <1>3, PositionOfCell
  <1>5. page[KeyPage] = texts[u] /\ texts[u] \in Text
    BY HereIs
  <1>6. /\ On(texts[u], PositionOf(cursor)) \in Canvas
        /\ On(texts[u], PositionOf(cursor)).text = texts[u]
        /\ CellOf(On(texts[u], PositionOf(cursor))) = cursor
    BY <1>4, <1>5, OnCanvas
  <1> QED
    BY <1>1, <1>2, <1>3, <1>5, <1>6 DEF DisplayInv, LineTypes

\* A character inserted at the prompt.
LEMMA InsertStep ==
    ASSUME DisplayInv, NEW u \in Ter, u = active_ter, AtPrompt(u),
           NEW c \in Char, add_at_cursor(c)
    PROVE  DisplayInv' /\ TerminalStep
  <1> DEFINE p == buffer_pos[u]
             rest == SubSeq(line[u], p + 1, Len(line[u]))
             from == On(page[KeyPage], PositionOf(cursor))
             s == puts(from, <<c>> \o rest)
             new == InsertAt(line[u], p + 1, c)
             to == CellOf(s) - Len(rest)
  <1>1. /\ cursor = cursors[u] /\ cursor \in Nat
        /\ line[u] \in Seq(Char) /\ Len(line[u]) \in Nat
        /\ p \in 0 .. Len(line[u])
        /\ LineAt(texts[u], cursor - p, line[u])
        /\ from \in Canvas /\ from.text = texts[u] /\ CellOf(from) = cursor
        /\ from = On(texts[u], PositionOf(cursors[u]))
        /\ line \in [Ter -> Seq(Char \cup {NL})]
        /\ buffer_pos \in [Ter -> 0 .. KEYBOARD_BUFFER_SIZE - 1]
        /\ buf_status[u] = 1 /\ reading[u]
    BY PromptFacts
  <1>2. Len(line[u]) + 1 < KEYBOARD_BUFFER_SIZE /\ KEYBOARD_BUFFER_SIZE \in Nat
    BY <1>1, TerFacts DEF add_at_cursor, Room
  <1>3. /\ Borrowed(s)
        /\ cursor' = Word16(to)
        /\ line' = [line EXCEPT ![u] = new]
        /\ buffer_pos' = [buffer_pos EXCEPT ![u] = p + 1]
        /\ buf_status' = [buf_status EXCEPT ![u] = 1]
        /\ UNCHANGED <<user_map, terVars, pos_buf, reading>>
    BY <1>1 DEF add_at_cursor, Rest, CursorBack
  <1>4. s \in Canvas /\ to \in Cell /\ LineAt(s.text, to - (p + 1), new)
    <2>1. cursor - p \in Int /\ CellOf(from) = (cursor - p) + p
      BY <1>1
    <2> HIDE DEF from, p
    <2> QED
      BY <1>1, <1>2, <2>1, InsertShown
  <1>5. new \in Seq(Char) /\ Len(new) = Len(line[u]) + 1
    <2>1. line[u] \in Seq(Char) /\ p \in 0 .. Len(line[u])
      BY <1>1
    <2> HIDE DEF p
    <2> QED
      BY <2>1, InsertAtIs
  <1>6. s = puts(On(texts[u], PositionOf(cursors[u])), <<c>> \o rest)
    BY <1>1
  <1> HIDE DEF s, new, to, from
  <1>7. cursor' = to /\ cursor' \in Word
    BY <1>3, <1>4, CellWord
  <1>8. /\ texts' = [texts EXCEPT ![u] = s.text]
        /\ places' \in {places, [places EXCEPT ![u] = At(s)]}
        /\ PageTypes' /\ Maps' /\ printed' \in 0 .. PRINT_MAX
        /\ screen' \in Position /\ screen_buf' \in [Ter -> Position]
    BY <1>3, <1>4, BorrowedStep
  <1>9. cursors' = [cursors EXCEPT ![u] = to]
    BY <1>3, <1>4, <1>7, CursorMoves DEF DisplayInv, terVars
  <1>10. PlaceTypes'
    BY <1>3, <1>7, <1>8 DEF DisplayInv, PlaceTypes
  <1>11. LineTypes'
    <2>1. new \in Seq(Char \cup {NL}) /\ Len(new) <= KEYBOARD_BUFFER_SIZE
      BY <1>1, <1>2, <1>5
    <2>2. p + 1 \in 0 .. KEYBOARD_BUFFER_SIZE - 1
      BY <1>1, <1>2
    <2> HIDE DEF p
    <2> QED
      BY <1>3, <2>1, <2>2 DEF DisplayInv, LineTypes
  <1>12. \A t \in Ter \ {u} : Same(t)
    BY <1>3, <1>8, <1>9 DEF Same, texts, cursors, DisplayInv, LineTypes
  <1>13. /\ texts'[u] = s.text /\ cursors'[u] = to /\ line'[u] = new
         /\ buffer_pos'[u] = p + 1
    BY <1>1, <1>3, <1>8, <1>9 DEF texts, cursors
  <1>14. Good(u)'
    <2>1. p + 1 \in 0 .. Len(new) /\ Len(new) < KEYBOARD_BUFFER_SIZE
      BY <1>1, <1>2, <1>5
    <2>2. reading'[u] = reading[u]
      BY <1>3
    <2> HIDE DEF p
    <2> QED
      BY <1>1, <1>4, <1>5, <1>13, <2>1, <2>2 DEF Good, GoodLine
  <1>15. DisplayInv'
    BY <1>8, <1>10, <1>11, <1>12, <1>14, OneTerminal
  <1>16. Abstract!Insert(u, c)
    <2>1. /\ Abstract!puts(Abstract!On(texts[u], Abstract!PositionOf(cursors[u])),
                           <<c>> \o rest) = s
          /\ Abstract!At(s) = At(s) /\ Abstract!CellOf(s) = CellOf(s)
      BY <1>6, SameOperators
    <2>2. places' = [places EXCEPT ![u] = At(s)]
          \/ places' = [places EXCEPT ![u] = places[u]]
      BY <1>8 DEF places
    <2>3. cursors' = [cursors EXCEPT ![u] = CellOf(s) - Len(rest)]
      BY <1>9 DEF to
    <2> HIDE DEF rest
    <2>4. Abstract!Echo(u, cursors[u], <<c>> \o rest, Len(rest))
      BY <1>8, <2>1, <2>2, <2>3
         DEF Abstract!Echo, Abstract!Becomes, Abstract!CursorTo
    <2>5. /\ line' = [line EXCEPT ![u] = InsertAt(@, buffer_pos[u] + 1, c)]
          /\ buffer_pos' = [buffer_pos EXCEPT ![u] = @ + 1]
      BY <1>3 DEF new
    <2>6. \A a, b, d : Abstract!InsertAt(a, b, d) = InsertAt(a, b, d)
      BY DEF Abstract!InsertAt, InsertAt
    <2> QED
      BY <2>4, <2>5, <2>6 DEF Abstract!Insert, rest
  <1>17. Abstract!Next
    BY <1>16 DEF Abstract!Next
  <1> QED
    BY <1>15, <1>17 DEF TerminalStep

\* The character before the cursor is deleted.
LEMMA EraseStep ==
    ASSUME DisplayInv, NEW u \in Ter, u = active_ter, AtPrompt(u), delete_bf_cursor
    PROVE  DisplayInv' /\ TerminalStep
  <1> DEFINE p == buffer_pos[u]
             before == cursor - 1
             rest == SubSeq(line[u], p + 1, Len(line[u]))
             from == On(page[KeyPage], PositionOf(before))
             s == puts(from, rest \o <<SPACE>>)
             new == RemoveAt(line[u], p)
  <1>1. /\ cursor = cursors[u] /\ cursor \in Nat /\ cursor \in Cell
        /\ line[u] \in Seq(Char) /\ Len(line[u]) \in Nat
        /\ Len(line[u]) < KEYBOARD_BUFFER_SIZE
        /\ p \in 0 .. Len(line[u])
        /\ LineAt(texts[u], cursor - p, line[u])
        /\ line \in [Ter -> Seq(Char \cup {NL})]
        /\ buffer_pos \in [Ter -> 0 .. KEYBOARD_BUFFER_SIZE - 1]
        /\ buf_status[u] = 1 /\ reading[u]
    BY PromptFacts
  <1>2. p \in 1 .. Len(line[u]) /\ KEYBOARD_BUFFER_SIZE \in Nat /\ p # 0
    BY <1>1, TerFacts DEF delete_bf_cursor
  <1>3. before \in Cell /\ before \in Nat /\ cursor - p \in Int
    <2>1. cursor - p >= 0 /\ cursor < SIZE /\ SIZE \in Nat
      BY <1>1, SizeFacts DEF LineAt
    <2> HIDE DEF p
    <2> QED
      BY <1>1, <1>2, <2>1, SizeFacts
  <1>4. Word16(before) = before /\ before \in Word
    BY <1>3, CellWord
  <1>5. /\ Borrowed(s)
        /\ cursor' = before
        /\ line' = [line EXCEPT ![u] = new]
        /\ buffer_pos' = [buffer_pos EXCEPT ![u] = p - 1]
        /\ UNCHANGED <<user_map, terVars, pos_buf, buf_status, reading>>
    BY <1>1, <1>4 DEF delete_bf_cursor, Rest
  <1>6. /\ from \in Canvas /\ from.text = texts[u] /\ CellOf(from) = before
        /\ from = On(texts[u], PositionOf(cursors[u] - 1))
    <2>1. PositionOf(before) \in Position /\ CellOf(PositionOf(before)) = before
      BY <1>3, PositionOfCell
    <2>2. page[KeyPage] = texts[u] /\ texts[u] \in Text
      BY HereIs
    <2>3. before = cursors[u] - 1
      BY <1>1
    <2> HIDE DEF before
    <2> QED
      BY <2>1, <2>2, <2>3, OnCanvas
  <1>7. /\ s \in Canvas /\ CellOf(s) - (Len(rest) + 1) = before
        /\ LineAt(s.text, cursor - p, new)
    <2>1. CellOf(from) = (cursor - p) + p - 1 /\ (cursor - p) + p - 1 = before
      BY <1>1, <1>2, <1>6
    <2>2. line[u] \in Seq(Char) /\ p \in 1 .. Len(line[u]) /\ cursor - p \in Int
      BY <1>1, <1>2, <1>3
    <2>3. LineAt(from.text, cursor - p, line[u]) /\ CellOf(from) = before
      BY <1>1, <1>6
    <2> HIDE DEF from, before, p
    <2> QED
      BY <1>6, <2>1, <2>2, <2>3, EraseShown
  <1>8. new \in Seq(Char) /\ Len(new) = Len(line[u]) - 1
    <2>1. line[u] \in Seq(Char) /\ p \in 1 .. Len(line[u])
      BY <1>1, <1>2
    <2> HIDE DEF p
    <2> QED
      BY <2>1, RemoveAtIs
  <1>9. s = puts(On(texts[u], PositionOf(cursors[u] - 1)), rest \o <<SPACE>>)
    BY <1>6
  <1>10. before = cursors[u] - 1
    BY <1>1
  <1> HIDE DEF s, new, from, before
  <1>11. /\ texts' = [texts EXCEPT ![u] = s.text]
         /\ places' \in {places, [places EXCEPT ![u] = At(s)]}
         /\ PageTypes' /\ Maps' /\ printed' \in 0 .. PRINT_MAX
         /\ screen' \in Position /\ screen_buf' \in [Ter -> Position]
    BY <1>5, <1>7, BorrowedStep
  <1>12. cursors' = [cursors EXCEPT ![u] = before]
    BY <1>3, <1>5, CursorMoves DEF DisplayInv, terVars
  <1>13. PlaceTypes'
    BY <1>4, <1>5, <1>11 DEF DisplayInv, PlaceTypes
  <1>14. p - 1 \in 0 .. Len(new) /\ p - 1 \in 0 .. KEYBOARD_BUFFER_SIZE - 1
         /\ Len(new) < KEYBOARD_BUFFER_SIZE /\ new \in Seq(Char \cup {NL})
    BY <1>1, <1>2, <1>8
  <1>15. LineTypes'
    <2>1. Len(new) <= KEYBOARD_BUFFER_SIZE
      BY <1>1, <1>2, <1>8
    <2> HIDE DEF p
    <2> QED
      BY <1>5, <1>14, <2>1 DEF DisplayInv, LineTypes
  <1>16. \A t \in Ter \ {u} : Same(t)
    BY <1>5, <1>11, <1>12 DEF Same, texts, cursors, DisplayInv, LineTypes
  <1>17. /\ texts'[u] = s.text /\ cursors'[u] = before /\ line'[u] = new
         /\ buffer_pos'[u] = p - 1
    BY <1>1, <1>5, <1>11, <1>12 DEF texts, cursors
  <1>18. Good(u)'
    <2>1. before - (p - 1) = cursor - p
      BY <1>1, <1>2, <1>10
    <2>2. reading'[u] = reading[u]
      BY <1>5
    <2> HIDE DEF p
    <2> QED
      BY <1>1, <1>3, <1>7, <1>8, <1>14, <1>17, <2>1, <2>2 DEF Good, GoodLine
  <1>19. DisplayInv'
    BY <1>11, <1>13, <1>15, <1>16, <1>18, OneTerminal
  <1>20. Abstract!Erase(u)
    <2>1. /\ Abstract!puts(Abstract!On(texts[u], Abstract!PositionOf(cursors[u] - 1)),
                           rest \o <<SPACE>>) = s
          /\ Abstract!At(s) = At(s) /\ Abstract!CellOf(s) = CellOf(s)
      BY <1>9, SameOperators
    <2>2. places' = [places EXCEPT ![u] = At(s)]
          \/ places' = [places EXCEPT ![u] = places[u]]
      BY <1>11 DEF places
    <2>3. cursors' = [cursors EXCEPT ![u] = CellOf(s) - (Len(rest) + 1)]
      BY <1>7, <1>12
    <2> HIDE DEF rest
    <2>4. Abstract!Echo(u, cursors[u] - 1, rest \o <<SPACE>>, Len(rest) + 1)
      BY <1>11, <2>1, <2>2, <2>3
         DEF Abstract!Echo, Abstract!Becomes, Abstract!CursorTo
    <2>5. /\ line' = [line EXCEPT ![u] = RemoveAt(@, buffer_pos[u])]
          /\ buffer_pos' = [buffer_pos EXCEPT ![u] = @ - 1]
      BY <1>5 DEF new
    <2>6. \A a, b : Abstract!RemoveAt(a, b) = RemoveAt(a, b)
      BY DEF Abstract!RemoveAt, RemoveAt
    <2>7. buffer_pos[u] > 0
      BY <1>1, <1>2
    <2> QED
      BY <2>4, <2>5, <2>6, <2>7 DEF Abstract!Erase, rest
  <1>21. Abstract!Next
    BY <1>20 DEF Abstract!Next
  <1> QED
    BY <1>19, <1>21 DEF TerminalStep

\* The cursor moves in the line, and keeps its place in it.
LEMMA MoveStep ==
    ASSUME DisplayInv, NEW u \in Ter, u = active_ter, AtPrompt(u),
           NEW by \in {-1, 1}, move_cursor(by)
    PROVE  DisplayInv' /\ TerminalStep
  <1> DEFINE p == buffer_pos[u] + by
             c == cursor + by
  <1>1. /\ cursor = cursors[u] /\ cursor \in Nat /\ cursor \in Cell
        /\ line[u] \in Seq(Char) /\ Len(line[u]) \in Nat
        /\ Len(line[u]) < KEYBOARD_BUFFER_SIZE
        /\ buffer_pos[u] \in 0 .. Len(line[u])
        /\ LineAt(texts[u], cursor - buffer_pos[u], line[u])
        /\ buffer_pos \in [Ter -> 0 .. KEYBOARD_BUFFER_SIZE - 1]
        /\ buf_status[u] = 1 /\ reading[u]
    BY PromptFacts
  <1>2. p \in 0 .. Len(line[u]) /\ by \in Int /\ p \in 0 .. KEYBOARD_BUFFER_SIZE - 1
    <2> DEFINE n == Len(line[u])
    <2>1. CASE by = -1
      <3>1. buffer_pos[u] # 0
        BY <2>1 DEF move_cursor, LeftAllowed
      <3>2. n \in Nat /\ n < KEYBOARD_BUFFER_SIZE /\ buffer_pos[u] \in 0 .. n
        BY <1>1
      <3> HIDE DEF n
      <3> QED
        BY <2>1, <3>1, <3>2, TerFacts DEF n
    <2>2. CASE by = 1
      <3>1. buffer_pos[u] < n
        BY <2>2 DEF move_cursor, RightAllowed
      <3>2. n \in Nat /\ n < KEYBOARD_BUFFER_SIZE /\ buffer_pos[u] \in 0 .. n
        BY <1>1
      <3> HIDE DEF n
      <3> QED
        BY <2>2, <3>1, <3>2, TerFacts DEF n
    <2> QED
      BY <2>1, <2>2
  <1>3. c \in Cell /\ c - p = cursor - buffer_pos[u]
    <2> DEFINE n == Len(line[u])
               b == buffer_pos[u]
    <2>1. cursor - b >= 0 /\ (cursor - b) + n \in Cell /\ n \in Nat /\ b \in Int
          /\ b + by \in 0 .. n /\ cursor \in Nat /\ by \in Int
      BY <1>1, <1>2 DEF LineAt
    <2> HIDE DEF n, b
    <2>2. cursor + by \in Cell /\ (cursor + by) - (b + by) = cursor - b
      BY <2>1, SizeFacts
    <2> QED
      BY <2>2 DEF b
  <1>4. Word16(c) = c /\ c \in Word /\ PositionOf(c) \in Position
    <2> HIDE DEF c
    <2> QED
      BY <1>3, CellWord, PositionOfCell
  <1>5. /\ buffer_pos' = [buffer_pos EXCEPT ![u] = p]
        /\ cursor' = c
        /\ screen_buf' = [screen_buf EXCEPT ![u] = PositionOf(c)]
        /\ UNCHANGED <<page, mapVars, terVars, screen, pos_buf, line, buf_status,
                       reading, printed>>
    BY <1>4 DEF move_cursor
  <1>6. c = cursors[u] + by /\ (by = -1 => c = cursors[u] - 1)
        /\ (by = -1 => p = buffer_pos[u] - 1)
    BY <1>1
  <1> HIDE DEF c, p
  <1>7. texts' = texts
    BY <1>5, TextsSame DEF terVars
  <1>8. cursors' = [cursors EXCEPT ![u] = c]
    BY <1>3, <1>5, CursorMoves DEF DisplayInv, terVars
  <1>9. places' \in {places, [places EXCEPT ![u] = PositionOf(c)]}
    <2>1. /\ screen' = screen /\ process_ter' = process_ter
          /\ screen_buf \in [Ter -> Position]
      BY <1>5 DEF terVars, DisplayInv, PlaceTypes
    <2>2. CASE u = process_ter
      <3>1. \A t \in Ter : PlaceOf(t)' = PlaceOf(t)
        BY <1>5, <2>1, <2>2 DEF PlaceOf
      <3> QED
        BY <3>1 DEF places
    <2>3. CASE u # process_ter
      <3>1. \A t \in Ter : PlaceOf(t)' = IF t = u THEN PositionOf(c) ELSE PlaceOf(t)
        BY <1>5, <2>1, <2>3 DEF PlaceOf
      <3> QED
        BY <3>1 DEF places
    <2> QED
      BY <2>2, <2>3
  <1>10. PageTypes' /\ Maps' /\ printed' \in 0 .. PRINT_MAX
    BY <1>5 DEF DisplayInv, PageTypes, Maps, MapOf, mapVars, terVars
  <1>11. PlaceTypes'
    BY <1>4, <1>5 DEF DisplayInv, PlaceTypes
  <1>12. LineTypes'
    BY <1>2, <1>5 DEF DisplayInv, LineTypes
  <1>13. \A t \in Ter \ {u} : Same(t)
    BY <1>5, <1>7, <1>8 DEF Same, texts, cursors, DisplayInv, LineTypes
  <1>14. Good(u)'
    <2>1. /\ cursors'[u] = c /\ buffer_pos'[u] = p /\ line'[u] = line[u]
          /\ reading'[u] = reading[u] /\ texts'[u] = texts[u]
      BY <1>1, <1>5, <1>7, <1>8 DEF cursors
    <2> QED
      BY <1>1, <1>2, <1>3, <2>1 DEF Good, GoodLine
  <1>15. DisplayInv'
    BY <1>10, <1>11, <1>12, <1>13, <1>14, OneTerminal
  <1>16. Abstract!Move(u, p, c)
    <2>1. Abstract!PositionOf(c) = PositionOf(c)
      BY SameOperators
    <2> QED
      BY <1>2, <1>5, <1>7, <1>8, <1>9, <2>1 DEF Abstract!Move, Abstract!CursorTo
  <1>17. Abstract!Left(u) \/ Abstract!Right(u)
    BY <1>6, <1>16 DEF Abstract!Left, Abstract!Right, p
  <1>18. Abstract!Next
    BY <1>17 DEF Abstract!Next
  <1> QED
    BY <1>15, <1>18 DEF TerminalStep

\* The line ends: nothing waits for an edit of it any more.
LEMMA EnterStep ==
    ASSUME DisplayInv, NEW u \in Ter, u = active_ter, AtPrompt(u), KeyEnter
    PROVE  DisplayInv' /\ TerminalStep
  <1> DEFINE new == Append(line[u], NL)
  <1>1. /\ line[u] \in Seq(Char) /\ Len(line[u]) \in Nat
        /\ Len(line[u]) < KEYBOARD_BUFFER_SIZE
        /\ line \in [Ter -> Seq(Char \cup {NL})]
    BY PromptFacts
  <1>2. new \in Seq(Char \cup {NL}) /\ Len(new) <= KEYBOARD_BUFFER_SIZE
    BY <1>1, TerFacts
  <1>3. /\ line' = [line EXCEPT ![u] = new]
        /\ buf_status' = [buf_status EXCEPT ![u] = 0]
        /\ UNCHANGED <<page, mapVars, terVars, screen, screen_buf, cursor, pos_buf,
                       buffer_pos, reading, printed>>
    BY <1>1 DEF KeyEnter
  <1>4. line' = [line EXCEPT ![u] = Append(@, NL)]
    BY <1>3
  <1> HIDE DEF new
  <1>5. texts' = texts /\ cursors' = cursors /\ places' = places
    BY <1>3, TextsSame, CursorsSame, PlacesSame DEF terVars
  <1>6. PageTypes' /\ Maps' /\ PlaceTypes' /\ printed' \in 0 .. PRINT_MAX
    BY <1>3 DEF DisplayInv, PageTypes, PlaceTypes, Maps, MapOf, mapVars, terVars
  <1>7. LineTypes'
    BY <1>2, <1>3 DEF DisplayInv, LineTypes
  <1>8. \A t \in Ter \ {u} : Same(t)
    BY <1>3, <1>5 DEF Same, DisplayInv, LineTypes
  <1>9. Good(u)'
    <2>1. Good(u) /\ buf_status'[u] = 0
      BY <1>3 DEF DisplayInv, LineTypes
    <2> QED
      BY <1>5, <2>1 DEF Good, GoodLine
  <1>10. DisplayInv'
    BY <1>6, <1>7, <1>8, <1>9, OneTerminal
  <1>11. Abstract!Entered(u)
    BY <1>3, <1>4, <1>5 DEF Abstract!Entered
  <1>12. Abstract!Next
    BY <1>11 DEF Abstract!Next
  <1> QED
    BY <1>10, <1>12 DEF TerminalStep

\* The display is cleared, at an empty line.
LEMMA ClearStep ==
    ASSUME DisplayInv, NEW u \in Ter, u = active_ter, line[u] = <<>>, KeyClear
    PROVE  DisplayInv' /\ TerminalStep
  <1>1. /\ Prints /\ page' = [page EXCEPT ![MapOf(u)] = Blank]
        /\ cursor' = 0 /\ UNCHANGED <<user_map, terVars, pos_buf, lineVars, reading>>
    BY HereIs DEF KeyClear, MapOf
  <1>2. /\ screen' = RunnerPosition(On(Blank, Home))
        /\ video_map' = video_map
        /\ screen_buf' = IF Hidden
                         THEN [screen_buf EXCEPT ![process_ter] = screen, ![u] = Home]
                         ELSE [screen_buf EXCEPT ![u] = Home]
    BY DEF KeyClear, DisplayInv, Maps, MapOf, Hidden
  <1>3. At(On(Blank, Home)) = Home /\ On(Blank, Home).text = Blank
    BY DEF At, On, Home
  <1>4. texts' = [texts EXCEPT ![u] = Blank] /\ page' \in [Page -> Text]
    BY <1>1, BlankText, Painted DEF DisplayInv, terVars
  <1>5. cursors' = [cursors EXCEPT ![u] = 0] /\ cursor' \in Word
    BY <1>1, BlankText, CursorMoves DEF DisplayInv, terVars
  <1>6. places' = [places EXCEPT ![u] = Home]
    <2>1. process_ter' = process_ter /\ screen_buf \in [Ter -> Position]
      BY <1>1 DEF terVars, DisplayInv, PlaceTypes
    <2>2. CASE Hidden
      <3>1. screen' = screen /\ process_ter # u
        BY <1>2, <2>2 DEF RunnerPosition, Hidden
      <3>2. \A t \in Ter : PlaceOf(t)' = IF t = u THEN Home ELSE PlaceOf(t)
        BY <1>2, <2>1, <2>2, <3>1 DEF PlaceOf
      <3> QED
        BY <3>2 DEF places
    <2>3. CASE ~Hidden
      <3>1. screen' = Home /\ process_ter = u
        BY <1>2, <1>3, <2>3 DEF RunnerPosition, Hidden
      <3>2. \A t \in Ter : PlaceOf(t)' = IF t = u THEN Home ELSE PlaceOf(t)
        BY <1>2, <2>1, <2>3, <3>1 DEF PlaceOf
      <3> QED
        BY <3>2 DEF places
    <2> QED
      BY <2>2, <2>3
  <1>7. PageTypes' /\ Maps'
    BY <1>1, <1>2, <1>4 DEF DisplayInv, PageTypes, Maps, MapOf, terVars
  <1>8. PlaceTypes'
    <2>1. screen' \in Position
      BY <1>2, <1>3, BlankText DEF RunnerPosition, DisplayInv, PlaceTypes
    <2>2. screen_buf' \in [Ter -> Position]
      BY <1>2, BlankText DEF DisplayInv, PlaceTypes
    <2> QED
      BY <1>1, <1>5, <2>1, <2>2 DEF DisplayInv, PlaceTypes
  <1>9. LineTypes' /\ printed' \in 0 .. PRINT_MAX
    BY <1>1, CountStep DEF DisplayInv, LineTypes, lineVars
  <1>10. \A t \in Ter \ {u} : Same(t)
    BY <1>1, <1>4, <1>5 DEF Same, lineVars, texts, cursors
  <1>11. Good(u)'
    <2>1. Good(u) /\ cursors'[u] = 0 /\ line'[u] = <<>> /\ buffer_pos'[u] = buffer_pos[u]
          /\ buf_status'[u] = buf_status[u] /\ reading'[u] = reading[u]
      BY <1>1, <1>5 DEF DisplayInv, cursors, lineVars
    <2>2. buf_status[u] = 1 => buffer_pos[u] = 0
      BY <2>1 DEF Good, GoodLine
    <2>3. buf_status[u] = 1 => LineAt(texts'[u], 0 - buffer_pos[u], <<>>)
      BY <2>2, BlankText DEF LineAt
    <2> QED
      BY <2>1, <2>3, BlankText DEF Good, GoodLine
  <1>12. DisplayInv'
    BY <1>7, <1>8, <1>9, <1>10, <1>11, OneTerminal
  <1>13. Abstract!Clear(u)
    <2>1. Abstract!On(Abstract!Blank, Abstract!Home).text = Blank /\ Abstract!Home = Home
      BY <1>3, SameOperators
    <2> QED
      BY <1>1, <1>4, <1>5, <1>6, <2>1
         DEF Abstract!Clear, Abstract!Becomes, Abstract!CursorTo, lineVars
  <1>14. Abstract!Next
    BY <1>13 DEF Abstract!Next
  <1> QED
    BY <1>12, <1>14 DEF TerminalStep

\* Another terminal comes on display.
LEMMA SwitchStep ==
    ASSUME DisplayInv, NEW t \in Ter, process_ter # t,
           process_ter \in Drawing => Hidden, switch_video(t)
    PROVE  DisplayInv' /\ TerminalStep
  <1> DEFINE u == active_ter
  <1>1. /\ page \in [Page -> Text] /\ u \in Ter /\ process_ter \in Ter
        /\ pos_buf \in [Ter -> Word] /\ cursor \in Word
    BY DEF DisplayInv, PageTypes, PlaceTypes
  <1>2. /\ t # u /\ active_ter' = t
        /\ page' = [p \in Page |-> IF p = SCREEN THEN page[t] ELSE SwitchedOut(p)]
        /\ pos_buf' = [pos_buf EXCEPT ![u] = cursor] /\ cursor' = pos_buf[t]
        /\ video_map' = process_ter
        /\ UNCHANGED <<user_map, process_ter, screen, screen_buf, lineVars, reading,
                       printed>>
    BY DEF switch_video
  <1>3. \A p \in Page : p # SCREEN => page'[p] = IF p = u THEN page[SCREEN] ELSE page[p]
    BY <1>2 DEF SwitchedOut
  <1>4. page'[SCREEN] = page[t]
    BY <1>2, TerFacts
  <1>5. page' \in [Page -> Text]
    <2>1. \A p \in Page : (IF p = SCREEN THEN page[t] ELSE SwitchedOut(p)) \in Text
      BY <1>1, TerFacts DEF SwitchedOut
    <2> QED
      BY <1>2, <2>1
  <1>6. texts' = texts
    <2>1. ASSUME NEW v \in Ter PROVE TextOf(v)' = TextOf(v)
      <3>1. v \in Page /\ v # SCREEN
        BY TerFacts
      <3>2. CASE v = t
        BY <1>2, <1>4, <3>2 DEF TextOf
      <3>3. CASE v # t
        BY <1>2, <1>3, <3>1, <3>3 DEF TextOf
      <3> QED
        BY <3>2, <3>3
    <2> QED
      BY <2>1 DEF texts
  <1>7. cursors' = cursors
    <2>1. ASSUME NEW v \in Ter PROVE CursorOf(v)' = CursorOf(v)
      BY <1>1, <1>2 DEF CursorOf
    <2> QED
      BY <2>1 DEF cursors
  <1>8. places' = places
    BY <1>2, PlacesSame
  <1>9. PageTypes'
    BY <1>1, <1>2, <1>5, TerFacts DEF PageTypes, DisplayInv
  <1>10. PlaceTypes' /\ printed' \in 0 .. PRINT_MAX
    BY <1>1, <1>2 DEF PlaceTypes, DisplayInv
  <1>11. Maps'
    BY <1>2 DEF Maps, DisplayInv, MapOf, Hidden
  <1> QED
    BY <1>2, <1>6, <1>7, <1>8, <1>9, <1>10, <1>11, NoTerminal

-----------------------------------------------------------------------------
(***************************************************************************)
(* All steps, and what follows.                                            *)
(***************************************************************************)
LEMMA MessageText ==
    /\ <<NL>> \in Seq(Shown \cup {NL})
    /\ \A c \in Char : <<c, NL>> \in Seq(Shown \cup {NL})
  BY DEF Shown

LEMMA RunningStep ==
    ASSUME DisplayInv, Running
    PROVE  DisplayInv' /\ TerminalStep
  <1>1. PICK t \in Ter : t = process_ter
    BY DEF DisplayInv, PageTypes
  <1>2. CASE \E c \in Char \cup {NL} : Write(c)
    BY <1>1, <1>2, WriteStep
  <1>3. CASE \E c \in Char : Message(<<c, NL>>)
    <2>1. PICK c \in Char : Message(<<c, NL>>)
      BY <1>3
    <2>2. /\ Printed(puts(Here, <<c, NL>>)) /\ ~reading[t]
          /\ UNCHANGED <<mapVars, terVars, screen_buf, cursor, pos_buf, lineVars,
                         reading>>
      BY <1>1, <2>1 DEF Message
    <2>3. reading' = [reading EXCEPT ![t] = FALSE]
      BY <2>2 DEF DisplayInv, LineTypes
    <2>4. buf_status[t] = 1 => line[t] = <<>>
      BY <2>2 DEF DisplayInv, Good, GoodLine
    <2>5. DisplayInv' /\ Abstract!Message(t, <<c, NL>>)
      BY <1>1, <2>2, <2>3, <2>4, MessageText, MessageStep
    <2>6. Abstract!Next
      BY <2>5 DEF Abstract!Next
    <2> QED
      BY <2>5, <2>6 DEF TerminalStep
  <1>4. CASE \E i \in Cell, c \in Char : Draw(i, c)
    BY <1>1, <1>4, DrawStep
  <1>5. CASE ReadCall
    BY <1>1, <1>5, ReadCallStep
  <1>6. CASE ReadReturn
    <2>1. /\ Printed(puts(Here, <<NL>>)) /\ buf_status[t] # 1
          /\ UNCHANGED <<mapVars, terVars, screen_buf, cursor, pos_buf, lineVars>>
          /\ reading' = [reading EXCEPT ![t] = FALSE]
      BY <1>1, <1>6 DEF ReadReturn
    <2>2. DisplayInv' /\ Abstract!Message(t, <<NL>>)
      BY <1>1, <2>1, MessageText, MessageStep
    <2>3. Abstract!Next
      BY <2>2 DEF Abstract!Next
    <2> QED
      BY <2>2, <2>3 DEF TerminalStep
  <1>7. CASE \E v \in Ter : Slice(v)
    BY <1>7, SliceStep
  <1> QED
    BY <1>2, <1>3, <1>4, <1>5, <1>6, <1>7 DEF Running

LEMMA RestartedStep ==
    ASSUME DisplayInv, ~Hidden, NEW c \in Char, Restart(<<c, NL>>)
    PROVE  DisplayInv' /\ TerminalStep
  <1>1. PICK t \in Ter : t = process_ter
    BY DEF DisplayInv, PageTypes
  <1>2. DisplayInv' /\ Abstract!Restart(t, <<c, NL>>)
    BY <1>1, MessageText, RestartStep
  <1>3. Abstract!Next
    BY <1>2 DEF Abstract!Next
  <1> QED
    BY <1>2, <1>3 DEF TerminalStep

\* Ctrl+C at an empty line of the running process.
LEMMA HaltStep ==
    ASSUME DisplayInv, line[active_ter] = <<>>, ~Hidden,
           NEW c \in Char, KeyHalt(<<c, NL>>)
    PROVE  DisplayInv' /\ TerminalStep
  <1>1. PICK t \in Ter : t = process_ter
    BY DEF DisplayInv, PageTypes
  <1>2. t = active_ter
    BY <1>1 DEF Hidden
  <1>3. /\ Printed(puts(Here, <<c, NL>>)) /\ line[t] = <<>>
        /\ reading' = [reading EXCEPT ![t] = FALSE]
        /\ UNCHANGED <<mapVars, terVars, screen_buf, cursor, pos_buf, lineVars>>
    BY <1>2 DEF KeyHalt
  <1>4. DisplayInv' /\ Abstract!Message(t, <<c, NL>>)
    BY <1>1, <1>3, MessageText, MessageStep
  <1>5. Abstract!Next
    BY <1>4 DEF Abstract!Next
  <1> QED
    BY <1>4, <1>5 DEF TerminalStep

LEMMA OrderlyKeyStep ==
    ASSUME DisplayInv, OrderlyKey
    PROVE  DisplayInv' /\ TerminalStep
  <1>1. PICK u \in Ter : u = active_ter
    BY DEF DisplayInv, PageTypes
  <1>2. CASE AtPrompt(u) /\ \E c \in Char : add_at_cursor(c)
    BY <1>1, <1>2, InsertStep
  <1>3. CASE AtPrompt(u) /\ delete_bf_cursor
    BY <1>1, <1>3, EraseStep
  <1>4. CASE AtPrompt(u) /\ (move_cursor(-1) \/ move_cursor(1))
    <2>1. PICK by \in {-1, 1} : move_cursor(by)
      BY <1>4
    <2> QED
      BY <1>1, <1>4, <2>1, MoveStep
  <1>5. CASE AtPrompt(u) /\ KeyEnter
    BY <1>1, <1>5, EnterStep
  <1>6. CASE line[u] = <<>> /\ KeyClear
    BY <1>1, <1>6, ClearStep
  <1>7. CASE line[u] = <<>> /\ ~Hidden /\ \E c \in Char : KeyHalt(<<c, NL>>)
    BY <1>1, <1>7, HaltStep
  <1>8. CASE \E t \in Ter : /\ process_ter # t
                            /\ process_ter \in Drawing => Hidden
                            /\ switch_video(t)
    BY <1>8, SwitchStep
  <1> QED
    BY <1>1, <1>2, <1>3, <1>4, <1>5, <1>6, <1>7, <1>8 DEF OrderlyKey

LEMMA DisplayInit == Init => DisplayInv /\ Abstract!Init
  <1> SUFFICES ASSUME Init PROVE DisplayInv /\ Abstract!Init
    OBVIOUS
  <1>1. PageTypes /\ Maps
    BY BlankText, TerFacts DEF Init, PageTypes, Maps, MapOf
  <1>2. PlaceTypes
    <2>1. 0 \in Word
      BY BlankText, CellWord
    <2> QED
      BY <2>1, BlankText DEF Init, PlaceTypes
  <1>3. LineTypes /\ printed \in 0 .. PRINT_MAX
    BY TerFacts DEF Init, LineTypes
  <1>4. /\ texts = [t \in Ter |-> Blank] /\ places = [t \in Ter |-> Home]
        /\ cursors = [t \in Ter |-> 0]
    BY TerFacts DEF Init, texts, TextOf, places, PlaceOf, cursors, CursorOf
  <1>5. \A t \in Ter : Good(t)
    BY <1>4, BlankText DEF Init, Good, GoodLine
  <1>6. Abstract!Init
    BY <1>4, SameOperators DEF Init, Abstract!Init
  <1> QED
    BY <1>1, <1>2, <1>3, <1>5, <1>6 DEF DisplayInv

LEMMA DisplayStep == DisplayInv /\ [OrderlyNext]_vars => DisplayInv' /\ TerminalStep
  <1> SUFFICES ASSUME DisplayInv, [OrderlyNext]_vars PROVE DisplayInv' /\ TerminalStep
    OBVIOUS
  <1>1. CASE Running
    BY <1>1, RunningStep
  <1>2. CASE ~Hidden /\ \E c \in Char : Restart(<<c, NL>>)
    BY <1>2, RestartedStep
  <1>3. CASE OrderlyKey
    BY <1>3, OrderlyKeyStep
  <1>4. CASE UNCHANGED vars
    <2>1. UNCHANGED <<page, mapVars, terVars, screen, screen_buf, cursor, pos_buf,
                      lineVars, reading, printed>>
      BY <1>4 DEF vars
    <2>2. texts' = texts /\ cursors' = cursors /\ places' = places
      BY <2>1, TextsSame, CursorsSame, PlacesSame DEF terVars
    <2>3. PageTypes' /\ PlaceTypes' /\ printed' \in 0 .. PRINT_MAX /\ Maps'
      BY <2>1 DEF DisplayInv, PageTypes, PlaceTypes, Maps, MapOf, mapVars, terVars
    <2> QED
      BY <2>1, <2>2, <2>3, NoTerminal
  <1> QED
    BY <1>1, <1>2, <1>3, <1>4 DEF OrderlyNext

LEMMA DisplayInvHolds == OrderlySpec => []DisplayInv
  <1>1. Init => DisplayInv
    BY DisplayInit
  <1>2. DisplayInv /\ [OrderlyNext]_vars => DisplayInv'
    BY DisplayStep
  <1> QED
    BY <1>1, <1>2, PTL DEF OrderlySpec

\* What the pages, the positions, the cursors and the lines hold (the fields
\* that keyboard.c:345-494, terminal_driver.c:252-306 and lib.c:270-330 set),
\* for any number of terminals and any programs that draw.
THEOREM DisplayTypes == OrderlySpec => []TypeOK
  <1>1. DisplayInv => TypeOK
    BY DEF DisplayInv, TypeOK, PageTypes, PlaceTypes, LineTypes, Text, Word
  <1> QED
    BY <1>1, DisplayInvHolds, PTL

\* No cursor leaves the screen, so no key prints outside video memory
\* (keyboard.c:327, :425, lib.c:270-330), on a screen of any size on which a
\* line fits.
THEOREM CursorsStay == OrderlySpec => []OnScreen
  <1>1. DisplayInv => OnScreen
    BY DEF DisplayInv, Good, GoodLine, OnScreen, cursors
  <1> QED
    BY <1>1, DisplayInvHolds, PTL

\* A line that a program waits for is on its terminal's screen where the cursor
\* and its position in the line say, whoever printed or scrolled in between and
\* whichever terminal was on display (keyboard.c:345-443, :464-494,
\* terminal_driver.c:252-306).
THEOREM LinesStayVisible == OrderlySpec => []LineVisible
  <1>1. DisplayInv => LineVisible
    <2> SUFFICES ASSUME DisplayInv, NEW t \in Ter, AtPrompt(t),
                        NEW i \in 1 .. Len(line[t])
                 PROVE  LET cell == CursorOf(t) - buffer_pos[t] + i - 1
                        IN  cell \in Cell /\ TextOf(t)[cell] = line[t][i]
      BY DEF LineVisible
    <2> DEFINE n == Len(line[t])
               start == CursorOf(t) - buffer_pos[t]
    <2>1. LineAt(TextOf(t), start, line[t]) /\ line[t] \in Seq(Char)
      BY DEF DisplayInv, Good, GoodLine, AtPrompt, texts, cursors
    <2>2. CursorOf(t) \in Cell /\ buffer_pos[t] \in Nat
      BY DEF DisplayInv, Good, GoodLine, cursors, LineTypes
    <2>3. start \in Int /\ n \in Nat /\ i \in 1 .. n
      BY <2>1, <2>2, SizeFacts
    <2>4. start >= 0 /\ start + n \in Cell /\ TextOf(t)[start + i - 1] = line[t][i]
      BY <2>1 DEF LineAt
    <2> HIDE DEF start, n
    <2>5. start + i - 1 \in Cell
      BY <2>3, <2>4, SizeFacts
    <2> QED
      BY <2>4, <2>5 DEF start
  <1> QED
    BY <1>1, DisplayInvHolds, PTL

\* The one display, printing position and cursor of the kernel implement
\* terminals that are independent of each other: no step of a program, a key,
\* the scheduler (scheduler.c:84-95) or a switch of the display
\* (terminal_driver.c:252-306) changes what another terminal shows, where its
\* program prints next or where its cursor is.
THEOREM DisplayImplementsTerminals == OrderlySpec => ImplementsTerminals
  <1>1. Init => Abstract!Init
    BY DisplayInit
  <1>2. DisplayInv /\ [OrderlyNext]_vars => [Abstract!Next]_(Abstract!vars)
    BY DisplayStep DEF TerminalStep
  <1> QED
    BY <1>1, <1>2, DisplayInvHolds, PTL
       DEF OrderlySpec, ImplementsTerminals, Abstract!Spec
=============================================================================
