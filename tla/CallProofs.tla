------------------------------- MODULE CallProofs -------------------------------
(***************************************************************************)
(* Proofs that the pure functions of the kernel return what they should:   *)
(* copies for memories of any size, numbers for words of any width up to   *)
(* 32 bits, command lines for any directory and any line, modifier keys    *)
(* for any sequence of codes.                                              *)
(***************************************************************************)
EXTENDS PureCalls, FileProofs, FiniteSetTheorems, SequenceTheorems

-----------------------------------------------------------------------------
(***************************************************************************)
(* Folds.  FoldLeft is a recursive function on the sets of positions.      *)
(***************************************************************************)

\* The greatest of a set of positions.
LEMMA MaxIs ==
    ASSUME NEW n \in Nat, NEW s \in SUBSET (1 .. n), s # {}
    PROVE  Max(s) \in s /\ \A i \in s : i <= Max(s)
  <1> DEFINE T == {n - i : i \in s}
  <1>1. T \subseteq Nat /\ T # {}
    <2>1. \A i \in s : n - i \in Nat
      OBVIOUS
    <2> QED
      BY <2>1
  <1>2. PICK x \in T : \A y \in T : x <= y
    <2> HIDE DEF T
    <2> QED
      BY <1>1, Minimum
  <1>3. PICK i \in s : x = n - i
    OBVIOUS
  <1>4. \A j \in s : i >= j
    <2> TAKE j \in s
    <2>1. n - j \in T
      OBVIOUS
    <2>2. n - i <= n - j
      BY <1>2, <1>3, <2>1
    <2> QED
      BY <2>2
  <1>5. \E m \in s : \A j \in s : m >= j
    BY <1>4
  <1>6. Max(s) \in s /\ \A j \in s : Max(s) >= j
    BY <1>5 DEF Max
  <1> QED
    BY <1>6

LEMMA MaxOfFirst ==
    ASSUME NEW k \in Nat \ {0}
    PROVE  Max(1 .. k) = k /\ (1 .. k) \ {k} = 1 .. k - 1
  <1>1. 1 .. k \in SUBSET (1 .. k) /\ 1 .. k # {} /\ k \in 1 .. k
    OBVIOUS
  <1>2. Max(1 .. k) \in 1 .. k /\ k <= Max(1 .. k)
    BY <1>1, MaxIs
  <1> QED
    BY <1>2

\* A statement about numbers that holds of 0 and passes from each number to
\* the next holds of all: stated for the set of those it does not hold of.
LEMMA NoLeast ==
    ASSUME NEW T, T \subseteq Nat, 0 \notin T,
           \A k \in T : k - 1 \in T
    PROVE  T = {}
  <1> SUFFICES ASSUME T # {} PROVE FALSE
    OBVIOUS
  <1>1. PICK k \in T : \A i \in T : k <= i
    BY Minimum
  <1> QED
    BY <1>1

\* The same along positions up to n.
LEMMA Climb ==
    ASSUME NEW n \in Nat, NEW P, 0 \in P, \A k \in 1 .. n : k - 1 \in P => k \in P
    PROVE  \A k \in 0 .. n : k \in P
  <1> DEFINE T == (0 .. n) \ P
  <1>1. T \subseteq Nat /\ 0 \notin T
    OBVIOUS
  <1>2. \A k \in T : k - 1 \in T
    <2> TAKE k \in T
    <2>1. k \in 1 .. n /\ k \notin P /\ k - 1 \in 0 .. n
      BY <1>1
    <2> QED
      BY <2>1
  <1>3. T = {}
    <2> HIDE DEF T
    <2> QED
      BY <1>1, <1>2, NoLeast
  <1> QED
    BY <1>3

\* A fold of steps that stay in a set has a solution there.
Folds(g, n, M, step, seq, base) ==
    /\ g \in [SUBSET (1 .. n) -> M]
    /\ \A s \in SUBSET (1 .. n) :
          g[s] = IF s = {} THEN base ELSE step[<<g[s \ {Max(s)}], seq[Max(s)]>>]

LEMMA FoldExists ==
    ASSUME NEW M, NEW U, NEW step \in [M \X U -> M], NEW base \in M,
           NEW n \in Nat, NEW seq, \A i \in 1 .. n : seq[i] \in U
    PROVE  \E g : Folds(g, n, M, step, seq, base)
  <1> DEFINE T == {k \in 0 .. n : ~ \E g : Folds(g, k, M, step, seq, base)}
  <1>1. 0 \notin T
    <2> DEFINE g == [s \in SUBSET (1 .. 0) |-> base]
    <2>1. \A s \in SUBSET (1 .. 0) : s = {}
      OBVIOUS
    <2>2. Folds(g, 0, M, step, seq, base)
      BY <2>1 DEF Folds
    <2> QED
      BY <2>2
  <1>2. ASSUME NEW k \in 0 .. n, k + 1 \in 0 .. n, k \notin T
        PROVE  k + 1 \notin T
    <2>1. PICK g : Folds(g, k, M, step, seq, base)
      BY <1>2
    <2> DEFINE h == [s \in SUBSET (1 .. k + 1) |->
                        IF k + 1 \in s THEN step[<<g[s \ {k + 1}], seq[k + 1]>>] ELSE g[s]]
    <2>2. \A s \in SUBSET (1 .. k + 1) :
              /\ k + 1 \in s => s \ {k + 1} \in SUBSET (1 .. k)
              /\ k + 1 \notin s => s \in SUBSET (1 .. k)
      BY <1>2
    <2>3. h \in [SUBSET (1 .. k + 1) -> M]
      <3>1. seq[k + 1] \in U
        BY <1>2
      <3> QED
        BY <2>1, <2>2, <3>1 DEF Folds
    <2>4. ASSUME NEW s \in SUBSET (1 .. k + 1)
          PROVE  h[s] = IF s = {} THEN base ELSE step[<<h[s \ {Max(s)}], seq[Max(s)]>>]
      <3>1. CASE s = {}
        BY <2>1, <2>2, <3>1 DEF Folds
      <3>2. CASE s # {} /\ k + 1 \in s
        <4>1. Max(s) = k + 1
          <5>1. k + 1 \in Nat
            BY <1>2
          <5>2. Max(s) \in s /\ k + 1 <= Max(s)
            BY <3>2, <5>1, MaxIs
          <5>3. Max(s) \in 1 .. k + 1
            BY <5>2
          <5> QED
            BY <5>1, <5>2, <5>3
        <4>2. s \ {k + 1} \in SUBSET (1 .. k + 1) /\ k + 1 \notin s \ {k + 1}
          OBVIOUS
        <4>3. h[s \ {k + 1}] = g[s \ {k + 1}]
          BY <4>2
        <4> QED
          BY <3>2, <4>1, <4>3
      <3>3. CASE s # {} /\ k + 1 \notin s
        <4>1. s \in SUBSET (1 .. k)
          BY <2>2, <3>3
        <4>2. s \ {Max(s)} \in SUBSET (1 .. k + 1) /\ k + 1 \notin s \ {Max(s)}
          BY <3>3
        <4>3. h[s] = g[s] /\ h[s \ {Max(s)}] = g[s \ {Max(s)}]
          BY <3>3, <4>2
        <4> QED
          BY <2>1, <3>3, <4>1, <4>3 DEF Folds
      <3> QED
        BY <3>1, <3>2, <3>3
    <2> HIDE DEF h
    <2>5. Folds(h, k + 1, M, step, seq, base)
      BY <2>3, <2>4 DEF Folds
    <2> QED
      BY <2>5
  <1>5. T \subseteq Nat
    OBVIOUS
  <1>3. \A k \in T : k - 1 \in T
    <2> SUFFICES ASSUME NEW k \in T PROVE k - 1 \in T
      OBVIOUS
    <2>1. k \in 0 .. n /\ k # 0
      BY <1>1
    <2>2. k - 1 \in 0 .. n /\ k - 1 + 1 = k
      BY <2>1
    <2> HIDE DEF T
    <2> QED
      BY <1>2, <2>1, <2>2
  <1>4. T = {}
    <2> HIDE DEF T
    <2> QED
      BY <1>1, <1>3, <1>5, NoLeast
  <1>6. n \in 0 .. n
    OBVIOUS
  <1> QED
    BY <1>4, <1>6

\* The sets of first positions, which a fold goes through.
LEMMA FirstPositions ==
    ASSUME NEW n \in Nat
    PROVE  /\ \A k \in 0 .. n : 1 .. k \in SUBSET (1 .. n)
           /\ 1 .. 0 = {}
           /\ \A k \in 1 .. n : /\ k - 1 \in 0 .. n /\ k \in 0 .. n
                                /\ 1 .. k # {} /\ Max(1 .. k) = k
                                /\ (1 .. k) \ {k} = 1 .. k - 1
  <1>1. \A k \in 1 .. n : k \in Nat \ {0}
    OBVIOUS
  <1> QED
    BY <1>1, MaxOfFirst

-----------------------------------------------------------------------------
(***************************************************************************)
(* Memory.                                                                 *)
(***************************************************************************)
Memories == [0 .. MEMORY - 1 -> Int]

\* Steps of a copy of n bytes.
Within(n) == {u \in [at : Nat, width : Nat] : u.at + u.width <= n}

LEMMA MoveStays ==
    ASSUME NEW mem \in Memories, NEW dest \in Nat, NEW src \in Nat, NEW width \in Nat,
           src + width <= MEMORY, dest + width <= MEMORY, MEMORY \in Nat
    PROVE  /\ Move(mem, dest, src, width) \in Memories
           /\ \A a \in 0 .. MEMORY - 1 : Move(mem, dest, src, width)[a] =
                  IF a \in dest .. dest + width - 1 THEN mem[src + (a - dest)] ELSE mem[a]
  <1>1. \A a \in dest .. dest + width - 1 : src + (a - dest) \in 0 .. MEMORY - 1
    OBVIOUS
  <1>2. DOMAIN mem = 0 .. MEMORY - 1
    BY DEF Memories
  <1> QED
    BY <1>1, <1>2 DEF Move, Memories

CopyRun(f, mem, dest, src, n, us) ==
    /\ f[0] = mem
    /\ \A k \in 1 .. Len(us) :
          f[k] = Move(f[k - 1], dest + us[k].at, src + us[k].at, us[k].width)
    /\ memcpy(mem, dest, src, n) = f[Len(us)]

\* The memories that memcpy leaves after each step.
LEMMA CopyRuns ==
    ASSUME NEW mem \in Memories, NEW dest \in Nat, NEW src \in Nat, NEW n \in Nat,
           src + n <= MEMORY, dest + n <= MEMORY, MEMORY \in Nat,
           NEW us \in Seq(Within(n)), us = Units(dest, n)
    PROVE  \E f : CopyRun(f, mem, dest, src, n, us)
  <1> DEFINE Step(m, u) == Move(m, dest + u.at, src + u.at, u.width)
             step == [mu \in Memories \X Within(n) |-> Step(mu[1], mu[2])]
             Solves(g) == g = [s \in SUBSET (DOMAIN us) |->
                                  IF s = {} THEN mem ELSE Step(g[s \ {Max(s)}], us[Max(s)])]
             c == CHOOSE g : Solves(g)
             f == [k \in 0 .. Len(us) |-> c[1 .. k]]
  <1>1. /\ DOMAIN us = 1 .. Len(us) /\ Len(us) \in Nat
        /\ \A i \in 1 .. Len(us) : us[i] \in Within(n)
    OBVIOUS
  <1>2. \A m \in Memories, u \in Within(n) : Step(m, u) \in Memories
    <2> SUFFICES ASSUME NEW m \in Memories, NEW u \in Within(n) PROVE Step(m, u) \in Memories
      OBVIOUS
    <2>1. u.at \in Nat /\ u.width \in Nat /\ u.at + u.width <= n
      BY DEF Within
    <2>2. /\ dest + u.at \in Nat /\ src + u.at \in Nat
          /\ src + u.at + u.width <= MEMORY /\ dest + u.at + u.width <= MEMORY
      <3>1. \A x, w \in Nat : x + w <= n =>
                /\ dest + x \in Nat /\ src + x \in Nat
                /\ src + x + w <= MEMORY /\ dest + x + w <= MEMORY
        OBVIOUS
      <3> QED
        BY ONLY <2>1, <3>1
    <2> HIDE DEF Memories
    <2> QED
      BY <2>1, <2>2, MoveStays
  <1> HIDE DEF Step
  <1>3. step \in [Memories \X Within(n) -> Memories]
    BY <1>2
  <1>4. \A m \in Memories, u \in Within(n) : step[<<m, u>>] = Step(m, u)
    OBVIOUS
  <1> HIDE DEF step
  <1>5. PICK g : Folds(g, Len(us), Memories, step, us, mem)
    BY <1>1, <1>3, FoldExists
  <1>6. Solves(g)
    <2>1. \A s \in SUBSET (1 .. Len(us)) : s # {} =>
              /\ Max(s) \in 1 .. Len(us) /\ s \ {Max(s)} \in SUBSET (1 .. Len(us))
      BY <1>1, MaxIs
    <2>2. \A s \in SUBSET (1 .. Len(us)) : s # {} =>
              /\ g[s \ {Max(s)}] \in Memories /\ us[Max(s)] \in Within(n)
              /\ g[s] = step[<<g[s \ {Max(s)}], us[Max(s)]>>]
      BY <1>1, <1>5, <2>1 DEF Folds
    <2>3. \A s \in SUBSET (1 .. Len(us)) : s # {} =>
              g[s] = Step(g[s \ {Max(s)}], us[Max(s)])
      BY <1>4, <2>2
    <2> QED
      BY <1>1, <1>5, <2>3 DEF Folds
  <1>7. Solves(c)
    <2> HIDE DEF Solves
    <2> QED
      BY <1>6
  <1>8. memcpy(mem, dest, src, n) = c[DOMAIN us]
    BY DEF memcpy, FoldLeft, MapThenFoldSet, Step
  <1> HIDE DEF c
  <1>9. f[0] = mem /\ \A k \in 1 .. Len(us) : f[k] = Step(f[k - 1], us[k])
    <2>1. \A s \in SUBSET (1 .. Len(us)) :
              c[s] = IF s = {} THEN mem ELSE Step(c[s \ {Max(s)}], us[Max(s)])
      BY <1>1, <1>7
    <2>2. f[0] = mem
      <3>1. 0 \in 0 .. Len(us) /\ 1 .. 0 = {}
        BY <1>1
      <3>2. c[{}] = mem
        BY <2>1
      <3> QED
        BY <3>1, <3>2
    <2>3. ASSUME NEW k \in 1 .. Len(us)
          PROVE  f[k] = Step(f[k - 1], us[k])
      <3>1. /\ k - 1 \in 0 .. Len(us) /\ k \in 0 .. Len(us)
            /\ 1 .. k \in SUBSET (1 .. Len(us)) /\ 1 .. k # {}
            /\ Max(1 .. k) = k /\ (1 .. k) \ {k} = 1 .. k - 1
        BY <1>1, FirstPositions
      <3>2. c[1 .. k] = Step(c[1 .. k - 1], us[k])
        BY <2>1, <3>1
      <3>3. \A i \in 0 .. Len(us) : f[i] = c[1 .. i]
        OBVIOUS
      <3> HIDE DEF f
      <3> QED
        BY <3>1, <3>2, <3>3
    <2> QED
      BY <2>2, <2>3
  <1>10. memcpy(mem, dest, src, n) = f[Len(us)]
    <2>1. f[Len(us)] = c[1 .. Len(us)]
      BY <1>1
    <2> QED
      BY <1>1, <1>8, <2>1
  <1> HIDE DEF f
  <1> QED
    BY <1>9, <1>10 DEF Step, CopyRun

FillRun(f, mem, s0, c0, n, us) ==
    /\ f[0] = mem
    /\ \A k \in 1 .. Len(us) :
          f[k] = [a \in DOMAIN f[k - 1] |->
                     IF a - s0 \in us[k].at .. us[k].at + us[k].width - 1 THEN c0
                     ELSE f[k - 1][a]]
    /\ memset(mem, s0, c0, n) = f[Len(us)]

\* The same of memset.
LEMMA FillRuns ==
    ASSUME NEW mem \in Memories, NEW s0 \in Nat, NEW c0 \in Int, NEW n \in Nat,
           NEW us \in Seq(Within(n)), us = Units(s0, n)
    PROVE  \E f : FillRun(f, mem, s0, c0, n, us)
  <1> DEFINE Step(m, u) == [a \in DOMAIN m |-> IF a - s0 \in u.at .. u.at + u.width - 1 THEN c0 ELSE m[a]]
             step == [mu \in Memories \X Within(n) |-> Step(mu[1], mu[2])]
             Solves(g) == g = [s \in SUBSET (DOMAIN us) |->
                                  IF s = {} THEN mem ELSE Step(g[s \ {Max(s)}], us[Max(s)])]
             c == CHOOSE g : Solves(g)
             f == [k \in 0 .. Len(us) |-> c[1 .. k]]
  <1>1. /\ DOMAIN us = 1 .. Len(us) /\ Len(us) \in Nat
        /\ \A i \in 1 .. Len(us) : us[i] \in Within(n)
    OBVIOUS
  <1>2. \A m \in Memories, u \in Within(n) : Step(m, u) \in Memories
    BY DEF Memories
  <1> HIDE DEF Step
  <1>3. step \in [Memories \X Within(n) -> Memories]
    BY <1>2
  <1>4. \A m \in Memories, u \in Within(n) : step[<<m, u>>] = Step(m, u)
    OBVIOUS
  <1> HIDE DEF step
  <1>5. PICK g : Folds(g, Len(us), Memories, step, us, mem)
    BY <1>1, <1>3, FoldExists
  <1>6. Solves(g)
    <2>1. \A s \in SUBSET (1 .. Len(us)) : s # {} =>
              /\ Max(s) \in 1 .. Len(us) /\ s \ {Max(s)} \in SUBSET (1 .. Len(us))
      BY <1>1, MaxIs
    <2>2. \A s \in SUBSET (1 .. Len(us)) : s # {} =>
              /\ g[s \ {Max(s)}] \in Memories /\ us[Max(s)] \in Within(n)
              /\ g[s] = step[<<g[s \ {Max(s)}], us[Max(s)]>>]
      BY <1>1, <1>5, <2>1 DEF Folds
    <2>3. \A s \in SUBSET (1 .. Len(us)) : s # {} =>
              g[s] = Step(g[s \ {Max(s)}], us[Max(s)])
      BY <1>4, <2>2
    <2> QED
      BY <1>1, <1>5, <2>3 DEF Folds
  <1>7. Solves(c)
    <2> HIDE DEF Solves
    <2> QED
      BY <1>6
  <1>8. memset(mem, s0, c0, n) = c[DOMAIN us]
    BY DEF memset, FoldLeft, MapThenFoldSet, Step
  <1> HIDE DEF c
  <1>9. f[0] = mem /\ \A k \in 1 .. Len(us) : f[k] = Step(f[k - 1], us[k])
    <2>1. \A s \in SUBSET (1 .. Len(us)) :
              c[s] = IF s = {} THEN mem ELSE Step(c[s \ {Max(s)}], us[Max(s)])
      BY <1>1, <1>7
    <2>2. f[0] = mem
      <3>1. 0 \in 0 .. Len(us) /\ 1 .. 0 = {}
        BY <1>1
      <3>2. c[{}] = mem
        BY <2>1
      <3> QED
        BY <3>1, <3>2
    <2>3. ASSUME NEW k \in 1 .. Len(us)
          PROVE  f[k] = Step(f[k - 1], us[k])
      <3>1. /\ k - 1 \in 0 .. Len(us) /\ k \in 0 .. Len(us)
            /\ 1 .. k \in SUBSET (1 .. Len(us)) /\ 1 .. k # {}
            /\ Max(1 .. k) = k /\ (1 .. k) \ {k} = 1 .. k - 1
        BY <1>1, FirstPositions
      <3>2. c[1 .. k] = Step(c[1 .. k - 1], us[k])
        BY <2>1, <3>1
      <3>3. \A i \in 0 .. Len(us) : f[i] = c[1 .. i]
        OBVIOUS
      <3> HIDE DEF f
      <3> QED
        BY <3>1, <3>2, <3>3
    <2> QED
      BY <2>2, <2>3
  <1>10. memset(mem, s0, c0, n) = f[Len(us)]
    <2>1. f[Len(us)] = c[1 .. Len(us)]
      BY <1>1
    <2> QED
      BY <1>1, <1>8, <2>1
  <1> HIDE DEF f
  <1> QED
    BY <1>9, <1>10 DEF Step, FillRun

MoveRun(f, mem, dest, src, n, ats) ==
    /\ f[0] = mem
    /\ \A k \in 1 .. Len(ats) : f[k] = Move(f[k - 1], dest + ats[k], src + ats[k], 1)
    /\ memmove(mem, dest, src, n) = f[Len(ats)]

\* The same of memmove.
LEMMA MoveRuns ==
    ASSUME NEW mem \in Memories, NEW dest \in Nat, NEW src \in Nat, NEW n \in Nat,
           src + n <= MEMORY, dest + n <= MEMORY, MEMORY \in Nat,
           NEW ats \in Seq(0 .. n - 1), LET upwards == [i \in 1 .. n |-> i - 1] IN
           ats = IF src >= dest THEN upwards ELSE Reverse(upwards)
    PROVE  \E f : MoveRun(f, mem, dest, src, n, ats)
  <1> DEFINE Step(m, u) == Move(m, dest + u, src + u, 1)
             step == [mu \in Memories \X (0 .. n - 1) |-> Step(mu[1], mu[2])]
             Solves(g) == g = [s \in SUBSET (DOMAIN ats) |->
                                  IF s = {} THEN mem ELSE Step(g[s \ {Max(s)}], ats[Max(s)])]
             c == CHOOSE g : Solves(g)
             f == [k \in 0 .. Len(ats) |-> c[1 .. k]]
  <1>1. /\ DOMAIN ats = 1 .. Len(ats) /\ Len(ats) \in Nat
        /\ \A i \in 1 .. Len(ats) : ats[i] \in (0 .. n - 1)
    OBVIOUS
  <1>2. \A m \in Memories, u \in (0 .. n - 1) : Step(m, u) \in Memories
    <2> SUFFICES ASSUME NEW m \in Memories, NEW u \in 0 .. n - 1 PROVE Step(m, u) \in Memories
      OBVIOUS
    <2>1. /\ dest + u \in Nat /\ src + u \in Nat
          /\ src + u + 1 <= MEMORY /\ dest + u + 1 <= MEMORY
      OBVIOUS
    <2> HIDE DEF Memories
    <2> QED
      BY <2>1, MoveStays
  <1> HIDE DEF Step
  <1>3. step \in [Memories \X (0 .. n - 1) -> Memories]
    BY <1>2
  <1>4. \A m \in Memories, u \in (0 .. n - 1) : step[<<m, u>>] = Step(m, u)
    OBVIOUS
  <1> HIDE DEF step
  <1>5. PICK g : Folds(g, Len(ats), Memories, step, ats, mem)
    BY <1>1, <1>3, FoldExists
  <1>6. Solves(g)
    <2>1. \A s \in SUBSET (1 .. Len(ats)) : s # {} =>
              /\ Max(s) \in 1 .. Len(ats) /\ s \ {Max(s)} \in SUBSET (1 .. Len(ats))
      BY <1>1, MaxIs
    <2>2. \A s \in SUBSET (1 .. Len(ats)) : s # {} =>
              /\ g[s \ {Max(s)}] \in Memories /\ ats[Max(s)] \in (0 .. n - 1)
              /\ g[s] = step[<<g[s \ {Max(s)}], ats[Max(s)]>>]
      BY <1>1, <1>5, <2>1 DEF Folds
    <2>3. \A s \in SUBSET (1 .. Len(ats)) : s # {} =>
              g[s] = Step(g[s \ {Max(s)}], ats[Max(s)])
      BY <1>4, <2>2
    <2> QED
      BY <1>1, <1>5, <2>3 DEF Folds
  <1>7. Solves(c)
    <2> HIDE DEF Solves
    <2> QED
      BY <1>6
  <1>8. memmove(mem, dest, src, n) = c[DOMAIN ats]
    BY DEF memmove, FoldLeft, MapThenFoldSet, Step
  <1> HIDE DEF c
  <1>9. f[0] = mem /\ \A k \in 1 .. Len(ats) : f[k] = Step(f[k - 1], ats[k])
    <2>1. \A s \in SUBSET (1 .. Len(ats)) :
              c[s] = IF s = {} THEN mem ELSE Step(c[s \ {Max(s)}], ats[Max(s)])
      BY <1>1, <1>7
    <2>2. f[0] = mem
      <3>1. 0 \in 0 .. Len(ats) /\ 1 .. 0 = {}
        BY <1>1
      <3>2. c[{}] = mem
        BY <2>1
      <3> QED
        BY <3>1, <3>2
    <2>3. ASSUME NEW k \in 1 .. Len(ats)
          PROVE  f[k] = Step(f[k - 1], ats[k])
      <3>1. /\ k - 1 \in 0 .. Len(ats) /\ k \in 0 .. Len(ats)
            /\ 1 .. k \in SUBSET (1 .. Len(ats)) /\ 1 .. k # {}
            /\ Max(1 .. k) = k /\ (1 .. k) \ {k} = 1 .. k - 1
        BY <1>1, FirstPositions
      <3>2. c[1 .. k] = Step(c[1 .. k - 1], ats[k])
        BY <2>1, <3>1
      <3>3. \A i \in 0 .. Len(ats) : f[i] = c[1 .. i]
        OBVIOUS
      <3> HIDE DEF f
      <3> QED
        BY <3>1, <3>2, <3>3
    <2> QED
      BY <2>2, <2>3
  <1>10. memmove(mem, dest, src, n) = f[Len(ats)]
    <2>1. f[Len(ats)] = c[1 .. Len(ats)]
      BY <1>1
    <2> QED
      BY <1>1, <1>8, <2>1
  <1> HIDE DEF f
  <1> QED
    BY <1>9, <1>10 DEF Step, MoveRun

\* The end of the first k steps.
EndOf(us, k) == IF k = 0 THEN 0 ELSE us[k].at + us[k].width

\* Three sequences after each other.
LEMMA ThreeParts ==
    ASSUME NEW V, NEW A \in Seq(V), NEW B \in Seq(V), NEW C \in Seq(V)
    PROVE  LET h == Len(A)  w == Len(B)  l == Len(C) IN
           /\ A \o B \o C \in Seq(V) /\ Len(A \o B \o C) = h + w + l
           /\ \A i \in 1 .. h + w + l :
                 (A \o B \o C)[i] = IF i <= h THEN A[i]
                                    ELSE IF i <= h + w THEN B[i - h] ELSE C[i - h - w]
  <1> DEFINE D == A \o B
             h == Len(A)
             w == Len(B)
             l == Len(C)
  <1>0. h \in Nat /\ w \in Nat /\ l \in Nat
    OBVIOUS
  <1>1. /\ D \in Seq(V) /\ Len(D) = h + w
        /\ \A i \in 1 .. h + w : D[i] = IF i <= h THEN A[i] ELSE B[i - h]
    BY ConcatProperties
  <1> HIDE DEF D
  <1>2. /\ D \o C \in Seq(V) /\ Len(D \o C) = h + w + l
        /\ \A i \in 1 .. h + w + l :
              (D \o C)[i] = IF i <= h + w THEN D[i] ELSE C[i - (h + w)]
    <2>1. /\ D \o C \in Seq(V) /\ Len(D \o C) = Len(D) + Len(C)
          /\ \A i \in 1 .. Len(D) + Len(C) :
                (D \o C)[i] = IF i <= Len(D) THEN D[i] ELSE C[i - Len(D)]
      <3>1. D \in Seq(V) /\ C \in Seq(V)
        BY <1>1
      <3> QED
        BY ONLY <3>1, ConcatProperties
    <2>2. l = Len(C)
      OBVIOUS
    <2> HIDE DEF h, w, l
    <2> QED
      BY <1>1, <2>1, <2>2
  <1> HIDE DEF h, w, l
  <1>3. ASSUME NEW i \in 1 .. h + w + l
        PROVE  (D \o C)[i] = IF i <= h THEN A[i]
                             ELSE IF i <= h + w THEN B[i - h] ELSE C[i - h - w]
    <2>1. CASE i <= h + w
      <3>1. i \in 1 .. h + w
        BY <1>0, <2>1
      <3> QED
        BY <1>1, <1>2, <2>1, <3>1
    <2>2. CASE i > h + w
      <3>1. ~(i <= h + w) /\ ~(i <= h) /\ i - (h + w) = i - h - w
        BY <1>0, <2>2
      <3> QED
        BY <1>2, <3>1
    <2>3. i \in Nat /\ h + w \in Nat
      BY <1>0
    <2>4. i <= h + w \/ i > h + w
      BY <2>3
    <2> QED
      BY <2>1, <2>2, <2>4
  <1> QED
    BY <1>2, <1>3 DEF D, h, w, l

\* The steps of a copy follow each other from the first byte to the last.
LEMMA UnitsTile ==
    ASSUME NEW dest \in Nat, NEW n \in Nat
    PROVE  LET us == Units(dest, n) IN
           /\ us \in Seq(Within(n))
           /\ \A k \in 1 .. Len(us) : us[k].at = EndOf(us, k - 1)
           /\ EndOf(us, Len(us)) = n
  <1> DEFINE h == Aligning(dest, n)
             w == (n - h) \div 4
             l == Leftover(dest, n)
             A == [i \in 1 .. h |-> [at |-> i - 1, width |-> 1]]
             B == [i \in 1 .. w |-> [at |-> h + 4 * (i - 1), width |-> 4]]
             C == [i \in 1 .. l |-> [at |-> h + 4 * w + i - 1, width |-> 1]]
             us == A \o B \o C
  <1>1. h \in 0 .. n
    BY DEF Aligning, Smaller
  <1>2. w \in Nat /\ l \in Nat /\ n = h + 4 * w + l
    <2>1. \A x \in Nat : x \div 4 \in Nat /\ x % 4 \in Nat /\ x = 4 * (x \div 4) + (x % 4)
      OBVIOUS
    <2>2. n - h \in Nat
      BY <1>1
    <2> HIDE DEF h
    <2> QED
      BY <1>1, <2>1, <2>2 DEF Leftover, h
  <1>3. us = Units(dest, n)
    BY DEF Units
  <1> HIDE DEF h, w, l
  <1>4. /\ A \in [1 .. h -> Within(n)] /\ B \in [1 .. w -> Within(n)]
        /\ C \in [1 .. l -> Within(n)]
    BY <1>1, <1>2 DEF Within
  <1>5. /\ A \in Seq(Within(n)) /\ Len(A) = h /\ B \in Seq(Within(n)) /\ Len(B) = w
        /\ C \in Seq(Within(n)) /\ Len(C) = l
    <2>1. h \in Nat
      BY <1>1
    <2> HIDE DEF A, B, C
    <2> QED
      BY <1>2, <1>4, <2>1, IsASeq, LenProperties
  <1>6. /\ us \in Seq(Within(n)) /\ Len(us) = h + w + l
        /\ \A i \in 1 .. h + w + l :
              us[i] = IF i <= h THEN A[i] ELSE IF i <= h + w THEN B[i - h] ELSE C[i - h - w]
    <2> DEFINE V == Within(n)
    <2> HIDE DEF A, B, C, V
    <2>1. A \in Seq(V) /\ B \in Seq(V) /\ C \in Seq(V)
      BY <1>5 DEF V
    <2>2. /\ A \o B \o C \in Seq(V) /\ Len(A \o B \o C) = Len(A) + Len(B) + Len(C)
          /\ \A i \in 1 .. Len(A) + Len(B) + Len(C) :
                (A \o B \o C)[i] = IF i <= Len(A) THEN A[i]
                                   ELSE IF i <= Len(A) + Len(B) THEN B[i - Len(A)]
                                   ELSE C[i - Len(A) - Len(B)]
      BY ONLY <2>1, ThreeParts
    <2> QED
      BY <1>5, <2>2 DEF V
  <1>7. /\ \A i \in 1 .. h : A[i].at = i - 1 /\ A[i].width = 1
        /\ \A i \in 1 .. w : B[i].at = h + 4 * (i - 1) /\ B[i].width = 4
        /\ \A i \in 1 .. l : C[i].at = h + 4 * w + i - 1 /\ C[i].width = 1
    OBVIOUS
  <1> HIDE DEF us, A, B, C
  <1>8. \A i \in 1 .. h + w + l :
           /\ us[i].at = IF i <= h THEN i - 1
                         ELSE IF i <= h + w THEN h + 4 * (i - h - 1)
                         ELSE h + 4 * w + (i - h - w) - 1
           /\ us[i].width = IF i > h /\ i <= h + w THEN 4 ELSE 1
    <2> TAKE i \in 1 .. h + w + l
    <2>1. CASE i <= h
      BY <1>1, <1>6, <1>7, <2>1
    <2>2. CASE i > h /\ i <= h + w
      <3>1. i - h \in 1 .. w
        BY <1>1, <1>2, <2>2
      <3>2. us[i] = B[i - h]
        BY <1>1, <1>2, <1>6, <2>2
      <3> QED
        BY <1>1, <1>2, <1>7, <2>2, <3>1, <3>2
    <2>3. CASE i > h + w
      <3>1. i - h - w \in 1 .. l
        BY <1>1, <1>2, <2>3
      <3>2. us[i] = C[i - h - w] /\ ~(i <= h) /\ ~(i <= h + w)
        BY <1>1, <1>2, <1>6, <2>3
      <3> QED
        BY <1>1, <1>2, <1>7, <2>3, <3>1, <3>2
    <2> QED
      BY <1>1, <1>2, <2>1, <2>2, <2>3
  <1>9. ASSUME NEW k \in 1 .. Len(us)
        PROVE  us[k].at = EndOf(us, k - 1)
    <2>1. k \in 1 .. h + w + l
      BY <1>6
    <2>2. CASE k = 1
      BY <1>1, <1>2, <1>8, <2>1, <2>2 DEF EndOf
    <2>3. CASE k # 1
      <3>1. k - 1 \in 1 .. h + w + l /\ k - 1 # 0
        BY <1>1, <1>2, <2>1, <2>3
      <3>2. EndOf(us, k - 1) = us[k - 1].at + us[k - 1].width
        BY <3>1 DEF EndOf
      <3>3. /\ us[k].at = IF k <= h THEN k - 1
                          ELSE IF k <= h + w THEN h + 4 * (k - h - 1)
                          ELSE h + 4 * w + (k - h - w) - 1
            /\ us[k - 1].at = IF k - 1 <= h THEN k - 2
                              ELSE IF k - 1 <= h + w THEN h + 4 * (k - h - 2)
                              ELSE h + 4 * w + (k - h - w) - 2
            /\ us[k - 1].width = IF k - 1 > h /\ k - 1 <= h + w THEN 4 ELSE 1
        <4> DEFINE j == k - 1
        <4>1. j \in 1 .. h + w + l
          BY <3>1
        <4>2. /\ us[j].at = IF j <= h THEN j - 1
                            ELSE IF j <= h + w THEN h + 4 * (j - h - 1)
                            ELSE h + 4 * w + (j - h - w) - 1
              /\ us[j].width = IF j > h /\ j <= h + w THEN 4 ELSE 1
          <5> HIDE DEF j
          <5> QED
            BY <1>8, <4>1
        <4>3. /\ j - 1 = k - 2 /\ j - h - 1 = k - h - 2
              /\ h + 4 * w + (j - h - w) - 1 = h + 4 * w + (k - h - w) - 2
          BY <1>1, <1>2
        <4> QED
          BY <1>8, <2>1, <4>2, <4>3
      <3>4. CASE k <= h
        BY <1>1, <1>2, <3>2, <3>3, <3>4
      <3>5. CASE k > h /\ k <= h + w
        BY <1>1, <1>2, <3>2, <3>3, <3>5
      <3>6. CASE k > h + w
        BY <1>1, <1>2, <3>2, <3>3, <3>6
      <3> QED
        BY <1>1, <1>2, <3>4, <3>5, <3>6
    <2> QED
      BY <2>2, <2>3
  <1>10. EndOf(us, Len(us)) = n
    <2>1. CASE h + w + l = 0
      BY <1>1, <1>2, <1>6, <2>1 DEF EndOf
    <2>2. CASE h + w + l # 0
      <3>1. h + w + l \in 1 .. h + w + l
        BY <1>1, <1>2, <2>2
      <3>2. EndOf(us, h + w + l) = us[h + w + l].at + us[h + w + l].width
        BY <2>2 DEF EndOf
      <3> DEFINE e == h + w + l
      <3>3. /\ us[e].at = IF e <= h THEN e - 1
                          ELSE IF e <= h + w THEN h + 4 * (e - h - 1)
                          ELSE h + 4 * w + (e - h - w) - 1
            /\ us[e].width = IF e > h /\ e <= h + w THEN 4 ELSE 1
        <4> HIDE DEF e
        <4> QED
          BY <1>8, <3>1 DEF e
      <3>4. us[e].at + us[e].width = h + 4 * w + l
        <4>1. CASE l # 0
          BY <1>1, <1>2, <3>3, <4>1
        <4>2. CASE l = 0 /\ w # 0
          BY <1>1, <1>2, <3>3, <4>2
        <4>3. CASE l = 0 /\ w = 0
          BY <1>1, <1>2, <2>2, <3>3, <4>3
        <4> QED
          BY <4>1, <4>2, <4>3
      <3> QED
        BY <1>2, <1>6, <3>2, <3>4
    <2> QED
      BY <2>1, <2>2
  <1> QED
    BY <1>3, <1>6, <1>9, <1>10

\* Memory after n bytes were copied, or set, at once.
CopiedTo(mem, dest, src, n) ==
    [a \in DOMAIN mem |-> IF a \in dest .. dest + n - 1 THEN mem[a - dest + src] ELSE mem[a]]

Filled(mem, s, c, n) == [a \in DOMAIN mem |-> IF a \in s .. s + n - 1 THEN c ELSE mem[a]]

\* n bytes of memory that are copied upwards.
Upwards(mem, dest, src, n) ==
    /\ MEMORY \in Nat /\ mem \in Memories /\ dest \in Nat /\ src \in Nat /\ n \in Nat
    /\ dest + n <= MEMORY /\ src + n <= MEMORY
    /\ dest <= src \/ src + n <= dest

Piece(n, e, w) == e \in Nat /\ w \in Nat /\ e + w <= n

Extends(mem, dest, src, e, w) ==
    Move(CopiedTo(mem, dest, src, e), dest + e, src + e, w)
        = CopiedTo(mem, dest, src, e + w)

\* Copying w bytes more behind e bytes copied: the source of those w is not
\* among the e written.
LEMMA CopyMore ==
    ASSUME NEW mem, NEW dest, NEW src, NEW n, Upwards(mem, dest, src, n),
           NEW e, NEW w, Piece(n, e, w)
    PROVE  Extends(mem, dest, src, e, w)
  <1>0. /\ MEMORY \in Nat /\ mem \in Memories /\ dest \in Nat /\ src \in Nat /\ n \in Nat
        /\ dest + n <= MEMORY /\ src + n <= MEMORY
        /\ dest <= src \/ src + n <= dest
        /\ e \in Nat /\ w \in Nat /\ e + w <= n
    BY DEF Upwards, Piece
  <1> DEFINE old == CopiedTo(mem, dest, src, e)
  <1>1. DOMAIN mem = 0 .. MEMORY - 1
    BY <1>0 DEF Memories
  <1>2. DOMAIN old = 0 .. MEMORY - 1
    BY <1>1 DEF CopiedTo
  <1>3. ASSUME NEW a \in 0 .. MEMORY - 1
        PROVE  (IF a \in dest + e .. dest + e + w - 1
                THEN old[src + e + (a - (dest + e))] ELSE old[a])
               = IF a \in dest .. dest + (e + w) - 1 THEN mem[a - dest + src] ELSE mem[a]
    <2>1. CASE a \in dest + e .. dest + e + w - 1
      <3> DEFINE b == src + e + (a - (dest + e))
      <3>1. b = a - dest + src /\ b \in 0 .. MEMORY - 1
        BY <1>0, <2>1
      <3>2. b \notin dest .. dest + e - 1
        BY <1>0, <2>1, <3>1
      <3>3. old[b] = mem[b]
        BY <1>0, <1>1, <3>1, <3>2 DEF CopiedTo
      <3> HIDE DEF old
      <3> QED
        BY <1>0, <2>1, <3>1, <3>3
    <2>2. CASE a \notin dest + e .. dest + e + w - 1
      BY <1>0, <1>1, <2>2 DEF CopiedTo
    <2> QED
      BY <2>1, <2>2
  <1> HIDE DEF old
  <1> QED
    BY <1>1, <1>2, <1>3 DEF Move, CopiedTo, old, Extends

LEMMA CopyNone ==
    ASSUME MEMORY \in Nat, NEW mem \in Memories, NEW dest \in Nat, NEW src \in Nat
    PROVE  CopiedTo(mem, dest, src, 0) = mem
  <1>1. \A a \in DOMAIN mem : a \notin dest .. dest + 0 - 1
    BY DEF Memories
  <1>2. CopiedTo(mem, dest, src, 0) = [a \in DOMAIN mem |-> mem[a]]
    BY <1>1 DEF CopiedTo
  <1> QED
    BY <1>2 DEF Memories

\* memcpy copies, whatever the alignment, where the destination is not between
\* the bytes of the source.
LEMMA MemcpyCopies ==
    ASSUME MEMORY \in Nat, NEW mem \in Memories, NEW dest \in Nat, NEW src \in Nat,
           NEW n \in Nat, src + n <= MEMORY, dest + n <= MEMORY,
           dest <= src \/ src + n <= dest
    PROVE  memcpy(mem, dest, src, n) = CopiedTo(mem, dest, src, n)
  <1>0. Upwards(mem, dest, src, n)
    BY DEF Upwards
  <1> DEFINE us == Units(dest, n)
  <1>1. /\ us \in Seq(Within(n))
        /\ \A k \in 1 .. Len(us) : us[k].at = EndOf(us, k - 1)
        /\ EndOf(us, Len(us)) = n
    BY UnitsTile
  <1>2. PICK f : CopyRun(f, mem, dest, src, n, us)
    <2>1. us = Units(dest, n)
      OBVIOUS
    <2> HIDE DEF us
    <2> QED
      BY <1>1, <2>1, CopyRuns
  <1> HIDE DEF us
  <1> DEFINE Holds(k) == /\ EndOf(us, k) \in 0 .. n
                         /\ f[k] = CopiedTo(mem, dest, src, EndOf(us, k))
             P == {k \in 0 .. Len(us) : Holds(k)}
  <1>3. Len(us) \in Nat /\ \A k \in 1 .. Len(us) : us[k] \in Within(n)
    BY <1>1
  <1>4. Holds(0)
    BY <1>2, CopyNone DEF EndOf, CopyRun
  <1>5. ASSUME NEW k \in 1 .. Len(us), Holds(k - 1)
        PROVE  Holds(k)
    <2> DEFINE e == EndOf(us, k - 1)
               w == us[k].width
    <2>1. /\ us[k].at = e /\ w \in Nat /\ e + w <= n /\ e \in Nat
          /\ EndOf(us, k) = e + w
      <3>1. us[k] \in Within(n) /\ k # 0
        BY <1>3
      <3> QED
        BY <1>1, <3>1 DEF Within, EndOf
    <2>2. f[k - 1] = CopiedTo(mem, dest, src, e)
      BY <1>5
    <2>3. f[k] = Move(CopiedTo(mem, dest, src, e), dest + e, src + e, w)
      BY <1>2, <2>1, <2>2 DEF CopyRun
    <2> HIDE DEF e, w
    <2>5. Move(CopiedTo(mem, dest, src, e), dest + e, src + e, w)
              = CopiedTo(mem, dest, src, e + w)
      <3>1. Piece(n, e, w)
        BY <2>1 DEF Piece
      <3>2. Extends(mem, dest, src, e, w)
        BY ONLY <1>0, <3>1, CopyMore
      <3> QED
        BY <3>2 DEF Extends
    <2> QED
      BY <2>1, <2>3, <2>5
  <1> HIDE DEF Holds
  <1>6. \A k \in 0 .. Len(us) : k \in P
    <2>1. 0 \in P
      BY <1>3, <1>4
    <2>2. ASSUME NEW k \in 1 .. Len(us), k - 1 \in P PROVE k \in P
      <3>1. Holds(k - 1) /\ k \in 0 .. Len(us)
        BY <2>2
      <3> QED
        BY <1>5, <3>1
    <2> HIDE DEF P
    <2> QED
      BY ONLY <1>3, <2>1, <2>2, Climb
  <1>7. Holds(Len(us))
    BY <1>3, <1>6
  <1> QED
    BY <1>1, <1>2, <1>7 DEF Holds, CopyRun

\* memset sets its bytes, whatever the alignment.
LEMMA MemsetSets ==
    ASSUME MEMORY \in Nat, NEW mem \in Memories, NEW s0 \in Nat, NEW c0 \in Int,
           NEW n \in Nat, s0 + n <= MEMORY
    PROVE  memset(mem, s0, c0, n) = Filled(mem, s0, c0, n)
  <1> DEFINE us == Units(s0, n)
  <1>1. /\ us \in Seq(Within(n))
        /\ \A k \in 1 .. Len(us) : us[k].at = EndOf(us, k - 1)
        /\ EndOf(us, Len(us)) = n
    BY UnitsTile
  <1>2. PICK f : FillRun(f, mem, s0, c0, n, us)
    <2>1. us = Units(s0, n)
      OBVIOUS
    <2> HIDE DEF us
    <2> QED
      BY <1>1, <2>1, FillRuns
  <1> HIDE DEF us
  <1> DEFINE Holds(k) == /\ EndOf(us, k) \in 0 .. n
                         /\ f[k] = Filled(mem, s0, c0, EndOf(us, k))
             P == {k \in 0 .. Len(us) : Holds(k)}
  <1>3. Len(us) \in Nat /\ \A k \in 1 .. Len(us) : us[k] \in Within(n)
    BY <1>1
  <1>0. DOMAIN mem = 0 .. MEMORY - 1
    BY DEF Memories
  <1>4. Holds(0)
    <2>1. \A a \in DOMAIN mem : a \notin s0 .. s0 + 0 - 1
      BY <1>0
    <2>2. Filled(mem, s0, c0, 0) = [a \in DOMAIN mem |-> mem[a]]
      BY <2>1 DEF Filled
    <2>3. Filled(mem, s0, c0, 0) = mem
      BY <2>2 DEF Memories
    <2> QED
      BY <1>2, <2>3 DEF EndOf, FillRun
  <1>5. ASSUME NEW k \in 1 .. Len(us), Holds(k - 1)
        PROVE  Holds(k)
    <2> DEFINE e == EndOf(us, k - 1)
               w == us[k].width
    <2>1. /\ us[k].at = e /\ w \in Nat /\ e + w <= n /\ e \in Nat
          /\ EndOf(us, k) = e + w
      <3>1. us[k] \in Within(n) /\ k # 0
        BY <1>3
      <3> QED
        BY <1>1, <3>1 DEF Within, EndOf
    <2> DEFINE old == Filled(mem, s0, c0, e)
    <2>2. f[k - 1] = old
      BY <1>5
    <2>3. f[k] = [a \in DOMAIN old |-> IF a - s0 \in e .. e + w - 1 THEN c0 ELSE old[a]]
      BY <1>2, <2>1, <2>2 DEF FillRun
    <2> HIDE DEF e, w
    <2>4. DOMAIN old = 0 .. MEMORY - 1
      BY <1>0 DEF Filled
    <2>5. \A a \in 0 .. MEMORY - 1 :
             (IF a - s0 \in e .. e + w - 1 THEN c0 ELSE old[a])
                 = IF a \in s0 .. s0 + (e + w) - 1 THEN c0 ELSE mem[a]
      <3> TAKE a \in 0 .. MEMORY - 1
      <3>1. old[a] = IF a \in s0 .. s0 + e - 1 THEN c0 ELSE mem[a]
        BY <1>0 DEF Filled
      <3> HIDE DEF old
      <3>2. (a - s0 \in e .. e + w - 1 \/ a \in s0 .. s0 + e - 1)
                <=> a \in s0 .. s0 + (e + w) - 1
        BY <2>1
      <3> QED
        BY <3>1, <3>2
    <2> HIDE DEF old
    <2>6. f[k] = Filled(mem, s0, c0, e + w)
      BY <1>0, <2>3, <2>4, <2>5 DEF Filled
    <2> QED
      BY <2>1, <2>6
  <1> HIDE DEF Holds
  <1>6. \A k \in 0 .. Len(us) : k \in P
    <2>1. 0 \in P
      BY <1>3, <1>4
    <2>2. ASSUME NEW k \in 1 .. Len(us), k - 1 \in P PROVE k \in P
      <3>1. Holds(k - 1) /\ k \in 0 .. Len(us)
        BY <2>2
      <3> QED
        BY <1>5, <3>1
    <2> HIDE DEF P
    <2> QED
      BY ONLY <1>3, <2>1, <2>2, Climb
  <1>7. Holds(Len(us))
    BY <1>3, <1>6
  <1> QED
    BY <1>1, <1>2, <1>7 DEF Holds, FillRun

-----------------------------------------------------------------------------
\* The positions memmove goes through.
Ats(dest, src, n) ==
    LET upwards == [i \in 1 .. n |-> i - 1] IN
    IF src >= dest THEN upwards ELSE Reverse(upwards)

LEMMA AtsAre ==
    ASSUME NEW dest \in Nat, NEW src \in Nat, NEW n \in Nat
    PROVE  /\ Ats(dest, src, n) \in Seq(0 .. n - 1) /\ Len(Ats(dest, src, n)) = n
           /\ \A k \in 1 .. n : Ats(dest, src, n)[k] = IF src >= dest THEN k - 1 ELSE n - k
  <1> DEFINE up == [i \in 1 .. n |-> i - 1]
             down == [i \in 1 .. n |-> n - i]
  <1>1. up \in Seq(0 .. n - 1) /\ Len(up) = n
    BY IsASeq
  <1>2. down \in Seq(0 .. n - 1) /\ Len(down) = n
    BY IsASeq
  <1>3. Reverse(up) = down
    <2>1. \A i \in 1 .. n : n - i + 1 \in 1 .. n /\ up[n - i + 1] = n - i
      OBVIOUS
    <2> HIDE DEF up
    <2> QED
      BY <1>1, <2>1 DEF Reverse
  <1> QED
    BY <1>1, <1>2, <1>3 DEF Ats

\* Memory after the last n - e bytes of n were copied.
CopiedBehind(mem, dest, src, n, e) ==
    [a \in DOMAIN mem |-> IF a \in dest + e .. dest + n - 1 THEN mem[a - dest + src]
                          ELSE mem[a]]

\* Copying the byte before them, where none of them is behind its source.
LEMMA CopyBefore ==
    ASSUME MEMORY \in Nat, NEW mem \in Memories, NEW dest \in Nat, NEW src \in Nat,
           NEW n \in Nat, dest + n <= MEMORY, src + n <= MEMORY, src < dest,
           NEW e \in 0 .. n - 1
    PROVE  Move(CopiedBehind(mem, dest, src, n, e + 1), dest + e, src + e, 1)
               = CopiedBehind(mem, dest, src, n, e)
  <1> DEFINE old == CopiedBehind(mem, dest, src, n, e + 1)
  <1>1. DOMAIN mem = 0 .. MEMORY - 1
    BY DEF Memories
  <1>2. DOMAIN old = 0 .. MEMORY - 1
    BY <1>1 DEF CopiedBehind
  <1>3. ASSUME NEW a \in 0 .. MEMORY - 1
        PROVE  (IF a \in dest + e .. dest + e + 1 - 1
                THEN old[src + e + (a - (dest + e))] ELSE old[a])
               = IF a \in dest + e .. dest + n - 1 THEN mem[a - dest + src] ELSE mem[a]
    <2>1. CASE a = dest + e
      <3>1. src + e + (a - (dest + e)) = src + e /\ a - dest + src = src + e
        BY <2>1
      <3>2. src + e \in 0 .. MEMORY - 1 /\ src + e \notin dest + (e + 1) .. dest + n - 1
        OBVIOUS
      <3>3. old[src + e] = mem[src + e]
        BY <1>1, <3>2 DEF CopiedBehind
      <3>4. a \in dest + e .. dest + e + 1 - 1 /\ a \in dest + e .. dest + n - 1
        BY <2>1
      <3> HIDE DEF old
      <3> QED
        BY <3>1, <3>3, <3>4
    <2>2. CASE a # dest + e
      BY <1>1, <2>2 DEF CopiedBehind
    <2> QED
      BY <2>1, <2>2
  <1> HIDE DEF old
  <1> QED
    BY <1>1, <1>2, <1>3 DEF Move, CopiedBehind, old

\* memmove copies wherever the regions lie.
LEMMA MemmoveCopies ==
    ASSUME MEMORY \in Nat, NEW mem \in Memories, NEW dest \in Nat, NEW src \in Nat,
           NEW n \in Nat, src + n <= MEMORY, dest + n <= MEMORY
    PROVE  memmove(mem, dest, src, n) = CopiedTo(mem, dest, src, n)
  <1> DEFINE ats == Ats(dest, src, n)
  <1>1. /\ ats \in Seq(0 .. n - 1) /\ Len(ats) = n
        /\ \A k \in 1 .. n : ats[k] = IF src >= dest THEN k - 1 ELSE n - k
    BY AtsAre
  <1>2. PICK f : MoveRun(f, mem, dest, src, n, ats)
    <2>1. LET upwards == [i \in 1 .. n |-> i - 1] IN
          ats = IF src >= dest THEN upwards ELSE Reverse(upwards)
      BY DEF Ats
    <2> HIDE DEF ats
    <2> QED
      BY <1>1, <2>1, MoveRuns
  <1> HIDE DEF ats
  <1>3. /\ f[0] = mem /\ memmove(mem, dest, src, n) = f[n]
        /\ \A k \in 1 .. n : f[k] = Move(f[k - 1], dest + ats[k], src + ats[k], 1)
    BY <1>1, <1>2 DEF MoveRun
  <1>4. CASE src >= dest
    <2> DEFINE P == {k \in 0 .. n : f[k] = CopiedTo(mem, dest, src, k)}
    <2>1. 0 \in P
      BY <1>3, CopyNone
    <2>2. ASSUME NEW k \in 1 .. n, k - 1 \in P PROVE k \in P
      <3>1. Upwards(mem, dest, src, n)
        BY <1>4 DEF Upwards
      <3>2. f[k] = Move(CopiedTo(mem, dest, src, k - 1), dest + (k - 1), src + (k - 1), 1)
        BY <1>1, <1>3, <1>4, <2>2
      <3>3. k - 1 \in Nat /\ 1 \in Nat /\ k - 1 + 1 <= n /\ k - 1 + 1 = k
        OBVIOUS
      <3>4. Move(CopiedTo(mem, dest, src, k - 1), dest + (k - 1), src + (k - 1), 1)
                = CopiedTo(mem, dest, src, k - 1 + 1)
        <4>1. Piece(n, k - 1, 1)
          BY <3>3 DEF Piece
        <4> DEFINE e == k - 1
        <4>2. Piece(n, e, 1)
          BY <4>1
        <4> HIDE DEF e
        <4>3. Extends(mem, dest, src, e, 1)
          BY ONLY <3>1, <4>2, CopyMore
        <4>4. Extends(mem, dest, src, k - 1, 1)
          BY <4>3 DEF e
        <4> QED
          BY <4>4 DEF Extends
      <3>5. f[k] = CopiedTo(mem, dest, src, k)
        BY <3>2, <3>3, <3>4
      <3> QED
        BY <3>5
    <2>3. \A k \in 0 .. n : k \in P
      <3> HIDE DEF P
      <3> QED
        BY <2>1, <2>2, Climb
    <2> QED
      BY <1>3, <2>3
  <1>5. CASE src < dest
    <2> DEFINE Holds(k) == f[k] = CopiedBehind(mem, dest, src, n, n - k)
               P == {k \in 0 .. n : Holds(k)}
    <2>0. DOMAIN mem = 0 .. MEMORY - 1
      BY DEF Memories
    <2>1. 0 \in P
      <3>1. \A a \in DOMAIN mem : a \notin dest + (n - 0) .. dest + n - 1
        BY <2>0
      <3>2. CopiedBehind(mem, dest, src, n, n - 0) = [a \in DOMAIN mem |-> mem[a]]
        BY <3>1 DEF CopiedBehind
      <3>3. CopiedBehind(mem, dest, src, n, n - 0) = mem
        BY <3>2 DEF Memories
      <3> QED
        BY <1>3, <3>3
    <2>2. ASSUME NEW k \in 1 .. n, k - 1 \in P PROVE k \in P
      <3> DEFINE e == n - k
      <3>1. e \in 0 .. n - 1 /\ n - (k - 1) = e + 1
        OBVIOUS
      <3>2. f[k - 1] = CopiedBehind(mem, dest, src, n, e + 1)
        BY <2>2, <3>1
      <3>3. f[k] = Move(CopiedBehind(mem, dest, src, n, e + 1), dest + e, src + e, 1)
        BY <1>1, <1>3, <1>5, <3>2
      <3>4. Move(CopiedBehind(mem, dest, src, n, e + 1), dest + e, src + e, 1)
                = CopiedBehind(mem, dest, src, n, e)
        <4> HIDE DEF e
        <4> QED
          BY <1>5, <3>1, CopyBefore
      <3>5. Holds(k)
        BY <3>3, <3>4
      <3> QED
        BY <3>5
    <2>3. \A k \in 0 .. n : k \in P
      <3> HIDE DEF P
      <3> QED
        BY <2>1, <2>2, Climb
    <2>4. f[n] = CopiedBehind(mem, dest, src, n, 0)
      <3>1. Holds(n) /\ n - n = 0
        BY <2>3
      <3> QED
        BY <3>1
    <2>5. CopiedBehind(mem, dest, src, n, 0) = CopiedTo(mem, dest, src, n)
      BY DEF CopiedBehind, CopiedTo
    <2> QED
      BY <1>3, <2>4, <2>5
  <1> QED
    BY <1>4, <1>5

-----------------------------------------------------------------------------
(***************************************************************************)
(* A call stays what it was made until it returns.                         *)
(***************************************************************************)
CallTypes == call \in KernelCalls \cup {NoCall}

LEMMA BoundedIsSeq ==
    ASSUME NEW S, NEW n \in Nat, NEW s \in BoundedSeq(S, n)
    PROVE  s \in Seq(S) /\ Len(s) <= n
  <1>1. PICK m \in 0 .. n : s \in [1 .. m -> S]
    BY DEF BoundedSeq, SeqOf
  <1>2. s \in Seq(S)
    BY <1>1, SeqDef
  <1>3. Len(s) = m
    BY <1>1, <1>2, LenProperties
  <1> QED
    BY <1>1, <1>2, <1>3

LEMMA CallsStay == CallsSpec => []CallTypes
  <1>1. CallsInit => CallTypes
    BY DEF CallsInit, CallTypes
  <1>2. CallTypes /\ [CallReturns]_call => CallTypes'
    BY DEF CallTypes, CallReturns
  <1> QED
    BY <1>1, <1>2, PTL DEF CallsSpec

\* Copies and settings of memory have the effect of reading every byte before
\* writing any, for memories of any size, any number of bytes and any
\* alignment: the steps tile the region, and no step of memcpy reads what an
\* earlier one wrote (lib.c:311-464).
THEOREM MemoryAlwaysCopied == CallsSpec => []MemoryCopied
  <1>1. CallTypes => MemoryCopied
    <2> SUFFICES ASSUME CallTypes, call.of = "copy" PROVE MemoryCopied
      BY DEF MemoryCopied
    <2>1. call \in Copies
      BY DEF CallTypes, KernelCalls, NoCall, Prints, CommandLines, Codes
    <2> DEFINE mem == [a \in 0 .. MEMORY - 1 |-> a]
               dest == call.dest
               src == call.src
               n == call.n
    <2>2. /\ dest \in Nat /\ src \in Nat /\ n \in Nat
          /\ dest + n <= MEMORY /\ src + n <= MEMORY /\ MEMORY \in Nat
      BY <2>1, CallsAssumption DEF Copies
    <2>3. mem \in Memories /\ DOMAIN mem = 0 .. MEMORY - 1 /\ -1 \in Int
      BY DEF Memories
    <2>4. /\ memmove(mem, dest, src, n) = CopiedTo(mem, dest, src, n)
          /\ dest <= src \/ src + n <= dest =>
                 memcpy(mem, dest, src, n) = CopiedTo(mem, dest, src, n)
          /\ memset(mem, dest, -1, n) = Filled(mem, dest, -1, n)
      <3> HIDE DEF mem, dest, src, n
      <3> QED
        BY <2>2, <2>3, MemmoveCopies, MemcpyCopies, MemsetSets
    <2>5. CopiedTo(mem, dest, src, n) =
              [a \in DOMAIN mem |-> IF a \in dest .. dest + n - 1 THEN a - dest + src ELSE a]
      <3>1. \A a \in 0 .. MEMORY - 1 : a \in dest .. dest + n - 1 =>
                /\ a - dest + src \in 0 .. MEMORY - 1
                /\ mem[a - dest + src] = a - dest + src
        BY <2>2
      <3> QED
        BY <2>3, <3>1 DEF CopiedTo
    <2>6. Filled(mem, dest, -1, n) =
              [a \in DOMAIN mem |-> IF a \in dest .. dest + n - 1 THEN -1 ELSE a]
      BY DEF Filled
    <2> QED
      BY <2>4, <2>5, <2>6 DEF MemoryCopied
  <1> QED
    BY <1>1, CallsStay, PTL

-----------------------------------------------------------------------------
(***************************************************************************)
(* Modifier keys.                                                          *)
(***************************************************************************)
Mods == [shift : {0, 1}, ctrl : {0, 1}, alt : {0, 1}, capslock : {0, 1}]


KeyRun(f, codes) ==
    /\ f[0] = Init0
    /\ \A k \in 1 .. Len(codes) : f[k] = handle_special(f[k - 1], codes[k])
    /\ Modifiers(codes) = f[Len(codes)]

\* The modifiers after each code.
LEMMA KeyRuns ==
    ASSUME NEW codes \in Seq(ModifierCodes)
    PROVE  \E f : KeyRun(f, codes)
  <1> DEFINE Step(m, u) == handle_special(m, u)
             step == [mu \in Mods \X ModifierCodes |-> Step(mu[1], mu[2])]
             Solves(g) == g = [s \in SUBSET (DOMAIN codes) |->
                                  IF s = {} THEN Init0 ELSE Step(g[s \ {Max(s)}], codes[Max(s)])]
             c == CHOOSE g : Solves(g)
             f == [k \in 0 .. Len(codes) |-> c[1 .. k]]
  <1>1. /\ DOMAIN codes = 1 .. Len(codes) /\ Len(codes) \in Nat
        /\ \A i \in 1 .. Len(codes) : codes[i] \in ModifierCodes
    OBVIOUS
  <1>2. \A m \in Mods, u \in ModifierCodes : Step(m, u) \in Mods
    BY DEF Mods, handle_special, CapsToggled
  <1> HIDE DEF Step
  <1>3. step \in [Mods \X ModifierCodes -> Mods]
    BY <1>2
  <1>4. \A m \in Mods, u \in ModifierCodes : step[<<m, u>>] = Step(m, u)
    OBVIOUS
  <1> HIDE DEF step
  <1>5. PICK g : Folds(g, Len(codes), Mods, step, codes, Init0)
    <2>1. Init0 \in Mods
      BY DEF Init0, Mods
    <2> QED
      BY <1>1, <1>3, <2>1, FoldExists
  <1>6. Solves(g)
    <2>1. \A s \in SUBSET (1 .. Len(codes)) : s # {} =>
              /\ Max(s) \in 1 .. Len(codes) /\ s \ {Max(s)} \in SUBSET (1 .. Len(codes))
      BY <1>1, MaxIs
    <2>2. \A s \in SUBSET (1 .. Len(codes)) : s # {} =>
              /\ g[s \ {Max(s)}] \in Mods /\ codes[Max(s)] \in ModifierCodes
              /\ g[s] = step[<<g[s \ {Max(s)}], codes[Max(s)]>>]
      BY <1>1, <1>5, <2>1 DEF Folds
    <2>3. \A s \in SUBSET (1 .. Len(codes)) : s # {} =>
              g[s] = Step(g[s \ {Max(s)}], codes[Max(s)])
      BY <1>4, <2>2
    <2> QED
      BY <1>1, <1>5, <2>3 DEF Folds
  <1>7. Solves(c)
    <2> HIDE DEF Solves
    <2> QED
      BY <1>6
  <1>8. Modifiers(codes) = c[DOMAIN codes]
    BY DEF Modifiers, FoldLeft, MapThenFoldSet, Step
  <1> HIDE DEF c
  <1>9. f[0] = Init0 /\ \A k \in 1 .. Len(codes) : f[k] = Step(f[k - 1], codes[k])
    <2>1. \A s \in SUBSET (1 .. Len(codes)) :
              c[s] = IF s = {} THEN Init0 ELSE Step(c[s \ {Max(s)}], codes[Max(s)])
      BY <1>1, <1>7
    <2>2. f[0] = Init0
      <3>1. 0 \in 0 .. Len(codes) /\ 1 .. 0 = {}
        BY <1>1
      <3>2. c[{}] = Init0
        BY <2>1
      <3> QED
        BY <3>1, <3>2
    <2>3. ASSUME NEW k \in 1 .. Len(codes)
          PROVE  f[k] = Step(f[k - 1], codes[k])
      <3>1. /\ k - 1 \in 0 .. Len(codes) /\ k \in 0 .. Len(codes)
            /\ 1 .. k \in SUBSET (1 .. Len(codes)) /\ 1 .. k # {}
            /\ Max(1 .. k) = k /\ (1 .. k) \ {k} = 1 .. k - 1
        BY <1>1, FirstPositions
      <3>2. c[1 .. k] = Step(c[1 .. k - 1], codes[k])
        BY <2>1, <3>1
      <3>3. \A i \in 0 .. Len(codes) : f[i] = c[1 .. i]
        OBVIOUS
      <3> HIDE DEF f
      <3> QED
        BY <3>1, <3>2, <3>3
    <2> QED
      BY <2>2, <2>3
  <1>10. Modifiers(codes) = f[Len(codes)]
    <2>1. f[Len(codes)] = c[1 .. Len(codes)]
      BY <1>1
    <2> QED
      BY <1>1, <1>8, <2>1
  <1> HIDE DEF f
  <1> QED
    BY <1>9, <1>10 DEF Step, KeyRun

\* A key is down after the first n codes.
DownAt(codes, n, k) ==
    \E i \in 1 .. n : codes[i] = k /\ \A j \in i + 1 .. n : codes[j] # Released(k)

LEMMA DownAfter ==
    ASSUME NEW S, NEW codes \in Seq(S), NEW n \in 0 .. Len(codes), NEW k
    PROVE  Down(SubSeq(codes, 1, n), k) <=> DownAt(codes, n, k)
  <1> DEFINE s == SubSeq(codes, 1, n)
  <1>1. n \in Nat /\ Len(s) = n /\ DOMAIN s = 1 .. n /\ \A i \in 1 .. n : s[i] = codes[i]
    OBVIOUS
  <1> HIDE DEF s
  <1>2. \A i \in 1 .. n : \A j \in i + 1 .. n : j \in 1 .. n
    BY <1>1
  <1>3. Down(s, k) <=> DownAt(codes, n, k)
    BY <1>1, <1>2 DEF Down, DownAt
  <1> QED
    BY <1>3 DEF s

LEMMA DownNext ==
    ASSUME NEW codes, NEW n \in Nat \ {0}, NEW k \in Nat
    PROVE  DownAt(codes, n, k) <=>
               codes[n] = k \/ (DownAt(codes, n - 1, k) /\ codes[n] # Released(k))
  <1>1. codes[n] = k => DownAt(codes, n, k)
    <2>1. n \in 1 .. n /\ \A j \in n + 1 .. n : FALSE
      OBVIOUS
    <2> QED
      BY <2>1 DEF DownAt
  <1>2. DownAt(codes, n - 1, k) /\ codes[n] # Released(k) => DownAt(codes, n, k)
    <2>1. \A i \in 1 .. n - 1 : /\ i \in 1 .. n
                                /\ \A j \in i + 1 .. n : j = n \/ j \in i + 1 .. n - 1
      OBVIOUS
    <2> QED
      BY <2>1 DEF DownAt
  <1>3. ASSUME DownAt(codes, n, k), codes[n] # k
        PROVE  DownAt(codes, n - 1, k) /\ codes[n] # Released(k)
    <2>1. PICK i \in 1 .. n : codes[i] = k /\ \A j \in i + 1 .. n : codes[j] # Released(k)
      BY <1>3 DEF DownAt
    <2>2. i \in 1 .. n - 1 /\ n \in i + 1 .. n /\ \A j \in i + 1 .. n - 1 : j \in i + 1 .. n
      BY <1>3, <2>1
    <2> QED
      BY <2>1, <2>2 DEF DownAt
  <1> QED
    BY <1>1, <1>2, <1>3

\* What the modifiers say after n codes.
Told(m, codes, n) ==
    /\ m \in Mods /\ m.alt = 0
    /\ m.ctrl = 1 <=> DownAt(codes, n, L_CTRL)
    /\ m.shift = 1 <=> DownAt(codes, n, L_SHIFT) \/ DownAt(codes, n, R_SHIFT)
    /\ m.capslock = Cardinality({i \in 1 .. n : codes[i] = CAPSLOCK}) % 2

LEMMA CapsCounted ==
    ASSUME NEW codes, NEW n \in Nat \ {0}
    PROVE  LET presses(k) == {i \in 1 .. k : codes[i] = CAPSLOCK} IN
           /\ Cardinality(presses(n - 1)) \in Nat
           /\ Cardinality(presses(n)) = Cardinality(presses(n - 1))
                                        + (IF codes[n] = CAPSLOCK THEN 1 ELSE 0)
  <1> DEFINE presses(k) == {i \in 1 .. k : codes[i] = CAPSLOCK}
  <1>1. IsFiniteSet(presses(n - 1))
    <2>1. IsFiniteSet(1 .. n - 1)
      BY FS_Interval
    <2>2. presses(n - 1) \subseteq 1 .. n - 1
      OBVIOUS
    <2> HIDE DEF presses
    <2> QED
      BY <2>1, <2>2, FS_Subset
  <1>2. Cardinality(presses(n - 1)) \in Nat
    BY <1>1, FS_CardinalityType
  <1>3. codes[n] = CAPSLOCK => Cardinality(presses(n)) = Cardinality(presses(n - 1)) + 1
    <2> SUFFICES ASSUME codes[n] = CAPSLOCK
                 PROVE  Cardinality(presses(n)) = Cardinality(presses(n - 1)) + 1
      OBVIOUS
    <2>1. presses(n) = presses(n - 1) \cup {n} /\ n \notin presses(n - 1)
      OBVIOUS
    <2> HIDE DEF presses
    <2> QED
      BY <1>1, <1>2, <2>1, FS_AddElement
  <1>4. codes[n] # CAPSLOCK => presses(n) = presses(n - 1)
    OBVIOUS
  <1> HIDE DEF presses
  <1>5. Cardinality(presses(n)) = Cardinality(presses(n - 1))
                                  + (IF codes[n] = CAPSLOCK THEN 1 ELSE 0)
    BY <1>2, <1>3, <1>4
  <1> QED
    BY <1>2, <1>5 DEF presses

\* A code keeps them right; the two shift keys are told apart because they are
\* never down together.
LEMMA ToldNext ==
    ASSUME NEW codes, NEW n \in Nat \ {0}, NEW m, Told(m, codes, n - 1),
           codes[n] \in ModifierCodes,
           codes[n] >= RELEASE_CHECK => DownAt(codes, n - 1, codes[n] - RELEASE_CHECK),
           ~(DownAt(codes, n - 1, L_SHIFT) /\ DownAt(codes, n - 1, R_SHIFT))
    PROVE  Told(handle_special(m, codes[n]), codes, n)
  <1> DEFINE c == codes[n]
             h == handle_special(m, c)
             presses(k) == {i \in 1 .. k : codes[i] = CAPSLOCK}
  <1>1. \A k \in {L_SHIFT, R_SHIFT, L_CTRL} :
            DownAt(codes, n, k) <=>
                c = k \/ (DownAt(codes, n - 1, k) /\ c # Released(k))
    BY DownNext DEF L_SHIFT, R_SHIFT, L_CTRL
  <1>2. /\ Cardinality(presses(n - 1)) \in Nat
        /\ Cardinality(presses(n)) = Cardinality(presses(n - 1))
                                     + (IF c = CAPSLOCK THEN 1 ELSE 0)
    BY CapsCounted
  <1>3. /\ m \in Mods /\ m.alt = 0
        /\ m.ctrl = 1 <=> DownAt(codes, n - 1, L_CTRL)
        /\ m.shift = 1 <=> DownAt(codes, n - 1, L_SHIFT) \/ DownAt(codes, n - 1, R_SHIFT)
        /\ m.capslock = Cardinality(presses(n - 1)) % 2
    BY DEF Told
  <1> DEFINE L == DownAt(codes, n - 1, L_SHIFT)
             R == DownAt(codes, n - 1, R_SHIFT)
             C == DownAt(codes, n - 1, L_CTRL)
  <1>4. /\ c = Released(L_SHIFT) => L /\ ~R
        /\ c = Released(R_SHIFT) => R /\ ~L
    BY DEF Released, L_SHIFT, R_SHIFT, RELEASE_CHECK
  <1>5. h \in Mods
    BY <1>3 DEF Mods, handle_special, CapsToggled
  <1>6. h.alt = 0
    BY <1>3 DEF Mods, handle_special, CapsToggled, ModifierCodes, Released,
                L_SHIFT, R_SHIFT, L_CTRL, L_ALT, CAPSLOCK, RELEASE_CHECK
  <1>7. h.ctrl = 1 <=> DownAt(codes, n, L_CTRL)
    <2>1. h.ctrl = IF c = L_CTRL THEN 1 ELSE IF c = Released(L_CTRL) THEN 0 ELSE m.ctrl
      BY <1>3 DEF Mods, handle_special, CapsToggled, ModifierCodes, Released,
                  L_SHIFT, R_SHIFT, L_CTRL, L_ALT, CAPSLOCK, RELEASE_CHECK
    <2>2. L_CTRL # Released(L_CTRL)
      BY DEF L_CTRL, Released, RELEASE_CHECK
    <2> HIDE DEF h, c
    <2> QED
      BY <1>1, <1>3, <2>1, <2>2
  <1>8. h.shift = 1 <=> DownAt(codes, n, L_SHIFT) \/ DownAt(codes, n, R_SHIFT)
    <2>1. h.shift = IF c \in {L_SHIFT, R_SHIFT} THEN 1
                    ELSE IF c \in {Released(L_SHIFT), Released(R_SHIFT)} THEN 0 ELSE m.shift
      BY <1>3 DEF Mods, handle_special, CapsToggled, ModifierCodes, Released,
                  L_SHIFT, R_SHIFT, L_CTRL, L_ALT, CAPSLOCK, RELEASE_CHECK
    <2>2. /\ {L_SHIFT, R_SHIFT} \cap {Released(L_SHIFT), Released(R_SHIFT)} = {}
          /\ L_SHIFT # R_SHIFT /\ Released(L_SHIFT) # Released(R_SHIFT)
      BY DEF L_SHIFT, R_SHIFT, Released, RELEASE_CHECK
    <2> HIDE DEF h, c
    <2> QED
      BY <1>1, <1>3, <1>4, <2>1, <2>2
  <1>9. h.capslock = Cardinality(presses(n)) % 2
    <2>1. h.capslock = IF c = CAPSLOCK THEN 1 - m.capslock ELSE m.capslock
      BY <1>3 DEF Mods, handle_special, CapsToggled, ModifierCodes, Released,
                  L_SHIFT, R_SHIFT, L_CTRL, L_ALT, CAPSLOCK, RELEASE_CHECK
    <2>2. \A x \in Nat : (x + 1) % 2 = 1 - (x % 2)
      OBVIOUS
    <2> HIDE DEF h, c, presses
    <2> QED
      BY <1>2, <1>3, <2>1, <2>2
  <1> QED
    BY <1>5, <1>6, <1>7, <1>8, <1>9 DEF Told

\* What the modifiers say after all codes of a keyboard.
LEMMA ToldAll ==
    ASSUME NEW codes \in Seq(ModifierCodes), FromKeyboard(codes)
    PROVE  Told(Modifiers(codes), codes, Len(codes))
  <1>1. /\ DOMAIN codes = 1 .. Len(codes) /\ Len(codes) \in Nat
        /\ \A n \in 1 .. Len(codes) : codes[n] \in ModifierCodes
    OBVIOUS
  <1>2. PICK f : KeyRun(f, codes)
    BY KeyRuns
  <1> DEFINE P == {n \in 0 .. Len(codes) : Told(f[n], codes, n)}
  <1>3. 0 \in P
    <2>1. \A k : ~DownAt(codes, 0, k)
      BY DEF DownAt
    <2>2. {i \in 1 .. 0 : codes[i] = CAPSLOCK} = {} /\ 0 % 2 = 0
      OBVIOUS
    <2>3. Cardinality({i \in 1 .. 0 : codes[i] = CAPSLOCK}) = 0
      BY <2>2, FS_EmptySet
    <2>4. f[0] = Init0 /\ 0 \in 0 .. Len(codes)
      BY <1>1, <1>2 DEF KeyRun
    <2>5. Told(Init0, codes, 0)
      BY <2>1, <2>2, <2>3 DEF Told, Init0, Mods
    <2> QED
      BY <2>4, <2>5
  <1>4. ASSUME NEW n \in 1 .. Len(codes), n - 1 \in P PROVE n \in P
    <2>1. n - 1 \in 0 .. Len(codes) /\ Told(f[n - 1], codes, n - 1)
      BY <1>4
    <2> DEFINE before == SubSeq(codes, 1, n - 1)
    <2>2. \A k : Down(before, k) <=> DownAt(codes, n - 1, k)
      BY <2>1, DownAfter
    <2>3. /\ codes[n] >= RELEASE_CHECK => Down(before, codes[n] - RELEASE_CHECK)
          /\ ~(Down(before, L_SHIFT) /\ Down(before, R_SHIFT))
      BY <1>1 DEF FromKeyboard
    <2> HIDE DEF before
    <2>4. /\ codes[n] >= RELEASE_CHECK => DownAt(codes, n - 1, codes[n] - RELEASE_CHECK)
          /\ ~(DownAt(codes, n - 1, L_SHIFT) /\ DownAt(codes, n - 1, R_SHIFT))
      BY <2>2, <2>3
    <2>5. Told(handle_special(f[n - 1], codes[n]), codes, n)
      <3>1. n \in Nat \ {0} /\ codes[n] \in ModifierCodes
        BY <1>1
      <3> QED
        BY ONLY <2>1, <2>4, <3>1, ToldNext
    <2>6. f[n] = handle_special(f[n - 1], codes[n])
      BY <1>2 DEF KeyRun
    <2> QED
      BY <2>5, <2>6
  <1>5. \A n \in 0 .. Len(codes) : n \in P
    <2> HIDE DEF P
    <2> QED
      BY <1>1, <1>3, <1>4, Climb
  <1>6. Told(f[Len(codes)], codes, Len(codes)) /\ Modifiers(codes) = f[Len(codes)]
    BY <1>1, <1>2, <1>5 DEF KeyRun
  <1> QED
    BY <1>6

\* After any sequence of presses and releases a keyboard can send, however
\* long, the driver's four flags say which keys are down and whether caps lock
\* is on, so that every key has the meaning its user sees
\* (keyboard.c:101-270).
THEOREM KeysAlwaysMean == CallsSpec => []KeysMean
  <1>1. CallTypes => KeysMean
    <2> SUFFICES ASSUME CallTypes, call.of = "keys" PROVE KeysMean
      BY DEF KeysMean
    <2> DEFINE codes == call.codes
               m == Modifiers(codes)
               shifted == Down(codes, L_SHIFT) \/ Down(codes, R_SHIFT)
               presses == {i \in DOMAIN codes : codes[i] = CAPSLOCK}
               locked == Cardinality(presses) % 2 = 1
               ctrl == Down(codes, L_CTRL)
               Bit(b) == IF b THEN 1 ELSE 0
    <2>1. codes \in Seq(ModifierCodes) /\ FromKeyboard(codes)
      <3>1. call \in Codes
        BY DEF CallTypes, KernelCalls, NoCall, Copies, Prints, CommandLines
      <3> QED
        BY <3>1, CallsAssumption, BoundedIsSeq DEF Codes
    <2>2. /\ DOMAIN codes = 1 .. Len(codes) /\ Len(codes) \in Nat
          /\ Len(codes) \in 0 .. Len(codes) /\ SubSeq(codes, 1, Len(codes)) = codes
      BY <2>1
    <2> HIDE DEF codes
    <2>3. \A k : Down(codes, k) <=> DownAt(codes, Len(codes), k)
      BY <2>1, <2>2, DownAfter
    <2>4. Told(m, codes, Len(codes))
      BY <2>1, ToldAll
    <2> HIDE DEF m
    <2>5. /\ m \in Mods /\ m.alt = 0
          /\ m.ctrl = 1 <=> ctrl
          /\ m.shift = 1 <=> shifted
          /\ m.capslock = Cardinality(presses) % 2
      BY <2>2, <2>3, <2>4 DEF Told
    <2> HIDE DEF ctrl, shifted, presses
    <2>6. /\ m.shift = Bit(shifted) /\ m.shift \in {0, 1}
          /\ (m.capslock + m.shift) % 2 = Bit(shifted # locked)
      <3>1. /\ m.capslock \in {0, 1} /\ m.shift \in {0, 1}
            /\ (m.capslock = 1) = locked /\ (m.shift = 1) = shifted
        <4>1. shifted \in BOOLEAN
          BY DEF shifted
        <4> QED
          BY <2>5, <4>1 DEF Mods
      <3>2. (1 + 1) % 2 = 0 /\ (0 + 1) % 2 = 1 /\ (1 + 0) % 2 = 1 /\ (0 + 0) % 2 = 0
        OBVIOUS
      <3> HIDE DEF locked
      <3>3. CASE m.capslock = 1 /\ m.shift = 1
        BY <3>1, <3>2, <3>3
      <3>4. CASE m.capslock = 1 /\ m.shift = 0
        BY <3>1, <3>2, <3>4
      <3>5. CASE m.capslock = 0 /\ m.shift = 1
        BY <3>1, <3>2, <3>5
      <3>6. CASE m.capslock = 0 /\ m.shift = 0
        BY <3>1, <3>2, <3>6
      <3> QED
        BY <3>1, <3>3, <3>4, <3>5, <3>6
    <2>7. Meaning(m, \h02) = <<"char", Bit(shifted), \h02>>
      BY <2>5, <2>6 DEF Meaning, Half, is_letter, KEY_L, KEY_C, CURSOR_L, CURSOR_R,
                        BACKSPACE, KEY_ENTER, KEY_TAB, KEY_NEED_IMPLEMENT
    <2>8. Meaning(m, \h10) = <<"char", Bit(shifted # locked), \h10>>
      BY <2>5, <2>6 DEF Meaning, Half, is_letter, KEY_L, KEY_C, CURSOR_L, CURSOR_R,
                        BACKSPACE, KEY_ENTER, KEY_TAB, KEY_NEED_IMPLEMENT
    <2>9. Meaning(m, KEY_L) = IF ctrl THEN <<"clear">>
                              ELSE <<"char", Bit(shifted # locked), KEY_L>>
      BY <2>5, <2>6 DEF Meaning, Half, is_letter, KEY_L, KEY_C, CURSOR_L, CURSOR_R,
                        BACKSPACE, KEY_ENTER, KEY_TAB, KEY_NEED_IMPLEMENT
    <2>10. Meaning(m, KEY_C) = IF ctrl THEN <<"halt">>
                               ELSE <<"char", Bit(shifted # locked), KEY_C>>
      BY <2>5, <2>6 DEF Meaning, Half, is_letter, KEY_L, KEY_C, CURSOR_L, CURSOR_R,
                        BACKSPACE, KEY_ENTER, KEY_TAB, KEY_NEED_IMPLEMENT
    <2>11. Meaning(m, Released(KEY_C)) = <<"nothing">>
      BY <2>5, <2>6 DEF Meaning, Half, is_letter, KEY_L, KEY_C, CURSOR_L, CURSOR_R,
                        BACKSPACE, KEY_ENTER, KEY_TAB, KEY_NEED_IMPLEMENT,
                        Released, RELEASE_CHECK
    <2> QED
      BY <2>7, <2>8, <2>9, <2>10, <2>11
         DEF KeysMean, Quantify, codes, m, shifted, presses, locked, ctrl, Bit
  <1> QED
    BY <1>1, CallsStay, PTL

-----------------------------------------------------------------------------
(***************************************************************************)
(* Numbers.                                                                *)
(***************************************************************************)
Digits == {lookup[d + 1] : d \in 0 .. 15}

DigitOf(c) == (CHOOSE i \in DOMAIN lookup : lookup[i] = c) - 1

LEMMA LookupApart ==
    /\ DOMAIN lookup = 1 .. 16
    /\ \A i, j \in 1 .. 16 : lookup[i] = lookup[j] => i = j
    /\ lookup[1] = "0"
  BY DEF lookup

LEMMA DigitsAre ==
    /\ \A d \in 0 .. 15 : lookup[d + 1] \in Digits /\ DigitOf(lookup[d + 1]) = d
    /\ \A c \in Digits : DigitOf(c) \in 0 .. 15 /\ lookup[DigitOf(c) + 1] = c
  <1>1. ASSUME NEW d \in 0 .. 15 PROVE lookup[d + 1] \in Digits /\ DigitOf(lookup[d + 1]) = d
    <2>1. d + 1 \in DOMAIN lookup
      BY LookupApart
    <2> DEFINE at == CHOOSE i \in DOMAIN lookup : lookup[i] = lookup[d + 1]
    <2>2. at \in DOMAIN lookup /\ lookup[at] = lookup[d + 1]
      BY <2>1
    <2>3. DigitOf(lookup[d + 1]) = at - 1
      BY DEF DigitOf
    <2> HIDE DEF at
    <2>4. at = d + 1
      BY <2>1, <2>2, LookupApart
    <2>5. lookup[d + 1] \in Digits
      BY DEF Digits
    <2> QED
      BY <2>3, <2>4, <2>5
  <1> QED
    BY <1>1 DEF Digits


ValueRun(f, digits, radix) ==
    /\ f[0] = 0
    /\ \A k \in 1 .. Len(digits) : f[k] = f[k - 1] * radix + DigitOf(digits[k])
    /\ Value(digits, radix) = f[Len(digits)]

\* The number read after each digit.
LEMMA ValueRuns ==
    ASSUME NEW radix \in {10, 16}, NEW digits \in Seq(Digits)
    PROVE  \E f : ValueRun(f, digits, radix)
  <1> DEFINE Step(m, u) == m * radix + DigitOf(u)
             step == [mu \in Int \X Digits |-> Step(mu[1], mu[2])]
             Solves(g) == g = [s \in SUBSET (DOMAIN digits) |->
                                  IF s = {} THEN 0 ELSE Step(g[s \ {Max(s)}], digits[Max(s)])]
             c == CHOOSE g : Solves(g)
             f == [k \in 0 .. Len(digits) |-> c[1 .. k]]
  <1>1. /\ DOMAIN digits = 1 .. Len(digits) /\ Len(digits) \in Nat
        /\ \A i \in 1 .. Len(digits) : digits[i] \in Digits
    OBVIOUS
  <1>2. \A m \in Int, u \in Digits : Step(m, u) \in Int
    <2> SUFFICES ASSUME NEW m \in Int, NEW u \in Digits PROVE Step(m, u) \in Int
      OBVIOUS
    <2>1. DigitOf(u) \in Int
      BY DigitsAre
    <2> QED
      BY <2>1
  <1> HIDE DEF Step
  <1>3. step \in [Int \X Digits -> Int]
    BY <1>2
  <1>4. \A m \in Int, u \in Digits : step[<<m, u>>] = Step(m, u)
    OBVIOUS
  <1> HIDE DEF step
  <1>5. PICK g : Folds(g, Len(digits), Int, step, digits, 0)
    <2>1. 0 \in Int
      OBVIOUS
    <2> QED
      BY <1>1, <1>3, <2>1, FoldExists
  <1>6. Solves(g)
    <2>1. \A s \in SUBSET (1 .. Len(digits)) : s # {} =>
              /\ Max(s) \in 1 .. Len(digits) /\ s \ {Max(s)} \in SUBSET (1 .. Len(digits))
      BY <1>1, MaxIs
    <2>2. \A s \in SUBSET (1 .. Len(digits)) : s # {} =>
              /\ g[s \ {Max(s)}] \in Int /\ digits[Max(s)] \in Digits
              /\ g[s] = step[<<g[s \ {Max(s)}], digits[Max(s)]>>]
      BY <1>1, <1>5, <2>1 DEF Folds
    <2>3. \A s \in SUBSET (1 .. Len(digits)) : s # {} =>
              g[s] = Step(g[s \ {Max(s)}], digits[Max(s)])
      BY <1>4, <2>2
    <2> QED
      BY <1>1, <1>5, <2>3 DEF Folds
  <1>7. Solves(c)
    <2> HIDE DEF Solves
    <2> QED
      BY <1>6
  <1>8. Value(digits, radix) = c[DOMAIN digits]
    BY DEF Value, DigitOf, FoldLeft, MapThenFoldSet, Step
  <1> HIDE DEF c
  <1>9. f[0] = 0 /\ \A k \in 1 .. Len(digits) : f[k] = Step(f[k - 1], digits[k])
    <2>1. \A s \in SUBSET (1 .. Len(digits)) :
              c[s] = IF s = {} THEN 0 ELSE Step(c[s \ {Max(s)}], digits[Max(s)])
      BY <1>1, <1>7
    <2>2. f[0] = 0
      <3>1. 0 \in 0 .. Len(digits) /\ 1 .. 0 = {}
        BY <1>1
      <3>2. c[{}] = 0
        BY <2>1
      <3> QED
        BY <3>1, <3>2
    <2>3. ASSUME NEW k \in 1 .. Len(digits)
          PROVE  f[k] = Step(f[k - 1], digits[k])
      <3>1. /\ k - 1 \in 0 .. Len(digits) /\ k \in 0 .. Len(digits)
            /\ 1 .. k \in SUBSET (1 .. Len(digits)) /\ 1 .. k # {}
            /\ Max(1 .. k) = k /\ (1 .. k) \ {k} = 1 .. k - 1
        BY <1>1, FirstPositions
      <3>2. c[1 .. k] = Step(c[1 .. k - 1], digits[k])
        BY <2>1, <3>1
      <3>3. \A i \in 0 .. Len(digits) : f[i] = c[1 .. i]
        OBVIOUS
      <3> HIDE DEF f
      <3> QED
        BY <3>1, <3>2, <3>3
    <2> QED
      BY <2>2, <2>3
  <1>10. Value(digits, radix) = f[Len(digits)]
    <2>1. f[Len(digits)] = c[1 .. Len(digits)]
      BY <1>1
    <2> QED
      BY <1>1, <1>8, <2>1
  <1> HIDE DEF f
  <1> QED
    BY <1>9, <1>10 DEF Step, ValueRun

\* One more digit.
LEMMA ValueAppend ==
    ASSUME NEW radix \in {10, 16}, NEW s \in Seq(Digits), NEW c \in Digits
    PROVE  /\ Value(s, radix) \in Int
           /\ Value(Append(s, c), radix) = Value(s, radix) * radix + DigitOf(c)
  <1> DEFINE t == Append(s, c)
             n == Len(s)
  <1>1. /\ n \in Nat /\ t \in Seq(Digits) /\ Len(t) = n + 1 /\ t[n + 1] = c
        /\ \A k \in 1 .. n : t[k] = s[k] /\ s[k] \in Digits
    OBVIOUS
  <1>2. PICK f : ValueRun(f, s, radix)
    BY ValueRuns
  <1>3. PICK g : ValueRun(g, t, radix)
    BY <1>1, ValueRuns
  <1> HIDE DEF t
  <1> DEFINE P == {k \in 0 .. n : g[k] = f[k] /\ f[k] \in Int}
  <1>4. 0 \in P
    BY <1>1, <1>2, <1>3 DEF ValueRun
  <1>5. ASSUME NEW k \in 1 .. n, k - 1 \in P PROVE k \in P
    <2>1. g[k - 1] = f[k - 1] /\ f[k - 1] \in Int /\ k \in 1 .. Len(t)
      BY <1>1, <1>5
    <2>2. DigitOf(s[k]) \in Int
      BY <1>1, DigitsAre
    <2>3. f[k] = f[k - 1] * radix + DigitOf(s[k])
      BY <1>2 DEF ValueRun
    <2>4. g[k] = g[k - 1] * radix + DigitOf(s[k])
      BY <1>1, <1>3, <2>1 DEF ValueRun
    <2> QED
      BY <2>1, <2>2, <2>3, <2>4
  <1>6. \A k \in 0 .. n : k \in P
    <2> HIDE DEF P
    <2> QED
      BY <1>1, <1>4, <1>5, Climb
  <1>7. g[n] = f[n] /\ f[n] \in Int
    BY <1>1, <1>6
  <1>8. g[n + 1] = g[n] * radix + DigitOf(c)
    <2>1. n + 1 \in 1 .. Len(t) /\ n + 1 - 1 = n
      BY <1>1
    <2> HIDE DEF n
    <2> QED
      BY <1>1, <1>3, <2>1 DEF ValueRun
  <1>9. Value(s, radix) = f[n] /\ Value(t, radix) = g[n + 1]
    BY <1>1, <1>2, <1>3 DEF ValueRun
  <1> QED
    BY <1>7, <1>8, <1>9 DEF t

\* Zeros in front.
LEMMA ValueZeros ==
    ASSUME NEW radix \in {10, 16}, NEW s \in Seq(Digits), NEW z \in Nat
    PROVE  LET t == [i \in 1 .. z |-> "0"] \o s IN
           /\ t \in Seq(Digits) /\ Len(t) = z + Len(s)
           /\ Value(t, radix) = Value(s, radix)
  <1> DEFINE zeros == [i \in 1 .. z |-> "0"]
             t == zeros \o s
             n == Len(s)
  <1>0. "0" \in Digits /\ DigitOf("0") = 0
    BY DigitsAre, LookupApart
  <1>1. zeros \in Seq(Digits) /\ Len(zeros) = z /\ n \in Nat
    BY <1>0, IsASeq
  <1>2. /\ t \in Seq(Digits) /\ Len(t) = z + n
        /\ \A k \in 1 .. z : t[k] = "0"
        /\ \A k \in 1 .. n : t[z + k] = s[k] /\ s[k] \in Digits
    <2>1. /\ t \in Seq(Digits) /\ Len(t) = z + n
          /\ \A k \in 1 .. z + n : t[k] = IF k <= z THEN zeros[k] ELSE s[k - z]
      <3> HIDE DEF zeros
      <3> QED
        BY <1>1, ConcatProperties
    <2>2. \A k \in 1 .. n : z + k \in 1 .. z + n /\ ~(z + k <= z) /\ z + k - z = k
      BY <1>1
    <2>3. \A k \in 1 .. z : k \in 1 .. z + n /\ k <= z
      BY <1>1
    <2> HIDE DEF t
    <2> QED
      BY <1>1, <2>1, <2>2, <2>3
  <1>3. PICK f : ValueRun(f, s, radix)
    BY ValueRuns
  <1>4. PICK g : ValueRun(g, t, radix)
    BY <1>2, ValueRuns
  <1> HIDE DEF t, zeros
  <1> DEFINE Z == {k \in 0 .. z : g[k] = 0}
  <1>5. \A k \in 0 .. z : k \in Z
    <2>1. 0 \in Z
      BY <1>4 DEF ValueRun
    <2>2. ASSUME NEW k \in 1 .. z, k - 1 \in Z PROVE k \in Z
      <3>1. k \in 1 .. Len(t)
        BY <1>1, <1>2
      <3>2. g[k] = g[k - 1] * radix + DigitOf("0")
        BY <1>2, <1>4, <3>1 DEF ValueRun
      <3> QED
        BY <1>0, <2>2, <3>2
    <2> HIDE DEF Z
    <2> QED
      BY <2>1, <2>2, Climb
  <1> DEFINE P == {k \in 0 .. n : g[z + k] = f[k] /\ f[k] \in Int}
  <1>6. 0 \in P
    BY <1>1, <1>3, <1>5 DEF ValueRun
  <1>7. ASSUME NEW k \in 1 .. n, k - 1 \in P PROVE k \in P
    <2>1. g[z + (k - 1)] = f[k - 1] /\ f[k - 1] \in Int
      BY <1>1, <1>7
    <2>2. DigitOf(s[k]) \in Int
      BY <1>2, DigitsAre
    <2>3. f[k] = f[k - 1] * radix + DigitOf(s[k])
      BY <1>3 DEF ValueRun
    <2>4. g[z + k] = g[z + (k - 1)] * radix + DigitOf(s[k])
      <3>1. z + k \in 1 .. Len(t) /\ z + k - 1 = z + (k - 1)
        BY <1>1, <1>2
      <3>2. g[z + k] = g[z + k - 1] * radix + DigitOf(t[z + k])
        BY <1>4, <3>1 DEF ValueRun
      <3> QED
        BY <1>2, <3>1, <3>2
    <2> QED
      BY <2>1, <2>2, <2>3, <2>4
  <1>8. \A k \in 0 .. n : k \in P
    <2> HIDE DEF P
    <2> QED
      BY <1>1, <1>6, <1>7, Climb
  <1>9. g[z + n] = f[n]
    BY <1>1, <1>8
  <1>10. Value(s, radix) = f[n] /\ Value(t, radix) = g[z + n]
    BY <1>2, <1>3, <1>4 DEF ValueRun
  <1> QED
    BY <1>2, <1>9, <1>10 DEF t, zeros

\* The digits of numbers up to n, the last one first.
Writes(g, n, r) ==
    \A v \in 0 .. n : g[v] = IF v = 0 THEN <<>>
                             ELSE <<lookup[(v % r) + 1]>> \o g[v \div r]

LEMMA Shorter ==
    ASSUME NEW r \in {10, 16}, NEW v \in Nat \ {0}
    PROVE  /\ v \div r \in Nat /\ v \div r < v /\ v % r \in 0 .. 15
           /\ v = (v \div r) * r + (v % r)
           /\ v \div r = 0 => v % r # 0
  <1>1. CASE r = 10
    BY <1>1
  <1>2. CASE r = 16
    BY <1>2
  <1> QED
    BY <1>1, <1>2

LEMMA WritesExist ==
    ASSUME NEW r \in {10, 16}, NEW n \in Nat
    PROVE  \E g : Writes(g, n, r)
  <1> DEFINE P == {k \in 0 .. n : \E g : Writes(g, k, r)}
  <1>1. 0 \in P
    <2> DEFINE g == [v \in 0 .. 0 |-> <<>>]
    <2>1. Writes(g, 0, r)
      BY DEF Writes
    <2> QED
      BY <2>1
  <1>2. ASSUME NEW k \in 1 .. n, k - 1 \in P PROVE k \in P
    <2>1. PICK g : Writes(g, k - 1, r)
      BY <1>2
    <2> DEFINE h == [v \in 0 .. k |-> IF v = k THEN <<lookup[(k % r) + 1]>> \o g[k \div r]
                                      ELSE g[v]]
    <2>2. ASSUME NEW v \in 0 .. k
          PROVE  h[v] = IF v = 0 THEN <<>> ELSE <<lookup[(v % r) + 1]>> \o h[v \div r]
      <3>1. CASE v = 0
        <4>1. 0 \in 0 .. k - 1 /\ v # k
          BY <3>1
        <4> QED
          BY <2>1, <3>1, <4>1 DEF Writes
      <3>2. CASE v # 0
        <4> DEFINE w == v \div r
        <4>1. w \in 0 .. k /\ w # k
          BY <3>2, Shorter
        <4>2. h[w] = g[w]
          <5> HIDE DEF w
          <5> QED
            BY <4>1
        <4>3. h[v] = <<lookup[(v % r) + 1]>> \o g[w]
          <5>1. v = k \/ v \in 0 .. k - 1
            OBVIOUS
          <5> QED
            BY <2>1, <3>2, <5>1 DEF Writes
        <4> HIDE DEF h
        <4> QED
          BY <3>2, <4>2, <4>3
      <3> QED
        BY <3>1, <3>2
    <2> HIDE DEF h
    <2>3. Writes(h, k, r)
      BY <2>2 DEF Writes
    <2> QED
      BY <2>3
  <1> HIDE DEF P
  <1>3. n \in P
    BY <1>1, <1>2, Climb
  <1> QED
    BY <1>3 DEF P

LEMMA WritesAgree ==
    ASSUME NEW r \in {10, 16}, NEW m \in Nat, NEW n \in Nat, NEW f, NEW g,
           Writes(f, m, r), Writes(g, n, r)
    PROVE  \A v \in 0 .. n : v <= m => f[v] = g[v]
  <1> DEFINE T == {v \in 0 .. n : v <= m /\ f[v] # g[v]}
  <1> SUFFICES ASSUME T # {} PROVE FALSE
    OBVIOUS
  <1>1. PICK v \in T : \A w \in T : v <= w
    <2>1. T \subseteq Nat
      OBVIOUS
    <2> HIDE DEF T
    <2> QED
      BY <2>1, Minimum
  <1>2. v \in 0 .. n /\ v \in 0 .. m /\ f[v] # g[v]
    OBVIOUS
  <1>3. v # 0
    BY <1>2 DEF Writes
  <1> DEFINE w == v \div r
  <1>4. w \in 0 .. n /\ w \in 0 .. m /\ w < v
    BY <1>2, <1>3, Shorter
  <1>5. f[w] = g[w]
    <2>1. w \notin T
      <3> HIDE DEF T, w
      <3> QED
        BY <1>1, <1>2, <1>4
    <2> HIDE DEF w
    <2> QED
      BY <1>4, <2>1
  <1> QED
    BY <1>2, <1>3, <1>5 DEF Writes

\* The digits of every number, the last one first.
WritesAll(b, r) ==
    \A v \in Nat : b[v] = IF v = 0 THEN <<>>
                          ELSE <<lookup[(v % r) + 1]>> \o b[v \div r]

\* itoa's recursive function exists.
LEMMA ItoaIs ==
    ASSUME NEW r \in {10, 16}
    PROVE  \E b : /\ WritesAll(b, r)
                  /\ \A v : itoa(v, r) = IF v = 0 THEN <<"0">> ELSE Reverse(b[v])
  <1> DEFINE Sol(n) == CHOOSE g : Writes(g, n, r)
             big == [v \in Nat |-> Sol(v)[v]]
             Solves(b) == b = [v \in Nat |-> IF v = 0 THEN <<>>
                                             ELSE <<lookup[(v % r) + 1]>> \o b[v \div r]]
             backwards == CHOOSE b : Solves(b)
  <1>1. \A n \in Nat : Writes(Sol(n), n, r)
    BY WritesExist
  <1> HIDE DEF Sol
  <1>2. ASSUME NEW v \in Nat
        PROVE  big[v] = IF v = 0 THEN <<>> ELSE <<lookup[(v % r) + 1]>> \o big[v \div r]
    <2>1. v \in 0 .. v
      OBVIOUS
    <2>2. Sol(v)[v] = IF v = 0 THEN <<>> ELSE <<lookup[(v % r) + 1]>> \o Sol(v)[v \div r]
      BY <1>1, <2>1 DEF Writes
    <2>3. CASE v = 0
      BY <2>2, <2>3
    <2>4. CASE v # 0
      <3> DEFINE w == v \div r
      <3>1. w \in Nat /\ w <= v /\ w \in 0 .. w
        BY <2>4, Shorter
      <3> HIDE DEF w
      <3>2. Sol(v)[w] = Sol(w)[w]
        <4>1. Writes(Sol(v), v, r) /\ Writes(Sol(w), w, r)
          BY <1>1, <3>1
        <4> QED
          BY <3>1, <4>1, WritesAgree
      <3>3. big[v] = Sol(v)[v] /\ big[w] = Sol(w)[w]
        BY <3>1
      <3> HIDE DEF big
      <3> QED
        BY <2>2, <2>4, <3>2, <3>3 DEF w
    <2> QED
      BY <2>3, <2>4
  <1>3. Solves(big)
    <2>1. big = [v \in Nat |-> big[v]]
      OBVIOUS
    <2> HIDE DEF big
    <2> QED
      BY <1>2, <2>1
  <1>4. Solves(backwards)
    <2> HIDE DEF Solves
    <2> QED
      BY <1>3
  <1>5. \A v : itoa(v, r) = IF v = 0 THEN <<"0">> ELSE Reverse(backwards[v])
    BY DEF itoa, strrev
  <1> HIDE DEF backwards
  <1>6. WritesAll(backwards, r)
    BY <1>4 DEF WritesAll
  <1> QED
    BY <1>5, <1>6

LEMMA ReverseIs ==
    ASSUME NEW S, NEW d \in S, NEW s \in Seq(S)
    PROVE  /\ <<d>> \o s \in Seq(S) /\ Len(<<d>> \o s) = Len(s) + 1
           /\ Reverse(<<d>> \o s) = Append(Reverse(s), d)
           /\ Reverse(s) \in Seq(S) /\ Len(Reverse(s)) = Len(s)
           /\ s # <<>> => /\ Head(Reverse(s)) = s[Len(s)]
                          /\ (<<d>> \o s)[Len(s) + 1] = s[Len(s)]
  <1> DEFINE n == Len(s)
             t == <<d>> \o s
             rs == [i \in 1 .. n |-> s[n - i + 1]]
  <1>1. n \in Nat /\ <<d>> \in Seq(S) /\ Len(<<d>>) = 1 /\ \A i \in 1 .. n : s[i] \in S
    OBVIOUS
  <1>2. /\ t \in Seq(S) /\ Len(t) = n + 1
        /\ \A i \in 1 .. n + 1 : t[i] = IF i = 1 THEN d ELSE s[i - 1]
    <2>1. /\ t \in Seq(S) /\ Len(t) = 1 + n
          /\ \A i \in 1 .. 1 + n : t[i] = IF i <= 1 THEN <<d>>[i] ELSE s[i - 1]
      BY <1>1, ConcatProperties
    <2> HIDE DEF t, n
    <2> QED
      BY <1>1, <2>1
  <1>3. rs = Reverse(s) /\ rs \in Seq(S) /\ Len(rs) = n
    <2>1. \A i \in 1 .. n : n - i + 1 \in 1 .. n
      BY <1>1
    <2>2. rs \in Seq(S) /\ Len(rs) = n
      BY <1>1, <2>1, IsASeq
    <2>3. Reverse(s) = rs
      BY DEF Reverse
    <2> QED
      BY <2>2, <2>3
  <1>4. Reverse(t) = [i \in 1 .. n + 1 |-> t[n + 1 - i + 1]]
    <2> HIDE DEF t
    <2> QED
      BY <1>2 DEF Reverse
  <1>5. Append(rs, d) \in Seq(S) /\ Len(Append(rs, d)) = n + 1
        /\ \A i \in 1 .. n + 1 : Append(rs, d)[i] = IF i <= n THEN rs[i] ELSE d
    <2> HIDE DEF rs
    <2> QED
      BY <1>1, <1>3, AppendProperties
  <1>6. \A i \in 1 .. n + 1 : t[n + 1 - i + 1] = Append(rs, d)[i]
    <2> TAKE i \in 1 .. n + 1
    <2>1. n + 1 - i + 1 \in 1 .. n + 1
      BY <1>1
    <2>2. CASE i <= n
      <3>1. i \in 1 .. n /\ n + 1 - i + 1 # 1 /\ n + 1 - i + 1 - 1 = n - i + 1
        BY <1>1, <2>2
      <3>2. rs[i] = s[n - i + 1]
        BY <3>1
      <3> DEFINE j == n + 1 - i + 1
      <3>3. j \in 1 .. n + 1 /\ j # 1 /\ j - 1 = n - i + 1
        BY <2>1, <3>1
      <3>4. t[j] = s[j - 1]
        <4> HIDE DEF t, j
        <4> QED
          BY <1>2, <3>3
      <3>5. Append(rs, d)[i] = rs[i]
        <4> HIDE DEF rs
        <4> QED
          BY <1>5, <2>2
      <3> HIDE DEF rs, t
      <3> QED
        BY <3>2, <3>3, <3>4, <3>5
    <2>3. CASE i = n + 1
      <3>1. n + 1 - i + 1 = 1 /\ ~(i <= n)
        BY <1>1, <2>3
      <3> HIDE DEF rs, t
      <3> QED
        BY <1>2, <1>5, <2>1, <3>1
    <2> QED
      BY <1>1, <2>2, <2>3
  <1>7. Append(rs, d) = [i \in 1 .. n + 1 |-> Append(rs, d)[i]]
    <2> DEFINE a == Append(rs, d)
    <2> HIDE DEF rs
    <2>1. a \in Seq(S) /\ Len(a) = n + 1
      BY <1>5
    <2> HIDE DEF a
    <2>2. a \in [1 .. n + 1 -> S]
      BY <2>1, LenProperties
    <2>3. a = [i \in 1 .. n + 1 |-> a[i]]
      BY <2>2
    <2> QED
      BY <2>3 DEF a
  <1>8. Reverse(t) = Append(rs, d)
    <2> HIDE DEF rs, t
    <2> QED
      BY <1>4, <1>6, <1>7
  <1>9. s # <<>> => Head(rs) = s[n] /\ t[n + 1] = s[n]
    <2> SUFFICES ASSUME s # <<>> PROVE Head(rs) = s[n] /\ t[n + 1] = s[n]
      OBVIOUS
    <2>1. n # 0 /\ 1 \in 1 .. n /\ n - 1 + 1 = n
      BY <1>1
    <2>2. rs[1] = s[n]
      BY <2>1
    <2>3. rs # <<>> /\ Head(rs) = rs[1]
      <3> HIDE DEF rs
      <3> QED
        BY <1>1, <1>3, <2>1
    <2>4. t[n + 1] = s[n]
      BY <1>1, <1>2, <2>1
    <2> QED
      BY <2>2, <2>3, <2>4
  <1> QED
    BY <1>2, <1>3, <1>8, <1>9

\* The number v is written so that it reads back, without a zero in front.
Written(s, v, r) ==
    /\ s \in Seq(Digits) /\ Value(Reverse(s), r) = v
    /\ v = 0 <=> s = <<>>
    /\ s # <<>> => s[Len(s)] # "0"

LEMMA NoDigits ==
    ASSUME NEW r \in {10, 16}
    PROVE  <<>> \in Seq(Digits) /\ Value(<<>>, r) = 0 /\ Reverse(<<>>) = <<>>
  <1>1. <<>> \in Seq(Digits) /\ Len(<<>>) = 0
    OBVIOUS
  <1>2. PICK f : ValueRun(f, <<>>, r)
    BY <1>1, ValueRuns
  <1>3. Value(<<>>, r) = 0
    BY <1>1, <1>2 DEF ValueRun
  <1>4. Reverse(<<>>) = <<>>
    BY DEF Reverse
  <1> QED
    BY <1>1, <1>3, <1>4

LEMMA WrittenNext ==
    ASSUME NEW r \in {10, 16}, NEW v \in Nat \ {0}, NEW s, Written(s, v \div r, r)
    PROVE  Written(<<lookup[(v % r) + 1]>> \o s, v, r)
  <1> DEFINE w == v \div r
             m == v % r
             d == lookup[m + 1]
             t == <<d>> \o s
  <1>1. w \in Nat /\ m \in 0 .. 15 /\ v = w * r + m /\ (w = 0 => m # 0)
    BY Shorter
  <1>2. d \in Digits /\ DigitOf(d) = m /\ (m # 0 => d # "0")
    <2> HIDE DEF m
    <2> QED
      BY <1>1, DigitsAre, LookupApart
  <1>3. /\ s \in Seq(Digits) /\ Value(Reverse(s), r) = w
        /\ w = 0 <=> s = <<>>
        /\ s # <<>> => s[Len(s)] # "0"
    BY DEF Written
  <1> HIDE DEF w, m, d
  <1>4. /\ t \in Seq(Digits) /\ Len(t) = Len(s) + 1 /\ Reverse(t) = Append(Reverse(s), d)
        /\ Reverse(s) \in Seq(Digits)
        /\ s # <<>> => t[Len(s) + 1] = s[Len(s)]
    BY <1>2, <1>3, ReverseIs
  <1>5. Value(Append(Reverse(s), d), r) = Value(Reverse(s), r) * r + DigitOf(d)
    BY <1>2, <1>4, ValueAppend
  <1>6. Value(Reverse(t), r) = v
    BY <1>1, <1>2, <1>3, <1>4, <1>5
  <1>7. Len(s) \in Nat /\ t # <<>>
    <2>1. Len(s) \in Nat
      BY <1>3
    <2>2. Len(t) # 0
      BY <1>4, <2>1
    <2>3. Len(<<>>) = 0
      OBVIOUS
    <2> HIDE DEF t
    <2> QED
      BY <2>1, <2>2, <2>3
  <1>8. t[Len(t)] # "0"
    <2>1. CASE s # <<>>
      <3> HIDE DEF t
      <3> QED
        BY <1>3, <1>4, <2>1
    <2>2. CASE s = <<>>
      <3>1. t = <<d>>
        BY <2>2
      <3> QED
        BY <1>1, <1>2, <1>3, <2>2, <3>1
    <2> QED
      BY <2>1, <2>2
  <1>9. Written(t, v, r)
    <2> HIDE DEF t
    <2> QED
      BY <1>4, <1>6, <1>7, <1>8 DEF Written
  <1> QED
    BY <1>9 DEF t, d, m

LEMMA AllWritten ==
    ASSUME NEW r \in {10, 16}, NEW b, WritesAll(b, r)
    PROVE  \A v \in Nat : Written(b[v], v, r)
  <1> DEFINE T == {v \in Nat : ~Written(b[v], v, r)}
  <1> SUFFICES ASSUME T # {} PROVE FALSE
    OBVIOUS
  <1>1. PICK v \in T : \A w \in T : v <= w
    <2>1. T \subseteq Nat
      OBVIOUS
    <2> HIDE DEF T
    <2> QED
      BY <2>1, Minimum
  <1>2. v \in Nat /\ ~Written(b[v], v, r)
    OBVIOUS
  <1>3. CASE v = 0
    <2>1. b[0] = <<>>
      BY DEF WritesAll
    <2>2. Written(<<>>, 0, r)
      BY NoDigits DEF Written
    <2> QED
      BY <1>2, <1>3, <2>1, <2>2
  <1>4. CASE v # 0
    <2> DEFINE w == v \div r
    <2>1. w \in Nat /\ w < v
      BY <1>2, <1>4, Shorter
    <2>2. Written(b[w], w, r)
      <3>1. w \notin T
        <4> HIDE DEF T, w
        <4> QED
          BY <1>1, <1>2, <2>1
      <3> HIDE DEF w
      <3> QED
        BY <2>1, <3>1
    <2>3. b[v] = <<lookup[(v % r) + 1]>> \o b[w]
      BY <1>2, <1>4 DEF WritesAll
    <2>4. v \in Nat \ {0}
      BY <1>2, <1>4
    <2>5. Written(b[v], v, r)
      BY <2>2, <2>3, <2>4, WrittenNext
    <2> QED
      BY <1>2, <2>5
  <1> QED
    BY <1>3, <1>4

\* Words have at most eight hexadecimal digits.
LEMMA EightDigits ==
    ASSUME NEW b, WritesAll(b, 16), NEW v \in 0 .. WORD - 1
    PROVE  Len(b[v]) \in 0 .. 8
  <1> DEFINE Short(n, k) == \A u \in Nat : u < n => Len(b[u]) \in 0 .. k
  <1>1. ASSUME NEW n \in Nat, NEW k \in Nat, Short(n, k)
        PROVE  Short(16 * n, k + 1)
    <2> SUFFICES ASSUME NEW u \in Nat, u < 16 * n PROVE Len(b[u]) \in 0 .. k + 1
      OBVIOUS
    <2>1. CASE u = 0
      <3>1. b[u] = <<>>
        BY <2>1 DEF WritesAll
      <3> QED
        BY <3>1
    <2>2. CASE u # 0
      <3> DEFINE w == u \div 16
                 d == lookup[(u % 16) + 1]
      <3>1. w \in Nat /\ w < n
        OBVIOUS
      <3>2. b[u] = <<d>> \o b[w]
        BY <2>2 DEF WritesAll
      <3>3. Len(b[w]) \in 0 .. k /\ b[w] \in Seq(Digits)
        <4> HIDE DEF w
        <4>1. Written(b[w], w, 16)
          BY <3>1, AllWritten
        <4> QED
          BY <1>1, <3>1, <4>1 DEF Written
      <3>4. d \in Digits
        <4>1. u % 16 \in 0 .. 15
          OBVIOUS
        <4> QED
          BY <4>1, DigitsAre
      <3> HIDE DEF w, d
      <3>5. Len(<<d>> \o b[w]) = Len(b[w]) + 1
        BY <3>3, <3>4, ReverseIs
      <3> QED
        BY <3>2, <3>3, <3>5
    <2> QED
      BY <2>1, <2>2
  <1>2. Short(1, 0)
    <2>1. b[0] = <<>>
      BY DEF WritesAll
    <2>2. \A u \in Nat : u < 1 => u = 0
      OBVIOUS
    <2> QED
      BY <2>1, <2>2
  <1> HIDE DEF Short
  <1>3. Short(256, 2)
    <2>1. Short(16, 1)
      BY <1>1, <1>2
    <2> QED
      BY <1>1, <2>1
  <1>4. Short(65536, 4)
    <2>1. Short(4096, 3)
      BY <1>1, <1>3
    <2> QED
      BY <1>1, <2>1
  <1>5. Short(16777216, 6)
    <2>1. Short(1048576, 5)
      BY <1>1, <1>4
    <2> QED
      BY <1>1, <2>1
  <1>6. Short(4294967296, 8)
    <2>1. Short(268435456, 7)
      BY <1>1, <1>5
    <2> QED
      BY <1>1, <2>1
  <1>7. v < 4294967296
    BY LibraryAssumption
  <1> QED
    BY <1>6, <1>7 DEF Short

\* What itoa returns reads back, is not empty, and begins with a zero only if
\* that is all of it.
Reads(s, v, r) ==
    /\ s \in Seq(Digits) /\ s # <<>> /\ Value(s, r) = v
    /\ Len(s) > 1 => Head(s) # "0"

LEMMA ItoaReads ==
    ASSUME NEW r \in {10, 16}, NEW v \in Nat
    PROVE  /\ Reads(itoa(v, r), v, r)
           /\ r = 16 /\ v < WORD => Len(itoa(v, r)) \in 1 .. 8
  <1>1. PICK b : /\ WritesAll(b, r)
                 /\ \A u : itoa(u, r) = IF u = 0 THEN <<"0">> ELSE Reverse(b[u])
    BY ItoaIs
  <1>2. CASE v = 0
    <2>1. itoa(v, r) = <<"0">>
      BY <1>1, <1>2
    <2>2. "0" \in Digits /\ DigitOf("0") = 0
      BY DigitsAre, LookupApart
    <2>3. Append(<<>>, "0") = <<"0">> /\ <<"0">> \in Seq(Digits) /\ Len(<<"0">>) = 1
          /\ <<"0">> # <<>>
      BY <2>2
    <2>4. Value(Append(<<>>, "0"), r) = Value(<<>>, r) * r + DigitOf("0")
      BY <2>2, NoDigits, ValueAppend
    <2>5. Value(<<"0">>, r) = 0
      BY <2>2, <2>3, <2>4, NoDigits
    <2> QED
      <3> DEFINE z == <<"0">>
      <3>1. z \in Seq(Digits) /\ Len(z) = 1 /\ z # <<>> /\ Value(z, r) = 0 /\ itoa(v, r) = z
        BY <2>1, <2>3, <2>5
      <3> HIDE DEF z
      <3>2. Reads(z, 0, r)
        BY <3>1 DEF Reads
      <3> QED
        BY <1>2, <3>1, <3>2
  <1>3. CASE v # 0
    <2> DEFINE s == b[v]
    <2>1. /\ s \in Seq(Digits) /\ Value(Reverse(s), r) = v
          /\ s # <<>> /\ s[Len(s)] # "0"
      BY <1>1, <1>3, AllWritten DEF Written
    <2>2. itoa(v, r) = Reverse(s)
      BY <1>1, <1>3
    <2>3. r = 16 /\ v < WORD => Len(s) \in 0 .. 8
      <3> SUFFICES ASSUME r = 16, v < WORD PROVE Len(s) \in 0 .. 8
        OBVIOUS
      <3>1. v \in 0 .. WORD - 1
        BY LibraryAssumption
      <3> QED
        BY <1>1, <3>1, EightDigits
    <2> HIDE DEF s
    <2>4. "0" \in Digits
      BY DigitsAre, LookupApart
    <2>5. /\ Reverse(s) \in Seq(Digits) /\ Len(Reverse(s)) = Len(s)
          /\ Head(Reverse(s)) = s[Len(s)]
      BY <2>1, <2>4, ReverseIs
    <2>6. Len(s) \in Nat \ {0}
      BY <2>1, EmptySeq
    <2>7. Reverse(s) # <<>>
      <3>1. Len(<<>>) = 0
        OBVIOUS
      <3> QED
        BY <2>5, <2>6, <3>1
    <2>8. Reads(Reverse(s), v, r)
      BY <2>1, <2>5, <2>7 DEF Reads
    <2> QED
      <3>1. r = 16 /\ v < WORD => Len(Reverse(s)) \in 1 .. 8
        <4> SUFFICES ASSUME r = 16, v < WORD PROVE Len(Reverse(s)) \in 1 .. 8
          OBVIOUS
        <4>1. Len(s) \in 0 .. 8
          BY <2>3
        <4>2. Len(s) \in 1 .. 8
          BY <2>6, <4>1
        <4> QED
          BY <2>5, <4>2
      <3> QED
        BY <2>2, <2>8, <3>1
  <1> QED
    BY <1>2, <1>3

\* What printf does with one character of its format.
Printing(st, c, args) ==
    IF ~st.spec THEN
        IF c = "%" THEN [st EXCEPT !.spec = TRUE, !.alternate = FALSE]
        ELSE [st EXCEPT !.out = Append(@, c)]
    ELSE CASE c = "#" -> [st EXCEPT !.alternate = TRUE]
           [] c = "%" -> [st EXCEPT !.spec = FALSE, !.out = Append(@, c)]
           [] c \in {"x", "u", "d", "c", "s"} ->
                [out |-> st.out \o Conversion(c, st.alternate, args[st.next]),
                 next |-> st.next + 1, spec |-> FALSE, alternate |-> FALSE]
           [] OTHER -> [st EXCEPT !.spec = FALSE]

Blank == [out |-> <<>>, next |-> 1, spec |-> FALSE, alternate |-> FALSE]

PrintRun(f, format, args) ==
    /\ f[0] = Blank
    /\ \A k \in 1 .. Len(format) : f[k] = Printing(f[k - 1], format[k], args)
    /\ printf(format, args) = f[Len(format)].out

\* The states of printf after each character.
LEMMA PrintRuns ==
    ASSUME NEW S, NEW format \in Seq(S), NEW args
    PROVE  \E f : PrintRun(f, format, args)
  <1> DEFINE n == Len(format)
             Step(m, u) == Printing(m, u, args)
             Solves(g, k) == g = [s \in SUBSET (1 .. k) |->
                                     IF s = {} THEN Blank
                                     ELSE Step(g[s \ {Max(s)}], format[Max(s)])]
             c == CHOOSE g : Solves(g, n)
             f == [k \in 0 .. n |-> c[1 .. k]]
  <1>1. DOMAIN format = 1 .. n /\ n \in Nat
    OBVIOUS
  <1>2. printf(format, args) = c[1 .. n].out
    BY <1>1 DEF printf, FoldLeft, MapThenFoldSet, Printing, Blank
  <1> HIDE DEF Step, n
  <1> DEFINE P == {k \in 0 .. n : \E g : Solves(g, k)}
  <1>3. 0 \in P
    <2> DEFINE g == [s \in SUBSET (1 .. 0) |-> Blank]
    <2>1. \A s \in SUBSET (1 .. 0) : s = {}
      OBVIOUS
    <2>2. Solves(g, 0)
      BY <2>1
    <2> HIDE DEF Solves
    <2> QED
      BY <1>1, <2>2
  <1>4. ASSUME NEW k \in 1 .. n, k - 1 \in P PROVE k \in P
    <2>1. PICK g : Solves(g, k - 1)
      BY <1>4
    <2>2. \A s \in SUBSET (1 .. k - 1) :
              g[s] = IF s = {} THEN Blank ELSE Step(g[s \ {Max(s)}], format[Max(s)])
      BY <2>1
    <2> DEFINE h == [s \in SUBSET (1 .. k) |->
                        IF k \in s THEN Step(g[s \ {k}], format[k]) ELSE g[s]]
    <2>3. ASSUME NEW s \in SUBSET (1 .. k)
          PROVE  h[s] = IF s = {} THEN Blank ELSE Step(h[s \ {Max(s)}], format[Max(s)])
      <3>1. k \in s => s \ {k} \in SUBSET (1 .. k - 1)
        BY <1>1
      <3>2. k \notin s => s \in SUBSET (1 .. k - 1)
        BY <1>1
      <3>3. CASE s = {}
        BY <2>2, <3>2, <3>3
      <3>4. CASE k \in s
        <4>1. Max(s) = k
          <5>1. k \in Nat /\ s # {}
            BY <3>4
          <5>2. Max(s) \in s /\ k <= Max(s)
            BY <3>4, <5>1, MaxIs
          <5>3. Max(s) \in 1 .. k
            BY <5>2
          <5> QED
            BY <5>1, <5>2, <5>3
        <4>2. s \ {k} \in SUBSET (1 .. k) /\ k \notin s \ {k}
          OBVIOUS
        <4>3. h[s \ {k}] = g[s \ {k}]
          BY <4>2
        <4> QED
          BY <3>4, <4>1, <4>3
      <3>5. CASE s # {} /\ k \notin s
        <4>1. s \ {Max(s)} \in SUBSET (1 .. k) /\ k \notin s \ {Max(s)}
          BY <3>5
        <4>2. h[s] = g[s] /\ h[s \ {Max(s)}] = g[s \ {Max(s)}]
          BY <3>5, <4>1
        <4> HIDE DEF h
        <4> QED
          BY <2>2, <3>2, <3>5, <4>2
      <3> QED
        BY <3>3, <3>4, <3>5
    <2>4. h = [s \in SUBSET (1 .. k) |-> h[s]]
      OBVIOUS
    <2> HIDE DEF h
    <2>5. Solves(h, k)
      BY <2>3, <2>4
    <2> HIDE DEF Solves
    <2> QED
      BY <2>5
  <1>5. n \in P
    <2> HIDE DEF P
    <2> QED
      BY <1>1, <1>3, <1>4, Climb
  <1>6. Solves(c, n)
    <2> HIDE DEF Solves
    <2> QED
      BY <1>5
  <1> HIDE DEF c
  <1>7. f[0] = Blank /\ \A k \in 1 .. n : f[k] = Step(f[k - 1], format[k])
    <2>1. \A s \in SUBSET (1 .. n) :
              c[s] = IF s = {} THEN Blank ELSE Step(c[s \ {Max(s)}], format[Max(s)])
      BY <1>6
    <2>2. f[0] = Blank
      <3>1. 0 \in 0 .. n /\ 1 .. 0 = {}
        BY <1>1
      <3>2. c[{}] = Blank
        BY <2>1
      <3> QED
        BY <3>1, <3>2
    <2>3. ASSUME NEW k \in 1 .. n PROVE f[k] = Step(f[k - 1], format[k])
      <3>1. /\ k - 1 \in 0 .. n /\ k \in 0 .. n
            /\ 1 .. k \in SUBSET (1 .. n) /\ 1 .. k # {}
            /\ Max(1 .. k) = k /\ (1 .. k) \ {k} = 1 .. k - 1
        BY <1>1, FirstPositions
      <3>2. c[1 .. k] = Step(c[1 .. k - 1], format[k])
        BY <2>1, <3>1
      <3>3. \A i \in 0 .. n : f[i] = c[1 .. i]
        OBVIOUS
      <3> HIDE DEF f
      <3> QED
        BY <3>1, <3>2, <3>3
    <2> QED
      BY <2>2, <2>3
  <1>8. printf(format, args) = f[n].out
    <2>1. f[n] = c[1 .. n]
      BY <1>1
    <2> QED
      BY <1>2, <2>1
  <1> HIDE DEF f
  <1>9. PrintRun(f, format, args)
    BY <1>7, <1>8 DEF PrintRun, Step, n
  <1> QED
    BY <1>9

\* The states of printf, and what the characters do to them.
Outside(o, n) == [out |-> o, next |-> n, spec |-> FALSE, alternate |-> FALSE]
Inside(o, n) == [out |-> o, next |-> n, spec |-> TRUE, alternate |-> FALSE]
InsideSharp(o, n) == [out |-> o, next |-> n, spec |-> TRUE, alternate |-> TRUE]

\* %c and %#x.
Plain(c, v) == Conversion(c, FALSE, v)
SharpDigits(v) == Conversion("x", TRUE, v)

LEMMA CharacterPlain ==
    ASSUME NEW o, NEW n, NEW args
    PROVE  Printing(Outside(o, n), "<", args) = Outside(Append(o, "<"), n)
  BY DEF Printing, Outside

LEMMA CharacterOpens ==
    ASSUME NEW o, NEW n, NEW args
    PROVE  Printing(Outside(o, n), "%", args) = Inside(o, n)
  BY DEF Printing, Inside, Outside

LEMMA CharacterSharp ==
    ASSUME NEW o, NEW n, NEW args
    PROVE  Printing(Inside(o, n), "#", args) = InsideSharp(o, n)
  BY DEF Printing, Inside, InsideSharp

LEMMA CharacterPercent ==
    ASSUME NEW o, NEW n, NEW args
    PROVE  Printing(Inside(o, n), "%", args) = Outside(Append(o, "%"), n)
  BY DEF Printing, Inside, Outside

LEMMA CharacterConverts ==
    ASSUME NEW o, NEW n, NEW args, NEW c \in {"u", "x", "d"}
    PROVE  Printing(Inside(o, n), c, args) = Outside(o \o Plain(c, args[n]), n + 1)
  BY DEF Printing, Inside, Outside, Plain

LEMMA CharacterConvertsSharp ==
    ASSUME NEW o, NEW n, NEW args
    PROVE  Printing(InsideSharp(o, n), "x", args)
               = Outside(o \o SharpDigits(args[n]), n + 1)
  BY DEF Printing, InsideSharp, Outside, SharpDigits

\* "%c" prints the conversion alone.
LEMMA PrintsOne ==
    ASSUME NEW v, NEW c \in {"u", "x", "d"}, NEW S, Plain(c, v) \in Seq(S)
    PROVE  printf(<<"%", c>>, <<v>>) = Plain(c, v)
  <1> DEFINE format == <<"%", c>>
             args == <<v>>
             x == Plain(c, v)
  <1>1. /\ format \in Seq({"%", "u", "x", "d"}) /\ Len(format) = 2
        /\ format[1] = "%" /\ format[2] = c /\ args[1] = v
    OBVIOUS
  <1> HIDE DEF format, args
  <1>2. PICK f : PrintRun(f, format, args)
    BY <1>1, PrintRuns
  <1>3. f[0] = Blank /\ f[1] = Printing(f[0], "%", args) /\ f[2] = Printing(f[1], c, args)
        /\ printf(format, args) = f[2].out
    <2>1. 1 \in 1 .. 2 /\ 2 \in 1 .. 2 /\ 1 - 1 = 0 /\ 2 - 1 = 1
      OBVIOUS
    <2>2. /\ f[0] = Blank
          /\ \A k \in 1 .. 2 : f[k] = Printing(f[k - 1], format[k], args)
          /\ printf(format, args) = f[2].out
      BY <1>1, <1>2 DEF PrintRun
    <2> QED
      BY <1>1, <2>1, <2>2
  <1>4. f[1] = Inside(<<>>, 1)
    <2>1. f[0] = Outside(<<>>, 1)
      BY <1>3 DEF Blank, Outside
    <2> QED
      BY <1>3, <2>1, CharacterOpens
  <1>5. f[2].out = <<>> \o x
    <2>1. f[2] = Outside(<<>> \o x, 1 + 1)
      <3>1. f[2] = Outside(<<>> \o Plain(c, args[1]), 1 + 1)
        <4>1. Printing(Inside(<<>>, 1), c, args) = Outside(<<>> \o Plain(c, args[1]), 1 + 1)
          BY ONLY c \in {"u", "x", "d"}, CharacterConverts
        <4> QED
          BY <1>3, <1>4, <4>1
      <3> QED
        BY <1>1, <3>1
    <2> QED
      BY <2>1 DEF Outside
  <1>6. <<>> \o x = x
    <2> HIDE DEF x
    <2>1. x \in Seq(S)
      BY DEF x
    <2> QED
      BY <2>1, ConcatEmptySeq
  <1> QED
    BY <1>3, <1>5, <1>6 DEF format, args

\* "<%#x%%" prints the digits between its first and its last character.
LEMMA PrintsSharp ==
    ASSUME NEW v, NEW S, SharpDigits(v) \in Seq(S)
    PROVE  printf(<<"<", "%", "#", "x", "%", "%">>, <<v>>)
               = Append(<<"<">> \o SharpDigits(v), "%")
  <1> DEFINE format == <<"<", "%", "#", "x", "%", "%">>
             args == <<v>>
             x == SharpDigits(v)
  <1>1. /\ format \in Seq({"<", "%", "#", "x"}) /\ Len(format) = 6
        /\ format[1] = "<" /\ format[2] = "%" /\ format[3] = "#"
        /\ format[4] = "x" /\ format[5] = "%" /\ format[6] = "%"
        /\ args[1] = v
    OBVIOUS
  <1> HIDE DEF format, args
  <1>2. PICK f : PrintRun(f, format, args)
    BY <1>1, PrintRuns
  <1>3. /\ f[0] = Blank
        /\ f[1] = Printing(f[0], "<", args) /\ f[2] = Printing(f[1], "%", args)
        /\ f[3] = Printing(f[2], "#", args) /\ f[4] = Printing(f[3], "x", args)
        /\ f[5] = Printing(f[4], "%", args) /\ f[6] = Printing(f[5], "%", args)
        /\ printf(format, args) = f[6].out
    <2>1. /\ 1 \in 1 .. 6 /\ 2 \in 1 .. 6 /\ 3 \in 1 .. 6
          /\ 4 \in 1 .. 6 /\ 5 \in 1 .. 6 /\ 6 \in 1 .. 6
          /\ 1 - 1 = 0 /\ 2 - 1 = 1 /\ 3 - 1 = 2 /\ 4 - 1 = 3 /\ 5 - 1 = 4 /\ 6 - 1 = 5
      OBVIOUS
    <2>2. /\ f[0] = Blank
          /\ \A k \in 1 .. 6 : f[k] = Printing(f[k - 1], format[k], args)
          /\ printf(format, args) = f[6].out
      BY <1>1, <1>2 DEF PrintRun
    <2> QED
      BY <1>1, <2>1, <2>2
  <1>4. f[1] = Outside(<<"<">>, 1)
    <2>1. f[0] = Outside(<<>>, 1)
      BY <1>3 DEF Blank, Outside
    <2>2. Append(<<>>, "<") = <<"<">>
      OBVIOUS
    <2>3. f[1] = Printing(Outside(<<>>, 1), "<", args)
      BY <1>3, <2>1
    <2>4. Printing(Outside(<<>>, 1), "<", args) = Outside(Append(<<>>, "<"), 1)
      BY CharacterPlain
    <2> QED
      BY <2>2, <2>3, <2>4
  <1>5. f[2] = Inside(<<"<">>, 1)
    BY <1>3, <1>4, CharacterOpens
  <1>6. f[3] = InsideSharp(<<"<">>, 1)
    BY <1>3, <1>5, CharacterSharp
  <1>7. f[4] = Outside(<<"<">> \o x, 2)
    <2>1. 1 + 1 = 2
      OBVIOUS
    <2>2. f[4] = Outside(<<"<">> \o SharpDigits(args[1]), 1 + 1)
      BY <1>3, <1>6, CharacterConvertsSharp
    <2> QED
      BY <1>1, <2>1, <2>2
  <1> HIDE DEF x
  <1>8. f[5] = Inside(<<"<">> \o x, 2)
    BY <1>3, <1>7, CharacterOpens
  <1>9. f[6].out = Append(<<"<">> \o x, "%")
    <2>1. f[6] = Outside(Append(<<"<">> \o x, "%"), 2)
      BY <1>3, <1>8, CharacterPercent
    <2> QED
      BY <2>1 DEF Outside
  <1> QED
    BY <1>3, <1>9 DEF format, args, x

\* What is between the first and the last.
LEMMA Between ==
    ASSUME NEW S, NEW a \in S, NEW b \in S, NEW x \in Seq(S)
    PROVE  LET s == Append(<<a>> \o x, b) IN
           Len(s) = Len(x) + 2 /\ SubSeq(s, 2, Len(x) + 1) = x
  <1> DEFINE y == <<a>> \o x
             s == Append(y, b)
             n == Len(x)
             t == SubSeq(s, 2, n + 1)
  <1>1. n \in Nat /\ <<a>> \in Seq(S) /\ Len(<<a>>) = 1
    OBVIOUS
  <1>2. y \in Seq(S) /\ Len(y) = n + 1 /\ \A i \in 1 .. n : y[i + 1] = x[i]
    <2>1. /\ y \in Seq(S) /\ Len(y) = 1 + n
          /\ \A i \in 1 .. 1 + n : y[i] = IF i <= 1 THEN <<a>>[i] ELSE x[i - 1]
      BY <1>1, ConcatProperties
    <2>2. \A i \in 1 .. n : i + 1 \in 1 .. 1 + n /\ ~(i + 1 <= 1) /\ i + 1 - 1 = i
      BY <1>1
    <2> HIDE DEF y, n
    <2> QED
      BY <1>1, <2>1, <2>2
  <1> HIDE DEF y
  <1>3. s \in Seq(S) /\ Len(s) = n + 2 /\ \A i \in 1 .. n + 1 : s[i] = y[i]
    <2>1. /\ s \in Seq(S) /\ Len(s) = Len(y) + 1
          /\ \A i \in 1 .. Len(y) : s[i] = y[i]
      BY <1>2, AppendProperties
    <2> HIDE DEF s, n
    <2> QED
      BY <1>1, <1>2, <2>1
  <1> HIDE DEF s
  <1>4. t \in Seq(S) /\ Len(t) = n /\ \A i \in 1 .. n : t[i] = s[i + 1]
    <2> HIDE DEF n
    <2> DEFINE e == n + 1
    <2>1. e \in Int /\ \A i \in 2 .. e : s[i] \in S
      BY <1>1, <1>3
    <2>2. /\ t \in Seq(S) /\ Len(t) = IF 2 <= e THEN e - 2 + 1 ELSE 0
          /\ \A i \in 1 .. e - 2 + 1 : t[i] = s[2 + i - 1]
      <3>1. t = SubSeq(s, 2, e)
        OBVIOUS
      <3> HIDE DEF e, t
      <3>2. /\ SubSeq(s, 2, e) \in Seq(S)
            /\ Len(SubSeq(s, 2, e)) = IF 2 <= e THEN e - 2 + 1 ELSE 0
            /\ \A i \in 1 .. e - 2 + 1 : SubSeq(s, 2, e)[i] = s[2 + i - 1]
        BY ONLY <2>1, SubSeqProperties
      <3> QED
        BY <3>1, <3>2
    <2>3. /\ e - 2 + 1 = n /\ (~(2 <= e) => n = 0)
          /\ \A i \in 1 .. n : 2 + i - 1 = i + 1
      BY <1>1
    <2> HIDE DEF e
    <2> HIDE DEF t
    <2> QED
      BY <1>1, <2>2, <2>3
  <1> HIDE DEF t
  <1>5. \A i \in 1 .. n : t[i] = x[i]
    <2>1. \A i \in 1 .. n : i + 1 \in 1 .. n + 1
      BY <1>1
    <2> HIDE DEF n
    <2> QED
      BY <1>2, <1>3, <1>4, <2>1
  <1>6. t = x
    BY <1>4, <1>5, SeqEqual
  <1> QED
    BY <1>3, <1>6 DEF s, t, y

\* The digits of %#x.
LEMMA EightHex ==
    ASSUME NEW v \in 0 .. WORD - 1
    PROVE  LET x == SharpDigits(v) IN
           /\ x \in Seq(Digits) /\ Len(x) = 8 /\ Value(x, 16) = v
  <1> DEFINE hex == itoa(v, 16)
  <1>1. /\ hex \in Seq(Digits) /\ Value(hex, 16) = v /\ Len(hex) \in 1 .. 8
    BY ItoaReads, LibraryAssumption DEF Reads
  <1>2. PICK z \in Nat : z = 8 - Len(hex) /\ z + Len(hex) = 8
    <2>1. \A l \in 1 .. 8 : \E z \in Nat : z = 8 - l /\ z + l = 8
      <3> TAKE l \in 1 .. 8
      <3>1. 8 - l \in Nat /\ 8 - l + l = 8
        OBVIOUS
      <3> QED
        BY <3>1
    <2> HIDE DEF hex
    <2> QED
      BY <1>1, <2>1
  <1>3. SharpDigits(v) = [i \in 1 .. z |-> "0"] \o hex
    BY <1>2 DEF Conversion, SharpDigits
  <1> HIDE DEF hex
  <1>4. LET t == [i \in 1 .. z |-> "0"] \o hex IN
        t \in Seq(Digits) /\ Len(t) = z + Len(hex) /\ Value(t, 16) = Value(hex, 16)
    BY <1>1, <1>2, ValueZeros
  <1> QED
    BY <1>1, <1>2, <1>3, <1>4

\* What printf prints reads back as its argument: for every word, in every
\* conversion of numbers, with no digit too many, a minus sign exactly for the
\* upper half of the words, and eight digits for %#x (lib.c:84-298).
THEOREM NumbersAlwaysPrinted == CallsSpec => []NumbersPrinted
  <1>1. CallTypes => NumbersPrinted
    <2> SUFFICES ASSUME CallTypes, call.of = "print" PROVE NumbersPrinted
      BY DEF NumbersPrinted
    <2> DEFINE v == call.v
               out(c) == printf(<<"%", c>>, <<v>>)
               sharp == printf(<<"<", "%", "#", "x", "%", "%">>, <<v>>)
               Shortest(digits) == Len(digits) > 1 => Head(digits) # "0"
               signed == out("d")
    <2>1. v \in 0 .. WORD - 1 /\ v \in Nat
      <3>1. call \in Prints
        BY DEF CallTypes, KernelCalls, NoCall, Copies, CommandLines, Codes
      <3> QED
        BY <3>1, LibraryAssumption DEF Prints
    <2> HIDE DEF v
    <2>2. Reads(itoa(v, 10), v, 10) /\ Reads(itoa(v, 16), v, 16)
      BY <2>1, ItoaReads
    <2>3. out("u") = itoa(v, 10)
      <3>1. Plain("u", v) = itoa(v, 10)
        BY DEF Conversion, Plain
      <3> QED
        BY <2>2, <3>1, PrintsOne DEF Reads
    <2>4. out("x") = itoa(v, 16)
      <3>1. Plain("x", v) = itoa(v, 16)
        BY DEF Conversion, Plain
      <3> QED
        BY <2>2, <3>1, PrintsOne DEF Reads
    <2>5. v < WORD \div 2 => signed = out("u")
      <3> SUFFICES ASSUME v < WORD \div 2 PROVE signed = out("u")
        OBVIOUS
      <3>1. Plain("d", v) = itoa(v, 10)
        <4>1. ~Negative(v)
          BY <2>1, LibraryAssumption DEF Negative
        <4> QED
          BY <4>1 DEF Conversion, Plain
      <3> QED
        BY <2>2, <2>3, <3>1, PrintsOne DEF Reads
    <2>6. ~(v < WORD \div 2) => /\ Head(signed) = "-" /\ Shortest(Tail(signed))
                                /\ Value(Tail(signed), 10) = WORD - v
      <3> SUFFICES ASSUME ~(v < WORD \div 2)
                   PROVE  /\ Head(signed) = "-" /\ Shortest(Tail(signed))
                          /\ Value(Tail(signed), 10) = WORD - v
        OBVIOUS
      <3>1. Negative(v) /\ Magnitude(v) = WORD - v /\ WORD - v \in Nat
        <4>1. WORD \div 2 \in Nat \ {0} /\ WORD \in Nat
          BY LibraryAssumption
        <4>2. v >= WORD \div 2 /\ v # 0
          BY <2>1, <4>1
        <4>3. WORD - v \in 0 .. WORD - 1
          BY <2>1, <4>1, <4>2
        <4>4. (WORD - v) % WORD = WORD - v
          BY <4>1, <4>3, Z3
        <4> QED
          BY <4>2, <4>3, <4>4 DEF Negative, Magnitude
      <3> DEFINE m == itoa(WORD - v, 10)
      <3>2. Plain("d", v) = <<"-">> \o m
        BY <3>1 DEF Conversion, Plain
      <3>3. Reads(m, WORD - v, 10)
        BY <3>1, ItoaReads
      <3> HIDE DEF m
      <3> DEFINE Chars == Digits \cup {"-"}
      <3>4. m \in Seq(Chars) /\ <<"-">> \in Seq(Chars)
        BY <3>3 DEF Reads
      <3>5. <<"-">> \o m \in Seq(Chars)
        BY <3>4, ConcatProperties
      <3>6. signed = <<"-">> \o m
        <4> HIDE DEF Chars
        <4>1. "d" \in {"u", "x", "d"} /\ Plain("d", v) \in Seq(Chars)
          BY <3>2, <3>5
        <4> QED
          BY <3>2, <4>1, PrintsOne
      <3>7. Head(<<"-">> \o m) = "-" /\ Tail(<<"-">> \o m) = m
        BY <3>4
      <3> QED
        BY <3>3, <3>6, <3>7 DEF Reads
    <2>7. Len(sharp) = 10 /\ Value(SubSeq(sharp, 2, 9), 16) = v
      <3> DEFINE x == SharpDigits(v)
                 Chars == Digits \cup {"<", "%"}
      <3>1. x \in Seq(Digits) /\ Len(x) = 8 /\ Value(x, 16) = v
        BY <2>1, EightHex
      <3>2. sharp = Append(<<"<">> \o x, "%")
        BY <3>1, PrintsSharp
      <3> HIDE DEF x, sharp
      <3>3. x \in Seq(Chars) /\ "<" \in Chars /\ "%" \in Chars
        BY <3>1
      <3> HIDE DEF Chars
      <3>4. Len(sharp) = Len(x) + 2 /\ SubSeq(sharp, 2, Len(x) + 1) = x
        BY <3>2, <3>3, Between
      <3>5. 8 + 2 = 10 /\ 8 + 1 = 9
        OBVIOUS
      <3> QED
        BY <3>1, <3>4, <3>5
    <2>8. /\ Value(out("u"), 10) = v /\ Shortest(out("u"))
          /\ Value(out("x"), 16) = v /\ Shortest(out("x"))
      BY <2>2, <2>3, <2>4 DEF Reads
    <2> QED
      BY <2>5, <2>6, <2>7, <2>8 DEF NumbersPrinted, v
  <1> QED
    BY <1>1, CallsStay, PTL

(***************************************************************************)
(* The directory.                                                          *)
(***************************************************************************)

\* A string ends before its first NUL.
LEMMA StrlenIs ==
    ASSUME NEW S, NEW s \in Seq(S), NEW n \in 0 .. Len(s),
           \A i \in 1 .. n : s[i] # NUL,
           n < Len(s) => s[n + 1] = NUL
    PROVE  strlen(s) = n
  <1> DEFINE stops == {i \in DOMAIN s : s[i] = NUL}
  <1>1. DOMAIN s = 1 .. Len(s) /\ Len(s) \in Nat /\ n \in Nat /\ n <= Len(s)
    OBVIOUS
  <1>2. \A i \in stops : i \in Nat /\ i >= n + 1
    <2> TAKE i \in stops
    <2>1. i \in 1 .. Len(s) /\ i \notin 1 .. n
      BY <1>1
    <2> QED
      BY <1>1, <2>1
  <1>3. CASE n = Len(s)
    <2>1. stops = {}
      BY <1>1, <1>2, <1>3
    <2> QED
      BY <1>3, <2>1 DEF strlen
  <1>4. CASE n < Len(s)
    <2>1. n + 1 \in stops
      BY <1>1, <1>4
    <2> DEFINE m == Min(stops)
    <2>2. m \in stops /\ \A i \in stops : m <= i
      <3> HIDE DEF stops
      <3> QED
        BY <1>2, <2>1 DEF Min
    <2>3. m = n + 1
      <3> HIDE DEF stops, m
      <3> QED
        BY <1>1, <1>2, <2>1, <2>2
    <2>4. stops # {}
      BY <2>1
    <2>5. strlen(s) = m - 1
      BY <2>4 DEF strlen
    <2> HIDE DEF m
    <2> QED
      BY <1>1, <2>3, <2>5
  <1>5. n = Len(s) \/ n < Len(s)
    <2>1. \A x, y \in Nat : x <= y => x = y \/ x < y
      OBVIOUS
    <2> QED
      BY <1>1, <2>1
  <1> QED
    BY <1>3, <1>4, <1>5

\* What the image says of an entry.
LEMMA EntryIs ==
    ASSUME NEW i \in DOMAIN dentry_addr
    PROVE  /\ i \in 1 .. dentry_num /\ dentry_num \in Nat
           /\ dentry_addr[i].filename \in Seq(Letter)
           /\ Len(dentry_addr[i].filename) \in Nat
           /\ Len(dentry_addr[i].filename) <= NAME_LEN
           /\ FileInode(dentry_addr[i].inode_num)
           /\ \A j \in DOMAIN dentry_addr :
                  dentry_addr[j].filename = dentry_addr[i].filename => i = j
  <1> DEFINE E == [filename : Seq(Letter), filetype : {RTC_TYPE, DIR_TYPE, FILE_TYPE},
                   inode_num : DOMAIN inode]
  <1>1. dentry_addr \in Seq(E)
    BY ImageAssumption
  <1> HIDE DEF E
  <1>2. i \in 1 .. dentry_num /\ dentry_num \in Nat /\ dentry_addr[i] \in E
    BY <1>1 DEF dentry_num
  <1>3. dentry_addr[i].filename \in Seq(Letter) /\ dentry_addr[i].inode_num \in DOMAIN inode
    BY <1>2 DEF E
  <1>4. Len(dentry_addr[i].filename) \in Nat
    BY <1>3
  <1>5. \A k \in DOMAIN dentry_addr :
            /\ Len(dentry_addr[k].filename) <= NAME_LEN
            /\ \A j \in DOMAIN dentry_addr :
                   dentry_addr[j].filename = dentry_addr[k].filename => k = j
            /\ inode[dentry_addr[k].inode_num].length \in Nat
            /\ inode[dentry_addr[k].inode_num].data_block_num \in Seq(DOMAIN data_block)
            /\ inode[dentry_addr[k].inode_num].length <=
                   BLOCK_SIZE * Len(inode[dentry_addr[k].inode_num].data_block_num)
    BY ONLY ImageAssumption
  <1> QED
    BY ONLY <1>2, <1>3, <1>4, <1>5, i \in DOMAIN dentry_addr DEF FileInode

\* An entry's bytes: its name, then something that is no letter.
LEMMA EntryBytesAre ==
    ASSUME NEW i \in DOMAIN dentry_addr
    PROVE  LET name == dentry_addr[i].filename
               bytes == EntryBytes(i)
           IN  /\ name \in Seq(Letter)
               /\ \A k \in 1 .. Len(name) : bytes[k] = name[k]
               /\ bytes[Len(name) + 1] \notin Letter
               /\ Smaller(strlen(bytes), NAME_LEN) = Len(name)
  <1> DEFINE name == dentry_addr[i].filename
             m == Len(name)
             type == IF dentry_addr[i].filetype = RTC_TYPE THEN NUL ELSE "control"
             front == [k \in 1 .. NAME_LEN |-> IF k <= m THEN name[k] ELSE NUL]
             bytes == front \o <<type>>
             S == Letter \cup {NUL, type}
  <1>1. name \in Seq(Letter) /\ m \in Nat /\ m <= NAME_LEN /\ NAME_LEN \in Nat
    BY EntryIs, CommandAssumption
  <1>2. EntryBytes(i) = bytes
    <2>1. i \in 1 .. dentry_num /\ dentry_num \in Nat
      BY EntryIs
    <2>2. ~(i > dentry_num)
      BY <2>1
    <2> QED
      BY <2>2 DEF EntryBytes
  <1>3. NUL \notin Letter /\ type \notin Letter
    BY ImageAssumption
  <1> HIDE DEF type
  <1>4. front \in Seq(S) /\ Len(front) = NAME_LEN
    <2>1. \A k \in 1 .. NAME_LEN : front[k] \in S
      BY <1>1
    <2>2. front \in [1 .. NAME_LEN -> S]
      BY <2>1
    <2> HIDE DEF front, S
    <2>3. front \in Seq(S)
      BY <1>1, <2>2, SeqDef
    <2> QED
      BY <1>1, <2>2, <2>3, LenProperties
  <1>5. \A k \in 1 .. NAME_LEN : front[k] = IF k <= m THEN name[k] ELSE NUL
    OBVIOUS
  <1> HIDE DEF front
  <1>6. /\ bytes \in Seq(S) /\ Len(bytes) = NAME_LEN + 1
        /\ \A k \in 1 .. NAME_LEN : bytes[k] = front[k]
        /\ bytes[NAME_LEN + 1] = type
    <2>1. type \in S
      OBVIOUS
    <2> HIDE DEF S
    <2> QED
      BY <1>1, <1>4, <2>1
  <1> HIDE DEF bytes, S
  <1> HIDE DEF name
  <1>7. \A k \in 1 .. m : k \in 1 .. NAME_LEN /\ bytes[k] = name[k] /\ name[k] \in Letter
    BY <1>1, <1>5, <1>6
  <1> HIDE DEF m
  <1>9. \A k \in 1 .. m : bytes[k] # NUL
    BY <1>3, <1>7
  <1>8. bytes[m + 1] \notin Letter /\ Smaller(strlen(bytes), NAME_LEN) = m
    <2>1. CASE m < NAME_LEN
      <3>1. bytes[m + 1] = NUL
        BY <1>1, <1>5, <1>6, <2>1
      <3>2. strlen(bytes) = m
        <4>1. m \in 0 .. Len(bytes)
          BY <1>1, <1>6
        <4> QED
          BY <1>6, <1>9, <3>1, <4>1, StrlenIs
      <3> QED
        BY <1>1, <1>3, <2>1, <3>1, <3>2 DEF Smaller
    <2>2. CASE m = NAME_LEN /\ type = NUL
      <3>1. strlen(bytes) = m
        <4>1. m \in 0 .. Len(bytes) /\ bytes[m + 1] = NUL
          BY <1>1, <1>6, <2>2
        <4> QED
          BY <1>6, <1>9, <4>1, StrlenIs
      <3> QED
        BY <1>1, <1>3, <1>6, <2>2, <3>1 DEF Smaller
    <2>3. CASE m = NAME_LEN /\ type # NUL
      <3>1. strlen(bytes) = m + 1
        <4> DEFINE l == m + 1
        <4>1. l \in 0 .. Len(bytes) /\ ~(l < Len(bytes))
          BY <1>1, <1>6, <2>3
        <4>2. \A k \in 1 .. l : bytes[k] # NUL
          <5>1. \A k \in 1 .. l : k = NAME_LEN + 1 \/ k \in 1 .. m
            BY <1>1, <2>3
          <5> QED
            BY <1>6, <1>9, <2>3, <5>1
        <4> HIDE DEF l
        <4>3. strlen(bytes) = l
          BY <1>6, <4>1, <4>2, StrlenIs
        <4> QED
          BY <4>3 DEF l
      <3> QED
        BY <1>1, <1>3, <1>6, <2>3, <3>1 DEF Smaller
    <2> QED
      BY <1>1, <2>1, <2>2, <2>3
  <1> QED
    BY <1>1, <1>2, <1>7, <1>8 DEF name, m

\* A program's file is found exactly under its own name, whether or not the
\* name fills its entry.
LEMMA NamesMatch ==
    ASSUME NEW fname \in Seq(Letter), NEW i \in DOMAIN dentry_addr
    PROVE  NameMatches(fname, i) <=> fname = dentry_addr[i].filename
  <1> DEFINE name == dentry_addr[i].filename
             bytes == EntryBytes(i)
             wanted == Append(fname, NUL)
             n == Len(fname)
             m == Len(name)
             len == LongerLen(m, n)
  <1>1. /\ name \in Seq(Letter) /\ bytes[m + 1] \notin Letter
        /\ \A k \in 1 .. m : bytes[k] = name[k]
        /\ Smaller(strlen(bytes), NAME_LEN) = m
    BY EntryBytesAre
  <1>2. NUL \notin Letter
    BY ImageAssumption
  <1>3. /\ n \in Nat /\ wanted[n + 1] = NUL
        /\ \A k \in 1 .. n : wanted[k] = fname[k] /\ fname[k] \in Letter
    <2>1. n \in Nat /\ \A k \in 1 .. n : fname[k] \in Letter
      OBVIOUS
    <2>2. wanted \in Seq(Letter \cup {NUL}) /\ wanted[n + 1] = NUL
      OBVIOUS
    <2>3. \A k \in 1 .. n : wanted[k] = fname[k]
      OBVIOUS
    <2> QED
      BY <2>1, <2>2, <2>3
  <1>4. m \in Nat /\ \A k \in 1 .. m : name[k] \in Letter
    BY <1>1
  <1>5. NameMatches(fname, i) <=> SameString(wanted, bytes, len)
    BY <1>1 DEF NameMatches
  <1>6. fname = name <=> n = m /\ \A k \in 1 .. n : fname[k] = name[k]
    BY <1>1
  <1>7. len \in Nat /\ n <= len /\ m <= len /\ (len = n \/ len = m)
    BY <1>3, <1>4 DEF LongerLen
  <1> HIDE DEF bytes, wanted, len, n, m, name
  <1>8. ASSUME fname = name PROVE SameString(wanted, bytes, len)
    <2>1. \A k \in 1 .. len : wanted[k] = bytes[k]
      BY <1>1, <1>3, <1>6, <1>7, <1>8
    <2> QED
      BY <2>1 DEF SameString
  <1>9. ASSUME SameString(wanted, bytes, len) PROVE fname = name
    <2> DEFINE T == {k \in 1 .. len : wanted[k] # bytes[k]}
    <2> SUFFICES ASSUME fname # name PROVE FALSE
      OBVIOUS
    <2>1. \E k \in T : k <= n + 1 /\ k <= m + 1
      <3>1. CASE n < m
        <4>1. n + 1 \in 1 .. m /\ n + 1 \in 1 .. len
          BY <1>3, <1>4, <1>7, <3>1
        <4>2. wanted[n + 1] # bytes[n + 1]
          BY <1>1, <1>2, <1>3, <1>4, <4>1
        <4> QED
          BY <1>3, <1>4, <3>1, <4>1, <4>2
      <3>2. CASE m < n
        <4>1. m + 1 \in 1 .. n /\ m + 1 \in 1 .. len
          BY <1>3, <1>4, <1>7, <3>2
        <4>2. wanted[m + 1] # bytes[m + 1]
          BY <1>1, <1>3, <4>1
        <4> QED
          BY <1>3, <1>4, <3>2, <4>1, <4>2
      <3>3. CASE n = m
        <4>1. PICK k \in 1 .. n : fname[k] # name[k]
          BY <1>6, <3>3
        <4>2. k \in 1 .. len /\ k \in 1 .. m /\ k <= n + 1
          BY <1>3, <1>7, <3>3
        <4>3. wanted[k] # bytes[k]
          BY <1>1, <1>3, <4>1, <4>2
        <4> QED
          BY <3>3, <4>2, <4>3
      <3> QED
        BY <1>3, <1>4, <3>1, <3>2, <3>3
    <2>2. T \subseteq Nat /\ T # {}
      BY <2>1
    <2>3. PICK x \in T : \A y \in T : x <= y
      <3> HIDE DEF T
      <3> QED
        BY <2>2, Minimum
    <2>4. x \in 1 .. len /\ x <= n + 1
      <3>1. PICK k \in T : k <= n + 1
        BY <2>1
      <3>2. x \in 1 .. len /\ x <= k /\ k \in 1 .. len
        BY <2>3, <3>1
      <3> QED
        BY <1>3, <1>7, <3>1, <3>2
    <2>5. \A j \in 1 .. x - 1 : wanted[j] = bytes[j] /\ wanted[j] # NUL
      <3> TAKE j \in 1 .. x - 1
      <3>1. j \in 1 .. len /\ j \in 1 .. n /\ ~(x <= j)
        BY <1>3, <1>7, <2>4
      <3>2. j \notin T
        BY <2>3, <3>1
      <3> QED
        BY <1>2, <1>3, <3>1, <3>2
    <2>6. wanted[x] = bytes[x]
      BY <1>9, <2>4, <2>5 DEF SameString
    <2> QED
      BY <2>3, <2>6
  <1> QED
    BY <1>5, <1>8, <1>9 DEF name

LEMMA DentryFound ==
    ASSUME NEW fname \in Seq(Letter)
    PROVE  read_dentry_by_name(fname)
               = {i \in DOMAIN dentry_addr : dentry_addr[i].filename = fname}
  <1>1. /\ DOMAIN dentry_addr = 1 .. dentry_num /\ dentry_num \in Nat
        /\ INODE_NUM \in Nat /\ dentry_num <= INODE_NUM
    BY ImageAssumption, CommandAssumption DEF dentry_num
  <1>2. ASSUME NEW i \in read_dentry_by_name(fname)
        PROVE  i \in DOMAIN dentry_addr /\ dentry_addr[i].filename = fname
    <2>1. i \in 1 .. INODE_NUM /\ NameMatches(fname, i) /\ i <= dentry_num
      BY DEF read_dentry_by_name
    <2>2. i \in DOMAIN dentry_addr
      BY <1>1, <2>1
    <2> QED
      BY <2>1, <2>2, NamesMatch
  <1>3. ASSUME NEW i \in DOMAIN dentry_addr, dentry_addr[i].filename = fname
        PROVE  i \in read_dentry_by_name(fname)
    <2>1. NameMatches(fname, i) /\ i \in 1 .. INODE_NUM /\ i <= dentry_num
      <3>1. i \in 1 .. INODE_NUM /\ i <= dentry_num
        BY <1>1
      <3> QED
        BY <1>3, <3>1, NamesMatch
    <2>2. ASSUME NEW j \in 1 .. i - 1 PROVE ~NameMatches(fname, j)
      <3>1. j \in DOMAIN dentry_addr /\ j # i
        BY <1>1
      <3>2. dentry_addr[j].filename # dentry_addr[i].filename
        BY <3>1, EntryIs
      <3> QED
        BY <1>3, <3>1, <3>2, NamesMatch
    <2> QED
      BY <2>1, <2>2 DEF read_dentry_by_name
  <1> QED
    BY <1>2, <1>3

-----------------------------------------------------------------------------
(***************************************************************************)
(* Executables.                                                            *)
(***************************************************************************)
LEMMA ElfIs ==
    /\ ELF \in Seq(Byte) /\ DOMAIN ELF = 1 .. 4 /\ Len(ELF) = 4
    /\ \A stack \in Stacks : stack[4] # ELF[4]
  <1>1. ELF \in Seq(Byte) /\ Len(ELF) = 4 /\ \A stack \in Stacks : stack[4] # ELF[4]
    BY ONLY ImageAssumption, CommandAssumption
  <1> QED
    BY <1>1

\* The bytes of a file, one by one and in one go.
LEMMA BytesAre ==
    ASSUME NEW i, FileInode(i)
    PROVE  LET len == inode[i].length IN
           /\ len \in Nat /\ Contents(i) \in Seq(Byte) /\ Len(Contents(i)) = len
           /\ \A o \in Nat : o < len => read_data(i, o, 1)[1] = Contents(i)[o + 1]
           /\ read_data(i, 0, len) = Contents(i)
  <1> DEFINE c == Contents(i)
             len == inode[i].length
  <1>1. len \in Nat
    BY DEF FileInode
  <1>2. c \in Seq(Byte) /\ Len(c) = len /\ SubSeq(c, 1, len) = FileUpTo(i, len)
    <2>1. len \in 0 .. len
      BY <1>1
    <2> QED
      BY <2>1, ContentsIs
  <1>3. c = FileUpTo(i, len)
    <2> HIDE DEF c, len
    <2>1. SubSeq(c, 1, len) = c
      BY <1>1, <1>2
    <2> QED
      BY <1>2, <2>1
  <1>4. \A k \in 1 .. len : c[k] = FileByte(i, k - 1)
    <2> HIDE DEF c
    <2> QED
      BY <1>3 DEF FileUpTo
  <1>5. ASSUME NEW o \in Nat, o < len PROVE read_data(i, o, 1)[1] = c[o + 1]
    <2>1. 1 \in 1 .. Clipped(o, 1, len) /\ o + 1 - 1 = o
      BY <1>1, <1>5 DEF Clipped
    <2>2. read_data(i, o, 1)[1] = FileByte(i, o)
      BY <2>1 DEF read_data, FileByte
    <2>3. o + 1 \in 1 .. len
      BY <1>1, <1>5
    <2> HIDE DEF c, len
    <2> QED
      BY <1>4, <2>1, <2>2, <2>3
  <1>6. read_data(i, 0, len) = c
    <2>1. Clipped(0, len, len) = len
      BY <1>1 DEF Clipped
    <2>2. \A k \in 1 .. len : 0 + k - 1 = k - 1
      BY <1>1
    <2>3. read_data(i, 0, len) = [k \in 1 .. len |-> FileByte(i, k - 1)]
      BY <2>1, <2>2 DEF read_data, FileByte
    <2> HIDE DEF c, len
    <2> QED
      BY <1>3, <2>3 DEF FileUpTo
  <1> HIDE DEF c
  <1> QED
    BY <1>1, <1>2, <1>5, <1>6 DEF c

\* The four bytes that are compared are those of an executable only if the
\* file has them.
LEMMA ElfFound ==
    ASSUME NEW i, FileInode(i), NEW stack \in Stacks
    PROVE  LET reads == [k \in 1 .. 4 |-> OneByte(i, k - 1, stack[k])] IN
           (/\ \E k \in 1 .. 4 : reads[k].ret # -1
            /\ IsElf([k \in 1 .. 4 |-> reads[k].byte]))
               <=> IsPrefix(ELF, Contents(i))
  <1> DEFINE reads == [k \in 1 .. 4 |-> OneByte(i, k - 1, stack[k])]
             c == Contents(i)
             len == inode[i].length
  <1>1. /\ len \in Nat /\ c \in Seq(Byte) /\ Len(c) = len
        /\ \A o \in Nat : o < len => read_data(i, o, 1)[1] = c[o + 1]
    BY BytesAre
  <1>2. \A k \in 1 .. 4 : reads[k].byte = IF k - 1 < len THEN c[k] ELSE stack[k]
    <2> TAKE k \in 1 .. 4
    <2>1. k - 1 \in Nat /\ k - 1 + 1 = k
      OBVIOUS
    <2>2. reads[k].byte = IF k - 1 < len THEN read_data(i, k - 1, 1)[1] ELSE stack[k]
      BY DEF OneByte
    <2> HIDE DEF reads, c, len
    <2> QED
      BY <1>1, <2>1, <2>2
  <1>3. reads[1].ret # -1
    <2>1. reads[1].ret = IF 1 - 1 > len THEN -1 ELSE IF 1 - 1 = len THEN 0 ELSE 1
      BY DEF OneByte
    <2> HIDE DEF reads, len
    <2> QED
      BY <1>1, <2>1
  <1>4. IsPrefix(ELF, c) <=> 4 <= len /\ \A k \in 1 .. 4 : c[k] = ELF[k]
    <2>1. IsPrefix(ELF, c) <=> 4 <= len /\ SubSeq(ELF, 1, 4) = SubSeq(c, 1, 4)
      BY <1>1, ElfIs DEF IsPrefix
    <2>2. SubSeq(ELF, 1, 4) = [k \in 1 .. 4 |-> ELF[k]]
      BY ElfIs
    <2>3. 4 <= len => SubSeq(c, 1, 4) = [k \in 1 .. 4 |-> c[k]]
      <3> HIDE DEF c, len
      <3> QED
        BY <1>1
    <2> HIDE DEF c, len
    <2>4. [k \in 1 .. 4 |-> ELF[k]] = [k \in 1 .. 4 |-> c[k]]
              <=> \A k \in 1 .. 4 : c[k] = ELF[k]
      OBVIOUS
    <2> QED
      BY <2>1, <2>2, <2>3, <2>4
  <1>5. IsElf([k \in 1 .. 4 |-> reads[k].byte]) <=> \A k \in 1 .. 4 : reads[k].byte = ELF[k]
    <2> HIDE DEF reads
    <2>1. ELF = [k \in 1 .. 4 |-> ELF[k]]
      BY ElfIs
    <2> QED
      BY <2>1 DEF IsElf
  <1> HIDE DEF reads, c, len
  <1>6. (\A k \in 1 .. 4 : reads[k].byte = ELF[k])
            <=> 4 <= len /\ \A k \in 1 .. 4 : c[k] = ELF[k]
    <2>1. CASE 4 <= len
      <3>1. \A k \in 1 .. 4 : k - 1 < len
        BY <1>1, <2>1
      <3> QED
        BY <1>2, <2>1, <3>1
    <2>2. CASE ~(4 <= len)
      <3>1. 4 \in 1 .. 4 /\ ~(4 - 1 < len)
        BY <1>1, <2>2
      <3>2. reads[4].byte = stack[4]
        BY <1>2, <3>1
      <3> QED
        BY <2>2, <3>1, <3>2, ElfIs
    <2> QED
      BY <2>1, <2>2
  <1>7. (\E k \in 1 .. 4 : reads[k].ret # -1)
    <2>1. 1 \in 1 .. 4
      OBVIOUS
    <2> QED
      BY <1>3, <2>1
  <1> QED
    BY <1>4, <1>5, <1>6, <1>7 DEF reads, c

\* check_executable and load_executable find a file by its name.
LEMMA ProgramFound ==
    ASSUME NEW fname \in Seq(Letter), NEW stack \in Stacks
    PROVE  LET named == {i \in DOMAIN dentry_addr : dentry_addr[i].filename = fname} IN
           /\ check_executable(fname, stack) <=> \E i \in named : IsProgram(i)
           /\ \A i \in named :
                 load_executable(fname) = {Contents(dentry_addr[i].inode_num)}
  <1> DEFINE named == {i \in DOMAIN dentry_addr : dentry_addr[i].filename = fname}
             Elf(d) == LET i == dentry_addr[d].inode_num
                           reads == [k \in 1 .. 4 |-> OneByte(i, k - 1, stack[k])]
                       IN  /\ \E k \in 1 .. 4 : reads[k].ret # -1
                           /\ IsElf([k \in 1 .. 4 |-> reads[k].byte])
             Image(d) == read_data(dentry_addr[d].inode_num, 0,
                                   inode[dentry_addr[d].inode_num].length)
  <1>1. read_dentry_by_name(fname) = named
    BY DentryFound
  <1>2. check_executable(fname, stack) <=> \E d \in named : Elf(d)
    BY <1>1 DEF check_executable
  <1>3. load_executable(fname) = {Image(d) : d \in named}
    BY <1>1 DEF load_executable
  <1>4. \A d \in named : Elf(d) <=> IsProgram(d)
    <2> TAKE d \in named
    <2> DEFINE i == dentry_addr[d].inode_num
    <2>1. FileInode(i)
      BY EntryIs
    <2> HIDE DEF i
    <2>2. LET reads == [k \in 1 .. 4 |-> OneByte(i, k - 1, stack[k])] IN
          (/\ \E k \in 1 .. 4 : reads[k].ret # -1
           /\ IsElf([k \in 1 .. 4 |-> reads[k].byte]))
              <=> IsPrefix(ELF, Contents(i))
      BY <2>1, ElfFound
    <2> QED
      BY <2>2 DEF i, IsProgram
  <1>5. \A d \in named : Image(d) = Contents(dentry_addr[d].inode_num)
    <2> TAKE d \in named
    <2> DEFINE i == dentry_addr[d].inode_num
    <2>1. FileInode(i)
      BY EntryIs
    <2> HIDE DEF i
    <2>2. read_data(i, 0, inode[i].length) = Contents(i)
      BY <2>1, BytesAre
    <2> QED
      BY <2>2 DEF i
  <1>6. \A d, e \in named : d = e
    BY EntryIs
  <1> HIDE DEF Elf, Image
  <1>7. \A d \in named : {Image(e) : e \in named} = {Image(d)}
    <2> HIDE DEF named
    <2> QED
      BY <1>6
  <1> QED
    BY <1>2, <1>3, <1>4, <1>5, <1>7

-----------------------------------------------------------------------------
(***************************************************************************)
(* The command line.                                                       *)
(***************************************************************************)
LineChars == Letter \cup {SPACE}

\* The states of the first loop, in and behind the name.
InName(r, name) == [read |-> r, fname |-> name, done |-> FALSE]
BehindName(r, name) == [read |-> r, fname |-> name, done |-> TRUE]

NameStates == {InName(r, name) : r \in Nat, name \in Seq(LineChars)}
              \cup {BehindName(r, name) : r \in Nat, name \in Seq(LineChars)}

Unread == InName(0, <<>>)

LEMMA InNameState ==
    ASSUME NEW r \in Nat, NEW name \in Seq(LineChars)
    PROVE  InName(r, name) \in NameStates
  BY DEF NameStates

LEMMA SpaceSkipped ==
    ASSUME NEW r
    PROVE  NameStep(InName(r, <<>>), SPACE) = InName(r + 1, <<>>)
  BY DEF NameStep, InName

LEMMA LetterTaken ==
    ASSUME NEW r, NEW name, NEW c, c # SPACE
    PROVE  NameStep(InName(r, name), c) = InName(r + 1, Append(name, c))
  BY DEF NameStep, InName

LEMMA NameEnds ==
    ASSUME NEW r, NEW name, name # <<>>
    PROVE  NameStep(InName(r, name), SPACE) = BehindName(r, name)
  BY DEF NameStep, InName, BehindName

LEMMA NameEnded ==
    ASSUME NEW r, NEW name, NEW c
    PROVE  NameStep(BehindName(r, name), c) = BehindName(r, name)
  BY DEF NameStep, BehindName


NameRun(f, command) ==
    /\ f[0] = Unread
    /\ \A k \in 1 .. Len(command) : f[k] = NameStep(f[k - 1], command[k])
    /\ FoldLeft(NameStep, Unread, command) = f[Len(command)]

\* The first loop of sys_exeute after each character.
LEMMA NameRuns ==
    ASSUME NEW command \in Seq(LineChars)
    PROVE  \E f : NameRun(f, command)
  <1> DEFINE Step(m, u) == NameStep(m, u)
             step == [mu \in NameStates \X LineChars |-> Step(mu[1], mu[2])]
             Solves(g) == g = [s \in SUBSET (DOMAIN command) |->
                                  IF s = {} THEN Unread ELSE Step(g[s \ {Max(s)}], command[Max(s)])]
             c == CHOOSE g : Solves(g)
             f == [k \in 0 .. Len(command) |-> c[1 .. k]]
  <1>1. /\ DOMAIN command = 1 .. Len(command) /\ Len(command) \in Nat
        /\ \A i \in 1 .. Len(command) : command[i] \in LineChars
    OBVIOUS
  <1>2. \A m \in NameStates, u \in LineChars : Step(m, u) \in NameStates
    <2> TAKE m \in NameStates, u \in LineChars
    <2>1. CASE \E r \in Nat, name \in Seq(LineChars) : m = BehindName(r, name)
      BY <2>1, NameEnded
    <2>2. CASE \E r \in Nat, name \in Seq(LineChars) : m = InName(r, name)
      <3>1. PICK r \in Nat, name \in Seq(LineChars) : m = InName(r, name)
        BY <2>2
      <3>2. r + 1 \in Nat /\ Append(name, u) \in Seq(LineChars) /\ <<>> \in Seq(LineChars)
        OBVIOUS
      <3>3. CASE u # SPACE
        <4>1. Step(m, u) = InName(r + 1, Append(name, u))
          BY <3>1, <3>3, LetterTaken
        <4> QED
          BY <3>2, <4>1, InNameState
      <3>4. CASE u = SPACE /\ name # <<>>
        <4>1. Step(m, u) = BehindName(r, name)
          BY <3>1, <3>4, NameEnds
        <4> QED
          BY <4>1 DEF NameStates
      <3>5. CASE u = SPACE /\ name = <<>>
        <4>1. Step(m, u) = InName(r + 1, <<>>)
          BY <3>1, <3>5, SpaceSkipped
        <4> QED
          BY <3>2, <4>1, InNameState
      <3> QED
        BY <3>3, <3>4, <3>5
    <2> QED
      BY <2>1, <2>2 DEF NameStates
  <1> HIDE DEF Step
  <1>3. step \in [NameStates \X LineChars -> NameStates]
    BY <1>2
  <1>4. \A m \in NameStates, u \in LineChars : step[<<m, u>>] = Step(m, u)
    OBVIOUS
  <1> HIDE DEF step
  <1>5. PICK g : Folds(g, Len(command), NameStates, step, command, Unread)
    <2>1. Unread \in NameStates
      <3>1. 0 \in Nat /\ <<>> \in Seq(LineChars)
        OBVIOUS
      <3> QED
        BY <3>1, InNameState DEF Unread
    <2> QED
      BY <1>1, <1>3, <2>1, FoldExists
  <1>6. Solves(g)
    <2>1. \A s \in SUBSET (1 .. Len(command)) : s # {} =>
              /\ Max(s) \in 1 .. Len(command) /\ s \ {Max(s)} \in SUBSET (1 .. Len(command))
      BY <1>1, MaxIs
    <2>2. \A s \in SUBSET (1 .. Len(command)) : s # {} =>
              /\ g[s \ {Max(s)}] \in NameStates /\ command[Max(s)] \in LineChars
              /\ g[s] = step[<<g[s \ {Max(s)}], command[Max(s)]>>]
      BY <1>1, <1>5, <2>1 DEF Folds
    <2>3. \A s \in SUBSET (1 .. Len(command)) : s # {} =>
              g[s] = Step(g[s \ {Max(s)}], command[Max(s)])
      BY <1>4, <2>2
    <2> QED
      BY <1>1, <1>5, <2>3 DEF Folds
  <1>7. Solves(c)
    <2> HIDE DEF Solves
    <2> QED
      BY <1>6
  <1>8. FoldLeft(NameStep, Unread, command) = c[DOMAIN command]
    BY DEF FoldLeft, MapThenFoldSet, Step
  <1> HIDE DEF c
  <1>9. f[0] = Unread /\ \A k \in 1 .. Len(command) : f[k] = Step(f[k - 1], command[k])
    <2>1. \A s \in SUBSET (1 .. Len(command)) :
              c[s] = IF s = {} THEN Unread ELSE Step(c[s \ {Max(s)}], command[Max(s)])
      BY <1>1, <1>7
    <2>2. f[0] = Unread
      <3>1. 0 \in 0 .. Len(command) /\ 1 .. 0 = {}
        BY <1>1
      <3>2. c[{}] = Unread
        BY <2>1
      <3> QED
        BY <3>1, <3>2
    <2>3. ASSUME NEW k \in 1 .. Len(command)
          PROVE  f[k] = Step(f[k - 1], command[k])
      <3>1. /\ k - 1 \in 0 .. Len(command) /\ k \in 0 .. Len(command)
            /\ 1 .. k \in SUBSET (1 .. Len(command)) /\ 1 .. k # {}
            /\ Max(1 .. k) = k /\ (1 .. k) \ {k} = 1 .. k - 1
        BY <1>1, FirstPositions
      <3>2. c[1 .. k] = Step(c[1 .. k - 1], command[k])
        BY <2>1, <3>1
      <3>3. \A i \in 0 .. Len(command) : f[i] = c[1 .. i]
        OBVIOUS
      <3> HIDE DEF f
      <3> QED
        BY <3>1, <3>2, <3>3
    <2> QED
      BY <2>2, <2>3
  <1>10. FoldLeft(NameStep, Unread, command) = f[Len(command)]
    <2>1. f[Len(command)] = c[1 .. Len(command)]
      BY <1>1
    <2> QED
      BY <1>1, <1>8, <2>1
  <1> HIDE DEF f
  <1> QED
    BY <1>9, <1>10 DEF Step, NameRun


ArgRun(f, s) ==
    /\ f[0] = <<>>
    /\ \A k \in 1 .. Len(s) : f[k] = ArgStep(f[k - 1], s[k])
    /\ FoldLeft(ArgStep, <<>>, s) = f[Len(s)]

\* And its second loop.
LEMMA ArgRuns ==
    ASSUME NEW s \in Seq(LineChars)
    PROVE  \E f : ArgRun(f, s)
  <1> DEFINE Step(m, u) == ArgStep(m, u)
             step == [mu \in Seq(LineChars) \X LineChars |-> Step(mu[1], mu[2])]
             Solves(g) == g = [x \in SUBSET (DOMAIN s) |->
                                  IF x = {} THEN <<>> ELSE Step(g[x \ {Max(x)}], s[Max(x)])]
             c == CHOOSE g : Solves(g)
             f == [k \in 0 .. Len(s) |-> c[1 .. k]]
  <1>1. /\ DOMAIN s = 1 .. Len(s) /\ Len(s) \in Nat
        /\ \A i \in 1 .. Len(s) : s[i] \in LineChars
    OBVIOUS
  <1>2. \A m \in Seq(LineChars), u \in LineChars : Step(m, u) \in Seq(LineChars)
    BY DEF ArgStep
  <1> HIDE DEF Step
  <1>3. step \in [Seq(LineChars) \X LineChars -> Seq(LineChars)]
    BY <1>2
  <1>4. \A m \in Seq(LineChars), u \in LineChars : step[<<m, u>>] = Step(m, u)
    OBVIOUS
  <1> HIDE DEF step
  <1>5. PICK g : Folds(g, Len(s), Seq(LineChars), step, s, <<>>)
    <2>1. <<>> \in Seq(LineChars)
      OBVIOUS
    <2> QED
      BY <1>1, <1>3, <2>1, FoldExists
  <1>6. Solves(g)
    <2>1. \A x \in SUBSET (1 .. Len(s)) : x # {} =>
              /\ Max(x) \in 1 .. Len(s) /\ x \ {Max(x)} \in SUBSET (1 .. Len(s))
      BY <1>1, MaxIs
    <2>2. \A x \in SUBSET (1 .. Len(s)) : x # {} =>
              /\ g[x \ {Max(x)}] \in Seq(LineChars) /\ s[Max(x)] \in LineChars
              /\ g[x] = step[<<g[x \ {Max(x)}], s[Max(x)]>>]
      BY <1>1, <1>5, <2>1 DEF Folds
    <2>3. \A x \in SUBSET (1 .. Len(s)) : x # {} =>
              g[x] = Step(g[x \ {Max(x)}], s[Max(x)])
      BY <1>4, <2>2
    <2> QED
      BY <1>1, <1>5, <2>3 DEF Folds
  <1>7. Solves(c)
    <2> HIDE DEF Solves
    <2> QED
      BY <1>6
  <1>8. FoldLeft(ArgStep, <<>>, s) = c[DOMAIN s]
    BY DEF FoldLeft, MapThenFoldSet, Step
  <1> HIDE DEF c
  <1>9. f[0] = <<>> /\ \A k \in 1 .. Len(s) : f[k] = Step(f[k - 1], s[k])
    <2>1. \A x \in SUBSET (1 .. Len(s)) :
              c[x] = IF x = {} THEN <<>> ELSE Step(c[x \ {Max(x)}], s[Max(x)])
      BY <1>1, <1>7
    <2>2. f[0] = <<>>
      <3>1. 0 \in 0 .. Len(s) /\ 1 .. 0 = {}
        BY <1>1
      <3>2. c[{}] = <<>>
        BY <2>1
      <3> QED
        BY <3>1, <3>2
    <2>3. ASSUME NEW k \in 1 .. Len(s)
          PROVE  f[k] = Step(f[k - 1], s[k])
      <3>1. /\ k - 1 \in 0 .. Len(s) /\ k \in 0 .. Len(s)
            /\ 1 .. k \in SUBSET (1 .. Len(s)) /\ 1 .. k # {}
            /\ Max(1 .. k) = k /\ (1 .. k) \ {k} = 1 .. k - 1
        BY <1>1, FirstPositions
      <3>2. c[1 .. k] = Step(c[1 .. k - 1], s[k])
        BY <2>1, <3>1
      <3>3. \A i \in 0 .. Len(s) : f[i] = c[1 .. i]
        OBVIOUS
      <3> HIDE DEF f
      <3> QED
        BY <3>1, <3>2, <3>3
    <2> QED
      BY <2>2, <2>3
  <1>10. FoldLeft(ArgStep, <<>>, s) = f[Len(s)]
    <2>1. f[Len(s)] = c[1 .. Len(s)]
      BY <1>1
    <2> QED
      BY <1>1, <1>8, <2>1
  <1> HIDE DEF f
  <1> QED
    BY <1>9, <1>10 DEF Step, ArgRun

\* Where a line's first letter is, and a stretch without spaces.
FirstLetter(s, i) == /\ i \in 1 .. Len(s) /\ s[i] # SPACE
                     /\ \A j \in 1 .. i - 1 : s[j] = SPACE

Word(s, i, j) == \A k \in i .. j : s[k] # SPACE

\* The state of the first loop after k characters: before the name, in it, or
\* behind it.
NameAhead(st, s, k) == (\A i \in 1 .. k : s[i] = SPACE) /\ st = InName(k, <<>>)

NameBegun(st, s, k) ==
    \E i \in 1 .. k : /\ FirstLetter(s, i) /\ Word(s, i, k)
                      /\ st = InName(k, SubSeq(s, i, k))

NamePassed(st, s, k) ==
    \E i, j \in 1 .. k : /\ FirstLetter(s, i) /\ i < j /\ Word(s, i, j - 1)
                         /\ s[j] = SPACE
                         /\ st = BehindName(j - 1, SubSeq(s, i, j - 1))

NameAt(st, s, k) == NameAhead(st, s, k) \/ NameBegun(st, s, k) \/ NamePassed(st, s, k)

\* The argument after k characters of what follows the name.
ArgAt(arguments, s, k) ==
    \/ (\A i \in 1 .. k : s[i] = SPACE) /\ arguments = <<>>
    \/ \E i \in 1 .. k : FirstLetter(s, i) /\ arguments = SubSeq(s, i, k)

LEMMA SliceFacts ==
    ASSUME NEW S, NEW s \in Seq(S), NEW i \in 1 .. Len(s), NEW k \in i .. Len(s)
    PROVE  /\ SubSeq(s, i, i) = Append(<<>>, s[i])
           /\ SubSeq(s, i, k) # <<>>
           /\ k > i => SubSeq(s, i, k) = Append(SubSeq(s, i, k - 1), s[k])
  <1>1. SubSeq(s, i, i) = Append(<<>>, s[i])
    <2>1. i \in i .. Len(s) /\ i - 1 < i /\ i \in Int /\ i - 1 \in Int
      OBVIOUS
    <2>2. SubSeq(s, i, i) = SubSeq(s, i, i - 1) \o <<s[i]>>
      BY <2>1, SubSeqRecursiveSecond
    <2>3. SubSeq(s, i, i - 1) = <<>>
      BY <2>1, SubSeqEmpty
    <2>4. <<>> \o <<s[i]>> = Append(<<>>, s[i])
      OBVIOUS
    <2> QED
      BY <2>2, <2>3, <2>4
  <1>2. Len(SubSeq(s, i, k)) > 0
    <2>1. Len(SubSeq(s, i, k)) = k - i + 1
      OBVIOUS
    <2> QED
      BY <2>1
  <1>3. SubSeq(s, i, k) # <<>>
    BY <1>2
  <1>4. k > i => SubSeq(s, i, k) = Append(SubSeq(s, i, k - 1), s[k])
    OBVIOUS
  <1> QED
    BY <1>1, <1>3, <1>4

LEMMA NameStepAt ==
    ASSUME NEW s \in Seq(LineChars), NEW k \in 1 .. Len(s), NEW st, NameAt(st, s, k - 1)
    PROVE  NameAt(NameStep(st, s[k]), s, k)
  <1> DEFINE new == NameStep(st, s[k])
  <1>1. k \in Nat /\ k - 1 \in Nat /\ k - 1 + 1 = k /\ 1 .. k = 1 .. k - 1 \cup {k}
    OBVIOUS
  <1>2. CASE NameAhead(st, s, k - 1) /\ s[k] = SPACE
    <2>1. new = InName(k, <<>>)
      BY <1>1, <1>2, SpaceSkipped DEF NameAhead
    <2>2. \A i \in 1 .. k : s[i] = SPACE
      BY <1>1, <1>2 DEF NameAhead
    <2> QED
      BY <2>1, <2>2 DEF NameAt, NameAhead
  <1>3. CASE NameAhead(st, s, k - 1) /\ s[k] # SPACE
    <2>1. new = InName(k, Append(<<>>, s[k]))
      BY <1>1, <1>3, LetterTaken DEF NameAhead
    <2>2. SubSeq(s, k, k) = Append(<<>>, s[k])
      BY SliceFacts
    <2>3. FirstLetter(s, k) /\ Word(s, k, k) /\ k \in 1 .. k
      BY <1>1, <1>3 DEF NameAhead, FirstLetter, Word
    <2> QED
      BY <2>1, <2>2, <2>3 DEF NameAt, NameBegun
  <1>4. CASE NameBegun(st, s, k - 1)
    <2>1. PICK i \in 1 .. k - 1 : /\ FirstLetter(s, i) /\ Word(s, i, k - 1)
                                  /\ st = InName(k - 1, SubSeq(s, i, k - 1))
      BY <1>4 DEF NameBegun
    <2>2. /\ i \in 1 .. Len(s) /\ k \in i .. Len(s) /\ k - 1 \in i .. Len(s)
          /\ k > i /\ i \in 1 .. k /\ k \in 1 .. k
      BY <1>1, <2>1
    <2>3. CASE s[k] # SPACE
      <3>1. new = InName(k, Append(SubSeq(s, i, k - 1), s[k]))
        BY <1>1, <2>1, <2>3, LetterTaken
      <3>2. new = InName(k, SubSeq(s, i, k))
        BY <2>2, <3>1, SliceFacts
      <3>3. Word(s, i, k)
        <4>1. \A j \in i .. k : j = k \/ j \in i .. k - 1
          BY <1>1, <2>2
        <4> QED
          BY <2>1, <2>3, <4>1 DEF Word
      <3> QED
        BY <2>1, <2>2, <3>2, <3>3 DEF NameAt, NameBegun
    <2>4. CASE s[k] = SPACE
      <3>1. SubSeq(s, i, k - 1) # <<>>
        BY <2>2, SliceFacts
      <3>2. new = BehindName(k - 1, SubSeq(s, i, k - 1))
        BY <2>1, <2>4, <3>1, NameEnds
      <3> QED
        BY <2>1, <2>2, <2>4, <3>2 DEF NameAt, NamePassed
    <2> QED
      BY <2>3, <2>4
  <1>5. CASE NamePassed(st, s, k - 1)
    <2>1. PICK i, j \in 1 .. k - 1 : /\ FirstLetter(s, i) /\ i < j /\ Word(s, i, j - 1)
                                     /\ s[j] = SPACE
                                     /\ st = BehindName(j - 1, SubSeq(s, i, j - 1))
      BY <1>5 DEF NamePassed
    <2>2. new = st
      BY <2>1, NameEnded
    <2>3. i \in 1 .. k /\ j \in 1 .. k
      BY <1>1
    <2> QED
      BY <2>1, <2>2, <2>3 DEF NameAt, NamePassed
  <1> QED
    BY <1>2, <1>3, <1>4, <1>5 DEF NameAt

LEMMA NameRead ==
    ASSUME NEW s \in Seq(LineChars)
    PROVE  NameAt(FoldLeft(NameStep, Unread, s), s, Len(s))
  <1>1. PICK f : NameRun(f, s)
    BY NameRuns
  <1> DEFINE n == Len(s)
             P == {k \in 0 .. n : NameAt(f[k], s, k)}
  <1>2. n \in Nat
    OBVIOUS
  <1>3. 0 \in P
    <2>1. f[0] = InName(0, <<>>) /\ \A i \in 1 .. 0 : FALSE
      BY <1>1 DEF NameRun, Unread
    <2> QED
      BY <1>2, <2>1 DEF NameAt, NameAhead
  <1>4. \A k \in 1 .. n : k - 1 \in P => k \in P
    <2> SUFFICES ASSUME NEW k \in 1 .. n, k - 1 \in P PROVE k \in P
      OBVIOUS
    <2>1. f[k] = NameStep(f[k - 1], s[k])
      BY <1>1 DEF NameRun
    <2>2. NameAt(f[k - 1], s, k - 1)
      OBVIOUS
    <2>3. NameAt(f[k], s, k)
      BY <2>1, <2>2, NameStepAt
    <2>4. k \in 0 .. n
      BY <1>2
    <2> QED
      BY <2>3, <2>4
  <1>5. n \in P
    <2>1. n \in 0 .. n
      BY <1>2
    <2> HIDE DEF P, n
    <2> QED
      BY <1>2, <1>3, <1>4, <2>1, Climb
  <1> QED
    BY <1>1, <1>5 DEF NameRun

LEMMA ArgRead ==
    ASSUME NEW s \in Seq(LineChars)
    PROVE  ArgAt(FoldLeft(ArgStep, <<>>, s), s, Len(s))
  <1>1. PICK f : ArgRun(f, s)
    BY ArgRuns
  <1> DEFINE n == Len(s)
             P == {k \in 0 .. n : ArgAt(f[k], s, k)}
  <1>2. n \in Nat
    OBVIOUS
  <1>3. 0 \in P
    <2>1. f[0] = <<>> /\ \A i \in 1 .. 0 : FALSE
      BY <1>1 DEF ArgRun
    <2> QED
      BY <1>2, <2>1 DEF ArgAt
  <1>4. \A k \in 1 .. n : k - 1 \in P => k \in P
    <2> SUFFICES ASSUME NEW k \in 1 .. n, k - 1 \in P PROVE k \in P
      OBVIOUS
    <2>1. f[k] = IF s[k] = SPACE /\ f[k - 1] = <<>> THEN f[k - 1] ELSE Append(f[k - 1], s[k])
      BY <1>1 DEF ArgRun, ArgStep
    <2>2. k \in 0 .. n /\ k \in Nat /\ k - 1 \in Nat /\ 1 .. k = 1 .. k - 1 \cup {k}
      BY <1>2
    <2>3. CASE (\A i \in 1 .. k - 1 : s[i] = SPACE) /\ f[k - 1] = <<>>
      <3>1. CASE s[k] = SPACE
        <4>1. f[k] = <<>> /\ \A i \in 1 .. k : s[i] = SPACE
          BY <2>1, <2>2, <2>3, <3>1
        <4> QED
          BY <2>2, <4>1 DEF ArgAt
      <3>2. CASE s[k] # SPACE
        <4>1. f[k] = Append(<<>>, s[k])
          BY <2>1, <2>3, <3>2
        <4>2. SubSeq(s, k, k) = Append(<<>>, s[k])
          BY SliceFacts
        <4>3. FirstLetter(s, k) /\ k \in 1 .. k
          BY <2>2, <2>3, <3>2 DEF FirstLetter
        <4>4. ArgAt(f[k], s, k)
          BY <4>1, <4>2, <4>3 DEF ArgAt
        <4> QED
          BY <2>2, <4>4
      <3> QED
        BY <3>1, <3>2
    <2>4. CASE \E i \in 1 .. k - 1 : FirstLetter(s, i) /\ f[k - 1] = SubSeq(s, i, k - 1)
      <3>1. PICK i \in 1 .. k - 1 : FirstLetter(s, i) /\ f[k - 1] = SubSeq(s, i, k - 1)
        BY <2>4
      <3>2. /\ i \in 1 .. Len(s) /\ k \in i .. Len(s) /\ k - 1 \in i .. Len(s)
            /\ k > i /\ i \in 1 .. k
        BY <2>2, <3>1
      <3>3. SubSeq(s, i, k - 1) # <<>> /\ SubSeq(s, i, k) = Append(SubSeq(s, i, k - 1), s[k])
        BY <3>2, SliceFacts
      <3>4. f[k] = SubSeq(s, i, k)
        BY <2>1, <3>1, <3>3
      <3>5. ArgAt(f[k], s, k)
        BY <3>1, <3>2, <3>4 DEF ArgAt
      <3> QED
        BY <2>2, <3>5
    <2>5. ArgAt(f[k - 1], s, k - 1)
      OBVIOUS
    <2> QED
      BY <2>3, <2>4, <2>5 DEF ArgAt
  <1>5. n \in P
    <2>1. n \in 0 .. n
      BY <1>2
    <2> HIDE DEF P, n
    <2> QED
      BY <1>2, <1>3, <1>4, <2>1, Climb
  <1> QED
    BY <1>1, <1>5 DEF ArgRun

LEMMA LeastIs ==
    ASSUME NEW T, T \subseteq Nat, NEW x \in T, \A y \in T : x <= y
    PROVE  Min(T) = x
  <1>1. \E m \in T : \A y \in T : m <= y
    OBVIOUS
  <1> DEFINE m == Min(T)
  <1>2. m \in T /\ \A y \in T : m <= y
    BY <1>1 DEF Min
  <1> HIDE DEF m
  <1>3. m \in Nat /\ x \in Nat /\ m <= x /\ x <= m
    BY <1>2
  <1>4. m = x
    BY ONLY <1>3
  <1> QED
    BY <1>4 DEF m

\* The name ends at position j - 1; what follows is the rest.
LEMMA WordsAre ==
    ASSUME NEW line \in Seq(LineChars), NEW i, FirstLetter(line, i),
           NEW j \in i + 1 .. Len(line) + 1, Word(line, i, j - 1),
           j <= Len(line) => line[j] = SPACE
    PROVE  LET rest == {k \in DOMAIN line : line[k] # SPACE /\ k > j} IN
           /\ Words(line).name = SubSeq(line, i, j - 1)
           /\ Words(line).rest = IF rest = {} THEN <<>>
                                 ELSE SubSeq(line, Min(rest), Len(line))
  <1> DEFINE n == Len(line)
             letters == {k \in DOMAIN line : line[k] # SPACE}
             first == Min(letters)
             gaps == {k \in first .. Len(line) : line[k] = SPACE}
             gap == IF gaps = {} THEN Len(line) + 1 ELSE Min(gaps)
             after == {k \in letters : k > gap}
             rest == {k \in DOMAIN line : line[k] # SPACE /\ k > j}
  <1>1. /\ n \in Nat /\ DOMAIN line = 1 .. n /\ i \in 1 .. n /\ i \in Nat /\ j \in Nat
        /\ i < j /\ j <= n + 1
    BY DEF FirstLetter
  <1>2. first = i
    <2>1. i \in letters /\ letters \subseteq Nat
      BY <1>1 DEF FirstLetter
    <2>2. \A k \in letters : i <= k
      <3> TAKE k \in letters
      <3>1. k \in 1 .. n /\ line[k] # SPACE
        BY <1>1
      <3>2. k \notin 1 .. i - 1
        BY <3>1 DEF FirstLetter
      <3> QED
        BY <1>1, <3>1, <3>2
    <2> HIDE DEF letters
    <2> QED
      BY <2>1, <2>2, LeastIs
  <1>3. gap = j
    <2> HIDE DEF first
    <2>1. \A k \in gaps : k \in i .. n /\ line[k] = SPACE /\ k \in Nat /\ j <= k
      <3> TAKE k \in gaps
      <3>1. k \in i .. n /\ line[k] = SPACE
        BY <1>2
      <3>2. k \notin i .. j - 1
        BY <3>1 DEF Word
      <3> QED
        BY <1>1, <3>1, <3>2
    <2>2. CASE j <= n
      <3>1. j \in gaps
        BY <1>1, <1>2, <2>2
      <3> DEFINE m == Min(gaps)
      <3>2. gap = m
        BY <3>1
      <3>3. m = j
        <4> HIDE DEF gaps
        <4>1. gaps \subseteq Nat
          BY <2>1
        <4> QED
          BY <2>1, <3>1, <4>1, LeastIs
      <3> HIDE DEF gap, m
      <3> QED
        BY <3>2, <3>3
    <2>3. CASE ~(j <= n)
      <3>1. gaps = {}
        <4> SUFFICES ASSUME NEW k \in gaps PROVE FALSE
          OBVIOUS
        <4>1. k \in i .. n /\ j <= k
          BY <2>1
        <4> QED
          BY <1>1, <2>3, <4>1
      <3>2. gap = n + 1
        BY <3>1
      <3> HIDE DEF gap, gaps
      <3> QED
        BY <1>1, <2>3, <3>2
    <2> QED
      BY <2>2, <2>3
  <1>4. letters # {}
    BY <1>1 DEF FirstLetter
  <1> DEFINE w == SubSeq(line, first, gap - 1)
             r == IF after = {} THEN <<>> ELSE SubSeq(line, Min(after), Len(line))
  <1>5. Words(line) = [name |-> w, rest |-> r]
    BY <1>4 DEF Words
  <1>9. w = SubSeq(line, first, gap - 1)
    OBVIOUS
  <1>10. r = IF after = {} THEN <<>> ELSE SubSeq(line, Min(after), Len(line))
    OBVIOUS
  <1> HIDE DEF w, r
  <1>6. after = rest
    <2> HIDE DEF gap
    <2> QED
      BY <1>3
  <1> HIDE DEF first, gap, after, rest
  <1>7. Words(line).name = SubSeq(line, i, j - 1)
    <2>1. Words(line).name = w
      BY <1>5
    <2>2. gap - 1 = j - 1
      BY ONLY <1>3
    <2> QED
      BY ONLY <2>1, <2>2, <1>2, <1>9
  <1>8. Words(line).rest = IF rest = {} THEN <<>> ELSE SubSeq(line, Min(rest), Len(line))
    <2>1. Words(line).rest = r
      BY <1>5
    <2> QED
      BY ONLY <2>1, <1>6, <1>10
  <1> QED
    BY <1>7, <1>8 DEF rest

\* The loops of sys_exeute find the words.
LEMMA ParsedIs ==
    ASSUME NEW line \in Seq(LineChars)
    PROVE  /\ Parsed(line).fname = Words(line).name
           /\ Parsed(line).arguments = Words(line).rest
           /\ Words(line).name \in Seq(Letter)
           /\ \/ Words(line).rest = <<>>
              \/ \E l \in 1 .. Len(line) :
                    FirstLetter(SubSeq(line, l, Len(line)), 1)
                    /\ Words(line).rest = SubSeq(line, l, Len(line))
  <1> DEFINE n == Len(line)
             st == FoldLeft(NameStep, Unread, line)
             tail == SubSeq(line, st.read + 1, n)
             arguments == FoldLeft(ArgStep, <<>>, tail)
  <1>1. n \in Nat /\ DOMAIN line = 1 .. n /\ \A k \in 1 .. n : line[k] \in LineChars
    OBVIOUS
  <1>2. NameAt(st, line, n)
    BY NameRead
  <1>3. Parsed(line).fname = st.fname /\ Parsed(line).arguments = arguments
    BY DEF Parsed, Unread, InName
  <1> HIDE DEF st
  <1>4. ASSUME NEW i \in 1 .. n, NEW j \in i .. n, Word(line, i, j)
        PROVE  SubSeq(line, i, j) \in Seq(Letter)
    <2>1. i \in Int /\ j \in Int /\ \A k \in i .. j : k \in 1 .. n
      BY <1>1
    <2>2. \A k \in i .. j : line[k] \in Letter
      BY <1>1, <1>4, <2>1 DEF Word, LineChars
    <2> QED
      BY <2>1, <2>2, SubSeqProperties
  <1>5. ASSUME st.read = n PROVE arguments = <<>>
    <2>1. n + 1 \in Int /\ n \in Int /\ n < n + 1
      BY <1>1
    <2>2. tail = <<>>
      BY <1>5, <2>1, SubSeqEmpty
    <2> HIDE DEF tail
    <2>3. tail \in Seq(LineChars) /\ Len(tail) = 0
      BY <2>2
    <2>4. ArgAt(arguments, tail, 0)
      BY <2>3, ArgRead
    <2>5. \A i \in 1 .. 0 : FALSE
      OBVIOUS
    <2> HIDE DEF arguments
    <2> QED
      BY <2>4, <2>5 DEF ArgAt
  <1>6. CASE NameAhead(st, line, n)
    <2>1. st.read = n /\ st.fname = <<>>
      BY <1>6 DEF NameAhead, InName
    <2>2. Words(line) = [name |-> <<>>, rest |-> <<>>]
      <3>1. {k \in DOMAIN line : line[k] # SPACE} = {}
        BY <1>1, <1>6 DEF NameAhead
      <3> QED
        BY <3>1 DEF Words
    <2>3. <<>> \in Seq(Letter)
      OBVIOUS
    <2> HIDE DEF arguments
    <2> QED
      BY <1>3, <1>5, <2>1, <2>2, <2>3
  <1>7. CASE NameBegun(st, line, n)
    <2>1. PICK i \in 1 .. n : /\ FirstLetter(line, i) /\ Word(line, i, n)
                              /\ st = InName(n, SubSeq(line, i, n))
      BY <1>7 DEF NameBegun
    <2>2. st.read = n /\ st.fname = SubSeq(line, i, n)
      BY <2>1 DEF InName
    <2> DEFINE j == n + 1
               rest == {k \in DOMAIN line : line[k] # SPACE /\ k > j}
    <2>3. j \in i + 1 .. Len(line) + 1 /\ j - 1 = n /\ ~(j <= n) /\ n \in i .. n
      BY <1>1
    <2>4. rest = {}
      BY <1>1
    <2> HIDE DEF j
    <2>5. /\ Words(line).name = SubSeq(line, i, j - 1)
          /\ Words(line).rest = IF rest = {} THEN <<>> ELSE SubSeq(line, Min(rest), Len(line))
      BY <2>1, <2>3, WordsAre
    <2>6. SubSeq(line, i, n) \in Seq(Letter)
      BY <1>4, <2>1, <2>3
    <2> HIDE DEF rest, arguments
    <2> QED
      BY <1>3, <1>5, <2>2, <2>3, <2>4, <2>5, <2>6
  <1>8. CASE NamePassed(st, line, n)
    <2>1. PICK i, j \in 1 .. n : /\ FirstLetter(line, i) /\ i < j /\ Word(line, i, j - 1)
                                 /\ line[j] = SPACE
                                 /\ st = BehindName(j - 1, SubSeq(line, i, j - 1))
      BY <1>8 DEF NamePassed
    <2> DEFINE rest == {k \in DOMAIN line : line[k] # SPACE /\ k > j}
    <2>2. /\ i \in Nat /\ j \in Nat /\ j \in i + 1 .. Len(line) + 1
          /\ j - 1 + 1 = j /\ j - 1 \in i .. n
      BY <1>1, <2>1
    <2>3. st.read = j - 1 /\ st.fname = SubSeq(line, i, j - 1)
      BY <2>1 DEF BehindName
    <2>4. /\ Words(line).name = SubSeq(line, i, j - 1)
          /\ Words(line).rest = IF rest = {} THEN <<>> ELSE SubSeq(line, Min(rest), Len(line))
      BY <2>1, <2>2, WordsAre
    <2>5. SubSeq(line, i, j - 1) \in Seq(Letter)
      BY <1>4, <2>1, <2>2
    <2> DEFINE s == SubSeq(line, j, n)
               m == n - j + 1
    <2>6. tail = s
      BY <2>2, <2>3
    <2>7. /\ s \in Seq(LineChars) /\ Len(s) = m /\ m \in Nat
          /\ \A k \in 1 .. m : s[k] = line[j + k - 1] /\ j + k - 1 \in 1 .. n
      <3>1. j \in Int /\ n \in Int /\ j <= n
        BY <1>1, <2>1, <2>2
      <3>2. \A k \in j .. n : line[k] \in LineChars
        BY <1>1, <2>2
      <3>3. m \in Nat /\ \A k \in 1 .. m : j + k - 1 \in 1 .. n
        BY <2>2, <3>1
      <3> QED
        BY <3>1, <3>2, <3>3, SubSeqProperties
    <2> HIDE DEF s, tail
    <2>8. ArgAt(arguments, s, m)
      BY <2>6, <2>7, ArgRead
    <2> HIDE DEF arguments
    <2>9. \A k \in rest : k - j + 1 \in 2 .. m /\ s[k - j + 1] # SPACE
      <3> TAKE k \in rest
      <3>1. k \in 1 .. n /\ line[k] # SPACE /\ k > j
        BY <1>1
      <3> DEFINE x == k - j + 1
      <3>2. x \in 2 .. m /\ x \in 1 .. m /\ j + x - 1 = k
        BY <2>2, <3>1
      <3> HIDE DEF x
      <3>3. s[x] = line[k]
        BY <2>7, <3>2
      <3> QED
        BY <3>1, <3>2, <3>3 DEF x
    <2>10. CASE (\A k \in 1 .. m : s[k] = SPACE) /\ arguments = <<>>
      <3>1. rest = {}
        <4> SUFFICES ASSUME NEW k \in rest PROVE FALSE
          OBVIOUS
        <4> DEFINE x == k - j + 1
        <4>1. x \in 2 .. m /\ s[x] # SPACE
          BY <2>9
        <4> HIDE DEF x
        <4>2. x \in 1 .. m
          BY <2>7, <4>1
        <4> QED
          BY <2>10, <4>1, <4>2
      <3> HIDE DEF rest
      <3> QED
        BY <1>3, <2>3, <2>4, <2>5, <2>10, <3>1
    <2>11. CASE \E k \in 1 .. m : FirstLetter(s, k) /\ arguments = SubSeq(s, k, m)
      <3>1. PICK k \in 1 .. m : FirstLetter(s, k) /\ arguments = SubSeq(s, k, m)
        BY <2>11
      <3> DEFINE l == j + k - 1
      <3>2. s[k] = line[l] /\ l \in 1 .. n /\ s[1] = line[j] /\ 1 \in 1 .. m
        <4>1. 1 \in 1 .. m /\ j + 1 - 1 = j
          BY <2>2, <2>7, <3>1
        <4> QED
          BY <2>7, <4>1
      <3>3. line[l] # SPACE /\ k # 1
        BY <2>1, <3>1, <3>2 DEF FirstLetter
      <3>4. l \in rest
        <4>1. l > j
          BY <2>2, <2>7, <3>3
        <4> HIDE DEF l
        <4> QED
          BY <1>1, <3>2, <3>3, <4>1
      <3>5. \A x \in rest : l <= x
        <4> TAKE x \in rest
        <4> DEFINE y == x - j + 1
        <4>1. x \in 1 .. n /\ y \in 2 .. m /\ s[y] # SPACE
          BY <1>1, <2>9
        <4>2. y \notin 1 .. k - 1
          <5> HIDE DEF y
          <5> QED
            BY <3>1, <4>1 DEF FirstLetter
        <4> QED
          BY <2>2, <2>7, <4>1, <4>2
      <3>6. rest \subseteq Nat /\ rest # {}
        BY <1>1, <3>4
      <3> HIDE DEF rest
      <3>7. Words(line).rest = SubSeq(line, l, n)
        <4> HIDE DEF l
        <4>1. Min(rest) = l
          BY <3>4, <3>5, <3>6, LeastIs
        <4> QED
          BY <2>4, <3>6, <4>1
      <3>8. arguments = SubSeq(line, l, n)
        <4>1. /\ j \in 1 .. Len(line) /\ n \in 1 .. Len(line)
              /\ k \in 1 .. n - j + 1 /\ m \in 1 .. n - j + 1
              /\ j + m - 1 = n
          BY <1>1, <2>2, <2>7, <3>1
        <4>2. SubSeq(SubSeq(line, j, n), k, m) = SubSeq(line, j + k - 1, j + m - 1)
          <5> HIDE DEF m, n
          <5> QED
            BY <4>1, SubSeqOfSubSeq
        <4> QED
          BY <3>1, <4>1, <4>2 DEF s
      <3>9. FirstLetter(SubSeq(line, l, n), 1)
        <4>1. l \in Int /\ n \in Int /\ l <= n /\ \A x \in l .. n : line[x] \in LineChars
          BY <1>1, <3>2
        <4> HIDE DEF l, n
        <4>2. Len(SubSeq(line, l, n)) = n - l + 1 /\ SubSeq(line, l, n)[1] = line[l + 1 - 1]
          <5>1. 1 \in 1 .. n - l + 1
            BY <4>1
          <5> QED
            BY <4>1, <5>1, SubSeqProperties
        <4>3. l + 1 - 1 = l /\ 1 \in 1 .. n - l + 1 /\ \A x \in 1 .. 1 - 1 : FALSE
          BY <4>1
        <4> QED
          BY <3>3, <4>2, <4>3 DEF FirstLetter
      <3> HIDE DEF l
      <3> QED
        BY <1>3, <2>3, <2>4, <2>5, <3>2, <3>7, <3>8, <3>9
    <2> QED
      BY <2>8, <2>10, <2>11 DEF ArgAt
  <1> QED
    BY <1>2, <1>6, <1>7, <1>8 DEF NameAt

-----------------------------------------------------------------------------
(***************************************************************************)
(* The argument.                                                           *)
(***************************************************************************)

\* The argument is in the PCB with a NUL behind it, and no byte behind the
\* space for it is written.
LEMMA ArgumentStored ==
    ASSUME NEW arguments \in Seq(LineChars), Len(arguments) < ARG_BUF_SIZE, NEW terminal
    PROVE  LET pcb == Stored(arguments, terminal) IN
           /\ strlen(pcb) = Len(arguments)
           /\ \A k \in 1 .. Len(arguments) : pcb[k] = arguments[k]
           /\ pcb[ARG_BUF_SIZE + 1] = terminal
  <1> DEFINE n == Len(arguments)
             S == LineChars \cup {NUL, terminal}
             src == Append(arguments, NUL)
             cleared == [i \in 1 .. ARG_BUF_SIZE |-> NUL]
             dest == cleared \o <<terminal>>
             size == ARG_BUF_SIZE + 1
             pcb == Stored(arguments, terminal)
  <1>1. n \in Nat /\ ARG_BUF_SIZE \in Nat /\ n < ARG_BUF_SIZE /\ size \in Nat
    BY CommandAssumption
  <1>2. NUL \notin LineChars
    BY ImageAssumption, LibraryAssumption DEF LineChars
  <1>3. /\ src \in Seq(S) /\ Len(src) = n + 1 /\ src[n + 1] = NUL
        /\ \A k \in 1 .. n : src[k] = arguments[k] /\ arguments[k] \in LineChars
    <2>1. arguments \in Seq(S) /\ NUL \in S
      OBVIOUS
    <2> HIDE DEF S
    <2>2. Append(arguments, NUL) \in Seq(S) /\ Len(Append(arguments, NUL)) = n + 1
      BY <2>1
    <2>3. Append(arguments, NUL)[n + 1] = NUL
          /\ \A k \in 1 .. n : Append(arguments, NUL)[k] = arguments[k]
      BY <2>1
    <2>4. \A k \in 1 .. n : arguments[k] \in LineChars
      OBVIOUS
    <2> QED
      BY <2>2, <2>3, <2>4
  <1>4. strlen(src) = n
    <2> HIDE DEF src, S, n
    <2>1. n \in 0 .. Len(src) /\ \A k \in 1 .. n : src[k] # NUL
      BY <1>1, <1>2, <1>3
    <2> QED
      BY <1>3, <2>1, StrlenIs
  <1>5. /\ dest \in Seq(S) /\ Len(dest) = size
        /\ \A k \in 1 .. ARG_BUF_SIZE : dest[k] = NUL
        /\ dest[size] = terminal
    <2>1. cleared \in Seq(S) /\ Len(cleared) = ARG_BUF_SIZE
          /\ \A k \in 1 .. ARG_BUF_SIZE : cleared[k] = NUL
      <3>1. cleared \in [1 .. ARG_BUF_SIZE -> S]
        OBVIOUS
      <3> HIDE DEF cleared, S
      <3>2. cleared \in Seq(S)
        BY <1>1, <3>1, SeqDef
      <3>3. \A k \in 1 .. ARG_BUF_SIZE : cleared[k] = NUL
        BY DEF cleared
      <3> QED
        BY <1>1, <3>1, <3>2, <3>3, LenProperties
    <2>2. terminal \in S
      OBVIOUS
    <2> HIDE DEF cleared, S
    <2> QED
      BY <1>1, <2>1, <2>2
  <1>6. pcb = [i \in 1 .. size |-> IF i > n THEN dest[i]
                                   ELSE IF i <= strlen(src) THEN src[i] ELSE NUL]
    <2> HIDE DEF S
    <2>1. PcbBytes(terminal) = dest
      BY DEF PcbBytes
    <2> HIDE DEF dest
    <2>2. DOMAIN dest = 1 .. size
      BY <1>5
    <2> QED
      BY <2>1, <2>2 DEF Stored, strncpy
  <1> HIDE DEF src, dest, pcb, n, size
  <1>7. /\ \A k \in 1 .. n : pcb[k] = arguments[k]
        /\ pcb[n + 1] = NUL
        /\ pcb[size] = terminal
    <2>0. size = ARG_BUF_SIZE + 1
      BY DEF size
    <2>1. \A k \in 1 .. n : k \in 1 .. size /\ ~(k > n) /\ k <= n
      BY <1>1, <2>0
    <2>2. n + 1 \in 1 .. size /\ n + 1 > n /\ n + 1 \in 1 .. ARG_BUF_SIZE
      BY <1>1, <2>0
    <2>3. size \in 1 .. size /\ size > n
      BY <1>1, <2>0
    <2>4. \A k \in 1 .. n : pcb[k] = arguments[k]
      BY <1>3, <1>4, <1>6, <2>1
    <2> DEFINE e == n + 1
    <2> HIDE DEF e
    <2>5. pcb[e] = NUL
      BY <1>5, <1>6, <2>2 DEF e
    <2>6. pcb[size] = terminal
      BY <1>5, <1>6, <2>3
    <2> QED
      BY <2>4, <2>5, <2>6 DEF e
  <1>8. strlen(pcb) = n
    <2>1. \A i \in 1 .. size : pcb[i] \in S
      <3> TAKE i \in 1 .. size
      <3>1. CASE i > n
        BY <1>5, <1>6, <3>1
      <3>2. CASE ~(i > n)
        <4>1. i \in 1 .. n
          BY <1>1, <3>2
        <4> QED
          BY <1>3, <1>7, <4>1
      <3> QED
        BY <3>1, <3>2
    <2>2. pcb \in [1 .. size -> S]
      <3>1. pcb = [i \in 1 .. size |-> pcb[i]]
        BY <1>6
      <3> QED
        BY <2>1, <3>1
    <2> HIDE DEF S
    <2>3. pcb \in Seq(S)
      BY <1>1, <2>2, SeqDef
    <2>4. Len(pcb) = size
      BY <1>1, <2>2, <2>3, LenProperties
    <2>5. n \in 0 .. Len(pcb) /\ \A k \in 1 .. n : pcb[k] # NUL
      BY <1>1, <1>2, <1>3, <1>7, <2>4 DEF size
    <2> QED
      BY <1>7, <2>3, <2>5, StrlenIs
  <1> QED
    BY <1>7, <1>8 DEF pcb, n, size

\* A program is given its argument and the NUL, or nothing.
LEMMA ArgumentGiven ==
    ASSUME NEW arguments \in Seq(LineChars), NEW pcb, strlen(pcb) = Len(arguments),
           \A k \in 1 .. Len(arguments) : pcb[k] = arguments[k],
           NEW nbytes \in Nat
    PROVE  LET argument == arguments \o <<NUL>>
               buf == sys_getargs(pcb, nbytes)
           IN  IF arguments = <<>> \/ Len(argument) > nbytes THEN buf = <<>>
               ELSE SubSeq(buf, 1, Len(argument)) = argument
  <1> DEFINE n == Len(arguments)
             argument == arguments \o <<NUL>>
             S == LineChars \cup {NUL}
             old == [i \in 1 .. nbytes |-> "old"]
             buf == strncpy(old, pcb, nbytes)
  <1>1. n \in Nat /\ (arguments = <<>> <=> n = 0)
    OBVIOUS
  <1>2. /\ argument \in Seq(S) /\ Len(argument) = n + 1 /\ argument[n + 1] = NUL
        /\ \A k \in 1 .. n : argument[k] = arguments[k]
    <2>1. arguments \in Seq(S) /\ NUL \in S
      OBVIOUS
    <2> HIDE DEF S
    <2> QED
      BY <2>1
  <1> HIDE DEF n, argument
  <1>3. sys_getargs(pcb, nbytes) = IF n + 1 = 1 \/ n + 1 > nbytes THEN <<>> ELSE buf
    BY DEF sys_getargs, n
  <1>4. ASSUME n + 1 <= nbytes PROVE SubSeq(buf, 1, n + 1) = argument
    <2>1. buf = [i \in 1 .. nbytes |-> IF i > nbytes THEN old[i]
                                       ELSE IF i <= n THEN pcb[i] ELSE NUL]
      BY DEF strncpy, n
    <2> HIDE DEF buf, old, S
    <2> DEFINE e == n + 1
    <2>2. e \in Nat /\ \A k \in 1 .. e : /\ k \in 1 .. nbytes /\ ~(k > nbytes)
                                         /\ (k <= n <=> k \in 1 .. n)
                                         /\ (~(k <= n) <=> k = e)
      BY <1>1, <1>4
    <2>3. argument[e] = NUL /\ Len(argument) = e
      BY <1>2
    <2> HIDE DEF e
    <2>4. \A k \in 1 .. e : buf[k] = argument[k]
      <3> TAKE k \in 1 .. e
      <3>1. CASE k <= n
        <4>1. k \in 1 .. n /\ k \in 1 .. nbytes /\ ~(k > nbytes)
          BY <2>2, <3>1
        <4>2. buf[k] = pcb[k]
          BY <2>1, <3>1, <4>1
        <4>3. pcb[k] = arguments[k]
          BY <4>1 DEF n
        <4> QED
          BY <1>2, <4>1, <4>2, <4>3
      <3>2. CASE ~(k <= n)
        BY <2>1, <2>2, <2>3, <3>2
      <3> QED
        BY <3>1, <3>2
    <2>5. SubSeq(buf, 1, e) = argument
      <3> DEFINE t == SubSeq(buf, 1, e)
      <3>1. /\ t \in Seq(S) /\ Len(t) = e
            /\ \A k \in 1 .. e : t[k] = buf[k]
        <4>1. 1 \in Int /\ e \in Int /\ \A k \in 1 .. e : buf[k] \in S
          BY <1>2, <2>2, <2>3, <2>4
        <4>2. /\ t \in Seq(S)
              /\ Len(t) = IF 1 <= e THEN e - 1 + 1 ELSE 0
              /\ \A k \in 1 .. e - 1 + 1 : t[k] = buf[1 + k - 1]
          BY <4>1, SubSeqProperties
        <4>3. e - 1 + 1 = e /\ 1 <= e /\ \A k \in 1 .. e : 1 + k - 1 = k
          BY <1>1, <2>2 DEF e
        <4> HIDE DEF t
        <4> QED
          BY <4>2, <4>3
      <3> HIDE DEF t
      <3>2. t = argument
        BY <1>2, <2>3, <2>4, <3>1, SeqEqual
      <3> QED
        BY <3>2 DEF t
    <2> QED
      BY <2>5 DEF e
  <1> HIDE DEF buf
  <1>5. (arguments = <<>> \/ Len(argument) > nbytes) <=> (n + 1 = 1 \/ n + 1 > nbytes)
    BY <1>1, <1>2
  <1>6. ~(n + 1 > nbytes) => n + 1 <= nbytes
    BY <1>1
  <1> QED
    BY <1>2, <1>3, <1>4, <1>5, <1>6 DEF argument

\* A line entered at the shell starts the program it names exactly if the
\* directory has an executable of that name, loads the whole of it, and gives
\* it the rest of the line: for any directory, any line that fits in a PCB, and
\* whatever is behind the argument there (system_call.c:61-130, :237-246,
\* file_sys_driver.c:56-271).
THEOREM CommandsAlwaysUnderstood == CallsSpec => []CommandsUnderstood
  <1>1. CallTypes => CommandsUnderstood
    <2> SUFFICES ASSUME CallTypes, call.of = "line" PROVE CommandsUnderstood
      BY DEF CommandsUnderstood
    <2> DEFINE line == call.line
               stack == call.stack
               terminal == "terminal"
               meant == Words(line)
               named == {i \in DOMAIN dentry_addr : dentry_addr[i].filename = meant.name}
               programs == {i \in DOMAIN dentry_addr :
                               dentry_addr[i].filename = meant.name /\ IsProgram(i)}
               done == sys_exeute(ShellCommand(Append(line, NL)), stack, terminal)
               argument == meant.rest \o <<NUL>>
    <2>1. line \in Seq(LineChars) /\ Len(line) <= LINE_MAX /\ stack \in Stacks
      <3>1. call \in CommandLines
        BY DEF CallTypes, KernelCalls, NoCall, Copies, Prints, Codes
      <3>2. /\ line \in BoundedSeq(Letter \cup {SPACE}, LINE_MAX) /\ stack \in Stacks
            /\ LINE_MAX \in Nat
        BY <3>1, CallsAssumption DEF CommandLines
      <3> QED
        BY <3>2, BoundedIsSeq DEF LineChars
    <2> HIDE DEF line, stack, terminal
    <2>2. ShellCommand(Append(line, NL)) = line
      <3> DEFINE S == LineChars \cup {NL}
                 s == Append(line, NL)
      <3>1. line \in Seq(S) /\ NL \in S /\ Len(line) \in Nat
        BY <2>1
      <3> HIDE DEF S
      <3>2. /\ s \in Seq(S) /\ Len(s) = Len(line) + 1 /\ s[Len(line) + 1] = NL
            /\ \A k \in 1 .. Len(line) : s[k] = line[k]
        BY <3>1
      <3>3. SubSeq(s, 1, Len(line)) = line
        BY <3>1
      <3>4. Len(s) - 1 = Len(line) /\ s # <<>>
        BY <3>1, <3>2
      <3> HIDE DEF s
      <3>5. Last(s) = NL /\ Front(s) = line
        BY <3>2, <3>3, <3>4 DEF Last, Front
      <3>6. ShellCommand(s) = line
        BY <3>4, <3>5 DEF ShellCommand
      <3> QED
        BY <3>6 DEF s
    <2>3. /\ Parsed(line).fname = meant.name /\ Parsed(line).arguments = meant.rest
          /\ meant.name \in Seq(Letter)
          /\ meant.rest \in Seq(LineChars) /\ Len(meant.rest) < ARG_BUF_SIZE
      <3>1. /\ Parsed(line).fname = meant.name /\ Parsed(line).arguments = meant.rest
            /\ meant.name \in Seq(Letter)
            /\ \/ meant.rest = <<>>
               \/ \E l \in 1 .. Len(line) : meant.rest = SubSeq(line, l, Len(line))
        BY <2>1, ParsedIs
      <3>2. LINE_MAX < ARG_BUF_SIZE /\ LINE_MAX \in Nat /\ ARG_BUF_SIZE \in Nat
        BY ImageAssumption, CommandAssumption, CallsAssumption
      <3>3. \A l \in 1 .. Len(line) : /\ SubSeq(line, l, Len(line)) \in Seq(LineChars)
                                      /\ Len(SubSeq(line, l, Len(line))) <= Len(line)
        BY <2>1
      <3> HIDE DEF meant
      <3>4. meant.rest \in Seq(LineChars)
        <4>1. <<>> \in Seq(LineChars)
          OBVIOUS
        <4> QED
          BY ONLY <3>1, <3>3, <4>1
      <3>5. Len(meant.rest) <= Len(line) /\ Len(line) \in Nat /\ Len(meant.rest) \in Nat
        BY <2>1, <3>1, <3>3, <3>4
      <3> QED
        BY <2>1, <3>1, <3>2, <3>4, <3>5
    <2> HIDE DEF meant
    <2> DEFINE starts == check_executable(meant.name, stack)
               image == load_executable(meant.name)
               pcb == Stored(meant.rest, terminal)
    <2>4. done = [starts |-> starts, image |-> image, pcb |-> pcb]
      BY <2>2, <2>3 DEF sys_exeute
    <2>5. /\ starts <=> \E i \in named : IsProgram(i)
          /\ \A i \in named : image = {Contents(dentry_addr[i].inode_num)}
      BY <2>1, <2>3, ProgramFound
    <2>6. /\ strlen(pcb) = Len(meant.rest)
          /\ \A k \in 1 .. Len(meant.rest) : pcb[k] = meant.rest[k]
          /\ pcb[ARG_BUF_SIZE + 1] = terminal
      BY <2>3, ArgumentStored
    <2> HIDE DEF starts, image, pcb, done
    <2>7. done.starts = starts /\ done.image = image /\ done.pcb = pcb
      BY <2>4
    <2>8. done.starts <=> programs # {}
      <3>1. (\E i \in named : IsProgram(i)) <=> programs # {}
        OBVIOUS
      <3>2. done.starts <=> starts
        BY <2>7
      <3> QED
        BY <2>5, <3>1, <3>2
    <2>9. \A i \in programs : done.image = {Contents(dentry_addr[i].inode_num)}
      BY <2>5, <2>7
    <2>10. done.pcb[ARG_BUF_SIZE + 1] = terminal
      BY <2>6, <2>7
    <2>11. ASSUME NEW nbytes \in 0 .. LINE_MAX + 1
           PROVE  IF meant.rest = <<>> \/ Len(argument) > nbytes
                  THEN sys_getargs(done.pcb, nbytes) = <<>>
                  ELSE SubSeq(sys_getargs(done.pcb, nbytes), 1, Len(argument)) = argument
      <3>1. nbytes \in Nat
        BY CallsAssumption
      <3> QED
        BY <2>3, <2>6, <2>7, <3>1, ArgumentGiven
    <2> QED
      BY <2>8, <2>9, <2>10, <2>11
         DEF CommandsUnderstood, line, stack, terminal, meant, done
  <1> QED
    BY <1>1, CallsStay, PTL
=============================================================================
