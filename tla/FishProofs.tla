------------------------------ MODULE FishProofs ------------------------------
(***************************************************************************)
(* For arrays and screens of any size and any blinkers that are not at     *)
(* location 0: the list of fish, the array behind it and what was added    *)
(* agree, and the screen shows what the statuses say.                      *)
(***************************************************************************)
EXTENDS Fish, FiniteSetTheorems, WellFoundedInduction, TLAPS

Character == {NUL} \cup {b.on_char : b \in Blinkers} \cup {b.off_char : b \in Blinkers}

Structure ==
    [location : Nat, on_char : Character, off_char : Character,
     on_length : Nat, off_length : Nat, countdown : Int, status : {0, 1}]

Listed == ToSet(blink_list)

FishTypes ==
    /\ blink_array \in [Slot -> Structure]
    /\ blink_list \in Seq(Slot)
    /\ DOMAIN screen = Location
    /\ added \subseteq Blinkers /\ IsFiniteSet(added)

\* What is taken in the array is in the list, once.
Taken ==
    /\ IsInjective(blink_list)
    /\ Listed = Slot \ FreeSlots

\* No two blinkers of the list are at one place, and all are on the screen.
Apart ==
    /\ \A s, t \in Listed : blink_array[s].location = blink_array[t].location => s = t
    /\ \A s \in Listed : blink_array[s].location \in Location \ {0}

\* A structure of the array is one that the program added.
SameBlinker(b, taken) ==
    /\ taken.location = b.location
    /\ taken.on_char = b.on_char
    /\ taken.off_char = b.off_char

\* The list is what was added.
Counted ==
    /\ \A b, c \in added : b.location = c.location => b = c
    /\ \A b \in added : \E slot \in Listed : SameBlinker(b, blink_array[slot])
    /\ \A slot \in Listed : \E b \in added : SameBlinker(b, blink_array[slot])
    /\ Len(blink_list) = Cardinality(added)

FishInv == FishTypes /\ Taken /\ Apart /\ Counted /\ BlinkersShown

-----------------------------------------------------------------------------
(***************************************************************************)
(* Least numbers and lists.                                                *)
(***************************************************************************)
LEMMA MinIsIn ==
    ASSUME NEW T, T \subseteq Nat, T # {}
    PROVE  Min(T) \in T
  <1> DEFINE R == OpToRel(<, Nat)
  <1>1. \A x, y \in Nat : x < y => <<x, y>> \in R
    BY DEF OpToRel
  <1>2. IsWellFoundedOn(R, Nat)
    BY NatLessThanWellFounded
  <1> HIDE DEF R
  <1>3. PICK x \in T : \A y \in T : ~ (<<y, x>> \in R)
    BY <1>2, WFMin
  <1>4. \A y \in T : ~ (y < x)
    BY <1>1, <1>3
  <1>5. \A y \in T : x <= y
    BY <1>4
  <1> QED
    BY <1>3, <1>5 DEF Min

\* A list with one element more in front.
LEMMA PushedFront ==
    ASSUME NEW S, NEW s \in Seq(S), NEW x \in S, x \notin ToSet(s), IsInjective(s)
    PROVE  LET r == <<x>> \o s IN
           /\ r \in Seq(S) /\ Len(r) = Len(s) + 1
           /\ ToSet(r) = ToSet(s) \cup {x} /\ IsInjective(r)
  <1> DEFINE r == <<x>> \o s
  <1>1. r \in Seq(S) /\ Len(r) = Len(s) + 1 /\ DOMAIN r = 1 .. Len(s) + 1
    OBVIOUS
  <1>2. r[1] = x /\ \A i \in 1 .. Len(s) : r[i + 1] = s[i]
    OBVIOUS
  <1>3. DOMAIN s = 1 .. Len(s) /\ Len(s) \in Nat
    OBVIOUS
  <1> HIDE DEF r
  <1>4. \A i \in DOMAIN r : i = 1 \/ (i - 1 \in DOMAIN s /\ r[i] = s[i - 1])
    BY <1>1, <1>2, <1>3
  <1>5. \A i \in DOMAIN s : i + 1 \in DOMAIN r /\ r[i + 1] = s[i]
    BY <1>1, <1>2, <1>3
  <1>6. 1 \in DOMAIN r
    BY <1>1, <1>3
  <1>7. ToSet(r) = ToSet(s) \cup {x}
    BY <1>2, <1>4, <1>5, <1>6 DEF ToSet
  <1>8. IsInjective(r)
    <2> SUFFICES ASSUME NEW i \in DOMAIN r, NEW j \in DOMAIN r, r[i] = r[j]
                 PROVE  i = j
      BY DEF IsInjective
    <2>1. \A k \in DOMAIN s : s[k] # x
      BY DEF ToSet
    <2>2. CASE i = 1
      BY <2>1, <2>2, <1>2, <1>4
    <2>3. CASE j = 1
      BY <2>1, <2>3, <1>2, <1>4
    <2>4. CASE i # 1 /\ j # 1
      <3>1. i - 1 = j - 1
        BY <2>4, <1>4 DEF IsInjective
      <3> QED
        BY <3>1, <1>1
    <2> QED
      BY <2>2, <2>3, <2>4
  <1> QED
    BY <1>1, <1>7, <1>8 DEF r

LEMMA Joined ==
    ASSUME NEW S, NEW a \in Seq(S), NEW b \in Seq(S), NEW m, NEW n,
           m = Len(a), n = Len(b)
    PROVE  /\ a \o b \in Seq(S) /\ Len(a \o b) = m + n
           /\ \A i \in 1 .. m : (a \o b)[i] = a[i]
           /\ \A i \in 1 .. n : (a \o b)[m + i] = b[i]
  OBVIOUS

\* A list with one element less.
LEMMA OneRemoved ==
    ASSUME NEW S, NEW s \in Seq(S), NEW k \in DOMAIN s, IsInjective(s)
    PROVE  LET r == RemoveAt(s, k) IN
           /\ r \in Seq(S) /\ Len(r) = Len(s) - 1
           /\ ToSet(r) = ToSet(s) \ {s[k]} /\ IsInjective(r)
  <1> DEFINE a == SubSeq(s, 1, k - 1)
             b == SubSeq(s, k + 1, Len(s))
             r == a \o b
  <1>1. DOMAIN s = 1 .. Len(s) /\ Len(s) \in Nat /\ k \in 1 .. Len(s)
    OBVIOUS
  <1>2. a \in Seq(S) /\ Len(a) = k - 1 /\ \A i \in 1 .. k - 1 : a[i] = s[i]
    BY <1>1
  <1>3. /\ b \in Seq(S) /\ Len(b) = Len(s) - k
        /\ \A i \in 1 .. Len(s) - k : b[i] = s[k + i]
    BY <1>1
  <1> HIDE DEF a, b
  <1>4. /\ r \in Seq(S) /\ Len(r) = Len(a) + Len(b)
        /\ \A i \in 1 .. Len(a) : r[i] = a[i]
        /\ \A i \in 1 .. Len(b) : r[Len(a) + i] = b[i]
    <2>1. a \in Seq(S)
      BY <1>2
    <2>2. b \in Seq(S)
      BY <1>3
    <2> QED
      BY ONLY <2>1, <2>2, Joined
  <1>5. RemoveAt(s, k) = r
    BY DEF RemoveAt, a, b
  <1> HIDE DEF r
  <1>6. Len(r) = Len(s) - 1 /\ DOMAIN r = 1 .. Len(s) - 1
    BY <1>1, <1>2, <1>3, <1>4
  <1>7. \A i \in 1 .. Len(s) - 1 : r[i] = IF i < k THEN s[i] ELSE s[i + 1]
    <2> TAKE i \in 1 .. Len(s) - 1
    <2>1. CASE i < k
      <3>1. i \in 1 .. k - 1 /\ i \in 1 .. Len(a)
        BY <2>1, <1>1, <1>2
      <3> QED
        BY <2>1, <3>1, <1>2, <1>4
    <2>2. CASE ~ (i < k)
      <3>1. /\ i - Len(a) \in 1 .. Len(b) /\ Len(a) + (i - Len(a)) = i
            /\ i - Len(a) \in 1 .. Len(s) - k /\ k + (i - Len(a)) = i + 1
        BY <2>2, <1>1, <1>2, <1>3
      <3>2. r[i] = b[i - Len(a)] /\ b[i - Len(a)] = s[i + 1]
        BY <3>1, <1>3, <1>4
      <3> QED
        BY <3>2, <2>2
    <2> QED
      BY <2>1, <2>2
  <1> DEFINE Old(i) == IF i < k THEN i ELSE i + 1
  <1>8. \A i \in DOMAIN r : Old(i) \in DOMAIN s /\ Old(i) # k /\ r[i] = s[Old(i)]
    BY <1>1, <1>6, <1>7
  <1>9. \A i, j \in DOMAIN r : Old(i) = Old(j) => i = j
    BY <1>1, <1>6
  <1>10. \A j \in DOMAIN s : j # k => \E i \in DOMAIN r : Old(i) = j
    <2> TAKE j \in DOMAIN s
    <2> HAVE j # k
    <2>1. CASE j < k
      <3>1. j \in DOMAIN r
        BY <2>1, <1>1, <1>6
      <3> QED
        BY <2>1, <3>1
    <2>2. CASE j > k
      <3>1. j - 1 \in DOMAIN r /\ ~ (j - 1 < k) /\ j - 1 + 1 = j
        BY <2>2, <1>1, <1>6
      <3> QED
        BY <3>1
    <2> QED
      BY <2>1, <2>2, <1>1
  <1> HIDE DEF Old
  <1>11. IsInjective(r)
    BY <1>8, <1>9 DEF IsInjective
  <1>12. ToSet(r) = ToSet(s) \ {s[k]}
    BY <1>8, <1>10 DEF ToSet, IsInjective
  <1> QED
    BY <1>4, <1>5, <1>6, <1>11, <1>12

\* mp1_find_helper finds what is in the list.
LEMMA FindIs ==
    ASSUME blink_list \in Seq(Slot), NEW l
    PROVE  /\ \A slot \in FindHelper(l) :
                  slot \in Listed /\ blink_array[slot].location = l
           /\ \A slot \in Listed :
                  blink_array[slot].location = l => FindHelper(l) # {}
  <1> DEFINE at == {i \in DOMAIN blink_list : blink_array[blink_list[i]].location = l}
  <1>1. FindHelper(l) = IF at = {} THEN {} ELSE {blink_list[Min(at)]}
    BY DEF FindHelper
  <1>2. at \subseteq Nat
    OBVIOUS
  <1>3. at # {} => Min(at) \in at
    BY <1>2, MinIsIn
  <1>4. \A i \in at : blink_list[i] \in Listed /\ blink_array[blink_list[i]].location = l
    BY DEF Listed, ToSet
  <1>5. \A slot \in Listed : blink_array[slot].location = l => at # {}
    BY DEF Listed, ToSet
  <1> HIDE DEF at
  <1> QED
    BY <1>1, <1>3, <1>4, <1>5

-----------------------------------------------------------------------------
(***************************************************************************)
(* The steps.                                                              *)
(***************************************************************************)
\* Where neither list nor places change, only the types and the screen do.
LEMMA SamePlaces ==
    ASSUME Taken, Apart, Counted, blink_list' = blink_list, added' = added,
           \A slot \in Slot :
               /\ blink_array'[slot].location = blink_array[slot].location
               /\ blink_array'[slot].on_char = blink_array[slot].on_char
               /\ blink_array'[slot].off_char = blink_array[slot].off_char
    PROVE  Taken' /\ Apart' /\ Counted' /\ Listed' = Listed
  <1>1. Listed' = Listed /\ FreeSlots' = FreeSlots
    BY DEF Listed, FreeSlots
  <1>2. Taken'
    BY <1>1 DEF Taken
  <1>3. Listed \subseteq Slot
    BY DEF Taken
  <1>4. Apart'
    BY <1>1, <1>3 DEF Apart
  <1>5. \A b, slot : slot \in Listed =>
            (SameBlinker(b, blink_array'[slot]) <=> SameBlinker(b, blink_array[slot]))
    BY <1>3 DEF SameBlinker
  <1>6. Counted'
    BY <1>1, <1>5 DEF Counted
  <1> QED
    BY <1>1, <1>2, <1>4, <1>6

LEMMA AddKeeps ==
    ASSUME FishInv, NEW b \in Blinkers, mp1_ioctl_find(b.location) = {},
           mp1_ioctl_add(b)
    PROVE  FishInv'
  <1> DEFINE slot == Min(FreeSlots)
             new == [location |-> b.location, on_char |-> b.on_char,
                     off_char |-> b.off_char, on_length |-> b.on_length,
                     off_length |-> b.off_length, countdown |-> b.on_length,
                     status |-> 1]
  <1>1. /\ b.location \in Location \ {0} /\ b.location \in Nat
        /\ b.on_length \in Nat /\ b.off_length \in Nat
        /\ b.on_char \in Character /\ b.off_char \in Character
    BY FishAssumption DEF mp1_ioctl_add, Location, Character
  <1>2. slot \in FreeSlots
    <2>1. FreeSlots \subseteq Nat /\ FreeSlots # {}
      BY DEF mp1_ioctl_add, FreeSlots, Slot
    <2> QED
      BY <2>1, MinIsIn
  <1>3. slot \in Slot /\ slot \notin Listed
    BY <1>2 DEF FishInv, Taken, FreeSlots
  <1>4. /\ blink_array' = [blink_array EXCEPT ![slot] = new]
        /\ blink_list' = <<slot>> \o blink_list
        /\ screen' = [screen EXCEPT ![b.location] = b.on_char]
        /\ stale' = stale \ {slot}
        /\ added' = added \cup {b}
    BY DEF mp1_ioctl_add
  <1>5. \A s \in Listed : blink_array[s].location # b.location
    <2>1. FindHelper(b.location) = {}
      BY DEF mp1_ioctl_find
    <2> QED
      BY <2>1, FindIs DEF FishInv, FishTypes
  <1> HIDE DEF slot
  <1>6. /\ new \in Structure /\ new.location = b.location
        /\ new.on_char = b.on_char /\ new.off_char = b.off_char
        /\ new.status = 1
    BY <1>1 DEF Structure
  <1> HIDE DEF new
  <1>7. /\ blink_array' \in [Slot -> Structure]
        /\ blink_array'[slot] = new
        /\ \A s \in Slot : s # slot => blink_array'[s] = blink_array[s]
    BY <1>3, <1>4, <1>6 DEF FishInv, FishTypes
  <1>8. /\ blink_list' \in Seq(Slot) /\ Len(blink_list') = Len(blink_list) + 1
        /\ Listed' = Listed \cup {slot} /\ IsInjective(blink_list')
    <2>1. blink_list \in Seq(Slot) /\ IsInjective(blink_list)
      BY DEF FishInv, FishTypes, Taken
    <2> QED
      BY <2>1, <1>3, <1>4, PushedFront DEF Listed
  <1>9. Listed \subseteq Slot
    BY DEF FishInv, Taken
  <1>10. b \notin added
    BY <1>5 DEF FishInv, Counted, SameBlinker
  <1>11. /\ IsFiniteSet(added') /\ added' \subseteq Blinkers
         /\ Cardinality(added') = Cardinality(added) + 1
    <2>1. IsFiniteSet(added) /\ added \subseteq Blinkers
      BY DEF FishInv, FishTypes
    <2> QED
      BY <2>1, <1>4, <1>10, FS_AddElement
  <1>12. FishTypes'
    <2>1. DOMAIN screen' = Location
      BY <1>4 DEF FishInv, FishTypes
    <2> QED
      BY <2>1, <1>7, <1>8, <1>11 DEF FishTypes
  <1>13. Taken'
    <2>1. \A s \in Slot : s \in FreeSlots' <=> s \in FreeSlots /\ s # slot
      <3>1. blink_array'[slot].location # 0
        BY <1>1, <1>6, <1>7
      <3> QED
        BY <3>1, <1>7 DEF FreeSlots
    <2>2. FreeSlots' \subseteq Slot /\ FreeSlots \subseteq Slot
      BY DEF FreeSlots
    <2>3. Listed' = Slot \ FreeSlots'
      BY <2>1, <2>2, <1>3, <1>8 DEF FishInv, Taken
    <2> QED
      BY <2>3, <1>8 DEF Taken
  <1>14. Apart'
    <2>1. \A s \in Listed : blink_array'[s].location = blink_array[s].location
      BY <1>3, <1>7, <1>9
    <2>2. blink_array'[slot].location = b.location
      BY <1>6, <1>7
    <2> QED
      BY <2>1, <2>2, <1>1, <1>5, <1>8 DEF FishInv, Apart
  <1>15. Counted'
    <2>1. \A s \in Listed : blink_array'[s] = blink_array[s]
      BY <1>3, <1>7, <1>9
    <2>2. SameBlinker(b, blink_array'[slot])
      BY <1>6, <1>7 DEF SameBlinker
    <2>3. \A c \in added : c.location # b.location
      BY <1>5 DEF FishInv, Counted, SameBlinker
    <2>4. \A c, d \in added' : c.location = d.location => c = d
      BY <2>3, <1>4 DEF FishInv, Counted
    <2>5. \A c \in added' : \E s \in Listed' : SameBlinker(c, blink_array'[s])
      BY <2>1, <2>2, <1>4, <1>8 DEF FishInv, Counted
    <2>6. \A s \in Listed' : \E c \in added' : SameBlinker(c, blink_array'[s])
      BY <2>1, <2>2, <1>4, <1>8 DEF FishInv, Counted
    <2>7. Len(blink_list') = Cardinality(added')
      BY <1>8, <1>11 DEF FishInv, Counted
    <2> QED
      BY <2>4, <2>5, <2>6, <2>7 DEF Counted
  <1>16. BlinkersShown'
    <2>1. ASSUME NEW s \in Listed
          PROVE  screen'[blink_array'[s].location] =
                     IF blink_array'[s].status = 1 /\ s \notin stale'
                     THEN blink_array'[s].on_char ELSE blink_array'[s].off_char
      <3>1. s # slot /\ blink_array'[s] = blink_array[s]
        BY <1>3, <1>7, <1>9
      <3>2. blink_array[s].location \in Location
        BY DEF FishInv, Apart
      <3>3. screen'[blink_array[s].location] = screen[blink_array[s].location]
        BY <3>2, <1>4, <1>5 DEF FishInv, FishTypes
      <3>4. s \in stale' <=> s \in stale
        BY <3>1, <1>4
      <3> QED
        BY <3>1, <3>3, <3>4 DEF FishInv, BlinkersShown, Listed
    <2>2. screen'[blink_array'[slot].location] = blink_array'[slot].on_char
      BY <1>1, <1>4, <1>6, <1>7 DEF FishInv, FishTypes
    <2>3. blink_array'[slot].status = 1 /\ slot \notin stale'
      BY <1>4, <1>6, <1>7
    <2> QED
      BY <2>1, <2>2, <2>3, <1>8 DEF BlinkersShown, Listed
  <1> QED
    BY <1>12, <1>13, <1>14, <1>15, <1>16 DEF FishInv

LEMMA RemoveKeeps ==
    ASSUME FishInv, NEW l, mp1_ioctl_remove(l)
    PROVE  FishInv'
  <1>1. PICK slot \in FindHelper(l) :
            /\ blink_list' = Unlinked(slot)
            /\ blink_array' = [blink_array EXCEPT ![slot] = Free]
            /\ added' = {b \in added : b.location # l}
            /\ UNCHANGED <<screen, stale>>
    BY DEF mp1_ioctl_remove
  <1>2. slot \in Listed /\ blink_array[slot].location = l
    BY FindIs DEF FishInv, FishTypes
  <1>3. Listed \subseteq Slot /\ slot \in Slot
    BY <1>2 DEF FishInv, Taken
  <1>4. /\ Free \in Structure /\ Free.location = 0
    BY DEF Free, Structure, Character
  <1>5. /\ blink_array' \in [Slot -> Structure]
        /\ blink_array'[slot] = Free
        /\ \A s \in Slot : s # slot => blink_array'[s] = blink_array[s]
    BY <1>1, <1>3, <1>4 DEF FishInv, FishTypes
  <1>6. /\ blink_list' \in Seq(Slot) /\ Len(blink_list') = Len(blink_list) - 1
        /\ Listed' = Listed \ {slot} /\ IsInjective(blink_list')
    <2> DEFINE k == CHOOSE i \in DOMAIN blink_list : blink_list[i] = slot
    <2>1. k \in DOMAIN blink_list /\ blink_list[k] = slot
      BY <1>2 DEF Listed, ToSet
    <2>2. blink_list' = RemoveAt(blink_list, k)
      BY <1>1 DEF Unlinked
    <2>3. blink_list \in Seq(Slot) /\ IsInjective(blink_list)
      BY DEF FishInv, FishTypes, Taken
    <2> HIDE DEF k
    <2> QED
      BY <2>1, <2>2, <2>3, OneRemoved DEF Listed
  <1>7. \A s \in Listed' : /\ s \in Listed /\ s # slot
                           /\ blink_array'[s] = blink_array[s]
    BY <1>3, <1>5, <1>6
  <1>8. PICK b \in added : SameBlinker(b, blink_array[slot])
    BY <1>2 DEF FishInv, Counted
  <1>9. added' = added \ {b}
    <2>1. b.location = l
      BY <1>2, <1>8 DEF SameBlinker
    <2>2. \A c \in added : c.location = l <=> c = b
      BY <2>1, <1>8 DEF FishInv, Counted
    <2> QED
      BY <2>2, <1>1
  <1>10. /\ IsFiniteSet(added') /\ added' \subseteq Blinkers
         /\ Cardinality(added') = Cardinality(added) - 1
    <2>1. IsFiniteSet(added) /\ added \subseteq Blinkers
      BY DEF FishInv, FishTypes
    <2> QED
      BY <2>1, <1>8, <1>9, FS_RemoveElement
  <1>11. FishTypes'
    <2>1. DOMAIN screen' = Location
      BY <1>1 DEF FishInv, FishTypes
    <2> QED
      BY <2>1, <1>5, <1>6, <1>10 DEF FishTypes
  <1>12. Taken'
    <2>1. \A s \in Slot : s \in FreeSlots' <=> s \in FreeSlots \/ s = slot
      BY <1>4, <1>5 DEF FreeSlots
    <2>2. FreeSlots' \subseteq Slot /\ FreeSlots \subseteq Slot
      BY DEF FreeSlots
    <2>3. Listed' = Slot \ FreeSlots'
      BY <2>1, <2>2, <1>3, <1>6 DEF FishInv, Taken
    <2> QED
      BY <2>3, <1>6 DEF Taken
  <1>13. Apart'
    BY <1>7 DEF FishInv, Apart
  <1>14. Counted'
    <2>1. \A c, d \in added' : c.location = d.location => c = d
      BY <1>9 DEF FishInv, Counted
    <2>2. \A c \in added' : \E s \in Listed' : SameBlinker(c, blink_array'[s])
      <3> TAKE c \in added'
      <3>1. c \in added /\ c # b
        BY <1>9
      <3>2. PICK s \in Listed : SameBlinker(c, blink_array[s])
        BY <3>1 DEF FishInv, Counted
      <3>3. s # slot
        BY <3>1, <3>2, <1>8 DEF FishInv, Counted, SameBlinker
      <3>4. s \in Listed'
        BY <3>3, <1>6
      <3> QED
        BY <3>2, <3>4, <1>7
    <2>3. \A s \in Listed' : \E c \in added' : SameBlinker(c, blink_array'[s])
      <3> TAKE s \in Listed'
      <3>1. s \in Listed /\ s # slot /\ blink_array'[s] = blink_array[s]
        BY <1>7
      <3>2. PICK c \in added : SameBlinker(c, blink_array[s])
        BY <3>1 DEF FishInv, Counted
      <3>3. c # b
        BY <3>1, <3>2, <1>2, <1>8 DEF FishInv, Apart, SameBlinker
      <3>4. c \in added'
        BY <3>3, <1>9
      <3> QED
        BY <3>1, <3>2, <3>4
    <2>4. Len(blink_list') = Cardinality(added')
      BY <1>6, <1>10 DEF FishInv, Counted
    <2> QED
      BY <2>1, <2>2, <2>3, <2>4 DEF Counted
  <1>15. BlinkersShown'
    BY <1>1, <1>7 DEF FishInv, BlinkersShown, Listed
  <1> QED
    BY <1>11, <1>12, <1>13, <1>14, <1>15 DEF FishInv

LEMMA SyncKeeps ==
    ASSUME FishInv, NEW from, NEW to, mp1_ioctl_sync(from, to)
    PROVE  FishInv'
  <1>1. PICK f \in FindHelper(from), t \in FindHelper(to) :
            LET b == blink_array[f] IN
            /\ blink_array' = [blink_array EXCEPT
                   ![t].on_length = b.on_length, ![t].off_length = b.off_length,
                   ![t].countdown = b.countdown, ![t].status = b.status]
            /\ screen' = [screen EXCEPT ![to] = blink_array[t].off_char]
            /\ stale' = stale \cup {t}
            /\ UNCHANGED <<blink_list, added>>
    BY DEF mp1_ioctl_sync
  <1>2. f \in Listed /\ t \in Listed /\ blink_array[t].location = to
    BY FindIs DEF FishInv, FishTypes
  <1>3. Listed \subseteq Slot /\ f \in Slot /\ t \in Slot
    BY <1>2 DEF FishInv, Taken
  <1> DEFINE b == blink_array[f]
             new == [blink_array[t] EXCEPT !.on_length = b.on_length,
                         !.off_length = b.off_length, !.countdown = b.countdown,
                         !.status = b.status]
  <1>4. blink_array \in [Slot -> Structure] /\ b \in Structure /\ blink_array[t] \in Structure
    BY <1>3 DEF FishInv, FishTypes
  <1>5. /\ new \in Structure /\ new.location = blink_array[t].location
        /\ new.on_char = blink_array[t].on_char /\ new.off_char = blink_array[t].off_char
    BY <1>4 DEF Structure
  <1>6. blink_array' = [blink_array EXCEPT ![t] = new]
    BY <1>1, <1>3, <1>4
  <1> HIDE DEF new
  <1>7. /\ blink_array' \in [Slot -> Structure] /\ blink_array'[t] = new
        /\ \A s \in Slot : s # t => blink_array'[s] = blink_array[s]
    BY <1>3, <1>4, <1>5, <1>6
  <1>8. \A s \in Slot : /\ blink_array'[s].location = blink_array[s].location
                        /\ blink_array'[s].on_char = blink_array[s].on_char
                        /\ blink_array'[s].off_char = blink_array[s].off_char
    BY <1>5, <1>7
  <1>9. blink_list' = blink_list /\ added' = added
    BY <1>1
  <1>10. Taken' /\ Apart' /\ Counted' /\ Listed' = Listed
    BY <1>8, <1>9, SamePlaces DEF FishInv
  <1>11. FishTypes'
    BY <1>1, <1>7, <1>9 DEF FishInv, FishTypes
  <1>12. BlinkersShown'
    <2> SUFFICES ASSUME NEW s \in Listed
                 PROVE  screen'[blink_array'[s].location] =
                            IF blink_array'[s].status = 1 /\ s \notin stale'
                            THEN blink_array'[s].on_char ELSE blink_array'[s].off_char
      BY <1>10 DEF BlinkersShown, Listed
    <2>1. /\ screen' = [screen EXCEPT ![to] = blink_array[t].off_char]
          /\ stale' = stale \cup {t} /\ DOMAIN screen = Location
      BY <1>1 DEF FishInv, FishTypes
    <2>2. blink_array[s].location \in Location /\ to \in Location
      BY <1>2 DEF FishInv, Apart
    <2>3. CASE s = t
      BY <2>1, <2>2, <2>3, <1>2, <1>3, <1>8
    <2>4. CASE s # t
      <3>1. blink_array[s].location # to
        BY <2>4, <1>2 DEF FishInv, Apart
      <3>2. blink_array'[s] = blink_array[s]
        BY <2>4, <1>3, <1>7
      <3> QED
        BY <3>1, <3>2, <2>1, <2>2, <2>4 DEF FishInv, BlinkersShown, Listed
    <2> QED
      BY <2>3, <2>4
  <1> QED
    BY <1>10, <1>11, <1>12 DEF FishInv

LEMMA ToggledIs ==
    ASSUME NEW r \in Structure
    PROVE  /\ Toggled(r) \in Structure /\ Toggled(r).status = 1 - r.status
           /\ Toggled(r).location = r.location
           /\ Toggled(r).on_char = r.on_char /\ Toggled(r).off_char = r.off_char
  <1>1. r.status \in {0, 1} /\ r.on_length \in Int /\ r.off_length \in Int
    BY DEF Structure
  <1>2. 1 - r.status \in {0, 1}
    BY <1>1
  <1> QED
    BY <1>1, <1>2 DEF Structure, Toggled

LEMMA TickedIs ==
    ASSUME NEW r \in Structure
    PROVE  LET n == [r EXCEPT !.countdown = @ - 1] IN
           /\ n \in Structure /\ n.status = r.status /\ n.location = r.location
           /\ n.on_char = r.on_char /\ n.off_char = r.off_char
  BY DEF Structure

LEMMA TaskletKeeps ==
    ASSUME FishInv, mp1_rtc_tasklet
    PROVE  FishInv'
  <1> DEFINE New(s) ==
                 IF s \notin Listed THEN blink_array[s]
                 ELSE IF s \in Due THEN Toggled(blink_array[s])
                 ELSE [blink_array[s] EXCEPT !.countdown = @ - 1]
             due(l) == {s \in Due : blink_array[s].location = l}
  <1>1. /\ blink_array' = [s \in Slot |-> New(s)]
        /\ screen' = [l \in Location |-> IF due(l) = {} THEN screen[l]
                          ELSE OtherChar(blink_array[CHOOSE s \in due(l) : TRUE])]
        /\ stale' = stale \ Due /\ blink_list' = blink_list /\ added' = added
    BY DEF mp1_rtc_tasklet, Listed
  <1>2. blink_array \in [Slot -> Structure] /\ Due \subseteq Listed /\ Listed \subseteq Slot
    BY DEF FishInv, FishTypes, Due, Listed, Taken
  <1>3. \A s \in Slot : /\ New(s) \in Structure
                        /\ New(s).location = blink_array[s].location
                        /\ New(s).on_char = blink_array[s].on_char
                        /\ New(s).off_char = blink_array[s].off_char
    <2> TAKE s \in Slot
    <2>1. blink_array[s] \in Structure
      BY <1>2
    <2>2. CASE s \notin Listed
      BY <2>1, <2>2, <1>2
    <2>3. CASE s \in Due
      BY <2>1, <2>3, <1>2, ToggledIs
    <2>4. CASE s \in Listed /\ s \notin Due
      BY <2>1, <2>4, TickedIs
    <2> QED
      BY <2>2, <2>3, <2>4
  <1>4. \A s \in Listed : New(s).status = IF s \in Due THEN 1 - blink_array[s].status
                                          ELSE blink_array[s].status
    <2> TAKE s \in Listed
    <2>1. blink_array[s] \in Structure
      BY <1>2
    <2> QED
      BY <2>1, ToggledIs, TickedIs
  <1> HIDE DEF New
  <1>5. blink_array' \in [Slot -> Structure] /\ \A s \in Slot : blink_array'[s] = New(s)
    BY <1>1, <1>3
  <1>6. Taken' /\ Apart' /\ Counted' /\ Listed' = Listed
    BY <1>1, <1>3, <1>5, SamePlaces DEF FishInv
  <1>7. FishTypes'
    BY <1>1, <1>5 DEF FishInv, FishTypes
  <1>8. BlinkersShown'
    <2> SUFFICES ASSUME NEW s \in Listed
                 PROVE  screen'[blink_array'[s].location] =
                            IF blink_array'[s].status = 1 /\ s \notin stale'
                            THEN blink_array'[s].on_char ELSE blink_array'[s].off_char
      BY <1>6 DEF BlinkersShown, Listed
    <2> DEFINE l == blink_array[s].location
    <2>1. l \in Location /\ s \in Slot /\ blink_array[s].status \in {0, 1}
      <3>1. s \in Slot /\ blink_array[s] \in Structure
        BY <1>2
      <3>2. l \in Location
        BY DEF FishInv, Apart
      <3> QED
        BY <3>1, <3>2 DEF Structure
    <2>2. /\ blink_array'[s].location = l
          /\ blink_array'[s].on_char = blink_array[s].on_char
          /\ blink_array'[s].off_char = blink_array[s].off_char
          /\ blink_array'[s].status = IF s \in Due THEN 1 - blink_array[s].status
                                      ELSE blink_array[s].status
      BY <2>1, <1>3, <1>4, <1>5
    <2>3. due(l) = IF s \in Due THEN {s} ELSE {}
      BY <1>2 DEF FishInv, Apart
    <2>4. screen'[l] = IF s \in Due THEN OtherChar(blink_array[s]) ELSE screen[l]
      BY <2>1, <2>3, <1>1
    <2>5. CASE s \in Due
      <3>1. /\ s \notin stale'
            /\ blink_array'[s].status = 1 - blink_array[s].status
            /\ screen'[l] = OtherChar(blink_array[s])
        BY <2>2, <2>4, <2>5, <1>1
      <3>2. CASE blink_array[s].status = 1
        BY <3>1, <3>2, <2>2 DEF OtherChar
      <3>3. CASE blink_array[s].status = 0
        BY <3>1, <3>3, <2>2 DEF OtherChar
      <3> QED
        BY <3>2, <3>3, <2>1
    <2>6. CASE s \notin Due
      BY <2>2, <2>4, <2>6, <1>1 DEF FishInv, BlinkersShown, Listed
    <2> QED
      BY <2>5, <2>6
  <1> QED
    BY <1>6, <1>7, <1>8 DEF FishInv

-----------------------------------------------------------------------------
LEMMA FishInvInitially == FishInit => FishInv
  <1> SUFFICES ASSUME FishInit PROVE FishInv
    OBVIOUS
  <1>1. /\ blink_array = [slot \in Slot |-> Free] /\ blink_list = <<>>
        /\ DOMAIN screen = Location /\ added = {}
    BY DEF FishInit
  <1>2. Listed = {}
    BY <1>1 DEF Listed, ToSet
  <1>3. FishTypes
    <2>1. Free \in Structure
      BY DEF Free, Structure, Character
    <2> QED
      BY <2>1, <1>1, FS_EmptySet DEF FishTypes
  <1>4. Taken
    <2>1. FreeSlots = Slot
      BY <1>1 DEF FreeSlots, Free
    <2>2. IsInjective(blink_list)
      BY <1>1 DEF IsInjective
    <2> QED
      BY <2>1, <2>2, <1>2 DEF Taken
  <1>5. Apart
    BY <1>2 DEF Apart
  <1>6. Counted
    BY <1>1, <1>2, FS_EmptySet DEF Counted
  <1>7. BlinkersShown
    BY <1>2 DEF BlinkersShown, Listed
  <1> QED
    BY <1>3, <1>4, <1>5, <1>6, <1>7 DEF FishInv

LEMMA FishInvKept == FishInv /\ [FishNext]_fishVars => FishInv'
  <1> SUFFICES ASSUME FishInv, [FishNext]_fishVars PROVE FishInv'
    OBVIOUS
  <1>1. ASSUME NEW b \in Blinkers, mp1_ioctl_find(b.location) = {}, mp1_ioctl_add(b)
        PROVE  FishInv'
    BY <1>1, AddKeeps
  <1>2. ASSUME NEW l \in Location, mp1_ioctl_remove(l)
        PROVE  FishInv'
    BY <1>2, RemoveKeeps
  <1>3. ASSUME NEW from \in Location, NEW to \in Location, mp1_ioctl_sync(from, to)
        PROVE  FishInv'
    BY <1>3, SyncKeeps
  <1>4. CASE mp1_rtc_tasklet
    BY <1>4, TaskletKeeps
  <1>5. CASE UNCHANGED fishVars
    BY <1>5 DEF fishVars, FishInv, FishTypes, Taken, Apart, Counted, BlinkersShown,
                Listed, FreeSlots
  <1> QED
    BY <1>1, <1>2, <1>3, <1>4, <1>5 DEF FishNext

\* The inductive invariant of the blinkers.
THEOREM FishInvariant == FishSpec => []FishInv
  <1>1. FishInit => FishInv
    BY FishInvInitially
  <1>2. FishInv /\ [FishNext]_fishVars => FishInv'
    BY FishInvKept
  <1> QED
    BY <1>1, <1>2, PTL DEF FishSpec

\* fish finds in its list just what it added and did not remove, and no slot of
\* the array is given out twice or lost, for arrays of any size and any order
\* of the calls (blink.S:105-237, fish.c:160-175).
THEOREM FishKeepsBlinkers == FishSpec => []BlinkersKept
  <1>1. FishInv => BlinkersKept
    <2> SUFFICES ASSUME FishInv, NEW b \in added
                 PROVE  \E found \in mp1_ioctl_find(b.location) :
                            found.on_char = b.on_char /\ found.off_char = b.off_char
      BY DEF FishInv, Taken, Counted, BlinkersKept, Listed
    <2>1. PICK slot \in Listed : SameBlinker(b, blink_array[slot])
      BY DEF FishInv, Counted
    <2>2. PICK found \in FindHelper(b.location) : TRUE
      BY <2>1, FindIs DEF FishInv, FishTypes, SameBlinker
    <2>3. found = slot
      BY <2>1, <2>2, FindIs DEF FishInv, FishTypes, Apart, SameBlinker
    <2> QED
      BY <2>1, <2>2, <2>3 DEF mp1_ioctl_find, SameBlinker
  <1> QED
    BY <1>1, FishInvariant, PTL

\* The screen shows the character that every blinker's status says, save for
\* one that was synchronised and did not change since, through ticks,
\* additions, removals and synchronisations in any order (blink.S:49-99,
\* :164-170, :277-285).
THEOREM FishShowsBlinkers == FishSpec => []BlinkersShown
  <1>1. FishInv => BlinkersShown
    BY DEF FishInv
  <1> QED
    BY <1>1, FishInvariant, PTL
=============================================================================
