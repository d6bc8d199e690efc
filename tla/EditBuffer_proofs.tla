-------------------------- MODULE EditBuffer_proofs --------------------------
(***************************************************************************)
(* What EditBuffer promises for every text, block size and ring: blocks,   *)
(* counters and marks follow the text, a save writes it whole, and an undo *)
(* restores it.  The ring is shown to hold a trail of states that its      *)
(* entries lead back through, past one state for each key press that is    *)
(* remembered.                                                             *)
(***************************************************************************)
EXTENDS EditBuffer, FiniteSetTheorems, SequenceTheorems, FunctionTheorems, WellFoundedInduction, TLAPS
-----------------------------------------------------------------------------
(* Numbers *)

\* What is left of a division.
LEMMA Division ==
  ASSUME NEW n, NEW m, n \in Int, m \in Nat \ {0}
  PROVE  n \div m \in Int /\ n % m \in 0..m - 1 /\ n = (n \div m) * m + (n % m)
<1>1. n \div m \in Int /\ n % m \in 0..m - 1
  OBVIOUS
<1> DEFINE q == n \div m
           r == n - q * m
<1>2. q * m <= n /\ n < (q + 1) * m
  BY Z3T(30)
<1>3. q \in Int /\ q * m \in Int /\ (q + 1) * m = q * m + m
  BY <1>1
<1>4. r \in 0..m - 1 /\ n = q * m + r
  BY <1>2, <1>3
<1> HIDE DEF q, r
<1>5. (q * m + r) % m = r
  BY <1>3, <1>4
<1>6. n % m = r
  BY <1>4, <1>5
<1> QED
  BY <1>1, <1>4, <1>6 DEF q

\* A number and what it leaves.
LEMMA Remainder ==
  ASSUME NEW m, NEW q, NEW r, m \in Nat \ {0}, q \in Int, r \in 0..m - 1
  PROVE  (q * m + r) % m = r /\ (q * m + r) \div m = q
  OBVIOUS

\* Around a ring of n places: how far i is ahead of b, and the place k further than b.
Ahead(i, b, n) == (i - b) % n
Place(b, k, n) == (b + k) % n

\* Once around at most.
LEMMA Around ==
  ASSUME NEW n, NEW i, n \in Nat \ {0}, i \in Int, - n <= i, i < 2 * n
  PROVE  i % n = IF i < 0 THEN i + n ELSE IF i < n THEN i ELSE i - n
<1>1. CASE i < 0
  <2>1. i + n \in 0..n - 1 /\ i = (-1) * n + (i + n)
    BY <1>1
  <2> QED
    BY <1>1, <2>1, Remainder
<1>2. CASE 0 <= i /\ i < n
  <2>1. i \in 0..n - 1 /\ i = 0 * n + i
    BY <1>2
  <2> QED
    BY <1>2, <2>1, Remainder
<1>3. CASE n <= i
  <2>1. i - n \in 0..n - 1 /\ i = 1 * n + (i - n)
    BY <1>3
  <2> QED
    BY <1>3, <2>1, Remainder
<1> QED
  BY <1>1, <1>2, <1>3

\* How far a place is ahead of b.
LEMMA AheadIs ==
  ASSUME NEW n, NEW b, NEW i, n \in Nat \ {0}, b \in 0..n - 1, i \in 0..n - 1
  PROVE  /\ Ahead(i, b, n) \in 0..n - 1
         /\ Ahead(i, b, n) = IF i >= b THEN i - b ELSE i - b + n
<1> DEFINE j == i - b
<1>1. j \in Int /\ - n <= j /\ j < 2 * n /\ j < n
  OBVIOUS
<1>2. Ahead(i, b, n) = j % n
  BY DEF Ahead
<1>3. j % n = IF j < 0 THEN j + n ELSE IF j < n THEN j ELSE j - n
  BY <1>1, Around
<1>4. Ahead(i, b, n) = IF i >= b THEN i - b ELSE i - b + n
  BY <1>1, <1>2, <1>3
<1> QED
  BY <1>4

\* The place k further than b, or further back.
LEMMA PlaceIs ==
  ASSUME NEW n, NEW b, NEW k, n \in Nat \ {0}, b \in 0..n - 1, k \in Int, - n <= k, k <= n
  PROVE  /\ Place(b, k, n) \in 0..n - 1
         /\ Place(b, k, n) = IF b + k < 0 THEN b + k + n ELSE IF b + k < n THEN b + k ELSE b + k - n
<1> DEFINE j == b + k
<1>1. j \in Int /\ - n <= j /\ j < 2 * n
  OBVIOUS
<1>2. Place(b, k, n) = j % n
  BY DEF Place
<1>3. j % n = IF j < 0 THEN j + n ELSE IF j < n THEN j ELSE j - n
  BY <1>1, Around
<1>4. Place(b, k, n) = IF b + k < 0 THEN b + k + n ELSE IF b + k < n THEN b + k ELSE b + k - n
  BY <1>2, <1>3
<1> QED
  BY <1>4

\* There and back.
LEMMA AheadOfPlace ==
  ASSUME NEW n, NEW b, NEW k, n \in Nat \ {0}, b \in 0..n - 1, k \in 0..n - 1
  PROVE  /\ Place(b, k, n) \in 0..n - 1
         /\ Place(b, k, n) = IF b + k < n THEN b + k ELSE b + k - n
         /\ Ahead(Place(b, k, n), b, n) = k
<1>1. - n <= k /\ k <= n /\ k \in Int /\ ~ (b + k < 0)
  OBVIOUS
<1> DEFINE c == Place(b, k, n)
<1>2. c \in 0..n - 1 /\ c = IF b + k < n THEN b + k ELSE b + k - n
  BY <1>1, PlaceIs
<1> HIDE DEF c
<1>3. Ahead(c, b, n) = IF c >= b THEN c - b ELSE c - b + n
  BY <1>2, AheadIs
<1>4. Ahead(c, b, n) = k
  BY <1>2, <1>3
<1> QED
  BY <1>2, <1>4 DEF c

\* From one place up to another.
LEMMA PlaceOfAhead ==
  ASSUME NEW n, NEW b, NEW p, NEW d, n \in Nat \ {0}, b \in 0..n - 1, p \in 0..n - 1, d \in Nat,
         d = Ahead(p, b, n)
  PROVE  d \in 0..n - 1 /\ Place(b, d, n) = p /\ (d = 0 <=> p = b)
<1>1. d \in 0..n - 1 /\ d = IF p >= b THEN p - b ELSE p - b + n
  BY AheadIs
<1>2. Place(b, d, n) = IF b + d < n THEN b + d ELSE b + d - n
  BY <1>1, AheadOfPlace
<1> QED
  BY <1>1, <1>2

\* What is left of the way from i further than b.
LEMMA WayLeft ==
  ASSUME NEW n \in Nat \ {0}, NEW b \in 0..n - 1, NEW p \in 0..n - 1, NEW d \in Nat, d = Ahead(p, b, n),
         NEW i \in 0..d, NEW c \in Int, c = Place(b, i, n)
  PROVE  /\ c \in 0..n - 1 /\ Ahead(p, c, n) = d - i
         /\ \A k \in 0..d - i - 1 : Place(c, k, n) = Place(b, k + i, n)
<1>1. d \in 0..n - 1 /\ d = IF p >= b THEN p - b ELSE p - b + n
  BY AheadIs
<1>2. i \in 0..n - 1
  BY <1>1
<1>3. c \in 0..n - 1 /\ c = IF b + i < n THEN b + i ELSE b + i - n
  BY <1>2, AheadOfPlace
<1>4. Ahead(p, c, n) = IF p >= c THEN p - c ELSE p - c + n
  BY <1>3, AheadIs
<1>5. Ahead(p, c, n) = d - i
  BY <1>1, <1>3, <1>4
<1>6. ASSUME NEW k \in 0..d - i - 1 PROVE Place(c, k, n) = Place(b, k + i, n)
  <2> DEFINE m == k + i
  <2>1. k \in 0..n - 1 /\ m \in 0..n - 1
    BY <1>1
  <2>2. Place(c, k, n) = IF c + k < n THEN c + k ELSE c + k - n
    BY <1>3, <2>1, AheadOfPlace
  <2>3. Place(b, m, n) = IF b + m < n THEN b + m ELSE b + m - n
    BY <2>1, AheadOfPlace
  <2> QED
    BY <1>1, <1>3, <2>1, <2>2, <2>3
<1> QED
  BY <1>3, <1>5, <1>6

-----------------------------------------------------------------------------
(* The ring *)

\* The slots in use, from the bottom up.
Depth(st) == Ahead(st.sp, st.bottom, stack_size(st))
Slot(st, k) == st.ring[Place(st.bottom, k - 1, stack_size(st))]

\* A ring of places, of which some are in use, that grows to the size max; it begins at the
\* first place until then.
Ring(st, max) ==
  /\ DOMAIN st = {"ring", "bottom", "sp"}
  /\ stack_size(st) \in Nat /\ stack_size(st) >= StartStack
  /\ DOMAIN st.ring = 0..stack_size(st) - 1
  /\ st.sp \in 0..stack_size(st) - 1 /\ st.bottom \in 0..stack_size(st) - 1
  /\ Depth(st) <= stack_size(st) - 4
  /\ \A i \in 0..stack_size(st) - 1 : Ahead(i, st.bottom, stack_size(st)) >= Depth(st) => st.ring[i] = Nothing
  /\ stack_size(st) < max => st.bottom = 0 /\ st.sp <= stack_size(st) - Slack + 1

\* The constants.
LEMMA Bounds ==
  /\ StartStack \in Nat /\ Slack \in Nat /\ StartStack > Slack /\ Slack > 4
  /\ BufSize \in Nat \ {0, 1} /\ MaxBuff \in Nat \ {0, 1} /\ NewLine \in Char
  BY EditAssumption DEF EditAssumption

\* The number of places.
LEMMA SizeOfRing ==
  ASSUME NEW n, n \in Nat
  PROVE  Cardinality(0..n - 1) = n
  BY FS_Interval

\* What Stack makes of some places.
LEMMA StackRing ==
  ASSUME NEW r, NEW n \in Nat, n >= StartStack, DOMAIN r = 0..n - 1,
         NEW b \in 0..n - 1, NEW p \in 0..n - 1, Ahead(p, b, n) <= n - 4,
         NEW max, n < max => b = 0 /\ p <= n - Slack + 1,
         NEW st, st = Stack(r, b, p)
  PROVE  /\ Ring(st, max) /\ stack_size(st) = n /\ st.sp = p /\ st.bottom = b
         /\ Depth(st) = Ahead(p, b, n)
         /\ \A k \in 1..Ahead(p, b, n) : Slot(st, k) = r[Place(b, k - 1, n)]
<1>1. Cardinality(DOMAIN r) = n
  BY SizeOfRing
<1>2. st = [ring |-> [i \in 0..n - 1 |-> IF Ahead(i, b, n) < Ahead(p, b, n) THEN r[i] ELSE Nothing],
            bottom |-> b, sp |-> p]
  BY <1>1 DEF Stack, Ahead
<1>3. /\ DOMAIN st = {"ring", "bottom", "sp"} /\ DOMAIN st.ring = 0..n - 1 /\ st.sp = p /\ st.bottom = b
      /\ st.ring = [i \in 0..n - 1 |-> IF Ahead(i, b, n) < Ahead(p, b, n) THEN r[i] ELSE Nothing]
  BY <1>2
<1>4. stack_size(st) = n
  BY <1>3, SizeOfRing DEF stack_size
<1>5. Depth(st) = Ahead(p, b, n)
  BY <1>3, <1>4 DEF Depth
<1> DEFINE d == Ahead(p, b, n)
<1>6. n \in Nat \ {0}
  BY Bounds
<1>7. \A i \in 0..n - 1 : Ahead(i, b, n) \in 0..n - 1
  BY <1>6, AheadIs
<1>8. d \in 0..n - 1
  BY <1>7
<1> HIDE DEF d
<1>9. \A i \in 0..n - 1 : Ahead(i, b, n) >= d => st.ring[i] = Nothing
  BY <1>3, <1>8, <1>7 DEF d
<1>10. ASSUME NEW k \in 1..d PROVE Slot(st, k) = r[Place(b, k - 1, n)]
  <2>1. k - 1 \in 0..n - 1 /\ k - 1 < d
    BY <1>8
  <2>2. Place(b, k - 1, n) \in 0..n - 1 /\ Ahead(Place(b, k - 1, n), b, n) = k - 1
    BY <1>6, <2>1, AheadOfPlace
  <2>3. Slot(st, k) = st.ring[Place(b, k - 1, n)]
    BY <1>3, <1>4 DEF Slot
  <2> QED
    BY <1>3, <2>1, <2>2, <2>3 DEF d
<1>11. Ring(st, max)
  BY <1>3, <1>4, <1>5, <1>6, <1>9 DEF Ring, d
<1> QED
  BY <1>3, <1>4, <1>5, <1>10, <1>11 DEF d

\* A stack with nothing on it.
LEMMA EmptyRing ==
  ASSUME NEW n, NEW max, NEW st, n \in Nat, n >= StartStack, st = EmptyStack(n)
  PROVE  Ring(st, max) /\ stack_size(st) = n /\ st.sp = 0 /\ st.bottom = 0 /\ Depth(st) = 0
<1> DEFINE r == [i \in 0..n - 1 |-> Nothing]
<1>1. 0 \in 0..n - 1 /\ n \in Nat \ {0} /\ 0 <= n - 4 /\ 0 <= n - Slack + 1
  BY Bounds
<1>2. Ahead(0, 0, n) = 0
  BY <1>1, AheadIs
<1>3. st = Stack(r, 0, 0) /\ DOMAIN r = 0..n - 1
  BY DEF EmptyStack
<1> HIDE DEF r
<1> QED
  BY <1>1, <1>2, <1>3, StackRing

\* Doubling a ring that has begun at its first place changes nothing in it.
LEMMA EnlargedRing ==
  ASSUME NEW st, NEW big, option_max_undo \in Nat, Ring(st, option_max_undo), big = Enlarged(st)
  PROVE  /\ Ring(big, option_max_undo) /\ big.sp = st.sp /\ big.bottom = st.bottom /\ Depth(big) = Depth(st)
         /\ \A k \in 1..Depth(st) : Slot(big, k) = Slot(st, k)
         /\ stack_size(big) < option_max_undo => big.sp <= stack_size(big) - Slack
<1> DEFINE n == stack_size(st)
           m == 2 * n
<1>1. CASE ~ (st.sp > n - Slack /\ n < option_max_undo)
  <2>1. big = st
    BY <1>1 DEF Enlarged
  <2>2. st.sp \in Nat /\ n \in Nat
    BY DEF Ring
  <2> QED
    BY <1>1, <2>1, <2>2, Bounds
<1>2. CASE st.sp > n - Slack /\ n < option_max_undo
  <2>1. n \in Nat \ {0} /\ n > Slack /\ n >= StartStack /\ st.bottom = 0 /\ st.sp \in 0..n - 1 /\ st.sp <= n - Slack + 1
    BY <1>2, Bounds DEF Ring
  <2>2. big = [st EXCEPT !.ring = [i \in 0..2 * n - 1 |-> IF i \in DOMAIN st.ring THEN st.ring[i] ELSE Nothing]]
    BY <1>2 DEF Enlarged
  <2>3. /\ DOMAIN big = {"ring", "bottom", "sp"} /\ big.sp = st.sp /\ big.bottom = 0
        /\ big.ring = [i \in 0..m - 1 |-> IF i \in 0..n - 1 THEN st.ring[i] ELSE Nothing]
        /\ DOMAIN big.ring = 0..m - 1
    BY <2>1, <2>2 DEF Ring
  <2>4. m \in Nat \ {0} /\ m >= n /\ m >= StartStack /\ m - Slack >= n + 1
    BY <2>1, Bounds
  <2>5. stack_size(big) = m
    BY <2>3, <2>4, SizeOfRing DEF stack_size
  <2>6. /\ \A i \in 0..n - 1 : Ahead(i, 0, n) = i
        /\ \A i \in 0..m - 1 : Ahead(i, 0, m) = i
    <3>1. 0 \in 0..n - 1 /\ 0 \in 0..m - 1
      BY <2>1, <2>4
    <3> HIDE DEF n, m
    <3>2. \A i \in 0..n - 1 : Ahead(i, 0, n) = i
      BY <2>1, <3>1, AheadIs
    <3>3. \A i \in 0..m - 1 : Ahead(i, 0, m) = i
      BY <2>4, <3>1, AheadIs
    <3> QED
      BY <3>2, <3>3
  <2>7. st.sp \in 0..m - 1 /\ 0 \in 0..m - 1
    BY <2>1, <2>4
  <2>8. Depth(st) = st.sp /\ Depth(big) = st.sp
    BY <2>1, <2>3, <2>5, <2>6, <2>7 DEF Depth
  <2>9. ASSUME NEW k \in 1..st.sp PROVE Slot(big, k) = Slot(st, k)
    <3>1. k - 1 \in 0..n - 1 /\ k - 1 \in 0..m - 1
      BY <2>1, <2>4
    <3>2. Place(0, k - 1, n) = k - 1 /\ Place(0, k - 1, m) = k - 1
      <4> DEFINE i == k - 1
      <4>1. i \in 0..n - 1 /\ i \in 0..m - 1 /\ 0 \in 0..n - 1 /\ 0 \in 0..m - 1
        BY <2>1, <2>4, <3>1
      <4> HIDE DEF i, n, m
      <4>2. Place(0, i, n) = IF 0 + i < n THEN 0 + i ELSE 0 + i - n
        BY <2>1, <4>1, AheadOfPlace
      <4>3. Place(0, i, m) = IF 0 + i < m THEN 0 + i ELSE 0 + i - m
        BY <2>4, <4>1, AheadOfPlace
      <4>4. 0 + i = i /\ i < n /\ i < m
        BY <2>1, <2>4, <4>1
      <4> QED
        BY <4>2, <4>3, <4>4 DEF i
    <3>3. Slot(st, k) = st.ring[k - 1] /\ Slot(big, k) = big.ring[k - 1]
      BY <2>1, <2>3, <2>5, <3>2 DEF Slot
    <3> QED
      BY <2>3, <3>1, <3>3
  <2>10. ASSUME NEW i \in 0..m - 1, i >= st.sp PROVE big.ring[i] = Nothing
    <3>1. CASE i \in 0..n - 1
      <4>1. Ahead(i, 0, n) = i
        BY <2>6, <3>1
      <4>2. st.ring[i] = Nothing
        BY <2>1, <2>8, <2>10, <3>1, <4>1 DEF Ring
      <4> QED
        BY <2>3, <3>1, <4>2
    <3>2. CASE i \notin 0..n - 1
      BY <2>3, <3>2
    <3> QED
      BY <3>1, <3>2
  <2>11. \A i \in 0..m - 1 : Ahead(i, 0, m) >= st.sp => big.ring[i] = Nothing
    BY <2>6, <2>10
  <2> HIDE DEF n, m
  <2>12. st.sp <= m - 4 /\ st.sp <= m - Slack
    BY <2>1, <2>4, Bounds
  <2>13. st.sp <= m - Slack + 1
    BY <2>1, <2>4, <2>12, Bounds
  <2>14. Ring(big, option_max_undo)
    BY <2>3, <2>4, <2>5, <2>7, <2>8, <2>11, <2>12, <2>13 DEF Ring
  <2> QED
    BY <2>1, <2>3, <2>5, <2>8, <2>9, <2>12, <2>14
<1> QED
  BY <1>1, <1>2

\* A set of naturals that is not empty has a least element.
LEMMA LeastOf ==
  ASSUME NEW S, S \subseteq Nat, S # {}
  PROVE  \E x \in S : \A y \in S : x <= y
<1> DEFINE R == OpToRel(<, Nat)
<1>1. \A m, n \in Nat : m < n => <<m, n>> \in R
  BY DEF OpToRel
<1>2. IsWellFoundedOn(R, Nat)
  BY NatLessThanWellFounded
<1> HIDE DEF R
<1>3. PICK x \in S : \A y \in S : ~ (<<y, x>> \in R)
  BY <1>2, WFMin
<1>4. ASSUME NEW y \in S, ~ (x <= y) PROVE FALSE
  <2>1. <<y, x>> \in R
    BY <1>1, <1>4
  <2> QED
    BY <1>3, <2>1
<1> QED
  BY <1>4

\* The bottom goes up to a key press, or to the pointer.
LEMMA NextKeyIs ==
  ASSUME NEW r, NEW n, NEW b, NEW p, n \in Nat \ {0}, DOMAIN r = 0..n - 1, b \in 0..n - 1,
         p \in 0..n - 1, p # b
  PROVE  \E i \in 1..Ahead(p, b, n) :
           /\ NextKey(r, b, p) = Place(b, i, n)
           /\ i # Ahead(p, b, n) => IsKey(r[Place(b, i, n)])
           /\ \A j \in 1..i - 1 : ~ IsKey(r[Place(b, j, n)])
<1> DEFINE Stops(i) == IsKey(r[Place(b, i, n)]) \/ Place(b, i, n) = p
           Stop(i) == Stops(i) /\ \A j \in 1..i - 1 : ~ Stops(j)
           d == Ahead(p, b, n)
           S == {i \in 1..n : Stops(i)}
<1>1. Cardinality(DOMAIN r) = n
  BY SizeOfRing
<1>2. NextKey(r, b, p) = Place(b, CHOOSE i \in 1..n : Stop(i), n)
  BY <1>1 DEF NextKey, Place
<1>3. /\ d \in 1..n - 1 /\ Place(b, d, n) = p
      /\ \A i \in 1..n - 1 : Place(b, i, n) = IF b + i < n THEN b + i ELSE b + i - n
  <2>1. d \in 0..n - 1
    BY AheadIs
  <2> HIDE DEF d
  <2>2. Place(b, d, n) = p /\ (d = 0 <=> p = b)
    BY <2>1, PlaceOfAhead DEF d
  <2>3. \A i \in 1..n - 1 : Place(b, i, n) = IF b + i < n THEN b + i ELSE b + i - n
    BY AheadOfPlace
  <2> QED
    BY <2>1, <2>2, <2>3
<1>4. Place(b, d, n) = p
  BY <1>3
<1> HIDE DEF d
<1>5. d \in S
  BY <1>3, <1>4
<1>6. PICK i \in S : \A j \in S : i <= j
  <2>1. \A i \in S : i \in Nat
    OBVIOUS
  <2> HIDE DEF S
  <2>2. S \subseteq Nat /\ S # {}
    BY <1>5, <2>1
  <2> QED
    BY <2>2, LeastOf
<1>7. i \in 1..n /\ i <= d /\ Stop(i)
  <2>1. i \in 1..n /\ Stops(i) /\ i <= d
    BY <1>5, <1>6
  <2>2. ASSUME NEW j \in 1..i - 1, Stops(j) PROVE FALSE
    <3>1. j \in S
      BY <2>1, <2>2
    <3>2. i <= j
      BY <1>6, <3>1
    <3> QED
      BY <2>1, <2>2, <3>2
  <2> QED
    BY <2>1, <2>2
<1> DEFINE c == CHOOSE j \in 1..n : Stop(j)
<1>8. c \in 1..n /\ Stop(c)
  BY <1>7
<1> HIDE DEF c
<1>9. c <= d
  <2> SUFFICES ASSUME c > d PROVE FALSE
    BY <1>3, <1>8
  <2>1. d \in 1..c - 1 /\ Stops(d)
    BY <1>3, <1>4, <1>8
  <2> QED
    BY <1>8, <2>1
<1>10. c # d => IsKey(r[Place(b, c, n)])
  <2> SUFFICES ASSUME c # d, Place(b, c, n) = p PROVE FALSE
    BY <1>8
  <2>1. c \in 1..n - 1
    BY <1>3, <1>8, <1>9
  <2>2. Place(b, c, n) = IF b + c < n THEN b + c ELSE b + c - n
    BY <1>3, <2>1
  <2>3. Place(b, d, n) = IF b + d < n THEN b + d ELSE b + d - n
    BY <1>3
  <2> QED
    BY <1>3, <1>4, <2>1, <2>2, <2>3
<1>11. NextKey(r, b, p) = Place(b, c, n)
  BY <1>2 DEF c
<1>12. c \in 1..d
  BY <1>3, <1>8, <1>9
<1>13. \A j \in 1..c - 1 : ~ IsKey(r[Place(b, j, n)])
  BY <1>8
<1> QED
  BY <1>10, <1>11, <1>12, <1>13 DEF d

\* The stack st is what remains of ring r of n places, used from b up to p, which is d further, without
\* the j slots at the bottom.
Remains(st, r, n, b, p, d, j) ==
  /\ Depth(st) = d - j
  /\ \A k \in 1..d - j : Slot(st, k) = r[Place(b, k + j - 1, n)]
  /\ j # d => st.sp = p /\ IsKey(r[Place(b, j, n)])
  /\ IsKey(r[b]) /\ IsKey(r[Place(b, d - 1, n)]) => j # d

\* A ring that is nearly used up loses its oldest key press with what follows it; if there is no key
\* press at its bottom it loses everything.
LEMMA CheckedRing ==
  ASSUME NEW r, NEW n \in Nat, n >= StartStack, DOMAIN r = 0..n - 1,
         NEW b \in 0..n - 1, NEW p \in 0..n - 1, NEW d, d = Ahead(p, b, n), d # 0, d <= n - 3,
         NEW max, n < max => b = 0 /\ p <= n - Slack + 1,
         NEW st, st = CheckBottom(r, b, p)
  PROVE  /\ Ring(st, max) /\ stack_size(st) = n
         /\ \E j \in 0..d : Remains(st, r, n, b, p, d, j)
<1>1. n \in Nat \ {0} /\ n >= 6
  BY Bounds
<1>2. d \in 1..n - 3 /\ Place(b, d, n) = p /\ p # b
  <2>1. d \in 0..n - 1
    BY <1>1, AheadIs
  <2>2. Place(b, d, n) = p /\ (d = 0 <=> p = b)
    BY <1>1, <2>1, PlaceOfAhead
  <2> QED
    BY <1>1, <2>1, <2>2
<1>3. Cardinality(DOMAIN r) = n
  BY SizeOfRing
<1> DEFINE full == b \in {Place(p, 2, n), Place(p, 3, n)}
           c == IF full THEN NextKey(r, b, p) ELSE b
<1>4. st = IF p # c /\ ~ IsKey(r[c]) THEN EmptyStack(n) ELSE Stack(r, c, p)
  <2>1. full <=> b \in {(p + 2) % n, (p + 3) % n}
    BY DEF Place
  <2> HIDE DEF full
  <2> QED
    BY <1>3, <2>1 DEF CheckBottom
<1>5. Place(p, 2, n) = IF p + 2 < n THEN p + 2 ELSE p + 2 - n
  <2>1. 2 \in 0..n - 1
    BY <1>1
  <2> QED
    BY <1>1, <2>1, AheadOfPlace
<1>6. Place(p, 3, n) = IF p + 3 < n THEN p + 3 ELSE p + 3 - n
  <2>1. 3 \in 0..n - 1
    BY <1>1
  <2> QED
    BY <1>1, <2>1, AheadOfPlace
<1>7. d = IF p >= b THEN p - b ELSE p - b + n
  BY <1>1, AheadIs
<1>8. IF full THEN d \in {n - 2, n - 3} /\ ~ (n < max) ELSE d <= n - 4
  <2>1. full => d \in {n - 2, n - 3}
    BY <1>1, <1>5, <1>6, <1>7
  <2>2. d \in 1..n - 3
    BY <1>2
  <2>3. ASSUME full, n < max PROVE FALSE
    <3>1. b = 0 /\ p <= n - Slack + 1
      BY <2>3
    <3>2. p + 3 < n
      BY <1>1, <3>1, Bounds
    <3> QED
      BY <1>5, <1>6, <2>3, <3>1, <3>2
  <2>4. ~ full => d # n - 3
    <3> SUFFICES ASSUME d = n - 3 PROVE b = Place(p, 3, n)
      OBVIOUS
    <3> QED
      BY <1>1, <1>6, <1>7
  <2> HIDE DEF full
  <2> QED
    BY <2>1, <2>3, <2>4, <2>2
<1>9. ASSUME NEW j \in 0..d, c = Place(b, j, n), j # d => IsKey(r[c]), d - j <= n - 4, n < max => c = 0
      PROVE  /\ Ring(st, max) /\ stack_size(st) = n /\ Depth(st) = d - j /\ st.sp = p
             /\ \A k \in 1..d - j : Slot(st, k) = r[Place(b, k + j - 1, n)]
  <2> HIDE DEF c
  <2>1. d \in Nat /\ c \in Int
    BY <1>1, <1>2, <1>9, AheadOfPlace
  <2>2. /\ c \in 0..n - 1 /\ Ahead(p, c, n) = d - j
        /\ \A k \in 0..d - j - 1 : Place(c, k, n) = Place(b, k + j, n)
    BY <1>1, <1>9, <2>1, WayLeft
  <2>3. ASSUME NEW k \in 1..d - j PROVE Place(c, k - 1, n) = Place(b, k + j - 1, n)
    <3>1. k - 1 \in 0..d - j - 1 /\ (k - 1) + j = k + j - 1
      BY <1>2
    <3> QED
      BY <2>2, <3>1
  <2>4. /\ c \in 0..n - 1 /\ Ahead(p, c, n) = d - j
        /\ \A k \in 1..d - j : Place(c, k - 1, n) = Place(b, k + j - 1, n)
    BY <2>2, <2>3
  <2>5. p # c => IsKey(r[c])
    BY <1>2, <1>9
  <2>6. st = Stack(r, c, p)
    BY <1>4, <2>5
  <2>7. c \in 0..n - 1 /\ Ahead(p, c, n) <= n - 4 /\ (n < max => c = 0 /\ p <= n - Slack + 1)
    BY <1>9, <2>4
  <2>8. /\ Ring(st, max) /\ stack_size(st) = n /\ st.sp = p /\ Depth(st) = Ahead(p, c, n)
        /\ \A k \in 1..Ahead(p, c, n) : Slot(st, k) = r[Place(c, k - 1, n)]
    BY <2>6, <2>7, StackRing
  <2> QED
    BY <2>4, <2>8
<1>10. CASE full
  <2>1. PICK i \in 1..d : /\ NextKey(r, b, p) = Place(b, i, n)
                          /\ i # d => IsKey(r[Place(b, i, n)])
                          /\ \A j \in 1..i - 1 : ~ IsKey(r[Place(b, j, n)])
    BY <1>1, <1>2, NextKeyIs
  <2>2. d \in 1..n - 3
    BY <1>2
  <2>3. d - i <= n - 4 /\ ~ (n < max) /\ d >= 2
    BY <1>1, <1>8, <1>10, <2>2
  <2>4. ASSUME IsKey(r[Place(b, d - 1, n)]) PROVE i # d
    <3>1. d - 1 \in 1..d - 1
      BY <1>2, <2>3
    <3> QED
      BY <2>1, <2>4, <3>1
  <2>5. i \in 0..d /\ c = Place(b, i, n) /\ (i # d => IsKey(r[c]))
    BY <1>2, <1>10, <2>1
  <2> HIDE DEF c, full
  <2>6. /\ Ring(st, max) /\ stack_size(st) = n /\ Depth(st) = d - i /\ st.sp = p
        /\ \A k \in 1..d - i : Slot(st, k) = r[Place(b, k + i - 1, n)]
    BY <1>9, <2>3, <2>5
  <2>7. Remains(st, r, n, b, p, d, i)
    BY <2>1, <2>4, <2>6 DEF Remains
  <2> QED
    BY <2>5, <2>6, <2>7
<1>11. CASE ~ full /\ IsKey(r[b])
  <2>1. c = b /\ Place(b, 0, n) = b /\ 0 \in 0..d /\ d - 0 <= n - 4 /\ 0 # d
    <3>1. Place(b, 0, n) = b
      BY <1>1, AheadOfPlace
    <3> QED
      BY <1>2, <1>8, <1>11, <3>1
  <2> HIDE DEF c, full
  <2>2. /\ Ring(st, max) /\ stack_size(st) = n /\ Depth(st) = d - 0 /\ st.sp = p
        /\ \A k \in 1..d - 0 : Slot(st, k) = r[Place(b, k + 0 - 1, n)]
    BY <1>9, <1>11, <2>1
  <2>3. Remains(st, r, n, b, p, d, 0)
    BY <1>11, <2>1, <2>2 DEF Remains
  <2> QED
    BY <2>1, <2>2, <2>3
<1>12. CASE ~ full /\ ~ IsKey(r[b])
  <2>1. st = EmptyStack(n)
    BY <1>2, <1>4, <1>12
  <2>2. Ring(st, max) /\ stack_size(st) = n /\ Depth(st) = 0
    BY <2>1, EmptyRing
  <2>3. d \in 0..d /\ d - d = 0
    BY <1>2
  <2>4. Remains(st, r, n, b, p, d, d)
    BY <1>12, <2>2, <2>3 DEF Remains
  <2> QED
    BY <2>2, <2>3, <2>4
<1> QED
  BY <1>10, <1>11, <1>12

\* The places below one that is d further than the bottom b.
LEMMA PlacesBelow ==
  ASSUME NEW n, NEW b, NEW p, NEW d, n \in Nat \ {0}, n >= 6, b \in 0..n - 1, p \in 0..n - 1,
         d \in 0..n - 1, d = Ahead(p, b, n)
  PROVE  /\ Ahead(p, 1, n) \in 0..n - 1 /\ Ahead(p, 2, n) \in 0..n - 1
         /\ Place(b, d, n) = p /\ (d = 0 <=> p = b)
         /\ d >= 1 => Place(b, d - 1, n) = Ahead(p, 1, n)
         /\ d >= 2 => Place(b, d - 2, n) = Ahead(p, 2, n)
         /\ d <= n - 3 => (b \notin {p, Ahead(p, 1, n), Ahead(p, 2, n)} <=> d >= 3)
<1>1. d = IF p >= b THEN p - b ELSE p - b + n
  BY AheadIs
<1>2. Place(b, d, n) = p /\ (d = 0 <=> p = b)
  BY PlaceOfAhead
<1>3. Ahead(p, 1, n) \in 0..n - 1 /\ Ahead(p, 1, n) = IF p - 1 < 0 THEN p - 1 + n ELSE p - 1
  <2> DEFINE i == p - 1
  <2>1. i \in Int /\ - n <= i /\ i < 2 * n /\ i < n
    OBVIOUS
  <2>2. i % n = IF i < 0 THEN i + n ELSE IF i < n THEN i ELSE i - n
    BY <2>1, Around
  <2>3. i % n = IF i < 0 THEN i + n ELSE i
    BY <2>1, <2>2
  <2> QED
    BY <2>1, <2>3 DEF Ahead
<1>4. Ahead(p, 2, n) \in 0..n - 1 /\ Ahead(p, 2, n) = IF p - 2 < 0 THEN p - 2 + n ELSE p - 2
  <2> DEFINE i == p - 2
  <2>1. i \in Int /\ - n <= i /\ i < 2 * n /\ i < n
    OBVIOUS
  <2>2. i % n = IF i < 0 THEN i + n ELSE IF i < n THEN i ELSE i - n
    BY <2>1, Around
  <2>3. i % n = IF i < 0 THEN i + n ELSE i
    BY <2>1, <2>2
  <2> QED
    BY <2>1, <2>3 DEF Ahead
<1> DEFINE q1 == Ahead(p, 1, n)
           q2 == Ahead(p, 2, n)
<1>5. q1 = (IF p - 1 < 0 THEN p - 1 + n ELSE p - 1) /\ q2 = (IF p - 2 < 0 THEN p - 2 + n ELSE p - 2)
  BY <1>3, <1>4
<1>6. q1 \in 0..n - 1 /\ q2 \in 0..n - 1
  BY <1>3, <1>4
<1> HIDE DEF q1, q2
<1>7. ASSUME d >= 1 PROVE Place(b, d - 1, n) = q1
  <2> DEFINE i == d - 1
  <2>1. i \in 0..n - 1
    BY <1>7
  <2> HIDE DEF i
  <2>2. Place(b, i, n) = IF b + i < n THEN b + i ELSE b + i - n
    BY <2>1, AheadOfPlace
  <2>3. Place(b, i, n) = q1
    BY <1>1, <1>5, <1>7, <2>1, <2>2 DEF i
  <2> QED
    BY <2>3 DEF i
<1>8. ASSUME d >= 2 PROVE Place(b, d - 2, n) = q2
  <2> DEFINE i == d - 2
  <2>1. i \in 0..n - 1
    BY <1>8
  <2> HIDE DEF i
  <2>2. Place(b, i, n) = IF b + i < n THEN b + i ELSE b + i - n
    BY <2>1, AheadOfPlace
  <2>3. Place(b, i, n) = q2
    BY <1>1, <1>5, <1>8, <2>1, <2>2 DEF i
  <2> QED
    BY <2>3 DEF i
<1>9. ASSUME d <= n - 3 PROVE b \notin {p, q1, q2} <=> d >= 3
  BY <1>1, <1>5, <1>9
<1> QED
  BY <1>2, <1>6, <1>7, <1>8, <1>9 DEF q1, q2

\* The slots at the top.
LEMMA Tops ==
  ASSUME NEW max, NEW st, NEW n, NEW d, Ring(st, max), n = stack_size(st), d = Depth(st)
  PROVE  /\ n \in Nat \ {0} /\ n >= 6 /\ n >= StartStack /\ d \in 0..n - 4
         /\ st.sp \in 0..n - 1 /\ st.bottom \in 0..n - 1 /\ DOMAIN st.ring = 0..n - 1
         /\ (st.sp - 1) % n \in 0..n - 1 /\ (st.sp - 2) % n \in 0..n - 1
         /\ Place(st.bottom, d, n) = st.sp /\ (d = 0 <=> st.sp = st.bottom)
         /\ d >= 1 => Place(st.bottom, d - 1, n) = (st.sp - 1) % n /\ Slot(st, d) = st.ring[(st.sp - 1) % n]
         /\ d >= 2 => Place(st.bottom, d - 2, n) = (st.sp - 2) % n /\ Slot(st, d - 1) = st.ring[(st.sp - 2) % n]
         /\ st.bottom \notin {st.sp, (st.sp - 1) % n, (st.sp - 2) % n} <=> d >= 3
<1>1. /\ n \in Nat \ {0} /\ n >= 6 /\ n >= StartStack
      /\ st.bottom \in 0..n - 1 /\ st.sp \in 0..n - 1 /\ DOMAIN st.ring = 0..n - 1
  BY Bounds DEF Ring
<1>2. d = Ahead(st.sp, st.bottom, n) /\ d <= n - 4
  BY DEF Ring, Depth
<1>3. d \in 0..n - 1
  <2>1. Ahead(st.sp, st.bottom, n) \in 0..n - 1
    BY <1>1, AheadIs
  <2> QED
    BY <1>2, <2>1
<1> DEFINE b == st.bottom
           p == st.sp
<1>4. b \in 0..n - 1 /\ p \in 0..n - 1 /\ d = Ahead(p, b, n)
  BY <1>1, <1>2
<1> HIDE DEF b, p
<1>5. /\ Ahead(p, 1, n) \in 0..n - 1 /\ Ahead(p, 2, n) \in 0..n - 1
      /\ Place(b, d, n) = p /\ (d = 0 <=> p = b)
      /\ d >= 1 => Place(b, d - 1, n) = Ahead(p, 1, n)
      /\ d >= 2 => Place(b, d - 2, n) = Ahead(p, 2, n)
      /\ d <= n - 3 => (b \notin {p, Ahead(p, 1, n), Ahead(p, 2, n)} <=> d >= 3)
  BY <1>1, <1>3, <1>4, PlacesBelow
<1>6. d \in 0..n - 4 /\ d <= n - 3
  BY <1>1, <1>2, <1>3
<1>7. d >= 1 => Slot(st, d) = st.ring[Ahead(p, 1, n)]
  BY <1>5 DEF Slot, b
<1>8. d >= 2 => Slot(st, d - 1) = st.ring[Ahead(p, 2, n)]
  <2>1. (d - 1) - 1 = d - 2
    BY <1>3
  <2>2. Slot(st, d - 1) = st.ring[Place(b, d - 2, n)]
    BY <2>1 DEF Slot, b
  <2> QED
    BY <1>5, <2>2
<1> QED
  BY <1>1, <1>5, <1>6, <1>7, <1>8 DEF b, p, Ahead

\* The slots have places of their own.
LEMMA OwnPlaces ==
  ASSUME NEW n, NEW b, NEW d, NEW i, n \in Nat \ {0}, b \in 0..n - 1, d \in 0..n - 1, i \in 0..n - 1
  PROVE  Place(b, i, n) \in 0..n - 1 /\ (Place(b, i, n) = Place(b, d, n) <=> i = d)
<1>1. Place(b, i, n) \in 0..n - 1 /\ Place(b, i, n) = IF b + i < n THEN b + i ELSE b + i - n
  BY AheadOfPlace
<1>2. Place(b, d, n) = IF b + d < n THEN b + d ELSE b + d - n
  BY AheadOfPlace
<1>3. Place(b, i, n) = Place(b, d, n) <=> i = d
  BY <1>1, <1>2
<1> QED
  BY <1>1, <1>3

\* The place after the last one in use.
LEMMA NextPlace ==
  ASSUME NEW n, NEW b, NEW p, NEW d, NEW q, n \in Nat \ {0}, n >= 6, b \in 0..n - 1, p \in 0..n - 1,
         d \in 0..n - 4, d = Ahead(p, b, n), q = Place(p, 1, n)
  PROVE  /\ q \in 0..n - 1 /\ Ahead(q, b, n) = d + 1
         /\ q = IF p + 1 < n THEN p + 1 ELSE p + 1 - n
<1>1. 1 \in 0..n - 1
  OBVIOUS
<1>2. q \in 0..n - 1 /\ q = IF p + 1 < n THEN p + 1 ELSE p + 1 - n
  BY <1>1, AheadOfPlace
<1>3. d = IF p >= b THEN p - b ELSE p - b + n
  BY AheadIs
<1>4. Ahead(q, b, n) = IF q >= b THEN q - b ELSE q - b + n
  BY <1>2, AheadIs
<1>5. Ahead(q, b, n) = d + 1
  BY <1>2, <1>3, <1>4
<1> QED
  BY <1>2, <1>5

\* The lemma for a stack that has no name.
LEMMA CheckedUsed ==
  ASSUME NEW r, NEW n, NEW b, NEW p, NEW d, NEW max, n \in Nat, n >= StartStack, DOMAIN r = 0..n - 1,
         b \in 0..n - 1, p \in 0..n - 1, d \in Nat, Ahead(p, b, n) = d, d # 0, d <= n - 3,
         n < max => b = 0 /\ p <= n - Slack + 1
  PROVE  /\ Ring(CheckBottom(r, b, p), max)
         /\ \E j \in 0..d : Remains(CheckBottom(r, b, p), r, n, b, p, d, j)
  BY CheckedRing

\* The ring old with e in the place q.
Put(old, q, e) == [old EXCEPT ![q] = e]

\* The slots up to a new one.
LEMMA SlotsWithNew ==
  ASSUME NEW n, NEW b, NEW d, NEW old, NEW e, NEW i, n \in Nat \ {0}, b \in 0..n - 1, d \in 0..n - 1,
         DOMAIN old = 0..n - 1, i \in 0..n - 1
  PROVE  Put(old, Place(b, d, n), e)[Place(b, i, n)] = IF i = d THEN e ELSE old[Place(b, i, n)]
<1>1. Place(b, i, n) \in 0..n - 1 /\ (Place(b, i, n) = Place(b, d, n) <=> i = d)
  BY OwnPlaces
<1>2. \A c \in 0..n - 1 : Put(old, Place(b, d, n), e)[c] = IF c = Place(b, d, n) THEN e ELSE old[c]
  BY DEF Put
<1> QED
  BY <1>1, <1>2

\* The places in use and the next one, and what CheckBottom makes of them with e in the next one.
WithNew(old, n, b, m, e) == Put(old, Place(b, m - 1, n), e)
NewRing(old, n, b, m, e) == CheckBottom(WithNew(old, n, b, m, e), b, Place(b, m, n))

\* Where one more slot leads.
LEMMA RingWithNew ==
  ASSUME NEW n, NEW b, NEW m, NEW old, NEW e, NEW max, n \in Nat, n >= StartStack, b \in 0..n - 1,
         m \in 1..n - 3, DOMAIN old = 0..n - 1, n < max => b = 0 /\ m <= n - Slack + 1
  PROVE  /\ Ring(NewRing(old, n, b, m, e), max)
         /\ \E j \in 0..m : Remains(NewRing(old, n, b, m, e), WithNew(old, n, b, m, e), n, b, Place(b, m, n), m, j)
<1>1. n \in Nat \ {0} /\ m \in 0..n - 1
  BY Bounds
<1>2. /\ Place(b, m, n) \in 0..n - 1 /\ Ahead(Place(b, m, n), b, n) = m
      /\ Place(b, m, n) = IF b + m < n THEN b + m ELSE b + m - n
  BY <1>1, AheadOfPlace
<1>3. n < max => b = 0 /\ Place(b, m, n) <= n - Slack + 1
  BY <1>1, <1>2
<1>4. DOMAIN WithNew(old, n, b, m, e) = 0..n - 1
  BY DEF WithNew, Put
<1>5. m \in Nat /\ m # 0 /\ m <= n - 3
  OBVIOUS
<1> QED
  BY <1>2, <1>3, <1>4, <1>5, CheckedUsed DEF NewRing

\* What is then in the slots.
LEMMA SlotsOfNew ==
  ASSUME NEW n, NEW b, NEW m, NEW old, NEW e, NEW i, n \in Nat, n >= 6, b \in 0..n - 1, m \in 1..n - 3,
         DOMAIN old = 0..n - 1, i \in 0..m - 1
  PROVE  WithNew(old, n, b, m, e)[Place(b, i, n)] = IF i = m - 1 THEN e ELSE old[Place(b, i, n)]
<1> DEFINE d == m - 1
<1>1. d \in 0..n - 1 /\ i \in 0..n - 1 /\ n \in Nat \ {0}
  OBVIOUS
<1> HIDE DEF d
<1>2. Put(old, Place(b, d, n), e)[Place(b, i, n)] = IF i = d THEN e ELSE old[Place(b, i, n)]
  BY <1>1, SlotsWithNew
<1> QED
  BY <1>2 DEF WithNew, d

\* The stack r is st with e on top in slot m, without j slots at the bottom.
Grown(r, st, e, m, j) ==
  /\ Depth(r) = m - j
  /\ \A k \in 1..m - j : Slot(r, k) = IF k + j = m THEN e ELSE Slot(st, k + j)
  /\ j # m => r.sp # st.sp /\ IsKey(Slot(r, 1))
  /\ IsKey(e) /\ (Depth(st) = 0 \/ IsKey(Slot(st, 1))) => j # m

\* edit_push_action's last words: a new slot, and the check of the bottom.
Pushed(st, e) == CheckBottom([st.ring EXCEPT ![st.sp] = e], st.bottom, (st.sp + 1) % stack_size(st))

\* The same in terms of places.
LEMMA PushedIs ==
  ASSUME NEW max, NEW st, NEW e, Ring(st, max)
  PROVE  Pushed(st, e) = NewRing(st.ring, stack_size(st), st.bottom, Depth(st) + 1, e)
<1> DEFINE n == stack_size(st)
           b == st.bottom
           m == Depth(st) + 1
<1>1. /\ n \in Nat \ {0} /\ n >= 6 /\ Depth(st) \in 0..n - 4 /\ st.sp \in 0..n - 1 /\ b \in 0..n - 1
      /\ Place(b, Depth(st), n) = st.sp
  BY Tops
<1>2. Pushed(st, e) = CheckBottom(Put(st.ring, st.sp, e), b, Place(st.sp, 1, n))
  BY DEF Place, Put, Pushed
<1> HIDE DEF n, b
<1>3. m - 1 = Depth(st) /\ m \in 0..n - 1 /\ Depth(st) \in 0..n - 1 /\ 1 \in 0..n - 1
  BY <1>1
<1>4. Place(b, m, n) = Place(st.sp, 1, n)
  <2>1. Place(st.sp, 1, n) = IF st.sp + 1 < n THEN st.sp + 1 ELSE st.sp + 1 - n
    BY <1>1, <1>3, AheadOfPlace
  <2>2. Place(b, Depth(st), n) = IF b + Depth(st) < n THEN b + Depth(st) ELSE b + Depth(st) - n
    BY <1>1, <1>3, AheadOfPlace
  <2> HIDE DEF m
  <2>3. Place(b, m, n) = IF b + m < n THEN b + m ELSE b + m - n
    BY <1>1, <1>3, AheadOfPlace
  <2>4. m = Depth(st) + 1
    BY DEF m
  <2> QED
    BY <1>1, <2>1, <2>2, <2>3, <2>4
<1> HIDE DEF m
<1>5. Pushed(st, e) = NewRing(st.ring, n, b, m, e)
  BY <1>1, <1>2, <1>3, <1>4 DEF NewRing, WithNew
<1> QED
  BY <1>5 DEF n, b, m

\* A new slot on top.
LEMMA NewSlot ==
  ASSUME NEW max, NEW st, NEW e, Ring(st, max), stack_size(st) < max => st.sp <= stack_size(st) - Slack
  PROVE  Ring(Pushed(st, e), max) /\ \E j \in 0..Depth(st) + 1 : Grown(Pushed(st, e), st, e, Depth(st) + 1, j)
<1> DEFINE n == stack_size(st)
           b == st.bottom
           m == Depth(st) + 1
           old == st.ring
           r == Pushed(st, e)
           ring == WithNew(old, n, b, m, e)
           p == Place(b, m, n)
<1>1. /\ n \in Nat \ {0} /\ n >= 6 /\ n >= StartStack /\ Depth(st) \in 0..n - 4
      /\ st.sp \in 0..n - 1 /\ b \in 0..n - 1 /\ DOMAIN old = 0..n - 1 /\ Place(b, Depth(st), n) = st.sp
  BY Tops
<1>2. r = NewRing(old, n, b, m, e)
  BY PushedIs
<1>3. n < max => b = 0 /\ st.sp <= n - Slack
  BY DEF Ring
<1>4. \A k : Slot(st, k) = old[Place(b, k - 1, n)]
  BY DEF Slot
<1> HIDE DEF n, b, old, r
<1>5. m \in 1..n - 3 /\ m - 1 = Depth(st) /\ m = Depth(st) + 1
  BY <1>1
<1>6. Place(b, Depth(st), n) = IF b + Depth(st) < n THEN b + Depth(st) ELSE b + Depth(st) - n
  <2>1. Depth(st) \in 0..n - 1
    BY <1>1
  <2> QED
    BY <1>1, <2>1, AheadOfPlace
<1> HIDE DEF m
<1>7. n < max => b = 0 /\ m <= n - Slack + 1
  BY <1>1, <1>3, <1>5, <1>6, Bounds
<1>8. Ring(r, max) /\ \E j \in 0..m : Remains(r, ring, n, b, p, m, j)
  <2>1. n \in Nat
    BY <1>1
  <2>2. n >= StartStack /\ b \in 0..n - 1 /\ m \in 1..n - 3 /\ DOMAIN old = 0..n - 1
    BY <1>1, <1>5
  <2>3. /\ Ring(NewRing(old, n, b, m, e), max)
        /\ \E j \in 0..m : Remains(NewRing(old, n, b, m, e), WithNew(old, n, b, m, e), n, b, Place(b, m, n), m, j)
    BY <1>7, <2>1, <2>2, RingWithNew
  <2> QED
    BY <1>2, <2>3
<1>9. ASSUME NEW k \in 1..m PROVE ring[Place(b, k - 1, n)] = IF k = m THEN e ELSE Slot(st, k)
  <2> DEFINE i == k - 1
  <2>1. n \in Nat /\ i \in 0..m - 1 /\ (i = m - 1 <=> k = m)
    BY <1>1, <1>5
  <2>2. Slot(st, k) = old[Place(b, i, n)]
    BY <1>4
  <2> HIDE DEF i
  <2>3. WithNew(old, n, b, m, e)[Place(b, i, n)] = IF i = m - 1 THEN e ELSE old[Place(b, i, n)]
    BY <1>1, <1>5, <2>1, SlotsOfNew
  <2>4. ring[Place(b, i, n)] = IF k = m THEN e ELSE Slot(st, k)
    BY <2>1, <2>2, <2>3
  <2> QED
    BY <2>4 DEF i
<1>10. p # st.sp
  <2>1. m \in 0..n - 1 /\ Depth(st) \in 0..n - 1 /\ m # Depth(st)
    BY <1>1, <1>5
  <2>2. n \in Nat \ {0} /\ b \in 0..n - 1
    BY <1>1
  <2>3. Place(b, m, n) # Place(b, Depth(st), n)
    BY <2>1, <2>2, OwnPlaces
  <2> QED
    BY <1>1, <2>3
<1>11. Place(b, 1 - 1, n) = b
  <2>1. 0 \in 0..n - 1 /\ b + 0 = b /\ b < n
    BY <1>1
  <2>2. Place(b, 0, n) = IF b + 0 < n THEN b + 0 ELSE b + 0 - n
    BY <1>1, <2>1, AheadOfPlace
  <2> QED
    BY <2>1, <2>2
<1> HIDE DEF ring, p
<1>12. PICK j \in 0..m : Remains(r, ring, n, b, p, m, j)
  BY <1>8
<1>13. /\ Depth(r) = m - j
       /\ \A k \in 1..m - j : Slot(r, k) = ring[Place(b, k + j - 1, n)]
       /\ j # m => r.sp = p /\ IsKey(ring[Place(b, j, n)])
       /\ IsKey(ring[b]) /\ IsKey(ring[Place(b, m - 1, n)]) => j # m
  BY <1>12 DEF Remains
<1>14. ASSUME NEW k \in 1..m - j PROVE Slot(r, k) = IF k + j = m THEN e ELSE Slot(st, k + j)
  <2> DEFINE i == k + j
  <2>1. i \in 1..m
    BY <1>5
  <2>2. Slot(r, k) = ring[Place(b, i - 1, n)]
    BY <1>13
  <2> HIDE DEF i
  <2>3. ring[Place(b, i - 1, n)] = IF i = m THEN e ELSE Slot(st, i)
    BY <1>9, <2>1
  <2> QED
    BY <2>2, <2>3 DEF i
<1>15. ASSUME j # m PROVE IsKey(Slot(r, 1))
  <2>1. 1 \in 1..m - j /\ 1 + j - 1 = j
    BY <1>5, <1>15
  <2>2. Slot(r, 1) = ring[Place(b, 1 + j - 1, n)]
    BY <1>13, <2>1
  <2> QED
    BY <1>13, <1>15, <2>1, <2>2
<1>16. ASSUME IsKey(e), Depth(st) = 0 \/ IsKey(Slot(st, 1)) PROVE j # m
  <2>1. 1 \in 1..m /\ m \in 1..m /\ (Depth(st) = 0 => 1 = m)
    BY <1>1, <1>5
  <2>2. ring[Place(b, m - 1, n)] = e
    BY <1>9, <2>1
  <2>3. ring[b] = IF 1 = m THEN e ELSE Slot(st, 1)
    BY <1>9, <1>11, <2>1
  <2> QED
    BY <1>13, <1>16, <2>1, <2>2, <2>3
<1>17. /\ Depth(r) = m - j
       /\ \A k \in 1..m - j : Slot(r, k) = IF k + j = m THEN e ELSE Slot(st, k + j)
       /\ j # m => r.sp # st.sp /\ IsKey(Slot(r, 1))
       /\ IsKey(e) /\ (Depth(st) = 0 \/ IsKey(Slot(st, 1))) => j # m
  BY <1>10, <1>13, <1>14, <1>15, <1>16
<1>18. Grown(r, st, e, m, j)
  BY <1>17 DEF Grown
<1> QED
  BY <1>8, <1>18 DEF r, m

\* What the top slots stand for.
Top(st) == Slot(st, Depth(st))
Base(st) == IF IsTimes(Top(st)) THEN Slot(st, Depth(st) - 1) ELSE Top(st)

\* The slot on top replaced, and taken off.
Retopped(st, x) == [st EXCEPT !.ring[(st.sp - 1) % stack_size(st)] = x]
Untopped(st) == Stack(st.ring, st.bottom, (st.sp - 1) % stack_size(st))

\* A new top: nothing else changes.
LEMMA ReplacedTop ==
  ASSUME NEW max, NEW st, NEW x, Ring(st, max), Depth(st) >= 1
  PROVE  /\ Ring(Retopped(st, x), max) /\ Depth(Retopped(st, x)) = Depth(st)
         /\ stack_size(Retopped(st, x)) = stack_size(st) /\ Retopped(st, x).sp = st.sp
         /\ Top(Retopped(st, x)) = x
         /\ \A k \in 1..Depth(st) : k # Depth(st) => Slot(Retopped(st, x), k) = Slot(st, k)
<1> DEFINE n == stack_size(st)
           b == st.bottom
           d == Depth(st)
           q == (st.sp - 1) % n
           r == Retopped(st, x)
<1>1. /\ n \in Nat \ {0} /\ n >= 6 /\ n >= StartStack /\ d \in 0..n - 4
      /\ st.sp \in 0..n - 1 /\ b \in 0..n - 1 /\ DOMAIN st.ring = 0..n - 1
  BY Tops
<1>2. q \in 0..n - 1 /\ Place(b, d - 1, n) = q
  BY Tops
<1>3. DOMAIN st = {"ring", "bottom", "sp"} /\ (n < max => b = 0 /\ st.sp <= n - Slack + 1) /\ d <= n - 4
  BY DEF Ring
<1>4. \A i \in 0..n - 1 : Ahead(i, b, n) >= d => st.ring[i] = Nothing
  BY DEF Ring
<1>5. d = Ahead(st.sp, b, n)
  BY DEF Depth
<1>6. \A k : Slot(st, k) = st.ring[Place(b, k - 1, n)]
  BY DEF Slot
<1>7. r = [st EXCEPT !.ring = [st.ring EXCEPT ![q] = x]]
  BY <1>1, <1>2, <1>3 DEF Retopped
<1> HIDE DEF n, b, q, d, r
<1>8. /\ DOMAIN r = {"ring", "bottom", "sp"} /\ r.sp = st.sp /\ r.bottom = st.bottom /\ DOMAIN r.ring = 0..n - 1
      /\ r.ring = [st.ring EXCEPT ![q] = x]
  BY <1>1, <1>3, <1>7
<1>9. \A i \in 0..n - 1 : r.ring[i] = IF i = q THEN x ELSE st.ring[i]
  BY <1>1, <1>8
<1>10. stack_size(r) = n
  <2>1. n \in Nat
    BY <1>1
  <2> QED
    BY <1>8, <2>1, SizeOfRing DEF stack_size
<1>11. Depth(r) = d
  BY <1>5, <1>8, <1>10 DEF Depth, b
<1>12. \A k : Slot(r, k) = r.ring[Place(b, k - 1, n)]
  BY <1>8, <1>10 DEF Slot, b
<1>13. d >= 1 /\ d - 1 \in 0..n - 1
  BY <1>1 DEF d
<1>14. Ahead(q, b, n) = d - 1
  <2> DEFINE i == d - 1
  <2>1. i \in 0..n - 1 /\ Place(b, i, n) = q
    BY <1>2, <1>13
  <2> HIDE DEF i
  <2>2. Ahead(Place(b, i, n), b, n) = i
    BY <1>1, <2>1, AheadOfPlace
  <2> QED
    BY <2>1, <2>2 DEF i
<1>15. \A i \in 0..n - 1 : Ahead(i, b, n) >= d => r.ring[i] = Nothing
  <2> TAKE i \in 0..n - 1
  <2> SUFFICES ASSUME Ahead(i, b, n) >= d PROVE r.ring[i] = Nothing
    OBVIOUS
  <2>1. i # q
    BY <1>1, <1>13, <1>14
  <2> QED
    BY <1>4, <1>9, <2>1
<1>16. Ring(r, max)
  BY <1>1, <1>3, <1>8, <1>10, <1>11, <1>15 DEF Ring, b
<1>17. ASSUME NEW k \in 1..d PROVE Slot(r, k) = IF k = d THEN x ELSE Slot(st, k)
  <2> DEFINE i == k - 1
             e == d - 1
  <2>1. i \in 0..n - 1 /\ e \in 0..n - 1 /\ (i = e <=> k = d)
    BY <1>1
  <2>2. Slot(r, k) = r.ring[Place(b, i, n)] /\ Slot(st, k) = st.ring[Place(b, i, n)] /\ Place(b, e, n) = q
    BY <1>2, <1>6, <1>12
  <2> HIDE DEF i, e
  <2>3. Place(b, i, n) \in 0..n - 1 /\ (Place(b, i, n) = Place(b, e, n) <=> i = e)
    BY <1>1, <2>1, OwnPlaces
  <2> QED
    BY <1>9, <2>1, <2>2, <2>3
<1>18. Top(r) = x
  <2>1. d \in 1..d
    BY <1>1, <1>13
  <2> QED
    BY <1>11, <1>17, <2>1 DEF Top
<1> QED
  BY <1>8, <1>10, <1>11, <1>16, <1>17, <1>18 DEF r, d, n

\* Without its top the ring has the other slots as they were.
LEMMA RemovedTop ==
  ASSUME NEW max, NEW st, Ring(st, max), Depth(st) >= 1
  PROVE  /\ Ring(Untopped(st), max) /\ Depth(Untopped(st)) = Depth(st) - 1 /\ Untopped(st).sp # st.sp
         /\ \A k \in 1..Depth(st) - 1 : Slot(Untopped(st), k) = Slot(st, k)
<1> DEFINE n == stack_size(st)
           b == st.bottom
           d == Depth(st)
           q == (st.sp - 1) % n
           old == st.ring
<1>1. /\ n \in Nat \ {0} /\ n >= 6 /\ n >= StartStack /\ d \in 0..n - 4
      /\ st.sp \in 0..n - 1 /\ b \in 0..n - 1 /\ DOMAIN old = 0..n - 1 /\ Place(b, d, n) = st.sp
  BY Tops
<1>2. q \in 0..n - 1 /\ Place(b, d - 1, n) = q
  BY Tops
<1>3. n < max => b = 0 /\ st.sp <= n - Slack + 1
  BY DEF Ring
<1>4. \A k : Slot(st, k) = old[Place(b, k - 1, n)]
  BY DEF Slot
<1>5. Untopped(st) = Stack(old, b, q)
  BY DEF Untopped
<1>6. d >= 1
  OBVIOUS
<1> HIDE DEF n, b, q, d, old
<1> DEFINE i == d - 1
<1>7. i \in 0..n - 1 /\ d \in 0..n - 1 /\ i # d /\ i <= n - 4 /\ Place(b, i, n) = q
  BY <1>1, <1>2, <1>6
<1>8. i + 1 = d
  BY <1>1
<1> HIDE DEF i
<1>9. Ahead(q, b, n) = i /\ q = IF b + i < n THEN b + i ELSE b + i - n
  <2>1. Ahead(Place(b, i, n), b, n) = i /\ Place(b, i, n) = IF b + i < n THEN b + i ELSE b + i - n
    BY <1>1, <1>7, AheadOfPlace
  <2> QED
    BY <1>7, <2>1
<1>10. q # st.sp
  <2>1. Place(b, i, n) # Place(b, d, n)
    BY <1>1, <1>7, OwnPlaces
  <2> QED
    BY <1>1, <1>7, <2>1
<1>11. ASSUME n < max PROVE b = 0 /\ q <= n - Slack + 1
  <2>1. b = 0 /\ st.sp <= n - Slack + 1
    BY <1>3, <1>11
  <2>2. Place(b, d, n) = IF b + d < n THEN b + d ELSE b + d - n
    BY <1>1, <1>7, AheadOfPlace
  <2>3. st.sp = d /\ q = i
    BY <1>1, <1>7, <1>9, <2>1, <2>2
  <2>4. i <= d
    BY <1>7, <1>8
  <2> QED
    BY <1>1, <1>7, <2>1, <2>3, <2>4, Bounds
<1> DEFINE st2 == Stack(old, b, q)
<1>12. /\ Ring(st2, max) /\ st2.sp = q /\ Depth(st2) = i
       /\ \A k \in 1..i : Slot(st2, k) = old[Place(b, k - 1, n)]
  <2>1. n \in Nat /\ n >= StartStack /\ DOMAIN old = 0..n - 1 /\ b \in 0..n - 1 /\ q \in 0..n - 1
    BY <1>1, <1>2
  <2>2. Ahead(q, b, n) <= n - 4 /\ (n < max => b = 0 /\ q <= n - Slack + 1)
    BY <1>7, <1>9, <1>11
  <2>3. /\ Ring(st2, max) /\ st2.sp = q /\ Depth(st2) = Ahead(q, b, n)
        /\ \A k \in 1..Ahead(q, b, n) : Slot(st2, k) = old[Place(b, k - 1, n)]
    BY <2>1, <2>2, StackRing
  <2> QED
    BY <1>9, <2>3
<1> HIDE DEF st2
<1>13. Untopped(st) = st2 /\ i = Depth(st) - 1
  BY <1>5 DEF st2, i, d
<1> QED
  BY <1>4, <1>10, <1>12, <1>13

\* edit_push_action, case by case.
LEMMA PushCases ==
  ASSUME NEW st, NEW e, Ring(Enlarged(st), option_max_undo)
  PROVE  LET big == Enlarged(st)
             deep == Depth(big) >= 3
         IN  edit_push_action(st, e) =
               CASE deep /\ Base(big) = e /\ IsKey(e)                       -> big
                 [] deep /\ Base(big) = e /\ ~IsKey(e) /\ IsTimes(Top(big)) ->
                      Retopped(big, Entry("times", Top(big).arg + 1))
                 [] deep /\ Base(big) = e /\ ~IsKey(e) /\ ~IsTimes(Top(big)) -> Pushed(big, Entry("times", 2))
                 [] deep /\ {Base(big), e} = {Left, Right} /\ Repeats(Top(big)) ->
                      Retopped(big, Entry("times", Top(big).arg - 1))
                 [] deep /\ {Base(big), e} = {Left, Right} /\ ~Repeats(Top(big)) -> Untopped(big)
                 [] OTHER -> Pushed(big, e)
<1> DEFINE big == Enlarged(st)
           n == stack_size(big)
           q1 == (big.sp - 1) % n
           q2 == (big.sp - 2) % n
           top == big.ring[q1]
           base == IF IsTimes(top) THEN big.ring[q2] ELSE top
           far == big.bottom \notin {big.sp, q1, q2}
           deep == Depth(big) >= 3
<1>1. edit_push_action(st, e) =
        CASE far /\ base = e /\ IsKey(e)                   -> big
          [] far /\ base = e /\ ~IsKey(e) /\ IsTimes(top)  -> [big EXCEPT !.ring[q1] = Entry("times", top.arg + 1)]
          [] far /\ base = e /\ ~IsKey(e) /\ ~IsTimes(top) ->
               CheckBottom([big.ring EXCEPT ![big.sp] = Entry("times", 2)], big.bottom, (big.sp + 1) % n)
          [] far /\ {base, e} = {Left, Right} /\ Repeats(top)  -> [big EXCEPT !.ring[q1] = Entry("times", top.arg - 1)]
          [] far /\ {base, e} = {Left, Right} /\ ~Repeats(top) -> Stack(big.ring, big.bottom, q1)
          [] OTHER -> CheckBottom([big.ring EXCEPT ![big.sp] = e], big.bottom, (big.sp + 1) % n)
  BY DEF edit_push_action
<1>2. far <=> deep
  BY Tops
<1>3. ASSUME deep PROVE top = Top(big) /\ base = Base(big)
  <2> DEFINE d == Depth(big)
  <2>1. d >= 3 /\ d \in Nat
    BY <1>3, Tops
  <2>2. Slot(big, d) = top
    BY <2>1, Tops
  <2>3. Slot(big, d - 1) = big.ring[q2]
    BY <2>1, Tops
  <2> QED
    BY <2>2, <2>3 DEF Top, Base
<1>4. /\ \A x : Retopped(big, x) = [big EXCEPT !.ring[q1] = x]
      /\ \A x : Pushed(big, x) = CheckBottom([big.ring EXCEPT ![big.sp] = x], big.bottom, (big.sp + 1) % n)
      /\ Untopped(big) = Stack(big.ring, big.bottom, q1)
  BY DEF Retopped, Pushed, Untopped
<1> HIDE DEF big, n, q1, q2, top, base, far, deep
<1>5. edit_push_action(st, e) =
        CASE far /\ base = e /\ IsKey(e)                   -> big
          [] far /\ base = e /\ ~IsKey(e) /\ IsTimes(top)  -> Retopped(big, Entry("times", top.arg + 1))
          [] far /\ base = e /\ ~IsKey(e) /\ ~IsTimes(top) -> Pushed(big, Entry("times", 2))
          [] far /\ {base, e} = {Left, Right} /\ Repeats(top)  -> Retopped(big, Entry("times", top.arg - 1))
          [] far /\ {base, e} = {Left, Right} /\ ~Repeats(top) -> Untopped(big)
          [] OTHER -> Pushed(big, e)
  BY <1>1, <1>4
<1>6. CASE deep
  <2>1. top = Top(big) /\ base = Base(big) /\ far
    BY <1>2, <1>3, <1>6
  <2> QED
    BY <1>5, <1>6, <2>1 DEF big, deep
<1>7. CASE ~ deep
  <2>1. edit_push_action(st, e) = Pushed(big, e)
    BY <1>2, <1>5, <1>7
  <2> QED
    BY <1>7, <2>1 DEF big, deep
<1> QED
  BY <1>6, <1>7

\* pop_action, case by case.
LEMMA PopCases ==
  ASSUME NEW st, NEW max, Ring(st, max), Depth(st) >= 1 /\ IsTimes(Top(st)) => Depth(st) >= 2
  PROVE  /\ Depth(st) = 0 => Popped(st) = Entry("bottom", 0) /\ pop_action(st) = st
         /\ Depth(st) >= 1 =>
              /\ Popped(st) = Base(st)
              /\ pop_action(st) = IF Repeats(Top(st)) THEN Retopped(st, Entry("times", Top(st).arg - 1))
                                                      ELSE Untopped(st)
<1> DEFINE n == stack_size(st)
           q1 == (st.sp - 1) % n
           q2 == (st.sp - 2) % n
           d == Depth(st)
<1>1. d \in Nat /\ (d = 0 <=> st.sp = st.bottom)
  <2>1. d \in 0..n - 4
    BY Tops
  <2>2. d = 0 <=> st.sp = st.bottom
    BY Tops
  <2> QED
    BY <2>1, <2>2
<1>2. ASSUME d = 0 PROVE Popped(st) = Entry("bottom", 0) /\ pop_action(st) = st
  BY <1>1, <1>2 DEF Popped, pop_action
<1>3. ASSUME d >= 1
      PROVE  /\ Popped(st) = Base(st)
             /\ pop_action(st) = IF Repeats(Top(st)) THEN Retopped(st, Entry("times", Top(st).arg - 1))
                                                     ELSE Untopped(st)
  <2>1. st.sp # st.bottom
    BY <1>1, <1>3
  <2>2. Top(st) = st.ring[q1]
    BY <1>3, Tops DEF Top
  <2>3. IsTimes(Top(st)) => Slot(st, d - 1) = st.ring[q2]
    BY <1>3, Tops
  <2>4. Popped(st) = IF IsTimes(st.ring[q1]) THEN st.ring[q2] ELSE st.ring[q1]
    BY <2>1 DEF Popped
  <2>5. pop_action(st) = IF Repeats(st.ring[q1]) THEN [st EXCEPT !.ring[q1] = Entry("times", st.ring[q1].arg - 1)]
                         ELSE Stack(st.ring, st.bottom, q1)
    BY <2>1 DEF pop_action
  <2>6. /\ \A x : Retopped(st, x) = [st EXCEPT !.ring[q1] = x]
        /\ Untopped(st) = Stack(st.ring, st.bottom, q1)
    BY DEF Retopped, Untopped
  <2> HIDE DEF n, q1, q2
  <2>7. Popped(st) = Base(st)
    BY <2>2, <2>3, <2>4 DEF Base
  <2> QED
    BY <2>2, <2>5, <2>6, <2>7
<1> QED
  BY <1>2, <1>3

-----------------------------------------------------------------------------
(* The slots, without the ring *)

\* What the used slots hold, counted from the bottom, under which nothing is.
Slots(st) == [k \in 0..Depth(st) |-> IF k = 0 THEN Nothing ELSE Slot(st, k)]

\* The key presses among the first k of x.
KeysTo(x, k) == Cardinality({i \in 1..k : IsKey(x[i])})

\* How they are counted.
LEMMA KeysToIs ==
  ASSUME NEW x
  PROVE  /\ KeysTo(x, 0) = 0
         /\ \A k \in Nat : KeysTo(x, k) \in Nat
         /\ \A k \in Nat : KeysTo(x, k + 1) = KeysTo(x, k) + (IF IsKey(x[k + 1]) THEN 1 ELSE 0)
<1> DEFINE S(k) == {i \in 1..k : IsKey(x[i])}
<1>1. ASSUME NEW k \in Nat PROVE IsFiniteSet(S(k)) /\ Cardinality(S(k)) \in Nat
  <2>1. IsFiniteSet(1..k)
    BY FS_Interval
  <2>2. S(k) \subseteq 1..k
    OBVIOUS
  <2>3. IsFiniteSet(S(k))
    BY <2>1, <2>2, FS_Subset
  <2> QED
    BY <2>3, FS_CardinalityType
<1>2. S(0) = {}
  OBVIOUS
<1>3. Cardinality(S(0)) = 0
  BY <1>2, FS_EmptySet
<1>4. ASSUME NEW k \in Nat
      PROVE  Cardinality(S(k + 1)) = Cardinality(S(k)) + (IF IsKey(x[k + 1]) THEN 1 ELSE 0)
  <2>1. CASE IsKey(x[k + 1])
    <3>1. S(k + 1) = S(k) \cup {k + 1} /\ k + 1 \notin S(k)
      BY <2>1
    <3> HIDE DEF S
    <3>2. Cardinality(S(k) \cup {k + 1}) = Cardinality(S(k)) + 1
      BY <1>1, <3>1, FS_AddElement
    <3> QED
      BY <2>1, <3>1, <3>2
  <2>2. CASE ~ IsKey(x[k + 1])
    <3>1. S(k + 1) = S(k)
      BY <2>2
    <3> HIDE DEF S
    <3> QED
      BY <1>1, <2>2, <3>1
  <2> QED
    BY <2>1, <2>2
<1> QED
  BY <1>1, <1>3, <1>4 DEF KeysTo

\* The same keys, the same number.
LEMMA KeysToSame ==
  ASSUME NEW x, NEW y, NEW k, \A i \in 1..k : IsKey(x[i]) <=> IsKey(y[i])
  PROVE  KeysTo(x, k) = KeysTo(y, k)
<1>1. {i \in 1..k : IsKey(x[i])} = {i \in 1..k : IsKey(y[i])}
  OBVIOUS
<1> QED
  BY <1>1 DEF KeysTo

\* What is left without the first j.
LEMMA KeysToShift ==
  ASSUME NEW x, NEW y, NEW j, NEW k, j \in Nat, k \in Nat, \A i \in 1..k : y[i] = x[i + j]
  PROVE  KeysTo(x, k + j) = KeysTo(x, j) + KeysTo(y, k)
<1> DEFINE A == {i \in 1..j : IsKey(x[i])}
           B == {i \in j + 1..k + j : IsKey(x[i])}
           C == {i \in 1..k : IsKey(y[i])}
           f == [i \in C |-> i + j]
<1>1. {i \in 1..k + j : IsKey(x[i])} = A \cup B /\ A \cap B = {}
  OBVIOUS
<1>2. IsFiniteSet(A) /\ IsFiniteSet(B) /\ IsFiniteSet(C)
  <2>1. IsFiniteSet(1..j) /\ IsFiniteSet(j + 1..k + j) /\ IsFiniteSet(1..k)
    BY FS_Interval
  <2>2. A \subseteq 1..j /\ B \subseteq j + 1..k + j /\ C \subseteq 1..k
    OBVIOUS
  <2> HIDE DEF A, B, C
  <2> QED
    BY <2>1, <2>2, FS_Subset
<1>3. f \in Bijection(C, B)
  <2>1. \A i \in C : i \in Int /\ f[i] = i + j /\ i + j \in B
    OBVIOUS
  <2>2. \A b \in B : b - j \in C /\ f[b - j] = b
    OBVIOUS
  <2>3. \A b \in B : \E i \in C : f[i] = b
    BY <2>2
  <2>4. \A i1, i2 \in C : f[i1] = f[i2] => i1 = i2
    BY <2>1
  <2>5. f \in [C -> B]
    BY <2>1
  <2> HIDE DEF f, B, C
  <2> QED
    BY <2>3, <2>4, <2>5, Fun_IsBij
<1>4. Cardinality(B) = Cardinality(C)
  <2> HIDE DEF f, B, C
  <2>1. Cardinality(C) = Cardinality(B)
    BY <1>2, <1>3, FS_Bijection DEF ExistsBijection
  <2> QED
    BY <2>1
<1> HIDE DEF A, B, C
<1>5. Cardinality(A \cup B) = Cardinality(A) + Cardinality(B)
  <2>1. Cardinality(A \cup B) = Cardinality(A) + Cardinality(B) - Cardinality(A \cap B)
    BY <1>2, FS_Union
  <2>2. Cardinality(A \cap B) = 0
    BY <1>1, FS_EmptySet
  <2>3. Cardinality(A) \in Nat /\ Cardinality(B) \in Nat
    BY <1>2, FS_CardinalityType
  <2> QED
    BY <2>1, <2>2, <2>3
<1>6. KeysTo(x, k + j) = Cardinality(A \cup B)
  BY <1>1 DEF KeysTo
<1> QED
  BY <1>4, <1>5, <1>6 DEF KeysTo, A, C

\* The number of keys grows with k.
LEMMA KeysToUp ==
  ASSUME NEW x, NEW j, NEW k, j \in Nat, k \in Nat, j <= k
  PROVE  KeysTo(x, j) <= KeysTo(x, k)
<1> DEFINE y == [i \in 1..k - j |-> x[i + j]]
           m == k - j
<1>1. m \in Nat /\ k = m + j /\ \A i \in 1..m : y[i] = x[i + j]
  OBVIOUS
<1> HIDE DEF y, m
<1>2. KeysTo(x, m + j) = KeysTo(x, j) + KeysTo(y, m)
  BY <1>1, KeysToShift
<1>3. KeysTo(x, j) \in Nat /\ KeysTo(y, m) \in Nat
  BY <1>1, KeysToIs
<1> QED
  BY <1>1, <1>2, <1>3

\* The key presses in the ring are those in its slots.
LEMMA KeysAreSlots ==
  ASSUME NEW max, NEW st, Ring(st, max)
  PROVE  Keys(st) = KeysTo(Slots(st), Depth(st))
<1> DEFINE n == stack_size(st)
           b == st.bottom
           d == Depth(st)
           r == st.ring
           x == Slots(st)
<1>1. /\ n \in Nat \ {0} /\ n >= 6 /\ n >= StartStack /\ d \in 0..n - 4
      /\ st.sp \in 0..n - 1 /\ b \in 0..n - 1 /\ DOMAIN r = 0..n - 1
  BY Tops
<1>2. \A i \in 0..n - 1 : Ahead(i, b, n) >= d => r[i] = Nothing
  BY DEF Ring
<1>3. \A k \in 1..d : x[k] = r[Place(b, k - 1, n)]
  BY DEF Slots, Slot
<1>4. Keys(st) = Cardinality({i \in 0..n - 1 : IsKey(r[i])})
  BY <1>1 DEF Keys
<1> HIDE DEF n, b, d, r, x
<1> DEFINE A == {k \in 1..d : IsKey(x[k])}
           B == {i \in 0..n - 1 : IsKey(r[i])}
           f == [k \in A |-> Place(b, k - 1, n)]
<1>5. IsFiniteSet(A)
  <2>1. IsFiniteSet(1..d)
    BY <1>1, FS_Interval
  <2>2. A \subseteq 1..d
    OBVIOUS
  <2> QED
    BY <2>1, <2>2, FS_Subset
<1>6. ASSUME NEW k \in 1..d PROVE Place(b, k - 1, n) \in 0..n - 1 /\ Ahead(Place(b, k - 1, n), b, n) = k - 1
  <2> DEFINE i == k - 1
  <2>1. i \in 0..n - 1
    BY <1>1
  <2> HIDE DEF i
  <2>2. Place(b, i, n) \in 0..n - 1 /\ Ahead(Place(b, i, n), b, n) = i
    BY <1>1, <2>1, AheadOfPlace
  <2> QED
    BY <2>2 DEF i
<1>7. \A k \in A : k \in 1..d /\ f[k] = Place(b, k - 1, n) /\ f[k] \in B
  BY <1>3, <1>6
<1>8. ASSUME NEW i \in B PROVE \E k \in A : f[k] = i
  <2>1. i \in 0..n - 1 /\ IsKey(r[i])
    OBVIOUS
  <2>2. ~ IsKey(Nothing)
    BY DEF IsKey, Nothing, Entry
  <2>3. ~ (Ahead(i, b, n) >= d)
    BY <1>2, <2>1, <2>2
  <2> DEFINE c == Ahead(i, b, n)
  <2>4. c \in 0..n - 1
    BY <1>1, <2>1, AheadIs
  <2> HIDE DEF c
  <2>5. Place(b, c, n) = i
    <3>1. c \in Nat /\ c = Ahead(i, b, n)
      BY <2>4 DEF c
    <3> QED
      BY <1>1, <2>1, <3>1, PlaceOfAhead
  <2>6. c + 1 \in 1..d /\ (c + 1) - 1 = c
    BY <1>1, <2>3, <2>4 DEF c
  <2>7. x[c + 1] = r[i]
    BY <1>3, <2>5, <2>6
  <2>8. c + 1 \in A
    BY <2>1, <2>6, <2>7
  <2>9. f[c + 1] = i
    BY <2>5, <2>6, <2>8
  <2> QED
    BY <2>8, <2>9
<1>9. ASSUME NEW k1 \in A, NEW k2 \in A, f[k1] = f[k2] PROVE k1 = k2
  <2>1. k1 \in 1..d /\ k2 \in 1..d /\ Place(b, k1 - 1, n) = Place(b, k2 - 1, n)
    BY <1>7, <1>9
  <2>2. Ahead(Place(b, k1 - 1, n), b, n) = k1 - 1 /\ Ahead(Place(b, k2 - 1, n), b, n) = k2 - 1
    BY <1>6, <2>1
  <2>3. k1 - 1 = k2 - 1
    BY <2>1, <2>2
  <2> QED
    BY <2>1, <2>3
<1>10. f \in [A -> B]
  BY <1>7
<1> HIDE DEF f, A, B
<1>11. f \in Bijection(A, B)
  <2>1. \A k1, k2 \in A : f[k1] = f[k2] => k1 = k2
    BY <1>9
  <2>2. \A i \in B : \E k \in A : f[k] = i
    BY <1>8
  <2> QED
    BY <1>10, <2>1, <2>2, Fun_IsBij
<1>12. Cardinality(B) = Cardinality(A)
  BY <1>5, <1>11, FS_Bijection DEF ExistsBijection
<1> QED
  BY <1>4, <1>12 DEF KeysTo, A, B, x, d

-----------------------------------------------------------------------------
(* What the slots stand for *)

\* The sides of the cursor, and whether the marked block follows it.
State == [b : Seq(Char), a : Seq(Char), open : BOOLEAN]
Length(s) == Len(s.b) + Len(s.a)
Snaps == [text : Seq(Char), cursor : Nat]
Snap(s) == [text |-> s.b \o s.a, cursor |-> Len(s.b)]

\* Whether and how an entry undoes a step.
Can(s, e) ==
  /\ s \in State
  /\ \/ e \in {Left, Entry("backspace", 0)} /\ s.b # <<>>
     \/ e \in {Right, Entry("delchar", 0)} /\ s.a # <<>>
     \/ \E c \in Char : e \in {Entry("insert", c), Entry("ahead", c)}
     \/ \E n \in 0..Length(s) : e \in {Entry("mark1", n), Entry("mark2", n), Entry("key", n)}
     \/ e = Entry("mark2", -1)

Changed(s, e) ==
  CASE e.op = "left"      -> [b |-> SubSeq(s.b, 1, Len(s.b) - 1), a |-> <<s.b[Len(s.b)]>> \o s.a, open |-> s.open]
    [] e.op = "right"     -> [b |-> Append(s.b, Head(s.a)), a |-> Tail(s.a), open |-> s.open]
    [] e.op = "backspace" -> [b |-> SubSeq(s.b, 1, Len(s.b) - 1), a |-> s.a, open |-> s.open]
    [] e.op = "delchar"   -> [b |-> s.b, a |-> Tail(s.a), open |-> s.open]
    [] e.op = "insert"    -> [b |-> Append(s.b, e.arg), a |-> s.a, open |-> s.open]
    [] e.op = "ahead"     -> [b |-> s.b, a |-> <<e.arg>> \o s.a, open |-> s.open]
    [] e.op = "mark2"     -> [b |-> s.b, a |-> s.a, open |-> e.arg = -1]
    [] OTHER              -> s

\* Undoing e m times leads from s to t, through the states of f.
Path(f, e, m, s, t) ==
  /\ f[0] = s /\ f[m] = t /\ \A i \in 0..m : f[i] \in State
  /\ \A i \in 0..m - 1 : Can(f[i], e) /\ f[i + 1] = Changed(f[i], e)
Back(e, m, s, t) == \E f : Path(f, e, m, s, t)

\* Undoing an entry once.
LEMMA BackOne ==
  ASSUME NEW e, NEW s, NEW t
  PROVE  Back(e, 1, s, t) <=> s \in State /\ t \in State /\ Can(s, e) /\ t = Changed(s, e)
<1>1. ASSUME Back(e, 1, s, t) PROVE s \in State /\ t \in State /\ Can(s, e) /\ t = Changed(s, e)
  <2>1. PICK f : Path(f, e, 1, s, t)
    BY <1>1 DEF Back
  <2>2. 0 \in 0..1 - 1 /\ 0 \in 0..1 /\ 1 \in 0..1 /\ 0 + 1 = 1
    OBVIOUS
  <2> QED
    BY <2>1, <2>2 DEF Path
<1>2. ASSUME s \in State, t \in State, Can(s, e), t = Changed(s, e) PROVE Back(e, 1, s, t)
  <2> DEFINE f == [i \in 0..1 |-> IF i = 0 THEN s ELSE t]
  <2>1. f[0] = s /\ f[1] = t /\ (\A i \in 0..1 : f[i] \in State)
    BY <1>2
  <2>2. \A i \in 0..1 - 1 : i = 0 /\ i + 1 = 1
    OBVIOUS
  <2> HIDE DEF f
  <2>3. Path(f, e, 1, s, t)
    BY <1>2, <2>1, <2>2 DEF Path
  <2> QED
    BY <2>3 DEF Back
<1> QED
  BY <1>1, <1>2

\* Once more.
LEMMA BackMore ==
  ASSUME NEW e, NEW m, NEW s, NEW t, NEW u, m \in Nat, s \in State, Can(s, e), u = Changed(s, e), Back(e, m, u, t)
  PROVE  Back(e, m + 1, s, t)
<1>1. PICK f : Path(f, e, m, u, t)
  BY DEF Back
<1> DEFINE g == [i \in 0..m + 1 |-> IF i = 0 THEN s ELSE f[i - 1]]
<1>2. /\ f[0] = u /\ f[m] = t /\ (\A i \in 0..m : f[i] \in State)
      /\ \A i \in 0..m - 1 : Can(f[i], e) /\ f[i + 1] = Changed(f[i], e)
  BY <1>1 DEF Path
<1>3. g[0] = s /\ \A i \in 0..m : g[i + 1] = f[i]
  <2>1. g[0] = s
    OBVIOUS
  <2>2. ASSUME NEW i \in 0..m PROVE g[i + 1] = f[i]
    <3>1. i + 1 \in 0..m + 1 /\ i + 1 # 0 /\ (i + 1) - 1 = i
      OBVIOUS
    <3> QED
      BY <3>1
  <2> QED
    BY <2>1, <2>2
<1> HIDE DEF g
<1>4. g[m + 1] = t
  BY <1>2, <1>3
<1>5. ASSUME NEW i \in 0..m + 1 PROVE g[i] \in State
  <2>1. CASE i = 0
    BY <1>3, <2>1
  <2>2. CASE i # 0
    <3>1. i - 1 \in 0..m /\ (i - 1) + 1 = i
      BY <2>2
    <3>2. g[(i - 1) + 1] = f[i - 1]
      BY <1>3, <3>1
    <3> QED
      BY <1>2, <3>1, <3>2
  <2> QED
    BY <2>1, <2>2
<1>6. ASSUME NEW i \in 0..(m + 1) - 1 PROVE Can(g[i], e) /\ g[i + 1] = Changed(g[i], e)
  <2>1. CASE i = 0
    <3>1. g[1] = f[0]
      <4>1. 0 \in 0..m /\ 0 + 1 = 1
        OBVIOUS
      <4> QED
        BY <1>3, <4>1
    <3> QED
      BY <1>2, <1>3, <2>1, <3>1
  <2>2. CASE i # 0
    <3> DEFINE j == i - 1
    <3>1. j \in 0..m - 1 /\ j \in 0..m /\ j + 1 \in 0..m /\ j + 1 = i
      BY <2>2
    <3> HIDE DEF j
    <3>2. g[j + 1] = f[j] /\ g[(j + 1) + 1] = f[j + 1]
      BY <1>3, <3>1
    <3>3. Can(f[j], e) /\ f[j + 1] = Changed(f[j], e)
      BY <1>2, <3>1
    <3> QED
      BY <3>1, <3>2, <3>3
  <2> QED
    BY <2>1, <2>2
<1>7. Path(g, e, m + 1, s, t)
  BY <1>3, <1>4, <1>5, <1>6 DEF Path
<1> QED
  BY <1>7 DEF Back

\* Once less.
LEMMA BackLess ==
  ASSUME NEW e, NEW m, NEW s, NEW t, m \in Nat, Back(e, m + 1, s, t)
  PROVE  s \in State /\ Can(s, e) /\ Changed(s, e) \in State /\ Back(e, m, Changed(s, e), t)
<1>1. PICK f : Path(f, e, m + 1, s, t)
  BY DEF Back
<1> DEFINE g == [i \in 0..m |-> f[i + 1]]
<1>2. /\ f[0] = s /\ f[m + 1] = t /\ (\A i \in 0..m + 1 : f[i] \in State)
      /\ \A i \in 0..(m + 1) - 1 : Can(f[i], e) /\ f[i + 1] = Changed(f[i], e)
  BY <1>1 DEF Path
<1>3. \A i \in 0..m : g[i] = f[i + 1]
  OBVIOUS
<1> HIDE DEF g
<1>4. 0 \in 0..(m + 1) - 1 /\ 0 \in 0..m /\ m \in 0..m /\ 0 + 1 = 1 /\ 0 \in 0..m + 1 /\ 1 \in 0..m + 1
  OBVIOUS
<1>5. Can(s, e) /\ f[1] = Changed(s, e) /\ g[0] = f[1] /\ g[m] = t /\ f[1] \in State /\ s \in State
  BY <1>2, <1>3, <1>4
<1>6. \A i \in 0..m : g[i] \in State
  <2> TAKE i \in 0..m
  <2>1. i + 1 \in 0..m + 1
    OBVIOUS
  <2> QED
    BY <1>2, <1>3, <2>1
<1>7. ASSUME NEW i \in 0..m - 1 PROVE Can(g[i], e) /\ g[i + 1] = Changed(g[i], e)
  <2> DEFINE j == i + 1
  <2>1. i \in 0..m /\ j \in 0..m /\ j \in 0..(m + 1) - 1
    OBVIOUS
  <2>2. g[i] = f[j] /\ g[j] = f[j + 1]
    BY <1>3, <2>1
  <2>3. Can(f[j], e) /\ f[j + 1] = Changed(f[j], e)
    BY <1>2, <2>1
  <2> QED
    BY <2>2, <2>3
<1>8. Path(g, e, m, Changed(s, e), t)
  BY <1>5, <1>6, <1>7 DEF Path
<1> QED
  BY <1>5, <1>8 DEF Back

\* Entry e on top of entry f undoes a step, or some, from u to v.
Link(e, f, u, v) ==
  /\ u \in State /\ v \in State
  /\ IF IsTimes(e)
       THEN ~ IsKey(f) /\ ~ IsTimes(f) /\ e.arg \in Nat /\ e.arg >= 2 /\ Back(f, e.arg - 1, u, v)
       ELSE Can(u, e) /\ v = Changed(u, e)
  /\ IsKey(f) /\ v.open => e.op = "mark1"

\* The slots x lead from s, through the states S, past those of the snapshots sn.
Trail(d, x, s, sn, S) ==
  /\ d \in Nat /\ x[0] = Nothing /\ S[d] = s /\ s \in State
  /\ \A k \in 0..d - 1 : Link(x[k + 1], x[k], S[k + 1], S[k])
  /\ \A k \in 1..d : IsKey(x[k]) => sn[KeysTo(x, k)] = Snap(S[k])
  /\ sn \in Seq(Snaps) /\ Len(sn) = KeysTo(x, d)

\* A snapshot is one of those remembered.
LEMMA SnapIs ==
  ASSUME NEW s, s \in State
  PROVE  Snap(s) \in Snaps
<1>1. s.b \in Seq(Char) /\ s.a \in Seq(Char)
  BY DEF State
<1>2. s.b \o s.a \in Seq(Char) /\ Len(s.b) \in Nat
  BY <1>1
<1> QED
  BY <1>2 DEF Snap, Snaps

\* A key press has its own number.
LEMMA KeyAt ==
  ASSUME NEW x, NEW d, NEW k, d \in Nat, k \in 1..d, IsKey(x[k])
  PROVE  KeysTo(x, k) \in 1..KeysTo(x, d)
<1>1. k \in Nat /\ k <= d
  OBVIOUS
<1>2. KeysTo(x, k) <= KeysTo(x, d)
  BY <1>1, KeysToUp
<1>3. KeysTo(x, k) \in Nat /\ KeysTo(x, d) \in Nat
  BY <1>1, KeysToIs
<1>4. KeysTo(x, k) >= 1
  <2> DEFINE i == k - 1
  <2>1. i \in Nat /\ i + 1 = k
    BY <1>1
  <2> HIDE DEF i
  <2>2. KeysTo(x, i + 1) = KeysTo(x, i) + (IF IsKey(x[i + 1]) THEN 1 ELSE 0) /\ KeysTo(x, i) \in Nat
    BY <2>1, KeysToIs
  <2> QED
    BY <2>1, <2>2
<1> QED
  BY <1>2, <1>3, <1>4

\* One slot more.
LEMMA TrailAdd ==
  ASSUME NEW d, NEW x, NEW s, NEW sn, NEW S, NEW y, NEW t,
         Trail(d, x, s, sn, S), \A k \in 0..d : y[k] = x[k], Link(y[d + 1], x[d], t, s)
  PROVE  \E T : Trail(d + 1, y, t, IF IsKey(y[d + 1]) THEN Append(sn, Snap(t)) ELSE sn, T)
<1> DEFINE T == [k \in 0..d + 1 |-> IF k = d + 1 THEN t ELSE S[k]]
           sn2 == IF IsKey(y[d + 1]) THEN Append(sn, Snap(t)) ELSE sn
<1>1. /\ d \in Nat /\ x[0] = Nothing /\ S[d] = s /\ s \in State
      /\ \A k \in 0..d - 1 : Link(x[k + 1], x[k], S[k + 1], S[k])
      /\ \A k \in 1..d : IsKey(x[k]) => sn[KeysTo(x, k)] = Snap(S[k])
      /\ sn \in Seq(Snaps) /\ Len(sn) = KeysTo(x, d)
  BY DEF Trail
<1>2. T[d + 1] = t /\ \A k \in 0..d : T[k] = S[k]
  BY <1>1
<1> HIDE DEF T
<1>3. t \in State
  BY DEF Link
<1>4. ASSUME NEW k \in 0..(d + 1) - 1 PROVE Link(y[k + 1], y[k], T[k + 1], T[k])
  <2>1. k \in 0..d /\ y[k] = x[k] /\ T[k] = S[k]
    BY <1>1, <1>2
  <2>2. CASE k = d
    BY <1>1, <1>2, <2>1, <2>2
  <2>3. CASE k # d
    <3>1. k + 1 \in 0..d /\ k \in 0..d - 1
      BY <1>1, <2>1, <2>3
    <3>2. y[k + 1] = x[k + 1] /\ T[k + 1] = S[k + 1]
      BY <1>2, <3>1
    <3> QED
      BY <1>1, <2>1, <3>1, <3>2
  <2> QED
    BY <2>2, <2>3
<1>5. \A k \in 0..d : KeysTo(y, k) = KeysTo(x, k)
  <2> TAKE k \in 0..d
  <2>1. \A i \in 1..k : IsKey(y[i]) <=> IsKey(x[i])
    BY <1>1
  <2> QED
    BY <2>1, KeysToSame
<1>6. KeysTo(y, d + 1) = Len(sn) + (IF IsKey(y[d + 1]) THEN 1 ELSE 0)
  <2>1. KeysTo(y, d + 1) = KeysTo(y, d) + (IF IsKey(y[d + 1]) THEN 1 ELSE 0)
    BY <1>1, KeysToIs
  <2>2. d \in 0..d
    BY <1>1
  <2> QED
    BY <1>1, <1>5, <2>1, <2>2
<1>7. sn2 \in Seq(Snaps) /\ Len(sn2) = KeysTo(y, d + 1)
  <2>1. CASE IsKey(y[d + 1])
    BY <1>1, <1>3, <1>6, <2>1, SnapIs
  <2>2. CASE ~ IsKey(y[d + 1])
    BY <1>1, <1>6, <2>2
  <2> QED
    BY <2>1, <2>2
<1>8. ASSUME NEW k \in 1..d, IsKey(x[k]) PROVE sn2[KeysTo(x, k)] = sn[KeysTo(x, k)]
  <2>1. KeysTo(x, k) \in 1..Len(sn)
    BY <1>1, <1>8, KeyAt
  <2> DEFINE c == KeysTo(x, k)
             z == Snap(t)
  <2> HIDE DEF c, z
  <2>2. c \in 1..Len(sn)
    BY <2>1 DEF c
  <2>3. Append(sn, z)[c] = sn[c]
    BY <1>1, <2>2
  <2> QED
    BY <2>3 DEF c, z
<1>9. ASSUME NEW k \in 1..d + 1, IsKey(y[k]) PROVE sn2[KeysTo(y, k)] = Snap(T[k])
  <2>1. CASE k = d + 1
    <3>1. sn2 = Append(sn, Snap(t)) /\ KeysTo(y, k) = Len(sn) + 1
      BY <1>6, <1>9, <2>1
    <3> QED
      BY <1>1, <1>2, <2>1, <3>1
  <2>2. CASE k # d + 1
    <3>1. k \in 1..d /\ k \in 0..d
      BY <1>1, <2>2
    <3>2. IsKey(x[k]) /\ KeysTo(y, k) = KeysTo(x, k) /\ T[k] = S[k]
      BY <1>2, <1>5, <1>9, <3>1
    <3> QED
      BY <1>1, <1>8, <3>1, <3>2
  <2> QED
    BY <2>1, <2>2
<1>10. y[0] = Nothing /\ d + 1 \in Nat
  BY <1>1
<1> HIDE DEF sn2
<1>11. Trail(d + 1, y, t, sn2, T)
  BY <1>2, <1>3, <1>4, <1>7, <1>9, <1>10 DEF Trail
<1> QED
  BY <1>11 DEF sn2

\* The slot on top taken off.
LEMMA TrailDrop ==
  ASSUME NEW d, NEW x, NEW s, NEW sn, NEW S, NEW y, d \in Nat,
         Trail(d + 1, x, s, sn, S), \A k \in 0..d : y[k] = x[k]
  PROVE  /\ Link(x[d + 1], x[d], s, S[d]) /\ S[d] \in State
         /\ IsKey(x[d + 1]) => sn # <<>> /\ sn[Len(sn)] = Snap(s)
         /\ Trail(d, y, S[d], IF IsKey(x[d + 1]) THEN SubSeq(sn, 1, Len(sn) - 1) ELSE sn, S)
<1> DEFINE sn2 == IF IsKey(x[d + 1]) THEN SubSeq(sn, 1, Len(sn) - 1) ELSE sn
<1>1. /\ d + 1 \in Nat /\ x[0] = Nothing /\ S[d + 1] = s /\ s \in State
      /\ \A k \in 0..(d + 1) - 1 : Link(x[k + 1], x[k], S[k + 1], S[k])
      /\ \A k \in 1..d + 1 : IsKey(x[k]) => sn[KeysTo(x, k)] = Snap(S[k])
      /\ sn \in Seq(Snaps) /\ Len(sn) = KeysTo(x, d + 1)
  BY DEF Trail
<1>2. Link(x[d + 1], x[d], s, S[d])
  <2>1. d \in 0..(d + 1) - 1
    OBVIOUS
  <2> QED
    BY <1>1, <2>1
<1>3. S[d] \in State
  BY <1>2 DEF Link
<1>4. KeysTo(x, d + 1) = KeysTo(x, d) + (IF IsKey(x[d + 1]) THEN 1 ELSE 0) /\ KeysTo(x, d) \in Nat
  BY KeysToIs
<1>5. \A k \in 0..d : KeysTo(y, k) = KeysTo(x, k)
  <2> TAKE k \in 0..d
  <2>1. \A i \in 1..k : IsKey(y[i]) <=> IsKey(x[i])
    OBVIOUS
  <2> QED
    BY <2>1, KeysToSame
<1>6. KeysTo(y, d) = KeysTo(x, d)
  <2>1. d \in 0..d
    OBVIOUS
  <2> QED
    BY <1>5, <2>1
<1>7. ASSUME IsKey(x[d + 1]) PROVE sn # <<>> /\ sn[Len(sn)] = Snap(s)
  <2>1. d + 1 \in 1..d + 1
    OBVIOUS
  <2>2. sn[Len(sn)] = Snap(s)
    BY <1>1, <1>7, <2>1
  <2>3. Len(sn) >= 1
    BY <1>1, <1>4, <1>7
  <2> QED
    BY <1>1, <2>2, <2>3
<1>8. sn2 \in Seq(Snaps) /\ Len(sn2) = KeysTo(y, d)
  <2>1. CASE IsKey(x[d + 1])
    <3>1. Len(sn) = KeysTo(x, d) + 1
      BY <1>1, <1>4, <2>1
    <3>2. Len(sn) - 1 \in 0..Len(sn) /\ Len(sn) - 1 = KeysTo(x, d)
      BY <1>4, <3>1
    <3>3. SubSeq(sn, 1, Len(sn) - 1) \in Seq(Snaps) /\ Len(SubSeq(sn, 1, Len(sn) - 1)) = Len(sn) - 1
      BY <1>1, <3>2
    <3> QED
      BY <1>6, <2>1, <3>2, <3>3
  <2>2. CASE ~ IsKey(x[d + 1])
    BY <1>1, <1>4, <1>6, <2>2
  <2> QED
    BY <2>1, <2>2
<1>9. \A c \in 1..KeysTo(x, d) : sn2[c] = sn[c]
  <2>1. CASE IsKey(x[d + 1])
    <3>1. Len(sn) - 1 = KeysTo(x, d)
      BY <1>1, <1>4, <2>1
    <3> DEFINE m == Len(sn) - 1
    <3>2. m \in Nat /\ m <= Len(sn) /\ sn \in Seq(Snaps)
      BY <1>1, <1>4, <3>1
    <3> HIDE DEF m
    <3>3. \A c \in 1..m : SubSeq(sn, 1, m)[c] = sn[c]
      BY <3>2
    <3> QED
      BY <2>1, <3>1, <3>3 DEF m
  <2>2. CASE ~ IsKey(x[d + 1])
    BY <2>2
  <2> QED
    BY <2>1, <2>2
<1> HIDE DEF sn2
<1>10. \A k \in 0..d - 1 : Link(y[k + 1], y[k], S[k + 1], S[k])
  <2> TAKE k \in 0..d - 1
  <2>1. k \in 0..(d + 1) - 1 /\ k \in 0..d /\ k + 1 \in 0..d
    OBVIOUS
  <2>2. y[k] = x[k] /\ y[k + 1] = x[k + 1]
    BY <2>1
  <2> QED
    BY <1>1, <2>1, <2>2
<1>11. ASSUME NEW k \in 1..d, IsKey(y[k]) PROVE sn2[KeysTo(y, k)] = Snap(S[k])
  <2>1. k \in 0..d /\ k \in 1..d + 1
    OBVIOUS
  <2>2. IsKey(x[k]) /\ KeysTo(y, k) = KeysTo(x, k)
    BY <1>5, <1>11, <2>1
  <2>3. KeysTo(x, k) \in 1..KeysTo(x, d)
    BY <2>2, KeyAt
  <2> QED
    BY <1>1, <1>9, <2>1, <2>2, <2>3
<1>12. y[0] = Nothing
  BY <1>1
<1>13. Trail(d, y, S[d], sn2, S)
  BY <1>3, <1>8, <1>10, <1>11, <1>12 DEF Trail
<1> QED
  BY <1>2, <1>3, <1>7, <1>13 DEF sn2

\* The last c of sn.
Suffix(sn, c) == SubSeq(sn, Len(sn) - c + 1, Len(sn))

\* What w is then.
IsSuffix(w, S, sn, c) ==
  w \in Seq(S) /\ Len(w) = c /\ \A i \in 1..c : w[i] = sn[i + Len(sn) - c]

\* It is.
LEMMA SuffixIs ==
  ASSUME NEW S, NEW sn, NEW c, sn \in Seq(S), c \in 0..Len(sn)
  PROVE  IsSuffix(Suffix(sn, c), S, sn, c)
<1> DEFINE l == Len(sn)
           m == l - c + 1
<1>1. l \in Nat /\ c \in Nat /\ c <= l /\ m \in 1..l + 1 /\ m = l - c + 1
  OBVIOUS
<1>2. \A i \in m..l : sn[i] \in S
  BY <1>1
<1>3. Suffix(sn, c) = SubSeq(sn, m, l)
  BY DEF Suffix
<1> HIDE DEF l, m
<1>4. SubSeq(sn, m, l) \in Seq(S)
  BY <1>1, <1>2, SubSeqProperties
<1>5. Len(SubSeq(sn, m, l)) = c
  BY <1>1, SubSeqProperties
<1>6. \A i \in 1..c : SubSeq(sn, m, l)[i] = sn[i + l - c]
  BY <1>1, SubSeqProperties
<1> QED
  BY <1>3, <1>4, <1>5, <1>6 DEF l, IsSuffix

\* The last of the last, and all of them.
LEMMA SuffixTwice ==
  ASSUME NEW S, NEW sn, NEW c, NEW e, sn \in Seq(S), c \in 0..Len(sn), e \in 0..c
  PROVE  Suffix(Suffix(sn, c), e) = Suffix(sn, e)
<1>1. c \in Nat /\ e \in Nat /\ e <= c /\ Len(sn) \in Nat /\ e \in 0..Len(sn)
  OBVIOUS
<1> DEFINE u == Suffix(sn, c)
           v == Suffix(u, e)
           w == Suffix(sn, e)
<1>2. IsSuffix(u, S, sn, c)
  BY SuffixIs
<1>3. IsSuffix(w, S, sn, e)
  BY <1>1, SuffixIs
<1> HIDE DEF u, w
<1>4. e \in 0..Len(u) /\ u \in Seq(S)
  BY <1>1, <1>2 DEF IsSuffix
<1>5. IsSuffix(v, S, u, e)
  BY <1>4, SuffixIs
<1> HIDE DEF v
<1>6. ASSUME NEW i \in 1..e PROVE v[i] = w[i]
  <2> DEFINE k == i + c - e
  <2>1. k \in 1..c /\ k + Len(sn) - c = i + Len(sn) - e
    BY <1>1
  <2>2. v[i] = u[k]
    BY <1>2, <1>5 DEF IsSuffix
  <2> HIDE DEF k
  <2> QED
    BY <1>2, <1>3, <2>1, <2>2 DEF IsSuffix
<1>7. v = w
  BY <1>3, <1>5, <1>6, SeqEqual DEF IsSuffix
<1> QED
  BY <1>7 DEF u, v, w

\* All of a sequence is its own end.
LEMMA SuffixAll ==
  ASSUME NEW S, NEW sn, sn \in Seq(S)
  PROVE  Suffix(sn, Len(sn)) = sn
<1>1. Len(sn) \in Nat /\ Len(sn) \in 0..Len(sn)
  OBVIOUS
<1> DEFINE w == Suffix(sn, Len(sn))
<1>2. IsSuffix(w, S, sn, Len(sn))
  BY <1>1, SuffixIs
<1> HIDE DEF w
<1>3. \A i \in 1..Len(sn) : i + Len(sn) - Len(sn) = i
  BY <1>1
<1>4. w = sn
  BY <1>2, <1>3, SeqEqual DEF IsSuffix
<1> QED
  BY <1>4 DEF w

\* The bottom taken off, up to a key press.
LEMMA TrailCut ==
  ASSUME NEW d, NEW x, NEW s, NEW sn, NEW S, NEW y, NEW j, Trail(d, x, s, sn, S), j \in 0..d,
         y[0] = Nothing, \A k \in 1..d - j : y[k] = x[k + j], j # d => IsKey(x[j + 1])
  PROVE  /\ KeysTo(y, d - j) \in 0..Len(sn)
         /\ \E T : Trail(d - j, y, s, Suffix(sn, KeysTo(y, d - j)), T)
<1> DEFINE m == d - j
           c == KeysTo(y, m)
           T == [k \in 0..m |-> S[k + j]]
           sn2 == Suffix(sn, c)
<1>1. /\ d \in Nat /\ x[0] = Nothing /\ S[d] = s /\ s \in State
      /\ \A k \in 0..d - 1 : Link(x[k + 1], x[k], S[k + 1], S[k])
      /\ \A k \in 1..d : IsKey(x[k]) => sn[KeysTo(x, k)] = Snap(S[k])
      /\ sn \in Seq(Snaps) /\ Len(sn) = KeysTo(x, d)
  BY DEF Trail
<1>2. m \in Nat /\ j \in Nat /\ m + j = d /\ (\A k \in 1..m : y[k] = x[k + j])
  BY <1>1
<1>3. \A k \in 0..m : T[k] = S[k + j]
  OBVIOUS
<1> HIDE DEF m, T
<1>4. \A k \in 0..m : KeysTo(x, k + j) = KeysTo(x, j) + KeysTo(y, k)
  <2> TAKE k \in 0..m
  <2>1. k \in Nat /\ \A i \in 1..k : y[i] = x[i + j]
    BY <1>2
  <2> QED
    BY <1>2, <2>1, KeysToShift
<1>5. Len(sn) = KeysTo(x, j) + c /\ KeysTo(x, j) \in Nat /\ c \in Nat
  <2>1. m \in 0..m
    BY <1>2
  <2>2. KeysTo(x, m + j) = KeysTo(x, j) + KeysTo(y, m)
    BY <1>4, <2>1
  <2>3. KeysTo(x, j) \in Nat /\ KeysTo(y, m) \in Nat
    BY <1>2, KeysToIs
  <2> QED
    BY <1>1, <1>2, <2>2, <2>3
<1> HIDE DEF c
<1>6. c \in 0..Len(sn)
  BY <1>5
<1>7. IsSuffix(sn2, Snaps, sn, c)
  BY <1>1, <1>6, SuffixIs
<1> HIDE DEF sn2
<1>8. T[m] = s
  <2>1. m \in 0..m
    BY <1>2
  <2> QED
    BY <1>1, <1>2, <1>3, <2>1
<1>9. ASSUME NEW k \in 0..m - 1 PROVE Link(y[k + 1], y[k], T[k + 1], T[k])
  <2> DEFINE i == k + j
  <2>1. k \in 0..m /\ k + 1 \in 0..m /\ k + 1 \in 1..m /\ i \in 0..d - 1 /\ (k + 1) + j = i + 1
    BY <1>2
  <2>2. T[k] = S[i] /\ T[k + 1] = S[i + 1] /\ y[k + 1] = x[i + 1]
    BY <1>2, <1>3, <2>1
  <2>3. k # 0 => y[k] = x[i]
    BY <1>2, <2>1
  <2>4. k = 0 => i = j /\ j # d
    BY <1>2, <2>1
  <2> HIDE DEF i
  <2>5. Link(x[i + 1], x[i], S[i + 1], S[i])
    BY <1>1, <2>1
  <2>6. CASE k # 0
    BY <2>2, <2>3, <2>5, <2>6
  <2>7. CASE k = 0
    <3>1. y[k] = Nothing /\ IsKey(x[i + 1])
      BY <2>4, <2>7
    <3>2. ~ IsTimes(x[i + 1]) /\ ~ IsKey(Nothing)
      BY <3>1 DEF IsTimes, IsKey, Nothing, Entry
    <3> QED
      BY <2>2, <2>5, <3>1, <3>2 DEF Link
  <2> QED
    BY <2>6, <2>7
<1>10. ASSUME NEW k \in 1..m, IsKey(y[k]) PROVE sn2[KeysTo(y, k)] = Snap(T[k])
  <2> DEFINE i == k + j
  <2>1. k \in 0..m /\ i \in 1..d
    BY <1>2
  <2>2. y[k] = x[i] /\ T[k] = S[i] /\ KeysTo(x, i) = KeysTo(x, j) + KeysTo(y, k)
    BY <1>2, <1>3, <1>4, <2>1
  <2> HIDE DEF i
  <2>3. sn[KeysTo(x, i)] = Snap(S[i])
    BY <1>1, <1>10, <2>1, <2>2
  <2>4. KeysTo(y, k) \in 1..c
    BY <1>2, <1>10, KeyAt DEF c
  <2>5. KeysTo(y, k) + Len(sn) - c = KeysTo(x, i)
    BY <1>5, <2>2, <2>4
  <2> QED
    BY <1>7, <2>2, <2>3, <2>4, <2>5 DEF IsSuffix
<1>11. Trail(m, y, s, sn2, T)
  BY <1>1, <1>2, <1>7, <1>8, <1>9, <1>10 DEF Trail, c, IsSuffix
<1> QED
  BY <1>6, <1>11 DEF m, c, sn2

\* The undo stack st leads from s, past the snapshots sn; its oldest entry is a key press.
Good(st, s, sn) ==
  /\ Ring(st, option_max_undo)
  /\ Depth(st) # 0 => IsKey(Slots(st)[1])
  /\ \E S : Trail(Depth(st), Slots(st), s, sn, S)

\* The slots, as a function.
LEMMA SlotsAre ==
  ASSUME NEW max, NEW st, Ring(st, max)
  PROVE  /\ Depth(st) \in Nat /\ Slots(st)[0] = Nothing /\ \A k \in 1..Depth(st) : Slots(st)[k] = Slot(st, k)
         /\ Depth(st) # 0 => Slots(st)[Depth(st)] = Top(st) /\ Slots(st)[1] = Slot(st, 1)
<1> DEFINE d == Depth(st)
<1>1. d \in Nat
  BY Tops
<1>2. Slots(st)[0] = Nothing /\ \A k \in 1..d : Slots(st)[k] = Slot(st, k)
  BY <1>1 DEF Slots
<1> HIDE DEF d
<1>3. d # 0 => 1 \in 1..d /\ d \in 1..d
  BY <1>1
<1>4. Top(st) = Slot(st, d)
  BY DEF Top, d
<1> QED
  BY <1>1, <1>2, <1>3, <1>4 DEF d

\* As many key presses in the ring as there are snapshots.
LEMMA GoodKeys ==
  ASSUME NEW st, NEW s, NEW sn, Good(st, s, sn)
  PROVE  sn \in Seq(Snaps) /\ Keys(st) = Len(sn) /\ s \in State
<1>1. PICK S : Trail(Depth(st), Slots(st), s, sn, S)
  BY DEF Good
<1>2. sn \in Seq(Snaps) /\ Len(sn) = KeysTo(Slots(st), Depth(st)) /\ s \in State
  BY <1>1 DEF Trail
<1>3. Ring(st, option_max_undo)
  BY DEF Good
<1>4. Keys(st) = KeysTo(Slots(st), Depth(st))
  BY <1>3, KeysAreSlots
<1> QED
  BY <1>2, <1>4

\* A larger ring with the same slots.
LEMMA EnlargedGood ==
  ASSUME NEW st, NEW s, NEW sn, Good(st, s, sn), option_max_undo \in Nat
  PROVE  /\ Good(Enlarged(st), s, sn) /\ Enlarged(st).sp = st.sp
         /\ Depth(Enlarged(st)) = Depth(st) /\ Slots(Enlarged(st)) = Slots(st)
         /\ stack_size(Enlarged(st)) < option_max_undo => Enlarged(st).sp <= stack_size(Enlarged(st)) - Slack
<1> DEFINE big == Enlarged(st)
           max == option_max_undo
<1>1. Ring(st, max)
  BY DEF Good
<1>2. /\ Ring(big, max) /\ big.sp = st.sp /\ Depth(big) = Depth(st)
      /\ \A k \in 1..Depth(st) : Slot(big, k) = Slot(st, k)
      /\ stack_size(big) < max => big.sp <= stack_size(big) - Slack
  BY <1>1, EnlargedRing
<1> HIDE DEF big, max
<1>3. Depth(st) \in Nat
  BY <1>1, SlotsAre
<1>4. Slots(big) = Slots(st)
  <2>1. \A k \in 0..Depth(st) : (IF k = 0 THEN Nothing ELSE Slot(big, k)) = (IF k = 0 THEN Nothing ELSE Slot(st, k))
    <3> TAKE k \in 0..Depth(st)
    <3>1. k # 0 => k \in 1..Depth(st)
      BY <1>3
    <3> QED
      BY <1>2, <3>1
  <2> QED
    BY <1>2, <2>1 DEF Slots
<1>5. Good(big, s, sn)
  BY <1>2, <1>4 DEF Good, max
<1> QED
  BY <1>2, <1>4, <1>5 DEF big, max

\* The slots below the one on top.
Below(st) == Depth(st) - 1

\* The snapshots without, and with, that of e.
Earlier(sn, e) == IF IsKey(e) THEN SubSeq(sn, 1, Len(sn) - 1) ELSE sn
Later(sn, e, s) == IF IsKey(e) THEN Append(sn, Snap(s)) ELSE sn

\* The slots below the top are a natural number.
LEMMA BelowIs ==
  ASSUME NEW max, NEW st, Ring(st, max), Depth(st) # 0
  PROVE  Below(st) \in Nat /\ Depth(st) = Below(st) + 1 /\ Depth(st) >= 1
<1>1. Depth(st) \in Nat
  BY SlotsAre
<1> QED
  BY <1>1 DEF Below

\* The slot on top taken off.
LEMMA UntoppedGood ==
  ASSUME NEW st, NEW s, NEW sn, NEW S, Ring(st, option_max_undo), Depth(st) # 0,
         IsKey(Slots(st)[1]), Trail(Depth(st), Slots(st), s, sn, S)
  PROVE  /\ Link(Top(st), Slots(st)[Below(st)], s, S[Below(st)])
         /\ IsKey(Top(st)) => sn # <<>> /\ sn[Len(sn)] = Snap(s)
         /\ Good(Untopped(st), S[Below(st)], Earlier(sn, Top(st)))
         /\ Depth(Untopped(st)) = Below(st) /\ Untopped(st).sp # st.sp
         /\ Slots(Untopped(st))[Below(st)] = Slots(st)[Below(st)]
<1> DEFINE c == Below(st)
           x == Slots(st)
           u == Untopped(st)
           y == Slots(u)
           max == option_max_undo
           sn2 == Earlier(sn, Top(st))
<1>1. c \in Nat /\ Depth(st) = c + 1 /\ Depth(st) >= 1
  BY BelowIs
<1>2. x[0] = Nothing /\ (\A k \in 1..c + 1 : x[k] = Slot(st, k)) /\ x[c + 1] = Top(st)
  BY <1>1, SlotsAre
<1>3. Depth(st) >= 1 /\ Depth(st) - 1 = c
  BY <1>1
<1> HIDE DEF c
<1>4. Ring(u, max) /\ Depth(u) = c /\ u.sp # st.sp /\ \A k \in 1..c : Slot(u, k) = Slot(st, k)
  BY <1>3, RemovedTop
<1>5. y[0] = Nothing /\ \A k \in 1..c : y[k] = Slot(u, k)
  BY <1>4, SlotsAre
<1> HIDE DEF x, u, y
<1>6. \A k \in 0..c : y[k] = x[k]
  <2> TAKE k \in 0..c
  <2>1. k # 0 => k \in 1..c /\ k \in 1..c + 1
    BY <1>1
  <2> QED
    BY <1>2, <1>4, <1>5, <2>1
<1>7. Trail(c + 1, x, s, sn, S)
  BY <1>1 DEF x
<1>8. /\ Link(x[c + 1], x[c], s, S[c])
      /\ IsKey(x[c + 1]) => sn # <<>> /\ sn[Len(sn)] = Snap(s)
      /\ Trail(c, y, S[c], IF IsKey(x[c + 1]) THEN SubSeq(sn, 1, Len(sn) - 1) ELSE sn, S)
  BY <1>1, <1>6, <1>7, TrailDrop
<1>9. c # 0 => IsKey(y[1])
  <2>1. c # 0 => 1 \in 0..c
    BY <1>1
  <2>2. IsKey(x[1])
    BY DEF x
  <2> QED
    BY <1>6, <2>1, <2>2
<1>10. Good(u, S[c], sn2)
  BY <1>2, <1>4, <1>8, <1>9 DEF Good, y, Earlier
<1>11. y[c] = x[c]
  <2>1. c \in 0..c
    BY <1>1
  <2> QED
    BY <1>6, <2>1
<1> QED
  BY <1>2, <1>4, <1>8, <1>10, <1>11 DEF x, y, u, c

\* The slot on top replaced by another that is no key press.
LEMMA RetoppedGood ==
  ASSUME NEW st, NEW s, NEW sn, NEW S, NEW z, NEW t, Ring(st, option_max_undo), Depth(st) # 0,
         IsKey(Slots(st)[1]), Trail(Depth(st), Slots(st), s, sn, S), ~ IsKey(Top(st)), ~ IsKey(z),
         Link(z, Slots(st)[Below(st)], t, S[Below(st)])
  PROVE  Good(Retopped(st, z), t, sn) /\ Top(Retopped(st, z)) = z
<1> DEFINE c == Below(st)
           x == Slots(st)
           u == Retopped(st, z)
           y == Slots(u)
           max == option_max_undo
<1>1. c \in Nat /\ Depth(st) = c + 1 /\ Depth(st) >= 1
  BY BelowIs
<1>2. x[0] = Nothing /\ (\A k \in 1..c + 1 : x[k] = Slot(st, k)) /\ x[c + 1] = Top(st)
  BY <1>1, SlotsAre
<1>3. Depth(st) >= 1
  BY <1>1
<1> HIDE DEF c
<1>4. Ring(u, max) /\ Depth(u) = c + 1 /\ Top(u) = z /\ \A k \in 0..c : k # 0 => Slot(u, k) = Slot(st, k)
  <2>1. Ring(u, max) /\ Depth(u) = Depth(st) /\ Top(u) = z /\ \A k \in 1..Depth(st) : k # Depth(st) => Slot(u, k) = Slot(st, k)
    BY <1>3, ReplacedTop
  <2>2. ASSUME NEW k \in 0..c, k # 0 PROVE Slot(u, k) = Slot(st, k)
    <3>1. k \in 1..Depth(st) /\ k # Depth(st)
      BY <1>1, <2>2
    <3> QED
      BY <2>1, <3>1
  <2> QED
    BY <1>1, <2>1, <2>2
<1>5. y[0] = Nothing /\ (\A k \in 1..c + 1 : y[k] = Slot(u, k)) /\ y[c + 1] = Top(u)
  <2>1. Depth(u) # 0 /\ Depth(u) = c + 1
    BY <1>1, <1>4
  <2>2. /\ Slots(u)[0] = Nothing /\ \A k \in 1..Depth(u) : Slots(u)[k] = Slot(u, k)
        /\ Depth(u) # 0 => Slots(u)[Depth(u)] = Top(u)
    BY <1>4, SlotsAre
  <2> QED
    BY <2>1, <2>2
<1> HIDE DEF x, u, y
<1>6. y[c + 1] = z /\ \A k \in 0..c : y[k] = x[k]
  <2>1. c + 1 \in 1..c + 1
    BY <1>1
  <2>2. y[c + 1] = z
    BY <1>4, <1>5, <2>1
  <2>3. ASSUME NEW k \in 0..c PROVE y[k] = x[k]
    <3>1. (k # 0 => k \in 1..c + 1) /\ k # c + 1
      BY <1>1
    <3> QED
      BY <1>2, <1>4, <1>5, <3>1
  <2> QED
    BY <2>2, <2>3
<1>7. Trail(c + 1, x, s, sn, S) /\ ~ IsKey(x[c + 1])
  BY <1>1, <1>2 DEF x
<1>8. Trail(c, x, S[c], sn, S)
  <2>1. \A k \in 0..c : x[k] = x[k]
    OBVIOUS
  <2> QED
    BY <1>1, <1>7, <2>1, TrailDrop
<1>9. Link(y[c + 1], x[c], t, S[c])
  BY <1>6 DEF x, c
<1>10. \E T : Trail(c + 1, y, t, sn, T)
  <2>1. \E T : Trail(c + 1, y, t, IF IsKey(y[c + 1]) THEN Append(sn, Snap(t)) ELSE sn, T)
    BY <1>6, <1>8, <1>9, TrailAdd
  <2>2. ~ IsKey(y[c + 1])
    BY <1>6
  <2> QED
    BY <2>1, <2>2
<1>11. IsKey(y[1])
  <2>1. c # 0
    <3>1. ~ IsKey(x[c + 1]) /\ IsKey(x[1])
      BY <1>7 DEF x
    <3> QED
      BY <3>1
  <2>2. 1 \in 0..c /\ IsKey(x[1])
    BY <1>1, <2>1 DEF x
  <2> QED
    BY <1>6, <2>2
<1>12. Good(u, t, sn)
  BY <1>4, <1>10, <1>11 DEF Good, y
<1> QED
  BY <1>4, <1>5, <1>6, <1>12 DEF u

\* The stack st leads from s past the last of the snapshots sn.
Leaves(st, s, sn) == Keys(st) \in 0..Len(sn) /\ Good(st, s, Suffix(sn, Keys(st)))

\* It leads past all of them if it does past each.
LEMMA GoodLeaves ==
  ASSUME NEW st, NEW s, NEW sn, Good(st, s, sn)
  PROVE  Leaves(st, s, sn)
<1>1. sn \in Seq(Snaps) /\ Keys(st) = Len(sn)
  BY GoodKeys
<1>2. Suffix(sn, Keys(st)) = sn
  BY <1>1, SuffixAll
<1>3. Keys(st) \in 0..Len(sn)
  BY <1>1
<1> QED
  BY <1>2, <1>3 DEF Leaves

\* The last of the last are the last.
LEMMA LeavesTwice ==
  ASSUME NEW st, NEW s, NEW sn, NEW c, sn \in Seq(Snaps), c \in 0..Len(sn), Leaves(st, s, Suffix(sn, c))
  PROVE  Leaves(st, s, sn)
<1> DEFINE k == Keys(st)
           u == Suffix(sn, c)
<1>1. k \in 0..Len(u) /\ Good(st, s, Suffix(u, k))
  BY DEF Leaves
<1>2. Len(u) = c
  BY SuffixIs DEF IsSuffix
<1> HIDE DEF k
<1>3. k \in 0..c /\ k \in 0..Len(sn)
  BY <1>1, <1>2
<1>4. Suffix(u, k) = Suffix(sn, k)
  BY <1>3, SuffixTwice
<1> QED
  BY <1>1, <1>3, <1>4 DEF Leaves, k

\* A new slot, and what its place costs at the bottom.
LEMMA PushedGood ==
  ASSUME NEW st, NEW s, NEW sn, NEW e, NEW t, Good(st, s, sn), Link(e, Slots(st)[Depth(st)], t, s),
         stack_size(st) < option_max_undo => st.sp <= stack_size(st) - Slack
  PROVE  /\ Leaves(Pushed(st, e), t, Later(sn, e, t))
         /\ Depth(Pushed(st, e)) # 0 => Top(Pushed(st, e)) = e
         /\ IsKey(e) => Depth(Pushed(st, e)) # 0 /\ Pushed(st, e).sp # st.sp
<1> DEFINE x == Slots(st)
           d == Depth(st)
           r == Pushed(st, e)
           y == Slots(r)
           max == option_max_undo
           m == d + 1
           sn2 == Later(sn, e, t)
           w == [k \in 0..m |-> IF k = m THEN e ELSE x[k]]
<1>1. Ring(st, max) /\ (d # 0 => IsKey(x[1]))
  BY DEF Good
<1>2. d \in Nat /\ x[0] = Nothing /\ (\A k \in 1..d : x[k] = Slot(st, k)) /\ (d # 0 => x[1] = Slot(st, 1))
  BY <1>1, SlotsAre
<1>3. PICK S : Trail(d, x, s, sn, S)
  BY DEF Good
<1>4. Ring(r, max) /\ \E j \in 0..m : Grown(r, st, e, m, j)
  BY <1>1, NewSlot
<1> HIDE DEF x, r, d
<1>5. w[m] = e /\ (\A k \in 0..d : w[k] = x[k]) /\ m \in Nat
  BY <1>2
<1> HIDE DEF w
<1>6. PICK T : Trail(m, w, t, sn2, T)
  <2>1. Link(w[d + 1], x[d], t, s)
    BY <1>5 DEF x, d
  <2>2. \E T : Trail(d + 1, w, t, IF IsKey(w[d + 1]) THEN Append(sn, Snap(t)) ELSE sn, T)
    BY <1>3, <1>5, <2>1, TrailAdd
  <2> QED
    BY <1>5, <2>2 DEF Later
<1> HIDE DEF m, sn2
<1>7. PICK j \in 0..m : Grown(r, st, e, m, j)
  BY <1>4
<1>8. /\ Depth(r) = m - j
      /\ \A k \in 1..m - j : Slot(r, k) = IF k + j = m THEN e ELSE Slot(st, k + j)
      /\ j # m => r.sp # st.sp /\ IsKey(Slot(r, 1))
      /\ IsKey(e) /\ (Depth(st) = 0 \/ IsKey(Slot(st, 1))) => j # m
  BY <1>7 DEF Grown
<1>9. y[0] = Nothing /\ (\A k \in 1..m - j : y[k] = Slot(r, k)) /\ (m - j # 0 => y[m - j] = Top(r) /\ y[1] = Slot(r, 1))
  BY <1>4, <1>8, SlotsAre
<1> HIDE DEF y
<1>10. \A k \in 1..m - j : y[k] = w[k + j]
  <2> TAKE k \in 1..m - j
  <2> DEFINE i == k + j
  <2>1. i \in 1..m /\ (i # m => i \in 1..d /\ i \in 0..d)
    BY <1>2, <1>5 DEF m
  <2>2. y[k] = IF i = m THEN e ELSE Slot(st, i)
    BY <1>8, <1>9
  <2> HIDE DEF i
  <2>3. y[k] = w[i]
    BY <1>2, <1>5, <2>1, <2>2
  <2> QED
    BY <2>3 DEF i
<1>11. ASSUME j # m PROVE IsKey(y[1]) /\ IsKey(w[j + 1])
  <2>1. 1 \in 1..m - j /\ m - j # 0 /\ 1 + j = j + 1
    BY <1>5, <1>11
  <2>2. IsKey(y[1])
    BY <1>8, <1>9, <1>11, <2>1
  <2>3. y[1] = w[1 + j]
    BY <1>10, <2>1
  <2> QED
    BY <2>1, <2>2, <2>3
<1>12. /\ KeysTo(y, m - j) \in 0..Len(sn2)
       /\ \E U : Trail(m - j, y, t, Suffix(sn2, KeysTo(y, m - j)), U)
  BY <1>6, <1>9, <1>10, <1>11, TrailCut
<1>13. Keys(r) = KeysTo(y, m - j)
  BY <1>4, <1>8, KeysAreSlots DEF y
<1>14. m - j # 0 <=> j # m
  BY <1>5
<1>15. Good(r, t, Suffix(sn2, Keys(r)))
  <2>1. Depth(r) # 0 => IsKey(Slots(r)[1])
    BY <1>8, <1>11, <1>14 DEF y
  <2>2. \E U : Trail(Depth(r), Slots(r), t, Suffix(sn2, Keys(r)), U)
    BY <1>8, <1>12, <1>13 DEF y
  <2> QED
    BY <1>4, <2>1, <2>2 DEF Good
<1>16. Leaves(r, t, sn2)
  BY <1>12, <1>13, <1>15 DEF Leaves
<1>17. ASSUME Depth(r) # 0 PROVE Top(r) = e
  <2>1. j # m
    BY <1>8, <1>14, <1>17
  <2>2. m - j \in 1..m - j /\ (m - j) + j = m
    BY <1>5, <2>1
  <2>3. y[m - j] = w[(m - j) + j]
    BY <1>10, <2>2
  <2> QED
    BY <1>5, <1>9, <1>14, <2>1, <2>2, <2>3
<1>18. ASSUME IsKey(e) PROVE Depth(r) # 0 /\ r.sp # st.sp
  <2>1. Depth(st) = 0 \/ IsKey(Slot(st, 1))
    BY <1>1, <1>2 DEF d
  <2> QED
    BY <1>8, <1>14, <1>18, <2>1
<1> QED
  BY <1>16, <1>17, <1>18 DEF r, sn2

\* Not at all.
LEMMA BackNone ==
  ASSUME NEW e, NEW s, NEW t, Back(e, 0, s, t)
  PROVE  s = t
BY DEF Back, Path

\* The slot on top undone once.
LEMMA PoppedGood ==
  ASSUME NEW st, NEW s, NEW sn, Good(st, s, sn), Depth(st) # 0
  PROVE  LET e == Base(st)
             t == Changed(s, e)
         IN /\ Popped(st) = e /\ Can(s, e) /\ ~ IsTimes(e) /\ t \in State
            /\ IsKey(e) => sn # <<>> /\ sn[Len(sn)] = Snap(s)
            /\ Good(pop_action(st), t, Earlier(sn, e))
            /\ Depth(pop_action(st)) # 0 /\ IsKey(Top(pop_action(st))) /\ t.open => e.op = "mark1"
<1> DEFINE x == Slots(st)
           d == Depth(st)
           max == option_max_undo
           e == Base(st)
           t == Changed(s, e)
           c == Below(st)
           top == Top(st)
           r == pop_action(st)
<1>1. Ring(st, max) /\ IsKey(x[1])
  BY DEF Good
<1>2. d \in Nat /\ x[0] = Nothing /\ (\A k \in 1..d : x[k] = Slot(st, k)) /\ x[d] = top
  BY <1>1, SlotsAre
<1>3. PICK S : Trail(d, x, s, sn, S)
  BY DEF Good
<1> HIDE DEF x, d, top
<1>4. c \in Nat /\ d = c + 1
  BY <1>1, BelowIs DEF d
<1>5. c = Depth(st) - 1
  BY DEF Below
<1> HIDE DEF c
<1>6. IsTimes(top) => c # 0
  <2>1. IsTimes(top) => ~ IsKey(top)
    BY DEF IsTimes, IsKey
  <2> QED
    BY <1>1, <1>2, <1>4, <2>1
<1>7. Trail(Depth(st), Slots(st), s, sn, S) /\ Depth(st) = c + 1 /\ IsKey(Slots(st)[1])
  BY <1>1, <1>3, <1>4 DEF x, d
<1>8. /\ Link(top, x[c], s, S[c])
      /\ IsKey(top) => sn # <<>> /\ sn[Len(sn)] = Snap(s)
      /\ Good(Untopped(st), S[c], Earlier(sn, top))
      /\ Depth(Untopped(st)) = c
      /\ Slots(Untopped(st))[c] = x[c]
  BY <1>1, <1>7, UntoppedGood DEF x, top, c
<1>9. c # 0 => Top(Untopped(st)) = x[c]
  <2>1. Ring(Untopped(st), max)
    BY <1>8 DEF Good
  <2> QED
    BY <1>8, <2>1, SlotsAre
<1>10. /\ Popped(st) = e
       /\ r = IF Repeats(top) THEN Retopped(st, Entry("times", top.arg - 1)) ELSE Untopped(st)
  <2>1. Depth(st) >= 1 /\ (Depth(st) >= 1 /\ IsTimes(Top(st)) => Depth(st) >= 2)
    BY <1>4, <1>6, <1>7 DEF top
  <2> QED
    BY <1>1, <2>1, PopCases DEF top
<1>11. e = IF IsTimes(top) THEN x[c] ELSE top
  <2>1. c # 0 => x[c] = Slot(st, c)
    <3>1. c # 0 => c \in 1..d
      BY <1>4
    <3> QED
      BY <1>2, <3>1
  <2> QED
    BY <1>5, <1>6, <2>1 DEF Base, top
<1> HIDE DEF e, r
<1>12. CASE ~ IsTimes(top)
  <2>1. e = top /\ r = Untopped(st)
    BY <1>10, <1>11, <1>12 DEF Repeats
  <2>2. Can(s, e) /\ S[c] = t /\ t \in State /\ (IsKey(x[c]) /\ t.open => e.op = "mark1")
    BY <1>8, <1>12, <2>1 DEF Link
  <2>3. Depth(r) # 0 /\ IsKey(Top(r)) /\ t.open => e.op = "mark1"
    BY <1>8, <1>9, <2>1, <2>2
  <2>4. Good(r, t, Earlier(sn, e))
    BY <1>8, <2>1, <2>2
  <2> HIDE DEF t
  <2> QED
    BY <1>8, <1>10, <1>12, <2>1, <2>2, <2>3, <2>4 DEF e, r, t
<1>13. CASE IsTimes(top)
  <2> DEFINE m == top.arg - 2
  <2>1. e = x[c] /\ ~ IsKey(top)
    BY <1>11, <1>13 DEF IsTimes, IsKey
  <2>2. ~ IsKey(e) /\ ~ IsTimes(e) /\ top.arg \in Nat /\ top.arg >= 2 /\ Back(e, top.arg - 1, s, S[c]) /\ S[c] \in State
    BY <1>8, <1>13, <2>1 DEF Link
  <2>3. m \in Nat /\ top.arg - 1 = m + 1 /\ (Repeats(top) <=> m # 0)
    BY <1>13, <2>2 DEF Repeats
  <2> HIDE DEF m
  <2>4. Can(s, e) /\ t \in State /\ Back(e, m, t, S[c])
    BY <2>2, <2>3, BackLess
  <2> HIDE DEF t
  <2>5. CASE m = 0
    <3>1. S[c] = t /\ r = Untopped(st)
      BY <1>10, <2>3, <2>4, <2>5, BackNone
    <3>2. Good(r, t, sn) /\ Depth(r) = c /\ ~ IsKey(Top(r))
      BY <1>6, <1>8, <1>9, <1>13, <2>1, <2>2, <3>1 DEF Earlier
    <3> QED
      BY <1>10, <2>2, <2>4, <3>2 DEF e, r, t, Earlier
  <2>6. CASE m # 0
    <3> DEFINE z == Entry("times", m + 1)
    <3>1. r = Retopped(st, z)
      BY <1>10, <2>3, <2>6
    <3>2. IsTimes(z) /\ z.arg = m + 1 /\ ~ IsKey(z)
      BY DEF Entry, IsTimes, IsKey
    <3> HIDE DEF z
    <3>3. Link(z, x[c], t, S[c])
      <4>1. z.arg \in Nat /\ z.arg >= 2 /\ z.arg - 1 = m
        BY <2>3, <2>6, <3>2
      <4> QED
        BY <2>1, <2>2, <2>4, <3>2, <4>1 DEF Link
    <3>4. Link(z, Slots(st)[Below(st)], t, S[Below(st)]) /\ ~ IsKey(Top(st))
      BY <2>1, <3>3 DEF x, top, c
    <3>5. Good(r, t, sn) /\ Top(r) = z
      BY <1>1, <1>7, <3>1, <3>2, <3>4, RetoppedGood
    <3> QED
      BY <1>10, <2>2, <2>4, <3>2, <3>5 DEF e, r, t, Earlier
  <2> QED
    BY <2>5, <2>6
<1> QED
  BY <1>12, <1>13

-----------------------------------------------------------------------------
(* What a push does *)

\* The ends of a sequence taken off and put back.
LEMMA Ends ==
  ASSUME NEW s, NEW c, s \in Seq(Char), c \in Char
  PROVE  /\ SubSeq(Append(s, c), 1, Len(s)) = s /\ Append(s, c)[Len(s) + 1] = c
         /\ Head(<<c>> \o s) = c /\ Tail(<<c>> \o s) = s
         /\ s # <<>> => /\ Append(SubSeq(s, 1, Len(s) - 1), s[Len(s)]) = s
                        /\ <<Head(s)>> \o Tail(s) = s
                        /\ SubSeq(s, 1, Len(s) - 1) \in Seq(Char) /\ s[Len(s)] \in Char
                        /\ Tail(s) \in Seq(Char) /\ Head(s) \in Char
                        /\ Len(SubSeq(s, 1, Len(s) - 1)) = Len(s) - 1 /\ Len(Tail(s)) = Len(s) - 1 /\ Len(s) >= 1
<1>1. SubSeq(Append(s, c), 1, Len(s)) = s /\ Append(s, c)[Len(s) + 1] = c
  OBVIOUS
<1>2. Head(<<c>> \o s) = c /\ Tail(<<c>> \o s) = s
  <2> DEFINE w == <<c>> \o s
  <2>1. w \in Seq(Char) /\ Len(w) = Len(s) + 1 /\ w[1] = c /\ \A i \in 1..Len(s) : w[i + 1] = s[i]
    OBVIOUS
  <2> HIDE DEF w
  <2>2. w # <<>> /\ Head(w) = c
    BY <2>1
  <2>3. Tail(w) \in Seq(Char) /\ Len(Tail(w)) = Len(s) /\ \A i \in 1..Len(s) : Tail(w)[i] = w[i + 1]
    BY <2>1, <2>2
  <2>4. Tail(w) = s
    BY <2>1, <2>3, SeqEqual
  <2> QED
    BY <2>2, <2>4 DEF w
<1>3. ASSUME s # <<>>
      PROVE  /\ Append(SubSeq(s, 1, Len(s) - 1), s[Len(s)]) = s
             /\ <<Head(s)>> \o Tail(s) = s
             /\ SubSeq(s, 1, Len(s) - 1) \in Seq(Char) /\ s[Len(s)] \in Char
             /\ Tail(s) \in Seq(Char) /\ Head(s) \in Char
             /\ Len(SubSeq(s, 1, Len(s) - 1)) = Len(s) - 1 /\ Len(Tail(s)) = Len(s) - 1 /\ Len(s) >= 1
  <2>1. Len(s) \in Nat /\ Len(s) >= 1 /\ s[Len(s)] \in Char /\ Head(s) = s[1] /\ Head(s) \in Char
    BY <1>3
  <2> DEFINE m == Len(s) - 1
             f == SubSeq(s, 1, m)
             z == s[Len(s)]
             w == Append(f, z)
             g == Tail(s)
             v == <<Head(s)>> \o g
  <2>2. m \in Nat /\ m <= Len(s) /\ m + 1 = Len(s)
    BY <2>1
  <2> HIDE DEF m
  <2>3. f \in Seq(Char) /\ Len(f) = m /\ \A i \in 1..m : f[i] = s[i]
    BY <2>2
  <2>4. g \in Seq(Char) /\ Len(g) = m /\ \A i \in 1..m : g[i] = s[i + 1]
    BY <1>3, <2>2
  <2> HIDE DEF f, g
  <2>5. w = s
    <3>1. w \in Seq(Char) /\ Len(w) = m + 1 /\ (\A i \in 1..m : w[i] = f[i]) /\ w[m + 1] = z
      BY <2>1, <2>2, <2>3
    <3>2. z = s[m + 1]
      BY <2>2
    <3> HIDE DEF w, z
    <3>3. \A i \in 1..m + 1 : w[i] = s[i]
      BY <2>2, <2>3, <3>1, <3>2
    <3> QED
      BY <2>2, <3>1, <3>3, SeqEqual
  <2>6. v = s
    <3>1. v \in Seq(Char) /\ Len(v) = m + 1 /\ v[1] = Head(s) /\ \A i \in 1..m : v[i + 1] = g[i]
      BY <2>1, <2>2, <2>4
    <3> HIDE DEF v
    <3>2. ASSUME NEW i \in 1..m + 1 PROVE v[i] = s[i]
      <4>1. CASE i = 1
        BY <2>1, <3>1, <4>1
      <4>2. CASE i # 1
        <5> DEFINE k == i - 1
        <5>1. k \in 1..m /\ k + 1 = i
          BY <2>2, <4>2
        <5> HIDE DEF k
        <5>2. v[k + 1] = g[k] /\ g[k] = s[k + 1]
          BY <2>4, <3>1, <5>1
        <5> QED
          BY <5>1, <5>2
      <4> QED
        BY <4>1, <4>2
    <3> QED
      BY <2>2, <3>1, <3>2, SeqEqual
  <2> QED
    BY <2>1, <2>2, <2>3, <2>4, <2>5, <2>6 DEF f, g, m, w, v, z
<1> QED
  BY <1>1, <1>2, <1>3

\* The cursor moved by e and back again by f.
LEMMA ThereAndBack ==
  ASSUME NEW t, NEW e, NEW f, {f, e} = {Left, Right}, Can(t, e)
  PROVE  Changed(Changed(t, e), f) = t
<1> DEFINE s == Changed(t, e)
<1>1. Left.op = "left" /\ Right.op = "right" /\ Left # Right
  BY DEF Left, Right, Entry
<1>2. t \in State /\ t.b \in Seq(Char) /\ t.a \in Seq(Char) /\ t = [b |-> t.b, a |-> t.a, open |-> t.open]
  BY DEF Can, State
<1>3. e.op \in {"left", "right"} => (e.op = "left" => t.b # <<>>) /\ (e.op = "right" => t.a # <<>>)
  BY DEF Can, Left, Right, Entry
<1>4. CASE e = Left /\ f = Right
  <2>1. t.b # <<>>
    BY <1>1, <1>3, <1>4
  <2>2. s = [b |-> SubSeq(t.b, 1, Len(t.b) - 1), a |-> <<t.b[Len(t.b)]>> \o t.a, open |-> t.open]
    BY <1>1, <1>4 DEF Changed
  <2> HIDE DEF s
  <2>3. Changed(s, f) = [b |-> Append(s.b, Head(s.a)), a |-> Tail(s.a), open |-> s.open]
    BY <1>1, <1>4 DEF Changed
  <2>4. s.b = SubSeq(t.b, 1, Len(t.b) - 1) /\ s.a = <<t.b[Len(t.b)]>> \o t.a /\ s.open = t.open
    BY <2>2
  <2>5. t.b[Len(t.b)] \in Char /\ Append(SubSeq(t.b, 1, Len(t.b) - 1), t.b[Len(t.b)]) = t.b
    BY <1>2, <2>1, Ends, Bounds
  <2>6. Head(s.a) = t.b[Len(t.b)] /\ Tail(s.a) = t.a
    BY <1>2, <2>4, <2>5, Ends
  <2>7. Changed(s, f) = [b |-> t.b, a |-> t.a, open |-> t.open]
    BY <2>3, <2>4, <2>5, <2>6
  <2> QED
    BY <1>2, <2>7 DEF s
<1>5. CASE e = Right /\ f = Left
  <2>1. t.a # <<>>
    BY <1>1, <1>3, <1>5
  <2>2. s = [b |-> Append(t.b, Head(t.a)), a |-> Tail(t.a), open |-> t.open]
    BY <1>1, <1>5 DEF Changed
  <2> HIDE DEF s
  <2>3. Changed(s, f) = [b |-> SubSeq(s.b, 1, Len(s.b) - 1), a |-> <<s.b[Len(s.b)]>> \o s.a, open |-> s.open]
    BY <1>1, <1>5 DEF Changed
  <2>4. s.b = Append(t.b, Head(t.a)) /\ s.a = Tail(t.a) /\ s.open = t.open
    BY <2>2
  <2>5. Head(t.a) \in Char /\ <<Head(t.a)>> \o Tail(t.a) = t.a
    BY <1>2, <2>1, Ends, Bounds
  <2>6. Len(s.b) = Len(t.b) + 1 /\ Len(s.b) - 1 = Len(t.b)
    BY <1>2, <2>4, <2>5
  <2>7. SubSeq(s.b, 1, Len(s.b) - 1) = t.b /\ s.b[Len(s.b)] = Head(t.a)
    BY <1>2, <2>4, <2>5, <2>6, Ends
  <2>8. Changed(s, f) = [b |-> t.b, a |-> t.a, open |-> t.open]
    BY <2>3, <2>4, <2>5, <2>7
  <2> QED
    BY <1>2, <2>8 DEF s
<1>6. (e = Left /\ f = Right) \/ (e = Right /\ f = Left)
  BY <1>1
<1> QED
  BY <1>4, <1>5, <1>6

\* No key press is on top of the stack st at s while the marked block follows the cursor.
Closed(st, s) == Depth(st) # 0 /\ IsKey(Top(st)) => ~ s.open

\* The entries on top, as links.
LEMMA TopLinks ==
  ASSUME NEW st, NEW s, NEW sn, Good(st, s, sn), Depth(st) # 0
  PROVE  \E v \in State :
           /\ Link(Top(st), Slots(st)[Below(st)], s, v)
           /\ IsTimes(Top(st)) => Slots(st)[Below(st)] = Base(st) /\ ~ IsKey(Base(st)) /\ ~ IsTimes(Base(st))
           /\ \A z, t : /\ ~ IsKey(Top(st)) /\ ~ IsKey(z) /\ Link(z, Slots(st)[Below(st)], t, v)
                        => Good(Retopped(st, z), t, sn) /\ Top(Retopped(st, z)) = z
<1> DEFINE c == Below(st)
           x == Slots(st)
<1>1. Ring(st, option_max_undo) /\ IsKey(x[1])
  BY DEF Good
<1>2. c \in Nat /\ Depth(st) = c + 1
  BY <1>1, BelowIs
<1>3. (\A k \in 1..Depth(st) : x[k] = Slot(st, k)) /\ x[Depth(st)] = Top(st)
  BY <1>1, SlotsAre
<1>4. PICK S : Trail(Depth(st), x, s, sn, S)
  BY DEF Good
<1>5. Link(Top(st), x[c], s, S[c])
  BY <1>1, <1>4, UntoppedGood
<1>6. S[c] \in State
  BY <1>5 DEF Link
<1>7. \A z, t : ~ IsKey(Top(st)) /\ ~ IsKey(z) /\ Link(z, x[c], t, S[c])
                => Good(Retopped(st, z), t, sn) /\ Top(Retopped(st, z)) = z
  BY <1>1, <1>4, RetoppedGood
<1>8. ASSUME IsTimes(Top(st)) PROVE x[c] = Base(st) /\ ~ IsKey(Base(st)) /\ ~ IsTimes(Base(st))
  <2>1. Depth(st) # 1
    BY <1>1, <1>3, <1>8 DEF IsTimes, IsKey
  <2>2. c \in 1..Depth(st) /\ c = Depth(st) - 1
    BY <1>2, <2>1
  <2>3. x[c] = Slot(st, Depth(st) - 1)
    BY <1>3, <2>2
  <2>4. x[c] = Base(st)
    BY <1>8, <2>3 DEF Base
  <2>5. ~ IsKey(x[c]) /\ ~ IsTimes(x[c])
    BY <1>5, <1>8 DEF Link
  <2> QED
    BY <2>4, <2>5
<1> HIDE DEF c, x
<1> QED
  BY <1>5, <1>6, <1>7, <1>8 DEF c, x

\* A step recorded.
LEMMA PushStep ==
  ASSUME NEW st, NEW s, NEW sn, NEW e, NEW t, Good(st, s, sn), option_max_undo \in Nat, Can(t, e), Changed(t, e) = s,
         ~ IsKey(e), ~ IsTimes(e), Depth(st) # 0 /\ IsKey(Top(st)) /\ s.open => e.op = "mark1"
  PROVE  Leaves(edit_push_action(st, e), t, sn) /\ Closed(edit_push_action(st, e), t)
<1> DEFINE big == Enlarged(st)
           d == Depth(big)
           deep == d >= 3
           top == Top(big)
           x == Slots(big)
           r == edit_push_action(st, e)
           same == Base(big) = e
           cross == {Base(big), e} = {Left, Right}
           Times(n) == Entry("times", n)
<1>1. /\ Good(big, s, sn) /\ d = Depth(st) /\ x = Slots(st)
      /\ stack_size(big) < option_max_undo => big.sp <= stack_size(big) - Slack
  BY EnlargedGood
<1>2. Ring(big, option_max_undo) /\ Ring(st, option_max_undo)
  BY <1>1 DEF Good
<1>3. r = CASE deep /\ same /\ IsKey(e)                 -> big
            [] deep /\ same /\ ~IsKey(e) /\ IsTimes(top)  -> Retopped(big, Times(top.arg + 1))
            [] deep /\ same /\ ~IsKey(e) /\ ~IsTimes(top) -> Pushed(big, Times(2))
            [] deep /\ cross /\ Repeats(top)  -> Retopped(big, Times(top.arg - 1))
            [] deep /\ cross /\ ~Repeats(top) -> Untopped(big)
            [] OTHER -> Pushed(big, e)
  BY <1>2, PushCases
<1>4. d \in Nat /\ x[0] = Nothing /\ (d # 0 => x[d] = top)
  BY <1>2, SlotsAre
<1>5. s \in State /\ t \in State
  BY <1>1, GoodKeys DEF Can
<1>6. \A n : IsTimes(Times(n)) /\ Times(n).arg = n /\ ~ IsKey(Times(n))
  BY DEF IsTimes, IsKey, Entry
<1>7. d # 0 => top = Top(st)
  BY <1>1, <1>2, <1>4, SlotsAre
<1>8. ~ (same /\ cross)
  <2> SUFFICES ASSUME Base(big) = e, {Base(big), e} = {Left, Right} PROVE FALSE
    OBVIOUS
  <2>1. Left \in {Base(big), e} /\ Right \in {Base(big), e}
    OBVIOUS
  <2>2. Left = e /\ Right = e
    BY <2>1
  <2> QED
    BY <2>2 DEF Left, Right, Entry
<1>9. deep => d # 0 /\ d >= 2
  BY <1>4
<1> HIDE DEF big, d, top, x, r, Times, same, cross, deep
<1>10. ASSUME NEW z, Link(z, x[d], t, s), ~ IsKey(z)
      PROVE  Leaves(Pushed(big, z), t, sn) /\ Closed(Pushed(big, z), t)
  <2>1. Later(sn, z, t) = sn
    BY <1>10 DEF Later
  <2>2. /\ Leaves(Pushed(big, z), t, Later(sn, z, t))
        /\ Depth(Pushed(big, z)) # 0 => Top(Pushed(big, z)) = z
    BY <1>1, <1>10, PushedGood DEF d, x
  <2> QED
    BY <1>10, <2>1, <2>2 DEF Closed
<1>11. ASSUME NEW q, Good(q, t, sn), ~ IsKey(Top(q))
      PROVE  Leaves(q, t, sn) /\ Closed(q, t)
  BY <1>11, GoodLeaves DEF Closed
<1>12. CASE deep /\ same /\ IsTimes(top)
  <2>1. r = Retopped(big, Times(top.arg + 1))
    BY <1>3, <1>12, <1>8
  <2>2. Depth(big) # 0 /\ Base(big) = e
    BY <1>12, <1>9 DEF d, same
  <2>3. PICK v \in State :
           /\ Link(top, x[Below(big)], s, v)
           /\ IsTimes(top) => x[Below(big)] = Base(big) /\ ~ IsKey(Base(big)) /\ ~ IsTimes(Base(big))
           /\ \A z, u : ~ IsKey(top) /\ ~ IsKey(z) /\ Link(z, x[Below(big)], u, v)
                        => Good(Retopped(big, z), u, sn) /\ Top(Retopped(big, z)) = z
    BY <1>1, <2>2, TopLinks DEF top, x
  <2> DEFINE z == Times(top.arg + 1)
             f == x[Below(big)]
             m == top.arg - 1
  <2>4. f = e /\ top.arg \in Nat /\ top.arg >= 2 /\ Back(e, m, s, v) /\ ~ IsKey(top)
    BY <1>12, <2>3, <2>2 DEF Link, IsTimes, IsKey
  <2>5. m \in Nat /\ top.arg + 1 \in Nat /\ top.arg + 1 >= 2 /\ (top.arg + 1) - 1 = m + 1
    BY <2>4
  <2> HIDE DEF m, f
  <2>6. Back(e, m + 1, t, v)
    BY <1>5, <2>4, <2>5, BackMore
  <2>7. z.arg = top.arg + 1 /\ IsTimes(z) /\ ~ IsKey(z)
    BY <1>6
  <2> HIDE DEF z
  <2>8. Link(z, f, t, v)
    <3>1. z.arg \in Nat /\ z.arg >= 2 /\ z.arg - 1 = m + 1
      BY <2>5, <2>7
    <3> QED
      BY <1>5, <2>3, <2>4, <2>6, <2>7, <3>1 DEF Link
  <2>9. Good(Retopped(big, z), t, sn) /\ Top(Retopped(big, z)) = z
    BY <2>3, <2>4, <2>7, <2>8 DEF f
  <2>10. r = Retopped(big, z)
    BY <2>1 DEF z
  <2>11. Leaves(Retopped(big, z), t, sn) /\ Closed(Retopped(big, z), t)
    BY <1>11, <2>7, <2>9
  <2> QED
    BY <2>10, <2>11 DEF r
<1>13. CASE deep /\ same /\ ~ IsTimes(top)
  <2> DEFINE z == Times(2)
  <2>1. r = Pushed(big, z)
    BY <1>3, <1>13, <1>8
  <2>2. top = e /\ d # 0
    BY <1>13, <1>9 DEF Base, top, same
  <2>3. Back(e, 1, t, s)
    BY <1>5, BackOne
  <2>4. z.arg = 2 /\ IsTimes(z) /\ ~ IsKey(z)
    BY <1>6
  <2> HIDE DEF z
  <2>5. Link(z, x[d], t, s)
    <3>1. z.arg \in Nat /\ z.arg >= 2 /\ z.arg - 1 = 1
      BY <2>4
    <3>2. x[d] = e
      BY <1>4, <2>2
    <3> QED
      BY <1>5, <2>3, <2>4, <3>1, <3>2 DEF Link
  <2>6. Leaves(Pushed(big, z), t, sn) /\ Closed(Pushed(big, z), t)
    BY <1>10, <2>4, <2>5
  <2> QED
    BY <2>1, <2>6 DEF r
<1>14. CASE deep /\ cross
  <2> DEFINE f == Base(big)
             q == pop_action(big)
  <2>1. r = IF Repeats(top) THEN Retopped(big, Times(top.arg - 1)) ELSE Untopped(big)
    BY <1>3, <1>14, <1>8
  <2>2. d # 0 /\ d >= 2 /\ d >= 1
    BY <1>4, <1>14, <1>9
  <2>3. r = q
    <3>1. q = IF Repeats(top) THEN Retopped(big, Times(top.arg - 1)) ELSE Untopped(big)
      BY <1>2, <2>2, PopCases DEF top, d, Times
    <3> QED
      BY <2>1, <3>1
  <2>4. Changed(s, f) = t
    BY <1>14, ThereAndBack DEF cross
  <2>5. f.op \in {"left", "right"}
    BY <1>14 DEF Left, Right, Entry, cross
  <2>6. /\ Good(q, Changed(s, f), Earlier(sn, f))
        /\ Depth(q) # 0 /\ IsKey(Top(q)) /\ Changed(s, f).open => f.op = "mark1"
    BY <1>1, <2>2, PoppedGood DEF d
  <2> HIDE DEF f, q
  <2>7. ~ IsKey(f) /\ Earlier(sn, f) = sn /\ f.op # "mark1"
    BY <2>5 DEF IsKey, Earlier
  <2>8. Good(q, t, sn) /\ Closed(q, t)
    BY <2>4, <2>7, <2>6 DEF Closed
  <2>9. Leaves(q, t, sn)
    BY <2>8, GoodLeaves
  <2> QED
    BY <2>3, <2>8, <2>9 DEF r
<1>15. CASE ~ (deep /\ (same \/ cross))
  <2>1. r = Pushed(big, e)
    BY <1>3, <1>15
  <2>2. Link(e, x[d], t, s)
    <3>1. ~ IsKey(Nothing)
      BY DEF IsKey, Nothing, Entry
    <3>2. IsKey(x[d]) /\ s.open => e.op = "mark1"
      BY <1>1, <1>4, <1>7, <3>1
    <3> QED
      BY <1>5, <3>2 DEF Link
  <2>3. Leaves(Pushed(big, e), t, sn) /\ Closed(Pushed(big, e), t)
    BY <1>10, <2>2
  <2> QED
    BY <2>1, <2>3 DEF r
<1> QED
  BY <1>12, <1>13, <1>14, <1>15 DEF r

\* A key press recorded.
LEMMA PushKey ==
  ASSUME NEW st, NEW s, NEW sn, NEW e, Good(st, s, sn), option_max_undo \in Nat, Can(s, e), IsKey(e), Closed(st, s)
  PROVE  LET r == edit_push_action(st, e)
         IN /\ Depth(r) # 0
            /\ r.sp = st.sp => Good(r, s, sn) /\ ~ s.open /\ sn # <<>> /\ sn[Len(sn)] = Snap(s)
            /\ r.sp # st.sp => Leaves(r, s, Append(sn, Snap(s)))
<1> DEFINE big == Enlarged(st)
           d == Depth(big)
           deep == d >= 3
           top == Top(big)
           x == Slots(big)
           r == edit_push_action(st, e)
           same == Base(big) = e
           cross == {Base(big), e} = {Left, Right}
           Times(n) == Entry("times", n)
<1>1. /\ Good(big, s, sn) /\ d = Depth(st) /\ x = Slots(st) /\ big.sp = st.sp
      /\ stack_size(big) < option_max_undo => big.sp <= stack_size(big) - Slack
  BY EnlargedGood
<1>2. Ring(big, option_max_undo) /\ Ring(st, option_max_undo)
  BY <1>1 DEF Good
<1>3. r = CASE deep /\ same /\ IsKey(e)                 -> big
            [] deep /\ same /\ ~IsKey(e) /\ IsTimes(top)  -> Retopped(big, Times(top.arg + 1))
            [] deep /\ same /\ ~IsKey(e) /\ ~IsTimes(top) -> Pushed(big, Times(2))
            [] deep /\ cross /\ Repeats(top)  -> Retopped(big, Times(top.arg - 1))
            [] deep /\ cross /\ ~Repeats(top) -> Untopped(big)
            [] OTHER -> Pushed(big, e)
  BY <1>2, PushCases
<1>4. d \in Nat /\ x[0] = Nothing /\ (d # 0 => x[d] = top)
  BY <1>2, SlotsAre
<1>5. s \in State
  BY <1>1, GoodKeys
<1>6. d # 0 => top = Top(st)
  BY <1>1, <1>2, <1>4, SlotsAre
<1>7. e # Left /\ e # Right /\ ~ IsTimes(e) /\ ~ IsKey(Nothing)
  BY DEF IsKey, IsTimes, Left, Right, Nothing, Entry
<1>8. Changed(s, e) = s
  BY DEF IsKey, Changed
<1>9. d # 0 /\ IsKey(top) => ~ s.open
  BY <1>1, <1>6 DEF Closed
<1>10. ~ cross
  BY <1>7
<1>11. deep => d # 0
  BY <1>4
<1> HIDE DEF big, d, top, x, r, Times, same, cross, deep
<1>12. CASE deep /\ same
  <2>1. r = big
    BY <1>3, <1>12, <1>10
  <2>2. d # 0 /\ Depth(big) # 0 /\ Base(big) = e
    BY <1>12, <1>11 DEF d, same
  <2>3. IsTimes(top) => ~ IsKey(Base(big))
    BY <1>1, <2>2, TopLinks DEF top
  <2>4. top = e
    BY <2>3, <2>2 DEF Base, top
  <2>5. IsKey(Base(big)) => sn # <<>> /\ sn[Len(sn)] = Snap(s)
    BY <1>1, <2>2, PoppedGood
  <2>6. ~ s.open
    BY <1>9, <2>4, <2>2
  <2>7. r.sp = st.sp /\ Depth(r) # 0 /\ Good(r, s, sn)
    BY <1>1, <2>1, <2>2
  <2> QED
    BY <2>5, <2>2, <2>6, <2>7 DEF r
<1>13. CASE ~ (deep /\ same)
  <2> DEFINE q == Pushed(big, e)
  <2>1. r = q
    BY <1>3, <1>13, <1>10
  <2>2. Link(e, x[d], s, s)
    BY <1>4, <1>5, <1>7, <1>8, <1>9 DEF Link
  <2>3. Later(sn, e, s) = Append(sn, Snap(s))
    BY DEF Later
  <2>4. Leaves(q, s, Later(sn, e, s)) /\ Depth(q) # 0 /\ q.sp # big.sp
    BY <1>1, <2>2, PushedGood DEF d, x
  <2> HIDE DEF q
  <2>5. Leaves(r, s, Append(sn, Snap(s))) /\ Depth(r) # 0 /\ r.sp # st.sp
    BY <1>1, <2>1, <2>3, <2>4
  <2> QED
    BY <2>5 DEF r
<1> QED
  BY <1>12, <1>13

-----------------------------------------------------------------------------
(* Counting lines *)

\* A count is a number; none in nothing.
LEMMA LinesType ==
  ASSUME NEW s, NEW k, NEW n, k \in Int, n \in Int
  PROVE  edit_count_lines(s, k, n) \in Nat /\ (n <= k => edit_count_lines(s, k, n) = 0)
<1> DEFINE A == {i \in k + 1..n : i <= Len(s) /\ s[i] = NewLine}
<1>1. IsFiniteSet(k + 1..n)
  BY FS_Interval
<1>2. A \subseteq k + 1..n
  OBVIOUS
<1>3. n <= k => A = {}
  OBVIOUS
<1> HIDE DEF A
<1>4. Cardinality(A) \in Nat
  BY <1>1, <1>2, FS_Subset, FS_CardinalityType
<1>5. n <= k => Cardinality(A) = 0
  BY <1>3, FS_EmptySet
<1> QED
  BY <1>4, <1>5 DEF edit_count_lines, A

\* First the lines up to m, then the others.
LEMMA LinesAdd ==
  ASSUME NEW s, NEW k, NEW m, NEW n, k \in Int, m \in Int, n \in Int, k <= m, m <= n
  PROVE  edit_count_lines(s, k, n) = edit_count_lines(s, k, m) + edit_count_lines(s, m, n)
<1> DEFINE A == {i \in k + 1..m : i <= Len(s) /\ s[i] = NewLine}
           B == {i \in m + 1..n : i <= Len(s) /\ s[i] = NewLine}
           C == {i \in k + 1..n : i <= Len(s) /\ s[i] = NewLine}
<1>1. IsFiniteSet(k + 1..m) /\ IsFiniteSet(m + 1..n)
  BY FS_Interval
<1>2. A \subseteq k + 1..m /\ B \subseteq m + 1..n
  OBVIOUS
<1>3. C = A \cup B /\ A \cap B = {}
  OBVIOUS
<1> HIDE DEF A, B, C
<1>4. IsFiniteSet(A) /\ IsFiniteSet(B)
  BY <1>1, <1>2, FS_Subset
<1>5. Cardinality(C) = Cardinality(A) + Cardinality(B) - Cardinality({})
  BY <1>3, <1>4, FS_Union
<1>6. Cardinality(C) = Cardinality(A) + Cardinality(B)
  <2>1. Cardinality({}) = 0 /\ Cardinality(A) \in Nat /\ Cardinality(B) \in Nat
    BY <1>4, FS_EmptySet, FS_CardinalityType
  <2> QED
    BY <1>5, <2>1
<1> QED
  BY <1>6 DEF edit_count_lines, A, B, C

\* The characters of s from k to n are those of t, d places further on.
Further(k, d) == k + d
Shifted(s, t, k, n, d) ==
  /\ k \in Nat /\ n \in Nat /\ d \in Nat /\ Len(s) \in Nat /\ Len(t) \in Nat
  /\ n <= Len(s) /\ n + d <= Len(t) /\ \A i \in k + 1..n : t[i + d] = s[i]

\* Then so are the lines.
LEMMA LinesShift ==
  ASSUME NEW s, NEW t, NEW k, NEW n, NEW d, Shifted(s, t, k, n, d)
  PROVE  edit_count_lines(t, Further(k, d), Further(n, d)) = edit_count_lines(s, k, n)
<1> DEFINE A == {i \in k + 1..n : i <= Len(s) /\ s[i] = NewLine}
           B == {i \in (k + d) + 1..n + d : i <= Len(t) /\ t[i] = NewLine}
           f == [i \in A |-> i + d]
<1>1. /\ k \in Nat /\ n \in Nat /\ d \in Nat /\ Len(s) \in Nat /\ Len(t) \in Nat
      /\ n <= Len(s) /\ n + d <= Len(t) /\ \A i \in k + 1..n : t[i + d] = s[i]
  BY DEF Shifted
<1>2. IsFiniteSet(k + 1..n) /\ A \subseteq k + 1..n
  <2>1. IsFiniteSet(k + 1..n)
    BY <1>1, FS_Interval
  <2> QED
    BY <2>1
<1>3. IsFiniteSet(A)
  <2> HIDE DEF A
  <2> QED
    BY <1>2, FS_Subset
<1>4. ASSUME NEW i \in A PROVE i \in Int /\ f[i] = i + d /\ f[i] \in B
  <2>1. i \in k + 1..n /\ s[i] = NewLine
    OBVIOUS
  <2>2. t[i + d] = NewLine /\ i + d \in (k + d) + 1..n + d /\ i + d <= Len(t)
    BY <1>1, <2>1
  <2> QED
    BY <1>1, <2>1, <2>2
<1>5. ASSUME NEW b \in B PROVE b - d \in A /\ f[b - d] = b
  <2> DEFINE i == b - d
  <2>1. b \in (k + d) + 1..n + d /\ t[b] = NewLine
    OBVIOUS
  <2>2. i \in k + 1..n /\ i + d = b /\ i <= Len(s)
    BY <1>1, <2>1
  <2> HIDE DEF i
  <2>3. s[i] = NewLine
    BY <1>1, <2>1, <2>2
  <2>4. i \in A
    BY <2>2, <2>3
  <2>5. f[i] = b
    BY <2>2, <2>4
  <2> QED
    BY <2>4, <2>5 DEF i
<1> HIDE DEF A, B, f
<1>6. f \in Bijection(A, B)
  <2>1. f \in [A -> B]
    BY <1>4 DEF f
  <2>2. \A i1, i2 \in A : f[i1] = f[i2] => i1 = i2
    BY <1>1, <1>4
  <2>3. \A b \in B : \E i \in A : f[i] = b
    BY <1>5
  <2> QED
    BY <2>1, <2>2, <2>3, Fun_IsBij
<1>7. Cardinality(A) = Cardinality(B)
  BY <1>3, <1>6, FS_Bijection DEF ExistsBijection
<1> QED
  BY <1>7 DEF edit_count_lines, A, B, Further

\* The same characters in the same places.
LEMMA LinesSame ==
  ASSUME NEW s, NEW t, NEW k, NEW n, k \in Nat, n \in Nat,
         n <= Len(s), n <= Len(t), Len(s) \in Nat, Len(t) \in Nat, \A i \in k + 1..n : t[i] = s[i]
  PROVE  edit_count_lines(t, k, n) = edit_count_lines(s, k, n)
<1>1. Shifted(s, t, k, n, 0)
  BY DEF Shifted
<1>2. Further(k, 0) = k /\ Further(n, 0) = n
  BY DEF Further
<1> QED
  BY <1>1, <1>2, LinesShift

\* One character.
LEMMA LinesOne ==
  ASSUME NEW s, NEW k, k \in Nat, k + 1 <= Len(s), Len(s) \in Nat
  PROVE  edit_count_lines(s, k, k + 1) = IsEnd(s[k + 1]) /\ IsEnd(s[k + 1]) \in 0..1
<1> DEFINE A == {i \in k + 1..k + 1 : i <= Len(s) /\ s[i] = NewLine}
<1>1. CASE s[k + 1] = NewLine
  <2>1. A = {k + 1}
    BY <1>1
  <2> HIDE DEF A
  <2>2. Cardinality(A) = 1
    BY <2>1, FS_Singleton
  <2> QED
    BY <1>1, <2>2 DEF edit_count_lines, A, IsEnd, One
<1>2. CASE s[k + 1] # NewLine
  <2>1. A = {}
    BY <1>2
  <2> HIDE DEF A
  <2>2. Cardinality(A) = 0
    BY <2>1, FS_EmptySet
  <2> QED
    BY <1>2, <2>2 DEF edit_count_lines, A, IsEnd, One
<1> QED
  BY <1>1, <1>2

\* t has one character c more than s, after the first p.
Longer(s, t, p, c) ==
  /\ s \in Seq(Char) /\ t \in Seq(Char) /\ p \in 0..Len(s) /\ Len(t) = Len(s) + 1
  /\ (\A i \in 1..p : t[i] = s[i]) /\ t[p + 1] = c /\ \A i \in p + 1..Len(s) : t[i + 1] = s[i]

\* The lines of either.
LEMMA LinesLonger ==
  ASSUME NEW s, NEW t, NEW p, NEW c, Longer(s, t, p, c)
  PROVE  /\ \A k \in 0..p : edit_count_lines(t, 0, k) = edit_count_lines(s, 0, k)
         /\ \A k \in p..Len(s) : edit_count_lines(t, 0, k + 1) = edit_count_lines(s, 0, k) + IsEnd(c)
<1> DEFINE n == Len(s)
<1>1. /\ s \in Seq(Char) /\ t \in Seq(Char) /\ p \in 0..Len(s) /\ Len(t) = Len(s) + 1
      /\ (\A i \in 1..p : t[i] = s[i]) /\ t[p + 1] = c /\ \A i \in p + 1..Len(s) : t[i + 1] = s[i]
  BY DEF Longer
<1>2. n \in Nat /\ p \in Nat /\ p <= n /\ Len(t) \in Nat /\ Len(t) = n + 1
  BY <1>1
<1>3. ASSUME NEW k \in 0..p PROVE edit_count_lines(t, 0, k) = edit_count_lines(s, 0, k)
  <2>1. k \in Nat /\ k <= n /\ k <= Len(t) /\ 0 \in Nat
    BY <1>2
  <2>2. \A i \in 0 + 1..k : t[i] = s[i]
    BY <1>1, <1>2
  <2> QED
    BY <1>2, <2>1, <2>2, LinesSame
<1>4. edit_count_lines(t, p, p + 1) = IsEnd(c) /\ IsEnd(c) \in 0..1
  <2>1. p + 1 <= Len(t) /\ t[p + 1] = c
    BY <1>1, <1>2
  <2> QED
    BY <1>2, <2>1, LinesOne
<1>5. ASSUME NEW k \in p..n PROVE edit_count_lines(t, 0, k + 1) = edit_count_lines(s, 0, k) + IsEnd(c)
  <2>1. k \in Nat /\ k + 1 \in Nat /\ 1 \in Nat /\ k + 1 <= Len(t)
    BY <1>2
  <2>2. edit_count_lines(t, p + 1, k + 1) = edit_count_lines(s, p, k)
    <3>1. Shifted(s, t, p, k, 1)
      BY <1>1, <1>2, <2>1 DEF Shifted
    <3>2. Further(p, 1) = p + 1 /\ Further(k, 1) = k + 1
      BY DEF Further
    <3> QED
      BY <3>1, <3>2, LinesShift
  <2>3. edit_count_lines(t, 0, k + 1) = edit_count_lines(t, 0, p + 1) + edit_count_lines(t, p + 1, k + 1)
    BY <1>2, <2>1, LinesAdd
  <2>4. edit_count_lines(t, 0, p + 1) = edit_count_lines(t, 0, p) + edit_count_lines(t, p, p + 1)
    BY <1>2, LinesAdd
  <2>5. edit_count_lines(s, 0, k) = edit_count_lines(s, 0, p) + edit_count_lines(s, p, k)
    BY <1>2, <2>1, LinesAdd
  <2>6. edit_count_lines(t, 0, p) = edit_count_lines(s, 0, p)
    BY <1>2, <1>3
  <2>7. edit_count_lines(s, 0, p) \in Nat /\ edit_count_lines(s, p, k) \in Nat
    BY <1>2, <2>1, LinesType
  <2> QED
    BY <1>4, <2>2, <2>3, <2>4, <2>5, <2>6, <2>7
<1> QED
  BY <1>3, <1>5

-----------------------------------------------------------------------------
(* Blocks *)

\* Whole blocks keep their order and do not overlap.
LEMMA Multiples ==
  ASSUME NEW a, NEW b, NEW m, a \in Int, b \in Int, m \in Nat \ {0}
  PROVE  a < b <=> a * m + m <= b * m
<1>1. ASSUME NEW x \in Int, NEW y \in Int, x < y PROVE x * m + m <= y * m
  <2> DEFINE d == y - x - 1
  <2>1. d \in Nat /\ y = x + 1 + d
    BY <1>1
  <2> HIDE DEF d
  <2>2. d * m \in Nat
    BY <2>1
  <2>3. y * m = x * m + m + d * m /\ x * m \in Int
    BY <2>1
  <2> QED
    BY <2>2, <2>3
<1>2. ASSUME ~ (a < b) PROVE ~ (a * m + m <= b * m)
  <2>1. a = b \/ b < a
    BY <1>2
  <2>2. a * m \in Int /\ b * m \in Int
    OBVIOUS
  <2>3. CASE b < a
    <3>1. b * m + m <= a * m
      BY <1>1, <2>3
    <3> QED
      BY <2>2, <3>1
  <2>4. CASE a = b
    BY <2>2, <2>4
  <2> QED
    BY <2>1, <2>3, <2>4
<1> QED
  BY <1>1, <1>2

\* The blocks that begin before n, and those up to the block of n.
Under(n) == {b \in 0..MaxBuff : b * BufSize < n}
Upto(n) == 0..n \div BufSize

\* Where the blocks begin.
LEMMA BlockEdge ==
  ASSUME NEW n, n \in Nat
  PROVE  /\ n \div BufSize \in Nat
         /\ (n + 1) \div BufSize = IF (n + 1) % BufSize = 0 THEN n \div BufSize + 1 ELSE n \div BufSize
         /\ n % BufSize = 0 => (n + 1) \div BufSize = n \div BufSize
         /\ n <= SizeLimit => n \div BufSize <= MaxBuff
         /\ \A b \in Nat : b * BufSize < n + 1 <=> b * BufSize < n \/ (n % BufSize = 0 /\ b = n \div BufSize)
         /\ \A b \in Nat : n % BufSize = 0 /\ b = n \div BufSize => ~ (b * BufSize < n)
<1> DEFINE m == BufSize
           q == n \div m
           r == n % m
           q2 == (n + 1) \div m
           r2 == (n + 1) % m
<1>1. m \in Nat \ {0} /\ m >= 2 /\ MaxBuff \in Nat
  BY Bounds
<1>2. q \in Int /\ r \in 0..m - 1 /\ n = q * m + r
  BY <1>1, Division
<1>3. q2 \in Int /\ r2 \in 0..m - 1 /\ n + 1 = q2 * m + r2
  BY <1>1, Division
<1>4. SizeLimit = m * (MaxBuff - 2)
  BY DEF SizeLimit
<1> HIDE DEF m, q, r, q2, r2
<1>5. q * m \in Int /\ q2 * m \in Int
  BY <1>1, <1>2, <1>3
<1>6. q \in Nat
  <2>1. ~ (q < 0)
    <3> SUFFICES ASSUME q < 0 PROVE FALSE
      OBVIOUS
    <3>1. q * m + m <= 0 * m
      BY <1>1, <1>2, Multiples
    <3>2. 0 * m = 0
      BY <1>1
    <3> QED
      BY <1>1, <1>2, <1>5, <3>1, <3>2
  <2> QED
    BY <1>2, <2>1
<1>7. q2 = IF r2 = 0 THEN q + 1 ELSE q
  <2>1. CASE r + 1 < m
    <3>1. n + 1 = q * m + (r + 1) /\ r + 1 \in 0..m - 1
      BY <1>1, <1>2, <1>5, <2>1
    <3>2. (q * m + (r + 1)) \div m = q /\ (q * m + (r + 1)) % m = r + 1
      BY <1>1, <1>2, <3>1, Remainder
    <3>3. q2 = q /\ r2 = r + 1
      BY <3>1, <3>2 DEF q2, r2
    <3> QED
      BY <1>1, <1>2, <3>3
  <2>2. CASE ~ (r + 1 < m)
    <3>1. (q + 1) * m = q * m + m
      BY <1>1, <1>2
    <3>2. n + 1 = (q + 1) * m + 0 /\ q + 1 \in Int /\ 0 \in 0..m - 1
      BY <1>1, <1>2, <1>5, <2>2, <3>1
    <3>3. ((q + 1) * m + 0) \div m = q + 1 /\ ((q + 1) * m + 0) % m = 0
      BY <1>1, <3>2, Remainder
    <3>4. q2 = q + 1 /\ r2 = 0
      BY <3>2, <3>3 DEF q2, r2
    <3> QED
      BY <3>4
  <2> QED
    BY <2>1, <2>2
<1>8. ASSUME r = 0 PROVE q2 = q
  <2>1. n + 1 = q * m + 1 /\ 1 \in 0..m - 1
    BY <1>1, <1>2, <1>5, <1>8
  <2>2. (q * m + 1) \div m = q
    BY <1>1, <1>2, <2>1, Remainder
  <2> QED
    BY <2>1, <2>2 DEF q2
<1>9. ASSUME n <= SizeLimit PROVE q <= MaxBuff
  <2> DEFINE k == MaxBuff - 2
  <2>1. k \in Int /\ m * k = k * m /\ k * m \in Int
    BY <1>1
  <2>2. ~ (k < q)
    <3> SUFFICES ASSUME k < q PROVE FALSE
      OBVIOUS
    <3> HIDE DEF k
    <3>1. k * m + m <= q * m
      BY <1>1, <1>2, <2>1, Multiples
    <3>2. n <= k * m
      BY <1>4, <1>9, <2>1 DEF k
    <3> QED
      BY <1>1, <1>2, <1>5, <2>1, <3>1, <3>2
  <2> QED
    BY <1>1, <1>6, <2>2
<1>10. ASSUME NEW b \in Nat PROVE b * m < n + 1 <=> b * m < n \/ (r = 0 /\ b = q)
  <2>1. b * m \in Int
    BY <1>1
  <2>2. b * m = n => r = 0 /\ b = q
    <3> SUFFICES ASSUME b * m = n PROVE r = 0 /\ b = q
      OBVIOUS
    <3>1. n = b * m + 0 /\ b \in Int /\ 0 \in 0..m - 1
      BY <1>1, <2>1
    <3>2. (b * m + 0) \div m = b /\ (b * m + 0) % m = 0
      BY <1>1, <3>1, Remainder
    <3> QED
      BY <3>1, <3>2 DEF q, r
  <2>3. r = 0 /\ b = q => b * m = n
    BY <1>2, <1>5
  <2> QED
    BY <2>1, <2>2, <2>3
<1>11. ASSUME NEW b \in Nat, r = 0, b = q PROVE ~ (b * m < n)
  BY <1>2, <1>5, <1>11
<1> QED
  BY <1>6, <1>7, <1>8, <1>9, <1>10, <1>11 DEF m, q, r, q2, r2

\* One more character, or one less, and the blocks.
LEMMA BlocksMore ==
  ASSUME NEW n, n \in Nat, n <= SizeLimit
  PROVE  /\ (IF n % BufSize = 0 THEN Under(n) \cup {n \div BufSize} ELSE Under(n)) = Under(n + 1)
         /\ (IF n % BufSize = 0 THEN Under(n + 1) \ {(n + 1) \div BufSize} ELSE Under(n + 1)) = Under(n)
         /\ (IF (n + 1) % BufSize = 0 THEN Upto(n) \cup {(n + 1) \div BufSize} ELSE Upto(n)) = Upto(n + 1)
         /\ (IF (n + 1) % BufSize = 0 THEN Upto(n + 1) \ {(n + 1) \div BufSize} ELSE Upto(n + 1)) = Upto(n)
<1> DEFINE q == n \div BufSize
           edge == n % BufSize = 0
           q2 == (n + 1) \div BufSize
           edge2 == (n + 1) % BufSize = 0
           Starts(b, i) == b * BufSize < i
<1>1. /\ q \in Nat /\ (q2 = IF edge2 THEN q + 1 ELSE q) /\ (edge => q2 = q) /\ q <= MaxBuff
      /\ \A b \in Nat : Starts(b, n + 1) <=> Starts(b, n) \/ (edge /\ b = q)
      /\ \A b \in Nat : edge /\ b = q => ~ Starts(b, n)
  BY BlockEdge
<1>2. MaxBuff \in Nat
  BY Bounds
<1>3. /\ Under(n) = {b \in 0..MaxBuff : Starts(b, n)} /\ Under(n + 1) = {b \in 0..MaxBuff : Starts(b, n + 1)}
      /\ Upto(n) = 0..q /\ Upto(n + 1) = 0..q2
  BY DEF Under, Upto
<1> DEFINE u == Under(n)
           u2 == Under(n + 1)
           v == Upto(n)
           v2 == Upto(n + 1)
           On(b) == Starts(b, n)
           On2(b) == Starts(b, n + 1)
<1>4. /\ \A b \in Nat : On2(b) <=> On(b) \/ (edge /\ b = q)
      /\ \A b \in Nat : edge /\ b = q => ~ On(b)
  BY <1>1
<1>5. u = {b \in 0..MaxBuff : On(b)} /\ u2 = {b \in 0..MaxBuff : On2(b)} /\ v = 0..q /\ v2 = 0..q2
  BY <1>3
<1> HIDE DEF q, edge, q2, edge2, Starts, u, u2, v, v2, On, On2
<1>6. (IF edge THEN u \cup {q} ELSE u) = u2
  <2>1. \A b : b \in (IF edge THEN u \cup {q} ELSE u) <=> b \in u2
    BY <1>1, <1>2, <1>4, <1>5
  <2> QED
    BY <2>1
<1>7. (IF edge THEN u2 \ {q2} ELSE u2) = u
  <2>1. \A b : b \in (IF edge THEN u2 \ {q2} ELSE u2) <=> b \in u
    BY <1>1, <1>2, <1>4, <1>5
  <2> QED
    BY <2>1
<1>8. (IF edge2 THEN v \cup {q2} ELSE v) = v2
  <2>1. CASE edge2
    BY <1>1, <1>5, <2>1
  <2>2. CASE ~ edge2
    BY <1>1, <1>5, <2>2
  <2> QED
    BY <2>1, <2>2
<1>9. (IF edge2 THEN v2 \ {q2} ELSE v2) = v
  <2>1. CASE edge2
    BY <1>1, <1>5, <2>1
  <2>2. CASE ~ edge2
    BY <1>1, <1>5, <2>2
  <2> QED
    BY <2>1, <2>2
<1> QED
  BY <1>6, <1>7, <1>8, <1>9 DEF q, edge, q2, edge2, u, u2, v, v2

-----------------------------------------------------------------------------
(* One character more, one less, and the cursor past one *)

\* The lines before place k of s.
Lines(s, k) == edit_count_lines(s, 0, k)

\* The counters of LinesCounted, for the text s and the cursor at p.
Counted(s, p, bytes, line, total, top, first) ==
  /\ bytes = Len(s) /\ p <= SizeLimit /\ total = Lines(s, bytes) /\ line = Lines(s, p)
  /\ top <= bytes /\ first = Lines(s, top)

\* The text with c at the cursor, on either side of it, and the text without.
LEMMA OneMore ==
  ASSUME NEW b, NEW a, NEW c, b \in Seq(Char), a \in Seq(Char), c \in Char
  PROVE  LET s == b \o a
             t == Append(b, c) \o a
         IN /\ t = b \o (<<c>> \o a)
            /\ s \in Seq(Char) /\ t \in Seq(Char) /\ Len(s) = Len(b) + Len(a) /\ Len(t) = Len(s) + 1
            /\ \A i \in 1..Len(b) : s[i] = b[i] /\ t[i] = b[i]
            /\ t[Len(b) + 1] = c
            /\ \A i \in 1..Len(a) : s[i + Len(b)] = a[i] /\ t[i + Len(b) + 1] = a[i]
<1> DEFINE s == b \o a
           b2 == Append(b, c)
           t == b2 \o a
           a2 == <<c>> \o a
           u == b \o a2
           p == Len(b)
           n == Len(a)
<1>1. p \in Nat /\ n \in Nat
  OBVIOUS
<1>2. s \in Seq(Char) /\ Len(s) = p + n /\ (\A i \in 1..p : s[i] = b[i]) /\ \A i \in 1..n : s[i + p] = a[i]
  OBVIOUS
<1>3. b2 \in Seq(Char) /\ Len(b2) = p + 1 /\ (\A i \in 1..p : b2[i] = b[i]) /\ b2[p + 1] = c
  OBVIOUS
<1>4. a2 \in Seq(Char) /\ Len(a2) = n + 1 /\ a2[1] = c /\ \A i \in 1..n : a2[i + 1] = a[i]
  OBVIOUS
<1> HIDE DEF b2, a2
<1>5. /\ t \in Seq(Char) /\ Len(t) = (p + 1) + n /\ (\A i \in 1..p + 1 : t[i] = b2[i])
      /\ \A i \in 1..n : t[i + (p + 1)] = a[i]
  BY <1>1, <1>3
<1>6. /\ u \in Seq(Char) /\ Len(u) = p + (n + 1) /\ (\A i \in 1..p : u[i] = b[i])
      /\ \A i \in 1..n + 1 : u[i + p] = a2[i]
  BY <1>1, <1>4
<1> HIDE DEF s, t, u
<1>7. (\A i \in 1..p : t[i] = b[i]) /\ t[p + 1] = c
  BY <1>1, <1>3, <1>5
<1>8. \A i \in 1..n : i + (p + 1) = i + p + 1
  BY <1>1
<1>9. \A i \in 1..n : t[i + p + 1] = a[i]
  BY <1>5, <1>8
<1>10. t = u
  <2>1. ASSUME NEW i \in 1..p + n + 1 PROVE t[i] = u[i]
    <3>1. CASE i <= p
      BY <1>1, <1>6, <1>7, <3>1
    <3>2. CASE i > p
      <4> DEFINE k == i - p
      <4>1. k \in 1..n + 1 /\ k + p = i
        BY <1>1, <3>2
      <4> HIDE DEF k
      <4>2. u[i] = a2[k]
        BY <1>6, <4>1
      <4>3. CASE k = 1
        BY <1>1, <1>4, <1>7, <4>1, <4>2, <4>3
      <4>4. CASE k # 1
        <5> DEFINE j == k - 1
        <5>1. j \in 1..n /\ j + 1 = k /\ j + p + 1 = i
          BY <1>1, <4>1, <4>4
        <5> HIDE DEF j
        <5>2. a2[k] = a[j]
          BY <1>4, <5>1
        <5>3. t[i] = a[j]
          BY <1>9, <5>1
        <5> QED
          BY <4>2, <5>2, <5>3
      <4> QED
        BY <4>3, <4>4
    <3> QED
      BY <1>1, <3>1, <3>2
  <2>2. Len(t) = p + n + 1 /\ Len(u) = p + n + 1
    BY <1>1, <1>5, <1>6
  <2> QED
    BY <1>5, <1>6, <2>1, <2>2, SeqEqual
<1>11. Len(t) = Len(s) + 1
  BY <1>1, <1>2, <1>5
<1> QED
  BY <1>2, <1>5, <1>7, <1>9, <1>10, <1>11 DEF s, t, u, a2, b2

\* The counters follow.
LEMMA CountedMore ==
  ASSUME NEW b, NEW a, NEW c, NEW bytes, NEW line, NEW total, NEW top, NEW first,
         b \in Seq(Char), a \in Seq(Char), c \in Char, top \in Nat
  PROVE  LET s == b \o a
             t == Append(b, c) \o a
             p == Len(b)
             e == IsEnd(c)
             k == One(p < top)
             f == IF p < top THEN e ELSE 0
         IN /\ Counted(s, p, bytes, line, total, top, first) /\ bytes < SizeLimit =>
                 /\ Counted(t, p + 1, bytes + 1, line + e, total + e, top + k, first + f)
                 /\ Counted(t, p, bytes + 1, line, total + e, top + k, first + f)
            /\ Counted(t, p, bytes, line, total, top, first) =>
                 /\ Counted(s, p, bytes - 1, line, total - e, top - k, first - f)
                 /\ bytes <= SizeLimit => Counted(t, p + 1, bytes, line + e, total, top, first)
            /\ Counted(t, p + 1, bytes, line, total, top, first) =>
                 /\ Counted(s, p, bytes - 1, line - e, total - e, top - k, first - f)
                 /\ Counted(t, p, bytes, line - e, total, top, first)
<1> DEFINE s == b \o a
           t == Append(b, c) \o a
           p == Len(b)
           n == Len(s)
           e == IsEnd(c)
           k == One(p < top)
           f == IF p < top THEN e ELSE 0
<1>1. /\ s \in Seq(Char) /\ t \in Seq(Char) /\ n = p + Len(a) /\ Len(t) = n + 1
      /\ (\A i \in 1..p : s[i] = b[i] /\ t[i] = b[i]) /\ t[p + 1] = c
      /\ \A i \in 1..Len(a) : s[i + p] = a[i] /\ t[i + p + 1] = a[i]
  BY OneMore
<1>2. p \in Nat /\ Len(a) \in Nat /\ n \in Nat /\ p <= n
  BY <1>1
<1>3. SizeLimit \in Int
  BY Bounds DEF SizeLimit
<1> HIDE DEF s, t, p, n
<1>4. \A i \in p + 1..n : t[i + 1] = s[i]
  <2> TAKE i \in p + 1..n
  <2> DEFINE j == i - p
  <2>1. j \in 1..Len(a) /\ j + p = i /\ j + p + 1 = i + 1
    BY <1>1, <1>2
  <2> HIDE DEF j
  <2>2. s[j + p] = a[j] /\ t[j + p + 1] = a[j]
    BY <1>1, <2>1
  <2> QED
    BY <2>1, <2>2
<1>5. /\ \A i \in 0..p : Lines(t, i) = Lines(s, i)
      /\ \A i \in p..n : Lines(t, i + 1) = Lines(s, i) + e
  <2>1. Longer(s, t, p, c)
    BY <1>1, <1>2, <1>4 DEF Longer, n
  <2>2. /\ \A i \in 0..p : edit_count_lines(t, 0, i) = edit_count_lines(s, 0, i)
        /\ \A i \in p..Len(s) : edit_count_lines(t, 0, i + 1) = edit_count_lines(s, 0, i) + IsEnd(c)
    BY <2>1, LinesLonger
  <2> QED
    BY <2>2 DEF Lines, n
<1>6. \A i \in Int : Lines(s, i) \in Nat /\ Lines(t, i) \in Nat
  BY LinesType DEF Lines
<1>7. e \in 0..1
  BY DEF IsEnd, One
<1>8. k \in 0..1 /\ (p < top => k = 1 /\ f = e) /\ (~ (p < top) => k = 0 /\ f = 0)
  BY DEF One
<1>9. n = Len(s) /\ Len(t) = n + 1
  BY <1>1 DEF n
<1> HIDE DEF e, k, f
<1>10. \A i : i \in p + 1..n + 1 => Lines(t, i) = Lines(s, i - 1) + e
  <2> TAKE i
  <2> SUFFICES ASSUME i \in p + 1..n + 1 PROVE Lines(t, i) = Lines(s, i - 1) + e
    OBVIOUS
  <2> DEFINE j == i - 1
  <2>1. j \in p..n /\ j + 1 = i
    BY <1>2
  <2> HIDE DEF j
  <2>2. Lines(t, j + 1) = Lines(s, j) + e
    BY <1>5, <2>1
  <2> QED
    BY <2>1, <2>2 DEF j
<1>11. /\ Lines(t, n + 1) = Lines(s, n) + e /\ Lines(t, p + 1) = Lines(s, p) + e /\ Lines(t, p) = Lines(s, p)
       /\ Lines(s, n) \in Nat /\ Lines(s, p) \in Nat
  <2>1. n \in p..n /\ p \in p..n /\ p \in 0..p /\ n \in Int /\ p \in Int
    BY <1>2
  <2> QED
    BY <1>5, <1>6, <2>1
<1>12. top <= n => Lines(t, top + k) = Lines(s, top) + f /\ Lines(s, top) \in Nat
  <2> SUFFICES ASSUME top <= n PROVE Lines(t, top + k) = Lines(s, top) + f
    BY <1>6
  <2>1. CASE p < top
    <3>1. top \in p..n
      BY <1>2, <2>1
    <3> QED
      BY <1>5, <1>8, <2>1, <3>1
  <2>2. CASE ~ (p < top)
    <3>1. top \in 0..p /\ k = 0 /\ f = 0 /\ top + 0 = top
      BY <1>2, <1>8, <2>2
    <3>2. Lines(t, top) = Lines(s, top) /\ Lines(s, top) \in Nat
      BY <1>5, <1>6, <3>1
    <3> QED
      BY <3>1, <3>2
  <2> QED
    BY <2>1, <2>2
<1>13. top <= n + 1 => Lines(s, top - k) = Lines(t, top) - f /\ top - k <= n
  <2> SUFFICES ASSUME top <= n + 1 PROVE Lines(s, top - k) = Lines(t, top) - f /\ top - k <= n
    OBVIOUS
  <2>1. CASE p < top
    <3>1. top \in p + 1..n + 1 /\ k = 1 /\ f = e /\ top - 1 \in Int
      BY <1>2, <1>8, <2>1
    <3>2. Lines(t, top) = Lines(s, top - 1) + e /\ Lines(s, top - 1) \in Nat
      BY <1>6, <1>10, <3>1
    <3> QED
      BY <1>2, <1>7, <3>1, <3>2
  <2>2. CASE ~ (p < top)
    <3>1. top \in 0..p /\ k = 0 /\ f = 0 /\ top - 0 = top
      BY <1>2, <1>8, <2>2
    <3>2. Lines(t, top) = Lines(s, top) /\ Lines(s, top) \in Nat
      BY <1>5, <1>6, <3>1
    <3> QED
      BY <1>2, <3>1, <3>2
  <2> QED
    BY <2>1, <2>2
<1>14. ASSUME Counted(s, p, bytes, line, total, top, first), bytes < SizeLimit
       PROVE  /\ Counted(t, p + 1, bytes + 1, line + e, total + e, top + k, first + f)
              /\ Counted(t, p, bytes + 1, line, total + e, top + k, first + f)
  <2>1. bytes = n /\ total = Lines(s, n) /\ line = Lines(s, p) /\ top <= n /\ first = Lines(s, top)
    BY <1>9, <1>14 DEF Counted
  <2>2. bytes + 1 = Len(t) /\ p + 1 <= SizeLimit /\ p <= SizeLimit /\ top + k <= bytes + 1
    BY <1>2, <1>3, <1>8, <1>9, <1>14, <2>1
  <2>3. total + e = Lines(t, bytes + 1) /\ line + e = Lines(t, p + 1) /\ line = Lines(t, p) /\ first + f = Lines(t, top + k)
    BY <1>11, <1>12, <2>1
  <2> QED
    BY <2>2, <2>3 DEF Counted
<1>15. ASSUME Counted(t, p, bytes, line, total, top, first)
       PROVE  /\ Counted(s, p, bytes - 1, line, total - e, top - k, first - f)
              /\ bytes <= SizeLimit => Counted(t, p + 1, bytes, line + e, total, top, first)
  <2>1. bytes = n + 1 /\ p <= SizeLimit /\ total = Lines(t, n + 1) /\ line = Lines(t, p) /\ top <= n + 1 /\ first = Lines(t, top)
    BY <1>9, <1>15 DEF Counted
  <2>2. bytes - 1 = n /\ p + 1 <= bytes
    BY <1>2, <2>1
  <2>3. total - e = Lines(s, n) /\ line = Lines(s, p) /\ line + e = Lines(t, p + 1) /\ first - f = Lines(s, top - k)
        /\ top - k <= n
    BY <1>7, <1>11, <1>13, <2>1
  <2>4. Counted(s, p, bytes - 1, line, total - e, top - k, first - f)
    BY <1>9, <2>1, <2>2, <2>3 DEF Counted
  <2>5. bytes <= SizeLimit => p + 1 <= SizeLimit
    BY <1>2, <1>3, <2>1
  <2>6. bytes <= SizeLimit => Counted(t, p + 1, bytes, line + e, total, top, first)
    BY <1>9, <2>1, <2>3, <2>5 DEF Counted
  <2> QED
    BY <2>4, <2>6
<1>16. ASSUME Counted(t, p + 1, bytes, line, total, top, first)
       PROVE  /\ Counted(s, p, bytes - 1, line - e, total - e, top - k, first - f)
              /\ Counted(t, p, bytes, line - e, total, top, first)
  <2>1. bytes = n + 1 /\ p + 1 <= SizeLimit /\ total = Lines(t, n + 1) /\ line = Lines(t, p + 1) /\ top <= n + 1
        /\ first = Lines(t, top)
    BY <1>9, <1>16 DEF Counted
  <2>2. bytes - 1 = n /\ p <= SizeLimit
    BY <1>2, <1>3, <2>1
  <2>3. total - e = Lines(s, n) /\ line - e = Lines(s, p) /\ line - e = Lines(t, p) /\ first - f = Lines(s, top - k)
        /\ top - k <= n
    BY <1>7, <1>11, <1>13, <2>1
  <2> QED
    BY <1>9, <2>1, <2>2, <2>3 DEF Counted
<1> QED
  BY <1>14, <1>15, <1>16 DEF s, t, p, e, k, f

-----------------------------------------------------------------------------
(* The primitives *)

\* The buffer is typed and consistent, and not too long.
BufferOK ==
  /\ before \in Seq(Char) /\ after \in Seq(Char)
  /\ start_display \in Nat /\ mark1 \in Nat /\ mark2 \in Nat \cup {-1}
  /\ last_byte <= SizeLimit /\ BufferConsistent

Here == [b |-> before, a |-> after, open |-> mark2 = -1]

\* The same in parts.
Counts == Counted(text, curs1, last_byte, curs_line, total_lines, start_display, start_line)
Marked(bytes, m1, m2) == m1 \in Nat /\ m2 \in Nat \cup {-1} /\ m1 <= bytes /\ m2 <= bytes

Parts ==
  /\ before \in Seq(Char) /\ after \in Seq(Char) /\ start_display \in Nat /\ last_byte <= SizeLimit
  /\ alloc1 = Under(curs1) /\ alloc2 = Upto(curs2) /\ Counts /\ Marked(last_byte, mark1, mark2)

\* The parts are the invariant of the buffer.
LEMMA BufferParts == BufferOK <=> Parts
BY DEF Parts, BufferOK, BufferConsistent, BlocksCover, LinesCounted, MarksInText, Counts, Counted, Lines, Marked, Under, Upto

\* The bytes are those on both sides.
LEMMA Bytes ==
  BufferOK =>
         /\ curs1 \in Nat /\ curs2 \in Nat /\ last_byte = curs1 + curs2 /\ SizeLimit \in Int
         /\ curs1 <= SizeLimit /\ curs2 <= SizeLimit /\ last_byte \in Nat
         /\ Here \in State /\ Length(Here) = last_byte
<1> SUFFICES ASSUME BufferOK PROVE /\ curs1 \in Nat /\ curs2 \in Nat /\ last_byte = curs1 + curs2 /\ SizeLimit \in Int
         /\ curs1 <= SizeLimit /\ curs2 <= SizeLimit /\ last_byte \in Nat
         /\ Here \in State /\ Length(Here) = last_byte
  OBVIOUS
<1>1. before \in Seq(Char) /\ after \in Seq(Char) /\ last_byte = Len(text) /\ last_byte <= SizeLimit
  BY BufferParts DEF Parts, Counts, Counted
<1>2. SizeLimit \in Int
  BY Bounds DEF SizeLimit
<1>3. curs1 \in Nat /\ curs2 \in Nat /\ last_byte = curs1 + curs2
  BY <1>1 DEF curs1, curs2, text
<1>4. Here \in State
  BY <1>1 DEF Here, State
<1>5. Length(Here) = last_byte
  BY <1>3 DEF Length, Here, curs1, curs2
<1> QED
  BY <1>1, <1>2, <1>3, <1>4, <1>5

-----------------------------------------------------------------------------
(* The text around the cursor *)

\* The same text with c before the cursor, with c after it, and without c.
St(b, a, o) == [b |-> b, a |-> a, open |-> o]
Front(c, a) == <<c>> \o a

\* What leads from each to the others, and back.
LEMMA Neighbours ==
  ASSUME NEW b, NEW a, NEW c, NEW o, b \in Seq(Char), a \in Seq(Char), c \in Char, o \in BOOLEAN
  PROVE  LET s == St(b, a, o)
             t == St(Append(b, c), a, o)
             u == St(b, Front(c, a), o)
             back == Entry("backspace", 0)
             del == Entry("delchar", 0)
             put == Entry("insert", c)
             ahead == Entry("ahead", c)
         IN /\ s \in State /\ t \in State /\ u \in State
            /\ Can(s, put) /\ Changed(s, put) = t /\ Can(t, back) /\ Changed(t, back) = s
            /\ Can(s, ahead) /\ Changed(s, ahead) = u /\ Can(u, del) /\ Changed(u, del) = s
            /\ Can(t, Left) /\ Changed(t, Left) = u /\ Can(u, Right) /\ Changed(u, Right) = t
<1> DEFINE s == St(b, a, o)
           t == St(Append(b, c), a, o)
           u == St(b, Front(c, a), o)
           b2 == Append(b, c)
           a2 == Front(c, a)
<1>1. /\ b2 \in Seq(Char) /\ b2 # <<>> /\ Len(b2) = Len(b) + 1 /\ SubSeq(b2, 1, Len(b)) = b /\ b2[Len(b) + 1] = c
  BY Ends
<1>2. a2 \in Seq(Char) /\ a2 # <<>> /\ Head(a2) = c /\ Tail(a2) = a
  BY Ends DEF Front
<1>3. Len(b2) - 1 = Len(b) /\ Len(b2) = Len(b) + 1
  BY <1>1
<1>4. SubSeq(b2, 1, Len(b2) - 1) = b /\ b2[Len(b2)] = c
  BY <1>1, <1>3
<1> HIDE DEF b2, a2
<1>5. s = [b |-> b, a |-> a, open |-> o] /\ t = [b |-> b2, a |-> a, open |-> o] /\ u = [b |-> b, a |-> a2, open |-> o]
  BY DEF St, b2, a2
<1> HIDE DEF s, t, u
<1>6. s \in State /\ t \in State /\ u \in State
  BY <1>1, <1>2, <1>5 DEF State
<1>7. Can(s, Entry("insert", c)) /\ Can(s, Entry("ahead", c))
  BY <1>6 DEF Can
<1>8. Can(t, Entry("backspace", 0)) /\ Can(t, Left)
  <2>1. t.b # <<>>
    BY <1>1, <1>5
  <2> QED
    BY <1>6, <2>1 DEF Can
<1>9. Can(u, Entry("delchar", 0)) /\ Can(u, Right)
  <2>1. u.a # <<>>
    BY <1>2, <1>5
  <2> QED
    BY <1>6, <2>1 DEF Can
<1>10. Changed(s, Entry("insert", c)) = t /\ Changed(s, Entry("ahead", c)) = u
  BY <1>5 DEF Changed, Entry, b2, a2, Front
<1>11. Changed(t, Entry("backspace", 0)) = s
  BY <1>4, <1>5 DEF Changed, Entry
<1>12. Changed(u, Entry("delchar", 0)) = s
  BY <1>2, <1>5 DEF Changed, Entry
<1>13. Changed(t, Left) = u
  <2>1. Changed(t, Left) = [b |-> SubSeq(t.b, 1, Len(t.b) - 1), a |-> <<t.b[Len(t.b)]>> \o t.a, open |-> t.open]
    BY DEF Changed, Entry, Left
  <2> QED
    BY <1>4, <1>5, <2>1 DEF a2, Front
<1>14. Changed(u, Right) = t
  <2>1. Changed(u, Right) = [b |-> Append(u.b, Head(u.a)), a |-> Tail(u.a), open |-> u.open]
    BY DEF Changed, Entry, Right
  <2> QED
    BY <1>2, <1>5, <2>1 DEF b2
<1> QED
  BY <1>6, <1>7, <1>8, <1>9, <1>10, <1>11, <1>12, <1>13, <1>14 DEF s, t, u, b2, a2

-----------------------------------------------------------------------------
(* The primitives keep the buffer, and something undoes each *)

\* A character before the cursor or after it, the text is the same.
LEMMA SameText ==
  ASSUME NEW b, NEW a, NEW c, b \in Seq(Char), a \in Seq(Char), c \in Char
  PROVE  b \o Front(c, a) = Append(b, c) \o a
<1>1. Append(b, c) \o a = b \o (<<c>> \o a)
  BY OneMore
<1> QED
  BY <1>1 DEF Front

\* A line ends in a character.
LEMMA NewLineChar == NewLine \in Char
BY EditAssumption

\* edit_insert, and what undoes it.
LEMMA InsertOK ==
  ASSUME BufferOK, NEW c \in Char, Insert(c)
  PROVE  /\ BufferOK' /\ Here' = Changed(Here, Entry("insert", c))
         /\ Can(Here', Entry("backspace", 0)) /\ Changed(Here', Entry("backspace", 0)) = Here
<1>1. /\ before \in Seq(Char) /\ after \in Seq(Char) /\ start_display \in Nat /\ last_byte <= SizeLimit
      /\ alloc1 = Under(curs1) /\ alloc2 = Upto(curs2) /\ Counts /\ Marked(last_byte, mark1, mark2)
  BY BufferParts DEF Parts
<1>2. curs1 \in Nat /\ curs2 \in Nat /\ last_byte = curs1 + curs2 /\ SizeLimit \in Int /\ curs1 <= SizeLimit /\ last_byte \in Nat
  BY Bytes
<1> DEFINE k == One(curs1 < start_display)
           f == IF curs1 < start_display THEN IsEnd(c) ELSE 0
<1>3. /\ last_byte < SizeLimit /\ start_display' = start_display + k /\ start_line' = start_line + f
      /\ curs_line' = curs_line + IsEnd(c) /\ total_lines' = total_lines + IsEnd(c)
      /\ mark1' = mark1 + One(mark1 > curs1) /\ mark2' = mark2 + One(mark2 > curs1)
      /\ alloc1' = MoreBlocks1 /\ before' = Append(before, c) /\ last_byte' = last_byte + 1
      /\ after' = after /\ alloc2' = alloc2
  BY DEF Insert, TopMoves, Above
<1>4. k \in 0..1
  BY DEF One
<1>5. before' \in Seq(Char) /\ curs1' = curs1 + 1 /\ curs2' = curs2 /\ text' = Append(before, c) \o after
  BY <1>1, <1>3 DEF curs1, curs2, text
<1>6. alloc1' = Under(curs1') /\ alloc2' = Upto(curs2')
  <2>1. MoreBlocks1 = Under(curs1 + 1)
    BY <1>1, <1>2, BlocksMore DEF MoreBlocks1
  <2> QED
    BY <1>1, <1>3, <1>5, <2>1
<1>7. Counts'
  <2>1. Counted(before \o after, Len(before), last_byte, curs_line, total_lines, start_display, start_line)
    BY <1>1 DEF Counts, text, curs1
  <2>2. Counted(Append(before, c) \o after, Len(before) + 1, last_byte + 1, curs_line + IsEnd(c),
                total_lines + IsEnd(c), start_display + k, start_line + f)
    BY <1>1, <1>3, <2>1, CountedMore DEF curs1
  <2>3. Counted(text', curs1', last_byte', curs_line', total_lines', start_display', start_line')
    BY <1>3, <1>5, <2>2 DEF curs1
  <2> QED
    BY <2>3 DEF Counts
<1>8. Marked(last_byte', mark1', mark2') /\ (mark2' = -1 <=> mark2 = -1)
  <2>1. curs1 <= last_byte
    BY <1>2
  <2>2. mark1 \in Nat /\ mark1 \in Nat \cup {-1} /\ mark2 \in Nat \cup {-1} /\ mark1 <= last_byte /\ mark2 <= last_byte
    BY <1>1 DEF Marked
  <2>3. mark1' \in Nat \cup {-1} /\ mark1' <= last_byte' /\ (mark1' = -1 <=> mark1 = -1)
    BY <1>2, <1>3, <2>1, <2>2 DEF One
  <2>4. mark2' \in Nat \cup {-1} /\ mark2' <= last_byte' /\ (mark2' = -1 <=> mark2 = -1)
    BY <1>2, <1>3, <2>1, <2>2 DEF One
  <2> QED
    BY <2>2, <2>3, <2>4 DEF Marked
<1>9. start_display' \in Nat /\ last_byte' <= SizeLimit
  BY <1>1, <1>2, <1>3, <1>4
<1>10. BufferOK'
  <2>1. Parts'
    BY <1>1, <1>3, <1>5, <1>6, <1>7, <1>8, <1>9 DEF Parts
  <2> QED
    BY <2>1, BufferParts, PTL
<1> HIDE DEF k, f
<1> DEFINE o == mark2 = -1
<1>11. Here' = St(Append(before, c), after, o) /\ Here = St(before, after, o)
  BY <1>3, <1>8 DEF Here, St
<1>12. o \in BOOLEAN
  OBVIOUS
<1> HIDE DEF o
<1>13. /\ Changed(St(before, after, o), Entry("insert", c)) = St(Append(before, c), after, o)
       /\ Can(St(Append(before, c), after, o), Entry("backspace", 0))
       /\ Changed(St(Append(before, c), after, o), Entry("backspace", 0)) = St(before, after, o)
  BY <1>1, <1>12, Neighbours
<1> QED
  BY <1>10, <1>11, <1>13

\* edit_insert_ahead, and what undoes it.
LEMMA InsertAheadOK ==
  ASSUME BufferOK, NEW c \in Char, InsertAhead(c)
  PROVE  /\ BufferOK' /\ Here' = Changed(Here, Entry("ahead", c))
         /\ Can(Here', Entry("delchar", 0)) /\ Changed(Here', Entry("delchar", 0)) = Here
<1>1. /\ before \in Seq(Char) /\ after \in Seq(Char) /\ start_display \in Nat /\ last_byte <= SizeLimit
      /\ alloc1 = Under(curs1) /\ alloc2 = Upto(curs2) /\ Counts /\ Marked(last_byte, mark1, mark2)
  BY BufferParts DEF Parts
<1>2. curs1 \in Nat /\ curs2 \in Nat /\ last_byte = curs1 + curs2 /\ SizeLimit \in Int /\ curs1 <= SizeLimit /\ last_byte \in Nat /\ curs2 <= SizeLimit
  BY Bytes
<1> DEFINE k == One(curs1 < start_display)
           f == IF curs1 < start_display THEN IsEnd(c) ELSE 0
<1>3. /\ last_byte < SizeLimit /\ start_display' = start_display + k /\ start_line' = start_line + f
      /\ curs_line' = curs_line /\ total_lines' = total_lines + IsEnd(c)
      /\ mark1' = mark1 + One(mark1 >= curs1) /\ mark2' = mark2 + One(mark2 >= curs1)
      /\ alloc2' = MoreBlocks2 /\ after' = Front(c, after) /\ last_byte' = last_byte + 1
      /\ before' = before /\ alloc1' = alloc1
  BY DEF InsertAhead, TopMoves, Above, Front
<1>4. k \in 0..1
  BY DEF One
<1>5. after' \in Seq(Char) /\ curs1' = curs1 /\ curs2' = curs2 + 1 /\ text' = Append(before, c) \o after
  <2>1. before \o Front(c, after) = Append(before, c) \o after
    BY <1>1, SameText
  <2>2. Front(c, after) \in Seq(Char) /\ Len(Front(c, after)) = Len(after) + 1
    BY <1>1 DEF Front
  <2> QED
    BY <1>1, <1>3, <2>1, <2>2 DEF curs1, curs2, text
<1>6. alloc1' = Under(curs1') /\ alloc2' = Upto(curs2')
  <2>1. MoreBlocks2 = Upto(curs2 + 1)
    BY <1>1, <1>2, BlocksMore DEF MoreBlocks2
  <2> QED
    BY <1>1, <1>3, <1>5, <2>1
<1>7. Counts'
  <2>1. Counted(before \o after, Len(before), last_byte, curs_line, total_lines, start_display, start_line)
    BY <1>1 DEF Counts, text, curs1
  <2>2. Counted(Append(before, c) \o after, Len(before), last_byte + 1, curs_line,
                total_lines + IsEnd(c), start_display + k, start_line + f)
    BY <1>1, <1>3, <2>1, CountedMore DEF curs1
  <2>3. Counted(text', curs1', last_byte', curs_line', total_lines', start_display', start_line')
    BY <1>3, <1>5, <2>2 DEF curs1
  <2> QED
    BY <2>3 DEF Counts
<1>8. Marked(last_byte', mark1', mark2') /\ (mark2' = -1 <=> mark2 = -1)
  <2>1. curs1 <= last_byte
    BY <1>2, <1>3
  <2>2. mark1 \in Nat /\ mark1 \in Nat \cup {-1} /\ mark2 \in Nat \cup {-1} /\ mark1 <= last_byte /\ mark2 <= last_byte
    BY <1>1 DEF Marked
  <2>3. mark1' \in Nat \cup {-1} /\ mark1' <= last_byte' /\ (mark1' = -1 <=> mark1 = -1)
    BY <1>2, <1>3, <2>1, <2>2 DEF One
  <2>4. mark2' \in Nat \cup {-1} /\ mark2' <= last_byte' /\ (mark2' = -1 <=> mark2 = -1)
    BY <1>2, <1>3, <2>1, <2>2 DEF One
  <2> QED
    BY <2>2, <2>3, <2>4 DEF Marked
<1>9. start_display' \in Nat /\ last_byte' <= SizeLimit
  BY <1>1, <1>2, <1>3, <1>4
<1>10. BufferOK'
  <2>1. Parts'
    BY <1>1, <1>3, <1>5, <1>6, <1>7, <1>8, <1>9 DEF Parts
  <2> QED
    BY <2>1, BufferParts, PTL
<1> HIDE DEF k, f
<1> DEFINE o == mark2 = -1
<1>11. Here' = St(before, Front(c, after), o) /\ Here = St(before, after, o)
  BY <1>3, <1>8 DEF Here, St
<1>12. o \in BOOLEAN
  OBVIOUS
<1> HIDE DEF o
<1>13. /\ Changed(St(before, after, o), Entry("ahead", c)) = St(before, Front(c, after), o)
       /\ Can(St(before, Front(c, after), o), Entry("delchar", 0))
       /\ Changed(St(before, Front(c, after), o), Entry("delchar", 0)) = St(before, after, o)
  BY <1>1, <1>12, Neighbours
<1> QED
  BY <1>10, <1>11, <1>13

\* The character after the cursor, and those after it.
LEMMA AfterCursor ==
  ASSUME BufferOK, curs2 > 0
  PROVE  /\ Head(after) \in Char /\ Tail(after) \in Seq(Char) /\ after = Front(Head(after), Tail(after))
         /\ Len(Tail(after)) \in Nat /\ curs2 = Len(Tail(after)) + 1
         /\ text = Append(before, Head(after)) \o Tail(after)
<1>1. before \in Seq(Char) /\ after \in Seq(Char) /\ after # <<>>
  BY BufferParts DEF Parts, curs2
<1>2. /\ Head(after) \in Char /\ Tail(after) \in Seq(Char) /\ after = Front(Head(after), Tail(after))
      /\ Len(Tail(after)) = Len(after) - 1 /\ Len(after) >= 1
  BY <1>1, NewLineChar, Ends DEF Front
<1>3. before \o Front(Head(after), Tail(after)) = Append(before, Head(after)) \o Tail(after)
  BY <1>1, <1>2, SameText
<1> DEFINE h == Head(after)
           t == Tail(after)
<1>4. curs2 = Len(t) + 1 /\ Len(t) \in Nat
  BY <1>1, <1>2 DEF curs2
<1> HIDE DEF h, t
<1>5. text = Append(before, h) \o t
  <2>1. text = before \o Front(h, t)
    BY <1>2 DEF text, h, t
  <2> QED
    BY <1>3, <2>1 DEF h, t
<1> QED
  BY <1>2, <1>4, <1>5 DEF h, t

\* The character before the cursor, and those before it.
LEMMA BeforeCursor ==
  ASSUME BufferOK, curs1 > 0
  PROVE  LET b == SubSeq(before, 1, curs1 - 1)
         IN /\ b \in Seq(Char) /\ before[curs1] \in Char /\ before = Append(b, before[curs1])
            /\ Len(b) \in Nat /\ curs1 = Len(b) + 1
<1>1. before \in Seq(Char) /\ before # <<>>
  BY BufferParts DEF Parts, curs1
<1> DEFINE n == Len(before)
           b == SubSeq(before, 1, n - 1)
<1>2. b \in Seq(Char) /\ before[n] \in Char /\ Append(b, before[n]) = before /\ Len(b) = n - 1 /\ n >= 1
  BY <1>1, NewLineChar, Ends DEF Front
<1>3. n \in Nat /\ curs1 = n
  BY <1>1 DEF curs1
<1> HIDE DEF n
<1>4. Len(b) \in Nat /\ n = Len(b) + 1
  BY <1>2, <1>3
<1> QED
  BY <1>2, <1>3, <1>4

-----------------------------------------------------------------------------
(* The other primitives *)

\* The lines are numbers.
LEMMA LineCounts ==
  ASSUME BufferOK
  PROVE  curs_line \in Nat /\ total_lines \in Nat /\ start_line \in Nat
<1>1. curs1 \in Nat /\ last_byte \in Nat /\ start_display \in Nat /\ Counts
  BY BufferParts, Bytes DEF Parts
<1>2. /\ curs_line = edit_count_lines(text, 0, curs1) /\ total_lines = edit_count_lines(text, 0, last_byte)
      /\ start_line = edit_count_lines(text, 0, start_display)
  BY <1>1 DEF Counts, Counted, Lines
<1> QED
  BY <1>1, <1>2, LinesType

\* edit_delete, and what undoes it.
LEMMA DeleteOK ==
  ASSUME BufferOK, Delete
  PROVE  /\ BufferOK' /\ Here' = Changed(Here, Entry("delchar", 0)) /\ Can(Here, Entry("delchar", 0))
         /\ Can(Here', Entry("ahead", Head(after))) /\ Changed(Here', Entry("ahead", Head(after))) = Here
<1>1. /\ before \in Seq(Char) /\ after \in Seq(Char) /\ start_display \in Nat /\ last_byte <= SizeLimit
      /\ alloc1 = Under(curs1) /\ alloc2 = Upto(curs2) /\ Counts /\ Marked(last_byte, mark1, mark2)
  BY BufferParts DEF Parts
<1>2. /\ curs1 \in Nat /\ curs2 \in Nat /\ last_byte = curs1 + curs2 /\ last_byte \in Nat /\ SizeLimit \in Int
      /\ curs1 <= SizeLimit /\ curs2 <= SizeLimit
  BY Bytes
<1>3. curs_line \in Nat /\ total_lines \in Nat /\ start_line \in Nat
  BY LineCounts
<1> DEFINE h == Head(after)
           t == Tail(after)
           m == Len(t)
<1>4. h \in Char /\ t \in Seq(Char) /\ after = Front(h, t) /\ m \in Nat /\ curs2 = m + 1 /\ text = Append(before, h) \o t /\ curs2 > 0
  BY AfterCursor DEF Delete
<1> DEFINE k == One(curs1 < start_display)
           f == IF curs1 < start_display THEN IsEnd(h) ELSE 0
<1> HIDE DEF h, t
<1>5. /\ start_display' = start_display - k /\ start_line' = start_line - f
      /\ curs_line' = curs_line /\ total_lines' = total_lines - IsEnd(h)
      /\ mark1' = mark1 - One(mark1 > curs1) /\ mark2' = mark2 - One(mark2 > curs1)
      /\ alloc2' = FewerBlocks2 /\ after' = t /\ last_byte' = last_byte - 1
      /\ before' = before /\ alloc1' = alloc1
  <2>1. /\ start_display' = start_display + (-k) /\ start_line' = start_line + (IF curs1 < start_display THEN - IsEnd(h) ELSE 0)
        /\ curs_line' = curs_line /\ total_lines' = total_lines - IsEnd(h)
        /\ mark1' = mark1 - One(mark1 > curs1) /\ mark2' = mark2 - One(mark2 > curs1)
        /\ alloc2' = FewerBlocks2 /\ after' = t /\ last_byte' = last_byte - 1
        /\ before' = before /\ alloc1' = alloc1
    BY DEF Delete, TopMoves, Above, h, t
  <2>2. k \in 0..1 /\ IsEnd(h) \in 0..1
    BY DEF One, IsEnd
  <2> QED
    BY <1>1, <1>3, <2>1, <2>2
<1>6. before' \in Seq(Char) /\ after' \in Seq(Char) /\ curs1' = curs1 /\ curs2' = m /\ text' = before \o t
  BY <1>1, <1>4, <1>5 DEF curs1, curs2, text
<1>7. alloc1' = Under(curs1') /\ alloc2' = Upto(curs2')
  <2>1. m <= SizeLimit
    BY <1>2, <1>4
  <2> HIDE DEF m
  <2>2. FewerBlocks2 = IF (m + 1) % BufSize = 0 THEN Upto(m + 1) \ {(m + 1) \div BufSize} ELSE Upto(m + 1)
    BY <1>1, <1>4 DEF FewerBlocks2
  <2>3. FewerBlocks2 = Upto(m)
    BY <1>4, <2>1, <2>2, BlocksMore
  <2> QED
    BY <1>1, <1>5, <1>6, <2>3
<1>8. Counts'
  <2>1. Counted(Append(before, h) \o t, Len(before), last_byte, curs_line, total_lines, start_display, start_line)
    BY <1>1, <1>4 DEF Counts, curs1
  <2>2. Counted(before \o t, Len(before), last_byte - 1, curs_line, total_lines - IsEnd(h), start_display - k, start_line - f)
    BY <1>1, <1>4, <2>1, CountedMore DEF curs1
  <2>3. Counted(text', curs1', last_byte', curs_line', total_lines', start_display', start_line')
    BY <1>5, <1>6, <2>2 DEF curs1
  <2> QED
    BY <2>3 DEF Counts
<1>9. Marked(last_byte', mark1', mark2') /\ (mark2' = -1 <=> mark2 = -1)
  <2>1. curs1 <= last_byte - 1
    BY <1>2, <1>4
  <2>2. mark1 \in Nat /\ mark1 \in Nat \cup {-1} /\ mark2 \in Nat \cup {-1} /\ mark1 <= last_byte /\ mark2 <= last_byte
    BY <1>1 DEF Marked
  <2>3. mark1' \in Nat \cup {-1} /\ mark1' <= last_byte' /\ (mark1' = -1 <=> mark1 = -1)
    BY <1>2, <1>5, <2>1, <2>2 DEF One
  <2>4. mark2' \in Nat \cup {-1} /\ mark2' <= last_byte' /\ (mark2' = -1 <=> mark2 = -1)
    BY <1>2, <1>5, <2>1, <2>2 DEF One
  <2> QED
    BY <2>2, <2>3, <2>4 DEF Marked
<1>10. start_display' \in Nat /\ last_byte' <= SizeLimit
  <2>1. k \in 0..1 /\ (k = 1 => curs1 < start_display)
    BY DEF One
  <2> QED
    BY <1>1, <1>2, <1>5, <2>1
<1>11. BufferOK'
  <2>1. Parts'
    BY <1>1, <1>5, <1>6, <1>7, <1>8, <1>9, <1>10 DEF Parts
  <2> QED
    BY <2>1, BufferParts, PTL
<1> DEFINE o == mark2 = -1
<1>12. Here' = St(before, t, o) /\ Here = St(before, Front(h, t), o)
  BY <1>4, <1>5, <1>9 DEF Here, St
<1>13. o \in BOOLEAN
  OBVIOUS
<1> HIDE DEF o
<1>14. /\ Changed(St(before, Front(h, t), o), Entry("delchar", 0)) = St(before, t, o)
       /\ Can(St(before, Front(h, t), o), Entry("delchar", 0))
       /\ Can(St(before, t, o), Entry("ahead", h))
       /\ Changed(St(before, t, o), Entry("ahead", h)) = St(before, Front(h, t), o)
  BY <1>1, <1>4, <1>13, Neighbours
<1> QED
  BY <1>11, <1>12, <1>14 DEF h

\* edit_backspace, and what undoes it.
LEMMA BackspaceOK ==
  ASSUME BufferOK, Backspace
  PROVE  /\ BufferOK' /\ Here' = Changed(Here, Entry("backspace", 0)) /\ Can(Here, Entry("backspace", 0))
         /\ Can(Here', Entry("insert", before[curs1])) /\ Changed(Here', Entry("insert", before[curs1])) = Here
<1>1. /\ before \in Seq(Char) /\ after \in Seq(Char) /\ start_display \in Nat /\ last_byte <= SizeLimit
      /\ alloc1 = Under(curs1) /\ alloc2 = Upto(curs2) /\ Counts /\ Marked(last_byte, mark1, mark2)
  BY BufferParts DEF Parts
<1>2. /\ curs1 \in Nat /\ curs2 \in Nat /\ last_byte = curs1 + curs2 /\ last_byte \in Nat /\ SizeLimit \in Int
      /\ curs1 <= SizeLimit /\ curs2 <= SizeLimit
  BY Bytes
<1>3. curs_line \in Nat /\ total_lines \in Nat /\ start_line \in Nat
  BY LineCounts
<1> DEFINE h == before[curs1]
           t == SubSeq(before, 1, curs1 - 1)
           m == Len(t)
<1>4. h \in Char /\ t \in Seq(Char) /\ before = Append(t, h) /\ m \in Nat /\ curs1 = m + 1 /\ curs1 > 0
  BY BeforeCursor DEF Backspace
<1> DEFINE k == One(m < start_display)
           f == IF m < start_display THEN IsEnd(h) ELSE 0
<1> HIDE DEF h, t
<1>5. /\ start_display' = start_display - k /\ start_line' = start_line - f
      /\ curs_line' = curs_line - IsEnd(h) /\ total_lines' = total_lines - IsEnd(h)
      /\ mark1' = mark1 - One(mark1 >= curs1) /\ mark2' = mark2 - One(mark2 >= curs1)
      /\ alloc1' = FewerBlocks1 /\ before' = t /\ last_byte' = last_byte - 1
      /\ after' = after /\ alloc2' = alloc2
  <2> DEFINE p == curs1 - 1
  <2>1. /\ start_display' = start_display + (-One(p < start_display)) /\ start_line' = start_line + (IF p < start_display THEN - IsEnd(h) ELSE 0)
        /\ curs_line' = curs_line - IsEnd(h) /\ total_lines' = total_lines - IsEnd(h)
        /\ mark1' = mark1 - One(mark1 >= curs1) /\ mark2' = mark2 - One(mark2 >= curs1)
        /\ alloc1' = FewerBlocks1 /\ before' = t /\ last_byte' = last_byte - 1
        /\ after' = after /\ alloc2' = alloc2
    BY DEF Backspace, TopMoves, Above, h, t
  <2>2. p = m
    BY <1>4
  <2>3. k \in 0..1 /\ IsEnd(h) \in 0..1
    BY DEF One, IsEnd
  <2> HIDE DEF p
  <2>4. start_display' = start_display + (-k) /\ start_line' = start_line + (IF m < start_display THEN - IsEnd(h) ELSE 0)
    BY <2>1, <2>2
  <2> QED
    BY <1>1, <1>3, <2>1, <2>3, <2>4
<1>6. before' \in Seq(Char) /\ after' \in Seq(Char) /\ curs1' = m /\ curs2' = curs2 /\ text' = t \o after
  BY <1>1, <1>4, <1>5 DEF curs1, curs2, text
<1>7. alloc1' = Under(curs1') /\ alloc2' = Upto(curs2')
  <2>1. m <= SizeLimit /\ curs1 - 1 = m
    BY <1>2, <1>4
  <2> HIDE DEF m
  <2>2. FewerBlocks1 = IF m % BufSize = 0 THEN Under(m + 1) \ {(m + 1) \div BufSize} ELSE Under(m + 1)
    BY <1>1, <1>4, <2>1 DEF FewerBlocks1
  <2>3. FewerBlocks1 = Under(m)
    BY <1>4, <2>1, <2>2, BlocksMore
  <2> QED
    BY <1>1, <1>5, <1>6, <2>3
<1>8. Counts'
  <2>1. Counted(Append(t, h) \o after, m + 1, last_byte, curs_line, total_lines, start_display, start_line)
    BY <1>1, <1>4 DEF Counts, text
  <2>2. Counted(t \o after, m, last_byte - 1, curs_line - IsEnd(h), total_lines - IsEnd(h), start_display - k, start_line - f)
    BY <1>1, <1>4, <2>1, CountedMore
  <2>3. Counted(text', curs1', last_byte', curs_line', total_lines', start_display', start_line')
    BY <1>5, <1>6, <2>2
  <2> QED
    BY <2>3 DEF Counts
<1>9. Marked(last_byte', mark1', mark2') /\ (mark2' = -1 <=> mark2 = -1)
  <2>1. curs1 <= last_byte /\ curs1 >= 1
    BY <1>2, <1>4
  <2>2. mark1 \in Nat /\ mark1 \in Nat \cup {-1} /\ mark2 \in Nat \cup {-1} /\ mark1 <= last_byte /\ mark2 <= last_byte
    BY <1>1 DEF Marked
  <2>3. mark1' \in Nat \cup {-1} /\ mark1' <= last_byte' /\ (mark1' = -1 <=> mark1 = -1)
    BY <1>2, <1>5, <2>1, <2>2 DEF One
  <2>4. mark2' \in Nat \cup {-1} /\ mark2' <= last_byte' /\ (mark2' = -1 <=> mark2 = -1)
    BY <1>2, <1>5, <2>1, <2>2 DEF One
  <2> QED
    BY <2>2, <2>3, <2>4 DEF Marked
<1>10. start_display' \in Nat /\ last_byte' <= SizeLimit
  <2>1. k \in 0..1 /\ (k = 1 => m < start_display)
    BY DEF One
  <2> QED
    BY <1>1, <1>2, <1>4, <1>5, <2>1
<1>11. BufferOK'
  <2>1. Parts'
    BY <1>1, <1>5, <1>6, <1>7, <1>8, <1>9, <1>10 DEF Parts
  <2> QED
    BY <2>1, BufferParts, PTL
<1> DEFINE o == mark2 = -1
<1>12. Here' = St(t, after, o) /\ Here = St(Append(t, h), after, o)
  BY <1>4, <1>5, <1>9 DEF Here, St
<1>13. o \in BOOLEAN
  OBVIOUS
<1> HIDE DEF o
<1>14. /\ Changed(St(Append(t, h), after, o), Entry("backspace", 0)) = St(t, after, o)
       /\ Can(St(Append(t, h), after, o), Entry("backspace", 0))
       /\ Can(St(t, after, o), Entry("insert", h))
       /\ Changed(St(t, after, o), Entry("insert", h)) = St(Append(t, h), after, o)
  BY <1>1, <1>4, <1>13, Neighbours
<1> QED
  BY <1>11, <1>12, <1>14 DEF h

\* The cursor goes back, and forth again.
LEMMA MoveLeftOK ==
  ASSUME BufferOK, MoveLeft
  PROVE  /\ BufferOK' /\ Here' = Changed(Here, Left) /\ Can(Here, Left) /\ Can(Here', Right) /\ Changed(Here', Right) = Here
         /\ text' = text /\ curs1' = curs1 - 1
<1>1. /\ before \in Seq(Char) /\ after \in Seq(Char) /\ start_display \in Nat /\ last_byte <= SizeLimit
      /\ alloc1 = Under(curs1) /\ alloc2 = Upto(curs2) /\ Counts /\ Marked(last_byte, mark1, mark2)
  BY BufferParts DEF Parts
<1>2. /\ curs1 \in Nat /\ curs2 \in Nat /\ last_byte = curs1 + curs2 /\ last_byte \in Nat /\ SizeLimit \in Int
      /\ curs1 <= SizeLimit /\ curs2 <= SizeLimit
  BY Bytes
<1>3. curs_line \in Nat /\ total_lines \in Nat /\ start_line \in Nat
  BY LineCounts
<1> DEFINE h == before[curs1]
           t == SubSeq(before, 1, curs1 - 1)
           m == Len(t)
<1>4. h \in Char /\ t \in Seq(Char) /\ before = Append(t, h) /\ m \in Nat /\ curs1 = m + 1 /\ curs1 > 0
  BY BeforeCursor DEF MoveLeft
<1> HIDE DEF h, t
<1>5. /\ start_display' = start_display /\ start_line' = start_line
      /\ curs_line' = curs_line - IsEnd(h) /\ total_lines' = total_lines
      /\ mark1' = mark1 /\ mark2' = mark2
      /\ alloc1' = FewerBlocks1 /\ alloc2' = MoreBlocks2 /\ before' = t /\ last_byte' = last_byte
      /\ after' = Front(h, after)
  BY DEF MoveLeft, topVars, markVars, h, t, Front
<1>6. before' \in Seq(Char) /\ after' \in Seq(Char) /\ curs1' = m /\ curs2' = curs2 + 1 /\ text' = text
  <2>1. Front(h, after) \in Seq(Char) /\ Len(Front(h, after)) = Len(after) + 1
    BY <1>1, <1>4 DEF Front
  <2>2. t \o Front(h, after) = Append(t, h) \o after
    BY <1>1, <1>4, SameText
  <2>3. text' = t \o Front(h, after) /\ text = Append(t, h) \o after
    BY <1>4, <1>5 DEF text
  <2>4. curs1' = m /\ curs2' = curs2 + 1
    BY <1>5, <2>1 DEF curs1, curs2
  <2> QED
    BY <1>4, <1>5, <2>1, <2>2, <2>3, <2>4
<1>7. alloc1' = Under(curs1') /\ alloc2' = Upto(curs2')
  <2>1. m <= SizeLimit /\ curs1 - 1 = m
    BY <1>2, <1>4
  <2> HIDE DEF m
  <2>2. FewerBlocks1 = IF m % BufSize = 0 THEN Under(m + 1) \ {(m + 1) \div BufSize} ELSE Under(m + 1)
    BY <1>1, <1>4, <2>1 DEF FewerBlocks1
  <2>3. FewerBlocks1 = Under(m)
    BY <1>4, <2>1, <2>2, BlocksMore
  <2>4. MoreBlocks2 = Upto(curs2 + 1)
    BY <1>1, <1>2, BlocksMore DEF MoreBlocks2
  <2> QED
    BY <1>5, <1>6, <2>3, <2>4
<1>8. Counts'
  <2>1. Counted(Append(t, h) \o after, m + 1, last_byte, curs_line, total_lines, start_display, start_line)
    BY <1>1, <1>4 DEF Counts, text
  <2>2. Counted(Append(t, h) \o after, m, last_byte, curs_line - IsEnd(h), total_lines, start_display, start_line)
    BY <1>1, <1>4, <2>1, CountedMore
  <2>3. text' = Append(t, h) \o after
    BY <1>4, <1>6 DEF text
  <2>4. Counted(text', curs1', last_byte', curs_line', total_lines', start_display', start_line')
    BY <1>5, <1>6, <2>2, <2>3
  <2> QED
    BY <2>4 DEF Counts
<1>9. Marked(last_byte', mark1', mark2') /\ (mark2' = -1 <=> mark2 = -1)
  BY <1>1, <1>5
<1>10. start_display' \in Nat /\ last_byte' <= SizeLimit
  BY <1>1, <1>5
<1>11. curs1' = curs1 - 1
  BY <1>4, <1>6
<1>12. BufferOK'
  <2>1. Parts'
    BY <1>1, <1>5, <1>6, <1>7, <1>8, <1>9, <1>10 DEF Parts
  <2> QED
    BY <2>1, BufferParts, PTL
<1> DEFINE o == mark2 = -1
<1>13. Here' = St(t, Front(h, after), o) /\ Here = St(Append(t, h), after, o)
  BY <1>4, <1>5, <1>9 DEF Here, St
<1>14. o \in BOOLEAN
  OBVIOUS
<1> HIDE DEF o
<1>15. /\ Changed(St(Append(t, h), after, o), Left) = St(t, Front(h, after), o)
       /\ Can(St(Append(t, h), after, o), Left)
       /\ Can(St(t, Front(h, after), o), Right)
       /\ Changed(St(t, Front(h, after), o), Right) = St(Append(t, h), after, o)
  BY <1>1, <1>4, <1>14, Neighbours
<1> QED
  BY <1>6, <1>12, <1>13, <1>15, <1>11

\* The cursor goes forth, and back again.
LEMMA MoveRightOK ==
  ASSUME BufferOK, MoveRight
  PROVE  /\ BufferOK' /\ Here' = Changed(Here, Right) /\ Can(Here, Right) /\ Can(Here', Left) /\ Changed(Here', Left) = Here
         /\ text' = text /\ curs1' = curs1 + 1
<1>1. /\ before \in Seq(Char) /\ after \in Seq(Char) /\ start_display \in Nat /\ last_byte <= SizeLimit
      /\ alloc1 = Under(curs1) /\ alloc2 = Upto(curs2) /\ Counts /\ Marked(last_byte, mark1, mark2)
  BY BufferParts DEF Parts
<1>2. /\ curs1 \in Nat /\ curs2 \in Nat /\ last_byte = curs1 + curs2 /\ last_byte \in Nat /\ SizeLimit \in Int
      /\ curs1 <= SizeLimit /\ curs2 <= SizeLimit
  BY Bytes
<1>3. curs_line \in Nat /\ total_lines \in Nat /\ start_line \in Nat
  BY LineCounts
<1> DEFINE h == Head(after)
           t == Tail(after)
           m == Len(t)
<1>4. h \in Char /\ t \in Seq(Char) /\ after = Front(h, t) /\ m \in Nat /\ curs2 = m + 1 /\ text = Append(before, h) \o t /\ curs2 > 0
  BY AfterCursor DEF MoveRight
<1> HIDE DEF h, t
<1>5. /\ start_display' = start_display /\ start_line' = start_line
      /\ curs_line' = curs_line + IsEnd(h) /\ total_lines' = total_lines
      /\ mark1' = mark1 /\ mark2' = mark2
      /\ alloc1' = MoreBlocks1 /\ alloc2' = FewerBlocks2 /\ before' = Append(before, h) /\ last_byte' = last_byte
      /\ after' = t
  BY DEF MoveRight, topVars, markVars, h, t
<1>6. before' \in Seq(Char) /\ after' \in Seq(Char) /\ curs1' = curs1 + 1 /\ curs2' = m /\ text' = text
  <2>1. Append(before, h) \in Seq(Char) /\ Len(Append(before, h)) = Len(before) + 1
    BY <1>1, <1>4
  <2>2. text' = Append(before, h) \o t
    BY <1>5 DEF text
  <2>3. curs1' = curs1 + 1 /\ curs2' = m
    BY <1>5, <2>1 DEF curs1, curs2
  <2> QED
    BY <1>4, <1>5, <2>1, <2>2, <2>3
<1>7. alloc1' = Under(curs1') /\ alloc2' = Upto(curs2')
  <2>1. m <= SizeLimit
    BY <1>2, <1>4
  <2> HIDE DEF m
  <2>2. FewerBlocks2 = IF (m + 1) % BufSize = 0 THEN Upto(m + 1) \ {(m + 1) \div BufSize} ELSE Upto(m + 1)
    BY <1>1, <1>4 DEF FewerBlocks2
  <2>3. FewerBlocks2 = Upto(m)
    BY <1>4, <2>1, <2>2, BlocksMore
  <2>4. MoreBlocks1 = Under(curs1 + 1)
    BY <1>1, <1>2, BlocksMore DEF MoreBlocks1
  <2> QED
    BY <1>5, <1>6, <2>3, <2>4
<1>8. Counts'
  <2>1. Counted(Append(before, h) \o t, Len(before), last_byte, curs_line, total_lines, start_display, start_line)
    BY <1>1, <1>4 DEF Counts, curs1
  <2>2. Counted(Append(before, h) \o t, Len(before) + 1, last_byte, curs_line + IsEnd(h), total_lines, start_display, start_line)
    BY <1>1, <1>4, <2>1, CountedMore
  <2>3. Counted(text', curs1', last_byte', curs_line', total_lines', start_display', start_line')
    BY <1>4, <1>5, <1>6, <2>2 DEF curs1
  <2> QED
    BY <2>3 DEF Counts
<1>9. Marked(last_byte', mark1', mark2') /\ (mark2' = -1 <=> mark2 = -1)
  BY <1>1, <1>5
<1>10. start_display' \in Nat /\ last_byte' <= SizeLimit
  BY <1>1, <1>5
<1>11. BufferOK'
  <2>1. Parts'
    BY <1>1, <1>5, <1>6, <1>7, <1>8, <1>9, <1>10 DEF Parts
  <2> QED
    BY <2>1, BufferParts, PTL
<1> DEFINE o == mark2 = -1
<1>12. Here' = St(Append(before, h), t, o) /\ Here = St(before, Front(h, t), o)
  BY <1>4, <1>5, <1>9 DEF Here, St
<1>13. o \in BOOLEAN
  OBVIOUS
<1> HIDE DEF o
<1>14. /\ Changed(St(before, Front(h, t), o), Right) = St(Append(before, h), t, o)
       /\ Can(St(before, Front(h, t), o), Right)
       /\ Can(St(Append(before, h), t, o), Left)
       /\ Changed(St(Append(before, h), t, o), Left) = St(before, Front(h, t), o)
  BY <1>1, <1>4, <1>13, Neighbours
<1> QED
  BY <1>6, <1>11, <1>12, <1>14

-----------------------------------------------------------------------------
(* The inductive invariant *)

UndoOK ==
  /\ stack_disable \in BOOLEAN /\ option_max_undo \in Nat /\ Good(undo, Here, snaps)
  /\ ~ stack_disable => Closed(undo, Here)

BufferInv == BufferOK /\ UndoOK

\* The undo stack after a step, when option_max_undo stays as it is.
LEMMA UndoNext ==
  ASSUME UndoOK, option_max_undo' = option_max_undo, stack_disable' \in BOOLEAN,
         Good(undo', Here', snaps'), ~ stack_disable' => Closed(undo', Here')
  PROVE  UndoOK'
<1>1. option_max_undo' \in Nat
  BY DEF UndoOK
<1>2. Good(undo, Here, snaps)'
  BY DEF Good
<1>3. (~ stack_disable => Closed(undo, Here))'
  BY DEF Closed
<1> QED
  BY <1>1, <1>2, <1>3 DEF UndoOK

\* At first.
LEMMA BufferStarts == Init => BufferInv
<1> SUFFICES ASSUME Init PROVE BufferInv
  OBVIOUS
<1>1. PICK n \in FileSizes : \E file \in [1..n -> Char] : Load(file)
  BY DEF Init
<1>2. PICK file \in [1..n -> Char] : Load(file)
  BY <1>1
<1>3. n \in 0..SizeLimit - 1 /\ SizeLimit \in Int /\ n \in Nat /\ n <= SizeLimit
  BY EditAssumption, Bounds DEF SizeLimit
<1>4. file \in Seq(Char) /\ Len(file) = n
  BY <1>3
<1>5. /\ before = <<>> /\ after = file /\ alloc1 = {} /\ alloc2 = 0..n \div BufSize /\ last_byte = n
      /\ curs_line = 0 /\ total_lines = edit_count_lines(file, 0, n)
      /\ start_display = 0 /\ start_line = 0 /\ mark1 = 0 /\ mark2 = 0
      /\ undo = EmptyStack(StartStack) /\ stack_disable = FALSE /\ snaps = <<>> /\ option_max_undo \in MaxUndos
  BY <1>2, <1>4 DEF Load, Init
<1>6. before \in Seq(Char) /\ curs1 = 0 /\ curs2 = n /\ text = file
  BY <1>4, <1>5 DEF curs1, curs2, text
<1>7. BufferOK
  <2>1. alloc1 = Under(curs1)
    <3>1. \A b \in 0..MaxBuff : ~ (b * BufSize < 0)
      <4>1. MaxBuff \in Nat /\ BufSize \in Nat
        BY Bounds
      <4> QED
        BY <4>1
    <3> QED
      BY <1>5, <1>6, <3>1 DEF Under
  <2>2. alloc2 = Upto(curs2)
    BY <1>5, <1>6 DEF Upto
  <2>3. Counts
    <3>1. edit_count_lines(text, 0, 0) = 0
      BY LinesType
    <3>2. 0 <= n /\ 0 <= SizeLimit
      BY <1>3
    <3> QED
      BY <1>4, <1>5, <1>6, <3>1, <3>2 DEF Counts, Counted, Lines
  <2>4. Marked(last_byte, mark1, mark2)
    BY <1>3, <1>5 DEF Marked
  <2>5. Parts
    BY <1>3, <1>4, <1>5, <1>6, <2>1, <2>2, <2>3, <2>4 DEF Parts
  <2> QED
    BY <2>5, BufferParts
<1>8. Good(undo, Here, snaps)
  <2>1. Ring(undo, option_max_undo) /\ Depth(undo) = 0
    BY <1>5, Bounds, EmptyRing
  <2>2. Slots(undo)[0] = Nothing
    BY <2>1, SlotsAre
  <2>3. Here \in State
    BY <1>7, Bytes
  <2> DEFINE x == Slots(undo)
             S == [k \in {0} |-> Here]
  <2>4. S[0] = Here
    OBVIOUS
  <2>5. KeysTo(x, 0) = 0
    BY KeysToIs
  <2>6. snaps \in Seq(Snaps) /\ Len(snaps) = 0
    BY <1>5
  <2> HIDE DEF x, S
  <2>7. Trail(0, x, Here, snaps, S)
    BY <2>2, <2>3, <2>4, <2>5, <2>6 DEF Trail, x
  <2> QED
    BY <2>1, <2>7 DEF Good, x
<1>9. option_max_undo \in Nat
  BY <1>5, EditAssumption
<1>10. Closed(undo, Here)
  <2>1. Ring(undo, option_max_undo) /\ Depth(undo) = 0
    BY <1>5, Bounds, EmptyRing
  <2> QED
    BY <2>1 DEF Closed
<1> QED
  BY <1>5, <1>7, <1>8, <1>9, <1>10 DEF BufferInv, UndoOK

\* A primitive that is recorded with what undoes it.
LEMMA RecordedOK ==
  ASSUME NEW e, BufferInv, BufferOK', Record(edit_push_action(undo, e)), Can(Here', e), Changed(Here', e) = Here,
         ~ IsKey(e), ~ IsTimes(e)
  PROVE  BufferInv' /\ Leaves(undo', Here', snaps) /\ snaps' = Suffix(snaps, Keys(undo'))
<1>1. /\ ~ stack_disable /\ option_max_undo' = option_max_undo /\ stack_disable' = stack_disable
      /\ undo' = edit_push_action(undo, e) /\ snaps' = Suffix(snaps, Keys(undo'))
  BY DEF Record, Step, Suffix
<1>2. option_max_undo \in Nat /\ Good(undo, Here, snaps) /\ Closed(undo, Here) /\ stack_disable \in BOOLEAN
  BY <1>1 DEF BufferInv, UndoOK
<1>3. Depth(undo) # 0 /\ IsKey(Top(undo)) /\ Here.open => e.op = "mark1"
  BY <1>2 DEF Closed
<1>4. Leaves(undo', Here', snaps) /\ Closed(undo', Here')
  BY <1>1, <1>2, <1>3, PushStep
<1>5. Good(undo', Here', snaps')
  BY <1>1, <1>4 DEF Leaves
<1>6. UndoOK
  BY DEF BufferInv
<1>7. UndoOK'
  BY <1>1, <1>2, <1>4, <1>5, <1>6, UndoNext
<1> QED
  BY <1>1, <1>4, <1>7 DEF BufferInv

-----------------------------------------------------------------------------
(* The other commands *)

\* What the invariant says of the undo stack.
LEMMA UndoIs ==
  ASSUME BufferInv
  PROVE  /\ option_max_undo \in Nat /\ Good(undo, Here, snaps) /\ stack_disable \in BOOLEAN
         /\ ~ stack_disable => Closed(undo, Here)
         /\ BufferOK /\ UndoOK /\ Here \in State /\ Length(Here) = last_byte
BY Bytes DEF BufferInv, UndoOK

\* edit_mark_cmd.
LEMMA MarkOK ==
  ASSUME NEW unmark \in BOOLEAN, BufferInv, edit_mark_cmd(unmark)
  PROVE  BufferInv' /\ Leaves(undo', Here', snaps) /\ snaps' = Suffix(snaps, Keys(undo'))
<1> DEFINE e1 == Entry("mark1", mark1)
           e2 == Entry("mark2", mark2)
           st == edit_push_action(undo, e1)
<1>1. /\ ~ stack_disable /\ option_max_undo' = option_max_undo /\ stack_disable' = stack_disable
      /\ undo' = edit_push_action(st, e2) /\ snaps' = Suffix(snaps, Keys(undo'))
  BY DEF Record, Step, Suffix, edit_mark_cmd, edit_push_markers
<1>2. /\ option_max_undo \in Nat /\ Good(undo, Here, snaps) /\ Closed(undo, Here) /\ stack_disable \in BOOLEAN
      /\ BufferOK /\ UndoOK /\ Here \in State /\ Length(Here) = last_byte
  BY <1>1, UndoIs
<1>3. /\ before' = before /\ after' = after /\ alloc1' = alloc1 /\ alloc2' = alloc2 /\ last_byte' = last_byte
      /\ curs_line' = curs_line /\ total_lines' = total_lines /\ start_display' = start_display /\ start_line' = start_line
      /\ mark1' = (IF unmark THEN 0 ELSE IF mark2 >= 0 THEN curs1 ELSE mark1)
      /\ mark2' = (IF unmark THEN 0 ELSE IF mark2 >= 0 THEN -1 ELSE curs1)
  BY DEF edit_mark_cmd, sideVars, lineVars, topVars
<1>4. Parts /\ curs1 \in Nat /\ curs2 \in Nat /\ last_byte \in Nat /\ last_byte = curs1 + curs2
  BY <1>2, BufferParts, Bytes
<1>5. mark1 \in 0..last_byte /\ (mark2 = -1 \/ mark2 \in 0..last_byte)
  BY <1>4 DEF Parts, Marked
<1>6. Marked(last_byte', mark1', mark2') /\ curs1' = curs1 /\ curs2' = curs2 /\ text' = text
  BY <1>3, <1>4, <1>5 DEF Marked, curs1, curs2, text
<1>7. Counts'
  BY <1>3, <1>4, <1>6 DEF Parts, Counts
<1>8. Parts'
  BY <1>3, <1>4, <1>6, <1>7 DEF Parts
<1>9. BufferOK'
  BY <1>8, BufferParts, PTL
<1> DEFINE o == mark2 = -1
           o2 == mark2' = -1
<1>10. Here = St(before, after, o) /\ Here' = St(before, after, o2)
  BY <1>3 DEF Here, St
<1>11. o \in BOOLEAN /\ o2 \in BOOLEAN /\ before \in Seq(Char) /\ after \in Seq(Char)
  BY <1>4 DEF Parts
<1>12. Can(Here, e1) /\ Changed(Here, e1) = Here
  BY <1>2, <1>5 DEF Can, Changed, Entry
<1>13. Can(Here', e2) /\ Changed(Here', e2) = Here
  <2>1. Here' \in State /\ Length(Here') = last_byte
    <3>1. Here' \in State
      BY <1>10, <1>11 DEF St, State
    <3>2. Length(Here') = Len(before) + Len(after)
      BY <1>10 DEF St, Length
    <3> QED
      BY <1>4, <3>1, <3>2 DEF curs1, curs2
  <2>2. Can(Here', e2)
    BY <1>5, <2>1 DEF Can, Entry
  <2>3. Changed(Here', e2) = [b |-> Here'.b, a |-> Here'.a, open |-> e2.arg = -1]
    BY DEF Changed, Entry
  <2>4. Changed(Here', e2) = St(before, after, o)
    BY <1>10, <2>3 DEF St, Entry
  <2> QED
    BY <1>10, <2>2, <2>4
<1>14. e1.op = "mark1" /\ ~ IsKey(e1) /\ ~ IsTimes(e1) /\ ~ IsKey(e2) /\ ~ IsTimes(e2)
  BY DEF Entry, IsKey, IsTimes
<1> HIDE DEF e1, e2, o, o2
<1>15. Leaves(st, Here, snaps) /\ Closed(st, Here)
  BY <1>2, <1>12, <1>14, PushStep
<1> HIDE DEF st
<1>16. snaps \in Seq(Snaps) /\ Keys(st) \in 0..Len(snaps) /\ Good(st, Here, Suffix(snaps, Keys(st)))
  BY <1>2, <1>15, GoodKeys DEF Leaves
<1>17. Depth(st) # 0 /\ IsKey(Top(st)) /\ Here.open => e2.op = "mark1"
  BY <1>15 DEF Closed
<1>18. Leaves(undo', Here', Suffix(snaps, Keys(st))) /\ Closed(undo', Here')
  BY <1>1, <1>2, <1>13, <1>14, <1>16, <1>17, PushStep
<1>19. Leaves(undo', Here', snaps)
  BY <1>16, <1>18, LeavesTwice
<1>20. Good(undo', Here', snaps')
  BY <1>1, <1>19 DEF Leaves
<1>21. UndoOK'
  BY <1>1, <1>2, <1>18, <1>20, UndoNext
<1> QED
  BY <1>1, <1>9, <1>19, <1>21 DEF BufferInv

\* edit_push_key_press: nothing is pushed, or a key press is remembered here.
LEMMA KeyPressOK ==
  ASSUME BufferInv, edit_push_key_press
  PROVE  /\ BufferInv'
         /\ \/ snaps' = snaps /\ snaps # <<>> /\ snaps[Len(snaps)] = Snap(Here)
            \/ snaps' = Suffix(Append(snaps, Snap(Here)), Keys(undo')) /\ Keys(undo') \in 0..Len(Append(snaps, Snap(Here)))
<1> DEFINE e == Entry("key", start_display)
           m == Entry("mark1", mark1)
           keyed == edit_push_action(undo, e)
           marked == IF mark2 = -1 THEN edit_push_action(keyed, m) ELSE keyed
           more == Append(snaps, Snap(Here))
<1>1. /\ ~ stack_disable /\ option_max_undo' = option_max_undo /\ stack_disable' = stack_disable
      /\ undo' = marked /\ snaps' = Suffix(IF keyed.sp = undo.sp THEN snaps ELSE more, Keys(marked))
  BY DEF Step, Suffix, edit_push_key_press, Here, Snap, text, curs1
<1>2. /\ option_max_undo \in Nat /\ Good(undo, Here, snaps) /\ Closed(undo, Here) /\ stack_disable \in BOOLEAN
      /\ BufferOK /\ UndoOK /\ Here \in State /\ Length(Here) = last_byte
  BY <1>1, UndoIs
<1>3. /\ before' = before /\ after' = after /\ alloc1' = alloc1 /\ alloc2' = alloc2 /\ last_byte' = last_byte
      /\ curs_line' = curs_line /\ total_lines' = total_lines /\ start_display' = start_display /\ start_line' = start_line
      /\ mark1' = mark1 /\ mark2' = mark2
  BY DEF edit_push_key_press, sideVars, lineVars, topVars, markVars
<1>4. Parts /\ last_byte \in Nat
  BY <1>2, BufferParts, Bytes
<1>5. mark1 \in 0..last_byte /\ start_display \in 0..last_byte
  BY <1>4 DEF Parts, Marked, Counts, Counted
<1>6. Here' = Here /\ curs1' = curs1 /\ curs2' = curs2 /\ text' = text
  BY <1>3 DEF Here, curs1, curs2, text
<1>7. Parts'
  BY <1>3, <1>4, <1>6 DEF Parts, Counts
<1>8. BufferOK'
  BY <1>7, BufferParts, PTL
<1>9. Can(Here, e) /\ Can(Here, m) /\ Changed(Here, m) = Here
  BY <1>2, <1>5 DEF Can, Changed, Entry
<1>10. IsKey(e) /\ m.op = "mark1" /\ ~ IsKey(m) /\ ~ IsTimes(m)
  BY DEF Entry, IsKey, IsTimes
<1>11. Here.open <=> mark2 = -1
  BY DEF Here
<1>12. snaps \in Seq(Snaps) /\ more \in Seq(Snaps)
  <2>1. snaps \in Seq(Snaps)
    BY <1>2, GoodKeys
  <2>2. Snap(Here) \in Snaps
    BY <1>2, SnapIs
  <2> QED
    BY <2>1, <2>2
<1> HIDE DEF e, m
<1>13. /\ Depth(keyed) # 0
       /\ keyed.sp = undo.sp => Good(keyed, Here, snaps) /\ ~ Here.open /\ snaps # <<>> /\ snaps[Len(snaps)] = Snap(Here)
       /\ keyed.sp # undo.sp => Leaves(keyed, Here, Append(snaps, Snap(Here)))
  BY <1>2, <1>9, <1>10, PushKey
<1> HIDE DEF keyed, more
<1>14. CASE keyed.sp = undo.sp
  <2>1. undo' = keyed /\ snaps' = Suffix(snaps, Keys(keyed)) /\ Good(keyed, Here, snaps) /\ ~ Here.open
    BY <1>1, <1>11, <1>13, <1>14
  <2>2. Suffix(snaps, Keys(keyed)) = snaps
    <3>1. Keys(keyed) = Len(snaps)
      BY <2>1, GoodKeys
    <3> QED
      BY <1>12, <3>1, SuffixAll
  <2>3. Good(undo', Here', snaps') /\ Closed(undo', Here')
    BY <1>6, <2>1, <2>2 DEF Closed
  <2>4. UndoOK'
    BY <1>1, <1>2, <2>3, UndoNext
  <2> QED
    BY <1>8, <1>13, <1>14, <2>1, <2>2, <2>4 DEF BufferInv
<1>15. CASE keyed.sp # undo.sp
  <2>1. Leaves(keyed, Here, more) /\ snaps' = Suffix(more, Keys(undo'))
    BY <1>1, <1>13, <1>15 DEF more
  <2>2. Leaves(undo', Here, more) /\ Closed(undo', Here)
    <3>1. CASE mark2 = -1
      <4>1. Keys(keyed) \in 0..Len(more) /\ Good(keyed, Here, Suffix(more, Keys(keyed)))
        BY <2>1 DEF Leaves
      <4>2. Depth(keyed) # 0 /\ IsKey(Top(keyed)) /\ Here.open => m.op = "mark1"
        BY <1>10
      <4>3. Leaves(edit_push_action(keyed, m), Here, Suffix(more, Keys(keyed))) /\ Closed(edit_push_action(keyed, m), Here)
        BY <1>2, <1>9, <1>10, <4>1, <4>2, PushStep
      <4>4. Leaves(edit_push_action(keyed, m), Here, more)
        BY <1>12, <4>1, <4>3, LeavesTwice
      <4> QED
        BY <1>1, <3>1, <4>3, <4>4
    <3>2. CASE mark2 # -1
      <4>1. undo' = keyed /\ ~ Here.open
        BY <1>1, <1>11, <3>2
      <4> QED
        BY <2>1, <4>1 DEF Closed
    <3> QED
      BY <3>1, <3>2
  <2>3. Keys(undo') \in 0..Len(more) /\ Good(undo', Here', snaps')
    BY <1>6, <2>1, <2>2 DEF Leaves
  <2>4. Closed(undo', Here')
    BY <1>6, <2>2
  <2>5. UndoOK'
    BY <1>1, <1>2, <2>3, <2>4, UndoNext
  <2> QED
    BY <1>8, <2>1, <2>3, <2>5 DEF BufferInv, more
<1> QED
  BY <1>14, <1>15

-----------------------------------------------------------------------------
(* Scrolling *)

\* Another first character on the screen, with the lines before it.
LEMMA ScrollOK ==
  ASSUME NEW top, NEW lines, BufferInv, ScrollTo(top, lines), top \in LineStarts,
         start_line + lines = edit_count_lines(text, 0, top)
  PROVE  BufferInv'
<1>1. /\ ~ stack_disable /\ option_max_undo' = option_max_undo /\ stack_disable' = stack_disable
      /\ undo' = undo /\ snaps' = snaps /\ start_display' = top /\ start_line' = start_line + lines
      /\ before' = before /\ after' = after /\ alloc1' = alloc1 /\ alloc2' = alloc2 /\ last_byte' = last_byte
      /\ curs_line' = curs_line /\ total_lines' = total_lines /\ mark1' = mark1 /\ mark2' = mark2
  BY DEF ScrollTo, Step, sideVars, lineVars, markVars
<1>2. /\ option_max_undo \in Nat /\ Good(undo, Here, snaps) /\ Closed(undo, Here) /\ stack_disable \in BOOLEAN
      /\ BufferOK /\ UndoOK
  BY <1>1, UndoIs
<1>3. Parts /\ last_byte \in Nat
  BY <1>2, BufferParts, Bytes
<1>4. Here' = Here /\ curs1' = curs1 /\ curs2' = curs2 /\ text' = text
  BY <1>1 DEF Here, curs1, curs2, text
<1>5. top \in Nat /\ top <= last_byte
  BY <1>3 DEF LineStarts
<1>6. Counts'
  BY <1>1, <1>3, <1>4, <1>5 DEF Parts, Counts, Counted, Lines
<1>7. Parts'
  BY <1>1, <1>3, <1>4, <1>5, <1>6 DEF Parts
<1>8. BufferOK'
  BY <1>7, BufferParts, PTL
<1>9. UndoOK'
  BY <1>1, <1>2, <1>4, UndoNext
<1> QED
  BY <1>8, <1>9 DEF BufferInv

\* What the invariant says of the first line on the screen.
LEMMA TopIs ==
  ASSUME BufferOK
  PROVE  /\ start_display \in Nat /\ start_display <= last_byte /\ start_line = edit_count_lines(text, 0, start_display)
         /\ start_line \in Nat /\ last_byte \in Nat /\ last_byte = Len(text)
<1>1. Parts /\ last_byte \in Nat
  BY BufferParts, Bytes
<1>2. start_display \in Nat /\ start_display <= last_byte /\ start_line = edit_count_lines(text, 0, start_display) /\ last_byte = Len(text)
  BY <1>1 DEF Parts, Counts, Counted, Lines
<1> QED
  BY <1>1, <1>2, LinesType

\* edit_scroll_upward and edit_scroll_downward.
LEMMA UpwardOK ==
  ASSUME BufferInv, edit_scroll_upward
  PROVE  BufferInv'
<1>1. PICK top \in LineStarts : /\ top <= start_display /\ edit_count_lines(text, top, start_display) = 1
                                /\ ScrollTo(top, -1)
  BY DEF edit_scroll_upward
<1>2. /\ start_display \in Nat /\ start_line = edit_count_lines(text, 0, start_display) /\ last_byte \in Nat
  BY TopIs DEF BufferInv
<1>3. top \in Nat /\ 0 \in Int /\ 0 <= top
  BY <1>2 DEF LineStarts
<1>4. edit_count_lines(text, 0, start_display) = edit_count_lines(text, 0, top) + edit_count_lines(text, top, start_display)
  BY <1>1, <1>2, <1>3, LinesAdd
<1>5. edit_count_lines(text, 0, top) \in Nat
  BY <1>3, LinesType
<1>6. start_line + (-1) = edit_count_lines(text, 0, top)
  BY <1>1, <1>2, <1>4, <1>5
<1> QED
  BY <1>1, <1>6, ScrollOK

\* Scrolling down.
LEMMA DownwardOK ==
  ASSUME BufferInv, edit_scroll_downward
  PROVE  BufferInv'
<1>1. PICK top \in LineStarts : /\ top > start_display /\ edit_count_lines(text, start_display, top) = 1
                                /\ ScrollTo(top, 1)
  BY DEF edit_scroll_downward
<1>2. /\ start_display \in Nat /\ start_line = edit_count_lines(text, 0, start_display) /\ last_byte \in Nat
  BY TopIs DEF BufferInv
<1>3. top \in Nat /\ 0 \in Int /\ 0 <= start_display /\ start_display <= top
  BY <1>1, <1>2 DEF LineStarts
<1>4. edit_count_lines(text, 0, top) = edit_count_lines(text, 0, start_display) + edit_count_lines(text, start_display, top)
  BY <1>2, <1>3, LinesAdd
<1>5. start_line + 1 = edit_count_lines(text, 0, top)
  BY <1>1, <1>2, <1>4
<1> QED
  BY <1>1, <1>5, ScrollOK

-----------------------------------------------------------------------------
(* Undo *)

\* The undo begins.
LEMMA BeginUndoOK ==
  ASSUME BufferInv, BeginUndo
  PROVE  BufferInv'
<1>1. /\ option_max_undo' = option_max_undo /\ stack_disable' = TRUE /\ undo' = undo /\ snaps' = snaps
      /\ before' = before /\ after' = after /\ alloc1' = alloc1 /\ alloc2' = alloc2 /\ last_byte' = last_byte
      /\ curs_line' = curs_line /\ total_lines' = total_lines /\ mark1' = mark1 /\ mark2' = mark2
      /\ start_display' = start_display /\ start_line' = start_line
  BY DEF BeginUndo, sideVars, lineVars, topVars, markVars
<1>2. Good(undo, Here, snaps) /\ BufferOK /\ UndoOK
  BY UndoIs
<1>3. Here' = Here /\ curs1' = curs1 /\ curs2' = curs2 /\ text' = text
  BY <1>1 DEF Here, curs1, curs2, text
<1>4. Parts
  BY <1>2, BufferParts
<1>5. Parts'
  BY <1>1, <1>3, <1>4 DEF Parts, Counts
<1>6. BufferOK'
  BY <1>5, BufferParts, PTL
<1>7. UndoOK'
  BY <1>1, <1>2, <1>3, UndoNext
<1> QED
  BY <1>6, <1>7 DEF BufferInv

\* One entry undone takes the buffer where the entry leads.
LEMMA UndoStep ==
  ASSUME NEW e, BufferOK, Can(Here, e), Undo(e)
  PROVE  BufferOK' /\ Here' = Changed(Here, e)
<1>1. BufferOK /\ Length(Here) = last_byte /\ last_byte \in Nat
  BY Bytes
<1>2. CASE e = Right /\ MoveRight
  BY <1>2, MoveRightOK
<1>3. CASE e = Left /\ MoveLeft
  BY <1>3, MoveLeftOK
<1>4. CASE e.op = "backspace" /\ Backspace
  <2>1. e = Entry("backspace", 0)
    BY <1>4 DEF Can, Entry, Left, Right
  <2> QED
    BY <1>4, <2>1, BackspaceOK
<1>5. CASE e.op = "delchar" /\ Delete
  <2>1. e = Entry("delchar", 0)
    BY <1>5 DEF Can, Entry, Left, Right
  <2> QED
    BY <1>5, <2>1, DeleteOK
<1>6. CASE e.op = "ahead" /\ InsertAhead(e.arg)
  <2>1. PICK c \in Char : e = Entry("ahead", c)
    BY <1>6 DEF Can, Entry, Left, Right
  <2>2. e.arg = c
    BY <2>1 DEF Entry
  <2>3. InsertAhead(c)
    BY <1>6, <2>2
  <2> QED
    BY <2>1, <2>3, InsertAheadOK
<1>7. CASE e.op = "insert" /\ Insert(e.arg)
  <2>1. PICK c \in Char : e = Entry("insert", c)
    BY <1>7 DEF Can, Entry, Left, Right
  <2>2. e.arg = c
    BY <2>1 DEF Entry
  <2>3. Insert(c)
    BY <1>7, <2>2
  <2> QED
    BY <2>1, <2>3, InsertOK
<1>8. CASE e.op = "mark1" /\ mark1' = e.arg /\ UNCHANGED <<sideVars, lineVars, topVars, mark2>>
  <2>1. PICK n \in 0..Length(Here) : e = Entry("mark1", n)
    BY <1>8 DEF Can, Entry, Left, Right
  <2>2. n \in Nat /\ n <= last_byte /\ mark1' = n
    BY <1>1, <1>8, <2>1 DEF Entry
  <2>3. /\ before' = before /\ after' = after /\ alloc1' = alloc1 /\ alloc2' = alloc2 /\ last_byte' = last_byte
        /\ curs_line' = curs_line /\ total_lines' = total_lines /\ mark2' = mark2
        /\ start_display' = start_display /\ start_line' = start_line
    BY <1>8 DEF sideVars, lineVars, topVars
  <2>4. Here' = Here /\ curs1' = curs1 /\ curs2' = curs2 /\ text' = text
    BY <2>3 DEF Here, curs1, curs2, text
  <2>5. Parts
    BY BufferParts
  <2>6. Parts'
    BY <2>2, <2>3, <2>4, <2>5 DEF Parts, Counts, Marked
  <2>7. BufferOK'
    BY <2>6, BufferParts, PTL
  <2>8. Changed(Here, e) = Here
    BY <2>1 DEF Changed, Entry
  <2> QED
    BY <2>4, <2>7, <2>8
<1>9. CASE e.op = "mark2" /\ mark2' = e.arg /\ UNCHANGED <<sideVars, lineVars, topVars, mark1>>
  <2>1. PICK n \in (0..Length(Here)) \cup {-1} : e = Entry("mark2", n)
    BY <1>9 DEF Can, Entry, Left, Right
  <2>2. n \in Nat \cup {-1} /\ n <= last_byte /\ mark2' = n /\ e.arg = n
    BY <1>1, <1>9, <2>1 DEF Entry
  <2>3. /\ before' = before /\ after' = after /\ alloc1' = alloc1 /\ alloc2' = alloc2 /\ last_byte' = last_byte
        /\ curs_line' = curs_line /\ total_lines' = total_lines /\ mark1' = mark1
        /\ start_display' = start_display /\ start_line' = start_line
    BY <1>9 DEF sideVars, lineVars, topVars
  <2>4. curs1' = curs1 /\ curs2' = curs2 /\ text' = text
    BY <2>3 DEF curs1, curs2, text
  <2>5. Parts
    BY BufferParts
  <2>6. Parts'
    BY <2>2, <2>3, <2>4, <2>5 DEF Parts, Counts, Marked
  <2>7. BufferOK'
    BY <2>6, BufferParts, PTL
  <2>8. Changed(Here, e) = [b |-> Here.b, a |-> Here.a, open |-> e.arg = -1]
    BY <2>1 DEF Changed, Entry
  <2>9. Changed(Here, e) = [b |-> before, a |-> after, open |-> n = -1]
    BY <2>2, <2>8 DEF Here
  <2>10. Here' = [b |-> before, a |-> after, open |-> n = -1]
    BY <2>2, <2>3 DEF Here
  <2> QED
    BY <2>7, <2>9, <2>10
<1> QED
  BY <1>2, <1>3, <1>4, <1>5, <1>6, <1>7, <1>8, <1>9 DEF Undo

\* There are snapshots if and only if the stack is not empty.
LEMMA SomeKey ==
  ASSUME NEW st, NEW s, NEW sn, Good(st, s, sn), Depth(st) # 0
  PROVE  sn # <<>>
<1>1. Ring(st, option_max_undo) /\ IsKey(Slots(st)[1])
  BY DEF Good
<1> DEFINE d == Depth(st)
           x == Slots(st)
<1>2. d \in Nat /\ 1 \in 1..d
  BY <1>1, SlotsAre
<1> HIDE DEF d, x
<1>3. KeysTo(x, 1) \in 1..KeysTo(x, d)
  BY <1>1, <1>2, KeyAt DEF x
<1>4. Len(sn) = KeysTo(x, d)
  BY DEF Good, Trail, x, d
<1>5. Len(sn) # 0
  BY <1>3, <1>4
<1> QED
  BY <1>5

\* An empty ring has no key press, so nothing is remembered.
LEMMA NoKey ==
  ASSUME NEW st, NEW s, NEW sn, Good(st, s, sn), Depth(st) = 0
  PROVE  sn = <<>>
<1>1. sn \in Seq(Snaps) /\ Len(sn) = KeysTo(Slots(st), Depth(st))
  BY DEF Good, Trail
<1>2. KeysTo(Slots(st), 0) = 0
  BY KeysToIs
<1> QED
  BY <1>1, <1>2

\* A part of the undo.
LEMMA UndoOneOK ==
  ASSUME BufferInv, UndoOne
  PROVE  BufferInv' /\ snaps # <<>>
<1> DEFINE e == Base(undo)
           st == pop_action(undo)
           t == Changed(Here, e)
<1>1. /\ stack_disable /\ stack_disable' = stack_disable /\ option_max_undo' = option_max_undo /\ snaps' = snaps
      /\ Popped(undo).op \notin {"key", "bottom"} /\ Undo(Popped(undo))
      /\ undo' \in {st, Enlarged(st)}
  BY DEF UndoOne, userVars
<1>2. /\ option_max_undo \in Nat /\ Good(undo, Here, snaps) /\ BufferOK /\ UndoOK
  BY UndoIs
<1>3. Depth(undo) # 0
  <2>1. Ring(undo, option_max_undo)
    BY <1>2 DEF Good
  <2>2. Depth(undo) = 0 => undo.sp = undo.bottom
    BY <2>1, Tops
  <2>3. undo.sp = undo.bottom => Popped(undo) = Entry("bottom", 0)
    BY DEF Popped
  <2> QED
    BY <1>1, <2>2, <2>3 DEF Entry
<1>4. Popped(undo) = e /\ Can(Here, e) /\ Good(st, t, Earlier(snaps, e))
  BY <1>2, <1>3, PoppedGood
<1>5. ~ IsKey(e)
  BY <1>1, <1>4 DEF IsKey
<1>6. Good(st, t, snaps)
  BY <1>4, <1>5 DEF Earlier
<1>7. BufferOK' /\ Here' = t
  BY <1>1, <1>2, <1>4, UndoStep
<1>8. snaps # <<>>
  BY <1>2, <1>3, SomeKey
<1> HIDE DEF e, st, t
<1>9. Good(Enlarged(st), t, snaps)
  BY <1>2, <1>6, EnlargedGood
<1>10. Good(undo', Here', snaps')
  BY <1>1, <1>6, <1>7, <1>9
<1>11. UndoOK'
  BY <1>1, <1>2, <1>10, UndoNext
<1> QED
  BY <1>7, <1>8, <1>11 DEF BufferInv

\* The end of the undo.
LEMMA EndUndoOK ==
  ASSUME BufferInv, EndUndo
  PROVE  /\ BufferInv' /\ before' = before /\ after' = after
         /\ \/ snaps = <<>> /\ snaps' = snaps
            \/ snaps # <<>> /\ snaps[Len(snaps)] = Snap(Here) /\ snaps' = SubSeq(snaps, 1, Len(snaps) - 1)
<1>1. /\ stack_disable /\ stack_disable' = FALSE /\ option_max_undo' = option_max_undo
      /\ before' = before /\ after' = after /\ alloc1' = alloc1 /\ alloc2' = alloc2 /\ last_byte' = last_byte
      /\ curs_line' = curs_line /\ total_lines' = total_lines /\ mark1' = mark1 /\ mark2' = mark2
      /\ Popped(undo).op \in {"key", "bottom"}
  BY DEF EndUndo, sideVars, lineVars, markVars
<1>2. /\ option_max_undo \in Nat /\ Good(undo, Here, snaps) /\ BufferOK /\ UndoOK /\ Length(Here) = last_byte
  BY UndoIs
<1>3. Here' = Here /\ curs1' = curs1 /\ curs2' = curs2 /\ text' = text
  BY <1>1 DEF Here, curs1, curs2, text
<1>4. Parts /\ last_byte \in Nat
  BY <1>2, BufferParts, Bytes
<1>5. Ring(undo, option_max_undo) /\ (Depth(undo) = 0 <=> undo.sp = undo.bottom)
  BY <1>2, Tops DEF Good
<1>6. CASE Depth(undo) = 0
  <2>1. Popped(undo) = Entry("bottom", 0)
    BY <1>5, <1>6 DEF Popped
  <2>2. start_display' = start_display /\ start_line' = start_line /\ undo' = undo /\ snaps' = snaps
    BY <2>1 DEF EndUndo, topVars, Entry
  <2>3. Parts'
    BY <1>1, <1>3, <1>4, <2>2 DEF Parts, Counts
  <2>4. BufferOK'
    BY <2>3, BufferParts, PTL
  <2>5. Good(undo', Here', snaps') /\ Closed(undo', Here')
    BY <1>2, <1>3, <1>6, <2>2 DEF Closed
  <2>6. UndoOK'
    BY <1>1, <1>2, <2>5, UndoNext
  <2>7. snaps = <<>>
    BY <1>2, <1>6, NoKey
  <2> QED
    BY <1>1, <2>2, <2>4, <2>6, <2>7 DEF BufferInv
<1>7. CASE Depth(undo) # 0
  <2> DEFINE e == Base(undo)
             st == pop_action(undo)
             t == Changed(Here, e)
             n == e.arg
  <2>1. /\ Popped(undo) = e /\ Can(Here, e) /\ Good(st, t, Earlier(snaps, e))
        /\ IsKey(e) => snaps # <<>> /\ snaps[Len(snaps)] = Snap(Here)
        /\ Depth(st) # 0 /\ IsKey(Top(st)) /\ t.open => e.op = "mark1"
    BY <1>2, <1>7, PoppedGood
  <2>2. e.op = "key" /\ \E k \in 0..Length(Here) : e = Entry("key", k)
    BY <1>1, <2>1 DEF Can, Entry, Left, Right
  <2>3. IsKey(e) /\ n \in 0..last_byte /\ t = Here
    BY <1>2, <2>2 DEF IsKey, Entry, Changed
  <2>4. /\ start_display' = n /\ undo' = st /\ snaps' = SubSeq(snaps, 1, Len(snaps) - 1)
        /\ start_line' = start_line - edit_count_lines(text, n, start_display) + edit_count_lines(text, start_display, n)
    BY <2>1, <2>2 DEF EndUndo
  <2>5. Good(undo', Here', snaps')
    BY <1>3, <2>1, <2>3, <2>4 DEF Earlier
  <2>6. Closed(undo', Here')
    BY <1>3, <2>1, <2>2, <2>3, <2>4 DEF Closed
  <2> HIDE DEF n, e, st, t
  <2>7. /\ start_display \in Nat /\ start_display <= last_byte /\ start_line = edit_count_lines(text, 0, start_display)
        /\ start_line \in Nat
    BY <1>2, TopIs
  <2>8. start_line' = edit_count_lines(text, 0, n)
    <3> DEFINE C(i, j) == edit_count_lines(text, i, j)
    <3>1. n \in Nat /\ n \in Int /\ start_display \in Int /\ 0 \in Int /\ 0 <= n /\ 0 <= start_display
      BY <1>4, <2>3, <2>7
    <3>2. C(n, start_display) \in Nat /\ C(start_display, n) \in Nat /\ C(0, n) \in Nat
      BY <3>1, LinesType
    <3>3. n <= start_display => C(start_display, n) = 0 /\ C(0, start_display) = C(0, n) + C(n, start_display)
      BY <3>1, LinesType, LinesAdd
    <3>4. start_display <= n => C(n, start_display) = 0 /\ C(0, n) = C(0, start_display) + C(start_display, n)
      BY <3>1, LinesType, LinesAdd
    <3>5. start_line = C(0, start_display) /\ start_line' = start_line - C(n, start_display) + C(start_display, n)
      BY <2>4, <2>7
    <3> HIDE DEF C
    <3>6. start_line' = C(0, n)
      BY <2>7, <3>1, <3>2, <3>3, <3>4, <3>5
    <3> QED
      BY <3>6 DEF C
  <2>9. Counts'
    BY <1>1, <1>3, <1>4, <2>3, <2>4, <2>8 DEF Parts, Counts, Counted, Lines
  <2>10. Parts'
    BY <1>1, <1>3, <1>4, <2>3, <2>4, <2>9 DEF Parts
  <2>11. BufferOK'
    BY <2>10, BufferParts, PTL
  <2>12. UndoOK'
    BY <1>1, <1>2, <2>5, <2>6, UndoNext
  <2> QED
    BY <1>1, <2>1, <2>3, <2>4, <2>11, <2>12 DEF BufferInv
<1> QED
  BY <1>6, <1>7

-----------------------------------------------------------------------------
(* Every step keeps the invariant *)

\* A step and what is left of the snapshots after it.
Kept == BufferInv' /\ Leaves(undo', Here', snaps) /\ snaps' = Suffix(snaps, Keys(undo'))

\* An entry that is neither a key press nor a count.
Plain(e) == ~ IsKey(e) /\ ~ IsTimes(e)

\* The entries of the primitives are.
LEMMA EntriesPlain ==
  /\ Plain(Entry("backspace", 0)) /\ Plain(Entry("delchar", 0)) /\ Plain(Left) /\ Plain(Right)
  /\ \A c : Plain(Entry("insert", c)) /\ Plain(Entry("ahead", c))
BY DEF Plain, IsKey, IsTimes, Entry, Left, Right

\* edit_insert, edit_insert_ahead, edit_delete, edit_backspace, edit_cursor_move.
LEMMA PrimitivesKeep ==
  ASSUME BufferInv
  PROVE  /\ \A c \in Char : edit_insert(c) \/ edit_insert_ahead(c) => Kept
         /\ edit_delete \/ edit_backspace \/ edit_cursor_left \/ edit_cursor_right => Kept
<1>1. BufferOK
  BY DEF BufferInv
<1>2. ASSUME NEW c \in Char, edit_insert(c) PROVE Kept
  <2>1. Insert(c) /\ Record(edit_push_action(undo, Entry("backspace", 0)))
    BY <1>2 DEF edit_insert
  <2>2. BufferOK' /\ Can(Here', Entry("backspace", 0)) /\ Changed(Here', Entry("backspace", 0)) = Here
    BY <1>1, <2>1, InsertOK
  <2> QED
    BY <2>1, <2>2, EntriesPlain, RecordedOK DEF Kept, Plain
<1>3. ASSUME NEW c \in Char, edit_insert_ahead(c) PROVE Kept
  <2>1. InsertAhead(c) /\ Record(edit_push_action(undo, Entry("delchar", 0)))
    BY <1>3 DEF edit_insert_ahead
  <2>2. BufferOK' /\ Can(Here', Entry("delchar", 0)) /\ Changed(Here', Entry("delchar", 0)) = Here
    BY <1>1, <2>1, InsertAheadOK
  <2> QED
    BY <2>1, <2>2, EntriesPlain, RecordedOK DEF Kept, Plain
<1>4. ASSUME edit_delete PROVE Kept
  <2> DEFINE e == Entry("ahead", Head(after))
  <2>1. Delete /\ Record(edit_push_action(undo, e))
    BY <1>4 DEF edit_delete
  <2>2. BufferOK' /\ Can(Here', e) /\ Changed(Here', e) = Here
    BY <1>1, <2>1, DeleteOK
  <2>3. Plain(e)
    BY EntriesPlain
  <2> HIDE DEF e
  <2> QED
    BY <2>1, <2>2, <2>3, RecordedOK DEF Kept, Plain
<1>5. ASSUME edit_backspace PROVE Kept
  <2> DEFINE e == Entry("insert", before[curs1])
  <2>1. Backspace /\ Record(edit_push_action(undo, e))
    BY <1>5 DEF edit_backspace
  <2>2. BufferOK' /\ Can(Here', e) /\ Changed(Here', e) = Here
    BY <1>1, <2>1, BackspaceOK
  <2>3. Plain(e)
    BY EntriesPlain
  <2> HIDE DEF e
  <2> QED
    BY <2>1, <2>2, <2>3, RecordedOK DEF Kept, Plain
<1>6. ASSUME edit_cursor_left PROVE Kept
  <2>1. MoveLeft /\ Record(edit_push_action(undo, Right))
    BY <1>6 DEF edit_cursor_left
  <2>2. BufferOK' /\ Can(Here', Right) /\ Changed(Here', Right) = Here
    BY <1>1, <2>1, MoveLeftOK
  <2> QED
    BY <2>1, <2>2, EntriesPlain, RecordedOK DEF Kept, Plain
<1>7. ASSUME edit_cursor_right PROVE Kept
  <2>1. MoveRight /\ Record(edit_push_action(undo, Left))
    BY <1>7 DEF edit_cursor_right
  <2>2. BufferOK' /\ Can(Here', Left) /\ Changed(Here', Left) = Here
    BY <1>1, <2>1, MoveRightOK
  <2> QED
    BY <2>1, <2>2, EntriesPlain, RecordedOK DEF Kept, Plain
<1> QED
  BY <1>2, <1>3, <1>4, <1>5, <1>6, <1>7

\* Nothing changes.
LEMMA BufferStutters == BufferInv /\ UNCHANGED vars => BufferInv'
<1> SUFFICES ASSUME BufferInv, UNCHANGED vars PROVE BufferInv'
  OBVIOUS
<1>1. /\ option_max_undo' = option_max_undo /\ stack_disable' = stack_disable /\ undo' = undo /\ snaps' = snaps
      /\ before' = before /\ after' = after /\ alloc1' = alloc1 /\ alloc2' = alloc2 /\ last_byte' = last_byte
      /\ curs_line' = curs_line /\ total_lines' = total_lines /\ mark1' = mark1 /\ mark2' = mark2
      /\ start_display' = start_display /\ start_line' = start_line
  BY DEF vars, sideVars, lineVars, topVars, markVars, userVars
<1>2. /\ Good(undo, Here, snaps) /\ BufferOK /\ UndoOK /\ stack_disable \in BOOLEAN
      /\ ~ stack_disable => Closed(undo, Here)
  BY UndoIs
<1>3. Here' = Here /\ curs1' = curs1 /\ curs2' = curs2 /\ text' = text
  BY <1>1 DEF Here, curs1, curs2, text
<1>4. Parts
  BY <1>2, BufferParts
<1>5. Parts'
  BY <1>1, <1>3, <1>4 DEF Parts, Counts
<1>6. BufferOK'
  BY <1>5, BufferParts, PTL
<1>7. Good(undo', Here', snaps') /\ (~ stack_disable' => Closed(undo', Here')) /\ stack_disable' \in BOOLEAN
  BY <1>1, <1>2, <1>3
<1>8. UndoOK'
  BY <1>1, <1>2, <1>7, UndoNext
<1> QED
  BY <1>6, <1>8 DEF BufferInv

\* Every step keeps the invariant.
LEMMA BufferKeeps == BufferInv /\ [Next]_vars => BufferInv'
<1> SUFFICES ASSUME BufferInv, [Next]_vars PROVE BufferInv'
  OBVIOUS
<1>1. ASSUME NEW c \in Char, edit_insert(c) \/ edit_insert_ahead(c) PROVE BufferInv'
  BY <1>1, PrimitivesKeep DEF Kept
<1>2. CASE edit_delete \/ edit_backspace \/ edit_cursor_left \/ edit_cursor_right
  BY <1>2, PrimitivesKeep DEF Kept
<1>3. CASE edit_mark_cmd(TRUE) \/ edit_mark_cmd(FALSE)
  <2>1. TRUE \in BOOLEAN /\ FALSE \in BOOLEAN
    OBVIOUS
  <2> QED
    BY <1>3, <2>1, MarkOK
<1>4. CASE edit_push_key_press
  BY <1>4, KeyPressOK
<1>5. CASE edit_scroll_upward
  BY <1>5, UpwardOK
<1>6. CASE edit_scroll_downward
  BY <1>6, DownwardOK
<1>7. CASE BeginUndo
  BY <1>7, BeginUndoOK
<1>8. CASE UndoOne
  BY <1>8, UndoOneOK
<1>9. CASE EndUndo
  BY <1>9, EndUndoOK
<1>10. CASE UNCHANGED vars
  BY <1>10, BufferStutters
<1> QED
  BY <1>1, <1>2, <1>3, <1>4, <1>5, <1>6, <1>7, <1>8, <1>9, <1>10 DEF Next

\* So it always holds.
LEMMA BufferAlways == Spec => []BufferInv
<1>1. Init => BufferInv
  BY BufferStarts
<1>2. BufferInv /\ [Next]_vars => BufferInv'
  BY BufferKeeps
<1> QED
  BY <1>1, <1>2, PTL DEF Spec

-----------------------------------------------------------------------------
(* The theorems of the runs *)

\* The variables of the buffer keep their types: the text, the blocks, the counters, the marks and the
\* undo ring, whose pointers stay in it while it wraps, grows and forgets, whatever is edited and undone
\* (edit.c:695-814).
THEOREM BufferTyped == Spec => []TypeOK
<1>1. BufferInv => TypeOK
  <2> SUFFICES ASSUME BufferInv PROVE TypeOK
    OBVIOUS
  <2>1. Parts /\ stack_disable \in BOOLEAN /\ Good(undo, Here, snaps) /\ BufferOK
    BY UndoIs, BufferParts
  <2>2. /\ before \in Seq(Char) /\ after \in Seq(Char) /\ start_display \in Nat
        /\ alloc1 = Under(curs1) /\ alloc2 = Upto(curs2) /\ mark1 \in Nat /\ mark2 \in Nat \cup {-1}
    BY <2>1 DEF Parts, Marked
  <2>3. last_byte \in Nat /\ curs1 \in Nat /\ curs2 \in Nat /\ curs2 <= SizeLimit
    BY <2>1, Bytes
  <2>4. curs_line \in Nat /\ total_lines \in Nat /\ start_line \in Nat
    BY <2>1, LineCounts
  <2>5. alloc1 \subseteq 0..MaxBuff
    BY <2>2 DEF Under
  <2>6. alloc2 \subseteq 0..MaxBuff
    <3>1. curs2 \div BufSize \in Nat /\ curs2 \div BufSize <= MaxBuff
      BY <2>3, BlockEdge
    <3> DEFINE q == curs2 \div BufSize
    <3>2. alloc2 = 0..q
      BY <2>2 DEF Upto
    <3> HIDE DEF q
    <3>3. MaxBuff \in Nat /\ q \in Nat /\ q <= MaxBuff
      BY <3>1, Bounds DEF q
    <3> QED
      BY <3>2, <3>3
  <2>7. {undo.sp, undo.bottom} \subseteq DOMAIN undo.ring
    <3>1. Ring(undo, option_max_undo)
      BY <2>1 DEF Good
    <3> QED
      BY <3>1 DEF Ring
  <2> QED
    BY <2>1, <2>2, <2>3, <2>4, <2>5, <2>6, <2>7 DEF TypeOK
<1> QED
  BY <1>1, BufferAlways, PTL

\* After every insertion, deletion, move, mark, scroll and undo each side of the cursor has the blocks its
\* bytes need and no other, the counters of bytes and lines and the line on top of the screen are those of
\* the text, and the marks are in it (edit.c:833-1162).
THEOREM BufferAlwaysConsistent == Spec => []BufferConsistent
<1>1. BufferInv => BufferConsistent
  BY DEF BufferInv, BufferOK
<1> QED
  BY <1>1, BufferAlways, PTL

-----------------------------------------------------------------------------
(* The blocks of a saved file *)

\* The characters of s after place m, up to place n.
Cut(s, m, n) == SubSeq(s, m + 1, n)

\* Two pieces side by side are one.
Then(u, v) == u \o v

\* They do.
LEMMA CutsJoin ==
  ASSUME NEW s, NEW k, NEW m, NEW n, s \in Seq(Char), k \in Nat, m \in Nat, n \in Nat, k <= m, m <= n, n <= Len(s)
  PROVE  Then(Cut(s, k, m), Cut(s, m, n)) = Cut(s, k, n) /\ Cut(s, k, n) \in Seq(Char)
<1> DEFINE u == Cut(s, k, m)
           v == Cut(s, m, n)
           w == Cut(s, k, n)
<1>1. u \in Seq(Char) /\ Len(u) = m - k /\ \A i \in 1..m - k : u[i] = s[i + k]
  <2>1. \A i \in 1..m - k : (k + 1) + i - 1 = i + k
    OBVIOUS
  <2> QED
    BY <2>1 DEF Cut
<1>2. v \in Seq(Char) /\ Len(v) = n - m /\ \A i \in 1..n - m : v[i] = s[i + m]
  <2>1. \A i \in 1..n - m : (m + 1) + i - 1 = i + m
    OBVIOUS
  <2> QED
    BY <2>1 DEF Cut
<1>3. w \in Seq(Char) /\ Len(w) = n - k /\ \A i \in 1..n - k : w[i] = s[i + k]
  <2>1. \A i \in 1..n - k : (k + 1) + i - 1 = i + k
    OBVIOUS
  <2> QED
    BY <2>1 DEF Cut
<1> HIDE DEF u, v, w
<1> DEFINE z == u \o v
<1>4. z \in Seq(Char) /\ Len(z) = n - k
  <2>1. u \in Seq(Char) /\ v \in Seq(Char)
    BY <1>1, <1>2
  <2>2. z \in Seq(Char) /\ Len(z) = Len(u) + Len(v)
    BY <2>1
  <2> HIDE DEF z
  <2>3. Len(u) = m - k /\ Len(v) = n - m
    BY <1>1, <1>2
  <2>4. (m - k) + (n - m) = n - k
    OBVIOUS
  <2> QED
    BY <2>2, <2>3, <2>4
<1> HIDE DEF z
<1>5. ASSUME NEW i \in 1..n - k PROVE z[i] = w[i]
  <2>1. CASE i <= m - k
    <3>1. z[i] = u[i]
      <4>1. Len(u) = m - k /\ i \in Nat /\ i >= 1 /\ i <= Len(u) /\ u \in Seq(Char) /\ v \in Seq(Char)
        BY <1>1, <1>2, <2>1
      <4> QED
        BY <4>1 DEF z
    <3> QED
      BY <1>1, <1>3, <2>1, <3>1
  <2>2. CASE i > m - k
    <3> DEFINE j == i - (m - k)
    <3>1. j \in 1..n - m /\ j + m = i + k
      BY <2>2
    <3>2. z[i] = v[j]
      <4>1. Len(u) = m - k /\ i \in Nat /\ i <= Len(u) + Len(v) /\ i > Len(u)
        BY <1>1, <1>2, <2>2
      <4>2. u \in Seq(Char) /\ v \in Seq(Char)
        BY <1>1, <1>2
      <4>3. (u \o v)[i] = v[i - Len(u)]
        BY <4>1, <4>2
      <4> QED
        BY <4>1, <4>3 DEF z
    <3> HIDE DEF j
    <3> QED
      BY <1>2, <1>3, <3>1, <3>2
  <2> QED
    BY <2>1, <2>2
<1>6. z = w
  BY <1>3, <1>4, <1>5, SeqEqual
<1> QED
  BY <1>3, <1>6 DEF z, u, v, w, Then

\* Nothing, and everything.
LEMMA CutEnds ==
  ASSUME NEW s, NEW k, s \in Seq(Char), k \in Nat
  PROVE  Cut(s, k, k) = <<>> /\ Cut(s, 0, Len(s)) = s
<1>1. Cut(s, k, k) = <<>>
  BY DEF Cut
<1> DEFINE n == Len(s)
           w == Cut(s, 0, n)
<1>2. n \in Nat /\ w \in Seq(Char) /\ Len(w) = n /\ \A i \in 1..n : w[i] = s[i]
  BY DEF Cut
<1> HIDE DEF w
<1>3. w = s
  BY <1>2, SeqEqual
<1> QED
  BY <1>1, <1>3 DEF w

\* The end of the i-th piece of m characters after place k.
Edge(k, m, i) == k + i * m

\* They come one after another.
LEMMA EdgesUp ==
  ASSUME NEW k, NEW m, k \in Nat, m \in Nat \ {0}
  PROVE  /\ Edge(k, m, 0) = k
         /\ \A i \in Nat : Edge(k, m, i) \in Nat /\ k <= Edge(k, m, i) /\ Edge(k, m, i + 1) = Edge(k, m, i) + m
         /\ \A i, j \in Nat : i <= j => Edge(k, m, i) <= Edge(k, m, j)
<1>1. Edge(k, m, 0) = k
  BY DEF Edge
<1>2. ASSUME NEW i \in Nat PROVE Edge(k, m, i) \in Nat /\ k <= Edge(k, m, i) /\ Edge(k, m, i + 1) = Edge(k, m, i) + m
  <2>1. i * m \in Nat /\ (i + 1) * m = i * m + m
    OBVIOUS
  <2> DEFINE x == i * m
  <2>2. Edge(k, m, i) = k + x /\ Edge(k, m, i + 1) = k + (x + m) /\ x \in Nat
    BY <2>1 DEF Edge
  <2> HIDE DEF x
  <2> QED
    BY <2>2
<1>3. ASSUME NEW i \in Nat, NEW j \in Nat, i <= j PROVE Edge(k, m, i) <= Edge(k, m, j)
  <2>1. CASE i = j
    BY <1>2, <2>1
  <2>2. CASE i < j
    <3> DEFINE x == i * m
               y == j * m
    <3>1. x + m <= y
      BY <2>2, Multiples
    <3>2. x \in Nat /\ y \in Nat /\ Edge(k, m, i) = k + x /\ Edge(k, m, j) = k + y
      BY DEF Edge
    <3> HIDE DEF x, y
    <3> QED
      BY <3>1, <3>2
  <2> QED
    BY <1>3, <2>1, <2>2
<1> QED
  BY <1>1, <1>2, <1>3

\* Pieces joined one after another.
Joining(c, s, k, m, n) ==
  c[0] = <<>> /\ \A i \in 0..n - 1 : c[i + 1] = Then(c[i], Cut(s, Edge(k, m, i), Edge(k, m, i + 1)))

\* What has been joined so far is the part of s that the pieces come from.
LEMMA PiecesJoin ==
  ASSUME NEW s, NEW k, NEW m, NEW n, NEW c, s \in Seq(Char), k \in Nat, m \in Nat \ {0}, n \in Nat, Edge(k, m, n) <= Len(s),
         Joining(c, s, k, m, n)
  PROVE  c[n] = Cut(s, k, Edge(k, m, n))
<1> DEFINE Wrong == {i \in 0..n : c[i] # Cut(s, k, Edge(k, m, i))}
<1>1. SUFFICES ASSUME Wrong # {} PROVE FALSE
  BY <1>1
<1>2. PICK i \in Wrong : \A j \in Wrong : i <= j
  <2>1. Wrong \subseteq Nat
    OBVIOUS
  <2> HIDE DEF Wrong
  <2> QED
    BY <1>1, <2>1, LeastOf
<1>3. i \in 0..n /\ c[i] # Cut(s, k, Edge(k, m, i))
  OBVIOUS
<1>4. Edge(k, m, 0) = k
  BY EdgesUp
<1>5. i # 0
  BY <1>3, <1>4, CutEnds DEF Joining
<1> DEFINE j == i - 1
<1>6. j \in 0..n - 1 /\ j \in 0..n /\ j + 1 = i /\ ~ (i <= j)
  BY <1>3, <1>5
<1>7. c[j] = Cut(s, k, Edge(k, m, j))
  BY <1>2, <1>6
<1> HIDE DEF j, Wrong
<1>8. c[i] = Then(c[j], Cut(s, Edge(k, m, j), Edge(k, m, i)))
  BY <1>6 DEF Joining
<1>9. /\ Edge(k, m, j) \in Nat /\ Edge(k, m, i) \in Nat /\ Edge(k, m, n) \in Nat
      /\ k <= Edge(k, m, j) /\ Edge(k, m, j) <= Edge(k, m, i) /\ Edge(k, m, i) <= Edge(k, m, n)
  <2>1. j \in Nat /\ i \in Nat /\ n \in Nat /\ j <= i /\ i <= n
    BY <1>3, <1>6
  <2> QED
    BY <2>1, EdgesUp
<1>10. Edge(k, m, i) <= Len(s)
  <2>1. Len(s) \in Nat
    OBVIOUS
  <2> QED
    BY <1>9, <2>1
<1>11. Then(Cut(s, k, Edge(k, m, j)), Cut(s, Edge(k, m, j), Edge(k, m, i))) = Cut(s, k, Edge(k, m, i))
  BY <1>9, <1>10, CutsJoin
<1> QED
  BY <1>3, <1>7, <1>8, <1>11

\* The function that joins them step by step.
Joins(g, s, k, m, n) ==
  [i \in 0..n |-> IF i = 0 THEN <<>> ELSE Then(g[i - 1], Cut(s, Edge(k, m, i - 1), Edge(k, m, i)))]
IsJoin(c, s, k, m, n) == c = Joins(c, s, k, m, n)

\* There is one, and it gives the part of s that the pieces come from.
LEMMA JoinsIs ==
  ASSUME NEW s, NEW k, NEW m, NEW n, s \in Seq(Char), k \in Nat, m \in Nat \ {0}, n \in Nat, Edge(k, m, n) <= Len(s)
  PROVE  /\ \E g : IsJoin(g, s, k, m, n)
         /\ \A c : IsJoin(c, s, k, m, n) => c[n] = Cut(s, k, Edge(k, m, n))
<1> DEFINE w == [i \in 0..n |-> Cut(s, k, Edge(k, m, i))]
<1>1. Len(s) \in Nat
  OBVIOUS
<1>2. /\ Edge(k, m, 0) = k
      /\ \A i \in Nat : Edge(k, m, i) \in Nat /\ k <= Edge(k, m, i)
      /\ \A i, j \in Nat : i <= j => Edge(k, m, i) <= Edge(k, m, j)
  BY EdgesUp
<1>3. ASSUME NEW i \in 1..n PROVE Cut(s, k, Edge(k, m, i)) = Then(Cut(s, k, Edge(k, m, i - 1)), Cut(s, Edge(k, m, i - 1), Edge(k, m, i)))
  <2> DEFINE j == i - 1
  <2>1. j \in Nat /\ i \in Nat /\ j <= i /\ i <= n
    OBVIOUS
  <2> HIDE DEF j
  <2>2. /\ Edge(k, m, j) \in Nat /\ k <= Edge(k, m, j) /\ Edge(k, m, i) \in Nat /\ Edge(k, m, j) <= Edge(k, m, i)
        /\ Edge(k, m, i) <= Edge(k, m, n) /\ Edge(k, m, n) \in Nat
    BY <1>2, <2>1
  <2>3. Edge(k, m, i) <= Len(s)
    BY <1>1, <2>2
  <2>4. Then(Cut(s, k, Edge(k, m, j)), Cut(s, Edge(k, m, j), Edge(k, m, i))) = Cut(s, k, Edge(k, m, i))
    BY <2>2, <2>3, CutsJoin
  <2> QED
    BY <2>4 DEF j
<1>4. IsJoin(w, s, k, m, n)
  <2>1. w[0] = <<>>
    BY <1>2, CutEnds
  <2>2. ASSUME NEW i \in 1..n PROVE w[i] = Then(w[i - 1], Cut(s, Edge(k, m, i - 1), Edge(k, m, i)))
    <3>1. i - 1 \in 0..n /\ i \in 0..n
      OBVIOUS
    <3> QED
      BY <1>3, <3>1
  <2>3. w = [i \in 0..n |-> w[i]]
    OBVIOUS
  <2> HIDE DEF w
  <2>4. ASSUME NEW i \in 0..n
        PROVE w[i] = IF i = 0 THEN <<>> ELSE Then(w[i - 1], Cut(s, Edge(k, m, i - 1), Edge(k, m, i)))
    <3>1. CASE i = 0
      BY <2>1, <3>1
    <3>2. CASE i # 0
      <4>1. i \in 1..n
        BY <3>2
      <4> QED
        BY <2>2, <3>2, <4>1
    <3> QED
      BY <3>1, <3>2
  <2> QED
    BY <2>3, <2>4 DEF Joins, IsJoin
<1>5. ASSUME NEW c, IsJoin(c, s, k, m, n) PROVE c[n] = Cut(s, k, Edge(k, m, n))
  <2>1. c[0] = <<>>
    BY <1>5 DEF Joins, IsJoin
  <2>2. ASSUME NEW i \in 0..n - 1 PROVE c[i + 1] = Then(c[i], Cut(s, Edge(k, m, i), Edge(k, m, i + 1)))
    <3>1. i + 1 \in 0..n /\ i + 1 # 0 /\ (i + 1) - 1 = i
      OBVIOUS
    <3> QED
      BY <1>5, <3>1 DEF Joins, IsJoin
  <2>3. Joining(c, s, k, m, n)
    BY <2>1, <2>2 DEF Joining
  <2> QED
    BY <2>3, PiecesJoin
<1> HIDE DEF w
<1> QED
  BY <1>4, <1>5

\* The first side.
LEMMA WrittenBefore ==
  ASSUME BufferOK
  PROVE  Concat(curs1 \div BufSize, LAMBDA i : Block1(i - 1, BufSize))
           \o Block1(curs1 \div BufSize, curs1 % BufSize) = before
<1> DEFINE n == curs1 \div BufSize
           r == curs1 % BufSize
           F(g) == [i \in 0..n |-> IF i = 0 THEN <<>> ELSE g[i - 1] \o Block1(i - 1, BufSize)]
           c == CHOOSE g : g = F(g)
<1>1. before \in Seq(Char) /\ curs1 \in Nat /\ curs1 = Len(before) /\ BufSize \in Nat \ {0} /\ 0 \in Nat
  BY BufferParts, Bytes, Bounds DEF Parts, curs1
<1>2. n \in Nat /\ r \in Nat /\ curs1 = n * BufSize + r
  <2>1. n \in Nat
    BY <1>1, BlockEdge
  <2>2. r \in 0..BufSize - 1 /\ curs1 = n * BufSize + r
    BY <1>1, Division
  <2> QED
    BY <1>1, <2>1, <2>2
<1>3. before \in Seq(Char) /\ BufSize \in Nat \ {0} /\ n \in Nat
  BY <1>1, <1>2
<1>4. Concat(n, LAMBDA i : Block1(i - 1, BufSize)) = c[n]
  BY DEF Concat
<1> HIDE DEF n, r
<1>5. Edge(0, BufSize, n) = n * BufSize /\ n * BufSize \in Nat /\ n * BufSize <= Len(before)
  <2>1. n * BufSize \in Nat
    BY <1>1, <1>2
  <2> DEFINE x == n * BufSize
  <2>2. Edge(0, BufSize, n) = 0 + x
    BY DEF Edge
  <2>3. curs1 = x + r
    BY <1>2
  <2> HIDE DEF x
  <2>4. x \in Nat
    BY <2>1 DEF x
  <2>5. Edge(0, BufSize, n) = x /\ x <= Len(before)
    BY <1>1, <1>2, <2>2, <2>3, <2>4
  <2> QED
    BY <2>4, <2>5 DEF x
<1>6. ASSUME NEW i \in 1..n PROVE Block1(i - 1, BufSize) = Cut(before, Edge(0, BufSize, i - 1), Edge(0, BufSize, i))
  <2> DEFINE j == i - 1
  <2>1. j \in Nat /\ j + 1 = i
    BY <1>2
  <2> HIDE DEF j
  <2>2. Edge(0, BufSize, j + 1) = Edge(0, BufSize, j) + BufSize /\ Edge(0, BufSize, j) \in Nat
    BY <1>1, <2>1, EdgesUp
  <2>3. Edge(0, BufSize, j) = j * BufSize
    <3>1. j * BufSize \in Nat
      BY <1>1, <2>1
    <3> QED
      BY <3>1 DEF Edge
  <2>4. Block1(j, BufSize) = SubSeq(before, j * BufSize + 1, j * BufSize + BufSize)
    BY DEF Block1
  <2>5. Block1(j, BufSize) = Cut(before, Edge(0, BufSize, j), Edge(0, BufSize, i))
    BY <2>1, <2>2, <2>3, <2>4 DEF Cut
  <2> QED
    BY <2>5 DEF j
<1>7. \A g : F(g) = Joins(g, before, 0, BufSize, n)
  BY <1>6 DEF Joins, Then
<1> HIDE DEF F
<1>8. \E g : g = F(g)
  BY <1>1, <1>2, <1>5, <1>7, JoinsIs DEF IsJoin
<1>9. c = F(c)
  BY <1>8
<1> HIDE DEF c
<1>10. c[n] = Cut(before, 0, Edge(0, BufSize, n))
  <2>1. IsJoin(c, before, 0, BufSize, n)
    BY <1>7, <1>9 DEF IsJoin
  <2>2. Edge(0, BufSize, n) <= Len(before)
    BY <1>5
  <2> QED
    BY <1>3, <2>1, <2>2, JoinsIs
<1>11. Block1(n, r) = Cut(before, n * BufSize, Len(before))
  BY <1>1, <1>2 DEF Block1, Cut
<1>12. c[n] \o Block1(n, r) = before
  <2> DEFINE x == n * BufSize
  <2>1. c[n] = Cut(before, 0, x) /\ Block1(n, r) = Cut(before, x, Len(before)) /\ x \in Nat /\ x <= Len(before) /\ 0 <= x
    BY <1>5, <1>10, <1>11
  <2> HIDE DEF x
  <2>2. Then(Cut(before, 0, x), Cut(before, x, Len(before))) = Cut(before, 0, Len(before))
    BY <1>1, <2>1, CutsJoin
  <2>3. Cut(before, 0, Len(before)) = before
    BY <1>1, CutEnds
  <2> QED
    <3>1. Then(c[n], Block1(n, r)) = before
      BY <2>1, <2>2, <2>3
    <3> QED
      BY <3>1 DEF Then
<1> QED
  BY <1>4, <1>12 DEF n, r

\* The second side, whose last block is written first.
LEMMA WrittenAfter ==
  ASSUME BufferOK, curs2 # 0
  PROVE  Block2((curs2 - 1) \div BufSize, InLastBlock2)
           \o Concat((curs2 - 1) \div BufSize, LAMBDA i : Block2((curs2 - 1) \div BufSize - i, BufSize)) = after
<1> DEFINE l == curs2 - 1
           n == l \div BufSize
           k == 1 + (l % BufSize)
           F(g) == [i \in 0..n |-> IF i = 0 THEN <<>> ELSE g[i - 1] \o Block2(n - i, BufSize)]
           c == CHOOSE g : g = F(g)
<1>1. after \in Seq(Char) /\ curs2 \in Nat /\ curs2 = Len(after) /\ BufSize \in Nat \ {0} /\ l \in Nat /\ curs2 = l + 1
  BY BufferParts, Bytes, Bounds DEF Parts, curs2
<1>2. n \in Nat /\ k \in Nat /\ curs2 = k + n * BufSize /\ n * BufSize \in Nat
  <2> DEFINE r == l % BufSize
             x == n * BufSize
  <2> HIDE DEF l
  <2>1. n \in Nat
    BY <1>1, BlockEdge
  <2>2. r \in 0..BufSize - 1 /\ l = x + r
    BY <1>1, Division
  <2>3. x \in Nat
    BY <1>1, <2>1
  <2>4. r \in Nat /\ k = 1 + r
    BY <1>1, <2>2
  <2> HIDE DEF r, x, k, n
  <2>5. k \in Nat /\ curs2 = k + x
    BY <1>1, <2>2, <2>3, <2>4
  <2> QED
    BY <2>1, <2>3, <2>5 DEF x
<1>3. after \in Seq(Char) /\ BufSize \in Nat \ {0} /\ n \in Nat /\ k \in Nat
  BY <1>1, <1>2
<1>4. Concat(n, LAMBDA i : Block2(n - i, BufSize)) = c[n]
  BY DEF Concat
<1>5. InLastBlock2 = k
  BY DEF InLastBlock2
<1> HIDE DEF l, n, k
<1>6. Edge(k, BufSize, n) = Len(after) /\ Edge(k, BufSize, n) = curs2
  BY <1>1, <1>2 DEF Edge
<1>7. ASSUME NEW i \in 0..n PROVE curs2 - (n - i) * BufSize = Edge(k, BufSize, i)
  <2> DEFINE x == n * BufSize
             y == i * BufSize
             z == (n - i) * BufSize
  <2>1. x \in Nat /\ y \in Nat /\ z \in Nat /\ z = x - y
    BY <1>1, <1>2
  <2>2. Edge(k, BufSize, i) = k + y /\ curs2 = k + x
    BY <1>2 DEF Edge
  <2> HIDE DEF x, y, z
  <2>3. curs2 - z = Edge(k, BufSize, i)
    <3> HIDE DEF k
    <3>1. curs2 - z = k + y
      BY <1>3, <2>1, <2>2
    <3> QED
      BY <2>2, <3>1
  <2> QED
    BY <2>3 DEF z
<1>8. ASSUME NEW i \in 1..n PROVE Block2(n - i, BufSize) = Cut(after, Edge(k, BufSize, i - 1), Edge(k, BufSize, i))
  <2> DEFINE j == i - 1
  <2>1. j \in Nat /\ j + 1 = i /\ i \in 0..n
    BY <1>2
  <2> HIDE DEF j
  <2>2. Edge(k, BufSize, j + 1) = Edge(k, BufSize, j) + BufSize /\ Edge(k, BufSize, j) \in Nat
    BY <1>3, <2>1, EdgesUp
  <2>3. Edge(k, BufSize, i) = Edge(k, BufSize, j) + BufSize /\ Edge(k, BufSize, i) \in Int /\ BufSize \in Nat
    BY <1>1, <2>1, <2>2
  <2>4. curs2 - (n - i) * BufSize = Edge(k, BufSize, i)
    BY <1>7, <2>1
  <2> DEFINE last == curs2 - (n - i) * BufSize
  <2>5. Block2(n - i, BufSize) = SubSeq(after, last - BufSize + 1, last)
    BY DEF Block2
  <2> HIDE DEF last
  <2>6. last = Edge(k, BufSize, i)
    BY <2>4 DEF last
  <2>7. last - BufSize + 1 = Edge(k, BufSize, j) + 1
    BY <2>2, <2>3, <2>6
  <2>8. Block2(n - i, BufSize) = SubSeq(after, Edge(k, BufSize, j) + 1, Edge(k, BufSize, i))
    BY <2>5, <2>6, <2>7
  <2> QED
    BY <2>8 DEF Cut, j
<1>9. \A g : F(g) = Joins(g, after, k, BufSize, n)
  BY <1>8 DEF Joins, Then
<1> HIDE DEF F
<1>10. Edge(k, BufSize, n) <= Len(after)
  BY <1>1, <1>6
<1>11. \E g : g = F(g)
  BY <1>1, <1>2, <1>9, <1>10, JoinsIs DEF IsJoin
<1>12. c = F(c)
  BY <1>11
<1> HIDE DEF c
<1>13. c[n] = Cut(after, k, Edge(k, BufSize, n))
  <2>1. IsJoin(c, after, k, BufSize, n)
    BY <1>9, <1>12 DEF IsJoin
  <2> QED
    BY <1>3, <1>10, <2>1, JoinsIs
<1>14. Block2(n, k) = Cut(after, 0, k)
  <2> DEFINE last == curs2 - n * BufSize
  <2>1. Block2(n, k) = SubSeq(after, last - k + 1, last)
    BY DEF Block2
  <2> DEFINE x == n * BufSize
  <2>2. last = curs2 - x /\ curs2 = k + x /\ x \in Nat
    BY <1>2
  <2> HIDE DEF last, x
  <2>3. last = k /\ last - k + 1 = 0 + 1
    BY <1>1, <1>2, <2>2
  <2>4. Block2(n, k) = SubSeq(after, 0 + 1, k)
    BY <2>1, <2>3
  <2> QED
    BY <2>4 DEF Cut
<1>15. Then(Block2(n, k), c[n]) = after
  <2>1. k <= Len(after) /\ 0 <= k /\ Len(after) \in Nat
    <3>1. k <= Edge(k, BufSize, n)
      BY <1>3, EdgesUp
    <3>2. Len(after) \in Nat
      BY <1>3
    <3> QED
      BY <1>3, <1>6, <3>1, <3>2
  <2>2. Then(Cut(after, 0, k), Cut(after, k, Len(after))) = Cut(after, 0, Len(after))
    BY <1>3, <2>1, CutsJoin
  <2>3. Cut(after, 0, Len(after)) = after
    BY <1>1, CutEnds
  <2>4. c[n] = Cut(after, k, Len(after))
    BY <1>6, <1>13
  <2> QED
    BY <1>14, <2>2, <2>3, <2>4
<1>16. Block2(n, InLastBlock2) \o Concat(n, LAMBDA i : Block2(n - i, BufSize)) = Then(Block2(n, k), c[n])
  BY <1>4, <1>5 DEF Then
<1>17. Block2(n, InLastBlock2) \o Concat(n, LAMBDA i : Block2(n - i, BufSize)) = after
  BY <1>15, <1>16
<1> QED
  BY <1>17 DEF n, l

\* The blocks edit_save_file writes, those of the first side forwards and those of the second backwards
\* from a partial one, are together the text, for every block size and every place of the cursor
\* (editcmd.c:300-337).
THEOREM SaveIsAlwaysWhole == Spec => []SaveIsWhole
<1>1. BufferInv => SaveIsWhole
  <2> SUFFICES ASSUME BufferInv PROVE SaveIsWhole
    OBVIOUS
  <2>1. BufferOK
    BY DEF BufferInv
  <2> DEFINE u == Concat(curs1 \div BufSize, LAMBDA i : Block1(i - 1, BufSize))
                    \o Block1(curs1 \div BufSize, curs1 % BufSize)
             v == Block2((curs2 - 1) \div BufSize, InLastBlock2)
                    \o Concat((curs2 - 1) \div BufSize, LAMBDA i : Block2((curs2 - 1) \div BufSize - i, BufSize))
  <2>2. u = before
    BY <2>1, WrittenBefore
  <2>3. curs2 # 0 => v = after
    BY <2>1, WrittenAfter
  <2>4. curs2 = 0 => after = <<>>
    <3>1. after \in Seq(Char)
      BY <2>1 DEF BufferOK
    <3> QED
      BY <3>1 DEF curs2
  <2>5. Written = u \o IF curs2 = 0 THEN <<>> ELSE v
    BY DEF Written
  <2> HIDE DEF u, v
  <2>6. Written = before \o after
    BY <2>2, <2>3, <2>4, <2>5
  <2> QED
    BY <2>6 DEF SaveIsWhole, text
<1> QED
  BY <1>1, BufferAlways, PTL

-----------------------------------------------------------------------------
(* The abstract editor *)

\* A text cut at a place, and with the character there taken out.
LEMMA TextCut ==
  ASSUME NEW b, NEW a, NEW c, b \in Seq(Char), a \in Seq(Char), c \in Char
  PROVE  LET s == b \o a
             t == Append(b, c) \o a
             p == Len(b)
         IN /\ Len(s) = p + Len(a) /\ Len(t) = Len(s) + 1
            /\ SubSeq(s, 1, p) = b /\ SubSeq(s, p + 1, Len(s)) = a
            /\ SubSeq(t, 1, p) = b /\ SubSeq(t, p + 2, Len(t)) = a
<1> DEFINE s == b \o a
           t == Append(b, c) \o a
           p == Len(b)
           n == Len(a)
<1>1. /\ s \in Seq(Char) /\ t \in Seq(Char) /\ Len(s) = p + n /\ Len(t) = Len(s) + 1
      /\ \A i \in 1..p : s[i] = b[i] /\ t[i] = b[i]
      /\ \A i \in 1..n : s[i + p] = a[i] /\ t[i + p + 1] = a[i]
  BY OneMore
<1>2. p \in Nat /\ n \in Nat
  OBVIOUS
<1> HIDE DEF s, t, n, p
<1>3. ASSUME NEW w, w \in Seq(Char), p <= Len(w), \A i \in 1..p : w[i] = b[i] PROVE SubSeq(w, 1, p) = b
  <2>1. Len(w) \in Nat
    BY <1>3
  <2>2. SubSeq(w, 1, p) \in Seq(Char) /\ Len(SubSeq(w, 1, p)) = p /\ \A i \in 1..p : SubSeq(w, 1, p)[i] = w[i]
    BY <1>2, <1>3, <2>1
  <2>3. Len(b) = p
    BY DEF p
  <2> QED
    BY <1>3, <2>2, <2>3, SeqEqual
<1>4. ASSUME NEW w, NEW m, w \in Seq(Char), m \in Nat, Len(w) = m + n, \A i \in 1..n : w[i + m] = a[i]
      PROVE SubSeq(w, m + 1, Len(w)) = a
  <2> DEFINE v == SubSeq(w, m + 1, Len(w))
  <2>1. Len(w) \in Nat /\ m + 1 \in 1..Len(w) + 1
    BY <1>2, <1>4
  <2>2. v \in Seq(Char)
    BY <1>4, <2>1
  <2>3. Len(v) = n
    BY <1>2, <1>4, <2>1
  <2>4. ASSUME NEW i \in 1..n PROVE v[i] = a[i]
    <3>1. v[i] = w[m + 1 + i - 1]
      BY <1>2, <1>4, <2>1
    <3>2. m + 1 + i - 1 = i + m
      BY <1>2, <1>4
    <3> QED
      BY <1>4, <3>1, <3>2
  <2>5. Len(a) = n
    BY DEF n
  <2> HIDE DEF v
  <2>6. v = a
    BY <2>2, <2>3, <2>4, <2>5, SeqEqual
  <2> QED
    BY <2>6 DEF v
<1>5. p <= Len(s) /\ p <= Len(t) /\ Len(t) = (p + 1) + n
  BY <1>1, <1>2
<1>6. SubSeq(s, 1, p) = b /\ SubSeq(t, 1, p) = b
  BY <1>1, <1>3, <1>5
<1>7. SubSeq(s, p + 1, Len(s)) = a
  BY <1>1, <1>2, <1>4
<1>8. SubSeq(t, p + 2, Len(t)) = a
  <2> DEFINE m == p + 1
  <2>1. m \in Nat /\ Len(t) = m + n /\ m + 1 = p + 2 /\ \A i \in 1..n : i + m = i + p + 1
    BY <1>2, <1>5
  <2> HIDE DEF m
  <2>2. \A i \in 1..n : t[i + m] = a[i]
    BY <1>1, <2>1
  <2>3. SubSeq(t, m + 1, Len(t)) = a
    BY <1>1, <1>4, <2>1, <2>2
  <2> QED
    BY <2>1, <2>3
<1> QED
  BY <1>1, <1>6, <1>7, <1>8 DEF s, t, p, n

\* What is left of the snapshots is what the abstract editor may remember.
LEMMA RememberedIs ==
  ASSUME NEW sn, NEW k, k \in 0..Len(sn), Len(sn) \in Nat
  PROVE  Suffix(sn, k) \in EditedText!Remembered(sn)
<1>1. Len(sn) - k + 1 \in 1..Len(sn) + 1
  OBVIOUS
<1> QED
  BY <1>1 DEF Suffix, EditedText!Remembered

\* A step that forgets the oldest key presses leaves what the abstract editor remembers.
LEMMA KeptRemembers ==
  ASSUME BufferInv, Kept
  PROVE  snaps' \in EditedText!Remembered(snaps)
<1>1. snaps \in Seq(Snaps)
  BY UndoIs, GoodKeys
<1>2. Keys(undo') \in 0..Len(snaps) /\ snaps' = Suffix(snaps, Keys(undo'))
  BY DEF Kept, Leaves
<1>3. Len(snaps) \in Nat
  BY <1>1
<1> QED
  BY <1>2, <1>3, RememberedIs

\* An insertion.
LEMMA InsertsText ==
  ASSUME BufferInv, NEW c \in Char, edit_insert(c) \/ edit_insert_ahead(c)
  PROVE  EditedText!Insert
<1>1. snaps' \in EditedText!Remembered(snaps)
  BY PrimitivesKeep, KeptRemembers
<1>2. ~ stack_disable /\ stack_disable' = stack_disable
  BY DEF edit_insert, edit_insert_ahead, Record, Step
<1>3. before \in Seq(Char) /\ after \in Seq(Char) /\ last_byte = Len(text)
  BY UndoIs DEF BufferOK, BufferConsistent, LinesCounted
<1>4. last_byte < SizeLimit
  BY DEF edit_insert, edit_insert_ahead, Insert, InsertAhead
<1>5. text' = Append(before, c) \o after /\ curs1' \in {curs1, curs1 + 1}
  <2>1. CASE edit_insert(c)
    <3>1. before' = Append(before, c) /\ after' = after
      BY <2>1 DEF edit_insert, Insert
    <3> QED
      BY <1>3, <3>1 DEF text, curs1
  <2>2. CASE edit_insert_ahead(c)
    <3>1. before' = before /\ after' = Front(c, after)
      BY <2>2 DEF edit_insert_ahead, InsertAhead, Front
    <3>2. before \o Front(c, after) = Append(before, c) \o after
      BY <1>3, SameText
    <3> QED
      BY <3>1, <3>2 DEF text, curs1
  <2> QED
    BY <2>1, <2>2
<1>6. SubSeq(text, 1, curs1) = before /\ SubSeq(text, curs1 + 1, Len(text)) = after
  BY <1>3, TextCut DEF text, curs1
<1>7. text' = EditedText!Inserted(text, curs1, c)
  BY <1>5, <1>6 DEF EditedText!Inserted
<1>8. Len(text) < SizeLimit
  BY <1>3, <1>4
<1> QED
  BY <1>1, <1>2, <1>5, <1>7, <1>8 DEF EditedText!Insert

\* A removal.
LEMMA DeletesText ==
  ASSUME BufferInv, edit_delete \/ edit_backspace
  PROVE  EditedText!Delete
<1>1. snaps' \in EditedText!Remembered(snaps)
  BY PrimitivesKeep, KeptRemembers
<1>2. ~ stack_disable /\ stack_disable' = stack_disable
  BY DEF edit_delete, edit_backspace, Record, Step
<1>3. before \in Seq(Char) /\ after \in Seq(Char) /\ BufferOK
  BY UndoIs DEF BufferOK
<1>4. CASE edit_delete
  <2>1. curs2 > 0 /\ before' = before /\ after' = Tail(after)
    BY <1>4 DEF edit_delete, Delete
  <2> DEFINE h == Head(after)
             t == Tail(after)
  <2>2. h \in Char /\ t \in Seq(Char) /\ text = Append(before, h) \o t
    BY <1>3, <2>1, AfterCursor
  <2> HIDE DEF h, t
  <2>3. /\ SubSeq(text, 1, curs1) = before /\ SubSeq(text, curs1 + 2, Len(text)) = t
        /\ Len(text) = curs1 + Len(t) + 1
    BY <1>3, <2>2, TextCut DEF curs1
  <2>4. curs1 \in Nat /\ Len(t) \in Nat
    BY <1>3, <2>2 DEF curs1
  <2>5. curs1 < Len(text) /\ (curs1 + 1) - 1 = curs1 /\ (curs1 + 1) + 1 = curs1 + 2
    BY <2>3, <2>4
  <2>6. text' = before \o t /\ curs1' = curs1
    BY <2>1 DEF text, curs1, t
  <2>7. EditedText!Removed(text, curs1 + 1) = before \o t
    BY <2>3, <2>5 DEF EditedText!Removed
  <2> QED
    BY <1>1, <1>2, <2>5, <2>6, <2>7 DEF EditedText!Delete
<1>5. CASE edit_backspace
  <2> DEFINE h == before[curs1]
             t == SubSeq(before, 1, curs1 - 1)
             m == Len(t)
  <2>1. curs1 > 0 /\ before' = t /\ after' = after
    BY <1>5 DEF edit_backspace, Backspace
  <2>2. h \in Char /\ t \in Seq(Char) /\ before = Append(t, h) /\ m \in Nat /\ curs1 = m + 1
    BY <1>3, <2>1, BeforeCursor
  <2> HIDE DEF h, t
  <2>3. text = Append(t, h) \o after
    BY <2>2 DEF text
  <2>4. SubSeq(text, 1, m) = t /\ SubSeq(text, m + 2, Len(text)) = after
    BY <1>3, <2>2, <2>3, TextCut
  <2>5. curs1 - 1 = m /\ curs1 + 1 = m + 2
    BY <2>2
  <2>6. text' = t \o after /\ curs1' = curs1 - 1
    BY <2>1, <2>5 DEF text, curs1
  <2>7. EditedText!Removed(text, curs1) = t \o after
    BY <2>4, <2>5 DEF EditedText!Removed
  <2> QED
    BY <1>1, <1>2, <2>1, <2>6, <2>7 DEF EditedText!Delete
<1> QED
  BY <1>4, <1>5

\* A movement of the cursor, or of the marks.
LEMMA MovesText ==
  ASSUME BufferInv, edit_cursor_left \/ edit_cursor_right \/ edit_mark_cmd(TRUE) \/ edit_mark_cmd(FALSE)
  PROVE  EditedText!Move
<1>1. BufferOK /\ curs1 \in Nat /\ curs2 \in Nat /\ last_byte = curs1 + curs2 /\ last_byte = Len(text)
  BY Bytes, TopIs DEF BufferInv
<1>2. ~ stack_disable /\ stack_disable' = stack_disable
  BY DEF edit_cursor_left, edit_cursor_right, edit_mark_cmd, Record, Step
<1>3. snaps' \in EditedText!Remembered(snaps)
  <2>1. TRUE \in BOOLEAN /\ FALSE \in BOOLEAN
    OBVIOUS
  <2>2. edit_mark_cmd(TRUE) \/ edit_mark_cmd(FALSE) => Kept
    BY <2>1, MarkOK DEF Kept
  <2>3. Kept
    BY <2>2, PrimitivesKeep
  <2> QED
    BY <2>3, KeptRemembers
<1>4. text' = text /\ curs1' \in (({curs1 - 1, curs1 + 1} \cap 0..Len(text)) \cup {curs1})
  <2>1. CASE edit_cursor_left
    <3>1. MoveLeft
      BY <2>1 DEF edit_cursor_left
    <3>2. curs1 > 0
      BY <3>1 DEF MoveLeft
    <3>3. text' = text /\ curs1' = curs1 - 1
      BY <1>1, <3>1, MoveLeftOK
    <3>4. curs1 - 1 \in 0..Len(text)
      BY <1>1, <3>2
    <3> QED
      BY <3>3, <3>4
  <2>2. CASE edit_cursor_right
    <3>1. MoveRight
      BY <2>2 DEF edit_cursor_right
    <3>2. curs2 > 0
      BY <3>1 DEF MoveRight
    <3>3. text' = text /\ curs1' = curs1 + 1
      BY <1>1, <3>1, MoveRightOK
    <3>4. curs1 + 1 \in 0..Len(text)
      BY <1>1, <3>2
    <3> QED
      BY <3>3, <3>4
  <2>3. CASE edit_mark_cmd(TRUE) \/ edit_mark_cmd(FALSE)
    <3>1. before' = before /\ after' = after
      BY <2>3 DEF edit_mark_cmd, sideVars
    <3> QED
      BY <3>1 DEF text, curs1
  <2> QED
    BY <2>1, <2>2, <2>3
<1> QED
  BY <1>2, <1>3, <1>4 DEF EditedText!Move

\* The text and the cursor where the editor is.
LEMMA HereIsSnap == Snap(Here) = EditedText!Here
BY DEF Snap, Here, EditedText!Here, text, curs1

\* A key press.
LEMMA KeyPressesText ==
  ASSUME BufferInv, edit_push_key_press
  PROVE  EditedText!KeyPress
<1>1. /\ ~ stack_disable /\ stack_disable' = stack_disable /\ text' = text /\ curs1' = curs1
  BY DEF edit_push_key_press, Step, sideVars, text, curs1
<1>2. snaps \in Seq(Snaps) /\ Here \in State
  BY UndoIs, GoodKeys
<1> DEFINE z == Snap(Here)
           more == Append(snaps, z)
<1>3. \/ snaps' = snaps /\ snaps # <<>> /\ snaps[Len(snaps)] = z
      \/ snaps' = Suffix(more, Keys(undo')) /\ Keys(undo') \in 0..Len(more)
  BY KeyPressOK
<1>4. Len(more) \in Nat
  <2>1. z \in Snaps
    BY <1>2, SnapIs
  <2> QED
    BY <1>2, <2>1
<1>5. z = EditedText!Here
  BY HereIsSnap
<1> HIDE DEF z
<1>6. \/ snaps' = snaps /\ snaps # <<>> /\ snaps[Len(snaps)] = z
      \/ snaps' \in EditedText!Remembered(more)
  BY <1>3, <1>4, RememberedIs
<1> QED
  BY <1>1, <1>5, <1>6 DEF EditedText!KeyPress

\* The undo, and its parts.
LEMMA UndoesText ==
  ASSUME BufferInv
  PROVE  /\ BeginUndo => EditedText!BeginUndo
         /\ UndoOne => EditedText!UndoSome
         /\ EndUndo => EditedText!EndUndo
<1>1. ASSUME BeginUndo PROVE EditedText!BeginUndo
  BY <1>1 DEF BeginUndo, sideVars, text, curs1, EditedText!BeginUndo
<1>2. ASSUME UndoOne PROVE EditedText!UndoSome
  <2>1. stack_disable /\ stack_disable' = stack_disable /\ snaps' = snaps
    BY <1>2 DEF UndoOne, userVars
  <2>2. snaps # <<>>
    BY <1>2, UndoOneOK
  <2> QED
    BY <2>1, <2>2 DEF EditedText!UndoSome
<1>3. ASSUME EndUndo PROVE EditedText!EndUndo
  <2>1. stack_disable /\ ~ stack_disable'
    BY <1>3 DEF EndUndo
  <2>2. /\ before' = before /\ after' = after
        /\ \/ snaps = <<>> /\ snaps' = snaps
           \/ snaps # <<>> /\ snaps[Len(snaps)] = Snap(Here) /\ snaps' = SubSeq(snaps, 1, Len(snaps) - 1)
    BY <1>3, EndUndoOK
  <2>3. text' = text /\ curs1' = curs1
    BY <2>2 DEF text, curs1
  <2>4. Snap(Here) = [text |-> text', cursor |-> curs1']
    BY <2>3, HereIsSnap DEF EditedText!Here
  <2> QED
    BY <2>1, <2>2, <2>3, <2>4 DEF EditedText!EndUndo, EditedText!Here
<1> QED
  BY <1>1, <1>2, <1>3

\* The buffer with its undo ring implements the editor of EditText: an undo takes the text and the cursor
\* back to the last key press remembered, though the ring counts repeats, cancels opposite moves, wraps,
\* grows, and forgets its oldest key press or everything when it is full (edit.c:695-784, 1768-1834).
THEOREM BufferImplementsText == Spec => UndoRestores
<1>1. Init => EditedText!TextInit
  <2> SUFFICES ASSUME Init PROVE EditedText!TextInit
    OBVIOUS
  <2>1. BufferInv
    BY BufferStarts
  <2>2. before = <<>> /\ snaps = <<>> /\ stack_disable = FALSE
    BY DEF Init, Load
  <2>3. last_byte = Len(text) /\ last_byte <= SizeLimit
    BY <2>1 DEF BufferInv, BufferOK, BufferConsistent, LinesCounted
  <2>4. curs1 = 0
    BY <2>2 DEF curs1
  <2> QED
    BY <2>2, <2>3, <2>4 DEF EditedText!TextInit
<1>2. BufferInv /\ [Next]_vars => [EditedText!TextNext]_(EditedText!textVars)
  <2> SUFFICES ASSUME BufferInv, [Next]_vars PROVE [EditedText!TextNext]_(EditedText!textVars)
    OBVIOUS
  <2>1. ASSUME NEW c \in Char, edit_insert(c) \/ edit_insert_ahead(c) PROVE EditedText!TextNext
    BY <2>1, InsertsText DEF EditedText!TextNext
  <2>2. ASSUME edit_delete \/ edit_backspace PROVE EditedText!TextNext
    BY <2>2, DeletesText DEF EditedText!TextNext
  <2>3. ASSUME edit_cursor_left \/ edit_cursor_right \/ edit_mark_cmd(TRUE) \/ edit_mark_cmd(FALSE)
        PROVE EditedText!TextNext
    BY <2>3, MovesText DEF EditedText!TextNext
  <2>4. ASSUME edit_push_key_press PROVE EditedText!TextNext
    BY <2>4, KeyPressesText DEF EditedText!TextNext
  <2>5. ASSUME BeginUndo \/ UndoOne \/ EndUndo PROVE EditedText!TextNext
    BY <2>5, UndoesText DEF EditedText!TextNext
  <2>6. ASSUME edit_scroll_upward \/ edit_scroll_downward \/ UNCHANGED vars
        PROVE UNCHANGED EditedText!textVars
    <3>1. before' = before /\ after' = after /\ snaps' = snaps /\ stack_disable' = stack_disable
      BY <2>6 DEF edit_scroll_upward, edit_scroll_downward, ScrollTo, Step, vars, sideVars, userVars
    <3> QED
      BY <3>1 DEF EditedText!textVars, text, curs1
  <2> QED
    BY <2>1, <2>2, <2>3, <2>4, <2>5, <2>6 DEF Next
<1> QED
  BY <1>1, <1>2, BufferAlways, PTL DEF Spec, UndoRestores, EditedText!TextSpec

=============================================================================
