------------------------------ MODULE HashProofs ------------------------------
(* What HashObject promises for any keys, values and hashes, in every state  *)
(* the program may leave a hash in: every search ends, the links go through  *)
(* the entries in use, a search and the links agree, and the hash and its    *)
(* iterator are the ordered map and the iteration the program sees.          *)
EXTENDS HashObject, TLAPS, WellFoundedInduction, FiniteSetTheorems, SequenceTheorems

(* A non-empty set of naturals has a least element.                        *)
LEMMA LeastNatural ==
  ASSUME NEW I \in SUBSET Nat, I # {}
  PROVE  \E i \in I : \A j \in I : i <= j
<1>. DEFINE R == {ss \in Nat \X Nat : ss[1] < ss[2]}
<1>1. IsWellFoundedOn(R, Nat)
  BY NatLessThanWellFounded, Zenon DEF OpToRel
<1>2. PICK i \in I : \A j \in I : ~ (<<j, i>> \in R)
  <2>. HIDE DEF R
  <2>. QED  BY <1>1, WFMin
<1>3. ASSUME NEW j \in I
      PROVE  i <= j
  <2>1. <<j, i>> \notin R /\ j \in Nat /\ i \in Nat
    BY <1>2
  <2>2. ~ (j < i)
    BY <2>1, Zenon DEF R
  <2>. QED
    BY <2>1, <2>2
<1>. QED
  BY <1>3

LEMMA Divided ==
  ASSUME NEW x \in Int, NEW n \in Nat \ {0}
  PROVE  x = n * (x \div n) + (x % n) /\ (x % n) \in 0 .. n - 1 /\ x \div n \in Int
OBVIOUS

LEMMA Remainder ==
  ASSUME NEW q \in Int, NEW r \in Int, NEW n \in Nat \ {0}, 0 <= r, r < n
  PROVE  (n * q + r) % n = r
OBVIOUS

LEMMA SameRemainder ==
  ASSUME NEW x \in Int, NEW y \in Int, NEW q \in Int, NEW n \in Nat \ {0}, x = n * q + y
  PROVE  x % n = y % n
<1>. DEFINE p == y \div n
            r == y % n
<1>1. y = n * p + r /\ r \in 0 .. n - 1 /\ p \in Int
  BY Divided
<1>. HIDE DEF p, r
<1>2. x = n * (q + p) + r
  BY <1>1
<1>3. (n * (q + p) + r) % n = r
  BY <1>1, Remainder
<1>. QED
  BY <1>2, <1>3 DEF r

(* Half of a power of two is one.                                          *)
LEMMA HalfPower ==
  ASSUME NEW n \in Nat, PowerOfTwo(n), n # 1
  PROVE  \E h \in Nat : n = 2 * h /\ h < n /\ PowerOfTwo(h)
<1>. DEFINE h == n \div 2
            r == n % 2
<1>1. n = 2 * h + r /\ r \in 0 .. 1 /\ h \in Int
  OBVIOUS
<1>. HIDE DEF h, r
<1>2. n > 1
  BY DEF PowerOfTwo
<1>3. r = 0
  <2>1. SUFFICES ASSUME r = 1 PROVE FALSE
    BY <1>1
  <2>2. 1 \in 1 .. n /\ h \in 1 .. n /\ n = 1 * (2 * h + 1)
    BY <1>1, <1>2, <2>1
  <2>. QED
    BY <2>2 DEF PowerOfTwo
<1>4. h \in Nat \ {0} /\ h < n /\ n = 2 * h
  BY <1>1, <1>2, <1>3
<1>5. ASSUME NEW k \in 1 .. h, NEW m \in 1 .. h
      PROVE  h # k * (2 * m + 1)
  <2>1. 2 * k \in 1 .. n /\ m \in 1 .. n
    BY <1>4
  <2>2. n # (2 * k) * (2 * m + 1)
    BY <2>1, Zenon DEF PowerOfTwo
  <2>. QED
    BY <1>4, <2>2
<1>. QED
  BY <1>4, <1>5 DEF PowerOfTwo

LEMMA DoublePower ==
  ASSUME NEW n \in Nat, PowerOfTwo(n)
  PROVE  PowerOfTwo(2 * n)
<1>1. n > 0 /\ 2 * n \in Nat \ {0}
  BY DEF PowerOfTwo
<1>2. ASSUME NEW k \in 1 .. 2 * n, NEW m \in 1 .. 2 * n, 2 * n = k * (2 * m + 1)
      PROVE  FALSE
  <2>. DEFINE h == k \div 2
              r == k % 2
  <2>1. k = 2 * h + r /\ r \in 0 .. 1 /\ h \in Int /\ k \in Int /\ m \in Int
    OBVIOUS
  <2>. HIDE DEF h, r
  <2>2. r = 0
    <3>1. SUFFICES ASSUME r = 1 PROVE FALSE
      BY <2>1
    <3>2. k * (2 * m + 1) = 2 * (2 * (h * m) + h + m) + 1
      BY <2>1, <3>1
    <3>3. h * m \in Int
      BY <2>1
    <3>. DEFINE z == 2 * (h * m) + h + m
    <3>4. z \in Int /\ 2 * n = 2 * z + 1
      BY <1>2, <2>1, <3>2, <3>3
    <3>. HIDE DEF z
    <3>. QED
      BY <3>4
  <2>3. k = 2 * h /\ h >= 1 
    BY <2>1, <2>2
  <2>. DEFINE p == h * (2 * m + 1)
  <2>4. 2 * n = 2 * p /\ p \in Int
    <3>1. k * (2 * m + 1) = 2 * p
      BY <2>1, <2>3
    <3>. QED  BY <1>2, <2>1, <3>1
  <2>5. p = n
    <3>. HIDE DEF p
    <3>. QED BY <2>4
  <2>6. h \in 1 .. n /\ m \in 1 .. n
    <3>1. h * m >= h /\ h * m >= m /\ h * m \in Int
      BY <2>1, <2>3
    <3>2. p = 2 * (h * m) + h
      BY <2>1
    <3>. HIDE DEF p
    <3>. QED
      BY <2>1, <2>3, <2>5, <3>1, <3>2
  <2>. QED
    BY <2>5, <2>6 DEF PowerOfTwo
<1>. QED
  BY <1>1, <1>2 DEF PowerOfTwo

(* Steps x -> (4c + 1) x + (2e + 1) among integers, taken up to n.         *)
Onward(c, e, x) == (4 * c + 1) * x + (2 * e + 1)
Repeats(S, n) == \A x \in Int : x \in S <=> x + n \in S
ReachAll(n) ==
  \A S \in SUBSET Int, c, e \in Nat :
    S # {} /\ Repeats(S, n) /\ (\A x \in S : Onward(c, e, x) \in S) => S = Int

LEMMA OnwardTwice ==
  ASSUME NEW c \in Nat, NEW e \in Nat, NEW y \in Int
  PROVE  LET c2 == 4 * (c * c) + 2 * c
             e2 == 2 * (e * c) + e + c
         IN  /\ c2 \in Nat /\ e2 \in Nat /\ c2 + e2 \in Nat
             /\ Onward(c, e, Onward(c, e, 2 * y)) = 2 * Onward(c2, e2, y)
             /\ Onward(c, e, Onward(c, e, 2 * y + 1)) = 2 * Onward(c2, c2 + e2, y) + 1
<1>. DEFINE c2 == 4 * (c * c) + 2 * c
            e2 == 2 * (e * c) + e + c
<1>1. c * c \in Nat /\ e * c \in Nat
  OBVIOUS
<1>2. c2 \in Nat /\ e2 \in Nat /\ c2 + e2 \in Nat
  BY <1>1
<1>3. Onward(c, e, Onward(c, e, 2 * y)) = 2 * Onward(c2, e2, y)
  BY DEF Onward
<1>4. Onward(c, e, Onward(c, e, 2 * y + 1)) = 2 * Onward(c2, c2 + e2, y) + 1
  BY DEF Onward
<1>. QED
  BY <1>2, <1>3, <1>4

LEMMA RepeatsByOne ==
  ASSUME NEW S \in SUBSET Int, S # {}, Repeats(S, 1)
  PROVE  S = Int
<1>1. PICK a \in S : a \in Int
  OBVIOUS
<1>. DEFINE Up == {k \in Nat : a + k \notin S}
            Down == {k \in Nat : a - k \notin S}
<1>2. Up = {}
  <2>. SUFFICES ASSUME Up # {} PROVE FALSE
    OBVIOUS
  <2>1. PICK k \in Up : \A j \in Up : k <= j
    BY LeastNatural
  <2>2. k # 0 /\ k \in Nat
    BY <1>1, <2>1
  <2>3. k - 1 \in Nat /\ k - 1 \notin Up
    BY <2>1, <2>2
  <2>4. a + (k - 1) \in S /\ a + (k - 1) \in Int /\ (a + (k - 1)) + 1 = a + k
    BY <1>1, <2>2, <2>3
  <2>5. a + k \in S
    BY <2>4 DEF Repeats
  <2>. QED
    BY <2>1, <2>5
<1>3. Down = {}
  <2>. SUFFICES ASSUME Down # {} PROVE FALSE
    OBVIOUS
  <2>1. PICK k \in Down : \A j \in Down : k <= j
    BY LeastNatural
  <2>2. k # 0 /\ k \in Nat
    BY <1>1, <2>1
  <2>3. k - 1 \in Nat /\ k - 1 \notin Down
    BY <2>1, <2>2
  <2>4. a - (k - 1) \in S /\ a - k \in Int /\ (a - k) + 1 = a - (k - 1)
    BY <1>1, <2>2, <2>3
  <2>5. a - k \in S
    BY <2>4 DEF Repeats
  <2>. QED
    BY <2>1, <2>5
<1>4. ASSUME NEW x \in Int
      PROVE  x \in S
  <2>1. CASE x >= a
    <3>1. x - a \in Nat /\ a + (x - a) = x
      BY <1>1, <2>1
    <3>. QED
      BY <1>2, <3>1
  <2>2. CASE x < a
    <3>1. a - x \in Nat /\ a - (a - x) = x
      BY <1>1, <2>2
    <3>. QED
      BY <1>3, <3>1
  <2>. QED
    BY <1>1, <2>1, <2>2
<1>. QED
  BY <1>4

LEMMA ReachAllDoubles ==
  ASSUME NEW h \in Nat, ReachAll(h)
  PROVE  ReachAll(2 * h)
<1>. SUFFICES ASSUME NEW S \in SUBSET Int, NEW c \in Nat, NEW e \in Nat,
                     S # {}, Repeats(S, 2 * h), \A x \in S : Onward(c, e, x) \in S
              PROVE  S = Int
  BY DEF ReachAll
<1>. DEFINE Evens == {y \in Int : 2 * y \in S}
            Odds == {y \in Int : 2 * y + 1 \in S}
            c2 == 4 * (c * c) + 2 * c
            e2 == 2 * (e * c) + e + c
<1>1. Repeats(Evens, h) /\ Repeats(Odds, h)
  <2>1. ASSUME NEW y \in Int
        PROVE  (y \in Evens <=> y + h \in Evens) /\ (y \in Odds <=> y + h \in Odds)
    <3>1. 2 * y \in Int /\ 2 * y + 2 * h = 2 * (y + h) /\ y + h \in Int
      OBVIOUS
    <3>2. 2 * y + 1 \in Int /\ (2 * y + 1) + 2 * h = 2 * (y + h) + 1
      OBVIOUS
    <3>3. 2 * y \in S <=> 2 * (y + h) \in S
      BY <3>1 DEF Repeats
    <3>4. 2 * y + 1 \in S <=> 2 * (y + h) + 1 \in S
      BY <3>2 DEF Repeats
    <3>. QED
      BY <3>1, <3>3, <3>4
  <2>. HIDE DEF Evens, Odds
  <2>. QED
    BY <2>1 DEF Repeats
<1>2. c2 \in Nat /\ e2 \in Nat /\ c2 + e2 \in Nat
  BY OnwardTwice, 0 \in Int
<1>3. \A y \in Evens : Onward(c2, e2, y) \in Evens
  <2>. SUFFICES ASSUME NEW y \in Evens PROVE Onward(c2, e2, y) \in Evens
    OBVIOUS
  <2>1. Onward(c, e, Onward(c, e, 2 * y)) = 2 * Onward(c2, e2, y)
    BY OnwardTwice
  <2>2. Onward(c2, e2, y) \in Int
    BY <1>2 DEF Onward
  <2>. QED
    BY <2>1, <2>2
<1>4. \A y \in Odds : Onward(c2, c2 + e2, y) \in Odds
  <2>. SUFFICES ASSUME NEW y \in Odds PROVE Onward(c2, c2 + e2, y) \in Odds
    OBVIOUS
  <2>1. Onward(c, e, Onward(c, e, 2 * y + 1)) = 2 * Onward(c2, c2 + e2, y) + 1
    BY OnwardTwice
  <2>2. Onward(c2, c2 + e2, y) \in Int
    BY <1>2 DEF Onward
  <2>. QED
    BY <2>1, <2>2
<1>5. Evens # {} /\ Odds # {}
  <2>1. PICK x \in S : x \in Int
    OBVIOUS
  <2>. DEFINE y == x \div 2
              r == x % 2
              z == 4 * (c * y) + y + e
              z1 == 4 * (c * y) + y + 2 * c + e + 1
  <2>2. x = 2 * y + r /\ r \in 0 .. 1 /\ y \in Int
    BY <2>1
  <2>. HIDE DEF y, r
  <2>3. c * y \in Int
    BY <2>2
  <2>4. z \in Int /\ z1 \in Int
    BY <2>2, <2>3
  <2>5. CASE r = 0
    <3>1. 2 * y \in S /\ Onward(c, e, 2 * y) \in S
      BY <2>2, <2>5
    <3>2. Onward(c, e, 2 * y) = 2 * z + 1
      BY <2>2 DEF Onward
    <3>. HIDE DEF z
    <3>. QED
      BY <2>2, <2>4, <3>1, <3>2
  <2>6. CASE r = 1
    <3>1. 2 * y + 1 \in S /\ Onward(c, e, 2 * y + 1) \in S
      BY <2>2, <2>6
    <3>2. Onward(c, e, 2 * y + 1) = 2 * z1
      BY <2>2 DEF Onward
    <3>. HIDE DEF z1
    <3>. QED
      BY <2>2, <2>4, <3>1, <3>2
  <2>. QED
    BY <2>2, <2>5, <2>6
<1>6. Evens = Int
  <2>. HIDE DEF Evens, c2, e2
  <2>1. Evens \in SUBSET Int
    BY DEF Evens
  <2>. QED
    BY <1>1, <1>2, <1>3, <1>5, <2>1 DEF ReachAll
<1>7. Odds = Int
  <2>. DEFINE e3 == c2 + e2
  <2>. HIDE DEF Odds, c2, e3
  <2>1. Odds \in SUBSET Int
    BY DEF Odds
  <2>2. e3 \in Nat /\ \A y \in Odds : Onward(c2, e3, y) \in Odds
    BY <1>2, <1>4 DEF e3
  <2>. QED
    BY <1>1, <1>2, <1>5, <2>1, <2>2 DEF ReachAll
<1>8. ASSUME NEW x \in Int
      PROVE  x \in S
  <2>. DEFINE y == x \div 2
              r == x % 2
  <2>1. x = 2 * y + r /\ r \in 0 .. 1 /\ y \in Int
    OBVIOUS
  <2>. HIDE DEF y, r
  <2>2. 2 * y \in S /\ 2 * y + 1 \in S
    BY <1>6, <1>7, <2>1
  <2>. QED
    BY <2>1, <2>2
<1>. QED
  BY <1>8

LEMMA PowersReachAll ==
  ASSUME NEW n \in Nat, PowerOfTwo(n)
  PROVE  ReachAll(n)
<1>. DEFINE Bad == {m \in Nat : PowerOfTwo(m) /\ ~ReachAll(m)}
<1>1. SUFFICES ASSUME Bad # {} PROVE FALSE
  OBVIOUS
<1>2. PICK m \in Bad : \A j \in Bad : m <= j
  BY <1>1, LeastNatural
<1>3. CASE m = 1
  BY <1>2, <1>3, RepeatsByOne DEF ReachAll
<1>4. CASE m # 1
  <2>1. PICK h \in Nat : m = 2 * h /\ h < m /\ PowerOfTwo(h)
    BY <1>2, <1>4, HalfPower
  <2>2. h \notin Bad
    BY <1>2, <2>1
  <2>3. ReachAll(h)
    BY <2>1, <2>2
  <2>. QED
    BY <1>2, <2>1, <2>3, ReachAllDoubles
<1>. QED
  BY <1>3, <1>4

-----------------------------------------------------------------------------
(* A search along the probes ends.                                         *)

LEMMA ShiftedDown ==
  ASSUME NEW p \in Nat
  PROVE  Shifted(p) \in Nat /\ (p # 0 => Shifted(p) < p) /\ Shifted(0) = 0
BY DEF Shifted, PERTURB_SHIFT

(* Slots that lead on among each other once nothing is left of the hash    *)
(* are all slots.                                                          *)
LEMMA ProbesReachAll ==
  ASSUME NEW n \in Nat, PowerOfTwo(n), NEW I \in SUBSET (0 .. n - 1), I # {},
         \A i \in I : Probe(i, 0, n) \in I
  PROVE  I = 0 .. n - 1
<1>. DEFINE S == {x \in Int : x % n \in I}
<1>0. n \in Nat \ {0}
  BY DEF PowerOfTwo
<1>1. Repeats(S, n)
  <2>1. ASSUME NEW x \in Int
        PROVE  (x + n) % n = x % n
    <3>1. x + n = n * 1 + x /\ x + n \in Int /\ 1 \in Int
      OBVIOUS
    <3>. HIDE DEF S
    <3>. QED
      BY <1>0, <3>1, SameRemainder
  <2>2. ASSUME NEW x \in Int
        PROVE  x \in S <=> x + n \in S
    <3>1. x + n \in Int
      OBVIOUS
    <3>. QED
      BY <2>1, <3>1, Zenon
  <2>. HIDE DEF S
  <2>. QED
    BY <2>2 DEF Repeats
<1>2. \A x \in S : Onward(1, 0, x) \in S
  <2>. SUFFICES ASSUME NEW x \in S PROVE Onward(1, 0, x) \in S
    OBVIOUS
  <2>. DEFINE q == x \div n
              r == x % n
  <2>1. x = n * q + r /\ r \in 0 .. n - 1 /\ q \in Int /\ r \in I
    BY <1>0, Divided
  <2>. HIDE DEF q, r
  <2>2. Probe(r, 0, n) = (5 * r + 1) % n
    BY <2>1 DEF Probe
  <2>3. Onward(1, 0, x) = 5 * x + 1
    BY DEF Onward
  <2>4. 5 * x + 1 = n * (5 * q) + (5 * r + 1)
    BY <2>1
  <2>5. (5 * x + 1) % n = (5 * r + 1) % n
    <3>. DEFINE a == 5 * x + 1
                b == 5 * r + 1
                c == 5 * q
    <3>1. a \in Int /\ b \in Int /\ c \in Int /\ a = n * c + b
      BY <2>1, <2>4
    <3>. HIDE DEF a, b, c
    <3>2. a % n = b % n
      BY <1>0, <3>1, SameRemainder
    <3>. QED
      BY <3>2 DEF a, b
  <2>. QED
    BY <2>1, <2>2, <2>3, <2>5
<1>3. S # {}
  <2>1. PICK i \in I : i \in 0 .. n - 1
    OBVIOUS
  <2>2. i % n = i
    <3>1. (n * 0 + i) % n = i
      BY <1>0, <2>1, Remainder
    <3>. QED
      BY <3>1
  <2>. QED
    BY <2>1, <2>2
<1>4. S = Int
  <2>1. S \in SUBSET Int /\ 1 \in Nat /\ 0 \in Nat
    OBVIOUS
  <2>. HIDE DEF S
  <2>. QED
    BY <1>1, <1>2, <1>3, <2>1, PowersReachAll DEF ReachAll
<1>5. ASSUME NEW i \in 0 .. n - 1
      PROVE  i \in I
  <2>1. (n * 0 + i) % n = i
    BY <1>0, Remainder
  <2>2. i \in S /\ i % n \in I
    BY <1>4
  <2>. QED
    BY <2>1, <2>2
<1>. QED
  BY <1>5

(* A set of places of a search, slots with what is left of the hash, that  *)
(* lead on among each other has every slot.                                *)
LEMMA SearchReachesAll ==
  ASSUME NEW n \in Nat, PowerOfTwo(n), NEW P \in SUBSET ((0 .. n - 1) \X Nat), P # {},
         \A w \in P : <<Probe(w[1], w[2], n), Shifted(w[2])>> \in P
  PROVE  \A i \in 0 .. n - 1 : \E w \in P : w[1] = i
<1>. DEFINE Left == {w[2] : w \in P}
            I == {w[1] : w \in {v \in P : v[2] = 0}}
<1>1. Left \in SUBSET Nat /\ Left # {}
  OBVIOUS
<1>2. 0 \in Left
  <2>1. PICK p \in Left : \A q \in Left : p <= q
    BY <1>1, LeastNatural
  <2>2. PICK w \in P : p = w[2]
    BY <2>1
  <2>3. Shifted(p) \in Left
    <3>. DEFINE v == <<Probe(w[1], w[2], n), Shifted(w[2])>>
    <3>1. v \in P /\ v[2] = Shifted(p)
      BY <2>2
    <3>. HIDE DEF v
    <3>. QED
      BY <3>1
  <2>4. p \in Nat
    BY <1>1
  <2>5. p <= Shifted(p)
    BY <2>1, <2>3
  <2>6. p = 0
    BY <2>4, <2>5, ShiftedDown
  <2>. QED
    BY <2>1, <2>6
<1>3. I \in SUBSET (0 .. n - 1) /\ I # {}
  BY <1>2
<1>4. ASSUME NEW i \in I
      PROVE  Probe(i, 0, n) \in I
  <2>1. PICK w \in P : w[1] = i /\ w[2] = 0
    OBVIOUS
  <2>. DEFINE v == <<Probe(w[1], w[2], n), Shifted(w[2])>>
  <2>2. v \in P /\ v[1] = Probe(i, 0, n) /\ v[2] = 0
    BY <2>1, ShiftedDown
  <2>. HIDE DEF v
  <2>. QED
    BY <2>2
<1>5. I = 0 .. n - 1
  <2>. HIDE DEF I
  <2>. QED  BY <1>3, <1>4, ProbesReachAll, Zenon
<1>. QED
  BY <1>5

-----------------------------------------------------------------------------
(* Recursion that goes on from one state to the next until it stops.       *)

TailRecursive(f, W, stop, val, nxt) == f = [w \in W |-> IF stop[w] THEN val[w] ELSE f[nxt[w]]]
Closed(S, stop, nxt) == \A u \in S : ~stop[u] => nxt[u] \in S
Reached(W, stop, nxt, w) == {v \in W : \A S \in SUBSET W : w \in S /\ Closed(S, stop, nxt) => v \in S}

LEMMA ReachedClosed ==
  ASSUME NEW W, NEW stop, NEW nxt, NEW w \in W, Closed(W, stop, nxt)
  PROVE  /\ w \in Reached(W, stop, nxt, w)
         /\ Closed(Reached(W, stop, nxt, w), stop, nxt)
         /\ Reached(W, stop, nxt, w) \in SUBSET W
BY DEF Reached, Closed

LEMMA ReachedInduction ==
  ASSUME NEW W, NEW stop, NEW nxt, NEW w \in W, NEW S \in SUBSET W,
         w \in S, Closed(S, stop, nxt)
  PROVE  Reached(W, stop, nxt, w) \subseteq S
BY DEF Reached

LEMMA TailRuns ==
  ASSUME NEW W, NEW stop, NEW val, NEW nxt, Closed(W, stop, nxt)
  PROVE  \E f : TailRecursive(f, W, stop, val, nxt)
<1>. DEFINE R(w) == Reached(W, stop, nxt, w)
            Ends(w) == {v \in R(w) : stop[v]}
            f == [w \in W |-> CHOOSE r : \E v \in Ends(w) : r = val[v]]
<1>1. ASSUME NEW w \in W, stop[w]
      PROVE  Ends(w) = {w}
  <2>1. {w} \in SUBSET W /\ w \in {w} /\ Closed({w}, stop, nxt)
    BY <1>1 DEF Closed
  <2>2. R(w) \subseteq {w}
    BY <2>1, ReachedInduction, Zenon
  <2>3. w \in R(w)
    BY ReachedClosed, Zenon
  <2>. HIDE DEF R
  <2>. QED
    BY <1>1, <2>2, <2>3
<1>2. ASSUME NEW w \in W, ~stop[w]
      PROVE  nxt[w] \in W /\ Ends(w) = Ends(nxt[w])
  <2>0. nxt[w] \in W
    BY <1>2 DEF Closed
  <2>1. /\ w \in R(w) /\ Closed(R(w), stop, nxt) /\ R(w) \in SUBSET W
        /\ nxt[w] \in R(nxt[w]) /\ Closed(R(nxt[w]), stop, nxt) /\ R(nxt[w]) \in SUBSET W
    BY <2>0, ReachedClosed, Zenon
  <2>. HIDE DEF R
  <2>2. nxt[w] \in R(w)
    BY <1>2, <2>1 DEF Closed
  <2>3. R(nxt[w]) \subseteq R(w)
    BY <2>0, <2>1, <2>2, ReachedInduction, Zenon DEF R
  <2>. DEFINE S == {w} \cup R(nxt[w])
  <2>4. S \in SUBSET W /\ w \in S /\ Closed(S, stop, nxt)
    BY <2>1 DEF Closed
  <2>5. R(w) \subseteq S
    <3>. HIDE DEF S
    <3>. QED  BY <2>4, ReachedInduction, Zenon DEF R
  <2>. QED
    BY <1>2, <2>0, <2>3, <2>5
<1>. HIDE DEF Ends
<1>3. ASSUME NEW w \in W
      PROVE  f[w] = IF stop[w] THEN val[w] ELSE f[nxt[w]]
  BY <1>1, <1>2
<1>4. f = [w \in W |-> IF stop[w] THEN val[w] ELSE f[nxt[w]]]
  <2>1. f = [w \in W |-> f[w]]
    OBVIOUS
  <2>. HIDE DEF f
  <2>. QED  BY <1>3, <2>1
<1>. HIDE DEF f
<1>. QED
  BY <1>4 DEF TailRecursive

LEMMA TailSame ==
  ASSUME NEW W, NEW stop, NEW val, NEW nxt, NEW f, TailRecursive(f, W, stop, val, nxt),
         Closed(W, stop, nxt), NEW w \in W
  PROVE  \A v \in Reached(W, stop, nxt, w) : f[v] = f[w] /\ (stop[v] => f[w] = val[v])
<1>. DEFINE S == {v \in W : f[v] = f[w]}
<1>1. S \in SUBSET W /\ w \in S /\ Closed(S, stop, nxt)
  BY DEF Closed, TailRecursive
<1>2. Reached(W, stop, nxt, w) \subseteq S
  <2>. HIDE DEF S
  <2>. QED BY <1>1, ReachedInduction, Zenon
<1>. QED
  BY <1>2 DEF TailRecursive

-----------------------------------------------------------------------------
(* A set of naturals with a bound has a greatest element.                  *)
LEMMA GreatestNatural ==
  ASSUME NEW n \in Nat, NEW I \in SUBSET (0 .. n), I # {}
  PROVE  \E i \in I : \A j \in I : j <= i
<1>. DEFINE B == {m \in Nat : \A j \in I : j <= m}
<1>1. n \in B
  OBVIOUS
<1>2. PICK m \in B : \A k \in B : m <= k
  BY <1>1, LeastNatural
<1>3. m \in I
  <2>. SUFFICES ASSUME m \notin I PROVE FALSE
    OBVIOUS
  <2>1. m # 0
    <3>1. PICK j \in I : j \in 0 .. n /\ j <= m
      BY <1>2
    <3>. QED
      BY <3>1
  <2>2. m - 1 \in Nat /\ \A j \in I : j <= m - 1
    BY <1>2, <2>1
  <2>3. m - 1 \in B
    BY <2>2
  <2>. QED
    BY <1>2, <2>3
<1>. QED
  BY <1>2, <1>3

-----------------------------------------------------------------------------
(* Dictionaries.                                                           *)

Entries ==
  [key : Keys \cup {Null}, value : Values \cup {Null}, next : Int, prev : Int,
   everused : BOOLEAN, valid : BOOLEAN, hash : Nat]
Arrays == UNION {[0 .. n - 1 -> Entries] : n \in {m \in Nat : PowerOfTwo(m)}}
IsDict(d) ==
  /\ d \in [kind : {Eql, Identity}, entries : Arrays, num_items : Int, first_entry : Int,
            last_entry : Int, resize_counter : Int]
  /\ \A i \in DOMAIN d.entries :
       IF d.entries[i].valid THEN d.entries[i].key \in Keys /\ d.entries[i].value \in Values /\ d.entries[i].everused
       ELSE d.entries[i] \in {Zeroed, Deleted}

(* The links go through the slots s, which are those in use.               *)
Nth(s, k) == IF k \in DOMAIN s THEN s[k] ELSE -1
Chain(d, s) ==
  /\ s \in Seq(Nat)
  /\ \A k \in DOMAIN s :
       /\ s[k] \in DOMAIN d.entries /\ d.entries[s[k]].valid
       /\ d.entries[s[k]].prev = Nth(s, k - 1) /\ d.entries[s[k]].next = Nth(s, k + 1)
  /\ \A k, l \in DOMAIN s : s[k] = s[l] => k = l
  /\ \A i \in DOMAIN d.entries : d.entries[i].valid => \E k \in DOMAIN s : s[k] = i
  /\ d.first_entry = Nth(s, 1) /\ d.last_entry = Nth(s, Len(s)) /\ d.num_items = Len(s)

Ever(d) == {i \in DOMAIN d.entries : d.entries[i].everused}
Counts(d) == d.resize_counter = 2 * Size(d) - 3 * Cardinality(Ever(d))
(* A slot never used is left.                                              *)
HasRoom(d) == Counts(d) /\ d.resize_counter > 0

LEMMA IntervalSize ==
  ASSUME NEW n \in Nat
  PROVE  IsFiniteSet(0 .. n - 1) /\ Cardinality(0 .. n - 1) = n
<1>1. 0 \in Int /\ n - 1 \in Int
  OBVIOUS
<1>2. IsFiniteSet(0 .. n - 1) /\ Cardinality(0 .. n - 1) = IF 0 > n - 1 THEN 0 ELSE (n - 1) - 0 + 1
  BY <1>1, FS_Interval
<1>. QED
  BY <1>2

LEMMA ZeroedIs == Zeroed \in Entries /\ Deleted \in Entries /\ ~Zeroed.valid /\ ~Deleted.valid
                  /\ ~Zeroed.everused /\ Deleted.everused /\ Zeroed.key = Null /\ Deleted.key = Null
<1>1. Zeroed \in Entries
  BY DEF Zeroed, Entries
<1>2. Deleted \in Entries /\ Deleted.everused /\ Deleted.valid = Zeroed.valid /\ Deleted.key = Zeroed.key
  BY <1>1 DEF Entries, Deleted
<1>. QED
  BY <1>1, <1>2 DEF Zeroed

LEMMA DictFacts ==
  ASSUME NEW d, IsDict(d)
  PROVE  /\ Size(d) \in Nat \ {0} /\ PowerOfTwo(Size(d))
         /\ DOMAIN d.entries = 0 .. Size(d) - 1
         /\ d.entries \in [0 .. Size(d) - 1 -> Entries]
         /\ \A i \in 0 .. Size(d) - 1 :
              /\ d.entries[i].valid \in BOOLEAN /\ d.entries[i].everused \in BOOLEAN
              /\ d.entries[i].hash \in Nat /\ (d.entries[i].valid => d.entries[i].everused)
              /\ d.entries[i].valid <=> d.entries[i].key # Null
         /\ d.kind \in {Eql, Identity}
<1>1. PICK n \in Nat : PowerOfTwo(n) /\ d.entries \in [0 .. n - 1 -> Entries]
  BY DEF IsDict, Arrays
<1>2. Size(d) = n /\ DOMAIN d.entries = 0 .. n - 1
  BY <1>1, IntervalSize DEF Size
<1>3. n \in Nat \ {0}
  BY <1>1 DEF PowerOfTwo
<1>4. ASSUME NEW i \in 0 .. n - 1
      PROVE  /\ d.entries[i].valid \in BOOLEAN /\ d.entries[i].everused \in BOOLEAN
             /\ d.entries[i].hash \in Nat /\ (d.entries[i].valid => d.entries[i].everused)
             /\ d.entries[i].valid <=> d.entries[i].key # Null
  <2>1. d.entries[i] \in Entries
    BY <1>1
  <2>2. d.entries[i].valid \in BOOLEAN /\ d.entries[i].everused \in BOOLEAN /\ d.entries[i].hash \in Nat
    BY <2>1 DEF Entries
  <2>3. CASE d.entries[i].valid
    BY <1>2, <2>2, <2>3, DictAssumption DEF IsDict
  <2>4. CASE ~d.entries[i].valid
    BY <1>2, <2>2, <2>4, ZeroedIs DEF IsDict
  <2>. QED
    BY <2>2, <2>3, <2>4
<1>5. d.kind \in {Eql, Identity}
  BY DEF IsDict
<1>. QED
  BY <1>1, <1>2, <1>3, <1>4, <1>5

LEMMA DictIf ==
  ASSUME NEW d, NEW n \in Nat, PowerOfTwo(n), d.entries \in [0 .. n - 1 -> Entries],
         d.kind \in {Eql, Identity}, d.num_items \in Int, d.first_entry \in Int,
         d.last_entry \in Int, d.resize_counter \in Int,
         d = [kind |-> d.kind, entries |-> d.entries, num_items |-> d.num_items,
              first_entry |-> d.first_entry, last_entry |-> d.last_entry,
              resize_counter |-> d.resize_counter],
         \A i \in 0 .. n - 1 :
           IF d.entries[i].valid
           THEN d.entries[i].key \in Keys /\ d.entries[i].value \in Values /\ d.entries[i].everused
           ELSE d.entries[i] \in {Zeroed, Deleted}
  PROVE  IsDict(d) /\ Size(d) = n
<1>1. d.entries \in Arrays
  BY DEF Arrays
<1>2. Cardinality(0 .. n - 1) = n
  BY IntervalSize
<1>3. DOMAIN d.entries = 0 .. n - 1
  OBVIOUS
<1>. QED
  BY <1>1, <1>2, <1>3 DEF IsDict, Size

LEMMA NewdictEmpty ==
  ASSUME NEW n \in Nat, PowerOfTwo(n), NEW kind \in {Eql, Identity}
  PROVE  /\ IsDict(newdict(kind, n)) /\ Size(newdict(kind, n)) = n
         /\ Chain(newdict(kind, n), <<>>) /\ HasRoom(newdict(kind, n))
         /\ newdict(kind, n).kind = kind /\ Ever(newdict(kind, n)) = {}
<1>. DEFINE d == newdict(kind, n)
            entries == [i \in 0 .. n - 1 |-> Zeroed]
<1>1. IsDict(d) /\ Size(d) = n
  <2>1. entries \in [0 .. n - 1 -> Entries] /\ \A i \in 0 .. n - 1 : entries[i] = Zeroed
    BY ZeroedIs
  <2>2. /\ d.kind = kind /\ d.entries = entries /\ d.num_items = 0 /\ d.first_entry = -1
        /\ d.last_entry = -1 /\ d.resize_counter = 2 * n
        /\ d = [kind |-> d.kind, entries |-> d.entries, num_items |-> d.num_items,
                first_entry |-> d.first_entry, last_entry |-> d.last_entry,
                resize_counter |-> d.resize_counter]
    BY DEF newdict
  <2>3. 2 * n \in Int /\ 0 \in Int /\ -1 \in Int
    OBVIOUS
  <2>. HIDE DEF entries, d
  <2>. QED
    BY <2>1, <2>2, <2>3, DictIf, ZeroedIs
<1>2. /\ d.kind = kind /\ d.num_items = 0 /\ d.first_entry = -1 /\ d.last_entry = -1
      /\ d.resize_counter = 2 * n /\ d.entries = entries
  BY DEF newdict
<1>3. \A i \in DOMAIN d.entries : ~d.entries[i].valid /\ ~d.entries[i].everused
  BY <1>2, ZeroedIs
<1>4. Chain(d, <<>>)
  <2>. HIDE DEF d
  <2>. QED
    BY <1>2, <1>3 DEF Chain, Nth
<1>5. Ever(d) = {}
  BY <1>3 DEF Ever
<1>6. n > 0
  BY DEF PowerOfTwo
<1>. HIDE DEF d
<1>7. HasRoom(d)
  BY <1>1, <1>2, <1>5, <1>6, FS_EmptySet DEF HasRoom, Counts
<1>. QED
  BY <1>1, <1>2, <1>4, <1>5, <1>7 DEF d

(* A slot never used is left.                                              *)
LEMMA RoomLeft ==
  ASSUME NEW d, IsDict(d), HasRoom(d)
  PROVE  \E i \in 0 .. Size(d) - 1 : ~d.entries[i].everused
<1>. DEFINE n == Size(d)
<1>1. n \in Nat \ {0} /\ DOMAIN d.entries = 0 .. n - 1
  BY DictFacts
<1>. SUFFICES ASSUME \A i \in 0 .. n - 1 : d.entries[i].everused
              PROVE  FALSE
  OBVIOUS
<1>2. Ever(d) = 0 .. n - 1
  BY <1>1 DEF Ever
<1>3. Cardinality(Ever(d)) = n
  BY <1>1, <1>2, IntervalSize
<1>. HIDE DEF n
<1>. QED
  BY <1>1, <1>3 DEF HasRoom, Counts, n

-----------------------------------------------------------------------------
(* Deletion.                                                               *)

LEMMA RemovedAt ==
  ASSUME NEW S, NEW s \in Seq(S), NEW k \in DOMAIN s
  PROVE  /\ RemoveAt(s, k) \in Seq(S) /\ Len(RemoveAt(s, k)) = Len(s) - 1
         /\ \A m \in 1 .. Len(s) - 1 : RemoveAt(s, k)[m] = IF m < k THEN s[m] ELSE s[m + 1]
<1>. DEFINE a == SubSeq(s, 1, k - 1)
            b == SubSeq(s, k + 1, Len(s))
<1>1. Len(s) \in Nat /\ DOMAIN s = 1 .. Len(s) /\ k \in 1 .. Len(s) /\ \A i \in 1 .. Len(s) : s[i] \in S
  BY LenProperties, ElementOfSeq
<1>2. /\ a \in Seq(S) /\ Len(a) = k - 1 /\ \A i \in 1 .. k - 1 : a[i] = s[i]
  <2>1. 1 \in Int /\ k - 1 \in Int /\ \A i \in 1 .. k - 1 : s[i] \in S
    BY <1>1
  <2>2. /\ a \in Seq(S) /\ Len(a) = (IF 1 <= k - 1 THEN (k - 1) - 1 + 1 ELSE 0)
        /\ \A i \in 1 .. (k - 1) - 1 + 1 : a[i] = s[1 + i - 1]
    BY <2>1, SubSeqProperties
  <2>. HIDE DEF a
  <2>3. ASSUME NEW i \in 1 .. k - 1
        PROVE  a[i] = s[i]
    <3>1. i \in 1 .. (k - 1) - 1 + 1 /\ 1 + i - 1 = i
      BY <1>1
    <3>. QED
      BY <2>2, <3>1
  <2>. QED
    BY <1>1, <2>2, <2>3
<1>3. /\ b \in Seq(S) /\ Len(b) = Len(s) - k /\ \A i \in 1 .. Len(s) - k : b[i] = s[k + i]
  <2>1. k + 1 \in Int /\ Len(s) \in Int /\ \A i \in k + 1 .. Len(s) : s[i] \in S
    BY <1>1
  <2>2. /\ b \in Seq(S) /\ Len(b) = (IF k + 1 <= Len(s) THEN Len(s) - (k + 1) + 1 ELSE 0)
        /\ \A i \in 1 .. Len(s) - (k + 1) + 1 : b[i] = s[(k + 1) + i - 1]
    BY <2>1, SubSeqProperties
  <2>. HIDE DEF b
  <2>3. ASSUME NEW i \in 1 .. Len(s) - k
        PROVE  b[i] = s[k + i]
    <3>1. i \in 1 .. Len(s) - (k + 1) + 1 /\ (k + 1) + i - 1 = k + i
      BY <1>1
    <3>. QED
      BY <2>2, <3>1
  <2>. QED
    BY <1>1, <2>2, <2>3
<1>4. RemoveAt(s, k) = a \o b
  BY DEF RemoveAt
<1>. HIDE DEF a, b
<1>5. /\ a \o b \in Seq(S) /\ Len(a \o b) = Len(a) + Len(b)
      /\ \A i \in 1 .. Len(a) + Len(b) : (a \o b)[i] = IF i <= Len(a) THEN a[i] ELSE b[i - Len(a)]
  BY <1>2, <1>3, ConcatProperties
<1>6. ASSUME NEW m \in 1 .. Len(s) - 1
      PROVE  (a \o b)[m] = IF m < k THEN s[m] ELSE s[m + 1]
  <2>1. m \in 1 .. Len(a) + Len(b) /\ m \in Nat
    BY <1>1, <1>2, <1>3
  <2>2. CASE m < k
    BY <1>1, <1>2, <1>5, <2>1, <2>2
  <2>3. CASE ~(m < k)
    <3>1. m - Len(a) \in 1 .. Len(s) - k /\ k + (m - Len(a)) = m + 1
      BY <1>1, <1>2, <2>1, <2>3
    <3>2. (a \o b)[m] = b[m - Len(a)]
      BY <1>1, <1>2, <1>5, <2>1, <2>3
    <3>. QED
      BY <1>3, <2>3, <3>1, <3>2
  <2>. QED
    BY <2>2, <2>3
<1>. QED
  BY <1>1, <1>2, <1>3, <1>4, <1>5, <1>6

Alike(a, b) ==
  /\ a.key = b.key /\ a.value = b.value /\ a.hash = b.hash
  /\ a.valid = b.valid /\ a.everused = b.everused
(* d and e have the same entries but for slot i.                           *)
SameBut(d, e, i) ==
  /\ e.kind = d.kind /\ Size(e) = Size(d)
  /\ \A j \in 0 .. Size(d) - 1 : j # i => Alike(e.entries[j], d.entries[j])

LEMMA ChainFacts ==
  ASSUME NEW d, IsDict(d), NEW s, Chain(d, s)
  PROVE  /\ s \in Seq(Nat) /\ Len(s) \in Nat /\ DOMAIN s = 1 .. Len(s)
         /\ \A k \in 1 .. Len(s) : s[k] \in 0 .. Size(d) - 1 /\ s[k] \in Nat /\ d.entries[s[k]].valid
         /\ \A k : Nth(s, k) \in Int /\ (Nth(s, k) = -1 <=> k \notin 1 .. Len(s))
         /\ d.num_items = Len(s) /\ d.first_entry = Nth(s, 1) /\ d.last_entry = Nth(s, Len(s))
<1>1. s \in Seq(Nat) /\ Len(s) \in Nat /\ DOMAIN s = 1 .. Len(s)
  BY LenProperties DEF Chain
<1>2. \A k \in 1 .. Len(s) : s[k] \in 0 .. Size(d) - 1 /\ s[k] \in Nat /\ d.entries[s[k]].valid
  <2>. SUFFICES ASSUME NEW k \in 1 .. Len(s)
                PROVE  s[k] \in 0 .. Size(d) - 1 /\ s[k] \in Nat /\ d.entries[s[k]].valid
    OBVIOUS
  <2>1. s[k] \in DOMAIN d.entries /\ d.entries[s[k]].valid
    BY <1>1 DEF Chain
  <2>2. s[k] \in Nat
    BY <1>1, ElementOfSeq
  <2>. QED
    BY <2>1, <2>2, DictFacts
<1>3. ASSUME NEW k
      PROVE  Nth(s, k) \in Int /\ (Nth(s, k) = -1 <=> k \notin 1 .. Len(s))
  <2>1. CASE k \in 1 .. Len(s)
    BY <1>1, <1>2, <2>1 DEF Nth
  <2>2. CASE k \notin 1 .. Len(s)
    BY <1>1, <2>2 DEF Nth
  <2>. QED
    BY <2>1, <2>2
<1>. QED
  BY <1>1, <1>2, <1>3 DEF Chain

LEMMA Neighbours ==
  ASSUME NEW n \in Nat, NEW k \in 1 .. n
  PROVE  (k - 1 \notin 1 .. n <=> k = 1) /\ (k + 1 \notin 1 .. n <=> k = n)
OBVIOUS

LEMMA EntryExcept ==
  ASSUME NEW e \in Entries, NEW v \in Int
  PROVE  /\ [e EXCEPT !.next = v] \in Entries /\ [e EXCEPT !.prev = v] \in Entries
         /\ Alike([e EXCEPT !.next = v], e) /\ Alike([e EXCEPT !.prev = v], e)
         /\ [e EXCEPT !.next = v].next = v /\ [e EXCEPT !.next = v].prev = e.prev
         /\ [e EXCEPT !.prev = v].prev = v /\ [e EXCEPT !.prev = v].next = e.next
BY DEF Entries, Alike

LEMMA DelEntries ==
  ASSUME NEW d, IsDict(d), NEW s, Chain(d, s), NEW k \in 1 .. Len(s)
  PROVE  LET i == s[k]
             e == Del(d, i)
             n == Size(d)
         IN  /\ e.entries \in [0 .. n - 1 -> Entries] /\ e.entries[i] = Deleted
             /\ \A j \in 0 .. n - 1 : j # i =>
                  /\ Alike(e.entries[j], d.entries[j])
                  /\ e.entries[j].next = IF j = Nth(s, k - 1) THEN Nth(s, k + 1) ELSE d.entries[j].next
                  /\ e.entries[j].prev = IF j = Nth(s, k + 1) THEN Nth(s, k - 1) ELSE d.entries[j].prev
             /\ e = [kind |-> d.kind, entries |-> e.entries, num_items |-> Len(s) - 1,
                     first_entry |-> IF k = 1 THEN Nth(s, 2) ELSE Nth(s, 1),
                     last_entry |-> IF k = Len(s) THEN Nth(s, k - 1) ELSE Nth(s, Len(s)),
                     resize_counter |-> d.resize_counter]
<1>. DEFINE i == s[k]
            n == Size(d)
            p == Nth(s, k - 1)
            q == Nth(s, k + 1)
            skipped == [j \in DOMAIN d.entries |->
                    CASE j = i -> Deleted
                      [] j = p /\ j # i -> [d.entries[j] EXCEPT !.next = q]
                      [] j = q /\ j # i -> [d.entries[j] EXCEPT !.prev = p]
                      [] OTHER -> d.entries[j]]
<1>1. /\ i \in 0 .. n - 1 /\ DOMAIN d.entries = 0 .. n - 1 /\ d.entries \in [0 .. n - 1 -> Entries]
      /\ p \in Int /\ q \in Int /\ DOMAIN s = 1 .. Len(s) /\ Len(s) \in Nat /\ n \in Nat
  BY ChainFacts, DictFacts
<1>2. d.entries[i].prev = p /\ d.entries[i].next = q
  BY <1>1 DEF Chain
<1>3. Del(d, i).entries = skipped
  BY <1>2 DEF Del, IsDict
<1>4. p = q => p = -1
  <2>. SUFFICES ASSUME p = q, p # -1 PROVE FALSE
    OBVIOUS
  <2>1. k - 1 \in 1 .. Len(s) /\ k + 1 \in 1 .. Len(s)
    BY ChainFacts
  <2>2. s[k - 1] = s[k + 1]
    BY <1>1, <2>1 DEF Nth
  <2>3. k - 1 = k + 1
    BY <1>1, <2>1, <2>2 DEF Chain
  <2>. QED
    BY <1>1, <2>3
<1>5. ASSUME NEW j \in 0 .. n - 1, j # i
      PROVE  /\ skipped[j] \in Entries
             /\ Alike(skipped[j], d.entries[j])
             /\ skipped[j].next = IF j = p THEN q ELSE d.entries[j].next
             /\ skipped[j].prev = IF j = q THEN p ELSE d.entries[j].prev
  <2>0. j # -1 /\ d.entries[j] \in Entries
    <3>. HIDE DEF n
    <3>. QED
      BY <1>1
  <2>1. CASE j = p
    <3>1. skipped[j] = [d.entries[j] EXCEPT !.next = q] /\ j # q
      BY <1>1, <1>4, <1>5, <2>0, <2>1
    <3>. HIDE DEF p, q, skipped, n, i
    <3>. DEFINE o == d.entries[j]
    <3>2. o \in Entries /\ q \in Int
      BY <1>1, <2>0
    <3>. HIDE DEF o
    <3>3. LET x == [o EXCEPT !.next = q]
          IN  x \in Entries /\ Alike(x, o) /\ x.next = q /\ x.prev = o.prev
      BY <3>2, EntryExcept
    <3>4. skipped[j] = [o EXCEPT !.next = q]
      BY <3>1 DEF o
    <3>5. /\ skipped[j] \in Entries /\ Alike(skipped[j], d.entries[j])
          /\ skipped[j].next = q /\ skipped[j].prev = d.entries[j].prev
      BY <3>3, <3>4 DEF o
    <3>. QED
      BY <2>1, <3>1, <3>5
  <2>2. CASE j = q /\ j # p
    <3>1. skipped[j] = [d.entries[j] EXCEPT !.prev = p]
      BY <1>1, <1>5, <2>2
    <3>. HIDE DEF p, q, skipped, n, i
    <3>. DEFINE o == d.entries[j]
    <3>2. o \in Entries /\ p \in Int
      BY <1>1, <2>0
    <3>. HIDE DEF o
    <3>3. LET x == [o EXCEPT !.prev = p]
          IN  x \in Entries /\ Alike(x, o) /\ x.prev = p /\ x.next = o.next
      BY <3>2, EntryExcept
    <3>4. skipped[j] = [o EXCEPT !.prev = p]
      BY <3>1 DEF o
    <3>5. /\ skipped[j] \in Entries /\ Alike(skipped[j], d.entries[j])
          /\ skipped[j].prev = p /\ skipped[j].next = d.entries[j].next
      BY <3>3, <3>4 DEF o
    <3>. QED
      BY <2>2, <3>1, <3>5
  <2>3. CASE j # q /\ j # p
    <3>1. skipped[j] = d.entries[j]
      BY <1>1, <1>5, <2>3
    <3>. HIDE DEF p, q, skipped, n, i
    <3>. QED
      BY <2>0, <2>3, <3>1 DEF Alike
  <2>. QED
    BY <2>1, <2>2, <2>3
<1>6. skipped[i] = Deleted /\ DOMAIN skipped = 0 .. n - 1
  BY <1>1
<1>7. skipped \in [0 .. n - 1 -> Entries]
  <2>1. \A j \in 0 .. n - 1 : skipped[j] \in Entries
    BY <1>5, <1>6, ZeroedIs
  <2>2. skipped = [j \in 0 .. n - 1 |-> skipped[j]]
    BY <1>1
  <2>. HIDE DEF skipped
  <2>. QED
    BY <2>1, <2>2
<1>8. /\ d.first_entry = Nth(s, 1) /\ d.last_entry = Nth(s, Len(s)) /\ d.num_items = Len(s)
      /\ (p = -1 <=> k = 1) /\ (q = -1 <=> k = Len(s))
  <2>1. (p = -1 <=> k - 1 \notin 1 .. Len(s)) /\ (q = -1 <=> k + 1 \notin 1 .. Len(s))
    BY ChainFacts
  <2>2. (k - 1 \notin 1 .. Len(s) <=> k = 1) /\ (k + 1 \notin 1 .. Len(s) <=> k = Len(s))
    BY <1>1, Neighbours
  <2>3. d.first_entry = Nth(s, 1) /\ d.last_entry = Nth(s, Len(s)) /\ d.num_items = Len(s)
    BY ChainFacts
  <2>. QED
    BY <2>1, <2>2, <2>3
<1>. DEFINE e == [kind |-> d.kind, entries |-> skipped, num_items |-> Len(s) - 1,
                     first_entry |-> IF k = 1 THEN Nth(s, 2) ELSE Nth(s, 1),
                     last_entry |-> IF k = Len(s) THEN Nth(s, k - 1) ELSE Nth(s, Len(s)),
                     resize_counter |-> d.resize_counter]
<1>9. Del(d, i) = e
  <2>1. Del(d, i) = [d EXCEPT !.entries = skipped, !.num_items = @ - 1,
                              !.first_entry = IF p = -1 THEN q ELSE @,
                              !.last_entry = IF q = -1 THEN p ELSE @]
    BY <1>2 DEF Del
  <2>2. d = [kind |-> d.kind, entries |-> d.entries, num_items |-> d.num_items, first_entry |-> d.first_entry,
             last_entry |-> d.last_entry, resize_counter |-> d.resize_counter]
    BY DEF IsDict
  <2>. HIDE DEF skipped, p, q, i
  <2>3. k = 1 => q = Nth(s, 2)
    BY DEF q
  <2>. QED
    BY <2>1, <2>2, <2>3, <1>8 DEF p
<1>. HIDE DEF skipped
<1>10. e.entries = skipped
  OBVIOUS
<1>. HIDE DEF e
<1>11. Del(d, i).entries = skipped /\ e = Del(d, i)
  BY <1>9, <1>10
<1>12. e = [kind |-> d.kind, entries |-> e.entries, num_items |-> Len(s) - 1,
                     first_entry |-> IF k = 1 THEN Nth(s, 2) ELSE Nth(s, 1),
                     last_entry |-> IF k = Len(s) THEN Nth(s, k - 1) ELSE Nth(s, Len(s)),
                     resize_counter |-> d.resize_counter]
  BY <1>10 DEF e
<1>. QED
  BY <1>5, <1>6, <1>7, <1>11, <1>12

LEMMA DelChain ==
  ASSUME NEW d, IsDict(d), NEW s, Chain(d, s), NEW k \in 1 .. Len(s),
         NEW e, NEW n \in Nat, n = Size(d), DOMAIN e.entries = 0 .. n - 1, NEW t, t = RemoveAt(s, k),
         ~e.entries[s[k]].valid,
         \A j \in 0 .. n - 1 : j # s[k] =>
           /\ Alike(e.entries[j], d.entries[j])
           /\ e.entries[j].next = IF j = Nth(s, k - 1) THEN Nth(s, k + 1) ELSE d.entries[j].next
           /\ e.entries[j].prev = IF j = Nth(s, k + 1) THEN Nth(s, k - 1) ELSE d.entries[j].prev,
         e.num_items = Len(s) - 1,
         e.first_entry = IF k = 1 THEN Nth(s, 2) ELSE Nth(s, 1),
         e.last_entry = IF k = Len(s) THEN Nth(s, k - 1) ELSE Nth(s, Len(s))
  PROVE  Chain(e, t)
<1>1. /\ s \in Seq(Nat) /\ Len(s) \in Nat /\ DOMAIN s = 1 .. Len(s)
      /\ \A m \in 1 .. Len(s) : s[m] \in 0 .. n - 1 /\ d.entries[s[m]].valid
  BY ChainFacts
<1>2. \A l, m \in 1 .. Len(s) : s[l] = s[m] => l = m
  BY <1>1, Zenon DEF Chain
<1>. DEFINE len == Len(s)
            At0(m) == IF m < k THEN m ELSE m + 1
<1>3. t \in Seq(Nat) /\ Len(t) = len - 1 /\ DOMAIN t = 1 .. len - 1
  <2>1. k \in DOMAIN s
    BY <1>1
  <2>2. t \in Seq(Nat) /\ Len(t) = Len(s) - 1
    BY <1>1, <2>1, RemovedAt
  <2>3. DOMAIN t = 1 .. Len(t)
    BY <2>2, LenProperties
  <2>. QED
    BY <2>2, <2>3
<1>l. len \in Nat /\ k \in 1 .. len
  BY <1>1
<1>4. \A m \in 1 .. len - 1 : t[m] = s[At0(m)] /\ At0(m) \in 1 .. len /\ At0(m) # k
  <2>0. k \in DOMAIN s
    BY <1>1
  <2>. SUFFICES ASSUME NEW m \in 1 .. len - 1
                PROVE  t[m] = s[At0(m)] /\ At0(m) \in 1 .. len /\ At0(m) # k
    OBVIOUS
  <2>1. t[m] = IF m < k THEN s[m] ELSE s[m + 1]
    BY <1>1, <2>0, RemovedAt
  <2>. HIDE DEF len
  <2>2. CASE m < k
    BY <1>l, <2>1, <2>2
  <2>3. CASE ~(m < k)
    BY <1>l, <2>1, <2>3
  <2>. QED
    BY <2>2, <2>3
<1>5. \A m : Nth(s, m) = IF m \in 1 .. len THEN s[m] ELSE -1
  BY <1>1 DEF Nth
<1>6. \A m : Nth(t, m) = IF m \in 1 .. len - 1 THEN t[m] ELSE -1
  BY <1>3 DEF Nth
<1>7. \A m \in Int : Nth(t, m) = IF m < k THEN IF m = len THEN -1 ELSE Nth(s, m) ELSE Nth(s, m + 1)
  <2>. SUFFICES ASSUME NEW m \in Int
                PROVE  Nth(t, m) = IF m < k THEN IF m = len THEN -1 ELSE Nth(s, m) ELSE Nth(s, m + 1)
    OBVIOUS
  <2>1. len \in Nat /\ k \in 1 .. len
    BY <1>1
  <2>. HIDE DEF len
  <2>2. CASE m \in 1 .. len - 1
    <3>1. Nth(t, m) = s[At0(m)] /\ m # len
      BY <1>4, <1>6, <2>1, <2>2
    <3>2. m < k => At0(m) = m /\ Nth(s, m) = s[m]
      <4>1. m \in 1 .. len
        BY <2>1, <2>2
      <4>. QED
        BY <1>5, <4>1
    <3>3. ~(m < k) => At0(m) = m + 1 /\ Nth(s, m + 1) = s[m + 1]
      BY <1>5, <2>1, <2>2
    <3>. QED
      BY <3>1, <3>2, <3>3
  <2>3. CASE m \notin 1 .. len - 1
    <3>1. Nth(t, m) = -1
      BY <1>6, <2>3
    <3>2. m < k /\ m # len => Nth(s, m) = -1
      BY <1>5, <2>1, <2>3
    <3>3. ~(m < k) => Nth(s, m + 1) = -1
      BY <1>5, <2>1, <2>3
    <3>. QED
      BY <3>1, <3>2, <3>3
  <2>. QED
    BY <2>2, <2>3
<1>8. ASSUME NEW m \in 1 .. len - 1
      PROVE  /\ t[m] \in 0 .. n - 1 /\ e.entries[t[m]].valid
             /\ e.entries[t[m]].prev = Nth(t, m - 1) /\ e.entries[t[m]].next = Nth(t, m + 1)
  <2>. DEFINE a == At0(m)
              j == s[a]
  <2>1. t[m] = j /\ a \in 1 .. len /\ a # k
    BY <1>4
  <2>2. j \in 0 .. n - 1 /\ d.entries[j].valid /\ j # s[k]
    BY <1>1, <1>2, <2>1
  <2>3. d.entries[j].prev = Nth(s, a - 1) /\ d.entries[j].next = Nth(s, a + 1)
    BY <1>1, <2>1 DEF Chain
  <2>4. j = Nth(s, k - 1) <=> a = k - 1
    <3>. HIDE DEF a
    <3>1. k - 1 \in 1 .. len => Nth(s, k - 1) = s[k - 1] /\ (s[k - 1] = j <=> k - 1 = a)
      BY <1>2, <1>5, <2>1
    <3>2. k - 1 \notin 1 .. len => Nth(s, k - 1) = -1 /\ a # k - 1 /\ j # -1
      BY <1>5, <2>1, <2>2
    <3>. QED
      BY <3>1, <3>2
  <2>5. j = Nth(s, k + 1) <=> a = k + 1
    <3>. HIDE DEF a
    <3>1. k + 1 \in 1 .. len => Nth(s, k + 1) = s[k + 1] /\ (s[k + 1] = j <=> k + 1 = a)
      BY <1>2, <1>5, <2>1
    <3>2. k + 1 \notin 1 .. len => Nth(s, k + 1) = -1 /\ a # k + 1 /\ j # -1
      BY <1>5, <2>1, <2>2
    <3>. QED
      BY <3>1, <3>2
  <2>6. /\ e.entries[j].valid
        /\ e.entries[j].next = IF a = k - 1 THEN Nth(s, k + 1) ELSE Nth(s, a + 1)
        /\ e.entries[j].prev = IF a = k + 1 THEN Nth(s, k - 1) ELSE Nth(s, a - 1)
    <3>. HIDE DEF j
    <3>. QED
      BY <2>2, <2>3, <2>4, <2>5 DEF Alike
  <2>. HIDE DEF j
  <2>7. len \in Nat /\ k \in 1 .. len /\ m \in Int
    BY <1>1
  <2>8. Nth(t, m + 1) = e.entries[j].next
    <3>. HIDE DEF len
    <3>1. CASE m < k - 1
      <4>1. a = m /\ m + 1 < k /\ m + 1 # len /\ a # k - 1 /\ m + 1 \in Int
        BY <2>7, <3>1
      <4>. HIDE DEF a, At0
      <4>. QED
        BY <1>7, <2>6, <4>1
    <3>2. CASE m = k - 1
      <4>1. a = k - 1 /\ ~(m + 1 < k) /\ m + 1 \in Int /\ (m + 1) + 1 = k + 1
        BY <2>7, <3>2
      <4>. HIDE DEF a, At0
      <4>. QED
        BY <1>7, <2>6, <4>1
    <3>3. CASE m > k - 1
      <4>1. a = m + 1 /\ ~(m + 1 < k) /\ m + 1 \in Int /\ a # k - 1
        BY <2>7, <3>3
      <4>. HIDE DEF a, At0
      <4>. QED
        BY <1>7, <2>6, <4>1
    <3>. QED
      BY <2>7, <3>1, <3>2, <3>3
  <2>9. Nth(t, m - 1) = e.entries[j].prev
    <3>. HIDE DEF len
    <3>1. CASE m < k
      <4>1. a = m /\ m - 1 < k /\ m - 1 # len /\ a # k + 1 /\ m - 1 \in Int
        BY <2>7, <3>1
      <4>. HIDE DEF a, At0
      <4>. QED
        BY <1>7, <2>6, <4>1
    <3>2. CASE m = k
      <4>1. a = k + 1 /\ m - 1 < k /\ m - 1 \in Int /\ m - 1 = k - 1 /\ m - 1 # len
        BY <2>7, <3>2
      <4>. HIDE DEF a, At0
      <4>. QED
        BY <1>7, <2>6, <4>1
    <3>3. CASE m > k
      <4>1. a = m + 1 /\ ~(m - 1 < k) /\ m - 1 \in Int /\ a # k + 1 /\ a - 1 = (m - 1) + 1
        BY <2>7, <3>3
      <4>. HIDE DEF a, At0
      <4>. QED
        BY <1>7, <2>6, <4>1
    <3>. QED
      BY <2>7, <3>1, <3>2, <3>3
  <2>. QED
    BY <2>1, <2>2, <2>6, <2>8, <2>9
<1>9. \A l, m \in 1 .. len - 1 : t[l] = t[m] => l = m
  <2>. SUFFICES ASSUME NEW l \in 1 .. len - 1, NEW m \in 1 .. len - 1, t[l] = t[m]
                PROVE  l = m
    OBVIOUS
  <2>1. At0(l) = At0(m)
    <3>. HIDE DEF At0, len
    <3>1. t[l] = s[At0(l)] /\ t[m] = s[At0(m)] /\ At0(l) \in 1 .. len /\ At0(m) \in 1 .. len
      BY <1>4
    <3>. QED
      BY <1>2, <3>1 DEF len
  <2>2. l \in Int /\ m \in Int /\ k \in Int
    BY <1>l
  <2>. HIDE DEF len
  <2>. QED
    BY <2>1, <2>2
<1>10. ASSUME NEW j \in 0 .. n - 1, e.entries[j].valid
       PROVE  \E m \in 1 .. len - 1 : t[m] = j
  <2>1. j # s[k] /\ d.entries[j].valid
    BY <1>10 DEF Alike
  <2>2. PICK a \in 1 .. len : s[a] = j
    <3>1. j \in DOMAIN d.entries
      BY DictFacts
    <3>2. \E a \in DOMAIN s : s[a] = j
      BY <2>1, <3>1 DEF Chain
    <3>3. DOMAIN s = 1 .. len
      BY ChainFacts
    <3>. QED
      BY <3>2, <3>3
  <2>3. a # k
    BY <2>1, <2>2
  <2>. DEFINE m == IF a < k THEN a ELSE a - 1
  <2>4. m \in 1 .. len - 1 /\ At0(m) = a
    <3>. HIDE DEF len
    <3>0. a \in 1 .. len
      BY <2>2 DEF len
    <3>1. CASE a < k
      BY <1>l, <3>0, <3>1
    <3>2. CASE a > k
      BY <1>l, <3>0, <3>2
    <3>. QED
      BY <1>l, <3>0, <2>3, <3>1, <3>2
  <2>. HIDE DEF m, At0
  <2>. QED
    BY <1>4, <2>2, <2>4
<1>11. e.first_entry = Nth(t, 1) /\ e.last_entry = Nth(t, Len(t)) /\ e.num_items = Len(t)
  <2>1. len \in Nat /\ k \in 1 .. len
    BY <1>1
  <2>2. e.num_items = Len(t)
    BY <1>3
  <2>3. e.first_entry = Nth(t, 1)
    <3>1. CASE k = 1
      BY <1>7, <3>1
    <3>2. CASE k # 1
      <4>1. 1 < k /\ 1 # len
        BY <2>1, <3>2
      <4>. QED
        BY <1>7, <3>2, <4>1
    <3>. QED
      BY <3>1, <3>2
  <2>4. e.last_entry = Nth(t, Len(t))
    <3>1. CASE k = len
      <4>1. len - 1 < k /\ len - 1 # len /\ len - 1 \in Int
        BY <2>1, <3>1
      <4>. QED
        BY <1>3, <1>7, <3>1, <4>1
    <3>2. CASE k # len
      <4>1. ~(len - 1 < k) /\ len - 1 \in Int /\ (len - 1) + 1 = len
        BY <2>1, <3>2
      <4>2. Nth(t, len - 1) = Nth(s, len)
        BY <1>7, <4>1
      <4>. QED
        BY <1>3, <3>2, <4>2
    <3>. QED
      BY <3>1, <3>2
  <2>. QED
    BY <2>2, <2>3, <2>4
<1>. HIDE DEF len, At0
<1>12. \A l, m \in DOMAIN t : t[l] = t[m] => l = m
  BY <1>3, <1>9
<1>13. \A j \in DOMAIN e.entries : e.entries[j].valid => \E m \in DOMAIN t : t[m] = j
  BY <1>3, <1>10
<1>14. \A m \in DOMAIN t :
         /\ t[m] \in DOMAIN e.entries /\ e.entries[t[m]].valid
         /\ e.entries[t[m]].prev = Nth(t, m - 1) /\ e.entries[t[m]].next = Nth(t, m + 1)
  BY <1>3, <1>8
<1>. QED
  BY <1>3, <1>11, <1>12, <1>13, <1>14 DEF Chain

(* d and e are dictionaries with the same slots in use ever.               *)
LEMMA DelKeeps ==
  ASSUME NEW d, IsDict(d), NEW s, Chain(d, s), NEW k \in 1 .. Len(s)
  PROVE  LET e == Del(d, s[k])
         IN  /\ IsDict(e) /\ Chain(e, RemoveAt(s, k)) /\ SameBut(d, e, s[k])
             /\ e.entries[s[k]] = Deleted /\ Ever(e) = Ever(d)
             /\ e.resize_counter = d.resize_counter /\ e.kind = d.kind /\ Size(e) = Size(d)
             /\ HasRoom(d) => HasRoom(e)
<1>. DEFINE i == s[k]
            e == Del(d, i)
            n == Size(d)
<1>1. /\ n \in Nat \ {0} /\ PowerOfTwo(n) /\ DOMAIN d.entries = 0 .. n - 1 /\ i \in 0 .. n - 1
      /\ Len(s) \in Nat /\ d.entries[i].valid
  BY DictFacts, ChainFacts
<1>2. /\ e.entries \in [0 .. n - 1 -> Entries] /\ e.entries[i] = Deleted
      /\ \A j \in 0 .. n - 1 : j # i =>
           /\ Alike(e.entries[j], d.entries[j])
           /\ e.entries[j].next = IF j = Nth(s, k - 1) THEN Nth(s, k + 1) ELSE d.entries[j].next
           /\ e.entries[j].prev = IF j = Nth(s, k + 1) THEN Nth(s, k - 1) ELSE d.entries[j].prev
      /\ e = [kind |-> d.kind, entries |-> e.entries, num_items |-> Len(s) - 1,
              first_entry |-> IF k = 1 THEN Nth(s, 2) ELSE Nth(s, 1),
              last_entry |-> IF k = Len(s) THEN Nth(s, k - 1) ELSE Nth(s, Len(s)),
              resize_counter |-> d.resize_counter]
  BY DelEntries
<1>. HIDE DEF e
<1>3. ASSUME NEW j \in 0 .. n - 1, j # i, ~d.entries[j].valid
      PROVE  e.entries[j] = d.entries[j]
  <2>1. j # Nth(s, k - 1) /\ j # Nth(s, k + 1)
    <3>1. ASSUME NEW m, Nth(s, m) = j PROVE d.entries[j].valid
      <4>1. j # -1
        <5>. HIDE DEF n
        <5>. QED
          BY <1>1, <1>3
      <4>2. m \in DOMAIN s /\ j = s[m]
        BY <3>1, <4>1 DEF Nth
      <4>. QED
        BY <4>2 DEF Chain
    <3>. QED
      BY <1>3, <3>1
  <2>2. /\ e.entries[j] \in Entries /\ d.entries[j] \in Entries
        /\ Alike(e.entries[j], d.entries[j])
        /\ e.entries[j].next = d.entries[j].next /\ e.entries[j].prev = d.entries[j].prev
    BY <1>2, <1>3, <2>1, DictFacts
  <2>. DEFINE a == e.entries[j]
              b == d.entries[j]
  <2>3. a \in Entries /\ b \in Entries /\ Alike(a, b) /\ a.next = b.next /\ a.prev = b.prev
    BY <2>2
  <2>. HIDE DEF a, b
  <2>4. a = b
    BY <2>3 DEF Entries, Alike
  <2>. QED
    BY <2>4 DEF a, b
<1>4. \A j \in 0 .. n - 1 :
        IF e.entries[j].valid
        THEN e.entries[j].key \in Keys /\ e.entries[j].value \in Values /\ e.entries[j].everused
        ELSE e.entries[j] \in {Zeroed, Deleted}
  <2>. SUFFICES ASSUME NEW j \in 0 .. n - 1
                PROVE  IF e.entries[j].valid
                       THEN e.entries[j].key \in Keys /\ e.entries[j].value \in Values /\ e.entries[j].everused
                       ELSE e.entries[j] \in {Zeroed, Deleted}
    OBVIOUS
  <2>0. IF d.entries[j].valid
        THEN d.entries[j].key \in Keys /\ d.entries[j].value \in Values /\ d.entries[j].everused
        ELSE d.entries[j] \in {Zeroed, Deleted}
    BY <1>1 DEF IsDict
  <2>1. CASE j = i
    BY <1>2, <2>1, ZeroedIs
  <2>2. CASE j # i /\ d.entries[j].valid
    BY <1>2, <2>0, <2>2 DEF Alike
  <2>3. CASE j # i /\ ~d.entries[j].valid
    BY <1>3, <2>0, <2>3
  <2>. QED
    BY <2>1, <2>2, <2>3
<1>5. IsDict(e) /\ Size(e) = n
  <2>1. /\ d.kind \in {Eql, Identity} /\ d.resize_counter \in Int /\ Len(s) - 1 \in Int
        /\ Nth(s, 2) \in Int /\ Nth(s, 1) \in Int /\ Nth(s, k - 1) \in Int /\ Nth(s, Len(s)) \in Int
    <3>1. d.kind \in {Eql, Identity} /\ d.resize_counter \in Int
      BY DEF IsDict
    <3>2. \A m : Nth(s, m) \in Int
      BY ChainFacts
    <3>. QED
      BY <1>1, <3>1, <3>2
  <2>2. (IF k = 1 THEN Nth(s, 2) ELSE Nth(s, 1)) \in Int /\ (IF k = Len(s) THEN Nth(s, k - 1) ELSE Nth(s, Len(s))) \in Int
    BY <2>1
  <2>3. /\ e.kind \in {Eql, Identity} /\ e.num_items \in Int /\ e.first_entry \in Int
        /\ e.last_entry \in Int /\ e.resize_counter \in Int
        /\ e = [kind |-> e.kind, entries |-> e.entries, num_items |-> e.num_items,
                first_entry |-> e.first_entry, last_entry |-> e.last_entry,
                resize_counter |-> e.resize_counter]
    BY <1>2, <2>1, <2>2
  <2>. HIDE DEF n
  <2>. QED
    BY <1>1, <1>2, <1>4, <2>3, DictIf
<1>6. /\ DOMAIN e.entries = 0 .. n - 1 /\ n \in Nat /\ ~e.entries[i].valid /\ e.num_items = Len(s) - 1
      /\ e.first_entry = IF k = 1 THEN Nth(s, 2) ELSE Nth(s, 1)
      /\ e.last_entry = IF k = Len(s) THEN Nth(s, k - 1) ELSE Nth(s, Len(s))
      /\ e.resize_counter = d.resize_counter /\ e.kind = d.kind
  BY <1>1, <1>2, ZeroedIs
<1>7. Chain(e, RemoveAt(s, k))
  <2>. DEFINE t == RemoveAt(s, k)
  <2>1. n = Size(d) /\ t = RemoveAt(s, k)
    OBVIOUS
  <2>. HIDE DEF n, t
  <2>2. Chain(e, t)
    BY <1>2, <1>6, <2>1, DelChain
  <2>. QED
    BY <2>1, <2>2
<1>8. SameBut(d, e, i)
  BY <1>2, <1>5, <1>6 DEF SameBut
<1>9. Ever(e) = Ever(d)
  <2>1. \A j \in 0 .. n - 1 : e.entries[j].everused <=> d.entries[j].everused
    <3>. SUFFICES ASSUME NEW j \in 0 .. n - 1 PROVE e.entries[j].everused <=> d.entries[j].everused
      OBVIOUS
    <3>1. CASE j = i
      BY <1>1, <1>2, <3>1, ZeroedIs, DictFacts
    <3>2. CASE j # i
      BY <1>2, <3>2 DEF Alike
    <3>. QED
      BY <3>1, <3>2
  <2>. QED
    BY <1>1, <1>6, <2>1 DEF Ever
<1>10. HasRoom(d) => HasRoom(e)
  BY <1>5, <1>6, <1>9 DEF HasRoom, Counts
<1>. QED
  BY <1>2, <1>5, <1>6, <1>7, <1>8, <1>9, <1>10 DEF e

-----------------------------------------------------------------------------
LEMMA Positions ==
  ASSUME NEW len \in Nat
  PROVE  /\ (len + 1) - 1 = len /\ (len + 1) + 1 # len + 1 /\ (len + 1) + 1 \in Int /\ len # len + 1
         /\ len \in Int /\ len + 1 \in 1 .. len + 1 /\ (len + 1) + 1 \notin 1 .. len
         /\ \A m \in 1 .. len : /\ m - 1 \in Int /\ m + 1 \in Int /\ m - 1 # len + 1
                               /\ (m + 1 = len + 1 <=> m = len) /\ m \in 1 .. len + 1 /\ m # len + 1
         /\ \A m \in 1 .. len + 1 : m = len + 1 \/ m \in 1 .. len
OBVIOUS

(* e is d with slot i linked in behind the slots s.                        *)
Longer(d, s, n, i, e, t) ==
  /\ n \in Nat /\ n = Size(d) /\ i \in 0 .. n - 1 /\ ~d.entries[i].valid
  /\ DOMAIN e.entries = 0 .. n - 1 /\ t = Append(s, i)
  /\ e.entries[i].valid /\ e.entries[i].prev = Nth(s, Len(s)) /\ e.entries[i].next = -1
  /\ \A j \in 0 .. n - 1 : j # i =>
       /\ Alike(e.entries[j], d.entries[j])
       /\ e.entries[j].next = IF j = Nth(s, Len(s)) THEN i ELSE d.entries[j].next
       /\ e.entries[j].prev = d.entries[j].prev
  /\ e.num_items = Len(s) + 1 /\ e.last_entry = i
  /\ e.first_entry = IF s = <<>> THEN i ELSE Nth(s, 1)

LEMMA LinkedChain ==
  ASSUME NEW d, IsDict(d), NEW s, Chain(d, s), NEW n, NEW i, NEW e, NEW t, Longer(d, s, n, i, e, t)
  PROVE  Chain(e, t)
<1>0. /\ n \in Nat /\ n = Size(d) /\ i \in 0 .. n - 1 /\ ~d.entries[i].valid
      /\ DOMAIN e.entries = 0 .. n - 1 /\ t = Append(s, i)
      /\ e.entries[i].valid /\ e.entries[i].prev = Nth(s, Len(s)) /\ e.entries[i].next = -1
      /\ \A j \in 0 .. n - 1 : j # i =>
           /\ Alike(e.entries[j], d.entries[j])
           /\ e.entries[j].next = IF j = Nth(s, Len(s)) THEN i ELSE d.entries[j].next
           /\ e.entries[j].prev = d.entries[j].prev
      /\ e.num_items = Len(s) + 1 /\ e.last_entry = i
      /\ e.first_entry = IF s = <<>> THEN i ELSE Nth(s, 1)
  BY DEF Longer
<1>. USE <1>0
<1>. DEFINE len == Len(s)
<1>1. /\ s \in Seq(Nat) /\ len \in Nat /\ DOMAIN s = 1 .. len /\ len = Len(s)
      /\ \A m \in 1 .. len : s[m] \in 0 .. n - 1 /\ d.entries[s[m]].valid /\ s[m] # i
  BY ChainFacts
<1>. HIDE DEF len
<1>2. \A l, m \in 1 .. len : s[l] = s[m] => l = m
  BY <1>1, Zenon DEF Chain
<1>3. /\ t \in Seq(Nat) /\ Len(t) = len + 1 /\ DOMAIN t = 1 .. len + 1
      /\ \A m \in 1 .. len : t[m] = s[m]
      /\ t[len + 1] = i
  <2>1. i \in Nat
    OBVIOUS
  <2>2. /\ t \in Seq(Nat) /\ Len(t) = len + 1
        /\ \A m \in 1 .. len : t[m] = s[m]
        /\ t[len + 1] = i
    BY <1>1, <2>1, AppendProperties
  <2>3. DOMAIN t = 1 .. Len(t)
    BY <2>2, LenProperties
  <2>. QED
    BY <2>2, <2>3
<1>4. \A m : Nth(s, m) = IF m \in 1 .. len THEN s[m] ELSE -1
  BY <1>1 DEF Nth
<1>5. \A m : Nth(t, m) = IF m \in 1 .. len + 1 THEN t[m] ELSE -1
  BY <1>3 DEF Nth
<1>6. \A m \in Int : Nth(t, m) = IF m = len + 1 THEN i ELSE Nth(s, m)
  <2>. SUFFICES ASSUME NEW m \in Int PROVE Nth(t, m) = IF m = len + 1 THEN i ELSE Nth(s, m)
    OBVIOUS
  <2>1. CASE m \in 1 .. len
    <3>1. m \in 1 .. len + 1 /\ m # len + 1
      BY <1>1, <2>1
    <3>. QED
      BY <1>3, <1>4, <1>5, <2>1, <3>1
  <2>2. CASE m = len + 1
    <3>1. m \in 1 .. len + 1
      BY <1>1, <2>2
    <3>. QED
      BY <1>3, <1>5, <2>2, <3>1
  <2>3. CASE m \notin 1 .. len /\ m # len + 1
    <3>1. m \notin 1 .. len + 1
      BY <1>1, <2>3
    <3>. QED
      BY <1>4, <1>5, <2>3, <3>1
  <2>. QED
    BY <2>1, <2>2, <2>3
<1>7. ASSUME NEW m \in 1 .. len
      PROVE  /\ t[m] \in 0 .. n - 1 /\ e.entries[t[m]].valid
             /\ e.entries[t[m]].prev = Nth(t, m - 1) /\ e.entries[t[m]].next = Nth(t, m + 1)
  <2>. DEFINE j == s[m]
  <2>1. t[m] = j /\ j \in 0 .. n - 1 /\ d.entries[j].valid /\ j # i
    BY <1>1, <1>3
  <2>2. d.entries[j].prev = Nth(s, m - 1) /\ d.entries[j].next = Nth(s, m + 1)
    BY <1>1 DEF Chain
  <2>3. j = Nth(s, len) <=> m = len
    <3>1. len \in 1 .. len
      BY <1>1
    <3>2. Nth(s, len) = s[len]
      BY <1>4, <3>1
    <3>. QED
      BY <1>2, <3>1, <3>2
  <2>. HIDE DEF j
  <2>4. /\ e.entries[j].valid
        /\ e.entries[j].prev = Nth(s, m - 1)
        /\ e.entries[j].next = IF m = len THEN i ELSE Nth(s, m + 1)
    BY <1>1, <2>1, <2>2, <2>3 DEF Alike
  <2>5. m - 1 \in Int /\ m + 1 \in Int /\ m - 1 # len + 1 /\ (m + 1 = len + 1 <=> m = len)
    BY <1>1, Positions, Zenon
  <2>6. Nth(t, m - 1) = Nth(s, m - 1) /\ Nth(t, m + 1) = IF m = len THEN i ELSE Nth(s, m + 1)
    BY <1>6, <2>5
  <2>. QED
    BY <2>1, <2>4, <2>6
<1>8. /\ t[len + 1] \in 0 .. n - 1 /\ e.entries[t[len + 1]].valid
      /\ e.entries[t[len + 1]].prev = Nth(t, (len + 1) - 1)
      /\ e.entries[t[len + 1]].next = Nth(t, (len + 1) + 1)
  <2>1. (len + 1) - 1 = len /\ (len + 1) + 1 # len + 1 /\ (len + 1) + 1 \in Int /\ len # len + 1 /\ len \in Int
    BY <1>1, Positions, Zenon
  <2>2. Nth(t, len) = Nth(s, len) /\ Nth(t, (len + 1) + 1) = Nth(s, (len + 1) + 1)
    BY <1>6, <2>1
  <2>3. Nth(s, (len + 1) + 1) = -1
    BY <1>1, <1>4
  <2>. QED
    BY <1>3, <2>1, <2>2, <2>3
<1>9. \A m \in DOMAIN t :
         /\ t[m] \in DOMAIN e.entries /\ e.entries[t[m]].valid
         /\ e.entries[t[m]].prev = Nth(t, m - 1) /\ e.entries[t[m]].next = Nth(t, m + 1)
  <2>. SUFFICES ASSUME NEW m \in 1 .. len + 1
                PROVE  /\ t[m] \in 0 .. n - 1 /\ e.entries[t[m]].valid
                       /\ e.entries[t[m]].prev = Nth(t, m - 1) /\ e.entries[t[m]].next = Nth(t, m + 1)
    BY <1>3
  <2>1. m = len + 1 \/ m \in 1 .. len
    BY <1>1
  <2>. QED
    BY <1>7, <1>8, <2>1
<1>10. \A l, m \in DOMAIN t : t[l] = t[m] => l = m
  <2>. SUFFICES ASSUME NEW l \in 1 .. len + 1, NEW m \in 1 .. len + 1, t[l] = t[m]
                PROVE  l = m
    BY <1>3
  <2>1. (m = len + 1 \/ m \in 1 .. len) /\ (l = len + 1 \/ l \in 1 .. len)
    BY <1>1, Positions, Zenon
  <2>. QED
    BY <1>1, <1>2, <1>3, <2>1
<1>11. ASSUME NEW j \in DOMAIN e.entries, e.entries[j].valid
       PROVE  \E m \in DOMAIN t : t[m] = j
  <2>1. CASE j = i
    <3>1. len + 1 \in DOMAIN t
      BY <1>1, <1>3
    <3>. QED
      BY <1>3, <2>1, <3>1
  <2>2. CASE j # i
    <3>1. j \in 0 .. n - 1 /\ d.entries[j].valid /\ j \in DOMAIN d.entries
      BY <1>11, <2>2, DictFacts DEF Alike
    <3>2. PICK m \in 1 .. len : s[m] = j
      BY <1>1, <3>1, Zenon DEF Chain
    <3>3. m \in DOMAIN t
      BY <1>1, <1>3
    <3>. QED
      BY <1>3, <3>2, <3>3
  <2>. QED
    BY <2>1, <2>2
<1>12. e.first_entry = Nth(t, 1) /\ e.last_entry = Nth(t, Len(t)) /\ e.num_items = Len(t)
  <2>1. s = <<>> <=> len = 0
    BY <1>1, EmptySeq
  <2>2. Nth(t, 1) = IF len = 0 THEN i ELSE Nth(s, 1)
    BY <1>1, <1>6
  <2>3. Nth(t, len + 1) = i
    BY <1>1, <1>6
  <2>. QED
    BY <1>3, <2>1, <2>2, <2>3
<1>. QED
  BY <1>1, <1>3, <1>9, <1>10, <1>11, <1>12 DEF Chain

LEMMA LinkedKeeps ==
  ASSUME NEW d, IsDict(d), NEW s, Chain(d, s), NEW i \in 0 .. Size(d) - 1, ~d.entries[i].valid,
         NEW key \in Keys, NEW value \in Values, NEW hash \in Nat
  PROVE  LET e == Linked(d, i, key, value, hash)
         IN  /\ IsDict(e) /\ Chain(e, Append(s, i)) /\ SameBut(d, e, i)
             /\ e.entries[i].key = key /\ e.entries[i].value = value /\ e.entries[i].hash = hash
             /\ e.entries[i].valid /\ e.entries[i].everused
             /\ Ever(e) = Ever(d) \cup {i}
             /\ e.resize_counter = d.resize_counter /\ e.kind = d.kind /\ Size(e) = Size(d)
             /\ e.num_items = d.num_items + 1
<1>. DEFINE n == Size(d)
            last == Nth(s, Len(s))
            new == [key |-> key, value |-> value, next |-> -1, prev |-> last,
                    everused |-> TRUE, valid |-> TRUE, hash |-> hash]
            put == IF d.first_entry = -1 THEN d.entries ELSE [d.entries EXCEPT ![last].next = i]
            entries == [put EXCEPT ![i] = new]
            e == Linked(d, i, key, value, hash)
<1>1. /\ n \in Nat /\ PowerOfTwo(n) /\ DOMAIN d.entries = 0 .. n - 1 /\ i \in 0 .. n - 1
      /\ Len(s) \in Nat /\ DOMAIN s = 1 .. Len(s) /\ d.entries \in [0 .. n - 1 -> Entries]
      /\ d.last_entry = last /\ d.first_entry = Nth(s, 1) /\ d.num_items = Len(s)
      /\ last \in Int /\ Nth(s, 1) \in Int
  BY DictFacts, ChainFacts
<1>2. (d.first_entry = -1 <=> s = <<>>) /\ (last = -1 <=> s = <<>>)
  <2>1. s = <<>> <=> Len(s) = 0
    BY <1>1, ChainFacts, EmptySeq
  <2>2. (Nth(s, 1) = -1 <=> 1 \notin 1 .. Len(s)) /\ (last = -1 <=> Len(s) \notin 1 .. Len(s))
    BY ChainFacts
  <2>3. (1 \notin 1 .. Len(s) <=> Len(s) = 0) /\ (Len(s) \notin 1 .. Len(s) <=> Len(s) = 0)
    <3>1. Len(s) \in Nat
      BY <1>1
    <3>. DEFINE len == Len(s)
    <3>. HIDE DEF len
    <3>2. len \in Nat
      BY <3>1 DEF len
    <3>3. (1 \notin 1 .. len <=> len = 0) /\ (len \notin 1 .. len <=> len = 0)
      BY <3>2
    <3>. QED
      BY <3>3 DEF len
  <2>. QED
    BY <1>1, <2>1, <2>2, <2>3
<1>3. last # -1 => last \in 0 .. n - 1 /\ last # i /\ d.entries[last].valid
  <2>. SUFFICES ASSUME last # -1 PROVE last \in 0 .. n - 1 /\ d.entries[last].valid
    OBVIOUS
  <2>1. Len(s) \in 1 .. Len(s) /\ last = s[Len(s)]
    BY <1>1, ChainFacts DEF Nth
  <2>. QED
    BY <2>1, ChainFacts
<1>4. new \in Entries /\ i \in Int
  BY <1>1 DEF Entries
<1>5. e = [d EXCEPT !.entries = entries, !.num_items = @ + 1,
                    !.first_entry = IF @ = -1 THEN i ELSE @, !.last_entry = i]
  BY <1>1 DEF Linked
<1>6. ASSUME NEW j \in 0 .. n - 1
      PROVE  /\ entries[j] \in Entries
             /\ j = i => entries[j] = new
             /\ j # i =>
                  /\ Alike(entries[j], d.entries[j])
                  /\ entries[j].next = IF j = last THEN i ELSE d.entries[j].next
                  /\ entries[j].prev = d.entries[j].prev
  <2>. DEFINE o == d.entries[j]
  <2>1. o \in Entries /\ j # -1
    BY <1>1
  <2>2. LET x == [o EXCEPT !.next = i]
        IN  x \in Entries /\ Alike(x, o) /\ x.next = i /\ x.prev = o.prev
    <3>. HIDE DEF o
    <3>. QED
      BY <1>4, <2>1, EntryExcept
  <2>3. entries[i] = new /\ (j # i => entries[j] = put[j])
    <3>1. DOMAIN put = 0 .. n - 1
      BY <1>1
    <3>. HIDE DEF put, new
    <3>. QED
      BY <1>1, <3>1
  <2>4. CASE j = i
    BY <1>4, <2>3, <2>4
  <2>5. CASE j # i /\ j = last
    <3>1. entries[j] = [o EXCEPT !.next = i]
      <4>1. put[j] = [o EXCEPT !.next = i]
        BY <1>1, <1>2, <2>1, <2>5
      <4>. QED
        BY <2>3, <2>5, <4>1
    <3>. QED
      BY <2>2, <2>5, <3>1
  <2>6. CASE j # i /\ j # last
    <3>1. entries[j] = o
      <4>1. put[j] = o
        BY <1>1, <2>6
      <4>. QED
        BY <2>3, <2>6, <4>1
    <3>. QED
      BY <2>1, <2>6, <3>1 DEF Alike
  <2>. QED
    BY <2>4, <2>5, <2>6
<1>7. entries \in [0 .. n - 1 -> Entries]
  <2>1. DOMAIN put = 0 .. n - 1
    BY <1>1
  <2>2. entries = [j \in 0 .. n - 1 |-> entries[j]]
    <3>. HIDE DEF put
    <3>1. put = [j \in 0 .. n - 1 |-> put[j]]
      BY <1>1 DEF put
    <3>. QED
      BY <2>1, <3>1
  <2>. HIDE DEF entries
  <2>. QED
    BY <1>6, <2>2
<1>8. /\ e.entries = entries /\ e.num_items = Len(s) + 1 /\ e.last_entry = i
      /\ e.first_entry = IF s = <<>> THEN i ELSE Nth(s, 1)
      /\ e.kind = d.kind /\ e.resize_counter = d.resize_counter
      /\ e = [kind |-> e.kind, entries |-> e.entries, num_items |-> e.num_items,
              first_entry |-> e.first_entry, last_entry |-> e.last_entry,
              resize_counter |-> e.resize_counter]
  <2>. HIDE DEF entries
  <2>1. d = [kind |-> d.kind, entries |-> d.entries, num_items |-> d.num_items, first_entry |-> d.first_entry,
             last_entry |-> d.last_entry, resize_counter |-> d.resize_counter]
    BY DEF IsDict
  <2>. HIDE DEF e
  <2>. QED
    BY <1>1, <1>2, <1>5, <2>1
<1>. HIDE DEF entries, e
<1>9. ASSUME NEW j \in 0 .. n - 1
      PROVE  IF e.entries[j].valid
             THEN e.entries[j].key \in Keys /\ e.entries[j].value \in Values /\ e.entries[j].everused
             ELSE e.entries[j] \in {Zeroed, Deleted}
  <2>0. IF d.entries[j].valid
        THEN d.entries[j].key \in Keys /\ d.entries[j].value \in Values /\ d.entries[j].everused
        ELSE d.entries[j] \in {Zeroed, Deleted}
    BY <1>1 DEF IsDict
  <2>1. CASE j = i
    BY <1>6, <1>8, <2>1
  <2>2. CASE j # i /\ d.entries[j].valid
    BY <1>6, <1>8, <2>0, <2>2 DEF Alike
  <2>3. CASE j # i /\ ~d.entries[j].valid
    <3>1. j # last
      BY <1>1, <1>3, <2>3
    <3>. DEFINE a == entries[j]
                b == d.entries[j]
    <3>2. a \in Entries /\ b \in Entries /\ Alike(a, b) /\ a.next = b.next /\ a.prev = b.prev
      BY <1>1, <1>6, <2>3, <3>1
    <3>. HIDE DEF a, b
    <3>3. a = b
      BY <3>2 DEF Entries, Alike
    <3>. QED
      BY <1>8, <2>0, <2>3, <3>3 DEF a, b
  <2>. QED
    BY <2>1, <2>2, <2>3
<1>10. IsDict(e) /\ Size(e) = n
  <2>1. /\ e.kind \in {Eql, Identity} /\ e.num_items \in Int /\ e.first_entry \in Int
        /\ e.last_entry \in Int /\ e.resize_counter \in Int /\ e.entries \in [0 .. n - 1 -> Entries]
    BY <1>1, <1>4, <1>7, <1>8 DEF IsDict
  <2>. HIDE DEF n
  <2>. QED
    BY <1>1, <1>8, <1>9, <2>1, DictIf
<1>11. Chain(e, Append(s, i))
  <2>. DEFINE t == Append(s, i)
  <2>1. n = Size(d) /\ t = Append(s, i) /\ DOMAIN e.entries = 0 .. n - 1
    BY <1>7, <1>8
  <2>2. e.entries[i].valid /\ e.entries[i].prev = Nth(s, Len(s)) /\ e.entries[i].next = -1
    BY <1>1, <1>6, <1>8
  <2>3. \A j \in 0 .. n - 1 : j # i =>
           /\ Alike(e.entries[j], d.entries[j])
           /\ e.entries[j].next = IF j = Nth(s, Len(s)) THEN i ELSE d.entries[j].next
           /\ e.entries[j].prev = d.entries[j].prev
    BY <1>6, <1>8
  <2>4. n \in Nat /\ i \in 0 .. n - 1
    BY <1>1
  <2>5. /\ e.num_items = Len(s) + 1 /\ e.last_entry = i
        /\ e.first_entry = IF s = <<>> THEN i ELSE Nth(s, 1)
    BY <1>8
  <2>6. Longer(d, s, n, i, e, t)
    <3>. HIDE DEF n, t, last, new, put
    <3>. QED
      BY <2>1, <2>2, <2>3, <2>4, <2>5 DEF Longer
  <2>. HIDE DEF n, t, last, new, put
  <2>7. Chain(e, t)
    BY <2>6, LinkedChain, Zenon
  <2>. QED
    BY <2>1, <2>7
<1>12. SameBut(d, e, i)
  BY <1>6, <1>8, <1>10 DEF SameBut
<1>13. Ever(e) = Ever(d) \cup {i}
  <2>1. DOMAIN e.entries = 0 .. n - 1
    BY <1>7, <1>8
  <2>2. \A j \in 0 .. n - 1 : e.entries[j].everused <=> d.entries[j].everused \/ j = i
    BY <1>6, <1>8, DictFacts DEF Alike
  <2>. QED
    BY <1>1, <2>1, <2>2 DEF Ever
<1>. QED
  BY <1>1, <1>6, <1>8, <1>10, <1>11, <1>12, <1>13 DEF e

-----------------------------------------------------------------------------
(* Searches.                                                               *)

(* States of a search closed under its step see every slot.                *)
LEMMA SearchEnds ==
  ASSUME NEW n \in Nat, PowerOfTwo(n), NEW Q, Q # {},
         \A v \in Q : /\ v.i \in 0 .. n - 1 /\ v.perturb \in Nat
                      /\ \E w \in Q : w.i = Probe(v.i, v.perturb, n) /\ w.perturb = Shifted(v.perturb)
  PROVE  \A j \in 0 .. n - 1 : \E v \in Q : v.i = j
<1>. DEFINE P == {<<v.i, v.perturb>> : v \in Q}
<1>0. \A v \in Q : <<v.i, v.perturb>> \in (0 .. n - 1) \X Nat
  OBVIOUS
<1>1. P \in SUBSET ((0 .. n - 1) \X Nat) /\ P # {}
  BY <1>0, Zenon
<1>2. \A w \in P : <<Probe(w[1], w[2], n), Shifted(w[2])>> \in P
  <2>. SUFFICES ASSUME NEW u \in P
                PROVE  <<Probe(u[1], u[2], n), Shifted(u[2])>> \in P
    OBVIOUS
  <2>1. PICK v \in Q : u = <<v.i, v.perturb>>
    OBVIOUS
  <2>2. u[1] = v.i /\ u[2] = v.perturb
    BY <2>1
  <2>3. PICK w \in Q : w.i = Probe(v.i, v.perturb, n) /\ w.perturb = Shifted(v.perturb)
    OBVIOUS
  <2>4. <<w.i, w.perturb>> \in P
    OBVIOUS
  <2>. HIDE DEF P
  <2>. QED
    BY <2>2, <2>3, <2>4
<1>3. \A j \in 0 .. n - 1 : \E w \in P : w[1] = j
  <2>. HIDE DEF P
  <2>. QED
    BY <1>1, <1>2, SearchReachesAll
<1>. QED
  BY <1>3

LEMMA Probed ==
  ASSUME NEW n \in Nat \ {0}, NEW i \in Nat, NEW p \in Nat
  PROVE  /\ Probe(i, p, n) \in 0 .. n - 1 /\ Probe(i, p, n) \in Nat /\ Shifted(p) \in Nat
         /\ p % n \in 0 .. n - 1 /\ p % n \in Nat
<1>1. p \div 32 \in Nat /\ p % n \in 0 .. n - 1
  OBVIOUS
<1>2. 5 * i + p + 1 \in Nat
  OBVIOUS
<1>. DEFINE m == 5 * i + p + 1
<1>3. m % n \in 0 .. n - 1
  <2>1. m \in Nat
    BY <1>2
  <2>. HIDE DEF m
  <2>. QED
    BY <2>1
<1>. QED
  BY <1>1, <1>3 DEF Probe, Shifted, PERTURB_SHIFT

(* The places a search for a hash comes to, slots with what is left of the *)
(* hash: it goes on from a slot that has been used.                        *)
Way(d, hash, P) ==
  /\ P \in SUBSET ((0 .. Size(d) - 1) \X Nat) /\ <<hash % Size(d), hash>> \in P
  /\ \A w \in P : d.entries[w[1]].everused =>
                    <<Probe(w[1], w[2], Size(d)), Shifted(w[2])>> \in P
OnWay(d, hash, i) == \A P : Way(d, hash, P) => \E w \in P : w[1] = i

(* Going straight for a slot never used.                                   *)
LEMMA CleanSlot ==
  ASSUME NEW d, IsDict(d), HasRoom(d), NEW hash \in Nat
  PROVE  /\ lookup_clean(d, hash) \in 0 .. Size(d) - 1 /\ ~d.entries[lookup_clean(d, hash)].everused
         /\ OnWay(d, hash, lookup_clean(d, hash))
<1>. DEFINE n == Size(d)
            W == [i : Nat, perturb : Nat]
            stop == [s \in W |-> ~d.entries[s.i].everused]
            val == [s \in W |-> s.i]
            nxt == [s \in W |-> [i |-> Probe(s.i, s.perturb, n), perturb |-> Shifted(s.perturb)]]
            start == [i |-> hash % n, perturb |-> hash]
            R == Reached(W, stop, nxt, start)
            try == CHOOSE f : f = [s \in W |-> IF d.entries[s.i].everused
                                               THEN f[[i |-> Probe(s.i, s.perturb, n), perturb |-> Shifted(s.perturb)]]
                                               ELSE s.i]
<1>1. n \in Nat \ {0} /\ PowerOfTwo(n)
  BY DictFacts
<1>2. start \in W /\ start.i \in 0 .. n - 1 /\ \A s \in W : nxt[s] \in W /\ nxt[s].i \in 0 .. n - 1
  <2>. HIDE DEF n
  <2>1. hash % n \in 0 .. n - 1 /\ hash % n \in Nat
    BY <1>1, Probed
  <2>2. ASSUME NEW s \in W
        PROVE  nxt[s] \in W /\ nxt[s].i \in 0 .. n - 1
    <3>1. Probe(s.i, s.perturb, n) \in 0 .. n - 1 /\ Probe(s.i, s.perturb, n) \in Nat /\ Shifted(s.perturb) \in Nat
      BY <1>1, Probed
    <3>. QED
      BY <3>1
  <2>. QED
    BY <2>1, <2>2
<1>3. Closed(W, stop, nxt)
  BY <1>2 DEF Closed
<1>4. /\ start \in R /\ R \in SUBSET W
      /\ \A v \in R : ~stop[v] => nxt[v] \in R
  <2>. HIDE DEF W, stop, nxt, start
  <2>. QED
    BY <1>2, <1>3, ReachedClosed, Zenon DEF Closed
<1>5. R \subseteq {s \in W : s.i \in 0 .. n - 1}
  <2>. DEFINE S == {s \in W : s.i \in 0 .. n - 1}
  <2>1. S \in SUBSET W /\ start \in S /\ Closed(S, stop, nxt)
    BY <1>2 DEF Closed
  <2>. HIDE DEF S, W, stop, nxt, start
  <2>2. R \subseteq S
    BY <1>2, <2>1, ReachedInduction, Zenon
  <2>. QED
    BY <2>2 DEF S
<1>. HIDE DEF R
<1>6. \E v \in R : stop[v]
  <2>. SUFFICES ASSUME \A v \in R : ~stop[v] PROVE FALSE
    OBVIOUS
  <2>1. ASSUME NEW v \in R
        PROVE  /\ v.i \in 0 .. n - 1 /\ v.perturb \in Nat
               /\ \E w \in R : w.i = Probe(v.i, v.perturb, n) /\ w.perturb = Shifted(v.perturb)
    <3>1. v \in W /\ nxt[v] \in R /\ v.i \in 0 .. n - 1
      BY <1>4, <1>5
    <3>2. nxt[v].i = Probe(v.i, v.perturb, n) /\ nxt[v].perturb = Shifted(v.perturb)
      BY <3>1
    <3>3. v.perturb \in Nat
      BY <3>1
    <3>. HIDE DEF nxt, W, n
    <3>. QED
      BY <3>1, <3>2, <3>3
  <2>2. \A j \in 0 .. n - 1 : \E v \in R : v.i = j
    <3>. HIDE DEF n, W, nxt, stop, start
    <3>1. R # {} /\ n \in Nat
      BY <1>1, <1>4
    <3>. QED
      BY <1>1, <2>1, <3>1, SearchEnds
  <2>3. PICK j \in 0 .. n - 1 : ~d.entries[j].everused
    BY RoomLeft
  <2>4. PICK v \in R : v.i = j
    BY <2>2
  <2>. QED
    BY <1>4, <2>3, <2>4
<1>7. PICK v \in R : stop[v]
  BY <1>6
<1>8. TailRecursive(try, W, stop, val, nxt)
  <2>1. \E f : TailRecursive(f, W, stop, val, nxt)
    <3>. HIDE DEF W, stop, nxt, val
    <3>. QED
      BY <1>3, TailRuns
  <2>2. ASSUME NEW f
        PROVE  TailRecursive(f, W, stop, val, nxt) <=>
               f = [s \in W |-> IF d.entries[s.i].everused
                                THEN f[[i |-> Probe(s.i, s.perturb, n), perturb |-> Shifted(s.perturb)]]
                                ELSE s.i]
    <3>. DEFINE F == [s \in W |-> IF stop[s] THEN val[s] ELSE f[nxt[s]]]
                G == [s \in W |-> IF d.entries[s.i].everused
                                  THEN f[[i |-> Probe(s.i, s.perturb, n), perturb |-> Shifted(s.perturb)]]
                                  ELSE s.i]
    <3>1. \A s \in W : F[s] = G[s]
      <4>. HIDE DEF n
      <4>. QED
        OBVIOUS
    <3>2. F = G
      BY <3>1
    <3>. HIDE DEF F, G
    <3>3. TailRecursive(f, W, stop, val, nxt) <=> f = F
      BY DEF TailRecursive, F
    <3>. QED
      BY <3>2, <3>3 DEF G
  <2>. QED
    BY <2>1, <2>2
<1>9. lookup_clean(d, hash) = try[start]
  BY DEF lookup_clean
<1>10. try[start] = val[v]
  <2>. HIDE DEF try, W, stop, nxt, val, start
  <2>. QED
    BY <1>2, <1>3, <1>7, <1>8, TailSame DEF R
<1>11. OnWay(d, hash, v.i)
  <2>. SUFFICES ASSUME NEW P, Way(d, hash, P) PROVE \E w \in P : w[1] = v.i
    BY DEF OnWay
  <2>. DEFINE S == {s \in W : <<s.i, s.perturb>> \in P}
  <2>1. start \in S
    BY <1>2 DEF Way
  <2>2. ASSUME NEW s \in S, ~stop[s]
        PROVE  nxt[s] \in S
    <3>1. s \in W /\ d.entries[s.i].everused /\ <<s.i, s.perturb>> \in P
      BY <2>2
    <3>2. <<Probe(s.i, s.perturb, n), Shifted(s.perturb)>> \in P
      BY <3>1 DEF Way
    <3>3. nxt[s].i = Probe(s.i, s.perturb, n) /\ nxt[s].perturb = Shifted(s.perturb) /\ nxt[s] \in W
      BY <1>2, <3>1
    <3>. HIDE DEF W, stop, nxt, n
    <3>. QED
      BY <3>2, <3>3
  <2>3. S \in SUBSET W /\ Closed(S, stop, nxt)
    BY <2>2 DEF Closed
  <2>. HIDE DEF W, stop, nxt, start, S
  <2>4. R \subseteq S
    BY <1>2, <2>1, <2>3, ReachedInduction, Zenon DEF R
  <2>5. <<v.i, v.perturb>> \in P
    BY <2>4 DEF S
  <2>. QED
    BY <2>5
<1>. QED
  <2>1. v \in W /\ v.i \in 0 .. n - 1
    BY <1>5
  <2>2. val[v] = v.i /\ ~d.entries[v.i].everused
    BY <1>7, <2>1
  <2>. QED
    BY <1>9, <1>10, <1>11, <2>1, <2>2

Sound(d) == IsDict(d) /\ HasRoom(d) /\ \E s : Chain(d, s)

LEMMA NewdictSound ==
  ASSUME NEW n \in Nat, PowerOfTwo(n), NEW kind \in {Eql, Identity}
  PROVE  Sound(newdict(kind, n)) /\ newdict(kind, n).kind = kind
BY NewdictEmpty, Zenon DEF Sound

(* e is d with entries deleted at most.                                    *)
Keeps(d, e) ==
  /\ Size(e) = Size(d) /\ Ever(e) = Ever(d)
  /\ \A j \in 0 .. Size(d) - 1 : e.entries[j].valid => Alike(e.entries[j], d.entries[j])

LEMMA KeepsSelf ==
  ASSUME NEW d
  PROVE  Keeps(d, d)
BY DEF Keeps, Alike

LEMMA KeepsOn ==
  ASSUME NEW c, NEW d, NEW e, Keeps(c, d), Keeps(d, e)
  PROVE  Keeps(c, e)
BY DEF Keeps, Alike

LEMMA DelSound ==
  ASSUME NEW d, Sound(d), NEW i \in 0 .. Size(d) - 1, d.entries[i].valid
  PROVE  LET e == Del(d, i)
         IN  Sound(e) /\ e.kind = d.kind /\ Keeps(d, e)
<1>. DEFINE e == Del(d, i)
<1>1. PICK s : Chain(d, s)
  BY DEF Sound
<1>2. IsDict(d) /\ HasRoom(d) /\ i \in DOMAIN d.entries
  BY DictFacts DEF Sound
<1>3. PICK k \in DOMAIN s : s[k] = i
  BY <1>1, <1>2, Zenon DEF Chain
<1>4. k \in 1 .. Len(s)
  BY <1>1, <1>2, ChainFacts
<1>5. /\ IsDict(e) /\ Chain(e, RemoveAt(s, k)) /\ SameBut(d, e, i) /\ e.entries[i] = Deleted
      /\ HasRoom(e) /\ e.kind = d.kind /\ Size(e) = Size(d) /\ Ever(e) = Ever(d)
  <2>1. LET f == Del(d, s[k])
        IN  /\ IsDict(f) /\ Chain(f, RemoveAt(s, k)) /\ SameBut(d, f, s[k]) /\ f.entries[s[k]] = Deleted
            /\ HasRoom(f) /\ f.kind = d.kind /\ Size(f) = Size(d) /\ Ever(f) = Ever(d)
    BY <1>1, <1>2, <1>4, DelKeeps
  <2>. QED
    BY <1>3, <2>1, Zenon
<1>. HIDE DEF e
<1>6. \A j \in 0 .. Size(d) - 1 : e.entries[j].valid => Alike(e.entries[j], d.entries[j])
  <2>. SUFFICES ASSUME NEW j \in 0 .. Size(d) - 1, e.entries[j].valid
                PROVE  Alike(e.entries[j], d.entries[j])
    OBVIOUS
  <2>1. j # i
    BY <1>5, ZeroedIs
  <2>. QED
    BY <1>5, <2>1 DEF SameBut
<1>. QED
  BY <1>5, <1>6, Zenon DEF e, Sound, Keeps

LEMMA ClearSound ==
  ASSUME NEW d, Sound(d)
  PROVE  Sound(clear(d)) /\ clear(d).kind = d.kind
<1>1. d.kind \in {Eql, Identity}
  BY DictFacts, Zenon DEF Sound
<1>2. PowerOfTwo(INIT_SIZE) /\ INIT_SIZE \in Nat
  BY DictAssumption DEF PowerOfTwo
<1>3. Sound(newdict(d.kind, INIT_SIZE)) /\ newdict(d.kind, INIT_SIZE).kind = d.kind
  BY <1>1, <1>2, NewdictSound
<1>4. clear(d) = d \/ clear(d) = newdict(d.kind, INIT_SIZE)
  BY DEF clear
<1>. QED
  BY <1>3, <1>4

(* Each call of eql? leaves a dictionary, and one that does not move the   *)
(* entries deletes at most.                                                *)
SoundCalls(given, calls) ==
  /\ Len(calls) \in Nat
  /\ \A n \in 1 .. Len(calls) :
       /\ Sound(calls[n].dict) /\ calls[n].dict.kind = given.kind
       /\ calls[n].moved \/ Keeps(Seen(given, calls, n - 1), calls[n].dict)

LEMMA NoCalls ==
  ASSUME NEW given
  PROVE  SoundCalls(given, <<>>) /\ Len(<<>>) = 0
BY DEF SoundCalls

(* A state of the search in d.                                             *)
InSearch(d, s) ==
  /\ s.i \in 0 .. Size(d) - 1
  /\ s.free = -1 \/ (s.free \in 0 .. Size(d) - 1 /\ ~d.entries[s.free].valid)
FreeSoFar(s) == IF s.free = -1 THEN s.i ELSE s.free

LEMMA BeginIn ==
  ASSUME NEW d, Sound(d), NEW hash \in Nat, NEW c
  PROVE  LET s == Begin(c, hash, Size(d))
         IN  /\ InSearch(d, s) /\ s.n = c /\ s.i \in Nat
             /\ s \in [n : {c}, i : Nat, perturb : Nat, free : Int]
<1>. DEFINE m == Size(d)
<1>1. m \in Nat \ {0}
  BY DictFacts, Zenon DEF Sound
<1>. HIDE DEF m
<1>2. hash % m \in 0 .. m - 1 /\ hash % m \in Nat /\ -1 \in Int
  BY <1>1, Probed
<1>3. Begin(c, hash, m) = [n |-> c, i |-> hash % m, perturb |-> hash, free |-> -1]
  BY DEF Begin
<1>. QED
  BY <1>2, <1>3 DEF InSearch, m

LEMMA FurtherIn ==
  ASSUME NEW d, IsDict(d), NEW s, s.i \in Nat, s.perturb \in Nat, NEW c, NEW free \in Int
  PROVE  LET t == Further(s, c, free, Size(d))
         IN  /\ t.n = c /\ t.free = free /\ t.i = Probe(s.i, s.perturb, Size(d))
             /\ t.perturb = Shifted(s.perturb)
             /\ t.i \in 0 .. Size(d) - 1
             /\ t \in [n : {c}, i : Nat, perturb : Nat, free : Int]
<1>. DEFINE m == Size(d)
            p == s.perturb
            j == s.i
<1>1. m \in Nat \ {0} /\ j \in Nat /\ p \in Nat
  BY DictFacts, Zenon
<1>2. Further(s, c, free, m) = [n |-> c, i |-> Probe(j, p, m), perturb |-> Shifted(p), free |-> free]
  BY DEF Further
<1>. HIDE DEF m, p, j
<1>3. Probe(j, p, m) \in 0 .. m - 1 /\ Probe(j, p, m) \in Nat /\ Shifted(p) \in Nat
  BY <1>1, Probed
<1>4. LET t == Further(s, c, free, m)
      IN  /\ t.n = c /\ t.free = free /\ t.i = Probe(j, p, m) /\ t.perturb = Shifted(p)
          /\ t.i \in 0 .. m - 1 /\ t \in [n : {c}, i : Nat, perturb : Nat, free : Int]
  BY <1>2, <1>3
<1>. QED
  BY <1>4 DEF m, p, j

-----------------------------------------------------------------------------
(* The search as its states go: the call of eql? that comes next, and the  *)
(* dictionary after it.                                                    *)
Searched(given, calls, s) == Seen(given, calls, s.n)
Compared(given, calls, s) == Searched(given, calls, s).entries[s.i]
Heard(calls, s) == IF s.n < Len(calls) THEN s.n + 1 ELSE s.n
Answered(given, calls, s) == Seen(given, calls, Heard(calls, s))
Moved(given, calls, s) ==
  \/ Heard(calls, s) # s.n /\ calls[Heard(calls, s)].moved
  \/ Answered(given, calls, s).entries[s.i].key # Compared(given, calls, s).key
SearchOver(given, key, hash, calls, s) ==
  LET e == Compared(given, calls, s)
  IN  \/ ~e.everused
      \/ /\ e.valid
         /\ \/ e.key = key
            \/ /\ ~(Searched(given, calls, s).kind = Identity \/ e.hash # hash)
               /\ ~Moved(given, calls, s) /\ keyeq(e.key, key)
SearchResult(given, key, calls, s) ==
  LET e == Compared(given, calls, s)
  IN  IF ~e.everused THEN Free(Searched(given, calls, s), FreeSoFar(s), s.n)
      ELSE IF e.key = key THEN Found(Searched(given, calls, s), s.i, s.n)
      ELSE Found(Answered(given, calls, s), s.i, Heard(calls, s))
SearchStep(given, hash, calls, s) ==
  LET d == Searched(given, calls, s)
      e == Compared(given, calls, s)
      n == Heard(calls, s)
  IN  IF ~e.valid THEN Further(s, s.n, FreeSoFar(s), Size(d))
      ELSE IF d.kind = Identity \/ e.hash # hash THEN Further(s, s.n, s.free, Size(d))
      ELSE IF Moved(given, calls, s) THEN Begin(n, hash, Size(Answered(given, calls, s)))
      ELSE Further(s, n, s.free, Size(d))

SearchStates(calls) == [n : 0 .. Len(calls), i : Nat, perturb : Nat, free : Int]
SearchStops(given, key, hash, calls) ==
  [s \in SearchStates(calls) |-> SearchOver(given, key, hash, calls, s)]
SearchValue(given, key, calls) ==
  [s \in SearchStates(calls) |-> SearchResult(given, key, calls, s)]
SearchNext(given, hash, calls) ==
  [s \in SearchStates(calls) |-> SearchStep(given, hash, calls, s)]

LEMMA LookupRuns ==
  ASSUME NEW given, NEW key, NEW hash, NEW calls,
         Closed(SearchStates(calls), SearchStops(given, key, hash, calls),
                SearchNext(given, hash, calls))
  PROVE  \E try : /\ TailRecursive(try, SearchStates(calls), SearchStops(given, key, hash, calls),
                                   SearchValue(given, key, calls), SearchNext(given, hash, calls))
                  /\ lookup(given, key, hash, calls) = try[Begin(0, hash, Size(given))]
<1>. DEFINE W == SearchStates(calls)
            stop == SearchStops(given, key, hash, calls)
            val == SearchValue(given, key, calls)
            nxt == SearchNext(given, hash, calls)
            Body(f) == [s \in [n : 0 .. Len(calls), i : Nat, perturb : Nat, free : Int] |->
        LET d == Seen(given, calls, s.n)
            e == d.entries[s.i]
            free == IF s.free = -1 THEN s.i ELSE s.free
            n == IF s.n < Len(calls) THEN s.n + 1 ELSE s.n
            after == Seen(given, calls, n)
            moved == (n # s.n /\ calls[n].moved) \/ after.entries[s.i].key # e.key
        IN  IF ~e.everused THEN Free(d, free, s.n)
            ELSE IF ~e.valid THEN f[Further(s, s.n, free, Size(d))]
            ELSE IF e.key = key THEN Found(d, s.i, s.n)
            ELSE IF d.kind = Identity \/ e.hash # hash THEN f[Further(s, s.n, s.free, Size(d))]
            ELSE IF moved THEN f[Begin(n, hash, Size(after))]
            ELSE IF keyeq(e.key, key) THEN Found(after, s.i, n)
            ELSE f[Further(s, n, s.free, Size(d))]]
            try == CHOOSE f : f = Body(f)
<1>1. \E f : TailRecursive(f, W, stop, val, nxt)
  <2>. HIDE DEF W, stop, val, nxt
  <2>. QED
    BY TailRuns DEF W, stop, nxt
<1>2. ASSUME NEW f
      PROVE  TailRecursive(f, W, stop, val, nxt) <=> f = Body(f)
  <2>. DEFINE F == [s \in W |-> IF stop[s] THEN val[s] ELSE f[nxt[s]]]
  <2>1. ASSUME NEW s \in W
        PROVE  F[s] = Body(f)[s]
    <3>. DEFINE d == Searched(given, calls, s)
                e == Compared(given, calls, s)
                n == Heard(calls, s)
                after == Answered(given, calls, s)
                moved == Moved(given, calls, s)
                same == keyeq(e.key, key)
                free == FreeSoFar(s)
    <3>1. F[s] = IF SearchOver(given, key, hash, calls, s) THEN SearchResult(given, key, calls, s)
                 ELSE f[SearchStep(given, hash, calls, s)]
      BY DEF SearchStops, SearchValue, SearchNext
    <3>3. Body(f)[s] = (IF ~e.everused THEN Free(d, free, s.n)
            ELSE IF ~e.valid THEN f[Further(s, s.n, free, Size(d))]
            ELSE IF e.key = key THEN Found(d, s.i, s.n)
            ELSE IF d.kind = Identity \/ e.hash # hash THEN f[Further(s, s.n, s.free, Size(d))]
            ELSE IF moved THEN f[Begin(n, hash, Size(after))]
            ELSE IF same THEN Found(after, s.i, n)
            ELSE f[Further(s, n, s.free, Size(d))])
      BY DEF SearchStates, Searched, Compared, Moved, FreeSoFar, Heard, Answered
    <3>4. /\ SearchOver(given, key, hash, calls, s) <=>
               \/ ~e.everused
               \/ /\ e.valid
                  /\ \/ e.key = key
                     \/ ~(d.kind = Identity \/ e.hash # hash) /\ ~moved /\ same
          /\ SearchResult(given, key, calls, s) =
               IF ~e.everused THEN Free(d, free, s.n)
               ELSE IF e.key = key THEN Found(d, s.i, s.n) ELSE Found(after, s.i, n)
          /\ SearchStep(given, hash, calls, s) =
               IF ~e.valid THEN Further(s, s.n, free, Size(d))
               ELSE IF d.kind = Identity \/ e.hash # hash THEN Further(s, s.n, s.free, Size(d))
               ELSE IF moved THEN Begin(n, hash, Size(after))
               ELSE Further(s, n, s.free, Size(d))
      BY DEF SearchOver, SearchResult, SearchStep
    <3>. HIDE DEF d, e, n, after, moved, same, free, F, Body
    <3>. QED
      BY <3>1, <3>3, <3>4
  <2>2. F = Body(f)
    <3>1. F = [s \in W |-> F[s]]
      OBVIOUS
    <3>2. Body(f) = [s \in W |-> Body(f)[s]]
      BY DEF SearchStates
    <3>. HIDE DEF F, Body
    <3>. QED
      BY <2>1, <3>1, <3>2
  <2>. QED
    BY <2>2 DEF TailRecursive
<1>3. TailRecursive(try, W, stop, val, nxt)
  <2>. HIDE DEF Body, W, stop, val, nxt
  <2>. QED
    BY <1>1, <1>2
<1>4. lookup(given, key, hash, calls) = try[Begin(0, hash, Size(given))]
  BY DEF lookup
<1>. QED
  <2>. HIDE DEF try
  <2>. QED
    BY <1>3, <1>4

LEMMA SearchedSound ==
  ASSUME NEW given, Sound(given), NEW calls, SoundCalls(given, calls), NEW s, s.n \in 0 .. Len(calls)
  PROVE  /\ Sound(Searched(given, calls, s)) /\ Searched(given, calls, s).kind = given.kind
         /\ Sound(Answered(given, calls, s)) /\ Answered(given, calls, s).kind = given.kind
         /\ Heard(calls, s) \in 0 .. Len(calls)
         /\ \/ Heard(calls, s) = s.n + 1
            \/ /\ Heard(calls, s) = s.n /\ Answered(given, calls, s) = Searched(given, calls, s)
               /\ ~Moved(given, calls, s)
         /\ ~Moved(given, calls, s) => Keeps(Searched(given, calls, s), Answered(given, calls, s))
<1>1. Len(calls) \in Nat
  BY DEF SoundCalls
<1>2. ASSUME NEW n \in 0 .. Len(calls)
      PROVE  Sound(Seen(given, calls, n)) /\ Seen(given, calls, n).kind = given.kind
  <2>1. n = 0 \/ n \in 1 .. Len(calls)
    BY <1>1
  <2>. QED
    BY <2>1 DEF Seen, SoundCalls
<1>3. Heard(calls, s) \in 0 .. Len(calls)
  BY <1>1 DEF Heard
<1>4. CASE s.n < Len(calls)
  <2>1. Heard(calls, s) = s.n + 1 /\ s.n + 1 \in 1 .. Len(calls) /\ s.n + 1 # 0
        /\ (s.n + 1) - 1 = s.n /\ s.n + 1 # s.n
    BY <1>1, <1>4 DEF Heard
  <2>2. calls[s.n + 1].moved \/ Keeps(Seen(given, calls, (s.n + 1) - 1), calls[s.n + 1].dict)
    BY <2>1 DEF SoundCalls
  <2>3. Answered(given, calls, s) = calls[s.n + 1].dict
    BY <2>1 DEF Answered, Seen
  <2>4. ~Moved(given, calls, s) => Keeps(Searched(given, calls, s), Answered(given, calls, s))
    BY <2>1, <2>2, <2>3 DEF Moved, Searched
  <2>. QED
    BY <1>2, <1>3, <2>1, <2>4 DEF Searched, Answered
<1>5. CASE ~(s.n < Len(calls))
  <2>1. Heard(calls, s) = s.n
    BY <1>5 DEF Heard
  <2>2. Answered(given, calls, s) = Searched(given, calls, s)
    BY <2>1 DEF Answered, Searched
  <2>3. ~Moved(given, calls, s)
    BY <2>1, <2>2 DEF Moved, Compared
  <2>. QED
    BY <1>2, <1>3, <2>1, <2>2, <2>3, KeepsSelf DEF Searched
<1>. QED
  BY <1>4, <1>5

LEMMA StepInW ==
  ASSUME NEW given, Sound(given), NEW hash \in Nat, NEW calls, SoundCalls(given, calls),
         NEW s \in SearchStates(calls)
  PROVE  SearchStep(given, hash, calls, s) \in SearchStates(calls)
<1>. DEFINE d == Searched(given, calls, s)
            after == Answered(given, calls, s)
            c == Heard(calls, s)
<1>1. /\ s.n \in 0 .. Len(calls) /\ s.i \in Nat /\ s.perturb \in Nat /\ s.free \in Int
      /\ FreeSoFar(s) \in Int
  BY DEF SearchStates, FreeSoFar
<1>2. Sound(d) /\ IsDict(d) /\ Sound(after) /\ c \in 0 .. Len(calls)
  BY <1>1, SearchedSound, Zenon DEF Sound
<1>. HIDE DEF d, after, c
<1>3. ASSUME NEW m \in 0 .. Len(calls), NEW free \in Int
      PROVE  Further(s, m, free, Size(d)) \in SearchStates(calls)
  <2>1. Further(s, m, free, Size(d)) \in [n : {m}, i : Nat, perturb : Nat, free : Int]
    BY <1>1, <1>2, FurtherIn
  <2>. QED
    BY <2>1 DEF SearchStates
<1>4. Begin(c, hash, Size(after)) \in SearchStates(calls)
  <2>1. Begin(c, hash, Size(after)) \in [n : {c}, i : Nat, perturb : Nat, free : Int]
    BY <1>2, BeginIn
  <2>. QED
    BY <1>2, <2>1 DEF SearchStates
<1>. QED
  BY <1>1, <1>2, <1>3, <1>4 DEF SearchStep, d, after, c

(* The search goes on from slot to slot of a dictionary, until it hears    *)
(* from eql? what it has not heard yet.                                    *)
LEMMA StepIn ==
  ASSUME NEW given, Sound(given), NEW key, NEW hash \in Nat, NEW calls, SoundCalls(given, calls),
         NEW s \in SearchStates(calls), InSearch(Searched(given, calls, s), s),
         ~SearchOver(given, key, hash, calls, s)
  PROVE  LET t == SearchStep(given, hash, calls, s)
         IN  /\ InSearch(Searched(given, calls, t), t)
             /\ \/ t.n = s.n + 1
                \/ /\ t.n = s.n /\ t.i = Probe(s.i, s.perturb, Size(Searched(given, calls, s)))
                   /\ t.perturb = Shifted(s.perturb)
<1>. DEFINE d == Searched(given, calls, s)
            e == Compared(given, calls, s)
            after == Answered(given, calls, s)
            c == Heard(calls, s)
            moved == Moved(given, calls, s)
            t == SearchStep(given, hash, calls, s)
<1>1. /\ s.n \in 0 .. Len(calls) /\ s.i \in Nat /\ s.perturb \in Nat /\ s.free \in Int
      /\ FreeSoFar(s) \in Int
  BY DEF SearchStates, FreeSoFar
<1>2. /\ Sound(d) /\ IsDict(d) /\ Sound(after)
      /\ c = s.n + 1 \/ (c = s.n /\ after = d /\ ~moved)
      /\ ~moved => Keeps(d, after)
  BY <1>1, SearchedSound, Zenon DEF Sound
<1>3. e = d.entries[s.i] /\ s.i \in 0 .. Size(d) - 1
      /\ (s.free = -1 \/ (s.free \in 0 .. Size(d) - 1 /\ ~d.entries[s.free].valid))
  BY DEF Compared, InSearch
<1>4. t = IF ~e.valid THEN Further(s, s.n, FreeSoFar(s), Size(d))
          ELSE IF d.kind = Identity \/ e.hash # hash THEN Further(s, s.n, s.free, Size(d))
          ELSE IF moved THEN Begin(c, hash, Size(after))
          ELSE Further(s, c, s.free, Size(d))
  BY DEF SearchStep
<1>5. ASSUME NEW u, u.n = c
      PROVE  Searched(given, calls, u) = after
  BY <1>5 DEF Searched, Answered
<1>6. ASSUME NEW u, u.n = s.n
      PROVE  Searched(given, calls, u) = d
  BY <1>6 DEF Searched
<1>7. ~moved => /\ Size(after) = Size(d)
                /\ \A j \in 0 .. Size(d) - 1 : ~d.entries[j].valid => ~after.entries[j].valid
  BY <1>2 DEF Keeps, Alike
<1>. HIDE DEF d, e, after, c, moved, t
<1>8. CASE ~e.valid
  <2>1. t = Further(s, s.n, FreeSoFar(s), Size(d))
    BY <1>4, <1>8
  <2>2. /\ t.n = s.n /\ t.free = FreeSoFar(s) /\ t.i = Probe(s.i, s.perturb, Size(d))
        /\ t.perturb = Shifted(s.perturb) /\ t.i \in 0 .. Size(d) - 1
    BY <1>1, <1>2, <2>1, FurtherIn
  <2>3. FreeSoFar(s) \in 0 .. Size(d) - 1 /\ ~d.entries[FreeSoFar(s)].valid
    BY <1>3, <1>8 DEF FreeSoFar
  <2>4. InSearch(d, t) /\ Searched(given, calls, t) = d
    BY <1>6, <2>2, <2>3 DEF InSearch
  <2>. QED
    BY <2>2, <2>4 DEF t, d
<1>9. CASE e.valid /\ (d.kind = Identity \/ e.hash # hash)
  <2>1. t = Further(s, s.n, s.free, Size(d))
    BY <1>4, <1>9
  <2>2. /\ t.n = s.n /\ t.free = s.free /\ t.i = Probe(s.i, s.perturb, Size(d))
        /\ t.perturb = Shifted(s.perturb) /\ t.i \in 0 .. Size(d) - 1
    BY <1>1, <1>2, <2>1, FurtherIn
  <2>4. InSearch(d, t) /\ Searched(given, calls, t) = d
    BY <1>3, <1>6, <2>2 DEF InSearch
  <2>. QED
    BY <2>2, <2>4 DEF t, d
<1>10. CASE e.valid /\ ~(d.kind = Identity \/ e.hash # hash) /\ moved
  <2>1. t = Begin(c, hash, Size(after))
    BY <1>4, <1>10
  <2>2. InSearch(after, t) /\ t.n = c
    BY <1>2, <2>1, BeginIn
  <2>. QED
    BY <1>2, <1>5, <1>10, <2>2 DEF t
<1>11. CASE e.valid /\ ~(d.kind = Identity \/ e.hash # hash) /\ ~moved
  <2>1. t = Further(s, c, s.free, Size(d))
    BY <1>4, <1>11
  <2>2. /\ t.n = c /\ t.free = s.free /\ t.i = Probe(s.i, s.perturb, Size(d))
        /\ t.perturb = Shifted(s.perturb) /\ t.i \in 0 .. Size(d) - 1
    BY <1>1, <1>2, <2>1, FurtherIn
  <2>3. InSearch(after, t)
    BY <1>3, <1>7, <1>11, <2>2 DEF InSearch
  <2>. QED
    BY <1>2, <1>5, <2>2, <2>3 DEF t, d
<1>. QED
  BY <1>8, <1>9, <1>10, <1>11

LEMMA SearchClosed ==
  ASSUME NEW given, Sound(given), NEW key, NEW hash \in Nat, NEW calls, SoundCalls(given, calls)
  PROVE  LET W == SearchStates(calls)
             stop == SearchStops(given, key, hash, calls)
             nxt == SearchNext(given, hash, calls)
             start == Begin(0, hash, Size(given))
             R == Reached(W, stop, nxt, start)
         IN  /\ Closed(W, stop, nxt) /\ start \in W /\ start \in R
             /\ \A v \in R : /\ v \in W /\ InSearch(Searched(given, calls, v), v)
                             /\ ~SearchOver(given, key, hash, calls, v) =>
                                  SearchStep(given, hash, calls, v) \in R
<1>. DEFINE W == SearchStates(calls)
            stop == SearchStops(given, key, hash, calls)
            nxt == SearchNext(given, hash, calls)
            start == Begin(0, hash, Size(given))
            R == Reached(W, stop, nxt, start)
            S == {s \in W : InSearch(Searched(given, calls, s), s)}
<1>1. \A s \in W : /\ stop[s] = SearchOver(given, key, hash, calls, s)
                   /\ nxt[s] = SearchStep(given, hash, calls, s)
  BY DEF SearchStops, SearchNext
<1>2. Closed(W, stop, nxt)
  <2>1. \A s \in W : nxt[s] \in W
    BY <1>1, StepInW
  <2>. HIDE DEF W, stop, nxt
  <2>. QED
    BY <2>1 DEF Closed
<1>3. start \in W /\ InSearch(Searched(given, calls, start), start)
  <2>1. /\ InSearch(given, start) /\ start.n = 0
        /\ start \in [n : {0}, i : Nat, perturb : Nat, free : Int]
    BY BeginIn
  <2>. HIDE DEF start
  <2>2. Searched(given, calls, start) = given
    BY <2>1 DEF Searched, Seen
  <2>3. start \in W
    BY <2>1 DEF SearchStates, SoundCalls
  <2>. QED
    BY <2>1, <2>2, <2>3
<1>4. Closed(S, stop, nxt)
  <2>. SUFFICES ASSUME NEW s \in S, ~stop[s] PROVE nxt[s] \in S
    BY DEF Closed
  <2>1. s \in W /\ InSearch(Searched(given, calls, s), s) /\ ~SearchOver(given, key, hash, calls, s)
    BY <1>1
  <2>2. InSearch(Searched(given, calls, SearchStep(given, hash, calls, s)), SearchStep(given, hash, calls, s))
    BY <2>1, StepIn
  <2>3. nxt[s] \in W /\ nxt[s] = SearchStep(given, hash, calls, s)
    BY <1>1, <2>1, StepInW
  <2>. HIDE DEF W, stop, nxt
  <2>. QED
    BY <2>2, <2>3
<1>5. R \subseteq S /\ start \in R /\ \A v \in R : ~stop[v] => nxt[v] \in R
  <2>1. S \in SUBSET W /\ start \in S
    BY <1>3
  <2>. HIDE DEF W, stop, nxt, start, S
  <2>2. R \subseteq S
    BY <1>3, <1>4, <2>1, ReachedInduction, Zenon
  <2>3. start \in R /\ Closed(R, stop, nxt)
    BY <1>2, <1>3, ReachedClosed, Zenon
  <2>. QED
    BY <2>2, <2>3 DEF Closed
<1>. HIDE DEF R
<1>6. ASSUME NEW v \in R
      PROVE  /\ v \in W /\ InSearch(Searched(given, calls, v), v)
             /\ ~SearchOver(given, key, hash, calls, v) => SearchStep(given, hash, calls, v) \in R
  <2>1. v \in W /\ InSearch(Searched(given, calls, v), v)
    BY <1>5
  <2>2. /\ stop[v] = SearchOver(given, key, hash, calls, v)
        /\ nxt[v] = SearchStep(given, hash, calls, v)
    BY <1>1, <2>1
  <2>. HIDE DEF W, stop, nxt, S
  <2>. QED
    BY <1>5, <2>1, <2>2
<1>. QED
  BY <1>2, <1>3, <1>5, <1>6, Zenon DEF R

(* The slot never used ends the search, in the last dictionary it comes to.*)
LEMMA SearchStopsOnce ==
  ASSUME NEW given, Sound(given), NEW key, NEW hash \in Nat, NEW calls, SoundCalls(given, calls),
         NEW R, R # {},
         \A v \in R : /\ v \in SearchStates(calls) /\ InSearch(Searched(given, calls, v), v)
                      /\ ~SearchOver(given, key, hash, calls, v) =>
                           SearchStep(given, hash, calls, v) \in R
  PROVE  \E v \in R : SearchOver(given, key, hash, calls, v)
<1>. SUFFICES ASSUME \A v \in R : ~SearchOver(given, key, hash, calls, v)
              PROVE  FALSE
  OBVIOUS
<1>. DEFINE N == {v.n : v \in R}
<1>1. N \in SUBSET (0 .. Len(calls)) /\ N # {} /\ Len(calls) \in Nat
  BY DEF SearchStates, SoundCalls
<1>2. PICK m \in N : \A j \in N : j <= m
  <2>. HIDE DEF N
  <2>. QED
    BY <1>1, GreatestNatural
<1>. DEFINE Q == {v \in R : v.n = m}
            d == Seen(given, calls, m)
            n == Size(d)
<1>3. PICK v0 \in R : v0.n = m
  OBVIOUS
<1>4. Sound(d) /\ m \in 0 .. Len(calls)
  <2>1. v0.n \in 0 .. Len(calls)
    BY DEF SearchStates
  <2>. QED
    BY <1>3, <2>1, SearchedSound DEF Searched
<1>5. IsDict(d) /\ HasRoom(d)
  BY <1>4 DEF Sound
<1>6. n \in Nat /\ PowerOfTwo(n)
  BY <1>5, DictFacts
<1>7. ASSUME NEW v \in Q
      PROVE  /\ v.i \in 0 .. n - 1 /\ v.perturb \in Nat
             /\ \E w \in Q : w.i = Probe(v.i, v.perturb, n) /\ w.perturb = Shifted(v.perturb)
  <2>. DEFINE w == SearchStep(given, hash, calls, v)
  <2>1. v \in R /\ v.n = m /\ w \in R
    OBVIOUS
  <2>2. /\ v \in SearchStates(calls) /\ InSearch(Searched(given, calls, v), v)
        /\ ~SearchOver(given, key, hash, calls, v)
    BY <2>1
  <2>3. Searched(given, calls, v) = d
    BY <2>1 DEF Searched
  <2>4. \/ w.n = v.n + 1
        \/ w.n = v.n /\ w.i = Probe(v.i, v.perturb, n) /\ w.perturb = Shifted(v.perturb)
    BY <2>2, <2>3, StepIn
  <2>5. w.n <= m
    BY <1>2, <2>1
  <2>6. v.i \in 0 .. n - 1 /\ v.perturb \in Nat
    BY <2>2, <2>3 DEF InSearch, SearchStates
  <2>. HIDE DEF w, d
  <2>7. w.n = m /\ w.i = Probe(v.i, v.perturb, n) /\ w.perturb = Shifted(v.perturb)
    BY <1>4, <2>1, <2>4, <2>5
  <2>. QED
    BY <2>1, <2>6, <2>7
<1>8. Q # {}
  BY <1>3
<1>9. \A j \in 0 .. n - 1 : \E v \in Q : v.i = j
  <2>. HIDE DEF n, Q
  <2>. QED
    BY <1>6, <1>7, <1>8, SearchEnds
<1>10. PICK j \in 0 .. n - 1 : ~d.entries[j].everused
  BY <1>5, RoomLeft
<1>11. PICK v \in Q : v.i = j
  BY <1>9
<1>12. SearchOver(given, key, hash, calls, v)
  BY <1>10, <1>11 DEF SearchOver, Compared, Searched
<1>. QED
  BY <1>12

(* What a search finds: a slot in use if it is found, and if not one free. *)
LEMMA LookupSound ==
  ASSUME NEW given, Sound(given), NEW key, NEW hash \in Nat, NEW calls, SoundCalls(given, calls)
  PROVE  LET r == lookup(given, key, hash, calls)
         IN  /\ Sound(r.dict) /\ r.dict.kind = given.kind
             /\ r.slot \in 0 .. Size(r.dict) - 1
             /\ r.found \in BOOLEAN /\ (r.dict.entries[r.slot].valid <=> r.found)
             /\ r.called \in 0 .. Len(calls) /\ r.dict = Seen(given, calls, r.called)
<1>. DEFINE W == SearchStates(calls)
            stop == SearchStops(given, key, hash, calls)
            val == SearchValue(given, key, calls)
            nxt == SearchNext(given, hash, calls)
            start == Begin(0, hash, Size(given))
            R == Reached(W, stop, nxt, start)
            r == lookup(given, key, hash, calls)
<1>1. /\ Closed(W, stop, nxt) /\ start \in W /\ start \in R
      /\ \A v \in R : /\ v \in W /\ InSearch(Searched(given, calls, v), v)
                      /\ ~SearchOver(given, key, hash, calls, v) =>
                           SearchStep(given, hash, calls, v) \in R
  BY SearchClosed, Zenon
<1>2. PICK try : TailRecursive(try, W, stop, val, nxt) /\ r = try[start]
  <2>1. Closed(W, stop, nxt)
    BY <1>1, Zenon
  <2>2. \E try : /\ TailRecursive(try, W, stop, val, nxt)
                 /\ lookup(given, key, hash, calls) = try[Begin(0, hash, Size(given))]
    BY <2>1, LookupRuns
  <2>. HIDE DEF W, stop, val, nxt
  <2>. QED
    BY <2>2
<1>. HIDE DEF R, r, start
<1>3. PICK v \in R : SearchOver(given, key, hash, calls, v)
  <2>1. R # {}
    BY <1>1
  <2>2. \A u \in R : /\ u \in SearchStates(calls) /\ InSearch(Searched(given, calls, u), u)
                     /\ ~SearchOver(given, key, hash, calls, u) =>
                           SearchStep(given, hash, calls, u) \in R
    BY <1>1
  <2>. QED
    BY <2>1, <2>2, SearchStopsOnce
<1>4. v \in W /\ InSearch(Searched(given, calls, v), v)
  BY <1>1
<1>5. stop[v] /\ val[v] = SearchResult(given, key, calls, v)
  BY <1>3, <1>4 DEF SearchStops, SearchValue
<1>6. r = val[v]
  <2>. HIDE DEF W, stop, val, nxt
  <2>. QED
    BY <1>1, <1>2, <1>5, TailSame DEF R
<1>. DEFINE d == Searched(given, calls, v)
            e == Compared(given, calls, v)
            after == Answered(given, calls, v)
            c == Heard(calls, v)
<1>7. /\ Sound(d) /\ d.kind = given.kind /\ Sound(after) /\ after.kind = given.kind
      /\ v.n \in 0 .. Len(calls) /\ c \in 0 .. Len(calls)
      /\ d = Seen(given, calls, v.n) /\ after = Seen(given, calls, c)
      /\ ~Moved(given, calls, v) => Keeps(d, after)
  <2>1. v.n \in 0 .. Len(calls)
    BY <1>4 DEF SearchStates
  <2>. QED
    BY <2>1, SearchedSound DEF Searched, Answered
<1>8. /\ v.i \in 0 .. Size(d) - 1 /\ e = d.entries[v.i]
      /\ v.free = -1 \/ (v.free \in 0 .. Size(d) - 1 /\ ~d.entries[v.free].valid)
  BY <1>4 DEF Compared, InSearch
<1>9. /\ e.valid => e.everused
      /\ e.valid <=> e.key # Null
  <2>1. IsDict(d)
    BY <1>7 DEF Sound
  <2>. HIDE DEF d, e
  <2>. QED
    BY <1>8, <2>1, DictFacts
<1>10. r = IF ~e.everused THEN Free(d, FreeSoFar(v), v.n)
           ELSE IF e.key = key THEN Found(d, v.i, v.n)
           ELSE Found(after, v.i, c)
  BY <1>5, <1>6 DEF SearchResult
<1>11. \/ ~e.everused
       \/ e.valid /\ (e.key = key \/ ~Moved(given, calls, v))
  BY <1>3 DEF SearchOver
<1>11a. ~Moved(given, calls, v) => after.entries[v.i].key = e.key
  BY DEF Moved
<1>. HIDE DEF d, e, after, c
<1>12. CASE ~e.everused
  <2>1. FreeSoFar(v) \in 0 .. Size(d) - 1 /\ ~d.entries[FreeSoFar(v)].valid
    BY <1>8, <1>9, <1>12 DEF FreeSoFar
  <2>2. r.dict = d /\ r.slot = FreeSoFar(v) /\ r.found = FALSE /\ r.called = v.n
    BY <1>10, <1>12 DEF Free
  <2>. QED
    BY <1>7, <2>1, <2>2 DEF r
<1>13. CASE e.everused /\ e.key = key
  <2>1. r.dict = d /\ r.slot = v.i /\ r.found = TRUE /\ r.called = v.n
    BY <1>10, <1>13 DEF Found
  <2>2. d.entries[v.i].valid
    BY <1>8, <1>11, <1>13
  <2>. QED
    BY <1>7, <1>8, <2>1, <2>2 DEF r
<1>14. CASE e.everused /\ e.key # key
  <2>1. r.dict = after /\ r.slot = v.i /\ r.found = TRUE /\ r.called = c
    BY <1>10, <1>14 DEF Found
  <2>2. e.valid /\ after.entries[v.i].key = e.key /\ Size(after) = Size(d)
    BY <1>7, <1>11, <1>11a, <1>14 DEF Keeps
  <2>4. IsDict(after) /\ v.i \in 0 .. Size(after) - 1
    BY <1>7, <1>8, <2>2 DEF Sound
  <2>5. after.entries[v.i].valid
    BY <1>9, <2>2, <2>4, DictFacts
  <2>. QED
    BY <1>7, <2>1, <2>4, <2>5 DEF r
<1>. QED
  BY <1>12, <1>13, <1>14


LEMMA Bigger ==
  ASSUME NEW num \in Nat
  PROVE  /\ num * (IF num > 50000 THEN 2 ELSE 4) \in Nat
         /\ \A n \in Nat : n > num * (IF num > 50000 THEN 2 ELSE 4) => 2 * n - 3 * num > 0
<1>1. CASE num > 50000
  BY <1>1
<1>2. CASE ~(num > 50000)
  BY <1>2
<1>. QED
  BY <1>1, <1>2

(* The new size leaves room for the items.                                 *)
LEMMA NewSizeIs ==
  ASSUME NEW num \in Nat
  PROVE  NewSize(num) \in Nat /\ PowerOfTwo(NewSize(num)) /\ 2 * NewSize(num) - 3 * num > 0
<1>. DEFINE estimate == num * (IF num > 50000 THEN 2 ELSE 4)
            stop == [n \in Nat |-> ~(n <= estimate)]
            val == [n \in Nat |-> n]
            nxt == [n \in Nat |-> 2 * n]
            R == Reached(Nat, stop, nxt, INIT_SIZE)
            doubled == CHOOSE f : f = [n \in Nat |-> IF n <= estimate THEN f[2 * n] ELSE n]
            S == {n \in Nat : PowerOfTwo(n)}
<1>1. estimate \in Nat /\ INIT_SIZE \in Nat /\ INIT_SIZE \in S
  BY Bigger, DictAssumption DEF PowerOfTwo
<1>. HIDE DEF estimate
<1>2. Closed(Nat, stop, nxt)
  BY DEF Closed
<1>3. Closed(S, stop, nxt)
  <2>. SUFFICES ASSUME NEW n \in S PROVE 2 * n \in S
    BY DEF Closed
  <2>. QED
    BY DoublePower
<1>4. R \subseteq S /\ INIT_SIZE \in R /\ \A v \in R : ~stop[v] => nxt[v] \in R
  <2>1. S \in SUBSET Nat
    OBVIOUS
  <2>. HIDE DEF S, stop, nxt
  <2>2. R \subseteq S
    BY <1>1, <1>3, <2>1, ReachedInduction, Zenon
  <2>3. INIT_SIZE \in R /\ Closed(R, stop, nxt)
    BY <1>1, <1>2, ReachedClosed, Zenon
  <2>. QED
    BY <2>2, <2>3 DEF Closed
<1>. HIDE DEF R
<1>5. \E v \in R : stop[v]
  <2>. SUFFICES ASSUME \A v \in R : ~stop[v] PROVE FALSE
    OBVIOUS
  <2>1. \A v \in R : v \in Nat \ {0} /\ v <= estimate /\ 2 * v \in R
    BY <1>4 DEF PowerOfTwo
  <2>2. R \in SUBSET (0 .. estimate) /\ R # {}
    BY <1>1, <1>4, <2>1
  <2>3. PICK g \in R : \A v \in R : v <= g
    BY <1>1, <2>2, GreatestNatural
  <2>. QED
    BY <2>1, <2>3
<1>6. PICK v \in R : stop[v]
  BY <1>5
<1>7. TailRecursive(doubled, Nat, stop, val, nxt)
  <2>1. \E f : TailRecursive(f, Nat, stop, val, nxt)
    <3>. HIDE DEF stop, nxt, val
    <3>. QED
      BY <1>2, TailRuns
  <2>2. ASSUME NEW f
        PROVE  TailRecursive(f, Nat, stop, val, nxt) <=>
               f = [n \in Nat |-> IF n <= estimate THEN f[2 * n] ELSE n]
    <3>. DEFINE F == [n \in Nat |-> IF stop[n] THEN val[n] ELSE f[nxt[n]]]
                G == [n \in Nat |-> IF n <= estimate THEN f[2 * n] ELSE n]
    <3>1. \A n \in Nat : F[n] = G[n]
      OBVIOUS
    <3>2. F = G
      BY <3>1
    <3>. HIDE DEF F, G
    <3>3. TailRecursive(f, Nat, stop, val, nxt) <=> f = F
      BY DEF TailRecursive, F
    <3>. QED
      BY <3>2, <3>3 DEF G
  <2>. QED
    BY <2>1, <2>2
<1>8. NewSize(num) = doubled[INIT_SIZE]
  BY DEF NewSize, estimate
<1>9. doubled[INIT_SIZE] = val[v]
  <2>. HIDE DEF doubled, stop, nxt, val
  <2>. QED
    BY <1>1, <1>2, <1>6, <1>7, TailSame DEF R
<1>. QED
  <2>0. v \in S /\ v \in Nat
    BY <1>4
  <2>1. v \in S /\ val[v] = v /\ v > estimate
    <3>1. ~(v <= estimate) /\ val[v] = v
      BY <1>6, <2>0
    <3>. HIDE DEF val, S
    <3>. QED
      BY <1>1, <2>0, <3>1
  <2>2. NewSize(num) = v
    BY <1>8, <1>9, <2>1, Zenon
  <2>. QED
    BY <2>1, <2>2, Bigger DEF estimate

-----------------------------------------------------------------------------
(* The slots in use are as many as the links pass.                         *)
LEMMA ChainCounts ==
  ASSUME NEW d, IsDict(d), NEW s, Chain(d, s)
  PROVE  /\ Cardinality(Used(d)) = Len(s) /\ Len(s) <= Size(d)
         /\ Used(d) = {s[k] : k \in 1 .. Len(s)}
<1>. DEFINE n == Size(d)
            len == Len(s)
<1>1. /\ n \in Nat /\ DOMAIN d.entries = 0 .. n - 1 /\ len \in Nat /\ DOMAIN s = 1 .. len
      /\ \A k \in 1 .. len : s[k] \in 0 .. n - 1 /\ d.entries[s[k]].valid
  BY DictFacts, ChainFacts
<1>2. /\ \A k, l \in 1 .. len : s[k] = s[l] => k = l
      /\ \A i \in 0 .. n - 1 : d.entries[i].valid => \E k \in 1 .. len : s[k] = i
  <2>. HIDE DEF n, len
  <2>. QED
    BY <1>1, Zenon DEF Chain
<1>3. Used(d) \in SUBSET (0 .. n - 1) /\ Used(d) = {s[k] : k \in 1 .. len}
  BY <1>1, <1>2 DEF Used
<1>4. IsFiniteSet(0 .. n - 1) /\ Cardinality(0 .. n - 1) = n
  BY <1>1, IntervalSize
<1>5. Cardinality(Used(d)) <= n
  <2>. HIDE DEF n
  <2>. QED
    BY <1>3, <1>4, FS_Subset
<1>. DEFINE f == [k \in 1 .. len |-> s[k]]
<1>6. f \in Bijection(1 .. len, Used(d))
  <2>. HIDE DEF n, len
  <2>1. f \in [1 .. len -> Used(d)]
    BY <1>3
  <2>2. \A k, l \in 1 .. len : f[k] = f[l] => k = l
    BY <1>2
  <2>3. \A i \in Used(d) : \E k \in 1 .. len : f[k] = i
    BY <1>3
  <2>. HIDE DEF f
  <2>. QED
    BY <2>1, <2>2, <2>3 DEF Bijection, Injection, Surjection, IsInjective
<1>7. IsFiniteSet(1 .. len) /\ Cardinality(1 .. len) = len
  <2>1. 1 \in Int /\ len \in Int
    BY <1>1
  <2>2. IsFiniteSet(1 .. len) /\ Cardinality(1 .. len) = IF 1 > len THEN 0 ELSE len - 1 + 1
    BY <2>1, FS_Interval
  <2>. QED
    BY <1>1, <2>2
<1>8. Cardinality(Used(d)) = Cardinality(1 .. len)
  <2>. HIDE DEF f, len
  <2>1. ExistsBijection(1 .. len, Used(d))
    BY <1>6 DEF ExistsBijection
  <2>. QED
    BY <1>7, <2>1, FS_Bijection
<1>. QED
  BY <1>3, <1>5, <1>7, <1>8

(* The links read from some place on are the rest of the chain.            *)
After(s, b) == [j \in 1 .. Len(s) - b |-> s[b + j]]

LEMMA AfterIs ==
  ASSUME NEW S, NEW s \in Seq(S), NEW b \in 0 .. Len(s)
  PROVE  /\ After(s, b) \in Seq(S) /\ Len(After(s, b)) = Len(s) - b
         /\ \A j \in 1 .. Len(s) - b : After(s, b)[j] = s[b + j] /\ b + j \in 1 .. Len(s)
         /\ After(s, 0) = s
<1>. DEFINE len == Len(s)
            n == len - b
<1>1. len \in Nat /\ b \in Nat /\ n \in Nat /\ s \in [1 .. len -> S]
  BY LenProperties
<1>2. \A j \in 1 .. n : b + j \in 1 .. len
  BY <1>1
<1>3. After(s, b) = [j \in 1 .. n |-> s[b + j]]
  BY DEF After
<1>4. After(s, 0) = [j \in 1 .. len |-> s[j]]
  BY <1>1 DEF After
<1>. HIDE DEF n, len
<1>5. After(s, b) \in [1 .. n -> S] /\ \A j \in 1 .. n : After(s, b)[j] = s[b + j]
  BY <1>1, <1>2, <1>3
<1>6. After(s, b) \in Seq(S) /\ Len(After(s, b)) = n
  BY <1>1, <1>5
<1>7. After(s, 0) = s
  BY <1>1, <1>4
<1>. QED
  BY <1>2, <1>5, <1>6, <1>7 DEF n, len

Place(w, s, b, k) ==
  /\ k \in 0 .. Len(s) - b /\ w.at = Nth(s, b + k + 1)
  /\ Len(w.seen) = k /\ \A j \in 1 .. k : w.seen[j] = s[b + j]

LEMMA WalkStep ==
  ASSUME NEW d, IsDict(d), NEW s, Chain(d, s), NEW b \in 0 .. Len(s),
         NEW w \in Walks(d), NEW k, Place(w, s, b, k), w.at # -1
  PROVE  Place([at |-> d.entries[w.at].next, seen |-> Append(w.seen, w.at)], s, b, k + 1)
<1>. DEFINE v == [at |-> d.entries[w.at].next, seen |-> Append(w.seen, w.at)]
            len == Len(s)
<1>1. k \in 0 .. len - b /\ k \in Nat /\ b \in Nat /\ b + k + 1 \in 1 .. len /\ len \in Nat /\ w.at = s[b + k + 1]
  <2>1. k \in 0 .. Len(s) - b /\ w.at = Nth(s, b + k + 1) /\ Len(s) \in Nat
    BY ChainFacts DEF Place
  <2>2. b + k + 1 \in 1 .. Len(s)
    BY <2>1, ChainFacts
  <2>. QED
    BY <2>1, <2>2, ChainFacts DEF Nth
<1>2. v.at = Nth(s, b + (k + 1) + 1)
  <2>1. b + k + 1 \in DOMAIN s
    BY <1>1, ChainFacts
  <2>2. d.entries[s[b + k + 1]].next = Nth(s, (b + k + 1) + 1)
    BY <2>1, Zenon DEF Chain
  <2>3. (b + k + 1) + 1 = b + (k + 1) + 1
    BY <1>1
  <2>. QED
    BY <1>1, <2>2, <2>3
<1>3. w.seen \in Seq(DOMAIN d.entries) /\ w.at \in DOMAIN d.entries /\ v.seen = Append(w.seen, w.at)
  BY DEF Walks
<1>4. Len(v.seen) = k + 1 /\ \A j \in 1 .. k + 1 : v.seen[j] = s[b + j]
  <2>1. Len(w.seen) = k /\ \A j \in 1 .. k : w.seen[j] = s[b + j]
    BY DEF Place
  <2>. HIDE DEF v, len
  <2>2. Len(v.seen) = k + 1 /\ (\A j \in 1 .. k : v.seen[j] = w.seen[j]) /\ v.seen[k + 1] = w.at
    BY <1>3, <2>1, AppendProperties
  <2>3. \A j \in 1 .. k + 1 : j = k + 1 \/ j \in 1 .. k
    BY <1>1
  <2>4. b + (k + 1) = b + k + 1
    BY <1>1
  <2>. QED
    BY <1>1, <2>1, <2>2, <2>3, <2>4
<1>. HIDE DEF v
<1>5. k + 1 \in 0 .. Len(s) - b
  BY <1>1
<1>6. Place(v, s, b, k + 1)
  BY <1>2, <1>4, <1>5 DEF Place
<1>. QED
  BY <1>6 DEF v

LEMMA WalkFrom ==
  ASSUME NEW d, IsDict(d), NEW s, Chain(d, s), NEW b \in 0 .. Len(s)
  PROVE  From(d, Nth(s, b + 1)) = After(s, b)
<1>. DEFINE n == Size(d)
            W == Walks(d)
            stop == [w \in W |-> w.at = -1 \/ Len(w.seen) > n]
            val == [w \in W |-> w.seen]
            nxt == [w \in W |-> [at |-> d.entries[w.at].next, seen |-> Append(w.seen, w.at)]]
            start == [at |-> Nth(s, b + 1), seen |-> <<>>]
            R == Reached(W, stop, nxt, start)
            Body(f) == [w \in W |-> IF w.at = -1 \/ Len(w.seen) > n THEN w.seen
                                    ELSE f[[at |-> d.entries[w.at].next, seen |-> Append(w.seen, w.at)]]]
            walk == CHOOSE f : f = Body(f)
            S == {w \in W : \E k : Place(w, s, b, k)}
<1>1. /\ n \in Nat \ {0} /\ DOMAIN d.entries = 0 .. n - 1
      /\ s \in Seq(Nat) /\ Len(s) \in Nat /\ DOMAIN s = 1 .. Len(s)
      /\ \A k \in 1 .. Len(s) : s[k] \in 0 .. n - 1
      /\ Len(s) <= n /\ b \in Nat
  BY DictFacts, ChainFacts, ChainCounts
<1>2. ASSUME NEW i \in 0 .. n - 1
      PROVE  d.entries[i].next \in (0 .. n - 1) \cup {-1}
  <2>1. CASE d.entries[i].valid
    <3>1. PICK k \in DOMAIN s : s[k] = i
      BY <1>1, <2>1, Zenon DEF Chain
    <3>2. d.entries[i].next = Nth(s, k + 1)
      BY <3>1, Zenon DEF Chain
    <3>. QED
      BY <1>1, <3>2 DEF Nth
  <2>2. CASE ~d.entries[i].valid
    <3>1. d.entries[i] \in {Zeroed, Deleted}
      BY <1>1, <2>2 DEF IsDict
    <3>2. Zeroed.next = 0 /\ Deleted.next = 0
      BY DEF Zeroed, Deleted
    <3>. QED
      BY <1>1, <3>1, <3>2
  <2>. QED
    BY <2>1, <2>2
<1>3. ASSUME NEW w \in W, w.at # -1
      PROVE  nxt[w] \in W
  <2>1. w.at \in 0 .. n - 1 /\ w.seen \in Seq(DOMAIN d.entries) /\ w.at \in DOMAIN d.entries
    BY <1>1, <1>3 DEF Walks
  <2>2. Append(w.seen, w.at) \in Seq(DOMAIN d.entries)
    BY <2>1, AppendProperties
  <2>3. d.entries[w.at].next \in DOMAIN d.entries \cup {-1}
    BY <1>1, <1>2, <2>1
  <2>. QED
    BY <2>2, <2>3 DEF Walks
<1>4. Closed(W, stop, nxt)
  BY <1>3 DEF Closed
<1>5. start \in W /\ Place(start, s, b, 0)
  <2>1. Nth(s, b + 1) \in DOMAIN d.entries \cup {-1}
    BY <1>1 DEF Nth
  <2>2. <<>> \in Seq(DOMAIN d.entries) /\ Len(<<>>) = 0
    OBVIOUS
  <2>3. 0 \in 0 .. Len(s) - b /\ b + 0 + 1 = b + 1
    BY <1>1
  <2>. QED
    BY <2>1, <2>2, <2>3 DEF Walks, Place
<1>6. ASSUME NEW w \in S, ~stop[w]
      PROVE  nxt[w] \in S
  <2>1. w \in W /\ w.at # -1
    BY <1>6
  <2>2. PICK k : Place(w, s, b, k)
    OBVIOUS
  <2>3. Place(nxt[w], s, b, k + 1)
    BY <2>1, <2>2, WalkStep
  <2>. QED
    BY <1>3, <2>1, <2>3
<1>7. R \subseteq S /\ start \in R /\ \A v \in R : ~stop[v] => nxt[v] \in R
  <2>1. S \in SUBSET W /\ start \in S
    BY <1>5
  <2>. HIDE DEF S, W, stop, nxt, start
  <2>2. Closed(S, stop, nxt)
    BY <1>6 DEF Closed
  <2>3. R \subseteq S
    BY <1>5, <2>1, <2>2, ReachedInduction, Zenon
  <2>4. start \in R /\ Closed(R, stop, nxt)
    BY <1>4, <1>5, ReachedClosed, Zenon
  <2>. QED
    BY <2>3, <2>4 DEF Closed
<1>. HIDE DEF R
<1>8. \E v \in R : stop[v]
  <2>. SUFFICES ASSUME \A v \in R : ~stop[v] PROVE FALSE
    OBVIOUS
  <2>. DEFINE I == {k \in 0 .. Len(s) - b : \E v \in R : Place(v, s, b, k)}
  <2>1. 0 \in I
    BY <1>1, <1>5, <1>7
  <2>2. PICK k \in I : \A j \in I : j <= k
    <3>. HIDE DEF I
    <3>1. I \in SUBSET (0 .. Len(s) - b) /\ I # {}
      BY <2>1, Zenon DEF I
    <3>2. Len(s) - b \in Nat
      BY <1>1
    <3>. QED
      BY <3>1, <3>2, GreatestNatural
  <2>3. PICK v \in R : Place(v, s, b, k)
    BY <2>2
  <2>4. v \in W /\ v.at # -1 /\ nxt[v] \in R
    BY <1>7
  <2>5. Place(nxt[v], s, b, k + 1)
    BY <2>3, <2>4, WalkStep
  <2>6. k + 1 \in I
    BY <2>4, <2>5 DEF Place
  <2>. QED
    BY <2>2, <2>6
<1>9. PICK v \in R : stop[v]
  BY <1>8
<1>10. PICK k : Place(v, s, b, k)
  BY <1>7
<1>11. v.seen = After(s, b)
  <2>1. v \in W /\ v.seen \in Seq(DOMAIN d.entries)
    BY <1>7 DEF Walks
  <2>2. v.at = -1 \/ Len(v.seen) > n
    BY <1>9, <2>1
  <2>3. k \in 0 .. Len(s) - b /\ v.at = Nth(s, b + k + 1) /\ Len(v.seen) = k
        /\ \A j \in 1 .. k : v.seen[j] = s[b + j]
    BY <1>10 DEF Place
  <2>4. k = Len(s) - b
    <3>1. v.at = -1
      BY <1>1, <2>2, <2>3
    <3>2. b + k + 1 \notin 1 .. Len(s)
      BY <2>3, <3>1, ChainFacts
    <3>. QED
      BY <1>1, <2>3, <3>2
  <2>5. v.seen \in Seq(Nat)
    <3>1. DOMAIN d.entries \subseteq Nat
      BY <1>1
    <3>. QED
      BY <2>1, <3>1
  <2>6. After(s, b) \in Seq(Nat) /\ Len(After(s, b)) = Len(s) - b
        /\ \A j \in 1 .. Len(s) - b : After(s, b)[j] = s[b + j]
    BY <1>1, AfterIs
  <2>7. Len(v.seen) = Len(After(s, b)) /\ \A j \in 1 .. Len(v.seen) : v.seen[j] = After(s, b)[j]
    BY <2>3, <2>4, <2>6
  <2>. QED
    BY <2>5, <2>6, <2>7, SeqEqual
<1>12. TailRecursive(walk, W, stop, val, nxt)
  <2>1. \E f : TailRecursive(f, W, stop, val, nxt)
    <3>. HIDE DEF W, stop, nxt, val
    <3>. QED
      BY <1>4, TailRuns
  <2>2. ASSUME NEW f
        PROVE  TailRecursive(f, W, stop, val, nxt) <=> f = Body(f)
    <3>. DEFINE F == [w \in W |-> IF stop[w] THEN val[w] ELSE f[nxt[w]]]
    <3>1. \A w \in W : F[w] = Body(f)[w]
      <4>. HIDE DEF n, W
      <4>. QED
        OBVIOUS
    <3>2. F = Body(f)
      <4>. HIDE DEF n, W
      <4>. QED
        BY <3>1
    <3>. HIDE DEF F, Body
    <3>3. TailRecursive(f, W, stop, val, nxt) <=> f = F
      BY DEF TailRecursive, F
    <3>. QED
      BY <3>2, <3>3
  <2>. HIDE DEF Body, W, stop, val, nxt
  <2>. QED
    BY <2>1, <2>2
<1>13. From(d, Nth(s, b + 1)) = walk[start]
  BY DEF From
<1>14. walk[start] = val[v]
  <2>. HIDE DEF walk, W, stop, nxt, val, start
  <2>. QED
    BY <1>4, <1>5, <1>9, <1>12, TailSame DEF R
<1>15. val[v] = v.seen
  BY <1>7
<1>. QED
  BY <1>11, <1>13, <1>14, <1>15, Zenon

(* The links read from the front are the chain.                            *)
LEMMA WalkIsChain ==
  ASSUME NEW d, IsDict(d), NEW s, Chain(d, s)
  PROVE  From(d, d.first_entry) = s
<1>1. /\ d.first_entry = Nth(s, 0 + 1) /\ s \in Seq(Nat) /\ 0 \in 0 .. Len(s)
  BY ChainFacts
<1>2. From(d, Nth(s, 0 + 1)) = After(s, 0) /\ After(s, 0) = s
  BY <1>1, WalkFrom, AfterIs
<1>. QED
  BY <1>1, <1>2

-----------------------------------------------------------------------------
(* Loops.                                                                  *)

(* A set of indices that is not empty has a last one.                       *)
LEMMA LastIndex ==
  ASSUME NEW n \in Nat, NEW s \in SUBSET (1..n), s # {}
  PROVE  Max(s) \in s /\ \A i \in s : i <= Max(s)
<1>. DEFINE I == {m \in Nat : \A i \in s : i <= m}
<1>1. n \in I
  OBVIOUS
<1>2. PICK m \in I : \A k \in I : m <= k
  BY <1>1, LeastNatural
<1>3. m \in s
  <2>. SUFFICES ASSUME m \notin s PROVE FALSE
    OBVIOUS
  <2>1. m # 0
    <3>1. PICK i \in s : TRUE
      OBVIOUS
    <3>2. i \in Nat /\ 1 <= i /\ i <= m
      BY <1>2
    <3>. QED
      BY <3>2
  <2>2. m - 1 \in Nat /\ \A i \in s : i <= m - 1
    BY <1>2, <2>1
  <2>3. m - 1 \in I
    BY <2>2
  <2>. QED
    BY <1>2, <2>3
<1>4. \A i \in s : m >= i
  BY <1>2
<1>. QED
  BY <1>2, <1>3, <1>4 DEF Max

(* What a loop over the slots of d does in its i-th round; or a loop over  *)
(* items, d being the kind they are compared by; or one that adds to a set *)
(* what may happen next.                                                   *)
Restoring(kd, acc, item) ==
  LET there == Map!Exact(kd, acc, item.key)
  IN  Map!Put(kd, acc, IF there = {} THEN 0 ELSE CHOOSE i \in there : TRUE, item.key, item.value)
Round(loop, d, slots, x, i) ==
  LET e == d.entries[slots[i]]
  IN  IF loop = "restore" THEN Restoring(d, x, slots[i])
      ELSE IF loop = "resize" THEN insert_clean(x, e)
      ELSE IF loop = "calls" THEN x \cup UNION {Prolonged(calls) : calls \in x}
      ELSE IF loop = "fewer" THEN x \cup UNION {Map!Fewer(m) : m \in x}
      ELSE setitem(x, e.key, e.value, <<>>)
Runs(g, loop, d, slots, base, n) ==
  g = [s \in SUBSET (1..n) |->
         IF s = {} THEN base ELSE Round(loop, d, slots, g[s \ {Max(s)}], Max(s))]

LEMMA LoopRuns ==
  ASSUME NEW loop, NEW d, NEW slots, NEW base, NEW n \in Nat
  PROVE  \E g : Runs(g, loop, d, slots, base, n)
<1>. DEFINE P(k) == \E g : Runs(g, loop, d, slots, base, k)
            I == {k \in Nat : ~P(k)}
<1>1. P(0)
  <2>. DEFINE g == [s \in SUBSET (1..0) |-> base]
  <2>1. \A s \in SUBSET (1..0) : s = {}
    OBVIOUS
  <2>2. g = [s \in SUBSET (1..0) |->
               IF s = {} THEN base ELSE Round(loop, d, slots, g[s \ {Max(s)}], Max(s))]
    BY <2>1
  <2>. QED
    BY <2>2 DEF Runs
<1>2. ASSUME NEW k \in Nat, P(k)
      PROVE  P(k + 1)
  <2>1. PICK f : Runs(f, loop, d, slots, base, k)
    BY <1>2
  <2>. DEFINE g == [s \in SUBSET (1..(k + 1)) |->
                      IF s = {} THEN base
                      ELSE Round(loop, d, slots, f[s \ {Max(s)}], Max(s))]
  <2>2. ASSUME NEW s \in SUBSET (1..(k + 1)), s # {}
        PROVE  g[s \ {Max(s)}] = f[s \ {Max(s)}]
    <3>. DEFINE r == s \ {Max(s)}
    <3>1. Max(s) \in s /\ \A i \in s : i <= Max(s)
      <4>1. k + 1 \in Nat
        OBVIOUS
      <4>. QED
        BY <2>2, <4>1, LastIndex
    <3>2. r \in SUBSET (1..k)
      <4>1. ASSUME NEW i \in r
            PROVE  i \in 1..k
        <5>1. i \in 1..(k + 1) /\ Max(s) \in 1..(k + 1) /\ i <= Max(s) /\ i # Max(s)
          BY <3>1
        <5>. QED
          BY <5>1
      <4>. QED
        BY <4>1
    <3>3. r \in SUBSET (1..(k + 1))
      OBVIOUS
    <3>. HIDE DEF r
    <3>4. f[r] = IF r = {} THEN base ELSE Round(loop, d, slots, f[r \ {Max(r)}], Max(r))
      BY <2>1, <3>2 DEF Runs
    <3>5. g[r] = f[r]
      BY <3>3, <3>4
    <3>. QED
      BY <3>5 DEF r
  <2>3. g = [s \in SUBSET (1..(k + 1)) |->
               IF s = {} THEN base ELSE Round(loop, d, slots, g[s \ {Max(s)}], Max(s))]
    BY <2>2
  <2>. QED
    BY <2>3 DEF Runs
<1>. HIDE DEF P
<1>3. I = {}
  <2>. SUFFICES ASSUME I # {} PROVE FALSE
    OBVIOUS
  <2>1. PICK k \in I : \A i \in I : k <= i
    BY LeastNatural
  <2>2. k \in Nat \ {0}
    BY <1>1
  <2>3. k - 1 \in Nat /\ k - 1 \notin I
    BY <2>1, <2>2
  <2>. QED
    BY <1>2, <2>2, <2>3
<1>. QED
  BY <1>3 DEF P

(* The states a loop goes through.                                          *)
Passes(A, loop, d, slots, base, n) ==
  A[0] = base /\ \A k \in 1..n : A[k] = Round(loop, d, slots, A[k - 1], k)

LEMMA LoopPasses ==
  ASSUME NEW loop, NEW d, NEW slots, NEW base, NEW n \in Nat,
         NEW g, Runs(g, loop, d, slots, base, n)
  PROVE  \E A : Passes(A, loop, d, slots, base, n) /\ A[n] = g[1..n]
<1>. DEFINE A == [k \in 0..n |-> g[1..k]]
<1>1. A[0] = base
  <2>1. 1..0 = {}
    OBVIOUS
  <2>. QED
    BY <2>1 DEF Runs
<1>2. ASSUME NEW k \in 1..n
      PROVE  A[k] = Round(loop, d, slots, A[k - 1], k)
  <2>1. 1..k \in SUBSET (1..n) /\ 1..k # {} /\ k \in 1..k
    OBVIOUS
  <2>2. Max(1..k) = k
    <3>1. Max(1..k) \in 1..k /\ \A i \in 1..k : i <= Max(1..k)
      BY <2>1, LastIndex
    <3>2. k \in Nat /\ Max(1..k) \in Nat /\ Max(1..k) <= k /\ k <= Max(1..k)
      BY <2>1, <3>1
    <3>. QED
      BY <3>2
  <2>3. (1..k) \ {k} = 1..(k - 1)
    OBVIOUS
  <2>4. g[1..k] = Round(loop, d, slots, g[1..(k - 1)], k)
    BY <2>1, <2>2, <2>3 DEF Runs
  <2>5. k \in 0..n /\ k - 1 \in 0..n
    OBVIOUS
  <2>. QED
    BY <2>4, <2>5
<1>3. A[n] = g[1..n]
  OBVIOUS
<1>. HIDE DEF A
<1>4. Passes(A, loop, d, slots, base, n)
  BY <1>1, <1>2 DEF Passes
<1>. QED
  BY <1>3, <1>4


LEMMA ResizePasses ==
  ASSUME NEW d, NEW s, s = From(d, d.first_entry), NEW m \in Nat, DOMAIN s = 1..m
  PROVE  \E A : /\ Passes(A, "resize", d, s, newdict(d.kind, NewSize(d.num_items)), m)
                /\ resize(d) = A[m]
<1>. DEFINE base == newdict(d.kind, NewSize(d.num_items))
            solves(iter) ==
              iter = [r \in SUBSET DOMAIN s |->
                        IF r = {} THEN base
                        ELSE insert_clean(iter[r \ {Max(r)}], d.entries[s[Max(r)]])]
            g == CHOOSE iter : solves(iter)
            result == g[DOMAIN s]
<1>1. resize(d) = result
  BY DEF resize, FoldLeft, MapThenFoldSet
<1>2. ASSUME NEW f
      PROVE  solves(f) <=> Runs(f, "resize", d, s, base, m)
  BY DEF Runs, Round
<1>. HIDE DEF solves, base
<1>3. solves(g)
  BY <1>2, LoopRuns
<1>4. Runs(g, "resize", d, s, base, m)
  BY <1>2, <1>3
<1>. HIDE DEF g
<1>5. \E A : Passes(A, "resize", d, s, base, m) /\ A[m] = g[1..m]
  BY <1>4, LoopPasses
<1>6. result = g[1..m]
  OBVIOUS
<1>. HIDE DEF result
<1>. QED
  BY <1>1, <1>5, <1>6 DEF base

LEMMA MergePasses ==
  ASSUME NEW d, NEW s, NEW m \in Nat, DOMAIN s = 1..m
  PROVE  \E A : Passes(A, "merge", dict, s, d, m) /\ Merge(d, s) = A[m]
<1>. DEFINE solves(iter) ==
              iter = [r \in SUBSET DOMAIN s |->
                        IF r = {} THEN d
                        ELSE setitem(iter[r \ {Max(r)}], dict.entries[s[Max(r)]].key,
                                     dict.entries[s[Max(r)]].value, <<>>)]
            g == CHOOSE iter : solves(iter)
            result == g[DOMAIN s]
<1>1. Merge(d, s) = result
  BY DEF Merge, FoldLeft, MapThenFoldSet
<1>2. ASSUME NEW f
      PROVE  solves(f) <=> Runs(f, "merge", dict, s, d, m)
  BY DEF Runs, Round
<1>. HIDE DEF solves
<1>3. solves(g)
  BY <1>2, LoopRuns
<1>4. Runs(g, "merge", dict, s, d, m)
  BY <1>2, <1>3
<1>. HIDE DEF g
<1>5. \E A : Passes(A, "merge", dict, s, d, m) /\ A[m] = g[1..m]
  BY <1>4, LoopPasses
<1>6. result = g[1..m]
  OBVIOUS
<1>. HIDE DEF result
<1>. QED
  BY <1>1, <1>5, <1>6

LEMMA RestoredPasses ==
  ASSUME NEW kd, NEW q, NEW m \in Nat, DOMAIN q = 1..m
  PROVE  \E A : Passes(A, "restore", kd, q, <<>>, m) /\ Map!Restored(kd, q) = A[m]
<1>. DEFINE solves(iter) ==
              iter = [r \in SUBSET DOMAIN q |->
                        IF r = {} THEN <<>> ELSE Restoring(kd, iter[r \ {Max(r)}], q[Max(r)])]
            g == CHOOSE iter : solves(iter)
            result == g[DOMAIN q]
<1>1. Map!Restored(kd, q) = result
  BY DEF Map!Restored, Map!FoldLeft, Map!MapThenFoldSet, Restoring, Map!Max, Max
<1>2. ASSUME NEW f
      PROVE  solves(f) <=> Runs(f, "restore", kd, q, <<>>, m)
  BY DEF Runs, Round
<1>. HIDE DEF solves
<1>3. solves(g)
  BY <1>2, LoopRuns
<1>4. Runs(g, "restore", kd, q, <<>>, m)
  BY <1>2, <1>3
<1>. HIDE DEF g
<1>5. \E A : Passes(A, "restore", kd, q, <<>>, m) /\ A[m] = g[1..m]
  BY <1>4, LoopPasses
<1>6. result = g[1..m]
  OBVIOUS
<1>. HIDE DEF result
<1>. QED
  BY <1>1, <1>5, <1>6

LEMMA CallbacksPasses ==
  \E A : Passes(A, "calls", 0, 0, {<<>>}, EqlSteps) /\ Callbacks = A[EqlSteps]
<1>. DEFINE m == EqlSteps
            q == [n \in 1..m |-> n]
            More(acc) == acc \cup UNION {Prolonged(calls) : calls \in acc}
            solves(iter) ==
              iter = [r \in SUBSET DOMAIN q |->
                        IF r = {} THEN {<<>>} ELSE More(iter[r \ {Max(r)}])]
            g == CHOOSE iter : solves(iter)
            result == g[DOMAIN q]
<1>0. m \in Nat /\ DOMAIN q = 1..m
  BY HashAssumption
<1>1. Callbacks = result
  BY DEF Callbacks, FoldLeft, MapThenFoldSet
<1>2. ASSUME NEW f
      PROVE  solves(f) <=> Runs(f, "calls", 0, 0, {<<>>}, m)
  BY <1>0 DEF Runs, Round
<1>. HIDE DEF solves
<1>3. solves(g)
  BY <1>0, <1>2, LoopRuns
<1>4. Runs(g, "calls", 0, 0, {<<>>}, m)
  BY <1>2, <1>3
<1>. HIDE DEF g
<1>5. \E A : Passes(A, "calls", 0, 0, {<<>>}, m) /\ A[m] = g[1..m]
  <2>. HIDE DEF m
  <2>. QED
    BY <1>0, <1>4, LoopPasses
<1>6. result = g[1..m]
  BY <1>0
<1>. HIDE DEF result
<1>. QED
  BY <1>1, <1>5, <1>6

LEMMA ComparedPasses ==
  \E A : Passes(A, "fewer", 0, 0, {Map!Now}, EqlSteps) /\ Map!Compared = A[EqlSteps]
<1>. DEFINE m == EqlSteps
            q == [n \in 1..m |-> n]
            base == {Map!Now}
            More(acc) == acc \cup UNION {Map!Fewer(x) : x \in acc}
            solves(iter) ==
              iter = [r \in SUBSET DOMAIN q |->
                        IF r = {} THEN base ELSE More(iter[r \ {Max(r)}])]
            g == CHOOSE iter : solves(iter)
            result == g[DOMAIN q]
<1>0. m \in Nat /\ DOMAIN q = 1..m
  BY HashAssumption
<1>1. Map!Compared = result
  BY DEF Map!Compared, Map!FoldLeft, Map!MapThenFoldSet, Map!Max, Max
<1>. HIDE DEF base
<1>2. ASSUME NEW f
      PROVE  solves(f) <=> Runs(f, "fewer", 0, 0, base, m)
  BY <1>0 DEF Runs, Round
<1>. HIDE DEF solves
<1>3. solves(g)
  BY <1>0, <1>2, LoopRuns
<1>4. Runs(g, "fewer", 0, 0, base, m)
  BY <1>2, <1>3
<1>. HIDE DEF g
<1>5. \E A : Passes(A, "fewer", 0, 0, base, m) /\ A[m] = g[1..m]
  <2>. HIDE DEF m
  <2>. QED
    BY <1>0, <1>4, LoopPasses
<1>6. result = g[1..m]
  BY <1>0
<1>. HIDE DEF result
<1>. QED
  BY <1>1, <1>5, <1>6 DEF base

-----------------------------------------------------------------------------
(* A dictionary of which only the counter or a value differs.              *)
LEMMA CounterOnly ==
  ASSUME NEW d, IsDict(d), NEW v \in Int, NEW s, Chain(d, s)
  PROVE  LET e == [d EXCEPT !.resize_counter = v]
         IN  /\ IsDict(e) /\ Chain(e, s) /\ e.kind = d.kind /\ e.entries = d.entries
             /\ Size(e) = Size(d) /\ Ever(e) = Ever(d) /\ e.resize_counter = v /\ e.num_items = d.num_items
<1>. DEFINE e == [d EXCEPT !.resize_counter = v]
<1>1. d \in [kind : {Eql, Identity}, entries : Arrays, num_items : Int, first_entry : Int,
             last_entry : Int, resize_counter : Int]
  BY DEF IsDict
<1>2. /\ e \in [kind : {Eql, Identity}, entries : Arrays, num_items : Int, first_entry : Int,
                last_entry : Int, resize_counter : Int]
      /\ e.kind = d.kind /\ e.entries = d.entries /\ e.num_items = d.num_items
      /\ e.first_entry = d.first_entry /\ e.last_entry = d.last_entry /\ e.resize_counter = v
  BY <1>1
<1>. HIDE DEF e
<1>3. IsDict(e)
  BY <1>2, Zenon DEF IsDict
<1>4. Chain(e, s)
  BY <1>2, Zenon DEF Chain
<1>. QED
  BY <1>2, <1>3, <1>4, Zenon DEF e, Size, Ever

LEMMA ValueOnly ==
  ASSUME NEW d, Sound(d), NEW i \in 0 .. Size(d) - 1, d.entries[i].valid, NEW value \in Values
  PROVE  LET e == [d EXCEPT !.entries[i].value = value]
         IN  /\ Sound(e) /\ e.kind = d.kind /\ Size(e) = Size(d) /\ Ever(e) = Ever(d)
             /\ \A s : Chain(d, s) => Chain(e, s)
             /\ \A j \in 0 .. Size(d) - 1 :
                  /\ e.entries[j].key = d.entries[j].key /\ e.entries[j].hash = d.entries[j].hash
                  /\ e.entries[j].valid = d.entries[j].valid
                  /\ e.entries[j].value = IF j = i THEN value ELSE d.entries[j].value
<1>. DEFINE e == [d EXCEPT !.entries[i].value = value]
            n == Size(d)
            o == d.entries[i]
            changed == [o EXCEPT !.value = value]
<1>1. PICK s : Chain(d, s)
  BY DEF Sound
<1>2. IsDict(d) /\ HasRoom(d)
  BY DEF Sound
<1>3. /\ n \in Nat /\ PowerOfTwo(n) /\ DOMAIN d.entries = 0 .. n - 1 /\ i \in 0 .. n - 1
      /\ d.entries \in [0 .. n - 1 -> Entries]
  BY <1>2, DictFacts
<1>4. /\ d \in [kind : {Eql, Identity}, entries : Arrays, num_items : Int, first_entry : Int,
                last_entry : Int, resize_counter : Int]
  BY <1>2 DEF IsDict
<1>5. /\ changed \in Entries /\ changed.valid = o.valid /\ changed.everused = o.everused
      /\ changed.next = o.next /\ changed.prev = o.prev /\ changed.value = value /\ changed.key = o.key
      /\ changed.hash = o.hash
  <2>1. o \in Entries
    BY <1>3
  <2>. HIDE DEF o
  <2>. QED
    BY <2>1 DEF Entries
<1>6. /\ e.kind = d.kind /\ e.num_items = d.num_items /\ e.first_entry = d.first_entry
      /\ e.last_entry = d.last_entry /\ e.resize_counter = d.resize_counter
      /\ e.entries = [d.entries EXCEPT ![i] = changed]
      /\ e = [kind |-> e.kind, entries |-> e.entries, num_items |-> e.num_items,
              first_entry |-> e.first_entry, last_entry |-> e.last_entry,
              resize_counter |-> e.resize_counter]
  BY <1>4
<1>. HIDE DEF e, changed
<1>7. ASSUME NEW j \in 0 .. n - 1
      PROVE  /\ e.entries[j] \in Entries
             /\ e.entries[j].valid = d.entries[j].valid /\ e.entries[j].everused = d.entries[j].everused
             /\ e.entries[j].next = d.entries[j].next /\ e.entries[j].prev = d.entries[j].prev
             /\ j # i => e.entries[j] = d.entries[j]
             /\ j = i => e.entries[j] = changed
  BY <1>3, <1>5, <1>6
<1>8. DOMAIN e.entries = 0 .. n - 1 /\ e.entries \in [0 .. n - 1 -> Entries]
  BY <1>3, <1>5, <1>6
<1>9. IsDict(e) /\ Size(e) = n
  <2>1. \A j \in 0 .. n - 1 :
           IF e.entries[j].valid
           THEN e.entries[j].key \in Keys /\ e.entries[j].value \in Values /\ e.entries[j].everused
           ELSE e.entries[j] \in {Zeroed, Deleted}
    <3>. SUFFICES ASSUME NEW j \in 0 .. n - 1
                  PROVE  IF e.entries[j].valid
                         THEN e.entries[j].key \in Keys /\ e.entries[j].value \in Values /\ e.entries[j].everused
                         ELSE e.entries[j] \in {Zeroed, Deleted}
      OBVIOUS
    <3>0. IF d.entries[j].valid
          THEN d.entries[j].key \in Keys /\ d.entries[j].value \in Values /\ d.entries[j].everused
          ELSE d.entries[j] \in {Zeroed, Deleted}
      BY <1>2, <1>3 DEF IsDict
    <3>1. CASE j = i
      BY <1>5, <1>7, <3>0, <3>1
    <3>2. CASE j # i
      BY <1>7, <3>0, <3>2
    <3>. QED
      BY <3>1, <3>2
  <2>2. /\ e.kind \in {Eql, Identity} /\ e.num_items \in Int /\ e.first_entry \in Int
        /\ e.last_entry \in Int /\ e.resize_counter \in Int
    BY <1>4, <1>6
  <2>. HIDE DEF n
  <2>. QED
    BY <1>3, <1>6, <1>8, <2>1, <2>2, DictIf
<1>10. ASSUME NEW t, Chain(d, t) PROVE Chain(e, t)
  <2>1. \A j \in DOMAIN d.entries :
          /\ e.entries[j].valid = d.entries[j].valid
          /\ e.entries[j].next = d.entries[j].next /\ e.entries[j].prev = d.entries[j].prev
    BY <1>3, <1>7
  <2>2. DOMAIN e.entries = DOMAIN d.entries
    BY <1>3, <1>8
  <2>. QED
    BY <1>6, <1>10, <2>1, <2>2, Zenon DEF Chain
<1>11. HasRoom(e) /\ Ever(e) = Ever(d)
  <2>1. Ever(e) = Ever(d)
    BY <1>3, <1>7, <1>8 DEF Ever
  <2>. QED
    BY <1>2, <1>6, <1>9, <2>1, Zenon DEF HasRoom, Counts
<1>12. ASSUME NEW j \in 0 .. n - 1
       PROVE  /\ e.entries[j].key = d.entries[j].key /\ e.entries[j].hash = d.entries[j].hash
              /\ e.entries[j].valid = d.entries[j].valid
              /\ e.entries[j].value = IF j = i THEN value ELSE d.entries[j].value
  BY <1>5, <1>7
<1>13. Sound(e)
  BY <1>1, <1>9, <1>10, <1>11, Zenon DEF Sound
<1>. QED
  BY <1>6, <1>9, <1>10, <1>11, <1>12, <1>13, Zenon DEF e

-----------------------------------------------------------------------------
(* One more slot ever used.                                                *)
LEMMA OneMore ==
  ASSUME NEW d, IsDict(d), NEW i \in 0 .. Size(d) - 1, ~d.entries[i].everused
  PROVE  /\ IsFiniteSet(Ever(d)) /\ Cardinality(Ever(d)) \in Nat
         /\ Cardinality(Ever(d) \cup {i}) = Cardinality(Ever(d)) + 1
<1>. DEFINE n == Size(d)
<1>1. n \in Nat /\ DOMAIN d.entries = 0 .. n - 1
  BY DictFacts
<1>2. Ever(d) \in SUBSET (0 .. n - 1) /\ i \notin Ever(d)
  BY <1>1 DEF Ever
<1>3. IsFiniteSet(0 .. n - 1)
  BY <1>1, IntervalSize
<1>. HIDE DEF n
<1>4. IsFiniteSet(Ever(d))
  BY <1>2, <1>3, FS_Subset
<1>. QED
  BY <1>2, <1>4, FS_CardinalityType, FS_AddElement

LEMMA InsertKeeps ==
  ASSUME NEW d, Sound(d), NEW e, e.key \in Keys, e.value \in Values, e.hash \in Nat
  PROVE  LET f == insert_clean(d, e)
         IN  /\ IsDict(f) /\ (\E t : Chain(f, t)) /\ Counts(f) /\ f.kind = d.kind /\ Size(f) = Size(d)
             /\ f.resize_counter = d.resize_counter - 3
<1>. DEFINE i == lookup_clean(d, e.hash)
            g == Linked(d, i, e.key, e.value, e.hash)
            f == insert_clean(d, e)
<1>1. PICK s : Chain(d, s)
  BY DEF Sound
<1>2. IsDict(d) /\ HasRoom(d) /\ i \in 0 .. Size(d) - 1 /\ ~d.entries[i].everused
  BY CleanSlot DEF Sound
<1>3. ~d.entries[i].valid
  BY <1>2, DictFacts
<1>. HIDE DEF i
<1>4. /\ IsDict(g) /\ Chain(g, Append(s, i)) /\ Ever(g) = Ever(d) \cup {i}
      /\ g.resize_counter = d.resize_counter /\ g.kind = d.kind /\ Size(g) = Size(d)
  BY <1>1, <1>2, <1>3, LinkedKeeps
<1>5. f = [g EXCEPT !.resize_counter = @ - 3]
  BY DEF insert_clean, i
<1>. HIDE DEF f, g
<1>6. d.resize_counter \in Int /\ d.resize_counter - 3 \in Int
  BY <1>2 DEF IsDict
<1>7. f = [g EXCEPT !.resize_counter = d.resize_counter - 3]
  BY <1>4, <1>5
<1>8. /\ IsDict(f) /\ Chain(f, Append(s, i)) /\ f.kind = d.kind /\ Size(f) = Size(d)
      /\ Ever(f) = Ever(d) \cup {i} /\ f.resize_counter = d.resize_counter - 3
  BY <1>4, <1>6, <1>7, CounterOnly
<1>9. Counts(f)
  <2>1. d.resize_counter = 2 * Size(d) - 3 * Cardinality(Ever(d))
    BY <1>2 DEF HasRoom, Counts
  <2>2. Cardinality(Ever(d)) \in Nat /\ Cardinality(Ever(f)) = Cardinality(Ever(d)) + 1 /\ Size(d) \in Nat
    BY <1>2, <1>8, OneMore, DictFacts
  <2>3. f.resize_counter = 2 * Size(d) - 3 * Cardinality(Ever(f))
    <3>. DEFINE c == Cardinality(Ever(d))
                n == Size(d)
    <3>. HIDE DEF c, n
    <3>1. (2 * n - 3 * c) - 3 = 2 * n - 3 * (c + 1)
      BY <2>2 DEF c, n
    <3>. QED
      BY <1>8, <2>1, <2>2, <3>1 DEF c, n
  <2>. QED
    BY <1>8, <2>3 DEF Counts
<1>. QED
  BY <1>8, <1>9 DEF f

(* What is wrong in no first round and goes wrong in none is never wrong.  *)
LEMMA NeverWrong ==
  ASSUME NEW m \in Nat, NEW I \in SUBSET (0 .. m), 0 \notin I, \A k \in 1 .. m : k \in I => k - 1 \in I
  PROVE  I = {}
<1>. SUFFICES ASSUME I # {} PROVE FALSE
  OBVIOUS
<1>1. I \in SUBSET Nat
  OBVIOUS
<1>2. PICK k \in I : \A j \in I : k <= j
  BY <1>1, LeastNatural
<1>3. k \in 1 .. m
  BY <1>2
<1>. QED
  BY <1>2, <1>3

-----------------------------------------------------------------------------
LEMMA HashkeyNatural ==
  ASSUME content \in [Keys -> DOMAIN HashOf], NEW kind, NEW k \in Keys
  PROVE  hashkey(kind, k) \in Nat
BY DictAssumption DEF hashkey

LEMMA StoredIsKey ==
  ASSUME NEW k \in Keys
  PROVE  Stored(k) \in Keys
BY HashAssumption DEF Stored

-----------------------------------------------------------------------------
(* Where a search stops it stops from everywhere on its way.               *)
LEMMA TailLast ==
  ASSUME NEW W, NEW stop, NEW nxt, Closed(W, stop, nxt), NEW w \in W,
         NEW v \in Reached(W, stop, nxt, w), stop[v], NEW u \in Reached(W, stop, nxt, w)
  PROVE  v \in Reached(W, stop, nxt, u)
<1>. DEFINE S == {x \in W : v \in Reached(W, stop, nxt, x)}
<1>1. w \in S
  OBVIOUS
<1>2. ASSUME NEW x \in S, ~stop[x]
      PROVE  nxt[x] \in S
  <2>. DEFINE y == nxt[x]
              T == {x} \cup Reached(W, stop, nxt, y)
  <2>1. y \in W
    BY <1>2 DEF Closed
  <2>2. y \in Reached(W, stop, nxt, y) /\ Closed(Reached(W, stop, nxt, y), stop, nxt)
        /\ Reached(W, stop, nxt, y) \in SUBSET W
    <3>. HIDE DEF y
    <3>. QED
      BY <2>1, ReachedClosed
  <2>3. T \in SUBSET W /\ x \in T /\ Closed(T, stop, nxt)
    BY <2>2 DEF Closed
  <2>4. Reached(W, stop, nxt, x) \subseteq T
    <3>. HIDE DEF T
    <3>. QED
      BY <2>3, ReachedInduction
  <2>5. v # x /\ v \in Reached(W, stop, nxt, x)
    BY <1>2
  <2>. QED
    BY <2>1, <2>4, <2>5
<1>3. S \in SUBSET W /\ Closed(S, stop, nxt)
  BY <1>2 DEF Closed
<1>. HIDE DEF S
<1>4. Reached(W, stop, nxt, w) \subseteq S
  BY <1>1, <1>3, ReachedInduction
<1>. QED
  BY <1>4 DEF S

-----------------------------------------------------------------------------
(* Every item is where a search for it comes.                              *)
Placed(d) == \A i \in DOMAIN d.entries : d.entries[i].valid => OnWay(d, d.entries[i].hash, i)

LEMMA WayKept ==
  ASSUME NEW d, IsDict(d), NEW e, IsDict(e), Size(e) = Size(d), Ever(d) \subseteq Ever(e),
         NEW hash, NEW i, OnWay(d, hash, i)
  PROVE  OnWay(e, hash, i)
<1>. SUFFICES ASSUME NEW P, Way(e, hash, P) PROVE \E w \in P : w[1] = i
  BY DEF OnWay
<1>1. \A j \in 0 .. Size(d) - 1 : d.entries[j].everused => e.entries[j].everused
  BY DictFacts DEF Ever
<1>2. Way(d, hash, P)
  BY <1>1 DEF Way
<1>. QED
  BY <1>2 DEF OnWay

LEMMA PlacedKept ==
  ASSUME NEW d, IsDict(d), Placed(d), NEW e, IsDict(e), Size(e) = Size(d), Ever(d) \subseteq Ever(e),
         \A i \in 0 .. Size(d) - 1 : e.entries[i].valid =>
           \/ d.entries[i].valid /\ e.entries[i].hash = d.entries[i].hash
           \/ OnWay(d, e.entries[i].hash, i)
  PROVE  Placed(e)
<1>. SUFFICES ASSUME NEW i \in DOMAIN e.entries, e.entries[i].valid
              PROVE  OnWay(e, e.entries[i].hash, i)
  BY DEF Placed
<1>1. i \in 0 .. Size(d) - 1 /\ i \in DOMAIN d.entries
  BY DictFacts
<1>2. OnWay(d, e.entries[i].hash, i)
  BY <1>1 DEF Placed
<1>. QED
  BY <1>2, WayKept

-----------------------------------------------------------------------------
(* The way of one search.                                                  *)
Goes(given, key, hash, calls, s) ==
  Reached(SearchStates(calls), SearchStops(given, key, hash, calls),
          SearchNext(given, hash, calls), s)

LEMMA GoesOn ==
  ASSUME NEW given, Sound(given), NEW key, NEW hash \in Nat, NEW calls, SoundCalls(given, calls),
         NEW w \in SearchStates(calls)
  PROVE  /\ w \in Goes(given, key, hash, calls, w)
         /\ \A u \in Goes(given, key, hash, calls, w) :
              /\ u \in SearchStates(calls)
              /\ ~SearchOver(given, key, hash, calls, u) =>
                   SearchStep(given, hash, calls, u) \in Goes(given, key, hash, calls, w)
         /\ \A S \in SUBSET SearchStates(calls) :
              /\ w \in S
              /\ \A u \in S : ~SearchOver(given, key, hash, calls, u) =>
                                SearchStep(given, hash, calls, u) \in S
              => Goes(given, key, hash, calls, w) \subseteq S
<1>. DEFINE W == SearchStates(calls)
            stop == SearchStops(given, key, hash, calls)
            nxt == SearchNext(given, hash, calls)
            Q == Goes(given, key, hash, calls, w)
<1>1. \A s \in W : /\ stop[s] = SearchOver(given, key, hash, calls, s)
                   /\ nxt[s] = SearchStep(given, hash, calls, s)
  BY DEF SearchStops, SearchNext
<1>2. Closed(W, stop, nxt)
  BY SearchClosed, Zenon
<1>3. w \in Q /\ Closed(Q, stop, nxt) /\ Q \in SUBSET W
  <2>. HIDE DEF W, stop, nxt
  <2>. QED
    BY <1>2, ReachedClosed DEF Goes, W, stop, nxt
<1>. HIDE DEF Q
<1>4. ASSUME NEW u \in Q, ~SearchOver(given, key, hash, calls, u)
      PROVE  SearchStep(given, hash, calls, u) \in Q
  <2>1. u \in W /\ ~stop[u] /\ nxt[u] = SearchStep(given, hash, calls, u)
    BY <1>1, <1>3, <1>4
  <2>. HIDE DEF W, stop, nxt
  <2>. QED
    BY <1>3, <2>1 DEF Closed
<1>5. ASSUME NEW S \in SUBSET W, w \in S,
             \A u \in S : ~SearchOver(given, key, hash, calls, u) =>
                            SearchStep(given, hash, calls, u) \in S
      PROVE  Q \subseteq S
  <2>1. ASSUME NEW u \in S, ~stop[u]
        PROVE  nxt[u] \in S
    <3>1. u \in W
      OBVIOUS
    <3>2. stop[u] = SearchOver(given, key, hash, calls, u) /\ nxt[u] = SearchStep(given, hash, calls, u)
      BY <1>1, <3>1
    <3>. HIDE DEF W, stop, nxt
    <3>. QED
      BY <1>5, <2>1, <3>2
  <2>2. Closed(S, stop, nxt)
    BY <2>1 DEF Closed
  <2>3. Q = Reached(W, stop, nxt, w)
    BY DEF Q, Goes
  <2>. HIDE DEF W, stop, nxt
  <2>. QED
    BY <1>5, <2>2, <2>3, ReachedInduction
<1>. HIDE DEF stop, nxt
<1>. QED
  BY <1>3, <1>4, <1>5 DEF Q

(* A search goes to the state it stops in, from everywhere on its way.     *)
LEMMA SearchRun ==
  ASSUME NEW given, Sound(given), NEW key, NEW hash \in Nat, NEW calls, SoundCalls(given, calls)
  PROVE  LET start == Begin(0, hash, Size(given))
             R == Goes(given, key, hash, calls, start)
         IN  /\ start \in SearchStates(calls)
             /\ \A u \in R : /\ InSearch(Searched(given, calls, u), u)
                             /\ SearchOver(given, key, hash, calls, u) =>
                                  lookup(given, key, hash, calls) = SearchResult(given, key, calls, u)
             /\ \E v \in R : /\ SearchOver(given, key, hash, calls, v)
                             /\ \A u \in R : v \in Goes(given, key, hash, calls, u)
<1>. DEFINE W == SearchStates(calls)
            stop == SearchStops(given, key, hash, calls)
            val == SearchValue(given, key, calls)
            nxt == SearchNext(given, hash, calls)
            start == Begin(0, hash, Size(given))
            R == Reached(W, stop, nxt, start)
            r == lookup(given, key, hash, calls)
<1>1. /\ Closed(W, stop, nxt) /\ start \in W /\ start \in R
      /\ \A v \in R : /\ v \in W /\ InSearch(Searched(given, calls, v), v)
                      /\ ~SearchOver(given, key, hash, calls, v) =>
                           SearchStep(given, hash, calls, v) \in R
  BY SearchClosed, Zenon
<1>2. PICK try : TailRecursive(try, W, stop, val, nxt) /\ r = try[start]
  <2>1. Closed(W, stop, nxt)
    BY <1>1, Zenon
  <2>2. \E try : /\ TailRecursive(try, W, stop, val, nxt)
                 /\ lookup(given, key, hash, calls) = try[Begin(0, hash, Size(given))]
    BY <2>1, LookupRuns
  <2>. HIDE DEF W, stop, val, nxt
  <2>. QED
    BY <2>2
<1>. HIDE DEF R, r, start
<1>3. PICK v \in R : SearchOver(given, key, hash, calls, v)
  <2>1. R # {}
    BY <1>1
  <2>2. \A u \in R : /\ u \in SearchStates(calls) /\ InSearch(Searched(given, calls, u), u)
                     /\ ~SearchOver(given, key, hash, calls, u) =>
                           SearchStep(given, hash, calls, u) \in R
    BY <1>1
  <2>. QED
    BY <2>1, <2>2, SearchStopsOnce
<1>4. \A u \in R : /\ stop[u] = SearchOver(given, key, hash, calls, u)
                   /\ val[u] = SearchResult(given, key, calls, u)
  BY <1>1 DEF SearchStops, SearchValue
<1>5. ASSUME NEW u \in R, SearchOver(given, key, hash, calls, u)
      PROVE  r = SearchResult(given, key, calls, u)
  <2>1. stop[u] /\ val[u] = SearchResult(given, key, calls, u)
    BY <1>4, <1>5
  <2>. HIDE DEF W, stop, val, nxt
  <2>. QED
    BY <1>1, <1>2, <2>1, TailSame DEF R
<1>6. \A u \in R : v \in Reached(W, stop, nxt, u)
  <2>1. stop[v]
    BY <1>3, <1>4
  <2>. HIDE DEF W, stop, val, nxt
  <2>. QED
    BY <1>1, <2>1, TailLast DEF R
<1>7. /\ start \in W
      /\ \A u \in R : /\ InSearch(Searched(given, calls, u), u)
                      /\ SearchOver(given, key, hash, calls, u) => r = SearchResult(given, key, calls, u)
      /\ \E w \in R : /\ SearchOver(given, key, hash, calls, w)
                      /\ \A u \in R : w \in Reached(W, stop, nxt, u)
  BY <1>1, <1>3, <1>5, <1>6
<1>. QED
  BY <1>7 DEF Goes, R, r, start

(* One step: on to the next slot, or again from the beginning.             *)
Again(given, hash, calls, u) ==
  /\ Compared(given, calls, u).valid /\ Moved(given, calls, u)
  /\ SearchStep(given, hash, calls, u) =
       Begin(Heard(calls, u), hash, Size(Answered(given, calls, u)))

LEMMA StepCases ==
  ASSUME NEW given, NEW key, NEW hash, NEW calls, NEW u,
         ~SearchOver(given, key, hash, calls, u)
  PROVE  LET e == Compared(given, calls, u)
             d == Searched(given, calls, u)
             t == SearchStep(given, hash, calls, u)
         IN  /\ e.everused
             /\ e.valid => e.key # key
             /\ \/ Again(given, hash, calls, u)
                \/ /\ \E c : /\ t = Further(u, c, IF e.valid THEN u.free ELSE FreeSoFar(u), Size(d))
                             /\ c = u.n \/ (c = Heard(calls, u) /\ ~Moved(given, calls, u))
                   /\ e.valid => \/ d.kind = Identity \/ e.hash # hash
                                 \/ ~keyeq(e.key, key)
<1>. DEFINE e == Compared(given, calls, u)
            d == Searched(given, calls, u)
            t == SearchStep(given, hash, calls, u)
            c0 == Heard(calls, u)
            moved == Moved(given, calls, u)
            b == Begin(c0, hash, Size(Answered(given, calls, u)))
            f1 == Further(u, u.n, FreeSoFar(u), Size(d))
            f2 == Further(u, u.n, u.free, Size(d))
            f3 == Further(u, c0, u.free, Size(d))
<1>1. /\ e.everused
      /\ e.valid => /\ e.key # key
                    /\ ~(d.kind = Identity \/ e.hash # hash) => moved \/ ~keyeq(e.key, key)
  BY DEF SearchOver
<1>2. t = IF ~e.valid THEN f1 ELSE IF d.kind = Identity \/ e.hash # hash THEN f2
          ELSE IF moved THEN b ELSE f3
  BY DEF SearchStep
<1>3. CASE ~e.valid
  <2>1. t = Further(u, u.n, IF e.valid THEN u.free ELSE FreeSoFar(u), Size(d))
    BY <1>2, <1>3
  <2>. QED
    BY <1>1, <1>3, <2>1, Zenon
<1>4. CASE e.valid /\ (d.kind = Identity \/ e.hash # hash)
  <2>1. t = Further(u, u.n, IF e.valid THEN u.free ELSE FreeSoFar(u), Size(d))
    BY <1>2, <1>4
  <2>. QED
    BY <1>1, <1>4, <2>1, Zenon
<1>5. CASE e.valid /\ ~(d.kind = Identity \/ e.hash # hash) /\ moved
  <2>1. t = b
    BY <1>2, <1>5
  <2>. QED
    BY <1>1, <1>5, <2>1, Zenon DEF Again
<1>6. CASE e.valid /\ ~(d.kind = Identity \/ e.hash # hash) /\ ~moved
  <2>1. t = Further(u, c0, IF e.valid THEN u.free ELSE FreeSoFar(u), Size(d))
    BY <1>2, <1>6
  <2>. QED
    BY <1>1, <1>6, <2>1, Zenon
<1>. QED
  BY <1>3, <1>4, <1>5, <1>6, Zenon

(* A step that goes on leads to a dictionary with the same entries or less.*)
LEMMA StepKeeps ==
  ASSUME NEW given, Sound(given), NEW key, NEW hash, NEW calls, SoundCalls(given, calls),
         NEW u \in SearchStates(calls), ~SearchOver(given, key, hash, calls, u)
  PROVE  LET t == SearchStep(given, hash, calls, u)
         IN  \/ /\ Again(given, hash, calls, u) /\ t.n = u.n + 1
                /\ t = Begin(t.n, hash, Size(Seen(given, calls, t.n)))
             \/ /\ ~Again(given, hash, calls, u) /\ t.n \in {u.n, u.n + 1}
                /\ Keeps(Searched(given, calls, u), Searched(given, calls, t))
<1>. DEFINE t == SearchStep(given, hash, calls, u)
            c == Heard(calls, u)
<1>1. /\ u.n \in 0 .. Len(calls) /\ c \in 0 .. Len(calls) /\ Len(calls) \in Nat
      /\ c = u.n + 1 \/ (c = u.n /\ ~Moved(given, calls, u))
      /\ ~Moved(given, calls, u) => Keeps(Searched(given, calls, u), Answered(given, calls, u))
  <2>1. u.n \in 0 .. Len(calls)
    BY DEF SearchStates
  <2>. QED
    BY <2>1, SearchedSound DEF SoundCalls
<1>2. CASE Again(given, hash, calls, u)
  <2>1. t = Begin(c, hash, Size(Answered(given, calls, u))) /\ Moved(given, calls, u)
    BY <1>2 DEF Again
  <2>2. t.n = c
    BY <2>1 DEF Begin
  <2>. QED
    BY <1>1, <1>2, <2>1, <2>2 DEF Answered
<1>3. CASE ~Again(given, hash, calls, u)
  <2>1. PICK m, free : /\ t = Further(u, m, free, Size(Searched(given, calls, u)))
                       /\ m = u.n \/ (m = c /\ ~Moved(given, calls, u))
    BY <1>3, StepCases
  <2>2. t.n = m
    BY <2>1 DEF Further
  <2>3. CASE m = u.n
    <3>1. Searched(given, calls, t) = Searched(given, calls, u)
      BY <2>2, <2>3 DEF Searched
    <3>. QED
      BY <1>3, <2>2, <2>3, <3>1, KeepsSelf
  <2>4. CASE m = c /\ ~Moved(given, calls, u)
    <3>1. Searched(given, calls, t) = Answered(given, calls, u)
      BY <2>2, <2>4 DEF Searched, Answered
    <3>. QED
      BY <1>1, <1>3, <2>2, <2>4, <3>1
  <2>. QED
    BY <2>1, <2>3, <2>4
<1>. QED
  BY <1>2, <1>3

(* A search from u on as one in the dictionary x.                          *)
Trail(given, key, hash, calls, x, u) ==
  /\ u \in SearchStates(calls) /\ u.i \in 0 .. Size(x) - 1
  /\ x.entries[u.i].everused <=> Compared(given, calls, u).everused
  /\ ~SearchOver(given, key, hash, calls, u) =>
       LET e == x.entries[u.i]
           t == SearchStep(given, hash, calls, u)
       IN  /\ e.valid => e.key # key /\ (x.kind = Identity \/ e.hash # hash \/ ~keyeq(e.key, key))
           /\ t.i = Probe(u.i, u.perturb, Size(x)) /\ t.perturb = Shifted(u.perturb)
           /\ t.free = u.free \/ t.free = FreeSoFar(u)

LEMMA TrailStep ==
  ASSUME NEW given, Sound(given), NEW key, NEW hash \in Nat, NEW calls, SoundCalls(given, calls),
         NEW u \in SearchStates(calls), InSearch(Searched(given, calls, u), u),
         NEW x, IsDict(x), x.kind = given.kind, Keeps(Searched(given, calls, u), x),
         ~SearchOver(given, key, hash, calls, u) => ~Again(given, hash, calls, u)
  PROVE  Trail(given, key, hash, calls, x, u)
<1>. DEFINE e == Compared(given, calls, u)
            d == Searched(given, calls, u)
            t == SearchStep(given, hash, calls, u)
            o == x.entries[u.i]
<1>1. d.kind = given.kind /\ IsDict(d)
  <2>1. u.n \in 0 .. Len(calls)
    BY DEF SearchStates
  <2>. QED
    BY <2>1, SearchedSound DEF Sound
<1>2. u.i \in 0 .. Size(d) - 1 /\ Size(x) = Size(d) /\ e = d.entries[u.i]
  BY DEF InSearch, Keeps, Compared
<1>2a. o.valid => e.valid /\ o.key = e.key /\ o.hash = e.hash
  BY <1>2 DEF Keeps, Alike
<1>2b. o.everused <=> e.everused
  <2>1. u.i \in Ever(x) <=> u.i \in Ever(d)
    BY DEF Keeps
  <2>2. u.i \in DOMAIN x.entries /\ u.i \in DOMAIN d.entries
    BY <1>1, <1>2, DictFacts
  <2>. QED
    BY <1>2, <2>1, <2>2 DEF Ever
<1>3. ASSUME ~SearchOver(given, key, hash, calls, u)
      PROVE  /\ o.valid => o.key # key /\ (x.kind = Identity \/ o.hash # hash \/ ~keyeq(o.key, key))
             /\ t.i = Probe(u.i, u.perturb, Size(x)) /\ t.perturb = Shifted(u.perturb)
             /\ t.free = u.free \/ t.free = FreeSoFar(u)
  <2>. DEFINE f == IF e.valid THEN u.free ELSE FreeSoFar(u)
  <2>1. /\ e.valid => e.key # key
        /\ \E c : t = Further(u, c, f, Size(d))
        /\ e.valid => d.kind = Identity \/ e.hash # hash \/ ~keyeq(e.key, key)
    BY <1>3, StepCases
  <2>3. f = u.free \/ f = FreeSoFar(u)
    OBVIOUS
  <2>. HIDE DEF f
  <2>4. t.i = Probe(u.i, u.perturb, Size(d)) /\ t.perturb = Shifted(u.perturb) /\ t.free = f
    BY <2>1 DEF Further
  <2>. HIDE DEF e, t, d, o
  <2>5. o.valid => o.key # key /\ (x.kind = Identity \/ o.hash # hash \/ ~keyeq(o.key, key))
    BY <1>1, <1>2a, <2>1
  <2>. QED
    BY <1>2, <2>3, <2>4, <2>5
<1>. HIDE DEF d, e, t, o
<1>. QED
  BY <1>2, <1>2b, <1>3 DEF Trail, d, e, t, o

(* From its last beginning on a search is one in the dictionary it leaves. *)
LEMMA SearchTrail ==
  ASSUME NEW given, Sound(given), NEW key, NEW hash \in Nat, NEW calls, SoundCalls(given, calls)
  PROVE  \E u0 \in SearchStates(calls) : \E v :
           LET x == Searched(given, calls, v)
               r == lookup(given, key, hash, calls)
               Q == Goes(given, key, hash, calls, u0)
           IN  /\ v \in Q /\ SearchOver(given, key, hash, calls, v)
               /\ InSearch(x, v)
               /\ u0.i = hash % Size(x) /\ u0.perturb = hash /\ u0.free = -1
               /\ \A u \in Q : /\ Trail(given, key, hash, calls, x, u)
                               /\ SearchOver(given, key, hash, calls, u) =>
                                    r = SearchResult(given, key, calls, u)
<1>. DEFINE W == SearchStates(calls)
            start == Begin(0, hash, Size(given))
            r == lookup(given, key, hash, calls)
            D(u) == Searched(given, calls, u)
            Over(u) == SearchOver(given, key, hash, calls, u)
            Go(u) == SearchStep(given, hash, calls, u)
            G(u) == Goes(given, key, hash, calls, u)
            R == G(start)
            First(u) == u = Begin(u.n, hash, Size(Seen(given, calls, u.n)))
            N == {u.n : u \in {w \in R : First(w)}}
<1>1. start \in W /\ \A u \in R : /\ InSearch(D(u), u)
                                  /\ Over(u) => r = SearchResult(given, key, calls, u)
  BY SearchRun
<1>2. PICK v \in R : Over(v) /\ \A u \in R : v \in G(u)
  BY SearchRun
<1>3. /\ start \in R /\ R \subseteq W
      /\ \A u \in R : ~Over(u) => Go(u) \in R
  BY <1>1, GoesOn
<1>4. \A u \in W : /\ Sound(D(u)) /\ D(u).kind = given.kind
                  /\ u.n \in 0 .. Len(calls)
  <2>1. \A u \in W : u.n \in 0 .. Len(calls)
    BY DEF SearchStates
  <2>. QED
    BY <2>1, SearchedSound
<1>5. PICK m \in N : \A j \in N : j <= m
  <2>1. Len(calls) \in Nat /\ N \in SUBSET (0 .. Len(calls))
    BY <1>3, <1>4 DEF SoundCalls
  <2>2. First(start)
    <3>1. start.n = 0
      BY DEF Begin
    <3>. QED
      BY <3>1 DEF Seen
  <2>3. N # {}
    <3>. HIDE DEF R, First, start
    <3>. QED
      BY <1>3, <2>2
  <2>. HIDE DEF N
  <2>. QED
    BY <2>1, <2>3, GreatestNatural
<1>6. PICK u0 \in R : First(u0) /\ u0.n = m
  OBVIOUS
<1>7. u0 \in W /\ G(u0) \subseteq R
  <2>1. R \in SUBSET W /\ u0 \in W
    BY <1>3
  <2>. HIDE DEF R
  <2>. QED
    BY <1>3, <2>1, GoesOn DEF W, Over, Go, G
<1>. HIDE DEF W, R, Over, Go, G, D, First, N, start, r
<1>8. \A u \in R : u \in W /\ (~Over(u) =>
        \/ Again(given, hash, calls, u) /\ First(Go(u)) /\ Go(u).n = u.n + 1
        \/ /\ ~Again(given, hash, calls, u) /\ Go(u).n \in {u.n, u.n + 1}
           /\ Keeps(D(u), D(Go(u))))
  BY <1>3, StepKeeps DEF W, Over, Go, D, First
<1>9. ASSUME NEW u \in G(u0) PROVE u.n >= m
  <2>. DEFINE S == {w \in R : w.n >= m}
  <2>1. u0.n \in 0 .. Len(calls) /\ m \in Int /\ m >= m
    BY <1>4, <1>6, <1>7
  <2>2. S \in SUBSET W /\ u0 \in S
    BY <1>3, <1>6, <2>1
  <2>3. ASSUME NEW w \in S, ~Over(w) PROVE Go(w) \in S
    <3>1. w.n \in Int /\ w.n >= m /\ Go(w).n \in {w.n, w.n + 1} /\ Go(w) \in R
      BY <1>3, <1>4, <1>8, <2>3
    <3>. QED
      BY <2>1, <3>1
  <2>. HIDE DEF S
  <2>4. G(u0) \subseteq S
    BY <1>7, <2>2, <2>3, GoesOn DEF G, W, Over, Go
  <2>. QED
    BY <2>4 DEF S
<1>10. ASSUME NEW u \in G(u0), ~Over(u) PROVE ~Again(given, hash, calls, u)
  <2>. SUFFICES ASSUME Again(given, hash, calls, u) PROVE FALSE
    OBVIOUS
  <2>1. Go(u) \in R /\ First(Go(u)) /\ Go(u).n = u.n + 1 /\ u.n \in Int
    BY <1>3, <1>4, <1>7, <1>8, <1>10
  <2>2. Go(u).n <= m
    BY <1>5, <2>1 DEF N
  <2>3. u.n >= m /\ m \in Int
    BY <1>4, <1>6, <1>7, <1>9
  <2>. QED
    BY <2>1, <2>2, <2>3
<1>. DEFINE x == D(v)
<1>11. ASSUME NEW u \in G(u0) PROVE Keeps(D(u), x)
  <2>. SUFFICES ASSUME ~Keeps(D(u), x) PROVE FALSE
    OBVIOUS
  <2>. DEFINE S == {w \in G(u0) : ~Keeps(D(w), x)}
  <2>1. S \in SUBSET W /\ u \in S /\ u \in W /\ u \in R
    BY <1>3, <1>7
  <2>2. ASSUME NEW w \in S, ~Over(w) PROVE Go(w) \in S
    <3>1. Go(w) \in G(u0)
      BY <1>7, <2>2, GoesOn DEF G, W, Over, Go
    <3>2. Keeps(D(w), D(Go(w)))
      BY <1>7, <1>8, <1>10, <2>2
    <3>3. ~Keeps(D(Go(w)), x)
      BY <3>2, KeepsOn
    <3>. QED
      BY <3>1, <3>3
  <2>. HIDE DEF S, x
  <2>3. G(u) \subseteq S
    BY <2>1, <2>2, GoesOn DEF G, W, Over, Go
  <2>4. v \in S
    BY <1>2, <2>1, <2>3
  <2>. QED
    BY <2>4, KeepsSelf DEF S, x
<1>12. ASSUME NEW u \in G(u0)
       PROVE  /\ Trail(given, key, hash, calls, x, u)
              /\ Over(u) => r = SearchResult(given, key, calls, u)
  <2>1. u \in R /\ u \in W /\ InSearch(D(u), u) /\ Keeps(D(u), x)
    BY <1>1, <1>3, <1>7, <1>11
  <2>2. IsDict(x) /\ x.kind = given.kind
    BY <1>2, <1>3, <1>4 DEF Sound
  <2>3. ~Over(u) => ~Again(given, hash, calls, u)
    BY <1>10
  <2>4. Over(u) => r = SearchResult(given, key, calls, u)
    BY <1>1, <2>1
  <2>. HIDE DEF x
  <2>5. Trail(given, key, hash, calls, x, u)
    BY <2>1, <2>2, <2>3, TrailStep DEF W, D, Over
  <2>. QED
    BY <2>4, <2>5
<1>13. u0.i = hash % Size(x) /\ u0.perturb = hash /\ u0.free = -1
  <2>1. u0 \in G(u0)
    BY <1>7, GoesOn DEF G, W
  <2>2. Size(x) = Size(D(u0))
    BY <1>11, <2>1 DEF Keeps
  <2>3. u0 = Begin(u0.n, hash, Size(D(u0)))
    BY <1>6 DEF First, D, Searched
  <2>. HIDE DEF x
  <2>4. u0.i = hash % Size(D(u0)) /\ u0.perturb = hash /\ u0.free = -1
    BY <2>3 DEF Begin
  <2>. QED
    BY <2>2, <2>4
<1>14. v \in G(u0) /\ InSearch(x, v)
  BY <1>1, <1>2, <1>6
<1>. QED
  BY <1>2, <1>7, <1>12, <1>13, <1>14 DEF W, G, Over, D, r

(* What a search that finds nothing has passed.                            *)
LEMMA TrailPasses ==
  ASSUME NEW given, Sound(given), NEW key, NEW hash \in Nat, NEW calls, SoundCalls(given, calls),
         NEW u0 \in SearchStates(calls), NEW x,
         IsDict(x), u0.i = hash % Size(x), u0.perturb = hash, u0.free = -1,
         \A u \in Goes(given, key, hash, calls, u0) :
           /\ Trail(given, key, hash, calls, x, u)
           /\ SearchOver(given, key, hash, calls, u) => ~Compared(given, calls, u).everused
  PROVE  /\ \A i \in DOMAIN x.entries :
              x.entries[i].valid /\ x.entries[i].hash = hash /\ OnWay(x, hash, i) =>
                x.entries[i].key # key /\ (x.kind # Identity => ~keyeq(x.entries[i].key, key))
         /\ \A u \in Goes(given, key, hash, calls, u0) : OnWay(x, hash, FreeSoFar(u))
<1>. DEFINE Q == Goes(given, key, hash, calls, u0)
            n == Size(x)
            W == SearchStates(calls)
            Over(u) == SearchOver(given, key, hash, calls, u)
            Go(u) == SearchStep(given, hash, calls, u)
            At0(u) == <<u.i, u.perturb>>
<1>1. /\ u0 \in Q /\ Q \subseteq W
      /\ \A u \in Q : ~Over(u) => Go(u) \in Q
  BY GoesOn
<1>2. /\ n \in Nat \ {0} /\ DOMAIN x.entries = 0 .. n - 1
      /\ \A i \in 0 .. n - 1 : x.entries[i].valid => x.entries[i].everused
  BY DictFacts
<1>3. ASSUME NEW u \in Q
      PROVE  /\ u.i \in 0 .. n - 1 /\ u.perturb \in Nat
             /\ Over(u) => ~x.entries[u.i].everused
             /\ ~Over(u) => x.entries[u.i].everused
             /\ ~Over(u) => /\ Go(u).i = Probe(u.i, u.perturb, n) /\ Go(u).perturb = Shifted(u.perturb)
                            /\ Go(u).free = u.free \/ Go(u).free = FreeSoFar(u)
                            /\ x.entries[u.i].valid =>
                                 /\ x.entries[u.i].key # key
                                 /\ (x.kind = Identity \/ x.entries[u.i].hash # hash \/ ~keyeq(x.entries[u.i].key, key))
  <2>1. Trail(given, key, hash, calls, x, u) /\ (Over(u) => ~Compared(given, calls, u).everused)
    OBVIOUS
  <2>2. u.perturb \in Nat
    BY <1>1 DEF SearchStates
  <2>3. ~Over(u) => Compared(given, calls, u).everused
    BY StepCases
  <2>. HIDE DEF Q
  <2>. QED
    BY <2>1, <2>2, <2>3 DEF Trail
<1>. HIDE DEF Q, n, W, Over, Go
<1>4. ASSUME NEW i \in 0 .. n - 1, x.entries[i].valid, x.entries[i].hash = hash, OnWay(x, hash, i)
      PROVE  x.entries[i].key # key /\ (x.kind # Identity => ~keyeq(x.entries[i].key, key))
  <2>. DEFINE P == {At0(u) : u \in Q}
  <2>1. Way(x, hash, P)
    <3>1. P \in SUBSET ((0 .. n - 1) \X Nat)
      BY <1>3
    <3>2. <<hash % n, hash>> \in P
      BY <1>1 DEF n
    <3>3. ASSUME NEW w \in P, x.entries[w[1]].everused
          PROVE  <<Probe(w[1], w[2], n), Shifted(w[2])>> \in P
      <4>1. PICK u \in Q : w = At0(u)
        OBVIOUS
      <4>2. ~Over(u)
        BY <1>3, <3>3, <4>1
      <4>3. Go(u) \in Q /\ Go(u).i = Probe(u.i, u.perturb, n) /\ Go(u).perturb = Shifted(u.perturb)
        BY <1>1, <1>3, <4>2
      <4>. QED
        BY <4>1, <4>3
    <3>. HIDE DEF P
    <3>. QED
      BY <3>1, <3>2, <3>3 DEF Way, n
  <2>2. PICK u \in Q : u.i = i
    BY <1>4, <2>1 DEF OnWay
  <2>3. ~Over(u)
    BY <1>2, <1>3, <1>4, <2>2
  <2>. QED
    BY <1>3, <1>4, <2>2, <2>3
<1>5. ASSUME NEW v \in Q
      PROVE  OnWay(x, hash, FreeSoFar(v))
  <2>. SUFFICES ASSUME NEW P, Way(x, hash, P) PROVE \E w \in P : w[1] = FreeSoFar(v)
    BY DEF OnWay
  <2>1. /\ P \in SUBSET ((0 .. n - 1) \X Nat) /\ <<hash % n, hash>> \in P
        /\ \A w \in P : x.entries[w[1]].everused => <<Probe(w[1], w[2], n), Shifted(w[2])>> \in P
    BY DEF Way, n
  <2>. DEFINE S == {u \in Q : At0(u) \in P /\ (u.free = -1 \/ \E w \in P : w[1] = u.free)}
  <2>2. S \in SUBSET W /\ u0 \in S
    BY <1>1, <2>1 DEF n
  <2>3. ASSUME NEW u \in S PROVE \E w \in P : w[1] = FreeSoFar(u)
    BY DEF FreeSoFar
  <2>4. ASSUME NEW u \in S, ~Over(u) PROVE Go(u) \in S
    <3>1. Go(u) \in Q /\ Go(u).i = Probe(u.i, u.perturb, n) /\ Go(u).perturb = Shifted(u.perturb)
          /\ (Go(u).free = u.free \/ Go(u).free = FreeSoFar(u))
      BY <1>1, <1>3, <2>4
    <3>2. x.entries[u.i].everused => At0(Go(u)) \in P
      BY <2>1, <3>1
    <3>3. x.entries[u.i].everused
      BY <1>3, <2>4
    <3>. QED
      BY <2>3, <3>1, <3>2, <3>3
  <2>5. Q \subseteq S
    <3>. HIDE DEF S
    <3>. QED
      BY <2>2, <2>4, GoesOn DEF Q, W, Over, Go
  <2>. QED
    BY <2>3, <2>5
<1>. QED
  BY <1>2, <1>4, <1>5 DEF Q

(* What a search finds has the key or is eql? to it; and when it finds     *)
(* nothing, no item where a search comes is, and a search comes to the     *)
(* slot it gives.                                                          *)
SameKey(d, e, key, hash) ==
  e.key = key \/ (d.kind # Identity /\ e.hash = hash /\ keyeq(e.key, key))
LEMMA LookupFinds ==
  ASSUME NEW given, Sound(given), NEW key, NEW hash \in Nat, NEW calls, SoundCalls(given, calls)
  PROVE  LET r == lookup(given, key, hash, calls)
         IN  /\ r.found => SameKey(r.dict, r.dict.entries[r.slot], key, hash)
             /\ ~r.found =>
                  /\ OnWay(r.dict, hash, r.slot)
                  /\ \A i \in DOMAIN r.dict.entries :
                       LET e == r.dict.entries[i]
                       IN  e.valid /\ e.hash = hash /\ OnWay(r.dict, hash, i) => ~SameKey(r.dict, e, key, hash)
<1>. DEFINE W == SearchStates(calls)
            r == lookup(given, key, hash, calls)
            Over(u) == SearchOver(given, key, hash, calls, u)
            G(u) == Goes(given, key, hash, calls, u)
            Res(u) == SearchResult(given, key, calls, u)
            Cmp(u) == Compared(given, calls, u)
<1>1. PICK u0, v :
        /\ u0 \in W /\ v \in G(u0) /\ Over(v)
        /\ InSearch(Searched(given, calls, v), v)
        /\ u0.i = hash % Size(Searched(given, calls, v)) /\ u0.perturb = hash /\ u0.free = -1
        /\ \A u \in G(u0) : /\ Trail(given, key, hash, calls, Searched(given, calls, v), u)
                            /\ Over(u) => r = Res(u)
  BY SearchTrail
<1>. DEFINE x == Searched(given, calls, v)
            e == Cmp(v)
            after == Answered(given, calls, v)
            c == Heard(calls, v)
<1>1a. v \in W /\ v.n \in 0 .. Len(calls)
  <2>1. v \in W
    BY <1>1, GoesOn
  <2>. QED
    BY <2>1 DEF SearchStates
<1>2. /\ x.kind = given.kind /\ after.kind = given.kind
      /\ IsDict(x) /\ IsDict(after) /\ e = x.entries[v.i]
      /\ ~Moved(given, calls, v) => Keeps(x, after)
  BY <1>1a, SearchedSound DEF Compared, Sound
<1>3. v.i \in 0 .. Size(x) - 1 /\ (e.valid <=> e.key # Null) /\ (e.valid => e.everused)
  <2>1. v.i \in 0 .. Size(x) - 1
    BY <1>1 DEF InSearch
  <2>. HIDE DEF x, e
  <2>. QED
    BY <1>2, <2>1, DictFacts
<1>4. \A u : /\ ~Cmp(u).everused => Res(u) = Free(Searched(given, calls, u), FreeSoFar(u), u.n)
             /\ Cmp(u).everused => Res(u).found = TRUE
             /\ Cmp(u).everused /\ Cmp(u).key = key => Res(u) = Found(Searched(given, calls, u), u.i, u.n)
             /\ Cmp(u).everused /\ Cmp(u).key # key =>
                  Res(u) = Found(Answered(given, calls, u), u.i, Heard(calls, u))
  BY DEF SearchResult, Found
<1>5. r = Res(v)
  BY <1>1
<1>6. CASE ~e.everused
  <2>1. r = Free(x, FreeSoFar(v), v.n)
    BY <1>4, <1>5, <1>6
  <2>2. r.dict = x /\ r.slot = FreeSoFar(v) /\ r.found = FALSE
    BY <2>1 DEF Free
  <2>3. \A u \in G(u0) : Over(u) => ~Cmp(u).everused
    BY <1>1, <1>4, <2>2
  <2>. HIDE DEF r
  <2>4. /\ \A i \in DOMAIN x.entries :
              x.entries[i].valid /\ x.entries[i].hash = hash /\ OnWay(x, hash, i) =>
                x.entries[i].key # key /\ (x.kind # Identity => ~keyeq(x.entries[i].key, key))
        /\ \A u \in G(u0) : OnWay(x, hash, FreeSoFar(u))
    <3>. HIDE DEF x, Cmp
    <3>1. IsDict(x) /\ u0.i = hash % Size(x) /\ u0.perturb = hash /\ u0.free = -1
      BY <1>1, <1>2 DEF x
    <3>2. \A u \in Goes(given, key, hash, calls, u0) :
            /\ Trail(given, key, hash, calls, x, u)
            /\ SearchOver(given, key, hash, calls, u) => ~Compared(given, calls, u).everused
      BY <1>1, <2>3 DEF x, Cmp
    <3>3. u0 \in SearchStates(calls)
      BY <1>1
    <3>. QED
      BY <3>1, <3>2, <3>3, TrailPasses
  <2>. HIDE DEF x, G, after
  <2>. QED
    BY <1>1, <1>2, <2>2, <2>4 DEF SameKey, r
<1>7. CASE e.everused /\ e.key = key
  <2>1. r = Found(x, v.i, v.n)
    BY <1>4, <1>5, <1>7
  <2>2. r.dict = x /\ r.slot = v.i /\ r.found = TRUE
    BY <2>1 DEF Found
  <2>. HIDE DEF x, e, r, after
  <2>. QED
    BY <1>2, <1>7, <2>2 DEF SameKey, r
<1>8. CASE e.everused /\ e.key # key
  <2>1. r = Found(after, v.i, c)
    BY <1>4, <1>5, <1>8
  <2>2. r.dict = after /\ r.slot = v.i /\ r.found = TRUE
    BY <2>1 DEF Found
  <2>3. /\ e.valid /\ x.kind # Identity /\ e.hash = hash /\ keyeq(e.key, key)
        /\ ~Moved(given, calls, v)
    BY <1>1, <1>8 DEF SearchOver
  <2>4. after.entries[v.i].key = e.key /\ Keeps(x, after)
    BY <1>2, <2>3 DEF Moved
  <2>. HIDE DEF x, e, r, after
  <2>5. after.entries[v.i].valid
    <3>1. v.i \in 0 .. Size(after) - 1
      BY <1>3, <2>4 DEF Keeps
    <3>. QED
      BY <1>2, <1>3, <2>3, <2>4, <3>1, DictFacts
  <2>6. after.entries[v.i].hash = e.hash
    BY <1>2, <1>3, <2>4, <2>5 DEF Keeps, Alike
  <2>. QED
    BY <1>2, <2>2, <2>3, <2>4, <2>6 DEF SameKey, r
<1>. QED
  BY <1>6, <1>7, <1>8

-----------------------------------------------------------------------------
(* The items of a dictionary, along the slots s.                           *)
ItemOf(e) == [key |-> e.key, value |-> e.value, hash |-> e.hash]
ItemsOf(d, s) == [n \in DOMAIN s |-> ItemOf(d.entries[s[n]])]
AnItem == [key : Keys, value : Values, hash : Nat]
(* All that a hash keeps to.                                               *)
Fits(d, s) == IsDict(d) /\ HasRoom(d) /\ Chain(d, s) /\ Placed(d)

LEMMA FitsSound ==
  ASSUME NEW d, NEW s, Fits(d, s)
  PROVE  Sound(d) /\ IsDict(d) /\ Chain(d, s)
BY DEF Fits, Sound

LEMMA ItemsTyped ==
  ASSUME NEW d, IsDict(d), NEW s, Chain(d, s)
  PROVE  /\ ItemsOf(d, s) \in Seq(AnItem) /\ Len(ItemsOf(d, s)) = Len(s)
         /\ DOMAIN ItemsOf(d, s) = 1 .. Len(s)
         /\ \A n \in 1 .. Len(s) :
              /\ ItemsOf(d, s)[n] = ItemOf(d.entries[s[n]])
              /\ ItemsOf(d, s)[n].key = d.entries[s[n]].key
              /\ ItemsOf(d, s)[n].value = d.entries[s[n]].value
              /\ ItemsOf(d, s)[n].hash = d.entries[s[n]].hash
<1>. DEFINE m == Len(s)
            t == ItemsOf(d, s)
<1>1. m \in Nat /\ DOMAIN s = 1 .. m /\ \A n \in 1 .. m : s[n] \in 0 .. Size(d) - 1 /\ d.entries[s[n]].valid
  BY ChainFacts
<1>2. ASSUME NEW n \in 1 .. m
      PROVE  ItemOf(d.entries[s[n]]) \in AnItem
  <2>1. s[n] \in 0 .. Size(d) - 1 /\ d.entries[s[n]].valid /\ s[n] \in DOMAIN d.entries
    BY <1>1, DictFacts
  <2>2. d.entries[s[n]].key \in Keys /\ d.entries[s[n]].value \in Values
    BY <2>1 DEF IsDict
  <2>3. d.entries[s[n]].hash \in Nat
    BY <2>1, DictFacts
  <2>. QED
    BY <2>2, <2>3 DEF ItemOf, AnItem
<1>3. t = [n \in 1 .. m |-> ItemOf(d.entries[s[n]])]
  BY <1>1 DEF ItemsOf
<1>. HIDE DEF t, m
<1>4. t \in [1 .. m -> AnItem]
  BY <1>2, <1>3
<1>5. t \in Seq(AnItem) /\ Len(t) = m
  BY <1>1, <1>4
<1>6. \A n \in 1 .. m : /\ t[n] = ItemOf(d.entries[s[n]])
                        /\ t[n].key = d.entries[s[n]].key
                        /\ t[n].value = d.entries[s[n]].value /\ t[n].hash = d.entries[s[n]].hash
  BY <1>3 DEF ItemOf
<1>. QED
  BY <1>3, <1>5, <1>6 DEF t, m

(* A sequence of items that is as long and has the same items is the same. *)
LEMMA SameItems ==
  ASSUME NEW d, IsDict(d), NEW s, Chain(d, s), NEW t \in Seq(AnItem), Len(t) = Len(s),
         \A n \in 1 .. Len(s) : t[n] = ItemOf(d.entries[s[n]])
  PROVE  ItemsOf(d, s) = t
<1>1. /\ ItemsOf(d, s) \in Seq(AnItem) /\ Len(ItemsOf(d, s)) = Len(s)
      /\ \A n \in 1 .. Len(s) : ItemsOf(d, s)[n] = ItemOf(d.entries[s[n]])
  BY ItemsTyped
<1>. QED
  BY <1>1, SeqEqual

LEMMA NewdictFits ==
  ASSUME NEW n \in Nat, PowerOfTwo(n), NEW kind \in {Eql, Identity}
  PROVE  Fits(newdict(kind, n), <<>>) /\ ItemsOf(newdict(kind, n), <<>>) = <<>>
<1>1. Placed(newdict(kind, n))
  BY DEF Placed, newdict, Zeroed
<1>2. ItemsOf(newdict(kind, n), <<>>) = <<>>
  BY DEF ItemsOf
<1>. QED
  BY <1>1, <1>2, NewdictEmpty DEF Fits

LEMMA DelFits ==
  ASSUME NEW d, NEW s, Fits(d, s), NEW k \in 1 .. Len(s)
  PROVE  LET e == Del(d, s[k])
             t == RemoveAt(s, k)
         IN  /\ Fits(e, t) /\ ItemsOf(e, t) = RemoveAt(ItemsOf(d, s), k) /\ e.kind = d.kind
             /\ t \in Seq(Nat) /\ Len(t) = Len(s) - 1
             /\ \A m \in 1 .. Len(s) - 1 : t[m] = IF m < k THEN s[m] ELSE s[m + 1]
<1>. DEFINE e == Del(d, s[k])
            t == RemoveAt(s, k)
            its == ItemsOf(d, s)
            less == RemoveAt(its, k)
            len == Len(s)
<1>0. IsDict(d) /\ HasRoom(d) /\ Chain(d, s) /\ Placed(d)
  BY DEF Fits
<1>1. /\ IsDict(e) /\ Chain(e, t) /\ SameBut(d, e, s[k])
      /\ e.entries[s[k]] = Deleted /\ Ever(e) = Ever(d)
      /\ e.kind = d.kind /\ Size(e) = Size(d) /\ HasRoom(e)
  BY <1>0, DelKeeps
<1>2. /\ s \in Seq(Nat) /\ len \in Nat /\ DOMAIN s = 1 .. len
      /\ \A m \in 1 .. len : s[m] \in 0 .. Size(d) - 1 /\ d.entries[s[m]].valid
  BY <1>0, ChainFacts
<1>3. t \in Seq(Nat) /\ Len(t) = len - 1 /\ \A m \in 1 .. len - 1 : t[m] = IF m < k THEN s[m] ELSE s[m + 1]
  <2>1. k \in DOMAIN s
    BY <1>2
  <2>. QED
    BY <1>2, <2>1, RemovedAt
<1>4. /\ its \in Seq(AnItem) /\ Len(its) = len /\ DOMAIN its = 1 .. len
      /\ \A m \in 1 .. len : its[m] = ItemOf(d.entries[s[m]])
  BY <1>0, ItemsTyped
<1>. HIDE DEF e, t, its
<1>5. less \in Seq(AnItem) /\ Len(less) = len - 1 /\ \A m \in 1 .. len - 1 : less[m] = IF m < k THEN its[m] ELSE its[m + 1]
  <2>1. k \in DOMAIN its
    BY <1>4
  <2>. QED
    BY <1>4, <2>1, RemovedAt
<1>6. ASSUME NEW m \in 1 .. len - 1
      PROVE  less[m] = ItemOf(e.entries[t[m]])
  <2>. DEFINE p == IF m < k THEN m ELSE m + 1
  <2>1. p \in 1 .. len /\ p # k
    BY <1>2
  <2>2. t[m] = s[p] /\ less[m] = its[p]
    BY <1>3, <1>5
  <2>. HIDE DEF p
  <2>3. s[p] # s[k] /\ s[p] \in 0 .. Size(d) - 1
    BY <1>0, <1>2, <2>1 DEF Chain
  <2>4. Alike(e.entries[s[p]], d.entries[s[p]])
    BY <1>1, <2>3 DEF SameBut
  <2>. QED
    BY <1>4, <2>1, <2>2, <2>4 DEF Alike, ItemOf
<1>7. ItemsOf(e, t) = less
  <2>1. Len(less) = Len(t) /\ \A m \in 1 .. Len(t) : less[m] = ItemOf(e.entries[t[m]])
    BY <1>3, <1>5, <1>6
  <2>. HIDE DEF less, len
  <2>. QED
    BY <1>1, <1>5, <2>1, SameItems
<1>8. Placed(e)
  <2>1. ASSUME NEW i \in 0 .. Size(d) - 1, e.entries[i].valid
        PROVE  d.entries[i].valid /\ e.entries[i].hash = d.entries[i].hash
    <3>1. i # s[k]
      BY <1>1, <2>1, ZeroedIs
    <3>. QED
      BY <1>1, <2>1, <3>1 DEF SameBut, Alike
  <2>. QED
    BY <1>0, <1>1, <2>1, PlacedKept
<1>. QED
  BY <1>1, <1>3, <1>7, <1>8 DEF Fits, e, t, its

(* The first k of a sequence.                                              *)
FirstOf(q, k) == [n \in 1 .. k |-> q[n]]

LEMMA FirstGrows ==
  ASSUME NEW S, NEW q \in Seq(S)
  PROVE  /\ FirstOf(q, 0) = <<>> /\ FirstOf(q, Len(q)) = q
         /\ \A k \in 0 .. Len(q) : FirstOf(q, k) \in Seq(S) /\ Len(FirstOf(q, k)) = k
         /\ \A k \in 1 .. Len(q) : FirstOf(q, k) = Append(FirstOf(q, k - 1), q[k])
<1>1. Len(q) \in Nat /\ q \in [1 .. Len(q) -> S] /\ \A n \in 1 .. Len(q) : q[n] \in S
  BY LenProperties, ElementOfSeq
<1>2. FirstOf(q, 0) = <<>>
  BY DEF FirstOf
<1>3. FirstOf(q, Len(q)) = q
  BY <1>1 DEF FirstOf
<1>4. ASSUME NEW k \in 0 .. Len(q)
      PROVE  FirstOf(q, k) \in Seq(S) /\ Len(FirstOf(q, k)) = k
  <2>1. FirstOf(q, k) \in [1 .. k -> S] /\ k \in Nat
    BY <1>1 DEF FirstOf
  <2>. QED
    BY <2>1
<1>5. ASSUME NEW k \in 1 .. Len(q)
      PROVE  FirstOf(q, k) = Append(FirstOf(q, k - 1), q[k])
  <2>. DEFINE a == FirstOf(q, k - 1)
              b == Append(a, q[k])
  <2>1. k - 1 \in 0 .. Len(q) /\ k \in 0 .. Len(q) /\ k \in Nat
    BY <1>1
  <2>2. a \in Seq(S) /\ Len(a) = k - 1 /\ \A n \in 1 .. k - 1 : a[n] = q[n]
    BY <1>4, <2>1 DEF FirstOf
  <2>. HIDE DEF a
  <2>3. b \in Seq(S) /\ Len(b) = k /\ \A n \in 1 .. k : b[n] = q[n]
    <3>1. b \in Seq(S) /\ Len(b) = (k - 1) + 1 /\ \A n \in 1 .. (k - 1) + 1 : b[n] = IF n = (k - 1) + 1 THEN q[k] ELSE a[n]
      BY <1>1, <2>2, AppendProperties
    <3>. HIDE DEF b
    <3>2. ASSUME NEW n \in 1 .. k PROVE b[n] = q[n]
      BY <2>1, <2>2, <3>1
    <3>. QED
      BY <2>1, <3>1, <3>2
  <2>. HIDE DEF b
  <2>4. FirstOf(q, k) \in Seq(S) /\ Len(FirstOf(q, k)) = k /\ \A n \in 1 .. k : FirstOf(q, k)[n] = q[n]
    BY <1>4, <2>1 DEF FirstOf
  <2>5. FirstOf(q, k) = b
    BY <2>3, <2>4, SeqEqual
  <2>. QED
    BY <2>5 DEF a, b
<1>. QED
  BY <1>2, <1>3, <1>4, <1>5

LEMMA LinkedFits ==
  ASSUME NEW d, IsDict(d), NEW s, Chain(d, s), Placed(d), NEW i \in 0 .. Size(d) - 1, ~d.entries[i].valid,
         NEW key \in Keys, NEW value \in Values, NEW hash \in Nat, OnWay(d, hash, i)
  PROVE  LET e == Linked(d, i, key, value, hash)
             t == Append(s, i)
             item == [key |-> key, value |-> value, hash |-> hash]
         IN  /\ Placed(e) /\ ItemsOf(e, t) = Append(ItemsOf(d, s), item)
<1>. DEFINE e == Linked(d, i, key, value, hash)
            t == Append(s, i)
            item == [key |-> key, value |-> value, hash |-> hash]
            its == ItemsOf(d, s)
            more == Append(its, item)
            len == Len(s)
<1>1. /\ IsDict(e) /\ Chain(e, t) /\ SameBut(d, e, i) /\ Size(e) = Size(d)
      /\ e.entries[i].key = key /\ e.entries[i].value = value /\ e.entries[i].hash = hash
      /\ Ever(e) = Ever(d) \cup {i}
  BY LinkedKeeps
<1>. HIDE DEF e
<1>2. /\ s \in Seq(Nat) /\ len \in Nat
      /\ \A m \in 1 .. len : s[m] \in 0 .. Size(d) - 1 /\ d.entries[s[m]].valid
  BY ChainFacts
<1>3. Placed(e)
  <2>1. ASSUME NEW j \in 0 .. Size(d) - 1, e.entries[j].valid
        PROVE  \/ d.entries[j].valid /\ e.entries[j].hash = d.entries[j].hash
               \/ OnWay(d, e.entries[j].hash, j)
    BY <1>1, <2>1 DEF SameBut, Alike
  <2>. QED
    BY <1>1, <2>1, PlacedKept
<1>4. its \in Seq(AnItem) /\ Len(its) = len /\ \A m \in 1 .. len : its[m] = ItemOf(d.entries[s[m]])
  BY ItemsTyped
<1>5. i \in Nat /\ item \in AnItem
  <2>1. Size(d) \in Nat
    BY DictFacts
  <2>. QED
    BY <2>1 DEF AnItem
<1>. HIDE DEF its, item
<1>6. /\ Len(t) = len + 1 /\ \A m \in 1 .. len + 1 : t[m] = IF m = len + 1 THEN i ELSE s[m]
      /\ more \in Seq(AnItem) /\ Len(more) = len + 1
      /\ \A m \in 1 .. len + 1 : more[m] = IF m = len + 1 THEN item ELSE its[m]
  BY <1>2, <1>4, <1>5, AppendProperties
<1>. HIDE DEF t, more
<1>7. ASSUME NEW m \in 1 .. len + 1
      PROVE  more[m] = ItemOf(e.entries[t[m]])
  <2>1. CASE m = len + 1
    BY <1>1, <1>6, <2>1 DEF ItemOf, item
  <2>2. CASE m # len + 1
    <3>1. m \in 1 .. len
      BY <1>2, <2>2
    <3>2. s[m] \in 0 .. Size(d) - 1 /\ s[m] # i
      BY <1>2, <3>1
    <3>3. Alike(e.entries[s[m]], d.entries[s[m]])
      BY <1>1, <3>2 DEF SameBut
    <3>4. ItemOf(e.entries[s[m]]) = ItemOf(d.entries[s[m]])
      BY <3>3 DEF ItemOf, Alike
    <3>5. t[m] = s[m] /\ more[m] = its[m] /\ its[m] = ItemOf(d.entries[s[m]])
      BY <1>4, <1>6, <2>2, <3>1
    <3>. QED
      BY <3>4, <3>5
  <2>. QED
    BY <2>1, <2>2
<1>8. ItemsOf(e, t) = more
  <2>. HIDE DEF len
  <2>. QED
    BY <1>1, <1>6, <1>7, SameItems
<1>. QED
  BY <1>3, <1>8 DEF e, t, its, item, more

LEMMA CounterFits ==
  ASSUME NEW d, IsDict(d), Placed(d), NEW s, Chain(d, s), NEW v \in Int
  PROVE  LET e == [d EXCEPT !.resize_counter = v]
         IN  Placed(e) /\ ItemsOf(e, s) = ItemsOf(d, s)
<1>. DEFINE e == [d EXCEPT !.resize_counter = v]
<1>1. e.entries = d.entries /\ IsDict(e) /\ Size(e) = Size(d) /\ Ever(e) = Ever(d)
  BY CounterOnly
<1>. HIDE DEF e
<1>2. Placed(e)
  BY <1>1, PlacedKept
<1>3. ItemsOf(e, s) = ItemsOf(d, s)
  BY <1>1 DEF ItemsOf
<1>. QED
  BY <1>2, <1>3 DEF e

LEMMA ValueFits ==
  ASSUME NEW d, NEW s, Fits(d, s), NEW k \in 1 .. Len(s), NEW value \in Values
  PROVE  LET e == [d EXCEPT !.entries[s[k]].value = value]
         IN  /\ Fits(e, s) /\ e.kind = d.kind /\ Size(e) = Size(d)
             /\ ItemsOf(e, s) = [ItemsOf(d, s) EXCEPT ![k].value = value]
<1>. DEFINE e == [d EXCEPT !.entries[s[k]].value = value]
            its == ItemsOf(d, s)
            new == [its EXCEPT ![k].value = value]
            len == Len(s)
            i == s[k]
<1>1. IsDict(d) /\ Chain(d, s) /\ Placed(d) /\ Sound(d)
  BY FitsSound DEF Fits
<1>2. /\ len \in Nat /\ \A m \in 1 .. len : s[m] \in 0 .. Size(d) - 1 /\ d.entries[s[m]].valid
      /\ \A m \in 1 .. len : s[m] = s[k] => m = k
  <2>1. /\ len \in Nat /\ DOMAIN s = 1 .. len
        /\ \A m \in 1 .. len : s[m] \in 0 .. Size(d) - 1 /\ d.entries[s[m]].valid
    BY <1>1, ChainFacts
  <2>2. \A m, p \in DOMAIN s : s[m] = s[p] => m = p
    BY <1>1 DEF Chain
  <2>. QED
    BY <2>1, <2>2
<1>3. /\ Sound(e) /\ e.kind = d.kind /\ Size(e) = Size(d) /\ Ever(e) = Ever(d)
      /\ Chain(e, s)
      /\ \A j \in 0 .. Size(d) - 1 :
           /\ e.entries[j].key = d.entries[j].key /\ e.entries[j].hash = d.entries[j].hash
           /\ e.entries[j].valid = d.entries[j].valid
           /\ e.entries[j].value = IF j = i THEN value ELSE d.entries[j].value
  <2>1. i \in 0 .. Size(d) - 1 /\ d.entries[i].valid
    BY <1>2
  <2>2. e = [d EXCEPT !.entries[i].value = value]
    OBVIOUS
  <2>. DEFINE f == [d EXCEPT !.entries[i].value = value]
  <2>. HIDE DEF i, e
  <2>3. /\ Sound(f) /\ f.kind = d.kind /\ Size(f) = Size(d) /\ Ever(f) = Ever(d)
        /\ \A t : Chain(d, t) => Chain(f, t)
        /\ \A j \in 0 .. Size(d) - 1 :
             /\ f.entries[j].key = d.entries[j].key /\ f.entries[j].hash = d.entries[j].hash
             /\ f.entries[j].valid = d.entries[j].valid
             /\ f.entries[j].value = IF j = i THEN value ELSE d.entries[j].value
    BY <1>1, <2>1, ValueOnly
  <2>4. e = f
    BY <2>2 DEF i
  <2>. HIDE DEF f
  <2>. QED
    BY <1>1, <2>3, <2>4
<1>. HIDE DEF e, i
<1>4. IsDict(e) /\ HasRoom(e)
  BY <1>3 DEF Sound
<1>5. Placed(e)
  BY <1>1, <1>3, <1>4, PlacedKept
<1>6. its \in Seq(AnItem) /\ Len(its) = len /\ \A m \in 1 .. len : its[m] = ItemOf(d.entries[s[m]])
  BY <1>1, ItemsTyped
<1>. HIDE DEF its
<1>7. /\ [its[k] EXCEPT !.value = value] \in AnItem
      /\ [its[k] EXCEPT !.value = value] = [key |-> its[k].key, value |-> value, hash |-> its[k].hash]
  <2>1. its[k] \in AnItem
    BY <1>6
  <2>. QED
    BY <2>1 DEF AnItem
<1>8. /\ new \in Seq(AnItem) /\ Len(new) = len
      /\ \A m \in 1 .. len : new[m] = IF m = k THEN [its[k] EXCEPT !.value = value] ELSE its[m]
  <2>1. new = [its EXCEPT ![k] = [its[k] EXCEPT !.value = value]]
    OBVIOUS
  <2>. QED
    BY <1>6, <1>7, <2>1, ExceptSeq
<1>. HIDE DEF new
<1>9. ASSUME NEW m \in 1 .. len
      PROVE  new[m] = ItemOf(e.entries[s[m]])
  <2>1. s[m] \in 0 .. Size(d) - 1 /\ (s[m] = i => m = k)
    BY <1>2 DEF i
  <2>2. CASE m = k
    <3>1. s[m] = i /\ new[m] = [key |-> its[k].key, value |-> value, hash |-> its[k].hash]
      BY <1>7, <1>8, <2>2 DEF i
    <3>2. its[k] = ItemOf(d.entries[i])
      BY <1>6 DEF i
    <3>3. its[k].key = d.entries[i].key /\ its[k].hash = d.entries[i].hash
      BY <3>2 DEF ItemOf
    <3>. QED
      BY <1>3, <2>1, <3>1, <3>3 DEF ItemOf
  <2>3. CASE m # k
    <3>1. s[m] # i /\ new[m] = ItemOf(d.entries[s[m]])
      BY <1>6, <1>8, <2>1, <2>3
    <3>. QED
      BY <1>3, <2>1, <3>1 DEF ItemOf
  <2>. QED
    BY <2>2, <2>3
<1>10. ItemsOf(e, s) = new
  <2>. HIDE DEF len
  <2>1. Len(new) = Len(s) /\ \A m \in 1 .. Len(s) : new[m] = ItemOf(e.entries[s[m]])
    BY <1>8, <1>9 DEF len
  <2>. QED
    BY <1>3, <1>4, <1>8, <2>1, SameItems
<1>. QED
  BY <1>3, <1>4, <1>5, <1>10 DEF Fits, e, its, new

(* One more item in a slot never used.                                     *)
LEMMA InsertFits ==
  ASSUME NEW d, NEW s, Fits(d, s), NEW e, e.key \in Keys, e.value \in Values, e.hash \in Nat
  PROVE  LET f == insert_clean(d, e)
         IN  \E t : /\ IsDict(f) /\ Chain(f, t) /\ Placed(f) /\ Counts(f)
                    /\ f.kind = d.kind /\ Size(f) = Size(d) /\ f.resize_counter = d.resize_counter - 3
                    /\ ItemsOf(f, t) = Append(ItemsOf(d, s), ItemOf(e))
<1>. DEFINE i == lookup_clean(d, e.hash)
            g == Linked(d, i, e.key, e.value, e.hash)
            f == insert_clean(d, e)
            v == d.resize_counter - 3
            t == Append(s, i)
<1>1. IsDict(d) /\ HasRoom(d) /\ Chain(d, s) /\ Placed(d) /\ Sound(d)
  BY FitsSound DEF Fits
<1>2. i \in 0 .. Size(d) - 1 /\ ~d.entries[i].everused /\ OnWay(d, e.hash, i)
  BY <1>1, CleanSlot
<1>3. ~d.entries[i].valid
  BY <1>1, <1>2, DictFacts
<1>4. Counts(f) /\ f.kind = d.kind /\ Size(f) = Size(d) /\ f.resize_counter = v
  BY <1>1, InsertKeeps
<1>5. f = [g EXCEPT !.resize_counter = @ - 3]
  BY DEF insert_clean
<1>. HIDE DEF i
<1>6. /\ IsDict(g) /\ Chain(g, t) /\ g.resize_counter = d.resize_counter
  BY <1>1, <1>2, <1>3, LinkedKeeps
<1>7. Placed(g) /\ ItemsOf(g, t) = Append(ItemsOf(d, s), ItemOf(e))
  BY <1>1, <1>2, <1>3, LinkedFits DEF ItemOf
<1>. HIDE DEF f, g, t
<1>8. v \in Int
  BY <1>1 DEF IsDict
<1>9. f = [g EXCEPT !.resize_counter = v]
  BY <1>5, <1>6
<1>. HIDE DEF v
<1>10. IsDict(f) /\ Chain(f, t)
  BY <1>6, <1>8, <1>9, CounterOnly
<1>11. Placed(f) /\ ItemsOf(f, t) = ItemsOf(g, t)
  BY <1>6, <1>7, <1>8, <1>9, CounterFits
<1>12. /\ IsDict(f) /\ Chain(f, t) /\ Placed(f) /\ Counts(f)
       /\ f.kind = d.kind /\ Size(f) = Size(d) /\ f.resize_counter = d.resize_counter - 3
       /\ ItemsOf(f, t) = Append(ItemsOf(d, s), ItemOf(e))
  BY <1>4, <1>7, <1>10, <1>11 DEF v
<1>. QED
  BY <1>12 DEF f

(* Another array, with the same items in the same order.                   *)
LEMMA ResizeFits ==
  ASSUME NEW d, IsDict(d), NEW s, Chain(d, s)
  PROVE  \E t : /\ Fits(resize(d), t) /\ resize(d).kind = d.kind
                /\ ItemsOf(resize(d), t) = ItemsOf(d, s)
<1>. DEFINE m == Len(s)
            N == NewSize(d.num_items)
            its == ItemsOf(d, s)
            P(x, k) == /\ x.kind = d.kind /\ Size(x) = N /\ x.resize_counter = 2 * N - 3 * k
                       /\ \E t : /\ IsDict(x) /\ Chain(x, t) /\ Placed(x) /\ Counts(x)
                                 /\ ItemsOf(x, t) = FirstOf(its, k)
<1>1. /\ m \in Nat /\ DOMAIN s = 1 .. m /\ d.num_items = m /\ d.kind \in {Eql, Identity}
      /\ s = From(d, d.first_entry)
      /\ \A k \in 1 .. m : s[k] \in DOMAIN d.entries /\ d.entries[s[k]].valid
  BY ChainFacts, DictFacts, WalkIsChain
<1>2. N \in Nat /\ PowerOfTwo(N) /\ 2 * N - 3 * m > 0
  BY <1>1, NewSizeIs
<1>3. its \in Seq(AnItem) /\ Len(its) = m /\ \A k \in 1 .. m : its[k] = ItemOf(d.entries[s[k]])
  BY ItemsTyped
<1>. HIDE DEF m, N, its
<1>4. /\ FirstOf(its, 0) = <<>> /\ FirstOf(its, m) = its
      /\ \A k \in 1 .. m : FirstOf(its, k) = Append(FirstOf(its, k - 1), its[k])
  BY <1>3, FirstGrows
<1>5. PICK A : /\ Passes(A, "resize", d, s, newdict(d.kind, N), m)
               /\ resize(d) = A[m]
  BY <1>1, ResizePasses DEF N
<1>6. P(A[0], 0)
  <2>. DEFINE e == newdict(d.kind, N)
  <2>1. /\ IsDict(e) /\ Size(e) = N /\ Chain(e, <<>>) /\ HasRoom(e) /\ e.kind = d.kind /\ Ever(e) = {}
    BY <1>1, <1>2, NewdictEmpty
  <2>2. Placed(e) /\ ItemsOf(e, <<>>) = <<>>
    BY <1>1, <1>2, NewdictFits DEF Fits
  <2>. HIDE DEF e
  <2>3. A[0] = e
    BY <1>5 DEF Passes, e
  <2>4. Counts(e) /\ e.resize_counter = 2 * N - 3 * 0
    BY <1>2, <2>1, FS_EmptySet DEF HasRoom, Counts
  <2>. QED
    BY <1>4, <2>1, <2>2, <2>3, <2>4
<1>7. ASSUME NEW k \in 1 .. m, P(A[k - 1], k - 1)
      PROVE  P(A[k], k)
  <2>. DEFINE x == A[k - 1]
              e == d.entries[s[k]]
  <2>1. PICK t : IsDict(x) /\ Chain(x, t) /\ Placed(x) /\ Counts(x) /\ ItemsOf(x, t) = FirstOf(its, k - 1)
    BY <1>7
  <2>2. Fits(x, t)
    <3>1. x.resize_counter > 0
      BY <1>1, <1>2, <1>7
    <3>. QED
      BY <2>1, <3>1 DEF Fits, HasRoom
  <2>3. e.key \in Keys /\ e.value \in Values /\ e.hash \in Nat
    <3>1. s[k] \in DOMAIN d.entries /\ d.entries[s[k]].valid
      BY <1>1
    <3>. QED
      BY <3>1, DictFacts DEF IsDict
  <2>4. A[k] = insert_clean(x, e)
    BY <1>5 DEF Passes, Round
  <2>5. x.kind = d.kind /\ Size(x) = N /\ x.resize_counter = 2 * N - 3 * (k - 1)
    BY <1>7
  <2>6. FirstOf(its, k) = Append(FirstOf(its, k - 1), ItemOf(e))
    BY <1>3, <1>4
  <2>. HIDE DEF x, e
  <2>7. PICK u : LET f == insert_clean(x, e)
                 IN  /\ IsDict(f) /\ Chain(f, u) /\ Placed(f) /\ Counts(f)
                     /\ f.kind = x.kind /\ Size(f) = Size(x) /\ f.resize_counter = x.resize_counter - 3
                     /\ ItemsOf(f, u) = Append(ItemsOf(x, t), ItemOf(e))
    BY <2>2, <2>3, InsertFits
  <2>8. (2 * N - 3 * (k - 1)) - 3 = 2 * N - 3 * k
    BY <1>1, <1>2
  <2>. QED
    BY <2>1, <2>4, <2>5, <2>6, <2>7, <2>8
<1>. HIDE DEF P
<1>. DEFINE I == {k \in 0 .. m : ~P(A[k], k)}
<1>8. I = {}
  <2>1. 0 \notin I /\ I \in SUBSET (0 .. m)
    BY <1>6
  <2>2. ASSUME NEW k \in 1 .. m, k \in I
        PROVE  k - 1 \in I
    <3>1. k - 1 \in 0 .. m
      BY <1>1
    <3>. QED
      BY <1>7, <2>2, <3>1
  <2>. HIDE DEF I
  <2>. QED
    BY <1>1, <2>1, <2>2, NeverWrong
<1>9. P(A[m], m)
  BY <1>1, <1>8
<1>. QED
  BY <1>2, <1>4, <1>5, <1>9 DEF P, Fits, HasRoom, its

-----------------------------------------------------------------------------
(* What the calls of a search leave is a dictionary each time.              *)
FitCalls(d, calls) ==
  /\ SoundCalls(d, calls)
  /\ \A n \in 0 .. Len(calls) : \E t : Fits(Seen(d, calls, n), t)

LEMMA FitNoCalls ==
  ASSUME NEW d, NEW s, Fits(d, s)
  PROVE  FitCalls(d, <<>>)
<1>1. SoundCalls(d, <<>>) /\ Len(<<>>) = 0
  BY NoCalls
<1>2. ASSUME NEW n \in 0 .. Len(<<>>) PROVE Fits(Seen(d, <<>>, n), s)
  <2>1. n = 0
    BY <1>1
  <2>. QED
    BY <2>1 DEF Seen
<1>. QED
  BY <1>1, <1>2 DEF FitCalls

LEMMA ClearFits ==
  ASSUME NEW d, NEW s, Fits(d, s)
  PROVE  Fits(clear(d), <<>>) /\ clear(d).kind = d.kind /\ ItemsOf(clear(d), <<>>) = <<>>
<1>1. /\ PowerOfTwo(INIT_SIZE) /\ INIT_SIZE \in Nat /\ d.kind \in {Eql, Identity}
      /\ d.num_items = Len(s) /\ s \in Seq(Nat)
  BY DictAssumption, DictFacts, ChainFacts DEF PowerOfTwo, Fits
<1>2. CASE d.num_items = 0
  <2>1. s = <<>> /\ clear(d) = d
    BY <1>1, <1>2, EmptySeq DEF clear
  <2>. QED
    BY <2>1 DEF ItemsOf
<1>3. CASE d.num_items # 0
  <2>1. clear(d) = newdict(d.kind, INIT_SIZE)
    BY <1>3 DEF clear
  <2>2. newdict(d.kind, INIT_SIZE).kind = d.kind
    BY DEF newdict
  <2>. QED
    BY <1>1, <2>1, <2>2, NewdictFits
<1>. QED
  BY <1>2, <1>3

(* What a search comes to: the p-th item, or none if p is 0.               *)
Search(d, key, calls, t, p) ==
  LET r == At(d, key, calls)
  IN  /\ Fits(r.dict, t) /\ r.dict.kind = d.kind
      /\ r.slot \in 0 .. Size(r.dict) - 1
      /\ p \in Map!Finds(d.kind, ItemsOf(r.dict, t), key)
      /\ IF r.found THEN p \in 1 .. Len(t) /\ r.slot = t[p]
         ELSE p = 0 /\ ~r.dict.entries[r.slot].valid /\ OnWay(r.dict, hashkey(d.kind, key), r.slot)

LEMMA SearchFits ==
  ASSUME NEW d, NEW s, Fits(d, s), NEW key \in Keys, NEW calls, FitCalls(d, calls),
         hashkey(d.kind, key) \in Nat
  PROVE  \E t, p : Search(d, key, calls, t, p)
<1>. DEFINE hash == hashkey(d.kind, key)
            r == lookup(d, key, hash, calls)
            x == r.dict
            i == r.slot
<1>0. Sound(d) /\ SoundCalls(d, calls)
  BY FitsSound DEF FitCalls
<1>1. /\ Sound(x) /\ x.kind = d.kind /\ i \in 0 .. Size(x) - 1
      /\ r.found \in BOOLEAN /\ (x.entries[i].valid <=> r.found)
      /\ r.called \in 0 .. Len(calls) /\ x = Seen(d, calls, r.called)
  BY <1>0, LookupSound
<1>2. /\ r.found => SameKey(x, x.entries[i], key, hash)
      /\ ~r.found =>
           /\ OnWay(x, hash, i)
           /\ \A j \in DOMAIN x.entries :
                LET e == x.entries[j]
                IN  e.valid /\ e.hash = hash /\ OnWay(x, hash, j) => ~SameKey(x, e, key, hash)
  BY <1>0, LookupFinds
<1>3. At(d, key, calls) = r
  BY DEF At
<1>. HIDE DEF r, x, i
<1>4. PICK t : Fits(x, t)
  BY <1>1 DEF FitCalls
<1>. DEFINE its == ItemsOf(x, t)
<1>5. /\ IsDict(x) /\ Chain(x, t) /\ Placed(x)
  BY <1>4 DEF Fits
<1>6. /\ DOMAIN t = 1 .. Len(t)
      /\ \A k \in 1 .. Len(t) : t[k] \in 0 .. Size(x) - 1 /\ x.entries[t[k]].valid
      /\ DOMAIN its = 1 .. Len(t)
      /\ \A k \in 1 .. Len(t) : its[k].key = x.entries[t[k]].key /\ its[k].hash = x.entries[t[k]].hash
  BY <1>5, ChainFacts, ItemsTyped
<1>. HIDE DEF its, hash
<1>7. ASSUME NEW k \in 1 .. Len(t)
      PROVE  /\ k \in Map!Exact(d.kind, its, key) <=>
                  x.entries[t[k]].hash = hash /\ SameKey(x, x.entries[t[k]], key, hash)
             /\ SameKey(x, x.entries[t[k]], key, hash) /\ x.entries[t[k]].hash # hash =>
                  k \in Map!Stale(d.kind, its, key)
  <2>. DEFINE e == x.entries[t[k]]
  <2>1. its[k].key = e.key /\ its[k].hash = e.hash /\ k \in DOMAIN its
    BY <1>6
  <2>. HIDE DEF e
  <2>2. Map!Hash(d.kind, key) = hash
    BY DEF Map!Hash, hash, hashkey, Identity
  <2>3. Map!Same(d.kind, e.key, key) <=> e.key = key \/ (x.kind # Identity /\ keyeq(e.key, key))
    BY <1>1 DEF Map!Same, keyeq, Identity
  <2>. QED
    BY <2>1, <2>2, <2>3 DEF Map!Exact, Map!Stale, SameKey, e
<1>8. CASE r.found
  <2>1. PICK k \in DOMAIN t : t[k] = i
    BY <1>1, <1>5, <1>8, DictFacts DEF Chain
  <2>2. k \in Map!Exact(d.kind, its, key) \cup Map!Stale(d.kind, its, key) /\ k \in 1 .. Len(t)
    BY <1>2, <1>6, <1>7, <1>8, <2>1
  <2>3. k \in Map!Finds(d.kind, its, key)
    BY <2>2, Zenon DEF Map!Finds
  <2>4. Search(d, key, calls, t, k)
    BY <1>1, <1>3, <1>4, <1>8, <2>1, <2>2, <2>3 DEF Search, x, i, its
  <2>. QED
    BY <2>4
<1>9. CASE ~r.found
  <2>1. Map!Exact(d.kind, its, key) = {}
    <3>. SUFFICES ASSUME NEW k \in Map!Exact(d.kind, its, key) PROVE FALSE
      OBVIOUS
    <3>1. k \in 1 .. Len(t)
      BY <1>6 DEF Map!Exact
    <3>2. x.entries[t[k]].hash = hash /\ SameKey(x, x.entries[t[k]], key, hash)
      BY <1>7, <3>1
    <3>3. t[k] \in DOMAIN x.entries /\ x.entries[t[k]].valid
      BY <1>5, <3>1 DEF Chain
    <3>4. OnWay(x, hash, t[k])
      BY <1>5, <3>2, <3>3 DEF Placed
    <3>. QED
      BY <1>2, <1>9, <3>2, <3>3, <3>4
  <2>2. 0 \in Map!Finds(d.kind, its, key)
    BY <2>1, Zenon DEF Map!Finds
  <2>3. Search(d, key, calls, t, 0)
    BY <1>1, <1>2, <1>3, <1>4, <1>9, <2>2 DEF Search, x, i, its, hash
  <2>. QED
    BY <2>3
<1>. QED
  BY <1>8, <1>9

(* A search that calls no eql? leaves the dictionary alone.                *)
LEMMA PlainStays ==
  ASSUME NEW d, NEW s, Fits(d, s), NEW key, hashkey(d.kind, key) \in Nat,
         NEW t, NEW p, Search(d, key, <<>>, t, p)
  PROVE  At(d, key, <<>>).dict = d /\ t = s
<1>. DEFINE r == At(d, key, <<>>)
<1>1. SoundCalls(d, <<>>) /\ Len(<<>>) = 0 /\ Sound(d)
  BY NoCalls, FitsSound
<1>2. r.called \in 0 .. Len(<<>>) /\ r.dict = Seen(d, <<>>, r.called)
  BY <1>1, LookupSound DEF At
<1>3. Fits(r.dict, t)
  BY DEF Search
<1>. HIDE DEF r
<1>4. r.dict = d
  BY <1>1, <1>2 DEF Seen
<1>5. t = s
  <2>1. Fits(d, t)
    BY <1>3, <1>4
  <2>2. t = From(d, d.first_entry)
    BY <2>1, WalkIsChain DEF Fits
  <2>3. s = From(d, d.first_entry)
    BY WalkIsChain DEF Fits
  <2>. QED
    BY <2>2, <2>3
<1>. QED
  BY <1>4, <1>5 DEF r

-----------------------------------------------------------------------------
(* A value is stored where a search has come.                              *)
Settles(d, key, value, calls, t, p) ==
  LET e == setitem(d, key, value, calls)
      r == At(d, key, calls)
  IN  \E u : /\ Fits(e, u) /\ e.kind = d.kind
             /\ ItemsOf(e, u) = Map!Put(d.kind, ItemsOf(r.dict, t), p, key, value)
             /\ p # 0 => u = t /\ Size(e) = Size(r.dict)

LEMMA SetitemFits ==
  ASSUME NEW d, NEW s, Fits(d, s), NEW key \in Keys, NEW value \in Values, NEW calls,
         hashkey(d.kind, key) \in Nat, NEW t, NEW p, Search(d, key, calls, t, p)
  PROVE  Settles(d, key, value, calls, t, p)
<1>. SUFFICES LET e == setitem(d, key, value, calls)
                  r == At(d, key, calls)
              IN  \E u : /\ Fits(e, u) /\ e.kind = d.kind
                         /\ ItemsOf(e, u) = Map!Put(d.kind, ItemsOf(r.dict, t), p, key, value)
                         /\ p # 0 => u = t /\ Size(e) = Size(r.dict)
  BY DEF Settles
<1>. DEFINE hash == hashkey(d.kind, key)
            r == lookup(d, key, hash, calls)
            c == r.dict
            i == r.slot
            its == ItemsOf(c, t)
            added == Linked(c, i, key, value, hash)
            less == [added EXCEPT !.resize_counter = @ - 3]
            new == [c EXCEPT !.entries[i].value = value]
            item == [key |-> key, value |-> value, hash |-> hash]
            P(e, u) == /\ Fits(e, u) /\ e.kind = d.kind /\ ItemsOf(e, u) = Map!Put(d.kind, its, p, key, value)
                       /\ p # 0 => u = t /\ Size(e) = Size(c)
<1>1. At(d, key, calls) = r
  BY DEF At
<1>2. /\ Fits(c, t) /\ c.kind = d.kind /\ i \in 0 .. Size(c) - 1
      /\ IF r.found THEN p \in 1 .. Len(t) /\ i = t[p]
         ELSE p = 0 /\ ~c.entries[i].valid /\ OnWay(c, hash, i)
  BY <1>1 DEF Search
<1>3. setitem(d, key, value, calls) = IF r.found THEN new ELSE IF c.entries[i].everused THEN added
                                   ELSE Counted(added)
  BY DEF setitem
<1>4. Counted(added) = IF less.resize_counter <= 0 THEN resize(less) ELSE less
  BY DEF Counted
<1>5. hash = Map!Hash(d.kind, key)
  BY DEF hashkey, Map!Hash, Identity
<1>. HIDE DEF r, hash, c, i
<1>6. CASE r.found
  <2>1. new = [c EXCEPT !.entries[t[p]].value = value] /\ p # 0
    BY <1>2, <1>6
  <2>2. LET e == [c EXCEPT !.entries[t[p]].value = value]
        IN  Fits(e, t) /\ e.kind = c.kind /\ ItemsOf(e, t) = [its EXCEPT ![p].value = value]
            /\ Size(e) = Size(c)
    BY <1>2, <1>6, ValueFits
  <2>3. Map!Put(d.kind, its, p, key, value) = [its EXCEPT ![p].value = value]
    BY <2>1 DEF Map!Put
  <2>. HIDE DEF new, its
  <2>4. P(new, t)
    BY <1>2, <2>1, <2>2, <2>3
  <2>. QED
    BY <1>1, <1>3, <1>6, <2>4 DEF c, its
<1>7. CASE ~r.found
  <2>1. IsDict(c) /\ HasRoom(c) /\ Chain(c, t) /\ Placed(c) /\ ~c.entries[i].valid /\ hash \in Nat
        /\ OnWay(c, hash, i) /\ p = 0
    BY <1>2, <1>7 DEF Fits, hash
  <2>2. /\ IsDict(added) /\ Chain(added, Append(t, i)) /\ Ever(added) = Ever(c) \cup {i}
        /\ added.resize_counter = c.resize_counter /\ added.kind = c.kind /\ Size(added) = Size(c)
    BY <1>2, <2>1, LinkedKeeps
  <2>3. Placed(added) /\ ItemsOf(added, Append(t, i)) = Append(its, item)
    BY <1>2, <2>1, LinkedFits
  <2>4. Map!Put(d.kind, its, p, key, value) = Append(its, item)
    BY <1>5, <2>1 DEF Map!Put
  <2>. HIDE DEF added, its, item
  <2>5. CASE c.entries[i].everused
    <3>1. Ever(added) = Ever(c)
      <4>1. i \in DOMAIN c.entries
        BY <1>2, <2>1, DictFacts
      <4>. QED
        BY <2>2, <2>5, <4>1 DEF Ever
    <3>2. Fits(added, Append(t, i))
      BY <2>1, <2>2, <2>3, <3>1 DEF Fits, HasRoom, Counts
    <3>3. P(added, Append(t, i))
      BY <1>2, <2>1, <2>2, <2>3, <2>4, <3>2
    <3>. QED
      BY <1>1, <1>3, <1>7, <2>5, <3>3 DEF c, its
  <2>6. CASE ~c.entries[i].everused
    <3>1. c.resize_counter \in Int /\ c.resize_counter = 2 * Size(c) - 3 * Cardinality(Ever(c)) /\ Size(c) \in Nat
      BY <2>1, DictFacts DEF IsDict, HasRoom, Counts
    <3>2. Cardinality(Ever(c)) \in Nat /\ Cardinality(Ever(added)) = Cardinality(Ever(c)) + 1
      BY <1>2, <2>1, <2>2, <2>6, OneMore
    <3>. DEFINE v == c.resize_counter - 3
    <3>3. v \in Int
      BY <3>1
    <3>4. less = [added EXCEPT !.resize_counter = v]
      BY <2>2
    <3>5. v = 2 * Size(added) - 3 * Cardinality(Ever(added))
      BY <2>2, <3>1, <3>2
    <3>. HIDE DEF less, v
    <3>6. /\ IsDict(less) /\ Chain(less, Append(t, i)) /\ less.kind = added.kind
          /\ Size(less) = Size(added) /\ Ever(less) = Ever(added) /\ less.resize_counter = v
      BY <2>2, <3>3, <3>4, CounterOnly
    <3>7. Placed(less) /\ ItemsOf(less, Append(t, i)) = ItemsOf(added, Append(t, i))
      BY <2>2, <2>3, <3>3, <3>4, CounterFits
    <3>8. CASE less.resize_counter <= 0
      <4>1. PICK u : /\ Fits(resize(less), u) /\ resize(less).kind = less.kind
                     /\ ItemsOf(resize(less), u) = ItemsOf(less, Append(t, i))
        BY <3>6, ResizeFits
      <4>2. P(resize(less), u)
        BY <1>2, <2>1, <2>2, <2>3, <2>4, <3>6, <3>7, <4>1
      <4>. QED
        BY <1>1, <1>3, <1>4, <1>7, <2>6, <3>8, <4>2 DEF c, its
    <3>9. CASE ~(less.resize_counter <= 0)
      <4>1. HasRoom(less)
        BY <3>3, <3>5, <3>6, <3>9 DEF HasRoom, Counts
      <4>2. Fits(less, Append(t, i))
        BY <3>6, <3>7, <4>1 DEF Fits
      <4>3. P(less, Append(t, i))
        BY <1>2, <2>1, <2>2, <2>3, <2>4, <3>6, <3>7, <4>2
      <4>. QED
        BY <1>1, <1>3, <1>4, <1>7, <2>6, <3>9, <4>3 DEF c, its
    <3>. QED
      BY <3>8, <3>9
  <2>. QED
    BY <2>5, <2>6
<1>. QED
  BY <1>6, <1>7

LEMMA PopFits ==
  ASSUME NEW d, NEW s, Fits(d, s), NEW key \in Keys, NEW calls, NEW t, NEW p, Search(d, key, calls, t, p)
  PROVE  LET e == pop(d, key, calls)
             r == At(d, key, calls)
             u == IF p = 0 THEN t ELSE RemoveAt(t, p)
         IN  /\ Fits(e, u) /\ e.kind = d.kind
             /\ e = IF p = 0 THEN r.dict ELSE Del(r.dict, t[p])
             /\ ItemsOf(e, u) = Map!Without(ItemsOf(r.dict, t), p)
<1>. DEFINE r == At(d, key, calls)
            c == r.dict
<1>1. /\ Fits(c, t) /\ c.kind = d.kind
      /\ IF r.found THEN p \in 1 .. Len(t) /\ r.slot = t[p] ELSE p = 0
  BY DEF Search
<1>2. pop(d, key, calls) = IF r.found THEN Del(c, r.slot) ELSE c
  BY DEF pop
<1>. HIDE DEF r, c
<1>3. CASE r.found
  <2>1. LET e == Del(c, t[p]) IN /\ Fits(e, RemoveAt(t, p)) /\ e.kind = c.kind
                                 /\ ItemsOf(e, RemoveAt(t, p)) = RemoveAt(ItemsOf(c, t), p)
    BY <1>1, <1>3, DelFits
  <2>2. p # 0
    BY <1>1, <1>3
  <2>3. pop(d, key, calls) = Del(c, t[p])
    BY <1>1, <1>2, <1>3
  <2>4. Map!Without(ItemsOf(c, t), p) = RemoveAt(ItemsOf(c, t), p)
    BY <2>2 DEF Map!Without, Map!RemoveAt, RemoveAt
  <2>. QED
    BY <1>1, <2>1, <2>2, <2>3, <2>4, Zenon DEF r, c
<1>4. CASE ~r.found
  <2>1. p = 0 /\ pop(d, key, calls) = c
    BY <1>1, <1>2, <1>4
  <2>2. Map!Without(ItemsOf(c, t), p) = ItemsOf(c, t)
    BY <2>1 DEF Map!Without
  <2>. QED
    BY <1>1, <2>1, <2>2, Zenon DEF r, c
<1>. QED
  BY <1>3, <1>4

-----------------------------------------------------------------------------
(* Items with the hash their key has, and no two of which are the same.    *)
Fresh(kd, q) ==
  /\ \A i \in DOMAIN q : q[i].hash = Map!Hash(kd, q[i].key)
  /\ \A i, j \in DOMAIN q : Map!Same(kd, q[i].key, q[j].key) => i = j

LEMMA SameAre ==
  ASSUME NEW kd
  PROVE  /\ \A a : Map!Same(kd, a, a)
         /\ \A a, b : Map!Same(kd, a, b) => Map!Same(kd, b, a) /\ Map!Hash(kd, a) = Map!Hash(kd, b)
         /\ \A a, b, c : Map!Same(kd, a, c) /\ Map!Same(kd, b, c) => Map!Same(kd, a, b)
BY DEF Map!Same, Map!Hash

LEMMA FreshFinds ==
  ASSUME NEW kd, NEW q, Fresh(kd, q), NEW m \in Nat, DOMAIN q = 1 .. m,
         NEW key, NEW p \in Map!Finds(kd, q, key)
  PROVE  LET there == Map!Exact(kd, q, key)
         IN  /\ p = IF there = {} THEN 0 ELSE CHOOSE i \in there : TRUE
             /\ there = {} <=> p = 0
             /\ \A i \in DOMAIN q : Map!Same(kd, q[i].key, key) => i = p
             /\ Map!Stale(kd, q, key) = {}
<1>. DEFINE there == Map!Exact(kd, q, key)
<1>1. \A i : i \in there <=> i \in DOMAIN q /\ Map!Same(kd, q[i].key, key)
  BY SameAre DEF Fresh, Map!Exact
<1>2. Map!Stale(kd, q, key) = {}
  BY DEF Fresh, Map!Stale
<1>3. \A i, j \in there : i = j
  BY <1>1, SameAre DEF Fresh
<1>4. p \in there \/ (p = 0 /\ there = {})
  BY <1>2 DEF Map!Finds
<1>. HIDE DEF there
<1>5. 0 \notin there
  BY <1>1
<1>. QED
  BY <1>1, <1>2, <1>3, <1>4, <1>5 DEF there

LEMMA FreshPut ==
  ASSUME NEW kd, NEW q \in Seq(AnItem), Fresh(kd, q), NEW key \in Keys, NEW value \in Values,
         Map!Hash(kd, key) \in Nat, NEW p \in Map!Finds(kd, q, key)
  PROVE  Fresh(kd, Map!Put(kd, q, p, key, value))
<1>. DEFINE m == Len(q)
            item == [key |-> key, value |-> value, hash |-> Map!Hash(kd, key)]
            new == Map!Put(kd, q, p, key, value)
<1>1. m \in Nat /\ DOMAIN q = 1 .. m /\ \A i \in 1 .. m : q[i] \in AnItem
  BY LenProperties, ElementOfSeq
<1>. HIDE DEF m
<1>2. \A i \in 1 .. m : Map!Same(kd, q[i].key, key) => i = p
  BY <1>1, FreshFinds
<1>3. item \in AnItem /\ item.key = key /\ item.hash = Map!Hash(kd, key)
  BY DEF AnItem
<1>4. CASE p = 0
  <2>1. new = Append(q, item)
    BY <1>4 DEF Map!Put
  <2>. HIDE DEF new, item
  <2>2. DOMAIN new = 1 .. m + 1 /\ \A i \in 1 .. m + 1 : new[i] = IF i = m + 1 THEN item ELSE q[i]
    BY <1>1, <1>3, <2>1, AppendProperties, LenProperties DEF m
  <2>3. \A i \in 1 .. m + 1 : i # m + 1 => i \in 1 .. m
    BY <1>1
  <2>4. \A i \in 1 .. m : ~Map!Same(kd, q[i].key, key)
    BY <1>1, <1>2, <1>4
  <2>5. ASSUME NEW i \in 1 .. m + 1
        PROVE  new[i].hash = Map!Hash(kd, new[i].key)
    BY <1>1, <1>3, <2>2, <2>3 DEF Fresh
  <2>6. ASSUME NEW i \in 1 .. m + 1, NEW j \in 1 .. m + 1, Map!Same(kd, new[i].key, new[j].key)
        PROVE  i = j
    <3>1. CASE i = m + 1 /\ j # m + 1
      <4>1. j \in 1 .. m /\ Map!Same(kd, key, q[j].key)
        BY <1>3, <2>2, <2>3, <2>6, <3>1
      <4>. QED
        BY <2>4, <4>1, SameAre
    <3>2. CASE i # m + 1 /\ j = m + 1
      BY <1>3, <2>2, <2>3, <2>4, <2>6, <3>2
    <3>3. CASE i # m + 1 /\ j # m + 1
      BY <1>1, <2>2, <2>3, <2>6, <3>3 DEF Fresh
    <3>. QED
      BY <3>1, <3>2, <3>3
  <2>. QED
    BY <2>2, <2>5, <2>6 DEF Fresh, new
<1>5. CASE p # 0
  <2>1. new = [q EXCEPT ![p].value = value]
    BY <1>5 DEF Map!Put
  <2>2. DOMAIN new = 1 .. m
    BY <1>1, <2>1
  <2>3. ASSUME NEW i \in 1 .. m
        PROVE  new[i].key = q[i].key /\ new[i].hash = q[i].hash
    <3>1. q[i] \in AnItem
      BY <1>1
    <3>2. [q[i] EXCEPT !.value = value].key = q[i].key /\ [q[i] EXCEPT !.value = value].hash = q[i].hash
      BY <3>1 DEF AnItem
    <3>3. new[i] = IF i = p THEN [q[i] EXCEPT !.value = value] ELSE q[i]
      BY <1>1, <2>1
    <3>. HIDE DEF new
    <3>. QED
      BY <3>2, <3>3
  <2>. HIDE DEF new
  <2>. QED
    BY <1>1, <2>2, <2>3 DEF Fresh, new
<1>. QED
  BY <1>4, <1>5

(* Items stored anew are stored as the map stores them.                    *)
LEMMA MergeFits ==
  ASSUME IsDict(dict), NEW d, Fits(d, <<>>), ItemsOf(d, <<>>) = <<>>,
         NEW q \in Seq(Nat), \A n \in DOMAIN q : q[n] \in DOMAIN dict.entries /\ dict.entries[q[n]].valid,
         \A k \in Keys : hashkey(d.kind, k) \in Nat
  PROVE  /\ \E u : /\ Fits(Merge(d, q), u) /\ Merge(d, q).kind = d.kind
                   /\ ItemsOf(Merge(d, q), u) = Map!Restored(d.kind, ItemsOf(dict, q))
         /\ Fresh(d.kind, Map!Restored(d.kind, ItemsOf(dict, q)))
<1>. DEFINE m == Len(q)
            its == ItemsOf(dict, q)
            kd == d.kind
            P(x, acc) == x.kind = kd /\ Fresh(kd, acc) /\ \E u : Fits(x, u) /\ ItemsOf(x, u) = acc
<1>1. m \in Nat /\ DOMAIN q = 1 .. m /\ DOMAIN its = 1 .. m
  BY LenProperties DEF ItemsOf
<1>. HIDE DEF m
<1>2. PICK A : Passes(A, "merge", dict, q, d, m) /\ Merge(d, q) = A[m]
  BY <1>1, MergePasses
<1>3. PICK B : Passes(B, "restore", kd, its, <<>>, m) /\ Map!Restored(kd, its) = B[m]
  <2>. HIDE DEF its, kd
  <2>. QED
    BY <1>1, RestoredPasses
<1>4. P(A[0], B[0])
  <2>1. A[0] = d /\ B[0] = <<>>
    BY <1>2, <1>3 DEF Passes
  <2>2. Fresh(kd, <<>>)
    BY DEF Fresh
  <2>. QED
    BY <2>1, <2>2
<1>5. ASSUME NEW k \in 1 .. m, P(A[k - 1], B[k - 1])
      PROVE  P(A[k], B[k])
  <2>. DEFINE x == A[k - 1]
              acc == B[k - 1]
              e == dict.entries[q[k]]
              y == setitem(x, e.key, e.value, <<>>)
  <2>1. e.key \in Keys /\ e.value \in Values
    BY <1>1 DEF IsDict
  <2>2. A[k] = y /\ B[k] = Restoring(kd, acc, its[k])
    BY <1>2, <1>3 DEF Passes, Round
  <2>3. its[k].key = e.key /\ its[k].value = e.value
    BY <1>1 DEF ItemsOf, ItemOf
  <2>4. PICK u : Fits(x, u) /\ ItemsOf(x, u) = acc
    BY <1>5
  <2>5. x.kind = kd /\ Fresh(kd, acc)
    BY <1>5
  <2>6. FitCalls(x, <<>>) /\ hashkey(x.kind, e.key) \in Nat
    BY <2>1, <2>4, <2>5, FitNoCalls
  <2>. HIDE DEF x, acc, e, its, kd
  <2>7. PICK t, p : Search(x, e.key, <<>>, t, p)
    BY <2>1, <2>4, <2>6, SearchFits
  <2>8. At(x, e.key, <<>>).dict = x /\ t = u
    BY <2>4, <2>6, <2>7, PlainStays
  <2>9. PICK v : /\ Fits(y, v) /\ y.kind = x.kind
                 /\ ItemsOf(y, v) = Map!Put(x.kind, acc, p, e.key, e.value)
    <3>. DEFINE w == setitem(x, e.key, e.value, <<>>)
                f == At(x, e.key, <<>>).dict
    <3>1. \E v : /\ Fits(w, v) /\ w.kind = x.kind
                 /\ ItemsOf(w, v) = Map!Put(x.kind, ItemsOf(f, t), p, e.key, e.value)
      <4>1. Settles(x, e.key, e.value, <<>>, t, p)
        BY <2>1, <2>4, <2>6, <2>7, SetitemFits
      <4>. QED
        BY <4>1 DEF Settles
    <3>2. f = x /\ t = u /\ w = y
      BY <2>8
    <3>. HIDE DEF w, f
    <3>. QED
      BY <2>4, <3>1, <3>2 DEF acc
  <2>10. p \in Map!Finds(kd, acc, e.key)
    BY <2>4, <2>5, <2>7, <2>8 DEF Search
  <2>11. acc \in Seq(AnItem) /\ Len(acc) \in Nat /\ DOMAIN acc = 1 .. Len(acc)
    BY <2>4, ItemsTyped, LenProperties DEF Fits
  <2>12. Map!Hash(kd, e.key) \in Nat
    BY <2>5, <2>6 DEF Map!Hash, hashkey, Identity
  <2>13. p = IF Map!Exact(kd, acc, e.key) = {} THEN 0 ELSE CHOOSE i \in Map!Exact(kd, acc, e.key) : TRUE
    BY <2>5, <2>10, <2>11, FreshFinds
  <2>14. B[k] = Map!Put(kd, acc, p, e.key, e.value)
    <3>1. Restoring(kd, acc, its[k]) = Map!Put(kd, acc, p, e.key, e.value)
      BY <2>3, <2>13 DEF Restoring
    <3>. QED
      BY <2>2, <3>1
  <2>15. Fresh(kd, B[k])
    BY <2>1, <2>5, <2>10, <2>11, <2>12, <2>14, FreshPut
  <2>. HIDE DEF y
  <2>. QED
    BY <2>2, <2>5, <2>9, <2>14, <2>15
<1>. HIDE DEF P
<1>. DEFINE I == {k \in 0 .. m : ~P(A[k], B[k])}
<1>6. I = {}
  <2>1. 0 \notin I /\ I \in SUBSET (0 .. m)
    BY <1>4
  <2>2. ASSUME NEW k \in 1 .. m, k \in I
        PROVE  k - 1 \in I
    <3>1. k - 1 \in 0 .. m
      BY <1>1
    <3>. QED
      BY <1>5, <2>2, <3>1
  <2>. HIDE DEF I
  <2>. QED
    BY <1>1, <2>1, <2>2, NeverWrong
<1>7. P(A[m], B[m])
  BY <1>1, <1>6
<1>. QED
  BY <1>2, <1>3, <1>7 DEF P

(* Items that are fresh stay as they are when they are stored anew.        *)
LEMMA FreshRestored ==
  ASSUME NEW kd, NEW q \in Seq(AnItem), Fresh(kd, q)
  PROVE  Map!Restored(kd, q) = q
<1>. DEFINE m == Len(q)
<1>1. m \in Nat /\ DOMAIN q = 1 .. m /\ \A k \in 1 .. m : q[k] \in AnItem
  BY LenProperties, ElementOfSeq
<1>2. /\ FirstOf(q, 0) = <<>> /\ FirstOf(q, m) = q
      /\ \A k \in 1 .. m : FirstOf(q, k) = Append(FirstOf(q, k - 1), q[k])
  BY FirstGrows
<1>. HIDE DEF m
<1>3. PICK B : Passes(B, "restore", kd, q, <<>>, m) /\ Map!Restored(kd, q) = B[m]
  BY <1>1, RestoredPasses
<1>4. ASSUME NEW k \in 1 .. m, B[k - 1] = FirstOf(q, k - 1)
      PROVE  B[k] = FirstOf(q, k)
  <2>. DEFINE acc == FirstOf(q, k - 1)
              item == q[k]
  <2>1. B[k] = Restoring(kd, acc, item)
    BY <1>3, <1>4 DEF Passes, Round
  <2>2. Map!Exact(kd, acc, item.key) = {}
    <3>. SUFFICES ASSUME NEW i \in Map!Exact(kd, acc, item.key) PROVE FALSE
      OBVIOUS
    <3>1. i \in 1 .. k - 1 /\ acc[i] = q[i] /\ Map!Same(kd, q[i].key, item.key)
      BY DEF Map!Exact, FirstOf
    <3>2. i \in 1 .. m /\ i # k
      BY <1>1, <3>1
    <3>. QED
      BY <1>1, <3>1, <3>2 DEF Fresh
  <2>3. item = [key |-> item.key, value |-> item.value, hash |-> Map!Hash(kd, item.key)]
    <3>1. item \in AnItem /\ item.hash = Map!Hash(kd, item.key)
      BY <1>1 DEF Fresh
    <3>. HIDE DEF item
    <3>. QED
      BY <3>1 DEF AnItem
  <2>. HIDE DEF acc, item
  <2>4. Restoring(kd, acc, item) = Append(acc, item)
    BY <2>2, <2>3 DEF Restoring, Map!Put
  <2>. QED
    BY <1>2, <2>1, <2>4 DEF acc, item
<1>. DEFINE I == {k \in 0 .. m : B[k] # FirstOf(q, k)}
<1>5. I = {}
  <2>1. 0 \notin I /\ I \in SUBSET (0 .. m)
    BY <1>2, <1>3 DEF Passes
  <2>2. ASSUME NEW k \in 1 .. m, k \in I
        PROVE  k - 1 \in I
    <3>1. k - 1 \in 0 .. m
      BY <1>1
    <3>. QED
      BY <1>4, <2>2, <3>1
  <2>. HIDE DEF I
  <2>. QED
    BY <1>1, <2>1, <2>2, NeverWrong
<1>. QED
  BY <1>1, <1>2, <1>3, <1>5

-----------------------------------------------------------------------------
DictInv == (\E s : Fits(dict, s)) /\ content \in [Keys -> DOMAIN HashOf]

LEMMA ItemsAre ==
  ASSUME NEW s, Fits(dict, s)
  PROVE  Slots = s /\ Items = ItemsOf(dict, s)
<1>1. Slots = s
  BY WalkIsChain DEF Fits, Slots
<1>. QED
  BY <1>1 DEF Items, ItemsOf, Item, ItemOf

(* A search that calls no eql?.                                            *)
LEMMA PlainSearch ==
  ASSUME content \in [Keys -> DOMAIN HashOf], NEW d, NEW s, Fits(d, s), NEW key \in Keys
  PROVE  \E p : /\ p \in Map!Finds(d.kind, ItemsOf(d, s), key)
                /\ contains(d, key) <=> p # 0
                /\ p # 0 => p \in 1 .. Len(s) /\ get(d, key, Null) = ItemsOf(d, s)[p].value
<1>. DEFINE r == At(d, key, <<>>)
            its == ItemsOf(d, s)
<1>1. FitCalls(d, <<>>) /\ hashkey(d.kind, key) \in Nat
  <2>1. d.kind \in {Eql, Identity}
    BY DictFacts DEF Fits
  <2>. QED
    BY <2>1, HashkeyNatural, FitNoCalls
<1>2. PICK t, p : Search(d, key, <<>>, t, p)
  BY <1>1, SearchFits
<1>3. r.dict = d /\ t = s
  BY <1>1, <1>2, PlainStays
<1>4. /\ p \in Map!Finds(d.kind, its, key)
      /\ IF r.found THEN p \in 1 .. Len(s) /\ r.slot = s[p] ELSE p = 0
  BY <1>2, <1>3 DEF Search
<1>5. contains(d, key) = r.found /\ get(d, key, Null) = IF r.found THEN d.entries[r.slot].value ELSE Null
  BY DEF contains, get
<1>6. \A k \in 1 .. Len(s) : its[k].value = d.entries[s[k]].value
  BY ItemsTyped DEF Fits
<1>7. \A k \in 1 .. Len(s) : k # 0
  OBVIOUS
<1>. HIDE DEF r, its
<1>8. contains(d, key) <=> p # 0
  BY <1>4, <1>5, <1>7
<1>9. p # 0 => p \in 1 .. Len(s) /\ get(d, key, Null) = its[p].value
  BY <1>4, <1>5, <1>6
<1>. QED
  BY <1>4, <1>8, <1>9 DEF its

(* The slots the other way round.                                          *)
LEMMA Reversed ==
  ASSUME NEW S, NEW q \in Seq(S)
  PROVE  /\ Reverse(q) \in Seq(S) /\ Len(Reverse(q)) = Len(q) /\ DOMAIN Reverse(q) = 1 .. Len(q)
         /\ \A n \in 1 .. Len(q) : Len(q) + 1 - n \in 1 .. Len(q) /\ Reverse(q)[n] = q[Len(q) + 1 - n]
<1>. DEFINE m == Len(q)
<1>1. m \in Nat /\ \A n \in 1 .. m : q[n] \in S
  BY LenProperties, ElementOfSeq
<1>2. Reverse(q) = [n \in 1 .. m |-> q[(m - n) + 1]]
  BY DEF Reverse
<1>. HIDE DEF m
<1>3. ASSUME NEW n \in 1 .. m
      PROVE  m + 1 - n \in 1 .. m /\ m + 1 - n = (m - n) + 1
  BY <1>1
<1>4. [n \in 1 .. m |-> q[(m - n) + 1]] \in [1 .. m -> S]
  BY <1>1, <1>3
<1>5. Reverse(q) \in Seq(S) /\ Len(Reverse(q)) = m /\ DOMAIN Reverse(q) = 1 .. m
  BY <1>1, <1>2, <1>4
<1>6. \A n \in 1 .. m : Reverse(q)[n] = q[m + 1 - n]
  BY <1>2, <1>3
<1>. QED
  BY <1>3, <1>5, <1>6 DEF m

LEMMA AgreeHash == DictInv => SearchesAgree
<1>. SUFFICES ASSUME DictInv PROVE SearchesAgree
  OBVIOUS
<1>1. PICK s : Fits(dict, s)
  BY DEF DictInv
<1>2. Slots = s /\ Items = ItemsOf(dict, s)
  BY <1>1, ItemsAre
<1>. DEFINE its == ItemsOf(dict, s)
            len == Len(s)
            kd == dict.kind
<1>3. /\ its \in Seq(AnItem) /\ Len(its) = len /\ DOMAIN its = 1 .. len
      /\ \A n \in 1 .. len : /\ its[n].key = dict.entries[s[n]].key
                             /\ its[n].value = dict.entries[s[n]].value
      /\ s \in Seq(Nat) /\ len \in Nat /\ DOMAIN s = 1 .. len
      /\ \A n \in 1 .. len : s[n] \in DOMAIN dict.entries /\ dict.entries[s[n]].valid
      /\ dict.num_items = len /\ kd \in {Eql, Identity}
  BY <1>1, ItemsTyped, ChainFacts, DictFacts DEF Fits
<1>4. content \in [Keys -> DOMAIN HashOf]
  BY DEF DictInv
<1>5. ASSUME NEW k \in Keys
      PROVE  LET found == Map!Exact(kd, its, k)
                 stale == Map!Stale(kd, its, k)
             IN  /\ found # {} => contains(dict, k)
                 /\ contains(dict, k) =>
                      \E i \in found \cup stale : get(dict, k, Null) = its[i].value
  <2>. DEFINE found == Map!Exact(kd, its, k)
              stale == Map!Stale(kd, its, k)
  <2>1. PICK p : /\ p \in Map!Finds(kd, its, k)
                 /\ contains(dict, k) <=> p # 0
                 /\ p # 0 => p \in 1 .. len /\ get(dict, k, Null) = its[p].value
    BY <1>1, <1>4, PlainSearch
  <2>2. p \in found \cup stale \cup (IF found = {} THEN {0} ELSE {})
    BY <2>1, Zenon DEF Map!Finds
  <2>3. 0 \notin found \cup stale
    BY <1>3 DEF Map!Exact, Map!Stale
  <2>. HIDE DEF found, stale, its, len, kd
  <2>. QED
    BY <2>1, <2>2, <2>3 DEF found, stale
<1>6. ASSUME Map!Restored(kd, its) = its
      PROVE  Equal(dict, Merge(newdict(kd, INIT_SIZE), Reverse(s)))
  <2>. DEFINE d == newdict(kd, INIT_SIZE)
              q == Reverse(s)
              e == Merge(d, q)
              back == ItemsOf(dict, q)
  <2>1. /\ Fits(d, <<>>) /\ ItemsOf(d, <<>>) = <<>> /\ d.kind = kd
    BY <1>3, DictAssumption, NewdictFits DEF PowerOfTwo, newdict
  <2>2. \A k \in Keys : hashkey(kd, k) \in Nat
    BY <1>4, HashkeyNatural
  <2>3. IsDict(dict)
    BY <1>1 DEF Fits
  <2>4. /\ q \in Seq(Nat) /\ Len(q) = len /\ DOMAIN q = 1 .. len
        /\ \A n \in 1 .. len : len + 1 - n \in 1 .. len /\ q[n] = s[len + 1 - n]
    <3>1. s \in Seq(Nat)
      BY <1>3
    <3>2. /\ Reverse(s) \in Seq(Nat) /\ Len(Reverse(s)) = Len(s) /\ DOMAIN Reverse(s) = 1 .. Len(s)
          /\ \A n \in 1 .. Len(s) : Len(s) + 1 - n \in 1 .. Len(s) /\ Reverse(s)[n] = s[Len(s) + 1 - n]
      BY <3>1, Reversed
    <3>. QED
      BY <3>2
  <2>. HIDE DEF d, q, kd
  <2>5. Fresh(kd, its)
    BY <1>3, <1>6, <2>1, <2>2, <2>3, MergeFits
  <2>. HIDE DEF len
  <2>6. \A n \in 1 .. len : q[n] \in DOMAIN dict.entries /\ dict.entries[q[n]].valid
    BY <1>3, <2>4
  <2>7. PICK u : Fits(e, u) /\ e.kind = kd /\ ItemsOf(e, u) = Map!Restored(kd, back)
    BY <2>1, <2>2, <2>3, <2>4, <2>6, MergeFits
  <2>8. DOMAIN back = 1 .. len /\ \A n \in 1 .. len : back[n] = its[len + 1 - n]
    BY <1>3, <2>4 DEF ItemsOf
  <2>. HIDE DEF its, back
  <2>9. back \in Seq(AnItem) /\ Len(back) = len
    <3>1. \A n \in 1 .. len : its[n] \in AnItem
      BY <1>3, ElementOfSeq
    <3>2. back = [n \in 1 .. len |-> back[n]]
      BY <2>8 DEF back, ItemsOf
    <3>3. \A n \in 1 .. len : back[n] \in AnItem
      BY <2>4, <2>8, <3>1
    <3>4. back \in [1 .. len -> AnItem]
      BY <3>2, <3>3
    <3>. QED
      BY <1>3, <3>4
  <2>10. Fresh(kd, back)
    <3>1. ASSUME NEW n \in 1 .. len PROVE back[n].hash = Map!Hash(kd, back[n].key)
      <4>1. len + 1 - n \in 1 .. len /\ back[n] = its[len + 1 - n]
        BY <2>4, <2>8
      <4>2. \A j \in 1 .. len : its[j].hash = Map!Hash(kd, its[j].key)
        BY <1>3, <2>5 DEF Fresh
      <4>. QED
        BY <4>1, <4>2
    <3>2. ASSUME NEW i \in 1 .. len, NEW j \in 1 .. len, Map!Same(kd, back[i].key, back[j].key)
          PROVE  i = j
      <4>1. len + 1 - i \in 1 .. len /\ len + 1 - j \in 1 .. len
            /\ Map!Same(kd, its[len + 1 - i].key, its[len + 1 - j].key)
        BY <2>4, <2>8, <3>2
      <4>2. len + 1 - i = len + 1 - j
        BY <1>3, <2>5, <4>1 DEF Fresh
      <4>. QED
        BY <1>3, <4>2
    <3>. QED
      BY <2>8, <3>1, <3>2 DEF Fresh
  <2>11. ItemsOf(e, u) = back
    BY <2>7, <2>9, <2>10, FreshRestored
  <2>. HIDE DEF e
  <2>12. e.num_items = len
    <3>1. Len(ItemsOf(e, u)) = Len(u) /\ e.num_items = Len(u)
      BY <2>7, ItemsTyped, ChainFacts DEF Fits
    <3>. QED
      BY <2>9, <2>11, <3>1
  <2>13. ASSUME NEW n \in 1 .. len
         PROVE  contains(e, its[n].key) /\ get(e, its[n].key, Null) = its[n].value
    <3>. DEFINE k == its[n].key
                m == len + 1 - n
    <3>1. m \in 1 .. len /\ back[m] = its[n]
      <4>1. m \in 1 .. len /\ len + 1 - m = n
        BY <1>3
      <4>. QED
        BY <2>8, <4>1
    <3>2. k \in Keys
      <4>1. its[n] \in AnItem
        BY <1>3, ElementOfSeq
      <4>. QED
        BY <4>1 DEF AnItem
    <3>. HIDE DEF k, m
    <3>3. PICK p : /\ p \in Map!Finds(kd, back, k)
                   /\ contains(e, k) <=> p # 0
                   /\ p # 0 => p \in 1 .. Len(u) /\ get(e, k, Null) = back[p].value
      BY <1>4, <2>7, <2>11, <3>2, PlainSearch
    <3>4. Map!Same(kd, back[m].key, k)
      BY <3>1, SameAre DEF k
    <3>5. m = p
      BY <1>3, <2>8, <2>10, <3>1, <3>3, <3>4, FreshFinds
    <3>. QED
      BY <3>1, <3>3, <3>5 DEF k
  <2>14. /\ DOMAIN keys(dict) = 1 .. len
         /\ \A n \in 1 .. len : keys(dict)[n] = its[n].key /\ values(dict)[n] = its[n].value
    BY <1>2, <1>3 DEF keys, values, Slots
  <2>. QED
    BY <1>3, <2>12, <2>13, <2>14 DEF Equal, e, d, q
<1>. HIDE DEF its, kd
<1>. QED
  BY <1>2, <1>5, <1>6 DEF SearchesAgree, its, kd

-----------------------------------------------------------------------------
(* Iterations.  The iterator i is at some place of the slots s, unless it  *)
(* has been disturbed.                                                     *)
IsIter(i) ==
  /\ i \in [on : BOOLEAN, detached : BOOLEAN, own : {i.own}, index : {i.index}, disturbed : BOOLEAN]
  /\ ~i.on => i = NoIterator
Walking(i) == i.on /\ ~i.disturbed
(* It has handed out the first b.                                          *)
Passed(s, i, b) == b \in 0 .. Len(s) /\ i.index = Nth(s, b + 1)
ItFits(s, i) == IsIter(i) /\ (Walking(i) => \E b : Passed(s, i, b))

(* What the program sees of the iterator i over d.                         *)
Showing(d, i) ==
  LET left == From(d, i.index)
  IN  [on |-> i.on, disturbed |-> i.disturbed, detached |-> i.detached /\ ~i.disturbed,
       left |-> IF i.disturbed THEN <<>> ELSE [n \in DOMAIN left |-> d.entries[left[n]].key]]
(* The keys that are left of some items after the first b.                 *)
Left(its, b) == [j \in 1 .. Len(its) - b |-> its[b + j].key]
Lost == [on |-> TRUE, left |-> <<>>, detached |-> FALSE, disturbed |-> TRUE]
Going(detached, left) == [on |-> TRUE, left |-> left, detached |-> detached, disturbed |-> FALSE]

LEMMA LeftTyped ==
  ASSUME NEW its \in Seq(AnItem), NEW b \in 0 .. Len(its)
  PROVE  /\ Left(its, b) \in Seq(Keys) /\ Len(Left(its, b)) = Len(its) - b
         /\ \A j \in 1 .. Len(its) - b : Left(its, b)[j] = its[b + j].key /\ b + j \in 1 .. Len(its)
<1>. DEFINE len == Len(its)
            n == len - b
<1>1. len \in Nat /\ b \in Nat /\ n \in Nat /\ \A j \in 1 .. len : its[j] \in AnItem
  BY LenProperties, ElementOfSeq
<1>2. \A j \in 1 .. n : b + j \in 1 .. len
  BY <1>1
<1>3. \A j \in 1 .. len : its[j].key \in Keys
  BY <1>1 DEF AnItem
<1>4. Left(its, b) = [j \in 1 .. n |-> its[b + j].key]
  BY DEF Left
<1>. HIDE DEF n, len
<1>5. Left(its, b) \in [1 .. n -> Keys]
  BY <1>2, <1>3, <1>4
<1>6. Left(its, b) \in Seq(Keys) /\ Len(Left(its, b)) = n
  BY <1>1, <1>5
<1>. QED
  BY <1>2, <1>4, <1>6 DEF n, len

LEMMA ShowingIs ==
  ASSUME NEW d, NEW s, Fits(d, s), NEW i, ItFits(s, i)
  PROVE  /\ ~i.on => Showing(d, i) = Map!NoIteration
         /\ i.on /\ i.disturbed => Showing(d, i) = Lost
         /\ \A b : Walking(i) /\ Passed(s, i, b) =>
              /\ Showing(d, i) = Going(i.detached, Left(ItemsOf(d, s), b))
              /\ From(d, i.index) = After(s, b)
<1>. DEFINE len == Len(s)
            its == ItemsOf(d, s)
<1>1. IsDict(d) /\ Chain(d, s)
  BY DEF Fits
<1>2. /\ s \in Seq(Nat) /\ len \in Nat /\ len \in 0 .. len /\ Nth(s, len + 1) = -1
  <2>1. s \in Seq(Nat) /\ len \in Nat /\ DOMAIN s = 1 .. len
    BY <1>1, ChainFacts
  <2>2. len + 1 \notin 1 .. len /\ len \in 0 .. len
    BY <2>1
  <2>. QED
    BY <2>1, <2>2 DEF Nth
<1>3. its \in Seq(AnItem) /\ Len(its) = len /\ \A n \in 1 .. len : its[n].key = d.entries[s[n]].key
  BY <1>1, ItemsTyped
<1>4. ASSUME ~i.on
      PROVE  Showing(d, i) = Map!NoIteration
  <2>1. i = NoIterator
    BY <1>4 DEF ItFits, IsIter
  <2>2. /\ i.on = FALSE /\ i.detached = FALSE /\ i.disturbed = FALSE /\ i.index = -1
    BY <2>1 DEF NoIterator
  <2>3. From(d, i.index) = After(s, len)
    BY <1>1, <1>2, <2>2, WalkFrom
  <2>4. DOMAIN After(s, len) = {}
    BY <1>2 DEF After
  <2>5. [n \in DOMAIN From(d, i.index) |-> d.entries[From(d, i.index)[n]].key] = <<>>
    BY <2>3, <2>4
  <2>. QED
    BY <2>2, <2>5 DEF Showing, Map!NoIteration
<1>5. ASSUME i.on, i.disturbed
      PROVE  Showing(d, i) = Lost
  <2>1. i.on = TRUE /\ i.disturbed = TRUE
    BY <1>5 DEF ItFits, IsIter
  <2>. QED
    BY <2>1 DEF Showing, Lost
<1>6. ASSUME NEW b, Walking(i), Passed(s, i, b)
      PROVE  /\ Showing(d, i) = Going(i.detached, Left(its, b))
             /\ From(d, i.index) = After(s, b)
  <2>1. b \in 0 .. len /\ i.index = Nth(s, b + 1)
    BY <1>6 DEF Passed
  <2>2. From(d, i.index) = After(s, b)
    BY <1>1, <2>1, WalkFrom
  <2>3. /\ Len(After(s, b)) = len - b /\ After(s, b) \in Seq(Nat)
        /\ \A j \in 1 .. len - b : After(s, b)[j] = s[b + j] /\ b + j \in 1 .. len
    BY <1>2, <2>1, AfterIs
  <2>4. DOMAIN After(s, b) = 1 .. len - b
    BY <2>3
  <2>5. [n \in DOMAIN After(s, b) |-> d.entries[After(s, b)[n]].key] = Left(its, b)
    <3>1. \A j \in 1 .. len - b : d.entries[After(s, b)[j]].key = its[b + j].key
      BY <1>3, <2>3
    <3>2. Left(its, b) = [j \in 1 .. len - b |-> its[b + j].key]
      BY <1>3 DEF Left
    <3>. HIDE DEF its, len
    <3>. QED
      BY <2>4, <3>1, <3>2
  <2>6. i.on = TRUE /\ i.disturbed = FALSE /\ (i.detached /\ ~i.disturbed) = i.detached
    BY <1>6 DEF Walking, ItFits, IsIter
  <2>. HIDE DEF its
  <2>. QED
    BY <2>2, <2>5, <2>6 DEF Showing, Going
<1>. QED
  BY <1>4, <1>5, <1>6

LEMMA SameRemoveAt ==
  ASSUME NEW q, NEW k
  PROVE  Map!RemoveAt(q, k) = RemoveAt(q, k)
BY DEF Map!RemoveAt, RemoveAt

(* What is left when one that was handed out is deleted.                   *)
LEMMA LeftRemoved ==
  ASSUME NEW its \in Seq(AnItem), NEW b \in 0 .. Len(its), NEW k \in 1 .. Len(its), k <= b
  PROVE  b - 1 \in 0 .. Len(its) - 1 /\ Left(RemoveAt(its, k), b - 1) = Left(its, b)
<1>. DEFINE len == Len(its)
            t == RemoveAt(its, k)
            n == len - b
<1>1. len \in Nat /\ DOMAIN its = 1 .. len /\ b \in Nat /\ k \in 1 .. len
  BY LenProperties
<1>2. t \in Seq(AnItem) /\ Len(t) = len - 1 /\ \A m \in 1 .. len - 1 : t[m] = IF m < k THEN its[m] ELSE its[m + 1]
  BY <1>1, RemovedAt
<1>. HIDE DEF t, len
<1>3. b - 1 \in 0 .. len - 1 /\ (len - 1) - (b - 1) = n
  BY <1>1 DEF len
<1>4. ASSUME NEW j \in 1 .. n
      PROVE  t[(b - 1) + j] = its[b + j]
  <2>1. /\ (b - 1) + j \in 1 .. len - 1 /\ ~((b - 1) + j < k) /\ ((b - 1) + j) + 1 = b + j
    BY <1>1, <1>3
  <2>. QED
    BY <1>2, <2>1
<1>5. Left(t, b - 1) = [j \in 1 .. n |-> t[(b - 1) + j].key]
  BY <1>2, <1>3 DEF Left
<1>6. Left(its, b) = [j \in 1 .. n |-> its[b + j].key]
  BY DEF Left, len
<1>. HIDE DEF n
<1>7. Left(t, b - 1) = Left(its, b)
  BY <1>4, <1>5, <1>6
<1>. QED
  BY <1>3, <1>7 DEF t, len

LEMMA LeftPut ==
  ASSUME NEW its \in Seq(AnItem), NEW b \in 0 .. Len(its), NEW p \in 1 .. Len(its), NEW value
  PROVE  Left([its EXCEPT ![p].value = value], b) = Left(its, b)
<1>. DEFINE len == Len(its)
            new == [its EXCEPT ![p].value = value]
            n == len - b
<1>1. len \in Nat /\ DOMAIN its = 1 .. len /\ its \in [1 .. len -> AnItem]
      /\ \A j \in 1 .. n : b + j \in 1 .. len
  BY LenProperties, LeftTyped
<1>. HIDE DEF len
<1>2. ASSUME NEW j \in 1 .. len
      PROVE  new[j].key = its[j].key
  <2>1. its[j] \in AnItem
    BY <1>1
  <2>2. [its[j] EXCEPT !.value = value].key = its[j].key
    BY <2>1 DEF AnItem
  <2>. QED
    BY <1>1, <2>2
<1>3. Len(new) = len
  <2>1. DOMAIN new = 1 .. len
    BY <1>1
  <2>. QED
    BY <1>1, <2>1
<1>. HIDE DEF new
<1>4. Left(new, b) = [j \in 1 .. n |-> new[b + j].key] /\ Left(its, b) = [j \in 1 .. n |-> its[b + j].key]
  BY <1>3 DEF Left, len
<1>. HIDE DEF n
<1>5. Left(new, b) = Left(its, b)
  BY <1>1, <1>2, <1>4
<1>. QED
  BY <1>5 DEF new

(* The slots that are left.                                                *)
LEMMA AfterRemoved ==
  ASSUME NEW s \in Seq(Nat), NEW b \in 0 .. Len(s), NEW k \in 1 .. Len(s), k <= b
  PROVE  /\ Nth(RemoveAt(s, k), (b - 1) + 1) = Nth(s, b + 1)
         /\ After(RemoveAt(s, k), b - 1) = After(s, b)
<1>. DEFINE len == Len(s)
            t == RemoveAt(s, k)
            n == len - b
<1>1. len \in Nat /\ DOMAIN s = 1 .. len /\ b \in Nat /\ k \in 1 .. len
  BY LenProperties
<1>2. /\ t \in Seq(Nat) /\ Len(t) = len - 1 /\ \A m \in 1 .. len - 1 : t[m] = IF m < k THEN s[m] ELSE s[m + 1]
  BY <1>1, RemovedAt
<1>. HIDE DEF t, len
<1>3. DOMAIN t = 1 .. len - 1
  <2>1. DOMAIN t = 1 .. Len(t)
    BY <1>2, LenProperties
  <2>. QED
    BY <1>2, <2>1
<1>4. (len - 1) - (b - 1) = n /\ (b - 1) + 1 = b /\ (b \in 1 .. len - 1 <=> b + 1 \in 1 .. len) /\ ~(b < k)
  BY <1>1 DEF len
<1>5. Nth(t, b) = Nth(s, b + 1)
  BY <1>1, <1>2, <1>3, <1>4 DEF Nth
<1>6. ASSUME NEW j \in 1 .. n
      PROVE  t[(b - 1) + j] = s[b + j]
  <2>1. /\ (b - 1) + j \in 1 .. len - 1 /\ ~((b - 1) + j < k) /\ ((b - 1) + j) + 1 = b + j
    BY <1>1 DEF len
  <2>. QED
    BY <1>2, <2>1
<1>7. After(t, b - 1) = [j \in 1 .. n |-> t[(b - 1) + j]] /\ After(s, b) = [j \in 1 .. n |-> s[b + j]]
  BY <1>2, <1>4 DEF After, len
<1>. HIDE DEF n
<1>8. After(t, b - 1) = After(s, b)
  BY <1>6, <1>7
<1>. QED
  BY <1>4, <1>5, <1>8 DEF t

(* What becomes of an iterator when a key is added to d or slots are       *)
(* deleted.                                                                *)
Slotted(d, i) == IF i.on /\ ~i.detached /\ ~i.disturbed THEN ToSet(From(d, i.index)) ELSE {}
Hit(d, i, added, slots) == added \/ slots \cap Slotted(d, i) # {}
Touched(d, i, added, slots) ==
  IF i.on /\ ~i.detached /\ Hit(d, i, added, slots)
  THEN [i EXCEPT !.disturbed = TRUE] ELSE i
(* After deletions alone.                                                 *)
Less(d, i, slots) == Touched(d, i, FALSE, slots)
NowIs(d, s, i) == [items |-> ItemsOf(d, s), iter |-> Showing(d, i)]

LEMMA DisturbIs ==
  ASSUME NEW added, NEW slots, NEW d, d = dict
  PROVE  Disturb(added, slots) <=> it' = Touched(d, it, added, slots)
BY DEF Disturb, Touched, Hit, Slotted, Unreached

(* Two iterations with the same fields.                                    *)
LEMMA SameFields ==
  ASSUME NEW P, NEW a \in [on : BOOLEAN, left : P, detached : BOOLEAN, disturbed : BOOLEAN],
         NEW b \in [on : BOOLEAN, left : P, detached : BOOLEAN, disturbed : BOOLEAN],
         a.on <=> b.on, a.left = b.left, a.detached <=> b.detached, a.disturbed <=> b.disturbed
  PROVE  a = b
OBVIOUS

LEMMA LostIs == [Map!NoIteration EXCEPT !.on = TRUE, !.disturbed = TRUE] = Lost
<1>. DEFINE T == [on : BOOLEAN, left : {<<>>}, detached : BOOLEAN, disturbed : BOOLEAN]
            y == [Map!NoIteration EXCEPT !.on = TRUE, !.disturbed = TRUE]
<1>1. Map!NoIteration \in T /\ Map!NoIteration.left = <<>> /\ ~Map!NoIteration.detached
  BY DEF Map!NoIteration
<1>2. Lost \in T /\ Lost.on /\ Lost.disturbed /\ Lost.left = <<>> /\ ~Lost.detached
  BY DEF Lost
<1>3. \A x \in T : LET z == [x EXCEPT !.on = TRUE, !.disturbed = TRUE]
                   IN  /\ z \in T /\ z.on /\ z.disturbed /\ z.left = x.left
                       /\ z.detached = x.detached
  OBVIOUS
<1>4. y \in T /\ y.on /\ y.disturbed /\ y.left = <<>> /\ ~y.detached
  BY <1>1, <1>3
<1>. HIDE DEF y
<1>5. y = Lost
  BY <1>2, <1>4, SameFields
<1>. QED
  BY <1>5 DEF y

LEMMA Disturbs ==
  ASSUME NEW i, IsIter(i), ~i.detached, NEW d, NEW added \in BOOLEAN, NEW slots
  PROVE  LET j == Touched(d, i, added, slots)
         IN  /\ IsIter(j) /\ ~j.detached /\ j.index = i.index /\ j.on = i.on
             /\ ~Walking(i) => j = i
             /\ Walking(i) => /\ Slotted(d, i) = ToSet(From(d, i.index))
                              /\ IF Hit(d, i, added, slots) THEN j.disturbed /\ ~Walking(j) /\ j # i
                                 ELSE j = i
<1>. DEFINE j == Touched(d, i, added, slots)
            hit == Hit(d, i, added, slots)
            k == [i EXCEPT !.disturbed = TRUE]
<1>1. j = IF i.on /\ hit THEN k ELSE i
  BY DEF Touched
<1>2. Walking(i) => Slotted(d, i) = ToSet(From(d, i.index))
  BY DEF Walking, Slotted
<1>. DEFINE T == [on : BOOLEAN, detached : BOOLEAN, own : {i.own}, index : {i.index},
                  disturbed : BOOLEAN]
<1>3. i \in T /\ k \in T
  BY DEF IsIter
<1>4. i.on /\ i.disturbed => k = i
  BY <1>3
<1>40. k.detached = i.detached /\ k.index = i.index /\ k.own = i.own /\ k.on = i.on /\ k.disturbed = TRUE
  BY <1>3
<1>. HIDE DEF k
<1>5. i.on => IsIter(k) /\ ~k.detached /\ k.index = i.index /\ k.on = i.on /\ k.disturbed = TRUE
  BY <1>3, <1>40 DEF IsIter
<1>. HIDE DEF j, k, hit
<1>7. /\ IsIter(j) /\ ~j.detached /\ j.index = i.index /\ j.on = i.on
      /\ ~Walking(i) => j = i
  BY <1>1, <1>4, <1>5 DEF Walking
<1>8. ASSUME Walking(i)
      PROVE  IF hit THEN j.disturbed /\ ~Walking(j) /\ j # i ELSE j = i
  BY <1>1, <1>5, <1>8 DEF Walking
<1>. QED
  BY <1>2, <1>7, <1>8 DEF j, hit

LEMMA MapDisturbs ==
  /\ \A seen : Map!Disturbing(Map!NoIteration, seen) = Map!NoIteration /\ Map!Disturbing(Lost, seen) = Lost
  /\ \A left, seen : Map!Disturbing(Going(FALSE, left), seen) = IF seen THEN Going(FALSE, left) ELSE Lost
<1>2. /\ ~Map!NoIteration.on /\ Lost.on /\ ~Lost.detached
      /\ \A left : Going(FALSE, left).on /\ ~Going(FALSE, left).detached
  BY DEF Map!NoIteration, Lost, Going
<1>. QED
  BY <1>2, LostIs DEF Map!Disturbing

LEMMA DelIter ==
  ASSUME NEW d, NEW s, Fits(d, s), NEW k \in 1 .. Len(s), NEW i, ItFits(s, i), ~i.detached
  PROVE  LET e == Del(d, s[k])
             t == RemoveAt(s, k)
             j == Less(d, i, {s[k]})
         IN  /\ ItFits(t, j) /\ ~j.detached
             /\ Map!Deleted(NowIs(d, s, i), k) = NowIs(e, t, j)
             /\ j = i => Slotted(e, j) = Slotted(d, i)
<1>. DEFINE e == Del(d, s[k])
            t == RemoveAt(s, k)
            j == Less(d, i, {s[k]})
            its == ItemsOf(d, s)
            new == ItemsOf(e, t)
            len == Len(s)
            show == Showing(d, i)
            seen == Map!Reached(NowIs(d, s, i), k)
<1>1. /\ Fits(e, t) /\ new = RemoveAt(its, k) /\ t \in Seq(Nat) /\ Len(t) = len - 1
  BY DelFits
<1>2. /\ IsIter(i) /\ IsIter(j) /\ ~j.detached /\ j.index = i.index /\ j.on = i.on
      /\ ~Walking(i) => j = i
      /\ Walking(i) => /\ Slotted(d, i) = ToSet(From(d, i.index))
                       /\ IF {s[k]} \cap Slotted(d, i) # {} THEN j.disturbed /\ ~Walking(j) /\ j # i ELSE j = i
  <2>1. IsIter(i)
    BY DEF ItFits
  <2>2. Hit(d, i, FALSE, {s[k]}) <=> {s[k]} \cap Slotted(d, i) # {}
    BY DEF Hit
  <2>3. /\ IsIter(j) /\ ~j.detached /\ j.index = i.index /\ j.on = i.on
        /\ ~Walking(i) => j = i
        /\ Walking(i) => /\ Slotted(d, i) = ToSet(From(d, i.index))
                         /\ IF Hit(d, i, FALSE, {s[k]}) THEN j.disturbed /\ ~Walking(j) /\ j # i ELSE j = i
    BY <2>1, Disturbs DEF Less
  <2>. HIDE DEF j
  <2>. QED
    BY <2>1, <2>2, <2>3
<1>3. Map!Deleted(NowIs(d, s, i), k) = [items |-> new, iter |-> Map!Disturbing(show, seen)]
  BY <1>1, SameRemoveAt DEF Map!Deleted, NowIs
<1>4. its \in Seq(AnItem) /\ Len(its) = len /\ s \in Seq(Nat) /\ len \in Nat
  BY ItemsTyped, ChainFacts DEF Fits
<1>5. seen <=> k <= len - Len(show.left)
  BY <1>4 DEF Map!Reached, NowIs
<1>6. \A m, n \in 1 .. len : s[m] = s[n] => m = n
  <2>1. DOMAIN s = 1 .. len
    BY <1>4, LenProperties
  <2>2. \A m, n \in DOMAIN s : s[m] = s[n] => m = n
    BY DEF Fits, Chain
  <2>. QED
    BY <2>1, <2>2
<1>. HIDE DEF e, t, j, its, new, show, seen
<1>7. CASE ~Walking(i)
  <2>1. j = i /\ ItFits(t, j)
    BY <1>2, <1>7 DEF ItFits
  <2>2. Showing(e, j) = show /\ Map!Disturbing(show, seen) = show
    <3>1. ~i.on \/ (i.on /\ i.disturbed)
      BY <1>2, <1>7 DEF Walking, IsIter
    <3>2. /\ ~i.on => show = Map!NoIteration /\ Showing(e, i) = Map!NoIteration
          /\ i.on /\ i.disturbed => show = Lost /\ Showing(e, i) = Lost
      BY <1>1, <2>1, ShowingIs DEF show
    <3>. QED
      BY <2>1, <3>1, <3>2, MapDisturbs
  <2>3. Slotted(e, j) = Slotted(d, i)
    BY <1>7, <2>1 DEF Slotted, Walking
  <2>. QED
    BY <1>2, <1>3, <2>1, <2>2, <2>3 DEF NowIs, e, t, j, new
<1>8. CASE Walking(i)
  <2>1. PICK b : Passed(s, i, b)
    BY <1>8 DEF ItFits
  <2>2. b \in 0 .. len /\ i.index = Nth(s, b + 1)
    BY <2>1 DEF Passed
  <2>3. show = Going(FALSE, Left(its, b)) /\ From(d, i.index) = After(s, b)
    <3>1. i.detached = FALSE
      BY <1>2 DEF IsIter
    <3>. QED
      BY <1>8, <2>1, <3>1, ShowingIs DEF show, its
  <2>4. Len(show.left) = len - b
    BY <1>4, <2>2, <2>3, LeftTyped DEF Going
  <2>5. seen <=> k <= b
    <3>. HIDE DEF len
    <3>1. k \in Nat /\ b \in Nat /\ len - (len - b) = b
      BY <1>4, <2>2
    <3>. QED
      BY <1>5, <2>4, <3>1
  <2>6. s[k] \in Slotted(d, i) <=> ~(k <= b)
    <3>1. /\ Len(After(s, b)) = len - b /\ After(s, b) \in Seq(Nat)
          /\ \A n \in 1 .. len - b : After(s, b)[n] = s[b + n] /\ b + n \in 1 .. len
      BY <1>4, <2>2, AfterIs
    <3>2. Slotted(d, i) = {s[b + n] : n \in 1 .. len - b}
      BY <1>2, <1>8, <2>3, <3>1 DEF ToSet
    <3>3. ASSUME NEW n \in 1 .. len - b, s[k] = s[b + n]
          PROVE  ~(k <= b)
      <4>1. k = b + n
        BY <1>6, <3>1, <3>3
      <4>. QED
        BY <1>4, <2>2, <4>1
    <3>4. ASSUME ~(k <= b)
          PROVE  k - b \in 1 .. len - b /\ b + (k - b) = k
      BY <1>4, <2>2, <3>4
    <3>. HIDE DEF len
    <3>. QED
      BY <3>2, <3>3, <3>4
  <2>7. CASE ~(k <= b)
    <3>1. j.on /\ j.disturbed /\ ItFits(t, j) /\ j # i
      BY <1>2, <1>8, <2>6, <2>7 DEF ItFits, Walking
    <3>2. Showing(e, j) = Lost
      BY <1>1, <3>1, ShowingIs
    <3>3. Map!Disturbing(show, seen) = Lost
      BY <2>3, <2>5, <2>7, MapDisturbs
    <3>. QED
      BY <1>2, <1>3, <3>1, <3>2, <3>3 DEF NowIs, e, t, j, new
  <2>8. CASE k <= b
    <3>1. j = i
      BY <1>2, <1>8, <2>6, <2>8
    <3>2. /\ b - 1 \in 0 .. len - 1 /\ Left(new, b - 1) = Left(its, b)
          /\ Nth(t, (b - 1) + 1) = Nth(s, b + 1) /\ After(t, b - 1) = After(s, b)
      <4>1. b \in 0 .. Len(its) /\ k \in 1 .. Len(its)
        BY <1>4, <2>2
      <4>. QED
        BY <1>1, <1>4, <2>2, <2>8, <4>1, LeftRemoved, AfterRemoved DEF t
    <3>3. Passed(t, j, b - 1) /\ ItFits(t, j)
      BY <1>1, <1>2, <2>2, <3>1, <3>2 DEF Passed, ItFits
    <3>4. Showing(e, j) = Going(FALSE, Left(new, b - 1)) /\ From(e, j.index) = After(t, b - 1)
      <4>1. j.detached = FALSE
        BY <1>2 DEF IsIter
      <4>. QED
        BY <1>1, <1>8, <3>1, <3>3, <4>1, ShowingIs DEF new
    <3>5. Map!Disturbing(show, seen) = Showing(e, j)
      BY <2>3, <2>5, <2>8, <3>2, <3>4, MapDisturbs
    <3>6. Slotted(e, j) = Slotted(d, i)
      BY <1>8, <2>3, <3>1, <3>2, <3>4 DEF Slotted
    <3>. QED
      BY <1>2, <1>3, <3>3, <3>5, <3>6 DEF NowIs, e, t, j, new
  <2>. QED
    BY <2>7, <2>8
<1>. QED
  BY <1>7, <1>8

(* Clearing the hash disturbs the iterator unless nothing is left.         *)
LEMMA ClearIter ==
  ASSUME NEW d, NEW s, Fits(d, s), NEW i, ItFits(s, i), ~i.detached
  PROVE  LET e == clear(d)
             j == Less(d, i, Used(d))
         IN  /\ ItFits(<<>>, j) /\ ~j.detached
             /\ Map!Cleared(NowIs(d, s, i)) = NowIs(e, <<>>, j)
             /\ j = i => Slotted(e, j) = Slotted(d, i)
<1>. DEFINE e == clear(d)
            j == Less(d, i, Used(d))
            its == ItemsOf(d, s)
            len == Len(s)
            show == Showing(d, i)
            seen == Map!Reached(NowIs(d, s, i), len)
<1>1. Fits(e, <<>>) /\ ItemsOf(e, <<>>) = <<>>
  BY ClearFits
<1>2. /\ IsIter(i) /\ IsIter(j) /\ ~j.detached /\ j.index = i.index /\ j.on = i.on
      /\ ~Walking(i) => j = i
      /\ Walking(i) => /\ Slotted(d, i) = ToSet(From(d, i.index))
                       /\ IF Used(d) \cap Slotted(d, i) # {} THEN j.disturbed /\ ~Walking(j) /\ j # i ELSE j = i
  <2>1. IsIter(i)
    BY DEF ItFits
  <2>2. Hit(d, i, FALSE, Used(d)) <=> Used(d) \cap Slotted(d, i) # {}
    BY DEF Hit
  <2>3. /\ IsIter(j) /\ ~j.detached /\ j.index = i.index /\ j.on = i.on
        /\ ~Walking(i) => j = i
        /\ Walking(i) => /\ Slotted(d, i) = ToSet(From(d, i.index))
                         /\ IF Hit(d, i, FALSE, Used(d)) THEN j.disturbed /\ ~Walking(j) /\ j # i ELSE j = i
    BY <2>1, Disturbs DEF Less
  <2>. HIDE DEF j
  <2>. QED
    BY <2>1, <2>2, <2>3
<1>40. /\ its \in Seq(AnItem) /\ Len(its) = len /\ s \in Seq(Nat) /\ len \in Nat /\ DOMAIN s = 1 .. len
  BY ItemsTyped, ChainFacts DEF Fits
<1>41. \A n \in DOMAIN s : s[n] \in DOMAIN d.entries /\ d.entries[s[n]].valid
  BY DEF Fits, Chain
<1>4. /\ its \in Seq(AnItem) /\ Len(its) = len /\ s \in Seq(Nat) /\ len \in Nat /\ DOMAIN s = 1 .. len
      /\ \A n \in 1 .. len : s[n] \in Used(d)
  BY <1>40, <1>41 DEF Used
<1>3. Map!Cleared(NowIs(d, s, i)) = [items |-> <<>>, iter |-> Map!Disturbing(show, seen)]
  BY <1>4 DEF Map!Cleared, NowIs
<1>5. seen <=> len <= len - Len(show.left)
  BY <1>4 DEF Map!Reached, NowIs
<1>6. Len(<<>>) = 0 /\ Nth(<<>>, 1) = -1
  BY DEF Nth
<1>. HIDE DEF e, j, its, show, seen
<1>7. CASE ~Walking(i)
  <2>1. j = i /\ ItFits(<<>>, j)
    BY <1>2, <1>7 DEF ItFits
  <2>2. Showing(e, j) = show /\ Map!Disturbing(show, seen) = show
    <3>1. ~i.on \/ (i.on /\ i.disturbed)
      BY <1>2, <1>7 DEF Walking, IsIter
    <3>2. /\ ~i.on => show = Map!NoIteration /\ Showing(e, i) = Map!NoIteration
          /\ i.on /\ i.disturbed => show = Lost /\ Showing(e, i) = Lost
      BY <1>1, <2>1, ShowingIs DEF show
    <3>. QED
      BY <2>1, <3>1, <3>2, MapDisturbs
  <2>3. Slotted(e, j) = Slotted(d, i)
    BY <1>7, <2>1 DEF Slotted, Walking
  <2>. QED
    BY <1>1, <1>2, <1>3, <2>1, <2>2, <2>3 DEF NowIs, e, j
<1>8. CASE Walking(i)
  <2>1. PICK b : Passed(s, i, b)
    BY <1>8 DEF ItFits
  <2>2. b \in 0 .. len /\ i.index = Nth(s, b + 1)
    BY <2>1 DEF Passed
  <2>3. show = Going(FALSE, Left(its, b)) /\ From(d, i.index) = After(s, b)
    <3>1. i.detached = FALSE
      BY <1>2 DEF IsIter
    <3>. QED
      BY <1>8, <2>1, <3>1, ShowingIs DEF show, its
  <2>4. Len(show.left) = len - b
    BY <1>4, <2>2, <2>3, LeftTyped DEF Going
  <2>5. seen <=> b = len
    <3>. HIDE DEF len
    <3>1. b \in Nat /\ len - (len - b) = b /\ b <= len
      BY <1>4, <2>2
    <3>. QED
      BY <1>4, <1>5, <2>4, <3>1
  <2>6. Used(d) \cap Slotted(d, i) # {} <=> b # len
    <3>1. /\ Len(After(s, b)) = len - b /\ After(s, b) \in Seq(Nat)
          /\ \A n \in 1 .. len - b : After(s, b)[n] = s[b + n] /\ b + n \in 1 .. len
      BY <1>4, <2>2, AfterIs
    <3>2. Slotted(d, i) = {s[b + n] : n \in 1 .. len - b}
      BY <1>2, <1>8, <2>3, <3>1 DEF ToSet
    <3>3. b # len <=> 1 \in 1 .. len - b
      <4>. HIDE DEF len
      <4>. QED
        BY <1>4, <2>2
    <3>4. 1 .. len - b = {} <=> b = len
      <4>. HIDE DEF len
      <4>. QED
        BY <1>4, <2>2
    <3>. QED
      BY <1>4, <3>1, <3>2, <3>3, <3>4
  <2>7. CASE b # len
    <3>1. j.on /\ j.disturbed /\ ItFits(<<>>, j) /\ j # i
      BY <1>2, <1>8, <2>6, <2>7 DEF ItFits, Walking
    <3>2. Showing(e, j) = Lost
      BY <1>1, <3>1, ShowingIs
    <3>3. Map!Disturbing(show, seen) = Lost
      BY <2>3, <2>5, <2>7, MapDisturbs
    <3>. QED
      BY <1>1, <1>2, <1>3, <3>1, <3>2, <3>3 DEF NowIs, e, j
  <2>8. CASE b = len
    <3>1. j = i
      BY <1>2, <1>8, <2>6, <2>8
    <3>2. Nth(s, len + 1) = -1 /\ Left(its, len) = <<>> /\ After(s, len) = <<>>
      <4>. HIDE DEF len
      <4>1. len + 1 \notin 1 .. len /\ 1 .. len - len = {}
        BY <1>4
      <4>. QED
        BY <1>4, <4>1 DEF Nth, Left, After, len
    <3>3. Left(<<>>, 0) = <<>> /\ After(<<>>, 0) = <<>>
      BY DEF Left, After
    <3>4. Passed(<<>>, j, 0) /\ ItFits(<<>>, j)
      BY <1>2, <1>6, <2>2, <2>8, <3>1, <3>2 DEF Passed, ItFits
    <3>5. Showing(e, j) = Going(FALSE, <<>>) /\ From(e, j.index) = <<>>
      <4>1. j.detached = FALSE
        BY <1>2 DEF IsIter
      <4>2. /\ Showing(e, j) = Going(j.detached, Left(ItemsOf(e, <<>>), 0))
            /\ From(e, j.index) = After(<<>>, 0)
        BY <1>1, <1>8, <3>1, <3>4, ShowingIs
      <4>. QED
        BY <1>1, <3>3, <4>1, <4>2
    <3>6. Map!Disturbing(show, seen) = Showing(e, j)
      BY <2>3, <2>5, <2>8, <3>2, <3>5, MapDisturbs
    <3>7. Slotted(e, j) = Slotted(d, i)
      BY <1>8, <2>3, <2>8, <3>1, <3>2, <3>5 DEF Slotted
    <3>. QED
      BY <1>1, <1>2, <1>3, <3>4, <3>6, <3>7 DEF NowIs, e, j
  <2>. QED
    BY <2>7, <2>8
<1>. QED
  BY <1>7, <1>8

(* The iterator after nothing, or nothing else, has been deleted.          *)
LEMMA LessIs ==
  ASSUME NEW d, NEW i, IsIter(i)
  PROVE  /\ Less(d, i, {}) = i
         /\ \A a, b : ~i.detached =>
              LET j == Less(d, i, a)
              IN  \A e : (j = i => Slotted(e, j) = Slotted(d, i)) =>
                    Less(d, i, a \cup b) = Less(e, j, b)
<1>1. IsIter(i)
  OBVIOUS
<1>2. Less(d, i, {}) = i
  <2>1. ~Hit(d, i, FALSE, {})
    BY DEF Hit
  <2>. QED
    BY <2>1 DEF Touched, Less
<1>3. ASSUME NEW a, NEW b, ~i.detached, NEW e,
             LET j == Less(d, i, a) IN j = i => Slotted(e, j) = Slotted(d, i)
      PROVE  Less(d, i, a \cup b) = Less(e, Less(d, i, a), b)
  <2>. DEFINE j == Less(d, i, a)
              both == a \cup b
              last == Less(e, j, b)
              once == Less(d, i, both)
              k == [i EXCEPT !.disturbed = TRUE]
  <2>1. /\ \A x, y, f : Hit(f, x, FALSE, y) <=> y \cap Slotted(f, x) # {}
        /\ j = i => Slotted(e, j) = Slotted(d, i)
    BY <1>3 DEF Hit
  <2>2. /\ IsIter(j) /\ ~j.detached /\ j.on = i.on
        /\ ~Walking(i) => j = i
        /\ Walking(i) => IF Hit(d, i, FALSE, a) THEN j.disturbed /\ ~Walking(j) /\ j # i ELSE j = i
    BY <1>1, <1>3, Disturbs DEF Less
  <2>3. /\ ~Walking(i) => once = i
        /\ ~Walking(j) => last = j
    BY <1>1, <1>3, <2>2, Disturbs DEF Less
  <2>4. /\ j = IF i.on /\ ~i.detached /\ Hit(d, i, FALSE, a) THEN k ELSE i
        /\ once = IF i.on /\ ~i.detached /\ Hit(d, i, FALSE, both) THEN k ELSE i
        /\ j = i => last = IF i.on /\ ~i.detached /\ Hit(e, j, FALSE, b) THEN k ELSE i
    BY DEF Touched, Less
  <2>5. Hit(d, i, FALSE, both) <=> Hit(d, i, FALSE, a) \/ b \cap Slotted(d, i) # {}
    <3>1. /\ Hit(d, i, FALSE, both) <=> both \cap Slotted(d, i) # {}
          /\ Hit(d, i, FALSE, a) <=> a \cap Slotted(d, i) # {}
      BY DEF Hit
    <3>. DEFINE sl == Slotted(d, i)
    <3>. HIDE DEF sl
    <3>2. both \cap sl = (a \cap sl) \cup (b \cap sl)
      OBVIOUS
    <3>. QED
      BY <3>1, <3>2 DEF sl
  <2>. HIDE DEF j, both, last, once, k
  <2>6. CASE ~Walking(i)
    BY <2>2, <2>3, <2>6 DEF j, both, last, once
  <2>7. CASE Walking(i) /\ Hit(d, i, FALSE, a)
    <3>1. j = k /\ once = k /\ last = j
      BY <1>3, <2>2, <2>3, <2>4, <2>5, <2>7 DEF Walking
    <3>. QED
      BY <3>1 DEF j, both, last, once
  <2>8. CASE Walking(i) /\ ~Hit(d, i, FALSE, a)
    <3>1. j = i /\ (Hit(e, j, FALSE, b) <=> Hit(d, i, FALSE, both))
      BY <2>1, <2>2, <2>5, <2>8
    <3>2. once = last
      BY <2>4, <3>1
    <3>. QED
      BY <3>2 DEF j, both, last, once
  <2>. QED
    BY <2>6, <2>7, <2>8
<1>. QED
  BY <1>2, <1>3

-----------------------------------------------------------------------------
(* What eql? does when it deletes at most: the theorems are about this.  A *)
(* store by eql? breaks the links (LenCountsItems).                        *)
EqlDeletes == EqlMay \subseteq {"delete", "clear"}

LEMMA DidIs ==
  ASSUME EqlDeletes, NEW d, NEW s, Fits(d, s), NEW c \in Did(d)
  PROVE  /\ c.moved \in BOOLEAN /\ ~c.added
         /\ \/ c.dict = d /\ c.gone = {} /\ ~c.moved
            \/ c.dict = clear(d) /\ c.gone = Used(d) /\ (~c.moved => clear(d) = d)
            \/ \E k \in 1 .. Len(s) : c.dict = Del(d, s[k]) /\ c.gone = {s[k]} /\ ~c.moved
<1>1. "store" \notin EqlMay
  BY DEF EqlDeletes
<1>2. d.num_items \in Nat
  BY ChainFacts DEF Fits
<1>3. ASSUME NEW i \in Used(d), c = [dict |-> Del(d, i), moved |-> FALSE, gone |-> {i}, added |-> FALSE]
      PROVE  \E k \in 1 .. Len(s) : c.dict = Del(d, s[k]) /\ c.gone = {s[k]} /\ ~c.moved
  <2>1. i \in DOMAIN d.entries /\ d.entries[i].valid
    BY DEF Used
  <2>2. PICK k \in DOMAIN s : s[k] = i
    BY <2>1 DEF Fits, Chain
  <2>3. k \in 1 .. Len(s)
    BY <2>2, ChainFacts DEF Fits
  <2>. QED
    BY <1>3, <2>2, <2>3
<1>4. CASE c = [dict |-> d, moved |-> FALSE, gone |-> {}, added |-> FALSE]
  BY <1>4
<1>5. CASE \E i \in Used(d) : c = [dict |-> Del(d, i), moved |-> FALSE, gone |-> {i}, added |-> FALSE]
  <2>1. c.moved = FALSE /\ c.added = FALSE
    BY <1>5
  <2>. QED
    BY <1>3, <1>5, <2>1
<1>6. CASE c = [dict |-> clear(d), moved |-> d.num_items > 0, gone |-> Used(d), added |-> FALSE]
  <2>1. ~(d.num_items > 0) => clear(d) = d
    BY <1>2 DEF clear
  <2>2. c.dict = clear(d) /\ c.gone = Used(d) /\ c.moved = (d.num_items > 0) /\ c.added = FALSE
    BY <1>6
  <2>3. (d.num_items > 0) \in BOOLEAN
    BY <1>2
  <2>. QED
    BY <2>1, <2>2, <2>3
<1>7. \/ c = [dict |-> d, moved |-> FALSE, gone |-> {}, added |-> FALSE]
      \/ \E i \in Used(d) : c = [dict |-> Del(d, i), moved |-> FALSE, gone |-> {i}, added |-> FALSE]
      \/ c = [dict |-> clear(d), moved |-> d.num_items > 0, gone |-> Used(d), added |-> FALSE]
  BY <1>1, Zenon DEF Did
<1>. QED
  BY <1>4, <1>5, <1>6, <1>7

(* The dictionary, the iterator and what the program sees of both, after   *)
(* eql? has done something once.                                           *)
DidIter(d, s, i, c, t) ==
  LET j == Less(d, i, c.gone)
      m == NowIs(d, s, i)
  IN  /\ ItFits(t, j) /\ ~j.detached
      /\ NowIs(c.dict, t, j) \in {m} \cup Map!Fewer(m)
      /\ j = i => Slotted(c.dict, j) = Slotted(d, i)

LEMMA DidFits ==
  ASSUME EqlDeletes, NEW d, NEW s, Fits(d, s), NEW c \in Did(d)
  PROVE  /\ c.dict.kind = d.kind /\ (c.moved \/ Keeps(d, c.dict))
         /\ \E t : /\ Fits(c.dict, t)
                   /\ \A i : ItFits(s, i) /\ ~i.detached => DidIter(d, s, i, c, t)
<1>1. DOMAIN ItemsOf(d, s) = 1 .. Len(s)
  BY ItemsTyped DEF Fits
<1>2. CASE c.dict = d /\ c.gone = {} /\ ~c.moved
  <2>1. ASSUME NEW i, ItFits(s, i), ~i.detached
        PROVE  DidIter(d, s, i, c, s)
    <3>1. Less(d, i, {}) = i
      BY <2>1, LessIs DEF ItFits
    <3>. QED
      BY <1>2, <2>1, <3>1 DEF DidIter
  <2>. QED
    BY <1>2, <2>1, KeepsSelf
<1>3. CASE c.dict = clear(d) /\ c.gone = Used(d) /\ (~c.moved => clear(d) = d)
  <2>1. ASSUME NEW i, ItFits(s, i), ~i.detached
        PROVE  DidIter(d, s, i, c, <<>>)
    <3>. DEFINE h == Less(d, i, Used(d))
                e == clear(d)
    <3>1. /\ ItFits(<<>>, h) /\ ~h.detached
          /\ Map!Cleared(NowIs(d, s, i)) = NowIs(e, <<>>, h)
          /\ h = i => Slotted(e, h) = Slotted(d, i)
      BY <2>1, ClearIter
    <3>. HIDE DEF h, e
    <3>2. NowIs(e, <<>>, h) \in Map!Fewer(NowIs(d, s, i))
      BY <3>1 DEF Map!Fewer
    <3>3. h = Less(d, i, c.gone) /\ c.dict = e
      BY <1>3 DEF h, e
    <3>. QED
      BY <3>1, <3>2, <3>3 DEF DidIter
  <2>2. Fits(clear(d), <<>>) /\ clear(d).kind = d.kind
    BY ClearFits
  <2>3. c.moved \/ Keeps(d, c.dict)
    BY <1>3, KeepsSelf
  <2>. QED
    BY <1>3, <2>1, <2>2, <2>3
<1>4. CASE \E k \in 1 .. Len(s) : c.dict = Del(d, s[k]) /\ c.gone = {s[k]} /\ ~c.moved
  <2>1. PICK k \in 1 .. Len(s) : c.dict = Del(d, s[k]) /\ c.gone = {s[k]} /\ ~c.moved
    BY <1>4
  <2>. DEFINE t == RemoveAt(s, k)
              e == Del(d, s[k])
  <2>2. ASSUME NEW i, ItFits(s, i), ~i.detached
        PROVE  DidIter(d, s, i, c, t)
    <3>. DEFINE h == Less(d, i, {s[k]})
    <3>1. /\ ItFits(t, h) /\ ~h.detached
          /\ Map!Deleted(NowIs(d, s, i), k) = NowIs(e, t, h)
          /\ h = i => Slotted(e, h) = Slotted(d, i)
      BY <2>2, DelIter
    <3>2. k \in DOMAIN NowIs(d, s, i).items
      BY <1>1 DEF NowIs
    <3>. HIDE DEF h, e, t
    <3>3. NowIs(e, t, h) \in Map!Fewer(NowIs(d, s, i))
      BY <3>1, <3>2 DEF Map!Fewer
    <3>4. h = Less(d, i, c.gone) /\ c.dict = e
      BY <2>1 DEF h, e
    <3>. QED
      BY <3>1, <3>3, <3>4 DEF DidIter
  <2>3. Fits(e, t) /\ e.kind = d.kind
    BY DelFits
  <2>4. Keeps(d, e)
    <3>1. s[k] \in 0 .. Size(d) - 1 /\ d.entries[s[k]].valid
      BY ChainFacts DEF Fits
    <3>. QED
      BY <3>1, FitsSound, DelSound
  <2>. HIDE DEF e, t
  <2>5. c.dict = e
    BY <2>1 DEF e
  <2>. QED
    BY <2>2, <2>3, <2>4, <2>5
<1>. QED
  BY <1>2, <1>3, <1>4, DidIs

(* What eql? has done during a search so far.                              *)
Listed(h) == Len(h) \in Nat /\ h = [n \in 1 .. Len(h) |-> h[n]]
Told(h) == Listed(h) /\ FitCalls(dict, h) /\ ~Added(h)
LastSeen(h) == Seen(dict, h, Len(h))
GoneBefore(h, k) == UNION {h[n].gone : n \in 1 .. k - 1}

LEMMA ListedDomain ==
  ASSUME NEW h, Listed(h)
  PROVE  Len(h) \in Nat /\ DOMAIN h = 1 .. Len(h)
<1>. DEFINE f == [n \in 1 .. Len(h) |-> h[n]]
<1>1. DOMAIN f = 1 .. Len(h)
  OBVIOUS
<1>2. h = f /\ Len(h) \in Nat
  BY DEF Listed
<1>. HIDE DEF f
<1>. QED
  BY <1>1, <1>2

(* g is a history told to the call before k, and the call k.               *)
Adds(h, k, g) ==
  /\ k \in Nat /\ k # 0 /\ k - 1 <= Len(h)
  /\ Listed(g) /\ Len(g) = k /\ \A n \in 1 .. k - 1 : g[n] = h[n]
  /\ \E t : Fits(g[k].dict, t)
  /\ g[k].dict.kind = dict.kind /\ ~g[k].added
  /\ g[k].moved \/ Keeps(Seen(dict, h, k - 1), g[k].dict)

LEMMA ToldOn ==
  ASSUME NEW h, Told(h), NEW k, NEW g, Adds(h, k, g)
  PROVE  /\ Told(g) /\ LastSeen(g) = g[k].dict
         /\ Gone(g) = GoneBefore(h, k) \cup g[k].gone
<1>0. PICK t : /\ k \in Nat /\ k # 0 /\ k - 1 <= Len(h)
               /\ Listed(g) /\ Len(g) = k /\ \A n \in 1 .. k - 1 : g[n] = h[n]
               /\ Fits(g[k].dict, t)
               /\ g[k].dict.kind = dict.kind /\ ~g[k].added
               /\ g[k].moved \/ Keeps(Seen(dict, h, k - 1), g[k].dict)
  BY DEF Adds
<1>. USE <1>0
<1>1. /\ Len(h) \in Nat /\ DOMAIN h = 1 .. Len(h) /\ SoundCalls(dict, h) /\ ~Added(h)
      /\ \A n \in 0 .. Len(h) : \E u : Fits(Seen(dict, h, n), u)
  BY ListedDomain DEF Told, FitCalls
<1>2. DOMAIN g = 1 .. k
  BY ListedDomain
<1>3. \A n \in 0 .. k - 1 : n \in 0 .. Len(h) /\ Seen(dict, g, n) = Seen(dict, h, n)
  <2>. SUFFICES ASSUME NEW n \in 0 .. k - 1
                PROVE  n \in 0 .. Len(h) /\ Seen(dict, g, n) = Seen(dict, h, n)
    OBVIOUS
  <2>1. n \in 0 .. Len(h) /\ (n # 0 => n \in 1 .. k - 1)
    BY <1>1
  <2>. QED
    BY <2>1 DEF Seen
<1>4. LastSeen(g) = g[k].dict
  BY DEF LastSeen, Seen
<1>5. SoundCalls(dict, g)
  <2>1. ASSUME NEW n \in 1 .. k
        PROVE  /\ Sound(g[n].dict) /\ g[n].dict.kind = dict.kind
               /\ g[n].moved \/ Keeps(Seen(dict, g, n - 1), g[n].dict)
    <3>1. CASE n = k
      <4>1. Sound(g[k].dict)
        BY FitsSound
      <4>2. Seen(dict, g, k - 1) = Seen(dict, h, k - 1)
        BY <1>3
      <4>. QED
        BY <3>1, <4>1, <4>2
    <3>2. CASE n # k
      <4>1. n \in 1 .. k - 1 /\ n \in 1 .. Len(h) /\ n - 1 \in 0 .. k - 1
        BY <1>1, <3>2
      <4>2. g[n] = h[n] /\ Seen(dict, g, n - 1) = Seen(dict, h, n - 1)
        BY <1>3, <4>1
      <4>. QED
        BY <1>1, <4>1, <4>2 DEF SoundCalls
    <3>. QED
      BY <3>1, <3>2
  <2>. QED
    BY <2>1 DEF SoundCalls
<1>6. ASSUME NEW n \in 0 .. k
      PROVE  \E u : Fits(Seen(dict, g, n), u)
  <2>1. CASE n = k
    BY <1>4, <2>1 DEF LastSeen
  <2>2. CASE n # k
    <3>1. n \in 0 .. k - 1
      BY <2>2
    <3>. QED
      BY <1>1, <1>3, <3>1
  <2>. QED
    BY <2>1, <2>2
<1>7. \A n \in 1 .. k : n = k \/ (n \in 1 .. k - 1 /\ n \in 1 .. Len(h))
  BY <1>1
<1>8. k \in 1 .. k /\ \A n \in 1 .. k - 1 : n \in 1 .. k
  OBVIOUS
<1>9. ~Added(g)
  <2>. SUFFICES ASSUME NEW n \in 1 .. k PROVE ~g[n].added
    BY <1>2 DEF Added
  <2>. QED
    BY <1>1, <1>7 DEF Added
<1>10. Gone(g) = GoneBefore(h, k) \cup g[k].gone
  <2>1. Gone(g) = UNION {g[n].gone : n \in 1 .. k}
    BY <1>2 DEF Gone
  <2>2. \A x : x \in Gone(g) <=> \E n \in 1 .. k : x \in g[n].gone
    BY <2>1
  <2>3. \A x : (\E n \in 1 .. k : x \in g[n].gone)
               <=> x \in g[k].gone \/ \E n \in 1 .. k - 1 : x \in h[n].gone
    <3>1. k \in 1 .. k
      OBVIOUS
    <3>. QED
      BY <1>7, <1>8, <3>1, Zenon
  <2>4. \A x : x \in UNION {h[n].gone : n \in 1 .. k - 1} <=> \E n \in 1 .. k - 1 : x \in h[n].gone
    OBVIOUS
  <2>5. \A x : x \in Gone(g) <=> x \in GoneBefore(h, k) \/ x \in g[k].gone
    BY <2>2, <2>3, <2>4, Zenon DEF GoneBefore
  <2>. QED
    BY <2>5
<1>. QED
  BY <1>4, <1>5, <1>6, <1>9, <1>10 DEF Told, FitCalls

LEMMA ToldStep ==
  ASSUME EqlDeletes, NEW h, Told(h), NEW g \in Prolonged(h)
  PROVE  /\ Told(g)
         /\ \E c \in Did(LastSeen(h)) :
              LastSeen(g) = c.dict /\ Gone(g) = Gone(h) \cup c.gone
<1>. DEFINE last == Len(h)
            d == LastSeen(h)
<1>1. /\ last \in Nat /\ h = [n \in 1 .. last |-> h[n]] /\ SoundCalls(dict, h) /\ ~Added(h)
      /\ \A n \in 0 .. last : \E u : Fits(Seen(dict, h, n), u)
  BY DEF Told, FitCalls, Listed
<1>2. DOMAIN h = 1 .. last
  BY ListedDomain DEF Told
<1>3. PICK s : Fits(d, s)
  <2>1. last \in 0 .. last
    BY <1>1
  <2>. QED
    BY <1>1, <2>1 DEF LastSeen
<1>4. d.kind = dict.kind
  <2>1. last = 0 \/ last \in 1 .. last
    BY <1>1
  <2>. QED
    BY <1>1, <2>1 DEF LastSeen, Seen, SoundCalls
<1>5. \/ \E c \in Did(d) : g = Append(h, c)
      \/ /\ last # 0
         /\ \E c \in Did(d) :
              g = [h EXCEPT ![last] = [dict |-> c.dict, moved |-> h[last].moved \/ c.moved,
                                       gone |-> h[last].gone \cup c.gone,
                                       added |-> h[last].added \/ c.added]]
  <2>1. last \in DOMAIN h => last # 0
    BY <1>1, <1>2
  <2>. QED
    BY <2>1 DEF Prolonged, LastSeen
<1>. HIDE DEF d
<1>6. ASSUME NEW c \in Did(d), g = Append(h, c)
      PROVE  Told(g) /\ LastSeen(g) = c.dict /\ Gone(g) = Gone(h) \cup c.gone
  <2>. DEFINE k == last + 1
              S == {h[n] : n \in 1 .. last} \cup {c}
  <2>1. h \in Seq(S)
    <3>. DEFINE f == [n \in 1 .. last |-> h[n]]
    <3>1. f \in [1 .. last -> S]
      OBVIOUS
    <3>2. h = f
      BY <1>1
    <3>. HIDE DEF f, S
    <3>. QED
      BY <1>1, <3>1, <3>2
  <2>2. g \in Seq(S) /\ Len(g) = k /\ \A n \in 1 .. k : g[n] = IF n = k THEN c ELSE h[n]
    <3>1. c \in S
      OBVIOUS
    <3>. HIDE DEF S
    <3>. QED
      BY <1>6, <2>1, <3>1, AppendProperties
  <2>3. k \in Nat /\ k # 0 /\ k - 1 = last /\ k - 1 <= last
    BY <1>1
  <2>4. Listed(g)
    <3>. HIDE DEF S, k
    <3>. QED
      BY <2>2, <2>3 DEF Listed
  <2>5. /\ \A n \in 1 .. k - 1 : g[n] = h[n]
        /\ g[k] = c
    BY <1>1, <2>2, <2>3
  <2>6. PICK t : Fits(c.dict, t)
    BY <1>3, DidFits
  <2>7. c.dict.kind = dict.kind /\ ~c.added /\ (c.moved \/ Keeps(Seen(dict, h, k - 1), c.dict))
    <3>1. c.dict.kind = d.kind /\ (c.moved \/ Keeps(d, c.dict)) /\ ~c.added
      BY <1>3, DidFits, DidIs
    <3>. QED
      BY <1>4, <2>3, <3>1 DEF d, LastSeen
  <2>71. /\ Fits(g[k].dict, t) /\ g[k].dict.kind = dict.kind /\ ~g[k].added
         /\ g[k].moved \/ Keeps(Seen(dict, h, k - 1), g[k].dict)
    <3>. HIDE DEF k
    <3>. QED
      BY <2>5, <2>6, <2>7
  <2>8. Told(g) /\ LastSeen(g) = g[k].dict /\ Gone(g) = GoneBefore(h, k) \cup g[k].gone
    <3>1. Len(g) = k /\ k - 1 <= Len(h)
      BY <2>2, <2>3
    <3>. HIDE DEF k, S, last
    <3>2. Adds(h, k, g)
      BY <2>3, <2>4, <2>5, <2>71, <3>1 DEF Adds
    <3>. QED
      BY <3>2, ToldOn
  <2>9. Gone(h) = GoneBefore(h, k)
    BY <1>2, <2>3 DEF Gone, GoneBefore
  <2>. HIDE DEF k, S, last
  <2>. QED
    BY <2>5, <2>8, <2>9
<1>7. ASSUME last # 0, NEW c \in Did(d),
             g = [h EXCEPT ![last] = [dict |-> c.dict, moved |-> h[last].moved \/ c.moved,
                                      gone |-> h[last].gone \cup c.gone,
                                      added |-> h[last].added \/ c.added]]
      PROVE  Told(g) /\ LastSeen(g) = c.dict /\ Gone(g) = Gone(h) \cup c.gone
  <2>. DEFINE b == [dict |-> c.dict, moved |-> h[last].moved \/ c.moved,
                    gone |-> h[last].gone \cup c.gone, added |-> h[last].added \/ c.added]
              before == GoneBefore(h, last)
  <2>1. last \in 1 .. last /\ last \in Nat /\ last - 1 <= last /\ last - 1 \in 0 .. last
    BY <1>1, <1>7
  <2>2. /\ b.dict = c.dict /\ b.gone = h[last].gone \cup c.gone
        /\ b.moved = (h[last].moved \/ c.moved) /\ b.added = (h[last].added \/ c.added)
    OBVIOUS
  <2>. HIDE DEF b
  <2>3. g = [n \in 1 .. last |-> IF n = last THEN b ELSE h[n]]
    BY <1>2, <1>7 DEF b
  <2>4. g[last] = b /\ \A n \in 1 .. last - 1 : g[n] = h[n]
    BY <1>1, <2>1, <2>3
  <2>5. Len(g) = last /\ Listed(g)
    <3>. DEFINE S == {IF n = last THEN b ELSE h[n] : n \in 1 .. last}
    <3>1. [n \in 1 .. last |-> IF n = last THEN b ELSE h[n]] \in [1 .. last -> S]
      OBVIOUS
    <3>2. g \in [1 .. last -> S]
      BY <2>3, <3>1
    <3>. HIDE DEF S, last
    <3>. QED
      BY <2>1, <3>2 DEF Listed
  <2>6. PICK t : Fits(c.dict, t)
    BY <1>3, DidFits
  <2>7. c.dict.kind = d.kind /\ (c.moved \/ Keeps(d, c.dict)) /\ ~c.added
    BY <1>3, DidFits, DidIs
  <2>8. ~h[last].added
    BY <1>1, <1>2, <2>1 DEF Added
  <2>9. h[last].moved \/ Keeps(Seen(dict, h, last - 1), d)
    <3>1. d = h[last].dict
      BY <1>7 DEF d, LastSeen, Seen
    <3>. QED
      BY <1>1, <2>1, <3>1 DEF SoundCalls
  <2>10. b.moved \/ Keeps(Seen(dict, h, last - 1), c.dict)
    BY <2>2, <2>7, <2>9, KeepsOn
  <2>11. ~b.added /\ b.dict.kind = dict.kind
    BY <1>4, <2>2, <2>7, <2>8
  <2>. HIDE DEF last
  <2>111. /\ Fits(g[last].dict, t) /\ g[last].dict.kind = dict.kind /\ ~g[last].added
          /\ g[last].moved \/ Keeps(Seen(dict, h, last - 1), g[last].dict)
    BY <2>2, <2>4, <2>6, <2>10, <2>11
  <2>12. /\ Told(g) /\ LastSeen(g) = g[last].dict
         /\ Gone(g) = before \cup g[last].gone
    <3>1. last # 0 /\ last - 1 <= Len(h)
      BY <1>7, <2>1 DEF last
    <3>2. Adds(h, last, g)
      BY <2>1, <2>4, <2>5, <2>111, <3>1 DEF Adds
    <3>. QED
      BY <3>2, ToldOn
  <2>13. Gone(h) = before \cup h[last].gone
    <3>1. Gone(h) = UNION {h[n].gone : n \in 1 .. last}
      BY <1>2 DEF Gone
    <3>2. \A n \in 1 .. last : n = last \/ n \in 1 .. last - 1
      BY <2>1
    <3>3. \A n \in 1 .. last - 1 : n \in 1 .. last
      BY <2>1
    <3>4. \A x : x \in Gone(h) <=> \E n \in 1 .. last : x \in h[n].gone
      BY <3>1
    <3>5. \A x : x \in before <=> \E n \in 1 .. last - 1 : x \in h[n].gone
      BY DEF GoneBefore
    <3>6. \A x : x \in Gone(h) <=> x \in before \/ x \in h[last].gone
      BY <2>1, <3>2, <3>3, <3>4, <3>5, Zenon
    <3>. HIDE DEF before
    <3>. QED
      BY <3>6
  <2>14. Gone(g) = Gone(h) \cup c.gone
    <3>1. g[last].gone = h[last].gone \cup c.gone
      BY <2>2, <2>4
    <3>. HIDE DEF before
    <3>. QED
      BY <2>12, <2>13, <3>1
  <2>. QED
    BY <2>2, <2>4, <2>12, <2>14
<1>. QED
  BY <1>5, <1>6, <1>7 DEF d

(* What the program sees of the hash and of the iterator i after it is one *)
(* of M.                                                                   *)
Shown(s, i, h, M) ==
  LET e == LastSeen(h)
      j == Less(dict, i, Gone(h))
  IN  \E t : /\ Fits(e, t) /\ ItFits(t, j) /\ ~j.detached /\ NowIs(e, t, j) \in M
             /\ j = i => Slotted(e, j) = Slotted(dict, i)

LEMMA ShownStep ==
  ASSUME EqlDeletes, NEW s, NEW i, ItFits(s, i), ~i.detached, NEW h, NEW M, Shown(s, i, h, M),
         NEW c \in Did(LastSeen(h)), NEW g, LastSeen(g) = c.dict, Gone(g) = Gone(h) \cup c.gone
  PROVE  Shown(s, i, g, M \cup UNION {Map!Fewer(m) : m \in M})
<1>. DEFINE d == LastSeen(h)
            j == Less(dict, i, Gone(h))
            e == c.dict
            k == Less(d, j, c.gone)
            more == M \cup UNION {Map!Fewer(m) : m \in M}
<1>1. PICK t : /\ Fits(d, t) /\ ItFits(t, j) /\ ~j.detached /\ NowIs(d, t, j) \in M
               /\ j = i => Slotted(d, j) = Slotted(dict, i)
  BY DEF Shown
<1>2. PICK u : Fits(e, u) /\ DidIter(d, t, j, c, u)
  <2>. HIDE DEF d, j, e
  <2>. QED
    BY <1>1, DidFits DEF d, e
<1>3. /\ ItFits(u, k) /\ ~k.detached
      /\ NowIs(e, u, k) \in {NowIs(d, t, j)} \cup Map!Fewer(NowIs(d, t, j))
      /\ k = j => Slotted(e, k) = Slotted(d, j)
  BY <1>2 DEF DidIter
<1>4. NowIs(e, u, k) \in more
  <2>. HIDE DEF d, e, j, k
  <2>. QED
    BY <1>1, <1>3, Zenon
<1>5. IsIter(i) /\ IsIter(j)
  BY <1>1 DEF ItFits
<1>6. Less(dict, i, Gone(g)) = k
  <2>. DEFINE G == Gone(h)
              b == c.gone
  <2>1. \A a : LET x == Less(dict, i, a)
               IN  \A y : (x = i => Slotted(y, x) = Slotted(dict, i)) =>
                     Less(dict, i, a \cup b) = Less(y, x, b)
    BY <1>5, LessIs
  <2>2. (Less(dict, i, G) = i => Slotted(d, Less(dict, i, G)) = Slotted(dict, i)) =>
          Less(dict, i, G \cup b) = Less(d, Less(dict, i, G), b)
    BY <2>1
  <2>3. Gone(g) = G \cup b
    OBVIOUS
  <2>. HIDE DEF G, b, d
  <2>. QED
    BY <1>1, <2>2, <2>3 DEF G, b
<1>7. k = i => Slotted(e, k) = Slotted(dict, i)
  <2>1. /\ ~Walking(i) => j = i
        /\ Walking(i) => ~Walking(j) \/ j = i
    BY <1>5, Disturbs DEF Less
  <2>2. ~Walking(j) => k = j
    BY <1>1, <1>5, Disturbs DEF Less
  <2>. HIDE DEF d, e, j, k
  <2>. QED
    BY <1>1, <1>3, <2>1, <2>2
<1>. HIDE DEF k, j, more, d
<1>8. Shown(s, i, g, more)
  BY <1>2, <1>3, <1>4, <1>6, <1>7 DEF Shown
<1>. QED
  BY <1>8 DEF more

(* Whatever eql? has done, the hash is one, and the program sees items and *)
(* an iteration that Compared allows.                                      *)
Attached(s) == ItFits(s, it) /\ ~it.detached /\ Map!Now = NowIs(dict, s, it)

LEMMA AllTold ==
  ASSUME EqlDeletes, NEW s, Fits(dict, s), NEW calls \in Callbacks
  PROVE  Told(calls) /\ (Attached(s) => Shown(s, it, calls, Map!Compared))
<1>. DEFINE m == EqlSteps
            P(a, b) == \A h \in a : Told(h) /\ (Attached(s) => Shown(s, it, h, b))
<1>1. m \in Nat
  BY HashAssumption
<1>. HIDE DEF m
<1>2. PICK A : Passes(A, "calls", 0, 0, {<<>>}, m) /\ Callbacks = A[m]
  BY CallbacksPasses DEF m
<1>3. PICK B : Passes(B, "fewer", 0, 0, {Map!Now}, m) /\ Map!Compared = B[m]
  BY ComparedPasses DEF m
<1>4. P(A[0], B[0])
  <2>1. A[0] = {<<>>} /\ B[0] = {Map!Now}
    BY <1>2, <1>3 DEF Passes
  <2>2. Len(<<>>) = 0 /\ Listed(<<>>) /\ Gone(<<>>) = {} /\ ~Added(<<>>)
    BY DEF Gone, Added, Listed
  <2>3. Told(<<>>)
    BY <2>2, FitNoCalls DEF Told
  <2>4. LastSeen(<<>>) = dict
    BY <2>2 DEF LastSeen, Seen
  <2>5. ASSUME Attached(s) PROVE Shown(s, it, <<>>, {Map!Now})
    <3>1. Less(dict, it, {}) = it
      BY <2>5, LessIs DEF Attached, ItFits
    <3>. QED
      BY <2>2, <2>4, <2>5, <3>1 DEF Shown, Attached
  <2>. QED
    BY <2>1, <2>3, <2>5
<1>5. ASSUME NEW k \in 1 .. m, P(A[k - 1], B[k - 1])
      PROVE  P(A[k], B[k])
  <2>. DEFINE a == A[k - 1]
              b == B[k - 1]
              more == b \cup UNION {Map!Fewer(x) : x \in b}
  <2>1. A[k] = a \cup UNION {Prolonged(h) : h \in a} /\ B[k] = more
    BY <1>2, <1>3 DEF Passes, Round
  <2>2. P(a, b)
    BY <1>5
  <2>. HIDE DEF a, b, P
  <2>3. ASSUME NEW h \in a
        PROVE  Told(h) /\ (Attached(s) => Shown(s, it, h, b) /\ Shown(s, it, h, more))
    <3>1. Told(h) /\ (Attached(s) => Shown(s, it, h, b))
      BY <2>2 DEF P
    <3>2. \A x : x \in b => x \in more
      OBVIOUS
    <3>. HIDE DEF more
    <3>3. Shown(s, it, h, b) => Shown(s, it, h, more)
      BY <3>2, Zenon DEF Shown
    <3>. QED
      BY <3>1, <3>3
  <2>4. ASSUME NEW h \in a, NEW g \in Prolonged(h)
        PROVE  Told(g) /\ (Attached(s) => Shown(s, it, g, more))
    <3>1. Told(h) /\ (Attached(s) => Shown(s, it, h, b))
      BY <2>3
    <3>2. /\ Told(g)
          /\ \E c \in Did(LastSeen(h)) : LastSeen(g) = c.dict /\ Gone(g) = Gone(h) \cup c.gone
      BY <3>1, ToldStep
    <3>3. PICK c \in Did(LastSeen(h)) : LastSeen(g) = c.dict /\ Gone(g) = Gone(h) \cup c.gone
      BY <3>2
    <3>4. ASSUME Attached(s) PROVE Shown(s, it, g, more)
      <4>1. ItFits(s, it) /\ ~it.detached
        BY <3>4 DEF Attached
      <4>2. Shown(s, it, h, b)
        BY <3>1, <3>4
      <4>. QED
        BY <3>3, <4>1, <4>2, ShownStep
    <3>. QED
      BY <3>2, <3>4
  <2>5. \A g \in A[k] : g \in a \/ \E h \in a : g \in Prolonged(h)
    BY <2>1
  <2>6. \A g \in A[k] : Told(g) /\ (Attached(s) => Shown(s, it, g, more))
    <3>. HIDE DEF more
    <3>. QED
      BY <2>3, <2>4, <2>5
  <2>. QED
    BY <2>1, <2>6 DEF P
<1>. HIDE DEF P
<1>. DEFINE I == {k \in 0 .. m : ~P(A[k], B[k])}
<1>6. I = {}
  <2>1. 0 \notin I /\ I \in SUBSET (0 .. m)
    BY <1>4
  <2>2. ASSUME NEW k \in 1 .. m, k \in I
        PROVE  k - 1 \in I
    <3>1. k - 1 \in 0 .. m
      BY <1>1
    <3>. QED
      BY <1>5, <2>2, <3>1
  <2>. HIDE DEF I
  <2>. QED
    BY <1>1, <2>1, <2>2, NeverWrong
<1>7. P(A[m], B[m])
  BY <1>1, <1>6
<1>. QED
  BY <1>2, <1>3, <1>7 DEF P

-----------------------------------------------------------------------------
LEMMA InitDict == Init => DictInv
<1>1. Fits(newdict(Eql, INIT_SIZE), <<>>)
  BY DictAssumption, NewdictFits DEF PowerOfTwo
<1>. QED
  BY <1>1, HashAssumption DEF Init, DictInv

(* What a search in the hash leaves and finds.                             *)
LEMMA SearchHash ==
  ASSUME EqlDeletes, content \in [Keys -> DOMAIN HashOf], NEW s, Fits(dict, s), NEW key \in Keys,
         NEW calls \in Callbacks
  PROVE  \E t, p : Search(dict, key, calls, t, p)
<1>1. FitCalls(dict, calls)
  BY AllTold DEF Told
<1>2. hashkey(dict.kind, key) \in Nat
  BY HashkeyNatural
<1>. QED
  BY <1>1, <1>2, SearchFits

LEMMA RefilledFits ==
  ASSUME DictInv, NEW kind \in {Eql, Identity}
  PROVE  \E u : /\ Fits(Refilled(kind), u) /\ Refilled(kind).kind = kind
                /\ ItemsOf(Refilled(kind), u) = Map!Restored(kind, Items)
<1>. DEFINE d == newdict(kind, INIT_SIZE)
<1>1. PICK s : Fits(dict, s)
  BY DEF DictInv
<1>2. Slots = s /\ Items = ItemsOf(dict, s)
  BY <1>1, ItemsAre
<1>3. Fits(d, <<>>) /\ ItemsOf(d, <<>>) = <<>> /\ d.kind = kind
  BY DictAssumption, NewdictFits DEF PowerOfTwo, newdict
<1>. HIDE DEF d
<1>4. \A k \in Keys : hashkey(d.kind, k) \in Nat
  BY HashkeyNatural DEF DictInv
<1>5. IsDict(dict) /\ s \in Seq(Nat) /\ \A n \in DOMAIN s : s[n] \in DOMAIN dict.entries /\ dict.entries[s[n]].valid
  BY <1>1 DEF Fits, Chain
<1>6. \E u : /\ Fits(Merge(d, s), u) /\ Merge(d, s).kind = d.kind
             /\ ItemsOf(Merge(d, s), u) = Map!Restored(d.kind, ItemsOf(dict, s))
  BY <1>3, <1>4, <1>5, MergeFits
<1>. QED
  BY <1>2, <1>3, <1>6 DEF Refilled, d

LEMMA NextDict == EqlDeletes /\ DictInv /\ [Next]_vars => DictInv'
<1>. SUFFICES ASSUME EqlDeletes, DictInv, [Next]_vars PROVE DictInv'
  OBVIOUS
<1>0. PICK s : Fits(dict, s)
  BY DEF DictInv
<1>00. content \in [Keys -> DOMAIN HashOf]
  BY DEF DictInv
<1>1. CASE Store
  <2>1. PICK k \in Keys, v \in Values, calls \in Callbacks : Assign(k, v, calls)
    BY <1>1 DEF Store
  <2>2. dict' = setitem(dict, Stored(k), v, calls) /\ content' = content
    BY <2>1 DEF Assign
  <2>3. Stored(k) \in Keys /\ hashkey(dict.kind, Stored(k)) \in Nat
    BY <1>00, StoredIsKey, HashkeyNatural
  <2>4. PICK t, p : Search(dict, Stored(k), calls, t, p)
    BY <1>0, <1>00, <2>3, SearchHash
  <2>5. PICK u : Fits(setitem(dict, Stored(k), v, calls), u)
    <3>1. Settles(dict, Stored(k), v, calls, t, p)
      BY <1>0, <2>3, <2>4, SetitemFits
    <3>. QED
      BY <3>1 DEF Settles
  <2>. QED
    BY <1>00, <2>2, <2>5 DEF DictInv
<1>2. CASE Delete
  <2>1. PICK k \in Keys, calls \in Callbacks : dict' = pop(dict, k, calls) /\ content' = content
    BY <1>2 DEF Delete
  <2>2. PICK t, p : Search(dict, k, calls, t, p)
    BY <1>0, <1>00, SearchHash
  <2>3. \E u : Fits(pop(dict, k, calls), u)
    BY <1>0, <2>2, PopFits
  <2>. QED
    BY <1>00, <2>1, <2>3 DEF DictInv
<1>3. CASE Clear
  <2>1. dict' = clear(dict) /\ content' = content /\ Fits(clear(dict), <<>>)
    BY <1>0, <1>3, ClearFits DEF Clear
  <2>. QED
    BY <1>00, <2>1 DEF DictInv
<1>4. CASE Shift
  <2>1. dict' = Del(dict, dict.first_entry) /\ content' = content /\ dict.num_items > 0
    BY <1>4 DEF Shift, popitem
  <2>2. dict.first_entry = s[1] /\ 1 \in 1 .. Len(s)
    <3>1. s \in Seq(Nat) /\ DOMAIN s = 1 .. Len(s) /\ Len(s) \in Nat /\ Len(s) > 0
      BY <1>0, <2>1, ChainFacts DEF Fits, Chain
    <3>2. 1 \in 1 .. Len(s)
      BY <3>1
    <3>. QED
      BY <1>0, <3>1, <3>2 DEF Fits, Chain, Nth
  <2>3. \E u : Fits(Del(dict, s[1]), u)
    BY <1>0, <2>2, DelFits
  <2>. QED
    BY <1>00, <2>1, <2>2, <2>3 DEF DictInv
<1>5. CASE rehash
  <2>1. dict.kind \in {Eql, Identity}
    BY <1>0, DictFacts DEF Fits
  <2>2. dict' = Refilled(dict.kind) /\ content' = content /\ \E u : Fits(Refilled(dict.kind), u)
    BY <1>5, <2>1, RefilledFits DEF rehash
  <2>. QED
    BY <1>00, <2>2 DEF DictInv
<1>6. CASE compare_by_identity
  <2>1. dict' = Refilled(Identity) /\ content' = content /\ \E u : Fits(Refilled(Identity), u)
    BY <1>6, RefilledFits DEF compare_by_identity
  <2>. QED
    BY <1>00, <2>1 DEF DictInv
<1>7. CASE replace
  BY <1>0, <1>00, <1>7 DEF replace, copy, DictInv
<1>8. CASE Mutate
  <2>1. dict' = dict /\ content' \in [Keys -> DOMAIN HashOf]
    BY <1>00, <1>8 DEF Mutate
  <2>. QED
    BY <1>0, <2>1 DEF DictInv
<1>9. CASE Each \/ HandOut \/ Leave \/ UNCHANGED vars
  BY <1>0, <1>00, <1>9 DEF Each, HandOut, Leave, vars, DictInv
<1>. QED
  BY <1>1, <1>2, <1>3, <1>4, <1>5, <1>6, <1>7, <1>8, <1>9 DEF Next

LEMMA WellFormedHash == DictInv => WellFormed
<1>. SUFFICES ASSUME DictInv PROVE WellFormed
  OBVIOUS
<1>1. PICK s : Fits(dict, s)
  BY DEF DictInv
<1>2. IsDict(dict) /\ HasRoom(dict) /\ Chain(dict, s)
  BY <1>1 DEF Fits
<1>3. Slots = s
  BY <1>2, WalkIsChain DEF Slots
<1>4. /\ Cardinality(Used(dict)) = Len(s) /\ Used(dict) = {s[k] : k \in 1 .. Len(s)}
      /\ s \in Seq(Nat) /\ Len(s) \in Nat /\ DOMAIN s = 1 .. Len(s)
      /\ dict.num_items = Len(s) /\ dict.last_entry = Nth(s, Len(s))
  BY <1>1, <1>2, ChainCounts, ChainFacts
<1>5. ToSet(s) = Used(dict)
  BY <1>4 DEF ToSet
<1>6. dict.last_entry = IF s = <<>> THEN -1 ELSE Last(s)
  <2>1. s = <<>> <=> Len(s) = 0
    BY <1>4, EmptySeq
  <2>2. Len(s) \in DOMAIN s <=> Len(s) # 0
    <3>. DEFINE len == Len(s)
    <3>1. len \in Nat /\ DOMAIN s = 1 .. len
      BY <1>4
    <3>. HIDE DEF len
    <3>2. len \in 1 .. len <=> len # 0
      BY <3>1
    <3>. QED
      BY <3>1, <3>2 DEF len
  <2>. QED
    BY <1>4, <2>1, <2>2 DEF Nth, Last
<1>7. ASSUME NEW n \in DOMAIN s
      PROVE  dict.entries[s[n]].prev = IF n = 1 THEN -1 ELSE s[n - 1]
  <2>1. dict.entries[s[n]].prev = Nth(s, n - 1)
    BY <1>2 DEF Chain
  <2>2. n - 1 \in DOMAIN s <=> n # 1
    <3>. DEFINE len == Len(s)
    <3>1. len \in Nat /\ n \in 1 .. len
      BY <1>4
    <3>. HIDE DEF len
    <3>2. n - 1 \in 1 .. len <=> n # 1
      BY <3>1
    <3>. QED
      BY <1>4, <3>2 DEF len
  <2>. QED
    BY <2>1, <2>2 DEF Nth
<1>8. /\ dict.resize_counter > 0
      /\ dict.resize_counter = 2 * Size(dict) - 3 * Cardinality(Ever(dict))
  BY <1>2 DEF HasRoom, Counts
<1>. QED
  BY <1>3, <1>4, <1>5, <1>6, <1>7, <1>8 DEF WellFormed, Ever

(* The invariant: some slots are a chain of the links, the items of which  *)
(* are found on their hashes' ways, and the counters fit.                  *)
THEOREM DictInvariant ==
  ASSUME EqlDeletes
  PROVE  Spec => []DictInv
<1>1. Init => DictInv
  BY InitDict
<1>2. DictInv /\ [Next]_vars => DictInv'
  BY NextDict
<1>. QED
  BY <1>1, <1>2, PTL DEF Spec

(* Whenever eql? deletes from the hash or clears it while a key is         *)
(* searched, EqlSteps times at most in one search, the search ends, at an  *)
(* entry in use if it found the key and at one that can be written if not  *)
(* (ordereddict.py:483-529).                                               *)
SearchEndsRight ==
  \A key \in Keys, hash \in Nat, calls \in Callbacks :
    LET r == lookup(dict, key, hash, calls)
    IN  /\ r.slot \in DOMAIN r.dict.entries /\ r.found \in BOOLEAN
        /\ r.dict.entries[r.slot].valid <=> r.found
THEOREM SearchesEnd ==
  ASSUME EqlDeletes
  PROVE  Spec => []SearchEndsRight
<1>1. DictInv => SearchEndsRight
  <2>. SUFFICES ASSUME DictInv, NEW key \in Keys, NEW hash \in Nat, NEW calls \in Callbacks
                PROVE  LET r == lookup(dict, key, hash, calls)
                       IN  /\ r.slot \in DOMAIN r.dict.entries /\ r.found \in BOOLEAN
                           /\ r.dict.entries[r.slot].valid <=> r.found
    BY DEF SearchEndsRight
  <2>. DEFINE r == lookup(dict, key, hash, calls)
  <2>1. Sound(dict) /\ SoundCalls(dict, calls)
    BY FitsSound, AllTold DEF DictInv, Told, FitCalls
  <2>2. /\ Sound(r.dict) /\ r.slot \in 0 .. Size(r.dict) - 1
        /\ r.found \in BOOLEAN /\ (r.dict.entries[r.slot].valid <=> r.found)
    BY <2>1, LookupSound
  <2>. HIDE DEF r
  <2>3. r.slot \in DOMAIN r.dict.entries
    BY <2>2, DictFacts DEF Sound
  <2>. QED
    BY <2>2, <2>3 DEF r
<1>. QED
  BY <1>1, DictInvariant, PTL

(* The links, the items counted and the slots counted, in every state, if  *)
(* eql? stores nothing while a key is searched (ordereddict.py:531-632).   *)
THEOREM LinksWellFormed ==
  ASSUME EqlDeletes
  PROVE  Spec => []WellFormed
BY DictInvariant, WellFormedHash, PTL

(* A search and the links agree, and what is merged the other way round is *)
(* ==, if eql? stores nothing meanwhile (ordereddict.py:483-529, Hash#==). *)
THEOREM SearchesAlwaysAgree ==
  ASSUME EqlDeletes
  PROVE  Spec => []SearchesAgree
BY DictInvariant, AgreeHash, PTL

(* The same iteration over two storages with the same slots.               *)
LEMMA SameShowing ==
  ASSUME NEW d, NEW e, NEW s, Fits(d, s), Fits(e, s), NEW i, ItFits(s, i),
         \A b \in 0 .. Len(s) : Left(ItemsOf(d, s), b) = Left(ItemsOf(e, s), b)
  PROVE  Showing(d, i) = Showing(e, i)
<1>1. ~i.on => Showing(d, i) = Map!NoIteration /\ Showing(e, i) = Map!NoIteration
  BY ShowingIs
<1>2. i.on /\ i.disturbed => Showing(d, i) = Lost /\ Showing(e, i) = Lost
  BY ShowingIs
<1>3. ASSUME Walking(i) PROVE Showing(d, i) = Showing(e, i)
  <2>1. PICK b : Passed(s, i, b)
    BY <1>3 DEF ItFits
  <2>2. /\ Showing(d, i) = Going(i.detached, Left(ItemsOf(d, s), b))
        /\ Showing(e, i) = Going(i.detached, Left(ItemsOf(e, s), b))
    BY <1>3, <2>1, ShowingIs
  <2>3. b \in 0 .. Len(s)
    BY <2>1 DEF Passed
  <2>. QED
    BY <2>2, <2>3
<1>. QED
  BY <1>1, <1>2, <1>3 DEF Walking

(* An iteration that is not detached, once a key is added.                 *)
LEMMA AddIter ==
  ASSUME NEW d, NEW i, IsIter(i), ~i.detached, NEW slots, NEW e, NEW u, Fits(e, u),
         NEW f, NEW h, IsIter(h), ~h.detached, h.on = i.on
  PROVE  LET j == Touched(d, i, TRUE, slots)
         IN  /\ ItFits(u, j) /\ ~j.detached
             /\ Showing(e, j) = IF h.on THEN Lost ELSE Map!NoIteration
<1>. DEFINE yes == TRUE
            j == Touched(d, i, yes, slots)
<1>1. Hit(d, i, yes, slots) /\ yes \in BOOLEAN
  BY DEF Hit
<1>. HIDE DEF yes
<1>2. /\ IsIter(j) /\ ~j.detached /\ j.index = i.index /\ j.on = i.on
      /\ ~Walking(i) => j = i
      /\ Walking(i) => IF Hit(d, i, yes, slots) THEN j.disturbed /\ ~Walking(j) /\ j # i ELSE j = i
  BY <1>1, Disturbs
<1>. HIDE DEF j
<1>3. ~Walking(j) /\ ItFits(u, j)
  BY <1>1, <1>2 DEF ItFits
<1>4. ~j.on => Showing(e, j) = Map!NoIteration
  BY <1>3, ShowingIs
<1>5. j.on => Showing(e, j) = Lost
  <2>1. j.on => j.disturbed
    BY <1>3 DEF Walking
  <2>. QED
    BY <1>3, <2>1, ShowingIs
<1>. QED
  BY <1>2, <1>3, <1>4, <1>5 DEF j, yes

LEMMA FitsOnce ==
  ASSUME NEW d, NEW s, NEW t, Fits(d, s), Fits(d, t)
  PROVE  s = t
<1>1. s = From(d, d.first_entry)
  BY WalkIsChain DEF Fits
<1>2. t = From(d, d.first_entry)
  BY WalkIsChain DEF Fits
<1>. QED
  BY <1>1, <1>2

(* A search that makes all of the calls leaves what they leave.            *)
LEMMA SearchLeaves ==
  ASSUME EqlDeletes, content \in [Keys -> DOMAIN HashOf], NEW s, Fits(dict, s), Attached(s),
         NEW key \in Keys, NEW calls \in Callbacks, At(dict, key, calls).called = Len(calls),
         NEW t, NEW p, Search(dict, key, calls, t, p)
  PROVE  LET f == At(dict, key, calls).dict
             h == Less(dict, it, Gone(calls))
         IN  /\ ~Added(calls) /\ Fits(f, t)
             /\ ItFits(t, h) /\ ~h.detached /\ NowIs(f, t, h) \in Map!Compared
             /\ h = it => Slotted(f, h) = Slotted(dict, it)
<1>. DEFINE r == At(dict, key, calls)
            f == r.dict
            h == Less(dict, it, Gone(calls))
<1>1. Told(calls) /\ Shown(s, it, calls, Map!Compared)
  BY AllTold
<1>2. SoundCalls(dict, calls) /\ Sound(dict) /\ hashkey(dict.kind, key) \in Nat
  BY <1>1, FitsSound, HashkeyNatural DEF Told, FitCalls
<1>3. f = Seen(dict, calls, r.called)
  BY <1>2, LookupSound DEF At
<1>4. f = LastSeen(calls)
  <2>. HIDE DEF f
  <2>. QED
    BY <1>3 DEF LastSeen
<1>5. Fits(f, t)
  BY DEF Search
<1>. HIDE DEF f, h
<1>6. PICK u : /\ Fits(f, u) /\ ItFits(u, h) /\ ~h.detached /\ NowIs(f, u, h) \in Map!Compared
               /\ h = it => Slotted(f, h) = Slotted(dict, it)
  BY <1>1, <1>4 DEF Shown, h
<1>7. u = t
  BY <1>5, <1>6, FitsOnce
<1>. QED
  BY <1>1, <1>5, <1>6, <1>7 DEF Told, f, h

StoreMay(key, value, calls) ==
  LET e == setitem(dict, key, value, calls)
      j == Touched(dict, it, ~At(dict, key, calls).found \/ Added(calls), Gone(calls))
  IN  \E u, p : \E m \in Map!Compared :
        /\ Fits(e, u) /\ e.kind = dict.kind /\ ItFits(u, j) /\ ~j.detached
        /\ p \in Map!Finds(dict.kind, m.items, key)
        /\ NowIs(e, u, j).items = Map!Put(dict.kind, m.items, p, key, value)
        /\ NowIs(e, u, j).iter = Map!Disturbing(m.iter, p # 0)

LEMMA StoreStep ==
  ASSUME EqlDeletes, content \in [Keys -> DOMAIN HashOf], NEW s, Fits(dict, s), Attached(s),
         NEW key \in Keys, NEW value \in Values,
         NEW calls \in Callbacks, At(dict, key, calls).called = Len(calls)
  PROVE  StoreMay(key, value, calls)
<1>. DEFINE e == setitem(dict, key, value, calls)
            r == At(dict, key, calls)
            f == r.dict
            j == Touched(dict, it, ~r.found \/ Added(calls), Gone(calls))
            h == Less(dict, it, Gone(calls))
<1>1. hashkey(dict.kind, key) \in Nat
  BY HashkeyNatural
<1>2. PICK t, p : Search(dict, key, calls, t, p)
  BY SearchHash
<1>3. PICK u : /\ Fits(e, u) /\ e.kind = dict.kind
               /\ ItemsOf(e, u) = Map!Put(dict.kind, ItemsOf(f, t), p, key, value)
               /\ p # 0 => u = t
  <2>1. Settles(dict, key, value, calls, t, p)
    BY <1>1, <1>2, SetitemFits
  <2>. QED
    BY <2>1 DEF Settles
<1>4. /\ Fits(f, t) /\ ItFits(s, it) /\ ~it.detached
      /\ p \in Map!Finds(dict.kind, ItemsOf(f, t), key)
      /\ IF r.found THEN p \in 1 .. Len(t) ELSE p = 0
  BY <1>2 DEF Search, Attached
<1>. DEFINE m == NowIs(f, t, h)
<1>5. /\ ItFits(t, h) /\ ~h.detached
      /\ m \in Map!Compared /\ ~Added(calls)
  BY <1>2, SearchLeaves
<1>6. m.items = ItemsOf(f, t) /\ m.iter = Showing(f, h)
  BY DEF NowIs
<1>7. NowIs(e, u, j).items = ItemsOf(e, u) /\ NowIs(e, u, j).iter = Showing(e, j)
  BY DEF NowIs
<1>8. CASE r.found
  <2>1. p \in 1 .. Len(t) /\ p # 0 /\ u = t
    BY <1>3, <1>4, <1>8
  <2>2. j = h
    <3>1. (~r.found \/ Added(calls)) = FALSE
      BY <1>5, <1>8
    <3>. QED
      BY <3>1 DEF Less
  <2>3. ItemsOf(e, t) = [ItemsOf(f, t) EXCEPT ![p].value = value]
    BY <1>3, <2>1 DEF Map!Put
  <2>4. ItemsOf(f, t) \in Seq(AnItem) /\ Len(ItemsOf(f, t)) = Len(t)
    BY <1>4, ItemsTyped DEF Fits
  <2>. HIDE DEF e, f, j, h, m
  <2>5. \A b \in 0 .. Len(t) : Left(ItemsOf(e, t), b) = Left(ItemsOf(f, t), b)
    <3>1. ASSUME NEW b \in 0 .. Len(t)
          PROVE  Left([ItemsOf(f, t) EXCEPT ![p].value = value], b) = Left(ItemsOf(f, t), b)
      <4>1. b \in 0 .. Len(ItemsOf(f, t)) /\ p \in 1 .. Len(ItemsOf(f, t))
        BY <2>1, <2>4
      <4>. QED
        BY <2>4, <4>1, LeftPut
    <3>. QED
      BY <2>3, <3>1
  <2>6. Showing(e, j) = Showing(f, h)
    BY <1>3, <1>4, <1>5, <2>1, <2>2, <2>5, SameShowing
  <2>7. Map!Disturbing(m.iter, p # 0) = m.iter
    BY <2>1 DEF Map!Disturbing
  <2>8. /\ Fits(e, u) /\ e.kind = dict.kind /\ ItFits(u, j) /\ ~j.detached
        /\ p \in Map!Finds(dict.kind, m.items, key)
        /\ NowIs(e, u, j).items = Map!Put(dict.kind, m.items, p, key, value)
        /\ NowIs(e, u, j).iter = Map!Disturbing(m.iter, p # 0)
    BY <1>3, <1>4, <1>5, <1>6, <1>7, <2>1, <2>2, <2>6, <2>7
  <2>. QED
    BY <1>5, <2>8 DEF e, j, StoreMay
<1>9. CASE ~r.found
  <2>1. p = 0 /\ j = Touched(dict, it, TRUE, Gone(calls))
    <3>1. (~r.found \/ Added(calls)) = TRUE
      BY <1>9
    <3>. QED
      BY <1>4, <1>9, <3>1
  <2>2. IsIter(h) /\ h.on = it.on /\ IsIter(it)
    <3>1. IsIter(it)
      BY <1>4 DEF ItFits
    <3>. QED
      BY <1>4, <1>5, <3>1, Disturbs DEF Less, ItFits
  <2>. HIDE DEF e, f, h, m
  <2>3. LET g == Touched(dict, it, TRUE, Gone(calls))
        IN  /\ ItFits(u, g) /\ ~g.detached
            /\ Showing(e, g) = IF h.on THEN Lost ELSE Map!NoIteration
    BY <1>3, <1>4, <1>5, <2>2, AddIter
  <2>4. /\ ItFits(u, j) /\ ~j.detached
        /\ Showing(e, j) = IF h.on THEN Lost ELSE Map!NoIteration
    BY <2>1, <2>3
  <2>. HIDE DEF j
  <2>5. Map!Disturbing(m.iter, p # 0) = Showing(e, j)
    <3>1. CASE h.on
      <4>1. m.iter.on /\ ~m.iter.detached
        <5>1. Showing(f, h).on = h.on /\ Showing(f, h).detached = (h.detached /\ ~h.disturbed)
          BY DEF Showing
        <5>. QED
          BY <1>5, <1>6, <3>1, <5>1
      <4>. QED
        BY <2>1, <2>4, <3>1, <4>1, LostIs DEF Map!Disturbing
    <3>2. CASE ~h.on
      <4>1. m.iter = Map!NoIteration
        BY <1>4, <1>5, <1>6, <3>2, ShowingIs
      <4>. QED
        BY <2>4, <3>2, <4>1, MapDisturbs
    <3>. QED
      BY <3>1, <3>2
  <2>8. /\ Fits(e, u) /\ e.kind = dict.kind /\ ItFits(u, j) /\ ~j.detached
        /\ p \in Map!Finds(dict.kind, m.items, key)
        /\ NowIs(e, u, j).items = Map!Put(dict.kind, m.items, p, key, value)
        /\ NowIs(e, u, j).iter = Map!Disturbing(m.iter, p # 0)
    BY <1>3, <1>4, <1>6, <1>7, <2>4, <2>5
  <2>. QED
    BY <1>5, <2>8 DEF e, j, StoreMay
<1>. QED
  BY <1>8, <1>9

DeleteMay(key, calls) ==
  LET e == pop(dict, key, calls)
      r == At(dict, key, calls)
      j == Less(dict, it, Gone(calls) \cup (IF r.found THEN {r.slot} ELSE {}))
  IN  \E u, p : \E m \in Map!Compared :
        /\ Fits(e, u) /\ e.kind = dict.kind /\ ItFits(u, j) /\ ~j.detached
        /\ p \in Map!Finds(dict.kind, m.items, key)
        /\ NowIs(e, u, j) = IF p = 0 THEN m ELSE Map!Deleted(m, p)

LEMMA DeleteStep ==
  ASSUME EqlDeletes, content \in [Keys -> DOMAIN HashOf], NEW s, Fits(dict, s), Attached(s),
         NEW key \in Keys, NEW calls \in Callbacks, At(dict, key, calls).called = Len(calls)
  PROVE  DeleteMay(key, calls)
<1>. DEFINE e == pop(dict, key, calls)
            r == At(dict, key, calls)
            f == r.dict
            j == Less(dict, it, Gone(calls) \cup (IF r.found THEN {r.slot} ELSE {}))
            h == Less(dict, it, Gone(calls))
<1>1. hashkey(dict.kind, key) \in Nat
  BY HashkeyNatural
<1>2. PICK t, p : Search(dict, key, calls, t, p)
  BY SearchHash
<1>. DEFINE u == IF p = 0 THEN t ELSE RemoveAt(t, p)
<1>3. /\ Fits(e, u) /\ e.kind = dict.kind
      /\ e = IF p = 0 THEN f ELSE Del(f, t[p])
  BY <1>2, PopFits
<1>4. /\ Fits(f, t) /\ ItFits(s, it) /\ ~it.detached
      /\ p \in Map!Finds(dict.kind, ItemsOf(f, t), key)
      /\ IF r.found THEN p \in 1 .. Len(t) /\ r.slot = t[p] ELSE p = 0
  BY <1>2 DEF Search, Attached
<1>. DEFINE m == NowIs(f, t, h)
<1>5. /\ ItFits(t, h) /\ ~h.detached
      /\ m \in Map!Compared
      /\ h = it => Slotted(f, h) = Slotted(dict, it)
  BY <1>2, SearchLeaves
<1>6. m.items = ItemsOf(f, t)
  BY DEF NowIs
<1>8. CASE r.found
  <2>1. p \in 1 .. Len(t) /\ p # 0 /\ u = RemoveAt(t, p) /\ e = Del(f, t[p])
    BY <1>3, <1>4, <1>8
  <2>2. j = Less(dict, it, Gone(calls) \cup {t[p]})
    BY <1>4, <1>8
  <2>3. IsIter(it)
    BY <1>4 DEF ItFits
  <2>. DEFINE G == Gone(calls)
  <2>4. Less(dict, it, G \cup {t[p]}) = Less(f, h, {t[p]})
    <3>1. \A a, b : LET x == Less(dict, it, a)
                    IN  \A y : (x = it => Slotted(y, x) = Slotted(dict, it)) =>
                          Less(dict, it, a \cup b) = Less(y, x, b)
      BY <1>4, <2>3, LessIs
    <3>2. \A b : (Less(dict, it, G) = it => Slotted(f, Less(dict, it, G)) = Slotted(dict, it)) =>
                   Less(dict, it, G \cup b) = Less(f, Less(dict, it, G), b)
      BY <3>1
    <3>. HIDE DEF G, f
    <3>. QED
      BY <1>5, <3>2 DEF G
  <2>. HIDE DEF f, h
  <2>5. LET g == Less(f, h, {t[p]})
        IN  /\ ItFits(RemoveAt(t, p), g) /\ ~g.detached
            /\ Map!Deleted(m, p) = NowIs(Del(f, t[p]), RemoveAt(t, p), g)
    BY <1>4, <1>5, <2>1, DelIter
  <2>. HIDE DEF j, e, u, m
  <2>6. /\ Fits(e, u) /\ e.kind = dict.kind /\ ItFits(u, j) /\ ~j.detached
        /\ p \in Map!Finds(dict.kind, m.items, key)
        /\ NowIs(e, u, j) = IF p = 0 THEN m ELSE Map!Deleted(m, p)
    BY <1>3, <1>4, <1>6, <2>1, <2>2, <2>4, <2>5
  <2>. QED
    BY <1>5, <2>6 DEF e, j, r, DeleteMay
<1>9. CASE ~r.found
  <2>1. p = 0 /\ u = t /\ e = f
    BY <1>3, <1>4, <1>9
  <2>2. j = h
    <3>. DEFINE G == Gone(calls)
    <3>1. G \cup (IF r.found THEN {r.slot} ELSE {}) = G
      BY <1>9
    <3>. QED
      BY <3>1
  <2>. HIDE DEF j, e, u, m, f, h
  <2>6. /\ Fits(e, u) /\ e.kind = dict.kind /\ ItFits(u, j) /\ ~j.detached
        /\ p \in Map!Finds(dict.kind, m.items, key)
        /\ NowIs(e, u, j) = IF p = 0 THEN m ELSE Map!Deleted(m, p)
    BY <1>3, <1>4, <1>5, <1>6, <2>1, <2>2 DEF m
  <2>. QED
    BY <1>5, <2>6 DEF e, j, r, DeleteMay
<1>. QED
  BY <1>8, <1>9

LEMMA NoIteratorFits ==
  ASSUME NEW d, NEW s, Fits(d, s)
  PROVE  ItFits(s, NoIterator) /\ ~NoIterator.detached /\ Showing(d, NoIterator) = Map!NoIteration
<1>1. ~NoIterator.on /\ ~NoIterator.detached /\ IsIter(NoIterator)
  BY DEF NoIterator, IsIter
<1>2. ItFits(s, NoIterator)
  BY <1>1 DEF ItFits, Walking
<1>. QED
  BY <1>1, <1>2, ShowingIs

(* The hash gets another storage: the iterator goes on over the old one.   *)
Renewed(d, i, e, j) ==
  LET w == IF j.detached THEN j.own ELSE e
      show == Showing(d, i)
  IN  /\ \E q : Fits(w, q) /\ ItFits(q, j)
      /\ Showing(w, j) = IF show.on /\ ~show.disturbed THEN [show EXCEPT !.detached = TRUE] ELSE show

LEMMA RenewStep ==
  ASSUME NEW d, NEW s, Fits(d, s), NEW i, ItFits(s, i), ~i.detached, NEW e, NEW u, Fits(e, u),
         NEW j, j = IF i.on /\ ~i.detached THEN [i EXCEPT !.detached = TRUE, !.own = d] ELSE i
  PROVE  Renewed(d, i, e, j)
<1>. DEFINE w == IF j.detached THEN j.own ELSE e
            show == Showing(d, i)
<1>1. IsIter(i)
  BY DEF ItFits
<1>2. CASE ~i.on
  <2>1. j = i /\ i = NoIterator /\ w = e
    BY <1>1, <1>2 DEF IsIter
  <2>2. ItFits(u, j) /\ Showing(w, j) = Map!NoIteration /\ show = Map!NoIteration
    BY <2>1, NoIteratorFits
  <2>3. ~Map!NoIteration.on
    BY DEF Map!NoIteration
  <2>. HIDE DEF w, show, Renewed
  <2>. QED
    BY <2>1, <2>2, <2>3 DEF w, show, Renewed
<1>3. CASE i.on
  <2>1. j = [i EXCEPT !.detached = TRUE, !.own = d]
    BY <1>3
  <2>2. i \in [on : BOOLEAN, detached : BOOLEAN, own : {i.own}, index : {i.index}, disturbed : BOOLEAN]
    BY <1>1 DEF IsIter
  <2>3. /\ j \in [on : BOOLEAN, detached : BOOLEAN, own : {d}, index : {i.index}, disturbed : BOOLEAN]
        /\ j.on = i.on /\ j.detached = TRUE /\ j.own = d /\ j.index = i.index /\ j.disturbed = i.disturbed
    BY <2>1, <2>2
  <2>4. IsIter(j)
    BY <1>3, <2>3 DEF IsIter
  <2>5. w = d
    BY <2>3
  <2>6. (Walking(j) <=> Walking(i)) /\ \A b : Passed(s, j, b) <=> Passed(s, i, b)
    BY <2>3 DEF Walking, Passed
  <2>7. ItFits(s, j)
    BY <2>4, <2>6 DEF ItFits
  <2>. HIDE DEF w, show, Renewed
  <2>8. CASE Walking(i)
    <3>1. PICK b : Passed(s, i, b)
      BY <2>8 DEF ItFits
    <3>. DEFINE left == Left(ItemsOf(d, s), b)
    <3>2. show = Going(i.detached, left) /\ Showing(d, j) = Going(j.detached, left)
      BY <2>6, <2>7, <2>8, <3>1, ShowingIs DEF show
    <3>3. i.detached \in BOOLEAN
      BY <2>2
    <3>. HIDE DEF left
    <3>4. Going(j.detached, left) = [Going(i.detached, left) EXCEPT !.detached = TRUE]
      <4>. DEFINE T == [on : BOOLEAN, left : {left}, detached : BOOLEAN, disturbed : BOOLEAN]
      <4>1. \A b1 \in BOOLEAN : Going(b1, left) \in T /\ Going(b1, left).on /\ ~Going(b1, left).disturbed
              /\ Going(b1, left).detached = b1 /\ Going(b1, left).left = left
        BY DEF Going
      <4>2. \A x \in T : LET z == [x EXCEPT !.detached = TRUE]
                         IN  z \in T /\ z.on = x.on /\ z.detached /\ z.left = x.left /\ z.disturbed = x.disturbed
        OBVIOUS
      <4>. DEFINE x == Going(i.detached, left)
                  y == Going(j.detached, left)
                  z == [x EXCEPT !.detached = TRUE]
      <4>3. x \in T /\ y \in T /\ y.detached /\ y.on /\ x.on /\ ~x.disturbed /\ ~y.disturbed /\ x.left = y.left
        BY <2>3, <3>3, <4>1
      <4>4. z \in T /\ z.on = x.on /\ z.detached /\ z.left = x.left /\ z.disturbed = x.disturbed
        BY <4>2, <4>3
      <4>. HIDE DEF x, y, z
      <4>5. y = z
        BY <4>3, <4>4, SameFields
      <4>. QED
        BY <4>5 DEF x, y, z
    <3>5. show.on /\ ~show.disturbed
      BY <3>2 DEF Going
    <3>. QED
      BY <2>5, <2>7, <3>2, <3>4, <3>5 DEF w, show, Renewed
  <2>9. CASE ~Walking(i)
    <3>1. i.disturbed /\ j.on /\ j.disturbed
      BY <1>3, <2>3, <2>9 DEF Walking
    <3>2. show = Lost /\ Showing(d, j) = Lost
      BY <1>3, <2>7, <3>1, ShowingIs DEF show
    <3>3. Lost.disturbed
      BY DEF Lost
    <3>. QED
      BY <2>5, <2>7, <3>2, <3>3 DEF w, show, Renewed
  <2>. QED
    BY <2>8, <2>9
<1>. QED
  BY <1>2, <1>3

(* The iterator each begins with, and one after it has handed out an item. *)
BeginsAt(d, s, j) ==
  LET its == ItemsOf(d, s)
  IN  /\ ItFits(s, j) /\ ~j.detached
      /\ Showing(d, j) = [Map!NoIteration EXCEPT !.on = TRUE,
                                                 !.left = [n \in DOMAIN its |-> its[n].key]]
HandsOut(d, s, i, j) ==
  LET show == Showing(d, i)
      next == Showing(d, j)
  IN  /\ show.on
      /\ \/ j = NoIterator /\ show.disturbed
         \/ /\ ItFits(s, j) /\ j.detached = i.detached /\ j.own = i.own
            /\ IF show.disturbed THEN next = show
               ELSE show.left # <<>> /\ next = [show EXCEPT !.left = Tail(@)]

LEMMA BeginStep ==
  ASSUME NEW d, NEW s, Fits(d, s), NEW j,
         j = [NoIterator EXCEPT !.on = TRUE, !.index = newdictiter(d)]
  PROVE  BeginsAt(d, s, j)
<1>. DEFINE its == ItemsOf(d, s)
            len == Len(s)
            left == [n \in DOMAIN its |-> its[n].key]
<1>1. /\ j \in [on : BOOLEAN, detached : BOOLEAN, own : {Null}, index : {d.first_entry}, disturbed : BOOLEAN]
      /\ j.on /\ ~j.detached /\ j.own = Null /\ j.index = d.first_entry /\ ~j.disturbed
  <2>1. /\ NoIterator \in [on : BOOLEAN, detached : BOOLEAN, own : {Null}, index : {-1}, disturbed : BOOLEAN]
        /\ ~NoIterator.detached /\ NoIterator.own = Null /\ ~NoIterator.disturbed
    BY DEF NoIterator
  <2>. QED
    BY <2>1 DEF newdictiter
<1>2. /\ s \in Seq(Nat) /\ len \in Nat /\ its \in Seq(AnItem) /\ Len(its) = len /\ DOMAIN its = 1 .. len
      /\ d.first_entry = Nth(s, 1)
  BY ItemsTyped, ChainFacts DEF Fits
<1>3. IsIter(j) /\ Walking(j)
  BY <1>1 DEF IsIter, Walking
<1>4. Passed(s, j, 0)
  <2>1. 0 \in 0 .. len /\ 0 + 1 = 1
    BY <1>2
  <2>. QED
    BY <1>1, <1>2, <2>1 DEF Passed
<1>5. Showing(d, j) = Going(j.detached, Left(its, 0)) /\ ItFits(s, j)
  BY <1>3, <1>4, ShowingIs DEF ItFits
<1>6. Left(its, 0) = left
  <2>. HIDE DEF its, len
  <2>1. len - 0 = len /\ \A n \in 1 .. len : 0 + n = n
    BY <1>2
  <2>. QED
    BY <1>2, <2>1 DEF Left
<1>. HIDE DEF left
<1>7. Going(j.detached, left) = [Map!NoIteration EXCEPT !.on = TRUE, !.left = left]
  <2>. DEFINE T == [on : BOOLEAN, left : {left, <<>>}, detached : BOOLEAN, disturbed : BOOLEAN]
              x == Going(j.detached, left)
              y == [Map!NoIteration EXCEPT !.on = TRUE, !.left = left]
  <2>1. x \in T /\ x.on /\ x.left = left /\ ~x.detached /\ ~x.disturbed
    BY <1>1 DEF Going
  <2>2. /\ Map!NoIteration \in T /\ ~Map!NoIteration.detached /\ ~Map!NoIteration.disturbed
    BY DEF Map!NoIteration
  <2>3. \A z \in T : LET v == [z EXCEPT !.on = TRUE, !.left = left]
                     IN  v \in T /\ v.on /\ v.left = left /\ v.detached = z.detached /\ v.disturbed = z.disturbed
    OBVIOUS
  <2>4. y \in T /\ y.on /\ y.left = left /\ ~y.detached /\ ~y.disturbed
    BY <2>2, <2>3
  <2>. HIDE DEF x, y
  <2>5. x = y
    BY <2>1, <2>4, SameFields
  <2>. QED
    BY <2>5 DEF x, y
<1>. QED
  BY <1>1, <1>5, <1>6, <1>7 DEF left, BeginsAt

LEMMA HandOutStep ==
  ASSUME NEW d, NEW s, Fits(d, s), NEW i, ItFits(s, i), i.on, i.index # -1,
         NEW j, j = IF InRange(d, i.index) /\ d.entries[i.index].valid
                    THEN [i EXCEPT !.index = iternext(d, @).index] ELSE NoIterator
  PROVE  HandsOut(d, s, i, j)
<1>. DEFINE show == Showing(d, i)
            next == Showing(d, j)
            its == ItemsOf(d, s)
            len == Len(s)
            nxt == iternext(d, i.index).index
            k == [i EXCEPT !.index = nxt]
<1>1. i \in [on : BOOLEAN, detached : BOOLEAN, own : {i.own}, index : {i.index}, disturbed : BOOLEAN]
  BY DEF ItFits, IsIter
<1>2. j = IF InRange(d, i.index) /\ d.entries[i.index].valid THEN k ELSE NoIterator
  OBVIOUS
<1>3. /\ k \in [on : BOOLEAN, detached : BOOLEAN, own : {i.own}, index : {nxt}, disturbed : BOOLEAN]
      /\ k.on = i.on /\ k.detached = i.detached /\ k.own = i.own /\ k.index = nxt /\ k.disturbed = i.disturbed
  BY <1>1
<1>4. IsIter(k)
  BY <1>3 DEF IsIter
<1>5. nxt = d.entries[i.index].next
  BY DEF iternext
<1>. HIDE DEF k, nxt
<1>6. CASE i.disturbed
  <2>1. show = Lost /\ Lost.on /\ Lost.disturbed
    BY <1>6, ShowingIs DEF Lost
  <2>2. CASE j = k
    <3>1. ItFits(s, j) /\ j.on /\ j.disturbed
      BY <1>3, <1>4, <1>6, <2>2 DEF ItFits, Walking
    <3>2. next = Lost
      BY <3>1, ShowingIs
    <3>. HIDE DEF show, next, HandsOut
    <3>. QED
      BY <1>3, <2>1, <2>2, <3>1, <3>2 DEF show, next, HandsOut
  <2>. HIDE DEF show, next, HandsOut
  <2>. QED
    BY <1>2, <2>1, <2>2 DEF show, next, HandsOut
<1>7. CASE ~i.disturbed
  <2>1. Walking(i)
    BY <1>7 DEF Walking
  <2>2. PICK b : Passed(s, i, b)
    BY <2>1 DEF ItFits
  <2>3. b \in 0 .. len /\ i.index = Nth(s, b + 1)
    BY <2>2 DEF Passed
  <2>4. /\ s \in Seq(Nat) /\ len \in Nat /\ DOMAIN s = 1 .. len
        /\ its \in Seq(AnItem) /\ Len(its) = len
    BY ItemsTyped, ChainFacts DEF Fits
  <2>5. b + 1 \in 1 .. len /\ i.index = s[b + 1] /\ b \in Nat
    BY <2>3, <2>4 DEF Nth
  <2>6. /\ i.index \in DOMAIN d.entries /\ d.entries[i.index].valid
        /\ d.entries[i.index].next = Nth(s, (b + 1) + 1)
    BY <2>4, <2>5 DEF Fits, Chain
  <2>7. j = k
    BY <1>2, <2>6 DEF InRange
  <2>8. Passed(s, j, b + 1) /\ ItFits(s, j) /\ Walking(j)
    <3>1. b + 1 \in 0 .. len
      BY <2>4, <2>5
    <3>. QED
      BY <1>3, <1>4, <1>5, <2>1, <2>6, <2>7, <3>1 DEF Passed, ItFits, Walking
  <2>9. /\ show = Going(i.detached, Left(its, b))
        /\ next = Going(i.detached, Left(its, b + 1))
    BY <1>3, <2>1, <2>2, <2>7, <2>8, ShowingIs
  <2>10. Left(its, b) # <<>> /\ Left(its, b + 1) = Tail(Left(its, b))
    <3>. DEFINE q == Left(its, b)
    <3>. HIDE DEF its, len, q
    <3>1. /\ q \in Seq(Keys) /\ Len(q) = len - b
          /\ \A n \in 1 .. len - b : q[n] = its[b + n].key
      BY <2>3, <2>4, LeftTyped DEF q
    <3>2. len - b \in Nat /\ len - b # 0 /\ len - (b + 1) = (len - b) - 1
      BY <2>4, <2>5
    <3>7. q # <<>>
      BY <3>1, <3>2
    <3>3. \A n \in 1 .. (len - b) - 1 : n + 1 \in 1 .. len - b /\ b + (n + 1) = (b + 1) + n
      <4>1. len \in Nat /\ b \in Nat
        BY <2>4, <2>5
      <4>. QED
        BY <4>1
    <3>4. Tail(q) = [n \in 1 .. (len - b) - 1 |-> q[n + 1]]
      <4>1. /\ Tail(q) \in Seq(Keys) /\ Len(Tail(q)) = Len(q) - 1
            /\ \A n \in 1 .. Len(Tail(q)) : Tail(q)[n] = q[n + 1]
        BY <3>1, <3>7, HeadTailProperties
      <4>. DEFINE t == Tail(q)
                  m == (len - b) - 1
      <4>. HIDE DEF t, m
      <4>2. t \in Seq(Keys) /\ Len(t) = m /\ \A n \in 1 .. m : t[n] = q[n + 1]
        BY <3>1, <4>1 DEF t, m
      <4>3. t = [n \in 1 .. m |-> t[n]]
        BY <4>2
      <4>. QED
        BY <4>2, <4>3 DEF t, m
    <3>5. Left(its, b + 1) = [n \in 1 .. (len - b) - 1 |-> its[(b + 1) + n].key]
      BY <2>4, <3>2 DEF Left
    <3>6. \A n \in 1 .. (len - b) - 1 : q[n + 1] = its[(b + 1) + n].key
      BY <3>1, <3>3
    <3>. QED
      BY <3>4, <3>5, <3>6, <3>7 DEF q
  <2>. DEFINE l1 == Left(its, b)
              l2 == Left(its, b + 1)
  <2>. HIDE DEF l1, l2
  <2>11. \A dt \in BOOLEAN : /\ Going(dt, l1).on /\ ~Going(dt, l1).disturbed /\ Going(dt, l1).left = l1
                            /\ [Going(dt, l1) EXCEPT !.left = l2] = Going(dt, l2)
    <3>1. TAKE dt \in BOOLEAN
    <3>. DEFINE T == [on : BOOLEAN, left : {l1, l2}, detached : BOOLEAN, disturbed : BOOLEAN]
                x == Going(dt, l1)
                y == Going(dt, l2)
                z == [x EXCEPT !.left = l2]
    <3>2. /\ x \in T /\ x.on /\ ~x.disturbed /\ x.left = l1 /\ x.detached = dt
          /\ y \in T /\ y.on /\ ~y.disturbed /\ y.left = l2 /\ y.detached = dt
      BY DEF Going
    <3>3. \A v \in T : LET c == [v EXCEPT !.left = l2]
                       IN  /\ c \in T /\ c.on = v.on /\ c.disturbed = v.disturbed /\ c.left = l2
                           /\ c.detached = v.detached
      OBVIOUS
    <3>4. z \in T /\ z.on /\ ~z.disturbed /\ z.left = l2 /\ z.detached = dt
      BY <3>2, <3>3
    <3>. HIDE DEF x, y, z
    <3>5. z = y
      BY <3>2, <3>4, SameFields
    <3>. QED
      BY <3>2, <3>5 DEF x, y, z
  <2>14. i.detached \in BOOLEAN
    BY <1>1
  <2>. HIDE DEF show, next, HandsOut
  <2>12. show.on /\ ~show.disturbed /\ show.left = l1
    BY <2>9, <2>11, <2>14 DEF l1
  <2>13. [show EXCEPT !.left = Tail(@)] = next
    <3>1. [show EXCEPT !.left = Tail(@)] = [show EXCEPT !.left = l2]
      BY <2>10, <2>12 DEF l1, l2
    <3>. QED
      BY <2>9, <2>11, <2>14, <3>1 DEF l1, l2
  <2>. QED
    BY <1>3, <2>7, <2>8, <2>10, <2>12, <2>13 DEF show, next, l1, HandsOut
<1>. QED
  BY <1>6, <1>7

-----------------------------------------------------------------------------
(* The hash and what the iterator walks, its own storage once it is        *)
(* detached, in every state.                                               *)
MapInv == DictInv /\ \E w : Fits(Walked, w) /\ ItFits(w, it)

LEMMA IterationIs == Iteration = Showing(Walked, it)
BY DEF Iteration, Showing

LEMMA ItemsNext ==
  ASSUME NEW u, Fits(dict', u)
  PROVE  Items' = ItemsOf(dict', u)
<1>1. From(dict', dict'.first_entry) = u
  BY WalkIsChain DEF Fits
<1>. QED
  BY <1>1 DEF Items, Slots, ItemsOf, Item, ItemOf

(* A hash that has not left its iterator behind.                           *)
LEMMA Stays ==
  ASSUME MapInv, ~it.detached
  PROVE  \E s : Fits(dict, s) /\ ItFits(s, it) /\ Map!Now = NowIs(dict, s, it)
<1>1. Walked = dict
  BY DEF Walked
<1>2. PICK s : Fits(dict, s) /\ ItFits(s, it)
  BY <1>1 DEF MapInv
<1>3. Items = ItemsOf(dict, s)
  BY <1>2, ItemsAre
<1>4. Map!Now = NowIs(dict, s, it)
  BY <1>1, <1>3, IterationIs DEF Map!Now, NowIs
<1>. QED
  BY <1>2, <1>4

LEMMA Arrives ==
  ASSUME NEW u, Fits(dict', u), ItFits(u, it'), ~(it'.detached), content' \in [Keys -> DOMAIN HashOf]
  PROVE  /\ MapInv'
         /\ Items' = NowIs(dict', u, it').items /\ Iteration' = NowIs(dict', u, it').iter
<1>1. Walked' = dict'
  BY DEF Walked
<1>2. Iteration' = Showing(dict', it')
  BY <1>1 DEF Iteration, Showing
<1>3. MapInv'
  BY <1>1 DEF MapInv, DictInv
<1>. QED
  BY <1>2, <1>3, ItemsNext DEF NowIs

(* What the program sees of the hash after a step.                         *)
LEMMA NowNext ==
  ASSUME NEW m, NEW items, NEW iter, m = [items |-> items, iter |-> iter],
         Items' = items, Iteration' = iter
  PROVE  Map!Now' = m
BY DEF Map!Now

LEMMA StoreMaps ==
  ASSUME EqlDeletes, MapInv, Store
  PROVE  MapInv' /\ Map!Store
<1>1. PICK calls \in Callbacks, k \in Keys, v \in Values : Assign(k, v, calls)
  BY DEF Store
<1>. DEFINE key == Stored(k)
            added == ~At(dict, key, calls).found \/ Added(calls)
<1>2. /\ ~it.detached /\ dict' = setitem(dict, key, v, calls) /\ content' = content
      /\ At(dict, key, calls).called = Len(calls)
      /\ Disturb(added, Gone(calls))
  BY <1>1 DEF Assign, Quiet
<1>. HIDE DEF added
<1>3. it' = Touched(dict, it, added, Gone(calls))
  BY <1>2, DisturbIs
<1>4. PICK s : Fits(dict, s) /\ Attached(s)
  BY <1>2, Stays DEF Attached
<1>5. content \in [Keys -> DOMAIN HashOf] /\ key \in Keys
  BY StoredIsKey DEF MapInv, DictInv
<1>. HIDE DEF key
<1>6. StoreMay(key, v, calls)
  BY <1>2, <1>4, <1>5, StoreStep
<1>7. PICK u, p : \E m \in Map!Compared :
        /\ Fits(dict', u) /\ dict'.kind = dict.kind /\ ItFits(u, it') /\ ~(it'.detached)
        /\ p \in Map!Finds(dict.kind, m.items, key)
        /\ NowIs(dict', u, it').items = Map!Put(dict.kind, m.items, p, key, v)
        /\ NowIs(dict', u, it').iter = Map!Disturbing(m.iter, p # 0)
  <2>. DEFINE e == setitem(dict, key, v, calls)
              j == Touched(dict, it, added, Gone(calls))
  <2>1. \E u, p : \E m \in Map!Compared :
          /\ Fits(e, u) /\ e.kind = dict.kind /\ ItFits(u, j) /\ ~j.detached
          /\ p \in Map!Finds(dict.kind, m.items, key)
          /\ NowIs(e, u, j).items = Map!Put(dict.kind, m.items, p, key, v)
          /\ NowIs(e, u, j).iter = Map!Disturbing(m.iter, p # 0)
    BY <1>6 DEF StoreMay, added
  <2>2. e = dict' /\ j = it'
    BY <1>2, <1>3
  <2>. HIDE DEF e, j
  <2>. QED
    BY <2>1, <2>2
<1>8. PICK m \in Map!Compared :
        /\ Fits(dict', u) /\ dict'.kind = dict.kind /\ ItFits(u, it') /\ ~(it'.detached)
        /\ p \in Map!Finds(dict.kind, m.items, key)
        /\ NowIs(dict', u, it').items = Map!Put(dict.kind, m.items, p, key, v)
        /\ NowIs(dict', u, it').iter = Map!Disturbing(m.iter, p # 0)
  BY <1>7
<1>9. /\ MapInv' /\ Items' = Map!Put(dict.kind, m.items, p, key, v)
      /\ Iteration' = Map!Disturbing(m.iter, p # 0)
  BY <1>2, <1>5, <1>8, Arrives
<1>10. Map!Now' = Map!Stored(m, p, key, v)
  BY <1>9, NowNext DEF Map!Stored
<1>11. Map!Stored(m, p, key, v) \in {Map!Stored(m, i, key, v) : i \in Map!Finds(dict.kind, m.items, key)}
  BY <1>8
<1>12. Map!Store
  <2>. DEFINE ms(k1, v1, m1) == {Map!Stored(m1, i, k1, v1) : i \in Map!Finds(dict.kind, m1.items, k1)}
  <2>1. Map!Now' \in ms(key, v, m)
    BY <1>10, <1>11
  <2>. HIDE DEF ms
  <2>2. Map!Now' \in UNION {ms(k1, v1, m1) : k1 \in Keys, v1 \in Values, m1 \in Map!Compared}
    BY <1>5, <2>1
  <2>. QED
    BY <1>2, <1>8, <2>2 DEF Map!Store, Map!Becomes, ms
<1>. QED
  BY <1>9, <1>12

LEMMA DeleteMaps ==
  ASSUME EqlDeletes, MapInv, Delete
  PROVE  MapInv' /\ Map!Delete
<1>1. PICK calls \in Callbacks, k \in Keys :
        LET r == At(dict, k, calls)
        IN  /\ Quiet
            /\ r.called = Len(calls)
            /\ dict' = pop(dict, k, calls)
            /\ Disturb(Added(calls), Gone(calls) \cup (IF r.found THEN {r.slot} ELSE {}))
            /\ UNCHANGED content
  BY DEF Delete
<1>. DEFINE r == At(dict, k, calls)
            slots == Gone(calls) \cup (IF r.found THEN {r.slot} ELSE {})
<1>2. /\ ~it.detached /\ dict' = pop(dict, k, calls) /\ content' = content
      /\ At(dict, k, calls).called = Len(calls)
      /\ Disturb(Added(calls), slots)
  BY <1>1 DEF Quiet
<1>3. PICK s : Fits(dict, s) /\ Attached(s)
  BY <1>2, Stays DEF Attached
<1>4. ~Added(calls)
  BY <1>3, AllTold DEF Told
<1>5. it' = Less(dict, it, slots)
  <2>. HIDE DEF slots
  <2>1. it' = Touched(dict, it, Added(calls), slots)
    BY <1>2, DisturbIs
  <2>. QED
    BY <1>4, <2>1 DEF Less, Touched, Hit
<1>6. content \in [Keys -> DOMAIN HashOf]
  BY DEF MapInv, DictInv
<1>7. DeleteMay(k, calls)
  BY <1>2, <1>3, <1>6, DeleteStep
<1>8. PICK u, p : \E m \in Map!Compared :
        /\ Fits(dict', u) /\ dict'.kind = dict.kind /\ ItFits(u, it') /\ ~(it'.detached)
        /\ p \in Map!Finds(dict.kind, m.items, k)
        /\ NowIs(dict', u, it') = IF p = 0 THEN m ELSE Map!Deleted(m, p)
  <2>. DEFINE e == pop(dict, k, calls)
              j == Less(dict, it, slots)
  <2>1. \E u, p : \E m \in Map!Compared :
          /\ Fits(e, u) /\ e.kind = dict.kind /\ ItFits(u, j) /\ ~j.detached
          /\ p \in Map!Finds(dict.kind, m.items, k)
          /\ NowIs(e, u, j) = IF p = 0 THEN m ELSE Map!Deleted(m, p)
    BY <1>7 DEF DeleteMay
  <2>2. e = dict' /\ j = it'
    BY <1>2, <1>5
  <2>. HIDE DEF e, j
  <2>. QED
    BY <2>1, <2>2
<1>. HIDE DEF slots
<1>9. PICK m \in Map!Compared :
        /\ Fits(dict', u) /\ dict'.kind = dict.kind /\ ItFits(u, it') /\ ~(it'.detached)
        /\ p \in Map!Finds(dict.kind, m.items, k)
        /\ NowIs(dict', u, it') = IF p = 0 THEN m ELSE Map!Deleted(m, p)
  BY <1>8
<1>10. MapInv' /\ Items' = NowIs(dict', u, it').items /\ Iteration' = NowIs(dict', u, it').iter
  BY <1>2, <1>6, <1>9, Arrives
<1>11. Map!Now' = IF p = 0 THEN m ELSE Map!Deleted(m, p)
  <2>1. Map!Now' = NowIs(dict', u, it')
    BY <1>10, NowNext DEF NowIs
  <2>. QED
    BY <1>9, <2>1
<1>12. Map!Delete
  <2>. DEFINE ms(k1, m1) == {IF i = 0 THEN m1 ELSE Map!Deleted(m1, i) : i \in Map!Finds(dict.kind, m1.items, k1)}
  <2>1. Map!Now' \in ms(k, m)
    BY <1>9, <1>11
  <2>. HIDE DEF ms
  <2>2. Map!Now' \in UNION {ms(k1, m1) : k1 \in Keys, m1 \in Map!Compared}
    BY <2>1
  <2>. QED
    BY <1>2, <1>9, <2>2 DEF Map!Delete, Map!Becomes, ms
<1>. QED
  BY <1>10, <1>12

LEMMA ClearMaps ==
  ASSUME MapInv, Clear
  PROVE  MapInv' /\ Map!Clear
<1>1. /\ ~it.detached /\ dict' = clear(dict) /\ content' = content
      /\ Disturb(FALSE, Used(dict))
  BY DEF Clear, Quiet
<1>2. it' = Less(dict, it, Used(dict))
  BY <1>1, DisturbIs DEF Less
<1>3. PICK s : Fits(dict, s) /\ ItFits(s, it) /\ Map!Now = NowIs(dict, s, it)
  BY <1>1, Stays
<1>4. /\ ItFits(<<>>, it') /\ ~(it'.detached) /\ Map!Cleared(Map!Now) = NowIs(dict', <<>>, it')
      /\ Fits(dict', <<>>) /\ dict'.kind = dict.kind
  BY <1>1, <1>2, <1>3, ClearIter, ClearFits
<1>5. content' \in [Keys -> DOMAIN HashOf]
  BY <1>1 DEF MapInv, DictInv
<1>6. /\ MapInv' /\ Items' = Map!Cleared(Map!Now).items /\ Iteration' = Map!Cleared(Map!Now).iter
  BY <1>4, <1>5, Arrives
<1>7. Map!Now' = Map!Cleared(Map!Now)
  BY <1>6, NowNext DEF Map!Cleared
<1>. QED
  BY <1>1, <1>4, <1>6, <1>7 DEF Map!Clear, Map!Becomes

LEMMA ShiftMaps ==
  ASSUME MapInv, Shift
  PROVE  MapInv' /\ Map!Shift
<1>1. /\ ~it.detached /\ dict' = Del(dict, dict.first_entry) /\ content' = content
      /\ dict.num_items > 0 /\ Disturb(FALSE, {dict.first_entry})
  BY DEF Shift, Quiet, popitem
<1>2. it' = Less(dict, it, {dict.first_entry})
  BY <1>1, DisturbIs DEF Less
<1>3. PICK s : Fits(dict, s) /\ ItFits(s, it) /\ Map!Now = NowIs(dict, s, it)
  BY <1>1, Stays
<1>4. /\ 1 \in 1 .. Len(s) /\ dict.first_entry = s[1]
      /\ Len(Items) = Len(s) /\ Items \in Seq(AnItem) /\ Len(s) > 0
  <2>1. s \in Seq(Nat) /\ DOMAIN s = 1 .. Len(s) /\ Len(s) \in Nat /\ Len(s) > 0
    BY <1>1, <1>3, ChainFacts DEF Fits, Chain
  <2>2. 1 \in 1 .. Len(s)
    BY <2>1
  <2>3. Items \in Seq(AnItem) /\ Len(Items) = Len(s)
    BY <1>3, ItemsAre, ItemsTyped DEF Fits
  <2>. QED
    BY <1>3, <2>1, <2>2, <2>3 DEF Fits, Chain, Nth
<1>5. /\ ItFits(RemoveAt(s, 1), it') /\ ~(it'.detached)
      /\ Map!Deleted(Map!Now, 1) = NowIs(dict', RemoveAt(s, 1), it')
      /\ Fits(dict', RemoveAt(s, 1)) /\ dict'.kind = dict.kind
  <2>. DEFINE e == Del(dict, s[1])
              t == RemoveAt(s, 1)
              j == Less(dict, it, {s[1]})
  <2>1. ItFits(t, j) /\ ~j.detached /\ Map!Deleted(NowIs(dict, s, it), 1) = NowIs(e, t, j)
    BY <1>1, <1>3, <1>4, DelIter
  <2>2. Fits(e, t) /\ e.kind = dict.kind
    BY <1>3, <1>4, DelFits
  <2>3. e = dict' /\ j = it'
    BY <1>1, <1>2, <1>4
  <2>. HIDE DEF e, j
  <2>. QED
    BY <1>3, <2>1, <2>2, <2>3
<1>6. content' \in [Keys -> DOMAIN HashOf]
  BY <1>1 DEF MapInv, DictInv
<1>7. /\ MapInv' /\ Items' = Map!Deleted(Map!Now, 1).items /\ Iteration' = Map!Deleted(Map!Now, 1).iter
  BY <1>5, <1>6, Arrives
<1>8. Items # <<>>
  BY <1>4
<1>9. Map!Now' = Map!Deleted(Map!Now, 1)
  BY <1>7, NowNext DEF Map!Deleted
<1>. QED
  BY <1>1, <1>5, <1>7, <1>8, <1>9 DEF Map!Shift, Map!Becomes

LEMMA DetachMaps ==
  ASSUME MapInv, ~it.detached, Detach, NEW u, Fits(dict', u), content' = content
  PROVE  MapInv' /\ Iteration' = Map!Detached
<1>1. PICK s : Fits(dict, s) /\ ItFits(s, it)
  BY Stays
<1>2. it' = IF it.on /\ ~it.detached THEN [it EXCEPT !.detached = TRUE, !.own = dict] ELSE it
  BY DEF Detach
<1>. DEFINE w == IF it'.detached THEN it'.own ELSE dict'
            show == Showing(dict, it)
<1>3. /\ \E q : Fits(w, q) /\ ItFits(q, it')
      /\ Showing(w, it') = IF show.on /\ ~show.disturbed THEN [show EXCEPT !.detached = TRUE] ELSE show
  <2>1. Renewed(dict, it, dict', it')
    BY <1>1, <1>2, RenewStep
  <2>. QED
    BY <2>1 DEF Renewed
<1>4. Walked' = w /\ Iteration = show
  BY IterationIs DEF Walked
<1>5. Iteration' = Showing(w, it')
  BY <1>4 DEF Iteration, Showing
<1>6. MapInv'
  BY <1>3, <1>4 DEF MapInv, DictInv
<1>7. Iteration' = Map!Detached
  BY <1>3, <1>4, <1>5 DEF Map!Detached
<1>. QED
  BY <1>6, <1>7

LEMMA RenewMaps ==
  ASSUME MapInv, rehash \/ compare_by_identity \/ replace
  PROVE  MapInv' /\ Map!Renew
<1>1. ~it.detached /\ Detach /\ content' = content
  BY DEF rehash, compare_by_identity, replace, Quiet
<1>2. PICK s : Fits(dict, s)
  BY DEF MapInv, DictInv
<1>3. CASE rehash \/ compare_by_identity
  <2>1. PICK kd \in {dict.kind, Identity} : dict' = Refilled(kd)
    BY <1>3 DEF rehash, compare_by_identity
  <2>2. kd \in {Eql, Identity} /\ DictInv
    BY <1>2, <2>1, DictFacts DEF Fits, MapInv
  <2>3. PICK u : Fits(dict', u) /\ dict'.kind = kd /\ ItemsOf(dict', u) = Map!Restored(kd, Items)
    BY <2>1, <2>2, RefilledFits
  <2>4. Items' = Map!Restored(kd, Items)
    BY <2>3, ItemsNext
  <2>5. MapInv' /\ Iteration' = Map!Detached
    BY <1>1, <2>3, DetachMaps
  <2>6. kd \in {dict.kind, "identity"}
    BY <2>1 DEF Identity
  <2>. QED
    BY <1>1, <2>3, <2>4, <2>5, <2>6 DEF Map!Renew
<1>4. CASE replace
  <2>1. dict' = dict
    BY <1>4 DEF replace, copy
  <2>2. Items' = Items
    BY <2>1 DEF Items, Slots, Item
  <2>3. MapInv' /\ Iteration' = Map!Detached
    BY <1>1, <1>2, <2>1, DetachMaps
  <2>. QED
    BY <1>1, <2>1, <2>2, <2>3 DEF Map!Renew
<1>. QED
  BY <1>3, <1>4

(* The hash is left alone, and perhaps the iterator.                       *)
LEMMA ItemsStay ==
  ASSUME dict' = dict
  PROVE  Items' = Items
<1>1. dict' = dict
  OBVIOUS
<1>. QED
  BY <1>1 DEF Items, Slots, Item

LEMMA MutateMaps ==
  ASSUME MapInv, Mutate
  PROVE  MapInv' /\ Map!Mutate
<1>1. dict' = dict /\ it' = it /\ content' \in [Keys -> DOMAIN HashOf]
  BY DEF Mutate, MapInv, DictInv
<1>2. Walked' = Walked /\ Items' = Items
  <2>1. Walked' = Walked
    BY <1>1 DEF Walked
  <2>2. Items' = Items
    BY <1>1, ItemsStay
  <2>. QED
    BY <2>1, <2>2
<1>3. Iteration' = Iteration
  BY <1>1, <1>2 DEF Iteration
<1>4. MapInv'
  BY <1>1, <1>2 DEF MapInv, DictInv
<1>. QED
  BY <1>1, <1>2, <1>3, <1>4 DEF Map!Mutate

(* The iteration is over.                                                  *)
LEMMA NoIteratorMaps ==
  ASSUME MapInv, dict' = dict, content' = content, it' = NoIterator
  PROVE  MapInv' /\ Items' = Items /\ Iteration' = Map!NoIteration
<1>1. PICK s : Fits(dict', s)
  BY DEF MapInv, DictInv
<1>2. ItFits(s, it') /\ ~(it'.detached) /\ Showing(dict', it') = Map!NoIteration
  BY <1>1, NoIteratorFits
<1>3. content' \in [Keys -> DOMAIN HashOf]
  BY DEF MapInv, DictInv
<1>. QED
  BY <1>1, <1>2, <1>3, Arrives, ItemsStay DEF NowIs

LEMMA EachMaps ==
  ASSUME MapInv, Each \/ Leave
  PROVE  MapInv' /\ Map!Each
<1>1. dict' = dict /\ content' = content
  BY DEF Each, Leave
<1>2. CASE Leave
  <2>1. MapInv' /\ Items' = Items /\ Iteration' = Map!NoIteration
    BY <1>1, <1>2, NoIteratorMaps DEF Leave
  <2>. QED
    BY <1>1, <2>1 DEF Map!Each
<1>3. CASE Each
  <2>1. it' = [NoIterator EXCEPT !.on = TRUE, !.index = newdictiter(dict)]
    BY <1>3 DEF Each
  <2>2. PICK s : Fits(dict, s)
    BY DEF MapInv, DictInv
  <2>3. Items = ItemsOf(dict, s)
    BY <2>2, ItemsAre
  <2>4. /\ ItFits(s, it') /\ ~(it'.detached)
        /\ Showing(dict, it') = [Map!NoIteration EXCEPT !.on = TRUE,
                                                        !.left = [n \in DOMAIN Items |-> Items[n].key]]
    <3>1. BeginsAt(dict, s, it')
      BY <2>1, <2>2, BeginStep
    <3>. QED
      BY <2>3, <3>1 DEF BeginsAt
  <2>5. Showing(dict, it') = Map!Begun
    BY <2>4 DEF Map!Begun
  <2>6. content' \in [Keys -> DOMAIN HashOf]
    BY <1>1 DEF MapInv, DictInv
  <2>7. MapInv' /\ Items' = Items /\ Iteration' = Map!Begun
    BY <1>1, <2>2, <2>4, <2>5, <2>6, Arrives, ItemsStay DEF NowIs
  <2>. QED
    BY <1>1, <2>7 DEF Map!Each
<1>. QED
  BY <1>2, <1>3

LEMMA HandOutMaps ==
  ASSUME MapInv, HandOut
  PROVE  MapInv' /\ Map!HandOut
<1>1. /\ it.on /\ it.index # -1 /\ dict' = dict /\ content' = content
      /\ it' = IF InRange(Walked, it.index) /\ Walked.entries[it.index].valid
               THEN [it EXCEPT !.index = iternext(Walked, @).index] ELSE NoIterator
  BY DEF HandOut, AtEnd
<1>2. PICK w : Fits(Walked, w) /\ ItFits(w, it)
  BY DEF MapInv
<1>. DEFINE show == Showing(Walked, it)
            next == Showing(Walked, it')
<1>3. /\ show.on
      /\ \/ it' = NoIterator /\ show.disturbed
         \/ /\ ItFits(w, it') /\ it'.detached = it.detached /\ it'.own = it.own
            /\ IF show.disturbed THEN next = show
               ELSE show.left # <<>> /\ next = [show EXCEPT !.left = Tail(@)]
  <2>. DEFINE d == Walked
  <2>1. Fits(d, w) /\ ItFits(w, it) /\ it.on /\ it.index # -1
    BY <1>1, <1>2
  <2>2. it' = IF InRange(d, it.index) /\ d.entries[it.index].valid
              THEN [it EXCEPT !.index = iternext(d, @).index] ELSE NoIterator
    BY <1>1
  <2>. HIDE DEF d
  <2>3. HandsOut(d, w, it, it')
    BY <2>1, <2>2, HandOutStep
  <2>. QED
    BY <2>3 DEF HandsOut, d
<1>4. Iteration = show /\ Items' = Items
  BY <1>1, IterationIs, ItemsStay
<1>5. CASE it' = NoIterator /\ show.disturbed
  <2>1. MapInv' /\ Items' = Items /\ Iteration' = Map!NoIteration
    BY <1>1, <1>5, NoIteratorMaps
  <2>. HIDE DEF show, next
  <2>. QED
    BY <1>1, <1>3, <1>4, <1>5, <2>1 DEF Map!HandOut
<1>6. CASE /\ ItFits(w, it') /\ it'.detached = it.detached /\ it'.own = it.own
           /\ IF show.disturbed THEN next = show
              ELSE show.left # <<>> /\ next = [show EXCEPT !.left = Tail(@)]
  <2>1. Walked' = Walked
    BY <1>1, <1>6 DEF Walked
  <2>2. Iteration' = next
    BY <2>1 DEF Iteration, Showing
  <2>3. MapInv'
    BY <1>1, <1>2, <1>6, <2>1 DEF MapInv, DictInv
  <2>. HIDE DEF show, next
  <2>4. Iteration' \in IF show.disturbed THEN {show, Map!NoIteration}
                       ELSE IF show.left = <<>> THEN {Map!NoIteration}
                       ELSE {[show EXCEPT !.left = Tail(@)]}
    BY <1>6, <2>2
  <2>. QED
    BY <1>1, <1>3, <1>4, <2>3, <2>4 DEF Map!HandOut
<1>. QED
  BY <1>3, <1>5, <1>6

LEMMA InitMaps == Init => MapInv /\ Map!Init
<1>. SUFFICES ASSUME Init PROVE MapInv /\ Map!Init
  OBVIOUS
<1>1. /\ dict = newdict(Eql, INIT_SIZE) /\ it = NoIterator /\ DictInv
      /\ content \in [Keys -> DOMAIN HashOf]
  BY InitDict DEF Init, DictInv
<1>2. Fits(dict, <<>>) /\ ItemsOf(dict, <<>>) = <<>> /\ dict.kind = Eql
  BY <1>1, DictAssumption, NewdictFits DEF PowerOfTwo, newdict
<1>3. ItFits(<<>>, it) /\ ~it.detached /\ Showing(dict, it) = Map!NoIteration
  BY <1>1, <1>2, NoIteratorFits
<1>4. Walked = dict
  BY <1>3 DEF Walked
<1>5. Items = <<>> /\ Iteration = Map!NoIteration
  BY <1>2, <1>3, <1>4, ItemsAre, IterationIs
<1>. QED
  BY <1>1, <1>2, <1>3, <1>4, <1>5 DEF MapInv, Map!Init, Eql

LEMMA NextMaps ==
  EqlDeletes /\ MapInv /\ [Next]_vars => MapInv' /\ [Map!Next]_(Map!vars)
<1>. SUFFICES ASSUME EqlDeletes, MapInv, [Next]_vars PROVE MapInv' /\ [Map!Next]_(Map!vars)
  OBVIOUS
<1>1. CASE Store
  BY <1>1, StoreMaps DEF Map!Next
<1>2. CASE Delete
  BY <1>2, DeleteMaps DEF Map!Next
<1>3. CASE Clear
  BY <1>3, ClearMaps DEF Map!Next
<1>4. CASE Shift
  BY <1>4, ShiftMaps DEF Map!Next
<1>5. CASE rehash \/ compare_by_identity \/ replace
  BY <1>5, RenewMaps DEF Map!Next
<1>6. CASE Mutate
  BY <1>6, MutateMaps DEF Map!Next
<1>7. CASE Each \/ Leave
  BY <1>7, EachMaps DEF Map!Next
<1>8. CASE HandOut
  BY <1>8, HandOutMaps DEF Map!Next
<1>9. CASE UNCHANGED vars
  <2>1. dict' = dict /\ it' = it /\ content' = content
    BY <1>9 DEF vars
  <2>2. Walked' = Walked /\ Items' = Items
    BY <2>1, ItemsStay DEF Walked
  <2>3. Iteration' = Iteration
    BY <2>1, <2>2 DEF Iteration
  <2>4. MapInv'
    BY <2>1, <2>2 DEF MapInv, DictInv
  <2>5. UNCHANGED Map!vars
    BY <2>1, <2>2, <2>3 DEF Map!vars
  <2>. QED
    BY <2>4, <2>5
<1>. QED
  BY <1>1, <1>2, <1>3, <1>4, <1>5, <1>6, <1>7, <1>8, <1>9 DEF Next

(* The invariant, with what the iterator walks and where it is.            *)
THEOREM MapInvariant ==
  ASSUME EqlDeletes
  PROVE  Spec => []MapInv
<1>1. Init => MapInv
  BY InitMaps
<1>2. MapInv /\ [Next]_vars => MapInv'
  BY NextMaps
<1>. QED
  BY <1>1, <1>2, PTL DEF Spec

(* The hash is an ordered map, whatever the program does between two steps *)
(* of an iteration and to its keys, and however often eql? deletes from it *)
(* or clears it while a key to store or delete is searched                 *)
(* (ordereddict.py, Hash#each).                                            *)
THEOREM HashImplementsOrderedMap ==
  ASSUME EqlDeletes
  PROVE  Spec => ImplementsOrderedMap
<1>1. Init => Map!Init
  BY InitMaps
<1>2. MapInv /\ [Next]_vars => [Map!Next]_(Map!vars)
  BY NextMaps
<1>. QED
  BY <1>1, <1>2, MapInvariant, PTL DEF Spec, ImplementsOrderedMap, Map!Spec
===============================================================================
