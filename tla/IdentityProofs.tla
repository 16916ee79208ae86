--------------------------- MODULE IdentityProofs ---------------------------
(* What IdentityConstraints promises for any variables and blocks.         *)
EXTENDS IdentityConstraints, TLAPS, WellFoundedInduction, SequenceTheorems, FiniteSetTheorems

-----------------------------------------------------------------------------
(* The walk over the links.                                                *)

(* A non-empty set of naturals has a least element.                        *)
LEMMA LeastNatural ==
  ASSUME NEW I \in SUBSET Nat, I # {}
  PROVE  \E i \in I : \A j \in I : i <= j
<1>. DEFINE R == {ss \in Nat \X Nat : ss[1] < ss[2]}
<1>1. IsWellFoundedOn(R, Nat)
  BY NatLessThanWellFounded, Zenon DEF OpToRel
<1>2. PICK i \in I : \A j \in I : ~ (<<j, i>> \in R)
  <2>. HIDE DEF R
  <2>. QED  BY <1>1, WFMin
<1>3. ASSUME NEW j \in I
      PROVE  i <= j
  <2>1. <<j, i>> \notin R /\ j \in Nat /\ i \in Nat
    BY <1>2
  <2>2. ~ (j < i)
    BY <2>1, Zenon DEF R
  <2>. QED
    BY <2>1, <2>2
<1>. QED
  BY <1>3

(* A step of a walk is a walk.                                             *)
LEMMA OneFurtherTyped ==
  ASSUME identical \in [Vars -> Seq(Vars)], NEW w \in Walks, w.todo # <<>>
  PROVE  OneFurther(w) \in Walks
<1>1. Head(w.todo) \in Vars /\ Tail(w.todo) \in Seq(Vars) /\ w.seen \in Seq(Vars)
  BY HeadTailProperties DEF Walks
<1>2. identical[Head(w.todo)] \o Tail(w.todo) \in Seq(Vars)
  BY <1>1, ConcatProperties
<1>3. Append(w.seen, Head(w.todo)) \in Seq(Vars)
  BY <1>1, AppendProperties
<1>. QED
  BY <1>1, <1>2, <1>3 DEF OneFurther, Walks

(* A trail of n places of a walk, from w to its end.                       *)
Trail(w, t, n) ==
  /\ t \in [1..n -> Walks] /\ t[1] = w /\ t[n].todo = <<>>
  /\ \A i \in 1..(n - 1) : t[i].todo # <<>> /\ t[i + 1] = OneFurther(t[i])
Ends(w) == {r \in Seq(Vars) : \E n \in Nat \ {0} : \E t \in [1..n -> Walks] : Trail(w, t, n) /\ t[n].seen = r}

LEMMA EndsAtOnce ==
  ASSUME NEW w \in Walks, w.todo = <<>>
  PROVE  Ends(w) = {w.seen}
<1>1. w.seen \in Ends(w)
  <2>. DEFINE t == [i \in 1..1 |-> w]
  <2>1. t \in [1..1 -> Walks] /\ Trail(w, t, 1) /\ t[1].seen = w.seen
    BY DEF Trail
  <2>2. w.seen \in Seq(Vars) /\ 1 \in Nat \ {0}
    BY DEF Walks
  <2>. HIDE DEF t
  <2>. QED
    BY <2>1, <2>2, Zenon DEF Ends
<1>2. ASSUME NEW r \in Ends(w)
      PROVE  r = w.seen
  <2>1. PICK n \in Nat \ {0} : \E t \in [1..n -> Walks] : Trail(w, t, n) /\ t[n].seen = r
    BY DEF Ends
  <2>2. PICK t \in [1..n -> Walks] : Trail(w, t, n) /\ t[n].seen = r
    BY <2>1
  <2>3. n = 1
    <3>1. 1 \in 1..(n - 1) => t[1].todo # <<>>
      BY <2>2 DEF Trail
    <3>. QED
      BY <3>1, <2>2 DEF Trail
  <2>. QED
    BY <2>2, <2>3 DEF Trail
<1>. QED
  BY <1>1, <1>2

LEMMA EndsAlong ==
  ASSUME identical \in [Vars -> Seq(Vars)], NEW w \in Walks, w.todo # <<>>
  PROVE  Ends(w) = Ends(OneFurther(w))
<1>. DEFINE v == OneFurther(w)
<1>0. v \in Walks
  BY OneFurtherTyped
<1>1. ASSUME NEW r \in Ends(w)
      PROVE  r \in Ends(v)
  <2>1. PICK n \in Nat \ {0} : \E t \in [1..n -> Walks] : Trail(w, t, n) /\ t[n].seen = r
    BY DEF Ends
  <2>2. PICK t \in [1..n -> Walks] : Trail(w, t, n) /\ t[n].seen = r
    BY <2>1
  <2>3. n # 1
    BY <2>2 DEF Trail
  <2>. DEFINE u == [i \in 1..(n - 1) |-> t[i + 1]]
  <2>4. n - 1 \in Nat \ {0}
    BY <2>3
  <2>5. u \in [1..(n - 1) -> Walks] /\ u[1] = v /\ u[n - 1] = t[n]
    BY <2>2, <2>4 DEF Trail
  <2>6. ASSUME NEW i \in 1..(n - 1 - 1)
        PROVE  u[i].todo # <<>> /\ u[i + 1] = OneFurther(u[i])
    <3>1. i + 1 \in 1..(n - 1) /\ u[i] = t[i + 1] /\ u[i + 1] = t[(i + 1) + 1]
      BY <2>4
    <3>2. t[i + 1].todo # <<>> /\ t[(i + 1) + 1] = OneFurther(t[i + 1])
      BY <3>1, <2>2, Zenon DEF Trail
    <3>. QED
      BY <3>1, <3>2, Zenon
  <2>. HIDE DEF u, v
  <2>7. Trail(v, u, n - 1) /\ u[n - 1].seen = r /\ r \in Seq(Vars)
    BY <2>2, <2>5, <2>6 DEF Trail, Ends
  <2>. QED
    BY <2>4, <2>5, <2>7, Zenon DEF Ends
<1>2. ASSUME NEW r \in Ends(v)
      PROVE  r \in Ends(w)
  <2>1. PICK n \in Nat \ {0} : \E t \in [1..n -> Walks] : Trail(v, t, n) /\ t[n].seen = r
    BY DEF Ends
  <2>2. PICK t \in [1..n -> Walks] : Trail(v, t, n) /\ t[n].seen = r
    BY <2>1
  <2>. DEFINE u == [i \in 1..(n + 1) |-> IF i = 1 THEN w ELSE t[i - 1]]
  <2>4. n + 1 \in Nat \ {0}
    OBVIOUS
  <2>5. u \in [1..(n + 1) -> Walks] /\ u[1] = w /\ u[n + 1] = t[n]
    BY <2>2 DEF Trail
  <2>6. ASSUME NEW i \in 1..(n + 1 - 1)
        PROVE  u[i].todo # <<>> /\ u[i + 1] = OneFurther(u[i])
    <3>1. CASE i = 1
      BY <3>1, <2>2 DEF Trail
    <3>2. CASE i # 1
      <4>1. i - 1 \in 1..(n - 1) /\ u[i] = t[i - 1] /\ u[i + 1] = t[(i - 1) + 1]
        BY <3>2
      <4>2. t[i - 1].todo # <<>> /\ t[(i - 1) + 1] = OneFurther(t[i - 1])
        BY <4>1, <2>2, Zenon DEF Trail
      <4>. QED
        BY <4>1, <4>2, Zenon
    <3>. QED
      BY <3>1, <3>2
  <2>. HIDE DEF u, v
  <2>7. Trail(w, u, n + 1) /\ u[n + 1].seen = r /\ r \in Seq(Vars)
    BY <2>2, <2>5, <2>6 DEF Trail, Ends
  <2>. QED
    BY <2>4, <2>5, <2>7, Zenon DEF Ends
<1>. QED
  BY <1>1, <1>2

(* The recursive definition has a solution: the end of the trail, if any.  *)
LEMMA WalkUnfolds ==
  ASSUME identical \in [Vars -> Seq(Vars)]
  PROVE  \A w \in Walks : Walk[w] = IF w.todo = <<>> THEN w.seen ELSE Walk[OneFurther(w)]
<1>. DEFINE f == [w \in Walks |-> CHOOSE r : r \in Ends(w)]
<1>1. ASSUME NEW w \in Walks
      PROVE  f[w] = IF w.todo = <<>> THEN w.seen ELSE f[OneFurther(w)]
  <2>1. CASE w.todo = <<>>
    BY <2>1, EndsAtOnce
  <2>2. CASE w.todo # <<>>
    BY <2>2, EndsAlong, OneFurtherTyped
  <2>. QED
    BY <2>1, <2>2
<1>. DEFINE F(g) == [w \in Walks |-> IF w.todo = <<>> THEN w.seen ELSE g[OneFurther(w)]]
<1>2. f = F(f)
  BY <1>1
<1>3. \E g : g = F(g)
  <2>. HIDE DEF f, F
  <2>. QED  BY <1>2
<1>4. Walk = F(Walk)
  BY <1>3 DEF Walk
<1>. QED
  BY <1>4

-----------------------------------------------------------------------------
(* What sequences contain.                                                 *)

Injective(q) == \A i, j \in DOMAIN q : q[i] = q[j] => i = j

LEMMA ContainsConcat ==
  ASSUME NEW S, NEW q \in Seq(S), NEW p \in Seq(S), NEW y
  PROVE  Contains(q \o p, y) <=> Contains(q, y) \/ Contains(p, y)
<1>. DEFINE r == q \o p
<1>1. /\ Len(q) \in Nat /\ Len(p) \in Nat /\ DOMAIN q = 1..Len(q) /\ DOMAIN p = 1..Len(p)
      /\ DOMAIN r = 1..(Len(q) + Len(p))
      /\ \A i \in 1..(Len(q) + Len(p)) : r[i] = IF i <= Len(q) THEN q[i] ELSE p[i - Len(q)]
  BY ConcatProperties, LenProperties
<1>. HIDE DEF r
<1>2. ASSUME NEW i \in DOMAIN r, r[i] = y
      PROVE  Contains(q, y) \/ Contains(p, y)
  <2>1. CASE i <= Len(q)
    BY <1>1, <1>2, <2>1 DEF Contains
  <2>2. CASE ~ (i <= Len(q))
    <3>1. i - Len(q) \in DOMAIN p /\ p[i - Len(q)] = y
      BY <1>1, <1>2, <2>2
    <3>. QED
      BY <3>1 DEF Contains
  <2>. QED
    BY <2>1, <2>2
<1>3. ASSUME NEW i \in DOMAIN q, q[i] = y
      PROVE  Contains(r, y)
  <2>1. i \in DOMAIN r /\ r[i] = y
    BY <1>1, <1>3
  <2>. QED
    BY <2>1 DEF Contains
<1>4. ASSUME NEW i \in DOMAIN p, p[i] = y
      PROVE  Contains(r, y)
  <2>1. i + Len(q) \in DOMAIN r /\ r[i + Len(q)] = y
    BY <1>1, <1>4
  <2>. QED
    BY <2>1 DEF Contains
<1>. QED
  BY <1>2, <1>3, <1>4 DEF Contains, r

LEMMA ContainsOne ==
  ASSUME NEW x, NEW y
  PROVE  Contains(<<x>>, y) <=> y = x
  BY DEF Contains

LEMMA ContainsAppend ==
  ASSUME NEW S, NEW q \in Seq(S), NEW x \in S, NEW y
  PROVE  Contains(Append(q, x), y) <=> Contains(q, y) \/ y = x
<1>1. <<x>> \in Seq(S) /\ Append(q, x) = q \o <<x>>
  BY AppendIsConcat
<1>2. Contains(q \o <<x>>, y) <=> Contains(q, y) \/ Contains(<<x>>, y)
  BY <1>1, ContainsConcat
<1>. QED
  BY <1>1, <1>2, ContainsOne

LEMMA ContainsHead ==
  ASSUME NEW S, NEW q \in Seq(S), q # <<>>, NEW y
  PROVE  Contains(q, y) <=> y = Head(q) \/ Contains(Tail(q), y)
<1>1. q = <<Head(q)>> \o Tail(q)
  OBVIOUS
<1>2. <<Head(q)>> \in Seq(S) /\ Tail(q) \in Seq(S)
  BY HeadTailProperties
<1>3. Contains(<<Head(q)>> \o Tail(q), y) <=> Contains(<<Head(q)>>, y) \/ Contains(Tail(q), y)
  BY <1>2, ContainsConcat
<1>. QED
  BY <1>1, <1>3, ContainsOne

LEMMA InjectiveAppend ==
  ASSUME NEW S, NEW q \in Seq(S), NEW x \in S, Injective(q), ~Contains(q, x)
  PROVE  Injective(Append(q, x))
<1>1. /\ DOMAIN Append(q, x) = 1..(Len(q) + 1) /\ DOMAIN q = 1..Len(q) /\ Len(q) \in Nat
      /\ \A i \in 1..Len(q) : Append(q, x)[i] = q[i]
      /\ Append(q, x)[Len(q) + 1] = x
  BY AppendProperties, LenProperties
<1>. DEFINE r == Append(q, x)
<1>. HIDE DEF r
<1>2. ASSUME NEW i \in DOMAIN r, NEW j \in DOMAIN r, r[i] = r[j]
      PROVE  i = j
  <2>1. CASE i \in 1..Len(q) /\ j \in 1..Len(q)
    BY <1>1, <1>2, <2>1 DEF Injective, r
  <2>2. CASE i \notin 1..Len(q) /\ j \in 1..Len(q)
    BY <1>1, <1>2, <2>2 DEF Contains, r
  <2>3. CASE i \in 1..Len(q) /\ j \notin 1..Len(q)
    BY <1>1, <1>2, <2>3 DEF Contains, r
  <2>4. CASE i \notin 1..Len(q) /\ j \notin 1..Len(q)
    BY <1>1, <2>4 DEF r
  <2>. QED
    BY <2>1, <2>2, <2>3, <2>4
<1>. QED
  BY <1>2 DEF Injective, r

(* The list a variable is added to, and the one it is removed from.        *)
LEMMA AddedContains ==
  ASSUME NEW S, NEW q \in Seq(S), NEW x \in S
  PROVE  /\ Added(q, x) \in Seq(S)
         /\ Injective(q) => Injective(Added(q, x))
         /\ \A y : Contains(Added(q, x), y) <=> Contains(q, y) \/ y = x
<1>1. CASE Contains(q, x)
  BY <1>1 DEF Added
<1>2. CASE ~Contains(q, x)
  <2>1. Added(q, x) = Append(q, x)
    BY <1>2 DEF Added
  <2>. QED
    BY <1>2, <2>1, AppendProperties, ContainsAppend, InjectiveAppend
<1>. QED
  BY <1>1, <1>2

LEMMA RemovedContains ==
  ASSUME NEW S, NEW q \in Seq(S), NEW x, Injective(q)
  PROVE  /\ Removed(q, x) \in Seq(S)
         /\ Injective(Removed(q, x))
         /\ \A y : Contains(Removed(q, x), y) <=> Contains(q, y) /\ y # x
<1>1. CASE ~Contains(q, x)
  BY <1>1 DEF Removed, Contains
<1>2. CASE Contains(q, x)
  <2>. DEFINE n == Len(q)
              k == Position(q, x)
              r == [i \in 1..(n - 1) |-> IF i < k THEN q[i] ELSE q[i + 1]]
  <2>1. n \in Nat /\ DOMAIN q = 1..n /\ \A i \in 1..n : q[i] \in S
    BY LenProperties
  <2>2. k \in 1..n /\ q[k] = x
    <3>1. PICK i \in DOMAIN q : q[i] = x
      BY <1>2 DEF Contains
    <3>2. \A j \in 1..(i - 1) : q[j] # x
      BY <2>1, <3>1 DEF Injective
    <3>. QED
      BY <2>1, <3>1, <3>2 DEF Position
  <2>3. n - 1 \in Nat
    BY <2>1, <2>2
  <2>4. r \in [1..(n - 1) -> S]
    BY <2>1, <2>2
  <2>5. r \in Seq(S) /\ DOMAIN r = 1..(n - 1)
    BY <2>3, <2>4
  <2>6. ASSUME NEW i \in DOMAIN r, NEW j \in DOMAIN r, r[i] = r[j]
        PROVE  i = j
    BY <2>1, <2>2, <2>5, <2>6 DEF Injective
  <2>7. ASSUME NEW i \in DOMAIN r
        PROVE  Contains(q, r[i]) /\ r[i] # x
    BY <2>1, <2>2, <2>5 DEF Injective, Contains
  <2>8. ASSUME NEW i \in DOMAIN q, q[i] # x
        PROVE  \E j \in DOMAIN r : r[j] = q[i]
    <3>. DEFINE j == IF i < k THEN i ELSE i - 1
    <3>1. j \in DOMAIN r /\ r[j] = q[i]
      BY <2>1, <2>2, <2>5, <2>8
    <3>. QED
      BY <3>1
  <2>9. Removed(q, x) = r
    BY <1>2 DEF Removed
  <2>. HIDE DEF r, k, n
  <2>. QED
    BY <2>5, <2>6, <2>7, <2>8, <2>9 DEF Injective, Contains
<1>. QED
  BY <1>1, <1>2

-----------------------------------------------------------------------------
(* What a walk finds.                                                      *)

(* The links of what was seen lead to what was seen or is still to do.     *)
Sound(w) ==
  /\ Injective(w.seen)
  /\ \A a, z \in Vars : Contains(w.seen, a) /\ Contains(identical[a], z)
                      => Contains(w.seen, z) \/ Contains(w.todo, z)
Closed(S) == \A a \in S, z \in Vars : Contains(identical[a], z) => z \in S
Members(q) == {a \in Vars : Contains(q, a)}
(* The list r is where the walk w should end.                              *)
Reached(w, r) ==
  /\ r \in Seq(Vars) /\ Injective(r)
  /\ Members(w.seen) \cup Members(w.todo) \subseteq Members(r)
  /\ Closed(Members(r))
  /\ \A S \in SUBSET Vars : Closed(S) /\ Members(w.seen) \cup Members(w.todo) \subseteq S
                           => Members(r) \subseteq S
Unseen(w) == Cardinality(Vars \ Members(w.seen))

(* A step of a walk keeps what it knows and leaves less to do.             *)
LEMMA OneFurtherSound ==
  ASSUME identical \in [Vars -> Seq(Vars)], NEW w \in Walks, w.todo # <<>>, Sound(w)
  PROVE  /\ Sound(OneFurther(w))
         /\ \A r : Reached(OneFurther(w), r) => Reached(w, r)
<1>. DEFINE v == OneFurther(w)
            h == Head(w.todo)
            t == Tail(w.todo)
<1>1. /\ h \in Vars /\ t \in Seq(Vars) /\ w.seen \in Seq(Vars) /\ w.todo \in Seq(Vars)
      /\ identical[h] \in Seq(Vars)
  BY HeadTailProperties DEF Walks
<1>2. \A y : Contains(w.todo, y) <=> y = h \/ Contains(t, y)
  BY <1>1, ContainsHead
<1>3. CASE Contains(w.seen, h)
  <2>1. v.seen = w.seen /\ v.todo = t
    BY <1>3 DEF OneFurther, Walks
  <2>. HIDE DEF v, h, t
  <2>2. Sound(v)
    BY <1>2, <1>3, <2>1 DEF Sound
  <2>3. Members(w.seen) \cup Members(w.todo) = Members(v.seen) \cup Members(v.todo)
    BY <1>1, <1>2, <1>3, <2>1 DEF Members
  <2>4. \A r : Reached(v, r) => Reached(w, r)
    BY <2>3 DEF Reached
  <2>. QED
    BY <2>2, <2>4 DEF v
<1>4. CASE ~Contains(w.seen, h)
  <2>1. v.seen = Append(w.seen, h) /\ v.todo = identical[h] \o t
    BY <1>4 DEF OneFurther
  <2>2. \A y : Contains(v.seen, y) <=> Contains(w.seen, y) \/ y = h
    BY <1>1, <2>1, ContainsAppend
  <2>3. \A y : Contains(v.todo, y) <=> Contains(identical[h], y) \/ Contains(t, y)
    <3>. HIDE DEF h, t
    <3>1. \A y : Contains(identical[h] \o t, y) <=> Contains(identical[h], y) \/ Contains(t, y)
      BY <1>1, ContainsConcat, Zenon
    <3>. QED
      BY <2>1, <3>1, Zenon
  <2>4. Injective(v.seen)
    BY <1>1, <1>4, <2>1, InjectiveAppend DEF Sound
  <2>. HIDE DEF v, h, t
  <2>5. Sound(v)
    BY <1>2, <2>2, <2>3, <2>4 DEF Sound
  <2>6. Members(w.seen) \cup Members(w.todo) \subseteq Members(v.seen) \cup Members(v.todo)
    BY <1>1, <1>2, <2>2, <2>3 DEF Members
  <2>7. ASSUME NEW S \in SUBSET Vars, Closed(S), Members(w.seen) \cup Members(w.todo) \subseteq S
        PROVE  Members(v.seen) \cup Members(v.todo) \subseteq S
    <3>1. h \in S
      BY <1>1, <1>2, <2>7 DEF Members
    <3>. QED
      BY <1>2, <2>2, <2>3, <2>7, <3>1 DEF Members, Closed
  <2>8. \A r : Reached(v, r) => Reached(w, r)
    BY <2>6, <2>7 DEF Reached
  <2>. QED
    BY <2>5, <2>8 DEF v
<1>. QED
  BY <1>3, <1>4

LEMMA OneFurtherLess ==
  ASSUME identical \in [Vars -> Seq(Vars)], NEW w \in Walks, w.todo # <<>>
  PROVE  \/ Unseen(OneFurther(w)) < Unseen(w)
         \/ Unseen(OneFurther(w)) = Unseen(w) /\ Len(OneFurther(w).todo) < Len(w.todo)
<1>. DEFINE h == Head(w.todo)
<1>1. /\ h \in Vars /\ Tail(w.todo) \in Seq(Vars) /\ w.seen \in Seq(Vars)
      /\ Len(Tail(w.todo)) = Len(w.todo) - 1 /\ Len(w.todo) \in Nat
  BY HeadTailProperties, LenProperties DEF Walks
<1>2. CASE Contains(w.seen, h)
  <2>1. OneFurther(w).seen = w.seen /\ OneFurther(w).todo = Tail(w.todo)
    BY <1>2 DEF OneFurther, Walks
  <2>. QED
    BY <1>1, <2>1 DEF Unseen
<1>3. CASE ~Contains(w.seen, h)
  <2>1. OneFurther(w).seen = Append(w.seen, h)
    BY <1>3 DEF OneFurther
  <2>. HIDE DEF h
  <2>2. \A y : Contains(OneFurther(w).seen, y) <=> Contains(w.seen, y) \/ y = h
    BY <1>1, <2>1, ContainsAppend
  <2>. DEFINE U == Vars \ Members(w.seen)
  <2>3. h \in U /\ Vars \ Members(OneFurther(w).seen) = U \ {h}
    BY <1>1, <1>3, <2>2 DEF Members
  <2>4. IsFiniteSet(U)
    BY VarsAssumption, FS_Subset
  <2>. HIDE DEF U
  <2>5. Cardinality(U \ {h}) = Cardinality(U) - 1 /\ Cardinality(U) \in Nat
    BY <2>3, <2>4, FS_RemoveElement, FS_CardinalityType
  <2>6. Unseen(OneFurther(w)) = Cardinality(U \ {h}) /\ Unseen(w) = Cardinality(U)
    BY <2>3 DEF Unseen, U
  <2>. QED
    BY <2>5, <2>6
<1>. QED
  BY <1>2, <1>3

LEMMA WalkReaches ==
  ASSUME identical \in [Vars -> Seq(Vars)], NEW w \in Walks, Sound(w)
  PROVE  Reached(w, Walk[w])
<1>. DEFINE Bad == {v \in Walks : Sound(v) /\ ~Reached(v, Walk[v])}
<1>. SUFFICES ASSUME Bad # {}
              PROVE  FALSE
  OBVIOUS
<1>0. \A v \in Walks : Unseen(v) \in Nat /\ Len(v.todo) \in Nat
  BY VarsAssumption, FS_Subset, FS_CardinalityType, LenProperties DEF Unseen, Members, Walks
<1>. DEFINE I == {Unseen(v) : v \in Bad}
<1>1. PICK k \in I : \A j \in I : k <= j
  <2>1. I # {} /\ I \in SUBSET Nat
    BY <1>0
  <2>. QED
    BY <2>1, LeastNatural
<1>. DEFINE J == {Len(v.todo) : v \in {u \in Bad : Unseen(u) = k}}
<1>2. PICK l \in J : \A j \in J : l <= j
  <2>1. J # {} /\ J \in SUBSET Nat
    BY <1>0, <1>1
  <2>. QED
    BY <2>1, LeastNatural
<1>3. PICK v \in Bad : Unseen(v) = k /\ Len(v.todo) = l
  BY <1>2
<1>4. CASE v.todo = <<>>
  <2>1. Walk[v] = v.seen
    BY <1>4, WalkUnfolds
  <2>2. Members(v.todo) = {}
    BY <1>4 DEF Members, Contains
  <2>3. Reached(v, v.seen)
    BY <1>3, <1>4, <2>2 DEF Reached, Sound, Closed, Members, Walks, Contains
  <2>. QED
    BY <1>3, <2>1, <2>3
<1>5. CASE v.todo # <<>>
  <2>. DEFINE u == OneFurther(v)
  <2>1. u \in Walks /\ Walk[v] = Walk[u]
    BY <1>3, <1>5, WalkUnfolds, OneFurtherTyped
  <2>2. Sound(u) /\ (Reached(u, Walk[u]) => Reached(v, Walk[u]))
    BY <1>3, <1>5, OneFurtherSound
  <2>3. u \in Bad
    BY <1>3, <2>1, <2>2
  <2>4. \/ Unseen(u) < Unseen(v)
        \/ Unseen(u) = Unseen(v) /\ Len(u.todo) < Len(v.todo)
    BY <1>3, <1>5, OneFurtherLess
  <2>5. Unseen(u) \in Nat /\ Len(u.todo) \in Nat /\ Unseen(v) \in Nat /\ Len(v.todo) \in Nat
    BY <1>0, <1>3, <2>1
  <2>6. k <= Unseen(u)
    BY <1>1, <2>3
  <2>. HIDE DEF u, Bad
  <2>7. Unseen(u) = k => l <= Len(u.todo)
    BY <1>2, <2>3
  <2>. QED
    BY <1>3, <2>4, <2>5, <2>6, <2>7
<1>. QED
  BY <1>4, <1>5

(* The walk of begin_assign finds every variable that is linked to the     *)
(* assigned one, directly or over others, each once, and no other one.     *)
LEMMA WalkFindsClass ==
  ASSUME identical \in [Vars -> Seq(Vars)], NEW x \in Vars
  PROVE  /\ AllIdentical(x) \in Seq(Vars)
         /\ Injective(AllIdentical(x))
         /\ Members(AllIdentical(x)) = Class(x)
<1>. DEFINE w == [todo |-> <<x>>, seen |-> <<>>]
            r == Walk[w]
<1>1. w \in Walks
  BY DEF Walks
<1>2. Sound(w)
  BY DEF Sound, Contains, Injective
<1>3. Members(w.seen) \cup Members(w.todo) = {x}
  BY DEF Members, Contains
<1>4. Reached(w, r)
  BY <1>1, <1>2, WalkReaches
<1>5. AllIdentical(x) = r
  BY DEF AllIdentical
<1>. HIDE DEF w, r
<1>6. x \in Members(r) /\ Members(r) \in SUBSET Vars /\ Closed(Members(r))
  BY <1>3, <1>4 DEF Reached, Members
<1>7. \A S \in SUBSET Vars : Closed(S) /\ x \in S => Members(r) \subseteq S
  BY <1>3, <1>4 DEF Reached
<1>8. Members(r) = Class(x)
  BY <1>6, <1>7 DEF Class, Closed
<1>. QED
  BY <1>4, <1>5, <1>8 DEF Reached

-----------------------------------------------------------------------------
(* Pending calls.                                                          *)

(* A call of one of F for the block c is pending in q.                     *)
InAgenda(q, F, c) == \E i \in DOMAIN q : q[i].fn \in F /\ q[i].arg = c
Enabling == {"enable", "enabled"}
(* No block is in the middle of an enable twice.                           *)
Once(q) ==
  \A i, j \in DOMAIN q :
    q[i].fn \in Enabling /\ q[j].fn \in Enabling /\ q[i].arg = q[j].arg => i = j

LEMMA InAgendaConcat ==
  ASSUME NEW q \in Seq(Calls), NEW p \in Seq(Calls)
  PROVE  /\ \A F, c : InAgenda(q \o p, F, c) <=> InAgenda(q, F, c) \/ InAgenda(p, F, c)
         /\ Once(q \o p) => Once(q) /\ Once(p)
         /\ Once(q \o p) => \A c : ~(InAgenda(q, Enabling, c) /\ InAgenda(p, Enabling, c))
         /\ Once(q) /\ Once(p) /\ (\A c : ~(InAgenda(q, Enabling, c) /\ InAgenda(p, Enabling, c)))
              => Once(q \o p)
<1>. DEFINE r == q \o p
<1>1. /\ Len(q) \in Nat /\ Len(p) \in Nat /\ DOMAIN q = 1..Len(q) /\ DOMAIN p = 1..Len(p)
      /\ DOMAIN r = 1..(Len(q) + Len(p))
      /\ \A i \in 1..(Len(q) + Len(p)) : r[i] = IF i <= Len(q) THEN q[i] ELSE p[i - Len(q)]
  BY ConcatProperties, LenProperties
<1>. HIDE DEF r
<1>2. \A i \in DOMAIN q : i \in DOMAIN r /\ r[i] = q[i]
  BY <1>1
<1>3. \A i \in DOMAIN p : i + Len(q) \in DOMAIN r /\ r[i + Len(q)] = p[i]
  BY <1>1
<1>4. \A i \in DOMAIN r : \/ i \in DOMAIN q /\ r[i] = q[i]
                          \/ i - Len(q) \in DOMAIN p /\ r[i] = p[i - Len(q)]
  BY <1>1
<1>5. ASSUME NEW F, NEW c
      PROVE  InAgenda(r, F, c) <=> InAgenda(q, F, c) \/ InAgenda(p, F, c)
  <2>1. InAgenda(r, F, c) => InAgenda(q, F, c) \/ InAgenda(p, F, c)
    BY <1>4, Zenon DEF InAgenda
  <2>2. InAgenda(q, F, c) => InAgenda(r, F, c)
    BY <1>2, Zenon DEF InAgenda
  <2>3. InAgenda(p, F, c) => InAgenda(r, F, c)
    BY <1>3, Zenon DEF InAgenda
  <2>. QED
    BY <2>1, <2>2, <2>3
<1>6. ASSUME Once(r)
      PROVE  Once(q) /\ Once(p)
  <2>1. Once(q)
    BY <1>2, <1>6, Zenon DEF Once
  <2>2. ASSUME NEW i \in DOMAIN p, NEW j \in DOMAIN p, p[i].fn \in Enabling, p[j].fn \in Enabling,
               p[i].arg = p[j].arg
        PROVE  i = j
    <3>1. i + Len(q) = j + Len(q)
      BY <1>3, <1>6, <2>2, Zenon DEF Once
    <3>. QED
      BY <1>1, <3>1
  <2>. QED
    BY <2>1, <2>2 DEF Once
<1>7. ASSUME Once(r), NEW c, InAgenda(q, Enabling, c), InAgenda(p, Enabling, c)
      PROVE  FALSE
  <2>1. PICK i \in DOMAIN q : q[i].fn \in Enabling /\ q[i].arg = c
    BY <1>7 DEF InAgenda
  <2>2. PICK j \in DOMAIN p : p[j].fn \in Enabling /\ p[j].arg = c
    BY <1>7 DEF InAgenda
  <2>3. i = j + Len(q)
    <3>. DEFINE k == j + Len(q)
    <3>1. i \in DOMAIN r /\ r[i] = q[i] /\ k \in DOMAIN r /\ r[k] = p[j]
      BY <1>2, <1>3
    <3>. HIDE DEF k
    <3>2. r[i].fn \in Enabling /\ r[k].fn \in Enabling /\ r[i].arg = r[k].arg
      BY <2>1, <2>2, <3>1
    <3>3. i = k
      BY <1>7, <3>1, <3>2, Zenon DEF Once
    <3>. QED
      BY <3>3 DEF k
  <2>. QED
    BY <1>1, <2>3
<1>8. ASSUME Once(q), Once(p), \A c : ~(InAgenda(q, Enabling, c) /\ InAgenda(p, Enabling, c))
      PROVE  Once(r)
  <2>1. ASSUME NEW i \in DOMAIN r, NEW j \in DOMAIN r, r[i].fn \in Enabling, r[j].fn \in Enabling,
               r[i].arg = r[j].arg
        PROVE  i = j
    <3>1. CASE i \in DOMAIN q /\ r[i] = q[i] /\ j \in DOMAIN q /\ r[j] = q[j]
      BY <1>8, <2>1, <3>1, Zenon DEF Once
    <3>2. CASE i - Len(q) \in DOMAIN p /\ r[i] = p[i - Len(q)] /\ j - Len(q) \in DOMAIN p /\ r[j] = p[j - Len(q)]
      <4>1. i - Len(q) = j - Len(q)
        BY <1>8, <2>1, <3>2, Zenon DEF Once
      <4>. QED
        BY <1>1, <4>1
    <3>3. CASE i \in DOMAIN q /\ r[i] = q[i] /\ j - Len(q) \in DOMAIN p /\ r[j] = p[j - Len(q)]
      <4>1. InAgenda(q, Enabling, r[i].arg) /\ InAgenda(p, Enabling, r[i].arg)
        BY <2>1, <3>3, Zenon DEF InAgenda
      <4>. QED
        BY <1>8, <4>1, Zenon
    <3>4. CASE i - Len(q) \in DOMAIN p /\ r[i] = p[i - Len(q)] /\ j \in DOMAIN q /\ r[j] = q[j]
      <4>1. InAgenda(q, Enabling, r[j].arg) /\ InAgenda(p, Enabling, r[j].arg)
        BY <2>1, <3>4, Zenon DEF InAgenda
      <4>. QED
        BY <1>8, <4>1, Zenon
    <3>. QED
      BY <1>4, <2>1, <3>1, <3>2, <3>3, <3>4, Zenon
  <2>. QED
    BY <2>1 DEF Once
<1>. QED
  BY <1>5, <1>6, <1>7, <1>8, Zenon DEF r

LEMMA InAgendaFew ==
  /\ \A F, c : ~InAgenda(<<>>, F, c)
  /\ \A a, F, c : InAgenda(<<a>>, F, c) <=> a.fn \in F /\ a.arg = c
  /\ \A a, b, F, c : InAgenda(<<a, b>>, F, c) <=> (a.fn \in F /\ a.arg = c) \/ (b.fn \in F /\ b.arg = c)
  /\ Once(<<>>)
  /\ \A a : Once(<<a>>)
  /\ \A a, b : a.fn \notin Enabling => Once(<<a, b>>)
<1>1. \A F, c : ~InAgenda(<<>>, F, c)
  BY DEF InAgenda
<1>2. ASSUME NEW a, NEW F, NEW c
      PROVE  InAgenda(<<a>>, F, c) <=> a.fn \in F /\ a.arg = c
  BY DEF InAgenda
<1>3. ASSUME NEW a, NEW b, NEW F, NEW c
      PROVE  InAgenda(<<a, b>>, F, c) <=> (a.fn \in F /\ a.arg = c) \/ (b.fn \in F /\ b.arg = c)
  <2>1. DOMAIN <<a, b>> = {1, 2} /\ <<a, b>>[1] = a /\ <<a, b>>[2] = b
    OBVIOUS
  <2>. QED
    BY <2>1, Zenon DEF InAgenda
<1>4. Once(<<>>) /\ \A a : Once(<<a>>)
  BY DEF Once
<1>5. ASSUME NEW a, NEW b, a.fn \notin Enabling
      PROVE  Once(<<a, b>>)
  <2>1. DOMAIN <<a, b>> = {1, 2} /\ <<a, b>>[1] = a /\ <<a, b>>[2] = b
    OBVIOUS
  <2>. QED
    BY <1>5, <2>1, Zenon DEF Once
<1>. QED
  BY <1>1, <1>2, <1>3, <1>4, <1>5, Zenon

(* The running call makes place for what it calls.                         *)
LEMMA Continued ==
  ASSUME NEW q \in Seq(Calls), q # <<>>, NEW new \in Seq(Calls)
  PROVE  /\ new \o Tail(q) \in Seq(Calls)
         /\ q[1] \in Calls /\ Tail(q) \in Seq(Calls)
         /\ \A F, c : InAgenda(new \o Tail(q), F, c) <=> InAgenda(new, F, c) \/ InAgenda(Tail(q), F, c)
         /\ \A F, c : InAgenda(q, F, c) <=> (q[1].fn \in F /\ q[1].arg = c) \/ InAgenda(Tail(q), F, c)
         /\ Once(q) /\ q[1].fn \in Enabling => ~InAgenda(Tail(q), Enabling, q[1].arg)
         /\ Once(q) /\ Once(new) /\ (\A c : ~(InAgenda(new, Enabling, c) /\ InAgenda(Tail(q), Enabling, c)))
              => Once(new \o Tail(q))
<1>1. q[1] \in Calls /\ Tail(q) \in Seq(Calls) /\ <<q[1]>> \in Seq(Calls) /\ q = <<q[1]>> \o Tail(q)
  OBVIOUS
<1>2. new \o Tail(q) \in Seq(Calls)
  BY <1>1, ConcatProperties
<1>3. /\ \A F, c : InAgenda(q, F, c) <=> InAgenda(<<q[1]>>, F, c) \/ InAgenda(Tail(q), F, c)
      /\ Once(q) => Once(Tail(q))
      /\ Once(q) => \A c : ~(InAgenda(<<q[1]>>, Enabling, c) /\ InAgenda(Tail(q), Enabling, c))
  <2>. DEFINE h == <<q[1]>>
              t == Tail(q)
  <2>1. h \in Seq(Calls) /\ t \in Seq(Calls) /\ q = h \o t
    BY <1>1
  <2>. HIDE DEF h, t
  <2>2. /\ \A F, c : InAgenda(q, F, c) <=> InAgenda(h, F, c) \/ InAgenda(t, F, c)
        /\ Once(q) => Once(t)
        /\ Once(q) => \A c : ~(InAgenda(h, Enabling, c) /\ InAgenda(t, Enabling, c))
    BY <2>1, InAgendaConcat, Zenon
  <2>. QED
    BY <2>2 DEF h, t
<1>4. \A F, c : InAgenda(<<q[1]>>, F, c) <=> q[1].fn \in F /\ q[1].arg = c
  BY InAgendaFew, Zenon
<1>5. /\ \A F, c : InAgenda(new \o Tail(q), F, c) <=> InAgenda(new, F, c) \/ InAgenda(Tail(q), F, c)
      /\ Once(new) /\ Once(Tail(q)) /\ (\A c : ~(InAgenda(new, Enabling, c) /\ InAgenda(Tail(q), Enabling, c)))
              => Once(new \o Tail(q))
  BY <1>1, InAgendaConcat, Zenon
<1>. QED
  BY <1>1, <1>2, <1>3, <1>4, <1>5, Zenon
-----------------------------------------------------------------------------
(* The invariant.                                                          *)

(* Pending calls enable blocks that were run and count as disabled, each   *)
(* once; a link is that of some run of its block; lists name a variable    *)
(* once.                                                                   *)
RunLink(c) == \E m \in [Vars -> Values] : link[c] = <<This(c, m), That(c, m)>>
BaseInv ==
  /\ TypeOK
  /\ Once(agenda)
  /\ \A c \in Cons : InAgenda(agenda, Enabling, c) => ~enabled[c] /\ link[c] # NoLink
  /\ \A c \in Cons : enabled[c] => link[c] # NoLink
  /\ \A c \in Cons : link[c] # NoLink => RunLink(c)
  /\ \A x \in Vars : Injective(identical[x])

(* While it is enabled a block has both directions of its link, half of it *)
(* while it stores the value, and no link is left without its block.       *)
HalfDone(c) == InAgenda(agenda, {"enabled"}, c)
LinkInv ==
  /\ \A c \in Cons : enabled[c] => /\ Contains(identical[link[c][1]], link[c][2])
                                   /\ Contains(identical[link[c][2]], link[c][1])
  /\ \A c \in Cons : HalfDone(c) => Contains(identical[link[c][2]], link[c][1])
  /\ \A x, y \in Vars : Contains(identical[x], y) =>
       \E c \in Cons : \/ enabled[c] /\ link[c] \in {<<x, y>>, <<y, x>>}
                       \/ HalfDone(c) /\ link[c] = <<y, x>>

-----------------------------------------------------------------------------
(* What the operations do to links and lists.                              *)

LinksOK == identical \in [Vars -> Seq(Vars)] /\ \A x \in Vars : Injective(identical[x])

LEMMA LinkedContains ==
  ASSUME LinksOK, NEW l \in Vars \X Vars
  PROVE  /\ Linked(l) \in [Vars -> Seq(Vars)]
         /\ \A x \in Vars : Injective(Linked(l)[x])
         /\ \A x, y \in Vars : Contains(Linked(l)[x], y) <=>
              Contains(identical[x], y) \/ (x = l[1] /\ y = l[2])
<1>1. l[1] \in Vars /\ l[2] \in Vars /\ identical \in [Vars -> Seq(Vars)]
  BY DEF LinksOK
<1>. DEFINE q == Added(identical[l[1]], l[2])
<1>2. /\ q \in Seq(Vars) /\ Injective(q)
      /\ \A y : Contains(q, y) <=> Contains(identical[l[1]], y) \/ y = l[2]
  BY <1>1, AddedContains DEF LinksOK
<1>3. Linked(l) = [identical EXCEPT ![l[1]] = q]
  BY DEF Linked
<1>. HIDE DEF q
<1>4. Linked(l) \in [Vars -> Seq(Vars)] /\ \A x \in Vars : Linked(l)[x] = IF x = l[1] THEN q ELSE identical[x]
  BY <1>1, <1>2, <1>3
<1>. QED
  BY <1>1, <1>2, <1>4 DEF LinksOK

LEMMA UnlinkedContains ==
  ASSUME LinksOK, NEW l \in Vars \X Vars
  PROVE  /\ Unlinked(l) \in [Vars -> Seq(Vars)]
         /\ \A x \in Vars : Injective(Unlinked(l)[x])
         /\ \A x, y \in Vars : Contains(Unlinked(l)[x], y) <=>
              Contains(identical[x], y) /\ ~(x = l[1] /\ y = l[2]) /\ ~(x = l[2] /\ y = l[1])
<1>1. l[1] \in Vars /\ l[2] \in Vars /\ identical \in [Vars -> Seq(Vars)]
  BY DEF LinksOK
<1>2. \A x, z \in Vars : /\ Removed(identical[x], z) \in Seq(Vars) /\ Injective(Removed(identical[x], z))
                         /\ \A y : Contains(Removed(identical[x], z), y) <=> Contains(identical[x], y) /\ y # z
  BY <1>1, RemovedContains DEF LinksOK
<1>3. \A x \in Vars : Unlinked(l)[x] = IF x = l[1] THEN Removed(identical[x], l[2])
                                       ELSE IF x = l[2] THEN Removed(identical[x], l[1])
                                       ELSE identical[x]
  BY DEF Unlinked
<1>4. Unlinked(l) \in [Vars -> Seq(Vars)]
  BY <1>1, <1>2 DEF Unlinked
<1>5. ASSUME NEW x \in Vars
      PROVE  Injective(Unlinked(l)[x])
  <2>1. CASE x = l[1]
    BY <1>1, <1>2, <1>3, <2>1
  <2>2. CASE x # l[1] /\ x = l[2]
    BY <1>1, <1>2, <1>3, <2>2
  <2>3. CASE x # l[1] /\ x # l[2]
    BY <1>3, <2>3 DEF LinksOK
  <2>. QED
    BY <2>1, <2>2, <2>3
<1>6. ASSUME NEW x \in Vars, NEW y \in Vars
      PROVE  Contains(Unlinked(l)[x], y) <=>
              Contains(identical[x], y) /\ ~(x = l[1] /\ y = l[2]) /\ ~(x = l[2] /\ y = l[1])
  <2>1. CASE x = l[1]
    BY <1>1, <1>2, <1>3, <2>1
  <2>2. CASE x # l[1] /\ x = l[2]
    BY <1>1, <1>2, <1>3, <2>2
  <2>3. CASE x # l[1] /\ x # l[2]
    BY <1>3, <2>3
  <2>. QED
    BY <2>1, <2>2, <2>3
<1>. QED
  BY <1>4, <1>5, <1>6

LEMMA RunPredicateDoes ==
  ASSUME TypeOK, NEW c \in Cons, RunPredicate(c)
  PROVE  /\ attached' \in [Vars -> Seq(Cons)] /\ reused' \subseteq Cons
         /\ link' \in [Cons -> (Vars \X Vars) \cup {NoLink}]
         /\ link'[c] \in Vars \X Vars /\ link'[c] = <<This(c, stored), That(c, stored)>>
         /\ \A d \in Cons : d # c => link'[d] = link[d]
<1>1. This(c, stored) \in Vars /\ That(c, stored) \in Vars
  BY PathAssumption DEF TypeOK
<1>2. \A x \in Vars : attached[x] \in Seq(Cons) /\ Added(attached[x], c) \in Seq(Cons)
  BY AddedContains DEF TypeOK
<1>3. attached' \in [Vars -> Seq(Cons)]
  BY <1>2 DEF RunPredicate
<1>4. reused' \subseteq Cons
  BY DEF RunPredicate, TypeOK
<1>5. /\ link' \in [Cons -> (Vars \X Vars) \cup {NoLink}]
      /\ link'[c] = <<This(c, stored), That(c, stored)>>
      /\ \A d \in Cons : d # c => link'[d] = link[d]
  BY <1>1 DEF RunPredicate, TypeOK
<1>. QED
  BY <1>1, <1>3, <1>4, <1>5

LEMMA RunningArg ==
  ASSUME TypeOK, agenda # <<>>
  PROVE  /\ agenda \in Seq(Calls) /\ agenda[1] \in Calls
         /\ agenda[1].fn = "recalculate_path" => Arg[1] \in Vars /\ Arg[2] \in Nat
         /\ agenda[1].fn = "recalculate" => Arg[1] \in Cons /\ Arg[2] \in Vars
         /\ agenda[1].fn \in Enabling => Arg \in Cons
<1>1. agenda \in Seq(Calls) /\ agenda[1] \in Calls
  BY DEF TypeOK
<1>. QED
  BY <1>1 DEF Calls, Arg, Enabling

LEMMA CallTyped ==
  /\ \A x \in Vars, i \in Nat : Call("recalculate_path", <<x, i>>) \in Calls
  /\ \A c \in Cons, x \in Vars : Call("recalculate", <<c, x>>) \in Calls
  /\ \A c \in Cons : Call("enable", c) \in Calls /\ Call("enabled", c) \in Calls
  /\ \A x \in Vars : EndAssign(x) \in Calls /\ EndAssign(x).fn \notin Enabling
  /\ \A f, a : Call(f, a).fn = f /\ Call(f, a).arg = a
  /\ "recalculate" \notin Enabling /\ "recalculate_path" \notin Enabling
  /\ "enable" \in Enabling /\ "enabled" \in Enabling
<1>1. 1 \in Nat
  OBVIOUS
<1>. QED
  BY <1>1 DEF Call, Calls, EndAssign, Enabling

LEMMA ShortSeqs ==
  ASSUME NEW C
  PROVE  /\ <<>> \in Seq(C)
         /\ \A a \in C : <<a>> \in Seq(C)
         /\ \A a, b \in C : <<a, b>> \in Seq(C)
  OBVIOUS

(* A step that replaces the running call by new, where every block that    *)
(* comes to be enabled was not being enabled, keeps the agenda in order.   *)
LEMMA StepContinues ==
  ASSUME TypeOK, Once(agenda), agenda # <<>>, NEW new \in Seq(Calls), Once(new), Continue(new),
         \A c : InAgenda(new, Enabling, c) =>
                  (agenda[1].fn \in Enabling /\ agenda[1].arg = c) \/ ~InAgenda(agenda, Enabling, c)
  PROVE  /\ agenda' \in Seq(Calls) /\ Once(agenda') /\ focus' = focus
         /\ \A F, c : InAgenda(agenda', F, c) <=> InAgenda(new, F, c) \/ InAgenda(Tail(agenda), F, c)
         /\ \A F, c : InAgenda(agenda, F, c) <=>
              (agenda[1].fn \in F /\ agenda[1].arg = c) \/ InAgenda(Tail(agenda), F, c)
         /\ agenda[1].fn \in Enabling => ~InAgenda(Tail(agenda), Enabling, agenda[1].arg)
<1>1. agenda' = new \o Tail(agenda) /\ focus' = focus
  BY DEF Continue
<1>2. agenda \in Seq(Calls)
  BY DEF TypeOK
<1>3. /\ new \o Tail(agenda) \in Seq(Calls)
      /\ \A F, c : InAgenda(new \o Tail(agenda), F, c) <=> InAgenda(new, F, c) \/ InAgenda(Tail(agenda), F, c)
      /\ \A F, c : InAgenda(agenda, F, c) <=> (agenda[1].fn \in F /\ agenda[1].arg = c) \/ InAgenda(Tail(agenda), F, c)
      /\ agenda[1].fn \in Enabling => ~InAgenda(Tail(agenda), Enabling, agenda[1].arg)
      /\ (\A c : ~(InAgenda(new, Enabling, c) /\ InAgenda(Tail(agenda), Enabling, c)))
           => Once(new \o Tail(agenda))
  BY <1>2, Continued, Zenon
<1>4. \A c : ~(InAgenda(new, Enabling, c) /\ InAgenda(Tail(agenda), Enabling, c))
  BY <1>3, Zenon
<1>. QED
  BY <1>1, <1>3, <1>4, Zenon

-----------------------------------------------------------------------------
(* The first part of the invariant.                                        *)

LEMMA BaseInit ==
  ASSUME Init
  PROVE  BaseInv
<1>1. /\ \A x \in Vars : identical[x] = <<>> /\ attached[x] = <<>>
      /\ \A c \in Cons : ~enabled[c] /\ link[c] = NoLink
      /\ agenda = <<>>
  BY DEF Init
<1>2. TypeOK
  BY DEF Init, TypeOK
<1>3. \A x \in Vars : Injective(identical[x])
  BY <1>1 DEF Injective
<1>4. Once(agenda) /\ \A c : ~InAgenda(agenda, Enabling, c)
  BY <1>1, InAgendaFew, Zenon
<1>. QED
  BY <1>1, <1>2, <1>3, <1>4 DEF BaseInv

LEMMA BaseFacts ==
  ASSUME BaseInv
  PROVE  /\ TypeOK /\ LinksOK /\ Once(agenda)
         /\ \A c \in Cons : link[c] # NoLink => link[c] \in Vars \X Vars
  BY DEF BaseInv, TypeOK, LinksOK

LEMMA RecalculatePathBase ==
  ASSUME BaseInv, RecalculatePath
  PROVE  BaseInv'
<1>. DEFINE x == Arg[1]
            i == Arg[2]
            new == IF i \in DOMAIN attached[x] THEN Visit(x, i) ELSE <<>>
<1>1. agenda # <<>> /\ agenda[1].fn = "recalculate_path" /\ Continue(new)
      /\ UNCHANGED <<stored, identical, attached, enabled, link, reused>>
  BY DEF RecalculatePath, Running
<1>2. x \in Vars /\ i \in Nat
  BY <1>1, BaseFacts, RunningArg
<1>. HIDE DEF x, i
<1>3. new \in Seq(Calls) /\ Once(new) /\ \A c : ~InAgenda(new, Enabling, c)
  <2>1. CASE i \in DOMAIN attached[x]
    <3>. DEFINE a == Call("recalculate", <<attached[x][i], x>>)
                b == Call("recalculate_path", <<x, i + 1>>)
    <3>1. attached[x][i] \in Cons /\ i + 1 \in Nat
      BY <1>2, <2>1, BaseFacts DEF TypeOK
    <3>2. a \in Calls /\ b \in Calls
      BY <1>2, <3>1, CallTyped, Zenon
    <3>3. a.fn \notin Enabling /\ b.fn \notin Enabling
      BY CallTyped, Zenon
    <3>4. new = <<a, b>>
      BY <2>1 DEF Visit
    <3>. HIDE DEF a, b, new
    <3>5. <<a, b>> \in Seq(Calls)
      BY <3>2, ShortSeqs, Zenon
    <3>6. Once(<<a, b>>) /\ \A c : ~InAgenda(<<a, b>>, Enabling, c)
      BY <3>3, InAgendaFew, Zenon
    <3>. QED
      BY <3>4, <3>5, <3>6, Zenon
  <2>2. CASE i \notin DOMAIN attached[x]
    <3>1. new = <<>>
      BY <2>2
    <3>. HIDE DEF new
    <3>. QED
      BY <3>1, InAgendaFew, ShortSeqs, Zenon
  <2>. QED
    BY <2>1, <2>2
<1>. HIDE DEF new
<1>4. /\ agenda' \in Seq(Calls) /\ Once(agenda') /\ focus' = focus
      /\ \A F, c : InAgenda(agenda', F, c) <=> InAgenda(new, F, c) \/ InAgenda(Tail(agenda), F, c)
      /\ \A F, c : InAgenda(agenda, F, c) <=>
              (agenda[1].fn \in F /\ agenda[1].arg = c) \/ InAgenda(Tail(agenda), F, c)
  BY <1>1, <1>3, BaseFacts, StepContinues, Zenon
<1>5. TypeOK'
  BY <1>1, <1>4, BaseFacts DEF TypeOK
<1>6. \A c : InAgenda(agenda', Enabling, c) => InAgenda(agenda, Enabling, c)
  BY <1>3, <1>4, Zenon
<1>. QED
  BY <1>1, <1>4, <1>5, <1>6 DEF BaseInv, RunLink

LEMMA RecalculateBase ==
  ASSUME BaseInv, Recalculate
  PROVE  BaseInv'
<1>. DEFINE c == Arg[1]
            cause == Arg[2]
            on == enabled[c] /\ cause \notin {link[c][1], link[c][2]}
            new == IF on THEN <<Call("enable", c)>> ELSE <<>>
<1>1. /\ agenda # <<>> /\ agenda[1].fn = "recalculate" /\ Continue(new)
      /\ UNCHANGED stored
      /\ on => Disabling(c) /\ RunPredicate(c)
      /\ ~on => UNCHANGED <<identical, enabled, link, attached, reused>>
  BY DEF Recalculate, Running
<1>2. c \in Cons
  BY <1>1, BaseFacts, RunningArg
<1>9. on => enabled[c] /\ ~InAgenda(agenda, Enabling, c)
  BY <1>2 DEF BaseInv
<1>. HIDE DEF c, on
<1>3. new \in Seq(Calls) /\ Once(new) /\ \A d : InAgenda(new, Enabling, d) => on /\ d = c
  <2>1. CASE on
    <3>. DEFINE a == Call("enable", c)
    <3>1. a \in Calls /\ a.fn \in Enabling /\ a.arg = c
      BY <1>2, CallTyped, Zenon
    <3>2. new = <<a>>
      BY <2>1
    <3>. HIDE DEF a, new
    <3>. QED
      BY <2>1, <3>1, <3>2, InAgendaFew, ShortSeqs, Zenon
  <2>2. CASE ~on
    <3>1. new = <<>>
      BY <2>2
    <3>. HIDE DEF new
    <3>. QED
      BY <3>1, InAgendaFew, ShortSeqs, Zenon
  <2>. QED
    BY <2>1, <2>2
<1>. HIDE DEF new
<1>4. /\ agenda' \in Seq(Calls) /\ Once(agenda') /\ focus' = focus
      /\ \A F, d : InAgenda(agenda', F, d) <=> InAgenda(new, F, d) \/ InAgenda(Tail(agenda), F, d)
      /\ \A F, d : InAgenda(agenda, F, d) <=>
              (agenda[1].fn \in F /\ agenda[1].arg = d) \/ InAgenda(Tail(agenda), F, d)
  <2>1. ASSUME NEW d, InAgenda(new, Enabling, d)
        PROVE  ~InAgenda(agenda, Enabling, d)
    BY <1>9, <1>3, <2>1
  <2>. QED
    BY <1>1, <1>3, <2>1, BaseFacts, StepContinues, Zenon
<1>5. \A d : InAgenda(agenda', Enabling, d) => InAgenda(agenda, Enabling, d) \/ (on /\ d = c)
  BY <1>3, <1>4, Zenon
<1>6. CASE ~on
  <2>1. UNCHANGED <<stored, identical, enabled, link, attached, reused>>
    BY <1>1, <1>6
  <2>2. TypeOK'
    BY <1>4, <2>1, BaseFacts DEF TypeOK
  <2>. QED
    BY <1>4, <1>5, <1>6, <2>1, <2>2 DEF BaseInv, RunLink
<1>7. CASE on
  <2>1. Disabling(c) /\ RunPredicate(c) /\ enabled[c] /\ stored' = stored
    BY <1>1, <1>9, <1>7
  <2>2. link[c] \in Vars \X Vars
    BY <1>2, <2>1, BaseFacts DEF BaseInv
  <2>3. /\ attached' \in [Vars -> Seq(Cons)] /\ reused' \subseteq Cons
        /\ link' \in [Cons -> (Vars \X Vars) \cup {NoLink}]
        /\ link'[c] \in Vars \X Vars /\ link'[c] = <<This(c, stored), That(c, stored)>>
        /\ \A d \in Cons : d # c => link'[d] = link[d]
    BY <1>2, <2>1, BaseFacts, RunPredicateDoes
  <2>4. identical' \in [Vars -> Seq(Vars)] /\ \A x \in Vars : Injective(identical'[x])
    BY <2>1, <2>2, BaseFacts, UnlinkedContains DEF Disabling
  <2>5. enabled' \in [Cons -> BOOLEAN] /\ \A d \in Cons : enabled'[d] <=> enabled[d] /\ d # c
    BY <1>2, <2>1, BaseFacts DEF Disabling, TypeOK
  <2>6. stored \in [Vars -> Values] /\ link'[c] # NoLink
    BY <2>3, BaseFacts, PathAssumption DEF TypeOK
  <2>7. TypeOK'
    BY <1>4, <2>1, <2>3, <2>4, <2>5, BaseFacts DEF TypeOK
  <2>8. ASSUME NEW d \in Cons
        PROVE  /\ InAgenda(agenda', Enabling, d) => ~enabled'[d] /\ link'[d] # NoLink
               /\ enabled'[d] => link'[d] # NoLink
    <3>1. CASE d = c
      BY <2>5, <2>6, <3>1
    <3>2. CASE d # c
      BY <1>5, <2>3, <2>5, <3>2 DEF BaseInv
    <3>. QED
      BY <3>1, <3>2
  <2>9. ASSUME NEW d \in Cons, link'[d] # NoLink
        PROVE  RunLink(d)'
    <3>1. CASE d = c
      BY <2>3, <2>6, <3>1 DEF RunLink
    <3>2. CASE d # c
      BY <2>3, <2>9, <3>2 DEF BaseInv, RunLink
    <3>. QED
      BY <3>1, <3>2
  <2>. QED
    BY <1>4, <2>4, <2>7, <2>8, <2>9 DEF BaseInv
<1>. QED
  BY <1>6, <1>7

LEMMA EnableBase ==
  ASSUME BaseInv, Enable
  PROVE  BaseInv'
<1>. DEFINE c == Arg
            this == link[c][1]
            that == link[c][2]
            new == <<EndAssign(this), Call("enabled", c)>>
<1>1. /\ agenda # <<>> /\ agenda[1].fn = "enable" /\ agenda[1].arg = c
      /\ UNCHANGED <<attached, enabled, link, reused>>
  BY DEF Enable, Running, Arg
<1>2. c \in Cons /\ InAgenda(agenda, Enabling, c)
  <2>1. 1 \in DOMAIN agenda /\ agenda[1].fn \in Enabling
    BY <1>1, BaseFacts, CallTyped DEF TypeOK
  <2>2. InAgenda(agenda, Enabling, c)
    BY <1>1, <2>1, Zenon DEF InAgenda
  <2>. QED
    BY <1>1, <2>1, <2>2, BaseFacts, RunningArg
<1>3. ~enabled[c] /\ link[c] \in Vars \X Vars
  BY <1>2, BaseFacts DEF BaseInv
<1>4. /\ identical' = Linked(<<that, this>>)
      /\ stored' = [stored EXCEPT ![this] = stored[that]]
      /\ Continue(new)
  BY <1>3 DEF Enable
<1>5. this \in Vars /\ that \in Vars /\ <<that, this>> \in Vars \X Vars
  BY <1>3
<1>. HIDE DEF c, this, that
<1>6. new \in Seq(Calls) /\ Once(new) /\ \A d : InAgenda(new, Enabling, d) => d = c
  <2>. DEFINE a == EndAssign(this)
              b == Call("enabled", c)
  <2>1. a \in Calls /\ a.fn \notin Enabling /\ b \in Calls /\ b.arg = c
    BY <1>2, <1>5, CallTyped, Zenon
  <2>2. new = <<a, b>>
    OBVIOUS
  <2>. HIDE DEF a, b, new
  <2>3. <<a, b>> \in Seq(Calls)
    BY <2>1, ShortSeqs, Zenon
  <2>4. Once(<<a, b>>) /\ \A d : InAgenda(<<a, b>>, Enabling, d) => d = c
    BY <2>1, InAgendaFew, Zenon
  <2>. QED
    BY <2>2, <2>3, <2>4, Zenon
<1>. HIDE DEF new
<1>7. /\ agenda' \in Seq(Calls) /\ Once(agenda') /\ focus' = focus
      /\ \A F, d : InAgenda(agenda', F, d) <=> InAgenda(new, F, d) \/ InAgenda(Tail(agenda), F, d)
      /\ \A F, d : InAgenda(agenda, F, d) <=>
              (agenda[1].fn \in F /\ agenda[1].arg = d) \/ InAgenda(Tail(agenda), F, d)
  <2>1. ASSUME NEW d, InAgenda(new, Enabling, d)
        PROVE  agenda[1].fn \in Enabling /\ agenda[1].arg = d
    BY <1>1, <1>6, <2>1, CallTyped
  <2>. QED
    BY <1>1, <1>4, <1>6, <2>1, BaseFacts, StepContinues, Zenon
<1>8. \A d : InAgenda(agenda', Enabling, d) => InAgenda(agenda, Enabling, d)
  <2>1. ASSUME NEW d, InAgenda(new, Enabling, d)
        PROVE  InAgenda(agenda, Enabling, d)
    BY <1>2, <1>6, <2>1
  <2>. QED
    BY <1>7, <2>1, Zenon
<1>9. identical' \in [Vars -> Seq(Vars)] /\ \A x \in Vars : Injective(identical'[x])
  BY <1>4, <1>5, BaseFacts, LinkedContains
<1>10. stored' \in [Vars -> Values] /\ stored \in [Vars -> Values]
  BY <1>4, <1>5, BaseFacts DEF TypeOK
<1>11. TypeOK'
  BY <1>1, <1>7, <1>9, <1>10, BaseFacts DEF TypeOK
<1>. QED
  BY <1>1, <1>7, <1>8, <1>9, <1>11 DEF BaseInv, RunLink

LEMMA EnabledBase ==
  ASSUME BaseInv, Enabled
  PROVE  BaseInv'
<1>. DEFINE c == Arg
            l == link[c]
<1>1. /\ agenda # <<>> /\ agenda[1].fn = "enabled" /\ agenda[1].arg = c
      /\ identical' = Linked(l) /\ enabled' = [enabled EXCEPT ![c] = TRUE]
      /\ Continue(<<>>) /\ UNCHANGED <<stored, attached, link, reused>>
  BY DEF Enabled, Running, Arg
<1>2. c \in Cons /\ InAgenda(agenda, Enabling, c) /\ agenda[1].fn \in Enabling
  <2>1. 1 \in DOMAIN agenda /\ agenda[1].fn \in Enabling
    BY <1>1, BaseFacts, CallTyped DEF TypeOK
  <2>2. InAgenda(agenda, Enabling, c)
    BY <1>1, <2>1, Zenon DEF InAgenda
  <2>. QED
    BY <1>1, <2>1, <2>2, BaseFacts, RunningArg
<1>3. link[c] # NoLink /\ l \in Vars \X Vars
  BY <1>2, BaseFacts DEF BaseInv
<1>. HIDE DEF c, l
<1>4. /\ agenda' \in Seq(Calls) /\ Once(agenda') /\ focus' = focus
      /\ \A F, d : InAgenda(agenda', F, d) <=> InAgenda(<<>>, F, d) \/ InAgenda(Tail(agenda), F, d)
      /\ \A F, d : InAgenda(agenda, F, d) <=>
              (agenda[1].fn \in F /\ agenda[1].arg = d) \/ InAgenda(Tail(agenda), F, d)
      /\ ~InAgenda(Tail(agenda), Enabling, c)
  BY <1>1, <1>2, BaseFacts, StepContinues, InAgendaFew, ShortSeqs, Zenon
<1>5. \A d : InAgenda(agenda', Enabling, d) => InAgenda(agenda, Enabling, d) /\ d # c
  <2>. SUFFICES ASSUME NEW d, InAgenda(agenda', Enabling, d)
                PROVE  InAgenda(agenda, Enabling, d) /\ d # c
    OBVIOUS
  <2>1. ~InAgenda(<<>>, Enabling, d)
    BY InAgendaFew, Zenon
  <2>2. InAgenda(Tail(agenda), Enabling, d)
    BY <1>4, <2>1, Zenon
  <2>. QED
    BY <1>4, <2>2, Zenon
<1>6. identical' \in [Vars -> Seq(Vars)] /\ \A x \in Vars : Injective(identical'[x])
  BY <1>1, <1>3, BaseFacts, LinkedContains
<1>7. enabled' \in [Cons -> BOOLEAN] /\ \A d \in Cons : enabled'[d] <=> enabled[d] \/ d = c
  BY <1>1, <1>2, BaseFacts DEF TypeOK
<1>8. TypeOK'
  BY <1>1, <1>4, <1>6, <1>7, BaseFacts DEF TypeOK
<1>. QED
  BY <1>1, <1>3, <1>4, <1>5, <1>6, <1>7, <1>8 DEF BaseInv, RunLink

LEMMA AlwaysBase ==
  ASSUME BaseInv, NEW c \in Cons, Always(c)
  PROVE  BaseInv'
<1>. DEFINE a == Call("enable", c)
<1>1. /\ link[c] = NoLink /\ RunPredicate(c) /\ agenda' = <<a>> /\ focus' = {}
      /\ UNCHANGED <<stored, identical, enabled>>
  BY DEF Always
<1>2. a \in Calls /\ a.fn \in Enabling /\ a.arg = c
  BY CallTyped, Zenon
<1>. HIDE DEF a
<1>3. agenda' \in Seq(Calls) /\ Once(agenda') /\ \A d : InAgenda(agenda', Enabling, d) => d = c
  BY <1>1, <1>2, InAgendaFew, ShortSeqs, Zenon
<1>4. /\ attached' \in [Vars -> Seq(Cons)] /\ reused' \subseteq Cons
      /\ link' \in [Cons -> (Vars \X Vars) \cup {NoLink}]
      /\ link'[c] \in Vars \X Vars /\ link'[c] = <<This(c, stored), That(c, stored)>>
      /\ \A d \in Cons : d # c => link'[d] = link[d]
  BY <1>1, BaseFacts, RunPredicateDoes
<1>5. stored \in [Vars -> Values] /\ link'[c] # NoLink /\ ~enabled[c]
  BY <1>1, <1>4, BaseFacts, PathAssumption DEF BaseInv, TypeOK
<1>6. TypeOK'
  BY <1>1, <1>3, <1>4, BaseFacts DEF TypeOK
<1>7. ASSUME NEW d \in Cons
      PROVE  /\ InAgenda(agenda', Enabling, d) => ~enabled'[d] /\ link'[d] # NoLink
             /\ enabled'[d] => link'[d] # NoLink
  <2>1. CASE d = c
    BY <1>1, <1>5, <2>1
  <2>2. CASE d # c
    BY <1>1, <1>3, <1>4, <2>2 DEF BaseInv
  <2>. QED
    BY <2>1, <2>2
<1>8. ASSUME NEW d \in Cons, link'[d] # NoLink
      PROVE  RunLink(d)'
  <2>1. CASE d = c
    BY <1>1, <1>4, <1>5, <2>1 DEF RunLink
  <2>2. CASE d # c
    BY <1>4, <1>8, <2>2 DEF BaseInv, RunLink
  <2>. QED
    BY <2>1, <2>2
<1>. QED
  BY <1>1, <1>3, <1>6, <1>7, <1>8 DEF BaseInv

LEMMA EnableAgainBase ==
  ASSUME BaseInv, NEW c \in Cons, EnableAgain(c)
  PROVE  BaseInv'
<1>. DEFINE a == Call("enable", c)
<1>1. /\ link[c] # NoLink /\ ~enabled[c] /\ agenda' = <<a>> /\ focus' = {}
      /\ reused' = reused \cup {c}
      /\ UNCHANGED <<stored, identical, attached, enabled, link>>
  BY DEF EnableAgain
<1>2. a \in Calls /\ a.fn \in Enabling /\ a.arg = c
  BY CallTyped, Zenon
<1>. HIDE DEF a
<1>3. agenda' \in Seq(Calls) /\ Once(agenda') /\ \A d : InAgenda(agenda', Enabling, d) => d = c
  BY <1>1, <1>2, InAgendaFew, ShortSeqs, Zenon
<1>4. TypeOK'
  BY <1>1, <1>3, BaseFacts DEF TypeOK
<1>. QED
  BY <1>1, <1>3, <1>4 DEF BaseInv, RunLink

LEMMA DisableBase ==
  ASSUME BaseInv, NEW c \in Cons, Disable(c)
  PROVE  BaseInv'
<1>1. /\ enabled[c] /\ Disabling(c) /\ focus' = {}
      /\ UNCHANGED <<stored, attached, link, agenda, reused>>
  BY DEF Disable
<1>2. link[c] \in Vars \X Vars
  BY <1>1, BaseFacts DEF BaseInv
<1>3. identical' \in [Vars -> Seq(Vars)] /\ \A x \in Vars : Injective(identical'[x])
  BY <1>1, <1>2, BaseFacts, UnlinkedContains DEF Disabling
<1>4. enabled' \in [Cons -> BOOLEAN] /\ \A d \in Cons : enabled'[d] <=> enabled[d] /\ d # c
  BY <1>1, BaseFacts DEF Disabling, TypeOK
<1>5. TypeOK'
  BY <1>1, <1>3, <1>4, BaseFacts DEF TypeOK
<1>. QED
  BY <1>1, <1>3, <1>4, <1>5 DEF BaseInv, RunLink

LEMMA AssignBase ==
  ASSUME BaseInv, NEW x \in Vars, NEW v \in Values, Assign(x, v)
  PROVE  BaseInv'
<1>. DEFINE xs == AllIdentical(x)
<1>1. /\ stored' = [y \in Vars |-> IF Contains(xs, y) THEN v ELSE stored[y]]
      /\ agenda' = [i \in DOMAIN xs |-> EndAssign(xs[i])]
      /\ focus' = {x}
      /\ UNCHANGED <<identical, attached, enabled, link, reused>>
  BY DEF Assign
<1>2. xs \in Seq(Vars)
  BY BaseFacts, WalkFindsClass DEF TypeOK
<1>. HIDE DEF xs
<1>3. Len(xs) \in Nat /\ DOMAIN xs = 1..Len(xs) /\ \A i \in 1..Len(xs) : xs[i] \in Vars
  BY <1>2, LenProperties
<1>4. \A i \in 1..Len(xs) : EndAssign(xs[i]) \in Calls /\ EndAssign(xs[i]).fn \notin Enabling
  BY <1>3, CallTyped, Zenon
<1>5. agenda' \in Seq(Calls) /\ \A i \in DOMAIN agenda' : agenda'[i].fn \notin Enabling
  BY <1>1, <1>3, <1>4
<1>6. Once(agenda') /\ \A d : ~InAgenda(agenda', Enabling, d)
  BY <1>5, Zenon DEF Once, InAgenda
<1>7. stored' \in [Vars -> Values]
  BY <1>1, BaseFacts DEF TypeOK
<1>8. TypeOK'
  BY <1>1, <1>5, <1>7, BaseFacts DEF TypeOK
<1>. QED
  BY <1>1, <1>6, <1>8 DEF BaseInv, RunLink

LEMMA BaseStep ==
  ASSUME BaseInv, [Next]_vars
  PROVE  BaseInv'
<1>1. CASE Step
  BY <1>1, RecalculatePathBase, RecalculateBase, EnableBase, EnabledBase DEF Step
<1>2. ASSUME NEW c \in Cons, Always(c) \/ EnableAgain(c) \/ Disable(c)
      PROVE  BaseInv'
  BY <1>2, AlwaysBase, EnableAgainBase, DisableBase
<1>3. ASSUME NEW x \in Vars, NEW v \in Values, Assign(x, v)
      PROVE  BaseInv'
  BY <1>3, AssignBase
<1>4. CASE UNCHANGED vars
  BY <1>4 DEF vars, BaseInv, TypeOK, RunLink
<1>. QED
  BY <1>1, <1>2, <1>3, <1>4, Zenon DEF Next, UserStep

(* The lists and the pending calls keep their types over any program, also *)
(* through recalculations inside of recalculations; a link is that of a    *)
(* run of its block.                                                       *)
THEOREM BaseInvHolds == Spec => []BaseInv
<1>. QED
  BY BaseInit, BaseStep, PTL DEF Spec

(* No block is in the middle of an enable (constraintobject.py:117) twice, *)
(* and one that is counts as disabled, whatever recalculates it meanwhile. *)
THEOREM PathsWellFormed == Spec => []WellFormed
<1>1. ASSUME BaseInv
      PROVE  WellFormed
  <2>1. TypeOK /\ agenda \in Seq(Calls)
    BY <1>1, BaseFacts DEF TypeOK
  <2>2. ASSUME NEW i \in DOMAIN agenda, agenda[i].fn \in {"enable", "enabled"}
        PROVE  ~enabled[agenda[i].arg]
    <3>1. agenda[i] \in Calls
      BY <2>1
    <3>2. agenda[i].arg \in Cons
      BY <2>2, <3>1 DEF Calls
    <3>3. InAgenda(agenda, Enabling, agenda[i].arg)
      BY <2>2, Zenon DEF InAgenda, Enabling
    <3>. QED
      BY <1>1, <3>2, <3>3 DEF BaseInv
  <2>3. NoReentry
    BY <1>1, <2>2 DEF NoReentry, BaseInv, Once, Enabling
  <2>. QED
    BY <2>1, <2>3 DEF WellFormed
<1>. QED
  BY <1>1, BaseInvHolds, PTL

-----------------------------------------------------------------------------
(* The second part of the invariant.                                       *)

(* No two blocks link the same two variables, wherever their paths lead.   *)
Distinct ==
  \A c, d \in Cons, m, n \in [Vars -> Values] : c # d =>
    <<This(c, m), That(c, m)>> \notin {<<This(d, n), That(d, n)>>, <<That(d, n), This(d, n)>>}

LEMMA LinksApart ==
  ASSUME Distinct, BaseInv, NEW c \in Cons, NEW d \in Cons, c # d,
         link[c] # NoLink, link[d] # NoLink
  PROVE  link[c] # link[d] /\ link[c] # <<link[d][2], link[d][1]>>
<1>1. PICK m \in [Vars -> Values] : link[c] = <<This(c, m), That(c, m)>>
  BY DEF BaseInv, RunLink
<1>2. PICK n \in [Vars -> Values] : link[d] = <<This(d, n), That(d, n)>>
  BY DEF BaseInv, RunLink
<1>3. /\ <<This(c, m), That(c, m)>> # <<This(d, n), That(d, n)>>
      /\ <<This(c, m), That(c, m)>> # <<That(d, n), This(d, n)>>
  BY Zenon DEF Distinct
<1>. QED
  BY <1>1, <1>2, <1>3

(* What is half done before and after a call.                              *)
LEMMA ContinuedHalf ==
  ASSUME TypeOK, agenda # <<>>, NEW new \in Seq(Calls), Continue(new)
  PROVE  /\ \A d : InAgenda(agenda', {"enabled"}, d) <=>
                InAgenda(new, {"enabled"}, d) \/ InAgenda(Tail(agenda), {"enabled"}, d)
         /\ \A d : InAgenda(agenda, {"enabled"}, d) <=>
                (agenda[1].fn = "enabled" /\ agenda[1].arg = d) \/ InAgenda(Tail(agenda), {"enabled"}, d)
<1>1. agenda' = new \o Tail(agenda) /\ agenda \in Seq(Calls)
  BY DEF Continue, TypeOK
<1>2. /\ \A d : InAgenda(new \o Tail(agenda), {"enabled"}, d) <=>
                InAgenda(new, {"enabled"}, d) \/ InAgenda(Tail(agenda), {"enabled"}, d)
      /\ \A d : InAgenda(agenda, {"enabled"}, d) <=>
                (agenda[1].fn \in {"enabled"} /\ agenda[1].arg = d) \/ InAgenda(Tail(agenda), {"enabled"}, d)
  BY <1>1, Continued, Zenon
<1>. QED
  BY <1>1, <1>2, Zenon

LEMMA RecalculatePathHalf ==
  ASSUME BaseInv, RecalculatePath
  PROVE  \A d : HalfDone(d)' <=> HalfDone(d)
<1>. DEFINE x == Arg[1]
            i == Arg[2]
            new == IF i \in DOMAIN attached[x] THEN Visit(x, i) ELSE <<>>
<1>1. agenda # <<>> /\ agenda[1].fn = "recalculate_path" /\ Continue(new)
  BY DEF RecalculatePath, Running
<1>2. x \in Vars /\ i \in Nat
  BY <1>1, BaseFacts, RunningArg
<1>. HIDE DEF x, i
<1>3. new \in Seq(Calls) /\ \A c : ~InAgenda(new, {"enabled"}, c)
  <2>1. CASE i \in DOMAIN attached[x]
    <3>. DEFINE a == Call("recalculate", <<attached[x][i], x>>)
                b == Call("recalculate_path", <<x, i + 1>>)
    <3>1. attached[x][i] \in Cons /\ i + 1 \in Nat
      BY <1>2, <2>1, BaseFacts DEF TypeOK
    <3>2. a \in Calls /\ b \in Calls
      BY <1>2, <3>1, CallTyped, Zenon
    <3>3. a.fn \notin {"enabled"} /\ b.fn \notin {"enabled"}
      BY DEF Call
    <3>4. new = <<a, b>>
      BY <2>1 DEF Visit
    <3>. HIDE DEF a, b, new
    <3>5. <<a, b>> \in Seq(Calls)
      BY <3>2, ShortSeqs, Zenon
    <3>6. \A c : ~InAgenda(<<a, b>>, {"enabled"}, c)
      BY <3>3, InAgendaFew, Zenon
    <3>. QED
      BY <3>4, <3>5, <3>6, Zenon
  <2>2. CASE i \notin DOMAIN attached[x]
    <3>1. new = <<>>
      BY <2>2
    <3>. HIDE DEF new
    <3>. QED
      BY <3>1, InAgendaFew, ShortSeqs, Zenon
  <2>. QED
    BY <2>1, <2>2
<1>. HIDE DEF new
<1>4. agenda[1].fn # "enabled"
  BY <1>1
<1>5. /\ \A d : InAgenda(agenda', {"enabled"}, d) <=>
           InAgenda(new, {"enabled"}, d) \/ InAgenda(Tail(agenda), {"enabled"}, d)
      /\ \A d : InAgenda(agenda, {"enabled"}, d) <=>
           (agenda[1].fn = "enabled" /\ agenda[1].arg = d) \/ InAgenda(Tail(agenda), {"enabled"}, d)
  BY <1>1, <1>3, BaseFacts, ContinuedHalf, Zenon
<1>. QED
  BY <1>3, <1>4, <1>5, Zenon DEF HalfDone

LEMMA RecalculateHalf ==
  ASSUME BaseInv, Recalculate
  PROVE  \A d : HalfDone(d)' <=> HalfDone(d)
<1>. DEFINE c == Arg[1]
            on == enabled[c] /\ Arg[2] \notin {link[c][1], link[c][2]}
            a == Call("enable", c)
            new == IF on THEN <<a>> ELSE <<>>
<1>1. agenda # <<>> /\ agenda[1].fn = "recalculate" /\ Continue(new)
  BY DEF Recalculate, Running
<1>2. a \in Calls /\ a.fn \notin {"enabled"}
  <2>1. c \in Cons
    BY <1>1, BaseFacts, RunningArg
  <2>2. a.fn = "enable"
    BY CallTyped, Zenon
  <2>3. a \in Calls
    BY <2>1, CallTyped, Zenon
  <2>. QED
    BY <2>2, <2>3
<1>3. new = <<a>> \/ new = <<>>
  OBVIOUS
<1>. HIDE DEF a, new
<1>4. new \in Seq(Calls) /\ \A d : ~InAgenda(new, {"enabled"}, d)
  <2>1. <<a>> \in Seq(Calls) /\ \A d : ~InAgenda(<<a>>, {"enabled"}, d)
    BY <1>2, InAgendaFew, ShortSeqs, Zenon
  <2>2. <<>> \in Seq(Calls) /\ \A d : ~InAgenda(<<>>, {"enabled"}, d)
    BY InAgendaFew, ShortSeqs, Zenon
  <2>. QED
    BY <1>3, <2>1, <2>2
<1>5. agenda[1].fn # "enabled"
  BY <1>1
<1>6. /\ \A d : InAgenda(agenda', {"enabled"}, d) <=>
           InAgenda(new, {"enabled"}, d) \/ InAgenda(Tail(agenda), {"enabled"}, d)
      /\ \A d : InAgenda(agenda, {"enabled"}, d) <=>
           (agenda[1].fn = "enabled" /\ agenda[1].arg = d) \/ InAgenda(Tail(agenda), {"enabled"}, d)
  BY <1>1, <1>4, BaseFacts, ContinuedHalf, Zenon
<1>. QED
  BY <1>4, <1>5, <1>6, Zenon DEF HalfDone

LEMMA EnableHalf ==
  ASSUME BaseInv, Enable
  PROVE  /\ Arg \in Cons /\ link[Arg] \in Vars \X Vars /\ ~enabled[Arg]
         /\ identical' = Linked(<<link[Arg][2], link[Arg][1]>>)
         /\ \A d : HalfDone(d)' <=> HalfDone(d) \/ d = Arg
<1>. DEFINE c == Arg
            a == EndAssign(link[c][1])
            b == Call("enabled", c)
<1>1. agenda # <<>> /\ agenda[1].fn = "enable" /\ agenda[1].arg = c
  BY DEF Enable, Running, Arg
<1>2. c \in Cons /\ InAgenda(agenda, Enabling, c)
  <2>1. 1 \in DOMAIN agenda /\ agenda[1].fn \in Enabling
    BY <1>1, BaseFacts, CallTyped DEF TypeOK
  <2>2. InAgenda(agenda, Enabling, c)
    BY <1>1, <2>1, Zenon DEF InAgenda
  <2>. QED
    BY <1>1, <2>1, <2>2, BaseFacts, RunningArg
<1>3. ~enabled[c] /\ link[c] \in Vars \X Vars
  BY <1>2, BaseFacts DEF BaseInv
<1>4. /\ identical' = Linked(<<link[c][2], link[c][1]>>)
      /\ Continue(<<a, b>>)
  BY <1>3 DEF Enable
<1>5. link[c][1] \in Vars
  BY <1>3
<1>6. a \in Calls /\ b \in Calls /\ b.fn = "enabled" /\ b.arg = c
  BY <1>2, <1>5, CallTyped, Zenon
<1>7. a.fn \notin {"enabled"} /\ b.fn \in {"enabled"}
  BY <1>6 DEF EndAssign, Call
<1>. HIDE DEF a, b, c
<1>8. <<a, b>> \in Seq(Calls) /\ \A d : InAgenda(<<a, b>>, {"enabled"}, d) <=> d = c
  BY <1>6, <1>7, InAgendaFew, ShortSeqs, Zenon
<1>9. agenda[1].fn # "enabled"
  BY <1>1
<1>10. /\ \A d : InAgenda(agenda', {"enabled"}, d) <=>
           InAgenda(<<a, b>>, {"enabled"}, d) \/ InAgenda(Tail(agenda), {"enabled"}, d)
       /\ \A d : InAgenda(agenda, {"enabled"}, d) <=>
           (agenda[1].fn = "enabled" /\ agenda[1].arg = d) \/ InAgenda(Tail(agenda), {"enabled"}, d)
  BY <1>1, <1>4, <1>8, BaseFacts, ContinuedHalf, Zenon
<1>11. \A d : HalfDone(d)' <=> HalfDone(d) \/ d = c
  BY <1>8, <1>9, <1>10, Zenon DEF HalfDone
<1>. QED
  BY <1>2, <1>3, <1>4, <1>11 DEF c

LEMMA EnabledHalf ==
  ASSUME BaseInv, Enabled
  PROVE  /\ Arg \in Cons /\ link[Arg] \in Vars \X Vars /\ HalfDone(Arg)
         /\ identical' = Linked(link[Arg])
         /\ enabled' = [enabled EXCEPT ![Arg] = TRUE] /\ UNCHANGED link
         /\ \A d : HalfDone(d)' <=> HalfDone(d) /\ d # Arg
<1>. DEFINE c == Arg
<1>1. /\ agenda # <<>> /\ agenda[1].fn = "enabled" /\ agenda[1].arg = c
      /\ identical' = Linked(link[c]) /\ enabled' = [enabled EXCEPT ![c] = TRUE]
      /\ Continue(<<>>) /\ UNCHANGED link
  BY DEF Enabled, Running, Arg
<1>2. c \in Cons /\ InAgenda(agenda, Enabling, c) /\ agenda[1].fn \in Enabling
  <2>1. 1 \in DOMAIN agenda /\ agenda[1].fn \in Enabling
    BY <1>1, BaseFacts, CallTyped DEF TypeOK
  <2>2. InAgenda(agenda, Enabling, c)
    BY <1>1, <2>1, Zenon DEF InAgenda
  <2>. QED
    BY <1>1, <2>1, <2>2, BaseFacts, RunningArg
<1>3. link[c] \in Vars \X Vars
  BY <1>2, BaseFacts DEF BaseInv
<1>. HIDE DEF c
<1>4. ~InAgenda(Tail(agenda), Enabling, c)
  <2>1. Once(agenda) /\ agenda \in Seq(Calls)
    BY BaseFacts DEF TypeOK
  <2>. QED
    BY <1>1, <1>2, <2>1, Continued, ShortSeqs, Zenon
<1>5. \A d : InAgenda(Tail(agenda), {"enabled"}, d) => InAgenda(Tail(agenda), Enabling, d)
  BY CallTyped DEF InAgenda
<1>6. /\ \A d : InAgenda(agenda', {"enabled"}, d) <=>
           InAgenda(<<>>, {"enabled"}, d) \/ InAgenda(Tail(agenda), {"enabled"}, d)
      /\ \A d : InAgenda(agenda, {"enabled"}, d) <=>
           (agenda[1].fn = "enabled" /\ agenda[1].arg = d) \/ InAgenda(Tail(agenda), {"enabled"}, d)
  BY <1>1, BaseFacts, ContinuedHalf, ShortSeqs, Zenon
<1>7. \A d : ~InAgenda(<<>>, {"enabled"}, d)
  BY InAgendaFew, Zenon
<1>8. HalfDone(c) /\ \A d : HalfDone(d)' <=> HalfDone(d) /\ d # c
  BY <1>1, <1>4, <1>5, <1>6, <1>7, Zenon DEF HalfDone
<1>. QED
  BY <1>1, <1>2, <1>3, <1>8 DEF c

LEMMA OpenIsHalf ==
  ASSUME BaseInv, NEW c \in Cons, HalfDone(c)
  PROVE  ~enabled[c] /\ link[c] \in Vars \X Vars
<1>1. InAgenda(agenda, Enabling, c)
  BY CallTyped DEF HalfDone, InAgenda
<1>. QED
  BY <1>1, BaseFacts DEF BaseInv

(* Steps that touch no link of a block that has one.                       *)
LEMMA LinksSame ==
  ASSUME LinkInv, identical' = identical, enabled' = enabled,
         \A d \in Cons : HalfDone(d)' <=> HalfDone(d),
         \A d \in Cons : enabled[d] \/ HalfDone(d) => link'[d] = link[d]
  PROVE  LinkInv'
<1>1. ASSUME NEW d \in Cons, enabled'[d]
      PROVE  /\ Contains(identical'[link'[d][1]], link'[d][2])
             /\ Contains(identical'[link'[d][2]], link'[d][1])
  BY <1>1 DEF LinkInv
<1>2. ASSUME NEW d \in Cons, HalfDone(d)'
      PROVE  Contains(identical'[link'[d][2]], link'[d][1])
  BY <1>2 DEF LinkInv
<1>3. ASSUME NEW x \in Vars, NEW y \in Vars, Contains(identical'[x], y)
      PROVE  \E d \in Cons : \/ enabled'[d] /\ link'[d] \in {<<x, y>>, <<y, x>>}
                             \/ HalfDone(d)' /\ link'[d] = <<y, x>>
  <2>1. PICK d \in Cons : \/ enabled[d] /\ link[d] \in {<<x, y>>, <<y, x>>}
                          \/ HalfDone(d) /\ link[d] = <<y, x>>
    BY <1>3 DEF LinkInv
  <2>. QED
    BY <2>1
<1>. QED
  BY <1>1, <1>2, <1>3 DEF LinkInv

(* A link goes when its block is disabled, and no other one does.          *)
LEMMA LinksRemoved ==
  ASSUME Distinct, BaseInv, LinkInv, NEW c \in Cons, enabled[c], Disabling(c),
         \A d \in Cons : HalfDone(d)' <=> HalfDone(d),
         \A d \in Cons : d # c => link'[d] = link[d]
  PROVE  LinkInv'
<1>. DEFINE l == link[c]
<1>1. l \in Vars \X Vars /\ l # NoLink /\ ~HalfDone(c)
  BY BaseFacts, OpenIsHalf DEF BaseInv
<1>2. \A d \in Cons : enabled'[d] <=> enabled[d] /\ d # c
  BY BaseFacts DEF Disabling, TypeOK
<1>3. \A x, y \in Vars : Contains(identical'[x], y) <=>
        Contains(identical[x], y) /\ ~(x = l[1] /\ y = l[2]) /\ ~(x = l[2] /\ y = l[1])
  <2>1. identical' = Unlinked(l)
    BY DEF Disabling
  <2>. HIDE DEF l
  <2>. QED
    BY <1>1, <2>1, BaseFacts, UnlinkedContains
<1>4. ASSUME NEW d \in Cons, enabled[d] \/ HalfDone(d), d # c
      PROVE  /\ link[d] \in Vars \X Vars /\ link'[d] = link[d]
             /\ ~(link[d][1] = l[1] /\ link[d][2] = l[2])
             /\ ~(link[d][1] = l[2] /\ link[d][2] = l[1])
  <2>1. link[d] \in Vars \X Vars /\ link[d] # NoLink
    BY <1>4, BaseFacts, OpenIsHalf, PathAssumption DEF BaseInv
  <2>2. link[d] # l /\ link[d] # <<l[2], l[1]>>
    BY <1>1, <1>4, <2>1, LinksApart
  <2>. HIDE DEF l
  <2>. QED
    BY <1>1, <1>4, <2>1, <2>2
<1>. HIDE DEF l
<1>5. ASSUME NEW d \in Cons, enabled'[d]
      PROVE  /\ Contains(identical'[link'[d][1]], link'[d][2])
             /\ Contains(identical'[link'[d][2]], link'[d][1])
  <2>1. enabled[d] /\ d # c
    BY <1>2, <1>5
  <2>2. Contains(identical[link[d][1]], link[d][2]) /\ Contains(identical[link[d][2]], link[d][1])
    BY <2>1 DEF LinkInv
  <2>3. link[d][1] \in Vars /\ link[d][2] \in Vars
    BY <1>4, <2>1
  <2>. QED
    BY <1>3, <1>4, <2>1, <2>2, <2>3
<1>6. ASSUME NEW d \in Cons, HalfDone(d)'
      PROVE  Contains(identical'[link'[d][2]], link'[d][1])
  <2>1. HalfDone(d) /\ d # c
    BY <1>1, <1>6
  <2>2. Contains(identical[link[d][2]], link[d][1])
    BY <2>1 DEF LinkInv
  <2>3. link[d][1] \in Vars /\ link[d][2] \in Vars
    BY <1>4, <2>1
  <2>. QED
    BY <1>3, <1>4, <2>1, <2>2, <2>3
<1>7. ASSUME NEW x \in Vars, NEW y \in Vars, Contains(identical'[x], y)
      PROVE  \E d \in Cons : \/ enabled'[d] /\ link'[d] \in {<<x, y>>, <<y, x>>}
                             \/ HalfDone(d)' /\ link'[d] = <<y, x>>
  <2>1. Contains(identical[x], y) /\ ~(x = l[1] /\ y = l[2]) /\ ~(x = l[2] /\ y = l[1])
    BY <1>3, <1>7
  <2>2. PICK d \in Cons : \/ enabled[d] /\ link[d] \in {<<x, y>>, <<y, x>>}
                          \/ HalfDone(d) /\ link[d] = <<y, x>>
    BY <2>1 DEF LinkInv
  <2>3. d # c
    BY <2>1, <2>2, <1>1 DEF l
  <2>4. link'[d] = link[d]
    BY <2>3
  <2>. QED
    BY <1>2, <2>2, <2>3, <2>4
<1>. QED
  BY <1>5, <1>6, <1>7 DEF LinkInv

(* The first half of a link.                                               *)
LEMMA EnableLinks ==
  ASSUME BaseInv, LinkInv, Enable
  PROVE  LinkInv'
<1>0. PICK c \in Cons : c = Arg
  BY EnableHalf
<1>. DEFINE l == link[c]
<1>1. /\ c \in Cons /\ l \in Vars \X Vars
      /\ identical' = Linked(<<l[2], l[1]>>)
      /\ \A d : HalfDone(d)' <=> HalfDone(d) \/ d = c
  BY <1>0, EnableHalf
<1>2. enabled' = enabled /\ link' = link
  BY DEF Enable
<1>. HIDE DEF l
<1>3. l[1] \in Vars /\ l[2] \in Vars /\ <<l[2], l[1]>> \in Vars \X Vars
  BY <1>1
<1>4. \A x, y \in Vars : Contains(identical'[x], y) <=> Contains(identical[x], y) \/ (x = l[2] /\ y = l[1])
  BY <1>1, <1>3, BaseFacts, LinkedContains
<1>5. \A d \in Cons : enabled[d] \/ HalfDone(d) => link[d][1] \in Vars /\ link[d][2] \in Vars
  BY BaseFacts, OpenIsHalf DEF BaseInv
<1>6. ASSUME NEW d \in Cons, enabled[d]
      PROVE  /\ Contains(identical'[link[d][1]], link[d][2])
             /\ Contains(identical'[link[d][2]], link[d][1])
  BY <1>4, <1>5, <1>6 DEF LinkInv
<1>7. ASSUME NEW d \in Cons, HalfDone(d) \/ d = c
      PROVE  Contains(identical'[link[d][2]], link[d][1])
  BY <1>3, <1>4, <1>5, <1>7 DEF LinkInv, l
<1>8. ASSUME NEW x \in Vars, NEW y \in Vars, Contains(identical'[x], y)
      PROVE  \E d \in Cons : \/ enabled[d] /\ link[d] \in {<<x, y>>, <<y, x>>}
                             \/ HalfDone(d)' /\ link[d] = <<y, x>>
  <2>1. CASE Contains(identical[x], y)
    <3>1. PICK d \in Cons : \/ enabled[d] /\ link[d] \in {<<x, y>>, <<y, x>>}
                            \/ HalfDone(d) /\ link[d] = <<y, x>>
      BY <2>1 DEF LinkInv
    <3>. QED
      BY <1>1, <3>1
  <2>2. CASE x = l[2] /\ y = l[1]
    <3>1. link[c] = <<y, x>> /\ HalfDone(c)'
      BY <1>1, <2>2 DEF l
    <3>. QED
      BY <1>1, <3>1
  <2>. QED
    BY <1>4, <1>8, <2>1, <2>2
<1>9. \A d \in Cons : HalfDone(d)' => HalfDone(d) \/ d = c
  BY <1>1
<1>. QED
  BY <1>2, <1>6, <1>7, <1>8, <1>9 DEF LinkInv

(* The second half.                                                        *)
LEMMA EnabledLinks ==
  ASSUME BaseInv, LinkInv, Enabled
  PROVE  LinkInv'
<1>. DEFINE c == Arg
            l == link[c]
<1>1. /\ c \in Cons /\ l \in Vars \X Vars /\ HalfDone(c)
      /\ identical' = Linked(l) /\ enabled' = [enabled EXCEPT ![c] = TRUE] /\ link' = link
      /\ \A d : HalfDone(d)' <=> HalfDone(d) /\ d # c
  BY EnabledHalf
<1>. HIDE DEF c, l
<1>2. \A d \in Cons : enabled'[d] <=> enabled[d] \/ d = c
  BY <1>1, BaseFacts DEF TypeOK
<1>3. l[1] \in Vars /\ l[2] \in Vars
  BY <1>1
<1>4. \A x, y \in Vars : Contains(identical'[x], y) <=> Contains(identical[x], y) \/ (x = l[1] /\ y = l[2])
  BY <1>1, BaseFacts, LinkedContains
<1>5. \A d \in Cons : enabled[d] \/ HalfDone(d) => link[d][1] \in Vars /\ link[d][2] \in Vars
  BY BaseFacts, OpenIsHalf DEF BaseInv
<1>6. ASSUME NEW d \in Cons, enabled'[d]
      PROVE  /\ Contains(identical'[link[d][1]], link[d][2])
             /\ Contains(identical'[link[d][2]], link[d][1])
  <2>1. CASE enabled[d]
    BY <1>4, <1>5, <2>1 DEF LinkInv
  <2>2. CASE d = c
    BY <1>1, <1>3, <1>4, <2>2 DEF LinkInv, l
  <2>. QED
    BY <1>2, <1>6, <2>1, <2>2
<1>7. ASSUME NEW d \in Cons, HalfDone(d)
      PROVE  Contains(identical'[link[d][2]], link[d][1])
  BY <1>4, <1>5, <1>7 DEF LinkInv
<1>8. ASSUME NEW x \in Vars, NEW y \in Vars, Contains(identical'[x], y)
      PROVE  \E d \in Cons : \/ enabled'[d] /\ link[d] \in {<<x, y>>, <<y, x>>}
                             \/ HalfDone(d)' /\ link[d] = <<y, x>>
  <2>1. CASE Contains(identical[x], y)
    <3>1. PICK d \in Cons : \/ enabled[d] /\ link[d] \in {<<x, y>>, <<y, x>>}
                            \/ HalfDone(d) /\ link[d] = <<y, x>>
      BY <2>1 DEF LinkInv
    <3>. QED
      BY <1>1, <1>2, <3>1
  <2>2. CASE x = l[1] /\ y = l[2]
    <3>1. link[c] = <<x, y>> /\ enabled'[c]
      BY <1>1, <1>2, <2>2 DEF l
    <3>. QED
      BY <1>1, <3>1
  <2>. QED
    BY <1>4, <1>8, <2>1, <2>2
<1>. QED
  BY <1>1, <1>6, <1>7, <1>8 DEF LinkInv

LEMMA IdleIsWhole ==
  ASSUME Idle
  PROVE  \A d : ~HalfDone(d)
  BY InAgendaFew, Zenon DEF Idle, HalfDone

LEMMA LinkInit ==
  ASSUME Init
  PROVE  LinkInv
<1>1. Idle /\ (\A c \in Cons : ~enabled[c]) /\ \A x \in Vars : identical[x] = <<>>
  BY DEF Init, Idle
<1>2. \A x \in Vars : \A y : ~Contains(identical[x], y)
  BY <1>1 DEF Contains
<1>. QED
  BY <1>1, <1>2, IdleIsWhole DEF LinkInv

LEMMA LinkUserStep ==
  ASSUME Distinct, BaseInv, LinkInv, UserStep
  PROVE  LinkInv'
<1>1. ASSUME NEW c \in Cons, Always(c)
      PROVE  LinkInv'
  <2>. DEFINE a == Call("enable", c)
  <2>1. /\ Idle /\ link[c] = NoLink /\ RunPredicate(c) /\ agenda' = <<a>>
        /\ UNCHANGED <<identical, enabled>>
    BY <1>1 DEF Always
  <2>2. a.fn = "enable"
    BY CallTyped, Zenon
  <2>3. a.fn \notin {"enabled"}
    BY <2>2
  <2>. HIDE DEF a
  <2>4. \A d \in Cons : HalfDone(d)' <=> HalfDone(d)
    BY <2>1, <2>3, IdleIsWhole, InAgendaFew, Zenon DEF HalfDone
  <2>5. \A d \in Cons : enabled[d] \/ HalfDone(d) => link'[d] = link[d]
    BY <2>1, IdleIsWhole, BaseFacts, RunPredicateDoes DEF BaseInv
  <2>. QED
    BY <2>1, <2>4, <2>5, LinksSame
<1>2. ASSUME NEW c \in Cons, EnableAgain(c)
      PROVE  LinkInv'
  <2>. DEFINE a == Call("enable", c)
  <2>1. Idle /\ agenda' = <<a>> /\ UNCHANGED <<identical, enabled, link>>
    BY <1>2 DEF EnableAgain
  <2>2. a.fn = "enable"
    BY CallTyped, Zenon
  <2>3. a.fn \notin {"enabled"}
    BY <2>2
  <2>. HIDE DEF a
  <2>4. \A d \in Cons : HalfDone(d)' <=> HalfDone(d)
    BY <2>1, <2>3, IdleIsWhole, InAgendaFew, Zenon DEF HalfDone
  <2>. QED
    BY <2>1, <2>4, LinksSame
<1>3. ASSUME NEW c \in Cons, Disable(c)
      PROVE  LinkInv'
  <2>1. enabled[c] /\ Disabling(c) /\ UNCHANGED <<link, agenda>>
    BY <1>3 DEF Disable
  <2>2. \A d \in Cons : HalfDone(d)' <=> HalfDone(d)
    BY <2>1 DEF HalfDone
  <2>. QED
    BY <2>1, <2>2, LinksRemoved
<1>4. ASSUME NEW x \in Vars, NEW v \in Values, Assign(x, v)
      PROVE  LinkInv'
  <2>. DEFINE xs == AllIdentical(x)
  <2>1. Idle /\ agenda' = [i \in DOMAIN xs |-> EndAssign(xs[i])] /\ UNCHANGED <<identical, enabled, link>>
    BY <1>4 DEF Assign
  <2>. HIDE DEF xs
  <2>2. \A y : EndAssign(y).fn \notin {"enabled"}
    BY DEF EndAssign, Call
  <2>3. \A i \in DOMAIN agenda' : agenda'[i].fn \notin {"enabled"}
    BY <2>1, <2>2
  <2>4. \A d \in Cons : HalfDone(d)' <=> HalfDone(d)
    BY <2>1, <2>3, IdleIsWhole, Zenon DEF HalfDone, InAgenda
  <2>. QED
    BY <2>1, <2>4, LinksSame
<1>. QED
  BY <1>1, <1>2, <1>3, <1>4, Zenon DEF UserStep

LEMMA LinkStep ==
  ASSUME Distinct, BaseInv, LinkInv, [Next]_vars
  PROVE  LinkInv'
<1>1. CASE RecalculatePath
  <2>1. UNCHANGED <<identical, enabled, link>>
    BY <1>1 DEF RecalculatePath
  <2>. QED
    BY <1>1, <2>1, RecalculatePathHalf, LinksSame
<1>2. CASE Recalculate
  <2>. DEFINE c == Arg[1]
              on == enabled[c] /\ Arg[2] \notin {link[c][1], link[c][2]}
  <2>1. /\ agenda # <<>> /\ agenda[1].fn = "recalculate"
        /\ on => Disabling(c) /\ RunPredicate(c)
        /\ ~on => UNCHANGED <<identical, enabled, link>>
    BY <1>2 DEF Recalculate, Running
  <2>2. c \in Cons
    BY <2>1, BaseFacts, RunningArg
  <2>3. CASE on
    <3>1. enabled[c] /\ Disabling(c) /\ RunPredicate(c)
      BY <2>1, <2>3
    <3>. HIDE DEF c, on
    <3>2. \A d \in Cons : d # c => link'[d] = link[d]
      BY <2>2, <3>1, BaseFacts, RunPredicateDoes
    <3>. QED
      BY <1>2, <2>2, <3>1, <3>2, RecalculateHalf, LinksRemoved
  <2>4. CASE ~on
    <3>1. UNCHANGED <<identical, enabled, link>>
      BY <2>1, <2>4
    <3>. QED
      BY <1>2, <3>1, RecalculateHalf, LinksSame
  <2>. QED
    BY <2>3, <2>4
<1>3. CASE UNCHANGED vars
  <2>1. UNCHANGED <<identical, enabled, link, agenda>>
    BY <1>3 DEF vars
  <2>2. \A d \in Cons : HalfDone(d)' <=> HalfDone(d)
    BY <2>1 DEF HalfDone
  <2>. QED
    BY <2>1, <2>2, LinksSame
<1>4. CASE UserStep
  BY <1>4, LinkUserStep
<1>. QED
  BY <1>1, <1>2, <1>3, <1>4, EnableLinks, EnabledLinks, Zenon DEF Next, Step

(* Of blocks that link different variables, each has both directions of    *)
(* its link while it is enabled and half of it while it stores the value;  *)
(* every other link is gone.                                               *)
THEOREM LinkInvHolds == ASSUME Distinct PROVE Spec => [](BaseInv /\ LinkInv)
<1>1. Init => BaseInv /\ LinkInv
  BY BaseInit, LinkInit
<1>2. BaseInv /\ LinkInv /\ [Next]_vars => (BaseInv /\ LinkInv)'
  BY BaseStep, LinkStep
<1>. QED
  BY <1>1, <1>2, PTL DEF Spec

(* Between two operations every link goes both ways and has an enabled     *)
(* constraint it was made for: none stays where a path led before its      *)
(* recalculation (constraintobject.py:169).                                *)
THEOREM LinksStayOwned == ASSUME Distinct PROVE Spec => []LinksAreOwned
<1>1. ASSUME BaseInv, LinkInv
      PROVE  LinksAreOwned
  <2>1. ASSUME Idle, NEW x \in Vars, NEW y \in Vars, Contains(identical[x], y)
        PROVE  /\ Contains(identical[y], x)
               /\ \E c \in Cons : enabled[c] /\ link[c] \in {<<x, y>>, <<y, x>>}
    <3>1. PICK c \in Cons : enabled[c] /\ link[c] \in {<<x, y>>, <<y, x>>}
      BY <1>1, <2>1, IdleIsWhole DEF LinkInv
    <3>2. /\ Contains(identical[link[c][1]], link[c][2])
          /\ Contains(identical[link[c][2]], link[c][1])
      BY <1>1, <3>1 DEF LinkInv
    <3>. QED
      BY <3>1, <3>2
  <2>. QED
    BY <2>1 DEF LinksAreOwned
<1>. QED
  BY <1>1, LinkInvHolds, PTL

(* Between two operations an enabled identity constraint has its link, over*)
(* any recalculations of its own path and of others.                       *)
THEOREM EnabledStaysLinked == ASSUME Distinct PROVE Spec => []EnabledIsLinked
<1>1. LinkInv => EnabledIsLinked
  BY DEF LinkInv, EnabledIsLinked
<1>. QED
  BY <1>1, LinkInvHolds, PTL

(* An assignment (constraintinterpreter.py:308) stores into exactly the    *)
(* variables that are linked to the assigned one, directly or over others: *)
(* all_identical_variables misses none, finds no other, and ends.          *)
THEOREM AssignmentsReachClass == Spec => AssignReachesClass
<1>1. ASSUME BaseInv, [Next]_vars
      PROVE  AssignStoresInClass \/ UNCHANGED vars
  <2>. SUFFICES ASSUME Idle, Next, NEW x \in focus'
       PROVE  \A y \in Vars : stored'[y] = IF y \in Class(x) THEN stored'[x] ELSE stored[y]
    BY <1>1 DEF AssignStoresInClass
  <2>1. ~Step
    BY DEF Step, RecalculatePath, Recalculate, Enable, Enabled, Running, Idle
  <2>2. \A c \in Cons : ~(Always(c) \/ EnableAgain(c) \/ Disable(c))
    BY DEF Always, EnableAgain, Disable
  <2>3. PICK z \in Vars, v \in Values : Assign(z, v)
    BY <2>1, <2>2, Zenon DEF Next, UserStep
  <2>4. x = z
    BY <2>3 DEF Assign
  <2>5. stored' = [y \in Vars |-> IF Contains(AllIdentical(x), y) THEN v ELSE stored[y]]
    BY <2>3, <2>4 DEF Assign
  <2>6. Members(AllIdentical(x)) = Class(x)
    BY <1>1, <2>4, BaseFacts, WalkFindsClass DEF TypeOK
  <2>7. \A y \in Vars : Contains(AllIdentical(x), y) <=> y \in Class(x)
    BY <2>6 DEF Members
  <2>8. x \in Class(x)
    BY <2>4 DEF Class
  <2>. QED
    BY <2>4, <2>5, <2>7, <2>8
<1>. QED
  BY <1>1, BaseInvHolds, PTL DEF AssignReachesClass, Spec

-----------------------------------------------------------------------------
(* The third part of the invariant: links follow the paths.                *)

(* A variable that enabling c may store into, over others.                 *)
StoredBy(x, c) == \E d \in Stirred(c), m \in [Vars -> Values] : x = This(d, m)
(* What may be in front of a pending call e: whatever an enable waits for  *)
(* comes from its own store.                                               *)
Fits(e, f) ==
  e.fn \in Enabling =>
    /\ f.fn \in Enabling => f.arg \in Stirred(e.arg)
    /\ f.fn = "recalculate_path" => StoredBy(f.arg[1], e.arg)
    /\ f.fn = "recalculate" => StoredBy(f.arg[2], e.arg)
Ordered(q) == \A i, j \in DOMAIN q : j < i => Fits(q[i], q[j])

(* A call that visits a variable starts at a place, or at a block that is  *)
(* attached there.                                                         *)
Grounded(at, call) ==
  /\ call.fn = "recalculate_path" => call.arg[2] # 0
  /\ call.fn = "recalculate" => Contains(at[call.arg[2]], call.arg[1])

(* The call recalculates c because of y, or comes by c when it goes on.    *)
Serves(at, call, c, y) ==
  \/ call = Call("recalculate", <<c, y>>)
  \/ /\ call.fn = "recalculate_path" /\ call.arg[1] = y
     /\ \E j \in DOMAIN at[y] : j >= call.arg[2] /\ at[y][j] = c
Elems(q) == {q[i] : i \in DOMAIN q}
ToVisit(c, y) == \E call \in Elems(agenda) : Serves(attached, call, c, y)

(* c was last run with the values m, or with others that led the same way. *)
RunWith(c, m) ==
  link[c] = <<This(c, m), That(c, m)>> /\ \A y \in Path(c, m) : Contains(attached[y], c)
Followed(c) ==
  \E m \in [Vars -> Values] :
    RunWith(c, m) /\ \A y \in Path(c, m) : m[y] = stored[y] \/ ToVisit(c, y)

FollowInv ==
  /\ \A x \in Vars, c \in Cons :
       Contains(attached[x], c) => \E m \in [Vars -> Values] : x \in Reads(c, m)
  /\ \A call \in Elems(agenda) : Grounded(attached, call)
  /\ Ordered(agenda)
  /\ \A c \in Cons \ reused : InAgenda(agenda, Enabling, c) => RunWith(c, stored)
  /\ \A c \in Cons \ reused : enabled[c] => Followed(c)

LEMMA StirredItself == ASSUME NEW c \in Cons PROVE c \in Stirred(c)
BY DEF Stirred

LEMMA StirredFeeds ==
  ASSUME NEW c \in Cons, NEW d \in Stirred(c), NEW e \in Cons, Feeds(d, e)
  PROVE  e \in Stirred(c)
BY DEF Stirred

LEMMA ElemsOf ==
  ASSUME NEW q \in Seq(Calls), q # <<>>, NEW new \in Seq(Calls)
  PROVE  /\ Elems(new \o Tail(q)) = Elems(new) \cup Elems(Tail(q))
         /\ Elems(q) = {q[1]} \cup Elems(Tail(q))
         /\ Ordered(q) => \A e \in Elems(Tail(q)) : Fits(e, q[1])
         /\ Ordered(q) /\ Ordered(new) /\ (\A e \in Elems(Tail(q)), f \in Elems(new) : Fits(e, f))
              => Ordered(new \o Tail(q))
<1>. DEFINE t == Tail(q)
            r == new \o t
<1>1. /\ Len(q) \in Nat \ {0} /\ Len(new) \in Nat /\ DOMAIN q = 1..Len(q) /\ DOMAIN new = 1..Len(new)
      /\ t \in Seq(Calls) /\ DOMAIN t = 1..(Len(q) - 1) /\ Len(t) = Len(q) - 1
      /\ \A i \in DOMAIN t : t[i] = q[i + 1]
  OBVIOUS
<1>. HIDE DEF t
<1>2. /\ DOMAIN r = 1..(Len(new) + Len(t))
      /\ \A i \in 1..(Len(new) + Len(t)) : r[i] = IF i <= Len(new) THEN new[i] ELSE t[i - Len(new)]
  <2>1. t \in Seq(Calls) /\ new \in Seq(Calls)
    BY <1>1
  <2>. QED
    BY <2>1, ConcatProperties, LenProperties
<1>. HIDE DEF r
<1>3. \A i \in DOMAIN r : \/ i \in DOMAIN new /\ r[i] = new[i]
                          \/ i - Len(new) \in DOMAIN t /\ r[i] = t[i - Len(new)]
  BY <1>1, <1>2
<1>4. /\ \A i \in DOMAIN new : i \in DOMAIN r /\ r[i] = new[i]
      /\ \A i \in DOMAIN t : i + Len(new) \in DOMAIN r /\ r[i + Len(new)] = t[i]
  <2>1. ASSUME NEW i \in DOMAIN new
        PROVE  i \in DOMAIN r /\ r[i] = new[i]
    BY <1>1, <1>2
  <2>2. ASSUME NEW i \in DOMAIN t
        PROVE  i + Len(new) \in DOMAIN r /\ r[i + Len(new)] = t[i]
    <3>1. i \in Nat /\ 1 <= i /\ i <= Len(t)
      BY <1>1
    <3>2. (i + Len(new)) - Len(new) = i /\ ~(i + Len(new) <= Len(new)) /\ i + Len(new) \in 1..(Len(new) + Len(t))
      BY <1>1, <3>1
    <3>. QED
      BY <1>2, <3>2
  <2>. QED
    BY <2>1, <2>2
<1>5. Elems(r) = Elems(new) \cup Elems(t)
  BY <1>3, <1>4 DEF Elems
<1>6. \A i \in DOMAIN q : i = 1 \/ (i - 1 \in DOMAIN t /\ q[i] = t[i - 1])
  BY <1>1
<1>7. 1 \in DOMAIN q /\ \A i \in DOMAIN t : i + 1 \in DOMAIN q
  BY <1>1
<1>8. Elems(q) = {q[1]} \cup Elems(t)
  BY <1>1, <1>6, <1>7 DEF Elems
<1>9. ASSUME Ordered(q), NEW e \in Elems(t)
      PROVE  Fits(e, q[1])
  <2>1. PICK i \in DOMAIN t : e = t[i]
    BY DEF Elems
  <2>2. i + 1 \in DOMAIN q /\ 1 \in DOMAIN q /\ 1 < i + 1 /\ e = q[i + 1]
    BY <1>1, <1>7, <2>1
  <2>. QED
    BY <1>9, <2>2, Zenon DEF Ordered
<1>10. ASSUME Ordered(q), Ordered(new), \A e \in Elems(t), f \in Elems(new) : Fits(e, f),
              NEW i \in DOMAIN r, NEW j \in DOMAIN r, j < i
       PROVE  Fits(r[i], r[j])
  <2>1. CASE i \in DOMAIN new
    <3>1. j \in DOMAIN new
      BY <1>1, <1>2, <1>10, <2>1
    <3>. QED
      BY <1>4, <1>10, <2>1, <3>1 DEF Ordered
  <2>2. CASE i \notin DOMAIN new /\ j \in DOMAIN new
    <3>1. r[i] \in Elems(t) /\ r[j] \in Elems(new)
      BY <1>3, <1>4, <2>2 DEF Elems
    <3>. QED
      BY <1>10, <3>1
  <2>3. CASE i \notin DOMAIN new /\ j \notin DOMAIN new
    <3>. DEFINE a == i - Len(new)
                b == j - Len(new)
    <3>1. a \in DOMAIN t /\ b \in DOMAIN t /\ r[i] = t[a] /\ r[j] = t[b] /\ b < a
      BY <1>1, <1>2, <1>3, <1>10, <2>3
    <3>2. a + 1 \in DOMAIN q /\ b + 1 \in DOMAIN q /\ b + 1 < a + 1 /\ t[a] = q[a + 1] /\ t[b] = q[b + 1]
      BY <1>1, <1>7, <3>1
    <3>. HIDE DEF a, b
    <3>. QED
      BY <1>10, <3>1, <3>2, Zenon DEF Ordered
  <2>. QED
    BY <2>1, <2>2, <2>3
<1>11. /\ Ordered(q) => \A e \in Elems(t) : Fits(e, q[1])
       /\ Ordered(q) /\ Ordered(new) /\ (\A e \in Elems(t), f \in Elems(new) : Fits(e, f)) => Ordered(r)
  <2>1. ASSUME Ordered(q), Ordered(new), \A e \in Elems(t), f \in Elems(new) : Fits(e, f)
        PROVE  Ordered(r)
    BY <1>10, <2>1, Zenon DEF Ordered
  <2>. QED
    BY <1>9, <2>1, Zenon
<1>. QED
  BY <1>5, <1>8, <1>11 DEF r, t

LEMMA ElemsFew ==
  /\ Elems(<<>>) = {} /\ Ordered(<<>>)
  /\ \A a : Elems(<<a>>) = {a} /\ Ordered(<<a>>)
  /\ \A a, b : Elems(<<a, b>>) = {a, b} /\ (Fits(b, a) => Ordered(<<a, b>>))
<1>1. Elems(<<>>) = {} /\ Ordered(<<>>)
  BY DEF Elems, Ordered
<1>2. ASSUME NEW a
      PROVE  Elems(<<a>>) = {a} /\ Ordered(<<a>>)
  <2>1. DOMAIN <<a>> = {1} /\ <<a>>[1] = a
    OBVIOUS
  <2>. QED
    BY <2>1 DEF Elems, Ordered
<1>3. ASSUME NEW a, NEW b
      PROVE  Elems(<<a, b>>) = {a, b} /\ (Fits(b, a) => Ordered(<<a, b>>))
  <2>1. DOMAIN <<a, b>> = {1, 2} /\ <<a, b>>[1] = a /\ <<a, b>>[2] = b
    OBVIOUS
  <2>2. \A i, j \in {1, 2} : j < i => j = 1 /\ i = 2
    OBVIOUS
  <2>3. Elems(<<a, b>>) = {a, b}
    BY <2>1 DEF Elems
  <2>. QED
    BY <2>1, <2>2, <2>3, Zenon DEF Ordered
<1>. QED
  BY <1>1, <1>2, <1>3

(* Which calls may be put in front.                                        *)
LEMMA FitsIf ==
  ASSUME NEW e, NEW c \in Cons, NEW x, NEW k
  PROVE  /\ (e.fn \in Enabling => StoredBy(x, e.arg)) <=> Fits(e, Call("recalculate_path", <<x, k>>))
         /\ (e.fn \in Enabling => StoredBy(x, e.arg)) <=> Fits(e, Call("recalculate", <<c, x>>))
         /\ (e.fn \in Enabling => c \in Stirred(e.arg)) <=> Fits(e, Call("enable", c))
         /\ (e.fn \in Enabling => c \in Stirred(e.arg)) <=> Fits(e, Call("enabled", c))
BY DEF Fits, Call, Enabling

(* Blocks stay attached where they are.                                    *)
Attaching ==
  /\ \A x \in Vars : \A i \in DOMAIN attached[x] : i \in DOMAIN attached'[x] /\ attached'[x][i] = attached[x][i]
  /\ \A x \in Vars, c \in Cons :
       Contains(attached'[x], c) => Contains(attached[x], c) \/ \E m \in [Vars -> Values] : x \in Reads(c, m)

LEMMA AttachedSame == UNCHANGED attached => Attaching
BY DEF Attaching

LEMMA RunAttaches ==
  ASSUME TypeOK, NEW c \in Cons, RunPredicate(c)
  PROVE  Attaching /\ \A x \in Reads(c, stored) : Contains(attached'[x], c)
<1>1. attached' = [x \in Vars |-> IF x \in Reads(c, stored) THEN Added(attached[x], c) ELSE attached[x]]
  BY DEF RunPredicate, AttachedTo
<1>2. attached \in [Vars -> Seq(Cons)] /\ stored \in [Vars -> Values] /\ Reads(c, stored) \subseteq Vars
  BY PathAssumption DEF TypeOK
<1>3. ASSUME NEW x \in Vars
      PROVE  /\ \A i \in DOMAIN attached[x] : i \in DOMAIN Added(attached[x], c) /\ Added(attached[x], c)[i] = attached[x][i]
             /\ \A d : Contains(Added(attached[x], c), d) <=> Contains(attached[x], d) \/ d = c
  <2>. DEFINE q == attached[x]
  <2>1. q \in Seq(Cons)
    BY <1>2
  <2>. HIDE DEF q
  <2>2. \A d : Contains(Added(q, c), d) <=> Contains(q, d) \/ d = c
    BY <2>1, AddedContains
  <2>3. ASSUME NEW i \in DOMAIN q
        PROVE  i \in DOMAIN Append(q, c) /\ Append(q, c)[i] = q[i]
    BY <2>1, AppendProperties
  <2>4. \A i \in DOMAIN q : i \in DOMAIN Added(q, c) /\ Added(q, c)[i] = q[i]
    BY <2>3 DEF Added
  <2>. QED
    BY <2>2, <2>4 DEF q
<1>4. ASSUME NEW x \in Vars, NEW d \in Cons, Contains(attached'[x], d)
      PROVE  Contains(attached[x], d) \/ \E m \in [Vars -> Values] : x \in Reads(d, m)
  BY <1>1, <1>2, <1>3, <1>4
<1>5. ASSUME NEW x \in Vars, NEW i \in DOMAIN attached[x]
      PROVE  i \in DOMAIN attached'[x] /\ attached'[x][i] = attached[x][i]
  <2>1. attached'[x] = Added(attached[x], c) \/ attached'[x] = attached[x]
    BY <1>1
  <2>. QED
    BY <1>3, <2>1
<1>. QED
  BY <1>1, <1>2, <1>3, <1>4, <1>5 DEF Attaching

LEMMA AttachedStays ==
  ASSUME Attaching
  PROVE  /\ \A x \in Vars : \A c : Contains(attached[x], c) => Contains(attached'[x], c)
         /\ \A call, c : \A y \in Vars : Serves(attached, call, c, y) => Serves(attached', call, c, y)
<1>1. ASSUME NEW x \in Vars, NEW c, Contains(attached[x], c)
      PROVE  Contains(attached'[x], c)
  BY <1>1 DEF Attaching, Contains
<1>2. ASSUME NEW call, NEW c, NEW y \in Vars, Serves(attached, call, c, y)
      PROVE  Serves(attached', call, c, y)
  BY <1>2, Zenon DEF Attaching, Serves
<1>. QED
  BY <1>1, <1>2

LEMMA RunWithStays ==
  ASSUME Attaching, NEW c \in Cons, link'[c] = link[c], NEW m \in [Vars -> Values], RunWith(c, m)
  PROVE  RunWith(c, m)'
<1>1. \A y \in Path(c, m) : y \in Vars
  BY PathAssumption DEF Path
<1>. QED
  BY <1>1, AttachedStays DEF RunWith

(* A run with other values that differ off the path leads the same way.    *)
LEMMA RunWithOthers ==
  ASSUME PathsDecide, NEW c \in Cons, NEW m \in [Vars -> Values], NEW n \in [Vars -> Values],
         RunWith(c, m), \A y \in Path(c, m) : n[y] = m[y]
  PROVE  RunWith(c, n)
<1>1. Reads(c, n) = Reads(c, m) /\ This(c, n) = This(c, m) /\ That(c, n) = That(c, m)
  BY DEF PathsDecide
<1>. QED
  BY <1>1 DEF RunWith, Path

LEMMA GroundedStays ==
  ASSUME TypeOK, Attaching, NEW call \in Elems(agenda), Grounded(attached, call)
  PROVE  Grounded(attached', call)
<1>1. call \in Calls
  BY DEF Elems, TypeOK
<1>2. call.fn = "recalculate" => call.arg[2] \in Vars
  BY <1>1 DEF Calls
<1>. QED
  BY <1>2, AttachedStays DEF Grounded

(* A step that puts new in place of the running call.                      *)
LEMMA StepOrders ==
  ASSUME TypeOK, FollowInv, Attaching, agenda # <<>>, NEW new \in Seq(Calls), Continue(new), Ordered(new),
         \A e \in Elems(Tail(agenda)), f \in Elems(new) : Fits(e, f),
         \A call \in Elems(new) : Grounded(attached', call)
  PROVE  /\ \A x \in Vars, c \in Cons :
              Contains(attached'[x], c) => \E m \in [Vars -> Values] : x \in Reads(c, m)
         /\ \A call \in Elems(agenda') : Grounded(attached', call)
         /\ Ordered(agenda')
         /\ Elems(agenda') = Elems(new) \cup Elems(Tail(agenda))
         /\ Elems(agenda) = {agenda[1]} \cup Elems(Tail(agenda))
<1>1. agenda \in Seq(Calls) /\ agenda' = new \o Tail(agenda) /\ Ordered(agenda)
  BY DEF TypeOK, Continue, FollowInv
<1>2. /\ Elems(agenda') = Elems(new) \cup Elems(Tail(agenda))
      /\ Elems(agenda) = {agenda[1]} \cup Elems(Tail(agenda))
      /\ Ordered(agenda')
  BY <1>1, ElemsOf, Zenon
<1>3. \A call \in Elems(agenda') : Grounded(attached', call)
  BY <1>2, GroundedStays DEF FollowInv
<1>4. \A x \in Vars, c \in Cons :
        Contains(attached'[x], c) => \E m \in [Vars -> Values] : x \in Reads(c, m)
  BY DEF Attaching, FollowInv
<1>. QED
  BY <1>2, <1>3, <1>4

(* What goes on being enabled.                                             *)
LEMMA EnablingIn ==
  \A q, c : InAgenda(q, Enabling, c) <=> \E e \in Elems(q) : e.fn \in Enabling /\ e.arg = c
BY DEF InAgenda, Elems

LEMMA RecalculatePathFollows ==
  ASSUME BaseInv, FollowInv, RecalculatePath
  PROVE  FollowInv'
<1>. DEFINE x == Arg[1]
            k == Arg[2]
            a == Call("recalculate", <<attached[x][k], x>>)
            b == Call("recalculate_path", <<x, k + 1>>)
            new == IF k \in DOMAIN attached[x] THEN <<a, b>> ELSE <<>>
<1>1. agenda # <<>> /\ agenda[1].fn = "recalculate_path" /\ agenda[1].arg = Arg /\ Continue(new)
      /\ UNCHANGED <<stored, identical, attached, enabled, link, reused>>
  BY DEF RecalculatePath, Running, Visit, Arg
<1>2. x \in Vars /\ k \in Nat /\ agenda[1] \in Calls /\ attached[x] \in Seq(Cons)
  BY <1>1, BaseFacts, RunningArg DEF TypeOK
<1>3. agenda[1] = Call("recalculate_path", <<x, k>>)
  BY <1>1, <1>2 DEF Calls, Call
<1>4. agenda[1] \in Elems(agenda)
  <2>1. 1 \in DOMAIN agenda
    BY <1>1, BaseFacts DEF TypeOK
  <2>. QED
    BY <2>1 DEF Elems
<1>5. k # 0
  BY <1>1, <1>4 DEF FollowInv, Grounded
<1>. HIDE DEF x, k
<1>6. \A e \in Elems(Tail(agenda)) : e.fn \in Enabling => StoredBy(x, e.arg)
  <2>1. agenda \in Seq(Calls) /\ Ordered(agenda)
    BY BaseFacts DEF TypeOK, FollowInv
  <2>2. \A e \in Elems(Tail(agenda)) : Fits(e, agenda[1])
    BY <1>1, <2>1, ElemsOf, ShortSeqs, Zenon
  <2>. QED
    BY <1>3, <2>2 DEF Fits, Call, Enabling
<1>7. /\ new \in Seq(Calls) /\ Ordered(new)
      /\ \A e \in Elems(Tail(agenda)), f \in Elems(new) : Fits(e, f)
      /\ \A call \in Elems(new) : Grounded(attached', call) /\ call.fn \notin Enabling
      /\ k \in DOMAIN attached[x] => Elems(new) = {a, b}
  <2>1. CASE k \in DOMAIN attached[x]
    <3>1. attached[x][k] \in Cons /\ k + 1 \in Nat /\ k + 1 # 0
      BY <1>2, <2>1
    <3>2. a \in Calls /\ b \in Calls /\ a.fn \notin Enabling /\ b.fn \notin Enabling
      BY <1>2, <3>1, CallTyped, Zenon
    <3>3. Grounded(attached', a) /\ Grounded(attached', b)
      <4>1. Contains(attached'[x], attached[x][k])
        BY <1>1, <2>1, Zenon DEF Contains
      <4>. QED
        BY <3>1, <4>1 DEF Grounded, Call
    <3>4. \A e \in Elems(Tail(agenda)) : Fits(e, a) /\ Fits(e, b)
      BY <1>6, <3>1, FitsIf, Zenon
    <3>5. new = <<a, b>>
      BY <2>1
    <3>. HIDE DEF a, b, new
    <3>6. Fits(b, a)
      BY <3>2 DEF Fits
    <3>7. <<a, b>> \in Seq(Calls)
      BY <3>2, ShortSeqs, Zenon
    <3>. QED
      BY <3>2, <3>3, <3>4, <3>5, <3>6, <3>7, ElemsFew
  <2>2. CASE k \notin DOMAIN attached[x]
    <3>1. new = <<>>
      BY <2>2
    <3>. HIDE DEF new
    <3>. QED
      BY <2>2, <3>1, ElemsFew
  <2>. QED
    BY <2>1, <2>2
<1>. HIDE DEF new
<1>8. Attaching
  BY <1>1, AttachedSame
<1>9. /\ \A y \in Vars, c \in Cons :
           Contains(attached'[y], c) => \E m \in [Vars -> Values] : y \in Reads(c, m)
      /\ \A call \in Elems(agenda') : Grounded(attached', call)
      /\ Ordered(agenda')
      /\ Elems(agenda') = Elems(new) \cup Elems(Tail(agenda))
      /\ Elems(agenda) = {agenda[1]} \cup Elems(Tail(agenda))
  BY <1>1, <1>7, <1>8, BaseFacts, StepOrders
<1>10. ASSUME NEW c \in Cons, InAgenda(agenda', Enabling, c)
       PROVE  InAgenda(agenda, Enabling, c)
  BY <1>7, <1>9, <1>10, EnablingIn, Zenon
<1>11. ASSUME NEW c \in Cons, NEW y, ToVisit(c, y)
       PROVE  ToVisit(c, y)'
  <2>1. PICK call \in Elems(agenda) : Serves(attached, call, c, y)
    BY <1>11 DEF ToVisit
  <2>2. Serves(attached', call, c, y)
    BY <1>1, <2>1 DEF Serves
  <2>3. CASE call # agenda[1]
    BY <1>9, <2>2, <2>3 DEF ToVisit
  <2>4. CASE call = agenda[1]
    <3>1. y = x /\ \E j \in DOMAIN attached[x] : j >= k /\ attached[x][j] = c
      BY <1>3, <2>1, <2>4 DEF Serves, Call
    <3>2. PICK j \in DOMAIN attached[x] : j >= k /\ attached[x][j] = c
      BY <3>1
    <3>3. k \in DOMAIN attached[x] /\ (j = k \/ j >= k + 1)
      BY <1>2, <1>5, <3>2
    <3>4. a \in Elems(agenda') /\ b \in Elems(agenda')
      BY <1>7, <1>9, <3>3
    <3>5. CASE j = k
      <4>1. Serves(attached', a, c, y)
        BY <3>1, <3>2, <3>5 DEF Serves
      <4>. QED
        BY <3>4, <4>1 DEF ToVisit
    <3>6. CASE j >= k + 1
      <4>1. Serves(attached', b, c, y)
        BY <1>1, <3>1, <3>2, <3>6 DEF Serves, Call
      <4>. QED
        BY <3>4, <4>1 DEF ToVisit
    <3>. QED
      BY <3>3, <3>5, <3>6
  <2>. QED
    BY <2>3, <2>4
<1>12. ASSUME NEW c \in Cons \ reused', InAgenda(agenda', Enabling, c)
       PROVE  RunWith(c, stored)'
  BY <1>1, <1>10, <1>12 DEF FollowInv, RunWith
<1>13. ASSUME NEW c \in Cons \ reused', enabled'[c]
       PROVE  Followed(c)'
  <2>1. PICK m \in [Vars -> Values] :
          RunWith(c, m) /\ \A y \in Path(c, m) : m[y] = stored[y] \/ ToVisit(c, y)
    BY <1>1, <1>13 DEF FollowInv, Followed
  <2>2. RunWith(c, m)' /\ \A y \in Path(c, m) : m[y] = stored'[y] \/ ToVisit(c, y)'
    BY <1>1, <1>11, <2>1 DEF RunWith
  <2>. QED
    BY <2>2 DEF Followed
<1>. QED
  BY <1>9, <1>12, <1>13 DEF FollowInv

(* A block may be enabled in front of what waits for a store it reads.     *)
LEMMA AttachedStirred ==
  ASSUME NEW c \in Cons, NEW d \in Cons, NEW x, StoredBy(x, d), NEW m \in [Vars -> Values], x \in Reads(c, m)
  PROVE  c \in Stirred(d)
<1>1. PICK f \in Stirred(d), n \in [Vars -> Values] : x = This(f, n)
  BY DEF StoredBy
<1>2. Feeds(f, c)
  BY <1>1 DEF Feeds
<1>. QED
  BY <1>2, StirredFeeds

LEMMA RecalculateFollows ==
  ASSUME BaseInv, FollowInv, Recalculate
  PROVE  FollowInv'
<1>. DEFINE c == Arg[1]
            cause == Arg[2]
            on == enabled[c] /\ cause \notin {link[c][1], link[c][2]}
            a == Call("enable", c)
            new == IF on THEN <<a>> ELSE <<>>
<1>1. /\ agenda # <<>> /\ agenda[1].fn = "recalculate" /\ agenda[1].arg = Arg /\ Continue(new)
      /\ UNCHANGED stored
      /\ on => Disabling(c) /\ RunPredicate(c)
      /\ ~on => UNCHANGED <<identical, enabled, link, attached, reused>>
  BY DEF Recalculate, Running, Arg
<1>2. c \in Cons /\ cause \in Vars /\ agenda[1] \in Calls /\ agenda \in Seq(Calls) /\ TypeOK
  BY <1>1, BaseFacts, RunningArg
<1>3. agenda[1] = Call("recalculate", <<c, cause>>)
  BY <1>1, <1>2 DEF Calls, Call
<1>4. agenda[1] \in Elems(agenda)
  <2>1. 1 \in DOMAIN agenda
    BY <1>1, <1>2
  <2>. QED
    BY <2>1 DEF Elems
<1>5. PICK r \in [Vars -> Values] : cause \in Reads(c, r)
  <2>1. Contains(attached[cause], c)
    BY <1>3, <1>4 DEF FollowInv, Grounded, Call
  <2>. QED
    BY <1>2, <2>1 DEF FollowInv
<1>6. on \in BOOLEAN /\ (on => enabled[c]) /\ (~on => ~enabled[c] \/ cause \in {link[c][1], link[c][2]})
  OBVIOUS
<1>. HIDE DEF c, cause, on
<1>7. \A e \in Elems(Tail(agenda)) : Fits(e, a)
  <2>1. \A e \in Elems(Tail(agenda)) : Fits(e, agenda[1]) /\ e \in Elems(agenda)
    BY <1>1, <1>2, ElemsOf, ShortSeqs, Zenon DEF FollowInv
  <2>2. ASSUME NEW e \in Elems(Tail(agenda)), e.fn \in Enabling
        PROVE  c \in Stirred(e.arg)
    <3>1. e \in Calls
      BY <1>2, <2>1 DEF Elems
    <3>2. e.arg \in Cons
      BY <2>2, <3>1 DEF Calls, Enabling
    <3>3. StoredBy(cause, e.arg)
      BY <1>3, <2>1, <2>2 DEF Fits, Call
    <3>. QED
      BY <1>2, <1>5, <3>2, <3>3, AttachedStirred
  <2>. QED
    BY <1>2, <2>2, FitsIf, Zenon
<1>8. Grounded(attached', a) /\ a \in Calls /\ a.fn = "enable" /\ a.arg = c
  BY <1>2, CallTyped DEF Grounded, Call
<1>9. new = IF on THEN <<a>> ELSE <<>>
  OBVIOUS
<1>. HIDE DEF a, new
<1>10. /\ new \in Seq(Calls) /\ Ordered(new)
       /\ \A e \in Elems(Tail(agenda)), f \in Elems(new) : Fits(e, f)
       /\ \A call \in Elems(new) : Grounded(attached', call)
       /\ \A call \in Elems(new) : on /\ call = a
  BY <1>6, <1>7, <1>8, <1>9, ElemsFew, ShortSeqs
<1>11. Attaching /\ (on => \A x \in Reads(c, stored) : Contains(attached'[x], c))
  BY <1>1, <1>2, <1>6, RunAttaches, AttachedSame
<1>12. /\ \A y \in Vars, d \in Cons :
            Contains(attached'[y], d) => \E m \in [Vars -> Values] : y \in Reads(d, m)
       /\ \A call \in Elems(agenda') : Grounded(attached', call)
       /\ Ordered(agenda')
       /\ Elems(agenda') = Elems(new) \cup Elems(Tail(agenda))
       /\ Elems(agenda) = {agenda[1]} \cup Elems(Tail(agenda))
  BY <1>1, <1>2, <1>10, <1>11, StepOrders
<1>13. /\ \A d \in Cons : ~(on /\ d = c) => link'[d] = link[d]
       /\ on => link'[c] = <<This(c, stored), That(c, stored)>>
       /\ \A d \in Cons : enabled'[d] => enabled[d] /\ ~(on /\ d = c)
       /\ \A d \in Cons : d \notin reused' => d \notin reused \/ (on /\ d = c)
  <2>1. CASE on
    BY <1>1, <1>2, <2>1, RunPredicateDoes DEF Disabling, TypeOK, RunPredicate
  <2>2. CASE ~on
    BY <1>1, <2>2
  <2>. QED
    BY <1>6, <2>1, <2>2
<1>14. ASSUME NEW d \in Cons, InAgenda(agenda', Enabling, d), ~(on /\ d = c)
       PROVE  InAgenda(agenda, Enabling, d)
  <2>1. PICK e \in Elems(agenda') : e.fn \in Enabling /\ e.arg = d
    BY <1>14, EnablingIn, Zenon
  <2>2. e \in Elems(agenda)
    BY <1>8, <1>10, <1>12, <1>14, <2>1
  <2>. QED
    BY <2>1, <2>2, EnablingIn, Zenon
<1>15. ASSUME NEW d \in Cons, NEW y \in Vars, ToVisit(d, y), d # c \/ y # cause
       PROVE  ToVisit(d, y)'
  <2>1. PICK call \in Elems(agenda) : Serves(attached, call, d, y)
    BY <1>15 DEF ToVisit
  <2>2. Serves(attached', call, d, y)
    BY <1>11, <2>1, AttachedStays
  <2>3. call # agenda[1]
    BY <1>3, <1>15, <2>1 DEF Serves, Call
  <2>. QED
    BY <1>12, <2>2, <2>3 DEF ToVisit
<1>16. ASSUME NEW d \in Cons \ reused', InAgenda(agenda', Enabling, d)
       PROVE  RunWith(d, stored)'
  <2>1. CASE on /\ d = c
    BY <1>1, <1>11, <1>13, <2>1 DEF RunWith, Path
  <2>2. CASE ~(on /\ d = c)
    <3>1. RunWith(d, stored) /\ link'[d] = link[d] /\ stored \in [Vars -> Values]
      BY <1>2, <1>13, <1>14, <1>16, <2>2 DEF FollowInv, TypeOK
    <3>. QED
      BY <1>1, <1>11, <3>1, RunWithStays DEF RunWith
  <2>. QED
    BY <2>1, <2>2
<1>17. ASSUME NEW d \in Cons \ reused', enabled'[d]
       PROVE  Followed(d)'
  <2>1. d \notin reused /\ enabled[d] /\ ~(on /\ d = c) /\ link'[d] = link[d]
    BY <1>13, <1>17
  <2>2. PICK m \in [Vars -> Values] :
          RunWith(d, m) /\ \A y \in Path(d, m) : m[y] = stored[y] \/ ToVisit(d, y)
    BY <2>1 DEF FollowInv, Followed
  <2>3. RunWith(d, m)'
    BY <1>11, <2>1, <2>2, RunWithStays
  <2>4. ASSUME NEW y \in Path(d, m)
        PROVE  y \in Vars /\ (d # c \/ y # cause)
    <3>1. d = c => link[c] = <<This(c, m), That(c, m)>> /\ cause \in {link[c][1], link[c][2]}
      BY <1>6, <2>1, <2>2 DEF RunWith
    <3>2. y \in Reads(d, m) /\ y # This(d, m) /\ y # That(d, m)
      BY <2>4 DEF Path
    <3>. QED
      BY <3>1, <3>2, PathAssumption
  <2>5. \A y \in Path(d, m) : m[y] = stored'[y] \/ ToVisit(d, y)'
    BY <1>1, <1>15, <2>2, <2>4
  <2>. QED
    BY <2>3, <2>5 DEF Followed
<1>. QED
  BY <1>12, <1>16, <1>17 DEF FollowInv

LEMMA EnableFollows ==
  ASSUME PathsDecide, NoFeedback, BaseInv, FollowInv, Enable
  PROVE  FollowInv'
<1>. DEFINE c == Arg
            this == link[c][1]
            that == link[c][2]
            a == EndAssign(this)
            b == Call("enabled", c)
            new == <<a, b>>
<1>1. c \in Cons /\ link[c] \in Vars \X Vars /\ ~enabled[c]
  BY EnableHalf
<1>2. /\ agenda # <<>> /\ agenda[1].fn = "enable" /\ agenda[1].arg = c
      /\ UNCHANGED <<attached, enabled, link, reused>>
      /\ stored' = [stored EXCEPT ![this] = stored[that]]
      /\ Continue(new)
  BY <1>1 DEF Enable, Running, Arg
<1>3. this \in Vars /\ that \in Vars /\ agenda \in Seq(Calls) /\ TypeOK /\ stored' \in [Vars -> Values]
  <2>1. this \in Vars /\ that \in Vars /\ TypeOK
    BY <1>1, BaseFacts
  <2>. QED
    BY <1>2, <2>1 DEF TypeOK
<1>4. PICK r \in [Vars -> Values] : this = This(c, r)
  BY <1>1, PathAssumption DEF BaseInv, RunLink
<1>5. agenda[1] \in Elems(agenda) /\ InAgenda(agenda, Enabling, c)
  <2>1. 1 \in DOMAIN agenda
    BY <1>2, <1>3
  <2>2. agenda[1] \in Elems(agenda) /\ agenda[1].fn \in Enabling
    BY <1>2, <2>1 DEF Elems, Enabling
  <2>. QED
    BY <1>2, <2>2, EnablingIn, Zenon
<1>. HIDE DEF c, this, that
<1>6. ASSUME NEW e \in Elems(Tail(agenda)), e.fn \in Enabling
      PROVE  c \in Stirred(e.arg)
  <2>1. Fits(e, agenda[1])
    BY <1>2, <1>3, ElemsOf, ShortSeqs, Zenon DEF FollowInv
  <2>. QED
    BY <1>2, <1>6, <2>1 DEF Fits, Enabling
<1>7. \A e \in Elems(Tail(agenda)) : Fits(e, a) /\ Fits(e, b)
  <2>1. \A e \in Elems(Tail(agenda)) : e.fn \in Enabling => StoredBy(this, e.arg) /\ c \in Stirred(e.arg)
    BY <1>4, <1>6 DEF StoredBy
  <2>. QED
    BY <1>1, <2>1, FitsIf, Zenon DEF EndAssign
<1>8. Fits(b, a)
  <2>1. StoredBy(this, c)
    BY <1>1, <1>4, StirredItself DEF StoredBy
  <2>. QED
    BY <2>1 DEF Fits, EndAssign, Call, Enabling
<1>9. a \in Calls /\ b \in Calls /\ Grounded(attached', a) /\ Grounded(attached', b)
  <2>1. a \in Calls /\ b \in Calls
    BY <1>1, <1>3, CallTyped, Zenon
  <2>. QED
    BY <2>1 DEF Grounded, EndAssign, Call
<1>10. a.fn = "recalculate_path" /\ a.arg = <<this, 1>> /\ a.fn \notin Enabling /\ b.arg = c
  BY DEF EndAssign, Call, Enabling
<1>. HIDE DEF a, b
<1>11. /\ new \in Seq(Calls) /\ Ordered(new) /\ Elems(new) = {a, b}
       /\ \A e \in Elems(Tail(agenda)), f \in Elems(new) : Fits(e, f)
       /\ \A call \in Elems(new) : Grounded(attached', call)
  <2>1. <<a, b>> \in Seq(Calls)
    BY <1>9, ShortSeqs, Zenon
  <2>. QED
    BY <1>7, <1>8, <1>9, <2>1, ElemsFew
<1>. HIDE DEF new
<1>12. Attaching
  BY <1>2, AttachedSame
<1>13. /\ \A y \in Vars, d \in Cons :
            Contains(attached'[y], d) => \E m \in [Vars -> Values] : y \in Reads(d, m)
       /\ \A call \in Elems(agenda') : Grounded(attached', call)
       /\ Ordered(agenda')
       /\ Elems(agenda') = Elems(new) \cup Elems(Tail(agenda))
       /\ Elems(agenda) = {agenda[1]} \cup Elems(Tail(agenda))
  BY <1>2, <1>3, <1>11, <1>12, StepOrders
<1>14. ASSUME NEW d \in Cons, NEW y, ToVisit(d, y)
       PROVE  ToVisit(d, y)'
  <2>1. PICK call \in Elems(agenda) : Serves(attached, call, d, y)
    BY <1>14 DEF ToVisit
  <2>2. Serves(attached', call, d, y)
    BY <1>2, <2>1
  <2>3. call # agenda[1]
    BY <1>2, <2>1 DEF Serves, Call
  <2>. QED
    BY <1>13, <2>2, <2>3 DEF ToVisit
<1>15. ASSUME NEW d \in Cons, NEW y \in Vars, y = this, Contains(attached[y], d)
       PROVE  ToVisit(d, y)'
  <2>1. PICK j \in DOMAIN attached[y] : attached[y][j] = d
    BY <1>15 DEF Contains
  <2>2. attached[y] \in Seq(Cons)
    BY <1>3 DEF TypeOK
  <2>3. j >= 1
    BY <2>1, <2>2
  <2>4. Serves(attached', a, d, y)
    BY <1>2, <1>10, <1>15, <2>1, <2>3 DEF Serves
  <2>. QED
    BY <1>11, <1>13, <2>4 DEF ToVisit
<1>16. ASSUME NEW d \in Cons \ reused', InAgenda(agenda', Enabling, d)
       PROVE  RunWith(d, stored)'
  <2>1. PICK e \in Elems(agenda') : e.fn \in Enabling /\ e.arg = d
    BY <1>16, EnablingIn, Zenon
  <2>2. d = c \/ (e \in Elems(Tail(agenda)) /\ e \in Elems(agenda))
    BY <1>10, <1>11, <1>13, <2>1
  <2>3. InAgenda(agenda, Enabling, d)
    BY <1>5, <2>1, <2>2, EnablingIn, Zenon
  <2>4. c \in Stirred(d)
    BY <1>1, <1>6, <2>1, <2>2, StirredItself
  <2>5. RunWith(d, stored) /\ stored \in [Vars -> Values]
    BY <1>2, <1>3, <1>16, <2>3 DEF FollowInv, TypeOK
  <2>6. this \notin Path(d, stored)
    BY <1>4, <2>4, <2>5 DEF NoFeedback
  <2>7. \A y \in Path(d, stored) : stored'[y] = stored[y]
    BY <1>2, <1>3, <2>5, <2>6, PathAssumption DEF Path
  <2>8. RunWith(d, stored')
    BY <1>3, <2>5, <2>7, RunWithOthers
  <2>. QED
    BY <1>2, <2>8 DEF RunWith
<1>17. ASSUME NEW d \in Cons \ reused', enabled'[d]
       PROVE  Followed(d)'
  <2>1. PICK m \in [Vars -> Values] :
          RunWith(d, m) /\ \A y \in Path(d, m) : m[y] = stored[y] \/ ToVisit(d, y)
    BY <1>2, <1>17 DEF FollowInv, Followed
  <2>2. RunWith(d, m)'
    BY <1>2, <2>1 DEF RunWith
  <2>3. ASSUME NEW y \in Path(d, m)
        PROVE  m[y] = stored'[y] \/ ToVisit(d, y)'
    <3>1. y \in Vars
      BY <2>3, PathAssumption DEF Path
    <3>2. CASE y = this
      BY <1>15, <2>1, <2>3, <3>1, <3>2 DEF RunWith
    <3>3. CASE y # this
      <4>1. stored'[y] = stored[y]
        BY <1>2, <1>3, <3>1, <3>3 DEF TypeOK
      <4>. QED
        BY <1>14, <2>1, <4>1
    <3>. QED
      BY <3>2, <3>3
  <2>. QED
    BY <2>2, <2>3 DEF Followed
<1>. QED
  BY <1>13, <1>16, <1>17 DEF FollowInv

LEMMA EnabledFollows ==
  ASSUME BaseInv, FollowInv, Enabled
  PROVE  FollowInv'
<1>. DEFINE c == Arg
<1>1. /\ agenda # <<>> /\ agenda[1].fn = "enabled" /\ agenda[1].arg = c
      /\ Continue(<<>>) /\ UNCHANGED <<stored, attached, link, reused>>
  BY DEF Enabled, Running, Arg
<1>2. c \in Cons /\ enabled' = [enabled EXCEPT ![c] = TRUE] /\ TypeOK /\ agenda \in Seq(Calls)
  BY EnabledHalf, BaseFacts DEF TypeOK
<1>3. InAgenda(agenda, Enabling, c)
  <2>1. 1 \in DOMAIN agenda
    BY <1>1, <1>2
  <2>2. agenda[1] \in Elems(agenda) /\ agenda[1].fn \in Enabling
    BY <1>1, <2>1 DEF Elems, Enabling
  <2>. QED
    BY <1>1, <2>2, EnablingIn, Zenon
<1>. HIDE DEF c
<1>4. /\ \A y \in Vars, d \in Cons :
           Contains(attached'[y], d) => \E m \in [Vars -> Values] : y \in Reads(d, m)
      /\ \A call \in Elems(agenda') : Grounded(attached', call)
      /\ Ordered(agenda')
      /\ Elems(agenda') = Elems(Tail(agenda))
      /\ Elems(agenda) = {agenda[1]} \cup Elems(Tail(agenda))
  <2>1. Attaching /\ <<>> \in Seq(Calls) /\ Ordered(<<>>) /\ Elems(<<>>) = {}
    BY <1>1, AttachedSame, ElemsFew
  <2>2. /\ \A y \in Vars, d \in Cons :
             Contains(attached'[y], d) => \E m \in [Vars -> Values] : y \in Reads(d, m)
        /\ \A call \in Elems(agenda') : Grounded(attached', call)
        /\ Ordered(agenda')
        /\ Elems(agenda') = Elems(<<>>) \cup Elems(Tail(agenda))
        /\ Elems(agenda) = {agenda[1]} \cup Elems(Tail(agenda))
    BY <1>1, <1>2, <2>1, StepOrders
  <2>. QED
    BY <2>1, <2>2
<1>5. ASSUME NEW d \in Cons, InAgenda(agenda', Enabling, d)
      PROVE  InAgenda(agenda, Enabling, d)
  BY <1>4, <1>5, EnablingIn, Zenon
<1>6. ASSUME NEW d \in Cons, NEW y, ToVisit(d, y)
      PROVE  ToVisit(d, y)'
  <2>1. PICK call \in Elems(agenda) : Serves(attached, call, d, y)
    BY <1>6 DEF ToVisit
  <2>2. Serves(attached', call, d, y)
    BY <1>1, <2>1
  <2>3. call # agenda[1]
    BY <1>1, <2>1 DEF Serves, Call
  <2>. QED
    BY <1>4, <2>2, <2>3 DEF ToVisit
<1>7. ASSUME NEW d \in Cons \ reused', InAgenda(agenda', Enabling, d)
      PROVE  RunWith(d, stored)'
  BY <1>1, <1>5, <1>7 DEF FollowInv, RunWith
<1>8. ASSUME NEW d \in Cons \ reused', enabled'[d]
      PROVE  Followed(d)'
  <2>1. CASE d = c
    <3>1. RunWith(d, stored) /\ stored \in [Vars -> Values]
      BY <1>1, <1>2, <1>3, <1>8, <2>1 DEF FollowInv, TypeOK
    <3>2. RunWith(d, stored)' /\ stored' \in [Vars -> Values]
      BY <1>1, <3>1 DEF RunWith
    <3>. QED
      BY <3>2 DEF Followed
  <2>2. CASE d # c
    <3>1. enabled[d] /\ d \notin reused
      BY <1>1, <1>2, <1>8, <2>2 DEF TypeOK
    <3>2. PICK m \in [Vars -> Values] :
            RunWith(d, m) /\ \A y \in Path(d, m) : m[y] = stored[y] \/ ToVisit(d, y)
      BY <3>1 DEF FollowInv, Followed
    <3>3. RunWith(d, m)' /\ \A y \in Path(d, m) : m[y] = stored'[y] \/ ToVisit(d, y)'
      BY <1>1, <1>6, <3>2 DEF RunWith
    <3>. QED
      BY <3>3 DEF Followed
  <2>. QED
    BY <2>1, <2>2
<1>. QED
  BY <1>4, <1>7, <1>8 DEF FollowInv

(* While the program runs no visit is pending.                             *)
LEMMA FollowedNow ==
  ASSUME FollowInv, Idle, NEW c \in Cons \ reused, enabled[c]
  PROVE  \E m \in [Vars -> Values] : RunWith(c, m) /\ \A y \in Path(c, m) : m[y] = stored[y]
<1>1. Elems(agenda) = {}
  BY ElemsFew DEF Idle
<1>. QED
  BY <1>1 DEF FollowInv, Followed, ToVisit

LEMMA AlwaysFollows ==
  ASSUME BaseInv, FollowInv, NEW c \in Cons, Always(c)
  PROVE  FollowInv'
<1>. DEFINE a == Call("enable", c)
<1>1. /\ Idle /\ link[c] = NoLink /\ RunPredicate(c) /\ agenda' = <<a>>
      /\ UNCHANGED <<stored, identical, enabled>> /\ TypeOK
  BY BaseFacts DEF Always
<1>2. /\ Attaching /\ \A x \in Reads(c, stored) : Contains(attached'[x], c)
      /\ link'[c] = <<This(c, stored), That(c, stored)>>
      /\ \A d \in Cons : d # c => link'[d] = link[d]
      /\ reused' = reused \ {c} /\ ~enabled[c]
  BY <1>1, RunAttaches, RunPredicateDoes DEF RunPredicate, BaseInv
<1>3. Grounded(attached', a) /\ a.arg = c
  BY DEF Grounded, Call
<1>. HIDE DEF a
<1>4. Elems(agenda') = {a} /\ Ordered(agenda')
  BY <1>1, ElemsFew
<1>5. ASSUME NEW d \in Cons \ reused', InAgenda(agenda', Enabling, d)
      PROVE  RunWith(d, stored)'
  <2>1. d = c
    BY <1>3, <1>4, <1>5, EnablingIn
  <2>. QED
    BY <1>1, <1>2, <2>1 DEF RunWith, Path
<1>6. ASSUME NEW d \in Cons \ reused', enabled'[d]
      PROVE  Followed(d)'
  <2>1. d # c /\ enabled[d] /\ d \notin reused
    BY <1>1, <1>2, <1>6
  <2>2. PICK m \in [Vars -> Values] : RunWith(d, m) /\ \A y \in Path(d, m) : m[y] = stored[y]
    BY <1>1, <2>1, FollowedNow
  <2>3. RunWith(d, m)'
    BY <1>2, <2>1, <2>2, RunWithStays
  <2>. QED
    BY <1>1, <2>2, <2>3 DEF Followed
<1>7. \A y \in Vars, d \in Cons :
        Contains(attached'[y], d) => \E m \in [Vars -> Values] : y \in Reads(d, m)
  BY <1>2 DEF Attaching, FollowInv
<1>. QED
  BY <1>3, <1>4, <1>5, <1>6, <1>7 DEF FollowInv

LEMMA EnableAgainFollows ==
  ASSUME BaseInv, FollowInv, NEW c \in Cons, EnableAgain(c)
  PROVE  FollowInv'
<1>. DEFINE a == Call("enable", c)
<1>1. /\ Idle /\ agenda' = <<a>> /\ reused' = reused \cup {c}
      /\ UNCHANGED <<stored, identical, attached, enabled, link>>
  BY DEF EnableAgain
<1>2. Grounded(attached', a) /\ a.arg = c
  BY DEF Grounded, Call
<1>. HIDE DEF a
<1>3. Elems(agenda') = {a} /\ Ordered(agenda')
  BY <1>1, ElemsFew
<1>4. ASSUME NEW d \in Cons \ reused'
      PROVE  ~InAgenda(agenda', Enabling, d)
  BY <1>1, <1>2, <1>3, EnablingIn
<1>5. ASSUME NEW d \in Cons \ reused', enabled'[d]
      PROVE  Followed(d)'
  <2>1. PICK m \in [Vars -> Values] : RunWith(d, m) /\ \A y \in Path(d, m) : m[y] = stored[y]
    BY <1>1, <1>5, FollowedNow
  <2>2. RunWith(d, m)' /\ \A y \in Path(d, m) : m[y] = stored'[y]
    BY <1>1, <2>1 DEF RunWith
  <2>. QED
    BY <2>2 DEF Followed
<1>6. \A y \in Vars, d \in Cons :
        Contains(attached'[y], d) => \E m \in [Vars -> Values] : y \in Reads(d, m)
  BY <1>1 DEF FollowInv
<1>. QED
  BY <1>2, <1>3, <1>4, <1>5, <1>6 DEF FollowInv

LEMMA DisableFollows ==
  ASSUME BaseInv, FollowInv, NEW c \in Cons, Disable(c)
  PROVE  FollowInv'
<1>1. /\ Idle /\ UNCHANGED <<stored, attached, link, agenda, reused>>
      /\ enabled' = [enabled EXCEPT ![c] = FALSE] /\ TypeOK
  BY BaseFacts DEF Disable, Disabling
<1>2. \A d \in Cons : enabled'[d] => enabled[d]
  BY <1>1 DEF TypeOK
<1>3. ASSUME NEW d \in Cons \ reused', enabled'[d]
      PROVE  Followed(d)'
  <2>1. PICK m \in [Vars -> Values] : RunWith(d, m) /\ \A y \in Path(d, m) : m[y] = stored[y]
    BY <1>1, <1>2, <1>3, FollowedNow
  <2>2. RunWith(d, m)' /\ \A y \in Path(d, m) : m[y] = stored'[y]
    BY <1>1, <2>1 DEF RunWith
  <2>. QED
    BY <2>2 DEF Followed
<1>4. ASSUME NEW d \in Cons \ reused', InAgenda(agenda', Enabling, d)
      PROVE  RunWith(d, stored)'
  BY <1>1, <1>4 DEF FollowInv, RunWith
<1>. QED
  BY <1>1, <1>3, <1>4 DEF FollowInv

LEMMA AssignFollows ==
  ASSUME BaseInv, FollowInv, NEW x \in Vars, NEW v \in Values, Assign(x, v)
  PROVE  FollowInv'
<1>. DEFINE xs == AllIdentical(x)
<1>1. /\ Idle /\ stored' = [y \in Vars |-> IF Contains(xs, y) THEN v ELSE stored[y]]
      /\ agenda' = [i \in DOMAIN xs |-> EndAssign(xs[i])]
      /\ UNCHANGED <<identical, attached, enabled, link, reused>> /\ TypeOK
  BY BaseFacts DEF Assign
<1>. HIDE DEF xs
<1>2. \A call \in Elems(agenda') :
        call.fn = "recalculate_path" /\ call.fn \notin Enabling /\ call.arg[2] = 1
  BY <1>1 DEF Elems, EndAssign, Call, Enabling
<1>3. \A call \in Elems(agenda') : Grounded(attached', call)
  BY <1>2 DEF Grounded
<1>4. Ordered(agenda')
  <2>1. \A i \in DOMAIN agenda' : agenda'[i].fn \notin Enabling
    BY <1>2 DEF Elems
  <2>. QED
    BY <2>1 DEF Ordered, Fits
<1>5. \A d : ~InAgenda(agenda', Enabling, d)
  BY <1>2, EnablingIn, Zenon
<1>6. ASSUME NEW d \in Cons, NEW y \in Vars, Contains(xs, y), Contains(attached[y], d)
      PROVE  ToVisit(d, y)'
  <2>1. PICK i \in DOMAIN xs : xs[i] = y
    BY <1>6 DEF Contains
  <2>2. EndAssign(y) \in Elems(agenda')
    BY <1>1, <2>1 DEF Elems
  <2>3. PICK j \in DOMAIN attached[y] : attached[y][j] = d
    BY <1>6 DEF Contains
  <2>4. attached[y] \in Seq(Cons)
    BY <1>1 DEF TypeOK
  <2>5. j >= 1
    BY <2>3, <2>4
  <2>6. Serves(attached', EndAssign(y), d, y)
    BY <1>1, <2>3, <2>5 DEF Serves, EndAssign, Call
  <2>. QED
    BY <2>2, <2>6 DEF ToVisit
<1>7. ASSUME NEW d \in Cons \ reused', enabled'[d]
      PROVE  Followed(d)'
  <2>1. PICK m \in [Vars -> Values] : RunWith(d, m) /\ \A y \in Path(d, m) : m[y] = stored[y]
    BY <1>1, <1>7, FollowedNow
  <2>2. RunWith(d, m)'
    BY <1>1, <2>1 DEF RunWith
  <2>3. ASSUME NEW y \in Path(d, m)
        PROVE  m[y] = stored'[y] \/ ToVisit(d, y)'
    <3>1. y \in Vars /\ Contains(attached[y], d)
      BY <2>1, <2>3, PathAssumption DEF Path, RunWith
    <3>2. CASE Contains(xs, y)
      BY <1>6, <3>1, <3>2
    <3>3. CASE ~Contains(xs, y)
      BY <1>1, <2>1, <2>3, <3>1, <3>3
    <3>. QED
      BY <3>2, <3>3
  <2>. QED
    BY <2>2, <2>3 DEF Followed
<1>8. \A y \in Vars, d \in Cons :
        Contains(attached'[y], d) => \E m \in [Vars -> Values] : y \in Reads(d, m)
  BY <1>1 DEF FollowInv
<1>. QED
  BY <1>3, <1>4, <1>5, <1>7, <1>8 DEF FollowInv

LEMMA FollowStep ==
  ASSUME PathsDecide, NoFeedback, BaseInv, FollowInv, [Next]_vars
  PROVE  FollowInv'
<1>1. CASE Step
  BY <1>1, RecalculatePathFollows, RecalculateFollows, EnableFollows, EnabledFollows DEF Step
<1>2. ASSUME NEW c \in Cons, Always(c) \/ EnableAgain(c) \/ Disable(c)
      PROVE  FollowInv'
  BY <1>2, AlwaysFollows, EnableAgainFollows, DisableFollows
<1>3. ASSUME NEW x \in Vars, NEW v \in Values, Assign(x, v)
      PROVE  FollowInv'
  BY <1>3, AssignFollows
<1>4. CASE UNCHANGED vars
  <2>1. \A c \in Cons : RunWith(c, stored) => RunWith(c, stored)'
    BY <1>4 DEF vars, RunWith
  <2>2. \A c \in Cons : Followed(c) => Followed(c)'
    BY <1>4 DEF vars, Followed, RunWith, ToVisit
  <2>. QED
    BY <1>4, <2>1, <2>2 DEF vars, FollowInv
<1>. QED
  BY <1>1, <1>2, <1>3, <1>4, Zenon DEF Next, UserStep

LEMMA FollowInit ==
  ASSUME Init
  PROVE  FollowInv
<1>1. /\ \A x \in Vars : attached[x] = <<>>
      /\ \A c \in Cons : ~enabled[c]
      /\ agenda = <<>>
  BY DEF Init
<1>2. Elems(agenda) = {} /\ Ordered(agenda)
  BY <1>1, ElemsFew
<1>3. \A c : ~InAgenda(agenda, Enabling, c)
  BY <1>2, EnablingIn
<1>4. \A x \in Vars : \A c : ~Contains(attached[x], c)
  BY <1>1 DEF Contains
<1>. QED
  BY <1>1, <1>2, <1>3, <1>4 DEF FollowInv

(* An enabled constraint links the variables its path leads to now          *)
(* (constraintinterpreter.py: recalculate_path), through recalculations of  *)
(* other blocks and of its own inside of each other, if what a block comes  *)
(* through decides where it leads and no block is stored into, over others, *)
(* by its own enabling: recalculate leaves alone a block that is in the     *)
(* middle of one.                                                           *)
THEOREM PathsFollowed ==
  ASSUME PathsDecide, NoFeedback
  PROVE  Spec => []PathFollowed
<1>1. BaseInv /\ FollowInv => PathFollowed
  <2>. SUFFICES ASSUME BaseInv, FollowInv, Idle, NEW c \in Cons, enabled[c], c \notin reused
                PROVE  link[c] = <<This(c, stored), That(c, stored)>>
    BY DEF PathFollowed
  <2>1. PICK m \in [Vars -> Values] : RunWith(c, m) /\ \A y \in Path(c, m) : m[y] = stored[y]
    BY FollowedNow
  <2>2. stored \in [Vars -> Values]
    BY BaseFacts DEF TypeOK
  <2>3. RunWith(c, stored)
    BY <2>1, <2>2, RunWithOthers
  <2>. QED
    BY <2>3 DEF RunWith
<1>2. Init => FollowInv
  BY FollowInit
<1>3. BaseInv /\ FollowInv /\ [Next]_vars => FollowInv'
  BY FollowStep
<1>. QED
  BY <1>1, <1>2, <1>3, BaseInvHolds, PTL DEF Spec
=============================================================================
