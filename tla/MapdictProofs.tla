---------------------------- MODULE MapdictProofs ----------------------------
(* What Mapdict promises for any objects, names, values and flags: whatever *)
(* objects of a class share, and however they move the averages, each keeps *)
(* its own attributes under their names.                                    *)
EXTENDS Mapdict, TLAPS, WellFoundedInduction, FiniteSetTheorems, SequenceTheorems

-----------------------------------------------------------------------------
(* Slots.                                                                   *)

LEMMA SlotTyped ==
  ASSUME NEW path \in Seq(Nodes), NEW i \in DOMAIN path
  PROVE  Slot(path, i) \in Nat \ {0}
<1>. DEFINE S == {j \in 1..i : ArrayOf(path[j].kind) = ArrayOf(path[i].kind)}
<1>1. i \in Nat /\ 1 <= i
  OBVIOUS
<1>2. IsFiniteSet(S) /\ i \in S
  <2>1. IsFiniteSet(1..i) /\ S \in SUBSET (1..i)
    BY <1>1, FS_Interval
  <2>. QED
    BY <1>1, <2>1, FS_Subset
<1>3. Cardinality(S) \in Nat /\ Cardinality(S) # 0
  BY <1>2, FS_CardinalityType, FS_EmptySet
<1>. QED
  BY <1>3 DEF Slot

(* Two nodes of an array have different slots, the later the higher one.    *)
LEMMA SlotsRise ==
  ASSUME NEW path \in Seq(Nodes), NEW i \in DOMAIN path, NEW j \in DOMAIN path, i < j,
         ArrayOf(path[i].kind) = ArrayOf(path[j].kind)
  PROVE  Slot(path, i) < Slot(path, j)
<1>. DEFINE S(m) == {k \in 1..m : ArrayOf(path[k].kind) = ArrayOf(path[m].kind)}
<1>1. i \in Nat /\ j \in Nat /\ 1 <= i /\ i < j
  OBVIOUS
<1>2. IsFiniteSet(S(i)) /\ IsFiniteSet(S(j))
  <2>1. ASSUME NEW m \in Nat
        PROVE  IsFiniteSet(S(m))
    <3>1. IsFiniteSet(1..m)
      BY FS_Interval
    <3>2. S(m) \in SUBSET (1..m)
      OBVIOUS
    <3>. HIDE DEF S
    <3>. QED
      BY <3>1, <3>2, FS_Subset
  <2>. HIDE DEF S
  <2>. QED
    BY <1>1, <2>1
<1>3. S(i) \in SUBSET S(j) /\ j \in S(j) /\ j \notin S(i)
  BY <1>1
<1>4. Cardinality(S(i)) <= Cardinality(S(j)) /\ Cardinality(S(i)) # Cardinality(S(j))
  BY <1>2, <1>3, FS_Subset
<1>5. Cardinality(S(i)) \in Nat /\ Cardinality(S(j)) \in Nat
  BY <1>2, FS_CardinalityType
<1>. QED
  BY <1>4, <1>5 DEF Slot

LEMMA SlotsApart ==
  ASSUME NEW path \in Seq(Nodes), NEW i \in DOMAIN path, NEW j \in DOMAIN path, i # j,
         ArrayOf(path[i].kind) = ArrayOf(path[j].kind)
  PROVE  Slot(path, i) # Slot(path, j)
<1>1. i \in Nat /\ j \in Nat /\ Slot(path, i) \in Nat /\ Slot(path, j) \in Nat
  BY SlotTyped
<1>2. CASE i < j
  BY <1>1, <1>2, SlotsRise
<1>3. CASE j < i
  BY <1>1, <1>3, SlotsRise
<1>. QED
  BY <1>1, <1>2, <1>3

(* A slot is settled by the path up to it.                                  *)
LEMMA SlotOfPrefix ==
  ASSUME NEW p, NEW q, NEW i \in Nat, 1 <= i, \A j \in 1..i : p[j] = q[j]
  PROVE  Slot(p, i) = Slot(q, i)
<1>1. p[i] = q[i]
  OBVIOUS
<1>2. {j \in 1..i : ArrayOf(p[j].kind) = ArrayOf(p[i].kind)}
        = {j \in 1..i : ArrayOf(q[j].kind) = ArrayOf(q[i].kind)}
  BY <1>1
<1>. QED
  BY <1>2 DEF Slot

-----------------------------------------------------------------------------
(* Estimates.                                                               *)

(* The average over the difference in fixed point falls below no bound that *)
(* both have, rounding included.                                            *)
LEMMA FixedPointFits ==
  ASSUME NEW F \in Nat \ {0}, NEW k \in Nat
  PROVE  k * F \in Nat /\ k <= (k * F) \div F
OBVIOUS

LEMMA AverageKeeps ==
  ASSUME NEW F \in Nat \ {0}, NEW e \in Nat, NEW o \in Nat
  PROVE  /\ e + (o \div F) - (e \div F) \in Nat
         /\ \A k \in Nat : k <= e \div F /\ k <= o \div F
              => k <= (e + (o \div F) - (e \div F)) \div F
OBVIOUS

Classes    == {Class} \cup Objects
ArrayNames == {"object", "unboxed"}
Sizes      == [ArrayNames -> Nat]
Tree       == Classes \X Seq(Nodes)

(* The nodes that exist are closed under parents, and each has estimates no *)
(* smaller than what it needs.                                              *)
Suffices(sizes, path) ==
  \A i \in DOMAIN path : Slot(path, i) <= Size(sizes[ArrayOf(path[i].kind)])
IsEstimate(est) ==
  /\ est \in UNION {[D -> Sizes] : D \in SUBSET Tree}
  /\ \A c \in Classes, path \in Seq(Nodes) : <<c, path>> \in DOMAIN est
       => Suffices(est[<<c, path>>], path) /\ (path # <<>> => <<c, Front(path)>> \in DOMAIN est)

LEMMA ArraysTwo ==
  ASSUME NEW kind
  PROVE  ArrayOf(kind) \in ArrayNames
BY DEF ArrayOf, ArrayNames

LEMMA SizeTyped ==
  ASSUME NEW e \in Nat
  PROVE  Size(e) \in Nat
BY MapdictAssumption DEF Size

LEMMA EstimateAt ==
  ASSUME NEW est, IsEstimate(est), NEW c \in Classes, NEW path \in Seq(Nodes),
         <<c, path>> \in DOMAIN est
  PROVE  /\ est[<<c, path>>] \in Sizes /\ Suffices(est[<<c, path>>], path)
         /\ path # <<>> => <<c, Front(path)>> \in DOMAIN est
<1>1. PICK D \in SUBSET Tree : est \in [D -> Sizes]
  BY DEF IsEstimate
<1>. QED
  BY <1>1 DEF IsEstimate

LEMMA FrontLast ==
  ASSUME NEW path \in Seq(Nodes), path # <<>>
  PROVE  /\ Front(path) \in Seq(Nodes) /\ Len(path) \in Nat \ {0}
         /\ Len(Front(path)) = Len(path) - 1 /\ Last(path) \in Nodes
         /\ \A i \in 1..(Len(path) - 1) : Front(path)[i] = path[i]
         /\ Last(path) = path[Len(path)] /\ DOMAIN path = 1..Len(path)
<1>1. Len(path) \in Nat \ {0} /\ DOMAIN path = 1..Len(path)
  OBVIOUS
<1>2. /\ SubSeq(path, 1, Len(path) - 1) \in Seq(Nodes)
      /\ Len(SubSeq(path, 1, Len(path) - 1)) = Len(path) - 1
      /\ \A i \in 1..(Len(path) - 1) : SubSeq(path, 1, Len(path) - 1)[i] = path[i]
  BY <1>1, SubSeqProperties
<1>3. path[Len(path)] \in Nodes
  BY <1>1
<1>. QED
  BY <1>1, <1>2, <1>3 DEF Front, Last

(* A node starts with what it needs.                                        *)
LEMMA FirstEstimateSuffices ==
  ASSUME NEW path \in Seq(Nodes), path # <<>>,
         NEW parent \in Sizes, Suffices(parent, Front(path))
  PROVE  FirstEstimate(path, parent) \in Sizes /\ Suffices(FirstEstimate(path, parent), path)
<1>. DEFINE a == ArrayOf(Last(path).kind)
            sizes == FirstEstimate(path, parent)
            n == Len(path)
<1>1. /\ n \in Nat \ {0} /\ DOMAIN path = 1..n /\ Front(path) \in Seq(Nodes)
      /\ DOMAIN Front(path) = 1..(n - 1) /\ Last(path) = path[n]
      /\ \A i \in 1..(n - 1) : Front(path)[i] = path[i]
  BY FrontLast
<1>2. a \in ArrayNames /\ Slot(path, n) \in Nat
  BY <1>1, ArraysTwo, SlotTyped
<1>3. FixedPoint(Slot(path, n)) \in Nat /\ Slot(path, n) <= Size(FixedPoint(Slot(path, n)))
  BY <1>2, FixedPointFits, MapdictAssumption DEF FixedPoint, Size
<1>4. sizes = [parent EXCEPT ![a] = FixedPoint(Slot(path, n))]
  BY DEF FirstEstimate
<1>5. sizes \in Sizes
  BY <1>2, <1>3, <1>4 DEF Sizes
<1>6. ASSUME NEW i \in DOMAIN path
      PROVE  Slot(path, i) <= Size(sizes[ArrayOf(path[i].kind)])
  <2>1. ArrayOf(path[i].kind) \in ArrayNames /\ Slot(path, i) \in Nat /\ i \in 1..n
    BY <1>1, ArraysTwo, SlotTyped
  <2>2. CASE ArrayOf(path[i].kind) = a
    <3>1. sizes[a] = FixedPoint(Slot(path, n))
      BY <1>2, <1>4 DEF Sizes
    <3>2. Slot(path, i) <= Slot(path, n)
      BY <1>1, <1>2, <2>1, <2>2, SlotsRise
    <3>3. Size(sizes[a]) \in Nat
      BY <1>3, <3>1, SizeTyped
    <3>. HIDE DEF a, n, sizes
    <3>. QED
      BY <1>2, <1>3, <2>1, <2>2, <3>1, <3>2, <3>3
  <2>3. CASE ArrayOf(path[i].kind) # a
    <3>1. i \in 1..(n - 1)
      BY <1>1, <2>1, <2>3
    <3>2. Front(path)[i] = path[i] /\ i \in DOMAIN Front(path)
      BY <1>1, <3>1
    <3>3. Slot(Front(path), i) = Slot(path, i)
      BY <1>1, <3>1, SlotOfPrefix
    <3>4. sizes[ArrayOf(path[i].kind)] = parent[ArrayOf(path[i].kind)]
      BY <1>4, <2>1, <2>3 DEF Sizes
    <3>. QED
      BY <3>2, <3>3, <3>4 DEF Suffices
  <2>. QED
    BY <2>2, <2>3
<1>. QED
  BY <1>5, <1>6 DEF Suffices

(* What an estimate is, for another domain or with other sizes.             *)
LEMMA EstimateOf ==
  ASSUME NEW D \in SUBSET Tree, NEW est \in [D -> Sizes],
         \A c \in Classes, path \in Seq(Nodes) : <<c, path>> \in D
           => Suffices(est[<<c, path>>], path) /\ (path # <<>> => <<c, Front(path)>> \in D)
  PROVE  IsEstimate(est)
<1>1. DOMAIN est = D
  OBVIOUS
<1>. QED
  BY <1>1 DEF IsEstimate

LEMMA EstimateTyped ==
  ASSUME NEW est, IsEstimate(est)
  PROVE  est \in [DOMAIN est -> Sizes] /\ DOMAIN est \in SUBSET Tree
<1>1. PICK D \in SUBSET Tree : est \in [D -> Sizes]
  BY DEF IsEstimate
<1>. QED
  BY <1>1

(* A node that is added, and one whose sizes move.                          *)
LEMMA NodeAdded ==
  ASSUME NEW est, IsEstimate(est), NEW c \in Classes, NEW path \in Seq(Nodes),
         path # <<>> => <<c, Front(path)>> \in DOMAIN est,
         <<c, path>> \notin DOMAIN est,
         NEW sizes \in Sizes, Suffices(sizes, path)
  PROVE  IsEstimate(NewNode(est, <<c, path>>, sizes))
<1>. DEFINE D == DOMAIN est \cup {<<c, path>>}
            more == NewNode(est, <<c, path>>, sizes)
<1>1. more = [n \in D |-> IF n = <<c, path>> THEN sizes ELSE est[n]]
  BY DEF NewNode
<1>2. est \in [DOMAIN est -> Sizes] /\ DOMAIN est \in SUBSET Tree
  BY EstimateTyped
<1>3. D \in SUBSET Tree
  BY <1>2 DEF Tree
<1>4. more \in [D -> Sizes]
  BY <1>1, <1>2
<1>5. ASSUME NEW d \in Classes, NEW p \in Seq(Nodes), <<d, p>> \in D
      PROVE  Suffices(more[<<d, p>>], p) /\ (p # <<>> => <<d, Front(p)>> \in D)
  <2>1. CASE <<d, p>> \in DOMAIN est
    BY <1>1, <2>1, EstimateAt
  <2>2. CASE <<d, p>> = <<c, path>>
    BY <1>1, <2>2
  <2>. QED
    BY <1>5, <2>1, <2>2
<1>. HIDE DEF D, more
<1>6. IsEstimate(more)
  BY <1>3, <1>4, <1>5, EstimateOf
<1>. QED
  BY <1>6 DEF more

LEMMA NodeMoved ==
  ASSUME NEW est, IsEstimate(est), NEW c \in Classes, NEW path \in Seq(Nodes),
         <<c, path>> \in DOMAIN est, NEW sizes \in Sizes, Suffices(sizes, path)
  PROVE  /\ IsEstimate([est EXCEPT ![<<c, path>>] = sizes])
         /\ DOMAIN [est EXCEPT ![<<c, path>>] = sizes] = DOMAIN est
<1>. DEFINE D == DOMAIN est
            more == [est EXCEPT ![<<c, path>>] = sizes]
<1>1. est \in [D -> Sizes] /\ D \in SUBSET Tree
  BY EstimateTyped
<1>2. more = [n \in D |-> IF n = <<c, path>> THEN sizes ELSE est[n]]
  OBVIOUS
<1>3. more \in [D -> Sizes]
  BY <1>1, <1>2
<1>4. ASSUME NEW d \in Classes, NEW p \in Seq(Nodes), <<d, p>> \in D
      PROVE  Suffices(more[<<d, p>>], p) /\ (p # <<>> => <<d, Front(p)>> \in D)
  <2>1. Suffices(est[<<d, p>>], p) /\ (p # <<>> => <<d, Front(p)>> \in D)
    BY <1>4, EstimateAt
  <2>2. CASE <<d, p>> = <<c, path>>
    BY <1>2, <2>1, <2>2
  <2>3. CASE <<d, p>> # <<c, path>>
    BY <1>2, <1>4, <2>1, <2>3
  <2>. QED
    BY <2>2, <2>3
<1>. HIDE DEF D, more
<1>5. IsEstimate(more)
  BY <1>1, <1>3, <1>4, EstimateOf
<1>. QED
  BY <1>3, <1>5 DEF D, more

LEMMA TransitionGot ==
  ASSUME NEW est, IsEstimate(est), NEW c \in Classes, NEW path \in Seq(Nodes), path # <<>>,
         <<c, Front(path)>> \in DOMAIN est
  PROVE  IsEstimate(GetTransition(est, c, path))
<1>1. CASE <<c, path>> \in DOMAIN est
  BY <1>1 DEF GetTransition
<1>2. CASE <<c, path>> \notin DOMAIN est
  <2>. DEFINE sizes == FirstEstimate(path, est[<<c, Front(path)>>])
  <2>1. Front(path) \in Seq(Nodes)
    BY FrontLast
  <2>2. sizes \in Sizes /\ Suffices(sizes, path)
    BY <2>1, EstimateAt, FirstEstimateSuffices
  <2>3. GetTransition(est, c, path) = NewNode(est, <<c, path>>, sizes)
    BY <1>2 DEF GetTransition
  <2>. HIDE DEF sizes
  <2>4. IsEstimate(NewNode(est, <<c, path>>, sizes))
    BY <1>2, <2>2, NodeAdded
  <2>. QED
    BY <2>3, <2>4 DEF NewNode
<1>. QED
  BY <1>1, <1>2

LEMMA ClassNodeGot ==
  ASSUME NEW est, IsEstimate(est), NEW c \in Classes
  PROVE  IsEstimate(GetClassNode(est, c))
<1>1. CASE <<c, <<>>>> \in DOMAIN est
  BY <1>1 DEF GetClassNode
<1>2. CASE <<c, <<>>>> \notin DOMAIN est
  <2>. DEFINE none == [object |-> 0, unboxed |-> 0]
              root == <<>>
  <2>1. none \in Sizes /\ Suffices(none, root) /\ root \in Seq(Nodes)
    BY DEF Sizes, Suffices, ArrayNames
  <2>2. GetClassNode(est, c) = NewNode(est, <<c, root>>, none) /\ <<c, root>> \notin DOMAIN est
    BY <1>2 DEF GetClassNode
  <2>3. root # <<>> => <<c, Front(root)>> \in DOMAIN est
    OBVIOUS
  <2>. HIDE DEF none, root
  <2>4. IsEstimate(NewNode(est, <<c, root>>, none))
    BY <2>1, <2>2, <2>3, NodeAdded
  <2>. QED
    BY <2>2, <2>4 DEF NewNode, root
<1>. QED
  BY <1>1, <1>2

(* The average of a parent that moves towards its child still suffices.     *)
LEMMA AverageSuffices ==
  ASSUME NEW e \in Sizes, NEW o \in Sizes, NEW p \in Seq(Nodes), NEW q \in Seq(Nodes),
         Suffices(e, p), Suffices(o, q), p # <<>> => Len(p) <= Len(q),
         \A i \in DOMAIN p : i \in DOMAIN q /\ p[i] = q[i]
  PROVE  UpdateFrom(e, o) \in Sizes /\ Suffices(UpdateFrom(e, o), p)
<1>. DEFINE u == UpdateFrom(e, o)
<1>1. ASSUME NEW a \in ArrayNames
      PROVE  /\ u[a] = e[a] + (o[a] \div NUM_DIGITS_POW2) - (e[a] \div NUM_DIGITS_POW2)
             /\ u[a] \in Nat
             /\ \A k \in Nat : k <= Size(e[a]) /\ k <= Size(o[a]) => k <= Size(u[a])
  <2>1. e[a] \in Nat /\ o[a] \in Nat /\ NUM_DIGITS_POW2 \in Nat \ {0}
    BY MapdictAssumption DEF Sizes
  <2>2. u[a] = e[a] + (o[a] \div NUM_DIGITS_POW2) - (e[a] \div NUM_DIGITS_POW2)
    BY DEF UpdateFrom, Size, ArrayNames
  <2>3. u[a] \in Nat
    BY <2>1, <2>2, AverageKeeps
  <2>. HIDE DEF u
  <2>. QED
    BY <2>1, <2>2, <2>3, AverageKeeps DEF Size
<1>2. u \in Sizes
  BY <1>1 DEF UpdateFrom, Sizes, ArrayNames
<1>3. ASSUME NEW i \in DOMAIN p
      PROVE  Slot(p, i) <= Size(u[ArrayOf(p[i].kind)])
  <2>1. ArrayOf(p[i].kind) \in ArrayNames /\ Slot(p, i) \in Nat
    BY ArraysTwo, SlotTyped
  <2>2. Slot(p, i) <= Size(e[ArrayOf(p[i].kind)])
    BY DEF Suffices
  <2>3. i \in Nat /\ 1 <= i /\ \A j \in 1..i : j \in DOMAIN p
    OBVIOUS
  <2>4. Slot(p, i) = Slot(q, i) /\ i \in DOMAIN q /\ p[i] = q[i]
    BY <2>3, SlotOfPrefix
  <2>5. Slot(p, i) <= Size(o[ArrayOf(p[i].kind)])
    BY <2>4 DEF Suffices
  <2>. HIDE DEF u
  <2>. QED
    BY <1>1, <2>1, <2>2, <2>5
<1>. QED
  BY <1>2, <1>3 DEF Suffices

-----------------------------------------------------------------------------
(* Objects while they are changed.                                          *)

Stored == Values \cup Objects \cup BOOLEAN \cup {Nil}
Things == [cls : Classes, path : Seq(Nodes), object : Seq(Stored), unboxed : Seq(Stored),
           est : UNION {[D -> Sizes] : D \in SUBSET Tree}, failed : BOOLEAN]

(* What a node stands for, whatever type it has, and what it may hold.      *)
Key(node) == <<Family(node.kind), node.name>>
Unique(path) == \A i, j \in DOMAIN path : Key(path[i]) = Key(path[j]) => i = j
Belongs(node, v) ==
  /\ node.kind \in Types => node.name \in Names /\ v \in Values
  /\ node.kind \in {"int", "float"} => TypeOf[v] = node.kind
  /\ node.kind = "flag" => node.name \in Flags /\ v \in BOOLEAN
  /\ node.kind = "cvar" => node.name \in Names /\ v \in Objects

ArrayAt(x, i) == ArrayOf(x.path[i].kind)
SlotAt(x, i)  == Slot(x.path, i)
Placed(x, i) ==
  SlotAt(x, i) \in DOMAIN x[ArrayAt(x, i)] /\ Belongs(x.path[i], x[ArrayAt(x, i)][SlotAt(x, i)])
Sane(x) ==
  /\ x \in Things /\ IsEstimate(x.est) /\ <<x.cls, x.path>> \in DOMAIN x.est
  /\ Unique(x.path)
  /\ \A i \in DOMAIN x.path : Placed(x, i)

LEMMA ArrayTyped ==
  ASSUME NEW x \in Things, NEW a \in ArrayNames
  PROVE  x[a] \in Seq(Stored) /\ Len(x[a]) \in Nat /\ DOMAIN x[a] = 1..Len(x[a])
<1>1. x[a] \in Seq(Stored)
  BY DEF ArrayNames, Things
<1>. QED
  BY <1>1

(* What is read is what is stored, and of the node's type.                  *)
LEMMA ReadPlaced ==
  ASSUME NEW x, NEW i, Placed(x, i)
  PROVE  Read(x, i) = x[ArrayAt(x, i)][SlotAt(x, i)] /\ Belongs(x.path[i], Read(x, i))
<1>. DEFINE v == x[ArrayAt(x, i)][SlotAt(x, i)]
<1>1. SlotAt(x, i) \in DOMAIN x[ArrayAt(x, i)] /\ Belongs(x.path[i], v)
  BY DEF Placed
<1>2. x.path[i].kind \in {"int", "float"} => v # Nil /\ TypeOf[v] = x.path[i].kind
  BY <1>1, MapdictAssumption DEF Belongs, Types
<1>. QED
  BY <1>1, <1>2 DEF Read, ArrayAt, SlotAt

LEMMA BelongsStored ==
  ASSUME NEW node \in Nodes, NEW v, Belongs(node, v)
  PROVE  v \in Stored
BY DEF Nodes, Belongs, Stored

LEMMA Appended ==
  ASSUME NEW p \in Seq(Nodes), NEW node \in Nodes
  PROVE  /\ Append(p, node) \in Seq(Nodes) /\ Append(p, node) # <<>>
         /\ Len(Append(p, node)) = Len(p) + 1 /\ Len(p) \in Nat
         /\ Append(p, node)[Len(p) + 1] = node
         /\ DOMAIN Append(p, node) = 1..(Len(p) + 1) /\ DOMAIN p = 1..Len(p)
         /\ \A i \in DOMAIN p : i \in DOMAIN Append(p, node) /\ Append(p, node)[i] = p[i]
         /\ Front(Append(p, node)) = p
<1>. DEFINE path == Append(p, node)
<1>1. /\ path \in Seq(Nodes) /\ path # <<>> /\ Len(path) = Len(p) + 1 /\ Len(p) \in Nat
      /\ path[Len(p) + 1] = node
      /\ DOMAIN path = 1..(Len(p) + 1) /\ DOMAIN p = 1..Len(p)
      /\ \A i \in DOMAIN p : i \in DOMAIN path /\ path[i] = p[i]
  OBVIOUS
<1>. HIDE DEF path
<1>2. Front(path) \in Seq(Nodes) /\ Len(Front(path)) = Len(p)
  BY <1>1, FrontLast
<1>3. DOMAIN Front(path) = DOMAIN p
  BY <1>1, <1>2
<1>4. \A i \in DOMAIN p : Front(path)[i] = p[i]
  <2>1. \A i \in 1..(Len(path) - 1) : Front(path)[i] = path[i]
    BY <1>1, FrontLast
  <2>. QED
    BY <1>1, <2>1
<1>5. Front(path) = p
  BY <1>2, <1>3, <1>4
<1>. QED
  BY <1>1, <1>5 DEF path

(* A node on top: what is stored stays where it is.                         *)
LEMMA Added ==
  ASSUME NEW x, Sane(x), NEW kind, NEW n, [kind |-> kind, name |-> n] \in Nodes, NEW jitted
  PROVE  LET y == Add(x, kind, n, jitted) IN
         /\ y \in Things /\ IsEstimate(y.est) /\ <<y.cls, y.path>> \in DOMAIN y.est
         /\ y.path = Append(x.path, [kind |-> kind, name |-> n])
         /\ y.cls = x.cls /\ y.failed = x.failed /\ DOMAIN x.est \subseteq DOMAIN y.est
         /\ Slot(y.path, Len(y.path)) \in DOMAIN y[ArrayOf(kind)]
         /\ \A b \in ArrayNames : \A s \in DOMAIN x[b] : s \in DOMAIN y[b] /\ y[b][s] = x[b][s]
<1>. DEFINE node == [kind |-> kind, name |-> n]
            path == Append(x.path, node)
            est  == GetTransition(x.est, x.cls, path)
            a    == ArrayOf(kind)
            size == Size(est[<<x.cls, path>>][a])
            grow == Slot(path, Len(path)) >= Len(x[a])
            u    == UpdateFrom(est[<<x.cls, x.path>>], est[<<x.cls, path>>])
            moved == IF jitted THEN est ELSE [est EXCEPT ![<<x.cls, x.path>>] = u]
            y    == Add(x, kind, n, jitted)
<1>1. /\ x \in Things /\ x.path \in Seq(Nodes) /\ x.cls \in Classes /\ IsEstimate(x.est)
      /\ <<x.cls, x.path>> \in DOMAIN x.est
  BY DEF Sane, Things
<1>2. /\ path \in Seq(Nodes) /\ path # <<>> /\ Len(path) = Len(x.path) + 1
      /\ Len(x.path) \in Nat /\ path[Len(path)] = node /\ DOMAIN path = 1..Len(path)
      /\ \A i \in DOMAIN x.path : i \in DOMAIN path /\ path[i] = x.path[i]
      /\ Front(path) = x.path /\ node \in Nodes /\ node.kind = kind
  BY <1>1, Appended
<1>. HIDE DEF path, node
<1>4. IsEstimate(est) /\ DOMAIN est = DOMAIN x.est \cup {<<x.cls, path>>}
  <2>1. <<x.cls, Front(path)>> \in DOMAIN x.est
    BY <1>1, <1>2
  <2>2. IsEstimate(est)
    BY <1>1, <1>2, <2>1, TransitionGot
  <2>3. DOMAIN est = DOMAIN x.est \cup {<<x.cls, path>>}
    BY DEF GetTransition, NewNode
  <2>. QED
    BY <2>2, <2>3
<1>5. a \in ArrayNames /\ Slot(path, Len(path)) \in Nat \ {0} /\ Len(x[a]) \in Nat
  <2>1. a \in ArrayNames
    BY ArraysTwo
  <2>2. Len(path) \in DOMAIN path
    BY <1>2
  <2>. HIDE DEF a
  <2>. QED
    BY <1>1, <1>2, <2>1, <2>2, SlotTyped, ArrayTyped
<1>6. est[<<x.cls, path>>] \in Sizes /\ Suffices(est[<<x.cls, path>>], path)
  BY <1>1, <1>2, <1>4, EstimateAt
<1>7. est[<<x.cls, x.path>>] \in Sizes /\ Suffices(est[<<x.cls, x.path>>], x.path)
  BY <1>1, <1>4, EstimateAt
<1>8. size \in Nat /\ Slot(path, Len(path)) <= size
  <2>1. est[<<x.cls, path>>][a] \in Nat
    BY <1>5, <1>6 DEF Sizes
  <2>2. Len(path) \in DOMAIN path /\ path[Len(path)].kind = kind
    BY <1>2
  <2>. QED
    BY <1>6, <2>1, <2>2, SizeTyped DEF Suffices
<1>9. IsEstimate(moved) /\ DOMAIN moved = DOMAIN est
  <2>1. u \in Sizes /\ Suffices(u, x.path)
    <3>. HIDE DEF est
    <3>1. x.path # <<>> => Len(x.path) <= Len(path)
      BY <1>2
    <3>. QED
      BY <1>1, <1>2, <1>6, <1>7, <3>1, AverageSuffices
  <2>2. <<x.cls, x.path>> \in DOMAIN est
    BY <1>1, <1>4
  <2>. HIDE DEF u, est, path
  <2>. QED
    BY <1>1, <1>4, <2>1, <2>2, NodeMoved
<1>10. moved \in UNION {[D -> Sizes] : D \in SUBSET Tree}
  BY <1>9 DEF IsEstimate
<1>11. ~(grow /\ size < Len(x[a]))
  BY <1>5, <1>8
<1>. DEFINE grown == IF grow THEN Grown(x[a], size) ELSE x[a]
<1>12. /\ grown \in Seq(Stored) /\ Slot(path, Len(path)) \in DOMAIN grown
       /\ \A s \in DOMAIN x[a] : s \in DOMAIN grown /\ grown[s] = x[a][s]
  <2>1. x[a] \in Seq(Stored) /\ DOMAIN x[a] = 1..Len(x[a])
    BY <1>1, <1>5, ArrayTyped
  <2>2. CASE grow
    <3>1. Grown(x[a], size) = [i \in 1..size |-> IF i <= Len(x[a]) THEN x[a][i] ELSE Nil]
      BY DEF Grown
    <3>2. \A i \in 1..size : (IF i <= Len(x[a]) THEN x[a][i] ELSE Nil) \in Stored
      BY <2>1, <1>5, <1>8 DEF Stored
    <3>. HIDE DEF size, a
    <3>3. Grown(x[a], size) \in Seq(Stored) /\ DOMAIN Grown(x[a], size) = 1..size
      BY <1>8, <3>1, <3>2
    <3>. QED
      BY <1>5, <1>8, <2>1, <2>2, <3>1, <3>3
  <2>3. CASE ~grow
    BY <1>5, <2>1, <2>3
  <2>. QED
    BY <2>2, <2>3
<1>13. /\ y \in Things /\ y.path = path /\ y.est = moved /\ y.cls = x.cls
       /\ y.failed = x.failed
       /\ \A b \in ArrayNames : y[b] = IF b = a THEN grown ELSE x[b]
  <2>1. y = [x EXCEPT !.path = path, !.est = moved, ![a] = grown,
                      !.failed = x.failed \/ (grow /\ size < Len(x[a]))]
    BY <1>1, <1>5 DEF Add, Things, ArrayNames, path, node
  <2>2. x.failed \/ (grow /\ size < Len(x[a])) <=> x.failed
    BY <1>11
  <2>3. x.failed \in BOOLEAN
    BY <1>1 DEF Things
  <2>4. (x.failed \/ (grow /\ size < Len(x[a]))) = x.failed
    BY <2>2, <2>3
  <2>. HIDE DEF y, moved, a, grown, grow, size
  <2>5. y = [x EXCEPT !.path = path, !.est = moved, ![a] = grown, !.failed = x.failed]
    BY <2>1, <2>4
  <2>. QED
    BY <1>1, <1>2, <1>5, <1>10, <1>12, <2>3, <2>5 DEF Things, ArrayNames
<1>. HIDE DEF y, moved, a, grown, grow, size, est
<1>14. /\ IsEstimate(y.est) /\ <<y.cls, y.path>> \in DOMAIN y.est
       /\ DOMAIN x.est \subseteq DOMAIN y.est
  BY <1>4, <1>9, <1>13
<1>15. Slot(y.path, Len(y.path)) \in DOMAIN y[a]
  BY <1>5, <1>12, <1>13
<1>16. \A b \in ArrayNames : \A s \in DOMAIN x[b] : s \in DOMAIN y[b] /\ y[b][s] = x[b][s]
  BY <1>12, <1>13
<1>. QED
  BY <1>13, <1>14, <1>15, <1>16 DEF y, path, a, node

(* What an object takes along while it is changed: the tree only grows.     *)
Carried(x, y) ==
  y.cls = x.cls /\ y.failed = x.failed /\ DOMAIN x.est \subseteq DOMAIN y.est

(* A value is written into its slot and no other.  What was there may be    *)
(* anything, as in a slot that was just added.                              *)
Writable(x, i) ==
  /\ x \in Things /\ IsEstimate(x.est) /\ <<x.cls, x.path>> \in DOMAIN x.est
  /\ Unique(x.path)
  /\ i \in DOMAIN x.path /\ SlotAt(x, i) \in DOMAIN x[ArrayAt(x, i)]
  /\ \A j \in DOMAIN x.path : j # i => Placed(x, j)
IsWritten(x, i, v, y) ==
  /\ Sane(y) /\ y.path = x.path /\ Carried(x, y) /\ Read(y, i) = v
  /\ \A j \in DOMAIN x.path : j # i => Read(y, j) = Read(x, j)

LEMMA Written ==
  ASSUME NEW x, NEW i, Writable(x, i), NEW v, Belongs(x.path[i], v)
  PROVE  IsWritten(x, i, v, Write(x, i, v))
<1>0. /\ x \in Things /\ IsEstimate(x.est) /\ <<x.cls, x.path>> \in DOMAIN x.est
      /\ Unique(x.path)
      /\ i \in DOMAIN x.path /\ SlotAt(x, i) \in DOMAIN x[ArrayAt(x, i)]
      /\ \A j \in DOMAIN x.path : j # i => Placed(x, j)
  BY DEF Writable
<1>. DEFINE y == Write(x, i, v)
            a == ArrayAt(x, i)
            s == SlotAt(x, i)
<1>1. x.path \in Seq(Nodes) /\ x.path[i] \in Nodes /\ a \in ArrayNames
  BY <1>0, ArraysTwo DEF Things, ArrayAt
<1>2. v \in Stored
  BY <1>1, BelongsStored
<1>3. x[a] \in Seq(Stored)
  BY <1>0, <1>1, ArrayTyped
<1>. HIDE DEF a, s
<1>4. s \in DOMAIN x[a]
  BY <1>0 DEF a, s
<1>5. y = [x EXCEPT ![a] = [x[a] EXCEPT ![s] = v]]
  BY <1>0, <1>1, <1>4 DEF Write, a, s, ArrayAt, SlotAt, Things, ArrayNames
<1>6. [x[a] EXCEPT ![s] = v] \in Seq(Stored)
  BY <1>2, <1>3, <1>4
<1>. HIDE DEF y
<1>7. /\ y \in Things /\ y.path = x.path /\ y.est = x.est /\ y.cls = x.cls
      /\ y.failed = x.failed
      /\ \A b \in ArrayNames : y[b] = IF b = a THEN [x[a] EXCEPT ![s] = v] ELSE x[b]
  BY <1>0, <1>1, <1>5, <1>6 DEF Things, ArrayNames
<1>8. \A j : ArrayAt(y, j) = ArrayAt(x, j) /\ SlotAt(y, j) = SlotAt(x, j)
  BY <1>7 DEF ArrayAt, SlotAt
<1>9. Placed(y, i) /\ Read(y, i) = v
  <2>1. y[a] = [x[a] EXCEPT ![s] = v]
    BY <1>1, <1>7
  <2>2. s \in DOMAIN y[a] /\ y[a][s] = v
    BY <1>3, <1>4, <2>1
  <2>3. Placed(y, i) /\ y[ArrayAt(y, i)][SlotAt(y, i)] = v
    BY <1>0, <1>7, <1>8, <2>2 DEF Placed, a, s
  <2>. QED
    BY <2>3, ReadPlaced
<1>10. ASSUME NEW j \in DOMAIN x.path, j # i
       PROVE  Placed(y, j) /\ Read(y, j) = Read(x, j)
  <2>. DEFINE b == ArrayAt(x, j)
              t == SlotAt(x, j)
  <2>1. Placed(x, j) /\ b \in ArrayNames
    BY <1>0, <1>10, ArraysTwo DEF ArrayAt
  <2>2. b = a => t # s
    BY <1>0, <1>1, <1>10, SlotsApart DEF a, s, ArrayAt, SlotAt
  <2>. HIDE DEF b, t
  <2>3. t \in DOMAIN x[b]
    BY <2>1 DEF Placed, b, t
  <2>4. t \in DOMAIN y[b] /\ y[b][t] = x[b][t]
    BY <1>3, <1>4, <1>7, <2>1, <2>2, <2>3
  <2>5. Placed(y, j) /\ y[ArrayAt(y, j)][SlotAt(y, j)] = x[ArrayAt(x, j)][SlotAt(x, j)]
    BY <1>7, <1>8, <2>1, <2>4 DEF Placed, b, t
  <2>. QED
    BY <2>1, <2>5, ReadPlaced
<1>11. Sane(y)
  BY <1>0, <1>7, <1>9, <1>10 DEF Sane
<1>12. Carried(x, y)
  BY <1>7 DEF Carried
<1>. QED
  BY <1>7, <1>9, <1>10, <1>11, <1>12 DEF y, IsWritten

(* A new node with its value on top.                                        *)
Node(kind, n)  == [kind |-> kind, name |-> n]
Absent(x, key) == \A i \in DOMAIN x.path : Key(x.path[i]) # key
IsAdded(x, node, v, y) ==
  /\ Sane(y) /\ y.path = Append(x.path, node) /\ Carried(x, y)
  /\ Read(y, Len(x.path) + 1) = v
  /\ \A i \in DOMAIN x.path : Read(y, i) = Read(x, i)

LEMMA AddedWritten ==
  ASSUME NEW x, Sane(x), NEW kind, NEW n, NEW v, NEW jitted,
         Node(kind, n) \in Nodes, Belongs(Node(kind, n), v), Absent(x, Key(Node(kind, n)))
  PROVE  IsAdded(x, Node(kind, n), v, AddAndWrite(x, kind, n, v, jitted))
<1>. DEFINE node == Node(kind, n)
            more == Add(x, kind, n, jitted)
            m    == Len(x.path) + 1
            y    == AddAndWrite(x, kind, n, v, jitted)
<1>1. /\ x \in Things /\ x.path \in Seq(Nodes) /\ Unique(x.path)
      /\ \A i \in DOMAIN x.path : Placed(x, i)
  BY DEF Sane, Things
<1>2. /\ more \in Things /\ IsEstimate(more.est) /\ <<more.cls, more.path>> \in DOMAIN more.est
      /\ more.path = Append(x.path, node)
      /\ more.cls = x.cls /\ more.failed = x.failed /\ DOMAIN x.est \subseteq DOMAIN more.est
      /\ Slot(more.path, Len(more.path)) \in DOMAIN more[ArrayOf(kind)]
      /\ \A b \in ArrayNames : \A s \in DOMAIN x[b] :
           s \in DOMAIN more[b] /\ more[b][s] = x[b][s]
  BY Added DEF Node
<1>. HIDE DEF more, node
<1>3. node \in Nodes /\ node.kind = kind /\ Belongs(node, v)
  BY DEF node, Node
<1>4. /\ Len(more.path) = m /\ m \in Nat /\ m \in DOMAIN more.path /\ more.path[m] = node
      /\ DOMAIN more.path = DOMAIN x.path \cup {m} /\ m \notin DOMAIN x.path
      /\ \A i \in DOMAIN x.path : more.path[i] = x.path[i]
  BY <1>1, <1>2, <1>3, Appended
<1>. HIDE DEF m
<1>5. Unique(more.path)
  <2>1. \A i \in DOMAIN x.path : Key(x.path[i]) # Key(node)
    BY DEF node, Absent
  <2>. QED
    BY <1>1, <1>4, <2>1 DEF Unique
<1>6. SlotAt(more, m) \in DOMAIN more[ArrayAt(more, m)]
  BY <1>2, <1>3, <1>4 DEF SlotAt, ArrayAt
<1>7. ASSUME NEW i \in DOMAIN x.path
      PROVE  Placed(more, i) /\ Read(more, i) = Read(x, i)
  <2>. DEFINE b == ArrayAt(x, i)
              t == SlotAt(x, i)
  <2>1. b \in ArrayNames /\ t \in DOMAIN x[b] /\ Belongs(x.path[i], x[b][t])
    BY <1>1, ArraysTwo DEF ArrayAt, Placed
  <2>2. i \in Nat /\ 1 <= i /\ \A j \in 1..i : j \in DOMAIN x.path
    BY <1>1
  <2>3. SlotAt(more, i) = t /\ ArrayAt(more, i) = b
    BY <1>4, <2>2, SlotOfPrefix DEF SlotAt, ArrayAt
  <2>. HIDE DEF b, t
  <2>4. t \in DOMAIN more[b] /\ more[b][t] = x[b][t]
    BY <1>2, <2>1
  <2>5. Placed(more, i)
    BY <1>4, <2>1, <2>3, <2>4 DEF Placed
  <2>6. Read(more, i) = more[b][t] /\ Read(x, i) = x[b][t]
    BY <1>1, <2>3, <2>5, ReadPlaced DEF b, t
  <2>. QED
    BY <2>4, <2>5, <2>6
<1>8. y = Write(more, m, v)
  BY <1>4 DEF AddAndWrite, more
<1>9. Belongs(more.path[m], v)
  BY <1>3, <1>4
<1>10. \A j \in DOMAIN more.path : j # m => Placed(more, j)
  BY <1>4, <1>7
<1>. HIDE DEF y
<1>11. /\ Sane(y) /\ y.path = more.path /\ Carried(more, y) /\ Read(y, m) = v
       /\ \A j \in DOMAIN more.path : j # m => Read(y, j) = Read(more, j)
  <2>1. Writable(more, m)
    BY <1>2, <1>4, <1>5, <1>6, <1>10 DEF Writable
  <2>2. IsWritten(more, m, v, y)
    BY <1>8, <1>9, <2>1, Written
  <2>. QED
    BY <2>2 DEF IsWritten
<1>12. Carried(x, y)
  BY <1>2, <1>11 DEF Carried
<1>13. \A i \in DOMAIN x.path : Read(y, i) = Read(x, i)
  BY <1>4, <1>7, <1>11
<1>. QED
  BY <1>2, <1>11, <1>12, <1>13 DEF y, m, node, IsAdded

-----------------------------------------------------------------------------
(* Loops.  A fold over a sequence is a recursive function on sets of its    *)
(* indices; that there is one is shown here for all loops at once.          *)

(* A non-empty set of naturals has a least element.                         *)
LEMMA LeastNatural ==
  ASSUME NEW I \in SUBSET Nat, I # {}
  PROVE  \E i \in I : \A j \in I : i <= j
<1>. DEFINE R == {ss \in Nat \X Nat : ss[1] < ss[2]}
<1>1. IsWellFoundedOn(R, Nat)
  BY NatLessThanWellFounded, Zenon DEF OpToRel
<1>2. PICK i \in I : \A j \in I : ~ (<<j, i>> \in R)
  <2>. HIDE DEF R
  <2>. QED  BY <1>1, WFMin
<1>3. ASSUME NEW j \in I
      PROVE  i <= j
  <2>1. <<j, i>> \notin R /\ j \in Nat /\ i \in Nat
    BY <1>2
  <2>2. ~ (j < i)
    BY <2>1, Zenon DEF R
  <2>. QED
    BY <2>1, <2>2
<1>. QED
  BY <1>3

(* A set of indices that is not empty has a last one.                       *)
LEMMA LastIndex ==
  ASSUME NEW n \in Nat, NEW s \in SUBSET (1..n), s # {}
  PROVE  Max(s) \in s /\ \A i \in s : i <= Max(s)
<1>. DEFINE I == {m \in Nat : \A i \in s : i <= m}
<1>1. n \in I
  OBVIOUS
<1>2. PICK m \in I : \A k \in I : m <= k
  BY <1>1, LeastNatural
<1>3. m \in s
  <2>. SUFFICES ASSUME m \notin s PROVE FALSE
    OBVIOUS
  <2>1. m # 0
    <3>1. PICK i \in s : TRUE
      OBVIOUS
    <3>2. i \in Nat /\ 1 <= i /\ i <= m
      BY <1>2
    <3>. QED
      BY <3>2
  <2>2. m - 1 \in Nat /\ \A i \in s : i <= m - 1
    BY <1>2, <2>1
  <2>3. m - 1 \in I
    BY <2>2
  <2>. QED
    BY <1>2, <2>3
<1>4. \A i \in s : m >= i
  BY <1>2
<1>. QED
  BY <1>2, <1>3, <1>4 DEF Max

(* What a loop does at its i-th step: over from x, with what else it needs. *)
Step(loop, from, a, jitted, x, i) ==
  CASE loop = "AddAgain" ->
         AddAndWrite(x, KindAgain(from.path[a + i], Read(from, a + i)), from.path[a + i].name,
                     Read(from, a + i), jitted)
    [] loop = "CopyAttrs" ->
         IF from.path[i].kind \in Types
         THEN SetInstanceVar(x, from.path[i].name, Read(from, i), jitted) ELSE x
    [] loop = "CopyConstraintVars" ->
         IF from.path[i].kind = "cvar"
         THEN SetOther(x, "cvar", from.path[i].name, Read(from, i), jitted) ELSE x
    [] loop = "Infect" ->
         IF IsSet(from, a[i]) THEN SetOther(x, "flag", a[i], TRUE, jitted) ELSE x
    [] loop = "ChangeClass" -> GetTransition(x, a, SubSeq(from.path, 1, i))
Runs(g, loop, from, a, jitted, base, n) ==
  g = [s \in SUBSET (1..n) |->
         IF s = {} THEN base ELSE Step(loop, from, a, jitted, g[s \ {Max(s)}], Max(s))]

LEMMA LoopRuns ==
  ASSUME NEW loop, NEW from, NEW a, NEW jitted, NEW base, NEW n \in Nat
  PROVE  \E g : Runs(g, loop, from, a, jitted, base, n)
<1>. DEFINE P(k) == \E g : Runs(g, loop, from, a, jitted, base, k)
            I == {k \in Nat : ~P(k)}
<1>1. P(0)
  <2>. DEFINE g == [s \in SUBSET (1..0) |-> base]
  <2>1. \A s \in SUBSET (1..0) : s = {}
    OBVIOUS
  <2>2. g = [s \in SUBSET (1..0) |->
               IF s = {} THEN base ELSE Step(loop, from, a, jitted, g[s \ {Max(s)}], Max(s))]
    BY <2>1
  <2>. QED
    BY <2>2 DEF Runs
<1>2. ASSUME NEW k \in Nat, P(k)
      PROVE  P(k + 1)
  <2>1. PICK f : Runs(f, loop, from, a, jitted, base, k)
    BY <1>2
  <2>. DEFINE g == [s \in SUBSET (1..(k + 1)) |->
                      IF s = {} THEN base
                      ELSE Step(loop, from, a, jitted, f[s \ {Max(s)}], Max(s))]
  <2>2. ASSUME NEW s \in SUBSET (1..(k + 1)), s # {}
        PROVE  g[s \ {Max(s)}] = f[s \ {Max(s)}]
    <3>. DEFINE r == s \ {Max(s)}
    <3>1. Max(s) \in s /\ \A i \in s : i <= Max(s)
      <4>1. k + 1 \in Nat
        OBVIOUS
      <4>. QED
        BY <2>2, <4>1, LastIndex
    <3>2. r \in SUBSET (1..k)
      <4>1. ASSUME NEW i \in r
            PROVE  i \in 1..k
        <5>1. i \in 1..(k + 1) /\ Max(s) \in 1..(k + 1) /\ i <= Max(s) /\ i # Max(s)
          BY <3>1
        <5>. QED
          BY <5>1
      <4>. QED
        BY <4>1
    <3>3. r \in SUBSET (1..(k + 1))
      OBVIOUS
    <3>. HIDE DEF r
    <3>4. f[r] = IF r = {} THEN base ELSE Step(loop, from, a, jitted, f[r \ {Max(r)}], Max(r))
      BY <2>1, <3>2 DEF Runs
    <3>5. g[r] = f[r]
      BY <3>3, <3>4
    <3>. QED
      BY <3>5 DEF r
  <2>3. g = [s \in SUBSET (1..(k + 1)) |->
               IF s = {} THEN base ELSE Step(loop, from, a, jitted, g[s \ {Max(s)}], Max(s))]
    BY <2>2
  <2>. QED
    BY <2>3 DEF Runs
<1>. HIDE DEF P
<1>3. I = {}
  <2>. SUFFICES ASSUME I # {} PROVE FALSE
    OBVIOUS
  <2>1. PICK k \in I : \A i \in I : k <= i
    BY LeastNatural
  <2>2. k \in Nat \ {0}
    BY <1>1
  <2>3. k - 1 \in Nat /\ k - 1 \notin I
    BY <2>1, <2>2
  <2>. QED
    BY <1>2, <2>2, <2>3
<1>. QED
  BY <1>3 DEF P

(* The states a loop goes through.                                          *)
Passes(A, loop, from, a, jitted, base, n) ==
  A[0] = base /\ \A k \in 1..n : A[k] = Step(loop, from, a, jitted, A[k - 1], k)

LEMMA LoopPasses ==
  ASSUME NEW loop, NEW from, NEW a, NEW jitted, NEW base, NEW n \in Nat,
         NEW g, Runs(g, loop, from, a, jitted, base, n)
  PROVE  \E A : Passes(A, loop, from, a, jitted, base, n) /\ A[n] = g[1..n]
<1>. DEFINE A == [k \in 0..n |-> g[1..k]]
<1>1. A[0] = base
  <2>1. 1..0 = {}
    OBVIOUS
  <2>. QED
    BY <2>1 DEF Runs
<1>2. ASSUME NEW k \in 1..n
      PROVE  A[k] = Step(loop, from, a, jitted, A[k - 1], k)
  <2>1. 1..k \in SUBSET (1..n) /\ 1..k # {} /\ k \in 1..k
    OBVIOUS
  <2>2. Max(1..k) = k
    <3>1. Max(1..k) \in 1..k /\ \A i \in 1..k : i <= Max(1..k)
      BY <2>1, LastIndex
    <3>2. k \in Nat /\ Max(1..k) \in Nat /\ Max(1..k) <= k /\ k <= Max(1..k)
      BY <2>1, <3>1
    <3>. QED
      BY <3>2
  <2>3. (1..k) \ {k} = 1..(k - 1)
    OBVIOUS
  <2>4. g[1..k] = Step(loop, from, a, jitted, g[1..(k - 1)], k)
    BY <2>1, <2>2, <2>3 DEF Runs
  <2>5. k \in 0..n /\ k - 1 \in 0..n
    OBVIOUS
  <2>. QED
    BY <2>4, <2>5
<1>3. A[n] = g[1..n]
  OBVIOUS
<1>. HIDE DEF A
<1>4. Passes(A, loop, from, a, jitted, base, n)
  BY <1>1, <1>2 DEF Passes
<1>. QED
  BY <1>3, <1>4

LEMMA AddAgainPasses ==
  ASSUME NEW obj, NEW bottom, NEW above, NEW jitted, Len(obj.path) - above \in Nat
  PROVE  \E A : /\ Passes(A, "AddAgain", obj, above, jitted, [obj EXCEPT !.path = SubSeq(@, 1, bottom)], Len(obj.path) - above)
              /\ AddAgain(obj, bottom, above, jitted) = A[Len(obj.path) - above]
<1>. DEFINE m == Len(obj.path) - above
            base == [obj EXCEPT !.path = SubSeq(@, 1, bottom)]
            seq == [k \in 1..Len(obj.path) - above |-> above + k]
            solves(iter) ==
              iter = [s \in SUBSET DOMAIN seq |->
                        IF s = {} THEN base
                        ELSE AddAndWrite(iter[s \ {Max(s)}], KindAgain(obj.path[seq[Max(s)]], Read(obj, seq[Max(s)])),
                             obj.path[seq[Max(s)]].name, Read(obj, seq[Max(s)]), jitted)]
            g == CHOOSE iter : solves(iter)
            result == g[DOMAIN seq]
<1>1. AddAgain(obj, bottom, above, jitted) = result
  BY DEF AddAgain, FoldLeft, MapThenFoldSet
<1>2. DOMAIN seq = 1..m /\ m \in Nat
  OBVIOUS
<1>3. ASSUME NEW s \in SUBSET (1..m), s # {}
      PROVE  Max(s) \in DOMAIN seq
  BY <1>2, <1>3, LastIndex
<1>4. ASSUME NEW f
      PROVE  solves(f) <=> Runs(f, "AddAgain", obj, above, jitted, base, m)
  BY <1>2, <1>3 DEF Runs, Step
<1>. HIDE DEF solves, m, base
<1>5. solves(g)
  BY <1>2, <1>4, LoopRuns
<1>6. Runs(g, "AddAgain", obj, above, jitted, base, m)
  BY <1>4, <1>5
<1>. HIDE DEF g, seq
<1>7. \E A : Passes(A, "AddAgain", obj, above, jitted, base, m) /\ A[m] = g[1..m]
  BY <1>2, <1>6, LoopPasses
<1>8. result = g[1..m]
  BY <1>2
<1>. HIDE DEF result
<1>. QED
  BY <1>1, <1>7, <1>8 DEF m, base

LEMMA CopyAttrsPasses ==
  ASSUME NEW from, NEW to, NEW jitted, from.path \in Seq(Nodes)
  PROVE  \E A : /\ Passes(A, "CopyAttrs", from, 0, jitted, to, Len(from.path))
              /\ CopyAttrs(from, to, jitted) = A[Len(from.path)]
<1>. DEFINE m == Len(from.path)
            base == to
            seq == [i \in DOMAIN from.path |-> i]
            solves(iter) ==
              iter = [s \in SUBSET DOMAIN seq |->
                        IF s = {} THEN base
                        ELSE IF from.path[seq[Max(s)]].kind \in Types
                             THEN SetInstanceVar(iter[s \ {Max(s)}], from.path[seq[Max(s)]].name,
                                                 Read(from, seq[Max(s)]), jitted)
                             ELSE iter[s \ {Max(s)}]]
            g == CHOOSE iter : solves(iter)
            result == g[DOMAIN seq]
<1>1. CopyAttrs(from, to, jitted) = result
  BY DEF CopyAttrs, FoldLeft, MapThenFoldSet
<1>2. DOMAIN seq = 1..m /\ m \in Nat
  OBVIOUS
<1>3. ASSUME NEW s \in SUBSET (1..m), s # {}
      PROVE  Max(s) \in DOMAIN seq
  BY <1>2, <1>3, LastIndex
<1>4. ASSUME NEW f
      PROVE  solves(f) <=> Runs(f, "CopyAttrs", from, 0, jitted, base, m)
  BY <1>2, <1>3 DEF Runs, Step
<1>. HIDE DEF solves, m, base
<1>5. solves(g)
  BY <1>2, <1>4, LoopRuns
<1>6. Runs(g, "CopyAttrs", from, 0, jitted, base, m)
  BY <1>4, <1>5
<1>. HIDE DEF g, seq
<1>7. \E A : Passes(A, "CopyAttrs", from, 0, jitted, base, m) /\ A[m] = g[1..m]
  BY <1>2, <1>6, LoopPasses
<1>8. result = g[1..m]
  BY <1>2
<1>. HIDE DEF result
<1>. QED
  BY <1>1, <1>7, <1>8 DEF m, base

LEMMA CopyConstraintVarsPasses ==
  ASSUME NEW from, NEW to, NEW jitted, from.path \in Seq(Nodes)
  PROVE  \E A : /\ Passes(A, "CopyConstraintVars", from, 0, jitted, to, Len(from.path))
              /\ CopyConstraintVars(from, to, jitted) = A[Len(from.path)]
<1>. DEFINE m == Len(from.path)
            base == to
            seq == [i \in DOMAIN from.path |-> i]
            solves(iter) ==
              iter = [s \in SUBSET DOMAIN seq |->
                        IF s = {} THEN base
                        ELSE IF from.path[seq[Max(s)]].kind = "cvar"
                             THEN SetOther(iter[s \ {Max(s)}], "cvar", from.path[seq[Max(s)]].name,
                                           Read(from, seq[Max(s)]), jitted)
                             ELSE iter[s \ {Max(s)}]]
            g == CHOOSE iter : solves(iter)
            result == g[DOMAIN seq]
<1>1. CopyConstraintVars(from, to, jitted) = result
  BY DEF CopyConstraintVars, FoldLeft, MapThenFoldSet
<1>2. DOMAIN seq = 1..m /\ m \in Nat
  OBVIOUS
<1>3. ASSUME NEW s \in SUBSET (1..m), s # {}
      PROVE  Max(s) \in DOMAIN seq
  BY <1>2, <1>3, LastIndex
<1>4. ASSUME NEW f
      PROVE  solves(f) <=> Runs(f, "CopyConstraintVars", from, 0, jitted, base, m)
  BY <1>2, <1>3 DEF Runs, Step
<1>. HIDE DEF solves, m, base
<1>5. solves(g)
  BY <1>2, <1>4, LoopRuns
<1>6. Runs(g, "CopyConstraintVars", from, 0, jitted, base, m)
  BY <1>4, <1>5
<1>. HIDE DEF g, seq
<1>7. \E A : Passes(A, "CopyConstraintVars", from, 0, jitted, base, m) /\ A[m] = g[1..m]
  BY <1>2, <1>6, LoopPasses
<1>8. result = g[1..m]
  BY <1>2
<1>. HIDE DEF result
<1>. QED
  BY <1>1, <1>7, <1>8 DEF m, base

LEMMA InfectPasses ==
  ASSUME NEW from, NEW to, NEW fs, NEW jitted, Len(SetToSeq(fs)) \in Nat, DOMAIN SetToSeq(fs) = 1..Len(SetToSeq(fs))
  PROVE  \E A : /\ Passes(A, "Infect", from, SetToSeq(fs), jitted, to, Len(SetToSeq(fs)))
              /\ Infect(from, to, fs, jitted) = A[Len(SetToSeq(fs))]
<1>. DEFINE m == Len(SetToSeq(fs))
            base == to
            seq == SetToSeq(fs)
            solves(iter) ==
              iter = [s \in SUBSET DOMAIN seq |->
                        IF s = {} THEN base
                        ELSE IF IsSet(from, seq[Max(s)])
                             THEN SetOther(iter[s \ {Max(s)}], "flag", seq[Max(s)], TRUE, jitted)
                             ELSE iter[s \ {Max(s)}]]
            g == CHOOSE iter : solves(iter)
            result == g[DOMAIN seq]
<1>1. Infect(from, to, fs, jitted) = result
  BY DEF Infect, FoldLeft, MapThenFoldSet
<1>2. DOMAIN seq = 1..m /\ m \in Nat
  OBVIOUS
<1>3. ASSUME NEW s \in SUBSET (1..m), s # {}
      PROVE  Max(s) \in DOMAIN seq
  BY <1>2, <1>3, LastIndex
<1>4. ASSUME NEW f
      PROVE  solves(f) <=> Runs(f, "Infect", from, SetToSeq(fs), jitted, base, m)
  BY <1>2, <1>3 DEF Runs, Step
<1>. HIDE DEF solves, m, base
<1>5. solves(g)
  BY <1>2, <1>4, LoopRuns
<1>6. Runs(g, "Infect", from, SetToSeq(fs), jitted, base, m)
  BY <1>4, <1>5
<1>. HIDE DEF g, seq
<1>7. \E A : Passes(A, "Infect", from, SetToSeq(fs), jitted, base, m) /\ A[m] = g[1..m]
  BY <1>2, <1>6, LoopPasses
<1>8. result = g[1..m]
  BY <1>2
<1>. HIDE DEF result
<1>. QED
  BY <1>1, <1>7, <1>8 DEF m, base

LEMMA ChangeClassPasses ==
  ASSUME NEW obj, NEW c, obj.path \in Seq(Nodes)
  PROVE  \E A : /\ Passes(A, "ChangeClass", obj, c, 0, GetClassNode(obj.est, c), Len(obj.path))
              /\ ChangeClass(obj, c) = [obj EXCEPT !.cls = c, !.est = A[Len(obj.path)]]
<1>. DEFINE m == Len(obj.path)
            base == GetClassNode(obj.est, c)
            seq == [i \in DOMAIN obj.path |-> i]
            solves(iter) ==
              iter = [s \in SUBSET DOMAIN seq |->
                        IF s = {} THEN base
                        ELSE GetTransition(iter[s \ {Max(s)}], c, SubSeq(obj.path, 1, seq[Max(s)]))]
            g == CHOOSE iter : solves(iter)
            result == g[DOMAIN seq]
<1>1. ChangeClass(obj, c) = [obj EXCEPT !.cls = c, !.est = result]
  BY DEF ChangeClass, FoldLeft, MapThenFoldSet
<1>2. DOMAIN seq = 1..m /\ m \in Nat
  OBVIOUS
<1>3. ASSUME NEW s \in SUBSET (1..m), s # {}
      PROVE  Max(s) \in DOMAIN seq
  BY <1>2, <1>3, LastIndex
<1>4. ASSUME NEW f
      PROVE  solves(f) <=> Runs(f, "ChangeClass", obj, c, 0, base, m)
  BY <1>2, <1>3 DEF Runs, Step
<1>. HIDE DEF solves, m, base
<1>5. solves(g)
  BY <1>2, <1>4, LoopRuns
<1>6. Runs(g, "ChangeClass", obj, c, 0, base, m)
  BY <1>4, <1>5
<1>. HIDE DEF g, seq
<1>7. \E A : Passes(A, "ChangeClass", obj, c, 0, base, m) /\ A[m] = g[1..m]
  BY <1>2, <1>6, LoopPasses
<1>8. result = g[1..m]
  BY <1>2
<1>. HIDE DEF result
<1>. QED
  BY <1>1, <1>7, <1>8 DEF m, base

-----------------------------------------------------------------------------
(* What an object holds under its names, wherever it is stored.             *)

Holds(x, key, v) == \E i \in DOMAIN x.path : Key(x.path[i]) = key /\ Read(x, i) = v
Puts(x, key, v, y) ==
  /\ Sane(y) /\ Carried(x, y)
  /\ \A k, w : Holds(y, k, w) <=> IF k = key THEN w = v ELSE Holds(x, k, w)

LEMMA PathTyped ==
  ASSUME NEW x, Sane(x)
  PROVE  /\ x \in Things /\ x.path \in Seq(Nodes) /\ Len(x.path) \in Nat
         /\ DOMAIN x.path = 1..Len(x.path) /\ x.cls \in Classes
         /\ \A i \in DOMAIN x.path : x.path[i] \in Nodes
BY DEF Sane, Things

(* A name is held once.                                                     *)
LEMMA HeldOnce ==
  ASSUME NEW x, Sane(x), NEW i \in DOMAIN x.path, NEW w
  PROVE  Holds(x, Key(x.path[i]), w) <=> w = Read(x, i)
BY DEF Sane, Unique, Holds

LEMMA AbsentHoldsNone ==
  ASSUME NEW x, NEW key
  PROVE  Absent(x, key) <=> \A w : ~Holds(x, key, w)
BY DEF Absent, Holds

LEMMA WritePuts ==
  ASSUME NEW x, Sane(x), NEW i \in DOMAIN x.path, NEW v, Belongs(x.path[i], v)
  PROVE  Puts(x, Key(x.path[i]), v, Write(x, i, v))
<1>. DEFINE y == Write(x, i, v)
<1>1. Writable(x, i)
  BY DEF Sane, Placed, Writable
<1>2. IsWritten(x, i, v, y)
  BY <1>1, Written
<1>. HIDE DEF y
<1>3. ASSUME NEW k, NEW w
      PROVE  Holds(y, k, w) <=> IF k = Key(x.path[i]) THEN w = v ELSE Holds(x, k, w)
  <2>1. Unique(x.path)
    BY DEF Sane
  <2>2. CASE k = Key(x.path[i])
    <3>1. Holds(y, k, w) <=> \E j \in DOMAIN x.path : Key(x.path[j]) = Key(x.path[i]) /\ Read(y, j) = w
      BY <1>2, <2>2 DEF Holds, IsWritten
    <3>. QED
      BY <1>2, <2>1, <2>2, <3>1 DEF IsWritten, Unique
  <2>3. CASE k # Key(x.path[i])
    BY <1>2, <2>3 DEF Holds, IsWritten
  <2>. QED
    BY <2>2, <2>3
<1>. QED
  BY <1>2, <1>3 DEF Puts, IsWritten, y

LEMMA AddPuts ==
  ASSUME NEW x, Sane(x), NEW kind, NEW n, NEW v, NEW jitted,
         Node(kind, n) \in Nodes, Belongs(Node(kind, n), v), Absent(x, Key(Node(kind, n)))
  PROVE  Puts(x, Key(Node(kind, n)), v, AddAndWrite(x, kind, n, v, jitted))
<1>. DEFINE y == AddAndWrite(x, kind, n, v, jitted)
            node == Node(kind, n)
            m == Len(x.path) + 1
<1>1. IsAdded(x, node, v, y)
  BY AddedWritten
<1>. HIDE DEF y, node
<1>2. node \in Nodes /\ Absent(x, Key(node))
  BY DEF node
<1>3. /\ y.path = Append(x.path, node) /\ Read(y, m) = v
      /\ \A i \in DOMAIN x.path : Read(y, i) = Read(x, i)
  BY <1>1 DEF IsAdded
<1>4. /\ DOMAIN y.path = DOMAIN x.path \cup {m} /\ y.path[m] = node
      /\ \A i \in DOMAIN x.path : y.path[i] = x.path[i]
  BY <1>2, <1>3, PathTyped, Appended
<1>. HIDE DEF m
<1>5. ASSUME NEW k, NEW w
      PROVE  Holds(y, k, w) <=> IF k = Key(node) THEN w = v ELSE Holds(x, k, w)
  <2>1. Holds(y, k, w) <=> (Key(node) = k /\ v = w) \/ Holds(x, k, w)
    BY <1>3, <1>4 DEF Holds
  <2>2. ~Holds(x, Key(node), w)
    BY <1>2, AbsentHoldsNone
  <2>. QED
    BY <2>1, <2>2
<1>. QED
  BY <1>1, <1>5 DEF Puts, IsAdded, y, node

(* find.                                                                    *)
LEMMA FindIs ==
  ASSUME NEW path \in Seq(Nodes), NEW kinds, NEW n
  PROVE  \/ /\ Find(path, kinds, n) = 0
            /\ \A i \in DOMAIN path : ~(path[i].kind \in kinds /\ path[i].name = n)
         \/ /\ Find(path, kinds, n) \in DOMAIN path /\ Find(path, kinds, n) # 0
            /\ path[Find(path, kinds, n)].kind \in kinds
            /\ path[Find(path, kinds, n)].name = n
<1>. DEFINE I == {i \in DOMAIN path : path[i].kind \in kinds /\ path[i].name = n}
<1>1. I # {} => Find(path, kinds, n) \in I
  BY DEF Find
<1>2. I = {} => Find(path, kinds, n) = 0
  BY DEF Find
<1>3. 0 \notin DOMAIN path
  OBVIOUS
<1>. QED
  BY <1>1, <1>2, <1>3

(* The kinds that stand for one family.                                     *)
KindsOf(family) == IF family = "attribute" THEN Types ELSE {family}
Families == {"attribute", "flag", "cvar"}

LEMMA FindKey ==
  ASSUME NEW x, Sane(x), NEW family \in Families, NEW n
  PROVE  \/ Find(x.path, KindsOf(family), n) = 0 /\ Absent(x, <<family, n>>)
         \/ /\ Find(x.path, KindsOf(family), n) \in DOMAIN x.path
            /\ Find(x.path, KindsOf(family), n) # 0
            /\ x.path[Find(x.path, KindsOf(family), n)].kind \in KindsOf(family)
            /\ x.path[Find(x.path, KindsOf(family), n)].name = n
            /\ Key(x.path[Find(x.path, KindsOf(family), n)]) = <<family, n>>
<1>. DEFINE i == Find(x.path, KindsOf(family), n)
<1>1. x.path \in Seq(Nodes) /\ \A j \in DOMAIN x.path : x.path[j] \in Nodes
  BY PathTyped
<1>2. ASSUME NEW node \in Nodes
      PROVE  Key(node) = <<family, n>> <=> node.kind \in KindsOf(family) /\ node.name = n
  BY DEF Nodes, Key, Family, KindsOf, Families, Types
<1>3. \/ i = 0 /\ \A j \in DOMAIN x.path : ~(x.path[j].kind \in KindsOf(family) /\ x.path[j].name = n)
      \/ i \in DOMAIN x.path /\ i # 0 /\ x.path[i].kind \in KindsOf(family) /\ x.path[i].name = n
  BY <1>1, FindIs
<1>. HIDE DEF i
<1>. QED
  BY <1>1, <1>2, <1>3 DEF Absent, i

LEMMA AbsentFind ==
  ASSUME NEW x, Sane(x), NEW family \in Families, NEW n, Absent(x, <<family, n>>)
  PROVE  Find(x.path, KindsOf(family), n) = 0
BY FindKey DEF Absent

(* A loop that puts values under different names, each time or not at all.  *)
Putting(A, n, I, K, V) ==
  /\ I \subseteq 1..n /\ Sane(A[0])
  /\ \A i, j \in I : K[i] = K[j] => i = j
  /\ \A i \in (1..n) \ I : A[i] = A[i - 1]
  /\ \A i \in I :
       /\ Sane(A[i - 1])
       /\ \A k, w : Holds(A[i - 1], k, w) => Holds(A[0], k, w) \/ \E j \in I : j < i /\ K[j] = k
       => Puts(A[i - 1], K[i], V[i], A[i])
HasPut(A, n, I, K, V) ==
  /\ Sane(A[n]) /\ Carried(A[0], A[n])
  /\ \A k, w : Holds(A[n], k, w) <=>
       \/ \E i \in I : K[i] = k /\ V[i] = w
       \/ (\A i \in I : K[i] # k) /\ Holds(A[0], k, w)

LEMMA LoopPuts ==
  ASSUME NEW A, NEW n \in Nat, NEW I, NEW K, NEW V, Putting(A, n, I, K, V)
  PROVE  HasPut(A, n, I, K, V)
<1>0. /\ I \in SUBSET (1..n) /\ Sane(A[0])
      /\ \A i, j \in I : K[i] = K[j] => i = j
      /\ \A i \in (1..n) \ I : A[i] = A[i - 1]
      /\ \A i \in I :
           /\ Sane(A[i - 1])
           /\ \A k, w : Holds(A[i - 1], k, w)
                         => Holds(A[0], k, w) \/ \E j \in I : j < i /\ K[j] = k
           => Puts(A[i - 1], K[i], V[i], A[i])
  BY DEF Putting
<1>. DEFINE P(m) ==
              /\ Sane(A[m]) /\ Carried(A[0], A[m])
              /\ \A k, w : Holds(A[m], k, w) <=>
                   \/ \E i \in I : i <= m /\ K[i] = k /\ V[i] = w
                   \/ (\A i \in I : i <= m => K[i] # k) /\ Holds(A[0], k, w)
            M == {m \in 0..n : ~P(m)}
<1>1. P(0)
  <2>1. \A i \in I : ~(i <= 0)
    BY <1>0
  <2>. QED
    BY <1>0, <2>1 DEF Carried
<1>2. ASSUME NEW m \in 1..n, P(m - 1)
      PROVE  P(m)
  <2>1. \A i \in I : (i <= m <=> i <= m - 1 \/ i = m) /\ (i <= m - 1 <=> i < m)
    BY <1>0
  <2>2. CASE m \notin I
    <3>1. A[m] = A[m - 1]
      BY <1>0, <2>2
    <3>2. \A i \in I : i <= m <=> i <= m - 1
      BY <2>1, <2>2
    <3>. QED
      BY <1>2, <3>1, <3>2
  <2>3. CASE m \in I
    <3>1. \A k, w : Holds(A[m - 1], k, w)
                       => Holds(A[0], k, w) \/ \E j \in I : j < m /\ K[j] = k
      BY <1>2, <2>1
    <3>2. Puts(A[m - 1], K[m], V[m], A[m])
      BY <1>0, <1>2, <2>3, <3>1
    <3>3. Sane(A[m]) /\ Carried(A[0], A[m])
      BY <1>2, <3>2 DEF Puts, Carried
    <3>4. ASSUME NEW k, NEW w
          PROVE  Holds(A[m], k, w) <=>
                   \/ \E i \in I : i <= m /\ K[i] = k /\ V[i] = w
                   \/ (\A i \in I : i <= m => K[i] # k) /\ Holds(A[0], k, w)
      <4>1. Holds(A[m], k, w) <=> IF k = K[m] THEN w = V[m] ELSE Holds(A[m - 1], k, w)
        BY <3>2 DEF Puts
      <4>2. CASE k = K[m]
        <5>1. (\E i \in I : i <= m /\ K[i] = k /\ V[i] = w) <=> V[m] = w
          BY <1>0, <2>1, <2>3, <4>2
        <5>2. ~(\A i \in I : i <= m => K[i] # k)
          BY <1>0, <2>1, <2>3, <4>2
        <5>. QED
          BY <4>1, <4>2, <5>1, <5>2
      <4>3. CASE k # K[m]
        <5>1. (\E i \in I : i <= m /\ K[i] = k /\ V[i] = w)
                <=> (\E i \in I : i <= m - 1 /\ K[i] = k /\ V[i] = w)
          BY <1>0, <2>1, <4>3
        <5>2. (\A i \in I : i <= m => K[i] # k) <=> (\A i \in I : i <= m - 1 => K[i] # k)
          BY <1>0, <2>1, <4>3
        <5>. QED
          BY <1>2, <4>1, <4>3, <5>1, <5>2
      <4>. QED
        BY <4>2, <4>3
    <3>. QED
      BY <3>3, <3>4
  <2>. QED
    BY <2>2, <2>3
<1>. HIDE DEF P
<1>3. M = {}
  <2>. SUFFICES ASSUME M # {} PROVE FALSE
    OBVIOUS
  <2>1. PICK m \in M : \A i \in M : m <= i
    <3>1. M \in SUBSET Nat
      OBVIOUS
    <3>. QED
      BY <3>1, LeastNatural
  <2>2. m \in 1..n
    BY <1>1
  <2>3. m - 1 \in 0..n /\ m - 1 \notin M
    BY <2>1, <2>2
  <2>. QED
    BY <1>2, <2>2, <2>3
<1>4. P(n)
  BY <1>3
<1>5. \A i \in I : i <= n
  BY <1>0
<1>. QED
  BY <1>4, <1>5 DEF P, HasPut

-----------------------------------------------------------------------------
(* Prefixes of a path: remove_attr starts from one, change_class visits all.*)

LEMMA PrefixIs ==
  ASSUME NEW path \in Seq(Nodes), NEW k \in 0..Len(path)
  PROVE  /\ SubSeq(path, 1, k) \in Seq(Nodes) /\ Len(SubSeq(path, 1, k)) = k
         /\ DOMAIN SubSeq(path, 1, k) = 1..k
         /\ \A i \in 1..k : SubSeq(path, 1, k)[i] = path[i]
<1>1. Len(path) \in Nat /\ DOMAIN path = 1..Len(path) /\ k \in Nat /\ k <= Len(path)
  OBVIOUS
<1>2. \A i \in 1..k : path[i] \in Nodes
  BY <1>1
<1>3. /\ SubSeq(path, 1, k) \in Seq(Nodes) /\ Len(SubSeq(path, 1, k)) = k
      /\ \A i \in 1..k : SubSeq(path, 1, k)[i] = path[i]
  BY <1>1, <1>2, SubSeqProperties
<1>. QED
  BY <1>3

LEMMA PrefixFront ==
  ASSUME NEW path \in Seq(Nodes), NEW k \in 1..Len(path)
  PROVE  SubSeq(path, 1, k) # <<>> /\ Front(SubSeq(path, 1, k)) = SubSeq(path, 1, k - 1)
<1>. DEFINE p == SubSeq(path, 1, k)
            q == SubSeq(path, 1, k - 1)
<1>1. k \in 0..Len(path) /\ k - 1 \in 0..Len(path) /\ k \in Nat /\ 1 <= k
  OBVIOUS
<1>2. p \in Seq(Nodes) /\ Len(p) = k /\ \A i \in 1..k : p[i] = path[i]
  BY <1>1, PrefixIs
<1>3. /\ q \in Seq(Nodes) /\ Len(q) = k - 1 /\ DOMAIN q = 1..(k - 1)
      /\ \A i \in 1..(k - 1) : q[i] = path[i]
  BY <1>1, PrefixIs
<1>. HIDE DEF p, q
<1>4. p # <<>>
  BY <1>1, <1>2
<1>5. /\ Front(p) \in Seq(Nodes) /\ Len(Front(p)) = k - 1
      /\ \A i \in 1..(k - 1) : Front(p)[i] = p[i]
  BY <1>2, <1>4, FrontLast
<1>6. DOMAIN Front(p) = 1..(k - 1)
  BY <1>1, <1>5
<1>7. \A i \in 1..(k - 1) : Front(p)[i] = q[i]
  BY <1>1, <1>2, <1>3, <1>5
<1>8. Front(p) = q
  BY <1>3, <1>5, <1>6, <1>7
<1>. QED
  BY <1>4, <1>8 DEF p, q

LEMMA WholePath ==
  ASSUME NEW path \in Seq(Nodes)
  PROVE  SubSeq(path, 1, Len(path)) = path
<1>1. Len(path) \in 0..Len(path) /\ DOMAIN path = 1..Len(path)
  OBVIOUS
<1>. DEFINE p == SubSeq(path, 1, Len(path))
<1>2. p \in Seq(Nodes) /\ DOMAIN p = 1..Len(path) /\ \A i \in 1..Len(path) : p[i] = path[i]
  BY <1>1, PrefixIs
<1>. HIDE DEF p
<1>3. p = path
  BY <1>1, <1>2
<1>. QED
  BY <1>3 DEF p

(* The nodes on a path exist.                                               *)
LEMMA PrefixesExist ==
  ASSUME NEW est, IsEstimate(est), NEW c \in Classes, NEW path \in Seq(Nodes),
         <<c, path>> \in DOMAIN est, NEW k \in 0..Len(path)
  PROVE  <<c, SubSeq(path, 1, k)>> \in DOMAIN est
<1>. DEFINE n == Len(path)
            M == {d \in 0..n : <<c, SubSeq(path, 1, n - d)>> \notin DOMAIN est}
<1>0. n \in Nat
  OBVIOUS
<1>. HIDE DEF n
<1>1. 0 \notin M
  <2>1. n - 0 = Len(path)
    BY <1>0 DEF n
  <2>. QED
    BY <2>1, WholePath
<1>2. ASSUME NEW d \in 1..n, d - 1 \notin M
      PROVE  d \notin M
  <2>1. n - (d - 1) \in 1..n /\ (n - (d - 1)) - 1 = n - d /\ n - (d - 1) \in 0..n
    BY <1>0
  <2>2. <<c, SubSeq(path, 1, n - (d - 1))>> \in DOMAIN est
    BY <1>0, <1>2
  <2>3. /\ SubSeq(path, 1, n - (d - 1)) # <<>>
        /\ Front(SubSeq(path, 1, n - (d - 1))) = SubSeq(path, 1, n - d)
    BY <2>1, PrefixFront DEF n
  <2>4. SubSeq(path, 1, n - (d - 1)) \in Seq(Nodes)
    BY <2>1, PrefixIs DEF n
  <2>. QED
    BY <2>2, <2>3, <2>4, EstimateAt
<1>3. M = {}
  <2>. SUFFICES ASSUME M # {} PROVE FALSE
    OBVIOUS
  <2>1. M \in SUBSET (0..n) /\ M \in SUBSET Nat
    BY <1>0
  <2>. HIDE DEF M
  <2>2. PICK d \in M : \A i \in M : d <= i
    BY <2>1, LeastNatural
  <2>3. d \in 1..n
    <3>1. d # 0 /\ d \in 0..n
      BY <1>1, <2>1
    <3>. QED
      BY <1>0, <3>1
  <2>4. d - 1 \notin M
    <3>1. d - 1 \in Nat /\ ~(d <= d - 1)
      BY <1>0, <2>3
    <3>. QED
      BY <2>2, <3>1
  <2>. QED
    BY <1>2, <2>2, <2>3, <2>4
<1>4. n - k \in 0..n /\ n - (n - k) = k
  BY <1>0 DEF n
<1>. QED
  BY <1>3, <1>4

(* What is stored and read depends on the path and the arrays only.         *)
LEMMA SameStored ==
  ASSUME NEW x \in Things, NEW y \in Things, y.path = x.path, y.object = x.object,
         y.unboxed = x.unboxed
  PROVE  /\ \A i \in DOMAIN x.path : Placed(x, i) => Placed(y, i)
         /\ \A i : Read(y, i) = Read(x, i)
         /\ \A k, w : Holds(y, k, w) <=> Holds(x, k, w)
<1>1. \A a \in ArrayNames : y[a] = x[a]
  BY DEF ArrayNames, Things
<1>2. \A i : ArrayAt(y, i) = ArrayAt(x, i) /\ SlotAt(y, i) = SlotAt(x, i) /\ ArrayAt(x, i) \in ArrayNames
  BY ArraysTwo DEF ArrayAt, SlotAt
<1>3. \A i \in DOMAIN x.path : Placed(x, i) => Placed(y, i)
  BY <1>1, <1>2 DEF Placed
<1>4. ASSUME NEW i
      PROVE  Read(y, i) = Read(x, i)
  <2>1. /\ y[ArrayOf(y.path[i].kind)] = x[ArrayOf(x.path[i].kind)]
        /\ Slot(y.path, i) = Slot(x.path, i)
    BY <1>1, <1>2 DEF ArrayAt, SlotAt
  <2>. QED
    BY <2>1 DEF Read
<1>. QED
  BY <1>3, <1>4 DEF Holds

(* The same object after others have moved the tree.                        *)
LEMMA TreeMoved ==
  ASSUME NEW x, Sane(x), NEW est, IsEstimate(est), DOMAIN x.est \subseteq DOMAIN est
  PROVE  /\ Sane([x EXCEPT !.est = est])
         /\ \A k, w : Holds([x EXCEPT !.est = est], k, w) <=> Holds(x, k, w)
<1>. DEFINE y == [x EXCEPT !.est = est]
<1>1. x \in Things /\ <<x.cls, x.path>> \in DOMAIN x.est /\ Unique(x.path)
  BY DEF Sane
<1>2. est \in UNION {[D -> Sizes] : D \in SUBSET Tree}
  BY DEF IsEstimate
<1>3. /\ y \in Things /\ y.path = x.path /\ y.object = x.object /\ y.unboxed = x.unboxed
      /\ y.cls = x.cls /\ y.est = est
  BY <1>1, <1>2 DEF Things
<1>. HIDE DEF y
<1>4. Sane(y)
  BY <1>1, <1>3, SameStored DEF Sane
<1>. QED
  BY <1>1, <1>3, <1>4, SameStored DEF y

(* The start of remove_attr: an object cut back to the bottom of its path.  *)
LEMMA CutBack ==
  ASSUME NEW x, Sane(x), NEW b \in 0..Len(x.path)
  PROVE  LET y == [x EXCEPT !.path = SubSeq(@, 1, b)] IN
         /\ Sane(y) /\ Carried(x, y) /\ DOMAIN y.path = 1..b
         /\ \A i \in 1..b : y.path[i] = x.path[i] /\ Read(y, i) = Read(x, i)
<1>. DEFINE p == SubSeq(x.path, 1, b)
            y == [x EXCEPT !.path = SubSeq(@, 1, b)]
<1>1. /\ x \in Things /\ x.path \in Seq(Nodes) /\ x.cls \in Classes
      /\ DOMAIN x.path = 1..Len(x.path) /\ Len(x.path) \in Nat
  BY PathTyped
<1>2. /\ IsEstimate(x.est) /\ <<x.cls, x.path>> \in DOMAIN x.est /\ Unique(x.path)
      /\ \A i \in DOMAIN x.path : Placed(x, i)
  BY DEF Sane
<1>3. p \in Seq(Nodes) /\ DOMAIN p = 1..b /\ \A i \in 1..b : p[i] = x.path[i]
  BY <1>1, PrefixIs
<1>4. <<x.cls, p>> \in DOMAIN x.est
  BY <1>1, <1>2, PrefixesExist
<1>. HIDE DEF p
<1>5. /\ y \in Things /\ y.path = p /\ y.cls = x.cls /\ y.est = x.est /\ y.failed = x.failed
      /\ \A a \in ArrayNames : y[a] = x[a]
  BY <1>1, <1>3 DEF Things, ArrayNames, p
<1>. HIDE DEF y
<1>6. ASSUME NEW i \in 1..b
      PROVE  i \in DOMAIN x.path /\ Placed(y, i) /\ Read(y, i) = Read(x, i)
  <2>1. i \in Nat /\ 1 <= i /\ i \in DOMAIN x.path /\ \A j \in 1..i : j \in 1..b
    BY <1>1
  <2>2. SlotAt(y, i) = SlotAt(x, i) /\ ArrayAt(y, i) = ArrayAt(x, i) /\ y.path[i] = x.path[i]
    BY <1>3, <1>5, <2>1, SlotOfPrefix DEF SlotAt, ArrayAt
  <2>3. Placed(x, i) /\ ArrayAt(x, i) \in ArrayNames
    BY <1>2, <2>1, ArraysTwo DEF ArrayAt
  <2>4. Placed(y, i) /\ y[ArrayAt(y, i)][SlotAt(y, i)] = x[ArrayAt(x, i)][SlotAt(x, i)]
    BY <1>5, <2>2, <2>3 DEF Placed
  <2>. QED
    BY <2>1, <2>3, <2>4, ReadPlaced
<1>7. Unique(y.path)
  <2>1. \A i \in 1..b : y.path[i] = x.path[i] /\ i \in DOMAIN x.path
    BY <1>3, <1>5, <1>6
  <2>2. DOMAIN y.path = 1..b
    BY <1>3, <1>5
  <2>. QED
    BY <1>2, <2>1, <2>2 DEF Unique
<1>8. Sane(y)
  BY <1>2, <1>3, <1>4, <1>5, <1>6, <1>7 DEF Sane
<1>. QED
  BY <1>3, <1>5, <1>6, <1>8 DEF Carried, y

(* A singleton class brings the nodes of the path with it.                  *)
LEMMA ClassChanged ==
  ASSUME NEW x, Sane(x), NEW c \in Classes
  PROVE  LET y == ChangeClass(x, c) IN
         /\ Sane(y) /\ y.cls = c /\ y.path = x.path /\ y.object = x.object
         /\ y.unboxed = x.unboxed /\ y.failed = x.failed /\ DOMAIN x.est \subseteq DOMAIN y.est
         /\ \A k, w : Holds(y, k, w) <=> Holds(x, k, w)
<1>. DEFINE n == Len(x.path)
            y == ChangeClass(x, c)
<1>1. /\ x \in Things /\ x.path \in Seq(Nodes) /\ n \in Nat /\ IsEstimate(x.est) /\ Unique(x.path)
      /\ \A i \in DOMAIN x.path : Placed(x, i)
  BY PathTyped DEF Sane
<1>2. PICK A : /\ Passes(A, "ChangeClass", x, c, 0, GetClassNode(x.est, c), n)
               /\ y = [x EXCEPT !.cls = c, !.est = A[n]]
  BY <1>1, ChangeClassPasses
<1>3. A[0] = GetClassNode(x.est, c)
  BY <1>2 DEF Passes
<1>4. ASSUME NEW k \in 1..n
      PROVE  A[k] = GetTransition(A[k - 1], c, SubSeq(x.path, 1, k))
  BY <1>2 DEF Passes, Step
<1>. DEFINE P(k) == /\ IsEstimate(A[k]) /\ DOMAIN x.est \subseteq DOMAIN A[k]
                    /\ <<c, SubSeq(x.path, 1, k)>> \in DOMAIN A[k]
            M == {k \in 0..n : ~P(k)}
<1>. HIDE DEF n, y
<1>5. P(0)
  <2>1. SubSeq(x.path, 1, 0) = <<>>
    BY SubSeqEmpty
  <2>2. IsEstimate(A[0])
    BY <1>1, <1>3, ClassNodeGot
  <2>3. DOMAIN A[0] = DOMAIN x.est \cup {<<c, <<>>>>}
    BY <1>3 DEF GetClassNode, NewNode
  <2>. QED
    BY <2>1, <2>2, <2>3
<1>6. ASSUME NEW k \in 1..n, P(k - 1)
      PROVE  P(k)
  <2>. DEFINE p == SubSeq(x.path, 1, k)
  <2>1. p # <<>> /\ Front(p) = SubSeq(x.path, 1, k - 1)
    BY <1>1, PrefixFront DEF n
  <2>2. p \in Seq(Nodes)
    <3>1. k \in 0..n
      BY <1>1
    <3>. QED
      BY <1>1, <3>1, PrefixIs DEF n
  <2>3. A[k] = GetTransition(A[k - 1], c, p)
    BY <1>4
  <2>. HIDE DEF p
  <2>4. IsEstimate(A[k])
    BY <1>6, <2>1, <2>2, <2>3, TransitionGot
  <2>5. DOMAIN A[k] = DOMAIN A[k - 1] \cup {<<c, p>>}
    BY <2>3 DEF GetTransition, NewNode
  <2>. QED
    BY <1>6, <2>4, <2>5 DEF p
<1>. HIDE DEF P
<1>7. M = {}
  <2>. SUFFICES ASSUME M # {} PROVE FALSE
    OBVIOUS
  <2>1. PICK k \in M : \A i \in M : k <= i
    <3>1. M \in SUBSET Nat
      BY <1>1
    <3>. QED
      BY <3>1, LeastNatural
  <2>2. k \in 1..n
    BY <1>1, <1>5
  <2>3. k - 1 \in 0..n /\ k - 1 \notin M
    BY <1>1, <2>1, <2>2
  <2>. QED
    BY <1>6, <2>2, <2>3
<1>8. IsEstimate(A[n]) /\ DOMAIN x.est \subseteq DOMAIN A[n] /\ <<c, x.path>> \in DOMAIN A[n]
  <2>1. P(n)
    BY <1>1, <1>7
  <2>. QED
    BY <1>1, <2>1, WholePath DEF P, n
<1>9. A[n] \in UNION {[D -> Sizes] : D \in SUBSET Tree}
  BY <1>8 DEF IsEstimate
<1>10. /\ y \in Things /\ y.path = x.path /\ y.object = x.object /\ y.unboxed = x.unboxed
       /\ y.cls = c /\ y.est = A[n] /\ y.failed = x.failed
  BY <1>1, <1>2, <1>9 DEF Things
<1>11. Sane(y)
  BY <1>1, <1>8, <1>10, SameStored DEF Sane
<1>12. \A k, w : Holds(y, k, w) <=> Holds(x, k, w)
  BY <1>1, <1>10, SameStored
<1>. QED
  BY <1>8, <1>10, <1>11, <1>12 DEF y

-----------------------------------------------------------------------------
(* The operations.                                                          *)

LEMMA KindAgainFits ==
  ASSUME NEW node \in Nodes, node.kind # "flag", NEW v, Belongs(node, v)
  PROVE  /\ Node(KindAgain(node, v), node.name) \in Nodes
         /\ Belongs(Node(KindAgain(node, v), node.name), v)
         /\ Key(Node(KindAgain(node, v), node.name)) = Key(node)
<1>1. node.kind \in Types \cup {"cvar"} /\ node.name \in Names \cup Flags
  BY DEF Nodes
<1>2. CASE node.kind \in Types
  <2>1. v \in Values /\ node.name \in Names
    BY <1>2 DEF Belongs
  <2>2. KindAgain(node, v) = TypeOf[v] /\ TypeOf[v] \in Types
    BY <1>2, <2>1, MapdictAssumption DEF KindAgain, SelectType, Types
  <2>. QED
    BY <1>1, <1>2, <2>1, <2>2 DEF Node, Nodes, Belongs, Key, Family, Types
<1>3. CASE node.kind = "cvar"
  BY <1>1, <1>3 DEF KindAgain, Node, Nodes, Belongs, Key, Family, Types
<1>. QED
  BY <1>1, <1>2, <1>3

(* remove_attr takes one name away and leaves all others what they hold,    *)
(* though all that lies above moves and may change its type.                *)
LEMMA RemovedAttr ==
  ASSUME NEW x, Sane(x), NEW i \in DOMAIN x.path, ~UnderFlag(x, i), NEW jitted
  PROVE  LET y == RemoveAttr(x, i, jitted) IN
         /\ Sane(y) /\ Carried(x, y)
         /\ \A k, w : Holds(y, k, w) <=> k # Key(x.path[i]) /\ Holds(x, k, w)
<1>. DEFINE n == Len(x.path) - i
            y == RemoveAttr(x, i, jitted)
            cut == [x EXCEPT !.path = SubSeq(@, 1, i - 1)]
            K == [j \in 1..n |-> Key(x.path[i + j])]
            V == [j \in 1..n |-> Read(x, i + j)]
<1>1. /\ x \in Things /\ x.path \in Seq(Nodes) /\ n \in Nat /\ i \in Nat /\ 1 <= i
      /\ DOMAIN x.path = 1..Len(x.path) /\ i - 1 \in 0..Len(x.path) /\ Len(x.path) = i + n
      /\ Unique(x.path) /\ \A m \in DOMAIN x.path : x.path[m] \in Nodes /\ Placed(x, m)
  <2>1. /\ x \in Things /\ x.path \in Seq(Nodes) /\ Len(x.path) \in Nat
        /\ DOMAIN x.path = 1..Len(x.path) /\ \A m \in DOMAIN x.path : x.path[m] \in Nodes
    BY PathTyped
  <2>2. Unique(x.path) /\ \A m \in DOMAIN x.path : Placed(x, m)
    BY DEF Sane
  <2>3. i \in 1..Len(x.path)
    BY <2>1
  <2>4. n \in Nat /\ i \in Nat /\ 1 <= i /\ i - 1 \in 0..Len(x.path) /\ Len(x.path) = i + n
    BY <2>1, <2>3
  <2>. QED
    BY <2>1, <2>2, <2>4
<1>2. PICK A : Passes(A, "AddAgain", x, i, jitted, cut, n) /\ y = A[n]
  BY <1>1, AddAgainPasses DEF RemoveAttr
<1>3. /\ Sane(cut) /\ Carried(x, cut) /\ DOMAIN cut.path = 1..(i - 1)
      /\ \A m \in 1..(i - 1) : cut.path[m] = x.path[m] /\ Read(cut, m) = Read(x, m)
  BY <1>1, CutBack
<1>. HIDE DEF cut, y
<1>4. A[0] = cut
  BY <1>2 DEF Passes
<1>5. ASSUME NEW j \in 1..n
      PROVE  A[j] = AddAndWrite(A[j - 1], KindAgain(x.path[i + j], Read(x, i + j)),
                                x.path[i + j].name, Read(x, i + j), jitted)
  BY <1>2, <1>5 DEF Passes, Step
<1>. HIDE DEF n
<1>6. \A j \in 1..n : i + j \in DOMAIN x.path /\ i + j # i /\ i + j > i
  BY <1>1
<1>7. \A j, m \in 1..n : K[j] = K[m] => j = m
  <2>. SUFFICES ASSUME NEW j \in 1..n, NEW m \in 1..n, K[j] = K[m] PROVE j = m
    OBVIOUS
  <2>1. i + j = i + m
    BY <1>1, <1>6 DEF Unique
  <2>. QED
    BY <1>1, <2>1
<1>8. ASSUME NEW j \in 1..n, Sane(A[j - 1]),
             \A k, w : Holds(A[j - 1], k, w)
                         => Holds(A[0], k, w) \/ \E m \in 1..n : m < j /\ K[m] = k
      PROVE  Puts(A[j - 1], K[j], V[j], A[j])
  <2>. DEFINE node == x.path[i + j]
              v == Read(x, i + j)
  <2>1. node \in Nodes /\ Belongs(node, v) /\ node.kind # "flag"
    BY <1>1, <1>6, ReadPlaced DEF UnderFlag
  <2>. DEFINE new == Node(KindAgain(node, v), node.name)
  <2>. HIDE DEF node, v
  <2>2. new \in Nodes /\ Belongs(new, v) /\ Key(new) = Key(node)
    BY <2>1, KindAgainFits
  <2>3. Absent(A[j - 1], Key(new))
    <3>. SUFFICES ASSUME NEW w, Holds(A[j - 1], K[j], w) PROVE FALSE
      BY <2>2, AbsentHoldsNone DEF node
    <3>1. CASE Holds(A[0], K[j], w)
      <4>1. PICK m \in 1..(i - 1) : Key(x.path[m]) = Key(x.path[i + j])
        BY <1>3, <1>4, <3>1 DEF Holds
      <4>2. m \in DOMAIN x.path /\ m # i + j
        BY <1>1
      <4>. QED
        BY <1>1, <1>6, <4>1, <4>2 DEF Unique
    <3>2. CASE \E m \in 1..n : m < j /\ K[m] = K[j]
      BY <1>1, <1>7, <3>2
    <3>. QED
      BY <1>8, <3>1, <3>2
  <2>4. A[j] = AddAndWrite(A[j - 1], KindAgain(node, v), node.name, v, jitted)
    BY <1>5 DEF node, v
  <2>5. Puts(A[j - 1], Key(new), v, A[j])
    BY <1>8, <2>2, <2>3, <2>4, AddPuts
  <2>. QED
    BY <2>2, <2>5 DEF node, v
<1>. HIDE DEF K, V
<1>9. HasPut(A, n, 1..n, K, V)
  <2>1. Putting(A, n, 1..n, K, V)
    BY <1>3, <1>4, <1>7, <1>8 DEF Putting
  <2>. QED
    BY <1>1, <2>1, LoopPuts
<1>10. ASSUME NEW k, NEW w
       PROVE  Holds(y, k, w) <=> k # Key(x.path[i]) /\ Holds(x, k, w)
  <2>1. Holds(x, k, w) <=>
          \/ \E m \in 1..(i - 1) : Key(x.path[m]) = k /\ Read(x, m) = w
          \/ Key(x.path[i]) = k /\ Read(x, i) = w
          \/ \E j \in 1..n : Key(x.path[i + j]) = k /\ Read(x, i + j) = w
    <3>1. \A m \in DOMAIN x.path : m \in 1..(i - 1) \/ m = i \/ \E j \in 1..n : m = i + j
      <4>. TAKE m \in DOMAIN x.path
      <4>1. m > i => m - i \in 1..n /\ m = i + (m - i)
        BY <1>1
      <4>. QED
        BY <1>1, <4>1
    <3>2. \A m \in 1..(i - 1) : m \in DOMAIN x.path
      BY <1>1
    <3>. QED
      BY <1>6, <3>1, <3>2 DEF Holds
  <2>2. Holds(A[0], k, w) <=> \E m \in 1..(i - 1) : Key(x.path[m]) = k /\ Read(x, m) = w
    BY <1>3, <1>4 DEF Holds
  <2>3. \A m \in 1..(i - 1) : Key(x.path[m]) # Key(x.path[i])
    <3>1. \A m \in 1..(i - 1) : m \in DOMAIN x.path /\ m # i
      BY <1>1
    <3>. QED
      BY <1>1, <3>1 DEF Unique
  <2>4. \A j \in 1..n : Key(x.path[i + j]) # Key(x.path[i])
    BY <1>1, <1>6 DEF Unique
  <2>5. \A j \in 1..n, m \in 1..(i - 1) : Key(x.path[i + j]) # Key(x.path[m])
    <3>1. \A j \in 1..n, m \in 1..(i - 1) : m \in DOMAIN x.path /\ m # i + j
      BY <1>1
    <3>. QED
      BY <1>1, <1>6, <3>1 DEF Unique
  <2>. QED
    BY <1>2, <1>9, <2>1, <2>2, <2>3, <2>4, <2>5 DEF HasPut, K, V
<1>. QED
  BY <1>2, <1>3, <1>4, <1>9, <1>10 DEF HasPut, Carried, y

(* An attribute is set unless it has to change its type under a flag.       *)
Blocked(x, n, v) ==
  LET i == Find(x.path, Types, n) IN i # 0 /\ ~Fits(x.path[i], v) /\ UnderFlag(x, i)

LEMMA NewAttr ==
  ASSUME NEW x, Sane(x), NEW n \in Names, NEW v \in Values, NEW jitted, Absent(x, <<"attribute", n>>)
  PROVE  Puts(x, <<"attribute", n>>, v, AddAndWrite(x, SelectType(v), n, v, jitted))
<1>. DEFINE node == Node(SelectType(v), n)
<1>1. /\ node \in Nodes /\ Belongs(node, v) /\ Key(node) = <<"attribute", n>>
  BY MapdictAssumption DEF SelectType, Node, Nodes, Belongs, Key, Family, Types
<1>. QED
  BY <1>1, AddPuts

LEMMA AttrSet ==
  ASSUME NEW x, Sane(x), NEW n \in Names, NEW v \in Values, NEW jitted, ~Blocked(x, n, v)
  PROVE  Puts(x, <<"attribute", n>>, v, SetInstanceVar(x, n, v, jitted))
<1>. DEFINE i == Find(x.path, Types, n)
            y == SetInstanceVar(x, n, v, jitted)
            key == <<"attribute", n>>
<1>1. \/ i = 0 /\ Absent(x, key)
      \/ /\ i \in DOMAIN x.path /\ i # 0 /\ x.path[i].kind \in Types /\ x.path[i].name = n
         /\ Key(x.path[i]) = key
  <2>1. KindsOf("attribute") = Types /\ "attribute" \in Families
    BY DEF KindsOf, Families
  <2>. QED
    BY <2>1, FindKey
<1>. HIDE DEF i, key
<1>2. CASE i = 0
  <2>1. y = AddAndWrite(x, SelectType(v), n, v, jitted)
    BY <1>2 DEF SetInstanceVar, i
  <2>2. Absent(x, key)
    BY <1>1, <1>2, PathTyped
  <2>. QED
    BY <2>1, <2>2, NewAttr DEF key
<1>3. CASE i # 0 /\ Fits(x.path[i], v)
  <2>1. y = Write(x, i, v)
    BY <1>3 DEF SetInstanceVar, i
  <2>2. Belongs(x.path[i], v)
    BY <1>1, <1>3, MapdictAssumption DEF Fits, SelectType, Belongs, Types
  <2>. QED
    BY <1>1, <1>3, <2>1, <2>2, WritePuts DEF key
<1>4. CASE i # 0 /\ ~Fits(x.path[i], v)
  <2>. DEFINE r == RemoveAttr(x, i, jitted)
  <2>1. ~UnderFlag(x, i)
    BY <1>4 DEF Blocked, i
  <2>2. y = AddAndWrite(r, SelectType(v), n, v, jitted)
    BY <1>4, <2>1 DEF SetInstanceVar, i
  <2>3. /\ Sane(r) /\ Carried(x, r)
        /\ \A k, w : Holds(r, k, w) <=> k # key /\ Holds(x, k, w)
    BY <1>1, <1>4, <2>1, RemovedAttr
  <2>. HIDE DEF r, y
  <2>4. Absent(r, key)
    BY <2>3, AbsentHoldsNone
  <2>5. Puts(r, key, v, y)
    BY <2>2, <2>3, <2>4, NewAttr DEF key
  <2>6. Carried(x, y)
    BY <2>3, <2>5 DEF Puts, Carried
  <2>7. Puts(x, key, v, y)
    BY <2>3, <2>5, <2>6 DEF Puts
  <2>. QED
    BY <2>7 DEF key, y
<1>. QED
  BY <1>2, <1>3, <1>4

LEMMA AttrBlocked ==
  ASSUME NEW x, NEW n, NEW v, NEW jitted, Blocked(x, n, v)
  PROVE  SetInstanceVar(x, n, v, jitted) = [x EXCEPT !.failed = TRUE]
BY DEF Blocked, SetInstanceVar

(* A flag or constraint variable is set, found or not.                      *)
LEMMA OtherSet ==
  ASSUME NEW x, Sane(x), NEW kind \in {"flag", "cvar"}, NEW n, NEW v, NEW jitted,
         Node(kind, n) \in Nodes, Belongs(Node(kind, n), v)
  PROVE  Puts(x, <<kind, n>>, v, SetOther(x, kind, n, v, jitted))
<1>. DEFINE i == Find(x.path, {kind}, n)
            y == SetOther(x, kind, n, v, jitted)
            key == <<kind, n>>
<1>1. \/ i = 0 /\ Absent(x, key)
      \/ /\ i \in DOMAIN x.path /\ i # 0 /\ x.path[i].kind \in {kind} /\ x.path[i].name = n
         /\ Key(x.path[i]) = key
  <2>1. KindsOf(kind) = {kind} /\ kind \in Families
    BY DEF KindsOf, Families
  <2>. QED
    BY <2>1, FindKey
<1>2. Key(Node(kind, n)) = key
  BY DEF Key, Node, Family, Types
<1>. HIDE DEF i, key
<1>3. CASE i = 0
  <2>1. y = AddAndWrite(x, kind, n, v, jitted)
    BY <1>3 DEF SetOther, i
  <2>2. Absent(x, Key(Node(kind, n)))
    BY <1>1, <1>2, <1>3
  <2>. QED
    BY <1>2, <2>1, <2>2, AddPuts DEF key
<1>4. CASE i # 0
  <2>1. y = Write(x, i, v)
    BY <1>4 DEF SetOther, i
  <2>2. Belongs(x.path[i], v)
    BY <1>1, <1>4 DEF Node, Belongs
  <2>. QED
    BY <1>1, <1>4, <2>1, <2>2, WritePuts DEF key
<1>. QED
  BY <1>3, <1>4

-----------------------------------------------------------------------------
(* Copies.                                                                  *)

LEMMA IsSetHolds ==
  ASSUME NEW x, Sane(x), NEW f
  PROVE  IsSet(x, f) <=> Holds(x, <<"flag", f>>, TRUE)
<1>. DEFINE i == Find(x.path, {"flag"}, f)
<1>1. \/ i = 0 /\ Absent(x, <<"flag", f>>)
      \/ i \in DOMAIN x.path /\ i # 0 /\ Key(x.path[i]) = <<"flag", f>>
  <2>1. KindsOf("flag") = {"flag"} /\ "flag" \in Families
    BY DEF KindsOf, Families
  <2>. QED
    BY <2>1, FindKey
<1>2. IsSet(x, f) <=> i # 0 /\ Read(x, i) = TRUE
  BY DEF IsSet
<1>. HIDE DEF i
<1>3. CASE i = 0
  BY <1>1, <1>2, <1>3, AbsentHoldsNone
<1>4. CASE i # 0
  <2>1. Holds(x, <<"flag", f>>, TRUE) <=> TRUE = Read(x, i)
    BY <1>1, <1>4, HeldOnce
  <2>. QED
    BY <1>2, <1>4, <2>1
<1>. QED
  BY <1>3, <1>4

(* What the program finds under a name is what the object holds.            *)
LEMMA FoundHeld ==
  ASSUME NEW x, Sane(x), NEW family \in Families, NEW n
  PROVE  /\ \A w : Holds(x, <<family, n>>, w) => Found(x, KindsOf(family), n) = w
         /\ Absent(x, <<family, n>>) => Found(x, KindsOf(family), n) = Nil
         /\ ~Absent(x, <<family, n>>)
              => Holds(x, <<family, n>>, Found(x, KindsOf(family), n))
<1>. DEFINE i == Find(x.path, KindsOf(family), n)
            found == Found(x, KindsOf(family), n)
<1>1. \/ i = 0 /\ Absent(x, <<family, n>>)
      \/ i \in DOMAIN x.path /\ i # 0 /\ Key(x.path[i]) = <<family, n>>
  BY FindKey
<1>2. found = IF i = 0 THEN Nil ELSE Read(x, i)
  BY DEF Found
<1>. HIDE DEF i, found
<1>3. CASE i = 0
  BY <1>1, <1>2, <1>3, AbsentHoldsNone DEF found
<1>4. CASE i # 0
  <2>1. found = Read(x, i) /\ i \in DOMAIN x.path /\ Key(x.path[i]) = <<family, n>>
    BY <1>1, <1>2, <1>4
  <2>2. \A w : Holds(x, <<family, n>>, w) <=> w = found
    BY <2>1, HeldOnce
  <2>3. ~Absent(x, <<family, n>>)
    BY <2>1 DEF Absent
  <2>. QED
    BY <2>2, <2>3 DEF found
<1>. QED
  BY <1>3, <1>4

(* A family of names copied over those of another object.                   *)
Copied(family, from, to, y) ==
  /\ Sane(y) /\ Carried(to, y)
  /\ \A n, w : Holds(y, <<family, n>>, w) <=>
       \/ Holds(from, <<family, n>>, w)
       \/ Absent(from, <<family, n>>) /\ Holds(to, <<family, n>>, w)
  /\ \A other, n, w : other # family =>
       (Holds(y, <<other, n>>, w) <=> Holds(to, <<other, n>>, w))

LEMMA FamilyPut ==
  ASSUME NEW family \in Families, NEW from, Sane(from), NEW A, NEW I,
         I = {i \in 1..Len(from.path) : from.path[i].kind \in KindsOf(family)},
         HasPut(A, Len(from.path), I, [i \in 1..Len(from.path) |-> Key(from.path[i])],
                [i \in 1..Len(from.path) |-> Read(from, i)])
  PROVE  Copied(family, from, A[0], A[Len(from.path)])
<1>. DEFINE m == Len(from.path)
            y == A[m]
            to == A[0]
<1>1. m \in Nat /\ DOMAIN from.path = 1..m /\ \A i \in 1..m : from.path[i] \in Nodes
  BY PathTyped
<1>2. \A i \in 1..m : i \in I <=> Key(from.path[i])[1] = family
  BY <1>1 DEF Nodes, Key, Family, KindsOf, Families, Types
<1>3. \A i \in I : i \in 1..m
  OBVIOUS
<1>4. /\ Sane(y) /\ Carried(to, y)
      /\ \A k, w : Holds(y, k, w) <=>
           \/ \E i \in I : Key(from.path[i]) = k /\ Read(from, i) = w
           \/ (\A i \in I : Key(from.path[i]) # k) /\ Holds(to, k, w)
  BY <1>3 DEF HasPut
<1>. HIDE DEF m, y, to
<1>5. ASSUME NEW n, NEW w
      PROVE  /\ (\E i \in I : Key(from.path[i]) = <<family, n>> /\ Read(from, i) = w)
                  <=> Holds(from, <<family, n>>, w)
             /\ (\A i \in I : Key(from.path[i]) # <<family, n>>) <=> Absent(from, <<family, n>>)
  <2>1. \A i \in 1..m : Key(from.path[i]) = <<family, n>> => i \in I
    BY <1>2
  <2>. QED
    BY <1>1, <1>3, <2>1 DEF Holds, Absent
<1>6. ASSUME NEW other, NEW n, other # family
      PROVE  \A i \in I : Key(from.path[i]) # <<other, n>>
  BY <1>2, <1>3, <1>6
<1>7. ASSUME NEW n, NEW w
      PROVE  Holds(y, <<family, n>>, w) <=>
               \/ Holds(from, <<family, n>>, w)
               \/ Absent(from, <<family, n>>) /\ Holds(to, <<family, n>>, w)
  BY <1>4, <1>5
<1>8. ASSUME NEW other, NEW n, NEW w, other # family
      PROVE  Holds(y, <<other, n>>, w) <=> Holds(to, <<other, n>>, w)
  BY <1>4, <1>6, <1>8
<1>. QED
  BY <1>4, <1>7, <1>8 DEF Copied, y, to, m

(* The attributes are copied to an object that has none.                    *)
LEMMA AttrsCopied ==
  ASSUME NEW from, Sane(from), NEW to, Sane(to), NEW jitted,
         \A n \in Names : Absent(to, <<"attribute", n>>)
  PROVE  Copied("attribute", from, to, CopyAttrs(from, to, jitted))
<1>. DEFINE m == Len(from.path)
            I == {i \in 1..m : from.path[i].kind \in KindsOf("attribute")}
            K == [i \in 1..m |-> Key(from.path[i])]
            V == [i \in 1..m |-> Read(from, i)]
<1>1. /\ from.path \in Seq(Nodes) /\ m \in Nat /\ DOMAIN from.path = 1..m
      /\ \A i \in 1..m : from.path[i] \in Nodes
  BY PathTyped
<1>2. PICK A : Passes(A, "CopyAttrs", from, 0, jitted, to, m) /\ CopyAttrs(from, to, jitted) = A[m]
  BY <1>1, CopyAttrsPasses
<1>3. A[0] = to
  BY <1>2 DEF Passes
<1>4. ASSUME NEW i \in 1..m
      PROVE  A[i] = IF from.path[i].kind \in Types
                    THEN SetInstanceVar(A[i - 1], from.path[i].name, Read(from, i), jitted)
                    ELSE A[i - 1]
  BY <1>2, <1>4 DEF Passes, Step
<1>5. KindsOf("attribute") = Types /\ "attribute" \in Families
  BY DEF KindsOf, Families
<1>6. \A i, j \in I : K[i] = K[j] => i = j
  BY <1>1 DEF Sane, Unique
<1>7. \A i \in (1..m) \ I : A[i] = A[i - 1]
  BY <1>4, <1>5
<1>8. ASSUME NEW i \in I, Sane(A[i - 1]),
             \A k, w : Holds(A[i - 1], k, w) => Holds(A[0], k, w) \/ \E j \in I : j < i /\ K[j] = k
      PROVE  Puts(A[i - 1], K[i], V[i], A[i])
  <2>. DEFINE n == from.path[i].name
              v == Read(from, i)
  <2>1. i \in 1..m /\ from.path[i].kind \in Types /\ i \in Nat
    BY <1>5
  <2>2. n \in Names /\ v \in Values
    BY <1>1, <2>1, ReadPlaced DEF Sane, Belongs
  <2>3. K[i] = <<"attribute", n>>
    BY <2>1 DEF Key, Family
  <2>4. Absent(A[i - 1], K[i])
    <3>. SUFFICES ASSUME NEW w, Holds(A[i - 1], K[i], w) PROVE FALSE
      BY AbsentHoldsNone
    <3>1. ~Holds(A[0], K[i], w)
      BY <1>3, <2>2, <2>3, AbsentHoldsNone
    <3>2. PICK j \in I : j < i /\ K[j] = K[i]
      BY <1>8, <3>1
    <3>. HIDE DEF K, I
    <3>3. j = i
      BY <1>6, <3>2
    <3>. QED
      BY <2>1, <3>2, <3>3
  <2>5. A[i] = SetInstanceVar(A[i - 1], n, v, jitted)
    BY <1>4, <2>1
  <2>6. ~Blocked(A[i - 1], n, v)
    <3>1. Find(A[i - 1].path, KindsOf("attribute"), n) = 0
      <4>. HIDE DEF n, K
      <4>. QED
        BY <1>5, <1>8, <2>3, <2>4, AbsentFind
    <3>. QED
      BY <1>5, <3>1 DEF Blocked
  <2>. HIDE DEF n, v, K
  <2>7. Puts(A[i - 1], K[i], v, A[i])
    BY <1>8, <2>2, <2>3, <2>5, <2>6, AttrSet
  <2>. QED
    BY <2>1, <2>7 DEF v
<1>9. HasPut(A, m, I, K, V)
  <2>1. I \subseteq 1..m
    OBVIOUS
  <2>. HIDE DEF I, K, V, m
  <2>2. Putting(A, m, I, K, V)
    BY <1>3, <1>6, <1>7, <1>8, <2>1 DEF Putting
  <2>. QED
    BY <1>1, <2>2, LoopPuts
<1>10. Copied("attribute", from, A[0], A[m])
  BY <1>5, <1>9, FamilyPut
<1>. QED
  BY <1>2, <1>3, <1>10

(* The constraint variables are copied, as they are.                        *)
LEMMA ConstraintVarsCopied ==
  ASSUME NEW from, Sane(from), NEW to, Sane(to), NEW jitted
  PROVE  Copied("cvar", from, to, CopyConstraintVars(from, to, jitted))
<1>. DEFINE m == Len(from.path)
            I == {i \in 1..m : from.path[i].kind \in KindsOf("cvar")}
            K == [i \in 1..m |-> Key(from.path[i])]
            V == [i \in 1..m |-> Read(from, i)]
<1>1. /\ from.path \in Seq(Nodes) /\ m \in Nat /\ DOMAIN from.path = 1..m
      /\ \A i \in 1..m : from.path[i] \in Nodes
  BY PathTyped
<1>2. PICK A : /\ Passes(A, "CopyConstraintVars", from, 0, jitted, to, m)
               /\ CopyConstraintVars(from, to, jitted) = A[m]
  BY <1>1, CopyConstraintVarsPasses
<1>3. A[0] = to
  BY <1>2 DEF Passes
<1>4. ASSUME NEW i \in 1..m
      PROVE  A[i] = IF from.path[i].kind = "cvar"
                    THEN SetOther(A[i - 1], "cvar", from.path[i].name, Read(from, i), jitted)
                    ELSE A[i - 1]
  BY <1>2, <1>4 DEF Passes, Step
<1>5. KindsOf("cvar") = {"cvar"} /\ "cvar" \in Families
  BY DEF KindsOf, Families
<1>6. \A i, j \in I : K[i] = K[j] => i = j
  BY <1>1 DEF Sane, Unique
<1>7. \A i \in (1..m) \ I : A[i] = A[i - 1]
  BY <1>4, <1>5
<1>8. ASSUME NEW i \in I, Sane(A[i - 1])
      PROVE  Puts(A[i - 1], K[i], V[i], A[i])
  <2>. DEFINE n == from.path[i].name
              v == Read(from, i)
  <2>1. i \in 1..m /\ from.path[i].kind = "cvar"
    BY <1>5
  <2>2. Belongs(from.path[i], v) /\ from.path[i] \in Nodes
    BY <1>1, <2>1, ReadPlaced DEF Sane
  <2>3. from.path[i] = Node("cvar", n)
    BY <2>1, <2>2 DEF Nodes, Node
  <2>4. Node("cvar", n) \in Nodes /\ Belongs(Node("cvar", n), v)
    BY <2>2, <2>3
  <2>5. K[i] = <<"cvar", n>>
    BY <2>1 DEF Key, Family, Types
  <2>6. A[i] = SetOther(A[i - 1], "cvar", n, v, jitted)
    BY <1>4, <2>1
  <2>. HIDE DEF n, v, K
  <2>7. Puts(A[i - 1], K[i], v, A[i])
    BY <1>8, <2>4, <2>5, <2>6, OtherSet
  <2>. QED
    BY <2>1, <2>7 DEF v
<1>9. HasPut(A, m, I, K, V)
  <2>1. I \subseteq 1..m
    OBVIOUS
  <2>. HIDE DEF I, K, V, m
  <2>2. Putting(A, m, I, K, V)
    BY <1>3, <1>6, <1>7, <1>8, <2>1 DEF Putting
  <2>. QED
    BY <1>1, <2>2, LoopPuts
<1>10. Copied("cvar", from, A[0], A[m])
  BY <1>5, <1>9, FamilyPut
<1>. QED
  BY <1>2, <1>3, <1>10

(* infect goes over each flag once.                                         *)
LEMMA FlagsListed ==
  ASSUME NEW fs \in SUBSET Flags
  PROVE  /\ Len(SetToSeq(fs)) \in Nat /\ DOMAIN SetToSeq(fs) = 1..Len(SetToSeq(fs))
         /\ \A i \in 1..Len(SetToSeq(fs)) : SetToSeq(fs)[i] \in fs
         /\ \A i, j \in 1..Len(SetToSeq(fs)) : SetToSeq(fs)[i] = SetToSeq(fs)[j] => i = j
         /\ \A f \in fs : \E i \in 1..Len(SetToSeq(fs)) : SetToSeq(fs)[i] = f
<1>. DEFINE n == Cardinality(fs)
            seq == SetToSeq(fs)
<1>1. IsFiniteSet(fs)
  BY FS_Subset, MapdictAssumption
<1>2. n \in Nat /\ ExistsBijection(1..n, fs)
  BY <1>1, FS_CardinalityType
<1>3. PICK f \in Bijection(1..n, fs) : TRUE
  BY <1>2 DEF ExistsBijection
<1>4. f \in [1..n -> fs] /\ IsInjective(f)
  BY <1>3 DEF Bijection, Injection, IsInjective
<1>5. seq \in [1..n -> fs] /\ IsInjective(seq)
  BY <1>4 DEF SetToSeq
<1>6. IsFiniteSet(1..n) /\ Cardinality(1..n) = n
  BY <1>2, FS_Interval
<1>. HIDE DEF seq
<1>7. seq \in Injection(1..n, fs)
  BY <1>5 DEF Injection, IsInjective
<1>8. seq \in Surjection(1..n, fs)
  BY <1>1, <1>6, <1>7, FS_Injection
<1>9. Len(seq) = n
  BY <1>2, <1>5
<1>. QED
  BY <1>2, <1>5, <1>8, <1>9 DEF Surjection, IsInjective, seq

LEMMA Infected ==
  ASSUME NEW from, Sane(from), NEW to, Sane(to), NEW fs \in SUBSET Flags, NEW jitted
  PROVE  LET y == Infect(from, to, fs, jitted) IN
         /\ Sane(y) /\ Carried(to, y)
         /\ \A family, n, w : Holds(y, <<family, n>>, w) <=>
              IF family = "flag" /\ n \in fs /\ IsSet(from, n) THEN w = TRUE
              ELSE Holds(to, <<family, n>>, w)
<1>. DEFINE seq == SetToSeq(fs)
            m == Len(seq)
            I == {i \in 1..m : IsSet(from, seq[i])}
            K == [i \in 1..m |-> <<"flag", seq[i]>>]
            V == [i \in 1..m |-> TRUE]
            y == Infect(from, to, fs, jitted)
<1>1. /\ m \in Nat /\ DOMAIN seq = 1..m /\ \A i \in 1..m : seq[i] \in fs
      /\ \A i, j \in 1..m : seq[i] = seq[j] => i = j
      /\ \A f \in fs : \E i \in 1..m : seq[i] = f
  BY FlagsListed
<1>2. PICK A : Passes(A, "Infect", from, seq, jitted, to, m) /\ y = A[m]
  BY <1>1, InfectPasses
<1>. HIDE DEF seq, y
<1>3. A[0] = to
  BY <1>2 DEF Passes
<1>4. ASSUME NEW i \in 1..m
      PROVE  A[i] = IF IsSet(from, seq[i]) THEN SetOther(A[i - 1], "flag", seq[i], TRUE, jitted)
                    ELSE A[i - 1]
  BY <1>2, <1>4 DEF Passes, Step
<1>. HIDE DEF m
<1>5. \A i, j \in I : K[i] = K[j] => i = j
  BY <1>1
<1>6. \A i \in (1..m) \ I : A[i] = A[i - 1]
  BY <1>4
<1>7. ASSUME NEW i \in I, Sane(A[i - 1])
      PROVE  Puts(A[i - 1], K[i], V[i], A[i])
  <2>1. i \in 1..m /\ seq[i] \in Flags /\ K[i] = <<"flag", seq[i]>> /\ V[i] = TRUE
    BY <1>1
  <2>2. A[i] = SetOther(A[i - 1], "flag", seq[i], TRUE, jitted)
    BY <1>4
  <2>3. Node("flag", seq[i]) \in Nodes /\ Belongs(Node("flag", seq[i]), TRUE)
    BY <2>1 DEF Node, Nodes, Belongs, Types
  <2>. QED
    BY <1>7, <2>1, <2>2, <2>3, OtherSet
<1>8. HasPut(A, m, I, K, V)
  <2>1. I \subseteq 1..m
    OBVIOUS
  <2>. HIDE DEF I, K, V
  <2>2. Putting(A, m, I, K, V)
    BY <1>3, <1>5, <1>6, <1>7, <2>1 DEF Putting
  <2>. QED
    BY <1>1, <2>2, LoopPuts
<1>9. ASSUME NEW family, NEW n, NEW w
      PROVE  Holds(y, <<family, n>>, w) <=>
               IF family = "flag" /\ n \in fs /\ IsSet(from, n) THEN w = TRUE
               ELSE Holds(to, <<family, n>>, w)
  <2>1. Holds(y, <<family, n>>, w) <=>
          \/ \E i \in I : K[i] = <<family, n>> /\ V[i] = w
          \/ (\A i \in I : K[i] # <<family, n>>) /\ Holds(to, <<family, n>>, w)
    BY <1>2, <1>3, <1>8 DEF HasPut
  <2>2. (\E i \in I : K[i] = <<family, n>>) <=> family = "flag" /\ n \in fs /\ IsSet(from, n)
    BY <1>1
  <2>3. \A i \in I : V[i] = TRUE
    OBVIOUS
  <2>. HIDE DEF I, K, V
  <2>. QED
    BY <2>1, <2>2, <2>3
<1>. QED
  BY <1>2, <1>3, <1>8, <1>9 DEF HasPut, y

-----------------------------------------------------------------------------
(* The invariant.                                                           *)

Maps == [cls : Classes, path : Seq(Nodes)]
Storages == [object : Seq(Stored), unboxed : Seq(Stored)]
Inv ==
  /\ map \in [Objects -> {Nil} \cup Maps] /\ storage \in [Objects -> Storages]
  /\ failed \in BOOLEAN /\ IsEstimate(estimate)
  /\ \A o \in Objects : Allocated(o) => map[o].cls \in {Class, o} /\ Sane(Object(o))

LEMMA ObjectIs ==
  ASSUME Inv, NEW o \in Objects, Allocated(o)
  PROVE  /\ Sane(Object(o)) /\ Object(o).path = map[o].path /\ Object(o).cls = map[o].cls
         /\ Object(o).cls \in {Class, o} /\ Object(o).est = estimate /\ Object(o).failed = failed
BY DEF Inv, Object

LEMMA MadeNew ==
  ASSUME Inv
  PROVE  LET y == NewObject(estimate) IN
         /\ Sane(y) /\ y.failed = failed /\ y.cls = Class /\ DOMAIN estimate \subseteq DOMAIN y.est
         /\ \A key : Absent(y, key)
<1>. DEFINE est == GetClassNode(estimate, Class)
            y == NewObject(estimate)
<1>1. Class \in Classes /\ IsEstimate(estimate) /\ failed \in BOOLEAN
  BY DEF Classes, Inv
<1>2. IsEstimate(est)
  BY <1>1, ClassNodeGot
<1>3. DOMAIN est = DOMAIN estimate \cup {<<Class, <<>>>>}
  BY DEF GetClassNode, NewNode
<1>4. est \in UNION {[D -> Sizes] : D \in SUBSET Tree}
  BY <1>2 DEF IsEstimate
<1>. HIDE DEF est
<1>5. y = [cls |-> Class, path |-> <<>>, object |-> <<>>, unboxed |-> <<>>, est |-> est,
           failed |-> failed]
  BY DEF NewObject, est
<1>. HIDE DEF y
<1>6. y \in Things /\ y.path = <<>> /\ y.est = est /\ y.cls = Class /\ y.failed = failed
  BY <1>1, <1>4, <1>5 DEF Things
<1>7. Sane(y) /\ \A key : Absent(y, key)
  BY <1>2, <1>3, <1>6 DEF Sane, Unique, Absent
<1>. QED
  BY <1>3, <1>6, <1>7 DEF y

(* An object that nobody touches, in a tree that grows.                     *)
LEMMA Untouched ==
  ASSUME Inv, IsEstimate(estimate)', DOMAIN estimate \subseteq DOMAIN estimate', failed' \in BOOLEAN,
         NEW o \in Objects, Allocated(o), map'[o] = map[o], storage'[o] = storage[o]
  PROVE  /\ Sane(Object(o))' /\ map'[o].cls \in {Class, o}
         /\ \A k, w : Holds(Object(o), k, w)' <=> Holds(Object(o), k, w)
<1>. DEFINE x == Object(o)
            y == [cls |-> map[o].cls, path |-> map[o].path, object |-> storage[o].object,
                  unboxed |-> storage[o].unboxed, est |-> estimate', failed |-> failed']
<1>1. /\ Sane(x) /\ x \in Things /\ Unique(x.path) /\ \A i \in DOMAIN x.path : Placed(x, i)
      /\ <<x.cls, x.path>> \in DOMAIN x.est /\ map[o].cls \in {Class, o}
  BY DEF Inv, Sane
<1>2. /\ x.cls = map[o].cls /\ x.path = map[o].path /\ x.est = estimate
      /\ x.object = storage[o].object /\ x.unboxed = storage[o].unboxed
  BY DEF Object
<1>3. Object(o)' = y
  BY DEF Object
<1>. HIDE DEF x
<1>4. estimate' \in UNION {[D -> Sizes] : D \in SUBSET Tree}
  BY DEF IsEstimate
<1>5. y \in Things
  BY <1>1, <1>2, <1>4 DEF Things
<1>6. y.path = x.path /\ y.object = x.object /\ y.unboxed = x.unboxed /\ y.cls = x.cls /\ y.est = estimate'
  BY <1>2
<1>. HIDE DEF y
<1>7. /\ \A i \in DOMAIN x.path : Placed(y, i)
      /\ \A k, w : Holds(y, k, w) <=> Holds(x, k, w)
  BY <1>1, <1>5, <1>6, SameStored
<1>8. Sane(y)
  BY <1>1, <1>2, <1>5, <1>6, <1>7 DEF Sane
<1>. QED
  BY <1>1, <1>3, <1>7, <1>8 DEF x

(* What o becomes in an operation that does not fail.                       *)
Turns(o, y) ==
  /\ Inv' /\ failed' = FALSE /\ Object(o)' = y /\ map'[o] = MapOf(y)
  /\ \A p \in Objects \ {o} : map'[p] = map[p] /\ storage'[p] = storage[p]
  /\ DOMAIN estimate \subseteq DOMAIN estimate'

LEMMA BecomeTurns ==
  ASSUME Inv, NEW o \in Objects, NEW y, Sane(y), y.failed = FALSE, y.cls \in {Class, o},
         DOMAIN estimate \subseteq DOMAIN y.est, Become(o, y)
  PROVE  Turns(o, y)
<1>1. y \in Things /\ IsEstimate(y.est)
  BY DEF Sane
<1>2. /\ map' = [map EXCEPT ![o] = MapOf(y)] /\ storage' = [storage EXCEPT ![o] = StorageOf(y)]
      /\ estimate' = y.est /\ failed' = FALSE
  BY DEF Become
<1>3. MapOf(y) \in Maps /\ StorageOf(y) \in Storages
  BY <1>1 DEF MapOf, StorageOf, Maps, Storages, Things
<1>4. /\ map' \in [Objects -> {Nil} \cup Maps] /\ storage' \in [Objects -> Storages]
      /\ map'[o] = MapOf(y) /\ storage'[o] = StorageOf(y)
      /\ \A p \in Objects \ {o} : map'[p] = map[p] /\ storage'[p] = storage[p]
  BY <1>2, <1>3 DEF Inv
<1>5. Object(o)' = y
  <2>1. Object(o)' = [cls |-> y.cls, path |-> y.path, object |-> y.object, unboxed |-> y.unboxed,
                      est |-> y.est, failed |-> y.failed]
    BY <1>2, <1>4 DEF Object, MapOf, StorageOf
  <2>. QED
    BY <1>1, <2>1 DEF Things
<1>6. IsEstimate(estimate)' /\ DOMAIN estimate \subseteq DOMAIN estimate'
  BY <1>1, <1>2
<1>7. ASSUME NEW p \in Objects, Allocated(p)'
      PROVE  map'[p].cls \in {Class, p} /\ Sane(Object(p))'
  <2>1. CASE p = o
    BY <1>4, <1>5, <2>1 DEF MapOf
  <2>2. CASE p # o
    <3>1. Allocated(p) /\ map'[p] = map[p] /\ storage'[p] = storage[p]
      BY <1>4, <1>7, <2>2 DEF Allocated
    <3>. QED
      BY <1>2, <1>6, <3>1, Untouched
  <2>. QED
    BY <2>1, <2>2
<1>8. Inv'
  BY <1>2, <1>4, <1>6, <1>7 DEF Inv
<1>. QED
  BY <1>2, <1>4, <1>5, <1>6, <1>8 DEF Turns

(* An operation that fails has moved nothing.                               *)
LEMMA FailureKeeps ==
  ASSUME Inv, NEW o \in Objects, Allocated(o), Become(o, [Object(o) EXCEPT !.failed = TRUE])
  PROVE  Inv' /\ map' = map /\ storage' = storage /\ failed' = TRUE
<1>1. map' = map /\ storage' = storage /\ estimate' = estimate /\ failed' = TRUE
  BY DEF Become, Object
<1>2. ASSUME NEW p \in Objects, Allocated(p)'
      PROVE  map'[p].cls \in {Class, p} /\ Sane(Object(p))'
  <2>1. Allocated(p) /\ IsEstimate(estimate)'
    BY <1>1, <1>2 DEF Allocated, Inv
  <2>. QED
    BY <1>1, <2>1, Untouched
<1>. QED
  BY <1>1, <1>2 DEF Inv

-----------------------------------------------------------------------------
(* What each operation makes of an object.                                  *)

LEMMA AllocateTurns ==
  ASSUME Inv, ~failed, NEW o \in Objects, Allocate(o)
  PROVE  \E y : Turns(o, y) /\ Sane(y) /\ \A key : Absent(y, key)
<1>. DEFINE y == NewObject(estimate)
<1>1. /\ Sane(y) /\ y.failed = FALSE /\ y.cls = Class /\ DOMAIN estimate \subseteq DOMAIN y.est
      /\ \A key : Absent(y, key)
  BY MadeNew DEF Inv
<1>. HIDE DEF y
<1>2. Become(o, y)
  BY DEF Allocate, y
<1>. QED
  BY <1>1, <1>2, BecomeTurns

LEMMA PutTurns ==
  ASSUME Inv, ~failed, NEW o \in Objects, Allocated(o), NEW key, NEW v, NEW y,
         Puts(Object(o), key, v, y), Become(o, y)
  PROVE  Turns(o, y)
<1>1. /\ Object(o).cls \in {Class, o} /\ Object(o).est = estimate /\ Object(o).failed = failed
  BY ObjectIs
<1>2. Sane(y) /\ y.cls = Object(o).cls /\ y.failed = failed /\ DOMAIN estimate \subseteq DOMAIN y.est
  BY <1>1 DEF Puts, Carried
<1>. QED
  BY <1>1, <1>2, BecomeTurns DEF Inv

LEMMA SetAttrTurns ==
  ASSUME Inv, ~failed, NEW o \in Objects, NEW n \in Names, NEW v \in Values, NEW jitted,
         SetAttr(o, n, v, jitted)
  PROVE  \/ \E y : Turns(o, y) /\ Puts(Object(o), <<"attribute", n>>, v, y)
         \/ "retype" \in UserOps /\ Inv' /\ map' = map /\ storage' = storage
<1>. DEFINE x == Object(o)
            y == SetInstanceVar(x, n, v, jitted)
<1>1. Allocated(o) /\ MaySet(o, n, v) /\ Become(o, y)
  BY DEF SetAttr
<1>2. Sane(x) /\ x.path = map[o].path
  BY <1>1, ObjectIs
<1>3. CASE Blocked(x, n, v)
  <2>1. "retype" \in UserOps
    BY <1>1, <1>2, <1>3 DEF MaySet, Blocked
  <2>2. y = [x EXCEPT !.failed = TRUE]
    BY <1>3, AttrBlocked
  <2>. QED
    BY <1>1, <2>1, <2>2, FailureKeeps
<1>4. CASE ~Blocked(x, n, v)
  <2>1. Puts(x, <<"attribute", n>>, v, y)
    BY <1>2, <1>4, AttrSet
  <2>. HIDE DEF y
  <2>2. Turns(o, y)
    BY <1>1, <2>1, PutTurns
  <2>. QED
    BY <2>1, <2>2
<1>. QED
  BY <1>3, <1>4

LEMMA SetFlagTurns ==
  ASSUME Inv, ~failed, NEW o \in Objects, NEW f \in Flags, NEW jitted, SetFlag(o, f, jitted)
  PROVE  \E y : Turns(o, y) /\ Puts(Object(o), <<"flag", f>>, TRUE, y)
<1>. DEFINE x == Object(o)
            y == SetOther(x, "flag", f, TRUE, jitted)
<1>1. Allocated(o) /\ Become(o, y)
  BY DEF SetFlag
<1>2. Sane(x)
  BY <1>1, ObjectIs
<1>3. Node("flag", f) \in Nodes /\ Belongs(Node("flag", f), TRUE)
  BY DEF Node, Nodes, Belongs, Types
<1>4. Puts(x, <<"flag", f>>, TRUE, y)
  BY <1>2, <1>3, OtherSet
<1>. HIDE DEF y
<1>. QED
  BY <1>1, <1>4, PutTurns

LEMMA UnsetFlagTurns ==
  ASSUME Inv, ~failed, NEW o \in Objects, NEW f \in Flags, UnsetFlag(o, f)
  PROVE  \E y : Turns(o, y) /\ Puts(Object(o), <<"flag", f>>, FALSE, y)
<1>. DEFINE x == Object(o)
            i == Find(x.path, {"flag"}, f)
            y == Write(x, i, FALSE)
<1>1. Allocated(o)
  BY DEF UnsetFlag
<1>2. Sane(x) /\ x.path = map[o].path
  BY <1>1, ObjectIs
<1>3. i # 0 /\ Become(o, y)
  BY <1>2 DEF UnsetFlag
<1>4. i \in DOMAIN x.path /\ x.path[i].kind = "flag" /\ Key(x.path[i]) = <<"flag", f>>
  <2>1. KindsOf("flag") = {"flag"} /\ "flag" \in Families
    BY DEF KindsOf, Families
  <2>2. i = Find(x.path, KindsOf("flag"), f)
    BY <2>1
  <2>. HIDE DEF x, i
  <2>3. \/ i = 0 /\ Absent(x, <<"flag", f>>)
        \/ /\ i \in DOMAIN x.path /\ i # 0 /\ x.path[i].kind \in KindsOf("flag") /\ x.path[i].name = f
           /\ Key(x.path[i]) = <<"flag", f>>
    BY <1>2, <2>1, <2>2, FindKey
  <2>. QED
    BY <1>3, <2>1, <2>3
<1>. HIDE DEF i, x
<1>5. Belongs(x.path[i], FALSE)
  <2>1. x.path[i].name = f
    BY <1>4 DEF Key
  <2>. QED
    BY <1>4, <2>1 DEF Belongs, Types
<1>6. Puts(x, <<"flag", f>>, FALSE, y)
  BY <1>2, <1>4, <1>5, WritePuts
<1>. HIDE DEF y
<1>7. Turns(o, y)
  BY <1>1, <1>3, <1>6, PutTurns DEF x
<1>. QED
  BY <1>6, <1>7 DEF x

LEMMA ConstraintVarTurns ==
  ASSUME Inv, ~failed, NEW o \in Objects, NEW n \in Names, NEW jitted, NewConstraintVar(o, n, jitted)
  PROVE  \E y : /\ Turns(o, y) /\ Puts(Object(o), <<"cvar", n>>, o, y)
                /\ Find(Object(o).path, {"cvar"}, n) = 0
<1>. DEFINE x == Object(o)
            y == SetOther(x, "cvar", n, o, jitted)
<1>1. Allocated(o) /\ Become(o, y)
  BY DEF NewConstraintVar
<1>2. Sane(x) /\ x.path = map[o].path
  BY <1>1, ObjectIs
<1>3. Node("cvar", n) \in Nodes /\ Belongs(Node("cvar", n), o)
  BY DEF Node, Nodes, Belongs, Types
<1>4. Puts(x, <<"cvar", n>>, o, y)
  BY <1>2, <1>3, OtherSet
<1>5. Find(x.path, {"cvar"}, n) = 0
  BY <1>2 DEF NewConstraintVar
<1>. HIDE DEF y
<1>. QED
  BY <1>1, <1>4, <1>5, PutTurns

LEMMA SingletonTurns ==
  ASSUME Inv, ~failed, NEW o \in Objects, GetSingletonClass(o)
  PROVE  \E y : /\ Turns(o, y) /\ Sane(y) /\ Allocated(o)
                /\ \A k, w : Holds(y, k, w) <=> Holds(Object(o), k, w)
<1>. DEFINE x == Object(o)
            y == ChangeClass(x, o)
<1>1. Allocated(o) /\ Become(o, y)
  BY DEF GetSingletonClass
<1>2. Sane(x) /\ x.est = estimate /\ x.failed = failed
  BY <1>1, ObjectIs
<1>3. o \in Classes
  BY DEF Classes
<1>4. /\ Sane(y) /\ y.cls = o /\ y.failed = x.failed /\ DOMAIN x.est \subseteq DOMAIN y.est
      /\ \A k, w : Holds(y, k, w) <=> Holds(x, k, w)
  BY <1>2, <1>3, ClassChanged
<1>. HIDE DEF y
<1>5. Turns(o, y)
  <2>1. y.failed = FALSE /\ y.cls \in {Class, o} /\ DOMAIN estimate \subseteq DOMAIN y.est
    BY <1>2, <1>4 DEF Inv
  <2>. HIDE DEF x
  <2>. QED
    BY <1>1, <1>4, <2>1, BecomeTurns
<1>. QED
  BY <1>1, <1>4, <1>5

(* What a copy holds: everything but the flags that are not copied or are   *)
(* not set.                                                                 *)
CopyOf(from, fs, y) ==
  /\ Sane(y)
  /\ \A family, n, w : family \in {"attribute", "cvar"}
       => (Holds(y, <<family, n>>, w) <=> Holds(from, <<family, n>>, w))
  /\ \A f, w : Holds(y, <<"flag", f>>, w) <=> f \in fs /\ IsSet(from, f) /\ w = TRUE

LEMMA DupTurns ==
  ASSUME Inv, ~failed, NEW o \in Objects, NEW p \in Objects, NEW jitted, Dup(o, p, jitted)
  PROVE  \E y : /\ Turns(p, y) /\ CopyOf(Object(o), Infectious, y)
                /\ Allocated(o) /\ ~Allocated(p)
<1>. DEFINE from == Object(o)
            base == NewObject(estimate)
            new  == CopyAttrs(from, base, jitted)
            same == Infect(from, new, Infectious, jitted)
            y    == CopyConstraintVars(from, same, jitted)
<1>1. Allocated(o) /\ ~Allocated(p) /\ Become(p, y)
  BY DEF Dup
<1>2. Sane(from) /\ failed = FALSE
  BY <1>1, ObjectIs DEF Inv
<1>3. /\ Sane(base) /\ base.failed = failed /\ base.cls = Class
      /\ DOMAIN estimate \subseteq DOMAIN base.est /\ \A key : Absent(base, key)
  BY MadeNew
<1>. HIDE DEF from, base
<1>4. Copied("attribute", from, base, new)
  BY <1>2, <1>3, AttrsCopied
<1>. HIDE DEF new
<1>5. Sane(new) /\ Carried(base, new) /\ Infectious \in SUBSET Flags
  BY <1>4, MapdictAssumption DEF Copied
<1>6. /\ Sane(same) /\ Carried(new, same)
      /\ \A family, n, w : Holds(same, <<family, n>>, w) <=>
           IF family = "flag" /\ n \in Infectious /\ IsSet(from, n) THEN w = TRUE
           ELSE Holds(new, <<family, n>>, w)
  BY <1>2, <1>5, Infected
<1>. HIDE DEF same
<1>7. Copied("cvar", from, same, y)
  BY <1>2, <1>6, ConstraintVarsCopied
<1>. HIDE DEF y
<1>8. Sane(y) /\ Carried(same, y)
  BY <1>7 DEF Copied
<1>9. /\ y.failed = FALSE /\ y.cls \in {Class, p} /\ DOMAIN estimate \subseteq DOMAIN y.est
  BY <1>2, <1>3, <1>5, <1>6, <1>8 DEF Carried
<1>10. Turns(p, y)
  BY <1>1, <1>8, <1>9, BecomeTurns
<1>11. \A key, w : ~Holds(base, key, w)
  BY <1>3, AbsentHoldsNone
<1>12. ASSUME NEW n, NEW w
       PROVE  /\ Holds(new, <<"attribute", n>>, w) <=> Holds(from, <<"attribute", n>>, w)
              /\ ~Holds(new, <<"cvar", n>>, w) /\ ~Holds(new, <<"flag", n>>, w)
  BY <1>4, <1>11 DEF Copied
<1>13. ASSUME NEW n, NEW w
       PROVE  /\ Holds(y, <<"attribute", n>>, w) <=> Holds(from, <<"attribute", n>>, w)
              /\ Holds(y, <<"cvar", n>>, w) <=> Holds(from, <<"cvar", n>>, w)
              /\ Holds(y, <<"flag", n>>, w) <=> n \in Infectious /\ IsSet(from, n) /\ w = TRUE
  <2>1. /\ Holds(same, <<"attribute", n>>, w) <=> Holds(from, <<"attribute", n>>, w)
        /\ ~Holds(same, <<"cvar", n>>, w)
        /\ Holds(same, <<"flag", n>>, w) <=> n \in Infectious /\ IsSet(from, n) /\ w = TRUE
    BY <1>6, <1>12
  <2>. QED
    BY <1>7, <2>1 DEF Copied
<1>14. CopyOf(from, Infectious, y)
  BY <1>8, <1>13 DEF CopyOf
<1>. QED
  BY <1>1, <1>10, <1>14 DEF from

(* clone gives the original another class: it holds what it held.           *)
Clones(o, p) ==
  /\ Inv' /\ failed' = FALSE /\ CopyOf(Object(o), Flags, Object(p)') /\ Allocated(p)'
  /\ Sane(Object(o))' /\ \A k, w : Holds(Object(o)', k, w) <=> Holds(Object(o), k, w)
  /\ \A q \in Objects \ {o, p} : map'[q] = map[q] /\ storage'[q] = storage[q]
  /\ Allocated(o) /\ Allocated(o)' /\ ~Allocated(p) /\ DOMAIN estimate \subseteq DOMAIN estimate'

LEMMA CloneTurns ==
  ASSUME Inv, ~failed, NEW o \in Objects, NEW p \in Objects, NEW jitted, Clone(o, p, jitted)
  PROVE  Clones(o, p)
<1>. DEFINE from == Object(o)
            base == NewObject(estimate)
            half == CopyAttrs(from, base, jitted)
            new  == CopyConstraintVars(from, half, jitted)
            old  == [from EXCEPT !.est = new.est]
            orig == ChangeClass(old, o)
            late == [new EXCEPT !.est = orig.est]
            moved == ChangeClass(late, p)
            copy == Infect(from, moved, Flags, jitted)
            kept == [orig EXCEPT !.est = copy.est]
<1>1. /\ Allocated(o) /\ ~Allocated(p)
      /\ map' = [map EXCEPT ![o] = MapOf(orig), ![p] = MapOf(copy)]
      /\ storage' = [storage EXCEPT ![p] = StorageOf(copy)]
      /\ estimate' = copy.est /\ failed' = copy.failed
  BY DEF Clone
<1>2. /\ Sane(from) /\ failed = FALSE /\ from.est = estimate /\ from.failed = failed
      /\ from.object = storage[o].object /\ from.unboxed = storage[o].unboxed
  BY <1>1, ObjectIs DEF Inv, Object
<1>3. /\ Sane(base) /\ base.failed = failed /\ base.cls = Class
      /\ DOMAIN estimate \subseteq DOMAIN base.est /\ \A key : Absent(base, key)
  BY MadeNew
<1>. HIDE DEF from, base
<1>4. Copied("attribute", from, base, half)
  BY <1>2, <1>3, AttrsCopied
<1>. HIDE DEF half
<1>5. Copied("cvar", from, half, new)
  BY <1>2, <1>4, ConstraintVarsCopied DEF Copied
<1>. HIDE DEF new
<1>6. /\ Sane(new) /\ new.failed = FALSE /\ DOMAIN estimate \subseteq DOMAIN new.est
      /\ IsEstimate(new.est) /\ new \in Things
  <2>1. Sane(new) /\ Carried(base, half) /\ Carried(half, new)
    BY <1>4, <1>5 DEF Copied
  <2>. QED
    BY <1>2, <1>3, <2>1 DEF Carried, Sane
<1>7. Sane(old) /\ \A k, w : Holds(old, k, w) <=> Holds(from, k, w)
  BY <1>2, <1>6, TreeMoved
<1>8. /\ old.est = new.est /\ old.object = from.object /\ old.unboxed = from.unboxed
      /\ old.failed = FALSE
  <2>1. from \in Things
    BY <1>2 DEF Sane
  <2>. QED
    BY <1>2, <2>1 DEF Things
<1>. HIDE DEF old
<1>9. /\ Sane(orig) /\ orig.cls = o /\ orig.object = old.object /\ orig.unboxed = old.unboxed
      /\ orig.failed = old.failed /\ DOMAIN old.est \subseteq DOMAIN orig.est
      /\ \A k, w : Holds(orig, k, w) <=> Holds(old, k, w)
  <2>1. o \in Classes
    BY DEF Classes
  <2>. QED
    BY <1>7, <2>1, ClassChanged
<1>. HIDE DEF orig
<1>10. IsEstimate(orig.est) /\ orig \in Things
  BY <1>9 DEF Sane
<1>11. Sane(late) /\ \A k, w : Holds(late, k, w) <=> Holds(new, k, w)
  BY <1>6, <1>8, <1>9, <1>10, TreeMoved
<1>12. late.est = orig.est /\ late.failed = FALSE
  BY <1>6 DEF Things
<1>. HIDE DEF late
<1>13. /\ Sane(moved) /\ moved.cls = p /\ moved.failed = late.failed
       /\ DOMAIN late.est \subseteq DOMAIN moved.est
       /\ \A k, w : Holds(moved, k, w) <=> Holds(late, k, w)
  <2>1. p \in Classes
    BY DEF Classes
  <2>. QED
    BY <1>11, <2>1, ClassChanged
<1>. HIDE DEF moved
<1>14. /\ Sane(copy) /\ Carried(moved, copy)
       /\ \A family, n, w : Holds(copy, <<family, n>>, w) <=>
            IF family = "flag" /\ n \in Flags /\ IsSet(from, n) THEN w = TRUE
            ELSE Holds(moved, <<family, n>>, w)
  BY <1>2, <1>13, Infected
<1>. HIDE DEF copy
<1>15. /\ copy.failed = FALSE /\ copy.cls = p /\ DOMAIN orig.est \subseteq DOMAIN copy.est
       /\ IsEstimate(copy.est) /\ copy \in Things
  BY <1>12, <1>13, <1>14 DEF Carried, Sane
<1>16. Sane(kept) /\ \A k, w : Holds(kept, k, w) <=> Holds(orig, k, w)
  BY <1>9, <1>15, TreeMoved
<1>17. /\ kept = [cls |-> o, path |-> orig.path, object |-> orig.object, unboxed |-> orig.unboxed,
                  est |-> copy.est, failed |-> orig.failed]
  BY <1>9, <1>10 DEF Things
<1>. HIDE DEF kept
<1>18. DOMAIN estimate \subseteq DOMAIN estimate' /\ IsEstimate(estimate)' /\ failed' = FALSE
  BY <1>1, <1>6, <1>8, <1>9, <1>15
<1>19. o # p
  BY <1>1
<1>20. /\ MapOf(orig) \in Maps /\ MapOf(copy) \in Maps /\ StorageOf(copy) \in Storages
  BY <1>10, <1>15 DEF MapOf, StorageOf, Maps, Storages, Things
<1>21. /\ map' \in [Objects -> {Nil} \cup Maps] /\ storage' \in [Objects -> Storages]
       /\ map'[o] = MapOf(orig) /\ map'[p] = MapOf(copy)
       /\ storage'[o] = storage[o] /\ storage'[p] = StorageOf(copy)
       /\ \A q \in Objects \ {o, p} : map'[q] = map[q] /\ storage'[q] = storage[q]
  BY <1>1, <1>19, <1>20 DEF Inv
<1>22. Object(o)' = kept
  BY <1>1, <1>2, <1>8, <1>9, <1>15, <1>17, <1>21 DEF Object, MapOf
<1>23. Object(p)' = copy
  <2>1. Object(p)' = [cls |-> copy.cls, path |-> copy.path, object |-> copy.object,
                      unboxed |-> copy.unboxed, est |-> copy.est, failed |-> copy.failed]
    BY <1>1, <1>21 DEF Object, MapOf, StorageOf
  <2>. QED
    BY <1>15, <2>1 DEF Things
<1>24. map'[o].cls = o /\ map'[p].cls = p
  BY <1>9, <1>15, <1>21 DEF MapOf
<1>25. Inv'
  <2>1. ASSUME NEW q \in Objects, Allocated(q)'
        PROVE  map'[q].cls \in {Class, q} /\ Sane(Object(q))'
    <3>1. CASE q = o
      BY <1>16, <1>22, <1>24, <3>1
    <3>2. CASE q = p
      BY <1>14, <1>23, <1>24, <3>2
    <3>3. CASE q \notin {o, p}
      <4>1. Allocated(q) /\ map'[q] = map[q] /\ storage'[q] = storage[q]
        BY <1>21, <2>1, <3>3 DEF Allocated
      <4>. QED
        BY <1>18, <4>1, Untouched
    <3>. QED
      BY <3>1, <3>2, <3>3
  <2>. QED
    BY <1>18, <1>21, <2>1 DEF Inv
<1>26. Allocated(o)' /\ Allocated(p)'
  BY <1>20, <1>21, NilAssumption DEF Allocated, Maps, Classes
<1>27. ASSUME NEW n, NEW w
       PROVE  /\ Holds(copy, <<"attribute", n>>, w) <=> Holds(from, <<"attribute", n>>, w)
              /\ Holds(copy, <<"cvar", n>>, w) <=> Holds(from, <<"cvar", n>>, w)
              /\ Holds(copy, <<"flag", n>>, w) <=> n \in Flags /\ IsSet(from, n) /\ w = TRUE
  <2>1. \A key : ~Holds(base, key, w)
    BY <1>3, AbsentHoldsNone
  <2>2. /\ Holds(half, <<"attribute", n>>, w) <=> Holds(from, <<"attribute", n>>, w)
        /\ ~Holds(half, <<"cvar", n>>, w) /\ ~Holds(half, <<"flag", n>>, w)
    BY <1>4, <2>1 DEF Copied
  <2>3. /\ Holds(new, <<"attribute", n>>, w) <=> Holds(from, <<"attribute", n>>, w)
        /\ Holds(new, <<"cvar", n>>, w) <=> Holds(from, <<"cvar", n>>, w)
        /\ ~Holds(new, <<"flag", n>>, w)
    BY <1>5, <2>2 DEF Copied
  <2>4. \A key : Holds(moved, key, w) <=> Holds(new, key, w)
    BY <1>11, <1>13
  <2>. QED
    BY <1>14, <2>3, <2>4
<1>28. CopyOf(from, Flags, copy)
  BY <1>14, <1>27 DEF CopyOf
<1>. QED
  BY <1>1, <1>9, <1>7, <1>16, <1>18, <1>21, <1>22, <1>23, <1>25, <1>26, <1>28 DEF Clones, from

-----------------------------------------------------------------------------
(* Theorems.                                                                *)

LEMMA InitInv == Init => Inv /\ ~failed
<1>. SUFFICES ASSUME Init PROVE Inv /\ ~failed
  OBVIOUS
<1>1. /\ map = [o \in Objects |-> Nil] /\ failed = FALSE
      /\ storage = [o \in Objects |-> [object |-> <<>>, unboxed |-> <<>>]]
      /\ estimate = GetClassNode(<<>>, Class)
  BY DEF Init
<1>2. IsEstimate(<<>>)
  <2>1. <<>> \in [{} -> Sizes] /\ {} \in SUBSET Tree /\ DOMAIN <<>> = {}
    OBVIOUS
  <2>. QED
    BY <2>1 DEF IsEstimate
<1>3. IsEstimate(estimate)
  BY <1>1, <1>2, ClassNodeGot DEF Classes
<1>4. storage \in [Objects -> Storages]
  BY <1>1 DEF Storages
<1>. QED
  BY <1>1, <1>3, <1>4 DEF Inv, Allocated

(* Every step is one of these.                                              *)
Puttings(o) ==
  \E y : /\ Turns(o, y) /\ Allocated(o)
         /\ \/ \E n \in Names, v \in Values : Puts(Object(o), <<"attribute", n>>, v, y)
            \/ \E f \in Flags, b \in BOOLEAN : Puts(Object(o), <<"flag", f>>, b, y)
            \/ \E n \in Names : /\ Puts(Object(o), <<"cvar", n>>, o, y)
                                /\ Find(Object(o).path, {"cvar"}, n) = 0
Makings(o) ==
  \E y : /\ Turns(o, y) /\ ~Allocated(o)
         /\ \/ Sane(y) /\ \A key : Absent(y, key)
            \/ \E p \in Objects : Allocated(p) /\ CopyOf(Object(p), Infectious, y)
Keepings(o) ==
  \E y : /\ Turns(o, y) /\ Sane(y) /\ Allocated(o)
         /\ \A k, w : Holds(y, k, w) <=> Holds(Object(o), k, w)
Raises == "retype" \in UserOps /\ Inv' /\ map' = map /\ storage' = storage

LEMMA Steps ==
  ASSUME Inv, Next
  PROVE  \/ \E o \in Objects : Puttings(o) \/ Makings(o) \/ Keepings(o)
         \/ \E o, p \in Objects : Clones(o, p)
         \/ Raises
<1>1. ~failed
  BY DEF Next
<1>2. PICK o \in Objects, jitted \in BOOLEAN :
        \/ Allocate(o)
        \/ \E n \in Names, v \in Values : SetAttr(o, n, v, jitted)
        \/ \E f \in Flags : SetFlag(o, f, jitted) \/ UnsetFlag(o, f)
        \/ \E n \in Names : NewConstraintVar(o, n, jitted)
        \/ GetSingletonClass(o)
        \/ \E p \in Objects : Dup(o, p, jitted) \/ Clone(o, p, jitted)
  BY DEF Next
<1>3. CASE Allocate(o)
  <2>1. ~Allocated(o)
    BY <1>3 DEF Allocate
  <2>. QED
    BY <1>1, <1>3, <2>1, AllocateTurns DEF Makings
<1>4. ASSUME NEW n \in Names, NEW v \in Values, SetAttr(o, n, v, jitted)
      PROVE  Puttings(o) \/ Raises
  <2>1. Allocated(o)
    BY <1>4 DEF SetAttr
  <2>. QED
    BY <1>1, <1>4, <2>1, SetAttrTurns DEF Puttings, Raises
<1>5. ASSUME NEW f \in Flags, SetFlag(o, f, jitted) \/ UnsetFlag(o, f)
      PROVE  Puttings(o)
  <2>1. Allocated(o)
    BY <1>5 DEF SetFlag, UnsetFlag
  <2>2. CASE SetFlag(o, f, jitted)
    BY <1>1, <2>1, <2>2, SetFlagTurns DEF Puttings
  <2>3. CASE UnsetFlag(o, f)
    BY <1>1, <2>1, <2>3, UnsetFlagTurns DEF Puttings
  <2>. QED
    BY <1>5, <2>2, <2>3
<1>6. ASSUME NEW n \in Names, NewConstraintVar(o, n, jitted)
      PROVE  Puttings(o)
  <2>1. Allocated(o)
    BY <1>6 DEF NewConstraintVar
  <2>. QED
    BY <1>1, <1>6, <2>1, ConstraintVarTurns DEF Puttings
<1>7. CASE GetSingletonClass(o)
  BY <1>1, <1>7, SingletonTurns DEF Keepings
<1>8. ASSUME NEW p \in Objects, Dup(o, p, jitted)
      PROVE  Makings(p)
  BY <1>1, <1>8, DupTurns DEF Makings
<1>9. ASSUME NEW p \in Objects, Clone(o, p, jitted)
      PROVE  Clones(o, p)
  BY <1>1, <1>9, CloneTurns
<1>. QED
  BY <1>2, <1>3, <1>4, <1>5, <1>6, <1>7, <1>8, <1>9

LEMMA NextInv ==
  ASSUME Inv, [Next]_vars
  PROVE  Inv' /\ ("retype" \notin UserOps /\ ~failed => ~failed')
<1>1. CASE Next
  <2>1. CASE \E o \in Objects : Puttings(o) \/ Makings(o) \/ Keepings(o)
    BY <2>1 DEF Puttings, Makings, Keepings, Turns
  <2>2. CASE \E o, p \in Objects : Clones(o, p)
    BY <2>2 DEF Clones
  <2>3. CASE Raises
    BY <2>3 DEF Raises
  <2>. QED
    BY <1>1, <2>1, <2>2, <2>3, Steps
<1>2. CASE UNCHANGED vars
  <2>1. map' = map /\ storage' = storage /\ estimate' = estimate /\ failed' = failed
    BY <1>2 DEF vars
  <2>2. \A o : Object(o)' = Object(o) /\ (Allocated(o)' <=> Allocated(o))
    BY <2>1 DEF Object, Allocated
  <2>. QED
    BY <2>1, <2>2 DEF Inv
<1>. QED
  BY <1>1, <1>2

(* Every object, through all retypings, moves and growing arrays, has a path *)
(* of different names, each with a slot in its array that holds a value of  *)
(* the node's type, in a tree of nodes closed under parents whose size      *)
(* estimates suffice.                                                       *)
THEOREM AlwaysSane == Spec => []Inv
<1>1. Init => Inv
  BY InitInv
<1>2. Inv /\ [Next]_vars => Inv'
  BY NextInv
<1>. QED
  BY <1>1, <1>2, PTL DEF Spec

LEMMA InvWellFormed == Inv => WellFormed
<1>. SUFFICES ASSUME Inv PROVE WellFormed
  OBVIOUS
<1>1. ASSUME NEW o \in Objects, Allocated(o)
      PROVE  map[o].cls \in {Class, o} /\ map[o].path \in Seq(Nodes) /\ Unique(map[o].path)
  <2>1. Sane(Object(o)) /\ Object(o).path = map[o].path /\ map[o].cls \in {Class, o}
    BY <1>1 DEF Inv, Object
  <2>. QED
    BY <2>1 DEF Sane, Things
<1>2. ASSUME NEW o \in Objects, NEW a \in {"object", "unboxed"}
      PROVE  storage[o][a] \in Seq(Stored)
  <2>1. storage[o] \in Storages
    BY DEF Inv
  <2>. QED
    BY <2>1 DEF Storages
<1>3. ASSUME NEW node \in DOMAIN estimate
      PROVE  estimate[node] \in Sizes
  <2>1. PICK D \in SUBSET Tree : estimate \in [D -> Sizes]
    BY DEF Inv, IsEstimate
  <2>. QED
    BY <2>1
<1>4. TypeOK
  BY <1>1, <1>2, <1>3 DEF TypeOK, Inv, Allocated, Stored, Sizes, ArrayNames
<1>5. NoDuplicates
  BY <1>1 DEF NoDuplicates, Unique, Key
<1>. QED
  BY <1>4, <1>5 DEF WellFormed

(* A path names an attribute, flag or constraint variable once, so nothing  *)
(* is left behind when an attribute changes its type (remove_attr and       *)
(* add_attr of mapdict.py), and map, arrays and estimates are well typed.   *)
THEOREM AlwaysWellFormed == Spec => []WellFormed
BY AlwaysSane, InvWellFormed, PTL

LEMMA InvSuffices == Inv => EstimatesSuffice
<1>. SUFFICES ASSUME Inv, NEW node \in DOMAIN estimate, NEW i \in DOMAIN node[2]
              PROVE  Slot(node[2], i) <= Size(estimate[node][ArrayOf(node[2][i].kind)])
  BY DEF EstimatesSuffice
<1>1. IsEstimate(estimate)
  BY DEF Inv
<1>2. PICK c \in Classes, path \in Seq(Nodes) : node = <<c, path>>
  BY <1>1 DEF IsEstimate, Tree
<1>3. Suffices(estimate[node], path)
  BY <1>1, <1>2 DEF IsEstimate
<1>. QED
  BY <1>2, <1>3 DEF Suffices

(* No average ever falls below what its node needs, whatever objects move   *)
(* it and in whatever order, compiled or not; and unless an attribute that  *)
(* lies under a flag is set to a value of another type, no call reads or    *)
(* writes out of an array's bounds or finds no way to remove a node.        *)
THEOREM NeverFails ==
  ASSUME "retype" \notin UserOps
  PROVE  Spec => []NoFailure
<1>1. Init => Inv /\ ~failed
  BY InitInv
<1>2. (Inv /\ ~failed) /\ [Next]_vars => (Inv /\ ~failed)'
  BY NextInv
<1>3. Inv /\ ~failed => NoFailure
  BY InvSuffices DEF NoFailure
<1>. QED
  BY <1>1, <1>2, <1>3, PTL DEF Spec

(* Even in programs whose calls may raise, no average falls below what its  *)
(* node needs (SizeEstimate.update_from in mapdict.py).                     *)
THEOREM AlwaysSuffices == Spec => []EstimatesSuffice
BY AlwaysSane, InvSuffices, PTL

-----------------------------------------------------------------------------
(* What the program sees of an object.                                      *)

Seen(x) == [attr |-> [n \in Names |-> Found(x, Types, n)],
            flag |-> {f \in Flags : IsSet(x, f)},
            cvar |-> [n \in Names |-> Found(x, {"cvar"}, n)]]
Records == [attr : [Names -> Values \cup {Nil}], flag : SUBSET Flags,
            cvar : [Names -> Objects \cup {Nil}]]

LEMMA FamilyKinds ==
  /\ KindsOf("attribute") = Types /\ KindsOf("flag") = {"flag"} /\ KindsOf("cvar") = {"cvar"}
  /\ Families = {"attribute", "flag", "cvar"}
BY DEF KindsOf, Families

LEMMA FoundSame ==
  ASSUME NEW x, Sane(x), NEW y, Sane(y), NEW family \in Families, NEW n,
         \A w : Holds(y, <<family, n>>, w) <=> Holds(x, <<family, n>>, w)
  PROVE  Found(y, KindsOf(family), n) = Found(x, KindsOf(family), n)
<1>1. CASE Absent(x, <<family, n>>)
  <2>1. Absent(y, <<family, n>>)
    BY <1>1, AbsentHoldsNone
  <2>. QED
    BY <1>1, <2>1, FoundHeld
<1>2. CASE ~Absent(x, <<family, n>>)
  <2>1. Holds(x, <<family, n>>, Found(x, KindsOf(family), n))
    BY <1>2, FoundHeld
  <2>2. Holds(y, <<family, n>>, Found(x, KindsOf(family), n))
    BY <2>1
  <2>. QED
    BY <2>2, FoundHeld
<1>. QED
  BY <1>1, <1>2

LEMMA FoundTyped ==
  ASSUME NEW x, Sane(x), NEW n
  PROVE  /\ Found(x, Types, n) \in Values \cup {Nil}
         /\ Found(x, {"cvar"}, n) \in Objects \cup {Nil}
<1>1. ASSUME NEW family \in {"attribute", "cvar"}
      PROVE  \/ Found(x, KindsOf(family), n) = Nil
             \/ \E i \in DOMAIN x.path : /\ x.path[i].kind \in KindsOf(family)
                                         /\ Found(x, KindsOf(family), n) = Read(x, i)
  <2>. DEFINE i == Find(x.path, KindsOf(family), n)
  <2>1. family \in Families
    BY DEF Families
  <2>2. \/ i = 0
        \/ i \in DOMAIN x.path /\ x.path[i].kind \in KindsOf(family)
    BY <2>1, FindKey
  <2>3. Found(x, KindsOf(family), n) = IF i = 0 THEN Nil ELSE Read(x, i)
    BY DEF Found
  <2>. HIDE DEF i
  <2>. QED
    BY <2>2, <2>3
<1>2. ASSUME NEW i \in DOMAIN x.path
      PROVE  Belongs(x.path[i], Read(x, i))
  BY ReadPlaced DEF Sane
<1>3. Found(x, Types, n) \in Values \cup {Nil}
  BY <1>1, <1>2, FamilyKinds DEF Belongs
<1>4. Found(x, {"cvar"}, n) \in Objects \cup {Nil}
  BY <1>1, <1>2, FamilyKinds DEF Belongs
<1>. QED
  BY <1>3, <1>4

LEMMA SeenTyped ==
  ASSUME NEW x, Sane(x)
  PROVE  Seen(x) \in Records /\ Seen(x) # Nil
<1>1. Seen(x) \in Records
  BY FoundTyped DEF Seen, Records
<1>. QED
  BY <1>1, NilAssumption DEF Records

LEMMA SeenSame ==
  ASSUME NEW x, Sane(x), NEW y, Sane(y), \A k, w : Holds(y, k, w) <=> Holds(x, k, w)
  PROVE  Seen(y) = Seen(x)
<1>1. ASSUME NEW n \in Names
      PROVE  /\ Found(y, Types, n) = Found(x, Types, n)
             /\ Found(y, {"cvar"}, n) = Found(x, {"cvar"}, n)
  <2>1. ASSUME NEW family \in Families
        PROVE  Found(y, KindsOf(family), n) = Found(x, KindsOf(family), n)
    BY FoundSame
  <2>. QED
    BY <2>1, FamilyKinds
<1>2. \A f \in Flags : IsSet(y, f) <=> IsSet(x, f)
  BY IsSetHolds
<1>. QED
  BY <1>1, <1>2 DEF Seen

LEMMA SeenFresh ==
  ASSUME NEW x, Sane(x), \A key : Absent(x, key)
  PROVE  Seen(x) = Attributes!Fresh
<1>1. \A n \in Names : Found(x, Types, n) = Nil /\ Found(x, {"cvar"}, n) = Nil
  BY FoundHeld, FamilyKinds
<1>2. \A f \in Flags : ~IsSet(x, f)
  BY IsSetHolds, AbsentHoldsNone
<1>. QED
  BY <1>1, <1>2 DEF Seen, Attributes!Fresh

Trims(x, fs, y) == Seen(y) = [Seen(x) EXCEPT !.flag = @ \cap fs]

LEMMA SeenCopy ==
  ASSUME NEW x, Sane(x), NEW fs \in SUBSET Flags, NEW y, CopyOf(x, fs, y)
  PROVE  Trims(x, fs, y)
<1>1. /\ Sane(y)
      /\ \A n, w : Holds(y, <<"attribute", n>>, w) <=> Holds(x, <<"attribute", n>>, w)
      /\ \A n, w : Holds(y, <<"cvar", n>>, w) <=> Holds(x, <<"cvar", n>>, w)
      /\ \A f, w : Holds(y, <<"flag", f>>, w) <=> f \in fs /\ IsSet(x, f) /\ w = TRUE
  BY DEF CopyOf
<1>2. ASSUME NEW n
      PROVE  /\ Found(y, Types, n) = Found(x, Types, n)
             /\ Found(y, {"cvar"}, n) = Found(x, {"cvar"}, n)
  <2>1. ASSUME NEW family \in {"attribute", "cvar"}
        PROVE  Found(y, KindsOf(family), n) = Found(x, KindsOf(family), n)
    <3>1. family \in Families /\ \A w : Holds(y, <<family, n>>, w) <=> Holds(x, <<family, n>>, w)
      BY <1>1, FamilyKinds
    <3>. QED
      BY <1>1, <3>1, FoundSame
  <2>. QED
    BY <2>1, FamilyKinds
<1>3. \A f \in Flags : IsSet(y, f) <=> f \in fs /\ IsSet(x, f)
  BY <1>1, IsSetHolds
<1>4. {f \in Flags : IsSet(y, f)} = {f \in Flags : IsSet(x, f)} \cap fs
  BY <1>3
<1>5. /\ Seen(y).attr = Seen(x).attr /\ Seen(y).cvar = Seen(x).cvar
      /\ Seen(y).flag = Seen(x).flag \cap fs
  BY <1>2, <1>4 DEF Seen
<1>6. \A z : Seen(z) = [attr |-> Seen(z).attr, flag |-> Seen(z).flag, cvar |-> Seen(z).cvar]
  BY DEF Seen
<1>. HIDE DEF Seen
<1>. QED
  BY <1>5, <1>6 DEF Trims

(* Putting a value changes one name of one family.                          *)
Alters(x, family, n, v, y) ==
  /\ family = "attribute" /\ n \in Names => Seen(y) = [Seen(x) EXCEPT !.attr[n] = v]
  /\ family = "cvar" /\ n \in Names => Seen(y) = [Seen(x) EXCEPT !.cvar[n] = v]
  /\ family = "flag" /\ n \in Flags /\ v = TRUE
       => Seen(y) = [Seen(x) EXCEPT !.flag = @ \cup {n}]
  /\ family = "flag" /\ n \in Flags /\ v = FALSE
       => Seen(y) = [Seen(x) EXCEPT !.flag = @ \ {n}]

LEMMA SeenPut ==
  ASSUME NEW x, Sane(x), NEW family \in Families, NEW n, NEW v, NEW y,
         Puts(x, <<family, n>>, v, y)
  PROVE  Alters(x, family, n, v, y)
<1>1. /\ Sane(y) /\ Holds(y, <<family, n>>, v)
      /\ \A other, m, w : <<other, m>> # <<family, n>>
           => (Holds(y, <<other, m>>, w) <=> Holds(x, <<other, m>>, w))
  BY DEF Puts
<1>2. ASSUME NEW other \in Families, NEW m, other # family \/ m # n
      PROVE  Found(y, KindsOf(other), m) = Found(x, KindsOf(other), m)
  <2>1. <<other, m>> # <<family, n>>
    BY <1>2
  <2>2. \A w : Holds(y, <<other, m>>, w) <=> Holds(x, <<other, m>>, w)
    BY <1>1, <2>1
  <2>. QED
    BY <1>1, <2>2, FoundSame
<1>3. Found(y, KindsOf(family), n) = v
  BY <1>1, FoundHeld
<1>4. \A f : family # "flag" \/ f # n => (IsSet(y, f) <=> IsSet(x, f))
  BY <1>1, IsSetHolds
<1>5. family = "flag" => (IsSet(y, n) <=> v = TRUE)
  BY IsSetHolds, <1>1 DEF Puts
<1>. DEFINE attrs(z) == [m \in Names |-> Found(z, Types, m)]
            cvars(z) == [m \in Names |-> Found(z, {"cvar"}, m)]
            flags(z) == {f \in Flags : IsSet(z, f)}
<1>6. /\ \A m : \/ family = "attribute" /\ m = n
               \/ Found(y, Types, m) = Found(x, Types, m)
      /\ \A m : \/ family = "cvar" /\ m = n
               \/ Found(y, {"cvar"}, m) = Found(x, {"cvar"}, m)
      /\ family = "attribute" => Found(y, Types, n) = v
      /\ family = "cvar" => Found(y, {"cvar"}, n) = v
  BY <1>2, <1>3, FamilyKinds
<1>7. /\ family # "attribute" => attrs(y) = attrs(x)
      /\ family # "cvar" => cvars(y) = cvars(x)
      /\ family # "flag" => flags(y) = flags(x)
      /\ family = "attribute" /\ n \in Names => attrs(y) = [attrs(x) EXCEPT ![n] = v]
      /\ family = "cvar" /\ n \in Names => cvars(y) = [cvars(x) EXCEPT ![n] = v]
  BY <1>4, <1>6
<1>8. family = "flag" /\ n \in Flags =>
        flags(y) = IF v = TRUE THEN flags(x) \cup {n} ELSE flags(x) \ {n}
  BY <1>4, <1>5
<1>9. \A z : Seen(z) = [attr |-> attrs(z), flag |-> flags(z), cvar |-> cvars(z)]
  BY DEF Seen
<1>. HIDE DEF attrs, cvars, flags
<1>. QED
  BY <1>7, <1>8, <1>9 DEF Alters

(* The refinement.  The abstract objects are what the program sees.         *)
Visible ==
  [o \in Objects |->
     IF ~Allocated(o) THEN Nil
     ELSE LET x == Object(o)
          IN  [attr |-> [n \in Names |-> Found(x, Types, n)],
               flag |-> {f \in Flags : IsSet(x, f)},
               cvar |-> [n \in Names |-> Found(x, {"cvar"}, n)]]]

LEMMA VisibleIs ==
  ASSUME NEW o \in Objects
  PROVE  /\ Visible[o] = IF ~Allocated(o) THEN Nil ELSE Seen(Object(o))
         /\ Visible'[o] = IF ~Allocated(o)' THEN Nil ELSE Seen(Object(o)')
BY DEF Visible, Seen

(* An object that an operation leaves alone looks the same.                 *)
LEMMA VisibleKept ==
  ASSUME Inv, Inv', ~failed', DOMAIN estimate \subseteq DOMAIN estimate',
         NEW o \in Objects, map'[o] = map[o], storage'[o] = storage[o]
  PROVE  Visible'[o] = Visible[o]
<1>1. CASE ~Allocated(o)
  BY <1>1, VisibleIs DEF Allocated
<1>2. CASE Allocated(o)
  <2>1. Allocated(o)'
    BY <1>2 DEF Allocated
  <2>2. IsEstimate(estimate)' /\ failed' \in BOOLEAN
    BY DEF Inv
  <2>3. Sane(Object(o))' /\ \A k, w : Holds(Object(o), k, w)' <=> Holds(Object(o), k, w)
    BY <1>2, <2>2, Untouched
  <2>4. Seen(Object(o)') = Seen(Object(o))
    BY <1>2, <2>3, ObjectIs, SeenSame
  <2>. QED
    BY <1>2, <2>1, <2>4, VisibleIs
<1>. QED
  BY <1>1, <1>2

(* What one object turns into is all the program sees of a step.            *)
LEMMA TurnsSeen ==
  ASSUME Inv, NEW o \in Objects, NEW y, Turns(o, y), Sane(y)
  PROVE  Visible'[o] = Seen(y) /\ \A p \in Objects \ {o} : Visible'[p] = Visible[p]
<1>1. /\ Inv' /\ ~failed' /\ Object(o)' = y /\ map'[o] = MapOf(y)
      /\ \A p \in Objects \ {o} : map'[p] = map[p] /\ storage'[p] = storage[p]
      /\ DOMAIN estimate \subseteq DOMAIN estimate'
  BY DEF Turns
<1>2. Allocated(o)'
  <2>1. MapOf(y) \in Maps
    BY DEF MapOf, Maps, Sane, Things
  <2>. QED
    BY <1>1, <2>1, NilAssumption DEF Allocated, Maps, Classes
<1>3. \A p \in Objects \ {o} : Visible'[p] = Visible[p]
  BY <1>1, VisibleKept
<1>. QED
  BY <1>1, <1>2, <1>3, VisibleIs

LEMMA PuttingsOperate ==
  ASSUME Inv, NEW o \in Objects, Puttings(o)
  PROVE  Attributes!Operate(o)
<1>1. PICK y : /\ Turns(o, y) /\ Allocated(o)
               /\ \/ \E n \in Names, v \in Values : Puts(Object(o), <<"attribute", n>>, v, y)
                  \/ \E f \in Flags, b \in BOOLEAN : Puts(Object(o), <<"flag", f>>, b, y)
                  \/ \E n \in Names : /\ Puts(Object(o), <<"cvar", n>>, o, y)
                                      /\ Find(Object(o).path, {"cvar"}, n) = 0
  BY DEF Puttings
<1>. DEFINE x == Object(o)
<1>2. Sane(x) /\ Sane(y)
  BY <1>1, ObjectIs DEF Puts
<1>3. Visible[o] = Seen(x) /\ Seen(x) # Nil
  BY <1>1, <1>2, VisibleIs, SeenTyped
<1>4. Visible'[o] = Seen(y) /\ \A p \in Objects \ {o} : Visible'[p] = Visible[p]
  BY <1>1, <1>2, TurnsSeen
<1>5. "attribute" \in Families /\ "flag" \in Families /\ "cvar" \in Families
  BY DEF Families
<1>. HIDE DEF x
<1>6. Seen(y) \in Attributes!Changed(o, Seen(x))
  <2>1. ASSUME NEW n \in Names, NEW v \in Values, Puts(x, <<"attribute", n>>, v, y)
        PROVE  Seen(y) \in Attributes!Changed(o, Seen(x))
    <3>1. Seen(y) = [Seen(x) EXCEPT !.attr[n] = v]
      <4>1. Alters(x, "attribute", n, v, y)
        BY <1>2, <1>5, <2>1, SeenPut
      <4>. QED
        BY <4>1 DEF Alters
    <3>. QED
      BY <3>1 DEF Attributes!Changed
  <2>2. ASSUME NEW f \in Flags, NEW b \in BOOLEAN, Puts(x, <<"flag", f>>, b, y)
        PROVE  Seen(y) \in Attributes!Changed(o, Seen(x))
    <3>1. \/ Seen(y) = [Seen(x) EXCEPT !.flag = @ \cup {f}]
          \/ Seen(y) = [Seen(x) EXCEPT !.flag = @ \ {f}]
      <4>1. Alters(x, "flag", f, b, y) /\ b \in {TRUE, FALSE}
        BY <1>2, <1>5, <2>2, SeenPut
      <4>. QED
        BY <4>1 DEF Alters
    <3>. QED
      BY <3>1 DEF Attributes!Changed
  <2>3. ASSUME NEW n \in Names, Puts(x, <<"cvar", n>>, o, y), Find(x.path, {"cvar"}, n) = 0
        PROVE  Seen(y) \in Attributes!Changed(o, Seen(x))
    <3>1. Seen(y) = [Seen(x) EXCEPT !.cvar[n] = o]
      <4>1. Alters(x, "cvar", n, o, y)
        BY <1>2, <1>5, <2>3, SeenPut
      <4>. QED
        BY <4>1 DEF Alters
    <3>. DEFINE made == {[Seen(x) EXCEPT !.cvar[m] = o] : m \in {m \in Names : Seen(x).cvar[m] = Nil}}
    <3>2. Seen(x).cvar[n] = Nil
      BY <2>3 DEF Seen, Found
    <3>. HIDE DEF Seen
    <3>3. Seen(y) \in made
      BY <3>1, <3>2
    <3>4. made \subseteq Attributes!Changed(o, Seen(x))
      BY DEF Attributes!Changed
    <3>. HIDE DEF made
    <3>. QED
      BY <3>3, <3>4
  <2>. QED
    BY <1>1, <2>1, <2>2, <2>3 DEF x
<1>. QED
  BY <1>3, <1>4, <1>6 DEF Attributes!Operate, Visible

LEMMA MakingsOperate ==
  ASSUME Inv, NEW o \in Objects, Makings(o)
  PROVE  Attributes!Operate(o)
<1>1. PICK y : /\ Turns(o, y) /\ ~Allocated(o)
               /\ \/ Sane(y) /\ \A key : Absent(y, key)
                  \/ \E p \in Objects : Allocated(p) /\ CopyOf(Object(p), Infectious, y)
  BY DEF Makings
<1>2. Sane(y)
  BY <1>1 DEF CopyOf
<1>3. Visible[o] = Nil
  BY <1>1, VisibleIs
<1>4. Visible'[o] = Seen(y) /\ \A p \in Objects \ {o} : Visible'[p] = Visible[p]
  BY <1>1, <1>2, TurnsSeen
<1>5. Seen(y) \in Attributes!Created({Visible[p] : p \in Objects} \ {Nil})
  <2>1. CASE \A key : Absent(y, key)
    BY <1>2, <2>1, SeenFresh DEF Attributes!Created
  <2>2. ASSUME NEW p \in Objects, Allocated(p), CopyOf(Object(p), Infectious, y)
        PROVE  Seen(y) \in Attributes!Created({Visible[q] : q \in Objects} \ {Nil})
    <3>1. Sane(Object(p)) /\ Infectious \in SUBSET Flags
      BY <2>2, ObjectIs, MapdictAssumption
    <3>2. Trims(Object(p), Infectious, y)
      BY <2>2, <3>1, SeenCopy
    <3>3. Visible[p] = Seen(Object(p)) /\ Visible[p] # Nil
      BY <2>2, <3>1, VisibleIs, SeenTyped
    <3>. DEFINE others == {Visible[q] : q \in Objects} \ {Nil}
    <3>4. Visible[p] \in others
      BY <3>3
    <3>5. Seen(y) = Attributes!Copy(Visible[p], Infectious)
      BY <3>2, <3>3 DEF Trims, Attributes!Copy
    <3>. HIDE DEF others
    <3>6. Seen(y) \in Attributes!Created(others)
      BY <3>4, <3>5 DEF Attributes!Created
    <3>. QED
      BY <3>6 DEF others
  <2>. QED
    BY <1>1, <2>1, <2>2
<1>. QED
  BY <1>3, <1>4, <1>5 DEF Attributes!Operate, Visible

LEMMA ClonesOperate ==
  ASSUME Inv, NEW o \in Objects, NEW p \in Objects, Clones(o, p)
  PROVE  Attributes!Operate(p)
<1>1. /\ Inv' /\ ~failed' /\ CopyOf(Object(o), Flags, Object(p)') /\ Allocated(p)'
      /\ Sane(Object(o))' /\ \A k, w : Holds(Object(o)', k, w) <=> Holds(Object(o), k, w)
      /\ \A q \in Objects \ {o, p} : map'[q] = map[q] /\ storage'[q] = storage[q]
      /\ Allocated(o) /\ Allocated(o)' /\ ~Allocated(p) /\ DOMAIN estimate \subseteq DOMAIN estimate'
  BY DEF Clones
<1>2. Sane(Object(o))
  BY <1>1, ObjectIs
<1>3. Visible[o] = Seen(Object(o)) /\ Visible[o] # Nil /\ Visible[p] = Nil
  BY <1>1, <1>2, VisibleIs, SeenTyped
<1>4. Visible'[o] = Visible[o]
  <2>1. Seen(Object(o)') = Seen(Object(o))
    BY <1>1, <1>2, SeenSame
  <2>. QED
    BY <1>1, <1>3, <2>1, VisibleIs
<1>5. \A q \in Objects \ {p} : Visible'[q] = Visible[q]
  BY <1>1, <1>4, VisibleKept
<1>6. Visible'[p] = [Visible[o] EXCEPT !.flag = @ \cap Flags]
  <2>1. Trims(Object(o), Flags, Object(p)')
    BY <1>1, <1>2, SeenCopy
  <2>2. Visible'[p] = Seen(Object(p)')
    BY <1>1, VisibleIs
  <2>. QED
    BY <1>3, <2>1, <2>2 DEF Trims
<1>7. Visible'[p] \in Attributes!Created({Visible[q] : q \in Objects} \ {Nil})
  <2>. DEFINE others == {Visible[q] : q \in Objects} \ {Nil}
  <2>1. Visible[o] \in others
    BY <1>3
  <2>. HIDE DEF others
  <2>2. Visible'[p] = Attributes!Copy(Visible[o], Flags)
    BY <1>6 DEF Attributes!Copy
  <2>3. Visible'[p] \in Attributes!Created(others)
    BY <2>1, <2>2 DEF Attributes!Created
  <2>. QED
    BY <2>3 DEF others
<1>. QED
  BY <1>3, <1>5, <1>7 DEF Attributes!Operate, Visible

(* A singleton class and a call that raises change nothing the program sees. *)
LEMMA KeepingsSeen ==
  ASSUME Inv, NEW o \in Objects, Keepings(o)
  PROVE  Visible' = Visible
<1>1. PICK y : /\ Turns(o, y) /\ Sane(y) /\ Allocated(o)
               /\ \A k, w : Holds(y, k, w) <=> Holds(Object(o), k, w)
  BY DEF Keepings
<1>2. Visible'[o] = Seen(y) /\ \A p \in Objects \ {o} : Visible'[p] = Visible[p]
  BY <1>1, TurnsSeen
<1>3. Seen(y) = Seen(Object(o))
  BY <1>1, ObjectIs, SeenSame
<1>4. \A p \in Objects : Visible'[p] = Visible[p]
  BY <1>1, <1>2, <1>3, VisibleIs
<1>. QED
  BY <1>4 DEF Visible

LEMMA RaisedSeen ==
  ASSUME Inv, Inv', map' = map, storage' = storage
  PROVE  Visible' = Visible
<1>1. ASSUME NEW o \in Objects, Allocated(o)
      PROVE  Seen(Object(o)') = Seen(Object(o))
  <2>. DEFINE x == Object(o)
              y == Object(o)'
  <2>1. Allocated(o)'
    BY <1>1 DEF Allocated
  <2>2. Sane(x) /\ Sane(y)
    BY <1>1, <2>1 DEF Inv
  <2>3. y.path = x.path /\ y.object = x.object /\ y.unboxed = x.unboxed
    BY DEF Object
  <2>. HIDE DEF x, y
  <2>4. \A k, w : Holds(y, k, w) <=> Holds(x, k, w)
    BY <2>2, <2>3, SameStored DEF Sane
  <2>5. Seen(y) = Seen(x)
    BY <2>2, <2>4, SeenSame
  <2>. QED
    BY <2>5 DEF x, y
<1>2. \A o \in Objects : Visible'[o] = Visible[o]
  BY <1>1, VisibleIs DEF Allocated
<1>. QED
  BY <1>2 DEF Visible

LEMMA StepOperates ==
  ASSUME Inv, [Next]_vars
  PROVE  [\E o \in Objects : Attributes!Operate(o)]_Visible
<1>1. CASE Next
  <2>1. ASSUME NEW o \in Objects, Puttings(o) \/ Makings(o) \/ Keepings(o)
        PROVE  Attributes!Operate(o) \/ Visible' = Visible
    BY <2>1, PuttingsOperate, MakingsOperate, KeepingsSeen
  <2>2. ASSUME NEW o \in Objects, NEW p \in Objects, Clones(o, p)
        PROVE  Attributes!Operate(p)
    BY <2>2, ClonesOperate
  <2>3. CASE Raises
    <3>1. map' = map /\ storage' = storage /\ Inv'
      BY <2>3 DEF Raises
    <3>. QED
      BY <3>1, RaisedSeen
  <2>. QED
    BY <1>1, <2>1, <2>2, <2>3, Steps
<1>2. CASE UNCHANGED vars
  BY <1>2 DEF vars, Visible, Allocated, Object
<1>. QED
  BY <1>1, <1>2

(* Over shared nodes, typed slots, moves and growing arrays each object has *)
(* its own attributes, flags and constraint variables, and an operation     *)
(* changes one name of one object: objectobject.py's storage implements     *)
(* AttributeStore, whatever operations the program uses.                    *)
THEOREM StorageImplementsAttributes == Spec => ImplementsAttributes
<1>1. Init => Visible = [o \in Objects |-> Nil]
  BY DEF Init, Visible, Allocated
<1>2. Inv /\ [Next]_vars => [\E o \in Objects : Attributes!Operate(o)]_Visible
  BY StepOperates
<1>. QED
  BY <1>1, <1>2, AlwaysSane, PTL DEF Spec, ImplementsAttributes, Attributes!Spec, Attributes!Init, Visible
=============================================================================
