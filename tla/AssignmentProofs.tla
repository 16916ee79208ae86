---------------------------- MODULE AssignmentProofs ----------------------------
(* The assignment protocol of ConstrainedVariables, from begin to end: at   *)
(* each of its stages, which calls are still to come, which solvers have    *)
(* been offered the new value and which have adopted it.                    *)
EXTENDS ModelProofs

-----------------------------------------------------------------------------
(* A variable meets a solver once, a block hangs under its own solver, and  *)
(* a variable that has met a solver which supports it is in it: blocks on   *)
(* the path of a variable are run by solvers that do not know it.           *)
SlotsApart == \A x \in Vars : \A i, j \in DOMAIN solvers_w[x] :
  solvers_w[x][i] = solvers_w[x][j] => i = j
BlocksOwned == \A x \in Vars, s \in Solvers : \A j \in DOMAIN constraints_w[x][s] :
  /\ SolverOf[constraints_w[x][s][j]] = s
  /\ <<x, s>> \in Supported => s \in external[x]
PathInv == SlotsApart /\ BlocksOwned

(* The solvers in S whose slot a loop over x has still to visit at k.       *)
Left(x, k, S) == {s \in S : \E i \in DOMAIN solvers_w[x] : k <= i /\ solvers_w[x][i] = s}
OthersLeft(x, k)  == Left(x, k, Others(x))
SolversLeft(x, k) == Left(x, k, external[x])

(* What is pending below get_i: nothing when the variable is read, the rest *)
(* of the assignment when it is assigned; N are the solvers that then hold  *)
(* a proposal.                                                              *)
EndRest(x)    == <<Call("__end_assign__", <<x, 1>>)>>
AssignRest(x) == <<Call("assign others", <<x, 1>>)>> \o EndRest(x)
Below(x, r, N) ==
  \/ r = <<>> /\ N = {}
  \/ r = AssignRest(x) /\ IsSolveable(x) /\ N = {DefiningSolver(x)}

(* The stages: q is pending, the solvers M hold a proposal, those in A      *)
(* agree with the slot in the object.                                       *)
Beginning(x, q, M, A) ==
  /\ \E v \in Values : q = (<<Call("__begin_assign__", <<x, v>>)>>
       \o IfConstrained(x, Call("__assign__", x))) \o IfConstrained(x, Call("__end_assign__", <<x, 1>>))
  /\ M = {} /\ A = {}
Proposing(x, q, M, A) ==
  /\ A = {}
  /\ \/ /\ q = <<Call("__assign__", x)>> \o EndRest(x)
        /\ M = IF IsSolveable(x) THEN {DefiningSolver(x)} ELSE {}
     \/ /\ q = <<Call("solve", DefiningSolver(x)), Call("get_i", x)>> \o AssignRest(x)
        /\ IsSolveable(x) /\ M = {DefiningSolver(x)}
Following(x, q, r) ==
  \/ q = <<Call("make_not_assignable", x)>> \o r
  \/ \E i, j \in Nat : q = <<Call("recalculate_path", <<x, i, j>>)>> \o r
  \/ \E c \in Cons, i, j \in Nat :
       LET path == Call("recalculate_path", <<x, i, j>>) IN
       /\ <<x, SolverOf[c]>> \notin Supported
       /\ \/ \E f \in {"recalculate", "enable", "set_enabled"} : q = <<Call(f, c), path>> \o r
          \/ q = <<Call("solve", SolverOf[c]), Call("set_enabled", c), path>> \o r
Offering(x, q, r, M, A, N) ==
  \E k \in Nat :
    LET update == Call("update_downstream_variables", <<x, k>>)
        todo   == OthersLeft(x, k)
    IN \/ /\ q = <<update>> \o r
          /\ M = N /\ A = external[x] \ todo
       \/ \E s \in Others(x) \ todo :
            LET finish == Call("end_assign", <<x, s>>) IN
            \/ /\ q = <<Call("begin_assign", <<x, s>>), Call("solve", s), finish, update>> \o r
               /\ M = N /\ A = external[x] \ (todo \cup {s})
            \/ /\ q = <<Call("solve", s), finish, update>> \o r
               /\ M = N \cup {s} /\ A = external[x] \ (todo \cup {s})
            \/ /\ q = <<finish, update>> \o r
               /\ M = N \cup {s} /\ A = external[x] \ todo
Getting(x, q, M, A) ==
  \E r \in {<<>>, AssignRest(x)} : \E N \in SUBSET external[x] :
    /\ Below(x, r, N)
    /\ \/ q = <<Call("get_i", x)>> \o r /\ IsSolveable(x) /\ M = N /\ A = N
       \/ IsSolveable(x) /\ Offering(x, q, r, M, A, N)
       \/ Following(x, q, r) /\ M = N /\ A = external[x]
Assigning(x, q, M, A) ==
  /\ A = external[x] /\ IsSolveable(x)
  /\ \E k \in Nat :
       LET others == Call("assign others", <<x, k>>)
           todo   == OthersLeft(x, k)
       IN \/ q = <<others>> \o EndRest(x) /\ M = external[x] \ todo
          \/ \E s \in Others(x) \ todo :
               \/ /\ q = <<Call("begin_assign", <<x, s>>), Call("solve", s), others>> \o EndRest(x)
                  /\ M = external[x] \ (todo \cup {s})
               \/ /\ q = <<Call("solve", s), others>> \o EndRest(x)
                  /\ M = external[x] \ todo
Ending(x, q, M, A) ==
  /\ A = external[x]
  /\ \E k \in Nat :
       LET ends == Call("__end_assign__", <<x, k>>)
           todo == SolversLeft(x, k)
       IN \/ q = <<ends>> \o <<>> /\ M = todo
          \/ \E s \in external[x] \ todo :
               q = <<Call("end_assign", <<x, s>>), ends>> \o <<>> /\ M = todo \cup {s}
Finished(x, q, M, A) == q = <<>> /\ M = {} /\ A = external[x]
Under(x, q, M, A) ==
  \/ Proposing(x, q, M, A) \/ Getting(x, q, M, A) \/ Assigning(x, q, M, A)
  \/ Ending(x, q, M, A) \/ Finished(x, q, M, A)
Stage(x, q, M, A) == Beginning(x, q, M, A) \/ Under(x, q, M, A)

(* The solvers that hold a proposal are those of the stage; after an error  *)
(* others may, from an operation before.                                    *)
Holding(x)  == {s \in Solvers : proposal[x][s] # NoValue}
Agreeing(x) == {s \in Solvers : ValueOf(x, s) = stored[x]}
Kept(x, M, A) ==
  /\ M \subseteq Holding(x)
  /\ ~raised => /\ Holding(x) \subseteq M /\ A \subseteq Agreeing(x)
                /\ \A s \in M : proposal[x][s] = stored[x]
AtStage(x, M, A) == Stage(x, agenda, M, A) /\ Kept(x, M, A)
Enabling == \A call \in Pending : call.fn \in {"enable", "solve", "set_enabled"}
NoneElse == ~raised => leaked = {} /\ \A x \in Vars \ focus : Holding(x) = {}
StageInv ==
  /\ focus = {} => Enabling
  /\ \A x \in focus : focus = {x} /\ \E M \in SUBSET external[x] : \E A \in SUBSET external[x] : AtStage(x, M, A)
  /\ NoneElse

-----------------------------------------------------------------------------
(* The blocks on the path of a variable.                                   *)
LEMMA AppendApart ==
  ASSUME NEW S, NEW q \in Seq(S), NEW a, \A i \in DOMAIN q : q[i] # a,
         \A i, j \in DOMAIN q : q[i] = q[j] => i = j
  PROVE  \A i, j \in DOMAIN Append(q, a) : Append(q, a)[i] = Append(q, a)[j] => i = j
  OBVIOUS

LEMMA LookUpPath ==
  ASSUME Inv, PathInv, NEW x \in Vars, LookUpDefining(x), UNCHANGED <<constraints_w, external>>
  PROVE  PathInv'
<1>1. solvers_w \in [Vars -> Seq(Solvers \cup {NoSolver})]
  BY DEF Inv, TypeOK
<1>2. CASE solvers_w' = solvers_w
  BY <1>2 DEF PathInv, SlotsApart, BlocksOwned
<1>3. CASE /\ solvers_w' = [solvers_w EXCEPT ![x] = Append(@, NoSolver)]
           /\ \A i \in DOMAIN solvers_w[x] : solvers_w[x][i] # NoSolver
  <2>1. ASSUME NEW y \in Vars
        PROVE  \A i, j \in DOMAIN solvers_w'[y] : solvers_w'[y][i] = solvers_w'[y][j] => i = j
    <3>1. \A i, j \in DOMAIN solvers_w[y] : solvers_w[y][i] = solvers_w[y][j] => i = j
      BY DEF PathInv, SlotsApart
    <3>2. CASE y # x
      BY <1>1, <1>3, <3>1, <3>2
    <3>3. CASE y = x
      <4>1. solvers_w'[y] = Append(solvers_w[y], NoSolver) /\ solvers_w[y] \in Seq(Solvers \cup {NoSolver})
        BY <1>1, <1>3, <3>3
      <4>. QED
        BY <1>3, <3>1, <3>3, <4>1, AppendApart
    <3>. QED
      BY <3>2, <3>3
  <2>. QED
    BY <2>1 DEF PathInv, SlotsApart, BlocksOwned
<1>. QED
  BY <1>2, <1>3 DEF LookUpDefining

LEMMA MeetPath ==
  ASSUME Inv, PathInv, NEW c \in Cons, NEW met \in SUBSET Vars, NEW reads \in SUBSET met,
         MeetVariables(c, reads, met)
  PROVE  PathInv'
<1>. DEFINE s == SolverOf[c]
            joins == {x \in reads : Joins(x, s)}
            new(x) == x \in reads /\ \A i \in DOMAIN constraints_w[x][s] : constraints_w[x][s][i] # c
<1>1. s \in Solvers /\ reads \subseteq Vars
  BY ConstantsAssumption DEF Inv, TypeOK
<1>2. /\ solvers_w' = [x \in Vars |-> IF x \in met THEN SlotsWith(x, s) ELSE solvers_w[x]]
      /\ external' = [x \in Vars |-> IF x \in joins THEN external[x] \cup {s} ELSE external[x]]
      /\ constraints_w' = [x \in Vars |->
           IF new(x) THEN [constraints_w[x] EXCEPT ![s] = Append(@, c)] ELSE constraints_w[x]]
  BY DEF MeetVariables
<1>3. solvers_w \in [Vars -> Seq(Solvers \cup {NoSolver})]
      /\ constraints_w \in [Vars -> [Solvers -> Seq(Cons)]]
  BY DEF Inv, TypeOK
<1>4. ASSUME NEW x \in Vars
      PROVE  \A i, j \in DOMAIN solvers_w'[x] : solvers_w'[x][i] = solvers_w'[x][j] => i = j
  <2>1. /\ solvers_w[x] \in Seq(Solvers \cup {NoSolver})
        /\ \A i, j \in DOMAIN solvers_w[x] : solvers_w[x][i] = solvers_w[x][j] => i = j
    BY <1>3 DEF PathInv, SlotsApart
  <2>2. \/ solvers_w'[x] = solvers_w[x]
        \/ /\ solvers_w'[x] = Append(solvers_w[x], s)
           /\ \A i \in DOMAIN solvers_w[x] : solvers_w[x][i] # s
    BY <1>2 DEF SlotsWith
  <2>. HIDE DEF s
  <2>. QED
    BY <2>1, <2>2, AppendApart
<1>5. ASSUME NEW x \in Vars, NEW t \in Solvers, NEW j \in DOMAIN constraints_w'[x][t]
      PROVE  /\ SolverOf[constraints_w'[x][t][j]] = t
             /\ <<x, t>> \in Supported => t \in external'[x]
  <2>1. /\ \A k \in DOMAIN constraints_w[x][t] : SolverOf[constraints_w[x][t][k]] = t
        /\ DOMAIN constraints_w[x][t] # {} => (<<x, t>> \in Supported => t \in external[x])
    BY DEF PathInv, BlocksOwned
  <2>2. external[x] \subseteq external'[x]
    BY <1>2
  <2>3. CASE constraints_w'[x][t] = constraints_w[x][t]
    BY <1>5, <2>1, <2>2, <2>3
  <2>4. CASE constraints_w'[x][t] # constraints_w[x][t]
    <3>1. new(x) /\ constraints_w'[x] = [constraints_w[x] EXCEPT ![s] = Append(@, c)]
      BY <1>2, <2>4, Zenon
    <3>2. constraints_w[x] \in [Solvers -> Seq(Cons)]
      BY <1>3
    <3>. HIDE DEF new
    <3>3. t = s /\ constraints_w'[x][t] = Append(constraints_w[x][s], c)
      BY <1>1, <2>4, <3>1, <3>2
    <3>4. SolverOf[constraints_w'[x][t][j]] = t
      <4>. DEFINE q == constraints_w[x][s]
      <4>1. q \in Seq(Cons) /\ c \in Cons /\ j \in DOMAIN Append(q, c)
        BY <1>1, <1>5, <3>2, <3>3
      <4>2. \A k \in DOMAIN q : SolverOf[q[k]] = s
        BY <2>1, <3>3
      <4>3. SolverOf[c] = s
        OBVIOUS
      <4>. HIDE DEF q, s
      <4>4. Append(q, c)[j] = c \/ (j \in DOMAIN q /\ Append(q, c)[j] = q[j])
        BY <4>1
      <4>5. SolverOf[Append(q, c)[j]] = s
        BY <4>2, <4>3, <4>4, Zenon
      <4>. QED
        BY <3>3, <4>5 DEF q
    <3>5. x \in reads
      BY <3>1 DEF new
    <3>6. <<x, s>> \in Supported => s \in external'[x]
      <4>1. external'[x] = IF x \in joins THEN external[x] \cup {s} ELSE external[x]
        BY <1>2
      <4>2. <<x, s>> \in Supported => x \in joins \/ s \in external[x]
        BY <3>5 DEF Joins
      <4>. QED
        BY <4>1, <4>2
    <3>. QED
      BY <3>3, <3>4, <3>6
  <2>. QED
    BY <2>3, <2>4
<1>. QED
  BY <1>4, <1>5 DEF PathInv, SlotsApart, BlocksOwned

LEMMA MeetsPath ==
  ASSUME Inv, PathInv, NEW c \in Cons, Meets(c)
  PROVE  PathInv'
  BY MeetPath DEF Meets

LEMMA InitPath == Init => PathInv
  BY DEF Init, PathInv, SlotsApart, BlocksOwned

LEMMA NextPath == Inv /\ PathInv /\ [Next]_vars => PathInv'
<1>. SUFFICES ASSUME Inv, PathInv, [Next]_vars PROVE PathInv'
  OBVIOUS
<1>1. UNCHANGED <<solvers_w, constraints_w, external>> => PathInv'
  BY DEF PathInv, SlotsApart, BlocksOwned
<1>2. CASE UNCHANGED vars
  BY <1>1, <1>2 DEF vars, varState
<1>3. CASE Next
  BY <1>1, <1>3, RunsOrLooks, RunMeets, BreakMeets, MeetsPath, LookUpPath
<1>. QED
  BY <1>2, <1>3

-----------------------------------------------------------------------------
(* Pending calls, taken off and put in front.                              *)
Fronts(r, a, b, c, d) ==
  /\ (<<a>> \o r)[1] = a /\ Tail(<<a>> \o r) = r
  /\ (<<a, b>> \o r)[1] = a /\ Tail(<<a, b>> \o r) = <<b>> \o r
  /\ (<<a, b, c>> \o r)[1] = a /\ Tail(<<a, b, c>> \o r) = <<b, c>> \o r
  /\ (<<a, b, c, d>> \o r)[1] = a /\ Tail(<<a, b, c, d>> \o r) = <<b, c, d>> \o r
  /\ <<a>> \o (<<b>> \o r) = <<a, b>> \o r
  /\ <<a, b>> \o (<<c>> \o r) = <<a, b, c>> \o r
  /\ <<a, b, c>> \o (<<d>> \o r) = <<a, b, c, d>> \o r
  /\ <<a, b, c>> \o <<d>> = <<a, b, c, d>>

LEMMA TypedFronts ==
  ASSUME NEW C, NEW r \in Seq(C), NEW a \in C, NEW b \in C, NEW c \in C, NEW d \in C
  PROVE  Fronts(r, a, b, c, d)
<1>1. /\ <<a>> \in Seq(C) /\ <<a, b>> \in Seq(C) /\ <<a, b, c>> \in Seq(C) /\ <<a, b, c, d>> \in Seq(C)
      /\ <<b>> \in Seq(C) /\ <<b, c>> \in Seq(C) /\ <<b, c, d>> \in Seq(C) /\ <<c>> \in Seq(C) /\ <<d>> \in Seq(C)
      /\ Len(r) \in Nat
  OBVIOUS
<1>2. (<<a>> \o r)[1] = a /\ (<<a, b>> \o r)[1] = a /\ (<<a, b, c>> \o r)[1] = a /\ (<<a, b, c, d>> \o r)[1] = a
  OBVIOUS
<1>3. ASSUME NEW p \in Seq(C), NEW e \in C
      PROVE  Tail(<<e>> \o p) = p
  <2>1. /\ Tail(<<e>> \o p) \in Seq(C) /\ Len(Tail(<<e>> \o p)) = Len(p)
        /\ \A i \in 1..Len(p) : Tail(<<e>> \o p)[i] = p[i]
    OBVIOUS
  <2>. QED
    BY <2>1, SeqEqual
<1>4. /\ <<a>> \o <<b>> = <<a, b>> /\ <<b>> \o <<c>> = <<b, c>> /\ <<c>> \o <<d>> = <<c, d>>
      /\ <<a, b>> \o <<c>> = <<a, b, c>> /\ <<b, c>> \o <<d>> = <<b, c, d>>
  BY JoinedTyped
<1>5. /\ <<a, b, c>> \o <<d>> = <<a, b, c, d>>
      /\ <<a>> \o <<b, c>> = <<a, b, c>>
      /\ <<a>> \o <<b, c, d>> = <<a, b, c, d>>
  <2>1. <<a, b, c>> \o <<d>> = <<a, b, c, d>>
    <3>. DEFINE p == <<a, b, c>> \o <<d>>
                q == <<a, b, c, d>>
    <3>1. p \in Seq(C) /\ q \in Seq(C) /\ Len(p) = Len(q) /\ Len(p) = 4
      OBVIOUS
    <3>2. p[1] = q[1] /\ p[2] = q[2] /\ p[3] = q[3] /\ p[4] = q[4]
      OBVIOUS
    <3>. HIDE DEF p, q
    <3>3. \A i \in 1..Len(p) : p[i] = q[i]
      BY <3>1, <3>2
    <3>4. p = q
      BY <3>1, <3>3, SeqEqual
    <3>. QED
      BY <3>4 DEF p, q
  <2>2. <<a>> \o <<b, c>> = <<a, b, c>>
    <3>. DEFINE p == <<a>> \o <<b, c>>
                q == <<a, b, c>>
    <3>1. p \in Seq(C) /\ q \in Seq(C) /\ Len(p) = Len(q) /\ Len(p) = 3
      OBVIOUS
    <3>2. p[1] = q[1] /\ p[2] = q[2] /\ p[3] = q[3]
      OBVIOUS
    <3>. HIDE DEF p, q
    <3>3. \A i \in 1..Len(p) : p[i] = q[i]
      BY <3>1, <3>2
    <3>4. p = q
      BY <3>1, <3>3, SeqEqual
    <3>. QED
      BY <3>4 DEF p, q
  <2>3. <<a>> \o <<b, c, d>> = <<a, b, c, d>>
    <3>. DEFINE p == <<a>> \o <<b, c, d>>
                q == <<a, b, c, d>>
    <3>1. p \in Seq(C) /\ q \in Seq(C) /\ Len(p) = Len(q) /\ Len(p) = 4
      OBVIOUS
    <3>2. p[1] = q[1] /\ p[2] = q[2] /\ p[3] = q[3] /\ p[4] = q[4]
      OBVIOUS
    <3>. HIDE DEF p, q
    <3>3. \A i \in 1..Len(p) : p[i] = q[i]
      BY <3>1, <3>2
    <3>4. p = q
      BY <3>1, <3>3, SeqEqual
    <3>. QED
      BY <3>4 DEF p, q
  <2>. QED
    BY <2>1, <2>2, <2>3
<1>6. ASSUME NEW p \in Seq(C), NEW q \in Seq(C), NEW s \in Seq(C)
      PROVE  p \o (q \o s) = (p \o q) \o s
  BY ConcatAssociative
<1>7. /\ <<a>> \o (<<b>> \o r) = <<a, b>> \o r
      /\ <<a, b>> \o (<<c>> \o r) = <<a, b, c>> \o r
      /\ <<a, b, c>> \o (<<d>> \o r) = <<a, b, c, d>> \o r
      /\ <<b>> \o (<<c>> \o r) = <<b, c>> \o r
      /\ <<b, c>> \o (<<d>> \o r) = <<b, c, d>> \o r
  <2>1. <<a>> \o (<<b>> \o r) = <<a, b>> \o r
    <3>. DEFINE p == <<a>>
                q == <<b>>
                t == <<a, b>>
    <3>1. p \in Seq(C) /\ q \in Seq(C) /\ p \o q = t
      BY <1>1, <1>4
    <3>. HIDE DEF p, q, t
    <3>2. p \o (q \o r) = t \o r
      BY <1>6, <3>1
    <3>. QED
      BY <3>2 DEF p, q, t
  <2>2. <<a, b>> \o (<<c>> \o r) = <<a, b, c>> \o r
    <3>. DEFINE p == <<a, b>>
                q == <<c>>
                t == <<a, b, c>>
    <3>1. p \in Seq(C) /\ q \in Seq(C) /\ p \o q = t
      BY <1>1, <1>4
    <3>. HIDE DEF p, q, t
    <3>2. p \o (q \o r) = t \o r
      BY <1>6, <3>1
    <3>. QED
      BY <3>2 DEF p, q, t
  <2>3. <<a, b, c>> \o (<<d>> \o r) = <<a, b, c, d>> \o r
    <3>. DEFINE p == <<a, b, c>>
                q == <<d>>
                t == <<a, b, c, d>>
    <3>1. p \in Seq(C) /\ q \in Seq(C) /\ p \o q = t
      BY <1>1, <1>5
    <3>. HIDE DEF p, q, t
    <3>2. p \o (q \o r) = t \o r
      BY <1>6, <3>1
    <3>. QED
      BY <3>2 DEF p, q, t
  <2>4. <<b>> \o (<<c>> \o r) = <<b, c>> \o r
    <3>. DEFINE p == <<b>>
                q == <<c>>
                t == <<b, c>>
    <3>1. p \in Seq(C) /\ q \in Seq(C) /\ p \o q = t
      BY <1>1, <1>4
    <3>. HIDE DEF p, q, t
    <3>2. p \o (q \o r) = t \o r
      BY <1>6, <3>1
    <3>. QED
      BY <3>2 DEF p, q, t
  <2>5. <<b, c>> \o (<<d>> \o r) = <<b, c, d>> \o r
    <3>. DEFINE p == <<b, c>>
                q == <<d>>
                t == <<b, c, d>>
    <3>1. p \in Seq(C) /\ q \in Seq(C) /\ p \o q = t
      BY <1>1, <1>4
    <3>. HIDE DEF p, q, t
    <3>2. p \o (q \o r) = t \o r
      BY <1>6, <3>1
    <3>. QED
      BY <3>2 DEF p, q, t
  <2>. QED
    BY <2>1, <2>2, <2>3, <2>4, <2>5
<1>8. /\ <<b>> \o r \in Seq(C) /\ <<c>> \o r \in Seq(C) /\ <<d>> \o r \in Seq(C)
      /\ <<b, c>> \o r \in Seq(C) /\ <<b, c, d>> \o r \in Seq(C)
  BY <1>1, ConcatProperties
<1>9. /\ <<a>> \o (<<b, c>> \o r) = <<a, b, c>> \o r
      /\ <<a>> \o (<<b, c, d>> \o r) = <<a, b, c, d>> \o r
  <2>1. <<a>> \o (<<b, c>> \o r) = <<a, b, c>> \o r
    BY <1>1, <1>6, <1>5
  <2>2. <<a>> \o (<<b, c, d>> \o r) = <<a, b, c, d>> \o r
    BY <1>1, <1>6, <1>5
  <2>. QED
    BY <2>1, <2>2
<1>10. /\ Tail(<<a>> \o r) = r /\ Tail(<<a, b>> \o r) = <<b>> \o r
       /\ Tail(<<a, b, c>> \o r) = <<b, c>> \o r /\ Tail(<<a, b, c, d>> \o r) = <<b, c, d>> \o r
  BY <1>3, <1>7, <1>8, <1>9, Zenon
<1>. QED
  BY <1>2, <1>5, <1>7, <1>10 DEF Fronts

LEMMA FrontsKnown ==
  ASSUME NEW r \in Seq(Calls), NEW a, NEW b, NEW c, NEW d
  PROVE  Fronts(r, a, b, c, d)
<1>. DEFINE C == Calls \cup {a, b, c, d}
<1>1. /\ r \in Seq(C)
      /\ a \in C /\ b \in C /\ c \in C /\ d \in C
  BY SeqGrows
<1>. HIDE DEF C
<1>. QED
  BY <1>1, TypedFronts

LEMMA RestTyped ==
  ASSUME NEW x \in Vars
  PROVE  <<>> \in Seq(Calls) /\ EndRest(x) \in Seq(Calls) /\ AssignRest(x) \in Seq(Calls)
<1>1. /\ <<>> \in Seq(Calls) /\ <<Call("__end_assign__", <<x, 1>>)>> \in Seq(Calls)
      /\ <<Call("assign others", <<x, 1>>)>> \in Seq(Calls)
  BY CallTypes, ShortSeqs
<1>. QED
  BY <1>1, ConcatProperties DEF EndRest, AssignRest

-----------------------------------------------------------------------------
(* The loops of an assignment.                                             *)
LEMMA LoopLeft ==
  ASSUME Inv, SlotsApart, NEW x \in Vars, NEW S \in SUBSET external[x]
  PROVE  /\ Left(x, 1, S) = S
         /\ \A k : NoneLeft(x, k, S) => Left(x, k, S) = {}
         /\ \A k, j \in Nat : Visits(x, k, S, j) =>
              /\ solvers_w[x][j] \in S /\ j + 1 \in Nat
              /\ solvers_w[x][j] \notin Left(x, j + 1, S)
              /\ Left(x, k, S) = Left(x, j + 1, S) \cup {solvers_w[x][j]}
<1>1. solvers_w[x] \in Seq(Solvers \cup {NoSolver})
  BY DEF Inv, TypeOK
<1>2. \A s \in S : \E i \in DOMAIN solvers_w[x] : solvers_w[x][i] = s
  BY DEF Inv, SlotsKnown
<1>3. Left(x, 1, S) = S
  <2>1. \A i \in DOMAIN solvers_w[x] : 1 <= i
    BY <1>1
  <2>. QED
    BY <1>2, <2>1 DEF Left
<1>4. \A k : NoneLeft(x, k, S) => Left(x, k, S) = {}
  BY DEF NoneLeft, Left
<1>5. ASSUME NEW k \in Nat, NEW j \in Nat, Visits(x, k, S, j)
      PROVE  /\ solvers_w[x][j] \in S
             /\ solvers_w[x][j] \notin Left(x, j + 1, S)
             /\ Left(x, k, S) = Left(x, j + 1, S) \cup {solvers_w[x][j]}
  <2>1. /\ j \in DOMAIN solvers_w[x] /\ k <= j /\ solvers_w[x][j] \in S
        /\ \A i \in DOMAIN solvers_w[x] : i \in Nat
        /\ \A i \in DOMAIN solvers_w[x] : k <= i /\ solvers_w[x][i] \in S => j <= i
        /\ \A i \in DOMAIN solvers_w[x] : solvers_w[x][i] = solvers_w[x][j] => i = j
    BY <1>1, <1>5 DEF Visits, SlotsApart
  <2>2. solvers_w[x][j] \notin Left(x, j + 1, S)
    BY <2>1 DEF Left
  <2>3. ASSUME NEW s \in Left(x, k, S)
        PROVE  s \in Left(x, j + 1, S) \cup {solvers_w[x][j]}
    <3>1. PICK i \in DOMAIN solvers_w[x] : k <= i /\ solvers_w[x][i] = s
      BY DEF Left
    <3>2. s \in S /\ j <= i
      BY <2>1, <3>1 DEF Left
    <3>3. i = j \/ j + 1 <= i
      BY <2>1, <3>2
    <3>. QED
      BY <3>1, <3>2, <3>3 DEF Left
  <2>4. ASSUME NEW s \in Left(x, j + 1, S)
        PROVE  s \in Left(x, k, S)
    <3>1. PICK i \in DOMAIN solvers_w[x] : j + 1 <= i /\ solvers_w[x][i] = s
      BY DEF Left
    <3>2. k <= i
      BY <2>1, <3>1
    <3>. QED
      BY <3>1, <3>2 DEF Left
  <2>5. solvers_w[x][j] \in Left(x, k, S)
    BY <2>1 DEF Left
  <2>. QED
    BY <2>1, <2>2, <2>3, <2>4, <2>5
<1>. QED
  BY <1>3, <1>4, <1>5

LEMMA OthersLoop ==
  ASSUME Inv, SlotsApart, NEW x \in Vars
  PROVE  /\ OthersLeft(x, 1) = Others(x)
         /\ \A k : NoneLeft(x, k, Others(x)) => OthersLeft(x, k) = {}
         /\ \A k, j \in Nat : Visits(x, k, Others(x), j) =>
              /\ solvers_w[x][j] \in Others(x) \ OthersLeft(x, j + 1) /\ j + 1 \in Nat
              /\ OthersLeft(x, k) = OthersLeft(x, j + 1) \cup {solvers_w[x][j]}
<1>. DEFINE S == Others(x)
<1>1. S \in SUBSET external[x]
  BY DEF Others
<1>. HIDE DEF S
<1>2. /\ Left(x, 1, S) = S
      /\ \A k : NoneLeft(x, k, S) => Left(x, k, S) = {}
      /\ \A k, j \in Nat : Visits(x, k, S, j) =>
           /\ solvers_w[x][j] \in S /\ j + 1 \in Nat
           /\ solvers_w[x][j] \notin Left(x, j + 1, S)
           /\ Left(x, k, S) = Left(x, j + 1, S) \cup {solvers_w[x][j]}
  BY <1>1, LoopLeft
<1>. QED
  BY <1>2 DEF OthersLeft, S

(* Whoever joins no solver keeps its definer and its other solvers, and a   *)
(* loop over them has as much to do as before.                              *)
Same(x) ==
  /\ external'[x] = external[x] /\ IsSolveable(x)' = IsSolveable(x)
  /\ DefiningSolver(x)' = DefiningSolver(x) /\ Others(x)' = Others(x)
  /\ \A k \in Nat : OthersLeft(x, k)' = OthersLeft(x, k) /\ SolversLeft(x, k)' = SolversLeft(x, k)

LEMMA StaysSame ==
  ASSUME Inv, Inv', PathInv', SlotsGrow, NEW x \in Vars, external'[x] = external[x]
  PROVE  Same(x)
<1>1. /\ solvers_w[x] \in Seq(Solvers \cup {NoSolver}) /\ solvers_w'[x] \in Seq(Solvers \cup {NoSolver})
      /\ \A i \in DOMAIN solvers_w[x] : i \in DOMAIN solvers_w'[x] /\ solvers_w'[x][i] = solvers_w[x][i]
      /\ \A s \in external[x] : \E i \in DOMAIN solvers_w[x] : solvers_w[x][i] = s
      /\ \A i, j \in DOMAIN solvers_w'[x] : solvers_w'[x][i] = solvers_w'[x][j] => i = j
  BY DEF Inv, TypeOK, SlotsGrow, SlotsKnown, PathInv, SlotsApart
<1>2. DefiningSolver(x)' = DefiningSolver(x) /\ Others(x)' = Others(x)
  BY <1>1, DefinerStays
<1>3. ASSUME NEW k \in Nat, NEW s \in external[x]
      PROVE  (\E i \in DOMAIN solvers_w'[x] : k <= i /\ solvers_w'[x][i] = s)
               <=> \E i \in DOMAIN solvers_w[x] : k <= i /\ solvers_w[x][i] = s
  <2>1. PICK j \in DOMAIN solvers_w[x] : solvers_w[x][j] = s
    BY <1>1
  <2>. QED
    BY <1>1, <2>1
<1>4. \A k \in Nat : OthersLeft(x, k)' = OthersLeft(x, k) /\ SolversLeft(x, k)' = SolversLeft(x, k)
  BY <1>2, <1>3 DEF OthersLeft, SolversLeft, Left, Others
<1>. QED
  BY <1>2, <1>4 DEF Same, IsSolveable

LEMMA UnderSame ==
  ASSUME NEW x, Same(x), NEW q, NEW M, NEW A, Under(x, q, M, A)
  PROVE  Under(x, q, M, A)'
<1>1. Proposing(x, q, M, A) => Proposing(x, q, M, A)'
  BY DEF Same, Proposing, AssignRest, EndRest
<1>2. ASSUME NEW r, NEW N
      PROVE  /\ Below(x, r, N)' <=> Below(x, r, N)
             /\ Following(x, q, r)' <=> Following(x, q, r)
             /\ Offering(x, q, r, M, A, N)' <=> Offering(x, q, r, M, A, N)
  BY DEF Same, Below, Following, Offering
<1>3. Getting(x, q, M, A) => Getting(x, q, M, A)'
  BY <1>2 DEF Same, Getting
<1>4. Assigning(x, q, M, A) => Assigning(x, q, M, A)'
  BY DEF Same, Assigning
<1>5. Ending(x, q, M, A) => Ending(x, q, M, A)'
  BY DEF Same, Ending
<1>. QED
  BY <1>1, <1>3, <1>4, <1>5 DEF Under, Same, Finished

-----------------------------------------------------------------------------
(* A step at a stage.                                                      *)
Executes(f) == agenda[1].fn = f
LEMMA StepIs ==
  ASSUME Step
  PROVE  /\ Executes("__begin_assign__") => BeginAssignVariable
         /\ Executes("__assign__") => AssignVariable
         /\ Executes("assign others") => AssignOthers
         /\ Executes("get_i") => GetI
         /\ Executes("update_downstream_variables") => UpdateDownstreamVariables
         /\ Executes("__end_assign__") => EndAssignVariable
         /\ Executes("make_not_assignable") => MakeNotAssignable
         /\ Executes("recalculate_path") => RecalculatePath
         /\ Executes("begin_assign") => BeginAssign
         /\ Executes("solve") => Solve
         /\ Executes("end_assign") => EndAssign
         /\ Executes("recalculate") => Recalculate \/ RecalculateRaises
         /\ Executes("enable") => EnableConstraint
         /\ Executes("set_enabled") => SetEnabled
<1>1. BeginAssignVariable => Executes("__begin_assign__")
  BY DEF BeginAssignVariable, Running, Executes
<1>2. AssignVariable => Executes("__assign__")
  BY DEF AssignVariable, Running, Executes
<1>3. AssignOthers => Executes("assign others")
  BY DEF AssignOthers, Running, Executes
<1>4. GetI => Executes("get_i")
  BY DEF GetI, Running, Executes
<1>5. UpdateDownstreamVariables => Executes("update_downstream_variables")
  BY DEF UpdateDownstreamVariables, Running, Executes
<1>6. EndAssignVariable => Executes("__end_assign__")
  BY DEF EndAssignVariable, Running, Executes
<1>7. MakeNotAssignable => Executes("make_not_assignable")
  BY DEF MakeNotAssignable, Running, Executes
<1>8. RecalculatePath => Executes("recalculate_path")
  BY DEF RecalculatePath, Running, Executes
<1>9. BeginAssign => Executes("begin_assign")
  BY DEF BeginAssign, Running, Executes
<1>10. Solve => Executes("solve")
  BY DEF Solve, Running, Executes
<1>11. EndAssign => Executes("end_assign")
  BY DEF EndAssign, Running, Executes
<1>12. Recalculate => Executes("recalculate")
  BY DEF Recalculate, Running, Executes
<1>15. RecalculateRaises => Executes("recalculate")
  BY DEF RecalculateRaises, Running, Executes
<1>13. EnableConstraint => Executes("enable")
  BY DEF EnableConstraint, Running, Executes
<1>14. SetEnabled => Executes("set_enabled")
  BY DEF SetEnabled, Running, Executes
<1>. QED
  BY <1>1, <1>2, <1>3, <1>4, <1>5, <1>6, <1>7, <1>8, <1>9, <1>10, <1>11, <1>12, <1>13, <1>14, <1>15 DEF Step, Executes

Going(x, M, A) ==
  /\ Inv /\ Inv' /\ ExternalSupported /\ PathInv /\ PathInv' /\ SlotsGrow /\ NoneElse /\ Step
  /\ x \in Vars /\ focus = {x} /\ M \in SUBSET external[x] /\ A \in SUBSET external[x]
  /\ Kept(x, M, A)

LEMMA StageMoves ==
  ASSUME NEW x \in Vars, focus = {x}, focus' = focus, Same(x), NEW q, agenda' = q,
         NEW M \in SUBSET external[x], NEW A \in SUBSET external[x],
         Under(x, q, M, A), Kept(x, M, A)', NoneElse'
  PROVE  StageInv'
<1>1. Under(x, q, M, A)'
  BY UnderSame
<1>2. AtStage(x, M, A)'
  BY <1>1 DEF AtStage, Stage
<1>3. \A y \in focus' : focus' = {y} /\ \E B \in SUBSET external'[y] : \E C \in SUBSET external'[y] : AtStage(y, B, C)'
  <2>1. focus' = {x}
    OBVIOUS
  <2>2. \E B \in SUBSET external'[x] : \E C \in SUBSET external'[x] : AtStage(x, B, C)'
    BY <1>2 DEF Same
  <2>. QED
    BY <2>1, <2>2
<1>. QED
  BY <1>3 DEF StageInv

LEMMA RaiseMove ==
  ASSUME NEW x, NEW M, NEW A, Going(x, M, A), agenda' = <<>>, raised', UNCHANGED focus,
         external'[x] = external[x]
  PROVE  StageInv'
<1>1. Same(x) /\ x \in Vars
  BY StaysSame DEF Going
<1>2. Under(x, <<>>, {}, external[x])
  BY DEF Under, Finished
<1>3. (\A B : Kept(x, {}, B)') /\ NoneElse'
  BY DEF Kept, NoneElse
<1>. QED
  BY <1>1, <1>2, <1>3, StageMoves DEF Going

(* Nothing is proposed, withdrawn or answered: the stage alone moves.       *)
LEMMA QuietMove ==
  ASSUME NEW x, NEW M, NEW A, Going(x, M, A), external'[x] = external[x], ValuesStay,
         UNCHANGED <<stored, proposal, leaked, raised, focus>>,
         NEW q, agenda' = q, Under(x, q, M, A)
  PROVE  StageInv'
<1>1. Same(x) /\ x \in Vars
  BY StaysSame DEF Going
<1>2. Holding(x)' = Holding(x) /\ \A y \in Vars : Holding(y)' = Holding(y)
  BY DEF Holding
<1>3. A \subseteq Agreeing(x) => A \subseteq Agreeing(x)'
  <2>1. \A s \in A : ValueOf(x, s)' = ValueOf(x, s)
    BY <1>1 DEF ValuesStay, Going
  <2>. QED
    BY <2>1 DEF Agreeing
<1>4. Kept(x, M, A)' /\ NoneElse'
  BY <1>2, <1>3 DEF Going, Kept, NoneElse
<1>. QED
  BY <1>1, <1>4, StageMoves DEF Going

LEMMA ValuesKept ==
  ASSUME Inv, Step, ~Executes("solve")
  PROVE  ValuesStay
<1>1. Solve => Executes("solve")
  BY DEF Solve, Running, Executes
<1>. QED
  BY <1>1, StepAnswers

(* A solver that is run adopts what it is offered; the others answer as     *)
(* before.                                                                  *)
LEMMA SolveMoves ==
  ASSUME NEW x, NEW M, NEW A, Going(x, M, A), NEW s, agenda[1] = Call("solve", s)
  PROVE  /\ s \in Solvers
         /\ UNCHANGED <<varState, proposal, leaked, focus>>
         /\ \/ agenda' = <<>> /\ raised'
            \/ /\ agenda' = Tail(agenda) /\ UNCHANGED raised
               /\ \A t \in Solvers \ {s} : ValueOf(x, t)' = ValueOf(x, t)
               /\ s \in Holding(x) => ValueOf(x, s)' = proposal[x][s]
<1>1. Solve
  BY StepIs, CallIs DEF Going, Executes
<1>2. PICK t \in Solvers :
        /\ agenda # <<>> /\ agenda[1] = Call("solve", t)
        /\ \/ /\ \E m \in Models(t) : model' = [model EXCEPT ![t] = m]
              /\ agenda' = Tail(agenda) /\ UNCHANGED <<raised, focus>>
           \/ /\ model' = [model EXCEPT ![t] = NoModel]
              /\ agenda' = <<>> /\ raised' = TRUE /\ UNCHANGED focus
        /\ UNCHANGED <<varState, enabled, env, asserted, proposal, leaked, pin, w_value>>
  BY <1>1, SolveDoes DEF Going
<1>3. t = s
  BY <1>2, CallsEqual
<1>4. CASE agenda' = <<>> /\ raised'
  BY <1>2, <1>3, <1>4
<1>5. ASSUME NEW m \in Models(s), model' = [model EXCEPT ![s] = m], agenda' = Tail(agenda), UNCHANGED raised
      PROVE  /\ \A u \in Solvers \ {s} : ValueOf(x, u)' = ValueOf(x, u)
             /\ s \in Holding(x) => ValueOf(x, s)' = proposal[x][s]
  <2>1. \A u \in Solvers \ {s} : ValueOf(x, u)' = ValueOf(x, u)
    BY <1>2, <1>3, <1>5 DEF ValueOf, Going, Inv, TypeOK
  <2>2. ASSUME s \in Holding(x)
        PROVE  ValueOf(x, s)' = proposal[x][s]
    <3>1. Satisfied(s)'
      BY <1>2, <1>3, <1>5, SolvedIs DEF Going
    <3>2. x \in Vars /\ proposal[x][s] \in Values
      BY <1>2, <1>3, <2>2 DEF Going, Inv, TypeOK, Holding
    <3>3. <<x, proposal[x][s]>> \in Equalities(s)'
      BY <1>2, <3>2 DEF Equalities
    <3>4. Answers(s)'[x] = proposal[x][s]
      BY <3>1, <3>3 DEF Satisfied, IsModel
    <3>. QED
      BY <3>2, <3>4 DEF Answers
  <2>. QED
    BY <2>1, <2>2
<1>. QED
  BY <1>2, <1>3, <1>4, <1>5

LEMMA RestUnder ==
  ASSUME Inv, SlotsApart, NEW x \in Vars, NEW r, NEW M, Below(x, r, M)
  PROVE  Under(x, r, M, external[x])
<1>1. CASE r = <<>> /\ M = {}
  BY <1>1 DEF Under, Finished
<1>2. CASE r = AssignRest(x) /\ IsSolveable(x) /\ M = {DefiningSolver(x)}
  <2>1. DefiningSolver(x) \in external[x]
    BY <1>2, DefiningKnown DEF Inv
  <2>2. OthersLeft(x, 1) = Others(x)
    BY LoopLeft DEF OthersLeft, Others
  <2>3. M = external[x] \ OthersLeft(x, 1)
    BY <1>2, <2>1, <2>2 DEF Others
  <2>4. Assigning(x, r, M, external[x])
    BY <1>2, <2>3 DEF Assigning, AssignRest
  <2>. QED
    BY <2>4 DEF Under
<1>. QED
  BY <1>1, <1>2 DEF Below

LEMMA FollowUnder ==
  ASSUME NEW x, NEW q, NEW r \in {<<>>, AssignRest(x)}, NEW M \in SUBSET external[x],
         Below(x, r, M), Following(x, q, r)
  PROVE  Under(x, q, M, external[x])
<1>1. Getting(x, q, M, external[x])
  BY DEF Getting
<1>. QED
  BY <1>1 DEF Under

(* The blocks on the variable's path are run again.                        *)
LEMMA RowFollowing ==
  ASSUME NEW x, NEW M, NEW A, Going(x, M, A), NEW r \in {<<>>, AssignRest(x)}, Below(x, r, M),
         A = external[x], Following(x, agenda, r)
  PROVE  StageInv'
<1>1. /\ Inv /\ SlotsApart /\ Step /\ x \in Vars /\ M \in SUBSET external[x] /\ r \in Seq(Calls)
  BY RestTyped DEF Going, PathInv
<1>2. ASSUME NEW q, agenda' = q, Following(x, q, r) \/ q = r, ValuesStay, external'[x] = external[x],
             UNCHANGED <<stored, proposal, leaked, raised, focus>>
      PROVE  StageInv'
  <2>1. Under(x, q, M, A)
    BY <1>1, <1>2, RestUnder, FollowUnder
  <2>. QED
    BY <1>2, <2>1, QuietMove
<1>3. CASE agenda = <<Call("make_not_assignable", x)>> \o r
  <2>. DEFINE a == Call("make_not_assignable", x)
  <2>1. agenda[1] = a /\ Tail(agenda) = r
    <3>1. Fronts(r, a, a, a, a)
      BY <1>1, FrontsKnown
    <3>. QED
      BY <1>3, <3>1 DEF Fronts
  <2>2. MakeNotAssignable /\ ValuesStay
    <3>1. agenda[1].fn = "make_not_assignable"
      BY <2>1, CallIs
    <3>. QED
      BY <1>1, <3>1, StepIs, ValuesKept DEF Executes
  <2>3. PICK y \in Vars :
          /\ agenda[1] = Call("make_not_assignable", y)
          /\ agenda' = <<Call("recalculate_path", <<y, 1, 1>>)>> \o Tail(agenda)
          /\ UNCHANGED <<varState, enabled, env, asserted, proposal, leaked, model, raised, focus>>
    BY <1>1, <2>2, MakeNotAssignableDoes, Zenon
  <2>4. y = x
    BY <2>1, <2>3, CallsEqual
  <2>. DEFINE q == <<Call("recalculate_path", <<x, 1, 1>>)>> \o r
  <2>5. Following(x, q, r)
    BY DEF Following
  <2>6. agenda' = q
    BY <2>1, <2>3, <2>4
  <2>. HIDE DEF q
  <2>. QED
    BY <1>2, <2>2, <2>3, <2>5, <2>6 DEF varState
<1>4. ASSUME NEW i \in Nat, NEW j \in Nat, agenda = <<Call("recalculate_path", <<x, i, j>>)>> \o r
      PROVE  StageInv'
  <2>. DEFINE a == Call("recalculate_path", <<x, i, j>>)
  <2>1. agenda[1] = a /\ Tail(agenda) = r
    <3>1. Fronts(r, a, a, a, a)
      BY <1>1, FrontsKnown
    <3>. QED
      BY <1>4, <3>1 DEF Fronts
  <2>2. RecalculatePath /\ ValuesStay
    <3>1. agenda[1].fn = "recalculate_path"
      BY <2>1, CallIs
    <3>. QED
      BY <1>1, <3>1, StepIs, ValuesKept DEF Executes
  <2>3. PICK y \in Vars, k, l \in Nat :
          /\ agenda[1] = Call("recalculate_path", <<y, k, l>>)
          /\ UNCHANGED <<varState, enabled, env, solverState, raised, focus>>
          /\ \/ agenda' = Tail(agenda)
             \/ \E p \in Nat \X Nat :
                  /\ Due(y, k, l, p) /\ BlockAt(y, p) \in Cons
                  /\ agenda' = <<Call("recalculate", BlockAt(y, p)),
                                 Call("recalculate_path", <<y, p[1], p[2] + 1>>)>> \o Tail(agenda)
    BY <1>1, <2>2, RecalculatePathDoes, Zenon
  <2>4. y = x
    <3>1. <<y, k, l>> = <<x, i, j>>
      BY <2>1, <2>3, CallsEqual
    <3>. QED
      BY <3>1
  <2>5. UNCHANGED <<external, stored, proposal, leaked, raised, focus>>
    BY <2>3 DEF varState, solverState
  <2>6. CASE agenda' = Tail(agenda)
    BY <1>2, <2>1, <2>2, <2>5, <2>6
  <2>7. ASSUME NEW p \in Nat \X Nat, Due(x, k, l, p), BlockAt(x, p) \in Cons,
               agenda' = <<Call("recalculate", BlockAt(x, p)),
                           Call("recalculate_path", <<x, p[1], p[2] + 1>>)>> \o r
        PROVE  StageInv'
    <3>. DEFINE c == BlockAt(x, p)
                q == <<Call("recalculate", c), Call("recalculate_path", <<x, p[1], p[2] + 1>>)>> \o r
    <3>1. <<x, SolverOf[c]>> \notin Supported
      <4>. DEFINE s == solvers_w[x][p[1]]
      <4>1. s \in Solvers \ external[x] /\ p[2] \in DOMAIN constraints_w[x][s]
        BY <1>1, <2>7, PathPlaces DEF Due
      <4>2. c = constraints_w[x][s][p[2]]
        BY DEF BlockAt
      <4>. HIDE DEF s, c
      <4>3. BlocksOwned
        BY DEF Going, PathInv
      <4>4. SolverOf[c] = s
        BY <1>1, <4>1, <4>2, <4>3 DEF BlocksOwned
      <4>5. <<x, s>> \notin Supported
        BY <1>1, <4>1, <4>3 DEF BlocksOwned
      <4>. QED
        BY <4>4, <4>5
    <3>2. p[1] \in Nat /\ p[2] + 1 \in Nat
      BY <2>7
    <3>3. Following(x, q, r)
      BY <2>7, <3>1, <3>2, Zenon DEF Following
    <3>4. agenda' = q
      BY <2>7
    <3>. HIDE DEF q
    <3>. QED
      BY <1>2, <2>2, <2>5, <3>3, <3>4
  <2>. QED
    BY <2>1, <2>3, <2>4, <2>6, <2>7
<1>5. ASSUME NEW c \in Cons, NEW i \in Nat, NEW j \in Nat, <<x, SolverOf[c]>> \notin Supported
      PROVE  LET path == Call("recalculate_path", <<x, i, j>>)
                 After(q) == q = <<Call("enable", c), path>> \o r \/ q = <<Call("set_enabled", c), path>> \o r
                             \/ q = <<Call("solve", SolverOf[c]), Call("set_enabled", c), path>> \o r
                             \/ q = <<path>> \o r
             IN  \A q : After(q) => Following(x, q, r)
  BY <1>5, Zenon DEF Following
<1>6. ASSUME NEW c \in Cons, NEW i \in Nat, NEW j \in Nat, <<x, SolverOf[c]>> \notin Supported,
             NEW f \in {"recalculate", "enable", "set_enabled"},
             agenda = <<Call(f, c), Call("recalculate_path", <<x, i, j>>)>> \o r
      PROVE  StageInv'
  <2>. DEFINE a == Call(f, c)
              path == Call("recalculate_path", <<x, i, j>>)
              rest == <<path>> \o r
              on   == Call("enable", c)
              set  == Call("set_enabled", c)
              run  == Call("solve", SolverOf[c])
  <2>1. /\ agenda[1] = a /\ Tail(agenda) = rest
        /\ <<on>> \o rest = <<on, path>> \o r
        /\ <<set>> \o rest = <<set, path>> \o r
        /\ <<run, set>> \o rest = <<run, set, path>> \o r
    <3>1. Fronts(r, a, path, path, path) /\ Fronts(r, on, path, path, path)
          /\ Fronts(r, set, path, path, path) /\ Fronts(r, run, set, path, path)
      BY <1>1, FrontsKnown
    <3>. QED
      BY <1>6, <3>1 DEF Fronts
  <2>2. /\ Following(x, rest, r) /\ Following(x, <<on>> \o rest, r)
        /\ Following(x, <<set>> \o rest, r) /\ Following(x, <<run, set>> \o rest, r)
    BY <1>5, <1>6, <2>1, Zenon
  <2>3. ValuesStay
    BY <1>1, <2>1, ValuesKept, CallIs DEF Executes
  <2>4. \A d : agenda[1] = Call(f, d) => d = c
    BY <2>1, CallsEqual
  <2>5. CASE f = "set_enabled"
    <3>1. SetEnabled
      BY <1>1, <2>1, <2>5, StepIs, CallIs DEF Executes
    <3>2. agenda' = rest /\ UNCHANGED <<varState, solverState, raised, focus>>
      BY <1>1, <2>1, <3>1, SetEnabledDoes, Zenon
    <3>. HIDE DEF rest
    <3>. QED
      BY <1>2, <2>2, <2>3, <3>2 DEF varState, solverState
  <2>6. CASE f = "enable"
    <3>1. EnableConstraint
      BY <1>1, <2>1, <2>6, StepIs, CallIs DEF Executes
    <3>2. PICK d \in Cons :
            /\ agenda[1] = Call("enable", d)
            /\ \/ agenda' = Tail(agenda) /\ UNCHANGED <<raised, focus>>
               \/ agenda' = <<Call("set_enabled", d)>> \o Tail(agenda) /\ UNCHANGED <<raised, focus>>
               \/ agenda' = <<>> /\ raised' = TRUE /\ UNCHANGED focus
               \/ /\ agenda' = <<Call("solve", SolverOf[d]), Call("set_enabled", d)>> \o Tail(agenda)
                  /\ UNCHANGED <<raised, focus>>
            /\ UNCHANGED <<varState, proposal, leaked>>
      BY <1>1, <3>1, EnableConstraintDoes, Zenon
    <3>3. d = c
      BY <2>4, <2>6, <3>2
    <3>4. UNCHANGED <<external, stored, proposal, leaked>>
      BY <3>2 DEF varState
    <3>5. CASE agenda' = <<>> /\ raised' = TRUE /\ UNCHANGED focus
      BY <3>4, <3>5, RaiseMove
    <3>6. ASSUME NEW q, agenda' = q, Following(x, q, r), UNCHANGED <<raised, focus>>
          PROVE  StageInv'
      BY <1>2, <2>3, <3>4, <3>6
    <3>7. CASE agenda' = Tail(agenda) /\ UNCHANGED <<raised, focus>>
      BY <2>1, <2>2, <3>6, <3>7
    <3>8. CASE agenda' = <<Call("set_enabled", d)>> \o Tail(agenda) /\ UNCHANGED <<raised, focus>>
      BY <2>1, <2>2, <3>3, <3>6, <3>8
    <3>9. CASE /\ agenda' = <<Call("solve", SolverOf[d]), Call("set_enabled", d)>> \o Tail(agenda)
               /\ UNCHANGED <<raised, focus>>
      BY <2>1, <2>2, <3>3, <3>6, <3>9
    <3>. QED
      BY <3>2, <3>5, <3>7, <3>8, <3>9
  <2>7. CASE f = "recalculate"
    <3>1. Recalculate \/ RecalculateRaises
      BY <1>1, <2>1, <2>7, StepIs, CallIs DEF Executes
    <3>7. CASE RecalculateRaises
      <4>1. PICK d \in Cons : /\ agenda[1] = Call("recalculate", d) /\ BreakOff(d)
                              /\ agenda' = <<>> /\ raised' = TRUE /\ UNCHANGED focus
        BY <1>1, <3>7, RecalculateRaisesDoes, Zenon
      <4>2. d = c
        BY <2>4, <2>7, <4>1
      <4>3. PICK met \in SUBSET Vars : \E read \in SUBSET met : MeetVariables(c, read, met)
        BY <1>1, <4>1, <4>2, BreakMeets DEF Meets
      <4>4. external'[x] = external[x]
        BY <1>1, <1>6, <4>3 DEF MeetVariables, Joins
      <4>. QED
        BY <4>1, <4>4, RaiseMove
    <3>. SUFFICES ASSUME Recalculate PROVE StageInv'
      BY <3>1, <3>7
    <3>2. PICK d \in Cons :
            /\ agenda[1] = Call("recalculate", d)
            /\ \/ RunPredicate(d) /\ agenda' = <<Call("enable", d)>> \o Tail(agenda)
               \/ UNCHANGED varState /\ agenda' = Tail(agenda)
            /\ UNCHANGED <<stored, proposal, leaked, raised, focus>>
      BY <1>1, RecalculateDoes, Zenon
    <3>3. d = c
      BY <2>4, <2>7, <3>2
    <3>4. ASSUME RunPredicate(c)
          PROVE  external'[x] = external[x]
      BY <1>1, <1>6, <3>4 DEF RunPredicate, MeetVariables, Joins
    <3>5. CASE RunPredicate(c) /\ agenda' = <<Call("enable", c)>> \o Tail(agenda)
      BY <1>2, <2>1, <2>2, <2>3, <3>2, <3>4, <3>5
    <3>6. CASE UNCHANGED varState /\ agenda' = Tail(agenda)
      BY <1>2, <2>1, <2>2, <2>3, <3>2, <3>6 DEF varState
    <3>. QED
      BY <3>2, <3>3, <3>5, <3>6
  <2>. QED
    BY <2>5, <2>6, <2>7
<1>7. ASSUME NEW c \in Cons, NEW i \in Nat, NEW j \in Nat, <<x, SolverOf[c]>> \notin Supported,
             agenda = <<Call("solve", SolverOf[c]), Call("set_enabled", c),
                        Call("recalculate_path", <<x, i, j>>)>> \o r
      PROVE  StageInv'
  <2>. DEFINE a == Call("solve", SolverOf[c])
              set == Call("set_enabled", c)
              path == Call("recalculate_path", <<x, i, j>>)
              rest == <<set, path>> \o r
  <2>1. agenda[1] = a /\ Tail(agenda) = rest
    <3>1. Fronts(r, a, set, path, path)
      BY <1>1, FrontsKnown
    <3>. QED
      BY <1>7, <3>1 DEF Fronts
  <2>2. Following(x, rest, r)
    BY <1>5, <1>7, Zenon
  <2>. HIDE DEF rest
  <2>3. /\ UNCHANGED <<varState, proposal, leaked, focus>>
        /\ \/ agenda' = <<>> /\ raised'
           \/ /\ agenda' = rest /\ UNCHANGED raised
              /\ \A t \in Solvers \ {SolverOf[c]} : ValueOf(x, t)' = ValueOf(x, t)
    BY <2>1, SolveMoves
  <2>4. UNCHANGED <<external, stored>>
    BY <2>3 DEF varState
  <2>5. CASE agenda' = <<>> /\ raised'
    BY <2>3, <2>4, <2>5, RaiseMove
  <2>6. CASE /\ agenda' = rest /\ UNCHANGED raised
             /\ \A t \in Solvers \ {SolverOf[c]} : ValueOf(x, t)' = ValueOf(x, t)
    <3>1. \A t \in external[x] : ValueOf(x, t)' = ValueOf(x, t) /\ t \in Solvers
      <4>1. external[x] \subseteq Solvers
        BY <1>1 DEF Inv, TypeOK
      <4>2. SolverOf[c] \notin external[x]
        BY <1>1, <1>7 DEF Going, ExternalSupported
      <4>. QED
        BY <2>6, <4>1, <4>2
    <3>2. Same(x)
      BY <2>4, StaysSame DEF Going
    <3>3. Kept(x, M, A)' /\ NoneElse'
      BY <1>1, <2>3, <2>4, <2>6, <3>1 DEF Going, Kept, NoneElse, Holding, Agreeing
    <3>4. Under(x, rest, M, A)
      BY <1>1, <2>2, FollowUnder
    <3>. QED
      BY <1>1, <2>3, <2>6, <3>2, <3>3, <3>4, StageMoves DEF Going
  <2>. QED
    BY <2>3, <2>5, <2>6
<1>. QED
  BY <1>3, <1>4, <1>6, <1>7 DEF Following

(* An offer to a solver that holds none, and its withdrawal.               *)
LEMMA BeginMoves ==
  ASSUME NEW x, NEW M, NEW A, Going(x, M, A), NEW s \in external[x] \ M,
         agenda[1] = Call("begin_assign", <<x, s>>)
  PROVE  /\ Same(x) /\ agenda' = Tail(agenda) /\ focus' = focus
         /\ Kept(x, M \cup {s}, A)' /\ NoneElse'
<1>1. Inv /\ Inv' /\ Step /\ x \in Vars /\ s \in Solvers
  BY DEF Going, Inv, TypeOK
<1>2. BeginAssign
  BY <1>1, StepIs, CallIs DEF Executes
<1>3. PICK y \in Vars, t \in Solvers :
        /\ agenda[1] = Call("begin_assign", <<y, t>>)
        /\ Propose(y, t, stored[y])
        /\ agenda' = Tail(agenda)
        /\ UNCHANGED <<varState, enabled, env, asserted, pin, model, w_value, raised, focus>>
  BY <1>1, <1>2, BeginAssignDoes, Zenon
<1>4. y = x /\ t = s
  <2>1. <<y, t>> = <<x, s>>
    BY <1>3, CallsEqual
  <2>. QED
    BY <2>1
<1>5. /\ proposal' = [proposal EXCEPT ![x][s] = stored[x]]
      /\ leaked' = IF proposal[x][s] = NoValue THEN leaked ELSE leaked \cup {<<x, s, proposal[x][s]>>}
      /\ UNCHANGED <<stored, external, model, w_value, raised, focus>>
  BY <1>3, <1>4 DEF Propose, varState
<1>6. /\ stored[x] \in Values /\ stored[x] # NoValue
      /\ proposal \in [Vars -> [Solvers -> Values \cup {NoValue}]]
  BY <1>1, ConstantsAssumption DEF Inv, TypeOK
<1>7. /\ proposal'[x][s] = stored[x]
      /\ \A u \in Solvers \ {s} : proposal'[x][u] = proposal[x][u]
      /\ \A z \in Vars \ {x} : proposal'[z] = proposal[z]
  BY <1>1, <1>5, <1>6
<1>8. Holding(x)' = Holding(x) \cup {s} /\ \A z \in Vars \ {x} : Holding(z)' = Holding(z)
  BY <1>1, <1>6, <1>7 DEF Holding
<1>9. Agreeing(x)' = Agreeing(x)
  BY <1>5 DEF Agreeing, ValueOf
<1>10. Kept(x, M \cup {s}, A)'
  BY <1>1, <1>5, <1>7, <1>8, <1>9 DEF Going, Kept
<1>11. NoneElse'
  <2>. SUFFICES ASSUME ~raised' PROVE leaked' = {} /\ \A z \in Vars \ focus' : Holding(z)' = {}
    BY DEF NoneElse
  <2>1. s \notin Holding(x)
    BY <1>5 DEF Going, Kept
  <2>2. leaked' = leaked
    BY <1>1, <1>5, <2>1 DEF Holding
  <2>. QED
    BY <1>5, <1>8, <2>2 DEF Going, NoneElse
<1>. QED
  BY <1>1, <1>3, <1>5, <1>10, <1>11, StaysSame DEF Going

LEMMA EndMoves ==
  ASSUME NEW x, NEW M, NEW A, Going(x, M, A), NEW s \in M, agenda[1] = Call("end_assign", <<x, s>>)
  PROVE  /\ Same(x) /\ agenda' = Tail(agenda) /\ focus' = focus
         /\ Kept(x, M \ {s}, A)' /\ NoneElse'
<1>1. Inv /\ Inv' /\ Step /\ x \in Vars /\ s \in Solvers
  BY DEF Going, Inv, TypeOK
<1>2. EndAssign
  BY <1>1, StepIs, CallIs DEF Executes
<1>3. PICK y \in Vars, t \in Solvers :
        /\ agenda[1] = Call("end_assign", <<y, t>>)
        /\ proposal' = [proposal EXCEPT ![y][t] = NoValue]
        /\ \/ proposal[y][t] # NoValue /\ agenda' = Tail(agenda) /\ UNCHANGED <<raised, focus>>
           \/ proposal[y][t] = NoValue
        /\ UNCHANGED <<varState, enabled, env, asserted, leaked, pin, model, w_value>>
  BY <1>1, <1>2, EndAssignDoes, Zenon
<1>4. y = x /\ t = s
  <2>1. <<y, t>> = <<x, s>>
    BY <1>3, CallsEqual
  <2>. QED
    BY <2>1
<1>5. s \in Holding(x) /\ proposal[x][s] # NoValue
  BY DEF Going, Kept, Holding
<1>6. /\ proposal' = [proposal EXCEPT ![x][s] = NoValue]
      /\ agenda' = Tail(agenda)
      /\ UNCHANGED <<stored, external, model, w_value, leaked, raised, focus>>
  BY <1>3, <1>4, <1>5 DEF varState
<1>7. proposal \in [Vars -> [Solvers -> Values \cup {NoValue}]]
  BY <1>1 DEF Inv, TypeOK
<1>8. /\ proposal'[x][s] = NoValue
      /\ \A u \in Solvers \ {s} : proposal'[x][u] = proposal[x][u]
      /\ \A z \in Vars \ {x} : proposal'[z] = proposal[z]
  BY <1>1, <1>6, <1>7
<1>9. Holding(x)' = Holding(x) \ {s} /\ \A z \in Vars \ {x} : Holding(z)' = Holding(z)
  BY <1>1, <1>8 DEF Holding
<1>10. Agreeing(x)' = Agreeing(x)
  BY <1>6 DEF Agreeing, ValueOf
<1>11. M \subseteq Solvers
  BY <1>1 DEF Going, Inv, TypeOK
<1>12. Kept(x, M \ {s}, A)'
  BY <1>6, <1>8, <1>9, <1>10, <1>11 DEF Going, Kept
<1>13. NoneElse'
  BY <1>6, <1>9 DEF Going, NoneElse
<1>. QED
  BY <1>1, <1>6, <1>12, <1>13, StaysSame DEF Going

LEMMA SolveAdopts ==
  ASSUME NEW x, NEW M, NEW A, Going(x, M, A), NEW s \in M, agenda[1] = Call("solve", s)
  PROVE  /\ Same(x) /\ focus' = focus
         /\ \/ StageInv'
            \/ agenda' = Tail(agenda) /\ Kept(x, M, A \cup {s})' /\ NoneElse'
<1>1. Inv /\ Inv' /\ Step /\ x \in Vars /\ s \in Solvers /\ A \subseteq Solvers /\ s \in Holding(x)
  BY DEF Going, Inv, TypeOK, Kept
<1>2. /\ UNCHANGED <<varState, proposal, leaked, focus>>
      /\ \/ agenda' = <<>> /\ raised'
         \/ /\ agenda' = Tail(agenda) /\ UNCHANGED raised
            /\ \A t \in Solvers \ {s} : ValueOf(x, t)' = ValueOf(x, t)
            /\ ValueOf(x, s)' = proposal[x][s]
  BY <1>1, SolveMoves
<1>3. UNCHANGED <<stored, external>> /\ Same(x)
  BY <1>2, StaysSame DEF Going, varState
<1>4. CASE agenda' = <<>> /\ raised'
  BY <1>2, <1>3, <1>4, RaiseMove
<1>5. CASE /\ agenda' = Tail(agenda) /\ UNCHANGED raised
           /\ \A t \in Solvers \ {s} : ValueOf(x, t)' = ValueOf(x, t)
           /\ ValueOf(x, s)' = proposal[x][s]
  <2>1. Holding(x)' = Holding(x) /\ \A z \in Vars : Holding(z)' = Holding(z)
    BY <1>2 DEF Holding
  <2>2. ~raised => A \cup {s} \subseteq Agreeing(x)'
    BY <1>1, <1>3, <1>5 DEF Going, Kept, Agreeing
  <2>3. Kept(x, M, A \cup {s})'
    BY <1>2, <1>3, <1>5, <2>1, <2>2 DEF Going, Kept
  <2>4. NoneElse'
    BY <1>2, <1>5, <2>1 DEF Going, NoneElse
  <2>. QED
    BY <1>2, <1>3, <1>5, <2>3, <2>4
<1>. QED
  BY <1>2, <1>3, <1>4, <1>5

(* A variable shared by solvers is offered to the others, one by one.      *)
LEMMA RowOffering ==
  ASSUME NEW x, NEW M, NEW A, Going(x, M, A), NEW r \in {<<>>, AssignRest(x)},
         NEW N \in SUBSET external[x], Below(x, r, N), IsSolveable(x),
         Offering(x, agenda, r, M, A, N)
  PROVE  StageInv'
<1>1. /\ Inv /\ SlotsApart /\ Step /\ x \in Vars /\ r \in Seq(Calls) /\ focus = {x}
      /\ M \in SUBSET external[x] /\ A \in SUBSET external[x]
  BY RestTyped DEF Going, PathInv
<1>2. ASSUME NEW q, NEW O, NEW B, Offering(x, q, r, O, B, N)
      PROVE  Under(x, q, O, B)
  <2>1. Getting(x, q, O, B)
    BY <1>2 DEF Getting
  <2>. QED
    BY <2>1 DEF Under
<1>3. \A s \in Others(x) : s \in external[x] \ N
  BY DEF Others, Below
<1>4. ASSUME NEW k \in Nat, agenda = <<Call("update_downstream_variables", <<x, k>>)>> \o r,
             M = N, A = external[x] \ OthersLeft(x, k)
      PROVE  StageInv'
  <2>. DEFINE a == Call("update_downstream_variables", <<x, k>>)
  <2>1. agenda[1] = a /\ Tail(agenda) = r
    <3>1. Fronts(r, a, a, a, a)
      BY <1>1, FrontsKnown
    <3>. QED
      BY <1>4, <3>1 DEF Fronts
  <2>2. UpdateDownstreamVariables /\ ValuesStay
    <3>1. agenda[1].fn = "update_downstream_variables"
      BY <2>1, CallIs
    <3>. QED
      BY <1>1, <3>1, StepIs, ValuesKept DEF Executes
  <2>3. PICK y \in Vars, i \in Nat :
          /\ agenda[1] = Call("update_downstream_variables", <<y, i>>)
          /\ UNCHANGED <<varState, enabled, env, solverState, raised, focus>>
          /\ \/ /\ NoneLeft(y, i, Others(y))
                /\ agenda' = <<Call("make_not_assignable", y)>> \o Tail(agenda)
             \/ \E j \in Nat :
                  /\ Visits(y, i, Others(y), j)
                  /\ agenda' = (Offer(y, solvers_w[y][j])
                       \o <<Call("update_downstream_variables", <<y, j + 1>>)>>) \o Tail(agenda)
    BY <1>1, <2>2, UpdateDownstreamVariablesDoes, Zenon
  <2>4. y = x /\ i = k
    <3>1. <<y, i>> = <<x, k>>
      BY <2>1, <2>3, CallsEqual
    <3>. QED
      BY <3>1
  <2>5. UNCHANGED <<external, stored, proposal, leaked, raised, focus>>
    BY <2>3 DEF varState, solverState
  <2>7. CASE /\ NoneLeft(x, k, Others(x))
             /\ agenda' = <<Call("make_not_assignable", x)>> \o r
    <3>. DEFINE q == <<Call("make_not_assignable", x)>> \o r
    <3>1. A = external[x]
      BY <1>1, <1>4, <2>7, OthersLoop
    <3>2. Following(x, q, r)
      BY DEF Following
    <3>3. Under(x, q, M, A)
      BY <1>1, <1>4, <3>1, <3>2, FollowUnder
    <3>4. agenda' = q
      BY <2>7
    <3>. HIDE DEF q
    <3>. QED
      BY <2>2, <2>5, <3>3, <3>4, QuietMove
  <2>8. ASSUME NEW j \in Nat, Visits(x, k, Others(x), j),
               agenda' = (Offer(x, solvers_w[x][j])
                       \o <<Call("update_downstream_variables", <<x, j + 1>>)>>) \o r
        PROVE  StageInv'
    <3>. DEFINE s == solvers_w[x][j]
                update == Call("update_downstream_variables", <<x, j + 1>>)
                b == Call("begin_assign", <<x, s>>)
                c == Call("solve", s)
                d == Call("end_assign", <<x, s>>)
                q == <<b, c, d, update>> \o r
    <3>1. /\ s \in Others(x) \ OthersLeft(x, j + 1) /\ j + 1 \in Nat
          /\ OthersLeft(x, k) = OthersLeft(x, j + 1) \cup {s}
      BY <1>1, <2>8, OthersLoop
    <3>2. Offering(x, q, r, M, A, N)
      <4>1. A = external[x] \ (OthersLeft(x, j + 1) \cup {s})
        BY <1>4, <3>1
      <4>. HIDE DEF s
      <4>. QED
        BY <1>4, <3>1, <4>1, Zenon DEF Offering
    <3>3. agenda' = q
      <4>1. Fronts(r, b, c, d, update)
        BY <1>1, FrontsKnown
      <4>2. <<b, c, d>> \o <<update>> = <<b, c, d, update>>
        BY <4>1 DEF Fronts
      <4>. QED
        BY <2>8, <4>2 DEF Offer
    <3>. HIDE DEF q
    <3>. QED
      BY <1>2, <2>2, <2>5, <3>2, <3>3, QuietMove
  <2>. QED
    BY <2>1, <2>3, <2>4, <2>7, <2>8
<1>5. ASSUME NEW k \in Nat, NEW s \in Others(x) \ OthersLeft(x, k)
      PROVE  LET todo   == OthersLeft(x, k)
                 update == Call("update_downstream_variables", <<x, k>>)
                 b == Call("begin_assign", <<x, s>>)
                 c == Call("solve", s)
                 d == Call("end_assign", <<x, s>>)
             IN  \/ agenda = <<b, c, d, update>> \o r /\ M = N /\ A = external[x] \ (todo \cup {s})
                 \/ agenda = <<c, d, update>> \o r /\ M = N \cup {s} /\ A = external[x] \ (todo \cup {s})
                 \/ agenda = <<d, update>> \o r /\ M = N \cup {s} /\ A = external[x] \ todo
                 => StageInv'
  <2>. DEFINE todo   == OthersLeft(x, k)
              update == Call("update_downstream_variables", <<x, k>>)
              b == Call("begin_assign", <<x, s>>)
              c == Call("solve", s)
              d == Call("end_assign", <<x, s>>)
              qb == <<b, c, d, update>> \o r
              qc == <<c, d, update>> \o r
              qd == <<d, update>> \o r
              qe == <<update>> \o r
  <2>1. /\ qb[1] = b /\ Tail(qb) = qc /\ qc[1] = c /\ Tail(qc) = qd /\ qd[1] = d /\ Tail(qd) = qe
    <3>1. Fronts(r, b, c, d, update) /\ Fronts(r, c, d, update, update) /\ Fronts(r, d, update, update, update)
      BY <1>1, FrontsKnown
    <3>. QED
      BY <3>1 DEF Fronts
  <2>2. /\ Offering(x, qc, r, N \cup {s}, external[x] \ (todo \cup {s}), N)
        /\ Offering(x, qd, r, N \cup {s}, external[x] \ todo, N)
        /\ Offering(x, qe, r, N, external[x] \ todo, N)
    BY <1>5, Zenon DEF Offering
  <2>3. s \in external[x] \ N /\ N \cup {s} \in SUBSET external[x]
    BY <1>3
  <2>. HIDE DEF qb, qc, qd, qe, b, c, d
  <2>4. CASE agenda = qb /\ M = N /\ A = external[x] \ (todo \cup {s})
    <3>1. agenda[1] = Call("begin_assign", <<x, s>>) /\ Tail(agenda) = qc
      BY <2>1, <2>4 DEF b
    <3>2. /\ Same(x) /\ agenda' = qc /\ focus' = focus
          /\ Kept(x, M \cup {s}, A)' /\ NoneElse'
      BY <2>3, <2>4, <3>1, BeginMoves
    <3>3. Under(x, qc, M \cup {s}, A)
      BY <1>2, <2>2, <2>4
    <3>4. StageInv'
      BY <1>1, <2>3, <2>4, <3>2, <3>3, StageMoves
    <3>. QED
      BY <3>4
  <2>5. CASE agenda = qc /\ M = N \cup {s} /\ A = external[x] \ (todo \cup {s})
    <3>1. agenda[1] = Call("solve", s) /\ Tail(agenda) = qd
      BY <2>1, <2>5 DEF c
    <3>2. external[x] \ todo = A \cup {s} /\ s \in M /\ A \cup {s} \in SUBSET external[x]
      BY <1>5, <2>3, <2>5
    <3>3. Under(x, qd, M, A \cup {s})
      BY <1>2, <2>2, <2>5, <3>2
    <3>4. /\ Same(x) /\ focus' = focus
          /\ \/ StageInv'
             \/ agenda' = qd /\ Kept(x, M, A \cup {s})' /\ NoneElse'
      BY <3>1, <3>2, SolveAdopts
    <3>5. StageInv'
      BY <1>1, <3>2, <3>3, <3>4, StageMoves
    <3>. QED
      BY <3>5
  <2>6. CASE agenda = qd /\ M = N \cup {s} /\ A = external[x] \ todo
    <3>1. agenda[1] = Call("end_assign", <<x, s>>) /\ Tail(agenda) = qe
      BY <2>1, <2>6 DEF d
    <3>2. /\ Same(x) /\ agenda' = qe /\ focus' = focus
          /\ Kept(x, M \ {s}, A)' /\ NoneElse'
      <4>1. s \in M
        BY <2>6
      <4>. QED
        BY <3>1, <4>1, EndMoves
    <3>3. Under(x, qe, M \ {s}, A)
      <4>1. M \ {s} = N
        BY <2>3, <2>6
      <4>. QED
        BY <1>2, <2>2, <2>6, <4>1
    <3>4. M \ {s} \in SUBSET external[x]
      BY <1>1
    <3>5. StageInv'
      BY <1>1, <3>2, <3>3, <3>4, StageMoves
    <3>. QED
      BY <3>5
  <2>. QED
    BY <2>4, <2>5, <2>6 DEF qb, qc, qd, b, c, d
<1>. QED
  BY <1>4, <1>5 DEF Offering

(* The value read is the one the defining solver was told, if it was told. *)
LEMMA RowGet ==
  ASSUME NEW x, NEW M, Going(x, M, M), NEW r \in {<<>>, AssignRest(x)}, Below(x, r, M),
         IsSolveable(x), agenda = <<Call("get_i", x)>> \o r
  PROVE  StageInv'
<1>. DEFINE a == Call("get_i", x)
<1>. PICK d : d = DefiningSolver(x)
  OBVIOUS
<1>. PICK v : v = ValueOf(x, d)
  OBVIOUS
<1>1. /\ Inv /\ Inv' /\ SlotsApart /\ Step /\ x \in Vars /\ r \in Seq(Calls)
      /\ M \in SUBSET external[x] /\ external[x] \in SUBSET Solvers
  BY RestTyped DEF Going, PathInv, Inv, TypeOK
<1>2. agenda[1] = a /\ Tail(agenda) = r
  <2>1. Fronts(r, a, a, a, a)
    BY <1>1, FrontsKnown
  <2>. QED
    BY <2>1 DEF Fronts
<1>3. GetI /\ ValuesStay
  <2>1. agenda[1].fn = "get_i"
    BY <1>2, CallIs
  <2>. QED
    BY <1>1, <2>1, StepIs, ValuesKept DEF Executes
<1>4. PICK y \in Vars :
        /\ agenda[1] = Call("get_i", y)
        /\ stored' = [stored EXCEPT ![y] = ValueOf(y, DefiningSolver(y))]
        /\ UNCHANGED <<solvers_w, external, readonly, constraints_w, enabled, env,
                       asserted, proposal, leaked, model, raised, focus>>
        /\ \/ /\ IsShared(y)
              /\ agenda' = <<Call("update_downstream_variables", <<y, 1>>)>> \o Tail(agenda)
           \/ ~IsShared(y) /\ agenda' = Tail(agenda)
  BY <1>1, <1>3, GetIDoes, Zenon
<1>5. y = x
  BY <1>2, <1>4, CallsEqual
<1>6. d \in external[x]
  BY <1>1, DefiningKnown DEF Inv
<1>7. /\ stored \in [Vars -> Values] /\ stored'[x] = v
      /\ external' = external /\ UNCHANGED <<proposal, leaked, raised, focus>>
  BY <1>1, <1>4, <1>5 DEF Inv, TypeOK
<1>8. Same(x) /\ Holding(x)' = Holding(x) /\ \A z \in Vars : Holding(z)' = Holding(z)
  BY <1>1, <1>7, StaysSame DEF Going, Holding
<1>9. NoneElse'
  BY <1>7, <1>8 DEF Going, NoneElse
<1>10. ~raised => \A s \in M : proposal[x][s] = v
  <2>1. M = {} \/ M = {d}
    BY DEF Below
  <2>2. CASE M = {d}
    BY <2>2 DEF Going, Kept, Agreeing
  <2>. QED
    BY <2>1, <2>2
<1>11. Kept(x, M, {d})'
  <2>1. d \in Agreeing(x)'
    <3>1. \A s \in external[x] : ValueOf(x, s)' = ValueOf(x, s)
      BY <1>1, <1>3 DEF ValuesStay
    <3>. QED
      BY <1>1, <1>6, <1>7, <3>1 DEF Agreeing
  <2>. QED
    BY <1>7, <1>8, <1>10, <2>1 DEF Going, Kept
<1>12. CASE IsShared(x) /\ agenda' = <<Call("update_downstream_variables", <<x, 1>>)>> \o r
  <2>. DEFINE q == <<Call("update_downstream_variables", <<x, 1>>)>> \o r
  <2>1. external[x] \ OthersLeft(x, 1) = {d}
    <3>1. OthersLeft(x, 1) = Others(x)
      BY <1>1, OthersLoop
    <3>. QED
      BY <1>6, <3>1 DEF Others
  <2>2. Offering(x, q, r, M, {d}, M)
    BY <2>1 DEF Offering
  <2>3. Under(x, q, M, {d})
    <3>1. Getting(x, q, M, {d})
      BY <1>1, <2>2 DEF Getting
    <3>. QED
      BY <3>1 DEF Under
  <2>4. agenda' = q /\ focus = {x} /\ {d} \in SUBSET external[x]
    BY <1>6, <1>12 DEF Going
  <2>. HIDE DEF q
  <2>5. StageInv'
    BY <1>1, <1>7, <1>8, <1>9, <1>11, <2>3, <2>4, StageMoves
  <2>. QED
    BY <2>5
<1>13. CASE ~IsShared(x) /\ agenda' = r
  <2>1. external[x] = {d}
    <3>1. solvers_w[x] \in Seq(Solvers \cup {NoSolver}) /\ Len(solvers_w[x]) <= 1
      BY <1>1, <1>13 DEF Inv, TypeOK, IsShared
    <3>2. \A s \in external[x] : \E i \in DOMAIN solvers_w[x] : solvers_w[x][i] = s
      BY <1>1 DEF Inv, SlotsKnown
    <3>3. \A i \in DOMAIN solvers_w[x] : i = 1
      BY <3>1
    <3>. QED
      BY <1>6, <3>2, <3>3
  <2>2. Under(x, r, M, {d})
    BY <1>1, <2>1, RestUnder
  <2>3. StageInv'
    BY <1>1, <1>7, <1>8, <1>9, <1>11, <1>13, <2>1, <2>2, StageMoves DEF Going
  <2>. QED
    BY <2>3
<1>. QED
  BY <1>2, <1>4, <1>5, <1>12, <1>13

(* The solver is asked for the value the slot was given.                   *)
LEMMA EndRestUnder ==
  ASSUME Inv, SlotsApart, NEW x \in Vars
  PROVE  Under(x, EndRest(x), external[x], external[x])
<1>1. SolversLeft(x, 1) = external[x]
  BY LoopLeft DEF SolversLeft
<1>2. EndRest(x) = <<Call("__end_assign__", <<x, 1>>)>> \o <<>>
  <2>1. <<Call("__end_assign__", <<x, 1>>)>> \in Seq(Calls)
    BY CallTypes, ShortSeqs
  <2>. QED
    BY <2>1, ConcatEmptySeq DEF EndRest
<1>3. Ending(x, EndRest(x), external[x], external[x])
  BY <1>1, <1>2, Zenon DEF Ending
<1>. QED
  BY <1>3 DEF Under

LEMMA RowPropose ==
  ASSUME NEW x, NEW M, NEW A, Going(x, M, A), Proposing(x, agenda, M, A)
  PROVE  StageInv'
<1>. DEFINE r == EndRest(x)
            others == Call("assign others", <<x, 1>>)
            get == Call("get_i", x)
            solve == Call("solve", DefiningSolver(x))
<1>1. /\ Inv /\ Inv' /\ SlotsApart /\ Step /\ x \in Vars /\ r \in Seq(Calls)
      /\ AssignRest(x) \in Seq(Calls) /\ focus = {x} /\ A = {}
  BY RestTyped DEF Going, PathInv, Proposing
<1>2. IsSolveable(x) => DefiningSolver(x) \in external[x]
  BY <1>1, DefiningKnown DEF Inv
<1>3. CASE /\ agenda = <<Call("__assign__", x)>> \o r
           /\ M = IF IsSolveable(x) THEN {DefiningSolver(x)} ELSE {}
  <2>. DEFINE a == Call("__assign__", x)
  <2>1. /\ agenda[1] = a /\ Tail(agenda) = r
        /\ <<solve, get, others>> \o r = <<solve, get>> \o (<<others>> \o r)
    <3>1. Fronts(r, a, a, a, a) /\ Fronts(r, solve, get, others, others)
      BY <1>1, FrontsKnown
    <3>. QED
      BY <1>3, <3>1 DEF Fronts
  <2>2. AssignVariable /\ ValuesStay
    <3>1. agenda[1].fn = "__assign__"
      BY <2>1, CallIs
    <3>. QED
      BY <1>1, <3>1, StepIs, ValuesKept DEF Executes
  <2>3. PICK y \in Vars :
          /\ agenda[1] = Call("__assign__", y)
          /\ agenda' = (IF IsSolveable(y) THEN AssignCalls(y) ELSE <<>>) \o Tail(agenda)
          /\ UNCHANGED <<stored, external, readonly, constraints_w, enabled, env,
                         solverState, raised, focus>>
    BY <1>1, <2>2, AssignVariableDoes, Zenon
  <2>4. y = x
    <3>1. agenda[1] = Call("__assign__", y)
      BY <2>3
    <3>2. agenda[1] = Call("__assign__", x)
      BY <2>1
    <3>. QED
      BY <3>1, <3>2, CallsEqual, Zenon
  <2>5. UNCHANGED <<external, stored, proposal, leaked, raised, focus>>
    BY <2>3 DEF solverState
  <2>6. CASE IsSolveable(x)
    <3>. DEFINE q == <<solve, get>> \o AssignRest(x)
    <3>1. agenda' = q
      BY <2>1, <2>3, <2>4, <2>6 DEF AssignCalls, AssignRest
    <3>2. Proposing(x, q, M, A)
      BY <1>1, <1>3, <2>6 DEF Proposing
    <3>3. Under(x, q, M, A)
      BY <3>2 DEF Under
    <3>. HIDE DEF q
    <3>. QED
      BY <2>2, <2>5, <3>1, <3>3, QuietMove
  <2>7. CASE ~IsSolveable(x)
    <3>1. agenda' = r
      BY <1>1, <2>1, <2>3, <2>4, <2>7, ConcatEmptySeq
    <3>2. external[x] = {} /\ M = {}
      BY <1>3, <2>7 DEF IsSolveable
    <3>3. Under(x, r, M, A)
      BY <1>1, <3>2, EndRestUnder
    <3>. HIDE DEF r
    <3>. QED
      BY <2>2, <2>5, <3>1, <3>3, QuietMove
  <2>. QED
    BY <2>6, <2>7
<1>4. CASE agenda = <<solve, get>> \o AssignRest(x) /\ IsSolveable(x) /\ M = {DefiningSolver(x)}
  <2>. PICK d : d = DefiningSolver(x)
    OBVIOUS
  <2>. DEFINE q == <<get>> \o AssignRest(x)
  <2>1. agenda[1] = Call("solve", d) /\ Tail(agenda) = q
    <3>1. Fronts(AssignRest(x), solve, get, get, get)
      BY <1>1, FrontsKnown
    <3>. QED
      BY <1>4, <3>1 DEF Fronts
  <2>2. d \in M /\ M = {d} /\ {d} \in SUBSET external[x] /\ A \cup {d} = {d}
    BY <1>1, <1>2, <1>4
  <2>3. Under(x, q, {d}, {d})
    <3>1. Below(x, AssignRest(x), {d})
      BY <1>4 DEF Below
    <3>2. Getting(x, q, {d}, {d})
      BY <1>4, <2>2, <3>1 DEF Getting
    <3>. QED
      BY <3>2 DEF Under
  <2>. HIDE DEF q
  <2>4. /\ Same(x) /\ focus' = focus
        /\ \/ StageInv'
           \/ agenda' = q /\ Kept(x, M, A \cup {d})' /\ NoneElse'
    BY <2>1, <2>2, SolveAdopts
  <2>5. StageInv'
    BY <1>1, <2>2, <2>3, <2>4, StageMoves
  <2>. QED
    BY <2>5
<1>. QED
  BY <1>3, <1>4 DEF Proposing

(* The slot takes the value, the defining solver is offered it.            *)
LEMMA RowBegin ==
  ASSUME NEW x, NEW M, NEW A, Going(x, M, A), Beginning(x, agenda, M, A)
  PROVE  StageInv'
<1>1. /\ Inv /\ Inv' /\ SlotsApart /\ Step /\ x \in Vars /\ EndRest(x) \in Seq(Calls)
      /\ focus = {x} /\ M = {} /\ A = {}
  BY RestTyped DEF Going, PathInv, Beginning
<1>. PICK v \in Values :
       agenda = (<<Call("__begin_assign__", <<x, v>>)>>
         \o IfConstrained(x, Call("__assign__", x))) \o IfConstrained(x, Call("__end_assign__", <<x, 1>>))
  BY DEF Beginning
<1>. DEFINE b == Call("__begin_assign__", <<x, v>>)
            assign == Call("__assign__", x)
            q == IF IsConstrained(x) THEN <<assign>> \o EndRest(x) ELSE <<>>
<1>2. agenda[1] = b /\ Tail(agenda) = q
  <2>1. /\ Fronts(EndRest(x), b, assign, assign, assign) /\ Fronts(<<>>, b, b, b, b)
    BY <1>1, RestTyped, FrontsKnown
  <2>2. /\ b \in Calls /\ assign \in Calls /\ <<b>> \in Seq(Calls) /\ <<b, assign>> \in Seq(Calls)
        /\ <<b>> \o <<assign>> = <<b, assign>> /\ <<b>> \o <<>> = <<b>>
    <3>1. b \in Calls /\ assign \in Calls
      BY <1>1, CallTypes
    <3>2. <<b>> \in Seq(Calls) /\ <<b, assign>> \in Seq(Calls)
      BY <3>1, ShortSeqs
    <3>. QED
      BY <3>1, <3>2, JoinedTyped, ConcatEmptySeq
  <2>3. CASE IsConstrained(x)
    <3>1. agenda = <<b, assign>> \o EndRest(x)
      BY <2>2, <2>3 DEF IfConstrained, EndRest
    <3>. QED
      BY <2>1, <2>3, <3>1 DEF Fronts
  <2>4. CASE ~IsConstrained(x)
    <3>1. agenda = <<b>> \o <<>>
      BY <2>2, <2>4 DEF IfConstrained
    <3>. QED
      BY <2>1, <2>4, <3>1 DEF Fronts
  <2>. QED
    BY <2>3, <2>4
<1>3. BeginAssignVariable
  <2>1. agenda[1].fn = "__begin_assign__"
    BY <1>2, CallIs
  <2>. QED
    BY <1>1, <2>1, StepIs DEF Executes
<1>4. PICK y \in Vars, w \in Values :
        /\ agenda[1] = Call("__begin_assign__", <<y, w>>)
        /\ agenda' = Tail(agenda)
        /\ stored' = [stored EXCEPT ![y] = w]
        /\ UNCHANGED <<external, readonly, constraints_w, enabled, env, asserted,
                       model, w_value, raised, focus>>
        /\ \/ /\ IsConstrained(y)
              /\ \/ IsSolveable(y) /\ Propose(y, DefiningSolver(y), w)
                 \/ ~IsSolveable(y) /\ UNCHANGED <<proposal, leaked>>
           \/ ~IsConstrained(y) /\ UNCHANGED <<pin, solvers_w, proposal, leaked>>
  BY <1>1, <1>3, BeginAssignVariableDoes
<1>5. y = x /\ w = v
  <2>1. <<y, w>> = <<x, v>>
    BY <1>2, <1>4, CallsEqual
  <2>. QED
    BY <2>1
<1>6. /\ stored'[x] = v /\ v # NoValue /\ UNCHANGED <<external, raised, focus>> /\ agenda' = q
  <2>1. stored \in [Vars -> Values] /\ v # NoValue
    BY <1>1, ConstantsAssumption DEF Inv, TypeOK
  <2>. QED
    BY <1>1, <1>2, <1>4, <1>5, <2>1
<1>7. Same(x)
  BY <1>1, <1>6, StaysSame DEF Going
<1>8. CASE IsSolveable(x)
  <2>. PICK d : d = DefiningSolver(x)
    OBVIOUS
  <2>1. d \in external[x] /\ d \in Solvers
    BY <1>1, <1>8, DefiningKnown DEF Inv
  <2>2. IsConstrained(x)
    BY <1>1, <1>8 DEF Inv, SlotsKnown, IsConstrained, IsSolveable
  <2>3. /\ proposal' = [proposal EXCEPT ![x][d] = v]
        /\ leaked' = IF proposal[x][d] = NoValue THEN leaked ELSE leaked \cup {<<x, d, proposal[x][d]>>}
        /\ proposal \in [Vars -> [Solvers -> Values \cup {NoValue}]]
    BY <1>1, <1>4, <1>5, <1>8, <2>2 DEF Propose, Inv, TypeOK
  <2>4. /\ proposal'[x][d] = v
        /\ \A u \in Solvers \ {d} : proposal'[x][u] = proposal[x][u]
        /\ \A z \in Vars \ {x} : proposal'[z] = proposal[z]
    BY <1>1, <2>1, <2>3
  <2>5. Holding(x)' = Holding(x) \cup {d} /\ \A z \in Vars \ {x} : Holding(z)' = Holding(z)
    BY <1>1, <1>6, <2>1, <2>4 DEF Holding
  <2>6. Kept(x, {d}, {})'
    BY <1>1, <1>6, <2>4, <2>5 DEF Going, Kept
  <2>7. NoneElse'
    <3>. SUFFICES ASSUME ~raised' PROVE leaked' = {} /\ \A z \in Vars \ focus' : Holding(z)' = {}
      BY DEF NoneElse
    <3>1. d \notin Holding(x)
      BY <1>1, <1>6 DEF Going, Kept
    <3>2. leaked' = leaked
      BY <2>1, <2>3, <3>1 DEF Holding
    <3>. QED
      BY <1>1, <1>6, <2>5, <3>2 DEF Going, NoneElse
  <2>8. Under(x, q, {d}, {})
    <3>1. Proposing(x, q, {d}, {})
      BY <1>8, <2>2 DEF Proposing
    <3>. QED
      BY <3>1 DEF Under
  <2>. HIDE DEF q
  <2>9. StageInv'
    BY <1>1, <1>6, <1>7, <2>1, <2>6, <2>7, <2>8, StageMoves
  <2>. QED
    BY <2>9
<1>9. CASE ~IsSolveable(x)
  <2>1. UNCHANGED <<proposal, leaked>> /\ external[x] = {}
    BY <1>4, <1>5, <1>9 DEF IsSolveable
  <2>2. Holding(x)' = Holding(x) /\ \A z \in Vars : Holding(z)' = Holding(z)
    BY <2>1 DEF Holding
  <2>3. Kept(x, {}, {})' /\ NoneElse'
    BY <1>1, <1>6, <2>1, <2>2 DEF Going, Kept, NoneElse
  <2>4. Under(x, q, {}, {})
    <3>1. IsConstrained(x) => Proposing(x, q, {}, {})
      BY <1>9 DEF Proposing
    <3>2. ~IsConstrained(x) => Finished(x, q, {}, {})
      BY <2>1 DEF Finished
    <3>. QED
      BY <3>1, <3>2 DEF Under
  <2>. HIDE DEF q
  <2>5. StageInv'
    BY <1>1, <1>6, <1>7, <2>3, <2>4, StageMoves
  <2>. QED
    BY <2>5
<1>. QED
  BY <1>8, <1>9

(* The other solvers are assigned the value, one by one.                   *)
LEMMA RowAssigning ==
  ASSUME NEW x, NEW M, NEW A, Going(x, M, A), Assigning(x, agenda, M, A)
  PROVE  StageInv'
<1>. DEFINE r == EndRest(x)
<1>1. /\ Inv /\ SlotsApart /\ Step /\ x \in Vars /\ r \in Seq(Calls) /\ focus = {x}
      /\ M \in SUBSET external[x] /\ A = external[x] /\ IsSolveable(x)
  BY RestTyped DEF Going, PathInv, Assigning
<1>2. ASSUME NEW q, NEW O, Assigning(x, q, O, A)
      PROVE  Under(x, q, O, A)
  BY <1>2 DEF Under
<1>3. \A s \in Others(x) : s \in external[x]
  BY DEF Others
<1>4. ASSUME NEW k \in Nat, agenda = <<Call("assign others", <<x, k>>)>> \o r,
             M = external[x] \ OthersLeft(x, k)
      PROVE  StageInv'
  <2>. DEFINE a == Call("assign others", <<x, k>>)
  <2>1. agenda[1] = a /\ Tail(agenda) = r
    <3>1. Fronts(r, a, a, a, a)
      BY <1>1, FrontsKnown
    <3>. QED
      BY <1>4, <3>1 DEF Fronts
  <2>2. AssignOthers /\ ValuesStay
    <3>1. agenda[1].fn = "assign others"
      BY <2>1, CallIs
    <3>. QED
      BY <1>1, <3>1, StepIs, ValuesKept DEF Executes
  <2>3. PICK y \in Vars, i \in Nat :
          /\ agenda[1] = Call("assign others", <<y, i>>)
          /\ UNCHANGED <<varState, enabled, env, solverState, raised, focus>>
          /\ \/ NoneLeft(y, i, Others(y)) /\ agenda' = Tail(agenda)
             \/ \E j \in Nat :
                  /\ Visits(y, i, Others(y), j)
                  /\ agenda' = <<Call("begin_assign", <<y, solvers_w[y][j]>>),
                                 Call("solve", solvers_w[y][j]),
                                 Call("assign others", <<y, j + 1>>)>> \o Tail(agenda)
    BY <1>1, <2>2, AssignOthersDoes, Zenon
  <2>4. y = x /\ i = k
    <3>1. <<y, i>> = <<x, k>>
      BY <2>1, <2>3, CallsEqual
    <3>. QED
      BY <3>1
  <2>5. UNCHANGED <<external, stored, proposal, leaked, raised, focus>>
    BY <2>3 DEF varState, solverState
  <2>6. CASE NoneLeft(x, k, Others(x)) /\ agenda' = r
    <3>1. M = external[x]
      BY <1>1, <1>4, <2>6, OthersLoop
    <3>2. Under(x, r, M, A)
      BY <1>1, <3>1, EndRestUnder
    <3>. HIDE DEF r
    <3>. QED
      BY <2>2, <2>5, <2>6, <3>2, QuietMove
  <2>7. ASSUME NEW j \in Nat, Visits(x, k, Others(x), j),
               agenda' = <<Call("begin_assign", <<x, solvers_w[x][j]>>),
                           Call("solve", solvers_w[x][j]),
                           Call("assign others", <<x, j + 1>>)>> \o r
        PROVE  StageInv'
    <3>. DEFINE s == solvers_w[x][j]
                q == <<Call("begin_assign", <<x, s>>), Call("solve", s),
                       Call("assign others", <<x, j + 1>>)>> \o r
    <3>1. /\ s \in Others(x) \ OthersLeft(x, j + 1) /\ j + 1 \in Nat
          /\ OthersLeft(x, k) = OthersLeft(x, j + 1) \cup {s}
      BY <1>1, <2>7, OthersLoop
    <3>2. Assigning(x, q, M, A)
      <4>1. M = external[x] \ (OthersLeft(x, j + 1) \cup {s})
        BY <1>4, <3>1
      <4>. HIDE DEF s
      <4>. QED
        BY <1>1, <3>1, <4>1, Zenon DEF Assigning
    <3>3. agenda' = q
      BY <2>7
    <3>. HIDE DEF q
    <3>. QED
      BY <1>2, <2>2, <2>5, <3>2, <3>3, QuietMove
  <2>. QED
    BY <2>1, <2>3, <2>4, <2>6, <2>7
<1>5. ASSUME NEW k \in Nat, NEW s \in Others(x) \ OthersLeft(x, k)
      PROVE  LET todo   == OthersLeft(x, k)
                 others == Call("assign others", <<x, k>>)
                 b == Call("begin_assign", <<x, s>>)
                 c == Call("solve", s)
             IN  \/ agenda = <<b, c, others>> \o r /\ M = external[x] \ (todo \cup {s})
                 \/ agenda = <<c, others>> \o r /\ M = external[x] \ todo
                 => StageInv'
  <2>. DEFINE todo   == OthersLeft(x, k)
              others == Call("assign others", <<x, k>>)
              b == Call("begin_assign", <<x, s>>)
              c == Call("solve", s)
              qb == <<b, c, others>> \o r
              qc == <<c, others>> \o r
              qd == <<others>> \o r
  <2>1. qb[1] = b /\ Tail(qb) = qc /\ qc[1] = c /\ Tail(qc) = qd
    <3>1. Fronts(r, b, c, others, others) /\ Fronts(r, c, others, others, others)
      BY <1>1, FrontsKnown
    <3>. QED
      BY <3>1 DEF Fronts
  <2>2. Assigning(x, qc, external[x] \ todo, A) /\ Assigning(x, qd, external[x] \ todo, A)
    BY <1>1, <1>5, Zenon DEF Assigning
  <2>3. s \in external[x]
    BY <1>3
  <2>. HIDE DEF qb, qc, qd, b, c
  <2>4. CASE agenda = qb /\ M = external[x] \ (todo \cup {s})
    <3>1. agenda[1] = Call("begin_assign", <<x, s>>) /\ Tail(agenda) = qc
      BY <2>1, <2>4 DEF b
    <3>2. /\ s \in external[x] \ M /\ M \cup {s} = external[x] \ todo
          /\ M \cup {s} \in SUBSET external[x]
      BY <1>5, <2>3, <2>4
    <3>3. /\ Same(x) /\ agenda' = qc /\ focus' = focus
          /\ Kept(x, M \cup {s}, A)' /\ NoneElse'
      BY <3>1, <3>2, BeginMoves
    <3>4. Under(x, qc, M \cup {s}, A)
      BY <1>2, <2>2, <3>2
    <3>5. StageInv'
      BY <1>1, <3>2, <3>3, <3>4, StageMoves
    <3>. QED
      BY <3>5
  <2>5. CASE agenda = qc /\ M = external[x] \ todo
    <3>1. agenda[1] = Call("solve", s) /\ Tail(agenda) = qd
      BY <2>1, <2>5 DEF c
    <3>2. s \in M /\ A \cup {s} = A
      BY <1>1, <1>5, <2>3, <2>5
    <3>3. Under(x, qd, M, A)
      BY <1>2, <2>2, <2>5
    <3>4. /\ Same(x) /\ focus' = focus
          /\ \/ StageInv'
             \/ agenda' = qd /\ Kept(x, M, A \cup {s})' /\ NoneElse'
      BY <3>1, <3>2, SolveAdopts
    <3>5. A \cup {s} \in SUBSET external[x] /\ Under(x, qd, M, A \cup {s})
      BY <1>1, <2>3, <3>2, <3>3
    <3>6. StageInv'
      BY <1>1, <3>4, <3>5, StageMoves
    <3>. QED
      BY <3>6
  <2>. QED
    BY <2>4, <2>5 DEF qb, qc, b, c
<1>. QED
  BY <1>4, <1>5 DEF Assigning

(* Every proposal is withdrawn, then the pins are set again.               *)
LEMMA RowEnding ==
  ASSUME NEW x, NEW M, NEW A, Going(x, M, A), Ending(x, agenda, M, A)
  PROVE  StageInv'
<1>1. /\ Inv /\ SlotsApart /\ Step /\ x \in Vars /\ <<>> \in Seq(Calls) /\ focus = {x}
      /\ M \in SUBSET external[x] /\ A = external[x] /\ external[x] \in SUBSET Solvers
  BY RestTyped DEF Going, PathInv, Ending, Inv, TypeOK
<1>2. ASSUME NEW q, NEW O, Ending(x, q, O, A)
      PROVE  Under(x, q, O, A)
  BY <1>2 DEF Under
<1>3. ASSUME NEW k \in Nat, agenda = <<Call("__end_assign__", <<x, k>>)>> \o <<>>,
             M = SolversLeft(x, k)
      PROVE  StageInv'
  <2>. DEFINE a == Call("__end_assign__", <<x, k>>)
  <2>1. agenda[1] = a /\ Tail(agenda) = <<>>
    <3>1. Fronts(<<>>, a, a, a, a)
      BY <1>1, FrontsKnown
    <3>. QED
      BY <1>3, <3>1 DEF Fronts
  <2>2. EndAssignVariable /\ ValuesStay
    <3>1. agenda[1].fn = "__end_assign__"
      BY <2>1, CallIs
    <3>. QED
      BY <1>1, <3>1, StepIs, ValuesKept DEF Executes
  <2>3. PICK y \in Vars, i \in Nat :
          /\ agenda[1] = Call("__end_assign__", <<y, i>>)
          /\ UNCHANGED <<varState, enabled, env, solverState, raised, focus>>
          /\ \/ /\ NoneLeft(y, i, external[y])
                /\ agenda' = <<Call("make_not_assignable", y)>> \o Tail(agenda)
             \/ \E j \in Nat :
                  /\ Visits(y, i, external[y], j)
                  /\ agenda' = <<Call("end_assign", <<y, solvers_w[y][j]>>),
                                 Call("__end_assign__", <<y, j + 1>>)>> \o Tail(agenda)
    BY <1>1, <2>2, EndAssignVariableDoes, Zenon
  <2>4. y = x /\ i = k
    <3>1. <<y, i>> = <<x, k>>
      BY <2>1, <2>3, CallsEqual
    <3>. QED
      BY <3>1
  <2>5. UNCHANGED <<external, stored, proposal, leaked, raised, focus>>
    BY <2>3 DEF varState, solverState
  <2>6. CASE /\ NoneLeft(x, k, external[x])
             /\ agenda' = <<Call("make_not_assignable", x)>> \o <<>>
    <3>. DEFINE q == <<Call("make_not_assignable", x)>> \o <<>>
    <3>1. M = {}
      <4>1. Left(x, k, external[x]) = {}
        BY <1>1, <2>6, LoopLeft
      <4>. QED
        BY <1>3, <4>1 DEF SolversLeft
    <3>2. Following(x, q, <<>>) /\ Below(x, <<>>, M)
      BY <3>1 DEF Following, Below
    <3>3. Under(x, q, M, A)
      BY <1>1, <3>2, FollowUnder
    <3>4. agenda' = q
      BY <2>6
    <3>. HIDE DEF q
    <3>. QED
      BY <2>2, <2>5, <3>3, <3>4, QuietMove
  <2>7. ASSUME NEW j \in Nat, Visits(x, k, external[x], j),
               agenda' = <<Call("end_assign", <<x, solvers_w[x][j]>>),
                           Call("__end_assign__", <<x, j + 1>>)>> \o <<>>
        PROVE  StageInv'
    <3>. DEFINE s == solvers_w[x][j]
                q == <<Call("end_assign", <<x, s>>), Call("__end_assign__", <<x, j + 1>>)>> \o <<>>
    <3>1. /\ s \in external[x] \ SolversLeft(x, j + 1) /\ j + 1 \in Nat
          /\ M = SolversLeft(x, j + 1) \cup {s}
      <4>1. /\ s \in external[x] /\ j + 1 \in Nat
            /\ s \notin Left(x, j + 1, external[x])
            /\ Left(x, k, external[x]) = Left(x, j + 1, external[x]) \cup {s}
        BY <1>1, <2>7, LoopLeft
      <4>. QED
        BY <1>3, <4>1 DEF SolversLeft
    <3>2. Ending(x, q, M, A)
      <4>. HIDE DEF s
      <4>. QED
        BY <1>1, <3>1, Zenon DEF Ending
    <3>3. agenda' = q
      BY <2>7
    <3>. HIDE DEF q
    <3>. QED
      BY <1>2, <2>2, <2>5, <3>2, <3>3, QuietMove
  <2>. QED
    BY <2>1, <2>3, <2>4, <2>6, <2>7
<1>4. ASSUME NEW k \in Nat, NEW s \in external[x] \ SolversLeft(x, k),
             agenda = <<Call("end_assign", <<x, s>>), Call("__end_assign__", <<x, k>>)>> \o <<>>,
             M = SolversLeft(x, k) \cup {s}
      PROVE  StageInv'
  <2>. DEFINE ends == Call("__end_assign__", <<x, k>>)
              b == Call("end_assign", <<x, s>>)
              q == <<ends>> \o <<>>
  <2>1. agenda[1] = b /\ Tail(agenda) = q
    <3>1. Fronts(<<>>, b, ends, ends, ends)
      BY <1>1, FrontsKnown
    <3>. QED
      BY <1>4, <3>1 DEF Fronts
  <2>2. s \in M /\ M \ {s} = SolversLeft(x, k) /\ M \ {s} \in SUBSET external[x]
    BY <1>1, <1>4
  <2>3. Ending(x, q, M \ {s}, A)
    BY <1>1, <2>2 DEF Ending
  <2>. HIDE DEF q
  <2>4. /\ Same(x) /\ agenda' = q /\ focus' = focus
        /\ Kept(x, M \ {s}, A)' /\ NoneElse'
    BY <2>1, <2>2, EndMoves
  <2>5. Under(x, q, M \ {s}, A)
    BY <1>2, <2>3
  <2>6. StageInv'
    BY <1>1, <2>2, <2>4, <2>5, StageMoves
  <2>. QED
    BY <2>6
<1>. QED
  BY <1>3, <1>4 DEF Ending

-----------------------------------------------------------------------------
(* The stages from one operation to the next.                              *)
LEMMA NonEmpty ==
  ASSUME NEW r \in Seq(Calls), NEW a, NEW b, NEW c, NEW d
  PROVE  /\ <<a>> \o r # <<>> /\ <<a, b>> \o r # <<>>
         /\ <<a, b, c>> \o r # <<>> /\ <<a, b, c, d>> \o r # <<>>
  OBVIOUS

LEMMA OnlyFinished ==
  ASSUME NEW x \in Vars, NEW M, NEW A, Stage(x, <<>>, M, A)
  PROVE  M = {} /\ A = external[x]
<1>1. <<>> \in Seq(Calls) /\ EndRest(x) \in Seq(Calls) /\ AssignRest(x) \in Seq(Calls)
  BY RestTyped
<1>2. ~Beginning(x, <<>>, M, A)
  <2>1. ASSUME NEW v \in Values
        PROVE  (<<Call("__begin_assign__", <<x, v>>)>> \o IfConstrained(x, Call("__assign__", x)))
                 \o IfConstrained(x, Call("__end_assign__", <<x, 1>>)) # <<>>
    <3>. DEFINE b == Call("__begin_assign__", <<x, v>>)
                p == IfConstrained(x, Call("__assign__", x))
                t == IfConstrained(x, Call("__end_assign__", <<x, 1>>))
    <3>1. b \in Calls /\ p \in Seq(Calls) /\ t \in Seq(Calls)
      BY CallTypes, ShortSeqs DEF IfConstrained
    <3>. HIDE DEF b, p, t
    <3>2. (<<b>> \o p) \o t # <<>>
      BY <3>1
    <3>. QED
      BY <3>2 DEF b, p, t
  <2>. QED
    BY <2>1 DEF Beginning
<1>3. ~Proposing(x, <<>>, M, A)
  BY <1>1, NonEmpty DEF Proposing
<1>4. ASSUME NEW r \in {<<>>, AssignRest(x)}
      PROVE  /\ r \in Seq(Calls) /\ \A a : <<a>> \o r # <<>>
             /\ ~Following(x, <<>>, r) /\ \A N : ~Offering(x, <<>>, r, M, A, N)
  <2>1. r \in Seq(Calls)
    BY <1>1
  <2>2. ~Following(x, <<>>, r)
    BY <2>1, NonEmpty, Zenon DEF Following
  <2>3. \A N : ~Offering(x, <<>>, r, M, A, N)
    BY <2>1, NonEmpty, Zenon DEF Offering
  <2>. QED
    BY <2>1, <2>2, <2>3, NonEmpty
<1>5. ~Getting(x, <<>>, M, A)
  BY <1>4, Zenon DEF Getting
<1>6. ~Assigning(x, <<>>, M, A)
  BY <1>1, NonEmpty, Zenon DEF Assigning
<1>7. ~Ending(x, <<>>, M, A)
  BY <1>1, NonEmpty, Zenon DEF Ending
<1>. QED
  BY <1>2, <1>3, <1>5, <1>6, <1>7 DEF Stage, Under, Finished

LEMMA StepRuns == Step => agenda # <<>>
  BY DEF Step, BeginAssignVariable, AssignVariable, AssignOthers, GetI, UpdateDownstreamVariables,
         EndAssignVariable, MakeNotAssignable, RecalculatePath, BeginAssign, Solve, EndAssign,
         Recalculate, RecalculateRaises, EnableConstraint, SetEnabled, Running

LEMMA StepStage ==
  ASSUME NEW x, NEW M, NEW A, Going(x, M, A), Stage(x, agenda, M, A)
  PROVE  StageInv'
<1>1. CASE Beginning(x, agenda, M, A)
  BY <1>1, RowBegin
<1>2. CASE Proposing(x, agenda, M, A)
  BY <1>2, RowPropose
<1>3. CASE Getting(x, agenda, M, A)
  <2>1. PICK r \in {<<>>, AssignRest(x)}, N \in SUBSET external[x] :
          /\ Below(x, r, N)
          /\ \/ agenda = <<Call("get_i", x)>> \o r /\ IsSolveable(x) /\ M = N /\ A = N
             \/ IsSolveable(x) /\ Offering(x, agenda, r, M, A, N)
             \/ Following(x, agenda, r) /\ M = N /\ A = external[x]
    BY <1>3 DEF Getting
  <2>2. CASE agenda = <<Call("get_i", x)>> \o r /\ IsSolveable(x) /\ M = N /\ A = N
    BY <2>1, <2>2, RowGet
  <2>3. CASE IsSolveable(x) /\ Offering(x, agenda, r, M, A, N)
    BY <2>1, <2>3, RowOffering
  <2>4. CASE Following(x, agenda, r) /\ M = N /\ A = external[x]
    BY <2>1, <2>4, RowFollowing
  <2>. QED
    BY <2>1, <2>2, <2>3, <2>4
<1>4. CASE Assigning(x, agenda, M, A)
  BY <1>4, RowAssigning
<1>5. CASE Ending(x, agenda, M, A)
  BY <1>5, RowEnding
<1>6. CASE Finished(x, agenda, M, A)
  BY <1>6, StepRuns DEF Finished, Going
<1>. QED
  BY <1>1, <1>2, <1>3, <1>4, <1>5, <1>6 DEF Stage, Under

(* A constraint being enabled touches no proposal.                         *)
LEMMA EnablingStep ==
  ASSUME Inv, StageInv, Step, focus = {}
  PROVE  StageInv'
<1>1. agenda # <<>> /\ Enabling /\ agenda \in Seq(Calls)
  BY StepRuns DEF StageInv, Inv, TypeOK
<1>. DEFINE Fns == {"enable", "solve", "set_enabled"}
<1>2. agenda[1] \in Pending /\ Behind \subseteq Pending
  BY <1>1, BehindPending DEF Pending, CallsIn
<1>3. agenda[1].fn \in Fns /\ \A call \in Behind : call.fn \in Fns
  BY <1>1, <1>2 DEF Enabling
<1>4. ASSUME UNCHANGED <<proposal, leaked, focus>>, raised' \/ UNCHANGED raised,
             NEW new \in Seq(Calls), \A call \in CallsIn(new) : call.fn \in Fns,
             agenda' = new \o Tail(agenda) \/ agenda' = Tail(agenda) \/ agenda' = <<>>
      PROVE  StageInv'
  <2>1. \A call \in Pending' : call.fn \in Fns
    <3>1. CASE agenda' = new \o Tail(agenda)
      BY <1>1, <1>3, <1>4, <3>1, PendingThen
    <3>2. CASE agenda' = Tail(agenda)
      BY <1>1, <1>3, <3>2, PendingRest
    <3>3. CASE agenda' = <<>>
      BY <3>3, NonePending
    <3>. QED
      BY <1>4, <3>1, <3>2, <3>3
  <2>2. NoneElse'
    BY <1>4 DEF StageInv, NoneElse, Holding
  <2>. QED
    BY <1>4, <2>1, <2>2 DEF StageInv, Enabling
<1>5. CASE agenda[1].fn = "enable"
  <2>1. EnableConstraint
    BY <1>5, StepIs DEF Executes
  <2>2. PICK c \in Cons :
          /\ \/ agenda' = Tail(agenda) /\ UNCHANGED <<raised, focus>>
             \/ agenda' = <<Call("set_enabled", c)>> \o Tail(agenda) /\ UNCHANGED <<raised, focus>>
             \/ agenda' = <<>> /\ raised' = TRUE /\ UNCHANGED focus
             \/ /\ agenda' = <<Call("solve", SolverOf[c]), Call("set_enabled", c)>> \o Tail(agenda)
                /\ UNCHANGED <<raised, focus>>
          /\ UNCHANGED <<varState, proposal, leaked>>
    BY <2>1, EnableConstraintDoes, Zenon
  <2>. DEFINE set == Call("set_enabled", c)
              run == Call("solve", SolverOf[c])
  <2>3. /\ <<set>> \in Seq(Calls) /\ <<run, set>> \in Seq(Calls)
        /\ \A call \in CallsIn(<<set>>) : call.fn \in Fns
        /\ \A call \in CallsIn(<<run, set>>) : call.fn \in Fns
    <3>1. set \in Calls /\ run \in Calls
      BY CallTypes, ConstantsAssumption
    <3>2. CallsIn(<<set>>) = {set} /\ CallsIn(<<run, set>>) = {run, set}
      BY ShortCalls
    <3>3. set.fn \in Fns /\ run.fn \in Fns
      BY CallIs
    <3>. QED
      BY <3>1, <3>2, <3>3, ShortSeqs
  <2>4. UNCHANGED <<proposal, leaked, focus>> /\ (raised' \/ UNCHANGED raised)
    BY <2>2
  <2>. HIDE DEF set, run
  <2>5. CASE agenda' = <<set>> \o Tail(agenda)
    BY <1>4, <2>3, <2>4, <2>5
  <2>6. CASE agenda' = <<run, set>> \o Tail(agenda)
    BY <1>4, <2>3, <2>4, <2>6
  <2>7. CASE agenda' = Tail(agenda) \/ agenda' = <<>>
    BY <1>4, <2>3, <2>4, <2>7
  <2>. QED
    BY <2>2, <2>5, <2>6, <2>7 DEF set, run
<1>6. CASE agenda[1].fn = "solve"
  <2>1. Solve
    BY <1>6, StepIs DEF Executes
  <2>2. /\ UNCHANGED <<proposal, leaked, focus>> /\ (raised' \/ UNCHANGED raised)
        /\ agenda' = Tail(agenda) \/ agenda' = <<>>
    BY <2>1, SolveDoes
  <2>3. <<>> \in Seq(Calls) /\ CallsIn(<<>>) = {}
    BY DEF CallsIn
  <2>. QED
    BY <1>4, <2>2, <2>3
<1>7. CASE agenda[1].fn = "set_enabled"
  <2>1. SetEnabled
    BY <1>7, StepIs DEF Executes
  <2>2. /\ UNCHANGED <<proposal, leaked, focus, raised>>
        /\ agenda' = Tail(agenda)
    BY <2>1, SetEnabledDoes DEF solverState
  <2>3. <<>> \in Seq(Calls) /\ CallsIn(<<>>) = {}
    BY DEF CallsIn
  <2>. QED
    BY <1>4, <2>2, <2>3
<1>. QED
  BY <1>3, <1>5, <1>6, <1>7

(* When no call is pending nothing is proposed, and the variable last read *)
(* or assigned has one value.                                              *)
LEMMA IdleStage ==
  ASSUME Inv, StageInv, agenda = <<>>, ~raised
  PROVE  /\ leaked = {} /\ \A x \in Vars : Holding(x) = {}
         /\ \A x \in focus : external[x] \subseteq Agreeing(x)
<1>1. ASSUME NEW x \in focus
      PROVE  focus = {x} /\ Holding(x) = {} /\ external[x] \subseteq Agreeing(x)
  <2>1. x \in Vars
    BY DEF Inv, TypeOK
  <2>2. PICK M \in SUBSET external[x] : \E A \in SUBSET external[x] : AtStage(x, M, A)
    BY DEF StageInv
  <2>3. PICK A \in SUBSET external[x] : AtStage(x, M, A)
    BY <2>2
  <2>4. M = {} /\ A = external[x]
    BY <2>1, <2>3, OnlyFinished DEF AtStage
  <2>5. focus = {x}
    BY DEF StageInv
  <2>. QED
    BY <2>3, <2>4, <2>5 DEF AtStage, Kept
<1>. QED
  BY <1>1 DEF StageInv, NoneElse

LEMMA UserStage ==
  ASSUME Inv, StageInv, UserStep, "multi" \notin UserOps
  PROVE  StageInv'
<1>1. ASSUME Ready, UNCHANGED <<proposal, leaked, raised>>
      PROVE  /\ ~raised' => leaked' = {} /\ \A x \in Vars : Holding(x)' = {}
             /\ NoneElse'
             /\ \A x \in Vars : Kept(x, {}, {})'
  <2>1. ~raised' => leaked' = {} /\ \A x \in Vars : Holding(x)' = {}
    BY <1>1, IdleStage DEF Ready, Idle, Holding
  <2>. QED
    BY <2>1 DEF NoneElse, Kept
<1>2. ASSUME Ready, UNCHANGED <<proposal, leaked, raised>>, focus' = {},
             \A call \in Pending' : call.fn \in {"enable", "solve", "set_enabled"}
      PROVE  StageInv'
  BY <1>1, <1>2 DEF StageInv, Enabling
<1>3. ASSUME Ready, UNCHANGED <<proposal, leaked, raised>>,
             NEW x \in Vars, focus' = {x}, Stage(x, agenda, {}, {})'
      PROVE  StageInv'
  <2>1. AtStage(x, {}, {})' /\ NoneElse'
    BY <1>1, <1>3 DEF AtStage
  <2>2. {} \in SUBSET external'[x]
    OBVIOUS
  <2>3. \E M \in SUBSET external'[x] : \E A \in SUBSET external'[x] : AtStage(x, M, A)'
    BY <2>1, <2>2
  <2>. QED
    BY <1>3, <2>1, <2>3 DEF StageInv
<1>4. ASSUME NEW c \in Cons, Always(c) \/ Enable(c) \/ Disable(c) \/ SetStrength(c)
      PROVE  StageInv'
  <2>1. /\ Ready /\ UNCHANGED <<proposal, leaked, raised>> /\ focus' = {}
        /\ agenda' = <<Call("enable", c)>> \/ agenda' = <<>>
    BY <1>4 DEF Always, Enable, Disable, SetStrength, solverState, Ready, Idle
  <2>2. \A call \in Pending' : call.fn \in {"enable", "solve", "set_enabled"}
    <3>1. CASE agenda' = <<Call("enable", c)>>
      BY <3>1, StartsOne, CallIs
    <3>2. CASE agenda' = <<>>
      BY <3>2, NonePending
    <3>. QED
      BY <2>1, <3>1, <3>2
  <2>. QED
    BY <1>2, <2>1, <2>2
<1>7. ASSUME NEW c \in Cons, AlwaysRaises(c)
      PROVE  StageInv'
  BY <1>7, NonePending DEF AlwaysRaises, StageInv, Enabling, NoneElse
<1>5. ASSUME NEW x \in Vars, Read(x)
      PROVE  StageInv'
  <2>1. /\ Ready /\ UNCHANGED <<proposal, leaked, raised>> /\ focus' = {x}
        /\ agenda' = <<Call("get_i", x)>> /\ IsSolveable(x)'
    BY <1>5 DEF Read, varState, solverState, IsSolveable
  <2>2. <<Call("get_i", x)>> = <<Call("get_i", x)>> \o <<>>
    <3>1. <<Call("get_i", x)>> \in Seq(Calls)
      BY CallTypes, ShortSeqs
    <3>. QED
      BY <3>1, ConcatEmptySeq
  <2>3. Getting(x, agenda, {}, {})'
    BY <2>1, <2>2 DEF Getting, Below
  <2>4. Stage(x, agenda, {}, {})'
    BY <2>3 DEF Stage, Under
  <2>. QED
    BY <1>3, <2>1, <2>4
<1>6. ASSUME NEW x \in Vars, NEW v \in Values, Assign(x, v)
      PROVE  StageInv'
  <2>1. /\ Ready /\ UNCHANGED <<proposal, leaked, raised, solvers_w>> /\ focus' = {x}
        /\ agenda' = (<<Call("__begin_assign__", <<x, v>>)>>
             \o IfConstrained(x, Call("__assign__", x))) \o IfConstrained(x, Call("__end_assign__", <<x, 1>>))
    BY <1>6 DEF Assign, varState, solverState
  <2>2. \A call : IfConstrained(x, call)' = IfConstrained(x, call)
    BY <2>1 DEF IfConstrained, IsConstrained
  <2>3. Beginning(x, agenda, {}, {})'
    <3>1. agenda' = (<<Call("__begin_assign__", <<x, v>>)>>
            \o IfConstrained(x, Call("__assign__", x))') \o IfConstrained(x, Call("__end_assign__", <<x, 1>>))'
      BY <2>1, <2>2
    <3>. QED
      BY <3>1, Zenon DEF Beginning
  <2>4. Stage(x, agenda, {}, {})'
    BY <2>3 DEF Stage
  <2>. QED
    BY <1>3, <2>1, <2>4
<1>. QED
  BY <1>4, <1>5, <1>6, <1>7 DEF UserStep, MultiAssign

LEMMA InitStage == Init => StageInv
<1>1. Init => Pending = {}
  BY DEF Init, Pending, CallsIn
<1>. QED
  BY <1>1 DEF Init, StageInv, Enabling, NoneElse, Holding

LEMMA NextStage ==
  ASSUME "multi" \notin UserOps
  PROVE  Inv /\ ExternalSupported /\ PathInv /\ StageInv /\ [Next]_vars => StageInv'
<1>. SUFFICES ASSUME Inv, ExternalSupported, PathInv, StageInv, [Next]_vars PROVE StageInv'
  OBVIOUS
<1>1. Inv' /\ PathInv'
  BY NextInv, NextPath
<1>2. CASE UNCHANGED vars
  <2>1. /\ UNCHANGED <<agenda, raised, focus, stored, solvers_w, external, proposal, leaked, model, w_value>>
    BY <1>2 DEF vars, varState, solverState
  <2>2. Enabling' = Enabling /\ NoneElse' = NoneElse
    BY <2>1 DEF Enabling, Pending, CallsIn, NoneElse, Holding
  <2>3. ASSUME NEW x \in focus, NEW M, NEW A, AtStage(x, M, A)
        PROVE  AtStage(x, M, A)'
    <3>1. Same(x)
      <4>1. x \in Vars /\ SlotsGrow
        BY <1>2 DEF Inv, TypeOK, SlotsGrow, vars, varState
      <4>. QED
        BY <1>1, <2>1, <4>1, StaysSame
    <3>2. Under(x, agenda, M, A) => Under(x, agenda, M, A)'
      <4>. PICK q : q = agenda
        OBVIOUS
      <4>1. Under(x, q, M, A) => Under(x, q, M, A)'
        BY <3>1, UnderSame
      <4>2. agenda' = q
        BY <2>1
      <4>. QED
        BY <4>1, <4>2
    <3>3. Beginning(x, agenda, M, A) => Beginning(x, agenda, M, A)'
      BY <2>1 DEF Beginning, IfConstrained, IsConstrained
    <3>4. Kept(x, M, A) => Kept(x, M, A)'
      BY <2>1 DEF Kept, Holding, Agreeing, ValueOf
    <3>. QED
      BY <2>3, <3>2, <3>3, <3>4 DEF AtStage, Stage
  <2>. QED
    BY <2>1, <2>2, <2>3 DEF StageInv
<1>3. CASE Step /\ focus = {}
  BY <1>3, EnablingStep
<1>4. ASSUME Step, NEW x \in focus
      PROVE  StageInv'
  <2>1. x \in Vars /\ focus = {x} /\ NoneElse /\ SlotsGrow
    BY <1>4, NextGrows DEF StageInv, Inv, TypeOK, Next
  <2>2. PICK M \in SUBSET external[x] : \E A \in SUBSET external[x] : AtStage(x, M, A)
    BY <1>4 DEF StageInv
  <2>3. PICK A \in SUBSET external[x] : AtStage(x, M, A)
    BY <2>2
  <2>4. Going(x, M, A) /\ Stage(x, agenda, M, A)
    BY <1>1, <1>4, <2>1, <2>3 DEF Going, AtStage
  <2>. QED
    BY <2>4, StepStage
<1>5. CASE UserStep
  BY <1>5, UserStage
<1>. QED
  BY <1>2, <1>3, <1>4, <1>5 DEF Next

-----------------------------------------------------------------------------
(* What the stages promise.                                                *)
LEMMA Heads ==
  ASSUME NEW r \in Seq(Calls), NEW a, NEW b, NEW c, NEW d
  PROVE  /\ (<<a>> \o r)[1] = a /\ (<<a, b>> \o r)[1] = a
         /\ (<<a, b, c>> \o r)[1] = a /\ (<<a, b, c, d>> \o r)[1] = a
<1>1. Fronts(r, a, b, c, d)
  BY FrontsKnown
<1>. QED
  BY <1>1 DEF Fronts

LEMMA EndIsNext ==
  ASSUME NEW x \in Vars, NEW q, NEW M, NEW A, Stage(x, q, M, A), q # <<>>, q[1].fn = "end_assign"
  PROVE  \E s \in M : q[1] = Call("end_assign", <<x, s>>)
<1>1. <<>> \in Seq(Calls) /\ EndRest(x) \in Seq(Calls) /\ AssignRest(x) \in Seq(Calls)
  BY RestTyped
<1>2. ASSUME Beginning(x, q, M, A)
      PROVE  FALSE
  <2>1. PICK v \in Values :
          q = (<<Call("__begin_assign__", <<x, v>>)>> \o IfConstrained(x, Call("__assign__", x)))
                \o IfConstrained(x, Call("__end_assign__", <<x, 1>>))
    BY <1>2 DEF Beginning
  <2>. DEFINE b == Call("__begin_assign__", <<x, v>>)
              p == IfConstrained(x, Call("__assign__", x))
              t == IfConstrained(x, Call("__end_assign__", <<x, 1>>))
  <2>2. b \in Calls /\ p \in Seq(Calls) /\ t \in Seq(Calls) /\ b.fn = "__begin_assign__"
    BY CallTypes, CallIs, ShortSeqs DEF IfConstrained
  <2>3. q = (<<b>> \o p) \o t
    BY <2>1
  <2>. HIDE DEF b, p, t
  <2>4. q[1] = b
    BY <2>2, <2>3
  <2>. QED
    BY <2>2, <2>4
<1>3. ~Proposing(x, q, M, A)
  <2>1. ASSUME q = <<Call("__assign__", x)>> \o EndRest(x)
        PROVE  q[1].fn = "__assign__"
    BY <1>1, <2>1, Heads, CallIs
  <2>2. ASSUME q = <<Call("solve", DefiningSolver(x)), Call("get_i", x)>> \o AssignRest(x)
        PROVE  q[1].fn = "solve"
    BY <1>1, <2>2, Heads, CallIs
  <2>. QED
    BY <2>1, <2>2 DEF Proposing
<1>4. ASSUME NEW r \in {<<>>, AssignRest(x)}
      PROVE  /\ r \in Seq(Calls) /\ q # <<Call("get_i", x)>> \o r
             /\ ~Following(x, q, r)
  <2>1. r \in Seq(Calls)
    BY <1>1
  <2>2. ASSUME NEW f, NEW a, NEW b, NEW c, f # "end_assign"
        PROVE  q # <<Call(f, a)>> \o r /\ q # <<Call(f, a), b>> \o r /\ q # <<Call(f, a), b, c>> \o r
    BY <2>1, <2>2, Heads, CallIs
  <2>3. ~Following(x, q, r)
    BY <2>2 DEF Following
  <2>. QED
    BY <2>1, <2>2, <2>3
<1>5. ASSUME NEW r \in Seq(Calls), NEW N, Offering(x, q, r, M, A, N)
      PROVE  \E s \in M : q[1] = Call("end_assign", <<x, s>>)
  <2>1. ASSUME NEW f, NEW a, NEW b, NEW c, NEW d, f # "end_assign"
        PROVE  q # <<Call(f, a)>> \o r /\ q # <<Call(f, a), b, c>> \o r /\ q # <<Call(f, a), b, c, d>> \o r
    BY <1>5, <2>1, Heads, CallIs
  <2>2. PICK k \in Nat, s \in Others(x) :
          q = <<Call("end_assign", <<x, s>>), Call("update_downstream_variables", <<x, k>>)>> \o r
            /\ M = N \cup {s}
    BY <1>5, <2>1 DEF Offering
  <2>3. q[1] = Call("end_assign", <<x, s>>)
    BY <1>5, <2>2, Heads
  <2>. QED
    BY <2>2, <2>3
<1>6. CASE Getting(x, q, M, A)
  BY <1>4, <1>5, <1>6 DEF Getting
<1>7. ~Assigning(x, q, M, A)
  <2>1. ASSUME NEW f, NEW a, NEW b, NEW c, f # "end_assign"
        PROVE  q # <<Call(f, a)>> \o EndRest(x) /\ q # <<Call(f, a), b>> \o EndRest(x)
               /\ q # <<Call(f, a), b, c>> \o EndRest(x)
    BY <1>1, <2>1, Heads, CallIs
  <2>. QED
    BY <2>1 DEF Assigning
<1>8. CASE Ending(x, q, M, A)
  <2>1. ASSUME NEW k
        PROVE  q # <<Call("__end_assign__", <<x, k>>)>> \o <<>>
    BY <1>1, Heads, CallIs
  <2>2. PICK k \in Nat, s \in external[x] :
          q = <<Call("end_assign", <<x, s>>), Call("__end_assign__", <<x, k>>)>> \o <<>>
            /\ M = SolversLeft(x, k) \cup {s}
    BY <1>8, <2>1 DEF Ending
  <2>3. q[1] = Call("end_assign", <<x, s>>)
    BY <1>1, <2>2, Heads
  <2>. QED
    BY <2>2, <2>3
<1>9. ~Finished(x, q, M, A)
  BY DEF Finished
<1>. QED
  BY <1>2, <1>3, <1>6, <1>7, <1>8, <1>9 DEF Stage, Under

(* The stages of an assignment are an invariant of programs that assign    *)
(* one variable at a time (constraintinterpreter.py:377-418): with a       *)
(* multiple assignment the end of one variable may hand the next to a      *)
(* solver that was offered nothing.                                        *)
THEOREM StageInvHolds ==
  ASSUME "multi" \notin UserOps
  PROVE  Spec => [](ExternalSupported /\ PathInv /\ StageInv)
<1>1. Init => AttachInv /\ PathInv /\ StageInv
  BY InitSnap, InitPath, InitStage
<1>2. Inv /\ (AttachInv /\ PathInv /\ StageInv) /\ [Next]_vars => (AttachInv /\ PathInv /\ StageInv)'
  BY NextAttached, NextPath, NextStage DEF AttachInv
<1>3. AttachInv => ExternalSupported
  BY DEF AttachInv
<1>4. Spec => [](AttachInv /\ PathInv /\ StageInv)
  BY <1>1, <1>2, InvHolds, PTL DEF Spec
<1>. QED
  BY <1>3, <1>4, PTL

(* An assignment that did not raise leaves no proposed equality behind:    *)
(* each begin_assign of the chain, the ones for downstream solvers         *)
(* included, is matched by one end_assign (constraintinterpreter.py:377-   *)
(* 414, 458-478).                                                          *)
THEOREM NothingLeftOver == ASSUME "multi" \notin UserOps PROVE Spec => []NoLeftovers
<1>1. Inv /\ StageInv => NoLeftovers
  <2>. SUFFICES ASSUME Inv, StageInv, Quiet
                PROVE  leaked = {} /\ \A x \in Vars, s \in Solvers : proposal[x][s] = NoValue
    BY DEF NoLeftovers
  <2>1. leaked = {} /\ \A x \in Vars : Holding(x) = {}
    BY IdleStage DEF Quiet, Idle
  <2>. QED
    BY <2>1 DEF Holding
<1>. QED
  BY <1>1, InvHolds, StageInvHolds, PTL

(* No end_assign runs without a proposal to withdraw, whatever raised      *)
(* before (libz3.rb:13-16).                                                *)
THEOREM EndsFollowBegins == ASSUME "multi" \notin UserOps PROVE Spec => []EndFollowsBegin
<1>1. Inv /\ StageInv => EndFollowsBegin
  <2>. SUFFICES ASSUME Inv, StageInv, agenda # <<>>, agenda[1].fn = "end_assign"
                PROVE  proposal[Arg[1]][Arg[2]] # NoValue
    BY DEF EndFollowsBegin, Running
  <2>1. focus # {}
    <3>1. agenda[1] \in Pending
      BY DEF Inv, TypeOK, Pending, CallsIn
    <3>. QED
      BY <3>1 DEF StageInv, Enabling
  <2>2. PICK x \in focus : TRUE
    BY <2>1
  <2>3. x \in Vars
    BY DEF Inv, TypeOK
  <2>4. PICK M \in SUBSET external[x] : \E A \in SUBSET external[x] : AtStage(x, M, A)
    BY DEF StageInv
  <2>5. PICK A \in SUBSET external[x] : AtStage(x, M, A)
    BY <2>4
  <2>6. PICK s \in M : agenda[1] = Call("end_assign", <<x, s>>)
    BY <2>3, <2>5, EndIsNext DEF AtStage
  <2>7. s \in Holding(x)
    BY <2>5 DEF AtStage, Kept
  <2>8. Arg = <<x, s>>
    BY <2>6, CallIs DEF Arg
  <2>. QED
    BY <2>7, <2>8 DEF Holding
<1>. QED
  BY <1>1, InvHolds, StageInvHolds, PTL

(* After reading or assigning a variable, the slot in the object and every *)
(* solver that knows the variable agree on its value                       *)
(* (constraintinterpreter.py:389-400, 458-478).                            *)
THEOREM SolversAgree == ASSUME "multi" \notin UserOps PROVE Spec => []Agreement
<1>1. Inv /\ StageInv => Agreement
  <2>. SUFFICES ASSUME Inv, StageInv, Quiet, NEW x \in Vars, NEW s \in Solvers, focus = {x}, s \in external[x]
                PROVE  ValueOf(x, s) = stored[x]
    BY DEF Agreement
  <2>1. external[x] \subseteq Agreeing(x)
    BY IdleStage DEF Quiet, Idle
  <2>. QED
    BY <2>1 DEF Agreeing
<1>. QED
  BY <1>1, InvHolds, StageInvHolds, PTL
=============================================================================
