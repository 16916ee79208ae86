----------------------------- MODULE ModelProofs -----------------------------
(* What the solvers of ConstrainedVariables answer: whatever a solver has   *)
(* been told it satisfies, or it is run before the program goes on.  And    *)
(* the constants of a block: when the program runs, every enabled block     *)
(* was last run with the values they have now.                              *)
EXTENDS ConstrainedVariablesProofs

-----------------------------------------------------------------------------
(* Which pending calls run solver s: a run of it, the assignment of a       *)
(* variable it knows, or the rest of the loop over the other solvers, if    *)
(* it has not come by yet.                                                 *)
Covers(call, s) ==
  \/ call = Call("solve", s)
  \/ \E x \in Vars : call = Call("__assign__", x) /\ s \in external[x]
  \/ \E x \in Vars, k \in Nat :
       /\ call = Call("assign others", <<x, k>>) /\ s \in Others(x)
       /\ \E j \in DOMAIN solvers_w[x] : k <= j /\ solvers_w[x][j] = s
Covered(s) == \E call \in Pending : Covers(call, s)
Answers(s) == [x \in Vars |-> ValueOf(x, s)]
Satisfied(s) == IsModel(s, Answers(s))
ModelInv == ~raised => \A s \in Solvers : Satisfied(s) \/ Covered(s)

(* The values a solver answers stay; it is told nothing they contradict.    *)
ValuesStay ==
  \A x \in Vars : \A s \in external[x] :
    s \in external'[x] /\ ValueOf(x, s)' = ValueOf(x, s)
Agrees(s) ==
  /\ Asserted(s)' \subseteq Asserted(s)
  /\ \A xv \in Equalities(s)' : xv \in Equalities(s) \/ ValueOf(xv[1], s)' = xv[2]

LEMMA EqualitiesKnown ==
  ASSUME Inv, NEW s \in Solvers, NEW xv \in Equalities(s)
  PROVE  xv[1] \in Vars /\ xv[2] \in Values /\ s \in external[xv[1]]
<1>1. xv[1] \in Vars /\ xv[2] \in Values /\ xv[2] # NoValue
  BY ConstantsAssumption DEF Equalities
<1>2. xv[2] = pin[xv[1]][s] \/ xv[2] = proposal[xv[1]][s] \/ <<xv[1], s, xv[2]>> \in leaked
  BY DEF Equalities
<1>. QED
  BY <1>1, <1>2 DEF Inv, PinsAgree, SolversKnow

LEMMA AssertedKnown ==
  ASSUME Inv, NEW s \in Solvers, NEW ce \in Asserted(s)
  PROVE  /\ ce[1] \in Cons /\ SolverOf[ce[1]] = s /\ ce[2] \in Envs(ce[1])
         /\ \A x \in Symbols(ce[1], ce[2]) : x \in Vars /\ s \in external[x]
<1>1. /\ ce[1] \in Cons /\ SolverOf[ce[1]] = s
      /\ ce[2] \in Envs(ce[1]) /\ asserted[ce[1]][ce[2]] > 0
  BY DEF Asserted
<1>. QED
  BY <1>1, SymbolsTyped DEF Inv, BlocksKnown, SymbolsKnown

(* A block asks nothing of variables that are not symbols in it.            *)
LEMMA SatisfiesSame ==
  ASSUME NEW c, NEW e, NEW m, NEW n, \A x \in Symbols(c, e) \cap Vars : m[x] = n[x],
         Satisfies(c, e, m)
  PROVE  Satisfies(c, e, n)
<1>1. [x \in Vars |-> IF x \in Symbols(c, e) THEN m[x] ELSE Fill(e)[x]]
        = [x \in Vars |-> IF x \in Symbols(c, e) THEN n[x] ELSE Fill(e)[x]]
  OBVIOUS
<1>. QED
  BY <1>1, Zenon DEF Satisfies

LEMMA SatisfiedStays ==
  ASSUME Inv, NEW s \in Solvers, Satisfied(s), ValuesStay, Agrees(s)
  PROVE  Satisfied(s)'
<1>1. ASSUME NEW xv \in Equalities(s)'
      PROVE  Answers(s)'[xv[1]] = xv[2]
  <2>1. xv[1] \in Vars
    BY DEF Equalities
  <2>2. Answers(s)'[xv[1]] = ValueOf(xv[1], s)'
    BY <2>1 DEF Answers
  <2>3. CASE xv \in Equalities(s)
    <3>1. Answers(s)[xv[1]] = xv[2] /\ Answers(s)[xv[1]] = ValueOf(xv[1], s)
      BY <2>1, <2>3 DEF Satisfied, IsModel, Answers
    <3>. QED
      BY <2>1, <2>2, <2>3, <3>1, EqualitiesKnown DEF ValuesStay
  <2>. QED
    BY <2>2, <2>3 DEF Agrees
<1>2. ASSUME NEW ce \in Asserted(s)'
      PROVE  Satisfies(ce[1], ce[2], Answers(s)')
  <2>1. ce \in Asserted(s)
    BY DEF Agrees
  <2>2. Satisfies(ce[1], ce[2], Answers(s))
    BY <2>1 DEF Satisfied, IsModel
  <2>3. ASSUME NEW x \in Symbols(ce[1], ce[2]) \cap Vars
        PROVE  Answers(s)[x] = Answers(s)'[x]
    <3>1. s \in external[x]
      BY <2>1, AssertedKnown
    <3>. QED
      BY <3>1 DEF Answers, ValuesStay
  <2>. QED
    BY <2>2, <2>3, SatisfiesSame
<1>. QED
  BY <1>1, <1>2 DEF Satisfied, IsModel

(* What a solver is told may become less, or be what it answers already.    *)
LEMMA AssertedIs ==
  ASSUME NEW s, NEW ce
  PROVE  ce \in Asserted(s) <=>
           \E c \in Cons : \E e \in Envs(c) :
             SolverOf[c] = s /\ asserted[c][e] > 0 /\ ce = <<c, e>>
  BY DEF Asserted

LEMMA ToldLess ==
  ASSUME NEW s \in Solvers,
         \A c \in Cons : \A e \in Envs(c) :
           SolverOf[c] = s /\ asserted'[c][e] > 0 => asserted[c][e] > 0,
         \A x \in Vars : /\ pin'[x][s] \in {NoValue, pin[x][s], ValueOf(x, s)'}
                         /\ proposal'[x][s] \in {NoValue, proposal[x][s]},
         \A x \in Vars, v \in Values : <<x, s, v>> \in leaked' => <<x, s, v>> \in leaked
  PROVE  Agrees(s)
<1>1. Asserted(s)' \subseteq Asserted(s)
  <2>. SUFFICES ASSUME NEW ce \in Asserted(s)' PROVE ce \in Asserted(s)
    OBVIOUS
  <2>1. PICK c \in Cons : \E e \in Envs(c) :
          SolverOf[c] = s /\ asserted'[c][e] > 0 /\ ce = <<c, e>>
    BY DEF Asserted
  <2>. QED
    BY <2>1, AssertedIs
<1>2. ASSUME NEW xv \in Equalities(s)', xv \notin Equalities(s)
      PROVE  ValueOf(xv[1], s)' = xv[2]
  <2>1. xv[1] \in Vars /\ xv[2] \in Values /\ xv[2] # NoValue /\ xv = <<xv[1], xv[2]>>
    BY ConstantsAssumption DEF Equalities
  <2>2. xv[2] = pin'[xv[1]][s] \/ xv[2] = proposal'[xv[1]][s] \/ <<xv[1], s, xv[2]>> \in leaked'
    BY DEF Equalities
  <2>3. xv[2] # pin[xv[1]][s] /\ xv[2] # proposal[xv[1]][s] /\ <<xv[1], s, xv[2]>> \notin leaked
    BY <1>2, <2>1 DEF Equalities
  <2>. QED
    BY <2>1, <2>2, <2>3
<1>. QED
  BY <1>1, <1>2 DEF Agrees

LEMMA ToldNothing ==
  ASSUME UNCHANGED <<asserted, pin, proposal, leaked>>
  PROVE  \A s \in Solvers : Agrees(s)
  BY DEF Agrees, Asserted, Equalities

LEMMA AnswersStay ==
  ASSUME UNCHANGED <<external, model, w_value>>
  PROVE  ValuesStay
  BY DEF ValuesStay, ValueOf

(* A call still runs the solvers it ran: nobody leaves a variable, and     *)
(* whoever does not define it does not come to define it.                  *)
CoversStay == \A call \in Calls, s \in Solvers : Covers(call, s) => Covers(call, s)'

LEMMA CoversKept ==
  ASSUME \A x \in Vars :
           /\ external[x] \subseteq external'[x] /\ Others(x) \subseteq Others(x)'
           /\ \A i \in DOMAIN solvers_w[x] :
                i \in DOMAIN solvers_w'[x] /\ solvers_w'[x][i] = solvers_w[x][i]
  PROVE  CoversStay
<1>. SUFFICES ASSUME NEW call \in Calls, NEW s \in Solvers, Covers(call, s)
              PROVE  Covers(call, s)'
  BY DEF CoversStay
<1>1. CASE call = Call("solve", s)
  BY <1>1 DEF Covers
<1>2. ASSUME NEW x \in Vars, call = Call("__assign__", x), s \in external[x]
      PROVE  Covers(call, s)'
  <2>1. s \in external'[x]
    BY <1>2
  <2>. QED
    BY <1>2, <2>1, Zenon DEF Covers
<1>3. ASSUME NEW x \in Vars, NEW k \in Nat, call = Call("assign others", <<x, k>>), s \in Others(x),
             NEW j \in DOMAIN solvers_w[x], k <= j, solvers_w[x][j] = s
      PROVE  Covers(call, s)'
  <2>1. s \in Others(x)' /\ j \in DOMAIN solvers_w'[x] /\ solvers_w'[x][j] = s
    BY <1>3
  <2>2. /\ call = Call("assign others", <<x, k>>) /\ s \in Others(x)'
        /\ \E i \in DOMAIN solvers_w'[x] : k <= i /\ solvers_w'[x][i] = s
    BY <1>3, <2>1
  <2>. QED
    BY <2>2, Zenon DEF Covers
<1>. QED
  BY <1>1, <1>2, <1>3, Zenon DEF Covers

LEMMA CoversFrame ==
  ASSUME UNCHANGED <<solvers_w, external>>
  PROVE  CoversStay
<1>1. \A x \in Vars : Others(x)' = Others(x)
  BY DEF Others, DefiningSolver, IsSolveable, FirstHeaviest, Heaviest
<1>. QED
  BY <1>1, CoversKept

LEMMA CoversLookUp ==
  ASSUME Inv, NEW x \in Vars, LookUpDefining(x), UNCHANGED external
  PROVE  CoversStay
<1>1. solvers_w \in [Vars -> Seq(Solvers \cup {NoSolver})]
  BY DEF Inv, TypeOK
<1>2. solvers_w' \in {solvers_w, [solvers_w EXCEPT ![x] = Append(@, NoSolver)]}
  BY DEF LookUpDefining
<1>3. \A y \in Vars : \A i \in DOMAIN solvers_w[y] :
        i \in DOMAIN solvers_w'[y] /\ solvers_w'[y][i] = solvers_w[y][i]
  <2>. SUFFICES ASSUME NEW y \in Vars, NEW i \in DOMAIN solvers_w[y]
                PROVE  i \in DOMAIN solvers_w'[y] /\ solvers_w'[y][i] = solvers_w[y][i]
    OBVIOUS
  <2>1. solvers_w[y] \in Seq(Solvers \cup {NoSolver})
    BY <1>1
  <2>2. solvers_w'[y] \in {solvers_w[y], Append(solvers_w[y], NoSolver)}
    BY <1>1, <1>2
  <2>. QED
    BY <2>1, <2>2
<1>4. solvers_w' \in [Vars -> Seq(Solvers \cup {NoSolver})]
  BY LookUpKeeps DEF Inv
<1>5. \A y \in Vars : Others(y)' = Others(y)
  BY <1>3, <1>4, DefinerStays
<1>. QED
  BY <1>3, <1>5, CoversKept

LEMMA CoversFew ==
  ASSUME NEW call, NEW s, Covers(call, s)
  PROVE  call.fn \in {"solve", "__assign__", "assign others"}
<1>1. CASE call = Call("solve", s)
  BY <1>1, CallIs
<1>2. CASE \E x \in Vars : call = Call("__assign__", x)
  BY <1>2, CallIs
<1>3. CASE \E x \in Vars, k \in Nat : call = Call("assign others", <<x, k>>)
  BY <1>3, CallIs
<1>. QED
  BY <1>1, <1>2, <1>3 DEF Covers

LEMMA CallsEqual == \A f, a, g, b : Call(f, a) = Call(g, b) => f = g /\ a = b
<1>. SUFFICES ASSUME NEW f, NEW a, NEW g, NEW b, Call(f, a) = Call(g, b) PROVE f = g /\ a = b
  OBVIOUS
<1>1. Call(f, a).fn = Call(g, b).fn /\ Call(f, a).arg = Call(g, b).arg
  OBVIOUS
<1>2. Call(f, a).fn = f /\ Call(f, a).arg = a /\ Call(g, b).fn = g /\ Call(g, b).arg = b
  BY CallIs, Zenon
<1>. QED
  BY <1>1, <1>2

LEMMA CallsDiffer ==
  /\ \A x, y, k : Call("__assign__", x) # Call("assign others", <<y, k>>)
  /\ \A x, s : Call("__assign__", x) # Call("solve", s)
  /\ \A x, k, s : Call("assign others", <<x, k>>) # Call("solve", s)
  /\ \A f, a, b : Call(f, a) = Call(f, b) => a = b
<1>1. /\ "__assign__" # "assign others" /\ "__assign__" # "solve"
      /\ "assign others" # "solve"
  OBVIOUS
<1>. QED
  BY <1>1, CallsEqual, Zenon

LEMMA CoversOf ==
  /\ \A x \in Vars : \A s : Covers(Call("__assign__", x), s) => s \in external[x]
  /\ \A x \in Vars, i \in Nat : \A s : Covers(Call("assign others", <<x, i>>), s) =>
       s \in Others(x) /\ \E j \in DOMAIN solvers_w[x] : i <= j /\ solvers_w[x][j] = s
  /\ \A t, s : Covers(Call("solve", t), s) => s = t
<1>1. ASSUME NEW x \in Vars, NEW s, Covers(Call("__assign__", x), s)
      PROVE  s \in external[x]
  <2>1. /\ Call("__assign__", x) # Call("solve", s)
        /\ \A y, k : Call("__assign__", x) # Call("assign others", <<y, k>>)
    BY CallsDiffer
  <2>2. PICK y \in Vars : Call("__assign__", x) = Call("__assign__", y) /\ s \in external[y]
    BY <1>1, <2>1, Zenon DEF Covers
  <2>3. y = x
    BY <2>2, CallsDiffer, Zenon
  <2>. QED
    BY <2>2, <2>3
<1>2. ASSUME NEW x \in Vars, NEW i \in Nat, NEW s, Covers(Call("assign others", <<x, i>>), s)
      PROVE  s \in Others(x) /\ \E j \in DOMAIN solvers_w[x] : i <= j /\ solvers_w[x][j] = s
  <2>1. /\ Call("assign others", <<x, i>>) # Call("solve", s)
        /\ \A y : Call("assign others", <<x, i>>) # Call("__assign__", y)
    BY CallsDiffer
  <2>2. PICK y \in Vars, k \in Nat :
          /\ Call("assign others", <<x, i>>) = Call("assign others", <<y, k>>) /\ s \in Others(y)
          /\ \E j \in DOMAIN solvers_w[y] : k <= j /\ solvers_w[y][j] = s
    BY <1>2, <2>1, Zenon DEF Covers
  <2>3. <<y, k>> = <<x, i>>
    BY <2>2, CallsDiffer, Zenon
  <2>4. y = x /\ k = i
    BY <2>3
  <2>. QED
    BY <2>2, <2>4
<1>3. ASSUME NEW t, NEW s, Covers(Call("solve", t), s)
      PROVE  s = t
  <2>1. /\ \A y : Call("solve", t) # Call("__assign__", y)
        /\ \A y, k : Call("solve", t) # Call("assign others", <<y, k>>)
    BY CallsDiffer
  <2>2. Call("solve", t) = Call("solve", s)
    BY <1>3, <2>1, Zenon DEF Covers
  <2>. QED
    BY <2>2, CallsDiffer, Zenon
<1>. QED
  BY <1>1, <1>2, <1>3, Zenon

(* A step that runs what it has to run, now or later.                      *)
LEMMA ModelGoesOn ==
  ASSUME Inv, ModelInv, agenda # <<>>, Behind \subseteq Pending', CoversStay, ValuesStay,
         UNCHANGED raised,
         \A s \in Solvers : Agrees(s) \/ Covered(s)',
         \A s \in Solvers : Covers(agenda[1], s) => Covered(s)'
  PROVE  ModelInv'
<1>. SUFFICES ASSUME ~raised, NEW s \in Solvers PROVE Satisfied(s)' \/ Covered(s)'
  BY DEF ModelInv
<1>1. Pending = {agenda[1]} \cup Behind /\ Pending \subseteq Calls
  BY PendingNow
<1>2. CASE Satisfied(s)
  BY <1>2, SatisfiedStays
<1>3. CASE Covered(s)
  <2>1. PICK call \in Pending : Covers(call, s)
    BY <1>3 DEF Covered
  <2>2. CASE call = agenda[1]
    BY <2>1, <2>2
  <2>3. CASE call \in Behind
    <3>1. Covers(call, s)' /\ call \in Pending'
      BY <1>1, <2>1, <2>3 DEF CoversStay
    <3>. QED
      BY <3>1 DEF Covered
  <2>. QED
    BY <1>1, <2>2, <2>3
<1>. QED
  BY <1>2, <1>3 DEF ModelInv

LEMMA ModelRaise == raised' => ModelInv'
  BY DEF ModelInv

-----------------------------------------------------------------------------
(* What the calls do to the answers.                                       *)

(* A solver that is first of the heaviest among more solvers is so among   *)
(* fewer.                                                                  *)
LEMMA FirstHeaviestAmong ==
  ASSUME NEW slots \in Seq(Solvers \cup {NoSolver}), NEW T \in SUBSET Solvers,
         NEW S \in SUBSET T, \A s \in T : \E i \in DOMAIN slots : slots[i] = s,
         FirstHeaviest(slots, T) \in S
  PROVE  FirstHeaviest(slots, S) = FirstHeaviest(slots, T)
<1>. DEFINE d == FirstHeaviest(slots, T)
            I == {i \in DOMAIN slots : slots[i] \in Heaviest(T)}
            J == {i \in DOMAIN slots : slots[i] \in Heaviest(S)}
<1>1. PICK h \in T : \A t \in T : Weight[t] <= Weight[h]
  BY HeaviestAssumption
<1>2. I # {} /\ I \in SUBSET Nat /\ J \in SUBSET Nat
  BY <1>1 DEF Heaviest
<1>3. Least(I) \in I /\ \A i \in I : Least(I) <= i
  <2>. HIDE DEF I
  <2>. QED
    BY <1>2, LeastExists
<1>4. d = slots[Least(I)] /\ d \in Heaviest(T) /\ d \in S
  BY <1>3 DEF FirstHeaviest
<1>5. J \subseteq I /\ Least(I) \in J
  <2>1. d \in Heaviest(S)
    BY <1>4 DEF Heaviest
  <2>2. Heaviest(S) \subseteq Heaviest(T)
    <3>1. \A t \in T : Weight[t] \in Int /\ Weight[t] <= Weight[d]
      BY <1>4, ConstantsAssumption DEF Heaviest
    <3>. QED
      BY <1>4, <3>1 DEF Heaviest
  <2>. QED
    BY <1>3, <1>4, <2>1, <2>2
<1>6. Least(J) \in J /\ \A i \in J : Least(J) <= i
  <2>. HIDE DEF I, J
  <2>. QED
    BY <1>2, <1>5, LeastExists
<1>7. Least(J) = Least(I)
  <2>. DEFINE i == Least(I)
              j == Least(J)
  <2>1. i \in J /\ j \in I /\ i <= j /\ j <= i /\ i \in Nat /\ j \in Nat
    BY <1>2, <1>3, <1>5, <1>6
  <2>. HIDE DEF i, j
  <2>2. i = j
    BY <2>1
  <2>. QED
    BY <2>2 DEF i, j
<1>. QED
  BY <1>4, <1>7 DEF FirstHeaviest

(* Running a block, to its end or not: the solver that joins a variable takes over what is in *)
(* the slot, everybody else keeps the value.                               *)
LEMMA MeetAnswers ==
  ASSUME Inv, NEW c \in Cons, Meets(c), UNCHANGED <<stored, model>>
  PROVE  /\ ValuesStay /\ CoversStay
         /\ \A x \in Vars, t \in Solvers : pin'[x][t] \in {pin[x][t], ValueOf(x, t)'}
<1>0. PICK met \in SUBSET Vars : \E read \in SUBSET met : MeetVariables(c, read, met)
  BY DEF Meets
<1>. PICK read \in SUBSET met : MeetVariables(c, read, met)
  BY <1>0
<1>. DEFINE s == SolverOf[c]
            joins == {x \in read : Joins(x, s)}
            locks(x) == IF x \in joins THEN NewlyReadonly(x, s) ELSE {}
<1>1. s \in Solvers /\ \A x \in Vars : external[x] \subseteq Solvers
  BY ConstantsAssumption DEF Inv, TypeOK
<1>2. /\ solvers_w' = [x \in Vars |-> IF x \in met THEN SlotsWith(x, s) ELSE solvers_w[x]]
      /\ external' = [x \in Vars |-> IF x \in joins THEN external[x] \cup {s} ELSE external[x]]
      /\ w_value' = [x \in Vars |-> [t \in Solvers |->
           IF t \in locks(x) \/ (t = s /\ x \in joins) THEN ValueAtJoin(x, s, t)
           ELSE w_value[x][t]]]
      /\ pin' = [x \in Vars |-> [t \in Solvers |->
           IF t \in locks(x) THEN ValueAtJoin(x, s, t) ELSE pin[x][t]]]
  BY DEF MeetVariables
<1>3. \A x \in joins : x \in Vars /\ s \notin external[x]
  BY <1>1 DEF Joins
<1>4. \A x \in Vars : locks(x) # {} => x \in joins
  OBVIOUS
<1>5. \A x \in Vars, t \in Solvers :
        /\ w_value'[x][t] = IF t \in locks(x) \/ (t = s /\ x \in joins) THEN ValueAtJoin(x, s, t)
                            ELSE w_value[x][t]
        /\ pin'[x][t] = IF t \in locks(x) THEN ValueAtJoin(x, s, t) ELSE pin[x][t]
  BY <1>2
<1>6. \A x \in Vars, t \in Solvers :
        ValueOf(x, t)' = IF x \in DOMAIN model[t] THEN model[t][x] ELSE w_value'[x][t]
  BY DEF ValueOf
<1>. HIDE DEF locks
<1>7. ValuesStay
  <2>. SUFFICES ASSUME NEW x \in Vars, NEW t \in external[x]
                PROVE  t \in external'[x] /\ ValueOf(x, t)' = ValueOf(x, t)
    BY DEF ValuesStay
  <2>1. t \in external'[x] /\ t \in Solvers
    BY <1>1, <1>2
  <2>2. x \in joins => t # s
    BY <1>3
  <2>3. w_value'[x][t] \in {w_value[x][t], ValueOf(x, t)}
    BY <1>4, <1>5, <2>1, <2>2 DEF ValueAtJoin
  <2>. QED
    BY <1>6, <2>1, <2>3 DEF ValueOf
<1>8. ASSUME NEW x \in Vars, NEW t \in Solvers
      PROVE  pin'[x][t] \in {pin[x][t], ValueOf(x, t)'}
  <2>. SUFFICES ASSUME t \in locks(x) PROVE ValueAtJoin(x, s, t) = ValueOf(x, t)'
    BY <1>5
  <2>1. w_value'[x][t] = ValueAtJoin(x, s, t) /\ x \in joins
    BY <1>4, <1>5
  <2>2. CASE t = s
    <3>1. x \notin DOMAIN model[t]
      BY <1>3, <2>1, <2>2 DEF Inv, SolversKnow
    <3>. QED
      BY <1>6, <2>1, <3>1
  <2>3. CASE t # s
    BY <1>6, <2>1, <2>3 DEF ValueAtJoin, ValueOf
  <2>. QED
    BY <2>2, <2>3
<1>9. CoversStay
  <2>1. \A x \in Vars : \A i \in DOMAIN solvers_w[x] :
          i \in DOMAIN solvers_w'[x] /\ solvers_w'[x][i] = solvers_w[x][i]
    BY <1>1, <1>2, SlotsWithKnown DEF Inv
  <2>2. /\ solvers_w' \in [Vars -> Seq(Solvers \cup {NoSolver})]
        /\ external' \in [Vars -> SUBSET Solvers]
        /\ \A x \in Vars : external[x] \subseteq external'[x]
        /\ \A x \in Vars : \A t \in external'[x] :
             \E i \in DOMAIN solvers_w'[x] : solvers_w'[x][i] = t
    BY MeetKeeps DEF SlotsKnown
  <2>3. ASSUME NEW x \in Vars
        PROVE  Others(x) \subseteq Others(x)'
    <3>. SUFFICES ASSUME NEW t \in Others(x), t = DefiningSolver(x)' PROVE FALSE
      BY <2>2 DEF Others
    <3>. DEFINE p == solvers_w[x]
                q == solvers_w'[x]
                S == external[x]
                T == external'[x]
    <3>1. t \in S /\ t # DefiningSolver(x) /\ S # {} /\ S \subseteq T /\ T # {}
      BY <2>2 DEF Others
    <3>2. t = FirstHeaviest(q, T) /\ DefiningSolver(x) = FirstHeaviest(p, S)
      BY <3>1 DEF DefiningSolver, IsSolveable, FirstHeaviest, Heaviest
    <3>3. /\ p \in Seq(Solvers \cup {NoSolver}) /\ q \in Seq(Solvers \cup {NoSolver})
          /\ T \in SUBSET Solvers /\ S \in SUBSET Solvers
          /\ \A r \in S : \E i \in DOMAIN p : p[i] = r
          /\ \A r \in T : \E i \in DOMAIN q : q[i] = r
          /\ \A i \in DOMAIN p : i \in DOMAIN q /\ q[i] = p[i]
      BY <1>1, <2>1, <2>2 DEF Inv, TypeOK, SlotsKnown
    <3>. HIDE DEF p, q, S, T
    <3>4. FirstHeaviest(q, S) = t
      BY <3>1, <3>2, <3>3, FirstHeaviestAmong
    <3>5. FirstHeaviest(q, S) = FirstHeaviest(p, S)
      BY <3>1, <3>3, FirstHeaviestStays
    <3>. QED
      BY <3>1, <3>2, <3>4, <3>5
  <2>. QED
    BY <2>1, <2>2, <2>3, CoversKept
<1>. QED
  BY <1>7, <1>8, <1>9

-----------------------------------------------------------------------------
(* A value is offered to a solver right before the solver is run.          *)
OffersRunFirst == \A call \in Behind : call.fn # "begin_assign"
OfferIsSolved ==
  Running("begin_assign") =>
    2 \in DOMAIN agenda /\ agenda[2] = Call("solve", Arg[2])
OfferInv == OffersRunFirst /\ OfferIsSolved

LEMMA NoOffer ==
  ASSUME agenda' \in Seq(Calls), \A call \in Pending' : call.fn # "begin_assign"
  PROVE  OfferInv'
<1>1. OffersRunFirst'
  BY BehindNext DEF OffersRunFirst
<1>2. OfferIsSolved'
  <2>. SUFFICES ASSUME Running("begin_assign")' PROVE FALSE
    BY DEF OfferIsSolved
  <2>1. agenda' # <<>> /\ agenda'[1].fn = "begin_assign"
    BY DEF Running
  <2>2. agenda'[1] \in Pending'
    BY <2>1 DEF Pending, CallsIn
  <2>. QED
    BY <2>1, <2>2
<1>. QED
  BY <1>1, <1>2 DEF OfferInv

LEMMA OfferAdds ==
  ASSUME Inv, OfferInv, Step, NEW fns, Adds(fns), "begin_assign" \notin fns
  PROVE  OfferInv'
<1>1. agenda' \in Seq(Calls)
  BY NextInv DEF Next, Inv, TypeOK
<1>. QED
  BY <1>1, NoOffer DEF Adds, OfferInv, OffersRunFirst

(* Going on with calls p: they come in front, in their order.              *)
LEMMA InFront ==
  ASSUME Inv, agenda # <<>>, NEW p \in Seq(Calls), p # <<>>, agenda' = p \o Tail(agenda)
  PROVE  /\ \A i \in DOMAIN p : i \in DOMAIN agenda' /\ agenda'[i] = p[i]
         /\ Behind' = {p[i] : i \in DOMAIN p \ {1}} \cup Behind
         /\ agenda' # <<>>
<1>. DEFINE q == Tail(agenda)
            r == agenda'
<1>1. q \in Seq(Calls) /\ Behind = CallsIn(q) /\ r = p \o q
  BY PendingNow
<1>. HIDE DEF q, r
<1>2. /\ r \in Seq(Calls) /\ Len(p) \in Nat \ {0} /\ Len(q) \in Nat
      /\ DOMAIN p = 1..Len(p) /\ DOMAIN q = 1..Len(q)
      /\ DOMAIN r = 1..(Len(p) + Len(q))
      /\ \A i \in 1..(Len(p) + Len(q)) :
           r[i] = IF i <= Len(p) THEN p[i] ELSE q[i - Len(p)]
  BY <1>1
<1>3. \A i \in DOMAIN p : i \in DOMAIN r /\ r[i] = p[i]
  BY <1>2
<1>4. ASSUME NEW i \in DOMAIN r \ {1}
      PROVE  r[i] \in {p[j] : j \in DOMAIN p \ {1}} \cup CallsIn(q)
  <2>1. CASE i <= Len(p)
    BY <1>2, <2>1
  <2>2. CASE i > Len(p)
    <3>1. i - Len(p) \in DOMAIN q /\ r[i] = q[i - Len(p)]
      BY <1>2, <2>2
    <3>. QED
      BY <3>1 DEF CallsIn
  <2>. QED
    BY <1>2, <2>1, <2>2
<1>5. ASSUME NEW i \in DOMAIN q
      PROVE  q[i] \in {r[j] : j \in DOMAIN r \ {1}}
  <2>1. i + Len(p) \in DOMAIN r \ {1} /\ r[i + Len(p)] = q[i]
    BY <1>2
  <2>. QED
    BY <2>1
<1>6. {r[i] : i \in DOMAIN r \ {1}} = {p[i] : i \in DOMAIN p \ {1}} \cup CallsIn(q)
  BY <1>2, <1>3, <1>4, <1>5 DEF CallsIn
<1>7. r # <<>>
  BY <1>2
<1>. QED
  BY <1>1, <1>3, <1>6, <1>7 DEF Behind, r

(* The calls that offer a value have the run of the solver next to it.     *)
LEMMA OfferMade ==
  ASSUME Inv, OfferInv, agenda # <<>>, NEW x \in Vars, NEW s \in Solvers, NEW p \in Seq(Calls),
         1 \in DOMAIN p, 2 \in DOMAIN p,
         p[1] = Call("begin_assign", <<x, s>>), p[2] = Call("solve", s),
         \A i \in DOMAIN p \ {1} : p[i].fn # "begin_assign",
         agenda' = p \o Tail(agenda)
  PROVE  OfferInv'
<1>1. p # <<>>
  OBVIOUS
<1>2. /\ agenda'[1] = Call("begin_assign", <<x, s>>) /\ 2 \in DOMAIN agenda'
      /\ agenda'[2] = Call("solve", s)
      /\ Behind' = {p[i] : i \in DOMAIN p \ {1}} \cup Behind
  BY <1>1, InFront
<1>3. OffersRunFirst'
  BY <1>2 DEF OfferInv, OffersRunFirst
<1>4. OfferIsSolved'
  BY <1>2, CallIs DEF OfferIsSolved, Arg
<1>. QED
  BY <1>3, <1>4 DEF OfferInv

LEMMA OfferLoops ==
  ASSUME Inv, OfferInv, AssignOthers \/ UpdateDownstreamVariables
  PROVE  OfferInv'
<1>1. ASSUME NEW fns, Adds(fns), "begin_assign" \notin fns
      PROVE  OfferInv'
  BY <1>1, OfferAdds DEF Step
<1>2. CASE AssignOthers
  <2>1. PICK x \in Vars, i \in Nat :
          /\ agenda # <<>> /\ agenda[1] = Call("assign others", <<x, i>>)
          /\ \/ NoneLeft(x, i, Others(x)) /\ agenda' = Tail(agenda)
             \/ \E j \in Nat :
                  /\ Visits(x, i, Others(x), j)
                  /\ agenda' = <<Call("begin_assign", <<x, solvers_w[x][j]>>),
                                 Call("solve", solvers_w[x][j]),
                                 Call("assign others", <<x, j + 1>>)>> \o Tail(agenda)
    BY <1>2, AssignOthersDoes, Zenon
  <2>2. CASE agenda' = Tail(agenda)
    <3>1. Adds({})
      BY <2>1, <2>2, PendingFew, AddsFew, Zenon
    <3>. QED
      BY <1>1, <3>1
  <2>3. ASSUME NEW j \in Nat, Visits(x, i, Others(x), j),
               agenda' = <<Call("begin_assign", <<x, solvers_w[x][j]>>),
                           Call("solve", solvers_w[x][j]),
                           Call("assign others", <<x, j + 1>>)>> \o Tail(agenda)
        PROVE  OfferInv'
    <3>. DEFINE s == solvers_w[x][j]
                a == Call("begin_assign", <<x, s>>)
                b == Call("solve", s)
                d == Call("assign others", <<x, j + 1>>)
                p == <<a, b, d>>
    <3>1. s \in Solvers /\ j + 1 \in Nat
      <4>1. j + 1 \in Nat
        OBVIOUS
      <4>. QED
        BY <2>3, <4>1, Zenon DEF Visits
    <3>2. a \in Calls /\ b \in Calls /\ d \in Calls
      BY <3>1, CallTypes, Zenon
    <3>3. b.fn = "solve" /\ d.fn = "assign others"
      BY CallIs, Zenon
    <3>4. agenda' = p \o Tail(agenda)
      BY <2>3
    <3>5. a = Call("begin_assign", <<x, s>>) /\ b = Call("solve", s)
      OBVIOUS
    <3>. HIDE DEF s, a, b, d
    <3>6. /\ p \in Seq(Calls) /\ 1 \in DOMAIN p /\ 2 \in DOMAIN p
          /\ p[1] = a /\ p[2] = b /\ \A k \in DOMAIN p \ {1} : p[k] = b \/ p[k] = d
      BY <3>2
    <3>. HIDE DEF p
    <3>. QED
      BY <2>1, <3>1, <3>3, <3>4, <3>5, <3>6, OfferMade
  <2>. QED
    BY <2>1, <2>2, <2>3
<1>3. CASE UpdateDownstreamVariables
  <2>1. PICK x \in Vars, i \in Nat :
          /\ agenda # <<>> /\ agenda[1] = Call("update_downstream_variables", <<x, i>>)
          /\ \/ NoneLeft(x, i, Others(x)) /\ agenda' = <<Call("make_not_assignable", x)>> \o Tail(agenda)
             \/ \E j \in Nat :
                  /\ Visits(x, i, Others(x), j)
                  /\ agenda' = (Offer(x, solvers_w[x][j])
                                 \o <<Call("update_downstream_variables", <<x, j + 1>>)>>)
                                 \o Tail(agenda)
    BY <1>3, UpdateDownstreamVariablesDoes, Zenon
  <2>2. CASE agenda' = <<Call("make_not_assignable", x)>> \o Tail(agenda)
    <3>1. Adds({"make_not_assignable"})
      BY <2>1, <2>2, PendingFew, CallTypes, AddsFew, Zenon
    <3>. QED
      BY <1>1, <3>1
  <2>3. ASSUME NEW j \in Nat, Visits(x, i, Others(x), j),
               agenda' = (Offer(x, solvers_w[x][j])
                            \o <<Call("update_downstream_variables", <<x, j + 1>>)>>)
                            \o Tail(agenda)
        PROVE  OfferInv'
    <3>. DEFINE s == solvers_w[x][j]
                a == Call("begin_assign", <<x, s>>)
                b == Call("solve", s)
                c == Call("end_assign", <<x, s>>)
                d == Call("update_downstream_variables", <<x, j + 1>>)
                p == <<a, b, c>> \o <<d>>
    <3>1. s \in Solvers /\ j + 1 \in Nat
      <4>1. j + 1 \in Nat
        OBVIOUS
      <4>. QED
        BY <2>3, <4>1, Zenon DEF Visits
    <3>2. a \in Calls /\ b \in Calls /\ c \in Calls /\ d \in Calls
      BY <3>1, CallTypes, Zenon
    <3>3. b.fn = "solve" /\ c.fn = "end_assign" /\ d.fn = "update_downstream_variables"
      BY CallIs, Zenon
    <3>4. agenda' = p \o Tail(agenda)
      BY <2>3 DEF Offer
    <3>5. a = Call("begin_assign", <<x, s>>) /\ b = Call("solve", s)
      OBVIOUS
    <3>. HIDE DEF s, a, b, c, d
    <3>6. /\ p \in Seq(Calls) /\ 1 \in DOMAIN p /\ 2 \in DOMAIN p
          /\ p[1] = a /\ p[2] = b /\ \A k \in DOMAIN p \ {1} : p[k].fn # "begin_assign"
      BY <3>2, <3>3
    <3>. HIDE DEF p
    <3>. QED
      BY <2>1, <3>1, <3>4, <3>5, <3>6, OfferMade
  <2>. QED
    BY <2>1, <2>2, <2>3
<1>. QED
  BY <1>2, <1>3

LEMMA OfferStep ==
  ASSUME Inv, OfferInv, Step
  PROVE  OfferInv'
<1>1. ASSUME NEW fns, Adds(fns), "begin_assign" \notin fns
      PROVE  OfferInv'
  BY <1>1, OfferAdds
<1>2. Adds({}) => OfferInv'
  BY <1>1
<1>3. agenda # <<>> /\ agenda' = Tail(agenda) => OfferInv'
  BY <1>2, PendingFew, AddsFew
<1>4. agenda' = <<>> => OfferInv'
  <2>1. <<>> \in Seq(Calls)
    OBVIOUS
  <2>. QED
    BY <2>1, NonePending, NoOffer
<1>5. CASE BeginAssignVariable
  BY <1>3, <1>5, BeginAssignVariableDoes, Zenon
<1>6. CASE AssignVariable
  <2>1. Adds({}) \/ Adds({"solve", "get_i", "assign others"})
    BY <1>6, AssignVariableLeaves, AddsFew, Zenon
  <2>. QED
    BY <1>1, <2>1
<1>7. CASE GetI
  <2>1. Adds({}) \/ Adds({"update_downstream_variables"})
    BY <1>7, GetILeaves, AddsFew, Zenon
  <2>. QED
    BY <1>1, <2>1
<1>8. CASE EndAssignVariable
  <2>1. Adds({"make_not_assignable"}) \/ Adds({"end_assign", "__end_assign__"})
    BY <1>8, EndAssignVariableLeaves, AddsFew, Zenon
  <2>. QED
    BY <1>1, <2>1
<1>9. CASE MakeNotAssignable
  <2>1. Adds({"recalculate_path"})
    BY <1>9, MakeNotAssignableLeaves, AddsFew, Zenon
  <2>. QED
    BY <1>1, <2>1
<1>10. CASE RecalculatePath
  <2>1. Adds({}) \/ Adds({"recalculate", "recalculate_path"})
    BY <1>10, RecalculatePathLeaves, AddsFew, Zenon
  <2>. QED
    BY <1>1, <2>1
<1>11. CASE BeginAssign
  BY <1>3, <1>11, BeginAssignDoes, Zenon
<1>12. CASE Solve
  BY <1>3, <1>4, <1>12, SolveDoes, Zenon
<1>13. CASE EndAssign
  BY <1>3, <1>4, <1>13, EndAssignDoes, Zenon
<1>14. CASE Recalculate
  <2>1. Adds({}) \/ Adds({"enable"})
    BY <1>14, RecalculateLeaves, AddsFew, Zenon
  <2>. QED
    BY <1>1, <2>1
<1>15. CASE EnableConstraint
  <2>1. \/ Adds({}) \/ Adds({"set_enabled"}) \/ Adds({"solve", "set_enabled"})
        \/ agenda' = <<>>
    BY <1>15, EnableConstraintLeaves, AddsFew, Zenon
  <2>. QED
    BY <1>1, <1>4, <2>1
<1>16. CASE SetEnabled
  BY <1>3, <1>16, SetEnabledDoes, Zenon
<1>17. CASE RecalculateRaises
  BY <1>4, <1>17, RecalculateRaisesDoes, Zenon
<1>. QED
  BY <1>5, <1>6, <1>7, <1>8, <1>9, <1>10, <1>11, <1>12, <1>13, <1>14, <1>15, <1>16,
     <1>17, OfferLoops, Zenon DEF Step

LEMMA OfferProgram ==
  ASSUME Inv, OfferInv, UserStep
  PROVE  OfferInv'
<1>. USE DEF varState, solverState
<1>1. agenda = <<>>
  BY ProgramIdle
<1>2. agenda' \in Seq(Calls)
  BY NextInv DEF Next, Inv, TypeOK
<1>3. ASSUME NEW c \in Cons,
             Always(c) \/ AlwaysRaises(c) \/ Enable(c) \/ Disable(c) \/ SetStrength(c)
      PROVE  \A call \in Pending' : call.fn # "begin_assign"
  <2>1. agenda' = <<>> \/ agenda' = <<Call("enable", c)>>
    BY <1>1, <1>3 DEF Always, AlwaysRaises, Enable, Disable, SetStrength
  <2>. QED
    BY <2>1, StartsOne, NonePending, CallIs
<1>4. ASSUME NEW x \in Vars, Read(x)
      PROVE  \A call \in Pending' : call.fn # "begin_assign"
  <2>1. agenda' = <<Call("get_i", x)>>
    BY <1>4 DEF Read
  <2>. QED
    BY <2>1, StartsOne, CallIs
<1>5. ASSUME NEW x \in Vars, NEW v \in Values, Assign(x, v)
      PROVE  \A call \in Pending' : call.fn # "begin_assign"
  <2>1. \A call \in Pending' : call = Call("__begin_assign__", <<x, v>>) \/ call \in Started(x)
    BY <1>5, AssignStarts
  <2>. QED
    BY <2>1, StartFns, CallIs
<1>6. ASSUME NEW x \in Vars, NEW y \in Vars, NEW v \in Values, NEW w \in Values,
             MultiAssign(x, v, y, w)
      PROVE  \A call \in Pending' : call.fn # "begin_assign"
  <2>1. \A call \in Pending' :
          \/ call = Call("__begin_assign__", <<x, v>>) \/ call \in Started(x)
          \/ call = Call("__begin_assign__", <<y, w>>) \/ call \in Started(y)
    BY <1>6, MultiAssignStarts
  <2>. QED
    BY <2>1, StartFns, CallIs
<1>. QED
  BY <1>2, <1>3, <1>4, <1>5, <1>6, NoOffer DEF UserStep

-----------------------------------------------------------------------------
(* No call but a run of the solver changes what a solver answers for a      *)
(* variable it knows: what is cached is what the solver answered.           *)
LEMMA StepAnswers ==
  ASSUME Inv, Step
  PROVE  CoversStay /\ (Solve \/ ValuesStay)
<1>. USE DEF varState, solverState
<1>1. CASE BeginAssignVariable
  <2>1. PICK x \in Vars :
          /\ UNCHANGED <<external, model, w_value>>
          /\ LookUpDefining(x) \/ UNCHANGED solvers_w
    BY <1>1, BeginAssignVariableDoes, Zenon
  <2>. QED
    BY <2>1, AnswersStay, CoversFrame, CoversLookUp
<1>2. CASE AssignVariable
  <2>1. PICK x \in Vars : LookUpDefining(x) /\ UNCHANGED <<external, model, w_value>>
    BY <1>2, AssignVariableDoes, Zenon
  <2>. QED
    BY <2>1, AnswersStay, CoversLookUp
<1>3. ASSUME UNCHANGED <<solvers_w, external, model, w_value>>
      PROVE  CoversStay /\ ValuesStay
  BY <1>3, AnswersStay, CoversFrame
<1>4. CASE AssignOthers \/ UpdateDownstreamVariables \/ EndAssignVariable \/ RecalculatePath
  BY <1>3, <1>4 DEF AssignOthers, UpdateDownstreamVariables, EndAssignVariable, RecalculatePath
<1>5. CASE BeginAssign \/ EndAssign \/ EnableConstraint \/ SetEnabled
  BY <1>3, <1>5 DEF BeginAssign, EndAssign, EnableConstraint, SetEnabled
<1>6. CASE Solve
  <2>1. UNCHANGED <<solvers_w, external>>
    BY <1>6 DEF Solve
  <2>. QED
    BY <1>6, <2>1, CoversFrame
<1>7. CASE GetI
  <2>1. PICK x \in Vars :
          /\ DefiningSolver(x) \in Solvers
          /\ w_value' = [w_value EXCEPT ![x][DefiningSolver(x)] = ValueOf(x, DefiningSolver(x))]
          /\ UNCHANGED <<solvers_w, external, model>>
    BY <1>7, GetILeaves, Zenon
  <2>2. w_value \in [Vars -> [Solvers -> Values \cup {NoValue}]]
    BY DEF Inv, TypeOK
  <2>3. ASSUME NEW y \in Vars, NEW s \in Solvers
        PROVE  ValueOf(y, s)' = ValueOf(y, s)
    <3>1. w_value'[y][s] \in {w_value[y][s], ValueOf(y, s)}
      BY <2>1, <2>2
    <3>. QED
      BY <2>1, <3>1 DEF ValueOf
  <2>4. \A y \in Vars : external[y] \subseteq Solvers
    BY DEF Inv, TypeOK
  <2>. QED
    BY <2>1, <2>3, <2>4, CoversFrame DEF ValuesStay
<1>8. CASE MakeNotAssignable
  <2>1. PICK x \in Vars :
          /\ LET lock == {s \in readonly[x] : pin[x][s] = NoValue} IN
               w_value' = [w_value EXCEPT ![x] =
                 [s \in Solvers |-> IF s \in lock THEN ValueOf(x, s) ELSE w_value[x][s]]]
          /\ UNCHANGED <<solvers_w, external, model>>
    BY <1>8, MakeNotAssignableDoes, Zenon
  <2>2. w_value \in [Vars -> [Solvers -> Values \cup {NoValue}]]
    BY DEF Inv, TypeOK
  <2>3. ASSUME NEW y \in Vars, NEW s \in Solvers
        PROVE  ValueOf(y, s)' = ValueOf(y, s)
    <3>1. w_value'[y][s] \in {w_value[y][s], ValueOf(y, s)}
      BY <2>1, <2>2
    <3>. QED
      BY <2>1, <3>1 DEF ValueOf
  <2>4. \A y \in Vars : external[y] \subseteq Solvers
    BY DEF Inv, TypeOK
  <2>. QED
    BY <2>1, <2>3, <2>4, CoversFrame DEF ValuesStay
<1>9. CASE Recalculate
  <2>1. PICK c \in Cons :
          /\ RunPredicate(c) \/ UNCHANGED <<solvers_w, external, w_value>>
          /\ UNCHANGED <<stored, model>>
    BY <1>9, RecalculateDoes
  <2>. QED
    BY <1>3, <2>1, RunMeets, MeetAnswers
<1>10. CASE RecalculateRaises
  BY <1>10, RecalculateRaisesDoes, BreakMeets, MeetAnswers
<1>. QED
  BY <1>1, <1>2, <1>3, <1>4, <1>5, <1>6, <1>7, <1>8, <1>9, <1>10 DEF Step

(* A variable made assignable, a constraint retracted: the solvers are told *)
(* less.                                                                   *)
LEMMA MadeAssignable ==
  ASSUME Inv, NEW x \in Vars, pin' = MakeAssignable(x), NEW s \in Solvers, UNCHANGED asserted,
         \A y \in Vars : proposal'[y][s] = proposal[y][s],
         \A y \in Vars, v \in Values : <<y, s, v>> \in leaked' => <<y, s, v>> \in leaked
  PROVE  Agrees(s)
<1>1. \A y \in Vars, t \in Solvers : pin'[y][t] \in {NoValue, pin[y][t]}
  BY AssignableKeeps DEF Inv
<1>. QED
  BY <1>1, ToldLess

(* Only the solver a value is proposed to is told anything.                *)
LEMMA ProposesOne ==
  ASSUME Inv, NEW x \in Vars, NEW s \in Solvers, NEW v, Propose(x, s, v), NEW t \in Solvers, t # s
  PROVE  /\ \A y \in Vars : proposal'[y][t] = proposal[y][t]
         /\ \A y \in Vars, w \in Values : <<y, t, w>> \in leaked' => <<y, t, w>> \in leaked
<1>1. proposal \in [Vars -> [Solvers -> Values \cup {NoValue}]]
  BY DEF Inv, TypeOK
<1>2. leaked' = leaked \/ leaked' = leaked \cup {<<x, s, proposal[x][s]>>}
  BY DEF Propose
<1>. QED
  BY <1>1, <1>2 DEF Propose

-----------------------------------------------------------------------------
(* A value is proposed to the solver that defines the variable, which the   *)
(* assignment that follows runs.                                           *)
LEMMA ModelBegins ==
  ASSUME Inv, BeginInv, ModelInv, BeginAssignVariable
  PROVE  ModelInv'
<1>1. PICK x \in Vars, v \in Values :
        /\ agenda # <<>> /\ agenda[1] = Call("__begin_assign__", <<x, v>>)
        /\ agenda' = Tail(agenda)
        /\ UNCHANGED <<external, asserted, model, w_value, raised>>
        /\ \/ /\ IsConstrained(x) /\ pin' = MakeAssignable(x)
              /\ \/ IsSolveable(x) /\ Propose(x, DefiningSolver(x), v)
                 \/ ~IsSolveable(x) /\ UNCHANGED <<proposal, leaked>>
           \/ UNCHANGED <<pin, proposal, leaked>>
  BY BeginAssignVariableDoes, Zenon
<1>2. Pending = {agenda[1]} \cup Behind /\ Pending' = Behind
  BY <1>1, PendingNow, PendingFew
<1>3. CoversStay /\ ValuesStay
  <2>1. ~Solve
    BY <1>1, CallIs DEF Solve, Running
  <2>. QED
    BY <2>1, StepAnswers DEF Step
<1>4. \A s \in Solvers : ~Covers(agenda[1], s)
  <2>1. agenda[1].fn = "__begin_assign__"
    BY <1>1, CallIs
  <2>. QED
    BY <2>1, CoversFew
<1>5. \A s \in Solvers : Agrees(s) \/ Covered(s)'
  <2>1. CASE UNCHANGED <<pin, proposal, leaked>>
    BY <1>1, <2>1, ToldNothing
  <2>2. CASE pin' = MakeAssignable(x) /\ UNCHANGED <<proposal, leaked>>
    BY <1>1, <2>2, MadeAssignable
  <2>3. CASE IsConstrained(x) /\ pin' = MakeAssignable(x) /\ IsSolveable(x)
             /\ Propose(x, DefiningSolver(x), v)
    <3>1. PICK d \in Solvers : d = DefiningSolver(x) /\ d \in external[x]
      BY <2>3, DefiningKnown DEF Inv
    <3>2. Call("__assign__", x) \in Pending'
      <4>1. Call("__assign__", x) \in Pending
        BY <1>1, <1>2, <2>3 DEF BeginInv, BegunIsEnded, Started
      <4>. QED
        BY <1>1, <1>2, <4>1, CallIs
    <3>3. Covered(d)'
      <4>1. d \in external'[x]
        BY <1>1, <3>1
      <4>2. Covers(Call("__assign__", x), d)'
        BY <4>1, Zenon DEF Covers
      <4>. QED
        BY <3>2, <4>2, Zenon DEF Covered
    <3>4. ASSUME NEW s \in Solvers, s # d
          PROVE  Agrees(s)
      <4>1. Propose(x, d, v)
        BY <2>3, <3>1
      <4>2. /\ \A y \in Vars : proposal'[y][s] = proposal[y][s]
            /\ \A y \in Vars, w \in Values : <<y, s, w>> \in leaked' => <<y, s, w>> \in leaked
        BY <3>4, <4>1, ProposesOne
      <4>. QED
        BY <1>1, <2>3, <4>2, MadeAssignable
    <3>. QED
      BY <3>3, <3>4
  <2>. QED
    BY <1>1, <2>1, <2>2, <2>3
<1>. QED
  BY <1>1, <1>2, <1>3, <1>4, <1>5, ModelGoesOn

(* The call that runs the other solvers is as good as a run of each of     *)
(* them that it has not come by.                                           *)
LEMMA AssignPasses ==
  ASSUME Inv, CoversStay, NEW x \in Vars, NEW s \in Solvers,
         Covers(Call("__assign__", x), s)
  PROVE  /\ IsSolveable(x)
         /\ \E call \in {Call("solve", DefiningSolver(x)), Call("get_i", x),
                         Call("assign others", <<x, 1>>)} : Covers(call, s)'
<1>1. s \in external[x]
  BY CoversOf
<1>2. IsSolveable(x)
  BY <1>1 DEF IsSolveable
<1>3. CASE s = DefiningSolver(x)
  <2>1. Covers(Call("solve", s), s)'
    BY DEF Covers
  <2>. QED
    BY <1>2, <1>3, <2>1
<1>4. CASE s # DefiningSolver(x)
  <2>1. s \in Others(x)
    BY <1>1, <1>4 DEF Others
  <2>2. /\ \E j \in DOMAIN solvers_w[x] : 1 <= j /\ solvers_w[x][j] = s
        /\ 1 \in Nat
    BY <1>1 DEF Inv, SlotsKnown, TypeOK
  <2>3. Covers(Call("assign others", <<x, 1>>), s)
    BY <2>1, <2>2, Zenon DEF Covers
  <2>4. Covers(Call("assign others", <<x, 1>>), s)'
    BY <2>2, <2>3, CallTypes, Zenon DEF CoversStay
  <2>. QED
    BY <1>2, <2>4
<1>. QED
  BY <1>3, <1>4

LEMMA SlotPlaces ==
  /\ Inv => \A x \in Vars : \A k \in DOMAIN solvers_w[x] : k \in Nat
  /\ \A j, k \in Nat : j <= k /\ j # k => j + 1 <= k /\ j + 1 \in Nat
<1>1. Inv => \A x \in Vars : \A k \in DOMAIN solvers_w[x] : k \in Nat
  <2>. SUFFICES ASSUME Inv, NEW x \in Vars PROVE \A k \in DOMAIN solvers_w[x] : k \in Nat
    OBVIOUS
  <2>1. solvers_w[x] \in Seq(Solvers \cup {NoSolver})
    BY DEF Inv, TypeOK
  <2>. QED
    BY <2>1
<1>. QED
  BY <1>1

LEMMA OthersPass ==
  ASSUME Inv, CoversStay, NEW x \in Vars, NEW i \in Nat, NEW s \in Solvers,
         Covers(Call("assign others", <<x, i>>), s)
  PROVE  /\ ~NoneLeft(x, i, Others(x))
         /\ \A j \in Nat : Visits(x, i, Others(x), j) =>
              \E call \in {Call("begin_assign", <<x, solvers_w[x][j]>>),
                           Call("solve", solvers_w[x][j]),
                           Call("assign others", <<x, j + 1>>)} : Covers(call, s)'
<1>1. /\ s \in Others(x)
      /\ \E k \in DOMAIN solvers_w[x] : i <= k /\ solvers_w[x][k] = s
  BY CoversOf
<1>2. PICK k \in DOMAIN solvers_w[x] : i <= k /\ solvers_w[x][k] = s
  BY <1>1
<1>3. ~NoneLeft(x, i, Others(x))
  BY <1>1, <1>2 DEF NoneLeft
<1>4. ASSUME NEW j \in Nat, Visits(x, i, Others(x), j)
      PROVE  \E call \in {Call("begin_assign", <<x, solvers_w[x][j]>>),
                          Call("solve", solvers_w[x][j]),
                          Call("assign others", <<x, j + 1>>)} : Covers(call, s)'
  <2>1. j <= k /\ k \in Nat
    <3>1. j <= k
      BY <1>1, <1>2, <1>4, Zenon DEF Visits
    <3>. QED
      BY <1>2, <3>1, SlotPlaces, Zenon
  <2>2. CASE j = k
    <3>1. Covers(Call("solve", s), s)'
      BY DEF Covers
    <3>. QED
      BY <1>2, <2>2, <3>1
  <2>3. CASE j # k
    <3>1. j + 1 <= k /\ j + 1 \in Nat
      BY <1>4, <2>1, <2>3, SlotPlaces, Zenon
    <3>2. Covers(Call("assign others", <<x, j + 1>>), s)
      BY <1>1, <1>2, <3>1, Zenon DEF Covers
    <3>3. Covers(Call("assign others", <<x, j + 1>>), s)'
      BY <3>1, <3>2, CallTypes, Zenon DEF CoversStay
    <3>. QED
      BY <3>3
  <2>. QED
    BY <2>2, <2>3
<1>. QED
  BY <1>3, <1>4

LEMMA ModelAssigns ==
  ASSUME Inv, ModelInv, AssignVariable
  PROVE  ModelInv'
<1>1. PICK x \in Vars :
        /\ agenda # <<>> /\ agenda[1] = Call("__assign__", x)
        /\ UNCHANGED <<external, solverState, raised>>
        /\ \/ ~IsSolveable(x) /\ Pending' = Behind
           \/ /\ IsSolveable(x)
              /\ Pending' = {Call("solve", DefiningSolver(x)), Call("get_i", x),
                             Call("assign others", <<x, 1>>)} \cup Behind
  BY AssignVariableLeaves, Zenon
<1>2. CoversStay /\ ValuesStay
  <2>1. agenda[1].fn = "__assign__"
    BY <1>1, CallIs, Zenon
  <2>2. ~Solve
    BY <2>1 DEF Solve, Running
  <2>. QED
    BY <2>2, StepAnswers DEF Step
<1>3. \A s \in Solvers : Agrees(s)
  BY <1>1, ToldNothing DEF solverState
<1>4. ASSUME NEW s \in Solvers, Covers(agenda[1], s)
      PROVE  Covered(s)'
  <2>1. Covers(Call("__assign__", x), s)
    BY <1>1, <1>4
  <2>2. PICK call \in {Call("solve", DefiningSolver(x)), Call("get_i", x),
                       Call("assign others", <<x, 1>>)} : IsSolveable(x) /\ Covers(call, s)'
    BY <1>2, <2>1, AssignPasses
  <2>. QED
    BY <1>1, <2>2 DEF Covered
<1>5. Behind \subseteq Pending'
  BY VariableCallsAdd DEF Adds
<1>. QED
  BY <1>1, <1>2, <1>3, <1>4, <1>5, ModelGoesOn

LEMMA ModelOthers ==
  ASSUME Inv, ModelInv, AssignOthers
  PROVE  ModelInv'
<1>1. PICK x \in Vars, i \in Nat :
        /\ agenda # <<>> /\ agenda[1] = Call("assign others", <<x, i>>)
        /\ UNCHANGED <<varState, enabled, env, solverState, raised, focus>>
        /\ \/ NoneLeft(x, i, Others(x)) /\ Pending' = Behind
           \/ \E j \in Nat :
                /\ Visits(x, i, Others(x), j)
                /\ Pending' = {Call("begin_assign", <<x, solvers_w[x][j]>>), Call("solve", solvers_w[x][j]),
                               Call("assign others", <<x, j + 1>>)} \cup Behind
  BY AssignOthersLeaves, Zenon
<1>2. CoversStay /\ ValuesStay
  <2>1. agenda[1].fn = "assign others"
    BY <1>1, CallIs, Zenon
  <2>2. ~Solve
    BY <2>1 DEF Solve, Running
  <2>. QED
    BY <2>2, StepAnswers DEF Step
<1>3. \A s \in Solvers : Agrees(s)
  BY <1>1, ToldNothing DEF solverState
<1>4. ASSUME NEW s \in Solvers, Covers(agenda[1], s)
      PROVE  Covered(s)'
  <2>1. Covers(Call("assign others", <<x, i>>), s)
    BY <1>1, <1>4
  <2>2. PICK j \in Nat :
          /\ Visits(x, i, Others(x), j)
          /\ Pending' = {Call("begin_assign", <<x, solvers_w[x][j]>>), Call("solve", solvers_w[x][j]),
                         Call("assign others", <<x, j + 1>>)} \cup Behind
    BY <1>1, <1>2, <2>1, OthersPass
  <2>3. PICK call \in {Call("begin_assign", <<x, solvers_w[x][j]>>),
                       Call("solve", solvers_w[x][j]),
                       Call("assign others", <<x, j + 1>>)} : Covers(call, s)'
    BY <1>2, <2>1, <2>2, OthersPass
  <2>. QED
    BY <2>2, <2>3 DEF Covered
<1>5. Behind \subseteq Pending'
  BY VariableCallsAdd DEF Adds
<1>. QED
  BY <1>1, <1>2, <1>3, <1>4, <1>5, ModelGoesOn

(* A call that runs no solver, and tells only solvers that are going to be  *)
(* run something they do not answer already.                               *)
LEMMA ModelTells ==
  ASSUME Inv, ModelInv, Step, agenda # <<>>,
         agenda[1].fn \notin {"solve", "__assign__", "assign others"},
         Behind \subseteq Pending', UNCHANGED raised,
         \A s \in Solvers : Agrees(s) \/ Covered(s)'
  PROVE  ModelInv'
<1>1. ~Solve
  BY DEF Solve, Running
<1>2. CoversStay /\ ValuesStay
  BY <1>1, StepAnswers
<1>3. \A s \in Solvers : ~Covers(agenda[1], s)
  BY CoversFew
<1>. QED
  BY <1>2, <1>3, ModelGoesOn

(* A value is offered to a solver that the next call runs.                 *)
LEMMA ModelOffers ==
  ASSUME Inv, OfferInv, ModelInv, BeginAssign
  PROVE  ModelInv'
<1>1. PICK x \in Vars, s \in Solvers :
        /\ agenda # <<>> /\ agenda[1] = Call("begin_assign", <<x, s>>)
        /\ Propose(x, s, stored[x])
        /\ agenda' = Tail(agenda)
        /\ UNCHANGED <<varState, enabled, env, asserted, pin, model, w_value, raised, focus>>
  BY BeginAssignDoes, Zenon
<1>2. Pending' = Behind
  BY <1>1, PendingFew
<1>3. agenda[1].fn = "begin_assign" /\ Arg[2] = s
  <2>1. agenda[1].fn = "begin_assign"
    BY <1>1, CallIs, Zenon
  <2>2. agenda[1].arg = <<x, s>>
    <3>1. Call("begin_assign", <<x, s>>).arg = <<x, s>>
      BY CallIs, Zenon
    <3>. QED
      BY <1>1, <3>1
  <2>. QED
    BY <2>1, <2>2 DEF Arg
<1>4. Call("solve", s) \in Behind
  <2>1. 2 \in DOMAIN agenda /\ agenda[2] = Call("solve", s)
    BY <1>1, <1>3 DEF OfferInv, OfferIsSolved, Running
  <2>. QED
    BY <2>1 DEF Behind
<1>5. Covered(s)'
  <2>1. Covers(Call("solve", s), s)'
    BY DEF Covers
  <2>. QED
    BY <1>2, <1>4, <2>1, Zenon DEF Covered
<1>6. ASSUME NEW t \in Solvers, t # s
      PROVE  Agrees(t)
  <2>1. /\ \A y \in Vars : proposal'[y][t] = proposal[y][t]
        /\ \A y \in Vars, w \in Values : <<y, t, w>> \in leaked' => <<y, t, w>> \in leaked
    BY <1>1, <1>6, ProposesOne
  <2>. QED
    BY <1>1, <2>1, ToldLess
<1>. QED
  BY <1>1, <1>2, <1>3, <1>5, <1>6, ModelTells DEF Step

(* A solver that was run answers what it has been told.                    *)
LEMMA SolvedIs ==
  ASSUME Inv, NEW s \in Solvers, NEW m \in Models(s), model' = [model EXCEPT ![s] = m],
         UNCHANGED <<asserted, proposal, leaked, pin>>
  PROVE  Satisfied(s)'
<1>1. m \in [Mentioned(s) -> Values] /\ IsModel(s, m)
  BY DEF Models
<1>2. model'[s] = m
  BY DEF Inv, TypeOK
<1>3. \A x \in Mentioned(s) : x \in Vars /\ Answers(s)'[x] = m[x]
  <2>1. ASSUME NEW x \in Mentioned(s)
        PROVE  ValueOf(x, s)' = m[x]
    BY <1>1, <1>2 DEF ValueOf
  <2>2. Mentioned(s) \subseteq Vars
    BY DEF Mentioned
  <2>. QED
    BY <2>1, <2>2 DEF Answers
<1>4. ASSUME NEW xv \in Equalities(s)'
      PROVE  Answers(s)'[xv[1]] = xv[2]
  <2>1. xv \in Equalities(s)
    BY DEF Equalities
  <2>2. xv[1] \in Mentioned(s)
    <3>1. xv[1] \in Vars /\ xv[2] \in Values /\ xv = <<xv[1], xv[2]>>
      BY <2>1 DEF Equalities
    <3>. QED
      BY <2>1, <3>1, Zenon DEF Mentioned
  <2>3. m[xv[1]] = xv[2]
    BY <1>1, <2>1 DEF IsModel
  <2>. QED
    BY <1>3, <2>2, <2>3
<1>5. ASSUME NEW ce \in Asserted(s)'
      PROVE  Satisfies(ce[1], ce[2], Answers(s)')
  <2>1. ce \in Asserted(s)
    BY DEF Asserted
  <2>2. Satisfies(ce[1], ce[2], m)
    BY <1>1, <2>1 DEF IsModel
  <2>3. \A x \in Symbols(ce[1], ce[2]) \cap Vars : m[x] = Answers(s)'[x]
    BY <1>3, <2>1 DEF Mentioned
  <2>. QED
    BY <2>2, <2>3, SatisfiesSame
<1>. QED
  BY <1>4, <1>5 DEF Satisfied, IsModel

LEMMA ModelSolves ==
  ASSUME Inv, ModelInv, Solve
  PROVE  ModelInv'
<1>1. PICK s \in Solvers :
        /\ agenda # <<>> /\ agenda[1] = Call("solve", s)
        /\ \/ /\ \E m \in Models(s) : model' = [model EXCEPT ![s] = m]
              /\ agenda' = Tail(agenda) /\ UNCHANGED raised
           \/ raised' = TRUE
        /\ UNCHANGED <<varState, enabled, env, asserted, proposal, leaked, pin, w_value>>
  BY SolveDoes, Zenon
<1>2. CASE raised' = TRUE
  BY <1>2, ModelRaise
<1>3. ASSUME NEW m \in Models(s), model' = [model EXCEPT ![s] = m], agenda' = Tail(agenda),
             UNCHANGED raised
      PROVE  ModelInv'
  <2>1. Pending = {agenda[1]} \cup Behind /\ Pending' = Behind /\ Pending \subseteq Calls
    BY <1>1, <1>3, PendingNow, PendingFew
  <2>2. Satisfied(s)'
    BY <1>1, <1>3, SolvedIs
  <2>3. CoversStay
    BY StepAnswers DEF Step
  <2>4. ASSUME ~raised, NEW t \in Solvers, t # s
        PROVE  Satisfied(t)' \/ Covered(t)'
    <3>1. CASE Satisfied(t)
      <4>1. model'[t] = model[t]
        BY <1>3, <2>4 DEF Inv, TypeOK
      <4>2. Answers(t)' = Answers(t)
        BY <1>1, <4>1 DEF Answers, ValueOf
      <4>3. Asserted(t)' = Asserted(t) /\ Equalities(t)' = Equalities(t)
        BY <1>1 DEF Asserted, Equalities
      <4>. QED
        BY <3>1, <4>2, <4>3 DEF Satisfied, IsModel
    <3>2. CASE Covered(t)
      <4>1. PICK call \in Pending : Covers(call, t)
        BY <3>2 DEF Covered
      <4>2. call # agenda[1]
        BY <1>1, <2>4, <4>1, CoversOf, Zenon
      <4>3. call \in Pending' /\ Covers(call, t)'
        BY <2>1, <2>3, <4>1, <4>2 DEF CoversStay
      <4>. QED
        BY <4>3 DEF Covered
    <3>. QED
      BY <2>4, <3>1, <3>2 DEF ModelInv
  <2>. QED
    BY <1>3, <2>2, <2>4 DEF ModelInv
<1>. QED
  BY <1>1, <1>2, <1>3

LEMMA ModelEnds ==
  ASSUME Inv, ModelInv, EndAssign
  PROVE  ModelInv'
<1>1. PICK x \in Vars, s \in Solvers :
        /\ agenda # <<>> /\ agenda[1] = Call("end_assign", <<x, s>>)
        /\ proposal' = [proposal EXCEPT ![x][s] = NoValue]
        /\ (agenda' = Tail(agenda) /\ UNCHANGED raised) \/ raised' = TRUE
        /\ UNCHANGED <<asserted, leaked, pin>>
  BY EndAssignDoes, Zenon
<1>2. CASE raised' = TRUE
  BY <1>2, ModelRaise
<1>3. CASE agenda' = Tail(agenda) /\ UNCHANGED raised
  <2>1. Pending' = Behind
    BY <1>1, <1>3, PendingFew
  <2>2. agenda[1].fn = "end_assign"
    BY <1>1, CallIs, Zenon
  <2>3. \A y \in Vars, t \in Solvers : proposal'[y][t] \in {NoValue, proposal[y][t]}
    BY <1>1 DEF Inv, TypeOK
  <2>4. \A t \in Solvers : Agrees(t)
    BY <1>1, <2>3, ToldLess
  <2>. QED
    BY <1>1, <1>3, <2>1, <2>2, <2>4, ModelTells DEF Step
<1>. QED
  BY <1>1, <1>2, <1>3

LEMMA ModelGets ==
  ASSUME Inv, ModelInv, GetI
  PROVE  ModelInv'
<1>1. PICK x \in Vars :
        /\ agenda # <<>> /\ agenda[1] = Call("get_i", x)
        /\ UNCHANGED <<asserted, proposal, leaked, raised>>
        /\ pin' = MakeAssignable(x) \/ UNCHANGED pin
  BY GetILeaves, Zenon
<1>2. \A s \in Solvers : Agrees(s)
  BY <1>1, MadeAssignable, ToldNothing
<1>3. agenda[1].fn = "get_i"
  BY <1>1, CallIs, Zenon
<1>4. Behind \subseteq Pending'
  BY VariableCallsAdd DEF Adds
<1>. QED
  BY <1>1, <1>2, <1>3, <1>4, ModelTells DEF Step

(* A variable is pinned at what the solver answers for it.                 *)
LEMMA ModelPins ==
  ASSUME Inv, ModelInv, MakeNotAssignable
  PROVE  ModelInv'
<1>1. PICK x \in Vars :
        /\ agenda # <<>> /\ agenda[1] = Call("make_not_assignable", x)
        /\ LET lock == {s \in readonly[x] : pin[x][s] = NoValue} IN
             /\ pin' = [pin EXCEPT ![x] =
                  [s \in Solvers |-> IF s \in lock THEN ValueOf(x, s) ELSE pin[x][s]]]
             /\ w_value' = [w_value EXCEPT ![x] =
                  [s \in Solvers |-> IF s \in lock THEN ValueOf(x, s) ELSE w_value[x][s]]]
        /\ UNCHANGED <<varState, asserted, proposal, leaked, model, raised>>
  BY MakeNotAssignableLeaves, Zenon
<1>2. /\ pin \in [Vars -> [Solvers -> Values \cup {NoValue}]]
      /\ w_value \in [Vars -> [Solvers -> Values \cup {NoValue}]]
  BY DEF Inv, TypeOK
<1>3. ASSUME NEW y \in Vars, NEW s \in Solvers
      PROVE  pin'[y][s] \in {pin[y][s], ValueOf(y, s)'}
  <2>1. \/ pin'[y][s] = pin[y][s]
        \/ pin'[y][s] = ValueOf(y, s) /\ w_value'[y][s] = ValueOf(y, s)
    BY <1>1, <1>2
  <2>. QED
    BY <1>1, <2>1 DEF ValueOf
<1>4. \A s \in Solvers : Agrees(s)
  BY <1>1, <1>3, ToldLess
<1>5. agenda[1].fn = "make_not_assignable"
  BY <1>1, CallIs, Zenon
<1>6. Behind \subseteq Pending'
  BY VariableCallsAdd DEF Adds
<1>. QED
  BY <1>1, <1>4, <1>5, <1>6, ModelTells DEF Step

LEMMA ModelLoops ==
  ASSUME Inv, ModelInv,
         UpdateDownstreamVariables \/ EndAssignVariable \/ RecalculatePath \/ SetEnabled
  PROVE  ModelInv'
<1>1. /\ agenda # <<>> /\ UNCHANGED solverState
      /\ agenda[1].fn \in {"update_downstream_variables", "__end_assign__", "recalculate_path",
                           "set_enabled"}
  BY DEF UpdateDownstreamVariables, EndAssignVariable, RecalculatePath, SetEnabled, Running
<1>2. Behind \subseteq Pending' /\ UNCHANGED raised
  <2>1. CASE SetEnabled
    BY <2>1, SetEnabledDoes, PendingFew
  <2>2. CASE UpdateDownstreamVariables \/ EndAssignVariable \/ RecalculatePath
    BY <2>2, VariableCallsAdd DEF Adds
  <2>. QED
    BY <2>1, <2>2
<1>3. \A s \in Solvers : Agrees(s)
  BY <1>1, ToldNothing DEF solverState
<1>. QED
  BY <1>1, <1>2, <1>3, ModelTells DEF Step

(* A block that is run again is retracted before; nothing is added to a     *)
(* solver until it is enabled.                                             *)
LEMMA RunTellsLess ==
  ASSUME Inv, NEW c \in Cons, RunPredicate(c), UNCHANGED <<stored, proposal, leaked, model>>,
         \A d \in Cons : \A e \in Envs(d) : asserted'[d][e] > 0 => asserted[d][e] > 0
  PROVE  \A s \in Solvers : Agrees(s)
<1>1. \A x \in Vars, t \in Solvers : pin'[x][t] \in {pin[x][t], ValueOf(x, t)'}
  BY RunMeets, MeetAnswers
<1>. QED
  BY <1>1, ToldLess

LEMMA ModelRecalculates ==
  ASSUME Inv, ModelInv, Recalculate
  PROVE  ModelInv'
<1>1. PICK c \in Cons :
        /\ agenda # <<>> /\ agenda[1] = Call("recalculate", c)
        /\ \/ /\ enabled[c] /\ Retract(c) /\ RunPredicate(c)
              /\ Pending' = {Call("enable", c)} \cup Behind
           \/ /\ Pending' = Behind
              /\ UNCHANGED <<asserted, pin>>
        /\ UNCHANGED <<stored, proposal, leaked, model, raised, focus>>
  BY RecalculateLeaves, Zenon
<1>2. ASSUME NEW s \in Solvers
      PROVE  Agrees(s)
  <2>1. CASE UNCHANGED <<asserted, pin>>
    BY <1>1, <2>1, ToldNothing
  <2>2. CASE enabled[c] /\ Retract(c) /\ RunPredicate(c)
    <3>1. env[c] # NoEnv
      BY <2>2 DEF Inv, RunBlocks
    <3>2. \A d \in Cons : \A e \in Envs(d) : asserted'[d][e] > 0 => asserted[d][e] > 0
      BY <2>2, <3>1, RetractKeeps DEF Inv
    <3>. QED
      BY <1>1, <2>2, <3>2, RunTellsLess
  <2>. QED
    BY <1>1, <2>1, <2>2
<1>3. agenda[1].fn = "recalculate"
  BY <1>1, CallIs, Zenon
<1>4. Behind \subseteq Pending'
  BY <1>1
<1>. QED
  BY <1>1, <1>2, <1>3, <1>4, ModelTells DEF Step

LEMMA ModelEnables ==
  ASSUME Inv, ModelInv, EnableConstraint
  PROVE  ModelInv'
<1>1. PICK c \in Cons :
        /\ agenda # <<>> /\ agenda[1] = Call("enable", c)
        /\ \/ Pending' = Behind /\ UNCHANGED <<asserted, raised>>
           \/ /\ Pending' = {Call("set_enabled", c)} \cup Behind
              /\ UNCHANGED <<asserted, raised>>
           \/ raised' = TRUE
           \/ /\ asserted' = [asserted EXCEPT ![c][env[c]] = @ + 1]
              /\ Pending' = {Call("solve", SolverOf[c]), Call("set_enabled", c)} \cup Behind
              /\ UNCHANGED raised
        /\ env[c] # NoEnv
        /\ UNCHANGED <<proposal, leaked, pin>>
  BY EnableConstraintLeaves, Zenon
<1>2. agenda[1].fn = "enable"
  BY <1>1, CallIs, Zenon
<1>3. CASE raised' = TRUE
  BY <1>3, ModelRaise
<1>4. CASE Behind \subseteq Pending' /\ UNCHANGED <<asserted, raised>>
  <2>1. \A s \in Solvers : Agrees(s)
    BY <1>1, <1>4, ToldNothing
  <2>. QED
    BY <1>1, <1>2, <1>4, <2>1, ModelTells DEF Step
<1>5. CASE /\ asserted' = [asserted EXCEPT ![c][env[c]] = @ + 1]
           /\ Pending' = {Call("solve", SolverOf[c]), Call("set_enabled", c)} \cup Behind
           /\ UNCHANGED raised
  <2>1. Covered(SolverOf[c])'
    <3>1. Covers(Call("solve", SolverOf[c]), SolverOf[c])'
      BY DEF Covers
    <3>2. Call("solve", SolverOf[c]) \in Pending'
      BY <1>5
    <3>. QED
      BY <3>1, <3>2, Zenon DEF Covered
  <2>2. ASSUME NEW s \in Solvers, s # SolverOf[c]
        PROVE  Agrees(s)
    <3>1. \A d \in Cons : \A e \in Envs(d) :
            SolverOf[d] = s /\ asserted'[d][e] > 0 => asserted[d][e] > 0
      BY <1>5, <2>2 DEF Inv, TypeOK
    <3>. QED
      BY <1>1, <3>1, ToldLess
  <2>3. Behind \subseteq Pending'
    BY <1>5
  <2>. QED
    BY <1>1, <1>2, <1>5, <2>1, <2>2, <2>3, ModelTells DEF Step
<1>. QED
  BY <1>1, <1>3, <1>4, <1>5

(* What the program starts changes nothing a solver was told but by taking  *)
(* a block away.                                                           *)
LEMMA ModelProgram ==
  ASSUME Inv, ModelInv, UserStep
  PROVE  ModelInv'
<1>. USE DEF varState, solverState
<1>1. agenda = <<>>
  BY ProgramIdle
<1>2. ~raised => \A s \in Solvers : Satisfied(s)
  <2>1. Pending = {}
    BY <1>1 DEF Pending, CallsIn
  <2>. QED
    BY <2>1 DEF ModelInv, Covered
<1>3. ASSUME UNCHANGED raised, ValuesStay, \A s \in Solvers : Agrees(s)
      PROVE  ModelInv'
  BY <1>1, <1>2, <1>3, SatisfiedStays DEF ModelInv
<1>4. ASSUME NEW c \in Cons, Always(c)
      PROVE  ModelInv'
  <2>1. RunPredicate(c) /\ UNCHANGED <<stored, asserted, proposal, leaked, model, raised>>
    BY <1>4 DEF Always
  <2>. QED
    BY <1>3, <2>1, RunMeets, MeetAnswers, RunTellsLess
<1>5. ASSUME NEW c \in Cons, Disable(c) \/ SetStrength(c)
      PROVE  ModelInv'
  <2>1. /\ Retract(c) /\ enabled[c]
        /\ UNCHANGED <<external, proposal, leaked, pin, model, w_value, raised>>
    BY <1>5 DEF Disable, SetStrength
  <2>2. env[c] # NoEnv
    BY <2>1 DEF Inv, RunBlocks
  <2>3. \A d \in Cons : \A e \in Envs(d) : asserted'[d][e] > 0 => asserted[d][e] > 0
    BY <2>1, <2>2, RetractKeeps DEF Inv
  <2>4. \A s \in Solvers : Agrees(s)
    BY <2>1, <2>3, ToldLess
  <2>. QED
    BY <1>3, <2>1, <2>4, AnswersStay
<1>6. ASSUME UNCHANGED <<external, solverState, raised>>
      PROVE  ModelInv'
  BY <1>3, <1>6, AnswersStay, ToldNothing
<1>7. ASSUME NEW c \in Cons, Enable(c)
      PROVE  ModelInv'
  BY <1>6, <1>7 DEF Enable
<1>8. ASSUME NEW x \in Vars, Read(x)
      PROVE  ModelInv'
  BY <1>6, <1>8 DEF Read
<1>9. ASSUME NEW x \in Vars, NEW v \in Values, Assign(x, v)
      PROVE  ModelInv'
  BY <1>6, <1>9 DEF Assign
<1>10. ASSUME NEW x \in Vars, NEW y \in Vars, NEW v \in Values, NEW w \in Values,
              MultiAssign(x, v, y, w)
       PROVE  ModelInv'
  BY <1>6, <1>10 DEF MultiAssign
<1>11. ASSUME NEW c \in Cons, AlwaysRaises(c)
       PROVE  ModelInv'
  BY <1>11, ModelRaise DEF AlwaysRaises
<1>. QED
  BY <1>4, <1>5, <1>7, <1>8, <1>9, <1>10, <1>11 DEF UserStep

-----------------------------------------------------------------------------
LEMMA InitModel == Init => OfferInv /\ ModelInv
<1>. SUFFICES ASSUME Init PROVE OfferInv /\ ModelInv
  OBVIOUS
<1>1. OfferInv
  BY DEF Init, OfferInv, OffersRunFirst, OfferIsSolved, Behind, Running
<1>2. ASSUME NEW s \in Solvers
      PROVE  Satisfied(s)
  <2>1. Equalities(s) = {}
    BY ConstantsAssumption DEF Init, Equalities
  <2>2. Asserted(s) = {}
    <3>. SUFFICES ASSUME NEW ce \in Asserted(s) PROVE FALSE
      OBVIOUS
    <3>. QED
      BY AssertedIs DEF Init
  <2>. QED
    BY <2>1, <2>2 DEF Satisfied, IsModel
<1>. QED
  BY <1>1, <1>2 DEF ModelInv

LEMMA NextModel ==
  Inv /\ BeginInv /\ OfferInv /\ ModelInv /\ [Next]_vars => (OfferInv /\ ModelInv)'
<1>. SUFFICES ASSUME Inv, BeginInv, OfferInv, ModelInv, [Next]_vars
              PROVE  (OfferInv /\ ModelInv)'
  OBVIOUS
<1>1. CASE Step
  <2>1. ModelInv'
    <3>1. CASE RecalculateRaises
      BY <3>1, RecalculateRaisesDoes, ModelRaise
    <3>. QED
      BY <1>1, <3>1, ModelBegins, ModelAssigns, ModelOthers, ModelGets, ModelLoops, ModelPins,
         ModelOffers, ModelSolves, ModelEnds, ModelRecalculates, ModelEnables, Zenon DEF Step
  <2>. QED
    BY <1>1, <2>1, OfferStep
<1>2. CASE UserStep
  BY <1>2, OfferProgram, ModelProgram
<1>3. CASE UNCHANGED vars
  <2>. USE <1>3 DEF vars, varState, solverState
  <2>1. OfferInv'
    BY DEF OfferInv, OffersRunFirst, OfferIsSolved, Behind, Running, Arg
  <2>2. ValuesStay /\ CoversStay /\ \A s \in Solvers : Agrees(s)
    BY AnswersStay, CoversFrame, ToldNothing
  <2>3. Pending' = Pending /\ Pending \subseteq Calls
    BY DEF Pending, CallsIn, Inv, TypeOK
  <2>4. ASSUME NEW s \in Solvers, Covered(s)
        PROVE  Covered(s)'
    BY <2>2, <2>3, <2>4 DEF Covered, CoversStay
  <2>5. ModelInv'
    BY <2>2, <2>4, SatisfiedStays DEF ModelInv
  <2>. QED
    BY <2>1, <2>5
<1>. QED
  BY <1>1, <1>2, <1>3, Zenon DEF Next

(* Nothing is left unanswered for: until an error, what a solver answers    *)
(* satisfies all it was told, or one of the pending calls runs it.         *)
THEOREM ModelInvHolds == Spec => [](OfferInv /\ ModelInv)
  BY InitModel, NextModel, ReaderInvHolds, InvHolds, PTL DEF Spec

(* Whenever the program runs after calls that did not raise, the values a   *)
(* solver answers satisfy every primitive, pin and proposal it holds: each  *)
(* change the protocol makes to a solver is followed by a run of it         *)
(* (constraintinterpreter.py:171-211, 434-478, z3object.py, libz3.rb).      *)
THEOREM ModelsSatisfy == Spec => []ModelSatisfies
<1>1. ModelInv => ModelSatisfies
  BY DEF ModelInv, ModelSatisfies, Satisfied, Answers, Covered, Quiet, Idle, Pending, CallsIn
<1>. QED
  BY <1>1, ModelInvHolds, PTL
-----------------------------------------------------------------------------
(* A value is withdrawn only after the solver has been run: of the calls    *)
(* that are pending, whatever withdraws a proposal the solver has not       *)
(* adopted comes after one that runs it.                                   *)
EndsOf(x, s) == {Call("end_assign", <<x, s>>)} \cup {Call("__end_assign__", <<x, k>>) : k \in Nat}
EndCalls(x)  ==
  {Call("end_assign", <<x, s>>) : s \in Solvers} \cup {Call("__end_assign__", <<x, k>>) : k \in Nat}
Preceded(q, E, C) ==
  \A i \in DOMAIN q : q[i] \in E => \E j \in DOMAIN q : j < i /\ q[j] \in C
EndsFollow(x)   == Preceded(agenda, EndCalls(x), {Call("__assign__", x)})
Runs(s)         == {call \in Calls : Covers(call, s)}
EndsAfter(x, s) == Preceded(agenda, EndsOf(x, s), Runs(s))
WinsInv ==
  /\ \A x \in Vars, v \in Values :
       Call("__begin_assign__", <<x, v>>) \in Pending => EndsFollow(x)
  /\ \A x \in Vars, s \in Solvers :
       \/ proposal[x][s] = NoValue
       \/ ValueOf(x, s) = proposal[x][s]
       \/ EndsAfter(x, s)

LEMMA EndsAre ==
  /\ \A x, s : \A call \in EndsOf(x, s) : call.fn \in {"end_assign", "__end_assign__"}
  /\ \A x : \A call \in EndCalls(x) : call.fn \in {"end_assign", "__end_assign__"}
  /\ \A x, s : s \in Solvers => EndsOf(x, s) \subseteq EndCalls(x)
  /\ \A x, y, s, t : Call("end_assign", <<y, t>>) \in EndsOf(x, s) => y = x /\ t = s
  /\ \A x, y, k, s : Call("__end_assign__", <<y, k>>) \in EndsOf(x, s) => y = x
  /\ \A x, y, k : Call("__end_assign__", <<y, k>>) \in EndCalls(x) => y = x
<1>1. \A x, s : \A call \in EndsOf(x, s) : call.fn \in {"end_assign", "__end_assign__"}
  BY CallIs DEF EndsOf
<1>2. \A x : \A call \in EndCalls(x) : call.fn \in {"end_assign", "__end_assign__"}
  BY CallIs DEF EndCalls
<1>3. \A x, s : s \in Solvers => EndsOf(x, s) \subseteq EndCalls(x)
  BY DEF EndsOf, EndCalls
<1>4. ASSUME NEW x, NEW y, NEW s, NEW t, Call("end_assign", <<y, t>>) \in EndsOf(x, s)
      PROVE  y = x /\ t = s
  <2>1. \A k : Call("end_assign", <<y, t>>) # Call("__end_assign__", <<x, k>>)
    BY CallsEqual
  <2>2. Call("end_assign", <<y, t>>) = Call("end_assign", <<x, s>>)
    BY <1>4, <2>1 DEF EndsOf
  <2>3. <<y, t>> = <<x, s>>
    BY <2>2, CallsEqual, Zenon
  <2>. QED
    BY <2>3
<1>5. ASSUME NEW x, NEW y, NEW k, Call("__end_assign__", <<y, k>>) \in EndCalls(x)
      PROVE  y = x
  <2>1. \A s : Call("__end_assign__", <<y, k>>) # Call("end_assign", <<x, s>>)
    BY CallsEqual
  <2>2. PICK i \in Nat : Call("__end_assign__", <<y, k>>) = Call("__end_assign__", <<x, i>>)
    BY <1>5, <2>1 DEF EndCalls
  <2>3. <<y, k>> = <<x, i>>
    BY <2>2, CallsEqual, Zenon
  <2>. QED
    BY <2>3
<1>6. ASSUME NEW x, NEW y, NEW k, NEW s, Call("__end_assign__", <<y, k>>) \in EndsOf(x, s)
      PROVE  y = x
  <2>1. Call("__end_assign__", <<y, k>>) # Call("end_assign", <<x, s>>)
    BY CallsEqual
  <2>2. PICK i \in Nat : Call("__end_assign__", <<y, k>>) = Call("__end_assign__", <<x, i>>)
    BY <1>6, <2>1 DEF EndsOf
  <2>3. <<y, k>> = <<x, i>>
    BY <2>2, CallsEqual, Zenon
  <2>. QED
    BY <2>3
<1>. QED
  BY <1>1, <1>2, <1>3, <1>4, <1>5, <1>6

LEMMA PrecededJoin ==
  ASSUME NEW p \in Seq(Calls), NEW q \in Seq(Calls), NEW E, NEW C, Preceded(p, E, C),
         Preceded(q, E, C) \/ \E i \in DOMAIN p : p[i] \in C
  PROVE  p \o q \in Seq(Calls) /\ Preceded(p \o q, E, C)
<1>. DEFINE r == p \o q
<1>1. /\ r \in Seq(Calls) /\ Len(p) \in Nat /\ Len(q) \in Nat
      /\ DOMAIN p = 1..Len(p) /\ DOMAIN q = 1..Len(q)
      /\ DOMAIN r = 1..(Len(p) + Len(q))
      /\ \A i \in 1..(Len(p) + Len(q)) :
           r[i] = IF i <= Len(p) THEN p[i] ELSE q[i - Len(p)]
  OBVIOUS
<1>. HIDE DEF r
<1>2. ASSUME NEW i \in DOMAIN r, r[i] \in E
      PROVE  \E j \in DOMAIN r : j < i /\ r[j] \in C
  <2>1. CASE i <= Len(p)
    <3>1. PICK j \in DOMAIN p : j < i /\ p[j] \in C
      BY <1>1, <1>2, <2>1 DEF Preceded
    <3>. QED
      BY <1>1, <3>1
  <2>2. CASE i > Len(p)
    <3>1. CASE \E j \in DOMAIN p : p[j] \in C
      BY <1>1, <2>2, <3>1
    <3>2. CASE Preceded(q, E, C)
      <4>1. i - Len(p) \in DOMAIN q /\ q[i - Len(p)] \in E
        BY <1>1, <1>2, <2>2
      <4>2. PICK j \in DOMAIN q : j < i - Len(p) /\ q[j] \in C
        BY <3>2, <4>1 DEF Preceded
      <4>3. j + Len(p) \in DOMAIN r /\ j + Len(p) < i /\ r[j + Len(p)] = q[j]
        BY <1>1, <1>2, <4>2
      <4>. QED
        BY <4>2, <4>3
    <3>. QED
      BY <3>1, <3>2
  <2>. QED
    BY <1>1, <2>1, <2>2
<1>. QED
  BY <1>1, <1>2 DEF Preceded, r

LEMMA PrecededRest ==
  ASSUME NEW q \in Seq(Calls), q # <<>>, NEW E, NEW C, Preceded(q, E, C), q[1] \notin C
  PROVE  Preceded(Tail(q), E, C)
<1>. DEFINE r == Tail(q)
<1>1. /\ Len(q) \in Nat \ {0} /\ DOMAIN q = 1..Len(q) /\ DOMAIN r = 1..(Len(q) - 1)
      /\ \A i \in 1..(Len(q) - 1) : r[i] = q[i + 1]
  OBVIOUS
<1>. HIDE DEF r
<1>2. ASSUME NEW i \in DOMAIN r, r[i] \in E
      PROVE  \E j \in DOMAIN r : j < i /\ r[j] \in C
  <2>1. i + 1 \in DOMAIN q /\ q[i + 1] \in E
    BY <1>1, <1>2
  <2>2. PICK j \in DOMAIN q : j < i + 1 /\ q[j] \in C
    BY <2>1 DEF Preceded
  <2>3. j - 1 \in DOMAIN r /\ j - 1 < i /\ r[j - 1] = q[j]
    BY <1>1, <1>2, <2>2
  <2>. QED
    BY <2>2, <2>3
<1>. QED
  BY <1>2 DEF Preceded, r

LEMMA PrecededByFirst ==
  ASSUME NEW q \in Seq(Calls), NEW E, NEW C, q # <<>>, q[1] \in C, q[1] \notin E
  PROVE  Preceded(q, E, C)
  BY DEF Preceded

LEMMA PrecededMore ==
  ASSUME NEW q, NEW E, NEW C, Preceded(q, E, C), NEW D, NEW F, F \subseteq E,
         \A i \in DOMAIN q : q[i] \in C => q[i] \in D
  PROVE  Preceded(q, F, D)
  BY DEF Preceded

(* What a step puts in front of the other calls.                           *)
Puts(K) == \E p \in Seq(Calls) : agenda' = p \o Tail(agenda) /\ CallsIn(p) = K
WinsOn(x, s) ==
  \E p \in Seq(Calls) :
    /\ agenda' = p \o Tail(agenda)
    /\ Preceded(p, EndsOf(x, s), Runs(s)')
    /\ Covers(agenda[1], s) => \E i \in DOMAIN p : p[i] \in Runs(s)'

LEMMA PutsFew ==
  ASSUME Inv, agenda # <<>>
  PROVE  /\ agenda' = Tail(agenda) => Puts({})
         /\ \A a \in Calls : agenda' = <<a>> \o Tail(agenda) => Puts({a})
         /\ \A a, b \in Calls : agenda' = <<a, b>> \o Tail(agenda) => Puts({a, b})
         /\ \A a, b, d \in Calls : agenda' = <<a, b, d>> \o Tail(agenda) => Puts({a, b, d})
<1>1. ASSUME agenda' = Tail(agenda)
      PROVE  Puts({})
  <2>1. agenda' = <<>> \o Tail(agenda)
    BY <1>1, NothingMore
  <2>2. <<>> \in Seq(Calls) /\ CallsIn(<<>>) = {}
    BY ShortSeqs, ShortCalls
  <2>. QED
    BY <2>1, <2>2, Zenon DEF Puts
<1>2. ASSUME NEW a \in Calls, agenda' = <<a>> \o Tail(agenda)
      PROVE  Puts({a})
  <2>1. <<a>> \in Seq(Calls) /\ CallsIn(<<a>>) = {a}
    BY ShortSeqs, ShortCalls
  <2>. QED
    BY <1>2, <2>1, Zenon DEF Puts
<1>3. ASSUME NEW a \in Calls, NEW b \in Calls, agenda' = <<a, b>> \o Tail(agenda)
      PROVE  Puts({a, b})
  <2>1. <<a, b>> \in Seq(Calls) /\ CallsIn(<<a, b>>) = {a, b}
    BY ShortSeqs, ShortCalls
  <2>. QED
    BY <1>3, <2>1, Zenon DEF Puts
<1>4. ASSUME NEW a \in Calls, NEW b \in Calls, NEW d \in Calls,
             agenda' = <<a, b, d>> \o Tail(agenda)
      PROVE  Puts({a, b, d})
  <2>1. <<a, b, d>> \in Seq(Calls) /\ CallsIn(<<a, b, d>>) = {a, b, d}
    BY ShortSeqs, ShortCalls
  <2>. QED
    BY <1>4, <2>1, Zenon DEF Puts
<1>. QED
  BY <1>1, <1>2, <1>3, <1>4

LEMMA WinsPuts ==
  ASSUME NEW x, NEW s, NEW K \in SUBSET Calls, Puts(K),
         \A call \in K : call.fn \notin {"end_assign", "__end_assign__"},
         Covers(agenda[1], s) => \E call \in K : Covers(call, s)'
  PROVE  WinsOn(x, s)
<1>1. PICK p \in Seq(Calls) : agenda' = p \o Tail(agenda) /\ CallsIn(p) = K
  BY DEF Puts
<1>2. \A i \in DOMAIN p : p[i] \in K
  BY <1>1 DEF CallsIn
<1>3. Preceded(p, EndsOf(x, s), Runs(s)')
  BY <1>2, EndsAre DEF Preceded
<1>4. ASSUME Covers(agenda[1], s)
      PROVE  \E i \in DOMAIN p : p[i] \in Runs(s)'
  <2>1. PICK call \in K : Covers(call, s)'
    BY <1>4
  <2>2. PICK i \in DOMAIN p : p[i] = call
    BY <1>1 DEF CallsIn
  <2>. QED
    BY <2>1, <2>2 DEF Runs
<1>. QED
  BY <1>1, <1>3, <1>4, Zenon DEF WinsOn

LEMMA WinsQuiet ==
  ASSUME NEW x, NEW s, NEW K \in SUBSET Calls, Puts(K),
         \A call \in K : call.fn \notin {"end_assign", "__end_assign__"},
         agenda[1].fn \notin {"solve", "__assign__", "assign others"}
  PROVE  WinsOn(x, s)
  BY CoversFew, WinsPuts

LEMMA WinsGoesOn ==
  ASSUME Inv, agenda # <<>>, CoversStay, NEW x \in Vars, NEW s \in Solvers, WinsOn(x, s),
         EndsAfter(x, s)
  PROVE  EndsAfter(x, s)'
<1>1. PICK p \in Seq(Calls) :
        /\ agenda' = p \o Tail(agenda)
        /\ Preceded(p, EndsOf(x, s), Runs(s)')
        /\ Covers(agenda[1], s) => \E i \in DOMAIN p : p[i] \in Runs(s)'
  BY DEF WinsOn
<1>2. agenda \in Seq(Calls) /\ Tail(agenda) \in Seq(Calls) /\ agenda[1] \in Calls
  BY PendingNow DEF Inv, TypeOK
<1>3. Runs(s) \subseteq Runs(s)'
  BY DEF Runs, CoversStay
<1>4. Preceded(Tail(agenda), EndsOf(x, s), Runs(s)') \/ \E i \in DOMAIN p : p[i] \in Runs(s)'
  <2>1. CASE Covers(agenda[1], s)
    BY <1>1, <2>1
  <2>2. CASE ~Covers(agenda[1], s)
    <3>1. agenda[1] \notin Runs(s)
      BY <2>2 DEF Runs
    <3>2. Preceded(Tail(agenda), EndsOf(x, s), Runs(s))
      BY <1>2, <3>1, PrecededRest DEF EndsAfter
    <3>. QED
      BY <1>3, <3>2 DEF Preceded
  <2>. QED
    BY <2>1, <2>2
<1>5. Preceded(p \o Tail(agenda), EndsOf(x, s), Runs(s)')
  BY <1>1, <1>2, <1>4, PrecededJoin
<1>6. Preceded(agenda', EndsOf(x, s), Runs(s)')
  BY <1>1, <1>5
<1>. QED
  BY <1>6 DEF EndsAfter, Preceded, EndsOf
LEMMA WinsOffers ==
  ASSUME Inv, UpdateDownstreamVariables, NEW x \in Vars, NEW s \in Solvers
  PROVE  WinsOn(x, s)
<1>1. PICK y \in Vars, i \in Nat :
        /\ agenda # <<>> /\ agenda[1] = Call("update_downstream_variables", <<y, i>>)
        /\ \/ agenda' = <<Call("make_not_assignable", y)>> \o Tail(agenda)
           \/ \E j \in Nat :
                /\ Visits(y, i, Others(y), j)
                /\ agenda' = (Offer(y, solvers_w[y][j])
                               \o <<Call("update_downstream_variables", <<y, j + 1>>)>>)
                               \o Tail(agenda)
  BY UpdateDownstreamVariablesDoes, Zenon
<1>2. agenda[1].fn = "update_downstream_variables"
  BY <1>1, CallIs, Zenon
<1>3. CASE agenda' = <<Call("make_not_assignable", y)>> \o Tail(agenda)
  <2>1. Puts({Call("make_not_assignable", y)})
    BY <1>1, <1>3, PutsFew, CallTypes, Zenon
  <2>2. /\ Call("make_not_assignable", y) \in Calls
        /\ Call("make_not_assignable", y).fn = "make_not_assignable"
    BY CallTypes, CallIs
  <2>. QED
    BY <1>2, <2>1, <2>2, WinsQuiet
<1>4. ASSUME NEW j \in Nat, Visits(y, i, Others(y), j),
             agenda' = (Offer(y, solvers_w[y][j])
                          \o <<Call("update_downstream_variables", <<y, j + 1>>)>>) \o Tail(agenda)
      PROVE  WinsOn(x, s)
  <2>1. PICK t \in Solvers : t = solvers_w[y][j] /\ j + 1 \in Nat
    BY <1>4, SMT DEF Visits
  <2>. DEFINE a == Call("begin_assign", <<y, t>>)
              b == Call("solve", t)
              c == Call("end_assign", <<y, t>>)
              d == Call("update_downstream_variables", <<y, j + 1>>)
              p == <<a, b, c>> \o <<d>>
  <2>2. a \in Calls /\ b \in Calls /\ c \in Calls /\ d \in Calls
    BY <2>1, CallTypes, Zenon
  <2>3. a.fn = "begin_assign" /\ b.fn = "solve" /\ d.fn = "update_downstream_variables"
    BY CallIs, Zenon
  <2>4. agenda' = p \o Tail(agenda)
    BY <1>4, <2>1 DEF Offer
  <2>5. c \in EndsOf(x, s) => t = s
    BY EndsAre
  <2>6. t = s => b \in Runs(s)'
    <3>1. Covers(b, t)'
      BY DEF Covers
    <3>. QED
      BY <2>2, <3>1 DEF Runs
  <2>. HIDE DEF a, b, c, d
  <2>7. p \in Seq(Calls) /\ p[1] = a /\ p[2] = b /\ p[3] = c /\ p[4] = d /\ DOMAIN p = 1..4
    BY <2>2
  <2>. HIDE DEF p
  <2>8. Preceded(p, EndsOf(x, s), Runs(s)')
    <3>. SUFFICES ASSUME NEW i0 \in DOMAIN p, p[i0] \in EndsOf(x, s)
                  PROVE  \E j0 \in DOMAIN p : j0 < i0 /\ p[j0] \in Runs(s)'
      BY DEF Preceded
    <3>1. p[i0].fn \in {"end_assign", "__end_assign__"}
      BY EndsAre
    <3>2. i0 \notin {1, 2, 4}
      BY <2>3, <2>7, <3>1
    <3>3. i0 = 3
      BY <2>7, <3>2
    <3>4. b \in Runs(s)'
      BY <2>5, <2>6, <2>7, <3>3
    <3>. QED
      BY <2>7, <3>3, <3>4
  <2>9. ~Covers(agenda[1], s)
    BY <1>2, CoversFew
  <2>. QED
    BY <2>4, <2>7, <2>8, <2>9, Zenon DEF WinsOn
<1>. QED
  BY <1>1, <1>3, <1>4

LEMMA WinsEnds ==
  ASSUME Inv, EndAssignVariable, NEW x \in Vars, NEW s \in Solvers,
         agenda[1] \notin EndsOf(x, s)
  PROVE  WinsOn(x, s)
<1>1. PICK y \in Vars, i \in Nat :
        /\ agenda # <<>> /\ agenda[1] = Call("__end_assign__", <<y, i>>)
        /\ \/ agenda' = <<Call("make_not_assignable", y)>> \o Tail(agenda)
           \/ \E j \in Nat :
                /\ Visits(y, i, external[y], j)
                /\ agenda' = <<Call("end_assign", <<y, solvers_w[y][j]>>),
                               Call("__end_assign__", <<y, j + 1>>)>> \o Tail(agenda)
  BY EndAssignVariableDoes, Zenon
<1>2. agenda[1].fn = "__end_assign__"
  BY <1>1, CallIs, Zenon
<1>3. y # x
  BY <1>1 DEF EndsOf
<1>4. CASE agenda' = <<Call("make_not_assignable", y)>> \o Tail(agenda)
  <2>1. Puts({Call("make_not_assignable", y)})
    BY <1>1, <1>4, PutsFew, CallTypes, Zenon
  <2>2. /\ Call("make_not_assignable", y) \in Calls
        /\ Call("make_not_assignable", y).fn = "make_not_assignable"
    BY CallTypes, CallIs
  <2>. QED
    BY <1>2, <2>1, <2>2, WinsQuiet
<1>5. ASSUME NEW j \in Nat, Visits(y, i, external[y], j),
             agenda' = <<Call("end_assign", <<y, solvers_w[y][j]>>),
                         Call("__end_assign__", <<y, j + 1>>)>> \o Tail(agenda)
      PROVE  WinsOn(x, s)
  <2>. DEFINE a == Call("end_assign", <<y, solvers_w[y][j]>>)
              b == Call("__end_assign__", <<y, j + 1>>)
              p == <<a, b>>
  <2>1. a \in Calls /\ b \in Calls
    <3>1. solvers_w[y][j] \in Solvers /\ j + 1 \in Nat
      BY <1>5, SMT DEF Visits
    <3>. QED
      BY <3>1, CallTypes, Zenon
  <2>2. a \notin EndsOf(x, s) /\ b \notin EndsOf(x, s)
    BY <1>3, EndsAre
  <2>3. agenda' = p \o Tail(agenda)
    BY <1>5
  <2>. HIDE DEF a, b
  <2>4. p \in Seq(Calls) /\ Preceded(p, EndsOf(x, s), Runs(s)')
    BY <2>1, <2>2 DEF Preceded
  <2>5. ~Covers(agenda[1], s)
    BY <1>2, CoversFew
  <2>. HIDE DEF p
  <2>. QED
    BY <2>3, <2>4, <2>5, Zenon DEF WinsOn
<1>. QED
  BY <1>1, <1>4, <1>5

LEMMA WinsAssigns ==
  ASSUME Inv, AssignVariable, NEW x \in Vars, NEW s \in Solvers
  PROVE  WinsOn(x, s)
<1>1. PICK y \in Vars :
        /\ agenda # <<>> /\ agenda[1] = Call("__assign__", y)
        /\ agenda' = (IF IsSolveable(y) THEN AssignCalls(y) ELSE <<>>) \o Tail(agenda)
  BY AssignVariableDoes, Zenon
<1>2. CoversStay
  BY StepAnswers DEF Step
<1>3. Covers(agenda[1], s) =>
        /\ IsSolveable(y)
        /\ \E call \in {Call("solve", DefiningSolver(y)), Call("get_i", y),
                        Call("assign others", <<y, 1>>)} : Covers(call, s)'
  BY <1>1, <1>2, AssignPasses
<1>4. CASE ~IsSolveable(y)
  <2>1. agenda' = Tail(agenda)
    BY <1>1, <1>4, NothingMore
  <2>2. Puts({})
    BY <1>1, <2>1, PutsFew
  <2>3. ~Covers(agenda[1], s)
    BY <1>3, <1>4
  <2>. QED
    BY <2>2, <2>3, WinsPuts
<1>5. CASE IsSolveable(y)
  <2>. DEFINE a == Call("solve", DefiningSolver(y))
              b == Call("get_i", y)
              d == Call("assign others", <<y, 1>>)
  <2>1. DefiningSolver(y) \in Solvers /\ 1 \in Nat
    BY <1>5, DefiningKnown DEF Inv
  <2>2. a \in Calls /\ b \in Calls /\ d \in Calls
    BY <2>1, CallTypes, Zenon
  <2>3. a.fn = "solve" /\ b.fn = "get_i" /\ d.fn = "assign others"
    BY CallIs, Zenon
  <2>4. agenda' = <<a, b, d>> \o Tail(agenda)
    BY <1>1, <1>5 DEF AssignCalls
  <2>5. Covers(agenda[1], s) => \E call \in {a, b, d} : Covers(call, s)'
    BY <1>3
  <2>. HIDE DEF a, b, d
  <2>6. Puts({a, b, d})
    BY <1>1, <2>2, <2>4, PutsFew
  <2>7. \A call \in {a, b, d} : call \in Calls /\ call.fn \notin {"end_assign", "__end_assign__"}
    BY <2>2, <2>3
  <2>. QED
    BY <2>5, <2>6, <2>7, WinsPuts
<1>. QED
  BY <1>4, <1>5

LEMMA WinsOthers ==
  ASSUME Inv, AssignOthers, NEW x \in Vars, NEW s \in Solvers
  PROVE  WinsOn(x, s)
<1>1. PICK y \in Vars, i \in Nat :
        /\ agenda # <<>> /\ agenda[1] = Call("assign others", <<y, i>>)
        /\ \/ NoneLeft(y, i, Others(y)) /\ agenda' = Tail(agenda)
           \/ \E j \in Nat :
                /\ Visits(y, i, Others(y), j)
                /\ agenda' = <<Call("begin_assign", <<y, solvers_w[y][j]>>),
                               Call("solve", solvers_w[y][j]),
                               Call("assign others", <<y, j + 1>>)>> \o Tail(agenda)
  BY AssignOthersDoes, Zenon
<1>2. CoversStay
  BY StepAnswers DEF Step
<1>3. Covers(agenda[1], s) =>
        /\ ~NoneLeft(y, i, Others(y))
        /\ \A j \in Nat : Visits(y, i, Others(y), j) =>
             \E call \in {Call("begin_assign", <<y, solvers_w[y][j]>>),
                          Call("solve", solvers_w[y][j]),
                          Call("assign others", <<y, j + 1>>)} : Covers(call, s)'
  BY <1>1, <1>2, OthersPass
<1>4. CASE NoneLeft(y, i, Others(y)) /\ agenda' = Tail(agenda)
  <2>1. Puts({})
    BY <1>1, <1>4, PutsFew
  <2>2. ~Covers(agenda[1], s)
    BY <1>3, <1>4
  <2>. QED
    BY <2>1, <2>2, WinsPuts
<1>5. ASSUME NEW j \in Nat, Visits(y, i, Others(y), j),
             agenda' = <<Call("begin_assign", <<y, solvers_w[y][j]>>),
                         Call("solve", solvers_w[y][j]),
                         Call("assign others", <<y, j + 1>>)>> \o Tail(agenda)
      PROVE  WinsOn(x, s)
  <2>. DEFINE a == Call("begin_assign", <<y, solvers_w[y][j]>>)
              b == Call("solve", solvers_w[y][j])
              d == Call("assign others", <<y, j + 1>>)
  <2>1. solvers_w[y][j] \in Solvers /\ j + 1 \in Nat
    <3>1. j + 1 \in Nat
      OBVIOUS
    <3>. QED
      BY <1>5, <3>1, Zenon DEF Visits
  <2>2. a \in Calls /\ b \in Calls /\ d \in Calls
    BY <2>1, CallTypes, Zenon
  <2>3. a.fn = "begin_assign" /\ b.fn = "solve" /\ d.fn = "assign others"
    BY CallIs, Zenon
  <2>4. agenda' = <<a, b, d>> \o Tail(agenda)
    BY <1>5
  <2>5. Covers(agenda[1], s) => \E call \in {a, b, d} : Covers(call, s)'
    BY <1>3, <1>5
  <2>. HIDE DEF a, b, d
  <2>6. Puts({a, b, d})
    BY <1>1, <2>2, <2>4, PutsFew
  <2>7. \A call \in {a, b, d} : call \in Calls /\ call.fn \notin {"end_assign", "__end_assign__"}
    BY <2>2, <2>3
  <2>. QED
    BY <2>5, <2>6, <2>7, WinsPuts
<1>. QED
  BY <1>1, <1>4, <1>5

(* The calls that neither run a solver nor withdraw a value.               *)
LEMMA WinsOther ==
  ASSUME Inv, NEW x \in Vars, NEW s \in Solvers,
         \/ BeginAssignVariable \/ GetI \/ MakeNotAssignable \/ RecalculatePath
         \/ BeginAssign \/ Recalculate \/ RecalculateRaises \/ EnableConstraint \/ SetEnabled
  PROVE  WinsOn(x, s) \/ agenda' = <<>>
<1>1. ASSUME agenda # <<>>, agenda' = Tail(agenda),
             agenda[1].fn \notin {"solve", "__assign__", "assign others"}
      PROVE  WinsOn(x, s)
  BY <1>1, PutsFew, WinsQuiet
<1>2. ASSUME NEW a \in Calls, agenda # <<>>, agenda' = <<a>> \o Tail(agenda),
             agenda[1].fn \notin {"solve", "__assign__", "assign others"},
             a.fn \notin {"end_assign", "__end_assign__"}
      PROVE  WinsOn(x, s)
  BY <1>2, PutsFew, WinsQuiet
<1>3. ASSUME NEW a \in Calls, NEW b \in Calls, agenda # <<>>, agenda' = <<a, b>> \o Tail(agenda),
             agenda[1].fn \notin {"solve", "__assign__", "assign others"},
             a.fn \notin {"end_assign", "__end_assign__"},
             b.fn \notin {"end_assign", "__end_assign__"}
      PROVE  WinsOn(x, s)
  BY <1>3, PutsFew, WinsQuiet
<1>4. CASE BeginAssignVariable \/ BeginAssign \/ SetEnabled
  BY <1>1, <1>4 DEF BeginAssignVariable, BeginAssign, SetEnabled, Running, Return
<1>5. CASE GetI
  <2>1. PICK y \in Vars :
          /\ agenda # <<>> /\ agenda[1] = Call("get_i", y)
          /\ \/ agenda' = <<Call("update_downstream_variables", <<y, 1>>)>> \o Tail(agenda)
             \/ agenda' = Tail(agenda)
    BY <1>5, GetIDoes, Zenon
  <2>2. agenda[1].fn = "get_i" /\ 1 \in Nat
    BY <1>5 DEF GetI, Running
  <2>3. /\ Call("update_downstream_variables", <<y, 1>>) \in Calls
        /\ Call("update_downstream_variables", <<y, 1>>).fn = "update_downstream_variables"
    BY <2>2, CallTypes, CallIs, Zenon
  <2>. QED
    BY <1>1, <1>2, <2>1, <2>2, <2>3
<1>6. CASE MakeNotAssignable
  <2>1. PICK y \in Vars :
          /\ agenda # <<>> /\ agenda[1] = Call("make_not_assignable", y)
          /\ agenda' = <<Call("recalculate_path", <<y, 1, 1>>)>> \o Tail(agenda)
    BY <1>6, MakeNotAssignableDoes, Zenon
  <2>2. agenda[1].fn = "make_not_assignable" /\ 1 \in Nat
    BY <1>6 DEF MakeNotAssignable, Running
  <2>3. /\ Call("recalculate_path", <<y, 1, 1>>) \in Calls
        /\ Call("recalculate_path", <<y, 1, 1>>).fn = "recalculate_path"
    BY <2>2, CallTypes, CallIs, Zenon
  <2>. QED
    BY <1>2, <2>1, <2>2, <2>3
<1>7. CASE RecalculatePath
  <2>1. PICK y \in Vars, i \in Nat, j \in Nat :
          /\ agenda # <<>>
          /\ \/ agenda' = Tail(agenda)
             \/ \E q \in Nat \X Nat :
                  /\ Due(y, i, j, q) /\ BlockAt(y, q) \in Cons
                  /\ agenda' = <<Call("recalculate", BlockAt(y, q)),
                                 Call("recalculate_path", <<y, q[1], q[2] + 1>>)>> \o Tail(agenda)
    BY <1>7, RecalculatePathDoes, Zenon
  <2>2. agenda[1].fn = "recalculate_path"
    BY <1>7 DEF RecalculatePath, Running
  <2>3. ASSUME NEW q \in Nat \X Nat, BlockAt(y, q) \in Cons,
               agenda' = <<Call("recalculate", BlockAt(y, q)),
                           Call("recalculate_path", <<y, q[1], q[2] + 1>>)>> \o Tail(agenda)
        PROVE  WinsOn(x, s)
    <3>. DEFINE a == Call("recalculate", BlockAt(y, q))
                b == Call("recalculate_path", <<y, q[1], q[2] + 1>>)
    <3>1. q[1] \in Nat /\ q[2] + 1 \in Nat
      BY <2>3
    <3>2. a \in Calls /\ b \in Calls
      BY <2>3, <3>1, CallTypes, Zenon
    <3>3. a.fn = "recalculate" /\ b.fn = "recalculate_path"
      BY CallIs, Zenon
    <3>4. agenda' = <<a, b>> \o Tail(agenda)
      BY <2>3
    <3>. HIDE DEF a, b
    <3>. QED
      BY <1>3, <2>1, <2>2, <3>2, <3>3, <3>4
  <2>. QED
    BY <1>1, <2>1, <2>2, <2>3
<1>8. CASE Recalculate
  <2>1. PICK c \in Cons :
          /\ agenda # <<>> /\ agenda[1] = Call("recalculate", c)
          /\ agenda' = <<Call("enable", c)>> \o Tail(agenda) \/ agenda' = Tail(agenda)
    BY <1>8, RecalculateDoes, Zenon
  <2>2. agenda[1].fn = "recalculate"
    BY <1>8 DEF Recalculate, Running
  <2>3. Call("enable", c) \in Calls /\ Call("enable", c).fn = "enable"
    BY CallTypes, CallIs, Zenon
  <2>. QED
    BY <1>1, <1>2, <2>1, <2>2, <2>3
<1>9. CASE EnableConstraint
  <2>1. PICK c \in Cons :
          /\ agenda # <<>> /\ agenda[1] = Call("enable", c)
          /\ \/ agenda' = Tail(agenda) \/ agenda' = <<>>
             \/ agenda' = <<Call("set_enabled", c)>> \o Tail(agenda)
             \/ agenda' = <<Call("solve", SolverOf[c]), Call("set_enabled", c)>> \o Tail(agenda)
    BY <1>9, EnableConstraintDoes, Zenon
  <2>2. agenda[1].fn = "enable"
    BY <1>9 DEF EnableConstraint, Running
  <2>3. SolverOf[c] \in Solvers
    BY ConstantsAssumption
  <2>4. /\ Call("set_enabled", c) \in Calls /\ Call("set_enabled", c).fn = "set_enabled"
        /\ Call("solve", SolverOf[c]) \in Calls /\ Call("solve", SolverOf[c]).fn = "solve"
    BY <2>3, CallTypes, CallIs, Zenon
  <2>. QED
    BY <1>1, <1>2, <1>3, <2>1, <2>2, <2>4
<1>10. CASE RecalculateRaises
  BY <1>10, RecalculateRaisesDoes
<1>. QED
  BY <1>4, <1>5, <1>6, <1>7, <1>8, <1>9, <1>10
(* The program starts an assignment with the call that runs the solvers     *)
(* before the one that withdraws.                                          *)
LEMMA StartOne ==
  ASSUME NEW x \in Vars, NEW z \in Vars
  PROVE  LET a == IfConstrained(x, Call("__assign__", x))
             e == IfConstrained(x, Call("__end_assign__", <<x, 1>>))
             C == {Call("__assign__", z)}
         IN  /\ a \in Seq(Calls) /\ e \in Seq(Calls)
             /\ Preceded(a, EndCalls(z), C)
             /\ x # z => Preceded(e, EndCalls(z), C)
             /\ x = z => Preceded(e, EndCalls(z), C) \/ \E i \in DOMAIN a : a[i] \in C
<1>. DEFINE ca == Call("__assign__", x)
            ce == Call("__end_assign__", <<x, 1>>)
            C == {Call("__assign__", z)}
<1>1. ca \in Calls /\ ce \in Calls
  BY CallTypes
<1>2. ca \notin EndCalls(z)
  <2>1. ca.fn = "__assign__"
    BY CallIs
  <2>. QED
    BY <2>1, EndsAre
<1>3. x # z => ce \notin EndCalls(z)
  BY EndsAre
<1>4. x = z => ca \in C
  OBVIOUS
<1>. HIDE DEF ca, ce, C
<1>5. CASE IsConstrained(x)
  <2>1. IfConstrained(x, ca) = <<ca>> /\ IfConstrained(x, ce) = <<ce>>
    BY <1>5 DEF IfConstrained
  <2>2. <<ca>> \in Seq(Calls) /\ <<ce>> \in Seq(Calls)
    BY <1>1, ShortSeqs
  <2>3. Preceded(<<ca>>, EndCalls(z), C)
    BY <1>2 DEF Preceded
  <2>4. x # z => Preceded(<<ce>>, EndCalls(z), C)
    BY <1>3 DEF Preceded
  <2>5. x = z => \E i \in DOMAIN <<ca>> : <<ca>>[i] \in C
    BY <1>4
  <2>. QED
    BY <2>1, <2>2, <2>3, <2>4, <2>5, Zenon DEF ca, ce, C
<1>6. CASE ~IsConstrained(x)
  <2>1. IfConstrained(x, ca) = <<>> /\ IfConstrained(x, ce) = <<>>
    BY <1>6 DEF IfConstrained
  <2>2. <<>> \in Seq(Calls) /\ Preceded(<<>>, EndCalls(z), C)
    BY DEF Preceded
  <2>. QED
    BY <2>1, <2>2, Zenon DEF ca, ce, C
<1>. QED
  BY <1>5, <1>6

LEMMA BeginsEndNothing ==
  ASSUME NEW z \in Vars, NEW C, NEW x \in Vars, NEW y \in Vars, NEW v \in Values, NEW w \in Values
  PROVE  /\ <<Call("__begin_assign__", <<x, v>>)>> \in Seq(Calls)
         /\ Preceded(<<Call("__begin_assign__", <<x, v>>)>>, EndCalls(z), C)
         /\ <<Call("__begin_assign__", <<x, v>>), Call("__begin_assign__", <<y, w>>)>> \in Seq(Calls)
         /\ Preceded(<<Call("__begin_assign__", <<x, v>>), Call("__begin_assign__", <<y, w>>)>>,
                     EndCalls(z), C)
<1>. DEFINE b == Call("__begin_assign__", <<x, v>>)
            d == Call("__begin_assign__", <<y, w>>)
<1>1. b \in Calls /\ d \in Calls /\ b.fn = "__begin_assign__" /\ d.fn = "__begin_assign__"
  BY CallTypes, CallIs, Zenon
<1>2. b \notin EndCalls(z) /\ d \notin EndCalls(z)
  BY <1>1, EndsAre
<1>. HIDE DEF b, d
<1>3. <<b>> \in Seq(Calls) /\ <<b, d>> \in Seq(Calls)
  BY <1>1, ShortSeqs
<1>4. Preceded(<<b>>, EndCalls(z), C) /\ Preceded(<<b, d>>, EndCalls(z), C)
  BY <1>2 DEF Preceded
<1>. QED
  BY <1>3, <1>4 DEF b, d

LEMMA AssignEnds ==
  ASSUME NEW x \in Vars, NEW v \in Values, Assign(x, v), NEW z \in Vars
  PROVE  EndsFollow(z)'
<1>. DEFINE b == <<Call("__begin_assign__", <<x, v>>)>>
            a == IfConstrained(x, Call("__assign__", x))
            e == IfConstrained(x, Call("__end_assign__", <<x, 1>>))
            E == EndCalls(z)
            C == {Call("__assign__", z)}
            p == b \o a
<1>1. b \in Seq(Calls) /\ Preceded(b, E, C)
  BY BeginsEndNothing
<1>2. /\ a \in Seq(Calls) /\ e \in Seq(Calls)
      /\ Preceded(a, E, C)
      /\ Preceded(e, E, C) \/ \E i \in DOMAIN a : a[i] \in C
  BY StartOne
<1>3. agenda' = p \o e
  BY DEF Assign
<1>. HIDE DEF a, b, e, E, C
<1>4. p \in Seq(Calls) /\ Preceded(p, E, C)
  BY <1>1, <1>2, PrecededJoin
<1>5. ASSUME NEW i \in DOMAIN a, a[i] \in C
      PROVE  \E j \in DOMAIN p : p[j] \in C
  <2>1. Len(b) + i \in DOMAIN p /\ p[Len(b) + i] = a[i]
    BY <1>1, <1>2
  <2>. QED
    BY <1>5, <2>1
<1>. HIDE DEF p
<1>6. Preceded(p \o e, E, C)
  BY <1>2, <1>4, <1>5, PrecededJoin
<1>. QED
  BY <1>3, <1>6 DEF EndsFollow, E, C, Preceded, EndCalls

LEMMA MultiAssignEnds ==
  ASSUME NEW x \in Vars, NEW y \in Vars, NEW v \in Values, NEW w \in Values,
         MultiAssign(x, v, y, w), NEW z \in Vars
  PROVE  EndsFollow(z)'
<1>. DEFINE b == <<Call("__begin_assign__", <<x, v>>), Call("__begin_assign__", <<y, w>>)>>
            ax == IfConstrained(x, Call("__assign__", x))
            ay == IfConstrained(y, Call("__assign__", y))
            ex == IfConstrained(x, Call("__end_assign__", <<x, 1>>))
            ey == IfConstrained(y, Call("__end_assign__", <<y, 1>>))
            E == EndCalls(z)
            C == {Call("__assign__", z)}
            p1 == b \o ax
            p2 == p1 \o ay
            p3 == p2 \o ex
            has(p) == \E i \in DOMAIN p : p[i] \in C
<1>1. b \in Seq(Calls) /\ Preceded(b, E, C)
  BY BeginsEndNothing
<1>2. /\ ax \in Seq(Calls) /\ ex \in Seq(Calls)
      /\ Preceded(ax, E, C)
      /\ Preceded(ex, E, C) \/ has(ax)
  BY StartOne
<1>3. /\ ay \in Seq(Calls) /\ ey \in Seq(Calls)
      /\ Preceded(ay, E, C)
      /\ Preceded(ey, E, C) \/ has(ay)
  BY StartOne
<1>4. agenda' = p3 \o ey
  BY DEF MultiAssign
<1>. HIDE DEF ax, ay, b, ex, ey, E, C
<1>5. ASSUME NEW p \in Seq(Calls), NEW q \in Seq(Calls)
      PROVE  has(p) \/ has(q) => has(p \o q)
  <2>1. ASSUME NEW i \in DOMAIN p, p[i] \in C
        PROVE  has(p \o q)
    <3>1. i \in DOMAIN (p \o q) /\ (p \o q)[i] = p[i]
      BY <1>5
    <3>. QED
      BY <2>1, <3>1
  <2>2. ASSUME NEW i \in DOMAIN q, q[i] \in C
        PROVE  has(p \o q)
    <3>1. Len(p) + i \in DOMAIN (p \o q) /\ (p \o q)[Len(p) + i] = q[i]
      BY <1>5
    <3>. QED
      BY <2>2, <3>1
  <2>. QED
    BY <2>1, <2>2
<1>6. ASSUME NEW p \in Seq(Calls), NEW q \in Seq(Calls), Preceded(p, E, C),
             Preceded(q, E, C) \/ has(p)
      PROVE  p \o q \in Seq(Calls) /\ Preceded(p \o q, E, C)
  BY <1>6, PrecededJoin
<1>. HIDE DEF has
<1>7. p1 \in Seq(Calls) /\ Preceded(p1, E, C) /\ (has(ax) => has(p1))
  BY <1>1, <1>2, <1>5, <1>6
<1>. HIDE DEF p1
<1>8. p2 \in Seq(Calls) /\ Preceded(p2, E, C) /\ (has(p1) \/ has(ay) => has(p2))
  BY <1>3, <1>5, <1>6, <1>7
<1>. HIDE DEF p2
<1>9. p3 \in Seq(Calls) /\ Preceded(p3, E, C) /\ (has(p2) => has(p3))
  BY <1>2, <1>5, <1>6, <1>7, <1>8
<1>. HIDE DEF p3
<1>10. Preceded(p3 \o ey, E, C)
  BY <1>3, <1>6, <1>7, <1>8, <1>9
<1>. QED
  BY <1>4, <1>10 DEF EndsFollow, E, C, Preceded, EndCalls

LEMMA WinsProgram ==
  ASSUME Inv, WinsInv, UserStep
  PROVE  WinsInv'
<1>. USE DEF varState, solverState
<1>1. agenda = <<>> /\ UNCHANGED proposal
  BY ProgramIdle DEF UserStep, Always, AlwaysRaises, Enable, Disable, SetStrength, Read, Assign,
     MultiAssign
<1>2. ASSUME NEW z \in Vars
      PROVE  EndsFollow(z)'
  <2>1. ASSUME NEW call, agenda' = <<call>>, call.fn \in {"enable", "get_i"}
        PROVE  EndsFollow(z)'
    <3>1. call \notin EndCalls(z)'
      <4>1. EndCalls(z)' = EndCalls(z)
        BY DEF EndCalls
      <4>. QED
        BY <2>1, <4>1, EndsAre
    <3>. QED
      BY <2>1, <3>1 DEF EndsFollow, Preceded
  <2>2. ASSUME NEW c \in Cons, Always(c) \/ Enable(c) \/ SetStrength(c)
        PROVE  EndsFollow(z)'
    BY <2>1, <2>2, CallIs DEF Always, Enable, SetStrength
  <2>3. ASSUME NEW c \in Cons, Disable(c) \/ AlwaysRaises(c)
        PROVE  EndsFollow(z)'
    <3>1. agenda' = <<>>
      BY <1>1, <2>3 DEF Disable, AlwaysRaises
    <3>. QED
      BY <3>1 DEF EndsFollow, Preceded
  <2>4. ASSUME NEW x \in Vars, Read(x)
        PROVE  EndsFollow(z)'
    BY <2>1, <2>4, CallIs DEF Read
  <2>. QED
    BY <2>2, <2>3, <2>4, AssignEnds, MultiAssignEnds DEF UserStep
<1>3. ASSUME NEW x \in Vars, NEW s \in Solvers, proposal'[x][s] # NoValue
      PROVE  EndsAfter(x, s)'
  <2>1. s \in external'[x]
    <3>1. s \in external[x]
      BY <1>1, <1>3 DEF Inv, SolversKnow
    <3>2. \/ external' = external
          \/ \E c \in Cons : RunPredicate(c) \/ BreakOff(c)
      BY DEF UserStep, Always, AlwaysRaises, Enable, Disable, SetStrength, Read, Assign, MultiAssign
    <3>3. \A c \in Cons : Meets(c) => external[x] \subseteq external'[x]
      BY DEF Meets, MeetVariables
    <3>. QED
      BY <3>1, <3>2, <3>3, RunMeets, BreakMeets
  <2>2. Call("__assign__", x) \in Runs(s)'
    <3>1. Covers(Call("__assign__", x), s)'
      BY <2>1, Zenon DEF Covers
    <3>. QED
      BY <3>1, CallTypes DEF Runs
  <2>3. Preceded(agenda', EndCalls(x), {Call("__assign__", x)})
    BY <1>2 DEF EndsFollow, Preceded, EndCalls
  <2>4. Preceded(agenda', EndsOf(x, s), Runs(s)')
    BY <2>2, <2>3, EndsAre, PrecededMore
  <2>. QED
    BY <2>4 DEF EndsAfter, Preceded, EndsOf
<1>. QED
  BY <1>2, <1>3 DEF WinsInv

LEMMA InitWins == Init => WinsInv
  BY DEF Init, WinsInv, EndsFollow, EndsAfter, Preceded
LEMMA EndsFollowStep ==
  ASSUME Inv, BeginInv, WinsInv, Step, NEW x \in Vars, NEW v \in Values,
         Call("__begin_assign__", <<x, v>>) \in Pending'
  PROVE  EndsFollow(x)'
<1>. DEFINE b == Call("__begin_assign__", <<x, v>>)
<1>1. b.fn = "__begin_assign__"
  BY CallIs
<1>2. agenda # <<>> /\ b \in Behind
  <2>1. agenda' = <<>> => b \notin Pending'
    BY NonePending
  <2>2. Adds(AllAdditions)
    BY <2>1, StepAdds
  <2>. QED
    BY <1>1, <2>2, StepAdds DEF Adds, AllAdditions, Additions
<1>. HIDE DEF b
<1>3. agenda \in Seq(Calls) /\ b \in Pending
  BY <1>2, PendingNow DEF Inv, TypeOK
<1>4. agenda[1].fn = "__begin_assign__"
  <2>1. PICK i \in DOMAIN agenda : agenda[i] = b
    BY <1>3 DEF Pending, CallsIn
  <2>2. 1 \in 1..i
    BY <1>3, <2>1
  <2>. QED
    BY <1>1, <2>1, <2>2 DEF BeginInv, BeginsRunFirst, BeginsFirst
<1>5. agenda' = Tail(agenda)
  BY <1>4 DEF Step, Running, BeginAssignVariable, AssignVariable, AssignOthers, GetI,
     UpdateDownstreamVariables, EndAssignVariable, MakeNotAssignable, RecalculatePath,
     BeginAssign, Solve, EndAssign, Recalculate, RecalculateRaises, EnableConstraint,
     SetEnabled, Return
<1>6. Preceded(agenda, EndCalls(x), {Call("__assign__", x)})
  BY <1>3 DEF WinsInv, EndsFollow, b
<1>7. agenda[1] \notin {Call("__assign__", x)}
  BY <1>4, CallIs
<1>8. Preceded(Tail(agenda), EndCalls(x), {Call("__assign__", x)})
  BY <1>2, <1>3, <1>6, <1>7, PrecededRest
<1>. QED
  BY <1>5, <1>8 DEF EndsFollow, Preceded, EndCalls

(* What is proposed, and who proposes it.                                  *)
LEMMA ProposedBy ==
  ASSUME Inv, Step, NEW x \in Vars, NEW s \in Solvers
  PROVE  \/ proposal'[x][s] = proposal[x][s]
         \/ /\ EndAssign /\ agenda[1] = Call("end_assign", <<x, s>>)
            /\ proposal'[x][s] = NoValue
         \/ /\ BeginAssign /\ agenda[1] = Call("begin_assign", <<x, s>>)
            /\ proposal'[x][s] \in Values
         \/ /\ BeginAssignVariable /\ s \in external'[x] /\ proposal'[x][s] \in Values
            /\ \E v \in Values : agenda[1] = Call("__begin_assign__", <<x, v>>)
<1>. USE DEF varState, solverState
<1>1. /\ proposal \in [Vars -> [Solvers -> Values \cup {NoValue}]]
      /\ stored \in [Vars -> Values]
  BY DEF Inv, TypeOK
<1>2. CASE BeginAssign
  <2>1. PICK y \in Vars, t \in Solvers :
          agenda[1] = Call("begin_assign", <<y, t>>) /\ Propose(y, t, stored[y])
    BY <1>2, BeginAssignDoes, Zenon
  <2>2. CASE y = x /\ t = s
    BY <1>1, <1>2, <2>1, <2>2 DEF Propose
  <2>3. CASE ~(y = x /\ t = s)
    BY <1>1, <2>1, <2>3 DEF Propose
  <2>. QED
    BY <2>2, <2>3
<1>3. CASE BeginAssignVariable
  <2>1. PICK y \in Vars, v \in Values :
          /\ agenda[1] = Call("__begin_assign__", <<y, v>>)
          /\ UNCHANGED external
          /\ \/ IsSolveable(y) /\ Propose(y, DefiningSolver(y), v)
             \/ UNCHANGED proposal
    BY <1>3, BeginAssignVariableDoes, Zenon
  <2>2. CASE UNCHANGED proposal
    BY <2>2
  <2>3. CASE IsSolveable(y) /\ Propose(y, DefiningSolver(y), v)
    <3>1. PICK d \in Solvers : d = DefiningSolver(y) /\ d \in external[y]
      BY <2>3, DefiningKnown DEF Inv
    <3>2. proposal' = [proposal EXCEPT ![y][d] = v]
      BY <2>3, <3>1 DEF Propose
    <3>3. CASE y = x /\ d = s
      <4>1. proposal'[x][s] = v /\ s \in external'[x]
        BY <1>1, <2>1, <3>1, <3>2, <3>3
      <4>. QED
        BY <1>3, <2>1, <3>3, <4>1
    <3>4. CASE ~(y = x /\ d = s)
      BY <1>1, <3>2, <3>4
    <3>. QED
      BY <3>3, <3>4
  <2>. QED
    BY <2>1, <2>2, <2>3
<1>4. CASE EndAssign
  <2>1. PICK y \in Vars, t \in Solvers :
          /\ agenda[1] = Call("end_assign", <<y, t>>)
          /\ proposal' = [proposal EXCEPT ![y][t] = NoValue]
    BY <1>4, EndAssignDoes, Zenon
  <2>2. CASE y = x /\ t = s
    BY <1>1, <1>4, <2>1, <2>2
  <2>3. CASE ~(y = x /\ t = s)
    BY <1>1, <2>1, <2>3
  <2>. QED
    BY <2>2, <2>3
<1>5. CASE Recalculate \/ RecalculateRaises
  BY <1>5, RecalculateDoes, RecalculateRaisesDoes
<1>6. CASE EnableConstraint
  BY <1>6, EnableConstraintDoes
<1>7. CASE GetI
  BY <1>7, GetILeaves
<1>8. CASE \/ AssignVariable \/ AssignOthers \/ UpdateDownstreamVariables \/ EndAssignVariable
           \/ MakeNotAssignable \/ RecalculatePath \/ Solve \/ SetEnabled
  BY <1>8 DEF AssignVariable, AssignOthers, UpdateDownstreamVariables, EndAssignVariable,
     MakeNotAssignable, RecalculatePath, Solve, SetEnabled
<1>. QED
  BY <1>2, <1>3, <1>4, <1>5, <1>6, <1>7, <1>8, Zenon DEF Step

(* What the last run of a solver or of a block proposed stays right, or the *)
(* order stays.                                                            *)
LEMMA WinsKept ==
  ASSUME Inv, WinsInv, Step, NEW x \in Vars, NEW s \in Solvers,
         proposal'[x][s] = proposal[x][s], proposal[x][s] # NoValue
  PROVE  ValueOf(x, s)' = proposal'[x][s] \/ EndsAfter(x, s)'
<1>1. /\ agenda # <<>> /\ CoversStay /\ (Solve \/ ValuesStay)
      /\ s \in external[x] /\ proposal[x][s] \in Values
  <2>1. agenda # <<>> /\ CoversStay /\ (Solve \/ ValuesStay)
    BY StepAdds, StepAnswers, Zenon
  <2>2. s \in external[x] /\ proposal[x][s] \in Values
    BY DEF Inv, TypeOK, SolversKnow
  <2>. QED
    BY <2>1, <2>2
<1>2. CASE agenda' = <<>>
  BY <1>2 DEF EndsAfter, Preceded
<1>3. ASSUME EndsAfter(x, s), ~Solve, agenda' # <<>>
      PROVE  EndsAfter(x, s)'
  <2>1. agenda[1] \notin EndsOf(x, s)
    <3>1. 1 \in DOMAIN agenda /\ \A j \in DOMAIN agenda : ~(j < 1)
      <4>1. agenda \in Seq(Calls)
        BY DEF Inv, TypeOK
      <4>. QED
        BY <1>1, <4>1
    <3>. QED
      BY <1>3, <3>1 DEF EndsAfter, Preceded
  <2>2. EndAssign => WinsOn(x, s)
    <3>. SUFFICES ASSUME EndAssign PROVE WinsOn(x, s)
      OBVIOUS
    <3>1. agenda' = Tail(agenda)
      BY <1>3, EndAssignDoes
    <3>2. agenda[1].fn = "end_assign"
      BY DEF EndAssign, Running
    <3>. QED
      BY <1>1, <3>1, <3>2, PutsFew, WinsQuiet
  <2>3. WinsOn(x, s)
    BY <1>3, <2>1, <2>2, WinsOffers, WinsEnds, WinsAssigns, WinsOthers, WinsOther, Zenon DEF Step
  <2>. QED
    BY <1>1, <1>3, <2>3, WinsGoesOn
<1>4. CASE Solve
  <2>1. PICK t \in Solvers :
          /\ agenda[1] = Call("solve", t)
          /\ \/ /\ \E m \in Models(t) : model' = [model EXCEPT ![t] = m]
                /\ agenda' = Tail(agenda)
             \/ agenda' = <<>>
          /\ \E m : model' = [model EXCEPT ![t] = m]
          /\ UNCHANGED <<varState, enabled, env, asserted, proposal, leaked, pin, w_value>>
    BY <1>4, SolveDoes, Zenon
  <2>2. ASSUME t = s, NEW m \in Models(s), model' = [model EXCEPT ![s] = m]
        PROVE  ValueOf(x, s)' = proposal'[x][s]
    <3>1. Satisfied(s)'
      BY <2>1, <2>2, SolvedIs
    <3>2. <<x, proposal'[x][s]>> \in Equalities(s)'
      BY <1>1 DEF Equalities
    <3>3. Answers(s)'[x] = proposal'[x][s]
      BY <3>1, <3>2 DEF Satisfied, IsModel
    <3>. QED
      BY <3>3 DEF Answers
  <2>3. ASSUME t # s, agenda' = Tail(agenda)
        PROVE  ValueOf(x, s)' = proposal'[x][s] \/ EndsAfter(x, s)'
    <3>1. ValueOf(x, s)' = ValueOf(x, s)
      BY <2>1, <2>3 DEF ValueOf, Inv, TypeOK
    <3>2. ASSUME EndsAfter(x, s)
          PROVE  EndsAfter(x, s)'
      <4>1. Puts({})
        BY <1>1, <2>3, PutsFew
      <4>2. ~Covers(agenda[1], s)
        <5>1. Covers(Call("solve", t), s) => s = t
          BY CoversOf
        <5>. QED
          BY <2>1, <2>3, <5>1
      <4>3. WinsOn(x, s)
        BY <4>1, <4>2, WinsPuts
      <4>. QED
        BY <1>1, <3>2, <4>3, WinsGoesOn
    <3>. QED
      BY <3>1, <3>2 DEF WinsInv
  <2>. QED
    BY <1>2, <2>1, <2>2, <2>3
<1>5. CASE ~Solve /\ ValueOf(x, s) = proposal[x][s]
  BY <1>1, <1>5 DEF ValuesStay
<1>. QED
  BY <1>2, <1>3, <1>4, <1>5 DEF WinsInv

LEMMA WinsStep ==
  ASSUME Inv, BeginInv, OfferInv, WinsInv, Step
  PROVE  WinsInv'
<1>1. \A x \in Vars, v \in Values :
        Call("__begin_assign__", <<x, v>>) \in Pending' => EndsFollow(x)'
  BY EndsFollowStep
<1>2. ASSUME NEW x \in Vars, NEW s \in Solvers, proposal'[x][s] # NoValue
      PROVE  ValueOf(x, s)' = proposal'[x][s] \/ EndsAfter(x, s)'
  <2>1. CASE proposal'[x][s] = proposal[x][s]
    BY <1>2, <2>1, WinsKept
  <2>2. CASE BeginAssign /\ agenda[1] = Call("begin_assign", <<x, s>>)
    <3>1. Running("begin_assign")
      BY <2>2 DEF BeginAssign
    <3>2. agenda[1].arg[2] = s
      <4>1. Call("begin_assign", <<x, s>>).arg = <<x, s>>
        BY CallIs, Zenon
      <4>. QED
        BY <2>2, <4>1
    <3>3. 2 \in DOMAIN agenda /\ agenda[2] = Call("solve", s)
      BY <3>1, <3>2 DEF OfferInv, OfferIsSolved, Arg
    <3>4. agenda' = Tail(agenda) /\ agenda \in Seq(Calls) /\ agenda # <<>>
      BY <2>2 DEF BeginAssign, Running, Return, Inv, TypeOK
    <3>5. agenda' \in Seq(Calls) /\ agenda' # <<>> /\ agenda'[1] = Call("solve", s)
      <4>. DEFINE q == agenda
                  r == Tail(q)
      <4>1. r \in Seq(Calls) /\ Len(q) \in Nat /\ DOMAIN q = 1..Len(q) /\ Len(r) = Len(q) - 1
            /\ r[1] = q[2]
        BY <3>3, <3>4
      <4>2. Len(r) > 0
        BY <3>3, <4>1
      <4>. HIDE DEF r
      <4>3. r # <<>>
        BY <4>1, <4>2
      <4>. QED
        BY <3>3, <3>4, <4>1, <4>3 DEF r
    <3>6. Call("solve", s) \in Runs(s)'
      <4>1. Covers(Call("solve", s), s)'
        BY DEF Covers
      <4>. QED
        BY <4>1, CallTypes DEF Runs
    <3>7. Call("solve", s) \notin EndsOf(x, s)
      <4>1. Call("solve", s).fn = "solve"
        BY CallIs
      <4>. QED
        BY <4>1, EndsAre
    <3>8. Preceded(agenda', EndsOf(x, s), Runs(s)')
      BY <3>5, <3>6, <3>7, PrecededByFirst
    <3>. QED
      BY <3>8 DEF EndsAfter, Preceded, EndsOf
  <2>3. CASE /\ BeginAssignVariable /\ s \in external'[x]
             /\ \E v \in Values : agenda[1] = Call("__begin_assign__", <<x, v>>)
    <3>1. PICK v \in Values : agenda[1] = Call("__begin_assign__", <<x, v>>)
      BY <2>3
    <3>2. agenda # <<>> /\ agenda' = Tail(agenda) /\ agenda \in Seq(Calls)
      BY <2>3 DEF BeginAssignVariable, Running, Return, Inv, TypeOK
    <3>3. Call("__begin_assign__", <<x, v>>) \in Pending
      BY <3>1, <3>2, PendingNow
    <3>4. Preceded(agenda, EndCalls(x), {Call("__assign__", x)})
      BY <3>3 DEF WinsInv, EndsFollow
    <3>5. agenda[1] \notin {Call("__assign__", x)}
      <4>1. agenda[1].fn = "__begin_assign__"
        BY <3>1, CallIs
      <4>. QED
        BY <4>1, CallIs
    <3>6. Preceded(agenda', EndCalls(x), {Call("__assign__", x)})
      BY <3>2, <3>4, <3>5, PrecededRest
    <3>7. Call("__assign__", x) \in Runs(s)'
      <4>1. Covers(Call("__assign__", x), s)'
        BY <2>3, Zenon DEF Covers
      <4>. QED
        BY <4>1, CallTypes DEF Runs
    <3>8. Preceded(agenda', EndsOf(x, s), Runs(s)')
      BY <3>6, <3>7, EndsAre, PrecededMore
    <3>. QED
      BY <3>8 DEF EndsAfter, Preceded, EndsOf
  <2>. QED
    BY <1>2, <2>1, <2>2, <2>3, ProposedBy
<1>. QED
  BY <1>1, <1>2 DEF WinsInv

LEMMA NextWins == Inv /\ BeginInv /\ OfferInv /\ WinsInv /\ [Next]_vars => WinsInv'
<1>. SUFFICES ASSUME Inv, BeginInv, OfferInv, WinsInv, [Next]_vars PROVE WinsInv'
  OBVIOUS
<1>1. CASE UNCHANGED vars
  <2>. USE <1>1 DEF vars, varState, solverState
  <2>1. \A x \in Vars : EndsFollow(x)' = EndsFollow(x)
    BY DEF EndsFollow, Preceded, EndCalls
  <2>2. \A x \in Vars, s \in Solvers : EndsAfter(x, s) => EndsAfter(x, s)'
    <3>1. CoversStay
      BY CoversFrame
    <3>2. ASSUME NEW x \in Vars, NEW s \in Solvers, EndsAfter(x, s)
          PROVE  EndsAfter(x, s)'
      <4>1. Runs(s) \subseteq Runs(s)'
        BY <3>1 DEF Runs, CoversStay
      <4>2. Preceded(agenda', EndsOf(x, s), Runs(s)')
        BY <3>2, <4>1 DEF EndsAfter, Preceded
      <4>. QED
        BY <4>2 DEF EndsAfter, Preceded, EndsOf
    <3>. QED
      BY <3>2
  <2>. QED
    BY <2>1, <2>2 DEF WinsInv, Pending, CallsIn, ValueOf
<1>. QED
  BY <1>1, WinsStep, WinsProgram, Zenon DEF Next

(* The order in which an assignment calls the solvers never breaks up: what *)
(* withdraws a proposal comes after a run of the solver that got it.        *)
THEOREM WinsInvHolds == Spec => []WinsInv
  BY InitWins, NextWins, ModelInvHolds, ReaderInvHolds, InvHolds, PTL DEF Spec

(* When a proposed equality is withdrawn in the regular way, the solver has *)
(* adopted the value: __assign__ ran it in between, and so did              *)
(* assign_value and update_downstream_variables for the other solvers       *)
(* (constraintinterpreter.py:171-211, 340-372; libz3.rb:66-80).             *)
THEOREM AssignedValueWins == Spec => AssignedWins
<1>1. Inv /\ WinsInv /\ [Next]_vars =>
        [\A x \in Vars, s \in Solvers :
           proposal[x][s] # NoValue /\ proposal'[x][s] = NoValue
             => ValueOf(x, s) = proposal[x][s]]_vars
  <2>. SUFFICES ASSUME Inv, WinsInv, Next, NEW x \in Vars, NEW s \in Solvers,
                       proposal[x][s] # NoValue, proposal'[x][s] = NoValue
                PROVE  ValueOf(x, s) = proposal[x][s]
    OBVIOUS
  <2>1. EndAssign /\ agenda # <<>> /\ agenda[1] = Call("end_assign", <<x, s>>)
    <3>1. UserStep => UNCHANGED proposal
      BY DEF UserStep, Always, AlwaysRaises, Enable, Disable, SetStrength, Read, Assign,
         MultiAssign, solverState
    <3>2. Step
      BY <3>1 DEF Next
    <3>3. NoValue \notin Values
      BY ConstantsAssumption
    <3>4. EndAssign /\ agenda[1] = Call("end_assign", <<x, s>>)
      BY <3>2, <3>3, ProposedBy
    <3>. QED
      BY <3>4 DEF EndAssign, Running
  <2>2. ~EndsAfter(x, s)
    <3>1. agenda \in Seq(Calls) /\ agenda[1] \in EndsOf(x, s)
      BY <2>1 DEF EndsOf, Inv, TypeOK
    <3>2. 1 \in DOMAIN agenda /\ \A j \in DOMAIN agenda : ~(j < 1)
      BY <2>1, <3>1
    <3>. QED
      BY <3>1, <3>2 DEF EndsAfter, Preceded
  <2>. QED
    BY <2>2 DEF WinsInv
<1>. QED
  BY <1>1, WinsInvHolds, InvHolds, PTL DEF Spec, AssignedWins

-----------------------------------------------------------------------------
(* Where a block is attached to a variable.                                *)
At(x, c, i, j) ==
  /\ i \in DOMAIN solvers_w[x] /\ solvers_w[x][i] = SolverOf[c]
  /\ j \in DOMAIN constraints_w[x][SolverOf[c]]
  /\ constraints_w[x][SolverOf[c]][j] = c

(* Only solvers that support a variable know it, and a block is attached   *)
(* to each variable it read as a constant.                                 *)
ExternalSupported == \A x \in Vars : \A s \in external[x] : <<x, s>> \in Supported
Attached == \A c \in Cons : HasPrimitive(c) =>
  \A x \in DOMAIN env[c] : \E i, j \in Nat : At(x, c, i, j)
AttachInv == ExternalSupported /\ Attached

(* Nothing that was attached moves.                                        *)
SlotsGrow ==
  \A x \in Vars :
    /\ \A i \in DOMAIN solvers_w[x] :
         i \in DOMAIN solvers_w'[x] /\ solvers_w'[x][i] = solvers_w[x][i]
    /\ \A s \in Solvers : \A j \in DOMAIN constraints_w[x][s] :
         /\ j \in DOMAIN constraints_w'[x][s]
         /\ constraints_w'[x][s][j] = constraints_w[x][s][j]

LEMMA LookUpGrows ==
  ASSUME Inv, NEW x \in Vars, LookUpDefining(x), UNCHANGED constraints_w
  PROVE  SlotsGrow
<1>1. solvers_w \in [Vars -> Seq(Solvers \cup {NoSolver})]
  BY DEF Inv, TypeOK
<1>2. solvers_w' \in {solvers_w, [solvers_w EXCEPT ![x] = Append(@, NoSolver)]}
  BY DEF LookUpDefining
<1>3. ASSUME NEW y \in Vars, NEW i \in DOMAIN solvers_w[y]
      PROVE  i \in DOMAIN solvers_w'[y] /\ solvers_w'[y][i] = solvers_w[y][i]
  <2>1. solvers_w[y] \in Seq(Solvers \cup {NoSolver})
    BY <1>1
  <2>2. solvers_w'[y] \in {solvers_w[y], Append(solvers_w[y], NoSolver)}
    BY <1>1, <1>2
  <2>. QED
    BY <2>1, <2>2
<1>. QED
  BY <1>3 DEF SlotsGrow

LEMMA MeetGrows ==
  ASSUME Inv, NEW c \in Cons, NEW met \in SUBSET Vars, NEW reads \in SUBSET met,
         MeetVariables(c, reads, met)
  PROVE  /\ SlotsGrow
         /\ \A x \in reads : \E i, j \in Nat : At(x, c, i, j)'
         /\ ExternalSupported => ExternalSupported'
<1>. DEFINE s == SolverOf[c]
            joins == {x \in reads : Joins(x, s)}
            new(x) == x \in reads /\ \A i \in DOMAIN constraints_w[x][s] : constraints_w[x][s][i] # c
<1>1. s \in Solvers /\ reads \subseteq Vars /\ reads \subseteq met
  BY ConstantsAssumption
<1>2. /\ solvers_w' = [x \in Vars |-> IF x \in met THEN SlotsWith(x, s) ELSE solvers_w[x]]
      /\ external' = [x \in Vars |-> IF x \in joins THEN external[x] \cup {s} ELSE external[x]]
      /\ constraints_w' = [x \in Vars |->
           IF new(x) THEN [constraints_w[x] EXCEPT ![s] = Append(@, c)] ELSE constraints_w[x]]
  BY DEF MeetVariables
<1>3. ASSUME NEW x \in Vars
      PROVE  /\ solvers_w[x] \in Seq(Solvers \cup {NoSolver})
             /\ constraints_w[x] \in [Solvers -> Seq(Cons)] /\ constraints_w[x][s] \in Seq(Cons)
             /\ solvers_w'[x] = IF x \in met THEN SlotsWith(x, s) ELSE solvers_w[x]
             /\ constraints_w'[x] = IF new(x) THEN [constraints_w[x] EXCEPT ![s] = Append(@, c)]
                                              ELSE constraints_w[x]
  <2>. HIDE DEF s, new
  <2>. QED
    BY <1>1, <1>2 DEF Inv, TypeOK
<1>4. ASSUME NEW x \in Vars, NEW t \in Solvers, NEW j \in DOMAIN constraints_w[x][t]
      PROVE  /\ j \in DOMAIN constraints_w'[x][t]
             /\ constraints_w'[x][t][j] = constraints_w[x][t][j]
  <2>1. CASE ~new(x)
    BY <1>3, <2>1
  <2>2. CASE new(x)
    <3>1. /\ constraints_w[x] \in [Solvers -> Seq(Cons)]
          /\ constraints_w'[x] = [constraints_w[x] EXCEPT ![s] = Append(@, c)]
      BY <1>3, <2>2
    <3>. HIDE DEF s, new
    <3>2. constraints_w'[x][t] = IF t = s THEN Append(constraints_w[x][s], c)
                                          ELSE constraints_w[x][t]
      BY <1>1, <3>1
    <3>3. constraints_w[x][t] \in Seq(Cons)
      BY <3>1
    <3>4. CASE t = s
      <4>. DEFINE q == constraints_w[x][t]
      <4>1. q \in Seq(Cons) /\ j \in DOMAIN q /\ constraints_w'[x][t] = Append(q, c)
        BY <1>4, <3>2, <3>3, <3>4
      <4>. HIDE DEF q
      <4>2. j \in DOMAIN Append(q, c) /\ Append(q, c)[j] = q[j]
        BY <4>1
      <4>. QED
        BY <4>1, <4>2 DEF q
    <3>. QED
      BY <1>4, <3>2, <3>4
  <2>. QED
    BY <2>1, <2>2
<1>5. ASSUME NEW x \in Vars, NEW i \in DOMAIN solvers_w[x]
      PROVE  i \in DOMAIN solvers_w'[x] /\ solvers_w'[x][i] = solvers_w[x][i]
  <2>1. TypeOK
    BY DEF Inv
  <2>2. i \in DOMAIN SlotsWith(x, s) /\ SlotsWith(x, s)[i] = solvers_w[x][i]
    BY <1>1, <1>5, <2>1, SlotsWithKnown
  <2>3. solvers_w'[x] \in {SlotsWith(x, s), solvers_w[x]}
    BY <1>3
  <2>. HIDE DEF s
  <2>. QED
    BY <1>5, <2>2, <2>3
<1>6. SlotsGrow
  BY <1>4, <1>5 DEF SlotsGrow
<1>7. ASSUME NEW x \in reads
      PROVE  \E i, j \in Nat : At(x, c, i, j)'
  <2>1. x \in reads /\ x \in Vars /\ x \in met
    BY <1>1
  <2>2. PICK i \in Nat : i \in DOMAIN solvers_w'[x] /\ solvers_w'[x][i] = s
    <3>1. PICK i \in DOMAIN SlotsWith(x, s) : SlotsWith(x, s)[i] = s
      BY <1>1, <2>1, SlotsWithKnown DEF Inv
    <3>2. SlotsWith(x, s) \in Seq(Solvers \cup {NoSolver})
      BY <1>1, <2>1, SlotsWithKnown DEF Inv
    <3>3. solvers_w'[x] = SlotsWith(x, s)
      BY <1>3, <2>1
    <3>. HIDE DEF s
    <3>4. i \in Nat
      BY <3>1, <3>2
    <3>. QED
      BY <3>1, <3>3, <3>4
  <2>3. PICK j \in Nat : j \in DOMAIN constraints_w'[x][s] /\ constraints_w'[x][s][j] = c
    <3>1. CASE new(x)
      <4>. DEFINE q == constraints_w[x][s]
      <4>1. q \in Seq(Cons) /\ constraints_w'[x][s] = Append(q, c)
        BY <1>1, <1>3, <2>1, <3>1
      <4>. HIDE DEF q, s
      <4>2. Len(q) + 1 \in Nat /\ Len(q) + 1 \in DOMAIN Append(q, c)
              /\ Append(q, c)[Len(q) + 1] = c
        BY <4>1
      <4>. QED
        BY <4>1, <4>2, Zenon
    <3>2. CASE ~new(x)
      <4>1. PICK j \in DOMAIN constraints_w[x][s] : constraints_w[x][s][j] = c
        BY <2>1, <3>2
      <4>2. j \in Nat
        <5>1. constraints_w[x][s] \in Seq(Cons)
          BY <1>3, <2>1
        <5>. HIDE DEF s
        <5>. QED
          BY <4>1, <5>1
      <4>. QED
        BY <1>1, <1>4, <2>1, <4>1, <4>2
    <3>. QED
      BY <3>1, <3>2
  <2>. QED
    BY <2>2, <2>3 DEF At
<1>8. ExternalSupported => ExternalSupported'
  BY <1>2 DEF ExternalSupported, Joins
<1>. QED
  BY <1>6, <1>7, <1>8

LEMMA RunGrows ==
  ASSUME Inv, NEW c \in Cons, RunPredicate(c)
  PROVE  \A x \in Constants(c, stored) : \E i, j \in Nat : At(x, c, i, j)'
<1>. DEFINE reads == Reads(c, stored)
<1>1. reads \in SUBSET Vars /\ reads \in SUBSET reads /\ MeetVariables(c, reads, reads)
  BY ConstantsAssumption DEF Inv, TypeOK, RunPredicate
<1>2. Constants(c, stored) \subseteq reads
  BY DEF Constants
<1>. HIDE DEF reads
<1>. QED
  BY <1>1, <1>2, MeetGrows

(* What a step does to the places.                                         *)
LEMMA RunsOrLooks ==
  ASSUME Inv, Next
  PROVE  \/ \E c \in Cons : RunPredicate(c)
         \/ \E c \in Cons : /\ BreakOff(c) /\ DOMAIN env' = DOMAIN env
                            /\ env'[c] \in {env[c], Emptied}
                            /\ \A d \in Cons : d # c => env'[d] = env[d]
         \/ /\ UNCHANGED <<external, constraints_w, env>>
            /\ UNCHANGED solvers_w \/ \E x \in Vars : LookUpDefining(x)
<1>. USE DEF varState
<1>1. CASE BeginAssignVariable
  BY <1>1, BeginAssignVariableDoes
<1>2. CASE AssignVariable
  BY <1>2, AssignVariableLeaves
<1>3. CASE Recalculate
  BY <1>3, RecalculateLeaves
<1>4. CASE \/ AssignOthers \/ GetI \/ UpdateDownstreamVariables \/ EndAssignVariable
           \/ MakeNotAssignable \/ RecalculatePath \/ BeginAssign \/ Solve \/ EndAssign
           \/ EnableConstraint \/ SetEnabled
  BY <1>4 DEF AssignOthers, GetI, UpdateDownstreamVariables, EndAssignVariable,
     MakeNotAssignable, RecalculatePath, BeginAssign, Solve, EndAssign, EnableConstraint, SetEnabled
<1>5. CASE UserStep
  BY <1>5 DEF UserStep, Always, AlwaysRaises, Enable, Disable, SetStrength, Read, Assign,
     MultiAssign
<1>6. CASE RecalculateRaises
  <2>1. PICK c \in Cons : BreakOff(c) /\ env' = [env EXCEPT ![c] = Emptied]
    BY <1>6, RecalculateRaisesDoes
  <2>. QED
    BY <2>1 DEF Inv, TypeOK
<1>. QED
  BY <1>1, <1>2, <1>3, <1>4, <1>5, <1>6, Zenon DEF Next, Step

LEMMA NextGrows == Inv /\ Next => SlotsGrow
<1>. SUFFICES ASSUME Inv, Next PROVE SlotsGrow
  OBVIOUS
<1>1. UNCHANGED <<solvers_w, constraints_w>> => SlotsGrow
  BY DEF SlotsGrow
<1>2. \A c \in Cons : Meets(c) => SlotsGrow
  BY MeetGrows DEF Meets
<1>. QED
  BY <1>1, <1>2, RunsOrLooks, RunMeets, BreakMeets, LookUpGrows

LEMMA AtStays ==
  ASSUME SlotsGrow, NEW x \in Vars, NEW c \in Cons, NEW i, NEW j, At(x, c, i, j)
  PROVE  At(x, c, i, j)'
<1>1. SolverOf[c] \in Solvers
  BY ConstantsAssumption
<1>. QED
  BY <1>1 DEF At, SlotsGrow

(* What a block has read as a constant is a variable its solver does not   *)
(* know, now or ever.                                                      *)
LEMMA EnvConstants ==
  ASSUME Inv, NEW c \in Cons, HasPrimitive(c)
  PROVE  /\ \E m \in [Vars -> Values] : env[c] = SnapshotOf(c, m)
         /\ \A x \in DOMAIN env[c] : x \in Vars /\ <<x, SolverOf[c]>> \notin Supported
<1>1. PICK m \in [Vars -> Values] : env[c] = SnapshotOf(c, m)
  BY DEF HasPrimitive, Inv, TypeOK, Envs
<1>2. DOMAIN env[c] = Constants(c, m) /\ Reads(c, m) \subseteq Vars
  BY <1>1, ConstantsAssumption DEF SnapshotOf
<1>. QED
  BY <1>1, <1>2 DEF Constants

LEMMA NextAttached == Inv /\ AttachInv /\ [Next]_vars => AttachInv'
<1>. SUFFICES ASSUME Inv, AttachInv, [Next]_vars PROVE AttachInv'
  OBVIOUS
<1>1. CASE UNCHANGED vars
  BY <1>1 DEF vars, varState, AttachInv, ExternalSupported, Attached, At, HasPrimitive
<1>2. ASSUME SlotsGrow, NEW d \in Cons, env'[d] = env[d], HasPrimitive(d)',
             NEW x \in DOMAIN env'[d]
      PROVE  \E i, j \in Nat : At(x, d, i, j)'
  <2>1. PICK i \in Nat, j \in Nat : At(x, d, i, j)
    BY <1>2 DEF AttachInv, Attached, HasPrimitive
  <2>2. x \in Vars
    BY <1>2, EnvConstants DEF HasPrimitive
  <2>. QED
    BY <1>2, <2>1, <2>2, AtStays
<1>3. ASSUME NEW c \in Cons, Meets(c)
      PROVE  ExternalSupported'
  BY <1>3, MeetGrows DEF AttachInv, Meets
<1>4. ASSUME Next, NEW c \in Cons, RunPredicate(c)
      PROVE  AttachInv'
  <2>1. /\ env' = [env EXCEPT ![c] = SnapshotOf(c, stored)] /\ DOMAIN env = Cons
        /\ DOMAIN SnapshotOf(c, stored) = Constants(c, stored)
    BY <1>4 DEF RunPredicate, Snapshot, SnapshotOf, Inv, TypeOK
  <2>2. ASSUME NEW d \in Cons, HasPrimitive(d)', NEW x \in DOMAIN env'[d]
        PROVE  \E i, j \in Nat : At(x, d, i, j)'
    <3>1. CASE d = c
      BY <1>4, <2>1, <2>2, <3>1, RunGrows
    <3>2. CASE d # c
      BY <1>2, <1>4, <2>1, <2>2, <3>2, NextGrows
    <3>. QED
      BY <3>1, <3>2
  <2>3. Attached'
    BY <2>2, Zenon DEF Attached
  <2>4. ExternalSupported'
    BY <1>4, <1>3, RunMeets
  <2>. QED
    BY <2>3, <2>4 DEF AttachInv
<1>5. ASSUME Next, UNCHANGED <<external, constraints_w, env>>
      PROVE  AttachInv'
  <2>1. SlotsGrow
    BY <1>5, NextGrows
  <2>2. Attached'
    BY <1>2, <1>5, <2>1 DEF Attached, HasPrimitive
  <2>. QED
    BY <1>5, <2>2 DEF AttachInv, ExternalSupported
<1>6. ASSUME Next, NEW c \in Cons, BreakOff(c), env'[c] \in {env[c], Emptied},
             \A d \in Cons : d # c => env'[d] = env[d]
      PROVE  AttachInv'
  <2>1. SlotsGrow /\ ExternalSupported'
    BY <1>3, <1>6, NextGrows, BreakMeets
  <2>2. ASSUME NEW d \in Cons, HasPrimitive(d)' PROVE env'[d] = env[d]
    BY <1>6, <2>2 DEF HasPrimitive
  <2>3. Attached'
    BY <1>2, <2>1, <2>2 DEF Attached
  <2>. QED
    BY <2>1, <2>3 DEF AttachInv
<1>. QED
  BY <1>1, <1>4, <1>5, <1>6, RunsOrLooks

-----------------------------------------------------------------------------
(* A constraint that is enabled or about to be, one whose enabling is not   *)
(* under way counts for nothing: its block runs again before it does.       *)
Live(c) == \/ enabled[c]
           \/ Call("enable", c) \in Pending
           \/ Call("set_enabled", c) \in Pending

(* The pending calls that run the block again for a change of x.           *)
Follows(x, c, i0, j0) ==
  \E i, j \in Nat : At(x, c, i, j) /\ NotBefore(<<i, j>>, <<i0, j0>>)
Visit(call, c, x) ==
  \/ call \in PinCalls(x)
  \/ call = Call("recalculate", c)
  \/ \E i0, j0 \in Nat : call = Call("recalculate_path", <<x, i0, j0>>) /\ Follows(x, c, i0, j0)
VisitSoon(c, x) == \E call \in Pending : Visit(call, c, x)
SnapInv ==
  ~raised => \A c \in Cons : Live(c) => \A x \in DOMAIN env[c] :
               stored[x] = env[c][x] \/ VisitSoon(c, x)

LEMMA LiveKnown == Inv /\ ~raised => \A c \in Cons : Live(c) => HasPrimitive(c)
<1>. SUFFICES ASSUME Inv, ~raised, NEW c \in Cons, Live(c) PROVE env[c] # NoEnv
  BY PrimitiveKept
<1>1. \A call \in Pending : PendingOK(call)
  BY DEF Inv, PendingCalls, Pending, CallsIn
<1>. QED
  BY <1>1, CallIs DEF Live, PendingOK, Inv, RunBlocks

LEMMA VisitStays ==
  ASSUME SlotsGrow, NEW x \in Vars, NEW c \in Cons, NEW call, Visit(call, c, x)
  PROVE  Visit(call, c, x)'
<1>1. ASSUME NEW i0 \in Nat, NEW j0 \in Nat, Follows(x, c, i0, j0)
      PROVE  Follows(x, c, i0, j0)'
  BY <1>1, AtStays, Zenon DEF Follows, NotBefore
<1>. QED
  BY <1>1, Zenon DEF Visit, PinCalls

(* An attached block comes after the first place of all.                   *)
LEMMA AllFollow ==
  ASSUME AttachInv, Inv, NEW c \in Cons, HasPrimitive(c), NEW x \in DOMAIN env[c]
  PROVE  Follows(x, c, 1, 1)
<1>1. PICK i \in Nat, j \in Nat : At(x, c, i, j)
  BY DEF AttachInv, Attached
<1>2. x \in Vars /\ SolverOf[c] \in Solvers
  BY EnvConstants, ConstantsAssumption
<1>3. i \in DOMAIN solvers_w[x] /\ j \in DOMAIN constraints_w[x][SolverOf[c]]
  BY <1>1 DEF At
<1>4. i >= 1 /\ j >= 1
  <2>1. solvers_w[x] \in Seq(Solvers \cup {NoSolver}) /\ constraints_w[x][SolverOf[c]] \in Seq(Cons)
    BY <1>2 DEF Inv, TypeOK
  <2>. QED
    BY <1>3, <2>1
<1>5. NotBefore(<<i, j>>, <<1, 1>>)
  BY <1>4 DEF NotBefore
<1>. QED
  BY <1>1, <1>5 DEF Follows

LEMMA AtIsOnPath ==
  ASSUME Inv, AttachInv, NEW c \in Cons, HasPrimitive(c), NEW x \in DOMAIN env[c],
         NEW i \in Nat, NEW j \in Nat, At(x, c, i, j)
  PROVE  <<i, j>> \in PathBlocks(x) /\ BlockAt(x, <<i, j>>) = c
<1>1. x \in Vars /\ <<x, SolverOf[c]>> \notin Supported /\ SolverOf[c] \in Solvers
  BY EnvConstants, ConstantsAssumption
<1>2. SolverOf[c] \in Solvers \ external[x]
  BY <1>1 DEF AttachInv, ExternalSupported
<1>3. i \in PathSlots(x) /\ j \in DOMAIN constraints_w[x][solvers_w[x][i]]
  BY <1>1, <1>2 DEF At, PathSlots
<1>4. <<i, j>> \in {i} \X DOMAIN constraints_w[x][solvers_w[x][i]]
  BY <1>3
<1>. QED
  BY <1>3, <1>4 DEF At, BlockAt, PathBlocks

(* What a step adds to what is live.                                       *)
NothingLiver == \A c \in Cons : Live(c)' => Live(c)

LEMMA LiverStep ==
  ASSUME Inv, UNCHANGED enabled,
         \A call \in Pending' : call \in Pending \/ call.fn \notin {"enable", "set_enabled"}
  PROVE  NothingLiver
  BY CallIs DEF NothingLiver, Live

LEMMA SnapGoesOn ==
  ASSUME Inv, AttachInv, SnapInv, SlotsGrow, NothingLiver, agenda # <<>>,
         UNCHANGED <<env, stored, raised>>, Behind \subseteq Pending',
         \A c \in Cons, x \in Vars :
           Visit(agenda[1], c, x) /\ HasPrimitive(c) /\ x \in DOMAIN env[c] => VisitSoon(c, x)'
  PROVE  SnapInv'
<1>. SUFFICES ASSUME ~raised, NEW c \in Cons, Live(c), NEW x \in DOMAIN env[c],
                     stored[x] # env[c][x]
              PROVE  VisitSoon(c, x)'
  BY DEF SnapInv, NothingLiver
<1>1. HasPrimitive(c) /\ x \in Vars
  BY LiveKnown, EnvConstants
<1>2. PICK call \in Pending : Visit(call, c, x)
  BY DEF SnapInv, VisitSoon
<1>3. CASE call = agenda[1]
  BY <1>1, <1>2, <1>3
<1>4. CASE call \in Behind
  <2>1. Visit(call, c, x)'
    BY <1>1, <1>2, VisitStays
  <2>. QED
    BY <1>4, <2>1 DEF VisitSoon
<1>. QED
  BY <1>2, <1>3, <1>4, PendingNow

LEMMA NoVisit ==
  ASSUME agenda[1].fn \notin {"make_not_assignable", "update_downstream_variables",
                              "__end_assign__", "recalculate", "recalculate_path"}
  PROVE  \A c \in Cons, x \in Vars : ~Visit(agenda[1], c, x)
<1>. SUFFICES ASSUME NEW c \in Cons, NEW x \in Vars, Visit(agenda[1], c, x) PROVE FALSE
  OBVIOUS
<1>1. agenda[1] \notin PinCalls(x)
  BY PinCallsApart
<1>2. agenda[1] # Call("recalculate", c)
  BY CallIs
<1>3. \A i0, j0 \in Nat : agenda[1] # Call("recalculate_path", <<x, i0, j0>>)
  BY CallIs
<1>. QED
  BY <1>1, <1>2, <1>3 DEF Visit

LEMMA SnapRaise == raised' => SnapInv'
  BY DEF SnapInv

(* Calls that no variable waits for.                                       *)
LEMMA SnapQuiet ==
  ASSUME Inv, AttachInv, SnapInv, Next, NothingLiver, agenda # <<>>,
         UNCHANGED <<env, stored, raised>>, Behind \subseteq Pending',
         agenda[1].fn \notin {"make_not_assignable", "update_downstream_variables",
                              "__end_assign__", "recalculate", "recalculate_path"}
  PROVE  SnapInv'
<1>1. \A c \in Cons, x \in Vars : ~Visit(agenda[1], c, x)
  BY NoVisit
<1>2. SlotsGrow
  BY NextGrows
<1>. QED
  BY <1>1, <1>2, SnapGoesOn

(* The calls that change no constant and that no constant waits for.       *)
LEMMA SnapOtherCalls ==
  ASSUME Inv, AttachInv, SnapInv,
         \/ AssignVariable \/ AssignOthers \/ BeginAssign \/ Solve \/ EndAssign
         \/ EnableConstraint \/ SetEnabled
  PROVE  SnapInv'
<1>. USE DEF varState, solverState
<1>1. Next
  BY DEF Next, Step
<1>2. agenda # <<>> => Pending = {agenda[1]} \cup Behind
  BY PendingNow
<1>3. agenda # <<>> /\ agenda' = Tail(agenda) /\ UNCHANGED enabled => NothingLiver
  BY <1>2, PendingFew, LiverStep
<1>4. CASE AssignVariable \/ AssignOthers
  <2>1. /\ agenda # <<>> /\ agenda[1].fn \in {"__assign__", "assign others"}
        /\ UNCHANGED <<env, stored, raised, enabled>>
    BY <1>4, AssignVariableLeaves, AssignOthersDoes, CallIs
  <2>2. /\ Behind \subseteq Pending'
        /\ \A call \in Pending' : call \in Behind \/ call.fn \in Additions
    BY <1>4, VariableCallsAdd DEF Adds
  <2>3. NothingLiver
    BY <1>2, <2>1, <2>2, LiverStep DEF Additions
  <2>. QED
    BY <1>1, <2>1, <2>2, <2>3, SnapQuiet
<1>5. CASE BeginAssign \/ Solve \/ EndAssign
  <2>1. /\ agenda # <<>> /\ agenda[1].fn \in {"begin_assign", "solve", "end_assign"}
        /\ UNCHANGED <<env, stored, enabled>>
        /\ (agenda' = Tail(agenda) /\ UNCHANGED raised) \/ raised' = TRUE
    <3>1. BeginAssign => /\ agenda # <<>> /\ agenda[1].fn = "begin_assign"
                         /\ UNCHANGED <<env, stored, enabled, raised>> /\ agenda' = Tail(agenda)
      BY BeginAssignDoes, CallIs, Zenon
    <3>2. Solve => /\ agenda # <<>> /\ agenda[1].fn = "solve"
                   /\ UNCHANGED <<env, stored, enabled>>
                   /\ (agenda' = Tail(agenda) /\ UNCHANGED raised) \/ raised' = TRUE
      BY SolveDoes, CallIs, Zenon
    <3>3. EndAssign => /\ agenda # <<>> /\ agenda[1].fn = "end_assign"
                       /\ UNCHANGED <<env, stored, enabled>>
                       /\ (agenda' = Tail(agenda) /\ UNCHANGED raised) \/ raised' = TRUE
      BY EndAssignDoes, CallIs, Zenon
    <3>. QED
      BY <1>5, <3>1, <3>2, <3>3
  <2>2. agenda' = Tail(agenda) => Behind \subseteq Pending'
    BY <2>1, PendingFew
  <2>. QED
    BY <1>1, <1>3, <2>1, <2>2, SnapQuiet, SnapRaise
<1>6. CASE EnableConstraint
  <2>1. PICK c \in Cons :
          /\ agenda # <<>> /\ agenda[1] = Call("enable", c)
          /\ UNCHANGED <<env, stored, enabled>>
          /\ \/ UNCHANGED raised /\ Pending' = Behind
             \/ UNCHANGED raised /\ Pending' = {Call("set_enabled", c)} \cup Behind
             \/ /\ UNCHANGED raised
                /\ Pending' = {Call("solve", SolverOf[c]), Call("set_enabled", c)} \cup Behind
             \/ raised' = TRUE
    BY <1>6, EnableConstraintLeaves
  <2>2. CASE raised' = TRUE
    BY <2>2, SnapRaise
  <2>3. CASE UNCHANGED raised /\ raised' # TRUE
    <3>1. Live(c)
      BY <1>2, <2>1 DEF Live
    <3>2. /\ enabled' = enabled
          /\ \A call \in Pending' : \/ call \in Pending \/ call.fn = "solve"
                                    \/ call = Call("set_enabled", c)
      <4>1. /\ enabled' = enabled /\ Pending = {agenda[1]} \cup Behind
            /\ Call("solve", SolverOf[c]).fn = "solve"
        BY <1>2, <2>1, CallIs, Zenon
      <4>2. Pending' \subseteq {Call("solve", SolverOf[c]), Call("set_enabled", c)} \cup Behind
        BY <2>1, <2>3
      <4>. QED
        BY <4>1, <4>2, Zenon
    <3>4. NothingLiver
      <4>. SUFFICES ASSUME NEW d \in Cons, Live(d)', ~Live(d) PROVE FALSE
        BY DEF NothingLiver
      <4>1. d # c
        BY <3>1
      <4>2. Call("set_enabled", d) # Call("set_enabled", c)
        BY <4>1, CallsEqual
      <4>3. Call("enable", d) # Call("set_enabled", c)
        BY CallsEqual
      <4>. QED
        BY <3>2, <4>2, <4>3, CallIs DEF Live
    <3>3. Behind \subseteq Pending' /\ agenda[1].fn = "enable"
      BY <2>1, <2>3, CallIs
    <3>. QED
      BY <1>1, <2>1, <2>3, <3>3, <3>4, SnapQuiet
  <2>. QED
    BY <2>1, <2>2, <2>3 DEF Inv, TypeOK
<1>7. CASE SetEnabled
  <2>1. PICK c \in Cons :
          /\ agenda # <<>> /\ agenda[1] = Call("set_enabled", c)
          /\ enabled' = [enabled EXCEPT ![c] = TRUE]
          /\ agenda' = Tail(agenda)
          /\ UNCHANGED <<env, stored, raised>>
    BY <1>7, SetEnabledDoes
  <2>2. Pending' = Behind /\ agenda[1].fn = "set_enabled"
    BY <2>1, PendingFew, CallIs
  <2>3. Live(c)
    BY <1>2, <2>1 DEF Live
  <2>4. \A d \in Cons : d # c => enabled'[d] = enabled[d]
    BY <2>1 DEF Inv, TypeOK
  <2>5. NothingLiver
    BY <1>2, <2>1, <2>2, <2>3, <2>4 DEF NothingLiver, Live
  <2>. QED
    BY <1>1, <2>1, <2>2, <2>5, SnapQuiet
<1>. QED
  BY <1>4, <1>5, <1>6, <1>7

(* An assignment to a constant will be followed: what begins it is still   *)
(* to end it.                                                              *)
LEMMA SnapBegins ==
  ASSUME Inv, BeginInv, AttachInv, SnapInv, BeginAssignVariable
  PROVE  SnapInv'
<1>1. PICK y \in Vars, v \in Values :
        /\ agenda # <<>> /\ agenda[1] = Call("__begin_assign__", <<y, v>>)
        /\ agenda' = Tail(agenda) /\ stored' = [stored EXCEPT ![y] = v]
        /\ UNCHANGED <<env, enabled, raised>>
  BY BeginAssignVariableDoes
<1>2. /\ Pending = {agenda[1]} \cup Behind /\ Pending' = Behind
      /\ agenda[1].fn = "__begin_assign__"
  BY <1>1, PendingNow, PendingFew, CallIs
<1>3. SlotsGrow
  BY NextGrows DEF Next, Step
<1>4. NothingLiver
  BY <1>1, <1>2, LiverStep
<1>. SUFFICES ASSUME ~raised, NEW c \in Cons, Live(c), NEW x \in DOMAIN env[c],
                     stored'[x] # env[c][x]
              PROVE  VisitSoon(c, x)'
  BY <1>1, <1>4 DEF SnapInv, NothingLiver
<1>5. HasPrimitive(c) /\ x \in Vars
  BY LiveKnown, EnvConstants
<1>6. CASE x = y
  <2>1. PICK i \in Nat, j \in Nat : At(x, c, i, j)
    BY <1>5 DEF AttachInv, Attached
  <2>2. IsConstrained(x)
    BY <2>1 DEF At, IsConstrained
  <2>3. Call("__end_assign__", <<x, 1>>) \in Pending
    BY <1>1, <1>2, <1>6, <2>2 DEF BeginInv, BegunIsEnded, Started
  <2>4. Call("__end_assign__", <<x, 1>>) \in Pending'
    BY <1>2, <2>3, CallIs
  <2>5. Call("__end_assign__", <<x, 1>>) \in PinCalls(x)
    <3>1. 1 \in Nat
      OBVIOUS
    <3>. QED
      BY <3>1, Zenon DEF PinCalls
  <2>6. Visit(Call("__end_assign__", <<x, 1>>), c, x)'
    BY <2>5 DEF Visit, PinCalls
  <2>. QED
    BY <2>4, <2>6, Zenon DEF VisitSoon
<1>7. CASE x # y
  <2>1. stored[x] # env[c][x]
    BY <1>1, <1>5, <1>7 DEF Inv, TypeOK
  <2>2. PICK call \in Pending : Visit(call, c, x)
    BY <2>1 DEF SnapInv, VisitSoon
  <2>3. call # agenda[1]
    BY <1>2, <1>5, <2>2, NoVisit
  <2>4. Visit(call, c, x)'
    BY <1>3, <1>5, <2>2, VisitStays
  <2>. QED
    BY <1>2, <2>2, <2>3, <2>4 DEF VisitSoon
<1>. QED
  BY <1>6, <1>7

(* So will a value that comes out of a solver: a variable that is solved   *)
(* by one solver and a constant to a block of another has met both.        *)
LEMMA SnapGets ==
  ASSUME Inv, AttachInv, SnapInv, GetI
  PROVE  SnapInv'
<1>1. PICK y \in Vars :
        /\ agenda # <<>> /\ agenda[1] = Call("get_i", y) /\ DefiningSolver(y) \in external[y]
        /\ stored' = [stored EXCEPT ![y] = ValueOf(y, DefiningSolver(y))]
        /\ UNCHANGED <<env, enabled, raised>>
        /\ \/ /\ IsShared(y)
              /\ Pending' = {Call("update_downstream_variables", <<y, 1>>)} \cup Behind
           \/ ~IsShared(y) /\ Pending' = Behind
  BY GetILeaves, Zenon
<1>2. Pending = {agenda[1]} \cup Behind /\ agenda[1].fn = "get_i" /\ Behind \subseteq Pending'
  BY <1>1, PendingNow, CallIs
<1>3. SlotsGrow
  BY NextGrows DEF Next, Step
<1>4. NothingLiver
  BY <1>1, <1>2, LiverStep, CallIs
<1>. SUFFICES ASSUME ~raised, NEW c \in Cons, Live(c), NEW x \in DOMAIN env[c],
                     stored'[x] # env[c][x]
              PROVE  VisitSoon(c, x)'
  BY <1>1, <1>4 DEF SnapInv, NothingLiver
<1>5. HasPrimitive(c) /\ x \in Vars /\ <<x, SolverOf[c]>> \notin Supported
  BY LiveKnown, EnvConstants
<1>6. CASE x = y
  <2>1. PICK i \in Nat, j \in Nat : At(x, c, i, j)
    BY <1>5 DEF AttachInv, Attached
  <2>2. PICK k \in DOMAIN solvers_w[x] : solvers_w[x][k] = DefiningSolver(x)
    BY <1>1, <1>6 DEF Inv, SlotsKnown
  <2>3. DefiningSolver(x) # SolverOf[c]
    BY <1>1, <1>5, <1>6 DEF AttachInv, ExternalSupported
  <2>4. IsShared(x)
    <3>. DEFINE q == solvers_w[x]
    <3>1. q \in Seq(Solvers \cup {NoSolver}) /\ i \in DOMAIN q /\ k \in DOMAIN q /\ i # k
      BY <1>5, <2>1, <2>2, <2>3 DEF At, Inv, TypeOK
    <3>2. Len(q) > 1
      <4>. HIDE DEF q
      <4>. QED
        BY <3>1
    <3>. QED
      BY <3>2 DEF IsShared
  <2>5. Call("update_downstream_variables", <<x, 1>>) \in Pending'
    BY <1>1, <1>6, <2>4
  <2>6. Call("update_downstream_variables", <<x, 1>>) \in PinCalls(x)
    <3>1. 1 \in Nat
      OBVIOUS
    <3>. QED
      BY <3>1, Zenon DEF PinCalls
  <2>7. Visit(Call("update_downstream_variables", <<x, 1>>), c, x)'
    BY <2>6 DEF Visit, PinCalls
  <2>. QED
    BY <2>5, <2>7, Zenon DEF VisitSoon
<1>7. CASE x # y
  <2>1. stored[x] # env[c][x]
    BY <1>1, <1>5, <1>7 DEF Inv, TypeOK
  <2>2. PICK call \in Pending : Visit(call, c, x)
    BY <2>1 DEF SnapInv, VisitSoon
  <2>3. call # agenda[1]
    BY <1>2, <1>5, <2>2, NoVisit
  <2>4. Visit(call, c, x)'
    BY <1>3, <1>5, <2>2, VisitStays
  <2>. QED
    BY <1>2, <2>2, <2>3, <2>4 DEF VisitSoon
<1>. QED
  BY <1>6, <1>7

(* The loops hand over to make_not_assignable, and that to                 *)
(* recalculate_path from the first place on.                               *)
LEMMA SnapLoops ==
  ASSUME Inv, AttachInv, SnapInv,
         UpdateDownstreamVariables \/ EndAssignVariable \/ MakeNotAssignable
  PROVE  SnapInv'
<1>. USE DEF varState, solverState
<1>1. PICK y \in Vars :
        /\ agenda # <<>> /\ UNCHANGED <<env, stored, enabled, raised>>
        /\ agenda[1] \in PinCalls(y)
        /\ agenda[1].fn \in {"make_not_assignable", "update_downstream_variables", "__end_assign__"}
        /\ \/ \E call \in PinCalls(y) : call \in Pending'
           \/ Call("recalculate_path", <<y, 1, 1>>) \in Pending'
  <2>1. CASE UpdateDownstreamVariables
    <3>1. PICK x \in Vars, i \in Nat :
           /\ agenda # <<>> /\ agenda[1] = Call("update_downstream_variables", <<x, i>>)
           /\ UNCHANGED <<varState, enabled, env, solverState, raised>>
           /\ \/ Call("make_not_assignable", x) \in Pending'
              \/ \E j \in Nat : Call("update_downstream_variables", <<x, j + 1>>) \in Pending'
      BY <2>1, UpdateDownstreamVariablesLeaves
    <3>2. PinSoon(x)'
      <4>1. \A j \in Nat : j + 1 \in Nat
        OBVIOUS
      <4>. QED
        BY <3>1, <4>1, PinSoonOf, Zenon
    <3>3. agenda[1] \in PinCalls(x)
      BY <3>1, Zenon DEF PinCalls
    <3>. QED
      BY <3>1, <3>2, <3>3, PinCallsApart DEF PinSoon, PinCalls
  <2>2. CASE EndAssignVariable
    <3>1. PICK x \in Vars, i \in Nat :
           /\ agenda # <<>> /\ agenda[1] = Call("__end_assign__", <<x, i>>)
           /\ UNCHANGED <<varState, enabled, env, solverState, raised>>
           /\ \/ Call("make_not_assignable", x) \in Pending'
              \/ \E j \in Nat : Call("__end_assign__", <<x, j + 1>>) \in Pending'
      BY <2>2, EndAssignVariableLeaves
    <3>2. PinSoon(x)'
      <4>1. \A j \in Nat : j + 1 \in Nat
        OBVIOUS
      <4>. QED
        BY <3>1, <4>1, PinSoonOf, Zenon
    <3>3. agenda[1] \in PinCalls(x)
      BY <3>1, Zenon DEF PinCalls
    <3>. QED
      BY <3>1, <3>2, <3>3, PinCallsApart DEF PinSoon, PinCalls
  <2>3. CASE MakeNotAssignable
    <3>1. PICK x \in Vars :
            /\ agenda # <<>> /\ agenda[1] = Call("make_not_assignable", x)
            /\ UNCHANGED <<varState, enabled, env, raised>>
            /\ Call("recalculate_path", <<x, 1, 1>>) \in Pending'
      BY <2>3, MakeNotAssignableLeaves
    <3>2. agenda[1] \in PinCalls(x)
      BY <3>1, Zenon DEF PinCalls
    <3>. QED
      BY <3>1, <3>2, PinCallsApart
  <2>. QED
    BY <2>1, <2>2, <2>3
<1>2. /\ Behind \subseteq Pending'
      /\ \A call \in Pending' : call \in Behind \/ call.fn \in Additions
  BY VariableCallsAdd DEF Adds
<1>3. NothingLiver
  BY <1>1, <1>2, PendingNow, LiverStep DEF Additions
<1>4. SlotsGrow
  BY NextGrows DEF Next, Step
<1>5. ASSUME NEW c \in Cons, NEW x \in Vars, Visit(agenda[1], c, x), HasPrimitive(c),
             x \in DOMAIN env[c]
      PROVE  VisitSoon(c, x)'
  <2>1. x = y
    <3>1. agenda[1] # Call("recalculate", c)
      BY <1>1, CallIs
    <3>2. \A i0, j0 \in Nat : agenda[1] # Call("recalculate_path", <<x, i0, j0>>)
      BY <1>1, CallIs
    <3>3. agenda[1] \in PinCalls(x)
      BY <1>5, <3>1, <3>2, Zenon DEF Visit
    <3>. QED
      BY <1>1, <3>3, PinCallsApart
  <2>2. CASE \E call \in PinCalls(y) : call \in Pending'
    BY <2>1, <2>2 DEF VisitSoon, Visit, PinCalls
  <2>3. CASE Call("recalculate_path", <<y, 1, 1>>) \in Pending'
    <3>1. Follows(x, c, 1, 1)
      BY <1>5, AllFollow
    <3>2. 1 \in Nat
      OBVIOUS
    <3>3. Visit(Call("recalculate_path", <<x, 1, 1>>), c, x)
      BY <3>1, <3>2, Zenon DEF Visit
    <3>4. Visit(Call("recalculate_path", <<x, 1, 1>>), c, x)'
      BY <1>4, <3>3, VisitStays
    <3>. QED
      BY <2>1, <2>3, <3>4, Zenon DEF VisitSoon
  <2>. QED
    BY <1>1, <2>2, <2>3
<1>. QED
  BY <1>1, <1>2, <1>3, <1>4, <1>5, SnapGoesOn

(* recalculate_path: the block it calls, or a later one.                   *)
LEMMA SnapPath ==
  ASSUME Inv, AttachInv, SnapInv, RecalculatePath
  PROVE  SnapInv'
<1>. USE DEF varState, solverState
<1>1. PICK y \in Vars, i0 \in Nat, j0 \in Nat :
        /\ agenda # <<>> /\ agenda[1] = Call("recalculate_path", <<y, i0, j0>>)
        /\ UNCHANGED <<enabled, env, stored, raised>>
        /\ \/ (\A p \in PathBlocks(y) : ~NotBefore(p, <<i0, j0>>)) /\ Pending' = Behind
           \/ \E p \in Nat \X Nat :
                /\ Due(y, i0, j0, p) /\ BlockAt(y, p) \in Cons
                /\ Pending' = {Call("recalculate", BlockAt(y, p)),
                               Call("recalculate_path", <<y, p[1], p[2] + 1>>)} \cup Behind
  BY RecalculatePathLeaves
<1>2. /\ Behind \subseteq Pending'
      /\ \A call \in Pending' : call \in Behind \/ call.fn \in Additions
  BY VariableCallsAdd DEF Adds
<1>3. NothingLiver
  BY <1>1, <1>2, PendingNow, LiverStep DEF Additions
<1>4. SlotsGrow
  BY NextGrows DEF Next, Step
<1>5. ASSUME NEW c \in Cons, NEW x \in Vars, Visit(agenda[1], c, x), HasPrimitive(c),
             x \in DOMAIN env[c]
      PROVE  VisitSoon(c, x)'
  <2>1. agenda[1].fn = "recalculate_path"
    BY <1>1, CallIs
  <2>2. agenda[1] \notin PinCalls(x) /\ agenda[1] # Call("recalculate", c)
    BY <2>1, PinCallsApart, CallIs
  <2>3. PICK k \in Nat, l \in Nat :
          agenda[1] = Call("recalculate_path", <<x, k, l>>) /\ Follows(x, c, k, l)
    BY <1>5, <2>2, Zenon DEF Visit
  <2>4. <<x, k, l>> = <<y, i0, j0>>
    BY <1>1, <2>3, CallsEqual, Zenon
  <2>5. x = y /\ k = i0 /\ l = j0
    BY <2>4
  <2>6. PICK i \in Nat, j \in Nat : At(x, c, i, j) /\ NotBefore(<<i, j>>, <<i0, j0>>)
    BY <2>3, <2>5 DEF Follows
  <2>7. <<i, j>> \in PathBlocks(x) /\ BlockAt(x, <<i, j>>) = c
    BY <1>5, <2>6, AtIsOnPath
  <2>8. PICK p \in Nat \X Nat :
          /\ Due(x, i0, j0, p)
          /\ Pending' = {Call("recalculate", BlockAt(x, p)),
                         Call("recalculate_path", <<x, p[1], p[2] + 1>>)} \cup Behind
    BY <1>1, <2>5, <2>6, <2>7, Zenon
  <2>9. NotBefore(<<i, j>>, p) /\ p[1] \in Nat /\ p[2] \in Nat /\ p = <<p[1], p[2]>>
    BY <2>6, <2>7, <2>8 DEF Due
  <2>10. CASE p = <<i, j>>
    <3>1. Call("recalculate", c) \in Pending'
      BY <2>7, <2>8, <2>10
    <3>2. Visit(Call("recalculate", c), c, x)'
      BY DEF Visit
    <3>. QED
      BY <3>1, <3>2 DEF VisitSoon
  <2>11. CASE p # <<i, j>>
    <3>1. p[1] # i \/ p[2] # j
      BY <2>9, <2>11
    <3>2. NotBefore(<<i, j>>, <<p[1], p[2] + 1>>) /\ p[2] + 1 \in Nat
      BY <2>9, <3>1 DEF NotBefore
    <3>3. Follows(x, c, p[1], p[2] + 1)
      BY <2>6, <3>2, Zenon DEF Follows
    <3>4. Visit(Call("recalculate_path", <<x, p[1], p[2] + 1>>), c, x)
      BY <2>9, <3>2, <3>3, Zenon DEF Visit
    <3>5. Visit(Call("recalculate_path", <<x, p[1], p[2] + 1>>), c, x)'
      BY <1>4, <3>4, VisitStays
    <3>6. Call("recalculate_path", <<x, p[1], p[2] + 1>>) \in Pending'
      BY <2>8
    <3>. QED
      BY <3>5, <3>6, Zenon DEF VisitSoon
  <2>. QED
    BY <2>10, <2>11
<1>. QED
  BY <1>1, <1>2, <1>3, <1>4, <1>5, SnapGoesOn

(* A block that runs again has seen its constants; one that is disabled is *)
(* passed over, and nothing is about to enable it.                         *)
LEMMA SnapRecalculates ==
  ASSUME Inv, OnceInv, AttachInv, SnapInv, Recalculate
  PROVE  SnapInv'
<1>. USE DEF varState
<1>1. PICK c \in Cons :
        /\ agenda # <<>> /\ agenda[1] = Call("recalculate", c)
        /\ \/ /\ enabled[c] /\ RunPredicate(c)
              /\ enabled' = [enabled EXCEPT ![c] = FALSE]
              /\ Pending' = {Call("enable", c)} \cup Behind
           \/ /\ ~enabled[c] /\ Pending' = Behind
              /\ UNCHANGED <<enabled, env>>
        /\ UNCHANGED <<stored, raised>>
  BY RecalculateLeaves
<1>2. /\ Pending = {agenda[1]} \cup Behind /\ agenda[1].fn = "recalculate"
      /\ Behind \subseteq Pending'
  BY <1>1, PendingNow, CallIs
<1>3. SlotsGrow
  BY NextGrows DEF Next, Step
<1>4. ASSUME NEW d \in Cons, d # c
      PROVE  env'[d] = env[d] /\ (Live(d)' => Live(d))
  <2>1. /\ enabled'[d] = enabled[d]
        /\ env' = env \/ env' = [env EXCEPT ![c] = Snapshot(c)]
        /\ \A call \in Pending' : call \in Behind \/ call = Call("enable", c)
    BY <1>1, <1>4 DEF RunPredicate, Inv, TypeOK
  <2>2. Call("enable", d) # Call("enable", c) /\ Call("set_enabled", d) # Call("enable", c)
    BY <1>4, CallsEqual
  <2>. QED
    BY <1>2, <1>4, <2>1, <2>2 DEF Live, Inv, TypeOK
<1>5. ASSUME ~raised, NEW d \in Cons, d # c, Live(d)', NEW x \in DOMAIN env'[d]
      PROVE  stored'[x] = env'[d][x] \/ VisitSoon(d, x)'
  <2>1. env'[d] = env[d] /\ Live(d) /\ x \in DOMAIN env[d] /\ stored' = stored
    BY <1>1, <1>4, <1>5
  <2>2. HasPrimitive(d) /\ x \in Vars
    BY <1>5, <2>1, LiveKnown, EnvConstants
  <2>3. CASE stored[x] # env[d][x]
    <3>1. PICK call \in Pending : Visit(call, d, x)
      BY <1>5, <2>1, <2>3 DEF SnapInv, VisitSoon
    <3>2. call # agenda[1]
      <4>1. Call("recalculate", c) # Call("recalculate", d)
        BY <1>5, CallsEqual
      <4>2. Call("recalculate", c) \notin PinCalls(x)
        BY CallIs, PinCallsApart
      <4>3. \A i0, j0 \in Nat : Call("recalculate", c) # Call("recalculate_path", <<x, i0, j0>>)
        BY CallIs
      <4>. QED
        BY <1>1, <3>1, <4>1, <4>2, <4>3 DEF Visit
    <3>3. Visit(call, d, x)'
      BY <1>3, <2>2, <3>1, VisitStays
    <3>. QED
      BY <1>2, <3>1, <3>2, <3>3 DEF VisitSoon
  <2>. QED
    BY <2>1, <2>3
<1>6. CASE RunPredicate(c) /\ enabled[c]
  <2>1. /\ env'[c] = [x \in Constants(c, stored) |-> stored[x]]
        /\ stored' = stored
    BY <1>1, <1>6 DEF RunPredicate, Snapshot, SnapshotOf, Inv, TypeOK
  <2>2. ASSUME NEW x \in DOMAIN env'[c] PROVE stored'[x] = env'[c][x]
    BY <2>1, <2>2
  <2>. QED
    BY <1>1, <1>5, <2>2 DEF SnapInv
<1>7. CASE ~enabled[c]
  <2>1. ~enabled'[c] /\ Pending' = Behind
    BY <1>1, <1>7
  <2>2. Call("enable", c) \notin Behind
    BY CallIs DEF OnceInv, EnablesRunNext
  <2>3. Call("set_enabled", c) \notin Behind
    <3>1. \A i \in DOMAIN agenda : agenda[i].fn # "set_enabled"
      BY <1>2 DEF Inv, EnablingSoon
    <3>. QED
      BY <3>1, CallIs DEF Behind
  <2>4. ~Live(c)'
    BY <2>1, <2>2, <2>3 DEF Live
  <2>. QED
    BY <1>1, <1>5, <2>4 DEF SnapInv
<1>. QED
  BY <1>1, <1>6, <1>7

(* The program, as long as it does not enable by itself what it disabled.  *)
LEMMA SnapProgram ==
  ASSUME Inv, SnapInv, UserStep, "enable" \notin UserOps
  PROVE  SnapInv'
<1>. USE DEF varState, solverState
<1>1. agenda = <<>>
  BY ProgramIdle
<1>11. ASSUME NEW c \in Cons, AlwaysRaises(c) PROVE SnapInv'
  BY <1>11, SnapRaise DEF AlwaysRaises
<1>. SUFFICES ASSUME ~\E c \in Cons : AlwaysRaises(c) PROVE SnapInv'
  BY <1>11, Zenon
<1>2. Pending = {} /\ UNCHANGED <<stored, raised>>
  <2>1. Pending = {}
    BY <1>1 DEF Pending, CallsIn
  <2>2. UNCHANGED <<stored, raised>>
    BY DEF UserStep, Always, Enable, Disable, SetStrength, Read, Assign, MultiAssign
  <2>. QED
    BY <2>1, <2>2
<1>3. ASSUME ~raised, NEW d \in Cons, enabled[d], NEW x \in DOMAIN env[d]
      PROVE  stored[x] = env[d][x]
  BY <1>2, <1>3 DEF SnapInv, Live, VisitSoon
<1>4. ASSUME NEW c \in Cons, Always(c) PROVE SnapInv'
  <2>1. /\ agenda' = <<Call("enable", c)>> /\ UNCHANGED enabled
        /\ env' = [env EXCEPT ![c] = [x \in Constants(c, stored) |-> stored[x]]]
        /\ DOMAIN env = Cons
    BY <1>4 DEF Always, RunPredicate, Snapshot, SnapshotOf, Inv, TypeOK
  <2>2. Pending' = {Call("enable", c)}
    BY <2>1, StartsOne
  <2>3. ASSUME ~raised, NEW d \in Cons, Live(d)', NEW x \in DOMAIN env'[d]
        PROVE  stored[x] = env'[d][x]
    <3>1. CASE d = c
      BY <2>1, <2>3, <3>1
    <3>2. CASE d # c
      <4>1. Call("enable", d) # Call("enable", c) /\ Call("set_enabled", d) # Call("enable", c)
        BY <3>2, CallsEqual
      <4>2. enabled[d] /\ env'[d] = env[d]
        BY <2>1, <2>2, <2>3, <3>2, <4>1 DEF Live
      <4>. QED
        BY <1>3, <2>3, <4>2
    <3>. QED
      BY <3>1, <3>2
  <2>. QED
    BY <1>2, <2>3 DEF SnapInv
<1>5. ASSUME UNCHANGED env, \A d \in Cons : Live(d)' => enabled[d]
      PROVE  SnapInv'
  BY <1>2, <1>3, <1>5 DEF SnapInv
<1>6. ASSUME NEW c \in Cons, Disable(c) \/ SetStrength(c) PROVE SnapInv'
  <2>1. /\ UNCHANGED env /\ enabled[c] /\ \A d \in Cons : enabled'[d] => enabled[d]
        /\ agenda' = <<>> \/ agenda' = <<Call("enable", c)>>
    BY <1>1, <1>6 DEF Disable, SetStrength, Inv, TypeOK
  <2>2. Pending' = {} \/ Pending' = {Call("enable", c)}
    BY <2>1, StartsOne, NonePending
  <2>3. ASSUME NEW d \in Cons, Live(d)' PROVE enabled[d]
    <3>1. Call("set_enabled", d) # Call("enable", c)
      BY CallsEqual
    <3>2. d # c => Call("enable", d) # Call("enable", c)
      BY CallsEqual
    <3>. QED
      BY <2>1, <2>2, <2>3, <3>1, <3>2 DEF Live
  <2>. QED
    BY <1>5, <2>1, <2>3
<1>7. ASSUME UNCHANGED <<env, enabled>>,
             \A call \in Pending' : call.fn \notin {"enable", "set_enabled"}
      PROVE  SnapInv'
  BY <1>5, <1>7, CallIs DEF Live
<1>8. ASSUME NEW x \in Vars, Read(x) PROVE SnapInv'
  <2>1. UNCHANGED <<env, enabled>> /\ agenda' = <<Call("get_i", x)>>
    BY <1>8 DEF Read
  <2>2. Pending' = {Call("get_i", x)}
    BY <2>1, StartsOne
  <2>. QED
    BY <1>7, <2>1, <2>2, CallIs
<1>9. ASSUME NEW x \in Vars, NEW v \in Values, Assign(x, v) PROVE SnapInv'
  <2>1. UNCHANGED <<env, enabled>>
    BY <1>9 DEF Assign
  <2>2. Pending' = {Call("__begin_assign__", <<x, v>>)} \cup Started(x)
    BY <1>9, AssignStarts
  <2>. QED
    BY <1>7, <2>1, <2>2, StartFns, CallIs
<1>10. ASSUME NEW x \in Vars, NEW y \in Vars, NEW v \in Values, NEW w \in Values,
              MultiAssign(x, v, y, w)
       PROVE SnapInv'
  <2>1. UNCHANGED <<env, enabled>>
    BY <1>10 DEF MultiAssign
  <2>2. Pending' = {Call("__begin_assign__", <<x, v>>), Call("__begin_assign__", <<y, w>>)}
                     \cup Started(x) \cup Started(y)
    BY <1>10, MultiAssignStarts
  <2>. QED
    BY <1>7, <2>1, <2>2, StartFns, CallIs
<1>. QED
  <2>1. ~\E c \in Cons : Enable(c)
    BY DEF Enable
  <2>2. \/ \E c \in Cons : Always(c) \/ Disable(c) \/ SetStrength(c)
        \/ \E x \in Vars : Read(x)
        \/ \E x \in Vars, v \in Values : Assign(x, v)
        \/ \E x, y \in Vars, v, w \in Values : MultiAssign(x, v, y, w)
    BY <2>1, Zenon DEF UserStep
  <2>. QED
    BY <2>2, <1>4, <1>6, <1>8, <1>9, <1>10, Zenon

LEMMA InitSnap == Init => AttachInv /\ SnapInv
  BY DEF Init, AttachInv, ExternalSupported, Attached, HasPrimitive, SnapInv, Live, Pending, CallsIn

LEMMA NextSnap ==
  ASSUME "enable" \notin UserOps
  PROVE  Inv /\ OnceInv /\ BeginInv /\ AttachInv /\ SnapInv /\ [Next]_vars => SnapInv'
<1>. SUFFICES ASSUME Inv, OnceInv, BeginInv, AttachInv, SnapInv, [Next]_vars PROVE SnapInv'
  OBVIOUS
<1>1. CASE Step
  <2>1. CASE RecalculateRaises
    BY <2>1, RecalculateRaisesDoes, SnapRaise
  <2>. QED
    BY <1>1, <2>1, SnapOtherCalls, SnapBegins, SnapGets, SnapLoops, SnapPath, SnapRecalculates,
       Zenon DEF Step
<1>2. CASE UserStep
  BY <1>2, SnapProgram
<1>3. CASE UNCHANGED vars
  <2>1. /\ UNCHANGED <<stored, enabled, env, raised>> /\ Pending' = Pending
        /\ \A c \in Cons : Live(c)' <=> Live(c)
    BY <1>3 DEF vars, varState, Live, Pending, CallsIn
  <2>2. SlotsGrow
    BY <1>3 DEF vars, varState, SlotsGrow
  <2>3. ASSUME ~raised, NEW c \in Cons, Live(c), NEW x \in DOMAIN env[c], VisitSoon(c, x)
        PROVE  VisitSoon(c, x)'
    <3>1. x \in Vars
      BY <2>3, LiveKnown, EnvConstants
    <3>. QED
      BY <2>1, <2>2, <2>3, <3>1, VisitStays DEF VisitSoon
  <2>. QED
    BY <2>1, <2>3 DEF SnapInv
<1>. QED
  BY <1>1, <1>2, <1>3, Zenon DEF Next

(* A live block is up to date with its constants or will be run again by a *)
(* pending call, in a program that enables no block it has disabled:       *)
(* method_enable asserts the primitive of the last run as it is.           *)
THEOREM SnapInvHolds == ASSUME "enable" \notin UserOps PROVE Spec => [](AttachInv /\ SnapInv)
<1>1. Init => AttachInv /\ SnapInv
  BY InitSnap
<1>2. Inv /\ OnceInv /\ BeginInv /\ (AttachInv /\ SnapInv) /\ [Next]_vars => (AttachInv /\ SnapInv)'
  BY NextSnap, NextAttached
<1>3. Spec => [](Inv /\ OnceInv /\ BeginInv)
  BY InvHolds, OnceInvHolds, ReaderInvHolds, PTL
<1>. QED
  BY <1>1, <1>2, <1>3, PTL DEF Spec

(* Every enabled constraint was last evaluated with the values its         *)
(* constants have now: recalculate_path follows every change along a path, *)
(* also when the change came out of another solver                         *)
(* (constraintinterpreter.py:256-290, constraintobject.py:154-168).        *)
THEOREM SnapshotsFresh == ASSUME "enable" \notin UserOps PROVE Spec => []SnapshotFresh
<1>1. Inv /\ SnapInv => SnapshotFresh
  <2>. SUFFICES ASSUME Inv, SnapInv, agenda = <<>>, ~raised, NEW c \in Cons, enabled[c]
                PROVE  env[c] = Snapshot(c)
    BY DEF SnapshotFresh, Quiet, Idle
  <2>1. HasPrimitive(c)
    BY PrimitiveKept DEF Inv, RunBlocks
  <2>2. PICK m \in [Vars -> Values] : env[c] = SnapshotOf(c, m)
    BY <2>1, EnvConstants
  <2>3. \A x \in DOMAIN env[c] : stored[x] = env[c][x]
    BY DEF SnapInv, Live, VisitSoon, Pending, CallsIn
  <2>4. \A x \in Constants(c, m) : stored[x] = m[x]
    BY <2>2, <2>3 DEF SnapshotOf
  <2>5. Reads(c, stored) = Reads(c, m)
    BY <2>4, PathAssumption DEF Constants, Inv, TypeOK
  <2>. QED
    BY <2>2, <2>4, <2>5 DEF Snapshot, SnapshotOf, Constants
<1>. QED
  BY <1>1, InvHolds, SnapInvHolds, PTL

-----------------------------------------------------------------------------
(* A block that answered true and is only watched still holds for the      *)
(* constants it has read.                                                  *)
AnswersTrue(c) ==
  HasPrimitive(c) /\ IsBoolean(c, env[c]) => Holds(c, Fill(env[c]))
AnswerInv ==
  \A c \in Cons : enabled[c] \/ Call("set_enabled", c) \in Pending => AnswersTrue(c)

LEMMA AnswerFrame ==
  ASSUME Inv, AnswerInv,
         NEW d \in Cons, env'[d] = env[d], enabled'[d] => enabled[d] \/ Call("set_enabled", d) \in Pending,
         Call("set_enabled", d) \in Pending' => Call("set_enabled", d) \in Pending,
         enabled'[d] \/ Call("set_enabled", d) \in Pending'
  PROVE  AnswersTrue(d)'
<1>1. AnswersTrue(d)' <=> AnswersTrue(d)
  BY DEF AnswersTrue, IsBoolean, Symbols, Fill, HasPrimitive
<1>. QED
  BY <1>1 DEF AnswerInv

LEMMA AnswerStep ==
  ASSUME Inv, AnswerInv, Step
  PROVE  AnswerInv'
<1>. USE DEF varState, solverState
<1>1. agenda # <<>> => Pending = {agenda[1]} \cup Behind
  BY PendingNow
<1>2. ASSUME UNCHANGED <<env, enabled>>,
             \A call \in Pending' : call \in Pending \/ call.fn # "set_enabled"
      PROVE  AnswerInv'
  <2>1. \A d \in Cons : Call("set_enabled", d) \in Pending' => Call("set_enabled", d) \in Pending
    BY <1>2, CallIs
  <2>. QED
    BY <1>2, <2>1, AnswerFrame DEF AnswerInv
<1>3. CASE \/ BeginAssignVariable \/ AssignVariable \/ AssignOthers
           \/ GetI \/ UpdateDownstreamVariables
           \/ EndAssignVariable \/ MakeNotAssignable \/ RecalculatePath
  <2>1. /\ agenda # <<>> /\ UNCHANGED <<env, enabled>>
        /\ \A call \in Pending' : call \in Behind \/ call.fn \in Additions
    BY <1>3, VariableCallsAdd DEF Adds
  <2>. QED
    BY <1>1, <1>2, <2>1 DEF Additions
<1>4. CASE BeginAssign \/ Solve \/ EndAssign
  <2>1. /\ agenda # <<>> /\ UNCHANGED <<env, enabled>>
        /\ agenda' = Tail(agenda) \/ agenda' = <<>>
    BY <1>4, BeginAssignDoes, SolveDoes, EndAssignDoes, Zenon
  <2>2. Pending' \subseteq Pending
    BY <1>1, <2>1, PendingFew, NonePending
  <2>. QED
    BY <1>2, <2>1, <2>2
<1>5. CASE Recalculate
  <2>1. PICK c \in Cons :
          /\ agenda # <<>> /\ agenda[1] = Call("recalculate", c)
          /\ \/ /\ enabled[c] /\ RunPredicate(c)
                /\ enabled' = [enabled EXCEPT ![c] = FALSE]
                /\ Pending' = {Call("enable", c)} \cup Behind
             \/ Pending' = Behind /\ UNCHANGED <<enabled, env>>
    BY <1>5, RecalculateLeaves
  <2>2. CASE Pending' = Behind /\ UNCHANGED <<enabled, env>>
    BY <1>1, <1>2, <2>1, <2>2
  <2>3. CASE /\ enabled[c] /\ RunPredicate(c)
             /\ enabled' = [enabled EXCEPT ![c] = FALSE]
             /\ Pending' = {Call("enable", c)} \cup Behind
    <3>1. \A call \in Pending' : call \in Behind \/ call.fn = "enable"
      BY <2>3, CallIs
    <3>2. \A call \in Behind : call.fn # "set_enabled"
      <4>1. agenda[1].fn = "recalculate"
        BY <2>1, CallIs
      <4>2. \A i \in DOMAIN agenda : agenda[i].fn # "set_enabled"
        BY <4>1 DEF Inv, EnablingSoon
      <4>. QED
        BY <4>2 DEF Behind
    <3>3. \A d \in Cons : Call("set_enabled", d) \notin Pending'
      BY <3>1, <3>2, CallIs
    <3>4. /\ ~enabled'[c] /\ \A d \in Cons : d # c => env'[d] = env[d] /\ enabled'[d] = enabled[d]
      BY <2>3 DEF RunPredicate, Inv, TypeOK
    <3>. QED
      BY <3>3, <3>4, AnswerFrame DEF AnswerInv
  <2>. QED
    BY <2>1, <2>2, <2>3
<1>6. CASE EnableConstraint
  <2>1. PICK c \in Cons :
          /\ agenda # <<>> /\ UNCHANGED <<env, enabled>>
          /\ \/ Pending' = Behind
             \/ agenda' = <<>>
             \/ /\ ~HasPrimitive(c) \/ (IsBoolean(c, env[c]) /\ Holds(c, Fill(env[c])))
                /\ Pending' = {Call("set_enabled", c)} \cup Behind
             \/ /\ ~IsBoolean(c, env[c])
                /\ Pending' = {Call("solve", SolverOf[c]), Call("set_enabled", c)} \cup Behind
    BY <1>6, EnableConstraintLeaves
  <2>2. CASE Pending' = Behind \/ agenda' = <<>>
    BY <1>1, <1>2, <2>1, <2>2, NonePending
  <2>3. ASSUME AnswersTrue(c),
               Pending' \subseteq {Call("solve", SolverOf[c]), Call("set_enabled", c)} \cup Behind
        PROVE  AnswerInv'
    <3>. SUFFICES ASSUME NEW d \in Cons, enabled'[d] \/ Call("set_enabled", d) \in Pending'
                  PROVE  AnswersTrue(d)'
      BY DEF AnswerInv
    <3>1. CASE d = c
      BY <2>1, <2>3, <3>1 DEF AnswersTrue, IsBoolean, Symbols, Fill, HasPrimitive
    <3>2. CASE d # c
      <4>1. Call("set_enabled", d) # Call("set_enabled", c) /\ Call("set_enabled", d) # Call("solve", SolverOf[c])
        BY <3>2, CallsEqual
      <4>2. Call("set_enabled", d) \in Pending' => Call("set_enabled", d) \in Pending
        BY <1>1, <2>1, <2>3, <4>1
      <4>. QED
        BY <2>1, <4>2, AnswerFrame
    <3>. QED
      BY <3>1, <3>2
  <2>4. ~HasPrimitive(c) \/ (IsBoolean(c, env[c]) /\ Holds(c, Fill(env[c]))) => AnswersTrue(c)
    BY DEF AnswersTrue
  <2>5. ~IsBoolean(c, env[c]) => AnswersTrue(c)
    BY DEF AnswersTrue
  <2>. QED
    BY <2>1, <2>2, <2>3, <2>4, <2>5
<1>7. CASE SetEnabled
  <2>1. PICK c \in Cons :
          /\ agenda # <<>> /\ agenda[1] = Call("set_enabled", c)
          /\ enabled' = [enabled EXCEPT ![c] = TRUE]
          /\ agenda' = Tail(agenda) /\ UNCHANGED env
    BY <1>7, SetEnabledDoes
  <2>2. Pending' = Behind /\ Behind \subseteq Pending /\ Call("set_enabled", c) \in Pending
    BY <1>1, <2>1, PendingFew
  <2>3. \A d \in Cons : d # c => enabled'[d] = enabled[d]
    BY <2>1 DEF Inv, TypeOK
  <2>. QED
    BY <2>1, <2>2, <2>3, AnswerFrame DEF AnswerInv
<1>8. CASE RecalculateRaises
  <2>1. PICK c \in Cons :
          /\ enabled' = [enabled EXCEPT ![c] = FALSE] /\ env' = [env EXCEPT ![c] = Emptied]
          /\ agenda' = <<>>
    BY <1>8, RecalculateRaisesDoes
  <2>2. /\ \A d \in Cons : Call("set_enabled", d) \notin Pending'
        /\ ~enabled'[c] /\ \A d \in Cons : d # c => env'[d] = env[d] /\ enabled'[d] = enabled[d]
    BY <2>1, NonePending DEF Inv, TypeOK
  <2>. QED
    BY <2>2, AnswerFrame DEF AnswerInv
<1>. QED
  BY <1>3, <1>4, <1>5, <1>6, <1>7, <1>8, Zenon DEF Step

LEMMA AnswerProgram ==
  ASSUME Inv, AnswerInv, UserStep
  PROVE  AnswerInv'
<1>. USE DEF varState, solverState
<1>1. agenda = <<>>
  BY ProgramIdle
<1>2. ASSUME \A call \in Pending' : call.fn # "set_enabled",
             \A d \in Cons : enabled'[d] => enabled[d] /\ env'[d] = env[d]
      PROVE  AnswerInv'
  <2>1. \A d \in Cons : Call("set_enabled", d) \notin Pending'
    BY <1>2, CallIs
  <2>. QED
    BY <1>2, <2>1, AnswerFrame DEF AnswerInv
<1>3. ASSUME NEW c \in Cons,
             Always(c) \/ AlwaysRaises(c) \/ Enable(c) \/ Disable(c) \/ SetStrength(c)
      PROVE  AnswerInv'
  <2>1. agenda' = <<>> \/ agenda' = <<Call("enable", c)>>
    BY <1>1, <1>3 DEF Always, AlwaysRaises, Enable, Disable, SetStrength
  <2>2. \A call \in Pending' : call.fn # "set_enabled"
    BY <2>1, StartsOne, NonePending, CallIs
  <2>3. ASSUME NEW d \in Cons, enabled'[d] PROVE enabled[d] /\ env'[d] = env[d]
    <3>1. CASE Always(c)
      <4>1. env[c] = NoEnv /\ UNCHANGED enabled /\ env' = [env EXCEPT ![c] = Snapshot(c)]
        BY <3>1 DEF Always, IsNew, RunPredicate
      <4>2. d # c
        BY <2>3, <4>1 DEF Inv, RunBlocks
      <4>. QED
        BY <2>3, <4>1, <4>2 DEF Inv, TypeOK
    <3>2. CASE AlwaysRaises(c) \/ Enable(c) \/ Disable(c) \/ SetStrength(c)
      BY <2>3, <3>2 DEF AlwaysRaises, Enable, Disable, SetStrength, Inv, TypeOK
    <3>. QED
      BY <1>3, <3>1, <3>2
  <2>. QED
    BY <1>2, <2>2, <2>3
<1>4. ASSUME NEW x \in Vars, Read(x) PROVE AnswerInv'
  <2>1. UNCHANGED <<env, enabled>> /\ agenda' = <<Call("get_i", x)>>
    BY <1>4 DEF Read
  <2>2. Pending' = {Call("get_i", x)}
    BY <2>1, StartsOne
  <2>. QED
    BY <1>2, <2>1, <2>2, CallIs
<1>5. ASSUME NEW x \in Vars, NEW v \in Values, Assign(x, v) PROVE AnswerInv'
  <2>1. UNCHANGED <<env, enabled>>
    BY <1>5 DEF Assign
  <2>2. Pending' = {Call("__begin_assign__", <<x, v>>)} \cup Started(x)
    BY <1>5, AssignStarts
  <2>. QED
    BY <1>2, <2>1, <2>2, StartFns, CallIs
<1>6. ASSUME NEW x \in Vars, NEW y \in Vars, NEW v \in Values, NEW w \in Values,
             MultiAssign(x, v, y, w)
      PROVE AnswerInv'
  <2>1. UNCHANGED <<env, enabled>>
    BY <1>6 DEF MultiAssign
  <2>2. Pending' = {Call("__begin_assign__", <<x, v>>), Call("__begin_assign__", <<y, w>>)}
                     \cup Started(x) \cup Started(y)
    BY <1>6, MultiAssignStarts
  <2>. QED
    BY <1>2, <2>1, <2>2, StartFns, CallIs
<1>. QED
  BY <1>3, <1>4, <1>5, <1>6 DEF UserStep

LEMMA NextAnswer == Inv /\ AnswerInv /\ [Next]_vars => AnswerInv'
<1>. SUFFICES ASSUME Inv, AnswerInv, [Next]_vars PROVE AnswerInv'
  OBVIOUS
<1>1. CASE UNCHANGED vars
  <2>1. UNCHANGED <<env, enabled>> /\ Pending' = Pending
    BY <1>1 DEF vars, Pending, CallsIn
  <2>. QED
    BY <2>1, AnswerFrame DEF AnswerInv
<1>. QED
  BY <1>1, AnswerStep, AnswerProgram, Zenon DEF Next

LEMMA AnswersHold == Spec => []AnswerInv
<1>1. Init => AnswerInv
  BY DEF Init, AnswerInv, Pending, CallsIn
<1>. QED
  BY <1>1, NextAnswer, InvHolds, PTL DEF Spec

(* Solvers that do not meet: none but a block's own solver supports what   *)
(* the block reads.  With one solver that is so.                           *)
NoSharing ==
  \A c \in Cons, m \in [Vars -> Values], s \in Solvers :
    \A x \in Reads(c, m) : <<x, s>> \in Supported => s = SolverOf[c]

LEMMA VisibleKnown ==
  ASSUME Inv, NEW x \in Vars
  PROVE  Visible(x) \in Values
<1>1. IsSolveable(x) => DefiningSolver(x) \in external[x] /\ DefiningSolver(x) \in Solvers
  BY DefiningKnown DEF Inv
<1>2. IsSolveable(x) => ValueOf(x, DefiningSolver(x)) \in Values
  BY <1>1, ValueKnown DEF Inv
<1>. QED
  BY <1>2 DEF Visible, Inv, TypeOK

(* With solvers that share no variable, an enabled constraint holds for    *)
(* the values the program would read, over changes along its path          *)
(* (README.md:77-79): what the block was asserted with is what it would    *)
(* read now, and its solver's answers satisfy it.                          *)
THEOREM EnabledConstraintsHold ==
  ASSUME NoSharing, "enable" \notin UserOps
  PROVE  Spec => []EnabledHold
<1>1. Inv /\ AttachInv /\ AnswerInv /\ SnapshotFresh /\ ModelSatisfies => EnabledHold
  <2>. SUFFICES ASSUME Inv, AttachInv, AnswerInv, SnapshotFresh, ModelSatisfies, Quiet,
                       NEW c \in Cons, enabled[c]
                PROVE  Holds(c, [x \in Vars |-> Visible(x)])
    BY DEF EnabledHold
  <2>. DEFINE e == env[c]
              s == SolverOf[c]
              R == Reads(c, stored)
              m == [x \in Vars |-> ValueOf(x, s)]
              n == [x \in Vars |-> IF x \in Symbols(c, e) THEN m[x] ELSE Fill(e)[x]]
              V == [x \in Vars |-> Visible(x)]
  <2>1. /\ e = SnapshotOf(c, stored) /\ e \in Envs(c) /\ e # NoEnv /\ s \in Solvers
        /\ stored \in [Vars -> Values] /\ R \subseteq Vars
        /\ Symbols(c, e) = {x \in R : <<x, s>> \in Supported}
    <3>1. stored \in [Vars -> Values] /\ s \in Solvers
      BY ConstantsAssumption DEF Inv, TypeOK
    <3>2. e = SnapshotOf(c, stored)
      BY DEF SnapshotFresh, Snapshot
    <3>. QED
      BY <3>1, <3>2, SnapshotTyped, Zenon
  <2>0. HasPrimitive(c)
    BY PrimitiveKept DEF Inv, RunBlocks, Quiet
  <2>2. \A x \in Symbols(c, e) : s \in external[x] /\ x \in Vars
    BY <2>0, <2>1 DEF Inv, BlocksKnown, SymbolsKnown
  <2>3. ASSUME NEW x \in Vars
        PROVE  /\ x \in Symbols(c, e) => n[x] = ValueOf(x, s) /\ n[x] \in Values
               /\ x \notin Symbols(c, e) => n[x] = Fill(e)[x]
    <3>1. x \in Symbols(c, e) => ValueOf(x, s) \in Values
      BY <2>1, <2>2, ValueKnown DEF Inv
    <3>. QED
      BY <3>1
  <2>4. ASSUME NEW x \in R, x \notin Symbols(c, e)
        PROVE  n[x] = stored[x] /\ <<x, s>> \notin Supported
    <3>1. x \in Vars /\ <<x, s>> \notin Supported
      BY <2>1, <2>4
    <3>2. x \in Constants(c, stored)
      BY <2>4, <3>1 DEF Constants
    <3>3. Fill(e)[x] = stored[x]
      BY <2>1, <3>1, <3>2 DEF Fill, SnapshotOf
    <3>. QED
      BY <2>3, <2>4, <3>1, <3>3
  <2>5. \A x \in Vars : Fill(e)[x] \in Values
    <3>1. e \in [Constants(c, stored) -> Values] /\ Constants(c, stored) \subseteq Vars
      BY <2>1 DEF SnapshotOf, Constants
    <3>2. (CHOOSE v \in Values : TRUE) \in Values
      BY ConstantsAssumption
    <3>. HIDE DEF e
    <3>. QED
      BY <3>1, <3>2 DEF Fill
  <2>6. n \in [Vars -> Values] /\ V \in [Vars -> Values]
    BY <2>3, <2>5, VisibleKnown
  <2>7. Holds(c, n)
    <3>1. CASE IsBoolean(c, e)
      <4>1. Holds(c, Fill(e))
        BY <2>0, <3>1 DEF AnswerInv, AnswersTrue
      <4>2. n = Fill(e)
        BY <3>1 DEF IsBoolean, Fill
      <4>. QED
        BY <4>1, <4>2
    <3>2. CASE ~IsBoolean(c, e)
      <4>1. asserted[c][e] > 0
        BY <2>0, <3>2 DEF Inv, EnabledIsAsserted
      <4>2. <<c, e>> \in Asserted(s)
        BY <2>1, <4>1, AssertedIs
      <4>3. Satisfies(c, e, m)
        BY <2>1, <4>2 DEF ModelSatisfies, IsModel
      <4>. QED
        BY <4>3 DEF Satisfies
    <3>. QED
      BY <3>1, <3>2
  <2>8. ASSUME NEW x \in R
        PROVE  V[x] = n[x]
    <3>1. \A t \in external[x] : t = s /\ <<x, t>> \in Supported
      BY <2>1 DEF AttachInv, ExternalSupported, NoSharing, Inv, TypeOK
    <3>2. x \in Vars /\ V[x] = Visible(x)
      BY <2>1
    <3>3. CASE x \in Symbols(c, e)
      <4>1. IsSolveable(x)
        BY <2>2, <3>3 DEF IsSolveable
      <4>2. DefiningSolver(x) = s
        BY <3>1, <3>2, <4>1, DefiningKnown DEF Inv
      <4>. QED
        BY <2>3, <3>2, <3>3, <4>1, <4>2 DEF Visible
    <3>4. CASE x \notin Symbols(c, e)
      <4>1. ~IsSolveable(x)
        BY <2>4, <3>1, <3>4 DEF IsSolveable
      <4>. QED
        BY <2>4, <3>2, <3>4, <4>1 DEF Visible
    <3>. QED
      BY <3>3, <3>4
  <2>9. Reads(c, n) = R
    <3>1. \A x \in R : <<x, s>> \notin Supported => stored[x] = n[x]
      BY <2>1, <2>4
    <3>. HIDE DEF n
    <3>. QED
      BY <2>1, <2>6, <3>1, PathAssumption
  <2>. HIDE DEF n, V, e, m
  <2>10. Holds(c, V) = Holds(c, n)
    BY <2>6, <2>8, <2>9, AnswerAssumption
  <2>. QED
    BY <2>7, <2>10 DEF V
<1>2. Spec => [](Inv /\ AnswerInv /\ ModelSatisfies)
  BY InvHolds, AnswersHold, ModelsSatisfy, PTL
<1>3. Spec => [](AttachInv /\ SnapshotFresh)
  BY SnapInvHolds, SnapshotsFresh, PTL
<1>. QED
  BY <1>1, <1>2, <1>3, PTL
=============================================================================
