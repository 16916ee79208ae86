--------------------- MODULE ConstrainedVariablesProofs ---------------------
(* The invariant of ConstrainedVariables, for any program: any variables,  *)
(* values, blocks and solvers that meet the assumptions on the constants.  *)
EXTENDS ConstrainedVariables, TLAPS, WellFoundedInduction, SequenceTheorems

-----------------------------------------------------------------------------
(* Lemmas on the operators.                                                *)

(* A non-empty set of naturals has a least element.                        *)
LEMMA LeastExists ==
  ASSUME NEW I \in SUBSET Nat, I # {}
  PROVE  Least(I) \in I /\ \A j \in I : Least(I) <= j
<1>. DEFINE R == {ss \in Nat \X Nat : ss[1] < ss[2]}
<1>1. IsWellFoundedOn(R, Nat)
  BY NatLessThanWellFounded, Zenon DEF OpToRel
<1>2. PICK i \in I : \A j \in I : ~ (<<j, i>> \in R)
  <2>. HIDE DEF R
  <2>. QED  BY <1>1, WFMin
<1>3. ASSUME NEW j \in I
      PROVE  i <= j
  <2>1. <<j, i>> \notin R /\ j \in Nat /\ i \in Nat
    BY <1>2
  <2>2. ~ (j < i)
    BY <2>1, Zenon DEF R
  <2>. QED
    BY <2>1, <2>2
<1>. QED
  BY <1>3 DEF Least

(* A set of solvers with slots has a first heaviest one.                   *)
LEMMA FirstHeaviestKnown ==
  ASSUME NEW slots \in Seq(Solvers \cup {NoSolver}), NEW S \in SUBSET Solvers, S # {},
         \A s \in S : \E i \in DOMAIN slots : slots[i] = s
  PROVE  FirstHeaviest(slots, S) \in S
<1>. DEFINE I == {i \in DOMAIN slots : slots[i] \in Heaviest(S)}
<1>1. PICK s \in S : \A t \in S : Weight[t] <= Weight[s]
  BY HeaviestAssumption
<1>2. s \in Heaviest(S)
  BY <1>1 DEF Heaviest
<1>3. I # {} /\ I \in SUBSET Nat
  BY <1>2
<1>4. Least(I) \in I
  BY <1>3, LeastExists
<1>. QED
  BY <1>4 DEF FirstHeaviest, Heaviest

(* A variable some solver knows has a defining solver, which knows it.     *)
LEMMA DefiningKnown ==
  ASSUME TypeOK, SlotsKnown, NEW x \in Vars, IsSolveable(x)
  PROVE  DefiningSolver(x) \in external[x] /\ DefiningSolver(x) \in Solvers
<1>1. solvers_w[x] \in Seq(Solvers \cup {NoSolver}) /\ external[x] \in SUBSET Solvers
  BY DEF TypeOK
<1>2. FirstHeaviest(solvers_w[x], external[x]) \in external[x]
  BY <1>1, FirstHeaviestKnown DEF SlotsKnown, IsSolveable
<1>. QED
  BY <1>1, <1>2 DEF DefiningSolver

(* What a solver answers for a variable it knows is a value.               *)
LEMMA ValueKnown ==
  ASSUME TypeOK, NEW x \in Vars, NEW s \in Solvers
  PROVE  /\ ValueOf(x, s) \in Values \cup {NoValue}
         /\ SlotsKnown /\ s \in external[x] => ValueOf(x, s) \in Values
<1>1. PICK xs \in SUBSET Vars : model[s] \in [xs -> Values]
  BY DEF TypeOK
<1>2. w_value[x][s] \in Values \cup {NoValue}
  BY DEF TypeOK
<1>. QED
  BY <1>1, <1>2 DEF ValueOf, SlotsKnown

(* Snapshots, filled up, are valuations; symbols are variables; and the    *)
(* symbols of a run are the variables read that the solver supports.       *)
LEMMA SnapshotTyped ==
  ASSUME NEW c \in Cons, NEW m \in [Vars -> Values]
  PROVE  /\ Reads(c, m) \subseteq Vars
         /\ SnapshotOf(c, m) \in Envs(c)
         /\ SnapshotOf(c, m) \notin {NoEnv, Emptied}
         /\ Symbols(c, SnapshotOf(c, m)) =
              {x \in Reads(c, m) : <<x, SolverOf[c]>> \in Supported}
<1>. DEFINE e == SnapshotOf(c, m)
<1>1. Reads(c, m) \subseteq Vars /\ Values # {}
  BY ConstantsAssumption
<1>2. e \in [Constants(c, m) -> Values] /\ Constants(c, m) \in SUBSET Vars
  BY <1>1 DEF SnapshotOf, Constants
<1>3. e \notin {NoEnv, Emptied}
  BY <1>2, ConstantsAssumption
<1>4. e \in Envs(c)
  BY DEF Envs
<1>5. Fill(e) \in [Vars -> Values]
  BY <1>1, <1>2 DEF Fill
<1>6. \A x \in Reads(c, m) : <<x, SolverOf[c]>> \notin Supported => m[x] = Fill(e)[x]
  BY <1>1 DEF Fill, SnapshotOf, Constants
<1>7. Reads(c, Fill(e)) = Reads(c, m)
  BY <1>5, <1>6, PathAssumption
<1>8. Symbols(c, e) = {x \in Reads(c, m) : <<x, SolverOf[c]>> \in Supported}
  BY <1>2, <1>7 DEF Symbols, Constants
<1>. QED
  BY <1>1, <1>3, <1>4, <1>8

LEMMA SymbolsTyped ==
  ASSUME NEW c \in Cons, NEW e \in Envs(c)
  PROVE  Symbols(c, e) \subseteq Vars
<1>1. PICK m \in [Vars -> Values] : e = SnapshotOf(c, m)
  BY DEF Envs
<1>. QED
  BY <1>1, SnapshotTyped

-----------------------------------------------------------------------------
(* Lemmas on the agenda.                                                   *)

LEMMA ShortSeqs ==
  ASSUME NEW C
  PROVE  /\ <<>> \in Seq(C)
         /\ \A a \in C : <<a>> \in Seq(C)
         /\ \A a, b \in C : <<a, b>> \in Seq(C)
         /\ \A a, b, d \in C : <<a, b, d>> \in Seq(C)
  OBVIOUS

LEMMA SeqWithin ==
  ASSUME NEW C, NEW D, NEW q \in Seq(C), \A i \in 1..Len(q) : q[i] \in D
  PROVE  q \in Seq(D)
  OBVIOUS

LEMMA SeqGrows ==
  ASSUME NEW C, NEW D, C \subseteq D, NEW q \in Seq(C)
  PROVE  q \in Seq(D)
  OBVIOUS

(* Calls that may be pending, but for those that end an `enable'.          *)
Good == {call \in Calls : PendingOK(call) /\ call.fn # "set_enabled"}
Grows == /\ \A x \in Vars : external[x] \subseteq external'[x]
         /\ \A c \in Cons : env[c] # NoEnv => env'[c] # NoEnv
ErrorsStay == raised' \in BOOLEAN /\ (raised => raised')

(* The running call is well-formed.                                        *)
LEMMA HeadTyped ==
  ASSUME PendingCalls, agenda # <<>>
  PROVE  /\ agenda[1] \in Calls /\ PendingOK(agenda[1])
         /\ Tail(agenda) \in Seq({call \in Calls : PendingOK(call)})
         /\ Running("__begin_assign__") => Arg \in Vars \X Values
         /\ agenda[1].fn \in {"__assign__", "get_i", "make_not_assignable"} => Arg \in Vars
         /\ agenda[1].fn \in {"assign others", "update_downstream_variables", "__end_assign__"}
              => Arg \in Vars \X Nat
         /\ Running("recalculate_path") => Arg \in Vars \X Nat \X Nat
         /\ agenda[1].fn \in {"begin_assign", "end_assign"} => Arg \in Vars \X Solvers
         /\ Running("solve") => Arg \in Solvers
         /\ agenda[1].fn \in {"recalculate", "enable", "set_enabled"} => Arg \in Cons
<1>1. /\ agenda[1] \in Calls /\ PendingOK(agenda[1])
      /\ Tail(agenda) \in Seq({call \in Calls : PendingOK(call)})
  BY DEF PendingCalls
<1>. QED
  BY <1>1 DEF Calls, Running, Arg

(* What could be pending can still be when variables only met solvers and  *)
(* blocks were only run.                                                   *)
LEMMA StillPending ==
  ASSUME Grows, NEW call \in Calls, PendingOK(call)
  PROVE  PendingOK(call)'
<1>1. call.fn \in {"begin_assign", "end_assign"} => call.arg[1] \in Vars
  BY DEF Calls
<1>2. call.fn = "get_i" => call.arg \in Vars
  BY DEF Calls
<1>3. call.fn \in {"enable", "set_enabled"} => call.arg \in Cons
  BY DEF Calls
<1>. QED
  BY <1>1, <1>2, <1>3 DEF Grows, PendingOK, IsSolveable

(* Behind any other call than a solve no `enable' is about to end.         *)
LEMMA RestGood ==
  ASSUME PendingCalls, EnablingSoon, Grows, agenda # <<>>,
         agenda[1].fn \notin {"solve", "set_enabled"}
  PROVE  Tail(agenda) \in Seq(Good')
<1>1. \A i \in DOMAIN agenda : agenda[i].fn # "set_enabled"
  BY DEF EnablingSoon
<1>2. \A i \in DOMAIN agenda : agenda[i] \in Calls /\ PendingOK(agenda[i])
  BY DEF PendingCalls
<1>3. \A i \in DOMAIN agenda : agenda[i] \in Good'
  BY <1>1, <1>2, StillPending DEF Good
<1>4. agenda \in Seq(Good')
  BY <1>3 DEF PendingCalls
<1>. QED
  BY <1>4

LEMMA ContinueGood ==
  ASSUME PendingCalls, EnablingSoon, Grows, agenda # <<>>,
         agenda[1].fn \notin {"solve", "set_enabled"},
         NEW new \in Seq(Good'), agenda' = new \o Tail(agenda)
  PROVE  agenda' \in Seq(Good')
<1>1. Tail(agenda) \in Seq(Good')
  BY RestGood
<1>. QED
  BY <1>1

LEMMA GoodAgenda ==
  ASSUME agenda' \in Seq(Good')
  PROVE  agenda' \in Seq(Calls) /\ PendingCalls' /\ EnablingSoon'
<1>1. Good' \subseteq Calls /\ Good' \subseteq {call \in Calls : PendingOK(call)'}
  BY DEF Good
<1>2. agenda' \in Seq(Calls) /\ agenda' \in Seq({call \in Calls : PendingOK(call)'})
  BY <1>1
<1>3. \A i \in DOMAIN agenda' : agenda'[i].fn # "set_enabled"
  BY DEF Good
<1>. QED
  BY <1>2, <1>3 DEF PendingCalls, EnablingSoon

-----------------------------------------------------------------------------
(* Every step preserves the invariant.                                     *)

(* Steps that only go on to other calls.                                   *)
LEMMA AgendaOnly ==
  ASSUME Inv, UNCHANGED <<varState, enabled, env, solverState>>,
         agenda' \in Seq(Good'), ErrorsStay, focus' \subseteq Vars
  PROVE  Inv'
<1>. USE DEF varState, solverState
<1>1. agenda' \in Seq(Calls) /\ PendingCalls' /\ EnablingSoon'
  BY GoodAgenda
<1>2. TypeOK'
  BY <1>1 DEF Inv, TypeOK, ErrorsStay
<1>3. SlotsKnown' /\ RunBlocks' /\ ReadonlyKnown'
  BY DEF Inv, SlotsKnown, RunBlocks, ReadonlyKnown, ErrorsStay
<1>4. BlocksKnown' /\ SolversKnow'
  BY DEF Inv, BlocksKnown, SymbolsKnown, SolversKnow, HasPrimitive
<1>5. PinsAgree' /\ EnabledIsAsserted'
  BY DEF Inv, PinsAgree, EnabledIsAsserted, HasPrimitive
<1>. QED
  BY <1>1, <1>2, <1>3, <1>4, <1>5 DEF Inv

LEMMA GoesOn ==
  ASSUME Inv, agenda # <<>>, agenda[1].fn \notin {"solve", "set_enabled"},
         UNCHANGED <<varState, enabled, env, solverState, raised, focus>>,
         NEW new \in Seq(Good'), agenda' = new \o Tail(agenda)
  PROVE  Inv'
<1>1. Grows
  BY DEF Grows, varState
<1>2. agenda' \in Seq(Good')
  BY <1>1, ContinueGood DEF Inv
<1>3. ErrorsStay /\ focus' \subseteq Vars
  BY DEF Inv, TypeOK, ErrorsStay
<1>. QED
  BY <1>2, <1>3, AgendaOnly

(* Which calls may be pending next.                                        *)
LEMMA GoodCalls ==
  /\ \A x \in Vars, s \in Solvers : s \in external'[x] =>
       Call("begin_assign", <<x, s>>) \in Good' /\ Call("end_assign", <<x, s>>) \in Good'
  /\ \A x \in Vars, v \in Values : Call("__begin_assign__", <<x, v>>) \in Good'
  /\ \A x \in Vars, i \in Nat :
       /\ Call("assign others", <<x, i>>) \in Good'
       /\ Call("update_downstream_variables", <<x, i>>) \in Good'
       /\ Call("__end_assign__", <<x, i>>) \in Good'
  /\ \A x \in Vars, i, j \in Nat : Call("recalculate_path", <<x, i, j>>) \in Good'
  /\ \A x \in Vars :
       /\ Call("__assign__", x) \in Good' /\ Call("make_not_assignable", x) \in Good'
       /\ external'[x] # {} => Call("get_i", x) \in Good'
  /\ \A s \in Solvers : Call("solve", s) \in Good'
  /\ \A c \in Cons :
       /\ Call("recalculate", c) \in Good'
       /\ env'[c] # NoEnv => Call("enable", c) \in Good'
<1>. USE DEF Good, Calls, Call, PendingOK, IsSolveable
<1>1. \A x \in Vars, s \in Solvers : s \in external'[x] =>
        Call("begin_assign", <<x, s>>) \in Good' /\ Call("end_assign", <<x, s>>) \in Good'
  OBVIOUS
<1>2. \A x \in Vars, v \in Values : Call("__begin_assign__", <<x, v>>) \in Good'
  OBVIOUS
<1>3. \A x \in Vars, i \in Nat :
        /\ Call("assign others", <<x, i>>) \in Good'
        /\ Call("update_downstream_variables", <<x, i>>) \in Good'
        /\ Call("__end_assign__", <<x, i>>) \in Good'
  OBVIOUS
<1>4. \A x \in Vars, i, j \in Nat : Call("recalculate_path", <<x, i, j>>) \in Good'
  OBVIOUS
<1>5. \A x \in Vars :
        /\ Call("__assign__", x) \in Good' /\ Call("make_not_assignable", x) \in Good'
        /\ external'[x] # {} => Call("get_i", x) \in Good'
  OBVIOUS
<1>6. \A s \in Solvers : Call("solve", s) \in Good'
  OBVIOUS
<1>7. \A c \in Cons :
        /\ Call("recalculate", c) \in Good'
        /\ env'[c] # NoEnv => Call("enable", c) \in Good'
  OBVIOUS
<1>. QED
  BY <1>1, <1>2, <1>3, <1>4, <1>5, <1>6, <1>7

(* The slots a loop over the external variables still has to visit.        *)
LEMMA SlotOf ==
  ASSUME Inv, NEW x \in Vars, NEW i \in Nat, NEW S \in SUBSET external[x]
  PROVE  LET I == {j \in DOMAIN solvers_w[x] : i <= j /\ solvers_w[x][j] \in S}
         IN  I # {} => /\ Least(I) + 1 \in Nat
                       /\ solvers_w[x][Least(I)] \in external[x]
                       /\ solvers_w[x][Least(I)] \in Solvers
<1>. DEFINE I == {j \in DOMAIN solvers_w[x] : i <= j /\ solvers_w[x][j] \in S}
<1>1. solvers_w[x] \in Seq(Solvers \cup {NoSolver}) /\ external[x] \in SUBSET Solvers
  BY DEF Inv, TypeOK
<1>2. I \in SUBSET Nat
  BY <1>1
<1>3. I # {} => Least(I) \in I
  <2>. HIDE DEF I
  <2>. QED  BY <1>2, LeastExists
<1>. QED
  BY <1>1, <1>2, <1>3

LEMMA AssignOthersStep == Inv /\ AssignOthers => Inv'
<1>. SUFFICES ASSUME Inv, AssignOthers PROVE Inv'
  OBVIOUS
<1>. DEFINE x == Arg[1]
            I == {j \in DOMAIN solvers_w[x] : Arg[2] <= j /\ solvers_w[x][j] \in Others(x)}
            s == solvers_w[x][Least(I)]
            body == <<Call("begin_assign", <<x, s>>), Call("solve", s)>>
            next == <<Call("assign others", <<x, Least(I) + 1>>)>>
            new == IF I = {} THEN <<>> ELSE body \o next
<1>1. x \in Vars /\ Arg[2] \in Nat /\ agenda # <<>> /\ agenda[1].fn = "assign others"
  BY HeadTyped DEF Inv, AssignOthers, Running
<1>2. /\ agenda' = new \o Tail(agenda)
      /\ UNCHANGED <<varState, enabled, env, solverState, raised, focus>>
  BY Zenon DEF AssignOthers, ForEachSolver, Continue
<1>3. Others(x) \in SUBSET external[x] /\ external' = external
  BY <1>2 DEF Others, varState
<1>4. I # {} => Least(I) + 1 \in Nat /\ s \in external[x] /\ s \in Solvers
  BY <1>1, <1>3, SlotOf, Zenon
<1>. HIDE DEF I, s, x
<1>5. I # {} => body \in Seq(Good') /\ next \in Seq(Good')
  BY <1>1, <1>3, <1>4, GoodCalls, ShortSeqs, Zenon
<1>. HIDE DEF body, next
<1>6. new \in Seq(Good')
  BY <1>5, ShortSeqs
<1>. HIDE DEF new
<1>. QED
  BY <1>1, <1>2, <1>6, GoesOn

LEMMA UpdateDownstreamVariablesStep == Inv /\ UpdateDownstreamVariables => Inv'
<1>. SUFFICES ASSUME Inv, UpdateDownstreamVariables PROVE Inv'
  OBVIOUS
<1>. DEFINE x == Arg[1]
            I == {j \in DOMAIN solvers_w[x] : Arg[2] <= j /\ solvers_w[x][j] \in Others(x)}
            s == solvers_w[x][Least(I)]
            body == Offer(x, s)
            next == <<Call("update_downstream_variables", <<x, Least(I) + 1>>)>>
            new == IF I = {} THEN Afterwards(x) ELSE body \o next
<1>1. x \in Vars /\ Arg[2] \in Nat /\ agenda # <<>> /\ agenda[1].fn = "update_downstream_variables"
  BY HeadTyped DEF Inv, UpdateDownstreamVariables, Running
<1>2. /\ agenda' = new \o Tail(agenda)
      /\ UNCHANGED <<varState, enabled, env, solverState, raised, focus>>
  BY Zenon DEF UpdateDownstreamVariables, ForEachSolver, Continue
<1>3. Others(x) \in SUBSET external[x] /\ external' = external
  BY <1>2 DEF Others, varState
<1>4. I # {} => Least(I) + 1 \in Nat /\ s \in external[x] /\ s \in Solvers
  BY <1>1, <1>3, SlotOf, Zenon
<1>. HIDE DEF I, s, x
<1>5. I # {} => body \in Seq(Good') /\ next \in Seq(Good')
  BY <1>1, <1>3, <1>4, GoodCalls, ShortSeqs, Zenon DEF Offer
<1>6. Afterwards(x) \in Seq(Good')
  BY <1>1, GoodCalls, ShortSeqs, Zenon DEF Afterwards
<1>. HIDE DEF body, next
<1>7. new \in Seq(Good')
  BY <1>5, <1>6
<1>. HIDE DEF new
<1>. QED
  BY <1>1, <1>2, <1>7, GoesOn

LEMMA EndAssignVariableStep == Inv /\ EndAssignVariable => Inv'
<1>. SUFFICES ASSUME Inv, EndAssignVariable PROVE Inv'
  OBVIOUS
<1>. DEFINE x == Arg[1]
            I == {j \in DOMAIN solvers_w[x] : Arg[2] <= j /\ solvers_w[x][j] \in external[x]}
            s == solvers_w[x][Least(I)]
            body == <<Call("end_assign", <<x, s>>)>>
            next == <<Call("__end_assign__", <<x, Least(I) + 1>>)>>
            new == IF I = {} THEN Afterwards(x) ELSE body \o next
<1>1. x \in Vars /\ Arg[2] \in Nat /\ agenda # <<>> /\ agenda[1].fn = "__end_assign__"
  BY HeadTyped DEF Inv, EndAssignVariable, Running
<1>2. /\ agenda' = new \o Tail(agenda)
      /\ UNCHANGED <<varState, enabled, env, solverState, raised, focus>>
  BY Zenon DEF EndAssignVariable, ForEachSolver, Continue
<1>3. external[x] \in SUBSET external[x] /\ external' = external
  BY <1>2 DEF varState
<1>4. I # {} => Least(I) + 1 \in Nat /\ s \in external[x] /\ s \in Solvers
  BY <1>1, <1>3, SlotOf, Zenon
<1>. HIDE DEF I, s, x
<1>5. I # {} => body \in Seq(Good') /\ next \in Seq(Good')
  BY <1>1, <1>3, <1>4, GoodCalls, ShortSeqs, Zenon
<1>6. Afterwards(x) \in Seq(Good')
  BY <1>1, GoodCalls, ShortSeqs, Zenon DEF Afterwards
<1>. HIDE DEF body, next
<1>7. new \in Seq(Good')
  BY <1>5, <1>6
<1>. HIDE DEF new
<1>. QED
  BY <1>1, <1>2, <1>7, GoesOn

LEMMA RecalculatePathStep == Inv /\ RecalculatePath => Inv'
<1>. SUFFICES ASSUME Inv, RecalculatePath PROVE Inv'
  OBVIOUS
<1>. DEFINE x == Arg[1]
            todo == {p \in PathBlocks(x) : NotBefore(p, <<Arg[2], Arg[3]>>)}
            I == {p[1] : p \in todo}
            i == Least(I)
            J == {p[2] : p \in {q \in todo : q[1] = i}}
            j == Least(J)
            c == constraints_w[x][solvers_w[x][i]][j]
            new == IF todo = {} THEN <<>>
                   ELSE <<Call("recalculate", c), Call("recalculate_path", <<x, i, j + 1>>)>>
<1>1. x \in Vars /\ agenda # <<>> /\ agenda[1].fn = "recalculate_path"
  BY HeadTyped DEF Inv, RecalculatePath, Running
<1>2. UNCHANGED <<varState, enabled, env, solverState, raised, focus>>
  BY Zenon DEF RecalculatePath, Continue, Return
<1>3. agenda' = new \o Tail(agenda)
  <2>1. CASE todo = {}
    <3>1. agenda' = Tail(agenda)
      BY <2>1, Zenon DEF RecalculatePath, Return
    <3>2. Tail(agenda) \in Seq(Calls)
      BY <1>1 DEF Inv, TypeOK
    <3>3. new = <<>>
      BY <2>1
    <3>. HIDE DEF new
    <3>. QED
      BY <3>1, <3>2, <3>3
  <2>2. CASE todo # {}
    BY <2>2, Zenon DEF RecalculatePath, Continue
  <2>. QED
    BY <2>1, <2>2
<1>4. ASSUME todo # {} PROVE i \in Nat /\ j + 1 \in Nat /\ c \in Cons
  <2>1. /\ solvers_w[x] \in Seq(Solvers \cup {NoSolver})
        /\ constraints_w[x] \in [Solvers -> Seq(Cons)]
    BY <1>1 DEF Inv, TypeOK
  <2>2. \A p \in todo : /\ p = <<p[1], p[2]>> /\ p[1] \in PathSlots(x)
                         /\ p[2] \in DOMAIN constraints_w[x][solvers_w[x][p[1]]]
    BY DEF PathBlocks
  <2>3. \A k \in PathSlots(x) : k \in Nat /\ solvers_w[x][k] \in Solvers
    BY <2>1 DEF PathSlots
  <2>4. \A p \in todo : p[1] \in Nat /\ p[2] \in Nat
    BY <2>1, <2>2, <2>3
  <2>. HIDE DEF todo
  <2>5. i \in I
    <3>1. I \in SUBSET Nat /\ I # {}
      BY <1>4, <2>4
    <3>. HIDE DEF I
    <3>. QED  BY <3>1, LeastExists
  <2>6. J \in SUBSET Nat /\ J # {}
    BY <2>4, <2>5
  <2>7. j \in J
    <3>. HIDE DEF J
    <3>. QED  BY <2>6, LeastExists
  <2>8. PICK p \in todo : p[1] = i /\ p[2] = j
    <3>. HIDE DEF i, j
    <3>. QED  BY <2>7
  <2>. HIDE DEF i, j, x
  <2>. QED
    BY <2>1, <2>2, <2>3, <2>4, <2>8
<1>. HIDE DEF todo, i, j, x, c
<1>5. new \in Seq(Good')
  BY <1>1, <1>4, GoodCalls, ShortSeqs, Zenon
<1>. HIDE DEF new
<1>. QED
  BY <1>1, <1>2, <1>3, <1>5, GoesOn

(* Looking up the defining solver only appends to the solvers met.         *)
LEMMA LookUpKeeps ==
  ASSUME TypeOK, SlotsKnown, NEW x \in Vars, LookUpDefining(x)
  PROVE  /\ solvers_w' \in [Vars -> Seq(Solvers \cup {NoSolver})]
         /\ \A y \in Vars : \A s \in external[y] :
              \E i \in DOMAIN solvers_w'[y] : solvers_w'[y][i] = s
<1>1. solvers_w \in [Vars -> Seq(Solvers \cup {NoSolver})]
  BY DEF TypeOK
<1>2. solvers_w' \in {solvers_w, [solvers_w EXCEPT ![x] = Append(@, NoSolver)]}
  BY DEF LookUpDefining
<1>3. solvers_w' \in [Vars -> Seq(Solvers \cup {NoSolver})]
  <2>1. Append(solvers_w[x], NoSolver) \in Seq(Solvers \cup {NoSolver})
    BY <1>1, AppendProperties
  <2>. QED
    BY <1>1, <1>2, <2>1, Zenon
<1>4. ASSUME NEW y \in Vars, NEW i \in DOMAIN solvers_w[y]
      PROVE  i \in DOMAIN solvers_w'[y] /\ solvers_w'[y][i] = solvers_w[y][i]
  <2>1. solvers_w[y] \in Seq(Solvers \cup {NoSolver})
    BY <1>1
  <2>2. solvers_w'[y] \in {solvers_w[y], Append(solvers_w[y], NoSolver)}
    BY <1>1, <1>2
  <2>. QED
    BY <2>1, <2>2
<1>. QED
  BY <1>3, <1>4 DEF SlotsKnown

LEMMA AssignVariableStep == Inv /\ AssignVariable => Inv'
<1>. SUFFICES ASSUME Inv, AssignVariable PROVE Inv'
  OBVIOUS
<1>. DEFINE new == IF IsSolveable(Arg) THEN AssignCalls(Arg) ELSE <<>>
<1>. USE DEF varState, solverState
<1>1. Arg \in Vars /\ agenda # <<>> /\ agenda[1].fn = "__assign__"
  BY HeadTyped DEF Inv, AssignVariable, Running
<1>2. /\ agenda' = new \o Tail(agenda)
      /\ UNCHANGED <<stored, external, readonly, constraints_w, enabled, env,
                     solverState, raised, focus>>
  BY Zenon DEF AssignVariable, Continue
<1>3. /\ solvers_w' \in [Vars -> Seq(Solvers \cup {NoSolver})]
      /\ \A y \in Vars : \A s \in external[y] :
           \E i \in DOMAIN solvers_w'[y] : solvers_w'[y][i] = s
  BY <1>1, LookUpKeeps DEF AssignVariable, Inv
<1>4. agenda' \in Seq(Good')
  <2>1. IsSolveable(Arg) => DefiningSolver(Arg) \in Solvers /\ external'[Arg] # {}
    BY <1>1, <1>2, DefiningKnown DEF Inv, IsSolveable
  <2>2. IsSolveable(Arg) => AssignCalls(Arg) \in Seq(Good')
    BY <1>1, <2>1, GoodCalls, ShortSeqs DEF AssignCalls
  <2>3. new \in Seq(Good')
    BY <2>2, ShortSeqs
  <2>4. Grows
    BY <1>2 DEF Grows
  <2>. HIDE DEF new
  <2>. QED
    BY <1>1, <1>2, <2>3, <2>4, ContinueGood DEF Inv
<1>5. agenda' \in Seq(Calls) /\ PendingCalls' /\ EnablingSoon'
  BY <1>4, GoodAgenda
<1>6. TypeOK'
  BY <1>2, <1>3, <1>5 DEF Inv, TypeOK
<1>7. SlotsKnown' /\ RunBlocks' /\ ReadonlyKnown'
  BY <1>2, <1>3 DEF Inv, SlotsKnown, RunBlocks, ReadonlyKnown
<1>8. BlocksKnown' /\ SolversKnow'
  BY <1>2 DEF Inv, BlocksKnown, SymbolsKnown, SolversKnow, HasPrimitive
<1>9. PinsAgree' /\ EnabledIsAsserted'
  BY <1>2 DEF Inv, PinsAgree, EnabledIsAsserted, HasPrimitive
<1>. QED
  BY <1>5, <1>6, <1>7, <1>8, <1>9 DEF Inv

(* A variable made assignable is pinned nowhere new.                       *)
LEMMA AssignableKeeps ==
  ASSUME TypeOK, NEW x \in Vars, pin' = MakeAssignable(x)
  PROVE  /\ pin' \in [Vars -> [Solvers -> Values \cup {NoValue}]]
         /\ \A y \in Vars, s \in Solvers : pin'[y][s] \in {NoValue, pin[y][s]}
<1>1. pin \in [Vars -> [Solvers -> Values \cup {NoValue}]]
  BY DEF TypeOK
<1>2. ASSUME NEW y \in Vars
      PROVE  /\ pin'[y] \in [Solvers -> Values \cup {NoValue}]
             /\ \A s \in Solvers : pin'[y][s] \in {NoValue, pin[y][s]}
  BY <1>1 DEF MakeAssignable
<1>3. pin' = [y \in Vars |-> pin'[y]]
  BY <1>1 DEF MakeAssignable
<1>. QED
  BY <1>2, <1>3

(* A value is proposed to a solver that knows the variable.                *)
LEMMA ProposeKeeps ==
  ASSUME TypeOK, SolversKnow, NEW x \in Vars, NEW s \in Solvers, s \in external[x],
         NEW v \in Values, Propose(x, s, v)
  PROVE  /\ proposal' \in [Vars -> [Solvers -> Values \cup {NoValue}]]
         /\ leaked' \subseteq Vars \X Solvers \X Values
         /\ \A y \in Vars, t \in Solvers : proposal'[y][t] # NoValue => t \in external[y]
         /\ \A xsv \in leaked' : xsv[2] \in external[xsv[1]]
<1>1. proposal \in [Vars -> [Solvers -> Values \cup {NoValue}]]
  BY DEF TypeOK
<1>2. leaked \subseteq Vars \X Solvers \X Values
  BY DEF TypeOK
<1>3. proposal' = [proposal EXCEPT ![x][s] = v]
  BY DEF Propose
<1>4. \A y \in Vars, t \in Solvers : proposal'[y][t] # NoValue => t \in external[y]
  BY <1>1, <1>3 DEF SolversKnow
<1>5. leaked' = leaked \/ (proposal[x][s] # NoValue /\ leaked' = leaked \cup {<<x, s, proposal[x][s]>>})
  BY DEF Propose
<1>6. \A xsv \in leaked' : xsv \in Vars \X Solvers \X Values /\ xsv[2] \in external[xsv[1]]
  BY <1>1, <1>2, <1>5 DEF SolversKnow
<1>. QED
  BY <1>1, <1>3, <1>4, <1>6

LEMMA BeginAssignVariableStep == Inv /\ BeginAssignVariable => Inv'
<1>. SUFFICES ASSUME Inv, BeginAssignVariable PROVE Inv'
  OBVIOUS
<1>. DEFINE x == Arg[1]
            v == Arg[2]
<1>1. x \in Vars /\ v \in Values /\ agenda # <<>> /\ agenda[1].fn = "__begin_assign__"
  BY HeadTyped DEF Inv, BeginAssignVariable, Running
<1>2. /\ stored' = [stored EXCEPT ![x] = v]
      /\ agenda' = Tail(agenda)
      /\ UNCHANGED <<external, readonly, constraints_w, enabled, env, asserted,
                     model, w_value, raised, focus>>
  BY Zenon DEF BeginAssignVariable, Return
<1>3. /\ solvers_w' \in [Vars -> Seq(Solvers \cup {NoSolver})]
      /\ \A y \in Vars : \A s \in external[y] :
           \E i \in DOMAIN solvers_w'[y] : solvers_w'[y][i] = s
  <2>1. CASE IsConstrained(x)
    <3>1. LookUpDefining(x)
      BY <2>1, Zenon DEF BeginAssignVariable
    <3>. QED
      BY <1>1, <3>1, LookUpKeeps DEF Inv
  <2>2. CASE ~ IsConstrained(x)
    BY <2>2 DEF BeginAssignVariable, Inv, TypeOK, SlotsKnown
  <2>. QED
    BY <2>1, <2>2
<1>4. /\ pin' \in [Vars -> [Solvers -> Values \cup {NoValue}]]
      /\ \A y \in Vars, s \in Solvers : pin'[y][s] \in {NoValue, pin[y][s]}
  <2>1. CASE IsConstrained(x)
    <3>1. pin' = MakeAssignable(x)
      BY <2>1, Zenon DEF BeginAssignVariable
    <3>. QED
      BY <1>1, <3>1, AssignableKeeps DEF Inv
  <2>2. CASE ~ IsConstrained(x)
    BY <2>2 DEF BeginAssignVariable, Inv, TypeOK
  <2>. QED
    BY <2>1, <2>2
<1>5. /\ proposal' \in [Vars -> [Solvers -> Values \cup {NoValue}]]
      /\ leaked' \subseteq Vars \X Solvers \X Values
      /\ \A y \in Vars, t \in Solvers : proposal'[y][t] # NoValue => t \in external[y]
      /\ \A xsv \in leaked' : xsv[2] \in external[xsv[1]]
  <2>1. CASE IsConstrained(x) /\ IsSolveable(x)
    <3>1. Propose(x, DefiningSolver(x), v)
      BY <2>1, Zenon DEF BeginAssignVariable
    <3>2. DefiningSolver(x) \in external[x] /\ DefiningSolver(x) \in Solvers
      BY <1>1, <2>1, DefiningKnown DEF Inv
    <3>. QED
      BY <1>1, <3>1, <3>2, ProposeKeeps DEF Inv
  <2>2. CASE ~ (IsConstrained(x) /\ IsSolveable(x))
    BY <2>2 DEF BeginAssignVariable, Inv, TypeOK, SolversKnow
  <2>. QED
    BY <2>1, <2>2
<1>6. agenda' \in Seq(Good')
  <2>1. Grows
    BY <1>2 DEF Grows
  <2>. QED
    BY <1>1, <1>2, <2>1, RestGood DEF Inv
<1>7. agenda' \in Seq(Calls) /\ PendingCalls' /\ EnablingSoon'
  BY <1>6, GoodAgenda
<1>8. TypeOK'
  BY <1>1, <1>2, <1>3, <1>4, <1>5, <1>7 DEF Inv, TypeOK
<1>9. SlotsKnown' /\ RunBlocks' /\ ReadonlyKnown'
  BY <1>2, <1>3 DEF Inv, SlotsKnown, RunBlocks, ReadonlyKnown
<1>10. BlocksKnown' /\ SolversKnow'
  BY <1>2, <1>5 DEF Inv, BlocksKnown, SymbolsKnown, SolversKnow, HasPrimitive
<1>11. PinsAgree' /\ EnabledIsAsserted'
  BY <1>2, <1>4 DEF Inv, PinsAgree, EnabledIsAsserted, HasPrimitive
<1>. QED
  BY <1>7, <1>8, <1>9, <1>10, <1>11 DEF Inv

LEMMA BeginAssignStep == Inv /\ BeginAssign => Inv'
<1>. SUFFICES ASSUME Inv, BeginAssign PROVE Inv'
  OBVIOUS
<1>. DEFINE x == Arg[1]
            s == Arg[2]
<1>. USE DEF varState
<1>1. /\ x \in Vars /\ s \in Solvers /\ s \in external[x]
      /\ agenda # <<>> /\ agenda[1].fn = "begin_assign"
  BY HeadTyped DEF Inv, BeginAssign, Running, PendingOK, Arg
<1>2. /\ Propose(x, s, stored[x]) /\ agenda' = Tail(agenda)
      /\ UNCHANGED <<varState, enabled, env, asserted, pin, model, w_value, raised, focus>>
  BY Zenon DEF BeginAssign, Return
<1>3. /\ proposal' \in [Vars -> [Solvers -> Values \cup {NoValue}]]
      /\ leaked' \subseteq Vars \X Solvers \X Values
      /\ \A y \in Vars, t \in Solvers : proposal'[y][t] # NoValue => t \in external[y]
      /\ \A xsv \in leaked' : xsv[2] \in external[xsv[1]]
  <2>1. stored[x] \in Values
    BY <1>1 DEF Inv, TypeOK
  <2>. QED
    BY <1>1, <1>2, <2>1, ProposeKeeps DEF Inv
<1>4. agenda' \in Seq(Good')
  <2>1. Grows
    BY <1>2 DEF Grows
  <2>. QED
    BY <1>1, <1>2, <2>1, RestGood DEF Inv
<1>5. agenda' \in Seq(Calls) /\ PendingCalls' /\ EnablingSoon'
  BY <1>4, GoodAgenda
<1>6. TypeOK'
  BY <1>2, <1>3, <1>5 DEF Inv, TypeOK
<1>7. SlotsKnown' /\ RunBlocks' /\ ReadonlyKnown'
  BY <1>2 DEF Inv, SlotsKnown, RunBlocks, ReadonlyKnown
<1>8. BlocksKnown' /\ SolversKnow'
  BY <1>2, <1>3 DEF Inv, BlocksKnown, SymbolsKnown, SolversKnow, HasPrimitive
<1>9. PinsAgree' /\ EnabledIsAsserted'
  BY <1>2 DEF Inv, PinsAgree, EnabledIsAsserted, HasPrimitive
<1>. QED
  BY <1>5, <1>6, <1>7, <1>8, <1>9 DEF Inv

LEMMA EndAssignStep == Inv /\ EndAssign => Inv'
<1>. SUFFICES ASSUME Inv, EndAssign PROVE Inv'
  OBVIOUS
<1>. DEFINE x == Arg[1]
            s == Arg[2]
<1>. USE DEF varState
<1>1. x \in Vars /\ s \in Solvers /\ agenda # <<>> /\ agenda[1].fn = "end_assign"
  BY HeadTyped DEF Inv, EndAssign, Running
<1>2. /\ proposal' = [proposal EXCEPT ![x][s] = NoValue]
      /\ agenda' = Tail(agenda) \/ agenda' = <<>>
      /\ raised' = raised \/ raised' = TRUE
      /\ focus' = focus
      /\ UNCHANGED <<varState, enabled, env, asserted, leaked, pin, model, w_value>>
  BY Zenon DEF EndAssign, Return, RaiseError
<1>3. /\ proposal' \in [Vars -> [Solvers -> Values \cup {NoValue}]]
      /\ \A y \in Vars, t \in Solvers : proposal'[y][t] # NoValue => t \in external[y]
  <2>1. proposal \in [Vars -> [Solvers -> Values \cup {NoValue}]]
    BY DEF Inv, TypeOK
  <2>. QED
    BY <1>1, <1>2, <2>1 DEF Inv, SolversKnow
<1>4. agenda' \in Seq(Good')
  <2>1. Grows
    BY <1>2 DEF Grows
  <2>2. Tail(agenda) \in Seq(Good')
    BY <1>1, <2>1, RestGood DEF Inv
  <2>. QED
    BY <1>2, <2>2, ShortSeqs
<1>5. agenda' \in Seq(Calls) /\ PendingCalls' /\ EnablingSoon'
  BY <1>4, GoodAgenda
<1>6. TypeOK'
  BY <1>2, <1>3, <1>5 DEF Inv, TypeOK
<1>7. SlotsKnown' /\ RunBlocks' /\ ReadonlyKnown'
  BY <1>2 DEF Inv, TypeOK, SlotsKnown, RunBlocks, ReadonlyKnown
<1>8. BlocksKnown' /\ SolversKnow'
  BY <1>2, <1>3 DEF Inv, BlocksKnown, SymbolsKnown, SolversKnow, HasPrimitive
<1>9. PinsAgree' /\ EnabledIsAsserted'
  BY <1>2 DEF Inv, PinsAgree, EnabledIsAsserted, HasPrimitive
<1>. QED
  BY <1>5, <1>6, <1>7, <1>8, <1>9 DEF Inv

(* A model speaks of variables its solver knows and shows their pins.      *)
LEMMA ModelsKnown ==
  ASSUME Inv, NEW s \in Solvers, NEW m \in Models(s)
  PROVE  /\ \E xs \in SUBSET Vars : m \in [xs -> Values]
         /\ \A x \in DOMAIN m : s \in external[x]
         /\ \A x \in DOMAIN m : pin[x][s] # NoValue => m[x] = pin[x][s]
<1>1. m \in [Mentioned(s) -> Values] /\ IsModel(s, m) /\ Mentioned(s) \in SUBSET Vars
  BY DEF Models, Mentioned
<1>2. ASSUME NEW x \in Mentioned(s)
      PROVE  s \in external[x]
  <2>1. CASE \E v \in Values : <<x, v>> \in Equalities(s)
    <3>1. PICK v \in Values : <<x, v>> \in Equalities(s)
      BY <2>1
    <3>2. v # NoValue /\ x \in Vars
      BY <1>1, ConstantsAssumption
    <3>3. v = pin[x][s] \/ v = proposal[x][s] \/ <<x, s, v>> \in leaked
      BY <3>1 DEF Equalities
    <3>. QED
      BY <3>2, <3>3 DEF Inv, PinsAgree, SolversKnow
  <2>2. CASE \E ce \in Asserted(s) : x \in Symbols(ce[1], ce[2])
    <3>1. PICK ce \in Asserted(s) : x \in Symbols(ce[1], ce[2])
      BY <2>2
    <3>2. /\ ce[1] \in Cons /\ SolverOf[ce[1]] = s
          /\ ce[2] \in Envs(ce[1]) /\ asserted[ce[1]][ce[2]] > 0
      BY DEF Asserted
    <3>. QED
      BY <3>1, <3>2 DEF Inv, BlocksKnown, SymbolsKnown, HasPrimitive
  <2>. QED
    BY <2>1, <2>2 DEF Mentioned
<1>3. ASSUME NEW x \in Vars, pin[x][s] # NoValue
      PROVE  m[x] = pin[x][s]
  <2>1. pin[x][s] \in Values
    BY <1>3 DEF Inv, TypeOK
  <2>2. <<x, pin[x][s]>> \in Equalities(s)
    BY <2>1 DEF Equalities
  <2>. QED
    BY <1>1, <2>2 DEF IsModel
<1>. QED
  BY <1>1, <1>2, <1>3

LEMMA SolveStep == Inv /\ Solve => Inv'
<1>. SUFFICES ASSUME Inv, Solve PROVE Inv'
  OBVIOUS
<1>. USE DEF varState
<1>1. Arg \in Solvers /\ agenda # <<>> /\ agenda[1].fn = "solve"
  BY HeadTyped DEF Inv, Solve, Running
<1>2. UNCHANGED <<varState, enabled, env, asserted, proposal, leaked, pin, w_value, focus>>
  BY DEF Solve, Return, RaiseError
<1>3. \/ \E m \in Models(Arg) : model' = [model EXCEPT ![Arg] = m] /\ Return
      \/ model' = [model EXCEPT ![Arg] = NoModel] /\ RaiseError
  BY Zenon DEF Solve
<1>4. PICK m : /\ model' = [model EXCEPT ![Arg] = m]
               /\ \E xs \in SUBSET Vars : m \in [xs -> Values]
               /\ \A x \in DOMAIN m : Arg \in external[x]
               /\ \A x \in DOMAIN m : pin[x][Arg] # NoValue => m[x] = pin[x][Arg]
  <2>1. CASE \E m \in Models(Arg) : model' = [model EXCEPT ![Arg] = m]
    BY <1>1, <2>1, ModelsKnown
  <2>2. CASE model' = [model EXCEPT ![Arg] = NoModel]
    <3>1. DOMAIN NoModel = {} /\ NoModel \in [{} -> Values]
      BY DEF NoModel
    <3>. QED
      BY <2>2, <3>1
  <2>. QED
    BY <1>3, <2>1, <2>2
<1>5. /\ DOMAIN model' = Solvers
      /\ \A s \in Solvers : s # Arg => model'[s] = model[s]
      /\ model'[Arg] = m
  BY <1>1, <1>4 DEF Inv, TypeOK
<1>6. /\ ErrorsStay
      /\ agenda' = Tail(agenda) \/ agenda' = <<>>
  BY <1>3 DEF Return, RaiseError, Inv, TypeOK, ErrorsStay
<1>7. agenda' \in Seq(Calls) /\ PendingCalls'
  <2>. DEFINE P == {call \in Calls : PendingOK(call)}
              Q == {call \in Calls : PendingOK(call)'}
  <2>1. \A call \in Calls : PendingOK(call)' <=> PendingOK(call)
    BY <1>2 DEF PendingOK, IsSolveable
  <2>2. Q = P /\ P \subseteq Calls
    BY <2>1
  <2>3. Tail(agenda) \in Seq(P) /\ <<>> \in Seq(P)
    <3>. HIDE DEF P
    <3>1. Tail(agenda) \in Seq(P)
      BY <1>1, HeadTyped DEF Inv, P
    <3>. QED
      BY <3>1, ShortSeqs
  <2>4. agenda' \in Seq(P)
    BY <1>6, <2>3, Zenon
  <2>. HIDE DEF P
  <2>5. agenda' \in Seq(Calls)
    BY <2>2, <2>4
  <2>6. agenda' \in Seq(Q)
    BY <2>2, <2>4, Zenon
  <2>. QED
    BY <2>5, <2>6 DEF PendingCalls
<1>8. EnablingSoon'
  <2>1. agenda \in Seq(Calls)
    BY DEF Inv, TypeOK
  <2>2. ASSUME NEW i \in DOMAIN agenda'
        PROVE  i + 1 \in DOMAIN agenda /\ agenda'[i] = agenda[i + 1] /\ i \in Nat \ {0}
    <3>. HIDE DEF Calls
    <3>1. CASE agenda' = Tail(agenda)
      BY <1>1, <2>1, <3>1
    <3>2. CASE agenda' = <<>>
      BY <3>2
    <3>. QED
      BY <1>6, <3>1, <3>2
  <2>. QED
    BY <1>1, <1>2, <2>2 DEF Inv, EnablingSoon, IsBoolean, Symbols, HasPrimitive
<1>9. TypeOK'
  BY <1>2, <1>4, <1>5, <1>6, <1>7 DEF Inv, TypeOK, ErrorsStay
<1>10. SlotsKnown' /\ RunBlocks' /\ ReadonlyKnown'
  BY <1>2, <1>6 DEF Inv, SlotsKnown, RunBlocks, ReadonlyKnown, ErrorsStay
<1>11. BlocksKnown' /\ SolversKnow'
  BY <1>1, <1>2, <1>4, <1>5 DEF Inv, BlocksKnown, SymbolsKnown, SolversKnow, HasPrimitive
<1>12. PinsAgree' /\ EnabledIsAsserted'
  BY <1>1, <1>2, <1>4, <1>5 DEF Inv, PinsAgree, EnabledIsAsserted, HasPrimitive
<1>. QED
  BY <1>7, <1>8, <1>9, <1>10, <1>11, <1>12 DEF Inv

(* A pinned variable has the value it was pinned at.                       *)
LEMMA PinnedValue == Inv => PinHolds
  BY DEF Inv, PinsAgree, PinHolds, ValueOf

LEMMA GetIStep == Inv /\ GetI => Inv'
<1>. SUFFICES ASSUME Inv, GetI PROVE Inv'
  OBVIOUS
<1>. DEFINE x == Arg
            d == DefiningSolver(x)
            v == ValueOf(x, d)
            new == IF IsShared(x) THEN <<Call("update_downstream_variables", <<x, 1>>)>> ELSE <<>>
<1>1. x \in Vars /\ IsSolveable(x) /\ agenda # <<>> /\ agenda[1].fn = "get_i"
  BY HeadTyped DEF Inv, GetI, Running, PendingOK, Arg
<1>2. d \in external[x] /\ d \in Solvers /\ v \in Values
  BY <1>1, DefiningKnown, ValueKnown DEF Inv
<1>3. /\ stored' = [stored EXCEPT ![x] = v]
      /\ w_value' = [w_value EXCEPT ![x][d] = v]
      /\ UNCHANGED <<solvers_w, external, readonly, constraints_w, enabled, env,
                     asserted, proposal, leaked, model>>
  BY Zenon DEF GetI
<1>4. pin' = MakeAssignable(x) \/ pin' = pin
  BY Zenon DEF GetI
<1>5. /\ pin' \in [Vars -> [Solvers -> Values \cup {NoValue}]]
      /\ \A y \in Vars, s \in Solvers : pin'[y][s] \in {NoValue, pin[y][s]}
  BY <1>1, <1>4, AssignableKeeps DEF Inv, TypeOK
<1>6. UNCHANGED <<raised, focus>>
  BY DEF GetI, Continue, Return
<1>7. agenda' \in Seq(Good')
  <2>1. Grows
    BY <1>3 DEF Grows
  <2>2. CASE IsShared(x)
    <3>1. agenda' = <<Call("update_downstream_variables", <<x, 1>>)>> \o Tail(agenda)
      BY <2>2, Zenon DEF GetI, Continue
    <3>2. <<Call("update_downstream_variables", <<x, 1>>)>> \in Seq(Good')
      BY <1>1, GoodCalls, ShortSeqs
    <3>. HIDE DEF x
    <3>. QED
      BY <1>1, <2>1, <3>1, <3>2, ContinueGood DEF Inv
  <2>3. CASE ~ IsShared(x)
    <3>1. agenda' = Tail(agenda)
      BY <2>3, Zenon DEF GetI, Return
    <3>. QED
      BY <1>1, <2>1, <3>1, RestGood DEF Inv
  <2>. QED
    BY <2>2, <2>3
<1>8. agenda' \in Seq(Calls) /\ PendingCalls' /\ EnablingSoon'
  BY <1>7, GoodAgenda
<1>9. /\ w_value' \in [Vars -> [Solvers -> Values \cup {NoValue}]]
      /\ \A y \in Vars, s \in Solvers : w_value'[y][s] = IF y = x /\ s = d THEN v ELSE w_value[y][s]
  <2>1. w_value \in [Vars -> [Solvers -> Values \cup {NoValue}]]
    BY DEF Inv, TypeOK
  <2>. HIDE DEF x, d, v
  <2>. QED
    BY <1>1, <1>2, <1>3, <2>1
<1>10. TypeOK'
  <2>1. stored' \in [Vars -> Values]
    BY <1>1, <1>2, <1>3 DEF Inv, TypeOK
  <2>. HIDE DEF x, d, v
  <2>. QED
    BY <1>3, <1>5, <1>6, <1>8, <1>9, <2>1 DEF Inv, TypeOK
<1>11. SlotsKnown'
  <2>1. \A y \in Vars : external[y] \subseteq Solvers
    BY DEF Inv, TypeOK
  <2>. HIDE DEF x, d, v
  <2>. QED
    BY <1>2, <1>3, <1>9, <2>1 DEF Inv, SlotsKnown
<1>12. RunBlocks' /\ ReadonlyKnown' /\ BlocksKnown' /\ SolversKnow'
  BY <1>3, <1>6 DEF Inv, RunBlocks, ReadonlyKnown, BlocksKnown, SymbolsKnown, SolversKnow, HasPrimitive
<1>13. PinsAgree'
  <2>1. pin[x][d] # NoValue => v = pin[x][d]
    BY <1>1, <1>2, PinnedValue DEF PinHolds
  <2>. HIDE DEF x, d, v
  <2>. QED
    BY <1>3, <1>5, <1>9, <2>1 DEF Inv, PinsAgree
<1>14. EnabledIsAsserted'
  BY <1>3 DEF Inv, EnabledIsAsserted, HasPrimitive
<1>. QED
  BY <1>8, <1>10, <1>11, <1>12, <1>13, <1>14 DEF Inv

LEMMA MakeNotAssignableStep == Inv /\ MakeNotAssignable => Inv'
<1>. SUFFICES ASSUME Inv, MakeNotAssignable PROVE Inv'
  OBVIOUS
<1>. DEFINE x == Arg
            lock == {s \in readonly[x] : pin[x][s] = NoValue}
            new == <<Call("recalculate_path", <<x, 1, 1>>)>>
<1>1. x \in Vars /\ agenda # <<>> /\ agenda[1].fn = "make_not_assignable"
  BY HeadTyped DEF Inv, MakeNotAssignable, Running
<1>2. /\ pin' = [pin EXCEPT ![x] =
           [s \in Solvers |-> IF s \in lock THEN ValueOf(x, s) ELSE pin[x][s]]]
      /\ w_value' = [w_value EXCEPT ![x] =
           [s \in Solvers |-> IF s \in lock THEN ValueOf(x, s) ELSE w_value[x][s]]]
      /\ agenda' = new \o Tail(agenda)
      /\ UNCHANGED <<varState, enabled, env, asserted, proposal, leaked, model, raised, focus>>
  BY Zenon DEF MakeNotAssignable, Continue
<1>. USE DEF varState
<1>3. \A s \in lock : s \in external[x] /\ s \in Solvers /\ ValueOf(x, s) \in Values
  <2>1. \A s \in lock : s \in external[x] /\ s \in Solvers
    BY <1>1 DEF Inv, ReadonlyKnown, TypeOK
  <2>. QED
    BY <1>1, <2>1, ValueKnown DEF Inv
<1>. HIDE DEF lock
<1>4. /\ pin' \in [Vars -> [Solvers -> Values \cup {NoValue}]]
      /\ \A y \in Vars, s \in Solvers :
           pin'[y][s] = IF y = x /\ s \in lock THEN ValueOf(x, s) ELSE pin[y][s]
  <2>1. pin \in [Vars -> [Solvers -> Values \cup {NoValue}]]
    BY DEF Inv, TypeOK
  <2>. HIDE DEF x
  <2>. QED
    BY <1>1, <1>2, <1>3, <2>1
<1>5. /\ w_value' \in [Vars -> [Solvers -> Values \cup {NoValue}]]
      /\ \A y \in Vars, s \in Solvers :
           w_value'[y][s] = IF y = x /\ s \in lock THEN ValueOf(x, s) ELSE w_value[y][s]
  <2>1. w_value \in [Vars -> [Solvers -> Values \cup {NoValue}]]
    BY DEF Inv, TypeOK
  <2>. HIDE DEF x
  <2>. QED
    BY <1>1, <1>2, <1>3, <2>1
<1>. HIDE DEF x
<1>6. agenda' \in Seq(Good')
  <2>1. Grows
    BY <1>2 DEF Grows
  <2>2. new \in Seq(Good')
    BY <1>1, GoodCalls, ShortSeqs
  <2>. HIDE DEF new
  <2>. QED
    BY <1>1, <1>2, <2>1, <2>2, ContinueGood DEF Inv
<1>7. agenda' \in Seq(Calls) /\ PendingCalls' /\ EnablingSoon'
  BY <1>6, GoodAgenda
<1>8. TypeOK'
  BY <1>2, <1>4, <1>5, <1>7 DEF Inv, TypeOK
<1>9. SlotsKnown'
  <2>1. \A y \in Vars : external[y] \subseteq Solvers
    BY DEF Inv, TypeOK
  <2>. QED
    BY <1>2, <1>3, <1>5, <2>1 DEF Inv, SlotsKnown
<1>10. RunBlocks' /\ ReadonlyKnown' /\ BlocksKnown' /\ SolversKnow'
  BY <1>2 DEF Inv, RunBlocks, ReadonlyKnown, BlocksKnown, SymbolsKnown, SolversKnow, HasPrimitive
<1>11. PinsAgree'
  <2>1. \A y \in Vars, s \in Solvers : y \in DOMAIN model[s] => ValueOf(y, s) = model[s][y]
    BY DEF ValueOf
  <2>. QED
    BY <1>1, <1>2, <1>3, <1>4, <1>5, <2>1 DEF Inv, PinsAgree
<1>12. EnabledIsAsserted'
  BY <1>2 DEF Inv, EnabledIsAsserted, HasPrimitive
<1>. QED
  BY <1>7, <1>8, <1>9, <1>10, <1>11, <1>12 DEF Inv

LEMMA SetEnabledStep == Inv /\ SetEnabled => Inv'
<1>. SUFFICES ASSUME Inv, SetEnabled PROVE Inv'
  OBVIOUS
<1>. USE DEF varState, solverState
<1>1. /\ Arg \in Cons /\ env[Arg] # NoEnv /\ agenda # <<>>
      /\ agenda[1].fn = "set_enabled" /\ agenda[1].arg = Arg
  BY HeadTyped DEF Inv, SetEnabled, Running, PendingOK, Arg
<1>2. /\ enabled' = [enabled EXCEPT ![Arg] = TRUE]
      /\ agenda' = Tail(agenda)
      /\ UNCHANGED <<varState, env, solverState, raised, focus>>
  BY Zenon DEF SetEnabled, Return
<1>3. enabled' \in [Cons -> BOOLEAN] /\ \A c \in Cons : enabled'[c] => c = Arg \/ enabled[c]
  BY <1>1, <1>2 DEF Inv, TypeOK
<1>4. agenda' \in Seq(Good')
  <2>. DEFINE P == {call \in Calls : PendingOK(call)}
  <2>1. agenda \in Seq(P)
    BY Zenon DEF Inv, PendingCalls
  <2>2. \A i \in DOMAIN agenda : i # 1 => agenda[i].fn # "set_enabled"
    BY <1>1 DEF Inv, EnablingSoon
  <2>3. \A call \in P : call.fn # "set_enabled" => call \in Good'
    BY <1>2 DEF Good, PendingOK, IsSolveable
  <2>. HIDE DEF P
  <2>4. \A i \in 1..Len(Tail(agenda)) : Tail(agenda)[i] \in P /\ Tail(agenda)[i].fn # "set_enabled"
    BY <1>1, <2>1, <2>2
  <2>5. \A i \in 1..Len(Tail(agenda)) : Tail(agenda)[i] \in Good'
    BY <2>3, <2>4
  <2>6. Tail(agenda) \in Seq(P)
    BY <1>1, <2>1
  <2>. QED
    BY <1>2, <2>5, <2>6, SeqWithin, Zenon
<1>5. agenda' \in Seq(Calls) /\ PendingCalls' /\ EnablingSoon'
  BY <1>4, GoodAgenda
<1>6. TypeOK'
  BY <1>2, <1>3, <1>5 DEF Inv, TypeOK
<1>7. SlotsKnown' /\ RunBlocks' /\ ReadonlyKnown'
  BY <1>1, <1>2, <1>3 DEF Inv, SlotsKnown, RunBlocks, ReadonlyKnown
<1>8. BlocksKnown' /\ SolversKnow' /\ PinsAgree'
  BY <1>2 DEF Inv, BlocksKnown, SymbolsKnown, SolversKnow, PinsAgree, HasPrimitive
<1>9. EnabledIsAsserted'
  <2>1. 1 \in DOMAIN agenda
    <3>1. agenda \in Seq(Calls)
      BY DEF Inv, TypeOK
    <3>. QED
      BY <1>1, <3>1
  <2>2. HasPrimitive(Arg) => IsBoolean(Arg, env[Arg]) \/ asserted[Arg][env[Arg]] > 0
    BY <1>1, <2>1 DEF Inv, EnablingSoon
  <2>. QED
    BY <1>2, <1>3, <2>2 DEF Inv, EnabledIsAsserted, IsBoolean, Symbols, HasPrimitive
<1>. QED
  BY <1>5, <1>6, <1>7, <1>8, <1>9 DEF Inv

(* An `enable' that is about to end.                                       *)
LEMMA EndingEnable ==
  ASSUME NEW new \in {<<Call("set_enabled", Arg)>>,
                      <<Call("solve", SolverOf[Arg]), Call("set_enabled", Arg)>>},
         Inv, Running("enable"), UNCHANGED <<external, env>>,
         HasPrimitive(Arg) => IsBoolean(Arg, env[Arg]) \/ asserted'[Arg][env[Arg]] > 0,
         agenda' = new \o Tail(agenda)
  PROVE  agenda' \in Seq(Calls) /\ PendingCalls' /\ EnablingSoon'
<1>. DEFINE P == {call \in Calls : PendingOK(call)'}
            a == Call("solve", SolverOf[Arg])
            b == Call("set_enabled", Arg)
<1>1. Arg \in Cons /\ env[Arg] # NoEnv /\ agenda # <<>> /\ agenda[1].fn = "enable"
  BY HeadTyped DEF Inv, Running, PendingOK, Arg
<1>2. Grows
  BY DEF Grows
<1>3. Tail(agenda) \in Seq(Good')
  BY <1>1, <1>2, RestGood DEF Inv
<1>4. a \in P /\ b \in P
  <2>1. SolverOf[Arg] \in Solvers
    BY <1>1, ConstantsAssumption
  <2>. QED
    BY <1>1, <2>1 DEF Calls, Call, PendingOK
<1>5. Good' \subseteq P /\ P \subseteq Calls /\ \A call \in Good' : call.fn # "set_enabled"
  BY DEF Good
<1>6. a.fn = "solve" /\ b.fn = "set_enabled" /\ b.arg = Arg
  BY DEF Call
<1>7. new \in {<<b>>, <<a, b>>}
  OBVIOUS
<1>. HIDE DEF P, a, b
<1>8. agenda' \in Seq(P)
  <2>1. Tail(agenda) \in Seq(P)
    BY <1>3, <1>5, SeqGrows, Zenon
  <2>2. new \in Seq(P)
    BY <1>4, <1>7, ShortSeqs, Zenon
  <2>. QED
    BY <2>1, <2>2
<1>9. \A i \in DOMAIN agenda' : agenda'[i].fn = "set_enabled" =>
        /\ i = 1 \/ (i = 2 /\ agenda'[1].fn = "solve")
        /\ agenda'[i].arg = Arg
  <2>. DEFINE rest == Tail(agenda)
  <2>1. rest \in Seq(Good') /\ agenda' = new \o rest
    BY <1>3
  <2>2. \A i \in 1..Len(rest) : rest[i].fn # "set_enabled"
    BY <1>5, <2>1
  <2>. HIDE DEF rest
  <2>3. CASE new = <<b>>
    BY <1>6, <2>1, <2>2, <2>3
  <2>4. CASE new = <<a, b>>
    <3>1. /\ agenda'[1] = a /\ agenda'[2] = b
          /\ \A i \in DOMAIN agenda' : i # 1 /\ i # 2 =>
               i - 2 \in 1..Len(rest) /\ agenda'[i] = rest[i - 2]
      BY <2>1, <2>4
    <3>. QED
      BY <1>6, <2>2, <3>1
  <2>. QED
    BY <1>7, <2>3, <2>4
<1>10. EnablingSoon'
  BY <1>9 DEF EnablingSoon, IsBoolean, Symbols, HasPrimitive
<1>11. agenda' \in Seq(Calls)
  BY <1>5, <1>8
<1>. QED
  BY <1>8, <1>10, <1>11 DEF PendingCalls, P

LEMMA EnableConstraintStep == Inv /\ EnableConstraint => Inv'
<1>. SUFFICES ASSUME Inv, EnableConstraint PROVE Inv'
  OBVIOUS
<1>. DEFINE c == Arg
<1>. USE DEF varState
<1>1. /\ c \in Cons /\ env[c] # NoEnv /\ Running("enable")
      /\ agenda # <<>> /\ agenda[1].fn = "enable"
  BY HeadTyped DEF Inv, EnableConstraint, Running, PendingOK, Arg
<1>2. UNCHANGED <<varState, enabled, env, proposal, leaked, pin, model, w_value>>
  BY Zenon DEF EnableConstraint
<1>3. /\ HasPrimitive(c) => env[c] \in Envs(c)
      /\ asserted[c] \in [Envs(c) -> Nat] /\ DOMAIN asserted = Cons
  BY <1>1 DEF Inv, TypeOK, HasPrimitive
<1>4. \/ asserted' = asserted
      \/ HasPrimitive(c) /\ asserted' = [asserted EXCEPT ![c][env[c]] = @ + 1]
  BY Zenon DEF EnableConstraint, AddPrimitive
<1>5. /\ DOMAIN asserted' = Cons
      /\ \A d \in Cons : asserted'[d] \in [Envs(d) -> Nat]
      /\ \A d \in Cons : \A e \in Envs(d) :
           /\ asserted'[d][e] >= asserted[d][e]
           /\ asserted'[d][e] > 0 => asserted[d][e] > 0 \/ (d = c /\ HasPrimitive(c) /\ e = env[d])
  <2>. DEFINE e0 == env[c]
              n == asserted[c][e0] + 1
  <2>1. \A d \in Cons : asserted[d] \in [Envs(d) -> Nat]
    BY DEF Inv, TypeOK
  <2>2. HasPrimitive(c) => e0 \in Envs(c) /\ n \in Nat /\ n > asserted[c][e0]
    BY <1>3
  <2>3. \/ asserted' = asserted
        \/ HasPrimitive(c) /\ asserted' = [asserted EXCEPT ![c][e0] = n]
    BY <1>4
  <2>. HIDE DEF c, n
  <2>4. CASE asserted' = asserted
    BY <1>3, <2>1, <2>4
  <2>5. CASE HasPrimitive(c) /\ asserted' = [asserted EXCEPT ![c][e0] = n]
    <3>1. DOMAIN asserted' = Cons /\ \A d \in Cons : d # c => asserted'[d] = asserted[d]
      BY <1>3, <2>5
    <3>2. asserted'[c] = [asserted[c] EXCEPT ![e0] = n]
      BY <1>1, <1>3, <2>5
    <3>. HIDE DEF e0
    <3>. USE <2>2, <2>5
    <3>3. /\ asserted'[c] \in [Envs(c) -> Nat]
          /\ \A e \in Envs(c) : asserted'[c][e] = IF e = e0 THEN n ELSE asserted[c][e]
      BY <1>3, <2>2, <3>2
    <3>4. ASSUME NEW d \in Cons
          PROVE  /\ asserted'[d] \in [Envs(d) -> Nat]
                 /\ \A e \in Envs(d) :
                      /\ asserted'[d][e] >= asserted[d][e]
                      /\ asserted'[d][e] > 0 => asserted[d][e] > 0 \/ (d = c /\ e = e0)
      BY <1>3, <2>1, <2>2, <3>1, <3>3
    <3>. QED
      BY <3>1, <3>4 DEF e0
  <2>. QED
    BY <2>3, <2>4, <2>5
<1>6. ErrorsStay /\ focus' \subseteq Vars
  <2>1. focus' = focus /\ (raised' = raised \/ raised' = TRUE)
    BY Zenon DEF EnableConstraint, AddPrimitive, Return, Continue, RaiseError
  <2>. QED
    BY <2>1 DEF Inv, TypeOK, ErrorsStay
<1>7. \/ /\ agenda' = Tail(agenda) \/ agenda' = <<>>
         /\ asserted' = asserted
      \/ /\ agenda' = <<Call("set_enabled", c)>> \o Tail(agenda)
         /\ HasPrimitive(c) => IsBoolean(c, env[c])
      \/ /\ agenda' = <<Call("solve", SolverOf[c]), Call("set_enabled", c)>> \o Tail(agenda)
         /\ HasPrimitive(c) /\ asserted' = [asserted EXCEPT ![c][env[c]] = @ + 1]
  BY Zenon DEF EnableConstraint, AddPrimitive, Return, Continue, RaiseError
<1>8. agenda' \in Seq(Calls) /\ PendingCalls' /\ EnablingSoon'
  <2>1. CASE agenda' = Tail(agenda) \/ agenda' = <<>>
    <3>1. Tail(agenda) \in Seq(Good') /\ <<>> \in Seq(Good')
      BY <1>1, <1>2, RestGood, ShortSeqs DEF Grows, Inv
    <3>. QED
      BY <2>1, <3>1, GoodAgenda
  <2>2. CASE /\ agenda' = <<Call("set_enabled", c)>> \o Tail(agenda)
             /\ HasPrimitive(c) => IsBoolean(c, env[c])
    BY <1>1, <1>2, <2>2, EndingEnable
  <2>3. CASE /\ agenda' = <<Call("solve", SolverOf[c]), Call("set_enabled", c)>> \o Tail(agenda)
             /\ HasPrimitive(c) /\ asserted' = [asserted EXCEPT ![c][env[c]] = @ + 1]
    <3>1. asserted'[c][env[c]] > 0
      BY <1>1, <1>3, <2>3
    <3>. QED
      BY <1>1, <1>2, <2>3, <3>1, EndingEnable
  <2>. QED
    BY <1>7, <2>1, <2>2, <2>3
<1>. HIDE DEF c
<1>9. TypeOK'
  BY <1>2, <1>5, <1>6, <1>8 DEF Inv, TypeOK, Envs, SnapshotOf, Constants, ErrorsStay
<1>10. SlotsKnown' /\ RunBlocks' /\ ReadonlyKnown' /\ SolversKnow' /\ PinsAgree'
  BY <1>2, <1>6 DEF ErrorsStay, Inv, SlotsKnown, RunBlocks, ReadonlyKnown, SolversKnow, PinsAgree
<1>11. BlocksKnown'
  BY <1>1, <1>2, <1>5 DEF Inv, BlocksKnown, SymbolsKnown, Symbols, Envs, SnapshotOf, Constants,
     HasPrimitive
<1>12. EnabledIsAsserted'
  <2>. SUFFICES ASSUME NEW d \in Cons, enabled'[d], HasPrimitive(d)', ~IsBoolean(d, env'[d])
                PROVE  asserted'[d][env'[d]] > 0
    BY DEF EnabledIsAsserted, IsBoolean, Symbols
  <2>1. enabled[d] /\ HasPrimitive(d) /\ ~IsBoolean(d, env[d]) /\ env'[d] = env[d]
    BY <1>2 DEF HasPrimitive
  <2>2. env[d] \in Envs(d) /\ asserted[d][env[d]] > 0
    BY <2>1 DEF Inv, EnabledIsAsserted, HasPrimitive, TypeOK
  <2>3. asserted[d] \in [Envs(d) -> Nat] /\ asserted'[d] \in [Envs(d) -> Nat]
    BY <1>5 DEF Inv, TypeOK
  <2>. QED
    BY <1>5, <2>1, <2>2, <2>3
<1>. QED
  BY <1>8, <1>9, <1>10, <1>11, <1>12 DEF Inv

(* Removing a constraint takes at most a copy of its own primitive.        *)
LEMMA RetractKeeps ==
  ASSUME TypeOK, NEW c \in Cons, env[c] # NoEnv, Retract(c)
  PROVE  /\ DOMAIN asserted' = Cons
         /\ \A d \in Cons : asserted'[d] \in [Envs(d) -> Nat]
         /\ \A d \in Cons : \A e \in Envs(d) : asserted'[d][e] > 0 => asserted[d][e] > 0
         /\ \A d \in Cons : d # c => asserted'[d] = asserted[d]
<1>. SUFFICES ASSUME HasPrimitive(c)
              PROVE  /\ DOMAIN asserted' = Cons
                     /\ \A d \in Cons : asserted'[d] \in [Envs(d) -> Nat]
                     /\ \A d \in Cons : \A e \in Envs(d) : asserted'[d][e] > 0 => asserted[d][e] > 0
                     /\ \A d \in Cons : d # c => asserted'[d] = asserted[d]
  BY DEF Retract, TypeOK
<1>1. /\ DOMAIN asserted = Cons /\ \A d \in Cons : asserted[d] \in [Envs(d) -> Nat]
      /\ env[c] \in Envs(c)
  BY DEF TypeOK, HasPrimitive
<1>2. asserted[c][env[c]] \in Nat
  BY <1>1
<1>3. PICK n \in Nat : /\ asserted' = [asserted EXCEPT ![c][env[c]] = n]
                       /\ n > 0 => asserted[c][env[c]] > 0
  <2>1. CASE asserted[c][env[c]] > 0 /\ ~IsBoolean(c, env[c])
    <3>1. asserted' = [asserted EXCEPT ![c][env[c]] = asserted[c][env[c]] - 1]
      BY <2>1 DEF Retract
    <3>2. asserted[c][env[c]] - 1 \in Nat
      BY <1>2, <2>1
    <3>. QED
      BY <2>1, <3>1, <3>2, Zenon
  <2>2. CASE ~ (asserted[c][env[c]] > 0 /\ ~IsBoolean(c, env[c]))
    <3>1. asserted' = [asserted EXCEPT ![c][env[c]] = asserted[c][env[c]]]
      BY <2>2 DEF Retract
    <3>. QED
      BY <1>2, <3>1, Zenon
  <2>. QED
    BY <2>1, <2>2
<1>. QED
  BY <1>1, <1>3

(* The slots of a variable that meets a solver.                            *)
LEMMA SlotsWithKnown ==
  ASSUME TypeOK, NEW x \in Vars, NEW s \in Solvers
  PROVE  /\ SlotsWith(x, s) \in Seq(Solvers \cup {NoSolver})
         /\ \E i \in DOMAIN SlotsWith(x, s) : SlotsWith(x, s)[i] = s
         /\ \A i \in DOMAIN solvers_w[x] :
              i \in DOMAIN SlotsWith(x, s) /\ SlotsWith(x, s)[i] = solvers_w[x][i]
<1>. DEFINE slots == solvers_w[x]
<1>1. slots \in Seq(Solvers \cup {NoSolver})
  BY DEF TypeOK
<1>. HIDE DEF slots
<1>2. CASE \E i \in DOMAIN slots : slots[i] = s
  BY <1>1, <1>2 DEF SlotsWith, slots
<1>3. CASE ~ \E i \in DOMAIN slots : slots[i] = s
  <2>1. SlotsWith(x, s) = Append(slots, s)
    BY <1>3 DEF SlotsWith, slots
  <2>2. /\ Append(slots, s) \in Seq(Solvers \cup {NoSolver})
        /\ DOMAIN Append(slots, s) = 1..Len(slots) + 1 /\ DOMAIN slots = 1..Len(slots)
        /\ Len(slots) \in Nat
        /\ Append(slots, s)[Len(slots) + 1] = s
        /\ \A i \in 1..Len(slots) : Append(slots, s)[i] = slots[i]
    BY <1>1
  <2>. QED
    BY <2>1, <2>2 DEF slots
<1>. QED
  BY <1>2, <1>3

(* Variables that meet a solver, on a run of a block that may raise, keep  *)
(* what they had.                                                          *)
LEMMA MeetKeeps ==
  ASSUME Inv, NEW c \in Cons, NEW met \in SUBSET Vars, NEW read \in SUBSET met,
         MeetVariables(c, read, met), UNCHANGED <<stored, model>>
  PROVE  /\ solvers_w' \in [Vars -> Seq(Solvers \cup {NoSolver})]
         /\ external' \in [Vars -> SUBSET Solvers]
         /\ readonly' \in [Vars -> SUBSET Solvers]
         /\ constraints_w' \in [Vars -> [Solvers -> Seq(Cons)]]
         /\ pin' \in [Vars -> [Solvers -> Values \cup {NoValue}]]
         /\ w_value' \in [Vars -> [Solvers -> Values \cup {NoValue}]]
         /\ \A x \in Vars : external[x] \subseteq external'[x]
         /\ \A x \in read : <<x, SolverOf[c]>> \in Supported => SolverOf[c] \in external'[x]
         /\ SlotsKnown' /\ ReadonlyKnown' /\ PinsAgree'
<1>. DEFINE s == SolverOf[c]
            joins == {x \in read : Joins(x, s)}
            locks(x) == IF x \in joins THEN NewlyReadonly(x, s) ELSE {}
<1>1. s \in Solvers /\ read \subseteq Vars
  BY ConstantsAssumption
<1>2. /\ solvers_w' = [x \in Vars |-> IF x \in met THEN SlotsWith(x, s) ELSE solvers_w[x]]
      /\ external' = [x \in Vars |-> IF x \in joins THEN external[x] \cup {s} ELSE external[x]]
      /\ readonly' = [x \in Vars |-> readonly[x] \cup locks(x)]
      /\ w_value' = [x \in Vars |-> [t \in Solvers |->
           IF t \in locks(x) \/ (t = s /\ x \in joins) THEN ValueAtJoin(x, s, t)
           ELSE w_value[x][t]]]
      /\ pin' = [x \in Vars |-> [t \in Solvers |->
           IF t \in locks(x) THEN ValueAtJoin(x, s, t) ELSE pin[x][t]]]
  BY DEF MeetVariables
<1>3. constraints_w' \in [Vars -> [Solvers -> Seq(Cons)]]
  <2>1. constraints_w' = [x \in Vars |->
          IF x \in read /\ \A i \in DOMAIN constraints_w[x][s] : constraints_w[x][s][i] # c
          THEN [constraints_w[x] EXCEPT ![s] = Append(@, c)] ELSE constraints_w[x]]
    BY DEF MeetVariables
  <2>2. ASSUME NEW x \in Vars
        PROVE  /\ constraints_w[x] \in [Solvers -> Seq(Cons)]
               /\ [constraints_w[x] EXCEPT ![s] = Append(@, c)] \in [Solvers -> Seq(Cons)]
    <3>1. constraints_w[x] \in [Solvers -> Seq(Cons)]
      BY DEF Inv, TypeOK
    <3>2. Append(constraints_w[x][s], c) \in Seq(Cons)
      BY <1>1, <3>1, AppendProperties
    <3>. HIDE DEF s
    <3>. QED
      BY <1>1, <3>1, <3>2
  <2>. HIDE DEF s
  <2>. QED
    BY <2>1, <2>2
<1>4. \A x \in joins : x \in Vars /\ x \in read /\ <<x, s>> \in Supported /\ s \notin external[x]
  BY <1>1 DEF Joins
<1>5. \A x \in Vars : locks(x) \subseteq external'[x] /\ (locks(x) # {} => x \in joins)
  BY <1>2 DEF NewlyReadonly
<1>6. \A x \in Vars : external[x] \subseteq Solvers /\ readonly[x] \subseteq external[x]
  BY DEF Inv, TypeOK, ReadonlyKnown
<1>7. \A x \in Vars : external'[x] = IF x \in joins THEN external[x] \cup {s} ELSE external[x]
  BY <1>2
<1>8. \A x \in read : <<x, s>> \in Supported => s \in external'[x]
  BY <1>1, <1>7 DEF Joins
<1>9. \A x \in Vars, t \in Solvers :
         /\ t \in locks(x) \/ (t = s /\ x \in joins) => ValueAtJoin(x, s, t) \in Values
         /\ w_value'[x][t] = IF t \in locks(x) \/ (t = s /\ x \in joins) THEN ValueAtJoin(x, s, t)
                             ELSE w_value[x][t]
         /\ pin'[x][t] = IF t \in locks(x) THEN ValueAtJoin(x, s, t) ELSE pin[x][t]
  <2>1. ASSUME NEW x \in Vars, NEW t \in Solvers, t \in locks(x) \/ (t = s /\ x \in joins)
        PROVE  ValueAtJoin(x, s, t) \in Values
    <3>1. t = s \/ t \in external[x]
      BY <1>5, <1>7, <2>1
    <3>2. t \in external[x] => ValueOf(x, t) \in Values
      BY ValueKnown DEF Inv
    <3>3. stored[x] \in Values
      BY DEF Inv, TypeOK
    <3>. QED
      BY <3>1, <3>2, <3>3 DEF ValueAtJoin
  <2>. QED
    BY <1>2, <2>1
<1>10. \A x \in Vars : external[x] \subseteq external'[x]
  BY <1>7
<1>11. solvers_w' \in [Vars -> Seq(Solvers \cup {NoSolver})]
  <2>1. \A x \in Vars : SlotsWith(x, s) \in Seq(Solvers \cup {NoSolver})
    BY <1>1, SlotsWithKnown DEF Inv
  <2>2. solvers_w \in [Vars -> Seq(Solvers \cup {NoSolver})]
    BY DEF Inv, TypeOK
  <2>. HIDE DEF s
  <2>. QED
    BY <1>2, <2>1, <2>2
<1>12. \A x \in Vars : \A t \in external'[x] : \E i \in DOMAIN solvers_w'[x] : solvers_w'[x][i] = t
  <2>. SUFFICES ASSUME NEW x \in Vars, NEW t \in external'[x]
                PROVE  \E i \in DOMAIN solvers_w'[x] : solvers_w'[x][i] = t
    OBVIOUS
  <2>1. solvers_w'[x] = IF x \in met THEN SlotsWith(x, s) ELSE solvers_w[x]
    BY <1>2
  <2>2. t \in external[x] => \E i \in DOMAIN solvers_w[x] : solvers_w[x][i] = t
    BY DEF Inv, SlotsKnown
  <2>3. t \notin external[x] => t = s /\ x \in met
    BY <1>4, <1>7
  <2>4. /\ \E i \in DOMAIN SlotsWith(x, s) : SlotsWith(x, s)[i] = s
        /\ \A i \in DOMAIN solvers_w[x] :
             i \in DOMAIN SlotsWith(x, s) /\ SlotsWith(x, s)[i] = solvers_w[x][i]
    BY <1>1, SlotsWithKnown DEF Inv
  <2>. HIDE DEF s, joins
  <2>. QED
    BY <2>1, <2>2, <2>3, <2>4
<1>13. external' \in [Vars -> SUBSET Solvers] /\ readonly' \in [Vars -> SUBSET Solvers]
  <2>1. \A x \in Vars : external'[x] \in SUBSET Solvers /\ readonly[x] \cup locks(x) \in SUBSET Solvers
    BY <1>1, <1>5, <1>6, <1>7
  <2>. HIDE DEF s, joins, locks
  <2>. QED
    BY <1>2, <2>1
<1>14. /\ pin' \in [Vars -> [Solvers -> Values \cup {NoValue}]]
       /\ w_value' \in [Vars -> [Solvers -> Values \cup {NoValue}]]
  <2>1. /\ pin \in [Vars -> [Solvers -> Values \cup {NoValue}]]
        /\ w_value \in [Vars -> [Solvers -> Values \cup {NoValue}]]
    BY DEF Inv, TypeOK
  <2>. HIDE DEF s, joins, locks
  <2>2. \A x \in Vars, t \in Solvers :
          /\ (IF t \in locks(x) THEN ValueAtJoin(x, s, t) ELSE pin[x][t]) \in Values \cup {NoValue}
          /\ (IF t \in locks(x) \/ (t = s /\ x \in joins) THEN ValueAtJoin(x, s, t)
              ELSE w_value[x][t]) \in Values \cup {NoValue}
    BY <1>9, <2>1
  <2>. QED
    BY <1>2, <2>2
<1>15. ReadonlyKnown'
  <2>1. \A x \in Vars : readonly'[x] = readonly[x] \cup locks(x)
    BY <1>2
  <2>. HIDE DEF locks
  <2>. QED
    BY <1>5, <1>6, <1>10, <2>1 DEF ReadonlyKnown
<1>16. SlotsKnown'
  <2>. SUFFICES ASSUME NEW x \in Vars, NEW t \in external'[x]
                PROVE  w_value'[x][t] \in Values
    BY <1>12 DEF SlotsKnown
  <2>1. t \in Solvers /\ (t \in external[x] \/ (t = s /\ x \in joins))
    BY <1>1, <1>6, <1>7
  <2>2. t \in external[x] => w_value[x][t] \in Values
    BY DEF Inv, SlotsKnown
  <2>. HIDE DEF s, joins, locks
  <2>. QED
    BY <1>9, <2>1, <2>2
<1>17. PinsAgree'
  <2>. SUFFICES ASSUME NEW x \in Vars, NEW t \in Solvers, pin'[x][t] # NoValue
                PROVE  /\ t \in external'[x] /\ w_value'[x][t] = pin'[x][t]
                       /\ x \in DOMAIN model[t] => model[t][x] = pin'[x][t]
    BY DEF PinsAgree
  <2>1. CASE t \in locks(x)
    <3>1. t \in external'[x] /\ x \in joins
      BY <1>5, <2>1
    <3>2. x \in DOMAIN model[t] => t \in external[x]
      BY DEF Inv, SolversKnow
    <3>3. x \in DOMAIN model[t] => ValueAtJoin(x, s, t) = model[t][x]
      BY <1>4, <3>1, <3>2 DEF ValueAtJoin, ValueOf
    <3>. HIDE DEF s, joins, locks
    <3>. QED
      BY <1>9, <2>1, <3>1, <3>3
  <2>2. CASE t \notin locks(x)
    <3>1. pin'[x][t] = pin[x][t]
      BY <1>9, <2>2
    <3>2. /\ t \in external[x] /\ w_value[x][t] = pin[x][t]
          /\ x \in DOMAIN model[t] => model[t][x] = pin[x][t]
      BY <3>1 DEF Inv, PinsAgree
    <3>3. ~ (t = s /\ x \in joins)
      BY <1>4, <3>2
    <3>. HIDE DEF s, joins, locks
    <3>. QED
      BY <1>9, <1>10, <2>2, <3>1, <3>2, <3>3
  <2>. QED
    BY <2>1, <2>2
<1>. QED
  BY <1>3, <1>8, <1>10, <1>11, <1>13, <1>14, <1>15, <1>16, <1>17

(* Running a block lets variables meet its solver and forgets nothing.     *)
LEMMA RunKeeps ==
  ASSUME Inv, NEW c \in Cons, RunPredicate(c), UNCHANGED <<stored, model>>
  PROVE  /\ solvers_w' \in [Vars -> Seq(Solvers \cup {NoSolver})]
         /\ external' \in [Vars -> SUBSET Solvers]
         /\ readonly' \in [Vars -> SUBSET Solvers]
         /\ constraints_w' \in [Vars -> [Solvers -> Seq(Cons)]]
         /\ pin' \in [Vars -> [Solvers -> Values \cup {NoValue}]]
         /\ w_value' \in [Vars -> [Solvers -> Values \cup {NoValue}]]
         /\ DOMAIN env' = Cons /\ env'[c] \in Envs(c) /\ env'[c] \notin {NoEnv, Emptied}
         /\ \A d \in Cons : d # c => env'[d] = env[d]
         /\ Grows
         /\ SlotsKnown' /\ ReadonlyKnown' /\ PinsAgree'
         /\ \A x \in Symbols(c, env'[c]) : SolverOf[c] \in external'[x]
<1>. DEFINE reads == Reads(c, stored)
<1>1. stored \in [Vars -> Values] /\ DOMAIN env = Cons
  BY DEF Inv, TypeOK
<1>2. reads \in SUBSET Vars /\ reads \in SUBSET reads /\ MeetVariables(c, reads, reads)
  BY <1>1, ConstantsAssumption DEF RunPredicate
<1>3. /\ env' = [env EXCEPT ![c] = SnapshotOf(c, stored)]
      /\ env'[c] = SnapshotOf(c, stored) /\ \A d \in Cons : d # c => env'[d] = env[d]
  BY <1>1 DEF RunPredicate, Snapshot
<1>4. DOMAIN env' = Cons /\ env'[c] \in Envs(c) /\ env'[c] \notin {NoEnv, Emptied}
  BY <1>1, <1>3, SnapshotTyped
<1>5. \A x \in Symbols(c, env'[c]) : x \in reads /\ <<x, SolverOf[c]>> \in Supported
  BY <1>1, <1>3, SnapshotTyped
<1>. HIDE DEF reads
<1>. QED
  BY <1>2, <1>3, <1>4, <1>5, MeetKeeps DEF Grows

(* Variables met by a run of the block, to its end or not.                 *)
Meets(c) == \E met \in SUBSET Vars : \E read \in SUBSET met : MeetVariables(c, read, met)

LEMMA RunMeets ==
  ASSUME Inv, NEW c \in Cons, RunPredicate(c)
  PROVE  Meets(c)
<1>1. Reads(c, stored) \in SUBSET Vars
  BY ConstantsAssumption DEF Inv, TypeOK
<1>. QED
  BY <1>1 DEF Meets, RunPredicate

(* A block that raises has met variables it reads.                         *)
LEMMA BreakMeets ==
  ASSUME Inv, NEW c \in Cons, BreakOff(c)
  PROVE  Meets(c)
<1>1. stored \in [Vars -> Values] /\ Reads(c, stored) \in SUBSET Vars
  BY ConstantsAssumption DEF Inv, TypeOK
<1>2. PICK b \in Breaks(c, stored) :
        MeetVariables(c, b[1], {x \in b[2] : x \in b[1] \/ IsConstrained(x)})
  BY DEF BreakOff
<1>3. PICK read \in SUBSET Reads(c, stored), met \in SUBSET Reads(c, stored) :
        b = <<read, met>> /\ read \subseteq met
  BY <1>1, BreaksAssumption
<1>. DEFINE known == {x \in met : x \in read \/ IsConstrained(x)}
<1>4. known \in SUBSET Vars /\ read \in SUBSET known
  BY <1>1, <1>3
<1>5. MeetVariables(c, read, known)
  BY <1>2, <1>3
<1>. QED
  BY <1>4, <1>5 DEF Meets

(* What a block that was run anew needs to keep the invariant, besides the *)
(* agenda: only its own primitive may have gone, and a run that raised has *)
(* none.                                                                   *)
LEMMA MetAgain ==
  ASSUME Inv, NEW c \in Cons, NEW met \in SUBSET Vars, NEW read \in SUBSET met,
         MeetVariables(c, read, met), UNCHANGED <<stored, proposal, leaked, model>>,
         DOMAIN env' = Cons, env'[c] \in Envs(c) \cup {NoEnv, Emptied},
         env'[c] = Emptied => raised',
         HasPrimitive(c)' => \A x \in Symbols(c, env'[c]) : SolverOf[c] \in external'[x],
         \A d \in Cons : d # c => env'[d] = env[d],
         DOMAIN asserted' = Cons,
         \A d \in Cons : asserted'[d] \in [Envs(d) -> Nat],
         \A d \in Cons : \A e \in Envs(d) : asserted'[d][e] > 0 => asserted[d][e] > 0,
         \A d \in Cons : d # c => asserted'[d] = asserted[d],
         enabled' \in [Cons -> BOOLEAN], ~enabled'[c],
         \A d \in Cons : d # c => enabled'[d] = enabled[d],
         agenda' \in Seq(Good'), ErrorsStay, focus' \subseteq Vars
  PROVE  Inv'
<1>. USE MeetKeeps
<1>1. agenda' \in Seq(Calls) /\ PendingCalls' /\ EnablingSoon'
  BY GoodAgenda
<1>2. \A d \in Cons : env'[d] \in Envs(d) \cup {NoEnv, Emptied}
  BY DEF Inv, TypeOK
<1>3. TypeOK'
  BY <1>1, <1>2 DEF Inv, TypeOK, Envs, SnapshotOf, Constants, ErrorsStay
<1>4. SlotsKnown' /\ ReadonlyKnown' /\ PinsAgree'
  OBVIOUS
<1>5. RunBlocks'
  BY DEF Inv, RunBlocks, ErrorsStay
<1>6. \A x \in Vars : external[x] \subseteq external'[x]
  OBVIOUS
<1>7. BlocksKnown'
  <2>1. ASSUME NEW d \in Cons, NEW e, SymbolsKnown(d, e), Symbols(d, e) \subseteq Vars
        PROVE  \A x \in Symbols(d, e) : SolverOf[d] \in external'[x]
    BY <1>6, <2>1 DEF SymbolsKnown
  <2>2. ASSUME NEW d \in Cons, HasPrimitive(d)'
        PROVE  \A x \in Symbols(d, env'[d]) : SolverOf[d] \in external'[x]
    <3>1. CASE d = c
      BY <2>2, <3>1
    <3>2. CASE d # c
      <4>1. env[d] = env'[d] /\ env[d] \in Envs(d) /\ HasPrimitive(d)
        BY <1>2, <2>2, <3>2 DEF HasPrimitive
      <4>2. SymbolsKnown(d, env[d]) /\ Symbols(d, env[d]) \subseteq Vars
        BY <4>1, SymbolsTyped DEF Inv, BlocksKnown
      <4>. QED
        BY <2>1, <4>1, <4>2
    <3>. QED
      BY <3>1, <3>2
  <2>3. ASSUME NEW d \in Cons, NEW e \in Envs(d), asserted'[d][e] > 0
        PROVE  \A x \in Symbols(d, e) : SolverOf[d] \in external'[x]
    <3>1. SymbolsKnown(d, e) /\ Symbols(d, e) \subseteq Vars
      BY <2>3, SymbolsTyped DEF Inv, BlocksKnown
    <3>. QED
      BY <2>1, <3>1
  <2>. QED
    BY <2>2, <2>3 DEF BlocksKnown, SymbolsKnown, Symbols, Envs, SnapshotOf, Constants
<1>8. SolversKnow'
  <2>1. leaked \subseteq Vars \X Solvers \X Values
    BY DEF Inv, TypeOK
  <2>2. \A s \in Solvers : DOMAIN model[s] \subseteq Vars
    BY DEF Inv, TypeOK
  <2>. QED
    BY <1>6, <2>1, <2>2 DEF Inv, SolversKnow
<1>9. EnabledIsAsserted'
  <2>. SUFFICES ASSUME NEW d \in Cons, enabled'[d], HasPrimitive(d)', ~IsBoolean(d, env'[d])
                PROVE  asserted'[d][env'[d]] > 0
    BY DEF EnabledIsAsserted, IsBoolean, Symbols
  <2>1. enabled[d] /\ HasPrimitive(d) /\ env'[d] = env[d] /\ asserted'[d] = asserted[d]
    BY DEF HasPrimitive
  <2>. QED
    BY <2>1 DEF Inv, EnabledIsAsserted
<1>. QED
  BY <1>1, <1>3, <1>4, <1>5, <1>7, <1>8, <1>9 DEF Inv

LEMMA RunAgain ==
  ASSUME Inv, NEW c \in Cons, RunPredicate(c), UNCHANGED <<stored, proposal, leaked, model>>,
         DOMAIN asserted' = Cons,
         \A d \in Cons : asserted'[d] \in [Envs(d) -> Nat],
         \A d \in Cons : \A e \in Envs(d) : asserted'[d][e] > 0 => asserted[d][e] > 0,
         \A d \in Cons : d # c => asserted'[d] = asserted[d],
         enabled' \in [Cons -> BOOLEAN], ~enabled'[c],
         \A d \in Cons : d # c => enabled'[d] = enabled[d],
         agenda' \in Seq(Good'), ErrorsStay, focus' \subseteq Vars
  PROVE  Inv'
<1>. DEFINE reads == Reads(c, stored)
<1>1. reads \in SUBSET Vars /\ reads \in SUBSET reads /\ MeetVariables(c, reads, reads)
  BY ConstantsAssumption DEF Inv, TypeOK, RunPredicate
<1>2. /\ DOMAIN env' = Cons /\ env'[c] \in Envs(c) /\ env'[c] # Emptied
      /\ \A d \in Cons : d # c => env'[d] = env[d]
      /\ \A x \in Symbols(c, env'[c]) : SolverOf[c] \in external'[x]
  BY RunKeeps
<1>. HIDE DEF reads
<1>. QED
  BY <1>1, <1>2, MetAgain

LEMMA RecalculateStep == Inv /\ Recalculate => Inv'
<1>. SUFFICES ASSUME Inv, Recalculate PROVE Inv'
  OBVIOUS
<1>. DEFINE c == Arg
<1>1. c \in Cons /\ agenda # <<>> /\ agenda[1].fn = "recalculate"
  BY HeadTyped DEF Inv, Recalculate, Running
<1>2. UNCHANGED <<stored, proposal, leaked, model, raised, focus>>
  BY DEF Recalculate, Continue, Return
<1>3. CASE enabled[c]
  <2>1. /\ Retract(c) /\ RunPredicate(c)
        /\ enabled' = [enabled EXCEPT ![c] = FALSE]
        /\ agenda' = <<Call("enable", c)>> \o Tail(agenda)
    BY <1>3, Zenon DEF Recalculate, Continue
  <2>2. env[c] # NoEnv
    BY <1>1, <1>3 DEF Inv, RunBlocks
  <2>3. /\ DOMAIN asserted' = Cons
        /\ \A d \in Cons : asserted'[d] \in [Envs(d) -> Nat]
        /\ \A d \in Cons : \A e \in Envs(d) : asserted'[d][e] > 0 => asserted[d][e] > 0
        /\ \A d \in Cons : d # c => asserted'[d] = asserted[d]
    BY <1>1, <2>1, <2>2, RetractKeeps DEF Inv
  <2>4. /\ enabled' \in [Cons -> BOOLEAN] /\ ~enabled'[c]
        /\ \A d \in Cons : d # c => enabled'[d] = enabled[d]
    BY <1>1, <2>1 DEF Inv, TypeOK
  <2>5. Grows /\ env'[c] # NoEnv
    BY <1>1, <1>2, <2>1, RunKeeps, Zenon
  <2>6. agenda' \in Seq(Good')
    <3>1. <<Call("enable", c)>> \in Seq(Good')
      BY <1>1, <2>5, GoodCalls, ShortSeqs
    <3>. QED
      BY <1>1, <2>1, <2>5, <3>1, ContinueGood DEF Inv
  <2>7. ErrorsStay /\ focus' \subseteq Vars
    BY <1>2 DEF Inv, TypeOK, ErrorsStay
  <2>. QED
    BY <1>1, <1>2, <2>1, <2>3, <2>4, <2>6, <2>7, RunAgain
<1>4. CASE ~enabled[c]
  <2>1. /\ agenda' = Tail(agenda)
        /\ UNCHANGED <<varState, enabled, env, solverState, raised, focus>>
    BY <1>2, <1>4, Zenon DEF Recalculate, Return, varState, solverState
  <2>2. agenda' \in Seq(Good')
    BY <1>1, <2>1, RestGood DEF Inv, Grows, varState
  <2>. QED
    BY <2>1, <2>2, AgendaOnly DEF Inv, TypeOK, ErrorsStay
<1>. QED
  BY <1>3, <1>4

(* A block that raises leaves its constraint disabled, without primitive.  *)
LEMMA RecalculateRaisesStep == Inv /\ RecalculateRaises => Inv'
<1>. SUFFICES ASSUME Inv, RecalculateRaises PROVE Inv'
  OBVIOUS
<1>1. PICK c \in Cons : c = Arg
  BY HeadTyped DEF Inv, RecalculateRaises, Running
<1>2. /\ enabled[c] /\ Retract(c) /\ BreakOff(c)
      /\ enabled' = [enabled EXCEPT ![c] = FALSE]
      /\ env' = [env EXCEPT ![c] = Emptied]
      /\ agenda' = <<>> /\ raised' = TRUE
      /\ UNCHANGED <<stored, proposal, leaked, model, focus>>
  BY <1>1, Zenon DEF RecalculateRaises, RaiseError
<1>3. env[c] # NoEnv
  BY <1>1, <1>2 DEF Inv, RunBlocks
<1>4. /\ DOMAIN asserted' = Cons
      /\ \A d \in Cons : asserted'[d] \in [Envs(d) -> Nat]
      /\ \A d \in Cons : \A e \in Envs(d) : asserted'[d][e] > 0 => asserted[d][e] > 0
      /\ \A d \in Cons : d # c => asserted'[d] = asserted[d]
  BY <1>1, <1>2, <1>3, RetractKeeps DEF Inv
<1>5. /\ enabled' \in [Cons -> BOOLEAN] /\ ~enabled'[c]
      /\ \A d \in Cons : d # c => enabled'[d] = enabled[d]
  BY <1>1, <1>2 DEF Inv, TypeOK
<1>6. /\ DOMAIN env' = Cons /\ env'[c] = Emptied /\ ~HasPrimitive(c)'
      /\ \A d \in Cons : d # c => env'[d] = env[d]
  <2>1. DOMAIN env = Cons
    BY DEF Inv, TypeOK
  <2>. QED
    BY <1>1, <1>2, <2>1 DEF HasPrimitive
<1>7. agenda' \in Seq(Good') /\ ErrorsStay /\ focus' \subseteq Vars
  BY <1>2, ShortSeqs DEF Inv, TypeOK, ErrorsStay
<1>8. PICK met \in SUBSET Vars : \E read \in SUBSET met : MeetVariables(c, read, met)
  BY <1>1, <1>2, BreakMeets, Zenon DEF Meets
<1>9. PICK read \in SUBSET met : MeetVariables(c, read, met)
  BY <1>8
<1>10. UNCHANGED <<stored, proposal, leaked, model>> /\ (env'[c] = Emptied => raised')
  BY <1>2
<1>. QED
  BY <1>1, <1>4, <1>5, <1>6, <1>7, <1>9, <1>10, MetAgain

-----------------------------------------------------------------------------
(* The operations of the program start with an empty agenda.               *)

LEMMA AlwaysStep == ASSUME NEW c \in Cons PROVE Inv /\ Always(c) => Inv'
<1>. SUFFICES ASSUME Inv, Always(c) PROVE Inv'
  OBVIOUS
<1>1. /\ env[c] = NoEnv /\ RunPredicate(c)
      /\ agenda' = <<Call("enable", c)>> /\ focus' = {}
      /\ UNCHANGED <<stored, enabled, asserted, proposal, leaked, model, raised>>
  BY Zenon DEF Always, IsNew
<1>2. env'[c] # NoEnv
  BY <1>1, RunKeeps
<1>3. agenda' \in Seq(Good')
  BY <1>1, <1>2, GoodCalls, ShortSeqs
<1>4. ~enabled[c]
  BY <1>1 DEF Inv, RunBlocks
<1>5. /\ DOMAIN asserted' = Cons
      /\ \A d \in Cons : asserted'[d] \in [Envs(d) -> Nat]
      /\ enabled' \in [Cons -> BOOLEAN] /\ ErrorsStay /\ focus' \subseteq Vars
  BY <1>1 DEF Inv, TypeOK, ErrorsStay
<1>. QED
  BY <1>1, <1>3, <1>4, <1>5, RunAgain

LEMMA AlwaysRaisesStep == ASSUME NEW c \in Cons PROVE Inv /\ AlwaysRaises(c) => Inv'
<1>. SUFFICES ASSUME Inv, AlwaysRaises(c) PROVE Inv'
  OBVIOUS
<1>1. /\ env[c] = NoEnv /\ BreakOff(c)
      /\ agenda' = <<>> /\ raised' = TRUE /\ focus' = {}
      /\ UNCHANGED <<stored, enabled, env, asserted, proposal, leaked, model>>
  BY Zenon DEF AlwaysRaises, IsNew
<1>2. /\ DOMAIN asserted' = Cons /\ \A d \in Cons : asserted'[d] \in [Envs(d) -> Nat]
      /\ enabled' \in [Cons -> BOOLEAN] /\ ~enabled'[c]
      /\ DOMAIN env' = Cons /\ env'[c] = NoEnv /\ env'[c] # Emptied /\ ~HasPrimitive(c)'
  BY <1>1, ConstantsAssumption DEF Inv, TypeOK, RunBlocks, HasPrimitive
<1>3. agenda' \in Seq(Good') /\ ErrorsStay /\ focus' \subseteq Vars
  BY <1>1, ShortSeqs DEF ErrorsStay
<1>4. PICK met \in SUBSET Vars : \E read \in SUBSET met : MeetVariables(c, read, met)
  BY <1>1, BreakMeets, Zenon DEF Meets
<1>5. PICK read \in SUBSET met : MeetVariables(c, read, met)
  BY <1>4
<1>. QED
  BY <1>1, <1>2, <1>3, <1>5, MetAgain

LEMMA EnableStep == ASSUME NEW c \in Cons PROVE Inv /\ Enable(c) => Inv'
<1>. SUFFICES ASSUME Inv, Enable(c) PROVE Inv'
  OBVIOUS
<1>1. /\ env[c] # NoEnv
      /\ agenda' = <<Call("enable", c)>> /\ focus' = {}
      /\ UNCHANGED <<varState, enabled, env, solverState, raised>>
  BY Zenon DEF Enable
<1>2. agenda' \in Seq(Good')
  BY <1>1, GoodCalls, ShortSeqs
<1>3. ErrorsStay /\ focus' \subseteq Vars
  BY <1>1 DEF Inv, TypeOK, ErrorsStay
<1>. QED
  BY <1>1, <1>2, <1>3, AgendaOnly

(* Disabling a constraint, whatever is called next.                        *)
LEMMA DisableKeeps ==
  ASSUME Inv, NEW c \in Cons, enabled[c], Retract(c),
         enabled' = [enabled EXCEPT ![c] = FALSE], focus' = {},
         UNCHANGED <<varState, env, proposal, leaked, pin, model, w_value, raised>>,
         agenda' \in Seq(Good')
  PROVE  Inv'
<1>. USE DEF varState
<1>1. env[c] # NoEnv
  BY DEF Inv, RunBlocks
<1>2. /\ DOMAIN asserted' = Cons
      /\ \A d \in Cons : asserted'[d] \in [Envs(d) -> Nat]
      /\ \A d \in Cons : \A e \in Envs(d) : asserted'[d][e] > 0 => asserted[d][e] > 0
      /\ \A d \in Cons : d # c => asserted'[d] = asserted[d]
  BY <1>1, RetractKeeps DEF Inv
<1>3. agenda' \in Seq(Calls) /\ PendingCalls' /\ EnablingSoon'
  BY GoodAgenda
<1>4. /\ enabled' \in [Cons -> BOOLEAN] /\ ~enabled'[c]
      /\ \A d \in Cons : d # c => enabled'[d] = enabled[d]
  BY DEF Inv, TypeOK
<1>5. TypeOK'
  BY <1>2, <1>3, <1>4 DEF Inv, TypeOK, Envs, SnapshotOf, Constants
<1>6. SlotsKnown' /\ RunBlocks' /\ ReadonlyKnown' /\ SolversKnow' /\ PinsAgree'
  BY <1>4 DEF Inv, SlotsKnown, RunBlocks, ReadonlyKnown, SolversKnow, PinsAgree
<1>7. BlocksKnown'
  BY <1>2 DEF Inv, BlocksKnown, SymbolsKnown, Symbols, Envs, SnapshotOf, Constants, HasPrimitive
<1>8. EnabledIsAsserted'
  BY <1>2, <1>4 DEF Inv, EnabledIsAsserted, IsBoolean, Symbols, HasPrimitive
<1>. QED
  BY <1>3, <1>5, <1>6, <1>7, <1>8 DEF Inv

LEMMA DisableStep == ASSUME NEW c \in Cons PROVE Inv /\ Disable(c) => Inv'
<1>. SUFFICES ASSUME Inv, Disable(c) PROVE Inv'
  OBVIOUS
<1>1. /\ enabled[c] /\ Retract(c) /\ agenda = <<>>
      /\ enabled' = [enabled EXCEPT ![c] = FALSE] /\ focus' = {}
      /\ UNCHANGED <<varState, env, proposal, leaked, pin, model, w_value, agenda, raised>>
  BY Zenon DEF Disable, Ready, Idle
<1>2. agenda' \in Seq(Good')
  BY <1>1, ShortSeqs
<1>. QED
  BY <1>1, <1>2, DisableKeeps

LEMMA SetStrengthStep == ASSUME NEW c \in Cons PROVE Inv /\ SetStrength(c) => Inv'
<1>. SUFFICES ASSUME Inv, SetStrength(c) PROVE Inv'
  OBVIOUS
<1>1. /\ enabled[c] /\ Retract(c)
      /\ enabled' = [enabled EXCEPT ![c] = FALSE]
      /\ agenda' = <<Call("enable", c)>> /\ focus' = {}
      /\ UNCHANGED <<varState, env, proposal, leaked, pin, model, w_value, raised>>
  BY Zenon DEF SetStrength
<1>2. env'[c] # NoEnv
  BY <1>1 DEF Inv, RunBlocks
<1>3. agenda' \in Seq(Good')
  BY <1>1, <1>2, GoodCalls, ShortSeqs
<1>. QED
  BY <1>1, <1>3, DisableKeeps

LEMMA ReadStep == ASSUME NEW x \in Vars PROVE Inv /\ Read(x) => Inv'
<1>. SUFFICES ASSUME Inv, Read(x) PROVE Inv'
  OBVIOUS
<1>1. /\ IsSolveable(x) /\ agenda' = <<Call("get_i", x)>> /\ focus' = {x}
      /\ UNCHANGED <<varState, enabled, env, solverState, raised>>
  BY Zenon DEF Read
<1>2. agenda' \in Seq(Good')
  BY <1>1, GoodCalls, ShortSeqs DEF IsSolveable, varState
<1>3. ErrorsStay /\ focus' \subseteq Vars
  BY <1>1 DEF Inv, TypeOK, ErrorsStay
<1>. QED
  BY <1>1, <1>2, <1>3, AgendaOnly

LEMMA MayBeCalled ==
  ASSUME NEW x \in Vars, NEW call \in Good'
  PROVE  IfConstrained(x, call) \in Seq(Good')
  BY ShortSeqs DEF IfConstrained

LEMMA AssignStep ==
  ASSUME NEW x \in Vars, NEW v \in Values PROVE Inv /\ Assign(x, v) => Inv'
<1>. SUFFICES ASSUME Inv, Assign(x, v) PROVE Inv'
  OBVIOUS
<1>. DEFINE begin == <<Call("__begin_assign__", <<x, v>>)>>
            assign == IfConstrained(x, Call("__assign__", x))
            end == IfConstrained(x, Call("__end_assign__", <<x, 1>>))
<1>1. /\ agenda' = begin \o assign \o end /\ focus' = {x}
      /\ UNCHANGED <<varState, enabled, env, solverState, raised>>
  BY Zenon DEF Assign
<1>2. begin \in Seq(Good') /\ assign \in Seq(Good') /\ end \in Seq(Good')
  BY GoodCalls, ShortSeqs, MayBeCalled
<1>. HIDE DEF begin, assign, end
<1>3. agenda' \in Seq(Good')
  BY <1>1, <1>2
<1>4. ErrorsStay /\ focus' \subseteq Vars
  BY <1>1 DEF Inv, TypeOK, ErrorsStay
<1>. QED
  BY <1>1, <1>3, <1>4, AgendaOnly

LEMMA MultiAssignStep ==
  ASSUME NEW x \in Vars, NEW y \in Vars, NEW v \in Values, NEW w \in Values
  PROVE  Inv /\ MultiAssign(x, v, y, w) => Inv'
<1>. SUFFICES ASSUME Inv, MultiAssign(x, v, y, w) PROVE Inv'
  OBVIOUS
<1>. DEFINE begin == <<Call("__begin_assign__", <<x, v>>), Call("__begin_assign__", <<y, w>>)>>
            assignX == IfConstrained(x, Call("__assign__", x))
            assignY == IfConstrained(y, Call("__assign__", y))
            endX == IfConstrained(x, Call("__end_assign__", <<x, 1>>))
            endY == IfConstrained(y, Call("__end_assign__", <<y, 1>>))
<1>1. /\ agenda' = begin \o assignX \o assignY \o endX \o endY /\ focus' = {x, y}
      /\ UNCHANGED <<varState, enabled, env, solverState, raised>>
  BY Zenon DEF MultiAssign
<1>2. /\ begin \in Seq(Good')
      /\ assignX \in Seq(Good') /\ assignY \in Seq(Good')
      /\ endX \in Seq(Good') /\ endY \in Seq(Good')
  BY GoodCalls, ShortSeqs, MayBeCalled
<1>. HIDE DEF begin, assignX, assignY, endX, endY
<1>3. agenda' \in Seq(Good')
  BY <1>1, <1>2
<1>4. ErrorsStay /\ focus' \subseteq Vars
  BY <1>1 DEF Inv, TypeOK, ErrorsStay
<1>. QED
  BY <1>1, <1>3, <1>4, AgendaOnly

-----------------------------------------------------------------------------
(* Before any block was run no solver knows anything.                      *)
LEMMA InitInv == Init => Inv
<1>. SUFFICES ASSUME Init PROVE Inv
  OBVIOUS
<1>. USE DEF Init
<1>1. \A s \in Solvers : DOMAIN model[s] = {} /\ model[s] \in [{} -> Values]
  BY DEF NoModel
<1>2. agenda \in Seq(Calls) /\ PendingCalls /\ EnablingSoon
  BY ShortSeqs DEF PendingCalls, EnablingSoon
<1>3. constraints_w \in [Vars -> [Solvers -> Seq(Cons)]]
  BY ShortSeqs
<1>4. solvers_w \in [Vars -> Seq(Solvers \cup {NoSolver})]
  BY ShortSeqs
<1>5. TypeOK
  BY <1>1, <1>2, <1>3, <1>4 DEF TypeOK
<1>6. SlotsKnown /\ RunBlocks /\ ReadonlyKnown /\ BlocksKnown /\ PinsAgree /\ EnabledIsAsserted
  BY ConstantsAssumption DEF SlotsKnown, RunBlocks, ReadonlyKnown, BlocksKnown, PinsAgree,
     EnabledIsAsserted, HasPrimitive
<1>7. SolversKnow
  BY <1>1 DEF SolversKnow
<1>. QED
  BY <1>2, <1>5, <1>6, <1>7 DEF Inv

(* Every call and every operation preserves the invariant.                 *)
LEMMA NextInv == Inv /\ [Next]_vars => Inv'
<1>. SUFFICES ASSUME Inv, [Next]_vars PROVE Inv'
  OBVIOUS
<1>1. CASE Step
  <2>1. \/ BeginAssignVariable \/ AssignVariable \/ AssignOthers
        \/ GetI \/ UpdateDownstreamVariables
        \/ EndAssignVariable \/ MakeNotAssignable \/ RecalculatePath
        \/ BeginAssign \/ Solve \/ EndAssign
        \/ Recalculate \/ RecalculateRaises \/ EnableConstraint \/ SetEnabled
    BY <1>1, Zenon DEF Step
  <2>. QED
    BY <2>1, RecalculateRaisesStep, BeginAssignVariableStep, AssignVariableStep, AssignOthersStep, GetIStep,
       UpdateDownstreamVariablesStep, EndAssignVariableStep, MakeNotAssignableStep,
       RecalculatePathStep, BeginAssignStep, SolveStep, EndAssignStep,
       RecalculateStep, EnableConstraintStep, SetEnabledStep
<1>2. CASE \E c \in Cons : \/ Always(c) \/ AlwaysRaises(c)
                          \/ Enable(c) \/ Disable(c) \/ SetStrength(c)
  BY <1>2, AlwaysStep, AlwaysRaisesStep, EnableStep, DisableStep, SetStrengthStep
<1>3. CASE \E x \in Vars : Read(x)
  BY <1>3, ReadStep
<1>4. CASE \E x \in Vars, v \in Values : Assign(x, v)
  BY <1>4, AssignStep
<1>5. CASE \E x, y \in Vars, v, w \in Values : MultiAssign(x, v, y, w)
  BY <1>5, MultiAssignStep
<1>6. CASE UNCHANGED vars
  <2>1. /\ UNCHANGED <<varState, enabled, env, solverState, raised, focus>>
        /\ agenda' = agenda
    BY <1>6 DEF vars
  <2>. USE <2>1 DEF varState, solverState
  <2>2. TypeOK' /\ SlotsKnown' /\ RunBlocks' /\ ReadonlyKnown'
    BY DEF Inv, TypeOK, SlotsKnown, RunBlocks, ReadonlyKnown, Calls, Envs, SnapshotOf, Constants
  <2>3. PendingCalls' /\ EnablingSoon'
    BY DEF Inv, PendingCalls, EnablingSoon, PendingOK, IsSolveable, IsBoolean, Symbols, Calls,
           HasPrimitive
  <2>4. BlocksKnown' /\ SolversKnow' /\ PinsAgree' /\ EnabledIsAsserted'
    BY DEF Inv, BlocksKnown, SymbolsKnown, SolversKnow, PinsAgree, EnabledIsAsserted,
           IsBoolean, Symbols, Envs, SnapshotOf, Constants, HasPrimitive
  <2>. QED
    BY <2>2, <2>3, <2>4 DEF Inv
<1>. QED
  BY <1>1, <1>2, <1>3, <1>4, <1>5, <1>6 DEF Next, UserStep

(* For any program, any number of variables and solvers, and whatever      *)
(* raised before: the variables, the blocks and what the solvers were told *)
(* agree throughout every chain of calls.                                  *)
THEOREM InvHolds == Spec => []Inv
  BY InitInv, NextInv, PTL DEF Spec

(* The variables keep their shapes (constraintinterpreter.py:118-143).     *)
THEOREM TypeCorrect == Spec => []TypeOK
<1>1. Inv => TypeOK
  BY DEF Inv
<1>. QED
  BY <1>1, InvHolds, PTL

(* A pinned variable never moves in its solver (libz3.rb:25-37,            *)
(* constraintinterpreter.py:262-272), also amid a chain of calls and after *)
(* a check failed.                                                         *)
THEOREM PinsHold == Spec => []PinHolds
  BY InvHolds, PinnedValue, PTL

(* A constraint that counts as enabled is in its solver, also after errors *)
(* the program rescued (constraintobject.py:117-180).                      *)
THEOREM EnabledAsserted == Spec => []EnabledIsAsserted
<1>1. Inv => EnabledIsAsserted
  BY DEF Inv
<1>. QED
  BY <1>1, InvHolds, PTL

-----------------------------------------------------------------------------
(* The calls of a sequence.                                                *)
CallsIn(q) == {q[i] : i \in DOMAIN q}
Pending == CallsIn(agenda)
Behind  == {agenda[i] : i \in DOMAIN agenda \ {1}}

LEMMA TailCalls ==
  ASSUME NEW C, NEW q \in Seq(C), q # <<>>
  PROVE  /\ Tail(q) \in Seq(C) /\ q[1] \in C /\ 1 \in DOMAIN q
         /\ CallsIn(Tail(q)) = {q[i] : i \in DOMAIN q \ {1}}
         /\ CallsIn(q) = {q[1]} \cup {q[i] : i \in DOMAIN q \ {1}}
<1>1. /\ Tail(q) \in Seq(C) /\ q[1] \in C /\ 1 \in DOMAIN q
      /\ Len(q) \in Nat \ {0} /\ DOMAIN q = 1..Len(q)
      /\ DOMAIN Tail(q) = 1..(Len(q) - 1)
      /\ \A i \in 1..(Len(q) - 1) : Tail(q)[i] = q[i + 1]
  OBVIOUS
<1>2. CallsIn(Tail(q)) = {q[i] : i \in DOMAIN q \ {1}}
  <2>1. ASSUME NEW i \in DOMAIN q \ {1}
        PROVE  q[i] \in CallsIn(Tail(q))
    <3>1. i - 1 \in DOMAIN Tail(q) /\ Tail(q)[i - 1] = q[i]
      BY <1>1
    <3>. QED
      BY <3>1 DEF CallsIn
  <2>2. ASSUME NEW i \in DOMAIN Tail(q)
        PROVE  Tail(q)[i] \in {q[j] : j \in DOMAIN q \ {1}}
    <3>1. i + 1 \in DOMAIN q \ {1} /\ Tail(q)[i] = q[i + 1]
      BY <1>1
    <3>. QED
      BY <3>1
  <2>. QED
    BY <2>1, <2>2 DEF CallsIn
<1>. QED
  BY <1>1, <1>2 DEF CallsIn

LEMMA JoinedCalls ==
  ASSUME NEW C, NEW p \in Seq(C), NEW q \in Seq(C)
  PROVE  p \o q \in Seq(C) /\ CallsIn(p \o q) = CallsIn(p) \cup CallsIn(q)
<1>1. /\ p \o q \in Seq(C) /\ Len(p) \in Nat /\ Len(q) \in Nat
      /\ DOMAIN p = 1..Len(p) /\ DOMAIN q = 1..Len(q)
      /\ DOMAIN (p \o q) = 1..(Len(p) + Len(q))
      /\ \A i \in 1..(Len(p) + Len(q)) :
           (p \o q)[i] = IF i <= Len(p) THEN p[i] ELSE q[i - Len(p)]
  OBVIOUS
<1>2. ASSUME NEW i \in DOMAIN (p \o q)
      PROVE  (p \o q)[i] \in CallsIn(p) \cup CallsIn(q)
  <2>1. CASE i <= Len(p)
    BY <1>1, <2>1 DEF CallsIn
  <2>2. CASE i > Len(p)
    <3>1. i - Len(p) \in DOMAIN q /\ (p \o q)[i] = q[i - Len(p)]
      BY <1>1, <2>2
    <3>. QED  BY <3>1 DEF CallsIn
  <2>. QED
    BY <1>1, <2>1, <2>2
<1>3. ASSUME NEW i \in DOMAIN p
      PROVE  p[i] \in CallsIn(p \o q)
  <2>1. i \in DOMAIN (p \o q) /\ (p \o q)[i] = p[i]
    BY <1>1
  <2>. QED  BY <2>1 DEF CallsIn
<1>4. ASSUME NEW i \in DOMAIN q
      PROVE  q[i] \in CallsIn(p \o q)
  <2>1. i + Len(p) \in DOMAIN (p \o q) /\ (p \o q)[i + Len(p)] = q[i]
    BY <1>1
  <2>. QED  BY <2>1 DEF CallsIn
<1>. QED
  BY <1>1, <1>2, <1>3, <1>4 DEF CallsIn

LEMMA ShortCalls ==
  /\ CallsIn(<<>>) = {}
  /\ \A a : CallsIn(<<a>>) = {a}
  /\ \A a, b : CallsIn(<<a, b>>) = {a, b}
  /\ \A a, b, d : CallsIn(<<a, b, d>>) = {a, b, d}
  /\ \A a, b, d, e : CallsIn(<<a, b, d, e>>) = {a, b, d, e}
<1>1. CallsIn(<<>>) = {}
  BY DEF CallsIn
<1>2. \A a : CallsIn(<<a>>) = {a}
  BY DEF CallsIn
<1>3. \A a, b : CallsIn(<<a, b>>) = {a, b}
  BY DEF CallsIn
<1>4. \A a, b, d : CallsIn(<<a, b, d>>) = {a, b, d}
  BY DEF CallsIn
<1>5. \A a, b, d, e : CallsIn(<<a, b, d, e>>) = {a, b, d, e}
  BY DEF CallsIn
<1>. QED
  BY <1>1, <1>2, <1>3, <1>4, <1>5

(* The running call and those behind it; and what a call that goes on with *)
(* others leaves.                                                          *)
LEMMA PendingNow ==
  ASSUME Inv, agenda # <<>>
  PROVE  /\ Pending = {agenda[1]} \cup Behind
         /\ Behind = CallsIn(Tail(agenda))
         /\ Pending \subseteq Calls /\ \A call \in Pending : PendingOK(call)
         /\ agenda[1] \in Calls /\ Tail(agenda) \in Seq(Calls) /\ 1 \in DOMAIN agenda
<1>1. agenda \in Seq(Calls)
  BY DEF Inv, TypeOK
<1>2. \A i \in DOMAIN agenda : agenda[i] \in Calls /\ PendingOK(agenda[i])
  BY DEF Inv, PendingCalls
<1>3. \A call \in Pending : call \in Calls /\ PendingOK(call)
  BY <1>2 DEF Pending, CallsIn
<1>. QED
  BY <1>1, <1>3, TailCalls DEF Pending, Behind

LEMMA PendingThen ==
  ASSUME Inv, agenda # <<>>, NEW new \in Seq(Calls), agenda' = new \o Tail(agenda)
  PROVE  Pending' = CallsIn(new) \cup Behind
<1>1. Tail(agenda) \in Seq(Calls) /\ Behind = CallsIn(Tail(agenda))
  BY PendingNow
<1>2. CallsIn(agenda') = CallsIn(new) \cup CallsIn(Tail(agenda))
  BY <1>1, JoinedCalls
<1>. QED
  BY <1>1, <1>2 DEF Pending, CallsIn

LEMMA PendingRest ==
  ASSUME Inv, agenda # <<>>, agenda' = Tail(agenda)
  PROVE  Pending' = Behind
  BY PendingNow DEF Pending, CallsIn

LEMMA BehindPending == Inv => Behind \subseteq Pending
  BY DEF Behind, Pending, CallsIn

-----------------------------------------------------------------------------
(* What the calls do, loops included: the slot a loop goes on with is the  *)
(* first one left.                                                         *)

LEMMA HeadIs ==
  ASSUME Inv, agenda # <<>>
  PROVE  agenda[1] = Call(agenda[1].fn, Arg)
<1>1. agenda[1] \in Calls
  BY PendingNow
<1>. QED
  BY <1>1 DEF Calls, Call, Arg

(* The slot a loop over a variable's solvers visits next, if one is left.  *)
Visits(x, i, S, j) ==
  /\ j \in DOMAIN solvers_w[x] /\ j \in Nat
  /\ i <= j /\ solvers_w[x][j] \in S /\ solvers_w[x][j] \in Solvers
  /\ \A k \in DOMAIN solvers_w[x] : i <= k /\ solvers_w[x][k] \in S => j <= k
NoneLeft(x, i, S) ==
  \A k \in DOMAIN solvers_w[x] : i <= k => solvers_w[x][k] \notin S

LEMMA FirstSlot ==
  ASSUME Inv, NEW x \in Vars, NEW i \in Nat, NEW S \in SUBSET external[x]
  PROVE  LET I == {j \in DOMAIN solvers_w[x] : i <= j /\ solvers_w[x][j] \in S}
         IN  /\ I = {} => NoneLeft(x, i, S)
             /\ I # {} => Visits(x, i, S, Least(I)) /\ Least(I) \in Nat
<1>. DEFINE I == {j \in DOMAIN solvers_w[x] : i <= j /\ solvers_w[x][j] \in S}
<1>1. solvers_w[x] \in Seq(Solvers \cup {NoSolver}) /\ S \subseteq Solvers
  BY DEF Inv, TypeOK
<1>2. I \in SUBSET Nat
  BY <1>1
<1>3. I # {} => Least(I) \in I /\ \A j \in I : Least(I) <= j
  <2>. HIDE DEF I
  <2>. QED  BY <1>2, LeastExists
<1>4. I # {} => Visits(x, i, S, Least(I)) /\ Least(I) \in Nat
  <2>. SUFFICES ASSUME I # {} PROVE Visits(x, i, S, Least(I)) /\ Least(I) \in Nat
    OBVIOUS
  <2>. DEFINE l == Least(I)
  <2>1. l \in I /\ \A j \in I : l <= j
    BY <1>3
  <2>2. Visits(x, i, S, l) /\ l \in Nat
    <3>. HIDE DEF l
    <3>. QED
      BY <1>1, <1>2, <2>1 DEF Visits
  <2>. QED
    BY <2>2
<1>5. I = {} => NoneLeft(x, i, S)
  BY DEF NoneLeft
<1>. QED
  BY <1>4, <1>5, Zenon

LEMMA JoinedTyped ==
  ASSUME NEW C, NEW a \in C, NEW b \in C, NEW c \in C
  PROVE  /\ <<a>> \o <<b>> = <<a, b>>
         /\ <<a, b>> \o <<c>> = <<a, b, c>>
<1>1. <<a>> \o <<b>> = <<a, b>>
  <2>. DEFINE p == <<a>> \o <<b>>
              q == <<a, b>>
  <2>1. p \in Seq(C) /\ q \in Seq(C) /\ Len(p) = Len(q) /\ Len(p) = 2
    OBVIOUS
  <2>2. p[1] = q[1] /\ p[2] = q[2]
    OBVIOUS
  <2>. HIDE DEF p, q
  <2>3. \A i \in 1..Len(p) : p[i] = q[i]
    BY <2>1, <2>2
  <2>4. p = q
    BY <2>1, <2>3, SeqEqual
  <2>. QED
    BY <2>4 DEF p, q
<1>2. <<a, b>> \o <<c>> = <<a, b, c>>
  <2>. DEFINE p == <<a, b>> \o <<c>>
              q == <<a, b, c>>
  <2>1. p \in Seq(C) /\ q \in Seq(C) /\ Len(p) = Len(q) /\ Len(p) = 3
    OBVIOUS
  <2>2. p[1] = q[1] /\ p[2] = q[2] /\ p[3] = q[3]
    OBVIOUS
  <2>. HIDE DEF p, q
  <2>3. \A i \in 1..Len(p) : p[i] = q[i]
    BY <2>1, <2>2
  <2>4. p = q
    BY <2>1, <2>3, SeqEqual
  <2>. QED
    BY <2>4 DEF p, q
<1>. QED
  BY <1>1, <1>2

LEMMA JoinedShort ==
  /\ \A a, b : <<a>> \o <<b>> = <<a, b>>
  /\ \A a, b, c : <<a, b>> \o <<c>> = <<a, b, c>>
<1>1. ASSUME NEW a, NEW b, NEW c
      PROVE  <<a>> \o <<b>> = <<a, b>> /\ <<a, b>> \o <<c>> = <<a, b, c>>
  <2>. DEFINE C == {a, b, c}
  <2>1. a \in C /\ b \in C /\ c \in C
    OBVIOUS
  <2>. HIDE DEF C
  <2>. QED
    BY <2>1, JoinedTyped
<1>. QED
  BY <1>1

LEMMA NothingMore ==
  ASSUME Inv, agenda # <<>>
  PROVE  <<>> \o Tail(agenda) = Tail(agenda)
  BY PendingNow, ConcatEmptySeq

LEMMA AssignOthersDoes ==
  ASSUME Inv, AssignOthers
  PROVE  \E x \in Vars, i \in Nat :
           /\ agenda # <<>> /\ agenda[1] = Call("assign others", <<x, i>>)
           /\ UNCHANGED <<varState, enabled, env, solverState, raised, focus>>
           /\ \/ NoneLeft(x, i, Others(x)) /\ agenda' = Tail(agenda)
              \/ \E j \in Nat :
                   /\ Visits(x, i, Others(x), j)
                   /\ agenda' = <<Call("begin_assign", <<x, solvers_w[x][j]>>),
                                  Call("solve", solvers_w[x][j]),
                                  Call("assign others", <<x, j + 1>>)>> \o Tail(agenda)
<1>. DEFINE x == Arg[1]
            i == Arg[2]
            I == {j \in DOMAIN solvers_w[x] : i <= j /\ solvers_w[x][j] \in Others(x)}
            s == solvers_w[x][Least(I)]
            new == IF I = {} THEN <<>>
                   ELSE <<Call("begin_assign", <<x, s>>), Call("solve", s)>>
                          \o <<Call("assign others", <<x, Least(I) + 1>>)>>
<1>1. /\ x \in Vars /\ i \in Nat /\ Arg = <<x, i>> /\ agenda # <<>>
      /\ agenda[1].fn = "assign others"
  <2>1. agenda # <<>> /\ agenda[1].fn = "assign others"
    BY DEF AssignOthers, Running
  <2>2. Arg \in Vars \X Nat
    BY <2>1, HeadTyped, Zenon DEF Inv
  <2>3. Arg = <<Arg[1], Arg[2]>> /\ Arg[1] \in Vars /\ Arg[2] \in Nat
    BY <2>2
  <2>. QED
    BY <2>1, <2>3
<1>2. agenda[1] = Call("assign others", <<x, i>>)
  BY <1>1, HeadIs, Zenon
<1>3. /\ agenda' = new \o Tail(agenda)
      /\ UNCHANGED <<varState, enabled, env, solverState, raised, focus>>
  BY Zenon DEF AssignOthers, ForEachSolver, Continue
<1>4. Others(x) \in SUBSET external[x] /\ Others(x) \in SUBSET Solvers
  BY <1>1 DEF Others, Inv, TypeOK
<1>5. /\ I = {} => NoneLeft(x, i, Others(x))
      /\ I # {} => Visits(x, i, Others(x), Least(I)) /\ Least(I) \in Nat
  BY <1>1, <1>4, FirstSlot, Zenon
<1>6. I # {} => new = <<Call("begin_assign", <<x, s>>), Call("solve", s),
                        Call("assign others", <<x, Least(I) + 1>>)>>
  BY JoinedShort, Zenon
<1>7. I = {} => agenda' = Tail(agenda)
  BY <1>1, <1>3, NothingMore
<1>. HIDE DEF I, x, i
<1>. QED
  BY <1>1, <1>2, <1>3, <1>5, <1>6, <1>7

LEMMA UpdateDownstreamVariablesDoes ==
  ASSUME Inv, UpdateDownstreamVariables
  PROVE  \E x \in Vars, i \in Nat :
           /\ agenda # <<>> /\ agenda[1] = Call("update_downstream_variables", <<x, i>>)
           /\ UNCHANGED <<varState, enabled, env, solverState, raised, focus>>
           /\ \/ /\ NoneLeft(x, i, Others(x))
                 /\ agenda' = <<Call("make_not_assignable", x)>> \o Tail(agenda)
              \/ \E j \in Nat :
                   /\ Visits(x, i, Others(x), j)
                   /\ agenda' = (Offer(x, solvers_w[x][j]) \o <<Call("update_downstream_variables", <<x, j + 1>>)>>) \o Tail(agenda)
<1>. DEFINE x == Arg[1]
            i == Arg[2]
            I == {j \in DOMAIN solvers_w[x] : i <= j /\ solvers_w[x][j] \in Others(x)}
            s == solvers_w[x][Least(I)]
            new == IF I = {} THEN Afterwards(x)
                   ELSE Offer(x, s) \o <<Call("update_downstream_variables", <<x, Least(I) + 1>>)>>
<1>1. /\ x \in Vars /\ i \in Nat /\ Arg = <<x, i>> /\ agenda # <<>>
      /\ agenda[1].fn = "update_downstream_variables"
  <2>1. agenda # <<>> /\ agenda[1].fn = "update_downstream_variables"
    BY DEF UpdateDownstreamVariables, Running
  <2>2. Arg \in Vars \X Nat
    BY <2>1, HeadTyped, Zenon DEF Inv
  <2>3. Arg = <<Arg[1], Arg[2]>> /\ Arg[1] \in Vars /\ Arg[2] \in Nat
    BY <2>2
  <2>. QED
    BY <2>1, <2>3
<1>2. agenda[1] = Call("update_downstream_variables", <<x, i>>)
  BY <1>1, HeadIs, Zenon
<1>3. /\ agenda' = new \o Tail(agenda)
      /\ UNCHANGED <<varState, enabled, env, solverState, raised, focus>>
  BY Zenon DEF UpdateDownstreamVariables, ForEachSolver, Continue
<1>4. Others(x) \in SUBSET external[x] /\ Others(x) \in SUBSET Solvers
  BY <1>1 DEF Others, Inv, TypeOK
<1>5. /\ I = {} => NoneLeft(x, i, Others(x))
      /\ I # {} => Visits(x, i, Others(x), Least(I)) /\ Least(I) \in Nat
  BY <1>1, <1>4, FirstSlot, Zenon
<1>6. I # {} => new = (Offer(x, s) \o <<Call("update_downstream_variables", <<x, Least(I) + 1>>)>>)
  BY JoinedShort, Zenon DEF Offer
<1>7. I = {} => new = <<Call("make_not_assignable", x)>>
  BY DEF Afterwards
<1>. HIDE DEF I, x, i
<1>. QED
  BY <1>1, <1>2, <1>3, <1>5, <1>6, <1>7

LEMMA EndAssignVariableDoes ==
  ASSUME Inv, EndAssignVariable
  PROVE  \E x \in Vars, i \in Nat :
           /\ agenda # <<>> /\ agenda[1] = Call("__end_assign__", <<x, i>>)
           /\ UNCHANGED <<varState, enabled, env, solverState, raised, focus>>
           /\ \/ /\ NoneLeft(x, i, external[x])
                 /\ agenda' = <<Call("make_not_assignable", x)>> \o Tail(agenda)
              \/ \E j \in Nat :
                   /\ Visits(x, i, external[x], j)
                   /\ agenda' = <<Call("end_assign", <<x, solvers_w[x][j]>>), Call("__end_assign__", <<x, j + 1>>)>> \o Tail(agenda)
<1>. DEFINE x == Arg[1]
            i == Arg[2]
            I == {j \in DOMAIN solvers_w[x] : i <= j /\ solvers_w[x][j] \in external[x]}
            s == solvers_w[x][Least(I)]
            new == IF I = {} THEN Afterwards(x)
                   ELSE <<Call("end_assign", <<x, s>>)>> \o <<Call("__end_assign__", <<x, Least(I) + 1>>)>>
<1>1. /\ x \in Vars /\ i \in Nat /\ Arg = <<x, i>> /\ agenda # <<>>
      /\ agenda[1].fn = "__end_assign__"
  <2>1. agenda # <<>> /\ agenda[1].fn = "__end_assign__"
    BY DEF EndAssignVariable, Running
  <2>2. Arg \in Vars \X Nat
    BY <2>1, HeadTyped, Zenon DEF Inv
  <2>3. Arg = <<Arg[1], Arg[2]>> /\ Arg[1] \in Vars /\ Arg[2] \in Nat
    BY <2>2
  <2>. QED
    BY <2>1, <2>3
<1>2. agenda[1] = Call("__end_assign__", <<x, i>>)
  BY <1>1, HeadIs, Zenon
<1>3. /\ agenda' = new \o Tail(agenda)
      /\ UNCHANGED <<varState, enabled, env, solverState, raised, focus>>
  BY Zenon DEF EndAssignVariable, ForEachSolver, Continue
<1>4. external[x] \in SUBSET external[x] /\ external[x] \in SUBSET Solvers
  BY <1>1 DEF Others, Inv, TypeOK
<1>5. /\ I = {} => NoneLeft(x, i, external[x])
      /\ I # {} => Visits(x, i, external[x], Least(I)) /\ Least(I) \in Nat
  BY <1>1, <1>4, FirstSlot, Zenon
<1>6. I # {} => new = <<Call("end_assign", <<x, s>>), Call("__end_assign__", <<x, Least(I) + 1>>)>>
  BY JoinedShort, Zenon DEF Offer
<1>7. I = {} => new = <<Call("make_not_assignable", x)>>
  BY DEF Afterwards
<1>. HIDE DEF I, x, i
<1>. QED
  BY <1>1, <1>2, <1>3, <1>5, <1>6, <1>7

(* The block recalculate_path goes on with: the first one left, by place.  *)
Due(x, i, j, p) ==
  /\ p \in PathBlocks(x) /\ p[1] \in Nat /\ p[2] \in Nat /\ p = <<p[1], p[2]>>
  /\ p[1] \in PathSlots(x) /\ p[2] \in DOMAIN constraints_w[x][solvers_w[x][p[1]]]
  /\ NotBefore(p, <<i, j>>)
  /\ \A q \in PathBlocks(x) : NotBefore(q, <<i, j>>) => NotBefore(q, p)
BlockAt(x, p) == constraints_w[x][solvers_w[x][p[1]]][p[2]]

LEMMA PathPlaces ==
  ASSUME Inv, NEW x \in Vars, NEW p \in PathBlocks(x)
  PROVE  /\ p = <<p[1], p[2]>> /\ p[1] \in Nat /\ p[2] \in Nat
         /\ p[1] \in PathSlots(x) /\ p[1] \in DOMAIN solvers_w[x]
         /\ solvers_w[x][p[1]] \in Solvers \ external[x]
         /\ p[2] \in DOMAIN constraints_w[x][solvers_w[x][p[1]]]
         /\ BlockAt(x, p) \in Cons
<1>1. /\ solvers_w[x] \in Seq(Solvers \cup {NoSolver})
      /\ constraints_w[x] \in [Solvers -> Seq(Cons)]
  BY DEF Inv, TypeOK
<1>2. /\ p = <<p[1], p[2]>> /\ p[1] \in PathSlots(x)
      /\ p[2] \in DOMAIN constraints_w[x][solvers_w[x][p[1]]]
  BY DEF PathBlocks
<1>3. /\ p[1] \in DOMAIN solvers_w[x] /\ p[1] \in Nat
      /\ solvers_w[x][p[1]] \in Solvers \ external[x]
  BY <1>1, <1>2 DEF PathSlots
<1>. QED
  BY <1>1, <1>2, <1>3 DEF BlockAt

LEMMA RecalculatePathDoes ==
  ASSUME Inv, RecalculatePath
  PROVE  \E x \in Vars, i, j \in Nat :
           /\ agenda # <<>> /\ agenda[1] = Call("recalculate_path", <<x, i, j>>)
           /\ UNCHANGED <<varState, enabled, env, solverState, raised, focus>>
           /\ \/ /\ \A p \in PathBlocks(x) : ~NotBefore(p, <<i, j>>)
                 /\ agenda' = Tail(agenda)
              \/ \E p \in Nat \X Nat :
                   /\ Due(x, i, j, p) /\ BlockAt(x, p) \in Cons
                   /\ agenda' = <<Call("recalculate", BlockAt(x, p)),
                                  Call("recalculate_path", <<x, p[1], p[2] + 1>>)>> \o Tail(agenda)
<1>. DEFINE x == Arg[1]
            i == Arg[2]
            j == Arg[3]
            todo == {p \in PathBlocks(x) : NotBefore(p, <<i, j>>)}
            I == {p[1] : p \in todo}
            k == Least(I)
            J == {p[2] : p \in {q \in todo : q[1] = k}}
            l == Least(J)
<1>1. /\ x \in Vars /\ i \in Nat /\ j \in Nat /\ Arg = <<x, i, j>> /\ agenda # <<>>
      /\ agenda[1].fn = "recalculate_path"
  <2>1. agenda # <<>> /\ agenda[1].fn = "recalculate_path" /\ Running("recalculate_path")
    BY DEF RecalculatePath, Running
  <2>2. Arg \in Vars \X Nat \X Nat
    BY <2>1, HeadTyped, Zenon DEF Inv
  <2>3. Arg = <<Arg[1], Arg[2], Arg[3]>> /\ Arg[1] \in Vars /\ Arg[2] \in Nat /\ Arg[3] \in Nat
    BY <2>2
  <2>. QED
    BY <2>1, <2>3
<1>2. agenda[1] = Call("recalculate_path", <<x, i, j>>)
  BY <1>1, HeadIs, Zenon
<1>3. UNCHANGED <<varState, enabled, env, solverState, raised, focus>>
  BY Zenon DEF RecalculatePath, Continue, Return
<1>4. CASE todo = {}
  <2>1. agenda' = Tail(agenda)
    BY <1>1, <1>4, Zenon DEF RecalculatePath, Return
  <2>2. \A p \in PathBlocks(x) : ~NotBefore(p, <<i, j>>)
    BY <1>4
  <2>. HIDE DEF x, i, j, todo
  <2>. QED
    BY <1>1, <1>2, <1>3, <2>1, <2>2
<1>5. CASE todo # {}
  <2>1. agenda' = <<Call("recalculate", constraints_w[x][solvers_w[x][k]][l]),
                    Call("recalculate_path", <<x, k, l + 1>>)>> \o Tail(agenda)
    BY <1>1, <1>5, Zenon DEF RecalculatePath, Continue
  <2>2. \A p \in todo : p[1] \in Nat /\ p[2] \in Nat
    BY <1>1, PathPlaces
  <2>3. I \in SUBSET Nat /\ I # {}
    <3>. HIDE DEF todo
    <3>. QED  BY <1>5, <2>2
  <2>4. k \in I /\ \A m \in I : k <= m
    <3>. HIDE DEF I
    <3>. QED  BY <2>3, LeastExists
  <2>5. J \in SUBSET Nat /\ J # {}
    <3>. HIDE DEF todo, k
    <3>. QED  BY <2>2, <2>4
  <2>6. l \in J /\ \A m \in J : l <= m
    <3>. HIDE DEF J
    <3>. QED  BY <2>5, LeastExists
  <2>7. PICK p \in todo : p[1] = k /\ p[2] = l
    <3>. HIDE DEF k, l, todo
    <3>. QED  BY <2>6
  <2>8. \A q \in todo : NotBefore(q, p)
    <3>. SUFFICES ASSUME NEW q \in todo PROVE NotBefore(q, p)
      OBVIOUS
    <3>1. k <= q[1] /\ k \in Nat /\ l \in Nat /\ q[1] \in Nat /\ q[2] \in Nat
      <4>. HIDE DEF k, l, todo
      <4>. QED  BY <2>2, <2>3, <2>4, <2>5, <2>6
    <3>2. q[1] = k => l <= q[2]
      <4>. HIDE DEF k, l, todo
      <4>. QED  BY <2>6
    <3>. HIDE DEF k, l, todo
    <3>. QED
      BY <2>7, <3>1, <3>2 DEF NotBefore
  <2>. HIDE DEF k, l
  <2>9. /\ p = <<p[1], p[2]>> /\ p[1] \in Nat /\ p[2] \in Nat
        /\ p[1] \in PathSlots(x)
        /\ p[2] \in DOMAIN constraints_w[x][solvers_w[x][p[1]]] /\ BlockAt(x, p) \in Cons
    BY <1>1, PathPlaces
  <2>10. Due(x, i, j, p)
    BY <2>8, <2>9 DEF Due
  <2>11. agenda' = <<Call("recalculate", BlockAt(x, p)),
                     Call("recalculate_path", <<x, p[1], p[2] + 1>>)>> \o Tail(agenda)
    BY <2>1, <2>7 DEF BlockAt
  <2>12. p \in Nat \X Nat
    BY <2>9
  <2>. HIDE DEF x, i, j, todo
  <2>. QED
    BY <1>1, <1>2, <1>3, <2>9, <2>10, <2>11, <2>12
<1>. QED
  BY <1>4, <1>5

LEMMA BeginAssignVariableDoes ==
  ASSUME Inv, BeginAssignVariable
  PROVE  \E x \in Vars, v \in Values :
           /\ agenda # <<>> /\ agenda[1] = Call("__begin_assign__", <<x, v>>)
           /\ agenda' = Tail(agenda)
           /\ stored' = [stored EXCEPT ![x] = v]
           /\ UNCHANGED <<external, readonly, constraints_w, enabled, env, asserted,
                          model, w_value, raised, focus>>
           /\ \/ /\ IsConstrained(x) /\ pin' = MakeAssignable(x) /\ LookUpDefining(x)
                 /\ \/ IsSolveable(x) /\ Propose(x, DefiningSolver(x), v)
                    \/ ~IsSolveable(x) /\ UNCHANGED <<proposal, leaked>>
              \/ ~IsConstrained(x) /\ UNCHANGED <<pin, solvers_w, proposal, leaked>>
<1>. DEFINE x == Arg[1]
            v == Arg[2]
<1>1. /\ agenda # <<>> /\ agenda[1].fn = "__begin_assign__"
      /\ Arg = <<x, v>> /\ x \in Vars /\ v \in Values
  <2>1. agenda # <<>> /\ agenda[1].fn = "__begin_assign__" /\ Running("__begin_assign__")
    BY DEF BeginAssignVariable, Running
  <2>2. Arg \in Vars \X Values
    BY <2>1, HeadTyped, Zenon DEF Inv
  <2>3. Arg = <<Arg[1], Arg[2]>> /\ Arg[1] \in Vars /\ Arg[2] \in Values
    BY <2>2
  <2>. QED
    BY <2>1, <2>3
<1>2. agenda[1] = Call("__begin_assign__", <<x, v>>)
  BY <1>1, HeadIs, Zenon
<1>. QED
  BY <1>1, <1>2, Zenon DEF BeginAssignVariable, Return

LEMMA AssignVariableDoes ==
  ASSUME Inv, AssignVariable
  PROVE  \E x \in Vars :
           /\ agenda # <<>> /\ agenda[1] = Call("__assign__", x)
           /\ LookUpDefining(x)
           /\ agenda' = (IF IsSolveable(x) THEN AssignCalls(x) ELSE <<>>) \o Tail(agenda)
           /\ UNCHANGED <<stored, external, readonly, constraints_w, enabled, env,
                          solverState, raised, focus>>
<1>. DEFINE x == Arg
<1>1. agenda # <<>> /\ agenda[1].fn = "__assign__" /\ x \in Vars
  <2>1. agenda # <<>> /\ agenda[1].fn = "__assign__" /\ Running("__assign__")
    BY DEF AssignVariable, Running
  <2>. QED
    BY <2>1, HeadTyped, Zenon DEF Inv
<1>2. agenda[1] = Call("__assign__", x)
  BY <1>1, HeadIs, Zenon
<1>. QED
  BY <1>1, <1>2, Zenon DEF AssignVariable, Continue

LEMMA GetIDoes ==
  ASSUME Inv, GetI
  PROVE  \E x \in Vars :
           /\ agenda # <<>> /\ agenda[1] = Call("get_i", x)
           /\ stored' = [stored EXCEPT ![x] = ValueOf(x, DefiningSolver(x))]
           /\ w_value' = [w_value EXCEPT ![x][DefiningSolver(x)] = ValueOf(x, DefiningSolver(x))]
           /\ UNCHANGED <<solvers_w, external, readonly, constraints_w, enabled, env,
                          asserted, proposal, leaked, model, raised, focus>>
           /\ \/ /\ IsShared(x) /\ pin' = MakeAssignable(x)
                 /\ agenda' = <<Call("update_downstream_variables", <<x, 1>>)>> \o Tail(agenda)
              \/ ~IsShared(x) /\ UNCHANGED pin /\ agenda' = Tail(agenda)
<1>. DEFINE x == Arg
<1>1. agenda # <<>> /\ agenda[1].fn = "get_i" /\ x \in Vars
  <2>1. agenda # <<>> /\ agenda[1].fn = "get_i" /\ Running("get_i")
    BY DEF GetI, Running
  <2>. QED
    BY <2>1, HeadTyped, Zenon DEF Inv
<1>2. agenda[1] = Call("get_i", x)
  BY <1>1, HeadIs, Zenon
<1>. QED
  BY <1>1, <1>2, Zenon DEF GetI, Continue, Return

LEMMA MakeNotAssignableDoes ==
  ASSUME Inv, MakeNotAssignable
  PROVE  \E x \in Vars :
           /\ agenda # <<>> /\ agenda[1] = Call("make_not_assignable", x)
           /\ LET lock == {s \in readonly[x] : pin[x][s] = NoValue} IN
                /\ pin' = [pin EXCEPT ![x] =
                     [s \in Solvers |-> IF s \in lock THEN ValueOf(x, s) ELSE pin[x][s]]]
                /\ w_value' = [w_value EXCEPT ![x] =
                     [s \in Solvers |-> IF s \in lock THEN ValueOf(x, s) ELSE w_value[x][s]]]
           /\ agenda' = <<Call("recalculate_path", <<x, 1, 1>>)>> \o Tail(agenda)
           /\ UNCHANGED <<varState, enabled, env, asserted, proposal, leaked, model, raised, focus>>
<1>. DEFINE x == Arg
<1>1. agenda # <<>> /\ agenda[1].fn = "make_not_assignable" /\ x \in Vars
  <2>1. agenda # <<>> /\ agenda[1].fn = "make_not_assignable" /\ Running("make_not_assignable")
    BY DEF MakeNotAssignable, Running
  <2>. QED
    BY <2>1, HeadTyped, Zenon DEF Inv
<1>2. agenda[1] = Call("make_not_assignable", x)
  BY <1>1, HeadIs, Zenon
<1>. QED
  BY <1>1, <1>2, Zenon DEF MakeNotAssignable, Continue

LEMMA BeginAssignDoes ==
  ASSUME Inv, BeginAssign
  PROVE  \E x \in Vars, s \in Solvers :
           /\ agenda # <<>> /\ agenda[1] = Call("begin_assign", <<x, s>>)
           /\ Propose(x, s, stored[x]) /\ s \in external[x]
           /\ agenda' = Tail(agenda)
           /\ UNCHANGED <<varState, enabled, env, asserted, pin, model, w_value, raised, focus>>
<1>. DEFINE x == Arg[1]
            s == Arg[2]
<1>1. /\ agenda # <<>> /\ agenda[1].fn = "begin_assign"
      /\ Arg = <<x, s>> /\ x \in Vars /\ s \in Solvers
  <2>1. agenda # <<>> /\ agenda[1].fn = "begin_assign" /\ Running("begin_assign")
    BY DEF BeginAssign, Running
  <2>2. Arg \in Vars \X Solvers
    BY <2>1, HeadTyped, Zenon DEF Inv
  <2>3. Arg = <<Arg[1], Arg[2]>> /\ Arg[1] \in Vars /\ Arg[2] \in Solvers
    BY <2>2
  <2>. QED
    BY <2>1, <2>3
<1>2. agenda[1] = Call("begin_assign", <<x, s>>)
  BY <1>1, HeadIs, Zenon
<1>3. s \in external[x]
  BY <1>1, HeadTyped, Zenon DEF Inv, PendingOK, Arg
<1>. QED
  BY <1>1, <1>2, <1>3, Zenon DEF BeginAssign, Return

LEMMA SolveDoes ==
  ASSUME Inv, Solve
  PROVE  \E s \in Solvers :
           /\ agenda # <<>> /\ agenda[1] = Call("solve", s)
           /\ \/ /\ \E m \in Models(s) : model' = [model EXCEPT ![s] = m]
                 /\ agenda' = Tail(agenda) /\ UNCHANGED <<raised, focus>>
              \/ /\ model' = [model EXCEPT ![s] = NoModel]
                 /\ agenda' = <<>> /\ raised' = TRUE /\ UNCHANGED focus
           /\ UNCHANGED <<varState, enabled, env, asserted, proposal, leaked, pin, w_value>>
<1>. DEFINE s == Arg
<1>1. agenda # <<>> /\ agenda[1].fn = "solve" /\ s \in Solvers
  <2>1. agenda # <<>> /\ agenda[1].fn = "solve" /\ Running("solve")
    BY DEF Solve, Running
  <2>. QED
    BY <2>1, HeadTyped, Zenon DEF Inv
<1>2. agenda[1] = Call("solve", s)
  BY <1>1, HeadIs, Zenon
<1>. QED
  BY <1>1, <1>2, Zenon DEF Solve, Return, RaiseError

LEMMA EndAssignDoes ==
  ASSUME Inv, EndAssign
  PROVE  \E x \in Vars, s \in Solvers :
           /\ agenda # <<>> /\ agenda[1] = Call("end_assign", <<x, s>>)
           /\ proposal' = [proposal EXCEPT ![x][s] = NoValue]
           /\ \/ proposal[x][s] # NoValue /\ agenda' = Tail(agenda) /\ UNCHANGED <<raised, focus>>
              \/ /\ proposal[x][s] = NoValue
                 /\ agenda' = <<>> /\ raised' = TRUE /\ UNCHANGED focus
           /\ UNCHANGED <<varState, enabled, env, asserted, leaked, pin, model, w_value>>
<1>. DEFINE x == Arg[1]
            s == Arg[2]
<1>1. /\ agenda # <<>> /\ agenda[1].fn = "end_assign"
      /\ Arg = <<x, s>> /\ x \in Vars /\ s \in Solvers
  <2>1. agenda # <<>> /\ agenda[1].fn = "end_assign" /\ Running("end_assign")
    BY DEF EndAssign, Running
  <2>2. Arg \in Vars \X Solvers
    BY <2>1, HeadTyped, Zenon DEF Inv
  <2>3. Arg = <<Arg[1], Arg[2]>> /\ Arg[1] \in Vars /\ Arg[2] \in Solvers
    BY <2>2
  <2>. QED
    BY <2>1, <2>3
<1>2. agenda[1] = Call("end_assign", <<x, s>>)
  BY <1>1, HeadIs, Zenon
<1>. QED
  BY <1>1, <1>2, Zenon DEF EndAssign, Return, RaiseError

LEMMA RecalculateDoes ==
  ASSUME Inv, Recalculate
  PROVE  \E c \in Cons :
           /\ agenda # <<>> /\ agenda[1] = Call("recalculate", c)
           /\ \/ /\ enabled[c] /\ Retract(c) /\ RunPredicate(c)
                 /\ enabled' = [enabled EXCEPT ![c] = FALSE]
                 /\ agenda' = <<Call("enable", c)>> \o Tail(agenda)
              \/ /\ ~enabled[c] /\ agenda' = Tail(agenda)
                 /\ UNCHANGED <<varState, enabled, env, asserted, pin, w_value>>
           /\ UNCHANGED <<stored, proposal, leaked, model, raised, focus>>
<1>. DEFINE c == Arg
<1>1. agenda # <<>> /\ agenda[1].fn = "recalculate" /\ c \in Cons
  <2>1. agenda # <<>> /\ agenda[1].fn = "recalculate" /\ Running("recalculate")
    BY DEF Recalculate, Running
  <2>. QED
    BY <2>1, HeadTyped, Zenon DEF Inv
<1>2. agenda[1] = Call("recalculate", c)
  BY <1>1, HeadIs, Zenon
<1>. QED
  BY <1>1, <1>2, Zenon DEF Recalculate, Continue, Return, varState

LEMMA RecalculateRaisesDoes ==
  ASSUME Inv, RecalculateRaises
  PROVE  \E c \in Cons :
           /\ agenda # <<>> /\ agenda[1] = Call("recalculate", c)
           /\ enabled[c] /\ Retract(c) /\ BreakOff(c)
           /\ enabled' = [enabled EXCEPT ![c] = FALSE]
           /\ env' = [env EXCEPT ![c] = Emptied]
           /\ agenda' = <<>> /\ raised' = TRUE
           /\ UNCHANGED <<stored, proposal, leaked, model, focus>>
<1>. DEFINE c == Arg
<1>1. agenda # <<>> /\ agenda[1].fn = "recalculate" /\ c \in Cons
  <2>1. agenda # <<>> /\ agenda[1].fn = "recalculate" /\ Running("recalculate")
    BY DEF RecalculateRaises, Running
  <2>. QED
    BY <2>1, HeadTyped, Zenon DEF Inv
<1>2. agenda[1] = Call("recalculate", c)
  BY <1>1, HeadIs, Zenon
<1>. QED
  BY <1>1, <1>2, Zenon DEF RecalculateRaises, RaiseError

(* Before anything has raised, a block that was run has its primitive.     *)
LEMMA PrimitiveKept ==
  ASSUME Inv, ~raised, NEW c \in Cons, env[c] # NoEnv
  PROVE  HasPrimitive(c) /\ env[c] \in Envs(c)
  BY DEF Inv, TypeOK, RunBlocks, HasPrimitive

(* An operation of the program starts when no call is pending.             *)
LEMMA ProgramIdle == UserStep => agenda = <<>>
  BY DEF UserStep, Always, AlwaysRaises, Enable, Disable, SetStrength, Read, Assign,
         MultiAssign, Ready, Idle

LEMMA EnableConstraintDoes ==
  ASSUME Inv, EnableConstraint
  PROVE  \E c \in Cons :
           /\ agenda # <<>> /\ agenda[1] = Call("enable", c)
           /\ \/ /\ enabled[c] /\ agenda' = Tail(agenda) /\ UNCHANGED <<asserted, raised, focus>>
              \/ /\ raised /\ ~enabled[c] /\ ~HasPrimitive(c)
                 /\ agenda' = <<Call("set_enabled", c)>> \o Tail(agenda)
                 /\ UNCHANGED <<asserted, raised, focus>>
              \/ /\ ~enabled[c] /\ IsBoolean(c, env[c]) /\ Holds(c, Fill(env[c]))
                 /\ agenda' = <<Call("set_enabled", c)>> \o Tail(agenda)
                 /\ UNCHANGED <<asserted, raised, focus>>
              \/ /\ ~enabled[c] /\ IsBoolean(c, env[c])
                 /\ agenda' = <<>> /\ raised' = TRUE /\ UNCHANGED <<asserted, focus>>
              \/ /\ ~enabled[c] /\ ~IsBoolean(c, env[c])
                 /\ asserted' = [asserted EXCEPT ![c][env[c]] = @ + 1]
                 /\ agenda' = <<Call("solve", SolverOf[c]), Call("set_enabled", c)>> \o Tail(agenda)
                 /\ UNCHANGED <<raised, focus>>
           /\ env[c] # NoEnv
           /\ UNCHANGED <<varState, enabled, env, proposal, leaked, pin, model, w_value>>
<1>. DEFINE c == Arg
<1>1. agenda # <<>> /\ agenda[1].fn = "enable" /\ c \in Cons
  <2>1. agenda # <<>> /\ agenda[1].fn = "enable" /\ Running("enable")
    BY DEF EnableConstraint, Running
  <2>. QED
    BY <2>1, HeadTyped, Zenon DEF Inv
<1>2. agenda[1] = Call("enable", c)
  BY <1>1, HeadIs, Zenon
<1>3. env[c] # NoEnv
  BY <1>1, HeadTyped, Zenon DEF Inv, PendingOK, Arg
<1>4. ~HasPrimitive(c) => raised
  BY <1>1, <1>3, Zenon DEF Inv, RunBlocks, HasPrimitive
<1>. QED
  BY <1>1, <1>2, <1>3, <1>4, Zenon DEF EnableConstraint, AddPrimitive, Continue, Return, RaiseError

LEMMA SetEnabledDoes ==
  ASSUME Inv, SetEnabled
  PROVE  \E c \in Cons :
           /\ agenda # <<>> /\ agenda[1] = Call("set_enabled", c)
           /\ enabled' = [enabled EXCEPT ![c] = TRUE]
           /\ agenda' = Tail(agenda)
           /\ UNCHANGED <<varState, env, solverState, raised, focus>>
<1>. DEFINE c == Arg
<1>1. agenda # <<>> /\ agenda[1].fn = "set_enabled" /\ c \in Cons
  <2>1. agenda # <<>> /\ agenda[1].fn = "set_enabled" /\ Running("set_enabled")
    BY DEF SetEnabled, Running
  <2>. QED
    BY <2>1, HeadTyped, Zenon DEF Inv
<1>2. agenda[1] = Call("set_enabled", c)
  BY <1>1, HeadIs, Zenon
<1>. QED
  BY <1>1, <1>2, Zenon DEF SetEnabled, Return

-----------------------------------------------------------------------------
(* Which calls are pending next.                                           *)

LEMMA CallTypes ==
  /\ \A x \in Vars, v \in Values : Call("__begin_assign__", <<x, v>>) \in Calls
  /\ \A x \in Vars : /\ Call("__assign__", x) \in Calls /\ Call("get_i", x) \in Calls
                     /\ Call("make_not_assignable", x) \in Calls
  /\ \A x \in Vars, i \in Nat :
       /\ Call("assign others", <<x, i>>) \in Calls
       /\ Call("update_downstream_variables", <<x, i>>) \in Calls
       /\ Call("__end_assign__", <<x, i>>) \in Calls
  /\ \A x \in Vars, i, j \in Nat : Call("recalculate_path", <<x, i, j>>) \in Calls
  /\ \A x \in Vars, s \in Solvers :
       Call("begin_assign", <<x, s>>) \in Calls /\ Call("end_assign", <<x, s>>) \in Calls
  /\ \A s \in Solvers : Call("solve", s) \in Calls
  /\ \A c \in Cons : /\ Call("recalculate", c) \in Calls /\ Call("enable", c) \in Calls
                     /\ Call("set_enabled", c) \in Calls
<1>. USE DEF Calls, Call
<1>1. \A x \in Vars, v \in Values : Call("__begin_assign__", <<x, v>>) \in Calls
  OBVIOUS
<1>2. \A x \in Vars : /\ Call("__assign__", x) \in Calls /\ Call("get_i", x) \in Calls
                      /\ Call("make_not_assignable", x) \in Calls
  OBVIOUS
<1>3. \A x \in Vars, i \in Nat :
        /\ Call("assign others", <<x, i>>) \in Calls
        /\ Call("update_downstream_variables", <<x, i>>) \in Calls
        /\ Call("__end_assign__", <<x, i>>) \in Calls
  OBVIOUS
<1>4. \A x \in Vars, i, j \in Nat : Call("recalculate_path", <<x, i, j>>) \in Calls
  OBVIOUS
<1>5. \A x \in Vars, s \in Solvers :
        Call("begin_assign", <<x, s>>) \in Calls /\ Call("end_assign", <<x, s>>) \in Calls
  OBVIOUS
<1>6. \A s \in Solvers : Call("solve", s) \in Calls
  OBVIOUS
<1>7. \A c \in Cons : /\ Call("recalculate", c) \in Calls /\ Call("enable", c) \in Calls
                      /\ Call("set_enabled", c) \in Calls
  OBVIOUS
<1>. QED
  BY <1>1, <1>2, <1>3, <1>4, <1>5, <1>6, <1>7, Zenon

LEMMA CallIs == \A f, a : Call(f, a).fn = f /\ Call(f, a).arg = a
  BY DEF Call

(* Going on with a few calls, or with none.                                *)
LEMMA PendingFew ==
  ASSUME Inv, agenda # <<>>
  PROVE  /\ agenda' = Tail(agenda) => Pending' = Behind
         /\ \A a \in Calls : agenda' = <<a>> \o Tail(agenda) => Pending' = {a} \cup Behind
         /\ \A a, b \in Calls : agenda' = <<a, b>> \o Tail(agenda) => Pending' = {a, b} \cup Behind
         /\ \A a, b, d \in Calls :
              agenda' = <<a, b, d>> \o Tail(agenda) => Pending' = {a, b, d} \cup Behind
<1>1. agenda' = Tail(agenda) => Pending' = Behind
  BY PendingRest
<1>2. ASSUME NEW a \in Calls, agenda' = <<a>> \o Tail(agenda)
      PROVE  Pending' = {a} \cup Behind
  <2>1. <<a>> \in Seq(Calls) /\ CallsIn(<<a>>) = {a}
    BY ShortCalls, ShortSeqs
  <2>. QED
    BY <1>2, <2>1, PendingThen
<1>3. ASSUME NEW a \in Calls, NEW b \in Calls, agenda' = <<a, b>> \o Tail(agenda)
      PROVE  Pending' = {a, b} \cup Behind
  <2>1. <<a, b>> \in Seq(Calls) /\ CallsIn(<<a, b>>) = {a, b}
    BY ShortCalls, ShortSeqs
  <2>. QED
    BY <1>3, <2>1, PendingThen
<1>4. ASSUME NEW a \in Calls, NEW b \in Calls, NEW d \in Calls,
             agenda' = <<a, b, d>> \o Tail(agenda)
      PROVE  Pending' = {a, b, d} \cup Behind
  <2>1. <<a, b, d>> \in Seq(Calls) /\ CallsIn(<<a, b, d>>) = {a, b, d}
    BY ShortCalls, ShortSeqs
  <2>. QED
    BY <1>4, <2>1, PendingThen
<1>. QED
  BY <1>1, <1>2, <1>3, <1>4

LEMMA AssignOthersLeaves ==
  ASSUME Inv, AssignOthers
  PROVE  \E x \in Vars, i \in Nat :
           /\ agenda # <<>> /\ agenda[1] = Call("assign others", <<x, i>>)
           /\ UNCHANGED <<varState, enabled, env, solverState, raised, focus>>
           /\ \/ NoneLeft(x, i, Others(x)) /\ Pending' = Behind
              \/ \E j \in Nat :
                   /\ Visits(x, i, Others(x), j)
                   /\ Pending' = {Call("begin_assign", <<x, solvers_w[x][j]>>), Call("solve", solvers_w[x][j]), Call("assign others", <<x, j + 1>>)} \cup Behind
<1>1. PICK x \in Vars, i \in Nat :
        /\ agenda # <<>> /\ agenda[1] = Call("assign others", <<x, i>>)
        /\ UNCHANGED <<varState, enabled, env, solverState, raised, focus>>
        /\ \/ NoneLeft(x, i, Others(x)) /\ agenda' = Tail(agenda)
           \/ \E j \in Nat :
                /\ Visits(x, i, Others(x), j)
                /\ agenda' = <<Call("begin_assign", <<x, solvers_w[x][j]>>),
                               Call("solve", solvers_w[x][j]),
                               Call("assign others", <<x, j + 1>>)>> \o Tail(agenda)
  BY AssignOthersDoes
<1>2. CASE NoneLeft(x, i, Others(x)) /\ agenda' = Tail(agenda)
  <2>1. Pending' = Behind
    BY <1>1, <1>2, PendingFew, CallTypes, Zenon
  <2>. QED
    BY <1>1, <1>2, <2>1, Zenon
<1>3. ASSUME NEW j \in Nat, Visits(x, i, Others(x), j),
             agenda' = <<Call("begin_assign", <<x, solvers_w[x][j]>>),
                               Call("solve", solvers_w[x][j]),
                               Call("assign others", <<x, j + 1>>)>> \o Tail(agenda)
      PROVE  Pending' = {Call("begin_assign", <<x, solvers_w[x][j]>>), Call("solve", solvers_w[x][j]), Call("assign others", <<x, j + 1>>)} \cup Behind
  <2>1. solvers_w[x][j] \in Solvers /\ j + 1 \in Nat
    <3>1. j + 1 \in Nat
      OBVIOUS
    <3>. QED
      BY <1>3, <3>1, Zenon DEF Visits
  <2>. QED
    BY <1>1, <1>3, <2>1, PendingFew, CallTypes, Zenon
<1>. QED
  BY <1>1, <1>2, <1>3, Zenon

LEMMA UpdateDownstreamVariablesLeaves ==
  ASSUME Inv, UpdateDownstreamVariables
  PROVE  \E x \in Vars, i \in Nat :
           /\ agenda # <<>> /\ agenda[1] = Call("update_downstream_variables", <<x, i>>)
           /\ UNCHANGED <<varState, enabled, env, solverState, raised, focus>>
           /\ \/ NoneLeft(x, i, Others(x)) /\ Pending' = {Call("make_not_assignable", x)} \cup Behind
              \/ \E j \in Nat :
                   /\ Visits(x, i, Others(x), j)
                   /\ Pending' = {Call("begin_assign", <<x, solvers_w[x][j]>>), Call("solve", solvers_w[x][j]), Call("end_assign", <<x, solvers_w[x][j]>>), 
                               Call("update_downstream_variables", <<x, j + 1>>)} \cup Behind
<1>1. PICK x \in Vars, i \in Nat :
        /\ agenda # <<>> /\ agenda[1] = Call("update_downstream_variables", <<x, i>>)
        /\ UNCHANGED <<varState, enabled, env, solverState, raised, focus>>
        /\ \/ NoneLeft(x, i, Others(x)) /\ agenda' = <<Call("make_not_assignable", x)>> \o Tail(agenda)
           \/ \E j \in Nat :
                /\ Visits(x, i, Others(x), j)
                /\ agenda' = (Offer(x, solvers_w[x][j]) \o <<Call("update_downstream_variables", <<x, j + 1>>)>>)
                               \o Tail(agenda)
  BY UpdateDownstreamVariablesDoes
<1>2. CASE NoneLeft(x, i, Others(x)) /\ agenda' = <<Call("make_not_assignable", x)>> \o Tail(agenda)
  <2>1. Pending' = {Call("make_not_assignable", x)} \cup Behind
    BY <1>1, <1>2, PendingFew, CallTypes, Zenon
  <2>. QED
    BY <1>1, <1>2, <2>1, Zenon
<1>3. ASSUME NEW j \in Nat, Visits(x, i, Others(x), j),
             agenda' = (Offer(x, solvers_w[x][j]) \o <<Call("update_downstream_variables", <<x, j + 1>>)>>)
                               \o Tail(agenda)
      PROVE  Pending' = {Call("begin_assign", <<x, solvers_w[x][j]>>), Call("solve", solvers_w[x][j]), Call("end_assign", <<x, solvers_w[x][j]>>), 
                               Call("update_downstream_variables", <<x, j + 1>>)} \cup Behind
  <2>1. solvers_w[x][j] \in Solvers /\ j + 1 \in Nat
    <3>1. j + 1 \in Nat
      OBVIOUS
    <3>. QED
      BY <1>3, <3>1, Zenon DEF Visits
  <2>. DEFINE a == Call("begin_assign", <<x, solvers_w[x][j]>>)
              b == Call("solve", solvers_w[x][j])
              c == Call("end_assign", <<x, solvers_w[x][j]>>)
              d == Call("update_downstream_variables", <<x, j + 1>>)
  <2>2. a \in Calls /\ b \in Calls /\ c \in Calls /\ d \in Calls
    BY <2>1, CallTypes, Zenon
  <2>3. agenda' = (<<a, b, c>> \o <<d>>) \o Tail(agenda)
    BY <1>3 DEF Offer
  <2>. HIDE DEF a, b, c, d
  <2>4. <<a, b, c>> \in Seq(Calls) /\ <<d>> \in Seq(Calls)
    BY <2>2, ShortSeqs, Zenon
  <2>5. /\ <<a, b, c>> \o <<d>> \in Seq(Calls)
        /\ CallsIn(<<a, b, c>> \o <<d>>) = {a, b, c, d}
    <3>1. /\ <<a, b, c>> \o <<d>> \in Seq(Calls)
          /\ CallsIn(<<a, b, c>> \o <<d>>) = CallsIn(<<a, b, c>>) \cup CallsIn(<<d>>)
      BY <2>4, JoinedCalls, Zenon
    <3>2. CallsIn(<<a, b, c>>) = {a, b, c} /\ CallsIn(<<d>>) = {d}
      BY ShortCalls
    <3>. QED
      BY <3>1, <3>2
  <2>6. Pending' = {a, b, c, d} \cup Behind
    BY <1>1, <2>3, <2>5, PendingThen
  <2>. QED
    BY <2>6 DEF a, b, c, d
<1>. QED
  BY <1>1, <1>2, <1>3, Zenon

LEMMA EndAssignVariableLeaves ==
  ASSUME Inv, EndAssignVariable
  PROVE  \E x \in Vars, i \in Nat :
           /\ agenda # <<>> /\ agenda[1] = Call("__end_assign__", <<x, i>>)
           /\ UNCHANGED <<varState, enabled, env, solverState, raised, focus>>
           /\ \/ NoneLeft(x, i, external[x]) /\ Pending' = {Call("make_not_assignable", x)} \cup Behind
              \/ \E j \in Nat :
                   /\ Visits(x, i, external[x], j)
                   /\ Pending' = {Call("end_assign", <<x, solvers_w[x][j]>>), Call("__end_assign__", <<x, j + 1>>)} \cup Behind
<1>1. PICK x \in Vars, i \in Nat :
        /\ agenda # <<>> /\ agenda[1] = Call("__end_assign__", <<x, i>>)
        /\ UNCHANGED <<varState, enabled, env, solverState, raised, focus>>
        /\ \/ NoneLeft(x, i, external[x]) /\ agenda' = <<Call("make_not_assignable", x)>> \o Tail(agenda)
           \/ \E j \in Nat :
                /\ Visits(x, i, external[x], j)
                /\ agenda' = <<Call("end_assign", <<x, solvers_w[x][j]>>),
                               Call("__end_assign__", <<x, j + 1>>)>> \o Tail(agenda)
  BY EndAssignVariableDoes
<1>2. CASE NoneLeft(x, i, external[x]) /\ agenda' = <<Call("make_not_assignable", x)>> \o Tail(agenda)
  <2>1. Pending' = {Call("make_not_assignable", x)} \cup Behind
    BY <1>1, <1>2, PendingFew, CallTypes, Zenon
  <2>. QED
    BY <1>1, <1>2, <2>1, Zenon
<1>3. ASSUME NEW j \in Nat, Visits(x, i, external[x], j),
             agenda' = <<Call("end_assign", <<x, solvers_w[x][j]>>),
                               Call("__end_assign__", <<x, j + 1>>)>> \o Tail(agenda)
      PROVE  Pending' = {Call("end_assign", <<x, solvers_w[x][j]>>), Call("__end_assign__", <<x, j + 1>>)} \cup Behind
  <2>1. solvers_w[x][j] \in Solvers /\ j + 1 \in Nat
    <3>1. j + 1 \in Nat
      OBVIOUS
    <3>. QED
      BY <1>3, <3>1, Zenon DEF Visits
  <2>. QED
    BY <1>1, <1>3, <2>1, PendingFew, CallTypes, Zenon
<1>. QED
  BY <1>1, <1>2, <1>3, Zenon

LEMMA RecalculatePathLeaves ==
  ASSUME Inv, RecalculatePath
  PROVE  \E x \in Vars, i, j \in Nat :
           /\ agenda # <<>> /\ agenda[1] = Call("recalculate_path", <<x, i, j>>)
           /\ UNCHANGED <<varState, enabled, env, solverState, raised, focus>>
           /\ \/ /\ \A p \in PathBlocks(x) : ~NotBefore(p, <<i, j>>)
                 /\ Pending' = Behind
              \/ \E p \in Nat \X Nat :
                   /\ Due(x, i, j, p) /\ BlockAt(x, p) \in Cons
                   /\ Pending' = {Call("recalculate", BlockAt(x, p)),
                                  Call("recalculate_path", <<x, p[1], p[2] + 1>>)} \cup Behind
<1>1. PICK x \in Vars, i \in Nat, j \in Nat :
           /\ agenda # <<>> /\ agenda[1] = Call("recalculate_path", <<x, i, j>>)
           /\ UNCHANGED <<varState, enabled, env, solverState, raised, focus>>
           /\ \/ /\ \A p \in PathBlocks(x) : ~NotBefore(p, <<i, j>>)
                 /\ agenda' = Tail(agenda)
              \/ \E p \in Nat \X Nat :
                   /\ Due(x, i, j, p) /\ BlockAt(x, p) \in Cons
                   /\ agenda' = <<Call("recalculate", BlockAt(x, p)),
                                  Call("recalculate_path", <<x, p[1], p[2] + 1>>)>> \o Tail(agenda)
  BY RecalculatePathDoes, Zenon
<1>2. agenda' = Tail(agenda) => Pending' = Behind
  BY <1>1, PendingFew
<1>3. ASSUME NEW p \in Nat \X Nat, Due(x, i, j, p), BlockAt(x, p) \in Cons,
             agenda' = <<Call("recalculate", BlockAt(x, p)),
                         Call("recalculate_path", <<x, p[1], p[2] + 1>>)>> \o Tail(agenda)
      PROVE  Pending' = {Call("recalculate", BlockAt(x, p)),
                         Call("recalculate_path", <<x, p[1], p[2] + 1>>)} \cup Behind
  <2>1. p[1] \in Nat /\ p[2] + 1 \in Nat
    BY <1>3 DEF Due
  <2>. QED
    BY <1>1, <1>3, <2>1, PendingFew, CallTypes, Zenon
<1>4. \/ (\A p \in PathBlocks(x) : ~NotBefore(p, <<i, j>>)) /\ Pending' = Behind
      \/ \E p \in Nat \X Nat :
           /\ Due(x, i, j, p) /\ BlockAt(x, p) \in Cons
           /\ Pending' = {Call("recalculate", BlockAt(x, p)),
                          Call("recalculate_path", <<x, p[1], p[2] + 1>>)} \cup Behind
  BY <1>1, <1>2, <1>3, Zenon
<1>. QED
  BY <1>1, <1>4

LEMMA AssignVariableLeaves ==
  ASSUME Inv, AssignVariable
  PROVE  \E x \in Vars :
           /\ agenda # <<>> /\ agenda[1] = Call("__assign__", x)
           /\ LookUpDefining(x)
           /\ UNCHANGED <<stored, external, readonly, constraints_w, enabled, env,
                          solverState, raised, focus>>
           /\ \/ ~IsSolveable(x) /\ Pending' = Behind
              \/ /\ IsSolveable(x) /\ DefiningSolver(x) \in external[x]
                 /\ DefiningSolver(x) \in Solvers
                 /\ Pending' = {Call("solve", DefiningSolver(x)), Call("get_i", x),
                                Call("assign others", <<x, 1>>)} \cup Behind
<1>1. PICK x \in Vars :
        /\ agenda # <<>> /\ agenda[1] = Call("__assign__", x)
        /\ LookUpDefining(x)
        /\ agenda' = (IF IsSolveable(x) THEN AssignCalls(x) ELSE <<>>) \o Tail(agenda)
        /\ UNCHANGED <<stored, external, readonly, constraints_w, enabled, env,
                       solverState, raised, focus>>
  BY AssignVariableDoes
<1>2. CASE ~IsSolveable(x)
  <2>1. agenda' = Tail(agenda)
    BY <1>1, <1>2, NothingMore
  <2>. QED
    BY <1>1, <1>2, <2>1, PendingFew, Zenon
<1>3. CASE IsSolveable(x)
  <2>1. DefiningSolver(x) \in external[x] /\ DefiningSolver(x) \in Solvers
    BY <1>3, DefiningKnown DEF Inv
  <2>2. Pending' = {Call("solve", DefiningSolver(x)), Call("get_i", x),
                    Call("assign others", <<x, 1>>)} \cup Behind
    <3>1. agenda' = AssignCalls(x) \o Tail(agenda)
      BY <1>1, <1>3
    <3>2. 1 \in Nat
      OBVIOUS
    <3>. DEFINE a == Call("solve", DefiningSolver(x))
                b == Call("get_i", x)
                d == Call("assign others", <<x, 1>>)
    <3>3. a \in Calls /\ b \in Calls /\ d \in Calls
      BY <2>1, <3>2, CallTypes, Zenon
    <3>4. agenda' = <<a, b, d>> \o Tail(agenda)
      BY <3>1 DEF AssignCalls
    <3>. HIDE DEF a, b, d
    <3>5. Pending' = {a, b, d} \cup Behind
      BY <1>1, <3>3, <3>4, PendingFew, Zenon
    <3>. QED
      BY <3>5 DEF a, b, d
  <2>. QED
    BY <1>1, <1>3, <2>1, <2>2, Zenon
<1>. QED
  BY <1>2, <1>3

LEMMA GetILeaves ==
  ASSUME Inv, GetI
  PROVE  \E x \in Vars :
           /\ agenda # <<>> /\ agenda[1] = Call("get_i", x)
           /\ IsSolveable(x) /\ DefiningSolver(x) \in external[x]
           /\ DefiningSolver(x) \in Solvers
           /\ stored' = [stored EXCEPT ![x] = ValueOf(x, DefiningSolver(x))]
           /\ w_value' = [w_value EXCEPT ![x][DefiningSolver(x)] = ValueOf(x, DefiningSolver(x))]
           /\ UNCHANGED <<solvers_w, external, readonly, constraints_w, enabled, env,
                          asserted, proposal, leaked, model, raised, focus>>
           /\ \/ /\ IsShared(x) /\ pin' = MakeAssignable(x)
                 /\ Pending' = {Call("update_downstream_variables", <<x, 1>>)} \cup Behind
              \/ ~IsShared(x) /\ UNCHANGED pin /\ Pending' = Behind
<1>1. PICK x \in Vars :
           /\ agenda # <<>> /\ agenda[1] = Call("get_i", x)
           /\ stored' = [stored EXCEPT ![x] = ValueOf(x, DefiningSolver(x))]
           /\ w_value' = [w_value EXCEPT ![x][DefiningSolver(x)] = ValueOf(x, DefiningSolver(x))]
           /\ UNCHANGED <<solvers_w, external, readonly, constraints_w, enabled, env,
                          asserted, proposal, leaked, model, raised, focus>>
           /\ \/ /\ IsShared(x) /\ pin' = MakeAssignable(x)
                 /\ agenda' = <<Call("update_downstream_variables", <<x, 1>>)>> \o Tail(agenda)
              \/ ~IsShared(x) /\ UNCHANGED pin /\ agenda' = Tail(agenda)
  BY GetIDoes
<1>2. IsSolveable(x)
  <2>1. PendingOK(agenda[1]) /\ agenda[1].fn = "get_i" /\ agenda[1].arg = x
    BY <1>1, PendingNow, CallIs
  <2>. QED
    BY <2>1 DEF PendingOK
<1>3. DefiningSolver(x) \in external[x] /\ DefiningSolver(x) \in Solvers
  BY <1>2, DefiningKnown DEF Inv
<1>4. 1 \in Nat
  OBVIOUS
<1>5. /\ agenda' = <<Call("update_downstream_variables", <<x, 1>>)>> \o Tail(agenda)
           => Pending' = {Call("update_downstream_variables", <<x, 1>>)} \cup Behind
      /\ agenda' = Tail(agenda) => Pending' = Behind
  BY <1>1, <1>4, PendingFew, CallTypes, Zenon
<1>. QED
  BY <1>1, <1>2, <1>3, <1>5, Zenon

LEMMA MakeNotAssignableLeaves ==
  ASSUME Inv, MakeNotAssignable
  PROVE  \E x \in Vars :
           /\ agenda # <<>> /\ agenda[1] = Call("make_not_assignable", x)
           /\ LET lock == {s \in readonly[x] : pin[x][s] = NoValue} IN
                /\ pin' = [pin EXCEPT ![x] =
                     [s \in Solvers |-> IF s \in lock THEN ValueOf(x, s) ELSE pin[x][s]]]
                /\ w_value' = [w_value EXCEPT ![x] =
                     [s \in Solvers |-> IF s \in lock THEN ValueOf(x, s) ELSE w_value[x][s]]]
           /\ Pending' = {Call("recalculate_path", <<x, 1, 1>>)} \cup Behind
           /\ UNCHANGED <<varState, enabled, env, asserted, proposal, leaked, model, raised, focus>>
<1>1. 1 \in Nat
  OBVIOUS
<1>. QED
  BY <1>1, MakeNotAssignableDoes, PendingFew, CallTypes, Zenon

LEMMA RecalculateLeaves ==
  ASSUME Inv, Recalculate
  PROVE  \E c \in Cons :
           /\ agenda # <<>> /\ agenda[1] = Call("recalculate", c)
           /\ \/ /\ enabled[c] /\ Retract(c) /\ RunPredicate(c)
                 /\ enabled' = [enabled EXCEPT ![c] = FALSE]
                 /\ agenda' = <<Call("enable", c)>> \o Tail(agenda)
                 /\ Pending' = {Call("enable", c)} \cup Behind
              \/ /\ ~enabled[c] /\ Pending' = Behind
                 /\ UNCHANGED <<varState, enabled, env, asserted, pin, w_value>>
           /\ UNCHANGED <<stored, proposal, leaked, model, raised, focus>>
  BY RecalculateDoes, PendingFew, CallTypes, Zenon

LEMMA EnableConstraintLeaves ==
  ASSUME Inv, EnableConstraint
  PROVE  \E c \in Cons :
           /\ agenda # <<>> /\ agenda[1] = Call("enable", c)
           /\ \/ enabled[c] /\ Pending' = Behind /\ UNCHANGED <<asserted, raised, focus>>
              \/ /\ raised /\ ~enabled[c] /\ ~HasPrimitive(c)
                 /\ Pending' = {Call("set_enabled", c)} \cup Behind
                 /\ UNCHANGED <<asserted, raised, focus>>
              \/ /\ ~enabled[c] /\ IsBoolean(c, env[c]) /\ Holds(c, Fill(env[c]))
                 /\ Pending' = {Call("set_enabled", c)} \cup Behind
                 /\ UNCHANGED <<asserted, raised, focus>>
              \/ /\ ~enabled[c] /\ IsBoolean(c, env[c])
                 /\ agenda' = <<>> /\ raised' = TRUE /\ UNCHANGED <<asserted, focus>>
              \/ /\ ~enabled[c] /\ ~IsBoolean(c, env[c])
                 /\ asserted' = [asserted EXCEPT ![c][env[c]] = @ + 1]
                 /\ Pending' = {Call("solve", SolverOf[c]), Call("set_enabled", c)} \cup Behind
                 /\ UNCHANGED <<raised, focus>>
           /\ env[c] # NoEnv
           /\ UNCHANGED <<varState, enabled, env, proposal, leaked, pin, model, w_value>>
<1>1. \A c \in Cons : SolverOf[c] \in Solvers
  BY ConstantsAssumption
<1>. QED
  BY <1>1, EnableConstraintDoes, PendingFew, CallTypes, Zenon

(* What a call on a variable adds is never an `enable', nor the beginning  *)
(* of an assignment, and a constraint keeps its state.                     *)
Adds(fns) == /\ Behind \subseteq Pending'
             /\ \A call \in Pending' : call \in Behind \/ call.fn \in fns
Additions == {"solve", "get_i", "assign others", "begin_assign",
              "update_downstream_variables", "end_assign", "make_not_assignable", "__end_assign__", "recalculate_path", "recalculate"}

LEMMA AddsFew ==
  /\ Pending' = Behind => Adds({})
  /\ \A f, a : Pending' = {Call(f, a)} \cup Behind => Adds({f})
  /\ \A f, a, g, b : Pending' = {Call(f, a), Call(g, b)} \cup Behind => Adds({f, g})
  /\ \A f, a, g, b, h, d :
       Pending' = {Call(f, a), Call(g, b), Call(h, d)} \cup Behind => Adds({f, g, h})
  /\ \A f, a, g, b, h, d, k, e :
       Pending' = {Call(f, a), Call(g, b), Call(h, d), Call(k, e)} \cup Behind
         => Adds({f, g, h, k})
<1>1. Pending' = Behind => Adds({})
  BY DEF Adds
<1>2. \A f, a : Pending' = {Call(f, a)} \cup Behind => Adds({f})
  BY CallIs DEF Adds
<1>3. \A f, a, g, b : Pending' = {Call(f, a), Call(g, b)} \cup Behind => Adds({f, g})
  BY CallIs DEF Adds
<1>4. \A f, a, g, b, h, d :
       Pending' = {Call(f, a), Call(g, b), Call(h, d)} \cup Behind => Adds({f, g, h})
  BY CallIs DEF Adds
<1>5. \A f, a, g, b, h, d, k, e :
       Pending' = {Call(f, a), Call(g, b), Call(h, d), Call(k, e)} \cup Behind
         => Adds({f, g, h, k})
  BY CallIs DEF Adds
<1>. QED
  BY <1>1, <1>2, <1>3, <1>4, <1>5, Zenon

LEMMA AddsMore == \A fns, more : fns \subseteq more /\ Adds(fns) => Adds(more)
  BY DEF Adds

LEMMA VariableCallsAdd ==
  ASSUME Inv,
         \/ BeginAssignVariable \/ AssignVariable \/ AssignOthers
         \/ GetI \/ UpdateDownstreamVariables
         \/ EndAssignVariable \/ MakeNotAssignable \/ RecalculatePath
  PROVE  /\ agenda # <<>> /\ agenda[1].fn \in Additions \cup {"__begin_assign__", "__assign__"}
         /\ UNCHANGED <<constraints_w, external, readonly, asserted, enabled, env, raised>>
         /\ Adds(Additions)
<1>. USE DEF solverState, varState
<1>1. CASE BeginAssignVariable
  <2>1. /\ agenda # <<>> /\ agenda[1].fn = "__begin_assign__" /\ agenda' = Tail(agenda)
        /\ UNCHANGED <<constraints_w, external, readonly, asserted, enabled, env, raised>>
    BY <1>1, BeginAssignVariableDoes, CallIs
  <2>2. Pending' = Behind
    BY <2>1, PendingFew
  <2>. QED
    BY <2>1, <2>2 DEF Adds, Additions
<1>2. CASE AssignVariable
  <2>1. /\ agenda # <<>> /\ agenda[1].fn = "__assign__"
        /\ UNCHANGED <<constraints_w, external, readonly, asserted, enabled, env, raised>>
    BY <1>2, AssignVariableLeaves, CallIs, Zenon
  <2>2. Adds({}) \/ Adds({"solve", "get_i", "assign others"})
    BY <1>2, AssignVariableLeaves, AddsFew, Zenon
  <2>3. /\ {} \subseteq Additions
        /\ {"solve", "get_i", "assign others"} \subseteq Additions
    BY DEF Additions
  <2>4. Adds(Additions)
    BY <2>2, <2>3, AddsMore, Zenon
  <2>. QED
    BY <2>1, <2>4 DEF Additions
<1>3. CASE AssignOthers
  <2>1. /\ agenda # <<>> /\ agenda[1].fn = "assign others"
        /\ UNCHANGED <<constraints_w, external, readonly, asserted, enabled, env, raised>>
    BY <1>3, AssignOthersLeaves, CallIs, Zenon
  <2>2. Adds({}) \/ Adds({"begin_assign", "solve", "assign others"})
    BY <1>3, AssignOthersLeaves, AddsFew, Zenon
  <2>3. /\ {} \subseteq Additions
        /\ {"begin_assign", "solve", "assign others"} \subseteq Additions
    BY DEF Additions
  <2>4. Adds(Additions)
    BY <2>2, <2>3, AddsMore, Zenon
  <2>. QED
    BY <2>1, <2>4 DEF Additions
<1>4. CASE GetI
  <2>1. /\ agenda # <<>> /\ agenda[1].fn = "get_i"
        /\ UNCHANGED <<constraints_w, external, readonly, asserted, enabled, env, raised>>
    BY <1>4, GetILeaves, CallIs, Zenon
  <2>2. Adds({}) \/ Adds({"update_downstream_variables"})
    BY <1>4, GetILeaves, AddsFew, Zenon
  <2>3. {} \subseteq Additions /\ {"update_downstream_variables"} \subseteq Additions
    BY DEF Additions
  <2>4. Adds(Additions)
    BY <2>2, <2>3, AddsMore, Zenon
  <2>. QED
    BY <2>1, <2>4 DEF Additions
<1>5. CASE UpdateDownstreamVariables
  <2>1. /\ agenda # <<>> /\ agenda[1].fn = "update_downstream_variables"
        /\ UNCHANGED <<constraints_w, external, readonly, asserted, enabled, env, raised>>
    BY <1>5, UpdateDownstreamVariablesLeaves, CallIs, Zenon
  <2>2. \/ Adds({"make_not_assignable"})
      \/ Adds({"begin_assign", "solve", "end_assign", "update_downstream_variables"})
    BY <1>5, UpdateDownstreamVariablesLeaves, AddsFew, Zenon
  <2>3. /\ {"make_not_assignable"} \subseteq Additions
        /\ {"begin_assign", "solve", "end_assign", "update_downstream_variables"} \subseteq Additions
    BY DEF Additions
  <2>4. Adds(Additions)
    BY <2>2, <2>3, AddsMore, Zenon
  <2>. QED
    BY <2>1, <2>4 DEF Additions
<1>6. CASE EndAssignVariable
  <2>1. /\ agenda # <<>> /\ agenda[1].fn = "__end_assign__"
        /\ UNCHANGED <<constraints_w, external, readonly, asserted, enabled, env, raised>>
    BY <1>6, EndAssignVariableLeaves, CallIs, Zenon
  <2>2. Adds({"make_not_assignable"}) \/ Adds({"end_assign", "__end_assign__"})
    BY <1>6, EndAssignVariableLeaves, AddsFew, Zenon
  <2>3. /\ {"make_not_assignable"} \subseteq Additions
        /\ {"end_assign", "__end_assign__"} \subseteq Additions
    BY DEF Additions
  <2>4. Adds(Additions)
    BY <2>2, <2>3, AddsMore, Zenon
  <2>. QED
    BY <2>1, <2>4 DEF Additions
<1>7. CASE MakeNotAssignable
  <2>1. /\ agenda # <<>> /\ agenda[1].fn = "make_not_assignable"
        /\ UNCHANGED <<constraints_w, external, readonly, asserted, enabled, env, raised>>
    BY <1>7, MakeNotAssignableLeaves, CallIs, Zenon
  <2>2. Adds({"recalculate_path"})
    BY <1>7, MakeNotAssignableLeaves, AddsFew, Zenon
  <2>3. {"recalculate_path"} \subseteq Additions
    BY DEF Additions
  <2>4. Adds(Additions)
    BY <2>2, <2>3, AddsMore, Zenon
  <2>. QED
    BY <2>1, <2>4 DEF Additions
<1>8. CASE RecalculatePath
  <2>1. /\ agenda # <<>> /\ agenda[1].fn = "recalculate_path"
        /\ UNCHANGED <<constraints_w, external, readonly, asserted, enabled, env, raised>>
    BY <1>8, RecalculatePathLeaves, CallIs, Zenon
  <2>2. Adds({}) \/ Adds({"recalculate", "recalculate_path"})
    BY <1>8, RecalculatePathLeaves, AddsFew, Zenon
  <2>3. /\ {} \subseteq Additions
        /\ {"recalculate", "recalculate_path"} \subseteq Additions
    BY DEF Additions
  <2>4. Adds(Additions)
    BY <2>2, <2>3, AddsMore, Zenon
  <2>. QED
    BY <2>1, <2>4 DEF Additions
<1>. QED
  BY <1>1, <1>2, <1>3, <1>4, <1>5, <1>6, <1>7, <1>8

-----------------------------------------------------------------------------
(* A solver holds the enabled constraints once each.  Between `enable' and *)
(* the flag it sets last, the primitive of a constraint is there already;  *)
(* an `enable' is pending only for a constraint that is not enabled, and   *)
(* nothing is pending in front of it.                                      *)
EnablesRunNext == \A call \in Behind : call.fn # "enable"
FlagIsDown == \A call \in Pending : call.fn \in {"enable", "set_enabled"} => ~enabled[call.arg]
Held(c) == enabled[c] \/ Call("set_enabled", c) \in Pending
HeldOnce ==
  ~raised => \A c \in Cons : \A e \in Envs(c) :
    asserted[c][e] = IF Held(c) /\ e = env[c] /\ ~IsBoolean(c, e) THEN 1 ELSE 0
OnceInv == EnablesRunNext /\ FlagIsDown /\ HeldOnce

LEMMA BehindNext == Behind' \subseteq Pending'
  BY DEF Behind, Pending, CallsIn

(* Most calls leave the constraints alone.                                 *)
LEMMA OnceFrame ==
  ASSUME Inv, OnceInv, agenda # <<>>, agenda[1].fn \notin {"enable", "set_enabled"},
         NEW fns, fns \cap {"enable", "set_enabled"} = {}, Adds(fns),
         UNCHANGED <<asserted, enabled, env, raised>>
  PROVE  OnceInv'
<1>1. Pending = {agenda[1]} \cup Behind
  BY PendingNow, Zenon
<1>2. \A call : call.fn \in {"enable", "set_enabled"} =>
        (call \in Pending' <=> call \in Pending)
  BY <1>1 DEF Adds
<1>3. EnablesRunNext'
  <2>1. \A call \in Pending' : call.fn # "enable"
    BY DEF Adds, OnceInv, EnablesRunNext
  <2>. QED
    BY <2>1, BehindNext DEF EnablesRunNext
<1>4. FlagIsDown'
  BY <1>2 DEF OnceInv, FlagIsDown
<1>5. \A c \in Cons : Held(c)' <=> Held(c)
  <2>1. \A c \in Cons : Call("set_enabled", c) \in Pending' <=> Call("set_enabled", c) \in Pending
    BY <1>2, CallIs
  <2>. QED
    BY <2>1 DEF Held
<1>6. HeldOnce'
  BY <1>5 DEF OnceInv, HeldOnce
<1>. QED
  BY <1>3, <1>4, <1>6 DEF OnceInv

(* A raise drops whatever is pending.                                      *)
LEMMA NonePending == agenda' = <<>> => Pending' = {} /\ Behind' = {}
  BY DEF Pending, Behind, CallsIn

LEMMA OnceRaise ==
  ASSUME agenda' = <<>>, raised' = TRUE
  PROVE  OnceInv'
  BY NonePending DEF OnceInv, EnablesRunNext, FlagIsDown, HeldOnce

LEMMA OnceVariableCalls ==
  ASSUME Inv, OnceInv,
         \/ BeginAssignVariable \/ AssignVariable \/ AssignOthers
         \/ GetI \/ UpdateDownstreamVariables
         \/ EndAssignVariable \/ MakeNotAssignable \/ RecalculatePath
  PROVE  OnceInv'
<1>1. /\ agenda # <<>> /\ agenda[1].fn \in Additions \cup {"__begin_assign__", "__assign__"}
      /\ UNCHANGED <<asserted, enabled, env, raised>>
      /\ Adds(Additions)
  BY VariableCallsAdd
<1>2. /\ agenda[1].fn \notin {"enable", "set_enabled"}
      /\ Additions \cap {"enable", "set_enabled"} = {}
  BY <1>1 DEF Additions
<1>. QED
  BY <1>1, <1>2, OnceFrame

(* The calls on a solver.                                                  *)
LEMMA OnceSolverCalls ==
  ASSUME Inv, OnceInv, BeginAssign \/ Solve \/ EndAssign
  PROVE  OnceInv'
<1>. USE DEF solverState, varState
<1>1. ASSUME agenda # <<>>, agenda[1].fn \notin {"enable", "set_enabled"},
             agenda' = Tail(agenda), UNCHANGED <<asserted, enabled, env, raised>>
      PROVE  OnceInv'
  <2>1. Adds({})
    BY <1>1, PendingFew, AddsFew
  <2>. QED
    BY <1>1, <2>1, OnceFrame
<1>2. CASE BeginAssign
  <2>1. /\ agenda # <<>> /\ agenda[1].fn = "begin_assign" /\ agenda' = Tail(agenda)
        /\ UNCHANGED <<asserted, enabled, env, raised>>
    BY <1>2, BeginAssignDoes, CallIs, Zenon
  <2>. QED
    BY <1>1, <2>1
<1>3. CASE Solve
  <2>1. /\ agenda # <<>> /\ agenda[1].fn = "solve"
        /\ UNCHANGED <<asserted, enabled, env>>
        /\ (agenda' = Tail(agenda) /\ UNCHANGED raised) \/ (agenda' = <<>> /\ raised' = TRUE)
    BY <1>3, SolveDoes, CallIs, Zenon
  <2>. QED
    BY <1>1, <2>1, OnceRaise
<1>4. CASE EndAssign
  <2>1. /\ agenda # <<>> /\ agenda[1].fn = "end_assign"
        /\ UNCHANGED <<asserted, enabled, env>>
        /\ (agenda' = Tail(agenda) /\ UNCHANGED raised) \/ (agenda' = <<>> /\ raised' = TRUE)
    BY <1>4, EndAssignDoes, CallIs, Zenon
  <2>. QED
    BY <1>1, <2>1, OnceRaise
<1>. QED
  BY <1>2, <1>3, <1>4

(* Withdrawing an enabled constraint leaves nothing of it.                 *)
LEMMA RetractsAll ==
  ASSUME Inv, OnceInv, NEW c \in Cons, enabled[c], Retract(c), ~raised
  PROVE  /\ \A e \in Envs(c) : asserted'[c][e] = 0
         /\ \A d \in Cons : d # c => asserted'[d] = asserted[d]
<1>1. /\ DOMAIN asserted = Cons /\ asserted[c] \in [Envs(c) -> Nat]
      /\ HasPrimitive(c) /\ env[c] \in Envs(c)
  BY PrimitiveKept DEF Inv, TypeOK, RunBlocks
<1>2. \A e \in Envs(c) : asserted[c][e] = IF e = env[c] /\ ~IsBoolean(c, e) THEN 1 ELSE 0
  BY DEF OnceInv, HeldOnce, Held
<1>3. asserted' = [asserted EXCEPT ![c] = [asserted[c] EXCEPT ![env[c]] =
        IF asserted[c][env[c]] > 0 /\ ~IsBoolean(c, env[c])
        THEN asserted[c][env[c]] - 1 ELSE asserted[c][env[c]]]]
  BY <1>1 DEF Retract
<1>. QED
  BY <1>1, <1>2, <1>3

(* One call in front of the rest.                                          *)
LEMMA BehindOne ==
  ASSUME Inv, agenda # <<>>, NEW a \in Calls, agenda' = <<a>> \o Tail(agenda)
  PROVE  Behind' = Behind
<1>1. Tail(agenda) \in Seq(Calls) /\ Behind = CallsIn(Tail(agenda))
  BY PendingNow
<1>2. <<a>> \in Seq(Calls) /\ agenda' \in Seq(Calls) /\ agenda' # <<>>
      /\ Tail(agenda') = Tail(agenda)
  BY <1>1
<1>. DEFINE q == agenda'
<1>3. CallsIn(Tail(q)) = {q[i] : i \in DOMAIN q \ {1}}
  <2>. HIDE DEF q
  <2>1. q \in Seq(Calls) /\ q # <<>>
    BY <1>2 DEF q
  <2>. QED
    BY <2>1, TailCalls
<1>. QED
  BY <1>1, <1>2, <1>3 DEF Behind

LEMMA OnceRecalculate ==
  ASSUME Inv, OnceInv, Recalculate
  PROVE  OnceInv'
<1>. USE DEF varState
<1>1. PICK c \in Cons :
        /\ agenda # <<>> /\ agenda[1] = Call("recalculate", c)
        /\ \/ /\ enabled[c] /\ Retract(c) /\ RunPredicate(c)
              /\ enabled' = [enabled EXCEPT ![c] = FALSE]
              /\ agenda' = <<Call("enable", c)>> \o Tail(agenda)
              /\ Pending' = {Call("enable", c)} \cup Behind
           \/ /\ ~enabled[c] /\ Pending' = Behind
              /\ UNCHANGED <<varState, enabled, env, asserted, pin, w_value>>
        /\ UNCHANGED <<stored, proposal, leaked, model, raised, focus>>
  BY RecalculateLeaves, Zenon
<1>2. Pending = {agenda[1]} \cup Behind /\ agenda[1].fn = "recalculate"
  BY <1>1, PendingNow, CallIs, Zenon
<1>3. CASE ~enabled[c]
  <2>1. Adds({})
    BY <1>1, <1>3, AddsFew
  <2>. QED
    BY <1>1, <1>2, <1>3, <2>1, OnceFrame
<1>4. CASE enabled[c]
  <2>1. /\ Retract(c) /\ env' = [env EXCEPT ![c] = Snapshot(c)]
        /\ enabled' = [enabled EXCEPT ![c] = FALSE]
        /\ agenda' = <<Call("enable", c)>> \o Tail(agenda)
        /\ Pending' = {Call("enable", c)} \cup Behind
    BY <1>1, <1>4 DEF RunPredicate
  <2>2. /\ DOMAIN env = Cons /\ enabled \in [Cons -> BOOLEAN]
        /\ \A call \in Behind : call \in Calls
    BY <1>1, PendingNow, BehindPending DEF Inv, TypeOK
  <2>3. \A call \in Behind : call.fn # "enable"
    BY DEF OnceInv, EnablesRunNext
  <2>4. Behind' = Behind
    BY <1>1, <2>1, BehindOne, CallTypes
  <2>5. EnablesRunNext'
    BY <2>3, <2>4 DEF EnablesRunNext
  <2>6. \A call \in Behind : call.fn = "set_enabled" => ~enabled[call.arg] /\ call.arg \in Cons
    BY <1>2, <2>2 DEF OnceInv, FlagIsDown, Calls
  <2>7. FlagIsDown'
    <3>1. ~enabled'[c] /\ \A d \in Cons : enabled'[d] => enabled[d]
      BY <2>1, <2>2
    <3>2. Call("enable", c).arg = c
      BY CallIs
    <3>. QED
      BY <2>1, <2>3, <2>6, <3>1, <3>2 DEF FlagIsDown
  <2>8. \A d \in Cons : Held(d)' <=> d # c /\ Held(d)
    <3>1. \A d \in Cons : Call("set_enabled", d) \in Pending' <=> Call("set_enabled", d) \in Pending
      BY <1>2, <2>1, CallIs
    <3>2. Call("set_enabled", c) \notin Pending
      BY <1>2, <1>4, CallIs DEF OnceInv, FlagIsDown
    <3>. QED
      BY <2>1, <2>2, <3>1, <3>2 DEF Held
  <2>9. HeldOnce'
    <3>. SUFFICES ASSUME ~raised', NEW d \in Cons, NEW e \in Envs(d)
                  PROVE  asserted'[d][e] =
                           IF Held(d)' /\ e = env'[d] /\ ~IsBoolean(d, e) THEN 1 ELSE 0
      BY DEF HeldOnce
    <3>1. ~raised
      BY <1>1
    <3>2. CASE d = c
      BY <1>4, <2>1, <2>8, <3>1, <3>2, RetractsAll
    <3>3. CASE d # c
      <4>1. asserted'[d] = asserted[d] /\ env'[d] = env[d]
        BY <1>4, <2>1, <2>2, <3>1, <3>3, RetractsAll
      <4>. QED
        BY <2>8, <3>1, <3>3, <4>1 DEF OnceInv, HeldOnce
    <3>. QED
      BY <3>2, <3>3
  <2>. QED
    BY <2>5, <2>7, <2>9 DEF OnceInv
<1>. QED
  BY <1>3, <1>4

LEMMA OnceEnableConstraint ==
  ASSUME Inv, OnceInv, EnableConstraint
  PROVE  OnceInv'
<1>. USE DEF varState
<1>1. PICK c \in Cons :
        /\ agenda # <<>> /\ agenda[1] = Call("enable", c)
        /\ \/ enabled[c] /\ Pending' = Behind /\ UNCHANGED <<asserted, raised, focus>>
           \/ /\ raised /\ ~enabled[c] /\ ~HasPrimitive(c)
              /\ Pending' = {Call("set_enabled", c)} \cup Behind
              /\ UNCHANGED <<asserted, raised, focus>>
           \/ /\ ~enabled[c] /\ IsBoolean(c, env[c]) /\ Holds(c, Fill(env[c]))
              /\ Pending' = {Call("set_enabled", c)} \cup Behind
              /\ UNCHANGED <<asserted, raised, focus>>
           \/ /\ ~enabled[c] /\ IsBoolean(c, env[c])
              /\ agenda' = <<>> /\ raised' = TRUE /\ UNCHANGED <<asserted, focus>>
           \/ /\ ~enabled[c] /\ ~IsBoolean(c, env[c])
              /\ asserted' = [asserted EXCEPT ![c][env[c]] = @ + 1]
              /\ Pending' = {Call("solve", SolverOf[c]), Call("set_enabled", c)} \cup Behind
              /\ UNCHANGED <<raised, focus>>
        /\ env[c] # NoEnv
        /\ UNCHANGED <<varState, enabled, env, proposal, leaked, pin, model, w_value>>
  BY EnableConstraintLeaves, Zenon
<1>2. /\ Pending = {agenda[1]} \cup Behind /\ agenda[1].fn = "enable" /\ agenda[1].arg = c
      /\ ~enabled[c]
  <2>1. Pending = {agenda[1]} \cup Behind /\ agenda[1].fn = "enable" /\ agenda[1].arg = c
    <3>1. agenda # <<>> /\ agenda[1] = Call("enable", c)
      BY <1>1
    <3>. QED
      BY <3>1, PendingNow, CallIs
  <2>. QED
    BY <2>1 DEF OnceInv, FlagIsDown
<1>3. \A call \in Pending : call.fn # "set_enabled"
  BY <1>2 DEF Inv, EnablingSoon, Pending, CallsIn
<1>4. /\ DOMAIN asserted = Cons /\ asserted[c] \in [Envs(c) -> Nat]
      /\ ~raised => env[c] \in Envs(c)
  BY <1>1, PrimitiveKept DEF Inv, TypeOK
<1>5. ASSUME NEW new, \A call \in new : call.fn = "solve" \/ call = Call("set_enabled", c),
             Call("set_enabled", c) \in new, Pending' = new \cup Behind, UNCHANGED raised,
             \A d \in Cons : d # c => asserted'[d] = asserted[d],
             ~raised => \A e \in Envs(c) :
               asserted'[c][e] = IF e = env[c] /\ ~IsBoolean(c, e) THEN 1 ELSE 0
      PROVE  OnceInv'
  <2>1. \A call \in new : call.fn # "enable"
    BY <1>5, CallIs
  <2>2. EnablesRunNext'
    BY <1>5, <2>1, BehindNext DEF OnceInv, EnablesRunNext
  <2>3. \A call \in Pending' : call.fn \in {"enable", "set_enabled"} =>
          call = Call("set_enabled", c)
    BY <1>2, <1>3, <1>5 DEF OnceInv, EnablesRunNext
  <2>4. FlagIsDown'
    BY <1>1, <1>2, <2>3, CallIs DEF FlagIsDown
  <2>5. \A d \in Cons : Held(d)' <=> d = c \/ Held(d)
    <3>1. \A d \in Cons : Call("set_enabled", d) \in Pending' <=> d = c
      BY <1>5, <2>3, CallIs
    <3>2. \A d \in Cons : Call("set_enabled", d) \notin Pending
      BY <1>3, CallIs
    <3>. QED
      BY <1>1, <3>1, <3>2 DEF Held
  <2>6. HeldOnce'
    BY <1>1, <1>5, <2>5 DEF OnceInv, HeldOnce
  <2>. QED
    BY <2>2, <2>4, <2>6 DEF OnceInv
<1>6. ~raised => \A e \in Envs(c) : asserted[c][e] = 0
  <2>1. ~Held(c)
    BY <1>2, <1>3, CallIs DEF Held
  <2>. QED
    BY <2>1 DEF OnceInv, HeldOnce
<1>7. CASE /\ raised \/ IsBoolean(c, env[c])
           /\ UNCHANGED <<asserted, raised>>
           /\ Pending' = {Call("set_enabled", c)} \cup Behind
  <2>. DEFINE new == {Call("set_enabled", c)}
  <2>1. ~raised => \A e \in Envs(c) :
          asserted'[c][e] = IF e = env[c] /\ ~IsBoolean(c, e) THEN 1 ELSE 0
    BY <1>6, <1>7
  <2>2. /\ \A call \in new : call.fn = "solve" \/ call = Call("set_enabled", c)
        /\ Call("set_enabled", c) \in new /\ Pending' = new \cup Behind
        /\ UNCHANGED raised /\ \A d \in Cons : d # c => asserted'[d] = asserted[d]
    BY <1>7
  <2>. HIDE DEF new
  <2>. QED
    BY <1>5, <2>1, <2>2
<1>8. CASE /\ ~IsBoolean(c, env[c]) /\ UNCHANGED raised
           /\ asserted' = [asserted EXCEPT ![c][env[c]] = @ + 1]
           /\ Pending' = {Call("solve", SolverOf[c]), Call("set_enabled", c)} \cup Behind
  <2>. DEFINE new == {Call("solve", SolverOf[c]), Call("set_enabled", c)}
  <2>1. ~raised => \A e \in Envs(c) :
          asserted'[c][e] = IF e = env[c] /\ ~IsBoolean(c, e) THEN 1 ELSE 0
    BY <1>4, <1>6, <1>8
  <2>2. /\ \A call \in new : call.fn = "solve" \/ call = Call("set_enabled", c)
        /\ Call("set_enabled", c) \in new /\ Pending' = new \cup Behind /\ UNCHANGED raised
    BY <1>8, CallIs
  <2>3. \A d \in Cons : d # c => asserted'[d] = asserted[d]
    BY <1>4, <1>8
  <2>. HIDE DEF new
  <2>. QED
    BY <1>5, <2>1, <2>2, <2>3
<1>. QED
  BY <1>1, <1>2, <1>7, <1>8, OnceRaise

LEMMA OnceSetEnabled ==
  ASSUME Inv, OnceInv, SetEnabled
  PROVE  OnceInv'
<1>. USE DEF varState, solverState
<1>1. PICK c \in Cons :
        /\ agenda # <<>> /\ agenda[1] = Call("set_enabled", c)
        /\ enabled' = [enabled EXCEPT ![c] = TRUE] /\ agenda' = Tail(agenda)
        /\ UNCHANGED <<varState, env, solverState, raised, focus>>
  BY SetEnabledDoes, Zenon
<1>2. /\ Pending = {agenda[1]} \cup Behind /\ agenda[1].fn = "set_enabled"
      /\ agenda[1] \in Pending /\ Pending' = Behind
  BY <1>1, PendingNow, PendingRest, CallIs, Zenon
<1>3. \A call \in Behind : call.fn # "set_enabled" /\ call.fn # "enable"
  BY <1>2 DEF Inv, EnablingSoon, Behind, OnceInv, EnablesRunNext
<1>4. EnablesRunNext' /\ FlagIsDown'
  BY <1>2, <1>3, BehindNext DEF EnablesRunNext, FlagIsDown
<1>5. \A d \in Cons : Held(d)' <=> Held(d)
  <2>1. \A d \in Cons : Call("set_enabled", d) \in Pending <=> d = c
    BY <1>1, <1>2, <1>3, CallIs
  <2>2. \A d \in Cons : Call("set_enabled", d) \notin Pending'
    BY <1>2, <1>3, CallIs
  <2>3. enabled \in [Cons -> BOOLEAN]
    BY DEF Inv, TypeOK
  <2>. QED
    BY <1>1, <2>1, <2>2, <2>3 DEF Held
<1>6. HeldOnce'
  BY <1>1, <1>5 DEF OnceInv, HeldOnce
<1>. QED
  BY <1>4, <1>6 DEF OnceInv

(* What the program starts.                                                *)
Started(x) == IF IsConstrained(x) THEN {Call("__assign__", x), Call("__end_assign__", <<x, 1>>)}
                                  ELSE {}

LEMMA StartsOne == \A call : agenda' = <<call>> => Pending' = {call} /\ Behind' = {}
<1>. SUFFICES ASSUME NEW call, agenda' = <<call>>
              PROVE  Pending' = {call} /\ Behind' = {}
  OBVIOUS
<1>1. CallsIn(<<call>>) = {call} /\ CallsIn(agenda') = CallsIn(<<call>>)
  BY ShortCalls
<1>2. Pending' = CallsIn(agenda')
  BY DEF Pending, CallsIn
<1>3. DOMAIN agenda' \ {1} = {}
  OBVIOUS
<1>. QED
  BY <1>1, <1>2, <1>3 DEF Behind

LEMMA StartTyped ==
  ASSUME NEW x \in Vars, NEW a \in Calls
  PROVE  /\ IfConstrained(x, a) \in Seq(Calls)
         /\ CallsIn(IfConstrained(x, a)) = IF IsConstrained(x) THEN {a} ELSE {}
  BY ShortSeqs, ShortCalls DEF IfConstrained

LEMMA AssignStarts ==
  ASSUME NEW x \in Vars, NEW v \in Values, Assign(x, v)
  PROVE  Pending' = {Call("__begin_assign__", <<x, v>>)} \cup Started(x)
<1>. DEFINE b == Call("__begin_assign__", <<x, v>>)
            a == Call("__assign__", x)
            e == Call("__end_assign__", <<x, 1>>)
            p == <<b>>
            q == IfConstrained(x, a)
            r == IfConstrained(x, e)
<1>1. b \in Calls /\ a \in Calls /\ e \in Calls
  BY CallTypes
<1>2. agenda' = (p \o q) \o r
  BY DEF Assign
<1>3. /\ p \in Seq(Calls) /\ q \in Seq(Calls) /\ r \in Seq(Calls)
      /\ CallsIn(p) = {b} /\ CallsIn(q) = (IF IsConstrained(x) THEN {a} ELSE {})
      /\ CallsIn(r) = (IF IsConstrained(x) THEN {e} ELSE {})
  BY <1>1, StartTyped, ShortSeqs, ShortCalls
<1>4. Started(x) = IF IsConstrained(x) THEN {a, e} ELSE {}
  BY DEF Started
<1>. HIDE DEF p, q, r, a, b, e
<1>. DEFINE pq == p \o q
<1>5. pq \in Seq(Calls) /\ CallsIn(pq) = CallsIn(p) \cup CallsIn(q)
  BY <1>3, JoinedCalls
<1>. HIDE DEF pq
<1>6. CallsIn(pq \o r) = CallsIn(pq) \cup CallsIn(r)
  BY <1>3, <1>5, JoinedCalls
<1>7. Pending' = CallsIn(pq \o r)
  BY <1>2 DEF Pending, CallsIn, pq
<1>8. Pending' = {b} \cup Started(x)
  BY <1>3, <1>4, <1>5, <1>6, <1>7
<1>. QED
  BY <1>8 DEF b

LEMMA MultiAssignStarts ==
  ASSUME NEW x \in Vars, NEW y \in Vars, NEW v \in Values, NEW w \in Values,
         MultiAssign(x, v, y, w)
  PROVE  Pending' = {Call("__begin_assign__", <<x, v>>), Call("__begin_assign__", <<y, w>>)}
                      \cup Started(x) \cup Started(y)
<1>. DEFINE b == Call("__begin_assign__", <<x, v>>)
            d == Call("__begin_assign__", <<y, w>>)
            p == <<b, d>>
            ax == IfConstrained(x, Call("__assign__", x))
            ay == IfConstrained(y, Call("__assign__", y))
            ex == IfConstrained(x, Call("__end_assign__", <<x, 1>>))
            ey == IfConstrained(y, Call("__end_assign__", <<y, 1>>))
<1>1. /\ b \in Calls /\ d \in Calls
      /\ \A z \in Vars : Call("__assign__", z) \in Calls /\ Call("__end_assign__", <<z, 1>>) \in Calls
  BY CallTypes
<1>2. agenda' = (((p \o ax) \o ay) \o ex) \o ey
  BY DEF MultiAssign
<1>3. p \in Seq(Calls) /\ CallsIn(p) = {b, d}
  BY <1>1, ShortSeqs, ShortCalls
<1>4. /\ ax \in Seq(Calls) /\ ay \in Seq(Calls) /\ ex \in Seq(Calls) /\ ey \in Seq(Calls)
      /\ CallsIn(ax) \cup CallsIn(ex) = Started(x)
      /\ CallsIn(ay) \cup CallsIn(ey) = Started(y)
  BY <1>1, StartTyped DEF Started
<1>. HIDE DEF p, ax, ay, ex, ey, b, d
<1>. DEFINE p1 == p \o ax
<1>5. p1 \in Seq(Calls) /\ CallsIn(p1) = CallsIn(p) \cup CallsIn(ax)
  BY <1>3, <1>4, JoinedCalls
<1>. HIDE DEF p1
<1>. DEFINE p2 == p1 \o ay
<1>6. p2 \in Seq(Calls) /\ CallsIn(p2) = CallsIn(p1) \cup CallsIn(ay)
  BY <1>4, <1>5, JoinedCalls
<1>. HIDE DEF p2
<1>. DEFINE p3 == p2 \o ex
<1>7. p3 \in Seq(Calls) /\ CallsIn(p3) = CallsIn(p2) \cup CallsIn(ex)
  BY <1>4, <1>6, JoinedCalls
<1>. HIDE DEF p3
<1>8. CallsIn(p3 \o ey) = CallsIn(p3) \cup CallsIn(ey)
  BY <1>4, <1>7, JoinedCalls
<1>9. Pending' = CallsIn(p3 \o ey)
  BY <1>2 DEF Pending, CallsIn, p1, p2, p3
<1>10. Pending' = {b, d} \cup Started(x) \cup Started(y)
  BY <1>3, <1>4, <1>5, <1>6, <1>7, <1>8, <1>9
<1>. QED
  BY <1>10 DEF b, d

LEMMA StartFns ==
  \A x, call : call \in Started(x) => call.fn \in {"__assign__", "__end_assign__"}
  BY CallIs DEF Started

LEMMA OnceProgram ==
  ASSUME Inv, OnceInv, UserStep
  PROVE  OnceInv'
<1>. USE DEF varState, solverState
<1>1. agenda = <<>>
  BY ProgramIdle
<1>2. Pending = {}
  BY <1>1 DEF Pending, CallsIn
<1>3. ~raised => \A c \in Cons : \A e \in Envs(c) :
        asserted[c][e] = IF enabled[c] /\ e = env[c] /\ ~IsBoolean(c, e) THEN 1 ELSE 0
  BY <1>2 DEF OnceInv, HeldOnce, Held
<1>4. /\ DOMAIN env = Cons /\ enabled \in [Cons -> BOOLEAN]
      /\ \A c \in Cons : enabled[c] => env[c] # NoEnv
  BY DEF Inv, TypeOK, RunBlocks
(* An `enable' for a constraint of which nothing is in a solver.           *)
<1>5. ASSUME NEW c \in Cons, agenda' = <<Call("enable", c)>>, UNCHANGED raised, ~enabled'[c],
             \A d \in Cons : d # c => /\ enabled'[d] = enabled[d] /\ env'[d] = env[d]
                                      /\ asserted'[d] = asserted[d],
             ~raised => \A e \in Envs(c) : asserted'[c][e] = 0
      PROVE  OnceInv'
  <2>1. Pending' = {Call("enable", c)} /\ Behind' = {}
    BY <1>5, StartsOne
  <2>2. EnablesRunNext' /\ FlagIsDown'
    BY <1>5, <2>1, CallIs DEF EnablesRunNext, FlagIsDown
  <2>3. \A d \in Cons : Held(d)' <=> enabled'[d]
    BY <2>1, CallIs DEF Held
  <2>4. HeldOnce'
    <3>. SUFFICES ASSUME ~raised', NEW d \in Cons, NEW e \in Envs(d)
                  PROVE  asserted'[d][e] =
                           IF Held(d)' /\ e = env'[d] /\ ~IsBoolean(d, e) THEN 1 ELSE 0
      BY DEF HeldOnce
    <3>1. CASE d = c
      BY <1>5, <2>3, <3>1
    <3>2. CASE d # c
      BY <1>3, <1>5, <2>3, <3>2
    <3>. QED
      BY <3>1, <3>2
  <2>. QED
    BY <2>2, <2>4 DEF OnceInv
<1>6. ASSUME UNCHANGED <<asserted, enabled, env, raised>>,
             \A call \in Pending' : call.fn \notin {"enable", "set_enabled"}
      PROVE  OnceInv'
  <2>1. EnablesRunNext' /\ FlagIsDown'
    BY <1>6, BehindNext DEF EnablesRunNext, FlagIsDown
  <2>2. \A d \in Cons : Held(d)' <=> enabled[d]
    BY <1>6, CallIs DEF Held
  <2>3. HeldOnce'
    BY <1>3, <1>6, <2>2 DEF HeldOnce
  <2>. QED
    BY <2>1, <2>3 DEF OnceInv
<1>7. ASSUME NEW c \in Cons, Always(c)
      PROVE  OnceInv'
  <2>1. /\ agenda' = <<Call("enable", c)>> /\ env' = [env EXCEPT ![c] = Snapshot(c)]
        /\ UNCHANGED <<enabled, asserted, raised>> /\ env[c] = NoEnv
    BY <1>7 DEF Always, IsNew, RunPredicate
  <2>2. ~enabled[c]
    BY <1>4, <2>1
  <2>. QED
    BY <1>3, <1>4, <1>5, <2>1, <2>2
<1>8. ASSUME NEW c \in Cons, Enable(c)
      PROVE  OnceInv'
  <2>1. /\ agenda' = <<Call("enable", c)>> /\ ~enabled[c]
        /\ UNCHANGED <<enabled, env, asserted, raised>>
    BY <1>8 DEF Enable
  <2>. QED
    BY <1>3, <1>5, <2>1
<1>9. ASSUME NEW c \in Cons, Disable(c)
      PROVE  OnceInv'
  <2>1. /\ agenda' = <<>> /\ enabled' = [enabled EXCEPT ![c] = FALSE] /\ enabled[c]
        /\ Retract(c) /\ UNCHANGED <<env, raised>>
    BY <1>1, <1>9 DEF Disable
  <2>2. Pending' = {} /\ Behind' = {}
    BY <2>1, NonePending
  <2>3. \A d \in Cons : Held(d)' <=> d # c /\ enabled[d]
    BY <1>4, <2>1, <2>2 DEF Held
  <2>4. HeldOnce'
    <3>. SUFFICES ASSUME ~raised', NEW d \in Cons, NEW e \in Envs(d)
                  PROVE  asserted'[d][e] =
                           IF Held(d)' /\ e = env'[d] /\ ~IsBoolean(d, e) THEN 1 ELSE 0
      BY DEF HeldOnce
    <3>1. /\ ~raised /\ env' = env /\ \A f \in Envs(c) : asserted'[c][f] = 0
          /\ \A f \in Cons : f # c => asserted'[f] = asserted[f]
      BY <2>1, RetractsAll
    <3>. QED
      BY <1>3, <2>3, <3>1
  <2>. QED
    BY <2>2, <2>4 DEF OnceInv, EnablesRunNext, FlagIsDown
<1>10. ASSUME NEW c \in Cons, SetStrength(c)
       PROVE  OnceInv'
  <2>1. /\ agenda' = <<Call("enable", c)>> /\ enabled' = [enabled EXCEPT ![c] = FALSE]
        /\ enabled[c] /\ Retract(c) /\ UNCHANGED <<env, raised>>
    BY <1>10 DEF SetStrength
  <2>2. ~raised => /\ \A e \in Envs(c) : asserted'[c][e] = 0
                   /\ \A d \in Cons : d # c => asserted'[d] = asserted[d]
    BY <2>1, RetractsAll
  <2>3. /\ DOMAIN asserted' = Cons
        /\ \A d \in Cons : d # c => asserted'[d] = asserted[d]
    BY <2>1, RetractKeeps DEF Inv, RunBlocks
  <2>4. ~enabled'[c] /\ \A d \in Cons : d # c => enabled'[d] = enabled[d] /\ env'[d] = env[d]
    BY <1>4, <2>1
  <2>. QED
    BY <1>5, <2>1, <2>2, <2>3, <2>4
<1>11. ASSUME NEW x \in Vars, Read(x)
       PROVE  OnceInv'
  <2>1. agenda' = <<Call("get_i", x)>> /\ UNCHANGED <<asserted, enabled, env, raised>>
    BY <1>11 DEF Read
  <2>2. \A call \in Pending' : call.fn \notin {"enable", "set_enabled"}
    BY <2>1, StartsOne, CallIs
  <2>. QED
    BY <1>6, <2>1, <2>2
<1>12. ASSUME NEW x \in Vars, NEW v \in Values, Assign(x, v)
       PROVE  OnceInv'
  <2>1. UNCHANGED <<asserted, enabled, env, raised>>
    BY <1>12 DEF Assign
  <2>2. \A call \in Pending' : call.fn \notin {"enable", "set_enabled"}
    <3>1. \A call \in Pending' : call = Call("__begin_assign__", <<x, v>>) \/ call \in Started(x)
      BY <1>12, AssignStarts
    <3>. QED
      BY <3>1, StartFns, CallIs
  <2>. QED
    BY <1>6, <2>1, <2>2
<1>13. ASSUME NEW x \in Vars, NEW y \in Vars, NEW v \in Values, NEW w \in Values,
              MultiAssign(x, v, y, w)
       PROVE  OnceInv'
  <2>1. UNCHANGED <<asserted, enabled, env, raised>>
    BY <1>13 DEF MultiAssign
  <2>2. \A call \in Pending' : call.fn \notin {"enable", "set_enabled"}
    <3>1. \A call \in Pending' :
            \/ call = Call("__begin_assign__", <<x, v>>) \/ call \in Started(x)
            \/ call = Call("__begin_assign__", <<y, w>>) \/ call \in Started(y)
      BY <1>13, MultiAssignStarts
    <3>. QED
      BY <3>1, StartFns, CallIs
  <2>. QED
    BY <1>6, <2>1, <2>2
<1>14. ASSUME NEW c \in Cons, AlwaysRaises(c)
       PROVE  OnceInv'
  BY <1>14, OnceRaise DEF AlwaysRaises
<1>. QED
  BY <1>7, <1>8, <1>9, <1>10, <1>11, <1>12, <1>13, <1>14 DEF UserStep

LEMMA InitOnce == Init => OnceInv
<1>. SUFFICES ASSUME Init PROVE OnceInv
  OBVIOUS
<1>1. agenda = <<>> /\ Pending = {} /\ Behind = {}
  BY DEF Init, Pending, Behind, CallsIn
<1>2. \A c \in Cons : ~enabled[c] /\ \A e \in Envs(c) : asserted[c][e] = 0
  BY DEF Init
<1>. QED
  BY <1>1, <1>2 DEF OnceInv, EnablesRunNext, FlagIsDown, HeldOnce, Held

LEMMA NextOnce == Inv /\ OnceInv /\ [Next]_vars => OnceInv'
<1>. SUFFICES ASSUME Inv, OnceInv, [Next]_vars PROVE OnceInv'
  OBVIOUS
<1>1. CASE Step
  <2>1. CASE RecalculateRaises
    BY <2>1, RecalculateRaisesDoes, OnceRaise
  <2>. QED
    BY <1>1, <2>1, OnceVariableCalls, OnceSolverCalls, OnceRecalculate, OnceEnableConstraint,
       OnceSetEnabled, Zenon DEF Step
<1>2. CASE UserStep
  BY <1>2, OnceProgram
<1>3. CASE UNCHANGED vars
  BY <1>3 DEF vars, varState, solverState, OnceInv, EnablesRunNext, FlagIsDown, HeldOnce,
              Held, Pending, Behind, CallsIn
<1>. QED
  BY <1>1, <1>2, <1>3, Zenon DEF Next

(* Until an error, a solver holds the primitive of each block that is      *)
(* enabled, or whose flag a pending call is about to set, once, and no     *)
(* other; an enable never waits behind another call                        *)
(* (constraintobject.py:117-140).                                          *)
THEOREM OnceInvHolds == Spec => []OnceInv
  BY InitOnce, NextOnce, InvHolds, PTL DEF Spec

(* A solver holds exactly the primitives of the enabled constraints, once  *)
(* each, over every sequence of enable, disable, strength= and             *)
(* recalculation that did not raise (constraintobject.py:117-180).         *)
THEOREM AssertsOnce == Spec => []AssertedOnce
<1>1. OnceInv => AssertedOnce
  <2>. SUFFICES ASSUME OnceInv, agenda = <<>>, ~raised PROVE AssertedOnce
    BY DEF AssertedOnce, Quiet, Idle
  <2>1. Pending = {}
    BY DEF Pending, CallsIn
  <2>. QED
    BY <2>1 DEF OnceInv, HeldOnce, Held, AssertedOnce
<1>. QED
  BY <1>1, OnceInvHolds, PTL

-----------------------------------------------------------------------------
(* The calls that any step adds.                                           *)
AllAdditions == Additions \cup {"enable", "set_enabled"}

LEMMA StepAdds ==
  ASSUME Inv, Step
  PROVE  /\ agenda # <<>>
         /\ Adds(AllAdditions) \/ (agenda' = <<>> /\ raised' = TRUE)
<1>1. CASE \/ BeginAssignVariable \/ AssignVariable \/ AssignOthers
           \/ GetI \/ UpdateDownstreamVariables
           \/ EndAssignVariable \/ MakeNotAssignable \/ RecalculatePath
  <2>1. agenda # <<>> /\ Adds(Additions)
    BY <1>1, VariableCallsAdd
  <2>2. Additions \subseteq AllAdditions
    BY DEF AllAdditions
  <2>. QED
    BY <2>1, <2>2, AddsMore
<1>. /\ {} \subseteq AllAdditions /\ {"enable"} \subseteq AllAdditions
     /\ {"set_enabled"} \subseteq AllAdditions /\ {"solve", "set_enabled"} \subseteq AllAdditions
  BY DEF AllAdditions, Additions
<1>2. agenda # <<>> /\ agenda' = Tail(agenda) => Adds(AllAdditions)
  BY PendingFew, AddsFew, AddsMore, Zenon
<1>3. CASE BeginAssign
  BY <1>2, <1>3, BeginAssignDoes, Zenon
<1>4. CASE Solve
  BY <1>2, <1>4, SolveDoes, Zenon
<1>5. CASE EndAssign
  BY <1>2, <1>5, EndAssignDoes, Zenon
<1>6. CASE Recalculate
  <2>1. agenda # <<>> /\ (Adds({}) \/ Adds({"enable"}))
    BY <1>6, RecalculateLeaves, AddsFew, Zenon
  <2>. QED
    BY <2>1, AddsMore, Zenon
<1>7. CASE EnableConstraint
  <2>1. /\ agenda # <<>>
        /\ \/ Adds({}) \/ Adds({"set_enabled"}) \/ Adds({"solve", "set_enabled"})
           \/ (agenda' = <<>> /\ raised' = TRUE)
    BY <1>7, EnableConstraintLeaves, AddsFew, Zenon
  <2>. QED
    BY <2>1, AddsMore, Zenon
<1>8. CASE SetEnabled
  BY <1>2, <1>8, SetEnabledDoes, Zenon
<1>9. CASE RecalculateRaises
  BY <1>9, RecalculateRaisesDoes, Zenon
<1>. QED
  BY <1>1, <1>3, <1>4, <1>5, <1>6, <1>7, <1>8, <1>9, Zenon DEF Step

(* Appending to a variable's solvers does not change who is the first of   *)
(* the heaviest.                                                           *)
LEMMA FirstHeaviestStays ==
  ASSUME NEW slots \in Seq(Solvers \cup {NoSolver}), NEW more \in Seq(Solvers \cup {NoSolver}),
         NEW S \in SUBSET Solvers, S # {},
         \A s \in S : \E i \in DOMAIN slots : slots[i] = s,
         \A i \in DOMAIN slots : i \in DOMAIN more /\ more[i] = slots[i]
  PROVE  FirstHeaviest(more, S) = FirstHeaviest(slots, S)
<1>. DEFINE I == {i \in DOMAIN slots : slots[i] \in Heaviest(S)}
            J == {i \in DOMAIN more : more[i] \in Heaviest(S)}
<1>1. PICK s \in S : \A t \in S : Weight[t] <= Weight[s]
  BY HeaviestAssumption
<1>2. s \in Heaviest(S)
  BY <1>1 DEF Heaviest
<1>3. I # {} /\ I \in SUBSET Nat /\ J \in SUBSET Nat /\ I \subseteq J
  BY <1>2
<1>4. /\ Least(I) \in I /\ \A i \in I : Least(I) <= i
      /\ Least(J) \in J /\ \A i \in J : Least(J) <= i
  <2>. HIDE DEF I, J
  <2>. QED
    BY <1>3, LeastExists
<1>. DEFINE i == Least(I)
            j == Least(J)
<1>5. i \in I /\ j \in J /\ j <= i /\ \A k \in I : i <= k
  BY <1>3, <1>4
<1>. HIDE DEF i, j
<1>6. j \in DOMAIN slots
  BY <1>5
<1>7. j \in I
  BY <1>5, <1>6
<1>8. i = j
  BY <1>3, <1>5, <1>7
<1>9. more[j] = slots[i]
  BY <1>5, <1>8
<1>. QED
  BY <1>9 DEF FirstHeaviest, i, j

-----------------------------------------------------------------------------
(* The beginnings of an assignment run before anything else, and one that  *)
(* is yet to run for a constrained variable is yet to be solved and ended. *)
BeginsFirst(q) ==
  \A i \in DOMAIN q : q[i].fn = "__begin_assign__" =>
    \A j \in 1..i : q[j].fn = "__begin_assign__"
BeginsRunFirst == BeginsFirst(agenda)
BegunIsEnded ==
  \A x \in Vars, v \in Values :
    Call("__begin_assign__", <<x, v>>) \in Pending => Started(x) \subseteq Pending
BeginInv == BeginsRunFirst /\ BegunIsEnded

LEMMA BeginsStayFirst ==
  ASSUME NEW p \in Seq(Calls), NEW q \in Seq(Calls), BeginsFirst(p),
         \A call \in CallsIn(q) : call.fn # "__begin_assign__"
  PROVE  p \o q \in Seq(Calls) /\ BeginsFirst(p \o q)
<1>1. /\ p \o q \in Seq(Calls) /\ Len(p) \in Nat /\ Len(q) \in Nat
      /\ DOMAIN p = 1..Len(p) /\ DOMAIN q = 1..Len(q)
      /\ DOMAIN (p \o q) = 1..(Len(p) + Len(q))
      /\ \A i \in 1..(Len(p) + Len(q)) :
           (p \o q)[i] = IF i <= Len(p) THEN p[i] ELSE q[i - Len(p)]
  OBVIOUS
<1>. SUFFICES ASSUME NEW i \in DOMAIN (p \o q), (p \o q)[i].fn = "__begin_assign__",
                     NEW j \in 1..i
              PROVE  (p \o q)[j].fn = "__begin_assign__"
  BY <1>1 DEF BeginsFirst
<1>2. i <= Len(p)
  <2>1. i > Len(p) => i - Len(p) \in DOMAIN q /\ (p \o q)[i] = q[i - Len(p)]
    BY <1>1
  <2>2. \A k \in DOMAIN q : q[k].fn # "__begin_assign__"
    BY DEF CallsIn
  <2>. QED
    BY <1>1, <2>1, <2>2
<1>. QED
  BY <1>1, <1>2 DEF BeginsFirst

LEMMA BeginStep ==
  ASSUME Inv, BeginInv, Step
  PROVE  BeginInv'
<1>1. agenda # <<>> /\ Pending = {agenda[1]} \cup Behind /\ Pending' \subseteq Calls
  <2>1. agenda # <<>>
    BY StepAdds
  <2>2. Inv'
    BY NextInv DEF Next
  <2>3. Pending' \subseteq Calls
    BY <2>2 DEF Inv, TypeOK, Pending, CallsIn
  <2>. QED
    BY <2>1, <2>3, PendingNow
<1>2. CASE agenda' = <<>>
  BY <1>2, NonePending DEF BeginInv, BeginsRunFirst, BeginsFirst, BegunIsEnded
<1>3. CASE agenda[1].fn # "__begin_assign__" /\ agenda' # <<>>
  <2>1. Adds(AllAdditions)
    BY <1>3, StepAdds
  <2>2. \A call \in Pending : call.fn # "__begin_assign__"
    <3>1. 1 \in DOMAIN agenda /\ \A i \in DOMAIN agenda : 1 \in 1..i
      BY <1>1 DEF Inv, TypeOK
    <3>. QED
      BY <1>3, <3>1 DEF BeginInv, BeginsRunFirst, BeginsFirst, Pending, CallsIn
  <2>3. \A call \in Pending' : call.fn # "__begin_assign__"
    BY <1>1, <2>1, <2>2 DEF Adds, AllAdditions, Additions
  <2>4. BegunIsEnded'
    BY <2>3, CallIs DEF BegunIsEnded
  <2>5. BeginsRunFirst'
    BY <2>3 DEF BeginsRunFirst, BeginsFirst, Pending, CallsIn
  <2>. QED
    BY <2>4, <2>5 DEF BeginInv
<1>4. CASE agenda[1].fn = "__begin_assign__"
  <2>1. BeginAssignVariable
    BY <1>4 DEF Step, Running, AssignVariable, AssignOthers, GetI, UpdateDownstreamVariables,
       EndAssignVariable, MakeNotAssignable, RecalculatePath, BeginAssign, Solve, EndAssign,
       Recalculate, RecalculateRaises, EnableConstraint, SetEnabled
  <2>2. agenda' = Tail(agenda) /\ Pending' = Behind /\ agenda \in Seq(Calls)
    BY <1>1, <2>1, BeginAssignVariableDoes, PendingFew DEF Inv, TypeOK
  <2>3. BeginsRunFirst'
    BY <1>1, <2>2 DEF BeginInv, BeginsRunFirst, BeginsFirst
  <2>4. \A x \in Vars : IsConstrained(x)' <=> IsConstrained(x)
    <3>1. PICK x \in Vars :
            UNCHANGED solvers_w \/ (IsConstrained(x) /\ LookUpDefining(x))
      BY <2>1, BeginAssignVariableDoes
    <3>. QED
      BY <3>1 DEF LookUpDefining, IsConstrained, Inv, TypeOK
  <2>5. BegunIsEnded'
    <3>. SUFFICES ASSUME NEW x \in Vars, NEW v \in Values,
                         Call("__begin_assign__", <<x, v>>) \in Pending',
                         NEW call \in Started(x)'
                  PROVE  call \in Pending'
      BY DEF BegunIsEnded
    <3>1. call \in Started(x) /\ Call("__begin_assign__", <<x, v>>) \in Pending
      BY <1>1, <2>2, <2>4 DEF Started
    <3>2. call \in Pending /\ call.fn # "__begin_assign__"
      BY <3>1, StartFns DEF BeginInv, BegunIsEnded
    <3>. QED
      BY <1>1, <1>4, <2>2, <3>2
  <2>. QED
    BY <2>3, <2>5 DEF BeginInv
<1>. QED
  BY <1>2, <1>3, <1>4

LEMMA MayCall ==
  ASSUME NEW x \in Vars, NEW a \in Calls, a.fn # "__begin_assign__"
  PROVE  /\ IfConstrained(x, a) \in Seq(Calls)
         /\ \A call \in CallsIn(IfConstrained(x, a)) : call.fn # "__begin_assign__"
  BY StartTyped

LEMMA LaterCalls ==
  \A x \in Vars : /\ Call("__assign__", x) \in Calls
                  /\ Call("__assign__", x).fn # "__begin_assign__"
                  /\ Call("__end_assign__", <<x, 1>>) \in Calls
                  /\ Call("__end_assign__", <<x, 1>>).fn # "__begin_assign__"
<1>. SUFFICES ASSUME NEW x \in Vars
              PROVE  /\ Call("__assign__", x) \in Calls
                     /\ Call("__assign__", x).fn # "__begin_assign__"
                     /\ Call("__end_assign__", <<x, 1>>) \in Calls
                     /\ Call("__end_assign__", <<x, 1>>).fn # "__begin_assign__"
  OBVIOUS
<1>1. Call("__assign__", x) \in Calls /\ Call("__end_assign__", <<x, 1>>) \in Calls
  <2>1. 1 \in Nat
    OBVIOUS
  <2>. QED
    BY <2>1, CallTypes, Zenon
<1>. QED
  BY <1>1, CallIs

LEMMA BeginsAlone ==
  ASSUME NEW x \in Vars, NEW y \in Vars, NEW v \in Values, NEW w \in Values
  PROVE  /\ <<Call("__begin_assign__", <<x, v>>)>> \in Seq(Calls)
         /\ BeginsFirst(<<Call("__begin_assign__", <<x, v>>)>>)
         /\ <<Call("__begin_assign__", <<x, v>>), Call("__begin_assign__", <<y, w>>)>> \in Seq(Calls)
         /\ BeginsFirst(<<Call("__begin_assign__", <<x, v>>), Call("__begin_assign__", <<y, w>>)>>)
<1>. DEFINE a == Call("__begin_assign__", <<x, v>>)
            b == Call("__begin_assign__", <<y, w>>)
<1>1. a \in Calls /\ b \in Calls /\ a.fn = "__begin_assign__" /\ b.fn = "__begin_assign__"
  BY CallTypes, CallIs
<1>. HIDE DEF a, b
<1>2. <<a>> \in Seq(Calls) /\ BeginsFirst(<<a>>)
  BY <1>1 DEF BeginsFirst
<1>3. <<a, b>> \in Seq(Calls) /\ BeginsFirst(<<a, b>>)
  BY <1>1 DEF BeginsFirst
<1>. QED
  BY <1>2, <1>3 DEF a, b

(* What the program starts, too.                                           *)
LEMMA BeginProgram ==
  ASSUME Inv, BeginInv, UserStep
  PROVE  BeginInv'
<1>. USE DEF varState, solverState
<1>1. agenda = <<>>
  BY ProgramIdle
<1>2. ASSUME NEW call, call.fn # "__begin_assign__", agenda' = <<call>>
      PROVE  BeginInv'
  <2>1. Pending' = {call} /\ DOMAIN agenda' = {1} /\ agenda'[1] = call
    BY <1>2, StartsOne
  <2>. QED
    BY <1>2, <2>1, CallIs DEF BeginInv, BeginsRunFirst, BeginsFirst, BegunIsEnded
<1>3. ASSUME NEW c \in Cons,
             Always(c) \/ AlwaysRaises(c) \/ Enable(c) \/ Disable(c) \/ SetStrength(c)
      PROVE  BeginInv'
  <2>1. agenda' = <<>> \/ agenda' = <<Call("enable", c)>>
    BY <1>1, <1>3 DEF Always, AlwaysRaises, Enable, Disable, SetStrength
  <2>2. agenda' = <<>> => BeginInv'
    BY NonePending DEF BeginInv, BeginsRunFirst, BeginsFirst, BegunIsEnded
  <2>. QED
    BY <1>2, <2>1, <2>2, CallIs
<1>4. ASSUME NEW x \in Vars, Read(x)
      PROVE  BeginInv'
  <2>1. agenda' = <<Call("get_i", x)>>
    BY <1>4 DEF Read
  <2>. QED
    BY <1>2, <2>1, CallIs
<1>5. ASSUME NEW x \in Vars, NEW v \in Values, Assign(x, v)
      PROVE  BeginInv'
  <2>1. Pending' = {Call("__begin_assign__", <<x, v>>)} \cup Started(x) /\ UNCHANGED solvers_w
    BY <1>5, AssignStarts DEF Assign
  <2>2. BegunIsEnded'
    <3>. SUFFICES ASSUME NEW y \in Vars, NEW w \in Values,
                         Call("__begin_assign__", <<y, w>>) \in Pending'
                  PROVE  Started(y)' \subseteq Pending'
      BY DEF BegunIsEnded
    <3>1. Call("__begin_assign__", <<y, w>>) \notin Started(x)
      BY StartFns, CallIs
    <3>2. <<y, w>> = <<x, v>>
      BY <2>1, <3>1, CallIs
    <3>3. y = x /\ Started(x)' = Started(x)
      BY <2>1, <3>2 DEF Started, IsConstrained
    <3>. QED
      BY <2>1, <3>3
  <2>3. BeginsRunFirst'
    <3>. DEFINE p == <<Call("__begin_assign__", <<x, v>>)>>
                q == IfConstrained(x, Call("__assign__", x))
                r == IfConstrained(x, Call("__end_assign__", <<x, 1>>))
    <3>1. agenda' = (p \o q) \o r
      BY <1>5 DEF Assign
    <3>2. p \in Seq(Calls) /\ BeginsFirst(p)
      BY BeginsAlone
    <3>3. /\ q \in Seq(Calls) /\ \A call \in CallsIn(q) : call.fn # "__begin_assign__"
          /\ r \in Seq(Calls) /\ \A call \in CallsIn(r) : call.fn # "__begin_assign__"
      BY MayCall, LaterCalls
    <3>. HIDE DEF p, q, r
    <3>4. p \o q \in Seq(Calls) /\ BeginsFirst(p \o q)
      BY <3>2, <3>3, BeginsStayFirst
    <3>5. BeginsFirst((p \o q) \o r)
      BY <3>3, <3>4, BeginsStayFirst
    <3>. QED
      BY <3>1, <3>5 DEF BeginsRunFirst, BeginsFirst
  <2>. QED
    BY <2>2, <2>3 DEF BeginInv
<1>6. ASSUME NEW x \in Vars, NEW y \in Vars, NEW v \in Values, NEW w \in Values,
             MultiAssign(x, v, y, w)
      PROVE  BeginInv'
  <2>1. /\ Pending' = {Call("__begin_assign__", <<x, v>>), Call("__begin_assign__", <<y, w>>)}
                         \cup Started(x) \cup Started(y)
        /\ UNCHANGED solvers_w
    BY <1>6, MultiAssignStarts DEF MultiAssign
  <2>2. BegunIsEnded'
    <3>. SUFFICES ASSUME NEW z \in Vars, NEW u \in Values,
                         Call("__begin_assign__", <<z, u>>) \in Pending'
                  PROVE  Started(z)' \subseteq Pending'
      BY DEF BegunIsEnded
    <3>1. Call("__begin_assign__", <<z, u>>) \notin Started(x) \cup Started(y)
      BY StartFns, CallIs
    <3>2. <<z, u>> = <<x, v>> \/ <<z, u>> = <<y, w>>
      BY <2>1, <3>1, CallIs
    <3>3. (z = x \/ z = y) /\ Started(z)' = Started(z)
      BY <2>1, <3>2 DEF Started, IsConstrained
    <3>. QED
      BY <2>1, <3>3
  <2>3. BeginsRunFirst'
    <3>. DEFINE p == <<Call("__begin_assign__", <<x, v>>), Call("__begin_assign__", <<y, w>>)>>
                ax == IfConstrained(x, Call("__assign__", x))
                ay == IfConstrained(y, Call("__assign__", y))
                ex == IfConstrained(x, Call("__end_assign__", <<x, 1>>))
                ey == IfConstrained(y, Call("__end_assign__", <<y, 1>>))
    <3>1. agenda' = (((p \o ax) \o ay) \o ex) \o ey
      BY <1>6 DEF MultiAssign
    <3>2. p \in Seq(Calls) /\ BeginsFirst(p)
      BY BeginsAlone
    <3>3. /\ ax \in Seq(Calls) /\ \A call \in CallsIn(ax) : call.fn # "__begin_assign__"
          /\ ay \in Seq(Calls) /\ \A call \in CallsIn(ay) : call.fn # "__begin_assign__"
          /\ ex \in Seq(Calls) /\ \A call \in CallsIn(ex) : call.fn # "__begin_assign__"
          /\ ey \in Seq(Calls) /\ \A call \in CallsIn(ey) : call.fn # "__begin_assign__"
      BY MayCall, LaterCalls
    <3>. HIDE DEF p, ax, ay, ex, ey
    <3>4. p \o ax \in Seq(Calls) /\ BeginsFirst(p \o ax)
      BY <3>2, <3>3, BeginsStayFirst
    <3>5. (p \o ax) \o ay \in Seq(Calls) /\ BeginsFirst((p \o ax) \o ay)
      BY <3>3, <3>4, BeginsStayFirst
    <3>6. ((p \o ax) \o ay) \o ex \in Seq(Calls) /\ BeginsFirst(((p \o ax) \o ay) \o ex)
      BY <3>3, <3>5, BeginsStayFirst
    <3>7. BeginsFirst((((p \o ax) \o ay) \o ex) \o ey)
      BY <3>3, <3>6, BeginsStayFirst
    <3>. QED
      BY <3>1, <3>7 DEF BeginsRunFirst, BeginsFirst
  <2>. QED
    BY <2>2, <2>3 DEF BeginInv
<1>. QED
  BY <1>3, <1>4, <1>5, <1>6 DEF UserStep

LEMMA InitBegin == Init => BeginInv
  BY DEF Init, BeginInv, BeginsRunFirst, BeginsFirst, BegunIsEnded, Pending, CallsIn

LEMMA NextBegin == Inv /\ BeginInv /\ [Next]_vars => BeginInv'
<1>. SUFFICES ASSUME Inv, BeginInv, [Next]_vars PROVE BeginInv'
  OBVIOUS
<1>1. CASE UNCHANGED vars
  BY <1>1 DEF vars, varState, BeginInv, BeginsRunFirst, BeginsFirst, BegunIsEnded, Pending,
              CallsIn, Started, IsConstrained
<1>. QED
  BY <1>1, BeginStep, BeginProgram, Zenon DEF Next

-----------------------------------------------------------------------------
(* Whoever knows a variable without defining it may only read it, nobody   *)
(* else has it pinned, and a reader without a pin gets one before the      *)
(* program runs again, unless something raises.                            *)
PinCalls(x) == {Call("make_not_assignable", x)}
                 \cup {Call("update_downstream_variables", <<x, i>>) : i \in Nat}
                 \cup {Call("__end_assign__", <<x, i>>) : i \in Nat}
PinSoon(x) == \E call \in PinCalls(x) : call \in Pending
OthersRead == \A x \in Vars : Others(x) \subseteq readonly[x]
PinnedRead == \A x \in Vars, s \in Solvers : pin[x][s] # NoValue => s \in readonly[x]
ReadersPinned ==
  ~raised => \A x \in Vars : \A s \in readonly[x] : pin[x][s] = NoValue => PinSoon(x)
ReaderInv == OthersRead /\ PinnedRead /\ ReadersPinned

LEMMA PinCallsApart ==
  /\ \A x : \A call \in PinCalls(x) :
       call.fn \in {"make_not_assignable", "update_downstream_variables", "__end_assign__"}
  /\ \A x, y : x # y => PinCalls(x) \cap PinCalls(y) = {}
<1>1. \A x : \A call \in PinCalls(x) :
        /\ call.fn \in {"make_not_assignable", "update_downstream_variables", "__end_assign__"}
        /\ call.fn = "make_not_assignable" => call.arg = x
        /\ call.fn # "make_not_assignable" => call.arg[1] = x
  <2>. SUFFICES ASSUME NEW x, NEW call \in PinCalls(x)
                PROVE  /\ call.fn \in {"make_not_assignable", "update_downstream_variables",
                                       "__end_assign__"}
                       /\ call.fn = "make_not_assignable" => call.arg = x
                       /\ call.fn # "make_not_assignable" => call.arg[1] = x
    OBVIOUS
  <2>1. CASE call = Call("make_not_assignable", x)
    BY <2>1, CallIs
  <2>2. ASSUME NEW i \in Nat, call = Call("update_downstream_variables", <<x, i>>)
        PROVE  call.fn = "update_downstream_variables" /\ call.arg[1] = x
    BY <2>2, CallIs
  <2>3. ASSUME NEW i \in Nat, call = Call("__end_assign__", <<x, i>>)
        PROVE  call.fn = "__end_assign__" /\ call.arg[1] = x
    BY <2>3, CallIs
  <2>. QED
    BY <2>1, <2>2, <2>3 DEF PinCalls
<1>. QED
  BY <1>1

LEMMA PinSoonStays ==
  ASSUME Inv, agenda # <<>>, Behind \subseteq Pending', NEW x, PinSoon(x),
         agenda[1] \notin PinCalls(x)
  PROVE  PinSoon(x)'
<1>1. Pending = {agenda[1]} \cup Behind
  BY PendingNow
<1>. QED
  BY <1>1 DEF PinSoon, PinCalls

LEMMA OthersFrame ==
  ASSUME OthersRead, UNCHANGED <<solvers_w, external, readonly>>
  PROVE  OthersRead'
  BY DEF OthersRead, Others, DefiningSolver, IsSolveable, FirstHeaviest

(* A call that pins nothing and unpins nothing.                            *)
LEMMA PinFrame ==
  ASSUME Inv, ReaderInv, agenda # <<>>, Behind \subseteq Pending',
         \A x \in Vars : agenda[1] \in PinCalls(x) => PinSoon(x)',
         UNCHANGED <<pin, readonly, raised>>
  PROVE  PinnedRead' /\ ReadersPinned'
<1>1. \A x \in Vars : PinSoon(x) => PinSoon(x)'
  BY PinSoonStays
<1>. QED
  BY <1>1 DEF ReaderInv, PinnedRead, ReadersPinned

LEMMA ReaderFrame ==
  ASSUME Inv, ReaderInv, agenda # <<>>, Behind \subseteq Pending',
         \A x \in Vars : agenda[1] \in PinCalls(x) => PinSoon(x)',
         UNCHANGED <<solvers_w, external, readonly, pin, raised>>
  PROVE  ReaderInv'
  BY PinFrame, OthersFrame DEF ReaderInv

LEMMA ReaderOther ==
  ASSUME Inv, ReaderInv, agenda # <<>>, Behind \subseteq Pending',
         agenda[1].fn \notin {"make_not_assignable", "update_downstream_variables", "__end_assign__"},
         UNCHANGED <<solvers_w, external, readonly, pin, raised>>
  PROVE  ReaderInv'
  BY ReaderFrame, PinCallsApart

LEMMA ReaderRaise ==
  ASSUME ReaderInv, raised' = TRUE, UNCHANGED <<solvers_w, external, readonly, pin>>
  PROVE  ReaderInv'
  BY OthersFrame DEF ReaderInv, PinnedRead, ReadersPinned

(* Meeting further solvers leaves the definer as long as none of them      *)
(* joins.                                                                  *)
LEMMA DefinerStays ==
  ASSUME Inv, NEW x \in Vars, external'[x] = external[x],
         solvers_w'[x] \in Seq(Solvers \cup {NoSolver}),
         \A i \in DOMAIN solvers_w[x] :
           i \in DOMAIN solvers_w'[x] /\ solvers_w'[x][i] = solvers_w[x][i]
  PROVE  DefiningSolver(x)' = DefiningSolver(x) /\ Others(x)' = Others(x)
<1>1. /\ solvers_w[x] \in Seq(Solvers \cup {NoSolver}) /\ external[x] \in SUBSET Solvers
      /\ \A s \in external[x] : \E i \in DOMAIN solvers_w[x] : solvers_w[x][i] = s
  BY DEF Inv, TypeOK, SlotsKnown
<1>. DEFINE p == solvers_w[x]
            q == solvers_w'[x]
            S == external[x]
<1>2. S # {} => FirstHeaviest(q, S) = FirstHeaviest(p, S)
  <2>. /\ p \in Seq(Solvers \cup {NoSolver}) /\ q \in Seq(Solvers \cup {NoSolver})
       /\ S \in SUBSET Solvers /\ \A s \in S : \E i \in DOMAIN p : p[i] = s
       /\ \A i \in DOMAIN p : i \in DOMAIN q /\ q[i] = p[i]
    BY <1>1
  <2>. HIDE DEF p, q, S
  <2>. QED
    BY FirstHeaviestStays
<1>3. DefiningSolver(x)' = DefiningSolver(x)
  BY <1>2 DEF DefiningSolver, IsSolveable, FirstHeaviest, Heaviest
<1>. QED
  BY <1>3 DEF Others

LEMMA LookUpStays ==
  ASSUME Inv, OthersRead, NEW x \in Vars, LookUpDefining(x), UNCHANGED <<external, readonly>>
  PROVE  OthersRead'
<1>1. \A y \in Vars : solvers_w'[y] = solvers_w[y] \/ external[y] = {}
  BY DEF LookUpDefining, IsSolveable, Inv, TypeOK
<1>2. ASSUME NEW y \in Vars, solvers_w'[y] = solvers_w[y]
      PROVE  Others(y)' = Others(y)
  BY <1>2 DEF Others, DefiningSolver, IsSolveable, FirstHeaviest
<1>3. ASSUME NEW y \in Vars, external[y] = {}
      PROVE  Others(y)' = {}
  BY <1>3 DEF Others
<1>. QED
  BY <1>1, <1>2, <1>3 DEF OthersRead

(* Calls that leave the pins alone.                                        *)
LEMMA ReaderQuietCalls ==
  ASSUME Inv, ReaderInv,
         \/ AssignVariable \/ AssignOthers \/ RecalculatePath
         \/ BeginAssign \/ Solve \/ EndAssign \/ EnableConstraint \/ SetEnabled
  PROVE  ReaderInv'
<1>. USE DEF varState, solverState
<1>1. CASE AssignVariable
  <2>1. PICK x \in Vars :
          /\ agenda # <<>> /\ agenda[1] = Call("__assign__", x)
          /\ LookUpDefining(x) /\ UNCHANGED <<external, readonly, pin, raised>>
    BY <1>1, AssignVariableLeaves, Zenon
  <2>2. Behind \subseteq Pending'
    BY <1>1, VariableCallsAdd DEF Adds
  <2>3. OthersRead'
    BY <2>1, LookUpStays DEF ReaderInv
  <2>4. \A y \in Vars : agenda[1] \notin PinCalls(y)
    BY <2>1, CallIs, PinCallsApart
  <2>. QED
    BY <2>1, <2>2, <2>3, <2>4, PinFrame DEF ReaderInv
<1>2. CASE AssignOthers
  <2>1. /\ agenda # <<>> /\ agenda[1].fn = "assign others"
        /\ UNCHANGED <<solvers_w, external, readonly, pin, raised>>
    BY <1>2, AssignOthersDoes, CallIs
  <2>2. Behind \subseteq Pending'
    BY <1>2, VariableCallsAdd DEF Adds
  <2>. QED
    BY <2>1, <2>2, ReaderOther
<1>3. CASE RecalculatePath
  <2>1. /\ agenda # <<>> /\ agenda[1].fn = "recalculate_path"
        /\ UNCHANGED <<solvers_w, external, readonly, pin, raised>>
    BY <1>3, RecalculatePathDoes, CallIs
  <2>2. Behind \subseteq Pending'
    BY <1>3, VariableCallsAdd DEF Adds
  <2>. QED
    BY <2>1, <2>2, ReaderOther
<1>4. CASE BeginAssign
  <2>1. /\ agenda # <<>> /\ agenda[1].fn = "begin_assign" /\ agenda' = Tail(agenda)
        /\ UNCHANGED <<solvers_w, external, readonly, pin, raised>>
    BY <1>4, BeginAssignDoes, CallIs
  <2>2. Behind \subseteq Pending'
    BY <2>1, PendingFew
  <2>. QED
    BY <2>1, <2>2, ReaderOther
<1>5. CASE Solve
  <2>1. /\ agenda # <<>> /\ agenda[1].fn = "solve"
        /\ (agenda' = Tail(agenda) /\ UNCHANGED raised) \/ raised' = TRUE
        /\ UNCHANGED <<solvers_w, external, readonly, pin>>
    BY <1>5, SolveDoes, CallIs
  <2>2. agenda' = Tail(agenda) => Behind \subseteq Pending'
    BY <2>1, PendingFew
  <2>. QED
    BY <2>1, <2>2, ReaderOther, ReaderRaise
<1>6. CASE EndAssign
  <2>1. /\ agenda # <<>> /\ agenda[1].fn = "end_assign"
        /\ (agenda' = Tail(agenda) /\ UNCHANGED raised) \/ raised' = TRUE
        /\ UNCHANGED <<solvers_w, external, readonly, pin>>
    BY <1>6, EndAssignDoes, CallIs
  <2>2. agenda' = Tail(agenda) => Behind \subseteq Pending'
    BY <2>1, PendingFew
  <2>. QED
    BY <2>1, <2>2, ReaderOther, ReaderRaise
<1>7. CASE EnableConstraint
  <2>1. /\ agenda # <<>> /\ agenda[1].fn = "enable"
        /\ (Behind \subseteq Pending' /\ UNCHANGED raised) \/ raised' = TRUE
        /\ UNCHANGED <<solvers_w, external, readonly, pin>>
    <3>1. PICK c \in Cons :
            /\ agenda # <<>> /\ agenda[1] = Call("enable", c)
            /\ (Behind \subseteq Pending' /\ UNCHANGED raised) \/ raised' = TRUE
            /\ UNCHANGED <<solvers_w, external, readonly, pin>>
      BY <1>7, EnableConstraintLeaves
    <3>2. Call("enable", c).fn = "enable"
      BY CallIs
    <3>. QED
      BY <3>1, <3>2
  <2>. QED
    BY <2>1, ReaderOther, ReaderRaise
<1>8. CASE SetEnabled
  <2>1. /\ agenda # <<>> /\ agenda[1].fn = "set_enabled" /\ agenda' = Tail(agenda)
        /\ UNCHANGED <<solvers_w, external, readonly, pin, raised>>
    BY <1>8, SetEnabledDoes, CallIs
  <2>2. Behind \subseteq Pending'
    BY <2>1, PendingFew
  <2>. QED
    BY <2>1, <2>2, ReaderOther
<1>. QED
  BY <1>1, <1>2, <1>3, <1>4, <1>5, <1>6, <1>7, <1>8

LEMMA PinSoonOf ==
  \A x : \/ Call("make_not_assignable", x) \in Pending'
         \/ \E i \in Nat : \/ Call("update_downstream_variables", <<x, i>>) \in Pending'
                           \/ Call("__end_assign__", <<x, i>>) \in Pending'
    => PinSoon(x)'
  BY DEF PinSoon, PinCalls

(* Unpinning goes with pinning again: __end_assign__ follows the beginning *)
(* of an assignment, update_downstream_variables follows get_i.            *)
LEMMA ReaderUnpins ==
  ASSUME Inv, ReaderInv, NEW x \in Vars, pin' = MakeAssignable(x),
         agenda # <<>>, Behind \subseteq Pending', \A y \in Vars : agenda[1] \notin PinCalls(y),
         PinSoon(x)', UNCHANGED <<readonly, raised>>
  PROVE  PinnedRead' /\ ReadersPinned'
<1>1. \A y \in Vars, s \in Solvers : pin'[y][s] \in {NoValue, pin[y][s]}
  BY AssignableKeeps DEF Inv
<1>2. \A y \in Vars, s \in Solvers : y # x => pin'[y][s] = pin[y][s]
  BY DEF MakeAssignable, Inv, TypeOK
<1>3. \A y \in Vars : PinSoon(y) => PinSoon(y)'
  BY PinSoonStays
<1>4. PinnedRead'
  BY <1>1 DEF ReaderInv, PinnedRead
<1>5. ReadersPinned'
  <2>1. \A y \in Vars : readonly[y] \subseteq Solvers
    BY DEF Inv, TypeOK
  <2>. QED
    BY <1>2, <1>3, <2>1 DEF ReaderInv, ReadersPinned
<1>. QED
  BY <1>4, <1>5

LEMMA ReaderBegins ==
  ASSUME Inv, BeginInv, ReaderInv, BeginAssignVariable
  PROVE  ReaderInv'
<1>1. PICK x \in Vars, v \in Values :
        /\ agenda # <<>> /\ agenda[1] = Call("__begin_assign__", <<x, v>>)
        /\ agenda' = Tail(agenda) /\ UNCHANGED <<external, readonly, raised>>
        /\ \/ IsConstrained(x) /\ pin' = MakeAssignable(x) /\ LookUpDefining(x)
           \/ UNCHANGED <<pin, solvers_w>>
  BY BeginAssignVariableDoes, Zenon
<1>2. Pending = {agenda[1]} \cup Behind /\ Pending' = Behind
  BY <1>1, PendingNow, PendingFew
<1>3. \A y \in Vars : agenda[1] \notin PinCalls(y)
  BY <1>1, CallIs, PinCallsApart
<1>4. CASE UNCHANGED <<pin, solvers_w>>
  BY <1>1, <1>2, <1>3, <1>4, ReaderFrame
<1>5. CASE IsConstrained(x) /\ pin' = MakeAssignable(x) /\ LookUpDefining(x)
  <2>1. Started(x) \subseteq Pending
    BY <1>1, <1>2 DEF BeginInv, BegunIsEnded
  <2>2. Call("__end_assign__", <<x, 1>>) \in Pending'
    <3>1. Call("__end_assign__", <<x, 1>>) \in Pending
      BY <1>5, <2>1 DEF Started
    <3>. QED
      BY <1>1, <1>2, <3>1, CallIs
  <2>3. PinSoon(x)'
    <3>1. 1 \in Nat
      OBVIOUS
    <3>. QED
      BY <2>2, <3>1, PinSoonOf, Zenon
  <2>4. PinnedRead' /\ ReadersPinned'
    BY <1>1, <1>2, <1>3, <1>5, <2>3, ReaderUnpins
  <2>5. OthersRead'
    BY <1>1, <1>5, LookUpStays DEF ReaderInv
  <2>. QED
    BY <2>4, <2>5 DEF ReaderInv
<1>. QED
  BY <1>1, <1>4, <1>5

LEMMA ReaderGets ==
  ASSUME Inv, ReaderInv, GetI
  PROVE  ReaderInv'
<1>1. PICK x \in Vars :
        /\ agenda # <<>> /\ agenda[1] = Call("get_i", x)
        /\ UNCHANGED <<solvers_w, external, readonly, raised>>
        /\ \/ /\ pin' = MakeAssignable(x)
              /\ Pending' = {Call("update_downstream_variables", <<x, 1>>)} \cup Behind
           \/ UNCHANGED pin /\ Pending' = Behind
  BY GetILeaves, Zenon
<1>2. \A y \in Vars : agenda[1] \notin PinCalls(y)
  BY <1>1, CallIs, PinCallsApart
<1>3. CASE UNCHANGED pin /\ Pending' = Behind
  BY <1>1, <1>2, <1>3, ReaderFrame
<1>4. CASE /\ pin' = MakeAssignable(x)
           /\ Pending' = {Call("update_downstream_variables", <<x, 1>>)} \cup Behind
  <2>1. PinSoon(x)'
    <3>1. 1 \in Nat /\ Call("update_downstream_variables", <<x, 1>>) \in Pending'
      BY <1>4
    <3>. QED
      BY <3>1, PinSoonOf, Zenon
  <2>2. PinnedRead' /\ ReadersPinned'
    BY <1>1, <1>2, <1>4, <2>1, ReaderUnpins
  <2>3. OthersRead'
    BY <1>1, OthersFrame DEF ReaderInv
  <2>. QED
    BY <2>2, <2>3 DEF ReaderInv
<1>. QED
  BY <1>1, <1>3, <1>4

(* The loops that end in make_not_assignable.                              *)
LEMMA ReaderLoops ==
  ASSUME Inv, ReaderInv, UpdateDownstreamVariables \/ EndAssignVariable
  PROVE  ReaderInv'
<1>. USE DEF varState, solverState
<1>1. PICK x \in Vars :
        /\ agenda # <<>> /\ UNCHANGED <<solvers_w, external, readonly, pin, raised>>
        /\ Behind \subseteq Pending'
        /\ \E i \in Nat : \/ agenda[1] = Call("update_downstream_variables", <<x, i>>)
                          \/ agenda[1] = Call("__end_assign__", <<x, i>>)
        /\ PinSoon(x)'
  <2>1. CASE UpdateDownstreamVariables
    <3>1. PICK x \in Vars, i \in Nat :
           /\ agenda # <<>> /\ agenda[1] = Call("update_downstream_variables", <<x, i>>)
           /\ UNCHANGED <<varState, solverState, raised>>
           /\ \/ Call("make_not_assignable", x) \in Pending'
              \/ \E j \in Nat : Call("update_downstream_variables", <<x, j + 1>>) \in Pending'
      BY <2>1, UpdateDownstreamVariablesLeaves
    <3>2. PinSoon(x)'
      <4>1. \A j \in Nat : j + 1 \in Nat
        OBVIOUS
      <4>. QED
        BY <3>1, <4>1, PinSoonOf, Zenon
    <3>3. Behind \subseteq Pending'
      BY <2>1, VariableCallsAdd DEF Adds
    <3>. QED
      BY <3>1, <3>2, <3>3
  <2>2. CASE EndAssignVariable
    <3>1. PICK x \in Vars, i \in Nat :
           /\ agenda # <<>> /\ agenda[1] = Call("__end_assign__", <<x, i>>)
           /\ UNCHANGED <<varState, solverState, raised>>
           /\ \/ Call("make_not_assignable", x) \in Pending'
              \/ \E j \in Nat : Call("__end_assign__", <<x, j + 1>>) \in Pending'
      BY <2>2, EndAssignVariableLeaves
    <3>2. PinSoon(x)'
      <4>1. \A j \in Nat : j + 1 \in Nat
        OBVIOUS
      <4>. QED
        BY <3>1, <4>1, PinSoonOf, Zenon
    <3>3. Behind \subseteq Pending'
      BY <2>2, VariableCallsAdd DEF Adds
    <3>. QED
      BY <3>1, <3>2, <3>3
  <2>. QED
    BY <2>1, <2>2
<1>2. agenda[1] \in PinCalls(x)
  BY <1>1 DEF PinCalls
<1>3. \A y \in Vars : agenda[1] \in PinCalls(y) => PinSoon(y)'
  BY <1>1, <1>2, PinCallsApart
<1>. QED
  BY <1>1, <1>3, ReaderFrame

LEMMA ReaderPins ==
  ASSUME Inv, ReaderInv, MakeNotAssignable
  PROVE  ReaderInv'
<1>. USE DEF varState
<1>1. PICK x \in Vars :
        /\ agenda # <<>> /\ agenda[1] = Call("make_not_assignable", x)
        /\ LET lock == {s \in readonly[x] : pin[x][s] = NoValue} IN
             pin' = [pin EXCEPT ![x] =
               [s \in Solvers |-> IF s \in lock THEN ValueOf(x, s) ELSE pin[x][s]]]
        /\ UNCHANGED <<solvers_w, external, readonly, raised>>
  BY MakeNotAssignableDoes, Zenon
<1>2. Behind \subseteq Pending'
  BY VariableCallsAdd DEF Adds
<1>3. pin \in [Vars -> [Solvers -> Values \cup {NoValue}]] /\ readonly[x] \subseteq Solvers
  BY DEF Inv, TypeOK
<1>4. \A s \in readonly[x] : ValueOf(x, s) # NoValue
  BY <1>3, ValueKnown, ConstantsAssumption DEF Inv, ReadonlyKnown
<1>5. /\ \A s \in Solvers : pin'[x][s] =
           IF s \in readonly[x] /\ pin[x][s] = NoValue THEN ValueOf(x, s) ELSE pin[x][s]
      /\ \A y \in Vars : y # x => pin'[y] = pin[y]
  BY <1>1, <1>3
<1>6. PinnedRead'
  BY <1>1, <1>5 DEF ReaderInv, PinnedRead
<1>7. ReadersPinned'
  <2>. SUFFICES ASSUME ~raised', NEW y \in Vars, NEW s \in readonly'[y], pin'[y][s] = NoValue
                PROVE  PinSoon(y)'
    BY DEF ReadersPinned
  <2>1. y # x
    BY <1>1, <1>3, <1>4, <1>5
  <2>2. PinSoon(y)
    BY <1>1, <1>5, <2>1 DEF ReaderInv, ReadersPinned
  <2>3. agenda[1] \notin PinCalls(y)
    <3>1. agenda[1] \in PinCalls(x)
      BY <1>1 DEF PinCalls
    <3>. QED
      BY <2>1, <3>1, PinCallsApart
  <2>. QED
    BY <1>1, <1>2, <2>2, <2>3, PinSoonStays
<1>8. OthersRead'
  BY <1>1, OthersFrame DEF ReaderInv
<1>. QED
  BY <1>6, <1>7, <1>8 DEF ReaderInv

(* Running a block: a solver that joins a variable is told at once whether *)
(* it may only read it, and so is the one it takes the variable from.      *)
LEMMA ReaderRuns ==
  ASSUME Inv, ReaderInv, NEW c \in Cons, Meets(c), UNCHANGED <<stored, model>>,
         raised' = TRUE \/ (UNCHANGED raised /\ \A x \in Vars : PinSoon(x) => PinSoon(x)')
  PROVE  ReaderInv'
<1>0. PICK met \in SUBSET Vars : \E read \in SUBSET met : MeetVariables(c, read, met)
  BY DEF Meets
<1>. PICK read \in SUBSET met : MeetVariables(c, read, met)
  BY <1>0
<1>. DEFINE s == SolverOf[c]
            joins == {x \in read : Joins(x, s)}
            locks(x) == IF x \in joins THEN NewlyReadonly(x, s) ELSE {}
<1>1. /\ s \in Solvers /\ external \in [Vars -> SUBSET Solvers]
      /\ stored \in [Vars -> Values]
  BY ConstantsAssumption DEF Inv, TypeOK
<1>2. /\ solvers_w' = [x \in Vars |-> IF x \in met THEN SlotsWith(x, s) ELSE solvers_w[x]]
      /\ external' = [x \in Vars |-> IF x \in joins THEN external[x] \cup {s} ELSE external[x]]
      /\ readonly' = [x \in Vars |-> readonly[x] \cup locks(x)]
      /\ pin' = [x \in Vars |-> [t \in Solvers |->
           IF t \in locks(x) THEN ValueAtJoin(x, s, t) ELSE pin[x][t]]]
  BY DEF MeetVariables
<1>3. \A x \in Vars : locks(x) \subseteq external[x] \cup {s} /\ locks(x) \subseteq Solvers
  BY <1>1 DEF NewlyReadonly
<1>4. ASSUME NEW x \in Vars
      PROVE  Others(x)' \subseteq readonly'[x]
  <2>1. CASE x \notin joins
    <3>1. external'[x] = external[x] /\ readonly[x] \subseteq readonly'[x]
      BY <1>2, <2>1
    <3>2. solvers_w'[x] \in Seq(Solvers \cup {NoSolver})
      BY MeetKeeps
    <3>3. \A i \in DOMAIN solvers_w[x] :
            i \in DOMAIN solvers_w'[x] /\ solvers_w'[x][i] = solvers_w[x][i]
      BY <1>1, <1>2, SlotsWithKnown DEF Inv
    <3>4. Others(x)' = Others(x)
      BY <3>1, <3>2, <3>3, DefinerStays
    <3>. QED
      BY <3>1, <3>4 DEF ReaderInv, OthersRead
  <2>2. CASE x \in joins
    <3>1. /\ external'[x] = external[x] \cup {s} /\ solvers_w'[x] = SlotsWith(x, s)
          /\ readonly'[x] = readonly[x] \cup NewlyReadonly(x, s)
      BY <1>2, <2>2
    <3>2. DefiningSolver(x)' = DefinesAfter(x, s)
      BY <3>1 DEF DefiningSolver, DefinesAfter, IsSolveable, FirstHeaviest, Heaviest
    <3>. QED
      BY <3>1, <3>2 DEF Others, NewlyReadonly
  <2>. QED
    BY <2>1, <2>2
<1>5. PinnedRead'
  <2>. SUFFICES ASSUME NEW x \in Vars, NEW t \in Solvers, pin'[x][t] # NoValue
                PROVE  t \in readonly'[x]
    BY DEF PinnedRead
  <2>1. /\ pin'[x][t] = IF t \in locks(x) THEN ValueAtJoin(x, s, t) ELSE pin[x][t]
        /\ readonly'[x] = readonly[x] \cup locks(x)
    BY <1>2
  <2>. QED
    BY <2>1 DEF ReaderInv, PinnedRead
<1>6. ReadersPinned'
  <2>. SUFFICES ASSUME ~raised', NEW x \in Vars, NEW t \in readonly'[x], pin'[x][t] = NoValue
                PROVE  PinSoon(x)'
    BY DEF ReadersPinned
  <2>1. readonly'[x] = readonly[x] \cup locks(x) /\ t \in Solvers
    BY <1>2, <1>3 DEF Inv, TypeOK
  <2>2. pin'[x][t] = IF t \in locks(x) THEN ValueAtJoin(x, s, t) ELSE pin[x][t]
    BY <1>2, <2>1
  <2>3. CASE t \in locks(x)
    <3>1. ValueAtJoin(x, s, t) \in Values
      <4>1. t = s => ValueAtJoin(x, s, t) = stored[x]
        BY DEF ValueAtJoin
      <4>2. t # s => ValueAtJoin(x, s, t) = ValueOf(x, t) /\ t \in external[x]
        BY <1>3, <2>3 DEF ValueAtJoin
      <4>3. t # s => ValueOf(x, t) \in Values
        BY <2>1, <4>2, ValueKnown DEF Inv
      <4>. QED
        BY <1>1, <4>1, <4>2, <4>3
    <3>. QED
      BY <2>2, <2>3, <3>1, ConstantsAssumption
  <2>4. CASE t \notin locks(x)
    BY <2>1, <2>2, <2>4 DEF ReaderInv, ReadersPinned
  <2>. QED
    BY <2>3, <2>4
<1>. QED
  BY <1>4, <1>5, <1>6 DEF ReaderInv, OthersRead

LEMMA ReaderRecalculates ==
  ASSUME Inv, ReaderInv, Recalculate
  PROVE  ReaderInv'
<1>. USE DEF varState
<1>1. PICK c \in Cons :
        /\ agenda # <<>> /\ agenda[1] = Call("recalculate", c) /\ Behind \subseteq Pending'
        /\ RunPredicate(c) \/ UNCHANGED <<solvers_w, external, readonly, pin>>
        /\ UNCHANGED <<stored, model, raised>>
  BY RecalculateLeaves
<1>2. agenda[1].fn = "recalculate"
  BY <1>1, CallIs
<1>3. \A x \in Vars : PinSoon(x) => PinSoon(x)'
  BY <1>1, <1>2, PinSoonStays, PinCallsApart
<1>. QED
  BY <1>1, <1>2, <1>3, RunMeets, ReaderRuns, ReaderOther

LEMMA ReaderProgram ==
  ASSUME Inv, ReaderInv, UserStep
  PROVE  ReaderInv'
<1>. USE DEF varState, solverState
<1>1. agenda = <<>>
  BY ProgramIdle
<1>2. \A x \in Vars : ~PinSoon(x)
  BY <1>1 DEF PinSoon, Pending, CallsIn
<1>3. ASSUME NEW c \in Cons, Always(c)
      PROVE  ReaderInv'
  BY <1>2, <1>3, RunMeets, ReaderRuns DEF Always
<1>4. ASSUME UNCHANGED <<solvers_w, external, readonly, pin, raised>>
      PROVE  ReaderInv'
  BY <1>2, <1>4, OthersFrame DEF ReaderInv, PinnedRead, ReadersPinned
<1>5. ASSUME NEW c \in Cons, AlwaysRaises(c)
      PROVE  ReaderInv'
  BY <1>5, BreakMeets, ReaderRuns DEF AlwaysRaises
<1>. QED
  BY <1>3, <1>4, <1>5 DEF UserStep, Enable, Disable, SetStrength, Read, Assign, MultiAssign

LEMMA InitReaders == Init => ReaderInv
  BY DEF Init, ReaderInv, OthersRead, Others, PinnedRead, ReadersPinned

LEMMA NextReaders == Inv /\ BeginInv /\ ReaderInv /\ [Next]_vars => ReaderInv'
<1>. SUFFICES ASSUME Inv, BeginInv, ReaderInv, [Next]_vars PROVE ReaderInv'
  OBVIOUS
<1>1. CASE Step
  <2>1. CASE RecalculateRaises
    BY <2>1, RecalculateRaisesDoes, BreakMeets, ReaderRuns
  <2>. QED
    BY <1>1, <2>1, ReaderQuietCalls, ReaderBegins, ReaderGets, ReaderLoops, ReaderPins,
       ReaderRecalculates, Zenon DEF Step
<1>2. CASE UserStep
  BY <1>2, ReaderProgram
<1>3. CASE UNCHANGED vars
  BY <1>3, OthersFrame DEF vars, varState, solverState, ReaderInv, PinnedRead, ReadersPinned,
     PinSoon, Pending, CallsIn
<1>. QED
  BY <1>1, <1>2, <1>3, Zenon DEF Next

(* In the middle of reads, assignments and joins a solver that only reads  *)
(* a variable has it pinned, or a pending call pins it again.              *)
THEOREM ReaderInvHolds == Spec => [](BeginInv /\ ReaderInv)
  BY InitBegin, InitReaders, NextBegin, NextReaders, InvHolds, PTL DEF Spec

(* Every solver that knows a variable but does not define it may only read *)
(* it, in whatever order the blocks ran and whichever solver took the      *)
(* variable over; and when the program runs exactly the readers have it    *)
(* pinned (constraintinterpreter.py:262-272, 434-478).                     *)
THEOREM ReadersStayPinned == Spec => []ReadersArePinned
<1>1. ReaderInv => ReadersArePinned
  <2>. SUFFICES ASSUME ReaderInv PROVE ReadersArePinned
    OBVIOUS
  <2>1. \A x \in Vars : external[x] \ {DefiningSolver(x)} \subseteq readonly[x]
    BY DEF ReaderInv, OthersRead, Others
  <2>2. Quiet => \A x \in Vars : ~PinSoon(x)
    BY DEF Quiet, Idle, PinSoon, Pending, CallsIn
  <2>. QED
    BY <2>1, <2>2 DEF ReadersArePinned, ReaderInv, PinnedRead, ReadersPinned, Quiet
<1>. QED
  BY <1>1, ReaderInvHolds, PTL
=============================================================================
