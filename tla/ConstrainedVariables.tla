------------------------ MODULE ConstrainedVariables ------------------------
(***************************************************************************)
(* Constrained variables, the constraints over them and the solvers that   *)
(* own their values (topaz/constraintinterpreter.py,                       *)
(* topaz/objects/constraintobject.py, topaz/objects/z3object.py and        *)
(* lib-ruby/libz3.rb).                                                     *)
(*                                                                         *)
(* The VM runs one Ruby thread, so nothing interleaves with an assignment; *)
(* what makes the protocol hard is that one assignment is a long chain of  *)
(* calls, any solver call and any block run of the chain may raise, and    *)
(* the chain has no `try'.  The pending calls are the sequence `agenda': a *)
(* step executes its head, which may put further calls in front of the     *)
(* rest, and a raise drops whatever is left.  The program acts only when   *)
(* it is empty.                                                            *)
(***************************************************************************)
EXTENDS Integers, Sequences, FiniteSets

CONSTANTS
  Vars,       \* instance variables the program constrains
  Solvers,    \* solver instances; each behaves as the adapter in libz3.rb
  NoSolver,   \* Python's None in solvers_w
  Values,     \* the values variables take
  NoValue,    \* nil: no proposal, no read-only pin
  Cons,       \* the `always' blocks of the program
  NoEnv,      \* the block has not been run to its end yet
  Emptied,    \* the list of primitives was emptied and the block then raised
  Weight,     \* Weight[s]: what Solver#weight answers
  Supported,  \* {<<x, s>>}: s answers constraint_variable_for(value of x)
  SolverOf,   \* SolverOf[c]: the :solver option of the block
  Reads(_, _),  \* the variables the block c reads when the slots hold m
  Holds(_, _),  \* the block c holds for the valuation m of Vars
  Breaks(_, _), \* where the block c may raise when the slots hold m: pairs of
                \* the variables it read and of those it met by then
  Unsure,     \* solvers whose check may not come to an answer
  UserOps,    \* which operations the program uses
  MaxCopies   \* bound: copies of one primitive an adapter may hold

ASSUME ConstantsAssumption ==
  /\ Weight \in [Solvers -> Int]
  /\ SolverOf \in [Cons -> Solvers]
  /\ \A c \in Cons : \A m \in [Vars -> Values] :
       Reads(c, m) \subseteq Vars /\ Holds(c, m) \in BOOLEAN
  /\ Supported \subseteq Vars \X Solvers
  /\ Values # {}
  /\ NoSolver \notin Solvers /\ Unsure \subseteq Solvers
  /\ NoValue \notin Values
  /\ NoEnv # Emptied
  /\ {NoEnv, Emptied} \cap UNION {[xs -> Values] : xs \in SUBSET Vars} = {}
  /\ MaxCopies \in Nat \ {0}

(* defining_solver starts from -1000 and compares with `>': a solver at or *)
(* below it never defines a variable and get_value would send to None.     *)
ASSUME WeightAssumption == \A s \in Solvers : Weight[s] > -1000

(* A variable the block's solver knows is an object to the block, and true: *)
(* which variables it reads is settled by its constants alone.             *)
ASSUME PathAssumption ==
  \A c \in Cons, m, n \in [Vars -> Values] :
    (\A x \in Reads(c, m) : <<x, SolverOf[c]>> \notin Supported => m[x] = n[x])
      => Reads(c, n) = Reads(c, m)

(* A block that raises has met the variables it read, and at most the one  *)
(* that ensure_external_variable raised at: its slot is there already.     *)
ASSUME BreaksAssumption ==
  \A c \in Cons, m \in [Vars -> Values] : \A b \in Breaks(c, m) :
    \E read, met \in SUBSET Reads(c, m) : b = <<read, met>> /\ read \subseteq met

(* What it answers is settled by the variables it reads.                   *)
ASSUME AnswerAssumption ==
  \A c \in Cons, m, n \in [Vars -> Values] :
    (\A x \in Reads(c, m) : m[x] = n[x]) => Holds(c, n) = Holds(c, m)

(* Solvers are finitely many, so some are the heaviest.                    *)
ASSUME HeaviestAssumption ==
  \A S \in SUBSET Solvers : S # {} => \E s \in S : \A t \in S : Weight[t] <= Weight[s]

VARIABLES
  stored,        \* stored[x]: the slot in the object (load_value)
  solvers_w,     \* solvers_w[x]: solvers in the order the variable met them
  external,      \* external[x]: the solvers it has an external variable in
  readonly,      \* readonly[x]: those whose variable is marked read-only
  constraints_w, \* constraints_w[x][s]: the blocks of s that read x, oldest first
  enabled,       \* enabled[c]: Constraint#enabled
  env,           \* env[c]: what the last run of the block read as constants
  asserted,      \* asserted[c][e]: copies of that primitive in the adapter
  proposal,      \* proposal[x][s]: @proposed_value_constraint
  leaked,        \* proposals still asserted whose handle was overwritten
  pin,           \* pin[x][s]: @ro_constraint
  model,         \* model[s]: the last model, empty after a failed check
  w_value,       \* w_value[x][s]: the value kept in the Z3 pointer
  agenda,        \* pending calls, the running one first
  raised,        \* some call has raised an error to the program
  focus          \* the variables the last operation read or assigned

varState    == <<stored, solvers_w, external, readonly, constraints_w>>
solverState == <<asserted, proposal, leaked, pin, model, w_value>>
vars == <<varState, enabled, env, solverState, agenda, raised, focus>>

-----------------------------------------------------------------------------
(* What the code computes from the state.                                  *)

IsConstrained(x) == solvers_w[x] # <<>>
IsSolveable(x)   == external[x] # {}

(* The heaviest solver with an external variable; the first one on a tie.  *)
Least(I) == CHOOSE i \in I : \A j \in I : i <= j
Heaviest(S) == {s \in S : \A t \in S : Weight[t] <= Weight[s]}
FirstHeaviest(slots, S) == slots[Least({i \in DOMAIN slots : slots[i] \in Heaviest(S)})]
DefiningSolver(x) ==
  IF IsSolveable(x) THEN FirstHeaviest(solvers_w[x], external[x]) ELSE NoSolver

(* Z3Pointer#value: the model's interpretation, else the value last seen.  *)
ValueOf(x, s) == IF x \in DOMAIN model[s] THEN model[s][x] ELSE w_value[x][s]

HasPrimitive(c) == env[c] \notin {NoEnv, Emptied}

(* A run of a block: variables its solver knows enter the primitive as     *)
(* symbols; the others, the path to them included, enter as the constants  *)
(* they are at the time.  e is such a snapshot.                            *)
Constants(c, m) == {x \in Reads(c, m) : <<x, SolverOf[c]>> \notin Supported}
SnapshotOf(c, m) == [x \in Constants(c, m) |-> m[x]]
Snapshot(c)     == SnapshotOf(c, stored)
Envs(c)         == {SnapshotOf(c, m) : m \in [Vars -> Values]}
Fill(e)         == [x \in Vars |-> IF x \in DOMAIN e THEN e[x] ELSE CHOOSE v \in Values : TRUE]
Symbols(c, e)   == Reads(c, Fill(e)) \ DOMAIN e
IsBoolean(c, e) == Symbols(c, e) = {}        \* the block answers true or false
Satisfies(c, e, m) ==
  Holds(c, [x \in Vars |-> IF x \in Symbols(c, e) THEN m[x] ELSE Fill(e)[x]])

(* What solver s has been told, and the models that satisfy it.            *)
Asserted(s)  == UNION {{c} \X {e \in Envs(c) : asserted[c][e] > 0} :
                         c \in {d \in Cons : SolverOf[d] = s}}
Equalities(s) ==
  {xv \in Vars \X Values : \/ xv[2] \in {pin[xv[1]][s], proposal[xv[1]][s]}
                           \/ <<xv[1], s, xv[2]>> \in leaked}
Mentioned(s) == {x \in Vars : \/ \E v \in Values : <<x, v>> \in Equalities(s)
                              \/ \E ce \in Asserted(s) :
                                   x \in Symbols(ce[1], ce[2])}
IsModel(s, m) == /\ \A xv \in Equalities(s) : m[xv[1]] = xv[2]
                 /\ \A ce \in Asserted(s) : Satisfies(ce[1], ce[2], m)
Models(s) == {m \in [Mentioned(s) -> Values] : IsModel(s, m)}
NoModel == [x \in {} |-> NoValue]

-----------------------------------------------------------------------------
(* The agenda.                                                             *)

Call(f, a) == [fn |-> f, arg |-> a]
Calls ==
  [fn : {"__begin_assign__"}, arg : Vars \X Values] \cup
  [fn : {"__assign__", "get_i", "make_not_assignable"}, arg : Vars] \cup
  [fn : {"assign others", "update_downstream_variables", "__end_assign__"},
   arg : Vars \X Nat] \cup
  [fn : {"recalculate_path"}, arg : Vars \X Nat \X Nat] \cup
  [fn : {"begin_assign", "end_assign"}, arg : Vars \X Solvers] \cup
  [fn : {"solve"}, arg : Solvers] \cup
  [fn : {"recalculate", "enable", "set_enabled"}, arg : Cons]

Idle == agenda = <<>>
Ready == Idle /\ (raised => "rescue" \in UserOps)   \* the program goes on
Quiet == Idle /\ ~raised
Running(f) == agenda # <<>> /\ agenda[1].fn = f
Arg == agenda[1].arg

Return        == agenda' = Tail(agenda) /\ UNCHANGED <<raised, focus>>
Continue(new) == agenda' = new \o Tail(agenda) /\ UNCHANGED <<raised, focus>>
RaiseError    == agenda' = <<>> /\ raised' = TRUE /\ UNCHANGED focus

(* The loops over external_variables_w: f<<x, i>> goes on with the first    *)
(* slot from i on whose solver is in S, doing body(s) for it.              *)
ForEachSolver(f, x, i, S, body(_), after) ==
  LET I == {j \in DOMAIN solvers_w[x] : i <= j /\ solvers_w[x][j] \in S}
  IN  Continue(IF I = {} THEN after
               ELSE body(solvers_w[x][Least(I)]) \o <<Call(f, <<x, Least(I) + 1>>)>>)

(* The external variables other than the defining one.                     *)
Others(x) == external[x] \ {DefiningSolver(x)}

(* The blocks attached to x under solvers it is unknown to, by their place *)
(* in constraints_w, and those from place p on.  A slot without blocks is  *)
(* None in that list when a later one has some (get_solver_constraints_w   *)
(* pads it): the slot of NoSolver always is.                               *)
(* Mutant: a variable with a solver is taken not to be on any path.        *)
PathSlotsUnsolved(x) ==
  IF IsSolveable(x) THEN {} ELSE {i \in DOMAIN solvers_w[x] : solvers_w[x][i] # NoSolver}
PathSlots(x)  == {i \in DOMAIN solvers_w[x] : solvers_w[x][i] \in Solvers \ external[x]}
PathBlocks(x) == UNION {{i} \X DOMAIN constraints_w[x][solvers_w[x][i]] : i \in PathSlots(x)}
Nones(x) ==
  LET Listed(i) == solvers_w[x][i] # NoSolver /\ constraints_w[x][solvers_w[x][i]] # <<>>
  IN  {i \in DOMAIN solvers_w[x] : /\ solvers_w[x][i] \notin external[x] /\ ~Listed(i)
                                   /\ \E k \in DOMAIN solvers_w[x] : i < k /\ Listed(k)}
NotBefore(p, q) == p[1] > q[1] \/ (p[1] = q[1] /\ p[2] >= q[2])

-----------------------------------------------------------------------------
(* Calls on a variable.                                                    *)

(* Looking up the solver None, as defining_variable does for a variable    *)
(* that is in no solver, appends it to solvers_w.                          *)
LookUpDefining(x) ==
  solvers_w' = IF IsSolveable(x) \/ \E i \in DOMAIN solvers_w[x] : solvers_w[x][i] = NoSolver
               THEN solvers_w
               ELSE [solvers_w EXCEPT ![x] = Append(@, NoSolver)]

MakeAssignable(x) ==
  [pin EXCEPT ![x] = [s \in Solvers |-> IF s \in readonly[x] THEN NoValue ELSE pin[x][s]]]

(* begin_assign in libz3.rb: a second call overwrites the only handle.     *)
Propose(x, s, v) ==
  /\ proposal' = [proposal EXCEPT ![x][s] = v]
  /\ leaked' = IF proposal[x][s] = NoValue THEN leaked
               ELSE leaked \cup {<<x, s, proposal[x][s]>>}

BeginAssignVariable ==
  /\ Running("__begin_assign__")
  /\ LET x == Arg[1]
         v == Arg[2]
     IN /\ stored' = [stored EXCEPT ![x] = v]
        /\ IF IsConstrained(x)
           THEN /\ pin' = MakeAssignable(x)
                /\ LookUpDefining(x)
                /\ IF IsSolveable(x) THEN Propose(x, DefiningSolver(x), v)
                                     ELSE UNCHANGED <<proposal, leaked>>
           ELSE UNCHANGED <<pin, solvers_w, proposal, leaked>>
  /\ Return
  /\ UNCHANGED <<external, readonly, constraints_w, enabled, env, asserted,
                 model, w_value>>

(* Mutants: the solver is not run; the proposal is withdrawn here as well.  *)
AssignCallsUnsolved(x) == <<Call("get_i", x), Call("assign others", <<x, 1>>)>>
AssignCallsTwiceEnded(x) ==
  <<Call("solve", DefiningSolver(x)), Call("end_assign", <<x, DefiningSolver(x)>>),
    Call("get_i", x), Call("assign others", <<x, 1>>)>>
AssignCalls(x) ==
  <<Call("solve", DefiningSolver(x)), Call("get_i", x), Call("assign others", <<x, 1>>)>>

AssignVariable ==
  /\ Running("__assign__")
  /\ LookUpDefining(Arg)
  /\ Continue(IF IsSolveable(Arg) THEN AssignCalls(Arg) ELSE <<>>)
  /\ UNCHANGED <<stored, external, readonly, constraints_w, enabled, env,
                 solverState>>

AssignOthers ==
  /\ Running("assign others")
  /\ LET x == Arg[1] IN
       ForEachSolver("assign others", x, Arg[2], Others(x),
         LAMBDA s : <<Call("begin_assign", <<x, s>>), Call("solve", s)>>, <<>>)
  /\ UNCHANGED <<varState, enabled, env, solverState>>

(* What ends __end_assign__ and update_downstream_variables alike.         *)
(* Mutants: the variable stays assignable; nothing follows the change.     *)
AfterwardsAssignable(x) == <<Call("recalculate_path", <<x, 1, 1>>)>>
AfterwardsNothing(x) == <<>>
Afterwards(x) == <<Call("make_not_assignable", x)>>

EndAssignVariable ==
  /\ Running("__end_assign__")
  /\ LET x == Arg[1] IN
       ForEachSolver("__end_assign__", x, Arg[2], external[x],
         LAMBDA s : <<Call("end_assign", <<x, s>>)>>, Afterwards(x))
  /\ UNCHANGED <<varState, enabled, env, solverState>>

(* Mutant: off by one.                                                     *)
IsSharedByThree(x) == Len(solvers_w[x]) > 2
IsShared(x) == Len(solvers_w[x]) > 1

(* get_i: the defining solver's value is stored, and a variable that has   *)
(* met several solvers offers it to the others.                            *)
GetI ==
  /\ Running("get_i")
  /\ LET d == DefiningSolver(Arg)
         v == ValueOf(Arg, d)
     IN /\ stored' = [stored EXCEPT ![Arg] = v]
        /\ w_value' = [w_value EXCEPT ![Arg][d] = v]
  /\ IF IsShared(Arg)
     THEN /\ pin' = MakeAssignable(Arg)
          /\ Continue(<<Call("update_downstream_variables", <<Arg, 1>>)>>)
     ELSE UNCHANGED pin /\ Return
  /\ UNCHANGED <<solvers_w, external, readonly, constraints_w, enabled, env,
                 asserted, proposal, leaked, model>>

(* Mutant: the value offered to another solver is never withdrawn.         *)
OfferUnended(x, s) == <<Call("begin_assign", <<x, s>>), Call("solve", s)>>
Offer(x, s) ==
  <<Call("begin_assign", <<x, s>>), Call("solve", s), Call("end_assign", <<x, s>>)>>

UpdateDownstreamVariables ==
  /\ Running("update_downstream_variables")
  /\ LET x == Arg[1] IN
       ForEachSolver("update_downstream_variables", x, Arg[2], Others(x),
         LAMBDA s : Offer(x, s), Afterwards(x))
  /\ UNCHANGED <<varState, enabled, env, solverState>>

(* Mutant: the pin is the slot's value instead of the solver's.            *)
PinSlot ==
  /\ Running("make_not_assignable")
  /\ LET lock == {s \in readonly[Arg] : pin[Arg][s] = NoValue} IN
       pin' = [pin EXCEPT ![Arg] =
         [s \in Solvers |-> IF s \in lock THEN stored[Arg] ELSE pin[Arg][s]]]
  /\ Continue(<<Call("recalculate_path", <<Arg, 1, 1>>)>>)
  /\ UNCHANGED <<varState, enabled, env, asserted, proposal, leaked, model, w_value>>

(* make_not_assignable, then recalculate_path for the blocks of solvers    *)
(* the variable is unknown to.                                             *)
MakeNotAssignable ==
  /\ Running("make_not_assignable")
  /\ LET lock == {s \in readonly[Arg] : pin[Arg][s] = NoValue} IN
       /\ pin' = [pin EXCEPT ![Arg] =
            [s \in Solvers |-> IF s \in lock THEN ValueOf(Arg, s) ELSE pin[Arg][s]]]
       /\ w_value' = [w_value EXCEPT ![Arg] =
            [s \in Solvers |-> IF s \in lock THEN ValueOf(Arg, s) ELSE w_value[Arg][s]]]
  /\ Continue(<<Call("recalculate_path", <<Arg, 1, 1>>)>>)
  /\ UNCHANGED <<varState, enabled, env, asserted, proposal, leaked, model>>

(* The loop reaches a None before the next block.  recalculate_path        *)
(* iterates over it, which is no error of the program's: the VM is gone.   *)
MeetsNone ==
  LET x == Arg[1]
      todo == {p \in PathBlocks(x) : NotBefore(p, <<Arg[2], Arg[3]>>)}
  IN  \E i \in Nones(x) : /\ NotBefore(<<i, 1>>, <<Arg[2], Arg[3]>>)
                          /\ \A p \in todo : i < p[1]

RecalculatePath ==
  /\ Running("recalculate_path")
  /\ ~MeetsNone
  /\ LET x == Arg[1]
         todo == {p \in PathBlocks(x) : NotBefore(p, <<Arg[2], Arg[3]>>)}
         i == Least({p[1] : p \in todo})
         j == Least({p[2] : p \in {q \in todo : q[1] = i}})
     IN IF todo = {} THEN Return
        ELSE Continue(<<Call("recalculate", constraints_w[x][solvers_w[x][i]][j]),
                        Call("recalculate_path", <<x, i, j + 1>>)>>)
  /\ UNCHANGED <<varState, enabled, env, solverState>>

-----------------------------------------------------------------------------
(* Calls on a solver.                                                      *)

BeginAssign ==
  /\ Running("begin_assign")
  /\ Propose(Arg[1], Arg[2], stored[Arg[1]])
  /\ Return
  /\ UNCHANGED <<varState, enabled, env, asserted, pin, model, w_value>>

Solve ==
  /\ Running("solve")
  /\ \/ \E m \in Models(Arg) : model' = [model EXCEPT ![Arg] = m] /\ Return
     \/ /\ Models(Arg) = {} \/ Arg \in Unsure   \* unsatisfiable, or cannot tell
        /\ model' = [model EXCEPT ![Arg] = NoModel]
        /\ RaiseError
  /\ UNCHANGED <<varState, enabled, env, asserted, proposal, leaked, pin, w_value>>

(* remove_constraint(nil) is a TypeError.                                  *)
EndAssign ==
  /\ Running("end_assign")
  /\ proposal' = [proposal EXCEPT ![Arg[1]][Arg[2]] = NoValue]
  /\ IF proposal[Arg[1]][Arg[2]] = NoValue THEN RaiseError ELSE Return
  /\ UNCHANGED <<varState, enabled, env, asserted, leaked, pin, model, w_value>>

-----------------------------------------------------------------------------
(* Running a block: every variable it reads meets the block's solver,      *)
(* which may take the variable over from another.                          *)

Joins(x, s)    == <<x, s>> \in Supported /\ s \notin external[x]
SlotsWith(x, s) == IF \E i \in DOMAIN solvers_w[x] : solvers_w[x][i] = s
                   THEN solvers_w[x] ELSE Append(solvers_w[x], s)
DefinesAfter(x, s) == FirstHeaviest(SlotsWith(x, s), external[x] \cup {s})

(* update_readonly_annotations also meets the empty slots of solvers that  *)
(* do not know the variable; make_readonly(None) then falls back to the    *)
(* joining solver's variable, defining or not.                             *)
HasHole(x, s) ==
  LET slots == SlotsWith(x, s) IN
    \E i, j \in DOMAIN slots : /\ i < j
                               /\ slots[i] \notin external[x] \cup {s}
                               /\ slots[j] \in external[x] \cup {s}
NewlyReadonly(x, s) ==
  ((external[x] \cup {s}) \ (readonly[x] \cup {DefinesAfter(x, s)}))
    \cup (IF HasHole(x, s) THEN {s} ELSE {})

(* Mutant: the cached value is taken for the solver's.                     *)
CachedAtJoin(x, s, t) == IF t = s THEN stored[x] ELSE w_value[x][t]
ValueAtJoin(x, s, t) == IF t = s THEN stored[x] ELSE ValueOf(x, t)

MeetVariables(c, read, met) ==
  LET s      == SolverOf[c]
      joins  == {x \in read : Joins(x, s)}
      locks(x) == IF x \in joins THEN NewlyReadonly(x, s) ELSE {}
  IN
  /\ solvers_w' = [x \in Vars |-> IF x \in met THEN SlotsWith(x, s) ELSE solvers_w[x]]
  /\ external' = [x \in Vars |-> IF x \in joins THEN external[x] \cup {s} ELSE external[x]]
  /\ readonly' = [x \in Vars |-> readonly[x] \cup locks(x)]
  /\ constraints_w' = [x \in Vars |->
       IF x \in read /\ \A i \in DOMAIN constraints_w[x][s] : constraints_w[x][s][i] # c
       THEN [constraints_w[x] EXCEPT ![s] = Append(@, c)] ELSE constraints_w[x]]
  /\ w_value' = [x \in Vars |-> [t \in Solvers |->
       IF t \in locks(x) \/ (t = s /\ x \in joins) THEN ValueAtJoin(x, s, t)
       ELSE w_value[x][t]]]
  /\ pin' = [x \in Vars |-> [t \in Solvers |->
       IF t \in locks(x) THEN ValueAtJoin(x, s, t) ELSE pin[x][t]]]

RunPredicate(c) ==
  /\ MeetVariables(c, Reads(c, stored), Reads(c, stored))
  /\ env' = [env EXCEPT ![c] = Snapshot(c)]

(* The block raises: what it read stays attached, no primitive is added.   *)
(* The constrained variable made for the one it raised at is lost.         *)
BreakOff(c) ==
  \E b \in Breaks(c, stored) :
    MeetVariables(c, b[1], {x \in b[2] : x \in b[1] \/ IsConstrained(x)})

-----------------------------------------------------------------------------
(* Calls on a constraint.                                                  *)

(* Mutant: nothing is removed.                                              *)
RetractNothing(c) == asserted' = asserted
Retract(c) ==
  IF HasPrimitive(c)
  THEN asserted' = [asserted EXCEPT ![c][env[c]] = IF @ > 0 /\ ~IsBoolean(c, env[c]) THEN @ - 1 ELSE @]
  ELSE UNCHANGED asserted

Recalculate ==
  /\ Running("recalculate")
  /\ IF enabled[Arg]
     THEN /\ Retract(Arg)
          /\ enabled' = [enabled EXCEPT ![Arg] = FALSE]
          /\ RunPredicate(Arg)
          /\ Continue(<<Call("enable", Arg)>>)
     ELSE /\ UNCHANGED <<asserted, enabled, env, solvers_w, external, readonly,
                         constraints_w, pin, w_value>>
          /\ Return
  /\ UNCHANGED <<stored, proposal, leaked, model>>

(* The same with a block that raises: the flag is cleared and the list is  *)
(* emptied before the block is run.                                        *)
RecalculateRaises ==
  /\ Running("recalculate") /\ enabled[Arg]
  /\ Retract(Arg)
  /\ enabled' = [enabled EXCEPT ![Arg] = FALSE]
  /\ BreakOff(Arg)
  /\ env' = [env EXCEPT ![Arg] = Emptied]
  /\ RaiseError
  /\ UNCHANGED <<stored, proposal, leaked, model>>

(* Mutants: the primitive is added and the solver is not run; the reverse. *)
SolveUnadded(c) ==
  /\ UNCHANGED asserted
  /\ Continue(<<Call("solve", SolverOf[c]), Call("set_enabled", c)>>)
AddUnsolved(c) ==
  /\ asserted' = [asserted EXCEPT ![c][env[c]] = @ + 1]
  /\ Continue(<<Call("set_enabled", c)>>)
AddPrimitive(c) ==
  /\ asserted' = [asserted EXCEPT ![c][env[c]] = @ + 1]
  /\ Continue(<<Call("solve", SolverOf[c]), Call("set_enabled", c)>>)

(* enable: a block that answered true is only watched, one that answered   *)
(* false cannot be asserted, a primitive is added and the solver is run.   *)
(* Without a primitive there is nothing to go through.                     *)
EnableConstraint ==
  /\ Running("enable")
  /\ \/ /\ enabled[Arg]
        /\ UNCHANGED asserted /\ Return
     \/ /\ ~enabled[Arg] /\ ~HasPrimitive(Arg)
        /\ UNCHANGED asserted /\ Continue(<<Call("set_enabled", Arg)>>)
     \/ /\ ~enabled[Arg] /\ HasPrimitive(Arg) /\ IsBoolean(Arg, env[Arg])
        /\ UNCHANGED asserted
        /\ IF Holds(Arg, Fill(env[Arg])) THEN Continue(<<Call("set_enabled", Arg)>>)
                                    ELSE RaiseError
     \/ /\ ~enabled[Arg] /\ HasPrimitive(Arg) /\ ~IsBoolean(Arg, env[Arg])
        /\ AddPrimitive(Arg)
  /\ UNCHANGED <<varState, enabled, env, proposal, leaked, pin, model, w_value>>

SetEnabled ==
  /\ Running("set_enabled")
  /\ enabled' = [enabled EXCEPT ![Arg] = TRUE]
  /\ Return
  /\ UNCHANGED <<varState, env, solverState>>

-----------------------------------------------------------------------------
(* Operations of the program, started when no call is pending.             *)

(* A constraint whose block raised is lost to the program, what it read    *)
(* keeps it attached.                                                      *)
IsNew(c) ==
  env[c] = NoEnv /\ \A x \in Vars, s \in Solvers :
                      \A i \in DOMAIN constraints_w[x][s] : constraints_w[x][s][i] # c
Always(c) ==
  /\ Ready /\ "always" \in UserOps /\ IsNew(c)
  /\ RunPredicate(c)
  /\ agenda' = <<Call("enable", c)>> /\ focus' = {}
  /\ UNCHANGED <<stored, enabled, asserted, proposal, leaked, model, raised>>

AlwaysRaises(c) ==
  /\ Ready /\ "always" \in UserOps /\ IsNew(c)
  /\ BreakOff(c)
  /\ agenda' = <<>> /\ raised' = TRUE /\ focus' = {}
  /\ UNCHANGED <<stored, enabled, env, asserted, proposal, leaked, model>>

Enable(c) ==
  /\ Ready /\ "enable" \in UserOps /\ env[c] # NoEnv /\ ~enabled[c]
  /\ HasPrimitive(c) => asserted[c][env[c]] < MaxCopies
  /\ agenda' = <<Call("enable", c)>> /\ focus' = {}
  /\ UNCHANGED <<varState, enabled, env, solverState, raised>>

Disable(c) ==
  /\ Ready /\ "disable" \in UserOps /\ enabled[c]
  /\ Retract(c)
  /\ enabled' = [enabled EXCEPT ![c] = FALSE]
  /\ focus' = {}
  /\ UNCHANGED <<varState, env, proposal, leaked, pin, model, w_value, agenda, raised>>

(* strength= on an enabled constraint: disable, then enable again.         *)
SetStrength(c) ==
  /\ Ready /\ "strength" \in UserOps /\ enabled[c]
  /\ Retract(c)
  /\ enabled' = [enabled EXCEPT ![c] = FALSE]
  /\ agenda' = <<Call("enable", c)>> /\ focus' = {}
  /\ UNCHANGED <<varState, env, proposal, leaked, pin, model, w_value, raised>>

Read(x) ==
  /\ Ready /\ "read" \in UserOps /\ IsSolveable(x)
  /\ agenda' = <<Call("get_i", x)>> /\ focus' = {x}
  /\ UNCHANGED <<varState, enabled, env, solverState, raised>>

(* x = v: begin, assign, end.  A variable without a ConstrainedVariable is  *)
(* just stored.                                                            *)
IfConstrained(x, call) == IF IsConstrained(x) THEN <<call>> ELSE <<>>
Assign(x, v) ==
  /\ Ready /\ "assign" \in UserOps
  /\ agenda' = <<Call("__begin_assign__", <<x, v>>)>> \o
               IfConstrained(x, Call("__assign__", x)) \o
               IfConstrained(x, Call("__end_assign__", <<x, 1>>))
  /\ focus' = {x}
  /\ UNCHANGED <<varState, enabled, env, solverState, raised>>

(* x, y = v, w: both stores begin, then each remembered variable is        *)
(* assigned, then each is ended.                                           *)
MultiAssign(x, v, y, w) ==
  /\ Ready /\ "multi" \in UserOps /\ x # y
  /\ agenda' = <<Call("__begin_assign__", <<x, v>>), Call("__begin_assign__", <<y, w>>)>> \o
               IfConstrained(x, Call("__assign__", x)) \o
               IfConstrained(y, Call("__assign__", y)) \o
               IfConstrained(x, Call("__end_assign__", <<x, 1>>)) \o
               IfConstrained(y, Call("__end_assign__", <<y, 1>>))
  /\ focus' = {x, y}
  /\ UNCHANGED <<varState, enabled, env, solverState, raised>>

-----------------------------------------------------------------------------
Init ==
  /\ stored \in [Vars -> Values]
  /\ solvers_w = [x \in Vars |-> <<>>]
  /\ external = [x \in Vars |-> {}]
  /\ readonly = [x \in Vars |-> {}]
  /\ constraints_w = [x \in Vars |-> [s \in Solvers |-> <<>>]]
  /\ enabled = [c \in Cons |-> FALSE]
  /\ env = [c \in Cons |-> NoEnv]
  /\ asserted = [c \in Cons |-> [e \in Envs(c) |-> 0]]
  /\ proposal = [x \in Vars |-> [s \in Solvers |-> NoValue]]
  /\ leaked = {}
  /\ pin = [x \in Vars |-> [s \in Solvers |-> NoValue]]
  /\ model = [s \in Solvers |-> NoModel]
  /\ w_value = [x \in Vars |-> [s \in Solvers |-> NoValue]]
  /\ agenda = <<>>
  /\ raised = FALSE
  /\ focus = {}

Step == \/ BeginAssignVariable \/ AssignVariable \/ AssignOthers
        \/ GetI \/ UpdateDownstreamVariables
        \/ EndAssignVariable \/ MakeNotAssignable \/ RecalculatePath
        \/ BeginAssign \/ Solve \/ EndAssign
        \/ Recalculate \/ RecalculateRaises \/ EnableConstraint \/ SetEnabled

UserStep == \/ \E c \in Cons : \/ Always(c) \/ AlwaysRaises(c)
                               \/ Enable(c) \/ Disable(c) \/ SetStrength(c)
            \/ \E x \in Vars : Read(x)
            \/ \E x \in Vars, v \in Values : Assign(x, v)
            \/ \E x, y \in Vars, v, w \in Values : MultiAssign(x, v, y, w)

Next == Step \/ UserStep
Spec == Init /\ [][Next]_vars

-----------------------------------------------------------------------------
(* Type invariant: the shape of every variable.                            *)
TypeOK ==
  /\ stored \in [Vars -> Values]
  /\ solvers_w \in [Vars -> Seq(Solvers \cup {NoSolver})]
  /\ external \in [Vars -> SUBSET Solvers]
  /\ readonly \in [Vars -> SUBSET Solvers]
  /\ constraints_w \in [Vars -> [Solvers -> Seq(Cons)]]
  /\ enabled \in [Cons -> BOOLEAN]
  /\ DOMAIN env = Cons /\ \A c \in Cons : env[c] \in Envs(c) \cup {NoEnv, Emptied}
  /\ DOMAIN asserted = Cons /\ \A c \in Cons : asserted[c] \in [Envs(c) -> Nat]
  /\ proposal \in [Vars -> [Solvers -> Values \cup {NoValue}]]
  /\ leaked \subseteq Vars \X Solvers \X Values
  /\ pin \in [Vars -> [Solvers -> Values \cup {NoValue}]]
  /\ DOMAIN model = Solvers
  /\ \A s \in Solvers : \E xs \in SUBSET Vars : model[s] \in [xs -> Values]
  /\ w_value \in [Vars -> [Solvers -> Values \cup {NoValue}]]
  /\ agenda \in Seq(Calls)
  /\ raised \in BOOLEAN
  /\ focus \subseteq Vars

(* What makes the invariants below inductive: external variables have a    *)
(* slot and a value, only blocks that were run are enabled or waiting and  *)
(* only one that raised has lost its primitive, a pinned variable shows    *)
(* its pin in the model and when there is none, a solver is only told of,  *)
(* and only answers for, variables it knows, and what is about to count as *)
(* enabled is asserted.                                                    *)
SlotsKnown == \A x \in Vars : \A s \in external[x] :
  /\ w_value[x][s] \in Values
  /\ \E i \in DOMAIN solvers_w[x] : solvers_w[x][i] = s
RunBlocks == \A c \in Cons : /\ enabled[c] => env[c] # NoEnv
                             /\ env[c] = Emptied => raised
PendingOK(call) ==
  /\ call.fn \in {"begin_assign", "end_assign"} => call.arg[2] \in external[call.arg[1]]
  /\ call.fn = "get_i" => IsSolveable(call.arg)
  /\ call.fn \in {"enable", "set_enabled"} => env[call.arg] # NoEnv
PendingCalls == agenda \in Seq({call \in Calls : PendingOK(call)})
PinsAgree == \A x \in Vars, s \in Solvers : pin[x][s] # NoValue =>
  /\ s \in external[x]
  /\ w_value[x][s] = pin[x][s]
  /\ x \in DOMAIN model[s] => model[s][x] = pin[x][s]
ReadonlyKnown == \A x \in Vars : readonly[x] \subseteq external[x]
SymbolsKnown(c, e) == \A x \in Symbols(c, e) : SolverOf[c] \in external[x]
BlocksKnown == \A c \in Cons :
  /\ HasPrimitive(c) => SymbolsKnown(c, env[c])
  /\ \A e \in Envs(c) : asserted[c][e] > 0 => SymbolsKnown(c, e)
SolversKnow ==
  /\ \A x \in Vars, s \in Solvers : proposal[x][s] # NoValue => s \in external[x]
  /\ \A xsv \in leaked : xsv[2] \in external[xsv[1]]
  /\ \A s \in Solvers : \A x \in DOMAIN model[s] : s \in external[x]
EnablingSoon == \A i \in DOMAIN agenda : agenda[i].fn = "set_enabled" =>
  /\ i = 1 \/ (i = 2 /\ agenda[1].fn = "solve")
  /\ HasPrimitive(agenda[i].arg) => \/ IsBoolean(agenda[i].arg, env[agenda[i].arg])
                                     \/ asserted[agenda[i].arg][env[agenda[i].arg]] > 0
(* Also after errors the program rescued, of solvers and of blocks, the    *)
(* primitive of a constraint that counts as enabled is in its solver:      *)
(* method_enable sets the flag last, disable and recalculate clear it      *)
(* before anything can raise.  A constraint may count as enabled and have  *)
(* no primitive at all, see EnabledHasPrimitive below.                     *)
EnabledIsAsserted ==
  \A c \in Cons : enabled[c] /\ HasPrimitive(c) /\ ~IsBoolean(c, env[c])
                    => asserted[c][env[c]] > 0

(* The inductive invariant: the pins of the code never lose touch with what *)
(* the solvers hold, nor do the flags of constraints that have a primitive, *)
(* after errors of solvers, of end_assign and of blocks.                   *)
Inv == /\ TypeOK /\ SlotsKnown /\ RunBlocks /\ PendingCalls
       /\ ReadonlyKnown /\ BlocksKnown /\ SolversKnow /\ PinsAgree
       /\ EnablingSoon /\ EnabledIsAsserted

(* An operation that did not raise leaves no proposed equality behind: each *)
(* begin_assign of the chain, the ones for downstream solvers included, is  *)
(* matched by one end_assign.                                               *)
NoLeftovers ==
  Quiet => /\ leaked = {}
           /\ \A x \in Vars, s \in Solvers : proposal[x][s] = NoValue

(* Every solver that knows a variable but does not define it may only read *)
(* it (update_readonly_annotations), in whatever order the blocks were run *)
(* and whichever solver took the variable over; and whenever the program   *)
(* runs exactly the readers have it pinned: make_assignable never goes     *)
(* without make_not_assignable, through every path of assign_value, get_i. *)
ReadersArePinned ==
  \A x \in Vars :
    /\ external[x] \ {DefiningSolver(x)} \subseteq readonly[x]
    /\ Quiet => \A s \in Solvers : pin[x][s] # NoValue <=> s \in readonly[x]

(* A pinned variable has the value it was pinned at, also in the middle of *)
(* a chain and after a failed check emptied the model: no solver moves     *)
(* what readonly! says it may only read.                                   *)
PinHolds ==
  \A x \in Vars, s \in Solvers : pin[x][s] # NoValue => ValueOf(x, s) = pin[x][s]

(* After reading or assigning a variable, the slot in the object and every *)
(* solver that knows the variable agree on its value (get_i,               *)
(* update_downstream_variables).                                           *)
Agreement ==
  Quiet => \A x \in Vars, s \in Solvers :
             focus = {x} /\ s \in external[x] => ValueOf(x, s) = stored[x]

(* Every enabled constraint was last evaluated with the values its         *)
(* constants have now: recalculate_path follows every change along a path, *)
(* also when the change came out of another solver.                        *)
SnapshotFresh ==
  Quiet => \A c \in Cons : enabled[c] => env[c] = Snapshot(c)

(* No end_assign runs without a proposal to withdraw, whatever raised      *)
(* before: remove_constraint(nil) would be a TypeError.  As the API of     *)
(* constraint objects puts it (constraintobject.py:27-29), begin_assign is *)
(* to "assert equality constraint", end_assign to "remove equality         *)
(* constraint".  It holds of assignments to one variable at a time.        *)
EndFollowsBegin ==
  Running("end_assign") => proposal[Arg[1]][Arg[2]] # NoValue

(* A solver holds exactly the primitives of the enabled constraints, once  *)
(* each, over enable, disable, strength= and recalculation.                *)
AssertedOnce ==
  Quiet => \A c \in Cons : \A e \in Envs(c) :
    asserted[c][e] = IF enabled[c] /\ e = env[c] /\ ~IsBoolean(c, e) THEN 1 ELSE 0

(* Whenever the program runs after calls that did not raise, what a solver *)
(* would answer for its variables, from the model or from the values kept  *)
(* when there is none, satisfies everything asserted in it.                *)
ModelSatisfies ==
  Quiet => \A s \in Solvers : IsModel(s, [x \in Vars |-> ValueOf(x, s)])

(* What the program reads: the defining solver's value, else the slot.     *)
Visible(x) == IF IsSolveable(x) THEN ValueOf(x, DefiningSolver(x)) ELSE stored[x]

(* An enabled constraint holds for the values the program would read, over *)
(* changes along its path (README.md:77-79: relations the program `always  *)
(* wants to be true').                                                     *)
EnabledHold ==
  Quiet => \A c \in Cons : enabled[c] => Holds(c, [x \in Vars |-> Visible(x)])

(* When a proposed equality is withdrawn in the regular way, the solver    *)
(* has adopted the assigned value: __assign__ solved in between.           *)
AssignedWins ==
  [][\A x \in Vars, s \in Solvers :
       proposal[x][s] # NoValue /\ proposal'[x][s] = NoValue
         => ValueOf(x, s) = proposal[x][s]]_vars

(* What the repository says of the program, where the code does otherwise. *)

(* constraintobject.py:27-29: begin_assign asserts an equality constraint, *)
(* end_assign removes it: none outlives the assignment it was made for.    *)
EqualityRemoved ==
  Idle => leaked = {} /\ \A x \in Vars, s \in Solvers : proposal[x][s] = NoValue

(* constraintobject.py:258-259: what Constraint#value answers is the "last *)
(* added constraint object": a constraint that counts as enabled has one.  *)
EnabledHasPrimitive == \A c \in Cons : enabled[c] => HasPrimitive(c)

(* README.md:77-79: a program writes relations it `always wants to be      *)
(* true' and the system maintains them: the loops over the blocks along a  *)
(* path come to each block, they never meet an entry that is no list.      *)
PathsAreLists == Running("recalculate_path") => ~MeetsNone
=============================================================================
