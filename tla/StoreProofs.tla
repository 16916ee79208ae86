----------------------------- MODULE StoreProofs -----------------------------
(* The assignment protocol with solvers that share no variable implements  *)
(* ConstraintStore: whatever calls an operation makes, in whatever order   *)
(* the solvers run, the program sees one step of the store when it is over. *)
EXTENDS ModelProofs, ConstrainedVariablesStore

-----------------------------------------------------------------------------
(* The constraints that are in force, or will be when no call is pending.  *)
Ruling == {c \in Cons : Live(c)}
SolveableVars == {x \in Vars : IsSolveable(x)}

(* What the calls of an operation owe to h, which the program read before  *)
(* it: at most the constraint that is declared comes into force, solvers   *)
(* give no variable back, and of the others only those move that are       *)
(* assigned.                                                               *)
BeginsInFocus == \A x \in Vars, v \in Values :
  Call("__begin_assign__", <<x, v>>) \in Pending => x \in focus
Track(h) ==
  /\ focus # {} => Ruling = h.rules /\ \E x, y \in Vars : focus = {x, y}
  /\ focus = {} => Ruling = h.rules \/ \E c \in Cons : Ruling = h.rules \cup {c}
  /\ h.owned \subseteq SolveableVars
  /\ \A x \in Vars \ focus : ~IsSolveable(x) => stored[x] = h.value[x]
  /\ BeginsInFocus

LEMMA OwnersStay == Inv /\ Next => \A x \in Vars : external[x] \subseteq external'[x]
<1>. SUFFICES ASSUME Inv, Next PROVE \A x \in Vars : external[x] \subseteq external'[x]
  OBVIOUS
<1>1. ASSUME NEW c \in Cons, Meets(c)
      PROVE  \A x \in Vars : external[x] \subseteq external'[x]
  BY <1>1 DEF Meets, MeetVariables
<1>. QED
  BY <1>1, RunsOrLooks, RunMeets, BreakMeets

LEMMA StepFocus == Step => UNCHANGED focus
<1>. SUFFICES ASSUME Step PROVE UNCHANGED focus
  OBVIOUS
<1>. USE DEF Return, Continue, RaiseError
<1>1. CASE \/ AssignOthers \/ UpdateDownstreamVariables \/ EndAssignVariable
  BY <1>1 DEF AssignOthers, UpdateDownstreamVariables, EndAssignVariable, ForEachSolver
<1>2. CASE \/ BeginAssignVariable \/ AssignVariable \/ GetI \/ MakeNotAssignable \/ RecalculatePath
  BY <1>2 DEF BeginAssignVariable, AssignVariable, GetI, MakeNotAssignable, RecalculatePath
<1>3. CASE \/ BeginAssign \/ Solve \/ EndAssign \/ Recalculate \/ EnableConstraint \/ SetEnabled
  BY <1>3 DEF BeginAssign, Solve, EndAssign, Recalculate, EnableConstraint, AddPrimitive, SetEnabled
<1>4. CASE RecalculateRaises
  BY <1>4 DEF RecalculateRaises
<1>. QED
  BY <1>1, <1>2, <1>3, <1>4, Zenon DEF Step

LEMMA NoRaise == ~raised' => ~RecalculateRaises /\ \A c \in Cons : ~AlwaysRaises(c)
  BY DEF RecalculateRaises, AlwaysRaises, RaiseError

(* A step of an operation that does not raise keeps what is in force.      *)
LEMMA StepRules ==
  ASSUME Inv, Step, ~raised'
  PROVE  Ruling' = Ruling
<1>. USE DEF varState, solverState
<1>1. agenda # <<>> => Pending = {agenda[1]} \cup Behind
  BY PendingNow
<1>. SUFFICES ASSUME NEW d \in Cons PROVE Live(d)' <=> Live(d)
  BY DEF Ruling
<1>. DEFINE E == Call("enable", d)
            S == Call("set_enabled", d)
<1>2. ASSUME agenda # <<>>, UNCHANGED enabled, Behind \subseteq Pending',
             agenda[1].fn \notin {"enable", "set_enabled"},
             \A call \in Pending' : call \in Behind \/ call.fn \notin {"enable", "set_enabled"}
      PROVE  Live(d)' <=> Live(d)
  <2>1. (E \in Pending' <=> E \in Pending) /\ (S \in Pending' <=> S \in Pending)
    BY <1>1, <1>2, CallIs
  <2>. QED
    BY <1>2, <2>1 DEF Live
<1>3. CASE \/ BeginAssignVariable \/ AssignVariable \/ AssignOthers
           \/ GetI \/ UpdateDownstreamVariables
           \/ EndAssignVariable \/ MakeNotAssignable \/ RecalculatePath
  <2>1. /\ agenda # <<>> /\ agenda[1].fn \in Additions \cup {"__begin_assign__", "__assign__"}
        /\ UNCHANGED enabled /\ Adds(Additions)
    BY <1>3, VariableCallsAdd
  <2>. QED
    BY <1>2, <2>1 DEF Adds, Additions
<1>4. CASE BeginAssign \/ Solve \/ EndAssign
  <2>1. /\ agenda # <<>> /\ agenda[1].fn \in {"begin_assign", "solve", "end_assign"}
        /\ UNCHANGED enabled /\ agenda' = Tail(agenda)
    <3>1. BeginAssign => /\ agenda # <<>> /\ agenda[1].fn = "begin_assign"
                         /\ UNCHANGED enabled /\ agenda' = Tail(agenda)
      BY BeginAssignDoes, CallIs, Zenon
    <3>2. Solve => /\ agenda # <<>> /\ agenda[1].fn = "solve"
                   /\ UNCHANGED enabled /\ (agenda' = Tail(agenda) \/ raised' = TRUE)
      BY SolveDoes, CallIs, Zenon
    <3>3. EndAssign => /\ agenda # <<>> /\ agenda[1].fn = "end_assign"
                       /\ UNCHANGED enabled /\ (agenda' = Tail(agenda) \/ raised' = TRUE)
      BY EndAssignDoes, CallIs, Zenon
    <3>. QED
      BY <1>4, <3>1, <3>2, <3>3
  <2>2. Pending' = Behind
    BY <2>1, PendingFew
  <2>. QED
    BY <1>2, <2>1, <2>2
<1>5. CASE Recalculate
  <2>1. PICK c \in Cons :
          /\ agenda # <<>> /\ agenda[1] = Call("recalculate", c)
          /\ \/ /\ enabled[c] /\ enabled' = [enabled EXCEPT ![c] = FALSE]
                /\ Pending' = {Call("enable", c)} \cup Behind
             \/ Pending' = Behind /\ UNCHANGED enabled
    BY <1>5, RecalculateLeaves
  <2>2. agenda[1] # E /\ agenda[1] # S /\ Call("enable", c) # S
        /\ (d # c => Call("enable", c) # E)
    BY <2>1, CallsEqual
  <2>3. CASE Pending' = Behind /\ UNCHANGED enabled
    BY <1>1, <2>1, <2>2, <2>3 DEF Live
  <2>4. CASE /\ enabled[c] /\ enabled' = [enabled EXCEPT ![c] = FALSE]
             /\ Pending' = {Call("enable", c)} \cup Behind
    <3>1. CASE d = c
      BY <2>4, <3>1 DEF Live
    <3>2. CASE d # c
      <4>1. enabled'[d] = enabled[d]
        BY <2>4, <3>2 DEF Inv, TypeOK
      <4>. QED
        BY <1>1, <2>1, <2>2, <2>4, <3>2, <4>1 DEF Live
    <3>. QED
      BY <3>1, <3>2
  <2>. QED
    BY <2>1, <2>3, <2>4
<1>6. CASE EnableConstraint
  <2>1. PICK c \in Cons :
          /\ agenda # <<>> /\ agenda[1] = Call("enable", c) /\ UNCHANGED enabled
          /\ \/ enabled[c] /\ Pending' = Behind
             \/ Pending' = {Call("set_enabled", c)} \cup Behind
             \/ Pending' = {Call("solve", SolverOf[c]), Call("set_enabled", c)} \cup Behind
    BY <1>6, EnableConstraintLeaves
  <2>2. /\ agenda[1] # S /\ Call("set_enabled", c) # E
        /\ Call("solve", SolverOf[c]) # E /\ Call("solve", SolverOf[c]) # S
        /\ d # c => agenda[1] # E /\ Call("set_enabled", c) # S
    BY <2>1, CallsEqual
  <2>3. CASE d = c
    BY <1>1, <2>1, <2>3 DEF Live
  <2>4. CASE d # c
    <3>1. (E \in Pending' <=> E \in Pending) /\ (S \in Pending' <=> S \in Pending)
      BY <1>1, <2>1, <2>2, <2>4
    <3>. QED
      BY <2>1, <3>1 DEF Live
  <2>. QED
    BY <2>3, <2>4
<1>7. CASE SetEnabled
  <2>1. PICK c \in Cons :
          /\ agenda # <<>> /\ agenda[1] = Call("set_enabled", c)
          /\ enabled' = [enabled EXCEPT ![c] = TRUE] /\ agenda' = Tail(agenda)
    BY <1>7, SetEnabledDoes
  <2>2. Pending' = Behind /\ agenda[1] # E /\ (d # c => agenda[1] # S)
    BY <2>1, PendingFew, CallsEqual
  <2>3. enabled'[d] = IF d = c THEN TRUE ELSE enabled[d]
    BY <2>1 DEF Inv, TypeOK
  <2>. QED
    BY <1>1, <2>1, <2>2, <2>3 DEF Live
<1>. QED
  BY <1>3, <1>4, <1>5, <1>6, <1>7, NoRaise, Zenon DEF Step

(* ... and what it owes.                                                   *)
LEMMA TrackStep ==
  ASSUME NEW h, Inv, Step, ~raised', Track(h)
  PROVE  Track(h)'
<1>. USE DEF varState, solverState
<1>1. Ruling' = Ruling /\ \A x \in Vars : external[x] \subseteq external'[x]
  BY StepRules, OwnersStay DEF Next
<1>2. /\ agenda # <<>> /\ Adds(AllAdditions)
      /\ Pending = {agenda[1]} \cup Behind
  BY StepAdds, PendingNow DEF Inv, TypeOK
<1>3. UNCHANGED focus
  BY StepFocus
<1>5. BeginsInFocus'
  <2>. SUFFICES ASSUME NEW x \in Vars, NEW v \in Values,
                       Call("__begin_assign__", <<x, v>>) \in Pending'
                PROVE  x \in focus
    BY <1>3 DEF BeginsInFocus
  <2>. DEFINE call == Call("__begin_assign__", <<x, v>>)
  <2>1. call.fn = "__begin_assign__"
    BY CallIs
  <2>2. call \in Pending' /\ \A other \in Pending' : other \in Behind \/ other.fn \in AllAdditions
    BY <1>2 DEF Adds
  <2>. HIDE DEF call
  <2>3. call \in Pending
    BY <1>2, <2>1, <2>2 DEF AllAdditions, Additions
  <2>. QED
    BY <2>3 DEF Track, BeginsInFocus, call
<1>4. ASSUME NEW x \in Vars \ focus, ~IsSolveable(x)
      PROVE  stored'[x] = stored[x]
  <2>1. CASE BeginAssignVariable
    <3>1. PICK y \in Vars, v \in Values :
            /\ agenda # <<>> /\ agenda[1] = Call("__begin_assign__", <<y, v>>)
            /\ stored' = [stored EXCEPT ![y] = v]
      BY <2>1, BeginAssignVariableDoes
    <3>2. y \in focus
      BY <1>2, <3>1 DEF Track, BeginsInFocus
    <3>. QED
      BY <3>1, <3>2 DEF Inv, TypeOK
  <2>2. CASE GetI
    <3>1. PICK y \in Vars :
            /\ IsSolveable(y)
            /\ stored' = [stored EXCEPT ![y] = ValueOf(y, DefiningSolver(y))]
      BY <2>2, GetILeaves
    <3>. QED
      BY <1>4, <3>1 DEF Inv, TypeOK
  <2>3. CASE \/ AssignVariable \/ AssignOthers \/ UpdateDownstreamVariables \/ EndAssignVariable
             \/ MakeNotAssignable \/ RecalculatePath \/ BeginAssign \/ Solve \/ EndAssign
             \/ Recalculate \/ EnableConstraint \/ SetEnabled
    <3>1. UNCHANGED stored
      BY <2>3 DEF AssignVariable, AssignOthers, UpdateDownstreamVariables, EndAssignVariable,
         MakeNotAssignable, RecalculatePath, BeginAssign, Solve, EndAssign, Recalculate,
         EnableConstraint, SetEnabled
    <3>. QED
      BY <3>1
  <2>. QED
    BY <2>1, <2>2, <2>3, NoRaise, Zenon DEF Step
<1>6. SolveableVars \subseteq SolveableVars' /\ \A x \in Vars : ~IsSolveable(x)' => ~IsSolveable(x)
  BY <1>1 DEF SolveableVars, IsSolveable
<1>. QED
  BY <1>1, <1>3, <1>4, <1>5, <1>6 DEF Track

-----------------------------------------------------------------------------
(* What the program reads is a valuation.                                  *)
ObservedOK ==
  /\ Observed.value \in [Vars -> Values]
  /\ \A x \in Vars : Observed.value[x] = Visible(x)
  /\ Observed.rules = {c \in Cons : enabled[c]}
  /\ Observed.owned = SolveableVars

LEMMA ObservedTyped == Inv => ObservedOK
  BY VisibleKnown DEF ObservedOK, Observed, SolveableVars

(* Between operations nothing is owed to what the program reads.           *)
LEMMA QuietTracks ==
  ASSUME Inv, agenda = <<>>
  PROVE  /\ Pending = {} /\ Ruling = Observed.rules
         /\ \A x \in Vars : ~IsSolveable(x) => stored[x] = Observed.value[x]
<1>1. Pending = {}
  BY DEF Pending, CallsIn
<1>. QED
  BY <1>1, ObservedTyped DEF ObservedOK, Ruling, Live, Visible

(* An operation starts to owe it what the operation is for.                *)
LEMMA TrackStarts ==
  ASSUME NEW h, Inv, UserStep, agenda' # <<>>, agenda = <<>>, h = Observed
  PROVE  Track(h)'
<1>. USE DEF varState, solverState
<1>1. /\ Pending = {} /\ Ruling = h.rules /\ h.owned = SolveableVars
      /\ \A x \in Vars : ~IsSolveable(x) => stored[x] = h.value[x]
  BY QuietTracks, ObservedTyped DEF ObservedOK
<1>2. UNCHANGED stored /\ \A x \in Vars : external[x] \subseteq external'[x]
  BY OwnersStay DEF UserStep, Next, Always, AlwaysRaises, Enable, Disable, SetStrength, Read, Assign, MultiAssign
<1>3. /\ h.owned \subseteq SolveableVars'
      /\ \A x \in Vars : ~IsSolveable(x)' => stored'[x] = h.value[x]
  BY <1>1, <1>2 DEF SolveableVars, IsSolveable
<1>4. ASSUME NEW c \in Cons, Always(c) \/ Enable(c) \/ Disable(c) \/ SetStrength(c)
      PROVE  Track(h)'
  <2>1. /\ agenda' = <<Call("enable", c)>> /\ focus' = {}
        /\ \A d \in Cons : d # c => enabled'[d] = enabled[d]
        /\ enabled'[c] => enabled[c]
    BY <1>4 DEF Always, Enable, Disable, SetStrength, Inv, TypeOK
  <2>2. Pending' = {Call("enable", c)}
    BY <2>1, StartsOne
  <2>3. \A d \in Cons : /\ Call("set_enabled", d) # Call("enable", c)
                        /\ Call("enable", d) = Call("enable", c) => d = c
    BY CallsEqual
  <2>4. Ruling' = Ruling \cup {c}
    BY <1>1, <2>1, <2>2, <2>3 DEF Ruling, Live
  <2>5. BeginsInFocus'
    BY <2>2, CallIs DEF BeginsInFocus
  <2>. QED
    BY <1>1, <1>3, <2>1, <2>4, <2>5 DEF Track
<1>5. ASSUME UNCHANGED enabled, \A call \in Pending' : call.fn \notin {"enable", "set_enabled"},
             \E x, y \in Vars : focus' = {x, y}, BeginsInFocus'
      PROVE  Track(h)'
  <2>1. Ruling' = Ruling
    BY <1>1, <1>5, CallIs DEF Ruling, Live
  <2>. QED
    BY <1>1, <1>3, <1>5, <2>1 DEF Track
<1>6. ASSUME NEW x \in Vars, Read(x) PROVE Track(h)'
  <2>1. UNCHANGED enabled /\ agenda' = <<Call("get_i", x)>> /\ focus' = {x}
    BY <1>6 DEF Read
  <2>2. Pending' = {Call("get_i", x)}
    BY <2>1, StartsOne
  <2>3. BeginsInFocus'
    BY <2>2, CallIs DEF BeginsInFocus
  <2>. QED
    BY <1>5, <2>1, <2>2, <2>3, CallIs
<1>7. ASSUME NEW x \in Vars, NEW v \in Values, Assign(x, v) PROVE Track(h)'
  <2>1. UNCHANGED enabled /\ focus' = {x}
    BY <1>7 DEF Assign
  <2>2. Pending' = {Call("__begin_assign__", <<x, v>>)} \cup Started(x)
    BY <1>7, AssignStarts
  <2>3. BeginsInFocus'
    BY <2>1, <2>2, StartFns, CallIs, CallsEqual DEF BeginsInFocus
  <2>. QED
    BY <1>5, <2>1, <2>2, <2>3, StartFns, CallIs
<1>8. ASSUME NEW x \in Vars, NEW y \in Vars, NEW v \in Values, NEW w \in Values,
             MultiAssign(x, v, y, w)
      PROVE  Track(h)'
  <2>1. UNCHANGED enabled /\ focus' = {x, y}
    BY <1>8 DEF MultiAssign
  <2>2. Pending' = {Call("__begin_assign__", <<x, v>>), Call("__begin_assign__", <<y, w>>)}
                     \cup Started(x) \cup Started(y)
    BY <1>8, MultiAssignStarts
  <2>3. BeginsInFocus'
    BY <2>1, <2>2, StartFns, CallIs, CallsEqual DEF BeginsInFocus
  <2>. QED
    BY <1>5, <2>1, <2>2, <2>3, StartFns, CallIs
<1>9. \A c \in Cons : ~AlwaysRaises(c)
  BY DEF AlwaysRaises
<1>. QED
  BY <1>4, <1>6, <1>7, <1>8, <1>9 DEF UserStep

-----------------------------------------------------------------------------
(* The history variable and what is owed to it.                            *)
SettledInv ==
  /\ settled.value \in [Vars -> Values]
  /\ Quiet => settled = Observed
  /\ ~Idle /\ ~raised => Track(settled)

LEMMA ProgramStarts ==
  ASSUME UserStep, ~raised'
  PROVE  /\ agenda = <<>> /\ UNCHANGED raised
         /\ agenda' = <<>> => \E c \in Cons : Disable(c)
<1>1. ASSUME NEW x \in Vars, NEW v \in Values, Assign(x, v)
      PROVE  agenda' # <<>>
  <2>1. Call("__begin_assign__", <<x, v>>) \in Pending'
    BY <1>1, AssignStarts
  <2>. QED
    BY <2>1, NonePending
<1>2. ASSUME NEW x \in Vars, NEW y \in Vars, NEW v \in Values, NEW w \in Values,
             MultiAssign(x, v, y, w)
      PROVE  agenda' # <<>>
  <2>1. Call("__begin_assign__", <<x, v>>) \in Pending'
    <3>1. Pending' = {Call("__begin_assign__", <<x, v>>), Call("__begin_assign__", <<y, w>>)}
                       \cup Started(x) \cup Started(y)
      BY <1>2, MultiAssignStarts, Zenon
    <3>. QED
      BY <3>1
  <2>. QED
    BY <2>1, NonePending
<1>3. ASSUME NEW c \in Cons, Always(c) \/ Enable(c) \/ SetStrength(c) PROVE agenda' # <<>>
  BY <1>3 DEF Always, Enable, SetStrength
<1>4. ASSUME NEW x \in Vars, Read(x) PROVE agenda' # <<>>
  BY <1>4 DEF Read
<1>5. agenda = <<>> /\ UNCHANGED raised
  BY NoRaise DEF UserStep, Always, Enable, Disable, SetStrength, Read, Assign, MultiAssign, Ready, Idle
<1>. QED
  BY <1>1, <1>2, <1>3, <1>4, <1>5, NoRaise DEF UserStep

LEMMA StepRaises == ASSUME Inv, Step PROVE agenda # <<>> /\ (raised => raised') /\ raised' \in BOOLEAN
<1>. USE DEF Return, Continue, RaiseError, Running
<1>1. CASE \/ AssignOthers \/ UpdateDownstreamVariables \/ EndAssignVariable
  BY <1>1 DEF AssignOthers, UpdateDownstreamVariables, EndAssignVariable, ForEachSolver, Inv, TypeOK
<1>2. CASE \/ BeginAssignVariable \/ AssignVariable \/ GetI \/ MakeNotAssignable \/ RecalculatePath
  BY <1>2 DEF BeginAssignVariable, AssignVariable, GetI, MakeNotAssignable, RecalculatePath, Inv, TypeOK
<1>3. CASE \/ BeginAssign \/ Solve \/ EndAssign \/ Recalculate \/ EnableConstraint \/ SetEnabled
  BY <1>3 DEF BeginAssign, Solve, EndAssign, Recalculate, EnableConstraint, AddPrimitive, SetEnabled,
     Inv, TypeOK
<1>4. CASE RecalculateRaises
  BY <1>4 DEF RecalculateRaises
<1>. QED
  BY <1>1, <1>2, <1>3, <1>4, Zenon DEF Step

(* Errors are not forgotten.                                               *)
LEMMA RaisedStays == Inv /\ Next => (raised => raised') /\ raised' \in BOOLEAN
<1>1. UserStep => UNCHANGED raised \/ raised' = TRUE
  BY DEF UserStep, Always, AlwaysRaises, Enable, Disable, SetStrength, Read, Assign, MultiAssign
<1>. QED
  BY <1>1, StepRaises DEF Next, Inv, TypeOK

LEMMA SettledStays ==
  ASSUME Inv, ObservedOK', SettledInv, [SettledNext]_<<vars, settled>>
  PROVE  SettledInv'
<1>1. CASE UNCHANGED <<vars, settled>>
  BY <1>1 DEF vars, varState, solverState, SettledInv, Quiet, Idle, Observed, Visible, IsSolveable,
     DefiningSolver, ValueOf, Track, Ruling, Live, Pending, CallsIn, SolveableVars, BeginsInFocus
<1>2. CASE SettledNext
  <2>1. /\ Quiet' => settled' = Observed'
        /\ settled'.value \in [Vars -> Values]
    BY <1>2 DEF SettledNext, ObservedOK, SettledInv
  <2>2. ASSUME ~Idle', ~raised'
        PROVE  Track(settled)' 
    <3>1. settled' = settled /\ agenda' # <<>>
      BY <1>2, <2>2 DEF SettledNext, Quiet, Idle
    <3>2. PICK h : h = settled
      OBVIOUS
    <3>3. CASE Step
      <4>1. Track(h)
        BY <2>2, <3>2, <3>3, StepRaises DEF SettledInv, Idle
      <4>2. Track(h)'
        BY <2>2, <3>3, <4>1, TrackStep
      <4>. QED
        BY <3>1, <3>2, <4>2
    <3>4. CASE UserStep
      <4>1. agenda = <<>> /\ h = Observed
        BY <2>2, <3>2, <3>4, ProgramStarts DEF SettledInv, Quiet, Idle
      <4>2. Track(h)'
        BY <3>1, <3>4, <4>1, TrackStarts
      <4>. QED
        BY <3>1, <3>2, <4>2
    <3>. QED
      BY <1>2, <3>3, <3>4 DEF SettledNext, Next
  <2>. QED
    BY <2>1, <2>2 DEF SettledInv
<1>. QED
  BY <1>1, <1>2

(* One operation that is over is one step of the store.                    *)
LEMMA OperationEnds ==
  ASSUME NEW h, Inv, ObservedOK', Step, Quiet', EnabledHold', Track(h), SettledInv,
         h = settled, settled' = Observed', raised = FALSE
  PROVE  Store!Next \/ UNCHANGED Store!store
<1>. DEFINE value == settled.value
            rules == settled.rules
            owned == settled.owned
            free == owned' \cup focus
<1>1. /\ value' \in [Vars -> Values]
      /\ \A x \in Vars : value'[x] = Visible(x)'
      /\ rules' = {c \in Cons : enabled'[c]} /\ owned' = SolveableVars'
  BY DEF ObservedOK
<1>2. Track(h)' /\ focus' = focus /\ raised' = raised /\ agenda' = <<>>
  BY TrackStep, StepFocus, StepRaises DEF Quiet, Idle
<1>3. rules' = Ruling'
  <2>1. Pending' = {}
    BY <1>2, NonePending
  <2>. QED
    BY <1>1, <2>1 DEF Ruling, Live
<1>4. owned \subseteq owned' /\ owned' \subseteq Vars
  BY <1>1, <1>2 DEF Track, SolveableVars
<1>5. \A c \in rules' : Holds(c, value')
  <2>1. value' = [x \in Vars |-> Visible(x)]'
    BY <1>1
  <2>. QED
    BY <1>1, <2>1 DEF EnabledHold
<1>6. \A x \in Vars \ free : value'[x] = value[x]
  BY <1>1, <1>2 DEF Track, SolveableVars, Visible
<1>7. /\ rules' = rules => \A x \in Vars : focus \subseteq {x} => Store!Assign(x, value'[x])
      /\ rules' = rules => \A x, y \in Vars : \A v \in Values :
           x # y /\ focus \subseteq {x, y} => Store!AssignBoth(x, v, y, value'[y])
      /\ \A c \in Cons \ rules : rules' = rules \cup {c} /\ focus = {} => Store!Declare(c)
  BY <1>1, <1>2, <1>4, <1>5, <1>6
     DEF Store!Assign, Store!AssignBoth, Store!Declare, Store!Consistent, Store!MovesOnly
<1>8. PICK v \in Values : TRUE
  BY ConstantsAssumption
<1>9. CASE focus # {}
  <2>1. rules' = rules /\ \E x, y \in Vars : focus = {x, y}
    BY <1>2, <1>3, <1>9 DEF Track
  <2>2. PICK x \in Vars, y \in Vars : focus = {x, y}
    BY <2>1
  <2>3. CASE x = y
    BY <1>1, <1>7, <2>1, <2>2, <2>3 DEF Store!Next
  <2>4. CASE x # y
    BY <1>1, <1>7, <1>8, <2>1, <2>2, <2>4 DEF Store!Next
  <2>. QED
    BY <2>3, <2>4
<1>10. ASSUME focus = {}, rules' = rules
       PROVE  Store!Next \/ UNCHANGED Store!store
  <2>1. CASE Vars = {}
    <3>1. value' = value
      BY <1>1, <2>1 DEF SettledInv
    <3>2. owned' = owned
      BY <1>4, <2>1
    <3>. QED
      BY <1>2, <1>10, <3>1, <3>2 DEF Store!store
  <2>2. CASE Vars # {}
    <3>1. PICK x \in Vars : TRUE
      BY <2>2
    <3>. QED
      BY <1>1, <1>7, <1>10, <3>1 DEF Store!Next
  <2>. QED
    BY <2>1, <2>2
<1>11. CASE focus = {}
  <2>1. rules' = rules \/ \E c \in Cons : rules' = rules \cup {c}
    BY <1>2, <1>3, <1>11 DEF Track
  <2>2. ASSUME NEW c \in Cons \ rules, rules' = rules \cup {c}
        PROVE  Store!Next
    BY <1>7, <1>11, <2>2 DEF Store!Next
  <2>3. ASSUME NEW c \in rules, rules' = rules \cup {c}
        PROVE  rules' = rules
    BY <2>3
  <2>. QED
    BY <1>10, <1>11, <2>1, <2>2, <2>3
<1>. QED
  BY <1>9, <1>11

LEMMA StepsOfStore ==
  ASSUME Inv, ObservedOK, ObservedOK', EnabledHold', SettledInv, [SettledNext]_<<vars, settled>>
  PROVE  Store!Next \/ UNCHANGED Store!store
<1>1. CASE UNCHANGED <<vars, settled>>
  BY <1>1 DEF vars, Store!store
<1>2. CASE SettledNext /\ ~Quiet'
  <2>1. settled' = settled
    BY <1>2 DEF SettledNext
  <2>2. raised \in BOOLEAN /\ raised' \in BOOLEAN /\ (raised => raised')
    BY <1>2, RaisedStays DEF SettledNext, Inv, TypeOK
  <2>3. CASE raised' = raised
    BY <2>1, <2>3 DEF Store!store
  <2>4. CASE ~raised /\ raised' = TRUE
    BY <2>1, <2>2, <2>4 DEF Store!Next, Store!Error
  <2>. QED
    BY <2>2, <2>3, <2>4
<1>3. CASE SettledNext /\ Quiet'
  <2>1. settled' = Observed' /\ Next
    BY <1>3 DEF SettledNext
  <2>2. raised = FALSE
    BY <1>3, <2>1, RaisedStays DEF Quiet, Inv, TypeOK
  <2>3. CASE Step
    <3>1. PICK h : h = settled
      OBVIOUS
    <3>2. Track(h)
      BY <2>2, <2>3, <3>1, StepRaises DEF SettledInv, Idle
    <3>. QED
      BY <1>3, <2>1, <2>2, <2>3, <3>1, <3>2, OperationEnds
  <2>4. CASE UserStep
    <3>1. PICK c \in Cons : Disable(c)
      BY <1>3, <2>4, ProgramStarts DEF Quiet, Idle
    <3>2. settled = Observed /\ UNCHANGED raised
      BY <1>3, <2>2, <2>4, ProgramStarts DEF SettledInv, Quiet, Idle
    <3>3. /\ enabled[c] /\ enabled' = [enabled EXCEPT ![c] = FALSE]
          /\ UNCHANGED <<varState, model, w_value>>
      BY <3>1 DEF Disable
    <3>4. Observed'.value = Observed.value /\ Observed'.owned = Observed.owned
      BY <3>3 DEF Observed, Visible, IsSolveable, DefiningSolver, ValueOf, varState
    <3>5. Observed'.rules = Observed.rules \ {c} /\ c \in Observed.rules
      <4>1. \A d \in Cons : enabled'[d] = IF d = c THEN FALSE ELSE enabled[d]
        BY <3>3 DEF Inv, TypeOK
      <4>2. /\ Observed.rules = {d \in Cons : enabled[d]}
            /\ Observed'.rules = {d \in Cons : enabled'[d]}
        BY DEF Observed
      <4>3. c \in Observed.rules /\ \A d : d \in Observed'.rules <=> d \in Observed.rules \ {c}
        BY <3>3, <4>1, <4>2, Zenon
      <4>. QED
        BY <4>3
    <3>6. Store!Withdraw(c)
      BY <2>1, <3>2, <3>4, <3>5 DEF Store!Withdraw
    <3>. QED
      BY <3>6 DEF Store!Next
  <2>. QED
    BY <2>1, <2>3, <2>4 DEF Next
<1>. QED
  BY <1>1, <1>2, <1>3

LEMMA SettledIsSpec == SettledSpec => Spec
<1>1. SettledInit => Init
  BY DEF SettledInit
<1>2. [SettledNext]_<<vars, settled>> => [Next]_vars
  BY DEF SettledNext
<1>. QED
  BY <1>1, <1>2, PTL DEF SettledSpec, Spec

(* The protocol implements the store (README.md:77-79): with solvers that  *)
(* share no variable, whatever the program declares, withdraws, assigns    *)
(* (to one variable or to two) and reads, each operation that does not     *)
(* raise is one step after which the rules in force hold for the values    *)
(* the program can read, only the variables the solver owns and those      *)
(* assigned have moved, and an error changes nothing that was settled.     *)
THEOREM ProtocolImplementsStore ==
  ASSUME NoSharing, "enable" \notin UserOps
  PROVE  SettledSpec => ImplementsStore
<1>1. SettledSpec => [](Inv /\ EnabledHold)
  BY SettledIsSpec, InvHolds, EnabledConstraintsHold, PTL
<1>2. SettledInit => SettledInv /\ Store!Init
  <2>. SUFFICES ASSUME SettledInit PROVE SettledInv /\ Store!Init
    OBVIOUS
  <2>1. Inv
    BY InitInv DEF SettledInit
  <2>2. ObservedOK /\ settled = Observed
    BY <2>1, ObservedTyped DEF SettledInit
  <2>3. Observed.rules = {} /\ Observed.owned = {} /\ raised = FALSE /\ Idle
    BY DEF SettledInit, Init, Observed, IsSolveable, Idle
  <2>. QED
    BY <2>2, <2>3 DEF SettledInv, Store!Init, ObservedOK
<1>3. Inv => ObservedOK
  BY ObservedTyped
<1>4. Inv /\ ObservedOK' /\ SettledInv /\ [SettledNext]_<<vars, settled>> => SettledInv'
  BY SettledStays
<1>5. Inv /\ ObservedOK /\ ObservedOK' /\ EnabledHold' /\ SettledInv /\ [SettledNext]_<<vars, settled>>
        => [Store!Next]_(Store!store)
  BY StepsOfStore
<1>. QED
  BY <1>1, <1>2, <1>3, <1>4, <1>5, PTL DEF SettledSpec, ImplementsStore, Store!Spec
=============================================================================
