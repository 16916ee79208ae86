------------------------- MODULE IdentityConstraints -------------------------
(* Identity constraints, `always { a.n is? b }' (topaz/constraintobject.py: *)
(* W_IdentityConstraintObject; topaz/constraintinterpreter.py:             *)
(* constrain_identity, all_identical_variables).  A block that is run      *)
(* yields the two variables to keep identical; enabling it stores the      *)
(* right one's value in the left one and links both, and an assignment     *)
(* goes to all variables reachable over links.  Every store ends with the  *)
(* recalculation of the blocks attached to the variable, which unlinks,    *)
(* runs and enables again those whose path it changed: this nests, and the *)
(* pending calls are the sequence `agenda', the running one first.         *)
(* No variable here is in a solver (see ConstrainedVariables for those).   *)
EXTENDS Naturals, Sequences, FiniteSets

CONSTANTS
  Vars,        \* the variables the blocks read
  Values,      \* the objects they hold
  Cons,        \* the `always' blocks
  NoLink,      \* the block has not been run
  Reads(_, _), \* the variables the block c reads when the slots hold m
  This(_, _),  \* the variable on the left of is?
  That(_, _),  \* and on the right
  UserOps      \* which operations the program uses

ASSUME PathAssumption ==
  /\ \A c \in Cons, m \in [Vars -> Values] :
       /\ Reads(c, m) \subseteq Vars
       /\ This(c, m) \in Reads(c, m) /\ That(c, m) \in Reads(c, m)
  /\ NoLink \notin Vars \X Vars

ASSUME VarsAssumption == IsFiniteSet(Vars)

VARIABLES
  stored,     \* stored[x]: the slot (load_value)
  identical,  \* identical[x]: identical_variables
  attached,   \* attached[x]: constraints_w, the blocks that read x
  enabled,    \* enabled[c]: Constraint#enabled
  link,       \* link[c]: <<c_this, c_that>> of the last run of the block
  agenda,     \* pending calls
  reused,     \* history: blocks enabled again and not run since
  focus       \* history: the variable the last operation assigned

vars == <<stored, identical, attached, enabled, link, agenda, reused, focus>>

-----------------------------------------------------------------------------
Call(f, a) == [fn |-> f, arg |-> a]
Calls == [fn : {"recalculate_path"}, arg : Vars \X Nat] \cup
         [fn : {"recalculate"}, arg : Cons \X Vars] \cup
         [fn : {"enable", "enabled"}, arg : Cons]
Idle == agenda = <<>>
Running(f) == agenda # <<>> /\ agenda[1].fn = f
Arg == agenda[1].arg
Continue(new) == agenda' = new \o Tail(agenda) /\ UNCHANGED focus

Contains(q, x) == \E i \in DOMAIN q : q[i] = x
Added(q, x)    == IF Contains(q, x) THEN q ELSE Append(q, x)
(* list.remove: the first occurrence.                                      *)
Position(q, x) == CHOOSE i \in DOMAIN q : q[i] = x /\ \A j \in 1..(i - 1) : q[j] # x
Removed(q, x)  ==
  IF Contains(q, x)
  THEN [i \in 1..(Len(q) - 1) |-> IF i < Position(q, x) THEN q[i] ELSE q[i + 1]]
  ELSE q

(* all_identical_variables: depth first, each variable once.  A walk under *)
(* way has some variables still to do and has seen others.                 *)
Walks == [todo : Seq(Vars), seen : Seq(Vars)]
(* Mutant: the whole walk ends at a variable it has seen.                  *)
OneFurtherOrEnd(w) ==
  IF Contains(w.seen, Head(w.todo)) THEN [w EXCEPT !.todo = <<>>]
  ELSE [todo |-> identical[Head(w.todo)] \o Tail(w.todo),
        seen |-> Append(w.seen, Head(w.todo))]
OneFurther(w) ==
  IF Contains(w.seen, Head(w.todo)) THEN [w EXCEPT !.todo = Tail(@)]
  ELSE [todo |-> identical[Head(w.todo)] \o Tail(w.todo),
        seen |-> Append(w.seen, Head(w.todo))]
Walk[w \in Walks] == IF w.todo = <<>> THEN w.seen ELSE Walk[OneFurther(w)]
(* Mutant: only the variables linked directly.                             *)
NeighboursOnly(x) == <<x>> \o identical[x]
AllIdentical(x) == Walk[[todo |-> <<x>>, seen |-> <<>>]]

(* What __end_assign__ does for a variable that is in no solver.           *)
EndAssign(x) == Call("recalculate_path", <<x, 1>>)

Linked(l)   == [identical EXCEPT ![l[1]] = Added(@, l[2])]
(* Mutants: one direction stays; the variables lose all their links.       *)
UnlinkedOneWay(l) == [identical EXCEPT ![l[2]] = Removed(@, l[1])]
UnlinkedAll(l) == [x \in Vars |-> IF x \in {l[1], l[2]} THEN <<>> ELSE identical[x]]
Unlinked(l) == [x \in Vars |-> IF x = l[1] THEN Removed(identical[x], l[2])
                               ELSE IF x = l[2] THEN Removed(identical[x], l[1])
                               ELSE identical[x]]

(* disable, of the constraint and its primitive.                           *)
(* Mutant: the flag stays.                                                 *)
DisablingLink(c) == identical' = Unlinked(link[c]) /\ UNCHANGED enabled
Disabling(c) ==
  /\ identical' = Unlinked(link[c])
  /\ enabled' = [enabled EXCEPT ![c] = FALSE]

(* Running the block: what it reads is attached to it, is? yields a link.  *)
(* Mutant: it is attached to the two linked variables only.                *)
AttachedToEnds(c) == {This(c, stored), That(c, stored)}
AttachedTo(c) == Reads(c, stored)
RunPredicate(c) ==
  /\ link' = [link EXCEPT ![c] = <<This(c, stored), That(c, stored)>>]
  /\ attached' = [x \in Vars |-> IF x \in AttachedTo(c) THEN Added(attached[x], c)
                                 ELSE attached[x]]
  /\ reused' = reused \ {c}

-----------------------------------------------------------------------------
(* Calls.                                                                  *)

(* The loop of recalculate_path, over a list that may grow meanwhile.      *)
(* Mutant: the place is not advanced.                                      *)
VisitAgain(x, i) ==
  <<Call("recalculate", <<attached[x][i], x>>), Call("recalculate_path", <<x, i>>)>>
Visit(x, i) ==
  <<Call("recalculate", <<attached[x][i], x>>), Call("recalculate_path", <<x, i + 1>>)>>

RecalculatePath ==
  /\ Running("recalculate_path")
  /\ Continue(IF Arg[2] \in DOMAIN attached[Arg[1]] THEN Visit(Arg[1], Arg[2]) ELSE <<>>)
  /\ UNCHANGED <<stored, identical, attached, enabled, link, reused>>

(* A block whose own two variables are assigned needs no new link.         *)
Recalculate ==
  /\ Running("recalculate")
  /\ LET c == Arg[1]
         cause == Arg[2]
     IN IF enabled[c] /\ cause \notin {link[c][1], link[c][2]}
        THEN /\ Disabling(c)
             /\ RunPredicate(c)
             /\ Continue(<<Call("enable", c)>>)
        ELSE Continue(<<>>) /\ UNCHANGED <<identical, enabled, link, attached, reused>>
  /\ UNCHANGED stored

(* constrain_identity: one direction of the link, the store, and what      *)
(* follows it; the other direction and the flags come after that.          *)
Enable ==
  /\ Running("enable")
  /\ IF enabled[Arg]
     THEN Continue(<<>>) /\ UNCHANGED <<stored, identical>>
     ELSE LET this == link[Arg][1]
              that == link[Arg][2]
          IN /\ identical' = Linked(<<that, this>>)
             /\ stored' = [stored EXCEPT ![this] = stored[that]]
             /\ Continue(<<EndAssign(this), Call("enabled", Arg)>>)
  /\ UNCHANGED <<attached, enabled, link, reused>>

Enabled ==
  /\ Running("enabled")
  /\ identical' = Linked(link[Arg])
  /\ enabled' = [enabled EXCEPT ![Arg] = TRUE]
  /\ Continue(<<>>)
  /\ UNCHANGED <<stored, attached, link, reused>>

-----------------------------------------------------------------------------
(* Operations of the program.  Enabling a disabled constraint again does   *)
(* not run its block: it links what the last run led to.                   *)

Always(c) ==
  /\ Idle /\ "always" \in UserOps /\ link[c] = NoLink
  /\ RunPredicate(c)
  /\ agenda' = <<Call("enable", c)>> /\ focus' = {}
  /\ UNCHANGED <<stored, identical, enabled>>

EnableAgain(c) ==
  /\ Idle /\ "enable" \in UserOps /\ link[c] # NoLink /\ ~enabled[c]
  /\ agenda' = <<Call("enable", c)>> /\ focus' = {}
  /\ reused' = reused \cup {c}
  /\ UNCHANGED <<stored, identical, attached, enabled, link>>

Disable(c) ==
  /\ Idle /\ "disable" \in UserOps /\ enabled[c]
  /\ Disabling(c)
  /\ focus' = {}
  /\ UNCHANGED <<stored, attached, link, agenda, reused>>

(* begin_assign stores the value in every identical variable, end_assign   *)
(* recalculates the paths of each, in the same order.                      *)
Assign(x, v) ==
  /\ Idle /\ "assign" \in UserOps
  /\ LET xs == AllIdentical(x) IN
       /\ stored' = [y \in Vars |-> IF Contains(xs, y) THEN v ELSE stored[y]]
       /\ agenda' = [i \in DOMAIN xs |-> EndAssign(xs[i])]
  /\ focus' = {x}
  /\ UNCHANGED <<identical, attached, enabled, link, reused>>

-----------------------------------------------------------------------------
Init ==
  /\ stored \in [Vars -> Values]
  /\ identical = [x \in Vars |-> <<>>]
  /\ attached = [x \in Vars |-> <<>>]
  /\ enabled = [c \in Cons |-> FALSE]
  /\ link = [c \in Cons |-> NoLink]
  /\ agenda = <<>>
  /\ reused = {} /\ focus = {}

Step == RecalculatePath \/ Recalculate \/ Enable \/ Enabled
UserStep == \/ \E c \in Cons : Always(c) \/ EnableAgain(c) \/ Disable(c)
            \/ \E x \in Vars, v \in Values : Assign(x, v)
Next == Step \/ UserStep

(* The one Ruby thread goes on with the calls that are pending.            *)
Spec == Init /\ [][Next]_vars /\ WF_vars(Step)

-----------------------------------------------------------------------------
TypeOK ==
  /\ stored \in [Vars -> Values]
  /\ identical \in [Vars -> Seq(Vars)]
  /\ attached \in [Vars -> Seq(Cons)]
  /\ enabled \in [Cons -> BOOLEAN]
  /\ link \in [Cons -> (Vars \X Vars) \cup {NoLink}]
  /\ agenda \in Seq(Calls)
  /\ reused \subseteq Cons /\ focus \subseteq Vars

(* No block is in the middle of an `enable' twice: it counts as disabled   *)
(* until it is done, which is what stops blocks on each other's paths from *)
(* recalculating each other forever.                                       *)
NoReentry ==
  \A i, j \in DOMAIN agenda :
    /\ agenda[i].fn \in {"enable", "enabled"} => ~enabled[agenda[i].arg]
    /\ agenda[i].fn \in {"enable", "enabled"} /\ agenda[j].fn \in {"enable", "enabled"}
         /\ agenda[i].arg = agenda[j].arg => i = j

WellFormed == TypeOK /\ NoReentry

(* Whenever the program runs links go both ways, and none outlives the     *)
(* constraint it was made for, over any recalculations of its path.        *)
LinksAreOwned ==
  Idle => \A x, y \in Vars : Contains(identical[x], y) =>
            /\ Contains(identical[y], x)
            /\ \E c \in Cons : enabled[c] /\ link[c] \in {<<x, y>>, <<y, x>>}

(* An enabled constraint has its link.                                     *)
EnabledIsLinked ==
  Idle => \A c \in Cons : enabled[c] => Contains(identical[link[c][1]], link[c][2])

(* An enabled constraint links the variables its path leads to now, also   *)
(* when what changed the path was the enabling of another constraint.      *)
PathFollowed ==
  Idle => \A c \in Cons : enabled[c] /\ c \notin reused => link[c] = <<This(c, stored), That(c, stored)>>

(* What a block comes through on its way to the two variables; of these    *)
(* blocks it settles what else they read.                                  *)
Path(c, m) == Reads(c, m) \ {This(c, m), That(c, m)}
PathsDecide ==
  \A c \in Cons, m, n \in [Vars -> Values] : (\A y \in Path(c, m) : n[y] = m[y]) =>
    Reads(c, n) = Reads(c, m) /\ This(c, n) = This(c, m) /\ That(c, n) = That(c, m)

(* The blocks that enabling c may enable again, itself among them: c       *)
(* stores into what they read, or into what others read that do.           *)
Feeds(c, d) == \E m, n \in [Vars -> Values] : This(c, m) \in Reads(d, n)
Stirred(c) ==
  {d \in Cons : \A S \in SUBSET Cons :
     c \in S /\ (\A a \in S, e \in Cons : Feeds(a, e) => e \in S) => d \in S}
(* None of them stores into the path of c.  A block that is enabled counts *)
(* as disabled, and is not recalculated, until it is done.                 *)
NoFeedback ==
  \A c \in Cons : \A d \in Stirred(c), m, n \in [Vars -> Values] : This(d, m) \notin Path(c, n)

(* After an assignment all variables linked to the assigned one, directly  *)
(* or over others, have its value: the depth-first walk of begin_assign    *)
(* misses none, and no recalculation that follows moves one of them away.  *)
Class(x) ==
  {y \in Vars : \A S \in SUBSET Vars :
     x \in S /\ (\A a \in S, z \in Vars : Contains(identical[a], z) => z \in S) => y \in S}
SameAfterAssign ==
  Idle => \A x \in focus : \A y \in Class(x) : stored[y] = stored[x]

(* An assignment (constraintinterpreter.py:308) stores into exactly the    *)
(* variables that are linked to the assigned one, directly or over others, *)
(* whatever cycles the links have: no other variable changes with it.      *)
AssignStoresInClass ==
  Idle => \A x \in focus' :
    LET linked == Class(x)
    IN  \A y \in Vars : stored'[y] = IF y \in linked THEN stored'[x] ELSE stored[y]
AssignReachesClass == [][AssignStoresInClass]_vars

(* Every operation comes to its end.                                       *)
Terminates == []<>Idle
=============================================================================
