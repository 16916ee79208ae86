------------------------------- MODULE Fibers -------------------------------
(* Fibers over stacklets (topaz/objects/fiberobject.py).  A switch         *)
(* suspends the stack that executes and continues the one a handle stands  *)
(* for, where the call that had suspended it returns a handle to the stack *)
(* just left.  A handle is good for one switch.  The code keeps one handle *)
(* in each fiber object: the way to its stack while it has yielded or      *)
(* waits for a fiber it resumed.  Nothing of the program runs between the  *)
(* first line of resume or of yield and the landing on the other stack, so *)
(* each is one action.                                                     *)
CONSTANTS
  Fibers,     \* the fiber objects, Main among them; each has a stack
  Main,       \* the fiber of the program's own stack
  NoFiber,    \* Python's None
  Values,     \* what resume and yield hand over
  Broken,     \* an exception out of a fiber's block
  FiberError,
  UserOps     \* "migrate": a fiber is resumed by another one than before;
              \* "badargs": unpacking the block's arguments may raise

(* Handles that stand for no stack: unset, used up, of a stack that ended. *)
Unset == "unset"
Consumed == "consumed"
EmptyHandle == "empty"

ASSUME FibersAssumption ==
  /\ Main \in Fibers /\ NoFiber \notin Fibers
  /\ {Unset, Consumed, EmptyHandle} \cap Fibers = {}
  /\ {Broken, FiberError} \cap Values = {} /\ Values # {}

VARIABLES
  executing,    \* whose stack executes
  current,      \* State.current
  parent_fiber,
  sthread,      \* sthread[f]: f has been given its stack
  h,            \* h[f]: the handle in f, by the stack it stands for
  origin,       \* origin[f]: the local variable of f's callback
  at,           \* at[f]: the call f's stack is suspended in
  topframeref,  \* ec.topframeref, by the stack the frame belongs to
  backref,      \* backref[f]: what the bottom frame of f leads to
  delivered,    \* what the running code was handed last
  crashed       \* it switched to no stack, or an assertion failed

vars == <<executing, current, parent_fiber, sthread, h, origin, at,
          topframeref, backref, delivered, crashed>>

(* A suspended call: the fiber object whose h takes the handle that comes  *)
(* back, and the locals `topframeref' and (in yield) `current'.            *)
NotSuspended == [op |-> "none"]
InResume(f) == [op |-> "resume", slot |-> f, top |-> topframeref]
(* Mutant: current.h = ... for parent_fiber.h = ...                        *)
InYieldCurrent(p) == [op |-> "yield", slot |-> current, me |-> current, top |-> topframeref]
InYield(p)  == [op |-> "yield", slot |-> p, me |-> current, top |-> topframeref]
Suspending(call) == [at EXCEPT ![executing] = call]

-----------------------------------------------------------------------------
(* What a call does when its stack is continued: it takes the handle to    *)
(* the stack that was left, asserts that its fiber is current, and puts    *)
(* the frames back.                                                        *)

Asserts(call, parents) == IF call.op = "resume" THEN parents[call.slot] ELSE call.me

(* The `finally' of resume.  Mutant: there is none.                        *)
ParentsKept(call, parents) == parents
ParentsAfter(call, parents) ==
  IF call.op = "resume" THEN [parents EXCEPT ![call.slot] = NoFiber] ELSE parents

(* Mutant: a yield that returns does not link its frames to the resumer's. *)
LinksKept(call, refs) == refs
LinksAfter(call, refs) ==
  IF call.op = "yield" THEN [refs EXCEPT ![call.me] = topframeref] ELSE refs

(* left is the handle to the stack that is left; parents, refs and calls   *)
(* are parent_fiber, backref and at as the caller has set them.            *)
Switch(handle, left, cur, parents, refs, calls) ==
  /\ current' = cur
  /\ IF handle \in Fibers
     THEN LET call == at[handle] IN
          /\ executing' = handle
          /\ h' = [f \in Fibers |-> IF f = call.slot THEN left
                                    ELSE IF h[f] = handle THEN Consumed ELSE h[f]]
          /\ at' = [calls EXCEPT ![handle] = NotSuspended]
          /\ crashed' = (cur # Asserts(call, parents))
          /\ parent_fiber' = ParentsAfter(call, parents)
          /\ backref' = LinksAfter(call, refs)
          /\ topframeref' = call.top
     ELSE /\ crashed' = TRUE
          /\ UNCHANGED <<executing, h, at, parent_fiber, backref, topframeref>>

-----------------------------------------------------------------------------
(* Mutant: a fiber that has ended is taken for a suspended one.            *)
IsDeadNever(f) == FALSE
IsDead(f) == sthread[f] /\ h[f] = EmptyHandle

(* It has a stack no more.                                                 *)
HasEnded(f) == sthread[f] /\ f # executing /\ at[f] = NotSuspended

Refused ==
  /\ delivered' = FiberError
  /\ UNCHANGED <<executing, current, parent_fiber, sthread, h, origin, at,
                 topframeref, backref, crashed>>

RefuseResume(f) == (parent_fiber[f] # NoFiber \/ IsDead(f)) /\ Refused
RefuseYield     == parent_fiber[current] = NoFiber /\ Refused

(* The first resume: the arguments of the block, which may raise, then a   *)
(* stack; its callback leaves the handle it is given in the parent.        *)
Start(f, v, ok) ==
  /\ parent_fiber[f] = NoFiber /\ ~sthread[f]
  /\ current' = f
  /\ IF ok
     THEN /\ parent_fiber' = [parent_fiber EXCEPT ![f] = current]
          /\ origin' = [origin EXCEPT ![f] = current]
          /\ sthread' = [sthread EXCEPT ![f] = TRUE]
          /\ executing' = f
          /\ at' = Suspending(InResume(f))
          /\ h' = [h EXCEPT ![current] = executing]
          /\ backref' = [backref EXCEPT ![f] = topframeref]
          /\ topframeref' = f
          /\ delivered' = v
     ELSE /\ delivered' = Broken
          /\ UNCHANGED <<parent_fiber, origin, sthread, executing, at, h, backref, topframeref>>
  /\ UNCHANGED crashed

Resume(f, v) ==
  /\ parent_fiber[f] = NoFiber /\ sthread[f] /\ ~IsDead(f)
  /\ "migrate" \in UserOps \/ origin[f] = current
  /\ Switch(h[f], executing, f, [parent_fiber EXCEPT ![f] = current], backref,
            Suspending(InResume(f)))
  /\ delivered' = v
  /\ UNCHANGED <<sthread, origin>>

Yield(v) ==
  /\ parent_fiber[current] # NoFiber
  /\ LET parent == parent_fiber[current] IN
       Switch(h[parent], executing, parent, parent_fiber,
              [backref EXCEPT ![current] = NoFiber], Suspending(InYield(parent)))
  /\ delivered' = v
  /\ UNCHANGED <<sthread, origin>>

(* The block returns, or raises d.  The callback goes back over the handle *)
(* it left in the fiber that had resumed it first.                         *)
End(d) ==
  /\ executing # Main
  /\ Switch(h[origin[executing]], EmptyHandle, parent_fiber[executing], parent_fiber,
            backref, at)
  /\ delivered' = d
  /\ UNCHANGED <<sthread, origin>>

-----------------------------------------------------------------------------
Init ==
  /\ executing = Main
  /\ current = Main
  /\ parent_fiber = [f \in Fibers |-> NoFiber]
  /\ sthread = [f \in Fibers |-> f = Main]
  /\ h = [f \in Fibers |-> Unset]
  /\ origin = [f \in Fibers |-> NoFiber]
  /\ at = [f \in Fibers |-> NotSuspended]
  /\ topframeref = Main
  /\ backref = [f \in Fibers |-> NoFiber]
  /\ delivered = NoFiber
  /\ crashed = FALSE

Outcomes == IF "badargs" \in UserOps THEN BOOLEAN ELSE {TRUE}
Next ==
  /\ ~crashed
  /\ \/ \E f \in Fibers \ {Main}, v \in Values, ok \in Outcomes : Start(f, v, ok)
     \/ \E f \in Fibers \ {Main}, v \in Values : Resume(f, v)
     \/ \E f \in Fibers \ {Main} : RefuseResume(f)
     \/ \E v \in Values : Yield(v)
     \/ RefuseYield
     \/ \E d \in Values \cup {Broken} : End(d)

Spec == Init /\ [][Next]_vars

-----------------------------------------------------------------------------
(* Type invariant; a call of resume is always for a fiber of the program.  *)
SuspendedCalls == {NotSuspended}
  \cup [op : {"resume"}, slot : Fibers \ {Main}, top : Fibers]
  \cup [op : {"yield"}, slot : Fibers, me : Fibers \ {Main}, top : Fibers]
TypeOK ==
  /\ executing \in Fibers /\ current \in Fibers
  /\ parent_fiber \in [Fibers -> Fibers \cup {NoFiber}]
  /\ sthread \in [Fibers -> BOOLEAN]
  /\ h \in [Fibers -> Fibers \cup {Unset, Consumed, EmptyHandle}]
  /\ origin \in [Fibers -> Fibers \cup {NoFiber}]
  /\ at \in [Fibers -> SuspendedCalls]
  /\ topframeref \in Fibers
  /\ backref \in [Fibers -> Fibers \cup {NoFiber}]
  /\ delivered \in Values \cup {Broken, FiberError, NoFiber}
  /\ crashed \in BOOLEAN

(* No switch is made on a handle that stands for no suspended stack, and   *)
(* the assertions of yield and resume (lines 78 and 123) hold wherever     *)
(* control arrives.                                                        *)
NoCrash == ~crashed

(* No handle is lost or left in another fiber's object: each suspended     *)
(* stack can be reached, over its own fiber.                               *)
HandleInPlace ==
  \A f, g \in Fibers : h[f] = g <=> f = g /\ at[f] # NotSuspended

(* The frames the interpreter walks for a backtrace are those of the fiber *)
(* that runs, then those of the fiber that resumed it, and so on; a fiber  *)
(* that has yielded is linked to none.                                     *)
BacktraceIsChain ==
  /\ topframeref = executing
  /\ \A f \in Fibers : sthread[f] /\ ~IsDead(f) => backref[f] = parent_fiber[f]

(* What makes these inductive: who has a resumer is what that one waits    *)
(* for, and the resumer never changes; who is suspended but has none has   *)
(* yielded; and who never ran or has ended has no stack.                   *)
Untouched(f) == h[f] = Unset /\ parent_fiber[f] = NoFiber /\ at[f] = NotSuspended
Stacked == \A f \in Fibers :
  /\ ~sthread[f] => Untouched(f) /\ f # executing
  /\ HasEnded(f) => h[f] = EmptyHandle /\ parent_fiber[f] = NoFiber
Waiting == \A f, p \in Fibers :
  /\ parent_fiber[f] = p <=> at[p].op = "resume" /\ at[p].slot = f
  /\ parent_fiber[f] = p => origin[f] = p
Yielded == \A f \in Fibers :
  at[f].op = "yield" => /\ at[f].slot = origin[f] /\ at[f].me = f
                        /\ parent_fiber[f] = NoFiber /\ f # Main
Running == /\ current = executing /\ at[executing] = NotSuspended
           /\ h[executing] # EmptyHandle
           /\ sthread[Main] /\ parent_fiber[Main] = NoFiber /\ h[Main] # EmptyHandle
           /\ \A f \in Fibers \ {Main} :
                f = executing \/ at[f].op = "resume" => parent_fiber[f] # NoFiber
           /\ \A f \in Fibers : at[f] # NotSuspended => at[f].top = f
Inv == /\ TypeOK /\ NoCrash /\ HandleInPlace /\ BacktraceIsChain
       /\ Stacked /\ Waiting /\ Yielded /\ Running

(* What the class's comment says of dead fibers (lines 21-27): those that  *)
(* have a stack and hold an empty handle.                                  *)
DeadIsEmpty == ~crashed => \A f \in Fibers \ {Main} : HasEnded(f) <=> IsDead(f)

(* Refinement: resume and yield are those of coroutines.                   *)
Status(f) == IF f = Main \/ parent_fiber[f] # NoFiber THEN "resumed"
             ELSE IF ~sthread[f] THEN "new"
             ELSE IF IsDead(f) THEN "dead" ELSE "suspended"
Promise == INSTANCE Coroutines WITH
             running <- executing, resumer <- parent_fiber,
             status <- [f \in Fibers |-> Status(f)], Errors <- {Broken, FiberError}
ImplementsCoroutines == Promise!Spec
=============================================================================
