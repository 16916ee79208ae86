---------------------------- MODULE FibersProofs ----------------------------
(* Proofs about Fibers, for any fibers and values, where each fiber is     *)
(* resumed by the same one every time and its block takes its arguments.   *)
EXTENDS Fibers, TLAPS

(* The programs the theorems are about.                                    *)
Regular == "migrate" \notin UserOps /\ "badargs" \notin UserOps

-----------------------------------------------------------------------------
LEMMA InitInv == Init => Inv
<1>. SUFFICES ASSUME Init PROVE Inv
  OBVIOUS
<1>. USE FibersAssumption DEF Init, Unset, Consumed, EmptyHandle, NotSuspended
<1>1. TypeOK
  BY DEF TypeOK, SuspendedCalls
<1>2. NoCrash /\ HandleInPlace
  BY DEF NoCrash, HandleInPlace
<1>3. BacktraceIsChain
  BY DEF BacktraceIsChain
<1>4. Stacked
  BY DEF Stacked, Untouched, HasEnded
<1>5. Waiting /\ Yielded /\ Running
  BY DEF Waiting, Yielded, Running
<1>. QED
  BY <1>1, <1>2, <1>3, <1>4, <1>5 DEF Inv

(* Who runs is the main fiber, or is waited for by another one, whose      *)
(* handle leads back to the resume that waits.                             *)
LEMMA ResumerWaits ==
  ASSUME Inv, NEW f \in Fibers, parent_fiber[f] # NoFiber
  PROVE  LET p == parent_fiber[f] IN
         /\ p \in Fibers /\ p # executing /\ f # Main
         /\ at[p] \in [op : {"resume"}, slot : {f}, top : {p}]
         /\ h[p] = p /\ origin[f] = p
         /\ \A g \in Fibers : parent_fiber[g] = p => g = f
<1>. DEFINE p == parent_fiber[f]
<1>1. p \in Fibers /\ at[p] \in SuspendedCalls
  BY DEF Inv, TypeOK
<1>2. at[p].op = "resume" /\ at[p].slot = f /\ origin[f] = p
  BY <1>1 DEF Inv, Waiting
<1>3. at[p] # NotSuspended
  BY <1>2 DEF NotSuspended
<1>4. p # executing /\ at[p].top = p /\ f # Main
  BY <1>1, <1>3 DEF Inv, Running
<1>5. h[p] = p
  BY <1>1, <1>3 DEF Inv, HandleInPlace
<1>6. at[p] \in [op : {"resume"}, slot : Fibers \ {Main}, top : Fibers]
  BY <1>1, <1>2, <1>3 DEF SuspendedCalls
<1>7. at[p] \in [op : {"resume"}, slot : {f}, top : {p}]
  BY <1>2, <1>4, <1>6
<1>8. ASSUME NEW g \in Fibers, parent_fiber[g] = p PROVE g = f
  BY <1>1, <1>2, <1>8 DEF Inv, Waiting
<1>. QED
  BY <1>1, <1>2, <1>4, <1>5, <1>7, <1>8

(* A fiber with a stack that may be resumed has yielded.                   *)
LEMMA ResumableHasYielded ==
  ASSUME Inv, NEW f \in Fibers \ {Main},
         parent_fiber[f] = NoFiber, sthread[f], ~IsDead(f)
  PROVE  /\ f # executing /\ h[f] = f
         /\ at[f] \in [op : {"yield"}, slot : {origin[f]}, me : {f}, top : {f}]
         /\ origin[f] \in Fibers
<1>1. f # executing /\ at[f].op # "resume"
  BY DEF Inv, Running
<1>2. at[f] # NotSuspended
  BY <1>1 DEF Inv, Stacked, HasEnded, IsDead
<1>3. at[f] \in [op : {"yield"}, slot : Fibers, me : Fibers \ {Main}, top : Fibers]
  BY <1>1, <1>2 DEF Inv, TypeOK, SuspendedCalls
<1>4. at[f].slot = origin[f] /\ at[f].me = f /\ at[f].top = f
  BY <1>2, <1>3 DEF Inv, Yielded, Running
<1>5. h[f] = f
  BY <1>2 DEF Inv, HandleInPlace
<1>. QED
  BY <1>1, <1>3, <1>4, <1>5

-----------------------------------------------------------------------------
(* What the steps do to a state that satisfies the invariant.              *)
ResumeEffect(f) ==
  /\ f \in Fibers \ {Main, executing}
  /\ sthread[f] /\ parent_fiber[f] = NoFiber /\ origin[f] = executing
  /\ executing' = f /\ current' = f /\ topframeref' = f /\ crashed' = FALSE
  /\ h' = [g \in Fibers |-> IF g = executing THEN executing
                            ELSE IF g = f THEN Consumed ELSE h[g]]
  /\ at' = [at EXCEPT ![executing] = [op |-> "resume", slot |-> f, top |-> executing],
                      ![f] = NotSuspended]
  /\ parent_fiber' = [parent_fiber EXCEPT ![f] = executing]
  /\ backref' = [backref EXCEPT ![f] = executing]
  /\ UNCHANGED <<sthread, origin>>

LEMMA ResumeDoes ==
  ASSUME Inv, Regular, NEW f \in Fibers \ {Main}, NEW v \in Values, Resume(f, v)
  PROVE  ResumeEffect(f)
<1>1. /\ f # executing /\ h[f] = f
      /\ at[f] \in [op : {"yield"}, slot : {origin[f]}, me : {f}, top : {f}]
      /\ parent_fiber[f] = NoFiber /\ sthread[f]
  BY ResumableHasYielded DEF Resume
<1>2. current = executing /\ topframeref = executing /\ executing \in Fibers
  BY DEF Inv, Running, BacktraceIsChain, TypeOK
<1>3. origin[f] = executing
  BY <1>2 DEF Resume, Regular
<1>4. at[f].op = "yield" /\ at[f].slot = executing /\ at[f].me = f /\ at[f].top = f
  BY <1>1, <1>3
<1>5. \A g \in Fibers : h[g] = f <=> g = f
  BY <1>1 DEF Inv, HandleInPlace
<1>6. Switch(f, executing, f, [parent_fiber EXCEPT ![f] = executing], backref,
             Suspending(InResume(f)))
  BY <1>1, <1>2 DEF Resume
<1>7. /\ executing' = f /\ current' = f /\ topframeref' = f /\ crashed' = FALSE
      /\ parent_fiber' = [parent_fiber EXCEPT ![f] = executing]
  BY <1>4, <1>6 DEF Switch, Asserts, ParentsAfter
<1>8. backref' = [backref EXCEPT ![f] = executing]
  BY <1>2, <1>4, <1>6 DEF Switch, LinksAfter
<1>9. h' = [g \in Fibers |-> IF g = executing THEN executing
                            ELSE IF g = f THEN Consumed ELSE h[g]]
  BY <1>4, <1>5, <1>6 DEF Switch
<1>10. at' = [at EXCEPT ![executing] = [op |-> "resume", slot |-> f, top |-> executing],
                        ![f] = NotSuspended]
  BY <1>2, <1>6 DEF Switch, Suspending, InResume
<1>. QED
  BY <1>1, <1>3, <1>7, <1>8, <1>9, <1>10 DEF ResumeEffect, Resume

LEMMA ResumeInv ==
  ASSUME Inv, Regular, NEW f \in Fibers \ {Main}, NEW v \in Values, Resume(f, v)
  PROVE  Inv'
<1>. USE FibersAssumption DEF Unset, Consumed, EmptyHandle
<1>. DEFINE call == [op |-> "resume", slot |-> f, top |-> executing]
<1>1. ResumeEffect(f) /\ delivered' = v
  BY ResumeDoes DEF Resume
<1>2. /\ executing \in Fibers /\ at \in [Fibers -> SuspendedCalls]
      /\ h \in [Fibers -> Fibers \cup {Unset, Consumed, EmptyHandle}]
      /\ parent_fiber \in [Fibers -> Fibers \cup {NoFiber}]
      /\ backref \in [Fibers -> Fibers \cup {NoFiber}]
  BY DEF Inv, TypeOK
<1>3. call \in SuspendedCalls /\ call # NotSuspended
  BY <1>2 DEF SuspendedCalls, NotSuspended
<1>4. /\ at'[executing] = call /\ at'[f] = NotSuspended
      /\ \A g \in Fibers \ {executing, f} : at'[g] = at[g]
  BY <1>1, <1>2 DEF ResumeEffect
<1>5. /\ h'[executing] = executing /\ h'[f] = Consumed
      /\ \A g \in Fibers \ {executing, f} : h'[g] = h[g]
  BY <1>1, <1>2 DEF ResumeEffect
<1>6. /\ parent_fiber'[f] = executing /\ backref'[f] = executing
      /\ \A g \in Fibers \ {f} : parent_fiber'[g] = parent_fiber[g] /\ backref'[g] = backref[g]
  BY <1>1, <1>2 DEF ResumeEffect
<1>7. TypeOK'
  BY <1>1, <1>2, <1>3 DEF Inv, TypeOK, ResumeEffect, SuspendedCalls
<1>8. NoCrash'
  BY <1>1 DEF NoCrash, ResumeEffect
<1>9. HandleInPlace'
  BY <1>1, <1>2, <1>3, <1>4, <1>5 DEF Inv, HandleInPlace, ResumeEffect
<1>10. BacktraceIsChain'
  BY <1>1, <1>2, <1>5, <1>6 DEF Inv, BacktraceIsChain, IsDead, ResumeEffect, Running
<1>11. Stacked'
  BY <1>1, <1>2, <1>3, <1>4, <1>5, <1>6
     DEF Inv, Stacked, Untouched, HasEnded, ResumeEffect
<1>12. Waiting'
  <2>1. at[f].op # "resume" /\ at[executing] = NotSuspended
    BY <1>1 DEF Inv, Running, ResumeEffect
  <2>2. \A g \in Fibers : parent_fiber[g] # executing
    BY <1>2, <2>1 DEF Inv, Waiting, NotSuspended
  <2>. QED
    BY <1>1, <1>2, <1>4, <1>6, <2>1, <2>2 DEF Inv, Waiting, ResumeEffect, NotSuspended
<1>13. Yielded'
  BY <1>1, <1>2, <1>4, <1>6 DEF Inv, Yielded, ResumeEffect, NotSuspended
<1>14. Running'
  BY <1>1, <1>2, <1>3, <1>4, <1>5, <1>6 DEF Inv, Running, ResumeEffect, NotSuspended
<1>. QED
  BY <1>7, <1>8, <1>9, <1>10, <1>11, <1>12, <1>13, <1>14 DEF Inv

StartEffect(f) ==
  /\ f \in Fibers \ {Main, executing}
  /\ ~sthread[f] /\ parent_fiber[f] = NoFiber
  /\ executing' = f /\ current' = f /\ topframeref' = f /\ crashed' = crashed
  /\ h' = [h EXCEPT ![executing] = executing]
  /\ at' = [at EXCEPT ![executing] = [op |-> "resume", slot |-> f, top |-> executing]]
  /\ parent_fiber' = [parent_fiber EXCEPT ![f] = executing]
  /\ backref' = [backref EXCEPT ![f] = executing]
  /\ origin' = [origin EXCEPT ![f] = executing]
  /\ sthread' = [sthread EXCEPT ![f] = TRUE]

LEMMA StartDoes ==
  ASSUME Inv, NEW f \in Fibers \ {Main}, NEW v \in Values, Start(f, v, TRUE)
  PROVE  StartEffect(f)
<1>1. current = executing /\ topframeref = executing
  BY DEF Inv, Running, BacktraceIsChain
<1>2. ~sthread[f] /\ parent_fiber[f] = NoFiber /\ f # executing
  BY DEF Start, Inv, Stacked
<1>. QED
  BY <1>1, <1>2 DEF Start, StartEffect, Suspending, InResume

LEMMA StartInv ==
  ASSUME Inv, NEW f \in Fibers \ {Main}, NEW v \in Values, Start(f, v, TRUE)
  PROVE  Inv'
<1>. USE FibersAssumption DEF Unset, Consumed, EmptyHandle
<1>. DEFINE call == [op |-> "resume", slot |-> f, top |-> executing]
<1>1. StartEffect(f) /\ delivered' = v
  BY StartDoes DEF Start
<1>2. /\ executing \in Fibers /\ at \in [Fibers -> SuspendedCalls]
      /\ h \in [Fibers -> Fibers \cup {Unset, Consumed, EmptyHandle}]
      /\ parent_fiber \in [Fibers -> Fibers \cup {NoFiber}]
      /\ origin \in [Fibers -> Fibers \cup {NoFiber}]
      /\ sthread \in [Fibers -> BOOLEAN]
      /\ backref \in [Fibers -> Fibers \cup {NoFiber}]
  BY DEF Inv, TypeOK
<1>3. call \in SuspendedCalls /\ call # NotSuspended
  BY <1>2 DEF SuspendedCalls, NotSuspended
<1>4. at'[executing] = call /\ \A g \in Fibers \ {executing} : at'[g] = at[g]
  BY <1>1, <1>2 DEF StartEffect
<1>5. h'[executing] = executing /\ \A g \in Fibers \ {executing} : h'[g] = h[g]
  BY <1>1, <1>2 DEF StartEffect
<1>6. /\ parent_fiber'[f] = executing /\ backref'[f] = executing /\ origin'[f] = executing
      /\ \A g \in Fibers \ {f} : /\ parent_fiber'[g] = parent_fiber[g]
                                 /\ backref'[g] = backref[g] /\ origin'[g] = origin[g]
  BY <1>1, <1>2 DEF StartEffect
<1>7. sthread'[f] /\ \A g \in Fibers \ {f} : sthread'[g] = sthread[g]
  BY <1>1, <1>2 DEF StartEffect
<1>8. h[f] = Unset /\ at[f] = NotSuspended
  BY <1>1 DEF Inv, Stacked, Untouched, StartEffect
<1>9. TypeOK'
  BY <1>1, <1>2, <1>3 DEF Inv, TypeOK, StartEffect, SuspendedCalls
<1>10. NoCrash' /\ HandleInPlace'
  BY <1>1, <1>2, <1>3, <1>4, <1>5 DEF Inv, NoCrash, HandleInPlace, StartEffect
<1>11. BacktraceIsChain'
  BY <1>1, <1>2, <1>5, <1>6, <1>7 DEF Inv, BacktraceIsChain, IsDead, StartEffect, Running
<1>12. Stacked'
  BY <1>1, <1>2, <1>3, <1>4, <1>5, <1>6, <1>7
     DEF Inv, Stacked, Untouched, HasEnded, StartEffect, Running
<1>13. Waiting'
  <2>1. at[executing] = NotSuspended
    BY DEF Inv, Running
  <2>2. \A g \in Fibers : parent_fiber[g] # executing
    BY <1>2, <2>1 DEF Inv, Waiting, NotSuspended
  <2>. QED
    BY <1>1, <1>2, <1>4, <1>6, <1>8, <2>1, <2>2 DEF Inv, Waiting, StartEffect, NotSuspended
<1>14. Yielded'
  BY <1>1, <1>2, <1>4, <1>6, <1>8 DEF Inv, Yielded, StartEffect, NotSuspended
<1>15. Running'
  BY <1>1, <1>2, <1>3, <1>4, <1>5, <1>6, <1>7, <1>8 DEF Inv, Running, StartEffect, NotSuspended
<1>. QED
  BY <1>9, <1>10, <1>11, <1>12, <1>13, <1>14, <1>15 DEF Inv

(* Both ways back to the resumer: the fiber that is left keeps the call    *)
(* and the handle given here.                                              *)
BackEffect(call, handle) ==
  LET f == executing
      p == parent_fiber[executing] IN
  /\ p # NoFiber
  /\ executing' = p /\ current' = p /\ topframeref' = p /\ crashed' = FALSE
  /\ h' = [g \in Fibers |-> IF g = f THEN handle ELSE IF g = p THEN Consumed ELSE h[g]]
  /\ at' = [at EXCEPT ![f] = call, ![p] = NotSuspended]
  /\ parent_fiber' = [parent_fiber EXCEPT ![f] = NoFiber]
  /\ UNCHANGED <<sthread, origin>>

LEMMA YieldDoes ==
  ASSUME Inv, NEW v \in Values, Yield(v)
  PROVE  /\ BackEffect([op |-> "yield", slot |-> parent_fiber[executing], me |-> executing,
                        top |-> executing], executing)
         /\ backref' = [backref EXCEPT ![executing] = NoFiber]
<1>. DEFINE f == executing
            p == parent_fiber[executing]
            refs == [backref EXCEPT ![f] = NoFiber]
<1>1. current = f /\ topframeref = f /\ f \in Fibers /\ p # NoFiber
  BY DEF Inv, Running, BacktraceIsChain, TypeOK, Yield
<1>2. /\ p \in Fibers /\ p # f /\ f # Main /\ h[p] = p
      /\ at[p].op = "resume" /\ at[p].slot = f /\ at[p].top = p
  BY <1>1, ResumerWaits
<1>3. \A g \in Fibers : h[g] = p <=> g = p
  BY <1>2 DEF Inv, HandleInPlace
<1>4. Switch(p, f, p, parent_fiber, refs, Suspending(InYield(p)))
  BY <1>1, <1>2 DEF Yield
<1>5. /\ executing' = p /\ current' = p /\ topframeref' = p /\ crashed' = FALSE
      /\ parent_fiber' = [parent_fiber EXCEPT ![f] = NoFiber] /\ backref' = refs
  BY <1>2, <1>4 DEF Switch, Asserts, ParentsAfter, LinksAfter
<1>6. h' = [g \in Fibers |-> IF g = f THEN f ELSE IF g = p THEN Consumed ELSE h[g]]
  BY <1>2, <1>3, <1>4 DEF Switch
<1>7. at' = [at EXCEPT ![f] = [op |-> "yield", slot |-> p, me |-> f, top |-> f],
                       ![p] = NotSuspended]
  BY <1>1, <1>2, <1>4 DEF Switch, Suspending, InYield
<1>. QED
  BY <1>1, <1>5, <1>6, <1>7 DEF BackEffect, Yield

LEMMA EndDoes ==
  ASSUME Inv, NEW d, End(d)
  PROVE  BackEffect(NotSuspended, EmptyHandle) /\ backref' = backref /\ executing # Main
<1>. DEFINE f == executing
            p == parent_fiber[executing]
<1>1. f \in Fibers \ {Main} /\ p # NoFiber /\ at \in [Fibers -> SuspendedCalls]
  BY DEF Inv, Running, TypeOK, End
<1>2. /\ p \in Fibers /\ p # f /\ h[p] = p /\ origin[f] = p
      /\ at[p].op = "resume" /\ at[p].slot = f /\ at[p].top = p
  BY <1>1, ResumerWaits
<1>3. \A g \in Fibers : h[g] = p <=> g = p
  BY <1>2 DEF Inv, HandleInPlace
<1>4. Switch(p, EmptyHandle, p, parent_fiber, backref, at)
  BY <1>2 DEF End
<1>5. /\ executing' = p /\ current' = p /\ topframeref' = p /\ crashed' = FALSE
      /\ parent_fiber' = [parent_fiber EXCEPT ![f] = NoFiber] /\ backref' = backref
  BY <1>2, <1>4 DEF Switch, Asserts, ParentsAfter, LinksAfter
<1>6. h' = [g \in Fibers |-> IF g = f THEN EmptyHandle ELSE IF g = p THEN Consumed ELSE h[g]]
  BY <1>2, <1>3, <1>4 DEF Switch
<1>7. at[f] = NotSuspended
  BY DEF Inv, Running
<1>8. at' = [at EXCEPT ![f] = NotSuspended, ![p] = NotSuspended]
  BY <1>1, <1>2, <1>4, <1>7 DEF Switch
<1>. QED
  BY <1>1, <1>5, <1>6, <1>8 DEF BackEffect, End

LEMMA BackInv ==
  ASSUME Inv, NEW call, NEW handle, BackEffect(call, handle),
         delivered' \in Values \cup {Broken, FiberError, NoFiber},
         \/ /\ call = [op |-> "yield", slot |-> parent_fiber[executing],
                       me |-> executing, top |-> executing]
            /\ handle = executing
            /\ backref' = [backref EXCEPT ![executing] = NoFiber]
         \/ call = NotSuspended /\ handle = EmptyHandle /\ backref' = backref
  PROVE  Inv'
<1>. USE FibersAssumption DEF Unset, Consumed, EmptyHandle
<1>. DEFINE f == executing
            p == parent_fiber[executing]
<1>1. f \in Fibers /\ p # NoFiber
  BY DEF Inv, TypeOK, BackEffect
<1>2. /\ p \in Fibers /\ p # f /\ f # Main /\ origin[f] = p
      /\ at[p].op = "resume" /\ at[p].slot = f /\ at[p].top = p
      /\ \A g \in Fibers : parent_fiber[g] = p => g = f
  BY <1>1, ResumerWaits
<1>3. /\ at \in [Fibers -> SuspendedCalls]
      /\ h \in [Fibers -> Fibers \cup {Unset, Consumed, EmptyHandle}]
      /\ parent_fiber \in [Fibers -> Fibers \cup {NoFiber}]
      /\ backref \in [Fibers -> Fibers \cup {NoFiber}]
  BY DEF Inv, TypeOK
<1>4. call \in SuspendedCalls /\ handle \in Fibers \cup {Unset, Consumed, EmptyHandle}
  BY <1>1, <1>2 DEF SuspendedCalls
<1>5. /\ executing' = p /\ current' = p /\ topframeref' = p /\ crashed' = FALSE
      /\ sthread' = sthread /\ origin' = origin
  BY DEF BackEffect
<1>6. at'[f] = call /\ at'[p] = NotSuspended /\ \A g \in Fibers \ {f, p} : at'[g] = at[g]
  BY <1>1, <1>2, <1>3 DEF BackEffect
<1>7. h'[f] = handle /\ h'[p] = Consumed /\ \A g \in Fibers \ {f, p} : h'[g] = h[g]
  BY <1>1, <1>2, <1>3 DEF BackEffect
<1>8. /\ parent_fiber'[f] = NoFiber
      /\ \A g \in Fibers \ {f} : parent_fiber'[g] = parent_fiber[g] /\ backref'[g] = backref[g]
  BY <1>1, <1>2, <1>3 DEF BackEffect
<1>9. call.op # "resume" /\ (call = NotSuspended \/ call.op = "yield")
  BY DEF NotSuspended
<1>10. sthread[f] /\ sthread[p]
  BY <1>1, <1>2 DEF Inv, Stacked, Untouched, NotSuspended
<1>11. TypeOK'
  BY <1>1, <1>2, <1>3, <1>4, <1>5 DEF Inv, TypeOK, BackEffect, SuspendedCalls
<1>12. NoCrash'
  BY <1>5 DEF NoCrash
<1>13. HandleInPlace'
  BY <1>1, <1>2, <1>3, <1>5, <1>6, <1>7 DEF Inv, HandleInPlace, NotSuspended
<1>14. BacktraceIsChain'
  <2>1. ASSUME NEW g \in Fibers PROVE (sthread[g] /\ ~IsDead(g) => backref[g] = parent_fiber[g])'
    <3>1. CASE g = f
      BY <1>1, <1>3, <1>5, <1>7, <1>8, <3>1 DEF IsDead
    <3>2. CASE g = p
      <4>1. ~IsDead(p)
        BY <1>1, <1>2, ResumerWaits DEF IsDead
      <4>. QED
        BY <1>2, <1>5, <1>8, <3>2, <4>1 DEF Inv, BacktraceIsChain
    <3>3. CASE g \notin {f, p}
      BY <1>5, <1>7, <1>8, <3>3 DEF Inv, BacktraceIsChain, IsDead
    <3>. QED
      BY <3>1, <3>2, <3>3
  <2>. QED
    BY <1>5, <2>1 DEF BacktraceIsChain
<1>15. Stacked'
  <2>1. ASSUME NEW g \in Fibers PROVE (~sthread[g] => Untouched(g) /\ g # executing)'
    <3>1. ~sthread[g] => g # f /\ g # p
      BY <1>10
    <3>. QED
      BY <1>5, <1>6, <1>7, <1>8, <3>1 DEF Inv, Stacked, Untouched
  <2>2. ASSUME NEW g \in Fibers
        PROVE (HasEnded(g) => h[g] = EmptyHandle /\ parent_fiber[g] = NoFiber)'
    <3>1. CASE g = f
      BY <1>1, <1>2, <1>5, <1>6, <1>7, <1>8, <3>1 DEF HasEnded, NotSuspended
    <3>2. CASE g = p
      BY <1>5, <3>2 DEF HasEnded
    <3>3. CASE g \notin {f, p}
      BY <1>5, <1>6, <1>7, <1>8, <3>3 DEF Inv, Stacked, HasEnded
    <3>. QED
      BY <3>1, <3>2, <3>3
  <2>. QED
    BY <2>1, <2>2 DEF Stacked
<1>16. Waiting'
  <2>1. ASSUME NEW g \in Fibers, NEW q \in Fibers
        PROVE (parent_fiber[g] = q <=> at[q].op = "resume" /\ at[q].slot = g)'
    <3>1. CASE q = f
      <4>1. \A k \in Fibers : parent_fiber[k] # f
        BY <1>1 DEF Inv, Waiting, Running, NotSuspended
      <4>. QED
        BY <1>1, <1>6, <1>8, <1>9, <3>1, <4>1
    <3>2. CASE q = p
      BY <1>2, <1>6, <1>8, <3>2 DEF NotSuspended
    <3>3. CASE q \notin {f, p}
      <4>1. parent_fiber'[g] = q <=> parent_fiber[g] = q
        BY <1>8, <3>3
      <4>. QED
        BY <1>6, <3>3, <4>1 DEF Inv, Waiting
    <3>. QED
      BY <3>1, <3>2, <3>3
  <2>2. ASSUME NEW g \in Fibers, NEW q \in Fibers PROVE (parent_fiber[g] = q => origin[g] = q)'
    BY <1>1, <1>5, <1>8 DEF Inv, Waiting
  <2>. QED
    BY <2>1, <2>2 DEF Waiting
<1>17. Yielded'
  BY <1>1, <1>2, <1>5, <1>6, <1>8 DEF Inv, Yielded, NotSuspended
<1>18. Running'
  BY <1>1, <1>2, <1>5, <1>6, <1>7, <1>8, <1>9, <1>10 DEF Inv, Running, NotSuspended
<1>. QED
  BY <1>11, <1>12, <1>13, <1>14, <1>15, <1>16, <1>17, <1>18 DEF Inv

LEMMA RefusedInv == Inv /\ Refused => Inv'
<1>. SUFFICES ASSUME Inv, Refused PROVE Inv'
  OBVIOUS
<1>1. TypeOK'
  BY DEF Inv, TypeOK, Refused
<1>2. NoCrash' /\ HandleInPlace'
  BY DEF Inv, NoCrash, HandleInPlace, Refused
<1>3. BacktraceIsChain' /\ Stacked'
  BY DEF Inv, BacktraceIsChain, Stacked, IsDead, HasEnded, Untouched, Refused
<1>4. Waiting' /\ Yielded' /\ Running'
  BY DEF Inv, Waiting, Yielded, Running, Refused
<1>. QED
  BY <1>1, <1>2, <1>3, <1>4 DEF Inv

LEMMA StutterInv == Inv /\ UNCHANGED vars => Inv'
<1>. SUFFICES ASSUME Inv, UNCHANGED vars PROVE Inv'
  OBVIOUS
<1>. USE DEF vars
<1>1. TypeOK'
  BY DEF Inv, TypeOK
<1>2. NoCrash' /\ HandleInPlace'
  BY DEF Inv, NoCrash, HandleInPlace
<1>3. BacktraceIsChain' /\ Stacked'
  BY DEF Inv, BacktraceIsChain, Stacked, IsDead, HasEnded, Untouched
<1>4. Waiting' /\ Yielded' /\ Running'
  BY DEF Inv, Waiting, Yielded, Running
<1>. QED
  BY <1>1, <1>2, <1>3, <1>4 DEF Inv

LEMMA NextInv == Regular /\ Inv /\ [Next]_vars => Inv'
<1>. SUFFICES ASSUME Regular, Inv, Next PROVE Inv'
  BY StutterInv
<1>1. ASSUME NEW f \in Fibers \ {Main}, NEW v \in Values, NEW ok \in Outcomes, Start(f, v, ok)
      PROVE Inv'
  <2>1. ok = TRUE
    BY DEF Outcomes, Regular
  <2>. QED
    BY <1>1, <2>1, StartInv
<1>2. ASSUME NEW f \in Fibers \ {Main}, NEW v \in Values, Resume(f, v) PROVE Inv'
  BY <1>2, ResumeInv
<1>3. ASSUME NEW v \in Values, Yield(v) PROVE Inv'
  <2>1. delivered' \in Values
    BY <1>3 DEF Yield
  <2>. QED
    BY <1>3, <2>1, YieldDoes, BackInv
<1>4. ASSUME NEW d \in Values \cup {Broken}, End(d) PROVE Inv'
  <2>1. delivered' \in Values \cup {Broken}
    BY <1>4 DEF End
  <2>. QED
    BY <1>4, <2>1, EndDoes, BackInv
<1>5. ASSUME Refused PROVE Inv'
  BY <1>5, RefusedInv
<1>. QED
  BY <1>1, <1>2, <1>3, <1>4, <1>5 DEF Next, RefuseResume, RefuseYield

(* In every reachable state all suspended stacks are where resume and      *)
(* yield look for them, and the assertions of both hold.                   *)
THEOREM InvHolds ==
  ASSUME Regular
  PROVE  Spec => []Inv
<1>1. [][Regular]_vars
  BY PTL
<1>. QED
  BY InitInv, NextInv, PTL DEF Spec

(* No switch to a missing stack, no failing assertion (fiberobject.py:77,  *)
(* 78, 122, 123), however resumes are nested.                              *)
THEOREM NeverCrashes ==
  ASSUME Regular
  PROVE  Spec => []NoCrash
<1>1. Inv => NoCrash
  BY DEF Inv
<1>. QED
  BY <1>1, InvHolds, PTL


(* Every suspended stack can be reached, over the object of its own fiber  *)
(* and over no other.                                                      *)
THEOREM HandlesStayInPlace ==
  ASSUME Regular
  PROVE  Spec => []HandleInPlace
<1>1. Inv => HandleInPlace
  BY DEF Inv
<1>. QED
  BY <1>1, InvHolds, PTL

(* The frames a backtrace walks start at the running fiber's and go on     *)
(* with those of its resumer; a fiber that has yielded is linked to none   *)
(* (fiberobject.py:70-82, 120-137, executioncontext.py:66-78).             *)
THEOREM BacktracesAreChains ==
  ASSUME Regular
  PROVE  Spec => []BacktraceIsChain
<1>1. Inv => BacktraceIsChain
  BY DEF Inv
<1>. QED
  BY <1>1, InvHolds, PTL

-----------------------------------------------------------------------------
(* Refinement.                                                             *)

LEMMA InitImplements == Init => Promise!Init
<1>. SUFFICES ASSUME Init PROVE Promise!Init
  OBVIOUS
<1>1. \A f \in Fibers : Status(f) = IF f = Main THEN "resumed" ELSE "new"
  BY DEF Init, Status
<1>. QED
  BY <1>1 DEF Init, Promise!Init

(* Starting a fiber and continuing one look the same to the program.       *)
LEMMA StartImplements ==
  ASSUME Inv, NEW f \in Fibers \ {Main}, NEW v \in Values, Start(f, v, TRUE)
  PROVE  Promise!Resume(f, v)
<1>. USE FibersAssumption DEF Unset, EmptyHandle
<1>1. StartEffect(f) /\ delivered' = v /\ executing \in Fibers
  BY StartDoes DEF Start, Inv, TypeOK
<1>2. Status(f) = "new"
  BY <1>1 DEF Status, StartEffect
<1>3. parent_fiber \in [Fibers -> Fibers \cup {NoFiber}] /\ sthread \in [Fibers -> BOOLEAN]
      /\ h \in [Fibers -> Fibers \cup {Unset, Consumed, EmptyHandle}]
  BY DEF Inv, TypeOK
<1>4. Status(f)' = "resumed"
  BY <1>1, <1>3 DEF Status, StartEffect
<1>5. ASSUME NEW g \in Fibers \ {f} PROVE Status(g)' = Status(g)
  <2>1. parent_fiber'[g] = parent_fiber[g] /\ sthread'[g] = sthread[g]
    BY <1>1, <1>3 DEF StartEffect
  <2>2. IsDead(g)' <=> IsDead(g)
    <3>1. h[executing] # EmptyHandle
      BY DEF Inv, Running
    <3>2. h'[g] = IF g = executing THEN executing ELSE h[g]
      BY <1>1, <1>3 DEF StartEffect
    <3>. QED
      BY <1>1, <2>1, <3>1, <3>2 DEF IsDead
  <2>. QED
    BY <2>1, <2>2 DEF Status
<1>6. [g \in Fibers |-> Status(g)]' = [[g \in Fibers |-> Status(g)] EXCEPT ![f] = "resumed"]
  BY <1>4, <1>5
<1>. QED
  BY <1>1, <1>2, <1>6 DEF Promise!Resume, StartEffect

LEMMA ResumeImplements ==
  ASSUME Inv, Regular, NEW f \in Fibers \ {Main}, NEW v \in Values, Resume(f, v)
  PROVE  Promise!Resume(f, v)
<1>. USE FibersAssumption DEF Unset, Consumed, EmptyHandle
<1>1. ResumeEffect(f) /\ delivered' = v /\ executing \in Fibers
  BY ResumeDoes DEF Resume, Inv, TypeOK
<1>2. Status(f) = "suspended"
  BY DEF Status, Resume
<1>3. parent_fiber \in [Fibers -> Fibers \cup {NoFiber}]
  BY DEF Inv, TypeOK
<1>4. Status(f)' = "resumed"
  BY <1>1, <1>3 DEF Status, ResumeEffect
<1>5. ASSUME NEW g \in Fibers \ {f} PROVE Status(g)' = Status(g)
  <2>1. parent_fiber'[g] = parent_fiber[g] /\ sthread'[g] = sthread[g]
    BY <1>1, <1>3 DEF ResumeEffect
  <2>2. IsDead(g)' <=> IsDead(g)
    <3>1. h[executing] # EmptyHandle
      BY DEF Inv, Running
    <3>2. h'[g] = IF g = executing THEN executing ELSE h[g]
      BY <1>1 DEF ResumeEffect
    <3>. QED
      BY <1>1, <2>1, <3>1, <3>2 DEF IsDead
  <2>. QED
    BY <2>1, <2>2 DEF Status
<1>6. [g \in Fibers |-> Status(g)]' = [[g \in Fibers |-> Status(g)] EXCEPT ![f] = "resumed"]
  BY <1>4, <1>5
<1>. QED
  BY <1>1, <1>2, <1>6 DEF Promise!Resume, ResumeEffect

LEMMA BackImplements ==
  ASSUME Inv, NEW call, NEW handle, BackEffect(call, handle),
         handle \in {executing, EmptyHandle}, NEW d, delivered' = d
  PROVE  Promise!BackToResumer(IF handle = EmptyHandle THEN "dead" ELSE "suspended", d)
<1>. USE FibersAssumption DEF Unset, Consumed, EmptyHandle
<1>. DEFINE p == parent_fiber[executing]
            status == IF handle = EmptyHandle THEN "dead" ELSE "suspended"
<1>1. PICK f \in Fibers : f = executing /\ p # NoFiber
  BY DEF Inv, TypeOK, BackEffect
<1>2. /\ p \in Fibers /\ p # f /\ f # Main /\ h[p] = p
      /\ p = Main \/ parent_fiber[p] # NoFiber
  BY <1>1, ResumerWaits DEF Inv, Running
<1>3. /\ h \in [Fibers -> Fibers \cup {Unset, Consumed, EmptyHandle}]
      /\ parent_fiber \in [Fibers -> Fibers \cup {NoFiber}]
  BY DEF Inv, TypeOK
<1>4. h'[f] = handle /\ \A g \in Fibers \ {f, p} : h'[g] = h[g]
  BY <1>1, <1>2, <1>3 DEF BackEffect
<1>5. parent_fiber'[f] = NoFiber /\ \A g \in Fibers \ {f} : parent_fiber'[g] = parent_fiber[g]
  BY <1>1, <1>3 DEF BackEffect
<1>6. Status(f)' = status
  <2>1. sthread'[f]
    BY <1>1 DEF BackEffect, Inv, Stacked
  <2>2. handle = EmptyHandle <=> IsDead(f)'
    BY <1>4, <2>1 DEF IsDead
  <2>. QED
    BY <1>2, <1>5, <2>1, <2>2 DEF Status
<1>7. ASSUME NEW g \in Fibers \ {f} PROVE Status(g)' = Status(g)
  <2>1. CASE g = p
    BY <1>2, <1>5, <2>1 DEF Status
  <2>2. CASE g # p
    BY <1>4, <1>5, <2>2 DEF Status, IsDead, BackEffect
  <2>. QED
    BY <2>1, <2>2
<1>8. [g \in Fibers |-> Status(g)]' = [[g \in Fibers |-> Status(g)] EXCEPT ![f] = status]
  BY <1>6, <1>7
<1>. QED
  BY <1>1, <1>2, <1>8 DEF Promise!BackToResumer, BackEffect

LEMMA RefusedImplements ==
  ASSUME Inv, NEW f \in Fibers, Status(f) \in {"resumed", "dead"} \/ executing = Main, Refused
  PROVE  Promise!Refuse(f)
<1>1. [g \in Fibers |-> Status(g)]' = [g \in Fibers |-> Status(g)]
  BY DEF Refused, Status, IsDead
<1>. QED
  BY <1>1 DEF Promise!Refuse, Refused

LEMMA StepImplements ==
  Regular /\ Inv /\ [Next]_vars => [Promise!Next]_(Promise!coroutines)
<1>. SUFFICES ASSUME Regular, Inv, [Next]_vars PROVE [Promise!Next]_(Promise!coroutines)
  OBVIOUS
<1>1. ASSUME NEW f \in Fibers \ {Main}, NEW v \in Values, NEW ok \in Outcomes, Start(f, v, ok)
      PROVE Promise!Next
  <2>1. ok = TRUE
    BY DEF Outcomes, Regular
  <2>. QED
    BY <1>1, <2>1, StartImplements DEF Promise!Next
<1>2. ASSUME NEW f \in Fibers \ {Main}, NEW v \in Values, Resume(f, v) PROVE Promise!Next
  BY <1>2, ResumeImplements DEF Promise!Next
<1>3. ASSUME NEW v \in Values, Yield(v) PROVE Promise!Next
  <2>1. delivered' = v /\ executing # EmptyHandle
    BY <1>3, FibersAssumption DEF Yield, Inv, TypeOK, EmptyHandle
  <2>2. \E call : BackEffect(call, executing)
    BY <1>3, YieldDoes
  <2>3. Promise!BackToResumer(IF executing = EmptyHandle THEN "dead" ELSE "suspended", v)
    BY <2>1, <2>2, BackImplements
  <2>. QED
    BY <2>1, <2>3 DEF Promise!Next
<1>4. ASSUME NEW d \in Values \cup {Broken}, End(d) PROVE Promise!Next
  <2>1. delivered' = d
    BY <1>4 DEF End
  <2>2. BackEffect(NotSuspended, EmptyHandle)
    BY <1>4, EndDoes
  <2>3. Promise!BackToResumer(IF EmptyHandle = EmptyHandle THEN "dead" ELSE "suspended", d)
    BY <2>1, <2>2, BackImplements
  <2>. QED
    BY <2>3 DEF Promise!Next
<1>5. ASSUME NEW f \in Fibers \ {Main}, RefuseResume(f) PROVE Promise!Next
  <2>1. Status(f) \in {"resumed", "dead"} /\ Refused
    BY <1>5 DEF RefuseResume, Status, IsDead
  <2>. QED
    BY <2>1, RefusedImplements DEF Promise!Next
<1>6. ASSUME RefuseYield PROVE Promise!Next
  <2>1. executing = Main /\ Main \in Fibers /\ Refused
    BY <1>6, FibersAssumption DEF RefuseYield, Inv, Running, TypeOK
  <2>. QED
    BY <2>1, RefusedImplements DEF Promise!Next
<1>7. ASSUME UNCHANGED vars PROVE UNCHANGED Promise!coroutines
  BY <1>7 DEF vars, Promise!coroutines, Status, IsDead
<1>. QED
  BY <1>1, <1>2, <1>3, <1>4, <1>5, <1>6, <1>7 DEF Next

(* Resuming and yielding over stack handles implements coroutines, whoever *)
(* resumes whom, as long as each fiber keeps its resumer (fiberobject.py). *)
THEOREM FibersAreCoroutines ==
  ASSUME Regular
  PROVE  Spec => ImplementsCoroutines
<1>1. [][Regular]_vars
  BY PTL
<1>. QED
  BY <1>1, InvHolds, InitImplements, StepImplements, PTL
     DEF Spec, ImplementsCoroutines, Promise!Spec
=============================================================================
