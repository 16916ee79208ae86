------------------------------ MODULE Enumerator ------------------------------
(* An Enumerator from outside: next, peek and rewind.  Its fiber runs the  *)
(* method with a block that yields each item to the program; got is the    *)
(* history of what next has returned.                                      *)
EXTENDS ArrayObject

NoEnumerator == [method |-> "none", nextvals |-> Nil, fiber |-> FALSE, finished |-> FALSE, got |-> <<>>]
initialize(m) == [NoEnumerator EXCEPT !.method = m]

(* What Fiber.yield returns when resume is called without a value: an      *)
(* empty array, which a method takes for yes.                              *)
Resumption == <<>>

(* Whether next and peek have to resume the fiber; at the end of the       *)
(* method true is what the fiber hands over.                               *)
Waits(e) == e # NoEnumerator /\ e.nextvals \in {Nil, <<>>}

peeked(e, c) ==
  [e EXCEPT !.fiber = TRUE, !.finished = c.phase = "done",
            !.nextvals = <<IF c.phase = "done" THEN TRUE ELSE c.item>>]

(* At the end StopIteration is raised out of peek, before the shift.       *)
next(e) == IF e.finished THEN e
           ELSE [e EXCEPT !.nextvals = Tail(@), !.got = Append(@, Head(e.nextvals))]

(* Mutant: what was looked at is kept.                                     *)
rewindKeepsLook(e) == [e EXCEPT !.fiber = FALSE, !.finished = FALSE, !.got = <<>>]

rewind(e) == [e EXCEPT !.nextvals = Nil, !.fiber = FALSE, !.finished = FALSE, !.got = <<>>]

Looked(e) == IF e.finished \/ e.nextvals = Nil THEN <<>> ELSE e.nextvals
=============================================================================
