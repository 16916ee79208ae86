----------------------------- MODULE Coroutines -----------------------------
(* What Fiber promises to a program (topaz/objects/fiberobject.py): one    *)
(* fiber runs; resume starts a new fiber or continues a suspended one      *)
(* where it yielded; yielding, returning and raising go back to the fiber  *)
(* that resumed; what is handed over arrives there and nowhere else.       *)
CONSTANTS Fibers, Main, NoFiber, Values, Errors

VARIABLES
  running,    \* the fiber that runs
  resumer,    \* resumer[f]: who waits for f to yield or end
  status,     \* new, suspended, resumed or dead
  delivered   \* what the running fiber was handed last

coroutines == <<running, resumer, status, delivered>>

Init ==
  /\ running = Main
  /\ resumer = [f \in Fibers |-> NoFiber]
  /\ status = [f \in Fibers |-> IF f = Main THEN "resumed" ELSE "new"]
  /\ delivered = NoFiber

Resume(f, v) ==
  /\ status[f] \in {"new", "suspended"}
  /\ status' = [status EXCEPT ![f] = "resumed"]
  /\ resumer' = [resumer EXCEPT ![f] = running]
  /\ running' = f
  /\ delivered' = v

BackToResumer(s, d) ==
  /\ running # Main
  /\ status' = [status EXCEPT ![running] = s]
  /\ resumer' = [resumer EXCEPT ![running] = NoFiber]
  /\ running' = resumer[running]
  /\ delivered' = d

(* Resuming who is resumed or dead, and yielding out of the main fiber.    *)
Refuse(f) ==
  /\ status[f] \in {"resumed", "dead"} \/ running = Main
  /\ delivered' \in Errors
  /\ UNCHANGED <<running, resumer, status>>

Next == \/ \E f \in Fibers, v \in Values : Resume(f, v)
        \/ \E v \in Values : BackToResumer("suspended", v)
        \/ \E d \in Values \cup Errors : BackToResumer("dead", d)
        \/ \E f \in Fibers : Refuse(f)

Spec == Init /\ [][Next]_coroutines
=============================================================================
