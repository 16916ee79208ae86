---------------------------- MODULE AttributeStore ----------------------------
(* What an object's attributes are to the program: each object has its own *)
(* values, flags and constraint variables by name; an operation changes    *)
(* one name of one object; a copy starts with what the original has.       *)
CONSTANTS Objects, Names, Flags, Infectious, Values, Nil

VARIABLE obj  \* obj[o]: the object's attributes, Nil before it is allocated

(* attr[n]: the value of attribute n, Nil if unset; flag: the flags set;   *)
(* cvar[n]: whose constraint variable stands for attribute n.              *)
Fresh == [attr |-> [n \in Names |-> Nil], flag |-> {}, cvar |-> [n \in Names |-> Nil]]

Init == obj = [o \in Objects |-> Nil]

(* A new object, dup and clone.                                            *)
Copy(x, fs) == [x EXCEPT !.flag = @ \cap fs]
Created(others) ==
  {Fresh} \cup {Copy(x, fs) : x \in others, fs \in {Infectious, Flags}}

(* An attribute or a flag set, a flag unset, a constraint variable made    *)
(* for an attribute of o.                                                  *)
Changed(o, x) ==
  {[x EXCEPT !.attr[n] = v] : n \in Names, v \in Values}
    \cup {[x EXCEPT !.flag = @ \cup {f}] : f \in Flags}
    \cup {[x EXCEPT !.flag = @ \ {f}] : f \in Flags}
    \cup {[x EXCEPT !.cvar[n] = o] : n \in {n \in Names : x.cvar[n] = Nil}}

Operate(o) ==
  LET now == obj[o]
  IN  /\ obj'[o] \in IF now = Nil THEN Created({obj[p] : p \in Objects} \ {Nil})
                                  ELSE Changed(o, now)
      /\ \A p \in Objects \ {o} : obj'[p] = obj[p]

Spec == Init /\ [][\E o \in Objects : Operate(o)]_obj
=============================================================================
