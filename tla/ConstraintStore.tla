--------------------------- MODULE ConstraintStore ---------------------------
(* What constraints over variables promise to a program that uses one      *)
(* solver (README.md:77-79): it declares rules it `always wants to be      *)
(* true', and whenever it runs again the values it can read satisfy the    *)
(* rules in force.  An assignment that succeeds takes effect; only         *)
(* variables the solver owns may change with it.  Reading changes nothing. *)
(* Once an error has been raised nothing is promised.                      *)
EXTENDS Naturals

CONSTANTS Vars, Values, Cons, Holds(_, _)

VARIABLES
  value,    \* what the program reads from each variable
  rules,    \* the constraints in force
  owned,    \* the variables handed to the solver
  broken    \* an error has been raised

store == <<value, rules, owned, broken>>

Consistent == \A c \in rules' : Holds(c, value')
MovesOnly(xs) == \A x \in Vars \ xs : value'[x] = value[x]

Init ==
  /\ value \in [Vars -> Values]
  /\ rules = {} /\ owned = {} /\ broken = FALSE

Declare(c) ==
  /\ c \notin rules
  /\ rules' = rules \cup {c}
  /\ owned \subseteq owned' /\ owned' \subseteq Vars
  /\ value' \in [Vars -> Values] /\ Consistent /\ MovesOnly(owned')
  /\ UNCHANGED broken

Withdraw(c) ==
  /\ c \in rules
  /\ rules' = rules \ {c}
  /\ UNCHANGED <<value, owned, broken>>

Assign(x, v) ==
  /\ owned \subseteq owned' /\ owned' \subseteq Vars
  /\ value' \in [Vars -> Values] /\ value'[x] = v
  /\ UNCHANGED <<rules, broken>>
  /\ Consistent /\ MovesOnly(owned' \cup {x})

(* Of several variables assigned at once only the last is sure to get its  *)
(* value: ending the others runs the solver again.                         *)
AssignBoth(x, v, y, w) ==
  /\ x # y
  /\ owned \subseteq owned' /\ owned' \subseteq Vars
  /\ value' \in [Vars -> Values] /\ value'[y] = w
  /\ UNCHANGED <<rules, broken>>
  /\ Consistent /\ MovesOnly(owned' \cup {x, y})

Error == ~broken /\ broken' = TRUE /\ UNCHANGED <<value, rules, owned>>

Next == \/ \E c \in Cons : Declare(c) \/ Withdraw(c)
        \/ \E x \in Vars, v \in Values : Assign(x, v)
        \/ \E x, y \in Vars, v, w \in Values : AssignBoth(x, v, y, w)
        \/ Error

Spec == Init /\ [][Next]_store
=============================================================================
