---------------------- MODULE ConstrainedVariablesStore ----------------------
(* The assignment protocol with one solver implements ConstraintStore.     *)
(* The program sees nothing while a call is pending, so the refinement     *)
(* mapping needs a history variable: what it saw when it last ran.         *)
EXTENDS ConstrainedVariables

VARIABLE settled    \* what the program could read when it last ran

Observed == [value |-> [x \in Vars |-> Visible(x)],
             rules |-> {c \in Cons : enabled[c]},
             owned |-> {x \in Vars : IsSolveable(x)}]

SettledInit == Init /\ settled = Observed
SettledNext == Next /\ settled' = IF Quiet' THEN Observed' ELSE settled
SettledSpec == SettledInit /\ [][SettledNext]_<<vars, settled>>

Store == INSTANCE ConstraintStore WITH
           value <- settled.value, rules <- settled.rules,
           owned <- settled.owned, broken <- raised

(* Refinement: every operation of the protocol, seen when it returns, is   *)
(* one step of the store.                                                  *)
ImplementsStore == Store!Spec
=============================================================================
