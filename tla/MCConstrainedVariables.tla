----------------------- MODULE MCConstrainedVariables -----------------------
(* Instances of ConstrainedVariables for TLC.                              *)
EXTENDS ConstrainedVariables

CONSTANTS varX, varY, varZ, heavy, light, c1, c2, c3

MCWeight == [s \in Solvers |-> IF s = heavy THEN 200 ELSE 100]

(* Two solvers that share x; heavy owns it, light reads it.  y is unknown  *)
(* to light, so c3 reads it as a constant.                                 *)
TwoSupported == {<<varX, heavy>>, <<varY, heavy>>, <<varX, light>>, <<varZ, light>>}
TwoSolverOf  == [c \in Cons |-> IF c = c1 THEN heavy ELSE light]
TwoReads(c, m) == CASE c = c1 -> {varX, varY} [] c = c2 -> {varX, varZ} [] c = c3 -> {varY, varZ}
TwoHolds(c, m) == CASE c = c1 -> m[varX] = m[varY]
                    [] c = c2 -> m[varX] <= m[varZ]
                    [] c = c3 -> m[varY] <= m[varZ]

(* No solver knows the selector z.  When it changes, c2 is run again and   *)
(* joins y, which is light's, to heavy.  c3 may then not agree.            *)
JoinSupported == {<<varY, light>>, <<varY, heavy>>}
JoinSolverOf  == [c \in Cons |-> IF c = c1 THEN light ELSE heavy]
JoinReads(c, m) == IF c = c2 /\ m[varZ] = 0 THEN {varZ} ELSE IF c = c2 THEN {varY, varZ} ELSE {varY}
JoinHolds(c, m) == /\ c = c2 /\ m[varZ] = 1 => m[varY] = 1
                   /\ c = c3 => m[varY] = 0

NoBreaks(c, m) == {}

(* c2 raises before it reads anything, after it read the selector, or when *)
(* heavy is asked for a variable for y; c3 before it reads y.              *)
JoinBreaks(c, m) ==
  CASE c = c2 -> {<<{}, {}>>, <<{varZ}, {varZ}>>}
                   \cup (IF m[varZ] = 1 THEN {<<{varZ}, {varY, varZ}>>} ELSE {})
    [] c = c3 -> {<<{}, {}>>}
    [] OTHER  -> {}
=============================================================================
