--------------------- MODULE MCConstrainedVariablesStore ---------------------
(* An instance of ConstrainedVariablesStore for TLC: one solver, which     *)
(* does not know the selector z.  c1 constrains x or y, as z says.         *)
EXTENDS ConstrainedVariablesStore

CONSTANTS varX, varY, varZ, heavy, c1, c2, c3

MCWeight      == [s \in Solvers |-> 200]
PathSupported == {<<varX, heavy>>, <<varY, heavy>>}
PathSolverOf  == [c \in Cons |-> heavy]
PathReads(c, m) == CASE c = c1 -> {varZ, IF m[varZ] = 0 THEN varX ELSE varY}
                     [] c = c2 -> {varX, varY}
                     [] c = c3 -> {varZ}
PathHolds(c, m) == CASE c = c1 -> (IF m[varZ] = 0 THEN m[varX] ELSE m[varY]) = 1
                     [] c = c2 -> m[varX] # m[varY]
                     [] c = c3 -> m[varZ] = 0

NoBreaks(c, m) == {}
=============================================================================
