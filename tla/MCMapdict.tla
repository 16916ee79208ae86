------------------------------ MODULE MCMapdict ------------------------------
(* Instances of Mapdict for TLC.                                           *)
EXTENDS Mapdict

CONSTANTS o1, o2, na, nb, tainted, i1, d1, s1

MCTypeOf ==
  [v \in Values |-> IF v = i1 THEN "int" ELSE IF v = d1 THEN "float" ELSE "object"]
Symmetry == Permutations(Objects) \cup Permutations(Names)
=============================================================================
