------------------------ MODULE MCIdentityConstraints ------------------------
(* Instances of IdentityConstraints for TLC.  list holds one of two cells, *)
(* whose fields are n1 and n2; c1 is `list.n is? second'                   *)
(* (test_identity_recalc), c2 is `list is? b', c3 is `second is? b'.       *)
EXTENDS IdentityConstraints

CONSTANTS list, n1, n2, second, b, c1, c2, c3

Field(m) == IF m[list] = 1 THEN n1 ELSE n2
ListReads(c, m) == CASE c = c1 -> {list, Field(m), second}
                     [] c = c2 -> {list, b}
                     [] c = c3 -> {second, b}
ListThis(c, m) == CASE c = c1 -> Field(m) [] c = c2 -> list [] c = c3 -> second
ListThat(c, m) == IF c = c1 THEN second ELSE b

(* What IdentityProofs assumes of blocks to show that they follow their    *)
(* paths holds of these.                                                   *)
ASSUME PathsAssumption == PathsDecide /\ NoFeedback
=============================================================================
