------------------------------ MODULE CellDict ------------------------------
(* Names and their values (src/topaz/celldict.py), for global variables and *)
(* for what belongs to a module.  A value that is set again gets a cell and *)
(* from then on changes inside it; behind a virtual name is a getter.       *)
(* A trace takes what _get_cell finds as fixed for as long as the version   *)
(* is the same.                                                             *)
EXTENDS Integers, TLC

newdict == [values |-> <<>>, version |-> 0]
mutated(d) == [d EXCEPT !.version = @ + 1]

Has(d, name) == name \in DOMAIN d.values
Kept(d, name, how) == Has(d, name) /\ d.values[name].in = how

(* _get_cell: the value itself, or the cell, whatever is in it.             *)
Fixed(d) == [name \in DOMAIN d.values |-> IF Kept(d, name, "cell") THEN [in |-> "cell"] ELSE d.values[name]]

get(d, name) == d.values[name].value

(* Mutant: moving the value to a cell is no change.                         *)
setKeepsVersion(d, name, w_value) ==
  [(IF Has(d, name) THEN d ELSE mutated(d)) EXCEPT
     !.values = (name :> [in |-> IF Has(d, name) THEN "cell" ELSE "dict", value |-> w_value]) @@ @]

IsReadonly(d, name) == Kept(d, name, "getter")
set(d, name, w_value) ==
  IF Kept(d, name, "cell") THEN [d EXCEPT !.values[name].value = w_value]
  ELSE [mutated(d) EXCEPT !.values = (name :> [in |-> IF Has(d, name) THEN "cell" ELSE "dict", value |-> w_value]) @@ @]

delete(d, name) ==
  IF ~Has(d, name) THEN d ELSE [mutated(d) EXCEPT !.values = [n \in DOMAIN @ \ {name} |-> @[n]]]

define_virtual(d, name, w_value) ==
  [mutated(d) EXCEPT !.values = (name :> [in |-> "getter", value |-> w_value]) @@ @]
=============================================================================
