------------------------------ MODULE Flattening ------------------------------
(* Array#flatten over arrays that hold arrays, also themselves: heap gives *)
(* the items of each array, and what is not in its domain is no array.     *)
EXTENDS Integers, Sequences

(* Thread#recursion_guard: the block is called unless the execution        *)
(* context has noted the object, and it is noted meanwhile.                *)
recursion_guard(recursive_objects, w_obj) ==
  [in_recursion |-> w_obj \in recursive_objects, noted |-> recursive_objects \cup {w_obj}]

(* One level of arrays is opened, and below it those within level - 1; a   *)
(* negative level never gets to 0.  The error of an inner array leaves     *)
(* every method on the way.                                                *)
RECURSIVE flatten(_, _, _, _)
flatten(heap, array, level, recursive_objects) ==
  LET guard == recursion_guard(recursive_objects, array)
      all[n \in 0..Len(heap[array])] ==
        IF n = 0 THEN [out |-> <<>>, modified |-> FALSE, error |-> FALSE]
        ELSE LET before == all[n - 1]
                 e == heap[array][n]
                 inner == flatten(heap, e, level - 1, guard.noted)
             IN  CASE before.error -> before
                   [] level # 0 /\ e \in DOMAIN heap ->
                        [out |-> before.out \o inner.out, modified |-> TRUE, error |-> inner.error]
                   [] OTHER -> [before EXCEPT !.out = Append(@, e)]
  IN  IF guard.in_recursion THEN [out |-> <<>>, modified |-> FALSE, error |-> TRUE]
      ELSE all[Len(heap[array])]
=============================================================================
