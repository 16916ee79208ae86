----------------------------- MODULE Arrangements -----------------------------
(* The generators of Topaz::Array.  A generator hands its block one        *)
(* arrangement, out, and derives the next from where it is.  The items of  *)
(* an arrangement are counted from 1 here.                                 *)
EXTENDS ArrayObject, TLC, FiniteSetsExt

Generators == {"product", "permutation", "combination", "repeated_permutation", "repeated_combination"}

Picked(s, indices) == [j \in DOMAIN indices |-> s[indices[j]]]
Turned(s, k) == Append(RemoveAt(s, k), s[k])
Swapped(s, i, j) == [s EXCEPT ![i] = s[j], ![j] = s[i]]

(* The arrays a product is made of: the receiver itself, for which a       *)
(* change by the block shows, and the arguments; a repeated permutation is *)
(* the product of a copy with itself.                                      *)
Factors(m, s, arg) == IF m = "product" THEN <<s>> \o arg.others ELSE Times(arg.r, s)

(* The next product goes up by one at i and starts again behind it.        *)
Counted(l, i, arrs) ==
  LET indices == [j \in DOMAIN arrs |-> IF j < i THEN l.indices[j]
                                        ELSE IF j = i THEN l.indices[j] + 1 ELSE 1]
      pool == [j \in DOMAIN arrs |-> IF j < i THEN l.out[j] ELSE Item(arrs[j], indices[j] - 1)]
  IN  [l EXCEPT !.indices = indices, !.out = pool]

(* Mutants: the positions behind i are not turned back; i never runs out.  *)
PermutedAsIs(l, i) ==
  LET n == Len(l.copy)
      pool == Swapped(l.copy, i, n - (l.indices[i] - 1) + 1)
  IN  [l EXCEPT !.indices = [k \in DOMAIN @ |-> IF k < i THEN @[k]
                                                ELSE IF k = i THEN @[k] - 1 ELSE n - k + 1],
                !.copy = pool, !.out = Slice(pool, 0, Len(l.indices))]
PermutedOnAndOn(l, i) ==
  LET n == Len(l.copy)
      pool == Swapped(l.copy, i, n - (l.indices[i] - 1) + 1)
  IN  [l EXCEPT !.indices = [k \in DOMAIN @ |-> IF k <= i THEN @[k] ELSE n - k + 1],
                !.copy = pool, !.out = Slice(pool, 0, Len(l.indices))]

(* The next permutation: the positions behind i have been through all      *)
(* their items and are turned back, i takes its next.                      *)
Permuted(l, i) ==
  LET n == Len(l.copy)
      r == Len(l.indices)
      back == FoldLeft(LAMBDA s, k : Turned(s, r - k + 1), l.copy, [k \in 1..r - i |-> k])
      pool == Swapped(back, i, n - (l.indices[i] - 1) + 1)
  IN  [l EXCEPT !.indices = [k \in DOMAIN @ |-> IF k < i THEN @[k]
                                                ELSE IF k = i THEN @[k] - 1 ELSE n - k + 1],
                !.copy = pool, !.out = Slice(pool, 0, r)]

(* The next combination goes up at i and counts on from there; one that    *)
(* may repeat items goes up at i and stays there.                          *)
Combined(l, i) ==
  LET indices == [j \in DOMAIN l.indices |->
                    IF j < i THEN l.indices[j] ELSE l.indices[i] + 1 + (j - i)]
  IN  [l EXCEPT !.indices = indices, !.out = Picked(l.copy, indices)]
Repeated(l, i) ==
  LET indices == [j \in DOMAIN l.indices |-> IF j < i THEN l.indices[j] ELSE l.indices[i] + 1]
  IN  [l EXCEPT !.indices = indices, !.out = Picked(l.copy, indices)]

-----------------------------------------------------------------------------
(* The state a generator begins with; indices are the cycles of a          *)
(* permutation.                                                            *)
Started(m, s, arg) ==
  LET n == Len(s)
      r == arg.r
      arrs == Factors(m, s, arg)
      none == CASE m = "product" -> \E j \in DOMAIN arrs : arrs[j] = <<>>
                [] m \in {"repeated_combination", "repeated_permutation"} -> r < 0 \/ (r > 0 /\ n = 0)
                [] OTHER -> r \notin 0..n
      indices == CASE m = "permutation" -> [k \in 1..r |-> n - k + 1]
                   [] m = "combination" -> [k \in 1..r |-> k]
                   [] m = "product" -> [j \in DOMAIN arrs |-> 1]
                   [] OTHER -> Times(r, 1)
      first == CASE m = "product" -> [j \in DOMAIN arrs |-> arrs[j][1]]
                 [] m \in {"permutation", "combination"} -> Slice(s, 0, r)
                 [] OTHER -> Times(r, s[1])
      Fresh == [copy |-> s, lens |-> [j \in DOMAIN arrs |-> Len(arrs[j])]]
  IN  IF none THEN Fresh @@ [over |-> TRUE, indices |-> <<>>, out |-> <<>>]
      ELSE Fresh @@ [over |-> FALSE, indices |-> indices, out |-> first]

(* Where a generator can still go on; and one more arrangement.            *)
Onward(m, l) ==
  {i \in DOMAIN l.indices :
     CASE m = "combination" -> l.indices[i] # i + Len(l.copy) - Len(l.indices)
       [] m = "repeated_combination" -> l.indices[i] # Len(l.copy)
       [] m = "permutation" -> l.indices[i] > 1
       [] OTHER -> l.indices[i] < l.lens[i]}

Advanced(m, l, s, arg) ==
  LET i == Max(Onward(m, l))
  IN  CASE Onward(m, l) = {} -> [l EXCEPT !.over = TRUE]
        [] m = "combination" -> Combined(l, i)
        [] m = "permutation" -> Permuted(l, i)
        [] m = "repeated_combination" -> Repeated(l, i)
        [] OTHER -> Counted(l, i, Factors(m, IF m = "product" THEN s ELSE l.copy, arg))
=============================================================================
