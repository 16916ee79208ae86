------------------------------- MODULE MCArrays -------------------------------
EXTENDS Arrays
CONSTANTS x, y
MCValues == {x, y}
MCMethods == Walks \cup Deleting \cup Backwards
               \cup {"map!", "each_slice", "each_cons", "cycle", "fill"} \cup Generators \cup Counters
MCCounts(m) ==
  {[NoArg EXCEPT !.start = i, !.last = n, !.r = by, !.excl = excl] :
     i \in -1..1, n \in -1..2, by \in IF m \in {"step", "Range#step"} THEN 1..2 ELSE {1},
     excl \in IF m \in {"Range#each", "Range#step"} THEN BOOLEAN ELSE {FALSE}}
MCArgsOf(m) ==
  CASE m = "fill" -> {[NoArg EXCEPT !.start = i, !.length = n] : i \in {-2, 0, 1}, n \in 0..2}
    [] m = "product" -> {[NoArg EXCEPT !.others = o] : o \in {<<>>, <<<<x, y>>>>, <<<<x>>, <<x, y>>>>, <<<<>>>>}}
    [] m = "repeated_permutation" -> {[NoArg EXCEPT !.r = n] : n \in -1..2}
    [] m \in Counters -> MCCounts(m)
    [] m \in Generators -> {[NoArg EXCEPT !.r = n] : n \in {-1, 0, 1, 2, 3}}
    [] OTHER -> {NoArg}
MCAnswersOf(m) == CASE m \in Generators \cup Counters -> {Nil}
                    [] m \in {"max_by", "min_by", "minmax_by"} -> 0..2
                    [] m \in {"map", "map!", "inject", "group_by", "fill"} -> Items
                    [] OTHER -> {Nil, x}
=============================================================================
