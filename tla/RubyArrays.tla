------------------------------ MODULE RubyArrays ------------------------------
(* What the methods of an array promise, said of sequences: the sequence   *)
(* each operation leaves behind; what a method hands to its block one by   *)
(* one, when it stops, and what has become of the array and is returned.   *)
EXTENDS Integers, Sequences, SequencesExt, FiniteSetsExt

CONSTANTS Nil, Self

Before(s, n) == SubSeq(s, 1, n)
After(s, n) == SubSeq(s, n + 1, Len(s))
At(s, positions) == [k \in 1..Cardinality(positions) |->
                       s[CHOOSE i \in positions : Cardinality({j \in positions : j <= i}) = k]]
Padded(s, n) == s \o [k \in 1..(n - Len(s)) |-> Nil]

-----------------------------------------------------------------------------
(* A subscript names the position a span begins at and its length; one     *)
(* that begins before the array or has a negative count names nothing.     *)
First(s, w) == IF w.start < 0 THEN w.start + Len(s) ELSE w.start
Length(s, w) ==
  LET end == IF w.end < 0 THEN w.end + Len(s) ELSE w.end
  IN  CASE w.kind = "index" -> 1
        [] w.kind = "count" -> w.end
        [] w.kind = ".." -> Max({end - First(s, w) + 1, 0})
        [] w.kind = "..." -> Max({end - First(s, w), 0})
Names(s, w) == First(s, w) >= 0 /\ Length(s, w) >= 0
Within(s, w) == Names(s, w) /\ First(s, w) + (IF w.kind = "index" THEN 1 ELSE 0) <= Len(s)

Span(s, w) == SubSeq(After(s, First(s, w)), 1, Min({Length(s, w), Len(s) - First(s, w)}))
Without(s, w) == Before(s, First(s, w)) \o After(s, Min({First(s, w) + Length(s, w), Len(s)}))
With(s, w, rep) ==
  Padded(Before(s, Min({First(s, w), Len(s)})), First(s, w)) \o rep
    \o After(s, Min({First(s, w) + Length(s, w), Len(s)}))

Fetched(s, w) == IF ~Within(s, w) THEN Nil ELSE IF w.kind = "index" THEN Span(s, w)[1] ELSE Span(s, w)

AllAt(s, w) == IF w.kind = "index" THEN <<Fetched(s, w)>> ELSE IF Within(s, w) THEN Span(s, w) ELSE <<>>

(* The item at i comes first.                                              *)
Rotated(s, n) == [i \in DOMAIN s |-> s[((i - 1 + n) % Len(s)) + 1]]
Inserted(s, i, args) ==
  LET at == IF i < 0 THEN i + Len(s) + 1 ELSE i
  IN  Padded(Before(s, Min({at, Len(s)})), at) \o args \o After(s, Min({at, Len(s)}))
Unique(s) == At(s, {i \in DOMAIN s : \A j \in 1..i - 1 : s[j] # s[i]})
Only(s, set) == At(s, {i \in DOMAIN s : s[i] \in set})
TakenOff(s, n) == Before(s, Len(s) - Min({n, Len(s)}))

-----------------------------------------------------------------------------
(* The tuples of positions in sequences of these lengths in lexicographic  *)
(* order, and which of them an arrangement takes: all, those that do not   *)
(* repeat a position, those that only go up, those that never go down.     *)
Tuples(lens) ==
  LET upto[j \in 0..Len(lens)] ==
        IF j = 0 THEN <<<<>>>>
        ELSE LET shorter == upto[j - 1]
             IN  [k \in 1..Len(shorter) * lens[j] |->
                    Append(shorter[((k - 1) \div lens[j]) + 1], ((k - 1) % lens[j]) + 1)]
  IN  upto[Len(lens)]

Admits(m, t) ==
  CASE m = "permutation" -> \A j, k \in DOMAIN t : j # k => t[j] # t[k]
    [] m = "combination" -> \A j, k \in DOMAIN t : j < k => t[j] < t[k]
    [] m = "repeated_combination" -> \A j, k \in DOMAIN t : j < k => t[j] <= t[k]
    [] OTHER -> TRUE

Arranged(m, factors) ==
  LET tuples == SelectSeq(Tuples([j \in DOMAIN factors |-> Len(factors[j])]), LAMBDA t : Admits(m, t))
  IN  [n \in DOMAIN tuples |-> [j \in DOMAIN factors |-> factors[j][tuples[n][j]]]]

-----------------------------------------------------------------------------
(* What the counting methods count: the integers of an interval that lie   *)
(* whole steps from its beginning.                                         *)
Interval(m, arg) ==
  CASE m = "times" -> 0..arg.start - 1
    [] m = "downto" -> arg.last..arg.start
    [] m \in {"Range#each", "Range#step"} /\ arg.excl -> arg.start..arg.last - 1
    [] OTHER -> arg.start..arg.last
Numbers(m, arg) ==
  LET from == IF m = "times" THEN 0 ELSE arg.start
      by == CASE m = "downto" -> -1 [] m \in {"step", "Range#step"} -> arg.r [] OTHER -> 1
      steps == {k \in 0..Cardinality(Interval(m, arg)) : from + k * by \in Interval(m, arg)}
  IN  [k \in 1..Cardinality(steps) |-> from + (k - 1) * by]

(* An array of arrays is flattened level by level; that comes to no end,   *)
(* or meets an array it is inside of, where a path of that many steps      *)
(* leads from an array to itself.                                          *)
Opened(heap, s) == FlattenSeq([n \in DOMAIN s |-> IF s[n] \in DOMAIN heap THEN heap[s[n]] ELSE <<s[n]>>])
Levels(heap, level) == IF level < 0 THEN 2 * Cardinality(DOMAIN heap) ELSE level
Flattened(heap, array, level) ==
  FoldLeft(LAMBDA s, n : Opened(heap, s), heap[array], [n \in 1..Levels(heap, level) |-> n])
Reached(heap, from, steps) ==
  LET at[n \in 0..steps] ==
        IF n = 0 THEN from
        ELSE LET before == at[n - 1] IN UNION {Range(heap[b]) \cap DOMAIN heap : b \in before}
  IN  at[steps]
ComesBack(heap, array, level) ==
  \E n \in 0..Levels(heap, level) : \E b \in Reached(heap, {array}, n) :
    \E k \in 1..Levels(heap, level) - n : b \in Reached(heap, {b}, k)

-----------------------------------------------------------------------------
(* What a method hands out of the array s, if its block lets it go on.     *)
HandsOut(m, s, arg) ==
  CASE m \in {"reverse_each", "rindex"} -> Reverse(s)
    [] m = "inject" -> After(s, Min({1, Len(s)}))
    [] m = "each_slice" -> [k \in 1..((Len(s) + 1) \div 2) |-> SubSeq(s, 2 * k - 1, Min({2 * k, Len(s)}))]
    [] m = "each_cons" -> [k \in 1..Max({Len(s) - 1, 0}) |-> <<s[k], s[k + 1]>>]
    [] m = "cycle" -> s \o s
    [] m = "fill" ->
         LET left == IF arg.start < 0 THEN Max({arg.start + Len(s), 0}) ELSE arg.start
         IN  [k \in 1..arg.length |-> left + k - 1]
    [] m \in {"upto", "downto", "times", "step", "Range#each", "Range#step"} -> Numbers(m, arg)
    [] m = "product" -> Arranged(m, <<s>> \o arg.others)
    [] m \in {"permutation", "combination", "repeated_permutation", "repeated_combination"} ->
         IF arg.r < 0 THEN <<>> ELSE Arranged(m, [j \in 1..arg.r |-> s])
    [] OTHER -> s

(* After these answers it has heard enough.                                *)
Yes(answers) == {n \in DOMAIN answers : answers[n] # Nil}
No(answers) == DOMAIN answers \ Yes(answers)
Enough(m, answers) ==
  CASE m \in {"detect", "index", "any?", "none?", "rindex"} -> Yes(answers) # {}
    [] m \in {"all?", "take_while", "drop_while"} -> No(answers) # {}
    [] m = "one?" -> Cardinality(Yes(answers)) > 1
    [] OTHER -> FALSE

(* What it returns.                                                        *)
Groups(given, answers) ==
  LET firsts == {n \in DOMAIN answers : \A k \in 1..n - 1 : answers[k] # answers[n]}
      keys == At(answers, firsts)
  IN  [k \in DOMAIN keys |->
         [key |-> keys[k], of |-> At(given, {n \in DOMAIN answers : answers[n] = keys[k]})]]

(* The first of the items with the greatest, the least answer.             *)
Greatest(given, answers) ==
  IF answers = <<>> THEN Nil
  ELSE given[Min({n \in DOMAIN answers : \A k \in DOMAIN answers : answers[k] <= answers[n]})]
Least(given, answers) ==
  IF answers = <<>> THEN Nil
  ELSE given[Min({n \in DOMAIN answers : \A k \in DOMAIN answers : answers[k] >= answers[n]})]

Returns(m, s, given, answers) ==
  LET yes == Yes(answers)
      no == No(answers)
  IN  CASE m = "map" -> answers
        [] m \in {"select", "take_while"} -> At(given, yes)
        [] m = "reject" -> At(given, no)
        [] m = "partition" -> <<At(given, yes), At(given, no)>>
        [] m = "group_by" -> Groups(given, answers)
        [] m = "drop_while" -> IF no = {} THEN <<>> ELSE After(s, Len(answers) - 1)
        [] m = "detect" -> IF yes = {} THEN Nil ELSE given[Min(yes)]
        [] m = "index" -> IF yes = {} THEN Nil ELSE Min(yes) - 1
        [] m = "rindex" -> IF yes = {} THEN Nil ELSE Len(s) - Min(yes)
        [] m = "all?" -> no = {}
        [] m = "any?" -> yes # {}
        [] m = "none?" -> yes = {}
        [] m = "one?" -> Cardinality(yes) = 1
        [] m = "count" -> Cardinality(yes)
        [] m = "inject" -> IF answers # <<>> THEN Last(answers) ELSE IF s # <<>> THEN s[1] ELSE Nil
        [] m = "select!" -> IF no = {} THEN Nil ELSE Self
        [] m = "reject!" -> IF yes = {} THEN Nil ELSE Self
        [] m = "max_by" -> Greatest(given, answers)
        [] m = "min_by" -> Least(given, answers)
        [] m = "minmax_by" -> <<Least(given, answers), Greatest(given, answers)>>
        [] m \in {"each_slice", "each_cons", "downto", "step"} -> Nil
        [] m = "cycle" -> IF s = <<>> THEN Nil ELSE 1
        [] OTHER -> Self

(* What has become of the array s when the method is over.                 *)
Leaves(m, s, given, answers, arg) ==
  CASE m \in {"delete_if", "reject!"} -> At(s, No(answers))
    [] m \in {"select!", "keep_if"} -> At(s, Yes(answers))
    [] m = "map!" -> answers
    [] m = "fill" -> IF arg.length = 0 THEN s
                     ELSE LET left == HandsOut(m, s, arg)[1]
                          IN  With(s, [kind |-> "count", start |-> left, end |-> arg.length], answers)
    [] OTHER -> s

(* What the array may look like while the method is waiting for its block, *)
(* which may never come back: nothing kept or not yet judged is lost.      *)
Amid(m, s, now, given, answers) ==
  CASE m \in {"delete_if", "reject!"} ->
         /\ IsPrefix(At(s, No(answers)), now)
         /\ IsSuffix(After(s, Len(answers)), now)
    [] m = "map!" -> now = answers \o After(s, Len(answers))
    [] m = "fill" -> IsPrefix(Before(s, Min({Len(s), IF given = <<>> THEN 0 ELSE given[1]})), now)
    [] OTHER -> now = s
=============================================================================
