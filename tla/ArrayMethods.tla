----------------------------- MODULE ArrayMethods -----------------------------
(* The methods of lib-topaz/array.rb and enumerable.rb that call a block   *)
(* while they go over an array.  Between two calls of its block a method   *)
(* keeps local variables l and what it last handed to the block, item;     *)
(* everything else it reads from the array as it is then, s.               *)
EXTENDS ArrayObject, Arrangements, Counting, Flattening

Truthy(v) == v # Nil

(* Methods built on each: they hand out the item at i, for i from 0 on.    *)
Walks == {"each", "map", "inject", "select", "reject", "partition", "group_by", "detect", "index",
          "take_while", "drop_while", "all?", "any?", "none?", "one?", "count",
          "max_by", "min_by", "minmax_by", "select!", "keep_if"}
Deleting == {"delete_if", "reject!"}
Backwards == {"reverse_each", "rindex"}

(* A step of a method: its locals after it, and the array then.            *)
At(l, s) == [l |-> l, s |-> s]

-----------------------------------------------------------------------------
(* What such a method makes of the answer to an item; acc is what it has   *)
(* gathered, and yes that the answer is neither nil nor false.             *)
map(acc, answer) == Append(acc, answer)
inject(acc, answer) == answer
select(acc, item, yes) == IF yes THEN Append(acc, item) ELSE acc
reject(acc, item, yes) == IF yes THEN acc ELSE Append(acc, item)
drop_while(acc, item, yes) == IF yes THEN acc ELSE <<item>>
partition(acc, item, yes) == [acc EXCEPT ![IF yes THEN 1 ELSE 2] = Append(@, item)]
detect(acc, item, yes) == IF yes THEN item ELSE acc
count(acc, yes) == IF yes THEN acc + 1 ELSE acc
group_by(acc, item, answer) ==
  IF \E n \in DOMAIN acc : acc[n].key = answer
  THEN [n \in DOMAIN acc |->
          IF acc[n].key = answer THEN [acc[n] EXCEPT !.of = Append(@, item)] ELSE acc[n]]
  ELSE Append(acc, [key |-> answer, of |-> <<item>>])

(* The greatest and the least answer so far, and whose they are; i is the  *)
(* place of the item.                                                      *)
max_by(acc, item, answer, i) ==
  IF i = 0 \/ answer > acc.maxv THEN [acc EXCEPT !.max = item, !.maxv = answer] ELSE acc
min_by(acc, item, answer, i) ==
  IF i = 0 \/ answer < acc.minv THEN [acc EXCEPT !.min = item, !.minv = answer] ELSE acc
minmax_by(acc, item, answer, i) == min_by(max_by(acc, item, answer, i), item, answer, i)

Gathered(m, l, item, answer) ==
  CASE m = "map" -> map(l.acc, answer)
    [] m = "inject" -> inject(l.acc, answer)
    [] m \in {"select", "take_while", "select!", "keep_if"} -> select(l.acc, item, Truthy(answer))
    [] m = "reject" -> reject(l.acc, item, Truthy(answer))
    [] m = "drop_while" -> drop_while(l.acc, item, Truthy(answer))
    [] m = "partition" -> partition(l.acc, item, Truthy(answer))
    [] m = "group_by" -> group_by(l.acc, item, answer)
    [] m = "detect" -> detect(l.acc, item, Truthy(answer))
    [] m \in {"one?", "count"} -> count(l.acc, Truthy(answer))
    [] m = "max_by" -> max_by(l.acc, item, answer, l.i)
    [] m = "min_by" -> min_by(l.acc, item, answer, l.i)
    [] m = "minmax_by" -> minmax_by(l.acc, item, answer, l.i)
    [] OTHER -> l.acc

Nothing(m) == CASE m = "partition" -> <<<<>>, <<>>>>
                [] m \in {"one?", "count"} -> 0
                [] m \in {"inject", "detect"} -> Nil
                [] m \in {"max_by", "min_by", "minmax_by"} -> [max |-> Nil, maxv |-> Nil, min |-> Nil, minv |-> Nil]
                [] OTHER -> <<>>

(* The answers that make a method return before the end of the array.      *)
any(answer) == Truthy(answer)
all(answer) == ~Truthy(answer)
one(acc) == acc > 1
Leaves(m, acc, answer) ==
  CASE m \in {"detect", "index", "rindex", "any?", "none?"} -> any(answer)
    [] m \in {"all?", "take_while", "drop_while"} -> all(answer)
    [] m = "one?" -> one(acc)
    [] OTHER -> FALSE

(* A drop_while takes the rest of the array without its block.             *)
each(m, l, s, item, answer) ==
  LET acc == Gathered(m, l, item, answer)
      over == Leaves(m, acc, answer)
  IN  At([i |-> IF over THEN l.i ELSE l.i + 1, over |-> over,
          acc |-> IF over /\ m = "drop_while" THEN acc \o Slice(s, l.i + 1, Len(s)) ELSE acc], s)

-----------------------------------------------------------------------------
(* The methods with a loop of their own: one round of it, with the answer  *)
(* of the block.                                                           *)
map_i(l, s, answer) == At([l EXCEPT !.i = @ + 1], Put(s, l.i, answer))

(* What is kept moves down over what was deleted, at once.                 *)
delete_if(l, s, item, answer) ==
  IF Truthy(answer) THEN At([l EXCEPT !.c = @ + 1], s)
  ELSE At([l EXCEPT !.i = @ + 1], Put(s, l.i, item))

reverse_each(l, s) == At([l EXCEPT !.i = @ - 1], s)
rindex(l, s, answer) ==
  IF Truthy(answer) THEN At([l EXCEPT !.over = TRUE], s)
  ELSE At([l EXCEPT !.i = Lesser(@, Len(s)) - 1], s)

(* Two at a time; the last may be alone.                                   *)
each_slice(l, s, item) == At([l EXCEPT !.i = @ + 2, !.over = Len(item) < 2], s)
each_cons(l, s, item) == At([l EXCEPT !.i = @ + 1, !.acc = <<item[2]>>], s)

(* The items are gathered as they are handed out; the second round goes    *)
(* over those.                                                             *)
cycle(l, s, item) ==
  IF l.again THEN At([l EXCEPT !.i = @ + 1], s)
  ELSE LET again == l.i + 1 >= Len(s)
       IN  At([l EXCEPT !.acc = Append(@, item), !.again = again, !.i = IF again THEN 0 ELSE @ + 1], s)

(* fill(start, length): a start behind the end is reached with nil before  *)
(* the second loop appends.                                                *)
Filling(l, s) ==
  IF l.appends \/ l.i < l.bound THEN At(l, s)
  ELSE At([l EXCEPT !.appends = TRUE, !.i = IF l.left > Len(s) THEN l.left ELSE @],
          s \o Times(l.left - Len(s), Nil))
fill_start(s, arg) ==
  LET left == IF arg.start < 0 THEN Greater(arg.start + Len(s), 0) ELSE arg.start
      right == left + arg.length
      l == [left |-> left, i |-> left, right |-> right, bound |-> Lesser(right, Len(s)),
            appends |-> FALSE, over |-> arg.length = 0]
  IN  IF l.over THEN At(l, s) ELSE Filling(l, s)
fill(l, s, answer) ==
  Filling([l EXCEPT !.i = @ + 1], IF l.appends THEN Append(s, answer) ELSE Put(s, l.i, answer))

-----------------------------------------------------------------------------
(* The local variables of a method before the first call of its block, and *)
(* the array then.                                                         *)
Entered(m, s, arg) ==
  LET walk == [i |-> 0, acc |-> Nothing(m), over |-> FALSE]
  IN  CASE m = "inject" /\ s # <<>> -> At([walk EXCEPT !.i = 1, !.acc = s[1]], s)
        [] m \in {"map!", "each_slice"} \cup Walks -> At(walk, s)
        [] m = "each_cons" -> At([walk EXCEPT !.i = 1, !.acc = Slice(s, 0, 1)], s)
        [] m = "cycle" -> At([i |-> 0, acc |-> <<>>, again |-> FALSE, over |-> FALSE], s)
        [] m \in Deleting -> At([i |-> 0, c |-> 0, sz |-> Len(s), over |-> FALSE], s)
        [] m \in Backwards -> At([i |-> Len(s) - 1, over |-> FALSE], s)
        [] m = "fill" -> fill_start(s, arg)
        [] m \in Counters -> At([i |-> CountsFrom(m, arg), arg |-> arg, over |-> FALSE], s)
        [] OTHER -> At(Started(m, s, arg), s)

(* Whether the block is called once more, and with what.                   *)
Calls(m, l, s) ==
  /\ ~l.over
  /\ CASE m \in {"map!", "each_slice", "each_cons"} \cup Walks -> l.i < Len(s)
       [] m = "cycle" -> l.i < Len(IF l.again THEN l.acc ELSE s)
       [] m \in Deleting -> l.i < l.sz - l.c
       [] m \in Backwards -> l.i >= 0
       [] m = "fill" -> l.i < l.right
       [] m \in Counters -> CountsOn(m, l.i, l.arg)
       [] OTHER -> TRUE

Handed(m, l, s) ==
  CASE m \in Deleting -> Item(s, l.i + l.c)
    [] m = "each_slice" -> Slice(s, l.i, l.i + 2)
    [] m = "each_cons" -> Append(l.acc, Item(s, l.i))
    [] m = "cycle" -> Item(IF l.again THEN l.acc ELSE s, l.i)
    [] m \in {"fill"} \cup Counters -> l.i
    [] m \in Generators -> l.out
    [] OTHER -> Item(s, l.i)

(* What the method does with the answer, up to where it would call its     *)
(* block again.                                                            *)
Answered(m, l, s, item, answer, arg) ==
  CASE m \in Walks -> each(m, l, s, item, answer)
    [] m = "map!" -> map_i(l, s, answer)
    [] m \in Deleting -> delete_if(l, s, item, answer)
    [] m = "reverse_each" -> reverse_each(l, s)
    [] m = "rindex" -> rindex(l, s, answer)
    [] m = "each_slice" -> each_slice(l, s, item)
    [] m = "each_cons" -> each_cons(l, s, item)
    [] m = "cycle" -> cycle(l, s, item)
    [] m = "fill" -> fill(l, s, answer)
    [] m \in Counters -> At([l EXCEPT !.i = Successor(m, @, arg)], s)
    [] OTHER -> At(Advanced(m, l, s, arg), s)

(* What a method returns, and what it does to the array before that.       *)
select_i(s, acc, otherwise) == IF Len(acc) # Len(s) THEN replace(s, acc) ELSE Did(s, otherwise)
reject_i(l, s) ==
  LET deleted == pop_n(s, l.c).items
  IN  Did(deleted, IF Len(deleted) = l.sz THEN Nil ELSE Self)

Finished(m, l, s) ==
  CASE m \in {"map", "inject", "select", "reject", "partition", "group_by", "take_while", "drop_while",
              "detect", "count"} -> Did(s, l.acc)
    [] m = "max_by" -> Did(s, l.acc.max)
    [] m = "min_by" -> Did(s, l.acc.min)
    [] m = "minmax_by" -> Did(s, <<l.acc.min, l.acc.max>>)
    [] m \in {"index", "rindex"} -> Did(s, IF l.over THEN l.i ELSE Nil)
    [] m \in {"all?", "none?"} -> Did(s, ~l.over)
    [] m = "any?" -> Did(s, l.over)
    [] m = "one?" -> Did(s, l.acc = 1)
    [] m = "select!" -> select_i(s, l.acc, Nil)
    [] m = "keep_if" -> select_i(s, l.acc, Self)
    [] m = "delete_if" -> Did(pop_n(s, l.c).items, Self)
    [] m = "reject!" -> reject_i(l, s)
    [] m \in {"each_slice", "each_cons", "downto", "step"} -> Did(s, Nil)
    [] m = "cycle" -> Did(s, IF l.again THEN 1 ELSE Nil)
    [] OTHER -> Did(s, Self)
(* The array that flatten! puts in place of what it is called on.          *)
flatten_i(heap, array, level) ==
  LET did == flatten(heap, array, level, {})
  IN  IF did.error THEN Raised(heap[array])
      ELSE IF did.modified THEN replace(heap[array], did.out) ELSE Did(heap[array], Nil)

-----------------------------------------------------------------------------
(* The methods below go over the array with a block of the library, which  *)
(* always answers; hash keys tell whether an item was seen.                *)
deleted_if(s, gone) ==
  LET round(at, n) == LET item == Item(at.s, at.l.i + at.l.c)
                      IN  IF item \in gone THEN At([at.l EXCEPT !.c = @ + 1], at.s)
                          ELSE delete_if(at.l, at.s, item, Nil)
      end == FoldLeft(round, Entered("delete_if", s, <<>>), s)
  IN  reject_i(end.l, end.s)

delete(s, obj) ==
  LET did == deleted_if(s, {obj})
  IN  Did(did.items, IF Len(did.items) # Len(s) THEN obj ELSE Nil)
compact_i(s) == deleted_if(s, {Nil})

uniq_i(s) ==
  LET round(at, i) ==
        LET item == Item(at.s, i)
        IN  IF item \in at.seen THEN [at EXCEPT !.shifted = @ + 1]
            ELSE [at EXCEPT !.seen = @ \cup {item},
                            !.s = IF at.shifted > 0 THEN Put(@, i - at.shifted, item) ELSE @]
      end == FoldLeftDomain(LAMBDA at, n : round(at, n - 1), [s |-> s, seen |-> {}, shifted |-> 0], s)
      dupes == [kind |-> "count", start |-> -end.shifted, end |-> end.shifted]
  IN  IF end.shifted > 0 THEN Did(slice_i(end.s, dupes).items, Self) ELSE Did(s, Nil)

(* s & other, s | other and s - other.                                     *)
intersection(s, other) ==
  FoldLeft(LAMBDA at, e : IF e \in at.h THEN [h |-> at.h \ {e}, out |-> Append(at.out, e)] ELSE at,
           [h |-> ToSet(other), out |-> <<>>], s).out
union(s, other) ==
  FoldLeft(LAMBDA keys, e : IF Contains(keys, e) THEN keys ELSE Append(keys, e), <<>>, s \o other)
difference(s, other) == SelectSeq(s, LAMBDA e : e \notin ToSet(other))

(* A range beyond the array adds nothing, an index beyond it adds nil.     *)
values_at(s, args) ==
  FoldLeft(LAMBDA out, w : LET v == subscript(s, w)
                           IN  IF ~IsRange(w) THEN Append(out, v) ELSE IF v = Nil THEN out ELSE out \o v,
           <<>>, args)
=============================================================================
