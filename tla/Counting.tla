------------------------------- MODULE Counting -------------------------------
(* The methods of Integer, Fixnum and Range that count: they call their    *)
(* block with one integer after the other.  arg holds where they start,    *)
(* the last, the step r, and whether a range leaves out its end.           *)
EXTENDS Integers, Sequences

Counters == {"upto", "downto", "times", "step", "Range#each", "Range#step"}

upto(i, n) == i <= n
downto(current, limit) == current >= limit
integer_times(i, n) == i < n
step(idx, limit) == idx <= limit
range_each(i, arg) == IF arg.excl THEN i < arg.last ELSE i <= arg.last
range_step(d, arg) == IF arg.excl THEN d < arg.last ELSE d <= arg.last

CountsFrom(m, arg) == IF m = "times" THEN 0 ELSE arg.start

CountsOn(m, i, arg) ==
  CASE m = "upto" -> upto(i, arg.last)
    [] m = "downto" -> downto(i, arg.last)
    [] m = "times" -> integer_times(i, arg.start)
    [] m = "step" -> step(i, arg.last)
    [] m = "Range#each" -> range_each(i, arg)
    [] m = "Range#step" -> range_step(i, arg)

Successor(m, i, arg) ==
  CASE m = "downto" -> i - 1
    [] m \in {"step", "Range#step"} -> i + arg.r
    [] OTHER -> i + 1

-----------------------------------------------------------------------------
(* What a range of integers says of its members without counting them.     *)
include(beg, end, excl, value) == beg <= value /\ IF excl THEN value < end ELSE value <= end
IsEmptyRange(beg, end, excl) == end < beg \/ (excl /\ end = beg)
min_of(beg, end, excl, nil) == IF IsEmptyRange(beg, end, excl) THEN nil ELSE beg
max_of(beg, end, excl, nil) ==
  IF IsEmptyRange(beg, end, excl) THEN nil ELSE IF excl THEN end - 1 ELSE end
=============================================================================
