----------------------------- MODULE ArrayObject -----------------------------
(* The operations of W_ArrayObject: what each makes of the items of an     *)
(* array, what it returns and whether it raises.  Positions are counted    *)
(* from 0, as in the code; an operand is another array than the receiver.  *)
EXTENDS Integers, Sequences, SequencesExt

CONSTANTS
  Nil,   \* nil
  Self,  \* an operation returns its receiver
  None   \* a place in the list that holds no object at all

Lesser(m, n) == IF m < n THEN m ELSE n
Greater(m, n) == IF m < n THEN n ELSE m

Did(s, v) == [items |-> s, value |-> v, error |-> FALSE]
Raised(s) == [items |-> s, value |-> Nil, error |-> TRUE]

Times(n, v) == [i \in 1..Greater(n, 0) |-> v]

(* s[from:to], del s[from:to] and s[from:to] = with of a Python list.      *)
Slice(s, from, to) == SubSeq(s, from + 1, Lesser(to, Len(s)))
Spliced(s, from, to, with) ==
  Slice(s, 0, from) \o with \o Slice(s, Greater(from, to), Len(s))
Cut(s, from, to) == Spliced(s, from, to, <<>>)

-----------------------------------------------------------------------------
(* A subscript is an index, an index with a count, or a range.             *)
IsRange(w) == w.kind \in {"..", "..."}

subscript_access(length, w) ==
  LET FromEnd(i) == IF i < 0 THEN i + length ELSE i
      start == FromEnd(w.start)
      last == FromEnd(IF w.kind = "count" THEN w.end + start ELSE w.end)
      past == IF w.kind = ".." THEN last + 1 ELSE last
      end == IF past < start THEN start ELSE Lesser(past, length)
  IN  CASE w.kind = "index" ->
             [start |-> start, end |-> 0, as_range |-> FALSE, nil |-> start \notin 0..length - 1]
        [] w.kind = "count" /\ w.end < 0 ->
             [start |-> start, end |-> w.end, as_range |-> FALSE, nil |-> TRUE]
        [] OTHER ->
             [start |-> start, end |-> end, as_range |-> TRUE,
              nil |-> start < 0 \/ end < 0 \/ start > length]

subscript(s, w) ==
  LET at == subscript_access(Len(s), w)
  IN  CASE at.nil -> Nil
        [] at.as_range -> Slice(s, at.start, at.end)
        [] OTHER -> s[at.start + 1]

(* Mutant: the rest is moved up the first item first.                      *)
assignRangeUpwards(s, start, end, rep) ==
  LET delta == (end - start) - Len(rep)
      lim == start + Len(rep)
      grown == s \o Times(-delta, None)
      moved == [i \in DOMAIN grown |->
                  IF i > lim THEN grown[lim + delta + 1 + ((i - lim - 1) % (-delta))] ELSE grown[i]]
  IN  Spliced(IF delta < 0 THEN moved ELSE Cut(s, start, start + delta), start, lim, rep)

(* With more items to put in than to take out, the list grows and the rest *)
(* moves up, the last item first; with fewer, the surplus is deleted.      *)
_subscript_assign_range(s, start, end, rep) ==
  LET delta == (end - start) - Len(rep)
      lim == start + Len(rep)
      grown == s \o Times(-delta, None)
      moved == [i \in DOMAIN grown |-> IF i > lim THEN grown[i + delta] ELSE grown[i]]
  IN  Spliced(IF delta < 0 THEN moved ELSE Cut(s, start, start + delta), start, lim, rep)

(* s[w] = v; the array that to_ary makes of v is rep, for a range.         *)
subscript_assign(s, w, v, rep) ==
  LET at == subscript_access(Len(s), w)
  IN  IF (w.kind = "count" /\ at.end < at.start) \/ at.start < 0 THEN Raised(s)
      ELSE IF at.as_range THEN Did(_subscript_assign_range(s, at.start, at.end, rep), v)
      ELSE Did([s \o Times(at.start - Len(s) + 1, Nil) EXCEPT ![at.start + 1] = v], v)

(* self[i] and self[i] = v inside the library, for an i that is not        *)
(* negative.                                                               *)
Item(s, i) == IF i < Len(s) THEN s[i + 1] ELSE Nil
Put(s, i, v) == subscript_assign(s, [kind |-> "index", start |-> i, end |-> 0], v, <<>>).items

slice_i(s, w) ==
  LET at == subscript_access(Len(s), w)
      start == Lesser(Greater(at.start, 0), Len(s))
      end == Lesser(Greater(at.end, 0), Len(s))
  IN  CASE at.nil -> Did(s, Nil)
        [] at.as_range -> Did(Cut(s, start, end), Slice(s, start, end))
        [] OTHER -> Did(Cut(s, at.start, at.start + 1), s[at.start + 1])

-----------------------------------------------------------------------------
replace(s, other) == Did(other, Self)
lshift(s, v) == Did(Append(s, v), Self)
concat(s, other) == Did(s \o other, Self)
push(s, args) == Did(s \o args, Self)
clear(s) == Did(<<>>, Self)
times(s, n) == IF n < 0 THEN Raised(s) ELSE Did(s, FlattenSeq(Times(n, s)))

shift(s) == IF s = <<>> THEN Did(s, Nil) ELSE Did(Tail(s), Head(s))
shift_n(s, n) == IF n < 0 THEN Raised(s) ELSE Did(Cut(s, 0, n), Slice(s, 0, n))
unshift(s, args) == Did(FoldRight(LAMBDA v, acc : InsertAt(acc, 1, v), args, s), Self)

pop(s) == IF s = <<>> THEN Did(s, Nil) ELSE Did(Front(s), s[Len(s)])
pop_n(s, n) ==
  LET pop_size == Greater(0, Len(s) - n)
  IN  IF n < 0 THEN Raised(s)
      ELSE Did(Cut(s, pop_size, Len(s)), Slice(s, pop_size, Len(s)))

delete_at(s, idx) ==
  LET i == IF idx < 0 THEN idx + Len(s) ELSE idx
  IN  IF i \notin 0..Len(s) - 1 THEN Did(s, Nil) ELSE Did(RemoveAt(s, i + 1), s[i + 1])

last_n(s, n) ==
  IF n < 0 THEN Raised(s) ELSE Did(s, Slice(s, Greater(Len(s) - n, 0), Len(s)))

reverse_i(s) == Did(Reverse(s), Self)

rotate_i(s, n) ==
  LET length == Len(s)
      turns == IF n >= length \/ -n >= length THEN n % length ELSE n
      by == IF turns < 0 THEN turns + length ELSE turns
  IN  IF length = 0 THEN Did(s, Self)
      ELSE Did(Cut(s \o Slice(s, 0, by), 0, by), Self)

(* The items are inserted one by one, each after the one before.           *)
insert(s, i, args) ==
  LET at == IF i < 0 THEN i + Len(s) + 1 ELSE i
  IN  CASE args = <<>> -> Did(s, Self)
        [] i > Len(s) -> Did(s \o Times(i - Len(s), Nil) \o args, Self)
        [] i < -Len(s) - 1 -> Raised(s)
        [] OTHER -> Did(FoldLeftDomain(LAMBDA acc, n : InsertAt(acc, at + n, args[n]), s, args), Self)
=============================================================================
