-------------------------------- MODULE Arrays --------------------------------
(* An array and a method that is going over it.  The block of the method   *)
(* is the program: it may change the array, answer, or never come back     *)
(* (break, raise).  Or the method runs in the fiber of an enumerator, and  *)
(* its block hands over to the program, which may change the array before  *)
(* it asks for the next item.                                              *)
EXTENDS ArrayMethods, Enumerator

CONSTANTS
  Values,    \* the items of an array, with nil
  MaxLen,    \* bound: the program makes no array longer than this
  Methods,   \* the methods the program calls
  ArgsOf(_),  \* what it may pass them: start and length, a size r, other arrays
  AnswersOf(_),  \* what their blocks may answer
  MaxNudges, \* bound: changes a block makes to the array while a method goes over it
  MaxGiven   \* bound: the arrangements a block is given; no call has so many

Items == Values \cup {Nil}

VARIABLES
  items,  \* the items of the array
  call,   \* the method that goes over it: its locals l, and its history
  enum    \* an enumerator for such a method, and what it has given out

vars == <<items, call, enum>>

NoArg == [start |-> 0, length |-> 0, r |-> 0, others |-> <<>>, last |-> 0, excl |-> FALSE]
Idle == [m |-> "none", by |-> "block", arg |-> NoArg, phase |-> "idle", l |-> <<>>, item |-> Nil, value |-> Nil,
         given |-> <<>>, answers |-> <<>>, before |-> <<>>, nudges |-> 0, disturbed |-> FALSE]

Init == items = <<>> /\ call = Idle /\ enum = NoEnumerator

-----------------------------------------------------------------------------
(* The methods that go forward over the array as it is now, and those that *)
(* go over a copy.                                                         *)
Forward == (Walks \ {"select!", "keep_if"})
Copying == (Generators \ {"product"}) \cup Counters

(* What the block has been handed is a prefix of a longer array too: only  *)
(* a change to that prefix disturbs a method that goes forward.            *)
Disturbs(new) ==
  /\ call.m \notin Copying
  /\ call.m \in Forward => Slice(new, 0, call.l.i + 1) # Slice(items, 0, call.l.i + 1)

Noticed(new) ==
  CASE call.phase # "block" -> call
    [] Disturbs(new) -> [call EXCEPT !.disturbed = TRUE, !.nudges = MaxNudges,
                                     !.given = <<>>, !.answers = <<>>, !.before = <<>>]
    [] OTHER -> [call EXCEPT !.nudges = @ + 1]

(* The program changes the array, also from within a block; there it does  *)
(* so in the small steps of Nudge, of which the other operations are made, *)
(* and no more of them than MaxNudges in one call; for a method that works *)
(* on a copy, with its first arrangement.                                  *)
Change(did) ==
  /\ did.items # items /\ Len(did.items) <= MaxLen
  /\ items' = did.items
  /\ call' = Noticed(did.items)
  /\ UNCHANGED enum

Act(did) == call.phase = "idle" /\ Change(did)
Nudge(did) == /\ call.phase \in {"idle", "block"}
              /\ call.nudges < MaxNudges
              /\ call.m \in Copying => Len(call.given) = 1
              /\ Change(did)

Indices == -MaxLen - 1..MaxLen
Operands == UNION {[1..n -> Values] : n \in 0..2}
Nth(i) == [kind |-> "index", start |-> i, end |-> 0]
Spans == [kind : {"count"}, start : Indices, end : -1..2]
           \cup [kind : {"..", "..."}, start : Indices, end : -2..2]
Subscripts == Spans \cup {Nth(i) : i \in Indices}

(* A span that begins behind the end leaves places without an object, or   *)
(* is refused.                                                             *)
PastEnd(s, w) == w.kind # "index" /\ w.start > Len(s)

SubscriptAssign == \E i \in Indices, v \in Values : Nudge(subscript_assign(items, Nth(i), v, <<>>))
RangeAssign == \E w \in Spans, v \in Values, rep \in Operands :
                 ~PastEnd(items, w) /\ Act(subscript_assign(items, w, v, rep))
SliceI == \E w \in Subscripts : Act(slice_i(items, w))
Replace == \E other \in Operands : Act(replace(items, other))
Lshift == \E v \in Values : Nudge(lshift(items, v))
Concat == Act(concat(items, items))
Push == \E args \in Operands : Act(push(items, args))
Shift == Nudge(shift(items)) \/ \E n \in 0..MaxLen : Act(shift_n(items, n))
Unshift == \E args \in Operands : Act(unshift(items, args))
Pop == Nudge(pop(items)) \/ \E n \in 0..MaxLen : Act(pop_n(items, n))
DeleteAt == \E i \in Indices : Act(delete_at(items, i))
Clear == Nudge(clear(items))
ReverseI == Act(reverse_i(items))
RotateI == \E n \in Indices : Act(rotate_i(items, n))
UniqI == Act(uniq_i(items))
CompactI == Act(compact_i(items))
Delete == \E v \in Items : Act(delete(items, v))
Insert == \E i \in Indices, args \in Operands : Act(insert(items, i, args))

-----------------------------------------------------------------------------
(* The method goes on to where it calls its block, or returns.             *)
Proceed(c, at) ==
  LET item == Handed(c.m, at.l, at.s)
      did == Finished(c.m, at.l, at.s)
  IN  IF Calls(c.m, at.l, at.s)
      THEN /\ items' = at.s
           /\ call' = [c EXCEPT !.l = at.l, !.phase = "block", !.item = item,
                                !.given = IF c.disturbed THEN @ ELSE Append(@, item)]
      ELSE /\ items' = did.items
           /\ call' = [c EXCEPT !.l = at.l, !.phase = "done", !.item = Nil, !.value = did.value]

Begin(m, arg, by) ==
  Proceed([Idle EXCEPT !.m = m, !.arg = arg, !.by = by,
                       !.before = IF m \in Forward \cup Counters THEN <<>> ELSE items],
          Entered(m, items, arg))
GoOn(answer) ==
  Proceed(IF call.disturbed THEN call ELSE [call EXCEPT !.answers = Append(@, answer)],
          Answered(call.m, call.l, items, call.item, answer, call.arg))

(* What counts does so whatever the array is.                              *)
Call ==
  /\ call.phase = "idle" /\ enum = NoEnumerator
  /\ \E m \in {n \in Methods : n \in Counters => items = <<>>} :
       \E arg \in ArgsOf(m) : Begin(m, arg, "block")
  /\ UNCHANGED enum

(* The block has answered.                                                 *)
Resume ==
  /\ call.phase = "block" /\ call.by = "block"
  /\ Len(call.given) <= MaxGiven
  /\ \E answer \in AnswersOf(call.m) : GoOn(answer)
  /\ Len(items') <= MaxLen
  /\ UNCHANGED enum

(* The method has returned, or will not: break, throw or an error in the   *)
(* block.                                                                  *)
Return == call.phase = "done" /\ call.by = "block" /\ call' = Idle /\ UNCHANGED <<items, enum>>
Break == call.phase = "block" /\ call.by = "block" /\ call' = Idle /\ UNCHANGED <<items, enum>>

-----------------------------------------------------------------------------
(* The program has one enumerator at a time, for these methods.            *)
Enumerated == {"each", "select", "reverse_each", "each_slice", "detect", "delete_if"}

Enumerate ==
  /\ call.phase = "idle" /\ enum = NoEnumerator
  /\ \E m \in Enumerated : enum' = initialize(m)
  /\ UNCHANGED <<items, call>>

(* The fiber runs up to where its block yields, or to its end.             *)
FiberResume ==
  IF enum.fiber THEN GoOn(Resumption) ELSE Begin(enum.method, NoArg, "fiber")

Peek == /\ Waits(enum)
        /\ FiberResume
        /\ enum' = peeked(enum, call')
NextItem == /\ enum # NoEnumerator /\ ~enum.finished
            /\ IF Waits(enum)
               THEN FiberResume /\ enum' = next(peeked(enum, call'))
               ELSE enum' = next(enum) /\ UNCHANGED <<items, call>>
Rewind == /\ enum # NoEnumerator
          /\ enum' = rewind(enum) /\ call' = Idle /\ UNCHANGED items
Forget == /\ enum # NoEnumerator
          /\ enum' = NoEnumerator /\ call' = Idle /\ UNCHANGED items

Next == \/ SubscriptAssign \/ RangeAssign \/ SliceI \/ Replace \/ Lshift \/ Concat \/ Push \/ Shift \/ Unshift
        \/ Pop \/ DeleteAt \/ Clear \/ ReverseI \/ RotateI \/ Insert
        \/ UniqI \/ CompactI \/ Delete
        \/ Call \/ Resume \/ Break \/ Return
        \/ Enumerate \/ Peek \/ NextItem \/ Rewind \/ Forget

Spec == Init /\ [][Next]_vars /\ WF_vars(Resume)
-----------------------------------------------------------------------------
Ruby == INSTANCE RubyArrays

Heaps == [1..3 -> UNION {[1..n -> (1..3) \cup {Nil}] : n \in 0..2}]
FlattensAsPromised(heap, level) ==
  LET did == flatten_i(heap, 1, level)
      flat == Ruby!Flattened(heap, 1, level)
  IN  /\ did.error <=> Ruby!ComesBack(heap, 1, level)
      /\ ~did.error => /\ did.items = flat
                       /\ did.value = Nil <=> (flat = heap[1] /\ (level = 0 \/ 1..3 \cap Range(flat) = {}))

RangeAsPromised(beg, end, excl, v) ==
  LET members == Ruby!Interval("Range#each", [start |-> beg, last |-> end, excl |-> excl])
  IN  /\ include(beg, end, excl, v) <=> v \in members
      /\ min_of(beg, end, excl, Nil) = IF members = {} THEN Nil ELSE Min(members)
      /\ max_of(beg, end, excl, Nil) = IF members = {} THEN Nil ELSE Max(members)

(* Every operation leaves the sequence it promises, whatever the sign and  *)
(* size of its positions: negative ones count from the end, what lies      *)
(* beyond it is cut off or filled with nil, and what is refused changes    *)
(* nothing (arrayobject.py, ObjectSpace.subscript_access).                 *)
OperationsAsPromised ==
  LET s == items
  IN  call.phase = "idle" =>
        /\ \A w \in Subscripts :
             /\ subscript(s, w) = Ruby!Fetched(s, w)
             /\ slice_i(s, w) = [items |-> IF Ruby!Within(s, w) THEN Ruby!Without(s, w) ELSE s,
                                 value |-> Ruby!Fetched(s, w), error |-> FALSE]
             /\ ~PastEnd(s, w) =>
                  \A rep \in Operands, v \in Values :
                    LET did == subscript_assign(s, w, v, rep)
                    IN  /\ did.error <=> ~Ruby!Names(s, w)
                        /\ did.items = IF did.error THEN s
                                       ELSE Ruby!With(s, w, IF w.kind = "index" THEN <<v>> ELSE rep)
        /\ \A i \in Indices :
             /\ rotate_i(s, i).items = Ruby!Rotated(s, i)
             /\ delete_at(s, i) = slice_i(s, Nth(i))
             /\ \A args \in Operands :
                  LET did == insert(s, i, args)
                  IN  did.items = IF did.error \/ args = <<>> THEN s ELSE Ruby!Inserted(s, i, args)
             /\ i >= 0 => /\ pop_n(s, i).items = Ruby!TakenOff(s, i)
                          /\ pop_n(s, i).items \o last_n(s, i).value = s
                          /\ pop_n(s, i).items \o pop_n(s, i).value = s
                          /\ shift_n(s, i).value \o shift_n(s, i).items = s
                          /\ Len(shift_n(s, i).value) = Len(pop_n(s, i).value)
                          /\ Len(times(s, i).value) = i * Len(s)
        /\ \A args \in Operands :
             /\ unshift(s, args).items = args \o s
             /\ intersection(s, args) = Ruby!Only(Ruby!Unique(s), Range(args))
             /\ union(s, args) = Ruby!Unique(s \o args)
             /\ difference(s, args) = Ruby!Only(s, Items \ Range(args))
        /\ uniq_i(s) = Did(Ruby!Unique(s), IF Ruby!Unique(s) = s THEN Nil ELSE Self)
        /\ compact_i(s).items = Ruby!Only(s, Values)
        /\ \A v \in Items : delete(s, v) = Did(Ruby!Only(s, Items \ {v}), IF v \in Range(s) THEN v ELSE Nil)
        /\ s = <<>> => /\ \A heap \in Heaps : \A level \in -1..2 : FlattensAsPromised(heap, level)
                       /\ \A beg, end, v \in -2..2 : \A excl \in BOOLEAN : RangeAsPromised(beg, end, excl, v)
        /\ \A w \in {v \in Subscripts : v.kind # "count"} :
             values_at(s, <<w, Nth(0)>>) = Ruby!AllAt(s, w) \o Ruby!AllAt(s, Nth(0))

(* A method hands its block what it promises, in that order, and nothing   *)
(* more once it has heard enough; then it returns and leaves behind what   *)
(* it promises.  If the block does not come back nothing is lost that was  *)
(* to be kept or had still to be judged.  A method that goes forward takes *)
(* what the block adds or changes ahead of it into account; arrangements   *)
(* do not depend on what the block does to the array.                      *)
CallsAsPromised ==
  LET c == call
      s == IF c.m \in Forward THEN items ELSE c.before
      promised == Ruby!HandsOut(c.m, s, c.arg)
  IN  c.phase # "idle" /\ ~c.disturbed =>
        /\ IsPrefix(c.given, promised)
        /\ \A n \in 0..Len(c.given) - 1 : ~Ruby!Enough(c.m, SubSeq(c.answers, 1, n))
        /\ c.phase = "block" /\ c.m \notin Copying =>
             Ruby!Amid(c.m, s, items, c.given, c.answers)
        /\ c.phase = "done" =>
             /\ c.given = promised \/ Ruby!Enough(c.m, c.answers)
             /\ c.value = Ruby!Returns(c.m, s, c.given, c.answers)
             /\ c.m \notin Copying => items = Ruby!Leaves(c.m, s, c.given, c.answers, c.arg)

(* An enumerator gives out what its method hands over in the fiber: each   *)
(* item once and in order, whether or not it was looked at before, also    *)
(* when the array changes in between, and from the beginning after a       *)
(* rewind; it is finished when its method has returned.                    *)
NextsAsPromised ==
  enum # NoEnumerator /\ ~call.disturbed =>
    /\ enum.got \o Looked(enum) = call.given
    /\ enum.finished <=> call.phase = "done"

(* A method whose block always answers and leaves the array alone returns. *)
CallsEnd == (call.phase = "block" /\ call.by = "block" /\ call.nudges = 0)
              ~> (call.phase \in {"idle", "done"} \/ call.nudges > 0)
=============================================================================
