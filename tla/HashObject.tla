------------------------------ MODULE HashObject ------------------------------
(* A Hash object and one iteration over it.  The program may do anything   *)
(* between two steps of the iteration: the blocks of each, select!,        *)
(* reject!, delete_if and keep_if run there, and so do their deletions.    *)
(* And eql? may change the hash while the key to store or delete is        *)
(* searched.                                                               *)
EXTENDS OrderedDict

CONSTANTS
  Values,
  Mutable,   \* the keys whose content the program changes
  CopyOf,    \* CopyOf[k]: the frozen copy of the string k that is stored for it
  FirstContent, \* FirstContent[k]: the content of k at first
  EqlMay,    \* what eql? may do to the hash: "delete", "clear", "store"
  EqlSteps   \* how often it does so during one operation

VARIABLES
  dict,  \* the storage of the hash
  it     \* the iterator: a storage of its own once the hash has another one

(* Every object has a content that has a hash, and a copy is an object.    *)
ASSUME HashAssumption == /\ FirstContent \in [Keys -> DOMAIN HashOf]
                         /\ CopyOf \in [DOMAIN CopyOf -> Keys]
                         /\ EqlMay \subseteq {"delete", "clear", "store"}
                         /\ EqlSteps \in Nat

vars == <<dict, it, content>>

NoIterator == [on |-> FALSE, detached |-> FALSE, own |-> Null, index |-> -1, disturbed |-> FALSE]

Init == /\ dict = newdict(Eql, INIT_SIZE)
        /\ it = NoIterator
        /\ content = FirstContent

(* The storage the iterator walks, and the slots it has not reached yet.   *)
Walked == IF it.detached THEN it.own ELSE dict
Unreached == IF it.on /\ ~it.detached /\ ~it.disturbed THEN ToSet(From(dict, it.index)) ELSE {}

(* An iteration is disturbed by a key that is added and by an item deleted *)
(* before it is reached: from then on its index may lead anywhere.         *)
Disturb(added, slots) ==
  it' = IF it.on /\ ~it.detached /\ (added \/ slots \cap Unreached # {})
        THEN [it EXCEPT !.disturbed = TRUE]
        ELSE it

(* A detached iterator and the hash have nothing in common any more: the   *)
(* hash is left alone until the iteration is over.                         *)
Quiet == ~it.detached

(* What the eql? of a key may do to the hash at a time: the dictionary     *)
(* after it, whether its entries are in another array, the slots emptied   *)
(* and whether a key is added.  A resize raises the counter; a store that  *)
(* needs none leaves it or lowers it.  A rehash or replace in eql? leaves  *)
(* the search in the old storage, and is that rehash or replace.           *)
Used(d) == {i \in DOMAIN d.entries : d.entries[i].valid}
Did(d) ==
  LET deletes == IF "delete" \in EqlMay THEN Used(d) ELSE {}
      clears == EqlMay \cap {"clear"}
      stores == IF "store" \in EqlMay THEN Keys \X Values ELSE {}
      stored(kv) == setitem(d, kv[1], kv[2], <<>>)
  IN  {[dict |-> d, moved |-> FALSE, gone |-> {}, added |-> FALSE]}
      \cup {[dict |-> Del(d, i), moved |-> FALSE, gone |-> {i}, added |-> FALSE] : i \in deletes}
      \cup {[dict |-> clear(d), moved |-> d.num_items > 0, gone |-> Used(d), added |-> FALSE] :
              op \in clears}
      \cup {[dict |-> stored(kv), moved |-> stored(kv).resize_counter > d.resize_counter,
              gone |-> {}, added |-> ~contains(d, kv[1])] : kv \in stores}

(* It does so in a call of its own, or the last call does this as well.    *)
Prolonged(calls) ==
  LET last == Len(calls)
      dids == Did(Seen(dict, calls, last))
  IN  {Append(calls, c) : c \in dids}
      \cup {[calls EXCEPT ![n] = [dict |-> c.dict, moved |-> @.moved \/ c.moved,
                                  gone |-> @.gone \cup c.gone, added |-> @.added \/ c.added]] :
              n \in DOMAIN calls \cap {last}, c \in dids}
Callbacks ==
  FoldLeft(LAMBDA acc, n : acc \cup UNION {Prolonged(calls) : calls \in acc},
           {<<>>}, [n \in 1 .. EqlSteps |-> n])

Gone(calls) == UNION {calls[n].gone : n \in DOMAIN calls}
Added(calls) == \E n \in DOMAIN calls : calls[n].added

-----------------------------------------------------------------------------
(* hash[key] = value: a string that is not frozen is copied.  There is one *)
(* copy of each string in the model: a hash that compares by identity gets *)
(* it only once (OneCopy).                                                 *)
Stored(k) == IF k \in DOMAIN CopyOf THEN CopyOf[k] ELSE k

Assign(k, v, calls) ==
  LET key == Stored(k)
      r == At(dict, key, calls)
      OneCopy == dict.kind = Identity /\ key # k => ~contains(dict, key)
  IN  /\ Quiet /\ OneCopy
      /\ r.called = Len(calls)
      /\ dict' = setitem(dict, key, v, calls)
      /\ Disturb(~r.found \/ Added(calls), Gone(calls))
      /\ UNCHANGED content

Store == \E calls \in Callbacks, k \in Keys, v \in Values : Assign(k, v, calls)

Delete ==
  \E calls \in Callbacks, k \in Keys :
    LET r == At(dict, k, calls)
    IN  /\ Quiet
        /\ r.called = Len(calls)
        /\ dict' = pop(dict, k, calls)
        /\ Disturb(Added(calls), Gone(calls) \cup (IF r.found THEN {r.slot} ELSE {}))
        /\ UNCHANGED content

Clear ==
  /\ Quiet
  /\ dict' = clear(dict)
  /\ Disturb(FALSE, Used(dict))
  /\ UNCHANGED content

(* shift of an empty hash asks for the default of nil.                     *)
Shift ==
  /\ Quiet
  /\ dict.num_items > 0
  /\ dict' = popitem(dict)
  /\ Disturb(FALSE, {dict.first_entry})
  /\ UNCHANGED content

-----------------------------------------------------------------------------
(* The hash gets another storage; an iterator goes on over the old one.    *)
Detach == it' = IF it.on /\ ~it.detached THEN [it EXCEPT !.detached = TRUE, !.own = dict] ELSE it

(* The items of some slots stored in turn, as rehash does: eql? leaves the *)
(* hash alone meanwhile.  The keys of merge! are stored by Store.          *)
Merge(d, slots) ==
  FoldLeft(LAMBDA acc, i : setitem(acc, dict.entries[i].key, dict.entries[i].value, <<>>),
           d, slots)
Slots == From(dict, dict.first_entry)
Refilled(kind) == Merge(newdict(kind, INIT_SIZE), Slots)

rehash == /\ Quiet
          /\ dict' = Refilled(dict.kind)
          /\ Detach /\ UNCHANGED content

compare_by_identity == /\ Quiet
                       /\ dict' = Refilled(Identity)
                       /\ Detach /\ UNCHANGED content

(* The hash goes on as its dup, as merge, select and reject do, or takes   *)
(* the storage of one with replace.                                        *)
replace == /\ Quiet
           /\ dict' = copy(dict)
           /\ Detach /\ UNCHANGED content

Mutate == /\ \E k \in Mutable, c \in DOMAIN HashOf : content' = [content EXCEPT ![k] = c]
          /\ UNCHANGED <<dict, it>>

-----------------------------------------------------------------------------
(* each: an iterator for the storage the hash has now.                     *)
Each == /\ ~it.on
        /\ it' = [NoIterator EXCEPT !.on = TRUE, !.index = newdictiter(dict)]
        /\ UNCHANGED <<dict, content>>

(* One item handed out.  The null key of a slot that holds no item ends    *)
(* the program, and so may an index outside the entries.                   *)
HandOut == /\ it.on
           /\ ~AtEnd(it.index)
           /\ it' = IF InRange(Walked, it.index) /\ Walked.entries[it.index].valid
                    THEN [it EXCEPT !.index = iternext(Walked, @).index]
                    ELSE NoIterator
           /\ UNCHANGED <<dict, content>>

(* The end of the iteration, or a break out of it.                         *)
Leave == it.on /\ it' = NoIterator /\ UNCHANGED <<dict, content>>

Next == \/ Store \/ Delete \/ Clear \/ Shift
        \/ rehash \/ compare_by_identity \/ replace
        \/ Mutate \/ Each \/ HandOut \/ Leave

Spec == Init /\ [][Next]_vars
-----------------------------------------------------------------------------
(* The hash as the program sees it: the entries in the order of the links. *)
Item(i) == [key |-> dict.entries[i].key, value |-> dict.entries[i].value,
            hash |-> dict.entries[i].hash]
Items == [n \in DOMAIN Slots |-> Item(Slots[n])]

Iteration ==
  LET left == From(Walked, it.index)
  IN  [on |-> it.on, disturbed |-> it.disturbed, detached |-> it.detached /\ ~it.disturbed,
       left |-> IF it.disturbed THEN <<>>
                ELSE [n \in DOMAIN left |-> Walked.entries[left[n]].key]]

Map == INSTANCE OrderedMap WITH kind <- dict.kind, items <- Items, iter <- Iteration

(* The hash is an ordered map, whatever the program does between two steps *)
(* of an iteration and to its keys, and however often eql? deletes from it *)
(* or clears it while the key to store or delete is searched: a stored key *)
(* goes last or keeps its place, rehash and compare_by_identity leave one  *)
(* item for keys that are the same, and an iteration that is not disturbed *)
(* hands out what is left in order (ordereddict.py, Hash#each).            *)
ImplementsOrderedMap == Map!Spec

(* The links go through the valid entries and no other, in both            *)
(* directions; num_items counts them; and resize_counter counts the slots  *)
(* ever used, so that one never used is left and every search ends: also   *)
(* after deletions by eql? while a key was searched (ordereddict.py).      *)
WellFormed ==
  LET d == dict
      slots == Slots
      used == Used(d)
  IN  /\ ToSet(slots) = used /\ Len(slots) = Cardinality(used) /\ d.num_items = Len(slots)
      /\ d.last_entry = IF slots = <<>> THEN -1 ELSE Last(slots)
      /\ \A n \in DOMAIN slots :
           d.entries[slots[n]].prev = IF n = 1 THEN -1 ELSE slots[n - 1]
      /\ d.resize_counter > 0
      /\ d.resize_counter = 2 * Size(d) - 3 * Cardinality({i \in DOMAIN d.entries :
                                                             d.entries[i].everused})

(* test_len of tests/utils/test_ordereddict.py counts what was stored: len *)
(* is the number of items.  A search keeps the free slot it has seen, and  *)
(* ll_setitem_lookup_done uses it although eql? has stored there.          *)
LenCountsItems == dict.num_items = Cardinality(Used(dict))

(* == of two hashes: as many items, and each of the one found in the other.*)
Equal(d1, d2) ==
  /\ d1.num_items = d2.num_items
  /\ \A n \in DOMAIN keys(d1) :
       contains(d2, keys(d1)[n]) /\ get(d2, keys(d1)[n], Null) = values(d1)[n]

(* A search and the links agree: key?, fetch and [] find a key exactly     *)
(* when an item has it, and find the value of that item, unless the        *)
(* program has changed the key since; and unless there is something to     *)
(* rehash, the hash is == one with its items merged in the opposite order. *)
SearchesAgree ==
  /\ \A k \in Keys :
       LET found == Map!Exact(dict.kind, Items, k)
           stale == Map!Stale(dict.kind, Items, k)
       IN  /\ found # {} => contains(dict, k)
           /\ contains(dict, k) =>
                \E i \in found \cup stale : get(dict, k, Null) = Items[i].value
  /\ Map!Restored(dict.kind, Items) = Items =>
       Equal(dict, Merge(newdict(dict.kind, INIT_SIZE), Reverse(Slots)))
=============================================================================
