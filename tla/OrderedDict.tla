------------------------------ MODULE OrderedDict ------------------------------
(* The ordered dictionary under Hash, as it runs once translated: open     *)
(* addressing in an array of entries that are linked in the order they     *)
(* were added.  A dictionary is a record; each operator is one of its      *)
(* methods and returns the dictionary it leaves.                           *)
(*                                                                         *)
(* A key is an object.  Its hash and what it is eql? to depend on its      *)
(* content, which the program may change while the object is a key; an     *)
(* entry keeps the hash its key had when it was added.                     *)
EXTENDS Integers, Sequences, FiniteSets, SequencesExt

CONSTANTS
  Keys,      \* the objects used as keys
  HashOf,    \* HashOf[c]: the hash of an object of content c
  IdOf,      \* IdOf[k]: the hash of the identity of k
  Null,      \* the null pointer
  INIT_SIZE  \* the slots of a new dictionary: 8 in the program

VARIABLE content  \* content[k]: the content of k

(* Hashes are words, taken as unsigned; null is no key; sizes are powers of *)
(* two, since a hash is masked with the size less one.                     *)
PowerOfTwo(n) == n \in Nat \ {0} /\ \A k, m \in 1 .. n : n # k * (2 * m + 1)
ASSUME DictAssumption ==
  /\ HashOf \in [DOMAIN HashOf -> Nat] /\ IdOf \in [Keys -> Nat]
  /\ Null \notin Keys
  /\ PowerOfTwo(INIT_SIZE)

PERTURB_SHIFT == 32  \* 2 ^ 5: dividing by it shifts by five bits

(* The two kinds of dictionary: with eql? and hash, or without functions.  *)
Eql == "eql"
Identity == "identity"
hashkey(kind, k) == IF kind = Identity THEN IdOf[k] ELSE HashOf[content[k]]
keyeq(k1, k2) == content[k1] = content[k2]

-----------------------------------------------------------------------------
Zeroed == [key |-> Null, value |-> Null, next |-> 0, prev |-> 0,
           everused |-> FALSE, valid |-> FALSE, hash |-> 0]

(* Mutant: a deleted slot is as one never used.                            *)
DeletedUnused == Zeroed

(* A deleted entry: key and value are null.  Its links and its hash stay   *)
(* in memory, but whoever reads them has read the null key as well.        *)
Deleted == [Zeroed EXCEPT !.everused = TRUE]

newdict(kind, size) ==
  [kind |-> kind, entries |-> [i \in 0 .. size - 1 |-> Zeroed], num_items |-> 0,
   first_entry |-> -1, last_entry |-> -1, resize_counter |-> 2 * size]

Size(d) == Cardinality(DOMAIN d.entries)

(* The slots of the entries from slot i on, as the links have them.        *)
Walks(d) == [at : DOMAIN d.entries \cup {-1}, seen : Seq(DOMAIN d.entries)]
From(d, i) ==
  LET walk[w \in Walks(d)] ==
        IF w.at = -1 \/ Len(w.seen) > Size(d) THEN w.seen
        ELSE walk[[at |-> d.entries[w.at].next, seen |-> Append(w.seen, w.at)]]
  IN  walk[[at |-> i, seen |-> <<>>]]

(* The slot tried after slot i.                                            *)
Probe(i, perturb, size) == (5 * i + perturb + 1) % size
Shifted(perturb) == perturb \div PERTURB_SHIFT

clear(d) == IF d.num_items = 0 THEN d ELSE newdict(d.kind, INIT_SIZE)

-----------------------------------------------------------------------------
(* Mutant: the last deleted entry stays last.                              *)
DelLast(d, i) ==
  LET e == d.entries[i]
  IN  [d EXCEPT !.entries[i] = Deleted, !.num_items = @ - 1,
                !.first_entry = IF e.prev = -1 THEN e.next ELSE @]

(* Unlinks slot i and marks it deleted.                                    *)
Del(d, i) ==
  LET e == d.entries[i]
      skipped == [j \in DOMAIN d.entries |->
                    CASE j = i -> Deleted
                      [] j = e.prev /\ j # i -> [d.entries[j] EXCEPT !.next = e.next]
                      [] j = e.next /\ j # i -> [d.entries[j] EXCEPT !.prev = e.prev]
                      [] OTHER -> d.entries[j]]
  IN  [d EXCEPT !.entries = skipped,
                !.num_items = @ - 1,
                !.first_entry = IF e.prev = -1 THEN e.next ELSE @,
                !.last_entry = IF e.next = -1 THEN e.prev ELSE @]

(* What eql? does to the dictionary while it is searched: the n-th call of *)
(* a search leaves the dictionary calls[n].dict, with its entries in       *)
(* another array if calls[n].moved; the calls after the last of them leave *)
(* it alone.                                                               *)
Seen(given, calls, n) == IF n = 0 THEN given ELSE calls[n].dict

(* What a search gives: the dictionary as eql? leaves it, the slot of the  *)
(* key or the one to put it in, whether the key was found, and how many of *)
(* the calls were made.                                                    *)
Found(d, i, n) == [dict |-> d, slot |-> i, found |-> TRUE, called |-> n]
Free(d, i, n) == [dict |-> d, slot |-> i, found |-> FALSE, called |-> n]

Begin(n, hash, size) == [n |-> n, i |-> hash % size, perturb |-> hash, free |-> -1]
Further(s, n, free, size) ==
  [n |-> n, i |-> Probe(s.i, s.perturb, size), perturb |-> Shifted(s.perturb), free |-> free]

(* The search for a key.  When a call of eql? moves the entries or         *)
(* replaces the one being compared, it starts again; the free slot it      *)
(* remembers may be used by then.                                          *)
lookup(given, key, hash, calls) ==
  LET try[s \in [n : 0 .. Len(calls), i : Nat, perturb : Nat, free : Int]] ==
        LET d == Seen(given, calls, s.n)
            e == d.entries[s.i]
            free == IF s.free = -1 THEN s.i ELSE s.free
            n == IF s.n < Len(calls) THEN s.n + 1 ELSE s.n
            after == Seen(given, calls, n)
            moved == (n # s.n /\ calls[n].moved) \/ after.entries[s.i].key # e.key
        IN  IF ~e.everused THEN Free(d, free, s.n)
            ELSE IF ~e.valid THEN try[Further(s, s.n, free, Size(d))]
            ELSE IF e.key = key THEN Found(d, s.i, s.n)
            ELSE IF d.kind = Identity \/ e.hash # hash THEN try[Further(s, s.n, s.free, Size(d))]
            ELSE IF moved THEN try[Begin(n, hash, Size(after))]
            ELSE IF keyeq(e.key, key) THEN Found(after, s.i, n)
            ELSE try[Further(s, n, s.free, Size(d))]
  IN  try[Begin(0, hash, Size(given))]

-----------------------------------------------------------------------------
(* An entry put at the end of the links, in slot i.                        *)
Linked(d, i, key, value, hash) ==
  LET e == [key |-> key, value |-> value, next |-> -1, prev |-> d.last_entry,
            everused |-> TRUE, valid |-> TRUE, hash |-> hash]
      entries == IF d.first_entry = -1 THEN d.entries
                 ELSE [d.entries EXCEPT ![d.last_entry].next = i]
  IN  [d EXCEPT !.entries = [entries EXCEPT ![i] = e],
                !.num_items = @ + 1,
                !.first_entry = IF @ = -1 THEN i ELSE @,
                !.last_entry = i]

(* Into a larger array, or a smaller one when most entries are deleted.    *)
lookup_clean(d, hash) ==
  LET try[s \in [i : Nat, perturb : Nat]] ==
        IF d.entries[s.i].everused
        THEN try[[i |-> Probe(s.i, s.perturb, Size(d)), perturb |-> Shifted(s.perturb)]]
        ELSE s.i
  IN  try[[i |-> hash % Size(d), perturb |-> hash]]

insert_clean(d, e) ==
  [Linked(d, lookup_clean(d, e.hash), e.key, e.value, e.hash)
     EXCEPT !.resize_counter = @ - 3]

NewSize(num_items) ==
  LET estimate == num_items * (IF num_items > 50000 THEN 2 ELSE 4)
      doubled[n \in Nat] == IF n <= estimate THEN doubled[2 * n] ELSE n
  IN  doubled[INIT_SIZE]

(* Mutant: in the order of the array.                                      *)
resizeBySlot(d) ==
  FoldLeft(LAMBDA acc, i : insert_clean(acc, d.entries[i]),
           newdict(d.kind, NewSize(d.num_items)),
           SelectSeq([n \in 1 .. Size(d) |-> n - 1], LAMBDA i : d.entries[i].valid))

resize(d) ==
  FoldLeft(LAMBDA acc, i : insert_clean(acc, d.entries[i]),
           newdict(d.kind, NewSize(d.num_items)), From(d, d.first_entry))

Counted(d) ==
  LET less == [d EXCEPT !.resize_counter = @ - 3]
  IN  IF less.resize_counter <= 0 THEN resize(less) ELSE less

setitem(d, key, value, calls) ==
  LET hash == hashkey(d.kind, key)
      r == lookup(d, key, hash, calls)
      added == Linked(r.dict, r.slot, key, value, hash)
  IN  IF r.found THEN [r.dict EXCEPT !.entries[r.slot].value = value]
      ELSE IF r.dict.entries[r.slot].everused THEN added
      ELSE Counted(added)

-----------------------------------------------------------------------------
At(d, key, calls) == lookup(d, key, hashkey(d.kind, key), calls)

contains(d, key) == At(d, key, <<>>).found

get(d, key, default) ==
  LET r == At(d, key, <<>>)
  IN  IF r.found THEN d.entries[r.slot].value ELSE default

(* pop with a default: the dictionary without the key, if it was there.    *)
pop(d, key, calls) ==
  LET r == At(d, key, calls) IN IF r.found THEN Del(r.dict, r.slot) ELSE r.dict

popitem(d) == Del(d, d.first_entry)

keys(d) == LET slots == From(d, d.first_entry)
           IN  [n \in DOMAIN slots |-> d.entries[slots[n]].key]
values(d) == LET slots == From(d, d.first_entry)
             IN  [n \in DOMAIN slots |-> d.entries[slots[n]].value]

copy(d) == d

-----------------------------------------------------------------------------
(* An iterator is the index of the entry it hands out next.  It looks at   *)
(* the entries the dictionary has now.                                     *)
newdictiter(d) == d.first_entry
AtEnd(index) == index = -1
InRange(d, index) == index \in DOMAIN d.entries
iternext(d, index) == [key |-> d.entries[index].key, index |-> d.entries[index].next]
=============================================================================
