------------------------------ MODULE OrderedMap ------------------------------
(* What a hash is to the program: a sequence of items in the order their   *)
(* keys were stored.  Keys are the same when their contents are, or, once  *)
(* the hash compares by identity, when they are one object.  An item keeps *)
(* the hash its key had when it was stored: after the program has changed  *)
(* the key, looking for that very object may find the item or not.         *)
EXTENDS Naturals, Sequences, SequencesExt

CONSTANTS
  Keys, Values, HashOf, IdOf, Null,
  EqlSteps  \* how often eql? changes the map during one operation

VARIABLES
  kind,     \* "eql" or "identity"
  items,    \* the items, [key, value, hash]
  content,  \* content[k]: the content of k
  iter      \* the iteration: what is left of it

vars == <<kind, items, content, iter>>

Hash(kd, k) == IF kd = "identity" THEN IdOf[k] ELSE HashOf[content[k]]
Same(kd, k1, k2) == IF kd = "identity" THEN k1 = k2 ELSE content[k1] = content[k2]

(* The items a search for k may find in a sequence of items, and 0 when it *)
(* may find none.                                                          *)
Exact(kd, s, k) == {i \in DOMAIN s : s[i].hash = Hash(kd, k) /\ Same(kd, s[i].key, k)}
Stale(kd, s, k) == {i \in DOMAIN s : s[i].hash # Hash(kd, k) /\ s[i].key = k}
Finds(kd, s, k) ==
  Exact(kd, s, k) \cup Stale(kd, s, k) \cup (IF Exact(kd, s, k) = {} THEN {0} ELSE {})

Put(kd, s, i, k, v) ==
  IF i = 0 THEN Append(s, [key |-> k, value |-> v, hash |-> Hash(kd, k)])
           ELSE [s EXCEPT ![i].value = v]
Without(s, i) == IF i = 0 THEN s ELSE RemoveAt(s, i)

(* The items stored one by one into an empty hash: the first of two that   *)
(* are the same keeps its place, the last its value.                       *)
Restored(kd, s) ==
  FoldLeft(LAMBDA acc, item :
             LET there == Exact(kd, acc, item.key)
             IN  Put(kd, acc, IF there = {} THEN 0 ELSE CHOOSE i \in there : TRUE,
                     item.key, item.value),
           <<>>, s)

-----------------------------------------------------------------------------
(* An iteration hands out the items that are left in order, whatever the   *)
(* program stores under keys that are there and whichever items handed out *)
(* it deletes.  It is disturbed, and may then end or hand out anything,    *)
(* once a key is added or an item it has not reached is deleted.  One that *)
(* is detached goes on over the items as they were when the hash got other *)
(* ones.                                                                   *)
NoIteration == [on |-> FALSE, left |-> <<>>, detached |-> FALSE, disturbed |-> FALSE]
Begun == [NoIteration EXCEPT !.on = TRUE, !.left = [i \in DOMAIN items |-> items[i].key]]

Init == /\ kind = "eql" /\ items = <<>>
        /\ content \in [Keys -> DOMAIN HashOf]
        /\ iter = NoIteration

(* The items and the iteration, m, after one operation on them.            *)
Disturbing(it, seen) ==
  IF it.on /\ ~it.detached /\ ~seen THEN [NoIteration EXCEPT !.on = TRUE, !.disturbed = TRUE]
  ELSE it
Reached(m, i) == i <= Len(m.items) - Len(m.iter.left)

Stored(m, i, k, v) == [items |-> Put(kind, m.items, i, k, v),
                       iter |-> Disturbing(m.iter, i # 0)]
Deleted(m, i) == [items |-> RemoveAt(m.items, i), iter |-> Disturbing(m.iter, Reached(m, i))]
Cleared(m) == [items |-> <<>>, iter |-> Disturbing(m.iter, Reached(m, Len(m.items)))]

(* Finding out whether keys are the same may run the program's eql?, which *)
(* may delete from the hash each time.                                     *)
Now == [items |-> items, iter |-> iter]
Fewer(m) == {Cleared(m)} \cup {Deleted(m, i) : i \in DOMAIN m.items}
Compared ==
  FoldLeft(LAMBDA ms, n : ms \cup UNION {Fewer(m) : m \in ms},
           {Now}, [n \in 1 .. EqlSteps |-> n])

Becomes(ms) == Now' \in ms /\ UNCHANGED <<kind, content>>

Store ==
  Becomes(UNION {{Stored(m, i, k, v) : i \in Finds(kind, m.items, k)} :
                   k \in Keys, v \in Values, m \in Compared})

Delete ==
  Becomes(UNION {{IF i = 0 THEN m ELSE Deleted(m, i) : i \in Finds(kind, m.items, k)} :
                   k \in Keys, m \in Compared})

Clear == Becomes({Cleared(Now)})
Shift == items # <<>> /\ Becomes({Deleted(Now, 1)})

(* Other items for the hash: its own stored anew, or a copy of them.       *)
Detached == IF iter.on /\ ~iter.disturbed THEN [iter EXCEPT !.detached = TRUE] ELSE iter

Renew ==
  /\ \/ \E kd \in {kind, "identity"} : kind' = kd /\ items' = Restored(kd, items)
     \/ UNCHANGED <<kind, items>>
  /\ iter' = Detached
  /\ UNCHANGED content

(* The program changes a key, begins an iteration or breaks out of it.     *)
Mutate == content' \in [Keys -> DOMAIN HashOf] /\ UNCHANGED <<kind, items, iter>>
Each == iter' \in {Begun, NoIteration} /\ UNCHANGED <<kind, items, content>>

HandOut ==
  /\ iter.on
  /\ iter' \in IF iter.disturbed THEN {iter, NoIteration}
               ELSE IF iter.left = <<>> THEN {NoIteration}
               ELSE {[iter EXCEPT !.left = Tail(@)]}
  /\ UNCHANGED <<kind, items, content>>

Next == Store \/ Delete \/ Clear \/ Shift \/ Renew \/ Mutate \/ Each \/ HandOut
Spec == Init /\ [][Next]_vars
=============================================================================
