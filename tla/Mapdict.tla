------------------------------- MODULE Mapdict -------------------------------
(* Where objects keep their attributes (topaz/mapdict.py and W_Object in   *)
(* topaz/objects/objectobject.py).  An object points to a node of a tree   *)
(* whose root is its class; the nodes up to the root name its attributes,  *)
(* flags and constraint variables and give each a slot in one of two       *)
(* arrays.  Objects of a class share the nodes.  An attribute whose value  *)
(* no longer fits its node's type is taken out of the middle of the path,  *)
(* and what lies above moves down.  An array grows to an average of the    *)
(* sizes needed so far, kept in fixed point, that all objects move.        *)
EXTENDS Naturals, SequencesExt

CONSTANTS
  Objects, Names, Flags,
  Infectious,        \* the flags dup copies: all but frozen?
  Values,
  Nil,               \* an attribute that is not set
  Class,             \* the class of the objects; o names o's singleton class
  TypeOf,            \* TypeOf[v]: int, float or object
  NUM_DIGITS_POW2,   \* one, in the fixed point of the estimates
  MaxNodes,          \* bound: nodes of the tree
  UserOps            \* which operations the program uses; "retype": also of
                     \* an attribute that lies under a flag

Types == {"int", "float", "object"}
ASSUME MapdictAssumption ==
  /\ TypeOf \in [Values -> Types]
  /\ IsFiniteSet(Flags) /\ Infectious \subseteq Flags
  /\ Nil \notin Values /\ Nil \notin Objects /\ Class \notin Objects
  /\ NUM_DIGITS_POW2 \in Nat \ {0} /\ MaxNodes \in Nat

VARIABLES
  map,       \* map[o]: the node, as its class and the path from there, or Nil
  storage,   \* storage[o]: the arrays, object_storage and unboxed_storage
  estimate,  \* estimate[node].object, .unboxed: the size estimates
  failed     \* a call raised an AttributeError or an IndexError

vars == <<map, storage, estimate, failed>>

-----------------------------------------------------------------------------
(* Nodes.  A path is a sequence of [kind, name]; the node it leads to      *)
(* under class c is <<c, path>>.                                           *)

ArrayOf(kind) == IF kind \in {"int", "float"} THEN "unboxed" ELSE "object"

(* length: how many nodes up to the i-th use its array, itself included.   *)
(* Its slot is the last of these.                                          *)
Slot(path, i) ==
  Cardinality({j \in 1..i : ArrayOf(path[j].kind) = ArrayOf(path[i].kind)})

(* find: the place of the node with this name among kinds, 0 if none.      *)
Find(path, kinds, n) ==
  LET I == {i \in DOMAIN path : path[i].kind \in kinds /\ path[i].name = n}
  IN  IF I = {} THEN 0 ELSE CHOOSE i \in I : TRUE

FixedPoint(size) == size * NUM_DIGITS_POW2
Size(e) == e \div NUM_DIGITS_POW2

(* What a new node starts with: its own array's size, its parent's other.  *)
FirstEstimate(path, parent) ==
  [parent EXCEPT ![ArrayOf(Last(path).kind)] = FixedPoint(Slot(path, Len(path)))]
NewNode(est, node, sizes) ==
  [n \in DOMAIN est \cup {node} |-> IF n = node THEN sizes ELSE est[n]]
GetTransition(est, c, path) ==
  IF <<c, path>> \in DOMAIN est THEN est
  ELSE NewNode(est, <<c, path>>, FirstEstimate(path, est[<<c, Front(path)>>]))

(* update_from: the average moves by a part of the difference.             *)
(* Mutant: the difference is taken the other way round.                    *)
UpdateFromSwapped(e, other) ==
  [a \in {"object", "unboxed"} |-> e[a] + Size(e[a]) - Size(other[a])]
UpdateFrom(e, other) ==
  [a \in {"object", "unboxed"} |-> e[a] + Size(other[a]) - Size(e[a])]

-----------------------------------------------------------------------------
(* An object while it is changed: its class, path and arrays, and the      *)
(* estimates of all nodes.                                                 *)

(* update_storage.  Mutant: the old values are not copied.                 *)
GrownEmpty(array, size) == [i \in 1..size |-> Nil]
Grown(array, size) == [i \in 1..size |-> IF i <= Len(array) THEN array[i] ELSE Nil]

(* BaseNode.add.  The averages stay as they are in compiled code.          *)
Add(obj, kind, n, jitted) ==
  LET path == Append(obj.path, [kind |-> kind, name |-> n])
      node == <<obj.cls, path>>
      prev == <<obj.cls, obj.path>>
      est  == GetTransition(obj.est, obj.cls, path)
      a    == ArrayOf(kind)
      size == Size(est[node][a])
      grow == Slot(path, Len(path)) >= Len(obj[a])
  IN [obj EXCEPT !.path = path,
                 !.est = IF jitted THEN est
                         ELSE [est EXCEPT ![prev] = UpdateFrom(@, est[node])],
                 ![a] = IF grow THEN Grown(@, size) ELSE @,
                 !.failed = @ \/ (grow /\ size < Len(obj[a]))]

Read(obj, i) ==
  LET k == obj.path[i].kind
      a == obj[ArrayOf(k)]
      v == IF Slot(obj.path, i) \in DOMAIN a THEN a[Slot(obj.path, i)] ELSE Nil
  IN  IF k \in {"int", "float"} /\ (v = Nil \/ TypeOf[v] # k) THEN "other bits" ELSE v

Write(obj, i, v) ==
  LET a == ArrayOf(obj.path[i].kind)
      s == Slot(obj.path, i)
  IN  IF s \in DOMAIN obj[a] THEN [obj EXCEPT ![a][s] = v] ELSE [obj EXCEPT !.failed = TRUE]

AddAndWrite(obj, kind, n, v, jitted) ==
  LET more == Add(obj, kind, n, jitted) IN Write(more, Len(more.path), v)

SelectType(v) == IF v \in Values THEN TypeOf[v] ELSE "object"

(* remove_attr: what lies above is read, then added again without it.      *)
(* Mutant: the node itself is not taken out.                               *)
KindAgain(node, v) == IF node.kind = "cvar" THEN "cvar" ELSE SelectType(v)
AddAgain(obj, bottom, above, jitted) ==
  FoldLeft(LAMBDA below, j :
             AddAndWrite(below, KindAgain(obj.path[j], Read(obj, j)), obj.path[j].name,
                         Read(obj, j), jitted),
           [obj EXCEPT !.path = SubSeq(@, 1, bottom)],
           [k \in 1..Len(obj.path) - above |-> above + k])
RemoveAttrKept(obj, i, jitted) == AddAgain(obj, i, i, jitted)
RemoveAttr(obj, i, jitted) == AddAgain(obj, i - 1, i, jitted)

(* FlagNode has no remove_attr.                                            *)
UnderFlag(obj, i) == \E j \in DOMAIN obj.path : j > i /\ obj.path[j].kind = "flag"
Fits(node, v) == node.kind \in {"object", SelectType(v)}

SetInstanceVar(obj, n, v, jitted) ==
  LET i == Find(obj.path, Types, n) IN
  IF i = 0 THEN AddAndWrite(obj, SelectType(v), n, v, jitted)
  ELSE IF Fits(obj.path[i], v) THEN Write(obj, i, v)
  ELSE IF UnderFlag(obj, i) THEN [obj EXCEPT !.failed = TRUE]
  ELSE AddAndWrite(RemoveAttr(obj, i, jitted), SelectType(v), n, v, jitted)

(* A flag or constraint variable: found, or added on top.                  *)
SetOther(obj, kind, n, v, jitted) ==
  LET i == Find(obj.path, {kind}, n)
  IN  IF i = 0 THEN AddAndWrite(obj, kind, n, v, jitted) ELSE Write(obj, i, v)

CopyAttrs(from, to, jitted) ==
  FoldLeft(LAMBDA obj, i : IF from.path[i].kind \in Types
                           THEN SetInstanceVar(obj, from.path[i].name, Read(from, i), jitted)
                           ELSE obj,
           to, [i \in DOMAIN from.path |-> i])
CopyConstraintVars(from, to, jitted) ==
  FoldLeft(LAMBDA obj, i : IF from.path[i].kind = "cvar"
                           THEN SetOther(obj, "cvar", from.path[i].name, Read(from, i), jitted)
                           ELSE obj,
           to, [i \in DOMAIN from.path |-> i])

IsSet(obj, f) == LET i == Find(obj.path, {"flag"}, f) IN i # 0 /\ Read(obj, i) = TRUE
Infect(from, to, fs, jitted) ==
  FoldLeft(LAMBDA obj, f : IF IsSet(from, f) THEN SetOther(obj, "flag", f, TRUE, jitted) ELSE obj,
           to, SetToSeq(fs))

(* change_class: the same path under another class.                        *)
GetClassNode(est, c) ==
  IF <<c, <<>>>> \in DOMAIN est THEN est
  ELSE NewNode(est, <<c, <<>>>>, [object |-> 0, unboxed |-> 0])
ChangeClass(obj, c) ==
  [obj EXCEPT !.cls = c,
              !.est = FoldLeft(LAMBDA est, i : GetTransition(est, c, SubSeq(obj.path, 1, i)),
                               GetClassNode(obj.est, c), [i \in DOMAIN obj.path |-> i])]

-----------------------------------------------------------------------------
Allocated(o) == map[o] # Nil
Object(o) == [cls |-> map[o].cls, path |-> map[o].path, object |-> storage[o].object,
              unboxed |-> storage[o].unboxed, est |-> estimate, failed |-> failed]
NewObject(est) == [cls |-> Class, path |-> <<>>, object |-> <<>>, unboxed |-> <<>>,
                   est |-> GetClassNode(est, Class), failed |-> failed]
MapOf(obj) == [cls |-> obj.cls, path |-> obj.path]
StorageOf(obj) == [object |-> obj.object, unboxed |-> obj.unboxed]

(* A call that raised has changed nothing in the object.                   *)
Become(o, obj) ==
  /\ map' = IF obj.failed THEN map ELSE [map EXCEPT ![o] = MapOf(obj)]
  /\ storage' = IF obj.failed THEN storage ELSE [storage EXCEPT ![o] = StorageOf(obj)]
  /\ estimate' = obj.est
  /\ failed' = obj.failed

Allocate(o) == ~Allocated(o) /\ Become(o, NewObject(estimate))

MaySet(o, n, v) ==
  LET i == Find(map[o].path, Types, n)
  IN  i # 0 /\ UnderFlag(Object(o), i) /\ "retype" \notin UserOps => Fits(map[o].path[i], v)
SetAttr(o, n, v, jitted) ==
  /\ Allocated(o) /\ MaySet(o, n, v)
  /\ Become(o, SetInstanceVar(Object(o), n, v, jitted))

SetFlag(o, f, jitted) == Allocated(o) /\ Become(o, SetOther(Object(o), "flag", f, TRUE, jitted))
(* freeze has no remover, and unsetting what is not there adds nothing.    *)
UnsetFlag(o, f) ==
  LET i == Find(map[o].path, {"flag"}, f) IN
  /\ Allocated(o) /\ i # 0 /\ f \in Infectious
  /\ Become(o, Write(Object(o), i, FALSE))

(* newconstraintvariable: a new variable of o, unless one is found.        *)
NewConstraintVar(o, n, jitted) ==
  /\ Allocated(o) /\ Find(map[o].path, {"cvar"}, n) = 0
  /\ Become(o, SetOther(Object(o), "cvar", n, o, jitted))

GetSingletonClass(o) ==
  /\ "singleton" \in UserOps /\ Allocated(o) /\ map[o].cls = Class
  /\ Become(o, ChangeClass(Object(o), o))

Dup(o, p, jitted) ==
  LET from == Object(o)
      new  == CopyAttrs(from, NewObject(estimate), jitted)
  IN /\ "dup" \in UserOps /\ Allocated(o) /\ ~Allocated(p)
     /\ Become(p, CopyConstraintVars(from, Infect(from, new, Infectious, jitted), jitted))

(* clone also gives both objects singleton classes.                        *)
Clone(o, p, jitted) ==
  LET from == Object(o)
      new  == CopyConstraintVars(from, CopyAttrs(from, NewObject(estimate), jitted), jitted)
      orig == ChangeClass([from EXCEPT !.est = new.est], o)
      copy == Infect(from, ChangeClass([new EXCEPT !.est = orig.est], p), Flags, jitted)
  IN /\ "clone" \in UserOps /\ Allocated(o) /\ ~Allocated(p)
     /\ map' = [map EXCEPT ![o] = MapOf(orig), ![p] = MapOf(copy)]
     /\ storage' = [storage EXCEPT ![p] = StorageOf(copy)]
     /\ estimate' = copy.est
     /\ failed' = copy.failed

-----------------------------------------------------------------------------
Init ==
  /\ map = [o \in Objects |-> Nil]
  /\ storage = [o \in Objects |-> [object |-> <<>>, unboxed |-> <<>>]]
  /\ estimate = GetClassNode(<<>>, Class)
  /\ failed = FALSE

Next ==
  /\ ~failed /\ Cardinality(DOMAIN estimate) < MaxNodes
  /\ \E o \in Objects, jitted \in BOOLEAN :
       \/ Allocate(o)
       \/ \E n \in Names, v \in Values : SetAttr(o, n, v, jitted)
       \/ \E f \in Flags : SetFlag(o, f, jitted) \/ UnsetFlag(o, f)
       \/ \E n \in Names : NewConstraintVar(o, n, jitted)
       \/ GetSingletonClass(o)
       \/ \E p \in Objects : Dup(o, p, jitted) \/ Clone(o, p, jitted)

Spec == Init /\ [][Next]_vars

-----------------------------------------------------------------------------
Nodes == [kind : Types \cup {"flag", "cvar"}, name : Names \cup Flags]
ASSUME NilAssumption ==
  /\ Nil \notin [cls : {Class} \cup Objects, path : Seq(Nodes)]
  /\ Nil \notin [attr : [Names -> Values \cup {Nil}], flag : SUBSET Flags,
                 cvar : [Names -> Objects \cup {Nil}]]
TypeOK ==
  /\ \A o \in Objects : map[o] # Nil =>
       map[o].cls \in {Class, o} /\ map[o].path \in Seq(Nodes)
  /\ \A o \in Objects, a \in {"object", "unboxed"} :
       storage[o][a] \in Seq(Values \cup Objects \cup BOOLEAN \cup {Nil})
  /\ \A node \in DOMAIN estimate : estimate[node] \in [{"object", "unboxed"} -> Nat]
  /\ failed \in BOOLEAN

(* A path has one node for a name: a retyped attribute is not left behind; *)
(* and what is stored keeps its type.                                      *)
Family(kind) == IF kind \in Types THEN "attribute" ELSE kind
NoDuplicates ==
  \A o \in Objects : Allocated(o) => \A i, j \in DOMAIN map[o].path :
    map[o].path[i].name = map[o].path[j].name
      /\ Family(map[o].path[i].kind) = Family(map[o].path[j].kind) => i = j
WellFormed == TypeOK /\ NoDuplicates

(* No read or write is out of an array's bounds, and an attribute can be   *)
(* set to a value of another type (test_objectobject.py:398-411): no       *)
(* average falls below what its node needs, rounding included, however the *)
(* objects of the class move it, so an array sized by it has every slot.   *)
EstimatesSuffice ==
  \A node \in DOMAIN estimate : \A i \in DOMAIN node[2] :
    Slot(node[2], i) <= Size(estimate[node][ArrayOf(node[2][i].kind)])
NoFailure == ~failed /\ EstimatesSuffice

(* What the program finds under a name.                                    *)
Found(x, kinds, n) ==
  LET i == Find(x.path, kinds, n) IN IF i = 0 THEN Nil ELSE Read(x, i)

(* Refinement: over shared nodes, typed slots, moves and growing arrays    *)
(* each object has its own attributes, flags and constraint variables.     *)
Attributes == INSTANCE AttributeStore WITH
  obj <- [o \in Objects |->
            IF ~Allocated(o) THEN Nil
            ELSE LET x == Object(o)
                 IN  [attr |-> [n \in Names |-> Found(x, Types, n)],
                      flag |-> {f \in Flags : IsSet(x, f)},
                      cvar |-> [n \in Names |-> Found(x, {"cvar"}, n)]]]
ImplementsAttributes == Attributes!Spec
=============================================================================
