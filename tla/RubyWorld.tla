----------------------------- MODULE RubyWorld -----------------------------
(* The values a program computes with, and everything outside its frames:  *)
(* arrays, hashes, objects and their variables, classes, and what calls of  *)
(* built-in methods do.  The bytecode interpreter and the reference         *)
(* semantics share it; how classes are searched each has for itself.        *)
(* A value is a tuple whose first element names its kind.                   *)
EXTENDS Numbers, SequencesExt, TLC

Nil      == <<"nil">>
True     == <<"true">>
False    == <<"false">>
Num(i)   == Fixnum(i)
Str(s)   == <<"str", s>>
Sym(s)   == <<"sym", s>>
Bool(b)  == IF b THEN True ELSE False
Exc(c)   == <<"exc", c>>
Class(c) == <<"class", c>>
MainObject == <<"obj", "Object", 0>>

(* ObjectSpace.is_true.                                                     *)
IsTrue(v) == v \notin {Nil, False}

(* The classes every program starts with, each with its superclass, and the *)
(* classes of the values that are no objects of a program's own.            *)
Builtin == [Object |-> "", Module |-> "Object", Class |-> "Module", Array |-> "Object", Hash |-> "Object", String |-> "Object",
            Symbol |-> "Object", Numeric |-> "Object", Integer |-> "Numeric", Fixnum |-> "Integer", Bignum |-> "Integer",
            Float |-> "Numeric", Range |-> "Object", Proc |-> "Object", NilClass |-> "Object",
            TrueClass |-> "Object", FalseClass |-> "Object", StandardError |-> "Object", E1 |-> "StandardError",
            E2 |-> "StandardError", NameError |-> "StandardError", NoMethodError |-> "NameError", ArgumentError |-> "StandardError",
            LocalJumpError |-> "StandardError", TypeError |-> "StandardError",
            ZeroDivisionError |-> "StandardError", RangeError |-> "StandardError"]
KindClass == [nil |-> "NilClass", true |-> "TrueClass", false |-> "FalseClass", int |-> "Fixnum", big |-> "Bignum", float |-> "Float", str |-> "String", sym |-> "Symbol",
              array |-> "Array", hash |-> "Hash", range |-> "Range", proc |-> "Proc", code |-> "Object"]

(* W_ModuleObject and W_ClassObject: klass is a class of its own ("" if it  *)
(* has none), included the modules included, the latest first.              *)
ClassRecord(kind, super, klass) ==
  [kind |-> kind, super |-> super, klass |-> klass, included |-> <<>>, descendants |-> {}, methods |-> <<>>, consts |-> <<>>, cvars |-> <<>>]
Bootstrap ==
  [c \in DOMAIN Builtin |-> [ClassRecord("class", Builtin[c], "") EXCEPT
     !.descendants = {d \in DOMAIN Builtin : Builtin[d] = c},
     !.consts = IF c = "Object" THEN [d \in DOMAIN Builtin |-> Class(d)] ELSE <<>>]]

EmptyWorld ==
  [log |-> <<>>, answers |-> <<>>, arrays |-> <<>>, hashes |-> <<>>, objects |-> 0, vars |-> <<>>, classes |-> Bootstrap,
   singles |-> <<>>, cells |-> <<>>, procs |-> <<>>, scopes |-> <<>>, active |-> {}, interps |-> 0, catches |-> {}]

(* W_ArrayObject, W_HashObject: a new one, its items.                       *)
NewArray(w, items) == [w EXCEPT !.arrays = Append(@, items)]
LastArray(w) == <<"array", Len(w.arrays)>>
IsArray(v)   == v[1] = "array"
Items(w, v)  == w.arrays[v[2]]
NewHash(w)   == [w EXCEPT !.hashes = Append(@, <<>>)]
LastHash(w)  == <<"hash", Len(w.hashes)>>
Entry(pairs, k) == SelectSeq([i \in 1..Len(pairs) |-> i], LAMBDA i: pairs[i][1] = k)
Fetched(pairs, k)     == IF Entry(pairs, k) = <<>> THEN Nil ELSE pairs[Entry(pairs, k)[1]][2]
Associated(pairs, k, v) == IF Entry(pairs, k) = <<>> THEN Append(pairs, <<k, v>>) ELSE [pairs EXCEPT ![Entry(pairs, k)[1]][2] = v]

(* Instance variables and globals: a key is the owner and the name.         *)
SetVar(w, owner, name, v) == [w EXCEPT !.vars = (<<owner, name>> :> v) @@ @]
HasVar(w, owner, name)    == <<owner, name>> \in DOMAIN w.vars
GetVar(w, owner, name)    == IF HasVar(w, owner, name) THEN w.vars[<<owner, name>>] ELSE Nil
Global                    == <<"global">>

(* Globals behind a getter, which the program cannot set: $$.               *)
ReadonlyGlobals == "$" :> Num(7)

(* A method that is none (UndefMethod), one not found.                      *)
UndefMethod(name) == [kind |-> "undef", name |-> name]
Missing           == [kind |-> "missing"]

(* The name of a constant's class, in its scope (buildname).                *)
NameIn(scope, name) == IF scope = "Object" THEN name ELSE scope \o "::" \o name

(* COERCE_ARRAY, Splat: an array stays, nil is the empty array or an array  *)
(* of nil, anything else an array of itself.                                *)
Coerced(w, v, nilIsEmpty) ==
  IF IsArray(v) THEN [world |-> w, value |-> v]
  ELSE LET n == NewArray(w, IF v = Nil /\ nilIsEmpty THEN <<>> ELSE <<v>>)
       IN [world |-> n, value |-> LastArray(n)]

(* The elements of a set, one after the other.                              *)
InAnyOrder(S) == FoldSet(LAMBDA x, s: Append(s, x), <<>>, S)

Error(w, c)  == [kind |-> "error", value |-> Exc(c), world |-> w]
Answer(w, v) == [kind |-> "value", value |-> v, world |-> w]

(* A call c(k) into the world outside: it is noted, and true, nil or an     *)
(* exception comes back, as the run has chosen.                             *)
Outside(w, k) ==
  LET noted == [w EXCEPT !.log = Append(@, k)]
      n == Len(noted.log)
      a == IF n <= Len(w.answers) THEN w.answers[n] ELSE "nil"
  IN IF a = "raise" THEN Error(noted, "E1") ELSE Answer(noted, <<a>>)

Padded(s, n) == s \o [i \in 1..Max({n - Len(s), 0}) |-> Nil]

(* A method of an integer with an argument, with none.                      *)
Calculated(w, r) ==
  CASE r[1] = "error" -> Error(w, r[2])
    [] r[1] = "pair"  -> LET n == NewArray(w, <<r[2], r[3]>>) IN Answer(n, LastArray(n))
    [] OTHER -> Answer(w, r)
IsInteger(v) == v[1] \in {"int", "big"}
NumberMethod(w, recv, name, args) ==
  CASE name = "!=" -> Answer(w, Bool(IntegerMethod("==", recv, args[1]) # True))
    [] name = "===" -> Calculated(w, IntegerMethod("==", recv, args[1]))
    [] name \in (IF recv[1] = "int" THEN FixnumOperators ELSE Operators) -> Calculated(w, IntegerMethod(name, recv, args[1]))
    [] name = "-@" /\ recv[1] = "big" -> Answer(w, Bignum(-recv[2]))
    [] name \in {"-@", "~"} /\ recv[1] = "int" -> Calculated(w, FixnumUnary(name, recv[2]))
    [] OTHER -> Error(w, "NoMethodError")
NumberMethods == FixnumOperators \cup {"!=", "===", "-@", "~"}

(* What to_s makes of a value.                                              *)
Text(v) == CASE v[1] \in {"int", "big"} -> ToString(v[2]) [] v[1] \in {"str", "sym"} -> v[2] [] v = Nil -> ""

(* The methods of the library that the programs call.                       *)
Primitive(w, recv, name, args) ==
  CASE IsInteger(recv) /\ name \in NumberMethods -> NumberMethod(w, recv, name, args)
    [] name = "c"      -> Outside(w, args[1][2])
    [] name = "raise"  -> Error(w, args[1][2])
    [] name \in {"===", "=="} /\ ~IsInteger(recv) -> Answer(w, Bool(recv = args[1]))
    [] name = "!=" /\ ~IsInteger(recv) -> Answer(w, Bool(recv # args[1]))
    [] name = "!"      -> Answer(w, Bool(~IsTrue(recv)))
    [] name = "+" /\ recv[1] = "str" -> Answer(w, Str(recv[2] \o args[1][2]))
    [] name = "to_s"   -> Answer(w, Str(Text(recv)))
    [] name = "to_sym" -> Answer(w, Sym(recv[2]))
    [] name = "backquote" -> Answer(w, Str("ran " \o args[1][2]))
    [] name = "filepath"  -> Answer(w, Str("-e"))
    [] name = "length" /\ IsArray(recv) -> Answer(w, Num(Len(Items(w, recv))))
    [] name = "[]" /\ IsArray(recv) ->
         Answer(w, IF args[1][2] < Len(Items(w, recv)) THEN Items(w, recv)[args[1][2] + 1] ELSE Nil)
    [] name = "[]=" /\ IsArray(recv) ->
         Answer([w EXCEPT !.arrays[recv[2]] = [Padded(@, args[1][2] + 1) EXCEPT ![args[1][2] + 1] = args[2]]], args[2])
    [] name = "[]" /\ recv[1] = "hash"  -> Answer(w, Fetched(w.hashes[recv[2]], args[1]))
    [] name = "[]=" /\ recv[1] = "hash" -> Answer([w EXCEPT !.hashes[recv[2]] = Associated(@, args[1], args[2])], args[2])
    [] name = "begin" /\ recv[1] = "range" -> Answer(w, recv[2])
    [] name = "end" /\ recv[1] = "range"   -> Answer(w, recv[3])
    [] name = "instance_variable_defined?" -> Answer(w, Bool(HasVar(w, recv, args[1][2])))
    [] name = "const_missing"  -> Error(w, "NameError")
    [] OTHER -> Error(w, "NoMethodError")
=============================================================================
