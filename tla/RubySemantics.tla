--------------------------- MODULE RubySemantics ---------------------------
(* What a Ruby program means, as the language promises it ("Topaz           *)
(* implements Ruby 1.9.3"): the phrases evaluated one inside the other,     *)
(* with no bytecode, operand stack, cells or symbol tables.  The result of  *)
(* a phrase is a value or a way out: an error, or a break, a next or a      *)
(* return with the activation it is bound for.                              *)
(* Which names a block shares with the text around it, and which bare names *)
(* are variables, is not computed here: the phrases say it (outer, var).    *)
EXTENDS RubyWorld

Result(k, v, w, tag) == [k |-> k, v |-> v, w |-> w, tag |-> tag]
Val(v, w)     == Result("value", v, w, 0)
Raised(c, w)  == Result("error", Exc(c), w, 0)
Then(r, F(_, _)) == IF r.k = "value" THEN F(r.v, r.w) ELSE r
FromWorld(r)  == Result(r.kind, r.value, r.world, 0)

(* Scopes: each activation has one; a name of an outer scope is bound to it. *)
Resolve(e, name) == IF name \in DOMAIN e.bind THEN e.bind[name] ELSE e.own
Read(e, w, name) == LET s == w.scopes[Resolve(e, name)] IN IF name \in DOMAIN s THEN s[name] ELSE Nil
Write(e, w, name, v) == [w EXCEPT !.scopes[Resolve(e, name)] = (name :> v) @@ @]
OpenScope(w) == [w EXCEPT !.scopes = Append(@, <<>>)]

(* A new activation, for a call to come back to.                            *)
Activate(w) == [w EXCEPT !.interps = @ + 1, !.active = @ \union {w.interps + 1}]
Deactivate(r, id) == [r EXCEPT !.w.active = @ \ {id}]
Caught(r, kinds, id) == IF r.k \in kinds /\ r.tag = id THEN Val(r.v, r.w) ELSE r

NewProc(w, proc) == [w EXCEPT !.procs = Append(@, proc)]
ProcValue(w) == <<"proc", Len(w.procs)>>

Each(s, Op(_)) == FlattenSeq([i \in 1..Len(s) |-> Op(s[i])])

RECURSIVE Eval(_, _, _), EvalAll(_, _, _), Assign(_, _, _, _), AssignAll(_, _, _, _), While(_, _, _),
          Bind(_, _, _, _, _), Try(_, _, _, _), Choose(_, _, _, _, _), EvalOptional(_, _, _), Chain(_, _), Call(_, _, _, _, _)

(* Arguments and items: a splat counts for the items of its array.          *)
EvalAll(ps, e, w) ==
  IF ps = <<>> THEN Val(<<>>, w)
  ELSE Then(Eval(Head(ps), e, w), LAMBDA v, w1:
         Then(EvalAll(Tail(ps), e, w1), LAMBDA vs, w2:
           Val((IF Head(ps).t = "splat" THEN Items(w1, v) ELSE <<v>>) \o vs, w2)))

-----------------------------------------------------------------------------
(* Where methods, constants and class variables are.  A place is a module   *)
(* or what belongs to one value only; the lineage of a value are the places *)
(* its methods are looked for in, one after the other.                      *)

Single(v) == <<"single", v>>
Table(w, place) ==
  CASE place[1] = "class" -> w.classes[place[2]]
    [] place[1] = "single" /\ place[2] \in DOMAIN w.singles -> w.singles[place[2]]
    [] OTHER -> [methods |-> <<>>, included |-> <<>>, consts |-> <<>>, cvars |-> <<>>]
Changed(w, place, table) ==
  IF place[1] = "class" THEN [w EXCEPT !.classes[place[2]] = table] ELSE [w EXCEPT !.singles = (place[2] :> table) @@ @]
WithModules(w, place) == LET mods == Table(w, place).included IN <<place>> \o [i \in 1..Len(mods) |-> Class(mods[i])]

(* A module and its modules, its superclass and so on.                      *)
Chain(w, c) == IF c = "" THEN <<>> ELSE WithModules(w, Class(c)) \o Chain(w, w.classes[c].super)
Superclasses(w, c) == SelectSeq(Chain(w, c), LAMBDA p: w.classes[p[2]].kind = "class")
Lineage(w, v) ==
  CASE v[1] = "class" /\ w.classes[v[2]].kind = "class" ->
         Each(Superclasses(w, v[2]), LAMBDA c: WithModules(w, Single(c))) \o Chain(w, "Class")
    [] v[1] = "class" -> WithModules(w, Single(v)) \o Chain(w, "Module")
    [] v[1] = "obj"   -> WithModules(w, Single(v)) \o Chain(w, v[2])
    [] v[1] = "exc"   -> Chain(w, v[2])
    [] OTHER -> Chain(w, KindClass[v[1]])
After(lineage, place) ==
  LET at == SelectSeq([i \in 1..Len(lineage) |-> i], LAMBDA i: lineage[i] = place) IN SubSeq(lineage, at[1] + 1, Len(lineage))

Lookup(w, lineage, name) ==
  LET has == SelectSeq(lineage, LAMBDA p: name \in DOMAIN Table(w, p).methods)
  IN IF has = <<>> THEN Missing ELSE [place |-> has[1]] @@ Table(w, has[1]).methods[name]
Method(w, v, name) == Lookup(w, Lineage(w, v), name)
IsA(w, v, c) == Class(c) \in ToSet(Lineage(w, v))

(* The class the text stands in, the module, and the constants seen there:  *)
(* those of the scopes outward, of the ancestors, of Object.                *)
Place(e)  == IF e.scope = <<>> THEN Class("Object") ELSE Last(e.scope)
Within(e) == LET modules == SelectSeq(e.scope, LAMBDA p: p[1] = "class") IN IF modules = <<>> THEN "Object" ELSE Last(modules)[2]
ConstIn(w, places, name) ==
  LET has == SelectSeq(places, LAMBDA p: name \in DOMAIN Table(w, p).consts) IN IF has = <<>> THEN <<>> ELSE <<Table(w, has[1]).consts[name]>>
LexicalConst(w, e, name) == ConstIn(w, Reverse(e.scope) \o Chain(w, Within(e)) \o Chain(w, "Object"), name)
ConstOr(found, c, name, w) == IF found # <<>> THEN Val(found[1], w) ELSE Call(w, Class(c), "const_missing", <<Sym(name)>>, Nil)
SetConst(w, c, name, v) == [w EXCEPT !.classes[c].consts = (name :> v) @@ @]

GlobalVar(w, name) == IF name \in DOMAIN ReadonlyGlobals THEN ReadonlyGlobals[name] ELSE GetVar(w, Global, name)

(* A class variable belongs to the topmost ancestor that has it.            *)
VarOwner(w, c, name) ==
  LET has == SelectSeq(Chain(w, c), LAMBDA p: name \in DOMAIN w.classes[p[2]].cvars) IN IF has = <<>> THEN <<>> ELSE <<Last(has)[2]>>
ClassVar(w, c, name) == LET o == VarOwner(w, c, name) IN IF o = <<>> THEN Raised("NameError", w) ELSE Val(w.classes[o[1]].cvars[name], w)
SetClassVar(w, c, name, v) ==
  LET o == VarOwner(w, c, name) IN [w EXCEPT !.classes[IF o = <<>> THEN c ELSE o[1]].cvars = (name :> v) @@ @]

(* include and extend: the module and its own, before those already there.  *)
Add(w, place, lineage, m) ==
  LET new == SelectSeq(Chain(w, m), LAMBDA p: p \notin ToSet(lineage))
      t == Table(w, place)
  IN Changed(w, place, [t EXCEPT !.included = [i \in 1..Len(new) |-> new[i][2]] \o @])

-----------------------------------------------------------------------------
(* Calls.                                                                   *)

(* The parameters in the order of the text; the last ones left of a rest    *)
(* parameter may have defaults.                                             *)
Wanted(params) == Len(SelectSeq(params, LAMBDA a: a.t \in {"req", "mparam"}))
Taken(params)  == Len(SelectSeq(params, LAMBDA a: a.t \in {"req", "mparam", "opt"}))
HasRest(params) == \E i \in 1..Len(params) : params[i].t = "rest"
Bind(params, args, blk, e, w) ==
  IF params = <<>> THEN Val(Nil, w)
  ELSE LET a == Head(params)
           Go(w1, n) == Bind(Tail(params), SubSeq(args, n + 1, Len(args)), blk, e, w1)
       IN CASE a.t = "req" -> Go(Write(e, w, a.name, Head(args)), 1)
            [] a.t = "opt" /\ args # <<>> -> Go(Write(e, w, a.name, Head(args)), 1)
            [] a.t = "opt" /\ args = <<>> -> Then(Eval(a.defl, e, w), LAMBDA v, w1: Go(Write(e, w1, a.name, v), 0))
            [] a.t = "mparam" ->
                 LET c == Coerced(w, Head(args), FALSE)
                 IN Then(AssignAll(a.targets, Items(c.world, c.value), e, c.world), LAMBDA v, w1: Go(w1, 1))
            [] a.t = "rest" -> LET n == NewArray(w, args) IN Go(Write(e, n, a.name, LastArray(n)), Len(args))
            [] a.t = "blockarg" -> Go(Write(e, w, a.name, blk), 0)
            [] OTHER -> Go(w, 0)

Fits(params, n) == n >= Wanted(params) /\ (HasRest(params) \/ n <= Taken(params))

CallMethod(w, m, recv, args, blk) ==
  LET w1 == OpenScope(Activate(w))
      id == w1.interps
      e == [self |-> recv, own |-> Len(w1.scopes), bind |-> <<>>, home |-> id, cid |-> 0, inloop |-> FALSE, blk |-> blk,
            scope |-> m.scope, place |-> m.place, mname |-> m.name, params |-> m.params]
  IN IF ~Fits(m.params, Len(args)) THEN Raised("ArgumentError", w)
     ELSE Deactivate(Caught(Then(Bind(m.params, args, blk, e, w1), LAMBDA v, w2: EvalOptional(m.body, e, w2)), {"return"}, id), id)

(* A block given one array takes it apart when it has several parameters;   *)
(* its parameters never fail to match.  A lambda is a method in this.       *)
BlockArguments(w, params, args) ==
  LET items == IF Len(args) = 1 /\ IsArray(args[1]) /\ Taken(params) >= 2 THEN Items(w, args[1]) ELSE args
      full == Padded(items, Wanted(params))
  IN IF HasRest(params) THEN full ELSE SubSeq(full, 1, Min({Len(full), Taken(params)}))

CallBlock(w, proc, args, blk) ==
  LET p == w.procs[proc[2]]
      w1 == Activate(IF p.shared THEN w ELSE OpenScope(w))
      id == w1.interps
      e == [p.e EXCEPT !.own = IF p.shared THEN @ ELSE Len(w1.scopes), !.inloop = FALSE, !.cid = IF p.lambda THEN id ELSE p.cid,
                       !.home = IF p.lambda THEN id ELSE @]
      actual == IF p.lambda THEN args ELSE BlockArguments(w, p.params, args)
      bound == IF p.shared THEN Assign(p.target, Head(args), e, w1) ELSE Bind(p.params, actual, blk, e, w1)
      r == Then(bound, LAMBDA v, w2: EvalOptional(p.body, e, w2))
      done == IF p.lambda THEN Caught(r, {"return", "break"}, id) ELSE r
  IN IF p.lambda /\ ~Fits(p.params, Len(args)) THEN Raised("ArgumentError", w)
     ELSE Deactivate(IF done.k = "next" THEN Val(done.v, done.w) ELSE done, id)

(* Integers have no width: a quotient is rounded down, a negative number    *)
(* has infinitely many ones in front, a shift multiplies or divides.        *)
Whole(v)    == v[1] = "int"
Size(a)     == IF a < 0 THEN -a ELSE a
Rounded(a, b) == CHOOSE q \in -Size(a)..Size(a) : a - q * b \in (IF b > 0 THEN 0..(b - 1) ELSE (b + 1)..0)
Shifted(a, n) == IF n >= 0 THEN a * 2^n ELSE Rounded(a, 2^(-n))
RECURSIVE InBoth(_, _)
InBoth(a, b) ==
  IF {a, b} \subseteq {0, -1} THEN (IF a = b THEN a ELSE 0)
  ELSE 2 * InBoth(Rounded(a, 2), Rounded(b, 2)) + (a % 2) * (b % 2)
Arithmetic(name, a, b) ==
  CASE name = "+" -> Num(a + b) [] name = "-" -> Num(a - b) [] name = "*" -> Num(a * b) [] name = "**" -> Num(IF b = 0 THEN 1 ELSE a^b)
    [] name \in {"/", "div"} -> Num(Rounded(a, b)) [] name \in {"%", "modulo"} -> Num(a - b * Rounded(a, b))
    [] name = "<<" -> Num(Shifted(a, b)) [] name = ">>" -> Num(Shifted(a, -b)) [] name = "[]" -> Num(Shifted(a, -b) % 2)
    [] name = "&" -> Num(InBoth(a, b)) [] name = "|" -> Num(a + b - InBoth(a, b)) [] name = "^" -> Num(a + b - 2 * InBoth(a, b))
    [] name \in {"==", "==="} -> Bool(a = b) [] name = "!=" -> Bool(a # b) [] name = "<=>" -> Num(IF a < b THEN -1 ELSE IF a > b THEN 1 ELSE 0)
    [] name = "<" -> Bool(a < b) [] name = "<=" -> Bool(a <= b) [] name = ">" -> Bool(a > b) [] name = ">=" -> Bool(a >= b)
Arithmetics == {"+", "-", "*", "**", "/", "div", "%", "modulo", "<<", ">>", "[]", "&", "|", "^", "==", "===", "!=", "<=>", "<", "<=", ">", ">="}
TwoResults(w, a, b) == LET n == NewArray(w, <<Num(a), Num(b)>>) IN Val(LastArray(n), n)
Calculation(w, name, a, b) ==
  CASE b = 0 /\ name \in {"/", "div", "%", "modulo", "divmod"} -> Raised("ZeroDivisionError", w)
    [] name = "coerce" -> TwoResults(w, b, a)
    [] b # 0 /\ name = "divmod" -> TwoResults(w, Rounded(a, b), a - b * Rounded(a, b))
    [] OTHER -> Val(Arithmetic(name, a, b), w)
Sums(recv, name, args) ==
  Whole(recv) /\ Len(args) = 1 /\ name \in Arithmetics \cup {"divmod", "coerce"} /\ Whole(args[1])

(* The methods of the library that are about classes, blocks and ways out.  *)
Made(w, recv, args, blk) ==
  LET w1 == [w EXCEPT !.objects = @ + 1]
      v == <<"obj", recv[2], w.objects + 1>>
      init == Method(w, v, "initialize")
  IN CASE init # Missing -> Then(CallMethod(w1, init, v, args, blk), LAMBDA x, w2: Val(v, w2))
       [] OTHER -> IF args = <<>> THEN Val(v, w1) ELSE Raised("ArgumentError", w1)
CatchBlock(w, name, blk) ==
  LET r == [CallBlock([w EXCEPT !.catches = @ \union {name}], blk, <<>>, Nil) EXCEPT !.w.catches = w.catches]
  IN IF r.k = "throw" /\ r.tag = name THEN Val(r.v, r.w) ELSE r
Plain(w, v) == v[1] = "class" /\ w.classes[v[2]].kind = "module"
Includes(w, c, m) ==
  IF c \in ToSet(Chain(w, m)) THEN Raised("ArgumentError", w) ELSE Val(c, Add(w, c, Chain(w, c[2]), m))
(* What a module has of its own can be taken away.                          *)
Removed(w, recv, how, name) ==
  LET kind == [remove_const |-> "consts", remove_method |-> "methods", remove_class_variable |-> "cvars"][how]
      own  == Table(w, recv)[kind]
      gone == IF name \in DOMAIN own THEN [w EXCEPT !.classes[recv[2]] = (kind :> [n \in DOMAIN own \ {name} |-> own[n]]) @@ @] ELSE w
  IN CASE name \notin DOMAIN own -> Raised("NameError", w)
       [] name \in DOMAIN own /\ how = "remove_method" -> IF own[name].kind = "undef" THEN Raised("NameError", w) ELSE Val(recv, gone)
       [] OTHER -> Val(own[name], gone)
Library(w, recv, name, args, blk) ==
  CASE recv[1] = "proc" /\ name = "call" -> CallBlock(w, recv, args, blk)
    [] Sums(recv, name, args) -> Calculation(w, name, recv[2], args[1][2])
    [] Whole(recv) /\ name = "-@" -> Val(Num(-recv[2]), w)
    [] name \in {"lambda", "proc"} ->
         LET n == NewProc(w, [w.procs[blk[2]] EXCEPT !.lambda = name = "lambda"]) IN Val(ProcValue(n), n)
    [] name = "catch" -> CatchBlock(w, args[1], blk)
    [] name = "throw" -> IF args[1] \in w.catches THEN Result("throw", Padded(args, 2)[2], w, args[1]) ELSE Raised("ArgumentError", w)
    [] name = "new" /\ recv[1] = "class" -> Made(w, recv, args, blk)
    [] name = "include" -> IF Plain(w, args[1]) THEN Includes(w, IF recv = MainObject THEN Class("Object") ELSE recv, args[1][2]) ELSE Raised("TypeError", w)
    [] name = "extend"  -> IF Plain(w, args[1]) THEN Val(recv, Add(w, Single(recv), Lineage(w, recv), args[1][2])) ELSE Raised("TypeError", w)
    [] name = "is_a?"   -> IF args[1][1] = "class" THEN Val(Bool(IsA(w, recv, args[1][2])), w) ELSE Raised("TypeError", w)
    [] name = "===" /\ recv[1] = "class" -> Val(Bool(IsA(w, args[1], recv[2])), w)
    [] recv[1] = "class" /\ name \in {"remove_const", "remove_method", "remove_class_variable"} -> Removed(w, recv, name, args[1][2])
    [] OTHER -> FromWorld(Primitive(w, recv, name, args))

(* A method that is missing or undefined is method_missing's.               *)
Dispatch(w, m, recv, name, args, blk) ==
  LET r == IF m.kind = "undef" THEN Raised("NoMethodError", w) ELSE Library(w, recv, name, args, blk)
      missing == Method(w, recv, "method_missing")
  IN IF m.kind = "user" THEN CallMethod(w, m, recv, args, blk)
     ELSE IF r.k = "error" /\ r.v = Exc("NoMethodError") /\ r.w = w /\ missing.kind = "user" /\ name # "method_missing"
     THEN CallMethod(w, missing, recv, <<Sym(name)>> \o args, blk) ELSE r
Call(w, recv, name, args, blk) == Dispatch(w, Method(w, recv, name), recv, name, args, blk)

(* A call with a block: a break in the block ends this call.                *)
Closure(b, e, cid, lambda) ==
  [params |-> b.params, body |-> b.body, lambda |-> lambda, cid |-> cid, shared |-> FALSE,
   e |-> [e EXCEPT !.bind = [n \in b.outer |-> Resolve(e, n)]]]
WithBlock(blk, e, w, F(_, _)) ==
  CASE blk.t = "none" -> F(Nil, w)
    [] blk.t = "blockpass" ->
         Then(Eval(blk.expr, e, w), LAMBDA v, w1: IF v = Nil \/ v[1] = "proc" THEN F(v, w1) ELSE Raised("TypeError", w1))
    [] OTHER -> LET w1 == Activate(w)
                    id == w1.interps
                    w2 == NewProc(w1, Closure(blk, e, id, FALSE))
                IN Deactivate(Caught(F(ProcValue(w2), w2), {"break"}, id), id)

CallPhrase(p, recv, e, w) ==
  Then(EvalAll(p.args, e, w), LAMBDA args, w1:
    WithBlock(p.blk, e, w1, LAMBDA blk, w2: Call(w2, recv, p.name, args, blk)))

SuperCall(args, blk, e, w) ==
  Dispatch(w, Lookup(w, After(Lineage(w, e.self), e.place), e.mname), e.self, e.mname, args, blk)

(* super without arguments passes the method's parameters on, as they are.  *)
Passed(e, w) ==
  FoldLeft(LAMBDA s, a: CASE a.t = "rest" -> s \o Items(w, Read(e, w, a.name)) [] a.t = "blockarg" -> s
                          [] OTHER -> Append(s, Read(e, w, a.name)), <<>>, e.params)

-----------------------------------------------------------------------------
(* Assignment.                                                              *)

Assign(x, v, e, w) ==
  CASE x.t \in {"lvar", "plocal"} -> Val(v, Write(e, w, x.name, v))
    [] x.t = "ivar" -> Val(v, SetVar(w, e.self, x.name, v))
    [] x.t = "gvar" -> IF x.name \in DOMAIN ReadonlyGlobals THEN Raised("NameError", w) ELSE Val(v, SetVar(w, Global, x.name, v))
    [] x.t = "cvar" -> Val(v, SetClassVar(w, Within(e), x.name, v))
    [] x.t = "cname" -> Val(v, SetConst(w, Within(e), x.name, v))
    [] x.t = "colon3" -> Val(v, SetConst(w, "Object", x.name, v))
    [] x.t = "colon2" -> Then(Eval(x.scope, e, w), LAMBDA c, w1: Val(v, SetConst(w1, c[2], x.name, v)))
    [] x.t = "attr" -> Then(Eval(x.recv, e, w), LAMBDA r, w1: Call(w1, r, x.name \o "=", <<v>>, Nil))
    [] x.t = "index" -> Then(EvalAll(<<x.recv>> \o x.args, e, w), LAMBDA rs, w1: Call(w1, Head(rs), "[]=", Append(Tail(rs), v), Nil))
    [] x.t = "msplat" -> IF x.target.t = "none" THEN Val(v, w) ELSE Assign(x.target, v, e, w)
    [] x.t = "mlhs" -> LET c == Coerced(w, v, FALSE) IN AssignAll(x.targets, Items(c.world, c.value), e, c.world)

(* The splat takes what the other targets leave.                            *)
AssignAll(targets, items, e, w) ==
  IF targets = <<>> THEN Val(Nil, w)
  ELSE LET full == Padded(items, 1)
           n    == Max({Len(items) - Len(Tail(targets)), 0})
           rest == NewArray(w, SubSeq(items, 1, n))
       IN IF Head(targets).t = "msplat"
          THEN Then(Assign(Head(targets), LastArray(rest), e, rest), LAMBDA v, w1:
                 AssignAll(Tail(targets), SubSeq(items, n + 1, Len(items)), e, w1))
          ELSE Then(Assign(Head(targets), Head(full), e, w), LAMBDA v, w1: AssignAll(Tail(targets), Tail(full), e, w1))

(* The value of a plain target is computed after its receiver, the values of *)
(* a list make an array.                                                    *)
AssignPhrase(x, value, e, w) ==
  CASE x.t = "attr"  -> Then(EvalAll(<<x.recv, value>>, e, w), LAMBDA vs, w1: Call(w1, vs[1], x.name \o "=", <<vs[2]>>, Nil))
    [] x.t = "index" -> Then(EvalAll(<<x.recv>> \o x.args \o <<value>>, e, w), LAMBDA vs, w1: Call(w1, Head(vs), "[]=", Tail(vs), Nil))
    [] OTHER -> Then(Eval(value, e, w), LAMBDA v, w1: Assign(x, v, e, w1))

(* x op= value: the receiver and the indices are computed once.             *)
Operated(op, old, value, e, w, Store(_, _)) ==
  CASE op \in {"||", "&&"} -> IF IsTrue(old) = (op = "&&") THEN Then(Eval(value, e, w), Store) ELSE Val(old, w)
    [] OTHER -> Then(Eval(value, e, w), LAMBDA v, w1: Then(Call(w1, old, op, <<v>>, Nil), Store))
OpAssignPhrase(p, e, w) ==
  LET x == p.target
  IN CASE x.t = "attr" ->
            Then(Eval(x.recv, e, w), LAMBDA r, w1: Then(Call(w1, r, x.name, <<>>, Nil), LAMBDA old, w2:
              Operated(p.op, old, p.value, e, w2, LAMBDA v, w3: Call(w3, r, x.name \o "=", <<v>>, Nil))))
       [] x.t = "index" ->
            Then(EvalAll(<<x.recv>> \o x.args, e, w), LAMBDA rs, w1: Then(Call(w1, Head(rs), "[]", Tail(rs), Nil), LAMBDA old, w2:
              Operated(p.op, old, p.value, e, w2, LAMBDA v, w3: Call(w3, Head(rs), "[]=", Append(Tail(rs), v), Nil))))
       [] OTHER -> LET old == CASE x.t = "lvar" -> Val(Read(e, w, x.name), w) [] x.t = "ivar" -> Val(GetVar(w, e.self, x.name), w)
                                [] x.t = "gvar" -> Val(GlobalVar(w, x.name), w) [] x.t = "cvar" -> ClassVar(w, Within(e), x.name)
                   IN Then(old, LAMBDA o, w1: Operated(p.op, o, p.value, e, w1, LAMBDA v, w2: Assign(x, v, e, w2)))

-----------------------------------------------------------------------------
(* Control.                                                                 *)

While(p, e, w) ==
  Then(Eval(p.cond, e, w), LAMBDA v, w1:
    IF IsTrue(v) = (p.t \in {"until", "untilmod"}) THEN Val(Nil, w1)
    ELSE LET r == Eval(p.body, [e EXCEPT !.inloop = TRUE], w1)
         IN CASE r.k \in {"value", "loopnext"} -> While(p, e, r.w) [] r.k = "loopbreak" -> Val(r.v, r.w) [] OTHER -> r)

(* The first handler of a class of the error; the error is its target.      *)
Try(handlers, r, e, w) ==
  IF handlers = <<>> THEN r
  ELSE LET h == Head(handlers)
       IN IF h.classes = <<>> \/ \E i \in 1..Len(h.classes) : IsA(w, r.v, Eval(h.classes[i], e, w).v[2])
          THEN Then(IF h.target.t = "none" THEN Val(Nil, w) ELSE Assign(h.target, r.v, e, w),
                    LAMBDA v, w1: EvalOptional(h.body, e, w1))
          ELSE Try(Tail(handlers), r, e, w)

(* The first when with a test that is true of the value; without a value, a *)
(* test that is true.                                                       *)
Tests(whens) == FlattenSeq([i \in 1..Len(whens) |-> [j \in 1..Len(whens[i].conds) |-> <<whens[i].conds[j], whens[i].body>>]])
Choose(tests, subject, els, e, w) ==
  IF tests = <<>> THEN EvalOptional(els, e, w)
  ELSE Then(Eval(Head(tests)[1], e, w), LAMBDA t, w1:
         Then(IF subject = <<>> THEN Val(t, w1) ELSE Call(w1, t, "===", subject, Nil), LAMBDA hit, w2:
           IF IsTrue(hit) THEN EvalOptional(Head(tests)[2], e, w2) ELSE Choose(Tail(tests), subject, els, e, w2)))

(* Whatever way the body ends, the ensure clause runs, and that way goes on. *)
Ensured(r, ens, e) == IF ens.t = "none" THEN r ELSE Then(Eval(ens, e, r.w), LAMBDA v, w: [r EXCEPT !.w = w])
Begin(p, e, w) ==
  LET r == EvalOptional(p.body, e, w)
  IN Ensured(CASE r.k = "error" -> Try(p.handlers, r, e, r.w)
               [] r.k = "value" /\ p.els.t # "none" -> Eval(p.els, e, r.w)
               [] OTHER -> r, p.ens, e)

(* Where a break, a next and a return go; a break whose call has ended is   *)
(* an error.                                                                *)
Leave(kind, args, e, w) ==
  LET value == CASE args = <<>> -> Val(Nil, w) [] Len(args) = 1 -> Eval(args[1], e, w)
                 [] OTHER -> Eval([t |-> "array", items |-> args], e, w)
      Out(v, w1) ==
        CASE kind = "return" -> Result("return", v, w1, e.home)
          [] kind = "next"   -> Result(IF e.inloop THEN "loopnext" ELSE "next", v, w1, 0)
          [] kind = "break" /\ e.inloop -> Result("loopbreak", v, w1, 0)
          [] kind = "break" /\ ~e.inloop -> IF e.cid \in w1.active THEN Result("break", v, w1, e.cid) ELSE Raised("LocalJumpError", w1)
  IN Then(value, Out)

(* The body of a class or module: a scope of its own, the module its self.  *)
Body(body, v, place, e, w) ==
  LET w1 == OpenScope(w)
  IN EvalOptional(body, [e EXCEPT !.self = v, !.own = Len(w1.scopes), !.bind = <<>>, !.scope = Append(@, place), !.inloop = FALSE], w1)

(* A class or module is opened again, if it is what the text says.          *)
Container(path, e, w) ==
  CASE path.t = "cname" -> Val(Class(Within(e)), w) [] path.t = "colon3" -> Val(Class("Object"), w) [] OTHER -> Eval(path.scope, e, w)
Defined(p, super, scope, e, w) ==
  LET known == ConstIn(w, <<scope>>, p.path.name)
      id    == NameIn(scope[2], p.path.name)
      above == IF super = Nil THEN "Object" ELSE super[2]
      new   == IF p.t = "class" THEN ClassRecord("class", above, "") ELSE ClassRecord("module", "", "")
      fits  == known[1][1] = "class" /\ w.classes[known[1][2]].kind = p.t /\ (super = Nil \/ w.classes[known[1][2]].super = super[2])
  IN IF known = <<>>
     THEN IF super # Nil /\ (super[1] # "class" \/ w.classes[super[2]].kind # "class") THEN Raised("TypeError", w)
          ELSE Body(p.body, Class(id), Class(id), e, SetConst([w EXCEPT !.classes = (id :> new) @@ @], scope[2], p.path.name, Class(id)))
     ELSE IF fits THEN Body(p.body, known[1], known[1], e, w) ELSE Raised("TypeError", w)
ModulePhrase(p, e, w) ==
  Then(Container(p.path, e, w), LAMBDA scope, w1:
    Then(IF p.t = "class" THEN EvalOptional(p.super, e, w1) ELSE Val(Nil, w1), LAMBDA super, w2:
      IF scope[1] = "class" THEN Defined(p, super, scope, e, w2) ELSE Raised("TypeError", w2)))

(* Methods: of the place the text stands in, of one value.                  *)
NewMethod(w, place, p, e) ==
  LET t == Table(w, place)
      m == [kind |-> "user", name |-> p.name, params |-> p.params, body |-> p.body, scope |-> e.scope]
  IN Changed(w, place, [t EXCEPT !.methods = (p.name :> m) @@ @])
Alone(v) == v[1] \in {"sym", "int"}

(* alias and undef, where the text stands.                                  *)
PlaceLineage(w, place) == IF place[1] = "class" THEN Chain(w, place[2]) \o Chain(w, "Object") ELSE Lineage(w, place[2])
Rename(w, place, new, old) ==
  LET m == Lookup(w, PlaceLineage(w, place), old)
      t == Table(w, place)
  IN IF m.kind # "user" THEN Raised("NameError", w)
     ELSE Val(Nil, Changed(w, place, [t EXCEPT !.methods = (new :> [f \in DOMAIN m \ {"place"} |-> m[f]]) @@ @]))
Undefine(w, place, name) ==
  LET t == Table(w, place)
  IN IF Lookup(w, PlaceLineage(w, place), name).kind # "user" THEN Raised("NameError", w)
     ELSE Val(Nil, Changed(w, place, [t EXCEPT !.methods = (name :> UndefMethod(name)) @@ @]))

(* defined?: what kind of phrase it is, nil if it has no value here.        *)
Kind(text, is, w) == Val(IF is THEN Str(text) ELSE Nil, w)
IsDefined(p, e, w) ==
  CASE p.t \in {"asgn", "opasgn", "masgn"} -> Kind("assignment", TRUE, w)
    [] p.t = "Self" -> Kind("self", TRUE, w)
    [] p.t = "id" /\ p.var -> Kind("local-variable", TRUE, w)
    [] p.t = "id" /\ ~p.var -> Kind("method", Method(w, e.self, p.name).kind = "user", w)
    [] p.t = "fcall" -> Kind("method", Method(w, e.self, p.name).kind = "user", w)
    [] p.t = "attr"  -> Then(Eval(p.recv, e, w), LAMBDA v, w1: Kind("method", Method(w1, v, p.name).kind = "user", w1))
    [] p.t = "ivar"  -> Kind("instance-variable", HasVar(w, e.self, p.name), w)
    [] p.t = "gvar"  -> Kind("global-variable", p.name \in DOMAIN ReadonlyGlobals \/ HasVar(w, Global, p.name), w)
    [] p.t = "cvar"  -> Kind("class variable", VarOwner(w, Within(e), p.name) # <<>>, w)
    [] p.t = "Constant" -> Kind("constant", LexicalConst(w, e, p.name) # <<>>, w)
    [] p.t = "colon3" -> Kind("constant", ConstIn(w, Chain(w, "Object"), p.name) # <<>>, w)
    [] p.t = "colon2" -> Then(Eval(p.scope, e, w), LAMBDA v, w1: Kind("constant", ConstIn(w1, Chain(w1, v[2]), p.name) # <<>>, w1))
    [] p.t = "yield" -> Kind("yield", e.blk # Nil, w)
    [] p.t \in {"super", "zsuper"} -> Kind("super", Lookup(w, After(Lineage(w, e.self), e.place), e.mname).kind = "user", w)
    [] OTHER -> Kind("expression", TRUE, w)

(* Strings: what stands between the quotes, each value asked for its string. *)
Put(r, part, e) ==
  Then(r, LAMBDA s, w:
    IF part.t = "content" THEN Val(s \o part.text, w)
    ELSE IF part.stmts = <<>> THEN Val(s, w)
    ELSE Then(Eval([t |-> "seq", stmts |-> part.stmts], e, w), LAMBDA v, w1:
           Then(Call(w1, v, "to_s", <<>>, Nil), LAMBDA x, w2: Val(s \o x[2], w2))))
Contents(parts, e, w) == FoldLeft(LAMBDA r, part: Put(r, part, e), Val("", w), parts)

(* A hash: the pairs stand one after the other, the last of a key counts.   *)
HashOf(items, e, w) ==
  Then(EvalAll(items, e, w), LAMBDA vs, w1:
    LET pairs == FoldLeft(LAMBDA h, i: Associated(h, vs[2 * i - 1], vs[2 * i]), <<>>, [i \in 1..(Len(vs) \div 2) |-> i])
        n == NewHash(w1)
    IN Val(LastHash(n), [n EXCEPT !.hashes[Len(n.hashes)] = pairs]))

(* for: each with a block that shares all its names.                        *)
For(p, e, w) ==
  Then(Eval(p.coll, e, w), LAMBDA v, w1:
    WithBlock([t |-> "block", params |-> <<>>, body |-> p.body, outer |-> {}], e, w1, LAMBDA blk, w2:
      Call([w2 EXCEPT !.procs[blk[2]] = [t |-> "block", params |-> <<>>, body |-> p.body, lambda |-> FALSE, cid |-> @.cid,
                                         shared |-> TRUE, target |-> p.target, e |-> e]], v, "each", <<>>, blk)))

EvalOptional(p, e, w) == IF p.t = "none" THEN Val(Nil, w) ELSE Eval(p, e, w)

Eval(p, e, w) ==
  CASE p.t = "value" -> Val(p.value, w)
    [] p.t = "number" -> Val(Num(p.value), w)
    [] p.t = "Self"  -> Val(e.self, w)
    [] p.t = "ivar"  -> Val(GetVar(w, e.self, p.name), w)
    [] p.t = "gvar"  -> Val(GlobalVar(w, p.name), w)
    [] p.t = "cvar"  -> ClassVar(w, Within(e), p.name)
    [] p.t = "Constant" -> ConstOr(LexicalConst(w, e, p.name), Within(e), p.name, w)
    [] p.t = "colon3" -> ConstOr(ConstIn(w, Chain(w, "Object"), p.name), "Object", p.name, w)
    [] p.t = "colon2" -> Then(Eval(p.scope, e, w), LAMBDA v, w1:
                           IF v[1] = "class" THEN ConstOr(ConstIn(w1, Chain(w1, v[2]), p.name), v[2], p.name, w1) ELSE Raised("TypeError", w1))
    [] p.t = "id"    -> IF p.var THEN Val(Read(e, w, p.name), w) ELSE Call(w, e.self, p.name, <<>>, Nil)
    [] p.t = "seq"   -> FoldLeft(LAMBDA r, s: Then(r, LAMBDA v, w1: Eval(s, e, w1)), Val(Nil, w), p.stmts)
    [] p.t \in {"if", "elsif", "unless", "ternary"} ->
         Then(Eval(p.cond, e, w), LAMBDA v, w1: EvalOptional(IF IsTrue(v) # (p.t = "unless") THEN p.body ELSE p.els, e, w1))
    [] p.t \in {"ifmod", "unlessmod"} ->
         Then(Eval(p.cond, e, w), LAMBDA v, w1: IF IsTrue(v) # (p.t = "unlessmod") THEN Eval(p.body, e, w1) ELSE Val(Nil, w1))
    [] p.t \in {"while", "whilemod", "until", "untilmod"} -> While(p, e, w)
    [] p.t = "and"   -> Then(Eval(p.lhs, e, w), LAMBDA v, w1: IF IsTrue(v) THEN Eval(p.rhs, e, w1) ELSE Val(v, w1))
    [] p.t = "or"    -> Then(Eval(p.lhs, e, w), LAMBDA v, w1: IF IsTrue(v) THEN Val(v, w1) ELSE Eval(p.rhs, e, w1))
    [] p.t = "is"    -> Then(EvalAll(<<p.lhs, p.rhs>>, e, w), LAMBDA vs, w1: Val(Bool(vs[1] = vs[2]), w1))
    [] p.t = "binary" -> Then(EvalAll(<<p.lhs, p.rhs>>, e, w), LAMBDA vs, w1: Call(w1, vs[1], p.op, <<vs[2]>>, Nil))
    [] p.t = "unary" -> Then(Eval(p.expr, e, w), LAMBDA v, w1: Call(w1, v, p.op, <<>>, Nil))
    [] p.t = "negpow" -> Then(EvalAll(<<p.lhs, p.rhs>>, e, w), LAMBDA vs, w1:
                           Then(Call(w1, vs[1], "**", <<vs[2]>>, Nil), LAMBDA v, w2: Call(w2, v, "-@", <<>>, Nil)))
    [] p.t \in {"dot2", "dot3"} -> Then(EvalAll(<<p.lhs, p.rhs>>, e, w), LAMBDA vs, w1: Val(<<"range", vs[1], vs[2], Bool(p.t = "dot3")>>, w1))
    [] p.t = "defined" -> IsDefined(p.expr, e, w)
    [] p.t = "not"   -> Then(Eval(p.expr, e, w), LAMBDA v, w1: Call(w1, v, "!", <<>>, Nil))
    [] p.t = "asgn"  -> AssignPhrase(p.target, p.value, e, w)
    [] p.t = "asgnlist" -> AssignPhrase(p.target, [t |-> "array", items |-> p.values], e, w)
    [] p.t = "asgnrescue" -> AssignPhrase(p.target, [t |-> "rescuemod", body |-> p.value, alt |-> p.alt], e, w)
    [] p.t = "opasgn" -> OpAssignPhrase(p, e, w)
    [] p.t = "opasgnrescue" -> OpAssignPhrase([p EXCEPT !.value = [t |-> "rescuemod", body |-> p.value, alt |-> p.alt]], e, w)
    [] p.t = "masgnlist" -> Eval([t |-> "masgn", targets |-> p.targets, value |-> [t |-> "array", items |-> p.values]], e, w)
    [] p.t = "masgn" -> Then(Eval(p.value, e, w), LAMBDA v, w1:
                          LET c == Coerced(w1, v, FALSE)
                          IN Then(AssignAll(p.targets, Items(c.world, c.value), e, c.world), LAMBDA x, w2: Val(v, w2)))
    [] p.t \in {"call", "cmd"} -> Then(Eval(p.recv, e, w), LAMBDA r, w1: CallPhrase(p, r, e, w1))
    [] p.t \in {"fcall", "fcmd"} -> CallPhrase(p, e.self, e, w)
    [] p.t = "attr"  -> Then(Eval(p.recv, e, w), LAMBDA r, w1: Call(w1, r, p.name, <<>>, Nil))
    [] p.t = "index" -> Then(EvalAll(<<p.recv>> \o p.args, e, w), LAMBDA vs, w1: Call(w1, Head(vs), "[]", Tail(vs), Nil))
    [] p.t = "super" -> Then(EvalAll(p.args, e, w), LAMBDA args, w1:
                          IF p.blk.t = "none" THEN SuperCall(args, e.blk, e, w1)
                          ELSE WithBlock(p.blk, e, w1, LAMBDA blk, w2: SuperCall(args, blk, e, w2)))
    [] p.t = "zsuper" -> SuperCall(Passed(e, w), e.blk, e, w)
    [] p.t = "yield" -> Then(EvalAll(p.args, e, w), LAMBDA args, w1:
                          IF e.blk = Nil THEN Raised("LocalJumpError", w1) ELSE CallBlock(w1, e.blk, args, Nil))
    [] p.t \in {"return", "break", "next"} -> Leave(p.t, p.args, e, w)
    [] p.t = "case"  -> IF p.cond.t = "none" THEN Choose(Tests(p.whens), <<>>, p.els, e, w)
                        ELSE Then(Eval(p.cond, e, w), LAMBDA v, w1: Choose(Tests(p.whens), <<v>>, p.els, e, w1))
    [] p.t = "begin" -> Begin(p, e, w)
    [] p.t = "rescuemod" -> LET r == Eval(p.body, e, w) IN IF r.k = "error" THEN Eval(p.alt, e, r.w) ELSE r
    [] p.t = "array" -> Then(EvalAll(p.items, e, w), LAMBDA vs, w1: LET n == NewArray(w1, vs) IN Val(LastArray(n), n))
    [] p.t = "splat" -> Then(Eval(p.expr, e, w), LAMBDA v, w1: LET c == Coerced(w1, v, TRUE) IN Val(c.value, c.world))
    [] p.t = "lambda" -> LET n == NewProc(w, Closure(p, e, 0, TRUE)) IN Val(ProcValue(n), n)
    [] p.t \in {"hash", "assocs"} -> HashOf(p.items, e, w)
    [] p.t = "words" -> Eval([t |-> "array", items |-> p.items], e, w)
    [] p.t = "string" -> Then(Contents(p.parts, e, w), LAMBDA s, w1: Val(Str(s), w1))
    [] p.t = "strings" -> Then(Contents(Each(p.strs, LAMBDA x: x.parts), e, w), LAMBDA s, w1: Val(Str(s), w1))
    [] p.t = "dsym"  -> Then(Contents(p.parts, e, w), LAMBDA s, w1: Val(Sym(s), w1))
    [] p.t = "xstring" -> Then(Contents(p.parts, e, w), LAMBDA s, w1: Call(w1, e.self, "backquote", <<Str(s)>>, Nil))
    [] p.t = "File"  -> Val(Str("-e"), w)
    [] p.t = "def"   -> Val(Nil, NewMethod(w, Place(e), p, e))
    [] p.t = "defs"  -> Then(Eval(p.singleton, e, w), LAMBDA v, w1: IF Alone(v) THEN Raised("TypeError", w1) ELSE Val(Nil, NewMethod(w1, Single(v), p, e)))
    [] p.t \in {"class", "module"} -> ModulePhrase(p, e, w)
    [] p.t = "sclass" -> Then(Eval(p.expr, e, w), LAMBDA v, w1:
                           IF Alone(v) THEN Raised("TypeError", w1) ELSE Body(p.body, <<"singleton", v>>, Single(v), e, w1))
    [] p.t = "alias" -> Then(EvalAll(<<p.new, p.old>>, e, w), LAMBDA vs, w1: Rename(w1, Place(e), vs[1][2], vs[2][2]))
    [] p.t = "undef" -> Then(Eval(p.name, e, w), LAMBDA v, w1: Undefine(w1, Place(e), v[2]))
    [] p.t = "for"   -> For(p, e, w)

(* The program, with the answers the outside world gave.                    *)
RunProgram(p, answers) ==
  Eval(p, [self |-> MainObject, own |-> 1, bind |-> <<>>, home |-> 0, cid |-> 0, inloop |-> FALSE, blk |-> Nil, scope |-> <<>>,
           place |-> Class("Object"), mname |-> "", params |-> <<>>], OpenScope([EmptyWorld EXCEPT !.answers = answers]))
=============================================================================
