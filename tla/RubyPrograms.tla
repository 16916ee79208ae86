---------------------------- MODULE RubyPrograms ----------------------------
(* The programs that are compiled and run: trees of phrases, as the parser  *)
(* reads them.  c(k) is a call into the outside world.                      *)
EXTENDS RubyWorld, TLC

None == [t |-> "none"]
P(tag) == [t |-> tag]

(* Phrases.                                                                 *)
V(v)      == [t |-> "value", value |-> v]
I(i)      == V(Num(i))
X(n)      == [t |-> "id", name |-> n, var |-> TRUE]
Bare(n)   == [t |-> "id", name |-> n, var |-> FALSE]
Self      == P("Self")
G(n)      == [t |-> "gvar", name |-> n]
IV(n)     == [t |-> "ivar", name |-> n]
C(n)      == [t |-> "Constant", name |-> n]
Lv(n)     == [t |-> "lvar", name |-> n]
Do(s)     == [t |-> "seq", stmts |-> s]
F(n, args) == [t |-> "fcall", name |-> n, args |-> args, blk |-> None]
FB(n, args, b) == [t |-> "fcall", name |-> n, args |-> args, blk |-> b]
Call(r, n, args) == [t |-> "call", recv |-> r, name |-> n, args |-> args, blk |-> None]
CallB(r, n, args, b) == [t |-> "call", recv |-> r, name |-> n, args |-> args, blk |-> b]
Binary(a, op, b) == [t |-> "binary", lhs |-> a, op |-> op, rhs |-> b]
Plus(a, b) == Binary(a, "+", b)
Less(a, b) == Binary(a, "<", b)
Set(x, v) == [t |-> "asgn", target |-> x, value |-> v]
OpSet(x, op, v) == [t |-> "opasgn", target |-> x, op |-> op, value |-> v]
MSet(xs, v) == [t |-> "masgn", targets |-> xs, value |-> v]
Star(x)   == [t |-> "msplat", target |-> x]
Pat(xs)   == [t |-> "mlhs", targets |-> xs]
Arr(s)    == [t |-> "array", items |-> s]
Splat(x)  == [t |-> "splat", expr |-> x]
Pass(x)   == [t |-> "blockpass", expr |-> x]
At(r, i)  == [t |-> "index", recv |-> r, args |-> <<i>>]
Attr(r, n) == [t |-> "attr", recv |-> r, name |-> n]
And(a, b) == [t |-> "and", lhs |-> a, rhs |-> b]
Or(a, b)  == [t |-> "or", lhs |-> a, rhs |-> b]
Not(a)    == [t |-> "not", expr |-> a]
IfElse(c, a, b) == [t |-> "if", cond |-> c, body |-> a, els |-> b]
Unless(c, a, b) == [t |-> "unless", cond |-> c, body |-> a, els |-> b]
IfMod(c, a) == [t |-> "ifmod", cond |-> c, body |-> a]
WhileDo(c, b) == [t |-> "while", cond |-> c, body |-> b]
UntilDo(c, b) == [t |-> "until", cond |-> c, body |-> b]
Modified(tag, c, b) == [t |-> tag, cond |-> c, body |-> b]
Rescue(b, hs) == [t |-> "begin", body |-> b, handlers |-> hs, els |-> None, ens |-> None]
Ensure(b, x)  == [t |-> "begin", body |-> b, handlers |-> <<>>, els |-> None, ens |-> x]
RescueMod(b, x) == [t |-> "rescuemod", body |-> b, alt |-> x]
On(cs, x, b)  == [t |-> "handler", classes |-> cs, target |-> x, body |-> b]
CaseOf(c, ws, e) == [t |-> "case", cond |-> c, whens |-> ws, els |-> e]
When(cs, b) == [t |-> "when", conds |-> cs, body |-> b]
Return(args) == [t |-> "return", args |-> args]
Break(args)  == [t |-> "break", args |-> args]
Skip(args)   == [t |-> "next", args |-> args]
Yield(args)  == [t |-> "yield", args |-> args]
Super(args)  == [t |-> "super", args |-> args, blk |-> None]
SuperB(args, b) == [t |-> "super", args |-> args, blk |-> b]
Def(n, ps, b) == [t |-> "def", name |-> n, params |-> ps, body |-> b]
Blk(ps, outer, b) == [t |-> "block", params |-> ps, outer |-> outer, body |-> b]
Lambda(ps, outer, b) == [t |-> "lambda", params |-> ps, outer |-> outer, body |-> b]
Cname(n)  == [t |-> "cname", name |-> n]
InScope(c, n) == [t |-> "colon2", scope |-> c, name |-> n]
TopConst(n) == [t |-> "colon3", name |-> n]
ClassAt(path, s, b) == [t |-> "class", path |-> path, super |-> s, body |-> b]
ClassDef(n, s, b) == ClassAt(Cname(n), IF s = "" THEN None ELSE C(s), b)
ModuleDef(n, b) == [t |-> "module", path |-> Cname(n), body |-> b]
Reopen(x, b) == [t |-> "sclass", expr |-> x, body |-> b]
Defs(x, n, ps, b) == [t |-> "defs", singleton |-> x, name |-> n, params |-> ps, body |-> b]
CV(n)     == [t |-> "cvar", name |-> n]
Q(s)      == [t |-> "content", text |-> s]
It(s)     == [t |-> "interp", stmts |-> s]
S(parts)  == [t |-> "string", parts |-> parts]
Symbol(n) == [t |-> "dsym", parts |-> <<Q(n)>>]
Alias(new, old) == [t |-> "alias", new |-> Symbol(new), old |-> Symbol(old)]
Undef(n)  == [t |-> "undef", name |-> Symbol(n)]
Pairs(tag, items) == [t |-> tag, items |-> items]
Is(a, b)  == [t |-> "is", lhs |-> a, rhs |-> b]
Defined(x) == [t |-> "defined", expr |-> x]
New(c, args) == Call(C(c), "new", args)
For(x, c, b) == [t |-> "for", target |-> x, coll |-> c, body |-> b]
Req(n)    == [t |-> "req", name |-> n]
Opt(n, d) == [t |-> "opt", name |-> n, defl |-> d]
Rest(n)   == [t |-> "rest", name |-> n]
Blockarg(n) == [t |-> "blockarg", name |-> n]
Bvar(n)   == [t |-> "bvar", name |-> n]
Ploc(n)   == [t |-> "plocal", name |-> n]
Mparam(xs) == [t |-> "mparam", targets |-> xs]
Out(k)    == F("c", <<V(<<"sym", k>>)>>)
Fail(c)   == F("raise", <<V(Exc(c))>>)

-----------------------------------------------------------------------------
(* Nests of control: every way out, under every pair or triple of           *)
(* constructs, where a statement stands; under every pair also where an     *)
(* operand stands, with the operand before it pending.                      *)
AsOperand(way) == Set(IV("x"), Or(Out("o"), Do(<<way>>)))

Ways == <<Out("x"), Return(<<I(3)>>), Fail("E1"), Break(<<I(1)>>), Skip(<<I(2)>>)>>
Wrap(kind, s, d) ==
  CASE kind = "while"  -> WhileDo(Out("w" \o d), Do(<<s, Out("e" \o d)>>))
    [] kind = "block"  -> FB("twice", <<>>, Blk(<<>>, {}, Do(<<s, Out("b" \o d)>>)))
    [] kind = "rescue" -> Rescue(s, <<On(<<C("E2"), C("E1")>>, None, Out("r" \o d))>>)
    [] kind = "handler" -> Rescue(Fail("E2"), <<On(<<>>, Lv("e"), Do(<<s, Out("h" \o d)>>))>>)
    [] kind = "ensure" -> Ensure(Do(<<s, Out("f" \o d)>>), Out("n" \o d))
    [] kind = "if"     -> IfElse(Out("i" \o d), s, Out("j" \o d))
Kinds == <<"while", "block", "rescue", "handler", "ensure", "if">>

(* A nest is the kinds from the outside in, then the way.                   *)
RECURSIVE Nest(_, _)
Nest(nest, d) == IF Len(nest) = 1 THEN nest[1] ELSE Wrap(Head(nest), Nest(Tail(nest), d + 1), ToString(d))
NestProgram(nest) ==
  Do(<<Def("twice", <<>>, Do(<<Yield(<<>>), Out("t"), Yield(<<>>), I(5)>>)),
       Def("m", <<>>, Do(<<Nest(nest, 1), Out("z"), I(9)>>)), Set(G("r"), F("m", <<>>))>>)

(* A break and a next stand inside a loop or a block.  What a next leaves   *)
(* amid operands of a loop outgrows the small stack of a block (Littering). *)
InLoop(nest) == Last(nest).t \in {"break", "next"} => \E i \in 1..(Len(nest) - 1) : nest[i] \in {"while", "block"}
Overgrows(nest) == <<nest[1], nest[2], Last(nest).t>> = <<"block", "while", "next">>
Product(s, t) == [n \in 1..(Len(s) * Len(t)) |-> s[((n - 1) \div Len(t)) + 1] \o <<t[((n - 1) % Len(t)) + 1]>>]
Doubles == Product([i \in 1..Len(Kinds) |-> <<Kinds[i]>>], Kinds)
Outer   == <<<<"while">>, <<"ensure">>>>
Triples == Product(Product(Outer, <<"block", "while">>), <<"while", "block", "rescue", "ensure">>)
           \o Product(Product(Outer, <<"rescue">>), <<"while", "block", "rescue">>)
NestPrograms(shapes) == LET nests == SelectSeq(Product(shapes, Ways), InLoop) IN [i \in 1..Len(nests) |-> NestProgram(nests[i])]
OperandPrograms ==
  LET nests == SelectSeq(Product(Doubles, Ways), LAMBDA nest: InLoop(nest) /\ ~Overgrows(nest))
  IN  [i \in 1..Len(nests) |-> NestProgram(Append(Front(nests[i]), AsOperand(Last(nests[i]))))]

R(x) == Set(G("r"), x)

(* Loops of six rounds, each left amid an operand.                          *)
Rounds(s) == Do(<<Set(Lv("i"), I(0)), WhileDo(Less(X("i"), I(6)), Do(<<OpSet(Lv("i"), "+", I(1)), s>>)), R(X("i"))>>)
Littering == <<Rounds(AsOperand(Skip(<<>>))), Rounds(Rescue(AsOperand(Fail("E1")), <<On(<<>>, None, None)>>))>>

-----------------------------------------------------------------------------
(* Programs of closures, arguments, assignments, classes and procs.         *)

Each == ClassDef("Array", "", Def("each", <<>>, Do(<<
          Set(Lv("i"), I(0)),
          WhileDo(Less(X("i"), Bare("length")), Do(<<Yield(<<At(Self, X("i"))>>), OpSet(Lv("i"), "+", I(1))>>)),
          Self>>)))
Twice == Def("twice", <<>>, Do(<<Yield(<<I(1)>>), Yield(<<I(2)>>)>>))
CallIt(f) == Call(X(f), "call", <<>>)

Closures == <<
  \* each activation has its own variable, each closure keeps its own
  Do(<<Def("counter", <<Req("n")>>, FB("lambda", <<>>, Blk(<<>>, {"n"}, Set(Lv("n"), Plus(X("n"), I(1)))))),
       Set(Lv("a"), F("counter", <<I(1)>>)), Set(Lv("b"), F("counter", <<I(10)>>)),
       CallIt("a"), CallIt("a"), CallIt("b"), R(Arr(<<CallIt("a"), CallIt("b")>>))>>),
  \* two closures and the method share a variable, whatever it holds
  Do(<<Def("m", <<Req("x")>>, Do(<<
         Set(Lv("inc"), FB("lambda", <<>>, Blk(<<Req("d")>>, {"x"}, OpSet(Lv("x"), "+", X("d"))))),
         Set(Lv("get"), FB("proc", <<>>, Blk(<<>>, {"x"}, X("x")))),
         Call(X("inc"), "call", <<I(2)>>), Set(Lv("x"), Plus(X("x"), I(10))), Set(Lv("one"), CallIt("get")),
         Set(Lv("x"), Out("q")), Set(Lv("two"), CallIt("get")), Set(Lv("x"), I(7)),
         Call(X("inc"), "call", <<I(1)>>), Arr(<<X("one"), X("two"), CallIt("get"), X("x")>>)>>)),
       R(F("m", <<I(1)>>))>>),
  \* a block in a block writes the variables of the method; its own are gone
  Do(<<Twice, Set(Lv("x"), I(0)), Set(Lv("y"), I(0)),
       FB("twice", <<>>, Blk(<<Req("a")>>, {"x", "y"}, Do(<<
         Set(Lv("z"), X("a")),
         FB("twice", <<>>, Blk(<<Req("b")>>, {"x", "y", "a", "z"}, Do(<<
           Set(Lv("x"), Plus(Plus(X("x"), X("a")), X("z"))), Set(Lv("y"), X("b")), Set(Lv("z"), Plus(X("z"), X("b")))>>))),
         OpSet(Lv("x"), "+", X("z"))>>))),
       R(Arr(<<X("x"), X("y"), RescueMod(Bare("z"), I(8))>>))>>),
  \* a block's own variables and parameters hide those around it
  Do(<<Twice, Set(Lv("x"), I(5)), Set(Lv("w"), I(6)),
       FB("twice", <<>>, Blk(<<Req("a"), Bvar("x")>>, {"w"}, Do(<<OpSet(Lv("x"), "||", X("a")), OpSet(Lv("w"), "+", X("x"))>>))),
       FB("twice", <<>>, Blk(<<Req("x")>>, {"w"}, OpSet(Lv("w"), "+", X("x")))), R(Arr(<<X("x"), X("w")>>))>>),
  \* a name assigned after the block is another variable
  Do(<<Set(Lv("f"), Lambda(<<>>, {}, Do(<<OpSet(Lv("q"), "||", I(1)), X("q")>>))), Set(Lv("q"), I(5)), R(Arr(<<CallIt("f"), X("q")>>))>>),
  \* the closures made in a loop share the loop's variable
  Do(<<Set(Lv("i"), I(0)), Set(Lv("fs"), Arr(<<>>)),
       WhileDo(Less(X("i"), I(2)), Do(<<Set(Lv("j"), X("i")), Set(At(X("fs"), X("i")), Lambda(<<>>, {"j"}, OpSet(Lv("j"), "+", I(1)))),
                                        OpSet(Lv("i"), "+", I(1))>>)),
       R(Arr(<<Call(At(X("fs"), I(0)), "call", <<>>), Call(At(X("fs"), I(1)), "call", <<>>), X("j")>>))>>),
  \* those made in the activations of a method do not
  Do(<<Def("m", <<Req("n"), Req("f")>>,
           IfElse(Less(X("n"), I(1)), CallIt("f"),
                  F("m", <<Plus(X("n"), I(-1)), Lambda(<<>>, {"n", "f"}, Set(Lv("n"), Plus(X("n"), CallIt("f"))))>>))),
       R(F("m", <<I(2), Lambda(<<>>, {}, I(100))>>))>>),
  \* a for shares its variables with what is around it, a break ends it
  Do(<<Each, Set(Lv("s"), I(0)),
       Set(Lv("v"), For(Lv("x"), Arr(<<I(1), I(2), I(3)>>), Do(<<
         IfMod(Out("k"), Skip(<<>>)), OpSet(Lv("s"), "+", X("x")), IfMod(Out("l"), Break(<<I(9)>>)), Set(Lv("y"), X("x"))>>))),
       R(Arr(<<X("x"), X("s"), X("y"), At(Arr(<<X("v")>>), I(0))>>))>>),
  Do(<<Each, Def("m", <<>>, Do(<<
         For(Pat(<<Lv("a"), Lv("b")>>), Arr(<<Arr(<<I(1), I(2)>>), Arr(<<I(3)>>)>>),
             For(Lv("c"), Arr(<<I(4)>>), Do(<<IfMod(Out("k"), Return(<<X("a"), X("c")>>)), Set(Lv("d"), X("b"))>>))),
         Set(Lv("f"), Lambda(<<>>, {"a", "b", "d"}, Arr(<<X("a"), X("b"), X("d")>>))), CallIt("f")>>)), R(F("m", <<>>))>>)>>

Arguments ==
  LET M == Def("m", <<Req("a"), Opt("b", Plus(X("a"), I(1))), Opt("c", Do(<<Out("dc"), Plus(X("b"), I(1))>>)), Rest("r"), Blockarg("k")>>,
               Arr(<<X("a"), X("b"), X("c"), X("r"), Not(X("k"))>>))
      W(params, names) == FB("y", <<>>, Blk(params, {}, Arr([i \in 1..Len(names) |-> X(names[i])])))
      Y(args) == Def("y", <<>>, Yield(args))
      Blocks == <<W(<<Req("a")>>, <<"a">>), W(<<Req("a"), Req("b")>>, <<"a", "b">>), W(<<Req("a"), Opt("b", I(5))>>, <<"a", "b">>),
                  W(<<Req("a"), Req("b"), Rest("r")>>, <<"a", "b", "r">>), W(<<Rest("r")>>, <<"r">>), W(<<>>, <<>>),
                  W(<<Mparam(<<Ploc("a"), Star(Ploc("b"))>>), Req("c")>>, <<"a", "b", "c">>)>>
      Given == <<<<>>, <<I(1)>>, <<I(1), I(2)>>, <<Arr(<<I(1), I(2), I(3)>>)>>, <<Arr(<<I(1), I(2)>>), I(3)>>,
                 <<Splat(Arr(<<I(1), I(2)>>)), I(4)>>>>
  IN << Do(<<M, R(F("m", <<I(1)>>))>>), Do(<<M, R(F("m", <<I(1), I(5)>>))>>), Do(<<M, R(F("m", <<I(1), I(2), I(5)>>))>>),
        Do(<<M, R(FB("m", <<I(1), I(2), I(3), I(4), I(5)>>, Blk(<<>>, {}, I(0))))>>),
        Do(<<M, R(F("m", <<Splat(Arr(<<I(1), I(2)>>)), I(7), Splat(V(Nil)), Splat(I(8))>>))>>),
        Do(<<M, Set(Lv("f"), Lambda(<<>>, {}, I(2))),
             R(FB("m", <<Splat(Arr(<<I(1), I(2)>>)), I(7)>>, Pass(X("f")))), Set(G("s"), FB("m", <<I(1)>>, Pass(V(Nil)))),
             Set(G("t"), Rescue(FB("m", <<I(1)>>, Pass(I(5))), <<On(<<C("TypeError")>>, None, I(6))>>))>>),
        Do(<<M, R(Rescue(F("m", <<>>), <<On(<<C("ArgumentError")>>, Lv("e"), X("e"))>>))>>),
        Do(<<Def("m", <<Req("a"), Opt("f", Lambda(<<>>, {"a"}, Set(Lv("a"), Plus(X("a"), I(1)))))>>, Do(<<CallIt("f"), X("a")>>)),
             R(F("m", <<I(1)>>)), Set(G("s"), Rescue(F("m", <<I(1), I(2), I(3)>>), <<On(<<>>, None, I(4))>>))>>),
        Do(<<Set(Lv("f"), Lambda(<<Req("a"), Opt("b", I(3))>>, {}, Plus(X("a"), X("b")))),
             R(Rescue(Do(<<Out("q"), Call(X("f"), "call", <<>>)>>), <<On(<<>>, None, Call(X("f"), "call", <<I(1)>>))>>))>>)>>
     \o LET all == Product([i \in 1..Len(Given) |-> <<Given[i]>>], Blocks)
        IN [i \in 1..Len(all) |-> Do(<<Y(all[i][1]), R(all[i][2])>>)]

Struct == ClassDef("S", "", Do(<<Def("x", <<>>, IV("x")), Def("x=", <<Req("v")>>, Do(<<Out("w"), Set(IV("x"), X("v"))>>))>>))
NewS(n) == Set(Lv(n), Call(C("S"), "new", <<>>))
Assignments ==
  LET Vals == <<Arr(<<I(1), I(2), I(3), I(4)>>), Arr(<<I(1)>>), I(6), V(Nil), Arr(<<Arr(<<I(1), I(2)>>), I(3)>>)>>
      Targets == << <<Lv("a"), Lv("b")>>, <<Lv("a"), Star(Lv("b")), Lv("c")>>, <<Star(Lv("a")), Lv("b")>>, <<Lv("a"), Star(None)>>,
                    <<Pat(<<Lv("a"), Star(Lv("b"))>>), Lv("c")>>, <<G("a"), Star(IV("b"))>>,
                    <<Attr(X("s"), "x"), Star(At(X("t"), I(1))), Lv("c")>> >>
      all == Product([i \in 1..Len(Vals) |-> <<Vals[i]>>], Targets)
      Ops == <<"||", "&&", "+">>
      Places == <<Attr(X("s"), "x"), At(X("t"), I(0)), IV("i"), G("g"), Lv("l")>>
      ops == Product([i \in 1..Len(Ops) |-> <<Ops[i]>>], Places)
      Quiet == ClassDef("S", "", Def("x=", <<Req("v")>>, Set(IV("x"), X("v"))))
      Start == Do(<<Struct, NewS("s"), Set(Lv("t"), Arr(<<>>)), Set(Lv("a"), V(Nil)), Set(Lv("b"), V(Nil)), Set(Lv("c"), V(Nil)), Set(Lv("l"), V(Nil))>>)
      State == R(Arr(<<X("a"), X("b"), X("c"), X("l"), G("a"), IV("b"), Attr(X("s"), "x"), X("t")>>))
  IN [i \in 1..Len(all) |-> Do(<<Start, MSet(all[i][2], all[i][1]), State>>)]
     \o [i \in 1..Len(ops) |-> Do(<<Start, Quiet, IfElse(Out("q"), Set(ops[i][2], I(1)), Set(ops[i][2], V(Nil))), OpSet(ops[i][2], ops[i][1], Plus(I(2), I(3))), State>>)]
     \o <<Do(<<Set(Lv("a"), I(1)), Set(Lv("b"), I(2)), Set(G("s"), MSet(<<Lv("a"), Lv("b")>>, Arr(<<X("b"), X("a")>>))), R(Arr(<<X("a"), X("b")>>))>>),
          Do(<<Set(Lv("a"), Arr(<<I(1)>>)),
               R(Arr(<<Splat(X("a")), I(5), Splat(Arr(<<>>)), Splat(X("a"))>>)), Set(G("s"), Arr(<<Splat(X("a"))>>)),
               Set(G("t"), Arr(<<I(3), I(4), Splat(I(5))>>))>>)>>

(* Classes, super, methods of methods.                                      *)
Classes ==
  LET Base == ClassDef("A", "", Do(<<Def("m", <<Req("a"), Opt("b", I(2)), Rest("r"), Blockarg("k")>>,
                                         Arr(<<X("a"), X("b"), X("r"), Not(X("k")), IV("z")>>)),
                                     Def("z=", <<Req("v")>>, Set(IV("z"), X("v")))>>))
      Sub(params, body) == Do(<<Base, ClassDef("B", "A", Def("m", params, body)), Set(Lv("o"), Call(C("B"), "new", <<>>)), Set(Attr(X("o"), "z"), I(7))>>)
      In(body) == Sub(<<Req("a"), Opt("b", I(3)), Rest("r")>>, Do(<<Set(Lv("x"), I(1)), Set(Lv("a"), Plus(X("a"), X("x"))), body>>))
      Supers == <<P("zsuper"), Super(<<I(1)>>), Super(<<I(1), Splat(X("r"))>>), SuperB(<<Splat(X("r")), I(4)>>, Blk(<<>>, {}, I(0))),
                  SuperB(<<X("b")>>, Blk(<<>>, {}, I(0))), Super(<<>>)>>
      Calls == <<Call(X("o"), "m", <<I(1)>>), CallB(X("o"), "m", <<I(1), I(2), I(3)>>, Blk(<<>>, {}, I(5)))>>
      all == Product([i \in 1..Len(Supers) |-> <<Supers[i]>>], Calls)
  IN [i \in 1..Len(all) |-> Do(<<In(all[i][1]), R(RescueMod(all[i][2], I(0)))>>)]
     \o << Do(<<Sub(<<>>, Do(<<Def("m", <<>>, I(3)), Def("n", <<>>, I(4)), ClassDef("A", "", Def("n", <<>>, Arr(<<I(5), Bare("m")>>))), I(6)>>)),
                Set(Lv("p"), Call(C("A"), "new", <<>>)),
                R(Arr(<<RescueMod(Attr(X("o"), "n"), I(0)), Attr(X("o"), "m"), Attr(X("o"), "n"), Attr(X("o"), "m"),
                        RescueMod(Attr(X("p"), "n"), I(1)), RescueMod(Attr(X("p"), "m"), I(2)), RescueMod(C("Q"), I(9))>>))>>),
           Do(<<Base, Set(Lv("x"), I(1)), ClassDef("B", "A", Do(<<Set(Lv("y"), Self), ClassDef("D", "B", Def("w", <<>>, RescueMod(Bare("x"), I(2))))>>)),
                R(Rescue(ClassDef("D", "A", I(1)), <<On(<<C("TypeError"), C("E1")>>, None, Attr(Call(C("D"), "new", <<>>), "w"))>>)),
                Set(G("s"), Arr(<<RescueMod(Bare("y"), I(3)), ClassDef("D", "", Self)>>))>>),
           Do(<<Base, ClassDef("B", "A", Def("q", <<>>, Super(<<>>))),
                R(Rescue(Attr(Call(C("B"), "new", <<>>), "q"), <<On(<<C("E2")>>, None, I(1)), On(<<C("StandardError")>>, G("e"), G("e"))>>))>>)>>

(* Case, and, or, modifiers, exceptions, ways out of blocks and procs.      *)
WaysOut ==
  << Do(<<R(CaseOf(Out("s"), <<When(<<Out("t"), V(Nil)>>, Out("u")), When(<<C("E1"), Out("w")>>, I(2))>>, I(3)))>>),
     Do(<<R(CaseOf(None, <<When(<<Out("t"), Out("v")>>, I(1)), When(<<Out("w")>>, None)>>, None))>>),
     Do(<<R(CaseOf(RescueMod(Out("s"), V(Exc("E2"))), <<When(<<C("E1")>>, I(1)), When(<<C("StandardError")>>, I(2))>>, None))>>),
     Do(<<R(Or(And(Out("a"), Out("b")), And(Not(Out("c")), I(4))))>>),
     Do(<<R(And(Or(Out("a"), V(Nil)), Unless(Out("b"), Out("c"), I(5))))>>),
     Do(<<Set(Lv("i"), I(0)), Modified("whilemod", Less(X("i"), I(2)), OpSet(Lv("i"), "+", I(1))),
          R(UntilDo(Not(Out("a")), IfMod(Out("b"), Break(<<X("i"), I(7)>>)))), Set(G("s"), X("i"))>>),
     Do(<<R(RescueMod(Rescue(Out("a"), <<On(<<C("E2")>>, None, I(1)), On(<<C("E1")>>, IV("e"), Fail("E2"))>>), IV("e")))>>),
     Do(<<NewS("q"), R(I(1))>>),
     Do(<<Struct, NewS("s"), Rescue(Out("a"), <<On(<<>>, Attr(X("s"), "x"), None)>>), R(Attr(X("s"), "x"))>>),
     Do(<<Set(Lv("t"), Arr(<<>>)), Rescue(Fail("E1"), <<On(<<C("E1")>>, At(X("t"), I(1)), V(Nil))>>), R(X("t"))>>),
     \* an ensure clause that fails takes the place of what it was run for
     Do(<<Def("m", <<>>, Ensure(Return(<<I(1)>>), Out("a"))), R(Rescue(Ensure(F("m", <<>>), Out("b")), <<On(<<>>, Lv("e"), X("e"))>>))>>),
     Do(<<R(RescueMod(F("yielder", <<>>), I(0))), Def("yielder", <<>>, Yield(<<>>)),
          Set(G("s"), Rescue(F("yielder", <<>>), <<On(<<C("LocalJumpError")>>, None, I(1))>>))>>),
     Do(<<Def("m", <<>>, Do(<<Ensure(Return(<<I(1)>>), Set(G("s"), I(2))), I(3)>>)), R(F("m", <<>>))>>),
     Do(<<R(WhileDo(V(True), Ensure(Break(<<I(4)>>), Set(G("s"), I(5)))))>>),
     \* a block belongs to the activation it was written in, wherever it is called
     Do(<<Def("a", <<>>, Do(<<WhileDo(Out("w"), Ensure(Yield(<<I(2)>>), Out("n"))), I(1)>>)),
          Def("b", <<Blockarg("k")>>, Do(<<FB("a", <<>>, Pass(X("k"))), Out("z"), I(3)>>)),
          Def("m", <<>>, Do(<<FB("b", <<>>, Blk(<<Req("x")>>, {}, Do(<<IfMod(Out("p"), Return(<<X("x")>>)), IfMod(Out("q"), Skip(<<>>)), Out("r")>>))), I(4)>>)),
          R(F("m", <<>>))>>),
     Do(<<Def("a", <<>>, Do(<<Yield(<<>>), Out("z")>>)),
          Def("b", <<>>, FB("a", <<>>, Blk(<<>>, {}, Do(<<Yield(<<I(1)>>), Out("y")>>)))),
          R(FB("b", <<>>, Blk(<<Req("x")>>, {}, IfElse(Out("p"), Break(<<X("x")>>), None))))>>),
     \* a lambda is what a return in it ends, a proc is not
     Do(<<Def("m", <<>>, Do(<<Set(Lv("f"), FB("lambda", <<>>, Blk(<<>>, {}, Do(<<IfMod(Out("p"), Return(<<I(1)>>)), IfMod(Out("q"), Break(<<I(2)>>)), I(3)>>)))),
                              Set(Lv("v"), CallIt("f")), Out("z"), X("v")>>)), R(F("m", <<>>))>>),
     Do(<<Def("m", <<>>, Do(<<Set(Lv("f"), FB("proc", <<>>, Blk(<<>>, {}, Do(<<IfMod(Out("p"), Return(<<I(1)>>)), I(3)>>)))),
                              Set(Lv("v"), CallIt("f")), Out("z"), X("v")>>)), R(F("m", <<>>))>>),
     Do(<<Def("m", <<>>, FB("proc", <<>>, Blk(<<>>, {}, Break(<<I(1)>>)))),
          R(Rescue(Do(<<Set(Lv("f"), F("m", <<>>)), CallIt("f")>>), <<On(<<C("LocalJumpError")>>, None, I(2))>>))>>),
     Do(<<Twice, Def("m", <<>>, Do(<<Set(Lv("f"), Lambda(<<>>, {}, Do(<<FB("twice", <<>>, Blk(<<Req("x")>>, {}, IfMod(Out("p"), Return(<<X("x")>>)))), I(5)>>))),
                                     Arr(<<CallIt("f"), I(6)>>)>>)), R(F("m", <<>>))>>),
     \* a method that calls itself, its rescue called by the call it rescues
     Do(<<Def("m", <<Req("n")>>, Rescue(Do(<<IfMod(Less(X("n"), I(1)), Fail("E1")), F("m", <<Plus(X("n"), I(-1))>>)>>),
                                        <<On(<<>>, None, Do(<<Out("h"), Arr(<<X("n")>>)>>))>>)), R(F("m", <<I(2)>>))>>)>>
-----------------------------------------------------------------------------
(* Programs of modules, constants, literals, throws.                        *)

Sy(n)       == V(<<"sym", n>>)
Incl(m)  == F("include", <<C(m)>>)
M0(n, b)    == Def(n, <<>>, b)
M1(n, p, b) == Def(n, <<Req(p)>>, b)
Or0(x)      == RescueMod(x, I(0))
OnType(x)   == Rescue(x, <<On(<<C("TypeError")>>, None, Sy("type"))>>)
OnName(x)   == Rescue(x, <<On(<<C("NoMethodError")>>, None, Sy("nomethod")), On(<<C("NameError")>>, None, Sy("name"))>>)
OnArgs(x)   == Rescue(x, <<On(<<C("ArgumentError")>>, None, Sy("args"))>>)
Rs(items)   == R(Arr(items))
Asked(r, names) == [i \in 1..Len(names) |-> Attr(r, names[i])]

Mixins ==
  << \* the modules of a class come after it, the last included first; super goes on from there
     Do(<<ModuleDef("P", Do(<<M0("m", I(1)), M0("x", Sy("px"))>>)), ModuleDef("Q", Do(<<M0("m", I(2)), M0("y", Sy("qy"))>>)),
          ClassDef("A", "", Do(<<Incl("P"), Incl("Q"), M0("x", Sy("ax"))>>)),
          ClassDef("B", "A", Do(<<Incl("P"), M0("m", Arr(<<Super(<<>>), Out("s")>>)), M0("y", Arr(<<P("zsuper")>>))>>)),
          Set(Lv("b"), New("B", <<>>)),
          Rs(Asked(X("b"), <<"m", "x", "y">>) \o <<Attr(New("A", <<>>), "m"), Call(X("b"), "is_a?", <<C("Q")>>),
               Call(New("A", <<>>), "is_a?", <<C("B")>>), Call(C("P"), "===", <<X("b")>>), Call(X("b"), "is_a?", <<C("Object")>>),
               OnType(Call(X("b"), "is_a?", <<I(1)>>))>>)>>),
     \* a module brings its modules; a circle of them is refused
     Do(<<ModuleDef("P", M0("m", I(1))), ModuleDef("Q", Do(<<Incl("P"), M0("n", Arr(<<Bare("m")>>))>>)),
          ClassDef("A", "", Incl("Q")), Set(G("s"), ModuleDef("P", OnArgs(Incl("Q")))),
          Rs(Asked(New("A", <<>>), <<"m", "n">>) \o <<OnType(ClassDef("A", "", Incl("E1"))), OnType(ClassDef("A", "", F("include", <<I(3)>>)))>>)>>),
     \* a module included at the top is a module of every object
     Do(<<ModuleDef("P", Do(<<M0("m", I(1)), M0("n", I(2))>>)), M0("n", I(4)), Incl("P"), ClassDef("A", "", M0("m", I(3))),
          Rs(<<Bare("m"), Bare("n"), Attr(New("A", <<>>), "m"), Attr(I(5), "m"), Attr(C("A"), "m")>>)>>),
     \* what is added to a module or a class later counts for the objects there are
     Do(<<ModuleDef("P", None), ClassDef("A", "", Incl("P")), ClassDef("B", "A", None), Set(Lv("b"), New("B", <<>>)),
          Set(Lv("v"), OnName(Attr(X("b"), "m"))), ModuleDef("P", M0("m", I(1))), Set(Lv("w"), Attr(X("b"), "m")),
          ClassDef("A", "", M0("m", I(2))), Rs(<<X("v"), X("w"), Attr(X("b"), "m")>>)>>),
     \* an object may have methods and modules of its own
     Do(<<ModuleDef("P", Do(<<M0("m", I(1)), M0("n", I(2))>>)), ClassDef("A", "", Do(<<M0("m", I(3)), M0("k", I(4))>>)),
          Set(Lv("a"), New("A", <<>>)), Set(Lv("b"), New("A", <<>>)), Call(X("a"), "extend", <<C("P")>>),
          Defs(X("a"), "k", <<Req("q")>>, Arr(<<X("q"), Bare("n")>>)),
          Rs(<<Attr(X("a"), "m"), Call(X("a"), "k", <<I(5)>>), Attr(X("b"), "m"), Attr(X("b"), "k"), OnName(Attr(X("b"), "n")),
               Call(X("a"), "is_a?", <<C("P")>>), Call(X("b"), "is_a?", <<C("P")>>), OnType(Call(X("a"), "extend", <<C("A")>>))>>)>>),
     Do(<<ClassDef("A", "", M0("m", I(3))), Set(Lv("a"), New("A", <<>>)),
          Reopen(X("a"), Do(<<M0("m", Arr(<<P("zsuper"), Self>>)), M0("n", I(1)), Alias("o", "n")>>)),
          Rs(<<Attr(X("a"), "n"), Attr(X("a"), "o"), At(Attr(X("a"), "m"), I(0)), OnType(Reopen(I(1), I(2))), OnType(Defs(Sy("k"), "m", <<>>, None)),
               Reopen(X("a"), I(7))>>)>>),
     \* what a class has of its own its subclasses have
     Do(<<ClassDef("A", "", Do(<<Defs(Self, "k", <<Opt("x", I(1))>>, Arr(<<X("x"), Bare("j")>>)), Reopen(Self, M0("j", I(2)))>>)),
          ClassDef("B", "A", Reopen(Self, M0("j", I(3)))), Defs(C("B"), "h", <<>>, Self), ModuleDef("P", Defs(Self, "f", <<>>, Bare("g"))),
          Reopen(C("P"), M0("g", I(4))), Call(C("A"), "extend", <<C("P")>>),
          Rs(<<Attr(C("A"), "k"), Call(C("B"), "k", <<I(5)>>), Attr(C("B"), "h"), Attr(C("P"), "f"), OnName(Attr(C("A"), "h")), OnName(Attr(C("B"), "g")),
               Call(C("B"), "is_a?", <<C("P")>>)>>)>>),
     \* an alias keeps the method of the time; undef hides those above too
     Do(<<ClassDef("A", "", Do(<<M0("m", I(1)), Alias("n", "m"), M0("m", I(2))>>)),
          ClassDef("B", "A", Do(<<Undef("n"), Alias("k", "m"), M0("m", I(3))>>)), ClassDef("D", "B", M0("n", I(4))), Set(Lv("b"), New("B", <<>>)),
          Rs(Asked(New("A", <<>>), <<"m", "n">>) \o <<Attr(X("b"), "k"), Attr(X("b"), "m"), OnName(Attr(X("b"), "n")), Attr(New("D", <<>>), "n"),
               ClassDef("A", "", OnName(Alias("z", "y"))), ClassDef("A", "", OnName(Undef("y")))>>)>>),
     \* method_missing is sent what there is no method for
     Do(<<ClassDef("A", "", Do(<<Def("method_missing", <<Req("n"), Rest("r"), Blockarg("k")>>, Arr(<<X("n"), X("r"), Not(X("k")), Out("q")>>)),
                                 M0("m", I(1))>>)),
          ClassDef("B", "A", Do(<<Undef("m"), M0("j", Super(<<I(8)>>))>>)),
          Rs(<<Call(New("A", <<>>), "z", <<I(1), I(2)>>), CallB(New("B", <<>>), "m", <<>>, Blk(<<>>, {}, None)), Attr(New("B", <<>>), "j")>>)>>),
     \* new makes the object, initialize fills it, and its value is not counted
     Do(<<ClassDef("A", "", Do(<<Def("initialize", <<Req("x"), Blockarg("k")>>, Do(<<Set(IV("x"), Plus(X("x"), Call(X("k"), "call", <<>>))), I(5)>>)),
                                 M0("x", IV("x"))>>)),
          ClassDef("B", "A", Def("initialize", <<Req("x")>>, Do(<<P("zsuper"), OpSet(IV("x"), "*", I(2)), Out("i")>>))),
          Rs(<<Attr(CallB(C("A"), "new", <<I(1)>>, Blk(<<>>, {}, I(2))), "x"), Attr(CallB(C("B"), "new", <<I(3)>>, Blk(<<>>, {}, I(4))), "x"),
               OnArgs(New("A", <<>>)), OnArgs(New("E1", <<I(1)>>))>>)>>),
     \* a module of an error counts for the clauses that rescue it, a class for a case
     Do(<<ModuleDef("P", None), ClassDef("E1", "", Incl("P")),
          Rs(<<Rescue(Fail("E1"), <<On(<<C("E2")>>, None, I(1)), On(<<C("P")>>, None, I(2))>>),
               CaseOf(New("E2", <<>>), <<When(<<C("P")>>, I(1)), When(<<C("Fixnum"), C("StandardError")>>, I(2))>>, I(3)),
               CaseOf(Out("s"), <<When(<<C("NilClass")>>, I(4)), When(<<C("TrueClass")>>, I(5))>>, None)>>)>>),
     \* a class is opened again only as what it is
     Do(<<ClassDef("A", "", M0("m", I(1))), ModuleDef("P", None), Set(Cname("K"), I(5)),
          Rs(<<OnType(ClassDef("P", "", None)), OnType(ModuleDef("A", None)), OnType(ClassDef("K", "", None)), OnType(ModuleDef("K", None)),
               OnType(ClassDef("B", "P", None)), OnType(ClassDef("B", "K", None)), OnType(ClassDef("A", "E1", None)), ClassDef("A", "Object", Self),
               OnType(ClassAt(InScope(C("K"), "B"), None, None)), ClassAt(InScope(C("P"), "A"), None, Self), ClassAt(TopConst("B"), C("A"), Self),
               OnType([t |-> "module", path |-> InScope(C("K"), "M"), body |-> None]),
               [t |-> "module", path |-> InScope(C("A"), "M"), body |-> Self]>>)>>) >>

Constants ==
  << \* the modules around the text come first, then what the class inherits
     Do(<<Set(Cname("K"), I(1)), Set(Cname("L"), I(4)), ClassDef("A", "", Set(Cname("K"), I(2))), ClassDef("B", "A", Do(<<M0("k", C("K")), M0("l", C("L"))>>)),
          ModuleDef("P", Do(<<Set(Cname("K"), I(3)), ClassDef("D", "A", Do(<<M0("k", C("K")), M0("l", TopConst("K")), M0("j", InScope(C("A"), "K"))>>))>>)),
          Rs(Asked(New("B", <<>>), <<"k", "l">>) \o Asked(Call(InScope(C("P"), "D"), "new", <<>>), <<"k", "l", "j">>)
             \o <<InScope(C("B"), "K"), InScope(C("P"), "K"), OnName(C("D")), OnName(InScope(C("P"), "Z")), OnName(TopConst("Z"))>>)>>),
     \* those of the modules of a class; a block and a class << look where they stand
     Do(<<ModuleDef("P", Set(Cname("K"), I(1))), ClassDef("A", "", Do(<<Incl("P"), M0("k", Arr(<<C("K"), Lambda(<<>>, {}, C("K"))>>)),
                                                                        Reopen(Self, M0("j", C("L")))>>)),
          Set(InScope(C("A"), "L"), I(2)), Set(InScope(C("P"), "K"), I(3)), Set(TopConst("J"), I(6)),
          Rs(<<At(Attr(New("A", <<>>), "k"), I(0)), Call(At(Attr(New("A", <<>>), "k"), I(1)), "call", <<>>), Attr(C("A"), "j"), InScope(C("A"), "K"),
               InScope(C("A"), "L"), C("J"), OnType(InScope(I(1), "K")), OnName(InScope(C("P"), "L"))>>)>>),
     \* a constant that is missing is asked of the module
     Do(<<ClassDef("A", "", Do(<<Defs(Self, "const_missing", <<Req("n")>>, Arr(<<X("n"), Self, Out("c")>>)), M0("k", C("Z"))>>)),
          ClassDef("B", "A", M0("k", Arr(<<C("Y")>>))), Rs(<<InScope(C("A"), "W"), Attr(New("A", <<>>), "k"), Attr(New("B", <<>>), "k"), OnName(C("V"))>>)>>),
     Do(<<Set(Cname("K"), I(1)), ModuleDef("P", Do(<<Set(Cname("L"), I(2)), M0("m", Self)>>)), ClassDef("A", "", Do(<<
            Set(CV("n"), I(1)), Set(Cname("J"), I(6)), Def("m", <<Blockarg("b")>>, Do(<<Set(IV("i"), I(3)), Arr(<<Defined(IV("i")), Defined(IV("j")), Defined(CV("n")),
                 Defined(CV("z")), Defined(C("J")), Defined(C("K")), Defined(C("Z")), Defined(Yield(<<>>)), Defined(P("zsuper"))>>)>>))>>)),
          ClassDef("B", "A", Def("m", <<Req("q")>>, Arr(<<Defined(Super(<<>>)), Defined(Self), Defined(X("q")), Defined(Bare("k")), Defined(Bare("m")),
             Defined(Set(Lv("w"), I(1))), Defined(G("g")), Defined(Arr(<<>>)), Defined(F("m", <<>>)), Defined(Attr(New("A", <<>>), "m")),
             Defined(I(1)), Defined(Yield(<<>>))>>))),
          Set(G("g"), I(5)), Rs(<<Attr(New("A", <<>>), "m"), CallB(New("A", <<>>), "m", <<>>, Blk(<<>>, {}, None)), Call(New("B", <<>>), "m", <<I(1)>>),
             Defined(InScope(C("P"), "L")), Defined(InScope(C("P"), "Z")), Defined(G("h")), Defined(TopConst("K"))>>)>>),
     \* a class variable is one for the class, its subclasses, their objects
     Do(<<ClassDef("A", "", Do(<<Set(CV("n"), I(1)), M0("up", OpSet(CV("n"), "+", I(1))), Defs(Self, "n", <<>>, CV("n"))>>)),
          ClassDef("B", "A", Do(<<M0("down", OpSet(CV("n"), "*", I(5))), M0("n", Arr(<<CV("n"), Lambda(<<>>, {}, CV("n"))>>)), M0("z", CV("z"))>>)),
          Attr(New("A", <<>>), "up"), Attr(New("B", <<>>), "down"), Set(Lv("v"), At(Attr(New("B", <<>>), "n"), I(0))), Attr(New("B", <<>>), "up"),
          Rs(<<Attr(C("A"), "n"), X("v"), Call(At(Attr(New("B", <<>>), "n"), I(1)), "call", <<>>), Attr(C("B"), "n"), OnName(Attr(New("B", <<>>), "z"))>>)>>),
     Do(<<ModuleDef("P", Do(<<Set(CV("k"), I(1)), M0("k", OpSet(CV("k"), "+", I(1)))>>)), ClassDef("A", "", Do(<<Incl("P"), M0("j", OpSet(CV("k"), "||", I(9)))>>)),
          ClassDef("B", "", Incl("P")), Attr(New("A", <<>>), "k"), Attr(New("B", <<>>), "k"), Rs(<<Attr(New("A", <<>>), "k"), Attr(New("A", <<>>), "j")>>)>>),
     \* what a module has of its own can be removed, and is then looked for further up
     Do(<<ClassDef("A", "", Do(<<Set(CV("n"), I(1)), M0("m", I(2)), Set(Cname("K"), I(3)), M0("n", CV("n"))>>)),
          ClassDef("B", "A", Do(<<M0("m", I(4)), Set(Cname("K"), I(5)), M0("k", C("K"))>>)), Set(Lv("b"), New("B", <<>>)),
          Set(Lv("i"), I(0)),
          WhileDo(Less(X("i"), I(3)), Do(<<Set(G("m"), Arr(<<G("m"), OnName(Attr(X("b"), "m")), Attr(X("b"), "k"), OnName(Attr(X("b"), "n"))>>)),
            CaseOf(X("i"), <<When(<<I(0)>>, Arr(<<Call(C("B"), "remove_method", <<Sy("m")>>), Call(C("B"), "remove_const", <<Sy("K")>>),
                                                   Call(C("A"), "remove_class_variable", <<Sy("n")>>)>>))>>,
                   Arr(<<OnName(Call(C("A"), "remove_method", <<Sy("m")>>)), OnName(Call(C("B"), "remove_const", <<Sy("K")>>)),
                         OnName(Call(C("A"), "remove_class_variable", <<Sy("n")>>)), ClassDef("A", "", Set(CV("n"), I(8)))>>)),
            OpSet(Lv("i"), "+", I(1))>>)),
          Rs(<<G("m"), ClassDef("B", "A", Do(<<Undef("n"), OnName(Call(Self, "remove_method", <<Sy("n")>>))>>))>>)>>),
     \* a module has instance variables too; $$ cannot be set
     Do(<<ClassDef("A", "", Do(<<Set(IV("x"), I(1)), Defs(Self, "x", <<>>, OpSet(IV("x"), "+", I(1)))>>)), ModuleDef("P", Set(IV("x"), Self)), Def("w", <<>>, Set(G("$"), I(3))),
          Rs(<<Attr(C("A"), "x"), Attr(C("A"), "x"), Call(C("A"), "instance_variable_defined?", <<Sy("x")>>), Call(C("P"), "instance_variable_defined?", <<Sy("y")>>),
               G("$"), Defined(G("$")), OnName(F("w", <<>>)), G("$"), OpSet(G("t"), "||", I(4)), OpSet(G("t"), "+", I(4)), G("t")>>)>>) >>

Quoted(s) == S(<<Q(s)>>)
Values ==
  LET H == Lv("h") IN
  << Do(<<ClassDef("A", "", M0("to_s", Do(<<Out("t"), Quoted("u")>>))), Set(Lv("x"), I(3)), Set(Lv("a"), New("A", <<>>)),
          Rs(<<S(<<Q("a"), It(<<X("x")>>), Q("b"), It(<<>>), It(<<X("a")>>)>>), S(<<>>), S(<<It(<<Set(Lv("x"), Plus(X("x"), I(1))), X("x")>>)>>),
               [t |-> "strings", strs |-> <<Quoted("p"), Quoted("q"), S(<<It(<<V(Nil)>>), Q("r")>>)>>],
               [t |-> "dsym", parts |-> <<Q("s"), It(<<X("x")>>)>>], Symbol("z"), [t |-> "dsym", parts |-> <<>>],
               [t |-> "xstring", parts |-> <<Q("ls "), It(<<X("x")>>)>>], [t |-> "words", items |-> <<Quoted("v"), S(<<It(<<X("x")>>), Q("w")>>)>>],
               Plus(Quoted("k"), S(<<Q("l"), It(<<Sy("m")>>)>>)), P("File")>>)>>),
     \* a hash keeps its keys in order, the last value of a key; pairs without braces are one argument
     Do(<<Def("m", <<Req("a"), Rest("r")>>, Arr(<<X("a"), X("r")>>)),
          Set(H, Pairs("hash", <<Sy("a"), I(1), Quoted("b"), Or0(Out("v")), Sy("a"), Arr(<<I(2)>>), I(5), Pairs("hash", <<>>)>>)),
          Set(At(X("h"), I(6)), I(7)), Set(At(X("h"), Quoted("b")), At(X("h"), Sy("a"))), OpSet(At(X("h"), Sy("n")), "||", I(4)), OpSet(At(X("h"), Sy("n")), "+", I(4)),
          Rs(<<X("h"), F("m", <<I(1), Pairs("assocs", <<Sy("k"), I(2), I(3), Out("w")>>)>>), F("m", <<Pairs("assocs", <<Sy("k"), I(2)>>)>>), At(X("h"), Sy("z"))>>)>>),
     Do(<<Set(Lv("r"), [t |-> "dot2", lhs |-> I(1), rhs |-> Plus(I(1), I(2))]), Set(Lv("s"), [t |-> "dot3", lhs |-> X("r"), rhs |-> Out("e")]),
          Rs(<<X("r"), Attr(X("r"), "end"), Attr(Attr(X("s"), "begin"), "begin"), X("s"), [t |-> "negpow", lhs |-> I(2), rhs |-> I(3)],
               [t |-> "unary", op |-> "-@", expr |-> Plus(I(2), I(3))], [t |-> "unary", op |-> "!", expr |-> I(2)], Binary(I(7), "-", Binary(I(2), "*", I(3))),
               Binary(I(2), "!=", I(3)), Is(I(2), Plus(I(1), I(1))), Is(Quoted("a"), I(1))>>)>>),
     \* the conditions
     Do(<<R([t |-> "ternary", cond |-> Out("a"), body |-> IfElse(Out("b"), I(1), [t |-> "elsif", cond |-> Out("c"), body |-> I(2), els |-> I(3)]), els |-> I(4)])>>),
     Do(<<Set(Lv("i"), I(0)), Modified("unlessmod", Out("a"), Set(Lv("j"), I(5))), Modified("untilmod", Not(Less(X("i"), I(2))), OpSet(Lv("i"), "+", I(1))),
          Set(G("s"), Unless(Out("b"), I(1), I(2))), Rs(<<X("i"), X("j"), IfElse(Out("d"), I(3), None), WhileDo(I(1), Break(<<>>))>>)>>),
     \* assignments of what a rescue gives, of lists; calls without parentheses
     Do(<<Def("m", <<Req("a"), Blockarg("k")>>, Do(<<IfMod(X("k"), Yield(<<X("a")>>)), X("a")>>)), Set(Lv("z"), I(0)), Set(Lv("u"), I(1)),
          [t |-> "asgnlist", target |-> Lv("x"), values |-> <<I(1), Splat(Arr(<<I(2), I(3)>>))>>],
          [t |-> "asgnrescue", target |-> Lv("y"), value |-> Out("a"), alt |-> I(4)],
          [t |-> "opasgnrescue", target |-> Lv("u"), op |-> "+", value |-> Do(<<Out("b"), I(6)>>), alt |-> I(5)],
          [t |-> "opasgnrescue", target |-> G("w"), op |-> "||", value |-> Do(<<Out("d"), I(6)>>), alt |-> I(7)],
          Set(G("v"), [t |-> "masgnlist", targets |-> <<Lv("p"), Star(Lv("q"))>>, values |-> <<X("u"), X("y"), X("x")>>]),
          [t |-> "fcmd", name |-> "m", args |-> <<I(8)>>, blk |-> Blk(<<Req("b")>>, {"z"}, Set(Lv("z"), Plus(X("b"), I(1))))],
          Rs(<<X("x"), X("y"), X("u"), X("p"), X("q"), X("z"), [t |-> "cmd", recv |-> Self, name |-> "m", args |-> <<I(9)>>, blk |-> None]>>)>>) >>

Catch(n, b) == FB("catch", <<Sy(n)>>, Blk(<<>>, {}, b))
ThrowTo(n, args) == F("throw", <<Sy(n)>> \o args)
Throws ==
  << Do(<<Def("m", <<>>, Ensure(Rescue(IfMod(Out("p"), ThrowTo("a", <<I(3)>>)), <<On(<<>>, None, I(4))>>), Out("n"))),
          R(Arr(<<Catch("a", Do(<<F("m", <<>>), I(5)>>)), I(6)>>))>>),
     \* the throw goes to the innermost catch of its name, through those of others
     Do(<<R(Catch("a", Arr(<<Catch("b", Do(<<Catch("a", Do(<<IfMod(Out("p"), ThrowTo("b", <<>>)), IfMod(Out("q"), ThrowTo("a", <<I(1)>>)), I(2)>>)), I(3)>>)), I(4)>>)))>>),
     \* a name counts until its catch has ended, whatever way it ends
     Do(<<Def("m", <<>>, Catch("a", IfElse(Out("p"), Return(<<I(1)>>), Break(<<I(2)>>)))),
          Rs(<<Or0(F("m", <<>>)), OnArgs(ThrowTo("a", <<>>)), Catch("a", Do(<<Or0(Catch("a", Fail("E1"))), ThrowTo("a", <<I(7)>>)>>)),
               Rescue(Catch("a", ThrowTo("b", <<>>)), <<On(<<C("ArgumentError")>>, None, I(8))>>)>>)>>),
     \* an ensure clause takes the place of the throw it was run for
     Do(<<Def("m", <<>>, Catch("a", Ensure(ThrowTo("a", <<I(1)>>), IfMod(Out("p"), Return(<<I(2)>>))))),
          R(F("m", <<>>))>>),
     Do(<<Set(G("f"), FB("proc", <<>>, Blk(<<>>, {}, ThrowTo("a", <<I(1)>>)))), Set(G("g"), Lambda(<<>>, {}, Do(<<Attr(G("f"), "call"), Out("z")>>))),
          Rs(<<Catch("a", Do(<<Catch("b", Attr(G("g"), "call")), Out("y")>>)), OnArgs(Attr(G("g"), "call"))>>)>>) >>

(* Every operation on every pair of whole numbers about the limits of a     *)
(* small machine integer, where the methods that do not check for overflow  *)
(* (divmod, a shift by a negative count) are not asked to leave it.         *)
N(i) == [t |-> "number", value |-> i]
Minus(x)  == [t |-> "unary", op |-> "-@", expr |-> x]
OnNumbers(x) == Rescue(x, <<On(<<C("ZeroDivisionError")>>, None, Sy("zero"))>>)
Smallest == Binary(N(-127), "-", N(1))
Limits == <<N(0), N(1), N(-1), N(3), N(-7), N(127), N(128), N(-127), N(-128), N(-300)>>
Sums ==
  LET ops == <<"+", "-", "*", "==", "!=", "/", "%", "<", "<=", ">", ">=">>
      words == <<N(0), N(1), N(-1), N(3), N(-7), N(127), N(-127)>>
      Apply(a, op, b) == IF b = N(0) /\ op \in {"/", "div", "%", "divmod"} THEN OnNumbers(Binary(a, op, b)) ELSE Binary(a, op, b)
      AllOf(os, a, b) == Arr([j \in 1..Len(os) |-> Apply(a, os[j], b)])
      Table(a, bs, os) == Rs([i \in 1..Len(bs) |-> AllOf(os, a, bs[i])])
  IN [i \in 1..Len(Limits) |-> Table(Limits[i], Limits, ops)]
     \o [i \in 1..Len(words) |-> Table(words[i], words, <<"&", "|", "^", "<=>", "coerce">>)]
     \o [i \in 1..4 |-> Table(<<N(0), N(20), N(-20), N(61)>>[i], SubSeq(words, 1, 5), <<"divmod", "div">>)]
     \o << Table(Smallest, <<N(0), N(1), N(3), N(128), Smallest>>, ops),
            Rs([i \in 1..Len(words) |-> Arr(<<Binary(words[i], "**", N(0)), Binary(words[i], "**", N(3)), Binary(words[i], "<<", N(2)), Binary(words[i], "<<", N(9)),
                 Binary(words[i], "<<", N(-2)), Binary(words[i], ">>", N(3)), Binary(words[i], "[]", N(1)), Binary(words[i], "[]", N(6)), Minus(words[i])>>)]),
            Rs(<<Minus(Smallest), Minus(N(200)), Binary(N(2), "**", N(7)), Binary(N(-2), "**", N(7)), Binary(N(3), "**", N(9)),
                 OnNumbers(Binary(N(200), "divmod", N(0))), Binary(N(200), "divmod", N(-7)), Binary(N(5), "divmod", N(200)), Binary(N(200), "<=>", N(5)),
                 Binary(N(200), "coerce", N(5)), Binary(N(200), "<<", N(3)), Binary(N(200), "**", N(2)), Binary(N(1), ">>", N(-3)), OnArgs(Binary(N(5), "+", V(Nil)))>>) >>
=============================================================================
